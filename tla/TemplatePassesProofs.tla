------------------------ MODULE TemplatePassesProofs ------------------------
(***************************************************************************)
(* The names of template instantiations are in memory as long as anything  *)
(* points to them, and the view shows every instantiation under its own    *)
(* names, for traces of any length, sums that overflow included.           *)
(*                                                                         *)
(* The argument follows the passes.  In the first, no key has a pointer    *)
(* yet, so that erasing names at its end leaves none dangling.  In the     *)
(* second, a specialization to show waits for its name, which comes after  *)
(* all its instantiations; what still waits at the end has no name in the  *)
(* trace.                                                                  *)
(*                                                                         *)
(* What is shown is what took long: what the first pass has added up are   *)
(* sums over the trace so far, remainders when they overflow.              *)
(***************************************************************************)
EXTENDS TemplatePasses, FiniteSetTheorems, WellFoundedInduction, TLAPS

Events == Instantiation \cup Symbol

\* Where the session is decides what the passes have counted.
PassInv ==
  /\ phase = "analysis" => /\ analysisCount_ = 2 /\ analysisPass_ \in 1 .. analysisPassCount
                           /\ shown = {}
  /\ phase = "relogging" => analysisCount_ = 1 /\ analysisPass_ \in 2 .. 3
  /\ phase = "done" => analysisCount_ = 0 /\ analysisPass_ \in 2 .. 3
  /\ phase \in {"analysis", "relogging", "done"}
  /\ Recording => pos = Len(trace)

\* A key has one name, which comes after all instantiations with the key.
TraceInv ==
  /\ \A i, j \in SymbolNames : trace[i].key = trace[j].key => i = j
  /\ \A i \in Instantiations, j \in SymbolNames :
       trace[j].key = trace[i].specialization => i < j

\* Whatever the cache says of a key is its name in the trace.
PointersInv ==
  /\ \A k \in Keys : keysToConsider_[k] # Null => IsNamed(k) /\ keysToConsider_[k] = NameOf(k)
  /\ \A n \in Names : primaryTemplateStats_[n] # Null =>
       \A k \in primaryTemplateStats_[n].PrimaryKeys : IsNamed(k) /\ NameOf(k) = n
  /\ localSpecializationKeysToConsider_ \subseteq SpecializationKeys
  /\ Recording => \A k \in Keys : keysToConsider_[k] = Null

SpecializationKnown(i) ==
  /\ IsNamed(trace[i].specialization)
  /\ keysToConsider_[trace[i].specialization] = NameOf(trace[i].specialization)

SpecializationWaits(i) ==
  /\ trace[i].specialization \in localSpecializationKeysToConsider_
  /\ \A j \in SymbolNames : trace[j].key = trace[i].specialization => pos < j

\* What the second pass has found out about the instantiations it has seen.
SecondPassInv ==
  phase = "analysis" /\ analysisPass_ = 2 =>
    \A i \in Instantiations : i <= pos /\ IsConsidered(trace[i].primary) =>
      SpecializationKnown(i) \/ SpecializationWaits(i)

\* What the relogging pass may count on.
RelogInv ==
  phase \in {"relogging", "done"} /\ isEnabled_ =>
    \A i \in Instantiations : IsConsidered(trace[i].primary) =>
      \/ SpecializationKnown(i)
      \/ /\ ~ IsNamed(trace[i].specialization)
         /\ keysToConsider_[trace[i].specialization] = Null

IInv ==
  TypeOK /\ PassInv /\ TraceInv /\ PointersInv /\ NamesAlive /\ SecondPassInv /\ RelogInv
  /\ ShownByName

-----------------------------------------------------------------------------
(* Events, names and numbers. *)

LEMMA EventFields ==
  ASSUME NEW e \in Events
  PROVE  /\ e.type = "instantiation" <=> e \in Instantiation
         /\ e.type = "symbol" <=> e \in Symbol
         /\ e \in Instantiation => /\ e.primary \in PrimaryKeys /\ e.primary \in Keys
                                   /\ e.specialization \in SpecializationKeys
                                   /\ e.specialization \in Keys
                                   /\ e.duration \in Durations
         /\ e \in Symbol => e.key \in Keys /\ e.name \in Names
  BY DEF Events, Instantiation, Symbol, Keys

LEMMA NullIsNoEntry ==
  /\ Null \notin Names /\ Null \notin Nat /\ Null \notin PrimaryTemplateStats
  /\ \A n \in Names : n # Null
  BY NullAssumption, NoStatsAssumption

\* The only symbol event of a key tells its name.
NamesDetermined ==
  \A j \in SymbolNames : IsNamed(trace[j].key) /\ NameOf(trace[j].key) = trace[j].name

LEMMA NameOfUnique == TraceInv => NamesDetermined
<1> SUFFICES ASSUME TraceInv, NEW j \in SymbolNames
             PROVE  IsNamed(trace[j].key) /\ NameOf(trace[j].key) = trace[j].name
  BY DEF NamesDetermined
<1>1. IsNamed(trace[j].key)
  BY DEF IsNamed
<1>2. \A i \in SymbolNames : trace[i].key = trace[j].key => i = j
  BY DEF TraceInv
<1> QED BY <1>1, <1>2 DEF NameOf

LEMMA TraceFacts ==
  ASSUME TypeOK
  PROVE  /\ trace \in Seq(Events)
         /\ Len(trace) \in Nat
         /\ DOMAIN trace = 1 .. Len(trace)
         /\ pos \in 0 .. Len(trace)
         /\ \A i \in Instantiations : i \in 1 .. Len(trace) /\ trace[i] \in Instantiation
         /\ \A i \in SymbolNames : i \in 1 .. Len(trace) /\ trace[i] \in Symbol
<1>1. trace \in Seq(Events) /\ pos \in 0 .. Len(trace)
  BY DEF TypeOK, PassTypeOK, Events
<1>2. \A i \in 1 .. Len(trace) : trace[i] \in Events
  BY <1>1
<1> QED BY <1>1, <1>2, EventFields DEF Instantiations, SymbolNames

\* What a further event changes about the trace.
LEMMA TraceGrows ==
  ASSUME TypeOK, NEW e \in Events, trace' = Append(trace, e)
  PROVE  /\ trace' \in Seq(Events)
         /\ Len(trace') = Len(trace) + 1
         /\ trace'[Len(trace) + 1] = e
         /\ \A i \in 1 .. Len(trace) : trace'[i] = trace[i]
         /\ Instantiations' = Instantiations \cup (IF e \in Instantiation THEN {Len(trace) + 1} ELSE {})
         /\ SymbolNames' = SymbolNames \cup (IF e \in Symbol THEN {Len(trace) + 1} ELSE {})
<1>1. trace \in Seq(Events)
  BY TraceFacts
<1>2. /\ trace' \in Seq(Events)
      /\ Len(trace') = Len(trace) + 1
      /\ trace'[Len(trace) + 1] = e
      /\ \A i \in 1 .. Len(trace) : trace'[i] = trace[i]
      /\ DOMAIN trace = 1 .. Len(trace)
      /\ DOMAIN trace' = 1 .. (Len(trace) + 1)
      /\ Len(trace) \in Nat
  BY <1>1
<1>3. \A i \in DOMAIN trace' : i \in DOMAIN trace \/ i = Len(trace) + 1
  BY <1>2
<1>4. Len(trace) + 1 \notin DOMAIN trace /\ DOMAIN trace \subseteq DOMAIN trace'
      /\ Len(trace) + 1 \in DOMAIN trace'
  BY <1>2
<1>5. /\ e.type = "instantiation" <=> e \in Instantiation
      /\ e.type = "symbol" <=> e \in Symbol
  BY EventFields
<1>6. Instantiations' = Instantiations \cup (IF e \in Instantiation THEN {Len(trace) + 1} ELSE {})
  BY <1>2, <1>3, <1>4, <1>5 DEF Instantiations
<1>7. SymbolNames' = SymbolNames \cup (IF e \in Symbol THEN {Len(trace) + 1} ELSE {})
  BY <1>2, <1>3, <1>4, <1>5 DEF SymbolNames
<1> QED BY <1>2, <1>6, <1>7

LEMMA SumType ==
  ASSUME NEW x \in UInt \cup {Null}, NEW d \in Durations
  PROVE  /\ Microseconds(d) \in UInt
         /\ OrZero(x) \in UInt
         /\ \A y \in UInt : Sum(OrZero(x), y) \in UInt
<1>1. UIntLimit \in Nat /\ UIntLimit > 0 /\ NsPerUs \in Nat /\ NsPerUs > 0 /\ d \in Nat
  BY NumberAssumption, DurationAssumption
<1>2. d \div NsPerUs \in Nat
  BY <1>1
<1>3. \A n \in Nat : n % UIntLimit \in UInt
  BY <1>1 DEF UInt
<1>4. OrZero(x) \in UInt
  BY <1>1, NullIsNoEntry DEF OrZero, UInt
<1>5. \A y \in UInt : OrZero(x) + y \in Nat
  BY <1>4, <1>1 DEF UInt
<1> QED BY <1>2, <1>3, <1>4, <1>5 DEF Microseconds, Sum

-----------------------------------------------------------------------------
(* What dispatching an event does to the passes. *)

LEMMA RecordingDispatch ==
  ASSUME IInv, NEW e \in Events, Recording, Dispatch(e)
  PROVE  /\ trace' = Append(trace, e)
         /\ UNCHANGED <<phase, analysisCount_, analysisPass_, isEnabled_>>
         /\ PassTypeOK(Events)'
         /\ phase = "analysis" /\ analysisPass_ = 1 /\ analysisCount_ = 2
         /\ shown = {}
         /\ pos' = Len(trace') /\ pos = Len(trace) /\ Len(trace) \in Nat
         /\ Recording'
<1>1. /\ trace' = Append(trace, e)
      /\ pos' = pos + 1
      /\ UNCHANGED <<phase, analysisCount_, analysisPass_, isEnabled_>>
  BY DEF Dispatch
<1>2. phase = "analysis" /\ analysisPass_ = 1 /\ analysisCount_ = 2 /\ pos = Len(trace) /\ shown = {}
  BY DEF IInv, PassInv, Recording
<1>3. /\ trace' \in Seq(Events) /\ Len(trace') = Len(trace) + 1
      /\ Len(trace) \in Nat
  BY <1>1, TraceGrows, TraceFacts DEF IInv
<1>4. PassTypeOK(Events)'
  BY <1>1, <1>2, <1>3 DEF IInv, TypeOK, PassTypeOK
<1> QED BY <1>1, <1>2, <1>3, <1>4 DEF Recording

LEMMA ReplayDispatch ==
  ASSUME IInv, NEW e \in Events, ~ Recording, Dispatch(e)
  PROVE  /\ trace' = trace
         /\ UNCHANGED <<phase, analysisCount_, analysisPass_, isEnabled_>>
         /\ PassTypeOK(Events)'
         /\ pos' = pos + 1 /\ pos \in Nat
         /\ pos + 1 \in DOMAIN trace /\ trace[pos + 1] = e
         /\ e \in Instantiation => pos + 1 \in Instantiations
         /\ e \in Symbol => pos + 1 \in SymbolNames
         /\ ~ Recording'
         /\ \/ phase = "analysis" /\ analysisPass_ = 2 /\ isEnabled_ /\ analysisCount_ = 2
            \/ phase = "relogging" /\ analysisCount_ = 1
<1>1. /\ trace' = trace
      /\ pos' = pos + 1
      /\ UNCHANGED <<phase, analysisCount_, analysisPass_, isEnabled_>>
      /\ phase \in {"analysis", "relogging"}
      /\ pos < Len(trace) /\ e = trace[pos + 1]
  BY DEF Dispatch
<1>2. /\ pos \in Nat /\ Len(trace) \in Nat
      /\ pos + 1 \in DOMAIN trace
      /\ pos' \in 0 .. Len(trace)
  BY <1>1, TraceFacts DEF IInv
<1>3. PassTypeOK(Events)'
  BY <1>1, <1>2, TraceFacts DEF IInv, TypeOK, PassTypeOK
<1>4. \/ phase = "analysis" /\ analysisPass_ = 2 /\ isEnabled_ /\ analysisCount_ = 2
      \/ phase = "relogging" /\ analysisCount_ = 1
  BY <1>1 DEF IInv, PassInv, Recording, analysisPassCount
<1>5. /\ e \in Instantiation => pos + 1 \in Instantiations
      /\ e \in Symbol => pos + 1 \in SymbolNames
  BY <1>1, <1>2, EventFields DEF Instantiations, SymbolNames
<1> QED BY <1>1, <1>2, <1>3, <1>4, <1>5 DEF Recording

\* A new event leaves the names of the keys that have one alone.
LEMMA NamesKept ==
  ASSUME IInv, NEW e \in Events, trace' = Append(trace, e),
         e \in Instantiation => ~ IsNamed(e.specialization),
         e \in Symbol => ~ IsNamed(e.key)
  PROVE  /\ TraceInv'
         /\ \A k \in Keys : IsNamed(k) => IsNamed(k)' /\ NameOf(k)' = NameOf(k)
         /\ e \in Symbol => IsNamed(e.key)' /\ NameOf(e.key)' = e.name
<1>1. /\ \A i \in 1 .. Len(trace) : trace'[i] = trace[i]
      /\ trace'[Len(trace) + 1] = e
      /\ Instantiations' = Instantiations \cup (IF e \in Instantiation THEN {Len(trace) + 1} ELSE {})
      /\ SymbolNames' = SymbolNames \cup (IF e \in Symbol THEN {Len(trace) + 1} ELSE {})
  BY TraceGrows DEF IInv
<1>2. /\ \A i \in Instantiations : i \in 1 .. Len(trace)
      /\ \A i \in SymbolNames : i \in 1 .. Len(trace)
      /\ Len(trace) \in Nat
  BY TraceFacts DEF IInv
<1>3. \A i, j \in SymbolNames' : trace'[i].key = trace'[j].key => i = j
  BY <1>1, <1>2 DEF IInv, TraceInv, IsNamed
<1>4. \A i \in Instantiations', j \in SymbolNames' :
        trace'[j].key = trace'[i].specialization => i < j
  <2> SUFFICES ASSUME NEW i \in Instantiations', NEW j \in SymbolNames',
                      trace'[j].key = trace'[i].specialization
               PROVE  i < j
    OBVIOUS
  <2>1. CASE i \in Instantiations /\ j \in SymbolNames
    BY <2>1, <1>1, <1>2 DEF IInv, TraceInv
  <2>2. CASE i \in Instantiations /\ j \notin SymbolNames
    BY <2>2, <1>1, <1>2
  <2>3. CASE i \notin Instantiations
    <3>1. i = Len(trace) + 1 /\ e \in Instantiation
      BY <2>3, <1>1
    <3>2. e \notin Symbol
      BY <3>1, EventFields
    <3>3. j \in SymbolNames
      BY <3>2, <1>1
    <3> QED BY <3>1, <3>3, <1>1, <1>2 DEF IsNamed
  <2> QED BY <2>1, <2>2, <2>3
<1>5. TraceInv'
  BY <1>3, <1>4 DEF TraceInv
<1>6. NamesDetermined'
  BY <1>5, NameOfUnique, PTL
<1>7. ASSUME NEW k \in Keys, IsNamed(k)
      PROVE  IsNamed(k)' /\ NameOf(k)' = NameOf(k)
  <2>1. PICK j \in SymbolNames : trace[j].key = k
    BY <1>7 DEF IsNamed
  <2>2. j \in SymbolNames' /\ trace'[j] = trace[j]
    BY <2>1, <1>1, <1>2
  <2>3. NameOf(k) = trace[j].name
    BY <2>1, NameOfUnique DEF IInv, NamesDetermined
  <2>4. trace'[j].key = k /\ trace'[j].name = NameOf(k)
    BY <2>1, <2>2, <2>3
  <2> QED BY <2>2, <2>4, <1>6 DEF NamesDetermined
<1>8. e \in Symbol => IsNamed(e.key)' /\ NameOf(e.key)' = e.name
  <2> SUFFICES ASSUME e \in Symbol PROVE IsNamed(e.key)' /\ NameOf(e.key)' = e.name
    OBVIOUS
  <2>1. Len(trace) + 1 \in SymbolNames'
    BY <1>1
  <2> QED BY <2>1, <1>1, <1>6 DEF NamesDetermined
<1> QED BY <1>5, <1>7, <1>8

\* A trace that stays the same keeps all that is said of it.
LEMMA SameTrace ==
  ASSUME IInv, trace' = trace
  PROVE  /\ TraceInv'
         /\ Instantiations' = Instantiations /\ SymbolNames' = SymbolNames
         /\ \A k \in Keys : (IsNamed(k)' <=> IsNamed(k)) /\ NameOf(k)' = NameOf(k)
<1>1. Instantiations' = Instantiations /\ SymbolNames' = SymbolNames
  BY DEF Instantiations, SymbolNames
<1> QED BY <1>1 DEF IInv, TraceInv, IsNamed, NameOf

-----------------------------------------------------------------------------
(* The first pass. *)

\* A recorded event leaves everything about the other passes vacuous.
LEMMA RecordingVacuous ==
  ASSUME IInv, NEW e \in Events, Recording, Dispatch(e), UNCHANGED shown
  PROVE  PassInv' /\ SecondPassInv' /\ RelogInv' /\ ShownByName' /\ shown' \subseteq Shown
<1>1. /\ UNCHANGED <<phase, analysisCount_, analysisPass_, isEnabled_>>
      /\ phase = "analysis" /\ analysisPass_ = 1 /\ shown' = {} /\ pos' = Len(trace')
  BY RecordingDispatch
<1> QED BY <1>1 DEF IInv, PassInv, SecondPassInv, RelogInv, ShownByName, analysisPassCount

LEMMA RecordInstantiation ==
  ASSUME IInv, NEW e \in Instantiation, Recording, TemplateInstantiation(e)
  PROVE  IInv'
<1>1. e \in Events /\ e \notin Symbol
  BY EventFields DEF Events
<1>2. Dispatch(e) /\ ~ IsNamed(e.specialization)
  BY DEF TemplateInstantiation
<1>3. /\ trace' = Append(trace, e)
      /\ phase = "analysis" /\ analysisPass_ = 1 /\ analysisCount_ = 2
      /\ PassTypeOK(Events)' /\ Recording'
  BY <1>1, <1>2, RecordingDispatch
<1>4. /\ UNCHANGED <<traceDuration_, cachedSymbolNames_, keysToConsider_,
                     primaryTemplateStats_, localSpecializationKeysToConsider_>>
      /\ localPrimaryTemplateTimes_' \in [Keys -> UInt \cup {Null}]
  <2>1. CASE isEnabled_
    <3>1. Phase1RegisterPrimaryTemplateLocalTime(e.primary, e.duration)
      BY <2>1, <1>3 DEF TemplateInstantiation, CacheInstantiation, MustCache, IsRelogging
    <3>2. e.primary \in Keys /\ e.duration \in Durations
      BY <1>1, EventFields
    <3>3. localPrimaryTemplateTimes_ \in [Keys -> UInt \cup {Null}]
      BY DEF IInv, TypeOK, CacheTypeOK
    <3>4. Sum(OrZero(localPrimaryTemplateTimes_[e.primary]), Microseconds(e.duration)) \in UInt
      BY <3>2, <3>3, SumType
    <3> QED BY <3>1, <3>3, <3>4 DEF Phase1RegisterPrimaryTemplateLocalTime
  <2>2. CASE ~ isEnabled_
    <3>1. UNCHANGED cacheVars
      BY <2>2 DEF TemplateInstantiation, CacheInstantiation, MustCache
    <3> QED BY <3>1 DEF cacheVars, IInv, TypeOK, CacheTypeOK
  <2> QED BY <2>1, <2>2
<1>5. UNCHANGED shown
  BY <1>3 DEF TemplateInstantiation, ViewShows
<1>6. /\ TraceInv'
      /\ \A k \in Keys : IsNamed(k) => IsNamed(k)' /\ NameOf(k)' = NameOf(k)
  BY <1>1, <1>2, <1>3, NamesKept
<1>7. PointersInv'
  <2>1. \A n \in Names : primaryTemplateStats_[n] # Null =>
          primaryTemplateStats_[n].PrimaryKeys \subseteq Keys
    BY DEF IInv, TypeOK, CacheTypeOK, PrimaryTemplateStats
  <2> QED BY <2>1, <1>4, <1>6 DEF IInv, PointersInv
<1>8. CacheTypeOK' /\ NamesAlive'
  BY <1>4 DEF IInv, TypeOK, CacheTypeOK, NamesAlive
<1> QED BY <1>1, <1>2, <1>3, <1>5, <1>6, <1>7, <1>8, RecordingVacuous DEF IInv, TypeOK, Events

LEMMA RecordSymbol ==
  ASSUME IInv, NEW s \in Symbol, Recording, SymbolName(s)
  PROVE  IInv'
<1> DEFINE k == s.key
           n == s.name
<1>1. s \in Events /\ s \notin Instantiation /\ k \in Keys /\ n \in Names /\ n # Null
  BY EventFields, NullIsNoEntry DEF Events
<1>2. Dispatch(s) /\ ~ IsNamed(s.key) /\ UNCHANGED shown
  BY DEF SymbolName
<1>3. /\ trace' = Append(trace, s)
      /\ phase = "analysis" /\ analysisPass_ = 1 /\ analysisCount_ = 2
      /\ PassTypeOK(Events)' /\ Recording'
  BY <1>1, <1>2, RecordingDispatch
<1>4. /\ TraceInv'
      /\ \A x \in Keys : IsNamed(x) => IsNamed(x)' /\ NameOf(x)' = NameOf(x)
      /\ IsNamed(k)' /\ NameOf(k)' = n
  BY <1>1, <1>2, <1>3, NamesKept
<1>5. \A m \in Names : primaryTemplateStats_[m] # Null =>
        /\ primaryTemplateStats_[m] \in PrimaryTemplateStats
        /\ primaryTemplateStats_[m].PrimaryKeys \subseteq Keys
        /\ primaryTemplateStats_[m].TotalMicroseconds \in UInt
  BY DEF IInv, TypeOK, CacheTypeOK, PrimaryTemplateStats
<1>6. /\ keysToConsider_ \in [Keys -> Names \cup {Null}]
      /\ primaryTemplateStats_ \in [Names -> PrimaryTemplateStats \cup {Null}]
      /\ localPrimaryTemplateTimes_ \in [Keys -> UInt \cup {Null}]
      /\ cachedSymbolNames_ \subseteq Names
  BY DEF IInv, TypeOK, CacheTypeOK
<1>7. CASE UNCHANGED cacheVars
  <2>1. PointersInv'
    BY <1>3, <1>4, <1>5, <1>7 DEF IInv, PointersInv, cacheVars
  <2>2. CacheTypeOK' /\ NamesAlive'
    BY <1>7 DEF IInv, TypeOK, CacheTypeOK, NamesAlive, cacheVars
  <2> QED BY <2>1, <2>2, <1>1, <1>2, <1>3, <1>4, RecordingVacuous DEF IInv, TypeOK, Events
<1>8. CASE /\ localPrimaryTemplateTimes_[k] # Null
           /\ Phase1MergePrimaryTemplateDuration(k, n)
  <2> DEFINE stats == StatsWith(n, k, localPrimaryTemplateTimes_[k])
  <2>1. /\ UNCHANGED <<traceDuration_, keysToConsider_, localSpecializationKeysToConsider_>>
        /\ cachedSymbolNames_' = cachedSymbolNames_ \cup {n}
        /\ primaryTemplateStats_' = [primaryTemplateStats_ EXCEPT ![n] = stats]
        /\ localPrimaryTemplateTimes_' = [localPrimaryTemplateTimes_ EXCEPT ![k] = Null]
    BY <1>8 DEF Phase1MergePrimaryTemplateDuration
  <2>2. localPrimaryTemplateTimes_[k] \in UInt
    BY <1>1, <1>6, <1>8
  <2>3. /\ stats \in PrimaryTemplateStats
        /\ \A x \in stats.PrimaryKeys :
             x = k \/ (primaryTemplateStats_[n] # Null /\ x \in primaryTemplateStats_[n].PrimaryKeys)
    <3>1. CASE primaryTemplateStats_[n] = Null
      BY <3>1, <2>2, <1>1 DEF StatsWith, PrimaryTemplateStats
    <3>2. CASE primaryTemplateStats_[n] # Null
      <4>1. Sum(primaryTemplateStats_[n].TotalMicroseconds, localPrimaryTemplateTimes_[k]) \in UInt
        <5>1. \A x \in Nat : x % UIntLimit \in UInt
          BY NumberAssumption DEF UInt
        <5>2. primaryTemplateStats_[n].TotalMicroseconds + localPrimaryTemplateTimes_[k] \in Nat
          BY <3>2, <2>2, <1>1, <1>5, NumberAssumption DEF UInt
        <5> QED BY <5>1, <5>2 DEF Sum
      <4> QED BY <3>2, <4>1, <1>1, <1>5 DEF StatsWith, PrimaryTemplateStats
    <3> QED BY <3>1, <3>2
  <2> HIDE DEF stats
  <2>4. /\ primaryTemplateStats_'[n] = stats
        /\ \A m \in Names \ {n} : primaryTemplateStats_'[m] = primaryTemplateStats_[m]
        /\ primaryTemplateStats_' \in [Names -> PrimaryTemplateStats \cup {Null}]
    BY <2>1, <2>3, <1>1, <1>6
  <2>5. CacheTypeOK'
    BY <2>1, <2>4, <1>1, <1>6 DEF IInv, TypeOK, CacheTypeOK
  <2>6. NamesAlive'
    BY <2>1, <2>4, <1>1 DEF IInv, NamesAlive
  <2>7. \A m \in Names : primaryTemplateStats_'[m] # Null =>
          \A x \in primaryTemplateStats_'[m].PrimaryKeys : IsNamed(x)' /\ NameOf(x)' = m
    <3> SUFFICES ASSUME NEW m \in Names, primaryTemplateStats_'[m] # Null,
                        NEW x \in primaryTemplateStats_'[m].PrimaryKeys
                 PROVE  IsNamed(x)' /\ NameOf(x)' = m
      OBVIOUS
    <3>1. CASE m = n /\ x = k
      BY <3>1, <1>4
    <3>2. CASE ~ (m = n /\ x = k)
      <4>1. primaryTemplateStats_[m] # Null /\ x \in primaryTemplateStats_[m].PrimaryKeys
        BY <3>2, <2>3, <2>4
      <4>2. x \in Keys /\ IsNamed(x) /\ NameOf(x) = m
        BY <4>1, <1>5 DEF IInv, PointersInv
      <4> QED BY <4>2, <1>4
    <3> QED BY <3>1, <3>2
  <2>8. PointersInv'
    BY <2>1, <2>7, <1>3, <1>4 DEF IInv, PointersInv
  <2> QED BY <2>5, <2>6, <2>8, <1>1, <1>2, <1>3, <1>4, RecordingVacuous DEF IInv, TypeOK, Events
<1>9. CASE /\ localPrimaryTemplateTimes_[k] = Null
           /\ Phase1MergePrimaryTemplateDuration(k, n)
  <2>1. UNCHANGED cacheVars
    BY <1>9 DEF Phase1MergePrimaryTemplateDuration, cacheVars
  <2> QED BY <2>1, <1>7
<1>10. UNCHANGED cacheVars \/ Phase1MergePrimaryTemplateDuration(k, n)
  BY <1>3 DEF SymbolName, CacheSymbol, MustCache, IsRelogging
<1> QED BY <1>7, <1>8, <1>9, <1>10

-----------------------------------------------------------------------------
(* The second pass and the relogging pass. *)

LEMMA ReplayInstantiation ==
  ASSUME IInv, NEW e \in Instantiation, ~ Recording, TemplateInstantiation(e)
  PROVE  IInv'
<1> DEFINE i0 == pos + 1
<1>1. e \in Events /\ e.primary \in Keys /\ e.specialization \in Keys
      /\ e.specialization \in SpecializationKeys
  BY EventFields DEF Events
<1>2. /\ trace' = trace
      /\ UNCHANGED <<phase, analysisCount_, analysisPass_, isEnabled_>>
      /\ PassTypeOK(Events)'
      /\ pos' = i0 /\ pos \in Nat /\ trace[i0] = e
      /\ i0 \in Instantiations
      /\ ~ Recording'
      /\ \/ phase = "analysis" /\ analysisPass_ = 2 /\ isEnabled_ /\ analysisCount_ = 2
         \/ phase = "relogging" /\ analysisCount_ = 1
  BY <1>1, ReplayDispatch DEF TemplateInstantiation
<1>3. /\ TraceInv'
      /\ Instantiations' = Instantiations /\ SymbolNames' = SymbolNames
      /\ \A k \in Keys : (IsNamed(k)' <=> IsNamed(k)) /\ NameOf(k)' = NameOf(k)
  BY <1>2, SameTrace
<1>4. /\ \A i \in Instantiations : /\ i \in 1 .. Len(trace)
                                  /\ trace[i].primary \in Keys /\ trace[i].specialization \in Keys
      /\ \A j \in SymbolNames : j \in 1 .. Len(trace)
      /\ Len(trace) \in Nat
  <2>1. \A i \in Instantiations : i \in 1 .. Len(trace) /\ trace[i] \in Instantiation
    BY TraceFacts DEF IInv
  <2>2. \A x \in Instantiation : x.primary \in Keys /\ x.specialization \in Keys
    BY EventFields DEF Events
  <2> QED BY <2>1, <2>2, TraceFacts DEF IInv
<1>5. PassInv'
  <2>1. phase = "analysis" => UNCHANGED shown
    BY DEF TemplateInstantiation, ViewShows
  <2> QED BY <1>2, <2>1 DEF IInv, PassInv, analysisPassCount
<1>6. CASE phase = "analysis"
  <2>1. Phase2RegisterSpecializationKey(e.primary, e.specialization)
    BY <1>2, <1>6 DEF TemplateInstantiation, CacheInstantiation, MustCache, IsRelogging
  <2>2. /\ UNCHANGED <<traceDuration_, cachedSymbolNames_, keysToConsider_,
                       primaryTemplateStats_, localPrimaryTemplateTimes_>>
        /\ localSpecializationKeysToConsider_' =
             IF keysToConsider_[e.primary] # Null
               THEN localSpecializationKeysToConsider_ \cup {e.specialization}
               ELSE localSpecializationKeysToConsider_
    BY <2>1 DEF Phase2RegisterSpecializationKey
  <2>3. UNCHANGED shown
    BY <1>6 DEF TemplateInstantiation, ViewShows
  <2>4. TypeOK' /\ NamesAlive'
    BY <1>1, <1>2, <2>2, <2>3 DEF IInv, TypeOK, CacheTypeOK, NamesAlive, Events
  <2>5. PointersInv'
    <3>1. \A n \in Names : primaryTemplateStats_[n] # Null =>
            primaryTemplateStats_[n].PrimaryKeys \subseteq Keys
      BY DEF IInv, TypeOK, CacheTypeOK, PrimaryTemplateStats
    <3> QED BY <3>1, <1>1, <1>2, <1>3, <2>2 DEF IInv, PointersInv
  <2>6. SecondPassInv'
    <3> SUFFICES ASSUME NEW i \in Instantiations, i <= i0, IsConsidered(trace[i].primary)
                 PROVE  SpecializationKnown(i)' \/ SpecializationWaits(i)'
      BY <1>2, <1>3, <2>2 DEF SecondPassInv, IsConsidered
    <3>1. CASE i = i0
      <4>1. e.specialization \in localSpecializationKeysToConsider_'
        BY <3>1, <1>2, <2>2 DEF IsConsidered
      <4>2. \A j \in SymbolNames : trace[j].key = e.specialization => i0 < j
        BY <1>2 DEF IInv, TraceInv
      <4> QED BY <3>1, <4>1, <4>2, <1>2, <1>3 DEF SpecializationWaits
    <3>2. CASE i # i0
      <4>1. i <= pos
        BY <3>2, <1>2, <1>4
      <4>2. SpecializationKnown(i) \/ SpecializationWaits(i)
        BY <4>1, <1>2, <1>6 DEF IInv, SecondPassInv
      <4>3. CASE SpecializationKnown(i)
        BY <4>3, <1>2, <1>3, <1>4, <2>2 DEF SpecializationKnown
      <4>4. CASE SpecializationWaits(i)
        <5>1. \A j \in SymbolNames : trace[j].key = trace[i].specialization => i0 < j
          <6> SUFFICES ASSUME NEW j \in SymbolNames, trace[j].key = trace[i].specialization
                       PROVE  i0 < j
            OBVIOUS
          <6>1. pos < j
            BY <4>4 DEF SpecializationWaits
          <6>2. j # i0
            <7>1. trace[j] \in Symbol /\ e \notin Symbol
              BY <1>1, TraceFacts, EventFields DEF IInv
            <7> QED BY <7>1, <1>2
          <6> QED BY <6>1, <6>2, <1>2, <1>4
        <5> QED BY <4>4, <5>1, <1>2, <1>3, <2>2 DEF SpecializationWaits
      <4> QED BY <4>2, <4>3, <4>4
    <3> QED BY <3>1, <3>2
  <2>7. RelogInv' /\ ShownByName'
    <3>1. shown = {}
      BY <1>6 DEF IInv, PassInv
    <3> QED BY <3>1, <2>3, <1>2, <1>6 DEF RelogInv, ShownByName
  <2> QED BY <1>3, <1>5, <2>4, <2>5, <2>6, <2>7 DEF IInv
<1>7. CASE phase = "relogging"
  <2>1. UNCHANGED cacheVars
    BY <1>2, <1>7 DEF TemplateInstantiation, CacheInstantiation, MustCache, IsRelogging
  <2>2. UNCHANGED <<traceDuration_, cachedSymbolNames_, keysToConsider_, primaryTemplateStats_,
                    localPrimaryTemplateTimes_, localSpecializationKeysToConsider_>>
    BY <2>1 DEF cacheVars
  <2>3. shown' = IF isEnabled_ /\ IsConsidered(e.primary)
                   THEN shown \cup {[at |-> i0, primary |-> keysToConsider_[e.primary],
                                     specialization |-> keysToConsider_[e.specialization]]}
                   ELSE shown
    BY <1>7 DEF TemplateInstantiation, ViewShows, SpecializationName
  <2>4. TypeOK' /\ NamesAlive'
    <3>1. /\ keysToConsider_[e.primary] \in Names \cup {Null}
          /\ keysToConsider_[e.specialization] \in Names \cup {Null}
          /\ i0 \in Nat
      BY <1>1, <1>2 DEF IInv, TypeOK, CacheTypeOK
    <3>2. shown' \subseteq Shown
      BY <3>1, <2>3 DEF IInv, TypeOK, Shown
    <3> QED BY <3>2, <1>2, <2>2 DEF IInv, TypeOK, CacheTypeOK, NamesAlive, Events
  <2>5. PointersInv'
    <3>1. \A n \in Names : primaryTemplateStats_[n] # Null =>
            primaryTemplateStats_[n].PrimaryKeys \subseteq Keys
      BY DEF IInv, TypeOK, CacheTypeOK, PrimaryTemplateStats
    <3> QED BY <3>1, <1>2, <1>3, <2>2 DEF IInv, PointersInv
  <2>6. SecondPassInv'
    BY <1>2, <1>7 DEF SecondPassInv
  <2>7. RelogInv'
    BY <1>2, <1>3, <1>4, <1>7, <2>2 DEF IInv, RelogInv, IsConsidered, SpecializationKnown
  <2>8. ShownByName'
    <3> DEFINE Named(x) ==
          LET i == trace[x.at] IN
          /\ i \in Instantiation
          /\ x.primary = NameOf(i.primary)
          /\ x.specialization = IF IsNamed(i.specialization) THEN NameOf(i.specialization) ELSE Null
    <3>1. \A x \in shown : Named(x)
      BY DEF IInv, ShownByName
    <3>2. ASSUME isEnabled_, IsConsidered(e.primary)
          PROVE  Named([at |-> i0, primary |-> keysToConsider_[e.primary],
                        specialization |-> keysToConsider_[e.specialization]])
      <4>1. keysToConsider_[e.primary] = NameOf(e.primary)
        BY <3>2, <1>1 DEF IInv, PointersInv, IsConsidered
      <4>2. keysToConsider_[e.specialization] =
              IF IsNamed(e.specialization) THEN NameOf(e.specialization) ELSE Null
        BY <3>2, <1>2, <1>7 DEF IInv, RelogInv, SpecializationKnown
      <4> QED BY <4>1, <4>2, <1>2
    <3>3. \A x \in shown' : Named(x)
      BY <3>1, <3>2, <2>3
    <3>4. \A x \in shown' : trace[x.at] \in Instantiation =>
            trace[x.at].primary \in Keys /\ trace[x.at].specialization \in Keys
      BY EventFields DEF Events
    <3> QED BY <3>3, <3>4, <1>2, <1>3 DEF ShownByName
  <2> QED BY <1>3, <1>5, <2>4, <2>5, <2>6, <2>7, <2>8 DEF IInv
<1> QED BY <1>2, <1>6, <1>7

LEMMA ReplaySymbol ==
  ASSUME IInv, NEW s \in Symbol, ~ Recording, SymbolName(s)
  PROVE  IInv'
<1> DEFINE i0 == pos + 1
           k == s.key
           n == s.name
<1>1. s \in Events /\ k \in Keys /\ n \in Names /\ n # Null
  BY EventFields, NullIsNoEntry DEF Events
<1>2. /\ trace' = trace
      /\ UNCHANGED <<phase, analysisCount_, analysisPass_, isEnabled_>>
      /\ PassTypeOK(Events)'
      /\ pos' = i0 /\ pos \in Nat /\ trace[i0] = s
      /\ i0 \in SymbolNames
      /\ ~ Recording'
      /\ \/ phase = "analysis" /\ analysisPass_ = 2 /\ isEnabled_ /\ analysisCount_ = 2
         \/ phase = "relogging" /\ analysisCount_ = 1
      /\ UNCHANGED shown
  BY <1>1, ReplayDispatch DEF SymbolName
<1>3. /\ TraceInv'
      /\ Instantiations' = Instantiations /\ SymbolNames' = SymbolNames
      /\ \A x \in Keys : (IsNamed(x)' <=> IsNamed(x)) /\ NameOf(x)' = NameOf(x)
  BY <1>2, SameTrace
<1>4. /\ \A i \in Instantiations : /\ i \in 1 .. Len(trace)
                                  /\ trace[i].primary \in PrimaryKeys
                                  /\ trace[i].primary \in Keys
                                  /\ trace[i].specialization \in Keys
      /\ \A j \in SymbolNames : j \in 1 .. Len(trace)
      /\ Len(trace) \in Nat
  <2>1. \A i \in Instantiations : i \in 1 .. Len(trace) /\ trace[i] \in Instantiation
    BY TraceFacts DEF IInv
  <2>2. \A x \in Instantiation :
          x.primary \in PrimaryKeys /\ x.primary \in Keys /\ x.specialization \in Keys
    BY EventFields DEF Events
  <2> QED BY <2>1, <2>2, TraceFacts DEF IInv
<1>5. PassInv'
  BY <1>2 DEF IInv, PassInv, analysisPassCount
<1>6. IsNamed(k) /\ NameOf(k) = n
  BY <1>2, NameOfUnique DEF IInv, NamesDetermined
<1>7. \A m \in Names : primaryTemplateStats_[m] # Null =>
        primaryTemplateStats_[m].PrimaryKeys \subseteq Keys
  BY DEF IInv, TypeOK, CacheTypeOK, PrimaryTemplateStats
<1>8. /\ UNCHANGED <<traceDuration_, primaryTemplateStats_, localPrimaryTemplateTimes_>>
      /\ \/ UNCHANGED <<cachedSymbolNames_, keysToConsider_, localSpecializationKeysToConsider_>>
         \/ /\ phase = "analysis" /\ k \in localSpecializationKeysToConsider_
            /\ cachedSymbolNames_' = cachedSymbolNames_ \cup {n}
            /\ keysToConsider_' = [keysToConsider_ EXCEPT ![k] = n]
            /\ localSpecializationKeysToConsider_' = localSpecializationKeysToConsider_ \ {k}
      /\ phase = "analysis" /\ k \in localSpecializationKeysToConsider_ => keysToConsider_'[k] = n
  <2>1. CASE phase = "analysis"
    <3>1. Phase2MergeSpecializationKey(k, n)
      BY <1>2, <2>1 DEF SymbolName, CacheSymbol, MustCache, IsRelogging
    <3>2. keysToConsider_ \in [Keys -> Names \cup {Null}]
      BY DEF IInv, TypeOK, CacheTypeOK
    <3> QED BY <1>1, <2>1, <3>1, <3>2 DEF Phase2MergeSpecializationKey, NamePointer
  <2>2. CASE phase = "relogging"
    BY <1>2, <2>2 DEF SymbolName, CacheSymbol, MustCache, IsRelogging, cacheVars
  <2> QED BY <1>2, <2>1, <2>2
<1>9. /\ keysToConsider_ \in [Keys -> Names \cup {Null}]
      /\ keysToConsider_' \in [Keys -> Names \cup {Null}]
      /\ \A x \in Keys : keysToConsider_'[x] = keysToConsider_[x] \/ (x = k /\ keysToConsider_'[x] = n)
      /\ \A x \in PrimaryKeys : keysToConsider_'[x] = keysToConsider_[x]
  <2>1. keysToConsider_ \in [Keys -> Names \cup {Null}]
    BY DEF IInv, TypeOK, CacheTypeOK
  <2>2. k \in localSpecializationKeysToConsider_ => k \notin PrimaryKeys
    BY KeyAssumption DEF IInv, PointersInv
  <2> QED BY <1>1, <1>8, <2>1, <2>2 DEF Keys
<1>10. TypeOK' /\ NamesAlive'
  <2>1. TypeOK'
    BY <1>1, <1>2, <1>8, <1>9 DEF IInv, TypeOK, CacheTypeOK, Events
  <2>2. NamesAlive'
    BY <1>1, <1>8, <1>9 DEF IInv, NamesAlive
  <2> QED BY <2>1, <2>2
<1>11. PointersInv'
  BY <1>1, <1>2, <1>3, <1>6, <1>7, <1>8, <1>9 DEF IInv, PointersInv
<1>12. SecondPassInv'
  <2> SUFFICES ASSUME phase = "analysis", NEW i \in Instantiations, i <= i0,
                      IsConsidered(trace[i].primary)
               PROVE  SpecializationKnown(i)' \/ SpecializationWaits(i)'
    BY <1>2, <1>3, <1>4, <1>9 DEF SecondPassInv, IsConsidered
  <2> DEFINE x == trace[i].specialization
  <2>1. i <= pos
    <3>1. i # i0
      <4>1. trace[i] \in Instantiation /\ s \notin Instantiation
        BY <1>1, TraceFacts, EventFields DEF IInv
      <4> QED BY <4>1, <1>2
    <3> QED BY <3>1, <1>2, <1>4
  <2>2. SpecializationKnown(i) \/ SpecializationWaits(i)
    BY <2>1, <1>2 DEF IInv, SecondPassInv
  <2>3. CASE x = k /\ k \in localSpecializationKeysToConsider_
    BY <2>3, <1>2, <1>3, <1>4, <1>6, <1>8 DEF SpecializationKnown
  <2>4. CASE x = k /\ k \notin localSpecializationKeysToConsider_
    <3>1. SpecializationKnown(i)
      BY <2>2, <2>4 DEF SpecializationWaits
    <3> QED BY <2>4, <3>1, <1>2, <1>3, <1>4, <1>8 DEF SpecializationKnown
  <2>5. CASE x # k
    <3>1. CASE SpecializationKnown(i)
      BY <2>5, <3>1, <1>2, <1>3, <1>4, <1>9 DEF SpecializationKnown
    <3>2. CASE SpecializationWaits(i)
      <4>1. \A j \in SymbolNames : trace[j].key = x => i0 < j
        <5> SUFFICES ASSUME NEW j \in SymbolNames, trace[j].key = x PROVE i0 < j
          OBVIOUS
        <5>1. pos < j /\ j # i0
          BY <2>5, <3>2, <1>2 DEF SpecializationWaits
        <5> QED BY <5>1, <1>2, <1>4
      <4>2. x \in localSpecializationKeysToConsider_'
        BY <2>5, <3>2, <1>8 DEF SpecializationWaits
      <4> QED BY <4>1, <4>2, <1>2, <1>3 DEF SpecializationWaits
    <3> QED BY <2>2, <3>1, <3>2
  <2> QED BY <2>3, <2>4, <2>5
<1>13. RelogInv'
  <2>1. CASE phase = "analysis"
    BY <1>2, <2>1 DEF RelogInv
  <2>2. CASE phase = "relogging"
    <3>1. UNCHANGED keysToConsider_
      BY <2>2, <1>8
    <3> QED BY <3>1, <1>2, <1>3, <1>4 DEF IInv, RelogInv, IsConsidered, SpecializationKnown
  <2> QED BY <1>2, <2>1, <2>2
<1>14. ShownByName'
  <2>1. \A e \in shown : trace[e.at] \in Instantiation =>
          trace[e.at].primary \in Keys /\ trace[e.at].specialization \in Keys
    BY EventFields DEF Events
  <2> QED BY <2>1, <1>2, <1>3 DEF IInv, ShownByName
<1> QED BY <1>3, <1>5, <1>10, <1>11, <1>12, <1>13, <1>14 DEF IInv

-----------------------------------------------------------------------------
(* The ends of passes. *)

LEMMA EndOfFirstPass ==
  ASSUME IInv, BeginAnalysisPass, EndAnalysisPass
  PROVE  IInv'
<1>1. /\ phase = "analysis" /\ analysisPass_ = 1 /\ analysisPass_' = 2 /\ isEnabled_
      /\ pos' = 0 /\ pos = Len(trace)
      /\ UNCHANGED <<trace, phase, analysisCount_, isEnabled_, shown>>
      /\ analysisCount_ = 2 /\ shown = {}
  BY DEF BeginAnalysisPass, EndAnalysisPass, IInv, PassInv, analysisPassCount
<1>2. DetermineTopPrimaryTemplates
  BY <1>1 DEF EndAnalysisPass, CacheEndOfPass, MustCache, IsRelogging
<1>3. /\ TraceInv'
      /\ Instantiations' = Instantiations /\ SymbolNames' = SymbolNames
      /\ \A k \in Keys : (IsNamed(k)' <=> IsNamed(k)) /\ NameOf(k)' = NameOf(k)
  BY <1>1, SameTrace
<1>4. Recording
  BY <1>1 DEF Recording
<1>5. /\ primaryTemplateStats_' = [n \in Names |-> Null]
      /\ localPrimaryTemplateTimes_' = [k \in Keys |-> Null]
      /\ UNCHANGED <<traceDuration_, localSpecializationKeysToConsider_>>
      /\ cachedSymbolNames_' = cachedSymbolNames_ \ ErasedNames
  BY <1>2 DEF DetermineTopPrimaryTemplates
<1>6. ASSUME NEW k \in Keys
      PROVE  \/ keysToConsider_'[k] = Null
             \/ /\ keysToConsider_'[k] \in TopNames
                /\ k \in primaryTemplateStats_[keysToConsider_'[k]].PrimaryKeys
  <2>1. keysToConsider_[k] = Null
    BY <1>4 DEF IInv, PointersInv
  <2>2. keysToConsider_'[k] = IF \E n \in TopNames : k \in primaryTemplateStats_[n].PrimaryKeys
                                THEN CHOOSE n \in TopNames : k \in primaryTemplateStats_[n].PrimaryKeys
                                ELSE Null
    BY <1>2, <2>1 DEF DetermineTopPrimaryTemplates
  <2> QED BY <2>2
<1>7. /\ TopNames \subseteq Names
      /\ \A n \in TopNames : primaryTemplateStats_[n] # Null /\ n \in cachedSymbolNames_'
  <2>1. TopNames \subseteq Names /\ \A n \in TopNames : primaryTemplateStats_[n] # Null
    BY DEF TopNames
  <2>2. \A n \in TopNames : n \notin ErasedNames
    BY DEF ErasedNames
  <2> QED BY <2>1, <2>2, <1>5 DEF IInv, NamesAlive
<1>8. keysToConsider_' \in [Keys -> Names \cup {Null}]
  <2>1. keysToConsider_' = [k \in Keys |-> keysToConsider_'[k]]
    BY <1>2 DEF DetermineTopPrimaryTemplates
  <2> QED BY <2>1, <1>6, <1>7
<1>9. TypeOK'
  <2>1. PassTypeOK(Events)'
    BY <1>1, TraceFacts DEF IInv, TypeOK, PassTypeOK
  <2>2. CacheTypeOK'
    BY <1>5, <1>8 DEF IInv, TypeOK, CacheTypeOK
  <2> QED BY <2>1, <2>2, <1>1 DEF IInv, TypeOK, Events
<1>10. PassInv'
  BY <1>1 DEF IInv, PassInv, Recording, analysisPassCount
<1>11. PointersInv'
  <2>1. \A k \in Keys : keysToConsider_'[k] # Null =>
          IsNamed(k) /\ keysToConsider_'[k] = NameOf(k)
    BY <1>6, <1>7 DEF IInv, PointersInv
  <2> QED BY <2>1, <1>1, <1>3, <1>5 DEF IInv, PointersInv, Recording
<1>12. NamesAlive'
  BY <1>5, <1>6, <1>7 DEF NamesAlive
<1>13. SecondPassInv'
  <2>1. \A i \in Instantiations' : ~ (i <= pos')
    BY <1>1, <1>3, TraceFacts DEF IInv
  <2> QED BY <2>1 DEF SecondPassInv
<1>14. RelogInv' /\ ShownByName'
  BY <1>1 DEF RelogInv, ShownByName
<1> QED BY <1>3, <1>9, <1>10, <1>11, <1>12, <1>13, <1>14 DEF IInv

LEMMA EndOfAnalysis ==
  ASSUME IInv, BeginRelogging, EndAnalysisPass
  PROVE  IInv'
<1>1. /\ phase = "analysis" /\ phase' = "relogging"
      /\ analysisPass_ = analysisPassCount /\ analysisPass_' = analysisPass_ + 1
      /\ analysisCount_ = 2 /\ analysisCount_' = 1
      /\ pos' = 0 /\ pos = Len(trace)
      /\ UNCHANGED <<trace, isEnabled_, shown>>
      /\ shown = {}
  BY DEF BeginRelogging, EndAnalysisPass, IInv, PassInv
<1>2. analysisPass_ = IF isEnabled_ THEN 2 ELSE 1
  BY <1>1 DEF analysisPassCount
<1>3. /\ TraceInv'
      /\ Instantiations' = Instantiations /\ SymbolNames' = SymbolNames
      /\ \A k \in Keys : (IsNamed(k)' <=> IsNamed(k)) /\ NameOf(k)' = NameOf(k)
  BY <1>1, SameTrace
<1>4. /\ UNCHANGED <<traceDuration_, cachedSymbolNames_, keysToConsider_,
                     primaryTemplateStats_, localPrimaryTemplateTimes_>>
      /\ localSpecializationKeysToConsider_' \subseteq localSpecializationKeysToConsider_
  <2>1. CASE isEnabled_
    BY <2>1, <1>1, <1>2 DEF EndAnalysisPass, CacheEndOfPass, MustCache, IsRelogging,
                            ForgetSpecializations
  <2>2. CASE ~ isEnabled_
    BY <2>2 DEF EndAnalysisPass, CacheEndOfPass, MustCache, cacheVars
  <2> QED BY <2>1, <2>2
<1>5. TypeOK'
  <2>1. PassTypeOK(Events)'
    BY <1>1, <1>2, TraceFacts DEF IInv, TypeOK, PassTypeOK
  <2>2. CacheTypeOK'
    BY <1>4 DEF IInv, TypeOK, CacheTypeOK
  <2> QED BY <2>1, <2>2, <1>1 DEF IInv, TypeOK, Events
<1>6. PassInv'
  BY <1>1, <1>2 DEF PassInv, Recording
<1>7. PointersInv'
  <2>1. \A n \in Names : primaryTemplateStats_[n] # Null =>
          primaryTemplateStats_[n].PrimaryKeys \subseteq Keys
    BY DEF IInv, TypeOK, CacheTypeOK, PrimaryTemplateStats
  <2> QED BY <2>1, <1>1, <1>3, <1>4 DEF IInv, PointersInv, Recording
<1>8. NamesAlive' /\ SecondPassInv' /\ ShownByName'
  BY <1>1, <1>4 DEF IInv, NamesAlive, SecondPassInv, ShownByName
<1>9. RelogInv'
  <2> SUFFICES ASSUME isEnabled_, NEW i \in Instantiations, IsConsidered(trace[i].primary)
               PROVE  \/ SpecializationKnown(i)
                      \/ /\ ~ IsNamed(trace[i].specialization)
                         /\ keysToConsider_[trace[i].specialization] = Null
    <3>1. \A i \in Instantiations : trace[i].specialization \in Keys
      BY TraceFacts, EventFields DEF IInv, Events
    <3> QED BY <3>1, <1>1, <1>3, <1>4 DEF RelogInv, IsConsidered, SpecializationKnown
  <2>1. SpecializationKnown(i) \/ SpecializationWaits(i)
    BY <1>1, <1>2, TraceFacts DEF IInv, SecondPassInv
  <2>2. CASE SpecializationWaits(i)
    <3>1. \A j \in SymbolNames : j \in 1 .. Len(trace)
      BY TraceFacts DEF IInv
    <3>2. ~ IsNamed(trace[i].specialization)
      BY <2>2, <3>1, <1>1 DEF SpecializationWaits, IsNamed
    <3>3. trace[i].specialization \in Keys
      BY TraceFacts, EventFields DEF IInv, Events
    <3> QED BY <3>2, <3>3 DEF IInv, PointersInv
  <2> QED BY <2>1, <2>2
<1> QED BY <1>3, <1>5, <1>6, <1>7, <1>8, <1>9 DEF IInv

LEMMA EndOfSession ==
  ASSUME IInv, End
  PROVE  IInv'
<1>1. /\ phase = "relogging" /\ phase' = "done"
      /\ analysisCount_ = 1 /\ analysisCount_' = 0
      /\ UNCHANGED <<trace, pos, analysisPass_, isEnabled_, shown, cacheVars>>
  BY DEF End, EndRelogging, IInv, PassInv
<1>2. UNCHANGED <<traceDuration_, cachedSymbolNames_, keysToConsider_, primaryTemplateStats_,
                  localPrimaryTemplateTimes_, localSpecializationKeysToConsider_>>
  BY <1>1 DEF cacheVars
<1>3. /\ TraceInv'
      /\ Instantiations' = Instantiations /\ SymbolNames' = SymbolNames
      /\ \A k \in Keys : (IsNamed(k)' <=> IsNamed(k)) /\ NameOf(k)' = NameOf(k)
  BY <1>1, SameTrace
<1>4. TypeOK' /\ NamesAlive'
  BY <1>1, <1>2 DEF IInv, TypeOK, PassTypeOK, CacheTypeOK, NamesAlive
<1>5. PassInv' /\ SecondPassInv'
  BY <1>1 DEF IInv, PassInv, SecondPassInv, Recording
<1>6. PointersInv'
  <2>1. \A n \in Names : primaryTemplateStats_[n] # Null =>
          primaryTemplateStats_[n].PrimaryKeys \subseteq Keys
    BY DEF IInv, TypeOK, CacheTypeOK, PrimaryTemplateStats
  <2> QED BY <2>1, <1>1, <1>2, <1>3 DEF IInv, PointersInv, Recording
<1>7. RelogInv' /\ ShownByName'
  <2>1. \A x \in Instantiation : x.primary \in Keys /\ x.specialization \in Keys
    BY EventFields DEF Events
  <2>2. \A i \in Instantiations : trace[i] \in Instantiation
    BY TraceFacts DEF IInv
  <2>3. RelogInv'
    BY <2>1, <2>2, <1>1, <1>2, <1>3 DEF IInv, RelogInv, IsConsidered, SpecializationKnown
  <2>4. ShownByName'
    BY <2>1, <1>1, <1>3 DEF IInv, ShownByName
  <2> QED BY <2>3, <2>4
<1> QED BY <1>3, <1>4, <1>5, <1>6, <1>7 DEF IInv

-----------------------------------------------------------------------------
(* The session. *)

LEMMA InitInv == Init => IInv
<1> SUFFICES ASSUME Init PROVE IInv
  OBVIOUS
<1>1. /\ trace = <<>> /\ pos = 0 /\ phase = "analysis" /\ analysisCount_ = 2
      /\ analysisPass_ = 1 /\ isEnabled_ \in BOOLEAN /\ shown = {}
  BY DEF Init, PassesInit
<1>2. /\ traceDuration_ \in Nat
      /\ cachedSymbolNames_ = {} /\ keysToConsider_ = [k \in Keys |-> Null]
      /\ primaryTemplateStats_ = [n \in Names |-> Null]
      /\ localPrimaryTemplateTimes_ = [k \in Keys |-> Null]
      /\ localSpecializationKeysToConsider_ = {}
  BY DurationAssumption DEF Init, CacheInit
<1>3. TypeOK
  <2>1. PassTypeOK(Events)
    BY <1>1 DEF PassTypeOK
  <2>2. CacheTypeOK
    BY <1>2 DEF CacheTypeOK
  <2> QED BY <2>1, <2>2, <1>1 DEF TypeOK, Events
<1>4. Instantiations = {} /\ SymbolNames = {}
  BY <1>1 DEF Instantiations, SymbolNames
<1>5. PassInv
  BY <1>1 DEF PassInv, analysisPassCount
<1>6. TraceInv /\ SecondPassInv /\ RelogInv
  BY <1>1, <1>4 DEF TraceInv, SecondPassInv, RelogInv
<1>7. PointersInv /\ NamesAlive
  BY <1>2 DEF PointersInv, NamesAlive
<1>8. ShownByName
  BY <1>1 DEF ShownByName
<1> QED BY <1>3, <1>5, <1>6, <1>7, <1>8 DEF IInv

LEMMA StutterInv == IInv /\ UNCHANGED vars => IInv'
<1> SUFFICES ASSUME IInv, UNCHANGED vars PROVE IInv'
  OBVIOUS
<1>1. UNCHANGED <<trace, pos, phase, analysisCount_, analysisPass_, isEnabled_, shown,
                  traceDuration_, cachedSymbolNames_, keysToConsider_, primaryTemplateStats_,
                  localPrimaryTemplateTimes_, localSpecializationKeysToConsider_>>
  BY DEF vars, passVars, cacheVars
<1>2. /\ TraceInv'
      /\ Instantiations' = Instantiations /\ SymbolNames' = SymbolNames
      /\ \A k \in Keys : (IsNamed(k)' <=> IsNamed(k)) /\ NameOf(k)' = NameOf(k)
  BY <1>1, SameTrace
<1>3. TypeOK' /\ NamesAlive'
  BY <1>1 DEF IInv, TypeOK, PassTypeOK, CacheTypeOK, NamesAlive
<1>4. PassInv'
  BY <1>1 DEF IInv, PassInv, Recording, analysisPassCount
<1>5. PointersInv'
  BY <1>1, <1>2 DEF IInv, PointersInv, Recording, IsNamed, NameOf
<1>6. SecondPassInv' /\ RelogInv'
  BY <1>1, <1>2 DEF IInv, SecondPassInv, RelogInv, IsConsidered, SpecializationKnown,
                    SpecializationWaits, IsNamed, NameOf
<1>7. ShownByName'
  BY <1>1, <1>2 DEF IInv, ShownByName, IsNamed, NameOf
<1> QED BY <1>2, <1>3, <1>4, <1>5, <1>6, <1>7 DEF IInv

LEMMA NextInv == IInv /\ [Next]_vars => IInv'
<1> SUFFICES ASSUME IInv, [Next]_vars PROVE IInv'
  OBVIOUS
<1>1. ASSUME NEW i \in Instantiation, TemplateInstantiation(i) PROVE IInv'
  BY <1>1, RecordInstantiation, ReplayInstantiation
<1>2. ASSUME NEW s \in Symbol, SymbolName(s) PROVE IInv'
  BY <1>2, RecordSymbol, ReplaySymbol
<1>3. CASE EndAnalysisPass
  BY <1>3, EndOfFirstPass, EndOfAnalysis DEF EndAnalysisPass
<1>4. CASE End
  BY <1>4, EndOfSession
<1>5. CASE UNCHANGED vars
  BY <1>5, StutterInv
<1> QED BY <1>1, <1>2, <1>3, <1>4, <1>5 DEF Next

\* The inductive invariant of the three passes over templates holds throughout a
\* session.
THEOREM TemplateInvariance == Spec => []IInv
  BY InitInv, NextInv, PTL DEF Spec

\* The cache and the view keep their types in a session of any length; sums of
\* microseconds wrap around and stay unsigned ints.
THEOREM TemplateTypes == Spec => []TypeOK
<1>1. IInv => TypeOK
  BY DEF IInv
<1> QED BY <1>1, TemplateInvariance, PTL

\* Erasing the names below the cutoff (DetermineTopPrimaryTemplates) never leaves
\* a pointer of keysToConsider_ or primaryTemplateStats_ dangling.
THEOREM NamesStayAlive == Spec => []NamesAlive
<1>1. IInv => NamesAlive
  BY DEF IInv
<1> QED BY <1>1, TemplateInvariance, PTL

\* TemplateInstantiationsView shows an instantiation under the names that the
\* symbol events of its own keys tell, whatever names other keys share.
THEOREM InstantiationsShownByName == Spec => []ShownByName
<1>1. IInv => ShownByName
  BY DEF IInv
<1> QED BY <1>1, TemplateInvariance, PTL

-----------------------------------------------------------------------------
(* Induction, and sums of a function. *)

\* A set of naturals that has 0, and with each number the next, has all of them.
LEMMA Induction ==
  ASSUME NEW S \in SUBSET Nat, 0 \in S, \A n \in S : n + 1 \in S
  PROVE  S = Nat
<1> SUFFICES ASSUME Nat \ S # {} PROVE FALSE
  OBVIOUS
<1> DEFINE T == {0 .. m : m \in Nat \ S}
<1>1. IsWellFoundedOn(StrictSubsetOrdering(Nat), FiniteSubsetsOf(Nat))
  BY FS_StrictSubsetOrderingWellFounded
<1>2. T \subseteq FiniteSubsetsOf(Nat)
  <2> SUFFICES ASSUME NEW m \in Nat \ S PROVE 0 .. m \in FiniteSubsetsOf(Nat)
    OBVIOUS
  <2>1. IsFiniteSet(0 .. m)
    BY FS_Interval
  <2> QED BY <2>1 DEF FiniteSubsetsOf
<1>3. T # {}
  OBVIOUS
<1> HIDE DEF T
<1>4. PICK x \in T : \A y \in T : ~ (<<y, x>> \in StrictSubsetOrdering(Nat))
  BY <1>1, <1>2, <1>3, WFMin
<1>5. PICK m \in Nat \ S : x = 0 .. m
  BY DEF T
<1>6. m - 1 \in Nat \ S
  OBVIOUS
<1>7. 0 .. m - 1 \in T
  BY <1>6 DEF T
<1>8. 0 .. m - 1 \subseteq 0 .. m /\ 0 .. m - 1 # 0 .. m
  <2>1. m \in 0 .. m /\ m \notin 0 .. m - 1
    OBVIOUS
  <2> QED BY <2>1
<1>9. <<0 .. m - 1, x>> \in StrictSubsetOrdering(Nat)
  BY <1>5, <1>6, <1>8 DEF StrictSubsetOrdering
<1> QED BY <1>4, <1>7, <1>9

\* sum has the partial sums of time up to n.
SumsOf(sum, time, n) == sum = [i \in 0 .. n |-> IF i = 0 THEN 0 ELSE sum[i - 1] + time[i]]

LEMMA SumExists ==
  ASSUME NEW time, NEW n \in Nat
  PROVE  \E sum : SumsOf(sum, time, n) /\ sum[n] = SumUpTo(time, n)
<1> DEFINE S == {m \in Nat : \E r : SumsOf(r, time, m)}
<1>1. 0 \in S
  <2>1. SumsOf([i \in 0 .. 0 |-> 0], time, 0)
    BY DEF SumsOf
  <2> QED BY <2>1
<1>2. ASSUME NEW m \in S PROVE m + 1 \in S
  <2>1. PICK r : SumsOf(r, time, m)
    OBVIOUS
  <2> DEFINE t == [i \in 0 .. m + 1 |-> IF i <= m THEN r[i] ELSE r[m] + time[m + 1]]
  <2>2. ASSUME NEW i \in 0 .. m + 1
        PROVE  t[i] = IF i = 0 THEN 0 ELSE t[i - 1] + time[i]
    <3>1. CASE i = 0
      BY <3>1, <2>1 DEF SumsOf
    <3>2. CASE i \in 1 .. m
      BY <3>2, <2>1 DEF SumsOf
    <3>3. CASE i = m + 1
      BY <3>3
    <3> QED BY <3>1, <3>2, <3>3
  <2>3. t = [i \in 0 .. m + 1 |-> t[i]]
    OBVIOUS
  <2> HIDE DEF t
  <2>4. SumsOf(t, time, m + 1)
    BY <2>2, <2>3 DEF SumsOf
  <2> QED BY <2>4
<1>3. n \in S
  <2> HIDE DEF S
  <2>1. S \in SUBSET Nat
    BY DEF S
  <2>2. S = Nat
    BY <1>1, <1>2, <2>1, Induction
  <2> QED BY <2>2
<1>4. \E r : SumsOf(r, time, n)
  BY <1>3
<1>5. SumUpTo(time, n) = (CHOOSE r : SumsOf(r, time, n))[n]
  BY DEF SumUpTo, SumsOf
<1> QED BY <1>4, <1>5

\* Partial sums go on as they began.
LEMMA SumsAgree ==
  ASSUME NEW time, NEW n \in Nat,
         NEW r, SumsOf(r, time, n), NEW q, SumsOf(q, time, n + 1)
  PROVE  r[n] = q[n]
<1> DEFINE S == {j \in Nat : j <= n => r[j] = q[j]}
<1>1. 0 \in S
  BY DEF SumsOf
<1>2. ASSUME NEW j \in S PROVE j + 1 \in S
  <2> SUFFICES ASSUME j + 1 <= n PROVE r[j + 1] = q[j + 1]
    OBVIOUS
  <2>1. r[j] = q[j] /\ j + 1 \in 0 .. n + 1 /\ j + 1 \in 0 .. n
    OBVIOUS
  <2>2. r[j + 1] = r[j] + time[j + 1] /\ q[j + 1] = q[j] + time[j + 1]
    BY <2>1 DEF SumsOf
  <2> QED BY <2>1, <2>2
<1> HIDE DEF S
<1>3. S \in SUBSET Nat
  BY DEF S
<1>4. n \in S
  BY <1>1, <1>2, <1>3, Induction
<1> QED BY <1>4 DEF S

\* What SumUpTo says, one number at a time.
LEMMA SumValue ==
  ASSUME NEW time
  PROVE  /\ SumUpTo(time, 0) = 0
         /\ \A n \in Nat : SumUpTo(time, n + 1) = SumUpTo(time, n) + time[n + 1]
<1>1. SumUpTo(time, 0) = 0
  <2>1. PICK r : SumsOf(r, time, 0) /\ r[0] = SumUpTo(time, 0)
    BY SumExists
  <2> QED BY <2>1 DEF SumsOf
<1>2. ASSUME NEW n \in Nat PROVE SumUpTo(time, n + 1) = SumUpTo(time, n) + time[n + 1]
  <2>1. PICK r : SumsOf(r, time, n) /\ r[n] = SumUpTo(time, n)
    BY SumExists
  <2>2. n + 1 \in Nat
    OBVIOUS
  <2>3. PICK q : SumsOf(q, time, n + 1) /\ q[n + 1] = SumUpTo(time, n + 1)
    BY <2>2, SumExists
  <2>4. r[n] = q[n]
    BY <2>1, <2>2, <2>3, SumsAgree
  <2>5. q[n + 1] = q[n] + time[n + 1]
    BY <2>3 DEF SumsOf
  <2> QED BY <2>1, <2>3, <2>4, <2>5
<1> QED BY <1>1, <1>2

LEMMA SumSame ==
  ASSUME NEW time, NEW u, NEW n \in Nat, \A i \in 1 .. n : time[i] = u[i]
  PROVE  SumUpTo(time, n) = SumUpTo(u, n)
<1> DEFINE S == {m \in Nat : m <= n => SumUpTo(time, m) = SumUpTo(u, m)}
<1>1. 0 \in S
  BY SumValue
<1>2. ASSUME NEW m \in S PROVE m + 1 \in S
  <2> SUFFICES ASSUME m + 1 <= n PROVE SumUpTo(time, m + 1) = SumUpTo(u, m + 1)
    OBVIOUS
  <2>1. m + 1 \in 1 .. n
    OBVIOUS
  <2> QED BY <2>1, SumValue
<1> HIDE DEF S
<1>3. S \in SUBSET Nat
  BY DEF S
<1>4. n \in S
  BY <1>1, <1>2, <1>3, Induction
<1> QED BY <1>4 DEF S

\* A sum of naturals is one, that of nothing is 0, and sums can be added.
LEMMA SumFacts ==
  ASSUME NEW n \in Nat, NEW t, \A i \in 1 .. n : t[i] \in Nat
  PROVE  /\ SumUpTo(t, n) \in Nat
         /\ (\A i \in 1 .. n : t[i] = 0) => SumUpTo(t, n) = 0
<1> DEFINE S == {m \in Nat : m <= n => /\ SumUpTo(t, m) \in Nat
                                       /\ (\A i \in 1 .. n : t[i] = 0) => SumUpTo(t, m) = 0}
<1>1. 0 \in S
  BY SumValue
<1>2. ASSUME NEW m \in S PROVE m + 1 \in S
  <2> SUFFICES ASSUME m + 1 <= n
               PROVE  /\ SumUpTo(t, m + 1) \in Nat
                      /\ (\A i \in 1 .. n : t[i] = 0) => SumUpTo(t, m + 1) = 0
    OBVIOUS
  <2>1. m + 1 \in 1 .. n /\ m <= n
    OBVIOUS
  <2>2. SumUpTo(t, m + 1) = SumUpTo(t, m) + t[m + 1]
    BY SumValue
  <2> QED BY <2>1, <2>2
<1> HIDE DEF S
<1>3. S \in SUBSET Nat
  BY DEF S
<1>4. n \in S
  BY <1>1, <1>2, <1>3, Induction
<1> QED BY <1>4 DEF S

LEMMA SumAdds ==
  ASSUME NEW n \in Nat, NEW t, NEW u, NEW w,
         \A i \in 1 .. n : t[i] \in Nat /\ u[i] \in Nat /\ w[i] = t[i] + u[i]
  PROVE  SumUpTo(w, n) = SumUpTo(t, n) + SumUpTo(u, n)
<1> DEFINE S == {m \in Nat : m <= n => SumUpTo(w, m) = SumUpTo(t, m) + SumUpTo(u, m)}
<1>1. 0 \in S
  BY SumValue
<1>2. ASSUME NEW m \in S PROVE m + 1 \in S
  <2> SUFFICES ASSUME m + 1 <= n
               PROVE  SumUpTo(w, m + 1) = SumUpTo(t, m + 1) + SumUpTo(u, m + 1)
    OBVIOUS
  <2>1. m + 1 \in 1 .. n /\ \A i \in 1 .. m : i \in 1 .. n
    OBVIOUS
  <2>2. SumUpTo(t, m) \in Nat /\ SumUpTo(u, m) \in Nat
    BY <2>1, SumFacts
  <2>3. /\ SumUpTo(t, m + 1) = SumUpTo(t, m) + t[m + 1]
        /\ SumUpTo(u, m + 1) = SumUpTo(u, m) + u[m + 1]
        /\ SumUpTo(w, m + 1) = SumUpTo(w, m) + w[m + 1]
    BY SumValue
  <2> QED BY <2>1, <2>2, <2>3
<1> HIDE DEF S
<1>3. S \in SUBSET Nat
  BY DEF S
<1>4. n \in S
  BY <1>1, <1>2, <1>3, Induction
<1> QED BY <1>4 DEF S

-----------------------------------------------------------------------------
(* Numbers that wrap around. *)

LEMMA RemainderUnique ==
  ASSUME NEW n \in Nat, NEW d \in Nat \ {0}, NEW q \in Nat, NEW r \in Nat,
         n = q * d + r, r < d
  PROVE  n % d = r
<1>1. /\ n \div d \in Int /\ n % d \in Int
      /\ n = d * (n \div d) + (n % d) /\ 0 <= n % d /\ n % d < d
  BY SMT
<1>2. d * (n \div d - q) = r - (n % d)
  BY <1>1, SMT
<1>3. r - (n % d) < d /\ r - (n % d) > -d
  BY <1>1, SMT
<1>4. CASE n \div d - q >= 1
  BY <1>1, <1>2, <1>3, <1>4, SMT
<1>5. CASE n \div d - q <= -1
  BY <1>1, <1>2, <1>3, <1>5, SMT
<1>6. CASE n \div d - q = 0
  BY <1>1, <1>2, <1>6, SMT
<1> QED BY <1>1, <1>4, <1>5, <1>6, SMT

\* Adding remainders and adding numbers gives the same remainder.
LEMMA SumWraps ==
  ASSUME NEW a \in Nat, NEW b \in Nat
  PROVE  /\ Sum(a % UIntLimit, b % UIntLimit) = (a + b) % UIntLimit
         /\ Sum(0, b % UIntLimit) = b % UIntLimit
         /\ a % UIntLimit \in Nat
         /\ a < UIntLimit => a % UIntLimit = a
<1> DEFINE d == UIntLimit
           q == a \div d
           r == a % d
           p == b \div d
           s == b % d
<1>0. d \in Nat \ {0}
  BY NumberAssumption
<1> HIDE DEF d
<1>1. /\ q \in Nat /\ r \in Nat /\ a = q * d + r /\ r < d
      /\ p \in Nat /\ s \in Nat /\ b = p * d + s /\ s < d
  BY <1>0, SMT
<1> HIDE DEF q, r, p, s
<1>2. /\ q + p \in Nat /\ q + p + 1 \in Nat /\ r + s \in Nat /\ a + b \in Nat
      /\ a + b = (q + p) * d + (r + s)
  BY <1>0, <1>1, SMT
<1>3. (a + b) % d = (r + s) % d
  <2>1. CASE r + s < d
    <3>1. (a + b) % d = r + s
      BY <2>1, <1>0, <1>2, RemainderUnique
    <3>2. r + s = 0 * d + (r + s)
      BY <1>0, <1>2, SMT
    <3>3. (r + s) % d = r + s
      BY <2>1, <3>2, <1>0, <1>2, RemainderUnique
    <3> QED BY <3>1, <3>3
  <2>2. CASE r + s >= d
    <3>1. /\ r + s - d \in Nat /\ r + s - d < d
          /\ a + b = (q + p + 1) * d + (r + s - d)
          /\ r + s = 1 * d + (r + s - d)
      BY <2>2, <1>0, <1>1, <1>2, SMT
    <3>2. (a + b) % d = r + s - d
      BY <3>1, <1>0, <1>2, RemainderUnique
    <3>3. (r + s) % d = r + s - d
      BY <3>1, <1>0, <1>2, RemainderUnique
    <3> QED BY <3>2, <3>3
  <2> QED BY <2>1, <2>2, <1>0, <1>1, SMT
<1>4. s % d = s
  BY <1>0, <1>1, SMT
<1>5. a < d => a % d = a
  BY <1>0, SMT
<1> QED BY <1>1, <1>3, <1>4, <1>5, SMT DEF d, r, s, Sum

-----------------------------------------------------------------------------
(* The sums of the cache. *)

Instantiated(k) == \E i \in Instantiations : trace[i].primary = k

\* The templates named n that were instantiated.
Seen(n) == {k \in Namesakes(n) : Instantiated(k)}

\* What the first pass has added up, for the trace so far: a template without a
\* name on its own, those with the same name together.
WaitingTime(k) == IF Instantiated(k) /\ ~ IsNamed(k) THEN TimeOf({k}) % UIntLimit ELSE Null

LocalTimes ==
  /\ \A k \in PrimaryKeys : localPrimaryTemplateTimes_[k] = WaitingTime(k)
  /\ \A k \in SpecializationKeys : localPrimaryTemplateTimes_[k] = Null

StatsOf(K) ==
  IF K = {} THEN Null ELSE [PrimaryKeys |-> K, TotalMicroseconds |-> TimeOf(K) % UIntLimit]

NamedTimes ==
  \A n \in Names, K \in SUBSET PrimaryKeys : K = Seen(n) => primaryTemplateStats_[n] = StatsOf(K)

FirstPassSums == Recording /\ isEnabled_ => LocalTimes /\ NamedTimes

\* The templates with the name of k, k one of them, reach the cutoff.
Expensive(k) ==
  \E n \in Names, K \in SUBSET PrimaryKeys :
    k \in K /\ K = Seen(n) /\ TimeOf(K) % UIntLimit >= Cutoff

\* What the later passes have chosen, and what the view has made of it.
ChosenInv ==
  ~ Recording /\ isEnabled_ => \A k \in PrimaryKeys : IsConsidered(k) <=> Expensive(k)

ViewInv ==
  /\ isEnabled_ => \A i \in Instantiations :
       IsShown(i) <=> /\ phase \in {"relogging", "done"} /\ i <= pos
                      /\ IsConsidered(trace[i].primary)
  /\ phase = "done" => pos = Len(trace)

SumsInv == FirstPassSums /\ ChosenInv /\ ViewInv

\* What is said of the time of a set of templates.
LEMMA TimeFacts ==
  ASSUME TypeOK
  PROVE  /\ \A K : TimeOf(K) \in Nat
         /\ \A K, L : K \cap L = {} => TimeOf(K \cup L) = TimeOf(K) + TimeOf(L)
         /\ \A k : ~ Instantiated(k) => TimeOf({k}) = 0
         /\ \A K, L : (\A i \in Instantiations : trace[i].primary \in K <=> trace[i].primary \in L)
                        => TimeOf(K) = TimeOf(L)
<1> DEFINE n == Len(trace)
<1>1. n \in Nat /\ DOMAIN trace = 1 .. n
  BY TraceFacts
<1>2. \A i \in Instantiations : trace[i].duration \div NsPerUs \in Nat
  <2>1. \A i \in Instantiations : trace[i] \in Instantiation
    BY TraceFacts
  <2>2. \A x \in Instantiation : x.duration \in Nat
    BY EventFields, DurationAssumption DEF Events
  <2>3. \A d \in Nat : d \div NsPerUs \in Nat
    BY NumberAssumption
  <2> QED BY <2>1, <2>2, <2>3
<1>3. \A K : \A i \in 1 .. n : TimesOf(K)[i] =
        IF i \in Instantiations /\ trace[i].primary \in K THEN trace[i].duration \div NsPerUs ELSE 0
  BY <1>1 DEF TimesOf
<1>4. \A K : \A i \in 1 .. n : TimesOf(K)[i] \in Nat
  BY <1>2, <1>3
<1>5. \A K : TimeOf(K) = SumUpTo(TimesOf(K), n)
  BY DEF TimeOf
<1> HIDE DEF n
<1>6. ASSUME NEW K PROVE TimeOf(K) \in Nat
  BY <1>1, <1>4, <1>5, SumFacts
<1>7. ASSUME NEW K, NEW L, K \cap L = {}
      PROVE  TimeOf(K \cup L) = TimeOf(K) + TimeOf(L)
  <2> DEFINE t == TimesOf(K)
             u == TimesOf(L)
             w == TimesOf(K \cup L)
  <2>1. \A i \in 1 .. n : t[i] \in Nat /\ u[i] \in Nat /\ w[i] = t[i] + u[i]
    BY <1>2, <1>3, <1>7
  <2> HIDE DEF t, u, w
  <2>2. SumUpTo(w, n) = SumUpTo(t, n) + SumUpTo(u, n)
    BY <1>1, <2>1, SumAdds
  <2> QED BY <2>2, <1>5 DEF t, u, w
<1>8. ASSUME NEW k, ~ Instantiated(k) PROVE TimeOf({k}) = 0
  <2>1. \A i \in 1 .. n : TimesOf({k})[i] = 0
    BY <1>3, <1>8 DEF Instantiated
  <2> QED BY <1>1, <1>4, <1>5, <2>1, SumFacts
<1>9. ASSUME NEW K, NEW L,
             \A i \in Instantiations : trace[i].primary \in K <=> trace[i].primary \in L
      PROVE  TimeOf(K) = TimeOf(L)
  <2> DEFINE t == TimesOf(K)
             u == TimesOf(L)
  <2>1. \A i \in 1 .. n : t[i] = u[i]
    BY <1>3, <1>9
  <2> HIDE DEF t, u
  <2>2. SumUpTo(t, n) = SumUpTo(u, n)
    BY <1>1, <2>1, SumSame
  <2> QED BY <2>2, <1>5 DEF t, u
<1> QED BY <1>6, <1>7, <1>8, <1>9

\* An instantiation takes its time, and nothing else does.
LEMMA TimeGrows ==
  ASSUME TypeOK, NEW e \in Events, trace' = Append(trace, e)
  PROVE  \A K : TimeOf(K)' =
           IF e \in Instantiation /\ e.primary \in K THEN TimeOf(K) + e.duration \div NsPerUs
                                                     ELSE TimeOf(K)
<1> DEFINE n == Len(trace)
<1>1. /\ n \in Nat /\ n + 1 \in Nat /\ DOMAIN trace = 1 .. n
      /\ \A i \in Instantiations : i \in 1 .. n
  BY TraceFacts
<1>2. /\ trace' \in Seq(Events)
      /\ Len(trace') = n + 1
      /\ trace'[n + 1] = e
      /\ \A i \in 1 .. n : trace'[i] = trace[i]
      /\ Instantiations' = Instantiations \cup (IF e \in Instantiation THEN {n + 1} ELSE {})
  BY TraceGrows
<1>3. DOMAIN trace' = 1 .. n + 1
  BY <1>1, <1>2
<1> SUFFICES ASSUME NEW K
             PROVE  TimeOf(K)' =
                      IF e \in Instantiation /\ e.primary \in K
                        THEN TimeOf(K) + e.duration \div NsPerUs ELSE TimeOf(K)
  OBVIOUS
<1> DEFINE t == TimesOf(K)
           u == [i \in 1 .. n + 1 |->
                   IF i \in Instantiations' /\ trace'[i].primary \in K
                     THEN trace'[i].duration \div NsPerUs ELSE 0]
<1>4. TimeOf(K) = SumUpTo(t, n)
  BY DEF TimeOf
<1>5. TimeOf(K)' = SumUpTo(u, n + 1)
  BY <1>2, <1>3 DEF TimeOf, TimesOf
<1>6. \A i \in 1 .. n : u[i] = t[i]
  <2>1. \A i \in 1 .. n : i \in Instantiations' <=> i \in Instantiations
    BY <1>1, <1>2
  <2> QED BY <1>1, <1>2, <2>1 DEF TimesOf
<1>7. u[n + 1] = IF e \in Instantiation /\ e.primary \in K THEN e.duration \div NsPerUs ELSE 0
  BY <1>1, <1>2
<1>8. TimeOf(K) \in Nat
  BY TimeFacts
<1>10. e \in Instantiation => e.duration \div NsPerUs \in Nat
  <2>1. e \in Instantiation => e.duration \in Nat
    BY EventFields, DurationAssumption
  <2>2. \A d \in Nat : d \div NsPerUs \in Nat
    BY NumberAssumption
  <2> QED BY <2>1, <2>2
<1> HIDE DEF t, u, n
<1>9. SumUpTo(u, n + 1) = SumUpTo(u, n) + u[n + 1] /\ SumUpTo(u, n) = SumUpTo(t, n)
  BY <1>1, <1>6, SumValue, SumSame
<1> QED BY <1>4, <1>5, <1>7, <1>8, <1>9, <1>10

\* What a further event changes about names and what was instantiated.
LEMMA NamesGrow ==
  ASSUME IInv, NEW e \in Events, trace' = Append(trace, e),
         e \in Instantiation => ~ IsNamed(e.specialization),
         e \in Symbol => ~ IsNamed(e.key)
  PROVE  /\ \A k \in Keys : IsNamed(k)' <=> IsNamed(k) \/ (e \in Symbol /\ e.key = k)
         /\ \A k : Instantiated(k)' <=> Instantiated(k) \/ (e \in Instantiation /\ e.primary = k)
         /\ \A n \in Names : Namesakes(n)' =
              Namesakes(n) \cup {k \in PrimaryKeys : e \in Symbol /\ e.key = k /\ e.name = n}
<1>1. /\ \A i \in 1 .. Len(trace) : trace'[i] = trace[i]
      /\ trace'[Len(trace) + 1] = e
      /\ Instantiations' = Instantiations \cup (IF e \in Instantiation THEN {Len(trace) + 1} ELSE {})
      /\ SymbolNames' = SymbolNames \cup (IF e \in Symbol THEN {Len(trace) + 1} ELSE {})
  BY TraceGrows DEF IInv
<1>2. /\ \A i \in Instantiations : i \in 1 .. Len(trace)
      /\ \A i \in SymbolNames : i \in 1 .. Len(trace)
  BY TraceFacts DEF IInv
<1>3. \A k \in Keys : IsNamed(k)' <=> IsNamed(k) \/ (e \in Symbol /\ e.key = k)
  BY <1>1, <1>2 DEF IsNamed
<1>4. \A k : Instantiated(k)' <=> Instantiated(k) \/ (e \in Instantiation /\ e.primary = k)
  BY <1>1, <1>2 DEF Instantiated
<1>5. /\ \A k \in Keys : IsNamed(k) => IsNamed(k)' /\ NameOf(k)' = NameOf(k)
      /\ e \in Symbol => IsNamed(e.key)' /\ NameOf(e.key)' = e.name
  BY NamesKept
<1>6. PrimaryKeys \subseteq Keys
  BY DEF Keys
<1>7. ASSUME NEW n \in Names, NEW k \in PrimaryKeys
      PROVE  IsNamed(k)' /\ NameOf(k)' = n
               <=> (IsNamed(k) /\ NameOf(k) = n) \/ (e \in Symbol /\ e.key = k /\ e.name = n)
  BY <1>3, <1>5, <1>6
<1>8. ASSUME NEW n \in Names
      PROVE  Namesakes(n)' =
               Namesakes(n) \cup {k \in PrimaryKeys : e \in Symbol /\ e.key = k /\ e.name = n}
  <2>1. Namesakes(n)' = {k \in PrimaryKeys : IsNamed(k)' /\ NameOf(k)' = n}
    BY DEF Namesakes
  <2> QED BY <2>1, <1>7 DEF Namesakes
<1> QED BY <1>3, <1>4, <1>8

-----------------------------------------------------------------------------
(* The sums of the first pass. *)

LEMMA RecordInstantiationSums ==
  ASSUME IInv, SumsInv, NEW e \in Instantiation, Recording, isEnabled_, TemplateInstantiation(e)
  PROVE  LocalTimes' /\ NamedTimes'
<1> DEFINE p == e.primary
           d == e.duration \div NsPerUs
<1>1. e \in Events /\ e \notin Symbol /\ p \in PrimaryKeys /\ p \in Keys /\ e.duration \in Nat
  BY EventFields, DurationAssumption DEF Events
<1>2. Dispatch(e) /\ ~ IsNamed(e.specialization) /\ ~ IsNamed(p)
  BY DEF TemplateInstantiation
<1>3. /\ trace' = Append(trace, e)
      /\ phase = "analysis" /\ analysisPass_ = 1 /\ analysisCount_ = 2
  BY <1>1, <1>2, RecordingDispatch
<1>4. LocalTimes /\ NamedTimes
  BY DEF SumsInv, FirstPassSums
<1>5. /\ localPrimaryTemplateTimes_' =
           [localPrimaryTemplateTimes_ EXCEPT ![p] = Sum(OrZero(@), d % UIntLimit)]
      /\ primaryTemplateStats_' = primaryTemplateStats_
  BY <1>3 DEF TemplateInstantiation, CacheInstantiation, MustCache, IsRelogging,
              Phase1RegisterPrimaryTemplateLocalTime, Microseconds
<1>6. localPrimaryTemplateTimes_ \in [Keys -> UInt \cup {Null}]
  BY DEF IInv, TypeOK, CacheTypeOK
<1>7. /\ \A k \in Keys : IsNamed(k)' <=> IsNamed(k)
      /\ \A k : Instantiated(k)' <=> Instantiated(k) \/ p = k
      /\ \A n \in Names : Namesakes(n)' = Namesakes(n)
  <2>1. /\ \A k \in Keys : IsNamed(k)' <=> IsNamed(k) \/ (e \in Symbol /\ e.key = k)
        /\ \A k : Instantiated(k)' <=> Instantiated(k) \/ (e \in Instantiation /\ e.primary = k)
        /\ \A n \in Names : Namesakes(n)' =
             Namesakes(n) \cup {k \in PrimaryKeys : e \in Symbol /\ e.key = k /\ e.name = n}
    BY <1>1, <1>2, <1>3, NamesGrow
  <2> QED BY <2>1, <1>1
<1>8. \A K : TimeOf(K)' = IF p \in K THEN TimeOf(K) + d ELSE TimeOf(K)
  BY <1>1, <1>3, TimeGrows DEF IInv
<1>9. d \in Nat /\ \A K : TimeOf(K) \in Nat
  <2>1. d \in Nat
    BY <1>1, NumberAssumption
  <2> QED BY <2>1, TimeFacts DEF IInv
<1>10. ~ Instantiated(p) => TimeOf({p}) = 0
  BY TimeFacts DEF IInv
<1>11. localPrimaryTemplateTimes_'[p] = WaitingTime(p)'
  <2>1. WaitingTime(p)' = (TimeOf({p}) + d) % UIntLimit
    <3>1. PICK q : q = p
      OBVIOUS
    <3>2. WaitingTime(q)' = IF Instantiated(q)' /\ ~ IsNamed(q)' THEN TimeOf({q})' % UIntLimit ELSE Null
      BY DEF WaitingTime
    <3>3. Instantiated(q)' /\ ~ IsNamed(q)'
      BY <3>1, <1>1, <1>2, <1>7
    <3>4. TimeOf({q})' = TimeOf({q}) + d
      BY <3>1, <1>8
    <3> QED BY <3>1, <3>2, <3>3, <3>4
  <2>2. localPrimaryTemplateTimes_[p] = IF Instantiated(p) THEN TimeOf({p}) % UIntLimit ELSE Null
    BY <1>1, <1>2, <1>4 DEF LocalTimes, WaitingTime
  <2>3. localPrimaryTemplateTimes_'[p] = Sum(OrZero(localPrimaryTemplateTimes_[p]), d % UIntLimit)
    BY <1>1, <1>5, <1>6
  <2>4. Sum(OrZero(localPrimaryTemplateTimes_[p]), d % UIntLimit) = (TimeOf({p}) + d) % UIntLimit
    <3>1. CASE Instantiated(p)
      <4>1. TimeOf({p}) % UIntLimit \in Nat
        BY <1>9, SumWraps
      <4>2. OrZero(localPrimaryTemplateTimes_[p]) = TimeOf({p}) % UIntLimit
        BY <3>1, <2>2, <4>1, NullIsNoEntry DEF OrZero
      <4> QED BY <4>2, <1>9, SumWraps
    <3>2. CASE ~ Instantiated(p)
      <4>1. OrZero(localPrimaryTemplateTimes_[p]) = 0
        BY <3>2, <2>2 DEF OrZero
      <4>2. TimeOf({p}) + d = d
        BY <3>2, <1>9, <1>10
      <4> QED BY <4>1, <4>2, <1>9, SumWraps
    <3> QED BY <3>1, <3>2
  <2> QED BY <2>1, <2>3, <2>4
<1>12. ASSUME NEW k \in PrimaryKeys, k # p PROVE localPrimaryTemplateTimes_'[k] = WaitingTime(k)'
  <2>1. k \in Keys
    BY DEF Keys
  <2>2. WaitingTime(k)' = WaitingTime(k)
    <3>1. WaitingTime(k)' = IF Instantiated(k)' /\ ~ IsNamed(k)' THEN TimeOf({k})' % UIntLimit ELSE Null
      BY DEF WaitingTime
    <3>2. TimeOf({k})' = TimeOf({k})
      BY <1>8, <1>12
    <3> QED BY <3>1, <3>2, <2>1, <1>7, <1>12 DEF WaitingTime
  <2> QED BY <2>1, <2>2, <1>4, <1>5, <1>6, <1>12 DEF LocalTimes
<1>13. \A k \in SpecializationKeys : localPrimaryTemplateTimes_'[k] = Null
  BY <1>1, <1>4, <1>5, <1>6, KeyAssumption DEF LocalTimes, Keys
<1>14. LocalTimes'
  BY <1>11, <1>12, <1>13 DEF LocalTimes
<1>15. NamedTimes'
  <2> SUFFICES ASSUME NEW n \in Names, NEW K \in SUBSET PrimaryKeys, K = Seen(n)'
               PROVE  primaryTemplateStats_'[n] = StatsOf(K)'
    BY DEF NamedTimes
  <2>1. p \notin Namesakes(n)
    BY <1>2 DEF Namesakes
  <2>2. Seen(n)' = {k \in Namesakes(n)' : Instantiated(k)'}
    BY DEF Seen
  <2>3. K = Seen(n) /\ p \notin K
    BY <2>1, <2>2, <1>7 DEF Seen
  <2>4. StatsOf(K)' = StatsOf(K)
    BY <2>3, <1>8 DEF StatsOf
  <2> QED BY <2>3, <2>4, <1>4, <1>5 DEF NamedTimes
<1> QED BY <1>14, <1>15

LEMMA RecordSymbolSums ==
  ASSUME IInv, SumsInv, NEW s \in Symbol, Recording, isEnabled_, SymbolName(s)
  PROVE  LocalTimes' /\ NamedTimes'
<1> DEFINE k == s.key
           n == s.name
<1>1. s \in Events /\ s \notin Instantiation /\ k \in Keys /\ n \in Names
  BY EventFields DEF Events
<1>2. Dispatch(s) /\ ~ IsNamed(k)
  BY DEF SymbolName
<1>3. /\ trace' = Append(trace, s)
      /\ phase = "analysis" /\ analysisPass_ = 1 /\ analysisCount_ = 2
  BY <1>1, <1>2, RecordingDispatch
<1>4. LocalTimes /\ NamedTimes
  BY DEF SumsInv, FirstPassSums
<1>5. Phase1MergePrimaryTemplateDuration(k, n)
  BY <1>3 DEF SymbolName, CacheSymbol, MustCache, IsRelogging
<1>6. /\ localPrimaryTemplateTimes_ \in [Keys -> UInt \cup {Null}]
      /\ primaryTemplateStats_ \in [Names -> PrimaryTemplateStats \cup {Null}]
      /\ PrimaryKeys \subseteq Keys /\ SpecializationKeys \subseteq Keys
  BY DEF IInv, TypeOK, CacheTypeOK, Keys
<1>7. /\ \A x \in Keys : IsNamed(x)' <=> IsNamed(x) \/ x = k
      /\ \A x : Instantiated(x)' <=> Instantiated(x)
      /\ \A m \in Names : Namesakes(m)' =
           Namesakes(m) \cup {x \in PrimaryKeys : x = k /\ m = n}
  <2>1. /\ \A x \in Keys : IsNamed(x)' <=> IsNamed(x) \/ (s \in Symbol /\ s.key = x)
        /\ \A x : Instantiated(x)' <=> Instantiated(x) \/ (s \in Instantiation /\ s.primary = x)
        /\ \A m \in Names : Namesakes(m)' =
             Namesakes(m) \cup {x \in PrimaryKeys : s \in Symbol /\ s.key = x /\ s.name = m}
    BY <1>1, <1>2, <1>3, NamesGrow
  <2>2. \A m \in Names : {x \in PrimaryKeys : s \in Symbol /\ s.key = x /\ s.name = m}
                           = {x \in PrimaryKeys : x = k /\ m = n}
    BY <1>1
  <2> QED BY <2>1, <2>2, <1>1
<1>8. \A K : TimeOf(K)' = TimeOf(K)
  BY <1>1, <1>3, TimeGrows DEF IInv
<1>9. \A K : TimeOf(K) \in Nat /\ TimeOf(K) % UIntLimit \in Nat
  BY TimeFacts, SumWraps DEF IInv
<1>10. \A x \in Keys \ {k} : WaitingTime(x)' = WaitingTime(x)
  <2> SUFFICES ASSUME NEW x \in Keys \ {k} PROVE WaitingTime(x)' = WaitingTime(x)
    OBVIOUS
  <2>1. WaitingTime(x)' = IF Instantiated(x)' /\ ~ IsNamed(x)' THEN TimeOf({x})' % UIntLimit ELSE Null
    BY DEF WaitingTime
  <2> QED BY <2>1, <1>7, <1>8 DEF WaitingTime
<1>11. \A x \in Keys : x = k => WaitingTime(x)' = Null
  <2> SUFFICES ASSUME NEW x \in Keys, x = k PROVE WaitingTime(x)' = Null
    OBVIOUS
  <2>1. WaitingTime(x)' = IF Instantiated(x)' /\ ~ IsNamed(x)' THEN TimeOf({x})' % UIntLimit ELSE Null
    BY DEF WaitingTime
  <2> QED BY <2>1, <1>7
<1>12. \A K : StatsOf(K)' = StatsOf(K)
  BY <1>8 DEF StatsOf
<1>13. CASE k \in PrimaryKeys /\ Instantiated(k)
  <2> DEFINE us == TimeOf({k}) % UIntLimit
  <2>1. localPrimaryTemplateTimes_[k] = us /\ us # Null
    BY <1>2, <1>4, <1>9, <1>13, NullIsNoEntry DEF LocalTimes, WaitingTime
  <2>2. /\ primaryTemplateStats_' = [primaryTemplateStats_ EXCEPT ![n] = StatsWith(n, k, us)]
        /\ localPrimaryTemplateTimes_' = [localPrimaryTemplateTimes_ EXCEPT ![k] = Null]
    BY <2>1, <1>5 DEF Phase1MergePrimaryTemplateDuration
  <2>3. LocalTimes'
    <3>1. \A x \in PrimaryKeys : localPrimaryTemplateTimes_'[x] = WaitingTime(x)'
      BY <2>2, <1>1, <1>4, <1>6, <1>10, <1>11 DEF LocalTimes
    <3>2. \A x \in SpecializationKeys : localPrimaryTemplateTimes_'[x] = Null
      BY <2>2, <1>1, <1>4, <1>6 DEF LocalTimes
    <3> QED BY <3>1, <3>2 DEF LocalTimes
  <2>4. NamedTimes'
    <3> SUFFICES ASSUME NEW m \in Names, NEW K \in SUBSET PrimaryKeys, K = Seen(m)'
                 PROVE  primaryTemplateStats_'[m] = StatsOf(K)'
      BY DEF NamedTimes
    <3>1. Seen(m)' = {x \in Namesakes(m)' : Instantiated(x)'}
      BY DEF Seen
    <3>2. Seen(m) \in SUBSET PrimaryKeys /\ primaryTemplateStats_[m] = StatsOf(Seen(m))
      BY <1>4 DEF NamedTimes, Seen, Namesakes
    <3>3. CASE m # n
      <4>1. K = Seen(m)
        BY <3>1, <3>3, <1>7 DEF Seen
      <4> QED BY <4>1, <3>2, <3>3, <2>2, <1>6, <1>12
    <3>4. CASE m = n
      <4> DEFINE S == Seen(n)
      <4>1. K = S \cup {k}
        BY <3>1, <3>4, <1>7, <1>13 DEF Seen
      <4>2. k \notin S
        BY <1>2 DEF Seen, Namesakes
      <4>3. TimeOf(K) = TimeOf(S) + TimeOf({k})
        BY <4>1, <4>2, TimeFacts DEF IInv
      <4>4. primaryTemplateStats_'[m] = StatsWith(n, k, us)
        BY <2>2, <3>4, <1>6
      <4>5. StatsOf(K) = [PrimaryKeys |-> K, TotalMicroseconds |-> TimeOf(K) % UIntLimit]
        BY <4>1 DEF StatsOf
      <4>6. CASE S = {}
        <5>1. K = {k}
          BY <4>1, <4>6
        <5>2. primaryTemplateStats_[n] = Null
          BY <3>2, <3>4, <4>6 DEF StatsOf
        <5>3. StatsWith(n, k, us) = [PrimaryKeys |-> {k}, TotalMicroseconds |-> us]
          BY <5>2 DEF StatsWith
        <5> QED BY <5>1, <5>3, <4>4, <4>5, <1>12
      <4>7. CASE S # {}
        <5>1. primaryTemplateStats_[n] = [PrimaryKeys |-> S, TotalMicroseconds |-> TimeOf(S) % UIntLimit]
          BY <3>2, <3>4, <4>7 DEF StatsOf
        <5>2. primaryTemplateStats_[n] # Null
          <6>1. TimeOf(S) % UIntLimit \in UInt
            <7>1. \A x \in Nat : x % UIntLimit \in UInt
              BY NumberAssumption DEF UInt
            <7> QED BY <7>1, <1>9
          <6>2. S \in SUBSET Keys
            BY <3>2, <3>4, <1>6
          <6>3. primaryTemplateStats_[n] \in PrimaryTemplateStats
            BY <5>1, <6>1, <6>2 DEF PrimaryTemplateStats
          <6> QED BY <6>3, NullIsNoEntry
        <5>3. Sum(TimeOf(S) % UIntLimit, us) = TimeOf(K) % UIntLimit
          BY <4>3, <1>9, SumWraps
        <5>4. StatsWith(n, k, us) = [PrimaryKeys |-> S \cup {k},
                                     TotalMicroseconds |-> Sum(TimeOf(S) % UIntLimit, us)]
          BY <5>1, <5>2 DEF StatsWith
        <5> QED BY <5>3, <5>4, <4>1, <4>4, <4>5, <1>12
      <4> QED BY <4>6, <4>7
    <3> QED BY <3>3, <3>4
  <2> QED BY <2>3, <2>4
<1>14. CASE ~ (k \in PrimaryKeys /\ Instantiated(k))
  <2>1. localPrimaryTemplateTimes_[k] = Null
    BY <1>1, <1>4, <1>14 DEF LocalTimes, WaitingTime, Keys
  <2>2. UNCHANGED <<primaryTemplateStats_, localPrimaryTemplateTimes_>>
    BY <2>1, <1>5 DEF Phase1MergePrimaryTemplateDuration
  <2>3. LocalTimes'
    <3>1. \A x \in PrimaryKeys : localPrimaryTemplateTimes_'[x] = WaitingTime(x)'
      BY <2>1, <2>2, <1>4, <1>6, <1>10, <1>11 DEF LocalTimes
    <3> QED BY <3>1, <2>2, <1>4 DEF LocalTimes
  <2>4. NamedTimes'
    <3> SUFFICES ASSUME NEW m \in Names, NEW K \in SUBSET PrimaryKeys, K = Seen(m)'
                 PROVE  primaryTemplateStats_'[m] = StatsOf(K)'
      BY DEF NamedTimes
    <3>1. Seen(m)' = {x \in Namesakes(m)' : Instantiated(x)'}
      BY DEF Seen
    <3>2. K = Seen(m)
      BY <3>1, <1>7, <1>14 DEF Seen
    <3> QED BY <3>2, <2>2, <1>4, <1>12 DEF NamedTimes
  <2> QED BY <2>3, <2>4
<1> QED BY <1>13, <1>14

-----------------------------------------------------------------------------
(* What is chosen and shown. *)

\* A trace that stays the same, with its duration, keeps the sums and what is
\* expensive.
LEMMA SameSums ==
  ASSUME IInv, trace' = trace, traceDuration_' = traceDuration_
  PROVE  /\ \A k \in PrimaryKeys : Expensive(k)' <=> Expensive(k)
         /\ \A k \in PrimaryKeys : WaitingTime(k)' = WaitingTime(k)
         /\ \A n \in Names : Seen(n)' = Seen(n)
         /\ \A K : StatsOf(K)' = StatsOf(K)
<1>1. /\ Instantiations' = Instantiations /\ SymbolNames' = SymbolNames
      /\ \A k \in Keys : (IsNamed(k)' <=> IsNamed(k)) /\ NameOf(k)' = NameOf(k)
  BY SameTrace
<1>5. \A k : Instantiated(k)' <=> Instantiated(k)
  BY <1>1 DEF Instantiated
<1>2. \A n \in Names : Seen(n)' = Seen(n)
  <2>1. PrimaryKeys \subseteq Keys
    BY DEF Keys
  <2>3. ASSUME NEW n \in Names PROVE Namesakes(n)' = Namesakes(n)
    <3>1. Namesakes(n)' = {k \in PrimaryKeys : IsNamed(k)' /\ NameOf(k)' = n}
      BY DEF Namesakes
    <3> QED BY <3>1, <2>1, <1>1 DEF Namesakes
  <2>4. ASSUME NEW n \in Names PROVE Seen(n)' = Seen(n)
    <3>1. Seen(n)' = {k \in Namesakes(n)' : Instantiated(k)'}
      BY DEF Seen
    <3> QED BY <3>1, <1>5, <2>3 DEF Seen
  <2> QED BY <2>4
<1>3. \A K : TimeOf(K)' = TimeOf(K)
  BY <1>1 DEF TimeOf, TimesOf
<1>4. Cutoff' = Cutoff
  BY DEF Cutoff
<1>6. ASSUME NEW k \in PrimaryKeys PROVE WaitingTime(k)' = WaitingTime(k)
  <2>1. WaitingTime(k)' = IF Instantiated(k)' /\ ~ IsNamed(k)' THEN TimeOf({k})' % UIntLimit ELSE Null
    BY DEF WaitingTime
  <2> QED BY <2>1, <1>1, <1>3, <1>5 DEF WaitingTime, Keys
<1>7. \A K : StatsOf(K)' = StatsOf(K)
  BY <1>3 DEF StatsOf
<1>8. \A k \in PrimaryKeys : Expensive(k)' <=> Expensive(k)
  BY <1>2, <1>3, <1>4 DEF Expensive
<1> QED BY <1>2, <1>6, <1>7, <1>8

\* At the end of the first pass, exactly what is expensive is chosen.
LEMMA EndOfFirstPassSums ==
  ASSUME IInv, SumsInv, BeginAnalysisPass, EndAnalysisPass
  PROVE  SumsInv'
<1>1. /\ phase = "analysis" /\ analysisPass_ = 1 /\ analysisPass_' = 2 /\ isEnabled_
      /\ UNCHANGED <<trace, phase, analysisCount_, isEnabled_, shown>>
      /\ analysisCount_ = 2 /\ shown = {}
  BY DEF BeginAnalysisPass, EndAnalysisPass, IInv, PassInv, analysisPassCount
<1>2. DetermineTopPrimaryTemplates
  BY <1>1 DEF EndAnalysisPass, CacheEndOfPass, MustCache, IsRelogging
<1>3. Recording /\ NamedTimes
  BY <1>1 DEF Recording, SumsInv, FirstPassSums
<1>4. ASSUME NEW k \in PrimaryKeys PROVE IsConsidered(k)' <=> Expensive(k)'
  <2>1. k \in Keys
    BY DEF Keys
  <2>2. keysToConsider_[k] = Null
    BY <1>3, <2>1 DEF IInv, PointersInv
  <2> DEFINE Chosen == \E n \in TopNames : k \in primaryTemplateStats_[n].PrimaryKeys
  <2>3. keysToConsider_'[k] = IF Chosen
                                THEN CHOOSE n \in TopNames : k \in primaryTemplateStats_[n].PrimaryKeys
                                ELSE Null
    BY <1>2, <2>1, <2>2 DEF DetermineTopPrimaryTemplates
  <2>4. TopNames \subseteq Names /\ Null \notin Names
    BY NullIsNoEntry DEF TopNames
  <2>5. IsConsidered(k)' <=> Chosen
    BY <2>3, <2>4 DEF IsConsidered
  <2>6. Chosen <=> Expensive(k)
    <3>1. ASSUME NEW n \in Names, NEW K \in SUBSET PrimaryKeys, K = Seen(n)
          PROVE  n \in TopNames /\ k \in primaryTemplateStats_[n].PrimaryKeys
                   <=> k \in K /\ TimeOf(K) % UIntLimit >= Cutoff
      <4>1. primaryTemplateStats_[n] = StatsOf(K)
        BY <1>3, <3>1 DEF NamedTimes
      <4>2. CASE K = {}
        <5>1. n \notin TopNames
          BY <4>1, <4>2 DEF StatsOf, TopNames
        <5> QED BY <5>1, <4>2
      <4>3. CASE K # {}
        <5>1. primaryTemplateStats_[n] = [PrimaryKeys |-> K, TotalMicroseconds |-> TimeOf(K) % UIntLimit]
          BY <4>1, <4>3 DEF StatsOf
        <5>2. primaryTemplateStats_[n] # Null
          <6>1. TimeOf(K) % UIntLimit \in UInt
            <7>1. \A x \in Nat : x % UIntLimit \in UInt
              BY NumberAssumption DEF UInt
            <7> QED BY <7>1, TimeFacts DEF IInv
          <6>2. K \in SUBSET Keys
            BY DEF Keys
          <6>3. primaryTemplateStats_[n] \in PrimaryTemplateStats
            BY <5>1, <6>1, <6>2 DEF PrimaryTemplateStats
          <6> QED BY <6>3, NullIsNoEntry
        <5> QED BY <5>1, <5>2 DEF TopNames
      <4> QED BY <4>2, <4>3
    <3>2. \A n \in Names : Seen(n) \in SUBSET PrimaryKeys
      BY DEF Seen, Namesakes
    <3> QED BY <3>1, <3>2, <2>4 DEF Expensive
  <2>7. Expensive(k)' <=> Expensive(k)
    BY <1>1, <1>2, SameSums DEF DetermineTopPrimaryTemplates
  <2> QED BY <2>5, <2>6, <2>7
<1>5. ~ Recording'
  BY <1>1 DEF Recording
<1>6. ViewInv'
  BY <1>1 DEF ViewInv, IsShown
<1> QED BY <1>4, <1>5, <1>6 DEF SumsInv, FirstPassSums, ChosenInv

\* A pointer of a primary template never changes after the first pass.
LEMMA ChoiceKept ==
  ASSUME IInv, SumsInv, ~ Recording, trace' = trace,
         UNCHANGED <<traceDuration_, isEnabled_>>, ~ Recording',
         \A k \in PrimaryKeys : keysToConsider_'[k] = keysToConsider_[k]
  PROVE  FirstPassSums' /\ ChosenInv'
<1>1. \A k \in PrimaryKeys : Expensive(k)' <=> Expensive(k)
  BY SameSums
<1>2. \A k \in PrimaryKeys : IsConsidered(k)' <=> IsConsidered(k)
  BY DEF IsConsidered
<1> QED BY <1>1, <1>2 DEF SumsInv, FirstPassSums, ChosenInv

LEMMA EndOfAnalysisSums ==
  ASSUME IInv, SumsInv, BeginRelogging, EndAnalysisPass
  PROVE  SumsInv'
<1>1. /\ phase = "analysis" /\ phase' = "relogging"
      /\ analysisPass_ = analysisPassCount
      /\ analysisCount_ = 2 /\ pos' = 0
      /\ UNCHANGED <<trace, isEnabled_, shown>>
      /\ shown = {}
  BY DEF BeginRelogging, EndAnalysisPass, IInv, PassInv
<1>2. ~ Recording'
  BY <1>1 DEF Recording
<1>3. FirstPassSums' /\ ChosenInv'
  <2>1. CASE isEnabled_
    <3>1. ~ Recording
      BY <2>1, <1>1 DEF Recording, analysisPassCount
    <3>2. UNCHANGED <<traceDuration_, keysToConsider_>>
      BY <2>1, <1>1 DEF EndAnalysisPass, CacheEndOfPass, MustCache, IsRelogging,
                            ForgetSpecializations, analysisPassCount
    <3> QED BY <3>1, <3>2, <1>1, <1>2, ChoiceKept
  <2>2. CASE ~ isEnabled_
    BY <2>2, <1>1 DEF FirstPassSums, ChosenInv
  <2> QED BY <2>1, <2>2
<1>4. \A i \in Instantiations' : ~ (i <= pos')
  <2>1. Instantiations' = Instantiations
    BY <1>1, SameTrace
  <2> QED BY <2>1, <1>1, TraceFacts DEF IInv
<1>5. ViewInv'
  BY <1>1, <1>4 DEF ViewInv, IsShown
<1> QED BY <1>3, <1>5 DEF SumsInv

LEMMA ReplayInstantiationSums ==
  ASSUME IInv, SumsInv, NEW e \in Instantiation, ~ Recording, TemplateInstantiation(e)
  PROVE  SumsInv'
<1>1. e \in Events /\ e.primary \in PrimaryKeys /\ e.primary \in Keys
  BY EventFields DEF Events
<1>2. /\ trace' = trace
      /\ UNCHANGED <<phase, analysisCount_, analysisPass_, isEnabled_>>
      /\ pos' = pos + 1 /\ pos \in Nat /\ trace[pos + 1] = e
      /\ pos + 1 \in Instantiations
      /\ ~ Recording'
      /\ \/ phase = "analysis" /\ analysisPass_ = 2 /\ isEnabled_ /\ analysisCount_ = 2
         \/ phase = "relogging" /\ analysisCount_ = 1
  BY <1>1, ReplayDispatch DEF TemplateInstantiation
<1>3. UNCHANGED <<traceDuration_, keysToConsider_>>
  <2>1. CASE phase = "analysis"
    BY <2>1, <1>2 DEF TemplateInstantiation, CacheInstantiation, MustCache, IsRelogging,
                      Phase2RegisterSpecializationKey
  <2>2. CASE phase = "relogging"
    BY <2>2, <1>2 DEF TemplateInstantiation, CacheInstantiation, MustCache, IsRelogging, cacheVars
  <2> QED BY <2>1, <2>2, <1>2
<1>4. FirstPassSums' /\ ChosenInv'
  BY <1>2, <1>3, ChoiceKept
<1>5. Instantiations' = Instantiations /\ \A i \in Instantiations : i \in Nat
  BY <1>2, SameTrace, TraceFacts DEF IInv
<1>6. ViewInv'
  <2>1. CASE phase = "analysis"
    <3>1. shown' = shown
      BY <2>1 DEF TemplateInstantiation, ViewShows
    <3> QED BY <2>1, <3>1, <1>2, <1>5 DEF SumsInv, ViewInv, IsShown
  <2>2. CASE phase = "relogging" /\ isEnabled_
    <3>1. ASSUME NEW i \in Instantiations
          PROVE  IsShown(i)' <=> i <= pos' /\ IsConsidered(trace[i].primary)
      <4>1. IsShown(i) <=> i <= pos /\ IsConsidered(trace[i].primary)
        BY <2>2 DEF SumsInv, ViewInv
      <4>2. IsShown(i)' <=> IsShown(i) \/ (i = pos + 1 /\ IsConsidered(e.primary))
        <5> DEFINE x == [at |-> pos + 1, primary |-> keysToConsider_[e.primary],
                         specialization |-> SpecializationName(e.specialization)]
        <5>1. shown' = IF IsConsidered(e.primary) THEN shown \cup {x} ELSE shown
          BY <2>2 DEF TemplateInstantiation, ViewShows
        <5>2. x.at = pos + 1
          OBVIOUS
        <5> HIDE DEF x
        <5> QED BY <5>1, <5>2 DEF IsShown
      <4> QED BY <4>1, <4>2, <1>2, <1>5
    <3> QED BY <2>2, <3>1, <1>2, <1>3, <1>5 DEF ViewInv, IsConsidered
  <2>3. CASE phase = "relogging" /\ ~ isEnabled_
    BY <2>3, <1>2 DEF ViewInv
  <2> QED BY <2>1, <2>2, <2>3, <1>2
<1> QED BY <1>4, <1>6 DEF SumsInv

LEMMA ReplaySymbolSums ==
  ASSUME IInv, SumsInv, NEW s \in Symbol, ~ Recording, SymbolName(s)
  PROVE  SumsInv'
<1>1. s \in Events /\ s.key \in Keys /\ s \notin Instantiation
  BY EventFields DEF Events
<1>2. /\ trace' = trace
      /\ UNCHANGED <<phase, analysisCount_, analysisPass_, isEnabled_>>
      /\ pos' = pos + 1 /\ pos \in Nat /\ trace[pos + 1] = s
      /\ ~ Recording'
      /\ \/ phase = "analysis" /\ analysisPass_ = 2 /\ isEnabled_ /\ analysisCount_ = 2
         \/ phase = "relogging" /\ analysisCount_ = 1
      /\ UNCHANGED shown
  BY <1>1, ReplayDispatch DEF SymbolName
<1>3. /\ traceDuration_' = traceDuration_
      /\ \A k \in PrimaryKeys : keysToConsider_'[k] = keysToConsider_[k]
  <2>1. CASE phase = "analysis"
    <3>1. Phase2MergeSpecializationKey(s.key, s.name)
      BY <2>1, <1>2 DEF SymbolName, CacheSymbol, MustCache, IsRelogging
    <3>2. localSpecializationKeysToConsider_ \subseteq SpecializationKeys
      BY DEF IInv, PointersInv
    <3>3. keysToConsider_ \in [Keys -> Names \cup {Null}] /\ PrimaryKeys \subseteq Keys
      BY DEF IInv, TypeOK, CacheTypeOK, Keys
    <3> QED BY <3>1, <3>2, <3>3, KeyAssumption DEF Phase2MergeSpecializationKey
  <2>2. CASE phase = "relogging"
    BY <2>2, <1>2 DEF SymbolName, CacheSymbol, MustCache, IsRelogging, cacheVars
  <2> QED BY <2>1, <2>2, <1>2
<1>4. FirstPassSums' /\ ChosenInv'
  BY <1>2, <1>3, ChoiceKept
<1>5. /\ Instantiations' = Instantiations
      /\ \A i \in Instantiations : i \in Nat /\ i # pos + 1 /\ trace[i].primary \in PrimaryKeys
  <2>1. \A i \in Instantiations : i \in Nat /\ trace[i] \in Instantiation
    BY TraceFacts DEF IInv
  <2>2. \A x \in Instantiation : x.primary \in PrimaryKeys
    BY EventFields DEF Events
  <2> QED BY <2>1, <2>2, <1>1, <1>2, SameTrace
<1>6. \A i \in Instantiations : i <= pos' <=> i <= pos
  BY <1>2, <1>5
<1>7. ViewInv'
  BY <1>2, <1>3, <1>5, <1>6 DEF SumsInv, ViewInv, IsShown, IsConsidered
<1> QED BY <1>4, <1>7 DEF SumsInv

LEMMA RecordSums ==
  ASSUME IInv, SumsInv, NEW e \in Events, Recording,
         (e \in Instantiation /\ TemplateInstantiation(e)) \/ (e \in Symbol /\ SymbolName(e))
  PROVE  SumsInv'
<1>1. /\ phase = "analysis" /\ shown = {} /\ Recording'
      /\ UNCHANGED <<phase, isEnabled_>>
  BY RecordingDispatch DEF TemplateInstantiation, SymbolName
<1>2. shown' = {}
  BY <1>1 DEF TemplateInstantiation, SymbolName, ViewShows
<1>3. ViewInv'
  BY <1>1, <1>2 DEF ViewInv, IsShown
<1>4. FirstPassSums' /\ ChosenInv'
  BY <1>1, RecordInstantiationSums, RecordSymbolSums DEF FirstPassSums, ChosenInv
<1> QED BY <1>3, <1>4 DEF SumsInv

LEMMA SumsNext == IInv /\ SumsInv /\ [Next]_vars => SumsInv'
<1> SUFFICES ASSUME IInv, SumsInv, [Next]_vars PROVE SumsInv'
  OBVIOUS
<1>1. ASSUME NEW i \in Instantiation, TemplateInstantiation(i) PROVE SumsInv'
  BY <1>1, RecordSums, ReplayInstantiationSums DEF Events
<1>2. ASSUME NEW s \in Symbol, SymbolName(s) PROVE SumsInv'
  BY <1>2, RecordSums, ReplaySymbolSums DEF Events
<1>3. CASE EndAnalysisPass
  BY <1>3, EndOfFirstPassSums, EndOfAnalysisSums DEF EndAnalysisPass
<1>4. CASE End
  <2>1. /\ phase = "relogging" /\ phase' = "done" /\ pos' = pos /\ pos = Len(trace)
        /\ UNCHANGED <<trace, isEnabled_, shown, traceDuration_, keysToConsider_>>
    BY <1>4 DEF End, EndRelogging, cacheVars
  <2>2. ~ Recording /\ ~ Recording'
    BY <2>1 DEF Recording
  <2>3. FirstPassSums' /\ ChosenInv'
    BY <2>1, <2>2, ChoiceKept
  <2>4. ViewInv'
    <3>1. Instantiations' = Instantiations
      BY <2>1, SameTrace
    <3> QED BY <2>1, <3>1 DEF SumsInv, ViewInv, IsShown, IsConsidered
  <2> QED BY <2>3, <2>4 DEF SumsInv
<1>5. CASE UNCHANGED vars
  <2>1. UNCHANGED <<trace, pos, phase, analysisPass_, isEnabled_, shown, traceDuration_,
                    keysToConsider_, primaryTemplateStats_, localPrimaryTemplateTimes_>>
    BY <1>5 DEF vars, passVars, cacheVars
  <2>2. Instantiations' = Instantiations
    BY <2>1, SameTrace
  <2>3. ViewInv'
    BY <2>1, <2>2 DEF SumsInv, ViewInv, IsShown, IsConsidered
  <2>4. FirstPassSums' /\ ChosenInv'
    <3>1. CASE Recording
      <4>1. Recording'
        BY <2>1, <3>1 DEF Recording
      <4>2. /\ \A k \in PrimaryKeys : WaitingTime(k)' = WaitingTime(k)
            /\ \A n \in Names : Seen(n)' = Seen(n)
            /\ \A K : StatsOf(K)' = StatsOf(K)
        BY <2>1, SameSums
      <4>3. LocalTimes => LocalTimes'
        BY <2>1, <4>2 DEF LocalTimes
      <4>4. NamedTimes => NamedTimes'
        BY <2>1, <4>2 DEF NamedTimes
      <4> QED BY <2>1, <3>1, <4>1, <4>3, <4>4 DEF SumsInv, FirstPassSums, ChosenInv
    <3>2. CASE ~ Recording
      BY <2>1, <3>2, ChoiceKept DEF Recording
    <3> QED BY <3>1, <3>2
  <2> QED BY <2>3, <2>4 DEF SumsInv
<1> QED BY <1>1, <1>2, <1>3, <1>4, <1>5 DEF Next

LEMMA SumsInit == Init => SumsInv
<1> SUFFICES ASSUME Init PROVE SumsInv
  OBVIOUS
<1>1. trace = <<>> /\ phase = "analysis" /\ analysisPass_ = 1 /\ shown = {}
  BY DEF Init, PassesInit
<1>2. Recording
  BY <1>1 DEF Recording
<1>3. Instantiations = {}
  BY <1>1 DEF Instantiations
<1>4. \A k : ~ Instantiated(k)
  BY <1>3 DEF Instantiated
<1>5. LocalTimes
  BY <1>4 DEF Init, CacheInit, LocalTimes, WaitingTime, Keys
<1>6. NamedTimes
  BY <1>4 DEF Init, CacheInit, NamedTimes, StatsOf, Seen
<1> QED BY <1>1, <1>2, <1>3, <1>5, <1>6 DEF SumsInv, FirstPassSums, ChosenInv, ViewInv

\* What is added up, chosen and shown, pass by pass.
THEOREM SumsInvariance == Spec => []SumsInv
  BY SumsInit, SumsNext, TemplateInvariance, PTL DEF Spec

\* However the events of parallel compilers come, what the view shows of the
\* instantiations of a template is all of them or none: all exactly when the sum
\* that DetermineTopPrimaryTemplates compares, over all templates of that name,
\* reaches the cutoff.  The sum is that of the durations unless it overflows.
THEOREM ExpensiveStayShown == Spec => []ExpensiveShown
<1>1. ASSUME IInv, SumsInv PROVE ExpensiveShown
  <2> SUFFICES ASSUME phase = "done", isEnabled_, NoOverflow, NEW i \in Instantiations
               PROVE  IsShown(i) <=> IsNamed(trace[i].primary) /\ TotalTime(trace[i].primary) >= Cutoff
    BY DEF ExpensiveShown
  <2> DEFINE k == trace[i].primary
  <2>1. k \in PrimaryKeys /\ i <= pos
    <3>1. trace[i] \in Instantiation /\ i \in 1 .. Len(trace)
      BY <1>1, TraceFacts DEF IInv
    <3>2. \A x \in Instantiation : x.primary \in PrimaryKeys
      BY EventFields DEF Events
    <3> QED BY <3>1, <3>2, <1>1 DEF SumsInv, ViewInv
  <2>2. IsShown(i) <=> Expensive(k)
    <3>1. ~ Recording
      BY DEF Recording
    <3> QED BY <3>1, <2>1, <1>1 DEF SumsInv, ViewInv, ChosenInv
  <2>3. Instantiated(k)
    BY DEF Instantiated
  <2>4. Expensive(k) => IsNamed(k)
    BY DEF Expensive, Seen, Namesakes
  <2>5. ASSUME IsNamed(k)
        PROVE  Expensive(k) <=> TotalTime(k) >= Cutoff
    <3> DEFINE n == NameOf(k)
               K == Seen(n)
    <3>1. n \in Names
      <4>1. PICK j \in SymbolNames : trace[j].key = k
        BY <2>5 DEF IsNamed
      <4>2. NameOf(trace[j].key) = trace[j].name /\ trace[j] \in Symbol
        BY <1>1, NameOfUnique, TraceFacts DEF IInv, NamesDetermined
      <4> QED BY <4>1, <4>2 DEF Symbol
    <3>2. K \in SUBSET PrimaryKeys /\ k \in K
      BY <2>1, <2>3, <2>5 DEF Seen, Namesakes
    <3>3. Expensive(k) <=> TimeOf(K) % UIntLimit >= Cutoff
      <4>1. \A m \in Names : k \in Seen(m) => m = n
        BY DEF Seen, Namesakes
      <4> QED BY <4>1, <3>1, <3>2 DEF Expensive
    <3>4. TimeOf(K) = TotalTime(k)
      <4>1. \A j \in Instantiations : trace[j].primary \in K <=> trace[j].primary \in Namesakes(n)
        BY DEF Seen, Instantiated
      <4>2. TimeOf(K) = TimeOf(Namesakes(n))
        BY <4>1, <1>1, TimeFacts DEF IInv
      <4> QED BY <4>2 DEF TotalTime
    <3>5. TotalTime(k) < UIntLimit
      BY <2>5 DEF NoOverflow
    <3>6. TimeOf(K) \in Nat
      BY <1>1, TimeFacts DEF IInv
    <3>7. TimeOf(K) % UIntLimit = TimeOf(K)
      BY <3>4, <3>5, <3>6, SumWraps
    <3> QED BY <3>3, <3>4, <3>7
  <2> QED BY <2>2, <2>4, <2>5
<1> QED BY <1>1, SumsInvariance, TemplateInvariance, PTL

=============================================================================

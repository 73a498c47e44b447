--------------------------- MODULE TemplateCache ---------------------------
(***************************************************************************)
(* ExpensiveTemplateInstantiationCache: which template instantiations the  *)
(* relogged trace shows, and by what names.                                *)
(*                                                                         *)
(* An instantiation has the keys of its primary template and of its        *)
(* specialization; the names come later, in events of their own.  The      *)
(* first pass adds up the time of every primary template, over all the     *)
(* keys that turn out to have the same name, and keeps those above a       *)
(* cutoff; the second finds the names of their specializations.            *)
(*                                                                         *)
(* A const char* into cachedSymbolNames_ is the name itself: a pointer     *)
(* dangles when the name is not in the cache.                              *)
(***************************************************************************)
EXTENDS Naturals

CONSTANTS
  PrimaryKeys, SpecializationKeys,   \* keys of symbols
  Names,        \* names of symbols
  Null,         \* no entry, no name
  UIntLimit,    \* 2^32
  NsPerUs,      \* 1000 nanoseconds per microsecond
  MaxCutoff,    \* 500000
  CutoffShare   \* 20: five percent of the trace

ASSUME NumberAssumption ==
  /\ UIntLimit \in Nat \ {0} /\ NsPerUs \in Nat \ {0} /\ CutoffShare \in Nat \ {0}
  /\ MaxCutoff \in 0 .. UIntLimit - 1
ASSUME NullAssumption == Null \notin Names \cup Nat

\* "The key is unique for the trace" (ExecutionHierarchy::OnSymbolName).
ASSUME KeyAssumption == PrimaryKeys \cap SpecializationKeys = {}

Keys == PrimaryKeys \cup SpecializationKeys

VARIABLES
  traceDuration_,            \* in nanoseconds
  cachedSymbolNames_,        \* the names in memory
  keysToConsider_,           \* keysToConsider_[k]: a pointer to k's name, or Null
  primaryTemplateStats_,     \* primaryTemplateStats_[n]: the templates named n, or Null
  localPrimaryTemplateTimes_,         \* time of a key that has no name yet, or Null
  localSpecializationKeysToConsider_  \* specializations to show, without a name yet

cacheVars == <<traceDuration_, cachedSymbolNames_, keysToConsider_, primaryTemplateStats_,
               localPrimaryTemplateTimes_, localSpecializationKeysToConsider_>>

UInt == 0 .. UIntLimit - 1

PrimaryTemplateStats == [PrimaryKeys : SUBSET Keys, TotalMicroseconds : UInt]

ASSUME NoStatsAssumption == Null \notin PrimaryTemplateStats

CacheTypeOK ==
  /\ traceDuration_ \in Nat
  /\ cachedSymbolNames_ \subseteq Names
  /\ keysToConsider_ \in [Keys -> Names \cup {Null}]
  /\ primaryTemplateStats_ \in [Names -> PrimaryTemplateStats \cup {Null}]
  /\ localPrimaryTemplateTimes_ \in [Keys -> UInt \cup {Null}]
  /\ localSpecializationKeysToConsider_ \subseteq Keys

CacheInit ==
  /\ cachedSymbolNames_ = {}
  /\ keysToConsider_ = [k \in Keys |-> Null]
  /\ primaryTemplateStats_ = [n \in Names |-> Null]
  /\ localPrimaryTemplateTimes_ = [k \in Keys |-> Null]
  /\ localSpecializationKeysToConsider_ = {}

OrZero(x) == IF x = Null THEN 0 ELSE x

-----------------------------------------------------------------------------
(* The first pass. *)

\* += on an unsigned int.
Sum(x, y) == (x + y) % UIntLimit

\* A duration in nanoseconds, cut to whole microseconds and to an unsigned int.
Microseconds(d) == (d \div NsPerUs) % UIntLimit

Phase1RegisterPrimaryTemplateLocalTime(p, d) ==
  /\ localPrimaryTemplateTimes_' =
       [localPrimaryTemplateTimes_ EXCEPT ![p] = Sum(OrZero(@), Microseconds(d))]
  /\ UNCHANGED <<traceDuration_, cachedSymbolNames_, keysToConsider_,
                 primaryTemplateStats_, localSpecializationKeysToConsider_>>

\* Fault: the templates of the last key with a name, instead of all.
StatsReplaced(n, k, us) == [PrimaryKeys |-> {k}, TotalMicroseconds |-> us]

\* The templates named n once key k, with its time, is one of them.
StatsWith(n, k, us) ==
  IF primaryTemplateStats_[n] = Null
    THEN [PrimaryKeys |-> {k}, TotalMicroseconds |-> us]
    ELSE [PrimaryKeys |-> primaryTemplateStats_[n].PrimaryKeys \cup {k},
          TotalMicroseconds |-> Sum(primaryTemplateStats_[n].TotalMicroseconds, us)]

Phase1MergePrimaryTemplateDuration(k, n) ==
  /\ IF localPrimaryTemplateTimes_[k] = Null
       THEN UNCHANGED <<cachedSymbolNames_, primaryTemplateStats_, localPrimaryTemplateTimes_>>
       ELSE /\ cachedSymbolNames_' = cachedSymbolNames_ \cup {n}
            /\ primaryTemplateStats_' =
                 [primaryTemplateStats_ EXCEPT
                    ![n] = StatsWith(n, k, localPrimaryTemplateTimes_[k])]
            /\ localPrimaryTemplateTimes_' = [localPrimaryTemplateTimes_ EXCEPT ![k] = Null]
  /\ UNCHANGED <<traceDuration_, keysToConsider_, localSpecializationKeysToConsider_>>

\* Five percent of the nanoseconds of the trace, taken for microseconds.
Cutoff ==
  LET durationBasedCutoff == traceDuration_ \div CutoffShare
  IN  IF durationBasedCutoff < MaxCutoff THEN durationBasedCutoff ELSE MaxCutoff

TopNames ==
  {n \in Names : /\ primaryTemplateStats_[n] # Null
                 /\ primaryTemplateStats_[n].TotalMicroseconds >= Cutoff}

\* Fault: no continue after the keys of an expensive template.
ErasedNamesAll == {n \in Names : primaryTemplateStats_[n] # Null}

ErasedNames == {n \in Names \ TopNames : primaryTemplateStats_[n] # Null}

DetermineTopPrimaryTemplates ==
  /\ keysToConsider_' =
       [k \in Keys |->
          IF \E n \in TopNames : k \in primaryTemplateStats_[n].PrimaryKeys
            THEN CHOOSE n \in TopNames : k \in primaryTemplateStats_[n].PrimaryKeys
            ELSE keysToConsider_[k]]
  /\ cachedSymbolNames_' = cachedSymbolNames_ \ ErasedNames
  /\ primaryTemplateStats_' = [n \in Names |-> Null]
  /\ localPrimaryTemplateTimes_' = [k \in Keys |-> Null]
  /\ UNCHANGED <<traceDuration_, localSpecializationKeysToConsider_>>

-----------------------------------------------------------------------------
(* The second pass. *)

Phase2RegisterSpecializationKey(p, s) ==
  /\ localSpecializationKeysToConsider_' =
       IF keysToConsider_[p] # Null THEN localSpecializationKeysToConsider_ \cup {s}
                                    ELSE localSpecializationKeysToConsider_
  /\ UNCHANGED <<traceDuration_, cachedSymbolNames_, keysToConsider_,
                 primaryTemplateStats_, localPrimaryTemplateTimes_>>

\* Fault: a name counts only when it was not in the cache before.
NamePointerIfNew(k, n) == IF n \in cachedSymbolNames_ THEN keysToConsider_[k] ELSE n

\* What insert() returns points to the name, whether it is new or not.
NamePointer(k, n) == n

Phase2MergeSpecializationKey(k, n) ==
  /\ IF k \in localSpecializationKeysToConsider_
       THEN /\ cachedSymbolNames_' = cachedSymbolNames_ \cup {n}
            /\ keysToConsider_' = [keysToConsider_ EXCEPT ![k] = NamePointer(k, n)]
            /\ localSpecializationKeysToConsider_' = localSpecializationKeysToConsider_ \ {k}
       ELSE UNCHANGED <<cachedSymbolNames_, keysToConsider_, localSpecializationKeysToConsider_>>
  /\ UNCHANGED <<traceDuration_, primaryTemplateStats_, localPrimaryTemplateTimes_>>

ForgetSpecializations ==
  /\ localSpecializationKeysToConsider_' = {}
  /\ UNCHANGED <<traceDuration_, cachedSymbolNames_, keysToConsider_,
                 primaryTemplateStats_, localPrimaryTemplateTimes_>>

-----------------------------------------------------------------------------
(* The relogging pass: GetTemplateInstantiationInfo. *)

IsConsidered(p) == keysToConsider_[p] # Null

\* The name of a specialization; Null stands for "<unknown specialization>".
SpecializationName(s) == keysToConsider_[s]

\* No pointer dangles: whatever a key or the statistics point to is in memory.
NamesAlive ==
  /\ \A k \in Keys : keysToConsider_[k] # Null => keysToConsider_[k] \in cachedSymbolNames_
  /\ \A n \in Names : primaryTemplateStats_[n] # Null => n \in cachedSymbolNames_

=============================================================================

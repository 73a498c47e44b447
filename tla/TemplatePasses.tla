--------------------------- MODULE TemplatePasses ---------------------------
(***************************************************************************)
(* ExpensiveTemplateInstantiationCache and TemplateInstantiationsView in a *)
(* relogging session: the instantiations and symbol names of a trace, in   *)
(* the order in which the passes of parallel compilers happen to write     *)
(* them, go through one or two analysis passes and the relogging pass.     *)
(*                                                                         *)
(* "SymbolName events get executed after all TemplateInstantiation in the  *)
(* same FrontEndPass" and their keys are unique in the trace               *)
(* (ExecutionHierarchy::OnSymbolName); equal names are common.             *)
(***************************************************************************)
EXTENDS TracePasses, TemplateCache

CONSTANTS
  PrimaryOf,        \* the key of the template a specialization belongs to
  Durations,        \* durations of instantiations, in nanoseconds
  TraceDurations    \* durations of traces, in nanoseconds

ASSUME DurationAssumption == Durations \subseteq Nat /\ TraceDurations \subseteq Nat
ASSUME PrimaryAssumption == PrimaryOf \in [SpecializationKeys -> PrimaryKeys]

Instantiation ==
  {i \in [type : {"instantiation"}, primary : PrimaryKeys,
          specialization : SpecializationKeys, duration : Durations] :
     i.primary = PrimaryOf[i.specialization]}
Symbol == [type : {"symbol"}, key : Keys, name : Names]

\* An event of the templates view: the instantiation at a position of the trace.
Shown == [at : Nat, primary : Names \cup {Null}, specialization : Names \cup {Null}]

VARIABLE shown   \* the events the view injected

vars == <<passVars, cacheVars, shown>>

TypeOK ==
  /\ PassTypeOK(Instantiation \cup Symbol)
  /\ CacheTypeOK
  /\ shown \subseteq Shown

Init ==
  /\ PassesInit
  /\ CacheInit
  /\ traceDuration_ \in TraceDurations
  /\ shown = {}

Instantiations == {i \in DOMAIN trace : trace[i].type = "instantiation"}
SymbolNames == {i \in DOMAIN trace : trace[i].type = "symbol"}

IsNamed(k) == \E i \in SymbolNames : trace[i].key = k
NameOf(k) == trace[CHOOSE i \in SymbolNames : trace[i].key = k].name

-----------------------------------------------------------------------------
\* Whether the cache looks at events at all.
MustCache == isEnabled_ /\ ~ IsRelogging

\* OnStopActivity for an instantiation.
CacheInstantiation(i) ==
  CASE MustCache /\ analysisPass_ = 1 ->
         Phase1RegisterPrimaryTemplateLocalTime(i.primary, i.duration)
    [] MustCache /\ analysisPass_ = 2 ->
         Phase2RegisterSpecializationKey(i.primary, i.specialization)
    [] OTHER -> UNCHANGED cacheVars

\* OnSimpleEvent for a symbol name.
CacheSymbol(s) ==
  CASE MustCache /\ analysisPass_ = 1 -> Phase1MergePrimaryTemplateDuration(s.key, s.name)
    [] MustCache /\ analysisPass_ = 2 -> Phase2MergeSpecializationKey(s.key, s.name)
    [] OTHER -> UNCHANGED cacheVars

\* OnEndAnalysisPass.
CacheEndOfPass ==
  CASE MustCache /\ analysisPass_ = 1 -> DetermineTopPrimaryTemplates
    [] MustCache /\ analysisPass_ # 1 -> ForgetSpecializations
    [] OTHER -> UNCHANGED cacheVars

\* Whether OnTemplateInstantiationStart injects an event.
ViewShows(i) == phase = "relogging" /\ isEnabled_ /\ IsConsidered(i.primary)

\* Template instantiation i is dispatched.
TemplateInstantiation(i) ==
  /\ Recording => ~ IsNamed(i.primary) /\ ~ IsNamed(i.specialization)
  /\ Dispatch(i)
  /\ CacheInstantiation(i)
  /\ shown' = IF ViewShows(i)
                THEN shown \cup {[at |-> pos + 1,
                                  primary |-> keysToConsider_[i.primary],
                                  specialization |-> SpecializationName(i.specialization)]}
                ELSE shown

SymbolName(s) ==
  /\ Recording => ~ IsNamed(s.key)
  /\ Dispatch(s)
  /\ CacheSymbol(s)
  /\ UNCHANGED shown

EndAnalysisPass ==
  /\ BeginAnalysisPass \/ BeginRelogging
  /\ CacheEndOfPass
  /\ UNCHANGED shown

End ==
  /\ EndRelogging
  /\ UNCHANGED <<cacheVars, shown>>

Next ==
  \/ \E i \in Instantiation : TemplateInstantiation(i)
  \/ \E s \in Symbol : SymbolName(s)
  \/ EndAnalysisPass
  \/ End

Spec == Init /\ [][Next]_vars

-----------------------------------------------------------------------------
(* Properties. *)

\* time[1] + ... + time[n].
SumUpTo(time, n) ==
  LET sum[i \in 0 .. n] == IF i = 0 THEN 0 ELSE sum[i - 1] + time[i]
  IN  sum[n]

\* The whole microseconds that every event took, if it instantiated one of the
\* templates K.
TimesOf(K) ==
  [i \in DOMAIN trace |->
     IF i \in Instantiations /\ trace[i].primary \in K THEN trace[i].duration \div NsPerUs ELSE 0]

TimeOf(K) == SumUpTo(TimesOf(K), Len(trace))

Namesakes(n) == {k \in PrimaryKeys : IsNamed(k) /\ NameOf(k) = n}

\* The time of all the instantiations of the templates with the name of k.
TotalTime(k) == TimeOf(Namesakes(NameOf(k)))

NoOverflow ==
  \A i \in Instantiations : IsNamed(trace[i].primary) => TotalTime(trace[i].primary) < UIntLimit

\* The primary keys of the instantiations the view shows.
IsShown(i) == \E e \in shown : e.at = i

\* The view shows an instantiation exactly when all the templates of that name
\* together took as long as the cutoff, whichever compilers they ran in and in
\* whatever order their instantiations and names came, unless a sum overflows.
ExpensiveShown ==
  phase = "done" /\ isEnabled_ /\ NoOverflow =>
    \A i \in Instantiations :
      IsShown(i) <=> IsNamed(trace[i].primary) /\ TotalTime(trace[i].primary) >= Cutoff

\* Every instantiation shown has the name of its own template, and that of its
\* specialization unless the trace ended before it.
ShownByName ==
  \A e \in shown :
    LET i == trace[e.at] IN
    /\ i \in Instantiation
    /\ e.primary = NameOf(i.primary)
    /\ e.specialization = IF IsNamed(i.specialization) THEN NameOf(i.specialization) ELSE Null

\* When any template is shown, the one that took longest is.
LongestShown ==
  phase = "done" /\ shown # {} =>
    \A i \in Instantiations :
      /\ IsNamed(trace[i].primary)
      /\ \A j \in Instantiations : IsNamed(trace[j].primary) =>
           TotalTime(trace[j].primary) <= TotalTime(trace[i].primary)
      => IsShown(i)

=============================================================================

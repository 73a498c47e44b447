---------------------------- MODULE TracePasses ----------------------------
(***************************************************************************)
(* How the SDK runs a relogging session (StopAndRelogTracingSession and    *)
(* Relog): one or two analysis passes over the trace for the group of      *)
(* analyzers, then one more for the group of reloggers, in which the same  *)
(* analyzers come before the views.  The SDK is not part of the            *)
(* repository; what is stated here is what the analyzers count on:         *)
(*   - an analyzer belongs to both groups, and each group announces the    *)
(*     beginning and the end of its analysis to it, so that its            *)
(*     analysisCount_ is 1 exactly while relogging (IsRelogging),          *)
(*   - every pass is announced, the last one included, so that its         *)
(*     analysisPass_ is above 1 while relogging (MustBuildContext),        *)
(*   - all passes go over the same events in the same order.               *)
(* The first pass makes up the trace; it may end at any event, as a        *)
(* collection may be stopped in the middle of a build.                     *)
(***************************************************************************)
EXTENDS Naturals, Sequences

CONSTANT MaxEvents   \* bound: the length of a trace

ASSUME MaxEventsAssumption == MaxEvents \in Nat

VARIABLES
  trace,           \* the events of the first pass
  pos,             \* how many events of the trace the pass has dispatched
  phase,           \* "analysis", "relogging", "done" or "failed"
  analysisCount_,  \* analyses the analyzers have been told of
  analysisPass_,   \* passes the analyzers have been told of
  isEnabled_       \* template instantiations are analyzed: a second pass

passVars == <<trace, pos, phase, analysisCount_, analysisPass_, isEnabled_>>

PassTypeOK(Events) ==
  /\ trace \in Seq(Events)
  /\ pos \in 0 .. Len(trace)
  /\ phase \in {"analysis", "relogging", "done", "failed"}
  /\ analysisCount_ \in 0 .. 2
  /\ analysisPass_ \in 1 .. 3
  /\ isEnabled_ \in BOOLEAN

\* Fault: only templates need an analysis pass.
analysisPassCountTemplatesOnly == IF isEnabled_ THEN 1 ELSE 0

\* StopToWPA and AnalyzeToWPA ask for a second pass to analyze templates.
analysisPassCount == IF isEnabled_ THEN 2 ELSE 1

IsRelogging == analysisCount_ = 1

\* The beginning of the analysis of both groups, and of the first pass.
PassesInit ==
  /\ trace = <<>>
  /\ pos = 0
  /\ phase = "analysis"
  /\ analysisCount_ = 2
  /\ analysisPass_ = 1
  /\ isEnabled_ \in BOOLEAN

Recording == phase = "analysis" /\ analysisPass_ = 1

\* Event e is dispatched: a new one in the first pass, the next one later.
Dispatch(e) ==
  /\ IF Recording
       THEN /\ Len(trace) < MaxEvents
            /\ trace' = Append(trace, e)
       ELSE /\ phase \in {"analysis", "relogging"}
            /\ pos < Len(trace)
            /\ e = trace[pos + 1]
            /\ UNCHANGED trace
  /\ pos' = pos + 1
  /\ UNCHANGED <<phase, analysisCount_, analysisPass_, isEnabled_>>

\* The end of an analysis pass, and the beginning of the next one.
BeginAnalysisPass ==
  /\ phase = "analysis"
  /\ pos = Len(trace)
  /\ analysisPass_ < analysisPassCount
  /\ analysisPass_' = analysisPass_ + 1
  /\ pos' = 0
  /\ UNCHANGED <<trace, phase, analysisCount_, isEnabled_>>

\* The end of the last analysis pass, and the beginning of relogging.
BeginRelogging ==
  /\ phase = "analysis"
  /\ pos = Len(trace)
  /\ analysisPass_ = analysisPassCount
  /\ phase' = "relogging"
  /\ analysisCount_' = analysisCount_ - 1
  /\ analysisPass_' = analysisPass_ + 1
  /\ pos' = 0
  /\ UNCHANGED <<trace, isEnabled_>>

EndRelogging ==
  /\ phase = "relogging"
  /\ pos = Len(trace)
  /\ phase' = "done"
  /\ analysisCount_' = analysisCount_ - 1
  /\ UNCHANGED <<trace, pos, analysisPass_, isEnabled_>>

=============================================================================

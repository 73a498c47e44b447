----------------------------- MODULE FirstPass -----------------------------
(***************************************************************************)
(* The first analysis pass of a relogging session, for the two analyzers   *)
(* that work in it whether or not templates are analyzed: ContextBuilder   *)
(* collects the main components of the invocations and MiscellaneousCache  *)
(* the times of the activities.  An event may come at any point of any     *)
(* activity, and the activities of a build overlap in any order.           *)
(*                                                                         *)
(* An instance id is used once (past[a] tells which have been).            *)
(***************************************************************************)
EXTENDS MainComponentCache, TimingCache

CONSTANT EventKinds   \* EventKinds[k]: the simple events an activity of kind k may have

ASSUME EventAssumption == EventKinds \in [Kinds -> SUBSET STRING]

firstPassVars == <<treeVars, componentVars, timingVars>>

FirstPassInit == TreeInit /\ ComponentInit /\ TimingInit

FirstPassTypeOK == TreeTypeOK /\ ComponentTypeOK /\ TimingTypeOK

\* ContextBuilder and MiscellaneousCache have nothing to do at a start event.
StartFirst(a, p, k) ==
  /\ past[a] = Null
  /\ IF p = Null THEN BeginRoot(a, k) ELSE BeginNested(a, p, k)
  /\ NoteStart(a, p, k)
  /\ UNCHANGED componentVars

StopFirst(a, d) ==
  /\ End(a)
  /\ RecordTimes(a, d)
  /\ UNCHANGED componentVars

\* A simple event below a about a file, which is an input or an output.
SimpleFirst(a, w, path) ==
  /\ a \in Active
  /\ w \in EventKinds[kind[a]]
  /\ CacheMainComponent(a, w, path)
  /\ UNCHANGED <<treeVars, timingVars>>

FirstPassNext ==
  \/ \E a \in Activities, p \in Activities \cup {Null}, k \in Kinds : StartFirst(a, p, k)
  \/ \E a \in Activities, d \in Durations : StopFirst(a, d)
  \/ \E a \in Activities, w \in ComponentEvents, path \in Paths : SimpleFirst(a, w, path)

FirstPassSpec == FirstPassInit /\ [][FirstPassNext]_firstPassVars

=============================================================================

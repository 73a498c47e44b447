----------------------------- MODULE TimingCache -----------------------------
(***************************************************************************)
(* MiscellaneousCache: the times of every activity, recorded when it stops *)
(* in the first analysis pass and read by the views in the relogging pass. *)
(*                                                                         *)
(* The SDK knows how long an activity took without its children.  That is  *)
(* of no use for an activity that consists of functions or files, which    *)
(* the views do not show as its parts: such an activity is an "exclusivity *)
(* leaf", and all its time counts as its own.                              *)
(***************************************************************************)
EXTENDS ActivityTree

CONSTANT Durations   \* durations of activities

ASSUME DurationAssumption == Durations \subseteq Nat \ {0}

\* Functions contain no files and files no functions: one is the work of the
\* back end, the other of the front end.
ASSUME PartsAssumption ==
  /\ "FrontEndFile" \notin ChildKinds["Function"]
  /\ "Function" \notin ChildKinds["FrontEndFile"]

VARIABLES
  pass_,               \* analysis passes that have ended
  timingData_,         \* timingData_[a]: the times of a, or Null
  exclusivityLeaves_,  \* active activities that have a function or file as a part
  past                 \* history: the kind of a, and of its children so far

timingVars == <<pass_, timingData_, exclusivityLeaves_, past>>

\* What exclusive times are: the activity without its children, or all of it.
TimingData == [Duration : Durations \cup {0}, Exclusive : {"own", "whole"}]

History == [kind : Kinds, parts : SUBSET Kinds]

ASSUME NoTimingAssumption == Null \notin TimingData \cup History

TimingTypeOK ==
  /\ pass_ \in Nat
  /\ timingData_ \in [Activities -> TimingData \cup {Null}]
  /\ exclusivityLeaves_ \subseteq Activities
  /\ past \in [Activities -> History \cup {Null}]

TimingInit ==
  /\ pass_ = 0
  /\ timingData_ = [a \in Activities |-> Null]
  /\ exclusivityLeaves_ = {}
  /\ past = [a \in Activities |-> Null]

PartKinds == {"Function", "FrontEndFile"}

-----------------------------------------------------------------------------
\* Fault: a file inside a file makes the outer one a leaf, too.
MarksParentAlways(a) ==
  parent[a] # Null /\ kind[a] \in PartKinds /\ a \notin exclusivityLeaves_

\* Fault: any child makes a leaf of its parent.
MarksParentAnyKind(a) ==
  parent[a] # Null /\ kind[a] # kind[parent[a]] /\ a \notin exclusivityLeaves_

\* An activity that stops makes a leaf of its parent, unless it is one itself.
MarksParent(a) ==
  /\ parent[a] # Null
  /\ kind[a] \in PartKinds
  /\ kind[a] # kind[parent[a]]
  /\ a \notin exclusivityLeaves_

\* Activity a starts with parent p; the analyzer has no handler for it.
NoteStart(a, p, k) ==
  /\ past' = [past EXCEPT ![a] = [kind |-> k, parts |-> {}]]
  /\ UNCHANGED <<pass_, timingData_, exclusivityLeaves_>>

\* OnStopActivity in the first pass.
RecordTimes(a, d) ==
  /\ pass_ = 0
  /\ timingData_' =
       [timingData_ EXCEPT ![a] =
          [Duration |-> d, Exclusive |-> IF a \in exclusivityLeaves_ THEN "whole" ELSE "own"]]
  /\ exclusivityLeaves_' = (exclusivityLeaves_ \ {a})
                             \cup {p \in Activities : MarksParent(a) /\ p = parent[a]}
  /\ past' = [x \in Activities |->
                IF x = parent[a] THEN [past[x] EXCEPT !.parts = @ \cup {kind[a]}]
                                 ELSE past[x]]
  /\ UNCHANGED pass_

EndTimingPass ==
  /\ pass_' = pass_ + 1
  /\ UNCHANGED <<timingData_, exclusivityLeaves_, past>>

\* What operator[] makes of an activity without an entry: all times are zero.
NoTimes == [Duration |-> 0, Exclusive |-> "own"]

TimesOf(a) == IF timingData_[a] = Null THEN NoTimes ELSE timingData_[a]

\* GetTimingData: a query leaves an entry behind.
GetTimingData(a) == timingData_' = [timingData_ EXCEPT ![a] = TimesOf(a)]

-----------------------------------------------------------------------------
(* Properties. *)

\* All the time of an activity is its own exactly when one of its parts was a
\* function or a file, and it is not one of the same kind itself, whatever
\* other children it had, before or after.
ExclusiveTimes ==
  \A a \in Activities : past[a] # Null /\ timingData_[a] \notin {Null, NoTimes} =>
    (timingData_[a].Exclusive = "whole"
       <=> (past[a].parts \cap PartKinds) \ {past[a].kind} # {})

\* The leaves are activities that are still running: none is left over.
LeavesActive == exclusivityLeaves_ \subseteq Active

=============================================================================

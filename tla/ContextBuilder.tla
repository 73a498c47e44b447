--------------------------- MODULE ContextBuilder ---------------------------
(***************************************************************************)
(* ContextBuilder, the analyzer that gives every activity of a trace a     *)
(* timeline (a row of the "Build Explorer" table) and the invocation and   *)
(* component it works for.  The views of the relogging session ask it for  *)
(* the context of the event at hand (GetContextData).                      *)
(*                                                                         *)
(* This is the relogging pass: MustBuildContext() is true and the cache of *)
(* main components, filled by an earlier pass, no longer changes.  One     *)
(* action is one event of the trace with everything the handlers of the    *)
(* analyzer do for it.  A pointer into contextData_ or into a cache of     *)
(* strings is the key of the entry it points to.                           *)
(***************************************************************************)
EXTENDS ActivityTree

CONSTANTS
  UShortLimit,        \* 2^16: timeline ids and reuse counts are unsigned short
  MainComponents,     \* activities an earlier pass may have a main component for
  JoinBeforeNesting   \* a parent waits for its parallel children before it
                      \* starts one that is not a fork point

ASSUME UShortAssumption == UShortLimit \in Nat \ {0}
ASSUME MainComponentsAssumption == MainComponents \subseteq Activities
ASSUME JoinAssumption == JoinBeforeNesting \in BOOLEAN

TimelineIds == 0 .. UShortLimit - 1

VARIABLES
  timelineCount_,           \* timelines created so far
  availableTimelineIds_,    \* the priority queue: how often it holds each id
  timelineDescriptions_,    \* the timelines that have a description
  contextData_,             \* contextData_[a]: a's own context, or Null
  activityContextLinks_,    \* the context a uses and the children that share
                            \* a's timeline, or Null
  mainComponentCache_,      \* invocations with a non-empty main component
  activeComponents_,        \* keys of the cached component strings
  invocationDescriptions_,  \* keys of the cached invocation descriptions
  currentContextData_,      \* context of the event being dispatched, or Null
  currentInstanceId_        \* activity a simple event belongs to, or Null

timelineVars == <<timelineCount_, availableTimelineIds_, timelineDescriptions_>>
stringVars == <<activeComponents_, invocationDescriptions_>>
vars == <<treeVars, timelineVars, stringVars, contextData_, activityContextLinks_,
          mainComponentCache_, currentContextData_, currentInstanceId_>>

\* A component is a literal, a path in mainComponentCache_ or a string in
\* activeComponents_; an invocation is named by its entry in
\* invocationDescriptions_, Null being "<Unknown Invocation>".
ComponentRefs == [cache : {"main", "active"}, key : Activities]
                   \cup {[cache |-> "literal", key |-> Null]}

ContextData == [TimelineId : TimelineIds,
                Invocation : Activities \cup {Null},
                Component : ComponentRefs]

ContextLink == [LinkedContext : Activities, TimelineReuseCount : TimelineIds]

ASSUME NoEntryAssumption == Null \notin ContextData \cup ContextLink \cup Nat

\* No more activities run at once than there are timeline ids: what the program
\* counts on for timelines, and for timelines only.
Capacity == IsFiniteSet(Activities) /\ Cardinality(Activities) <= UShortLimit

TypeOK ==
  /\ TreeTypeOK
  /\ timelineCount_ \in Nat
  /\ availableTimelineIds_ \in [TimelineIds -> Nat]
  /\ timelineDescriptions_ \subseteq TimelineIds
  /\ contextData_ \in [Activities -> ContextData \cup {Null}]
  /\ activityContextLinks_ \in [Activities -> ContextLink \cup {Null}]
  /\ mainComponentCache_ \subseteq Activities
  /\ activeComponents_ \subseteq Activities
  /\ invocationDescriptions_ \subseteq Activities
  /\ currentContextData_ \in Activities \cup {Null}
  /\ currentInstanceId_ \in Activities \cup {Null}

-----------------------------------------------------------------------------
Init ==
  /\ TreeInit
  /\ timelineCount_ = 0
  /\ availableTimelineIds_ = [t \in TimelineIds |-> 0]
  /\ timelineDescriptions_ = {}
  /\ contextData_ = [a \in Activities |-> Null]
  /\ activityContextLinks_ = [a \in Activities |-> Null]
  /\ mainComponentCache_ \in SUBSET MainComponents
  /\ activeComponents_ = {}
  /\ invocationDescriptions_ = {}
  /\ currentContextData_ = Null
  /\ currentInstanceId_ = Null

LinkedContext(a) == activityContextLinks_[a].LinkedContext
ReuseCount(a) == activityContextLinks_[a].TimelineReuseCount
TimelineOf(a) == contextData_[LinkedContext(a)].TimelineId

-----------------------------------------------------------------------------
(* Timelines. *)

Pooled == {t \in TimelineIds : availableTimelineIds_[t] > 0}

\* Fault: the counter is incremented before it is read.
NewTimelineIdPreIncremented ==
  IF Pooled = {} THEN timelineCount_ + 1
                 ELSE CHOOSE t \in Pooled : \A u \in Pooled : t <= u

\* Fault: a priority_queue with its default order, the largest id on top.
NewTimelineIdLargestFirst ==
  IF Pooled = {} THEN timelineCount_ % UShortLimit
                 ELSE CHOOSE t \in Pooled : \A u \in Pooled : t >= u

NewTimelineId ==
  IF Pooled = {} THEN timelineCount_ % UShortLimit
                 ELSE CHOOSE t \in Pooled : \A u \in Pooled : t <= u

\* Fault: top() without pop().
GetNewTimelineIdNoPop ==
  /\ timelineCount_' = IF Pooled = {} THEN timelineCount_ + 1 ELSE timelineCount_
  /\ timelineDescriptions_' = timelineDescriptions_ \cup {NewTimelineId}
  /\ UNCHANGED availableTimelineIds_

GetNewTimelineId ==
  /\ IF Pooled = {}
       THEN /\ timelineCount_' = timelineCount_ + 1
            /\ UNCHANGED availableTimelineIds_
       ELSE /\ availableTimelineIds_' =
                 [availableTimelineIds_ EXCEPT ![NewTimelineId] = @ - 1]
            /\ UNCHANGED timelineCount_
  /\ timelineDescriptions_' =
       IF Cardinality(timelineDescriptions_) = NewTimelineId
         THEN timelineDescriptions_ \cup {NewTimelineId}
         ELSE timelineDescriptions_

ReturnTimelineId(t) ==
  /\ availableTimelineIds_' = [availableTimelineIds_ EXCEPT ![t] = @ + 1]
  /\ UNCHANGED <<timelineCount_, timelineDescriptions_>>

-----------------------------------------------------------------------------
(* Start events. *)

\* The context of an activity that works for no known invocation.
UnknownContext(t) ==
  [TimelineId |-> t,
   Invocation |-> Null,
   Component  |-> [cache |-> "literal", key |-> Null]]

\* The context of invocation a, and the strings made for it.
InvocationContext(a, t) ==
  [TimelineId |-> t,
   Invocation |-> a,
   Component  |-> [cache |-> IF a \in mainComponentCache_ THEN "main" ELSE "active",
                   key   |-> a]]

CacheInvocationStrings(a) ==
  /\ invocationDescriptions_' = invocationDescriptions_ \cup {a}
  /\ activeComponents_' =
       IF a \in mainComponentCache_ THEN activeComponents_
                                    ELSE activeComponents_ \cup {a}

\* Fault: a compiler pass keeps its parent's component.
ForkContextInherited(a, p, k, t) ==
  [contextData_[LinkedContext(p)] EXCEPT !.TimelineId = t]

\* The context of a child at a fork point copies its parent's; a compiler
\* pass then gets a component of its own.
ForkContext(a, p, k, t) ==
  LET inherited == [contextData_[LinkedContext(p)] EXCEPT !.TimelineId = t]
  IN  IF k = "CompilerPass"
        THEN [inherited EXCEPT !.Component = [cache |-> "active", key |-> a]]
        ELSE inherited

NewLink(c) == [LinkedContext |-> c, TimelineReuseCount |-> 0]

\* Fault: a child on its parent's timeline is not counted.
ReusedUncounted(p) == activityContextLinks_[p]

\* The link of p once one more child shares p's timeline.
ReusedOnceMore(p) ==
  [activityContextLinks_[p] EXCEPT !.TimelineReuseCount = (@ + 1) % UShortLimit]

\* OnRootActivity, then OnInvocation when the root is an invocation.
StartRoot(a, k) ==
  /\ BeginRoot(a, k)
  /\ GetNewTimelineId
  /\ IF k \in InvocationKinds
       THEN /\ contextData_' = [contextData_ EXCEPT ![a] = InvocationContext(a, NewTimelineId)]
            /\ CacheInvocationStrings(a)
       ELSE /\ contextData_' = [contextData_ EXCEPT ![a] = UnknownContext(NewTimelineId)]
            /\ UNCHANGED stringVars
  /\ activityContextLinks_' = [activityContextLinks_ EXCEPT ![a] = NewLink(a)]
  /\ currentContextData_' = a
  /\ currentInstanceId_' = Null
  /\ UNCHANGED mainComponentCache_

\* A compiler pass, or a thread of the code generator that has an owner
\* between itself and the C2DLL activity.
IsForkPoint(p, k) ==
  \/ k = "CompilerPass" /\ kind[p] = "Compiler"
  \/ k = "Thread" /\ \E c \in stack[p] \ {p} : kind[c] = "C2DLL"

\* Fault: OnInvocation makes a context and leaves the link as it was.
NestedContextNotRelinked(a, p, k) == LinkedContext(p)

\* The context a child that is not a fork point is linked to.
NestedContext(a, p, k) == IF k \in InvocationKinds THEN a ELSE LinkedContext(p)

\* OnNestedActivity, then OnInvocation when the child is an invocation.
StartNested(a, p, k) ==
  /\ BeginNested(a, p, k)
  /\ ~ IsForkPoint(p, k)
  /\ JoinBeforeNesting => Children(p) = {}
  /\ IF k \in InvocationKinds
       THEN /\ contextData_' = [contextData_ EXCEPT ![a] = InvocationContext(a, TimelineOf(p))]
            /\ CacheInvocationStrings(a)
       ELSE UNCHANGED <<contextData_, stringVars>>
  /\ activityContextLinks_' =
       [activityContextLinks_ EXCEPT ![p] = ReusedOnceMore(p),
                                     ![a] = NewLink(NestedContext(a, p, k))]
  /\ currentContextData_' = NestedContext(a, p, k)
  /\ currentInstanceId_' = Null
  /\ UNCHANGED <<timelineVars, mainComponentCache_>>

\* OnCompilerPass and OnC2Thread: ProcessParallelismForkPoint.
StartFork(a, p, k) ==
  /\ BeginNested(a, p, k)
  /\ IsForkPoint(p, k)
  /\ IF ReuseCount(p) # 0
       THEN /\ GetNewTimelineId
            /\ contextData_' = [contextData_ EXCEPT ![a] = ForkContext(a, p, k, NewTimelineId)]
            /\ activityContextLinks_' = [activityContextLinks_ EXCEPT ![a] = NewLink(a)]
       ELSE /\ UNCHANGED timelineVars
            /\ contextData_' = [contextData_ EXCEPT ![a] = ForkContext(a, p, k, TimelineOf(p))]
            /\ activityContextLinks_' =
                 [activityContextLinks_ EXCEPT ![p] = ReusedOnceMore(p), ![a] = NewLink(a)]
  /\ activeComponents_' =
       IF k = "CompilerPass" THEN activeComponents_ \cup {a} ELSE activeComponents_
  /\ currentContextData_' = a
  /\ currentInstanceId_' = Null
  /\ UNCHANGED <<invocationDescriptions_, mainComponentCache_>>

-----------------------------------------------------------------------------
(* Stop events. *)

\* OnStopCompilerPass, OnStopC2Thread and OnStopInvocation erase the context
\* of the activity; OnStopRootActivity erases that of any root.
DropsContext(a) ==
  \/ parent[a] = Null
  \/ kind[a] \in InvocationKinds \cup {"CompilerPass"}
  \/ kind[a] = "Thread" /\ \E c \in stack[a] \ {a} : kind[c] = "C2DLL"

\* Fault: the components of compiler passes are never erased.
EraseContextKeepComponents(a) ==
  /\ contextData_' = IF DropsContext(a) THEN [contextData_ EXCEPT ![a] = Null]
                                        ELSE contextData_
  /\ invocationDescriptions_' = invocationDescriptions_ \ {a}
  /\ UNCHANGED activeComponents_

\* Fault: a stopped activity takes the context it is linked to with it.
EraseContextLinked(a) ==
  /\ contextData_' = [contextData_ EXCEPT ![LinkedContext(a)] = Null]
  /\ activeComponents_' = activeComponents_ \ {a}
  /\ invocationDescriptions_' = invocationDescriptions_ \ {a}

EraseContext(a) ==
  /\ contextData_' = IF DropsContext(a) THEN [contextData_ EXCEPT ![a] = Null]
                                        ELSE contextData_
  /\ activeComponents_' =
       IF kind[a] \in InvocationKinds \cup {"CompilerPass"}
         THEN activeComponents_ \ {a}
         ELSE activeComponents_
  /\ invocationDescriptions_' =
       IF kind[a] \in InvocationKinds THEN invocationDescriptions_ \ {a}
                                      ELSE invocationDescriptions_

\* Fault: a stop event leaves the context of the event before it.
RememberCurrentContext == UNCHANGED <<currentContextData_, currentInstanceId_>>

ForgetCurrentContext ==
  /\ currentContextData_' = Null
  /\ currentInstanceId_' = Null

StopRoot(a) ==
  /\ End(a)
  /\ parent[a] = Null
  /\ ReturnTimelineId(TimelineOf(a))
  /\ activityContextLinks_' = [activityContextLinks_ EXCEPT ![a] = Null]
  /\ EraseContext(a)
  /\ ForgetCurrentContext
  /\ UNCHANGED mainComponentCache_

\* Fault: the parent's count is left alone when a child stops.
ReusedStillCounted(p) == activityContextLinks_[p]

\* The link of p once one child fewer shares p's timeline.
ReusedOnceLess(p) ==
  [activityContextLinks_[p] EXCEPT
     !.TimelineReuseCount = IF @ = 0 THEN UShortLimit - 1 ELSE @ - 1]

StopNested(a) ==
  LET p == parent[a] IN
  /\ End(a)
  /\ p # Null
  /\ IF TimelineOf(p) = TimelineOf(a)
       THEN /\ activityContextLinks_' =
                 [activityContextLinks_ EXCEPT ![p] = ReusedOnceLess(p), ![a] = Null]
            /\ UNCHANGED timelineVars
       ELSE /\ activityContextLinks_' = [activityContextLinks_ EXCEPT ![a] = Null]
            /\ ReturnTimelineId(TimelineOf(a))
  /\ EraseContext(a)
  /\ ForgetCurrentContext
  /\ UNCHANGED mainComponentCache_

-----------------------------------------------------------------------------
(* Simple events and queries. *)

\* A simple event whose stack ends in activity a, or that is alone (Null).
SimpleEvent(a) ==
  /\ a \in Active \cup {Null}
  /\ currentContextData_' = Null
  /\ currentInstanceId_' = a
  /\ UNCHANGED <<treeVars, timelineVars, stringVars, contextData_,
                 activityContextLinks_, mainComponentCache_>>

\* What a view gets when it asks for the context of the event at hand.
GetContextData ==
  IF currentContextData_ # Null THEN currentContextData_
  ELSE IF currentInstanceId_ = Null THEN Null
  ELSE LinkedContext(currentInstanceId_)

Next ==
  \/ \E a \in Activities, k \in Kinds : StartRoot(a, k)
  \/ \E a, p \in Activities, k \in Kinds : StartNested(a, p, k)
  \/ \E a, p \in Activities, k \in Kinds : StartFork(a, p, k)
  \/ \E a \in Activities : StopRoot(a)
  \/ \E a \in Activities : StopNested(a)
  \/ \E a \in Activities \cup {Null} : SimpleEvent(a)

Spec == Init /\ [][Next]_vars

-----------------------------------------------------------------------------
(* Properties. *)

\* The timeline of every active activity.
timeline == [a \in Activities |-> IF a \in Active THEN TimelineOf(a) ELSE Null]

\* An activity that holds its timeline, instead of running on its parent's.
OwnsTimeline(a) ==
  a \in Active /\ (parent[a] = Null \/ timeline[a] # timeline[parent[a]])

SharingChildren(a) == {c \in Children(a) : timeline[c] = timeline[a]}

\* The reuse count of every active activity is the number of its children
\* on its own timeline: OnStopNestedActivity takes back what OnNestedActivity
\* or ProcessParallelismForkPoint added, whatever the children did in between.
\* The assertions that a stopping activity has count 0 follow.
ReuseCountsChildren ==
  \A a \in Active : ReuseCount(a) = Cardinality(SharingChildren(a))

\* No timeline is lost or handed out twice: each one created is either in the
\* pool, once, or held by exactly one active activity, and has a description.
TimelineConservation ==
  /\ \A t \in TimelineIds : t >= timelineCount_ => availableTimelineIds_[t] = 0
  /\ \A a \in Active : timeline[a] < timelineCount_
  /\ \A t \in TimelineIds : t < timelineCount_ =>
       /\ t \in timelineDescriptions_
       /\ LET holders == {a \in Active : OwnsTimeline(a) /\ timeline[a] = t}
          IN  availableTimelineIds_[t] + Cardinality(holders) = 1

\* Two activities on one timeline are one inside the other, so that a row of
\* the table never shows two activities side by side.  It needs parents that
\* wait for their parallel children (JoinBeforeNesting): OnNestedActivity
\* reuses the parent's timeline without looking at the reuse count.
TimelinesExclusive ==
  \A a, b \in Active : timeline[a] = timeline[b] => Related(a, b)

\* An activity is linked to the innermost context of its event stack.
NearestContext ==
  \A a \in Active :
    LET c == LinkedContext(a)
    IN  /\ c \in stack[a]
        /\ contextData_[c] # Null
        /\ \A x \in stack[a] : contextData_[x] # Null => x \in stack[c]

\* s, an activity of stack[a] in S, has every other one of S below it.
IsInnermost(s, S, a) ==
  /\ s \in S \cap stack[a]
  /\ S \cap stack[a] \subseteq stack[s]

Invocations == {a \in Active : kind[a] \in InvocationKinds}
NamingActivities ==
  Invocations \cup {a \in Active : kind[a] = "CompilerPass" /\ parent[a] # Null}

\* What the views print for an activity is the innermost invocation of its
\* stack and the component of the innermost invocation or compiler pass,
\* taken from strings that the caches still hold.
Attribution ==
  \A a \in Active :
    LET c == contextData_[LinkedContext(a)] IN
    /\ IF c.Invocation = Null
         THEN stack[a] \cap Invocations = {}
         ELSE /\ IsInnermost(c.Invocation, Invocations, a)
              /\ c.Invocation \in invocationDescriptions_
    /\ IF c.Component.cache = "literal"
         THEN stack[a] \cap NamingActivities = {}
         ELSE /\ IsInnermost(c.Component.key, NamingActivities, a)
              /\ c.Component.key \in IF c.Component.cache = "main"
                                     THEN mainComponentCache_
                                     ELSE activeComponents_

\* The maps and caches hold entries for active activities only: nothing is
\* left behind for an activity that stopped, which is also what the assertions
\* of OnRootActivity, ProcessParallelismForkPoint and CacheString require.
NothingLeftBehind ==
  \A a \in Activities \ Active :
    /\ contextData_[a] = Null
    /\ activityContextLinks_[a] = Null
    /\ a \notin activeComponents_ \cup invocationDescriptions_

\* A view never gets a context that has been erased: what GetContextData()
\* returns, on whichever of its two paths, is an entry of contextData_.
CurrentContextAlive ==
  GetContextData # Null => contextData_[GetContextData] # Null

\* When an activity starts, the views get its own link's context; on a stop
\* event they get none, and the context of an active activity never changes
\* under it (its views print the same row and names at every event).
ContextStable ==
  /\ \A a \in Activities :
       /\ a \notin Active /\ a \in Active' => GetContextData' = LinkedContext(a)'
       /\ a \in Active /\ a \notin Active' => GetContextData' = Null
       /\ a \in Active /\ a \in Active' =>
            /\ LinkedContext(a)' = LinkedContext(a)
            /\ contextData_'[LinkedContext(a)] = contextData_[LinkedContext(a)]

ContextsStable == [][ContextStable]_vars

\* ContextBuilder implements the table of rows: an activity holds a row when
\* its timeline is not its parent's, and the pool hands out the topmost one.
Rows == INSTANCE TimelineRows WITH
          Owners <- Activities,
          NoRow <- Null,
          row <- [a \in Activities |-> IF OwnsTimeline(a) THEN timeline[a] ELSE Null]

RowsSpec == Rows!Spec

-----------------------------------------------------------------------------
(* The inductive invariant behind the properties above. *)

\* Contexts and links: an active activity has a link, a context is erased
\* with its activity, and the context of the event at hand is alive.
ContextInv ==
  /\ NothingLeftBehind
  /\ \A a \in Active : activityContextLinks_[a] # Null
  /\ NearestContext
  /\ \A a \in Active : contextData_[a] # Null => DropsContext(a)
  /\ \A a \in activeComponents_ : kind[a] \in InvocationKinds \cup {"CompilerPass"}
  /\ \A a \in invocationDescriptions_ : kind[a] \in InvocationKinds
  /\ currentContextData_ # Null => contextData_[currentContextData_] # Null
  /\ currentInstanceId_ # Null => currentInstanceId_ \in Active

\* Each timeline created is in the pool, once, or has a holder.
PoolInv ==
  /\ timelineCount_ <= Cardinality(Activities)
  /\ timelineDescriptions_ = 0 .. timelineCount_ - 1
  /\ \A t \in TimelineIds :
       /\ availableTimelineIds_[t] \in {0, 1}
       /\ availableTimelineIds_[t] = 1 => t < timelineCount_
       /\ t < timelineCount_ /\ availableTimelineIds_[t] = 0 =>
            \E o \in Active : OwnsTimeline(o) /\ timeline[o] = t

\* The timelines in use are not in the pool, and each has one holder, which is
\* on the event stack of every activity that uses it.
HoldersInv ==
  /\ \A a \in Active : timeline[a] < timelineCount_ /\ availableTimelineIds_[timeline[a]] = 0
  /\ \A a, b \in Active :
       OwnsTimeline(a) /\ OwnsTimeline(b) /\ timeline[a] = timeline[b] => a = b
  /\ \A a \in Active : \E o \in stack[a] : OwnsTimeline(o) /\ timeline[o] = timeline[a]

\* The activities of a stack that use one timeline are consecutive on it.
ConsecutiveInv ==
  \A a \in Active : \A y \in stack[a] : \A x \in stack[y] :
    timeline[x] = timeline[a] => timeline[y] = timeline[a]

TimelineInv ==
  /\ Capacity
  /\ PoolInv
  /\ HoldersInv
  /\ ConsecutiveInv
  /\ ReuseCountsChildren
  /\ JoinBeforeNesting => TimelinesExclusive

IInv == TypeOK /\ TreeInv /\ ContextInv /\ TimelineInv

=============================================================================

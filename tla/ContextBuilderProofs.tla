------------------------ MODULE ContextBuilderProofs ------------------------
(***************************************************************************)
(* The invariants of ContextBuilder, for any number of activities up to    *)
(* UShortLimit, any nesting of kinds and either value of JoinBeforeNesting.*)
(***************************************************************************)
EXTENDS ContextBuilder, ActivityTreeProofs

-----------------------------------------------------------------------------
(* The pool. *)

USE NullAssumption, NestingAssumption, UShortAssumption

\* What a new timeline id is, from the state of the pool.
LEMMA NewTimelineIdValue ==
  ASSUME TypeOK
  PROVE  /\ NewTimelineId \in TimelineIds
         /\ Pooled = {} => NewTimelineId = timelineCount_ % UShortLimit
         /\ Pooled # {} => /\ NewTimelineId \in Pooled
                           /\ \A u \in Pooled : NewTimelineId <= u
<1>1. CASE Pooled = {}
  BY <1>1 DEF NewTimelineId, TypeOK, TimelineIds
<1>2. CASE Pooled # {}
  <2>1. Pooled \in SUBSET Nat /\ Pooled \subseteq TimelineIds
    BY DEF Pooled, TimelineIds
  <2>2. \E t \in Pooled : \A u \in Pooled : t <= u
    BY <1>2, <2>1, LeastElement
  <2> QED BY <1>2, <2>1, <2>2 DEF NewTimelineId
<1> QED BY <1>1, <1>2

LEMMA PoolTypes ==
  ASSUME TypeOK
  PROVE  /\ GetNewTimelineId =>
              /\ timelineCount_' \in Nat
              /\ availableTimelineIds_' \in [TimelineIds -> Nat]
              /\ timelineDescriptions_' \subseteq TimelineIds
         /\ \A t \in TimelineIds : ReturnTimelineId(t) =>
              /\ timelineCount_' \in Nat
              /\ availableTimelineIds_' \in [TimelineIds -> Nat]
              /\ timelineDescriptions_' \subseteq TimelineIds
<1>1. ASSUME GetNewTimelineId
      PROVE  /\ timelineCount_' \in Nat
             /\ availableTimelineIds_' \in [TimelineIds -> Nat]
             /\ timelineDescriptions_' \subseteq TimelineIds
  <2>1. Pooled # {} => NewTimelineId \in TimelineIds /\ availableTimelineIds_[NewTimelineId] > 0
    BY NewTimelineIdValue DEF Pooled
  <2>2. NewTimelineId \in TimelineIds
    BY NewTimelineIdValue
  <2> QED BY <1>1, <2>1, <2>2 DEF GetNewTimelineId, TypeOK
<1>2. ASSUME NEW t \in TimelineIds, ReturnTimelineId(t)
      PROVE  /\ timelineCount_' \in Nat
             /\ availableTimelineIds_' \in [TimelineIds -> Nat]
             /\ timelineDescriptions_' \subseteq TimelineIds
  BY <1>2 DEF ReturnTimelineId, TypeOK
<1> QED BY <1>1, <1>2

-----------------------------------------------------------------------------
(* Contexts and links. *)

\* Following the link of an active activity is safe.
LEMMA LinkFacts ==
  ASSUME TypeOK, ContextInv, NEW a \in Active
  PROVE  /\ activityContextLinks_[a] \in ContextLink
         /\ LinkedContext(a) \in Activities
         /\ ReuseCount(a) \in TimelineIds
         /\ contextData_[LinkedContext(a)] \in ContextData
         /\ contextData_[LinkedContext(a)] # Null
         /\ TimelineOf(a) \in TimelineIds
         /\ LinkedContext(a) \in stack[a]
<1>1. a \in Activities
  BY DEF Active
<1>2. activityContextLinks_[a] \in ContextLink
  BY <1>1 DEF TypeOK, ContextInv
<1>3. LinkedContext(a) \in Activities /\ ReuseCount(a) \in TimelineIds
  BY <1>2 DEF ContextLink, LinkedContext, ReuseCount
<1>4. LinkedContext(a) \in stack[a] /\ contextData_[LinkedContext(a)] # Null
  BY DEF ContextInv, NearestContext
<1>5. contextData_[LinkedContext(a)] \in ContextData
  BY <1>3, <1>4 DEF TypeOK
<1>6. TimelineOf(a) \in TimelineIds
  BY <1>5 DEF ContextData, TimelineOf
<1> QED BY <1>2, <1>3, <1>4, <1>5, <1>6

\* The records the handlers build are contexts and links.
LEMMA RecordTypes ==
  ASSUME TypeOK, NEW a \in Activities, NEW t \in TimelineIds
  PROVE  /\ UnknownContext(t) \in ContextData
         /\ InvocationContext(a, t) \in ContextData
         /\ NewLink(a) \in ContextLink
         /\ UnknownContext(t).TimelineId = t
         /\ InvocationContext(a, t).TimelineId = t
         /\ NewLink(a).LinkedContext = a
         /\ NewLink(a).TimelineReuseCount = 0
<1>1. UnknownContext(t) \in ContextData /\ UnknownContext(t).TimelineId = t
  BY DEF UnknownContext, ContextData, ComponentRefs
<1>2. InvocationContext(a, t) \in ContextData /\ InvocationContext(a, t).TimelineId = t
  BY DEF InvocationContext, ContextData, ComponentRefs
<1>3. /\ NewLink(a) \in ContextLink
      /\ NewLink(a).LinkedContext = a
      /\ NewLink(a).TimelineReuseCount = 0
  BY DEF NewLink, ContextLink, TimelineIds
<1> QED BY <1>1, <1>2, <1>3

LEMMA ForkContextType ==
  ASSUME TypeOK, ContextInv, NEW a \in Activities, NEW p \in Active, NEW k,
         NEW t \in TimelineIds
  PROVE  ForkContext(a, p, k, t) \in ContextData /\ ForkContext(a, p, k, t).TimelineId = t
<1> DEFINE c == contextData_[LinkedContext(p)]
<1>1. c \in ContextData
  BY LinkFacts
<1> HIDE DEF c
<1>2. [c EXCEPT !.TimelineId = t] \in ContextData /\ [c EXCEPT !.TimelineId = t].TimelineId = t
  BY <1>1 DEF ContextData
<1> DEFINE d == [c EXCEPT !.TimelineId = t]
<1> HIDE DEF d
<1>3. d \in ContextData /\ d.TimelineId = t
  BY <1>2 DEF d
<1> DEFINE r == [cache |-> "active", key |-> a]
<1>4. r \in ComponentRefs
  BY DEF ComponentRefs
<1> HIDE DEF r
<1>5. [d EXCEPT !.Component = r] \in ContextData /\ [d EXCEPT !.Component = r].TimelineId = t
  BY <1>3, <1>4 DEF ContextData
<1>6. ForkContext(a, p, k, t) = IF k = "CompilerPass" THEN [d EXCEPT !.Component = r] ELSE d
  BY DEF ForkContext, c, d, r
<1> QED BY <1>3, <1>5, <1>6

\* Counting one child more or less changes the count alone.
LEMMA ReuseTypes ==
  ASSUME TypeOK, ContextInv, NEW p \in Active
  PROVE  /\ ReusedOnceMore(p) \in ContextLink
         /\ ReusedOnceMore(p).LinkedContext = LinkedContext(p)
         /\ ReusedOnceMore(p).TimelineReuseCount = (ReuseCount(p) + 1) % UShortLimit
         /\ ReusedOnceLess(p) \in ContextLink
         /\ ReusedOnceLess(p).LinkedContext = LinkedContext(p)
         /\ ReusedOnceLess(p).TimelineReuseCount =
              IF ReuseCount(p) = 0 THEN UShortLimit - 1 ELSE ReuseCount(p) - 1
<1> DEFINE l == activityContextLinks_[p]
           n == l.TimelineReuseCount
<1>1. l \in ContextLink
  BY LinkFacts
<1>2. n \in TimelineIds
  BY <1>1 DEF ContextLink
<1>3. /\ (n + 1) % UShortLimit \in TimelineIds
      /\ (IF n = 0 THEN UShortLimit - 1 ELSE n - 1) \in TimelineIds
  BY <1>2 DEF TimelineIds
<1> HIDE DEF l
<1>4. ASSUME NEW m \in TimelineIds
      PROVE  /\ [l EXCEPT !.TimelineReuseCount = m] \in ContextLink
             /\ [l EXCEPT !.TimelineReuseCount = m].LinkedContext = l.LinkedContext
             /\ [l EXCEPT !.TimelineReuseCount = m].TimelineReuseCount = m
  BY <1>1 DEF ContextLink
<1>5. /\ ReusedOnceMore(p) = [l EXCEPT !.TimelineReuseCount = (n + 1) % UShortLimit]
      /\ ReusedOnceLess(p) = [l EXCEPT !.TimelineReuseCount =
                                   IF n = 0 THEN UShortLimit - 1 ELSE n - 1]
  BY <1>1 DEF ReusedOnceMore, ReusedOnceLess, l, ContextLink
<1>6. LinkedContext(p) = l.LinkedContext /\ ReuseCount(p) = n
  BY DEF LinkedContext, ReuseCount, l
<1> QED BY <1>3, <1>4, <1>5, <1>6

\* What a start event does to contexts, whichever handler runs: the new
\* activity has a context of its own or uses its parent's.
LEMMA ContextsGrow ==
  ASSUME TypeOK, TreeInv, ContextInv, TypeOK', TreeInv',
         NEW a \in Activities, a \notin Active, Active' = Active \cup {a},
         \A b \in Active : /\ stack'[b] = stack[b]
                           /\ kind'[b] = kind[b]
                           /\ parent'[b] = parent[b]
                           /\ activityContextLinks_'[b] # Null
                           /\ LinkedContext(b)' = LinkedContext(b),
         \A b \in Activities \ {a} : contextData_'[b] = contextData_[b],
         \A b \in Activities \ Active' :
            /\ activityContextLinks_'[b] = Null
            /\ b \notin activeComponents_' \cup invocationDescriptions_',
         \A b \in activeComponents_' : kind'[b] \in InvocationKinds \cup {"CompilerPass"},
         \A b \in invocationDescriptions_' : kind'[b] \in InvocationKinds,
         activityContextLinks_'[a] # Null,
         \/ /\ contextData_'[a] # Null
            /\ LinkedContext(a)' = a
            /\ DropsContext(a)'
         \/ \E p \in Active : /\ parent'[a] = p
                              /\ contextData_'[a] = Null
                              /\ LinkedContext(a)' = LinkedContext(p),
         currentContextData_' = LinkedContext(a)',
         currentInstanceId_' = Null
  PROVE  /\ ContextInv'
         /\ \A b \in Active : TimelineOf(b)' = TimelineOf(b)
<1>1. \A b \in Active : b # a /\ a \notin stack[b] /\ b \in Activities /\ stack[b] \subseteq Active
  BY DEF TreeInv, Active
<1>2. \A b \in Active : LinkedContext(b) \in stack[b] /\ LinkedContext(b) # a
  BY <1>1, LinkFacts
<1>3. \A b \in Active : TimelineOf(b)' = TimelineOf(b)
  BY <1>1, <1>2 DEF TimelineOf
<1>4. NothingLeftBehind'
  BY DEF ContextInv, NothingLeftBehind
<1>5. /\ LinkedContext(a)' \in stack'[a]
      /\ contextData_'[LinkedContext(a)'] # Null
      /\ \A x \in stack'[a] : contextData_'[x] # Null => x \in stack'[LinkedContext(a)']
  <2>1. CASE contextData_'[a] # Null /\ LinkedContext(a)' = a
    BY <2>1 DEF TreeInv
  <2>2. CASE \E p \in Active : /\ parent'[a] = p
                               /\ contextData_'[a] = Null
                               /\ LinkedContext(a)' = LinkedContext(p)
    <3>1. PICK p \in Active : /\ parent'[a] = p
                              /\ contextData_'[a] = Null
                              /\ LinkedContext(a)' = LinkedContext(p)
      BY <2>2
    <3>2. p # Null /\ stack'[a] = stack'[p] \cup {a} /\ stack'[p] = stack[p]
      BY <3>1, <1>1 DEF TreeInv
    <3>3. LinkedContext(p) \in Active /\ LinkedContext(p) # a
      BY <1>1, <1>2
    <3>4. /\ contextData_[LinkedContext(p)] # Null
          /\ \A x \in stack[p] : contextData_[x] # Null => x \in stack[LinkedContext(p)]
      BY DEF ContextInv, NearestContext
    <3> QED BY <3>1, <3>2, <3>3, <3>4, <1>1, <1>2
  <2> QED BY <2>1, <2>2
<1>6. ASSUME NEW b \in Active
      PROVE  /\ LinkedContext(b)' \in stack'[b]
             /\ contextData_'[LinkedContext(b)'] # Null
             /\ \A x \in stack'[b] : contextData_'[x] # Null => x \in stack'[LinkedContext(b)']
  <2>1. /\ LinkedContext(b) \in Active
        /\ contextData_[LinkedContext(b)] # Null
        /\ \A x \in stack[b] : contextData_[x] # Null => x \in stack[LinkedContext(b)]
    BY <1>1, <1>2 DEF ContextInv, NearestContext
  <2> QED BY <2>1, <1>1, <1>2
<1>7. NearestContext'
  BY <1>5, <1>6 DEF NearestContext
<1>8. \A b \in Active' : contextData_'[b] # Null => DropsContext(b)'
  <2>1. ASSUME NEW b \in Active, contextData_[b] # Null PROVE DropsContext(b)'
    <3>1. DropsContext(b)
      BY <2>1 DEF ContextInv
    <3>2. \A c \in stack[b] : kind'[c] = kind[c]
      BY <1>1
    <3> QED BY <3>1, <3>2 DEF DropsContext
  <2> QED BY <2>1, <1>1
<1>9. LinkedContext(a)' \in Activities
  BY <1>5 DEF TypeOK, TreeTypeOK
<1>10. \A b \in Active' : activityContextLinks_'[b] # Null
  OBVIOUS
<1> QED
  BY <1>3, <1>4, <1>5, <1>7, <1>8, <1>10 DEF ContextInv

\* What a stop event does to contexts: the activity leaves with its own.
LEMMA ContextsShrink ==
  ASSUME TypeOK, TreeInv, ContextInv, TypeOK', TreeInv',
         NEW a \in Activities, a \in Active, Active' = Active \ {a},
         \A b \in Active \ {a} : /\ a \notin stack[b]
                                 /\ stack'[b] = stack[b]
                                 /\ kind'[b] = kind[b]
                                 /\ parent'[b] = parent[b]
                                 /\ activityContextLinks_'[b] # Null
                                 /\ LinkedContext(b)' = LinkedContext(b),
         EraseContext(a), ForgetCurrentContext,
         \A b \in Activities \ Active' : activityContextLinks_'[b] = Null
  PROVE  /\ ContextInv'
         /\ \A b \in Active \ {a} : TimelineOf(b)' = TimelineOf(b)
<1>1. /\ \A b \in Activities \ {a} : contextData_'[b] = contextData_[b]
      /\ contextData_'[a] = Null
  BY DEF EraseContext, ContextInv, TypeOK
<1>2. \A b \in Active : b \in Activities /\ stack[b] \subseteq Active
  BY DEF TreeInv, Active
<1>3. \A b \in Active \ {a} : LinkedContext(b) \in stack[b] /\ LinkedContext(b) # a
  BY <1>2, LinkFacts
<1>4. \A b \in Active \ {a} : TimelineOf(b)' = TimelineOf(b)
  BY <1>1, <1>2, <1>3 DEF TimelineOf
<1>5. NothingLeftBehind'
  <2>1. a \notin activeComponents_' \cup invocationDescriptions_'
    BY DEF EraseContext, ContextInv
  <2> QED BY <2>1, <1>1 DEF ContextInv, NothingLeftBehind, EraseContext
<1>6. NearestContext'
  <2>1. ASSUME NEW b \in Active \ {a}
        PROVE  /\ LinkedContext(b)' \in stack'[b]
               /\ contextData_'[LinkedContext(b)'] # Null
               /\ \A x \in stack'[b] : contextData_'[x] # Null => x \in stack'[LinkedContext(b)']
    <3>1. /\ LinkedContext(b) \in Active \ {a}
          /\ contextData_[LinkedContext(b)] # Null
          /\ \A x \in stack[b] : contextData_[x] # Null => x \in stack[LinkedContext(b)]
      BY <1>2, <1>3 DEF ContextInv, NearestContext
    <3> QED BY <3>1, <1>1, <1>2, <1>3
  <2> QED BY <2>1 DEF NearestContext
<1>7. \A b \in Active' : contextData_'[b] # Null => DropsContext(b)'
  <2>1. ASSUME NEW b \in Active \ {a}, contextData_[b] # Null PROVE DropsContext(b)'
    <3>1. DropsContext(b)
      BY <2>1 DEF ContextInv
    <3>2. \A c \in stack[b] : kind'[c] = kind[c]
      BY <1>2
    <3> QED BY <3>1, <3>2 DEF DropsContext
  <2> QED BY <2>1, <1>1, <1>2
<1>8. \A b \in Active' : activityContextLinks_'[b] # Null
  OBVIOUS
<1>9. currentContextData_' = Null /\ currentInstanceId_' = Null
  BY DEF ForgetCurrentContext
<1>10. /\ \A b \in activeComponents_' : kind'[b] \in InvocationKinds \cup {"CompilerPass"}
       /\ \A b \in invocationDescriptions_' : kind'[b] \in InvocationKinds
  <2>1. /\ activeComponents_' \subseteq (activeComponents_ \ {a}) \cap Active
        /\ invocationDescriptions_' \subseteq (invocationDescriptions_ \ {a}) \cap Active
    BY DEF EraseContext, ContextInv, NothingLeftBehind, TypeOK
  <2> QED BY <2>1 DEF ContextInv
<1> QED
  BY <1>4, <1>5, <1>6, <1>7, <1>8, <1>9, <1>10 DEF ContextInv

LEMMA TimelineGrows ==
  ASSUME NEW a \in Activities, a \notin Active, Active' = Active \cup {a},
         \A b \in Active : TimelineOf(b)' = TimelineOf(b)
  PROVE  timeline' = [timeline EXCEPT ![a] = TimelineOf(a)']
  BY DEF timeline

LEMMA TimelineShrinks ==
  ASSUME NEW a \in Activities, Active' = Active \ {a},
         \A b \in Active \ {a} : TimelineOf(b)' = TimelineOf(b)
  PROVE  timeline' = [timeline EXCEPT ![a] = Null]
  BY DEF timeline

CInv == TypeOK /\ TreeInv /\ ContextInv

\* A root starts on a new timeline.
LEMMA StartRootContexts ==
  ASSUME CInv, NEW a \in Activities, NEW k \in Kinds, StartRoot(a, k)
  PROVE  CInv' /\ timeline' = [timeline EXCEPT ![a] = NewTimelineId]
<1> DEFINE t == NewTimelineId
           c == IF k \in InvocationKinds THEN InvocationContext(a, t) ELSE UnknownContext(t)
<1>1. TypeOK /\ TreeInv /\ ContextInv
  BY DEF CInv
<1>2. BeginRoot(a, k)
  BY DEF StartRoot
<1>3. TreeInv' /\ Active' = Active \cup {a} /\ a \notin Active
  BY <1>1, <1>2, BeginRootInv
<1>4. t \in TimelineIds
  BY <1>1, NewTimelineIdValue
<1>5. c \in ContextData /\ c.TimelineId = t /\ c # Null
  <2>1. c \in ContextData /\ c.TimelineId = t
    BY <1>1, <1>4, RecordTypes
  <2> QED BY <2>1, NoEntryAssumption
<1> HIDE DEF c
<1>6. contextData_' = [contextData_ EXCEPT ![a] = c]
  BY DEF StartRoot, c
<1>7. NewLink(a) \in ContextLink /\ NewLink(a).LinkedContext = a /\ NewLink(a) # Null
  BY <1>1, <1>4, RecordTypes, NoEntryAssumption
<1>8. activityContextLinks_' = [activityContextLinks_ EXCEPT ![a] = NewLink(a)]
  BY DEF StartRoot
<1>9. /\ activeComponents_' \subseteq activeComponents_ \cup {a}
      /\ invocationDescriptions_' \subseteq invocationDescriptions_ \cup {a}
      /\ k \notin InvocationKinds => UNCHANGED stringVars
  BY DEF StartRoot, CacheInvocationStrings, stringVars
<1>10. TypeOK'
  <2>1. TreeTypeOK'
    BY <1>3 DEF TreeInv
  <2>2. /\ timelineCount_' \in Nat
        /\ availableTimelineIds_' \in [TimelineIds -> Nat]
        /\ timelineDescriptions_' \subseteq TimelineIds
    BY <1>1, PoolTypes DEF StartRoot
  <2>3. /\ contextData_' \in [Activities -> ContextData \cup {Null}]
        /\ activityContextLinks_' \in [Activities -> ContextLink \cup {Null}]
    BY <1>1, <1>5, <1>6, <1>7, <1>8 DEF TypeOK
  <2>4. /\ mainComponentCache_' \subseteq Activities
        /\ activeComponents_' \subseteq Activities
        /\ invocationDescriptions_' \subseteq Activities
        /\ currentContextData_' \in Activities \cup {Null}
        /\ currentInstanceId_' \in Activities \cup {Null}
    BY <1>1, <1>9 DEF TypeOK, StartRoot
  <2> QED BY <2>1, <2>2, <2>3, <2>4 DEF TypeOK
<1>11. /\ kind'[a] = k /\ parent'[a] = Null
       /\ \A b \in Activities \ {a} : /\ stack'[b] = stack[b]
                                      /\ kind'[b] = kind[b]
                                      /\ parent'[b] = parent[b]
  BY <1>1, <1>2, <1>3 DEF BeginRoot, TypeOK, TreeTypeOK, TreeInv
<1>12. /\ \A b \in Activities \ {a} : activityContextLinks_'[b] = activityContextLinks_[b]
       /\ activityContextLinks_'[a] = NewLink(a)
       /\ \A b \in Activities \ {a} : contextData_'[b] = contextData_[b]
       /\ contextData_'[a] = c
  BY <1>1, <1>6, <1>8 DEF TypeOK
<1>13. LinkedContext(a)' = a /\ TimelineOf(a)' = t
  BY <1>5, <1>7, <1>12 DEF LinkedContext, TimelineOf
<1>14. /\ \A b \in activeComponents_' : kind'[b] \in InvocationKinds \cup {"CompilerPass"}
       /\ \A b \in invocationDescriptions_' : kind'[b] \in InvocationKinds
  BY <1>1, <1>3, <1>9, <1>11 DEF ContextInv, stringVars, TypeOK, NothingLeftBehind
<1>15. ContextInv' /\ \A b \in Active : TimelineOf(b)' = TimelineOf(b)
  <2>1. \A b \in Active : /\ stack'[b] = stack[b]
                          /\ kind'[b] = kind[b]
                          /\ parent'[b] = parent[b]
                          /\ activityContextLinks_'[b] # Null
                          /\ LinkedContext(b)' = LinkedContext(b)
    BY <1>1, <1>3, <1>11, <1>12 DEF ContextInv, LinkedContext, Active
  <2>2. \A b \in Activities \ Active' :
            /\ activityContextLinks_'[b] = Null
            /\ b \notin activeComponents_' \cup invocationDescriptions_'
    BY <1>1, <1>3, <1>9, <1>12 DEF ContextInv, NothingLeftBehind
  <2>3. /\ contextData_'[a] # Null
        /\ LinkedContext(a)' = a
        /\ DropsContext(a)'
    BY <1>5, <1>11, <1>12, <1>13 DEF DropsContext
  <2>4. currentContextData_' = LinkedContext(a)' /\ currentInstanceId_' = Null
    BY <1>13 DEF StartRoot
  <2> QED BY <1>1, <1>3, <1>7, <1>10, <1>12, <1>14, <2>1, <2>2, <2>3, <2>4, ContextsGrow
<1> QED
  BY <1>3, <1>10, <1>13, <1>15, TimelineGrows DEF CInv

\* A child that is not a fork point starts on its parent's timeline.
LEMMA StartNestedContexts ==
  ASSUME CInv, NEW a \in Activities, NEW p \in Activities, NEW k \in Kinds,
         StartNested(a, p, k)
  PROVE  CInv' /\ timeline' = [timeline EXCEPT ![a] = timeline[p]]
<1> DEFINE t == TimelineOf(p)
           c == InvocationContext(a, t)
           n == NestedContext(a, p, k)
<1>1. TypeOK /\ TreeInv /\ ContextInv
  BY DEF CInv
<1>2. BeginNested(a, p, k)
  BY DEF StartNested
<1>3. TreeInv' /\ Active' = Active \cup {a} /\ a \notin Active /\ p \in Active /\ a # p
  BY <1>1, <1>2, BeginNestedInv
<1>4. t \in TimelineIds /\ LinkedContext(p) \in Activities /\ LinkedContext(p) \in stack[p]
  BY <1>1, <1>3, LinkFacts
<1>5. c \in ContextData /\ c.TimelineId = t /\ c # Null
  <2>1. c \in ContextData /\ c.TimelineId = t
    BY <1>1, <1>4, RecordTypes
  <2> QED BY <2>1, NoEntryAssumption
<1> HIDE DEF c
<1>6. contextData_' = IF k \in InvocationKinds THEN [contextData_ EXCEPT ![a] = c]
                                               ELSE contextData_
  BY DEF StartNested, c, stringVars
<1>7. /\ n \in Activities
      /\ n = IF k \in InvocationKinds THEN a ELSE LinkedContext(p)
      /\ NewLink(n) \in ContextLink /\ NewLink(n).LinkedContext = n /\ NewLink(n) # Null
  <2>1. n \in Activities /\ n = IF k \in InvocationKinds THEN a ELSE LinkedContext(p)
    BY <1>4 DEF NestedContext
  <2> HIDE DEF n
  <2>2. NewLink(n) \in ContextLink /\ NewLink(n).LinkedContext = n
    BY <1>1, <1>4, <2>1, RecordTypes
  <2> QED BY <2>1, <2>2, NoEntryAssumption
<1> HIDE DEF n
<1>8. activityContextLinks_' =
        [activityContextLinks_ EXCEPT ![p] = ReusedOnceMore(p), ![a] = NewLink(n)]
  BY DEF StartNested, n
<1>9. /\ activeComponents_' \subseteq activeComponents_ \cup {a}
      /\ invocationDescriptions_' \subseteq invocationDescriptions_ \cup {a}
      /\ k \notin InvocationKinds => UNCHANGED stringVars
  BY DEF StartNested, CacheInvocationStrings, stringVars
<1>10. ReusedOnceMore(p) \in ContextLink /\ ReusedOnceMore(p).LinkedContext = LinkedContext(p)
  BY <1>1, <1>3, ReuseTypes
<1>11. TypeOK'
  <2>1. TreeTypeOK'
    BY <1>3 DEF TreeInv
  <2>2. UNCHANGED <<timelineCount_, availableTimelineIds_, timelineDescriptions_>>
    BY DEF StartNested, timelineVars
  <2>3. /\ contextData_' \in [Activities -> ContextData \cup {Null}]
        /\ activityContextLinks_' \in [Activities -> ContextLink \cup {Null}]
    BY <1>1, <1>5, <1>6, <1>7, <1>8, <1>10 DEF TypeOK
  <2>4. /\ mainComponentCache_' \subseteq Activities
        /\ activeComponents_' \subseteq Activities
        /\ invocationDescriptions_' \subseteq Activities
        /\ currentContextData_' \in Activities \cup {Null}
        /\ currentInstanceId_' \in Activities \cup {Null}
    BY <1>1, <1>7, <1>9 DEF TypeOK, StartNested, n
  <2> QED BY <1>1, <2>1, <2>2, <2>3, <2>4 DEF TypeOK
<1>12. /\ kind'[a] = k /\ parent'[a] = p /\ stack'[a] = stack[p] \cup {a}
       /\ \A b \in Activities \ {a} : /\ stack'[b] = stack[b]
                                      /\ kind'[b] = kind[b]
                                      /\ parent'[b] = parent[b]
  BY <1>1, <1>2, <1>3 DEF BeginNested, TypeOK, TreeTypeOK, TreeInv
<1>13. /\ \A b \in Activities \ {a, p} : activityContextLinks_'[b] = activityContextLinks_[b]
       /\ activityContextLinks_'[p] = ReusedOnceMore(p)
       /\ activityContextLinks_'[a] = NewLink(n)
       /\ \A b \in Activities \ {a} : contextData_'[b] = contextData_[b]
       /\ contextData_'[a] = IF k \in InvocationKinds THEN c ELSE Null
  BY <1>1, <1>3, <1>6, <1>8 DEF TypeOK, ContextInv, NothingLeftBehind
<1>14. LinkedContext(a)' = n
  BY <1>7, <1>13 DEF LinkedContext
<1>15. /\ \A b \in activeComponents_' : kind'[b] \in InvocationKinds \cup {"CompilerPass"}
       /\ \A b \in invocationDescriptions_' : kind'[b] \in InvocationKinds
  BY <1>1, <1>3, <1>9, <1>12 DEF ContextInv, stringVars, TypeOK, NothingLeftBehind
<1>16. ContextInv' /\ \A b \in Active : TimelineOf(b)' = TimelineOf(b)
  <2>1. \A b \in Active : /\ stack'[b] = stack[b]
                          /\ kind'[b] = kind[b]
                          /\ parent'[b] = parent[b]
                          /\ activityContextLinks_'[b] # Null
                          /\ LinkedContext(b)' = LinkedContext(b)
    BY <1>1, <1>3, <1>10, <1>12, <1>13, NoEntryAssumption DEF ContextInv, LinkedContext, Active
  <2>2. \A b \in Activities \ Active' :
            /\ activityContextLinks_'[b] = Null
            /\ b \notin activeComponents_' \cup invocationDescriptions_'
    BY <1>1, <1>3, <1>9, <1>13 DEF ContextInv, NothingLeftBehind
  <2>3. \/ /\ contextData_'[a] # Null
           /\ LinkedContext(a)' = a
           /\ DropsContext(a)'
        \/ \E q \in Active : /\ parent'[a] = q
                             /\ contextData_'[a] = Null
                             /\ LinkedContext(a)' = LinkedContext(q)
    BY <1>3, <1>5, <1>7, <1>12, <1>13, <1>14 DEF DropsContext
  <2>4. currentContextData_' = LinkedContext(a)' /\ currentInstanceId_' = Null
    BY <1>14 DEF StartNested, n
  <2> QED BY <1>1, <1>3, <1>7, <1>11, <1>13, <1>15, <2>1, <2>2, <2>3, <2>4, ContextsGrow
<1>17. TimelineOf(a)' = t
  <2>1. CASE k \in InvocationKinds
    BY <2>1, <1>5, <1>7, <1>13, <1>14 DEF TimelineOf
  <2>2. CASE k \notin InvocationKinds
    <3>1. LinkedContext(a)' = LinkedContext(p)
      BY <2>2, <1>7, <1>14
    <3>2. LinkedContext(p) # a
      BY <1>1, <1>3, <1>4 DEF TreeInv, Active
    <3> QED BY <3>1, <3>2, <1>4, <1>13 DEF TimelineOf
  <2> QED BY <2>1, <2>2
<1>18. timeline[p] = t
  BY <1>3 DEF timeline
<1> QED
  BY <1>3, <1>11, <1>16, <1>17, <1>18, TimelineGrows DEF CInv

\* A child at a fork point starts on its parent's timeline if no other child
\* uses it, and on a new one otherwise.
LEMMA StartForkContexts ==
  ASSUME CInv, NEW a \in Activities, NEW p \in Activities, NEW k \in Kinds,
         StartFork(a, p, k)
  PROVE  /\ CInv'
         /\ timeline' = [timeline EXCEPT ![a] = IF ReuseCount(p) # 0 THEN NewTimelineId
                                                                   ELSE timeline[p]]
<1> DEFINE t == IF ReuseCount(p) # 0 THEN NewTimelineId ELSE TimelineOf(p)
           c == ForkContext(a, p, k, t)
           l == IF ReuseCount(p) # 0 THEN activityContextLinks_[p] ELSE ReusedOnceMore(p)
<1>1. TypeOK /\ TreeInv /\ ContextInv
  BY DEF CInv
<1>2. BeginNested(a, p, k) /\ IsForkPoint(p, k)
  BY DEF StartFork
<1>3. TreeInv' /\ Active' = Active \cup {a} /\ a \notin Active /\ p \in Active /\ a # p
  BY <1>1, <1>2, BeginNestedInv
<1>4. t \in TimelineIds
  BY <1>1, <1>3, LinkFacts, NewTimelineIdValue
<1> HIDE DEF t
<1>5. c \in ContextData /\ c.TimelineId = t /\ c # Null
  <2>1. c \in ContextData /\ c.TimelineId = t
    BY <1>1, <1>3, <1>4, ForkContextType
  <2> QED BY <2>1, NoEntryAssumption
<1>6. contextData_' = [contextData_ EXCEPT ![a] = c]
  BY DEF StartFork, t
<1> HIDE DEF c
<1>7. NewLink(a) \in ContextLink /\ NewLink(a).LinkedContext = a /\ NewLink(a) # Null
  BY <1>1, <1>4, RecordTypes, NoEntryAssumption
<1>8. l \in ContextLink /\ l.LinkedContext = LinkedContext(p) /\ l # Null
  <2>1. activityContextLinks_[p] \in ContextLink
    BY <1>1, <1>3, LinkFacts
  <2>2. ReusedOnceMore(p) \in ContextLink /\ ReusedOnceMore(p).LinkedContext = LinkedContext(p)
    BY <1>1, <1>3, ReuseTypes
  <2> QED BY <2>1, <2>2, NoEntryAssumption DEF LinkedContext
<1>9. activityContextLinks_' = [activityContextLinks_ EXCEPT ![p] = l, ![a] = NewLink(a)]
  <2>1. activityContextLinks_ \in [Activities -> ContextLink \cup {Null}]
    BY <1>1 DEF TypeOK
  <2> QED BY <2>1, <1>3 DEF StartFork
<1> HIDE DEF l
<1>10. /\ activeComponents_' = IF k = "CompilerPass" THEN activeComponents_ \cup {a}
                                                    ELSE activeComponents_
       /\ invocationDescriptions_' = invocationDescriptions_
  BY DEF StartFork
<1>11. TypeOK'
  <2>1. TreeTypeOK'
    BY <1>3 DEF TreeInv
  <2>2. /\ timelineCount_' \in Nat
        /\ availableTimelineIds_' \in [TimelineIds -> Nat]
        /\ timelineDescriptions_' \subseteq TimelineIds
    BY <1>1, PoolTypes DEF StartFork, timelineVars, TypeOK
  <2>3. /\ contextData_' \in [Activities -> ContextData \cup {Null}]
        /\ activityContextLinks_' \in [Activities -> ContextLink \cup {Null}]
    BY <1>1, <1>5, <1>6, <1>7, <1>8, <1>9 DEF TypeOK
  <2>4. /\ mainComponentCache_' \subseteq Activities
        /\ activeComponents_' \subseteq Activities
        /\ invocationDescriptions_' \subseteq Activities
        /\ currentContextData_' \in Activities \cup {Null}
        /\ currentInstanceId_' \in Activities \cup {Null}
    BY <1>1, <1>10 DEF TypeOK, StartFork
  <2> QED BY <2>1, <2>2, <2>3, <2>4 DEF TypeOK
<1>12. /\ kind'[a] = k /\ parent'[a] = p /\ stack'[a] = stack[p] \cup {a}
       /\ \A b \in Activities \ {a} : /\ stack'[b] = stack[b]
                                      /\ kind'[b] = kind[b]
                                      /\ parent'[b] = parent[b]
  BY <1>1, <1>2, <1>3 DEF BeginNested, TypeOK, TreeTypeOK, TreeInv
<1>13. /\ \A b \in Activities \ {a, p} : activityContextLinks_'[b] = activityContextLinks_[b]
       /\ activityContextLinks_'[p] = l
       /\ activityContextLinks_'[a] = NewLink(a)
       /\ \A b \in Activities \ {a} : contextData_'[b] = contextData_[b]
       /\ contextData_'[a] = c
  BY <1>1, <1>3, <1>6, <1>9 DEF TypeOK
<1>14. LinkedContext(a)' = a /\ TimelineOf(a)' = t
  BY <1>5, <1>7, <1>13 DEF LinkedContext, TimelineOf
<1>15. /\ \A b \in activeComponents_' : kind'[b] \in InvocationKinds \cup {"CompilerPass"}
       /\ \A b \in invocationDescriptions_' : kind'[b] \in InvocationKinds
  BY <1>1, <1>3, <1>10, <1>12 DEF ContextInv, TypeOK, NothingLeftBehind
<1>16. ContextInv' /\ \A b \in Active : TimelineOf(b)' = TimelineOf(b)
  <2>1. \A b \in Active : /\ stack'[b] = stack[b]
                          /\ kind'[b] = kind[b]
                          /\ parent'[b] = parent[b]
                          /\ activityContextLinks_'[b] # Null
                          /\ LinkedContext(b)' = LinkedContext(b)
    BY <1>1, <1>3, <1>8, <1>12, <1>13 DEF ContextInv, LinkedContext, Active
  <2>2. \A b \in Activities \ Active' :
            /\ activityContextLinks_'[b] = Null
            /\ b \notin activeComponents_' \cup invocationDescriptions_'
    BY <1>1, <1>3, <1>10, <1>13 DEF ContextInv, NothingLeftBehind
  <2>3. DropsContext(a)'
    <3>1. CASE k = "CompilerPass"
      BY <3>1, <1>12 DEF DropsContext
    <3>2. CASE k = "Thread" /\ \E d \in stack[p] \ {p} : kind[d] = "C2DLL"
      <4>1. PICK d \in stack[p] \ {p} : kind[d] = "C2DLL"
        BY <3>2
      <4>2. d \in Activities /\ d # a
        BY <4>1, <1>1, <1>3 DEF TreeInv, Active
      <4> QED BY <3>2, <4>1, <4>2, <1>12 DEF DropsContext
    <3> QED BY <3>1, <3>2, <1>2 DEF IsForkPoint
  <2>4. currentContextData_' = LinkedContext(a)' /\ currentInstanceId_' = Null
    BY <1>14 DEF StartFork
  <2> QED BY <1>1, <1>3, <1>5, <1>7, <1>11, <1>13, <1>14, <1>15, <2>1, <2>2, <2>3, <2>4,
             ContextsGrow
<1>17. timeline[p] = TimelineOf(p)
  BY <1>3 DEF timeline
<1> QED
  BY <1>3, <1>11, <1>14, <1>16, <1>17, TimelineGrows DEF CInv, t

\* What both stop handlers do to contexts.
LEMMA StopContexts ==
  ASSUME CInv, NEW a \in Activities, End(a), EraseContext(a), ForgetCurrentContext,
         UNCHANGED mainComponentCache_,
         timelineCount_' \in Nat,
         availableTimelineIds_' \in [TimelineIds -> Nat],
         timelineDescriptions_' \subseteq TimelineIds,
         activityContextLinks_' \in [Activities -> ContextLink \cup {Null}],
         activityContextLinks_'[a] = Null,
         \A b \in Activities \ {a} :
            \/ activityContextLinks_'[b] = activityContextLinks_[b]
            \/ /\ b \in Active
               /\ activityContextLinks_'[b] \in ContextLink
               /\ activityContextLinks_'[b].LinkedContext = LinkedContext(b)
  PROVE  CInv' /\ timeline' = [timeline EXCEPT ![a] = Null]
<1>1. TypeOK /\ TreeInv /\ ContextInv
  BY DEF CInv
<1>2. /\ TreeInv' /\ Active' = Active \ {a} /\ a \in Active
      /\ \A b \in Active \ {a} : a \notin stack[b] /\ parent[b] # a
  BY <1>1, EndInv
<1>3. TypeOK'
  <2>1. TreeTypeOK'
    BY <1>2 DEF TreeInv
  <2>2. contextData_' \in [Activities -> ContextData \cup {Null}]
    BY <1>1 DEF EraseContext, TypeOK
  <2>3. /\ mainComponentCache_' \subseteq Activities
        /\ activeComponents_' \subseteq Activities
        /\ invocationDescriptions_' \subseteq Activities
        /\ currentContextData_' \in Activities \cup {Null}
        /\ currentInstanceId_' \in Activities \cup {Null}
    BY <1>1 DEF TypeOK, EraseContext, ForgetCurrentContext
  <2> QED BY <2>1, <2>2, <2>3 DEF TypeOK
<1>4. \A b \in Activities \ {a} : /\ stack'[b] = stack[b]
                                  /\ kind'[b] = kind[b]
                                  /\ parent'[b] = parent[b]
  BY <1>1 DEF End, TypeOK, TreeTypeOK
<1>5. \A b \in Active \ {a} : /\ activityContextLinks_'[b] # Null
                              /\ LinkedContext(b)' = LinkedContext(b)
  BY <1>1, NoEntryAssumption DEF ContextInv, LinkedContext, Active
<1>6. \A b \in Activities \ Active' : activityContextLinks_'[b] = Null
  BY <1>1, <1>2 DEF ContextInv, NothingLeftBehind
<1>7. ContextInv' /\ \A b \in Active \ {a} : TimelineOf(b)' = TimelineOf(b)
  <2>1. \A b \in Active \ {a} : /\ a \notin stack[b]
                                /\ stack'[b] = stack[b]
                                /\ kind'[b] = kind[b]
                                /\ parent'[b] = parent[b]
                                /\ activityContextLinks_'[b] # Null
                                /\ LinkedContext(b)' = LinkedContext(b)
    BY <1>2, <1>4, <1>5 DEF Active
  <2> QED BY <1>1, <1>2, <1>3, <1>6, <2>1, ContextsShrink
<1> QED
  BY <1>2, <1>3, <1>7, TimelineShrinks DEF CInv

LEMMA StopRootContexts ==
  ASSUME CInv, NEW a \in Activities, StopRoot(a)
  PROVE  CInv' /\ timeline' = [timeline EXCEPT ![a] = Null]
<1>1. TypeOK /\ ContextInv /\ a \in Active
  BY DEF CInv, StopRoot, End, Active
<1>2. TimelineOf(a) \in TimelineIds
  BY <1>1, LinkFacts
<1>3. /\ timelineCount_' \in Nat
      /\ availableTimelineIds_' \in [TimelineIds -> Nat]
      /\ timelineDescriptions_' \subseteq TimelineIds
  BY <1>1, <1>2, PoolTypes DEF StopRoot
<1>4. /\ activityContextLinks_' \in [Activities -> ContextLink \cup {Null}]
      /\ activityContextLinks_'[a] = Null
      /\ \A b \in Activities \ {a} : activityContextLinks_'[b] = activityContextLinks_[b]
  BY <1>1 DEF StopRoot, TypeOK
<1> QED
  BY <1>3, <1>4, StopContexts DEF StopRoot

LEMMA StopNestedContexts ==
  ASSUME CInv, NEW a \in Activities, StopNested(a)
  PROVE  CInv' /\ timeline' = [timeline EXCEPT ![a] = Null]
<1> DEFINE p == parent[a]
<1>1. TypeOK /\ ContextInv /\ TreeInv /\ a \in Active
  BY DEF CInv, StopNested, End, Active
<1>2. p \in Active /\ p # a
  BY <1>1 DEF StopNested, TreeInv
<1>3. TimelineOf(a) \in TimelineIds
  BY <1>1, LinkFacts
<1>4. /\ timelineCount_' \in Nat
      /\ availableTimelineIds_' \in [TimelineIds -> Nat]
      /\ timelineDescriptions_' \subseteq TimelineIds
  BY <1>1, <1>3, PoolTypes DEF StopNested, timelineVars, TypeOK
<1>5. ReusedOnceLess(p) \in ContextLink /\ ReusedOnceLess(p).LinkedContext = LinkedContext(p)
  BY <1>1, <1>2, ReuseTypes
<1>6. \/ activityContextLinks_' = [activityContextLinks_ EXCEPT ![a] = Null]
      \/ activityContextLinks_' = [activityContextLinks_ EXCEPT ![p] = ReusedOnceLess(p), ![a] = Null]
  BY DEF StopNested
<1>7. activityContextLinks_ \in [Activities -> ContextLink \cup {Null}] /\ p \in Activities
  BY <1>1, <1>2 DEF TypeOK, Active
<1>8. /\ activityContextLinks_' \in [Activities -> ContextLink \cup {Null}]
      /\ activityContextLinks_'[a] = Null
      /\ \A b \in Activities \ {a} :
            \/ activityContextLinks_'[b] = activityContextLinks_[b]
            \/ /\ b \in Active
               /\ activityContextLinks_'[b] \in ContextLink
               /\ activityContextLinks_'[b].LinkedContext = LinkedContext(b)
  BY <1>2, <1>5, <1>6, <1>7
<1>9. End(a) /\ EraseContext(a) /\ ForgetCurrentContext /\ UNCHANGED mainComponentCache_
  BY DEF StopNested
<1> QED
  BY <1>4, <1>8, <1>9, StopContexts

\* A simple event and a stuttering step change the current event at most.
LEMMA QuietContexts ==
  ASSUME CInv,
         UNCHANGED <<treeVars, timelineVars, stringVars, contextData_,
                     activityContextLinks_, mainComponentCache_>>,
         \/ \E a \in Active \cup {Null} : currentContextData_' = Null /\ currentInstanceId_' = a
         \/ UNCHANGED <<currentContextData_, currentInstanceId_>>
  PROVE  CInv' /\ timeline' = timeline
<1> USE DEF treeVars, timelineVars, stringVars
<1>1. TypeOK'
  BY DEF CInv, TypeOK, TreeTypeOK, Active
<1>2. TreeInv'
  BY DEF CInv, TreeInv, TreeTypeOK, Active
<1>3. /\ NothingLeftBehind' /\ NearestContext'
      /\ \A a \in Active' : DropsContext(a)' <=> DropsContext(a)
  BY DEF CInv, ContextInv, NothingLeftBehind, NearestContext, Active, LinkedContext, DropsContext
<1>4. /\ currentContextData_' # Null => contextData_'[currentContextData_'] # Null
      /\ currentInstanceId_' # Null => currentInstanceId_' \in Active'
  BY DEF CInv, ContextInv, Active
<1>5. ContextInv'
  <2>1. Active' = Active
    BY DEF Active
  <2> QED BY <1>3, <1>4, <2>1 DEF CInv, ContextInv
<1>6. timeline' = timeline
  BY DEF timeline, Active, TimelineOf, LinkedContext
<1> QED BY <1>1, <1>2, <1>5, <1>6 DEF CInv

-----------------------------------------------------------------------------
(* Timelines. *)

LEMMA TimelineType ==
  ASSUME CInv, NEW a \in Active
  PROVE  /\ timeline[a] = TimelineOf(a)
         /\ timeline[a] \in TimelineIds
         /\ ReuseCount(a) \in TimelineIds
         /\ a \in Activities
         /\ a # Null
<1>1. TypeOK /\ ContextInv
  BY DEF CInv
<1>2. TimelineOf(a) \in TimelineIds /\ ReuseCount(a) \in TimelineIds
  BY <1>1, LinkFacts
<1>3. timeline[a] = TimelineOf(a) /\ a \in Activities
  BY DEF timeline, Active
<1> QED BY <1>2, <1>3

\* The holders of the timelines are distinct: with an empty pool there are
\* fewer timelines than activities as long as one activity is not active.
LEMMA SpareTimeline ==
  ASSUME CInv, TimelineInv, NEW a \in Activities, a \notin Active, Pooled = {}
  PROVE  timelineCount_ < Cardinality(Activities)
<1> DEFINE n == timelineCount_
           S == 0 .. n - 1
           f == [t \in S |-> CHOOSE o \in Active : OwnsTimeline(o) /\ timeline[o] = t]
<1>1. n \in Nat /\ IsFiniteSet(Activities) /\ Cardinality(Activities) \in Nat
  BY FS_CardinalityType DEF TimelineInv, Capacity, CInv, TypeOK
<1>2. n <= Cardinality(Activities) /\ Cardinality(Activities) <= UShortLimit
  BY DEF Capacity, TimelineInv, PoolInv
<1>3. S \subseteq TimelineIds
  BY <1>1, <1>2 DEF TimelineIds
<1>4. \A t \in S : f[t] \in Active /\ timeline[f[t]] = t
  <2> TAKE t \in S
  <2>1. t \in TimelineIds /\ t < n /\ availableTimelineIds_[t] = 0
    BY <1>1, <1>3 DEF Pooled, CInv, TypeOK
  <2>2. \E o \in Active : OwnsTimeline(o) /\ timeline[o] = t
    BY <2>1 DEF TimelineInv, PoolInv
  <2> QED BY <2>2
<1> DEFINE T == Activities \ {a}
<1>5. f \in Injection(S, T)
  <2>1. f \in [S -> T]
    BY <1>4 DEF Active
  <2>2. \A t, u \in S : f[t] = f[u] => t = u
    BY <1>4
  <2> HIDE DEF f, S, T
  <2> QED BY <2>1, <2>2 DEF Injection, IsInjective
<1>6. IsFiniteSet(T) /\ Cardinality(T) = Cardinality(Activities) - 1
  BY <1>1, FS_RemoveElement
<1> HIDE DEF T, f
<1>7. Cardinality(S) <= Cardinality(T)
  BY <1>5, <1>6, FS_Injection
<1>8. Cardinality(S) = n
  BY <1>1, FS_Interval
<1> QED BY <1>1, <1>6, <1>7, <1>8

\* GetNewTimelineId gives a timeline nobody uses, and the pool stays exact.
LEMMA FreshTimeline ==
  ASSUME CInv, TimelineInv, NEW a \in Activities, a \notin Active, GetNewTimelineId
  PROVE  LET t == NewTimelineId IN
         /\ t \in TimelineIds
         /\ \A b \in Active : timeline[b] # t
         /\ timelineCount_' \in Nat
         /\ timelineCount_' <= Cardinality(Activities)
         /\ timelineCount_ <= timelineCount_'
         /\ t < timelineCount_'
         /\ timelineDescriptions_' = 0 .. timelineCount_' - 1
         /\ \A u \in TimelineIds : timelineCount_ <= u /\ u < timelineCount_' => u = t
         /\ availableTimelineIds_'[t] = 0
         /\ \A u \in TimelineIds \ {t} : availableTimelineIds_'[u] = availableTimelineIds_[u]
<1> DEFINE t == NewTimelineId
           n == timelineCount_
<1>1. /\ TypeOK /\ n \in Nat /\ Cardinality(Activities) \in Nat
      /\ availableTimelineIds_ \in [TimelineIds -> Nat]
  BY FS_CardinalityType DEF TimelineInv, Capacity, CInv, TypeOK
<1>2. t \in TimelineIds
  BY <1>1, NewTimelineIdValue
<1>3. n <= Cardinality(Activities) /\ timelineDescriptions_ = 0 .. n - 1
  BY DEF TimelineInv, PoolInv
<1>4. Cardinality(timelineDescriptions_) = n
  BY <1>1, <1>3, FS_Interval
<1>5. CASE Pooled = {}
  <2>1. n < Cardinality(Activities)
    BY <1>5, SpareTimeline
  <2>2. n < UShortLimit /\ t = n
    BY <2>1, <1>1, <1>5, NewTimelineIdValue DEF TimelineInv, Capacity
  <2>3. /\ timelineCount_' = n + 1
        /\ availableTimelineIds_' = availableTimelineIds_
        /\ timelineDescriptions_' = (0 .. n - 1) \cup {n}
    BY <1>3, <1>4, <1>5, <2>2 DEF GetNewTimelineId
  <2>4. availableTimelineIds_[n] = 0 /\ \A b \in Active : timeline[b] < n /\ timeline[b] \in TimelineIds
    BY <1>2, <2>2, <1>5, <1>1, TimelineType DEF TimelineInv, HoldersInv, Pooled
  <2>5. (0 .. n - 1) \cup {n} = 0 .. (n + 1) - 1
    BY <1>1
  <2> QED BY <1>1, <1>2, <2>1, <2>2, <2>3, <2>4, <2>5 DEF TimelineIds
<1>6. CASE Pooled # {}
  <2>1. availableTimelineIds_[t] > 0
    BY <1>1, <1>6, NewTimelineIdValue DEF Pooled
  <2>2. availableTimelineIds_[t] = 1 /\ t < n
    BY <1>2, <2>1 DEF TimelineInv, PoolInv
  <2>3. /\ timelineCount_' = n
        /\ availableTimelineIds_' = [availableTimelineIds_ EXCEPT ![t] = @ - 1]
        /\ timelineDescriptions_' = timelineDescriptions_
    BY <1>1, <1>4, <1>6, <2>2 DEF GetNewTimelineId
  <2>4. \A b \in Active : timeline[b] # t
    BY <2>1, <1>1 DEF TimelineInv, HoldersInv
  <2> QED BY <1>1, <1>2, <1>3, <2>2, <2>3, <2>4 DEF TimelineIds
<1> QED BY <1>5, <1>6

\* The children counted for an activity are among the other activities.
LEMMA SharingBound ==
  ASSUME Capacity, CInv, NEW a \in Active
  PROVE  /\ IsFiniteSet(SharingChildren(a))
         /\ Cardinality(SharingChildren(a)) \in Nat
         /\ Cardinality(SharingChildren(a)) < UShortLimit
<1> DEFINE S == SharingChildren(a)
           T == Activities \ {a}
<1>1. a \in Activities /\ IsFiniteSet(Activities)
  BY DEF Capacity, Active
<1>2. S \in SUBSET T
  <2>1. parent[a] # a
    BY <1>1 DEF CInv, TreeInv
  <2> QED BY <2>1 DEF SharingChildren, Children
<1>3. IsFiniteSet(T) /\ Cardinality(T) = Cardinality(Activities) - 1
  BY <1>1, FS_RemoveElement
<1> HIDE DEF S, T
<1>4. IsFiniteSet(S) /\ Cardinality(S) <= Cardinality(T)
  BY <1>2, <1>3, FS_Subset
<1>5. Cardinality(S) \in Nat /\ Cardinality(Activities) \in Nat
  BY <1>1, <1>4, FS_CardinalityType
<1>6. Cardinality(S) < UShortLimit
  BY <1>3, <1>4, <1>5 DEF Capacity
<1>7. S = SharingChildren(a)
  BY DEF S
<1> QED BY <1>4, <1>5, <1>6, <1>7

\* The shape of a start event: one more activity, on timeline t, at the end
\* of a stack; the others stay as they are.
Starts(a, t) ==
  /\ a \in Activities /\ a \notin Active
  /\ Active' = Active \cup {a}
  /\ timeline' = [timeline EXCEPT ![a] = t]
  /\ \/ parent'[a] = Null /\ stack'[a] = {a}
     \/ parent'[a] \in Active /\ stack'[a] = stack[parent'[a]] \cup {a}
  /\ \A b \in Activities \ {a} : stack'[b] = stack[b] /\ parent'[b] = parent[b]
  /\ ReuseCount(a)' = 0

LEMMA StartsFacts ==
  ASSUME CInv, CInv', NEW a, NEW t, Starts(a, t)
  PROVE  /\ \A b \in Active : /\ b \in Activities /\ b # a /\ a \notin stack[b]
                              /\ stack[b] \subseteq Active
                              /\ parent[b] # a
                              /\ stack'[b] = stack[b] /\ parent'[b] = parent[b]
                              /\ timeline'[b] = timeline[b]
                              /\ OwnsTimeline(b)' <=> OwnsTimeline(b)
         /\ timeline'[a] = t
         /\ a \in stack'[a]
         /\ Children(a)' = {}
<1>1. \A b \in Active : /\ b \in Activities /\ b # a /\ a \notin stack[b]
                        /\ stack[b] \subseteq Active
                        /\ parent[b] # a
                        /\ parent[b] \in Active \cup {Null}
  BY DEF Starts, CInv, TreeInv, Active
<1>2. \A b \in Active : stack'[b] = stack[b] /\ parent'[b] = parent[b]
  BY <1>1 DEF Starts
<1>3. /\ \A b \in Active : timeline'[b] = timeline[b]
      /\ timeline'[a] = t
  BY <1>1 DEF Starts, timeline
<1>4. \A b \in Active : OwnsTimeline(b)' <=> OwnsTimeline(b)
  BY <1>1, <1>2, <1>3 DEF OwnsTimeline, Starts
<1>5. a \in stack'[a]
  BY DEF Starts
<1>6. Children(a)' = {}
  <2>1. \A b \in Activities \ Active : parent[b] = Null
    BY DEF CInv, TreeInv
  <2>2. parent'[a] # a /\ a # Null
    BY DEF Starts
  <2> QED BY <1>1, <2>1, <2>2 DEF Starts, Children
<1> QED BY <1>1, <1>2, <1>3, <1>4, <1>5, <1>6

\* A new activity that brings its own timeline.
LEMMA StartOnFreshTimeline ==
  ASSUME CInv, CInv', TimelineInv, NEW a, GetNewTimelineId, Starts(a, NewTimelineId),
         \A b \in Active : ReuseCount(b)' = ReuseCount(b)
  PROVE  TimelineInv'
<1> DEFINE t == NewTimelineId
<1>1. a \in Activities /\ a \notin Active /\ Active' = Active \cup {a}
  BY DEF Starts
<1>2. /\ t \in TimelineIds
      /\ \A b \in Active : timeline[b] # t
      /\ timelineCount_' \in Nat
      /\ timelineCount_' <= Cardinality(Activities)
      /\ timelineCount_ <= timelineCount_'
      /\ t < timelineCount_'
      /\ timelineDescriptions_' = 0 .. timelineCount_' - 1
      /\ \A u \in TimelineIds : timelineCount_ <= u /\ u < timelineCount_' => u = t
      /\ availableTimelineIds_'[t] = 0
      /\ \A u \in TimelineIds \ {t} : availableTimelineIds_'[u] = availableTimelineIds_[u]
  BY <1>1, FreshTimeline
<1>3. /\ \A b \in Active : /\ b \in Activities /\ b # a /\ a \notin stack[b]
                           /\ stack[b] \subseteq Active
                           /\ parent[b] # a
                           /\ stack'[b] = stack[b] /\ parent'[b] = parent[b]
                           /\ timeline'[b] = timeline[b]
                           /\ OwnsTimeline(b)' <=> OwnsTimeline(b)
      /\ timeline'[a] = t
      /\ a \in stack'[a]
      /\ Children(a)' = {}
  BY StartsFacts
<1>4. \A b \in Active : timeline[b] \in TimelineIds
  BY TimelineType
<1>5. timelineCount_ \in Nat
  BY DEF CInv, TypeOK
<1>6. OwnsTimeline(a)'
  <2>1. parent'[a] \in Active => timeline'[parent'[a]] # t
    BY <1>2, <1>3
  <2> QED BY <2>1, <1>1, <1>3 DEF OwnsTimeline, Starts
<1> HIDE DEF t
<1>7. PoolInv'
  <2>1. \A u \in TimelineIds :
          /\ availableTimelineIds_'[u] \in {0, 1}
          /\ availableTimelineIds_'[u] = 1 => u < timelineCount_'
          /\ u < timelineCount_' /\ availableTimelineIds_'[u] = 0 =>
               \E o \in Active' : OwnsTimeline(o)' /\ timeline'[o] = u
    <3> TAKE u \in TimelineIds
    <3>1. CASE u = t
      BY <3>1, <1>1, <1>2, <1>3, <1>6
    <3>2. CASE u # t
      <4>1. /\ availableTimelineIds_'[u] = availableTimelineIds_[u]
            /\ u < timelineCount_' => u < timelineCount_
        BY <3>2, <1>2, <1>5 DEF TimelineIds
      <4>2. /\ availableTimelineIds_[u] \in {0, 1}
            /\ availableTimelineIds_[u] = 1 => u < timelineCount_
            /\ u < timelineCount_ /\ availableTimelineIds_[u] = 0 =>
                 \E o \in Active : OwnsTimeline(o) /\ timeline[o] = u
        BY DEF TimelineInv, PoolInv
      <4> QED BY <4>1, <4>2, <1>1, <1>2, <1>3, <1>5 DEF TimelineIds
    <3> QED BY <3>1, <3>2
  <2> QED BY <2>1, <1>2 DEF PoolInv
<1>8. HoldersInv'
  <2>1. \A b \in Active' : timeline'[b] < timelineCount_' /\ availableTimelineIds_'[timeline'[b]] = 0
    <3>1. ASSUME NEW b \in Active
          PROVE  timeline'[b] < timelineCount_' /\ availableTimelineIds_'[timeline'[b]] = 0
      <4>1. timeline[b] < timelineCount_ /\ availableTimelineIds_[timeline[b]] = 0
        BY DEF TimelineInv, HoldersInv
      <4> QED BY <4>1, <1>2, <1>3, <1>4, <1>5 DEF TimelineIds
    <3> QED BY <3>1, <1>1, <1>2, <1>3
  <2>2. \A b, c \in Active' :
          OwnsTimeline(b)' /\ OwnsTimeline(c)' /\ timeline'[b] = timeline'[c] => b = c
    BY <1>1, <1>2, <1>3 DEF TimelineInv, HoldersInv
  <2>3. \A b \in Active' : \E o \in stack'[b] : OwnsTimeline(o)' /\ timeline'[o] = timeline'[b]
    <3>1. ASSUME NEW b \in Active
          PROVE  \E o \in stack'[b] : OwnsTimeline(o)' /\ timeline'[o] = timeline'[b]
      <4>1. PICK o \in stack[b] : OwnsTimeline(o) /\ timeline[o] = timeline[b]
        BY DEF TimelineInv, HoldersInv
      <4> QED BY <4>1, <1>3
    <3> QED BY <3>1, <1>1, <1>3, <1>6
  <2> QED BY <2>1, <2>2, <2>3 DEF HoldersInv
<1>9. ConsecutiveInv'
  <2> SUFFICES ASSUME NEW b \in Active', NEW y \in stack'[b], NEW x \in stack'[y],
                      timeline'[x] = timeline'[b]
               PROVE  timeline'[y] = timeline'[b]
    BY DEF ConsecutiveInv
  <2>1. CASE b = a
    <3>1. stack'[a] \subseteq Active \cup {a}
      BY <1>3 DEF Starts
    <3>2. CASE y = a
      BY <2>1, <3>2
    <3>3. CASE y \in Active
      BY <2>1, <3>3, <1>2, <1>3
    <3> QED BY <2>1, <3>1, <3>2, <3>3
  <2>2. CASE b \in Active
    <3>1. y \in stack[b] /\ y \in Active /\ x \in stack[y] /\ x \in Active
      BY <2>2, <1>3
    <3> QED BY <2>2, <3>1, <1>3 DEF TimelineInv, ConsecutiveInv
  <2> QED BY <2>1, <2>2, <1>1
<1>10. ReuseCountsChildren'
  <2>1. SharingChildren(a)' = {}
    BY <1>3 DEF SharingChildren
  <2>2. \A b \in Active : SharingChildren(b)' = SharingChildren(b)
    <3> TAKE b \in Active
    <3>1. \A c \in Activities \ Active : parent[c] = Null
      BY DEF CInv, TreeInv
    <3>2. b # Null
      BY <1>3
    <3> QED BY <3>1, <3>2, <1>1, <1>2, <1>3 DEF SharingChildren, Children, Starts
  <2>3. ReuseCount(a)' = 0 /\ Cardinality({}) = 0
    BY FS_EmptySet DEF Starts
  <2> QED BY <2>1, <2>2, <2>3, <1>1 DEF ReuseCountsChildren, TimelineInv
<1>11. JoinBeforeNesting => TimelinesExclusive'
  BY <1>1, <1>2, <1>3 DEF TimelinesExclusive, TimelineInv, Related
<1> QED BY <1>7, <1>8, <1>9, <1>10, <1>11 DEF TimelineInv

\* A new activity on the timeline of its parent p.
LEMMA StartOnSharedTimeline ==
  ASSUME CInv, CInv', TimelineInv, NEW a, NEW p \in Active, Starts(a, timeline[p]),
         parent'[a] = p, UNCHANGED timelineVars,
         ReuseCount(p)' = (ReuseCount(p) + 1) % UShortLimit,
         \A b \in Active \ {p} : ReuseCount(b)' = ReuseCount(b),
         JoinBeforeNesting => SharingChildren(p) = {}
  PROVE  TimelineInv'
<1>1. a \in Activities /\ a \notin Active /\ Active' = Active \cup {a} /\ p \in Activities /\ p # a
  BY DEF Starts, Active
<1>2. /\ \A b \in Active : /\ b \in Activities /\ b # a /\ a \notin stack[b]
                           /\ stack[b] \subseteq Active
                           /\ parent[b] # a
                           /\ stack'[b] = stack[b] /\ parent'[b] = parent[b]
                           /\ timeline'[b] = timeline[b]
                           /\ OwnsTimeline(b)' <=> OwnsTimeline(b)
      /\ timeline'[a] = timeline[p]
      /\ a \in stack'[a]
      /\ Children(a)' = {}
  BY StartsFacts
<1>3. /\ timelineCount_' = timelineCount_
      /\ availableTimelineIds_' = availableTimelineIds_
      /\ timelineDescriptions_' = timelineDescriptions_
  BY DEF timelineVars
<1>4. stack'[a] = stack[p] \cup {a} /\ p \in stack[p]
  <2>1. p # Null
    BY TimelineType
  <2> QED BY <2>1 DEF Starts, CInv, TreeInv
<1>5. ~ OwnsTimeline(a)'
  BY <1>1, <1>2 DEF OwnsTimeline, CInv, TypeOK
<1>6. PoolInv'
  BY <1>1, <1>2, <1>3 DEF PoolInv, TimelineInv
<1>7. HoldersInv'
  <2>1. \A b \in Active' : timeline'[b] < timelineCount_' /\ availableTimelineIds_'[timeline'[b]] = 0
    BY <1>1, <1>2, <1>3 DEF TimelineInv, HoldersInv
  <2>2. \A b, c \in Active' :
          OwnsTimeline(b)' /\ OwnsTimeline(c)' /\ timeline'[b] = timeline'[c] => b = c
    BY <1>1, <1>2, <1>5 DEF TimelineInv, HoldersInv
  <2>3. \A b \in Active' : \E o \in stack'[b] : OwnsTimeline(o)' /\ timeline'[o] = timeline'[b]
    <3>1. ASSUME NEW b \in Active
          PROVE  \E o \in stack'[b] : OwnsTimeline(o)' /\ timeline'[o] = timeline'[b]
      <4>1. PICK o \in stack[b] : OwnsTimeline(o) /\ timeline[o] = timeline[b]
        BY DEF TimelineInv, HoldersInv
      <4> QED BY <4>1, <1>2
    <3>2. PICK o \in stack[p] : OwnsTimeline(o)' /\ timeline'[o] = timeline'[p]
      BY <3>1, <1>2
    <3> QED BY <3>1, <3>2, <1>1, <1>2, <1>4
  <2> QED BY <2>1, <2>2, <2>3 DEF HoldersInv
<1>8. ConsecutiveInv'
  <2> SUFFICES ASSUME NEW b \in Active', NEW y \in stack'[b], NEW x \in stack'[y],
                      timeline'[x] = timeline'[b]
               PROVE  timeline'[y] = timeline'[b]
    BY DEF ConsecutiveInv
  <2>1. CASE b = a
    <3>1. CASE y = a
      BY <2>1, <3>1
    <3>2. CASE y \in stack[p]
      <4>1. y \in Active /\ x \in stack[y] /\ x \in Active
        BY <3>2, <1>2
      <4>2. timeline[x] = timeline[p]
        BY <2>1, <4>1, <1>2
      <4>3. timeline[y] = timeline[p]
        BY <3>2, <4>1, <4>2 DEF TimelineInv, ConsecutiveInv
      <4> QED BY <2>1, <4>1, <4>3, <1>2
    <3> QED BY <2>1, <3>1, <3>2, <1>4
  <2>2. CASE b \in Active
    <3>1. y \in stack[b] /\ y \in Active /\ x \in stack[y] /\ x \in Active
      BY <2>2, <1>2
    <3> QED BY <2>2, <3>1, <1>2 DEF TimelineInv, ConsecutiveInv
  <2> QED BY <2>1, <2>2, <1>1
<1>9. ReuseCountsChildren'
  <2>1. \A c \in Activities \ Active : parent[c] = Null
    BY DEF CInv, TreeInv
  <2>2. SharingChildren(a)' = {}
    BY <1>2 DEF SharingChildren
  <2>3. \A b \in Active \ {p} : SharingChildren(b)' = SharingChildren(b)
    <3> TAKE b \in Active \ {p}
    <3>1. b # Null
      BY TimelineType
    <3> QED BY <2>1, <3>1, <1>1, <1>2 DEF SharingChildren, Children, Starts
  <2>4. SharingChildren(p)' = SharingChildren(p) \cup {a} /\ a \notin SharingChildren(p)
    <3>1. p # Null
      BY TimelineType
    <3> QED BY <2>1, <3>1, <1>1, <1>2 DEF SharingChildren, Children, Starts
  <2>5. ReuseCount(a)' = 0 /\ Cardinality({}) = 0
    BY FS_EmptySet DEF Starts
  <2>6. ReuseCount(p)' = Cardinality(SharingChildren(p)')
    <3>1. /\ IsFiniteSet(SharingChildren(p))
          /\ Cardinality(SharingChildren(p)) \in Nat
      BY SharingBound DEF TimelineInv
    <3>2. Cardinality(SharingChildren(p)') = Cardinality(SharingChildren(p)) + 1
      BY <2>4, <3>1, FS_AddElement
    <3>3. Cardinality(SharingChildren(p)') < UShortLimit
      <4> DEFINE S == SharingChildren(p) \cup {a}
                 T == Activities \ {p}
      <4>1. S \in SUBSET T
        <5>1. parent[p] # p
          BY <1>1 DEF CInv, TreeInv
        <5> QED BY <5>1, <1>1 DEF SharingChildren, Children
      <4>2. IsFiniteSet(T) /\ Cardinality(T) = Cardinality(Activities) - 1
        BY <1>1, FS_RemoveElement DEF Capacity, TimelineInv
      <4> HIDE DEF S, T
      <4>3. IsFiniteSet(S) /\ Cardinality(S) <= Cardinality(T)
        BY <4>1, <4>2, FS_Subset
      <4>4. Cardinality(S) \in Nat /\ Cardinality(Activities) \in Nat
        BY <4>3, FS_CardinalityType DEF Capacity, TimelineInv
      <4>5. Cardinality(S) < UShortLimit
        BY <4>2, <4>3, <4>4 DEF Capacity, TimelineInv
      <4> QED BY <4>5, <2>4 DEF S
    <3>4. ReuseCount(p) = Cardinality(SharingChildren(p))
      BY DEF TimelineInv, ReuseCountsChildren
    <3> QED BY <3>1, <3>2, <3>3, <3>4
  <2> QED BY <2>2, <2>3, <2>4, <2>5, <2>6, <1>1 DEF ReuseCountsChildren, TimelineInv
<1>10. JoinBeforeNesting => TimelinesExclusive'
  <2> SUFFICES ASSUME JoinBeforeNesting PROVE TimelinesExclusive'
    OBVIOUS
  <2>1. SharingChildren(p) = {} /\ TimelinesExclusive
    BY DEF TimelineInv
  <2>2. ASSUME NEW b \in Active, timeline[b] = timeline[p]
        PROVE  b \in stack[p]
    <3>1. b \in stack[p] \/ p \in stack[b]
      BY <2>1, <2>2 DEF TimelinesExclusive, Related
    <3>2. ASSUME p \in stack[b], b # p PROVE FALSE
      <4>1. PICK c \in stack[b] : parent[c] = p
        BY <3>2 DEF CInv, TreeInv
      <4>2. c \in Active /\ p # Null
        BY <1>2, TimelineType
      <4>3. p \in stack[c]
        BY <4>1, <4>2 DEF CInv, TreeInv
      <4>4. timeline[c] = timeline[p]
        BY <2>2, <4>1, <4>3 DEF TimelineInv, ConsecutiveInv
      <4> QED BY <2>1, <4>1, <4>2, <4>4, <1>2 DEF SharingChildren, Children
    <3> QED BY <3>1, <3>2, <1>4
  <2>3. \A b, c \in Active : timeline'[b] = timeline'[c] => b \in stack'[c] \/ c \in stack'[b]
    BY <2>1, <1>2 DEF TimelinesExclusive, Related
  <2>4. \A b \in Active : timeline'[b] = timeline'[a] => b \in stack'[a]
    BY <2>2, <1>2, <1>4
  <2> QED BY <2>3, <2>4, <1>1, <1>2 DEF TimelinesExclusive, Related
<1> QED BY <1>6, <1>7, <1>8, <1>9, <1>10 DEF TimelineInv

\* The shape of a stop event: an activity without children leaves.
Stops(a) ==
  /\ a \in Activities /\ a \in Active
  /\ Active' = Active \ {a}
  /\ timeline' = [timeline EXCEPT ![a] = Null]
  /\ parent'[a] = Null
  /\ \A b \in Active \ {a} : a \notin stack[b] /\ parent[b] # a
  /\ \A b \in Activities \ {a} : stack'[b] = stack[b] /\ parent'[b] = parent[b]

LEMMA StopsFacts ==
  ASSUME CInv, NEW a, Stops(a)
  PROVE  \A b \in Active \ {a} : /\ b \in Activities /\ stack[b] \subseteq Active \ {a}
                                 /\ stack'[b] = stack[b] /\ parent'[b] = parent[b]
                                 /\ timeline'[b] = timeline[b]
                                 /\ OwnsTimeline(b)' <=> OwnsTimeline(b)
<1>1. \A b \in Active \ {a} : /\ b \in Activities /\ stack[b] \subseteq Active \ {a}
                              /\ parent[b] \in (Active \cup {Null}) \ {a}
  BY DEF Stops, CInv, TreeInv, Active
<1>2. \A b \in Active \ {a} : stack'[b] = stack[b] /\ parent'[b] = parent[b]
  BY <1>1 DEF Stops
<1>3. \A b \in Active \ {a} : timeline'[b] = timeline[b]
  BY <1>1 DEF Stops, timeline
<1>4. \A b \in Active \ {a} : OwnsTimeline(b)' <=> OwnsTimeline(b)
  BY <1>1, <1>2, <1>3 DEF OwnsTimeline, Stops
<1> QED BY <1>1, <1>2, <1>3, <1>4

\* The order of the activities on one timeline survives a stop.
LEMMA StopKeepsOrder ==
  ASSUME CInv, TimelineInv, NEW a, Stops(a)
  PROVE  /\ ConsecutiveInv'
         /\ JoinBeforeNesting => TimelinesExclusive'
<1>1. \A b \in Active \ {a} : /\ b \in Activities /\ stack[b] \subseteq Active \ {a}
                              /\ stack'[b] = stack[b] /\ timeline'[b] = timeline[b]
  BY StopsFacts
<1>2. Active' = Active \ {a}
  BY DEF Stops
<1>3. ConsecutiveInv'
  <2> SUFFICES ASSUME NEW b \in Active', NEW y \in stack'[b], NEW x \in stack'[y],
                      timeline'[x] = timeline'[b]
               PROVE  timeline'[y] = timeline'[b]
    BY DEF ConsecutiveInv
  <2>1. b \in Active \ {a} /\ y \in stack[b] /\ y \in Active \ {a}
    BY <1>1, <1>2
  <2>2. x \in stack[y] /\ x \in Active \ {a}
    BY <2>1, <1>1
  <2> QED BY <2>1, <2>2, <1>1 DEF TimelineInv, ConsecutiveInv
<1>4. JoinBeforeNesting => TimelinesExclusive'
  BY <1>1, <1>2 DEF TimelinesExclusive, TimelineInv, Related
<1> QED BY <1>3, <1>4

\* An activity that holds its timeline returns it to the pool.
LEMMA StopOfHolder ==
  ASSUME CInv, TimelineInv, NEW a, Stops(a), OwnsTimeline(a),
         ReturnTimelineId(timeline[a]),
         \A b \in Active \ {a} : ReuseCount(b)' = ReuseCount(b)
  PROVE  TimelineInv'
<1> DEFINE t == timeline[a]
<1>1. \A b \in Active \ {a} : /\ b \in Activities /\ stack[b] \subseteq Active \ {a}
                              /\ stack'[b] = stack[b] /\ parent'[b] = parent[b]
                              /\ timeline'[b] = timeline[b]
                              /\ OwnsTimeline(b)' <=> OwnsTimeline(b)
  BY StopsFacts
<1>2. a \in Activities /\ a \in Active /\ Active' = Active \ {a} /\ a # Null
  BY DEF Stops
<1>3. t \in TimelineIds /\ t < timelineCount_ /\ availableTimelineIds_[t] = 0
  BY <1>2, TimelineType DEF TimelineInv, HoldersInv
<1>4. /\ timelineCount_' = timelineCount_
      /\ timelineDescriptions_' = timelineDescriptions_
      /\ availableTimelineIds_'[t] = 1
      /\ \A u \in TimelineIds \ {t} : availableTimelineIds_'[u] = availableTimelineIds_[u]
  BY <1>3 DEF ReturnTimelineId, CInv, TypeOK
<1>5. \A b \in Active \ {a} : timeline[b] # t /\ timeline[b] \in TimelineIds
  <2> TAKE b \in Active \ {a}
  <2>1. PICK o \in stack[b] : OwnsTimeline(o) /\ timeline[o] = timeline[b]
    BY DEF TimelineInv, HoldersInv
  <2>2. o \in Active \ {a}
    BY <2>1, <1>1
  <2>3. timeline[o] # t
    BY <2>1, <2>2, <1>2 DEF TimelineInv, HoldersInv
  <2> QED BY <2>1, <2>3, TimelineType
<1> HIDE DEF t
<1>6. PoolInv'
  <2>1. \A u \in TimelineIds :
          /\ availableTimelineIds_'[u] \in {0, 1}
          /\ availableTimelineIds_'[u] = 1 => u < timelineCount_'
          /\ u < timelineCount_' /\ availableTimelineIds_'[u] = 0 =>
               \E o \in Active' : OwnsTimeline(o)' /\ timeline'[o] = u
    <3> TAKE u \in TimelineIds
    <3>1. CASE u = t
      BY <3>1, <1>3, <1>4
    <3>2. CASE u # t
      <4>1. /\ availableTimelineIds_[u] \in {0, 1}
            /\ availableTimelineIds_[u] = 1 => u < timelineCount_
            /\ u < timelineCount_ /\ availableTimelineIds_[u] = 0 =>
                 \E o \in Active : OwnsTimeline(o) /\ timeline[o] = u
        BY DEF TimelineInv, PoolInv
      <4>2. \A o \in Active : timeline[o] = u => o # a
        BY <3>2 DEF t
      <4> QED BY <3>2, <4>1, <4>2, <1>1, <1>2, <1>4
    <3> QED BY <3>1, <3>2
  <2> QED BY <2>1, <1>4 DEF PoolInv, TimelineInv
<1>7. HoldersInv'
  <2>1. \A b \in Active' : timeline'[b] < timelineCount_' /\ availableTimelineIds_'[timeline'[b]] = 0
    BY <1>1, <1>2, <1>4, <1>5 DEF TimelineInv, HoldersInv
  <2>2. \A b, c \in Active' :
          OwnsTimeline(b)' /\ OwnsTimeline(c)' /\ timeline'[b] = timeline'[c] => b = c
    BY <1>1, <1>2 DEF TimelineInv, HoldersInv
  <2>3. \A b \in Active' : \E o \in stack'[b] : OwnsTimeline(o)' /\ timeline'[o] = timeline'[b]
    <3> TAKE b \in Active'
    <3>1. PICK o \in stack[b] : OwnsTimeline(o) /\ timeline[o] = timeline[b]
      BY <1>2 DEF TimelineInv, HoldersInv
    <3> QED BY <3>1, <1>1, <1>2
  <2> QED BY <2>1, <2>2, <2>3 DEF HoldersInv
<1>8. ReuseCountsChildren'
  <2>1. \A b \in Active \ {a} : SharingChildren(b)' = SharingChildren(b)
    <3> TAKE b \in Active \ {a}
    <3>1. \A c \in Activities \ Active : parent[c] = Null
      BY DEF CInv, TreeInv
    <3>2. b # Null /\ a \notin SharingChildren(b) /\ parent'[a] # b
      BY <1>1, <1>5 DEF SharingChildren, Stops, t
    <3>3. Children(b)' = Children(b) \ {a}
      BY <3>2, <1>2 DEF Children, Stops
    <3>4. \A c \in Children(b) \ {a} : c \in Active \ {a}
      BY <3>1, <3>2 DEF Children
    <3> QED BY <3>2, <3>3, <3>4, <1>1 DEF SharingChildren
  <2> QED BY <2>1, <1>2 DEF ReuseCountsChildren, TimelineInv
<1> QED BY <1>6, <1>7, <1>8, StopKeepsOrder DEF TimelineInv

\* An activity on its parent's timeline leaves it to the parent.
LEMMA StopOfSharer ==
  ASSUME CInv, TimelineInv, NEW a, Stops(a), NEW p \in Active \ {a}, parent[a] = p,
         timeline[a] = timeline[p], UNCHANGED timelineVars,
         ReuseCount(p)' = IF ReuseCount(p) = 0 THEN UShortLimit - 1 ELSE ReuseCount(p) - 1,
         \A b \in Active \ {a, p} : ReuseCount(b)' = ReuseCount(b)
  PROVE  TimelineInv'
<1>1. \A b \in Active \ {a} : /\ b \in Activities /\ stack[b] \subseteq Active \ {a}
                              /\ stack'[b] = stack[b] /\ parent'[b] = parent[b]
                              /\ timeline'[b] = timeline[b]
                              /\ OwnsTimeline(b)' <=> OwnsTimeline(b)
  BY StopsFacts
<1>2. a \in Activities /\ a \in Active /\ Active' = Active \ {a} /\ a # Null /\ p # Null
  BY DEF Stops, Active
<1>3. /\ timelineCount_' = timelineCount_
      /\ availableTimelineIds_' = availableTimelineIds_
      /\ timelineDescriptions_' = timelineDescriptions_
  BY DEF timelineVars
<1>4. ~ OwnsTimeline(a)
  BY <1>2 DEF OwnsTimeline
<1>5. PoolInv'
  BY <1>1, <1>2, <1>3, <1>4 DEF PoolInv, TimelineInv
<1>6. HoldersInv'
  <2>1. \A b \in Active' : \E o \in stack'[b] : OwnsTimeline(o)' /\ timeline'[o] = timeline'[b]
    <3> TAKE b \in Active'
    <3>1. PICK o \in stack[b] : OwnsTimeline(o) /\ timeline[o] = timeline[b]
      BY <1>2 DEF TimelineInv, HoldersInv
    <3> QED BY <3>1, <1>1, <1>2
  <2> QED BY <2>1, <1>1, <1>2, <1>3 DEF HoldersInv, TimelineInv
<1>7. ReuseCountsChildren'
  <2>1. \A c \in Activities \ Active : parent[c] = Null
    BY DEF CInv, TreeInv
  <2>2. \A b \in Active \ {a} : SharingChildren(b)' = SharingChildren(b) \ {a}
    <3> TAKE b \in Active \ {a}
    <3>1. b # Null
      BY <1>1
    <3>2. Children(b)' = Children(b) \ {a}
      BY <3>1, <1>2 DEF Children, Stops
    <3>3. \A c \in Children(b) \ {a} : c \in Active \ {a}
      BY <2>1, <3>1 DEF Children
    <3> QED BY <3>2, <3>3, <1>1 DEF SharingChildren
  <2>3. a \in SharingChildren(p) /\ \A b \in Active \ {a, p} : a \notin SharingChildren(b)
    BY <1>2 DEF SharingChildren, Children
  <2>4. ReuseCount(p)' = Cardinality(SharingChildren(p)')
    <3>1. /\ IsFiniteSet(SharingChildren(p))
          /\ Cardinality(SharingChildren(p)) \in Nat
      BY SharingBound DEF TimelineInv
    <3>2. Cardinality(SharingChildren(p)') = Cardinality(SharingChildren(p)) - 1
      BY <2>2, <2>3, <3>1, FS_RemoveElement
    <3>3. Cardinality(SharingChildren(p)) # 0
      BY <2>3, <3>1, FS_EmptySet
    <3>4. ReuseCount(p) = Cardinality(SharingChildren(p))
      BY DEF TimelineInv, ReuseCountsChildren
    <3> QED BY <3>2, <3>3, <3>4
  <2>5. \A b \in Active \ {a, p} : SharingChildren(b)' = SharingChildren(b)
    <3> TAKE b \in Active \ {a, p}
    <3>1. SharingChildren(b) \ {a} = SharingChildren(b)
      BY <2>3 DEF SharingChildren
    <3> QED BY <2>2, <3>1
  <2> QED BY <2>4, <2>5, <1>2 DEF ReuseCountsChildren, TimelineInv
<1> QED BY <1>5, <1>6, <1>7, StopKeepsOrder DEF TimelineInv

-----------------------------------------------------------------------------
(* Every event preserves the invariant. *)

\* A root brings its own timeline.
LEMMA StartRootShape ==
  ASSUME IInv, NEW a \in Activities, NEW k \in Kinds, StartRoot(a, k)
  PROVE  /\ CInv' /\ GetNewTimelineId /\ Starts(a, NewTimelineId)
         /\ \A b \in Active : ReuseCount(b)' = ReuseCount(b)
<1>1. CInv /\ TimelineInv
  BY DEF IInv, CInv
<1>2. CInv' /\ timeline' = [timeline EXCEPT ![a] = NewTimelineId]
  BY <1>1, StartRootContexts
<1>3. BeginRoot(a, k) /\ GetNewTimelineId
  BY DEF StartRoot
<1>4. Active' = Active \cup {a} /\ a \notin Active /\ TreeInv
  BY <1>1, <1>3, BeginRootInv DEF CInv
<1>5. activityContextLinks_' = [activityContextLinks_ EXCEPT ![a] = NewLink(a)]
  BY DEF StartRoot
<1>6. ReuseCount(a)' = 0 /\ \A b \in Active : ReuseCount(b)' = ReuseCount(b)
  BY <1>1, <1>4, <1>5 DEF ReuseCount, NewLink, CInv, TypeOK, Active
<1>7. /\ parent'[a] = Null /\ stack'[a] = {a}
      /\ \A b \in Activities \ {a} : stack'[b] = stack[b] /\ parent'[b] = parent[b]
  BY <1>3, <1>4 DEF BeginRoot, TreeInv, TreeTypeOK
<1>8. Starts(a, NewTimelineId)
  BY <1>2, <1>4, <1>6, <1>7 DEF Starts
<1> QED BY <1>2, <1>3, <1>6, <1>8

LEMMA StartRootInv ==
  ASSUME IInv, NEW a \in Activities, NEW k \in Kinds, StartRoot(a, k)
  PROVE  IInv'
<1>1. CInv /\ TimelineInv
  BY DEF IInv, CInv
<1>2. /\ CInv' /\ GetNewTimelineId /\ Starts(a, NewTimelineId)
      /\ \A b \in Active : ReuseCount(b)' = ReuseCount(b)
  BY StartRootShape
<1>3. TimelineInv'
  BY <1>1, <1>2, StartOnFreshTimeline
<1> QED BY <1>2, <1>3 DEF IInv, CInv

\* Any other child that is not a fork point shares its parent's timeline.
LEMMA StartNestedShape ==
  ASSUME IInv, NEW a \in Activities, NEW p \in Activities, NEW k \in Kinds,
         StartNested(a, p, k)
  PROVE  /\ CInv' /\ UNCHANGED timelineVars /\ Starts(a, timeline[p])
         /\ p \in Active /\ parent'[a] = p
         /\ ReuseCount(p)' = (ReuseCount(p) + 1) % UShortLimit
         /\ \A b \in Active \ {p} : ReuseCount(b)' = ReuseCount(b)
<1>1. CInv /\ TimelineInv
  BY DEF IInv, CInv
<1>2. CInv' /\ timeline' = [timeline EXCEPT ![a] = timeline[p]]
  BY <1>1, StartNestedContexts
<1>3. BeginNested(a, p, k) /\ UNCHANGED timelineVars
  BY DEF StartNested
<1>4. Active' = Active \cup {a} /\ a \notin Active /\ p \in Active /\ a # p /\ TreeInv
  BY <1>1, <1>3, BeginNestedInv DEF CInv
<1>5. activityContextLinks_' =
        [activityContextLinks_ EXCEPT ![p] = ReusedOnceMore(p),
                                      ![a] = NewLink(NestedContext(a, p, k))]
  BY DEF StartNested
<1>6. /\ ReuseCount(a)' = 0
      /\ ReuseCount(p)' = ReusedOnceMore(p).TimelineReuseCount
      /\ \A b \in Active \ {p} : ReuseCount(b)' = ReuseCount(b)
  BY <1>1, <1>4, <1>5 DEF ReuseCount, NewLink, CInv, TypeOK, Active
<1>7. ReuseCount(p)' = (ReuseCount(p) + 1) % UShortLimit
  BY <1>1, <1>4, <1>6, ReuseTypes DEF CInv
<1>8. /\ parent'[a] = p /\ stack'[a] = stack[p] \cup {a}
      /\ \A b \in Activities \ {a} : stack'[b] = stack[b] /\ parent'[b] = parent[b]
  BY <1>3, <1>4 DEF BeginNested, TreeInv, TreeTypeOK
<1>9. Starts(a, timeline[p])
  BY <1>2, <1>4, <1>6, <1>8 DEF Starts
<1> QED BY <1>2, <1>3, <1>4, <1>6, <1>7, <1>8, <1>9

LEMMA StartNestedInv ==
  ASSUME IInv, NEW a \in Activities, NEW p \in Activities, NEW k \in Kinds,
         StartNested(a, p, k)
  PROVE  IInv'
<1>1. CInv /\ TimelineInv
  BY DEF IInv, CInv
<1>2. /\ CInv' /\ UNCHANGED timelineVars /\ Starts(a, timeline[p])
      /\ p \in Active /\ parent'[a] = p
      /\ ReuseCount(p)' = (ReuseCount(p) + 1) % UShortLimit
      /\ \A b \in Active \ {p} : ReuseCount(b)' = ReuseCount(b)
  BY StartNestedShape
<1>3. JoinBeforeNesting => SharingChildren(p) = {}
  BY DEF StartNested, SharingChildren
<1>4. TimelineInv'
  BY <1>1, <1>2, <1>3, StartOnSharedTimeline
<1> QED BY <1>2, <1>4 DEF IInv, CInv

\* At a fork point it depends on whether the parent's timeline is taken.
LEMMA StartForkShape ==
  ASSUME IInv, NEW a \in Activities, NEW p \in Activities, NEW k \in Kinds,
         StartFork(a, p, k)
  PROVE  /\ CInv' /\ p \in Active /\ parent'[a] = p
         /\ ReuseCount(p) # 0 =>
              /\ GetNewTimelineId /\ Starts(a, NewTimelineId)
              /\ \A b \in Active : ReuseCount(b)' = ReuseCount(b)
         /\ ReuseCount(p) = 0 =>
              /\ UNCHANGED timelineVars /\ Starts(a, timeline[p])
              /\ ReuseCount(p)' = (ReuseCount(p) + 1) % UShortLimit
              /\ \A b \in Active \ {p} : ReuseCount(b)' = ReuseCount(b)
<1>1. CInv /\ TimelineInv
  BY DEF IInv, CInv
<1>2. /\ CInv'
      /\ timeline' = [timeline EXCEPT ![a] = IF ReuseCount(p) # 0 THEN NewTimelineId
                                                                ELSE timeline[p]]
  BY <1>1, StartForkContexts
<1>3. BeginNested(a, p, k)
  BY DEF StartFork
<1>4. Active' = Active \cup {a} /\ a \notin Active /\ p \in Active /\ a # p /\ TreeInv
  BY <1>1, <1>3, BeginNestedInv DEF CInv
<1>5. /\ parent'[a] = p /\ stack'[a] = stack[p] \cup {a}
      /\ \A b \in Activities \ {a} : stack'[b] = stack[b] /\ parent'[b] = parent[b]
  BY <1>3, <1>4 DEF BeginNested, TreeInv, TreeTypeOK
<1>6. ASSUME ReuseCount(p) # 0
      PROVE  /\ GetNewTimelineId /\ Starts(a, NewTimelineId)
             /\ \A b \in Active : ReuseCount(b)' = ReuseCount(b)
  <2>1. /\ GetNewTimelineId
        /\ activityContextLinks_' = [activityContextLinks_ EXCEPT ![a] = NewLink(a)]
        /\ timeline' = [timeline EXCEPT ![a] = NewTimelineId]
    BY <1>2, <1>6 DEF StartFork
  <2>2. ReuseCount(a)' = 0 /\ \A b \in Active : ReuseCount(b)' = ReuseCount(b)
    BY <1>1, <1>4, <2>1 DEF ReuseCount, NewLink, CInv, TypeOK, Active
  <2>3. Starts(a, NewTimelineId)
    BY <1>4, <1>5, <2>1, <2>2 DEF Starts
  <2> QED BY <2>1, <2>2, <2>3
<1>7. ASSUME ReuseCount(p) = 0
      PROVE  /\ UNCHANGED timelineVars /\ Starts(a, timeline[p])
             /\ ReuseCount(p)' = (ReuseCount(p) + 1) % UShortLimit
             /\ \A b \in Active \ {p} : ReuseCount(b)' = ReuseCount(b)
  <2>1. /\ UNCHANGED timelineVars
        /\ activityContextLinks_' =
             [activityContextLinks_ EXCEPT ![p] = ReusedOnceMore(p), ![a] = NewLink(a)]
        /\ timeline' = [timeline EXCEPT ![a] = timeline[p]]
    BY <1>2, <1>7 DEF StartFork
  <2>2. /\ ReuseCount(a)' = 0
        /\ ReuseCount(p)' = ReusedOnceMore(p).TimelineReuseCount
        /\ \A b \in Active \ {p} : ReuseCount(b)' = ReuseCount(b)
    BY <1>1, <1>4, <2>1 DEF ReuseCount, NewLink, CInv, TypeOK, Active
  <2>3. ReuseCount(p)' = (ReuseCount(p) + 1) % UShortLimit
    BY <1>1, <1>4, <2>2, ReuseTypes DEF CInv
  <2>4. Starts(a, timeline[p])
    BY <1>4, <1>5, <2>1, <2>2 DEF Starts
  <2> QED BY <2>1, <2>2, <2>3, <2>4
<1> QED BY <1>2, <1>4, <1>5, <1>6, <1>7

LEMMA StartForkInv ==
  ASSUME IInv, NEW a \in Activities, NEW p \in Activities, NEW k \in Kinds,
         StartFork(a, p, k)
  PROVE  IInv'
<1>1. CInv /\ TimelineInv
  BY DEF IInv, CInv
<1>2. CInv' /\ p \in Active /\ parent'[a] = p
  BY StartForkShape
<1>3. CASE ReuseCount(p) # 0
  <2>1. TimelineInv'
    BY <1>1, <1>2, <1>3, StartForkShape, StartOnFreshTimeline
  <2> QED BY <1>2, <2>1 DEF IInv, CInv
<1>4. CASE ReuseCount(p) = 0
  <2>1. SharingChildren(p) = {}
    BY <1>1, <1>2, <1>4, SharingBound, FS_EmptySet DEF TimelineInv, ReuseCountsChildren
  <2>2. /\ UNCHANGED timelineVars /\ Starts(a, timeline[p])
        /\ ReuseCount(p)' = (ReuseCount(p) + 1) % UShortLimit
        /\ \A b \in Active \ {p} : ReuseCount(b)' = ReuseCount(b)
    BY <1>4, StartForkShape
  <2>3. TimelineInv'
    BY <1>1, <1>2, <2>1, <2>2, StartOnSharedTimeline
  <2> QED BY <1>2, <2>3 DEF IInv, CInv
<1> QED BY <1>3, <1>4

\* A root holds its timeline.
LEMMA StopRootShape ==
  ASSUME IInv, NEW a \in Activities, StopRoot(a)
  PROVE  /\ CInv' /\ Stops(a) /\ OwnsTimeline(a) /\ ReturnTimelineId(timeline[a])
         /\ \A b \in Active \ {a} : ReuseCount(b)' = ReuseCount(b)
<1>1. CInv /\ TimelineInv
  BY DEF IInv, CInv
<1>2. CInv' /\ timeline' = [timeline EXCEPT ![a] = Null]
  BY <1>1, StopRootContexts
<1>3. End(a) /\ parent[a] = Null /\ TreeInv
  BY <1>1 DEF StopRoot, CInv
<1>4. /\ Active' = Active \ {a} /\ a \in Active
      /\ \A b \in Active \ {a} : a \notin stack[b] /\ parent[b] # a
  BY <1>3, EndInv
<1>5. /\ parent'[a] = Null
      /\ \A b \in Activities \ {a} : stack'[b] = stack[b] /\ parent'[b] = parent[b]
  BY <1>3 DEF End, TreeInv, TreeTypeOK
<1>6. Stops(a)
  BY <1>2, <1>4, <1>5 DEF Stops
<1>7. activityContextLinks_' = [activityContextLinks_ EXCEPT ![a] = Null]
  BY DEF StopRoot
<1>8. \A b \in Active \ {a} : ReuseCount(b)' = ReuseCount(b)
  BY <1>1, <1>7 DEF ReuseCount, CInv, TypeOK, Active
<1>9. OwnsTimeline(a) /\ ReturnTimelineId(timeline[a])
  BY <1>1, <1>3, <1>4, TimelineType DEF OwnsTimeline, StopRoot
<1> QED BY <1>2, <1>6, <1>8, <1>9

LEMMA StopRootInv ==
  ASSUME IInv, NEW a \in Activities, StopRoot(a)
  PROVE  IInv'
<1>1. CInv /\ TimelineInv
  BY DEF IInv, CInv
<1>2. /\ CInv' /\ Stops(a) /\ OwnsTimeline(a) /\ ReturnTimelineId(timeline[a])
      /\ \A b \in Active \ {a} : ReuseCount(b)' = ReuseCount(b)
  BY StopRootShape
<1>3. TimelineInv'
  BY <1>1, <1>2, StopOfHolder
<1> QED BY <1>2, <1>3 DEF IInv, CInv

LEMMA StopNestedShape ==
  ASSUME IInv, NEW a \in Activities, StopNested(a)
  PROVE  /\ CInv' /\ Stops(a)
         /\ \E p \in Active \ {a} :
              /\ p \in Activities /\ p = parent[a]
              /\ timeline[a] = TimelineOf(a) /\ timeline[p] = TimelineOf(p)
<1>1. CInv /\ TimelineInv
  BY DEF IInv, CInv
<1>2. CInv' /\ timeline' = [timeline EXCEPT ![a] = Null]
  BY <1>1, StopNestedContexts
<1>3. End(a) /\ parent[a] # Null /\ TreeInv
  BY <1>1 DEF StopNested, CInv
<1>4. /\ Active' = Active \ {a} /\ a \in Active
      /\ \A b \in Active \ {a} : a \notin stack[b] /\ parent[b] # a
  BY <1>3, EndInv
<1>5. PICK p \in Active \ {a} : p = parent[a]
  BY <1>3, <1>4 DEF TreeInv
<1>6. /\ parent'[a] = Null
      /\ \A b \in Activities \ {a} : stack'[b] = stack[b] /\ parent'[b] = parent[b]
  BY <1>3 DEF End, TreeInv, TreeTypeOK
<1>7. Stops(a)
  BY <1>2, <1>4, <1>6 DEF Stops
<1>8. timeline[a] = TimelineOf(a) /\ timeline[p] = TimelineOf(p) /\ p \in Activities
  BY <1>1, <1>4, <1>5, TimelineType
<1> QED BY <1>2, <1>5, <1>7, <1>8

LEMMA StopNestedInv ==
  ASSUME IInv, NEW a \in Activities, StopNested(a)
  PROVE  IInv'
<1>1. CInv /\ TimelineInv
  BY DEF IInv, CInv
<1>2. CInv' /\ Stops(a)
  BY StopNestedShape
<1>3. PICK p \in Active \ {a} : /\ p \in Activities /\ p = parent[a]
                               /\ timeline[a] = TimelineOf(a) /\ timeline[p] = TimelineOf(p)
  BY StopNestedShape
<1>4. a \in Active
  BY <1>2 DEF Stops
<1>5. CASE timeline[p] = timeline[a]
  <2>1. /\ UNCHANGED timelineVars
        /\ activityContextLinks_' =
             [activityContextLinks_ EXCEPT ![p] = ReusedOnceLess(p), ![a] = Null]
    BY <1>3, <1>5 DEF StopNested
  <2>2. /\ ReuseCount(p)' = ReusedOnceLess(p).TimelineReuseCount
        /\ \A b \in Active \ {a, p} : ReuseCount(b)' = ReuseCount(b)
    BY <1>1, <1>3, <2>1 DEF ReuseCount, CInv, TypeOK, Active
  <2>3. ReuseCount(p)' = IF ReuseCount(p) = 0 THEN UShortLimit - 1 ELSE ReuseCount(p) - 1
    BY <1>1, <1>3, <2>2, ReuseTypes DEF CInv
  <2>4. TimelineInv'
    BY <1>1, <1>2, <1>3, <1>5, <2>1, <2>2, <2>3, StopOfSharer
  <2> QED BY <1>2, <2>4 DEF IInv, CInv
<1>6. CASE timeline[p] # timeline[a]
  <2>1. /\ ReturnTimelineId(timeline[a])
        /\ activityContextLinks_' = [activityContextLinks_ EXCEPT ![a] = Null]
    BY <1>3, <1>6 DEF StopNested
  <2>2. \A b \in Active \ {a} : ReuseCount(b)' = ReuseCount(b)
    BY <1>1, <2>1 DEF ReuseCount, CInv, TypeOK, Active
  <2>3. OwnsTimeline(a)
    BY <1>3, <1>4, <1>6 DEF OwnsTimeline
  <2>4. TimelineInv'
    BY <1>1, <1>2, <2>1, <2>2, <2>3, StopOfHolder
  <2> QED BY <1>2, <2>4 DEF IInv, CInv
<1> QED BY <1>5, <1>6

LEMMA QuietInv ==
  ASSUME IInv,
         UNCHANGED <<treeVars, timelineVars, stringVars, contextData_,
                     activityContextLinks_, mainComponentCache_>>,
         \/ \E a \in Active \cup {Null} : currentContextData_' = Null /\ currentInstanceId_' = a
         \/ UNCHANGED <<currentContextData_, currentInstanceId_>>
  PROVE  IInv'
<1>1. CInv /\ TimelineInv
  BY DEF IInv, CInv
<1>2. CInv' /\ timeline' = timeline
  BY <1>1, QuietContexts
<1>3. /\ Active' = Active /\ stack' = stack /\ parent' = parent
      /\ timelineCount_' = timelineCount_
      /\ availableTimelineIds_' = availableTimelineIds_
      /\ timelineDescriptions_' = timelineDescriptions_
      /\ activityContextLinks_' = activityContextLinks_
  BY DEF treeVars, timelineVars, Active
<1>4. \A a \in Activities : /\ OwnsTimeline(a)' <=> OwnsTimeline(a)
                            /\ SharingChildren(a)' = SharingChildren(a)
                            /\ ReuseCount(a)' = ReuseCount(a)
  BY <1>2, <1>3 DEF OwnsTimeline, SharingChildren, Children, ReuseCount
<1>5. \A a \in Active : a \in Activities /\ stack[a] \subseteq Activities
  BY <1>1 DEF Active, CInv, TreeInv, TreeTypeOK
<1>6. PoolInv' /\ HoldersInv'
  BY <1>1, <1>2, <1>3, <1>4, <1>5 DEF TimelineInv, PoolInv, HoldersInv
<1>7. ConsecutiveInv' /\ ReuseCountsChildren' /\ (JoinBeforeNesting => TimelinesExclusive')
  BY <1>1, <1>2, <1>3, <1>4, <1>5
     DEF TimelineInv, ConsecutiveInv, ReuseCountsChildren, TimelinesExclusive, Related
<1>8. TimelineInv'
  BY <1>1, <1>6, <1>7 DEF TimelineInv, Capacity
<1> QED BY <1>2, <1>8 DEF IInv, CInv

LEMMA InitContexts == Init => CInv
<1> SUFFICES ASSUME Init PROVE CInv
  OBVIOUS
<1>1. TypeOK
  BY MainComponentsAssumption DEF Init, TreeInit, TypeOK, TreeTypeOK
<1>2. TreeInv
  BY TreeInitInv DEF Init
<1>3. Active = {}
  BY DEF Init, TreeInit, Active
<1>4. ContextInv
  BY <1>3 DEF Init, ContextInv, NothingLeftBehind, NearestContext
<1> QED BY <1>1, <1>2, <1>4 DEF CInv

LEMMA NextContexts == CInv /\ [Next]_vars => CInv'
<1> SUFFICES ASSUME CInv, [Next]_vars PROVE CInv'
  OBVIOUS
<1>1. CASE \E a \in Activities, k \in Kinds : StartRoot(a, k)
  BY <1>1, StartRootContexts
<1>2. CASE \E a, p \in Activities, k \in Kinds : StartNested(a, p, k)
  BY <1>2, StartNestedContexts
<1>3. CASE \E a, p \in Activities, k \in Kinds : StartFork(a, p, k)
  BY <1>3, StartForkContexts
<1>4. CASE \E a \in Activities : StopRoot(a)
  BY <1>4, StopRootContexts
<1>5. CASE \E a \in Activities : StopNested(a)
  BY <1>5, StopNestedContexts
<1>6. CASE \E a \in Activities \cup {Null} : SimpleEvent(a)
  BY <1>6, QuietContexts DEF SimpleEvent
<1>7. CASE UNCHANGED vars
  BY <1>7, QuietContexts DEF vars
<1> QED BY <1>1, <1>2, <1>3, <1>4, <1>5, <1>6, <1>7 DEF Next

LEMMA InitInv == ASSUME Capacity, Init PROVE IInv
<1>1. CInv
  BY InitContexts
<1>2. Active = {}
  BY DEF Init, TreeInit, Active
<1>3. Cardinality(Activities) \in Nat
  BY FS_CardinalityType DEF Capacity
<1>4. PoolInv
  BY <1>3 DEF Init, PoolInv, TimelineIds
<1>5. TimelineInv
  BY <1>2, <1>4 DEF TimelineInv, HoldersInv, ConsecutiveInv, ReuseCountsChildren, TimelinesExclusive
<1> QED BY <1>1, <1>5 DEF IInv, CInv

LEMMA NextInv == IInv /\ [Next]_vars => IInv'
<1> SUFFICES ASSUME IInv, [Next]_vars PROVE IInv'
  OBVIOUS
<1>1. CASE \E a \in Activities, k \in Kinds : StartRoot(a, k)
  BY <1>1, StartRootInv
<1>2. CASE \E a, p \in Activities, k \in Kinds : StartNested(a, p, k)
  BY <1>2, StartNestedInv
<1>3. CASE \E a, p \in Activities, k \in Kinds : StartFork(a, p, k)
  BY <1>3, StartForkInv
<1>4. CASE \E a \in Activities : StopRoot(a)
  BY <1>4, StopRootInv
<1>5. CASE \E a \in Activities : StopNested(a)
  BY <1>5, StopNestedInv
<1>6. CASE \E a \in Activities \cup {Null} : SimpleEvent(a)
  BY <1>6, QuietInv DEF SimpleEvent
<1>7. CASE UNCHANGED vars
  BY <1>7, QuietInv DEF vars
<1> QED BY <1>1, <1>2, <1>3, <1>4, <1>5, <1>6, <1>7 DEF Next

-----------------------------------------------------------------------------
(* The theorems. *)

\* Types, event stacks and contexts are an invariant of ContextBuilder, with as
\* many activities at once as there may be.
THEOREM ContextInvariance == Spec => []CInv
<1> QED BY InitContexts, NextContexts, PTL DEF Spec

\* As long as the timeline ids last, timelines are one with them.
THEOREM Invariance == ASSUME Capacity PROVE Spec => []IInv
<1>1. Init => IInv
  BY InitInv
<1>2. IInv /\ [Next]_vars => IInv'
  BY NextInv
<1> QED BY <1>1, <1>2, PTL DEF Spec

\* Every variable keeps its type.
THEOREM TypesHold == Spec => []TypeOK
<1>1. CInv => TypeOK
  BY DEF CInv
<1> QED BY ContextInvariance, <1>1, PTL

\* Reuse counts are the numbers of children on the timeline: every increment
\* of a start event is undone by the stop event of the same child.
THEOREM ReuseCountsHold == ASSUME Capacity PROVE Spec => []ReuseCountsChildren
<1>1. IInv => ReuseCountsChildren
  BY DEF IInv, TimelineInv
<1>2. Spec => []IInv
  BY Invariance
<1> QED BY <1>1, <1>2, PTL

\* The maps and caches hold entries for active activities only.
THEOREM NothingStaysBehind == Spec => []NothingLeftBehind
<1>1. CInv => NothingLeftBehind
  BY DEF CInv, ContextInv
<1> QED BY ContextInvariance, <1>1, PTL

\* An activity is always linked to the innermost context of its event stack.
THEOREM NearestContextHolds == Spec => []NearestContext
<1>1. CInv => NearestContext
  BY DEF CInv, ContextInv
<1> QED BY ContextInvariance, <1>1, PTL

LEMMA ContextAlive == CInv => CurrentContextAlive
<1> SUFFICES ASSUME CInv PROVE CurrentContextAlive
  OBVIOUS
<1>1. TypeOK /\ ContextInv
  BY DEF CInv
<1>2. CASE currentContextData_ # Null
  BY <1>1, <1>2 DEF CurrentContextAlive, GetContextData, ContextInv
<1>3. CASE currentContextData_ = Null /\ currentInstanceId_ # Null
  <2>1. currentInstanceId_ \in Active
    BY <1>1, <1>3 DEF ContextInv
  <2>2. contextData_[LinkedContext(currentInstanceId_)] # Null
    BY <1>1, <2>1, LinkFacts
  <2> QED BY <1>3, <2>2 DEF CurrentContextAlive, GetContextData
<1>4. CASE currentContextData_ = Null /\ currentInstanceId_ = Null
  BY <1>4 DEF CurrentContextAlive, GetContextData
<1> QED BY <1>2, <1>3, <1>4

\* The context a view gets is one that has not been erased.
THEOREM CurrentContextsLive == Spec => []CurrentContextAlive
<1> QED BY ContextInvariance, ContextAlive, PTL

\* Where parents wait for their parallel children, two activities that share
\* a timeline are one inside the other.
THEOREM TimelinesStayExclusive ==
  ASSUME Capacity
  PROVE  Spec => [](JoinBeforeNesting => TimelinesExclusive)
<1>1. IInv => (JoinBeforeNesting => TimelinesExclusive)
  BY DEF IInv, TimelineInv
<1>2. Spec => []IInv
  BY Invariance
<1> QED BY <1>1, <1>2, PTL

\* No timeline is lost or handed out twice.
THEOREM TimelinesConserved == ASSUME Capacity PROVE Spec => []TimelineConservation
<1>1. ASSUME IInv PROVE TimelineConservation
  <2>1. PoolInv /\ HoldersInv /\ CInv
    BY <1>1 DEF IInv, TimelineInv, CInv
  <2>2. \A t \in TimelineIds : t >= timelineCount_ => availableTimelineIds_[t] = 0
    <3>1. timelineCount_ \in Nat
      BY <2>1 DEF CInv, TypeOK
    <3> QED BY <2>1, <3>1 DEF PoolInv, TimelineIds
  <2>3. \A a \in Active : timeline[a] < timelineCount_
    BY <2>1 DEF HoldersInv
  <2>4. ASSUME NEW t \in TimelineIds, t < timelineCount_
        PROVE  /\ t \in timelineDescriptions_
               /\ availableTimelineIds_[t]
                    + Cardinality({a \in Active : OwnsTimeline(a) /\ timeline[a] = t}) = 1
    <3> DEFINE holders == {a \in Active : OwnsTimeline(a) /\ timeline[a] = t}
    <3>1. t \in timelineDescriptions_
      BY <2>1, <2>4 DEF PoolInv, TimelineIds, CInv, TypeOK
    <3>2. CASE availableTimelineIds_[t] = 1
      <4>1. holders = {}
        BY <2>1, <3>2 DEF HoldersInv
      <4> HIDE DEF holders
      <4>2. Cardinality(holders) = 0
        BY <4>1, FS_EmptySet
      <4>3. availableTimelineIds_[t] + Cardinality(holders) = 1
        BY <3>2, <4>2
      <4> QED BY <3>1, <4>3 DEF holders
    <3>3. CASE availableTimelineIds_[t] = 0
      <4>1. PICK o \in Active : OwnsTimeline(o) /\ timeline[o] = t
        BY <2>1, <2>4, <3>3 DEF PoolInv
      <4>2. holders = {o}
        BY <2>1, <4>1 DEF HoldersInv
      <4> HIDE DEF holders
      <4>3. Cardinality(holders) = 1
        BY <4>2, FS_Singleton
      <4>4. availableTimelineIds_[t] + Cardinality(holders) = 1
        BY <3>3, <4>3
      <4> QED BY <3>1, <4>4 DEF holders
    <3> QED BY <2>1, <3>2, <3>3 DEF PoolInv
  <2> QED BY <2>2, <2>3, <2>4 DEF TimelineConservation
<1>2. Spec => []IInv
  BY Invariance
<1> QED BY <1>1, <1>2, PTL

-----------------------------------------------------------------------------
(***************************************************************************)
(* What rests on the invariant: ContextBuilder implements TimelineRows,    *)
(* gives a context that does not change under an activity, and attributes  *)
(* every activity to the invocation and the component it works for.        *)
(***************************************************************************)

(* The rows. *)

\* The row of every activity, as Rows sees it.
HeldRow == [a \in Activities |-> IF OwnsTimeline(a) THEN timeline[a] ELSE Null]

\* The rows that are taken are the timelines created and not in the pool.
LEMMA OccupiedRows ==
  ASSUME IInv
  PROVE  /\ {HeldRow[o] : o \in Activities} \ {Null}
              = {t \in TimelineIds : t < timelineCount_ /\ availableTimelineIds_[t] = 0}
         /\ \A a \in Activities : OwnsTimeline(a) <=> HeldRow[a] # Null
<1> DEFINE Used == {t \in TimelineIds : t < timelineCount_ /\ availableTimelineIds_[t] = 0}
<1>1. CInv /\ PoolInv /\ HoldersInv
  BY DEF IInv, CInv, TimelineInv
<1>2. \A a \in Active : timeline[a] \in TimelineIds /\ timeline[a] # Null /\ a \in Activities
  <2> TAKE a \in Active
  <2>1. timeline[a] \in TimelineIds /\ a \in Activities
    BY <1>1, TimelineType
  <2> QED BY <2>1, NoEntryAssumption DEF TimelineIds
<1>3. \A a \in Activities : OwnsTimeline(a) => a \in Active
  BY DEF OwnsTimeline
<1>4. \A a \in Activities : OwnsTimeline(a) <=> HeldRow[a] # Null
  BY <1>2, <1>3 DEF HeldRow
<1>5. \A a \in Activities : HeldRow[a] # Null => HeldRow[a] \in Used
  BY <1>1, <1>2, <1>3, <1>4 DEF HeldRow, HoldersInv
<1>6. \A t \in Used : t # Null /\ \E o \in Activities : HeldRow[o] = t
  <2> TAKE t \in Used
  <2>1. PICK o \in Active : OwnsTimeline(o) /\ timeline[o] = t
    BY <1>1 DEF PoolInv
  <2> QED BY <2>1, <1>2 DEF HeldRow
<1> QED BY <1>4, <1>5, <1>6

\* A timeline from GetNewTimelineId is the topmost row that nobody holds.
LEMMA TopmostRow ==
  ASSUME IInv, NEW a \in Activities, a \notin Active, GetNewTimelineId
  PROVE  LET Occ == {HeldRow[o] : o \in Activities} \ {Null} IN
         /\ NewTimelineId \in (0 .. Cardinality(Occ)) \ Occ
         /\ 0 .. (NewTimelineId - 1) \subseteq Occ
<1> DEFINE t == NewTimelineId
           n == timelineCount_
           Occ == {HeldRow[o] : o \in Activities} \ {Null}
<1>1. CInv /\ TimelineInv /\ TypeOK /\ n \in Nat
  BY DEF IInv, CInv, TypeOK
<1>2. Occ = {u \in TimelineIds : u < n /\ availableTimelineIds_[u] = 0}
  BY OccupiedRows
<1>3. /\ t \in TimelineIds
      /\ \A b \in Active : timeline[b] # t
  BY <1>1, FreshTimeline
<1> HIDE DEF Occ
<1>4. t \notin Occ
  <2>1. ASSUME t \in Occ PROVE FALSE
    <3>1. t < n /\ availableTimelineIds_[t] = 0
      BY <1>2, <2>1
    <3>2. \E o \in Active : timeline[o] = t
      BY <1>1, <1>3, <3>1 DEF TimelineInv, PoolInv
    <3> QED BY <1>3, <3>2
  <2> QED BY <2>1
<1>5. 0 .. (t - 1) \subseteq Occ
  <2> SUFFICES ASSUME NEW u \in 0 .. (t - 1) PROVE u \in Occ
    OBVIOUS
  <2>1. u \in TimelineIds /\ u < t /\ u \in Nat
    BY <1>3 DEF TimelineIds
  <2>2. u \notin Pooled /\ t <= n
    <3>1. CASE Pooled = {}
      <4>1. n < Cardinality(Activities)
        BY <1>1, <3>1, SpareTimeline
      <4>2. n < UShortLimit /\ t = n
        <5>1. Cardinality(Activities) \in Nat
          BY FS_CardinalityType DEF IInv, TimelineInv, Capacity
        <5> QED BY <4>1, <5>1, <1>1, <3>1, NewTimelineIdValue DEF IInv, TimelineInv, Capacity
      <4> QED BY <3>1, <4>2, <1>1
    <3>2. CASE Pooled # {}
      <4>1. t \in Pooled /\ \A v \in Pooled : t <= v
        BY <1>1, <3>2, NewTimelineIdValue
      <4>2. availableTimelineIds_[t] = 1 /\ t < n
        BY <1>1, <1>3, <4>1 DEF TimelineInv, PoolInv, Pooled
      <4>3. u \notin Pooled
        BY <2>1, <1>3, <4>1 DEF TimelineIds
      <4> QED BY <4>2, <4>3, <1>1, <1>3 DEF TimelineIds
    <3> QED BY <3>1, <3>2
  <2>3. availableTimelineIds_[u] = 0
    BY <1>1, <2>1, <2>2 DEF Pooled, TypeOK
  <2> QED BY <1>1, <1>2, <1>3, <2>1, <2>2, <2>3 DEF TimelineIds
<1>6. t <= Cardinality(Occ) /\ Cardinality(Occ) \in Nat
  <2>1. t \in Nat
    BY <1>3 DEF TimelineIds
  <2>2. IsFiniteSet(0 .. (n - 1)) /\ Occ \subseteq 0 .. (n - 1)
    BY <1>1, <1>2, FS_Interval DEF TimelineIds
  <2>3. IsFiniteSet(Occ)
    BY <2>2, FS_Subset
  <2>4. Cardinality(0 .. (t - 1)) <= Cardinality(Occ)
    BY <1>5, <2>3, FS_Subset
  <2>5. Cardinality(0 .. (t - 1)) = t
    <3>1. 0 \in Int /\ t - 1 \in Int
      BY <2>1
    <3>2. Cardinality(0 .. (t - 1)) = IF 0 > t - 1 THEN 0 ELSE (t - 1) - 0 + 1
      BY <3>1, FS_Interval
    <3> QED BY <2>1, <3>2
  <2> QED BY <2>3, <2>4, <2>5, FS_CardinalityType
<1> QED BY <1>3, <1>4, <1>5, <1>6 DEF Occ, TimelineIds

\* The table counts with the operator of its own instance of FiniteSets.
LEMMA RowsCardinality == ASSUME NEW S PROVE Rows!Cardinality(S) = Cardinality(S)
  BY DEF Rows!Cardinality, Cardinality

\* A new activity that brings a timeline takes the topmost free row.
LEMMA StartAcquires ==
  ASSUME IInv, CInv', NEW a, GetNewTimelineId, Starts(a, NewTimelineId)
  PROVE  Rows!Acquire(a)
<1> DEFINE t == NewTimelineId
           Occ == {HeldRow[o] : o \in Activities} \ {Null}
<1>1. /\ CInv /\ TimelineInv
      /\ a \in Activities /\ a \notin Active /\ Active' = Active \cup {a}
  BY DEF IInv, CInv, Starts
<1>2. t \in (0 .. Cardinality(Occ)) \ Occ /\ 0 .. (t - 1) \subseteq Occ
  BY <1>1, TopmostRow
<1>3. /\ \A b \in Active : timeline'[b] = timeline[b] /\ (OwnsTimeline(b)' <=> OwnsTimeline(b))
      /\ timeline'[a] = t
  BY <1>1, StartsFacts
<1>4. OwnsTimeline(a)'
  <2>1. \A b \in Active : timeline[b] # t
    BY <1>1, FreshTimeline
  <2>2. parent'[a] \in Active => timeline'[parent'[a]] # t
    BY <1>3, <2>1
  <2> QED BY <2>2, <1>1, <1>3 DEF OwnsTimeline, Starts
<1>5. HeldRow' = [HeldRow EXCEPT ![a] = t] /\ HeldRow[a] = Null
  <2>1. \A b \in Activities \ Active' : ~ OwnsTimeline(b) /\ ~ OwnsTimeline(b)'
    BY <1>1 DEF OwnsTimeline
  <2>2. ~ OwnsTimeline(a)
    BY <1>1 DEF OwnsTimeline
  <2> QED BY <2>1, <2>2, <1>1, <1>3, <1>4 DEF HeldRow
<1> HIDE DEF t, Occ
<1>6. /\ HeldRow[a] = Null
      /\ \E r \in (0 .. Cardinality(Occ)) \ Occ :
           /\ 0 .. (r - 1) \subseteq Occ
           /\ HeldRow' = [HeldRow EXCEPT ![a] = r]
  BY <1>2, <1>5
<1>7. Rows!Occupied = Occ /\ Rows!Cardinality(Occ) = Cardinality(Occ)
  BY RowsCardinality DEF Rows!Occupied, HeldRow, Occ
<1> QED
  BY <1>6, <1>7 DEF Rows!Acquire, HeldRow

\* A step that changes neither who holds a timeline nor which is a stutter.
LEMMA StartShares ==
  ASSUME CInv, CInv', NEW a, NEW p \in Active, Starts(a, timeline[p]), parent'[a] = p
  PROVE  HeldRow' = HeldRow
<1>1. a \in Activities /\ a \notin Active /\ Active' = Active \cup {a} /\ p # Null
  BY TimelineType DEF Starts
<1>2. /\ \A b \in Active : timeline'[b] = timeline[b] /\ (OwnsTimeline(b)' <=> OwnsTimeline(b))
      /\ timeline'[a] = timeline[p]
  BY StartsFacts
<1>3. ~ OwnsTimeline(a)' /\ ~ OwnsTimeline(a)
  BY <1>1, <1>2 DEF OwnsTimeline
<1>4. \A b \in Activities \ Active' : ~ OwnsTimeline(b) /\ ~ OwnsTimeline(b)'
  BY <1>1 DEF OwnsTimeline
<1> QED BY <1>1, <1>2, <1>3, <1>4 DEF HeldRow

\* An activity that held its timeline gives its row back; another had none.
LEMMA StopReleases ==
  ASSUME IInv, NEW a, Stops(a)
  PROVE  /\ OwnsTimeline(a) => Rows!Release(a)
         /\ ~ OwnsTimeline(a) => HeldRow' = HeldRow
<1>1. CInv /\ a \in Activities /\ a \in Active /\ Active' = Active \ {a}
  BY DEF IInv, CInv, Stops
<1>2. \A b \in Active \ {a} : timeline'[b] = timeline[b] /\ (OwnsTimeline(b)' <=> OwnsTimeline(b))
  BY <1>1, StopsFacts
<1>3. \A b \in Activities \ Active' : ~ OwnsTimeline(b)'
  BY DEF OwnsTimeline
<1>4. \A b \in Activities \ Active : ~ OwnsTimeline(b)
  BY DEF OwnsTimeline
<1>5. HeldRow' = [HeldRow EXCEPT ![a] = Null]
  BY <1>1, <1>2, <1>3, <1>4 DEF HeldRow
<1>6. OwnsTimeline(a) <=> HeldRow[a] # Null
  BY <1>1, OccupiedRows
<1>7. CASE OwnsTimeline(a)
  BY <1>5, <1>6, <1>7 DEF Rows!Release, HeldRow
<1>8. CASE ~ OwnsTimeline(a)
  BY <1>5, <1>6, <1>8 DEF HeldRow
<1> QED BY <1>7, <1>8

LEMMA RowsInit == Init => Rows!Init
<1> SUFFICES ASSUME Init PROVE Rows!Init
  OBVIOUS
<1>1. \A a \in Activities : ~ OwnsTimeline(a)
  BY DEF Init, TreeInit, OwnsTimeline, Active
<1>2. HeldRow = [a \in Activities |-> Null]
  BY <1>1 DEF HeldRow
<1> QED BY <1>2 DEF Rows!Init, HeldRow

\* Each event takes a row, gives one back or leaves the table as it is.
LEMMA RowsNext == IInv /\ [Next]_vars => Rows!Next \/ HeldRow' = HeldRow
<1> SUFFICES ASSUME IInv, [Next]_vars PROVE Rows!Next \/ HeldRow' = HeldRow
  OBVIOUS
<1> USE DEF Rows!Next
<1>1. CInv
  BY DEF IInv, CInv
<1>2. ASSUME NEW a \in Activities, NEW k \in Kinds, StartRoot(a, k)
      PROVE  Rows!Next
  BY <1>2, StartRootShape, StartAcquires
<1>3. ASSUME NEW a \in Activities, NEW p \in Activities, NEW k \in Kinds, StartNested(a, p, k)
      PROVE  HeldRow' = HeldRow
  BY <1>1, <1>3, StartNestedShape, StartShares
<1>4. ASSUME NEW a \in Activities, NEW p \in Activities, NEW k \in Kinds, StartFork(a, p, k)
      PROVE  Rows!Next \/ HeldRow' = HeldRow
  <2>1. CInv' /\ p \in Active /\ parent'[a] = p
    BY <1>4, StartForkShape
  <2>2. CASE ReuseCount(p) # 0
    <3>1. GetNewTimelineId /\ Starts(a, NewTimelineId)
      BY <1>4, <2>2, StartForkShape
    <3>2. Rows!Acquire(a)
      BY <2>1, <3>1, StartAcquires
    <3> QED BY <3>2
  <2>3. CASE ReuseCount(p) = 0
    <3>1. Starts(a, timeline[p])
      BY <1>4, <2>3, StartForkShape
    <3> QED BY <1>1, <2>1, <3>1, StartShares
  <2> QED BY <2>2, <2>3
<1>5. ASSUME NEW a \in Activities, StopRoot(a)
      PROVE  Rows!Next
  BY <1>5, StopRootShape, StopReleases
<1>6. ASSUME NEW a \in Activities, StopNested(a)
      PROVE  Rows!Next \/ HeldRow' = HeldRow
  BY <1>6, StopNestedShape, StopReleases
<1>7. ASSUME \/ \E a \in Activities \cup {Null} : SimpleEvent(a)
             \/ UNCHANGED vars
      PROVE  HeldRow' = HeldRow
  BY <1>7 DEF SimpleEvent, vars, treeVars, HeldRow, OwnsTimeline, timeline, Active,
              TimelineOf, LinkedContext
<1> QED BY <1>2, <1>3, <1>4, <1>5, <1>6, <1>7 DEF Next

\* The handlers of ContextBuilder implement the table of rows: an activity that
\* does not run on its parent's timeline gets the topmost free row when it
\* starts and frees it when it stops, and nothing else changes the table.
THEOREM RowsImplemented == ASSUME Capacity PROVE Spec => RowsSpec
<1>1. Init => Rows!Init
  BY RowsInit
<1>2. IInv /\ [Next]_vars => [Rows!Next]_HeldRow
  BY RowsNext
<1>3. Spec => []IInv
  BY Invariance
<1> QED BY <1>1, <1>2, <1>3, PTL DEF Spec, RowsSpec, Rows!Spec, HeldRow

-----------------------------------------------------------------------------
(* What a step does to contexts and links. *)

\* The activities B keep their place in the event stacks, their kind, the
\* context they are linked to and what that context says.
Keeps(B) ==
  \A b \in B :
    /\ b \in Active /\ b \in Active'
    /\ stack[b] \subseteq B
    /\ stack'[b] = stack[b] /\ kind'[b] = kind[b] /\ parent'[b] = parent[b]
    /\ LinkedContext(b) \in stack[b]
    /\ LinkedContext(b)' = LinkedContext(b)
    /\ contextData_'[b] = contextData_[b]
    /\ b \in invocationDescriptions_ => b \in invocationDescriptions_'
    /\ b \in activeComponents_ => b \in activeComponents_'

\* A start event leaves the activities that are active as they are.
LEMMA StartKeeps ==
  ASSUME CInv, NEW a \in Activities, a \notin Active, Active' = Active \cup {a},
         \A b \in Activities \ {a} :
            /\ stack'[b] = stack[b] /\ kind'[b] = kind[b] /\ parent'[b] = parent[b]
            /\ contextData_'[b] = contextData_[b],
         \A b \in Active : LinkedContext(b)' = LinkedContext(b),
         invocationDescriptions_ \subseteq invocationDescriptions_',
         activeComponents_ \subseteq activeComponents_'
  PROVE  Keeps(Active)
<1>1. TypeOK /\ TreeInv /\ ContextInv
  BY DEF CInv
<1>2. \A b \in Active : b \in Activities \ {a} /\ stack[b] \subseteq Active
  BY <1>1 DEF TreeInv, Active
<1>3. \A b \in Active : LinkedContext(b) \in stack[b]
  BY <1>1, LinkFacts
<1> QED BY <1>2, <1>3 DEF Keeps

\* The event that starts a root.
LEMMA StartRootStep ==
  ASSUME CInv, NEW a \in Activities, NEW k \in Kinds, StartRoot(a, k)
  PROVE  /\ Keeps(Active) /\ Active' = Active \cup {a} /\ a \notin Active
         /\ kind'[a] = k /\ parent'[a] = Null /\ stack'[a] = {a}
         /\ LinkedContext(a)' = a /\ currentContextData_' = a
         /\ contextData_'[a] = IF k \in InvocationKinds
                                 THEN InvocationContext(a, NewTimelineId)
                                 ELSE UnknownContext(NewTimelineId)
         /\ k \in InvocationKinds =>
              /\ a \in invocationDescriptions_'
              /\ a \notin mainComponentCache_ => a \in activeComponents_'
<1>1. CInv /\ TypeOK /\ TreeInv
  BY DEF CInv
<1>2. BeginRoot(a, k)
  BY DEF StartRoot
<1>3. Active' = Active \cup {a} /\ a \notin Active
  BY <1>1, <1>2, BeginRootInv
<1>4. /\ kind'[a] = k /\ parent'[a] = Null /\ stack'[a] = {a}
      /\ \A b \in Activities \ {a} :
           stack'[b] = stack[b] /\ kind'[b] = kind[b] /\ parent'[b] = parent[b]
  BY <1>1, <1>2, <1>3 DEF BeginRoot, TreeTypeOK, TreeInv
<1>5. /\ activityContextLinks_' = [activityContextLinks_ EXCEPT ![a] = NewLink(a)]
      /\ currentContextData_' = a
      /\ contextData_' = [contextData_ EXCEPT ![a] = IF k \in InvocationKinds
                                                       THEN InvocationContext(a, NewTimelineId)
                                                       ELSE UnknownContext(NewTimelineId)]
  BY DEF StartRoot
<1>6. /\ LinkedContext(a)' = a
      /\ \A b \in Active : LinkedContext(b)' = LinkedContext(b)
  BY <1>1, <1>3, <1>5 DEF LinkedContext, NewLink, TypeOK, Active
<1>7. /\ invocationDescriptions_ \subseteq invocationDescriptions_'
      /\ activeComponents_ \subseteq activeComponents_'
      /\ k \in InvocationKinds =>
           /\ a \in invocationDescriptions_'
           /\ a \notin mainComponentCache_ => a \in activeComponents_'
  BY DEF StartRoot, CacheInvocationStrings, stringVars
<1>8. /\ contextData_'[a] = IF k \in InvocationKinds THEN InvocationContext(a, NewTimelineId)
                                                      ELSE UnknownContext(NewTimelineId)
      /\ \A b \in Activities \ {a} : contextData_'[b] = contextData_[b]
  BY <1>1, <1>5 DEF TypeOK
<1>9. Keeps(Active)
  BY <1>1, <1>3, <1>4, <1>6, <1>7, <1>8, StartKeeps
<1> QED BY <1>3, <1>4, <1>5, <1>6, <1>7, <1>8, <1>9

\* The event that starts a child that is not a fork point.
LEMMA StartNestedStep ==
  ASSUME CInv, NEW a \in Activities, NEW p \in Activities, NEW k \in Kinds,
         StartNested(a, p, k)
  PROVE  /\ Keeps(Active) /\ Active' = Active \cup {a} /\ a \notin Active /\ p \in Active
         /\ kind'[a] = k /\ parent'[a] = p /\ stack'[a] = stack[p] \cup {a}
         /\ LinkedContext(a)' = (IF k \in InvocationKinds THEN a ELSE LinkedContext(p))
         /\ currentContextData_' = LinkedContext(a)'
         /\ k \in InvocationKinds =>
              /\ contextData_'[a] = InvocationContext(a, TimelineOf(p))
              /\ a \in invocationDescriptions_'
              /\ a \notin mainComponentCache_ => a \in activeComponents_'
         /\ k # "CompilerPass"
<1>1. CInv /\ TypeOK /\ TreeInv /\ ContextInv
  BY DEF CInv
<1>2. BeginNested(a, p, k)
  BY DEF StartNested
<1>3. Active' = Active \cup {a} /\ a \notin Active /\ p \in Active /\ a # p
  BY <1>1, <1>2, BeginNestedInv
<1>4. /\ kind'[a] = k /\ parent'[a] = p /\ stack'[a] = stack[p] \cup {a}
      /\ \A b \in Activities \ {a} :
           stack'[b] = stack[b] /\ kind'[b] = kind[b] /\ parent'[b] = parent[b]
  BY <1>1, <1>2, <1>3 DEF BeginNested, TreeTypeOK, TreeInv
<1>5. /\ activityContextLinks_' =
           [activityContextLinks_ EXCEPT ![p] = ReusedOnceMore(p),
                                         ![a] = NewLink(NestedContext(a, p, k))]
      /\ currentContextData_' = NestedContext(a, p, k)
      /\ k \in InvocationKinds =>
           contextData_' = [contextData_ EXCEPT ![a] = InvocationContext(a, TimelineOf(p))]
      /\ k \notin InvocationKinds => contextData_' = contextData_
  BY DEF StartNested
<1>6. ReusedOnceMore(p).LinkedContext = LinkedContext(p)
  BY <1>1, <1>3, ReuseTypes
<1>7. /\ LinkedContext(a)' = NestedContext(a, p, k)
      /\ \A b \in Active : LinkedContext(b)' = LinkedContext(b)
  BY <1>1, <1>3, <1>5, <1>6 DEF LinkedContext, NewLink, TypeOK, Active
<1>8. /\ invocationDescriptions_ \subseteq invocationDescriptions_'
      /\ activeComponents_ \subseteq activeComponents_'
      /\ k \in InvocationKinds =>
           /\ a \in invocationDescriptions_'
           /\ a \notin mainComponentCache_ => a \in activeComponents_'
  BY DEF StartNested, CacheInvocationStrings, stringVars
<1>9. /\ k \in InvocationKinds => contextData_'[a] = InvocationContext(a, TimelineOf(p))
      /\ \A b \in Activities \ {a} : contextData_'[b] = contextData_[b]
  BY <1>1, <1>5 DEF TypeOK
<1>10. Keeps(Active)
  BY <1>1, <1>3, <1>4, <1>7, <1>8, <1>9, StartKeeps
<1>11. k # "CompilerPass"
  <2>1. ASSUME k = "CompilerPass" PROVE FALSE
    <3>1. kind[p] \in Kinds /\ k \in ChildKinds[kind[p]]
      BY <1>1, <1>2, <1>3 DEF BeginNested, TypeOK, TreeTypeOK, Active
    <3>2. kind[p] = "Compiler"
      BY <2>1, <3>1
    <3> QED BY <2>1, <3>2 DEF StartNested, IsForkPoint
  <2> QED BY <2>1
<1> QED BY <1>3, <1>4, <1>5, <1>7, <1>8, <1>9, <1>10, <1>11 DEF NestedContext

\* The event that starts a child at a fork point.
LEMMA StartForkStep ==
  ASSUME CInv, NEW a \in Activities, NEW p \in Activities, NEW k \in Kinds,
         StartFork(a, p, k)
  PROVE  /\ Keeps(Active) /\ Active' = Active \cup {a} /\ a \notin Active /\ p \in Active
         /\ kind'[a] = k /\ parent'[a] = p /\ stack'[a] = stack[p] \cup {a}
         /\ LinkedContext(a)' = a /\ currentContextData_' = a
         /\ k \in {"CompilerPass", "Thread"}
         /\ \E t \in TimelineIds : contextData_'[a] = ForkContext(a, p, k, t)
         /\ k = "CompilerPass" => a \in activeComponents_'
<1>1. CInv /\ TypeOK /\ TreeInv /\ ContextInv
  BY DEF CInv
<1>2. BeginNested(a, p, k)
  BY DEF StartFork
<1>3. Active' = Active \cup {a} /\ a \notin Active /\ p \in Active /\ a # p
  BY <1>1, <1>2, BeginNestedInv
<1>4. /\ kind'[a] = k /\ parent'[a] = p /\ stack'[a] = stack[p] \cup {a}
      /\ \A b \in Activities \ {a} :
           stack'[b] = stack[b] /\ kind'[b] = kind[b] /\ parent'[b] = parent[b]
  BY <1>1, <1>2, <1>3 DEF BeginNested, TreeTypeOK, TreeInv
<1>5. PICK t \in TimelineIds :
        contextData_' = [contextData_ EXCEPT ![a] = ForkContext(a, p, k, t)]
  <2>1. NewTimelineId \in TimelineIds /\ TimelineOf(p) \in TimelineIds
    BY <1>1, <1>3, NewTimelineIdValue, LinkFacts
  <2> QED BY <2>1 DEF StartFork
<1>6. ReusedOnceMore(p).LinkedContext = LinkedContext(p)
  BY <1>1, <1>3, ReuseTypes
<1>7. LinkedContext(a)' = a /\ \A b \in Active : LinkedContext(b)' = LinkedContext(b)
  <2>1. \/ activityContextLinks_' = [activityContextLinks_ EXCEPT ![a] = NewLink(a)]
        \/ activityContextLinks_' =
             [activityContextLinks_ EXCEPT ![p] = ReusedOnceMore(p), ![a] = NewLink(a)]
    BY DEF StartFork
  <2> QED BY <1>1, <1>3, <1>6, <2>1 DEF LinkedContext, NewLink, TypeOK, Active
<1>8. /\ invocationDescriptions_ \subseteq invocationDescriptions_'
      /\ activeComponents_ \subseteq activeComponents_'
      /\ k = "CompilerPass" => a \in activeComponents_'
      /\ currentContextData_' = a
      /\ k \in {"CompilerPass", "Thread"}
  BY DEF StartFork, IsForkPoint
<1>9. /\ contextData_'[a] = ForkContext(a, p, k, t)
      /\ \A b \in Activities \ {a} : contextData_'[b] = contextData_[b]
  BY <1>1, <1>5 DEF TypeOK
<1>10. Keeps(Active)
  BY <1>1, <1>3, <1>4, <1>7, <1>8, <1>9, StartKeeps
<1> QED BY <1>3, <1>4, <1>7, <1>8, <1>9, <1>10

\* The event that stops an activity.
LEMMA StopStep ==
  ASSUME CInv, NEW a \in Activities, StopRoot(a) \/ StopNested(a)
  PROVE  /\ Keeps(Active \ {a}) /\ Active' = Active \ {a}
         /\ GetContextData' = Null
<1>1. CInv /\ TypeOK /\ TreeInv /\ ContextInv
  BY DEF CInv
<1>2. End(a) /\ EraseContext(a) /\ ForgetCurrentContext
  BY DEF StopRoot, StopNested
<1>3. /\ Active' = Active \ {a} /\ a \in Active
      /\ \A b \in Active \ {a} : a \notin stack[b] /\ parent[b] # a
  BY <1>1, <1>2, EndInv
<1>4. \A b \in Active \ {a} : b \in Activities \ {a} /\ stack[b] \subseteq Active \ {a}
  BY <1>1, <1>3 DEF TreeInv, Active
<1>5. \A b \in Activities \ {a} :
         stack'[b] = stack[b] /\ kind'[b] = kind[b] /\ parent'[b] = parent[b]
  BY <1>1, <1>2 DEF End, TypeOK, TreeTypeOK
<1>6. \A b \in Active \ {a} : LinkedContext(b)' = LinkedContext(b)
  <2>1. CASE StopRoot(a)
    BY <2>1, <1>1 DEF StopRoot, LinkedContext, TypeOK, Active
  <2>2. CASE StopNested(a)
    <3>1. parent[a] \in Active
      BY <2>2, <1>1, <1>3 DEF StopNested, TreeInv
    <3>2. ReusedOnceLess(parent[a]).LinkedContext = LinkedContext(parent[a])
      BY <3>1, <1>1, ReuseTypes
    <3>3. \/ activityContextLinks_' = [activityContextLinks_ EXCEPT ![a] = Null]
          \/ activityContextLinks_' =
               [activityContextLinks_ EXCEPT ![parent[a]] = ReusedOnceLess(parent[a]), ![a] = Null]
      BY <2>2 DEF StopNested
    <3> QED BY <1>1, <3>1, <3>2, <3>3 DEF LinkedContext, TypeOK, Active
  <2> QED BY <2>1, <2>2
<1>7. \A b \in Active : LinkedContext(b) \in stack[b]
  BY <1>1, LinkFacts
<1>8. /\ \A b \in Activities \ {a} : contextData_'[b] = contextData_[b]
      /\ \A b \in Activities \ {a} :
           /\ b \in invocationDescriptions_ => b \in invocationDescriptions_'
           /\ b \in activeComponents_ => b \in activeComponents_'
  BY <1>1, <1>2 DEF EraseContext, TypeOK
<1>9. Keeps(Active \ {a})
  BY <1>3, <1>4, <1>5, <1>6, <1>7, <1>8 DEF Keeps
<1>10. GetContextData' = Null
  BY <1>2 DEF ForgetCurrentContext, GetContextData
<1> QED BY <1>3, <1>9, <1>10

-----------------------------------------------------------------------------
(* Contexts do not change under an activity. *)

\* Activities that keep their place keep a context they are linked to.
LEMMA KeptContext ==
  ASSUME NEW B, Keeps(B), NEW b \in B
  PROVE  /\ LinkedContext(b)' = LinkedContext(b)
         /\ contextData_'[LinkedContext(b)] = contextData_[LinkedContext(b)]
         /\ \A x \in stack[b] : kind'[x] = kind[x] /\ parent'[x] = parent[x]
<1>1. LinkedContext(b) \in B /\ stack[b] \subseteq B
  BY DEF Keeps
<1> QED BY <1>1 DEF Keeps

LEMMA StableStart ==
  ASSUME NEW a, Keeps(Active), Active' = Active \cup {a},
         LinkedContext(a)' \in Activities, currentContextData_' = LinkedContext(a)'
  PROVE  ContextStable
<1>1. GetContextData' = LinkedContext(a)'
  BY DEF GetContextData
<1>2. \A b \in Active : /\ LinkedContext(b)' = LinkedContext(b)
                        /\ contextData_'[LinkedContext(b)] = contextData_[LinkedContext(b)]
  BY KeptContext
<1> QED BY <1>1, <1>2 DEF ContextStable

LEMMA StableStep ==
  ASSUME CInv, CInv', [Next]_vars
  PROVE  ContextStable
<1>1. CInv /\ TypeOK /\ ContextInv /\ TypeOK' /\ ContextInv'
  BY DEF CInv
<1>2. \A a \in Active : LinkedContext(a) \in Activities
  BY <1>1, LinkFacts
<1>3. ASSUME NEW a \in Activities, NEW k \in Kinds, StartRoot(a, k)
      PROVE  ContextStable
  BY <1>3, StartRootStep, StableStart
<1>4. ASSUME NEW a \in Activities, NEW p \in Activities, NEW k \in Kinds, StartNested(a, p, k)
      PROVE  ContextStable
  <2>1. /\ Keeps(Active) /\ Active' = Active \cup {a} /\ p \in Active
        /\ LinkedContext(a)' = (IF k \in InvocationKinds THEN a ELSE LinkedContext(p))
        /\ currentContextData_' = LinkedContext(a)'
    BY <1>4, StartNestedStep
  <2> QED BY <1>2, <2>1, StableStart
<1>5. ASSUME NEW a \in Activities, NEW p \in Activities, NEW k \in Kinds, StartFork(a, p, k)
      PROVE  ContextStable
  BY <1>5, StartForkStep, StableStart
<1>6. ASSUME NEW a \in Activities, StopRoot(a) \/ StopNested(a)
      PROVE  ContextStable
  <2>1. Keeps(Active \ {a}) /\ Active' = Active \ {a} /\ GetContextData' = Null
    BY <1>6, StopStep
  <2>2. \A b \in Active \ {a} :
          /\ LinkedContext(b)' = LinkedContext(b)
          /\ contextData_'[LinkedContext(b)] = contextData_[LinkedContext(b)]
    BY <2>1, KeptContext
  <2> QED BY <2>1, <2>2 DEF ContextStable
<1>7. ASSUME \/ \E a \in Activities \cup {Null} : SimpleEvent(a)
             \/ UNCHANGED vars
      PROVE  ContextStable
  <2>1. Active' = Active /\ contextData_' = contextData_
        /\ \A b \in Activities : LinkedContext(b)' = LinkedContext(b)
    BY <1>7 DEF SimpleEvent, vars, treeVars, Active, LinkedContext
  <2> QED BY <2>1 DEF ContextStable
<1> QED BY <1>3, <1>4, <1>5, <1>6, <1>7 DEF Next

\* The context the views get at the start of an activity is its own, they get
\* none when it stops, and in between nothing in its context changes.
THEOREM ContextsStayStable == Spec => ContextsStable
<1>1. CInv /\ CInv' /\ [Next]_vars => [ContextStable]_vars
  BY StableStep
<1> QED BY <1>1, ContextInvariance, PTL DEF Spec, ContextsStable

-----------------------------------------------------------------------------
(* Every activity is attributed to what it works for. *)

\* The invocations and passes of a stack are the same before and after.
LEMMA SameActivities ==
  ASSUME NEW B, Keeps(B), NEW b \in B
  PROVE  /\ stack'[b] \cap Invocations' = stack[b] \cap Invocations
         /\ stack'[b] \cap NamingActivities' = stack[b] \cap NamingActivities
<1>1. \A x \in stack[b] : /\ x \in B /\ x \in Active /\ x \in Active'
                           /\ kind'[x] = kind[x] /\ parent'[x] = parent[x]
  BY DEF Keeps
<1>2. stack'[b] = stack[b]
  BY DEF Keeps
<1> QED BY <1>1, <1>2 DEF Invocations, NamingActivities

\* What Attribution says of the invocation i and of the component r that the
\* context of a names.
NamesInvocation(i, a) ==
  IF i = Null
    THEN stack[a] \cap Invocations = {}
    ELSE IsInnermost(i, Invocations, a) /\ i \in invocationDescriptions_

NamesComponent(r, a) ==
  IF r.cache = "literal"
    THEN stack[a] \cap NamingActivities = {}
    ELSE /\ IsInnermost(r.key, NamingActivities, a)
         /\ r.key \in IF r.cache = "main" THEN mainComponentCache_ ELSE activeComponents_

Attributed(a) ==
  /\ NamesInvocation(contextData_[LinkedContext(a)].Invocation, a)
  /\ NamesComponent(contextData_[LinkedContext(a)].Component, a)

LEMMA AttributionOfEach == Attribution <=> \A a \in Active : Attributed(a)
  BY DEF Attribution, Attributed, NamesInvocation, NamesComponent

\* What is right for b stays right for a, whose stack has the same invocations
\* and passes, as long as b keeps its place.
LEMMA InvocationKept ==
  ASSUME NEW B, Keeps(B), NEW b \in B, NEW a, NEW i, NamesInvocation(i, b),
         stack'[a] \cap Invocations' = stack[b] \cap Invocations
  PROVE  NamesInvocation(i, a)'
<1>1. \A x \in B : stack'[x] = stack[x] /\ stack[x] \subseteq B
  BY DEF Keeps
<1>2. \A x \in stack[b] :
        x \in B /\ (x \in invocationDescriptions_ => x \in invocationDescriptions_')
  BY DEF Keeps
<1>3. IsInnermost(i, Invocations, b) => IsInnermost(i, Invocations, a)' /\ i \in stack[b]
  BY <1>1, <1>2 DEF IsInnermost
<1> QED BY <1>2, <1>3 DEF NamesInvocation

LEMMA ComponentKept ==
  ASSUME NEW B, Keeps(B), NEW b \in B, NEW a, NEW r, NamesComponent(r, b),
         mainComponentCache_' = mainComponentCache_,
         stack'[a] \cap NamingActivities' = stack[b] \cap NamingActivities
  PROVE  NamesComponent(r, a)'
<1>1. \A x \in B : stack'[x] = stack[x] /\ stack[x] \subseteq B
  BY DEF Keeps
<1>2. \A x \in stack[b] : x \in B /\ (x \in activeComponents_ => x \in activeComponents_')
  BY DEF Keeps
<1>3. IsInnermost(r.key, NamingActivities, b) =>
        IsInnermost(r.key, NamingActivities, a)' /\ r.key \in stack[b]
  BY <1>1, <1>2 DEF IsInnermost
<1> QED BY <1>2, <1>3 DEF NamesComponent

\* An activity that keeps its place stays attributed.
LEMMA AttributedKept ==
  ASSUME NEW B, Keeps(B), mainComponentCache_' = mainComponentCache_, NEW b \in B,
         Attributed(b)
  PROVE  Attributed(b)'
<1>1. /\ LinkedContext(b)' = LinkedContext(b)
      /\ contextData_'[LinkedContext(b)] = contextData_[LinkedContext(b)]
  BY KeptContext
<1>2. /\ stack'[b] \cap Invocations' = stack[b] \cap Invocations
      /\ stack'[b] \cap NamingActivities' = stack[b] \cap NamingActivities
  BY SameActivities
<1>3. PICK i, r : /\ i = contextData_[LinkedContext(b)].Invocation
                  /\ r = contextData_[LinkedContext(b)].Component
  OBVIOUS
<1>4. NamesInvocation(i, b) /\ NamesComponent(r, b)
  BY <1>3 DEF Attributed
<1>5. NamesInvocation(i, b)' /\ NamesComponent(r, b)'
  BY <1>2, <1>4, InvocationKept, ComponentKept
<1> QED BY <1>1, <1>3, <1>5 DEF Attributed, NamesInvocation, NamesComponent

\* An invocation names itself.
LEMMA InvocationNamesItself ==
  ASSUME NEW a \in Activities, NEW t, a \in Active', a \in stack'[a],
         kind'[a] \in InvocationKinds, a \in invocationDescriptions_',
         mainComponentCache_' = mainComponentCache_,
         a \notin mainComponentCache_ => a \in activeComponents_',
         LinkedContext(a)' = a, contextData_'[a] = InvocationContext(a, t)
  PROVE  Attributed(a)'
<1>1. a # Null
  OBVIOUS
<1>2. /\ contextData_'[a].Invocation = a
      /\ contextData_'[a].Component.key = a
      /\ contextData_'[a].Component.cache = IF a \in mainComponentCache_ THEN "main" ELSE "active"
  BY DEF InvocationContext
<1>3. IsInnermost(a, Invocations, a)' /\ IsInnermost(a, NamingActivities, a)'
  BY DEF IsInnermost, NamingActivities, Invocations
<1>4. NamesInvocation(a, a)'
  BY <1>1, <1>3 DEF NamesInvocation
<1>5. PICK r : r = contextData_'[a].Component
  OBVIOUS
<1>6. NamesComponent(r, a)'
  BY <1>2, <1>3, <1>5 DEF NamesComponent
<1> QED BY <1>2, <1>4, <1>5, <1>6 DEF Attributed, NamesInvocation, NamesComponent

\* What a child at a fork point takes over from its parent's context.
LEMMA ForkContextParts ==
  ASSUME CInv, NEW a \in Activities, NEW p \in Active, NEW k, NEW t \in TimelineIds
  PROVE  /\ ForkContext(a, p, k, t).Invocation = contextData_[LinkedContext(p)].Invocation
         /\ ForkContext(a, p, k, t).Component =
              IF k = "CompilerPass" THEN [cache |-> "active", key |-> a]
                                    ELSE contextData_[LinkedContext(p)].Component
<1> DEFINE c == contextData_[LinkedContext(p)]
           d == [c EXCEPT !.TimelineId = t]
           r == [cache |-> "active", key |-> a]
<1>1. c \in ContextData
  BY LinkFacts DEF CInv
<1>2. ForkContext(a, p, k, t) = IF k = "CompilerPass" THEN [d EXCEPT !.Component = r] ELSE d
  BY DEF ForkContext
<1> HIDE DEF c, r
<1>3. d \in ContextData /\ d.Invocation = c.Invocation /\ d.Component = c.Component
  BY <1>1 DEF ContextData
<1> HIDE DEF d
<1>4. /\ [d EXCEPT !.Component = r].Invocation = d.Invocation
      /\ [d EXCEPT !.Component = r].Component = r
  BY <1>3 DEF ContextData
<1> QED BY <1>2, <1>3, <1>4 DEF c, r

LEMMA AttributionStep ==
  ASSUME CInv, Attribution, [Next]_vars
  PROVE  Attribution'
<1>1. CInv /\ TypeOK /\ TreeInv /\ \A b \in Active : b \in Activities /\ Attributed(b)
  BY AttributionOfEach DEF CInv, Active
<1>2. Attribution' <=> \A a \in Active' : Attributed(a)'
  BY DEF Attribution, Attributed, NamesInvocation, NamesComponent
<1>3. ASSUME NEW a \in Activities, Keeps(Active), Active' = Active \cup {a},
             mainComponentCache_' = mainComponentCache_, Attributed(a)'
      PROVE  Attribution'
  BY <1>1, <1>2, <1>3, AttributedKept
<1>4. ASSUME NEW a \in Activities, NEW k \in Kinds, StartRoot(a, k)
      PROVE  Attribution'
  <2>1. /\ Keeps(Active) /\ Active' = Active \cup {a} /\ a \notin Active
        /\ kind'[a] = k /\ parent'[a] = Null /\ stack'[a] = {a}
        /\ LinkedContext(a)' = a
        /\ contextData_'[a] = IF k \in InvocationKinds
                                THEN InvocationContext(a, NewTimelineId)
                                ELSE UnknownContext(NewTimelineId)
        /\ k \in InvocationKinds =>
             /\ a \in invocationDescriptions_'
             /\ a \notin mainComponentCache_ => a \in activeComponents_'
    BY <1>4, StartRootStep
  <2>2. mainComponentCache_' = mainComponentCache_
    BY <1>4 DEF StartRoot
  <2>3. CASE k \in InvocationKinds
    <3>1. Attributed(a)'
      BY <2>1, <2>2, <2>3, InvocationNamesItself
    <3> QED BY <1>3, <2>1, <2>2, <3>1
  <2>4. CASE k \notin InvocationKinds
    <3>1. /\ contextData_'[a].Invocation = Null
          /\ contextData_'[a].Component.cache = "literal"
      BY <2>1, <2>4 DEF UnknownContext
    <3>2. stack'[a] \cap Invocations' = {} /\ stack'[a] \cap NamingActivities' = {}
      BY <2>1, <2>4 DEF Invocations, NamingActivities
    <3>3. Attributed(a)'
      BY <2>1, <3>1, <3>2 DEF Attributed, NamesInvocation, NamesComponent
    <3> QED BY <1>3, <2>1, <2>2, <3>3
  <2> QED BY <2>3, <2>4
<1>5. ASSUME NEW a \in Activities, NEW p \in Activities, NEW k \in Kinds, StartNested(a, p, k)
      PROVE  Attribution'
  <2>1. /\ Keeps(Active) /\ Active' = Active \cup {a} /\ a \notin Active /\ p \in Active
        /\ kind'[a] = k /\ parent'[a] = p /\ stack'[a] = stack[p] \cup {a}
        /\ LinkedContext(a)' = (IF k \in InvocationKinds THEN a ELSE LinkedContext(p))
        /\ k \in InvocationKinds =>
             /\ contextData_'[a] = InvocationContext(a, TimelineOf(p))
             /\ a \in invocationDescriptions_'
             /\ a \notin mainComponentCache_ => a \in activeComponents_'
        /\ k # "CompilerPass"
    BY <1>5, StartNestedStep
  <2>2. mainComponentCache_' = mainComponentCache_
    BY <1>5 DEF StartNested
  <2>3. CASE k \in InvocationKinds
    <3>1. Attributed(a)'
      BY <2>1, <2>2, <2>3, InvocationNamesItself
    <3> QED BY <1>3, <2>1, <2>2, <3>1
  <2>4. CASE k \notin InvocationKinds
    <3>1. /\ LinkedContext(a)' = LinkedContext(p)
          /\ contextData_'[LinkedContext(p)] = contextData_[LinkedContext(p)]
      BY <2>1, <2>4, KeptContext
    <3>2. /\ stack'[a] \cap Invocations' = stack[p] \cap Invocations
          /\ stack'[a] \cap NamingActivities' = stack[p] \cap NamingActivities
      <4>1. a \notin Invocations' /\ a \notin NamingActivities'
        BY <2>1, <2>4 DEF Invocations, NamingActivities
      <4>2. stack'[p] = stack[p]
        BY <2>1 DEF Keeps
      <4> QED BY <2>1, <4>1, <4>2, SameActivities
    <3>3. PICK i, r : /\ i = contextData_[LinkedContext(p)].Invocation
                      /\ r = contextData_[LinkedContext(p)].Component
      OBVIOUS
    <3>4. NamesInvocation(i, p) /\ NamesComponent(r, p)
      BY <1>1, <2>1, <3>3 DEF Attributed
    <3>5. NamesInvocation(i, a)' /\ NamesComponent(r, a)'
      BY <2>1, <2>2, <3>2, <3>4, InvocationKept, ComponentKept
    <3>6. Attributed(a)'
      BY <3>1, <3>3, <3>5 DEF Attributed, NamesInvocation, NamesComponent
    <3> QED BY <1>3, <2>1, <2>2, <3>6
  <2> QED BY <2>3, <2>4
<1>6. ASSUME NEW a \in Activities, NEW p \in Activities, NEW k \in Kinds, StartFork(a, p, k)
      PROVE  Attribution'
  <2>1. /\ Keeps(Active) /\ Active' = Active \cup {a} /\ a \notin Active /\ p \in Active
        /\ kind'[a] = k /\ parent'[a] = p /\ stack'[a] = stack[p] \cup {a}
        /\ LinkedContext(a)' = a
        /\ k \in {"CompilerPass", "Thread"}
        /\ k = "CompilerPass" => a \in activeComponents_'
    BY <1>6, StartForkStep
  <2>2. PICK t \in TimelineIds : contextData_'[a] = ForkContext(a, p, k, t)
    BY <1>6, StartForkStep
  <2>3. mainComponentCache_' = mainComponentCache_
    BY <1>6 DEF StartFork
  <2>4. PICK i, r : /\ i = contextData_[LinkedContext(p)].Invocation
                    /\ r = contextData_[LinkedContext(p)].Component
    OBVIOUS
  <2>5. NamesInvocation(i, p) /\ NamesComponent(r, p)
    BY <1>1, <2>1, <2>4 DEF Attributed
  <2>6. /\ contextData_'[a].Invocation = i
        /\ contextData_'[a].Component =
             IF k = "CompilerPass" THEN [cache |-> "active", key |-> a] ELSE r
    BY <1>1, <2>1, <2>2, <2>4, ForkContextParts
  <2>7. /\ stack'[a] \cap Invocations' = stack[p] \cap Invocations
        /\ k = "Thread" => stack'[a] \cap NamingActivities' = stack[p] \cap NamingActivities
    <3>1. a \notin Invocations' /\ (k = "Thread" => a \notin NamingActivities')
      BY <2>1 DEF Invocations, NamingActivities, InvocationKinds
    <3>2. stack'[p] = stack[p]
      BY <2>1 DEF Keeps
    <3> QED BY <2>1, <3>1, <3>2, SameActivities
  <2>8. NamesInvocation(i, a)'
    BY <2>1, <2>5, <2>7, InvocationKept
  <2>9. PICK q : q = contextData_'[a].Component
    OBVIOUS
  <2>10. NamesComponent(q, a)'
    <3>1. CASE k = "Thread"
      <4>1. q = r
        BY <2>6, <2>9, <3>1
      <4>2. NamesComponent(r, a)'
        BY <2>1, <2>3, <2>5, <2>7, <3>1, ComponentKept
      <4> QED BY <4>1, <4>2 DEF NamesComponent
    <3>2. CASE k = "CompilerPass"
      <4>1. q.cache = "active" /\ q.key = a
        BY <2>6, <2>9, <3>2
      <4>2. p # Null /\ a \in NamingActivities'
        BY <1>1, <2>1, <3>2 DEF NamingActivities
      <4>3. IsInnermost(a, NamingActivities, a)'
        BY <2>1, <4>2 DEF IsInnermost
      <4> QED BY <2>1, <3>2, <4>1, <4>3 DEF NamesComponent
    <3> QED BY <2>1, <3>1, <3>2
  <2>11. Attributed(a)'
    BY <2>1, <2>6, <2>8, <2>9, <2>10 DEF Attributed, NamesInvocation, NamesComponent
  <2> QED BY <1>3, <2>1, <2>3, <2>11
<1>7. ASSUME NEW a \in Activities, StopRoot(a) \/ StopNested(a)
      PROVE  Attribution'
  <2>1. Keeps(Active \ {a}) /\ Active' = Active \ {a}
    BY <1>7, StopStep
  <2>2. mainComponentCache_' = mainComponentCache_
    BY <1>7 DEF StopRoot, StopNested
  <2> QED BY <1>1, <1>2, <2>1, <2>2, AttributedKept
<1>8. ASSUME \/ \E a \in Activities \cup {Null} : SimpleEvent(a)
             \/ UNCHANGED vars
      PROVE  Attribution'
  BY <1>8 DEF SimpleEvent, vars, treeVars, stringVars, Attribution, LinkedContext, Active,
              Invocations, NamingActivities, IsInnermost
<1> QED BY <1>4, <1>5, <1>6, <1>7, <1>8 DEF Next

\* A component string is cached for an invocation only when the first pass has
\* found none.
OwnNames ==
  \A a \in activeComponents_ : kind[a] \in InvocationKinds => a \notin mainComponentCache_

LEMMA OwnNamesStep ==
  ASSUME CInv, OwnNames, [Next]_vars
  PROVE  OwnNames'
<1>1. TypeOK /\ TreeTypeOK /\ activeComponents_ \subseteq Activities
  BY DEF CInv, TypeOK
<1>2. ASSUME NEW a \in Activities, NEW p \in Activities, NEW k \in Kinds,
             StartRoot(a, k) \/ StartNested(a, p, k) \/ StartFork(a, p, k)
      PROVE  OwnNames'
  <2>1. kind' = [kind EXCEPT ![a] = k] /\ mainComponentCache_' = mainComponentCache_
    BY <1>2 DEF StartRoot, StartNested, StartFork, BeginRoot, BeginNested
  <2>2. \A b \in activeComponents_' : b \in activeComponents_ \/ b = a
    BY <1>2 DEF StartRoot, StartNested, StartFork, CacheInvocationStrings, stringVars
  <2>3. a \in activeComponents_ => kind[a] \in InvocationKinds \cup {"CompilerPass"}
    BY DEF CInv, ContextInv
  <2>4. kind[a] = Null /\ Null \notin Kinds
    BY <1>2, NullAssumption DEF StartRoot, StartNested, StartFork, BeginRoot, BeginNested
  <2>5. a \notin activeComponents_
    BY <2>3, <2>4 DEF InvocationKinds, Kinds
  <2>6. a \in activeComponents_' /\ k \in InvocationKinds => a \notin mainComponentCache_
    BY <1>2, <2>5 DEF StartRoot, StartNested, StartFork, CacheInvocationStrings, stringVars,
                      InvocationKinds
  <2>7. \A b \in activeComponents_ : b # a /\ kind'[b] = kind[b]
    BY <1>1, <2>1, <2>5 DEF TreeTypeOK
  <2>8. kind'[a] = k
    BY <1>1, <2>1 DEF TreeTypeOK
  <2> QED BY <2>1, <2>2, <2>6, <2>7, <2>8 DEF OwnNames
<1>3. ASSUME NEW a \in Activities, StopRoot(a) \/ StopNested(a)
      PROVE  OwnNames'
  <2>1. /\ kind' = [kind EXCEPT ![a] = Null]
        /\ activeComponents_' \subseteq activeComponents_
        /\ mainComponentCache_' = mainComponentCache_
    BY <1>3 DEF StopRoot, StopNested, End, EraseContext
  <2>2. Null \notin InvocationKinds
    BY NullAssumption DEF InvocationKinds, Kinds
  <2> QED BY <1>1, <2>1, <2>2 DEF OwnNames, TreeTypeOK
<1>4. ASSUME (\E a \in Activities \cup {Null} : SimpleEvent(a)) \/ UNCHANGED vars
      PROVE  OwnNames'
  BY <1>4 DEF SimpleEvent, vars, treeVars, stringVars, OwnNames
<1> QED BY <1>2, <1>3, <1>4 DEF Next

\* Whatever happens in a pass, the contexts are those of the event stacks, and
\* activities that go on keep theirs.
AttributionInv == CInv /\ Attribution /\ OwnNames

LEMMA AttributionInit == Init => AttributionInv
<1>1. Init => Attribution /\ OwnNames
  BY DEF Init, TreeInit, Attribution, OwnNames, Active
<1> QED BY <1>1, InitContexts DEF AttributionInv

LEMMA AttributionNext ==
  ASSUME AttributionInv, [Next]_vars
  PROVE  AttributionInv' /\ ContextStable
<1>1. CInv'
  BY NextContexts DEF AttributionInv
<1>2. Attribution' /\ OwnNames'
  BY AttributionStep, OwnNamesStep DEF AttributionInv
<1>3. ContextStable
  BY <1>1, StableStep DEF AttributionInv
<1> QED BY <1>1, <1>2, <1>3 DEF AttributionInv

\* Every activity is attributed to the innermost invocation of its event stack
\* and to the component of its innermost invocation or compiler pass, in names
\* that have not been erased.
THEOREM AttributionHolds == Spec => []Attribution
<1>1. AttributionInv /\ [Next]_vars => AttributionInv'
  BY AttributionNext
<1>2. AttributionInv => Attribution
  BY DEF AttributionInv
<1> QED BY <1>1, <1>2, AttributionInit, PTL DEF Spec

=============================================================================

------------------------- MODULE RelogSessionProofs -------------------------
(***************************************************************************)
(* The properties of FirstPass and of RelogSession, for traces of any      *)
(* length and any interleaving of the activities of a build.               *)
(*                                                                         *)
(* The first pass fills the caches.  What they hold is tied to what the    *)
(* events said (FirstPassInv) and to what the trace tells (RecordsTrace).  *)
(* The later passes go through the same event stacks (StacksReplayed), so  *)
(* that a context, the times and the place of a file, which the views find *)
(* on the stack and in the caches, are those of the trace (RightEvent), and *)
(* what has been injected is what the part of the trace that was relogged  *)
(* calls for (ShownInv).  SessionInv puts it together.                     *)
(***************************************************************************)
EXTENDS RelogSession, ActivityTreeProofs, SequenceTheorems

-----------------------------------------------------------------------------
(* What the relogging pass may count on after the first pass.  Both need what *)
(* the properties do not say: that a record of an activity is about the one   *)
(* activity that had this id, and that a part which is itself a leaf does not *)
(* exist, as files and functions do not nest.                                 *)

\* The records of an activity begin when it starts, and end when it stops.
RecordsFresh ==
  /\ \A a \in Active : past[a] # Null /\ past[a].kind = kind[a] /\ timingData_[a] = Null
  /\ \A a \in Activities : past[a] = Null => timingData_[a] = Null

\* Children are of a kind their parent may have.
NestingKept ==
  \A a \in Active : parent[a] # Null => kind[a] \in ChildKinds[kind[parent[a]]]

\* The kinds of a's parts that make a leaf of it.
LeafParts(a) == (past[a].parts \cap PartKinds) \ {past[a].kind}

LeavesExact ==
  \A a \in Active :
    /\ past[a].parts \subseteq ChildKinds[past[a].kind]
    /\ a \in exclusivityLeaves_ <=> LeafParts(a) # {}

\* An invocation is about the events of its own tool.
SeenByKind ==
  \A a \in Activities, w \in ComponentEvents : seen[a][w] # <<>> =>
    /\ past[a] # Null
    /\ past[a].kind = IF w \in LinkerOutputs THEN "Linker" ELSE "Compiler"

TimesInv ==
  TreeInv /\ TimingTypeOK /\ RecordsFresh /\ NestingKept /\ LeavesExact /\ LeavesActive
  /\ ExclusiveTimes

ComponentsInv ==
  ComponentTypeOK /\ SeenByKind /\ ComponentKinds /\ CompilerComponents /\ LinkerComponents

FirstPassInv == TimesInv /\ ComponentsInv

-----------------------------------------------------------------------------
(* The times. *)

LEMMA TimingRecords ==
  /\ NoTimes \in TimingData
  /\ Null \notin TimingData /\ Null \notin History
  /\ \A d \in Durations, e \in {"own", "whole"} :
       /\ [Duration |-> d, Exclusive |-> e] \in TimingData
       /\ [Duration |-> d, Exclusive |-> e] # NoTimes
<1>1. Durations \subseteq Nat \ {0}
  BY DurationAssumption
<1>2. Null \notin TimingData /\ Null \notin History
  BY NoTimingAssumption
<1> QED BY <1>1, <1>2 DEF NoTimes, TimingData

\* What starts has no records; nothing else changes.
LEMMA StartTimes ==
  ASSUME TimesInv, NEW a \in Activities, NEW p \in Activities \cup {Null}, NEW k \in Kinds,
         StartFirst(a, p, k)
  PROVE  /\ TimesInv'
         /\ \A x \in Activities :
              past[x] # Null => past'[x] # Null /\ past'[x].kind = past[x].kind
<1>1. /\ TreeInv'
      /\ Active' = Active \cup {a}
      /\ a \notin Active
      /\ p # Null => p \in Active
  <2>1. CASE p = Null
    BY <2>1, BeginRootInv DEF StartFirst, TimesInv
  <2>2. CASE p # Null
    BY <2>2, BeginNestedInv DEF StartFirst, TimesInv
  <2> QED BY <2>1, <2>2
<1>2. /\ past[a] = Null
      /\ past' = [past EXCEPT ![a] = [kind |-> k, parts |-> {}]]
      /\ UNCHANGED <<pass_, timingData_, exclusivityLeaves_>>
  BY DEF StartFirst, NoteStart
<1>3. TimingTypeOK'
  BY <1>2 DEF TimesInv, TimingTypeOK, History
<1>4. /\ past'[a] = [kind |-> k, parts |-> {}]
      /\ \A b \in Activities \ {a} : past'[b] = past[b]
  BY <1>2 DEF TimesInv, TimingTypeOK
<1>5. /\ kind'[a] = k
      /\ \A b \in Activities \ {a} : kind'[b] = kind[b] /\ parent'[b] = parent[b]
      /\ p = Null => parent'[a] = Null
      /\ p # Null => parent'[a] = p /\ k \in ChildKinds[kind[p]]
  <2>1. CASE p = Null
    BY <2>1, <1>1 DEF StartFirst, BeginRoot, TimesInv, TreeInv, TreeTypeOK
  <2>2. CASE p # Null
    BY <2>2 DEF StartFirst, BeginNested, TimesInv, TreeInv, TreeTypeOK
  <2> QED BY <2>1, <2>2
<1>6. [kind |-> k, parts |-> {}] \in History /\ [kind |-> k, parts |-> {}] # Null
  <2>1. [kind |-> k, parts |-> {}] \in History
    BY DEF History
  <2> QED BY <2>1, TimingRecords
<1>7. RecordsFresh'
  BY <1>1, <1>2, <1>4, <1>5, <1>6 DEF TimesInv, RecordsFresh, Active
<1>8. NestingKept'
  <2> SUFFICES ASSUME NEW b \in Active', parent'[b] # Null
               PROVE  kind'[b] \in ChildKinds[kind'[parent'[b]]]
    BY DEF NestingKept
  <2>1. CASE b = a
    BY <2>1, <1>1, <1>5 DEF Active
  <2>2. CASE b # a
    <3>1. b \in Active /\ parent[b] = parent'[b] /\ parent[b] \in Active /\ parent[b] # a
      BY <2>2, <1>1, <1>5 DEF TimesInv, TreeInv, Active
    <3> QED BY <3>1, <2>2, <1>5 DEF TimesInv, NestingKept, Active
  <2> QED BY <2>1, <2>2
<1>9. LeavesExact'
  <2> SUFFICES ASSUME NEW b \in Active'
               PROVE  /\ past'[b].parts \subseteq ChildKinds[past'[b].kind]
                      /\ b \in exclusivityLeaves_' <=> LeafParts(b)' # {}
    BY DEF LeavesExact
  <2>1. CASE b = a
    BY <2>1, <1>1, <1>2, <1>4 DEF LeafParts, TimesInv, LeavesActive
  <2>2. CASE b # a
    BY <2>2, <1>1, <1>2, <1>4 DEF LeafParts, TimesInv, LeavesExact, Active
  <2> QED BY <2>1, <2>2
<1>10. LeavesActive'
  BY <1>1, <1>2 DEF TimesInv, LeavesActive
<1>11. ExclusiveTimes'
  BY <1>2, <1>4 DEF TimesInv, ExclusiveTimes, RecordsFresh
<1> QED BY <1>1, <1>2, <1>3, <1>4, <1>7, <1>8, <1>9, <1>10, <1>11 DEF TimesInv

\* A part is never a leaf, so every part of another kind makes one of its parent.
LEMMA PartsAreNoLeaves ==
  ASSUME TimesInv, NEW a \in Active, kind[a] \in PartKinds
  PROVE  a \notin exclusivityLeaves_
<1>1. past[a].kind = kind[a] /\ past[a].parts \subseteq ChildKinds[kind[a]]
  BY DEF TimesInv, RecordsFresh, LeavesExact
<1>2. LeafParts(a) = {}
  BY <1>1, PartsAssumption DEF LeafParts, PartKinds
<1> QED BY <1>2 DEF TimesInv, LeavesExact

\* What stops has the times its parts call for, and counts as a part of its parent.
LEMMA StopTimes ==
  ASSUME TimesInv, NEW a \in Activities, NEW d \in Durations, StopFirst(a, d)
  PROVE  /\ TimesInv'
         /\ \A x \in Activities :
              past[x] # Null => past'[x] # Null /\ past'[x].kind = past[x].kind
<1> DEFINE e == IF a \in exclusivityLeaves_ THEN "whole" ELSE "own"
<1> DEFINE t == [Duration |-> d, Exclusive |-> e]
<1>1. /\ TreeInv'
      /\ Active' = Active \ {a}
      /\ a \in Active
      /\ Active \subseteq Activities
  BY EndInv DEF StopFirst, TimesInv, Active
<1>2. /\ timingData_' = [timingData_ EXCEPT ![a] = t]
      /\ exclusivityLeaves_' = (exclusivityLeaves_ \ {a})
                                 \cup {p \in Activities : MarksParent(a) /\ p = parent[a]}
      /\ past' = [x \in Activities |->
                    IF x = parent[a] THEN [past[x] EXCEPT !.parts = @ \cup {kind[a]}]
                                     ELSE past[x]]
      /\ pass_' = pass_
  BY DEF StopFirst, RecordTimes
<1>3. /\ t \in TimingData /\ t # Null /\ t # NoTimes
      /\ t.Exclusive = e
  BY TimingRecords
<1>4. /\ parent[a] # Null => /\ parent[a] \in Active \ {a}
                             /\ past[parent[a]] \in History
                             /\ past[parent[a]].kind = kind[parent[a]]
                             /\ kind[a] \in ChildKinds[kind[parent[a]]]
      /\ kind[a] \in Kinds
      /\ Null \notin Activities
  <2>1. kind[a] \in Kinds /\ Null \notin Activities
    BY <1>1, NullAssumption DEF TimesInv, TreeInv, TreeTypeOK, Active
  <2>2. ASSUME parent[a] # Null
        PROVE  /\ parent[a] \in Active \ {a}
               /\ kind[a] \in ChildKinds[kind[parent[a]]]
    <3>1. parent[a] \in Active /\ a \notin stack[parent[a]] /\ parent[a] \in stack[parent[a]]
      BY <2>2, <1>1 DEF TimesInv, TreeInv
    <3> QED BY <3>1, <2>2, <1>1 DEF TimesInv, NestingKept
  <2>3. \A b \in Active : past[b] \in History /\ past[b].kind = kind[b]
    BY <1>1 DEF TimesInv, TimingTypeOK, RecordsFresh
  <2> QED BY <2>1, <2>2, <2>3
<1>5. /\ \A b \in Activities : b # parent[a] => past'[b] = past[b]
      /\ parent[a] # Null =>
           LET p == parent[a] IN
           /\ past'[p] \in History
           /\ past'[p].kind = past[p].kind
           /\ past'[p].parts = past[p].parts \cup {kind[a]}
  <2>1. \A b \in Activities : b # parent[a] => past'[b] = past[b]
    BY <1>2
  <2>2. ASSUME parent[a] # Null
        PROVE  LET p == parent[a] IN
               /\ past'[p] \in History
               /\ past'[p].kind = past[p].kind
               /\ past'[p].parts = past[p].parts \cup {kind[a]}
    BY <2>2, <1>1, <1>2, <1>4 DEF History
  <2> QED BY <2>1, <2>2
<1>6. /\ timingData_'[a] = t
      /\ \A b \in Activities \ {a} : timingData_'[b] = timingData_[b]
      /\ timingData_' \in [Activities -> TimingData \cup {Null}]
  BY <1>2, <1>3 DEF TimesInv, TimingTypeOK
<1>7. TimingTypeOK'
  <2>1. \A b \in Activities : past'[b] \in History \cup {Null}
    BY <1>4, <1>5 DEF TimesInv, TimingTypeOK
  <2>2. past' \in [Activities -> History \cup {Null}]
    BY <2>1, <1>2
  <2> QED BY <2>2, <1>2, <1>6 DEF TimesInv, TimingTypeOK
<1>8. \A b \in Activities \ {a} : kind'[b] = kind[b] /\ parent'[b] = parent[b]
  BY DEF StopFirst, End, TimesInv, TreeInv, TreeTypeOK
<1>9. RecordsFresh'
  <2>1. \A b \in Active' : past'[b] # Null /\ past'[b].kind = kind'[b] /\ timingData_'[b] = Null
    <3> TAKE b \in Active'
    <3>1. b \in Active /\ b # a
      BY <1>1
    <3>2. past[b] # Null /\ past[b].kind = kind[b] /\ timingData_[b] = Null
      BY <3>1 DEF TimesInv, RecordsFresh
    <3>3. CASE b = parent[a]
      BY <3>1, <3>2, <3>3, <1>1, <1>4, <1>5, <1>6, <1>8, TimingRecords
    <3>4. CASE b # parent[a]
      BY <3>1, <3>2, <3>4, <1>1, <1>5, <1>6, <1>8
    <3> QED BY <3>3, <3>4
  <2>2. \A b \in Activities : past'[b] = Null => timingData_'[b] = Null
    <3> SUFFICES ASSUME NEW b \in Activities, past'[b] = Null
                 PROVE  timingData_'[b] = Null
      OBVIOUS
    <3>1. b # parent[a]
      BY <1>4, <1>5, TimingRecords
    <3>2. past[b] = Null
      BY <3>1, <1>5
    <3>3. b # a
      BY <3>2, <1>1 DEF TimesInv, RecordsFresh
    <3> QED BY <3>2, <3>3, <1>6 DEF TimesInv, RecordsFresh
  <2> QED BY <2>1, <2>2 DEF RecordsFresh
<1>10. NestingKept'
  <2> SUFFICES ASSUME NEW b \in Active', parent'[b] # Null
               PROVE  kind'[b] \in ChildKinds[kind'[parent'[b]]]
    BY DEF NestingKept
  <2>1. b \in Active /\ b # a /\ parent'[b] = parent[b]
    BY <1>1, <1>8
  <2>2. parent[b] # a /\ parent[b] \in Active
    BY <2>1, EndInv DEF StopFirst, TimesInv, TreeInv
  <2> QED BY <2>1, <2>2, <1>1, <1>8 DEF TimesInv, NestingKept
<1>11. MarksParent(a) <=> parent[a] # Null /\ kind[a] \in PartKinds /\ kind[a] # kind[parent[a]]
  BY <1>1, PartsAreNoLeaves DEF MarksParent
<1>12. LeavesExact'
  <2> SUFFICES ASSUME NEW b \in Active'
               PROVE  /\ past'[b].parts \subseteq ChildKinds[past'[b].kind]
                      /\ b \in exclusivityLeaves_' <=> LeafParts(b)' # {}
    BY DEF LeavesExact
  <2>1. /\ b \in Active /\ b # a /\ b # Null
        /\ past[b].parts \subseteq ChildKinds[past[b].kind]
        /\ b \in exclusivityLeaves_ <=> LeafParts(b) # {}
    BY <1>1, <1>4 DEF TimesInv, LeavesExact
  <2>2. CASE b = parent[a]
    <3>1. /\ past'[b].kind = kind[b] /\ past[b].kind = kind[b]
          /\ past'[b].parts = past[b].parts \cup {kind[a]}
      BY <2>1, <2>2, <1>4, <1>5
    <3>2. LeafParts(b)' # {} <=> LeafParts(b) # {} \/ (kind[a] \in PartKinds /\ kind[a] # kind[b])
      BY <3>1 DEF LeafParts
    <3>3. b \in exclusivityLeaves_' <=> b \in exclusivityLeaves_ \/ MarksParent(a)
      BY <2>1, <2>2, <1>1, <1>2
    <3> QED BY <2>1, <2>2, <3>1, <3>2, <3>3, <1>4, <1>11
  <2>3. CASE b # parent[a]
    BY <2>1, <2>3, <1>1, <1>2, <1>5 DEF LeafParts
  <2> QED BY <2>2, <2>3
<1>13. LeavesActive'
  BY <1>1, <1>2, <1>4 DEF TimesInv, LeavesActive, MarksParent
<1>14. ExclusiveTimes'
  <2> SUFFICES ASSUME NEW b \in Activities, past'[b] # Null,
                      timingData_'[b] # Null, timingData_'[b] # NoTimes
               PROVE  timingData_'[b].Exclusive = "whole" <=> LeafParts(b)' # {}
    BY DEF ExclusiveTimes, LeafParts, NoTimes
  <2>1. CASE b = a
    <3>1. past'[a] = past[a]
      BY <1>1, <1>4, <1>5
    <3>2. a \in exclusivityLeaves_ <=> LeafParts(a) # {}
      BY <1>1 DEF TimesInv, LeavesExact
    <3> QED BY <2>1, <3>1, <3>2, <1>3, <1>6 DEF LeafParts
  <2>2. CASE b # a
    <3>1. timingData_'[b] = timingData_[b]
      BY <2>2, <1>6
    <3>2. b # parent[a]
      BY <3>1, <1>4 DEF TimesInv, RecordsFresh
    <3>3. past'[b] = past[b]
      BY <3>2, <1>5
    <3> QED BY <3>1, <3>3 DEF TimesInv, ExclusiveTimes, LeafParts
  <2> QED BY <2>1, <2>2
<1>15. TimesInv'
  BY <1>1, <1>7, <1>9, <1>10, <1>12, <1>13, <1>14 DEF TimesInv
<1> QED BY <1>4, <1>5, <1>15, TimingRecords

-----------------------------------------------------------------------------
(* The main components. *)

\* A second path leaves none; what came first stays first.
LEMMA AppendedPath ==
  ASSUME NEW s \in Seq(Paths), NEW x \in Paths
  PROVE  /\ Append(s, x) # <<>>
         /\ OnlyPath(Append(s, x)) = IF s = <<>> THEN x ELSE NoPath
         /\ Append(s, x)[1] = IF s = <<>> THEN x ELSE s[1]
         /\ OnlyPath(s) \in Paths \cup {NoPath}
  BY DEF OnlyPath

LEMMA ComponentRecords ==
  /\ Null \notin Component
  /\ \A p \in Paths \cup {NoPath}, b \in BOOLEAN :
       [Path |-> p, IsInput |-> b] \in Component /\ [Path |-> p, IsInput |-> b] # Null
  BY NoComponentAssumption DEF Component

\* Only invocations of the right tool receive an event.
LEMMA ReceiversByKind ==
  ASSUME TimesInv, NEW a \in Active, NEW w \in ComponentEvents, NEW x \in Receivers(a, w)
  PROVE  /\ x \in Active
         /\ past[x] # Null
         /\ past[x].kind = IF w \in LinkerOutputs THEN "Linker" ELSE "Compiler"
<1>1. x \in stack[a] /\ kind[x] = IF w \in LinkerOutputs THEN "Linker" ELSE "Compiler"
  <2>1. CASE w \in LinkerOutputs
    <3>1. x \in InnermostGroup(a, "Linker")
      BY <2>1 DEF Receivers
    <3>2. PICK n \in Innermost(a, {"Linker"}) :
            x \in stack[n] /\ \A y \in stack[n] : x \in stack[y] => kind[y] = "Linker"
      BY <3>1 DEF InnermostGroup
    <3>3. x \in stack[a] /\ x \in stack[x]
      BY <3>1 DEF InnermostGroup, TimesInv, TreeInv
    <3> QED BY <2>1, <3>2, <3>3
  <2>2. CASE w \notin LinkerOutputs
    <3>1. w \in CompilerFiles
      BY <2>2 DEF ComponentEvents
    <3> QED BY <2>2, <3>1 DEF Receivers, Innermost
  <2> QED BY <2>1, <2>2
<1>2. x \in Active
  BY <1>1 DEF TimesInv, TreeInv
<1> QED BY <1>1, <1>2 DEF TimesInv, RecordsFresh

\* The part of ComponentsInv that is about one activity.
ComponentOK(x) ==
  /\ mainComponentCache_[x] \in Component \cup {Null}
  /\ seen[x] \in [ComponentEvents -> Seq(Paths)]
  /\ \A w \in ComponentEvents : seen[x][w] # <<>> =>
       past[x] # Null /\ past[x].kind = IF w \in LinkerOutputs THEN "Linker" ELSE "Compiler"
  /\ IsCached(x) <=> \E w \in ComponentEvents : seen[x][w] # <<>>
  /\ (\E w \in LinkerOutputs : seen[x][w] # <<>>) =>
       \A w \in CompilerFiles : seen[x][w] = <<>>
  /\ IsCached(x) => (HasInput(x) <=> seen[x]["FileInput"] # <<>>)
  /\ seen[x]["FileInput"] # <<>> \/ seen[x]["ObjOutput"] # <<>> =>
       MainPath(x) = IF seen[x]["FileInput"] # <<>> THEN OnlyPath(seen[x]["FileInput"])
                                                    ELSE OnlyPath(seen[x]["ObjOutput"])
  /\ Images(x) # <<>> => \E i \in DOMAIN Images(x) : MainPath(x) = Images(x)[i]
  /\ Images(x) = <<>> /\ seen[x]["ImpLibOutput"] # <<>> =>
       MainPath(x) = seen[x]["ImpLibOutput"][1]

AllComponentsOK ==
  /\ \A x \in Activities : ComponentOK(x)
  /\ mainComponentCache_ = [x \in Activities |-> mainComponentCache_[x]]
  /\ seen = [x \in Activities |-> seen[x]]

LEMMA ComponentsInvIsLocal == ComponentsInv <=> AllComponentsOK
<1>1. ASSUME ComponentsInv PROVE AllComponentsOK
  BY <1>1 DEF ComponentsInv, ComponentOK, ComponentTypeOK, SeenByKind, ComponentKinds,
              CompilerComponents, LinkerComponents, AllComponentsOK
<1>2. ASSUME AllComponentsOK PROVE ComponentsInv
  <2>1. ComponentTypeOK
    BY <1>2 DEF ComponentOK, ComponentTypeOK, AllComponentsOK
  <2>2. SeenByKind /\ ComponentKinds
    BY <1>2 DEF ComponentOK, SeenByKind, ComponentKinds, AllComponentsOK
  <2>3. CompilerComponents
    BY <1>2 DEF ComponentOK, CompilerComponents, AllComponentsOK
  <2>4. LinkerComponents
    BY <1>2 DEF ComponentOK, LinkerComponents, AllComponentsOK
  <2> QED BY <2>1, <2>2, <2>3, <2>4 DEF ComponentsInv
<1> QED BY <1>1, <1>2

\* An event of a compiler or linker leaves the component of its invocation as
\* the paths seen so far, and this one, demand.
LEMMA ReceivedPath ==
  ASSUME TimesInv, ComponentsInv, NEW a \in Active, NEW w \in ComponentEvents,
         NEW path \in Paths, CacheMainComponent(a, w, path), UNCHANGED past,
         NEW x \in Activities, x \in Receivers(a, w)
  PROVE  ComponentOK(x)'
<1> DEFINE new == NewComponent(x, w, path)
<1>1. /\ mainComponentCache_'[x] = new
      /\ seen'[x] = [seen[x] EXCEPT ![w] = Append(@, path)]
      /\ past' = past
  BY DEF CacheMainComponent
<1>2. ComponentOK(x)
  BY ComponentsInvIsLocal DEF AllComponentsOK
<1>3. past[x] # Null /\ past[x].kind = IF w \in LinkerOutputs THEN "Linker" ELSE "Compiler"
  BY ReceiversByKind
<1>4. /\ ComponentEvents = {"LibOutput", "ExecutableImageOutput", "ImpLibOutput",
                            "FileInput", "ObjOutput"}
      /\ LinkerOutputs = {"LibOutput", "ExecutableImageOutput", "ImpLibOutput"}
      /\ ImageOutputs = {"LibOutput", "ExecutableImageOutput"}
      /\ CompilerFiles = {"FileInput", "ObjOutput"}
  BY DEF ComponentEvents, LinkerOutputs, ImageOutputs, CompilerFiles
<1>5. /\ seen[x] \in [ComponentEvents -> Seq(Paths)]
      /\ seen'[x][w] = Append(seen[x][w], path)
      /\ seen'[x][w] # <<>>
      /\ \A v \in ComponentEvents \ {w} : seen'[x][v] = seen[x][v]
      /\ seen'[x] \in [ComponentEvents -> Seq(Paths)]
  <2>1. seen[x] \in [ComponentEvents -> Seq(Paths)] /\ Append(seen[x][w], path) \in Seq(Paths)
    BY <1>2 DEF ComponentOK
  <2> QED BY <1>1, <2>1, AppendedPath
<1>6. /\ IsCached(x) => /\ mainComponentCache_[x] \in Component
                        /\ mainComponentCache_[x].Path \in Paths \cup {NoPath}
                        /\ mainComponentCache_[x].IsInput \in BOOLEAN
      /\ NoPath \in Paths \cup {NoPath} /\ path \in Paths \cup {NoPath}
  BY <1>2 DEF ComponentOK, IsCached, Component
<1>7. \A v \in ComponentEvents : seen'[x][v] # <<>> =>
        past'[x] # Null /\ past'[x].kind = IF v \in LinkerOutputs THEN "Linker" ELSE "Compiler"
  BY <1>1, <1>2, <1>3, <1>5 DEF ComponentOK
<1>8. CASE w \in LinkerOutputs
  <2>1. seen[x]["FileInput"] = <<>> /\ seen[x]["ObjOutput"] = <<>>
    BY <1>2, <1>3, <1>4, <1>8 DEF ComponentOK
  <2>2. ~ HasInput(x)
    BY <1>2, <2>1 DEF ComponentOK, HasInput
  <2>3. /\ w \in ImageOutputs => new = WithLinkerOutput(x, path, TRUE)
        /\ w \notin ImageOutputs => w = "ImpLibOutput" /\ new = WithLinkerOutput(x, path, FALSE)
    <3>1. CASE w \in ImageOutputs
      BY <3>1, <1>4 DEF NewComponent
    <3>2. CASE w \notin ImageOutputs
      <4>1. w = "ImpLibOutput"
        BY <3>2, <1>4, <1>8
      <4>2. new = WithLinkerOutput(x, path, FALSE)
        BY <4>1, <1>4 DEF NewComponent
      <4> QED BY <3>2, <4>1, <4>2
    <3> QED BY <3>1, <3>2
  <2>4. /\ new \in Component /\ new # Null
        /\ ~ new.IsInput
        /\ new.Path = IF IsCached(x) /\ w \notin ImageOutputs THEN mainComponentCache_[x].Path ELSE path
    <3>1. CASE IsCached(x)
      <4>1. new = IF w \in ImageOutputs THEN [mainComponentCache_[x] EXCEPT !.Path = path]
                                        ELSE mainComponentCache_[x]
        BY <2>3, <3>1 DEF WithLinkerOutput
      <4>2. ~ mainComponentCache_[x].IsInput
        BY <2>2, <3>1 DEF HasInput
      <4>3. /\ new \in Component
            /\ ~ new.IsInput
            /\ new.Path = IF w \notin ImageOutputs THEN mainComponentCache_[x].Path ELSE path
        BY <3>1, <4>1, <4>2, <1>6 DEF Component
      <4> QED BY <3>1, <4>3, ComponentRecords
    <3>2. CASE ~ IsCached(x)
      <4>1. new = [Path |-> path, IsInput |-> FALSE]
        BY <2>3, <3>2 DEF WithLinkerOutput
      <4>2. [Path |-> path, IsInput |-> FALSE] \in Component
        BY DEF Component
      <4>3. new.Path = path /\ ~ new.IsInput
        BY <4>1
      <4> QED BY <3>2, <4>1, <4>2, <4>3, ComponentRecords
    <3> QED BY <3>1, <3>2
  <2>5. IsCached(x)' /\ ~ HasInput(x)' /\ MainPath(x)' = new.Path
    BY <2>4, <1>1 DEF IsCached, HasInput, MainPath
  <2>6. seen'[x]["FileInput"] = <<>> /\ seen'[x]["ObjOutput"] = <<>>
    BY <2>1, <1>4, <1>5, <1>8
  <2>7. CASE w \in ImageOutputs
    <3>1. Images(x)' # <<>> /\ \E i \in DOMAIN Images(x)' : Images(x)'[i] = path
      <4>1. PICK lib \in Seq(Paths), exe \in Seq(Paths) :
              lib = seen[x]["LibOutput"] /\ exe = seen[x]["ExecutableImageOutput"]
        BY <1>4, <1>5
      <4>2. PICK images : images = Images(x)'
        OBVIOUS
      <4>3. images = Append(lib, path) \o exe \/ images = lib \o Append(exe, path)
        BY <2>7, <4>1, <4>2, <1>4, <1>5 DEF Images
      <4>4. CASE images = Append(lib, path) \o exe
        <5>1. images[Len(lib) + 1] = path /\ Len(lib) + 1 \in DOMAIN images
          BY <4>4
        <5> QED BY <4>2, <5>1
      <4>5. CASE images = lib \o Append(exe, path)
        <5>1. images[Len(lib) + Len(exe) + 1] = path /\ Len(lib) + Len(exe) + 1 \in DOMAIN images
          BY <4>5
        <5> QED BY <4>2, <5>1
      <4> QED BY <4>3, <4>4, <4>5
    <3> QED BY <2>4, <2>5, <2>6, <2>7, <3>1, <1>1, <1>4, <1>5, <1>7 DEF ComponentOK
  <2>8. CASE w = "ImpLibOutput"
    <3>1. Images(x)' = Images(x)
      BY <2>8, <1>4, <1>5 DEF Images
    <3>2. CASE IsCached(x)
      <4>1. MainPath(x)' = MainPath(x)
        BY <2>4, <2>5, <2>8, <3>2, <1>4 DEF MainPath
      <4>2. Images(x) = <<>> => seen[x]["ImpLibOutput"] # <<>>
        <5> SUFFICES ASSUME Images(x) = <<>> PROVE seen[x]["ImpLibOutput"] # <<>>
          OBVIOUS
        <5>1. seen[x]["LibOutput"] = <<>> /\ seen[x]["ExecutableImageOutput"] = <<>>
          BY <1>4, <1>5 DEF Images
        <5> QED BY <5>1, <2>1, <3>2, <1>2, <1>4 DEF ComponentOK
      <4>3. seen'[x]["ImpLibOutput"][1] =
              IF seen[x]["ImpLibOutput"] = <<>> THEN path ELSE seen[x]["ImpLibOutput"][1]
        BY <2>8, <1>5, AppendedPath
      <4>4. /\ Images(x)' # <<>> => \E i \in DOMAIN Images(x)' : MainPath(x)' = Images(x)'[i]
            /\ Images(x)' = <<>> /\ seen'[x]["ImpLibOutput"] # <<>> =>
                 MainPath(x)' = seen'[x]["ImpLibOutput"][1]
        BY <3>1, <4>1, <4>2, <4>3, <1>2 DEF ComponentOK
      <4> QED BY <4>4, <2>4, <2>5, <2>6, <2>8, <1>1, <1>4, <1>5, <1>7 DEF ComponentOK
    <3>3. CASE ~ IsCached(x)
      <4>1. \A v \in ComponentEvents : seen[x][v] = <<>>
        BY <3>3, <1>2 DEF ComponentOK
      <4>2. Images(x) = <<>>
        BY <4>1, <1>4 DEF Images
      <4>3. seen'[x]["ImpLibOutput"][1] = path
        BY <4>1, <2>8, <1>5, AppendedPath
      <4> QED BY <4>2, <4>3, <3>1, <3>3, <2>4, <2>5, <2>6, <2>8, <1>1, <1>4, <1>5, <1>7
              DEF ComponentOK
    <3> QED BY <3>2, <3>3
  <2> QED BY <2>7, <2>8, <1>4, <1>8
<1>9. CASE w \in CompilerFiles
  <2>1. \A v \in LinkerOutputs : seen[x][v] = <<>> /\ seen'[x][v] = <<>>
    BY <1>2, <1>3, <1>4, <1>5, <1>9 DEF ComponentOK
  <2>2. Images(x)' = <<>>
    BY <2>1, <1>4 DEF Images
  <2>3. IsCached(x) <=> seen[x]["FileInput"] # <<>> \/ seen[x]["ObjOutput"] # <<>>
    BY <2>1, <1>2, <1>4 DEF ComponentOK
  <2>4. HasInput(x) <=> seen[x]["FileInput"] # <<>>
    BY <2>3, <1>2 DEF ComponentOK, HasInput
  <2>5. CASE w = "FileInput"
    <3>1. /\ new \in Component /\ new # Null
          /\ new.IsInput
          /\ new.Path = IF seen[x]["FileInput"] # <<>> THEN NoPath ELSE path
      BY <2>4, <2>5, <1>4, <1>6, ComponentRecords DEF NewComponent, WithCompilerInput, Component
    <3>2. IsCached(x)' /\ HasInput(x)' /\ MainPath(x)' = new.Path
      BY <3>1, <1>1 DEF IsCached, HasInput, MainPath
    <3>3. OnlyPath(seen'[x]["FileInput"]) = new.Path
      BY <2>5, <3>1, <1>5, AppendedPath
    <3> QED BY <2>1, <2>2, <2>5, <3>1, <3>2, <3>3, <1>1, <1>4, <1>5, <1>7 DEF ComponentOK
  <2>6. CASE w = "ObjOutput"
    <3>1. seen'[x]["FileInput"] = seen[x]["FileInput"]
      BY <2>6, <1>4, <1>5
    <3>2. CASE HasInput(x)
      <4>1. new = mainComponentCache_[x] /\ IsCached(x)
        BY <2>6, <3>2, <1>4 DEF NewComponent, WithCompilerOutput, HasInput
      <4>2. IsCached(x)' /\ HasInput(x)' /\ MainPath(x)' = MainPath(x)
        BY <4>1, <3>2, <1>1 DEF IsCached, HasInput, MainPath
      <4>3. MainPath(x) = OnlyPath(seen[x]["FileInput"]) /\ seen[x]["FileInput"] # <<>>
        BY <2>4, <3>2, <1>2 DEF ComponentOK
      <4> QED BY <2>1, <2>2, <2>6, <3>1, <4>1, <4>2, <4>3, <1>1, <1>4, <1>5, <1>6, <1>7
              DEF ComponentOK
    <3>3. CASE ~ HasInput(x)
      <4>1. seen[x]["FileInput"] = <<>> /\ (IsCached(x) <=> seen[x]["ObjOutput"] # <<>>)
        BY <2>3, <2>4, <3>3
      <4>2. /\ new \in Component /\ new # Null
            /\ ~ new.IsInput
            /\ new.Path = IF IsCached(x) THEN NoPath ELSE path
        <5>1. new = WithCompilerOutput(x, path)
          BY <2>6, <1>4 DEF NewComponent
        <5>2. CASE IsCached(x)
          <6>1. new = [mainComponentCache_[x] EXCEPT !.Path = NoPath]
            BY <3>3, <5>1, <5>2 DEF WithCompilerOutput
          <6>2. ~ mainComponentCache_[x].IsInput
            BY <3>3, <5>2 DEF HasInput
          <6>3. new \in Component /\ ~ new.IsInput /\ new.Path = NoPath
            BY <5>2, <6>1, <6>2, <1>6 DEF Component
          <6> QED BY <5>2, <6>3, ComponentRecords
        <5>3. CASE ~ IsCached(x)
          <6>1. new = [Path |-> path, IsInput |-> FALSE]
            BY <5>1, <5>3 DEF WithCompilerOutput
          <6>2. [Path |-> path, IsInput |-> FALSE] \in Component
            BY DEF Component
          <6>3. new.Path = path /\ ~ new.IsInput
            BY <6>1
          <6> QED BY <5>3, <6>1, <6>2, <6>3, ComponentRecords
        <5> QED BY <5>2, <5>3
      <4>3. IsCached(x)' /\ ~ HasInput(x)' /\ MainPath(x)' = new.Path
        BY <4>2, <1>1 DEF IsCached, HasInput, MainPath
      <4>4. OnlyPath(seen'[x]["ObjOutput"]) = new.Path
        BY <2>6, <4>1, <4>2, <1>5, AppendedPath
      <4> QED BY <2>1, <2>2, <2>6, <3>1, <4>1, <4>2, <4>3, <4>4, <1>1, <1>4, <1>5, <1>7
              DEF ComponentOK
    <3> QED BY <3>2, <3>3
  <2> QED BY <2>5, <2>6, <1>4, <1>9
<1> QED BY <1>8, <1>9 DEF ComponentEvents

LEMMA ReceivedComponents ==
  ASSUME TimesInv, ComponentsInv, NEW a \in Active, NEW w \in ComponentEvents,
         NEW path \in Paths, CacheMainComponent(a, w, path), UNCHANGED past
  PROVE  ComponentsInv'
<1>1. \A x \in Activities : ComponentOK(x)'
  <2> TAKE x \in Activities
  <2>1. CASE x \in Receivers(a, w)
    BY <2>1, ReceivedPath
  <2>2. CASE x \notin Receivers(a, w)
    <3>1. mainComponentCache_'[x] = mainComponentCache_[x] /\ seen'[x] = seen[x]
      BY <2>2 DEF CacheMainComponent
    <3>2. ComponentOK(x)
      BY ComponentsInvIsLocal DEF AllComponentsOK
    <3> QED BY <3>1, <3>2 DEF ComponentOK, IsCached, HasInput, MainPath, Images
  <2> QED BY <2>1, <2>2
<1>2. /\ mainComponentCache_' = [x \in Activities |-> mainComponentCache_'[x]]
      /\ seen' = [x \in Activities |-> seen'[x]]
  BY DEF CacheMainComponent
<1>3. AllComponentsOK'
  BY <1>1, <1>2 DEF AllComponentsOK
<1> QED BY <1>3, ComponentsInvIsLocal, PTL

\* What starts and stops leaves all components alone.
LEMMA QuietComponents ==
  ASSUME ComponentsInv, UNCHANGED componentVars,
         \A x \in Activities :
           past[x] # Null => past'[x] # Null /\ past'[x].kind = past[x].kind
  PROVE  ComponentsInv'
<1>1. mainComponentCache_' = mainComponentCache_ /\ seen' = seen
  BY DEF componentVars
<1>2. /\ \A a \in Activities : /\ IsCached(a)' <=> IsCached(a)
                               /\ HasInput(a)' <=> HasInput(a)
                               /\ MainPath(a)' = MainPath(a)
                               /\ Images(a)' = Images(a)
      /\ ComponentTypeOK'
  BY <1>1 DEF ComponentsInv, ComponentTypeOK, IsCached, HasInput, MainPath, Images
<1>4. ComponentKinds'
  BY <1>1, <1>2 DEF ComponentsInv, ComponentKinds
<1>5. CompilerComponents'
  BY <1>1, <1>2 DEF ComponentsInv, CompilerComponents
<1>6. LinkerComponents'
  BY <1>1, <1>2 DEF ComponentsInv, LinkerComponents
<1>3. SeenByKind'
  BY <1>1 DEF ComponentsInv, SeenByKind
<1> QED BY <1>2, <1>3, <1>4, <1>5, <1>6 DEF ComponentsInv

-----------------------------------------------------------------------------
(* Both recorders of the first pass. *)

LEMMA FirstPassInitInv == FirstPassInit => FirstPassInv
<1> SUFFICES ASSUME FirstPassInit PROVE FirstPassInv
  OBVIOUS
<1>1. TreeInv
  BY TreeInitInv DEF FirstPassInit
<1>2. Active = {}
  BY DEF FirstPassInit, TreeInit, Active
<1>3. TimesInv
  BY <1>1, <1>2 DEF FirstPassInit, TimingInit, TimesInv, TimingTypeOK, RecordsFresh,
                    NestingKept, LeavesExact, LeavesActive, ExclusiveTimes
<1>4. ComponentTypeOK
  BY DEF FirstPassInit, ComponentInit, ComponentTypeOK
<1>5. /\ "FileInput" \in ComponentEvents /\ "ObjOutput" \in ComponentEvents
      /\ "LibOutput" \in ComponentEvents /\ "ExecutableImageOutput" \in ComponentEvents
      /\ "ImpLibOutput" \in ComponentEvents
      /\ CompilerFiles \subseteq ComponentEvents
  BY DEF ComponentEvents, CompilerFiles, LinkerOutputs, ImageOutputs
<1>6. \A a \in Activities : /\ ~ IsCached(a)
                            /\ \A w \in ComponentEvents : seen[a][w] = <<>>
  BY DEF FirstPassInit, ComponentInit, IsCached
<1>7. SeenByKind
  BY <1>6 DEF SeenByKind
<1>8. ComponentKinds
  BY <1>5, <1>6 DEF ComponentKinds
<1>9. CompilerComponents
  BY <1>5, <1>6 DEF CompilerComponents
<1>10. LinkerComponents
  <2>1. \A a \in Activities : Images(a) = <<>> \o <<>>
    BY <1>5, <1>6 DEF Images
  <2>2. <<>> \o <<>> = <<>>
    OBVIOUS
  <2> QED BY <2>1, <2>2, <1>5, <1>6 DEF LinkerComponents
<1> QED BY <1>3, <1>4, <1>7, <1>8, <1>9, <1>10 DEF FirstPassInv, ComponentsInv

LEMMA FirstPassNextInv == FirstPassInv /\ [FirstPassNext]_firstPassVars => FirstPassInv'
<1> SUFFICES ASSUME FirstPassInv, [FirstPassNext]_firstPassVars PROVE FirstPassInv'
  OBVIOUS
<1> USE DEF FirstPassInv
<1>1. ASSUME NEW a \in Activities, NEW p \in Activities \cup {Null}, NEW k \in Kinds,
             StartFirst(a, p, k)
      PROVE  FirstPassInv'
  <2>1. UNCHANGED componentVars
    BY <1>1 DEF StartFirst
  <2> QED BY <1>1, <2>1, StartTimes, QuietComponents
<1>2. ASSUME NEW a \in Activities, NEW d \in Durations, StopFirst(a, d)
      PROVE  FirstPassInv'
  <2>1. UNCHANGED componentVars
    BY <1>2 DEF StopFirst
  <2> QED BY <1>2, <2>1, StopTimes, QuietComponents
<1>3. ASSUME NEW a \in Activities, NEW w \in ComponentEvents, NEW path \in Paths,
             SimpleFirst(a, w, path)
      PROVE  FirstPassInv'
  <2>1. /\ a \in Active /\ CacheMainComponent(a, w, path)
        /\ UNCHANGED <<treeVars, timingVars>>
    BY <1>3 DEF SimpleFirst
  <2>2. TimesInv'
    BY <2>1 DEF treeVars, timingVars, TimesInv, TreeInv, TreeTypeOK, Active, TimingTypeOK,
                RecordsFresh, NestingKept, LeavesExact, LeafParts, LeavesActive, ExclusiveTimes
  <2>3. ComponentsInv'
    BY <2>1, ReceivedComponents DEF timingVars
  <2> QED BY <2>2, <2>3
<1>4. CASE UNCHANGED firstPassVars
  <2>1. TimesInv'
    BY <1>4 DEF firstPassVars, treeVars, timingVars, TimesInv, TreeInv, TreeTypeOK, Active,
                TimingTypeOK, RecordsFresh, NestingKept, LeavesExact, LeafParts, LeavesActive,
                ExclusiveTimes
  <2>2. UNCHANGED componentVars /\ past' = past
    BY <1>4 DEF firstPassVars, timingVars
  <2> QED BY <2>1, <2>2, QuietComponents
<1> QED BY <1>1, <1>2, <1>3, <1>4 DEF FirstPassNext

\* The inductive invariant of the first pass holds in a trace of any length.
THEOREM FirstPassInvariance == FirstPassSpec => []FirstPassInv
  BY FirstPassInitInv, FirstPassNextInv, PTL DEF FirstPassSpec

\* The variables of both analyzers keep their types in a trace of any length.
THEOREM FirstPassTypes == FirstPassSpec => []FirstPassTypeOK
<1>1. FirstPassInv => FirstPassTypeOK
  BY DEF FirstPassInv, TimesInv, ComponentsInv, TreeInv, FirstPassTypeOK
<1> QED BY <1>1, FirstPassInvariance, PTL

\* OnCompilerInput and OnCompilerOutput find the only input of a compiler, or its
\* only output, or nothing, in whatever order the events come.
THEOREM CompilersHaveTheirFile == FirstPassSpec => []CompilerComponents
<1>1. FirstPassInv => CompilerComponents
  BY DEF FirstPassInv, ComponentsInv
<1> QED BY <1>1, FirstPassInvariance, PTL

\* ProcessLinkerOutput never lets an import library take the place of an image,
\* in any group of linkers that spawn each other.
THEOREM LinkersHaveTheirImage == FirstPassSpec => []LinkerComponents
<1>1. FirstPassInv => LinkerComponents
  BY DEF FirstPassInv, ComponentsInv
<1> QED BY <1>1, FirstPassInvariance, PTL

\* OnStopActivity of MiscellaneousCache records all of an activity's time as its
\* own exactly when one of its parts is a function or a file of another kind.
THEOREM TimesAreExclusive == FirstPassSpec => []ExclusiveTimes
<1>1. FirstPassInv => ExclusiveTimes
  BY DEF FirstPassInv, TimesInv
<1> QED BY <1>1, FirstPassInvariance, PTL

\* exclusivityLeaves_ never keeps an activity that has stopped.
THEOREM NoLeafLeftBehind == FirstPassSpec => []LeavesActive
<1>1. FirstPassInv => LeavesActive
  BY DEF FirstPassInv, TimesInv
<1> QED BY <1>1, FirstPassInvariance, PTL

-----------------------------------------------------------------------------
(* The trace. *)

StartEvent == [type : {"start"}, id : Activities, parent : Activities \cup {Null},
               kind : Kinds, info : Toolsets]
StopEvent == [type : {"stop"}, id : Activities, duration : Durations]
SimpleEvent ==
  {e \in [type : {"simple"}, id : Activities, what : STRING, name : EnvNames \cup STRING,
           value : Seq(Nat)] : e.what # "EnvironmentVariable" => e.name = e.what}
Event == StartEvent \cup StopEvent \cup SimpleEvent

StartsIn(t) == {i \in DOMAIN t : t[i].type = "start"}
StopsIn(t) == {i \in DOMAIN t : t[i].type = "stop"}
IdsIn(t) == {t[i].id : i \in StartsIn(t)}

\* Every activity starts once, after its parent and with a larger id, and stops
\* once; a simple event is below an activity that has started.
WellFormed(t) ==
  /\ t \in Seq(Event)
  /\ \A i, j \in StartsIn(t) : t[i].id = t[j].id => i = j
  /\ \A i, j \in StopsIn(t) : t[i].id = t[j].id => i = j
  /\ \A i \in StartsIn(t) : t[i].parent # Null => t[i].parent \in IdsIn(t) /\ t[i].parent < t[i].id
  /\ \A i \in DOMAIN t : t[i].id \in IdsIn(t)
  /\ \A a \in IdsIn(t) : a <= Cardinality(StartsIn(t))

LEMMA ActivityIds == Activities \subseteq Nat /\ Null \notin Activities /\ Null \notin Int
  BY SessionAssumption, ContextAssumption, NullAssumption, FS_CardinalityType

\* The sorts of events, told apart by their type.
LEMMA EventSorts ==
  ASSUME NEW e \in Event
  PROVE  /\ e.id \in Activities
         /\ e.type = "start" => e \in StartEvent
         /\ e.type = "stop" => e \in StopEvent
         /\ e.type = "simple" => e \in SimpleEvent
         /\ e.type \in {"start", "stop", "simple"}
  BY DEF Event, StartEvent, StopEvent, SimpleEvent

LEMMA AppendedEvent ==
  ASSUME NEW t \in Seq(Event), NEW e \in Event, NEW u, u = Append(t, e)
  PROVE  /\ u \in Seq(Event)
         /\ Len(u) = Len(t) + 1 /\ Len(t) \in Nat
         /\ DOMAIN t = 1 .. Len(t)
         /\ DOMAIN u = DOMAIN t \cup {Len(t) + 1}
         /\ Len(t) + 1 \notin DOMAIN t
         /\ \A i \in DOMAIN t : u[i] = t[i]
         /\ u[Len(t) + 1] = e
  OBVIOUS

\* The start and stop events there are after one more event.
LEMMA AppendedSorts ==
  ASSUME NEW t \in Seq(Event), NEW e \in Event, NEW u, u = Append(t, e)
  PROVE  /\ StartsIn(u) = StartsIn(t) \cup (IF e.type = "start" THEN {Len(t) + 1} ELSE {})
         /\ StopsIn(u) = StopsIn(t) \cup (IF e.type = "stop" THEN {Len(t) + 1} ELSE {})
         /\ IdsIn(u) = IdsIn(t) \cup (IF e.type = "start" THEN {e.id} ELSE {})
<1>1. StartsIn(u) = StartsIn(t) \cup (IF e.type = "start" THEN {Len(t) + 1} ELSE {})
  BY AppendedEvent DEF StartsIn
<1>2. StopsIn(u) = StopsIn(t) \cup (IF e.type = "stop" THEN {Len(t) + 1} ELSE {})
  BY AppendedEvent DEF StopsIn
<1>3. IdsIn(u) = IdsIn(t) \cup (IF e.type = "start" THEN {e.id} ELSE {})
  <2>1. \A i \in StartsIn(t) : u[i] = t[i]
    BY AppendedEvent DEF StartsIn
  <2>2. u[Len(t) + 1] = e
    BY AppendedEvent
  <2>3. CASE e.type = "start"
    <3>1. StartsIn(u) = StartsIn(t) \cup {Len(t) + 1}
      BY <1>1, <2>3
    <3>2. \A x : x \in IdsIn(u) <=> x \in IdsIn(t) \/ x = e.id
      BY <2>1, <2>2, <3>1 DEF IdsIn
    <3> QED BY <2>3, <3>2
  <2>4. CASE e.type # "start"
    BY <2>4, <1>1, <2>1 DEF IdsIn
  <2> QED BY <2>3, <2>4
<1> QED BY <1>1, <1>2, <1>3

LEMMA StartsFinite ==
  ASSUME NEW t \in Seq(Event)
  PROVE  /\ IsFiniteSet(StartsIn(t)) /\ Cardinality(StartsIn(t)) \in Nat
         /\ Len(t) + 1 \notin StartsIn(t)
<1>1. IsFiniteSet(1 .. Len(t)) /\ StartsIn(t) \subseteq 1 .. Len(t)
  BY FS_Interval DEF StartsIn
<1> QED BY <1>1, FS_Subset, FS_CardinalityType

\* A trace stays well formed with an event of the first pass.
LEMMA AppendedWellFormed ==
  ASSUME NEW t, WellFormed(t), NEW e \in Event, NEW u, u = Append(t, e),
         e.type = "start" => /\ e.id = Cardinality(StartsIn(t)) + 1
                             /\ e.parent # Null => e.parent \in IdsIn(t),
         e.type = "stop" => \A i \in StopsIn(t) : t[i].id # e.id,
         e.type # "start" => e.id \in IdsIn(t)
  PROVE  WellFormed(u)
<1> DEFINE n == Len(t)
           c == Cardinality(StartsIn(t))
<1>1. t \in Seq(Event) /\ n \in Nat /\ c \in Nat
  BY StartsFinite DEF WellFormed
<1>2. /\ u \in Seq(Event) /\ DOMAIN u = DOMAIN t \cup {n + 1} /\ n + 1 \notin DOMAIN t
      /\ \A i \in DOMAIN t : u[i] = t[i]
      /\ u[n + 1] = e
  BY <1>1, AppendedEvent
<1>3. /\ StartsIn(u) = StartsIn(t) \cup (IF e.type = "start" THEN {n + 1} ELSE {})
      /\ StopsIn(u) = StopsIn(t) \cup (IF e.type = "stop" THEN {n + 1} ELSE {})
      /\ IdsIn(u) = IdsIn(t) \cup (IF e.type = "start" THEN {e.id} ELSE {})
  BY <1>1, AppendedSorts
<1>4. StartsIn(t) \subseteq DOMAIN t /\ StopsIn(t) \subseteq DOMAIN t
  BY DEF StartsIn, StopsIn
<1>5. \A a \in IdsIn(t) : a \in Nat /\ a <= c
  <2>1. \A a \in IdsIn(t) : a \in Activities
    BY <1>1, EventSorts DEF IdsIn, StartsIn
  <2> QED BY <2>1, ActivityIds DEF WellFormed
<1>6. Cardinality(StartsIn(u)) = IF e.type = "start" THEN c + 1 ELSE c
  <2>1. CASE e.type = "start"
    BY <2>1, <1>1, <1>3, StartsFinite, FS_AddElement
  <2>2. CASE e.type # "start"
    BY <2>2, <1>3
  <2> QED BY <2>1, <2>2
<1>7. \A i \in StartsIn(t) : t[i].id \in IdsIn(t)
  BY DEF IdsIn
<1> HIDE DEF n, c
<1>8. e.type = "start" => e.id = c + 1 /\ (e.parent # Null => e.parent \in IdsIn(t))
  BY DEF c
<1>9. \A i, j \in StartsIn(u) : u[i].id = u[j].id => i = j
  <2>1. \A i, j \in StartsIn(t) : t[i].id = t[j].id => i = j
    BY DEF WellFormed
  <2>2. \A i \in StartsIn(t) : e.type = "start" => t[i].id # e.id
    BY <1>1, <1>5, <1>7, <1>8
  <2> QED BY <1>2, <1>3, <1>4, <2>1, <2>2
<1>10. \A i, j \in StopsIn(u) : u[i].id = u[j].id => i = j
  <2>1. \A i, j \in StopsIn(t) : t[i].id = t[j].id => i = j
    BY DEF WellFormed
  <2> QED BY <1>2, <1>3, <1>4, <2>1
<1>11. \A i \in StartsIn(u) : u[i].parent # Null =>
         u[i].parent \in IdsIn(u) /\ u[i].parent < u[i].id
  <2>1. \A i \in StartsIn(t) :
          t[i].parent # Null => t[i].parent \in IdsIn(t) /\ t[i].parent < t[i].id
    BY DEF WellFormed
  <2>2. e.type = "start" /\ e.parent # Null => e.parent \in IdsIn(t) /\ e.parent < e.id
    BY <1>1, <1>5, <1>8
  <2> QED BY <1>2, <1>3, <1>4, <2>1, <2>2
<1>12. \A i \in DOMAIN u : u[i].id \in IdsIn(u)
  <2>1. \A i \in DOMAIN t : t[i].id \in IdsIn(t)
    BY DEF WellFormed
  <2> QED BY <1>2, <1>3, <2>1
<1>13. \A a \in IdsIn(u) : a <= Cardinality(StartsIn(u))
  BY <1>1, <1>3, <1>5, <1>6, <1>8
<1> QED BY <1>2, <1>9, <1>10, <1>11, <1>12, <1>13 DEF WellFormed

\* What a trace says of one activity.
StartIn(t, a) == CHOOSE i \in DOMAIN t : t[i].type = "start" /\ t[i].id = a
KindIn(t, a) == t[StartIn(t, a)].kind
ParentIn(t, a) == t[StartIn(t, a)].parent
StopsOfIn(t, a) == {i \in DOMAIN t : t[i].type = "stop" /\ t[i].id = a}
DurationIn(t, a) == IF StopsOfIn(t, a) = {} THEN 0
                                            ELSE t[CHOOSE i \in StopsOfIn(t, a) : TRUE].duration

LEMMA TraceTells ==
  /\ Started = IdsIn(trace)
  /\ \A a : /\ StartAt(a) = StartIn(trace, a)
            /\ KindOf(a) = KindIn(trace, a)
            /\ ParentOf(a) = ParentIn(trace, a)
            /\ StopsOf(a) = StopsOfIn(trace, a)
            /\ DurationOf(a) = DurationIn(trace, a)
  BY DEF Started, IdsIn, StartsIn, StartAt, StartIn, KindOf, KindIn, ParentOf, ParentIn, StopsOf,
         StopsOfIn, DurationOf, DurationIn

LEMMA StartFound ==
  ASSUME NEW t, WellFormed(t), NEW i \in StartsIn(t)
  PROVE  /\ StartIn(t, t[i].id) = i
         /\ KindIn(t, t[i].id) = t[i].kind
         /\ ParentIn(t, t[i].id) = t[i].parent
         /\ t[i] \in StartEvent
<1>1. i \in DOMAIN t /\ t[i].type = "start" /\ t \in Seq(Event)
  BY DEF StartsIn, WellFormed
<1>2. \A j \in DOMAIN t : t[j].type = "start" /\ t[j].id = t[i].id => j = i
  BY DEF StartsIn, WellFormed
<1>3. StartIn(t, t[i].id) = i
  BY <1>1, <1>2 DEF StartIn
<1>4. t[i] \in StartEvent
  BY <1>1, EventSorts
<1> QED BY <1>3, <1>4 DEF KindIn, ParentIn

\* The activities of a trace, their kinds and their parents.
LEMMA StartedFacts ==
  ASSUME NEW t, WellFormed(t), NEW a \in IdsIn(t)
  PROVE  /\ a \in Activities
         /\ StartIn(t, a) \in StartsIn(t) /\ t[StartIn(t, a)].id = a
         /\ KindIn(t, a) \in Kinds
         /\ ParentIn(t, a) \in Activities \cup {Null}
         /\ ParentIn(t, a) # Null => ParentIn(t, a) \in IdsIn(t) /\ ParentIn(t, a) < a
<1>1. PICK i \in StartsIn(t) : a = t[i].id
  BY DEF IdsIn
<1>2. /\ StartIn(t, a) = i /\ KindIn(t, a) = t[i].kind /\ ParentIn(t, a) = t[i].parent
      /\ t[i] \in StartEvent
  BY <1>1, StartFound
<1>3. t[i].parent # Null => t[i].parent \in IdsIn(t) /\ t[i].parent < t[i].id
  BY DEF WellFormed
<1> QED BY <1>1, <1>2, <1>3 DEF StartEvent

\* An activity stops once.
LEMMA StopFound ==
  ASSUME NEW t, WellFormed(t), NEW i \in StopsIn(t)
  PROVE  /\ StopsOfIn(t, t[i].id) = {i}
         /\ DurationIn(t, t[i].id) = t[i].duration
         /\ t[i].duration \in Durations
<1>1. StopsOfIn(t, t[i].id) = {i}
  BY DEF StopsIn, StopsOfIn, WellFormed
<1>2. (CHOOSE j \in StopsOfIn(t, t[i].id) : TRUE) = i
  BY <1>1
<1>3. i \in DOMAIN t /\ t[i].type = "stop" /\ t \in Seq(Event)
  BY DEF StopsIn, WellFormed
<1>4. t[i] \in StopEvent
  BY <1>3, EventSorts
<1> QED BY <1>1, <1>2, <1>4 DEF DurationIn, StopEvent

SameStops(t, u, a) ==
  StopsOfIn(u, a) = StopsOfIn(t, a) /\ DurationIn(u, a) = DurationIn(t, a)

\* What is said of the others is the same after one more event.
LEMMA AppendedFacts ==
  ASSUME NEW t, WellFormed(t), NEW e \in Event, NEW u, u = Append(t, e), WellFormed(u)
  PROVE  /\ \A a \in IdsIn(t) : KindIn(u, a) = KindIn(t, a) /\ ParentIn(u, a) = ParentIn(t, a)
         /\ e.type = "start" => KindIn(u, e.id) = e.kind /\ ParentIn(u, e.id) = e.parent
         /\ e.type = "stop" => DurationIn(u, e.id) = e.duration /\ StopsOfIn(u, e.id) # {}
         /\ \A a : (e.type = "stop" /\ a = e.id) \/ SameStops(t, u, a)
<1> DEFINE n == Len(t) + 1
<1>1. t \in Seq(Event)
  BY DEF WellFormed
<1>2. /\ DOMAIN u = DOMAIN t \cup {n} /\ n \notin DOMAIN t
      /\ \A i \in DOMAIN t : u[i] = t[i]
      /\ u[n] = e
  BY <1>1, AppendedEvent
<1> HIDE DEF n
<1>3. \A i \in StartsIn(t) : i \in StartsIn(u) /\ u[i] = t[i]
  BY <1>2 DEF StartsIn
<1>4. ASSUME NEW a \in IdsIn(t)
      PROVE  KindIn(u, a) = KindIn(t, a) /\ ParentIn(u, a) = ParentIn(t, a)
  <2>1. PICK i \in StartsIn(t) : a = t[i].id
    BY DEF IdsIn
  <2>2. KindIn(t, t[i].id) = t[i].kind /\ ParentIn(t, t[i].id) = t[i].parent
    BY StartFound
  <2>3. i \in StartsIn(u) /\ u[i] = t[i]
    BY <1>3
  <2>4. KindIn(u, u[i].id) = u[i].kind /\ ParentIn(u, u[i].id) = u[i].parent
    BY <2>3, StartFound
  <2> QED BY <2>1, <2>2, <2>3, <2>4
<1>5. ASSUME e.type = "start"
      PROVE  KindIn(u, e.id) = e.kind /\ ParentIn(u, e.id) = e.parent
  <2>1. n \in StartsIn(u)
    BY <1>2, <1>5 DEF StartsIn
  <2>2. KindIn(u, u[n].id) = u[n].kind /\ ParentIn(u, u[n].id) = u[n].parent
    BY <2>1, StartFound
  <2> QED BY <1>2, <2>2
<1>6. ASSUME e.type = "stop"
      PROVE  DurationIn(u, e.id) = e.duration /\ StopsOfIn(u, e.id) # {}
  <2>1. n \in StopsIn(u)
    BY <1>2, <1>6 DEF StopsIn
  <2>2. DurationIn(u, u[n].id) = u[n].duration /\ StopsOfIn(u, u[n].id) = {n}
    BY <2>1, StopFound
  <2> QED BY <1>2, <2>2
<1>7. ASSUME NEW a, e.type # "stop" \/ a # e.id
      PROVE  StopsOfIn(u, a) = StopsOfIn(t, a) /\ DurationIn(u, a) = DurationIn(t, a)
  <2>1. StopsOfIn(u, a) = StopsOfIn(t, a)
    BY <1>2, <1>7 DEF StopsOfIn
  <2>2. CASE StopsOfIn(t, a) # {}
    <3>1. (CHOOSE i \in StopsOfIn(t, a) : TRUE) \in DOMAIN t
      BY <2>2 DEF StopsOfIn
    <3> QED BY <2>1, <3>1, <1>2 DEF DurationIn
  <2>3. CASE StopsOfIn(t, a) = {}
    BY <2>1, <2>3 DEF DurationIn
  <2> QED BY <2>1, <2>2, <2>3
<1> QED BY <1>4, <1>5, <1>6, <1>7 DEF SameStops

\* What is said of the activities after one more start event.
LEMMA AppendedStart ==
  ASSUME NEW t, WellFormed(t), NEW e \in Event, NEW u, u = Append(t, e), WellFormed(u),
         e.type = "start"
  PROVE  /\ IdsIn(u) = IdsIn(t) \cup {e.id}
         /\ \A x \in IdsIn(t) : KindIn(u, x) = KindIn(t, x) /\ ParentIn(u, x) = ParentIn(t, x)
         /\ KindIn(u, e.id) = e.kind /\ ParentIn(u, e.id) = e.parent
         /\ \A x : SameStops(t, u, x)
<1>1. t \in Seq(Event)
  BY DEF WellFormed
<1>2. IdsIn(u) = IdsIn(t) \cup {e.id}
  BY <1>1, AppendedSorts
<1> QED BY <1>2, AppendedFacts

\* And after one more stop event.
LEMMA AppendedStop ==
  ASSUME NEW t, WellFormed(t), NEW e \in Event, NEW u, u = Append(t, e), WellFormed(u),
         e.type = "stop"
  PROVE  /\ IdsIn(u) = IdsIn(t)
         /\ \A x \in IdsIn(t) : KindIn(u, x) = KindIn(t, x) /\ ParentIn(u, x) = ParentIn(t, x)
         /\ StopsOfIn(u, e.id) # {} /\ DurationIn(u, e.id) = e.duration
         /\ \A x : x = e.id \/ SameStops(t, u, x)
<1>1. t \in Seq(Event)
  BY DEF WellFormed
<1>2. IdsIn(u) = IdsIn(t)
  BY <1>1, AppendedSorts
<1> QED BY <1>2, AppendedFacts

\* A simple event says nothing of that.
LEMMA AppendedSimple ==
  ASSUME NEW t, WellFormed(t), NEW e \in Event, NEW u, u = Append(t, e), WellFormed(u),
         e.type = "simple"
  PROVE  /\ IdsIn(u) = IdsIn(t)
         /\ \A x \in IdsIn(t) : KindIn(u, x) = KindIn(t, x) /\ ParentIn(u, x) = ParentIn(t, x)
         /\ \A x : SameStops(t, u, x)
<1>1. t \in Seq(Event)
  BY DEF WellFormed
<1>2. IdsIn(u) = IdsIn(t)
  BY <1>1, AppendedSorts
<1> QED BY <1>2, AppendedFacts

-----------------------------------------------------------------------------
(* The records are those of the trace. *)

\* The kinds of the children of a that have stopped.
StoppedPartsIn(t, a) ==
  {KindIn(t, c) : c \in {x \in IdsIn(t) : StopsOfIn(t, x) # {} /\ ParentIn(t, x) = a}}

\* What is known of an activity is what the trace says of it.
TimeRecorded(a) ==
  IF StopsOfIn(trace, a) = {}
    THEN timingData_[a] \in {Null, NoTimes}
    ELSE timingData_[a] \notin {Null, NoTimes} /\ timingData_[a].Duration = DurationIn(trace, a)

RecordsTrace ==
  /\ \A a \in Activities : past[a] # Null <=> a \in IdsIn(trace)
  /\ \A a \in IdsIn(trace) : /\ past[a].kind = KindIn(trace, a)
                              /\ past[a].parts = StoppedPartsIn(trace, a)
  /\ \A a \in Activities : TimeRecorded(a)

\* The activities that run are as the trace says, in whichever pass.
TreeReplayed ==
  \A a \in Active :
    a \in IdsIn(trace) /\ kind[a] = KindIn(trace, a) /\ parent[a] = ParentIn(trace, a)

RecordingInv == WellFormed(trace) /\ FirstPassInv /\ RecordsTrace /\ TreeReplayed

\* What a tree step does in terms of activities.
LEMMA TreeStarts ==
  ASSUME TreeInv, NEW a \in Activities, NEW p \in Activities \cup {Null}, NEW k \in Kinds,
         IF p = Null THEN BeginRoot(a, k) ELSE BeginNested(a, p, k)
  PROVE  /\ TreeInv'
         /\ Active' = Active \cup {a} /\ a \notin Active
         /\ kind'[a] = k /\ parent'[a] = p
         /\ p # Null => p \in Active
         /\ \A x \in Active : kind'[x] = kind[x] /\ parent'[x] = parent[x]
         /\ stack'[a] = IF p = Null THEN {a} ELSE stack[p] \cup {a}
<1>1. CASE p = Null
  <2>1. BeginRoot(a, k)
    BY <1>1
  <2>2. TreeInv' /\ Active' = Active \cup {a} /\ a \notin Active
    BY <2>1, BeginRootInv
  <2> QED BY <1>1, <2>1, <2>2 DEF BeginRoot, TreeInv, TreeTypeOK, Active
<1>2. CASE p # Null
  <2>1. BeginNested(a, p, k) /\ p \in Activities
    BY <1>2
  <2>2. TreeInv' /\ Active' = Active \cup {a} /\ a \notin Active /\ p \in Active
    BY <2>1, BeginNestedInv
  <2> QED BY <1>2, <2>1, <2>2 DEF BeginNested, TreeInv, TreeTypeOK, Active
<1> QED BY <1>1, <1>2

LEMMA TreeStops ==
  ASSUME TreeInv, NEW a \in Activities, End(a)
  PROVE  /\ TreeInv'
         /\ Active' = Active \ {a} /\ a \in Active
         /\ \A x \in Active' : kind'[x] = kind[x] /\ parent'[x] = parent[x]
<1>1. TreeInv' /\ Active' = Active \ {a} /\ a \in Active
  BY EndInv
<1> QED BY <1>1 DEF End, TreeInv, TreeTypeOK, Active

LEMMA RecordStart ==
  ASSUME RecordingInv, NEW e \in NewStarts, trace' = Append(trace, e),
         NEW a, a = e.id, NEW p, p = e.parent, NEW k, k = e.kind, StartFirst(a, p, k)
  PROVE  RecordingInv'
<1>1. /\ WellFormed(trace) /\ FirstPassInv /\ RecordsTrace /\ TreeReplayed
      /\ TimesInv /\ ComponentsInv /\ TreeInv
  BY DEF RecordingInv, FirstPassInv, TimesInv
<1>2. /\ e \in StartEvent /\ e \in Event /\ e.type = "start"
      /\ a \in Activities /\ p \in Activities \cup {Null} /\ k \in Kinds
      /\ a = NextId
      /\ p # Null => p \in Active
  BY <1>1 DEF NewStarts, StartEvent, Event, Active
<1>3. a = Cardinality(StartsIn(trace)) + 1
  BY <1>2 DEF NextId, StartsIn
<1>4. p # Null => p \in IdsIn(trace)
  BY <1>1, <1>2 DEF TreeReplayed
<1>5. past[a] = Null /\ a \notin IdsIn(trace)
  BY <1>1, <1>2 DEF StartFirst, RecordsTrace
<1>6. WellFormed(trace')
  BY <1>1, <1>2, <1>3, <1>4, AppendedWellFormed
<1>7. /\ \A x \in IdsIn(trace) : KindIn(trace', x) = KindIn(trace, x)
                                 /\ ParentIn(trace', x) = ParentIn(trace, x)
      /\ KindIn(trace', a) = k /\ ParentIn(trace', a) = p
      /\ \A x : SameStops(trace, trace', x)
  BY <1>1, <1>2, <1>6, AppendedStart
<1>8. IdsIn(trace') = IdsIn(trace) \cup {a}
  <2>1. IdsIn(trace') = IdsIn(trace) \cup {e.id}
    BY <1>1, <1>2, <1>6, AppendedStart
  <2> QED BY <2>1
<1>9. FirstPassInv'
  BY <1>1, <1>2, FirstPassNextInv DEF FirstPassNext
<1>10. /\ past' = [past EXCEPT ![a] = [kind |-> k, parts |-> {}]]
       /\ timingData_' = timingData_
       /\ IF p = Null THEN BeginRoot(a, k) ELSE BeginNested(a, p, k)
  BY DEF StartFirst, NoteStart
<1>11. StopsOfIn(trace, a) = {}
  BY <1>1, <1>5 DEF WellFormed, StopsOfIn
<1>12. \A x \in IdsIn(trace) : StoppedPartsIn(trace', x) = StoppedPartsIn(trace, x)
  BY <1>7, <1>8, <1>11 DEF StoppedPartsIn, SameStops
<1>13. StoppedPartsIn(trace', a) = {}
  <2>1. \A x \in IdsIn(trace) : ParentIn(trace, x) # a
    BY <1>1, <1>2, <1>5, NullAssumption, StartedFacts
  <2> QED BY <1>7, <1>8, <1>11, <2>1 DEF StoppedPartsIn, SameStops
<1>14. RecordsTrace'
  <2>1. past \in [Activities -> History \cup {Null}]
    BY <1>1 DEF TimesInv, TimingTypeOK
  <2>2. \A x \in Activities : past'[x] # Null <=> x \in IdsIn(trace')
    <3>1. past'[a] # Null
      BY <1>9, <1>2, <1>10, <2>1, NoTimingAssumption DEF History
    <3> QED BY <1>1, <1>2, <1>8, <1>10, <2>1, <3>1 DEF RecordsTrace
  <2>3. \A x \in IdsIn(trace') : /\ past'[x].kind = KindIn(trace', x)
                                 /\ past'[x].parts = StoppedPartsIn(trace', x)
    <3>1. past'[a].kind = k /\ past'[a].parts = {}
      BY <1>2, <1>10, <2>1
    <3>2. \A x \in IdsIn(trace) : past'[x] = past[x] /\ x # a
      BY <1>1, <1>5, <1>10, <2>1, StartedFacts
    <3> QED BY <1>1, <1>7, <1>8, <1>12, <1>13, <3>1, <3>2 DEF RecordsTrace
  <2>4. \A x \in Activities : TimeRecorded(x)'
    BY <1>1, <1>7, <1>10 DEF RecordsTrace, TimeRecorded, SameStops
  <2> QED BY <2>2, <2>3, <2>4 DEF RecordsTrace
<1>15. TreeReplayed'
  <2>1. /\ Active' = Active \cup {a} /\ kind'[a] = k /\ parent'[a] = p
        /\ \A x \in Active : kind'[x] = kind[x] /\ parent'[x] = parent[x]
    BY <1>1, <1>2, <1>10, TreeStarts
  <2> QED BY <1>1, <1>7, <1>8, <2>1 DEF TreeReplayed
<1> QED BY <1>6, <1>9, <1>14, <1>15 DEF RecordingInv

LEMMA RecordStop ==
  ASSUME RecordingInv, NEW e \in NewStops, trace' = Append(trace, e),
         NEW a, a = e.id, NEW d, d = e.duration, StopFirst(a, d)
  PROVE  RecordingInv'
<1>1. /\ WellFormed(trace) /\ FirstPassInv /\ RecordsTrace /\ TreeReplayed
      /\ TimesInv /\ ComponentsInv /\ TreeInv
  BY DEF RecordingInv, FirstPassInv, TimesInv
<1>2. /\ e \in StopEvent /\ e \in Event /\ e.type = "stop"
      /\ a \in Activities /\ a \in Active /\ d \in Durations
  BY <1>1 DEF NewStops, StopEvent, Event, Active
<1>3. a \in IdsIn(trace) /\ kind[a] = KindIn(trace, a) /\ parent[a] = ParentIn(trace, a)
  BY <1>1, <1>2 DEF TreeReplayed
<1>4. StopsOfIn(trace, a) = {}
  BY <1>1, <1>2 DEF TimesInv, RecordsFresh, RecordsTrace, TimeRecorded
<1>5. WellFormed(trace')
  <2>1. \A i \in StopsIn(trace) : trace[i].id # a
    BY <1>4 DEF StopsIn, StopsOfIn
  <2> QED BY <1>1, <1>2, <1>3, <2>1, AppendedWellFormed
<1>6. /\ \A x \in IdsIn(trace) : KindIn(trace', x) = KindIn(trace, x)
                                 /\ ParentIn(trace', x) = ParentIn(trace, x)
      /\ DurationIn(trace', a) = d /\ StopsOfIn(trace', a) # {}
      /\ \A x : x = a \/ SameStops(trace, trace', x)
  BY <1>1, <1>2, <1>5, AppendedStop
<1>7. IdsIn(trace') = IdsIn(trace)
  BY <1>1, <1>2, <1>5, AppendedStop
<1>8. FirstPassInv'
  BY <1>1, <1>2, FirstPassNextInv DEF FirstPassNext
<1>9. End(a) /\ RecordTimes(a, d)
  BY DEF StopFirst
<1>10. \A x \in Activities : StoppedPartsIn(trace', x) =
         StoppedPartsIn(trace, x) \cup (IF x = ParentIn(trace, a) THEN {KindIn(trace, a)} ELSE {})
  <2> TAKE x \in Activities
  <2> DEFINE C == {c \in IdsIn(trace) : StopsOfIn(trace, c) # {} /\ ParentIn(trace, c) = x}
             D == {c \in IdsIn(trace') : StopsOfIn(trace', c) # {} /\ ParentIn(trace', c) = x}
  <2>1. D = C \cup (IF x = ParentIn(trace, a) THEN {a} ELSE {})
    BY <1>3, <1>4, <1>6, <1>7 DEF SameStops
  <2>2. \A c \in D : KindIn(trace', c) = KindIn(trace, c)
    BY <1>6, <1>7
  <2> HIDE DEF C, D
  <2>3. {KindIn(trace', c) : c \in D} =
          {KindIn(trace, c) : c \in C} \cup (IF x = ParentIn(trace, a) THEN {KindIn(trace, a)} ELSE {})
    <3>1. CASE x = ParentIn(trace, a)
      BY <2>1, <2>2, <3>1
    <3>2. CASE x # ParentIn(trace, a)
      BY <2>1, <2>2, <3>2
    <3> QED BY <3>1, <3>2
  <2> QED BY <2>3 DEF StoppedPartsIn, C, D
<1>11. RecordsTrace'
  <2>1. /\ past \in [Activities -> History \cup {Null}]
        /\ timingData_ \in [Activities -> TimingData \cup {Null}]
    BY <1>1 DEF TimesInv, TimingTypeOK
  <2>2. \A x \in Activities :
          past'[x] = IF x = parent[a] THEN [past[x] EXCEPT !.parts = @ \cup {kind[a]}] ELSE past[x]
    BY <1>9 DEF RecordTimes
  <2>3. \A x \in IdsIn(trace) : x \in Activities /\ past[x] \in History
    BY <1>1, <2>1, StartedFacts DEF RecordsTrace
  <2>4. parent[a] \in IdsIn(trace) \/ parent[a] = Null
    BY <1>1, <1>3, StartedFacts
  <2>5. \A x \in IdsIn(trace) :
          /\ past'[x].kind = past[x].kind
          /\ past'[x].parts = past[x].parts \cup (IF x = parent[a] THEN {kind[a]} ELSE {})
    BY <2>2, <2>3 DEF History
  <2>6. \A x \in Activities : past'[x] # Null <=> past[x] # Null
    <3>1. \A x \in Activities : past[x] \in History => past'[x] \in History
      <4>1. kind[a] \in Kinds
        BY <1>1, <1>3, StartedFacts
      <4> SUFFICES ASSUME NEW x \in Activities, past[x] \in History
                   PROVE  past'[x] \in History
        OBVIOUS
      <4>2. CASE x = parent[a]
        <5>1. past'[x] = [past[x] EXCEPT !.parts = @ \cup {kind[a]}]
          BY <2>2, <4>2
        <5> QED BY <4>1, <5>1 DEF History
      <4>3. CASE x # parent[a]
        BY <2>2, <4>3
      <4> QED BY <4>2, <4>3
    <3>2. \A x \in Activities : past[x] = Null => past'[x] = Null
      BY <1>1, <2>2, <2>4, NullAssumption DEF RecordsTrace
    <3>3. Null \notin History
      BY TimingRecords
    <3> QED BY <2>1, <3>1, <3>2, <3>3
  <2>7. \A x \in IdsIn(trace') : /\ past'[x].kind = KindIn(trace', x)
                                 /\ past'[x].parts = StoppedPartsIn(trace', x)
    <3> TAKE x \in IdsIn(trace')
    <3>1. x \in IdsIn(trace) /\ x \in Activities
      BY <1>7, <2>3
    <3>2. past[x].kind = KindIn(trace, x) /\ past[x].parts = StoppedPartsIn(trace, x)
      BY <1>1, <3>1 DEF RecordsTrace
    <3>3. past'[x].kind = KindIn(trace', x)
      BY <1>6, <2>5, <3>1, <3>2
    <3>4. past'[x].parts = StoppedPartsIn(trace', x)
      <4>1. past'[x].parts = past[x].parts \cup (IF x = parent[a] THEN {kind[a]} ELSE {})
        BY <2>5, <3>1
      <4>2. StoppedPartsIn(trace', x) = StoppedPartsIn(trace, x)
              \cup (IF x = ParentIn(trace, a) THEN {KindIn(trace, a)} ELSE {})
        BY <1>10, <3>1
      <4> QED BY <1>3, <3>2, <4>1, <4>2
    <3> QED BY <3>3, <3>4
  <2>8. \A x \in Activities : TimeRecorded(x)'
    <3>1. PICK ex \in {"own", "whole"} :
            timingData_' = [timingData_ EXCEPT ![a] = [Duration |-> d, Exclusive |-> ex]]
      BY <1>9 DEF RecordTimes
    <3>2. [Duration |-> d, Exclusive |-> ex] \notin {Null, NoTimes}
      BY <1>2, TimingRecords
    <3>3. TimeRecorded(a)'
      BY <1>2, <1>6, <2>1, <3>1, <3>2 DEF TimeRecorded, NoTimes
    <3>4. \A x \in Activities \ {a} : TimeRecorded(x)'
      BY <1>1, <1>6, <2>1, <3>1 DEF RecordsTrace, TimeRecorded, NoTimes, SameStops
    <3> QED BY <3>3, <3>4
  <2> QED BY <1>1, <1>7, <2>6, <2>7, <2>8 DEF RecordsTrace
<1>12. TreeReplayed'
  BY <1>1, <1>2, <1>6, <1>7, <1>9, TreeStops DEF TreeReplayed
<1> QED BY <1>5, <1>8, <1>11, <1>12 DEF RecordingInv

LEMMA NewSimpleEvents ==
  ASSUME NEW e \in NewSimples
  PROVE  /\ e \in SimpleEvent /\ e \in Event /\ e.type = "simple"
         /\ e.id \in Active
<1> DEFINE W == UNION {EventKinds[k] : k \in Kinds}
           Simples(a, w) ==
             [type : {"simple"}, id : {a}, what : {w},
              name : IF w = "EnvironmentVariable" THEN EnvNames ELSE {w},
              value : IF w = "CommandLine" THEN Values ELSE {<<>>}]
<1>0. e \in UNION {Simples(a, w) : a \in Active, w \in W}
  BY DEF NewSimples
<1> HIDE DEF Simples, W
<1>1. PICK a \in Active, w \in W : e \in Simples(a, w)
  BY <1>0
<1>2. w \in STRING
  BY EventAssumption DEF W
<1> USE DEF Simples
<1>3. e.value \in Seq(Nat)
  <2>1. e.value \in Values \cup {<<>>}
    BY <1>1
  <2>2. <<>> \in Seq(Nat)
    OBVIOUS
  <2> QED BY <2>1, <2>2, SessionAssumption
<1>4. e.name \in EnvNames \cup STRING /\ (e.what # "EnvironmentVariable" => e.name = e.what)
  BY <1>1, <1>2
<1>5. e = [type |-> "simple", id |-> a, what |-> w, name |-> e.name, value |-> e.value]
  BY <1>1
<1>6. e \in SimpleEvent
  BY <1>2, <1>3, <1>4, <1>5 DEF SimpleEvent, Active
<1> QED BY <1>1, <1>6 DEF Event

LEMMA RecordSimple ==
  ASSUME RecordingInv, NEW e \in NewSimples, trace' = Append(trace, e), Len(trace) < MaxEvents,
         NEW a, a = e.id, NEW w, SimpleFirst(a, w, Len(trace) + 1)
  PROVE  RecordingInv'
<1>1. /\ WellFormed(trace) /\ FirstPassInv /\ RecordsTrace /\ TreeReplayed
      /\ TimesInv /\ ComponentsInv /\ TreeInv
  BY DEF RecordingInv, FirstPassInv, TimesInv
<1>2. /\ e \in SimpleEvent /\ e \in Event /\ e.type = "simple"
      /\ a \in Activities /\ a \in Active
  BY NewSimpleEvents DEF Active
<1>3. a \in IdsIn(trace)
  BY <1>1, <1>2 DEF TreeReplayed
<1>4. WellFormed(trace')
  BY <1>1, <1>2, <1>3, AppendedWellFormed
<1>5. /\ \A x \in IdsIn(trace) : KindIn(trace', x) = KindIn(trace, x)
                                 /\ ParentIn(trace', x) = ParentIn(trace, x)
      /\ \A x : SameStops(trace, trace', x)
  BY <1>1, <1>2, <1>4, AppendedSimple
<1>6. IdsIn(trace') = IdsIn(trace)
  BY <1>1, <1>2, <1>4, AppendedSimple
<1>7. UNCHANGED <<treeVars, timingVars>>
  BY DEF SimpleFirst
<1>8. FirstPassInv'
  <2>1. CASE w \in ComponentEvents
    <3>1. trace \in Seq(Event) /\ Len(trace) + 1 \in Paths
      <4>1. trace \in Seq(Event)
        BY <1>1 DEF WellFormed
      <4> QED BY <4>1, SessionAssumption, MaxEventsAssumption
    <3> QED BY <1>1, <1>2, <2>1, <3>1, FirstPassNextInv DEF FirstPassNext
  <2>2. CASE w \notin ComponentEvents
    <3>1. Receivers(a, w) = {}
      BY <2>2 DEF Receivers, ComponentEvents
    <3>2. CacheMainComponent(a, w, Len(trace) + 1)
      BY DEF SimpleFirst
    <3>3. mainComponentCache_' = mainComponentCache_ /\ seen' = seen
      BY <1>1, <3>1, <3>2 DEF CacheMainComponent, ComponentsInv, ComponentTypeOK
    <3> QED BY <1>1, <1>7, <3>3, FirstPassNextInv DEF firstPassVars, componentVars
  <2> QED BY <2>1, <2>2
<1>9. \A x : StoppedPartsIn(trace', x) = StoppedPartsIn(trace, x)
  BY <1>5, <1>6 DEF StoppedPartsIn, SameStops
<1>10. past' = past /\ timingData_' = timingData_ /\ kind' = kind /\ parent' = parent
  BY <1>7 DEF timingVars, treeVars
<1>11. RecordsTrace'
  BY <1>1, <1>5, <1>6, <1>9, <1>10 DEF RecordsTrace, TimeRecorded, SameStops
<1>12. TreeReplayed'
  BY <1>1, <1>5, <1>6, <1>10 DEF TreeReplayed, Active
<1> QED BY <1>4, <1>8, <1>11, <1>12 DEF RecordingInv

-----------------------------------------------------------------------------
(* Activities and those they run on behalf of. *)

\* a, its parent if a is in D, the parent of that if that is in D, and so on.
UpFrom(t, a, D) ==
  {x \in IdsIn(t) : \A S \in SUBSET IdsIn(t) :
     a \in S /\ (\A y \in S : y \in D => ParentIn(t, y) \in S) => x \in S}

Nested(t) == {y \in IdsIn(t) : ParentIn(t, y) # Null}
Included(t) == {y \in Nested(t) : KindIn(t, ParentIn(t, y)) = "FrontEndFile"}

LEMMA UpFromSteps ==
  ASSUME NEW t, WellFormed(t), NEW D \in SUBSET Nested(t), NEW a \in IdsIn(t)
  PROVE  /\ a \in UpFrom(t, a, D)
         /\ \A y \in UpFrom(t, a, D) : y \in D => ParentIn(t, y) \in UpFrom(t, a, D)
         /\ \A x \in UpFrom(t, a, D) : x <= a
<1>1. \A y \in D : ParentIn(t, y) \in IdsIn(t) /\ ParentIn(t, y) < y
  BY StartedFacts DEF Nested
<1>2. a \in UpFrom(t, a, D)
  BY DEF UpFrom
<1>3. \A y \in UpFrom(t, a, D) : y \in D => ParentIn(t, y) \in UpFrom(t, a, D)
  BY <1>1 DEF UpFrom
<1>4. \A x \in UpFrom(t, a, D) : x <= a
  <2> DEFINE S == {x \in IdsIn(t) : x <= a}
  <2>1. \A x \in IdsIn(t) : x \in Nat
    BY StartedFacts, ActivityIds
  <2>2. a \in S
    BY <2>1
  <2>3. \A y \in S : y \in D => ParentIn(t, y) \in S
    BY <1>1, <2>1
  <2>4. \A x \in UpFrom(t, a, D) : x \in S
    <3> HIDE DEF S
    <3>1. S \in SUBSET IdsIn(t)
      BY DEF S
    <3> QED BY <2>2, <2>3, <3>1 DEF UpFrom
  <2> QED BY <2>4
<1> QED BY <1>2, <1>3, <1>4

LEMMA UpFromAlone ==
  ASSUME NEW t, NEW D, NEW a \in IdsIn(t), a \notin D
  PROVE  UpFrom(t, a, D) = {a}
<1>1. \A x \in UpFrom(t, a, D) : x \in {a}
  BY DEF UpFrom
<1>2. a \in UpFrom(t, a, D)
  BY DEF UpFrom
<1> QED BY <1>1, <1>2

LEMMA UpFromParent ==
  ASSUME NEW t, WellFormed(t), NEW D \in SUBSET Nested(t), NEW a \in D
  PROVE  UpFrom(t, a, D) = UpFrom(t, ParentIn(t, a), D) \cup {a}
<1> DEFINE p == ParentIn(t, a)
           U == UpFrom(t, p, D)
<1>1. a \in IdsIn(t) /\ p \in IdsIn(t) /\ U \subseteq IdsIn(t)
  BY StartedFacts DEF Nested, UpFrom
<1>2. p \in U /\ \A y \in U : y \in D => ParentIn(t, y) \in U
  BY <1>1, UpFromSteps
<1>3. \A x \in UpFrom(t, a, D) : x \in U \cup {a}
  <2>1. \A y \in U \cup {a} : y \in D => ParentIn(t, y) \in U \cup {a}
    BY <1>2
  <2>2. U \cup {a} \in SUBSET IdsIn(t) /\ a \in U \cup {a}
    BY <1>1
  <2> HIDE DEF U, p
  <2> QED BY <2>1, <2>2 DEF UpFrom
<1>4. \A x \in U : x \in UpFrom(t, a, D)
  BY DEF UpFrom
<1>5. a \in UpFrom(t, a, D)
  BY <1>1 DEF UpFrom
<1> QED BY <1>3, <1>4, <1>5

LEMMA TraceChains ==
  \A a : /\ ChainOf(a) = UpFrom(trace, a, Nested(trace))
         /\ InclusionsOf(a) = UpFrom(trace, a, Included(trace))
<1> TAKE a
<1>1. /\ Started = IdsIn(trace)
      /\ \A y : ParentOf(y) = ParentIn(trace, y) /\ KindOf(y) = KindIn(trace, y)
  BY TraceTells
<1>2. \A S \in SUBSET Started : \A y \in S :
        /\ y \in Nested(trace) <=> ParentOf(y) # Null
        /\ y \in Included(trace) <=> IncludedByFile(y)
  BY <1>1 DEF Nested, Included, IncludedByFile
<1>3. ChainOf(a) = UpFrom(trace, a, Nested(trace))
  BY <1>1, <1>2 DEF ChainOf, UpFrom
<1>4. InclusionsOf(a) = UpFrom(trace, a, Included(trace))
  BY <1>1, <1>2 DEF InclusionsOf, UpFrom
<1> QED BY <1>3, <1>4

-----------------------------------------------------------------------------
(* The later passes go through the event stacks of the first one. *)

StacksReplayed ==
  \A a \in Active :
    /\ stack[a] = UpFrom(trace, a, Nested(trace))
    /\ kind[a] = "FrontEndFile" => FileGroup(a) = UpFrom(trace, a, Included(trace))

LEMMA ReplayStart ==
  ASSUME WellFormed(trace), TreeInv, TreeReplayed, trace' = trace,
         NEW i \in StartsIn(trace),
         NEW a, a = trace[i].id, NEW p, p = trace[i].parent, NEW k, k = trace[i].kind,
         IF p = Null THEN BeginRoot(a, k) ELSE BeginNested(a, p, k)
  PROVE  /\ TreeInv' /\ TreeReplayed'
         /\ Active' = Active \cup {a} /\ a \notin Active
         /\ a \in IdsIn(trace) /\ k = KindIn(trace, a) /\ p = ParentIn(trace, a)
         /\ p # Null => p \in Active
         /\ kind'[a] = k /\ parent'[a] = p
         /\ stack'[a] = IF p = Null THEN {a} ELSE stack[p] \cup {a}
<1>1. /\ a \in IdsIn(trace) /\ k = KindIn(trace, a) /\ p = ParentIn(trace, a)
      /\ a \in Activities /\ k \in Kinds /\ p \in Activities \cup {Null}
  BY StartFound DEF IdsIn, StartEvent
<1>2. /\ TreeInv'
      /\ Active' = Active \cup {a} /\ a \notin Active
      /\ kind'[a] = k /\ parent'[a] = p
      /\ p # Null => p \in Active
      /\ \A x \in Active : kind'[x] = kind[x] /\ parent'[x] = parent[x]
      /\ stack'[a] = IF p = Null THEN {a} ELSE stack[p] \cup {a}
  BY <1>1, TreeStarts
<1>3. TreeReplayed'
  BY <1>1, <1>2 DEF TreeReplayed
<1> QED BY <1>1, <1>2, <1>3

LEMMA ReplayStop ==
  ASSUME TreeInv, TreeReplayed, trace' = trace, NEW a \in Activities, End(a)
  PROVE  TreeInv' /\ TreeReplayed' /\ Active' = Active \ {a}
<1>1. TreeInv' /\ Active' = Active \ {a}
      /\ \A x \in Active' : kind'[x] = kind[x] /\ parent'[x] = parent[x]
  BY TreeStops
<1> QED BY <1>1 DEF TreeReplayed

\* The group of a file, from its event stack and from the group of its parent.
FileGroupsRight ==
  \A a \in Active : kind[a] = "FrontEndFile" =>
    /\ FileGroup(a) =
         {x \in stack[a] : \A y \in stack[a] : x \in stack[y] => kind[y] = "FrontEndFile"}
    /\ FileGroup(a) = IF parent[a] # Null /\ kind[parent[a]] = "FrontEndFile"
                        THEN FileGroup(parent[a]) \cup {a} ELSE {a}

LEMMA FileGroups == TreeInv => FileGroupsRight
<1> DEFINE Files(b) ==
      {x \in stack[b] : \A y \in stack[b] : x \in stack[y] => kind[y] = "FrontEndFile"}
<1>1. ASSUME TreeInv, NEW a \in Active, kind[a] = "FrontEndFile"
      PROVE  FileGroup(a) = Files(a)
  <2>1. /\ a \in stack[a]
        /\ \A x \in stack[a] \ {a} : a \notin stack[x]
    BY <1>1 DEF TreeInv
  <2>2. Innermost(a, {"FrontEndFile"}) = {a}
    BY <1>1, <2>1 DEF Innermost
  <2> QED BY <2>2 DEF FileGroup, InnermostGroup
<1>2. ASSUME TreeInv, NEW a \in Active, kind[a] = "FrontEndFile"
      PROVE  FileGroup(a) = IF parent[a] # Null /\ kind[parent[a]] = "FrontEndFile"
                             THEN FileGroup(parent[a]) \cup {a} ELSE {a}
  <2> DEFINE p == parent[a]
  <2>1. CASE p = Null
    <3>1. stack[a] = {a}
      BY <1>2, <2>1 DEF TreeInv
    <3> QED BY <1>1, <1>2, <2>1, <3>1
  <2>2. CASE p # Null
    <3>1. /\ p \in Active /\ stack[a] = stack[p] \cup {a} /\ a \notin stack[p]
          /\ a \in stack[a] /\ p \in stack[p]
          /\ \A x \in stack[p] : stack[x] \subseteq stack[p]
          /\ \A x \in stack[a] \ {a} : a \notin stack[x]
      BY <1>2, <2>2 DEF TreeInv
    <3>2. CASE kind[p] = "FrontEndFile"
      <4>1. FileGroup(a) = Files(a) /\ FileGroup(p) = Files(p)
        BY <1>1, <1>2, <3>1, <3>2
      <4>2. \A x \in stack[p] : x \in Files(a) <=> x \in Files(p)
        BY <1>2, <3>1
      <4>3. a \in Files(a)
        BY <1>2, <3>1
      <4>4. Files(a) = Files(p) \cup {a}
        BY <3>1, <4>2, <4>3
      <4> QED BY <2>2, <3>2, <4>1, <4>4
    <3>3. CASE kind[p] # "FrontEndFile"
      <4>1. \A x \in stack[p] : x \notin Files(a)
        BY <3>1, <3>3
      <4>2. a \in Files(a)
        BY <1>2, <3>1
      <4>3. Files(a) = {a}
        BY <3>1, <4>1, <4>2
      <4>4. FileGroup(a) = Files(a)
        BY <1>1, <1>2
      <4> QED BY <3>3, <4>3, <4>4
    <3> QED BY <3>2, <3>3
  <2> QED BY <2>1, <2>2
<1> QED BY <1>1, <1>2 DEF FileGroupsRight

LEMMA FileGroupKept ==
  ASSUME TreeInv, NEW a \in Active, kind[a] = "FrontEndFile", TreeInv', a \in Active',
         stack'[a] = stack[a],
         \A y \in stack[a] : stack'[y] = stack[y] /\ kind'[y] = kind[y]
  PROVE  FileGroup(a)' = FileGroup(a)
<1>1. a \in stack[a]
  BY DEF TreeInv
<1>2. kind'[a] = "FrontEndFile"
  BY <1>1
<1>3. FileGroup(a) =
        {x \in stack[a] : \A y \in stack[a] : x \in stack[y] => kind[y] = "FrontEndFile"}
  BY FileGroups DEF FileGroupsRight
<1>4. FileGroupsRight'
  BY FileGroups, PTL
<1>5. FileGroup(a)' =
        {x \in stack'[a] : \A y \in stack'[a] : x \in stack'[y] => kind'[y] = "FrontEndFile"}
  BY <1>2, <1>4 DEF FileGroupsRight
<1> QED BY <1>3, <1>5

LEMMA StacksStart ==
  ASSUME WellFormed(trace), TreeInv, TreeReplayed, StacksReplayed, trace' = trace,
         NEW i \in StartsIn(trace),
         NEW a, a = trace[i].id, NEW p, p = trace[i].parent, NEW k, k = trace[i].kind,
         IF p = Null THEN BeginRoot(a, k) ELSE BeginNested(a, p, k)
  PROVE  StacksReplayed'
<1>1. /\ TreeInv' /\ TreeReplayed'
      /\ Active' = Active \cup {a} /\ a \notin Active
      /\ a \in IdsIn(trace) /\ k = KindIn(trace, a) /\ p = ParentIn(trace, a)
      /\ p # Null => p \in Active
      /\ kind'[a] = k /\ parent'[a] = p
      /\ stack'[a] = IF p = Null THEN {a} ELSE stack[p] \cup {a}
  BY ReplayStart
<1>2. a \in Activities /\ Null \notin Activities
  BY <1>1, StartedFacts, NullAssumption
<1>3. \A x \in Active : /\ x # a /\ stack'[x] = stack[x] /\ kind'[x] = kind[x]
                        /\ stack[x] \subseteq Active
  BY <1>1, <1>2 DEF BeginRoot, BeginNested, TreeInv, TreeTypeOK, Active
<1>4. \A x \in Active : x \in Active' /\ (kind[x] = "FrontEndFile" => FileGroup(x)' = FileGroup(x))
  BY <1>1, <1>3, FileGroupKept
<1>5. stack'[a] = UpFrom(trace, a, Nested(trace))
  <2>1. CASE p = Null
    <3>1. a \notin Nested(trace)
      BY <1>1, <2>1 DEF Nested
    <3> QED BY <1>1, <2>1, <3>1, UpFromAlone
  <2>2. CASE p # Null
    <3>1. a \in Nested(trace)
      BY <1>1, <2>2 DEF Nested
    <3>2. UpFrom(trace, a, Nested(trace)) = UpFrom(trace, p, Nested(trace)) \cup {a}
      BY <1>1, <3>1, UpFromParent
    <3>3. stack[p] = UpFrom(trace, p, Nested(trace))
      BY <1>1, <2>2 DEF StacksReplayed
    <3> QED BY <1>1, <2>2, <3>2, <3>3
  <2> QED BY <2>1, <2>2
<1>6. ASSUME k = "FrontEndFile" PROVE FileGroup(a)' = UpFrom(trace, a, Included(trace))
  <2>1. FileGroupsRight'
    BY <1>1, FileGroups, PTL
  <2>2. FileGroup(a)' = IF p # Null /\ kind'[p] = "FrontEndFile"
                         THEN FileGroup(parent[a])' \cup {a} ELSE {a}
    BY <1>1, <1>6, <2>1 DEF FileGroupsRight
  <2>3. p # Null => kind'[p] = kind[p] /\ kind[p] = KindIn(trace, p)
    BY <1>1, <1>3 DEF TreeReplayed
  <2>4. a \in Included(trace) <=> p # Null /\ kind'[p] = "FrontEndFile"
    BY <1>1, <2>3 DEF Included, Nested
  <2>5. CASE a \in Included(trace)
    <3>1. Included(trace) \in SUBSET Nested(trace)
      BY DEF Included
    <3>2. UpFrom(trace, a, Included(trace)) = UpFrom(trace, p, Included(trace)) \cup {a}
      BY <1>1, <2>5, <3>1, UpFromParent
    <3>3. p \in Active /\ kind[p] = "FrontEndFile"
      BY <1>1, <2>3, <2>4, <2>5
    <3>4. FileGroup(p) = UpFrom(trace, p, Included(trace))
      BY <3>3 DEF StacksReplayed
    <3>5. FileGroup(parent[a])' = FileGroup(p)'
      BY <1>1 DEF FileGroup, InnermostGroup, Innermost
    <3>6. FileGroup(p)' = FileGroup(p)
      BY <1>4, <3>3
    <3> QED BY <2>2, <2>4, <2>5, <3>2, <3>4, <3>5, <3>6
  <2>6. CASE a \notin Included(trace)
    BY <1>1, <2>2, <2>4, <2>6, UpFromAlone
  <2> QED BY <2>5, <2>6
<1>7. \A x \in Active' :
        /\ stack'[x] = UpFrom(trace, x, Nested(trace))
        /\ kind'[x] = "FrontEndFile" => FileGroup(x)' = UpFrom(trace, x, Included(trace))
  <2> TAKE x \in Active'
  <2>1. CASE x = a
    BY <1>1, <1>5, <1>6, <2>1
  <2>2. CASE x \in Active
    BY <1>3, <1>4, <2>2 DEF StacksReplayed
  <2> QED BY <1>1, <2>1, <2>2
<1> QED BY <1>7 DEF StacksReplayed

LEMMA StacksStop ==
  ASSUME TreeInv, TreeReplayed, StacksReplayed, trace' = trace, NEW a \in Activities, End(a)
  PROVE  StacksReplayed'
<1>1. /\ TreeInv' /\ Active' = Active \ {a}
      /\ \A b \in Active \ {a} : a \notin stack[b]
  BY EndInv
<1>2. \A x \in Active' : /\ x \in Active
                         /\ stack'[x] = stack[x] /\ kind'[x] = kind[x]
                         /\ \A y \in stack[x] : stack'[y] = stack[y] /\ kind'[y] = kind[y]
  BY <1>1 DEF End, TreeInv, TreeTypeOK, Active
<1>3. \A x \in Active' : kind[x] = "FrontEndFile" => FileGroup(x)' = FileGroup(x)
  BY <1>1, <1>2, FileGroupKept
<1> QED BY <1>2, <1>3 DEF StacksReplayed

-----------------------------------------------------------------------------
(* The contexts of the relogging pass are those of ContextBuilder. *)

CP == INSTANCE ContextBuilderProofs WITH
        mainComponentCache_ <- {a \in Activities : MainPath(a) # NoPath},
        MainComponents <- Activities,
        JoinBeforeNesting <- FALSE

LEMMA SameRecords ==
  /\ CB!TimelineIds = CP!TimelineIds
  /\ CB!ContextData = CP!ContextData
  /\ CB!ContextLink = CP!ContextLink
  BY DEF CB!TimelineIds, CP!TimelineIds, CB!ContextData, CP!ContextData, CB!ContextLink,
         CP!ContextLink, CB!ComponentRefs, CP!ComponentRefs

LEMMA ContextAssumptions ==
  /\ CP!UShortAssumption /\ CP!MainComponentsAssumption /\ CP!JoinAssumption
  /\ CP!NoEntryAssumption /\ CP!NullAssumption /\ CP!NestingAssumption
<1>1. CP!UShortAssumption
  BY ContextAssumption DEF CP!UShortAssumption
<1>2. CP!MainComponentsAssumption /\ CP!JoinAssumption
  BY DEF CP!MainComponentsAssumption, CP!JoinAssumption
<1>3. CP!NoEntryAssumption
  BY SameRecords, ContextAssumption DEF CP!NoEntryAssumption
<1>4. CP!NullAssumption
  BY NullAssumption DEF CP!NullAssumption, CP!Kinds, Kinds
<1>5. CP!NestingAssumption
  BY NestingAssumption DEF CP!NestingAssumption, CP!Kinds, Kinds
<1> QED BY <1>1, <1>2, <1>3, <1>4, <1>5

LEMMA RelogInit == CP!Init => CP!AttributionInv
  BY CP!AttributionInit, ContextAssumptions

LEMMA RelogNext ==
  ASSUME CP!AttributionInv, CP!Next
  PROVE  CP!AttributionInv' /\ CP!ContextStable
  BY CP!AttributionNext, ContextAssumptions

LEMMA SameCardinality == \A S : CB!Cardinality(S) = CP!Cardinality(S)
  BY DEF CB!Cardinality, CP!Cardinality

LEMMA SameTimelines ==
  /\ CB!Pooled = CP!Pooled
  /\ CB!NewTimelineId = CP!NewTimelineId
  /\ CB!GetNewTimelineId => CP!GetNewTimelineId
  /\ \A t : CB!ReturnTimelineId(t) => CP!ReturnTimelineId(t)
<1>1. CB!Pooled = CP!Pooled
  BY DEF CB!Pooled, CP!Pooled, CB!TimelineIds, CP!TimelineIds
<1>2. CB!NewTimelineId = CP!NewTimelineId
  BY <1>1 DEF CB!NewTimelineId, CP!NewTimelineId
<1>3. CB!GetNewTimelineId => CP!GetNewTimelineId
  BY <1>1, <1>2, SameCardinality DEF CB!GetNewTimelineId, CP!GetNewTimelineId
<1>4. \A t : CB!ReturnTimelineId(t) => CP!ReturnTimelineId(t)
  BY DEF CB!ReturnTimelineId, CP!ReturnTimelineId
<1> QED BY <1>1, <1>2, <1>3, <1>4

LEMMA SameLinks ==
  /\ \A a : /\ CB!LinkedContext(a) = CP!LinkedContext(a)
            /\ CB!ReuseCount(a) = CP!ReuseCount(a)
            /\ CB!TimelineOf(a) = CP!TimelineOf(a)
            /\ CB!ReusedOnceMore(a) = CP!ReusedOnceMore(a)
            /\ CB!ReusedOnceLess(a) = CP!ReusedOnceLess(a)
            /\ CB!NewLink(a) = CP!NewLink(a)
  /\ CB!InvocationKinds = CP!InvocationKinds
  /\ CB!GetContextData = CP!GetContextData
  BY DEF CB!LinkedContext, CP!LinkedContext, CB!ReuseCount, CP!ReuseCount, CB!TimelineOf,
         CP!TimelineOf, CB!ReusedOnceMore, CP!ReusedOnceMore, CB!ReusedOnceLess,
         CP!ReusedOnceLess, CB!NewLink, CP!NewLink, CB!InvocationKinds, CP!InvocationKinds,
         CB!GetContextData, CP!GetContextData

LEMMA SameContexts ==
  /\ \A t : CB!UnknownContext(t) = CP!UnknownContext(t)
  /\ \A a, t : CB!InvocationContext(a, t) = CP!InvocationContext(a, t)
  /\ \A a, p, k, t : CB!ForkContext(a, p, k, t) = CP!ForkContext(a, p, k, t)
  /\ \A a, p, k : CB!NestedContext(a, p, k) = CP!NestedContext(a, p, k)
  /\ \A p, k : CB!IsForkPoint(p, k) <=> CP!IsForkPoint(p, k)
  /\ \A a : CB!CacheInvocationStrings(a) => CP!CacheInvocationStrings(a)
  /\ \A a : CB!EraseContext(a) => CP!EraseContext(a)
  /\ CB!ForgetCurrentContext => CP!ForgetCurrentContext
<1>1. \A a : CB!DropsContext(a) <=> CP!DropsContext(a)
  BY SameLinks DEF CB!DropsContext, CP!DropsContext
<1> QED BY <1>1, SameLinks DEF CB!UnknownContext, CP!UnknownContext, CB!InvocationContext,
         CP!InvocationContext, CB!ForkContext, CP!ForkContext, CB!NestedContext,
         CP!NestedContext, CB!IsForkPoint, CP!IsForkPoint, CB!CacheInvocationStrings,
         CP!CacheInvocationStrings, CB!EraseContext, CP!EraseContext,
         CB!ForgetCurrentContext, CP!ForgetCurrentContext

LEMMA SameTree ==
  /\ \A a, k : CB!BeginRoot(a, k) <=> CP!BeginRoot(a, k)
  /\ \A a, p, k : CB!BeginNested(a, p, k) <=> CP!BeginNested(a, p, k)
  /\ \A a : CB!End(a) <=> CP!End(a)
  BY DEF CB!BeginRoot, CP!BeginRoot, CB!BeginNested, CP!BeginNested, CB!End, CP!End,
         CB!Children, CP!Children

LEMMA RelogStartRoot ==
  ASSUME NEW a \in Activities, NEW k \in Kinds, CB!StartRoot(a, k)
  PROVE  CP!Next
<1>1. CP!StartRoot(a, k)
  BY SameTree, SameTimelines, SameLinks, SameContexts
     DEF CB!StartRoot, CP!StartRoot, CB!stringVars, CP!stringVars
<1> QED BY <1>1 DEF CP!Next, CP!Kinds, Kinds

LEMMA RelogStartNested ==
  ASSUME NEW a \in Activities, NEW p \in Activities, NEW k \in Kinds, CB!StartNested(a, p, k)
  PROVE  CP!Next
<1>1. CP!StartNested(a, p, k)
  BY SameTree, SameTimelines, SameLinks, SameContexts
     DEF CB!StartNested, CP!StartNested, CB!stringVars, CP!stringVars, CB!timelineVars,
         CP!timelineVars
<1> QED BY <1>1 DEF CP!Next, CP!Kinds, Kinds

LEMMA RelogStartFork ==
  ASSUME NEW a \in Activities, NEW p \in Activities, NEW k \in Kinds, CB!StartFork(a, p, k)
  PROVE  CP!Next
<1>1. CP!StartFork(a, p, k)
  BY SameTree, SameTimelines, SameLinks, SameContexts
     DEF CB!StartFork, CP!StartFork, CB!timelineVars, CP!timelineVars
<1> QED BY <1>1 DEF CP!Next, CP!Kinds, Kinds

LEMMA RelogStop ==
  ASSUME NEW a \in Activities, CB!StopRoot(a) \/ CB!StopNested(a)
  PROVE  CP!Next
<1>1. CASE CB!StopRoot(a)
  <2>1. CP!StopRoot(a)
    BY <1>1, SameTree, SameTimelines, SameLinks, SameContexts DEF CB!StopRoot, CP!StopRoot
  <2> QED BY <2>1 DEF CP!Next
<1>2. CASE CB!StopNested(a)
  <2>1. CP!StopNested(a)
    BY <1>2, SameTree, SameTimelines, SameLinks, SameContexts
       DEF CB!StopNested, CP!StopNested, CB!timelineVars, CP!timelineVars
  <2> QED BY <2>1 DEF CP!Next
<1> QED BY <1>1, <1>2

LEMMA RelogSimple ==
  ASSUME NEW a \in Activities \cup {Null}, CB!SimpleEvent(a)
  PROVE  CP!Next
<1>1. CP!SimpleEvent(a)
  BY DEF CB!SimpleEvent, CP!SimpleEvent, CB!Active, CP!Active, CB!treeVars, CP!treeVars,
         CB!timelineVars, CP!timelineVars, CB!stringVars, CP!stringVars
<1> QED BY <1>1 DEF CP!Next

-----------------------------------------------------------------------------
(* Sequences of injected events. *)

IsSeq(s) == \E S : s \in Seq(S)

\* u is s with n after it.
Joined(s, n, u) ==
  /\ IsSeq(u)
  /\ Len(s) \in Nat /\ Len(n) \in Nat
  /\ DOMAIN s = 1 .. Len(s) /\ DOMAIN n = 1 .. Len(n)
  /\ DOMAIN u = 1 .. Len(s) + Len(n)
  /\ \A i \in DOMAIN s : u[i] = s[i]
  /\ \A i \in DOMAIN n : u[Len(s) + i] = n[i]

LEMMA Concatenated ==
  ASSUME NEW s, IsSeq(s), NEW n, IsSeq(n)
  PROVE  Joined(s, n, s \o n)
<1>1. PICK S : s \in Seq(S)
  BY DEF IsSeq
<1>2. PICK T : n \in Seq(T)
  BY DEF IsSeq
<1> DEFINE U == S \cup T
<1>3. s \in Seq(U) /\ n \in Seq(U)
  BY <1>1, <1>2
<1> HIDE DEF U
<1>4. /\ s \o n \in Seq(U)
      /\ Len(s \o n) = Len(s) + Len(n)
      /\ \A i \in 1 .. Len(s) + Len(n) : (s \o n)[i] = IF i <= Len(s) THEN s[i] ELSE n[i - Len(s)]
  BY <1>3, ConcatProperties
<1>5. /\ Len(s) \in Nat /\ Len(n) \in Nat
      /\ DOMAIN s = 1 .. Len(s) /\ DOMAIN n = 1 .. Len(n)
      /\ DOMAIN (s \o n) = 1 .. Len(s \o n)
  BY <1>3, <1>4
<1>6. \A i \in DOMAIN s : (s \o n)[i] = s[i]
  BY <1>4, <1>5
<1>7. \A i \in DOMAIN n : (s \o n)[Len(s) + i] = n[i]
  <2> TAKE i \in DOMAIN n
  <2>1. i \in Nat /\ i >= 1 /\ i <= Len(n) /\ Len(s) + i - Len(s) = i
    BY <1>5
  <2>2. Len(s) + i \in 1 .. Len(s) + Len(n) /\ ~ (Len(s) + i <= Len(s))
    BY <1>5, <2>1
  <2> QED BY <1>4, <2>1, <2>2
<1>8. IsSeq(s \o n)
  BY <1>4 DEF IsSeq
<1> QED BY <1>4, <1>5, <1>6, <1>7, <1>8 DEF Joined

\* Where the events of one sort for an activity are, and the pieces of a property.
ShownAt(s, event, a) == {j \in DOMAIN s : s[j].event = event /\ s[j].id = a}
PiecesAt(s, a, name) == {j \in ShownAt(s, "StringProperty", a) : s[j].data.name = name}

Shifted(k, P) == {k + j : j \in P}

LEMMA ShownConcatenated ==
  ASSUME NEW s, IsSeq(s), NEW n, IsSeq(n), NEW event, NEW a
  PROVE  ShownAt(s \o n, event, a) = ShownAt(s, event, a) \cup Shifted(Len(s), ShownAt(n, event, a))
<1> DEFINE u == s \o n
<1>0. Joined(s, n, u)
  BY Concatenated
<1> HIDE DEF u
<1>1. /\ Len(s) \in Nat /\ Len(n) \in Nat
      /\ DOMAIN s = 1 .. Len(s) /\ DOMAIN n = 1 .. Len(n)
      /\ DOMAIN u = 1 .. Len(s) + Len(n)
      /\ \A i \in DOMAIN s : u[i] = s[i]
      /\ \A i \in DOMAIN n : u[Len(s) + i] = n[i]
  BY <1>0 DEF Joined
<1>2. \A j \in DOMAIN u : \/ j \in DOMAIN s
                          \/ j - Len(s) \in DOMAIN n /\ j = Len(s) + (j - Len(s))
  BY <1>1
<1>3. DOMAIN s \subseteq DOMAIN u /\ \A j \in DOMAIN n : Len(s) + j \in DOMAIN u
  BY <1>1
<1>4. ASSUME NEW j \in ShownAt(u, event, a)
      PROVE  j \in ShownAt(s, event, a) \cup Shifted(Len(s), ShownAt(n, event, a))
  <2>1. CASE j \in DOMAIN s
    BY <1>1, <1>4, <2>1 DEF ShownAt
  <2>2. CASE j - Len(s) \in DOMAIN n /\ j = Len(s) + (j - Len(s))
    <3>1. u[j] = n[j - Len(s)]
      BY <1>1, <2>2
    <3>2. j - Len(s) \in ShownAt(n, event, a)
      BY <1>4, <2>2, <3>1 DEF ShownAt
    <3> QED BY <2>2, <3>2 DEF Shifted
  <2> QED BY <1>2, <1>4, <2>1, <2>2 DEF ShownAt
<1>5. ShownAt(s, event, a) \subseteq ShownAt(u, event, a)
  BY <1>1, <1>3 DEF ShownAt
<1>6. Shifted(Len(s), ShownAt(n, event, a)) \subseteq ShownAt(u, event, a)
  BY <1>1, <1>3 DEF ShownAt, Shifted
<1> QED BY <1>4, <1>5, <1>6 DEF u

LEMMA PiecesConcatenated ==
  ASSUME NEW s, IsSeq(s), NEW n, IsSeq(n), NEW a, NEW name
  PROVE  PiecesAt(s \o n, a, name) = PiecesAt(s, a, name) \cup Shifted(Len(s), PiecesAt(n, a, name))
<1> DEFINE u == s \o n
<1>1. Joined(s, n, u)
  BY Concatenated
<1>2. ShownAt(u, "StringProperty", a)
        = ShownAt(s, "StringProperty", a) \cup Shifted(Len(s), ShownAt(n, "StringProperty", a))
  BY ShownConcatenated
<1> HIDE DEF u
<1>3. \A j \in ShownAt(s, "StringProperty", a) : u[j] = s[j]
  BY <1>1 DEF ShownAt, Joined
<1>4. \A j \in ShownAt(n, "StringProperty", a) : u[Len(s) + j] = n[j]
  BY <1>1 DEF ShownAt, Joined
<1>5. PiecesAt(u, a, name) = PiecesAt(s, a, name) \cup Shifted(Len(s), PiecesAt(n, a, name))
  BY <1>2, <1>3, <1>4 DEF PiecesAt, Shifted
<1> QED BY <1>5 DEF u

\* The pieces of s at P make up value: what MakeUp says of the injected events.
PlacedAt(piece, j, P, at, value) ==
  /\ at[j] + Len(piece) <= Len(value)
  /\ piece = SubSeq(value, at[j] + 1, at[j] + Len(piece))
  /\ (\A i \in P : j <= i) => at[j] = 0
  /\ \A i \in P : j < i /\ (\A k \in P : k <= j \/ i <= k) => at[i] = at[j] + Len(piece)
  /\ (\A i \in P : i <= j) => at[j] + Len(piece) = Len(value)

MakeUpIn(s, P, value) ==
  \E at \in [P -> 0 .. Len(value)] : \A j \in P : PlacedAt(s[j].data.value, j, P, at, value)

WholeIn(s, a, name, value) ==
  PiecesAt(s, a, name) # {} /\ MakeUpIn(s, PiecesAt(s, a, name), value)

\* A property that is whole stays so without more pieces,
LEMMA WholeBefore ==
  ASSUME NEW s, IsSeq(s), NEW n, IsSeq(n), NEW a, NEW name, NEW value,
         WholeIn(s, a, name, value), PiecesAt(n, a, name) = {}
  PROVE  WholeIn(s \o n, a, name, value)
<1>a. PiecesAt(s \o n, a, name) = PiecesAt(s, a, name) \cup Shifted(Len(s), PiecesAt(n, a, name))
  BY ONLY PiecesConcatenated, IsSeq(s), IsSeq(n)
<1>b. PiecesAt(s \o n, a, name) = PiecesAt(s, a, name)
  BY <1>a DEF Shifted
<1> DEFINE u == s \o n  P == PiecesAt(s, a, name)
<1>1. PiecesAt(u, a, name) = P
  BY <1>b
<1>0. Joined(s, n, u)
  BY Concatenated
<1>2. \A j \in P : u[j] = s[j]
  <2> HIDE DEF u
  <2> QED BY <1>0 DEF PiecesAt, ShownAt, Joined
<1>3. P # {} /\ MakeUpIn(s, P, value)
  BY DEF WholeIn
<1> HIDE DEF u, P
<1>4. MakeUpIn(u, P, value)
  BY <1>2, <1>3 DEF MakeUpIn
<1>5. WholeIn(u, a, name, value)
  BY <1>1, <1>3, <1>4 DEF WholeIn
<1> QED BY <1>5 DEF u

\* and one that comes whole is whole if it is the first.
LEMMA WholeAfter ==
  ASSUME NEW s, IsSeq(s), NEW n, IsSeq(n), NEW a, NEW name, NEW value,
         PiecesAt(s, a, name) = {}, WholeIn(n, a, name, value)
  PROVE  WholeIn(s \o n, a, name, value)
<1> DEFINE u == s \o n  P == PiecesAt(n, a, name)  k == Len(s)  Q == Shifted(k, P)
<1>1. PiecesAt(u, a, name) = Q
  <2>1. PiecesAt(u, a, name) = PiecesAt(s, a, name) \cup Shifted(Len(s), PiecesAt(n, a, name))
    BY PiecesConcatenated
  <2> QED BY <2>1
<1>0. Joined(s, n, u)
  BY Concatenated
<1>2. /\ k \in Nat /\ P \subseteq Nat
      /\ \A j \in P : u[k + j] = n[j]
  <2> HIDE DEF u
  <2> QED BY <1>0 DEF PiecesAt, ShownAt, Joined
<1>3. P # {} /\ MakeUpIn(n, P, value)
  BY DEF WholeIn
<1>4. /\ \A j \in Q : j - k \in P /\ j = k + (j - k) /\ j \in Int
      /\ \A j \in P : k + j \in Q
      /\ Q # {}
  BY <1>2, <1>3 DEF Shifted
<1> HIDE DEF u, P, k, Q
<1>5. PICK at \in [P -> 0 .. Len(value)] : \A j \in P : PlacedAt(n[j].data.value, j, P, at, value)
  BY <1>3 DEF MakeUpIn
<1> DEFINE to == [j \in Q |-> at[j - k]]
<1>6. to \in [Q -> 0 .. Len(value)] /\ \A j \in Q : to[j] = at[j - k]
  BY <1>4
<1> HIDE DEF to
<1>7. ASSUME NEW j \in Q
      PROVE  PlacedAt(u[j].data.value, j, Q, to, value)
  <2> DEFINE h == j - k
  <2>1. h \in P /\ j = k + h /\ u[j] = n[h] /\ to[j] = at[h] /\ h \in Int
    BY <1>2, <1>4, <1>6
  <2> HIDE DEF h
  <2>0. PlacedAt(u[j].data.value, h, P, at, value)
    BY <1>5, <2>1
  <2>2. ASSUME \A i \in Q : j <= i PROVE to[j] = 0
    <3>1. \A i \in P : h <= i
      BY <1>2, <1>4, <2>1, <2>2
    <3> QED BY <2>0, <2>1, <3>1 DEF PlacedAt
  <2>3. ASSUME NEW i \in Q, j < i, \A x \in Q : x <= j \/ i <= x
        PROVE  to[i] = to[j] + Len(u[j].data.value)
    <3> DEFINE g == i - k
    <3>1. g \in P /\ i = k + g /\ to[i] = at[g] /\ g \in Int
      BY <1>4, <1>6, <1>2
    <3> HIDE DEF g
    <3>2. h < g
      BY <1>2, <2>1, <2>3, <3>1
    <3>3. \A x \in P : x <= h \/ g <= x
      BY <1>2, <1>4, <2>1, <2>3, <3>1
    <3> QED BY <2>0, <2>1, <3>1, <3>2, <3>3 DEF PlacedAt
  <2>4. ASSUME \A i \in Q : i <= j PROVE to[j] + Len(u[j].data.value) = Len(value)
    <3>1. \A i \in P : i <= h
      BY <1>2, <1>4, <2>1, <2>4
    <3> QED BY <2>0, <2>1, <3>1 DEF PlacedAt
  <2> QED BY <2>0, <2>1, <2>2, <2>3, <2>4 DEF PlacedAt
<1>8. MakeUpIn(u, Q, value)
  BY <1>6, <1>7 DEF MakeUpIn
<1>9. WholeIn(u, a, name, value)
  BY <1>1, <1>4, <1>8 DEF WholeIn
<1> QED BY <1>9 DEF u

-----------------------------------------------------------------------------
(* What a view injects for one event. *)

LEMMA SegmentBounds ==
  ASSUME NEW value \in Seq(Nat)
  PROVE  /\ SegmentCount(value) \in Nat /\ SegmentCount(value) >= 1
         /\ Len(value) <= SegmentCount(value) * SegmentLen
         /\ \A m \in Nat : m >= 1 /\ m < SegmentCount(value) => m * SegmentLen < Len(value)
<1> DEFINE l == Len(value)  S == {n \in Nat : n >= 1 /\ l <= n * SegmentLen}
<1>1. l \in Nat /\ SegmentLen \in Nat /\ SegmentLen >= 1
  BY ViewAssumption
<1> HIDE DEF l
<1>2. l + 1 \in S
  <2>1. (l + 1) * SegmentLen >= (l + 1) * 1
    BY <1>1
  <2> QED BY <1>1, <2>1
<1>3. PICK n \in S : \A m \in S : n <= m
  BY <1>2, LeastElement
<1>4. n \in 1 .. l + 1 /\ l <= n * SegmentLen
  BY <1>1, <1>2, <1>3
<1>5. \A m \in 1 .. n - 1 : l > m * SegmentLen
  <2> TAKE m \in 1 .. n - 1
  <2>1. m \in Nat /\ m >= 1 /\ m < n /\ m * SegmentLen \in Nat
    BY <1>1, <1>4
  <2>2. m \notin S
    BY <1>3, <1>4, <2>1
  <2> QED BY <1>1, <2>1, <2>2
<1>6. /\ SegmentCount(value) \in 1 .. l + 1
      /\ l <= SegmentCount(value) * SegmentLen
      /\ \A m \in 1 .. SegmentCount(value) - 1 : l > m * SegmentLen
  BY <1>4, <1>5 DEF SegmentCount, l
<1> DEFINE c == SegmentCount(value)
<1> HIDE DEF c
<1>7. c \in Nat /\ c >= 1
  BY <1>1, <1>6 DEF c
<1>8. \A m \in Nat : m >= 1 /\ m < c => m \in 1 .. c - 1 /\ m * SegmentLen \in Nat
  BY <1>1, <1>7
<1>9. \A m \in Nat : m >= 1 /\ m < c => m * SegmentLen < l
  <2> TAKE m \in Nat
  <2> HAVE m >= 1 /\ m < c
  <2>1. m \in 1 .. c - 1 /\ m * SegmentLen \in Nat
    BY <1>8
  <2>2. l > m * SegmentLen
    BY <1>6, <2>1 DEF c
  <2> QED BY <1>1, <2>1, <2>2
<1> QED BY <1>6, <1>7, <1>9 DEF c, l

\* Where a piece begins.
PieceAt(j) == (j - 1) * SegmentLen

\* The j-th of n pieces comes next in the value.
PieceFits(piece, j, n, value) ==
  /\ PieceAt(j) \in 0 .. Len(value)
  /\ piece = SubSeq(value, PieceAt(j) + 1, PieceAt(j) + Len(piece))
  /\ Len(piece) \in Nat /\ Len(piece) <= SegmentLen
  /\ PieceAt(j) + Len(piece) <= Len(value)
  /\ j = 1 => PieceAt(j) = 0
  /\ j < n => PieceAt(j + 1) = PieceAt(j) + Len(piece)
  /\ j = n => PieceAt(j) + Len(piece) = Len(value)

LEMMA PieceBounds ==
  ASSUME NEW value \in Seq(Nat), NEW j \in 1 .. SegmentCount(value)
  PROVE  PieceFits(Segments(value)[j], j, SegmentCount(value), value)
<1> DEFINE n == SegmentCount(value)  piece == Segments(value)[j]
           l == Len(value)  at == PieceAt(j)  to == IF j = n THEN l ELSE j * SegmentLen
<1>1. /\ n \in Nat /\ n >= 1 /\ l <= n * SegmentLen
      /\ \A m \in Nat : m >= 1 /\ m < n => m * SegmentLen < l
      /\ j \in Nat /\ 1 <= j /\ j <= n
      /\ l \in Nat /\ SegmentLen \in Nat /\ SegmentLen >= 1
  BY SegmentBounds, ViewAssumption
<1>2. piece = SubSeq(value, at + 1, to)
  <2>1. Segments(value)[j] =
          SubSeq(value, (j - 1) * SegmentLen + 1,
                        IF j = SegmentCount(value) THEN Len(value) ELSE j * SegmentLen)
    BY DEF Segments
  <2> QED BY <2>1 DEF PieceAt
<1>3. at \in Nat /\ j * SegmentLen \in Nat /\ at + SegmentLen = j * SegmentLen
  <2>1. (j - 1) + 1 = j /\ j - 1 \in Nat
    BY <1>1
  <2>2. ((j - 1) + 1) * SegmentLen = (j - 1) * SegmentLen + SegmentLen
    BY <1>1
  <2>3. (j - 1) * SegmentLen \in Nat /\ j * SegmentLen \in Nat
    BY <1>1, <2>1
  <2> QED BY <2>1, <2>2, <2>3 DEF PieceAt
<1>4. PieceAt(j + 1) = j * SegmentLen
  BY <1>1 DEF PieceAt
<1>5. j = 1 => at = 0
  BY <1>1 DEF PieceAt
<1>6. at <= l
  <2>1. CASE j = 1
    BY <1>1, <1>5, <2>1
  <2>2. CASE j > 1
    <3>1. j - 1 \in Nat /\ j - 1 >= 1 /\ j - 1 < n
      BY <1>1, <2>2
    <3> QED BY <1>1, <1>3, <3>1 DEF PieceAt
  <2> QED BY <1>1, <2>1, <2>2
<1>7. to \in Nat /\ at <= to /\ to <= l /\ to - at <= SegmentLen
  <2>1. CASE j = n
    BY <1>1, <1>3, <1>6, <2>1
  <2>2. CASE j < n
    BY <1>1, <1>3, <2>2
  <2> QED BY <1>1, <2>1, <2>2
<1> HIDE DEF at, to, piece, n
<1>8. Len(piece) = to - at
  <2>1. \A i \in at + 1 .. to : value[i] \in Nat
    BY <1>1, <1>3, <1>7 DEF l
  <2>2. Len(SubSeq(value, at + 1, to)) = IF at + 1 <= to THEN to - (at + 1) + 1 ELSE 0
    BY <1>3, <1>7, <2>1, SubSeqProperties
  <2> QED BY <1>2, <1>3, <1>7, <2>2
<1>9. at + Len(piece) = to
  BY <1>3, <1>7, <1>8
<1>10. Len(piece) \in Nat /\ Len(piece) <= SegmentLen
  BY <1>1, <1>3, <1>7, <1>8
<1>11. at \in 0 .. l /\ at + Len(piece) <= l
  BY <1>1, <1>3, <1>6, <1>7, <1>9
<1>12. j < n => PieceAt(j + 1) = to
  BY <1>1, <1>4 DEF to
<1>13. j = n => to = l
  BY DEF to
<1>14. PieceFits(piece, j, n, value)
  BY <1>2, <1>5, <1>9, <1>10, <1>11, <1>12, <1>13 DEF at, PieceFits
<1> QED BY <1>14 DEF n, piece

\* The events of one string property, and nothing but these.
LEMMA PropertyEvents ==
  ASSUME NEW value \in Seq(Nat), NEW a, NEW c, NEW name,
         NEW s, s = ProcessStringProperty(a, c, name, value)
  PROVE  /\ IsSeq(s)
         /\ \A j \in DOMAIN s : /\ s[j].event = "StringProperty"
                                /\ s[j].id = a
                                /\ s[j].context = c
                                /\ s[j].data.name = name
                                /\ Len(s[j].data.value) <= SegmentLen
         /\ WholeIn(s, a, name, value)
<1> DEFINE n == SegmentCount(value)
           f(i) == [event |-> "StringProperty", id |-> a, context |-> c,
                    data |-> [name |-> name, value |-> Segments(value)[i]]]
<1>1. n \in Nat /\ n >= 1
  BY SegmentBounds
<1>2. DOMAIN Segments(value) = 1 .. n
  BY DEF Segments
<1>3. s = [i \in 1 .. n |-> f(i)]
  BY <1>2 DEF ProcessStringProperty
<1>4. \A i : /\ f(i).event = "StringProperty" /\ f(i).id = a /\ f(i).context = c
             /\ f(i).data.name = name /\ f(i).data.value = Segments(value)[i]
  OBVIOUS
<1> HIDE DEF f, n
<1>5. IsSeq(s)
  <2> DEFINE S == {f(i) : i \in 1 .. n}
  <2>a. \A i \in 1 .. n : f(i) \in S
    OBVIOUS
  <2> HIDE DEF S
  <2>1. s \in Seq(S)
    BY <1>1, <1>3, <2>a
  <2> QED BY <2>1 DEF IsSeq
<1>6. DOMAIN s = 1 .. n /\ \A j \in DOMAIN s : s[j] = f(j)
  BY <1>3
<1>7. PiecesAt(s, a, name) = 1 .. n
  BY <1>4, <1>6 DEF PiecesAt, ShownAt
<1>8. MakeUpIn(s, 1 .. n, value)
  <2> DEFINE at == [j \in 1 .. n |-> PieceAt(j)]
  <2>1. \A j \in 1 .. n : PieceAt(j) \in 0 .. Len(value)
    BY PieceBounds DEF n, PieceFits
  <2>2. at \in [1 .. n -> 0 .. Len(value)] /\ \A j \in 1 .. n : at[j] = PieceAt(j)
    BY <2>1
  <2> HIDE DEF at
  <2>3. ASSUME NEW j \in 1 .. n
        PROVE  PlacedAt(s[j].data.value, j, 1 .. n, at, value)
    <3> DEFINE piece == s[j].data.value
    <3>1. piece = Segments(value)[j]
      BY <1>4, <1>6
    <3> HIDE DEF piece
    <3>a. n = SegmentCount(value)
      BY DEF n
    <3>b. j \in 1 .. SegmentCount(value)
      BY <3>a
    <3>2. PieceFits(piece, j, n, value)
      BY <3>1, <3>a, <3>b, PieceBounds
    <3>3. (\A i \in 1 .. n : j <= i) => j = 1
      BY <1>1
    <3>4. (\A i \in 1 .. n : i <= j) => j = n
      BY <1>1
    <3>5. \A i \in 1 .. n : j < i /\ (\A k \in 1 .. n : k <= j \/ i <= k) => i = j + 1 /\ j < n
      <4> TAKE i \in 1 .. n
      <4> HAVE j < i /\ (\A k \in 1 .. n : k <= j \/ i <= k)
      <4>1. j + 1 \in 1 .. n
        BY <1>1
      <4> QED BY <1>1, <4>1
    <3>6. at[j] = PieceAt(j) /\ \A i \in 1 .. n : at[i] = PieceAt(i)
      BY <2>2
    <3>7. PlacedAt(piece, j, 1 .. n, at, value)
      BY <3>2, <3>3, <3>4, <3>5, <3>6 DEF PlacedAt, PieceFits
    <3> QED BY <3>7 DEF piece
  <2> QED BY <2>2, <2>3 DEF MakeUpIn
<1>9. WholeIn(s, a, name, value)
  BY <1>1, <1>7, <1>8 DEF WholeIn
<1>10. \A j \in DOMAIN s : Len(s[j].data.value) <= SegmentLen
  <2> TAKE j \in DOMAIN s
  <2>1. j \in 1 .. n /\ s[j].data.value = Segments(value)[j]
    BY <1>4, <1>6
  <2>2. PieceFits(Segments(value)[j], j, n, value)
    BY <2>1, PieceBounds DEF n
  <2> QED BY <2>1, <2>2 DEF PieceFits
<1> QED BY <1>4, <1>5, <1>6, <1>9, <1>10

-----------------------------------------------------------------------------
(* What the trace says of an event that a view injects. *)

InvocationIn(t, a) == Last({x \in UpFrom(t, a, Nested(t)) : KindIn(t, x) \in InvocationKinds})

\* The invocation or pass that a component is named after.
NamerIn(t, a) ==
  Last({x \in UpFrom(t, a, Nested(t)) : \/ KindIn(t, x) \in InvocationKinds
                                        \/ KindIn(t, x) = "CompilerPass" /\ ParentIn(t, x) # Null})

\* The main path of an invocation in cache m.
PathIn(m, a) == IF m[a] # Null THEN m[a].Path ELSE NoPath

ComponentIn(t, m, a) ==
  IF NamerIn(t, a) = Null THEN <<>>
  ELSE IF KindIn(t, NamerIn(t, a)) \in InvocationKinds /\ PathIn(m, NamerIn(t, a)) # NoPath
    THEN <<"path", PathIn(m, NamerIn(t, a))>>
  ELSE <<"own", NamerIn(t, a)>>

RightContext(t, m, c, a) ==
  c # Null /\ c.invocation = InvocationIn(t, a) /\ c.component = ComponentIn(t, m, a)

RightTimes(t, times, a) ==
  /\ times.Duration = DurationIn(t, a)
  /\ times.Exclusive = "whole" <=>
       /\ StopsOfIn(t, a) # {}
       /\ \E c \in Activities :
            /\ StopsOfIn(t, c) # {} /\ ParentIn(t, c) = a
            /\ KindIn(t, c) \in PartKinds /\ KindIn(t, c) # KindIn(t, a)

RightPlace(t, data, a) ==
  LET around == UpFrom(t, a, Included(t)) \ {a} IN
  /\ data.depth = Cardinality(around)
  /\ data.parentFile = IF around = {} THEN Null ELSE ParentIn(t, a)

ShownEvents == {"BuildExplorerActivity", "FunctionActivity", "FileActivity"}

RightEvent(t, m, e) ==
  /\ e.id \in IdsIn(t)
  /\ RightContext(t, m, e.context, e.id)
  /\ e.event \in ShownEvents => RightTimes(t, e.data.times, e.id)
  /\ e.event = "FileActivity" => RightPlace(t, e.data, e.id)
  /\ e.event = "StringProperty" => Len(e.data.value) <= SegmentLen

LEMMA TracePaths == \A a : MainPath(a) = PathIn(mainComponentCache_, a)
  BY DEF MainPath, IsCached, PathIn

LEMMA TraceNames ==
  \A a : /\ InvocationOf(a) = InvocationIn(trace, a)
         /\ ComponentOf(a) = ComponentIn(trace, mainComponentCache_, a)
<1> TAKE a
<1>1. /\ \A x : KindOf(x) = KindIn(trace, x) /\ ParentOf(x) = ParentIn(trace, x)
      /\ ChainOf(a) = UpFrom(trace, a, Nested(trace))
  BY TraceTells, TraceChains
<1>2. InvocationOf(a) = InvocationIn(trace, a)
  BY <1>1 DEF InvocationOf, InvocationIn
<1> DEFINE n == Last({y \in ChainOf(a) :
                     (KindOf(y) \in InvocationKinds)
                       \/ (KindOf(y) = "CompilerPass" /\ ParentOf(y) # Null)})
<1>3. n = NamerIn(trace, a)
  BY <1>1 DEF NamerIn
<1>4. ComponentOf(a) = IF n = Null THEN <<>>
                       ELSE IF KindOf(n) \in InvocationKinds /\ MainPath(n) # NoPath
                              THEN <<"path", MainPath(n)>>
                       ELSE <<"own", n>>
  BY DEF ComponentOf
<1> HIDE DEF n
<1>5. ComponentOf(a) = ComponentIn(trace, mainComponentCache_, a)
  BY <1>1, <1>3, <1>4, TracePaths DEF ComponentIn
<1> QED BY <1>2, <1>5

\* Ids grow towards the innermost activity.
LEMMA LastFound ==
  ASSUME NEW S \in SUBSET Nat, NEW x \in S, \A y \in S : y <= x
  PROVE  Last(S) = x
<1>1. \A y \in S : (\A z \in S : z <= y) => y = x
  <2> TAKE y \in S
  <2> HAVE \A z \in S : z <= y
  <2>1. x <= y /\ y <= x /\ x \in Nat /\ y \in Nat
    OBVIOUS
  <2> QED BY <2>1
<1> QED BY <1>1 DEF Last

-----------------------------------------------------------------------------
(* The views in the relogging pass. *)

RelogState ==
  /\ WellFormed(trace) /\ TreeInv /\ TreeReplayed /\ StacksReplayed
  /\ RecordsTrace /\ TimingTypeOK /\ ExclusiveTimes /\ ComponentsInv
  /\ CP!AttributionInv

\* The invocations and the namers of an event stack, from the trace.
LEMMA StackTells ==
  ASSUME RelogState, NEW a \in Active
  PROVE  /\ a \in IdsIn(trace) /\ stack[a] \subseteq Active /\ stack[a] \subseteq Nat
         /\ \A x \in stack[a] : stack[x] \subseteq stack[a] /\ \A y \in stack[x] : y <= x
         /\ stack[a] \cap CP!Invocations =
              {x \in UpFrom(trace, a, Nested(trace)) : KindIn(trace, x) \in InvocationKinds}
         /\ stack[a] \cap CP!NamingActivities =
              {x \in UpFrom(trace, a, Nested(trace)) :
                 \/ KindIn(trace, x) \in InvocationKinds
                 \/ KindIn(trace, x) = "CompilerPass" /\ ParentIn(trace, x) # Null}
<1>1. /\ TreeInv /\ TreeReplayed /\ StacksReplayed /\ WellFormed(trace)
  BY DEF RelogState
<1>2. /\ stack[a] \subseteq Active /\ Active \subseteq Activities
      /\ \A x \in stack[a] : stack[x] \subseteq stack[a]
  BY <1>1 DEF TreeInv, Active
<1>3. stack[a] = UpFrom(trace, a, Nested(trace))
  BY <1>1 DEF StacksReplayed
<1>4. \A x \in Active : /\ x \in IdsIn(trace) /\ kind[x] = KindIn(trace, x)
                        /\ parent[x] = ParentIn(trace, x)
  BY <1>1 DEF TreeReplayed
<1>5. \A x \in stack[a] : \A y \in stack[x] : y <= x
  <2> TAKE x \in stack[a]
  <2>1. stack[x] = UpFrom(trace, x, Nested(trace)) /\ x \in IdsIn(trace)
    BY <1>1, <1>2, <1>4 DEF StacksReplayed
  <2> DEFINE D == Nested(trace)
  <2>2. D \in SUBSET Nested(trace)
    OBVIOUS
  <2> HIDE DEF D
  <2>3. \A y \in UpFrom(trace, x, D) : y <= x
    BY <1>1, <2>1, <2>2, UpFromSteps
  <2> QED BY <2>1, <2>3 DEF D
<1>6. CP!Active = Active /\ CP!InvocationKinds = InvocationKinds
  BY DEF CP!Active, Active, CP!InvocationKinds, InvocationKinds
<1>7. /\ CP!Invocations = {x \in Active : kind[x] \in InvocationKinds}
      /\ CP!NamingActivities = {x \in Active : \/ kind[x] \in InvocationKinds
                                               \/ kind[x] = "CompilerPass" /\ parent[x] # Null}
  BY <1>6 DEF CP!Invocations, CP!NamingActivities
<1>8. /\ stack[a] \cap CP!Invocations = {x \in stack[a] : KindIn(trace, x) \in InvocationKinds}
      /\ stack[a] \cap CP!NamingActivities =
           {x \in stack[a] : \/ KindIn(trace, x) \in InvocationKinds
                             \/ KindIn(trace, x) = "CompilerPass" /\ ParentIn(trace, x) # Null}
  BY <1>2, <1>4, <1>7
<1> QED BY <1>2, <1>3, <1>4, <1>5, <1>8, ActivityIds

\* A component with a path is that of an invocation.
LEMMA PathsOfInvocations ==
  ASSUME RelogState, NEW x \in IdsIn(trace), MainPath(x) # NoPath
  PROVE  KindIn(trace, x) \in InvocationKinds
<1>1. ComponentKinds /\ SeenByKind /\ RecordsTrace /\ x \in Activities
  BY StartedFacts DEF RelogState, ComponentsInv
<1>2. IsCached(x)
  BY DEF MainPath
<1>3. PICK w \in ComponentEvents : seen[x][w] # <<>>
  BY <1>1, <1>2 DEF ComponentKinds
<1>4. past[x].kind \in {"Linker", "Compiler"}
  BY <1>1, <1>3 DEF SeenByKind
<1> QED BY <1>1, <1>4 DEF RecordsTrace, InvocationKinds

LEMMA ContextRight ==
  ASSUME RelogState, NEW a \in Active
  PROVE  RightContext(trace, mainComponentCache_, Attributed(CB!LinkedContext(a)), a)
<1> DEFINE l == CB!LinkedContext(a)
           I == stack[a] \cap CP!Invocations
           N == stack[a] \cap CP!NamingActivities
<1>1. /\ a \in IdsIn(trace) /\ I \subseteq Nat /\ N \subseteq Nat
      /\ \A x \in stack[a] : \A y \in stack[x] : y <= x
      /\ InvocationIn(trace, a) = Last(I)
      /\ NamerIn(trace, a) = Last(N)
      /\ stack[a] \subseteq Active /\ Active \subseteq IdsIn(trace)
  <2>1. Active \subseteq IdsIn(trace)
    BY DEF RelogState, TreeReplayed
  <2> QED BY <2>1, StackTells DEF InvocationIn, NamerIn
<1>2. CP!CInv /\ CP!Attribution /\ CP!OwnNames /\ a \in CP!Active
  BY DEF RelogState, CP!AttributionInv, CP!Active, Active
<1>3. l = CP!LinkedContext(a)
  BY SameLinks
<1>4. contextData_[l] \in CP!ContextData
  BY <1>2, <1>3, CP!LinkFacts, ContextAssumptions DEF CP!CInv
<1>5. l # Null
  BY <1>2, <1>3, CP!LinkFacts, ContextAssumptions, NullAssumption DEF CP!CInv
<1> DEFINE c == contextData_[l]  r == c.Component
<1>6. /\ c.Invocation \in Activities \cup {Null}
      /\ r.cache \in {"main", "active", "literal"}
  BY <1>4 DEF CP!ContextData, CP!ComponentRefs
<1>7. /\ IF c.Invocation = Null THEN I = {} ELSE CP!IsInnermost(c.Invocation, CP!Invocations, a)
      /\ IF r.cache = "literal" THEN N = {}
         ELSE /\ CP!IsInnermost(r.key, CP!NamingActivities, a)
              /\ r.key \in IF r.cache = "main" THEN {x \in Activities : MainPath(x) # NoPath}
                                               ELSE activeComponents_
  BY <1>2, <1>3 DEF CP!Attribution
<1>8. Attributed(l) = [timeline |-> c.TimelineId, invocation |-> c.Invocation,
                       component |-> Attributed(l).component]
  BY <1>5 DEF Attributed
<1>9. Attributed(l).component = CASE r.cache = "literal" -> <<>>
                                  [] r.cache = "main"    -> <<"path", MainPath(r.key)>>
                                  [] r.cache = "active"  -> <<"own", r.key>>
  BY <1>5 DEF Attributed
<1> HIDE DEF c, r, l, I, N
<1>10. c.Invocation = Last(I)
  <2>1. CASE c.Invocation = Null
    BY <1>7, <2>1 DEF Last
  <2>2. CASE c.Invocation # Null
    <3>1. c.Invocation \in I /\ I \subseteq stack[c.Invocation] /\ c.Invocation \in stack[a]
      BY <1>7, <2>2 DEF CP!IsInnermost, I
    <3> QED BY <1>1, <3>1, LastFound
  <2> QED BY <2>1, <2>2
<1>11. r.cache # "literal" => r.key \in N /\ r.key = Last(N) /\ r.key \in IdsIn(trace)
  <2> HAVE r.cache # "literal"
  <2>1. r.key \in N /\ N \subseteq stack[r.key] /\ r.key \in stack[a]
    BY <1>7 DEF CP!IsInnermost, N
  <2> QED BY <1>1, <2>1, LastFound
<1>12. Attributed(l).component = ComponentIn(trace, mainComponentCache_, a)
  <2>1. CASE r.cache = "literal"
    BY <1>1, <1>7, <1>9, <2>1 DEF Last, ComponentIn
  <2>2. CASE r.cache = "main"
    <3>1. MainPath(r.key) # NoPath
      BY <1>7, <2>2
    <3>2. KindIn(trace, r.key) \in InvocationKinds /\ r.key # Null
      BY <1>11, <2>2, <3>1, PathsOfInvocations, StartedFacts, NullAssumption DEF RelogState
    <3> QED BY <1>1, <1>9, <1>11, <2>2, <3>1, <3>2, TracePaths DEF ComponentIn
  <2>3. CASE r.cache = "active"
    <3>1. r.key \in activeComponents_ /\ r.key \in Activities /\ r.key # Null
      BY <1>7, <1>11, <2>3, StartedFacts, NullAssumption DEF RelogState
    <3>2. r.key \in Active
      BY <1>1, <1>11, <2>3 DEF N
    <3>3. ~ (KindIn(trace, r.key) \in InvocationKinds /\ MainPath(r.key) # NoPath)
      <4>1. kind[r.key] = KindIn(trace, r.key)
        BY <3>2 DEF RelogState, TreeReplayed
      <4>2. kind[r.key] \in InvocationKinds => ~ (r.key \in {x \in Activities : MainPath(x) # NoPath})
        BY <1>2, <3>1 DEF CP!OwnNames, CP!InvocationKinds, InvocationKinds
      <4> QED BY <3>1, <4>1, <4>2
    <3> QED BY <1>1, <1>9, <1>11, <2>3, <3>1, <3>3, TracePaths DEF ComponentIn
  <2> QED BY <1>6, <2>1, <2>2, <2>3
<1>13. Attributed(l) # Null
  <2>1. Attributed(l).component \in {<<>>} \cup ({"path"} \X Paths) \cup ({"own"} \X Activities)
    <3>1. CASE r.cache = "literal"
      BY <1>9, <3>1
    <3>2. CASE r.cache = "main"
      <4>1. r.key \in Activities /\ MainPath(r.key) # NoPath
        BY <1>7, <3>2
      <4>2. mainComponentCache_[r.key] \in Component \cup {Null}
        BY <4>1 DEF RelogState, ComponentsInv, ComponentTypeOK
      <4>3. MainPath(r.key) \in Paths
        BY <4>1, <4>2 DEF MainPath, IsCached, Component
      <4> QED BY <1>9, <3>2, <4>3
    <3>3. CASE r.cache = "active"
      <4>1. r.key \in Activities
        BY <1>11, <3>3, StartedFacts DEF RelogState
      <4> QED BY <1>9, <3>3, <4>1
    <3> QED BY <1>6, <3>1, <3>2, <3>3
  <2>2. c.TimelineId \in CB!TimelineIds
    BY <1>4, SameRecords DEF CP!ContextData, c
  <2>3. Attributed(l) \in Contexts
    BY <1>6, <1>8, <2>1, <2>2 DEF Contexts
  <2> QED BY <2>3, ContextAssumption
<1>14. RightContext(trace, mainComponentCache_, Attributed(l), a)
  BY <1>1, <1>8, <1>10, <1>12, <1>13 DEF RightContext
<1> QED BY <1>14 DEF l

\* The times a view reads are those of the stop event.
LEMMA TimesRight ==
  ASSUME RelogState, NEW a \in Active
  PROVE  RightTimes(trace, TimesOf(a), a)
<1>1. /\ WellFormed(trace) /\ RecordsTrace /\ ExclusiveTimes /\ TimingTypeOK
      /\ a \in IdsIn(trace) /\ a \in Activities
  BY DEF RelogState, TreeReplayed, Active
<1>2. TimeRecorded(a)
  BY <1>1 DEF RecordsTrace
<1>3. CASE StopsOfIn(trace, a) = {}
  <2>1. timingData_[a] \in {Null, NoTimes}
    BY <1>2, <1>3 DEF TimeRecorded
  <2>2. TimesOf(a) = NoTimes
    BY <2>1 DEF TimesOf
  <2> QED BY <1>3, <2>2 DEF RightTimes, NoTimes, DurationIn
<1>4. CASE StopsOfIn(trace, a) # {}
  <2>1. /\ timingData_[a] \notin {Null, NoTimes} /\ timingData_[a].Duration = DurationIn(trace, a)
        /\ TimesOf(a) = timingData_[a]
    BY <1>2, <1>4 DEF TimeRecorded, TimesOf
  <2>2. /\ past[a] # Null /\ past[a].kind = KindIn(trace, a)
        /\ past[a].parts = StoppedPartsIn(trace, a)
    BY <1>1 DEF RecordsTrace
  <2>3. timingData_[a].Exclusive = "whole"
          <=> (past[a].parts \cap PartKinds) \ {past[a].kind} # {}
    BY <1>1, <2>1, <2>2 DEF ExclusiveTimes
  <2>4. \A c \in Activities : StopsOfIn(trace, c) # {} => c \in IdsIn(trace)
    BY <1>1 DEF WellFormed, StopsOfIn
  <2>5. \A c \in IdsIn(trace) : c \in Activities
    BY <1>1, StartedFacts
  <2>6. (past[a].parts \cap PartKinds) \ {past[a].kind} # {}
          <=> \E c \in Activities :
                /\ StopsOfIn(trace, c) # {} /\ ParentIn(trace, c) = a
                /\ KindIn(trace, c) \in PartKinds /\ KindIn(trace, c) # KindIn(trace, a)
    BY <2>2, <2>4, <2>5 DEF StoppedPartsIn
  <2> QED BY <1>4, <2>1, <2>3, <2>6 DEF RightTimes
<1> QED BY <1>3, <1>4

\* The file that includes another is the one whose stack holds all the others.
LEMMA PlaceRight ==
  ASSUME RelogState, NEW a \in Active, kind[a] = "FrontEndFile",
         NEW outer, outer = FileGroup(a) \ {a}, NEW data,
         data.depth = Cardinality(outer),
         data.parentFile = IF outer = {} THEN Null ELSE CHOOSE x \in outer : outer \subseteq stack[x]
  PROVE  RightPlace(trace, data, a)
<1> DEFINE D == Included(trace)
<1>1. /\ WellFormed(trace) /\ TreeInv /\ TreeReplayed /\ StacksReplayed
      /\ a \in IdsIn(trace) /\ Active \subseteq Activities
  BY DEF RelogState, TreeReplayed, Active
<1>2. D \in SUBSET Nested(trace)
  BY DEF Included
<1>3. FileGroup(a) = UpFrom(trace, a, D)
  BY <1>1 DEF StacksReplayed
<1>4. a \in D => /\ ParentIn(trace, a) \in Active
                 /\ kind[ParentIn(trace, a)] = "FrontEndFile"
                 /\ ParentIn(trace, a) < a /\ ParentIn(trace, a) \in IdsIn(trace)
                 /\ a \in Nat /\ ParentIn(trace, a) \in Nat
  <2> HAVE a \in D
  <2>1. /\ ParentIn(trace, a) # Null /\ KindIn(trace, ParentIn(trace, a)) = "FrontEndFile"
    BY a \in D DEF Included, Nested
  <2>2. ParentIn(trace, a) \in IdsIn(trace) /\ ParentIn(trace, a) < a
    BY <1>1, <2>1, StartedFacts
  <2>3. parent[a] = ParentIn(trace, a)
    BY <1>1 DEF TreeReplayed
  <2>4. parent[a] \in Active
    BY <1>1, <2>1, <2>3 DEF TreeInv
  <2>5. kind[parent[a]] = KindIn(trace, parent[a])
    BY <1>1, <2>4 DEF TreeReplayed
  <2> QED BY <1>1, <2>1, <2>2, <2>3, <2>4, <2>5, ActivityIds
<1> HIDE DEF D
<1>5. CASE a \notin D
  <2>1. outer = {} /\ UpFrom(trace, a, D) \ {a} = {}
    BY <1>1, <1>3, <1>5, UpFromAlone
  <2> QED BY <2>1 DEF RightPlace, D
<1>6. CASE a \in D
  <2> DEFINE p == ParentIn(trace, a)
  <2>0. /\ p \in Active /\ kind[p] = "FrontEndFile" /\ p < a /\ p \in IdsIn(trace)
        /\ a \in Nat /\ p \in Nat
    BY <1>4, <1>6
  <2>1. UpFrom(trace, a, D) = UpFrom(trace, p, D) \cup {a}
    BY <1>1, <1>2, <1>6, UpFromParent
  <2> HIDE DEF p
  <2>2. /\ p \in UpFrom(trace, p, D)
        /\ \A x \in UpFrom(trace, p, D) : x <= p
    BY <1>1, <1>2, <2>0, UpFromSteps
  <2>3. outer = UpFrom(trace, p, D)
    BY <1>3, <2>0, <2>1, <2>2
  <2>4. outer = FileGroup(p)
    BY <1>1, <2>0, <2>3 DEF StacksReplayed, D
  <2>5. outer \subseteq stack[p]
    BY <2>4 DEF FileGroup, InnermostGroup, Innermost
  <2>6. p \in outer
    BY <2>2, <2>3
  <2>7. \A x \in outer : outer \subseteq stack[x] => x = p
    <3> TAKE x \in outer
    <3> HAVE outer \subseteq stack[x]
    <3>1. x \in stack[p] /\ p \in stack[x]
      BY <2>5, <2>6
    <3>2. x <= p
      BY <2>2, <2>3
    <3>3. x \in Active /\ x \in Nat
      BY <1>1, <2>0, <3>1, ActivityIds DEF TreeInv
    <3>4. \A y \in stack[x] : y <= x
      BY <3>3, StackTells, x \in stack[x] DEF TreeInv
    <3> QED BY <2>0, <3>1, <3>2, <3>3, <3>4
  <2>8. (CHOOSE x \in outer : outer \subseteq stack[x]) = p
    BY <2>5, <2>6, <2>7
  <2>9. outer = UpFrom(trace, a, D) \ {a} /\ outer # {}
    BY <1>3, <2>6
  <2> QED BY <2>8, <2>9 DEF RightPlace, D, p
<1> QED BY <1>5, <1>6

-----------------------------------------------------------------------------
(* The events a view injects for one event of the trace. *)

\* Events for activity a, all of them right.
Shows(s, t, m, a) == IsSeq(s) /\ \A j \in DOMAIN s : RightEvent(t, m, s[j]) /\ s[j].id = a

\* No event of one sort for a, or exactly one.
Once(P, b) == IF b THEN \E j : P = {j} ELSE P = {}

LEMMA ShowsJoined ==
  ASSUME NEW s, NEW n, NEW t, NEW m, NEW a, Shows(s, t, m, a), Shows(n, t, m, a)
  PROVE  Shows(s \o n, t, m, a)
<1> DEFINE u == s \o n
<1>1. Joined(s, n, u)
  BY Concatenated DEF Shows
<1> HIDE DEF u
<1>2. /\ Len(s) \in Nat /\ Len(n) \in Nat
      /\ DOMAIN s = 1 .. Len(s) /\ DOMAIN n = 1 .. Len(n)
      /\ DOMAIN u = 1 .. Len(s) + Len(n)
  BY <1>1 DEF Joined
<1>3. \A j \in DOMAIN u : \/ j \in DOMAIN s
                          \/ j - Len(s) \in DOMAIN n /\ j = Len(s) + (j - Len(s))
  BY <1>2
<1>4. \A j \in DOMAIN u : \/ \E i \in DOMAIN s : u[j] = s[i]
                          \/ \E i \in DOMAIN n : u[j] = n[i]
  BY <1>1, <1>3 DEF Joined
<1>5. Shows(u, t, m, a)
  BY <1>1, <1>4 DEF Shows, Joined
<1> QED BY <1>5 DEF u

LEMMA OnceBefore ==
  ASSUME NEW s, IsSeq(s), NEW n, IsSeq(n), NEW event, NEW a, NEW b,
         Once(ShownAt(s, event, a), b), ShownAt(n, event, a) = {}
  PROVE  Once(ShownAt(s \o n, event, a), b)
<1>1. ShownAt(s \o n, event, a) = ShownAt(s, event, a) \cup Shifted(Len(s), ShownAt(n, event, a))
  BY ONLY ShownConcatenated, IsSeq(s), IsSeq(n)
<1>2. ShownAt(s \o n, event, a) = ShownAt(s, event, a)
  BY <1>1 DEF Shifted
<1> QED BY <1>2

LEMMA OnceAfter ==
  ASSUME NEW s, IsSeq(s), NEW n, IsSeq(n), NEW event, NEW a, NEW b,
         ShownAt(s, event, a) = {}, Once(ShownAt(n, event, a), b)
  PROVE  Once(ShownAt(s \o n, event, a), b)
<1>1. ShownAt(s \o n, event, a) = ShownAt(s, event, a) \cup Shifted(Len(s), ShownAt(n, event, a))
  BY ONLY ShownConcatenated, IsSeq(s), IsSeq(n)
<1>2. ShownAt(s \o n, event, a) = Shifted(Len(s), ShownAt(n, event, a))
  BY <1>1
<1>3. \A j : Shifted(Len(s), {j}) = {Len(s) + j}
  BY DEF Shifted
<1>4. Shifted(Len(s), {}) = {}
  BY DEF Shifted
<1>5. CASE b
  <2>1. PICK j : ShownAt(n, event, a) = {j}
    BY <1>5 DEF Once
  <2> QED BY <1>2, <1>3, <1>5, <2>1 DEF Once
<1>6. CASE ~ b
  BY <1>2, <1>4, <1>6 DEF Once
<1> QED BY <1>5, <1>6

LEMMA NoneJoined ==
  ASSUME NEW s, IsSeq(s), NEW n, IsSeq(n), NEW a
  PROVE  /\ \A event : ShownAt(s, event, a) = {} /\ ShownAt(n, event, a) = {} =>
              ShownAt(s \o n, event, a) = {}
         /\ \A name : PiecesAt(s, a, name) = {} /\ PiecesAt(n, a, name) = {} =>
              PiecesAt(s \o n, a, name) = {}
<1>1. ASSUME NEW event, ShownAt(s, event, a) = {}, ShownAt(n, event, a) = {}
      PROVE  ShownAt(s \o n, event, a) = {}
  <2>1. ShownAt(s \o n, event, a) = ShownAt(s, event, a) \cup Shifted(Len(s), ShownAt(n, event, a))
    BY ONLY ShownConcatenated, IsSeq(s), IsSeq(n)
  <2> QED BY <1>1, <2>1 DEF Shifted
<1>2. ASSUME NEW name, PiecesAt(s, a, name) = {}, PiecesAt(n, a, name) = {}
      PROVE  PiecesAt(s \o n, a, name) = {}
  <2>1. PiecesAt(s \o n, a, name) = PiecesAt(s, a, name) \cup Shifted(Len(s), PiecesAt(n, a, name))
    BY ONLY PiecesConcatenated, IsSeq(s), IsSeq(n)
  <2> QED BY <1>2, <2>1 DEF Shifted
<1> QED BY <1>1, <1>2

\* What the views inject for one event: s is right, and there is nothing of E
\* in it and no piece of a property other than those in N.
Adds(s, t, m, a, E, N) ==
  /\ Shows(s, t, m, a)
  /\ \A j \in DOMAIN s : s[j].event \in E
  /\ \A j \in DOMAIN s : s[j].event = "StringProperty" => s[j].data.name \in N

LEMMA AddsNothing ==
  ASSUME NEW t, NEW m, NEW a, NEW E, NEW N
  PROVE  Adds(<<>>, t, m, a, E, N)
<1>1. IsSeq(<<>>)
  BY DEF IsSeq
<1> QED BY <1>1 DEF Adds, Shows

LEMMA AddsJoined ==
  ASSUME NEW s, NEW n, NEW t, NEW m, NEW a, NEW E, NEW N,
         Adds(s, t, m, a, E, N), Adds(n, t, m, a, E, N)
  PROVE  Adds(s \o n, t, m, a, E, N)
<1> DEFINE u == s \o n
<1>1. Joined(s, n, u)
  BY Concatenated DEF Adds, Shows
<1>2. Shows(u, t, m, a)
  BY ShowsJoined DEF Adds
<1> HIDE DEF u
<1>3. /\ Len(s) \in Nat /\ Len(n) \in Nat
      /\ DOMAIN s = 1 .. Len(s) /\ DOMAIN n = 1 .. Len(n)
      /\ DOMAIN u = 1 .. Len(s) + Len(n)
  BY <1>1 DEF Joined
<1>4. \A j \in DOMAIN u : \/ j \in DOMAIN s
                          \/ j - Len(s) \in DOMAIN n /\ j = Len(s) + (j - Len(s))
  BY <1>3
<1>5. \A j \in DOMAIN u : \/ \E i \in DOMAIN s : u[j] = s[i]
                          \/ \E i \in DOMAIN n : u[j] = n[i]
  BY <1>1, <1>4 DEF Joined
<1>6. Adds(u, t, m, a, E, N)
  BY <1>2, <1>5 DEF Adds
<1> QED BY <1>6 DEF u

LEMMA AddsMore ==
  ASSUME NEW s, NEW t, NEW m, NEW a, NEW E, NEW N, NEW F, NEW M,
         Adds(s, t, m, a, E, N), E \subseteq F, N \subseteq M
  PROVE  Adds(s, t, m, a, F, M)
BY DEF Adds

LEMMA AddsNoOther ==
  ASSUME NEW s, NEW t, NEW m, NEW a, NEW E, NEW N, Adds(s, t, m, a, E, N)
  PROVE  /\ IsSeq(s)
         /\ \A event : event \notin E => ShownAt(s, event, a) = {}
         /\ \A name : name \notin N => PiecesAt(s, a, name) = {}
         /\ "StringProperty" \notin E => \A name : PiecesAt(s, a, name) = {}
BY DEF Adds, Shows, ShownAt, PiecesAt

\* One event of a view.
LEMMA AddsOne ==
  ASSUME NEW t, NEW m, NEW a, NEW c, NEW event, NEW data, a \in IdsIn(t),
         RightContext(t, m, c, a), event # "StringProperty",
         event \in ShownEvents => RightTimes(t, data.times, a),
         event = "FileActivity" => RightPlace(t, data, a),
         NEW s, s = Injected(event, a, c, data)
  PROVE  Adds(s, t, m, a, {event}, {}) /\ ShownAt(s, event, a) = {1}
<1> DEFINE e == [event |-> event, id |-> a, context |-> c, data |-> data]
<1>1. e.event = event /\ e.id = a /\ e.context = c /\ e.data = data
  OBVIOUS
<1>2. s = <<e>>
  BY DEF Injected
<1> HIDE DEF e
<1>3. RightEvent(t, m, e)
  BY <1>1 DEF RightEvent
<1>4. DOMAIN s = {1} /\ s[1] = e
  BY <1>2
<1>5. s \in Seq({e})
  BY <1>2
<1>6. IsSeq(s)
  BY <1>5 DEF IsSeq
<1> QED BY <1>1, <1>3, <1>4, <1>6 DEF Adds, Shows, ShownAt

\* The pieces of one string property.
LEMMA AddsProperty ==
  ASSUME NEW t, NEW m, NEW a, NEW c, NEW name, NEW value \in Seq(Nat), a \in IdsIn(t),
         RightContext(t, m, c, a), NEW s, s = ProcessStringProperty(a, c, name, value)
  PROVE  Adds(s, t, m, a, {"StringProperty"}, {name}) /\ WholeIn(s, a, name, value)
<1>1. /\ IsSeq(s)
      /\ \A j \in DOMAIN s : /\ s[j].event = "StringProperty"
                             /\ s[j].id = a
                             /\ s[j].context = c
                             /\ s[j].data.name = name
                             /\ Len(s[j].data.value) <= SegmentLen
      /\ WholeIn(s, a, name, value)
  BY PropertyEvents
<1>2. \A j \in DOMAIN s : RightEvent(t, m, s[j])
  BY <1>1 DEF RightEvent, ShownEvents
<1> QED BY <1>1, <1>2 DEF Adds, Shows

\* The step of the build a that the Build Explorer lists.
ListedIn(t, a) ==
  \/ KindIn(t, a) \in InvocationKinds \cup {"CompilerPass", "C2DLL", "Phase"}
  \/ KindIn(t, a) = "Thread" /\ ParentIn(t, a) # Null

ToolNames == {"Version", "ToolPath", "WorkingDirectory"}

\* All that the Build Explorer shows at a start event.
LEMMA ExplorerStart ==
  ASSUME RelogState, NEW a \in Active, NEW c, RightContext(trace, mainComponentCache_, c, a),
         NEW info \in Toolsets, NEW s, s = BuildExplorerStart(a, c, info)
  PROVE  /\ Adds(s, trace, mainComponentCache_, a, {"BuildExplorerActivity", "StringProperty"},
                 ToolNames)
         /\ Once(ShownAt(s, "BuildExplorerActivity", a), ListedIn(trace, a))
         /\ kind[a] \in InvocationKinds =>
              /\ WholeIn(s, a, "Version", info.version)
              /\ WholeIn(s, a, "WorkingDirectory", info.directory)
<1> DEFINE t == trace  m == mainComponentCache_
           E == {"BuildExplorerActivity", "StringProperty"}
           B == "BuildExplorerActivity"
<1>1. a \in IdsIn(t) /\ kind[a] = KindIn(t, a) /\ parent[a] = ParentIn(t, a)
  BY DEF RelogState, TreeReplayed
<1>2. RightTimes(t, TimesOf(a), a)
  BY TimesRight
<1>3. \A name : LET l == LogActivity(a, c, name) IN
        Adds(l, t, m, a, {B}, {}) /\ ShownAt(l, B, a) = {1}
  <2> TAKE name
  <2> DEFINE data == [name |-> name, times |-> TimesOf(a)]
             l == LogActivity(a, c, name)
  <2>1. data.times = TimesOf(a)
    OBVIOUS
  <2>2. l = Injected(B, a, c, data)
    BY DEF LogActivity
  <2>3. B # "StringProperty" /\ B # "FileActivity"
    OBVIOUS
  <2> HIDE DEF data, l, B, t, m
  <2>4. RightContext(t, m, c, a)
    BY DEF t, m
  <2>5. Adds(l, t, m, a, {B}, {}) /\ ShownAt(l, B, a) = {1}
    BY <1>1, <1>2, <2>1, <2>2, <2>3, <2>4, AddsOne
  <2> QED BY <2>5 DEF l
<1>4. CASE kind[a] \in InvocationKinds
  <2> DEFINE x1 == LogActivity(a, c, kind[a])
             x2 == ProcessStringProperty(a, c, "Version", info.version)
             x3 == IF info.toolPath = Null THEN <<>>
                   ELSE ProcessStringProperty(a, c, "ToolPath", info.toolPath)
             x4 == ProcessStringProperty(a, c, "WorkingDirectory", info.directory)
  <2>1. s = ((x1 \o x2) \o x3) \o x4
    BY <1>4 DEF BuildExplorerStart, EmitInvocationEvents
  <2>2. /\ info.version \in Seq(Nat) /\ info.directory \in Seq(Nat)
        /\ info.toolPath # Null => info.toolPath \in Seq(Nat)
    BY ToolsetAssumption
  <2>3. Adds(x1, t, m, a, {B}, {}) /\ ShownAt(x1, B, a) = {1}
    BY <1>3
  <2>4. Adds(x2, t, m, a, {"StringProperty"}, {"Version"}) /\ WholeIn(x2, a, "Version", info.version)
    BY <1>1, <2>2, AddsProperty
  <2>5. Adds(x3, t, m, a, {"StringProperty"}, {"ToolPath"})
    <3>1. CASE info.toolPath = Null
      BY <3>1, AddsNothing
    <3>2. CASE info.toolPath # Null
      BY <1>1, <2>2, <3>2, AddsProperty
    <3> QED BY <3>1, <3>2
  <2>6. /\ Adds(x4, t, m, a, {"StringProperty"}, {"WorkingDirectory"})
        /\ WholeIn(x4, a, "WorkingDirectory", info.directory)
    BY <1>1, <2>2, AddsProperty
  <2> HIDE DEF x1, x2, x3, x4, t, m
  <2> DEFINE y == x1 \o x2  z == y \o x3
  <2>7. /\ Adds(x1, t, m, a, E, ToolNames) /\ Adds(x2, t, m, a, E, ToolNames)
        /\ Adds(x3, t, m, a, E, ToolNames) /\ Adds(x4, t, m, a, E, ToolNames)
    BY <2>3, <2>4, <2>5, <2>6, AddsMore DEF ToolNames
  <2>8. /\ Adds(y, t, m, a, E, ToolNames) /\ Adds(z, t, m, a, E, ToolNames)
        /\ Adds(z \o x4, t, m, a, E, ToolNames)
    BY <2>7, AddsJoined
  <2>9. IsSeq(x1) /\ IsSeq(x2) /\ IsSeq(x3) /\ IsSeq(x4) /\ IsSeq(y) /\ IsSeq(z)
    BY <2>7, <2>8, AddsNoOther
  <2>10. ShownAt(x2, B, a) = {} /\ ShownAt(x3, B, a) = {} /\ ShownAt(x4, B, a) = {}
    BY <2>4, <2>5, <2>6, AddsNoOther
  <2>11. /\ PiecesAt(x1, a, "Version") = {} /\ PiecesAt(x3, a, "Version") = {}
         /\ PiecesAt(x4, a, "Version") = {}
         /\ PiecesAt(x1, a, "WorkingDirectory") = {} /\ PiecesAt(x2, a, "WorkingDirectory") = {}
         /\ PiecesAt(x3, a, "WorkingDirectory") = {}
    BY <2>3, <2>4, <2>5, <2>6, AddsNoOther
  <2> HIDE DEF y, z, E
  <2>12. Once(ShownAt(x1, B, a), TRUE)
    BY <2>3 DEF Once
  <2>13. Once(ShownAt(y, B, a), TRUE)
    BY <2>9, <2>10, <2>12, OnceBefore DEF y
  <2>14. Once(ShownAt(z, B, a), TRUE)
    BY <2>9, <2>10, <2>13, OnceBefore DEF z
  <2>15. Once(ShownAt(z \o x4, B, a), TRUE)
    BY <2>9, <2>10, <2>14, OnceBefore
  <2>16. WholeIn(y, a, "Version", info.version)
    BY <2>4, <2>9, <2>11, WholeAfter DEF y
  <2>17. WholeIn(z, a, "Version", info.version)
    BY <2>9, <2>11, <2>16, WholeBefore DEF z
  <2>18. WholeIn(z \o x4, a, "Version", info.version)
    BY <2>9, <2>11, <2>17, WholeBefore
  <2>19. PiecesAt(y, a, "WorkingDirectory") = {}
    BY <2>9, <2>11, NoneJoined DEF y
  <2>20. PiecesAt(z, a, "WorkingDirectory") = {}
    BY <2>9, <2>11, <2>19, NoneJoined DEF z
  <2>21. WholeIn(z \o x4, a, "WorkingDirectory", info.directory)
    BY <2>6, <2>9, <2>20, WholeAfter
  <2>22. ListedIn(t, a)
    BY <1>1, <1>4 DEF ListedIn, t
  <2> QED BY <2>1, <2>8, <2>15, <2>18, <2>21, <2>22 DEF y, z, t, m, E
<1>5. CASE kind[a] \notin InvocationKinds /\ IsListed(a)
  <2> DEFINE l == LogActivity(a, c, ActivityName(a))
  <2>1. s = l
    BY <1>5 DEF BuildExplorerStart
  <2>2. Adds(l, t, m, a, {B}, {}) /\ ShownAt(l, B, a) = {1}
    BY <1>3
  <2> HIDE DEF l
  <2>3. Adds(l, t, m, a, E, ToolNames)
    BY <2>2, AddsMore
  <2>4. ListedIn(t, a)
    BY <1>1, <1>5 DEF ListedIn, IsListed, ListedKinds
  <2> QED BY <1>5, <2>1, <2>2, <2>3, <2>4 DEF Once
<1>6. CASE kind[a] \notin InvocationKinds /\ ~ IsListed(a)
  <2>1. s = <<>>
    BY <1>6 DEF BuildExplorerStart
  <2>2. Adds(s, t, m, a, E, ToolNames)
    BY <2>1, AddsNothing
  <2>3. ~ ListedIn(t, a)
    BY <1>1, <1>6 DEF ListedIn, IsListed, ListedKinds
  <2>4. ShownAt(s, B, a) = {}
    BY <2>1 DEF ShownAt
  <2> QED BY <1>6, <2>2, <2>3, <2>4 DEF Once
<1> QED BY <1>4, <1>5, <1>6

LEMMA FunctionStart ==
  ASSUME RelogState, NEW a \in Active, NEW c, RightContext(trace, mainComponentCache_, c, a),
         NEW s, s = FunctionsStart(a, c)
  PROVE  /\ Adds(s, trace, mainComponentCache_, a, {"FunctionActivity"}, {})
         /\ Once(ShownAt(s, "FunctionActivity", a),
                 KindIn(trace, a) = "Function" /\ DurationIn(trace, a) >= LongFunction)
<1>1. a \in IdsIn(trace) /\ kind[a] = KindIn(trace, a)
  BY DEF RelogState, TreeReplayed
<1>2. RightTimes(trace, TimesOf(a), a)
  BY TimesRight
<1>3. TimesOf(a).Duration = DurationIn(trace, a)
  BY <1>2 DEF RightTimes
<1>4. CASE TimesOf(a).Duration >= LongFunction /\ kind[a] = "Function"
  <2> DEFINE data == [times |-> TimesOf(a)]
  <2>1. s = Injected("FunctionActivity", a, c, data) /\ data.times = TimesOf(a)
    BY <1>4 DEF FunctionsStart
  <2> HIDE DEF data
  <2>2. /\ Adds(s, trace, mainComponentCache_, a, {"FunctionActivity"}, {})
        /\ ShownAt(s, "FunctionActivity", a) = {1}
    BY <1>1, <1>2, <2>1, AddsOne
  <2> QED BY <1>1, <1>3, <1>4, <2>2 DEF Once
<1>5. CASE ~ (TimesOf(a).Duration >= LongFunction /\ kind[a] = "Function")
  <2>1. s = <<>>
    BY <1>5 DEF FunctionsStart
  <2>2. Adds(s, trace, mainComponentCache_, a, {"FunctionActivity"}, {})
    BY <2>1, AddsNothing
  <2>3. ShownAt(s, "FunctionActivity", a) = {}
    BY <2>1 DEF ShownAt
  <2> QED BY <1>1, <1>3, <1>5, <2>2, <2>3 DEF Once
<1> QED BY <1>4, <1>5

LEMMA FileStart ==
  ASSUME RelogState, NEW a \in Active, NEW c, RightContext(trace, mainComponentCache_, c, a),
         NEW s, s = FilesStart(a, c)
  PROVE  /\ Adds(s, trace, mainComponentCache_, a, {"FileActivity"}, {})
         /\ Once(ShownAt(s, "FileActivity", a), KindIn(trace, a) = "FrontEndFile")
<1>1. a \in IdsIn(trace) /\ kind[a] = KindIn(trace, a)
  BY DEF RelogState, TreeReplayed
<1>2. RightTimes(trace, TimesOf(a), a)
  BY TimesRight
<1>3. CASE kind[a] = "FrontEndFile"
  <2> DEFINE outer == FileGroup(a) \ {a}
             up == IF outer = {} THEN Null ELSE CHOOSE x \in outer : outer \subseteq stack[x]
             data == [times |-> TimesOf(a), depth |-> Cardinality(outer), parentFile |-> up]
  <2>1. s = Injected("FileActivity", a, c, data)
    BY <1>3 DEF FilesStart
  <2>2. data.times = TimesOf(a) /\ data.depth = Cardinality(outer) /\ data.parentFile = up
    OBVIOUS
  <2> HIDE DEF data
  <2>3. RightPlace(trace, data, a)
    BY <1>3, <2>2, PlaceRight
  <2> HIDE DEF outer, up
  <2>4. /\ Adds(s, trace, mainComponentCache_, a, {"FileActivity"}, {})
        /\ ShownAt(s, "FileActivity", a) = {1}
    BY ONLY <1>1, <1>2, <2>1, <2>2, <2>3, AddsOne, RightContext(trace, mainComponentCache_, c, a)
  <2> QED BY <1>1, <1>3, <2>4 DEF Once
<1>4. CASE kind[a] # "FrontEndFile"
  <2>1. s = <<>>
    BY <1>4 DEF FilesStart
  <2>2. Adds(s, trace, mainComponentCache_, a, {"FileActivity"}, {})
    BY <2>1, AddsNothing
  <2>3. ShownAt(s, "FileActivity", a) = {}
    BY <2>1 DEF ShownAt
  <2> QED BY <1>1, <1>4, <2>2, <2>3 DEF Once
<1> QED BY <1>3, <1>4

\* What the views add for the start of a.
StartAdds(s, t, m, a, info) ==
  /\ Shows(s, t, m, a)
  /\ Once(ShownAt(s, "BuildExplorerActivity", a), ListedIn(t, a))
  /\ Once(ShownAt(s, "FunctionActivity", a),
          KindIn(t, a) = "Function" /\ DurationIn(t, a) >= LongFunction)
  /\ Once(ShownAt(s, "FileActivity", a), KindIn(t, a) = "FrontEndFile")
  /\ KindIn(t, a) \in InvocationKinds =>
       /\ WholeIn(s, a, "Version", info.version)
       /\ WholeIn(s, a, "WorkingDirectory", info.directory)
  /\ PiecesAt(s, a, "CommandLine") = {}

\* And for an event w below a.
SimpleAdds(s, t, m, a, w, value) ==
  /\ Shows(s, t, m, a)
  /\ \A event \in ShownEvents : ShownAt(s, event, a) = {}
  /\ PiecesAt(s, a, "Version") = {} /\ PiecesAt(s, a, "WorkingDirectory") = {}
  /\ w # "CommandLine" => PiecesAt(s, a, "CommandLine") = {}
  /\ w = "CommandLine" /\ InvocationIn(t, a) # Null => WholeIn(s, a, "CommandLine", value)

LEMMA ViewsAtStart ==
  ASSUME RelogState, NEW a \in Active, NEW c, RightContext(trace, mainComponentCache_, c, a),
         NEW info \in Toolsets, NEW s,
         s = BuildExplorerStart(a, c, info) \o FunctionsStart(a, c) \o FilesStart(a, c)
  PROVE  StartAdds(s, trace, mainComponentCache_, a, info)
<1> DEFINE t == trace  m == mainComponentCache_
           x == BuildExplorerStart(a, c, info)  y == FunctionsStart(a, c)  z == FilesStart(a, c)
           E == {"BuildExplorerActivity", "StringProperty"}
<1>1. kind[a] = KindIn(t, a)
  BY DEF RelogState, TreeReplayed
<1>2. /\ Adds(x, t, m, a, E, ToolNames)
      /\ Once(ShownAt(x, "BuildExplorerActivity", a), ListedIn(t, a))
      /\ KindIn(t, a) \in InvocationKinds =>
           WholeIn(x, a, "Version", info.version) /\ WholeIn(x, a, "WorkingDirectory", info.directory)
  BY <1>1, ExplorerStart
<1> DEFINE f == KindIn(t, a) = "Function" /\ DurationIn(t, a) >= LongFunction
           g == KindIn(t, a) = "FrontEndFile"
<1>3. /\ Adds(y, t, m, a, {"FunctionActivity"}, {})
      /\ Once(ShownAt(y, "FunctionActivity", a), f)
  BY FunctionStart
<1>4. /\ Adds(z, t, m, a, {"FileActivity"}, {})
      /\ Once(ShownAt(z, "FileActivity", a), g)
  BY FileStart
<1>5. s = (x \o y) \o z
  OBVIOUS
<1> HIDE DEF t, m, x, y, z, f, g
<1> DEFINE u == x \o y
<1>6. IsSeq(x) /\ IsSeq(y) /\ IsSeq(z)
  BY <1>2, <1>3, <1>4, AddsNoOther
<1>7. /\ ShownAt(x, "FunctionActivity", a) = {} /\ ShownAt(x, "FileActivity", a) = {}
      /\ ShownAt(y, "BuildExplorerActivity", a) = {} /\ ShownAt(y, "FileActivity", a) = {}
      /\ ShownAt(z, "BuildExplorerActivity", a) = {} /\ ShownAt(z, "FunctionActivity", a) = {}
  BY <1>2, <1>3, <1>4, AddsNoOther
<1>8. /\ \A name : PiecesAt(y, a, name) = {} /\ PiecesAt(z, a, name) = {}
      /\ PiecesAt(x, a, "CommandLine") = {}
  BY <1>2, <1>3, <1>4, AddsNoOther DEF ToolNames
<1> HIDE DEF u, E
<1>9. Shows(u, t, m, a) /\ Shows(u \o z, t, m, a) /\ IsSeq(u)
  <2>1. Shows(x, t, m, a) /\ Shows(y, t, m, a) /\ Shows(z, t, m, a)
    BY <1>2, <1>3, <1>4 DEF Adds
  <2>2. Shows(u, t, m, a)
    BY <2>1, ShowsJoined DEF u
  <2>3. Shows(u \o z, t, m, a)
    BY <2>1, <2>2, ShowsJoined
  <2> QED BY <2>2, <2>3 DEF Shows
<1>10. Once(ShownAt(u, "BuildExplorerActivity", a), ListedIn(t, a))
  BY <1>2, <1>6, <1>7, OnceBefore DEF u
<1>11. Once(ShownAt(u \o z, "BuildExplorerActivity", a), ListedIn(t, a))
  BY <1>6, <1>7, <1>9, <1>10, OnceBefore
<1>12. Once(ShownAt(u, "FunctionActivity", a), f)
  BY <1>3, <1>6, <1>7, OnceAfter DEF u
<1>13. Once(ShownAt(u \o z, "FunctionActivity", a), f)
  BY <1>6, <1>7, <1>9, <1>12, OnceBefore
<1>14. ShownAt(u, "FileActivity", a) = {}
  BY <1>6, <1>7, NoneJoined DEF u
<1>15. Once(ShownAt(u \o z, "FileActivity", a), g)
  BY <1>4, <1>6, <1>9, <1>14, OnceAfter
<1>16. ASSUME NEW name, NEW value, WholeIn(x, a, name, value)
       PROVE  WholeIn(u \o z, a, name, value)
  <2>1. WholeIn(u, a, name, value)
    BY <1>6, <1>8, <1>16, WholeBefore DEF u
  <2> QED BY <1>6, <1>8, <1>9, <2>1, WholeBefore
<1>17. PiecesAt(u, a, "CommandLine") = {}
  BY <1>6, <1>8, NoneJoined DEF u
<1>18. PiecesAt(u \o z, a, "CommandLine") = {}
  BY <1>6, <1>8, <1>9, <1>17, NoneJoined
<1>19. StartAdds(u \o z, t, m, a, info)
  BY <1>2, <1>9, <1>11, <1>13, <1>15, <1>16, <1>18 DEF StartAdds, f, g
<1> QED BY <1>5, <1>19 DEF u, t, m

LEMMA ViewsAtSimple ==
  ASSUME RelogState, NEW a \in Active, NEW c, RightContext(trace, mainComponentCache_, c, a),
         NEW w, NEW name, NEW value \in Seq(Nat), w # "EnvironmentVariable" => name = w,
         NEW s, s = BuildExplorerSimple(a, w, name, value, c) \o FunctionsSimple(a, w, c)
  PROVE  SimpleAdds(s, trace, mainComponentCache_, a, w, value)
<1> DEFINE t == trace  m == mainComponentCache_
           x == BuildExplorerSimple(a, w, name, value, c)  y == FunctionsSimple(a, w, c)
           N == IF w = "CommandLine" THEN {"CommandLine"} ELSE CompilerVariables \cup LinkerVariables
           f == [function |-> CHOOSE i \in Innermost(a, {"Function"}) : TRUE]
<1>1. a \in IdsIn(t)
  BY DEF RelogState, TreeReplayed
<1>2. x = <<>> \/ x = ProcessStringProperty(a, c, name, value)
  BY DEF BuildExplorerSimple
<1>3. x # <<>> => name \in N
  BY DEF BuildExplorerSimple, ShowsVariable
<1>4. y = <<>> \/ y = Injected("ForceInlinee", a, c, f)
  BY DEF FunctionsSimple
<1>5. w = "CommandLine" /\ InvocationIn(t, a) # Null => x = ProcessStringProperty(a, c, name, value)
  <2> HAVE w = "CommandLine" /\ InvocationIn(t, a) # Null
  <2>1. stack[a] \cap CP!Invocations # {}
    BY StackTells DEF InvocationIn, Last
  <2>2. HasAncestor(a, InvocationKinds)
    BY <2>1 DEF HasAncestor, CP!Invocations, CP!InvocationKinds, InvocationKinds
  <2> QED BY <2>2 DEF BuildExplorerSimple
<1>6. RightContext(t, m, c, a)
  OBVIOUS
<1>7. s = x \o y
  OBVIOUS
<1> HIDE DEF t, m, x, y, f
<1>8. x = ProcessStringProperty(a, c, name, value) =>
        Adds(x, t, m, a, {"StringProperty"}, {name}) /\ WholeIn(x, a, name, value)
  BY <1>1, <1>6, AddsProperty
<1>9. Adds(x, t, m, a, {"StringProperty"}, N)
  <2>1. CASE x = <<>>
    BY <2>1, AddsNothing
  <2>2. CASE x # <<>>
    <3>1. Adds(x, t, m, a, {"StringProperty"}, {name}) /\ {name} \subseteq N
      BY <1>2, <1>3, <1>8, <2>2
    <3> HIDE DEF N
    <3> QED BY <3>1, AddsMore
  <2> QED BY <2>1, <2>2
<1>10. Adds(y, t, m, a, {"ForceInlinee"}, {})
  <2>1. CASE y = <<>>
    BY <2>1, AddsNothing
  <2>2. CASE y = Injected("ForceInlinee", a, c, f)
    BY <1>1, <1>6, <2>2, AddsOne DEF ShownEvents
  <2> QED BY <1>4, <2>1, <2>2
<1>11. IsSeq(x) /\ IsSeq(y)
  BY <1>9, <1>10, AddsNoOther
<1>12. \A event \in ShownEvents : ShownAt(x, event, a) = {} /\ ShownAt(y, event, a) = {}
  BY <1>9, <1>10, AddsNoOther DEF ShownEvents
<1>13. \A i : PiecesAt(y, a, i) = {}
  BY <1>10, AddsNoOther
<1>14. \A i : i \notin N => PiecesAt(x, a, i) = {}
  BY <1>9, AddsNoOther
<1>15. /\ "Version" \notin N /\ "WorkingDirectory" \notin N
       /\ w # "CommandLine" => "CommandLine" \notin N
  BY DEF CompilerVariables, LinkerVariables, SharedVariables
<1> HIDE DEF N
<1>16. Shows(x \o y, t, m, a)
  BY <1>9, <1>10, ShowsJoined DEF Adds
<1>17. \A event \in ShownEvents : ShownAt(x \o y, event, a) = {}
  BY <1>11, <1>12, NoneJoined
<1>18. \A i : i \notin N => PiecesAt(x \o y, a, i) = {}
  BY <1>11, <1>13, <1>14, NoneJoined
<1>19. w = "CommandLine" /\ InvocationIn(t, a) # Null => WholeIn(x \o y, a, "CommandLine", value)
  <2> HAVE w = "CommandLine" /\ InvocationIn(t, a) # Null
  <2>1. WholeIn(x, a, "CommandLine", value)
    BY <1>5, <1>8
  <2> QED BY <1>11, <1>13, <2>1, WholeBefore
<1>20. SimpleAdds(x \o y, t, m, a, w, value)
  BY <1>15, <1>16, <1>17, <1>18, <1>19 DEF SimpleAdds
<1> QED BY <1>7, <1>20 DEF t, m

-----------------------------------------------------------------------------
(* What has been shown when the first n events of t have been relogged. *)

ReachedIn(t, n) == {t[i].id : i \in {j \in 1 .. n : t[j].type = "start"}}

CommandLinesIn(t, n, a) ==
  {i \in 1 .. n : t[i].type = "simple" /\ t[i].id = a /\ t[i].what = "CommandLine"}

ActivityShown(t, s, a) ==
  /\ Once(ShownAt(s, "BuildExplorerActivity", a), ListedIn(t, a))
  /\ Once(ShownAt(s, "FunctionActivity", a),
          KindIn(t, a) = "Function" /\ DurationIn(t, a) >= LongFunction)
  /\ Once(ShownAt(s, "FileActivity", a), KindIn(t, a) = "FrontEndFile")
  /\ KindIn(t, a) \in InvocationKinds =>
       /\ WholeIn(s, a, "Version", t[StartIn(t, a)].info.version)
       /\ WholeIn(s, a, "WorkingDirectory", t[StartIn(t, a)].info.directory)

CommandLinesShown(t, n, s, a) ==
  /\ CommandLinesIn(t, n, a) = {} => PiecesAt(s, a, "CommandLine") = {}
  /\ \A i \in CommandLinesIn(t, n, a) :
       CommandLinesIn(t, n, a) = {i} /\ InvocationIn(t, a) # Null =>
         WholeIn(s, a, "CommandLine", t[i].value)

ShownInv(t, n, s) ==
  /\ IsSeq(s)
  /\ \A j \in DOMAIN s : s[j].id \in ReachedIn(t, n)
  /\ \A a \in ReachedIn(t, n) : ActivityShown(t, s, a)
  /\ \A a \in Activities : CommandLinesShown(t, n, s, a)

LEMMA OthersShowNothing ==
  ASSUME NEW s, NEW a, \A j \in DOMAIN s : s[j].id # a
  PROVE  /\ \A event : ShownAt(s, event, a) = {}
         /\ \A name : PiecesAt(s, a, name) = {}
BY DEF ShownAt, PiecesAt

LEMMA ShownAtFirst ==
  ASSUME NEW t, NEW s, s = <<>>
  PROVE  ShownInv(t, 0, s)
<1>1. ReachedIn(t, 0) = {} /\ \A a : CommandLinesIn(t, 0, a) = {}
  BY DEF ReachedIn, CommandLinesIn
<1>2. IsSeq(s) /\ DOMAIN s = {}
  BY DEF IsSeq
<1>3. \A a : PiecesAt(s, a, "CommandLine") = {}
  BY <1>2, OthersShowNothing
<1> QED BY <1>1, <1>2, <1>3 DEF ShownInv, CommandLinesShown

\* The activities reached and the command lines seen after one more event.
Advanced(t, n) ==
  /\ ReachedIn(t, n + 1) = ReachedIn(t, n) \cup
       (IF t[n + 1].type = "start" THEN {t[n + 1].id} ELSE {})
  /\ t[n + 1].type = "start" => t[n + 1].id \notin ReachedIn(t, n)
  /\ \A a : CommandLinesIn(t, n + 1, a) = CommandLinesIn(t, n, a) \cup
       (IF t[n + 1].type = "simple" /\ t[n + 1].id = a /\ t[n + 1].what = "CommandLine"
          THEN {n + 1} ELSE {})

LEMMA OneMore ==
  ASSUME NEW t, WellFormed(t), NEW n \in Nat, n < Len(t)
  PROVE  Advanced(t, n)
<1>1. Len(t) \in Nat /\ DOMAIN t = 1 .. Len(t)
  BY DEF WellFormed
<1>2. 1 .. n + 1 = (1 .. n) \cup {n + 1} /\ n + 1 \notin 1 .. n
  OBVIOUS
<1>3. ReachedIn(t, n + 1) = ReachedIn(t, n) \cup
        (IF t[n + 1].type = "start" THEN {t[n + 1].id} ELSE {})
  BY <1>2 DEF ReachedIn
<1>4. t[n + 1].type = "start" => t[n + 1].id \notin ReachedIn(t, n)
  <2> SUFFICES ASSUME t[n + 1].type = "start", t[n + 1].id \in ReachedIn(t, n)
               PROVE  FALSE
    OBVIOUS
  <2>1. PICK i \in 1 .. n : t[i].type = "start" /\ t[i].id = t[n + 1].id
    BY DEF ReachedIn
  <2>2. i \in DOMAIN t /\ n + 1 \in DOMAIN t /\ i # n + 1
    BY <1>1
  <2>3. i \in StartsIn(t) /\ n + 1 \in StartsIn(t)
    BY <2>1, <2>2 DEF StartsIn
  <2> QED BY <2>1, <2>2, <2>3 DEF WellFormed
<1>5. \A a : CommandLinesIn(t, n + 1, a) = CommandLinesIn(t, n, a) \cup
        (IF t[n + 1].type = "simple" /\ t[n + 1].id = a /\ t[n + 1].what = "CommandLine"
           THEN {n + 1} ELSE {})
  BY <1>2 DEF CommandLinesIn
<1> QED BY <1>3, <1>4, <1>5 DEF Advanced

\* What is shown of a stays so with events for others.
LEMMA ShownKept ==
  ASSUME NEW t, NEW n, NEW s, NEW x, NEW a, IsSeq(s), IsSeq(x), \A j \in DOMAIN x : x[j].id # a
  PROVE  /\ ActivityShown(t, s, a) => ActivityShown(t, s \o x, a)
         /\ CommandLinesShown(t, n, s, a) => CommandLinesShown(t, n, s \o x, a)
<1>1. /\ \A event : ShownAt(x, event, a) = {}
      /\ \A name : PiecesAt(x, a, name) = {}
  BY OthersShowNothing
<1>2. \A event, b : Once(ShownAt(s, event, a), b) => Once(ShownAt(s \o x, event, a), b)
  BY <1>1, OnceBefore
<1>3. \A name, value : WholeIn(s, a, name, value) => WholeIn(s \o x, a, name, value)
  BY <1>1, WholeBefore
<1>4. \A name : PiecesAt(s, a, name) = {} => PiecesAt(s \o x, a, name) = {}
  BY <1>1, NoneJoined
<1>5. ActivityShown(t, s, a) => ActivityShown(t, s \o x, a)
  BY <1>2, <1>3 DEF ActivityShown
<1>6. CommandLinesShown(t, n, s, a) => CommandLinesShown(t, n, s \o x, a)
  BY <1>3, <1>4 DEF CommandLinesShown
<1> QED BY <1>5, <1>6

LEMMA ShownJoinedIds ==
  ASSUME NEW s, IsSeq(s), NEW x, IsSeq(x), NEW R, NEW a \in R,
         \A j \in DOMAIN s : s[j].id \in R, \A j \in DOMAIN x : x[j].id = a
  PROVE  \A j \in DOMAIN (s \o x) : (s \o x)[j].id \in R
<1> DEFINE u == s \o x
<1>1. Joined(s, x, u)
  BY Concatenated
<1> HIDE DEF u
<1>2. \A j \in DOMAIN u : \/ j \in DOMAIN s
                          \/ j - Len(s) \in DOMAIN x /\ j = Len(s) + (j - Len(s))
  BY <1>1 DEF Joined
<1>3. \A j \in DOMAIN u : \/ \E i \in DOMAIN s : u[j] = s[i]
                          \/ \E i \in DOMAIN x : u[j] = x[i]
  BY <1>1, <1>2 DEF Joined
<1>4. \A j \in DOMAIN u : u[j].id \in R
  BY <1>3
<1> QED BY <1>4 DEF u

LEMMA ShownStart ==
  ASSUME NEW t, WellFormed(t), NEW n \in Nat, n < Len(t), NEW s, ShownInv(t, n, s),
         t[n + 1].type = "start", NEW a, a = t[n + 1].id, NEW m, NEW x,
         StartAdds(x, t, m, a, t[n + 1].info)
  PROVE  ShownInv(t, n + 1, s \o x)
<1> DEFINE R == ReachedIn(t, n + 1)
<1>0. Advanced(t, n)
  BY OneMore
<1>1. R = ReachedIn(t, n) \cup {a} /\ a \notin ReachedIn(t, n)
  BY <1>0 DEF Advanced
<1>2. \A b : CommandLinesIn(t, n + 1, b) = CommandLinesIn(t, n, b)
  BY <1>0 DEF Advanced
<1>3. /\ IsSeq(s) /\ IsSeq(x)
      /\ \A j \in DOMAIN s : s[j].id \in ReachedIn(t, n)
      /\ \A j \in DOMAIN x : x[j].id = a
  BY DEF ShownInv, StartAdds, Shows
<1> HIDE DEF R
<1>4. \A j \in DOMAIN (s \o x) : (s \o x)[j].id \in R
  BY <1>1, <1>3, ShownJoinedIds
<1>5. /\ \A event : ShownAt(s, event, a) = {}
      /\ \A name : PiecesAt(s, a, name) = {}
  BY <1>1, <1>3, OthersShowNothing
<1>6. \A event, b : Once(ShownAt(x, event, a), b) => Once(ShownAt(s \o x, event, a), b)
  BY <1>3, <1>5, OnceAfter
<1>7. \A name, value : WholeIn(x, a, name, value) => WholeIn(s \o x, a, name, value)
  BY <1>3, <1>5, WholeAfter
<1>8. ActivityShown(t, s \o x, a)
  <2>1. n + 1 \in StartsIn(t)
    BY DEF WellFormed, StartsIn
  <2>2. StartIn(t, a) = n + 1
    BY <2>1, StartFound
  <2> QED BY <1>6, <1>7, <2>2 DEF ActivityShown, StartAdds
<1>9. \A b \in R : ActivityShown(t, s \o x, b)
  <2> TAKE b \in R
  <2>1. CASE b = a
    BY <1>8, <2>1
  <2>2. CASE b # a
    <3>1. ActivityShown(t, s, b) /\ \A j \in DOMAIN x : x[j].id # b
      BY <1>1, <1>3, <2>2 DEF ShownInv
    <3> QED BY <1>3, <3>1, ShownKept
  <2> QED BY <2>1, <2>2
<1>10. \A b \in Activities : CommandLinesShown(t, n + 1, s \o x, b)
  <2> TAKE b \in Activities
  <2>1. CommandLinesShown(t, n, s, b)
    BY DEF ShownInv
  <2>2. CASE b # a
    <3>1. \A j \in DOMAIN x : x[j].id # b
      BY <1>3, <2>2
    <3>2. CommandLinesShown(t, n, s \o x, b)
      BY <1>3, <2>1, <3>1, ShownKept
    <3> QED BY <1>2, <3>2 DEF CommandLinesShown
  <2>3. CASE b = a
    <3>1. PiecesAt(x, a, "CommandLine") = {}
      BY DEF StartAdds
    <3>2. \A value : ~ WholeIn(s, a, "CommandLine", value)
      BY <1>5 DEF WholeIn
    <3>3. PiecesAt(s \o x, a, "CommandLine") = {}
      BY <1>3, <1>5, <3>1, NoneJoined
    <3> QED BY <1>2, <2>1, <2>3, <3>2, <3>3 DEF CommandLinesShown
  <2> QED BY <2>2, <2>3
<1>11. IsSeq(s \o x)
  BY <1>3, Concatenated DEF Joined
<1> QED BY <1>4, <1>9, <1>10, <1>11 DEF ShownInv, R

LEMMA ShownStop ==
  ASSUME NEW t, WellFormed(t), NEW n \in Nat, n < Len(t), NEW s, ShownInv(t, n, s),
         t[n + 1].type = "stop"
  PROVE  ShownInv(t, n + 1, s)
<1>0. Advanced(t, n)
  BY OneMore
<1>1. ReachedIn(t, n + 1) = ReachedIn(t, n)
  BY <1>0 DEF Advanced
<1>2. \A b : CommandLinesIn(t, n + 1, b) = CommandLinesIn(t, n, b)
  BY <1>0 DEF Advanced
<1>3. \A b \in Activities : CommandLinesShown(t, n + 1, s, b)
  BY <1>2 DEF ShownInv, CommandLinesShown
<1> QED BY <1>1, <1>3 DEF ShownInv

LEMMA ShownSimple ==
  ASSUME NEW t, WellFormed(t), NEW n \in Nat, n < Len(t), NEW s, ShownInv(t, n, s),
         t[n + 1].type = "simple", NEW a \in ReachedIn(t, n), a = t[n + 1].id, NEW m, NEW x,
         SimpleAdds(x, t, m, a, t[n + 1].what, t[n + 1].value)
  PROVE  ShownInv(t, n + 1, s \o x)
<1> DEFINE R == ReachedIn(t, n)  w == t[n + 1].what
<1>0. Advanced(t, n)
  BY OneMore
<1>1. ReachedIn(t, n + 1) = R
  BY <1>0 DEF Advanced
<1>2. /\ \A b : b # a => CommandLinesIn(t, n + 1, b) = CommandLinesIn(t, n, b)
      /\ CommandLinesIn(t, n + 1, a) = CommandLinesIn(t, n, a) \cup
           (IF w = "CommandLine" THEN {n + 1} ELSE {})
      /\ n + 1 \notin CommandLinesIn(t, n, a)
  <2>1. n + 1 \notin CommandLinesIn(t, n, a)
    BY DEF CommandLinesIn
  <2> QED BY <1>0, <2>1 DEF Advanced
<1>3. /\ IsSeq(s) /\ IsSeq(x)
      /\ \A j \in DOMAIN s : s[j].id \in R
      /\ \A j \in DOMAIN x : x[j].id = a
  BY DEF ShownInv, SimpleAdds, Shows
<1> HIDE DEF R
<1>4. \A j \in DOMAIN (s \o x) : (s \o x)[j].id \in R
  BY <1>3, ShownJoinedIds DEF R
<1>5. \A event \in ShownEvents : \A b :
        Once(ShownAt(s, event, a), b) => Once(ShownAt(s \o x, event, a), b)
  BY <1>3, OnceBefore DEF SimpleAdds
<1>6. ActivityShown(t, s \o x, a)
  <2>1. ActivityShown(t, s, a)
    BY DEF ShownInv
  <2>2. \A value : /\ WholeIn(s, a, "Version", value) => WholeIn(s \o x, a, "Version", value)
                   /\ WholeIn(s, a, "WorkingDirectory", value) =>
                        WholeIn(s \o x, a, "WorkingDirectory", value)
    BY <1>3, WholeBefore DEF SimpleAdds
  <2> QED BY <1>5, <2>1, <2>2 DEF ActivityShown, ShownEvents
<1>7. \A b \in R : ActivityShown(t, s \o x, b)
  <2> TAKE b \in R
  <2>1. CASE b = a
    BY <1>6, <2>1
  <2>2. CASE b # a
    <3>1. ActivityShown(t, s, b) /\ \A j \in DOMAIN x : x[j].id # b
      BY <1>3, <2>2 DEF ShownInv, R
    <3> QED BY <1>3, <3>1, ShownKept
  <2> QED BY <2>1, <2>2
<1>8. ASSUME a \in Activities
      PROVE  CommandLinesShown(t, n + 1, s \o x, a)
  <2>1. CommandLinesShown(t, n, s, a)
    BY <1>8 DEF ShownInv
  <2>2. CASE w # "CommandLine"
    <3>1. PiecesAt(x, a, "CommandLine") = {}
      BY <2>2 DEF SimpleAdds
    <3>2. \A value : WholeIn(s, a, "CommandLine", value) => WholeIn(s \o x, a, "CommandLine", value)
      BY <1>3, <3>1, WholeBefore
    <3>3. PiecesAt(s, a, "CommandLine") = {} => PiecesAt(s \o x, a, "CommandLine") = {}
      BY <1>3, <3>1, NoneJoined
    <3> QED BY <1>2, <2>1, <2>2, <3>2, <3>3 DEF CommandLinesShown
  <2>3. CASE w = "CommandLine"
    <3> SUFFICES ASSUME NEW i, CommandLinesIn(t, n + 1, a) = {i}, InvocationIn(t, a) # Null
                 PROVE  WholeIn(s \o x, a, "CommandLine", t[i].value)
      BY <1>2, <2>3 DEF CommandLinesShown
    <3>1. i = n + 1 /\ CommandLinesIn(t, n, a) = {}
      BY <1>2, <2>3
    <3>2. PiecesAt(s, a, "CommandLine") = {}
      BY <2>1, <3>1 DEF CommandLinesShown
    <3>3. WholeIn(x, a, "CommandLine", t[n + 1].value)
      BY <2>3 DEF SimpleAdds
    <3> QED BY <1>3, <3>1, <3>2, <3>3, WholeAfter
  <2> QED BY <2>2, <2>3
<1>9. \A b \in Activities : CommandLinesShown(t, n + 1, s \o x, b)
  <2> TAKE b \in Activities
  <2>1. CASE b # a
    <3>1. CommandLinesShown(t, n, s, b) /\ \A j \in DOMAIN x : x[j].id # b
      BY <1>3, <2>1 DEF ShownInv
    <3>2. CommandLinesShown(t, n, s \o x, b)
      BY <1>3, <3>1, ShownKept
    <3> QED BY <1>2, <2>1, <3>2 DEF CommandLinesShown
  <2>2. CASE b = a
    BY <1>8, <2>2
  <2> QED BY <2>1, <2>2
<1>10. IsSeq(s \o x)
  BY <1>3, Concatenated DEF Joined
<1> QED BY <1>1, <1>4, <1>7, <1>9, <1>10 DEF ShownInv, R

-----------------------------------------------------------------------------
(* The invariant of the session. *)

PassInv ==
  /\ pos \in Nat /\ pos <= Len(trace)
  /\ phase \in {"analysis", "relogging", "done", "failed"}
  /\ analysisPass_ \in Nat /\ analysisPass_ >= 1
  /\ phase = "analysis" => analysisCount_ = 2
  /\ phase = "relogging" => analysisCount_ = 1
  /\ Recording => pos = Len(trace)

ResultInv ==
  /\ phase \in {"analysis", "relogging"} => result = Null
  /\ phase = "done" => result = S_OK
  /\ phase = "failed" => result \in Int /\ result < 0

\* What the first pass leaves, which the later passes only read.
CachesInv ==
  /\ WellFormed(trace) /\ RecordsTrace /\ TimingTypeOK /\ ExclusiveTimes /\ ComponentsInv

RecordedInv == CachesInv /\ TreeInv /\ TreeReplayed

\* No context before the relogging pass.
ContextIdle ==
  /\ timelineCount_ = 0
  /\ availableTimelineIds_ = [t \in CB!TimelineIds |-> 0]
  /\ timelineDescriptions_ = {}
  /\ contextData_ = [a \in Activities |-> Null]
  /\ activityContextLinks_ = [a \in Activities |-> Null]
  /\ activeComponents_ = {}
  /\ invocationDescriptions_ = {}
  /\ currentContextData_ = Null
  /\ currentInstanceId_ = Null

InjectedInv == \A j \in DOMAIN injected : RightEvent(trace, mainComponentCache_, injected[j])

SessionInv ==
  /\ PassInv /\ ResultInv /\ RecordedInv /\ InjectedInv
  /\ Recording => FirstPassInv
  /\ phase = "analysis" => ContextIdle /\ injected = <<>>
  /\ phase = "relogging" =>
       CP!AttributionInv /\ StacksReplayed /\ Active \subseteq ReachedIn(trace, pos)
  /\ phase \in {"relogging", "done"} => ShownInv(trace, pos, injected)

LEMMA EmptyTraceWellFormed ==
  ASSUME NEW t, t = <<>>
  PROVE  WellFormed(t) /\ IdsIn(t) = {} /\ \A a : StopsOfIn(t, a) = {}
<1>1. DOMAIN t = {} /\ t \in Seq(Event)
  OBVIOUS
<1>2. StartsIn(t) = {} /\ StopsIn(t) = {}
  BY <1>1 DEF StartsIn, StopsIn
<1>3. IdsIn(t) = {} /\ \A a : StopsOfIn(t, a) = {}
  BY <1>1, <1>2 DEF IdsIn, StopsOfIn
<1> QED BY <1>1, <1>2, <1>3 DEF WellFormed

LEMMA RecordingIsRecorded == RecordingInv => RecordedInv /\ FirstPassInv
BY DEF RecordingInv, RecordedInv, CachesInv, FirstPassInv, TimesInv

LEMMA SessionInit == Init => SessionInv
<1> SUFFICES ASSUME Init PROVE SessionInv
  OBVIOUS
<1>1. PassesInit /\ FirstPassInit /\ CB!Init /\ injected = <<>> /\ result = Null
  BY DEF Init
<1>2. trace = <<>> /\ pos = 0 /\ phase = "analysis" /\ analysisCount_ = 2 /\ analysisPass_ = 1
  BY <1>1 DEF PassesInit
<1>3. WellFormed(trace) /\ IdsIn(trace) = {} /\ \A a : StopsOfIn(trace, a) = {}
  BY <1>2, EmptyTraceWellFormed
<1>4. FirstPassInv
  BY <1>1, FirstPassInitInv
<1>5. RecordsTrace
  BY <1>1, <1>3 DEF FirstPassInit, TimingInit, RecordsTrace, TimeRecorded
<1>6. TreeReplayed
  BY <1>1 DEF FirstPassInit, TreeInit, TreeReplayed, Active
<1>7. RecordedInv
  BY <1>3, <1>4, <1>5, <1>6, RecordingIsRecorded DEF RecordingInv
<1>8. ContextIdle
  BY <1>1 DEF CB!Init, ContextIdle
<1>9. PassInv
  BY <1>2 DEF PassInv
<1>10. ResultInv /\ InjectedInv
  BY <1>1, <1>2 DEF ResultInv, InjectedInv
<1> QED BY <1>1, <1>2, <1>4, <1>7, <1>8, <1>9, <1>10 DEF SessionInv

-----------------------------------------------------------------------------
(* The session in its first pass. *)

\* What a step of the first pass does to all but the recorders.
LEMMA RecordingStep ==
  ASSUME SessionInv, Recording, NEW e, Dispatch(e), RecordingInv', trace' \in Seq(Event),
         UNCHANGED contextVars, UNCHANGED <<injected, result>>
  PROVE  SessionInv'
<1>1. /\ trace' = Append(trace, e) /\ pos' = pos + 1
      /\ UNCHANGED <<phase, analysisCount_, analysisPass_, isEnabled_>>
      /\ phase = "analysis" /\ analysisPass_ = 1 /\ phase' = "analysis"
  BY DEF Dispatch, Recording
<1>2. /\ pos \in Nat /\ pos = Len(trace) /\ ContextIdle /\ injected = <<>> /\ result = Null
      /\ analysisCount_ = 2 /\ trace \in Seq(Event)
  BY <1>1 DEF SessionInv, PassInv, ResultInv, RecordedInv, CachesInv, WellFormed
<1>3. pos' \in Nat /\ pos' = Len(trace')
  BY <1>1, <1>2
<1>4. PassInv'
  BY <1>1, <1>2, <1>3 DEF PassInv, Recording
<1>5. ResultInv' /\ InjectedInv'
  BY <1>1, <1>2 DEF ResultInv, InjectedInv
<1>6. RecordedInv' /\ FirstPassInv'
  BY RecordingIsRecorded, PTL
<1>7. ContextIdle'
  BY <1>2 DEF ContextIdle, contextVars, CB!TimelineIds
<1> QED BY <1>1, <1>2, <1>4, <1>5, <1>6, <1>7 DEF SessionInv

LEMMA RecordingHolds ==
  ASSUME SessionInv, Recording
  PROVE  RecordingInv
BY DEF SessionInv, RecordedInv, CachesInv, RecordingInv

LEMMA StartRecorded ==
  ASSUME SessionInv, Recording, NEW e \in NewStarts, Start(e)
  PROVE  SessionInv'
<1>1. /\ Dispatch(e) /\ StartFirst(e.id, e.parent, e.kind) /\ UNCHANGED <<contextVars, injected>>
      /\ UNCHANGED result /\ trace' = Append(trace, e)
  BY DEF Start, Dispatch
<1>2. RecordingInv'
  BY <1>1, RecordingHolds, RecordStart
<1>3. trace' \in Seq(Event)
  BY <1>2 DEF RecordingInv, WellFormed
<1> QED BY <1>1, <1>2, <1>3, RecordingStep

LEMMA StopRecorded ==
  ASSUME SessionInv, Recording, NEW e \in NewStops, Stop(e)
  PROVE  SessionInv'
<1>1. /\ Dispatch(e) /\ StopFirst(e.id, e.duration) /\ UNCHANGED contextVars
      /\ UNCHANGED <<injected, result>> /\ trace' = Append(trace, e)
  BY DEF Stop, Dispatch
<1>2. RecordingInv'
  BY <1>1, RecordingHolds, RecordStop
<1>3. trace' \in Seq(Event)
  BY <1>2 DEF RecordingInv, WellFormed
<1> QED BY <1>1, <1>2, <1>3, RecordingStep

LEMMA SimpleRecorded ==
  ASSUME SessionInv, Recording, NEW e \in NewSimples, Simple(e)
  PROVE  SessionInv'
<1>1. /\ Dispatch(e) /\ SimpleFirst(e.id, e.what, Len(trace) + 1)
      /\ UNCHANGED <<contextVars, injected>> /\ UNCHANGED result
      /\ trace' = Append(trace, e) /\ Len(trace) < MaxEvents
  BY DEF Simple, Dispatch
<1>2. RecordingInv'
  BY <1>1, RecordingHolds, RecordSimple
<1>3. trace' \in Seq(Event)
  BY <1>2 DEF RecordingInv, WellFormed
<1> QED BY <1>1, <1>2, <1>3, RecordingStep

-----------------------------------------------------------------------------
(* The later passes: what the first pass left is only read. *)

LEMMA TimesKept ==
  ASSUME TimingTypeOK, NEW x \in Activities, GetTimingData(x), NEW a \in Activities
  PROVE  timingData_'[a] = IF a = x /\ timingData_[a] = Null THEN NoTimes ELSE timingData_[a]
BY DEF GetTimingData, TimesOf, TimingTypeOK

\* A query makes an entry without times at most.
LEMMA TimesQueried ==
  ASSUME TimingTypeOK, NEW x \in Activities, GetTimingData(x)
  PROVE  /\ timingData_' \in [Activities -> TimingData \cup {Null}]
         /\ \A a \in Activities :
              \/ timingData_'[a] = timingData_[a]
              \/ timingData_[a] = Null /\ timingData_'[a] = NoTimes
<1>1. TimesOf(x) \in TimingData
  BY TimingRecords DEF TimesOf, TimingTypeOK
<1>2. timingData_' \in [Activities -> TimingData \cup {Null}]
  BY <1>1 DEF GetTimingData, TimingTypeOK
<1> QED BY <1>2, TimesKept

LEMMA CachesKept ==
  ASSUME CachesInv, trace' = trace, UNCHANGED <<componentVars, exclusivityLeaves_, past>>,
         pass_' \in Nat,
         timingData_' \in [Activities -> TimingData \cup {Null}],
         \A a \in Activities : \/ timingData_'[a] = timingData_[a]
                               \/ timingData_[a] = Null /\ timingData_'[a] = NoTimes
  PROVE  CachesInv'
<1>1. WellFormed(trace) /\ RecordsTrace /\ TimingTypeOK /\ ExclusiveTimes /\ ComponentsInv
  BY DEF CachesInv
<1>2. past' = past /\ mainComponentCache_' = mainComponentCache_ /\ UNCHANGED componentVars
  BY DEF componentVars
<1>3. WellFormed(trace)'
  BY <1>1
<1>4. ComponentsInv'
  BY <1>1, <1>2, QuietComponents
<1>5. TimingTypeOK'
  BY <1>1, <1>2 DEF TimingTypeOK
<1>6. ExclusiveTimes'
  <2> SUFFICES ASSUME NEW a \in Activities, past[a] # Null, timingData_'[a] \notin {Null, NoTimes}
               PROVE  timingData_'[a].Exclusive = "whole"
                        <=> (past[a].parts \cap PartKinds) \ {past[a].kind} # {}
    BY <1>2 DEF ExclusiveTimes
  <2>1. timingData_'[a] = timingData_[a]
    OBVIOUS
  <2> QED BY <1>1, <2>1 DEF ExclusiveTimes
<1>7. NoTimes # Null
  BY TimingRecords
<1>8. \A a \in Activities : TimeRecorded(a)'
  <2> SUFFICES ASSUME NEW a \in Activities PROVE TimeRecorded(a)'
    OBVIOUS
  <2>1. TimeRecorded(a)
    BY <1>1 DEF RecordsTrace
  <2> QED BY <1>7, <2>1 DEF TimeRecorded
<1>9. RecordsTrace'
  BY <1>1, <1>2, <1>8 DEF RecordsTrace
<1> QED BY <1>3, <1>4, <1>5, <1>6, <1>9 DEF CachesInv

\* The next event of the trace.
LEMMA NextEvent ==
  ASSUME SessionInv, ~ Recording, NEW e, Dispatch(e)
  PROVE  /\ pos \in Nat /\ pos < Len(trace) /\ Len(trace) \in Nat
         /\ pos + 1 \in DOMAIN trace /\ e = trace[pos + 1] /\ e \in Event
         /\ WellFormed(trace) /\ trace' = trace /\ pos' = pos + 1
         /\ UNCHANGED <<phase, analysisCount_, analysisPass_, isEnabled_>>
         /\ phase \in {"analysis", "relogging"}
         /\ e.type = "start" => pos + 1 \in StartsIn(trace)
<1>1. /\ pos < Len(trace) /\ e = trace[pos + 1] /\ trace' = trace /\ pos' = pos + 1
      /\ UNCHANGED <<phase, analysisCount_, analysisPass_, isEnabled_>>
      /\ phase \in {"analysis", "relogging"}
  BY DEF Dispatch
<1>2. pos \in Nat /\ WellFormed(trace)
  BY DEF SessionInv, PassInv, RecordedInv, CachesInv
<1>3. trace \in Seq(Event)
  BY <1>2 DEF WellFormed
<1>4. Len(trace) \in Nat /\ pos + 1 \in DOMAIN trace
  BY <1>1, <1>2, <1>3
<1>5. trace[pos + 1] \in Event
  BY <1>3, <1>4
<1> QED BY <1>1, <1>2, <1>4, <1>5 DEF StartsIn

-----------------------------------------------------------------------------
(* A second analysis pass, in which only the template analyzers work. *)

LEMMA ReplayStep ==
  ASSUME SessionInv, ~ Recording, phase = "analysis", NEW e, Dispatch(e),
         TreeInv', TreeReplayed',
         UNCHANGED <<componentVars, timingVars, contextVars, injected, result>>
  PROVE  SessionInv'
<1>1. /\ pos \in Nat /\ pos < Len(trace) /\ Len(trace) \in Nat /\ trace' = trace
      /\ pos' = pos + 1 /\ UNCHANGED <<phase, analysisCount_, analysisPass_, isEnabled_>>
  BY NextEvent
<1>2. PassInv /\ ResultInv /\ CachesInv /\ ContextIdle /\ injected = <<>>
  BY DEF SessionInv, RecordedInv
<1>3. pos' \in Nat /\ pos' <= Len(trace')
  BY <1>1
<1>4. ~ Recording'
  BY <1>1 DEF Recording
<1>5. PassInv'
  BY <1>1, <1>2, <1>3, <1>4 DEF PassInv
<1>6. CachesInv'
  <2>1. /\ UNCHANGED <<componentVars, exclusivityLeaves_, past>> /\ timingData_' = timingData_
        /\ pass_' = pass_
    BY DEF timingVars
  <2>2. pass_' \in Nat /\ timingData_' \in [Activities -> TimingData \cup {Null}]
    BY <1>2, <2>1 DEF CachesInv, TimingTypeOK
  <2> QED BY <1>1, <1>2, <2>1, <2>2, CachesKept
<1>7. ResultInv' /\ InjectedInv' /\ injected' = <<>>
  BY <1>1, <1>2 DEF ResultInv, InjectedInv
<1>8. ContextIdle'
  BY <1>2 DEF ContextIdle, contextVars, CB!TimelineIds
<1> QED BY <1>1, <1>4, <1>5, <1>6, <1>7, <1>8 DEF SessionInv, RecordedInv

LEMMA StartReplayed ==
  ASSUME SessionInv, ~ Recording, phase = "analysis", NEW e, Start(e)
  PROVE  SessionInv'
<1>1. ~ IsRelogging
  BY DEF IsRelogging, SessionInv, PassInv
<1>2. /\ e.type = "start" /\ Dispatch(e)
      /\ IF e.parent = Null THEN BeginRoot(e.id, e.kind) ELSE BeginNested(e.id, e.parent, e.kind)
      /\ UNCHANGED <<componentVars, timingVars, contextVars, injected, result>>
  BY <1>1 DEF Start
<1>3. /\ WellFormed(trace) /\ trace' = trace /\ pos + 1 \in StartsIn(trace) /\ e = trace[pos + 1]
  BY <1>2, NextEvent
<1>4. TreeInv /\ TreeReplayed
  BY DEF SessionInv, RecordedInv
<1>5. TreeInv' /\ TreeReplayed'
  BY <1>2, <1>3, <1>4, ReplayStart
<1> QED BY <1>2, <1>5, ReplayStep

LEMMA StopReplayed ==
  ASSUME SessionInv, ~ Recording, phase = "analysis", NEW e, Stop(e)
  PROVE  SessionInv'
<1>1. ~ IsRelogging
  BY DEF IsRelogging, SessionInv, PassInv
<1>2. /\ Dispatch(e) /\ End(e.id)
      /\ UNCHANGED <<componentVars, timingVars, contextVars, injected, result>>
  BY <1>1 DEF Stop
<1>3. trace' = trace /\ e.id \in Activities
  BY <1>2, NextEvent, EventSorts
<1>4. TreeInv /\ TreeReplayed
  BY DEF SessionInv, RecordedInv
<1>5. TreeInv' /\ TreeReplayed'
  BY <1>2, <1>3, <1>4, ReplayStop
<1> QED BY <1>2, <1>5, ReplayStep

LEMMA SimpleReplayed ==
  ASSUME SessionInv, ~ Recording, phase = "analysis", NEW e, Simple(e)
  PROVE  SessionInv'
<1>1. ~ IsRelogging
  BY DEF IsRelogging, SessionInv, PassInv
<1>2. /\ Dispatch(e) /\ UNCHANGED treeVars
      /\ UNCHANGED <<componentVars, timingVars, contextVars, injected, result>>
  BY <1>1 DEF Simple
<1>3. trace' = trace
  BY <1>2, NextEvent
<1>4. TreeInv /\ TreeReplayed
  BY DEF SessionInv, RecordedInv
<1>5. TreeInv' /\ TreeReplayed'
  BY <1>2, <1>3, <1>4 DEF treeVars, TreeInv, TreeTypeOK, Active, TreeReplayed
<1> QED BY <1>2, <1>5, ReplayStep

-----------------------------------------------------------------------------
(* The relogging pass. *)

\* What the views add in a state in which they get the context of a.
StartViewsRight ==
  \A a \in Active, info \in Toolsets : CB!GetContextData = CB!LinkedContext(a) =>
    StartAdds(ViewStart(a, info), trace, mainComponentCache_, a, info)

SimpleViewsRight ==
  \A a \in Active, value \in Seq(Nat) : \A w, name :
    CB!GetContextData = CB!LinkedContext(a) /\ (w # "EnvironmentVariable" => name = w) =>
      SimpleAdds(ViewSimple(a, w, name, value), trace, mainComponentCache_, a, w, value)

LEMMA StartViews == RelogState => StartViewsRight
<1> SUFFICES ASSUME RelogState, NEW a \in Active, NEW info \in Toolsets,
                    CB!GetContextData = CB!LinkedContext(a)
             PROVE  StartAdds(ViewStart(a, info), trace, mainComponentCache_, a, info)
  BY DEF StartViewsRight
<1>1. RightContext(trace, mainComponentCache_, Context, a)
  BY ContextRight DEF Context
<1>2. ViewStart(a, info) =
        BuildExplorerStart(a, Context, info) \o FunctionsStart(a, Context) \o FilesStart(a, Context)
  BY DEF ViewStart
<1> QED BY <1>1, <1>2, ViewsAtStart

LEMMA SimpleViews == RelogState => SimpleViewsRight
<1> SUFFICES ASSUME RelogState, NEW a \in Active, NEW value \in Seq(Nat), NEW w, NEW name,
                    CB!GetContextData = CB!LinkedContext(a),
                    w # "EnvironmentVariable" => name = w
             PROVE  SimpleAdds(ViewSimple(a, w, name, value), trace, mainComponentCache_, a, w, value)
  BY DEF SimpleViewsRight
<1>1. RightContext(trace, mainComponentCache_, Context, a)
  BY ContextRight DEF Context
<1>2. ViewSimple(a, w, name, value) =
        BuildExplorerSimple(a, w, name, value, Context) \o FunctionsSimple(a, w, Context)
  BY DEF ViewSimple
<1> QED BY <1>1, <1>2, ViewsAtSimple

\* What the views add is right if all of it is.
LEMMA InjectedMore ==
  ASSUME InjectedInv, IsSeq(injected), NEW x, NEW a, Shows(x, trace, mainComponentCache_, a),
         injected' = injected \o x, trace' = trace, UNCHANGED componentVars
  PROVE  InjectedInv'
<1> DEFINE u == injected \o x
<1>1. Joined(injected, x, u) /\ \A j \in DOMAIN x : RightEvent(trace, mainComponentCache_, x[j])
  BY Concatenated DEF Shows
<1>2. trace' = trace /\ mainComponentCache_' = mainComponentCache_ /\ injected' = u
  BY DEF componentVars
<1> HIDE DEF u
<1>3. ASSUME NEW j \in DOMAIN u PROVE RightEvent(trace, mainComponentCache_, u[j])
  <2>1. CASE j \in DOMAIN injected
    BY <1>1, <2>1 DEF Joined, InjectedInv
  <2>2. CASE j \notin DOMAIN injected
    <3>1. /\ j \in Int /\ j - Len(injected) \in DOMAIN x
          /\ u[Len(injected) + (j - Len(injected))] = x[j - Len(injected)]
      BY <1>1, <2>2 DEF Joined
    <3>2. j = Len(injected) + (j - Len(injected))
      BY <1>1, <3>1 DEF Joined
    <3> QED BY <1>1, <3>1, <3>2
  <2> QED BY <2>1, <2>2
<1> QED BY <1>2, <1>3 DEF InjectedInv

\* What one event of the relogging pass has to bring about.
LEMMA RelogStep ==
  ASSUME SessionInv, phase = "relogging", NEW e, Dispatch(e),
         UNCHANGED <<componentVars, pass_, exclusivityLeaves_, past, result>>,
         timingData_' = timingData_ \/ \E x \in Activities : GetTimingData(x),
         TreeInv', TreeReplayed', StacksReplayed', CP!Next,
         Active' \subseteq ReachedIn(trace, pos + 1),
         CachesInv' /\ CP!AttributionInv' =>
           InjectedInv' /\ ShownInv(trace, pos + 1, injected')
  PROVE  SessionInv'
<1>1. ~ Recording
  BY DEF Recording
<1>2. /\ pos \in Nat /\ pos < Len(trace) /\ Len(trace) \in Nat /\ trace' = trace
      /\ pos' = pos + 1 /\ UNCHANGED <<phase, analysisCount_, analysisPass_, isEnabled_>>
  BY <1>1, NextEvent
<1>3. PassInv /\ ResultInv /\ CachesInv /\ CP!AttributionInv
  BY DEF SessionInv, RecordedInv
<1>4. CP!AttributionInv'
  BY <1>3, RelogNext
<1>5. TimingTypeOK
  BY <1>3 DEF CachesInv
<1>6. /\ timingData_' \in [Activities -> TimingData \cup {Null}]
      /\ \A a \in Activities : \/ timingData_'[a] = timingData_[a]
                               \/ timingData_[a] = Null /\ timingData_'[a] = NoTimes
  <2>1. CASE timingData_' = timingData_
    BY <1>5, <2>1 DEF TimingTypeOK
  <2>2. CASE \E x \in Activities : GetTimingData(x)
    BY <1>5, <2>2, TimesQueried
  <2> QED BY <2>1, <2>2
<1>7. CachesInv'
  <2>1. UNCHANGED <<componentVars, exclusivityLeaves_, past>> /\ pass_' \in Nat
    BY <1>5 DEF TimingTypeOK
  <2> QED BY <1>2, <1>3, <1>6, <2>1, CachesKept
<1>8. PassInv' /\ ~ Recording' /\ phase' = "relogging"
  <2>1. pos' \in Nat /\ pos' <= Len(trace') /\ ~ Recording' /\ phase' = "relogging"
    BY <1>2 DEF Recording
  <2> QED BY <1>2, <1>3, <2>1 DEF PassInv
<1>9. ResultInv'
  BY <1>2, <1>3 DEF ResultInv
<1>10. InjectedInv' /\ ShownInv(trace, pos + 1, injected')
  BY <1>4, <1>7
<1>11. ShownInv(trace, pos, injected)' /\ (Active \subseteq ReachedIn(trace, pos))'
  BY <1>2, <1>10
<1> QED BY <1>4, <1>7, <1>8, <1>9, <1>10, <1>11 DEF SessionInv, RecordedInv

LEMMA StateOfRelogging ==
  ASSUME SessionInv, phase = "relogging"
  PROVE  /\ IsRelogging /\ ~ Recording
         /\ WellFormed(trace) /\ TreeInv /\ TreeReplayed /\ StacksReplayed
         /\ CachesInv /\ CP!AttributionInv /\ InjectedInv
         /\ Active \subseteq ReachedIn(trace, pos) /\ ShownInv(trace, pos, injected)
BY DEF SessionInv, RecordedInv, CachesInv, PassInv, IsRelogging, Recording

LEMMA RelogStateIs ==
  CachesInv /\ TreeInv /\ TreeReplayed /\ StacksReplayed /\ CP!AttributionInv => RelogState
BY DEF CachesInv, RelogState

LEMMA StartsAsBuilder ==
  ASSUME NEW a \in Activities, NEW p \in Activities \cup {Null}, NEW k \in Kinds,
         IF p = Null THEN CB!StartRoot(a, k) ELSE CB!StartNested(a, p, k) \/ CB!StartFork(a, p, k)
  PROVE  CP!Next /\ IF p = Null THEN BeginRoot(a, k) ELSE BeginNested(a, p, k)
<1>1. CASE p = Null
  <2>1. CB!StartRoot(a, k)
    BY <1>1
  <2>2. BeginRoot(a, k)
    BY <2>1 DEF CB!StartRoot, CB!BeginRoot, BeginRoot
  <2> QED BY <1>1, <2>1, <2>2, RelogStartRoot
<1>2. CASE p # Null
  <2>1. CB!StartNested(a, p, k) \/ CB!StartFork(a, p, k)
    BY <1>2
  <2>2. BeginNested(a, p, k)
    BY <2>1 DEF CB!StartNested, CB!StartFork, CB!BeginNested, BeginNested
  <2>3. p \in Activities
    BY <1>2
  <2> QED BY <1>2, <2>1, <2>2, <2>3, RelogStartNested, RelogStartFork
<1> QED BY <1>1, <1>2

\* The views get the context of the activity that starts.
LEMMA StartContext ==
  ASSUME CP!ContextStable, NEW a \in Activities, a \notin Active, a \in Active'
  PROVE  (CB!GetContextData = CB!LinkedContext(a))'
BY DEF CP!ContextStable, CP!Active, Active, CP!GetContextData, CB!GetContextData,
       CP!LinkedContext, CB!LinkedContext

LEMMA StartRelogged ==
  ASSUME SessionInv, phase = "relogging", NEW e, Start(e)
  PROVE  SessionInv'
<1> DEFINE a == e.id  p == e.parent  k == e.kind
<1>1. /\ IsRelogging /\ ~ Recording
      /\ WellFormed(trace) /\ TreeInv /\ TreeReplayed /\ StacksReplayed
      /\ CachesInv /\ CP!AttributionInv /\ InjectedInv
      /\ Active \subseteq ReachedIn(trace, pos) /\ ShownInv(trace, pos, injected)
  BY StateOfRelogging
<1>2. /\ e.type = "start" /\ Dispatch(e)
      /\ UNCHANGED <<componentVars, pass_, exclusivityLeaves_, past, result>>
      /\ GetTimingData(a)
      /\ IF p = Null THEN CB!StartRoot(a, k) ELSE CB!StartNested(a, p, k) \/ CB!StartFork(a, p, k)
      /\ injected' = injected \o ViewStart(a, e.info)'
  BY <1>1 DEF Start
<1>3. /\ pos \in Nat /\ pos < Len(trace) /\ e = trace[pos + 1] /\ e \in StartEvent
      /\ trace' = trace /\ pos + 1 \in StartsIn(trace)
  BY <1>1, <1>2, NextEvent, EventSorts
<1>4. a \in Activities /\ p \in Activities \cup {Null} /\ k \in Kinds /\ e.info \in Toolsets
  BY <1>3 DEF StartEvent
<1> HIDE DEF a, p, k
<1>5. CP!Next /\ IF p = Null THEN BeginRoot(a, k) ELSE BeginNested(a, p, k)
  BY <1>2, <1>4, StartsAsBuilder
<1>6. TreeInv' /\ TreeReplayed' /\ Active' = Active \cup {a} /\ a \notin Active
  BY <1>1, <1>3, <1>5, ReplayStart DEF a, p, k
<1>7. StacksReplayed'
  BY <1>1, <1>3, <1>5, StacksStart DEF a, p, k
<1>8. Active' \subseteq ReachedIn(trace, pos + 1)
  <2>1. Advanced(trace, pos)
    BY <1>1, <1>3, OneMore
  <2>2. ReachedIn(trace, pos + 1) = ReachedIn(trace, pos) \cup {a}
    BY <1>2, <1>3, <2>1 DEF Advanced, a
  <2> QED BY <1>1, <1>6, <2>2
<1>9. CP!ContextStable
  BY <1>1, <1>5, RelogNext
<1>10. (CB!GetContextData = CB!LinkedContext(a))'
  <2>1. a \in Active'
    BY <1>6
  <2> QED BY <1>4, <1>6, <1>9, <2>1, StartContext
<1>11. ASSUME CachesInv', CP!AttributionInv'
       PROVE  InjectedInv' /\ ShownInv(trace, pos + 1, injected')
  <2>1. RelogState'
    BY <1>6, <1>7, <1>11, RelogStateIs, PTL
  <2>2. StartViewsRight'
    BY <2>1, StartViews, PTL
  <2>3. StartAdds(ViewStart(a, e.info), trace, mainComponentCache_, a, e.info)'
    <3>1. a \in Active'
      BY <1>6
    <3> QED BY ONLY <1>4, <1>10, <2>2, <3>1 DEF StartViewsRight
  <2> DEFINE x == ViewStart(a, e.info)'
  <2>4. mainComponentCache_' = mainComponentCache_
    BY <1>2 DEF componentVars
  <2>5. StartAdds(x, trace, mainComponentCache_, a, e.info)
    BY <1>3, <2>3, <2>4
  <2>6. injected' = injected \o x
    BY <1>2
  <2> HIDE DEF x
  <2>7. IsSeq(injected)
    BY <1>1 DEF ShownInv
  <2>8. Shows(x, trace, mainComponentCache_, a)
    BY <2>5 DEF StartAdds
  <2>9. InjectedInv'
    BY <1>1, <1>2, <1>3, <2>6, <2>7, <2>8, InjectedMore
  <2>10. ShownInv(trace, pos + 1, injected \o x)
    BY <1>1, <1>2, <1>3, <2>5, ShownStart DEF a
  <2> QED BY <2>6, <2>9, <2>10
<1> QED BY <1>2, <1>4, <1>5, <1>6, <1>7, <1>8, <1>11, RelogStep

LEMMA StopRelogged ==
  ASSUME SessionInv, phase = "relogging", NEW e, Stop(e)
  PROVE  SessionInv'
<1> DEFINE a == e.id
<1>1. /\ IsRelogging /\ ~ Recording
      /\ WellFormed(trace) /\ TreeInv /\ TreeReplayed /\ StacksReplayed
      /\ CachesInv /\ CP!AttributionInv /\ InjectedInv
      /\ Active \subseteq ReachedIn(trace, pos) /\ ShownInv(trace, pos, injected)
  BY StateOfRelogging
<1>2. /\ e.type = "stop" /\ Dispatch(e) /\ UNCHANGED <<componentVars, timingVars>>
      /\ CB!StopRoot(a) \/ CB!StopNested(a)
      /\ UNCHANGED <<injected, result>>
  BY <1>1 DEF Stop
<1>3. /\ pos \in Nat /\ pos < Len(trace) /\ e = trace[pos + 1] /\ e \in Event /\ trace' = trace
  BY <1>1, <1>2, NextEvent
<1>4. a \in Activities
  BY <1>3, EventSorts
<1> HIDE DEF a
<1>5. CP!Next
  BY <1>2, <1>4, RelogStop
<1>6. End(a)
  BY <1>2 DEF CB!StopRoot, CB!StopNested, CB!End, End, CB!Children, Children
<1>7. TreeInv' /\ TreeReplayed' /\ Active' = Active \ {a}
  BY <1>1, <1>3, <1>4, <1>6, ReplayStop
<1>8. StacksReplayed'
  BY <1>1, <1>3, <1>4, <1>6, StacksStop
<1>9. Active' \subseteq ReachedIn(trace, pos + 1)
  <2>1. Advanced(trace, pos)
    BY <1>1, <1>3, OneMore
  <2>2. ReachedIn(trace, pos) \subseteq ReachedIn(trace, pos + 1)
    BY <2>1 DEF Advanced
  <2> QED BY <1>1, <1>7, <2>2
<1>10. InjectedInv' /\ ShownInv(trace, pos + 1, injected')
  <2>1. InjectedInv'
    BY <1>1, <1>2, <1>3 DEF InjectedInv, componentVars
  <2>2. ShownInv(trace, pos + 1, injected)
    BY <1>1, <1>2, <1>3, ShownStop
  <2> QED BY <1>2, <2>1, <2>2
<1>11. /\ UNCHANGED <<componentVars, pass_, exclusivityLeaves_, past, result>>
       /\ timingData_' = timingData_
  BY <1>2 DEF timingVars
<1> QED BY <1>2, <1>5, <1>7, <1>8, <1>9, <1>10, <1>11, RelogStep

LEMMA SimpleRelogged ==
  ASSUME SessionInv, phase = "relogging", NEW e, Simple(e)
  PROVE  SessionInv'
<1> DEFINE a == e.id
<1>1. /\ IsRelogging /\ ~ Recording
      /\ WellFormed(trace) /\ TreeInv /\ TreeReplayed /\ StacksReplayed
      /\ CachesInv /\ CP!AttributionInv /\ InjectedInv
      /\ Active \subseteq ReachedIn(trace, pos) /\ ShownInv(trace, pos, injected)
  BY StateOfRelogging
<1>2. /\ e.type = "simple" /\ Dispatch(e)
      /\ UNCHANGED <<componentVars, pass_, exclusivityLeaves_, past, result>>
      /\ GetTimingData(a) /\ CB!SimpleEvent(a)
      /\ injected' = injected \o ViewSimple(a, e.what, e.name, e.value)'
  BY <1>1 DEF Simple
<1>3. /\ pos \in Nat /\ pos < Len(trace) /\ e = trace[pos + 1] /\ e \in SimpleEvent /\ trace' = trace
  BY <1>1, <1>2, NextEvent, EventSorts
<1>4. /\ a \in Activities /\ e.value \in Seq(Nat)
      /\ e.what # "EnvironmentVariable" => e.name = e.what
  BY <1>3 DEF SimpleEvent
<1> HIDE DEF a
<1>5. CP!Next
  BY <1>2, <1>4, RelogSimple
<1>6. /\ a \in Active /\ UNCHANGED treeVars
      /\ currentContextData_' = Null /\ currentInstanceId_' = a
  <2>1. a # Null
    BY <1>4, ActivityIds
  <2> QED BY <1>2, <2>1 DEF CB!SimpleEvent, CB!treeVars, treeVars, CB!Active, Active
<1>7. TreeInv' /\ TreeReplayed' /\ StacksReplayed' /\ Active' = Active
  BY <1>1, <1>3, <1>6 DEF treeVars, TreeInv, TreeTypeOK, Active, TreeReplayed, StacksReplayed,
     FileGroup, InnermostGroup, Innermost
<1>8. a \in ReachedIn(trace, pos) /\ Active' \subseteq ReachedIn(trace, pos + 1)
  <2>1. Advanced(trace, pos)
    BY <1>1, <1>3, OneMore
  <2>2. ReachedIn(trace, pos) \subseteq ReachedIn(trace, pos + 1)
    BY <2>1 DEF Advanced
  <2> QED BY <1>1, <1>6, <1>7, <2>2
<1>9. (CB!GetContextData = CB!LinkedContext(a))'
  <2>1. a # Null
    BY <1>4, ActivityIds
  <2> QED BY <1>6, <2>1 DEF CB!GetContextData
<1>10. ASSUME CachesInv', CP!AttributionInv'
       PROVE  InjectedInv' /\ ShownInv(trace, pos + 1, injected')
  <2>1. RelogState'
    BY <1>7, <1>10, RelogStateIs, PTL
  <2>2. SimpleViewsRight'
    BY <2>1, SimpleViews, PTL
  <2>3. SimpleAdds(ViewSimple(a, e.what, e.name, e.value), trace, mainComponentCache_, a, e.what,
                   e.value)'
    <3>1. a \in Active'
      BY <1>6, <1>7
    <3> QED BY ONLY <1>4, <1>9, <2>2, <3>1 DEF SimpleViewsRight
  <2> DEFINE x == ViewSimple(a, e.what, e.name, e.value)'
  <2>4. mainComponentCache_' = mainComponentCache_
    BY <1>2 DEF componentVars
  <2>5. SimpleAdds(x, trace, mainComponentCache_, a, e.what, e.value)
    BY <1>3, <2>3, <2>4
  <2>6. injected' = injected \o x
    BY <1>2
  <2> HIDE DEF x
  <2>7. IsSeq(injected)
    BY <1>1 DEF ShownInv
  <2>8. Shows(x, trace, mainComponentCache_, a)
    BY <2>5 DEF SimpleAdds
  <2>9. InjectedInv'
    BY <1>1, <1>2, <1>3, <2>6, <2>7, <2>8, InjectedMore
  <2>10. ShownInv(trace, pos + 1, injected \o x)
    BY <1>1, <1>2, <1>3, <1>8, <2>5, ShownSimple DEF a
  <2> QED BY <2>6, <2>9, <2>10
<1> QED BY <1>2, <1>4, <1>5, <1>7, <1>8, <1>10, RelogStep

-----------------------------------------------------------------------------
(* Between the passes, and at the end. *)

LEMMA TreeRestarted ==
  ASSUME RestartTree
  PROVE  TreeInv' /\ TreeReplayed' /\ StacksReplayed' /\ Active' = {} /\ TreeInit'
<1>1. TreeInit'
  BY DEF RestartTree, TreeInit
<1>2. TreeInv'
  BY <1>1, TreeInitInv, PTL
<1>3. Active' = {}
  BY DEF RestartTree, Active
<1> QED BY <1>1, <1>2, <1>3 DEF TreeReplayed, StacksReplayed

LEMMA PassEnds ==
  ASSUME CachesInv, EndTimingPass, trace' = trace, UNCHANGED componentVars
  PROVE  CachesInv'
<1>1. TimingTypeOK
  BY DEF CachesInv
<1>2. /\ UNCHANGED <<componentVars, exclusivityLeaves_, past>> /\ timingData_' = timingData_
      /\ pass_' \in Nat /\ timingData_' \in [Activities -> TimingData \cup {Null}]
  BY <1>1 DEF EndTimingPass, TimingTypeOK
<1> QED BY <1>2, CachesKept

LEMMA AnotherPass ==
  ASSUME SessionInv, EndPass
  PROVE  SessionInv'
<1>1. /\ BeginAnalysisPass \/ BeginRelogging
      /\ EndTimingPass /\ RestartTree /\ UNCHANGED <<componentVars, contextVars, injected, result>>
  BY DEF EndPass
<1>2. /\ PassInv /\ ResultInv /\ CachesInv /\ phase = "analysis" /\ ContextIdle /\ injected = <<>>
      /\ analysisCount_ = 2 /\ analysisPass_ \in Nat /\ analysisPass_ >= 1 /\ result = Null
  BY <1>1 DEF SessionInv, RecordedInv, BeginAnalysisPass, BeginRelogging, PassInv, ResultInv
<1>3. /\ trace' = trace /\ pos' = 0 /\ analysisPass_' = analysisPass_ + 1
  BY <1>1 DEF BeginAnalysisPass, BeginRelogging
<1>4. Len(trace) \in Nat
  BY <1>2 DEF CachesInv, WellFormed
<1>5. CachesInv'
  BY <1>1, <1>2, <1>3, PassEnds
<1>6. TreeInv' /\ TreeReplayed' /\ StacksReplayed' /\ Active' = {} /\ TreeInit'
  BY <1>1, TreeRestarted
<1>7. ContextIdle'
  BY <1>1, <1>2 DEF ContextIdle, contextVars, CB!TimelineIds
<1>8. injected' = <<>> /\ result' = Null /\ InjectedInv'
  BY <1>1, <1>2 DEF InjectedInv
<1>9. ~ Recording' /\ pos' \in Nat /\ pos' <= Len(trace') /\ analysisPass_' \in Nat /\ analysisPass_' >= 1
  BY <1>2, <1>3, <1>4 DEF Recording
<1>10. CASE BeginAnalysisPass
  <2>1. phase' = "analysis" /\ analysisCount_' = 2
    BY <1>2, <1>10 DEF BeginAnalysisPass
  <2>2. PassInv' /\ ResultInv'
    BY <1>8, <1>9, <2>1 DEF PassInv, ResultInv
  <2> QED BY <1>5, <1>6, <1>7, <1>8, <1>9, <2>1, <2>2 DEF SessionInv, RecordedInv
<1>11. CASE BeginRelogging
  <2>1. phase' = "relogging" /\ analysisCount_' = 1
    BY <1>2, <1>11 DEF BeginRelogging
  <2>2. PassInv' /\ ResultInv'
    BY <1>8, <1>9, <2>1 DEF PassInv, ResultInv
  <2>3. CP!Init'
    BY <1>6, <1>7 DEF CP!Init, CP!TreeInit, TreeInit, ContextIdle, CP!TimelineIds, CB!TimelineIds
  <2>4. CP!AttributionInv'
    BY <2>3, RelogInit, PTL
  <2>5. ShownInv(trace, pos, injected)'
    <3>1. ShownInv(trace', 0, injected')
      BY <1>8, ShownAtFirst
    <3> QED BY <1>3, <3>1
  <2>6. (Active \subseteq ReachedIn(trace, pos))'
    BY <1>6
  <2> QED BY <1>5, <1>6, <1>8, <1>9, <2>1, <2>2, <2>4, <2>5, <2>6 DEF SessionInv, RecordedInv
<1> QED BY <1>1, <1>10, <1>11

LEMMA SessionFinished ==
  ASSUME SessionInv, Finish
  PROVE  SessionInv'
<1>1. /\ phase = "relogging" /\ phase' = "done" /\ analysisPass_' = analysisPass_
      /\ trace' = trace /\ pos' = pos
      /\ EndTimingPass /\ UNCHANGED componentVars /\ result' = S_OK
      /\ UNCHANGED treeVars /\ injected' = injected
  BY DEF Finish, EndRelogging
<1>2. /\ PassInv /\ CachesInv /\ TreeInv /\ TreeReplayed /\ InjectedInv
      /\ ShownInv(trace, pos, injected)
  BY <1>1 DEF SessionInv, RecordedInv
<1>3. CachesInv'
  BY <1>1, <1>2, PassEnds
<1>4. TreeInv' /\ TreeReplayed'
  BY <1>1, <1>2 DEF treeVars, TreeInv, TreeTypeOK, Active, TreeReplayed
<1>5. PassInv' /\ ~ Recording'
  BY <1>1, <1>2 DEF PassInv, Recording
<1>6. ResultInv'
  BY <1>1 DEF ResultInv
<1>7. InjectedInv' /\ ShownInv(trace, pos, injected)'
  <2>1. mainComponentCache_' = mainComponentCache_
    BY <1>1 DEF componentVars
  <2>2. InjectedInv'
    BY <1>1, <1>2, <2>1 DEF InjectedInv
  <2> QED BY <1>1, <1>2, <2>2
<1> QED BY <1>1, <1>3, <1>4, <1>5, <1>6, <1>7 DEF SessionInv, RecordedInv

LEMMA SessionFailed ==
  ASSUME SessionInv, NEW rc \in ResultCodes, Fail(rc)
  PROVE  SessionInv'
<1>1. /\ phase' = "failed" /\ analysisPass_' = analysisPass_
      /\ trace' = trace /\ pos' = pos /\ result' = ResultCodeToHResult(rc)
      /\ UNCHANGED <<treeVars, componentVars, timingVars>> /\ injected' = injected
  BY DEF Fail
<1>2. PassInv /\ CachesInv /\ TreeInv /\ TreeReplayed /\ InjectedInv
  BY DEF SessionInv, RecordedInv
<1>3. CachesInv'
  <2>1. UNCHANGED <<componentVars, exclusivityLeaves_, past>> /\ timingData_' = timingData_
    BY <1>1 DEF timingVars
  <2>2. pass_' \in Nat /\ timingData_' \in [Activities -> TimingData \cup {Null}]
    BY <1>1, <1>2 DEF timingVars, CachesInv, TimingTypeOK
  <2> QED BY <1>1, <1>2, <2>1, <2>2, CachesKept
<1>4. TreeInv' /\ TreeReplayed'
  BY <1>1, <1>2 DEF treeVars, TreeInv, TreeTypeOK, Active, TreeReplayed
<1>5. PassInv' /\ ~ Recording'
  BY <1>1, <1>2 DEF PassInv, Recording
<1>6. ResultInv'
  <2>1. rc \in Nat
    BY SessionAssumption
  <2>2. result' \in Int /\ result' < 0
    BY <1>1, <2>1 DEF ResultCodeToHResult, MAKE_HRESULT, E_FAIL
  <2> QED BY <1>1, <2>2 DEF ResultInv
<1>7. InjectedInv'
  BY <1>1, <1>2 DEF InjectedInv, componentVars
<1> QED BY <1>1, <1>3, <1>4, <1>5, <1>6, <1>7 DEF SessionInv, RecordedInv

LEMMA NothingHappens ==
  ASSUME SessionInv, UNCHANGED vars
  PROVE  SessionInv'
<1>1. UNCHANGED <<passVars, treeVars, componentVars, timingVars, contextVars, injected, result>>
  BY DEF vars
<1>2. PassInv' /\ ResultInv' /\ (Recording' <=> Recording) /\ phase' = phase
  BY <1>1 DEF passVars, SessionInv, PassInv, ResultInv, Recording
<1>3. trace' = trace /\ pos' = pos /\ injected' = injected /\ mainComponentCache_' = mainComponentCache_
  BY <1>1 DEF passVars, componentVars
<1>4. CachesInv'
  <2>1. CachesInv /\ TimingTypeOK
    BY DEF SessionInv, RecordedInv, CachesInv
  <2>2. /\ UNCHANGED <<componentVars, exclusivityLeaves_, past>> /\ timingData_' = timingData_
        /\ pass_' = pass_
    BY <1>1 DEF timingVars
  <2>3. pass_' \in Nat /\ timingData_' \in [Activities -> TimingData \cup {Null}]
    BY <2>1, <2>2 DEF TimingTypeOK
  <2> QED BY <1>3, <2>1, <2>2, <2>3, CachesKept
<1>5. TreeInv' /\ TreeReplayed' /\ (StacksReplayed => StacksReplayed') /\ Active' = Active
  BY <1>1, <1>3 DEF SessionInv, RecordedInv, treeVars, TreeInv, TreeTypeOK, Active, TreeReplayed,
     StacksReplayed, FileGroup, InnermostGroup, Innermost
<1>6. InjectedInv'
  BY <1>3 DEF SessionInv, InjectedInv
<1>7. Recording => FirstPassInv'
  <2>1. ASSUME FirstPassInv PROVE FirstPassInv'
    BY <1>1, <2>1, FirstPassNextInv DEF firstPassVars
  <2> QED BY <2>1 DEF SessionInv
<1>8. ContextIdle => ContextIdle'
  BY <1>1 DEF ContextIdle, contextVars, CB!TimelineIds
<1>9. CP!AttributionInv => CP!AttributionInv'
  <2>1. UNCHANGED CP!vars
    BY <1>1 DEF CP!vars, CP!treeVars, CP!timelineVars, CP!stringVars, treeVars, contextVars,
       componentVars, MainPath, IsCached
  <2> QED BY <2>1, CP!AttributionNext, ContextAssumptions
<1> QED BY <1>2, <1>3, <1>4, <1>5, <1>6, <1>7, <1>8, <1>9 DEF SessionInv, RecordedInv

-----------------------------------------------------------------------------
(* The session. *)

LEMMA SessionNext == SessionInv /\ [Next]_vars => SessionInv'
<1> SUFFICES ASSUME SessionInv, [Next]_vars PROVE SessionInv'
  OBVIOUS
<1>1. Recording \/ (~ Recording /\ phase = "analysis") \/ phase = "relogging"
        \/ phase \notin {"analysis", "relogging"}
  BY DEF SessionInv, PassInv
<1>2. ASSUME NEW e, Dispatch(e) PROVE phase \in {"analysis", "relogging"}
  BY <1>2 DEF Dispatch, Recording
<1>3. CASE \E e \in Coming(NewStarts) : Start(e)
  <2>1. PICK e \in Coming(NewStarts) : Start(e)
    BY <1>3
  <2>2. Dispatch(e) /\ (Recording => e \in NewStarts)
    BY <2>1 DEF Start, Coming
  <2> QED BY <1>1, <1>2, <2>1, <2>2, StartRecorded, StartReplayed, StartRelogged
<1>4. CASE \E e \in Coming(NewStops) : Stop(e)
  <2>1. PICK e \in Coming(NewStops) : Stop(e)
    BY <1>4
  <2>2. Dispatch(e) /\ (Recording => e \in NewStops)
    BY <2>1 DEF Stop, Coming
  <2> QED BY <1>1, <1>2, <2>1, <2>2, StopRecorded, StopReplayed, StopRelogged
<1>5. CASE \E e \in Coming(NewSimples) : Simple(e)
  <2>1. PICK e \in Coming(NewSimples) : Simple(e)
    BY <1>5
  <2>2. Dispatch(e) /\ (Recording => e \in NewSimples)
    BY <2>1 DEF Simple, Coming
  <2> QED BY <1>1, <1>2, <2>1, <2>2, SimpleRecorded, SimpleReplayed, SimpleRelogged
<1>6. CASE EndPass
  BY <1>6, AnotherPass
<1>7. CASE Finish
  BY <1>7, SessionFinished
<1>8. CASE \E rc \in ResultCodes : Fail(rc)
  BY <1>8, SessionFailed
<1>9. CASE UNCHANGED vars
  BY <1>9, NothingHappens
<1> QED BY <1>3, <1>4, <1>5, <1>6, <1>7, <1>8, <1>9 DEF Next, Progress

\* The inductive invariant of the session holds in a trace of any length.
THEOREM SessionInvariance == Spec => []SessionInv
BY SessionInit, SessionNext, PTL DEF Spec

-----------------------------------------------------------------------------
(* The properties, from the invariant. *)

\* What the properties call what the invariant knows.
LEMMA SameNames ==
  /\ \A event, a : InjectedFor(event, a) = ShownAt(injected, event, a)
  /\ \A a, name : PiecesOf(a, name) = PiecesAt(injected, a, name)
  /\ \A a : CommandLinesOf(a) = CommandLinesIn(trace, pos, a)
  /\ \A P, value : MakeUp(P, value) <=> MakeUpIn(injected, P, value)
  /\ \A a \in Reached : phase \in {"relogging", "done"} /\ a \in ReachedIn(trace, pos)
BY DEF InjectedFor, ShownAt, PiecesOf, PiecesAt, CommandLinesOf, CommandLinesIn, MakeUp,
       MakeUpIn, PlacedAt, Reached, ReachedIn

LEMMA InvAttributes == SessionInv => EventsAttributed
<1> SUFFICES ASSUME SessionInv, NEW j \in DOMAIN injected
             PROVE  /\ injected[j].context # Null
                    /\ injected[j].context.invocation = InvocationOf(injected[j].id)
                    /\ injected[j].context.component = ComponentOf(injected[j].id)
  BY DEF EventsAttributed
<1>1. RightContext(trace, mainComponentCache_, injected[j].context, injected[j].id)
  BY DEF SessionInv, InjectedInv, RightEvent
<1> QED BY <1>1, TraceNames DEF RightContext

\* Views inject events in the context of the innermost invocation of the build,
\* and of the component that the first pass found for it, in every session.
THEOREM AttributedEvents == Spec => []EventsAttributed
BY SessionInvariance, InvAttributes, PTL

LEMMA OnceCounted ==
  ASSUME NEW P, NEW b, Once(P, b)
  PROVE  Cardinality(P) = IF b THEN 1 ELSE 0
BY FS_EmptySet, FS_Singleton DEF Once

LEMMA InvShows == SessionInv => EverythingShown
<1> SUFFICES ASSUME SessionInv, NEW a \in Reached
             PROVE  /\ Cardinality(InjectedFor("BuildExplorerActivity", a)) =
                         IF \/ KindOf(a) \in InvocationKinds \cup {"CompilerPass", "C2DLL", "Phase"}
                            \/ KindOf(a) = "Thread" /\ ParentOf(a) # Null
                           THEN 1 ELSE 0
                    /\ Cardinality(InjectedFor("FunctionActivity", a)) =
                         IF KindOf(a) = "Function" /\ DurationOf(a) >= LongFunction THEN 1 ELSE 0
                    /\ Cardinality(InjectedFor("FileActivity", a)) =
                         IF KindOf(a) = "FrontEndFile" THEN 1 ELSE 0
  BY DEF EverythingShown
<1>1. ActivityShown(trace, injected, a)
  BY SameNames DEF SessionInv, ShownInv
<1>2. /\ \A event : InjectedFor(event, a) = ShownAt(injected, event, a)
      /\ KindOf(a) = KindIn(trace, a) /\ ParentOf(a) = ParentIn(trace, a)
      /\ DurationOf(a) = DurationIn(trace, a)
  BY SameNames, TraceTells
<1>3. Cardinality(ShownAt(injected, "BuildExplorerActivity", a)) = IF ListedIn(trace, a) THEN 1 ELSE 0
  BY <1>1, OnceCounted DEF ActivityShown
<1>4. Cardinality(ShownAt(injected, "FunctionActivity", a)) =
        IF KindIn(trace, a) = "Function" /\ DurationIn(trace, a) >= LongFunction THEN 1 ELSE 0
  BY <1>1, OnceCounted DEF ActivityShown
<1>5. Cardinality(ShownAt(injected, "FileActivity", a)) =
        IF KindIn(trace, a) = "FrontEndFile" THEN 1 ELSE 0
  BY <1>1, OnceCounted DEF ActivityShown
<1> QED BY <1>2, <1>3, <1>4, <1>5 DEF ListedIn

\* Every step of the build that the relogging pass reaches is in its table once,
\* in every session.
THEOREM EverythingIsShown == Spec => []EverythingShown
BY SessionInvariance, InvShows, PTL

LEMMA InvTimes == SessionInv => TimesShown
<1> SUFFICES ASSUME SessionInv, NEW j \in DOMAIN injected, injected[j].event \in ShownEvents,
                    NEW a, a = injected[j].id
             PROVE  /\ injected[j].data.times.Duration = DurationOf(a)
                    /\ injected[j].data.times.Exclusive = "whole" <=>
                         /\ StopsOf(a) # {}
                         /\ \E c \in Activities :
                              /\ StopsOf(c) # {} /\ ParentOf(c) = a
                              /\ KindOf(c) \in PartKinds /\ KindOf(c) # KindOf(a)
  BY DEF TimesShown, ShownEvents
<1>1. RightTimes(trace, injected[j].data.times, a)
  BY DEF SessionInv, InjectedInv, RightEvent
<1> QED BY <1>1, TraceTells DEF RightTimes

\* A start event is shown with the times of a stop event that comes later, in
\* every session: MiscellaneousCache is complete when the views ask it.
THEOREM ShownTimesRight == Spec => []TimesShown
BY SessionInvariance, InvTimes, PTL

LEMMA InvPlaces == SessionInv => FilesPlaced
<1> SUFFICES ASSUME SessionInv, NEW j \in DOMAIN injected, injected[j].event = "FileActivity",
                    NEW a, a = injected[j].id, NEW around, around = InclusionsOf(a) \ {a}
             PROVE  /\ injected[j].data.depth = Cardinality(around)
                    /\ injected[j].data.parentFile = IF around = {} THEN Null ELSE ParentOf(a)
  BY DEF FilesPlaced
<1>1. RightPlace(trace, injected[j].data, a)
  BY DEF SessionInv, InjectedInv, RightEvent
<1>2. around = UpFrom(trace, a, Included(trace)) \ {a} /\ ParentOf(a) = ParentIn(trace, a)
  BY TraceChains, TraceTells
<1> QED BY <1>1, <1>2 DEF RightPlace

\* FilesView shows a file at its depth below the file that includes it, for
\* inclusions of any depth.
THEOREM FilesArePlaced == Spec => []FilesPlaced
BY SessionInvariance, InvPlaces, PTL

LEMMA InvWhole == SessionInv => PropertiesWhole
<1> SUFFICES ASSUME SessionInv PROVE PropertiesWhole
  OBVIOUS
<1>1. ASSUME NEW j \in DOMAIN injected, injected[j].event = "StringProperty"
      PROVE  Len(injected[j].data.value) <= SegmentLen
  BY <1>1 DEF SessionInv, InjectedInv, RightEvent
<1>2. ASSUME NEW a \in Reached
      PROVE  /\ ActivityShown(trace, injected, a)
             /\ CommandLinesShown(trace, pos, injected, a)
  <2>1. /\ ShownInv(trace, pos, injected) /\ a \in ReachedIn(trace, pos)
        /\ WellFormed(trace) /\ pos <= Len(trace) /\ pos \in Nat
    BY SameNames DEF SessionInv, RecordedInv, CachesInv, PassInv
  <2>2. PICK i \in 1 .. pos : trace[i].type = "start" /\ trace[i].id = a
    BY <2>1 DEF ReachedIn
  <2>3. i \in DOMAIN trace /\ trace[i] \in Event
    BY <2>1, <2>2 DEF WellFormed
  <2>4. a \in Activities
    BY <2>2, <2>3, EventSorts
  <2> QED BY <2>1, <2>4 DEF ShownInv
<1>3. ASSUME NEW a \in Reached, KindOf(a) \in InvocationKinds
      PROVE  /\ PiecesOf(a, "Version") # {}
             /\ MakeUp(PiecesOf(a, "Version"), trace[StartAt(a)].info.version)
             /\ PiecesOf(a, "WorkingDirectory") # {}
             /\ MakeUp(PiecesOf(a, "WorkingDirectory"), trace[StartAt(a)].info.directory)
  <2>1. KindIn(trace, a) \in InvocationKinds /\ StartAt(a) = StartIn(trace, a)
    BY <1>3, TraceTells
  <2>2. /\ WholeIn(injected, a, "Version", trace[StartAt(a)].info.version)
        /\ WholeIn(injected, a, "WorkingDirectory", trace[StartAt(a)].info.directory)
    BY <1>2, <1>3, <2>1 DEF ActivityShown
  <2> QED BY <2>2, SameNames DEF WholeIn
<1>4. ASSUME NEW a \in Reached, NEW i \in CommandLinesOf(a), CommandLinesOf(a) = {i},
             InvocationOf(a) # Null
      PROVE  PiecesOf(a, "CommandLine") # {} /\ MakeUp(PiecesOf(a, "CommandLine"), trace[i].value)
  <2>1. CommandLinesIn(trace, pos, a) = {i} /\ InvocationIn(trace, a) # Null
    BY <1>4, SameNames, TraceNames
  <2>2. WholeIn(injected, a, "CommandLine", trace[i].value)
    BY <1>2, <2>1 DEF CommandLinesShown
  <2> QED BY <2>2, SameNames DEF WholeIn
<1> QED BY <1>1, <1>3, <1>4 DEF PropertiesWhole

\* ProcessStringProperty loses no character of a property of any length, and
\* puts no more than a field can hold into any piece.
THEOREM PropertiesAreWhole == Spec => []PropertiesWhole
BY SessionInvariance, InvWhole, PTL

LEMMA InvReports == SessionInv => FailureReported
<1> SUFFICES ASSUME SessionInv PROVE FailureReported
  OBVIOUS
<1>1. Null \notin Int /\ S_OK \in Int
  BY ActivityIds DEF S_OK
<1>2. PassInv /\ ResultInv
  BY DEF SessionInv
<1> QED BY <1>1, <1>2 DEF PassInv, ResultInv, FailureReported, S_OK

\* A command fails exactly when its session does, whatever the SDK reports.
THEOREM FailuresAreReported == Spec => []FailureReported
BY SessionInvariance, InvReports, PTL

\* What the first pass alone guarantees holds to the end of the session: the
\* later passes spoil neither the main components nor the times.
THEOREM CachesStayRight == Spec => [](CompilerComponents /\ LinkerComponents /\ ExclusiveTimes)
<1>1. SessionInv => CompilerComponents /\ LinkerComponents /\ ExclusiveTimes
  BY DEF SessionInv, RecordedInv, CachesInv, ComponentsInv
<1> QED BY <1>1, SessionInvariance, PTL

\* The contexts of the relogging pass are those of ContextBuilder on its own:
\* every activity is attributed to the innermost invocation of its event stack.
THEOREM RelogAttribution == Spec => [](phase = "relogging" => CP!Attribution)
<1>1. SessionInv => (phase = "relogging" => CP!Attribution)
  BY DEF SessionInv, CP!AttributionInv
<1> QED BY <1>1, SessionInvariance, PTL

=============================================================================

----------------------------- MODULE TimeTrace ------------------------------
(***************************************************************************)
(* The time trace: ExecutionHierarchy followed, at every event, by         *)
(* TimeTraceGenerator, which packs the entries into as few rows (processes *)
(* and threads) as it can with PackedProcessThreadRemapping and writes     *)
(* them out when the trace ends.                                           *)
(*                                                                         *)
(* A thread id is relative to the parent's until the end of the trace: an  *)
(* entry knows how many rows below its own its children need as soon as it *)
(* stops, and its parent then stacks it with its siblings.                 *)
(***************************************************************************)
EXTENDS ExecutionHierarchy, FiniteSetsExt

CONSTANT NsPerUs   \* length of a microsecond

ASSUME MicrosecondAssumption == NsPerUs \in Nat \ {0}

VARIABLES
  localOffsetsData_,   \* localOffsetsData_[a]: rows of an entry that stopped, or Null
  remappings_,         \* remappings_[a]: the row of a in the output, or Null
  traceEvents,         \* traceEvents[a]: the slice written for a, or Null
  analysis             \* "running", "exported" or "failed"

vars == <<hierarchyVars, localOffsetsData_, remappings_, traceEvents, analysis>>

LocalOffsetData == [RawLocalThreadId : Nat,
                    RequiredThreadIdToFitHierarchy : Nat,
                    CalculatedLocalThreadId : Nat]
Remap == [ProcessId : Nat, ThreadId : Nat]
Slice == [pid : Nat, tid : Nat, name : Kinds \cup SymbolKeys, ts : Nat, end : Nat]

ASSUME NoRowAssumption == Null \notin LocalOffsetData /\ Null \notin Remap /\ Null \notin Slice

TypeOK ==
  /\ HierarchyTypeOK
  /\ localOffsetsData_ \in [Activities -> LocalOffsetData \cup {Null}]
  /\ remappings_ \in [Activities -> Remap \cup {Null}]
  /\ traceEvents \in [Activities -> Slice \cup {Null}]
  /\ analysis \in {"running", "exported", "failed"}

Init ==
  /\ HierarchyInit
  /\ localOffsetsData_ = [a \in Activities |-> Null]
  /\ remappings_ = [a \in Activities |-> Null]
  /\ traceEvents = [a \in Activities |-> Null]
  /\ analysis = "running"

-----------------------------------------------------------------------------
(* PackedProcessThreadRemapping: the rows of an entry's children. *)

OverlapsWith(es, a, b) ==
  /\ es[a].StartTimestamp < es[b].StopTimestamp
  /\ es[b].StartTimestamp < es[a].StopTimestamp

\* The smallest number that is not in S.
FirstFree(S) == Min((0 .. Cardinality(S)) \ S)

\* Fault: a row is not used again once its entry has stopped.
FirstFitNoReuse(es, s, M) ==
  LET row[i \in 1 .. Len(s)] ==
        Max({0} \cup {row[j] + 1 : j \in {j \in 1 .. i - 1 : /\ s[j] \in M
                                                             /\ OverlapsWith(es, s[i], s[j])}})
  IN  row

\* Each entry of s, in turn, gets the first row where it overlaps none of the
\* preceding ones that are in M.
FirstFit(es, s, M) ==
  LET row[i \in 1 .. Len(s)] ==
        FirstFree({row[j] : j \in {j \in 1 .. i - 1 : /\ s[j] \in M
                                                      /\ OverlapsWith(es, s[i], s[j])}})
  IN  row

\* The entries with data: those that were not ignored.
Measured == {c \in Activities : localOffsetsData_[c] # Null}

MeasuredChildren(es, a) == {i \in DOMAIN es[a].Children : es[a].Children[i] \in Measured}

RawLocalThreadIds(es, a) == FirstFit(es, es[a].Children, Measured)

\* What the entries among the children ks require below the row they are on.
Requirements(es, a, ks) ==
  {localOffsetsData_[es[a].Children[i]].RequiredThreadIdToFitHierarchy : i \in ks}

\* Fault: the rows below r need what the most demanding of their entries does.
ExtraThreadIdsMax(es, a, r) ==
  LET raw == RawLocalThreadIds(es, a) IN
  Max({0} \cup Requirements(es, a, {i \in MeasuredChildren(es, a) : raw[i] < r}))

\* Entries of one row follow each other in time: the row needs as much room as
\* the most demanding of them.
RowNeeds(es, a, q) ==
  LET raw == RawLocalThreadIds(es, a) IN
  Max({0} \cup Requirements(es, a, {i \in MeasuredChildren(es, a) : raw[i] = q}))

\* What the rows below r need in addition to themselves.
ExtraThreadIds(es, a, r) ==
  LET extra[q \in 0 .. r] == IF q = 0 THEN 0 ELSE extra[q - 1] + RowNeeds(es, a, q - 1)
  IN  extra[r]

UsedRows(es, a) ==
  LET raw == RawLocalThreadIds(es, a) IN {raw[i] : i \in MeasuredChildren(es, a)}

\* Fault: the last row's entries are not accounted for.
RequiredThreadIdsOfLastRowOnly(es, a) ==
  LET used == UsedRows(es, a) IN
  IF used = {} THEN 0 ELSE Max(used) + ExtraThreadIds(es, a, Max(used))

RequiredThreadIds(es, a) ==
  LET used == UsedRows(es, a) IN
  IF used = {} THEN 0 ELSE Max(used) + ExtraThreadIds(es, a, Max(used) + 1)

CalculateChildrenLocalThreadData(es, a) ==
  LET kids == es[a].Children
      raw == RawLocalThreadIds(es, a)
  IN  [c \in Activities |->
         IF c = a
           THEN [RawLocalThreadId |-> 0,
                 RequiredThreadIdToFitHierarchy |-> RequiredThreadIds(es, a),
                 CalculatedLocalThreadId |-> 0]
         ELSE IF c \in Elements(kids) \cap Measured
           THEN LET r == raw[CHOOSE i \in DOMAIN kids : kids[i] = c] IN
                [localOffsetsData_[c] EXCEPT
                   !.RawLocalThreadId = r,
                   !.CalculatedLocalThreadId = r + ExtraThreadIds(es, a, r)]
           ELSE localOffsetsData_[c]]

-----------------------------------------------------------------------------
(* The end of the trace. *)

\* The entries that RemapThreadIdFor and AddEntry reach from the roots.
Reached == UNION {Subtree(entries_, r) : r \in Elements(roots_)}

ParentEntry(a) == CHOOSE p \in Entries : a \in ChildrenOf(entries_, p)

\* Every root is a process; what it contains is on threads of that process,
\* each at its distance from its parent.
Calculate ==
  LET process == FirstFit(entries_, roots_, Activities)
      reached == Reached
      remap[a \in Activities] ==
        IF a \in Elements(roots_)
          THEN [ProcessId |-> process[CHOOSE i \in DOMAIN roots_ : roots_[i] = a],
                ThreadId |-> 0]
        ELSE IF a \notin reached \/ localOffsetsData_[a] = Null THEN Null
        ELSE LET p == remap[ParentEntry(a)] IN
             IF p = Null THEN Null
             ELSE [p EXCEPT !.ThreadId = @ + localOffsetsData_[a].CalculatedLocalThreadId]
  IN  remap

\* Fault: the duration is rounded up to a whole microsecond.
StopUsRoundedUp(e) ==
  (e.StartTimestamp \div NsPerUs)
    + ((e.StopTimestamp - e.StartTimestamp + NsPerUs - 1) \div NsPerUs)

\* The end of a complete event: its timestamp and its duration are both
\* truncated to microseconds.
StopUs(e) ==
  (e.StartTimestamp \div NsPerUs) + ((e.StopTimestamp - e.StartTimestamp) \div NsPerUs)

\* What AddEntry writes for an entry: a complete event, or a begin event and
\* an end event around what it writes for the children.
AddEntry(a) ==
  LET e == entries_[a] IN
  [pid |-> remappings_'[a].ProcessId,
   tid |-> remappings_'[a].ThreadId,
   name |-> e.Name,
   ts |-> e.StartTimestamp \div NsPerUs,
   end |-> IF e.Children = <<>> THEN StopUs(e) ELSE e.StopTimestamp \div NsPerUs]

-----------------------------------------------------------------------------
Running == analysis = "running" /\ UNCHANGED <<remappings_, traceEvents, analysis>>

StartRoot(a, k, key) ==
  /\ Running
  /\ StartRootEntry(a, k, key)
  /\ UNCHANGED localOffsetsData_

StartNested(a, p, k, key) ==
  /\ Running
  /\ StartNestedEntry(a, p, k, key)
  /\ UNCHANGED localOffsetsData_

StopActivity(a) ==
  /\ Running
  /\ StopEntry(a)
  /\ localOffsetsData_' = IF entries_'[a] = Null THEN localOffsetsData_
                          ELSE CalculateChildrenLocalThreadData(entries_', a)

SymbolName(key) ==
  /\ Running
  /\ OnSymbolName(key)
  /\ UNCHANGED localOffsetsData_

TimePasses ==
  /\ Running
  /\ Tick
  /\ UNCHANGED localOffsetsData_

\* The trace ends; the output file may turn out not to be writable.
OnEndAnalysis ==
  /\ analysis = "running"
  /\ Active = {}
  /\ remappings_' = Calculate
  /\ \/ /\ analysis' = "exported"
        /\ traceEvents' = [a \in Activities |-> IF a \in Reached THEN AddEntry(a) ELSE Null]
     \/ /\ analysis' = "failed"
        /\ UNCHANGED traceEvents
  /\ UNCHANGED <<hierarchyVars, localOffsetsData_>>

Keys == SymbolKeys \cup {Null}

Next ==
  \/ \E a \in Activities, k \in Kinds, key \in Keys : StartRoot(a, k, key)
  \/ \E a, p \in Activities, k \in Kinds, key \in Keys : StartNested(a, p, k, key)
  \/ \E a \in Activities : StopActivity(a)
  \/ \E key \in SymbolKeys : SymbolName(key)
  \/ TimePasses
  \/ OnEndAnalysis

Spec == Init /\ [][Next]_vars

-----------------------------------------------------------------------------
(* Properties. *)

Contains(a, b) == b \in Subtree(entries_, a)

\* The written slices of one thread are nested or follow each other, in the
\* microseconds they are written with: a slice of the time trace never covers
\* half of another one.
SlicesNest ==
  analysis = "exported" =>
    \A a, b \in Entries :
      LET s == traceEvents[a]
          t == traceEvents[b]
      IN  s.pid = t.pid /\ s.tid = t.tid =>
            \/ Contains(a, b) /\ s.ts <= t.ts /\ t.end <= s.end
            \/ Contains(b, a) /\ t.ts <= s.ts /\ s.end <= t.end
            \/ s.end <= t.ts
            \/ t.end <= s.ts

\* Everything that was not filtered out is written, once, and on a row that
\* was calculated for it, not on the ids it had when it was traced.
EverythingExported ==
  analysis = "exported" =>
    \A a \in Activities :
      /\ traceEvents[a] # Null <=> a \in Entries
      /\ a \in Entries => remappings_[a] # Null /\ localOffsetsData_[a] # Null

\* The processes of the output are as few as can be: a root is the n-th
\* process only if n - 1 others are running when it starts.
ProcessesPacked ==
  analysis # "running" =>
    \A r \in Elements(roots_) :
      \E R \in SUBSET Elements(roots_) :
        /\ r \in R
        /\ Cardinality(R) = remappings_[r].ProcessId + 1
        /\ \A a, b \in R : a # b => OverlapsWith(entries_, a, b)

\* The rows an entry says it needs below its own are exactly the ones its
\* entries end up on: none is missing and the last one is used.
RequiredRowsExact ==
  analysis # "running" =>
    \A a \in Entries :
      remappings_[a].ThreadId + localOffsetsData_[a].RequiredThreadIdToFitHierarchy
        = Max({remappings_[b].ThreadId : b \in Subtree(entries_, a)})

=============================================================================

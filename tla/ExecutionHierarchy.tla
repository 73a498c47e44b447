------------------------- MODULE ExecutionHierarchy -------------------------
(***************************************************************************)
(* ExecutionHierarchy, the analyzer that keeps the activities of a trace   *)
(* as a tree of entries for the time trace.  An entry outlives its         *)
(* activity; the entries of short functions and of short or unwanted       *)
(* template instantiations are erased when these stop, with what they      *)
(* contain.  A pointer to an entry (in roots_ and in Children) is the id   *)
(* of the activity.  Of an entry's name only what decides it is kept: the  *)
(* kind of the activity, or the symbol a template instantiation is named   *)
(* after; its other properties (paths, versions, command lines) are not.   *)
(*                                                                         *)
(* Here an id is never used a second time in a trace (started).  The SDK   *)
(* delivers events in the order of their timestamps.                       *)
(***************************************************************************)
EXTENDS ActivityTree, Integers, Sequences

CONSTANTS
  SymbolKeys,                           \* keys of template specializations
  AnalyzeTemplates,                     \* filter_
  IgnoreTemplateInstantiationUnderMs,   \*   "
  IgnoreFunctionUnderMs,                \*   "
  NsPerMs,                              \* length of a millisecond
  MaxClock                              \* bound: the last timestamp of a trace

ASSUME FilterAssumption ==
  /\ AnalyzeTemplates \in BOOLEAN
  /\ IgnoreTemplateInstantiationUnderMs \in Nat
  /\ IgnoreFunctionUnderMs \in Nat
  /\ NsPerMs \in Nat \ {0}
  /\ MaxClock \in Nat

ASSUME KeyAssumption == Null \notin SymbolKeys /\ SymbolKeys \cap Kinds = {}

\* The front end pass an instantiation belongs to is in its event stack; what
\* the SDK would match in a stack of instantiations only is not modelled.
ASSUME GroupAssumption == "TemplateInstantiation" \notin RootKinds

VARIABLES
  clock,          \* timestamp of the events being delivered, in nanoseconds
  started,        \* ids the trace has used
  symbolKey,      \* symbolKey[a]: SpecializationSymbolKey of a, or Null
  entries_,       \* entries_[a]: the entry of a, or Null
  roots_,         \* the entries without a parent, in the order they started
  symbolNames_,   \* keys whose SymbolName event was seen
  unresolvedTemplateInstantiationsPerSymbol_  \* key -> ids waiting for its name

traceVars == <<treeVars, clock, started, symbolKey>>
symbolVars == <<symbolNames_, unresolvedTemplateInstantiationsPerSymbol_>>
hierarchyVars == <<traceVars, symbolVars, entries_, roots_>>

Entry == [StartTimestamp : 0 .. MaxClock,
          StopTimestamp : 0 .. MaxClock,
          Name : Kinds \cup SymbolKeys,
          Children : Seq(Activities)]

ASSUME NoEntryAssumption == Null \notin Entry

HierarchyTypeOK ==
  /\ TreeTypeOK
  /\ clock \in 0 .. MaxClock
  /\ started \subseteq Activities
  /\ symbolKey \in [Activities -> SymbolKeys \cup {Null}]
  /\ entries_ \in [Activities -> Entry \cup {Null}]
  /\ roots_ \in Seq(Activities)
  /\ symbolNames_ \subseteq SymbolKeys
  /\ unresolvedTemplateInstantiationsPerSymbol_ \in [SymbolKeys -> SUBSET Activities]

HierarchyInit ==
  /\ TreeInit
  /\ clock = 0
  /\ started = {}
  /\ symbolKey = [a \in Activities |-> Null]
  /\ entries_ = [a \in Activities |-> Null]
  /\ roots_ = <<>>
  /\ symbolNames_ = {}
  /\ unresolvedTemplateInstantiationsPerSymbol_ = [k \in SymbolKeys |-> {}]

Elements(s) == {s[i] : i \in DOMAIN s}

\* children.erase(std::find_if(...)): s without the first a in it.
Without(s, a) ==
  LET first == CHOOSE i \in DOMAIN s : s[i] = a /\ \A j \in 1 .. i - 1 : s[j] # a
  IN  [i \in 1 .. Len(s) - 1 |-> IF i < first THEN s[i] ELSE s[i + 1]]

Entries == {a \in Activities : entries_[a] # Null}
ChildrenOf(es, a) == Elements(es[a].Children)

\* a and the entries below it: what any set that contains a, and the children
\* of each of its entries, contains.
Subtree(es, a) ==
  {x \in Activities :
     \A S \in SUBSET Activities :
       a \in S /\ (\A y \in S : es[y] # Null => ChildrenOf(es, y) \subseteq S) => x \in S}

-----------------------------------------------------------------------------
\* Fault: an entry that has not stopped has no duration.
CreateEntryWithoutStop(k) ==
  [StartTimestamp |-> clock, StopTimestamp |-> -1, Name |-> k, Children |-> <<>>]

\* The activity's StopTimestamp is its StartTimestamp until it stops.
CreateEntry(k) ==
  [StartTimestamp |-> clock, StopTimestamp |-> clock, Name |-> k, Children |-> <<>>]

\* What the SDK says of an activity that starts; a template instantiation has
\* a key whose name is still to come.
Announce(a, k, key) ==
  /\ a \notin started
  /\ started' = started \cup {a}
  /\ IF k = "TemplateInstantiation" THEN key \in SymbolKeys \ symbolNames_ ELSE key = Null
  /\ symbolKey' = [symbolKey EXCEPT ![a] = key]
  /\ UNCHANGED clock

StartRootEntry(a, k, key) ==
  /\ BeginRoot(a, k)
  /\ Announce(a, k, key)
  /\ entries_' = [entries_ EXCEPT ![a] = CreateEntry(k)]
  /\ roots_' = Append(roots_, a)
  /\ UNCHANGED symbolVars

StartNestedEntry(a, p, k, key) ==
  /\ BeginNested(a, p, k)
  /\ Announce(a, k, key)
  /\ entries_' = [entries_ EXCEPT ![p].Children = Append(@, a), ![a] = CreateEntry(k)]
  /\ UNCHANGED <<symbolVars, roots_>>

-----------------------------------------------------------------------------
DurationMs(a) == (clock - entries_[a].StartTimestamp) \div NsPerMs

\* Instantiations directly inside another are in the group of that one.
IsGroupRoot(a) == kind[parent[a]] # "TemplateInstantiation"

\* Fault: every instantiation of a group is measured.
IsIgnoredByItself(a) ==
  /\ parent[a] # Null
  /\ \/ /\ kind[a] = "Function"
        /\ DurationMs(a) < IgnoreFunctionUnderMs
     \/ /\ kind[a] = "TemplateInstantiation"
        /\ AnalyzeTemplates => DurationMs(a) < IgnoreTemplateInstantiationUnderMs

\* What OnFinishFunction and OnFinishTemplateInstantiation filter out; both
\* need a parent in the event stack.
IsIgnored(a) ==
  /\ parent[a] # Null
  /\ \/ /\ kind[a] = "Function"
        /\ DurationMs(a) < IgnoreFunctionUnderMs
     \/ /\ kind[a] = "TemplateInstantiation"
        /\ AnalyzeTemplates =>
             IsGroupRoot(a) /\ DurationMs(a) < IgnoreTemplateInstantiationUnderMs

\* Fault: the parent keeps a pointer to the erased entry.
IgnoreEntryKeepPointer(es, a, p) ==
  [x \in Activities |-> IF x \in Subtree(es, a) THEN Null ELSE es[x]]

\* Fault: the entry is erased but not the ones below it.
IgnoreEntryOnly(es, a, p) ==
  [x \in Activities |->
     CASE x = a -> Null
       [] x = p -> [es[p] EXCEPT !.Children = Without(@, a)]
       [] OTHER -> es[x]]

\* Fault: the id and its parent's, two numbers, are swapped.
IgnoreEntrySwapped(es, a, p) ==
  [x \in Activities |-> IF x \in Subtree(es, p) THEN Null ELSE es[x]]

IgnoreEntry(es, a, p) ==
  [x \in Activities |->
     CASE x \in Subtree(es, a) -> Null
       [] x = p -> [es[p] EXCEPT !.Children = Without(@, a)]
       [] OTHER -> es[x]]

\* Fault: the time an entry stops is not recorded.
FinishEntryUnstamped(a) ==
  IF IsIgnored(a) THEN IgnoreEntry(entries_, a, parent[a]) ELSE entries_

\* OnFinishActivity, then the handler that may filter.
FinishEntry(a) ==
  LET es == [entries_ EXCEPT ![a].StopTimestamp = clock] IN
  IF IsIgnored(a) THEN IgnoreEntry(es, a, parent[a]) ELSE es

\* Fault: only the root of a group waits for its name.
AwaitsNameGroupRoot(a) == symbolKey[a] # Null /\ IsGroupRoot(a) /\ ~ IsIgnored(a)

\* A template instantiation that is kept waits for its name.
AwaitsName(a) == symbolKey[a] # Null /\ parent[a] # Null /\ ~ IsIgnored(a)

StopEntry(a) ==
  /\ End(a)
  /\ entries_' = FinishEntry(a)
  /\ unresolvedTemplateInstantiationsPerSymbol_' =
       IF AwaitsName(a)
         THEN [unresolvedTemplateInstantiationsPerSymbol_ EXCEPT ![symbolKey[a]] = @ \cup {a}]
         ELSE unresolvedTemplateInstantiationsPerSymbol_
  /\ UNCHANGED <<clock, started, symbolKey, roots_, symbolNames_>>

\* The entries OnSymbolName names.
Subscribers(key) == unresolvedTemplateInstantiationsPerSymbol_[key] \cap Entries

\* The name of a specialization comes once, after all its instantiations.
OnSymbolName(key) ==
  /\ key \notin symbolNames_
  /\ \A a \in Active : symbolKey[a] # key
  /\ symbolNames_' = symbolNames_ \cup {key}
  /\ entries_' = [a \in Activities |->
       IF a \in Subscribers(key) THEN [entries_[a] EXCEPT !.Name = key] ELSE entries_[a]]
  /\ unresolvedTemplateInstantiationsPerSymbol_' =
       [unresolvedTemplateInstantiationsPerSymbol_ EXCEPT ![key] = {}]
  /\ UNCHANGED <<traceVars, roots_>>

Tick ==
  /\ clock < MaxClock
  /\ clock' = clock + 1
  /\ UNCHANGED <<treeVars, started, symbolKey, entries_, roots_, symbolVars>>

-----------------------------------------------------------------------------
(* Properties. *)

\* The places that hold a pointer to the entry of a.
Holders(a) ==
  {<<Null, i>> : i \in {i \in DOMAIN roots_ : roots_[i] = a}}
    \cup UNION {{<<p, i>> : i \in {i \in DOMAIN entries_[p].Children :
                                   entries_[p].Children[i] = a}} : p \in Entries}

\* roots_ and Children hold pointers into entries_.  None of them dangles, so
\* neither OnEndAnalysis nor the recursion of IgnoreEntry reads an erased
\* entry, and each entry has exactly one: it is written out once.
PointersValid ==
  \A a \in Activities : Cardinality(Holders(a)) = IF a \in Entries THEN 1 ELSE 0

\* An activity keeps its entry until it stops, whatever is filtered out around
\* it: the events it still gets find the entry, as the assertions require.
ActiveKept ==
  \A a \in Active :
    /\ a \in Entries
    /\ IF parent[a] = Null THEN a \in Elements(roots_)
                           ELSE a \in ChildrenOf(entries_, parent[a])

\* Roots and children are in the order of their start times, which the time
\* trace relies on to compare an entry with preceding siblings only, and the
\* time of an entry contains the times of its children.
IntervalsNest ==
  LET Sorted(s) == \A i, j \in DOMAIN s : i < j =>
                     entries_[s[i]].StartTimestamp <= entries_[s[j]].StartTimestamp
  IN  /\ Sorted(roots_)
      /\ \A p \in Entries :
           /\ Sorted(entries_[p].Children)
           /\ \A c \in ChildrenOf(entries_, p) :
                /\ entries_[p].StartTimestamp <= entries_[c].StartTimestamp
                /\ p \notin Active => entries_[c].StopTimestamp <= entries_[p].StopTimestamp

\* Once the name of a specialization is known, every instantiation of it that
\* the trace shows has that name, even though others were filtered out while
\* they waited for it.
NamesResolved ==
  \A a \in Entries :
    symbolKey[a] \in symbolNames_ => entries_[a].Name = symbolKey[a]

\* "Keep full hierarchy when root passes filter, even if children wouldn't
\* pass": an instantiation inside another one is only erased with it.
GroupKeptWhole ==
  AnalyzeTemplates =>
    \A p, c \in Entries :
      /\ symbolKey[p] # Null /\ symbolKey[c] # Null
      /\ c \in ChildrenOf(entries_, p)
      /\ entries_'[c] = Null
      => entries_'[p] = Null

GroupsKeptWhole == [][GroupKeptWhole]_hierarchyVars

=============================================================================

# vcperf in TLA+

vcperf turns a trace of a C++ build (start and stop events of compilers, passes,
threads, functions, template instantiations, files) into either an ETW file for
the Windows Performance Analyzer or a JSON time trace.  The trace itself is
collected and replayed by the C++ Build Insights SDK, which is not part of the
repository: it calls every analyzer, in one thread, once per event and in the
order of the timestamps, with an *event stack*, the chain of activities from a
root to the one the event is about.

There are no threads, locks or persistent state in the program.  What is hard is
that the *build* is concurrent: activities of many processes and threads are
interleaved in the trace, and the analyzers keep maps, counters and pools with
pointers into each other that have to survive any such interleaving.  These
modules check and prove that they do.

## Inventory

| Component | State | Operations | What makes it correct |
|---|---|---|---|
| `WPA/Analyzers/ContextBuilder` | contexts and links of active activities, a pool of timeline ids, caches of strings, the context of the current event; the main component of every invocation | `OnStartActivity`, `OnStopActivity`, `OnSimpleEvent`, `GetContextData` | every activity is attributed to its innermost invocation and component; timelines are neither lost nor shared by activities that run side by side; no pointer outlives what it points to |
| `TimeTrace/ExecutionHierarchy` | a tree of entries that outlive their activities, subscriptions for template names | creation, filtering, naming, properties of entries | no dangling entry, groups filtered as a whole, every name resolved |
| `TimeTrace/PackedProcessThreadRemapping` | rows of entries relative to their parents, then absolute | `CalculateChildrenLocalThreadData` per stop, `Calculate` at the end | slices of one row nest; no row too few or too many |
| `TimeTrace/TimeTraceGenerator` | the output | `OnStopActivity`, `OnEndAnalysis`, `ExportTo` | everything kept is written once, and still nests after rounding |
| `main.cpp` | what was read of the command line | `wmain`, `ParseStopOrAnalyze` | the usage lines and nothing else are accepted |
| `Commands.cpp` | none across calls | `DoStart`, `DoStop`, ... : SDK sessions with groups of analyzers and views | the right events are collected, analyzers run before the views that query them |
| `WPA/Analyzers/ExpensiveTemplateInstantiationCache` | time per primary template, keys to report, names | two analysis passes, then queries | the cutoff, pointers into the cache of names |
| `WPA/Analyzers/MiscellaneousCache` | timing of every activity | first pass, then queries | what counts as exclusive time |
| `WPA/Views/*` | none | inject events into the relogged trace | every event with the context of its activity |

`ContextBuilder`, the two caches and the views meet in the relogging session of
`StopToWPA`/`AnalyzeToWPA`: the analyzers see one or two passes over the trace,
then analyzers and views, in this order, see every event of a last pass, and the
views call `GetContextData` and `GetTimingData`.  `ExecutionHierarchy` and
`TimeTraceGenerator` meet in `StopToTimeTrace`/`AnalyzeToTimeTrace`: one pass, in
which the generator asks for the entry of every activity that stops.

`PROJECT.json` lists the hazards of each component at their lines.

## Modules

| Module | Models |
|---|---|
| `ActivityTree` | what the analyzers rely on of the SDK: activities start below an active parent and stop when they have no active children |
| `ContextBuilder` | the analyzer in the relogging pass |
| `TimelineRows` | what `ContextBuilder` promises about timelines, without trace, pool or counts |
| `MainComponentCache` | `ContextBuilder` in the first analysis pass: the main component of every invocation |
| `TimingCache` | `MiscellaneousCache`: times and exclusivity leaves |
| `FirstPass` | the first analysis pass: `MainComponentCache` and `TimingCache` composed over one trace |
| `TracePasses` | how the SDK runs the passes of a session (external) |
| `TemplateCache`, `TemplatePasses` | `ExpensiveTemplateInstantiationCache`; its passes, composed with `TemplateInstantiationsView` |
| `Views` | what `BuildExplorerView`, `FunctionsView` and `FilesView` inject for an event |
| `RelogSession` | a whole session: `TracePasses`, `FirstPass`, `ContextBuilder` and `Views` composed, with its failures and the result of the command |
| `ExecutionHierarchy` | the tree of entries |
| `TimeTrace` | `ExecutionHierarchy` composed with `PackedProcessThreadRemapping` and `TimeTraceGenerator` |
| `CommandLine` | `wmain`, and the flags of `DoStart` |
| `TickPrecision` | `ConvertTickPrecision` with 64-bit overflow |
| `MCContextBuilder`, `MCTimeTrace`, `MCCommandLine`, `MCTemplatePasses`, `MCRelogSession` | instances for TLC |
| `ActivityTreeProofs`, `ContextBuilderProofs`, `RelogSessionProofs`, `TemplatePassesProofs`, `TimeTraceProofs`, `RowPackingProofs`, `CommandLineProofs`, `TickPrecisionProofs` | theorems |

### ActivityTree (external)

`kind`, `parent` and `stack` describe the event stacks of the active activities.
`RootKinds` and `ChildKinds` say which kinds of activities may be a root and what
may be inside what.  *Any* kind may be a root, because a collection can start in
the middle of a build; what the model never has is a compiler pass whose parent is
something else than a compiler (`NestingAssumption`).  An instance id can be used
again once its activity has stopped.  The SDK never does that; it keeps traces of
any length within a finite set of ids and makes leftovers visible, since whatever
was not erased for an activity is met by the next one with that id.

### ContextBuilder

One action per event; each is the whole chain of handlers the event goes through.

| Action | Code |
|---|---|
| `StartRoot` | `OnRootActivity`, then `OnInvocation` for compilers and linkers |
| `StartNested` | `OnNestedActivity`, then `OnInvocation` |
| `StartFork` | `OnCompilerPass` or `OnC2Thread`, both `ProcessParallelismForkPoint` |
| `StopRoot`, `StopNested` | `OnStopRootActivity`, `OnStopNestedActivity`, each followed by `OnStopCompilerPass`, `OnStopC2Thread` or `OnStopInvocation` |
| `SimpleEvent` | `OnSimpleEvent` |

The variables have the names of the members.  A pointer to a context or to a cached
string is the key under which the entry is stored, so that a dangling pointer is a
key without an entry.  `availableTimelineIds_` counts how often the priority queue
holds each id, so that an id pushed twice is seen.  `TimelineId` and
`TimelineReuseCount` are taken modulo `UShortLimit`.

`JoinBeforeNesting` is the one assumption about *builds*: an activity waits for its
parallel children before it starts one that is not a fork point.  The code relies
on it in `OnNestedActivity`, which reuses the parent's timeline without looking at
the reuse count.  Only `TimelinesExclusive` needs it; every other property is
checked and proved without it.

### FirstPass

`StartFirst`, `StopFirst` and `SimpleFirst` are the events of the first pass.
`ContextBuilder` and `MiscellaneousCache` do nothing when an activity starts; when it
stops, `RecordTimes` stores its times and marks or unmarks leaves; a simple event about
an input or output goes through `OnCompilerInput`, `OnCompilerOutput` or
`OnLinkerOutput` (`CacheMainComponent`).  Linkers that spawn each other form a group,
and an output of any of them is one of all of them.  `past` and `seen` are history
variables: what the trace has said so far, to compare the caches with.

### TracePasses (external)

The SDK decides when a pass begins and ends; the analyzers only see two counters move.
`Dispatch` makes up the trace in the first pass and replays it in the later ones, event
by event.  The first pass may end at any point, since a collection can be stopped in the
middle of a build.  `Init` is the beginning of both groups (`analysisCount_` is 2);
`BeginRelogging` ends the group of analyzers, so that `IsRelogging` holds from there on.

### TemplateCache and TemplatePasses

`TemplateInstantiation` is the stop event of an instantiation in the analysis passes and
its start event in the relogging pass, where the view may inject; `SymbolName` is the
simple event that brings a name; `EndAnalysisPass` is `OnEndAnalysisPass`.  Pointers into
`cachedSymbolNames_` are the names themselves, so a dangling pointer is a name that is
not in the cache.  Sums are taken modulo `UIntLimit`.

Two of the cache's computations are modelled as they are and are worth knowing.  The
cutoff of five percent of the trace is computed in nanoseconds and compared with
microseconds (`ExpensiveTemplateInstantiationCache.cpp:163`), so that every trace of 10
milliseconds or more has the cutoff `MaxCutoff` (500000 microseconds).  And every
instantiation is cut to whole microseconds before it is added.  `ExpensiveShown` takes
both as given: it says that the *selection* by this cutoff is right.

### Views and RelogSession

`Start`, `Stop` and `Simple` dispatch one event to all analyzers and reloggers in the
order of `MakeStaticReloggerGroup`.  In the relogging pass the caches come first: the
primed variables of `CB` (the instance of `ContextBuilder`) are what the views read,
hence `ViewStart(...)'`.  `EndPass` ends a pass, `Finish` the session and the command,
`Fail` is a session that the SDK ends with an error code, of which `ResultCodeToHResult`
makes the result.  A failure in the middle of a pass leaves nothing else behind than one
at its end, so `Fail` is only offered at the ends of passes.

An injected event is a record of the view's event, the activity, a copy of the context
and the data the properties tell apart.  Strings of invocations are sequences of
characters, which `Segments` cuts as `ProcessStringProperty` does: `SegmentCount` is how
often its loop and what follows it come to a piece.

`ShowsVariable` shows what the order of the matches at `BuildExplorerView.cpp:55` does:
the handler for compilers is tried first and matches any compiler in the stack, so that
`LINK`, `LIB` and the other variables of a linker are not listed when a compiler spawned
that linker.  The repository does not say that they should be.

### ExecutionHierarchy and TimeTrace

The entry of an activity is kept under its id, and `roots_` and `Children` hold
ids where the code holds pointers.  `StopEntry` is `OnFinishActivity` followed by
`OnFinishFunction` or `OnFinishTemplateInstantiation`; `Subtree` is what the
recursion of `IgnoreEntry` erases.  Of a name only its origin is kept: the kind of
the activity or the specialization it was named after.

`TimeTrace` adds what the generator does on the same events: `StopActivity`
calculates the rows of the children of the entry that stopped, if it was not
filtered out, and `OnEndAnalysis` remaps and exports.  The output file may turn out
not to be writable.  Time is in nanoseconds with a short millisecond and
microsecond (`NsPerMs`, `NsPerUs`), so that rounding matters within a few ticks.

A trace ends when no activity is open, and ids are not used a second time (entries
stay until the end).  A group of template instantiations is taken to be the
consecutive instantiations at the end of an event stack, and it has a front end
pass or some other activity below it (`GroupAssumption`).

### CommandLine

`argv[i]` is the C++ `argv[i]`.  The parser is a small machine whose states are the
places of the code that look at the next word; an access to `argv[argc]` that makes a
string of a null pointer is the outcome `"undefined"`.

## Runs

| Run | Shows | Bounds |
|---|---|---|
| `compilation` | `NearestContext`, `Attribution`, `NothingLeftBehind`, `CurrentContextAlive`, `ContextsStable` for compilers, passes and linkers | 4 activities at a time (a compiler, a linker it spawned, a linker spawned by that one and a simple activity or pass: the deepest nesting of contexts the kinds allow plus a sibling); any subset of invocations has a main component |
| `code_generation` | `ReuseCountsChildren`, `TimelineConservation` and the refinement `RowsSpec` for threads | 4 activities at a time and 4 timelines: a parent, an activity on its timeline and two forked threads, in any order |
| `exclusive` | `TimelinesExclusive`, `IInv` | 5 activities at a time, with `JoinBeforeNesting` |
| `threads` | `SlicesNest`, `RequiredRowsExact` | 5 entries of one process in any nesting, timestamps 0 to 3 and a microsecond of 2 |
| `wide` | `SlicesNest` | 8 entries that overlap, at most 3 below one entry: the smallest number for which two rows, each with an entry of its own below, have a third sibling below them |
| `filter` | `PointersValid`, `ActiveKept`, `IntervalsNest`, `NamesResolved`, `GroupsKeptWhole`, `EverythingExported`, `ProcessesPacked` | 4 entries, one specialization key, timestamps 0 to 2, a millisecond of 2 |
| `command_line` | `UsageRespected`, `StartUsageRespected`, `EventsCollected` | up to 4 words after the command, of 11: the longest usage line has 4 |
| `ticks` | `TimestampExact`, `TimestampsOrdered` | a word of 7 bits and a sign, 10 ticks per second as target, all ticks and frequencies up to 12 |
| `templates` | `NamesAlive`, `ExpensiveShown`, `ShownByName` | traces of 5 events, two templates with one specialization each and two names: two instantiations, both names and one more of either fit, so that two keys share a name, with their events in any order; a word of 2 bits, in which two long instantiations overflow, cutoffs below and at `MaxCutoff` |
| `session` | `CompilerComponents`, `LinkerComponents`, `ExclusiveTimes`, `EventsAttributed`, `EverythingShown`, `TimesShown`, `FilesPlaced`, `PropertiesWhole`, `FailureReported`, `InvocationsListed` | traces of 4 events and 3 activities, one or two analysis passes: an invocation with two inputs or outputs, a linker in a linker with an output, a file in a file, and a trace that ends at any of them; values of one more than the length of a segment and of twice it; result codes on both sides of 2^16 |
| `missing_argument` | expected to fail: `ArgumentsExist` | up to 3 words after the command |
| `wrapped_total` | expected to fail: `LongestShown` | as `templates`, with traces of 6 events: a total that wraps needs two long instantiations, and another template that does not wrap |

Ids are symmetric in the three runs of `ContextBuilder`.  In the runs of `TimeTrace`
a state constraint makes ids be used in one order instead.  `CHECK_DEADLOCK FALSE` is
set where the system stops: a trace ends, a command line is read.

### Fairness and liveness

Nothing in the program waits, and a handler always runs to its end.  What can be stuck
is a session, if its passes or counters were wrong.  `RelogSession` assumes
`WF_vars(Progress)`: the SDK calls the handlers synchronously, event by event and pass by
pass, until the last pass has no more events, and there is nothing else for the process
to do.  `Fail` is not fair: a session *may* fail at the end of a pass.  Under this
assumption `InvocationsListed` says that a session with a compiler or linker in its trace
comes to a point where all of them are listed by the Build Explorer view, or fails.
No other specification states fairness.

### Findings

`vcperf /stop /templates session /timetrace` (and `/analyze` likewise) makes a string
of a null pointer: `main.cpp:136` takes the word after `/timetrace` before
`main.cpp:139` checks that it is there.  The run `missing_argument` finds the command
line; with `/templates` or `/timetrace` alone the earlier checks are sufficient, which
`UsageRespected` covers and the theorem `MissingOutputOnly` proves.

`ExpensiveTemplateInstantiationCache` adds the time of a template up in an unsigned int
of microseconds (`ExpensiveTemplateInstantiationCache.cpp:117` and `:130`), which wraps
after 71.6 minutes, less than a large parallel build can spend on one template.  The
template with the longest time can then be left out while shorter ones are shown, against
the purpose `src/README.md:99` states.  The run `wrapped_total` finds the trace;
`ExpensiveShown` holds as long as no sum wraps (`NoOverflow`).

### An assumption that matters

With `JoinBeforeNesting` false, `TimelinesExclusive` is violated in five steps: an
activity below C2DLL starts a thread, which takes over its timeline; the activity then
starts another child, which takes the same one.  Nothing under `src/` says whether a
compiler ever does that, so it is an assumption here and not a finding.

## Proofs

All theorems hold for every value of the constants that the named assumptions allow:
every set of activities, every nesting of kinds, every filter, every length of a trace
or a command line.  They say what the SDK and the compiler do (`NestingAssumption`,
`GroupAssumption`, `KeyAssumption`) or what the constants stand for.  One hypothesis
excludes what the program could meet, and only the theorems about timelines have it:
`Capacity`, by which `UShortLimit` is not smaller than the number of activities, so that
below 65536 simultaneous activities nothing wraps.  Contexts and attribution do not depend
on it.

Where something recurses (rows over siblings, over the tree, sums over a trace), the
modules use recursive functions, and the proofs induction in the form of `Induction`:
a *set* of naturals that has 0, and with each number the next, is `Nat`.  It is proved
from the well-founded inclusion of finite sets.

`ContextBuilderProofs` proves two invariants inductive and from them the properties of the
runs.  `CInv` (types, trees and contexts) gives `TypesHold`, `NothingStaysBehind`,
`NearestContextHolds` and `CurrentContextsLive`; `IInv` (timelines as well, under
`Capacity`) gives `ReuseCountsHold`, `TimelinesConserved` and, under `JoinBeforeNesting`,
`TimelinesStayExclusive`.  They have four parts.

- `TreeInv` (lemmas in `ActivityTreeProofs`): the event stacks are the paths of a
  forest.  `stack` makes "ancestor" first-order, so no induction over paths is needed.
- `ContextInv`: `NearestContext` alone is not inductive.  When an activity stops,
  its context must be used by nobody else; this follows because a context belongs to
  its own activity, everyone linked to it is above that activity in the forest, and
  an activity that stops has nobody above it.
- `PoolInv` and `HoldersInv`: an id is in the pool or has a holder, never both, and
  never two.  Here it matters that the ids handed out form an initial segment
  (`timelineDescriptions_` is compared by its size only).
- `ConsecutiveInv`: the activities of a stack that use one timeline are consecutive.
  Without it a child could share the timeline of its grandparent but not of its
  parent, and the comparison in `OnStopNestedActivity` would not tell who gave the
  timeline away.

The second part of `ContextBuilderProofs` goes on from there.

- `RowsImplemented` (`Spec => RowsSpec`) is the refinement of `TimelineRows`: an activity
  holds a row when its timeline is not its parent's.  A step of the analyzer maps to the
  step of the table that takes the topmost free row, frees one or changes nothing; that
  the id the pool hands out is that row is `PoolInv`.
- `ContextsStayStable`: the links and contexts a step leaves alone are those of all other
  activities, because the context erased is nobody's any more.
- `AttributionHolds`: `NearestContext` says whose context an activity has; what is in that
  context was taken from the context around it when its owner started.

`RelogSessionProofs` begins with the first pass on its own: `FirstPassSpec =>
[]FirstPassInv`.  The invariant has a part for each analyzer.  `TimesInv`: a record is
fresh until its activity stops (`RecordsFresh`), running activities are nested as their
kinds allow (`NestingKept`), and the leaves are exactly the running activities that have a
finished part of another kind (`LeavesExact`), from which `TimesAreExclusive` follows.
`ComponentsInv`: the cache holds what `CompilerComponents` and `LinkerComponents` compute
from the events seen, which is a function of their sets and, for import libraries, of the
first.

It goes on to whole sessions: `AttributedEvents`, `EverythingIsShown`, `ShownTimesRight`,
`FilesArePlaced`, `PropertiesAreWhole` and `FailuresAreReported`, for traces, strings and
inclusions of any length and any number of activities, and whether there are one or two
analysis passes.  The properties compare what was injected with what the *trace* says;
the views read the event stack, the caches and the contexts.  `SessionInv` closes the gap
in four steps.

- The trace has each start and stop once, parents before their children (`WellFormed`),
  and the caches say of each activity what it says (`RecordsTrace`): this is shown in the
  first pass, and the later ones add nothing but entries without times (`CachesKept`).
- A pass that replays the trace goes through the event stacks the trace describes:
  `stack[a]` is the smallest set with `a` closed under the parents of the trace, and the
  group of a file that closed under inclusions (`StacksReplayed`).  `UpFromParent` is the
  recursion both follow, proved from the definition by closed sets.
- Every step of the relogging pass is one of `ContextBuilder` (`CP!Next`), which starts it
  in its initial state, so the attribution proved in `ContextBuilderProofs` holds in it,
  and with the stacks it is the attribution by the trace (`ContextRight`).
- What the views inject for one event is right and is all they should inject for it
  (`ViewsAtStart`, `ViewsAtSimple`), in the state *after* the caches handled the event;
  what has been injected is right as a whole (`RightEvent`) and complete up to `pos`
  (`ShownInv`).  That the pieces of a string make it up again needs no induction: where
  the n-th begins is known (`PieceAt`), and that there are enough is the least n of
  `SegmentBounds`.

`TemplatePassesProofs` proves `NamesStayAlive` and `InstantiationsShownByName` for every
number of keys and names, every cutoff and every width of the sums.  The invariant
(`IInv` of that module) ties the cache to the trace: whatever the cache says of a key is
its name in the trace (`PointersInv`), which needs that a name comes once and after the
instantiations of its specialization (`TraceInv`); in the second pass, an instantiation
that was seen is named or waits for a name after the position of the pass
(`SecondPassInv`), so that none waits for a name in the trace while relogging
(`RelogInv`).

`ExpensiveStayShown` rests on a second invariant, `SumsInv`.  In the first pass,
`localPrimaryTemplateTimes_` has the sum over the trace so far for each template that was
instantiated and has no name, and `primaryTemplateStats_` that over all templates of a
name together, both modulo the width (`LocalTimes`, `NamedTimes`).  A symbol moves the sum
of one key to the sum of its name, which is right because sums over disjoint sets of
templates add up (`TimeFacts`) and so do their remainders (`SumWraps`).  From the end of
the first pass on, exactly the templates whose sum reaches the cutoff have a pointer
(`ChosenInv`), which no later event changes, and the view shows exactly their
instantiations, up to the position of the pass (`ViewInv`).  Only the last step, from
the sum to the time, uses `NoOverflow`.

`TimeTraceProofs` proves, for every filter and every trace, that entries stay a forest:
`PointersStayValid`, `ActiveStayKept`, `IntervalsStayNested`, `NamesStayResolved` and
`GroupsStayWhole`.  The invariant `HierarchyInv` is first-order: roots have no parent, any
other entry has one, and nothing points to an erased entry or twice to one (`Forest`); a
running activity is below its parent (`KeptInv`); times are not after the clock
(`TimesInv`); an instantiation without its name waits for it (`NamesInv`).  `Subtree` is
the smallest closed set, so what it contains is proved without induction: with an entry
below `a` its parent is below `a`, up to `a` itself (`SubtreeFacts`), and no running
activity is below one that stops (`NoneBelow`).

`RowPackingProofs` goes on from `HierarchyInv` to the rows: `TypeCorrect`,
`EntriesExported`, `ProcessesStayPacked`, `RowsStayExact` and `SlicesStayNested`.  The
invariant `RowsInv` adds to it

- `RankInv`: no entry is below itself, witnessed by a rank that grows from parent to
  child.  An entry gets a rank above its parent's when it starts.  Over ranks, what
  holds for the roots and passes from parent to child holds for all (`TopDown`), and what
  holds for leaves and passes from children to parent does, too (`BottomUp`).
- `DataInv` and `PackedInv`: an entry has its row data exactly when it has stopped, and
  then the rows of its children, each with all that is below it, are within what the
  entry requires, reach the last of them, and are apart where the children run at the
  same time.  This is fixed when the entry stops (`StopChildren`): below an entry that
  has stopped nothing changes any more, except that a whole entry may be erased, and
  that happens before the rows of its parent are computed.
- `OutputInv`: what was exported are the rows of `Calculate`, rounded.

Why first fit leaves no row empty and puts no two overlapping children on one row
(`FirstFitFacts`), and why no row can be saved (`RowsNeeded`: an entry is on the n-th row
only because n - 1 others run when it starts) are facts about sequences of intervals.
`SlicesStayNested` follows from `ContainedOrApart`: of two entries on a row, the times of
one contain those of the other or they are apart, in nanoseconds, by going up to where
their ancestors part; rounding both ends down keeps either (`MicrosecondFacts`).

`CommandLineProofs` proves `UsageStaysRespected`, `StartUsageStaysRespected` and
`RightEventsCollected` for command lines of any length.  The invariant (`IInv` of that
module) says that what was read so far is what the words before `curArgc` mean: the
session name, `/templates` and `/timetrace` of `/stop` and `/analyze`
(`StopOrAnalyzeInv`), the options before the session name of `/start` and the level
that they ask for (`StartInv`).  Most of the proof is about the usage lines themselves: what
each line says of a whole command line (`LineOnCommand`), which one was meant when the
parser accepts or not (`LineMeant`, `NothingMeant`), and that the session name of
`/start` is the first word that is no option (`NameFound`, `NoNameFound`).
`MissingOutputOnly` delimits the finding of the run `missing_argument`: the *only* command
lines that make a string of a null pointer are those that end with `/templates`, a word
and `/timetrace`.

`TickPrecisionProofs` proves, for every width and frequency, that the split conversion
is the exact quotient, overflows only when its result does, and is monotone.

### Only model-checked

- `InvocationsListed`: liveness, and `ENABLED` in the fairness, are out of the prover's
  reach.  That what is listed is right, and is listed by the time it is reached, is
  `EventsAttributed` and `EverythingShown`, which are proved.

## Not modelled

- The JSON text, console messages, `PrintError`, resources, build files.
- Properties of entries of the time trace (command line, environment, files) and names of
  files, threads and invocations.
- `PayloadBuilder`: it copies its arguments one after the other into a buffer of the sum
  of their sizes; it has no state and no branch.
- `DoStopNoAnalyze` and `DoGrantUserSessionControl`: one call of the SDK each.
- CPU times and wall clock time responsibility: they take the path of the durations.
- An unwritable output file is modelled (`analysis = "failed"`), but no property is about
  it: no output remains to say anything of.
- A time trace that ends while activities are open: `TimeTraceGenerator` writes their
  entries with the stop time that the SDK gave with the start event, which nothing in
  `src/` determines.  The traces of `TracePasses` do end that way, and `TimesShown` covers it for
  the views.
- More than 65535 timelines at once (`Capacity`), where `TimelinesExclusive` and
  `TimelineConservation` cannot hold.

## Plan

Done: the model of every analyzer, the packing of rows, the views, the sessions, the
command line; the refinement of `TimelineRows`; proofs of all invariants of
`ContextBuilder`, of the sessions, of the template passes, of the time trace and of the
command line.

Left:

1. An abstract specification of `TimeTrace` (a set of non-overlapping rectangles) that the
   packing implements.
2. The properties of entries, as `Views` has them for the Build Explorer.

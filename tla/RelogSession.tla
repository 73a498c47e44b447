---------------------------- MODULE RelogSession ----------------------------
(***************************************************************************)
(* The session behind /stop and /analyze with an .etl output: ContextBuilder*)
(* and MiscellaneousCache go through the analysis passes, then, together   *)
(* with the views, through the relogging pass, in the order of             *)
(* MakeStaticReloggerGroup: first the caches, then the views that ask them.*)
(*                                                                         *)
(* ContextBuilder works on the main components FirstPass collects.         *)
(* ExpensiveTemplateInstantiationCache and its view, which share nothing   *)
(* with the others but the passes, are in TemplatePasses.                  *)
(*                                                                         *)
(* Instance ids grow in the order of the start events.  The path of a file *)
(* is the position of its event in the trace.                              *)
(***************************************************************************)
EXTENDS TracePasses, FirstPass, Views, Integers

CONSTANTS
  UShortLimit,   \* 2^16
  Toolsets,      \* what an invocation tells of its tool
  EnvNames,      \* names of environment variables in the trace
  Values,        \* command lines, sequences of characters
  ResultCodes    \* what the SDK reports when a session fails

ASSUME SessionAssumption ==
  /\ IsFiniteSet(Activities) /\ Activities = 1 .. Cardinality(Activities)
  /\ Paths = 1 .. MaxEvents
  /\ Values \subseteq Seq(Nat)
  /\ ResultCodes \subseteq Nat \ {0}

VARIABLES
  timelineCount_, availableTimelineIds_, timelineDescriptions_, contextData_,
  activityContextLinks_, activeComponents_, invocationDescriptions_,
  currentContextData_, currentInstanceId_,   \* ContextBuilder
  injected,   \* the events the views injected, in order
  result      \* what the command returns, Null while it runs

contextVars == <<timelineCount_, availableTimelineIds_, timelineDescriptions_, contextData_,
                 activityContextLinks_, activeComponents_, invocationDescriptions_,
                 currentContextData_, currentInstanceId_>>

vars == <<passVars, treeVars, componentVars, timingVars, contextVars, injected, result>>

CB == INSTANCE ContextBuilder WITH
        mainComponentCache_ <- {a \in Activities : MainPath(a) # NoPath},
        MainComponents <- Activities,
        JoinBeforeNesting <- FALSE

\* A context as the views read it, all strings copied.
Contexts ==
  [timeline   : CB!TimelineIds,
   invocation : Activities \cup {Null},
   component  : {<<>>} \cup ({"path"} \X Paths) \cup ({"own"} \X Activities)]

ASSUME ContextAssumption ==
  /\ UShortLimit \in Nat \ {0}
  /\ Null \notin CB!ContextData \cup CB!ContextLink \cup Contexts \cup Int

\* The SDK has toolPath for newer toolsets only.
ASSUME ToolsetAssumption ==
  Toolsets \subseteq [version : Seq(Nat), toolPath : Seq(Nat) \cup {Null}, directory : Seq(Nat)]

Init ==
  /\ PassesInit
  /\ FirstPassInit
  /\ CB!Init
  /\ injected = <<>>
  /\ result = Null

-----------------------------------------------------------------------------
(* Events. *)

NextId == Cardinality({i \in DOMAIN trace : trace[i].type = "start"}) + 1

\* What a view finds in the context it is given, all strings copied: those of
\* the invocation and the component.  There is no context to read from Null.
Attributed(c) ==
  IF c = Null THEN Null
  ELSE [timeline   |-> contextData_[c].TimelineId,
        invocation |-> contextData_[c].Invocation,
        component  |-> LET ref == contextData_[c].Component IN
                       CASE ref.cache = "literal" -> <<>>
                         [] ref.cache = "main"    -> <<"path", MainPath(ref.key)>>
                         [] ref.cache = "active"  -> <<"own", ref.key>>]

Context == Attributed(CB!GetContextData)

\* The reloggers after the caches: the Build Explorer, functions, files.
ViewStart(a, info) ==
  BuildExplorerStart(a, Context, info) \o FunctionsStart(a, Context) \o FilesStart(a, Context)

ViewSimple(a, w, name, value) ==
  BuildExplorerSimple(a, w, name, value, Context) \o FunctionsSimple(a, w, Context)

\* The events that may come next in the first pass, and the one that does later.
NewStarts ==
  {[type |-> "start", id |-> a, parent |-> p, kind |-> k, info |-> info] :
     a \in Activities \cap {NextId}, p \in Active \cup {Null}, k \in Kinds, info \in Toolsets}

NewStops == [type : {"stop"}, id : Active, duration : Durations]

NewSimples ==
  UNION {[type : {"simple"}, id : {a}, what : {w},
          name : IF w = "EnvironmentVariable" THEN EnvNames ELSE {w},
          value : IF w = "CommandLine" THEN Values ELSE {<<>>}] :
            a \in Active, w \in UNION {EventKinds[k] : k \in Kinds}}

Coming(new) == IF Recording THEN new
               ELSE IF pos < Len(trace) THEN {trace[pos + 1]} ELSE {}

Start(e) ==
  LET a == e.id  p == e.parent  k == e.kind IN
  /\ e.type = "start"
  /\ Dispatch(e)
  /\ IF Recording
       THEN /\ StartFirst(a, p, k)
            /\ UNCHANGED <<contextVars, injected>>
     ELSE IF ~ IsRelogging
       THEN /\ IF p = Null THEN BeginRoot(a, k) ELSE BeginNested(a, p, k)
            /\ UNCHANGED <<componentVars, timingVars, contextVars, injected>>
     ELSE /\ UNCHANGED <<componentVars, pass_, exclusivityLeaves_, past>>
          /\ GetTimingData(a)
          /\ IF p = Null THEN CB!StartRoot(a, k)
                         ELSE CB!StartNested(a, p, k) \/ CB!StartFork(a, p, k)
          /\ injected' = injected \o ViewStart(a, e.info)'
  /\ UNCHANGED result

Stop(e) ==
  /\ e.type = "stop"
  /\ Dispatch(e)
  /\ IF Recording
       THEN /\ StopFirst(e.id, e.duration)
            /\ UNCHANGED contextVars
     ELSE /\ UNCHANGED <<componentVars, timingVars>>
          /\ IF IsRelogging THEN CB!StopRoot(e.id) \/ CB!StopNested(e.id)
                            ELSE End(e.id) /\ UNCHANGED contextVars
  /\ UNCHANGED <<injected, result>>

Simple(e) ==
  /\ e.type = "simple"
  /\ e.what \in EventKinds[kind[e.id]]
  /\ Dispatch(e)
  /\ IF Recording
       THEN /\ SimpleFirst(e.id, e.what, Len(trace) + 1)
            /\ UNCHANGED <<contextVars, injected>>
     ELSE IF ~ IsRelogging
       THEN UNCHANGED <<treeVars, componentVars, timingVars, contextVars, injected>>
     ELSE /\ UNCHANGED <<componentVars, pass_, exclusivityLeaves_, past>>
          /\ GetTimingData(e.id)
          /\ CB!SimpleEvent(e.id)
          /\ injected' = injected \o ViewSimple(e.id, e.what, e.name, e.value)'
  /\ UNCHANGED result

-----------------------------------------------------------------------------
(* The session. *)

\* Another pass replays the trace from its first event.
RestartTree ==
  /\ kind' = [a \in Activities |-> Null]
  /\ parent' = [a \in Activities |-> Null]
  /\ stack' = [a \in Activities |-> {}]

EndPass ==
  /\ BeginAnalysisPass \/ BeginRelogging
  /\ EndTimingPass
  /\ RestartTree
  /\ UNCHANGED <<componentVars, contextVars, injected, result>>

S_OK == 0
E_FAIL == - 2147467259                    \* 0x80004005
MAKE_HRESULT(code) == - 2147221504 + code \* 0x80040000 | code: FACILITY_ITF

\* Fault: the result code itself, which a caller takes for a success.
RawResultCode(rc) == rc

\* The result of a command whose session failed with code rc.
ResultCodeToHResult(rc) == IF rc > 65535 THEN E_FAIL ELSE MAKE_HRESULT(rc)

\* DoStop and DoAnalyze, once the session has ended.
Finish ==
  /\ EndRelogging
  /\ EndTimingPass
  /\ result' = S_OK
  /\ UNCHANGED <<treeVars, componentVars, contextVars, injected>>

\* A failure in the middle of a pass would leave nothing else behind.
Fail(rc) ==
  /\ phase \in {"analysis", "relogging"}
  /\ pos = Len(trace)
  /\ Recording => trace = <<>>
  /\ phase' = "failed"
  /\ result' = ResultCodeToHResult(rc)
  /\ UNCHANGED <<trace, pos, analysisCount_, analysisPass_, isEnabled_, treeVars,
                 componentVars, timingVars, contextVars, injected>>

Progress ==
  \/ \E e \in Coming(NewStarts) : Start(e)
  \/ \E e \in Coming(NewStops) : Stop(e)
  \/ \E e \in Coming(NewSimples) : Simple(e)
  \/ EndPass
  \/ Finish

Next == Progress \/ \E rc \in ResultCodes : Fail(rc)

\* The SDK goes on with the session until the trace has no more events.
Spec == Init /\ [][Next]_vars /\ WF_vars(Progress)

-----------------------------------------------------------------------------
(* What the trace says, whatever the analyzers made of it. *)

Started == {trace[i].id : i \in {j \in DOMAIN trace : trace[j].type = "start"}}

StartAt(a) == CHOOSE i \in DOMAIN trace : trace[i].type = "start" /\ trace[i].id = a
KindOf(a) == trace[StartAt(a)].kind
ParentOf(a) == trace[StartAt(a)].parent

\* The activities a runs on behalf of: a, its parent, the parent of that, and
\* so on, which is the smallest set with a that is closed under parents.
ChainOf(a) ==
  {x \in Started : \A S \in SUBSET Started :
     a \in S /\ (\A y \in S : ParentOf(y) # Null => ParentOf(y) \in S) => x \in S}

IncludedByFile(a) == ParentOf(a) # Null /\ KindOf(ParentOf(a)) = "FrontEndFile"

\* A file and the files around it, with nothing but files between.
InclusionsOf(a) ==
  {x \in Started : \A S \in SUBSET Started :
     a \in S /\ (\A y \in S : IncludedByFile(y) => ParentOf(y) \in S) => x \in S}

\* Ids grow from the root to an activity.
Last(S) == IF S = {} THEN Null ELSE CHOOSE a \in S : \A b \in S : b <= a

InvocationOf(a) == Last({x \in ChainOf(a) : KindOf(x) \in InvocationKinds})

\* A component is that of the innermost invocation or pass of a compiler.
ComponentOf(a) ==
  LET x == Last({y \in ChainOf(a) : \/ KindOf(y) \in InvocationKinds
                                    \/ KindOf(y) = "CompilerPass" /\ ParentOf(y) # Null})
  IN  IF x = Null THEN <<>>
      ELSE IF KindOf(x) \in InvocationKinds /\ MainPath(x) # NoPath THEN <<"path", MainPath(x)>>
      ELSE <<"own", x>>

StopsOf(a) == {i \in DOMAIN trace : trace[i].type = "stop" /\ trace[i].id = a}

\* How long a took: nothing is known when the trace ends before.
DurationOf(a) == IF StopsOf(a) = {} THEN 0 ELSE trace[CHOOSE i \in StopsOf(a) : TRUE].duration

\* Where what was injected of one sort for one activity is.
InjectedFor(event, a) == {j \in DOMAIN injected : injected[j].event = event /\ injected[j].id = a}

\* The activities with a start event that the relogging pass has reached.
Reached ==
  IF phase \in {"relogging", "done"}
    THEN {trace[i].id : i \in {j \in 1 .. pos : trace[j].type = "start"}}
    ELSE {}

-----------------------------------------------------------------------------
(* Properties. *)

\* Every event a view injects, for a start event or a simple one, has a context,
\* with the innermost invocation of the build that the activity belongs to and
\* the component that the first pass found for it by its end.
EventsAttributed ==
  \A j \in DOMAIN injected :
    /\ injected[j].context # Null
    /\ injected[j].context.invocation = InvocationOf(injected[j].id)
    /\ injected[j].context.component = ComponentOf(injected[j].id)

\* The relogged trace shows every step of the build once: invocations, passes,
\* linker and code generation steps and threads with an owner in the Build
\* Explorer, long functions, and files; and nothing else there.
EverythingShown ==
  \A a \in Reached :
    /\ Cardinality(InjectedFor("BuildExplorerActivity", a)) =
         IF \/ KindOf(a) \in InvocationKinds \cup {"CompilerPass", "C2DLL", "Phase"}
            \/ KindOf(a) = "Thread" /\ ParentOf(a) # Null
           THEN 1 ELSE 0
    /\ Cardinality(InjectedFor("FunctionActivity", a)) =
         IF KindOf(a) = "Function" /\ DurationOf(a) >= LongFunction THEN 1 ELSE 0
    /\ Cardinality(InjectedFor("FileActivity", a)) =
         IF KindOf(a) = "FrontEndFile" THEN 1 ELSE 0

\* A start event is shown with the times that its stop event brought in an
\* earlier pass, and with none when the trace ended before it.
TimesShown ==
  \A j \in DOMAIN injected :
    injected[j].event \in {"BuildExplorerActivity", "FunctionActivity", "FileActivity"} =>
      LET a == injected[j].id IN
      /\ injected[j].data.times.Duration = DurationOf(a)
      /\ injected[j].data.times.Exclusive = "whole" <=>
           /\ StopsOf(a) # {}
           /\ \E c \in Activities :
                /\ StopsOf(c) # {} /\ ParentOf(c) = a
                /\ KindOf(c) \in PartKinds /\ KindOf(c) # KindOf(a)

\* A file is shown at its depth of inclusion, below the file that includes it.
FilesPlaced ==
  \A j \in DOMAIN injected : injected[j].event = "FileActivity" =>
    LET a == injected[j].id  around == InclusionsOf(a) \ {a} IN
    /\ injected[j].data.depth = Cardinality(around)
    /\ injected[j].data.parentFile = IF around = {} THEN Null ELSE ParentOf(a)

\* The pieces of a string property of activity a.
PiecesOf(a, name) == {j \in InjectedFor("StringProperty", a) : injected[j].data.name = name}

\* The pieces P, in the order of their injection, are value when put together:
\* at[j] characters come before piece j.
MakeUp(P, value) ==
  \E at \in [P -> 0 .. Len(value)] : \A j \in P :
    LET piece == injected[j].data.value IN
    /\ at[j] + Len(piece) <= Len(value)
    /\ piece = SubSeq(value, at[j] + 1, at[j] + Len(piece))
    /\ (\A i \in P : j <= i) => at[j] = 0
    /\ \A i \in P : j < i /\ (\A k \in P : k <= j \/ i <= k) => at[i] = at[j] + Len(piece)
    /\ (\A i \in P : i <= j) => at[j] + Len(piece) = Len(value)

\* The command lines of activity a that the relogging pass has reached.
CommandLinesOf(a) ==
  {i \in 1 .. pos : trace[i].type = "simple" /\ trace[i].id = a /\ trace[i].what = "CommandLine"}

\* No piece of a string property is longer than a field may be.  The pieces of
\* what an invocation tells of its tool, and those of a command line that comes
\* once, are all there is of it.
PropertiesWhole ==
  /\ \A j \in DOMAIN injected :
       injected[j].event = "StringProperty" => Len(injected[j].data.value) <= SegmentLen
  /\ \A a \in Reached :
       LET info == trace[StartAt(a)].info IN
       /\ KindOf(a) \in InvocationKinds =>
            /\ PiecesOf(a, "Version") # {} /\ MakeUp(PiecesOf(a, "Version"), info.version)
            /\ /\ PiecesOf(a, "WorkingDirectory") # {}
               /\ MakeUp(PiecesOf(a, "WorkingDirectory"), info.directory)
       /\ \A i \in CommandLinesOf(a) :
            CommandLinesOf(a) = {i} /\ InvocationOf(a) # Null =>
              PiecesOf(a, "CommandLine") # {} /\ MakeUp(PiecesOf(a, "CommandLine"), trace[i].value)

\* A command reports success exactly when its session went through all passes.
FailureReported ==
  /\ phase = "done" <=> result = S_OK
  /\ phase = "failed" <=> result # Null /\ result < 0

\* Once the trace has an invocation of a compiler or linker, the session comes
\* to a point where all invocations of the trace are listed, or it fails.
InvocationsListed ==
  (\E a \in Activities : kind[a] \in InvocationKinds)
    ~> \/ phase = "failed"
       \/ \A i \in DOMAIN trace :
            trace[i].type = "start" /\ trace[i].kind \in InvocationKinds =>
              \E j \in DOMAIN injected :
                injected[j].id = trace[i].id /\ injected[j].event = "BuildExplorerActivity"

=============================================================================

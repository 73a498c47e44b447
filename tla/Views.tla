------------------------------- MODULE Views -------------------------------
(***************************************************************************)
(* BuildExplorerView, FunctionsView and FilesView: which events they       *)
(* inject into the relogged trace for an event of the original one.        *)
(*                                                                         *)
(* An operator stands for all that one view injects for one event, in      *)
(* order, in the state in which the views get the event.  The context      *)
(* (from ContextBuilder) is a parameter; the times are those of            *)
(* TimingCache.  Payloads are records; that PayloadBuilder copies their    *)
(* fields one after the other is left out.                                 *)
(***************************************************************************)
EXTENDS TimingCache, Sequences

CONSTANTS
  LongFunction,   \* 100 milliseconds
  SegmentLen      \* 1000 characters of a string property

ASSUME ViewAssumption == LongFunction \in Nat /\ SegmentLen \in Nat \ {0}

\* The environment variables BuildExplorerView shows (compared ignoring case).
SharedVariables ==
  {"PATH", "VSTEL_SolutionSessionID", "VSTEL_CurrentSolutionBuildID", "VSTEL_SolutionPath",
   "VSTEL_MSBuildProjectFullPath", "VSTEL_ProjectID"}
CompilerVariables == {"CL", "_CL_", "INCLUDE", "LIBPATH"} \cup SharedVariables
LinkerVariables == {"LINK", "_LINK_", "LIB", "TMP"} \cup SharedVariables

Injected(event, a, context, data) ==
  <<[event |-> event, id |-> a, context |-> context, data |-> data]>>

\* An activity of one of the kinds ks is in the event stack of a.
HasAncestor(a, ks) == \E x \in stack[a] : kind[x] \in ks

-----------------------------------------------------------------------------
(* BuildExplorerView. *)

\* The loop cuts off a full piece while more characters than that are left.
SegmentCount(value) ==
  CHOOSE n \in 1 .. Len(value) + 1 :
    /\ Len(value) <= n * SegmentLen
    /\ \A m \in 1 .. n - 1 : Len(value) > m * SegmentLen

\* Fault: the rest begins one character late.
SegmentsNotAdvanced(value) ==
  [i \in 1 .. SegmentCount(value) |->
     SubSeq(value, (i - 1) * (SegmentLen + 1) + 1,
                   IF i = SegmentCount(value) THEN Len(value) ELSE i * SegmentLen)]

\* The pieces ProcessStringProperty cuts a value into.
Segments(value) ==
  [i \in 1 .. SegmentCount(value) |->
     SubSeq(value, (i - 1) * SegmentLen + 1,
                   IF i = SegmentCount(value) THEN Len(value) ELSE i * SegmentLen)]

ProcessStringProperty(a, context, name, value) ==
  [i \in DOMAIN Segments(value) |->
     [event |-> "StringProperty", id |-> a, context |-> context,
      data |-> [name |-> name, value |-> Segments(value)[i]]]]

LogActivity(a, context, activityName) ==
  Injected("BuildExplorerActivity", a, context, [name |-> activityName, times |-> TimesOf(a)])

\* Older toolsets do not tell the path of the tool.
EmitInvocationEvents(a, context, info) ==
  LogActivity(a, context, kind[a])
    \o ProcessStringProperty(a, context, "Version", info.version)
    \o (IF info.toolPath = Null THEN <<>>
        ELSE ProcessStringProperty(a, context, "ToolPath", info.toolPath))
    \o ProcessStringProperty(a, context, "WorkingDirectory", info.directory)

ListedKinds == {"CompilerPass", "C2DLL", "Phase"}

IsListed(a) == kind[a] \in ListedKinds \/ (kind[a] = "Thread" /\ parent[a] # Null)

\* A thread is listed under the name of the activity it belongs to.
ActivityName(a) == IF kind[a] = "Thread" THEN kind[parent[a]] ELSE kind[a]

\* OnActivity, for an activity that starts.
BuildExplorerStart(a, context, info) ==
  IF kind[a] \in InvocationKinds THEN EmitInvocationEvents(a, context, info)
  ELSE IF IsListed(a) THEN LogActivity(a, context, ActivityName(a))
  ELSE <<>>

\* OnCompilerEnvironmentVariable is tried first, for any compiler in the stack.
ShowsVariable(a, name) ==
  IF HasAncestor(a, {"Compiler"})
    THEN name \in CompilerVariables
    ELSE HasAncestor(a, {"Linker"}) /\ name \in LinkerVariables

\* OnSimpleEvent, for event w below a with this name (of a variable) and value.
BuildExplorerSimple(a, w, name, value, context) ==
  IF \/ w = "CommandLine" /\ HasAncestor(a, InvocationKinds)
     \/ w = "EnvironmentVariable" /\ ShowsVariable(a, name)
    THEN ProcessStringProperty(a, context, name, value)
    ELSE <<>>

-----------------------------------------------------------------------------
(* FunctionsView. *)

\* Fault: a function of exactly 100 milliseconds is left out, too.
FunctionsStartStrict(a, context) ==
  IF TimesOf(a).Duration > LongFunction /\ kind[a] = "Function"
    THEN Injected("FunctionActivity", a, context, [times |-> TimesOf(a)])
    ELSE <<>>

\* OnActivity: short functions are left out.
FunctionsStart(a, context) ==
  IF TimesOf(a).Duration >= LongFunction /\ kind[a] = "Function"
    THEN Injected("FunctionActivity", a, context, [times |-> TimesOf(a)])
    ELSE <<>>

\* OnSimpleEvent: the function is the innermost one above the inlined call; the
\* duration is that of the activity right above it.
FunctionsSimple(a, w, context) ==
  IF TimesOf(a).Duration >= LongFunction /\ w = "ForceInlinee" /\ HasAncestor(a, {"Function"})
    THEN Injected("ForceInlinee", a, context,
                  [function |-> CHOOSE x \in Innermost(a, {"Function"}) : TRUE])
    ELSE <<>>

-----------------------------------------------------------------------------
(* FilesView. *)

\* Fault: all the files in the stack, whatever is between them.
FileGroupAll(a) == {x \in stack[a] : kind[x] = "FrontEndFile"}

FileGroup(a) == InnermostGroup(a, "FrontEndFile")

\* OnFileParse, for a file and the files that include it.
FilesStart(a, context) ==
  IF kind[a] = "FrontEndFile"
    THEN LET outer == FileGroup(a) \ {a} IN
         Injected("FileActivity", a, context,
           [times |-> TimesOf(a),
            depth |-> Cardinality(outer),
            parentFile |-> IF outer = {} THEN Null
                           ELSE CHOOSE x \in outer : outer \subseteq stack[x]])
    ELSE <<>>

=============================================================================

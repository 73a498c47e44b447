------------------------- MODULE MainComponentCache -------------------------
(***************************************************************************)
(* The part of ContextBuilder that works in the first analysis pass: it    *)
(* collects the main component of every compiler and linker invocation     *)
(* from the simple events about their inputs and outputs.  The relogging   *)
(* pass reads the result.                                                  *)
(*                                                                         *)
(* The events come in the order of the trace, and the order of inputs and  *)
(* outputs of different invocations is arbitrary.  seen remembers them, so *)
(* that the result can be compared with what was collected.                *)
(***************************************************************************)
EXTENDS ActivityTree, Sequences

CONSTANTS
  Paths,     \* paths of inputs and outputs
  NoPath     \* the empty path

ASSUME PathAssumption == NoPath \notin Paths

ImageOutputs == {"LibOutput", "ExecutableImageOutput"}
LinkerOutputs == ImageOutputs \cup {"ImpLibOutput"}
CompilerFiles == {"FileInput", "ObjOutput"}
ComponentEvents == LinkerOutputs \cup CompilerFiles

VARIABLES
  mainComponentCache_,   \* mainComponentCache_[a]: a's component, or Null
  seen                   \* history: seen[a][w], the paths that events w gave a

componentVars == <<mainComponentCache_, seen>>

Component == [Path : Paths \cup {NoPath}, IsInput : BOOLEAN]

ASSUME NoComponentAssumption == Null \notin Component

ComponentTypeOK ==
  /\ mainComponentCache_ \in [Activities -> Component \cup {Null}]
  /\ seen \in [Activities -> [ComponentEvents -> Seq(Paths)]]

ComponentInit ==
  /\ mainComponentCache_ = [a \in Activities |-> Null]
  /\ seen = [a \in Activities |-> [w \in ComponentEvents |-> <<>>]]

IsCached(a) == mainComponentCache_[a] # Null
HasInput(a) == IsCached(a) /\ mainComponentCache_[a].IsInput

-----------------------------------------------------------------------------
\* ProcessLinkerOutput for one linker: a new entry is not an input.
WithLinkerOutput(a, path, overwrite) ==
  IF IsCached(a)
    THEN IF overwrite THEN [mainComponentCache_[a] EXCEPT !.Path = path]
                      ELSE mainComponentCache_[a]
    ELSE [Path |-> path, IsInput |-> FALSE]

\* Fault: a second input replaces the first instead of clearing it.
WithCompilerInputLast(a, path) == [Path |-> path, IsInput |-> TRUE]

\* OnCompilerInput: an input takes the place of an output, a second input
\* leaves the invocation without a main component.
WithCompilerInput(a, path) ==
  [Path |-> IF HasInput(a) THEN NoPath ELSE path, IsInput |-> TRUE]

\* OnCompilerOutput: outputs count only as long as there is no input.
WithCompilerOutput(a, path) ==
  IF ~ IsCached(a) THEN [Path |-> path, IsInput |-> FALSE]
  ELSE IF HasInput(a) THEN mainComponentCache_[a]
  ELSE [mainComponentCache_[a] EXCEPT !.Path = NoPath]

\* The invocations an event w below activity a is about: all linkers of the
\* group, as a linker may respawn itself, or the innermost compiler.
Receivers(a, w) ==
  IF w \in LinkerOutputs THEN InnermostGroup(a, "Linker")
  ELSE IF w \in CompilerFiles THEN Innermost(a, {"Compiler"})
  ELSE {}

\* Fault: an import library takes the place of an image.
NewComponentOverwritten(x, w, path) ==
  CASE w \in LinkerOutputs  -> WithLinkerOutput(x, path, TRUE)
    [] w = "FileInput"      -> WithCompilerInput(x, path)
    [] w = "ObjOutput"      -> WithCompilerOutput(x, path)

\* The component of x once an event w with this path has been handled.
NewComponent(x, w, path) ==
  CASE w \in ImageOutputs   -> WithLinkerOutput(x, path, TRUE)
    [] w = "ImpLibOutput"   -> WithLinkerOutput(x, path, FALSE)
    [] w = "FileInput"      -> WithCompilerInput(x, path)
    [] w = "ObjOutput"      -> WithCompilerOutput(x, path)

\* OnSimpleEvent while MustCacheMainComponents(), for an event below a.
CacheMainComponent(a, w, path) ==
  LET rs == Receivers(a, w) IN
  /\ mainComponentCache_' =
       [x \in Activities |-> IF x \in rs THEN NewComponent(x, w, path)
                                         ELSE mainComponentCache_[x]]
  /\ seen' = [x \in Activities |-> IF x \in rs
                                     THEN [seen[x] EXCEPT ![w] = Append(@, path)]
                                     ELSE seen[x]]

\* The path the relogging pass finds for an invocation, NoPath if it has none.
MainPath(a) == IF IsCached(a) THEN mainComponentCache_[a].Path ELSE NoPath

-----------------------------------------------------------------------------
(* Properties. *)

\* The path of a sequence of one, and of no other.
OnlyPath(paths) == IF Len(paths) = 1 THEN paths[1] ELSE NoPath

\* The main component of a compiler is its only input, or its only output when
\* it has no input, and nothing when there are several, in whatever order the
\* inputs and outputs came.
CompilerComponents ==
  \A a \in Activities :
    seen[a]["FileInput"] # <<>> \/ seen[a]["ObjOutput"] # <<>> =>
      MainPath(a) = IF seen[a]["FileInput"] # <<>> THEN OnlyPath(seen[a]["FileInput"])
                                                   ELSE OnlyPath(seen[a]["ObjOutput"])

Images(a) == seen[a]["LibOutput"] \o seen[a]["ExecutableImageOutput"]

\* A linker that wrote a library or an image, itself or by a linker it spawned,
\* has one of those as its main component, however many import libraries came
\* before or after; otherwise it has the first import library.
LinkerComponents ==
  \A a \in Activities :
    /\ Images(a) # <<>> => MainPath(a) \in {Images(a)[i] : i \in DOMAIN Images(a)}
    /\ Images(a) = <<>> /\ seen[a]["ImpLibOutput"] # <<>> =>
         MainPath(a) = seen[a]["ImpLibOutput"][1]

\* An invocation without inputs and outputs has no entry, and none has entries
\* of both sorts of tools.
ComponentKinds ==
  \A a \in Activities :
    /\ IsCached(a) <=> \E w \in ComponentEvents : seen[a][w] # <<>>
    /\ (\E w \in LinkerOutputs : seen[a][w] # <<>>) =>
         \A w \in CompilerFiles : seen[a][w] = <<>>
    /\ IsCached(a) => (HasInput(a) <=> seen[a]["FileInput"] # <<>>)

=============================================================================

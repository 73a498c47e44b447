--------------------------- MODULE MCRelogSession ---------------------------
(* An instance of RelogSession for TLC. *)
EXTENDS RelogSession

SessionRoots == {"Compiler", "Linker", "CompilerPass", "FrontEndFile", "Thread"}

\* A compiler with passes and with a linker it spawns, linkers that respawn
\* themselves, files with files inside, functions, threads of phases.
SessionNesting ==
  [k \in Kinds |->
     CASE k = "Compiler"     -> {"CompilerPass", "Linker"}
       [] k = "Linker"       -> {"Linker", "Phase"}
       [] k = "CompilerPass" -> {"FrontEndFile", "Function"}
       [] k = "FrontEndFile" -> {"FrontEndFile", "Activity"}
       [] k = "Activity"     -> {"FrontEndFile"}
       [] k = "Phase"        -> {"Thread"}
       [] OTHER              -> {}]

SessionEvents ==
  [k \in Kinds |->
     CASE k = "Compiler" -> {"FileInput", "ObjOutput", "CommandLine"}
       [] k = "Linker"   -> {"ExecutableImageOutput", "ImpLibOutput", "EnvironmentVariable"}
       [] k = "Function" -> {"ForceInlinee"}
       [] OTHER          -> {}]

SessionValues == {<<1, 2, 3>>}
SessionToolsets ==
  {[version |-> <<1, 2, 3, 4>>, toolPath |-> Null, directory |-> <<1, 2>>]}

SessionIds == 1 .. 3
SessionPaths == 1 .. MaxEvents

=============================================================================

-------------------------- MODULE MCContextBuilder --------------------------
(* Instances of ContextBuilder for TLC. *)
EXTENDS ContextBuilder, TLC

ASSUME CapacityAssumption == Capacity

\* Compilation: passes below compilers, linkers spawned by compilers and by
\* linkers, and a pass without its compiler as a root.
CompilationRoots == {"Compiler", "CompilerPass", "Activity"}
CompilationNesting ==
  [k \in Kinds |->
     CASE k = "Compiler" -> {"CompilerPass", "Linker", "Activity"}
       [] k = "Linker"   -> {"Linker", "Activity"}
       [] OTHER          -> {"Activity"}]

\* Code generation: threads with and without an owner between them and the
\* C2DLL activity, threads of threads, and a thread as a root.
CodeGenerationRoots == {"C2DLL", "Thread"}
CodeGenerationNesting ==
  [k \in Kinds |->
     CASE k \in {"C2DLL", "Activity"} -> {"Thread", "Activity"}
       [] k = "Thread"                -> {"Activity"}
       [] OTHER                       -> {}]

\* Of that, what one parallel code generation with nested activities needs.
ParallelRoots == {"C2DLL"}
ParallelNesting ==
  [k \in Kinds |->
     CASE k = "C2DLL" -> {"Activity"}
       [] k = "Activity" -> {"Thread", "Activity"}
       [] OTHER       -> {}]

IdSymmetry == Permutations(Activities)

=============================================================================

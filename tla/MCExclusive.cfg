CONSTANTS
  Activities = {a1, a2, a3, a4, a5}
  Null = Null
  RootKinds <- ParallelRoots
  ChildKinds <- ParallelNesting
  UShortLimit = 5
  MainComponents = {}
  JoinBeforeNesting = TRUE
SPECIFICATION Spec
SYMMETRY IdSymmetry
INVARIANTS
  TimelinesExclusive
  IInv

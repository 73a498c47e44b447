CONSTANTS
  Activities = {a1, a2, a3, a4}
  Null = Null
  RootKinds <- CompilationRoots
  ChildKinds <- CompilationNesting
  UShortLimit = 4
  MainComponents = {a1, a2, a3, a4}
  JoinBeforeNesting = FALSE
SPECIFICATION Spec
SYMMETRY IdSymmetry
INVARIANTS
  NearestContext
  Attribution
  NothingLeftBehind
  CurrentContextAlive
PROPERTIES
  ContextsStable

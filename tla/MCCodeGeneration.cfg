CONSTANTS
  Activities = {a1, a2, a3, a4}
  Null = Null
  RootKinds <- CodeGenerationRoots
  ChildKinds <- CodeGenerationNesting
  UShortLimit = 4
  MainComponents = {}
  JoinBeforeNesting = FALSE
SPECIFICATION Spec
SYMMETRY IdSymmetry
INVARIANTS
  TypeOK
  ReuseCountsChildren
  TimelineConservation
PROPERTIES
  RowsSpec

CONSTANTS
  Activities = {a1, a2, a3, a4}
  Null = Null
  RootKinds <- FilterRoots
  ChildKinds <- FilterNesting
  SymbolKeys = {k1}
  AnalyzeTemplates = TRUE
  IgnoreTemplateInstantiationUnderMs = 1
  IgnoreFunctionUnderMs = 1
  NsPerMs = 2
  NsPerUs = 1
  MaxClock = 2
SPECIFICATION Spec
CONSTRAINT IdsInOrder
CHECK_DEADLOCK FALSE
INVARIANTS
  TypeOK
  PointersValid
  ActiveKept
  IntervalsNest
  NamesResolved
  EverythingExported
  ProcessesPacked
PROPERTIES
  GroupsKeptWhole

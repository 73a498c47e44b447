CONSTANTS
  Activities = {a1, a2, a3, a4, a5}
  Null = Null
  RootKinds <- LayoutRoots
  ChildKinds <- LayoutNesting
  SymbolKeys = {}
  AnalyzeTemplates = FALSE
  IgnoreTemplateInstantiationUnderMs = 0
  IgnoreFunctionUnderMs = 0
  NsPerMs = 1
  NsPerUs = 2
  MaxClock = 3
SPECIFICATION Spec
CONSTRAINT OneProcess
CHECK_DEADLOCK FALSE
INVARIANTS
  SlicesNest
  RequiredRowsExact

CONSTANTS
  Activities = {a1, a2, a3, a4, a5, a6, a7, a8}
  Null = Null
  RootKinds <- LayoutRoots
  ChildKinds <- LayoutNesting
  SymbolKeys = {}
  AnalyzeTemplates = FALSE
  IgnoreTemplateInstantiationUnderMs = 0
  IgnoreFunctionUnderMs = 0
  NsPerMs = 1
  NsPerUs = 1
  MaxClock = 1
SPECIFICATION Spec
CONSTRAINT AllAtOnce
CHECK_DEADLOCK FALSE
INVARIANTS
  SlicesNest

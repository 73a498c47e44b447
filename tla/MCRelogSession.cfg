CONSTANTS
  MaxEvents = 4
  Activities <- SessionIds
  Null = Null
  RootKinds <- SessionRoots
  ChildKinds <- SessionNesting
  EventKinds <- SessionEvents
  Paths <- SessionPaths
  NoPath = NoPath
  Durations = {1, 2}
  LongFunction = 2
  SegmentLen = 2
  UShortLimit = 4
  Toolsets <- SessionToolsets
  EnvNames = {"PATH", "LINK"}
  Values <- SessionValues
  ResultCodes = {5, 65536}
SPECIFICATION Spec
CHECK_DEADLOCK FALSE
INVARIANTS
  CompilerComponents
  LinkerComponents
  ExclusiveTimes
  EventsAttributed
  EverythingShown
  TimesShown
  FilesPlaced
  PropertiesWhole
  FailureReported
PROPERTY
  InvocationsListed

CONSTANTS
  MaxEvents = 6
  p1 = p1
  p2 = p2
  s1 = s1
  s2 = s2
  PrimaryKeys = {p1, p2}
  SpecializationKeys = {s1, s2}
  PrimaryOf <- OneEach
  Names = {n1, n2}
  Null = Null
  UIntLimit = 4
  NsPerUs = 2
  MaxCutoff = 2
  CutoffShare = 2
  Durations = {3, 5}
  TraceDurations = {2, 20}
SPECIFICATION Spec
SYMMETRY NameSymmetry
CHECK_DEADLOCK FALSE
INVARIANT
  LongestShown

CONSTANTS
  MaxLongLong = 127
  NsPerSecond = 10
  MaxFrequency = 12
  MaxTicks = 127
SPECIFICATION Spec
INVARIANTS
  TimestampExact
  TimestampsOrdered

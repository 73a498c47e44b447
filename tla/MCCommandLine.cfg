CONSTANTS
  Commands = {"/start", "/stop", "/analyze", "/stopnoanalyze", "/grantusercontrol", "/other"}
  Options <- AllOptions
  EtlFiles = {"a.etl", "gone.etl"}
  JsonFiles = {"a.json"}
  Missing = {"gone.etl"}
  Names = {"name"}
  MaxArgs = 4
SPECIFICATION Spec
CHECK_DEADLOCK FALSE
INVARIANTS
  UsageRespected
  StartUsageRespected
  EventsCollected

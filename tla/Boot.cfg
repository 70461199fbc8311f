CONSTANTS
  v1 = v1
  Versions <- MCVersions
  BbSlots = 6
  MaxBoots = 3
  MaxReports = 2
  DrainCount = 1
  MaxClears = 1
SPECIFICATION Spec
INVARIANTS
  ValidMetaIsGenuine
  BlackBoxTellsOutcome
  NewestReportsKept
  MachinesTellLatest
  OneReportPerBoot
PROPERTY CachedMetaBoots
CHECK_DEADLOCK FALSE

SPECIFICATION Spec
CONSTANTS
  laptop = laptop
  server = server
  Runners <- TwoRunners
  Releases <- OldOrNew
  MaxLaunches = 4
  MaxFaults = 2
CHECK_DEADLOCK FALSE
INVARIANTS MigrationsTypeOK SchemaIsRecorded NeverTooEarly DoneMeansUpToDate
PROPERTIES RunsEnd

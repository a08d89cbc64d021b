CONSTANTS
  Target = {"gofuzz"}
  Supervisor = {"first", "second"}
  TargetOf <- GoTarget
  Roles = {"fuzzer"}
  AFL = {}
  Failing = {"exit", "inspect", "remove"}
  Template <- MCTemplate
  Environment <- MCEnvironment
  HostPort = {8090, 8091}
  Uptime = {}
  Crashes = TRUE
  BackupTicks = FALSE
SPECIFICATION FairSpec
INVARIANTS ContainersAttended OrphansRemoved
PROPERTIES StopEndsFuzzing SupervisedIsFuzzed OnlyOthersRemove
CHECK_DEADLOCK FALSE

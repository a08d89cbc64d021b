CONSTANTS
  Target = {"gofuzz"}
  Supervisor = {"first", "second"}
  TargetOf <- GoTarget
  Roles = {"fuzzer", "stats"}
  AFL = {}
  Failing = {"build", "exit", "create"}
  Template <- MCTemplate
  Environment <- MCEnvironment
  HostPort = {8090, 8091}
  Uptime = {0, 59, 60, 3599, 3600, 7261}
  Crashes = TRUE
  BackupTicks = FALSE
SPECIFICATION Spec
INVARIANTS StoppedForGood PortsDistinct StatsOfOwnFuzzer RateOverUptime TemplatesFitDaemon
CHECK_DEADLOCK FALSE

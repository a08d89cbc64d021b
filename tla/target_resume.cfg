CONSTANTS
  Target = {"afl"}
  Supervisor = {"first"}
  TargetOf <- AflTarget
  Roles = {"fuzzer", "backup"}
  AFL = {"first"}
  Failing = {"exit"}
  Template <- MCTemplate
  Environment <- MCEnvironment
  HostPort = {}
  Uptime = {}
  Crashes = FALSE
  BackupTicks = TRUE
SPECIFICATION Spec
INVARIANT ResumeHasSession
CHECK_DEADLOCK FALSE

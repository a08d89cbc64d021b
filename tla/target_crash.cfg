CONSTANTS
  Target = {"afl"}
  Supervisor = {"first"}
  TargetOf <- AflTarget
  Roles = {"fuzzer", "crash"}
  AFL = {"first"}
  Failing = {"exit"}
  Template <- MCTemplate
  Environment <- MCEnvironment
  HostPort = {}
  Uptime = {}
  Crashes = FALSE
  BackupTicks = FALSE
SPECIFICATION Spec
INVARIANT CrashesWatched
CHECK_DEADLOCK FALSE

CONSTANTS
  Target = {"afl", "vulnerable"}
  Supervisor = {"first", "second"}
  TargetOf <- TwoTargets
  Roles = {"fuzzer"}
  AFL = {"first", "second"}
  Failing = {}
  Template <- MCTemplate
  Environment <- MCEnvironment
  HostPort = {}
  Uptime = {}
  Crashes = FALSE
  BackupTicks = FALSE
SPECIFICATION Spec
INVARIANT OwnContext
CHECK_DEADLOCK FALSE

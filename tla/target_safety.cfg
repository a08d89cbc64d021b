CONSTANTS
  Target = {"afl"}
  Supervisor = {"first"}
  TargetOf <- AflTarget
  Roles = {"fuzzer", "backup", "crash", "stats"}
  AFL = {"first"}
  Failing = {"exit", "inspect", "write"}
  Template <- MCTemplate
  Environment <- MCEnvironment
  HostPort = {}
  Uptime = {}
  Crashes = FALSE
  BackupTicks = TRUE
SPECIFICATION Spec
INVARIANTS TypeOK TemplatesFitDaemon FuzzerKeepsDirectories NoBackupInside
CHECK_DEADLOCK FALSE

CONSTANTS
  Target = {"afl", "gofuzz", "rubyfuzz"}
  Handler = {h1, h2}
  Language <- MCLanguage
  fuzzStrategy = "robin"
  Requests = {"register", "unregister", "read"}
  MaxTime = 3
SPECIFICATION Spec
SYMMETRY Requesters
INVARIANTS TypeOK TimerMatchesTargets RunningTargetRegistered LongestWaitingFirst NoSecondTurn OneSupervisor
CHECK_DEADLOCK FALSE

CONSTANTS
  Target = {"afl", "gofuzz"}
  Handler = {h1, h2}
  Language <- MCLanguage
  fuzzStrategy = "robin"
  Requests = {"register", "unregister"}
  MaxTime = 2
SPECIFICATION Spec
PROPERTY StopIsForCurrent
CHECK_DEADLOCK FALSE

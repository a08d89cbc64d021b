CONSTANTS
  Target = {"afl", "gofuzz", "rubyfuzz"}
  Handler = {h1}
  Language <- MCLanguage
  fuzzStrategy = "robin"
  Requests = {"register"}
  MaxTime = 3
SPECIFICATION FairSpec
PROPERTIES EveryTargetGetsATurn
CHECK_DEADLOCK FALSE

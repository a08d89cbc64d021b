CONSTANTS
  Target = {"afl", "gofuzz", "rubyfuzz"}
  Handler = {h1, h2}
  Language <- MCLanguage
  fuzzStrategy = "parallel"
  Requests = {"register", "unregister", "read"}
SPECIFICATION FairSpec
INVARIANTS TypeOK FuzzersMatchTargets StopOnlyUnregistered StatsCoverTargets
PROPERTIES ImplementsCampaign EveryRequestAnswered RegisteredIsFuzzed

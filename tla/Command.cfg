SPECIFICATION Spec
CONSTANTS
  Modules = {"app", "engine"}
  Versions = {1, 2, 3}
  MaxSwitches = 2
  Paths <- MCPaths
  OutputLimit = 3
  MaxChunks = 3
  MaxMeddling = 3
INVARIANT LaunchIsWhole
INVARIANT CaptureIsWhole
INVARIANT NoRunawayChild
INVARIANT LookupsAgree
INVARIANT SaveTruthful
INVARIANT ReadIsSettled
INVARIANT ExitTells
INVARIANT LastWordTruthful
PROPERTY NoClobber
PROPERTY Ends
CHECK_DEADLOCK FALSE

SPECIFICATION Spec
CONSTANTS
    MaxIterations = 2
    ContextLimit = 2
    KeepRecent = 2
    Sizes = {1}
    MaxTools = 1
    FaultsOn = TRUE
INVARIANT ReturnsCoroResult
CHECK_DEADLOCK FALSE

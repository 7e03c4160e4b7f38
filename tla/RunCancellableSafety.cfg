SPECIFICATION StuckTaskSpec
CONSTANTS
    MaxIterations = 4
    ContextLimit = 5
    KeepRecent = 2
    Sizes = {1, 3}
    MaxTools = 1
    FaultsOn = TRUE
INVARIANTS TypeOK RequestWellFormed RequestIsRecent TranscriptComplete OutcomeIsAgents
PROPERTIES EndedTaskIsReported RequestStopsRun AgentAlwaysEnds
CHECK_DEADLOCK FALSE

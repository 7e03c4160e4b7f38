SPECIFICATION FairSpec
CONSTANTS
    Clients = {c1}
    Requests = {k1}
    Transcript <- ToolTranscript
    StopsOn = TRUE
INVARIANTS TypeOK LiveInOrder ClosedByOutcome NothingElseLost
PROPERTY InTimeStreamEnds
CHECK_DEADLOCK FALSE

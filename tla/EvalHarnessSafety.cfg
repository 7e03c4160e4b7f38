SPECIFICATION FairSuiteSpec
CONSTANTS
    Clients = {h}
    Requests = {k1}
    Harness = h
    Transcript <- CallTranscript
    StopsOn = TRUE
    NumCases = 2
INVARIANTS NoFalsePass FailedByStreamOnly ExitHonest
PROPERTY EvaluationEnds
CHECK_DEADLOCK FALSE

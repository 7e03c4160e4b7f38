SPECIFICATION FairResendSpec
CONSTANTS
    Runs = {r1}
    Workers = {w1, w2}
    Requests = {c1}
    FaultsOn = TRUE
    NoRun = NoRun
    NoRow = NoRow
INVARIANT HarmOnlyByRace
PROPERTY ResentRunEnds
CHECK_DEADLOCK FALSE

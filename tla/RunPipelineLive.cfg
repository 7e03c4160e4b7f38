SPECIFICATION FairSpec
CONSTANTS
    Runs = {r1, r2}
    Workers = {w1, w2}
    Requests = {c1}
    FaultsOn = FALSE
    NoRun = NoRun
    NoRow = NoRow
PROPERTIES EveryRunEnds EveryOutcomeAnnounced ImplementsLedger
CHECK_DEADLOCK FALSE

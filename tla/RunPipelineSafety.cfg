SPECIFICATION Spec
CONSTANTS
    Runs = {r1, r2}
    Workers = {w1, w2}
    Requests = {c1, c2}
    FaultsOn = TRUE
    NoRun = NoRun
    NoRow = NoRow
SYMMETRY Symmetry
INVARIANTS TypeOK AtMostOnce Custody OutcomeConsistent EventsMatchRow
CHECK_DEADLOCK FALSE

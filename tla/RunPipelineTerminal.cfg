SPECIFICATION Spec
CONSTANTS
    Runs = {r1}
    Workers = {w1}
    Requests = {c1}
    FaultsOn = FALSE
    NoRun = NoRun
    NoRow = NoRow
PROPERTY TerminalStands
CHECK_DEADLOCK FALSE

SPECIFICATION FairSpec
CONSTANTS
    Runs = {r1, r2}
    Requests = {q1}
    NoRun = NoRun
INVARIANTS TypeOK ShowsOneRun LetGoOnlyByFailure ControlsMatch EndIsShown
PROPERTY ComesBack
CHECK_DEADLOCK FALSE

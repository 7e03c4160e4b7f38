SPECIFICATION FairSpec
CONSTANTS
    Clients = {c1}
    Requests = {k1}
    Transcript <- ShortTranscript
    StopsOn = FALSE
PROPERTY OpenStreamCloses
CHECK_DEADLOCK FALSE

SPECIFICATION FairSpec
CONSTANTS
    Requests = {q1, q2, q3}
    Pager = pager
    PoolSize = 2
    Limit = 1
INVARIANTS HeldForPostgresOnly PagingSkipsNothing
PROPERTY EveryRequestAnswered
CHECK_DEADLOCK FALSE

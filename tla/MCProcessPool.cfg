SPECIFICATION FairSpec
CONSTANTS
    Conns = {c1, c2, c3}
    NoConn = NoConn
    Limit = 2
    QuietLimit = 1
    Depth = 2
    CounterSize = 4
INVARIANT CountersAccount
PROPERTY LimitsHold
PROPERTY KeepsPromise
PROPERTY EveryClientResolved
PROPERTY EveryZombieCollected
CHECK_DEADLOCK FALSE

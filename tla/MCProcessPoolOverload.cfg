SPECIFICATION UnattendedSpec
CONSTANTS
    Conns = {c1, c2, c3}
    NoConn = NoConn
    Limit = 2
    QuietLimit = 2
    Depth = 2
    CounterSize = 3
INVARIANT OverloadOnlyDropsTheConnection
CHECK_DEADLOCK FALSE

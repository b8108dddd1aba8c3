CONSTANTS
    Scripts <- MCScripts
    Books <- MCBooks
    Queries = {"w"}
    Words = {"w", "x"}
    Articles = {"a", "b"}
    Entries <- MCEntries
    WordSeqs <- MCWordSeqs
    AccountLevel = 1
    FaultSets <- MCFaultSets
SPECIFICATION Spec
INVARIANT InStep
INVARIANT ShownIsSent
INVARIANT NeverAsGuest
PROPERTY ClientEnds
CHECK_DEADLOCK FALSE

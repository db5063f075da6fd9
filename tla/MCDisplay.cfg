SPECIFICATION FairSpec
CONSTANTS
    Threads = {t1, t2}
    Config <- MCConfig
    Calls <- MCCalls
    NULL = NULL
INVARIANTS
    OutputIsWhole
    BufferHolds
PROPERTY DisplayReturns

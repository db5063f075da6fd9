SPECIFICATION FairSpec
CONSTANTS
    m1 = m1
    m2 = m2
    g1 = g1
    c1 = c1
    c2 = c2
    ThreadMsgs <- MCThreadMsgs
    HandlerMsgs <- MCHandlerMsgs
    Cmds <- MCCmds
    None = None
    Noise = Noise
    SemMax = 2
    HostMayStall = FALSE
INVARIANTS
    SentOnce
    NoCommandLost
    NoStalePost
PROPERTIES
    ImplementsBus
    HostIsServed
    HostIsReleased
    SendIsDone

SPECIFICATION Spec
CONSTANTS
    m1 = m1
    m2 = m2
    g1 = g1
    c1 = c1
    c2 = c2
    ThreadMsgs <- MCThreadMsgs
    HandlerMsgs <- MCHandlerMsgs
    Cmds <- TwoCmds
    None = None
    Noise = Noise
    SemMax = 2
    HostMayStall = TRUE
INVARIANTS
    SpiInv
    NeverSpins
    TxMsgIsHead
    DoneImpliesSent
    HandlerGetsReceived

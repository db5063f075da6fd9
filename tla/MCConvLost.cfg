SPECIFICATION FairSpec
CONSTANTS
    gin = gin
    gout = gout
    x = x
    y = y
    NumBuses = 2
    Inputs = {}
    Outputs = {}
    High = {}
    WakeMax = 2
    MAX_I2C_MSG_SIZE = 2
    Reqs <- FewReqs
    Others = {}
    Shared = {}
    None = None
    Stuck = Stuck
    Noise = Noise
    Lossy = TRUE
    MayRefuse = TRUE
PROPERTIES
    AlwaysAnswered

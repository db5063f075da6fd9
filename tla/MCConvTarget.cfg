SPECIFICATION Spec
CONSTANTS
    gin = gin
    gout = gout
    x = x
    y = y
    NumBuses = 2
    Inputs <- MCInputs
    Outputs <- MCOutputs
    High <- MCOutputs
    WakeMax = 2
    MAX_I2C_MSG_SIZE = 2
    Reqs <- MaxReqs
    Others = {"adc"}
    Shared = {}
    None = None
    Stuck = Stuck
    Noise = Noise
    Lossy = FALSE
    MayRefuse = FALSE
INVARIANT ResultNamesTarget

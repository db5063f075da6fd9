SPECIFICATION FairSpec
CONSTANTS
    gin = gin
    gout = gout
    x = x
    y = y
    NumBuses = 2
    Inputs <- MCInputs
    Outputs <- MCOutputs
    High <- MCOutputs
    WakeMax = 2
    MAX_I2C_MSG_SIZE = 2
    Reqs <- MCReqs
    Others = {"adc"}
    Shared = {0}
    None = None
    Stuck = Stuck
    Noise = Noise
    Lossy = TRUE
    MayRefuse = TRUE
INVARIANTS
    TypeOK
    SlotInOneHand
    WakeNotLost
    ResponseAnswersRequest
    ValueInOneHand
PROPERTY TakenIsAnswered

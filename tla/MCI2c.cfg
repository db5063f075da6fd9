SPECIFICATION I2cFairSpec
CONSTANTS
    s1 = s1
    adc = adc
    con = con
    Trans <- MCTrans
    Buses <- MCBuses
    BusesOf <- MCBusesOf
    None = None
    Stuck = Stuck
    Statuses = {"ok", "nack"}
    MayRefuse = TRUE
INVARIANTS
    OneTransactionPerBus
    NeverGivenTwice
    StatusNotStale
PROPERTIES
    ImplementsI2cBus
    CallReturns

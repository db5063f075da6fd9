SPECIFICATION I2cSpec
CONSTANTS
    s1 = s1
    adc = adc
    con = con
    Trans <- MCTrans
    Buses <- MCBuses
    BusesOf <- MCBusesOf
    None = None
    Stuck = Stuck
    Statuses = {"ok", "nack"}
    MayRefuse = TRUE
INVARIANT InUseHasUser

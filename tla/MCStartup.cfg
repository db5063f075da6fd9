SPECIFICATION Spec
CONSTANTS
    rsp0 = rsp0
    rsp1 = rsp1
    val = val
    AdcMsg = adc
    ConMsg = con
    List = tx_queue
    NULL = NULL
    Links = {rsp0, rsp1, val, adc, con}
    Values = {val}
    Slots <- MCSlots
CHECK_DEADLOCK FALSE
INVARIANTS ReadyBeforeUse QueueIsRing
PROPERTY DListSpec

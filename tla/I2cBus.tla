------------------------------- MODULE I2cBus -------------------------------
(***************************************************************************)
(* What src/i2c.c promises its callers: each bus has one transaction at a  *)
(* time, which is the owner's until the bus is done with it; whoever finds *)
(* the bus owned is told so.  Module I2c implements this one.              *)
(***************************************************************************)
CONSTANTS
    Buses,         \* 0 .. CONFIG_I2C_COUNT - 1
    Trans,         \* the struct i2c_transaction of each caller
    Free,          \* no transaction
    Stuck,         \* left in use with no transaction
    MayRefuse      \* may the driver refuse a transaction?

VARIABLE owner     \* owner[b]: the transaction bus b is in use for

I2cInit == owner = [b \in Buses |-> Free]

Own(t, b) ==
    /\ owner[b] = Free
    /\ owner' = [owner EXCEPT ![b] = t]

Finish(b) ==
    /\ owner[b] \in Trans
    /\ owner' = [owner EXCEPT ![b] = Free]

(* The driver refuses what it was given and the bus stays in use.          *)
Wedge(b) ==
    /\ MayRefuse
    /\ owner[b] \in Trans
    /\ owner' = [owner EXCEPT ![b] = Stuck]

I2cNext == \E b \in Buses : (\E t \in Trans : Own(t, b)) \/ Finish(b) \/ Wedge(b)

I2cSpec == I2cInit /\ [][I2cNext]_owner
=============================================================================

------------------------------- MODULE MCI2c -------------------------------
(* i2c.c for TLC: the transaction of a slot and that of adcThread, both on *)
(* bus 1, and that of the console on either bus.                           *)
EXTENDS I2c, TLC

CONSTANTS s1, adc, con

MCTrans == {s1, adc, con}
MCBuses == {0, 1}
MCBusesOf == [t \in MCTrans |-> IF t = con THEN {0, 1} ELSE {1}]
=============================================================================

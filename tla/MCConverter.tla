---------------------------- MODULE MCConverter ----------------------------
(* The converter for TLC: two buses and two GPIOs; the limit on the size   *)
(* of a transfer scaled from 27 to 2.                                      *)
EXTENDS ConverterProps, TLC

CONSTANTS gin, gout, x, y

I2cReq(b, a, tx, rx) == [op |-> "i2c", bus |-> b, addr |-> a, tx |-> tx, rx |-> rx]
Get(g) == [op |-> "get", gpio |-> g]
Set(g, v) == [op |-> "set", gpio |-> g, val |-> v]

MCInputs == {gin}
MCOutputs == {gout}

(* A request for bus 0, one for bus 1 that is too long, and a GPIO to read *)
(* and to write.                                                           *)
MCReqs == {I2cReq(0, x, 1, 1), I2cReq(1, y, 0, 3), Get(gout), Set(gout, 1)}

(* One of each bus, and one of them too long.                              *)
FewReqs == {I2cReq(0, x, 1, 1), I2cReq(1, x, 1, 3)}

(* A size the README allows, and the code does not.                        *)
MaxReqs == {I2cReq(0, x, 1, 1), I2cReq(0, y, 2, 1)}
=============================================================================

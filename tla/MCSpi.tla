------------------------------- MODULE MCSpi -------------------------------
(* The SPI port for TLC: the model values of the configurations.           *)
EXTENDS SpiProps, TLC

CONSTANTS m1, m2, g1, c1, c2

MCThreadMsgs == {m1, m2}
MCHandlerMsgs == {g1}
MCCmds == {c1}
TwoCmds == {c1, c2}
=============================================================================

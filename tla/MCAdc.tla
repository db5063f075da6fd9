------------------------------- MODULE MCAdc -------------------------------
(* The ADC thread for TLC: a chip with two channels.                       *)
EXTENDS Adc, TLC
=============================================================================

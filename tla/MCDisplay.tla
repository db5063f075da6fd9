----------------------------- MODULE MCDisplay -----------------------------
(* Two displays on one UART for TLC, a terminal that is tried first and a  *)
(* plain UART, with the smallest buffer for the one and one that the       *)
(* longest text does not fit for the other.  The lines to clear do not fit *)
(* at once, wherever they are; the text at line 98 fits to the byte.       *)
EXTENDS Display

MCConfig ==
    0 :> [driver |-> "ansi", uartIdx |-> 0, strBufLen |-> 23, gives_up |-> TRUE]
    @@ 1 :> [driver |-> "min", uartIdx |-> 0, strBufLen |-> 6, gives_up |-> FALSE]

Text(l, c, t) == [op |-> "printf", line |-> l, column |-> c, text |-> t]
Open(id, m) == [op |-> "open", id |-> id, mode |-> m]
ClearLines(f, t) == [op |-> "clearLines", from |-> f, to |-> t]

MCCalls == {
    Open([type |-> "UART"], "both"), Open([index |-> 1], "none"), Open([index |-> 0], "none"),
    Text(SCROLLING, 0, <<"a", "\n", "b", "\n">>), Text(98, 9, <<"c">>),
    ClearLines(99, 102), ClearLines(255, 0),
    [op |-> "clear"], [op |-> "control"], [op |-> "close"] }
=============================================================================

----------------------------- MODULE MCConsole -----------------------------
(* The console for TLC: a line of eleven characters, and lines each of     *)
(* whose beginnings is a command that goes right or fails at some test.    *)
EXTENDS Console

MCPins == [e |-> [input |-> FALSE, nlogic |-> FALSE],
           a |-> [input |-> FALSE, nlogic |-> TRUE],
           p |-> [input |-> TRUE,  nlogic |-> FALSE]]

MCLines == {
    <<"i", " ", "0", " ", "1", " ", "1", " ", "1", " ", "1", "1">>,
    <<"i", " ", "9", " ", "1", " ", "1">>,
    <<" ", "s", " ", "1", " ", "1", " ", "x">>,
    <<"s", " ", "-", "7", " ", "9">>,
    <<"t", " ", "2", "-">>,
    <<"g", " ", "a", " ", "1">> }
=============================================================================

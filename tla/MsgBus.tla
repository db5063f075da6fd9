------------------------------- MODULE MsgBus -------------------------------
(***************************************************************************)
(* What the SPI port promises to the code above it, as src/README.md       *)
(* (section SPI) and the callbacks of src/spi.h state it: a bus on which   *)
(* every run of the host's clock exchanges at most one message each way.   *)
(*                                                                         *)
(*   - messages to the host leave in the order of spi_send;                *)
(*   - done() is called once for each message, after the run that carried  *)
(*     it and after the handler has seen what that run brought;            *)
(*   - the handler is called at most once for each command of the host.    *)
(*                                                                         *)
(* A lossy bus may also drop what a run brought, and send again what it    *)
(* carried: that is what remains when the host can be slower than the      *)
(* timeout of spiThread.  Module Spi implements this one.                  *)
(***************************************************************************)
EXTENDS Naturals, Sequences

CONSTANTS
    Msgs,    \* messages to the host
    Cmds,    \* commands of the host
    None,    \* no message, no command
    Noise,   \* not a command: two runs mixed
    Lossy    \* may a run be lost?

VARIABLES
    queue,   \* messages given to spi_send and not yet done(), oldest first
    phase,   \* what the bus has yet to do about the last run of the clock
    cmd,     \* what that run brought
    cur      \* the message that run carried, or None

busVars == <<queue, phase, cmd, cur>>

InQueue(m) == \E i \in DOMAIN queue : queue[i] = m

BusInit == queue = <<>> /\ phase = "idle" /\ cmd = None /\ cur = None

Send(m) ==
    /\ ~InQueue(m)
    /\ queue' = Append(queue, m)
    /\ UNCHANGED <<phase, cmd, cur>>

(* The head of the queue goes out if it was there when the port was armed. *)
Exchange(c) ==
    /\ phase = "idle" /\ phase' = "received"
    /\ c = Noise => Lossy
    /\ cmd' = c
    /\ cur' = None \/ (queue # <<>> /\ cur' = Head(queue))
    /\ UNCHANGED queue

(* The handler itself may call spi_send: see Send.                         *)
Handled ==
    /\ phase = "received"
    /\ phase' = IF cur = None THEN "idle" ELSE "sent"
    /\ cmd' = None
    /\ UNCHANGED <<queue, cur>>

Done ==
    /\ phase = "sent" /\ phase' = "idle"
    /\ queue' = Tail(queue)
    /\ cur' = None
    /\ UNCHANGED cmd

Dropped ==
    /\ Lossy
    /\ phase = "received" /\ phase' = "idle"
    /\ cmd' = None /\ cur' = None
    /\ UNCHANGED queue

BusNext ==
    \/ \E m \in Msgs : Send(m)
    \/ \E c \in Cmds \cup {None, Noise} : Exchange(c)
    \/ Handled \/ Done \/ Dropped

BusSpec == BusInit /\ [][BusNext]_busVars
=============================================================================

------------------------------ MODULE SpiProps ------------------------------
(***************************************************************************)
(* What must hold of the SPI port (module Spi), with any host and with a   *)
(* host that does not stall.                                               *)
(***************************************************************************)
EXTENDS Spi

(* Every variable has its type.                                            *)
TypeOK ==
    /\ spc \in ThreadPCs /\ rv \in {0, 1}
    /\ tx_msg \in Msgs \cup {None}
    /\ rx_buf \in Cmds \cup {None, Noise}
    /\ queue_sem \in 0..SemMax /\ CS_sem \in 0..SemMax /\ SPI_done_sem \in 0..SemMax
    /\ tx_queue \in Seq(Msgs) /\ linked \subseteq Msgs
    /\ status \in {"IDLE", "STARTED", "COMPLETED", "CANCELED"}
    /\ spi_transfer_waiting \in BOOLEAN /\ csInt \in BOOLEAN /\ irq \in BOOLEAN
    /\ ragged \in BOOLEAN /\ live \in BOOLEAN
    /\ snd \in [Msgs -> SendPCs] /\ inuse \in [Msgs -> BOOLEAN]
    /\ hpc \in HostPCs /\ hout \in Cmds \cup {None}
    /\ owed \in Cmds \cup {None} /\ got \in Cmds \cup {None, Noise}
    /\ copies \in [Msgs -> 0..2]

----------------------------------------------------------------------------
(* With any host.                                                          *)

(* The debugging checks of list.h (lines 51 and 78) never catch anything:  *)
(* no message is linked twice, and the one spiThread unlinks is still in   *)
(* the queue.  Caught, they would spin for ever with queue_sem taken, and  *)
(* with it every thread of the device.  Nor does spiThread spin at         *)
(* spi.c:175-178 for a transfer refused because one is under way: a        *)
(* transfer it gave up is over, however late the host is.                  *)
NeverSpins ==
    /\ \A m \in Msgs : snd[m] = "add" => m \notin linked
    /\ spc = "remove" => tx_msg \in linked
    /\ spc = "arm" => status # "STARTED"

(* tx_msg is peeked under the lock and used long after it is released:     *)
(* until done() it is still the oldest message of the queue, its owner     *)
(* still has its flag set, and nobody is sending it again.                 *)
TxMsgIsHead ==
    (tx_msg # None /\ spc \in {"arm", "waiting", "irqOn", "wait", "notWaiting", "irqOff",
                               "check", "handle", "reply", "lock2", "remove"})
    => /\ tx_queue # <<>> /\ Head(tx_queue) = tx_msg
       /\ inuse[tx_msg] /\ snd[tx_msg] \in {"post", "idle"}

(* done() is called only for a message the host has been sent in full,     *)
(* however the wait for the transfer ended: a stale post of SPI_done_sem   *)
(* ends the wait of a transfer that has not run.  Only a run mixed with    *)
(* the tail of another one (Noise) can be taken for a delivery.            *)
DoneImpliesSent ==
    spc \in {"lock2", "remove", "done"} => copies[tx_msg] > 0 \/ rx_buf = Noise

(* The handler gets what the transfer spiThread armed last has received,   *)
(* and gets it once, although rx_buf is one static buffer that keeps its   *)
(* content when a transfer is given up and a late run can complete the     *)
(* next transfer at any point.                                             *)
HandlerGetsReceived == spc = "handle" => rx_buf = got

----------------------------------------------------------------------------
(* With a host that does not stall.                                        *)

(* Each message reaches the host exactly once before its done().           *)
SentOnce == spc = "done" => copies[tx_msg] = 1

(* Nothing the host sends is lost: when spiThread comes back to the top of *)
(* its loop the handler has seen it.                                       *)
NoCommandLost == spc = "steal" => owed = None

(* A post of SPI_done_sem is always for the transfer being waited for.     *)
NoStalePost ==
    SPI_done_sem > 0 => SPI_done_sem = 1 /\ spc = "wait" /\ status = "COMPLETED"

(* A host that asserts CS gets its run, whatever spiThread was doing when  *)
(* CS fell (stealing CS, looking at the queue, about to wait).             *)
HostIsServed == hpc = "cs" ~> hpc = "end"

(* The host sees the interrupt line off after its run, also when spiThread *)
(* has asserted it again for the CS the host had not raised yet.           *)
HostIsReleased == hpc = "end" ~> hpc = "idle"

(* Every message given to spi_send is done with: no wake-up is lost.       *)
SendIsDone == \A m \in Msgs : snd[m] = "lock" ~> ~inuse[m]

----------------------------------------------------------------------------
(* The inductive invariant behind the safety properties, in named parts.   *)

AtTransfer == {"waiting", "irqOn", "wait", "notWaiting", "irqOff", "check", "cancel"}
AtReceived == {"handle", "reply", "lock2", "remove", "done"}
AtIRQ == {"wait", "notWaiting", "irqOff"}

(* queue_sem is a mutex, and its critical sections exclude each other.     *)
LockInv ==
    /\ queue_sem \in {0, 1}
    /\ queue_sem = 1 => spc \notin {"test", "remove"} /\ \A m \in Msgs : snd[m] # "add"
    /\ \A m \in Msgs : snd[m] = "add" => spc \notin {"test", "remove"}
    /\ \A m, n \in Msgs : snd[m] = "add" /\ snd[n] = "add" => m = n

(* The links of the queue are the links with a head, each one once.        *)
ListInv ==
    /\ \A m \in Msgs : m \in linked <=> \E i \in 1..Len(tx_queue) : tx_queue[i] = m
    /\ \A i, j \in 1..Len(tx_queue) : tx_queue[i] = tx_queue[j] => i = j

(* A message is in use from before its spi_send until after its removal.   *)
OwnerInv ==
    /\ \A m \in linked : inuse[m] /\ snd[m] \in {"post", "idle"}
    /\ \A m \in Msgs : snd[m] \in {"lock", "add"} => inuse[m]
    /\ spc # "reply" => \A m \in HandlerMsgs : snd[m] = "idle"

(* tx_msg stays at the head of the queue until it is unlinked.             *)
TxInv ==
    /\ spc \in {"lock2", "remove", "done"} => tx_msg # None
    /\ (tx_msg # None /\ spc \in AtTransfer \cup {"arm", "handle", "reply", "lock2", "remove"})
       => Len(tx_queue) > 0 /\ tx_queue[1] = tx_msg
    /\ spc = "done" => /\ tx_msg \notin linked /\ inuse[tx_msg]
                       /\ snd[tx_msg] \in {"post", "idle"}

(* How far spiThread is with a transfer, against what the driver says.     *)
TransferInv ==
    /\ status = "STARTED" => spc \in AtTransfer
    /\ spc \in AtTransfer => status \in {"STARTED", "COMPLETED"}
    /\ spc \in AtReceived => status = "COMPLETED"
    /\ spi_transfer_waiting <=> spc \in {"irqOn", "wait", "notWaiting"}
    /\ irq <=> spc \in AtIRQ

(* How far the host is with its run, against the transfer.                 *)
HostInv == live => hpc = "run" /\ status = "STARTED" /\ ~ragged

(* What a completed transfer left behind.                                  *)
ReceivedInv ==
    /\ (status = "COMPLETED" /\ spc \in AtTransfer \cup {"handle"}) => rx_buf = got
    /\ (status = "COMPLETED" /\ spc \in AtTransfer \cup AtReceived /\ tx_msg # None)
       => copies[tx_msg] > 0 \/ rx_buf = Noise

SpiInv ==
    TypeOK /\ LockInv /\ ListInv /\ OwnerInv /\ TxInv /\ TransferInv /\ HostInv /\ ReceivedInv

(* What more is true when the host does not stall: the wait for a transfer *)
(* ends with its post, or with a timeout while the host is still looking   *)
(* for the end of its previous run; every run is heard, once.              *)
TimelyInv ==
    /\ SPI_done_sem > 0 <=> spc = "wait" /\ status = "COMPLETED"
    /\ SPI_done_sem < 2
    /\ spc \in {"notWaiting", "irqOff", "check"} /\ rv = 0 => status = "COMPLETED"
    /\ spc \in {"notWaiting", "irqOff", "check"} /\ rv = 1 => status = "STARTED"
    /\ spc \in {"notWaiting", "irqOff"} /\ rv = 1 => hpc = "end"
    /\ spc = "cancel" => status = "STARTED"
    /\ spc \in {"waiting", "irqOn"} => status = "STARTED"
    /\ status = "COMPLETED" /\ spc \in AtIRQ => hpc \in {"raise", "end"}
    /\ hpc \in {"called", "go", "run"} => spc = "wait" /\ status = "STARTED"
    /\ hpc = "run" => live
    /\ ~ragged

(* The copies that reached the host are those of the message whose run has *)
(* ended, and what the host sent is with spiThread until it is handled.    *)
CountInv ==
    /\ \A m \in Msgs :
          copies[m] = IF /\ m = tx_msg /\ status = "COMPLETED"
                         /\ spc \in AtTransfer \cup AtReceived
                      THEN 1 ELSE 0
    /\ owed # None => status = "COMPLETED" /\ spc \in AtTransfer \cup {"handle"}
    /\ (status = "COMPLETED" /\ spc \in AtTransfer \cup {"handle"}) => rx_buf = owed
    /\ rx_buf # Noise

TimelySpiInv == SpiInv /\ TimelyInv /\ CountInv

----------------------------------------------------------------------------
(* The SPI port implements the message bus of module MsgBus: a run happens *)
(* when its last byte completes the transfer, and a message leaves the     *)
(* queue when done() is called for it.                                     *)

InTransfer == spc \in {"waiting", "irqOn", "wait", "notWaiting", "irqOff", "check",
                       "cancel", "handle"}

busPhase ==
    IF InTransfer /\ status = "COMPLETED" THEN "received"
    ELSE IF spc \in {"reply", "lock2", "remove", "done"} /\ tx_msg # None THEN "sent"
    ELSE "idle"

Bus == INSTANCE MsgBus WITH
    Lossy <- HostMayStall,
    queue <- IF spc = "done" THEN <<tx_msg>> \o tx_queue ELSE tx_queue,
    phase <- busPhase,
    cmd   <- IF busPhase = "received" THEN rx_buf ELSE None,
    cur   <- IF busPhase = "idle" THEN None ELSE tx_msg

(* Every step of the port is a step of the bus or leaves it as it is.      *)
ImplementsBus == Bus!BusSpec
=============================================================================

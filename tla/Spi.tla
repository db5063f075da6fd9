-------------------------------- MODULE Spi --------------------------------
(***************************************************************************)
(* The SPI message port of src/spi.c with the intrusive queue of           *)
(* src/list.h: spiThread, the senders that call spi_send, the two          *)
(* interrupt handlers (gpio_CS on a falling chip select, spi_transfer_done *)
(* on the last byte), and the host on the other side of the bus.           *)
(*                                                                         *)
(* Every thread has priority 1 and may be switched out at any step; an     *)
(* interrupt handler is one atomic step.  A step of spiThread is named     *)
(* after the statement it stands for.                                      *)
(*                                                                         *)
(* The host follows src/README.md, section SPI.  With HostMayStall it may  *)
(* also be late by any amount at any point, between seeing the interrupt   *)
(* line and starting its clock too, so that the one second timeout of      *)
(* spiThread races with the whole of its run.                              *)
(*                                                                         *)
(* Assumed of the library: SPI_transfer and clock_gettime do not fail      *)
(* (spiThread spins for ever if they do), but for the refusal of a second  *)
(* transfer, which is modelled; and a transfer starts with empty FIFOs.    *)
(***************************************************************************)
EXTENDS Naturals, Sequences

CONSTANTS
    ThreadMsgs,    \* messages sent by other threads (spiI2cThread, adcThread, console)
    HandlerMsgs,   \* messages the receive handler sends from spiThread (GPIO_VALUE)
    Cmds,          \* what the host may put on the bus
    None,          \* no message: a null tx_msg, or a first byte ACP_MSG_ID_INVALID
    Noise,         \* 32 bytes put together from two runs of the host's clock
    SemMax,        \* a bound: the count at which a semaphore saturates
    HostMayStall   \* may the host be slower than the one second timeout?

Msgs == ThreadMsgs \cup HandlerMsgs

ASSUME ConstantsAssumption ==
    /\ ThreadMsgs \cap HandlerMsgs = {}
    /\ None \notin Msgs \cup Cmds
    /\ Noise \notin Msgs \cup Cmds \cup {None}
    /\ SemMax \in Nat \ {0}
    /\ HostMayStall \in BOOLEAN

VARIABLES
    spc,                   \* where spiThread is
    rv,                    \* what sem_timedwait returned: 0 or 1 for its -1
    tx_msg,                \* the message peeked from the queue, or None
    rx_buf,                \* what the last completed transfer received
    queue_sem,             \* protects tx_queue
    CS_sem,                \* posted by gpio_CS and by spi_send
    SPI_done_sem,          \* posted by spi_transfer_done
    spi_transfer_waiting,  \* does spi_transfer_done post?
    tx_queue,              \* the messages linked in the queue, oldest first
    linked,                \* the messages whose link.head is set
    csInt,                 \* CS is stolen as a GPIO and its interrupt enabled
    status,                \* transaction.status
    ragged,                \* the armed transfer has taken the tail of a run
    irq,                   \* CONFIG_GPIO_HOST_IRQ is asserted
    snd,                   \* where each message is in its spi_send
    inuse,                 \* the owner's flag: set before spi_send, cleared by done()
    hpc,                   \* where the host is
    hout,                  \* what the host sends in this run of the clock
    live,                  \* the armed transfer has had every byte of this run
    owed,                  \* history: what the host last sent, until it is handled
    got,                   \* history: what the armed transfer received, until it is handled
    copies                 \* history: how often each message reached the host, up to 2

thread == <<spc, rv, tx_msg>>
sems   == <<queue_sem, CS_sem, SPI_done_sem>>
list   == <<tx_queue, linked>>
driver == <<rx_buf, status, ragged>>
client == <<snd, inuse>>
host   == <<hpc, hout, live>>
ghosts == <<owed, got, copies>>
vars   == <<thread, sems, spi_transfer_waiting, list, csInt, driver, irq,
            client, host, ghosts>>

ThreadPCs == {"steal", "lock", "test", "csWait", "arm", "waiting", "irqOn", "wait",
              "notWaiting", "irqOff", "check", "cancel", "handle", "reply",
              "lock2", "remove", "done"}
SendPCs   == {"idle", "lock", "add", "post"}
HostPCs   == {"idle", "called", "cs", "go", "run", "raise", "end"}

Post(sem) == IF sem < SemMax THEN sem + 1 ELSE sem
Goto(from, to) == spc = from /\ spc' = to

CSIsOff == hpc \in {"idle", "called", "end"}

(* Wrong on purpose: unlinks the newest message.                           *)
RemoveTail(q, m) == SubSeq(q, 1, Len(q) - 1)

RemoveLink(q, m) ==
    LET i == CHOOSE j \in DOMAIN q : q[j] = m
    IN  SubSeq(q, 1, i - 1) \o SubSeq(q, i + 1, Len(q))

Init ==
    /\ spc = "steal" /\ rv = 0 /\ tx_msg = None
    /\ queue_sem = 1 /\ CS_sem = 0 /\ SPI_done_sem = 0
    /\ spi_transfer_waiting = FALSE
    /\ tx_queue = <<>> /\ linked = {}
    /\ csInt = FALSE
    /\ rx_buf = None /\ status = "IDLE" /\ ragged = FALSE
    /\ irq = FALSE
    /\ snd = [m \in Msgs |-> "idle"] /\ inuse = [m \in Msgs |-> FALSE]
    /\ hpc = "idle" /\ hout = None /\ live = FALSE
    /\ owed = None /\ got = None /\ copies = [m \in Msgs |-> 0]

----------------------------------------------------------------------------
(* spiThread waits for something to do.                                    *)

(* Wrong on purpose: the falling edge of CS is not enabled.                *)
StealCSNoInterrupt ==
    /\ Goto("steal", "lock")
    /\ UNCHANGED <<rv, tx_msg, sems, spi_transfer_waiting, list, csInt, driver, irq,
                   client, host, ghosts>>

StealCS ==
    /\ Goto("steal", "lock")
    /\ csInt' = TRUE
    /\ UNCHANGED <<rv, tx_msg, sems, spi_transfer_waiting, list, driver, irq,
                   client, host, ghosts>>

LockQueue ==
    /\ Goto("lock", "test")
    /\ queue_sem > 0 /\ queue_sem' = queue_sem - 1
    /\ UNCHANGED <<rv, tx_msg, CS_sem, SPI_done_sem, spi_transfer_waiting, list,
                   csInt, driver, irq, client, host, ghosts>>

NothingToDo ==
    /\ Goto("test", "csWait")
    /\ CSIsOff /\ tx_queue = <<>>
    /\ queue_sem' = Post(queue_sem)
    /\ UNCHANGED <<rv, tx_msg, CS_sem, SPI_done_sem, spi_transfer_waiting, list,
                   csInt, driver, irq, client, host, ghosts>>

WaitCS ==
    /\ Goto("csWait", "lock")
    /\ CS_sem > 0 /\ CS_sem' = CS_sem - 1
    /\ UNCHANGED <<rv, tx_msg, queue_sem, SPI_done_sem, spi_transfer_waiting, list,
                   csInt, driver, irq, client, host, ghosts>>

(* Wrong on purpose: the newest message goes first.                        *)
PeekTail ==
    /\ Goto("test", "arm")
    /\ ~CSIsOff \/ tx_queue # <<>>
    /\ tx_msg' = IF tx_queue = <<>> THEN None ELSE tx_queue[Len(tx_queue)]
    /\ queue_sem' = Post(queue_sem)
    /\ UNCHANGED <<rv, CS_sem, SPI_done_sem, spi_transfer_waiting, list, csInt,
                   driver, irq, client, host, ghosts>>

PeekHead ==
    /\ Goto("test", "arm")
    /\ ~CSIsOff \/ tx_queue # <<>>
    /\ tx_msg' = IF tx_queue = <<>> THEN None ELSE Head(tx_queue)
    /\ queue_sem' = Post(queue_sem)
    /\ UNCHANGED <<rv, CS_sem, SPI_done_sem, spi_transfer_waiting, list, csInt,
                   driver, irq, client, host, ghosts>>

----------------------------------------------------------------------------
(* spiThread arms a transfer, tells the host, and waits a second for it.   *)

(* Wrong on purpose: the host is told before the port is ready.            *)
ArmAndAssertIRQ ==
    /\ Goto("arm", "waiting")
    /\ csInt' = FALSE
    /\ status # "STARTED"
    /\ status' = "STARTED" /\ ragged' = FALSE /\ got' = None
    /\ irq' = TRUE
    /\ UNCHANGED <<rv, tx_msg, sems, spi_transfer_waiting, list, rx_buf,
                   client, host, owed, copies>>

(* SPI_transfer refuses a transfer while one is under way, and spiThread   *)
(* spins for ever on the refusal: then this action is disabled.            *)
Arm ==
    /\ Goto("arm", "waiting")
    /\ csInt' = FALSE
    /\ status # "STARTED"
    /\ status' = "STARTED" /\ ragged' = FALSE /\ got' = None
    /\ UNCHANGED <<rv, tx_msg, sems, spi_transfer_waiting, list, rx_buf, irq,
                   client, host, owed, copies>>

SetWaiting ==
    /\ Goto("waiting", "irqOn")
    /\ spi_transfer_waiting' = TRUE
    /\ UNCHANGED <<rv, tx_msg, sems, list, csInt, driver, irq, client, host, ghosts>>

AssertIRQ ==
    /\ Goto("irqOn", "wait")
    /\ irq' = TRUE
    /\ UNCHANGED <<rv, tx_msg, sems, spi_transfer_waiting, list, csInt, driver,
                   client, host, ghosts>>

TransferWoken ==
    /\ Goto("wait", "notWaiting")
    /\ SPI_done_sem > 0 /\ SPI_done_sem' = SPI_done_sem - 1
    /\ rv' = 0
    /\ UNCHANGED <<tx_msg, queue_sem, CS_sem, spi_transfer_waiting, list, csInt,
                   driver, irq, client, host, ghosts>>

(* A second is long enough for a host that does not stall: it answers the  *)
(* interrupt line and ends its run, unless the line is asserted while it   *)
(* still waits for the end of its previous run.                            *)
TransferTimeout ==
    /\ Goto("wait", "notWaiting")
    /\ SPI_done_sem = 0
    /\ HostMayStall \/ hpc = "end"
    /\ rv' = 1
    /\ UNCHANGED <<tx_msg, sems, spi_transfer_waiting, list, csInt, driver, irq,
                   client, host, ghosts>>

(* Wrong on purpose: spi_transfer_done goes on posting.                    *)
KeepWaiting ==
    /\ Goto("notWaiting", "irqOff")
    /\ UNCHANGED <<rv, tx_msg, sems, spi_transfer_waiting, list, csInt, driver, irq,
                   client, host, ghosts>>

ClearWaiting ==
    /\ Goto("notWaiting", "irqOff")
    /\ spi_transfer_waiting' = FALSE
    /\ UNCHANGED <<rv, tx_msg, sems, list, csInt, driver, irq, client, host, ghosts>>

(* Wrong on purpose: the interrupt line stays asserted.                    *)
KeepIRQ ==
    /\ Goto("irqOff", "check")
    /\ UNCHANGED <<rv, tx_msg, sems, spi_transfer_waiting, list, csInt, driver, irq,
                   client, host, ghosts>>

DeassertIRQ ==
    /\ Goto("irqOff", "check")
    /\ irq' = FALSE
    /\ UNCHANGED <<rv, tx_msg, sems, spi_transfer_waiting, list, csInt, driver,
                   client, host, ghosts>>

(* Wrong on purpose: only the semaphore is asked; nothing is asked.        *)
CompletedIfPosted == rv = 0
CompletedAlways == TRUE

Completed == status # "STARTED" /\ rv = 0

CheckStatus ==
    /\ spc = "check"
    /\ spc' = IF Completed THEN "handle" ELSE "cancel"
    /\ UNCHANGED <<rv, tx_msg, sems, spi_transfer_waiting, list, csInt, driver, irq,
                   client, host, ghosts>>

(* SPI_transferCancel calls the transfer's callback with a cancelled       *)
(* transaction; it does nothing when no transfer is under way.             *)
Cancel ==
    /\ Goto("cancel", "steal")
    /\ IF status = "STARTED"
       THEN /\ status' = "CANCELED" /\ live' = FALSE
            /\ SPI_done_sem' = IF spi_transfer_waiting THEN Post(SPI_done_sem)
                                                       ELSE SPI_done_sem
       ELSE UNCHANGED <<status, live, SPI_done_sem>>
    /\ UNCHANGED <<rv, tx_msg, queue_sem, CS_sem, spi_transfer_waiting, list, csInt,
                   rx_buf, ragged, irq, client, hpc, hout, ghosts>>

----------------------------------------------------------------------------
(* spiThread hands over what it received and finishes what it sent.        *)

AfterHandler == IF tx_msg = None THEN "steal" ELSE "lock2"

Handle ==
    /\ spc = "handle"
    /\ got' = None
    /\ owed' = IF rx_buf = owed THEN None ELSE owed
    /\ \/ spc' = AfterHandler /\ UNCHANGED client
       \/ \E m \in HandlerMsgs :
             /\ rx_buf # None /\ ~inuse[m]
             /\ spc' = "reply"
             /\ inuse' = [inuse EXCEPT ![m] = TRUE]
             /\ snd' = [snd EXCEPT ![m] = "lock"]
    /\ UNCHANGED <<rv, tx_msg, sems, spi_transfer_waiting, list, csInt, driver, irq,
                   host, copies>>

HandlerReturns ==
    /\ Goto("reply", AfterHandler)
    /\ \A m \in HandlerMsgs : snd[m] = "idle"
    /\ UNCHANGED <<rv, tx_msg, sems, spi_transfer_waiting, list, csInt, driver, irq,
                   client, host, ghosts>>

LockQueueAgain ==
    /\ Goto("lock2", "remove")
    /\ queue_sem > 0 /\ queue_sem' = queue_sem - 1
    /\ UNCHANGED <<rv, tx_msg, CS_sem, SPI_done_sem, spi_transfer_waiting, list,
                   csInt, driver, irq, client, host, ghosts>>

(* dlist_remove_link spins for ever, lock in hand, on a link whose head is *)
(* not this list: then this action is disabled.                            *)
RemoveSent ==
    /\ Goto("remove", "done")
    /\ tx_msg \in linked
    /\ linked' = linked \ {tx_msg}
    /\ tx_queue' = RemoveLink(tx_queue, tx_msg)
    /\ queue_sem' = Post(queue_sem)
    /\ UNCHANGED <<rv, tx_msg, CS_sem, SPI_done_sem, spi_transfer_waiting, csInt,
                   driver, irq, client, host, ghosts>>

CallDone ==
    /\ Goto("done", "steal")
    /\ inuse' = [inuse EXCEPT ![tx_msg] = FALSE]
    /\ copies' = [copies EXCEPT ![tx_msg] = 0]
    /\ UNCHANGED <<rv, tx_msg, sems, spi_transfer_waiting, list, csInt, driver, irq,
                   snd, host, owed, got>>

----------------------------------------------------------------------------
(* spi_send, called by the owner of m once its own flag says that m is     *)
(* free; the handler's messages are acquired in Handle.                    *)

(* Wrong on purpose: the owner does not wait for done().                   *)
AcquireAnyway(m) ==
    /\ m \in ThreadMsgs /\ snd[m] = "idle"
    /\ inuse' = [inuse EXCEPT ![m] = TRUE]
    /\ snd' = [snd EXCEPT ![m] = "lock"]
    /\ UNCHANGED <<thread, sems, spi_transfer_waiting, list, csInt, driver, irq,
                   host, ghosts>>

Acquire(m) ==
    /\ m \in ThreadMsgs /\ ~inuse[m] /\ snd[m] = "idle"
    /\ inuse' = [inuse EXCEPT ![m] = TRUE]
    /\ snd' = [snd EXCEPT ![m] = "lock"]
    /\ UNCHANGED <<thread, sems, spi_transfer_waiting, list, csInt, driver, irq,
                   host, ghosts>>

SendLock(m) ==
    /\ snd[m] = "lock" /\ snd' = [snd EXCEPT ![m] = "add"]
    /\ queue_sem > 0 /\ queue_sem' = queue_sem - 1
    /\ UNCHANGED <<thread, CS_sem, SPI_done_sem, spi_transfer_waiting, list, csInt,
                   driver, irq, inuse, host, ghosts>>

(* Wrong on purpose: the message is added at the head.                     *)
SendAddHead(m) ==
    /\ snd[m] = "add" /\ snd' = [snd EXCEPT ![m] = "post"]
    /\ m \notin linked
    /\ linked' = linked \cup {m}
    /\ tx_queue' = <<m>> \o tx_queue
    /\ queue_sem' = Post(queue_sem)
    /\ UNCHANGED <<thread, CS_sem, SPI_done_sem, spi_transfer_waiting, csInt,
                   driver, irq, inuse, host, ghosts>>

(* dlist_add_tail spins for ever, lock in hand, on a link that is already  *)
(* in a list: then this action is disabled.                                *)
SendAdd(m) ==
    /\ snd[m] = "add" /\ snd' = [snd EXCEPT ![m] = "post"]
    /\ m \notin linked
    /\ linked' = linked \cup {m}
    /\ tx_queue' = Append(tx_queue, m)
    /\ queue_sem' = Post(queue_sem)
    /\ UNCHANGED <<thread, CS_sem, SPI_done_sem, spi_transfer_waiting, csInt,
                   driver, irq, inuse, host, ghosts>>

(* Wrong on purpose: spiThread is not woken.                               *)
SendNoPost(m) ==
    /\ snd[m] = "post" /\ snd' = [snd EXCEPT ![m] = "idle"]
    /\ UNCHANGED <<thread, sems, spi_transfer_waiting, list,
                   csInt, driver, irq, inuse, host, ghosts>>

SendPost(m) ==
    /\ snd[m] = "post" /\ snd' = [snd EXCEPT ![m] = "idle"]
    /\ CS_sem' = Post(CS_sem)
    /\ UNCHANGED <<thread, queue_sem, SPI_done_sem, spi_transfer_waiting, list,
                   csInt, driver, irq, inuse, host, ghosts>>

----------------------------------------------------------------------------
(* The host, and the interrupts it causes.                                 *)

(* CS falls, and gpio_CS runs in the same step.                            *)
AssertCS(c) ==
    /\ hout' = c
    /\ CS_sem' = IF csInt THEN Post(CS_sem) ELSE CS_sem
    /\ UNCHANGED <<thread, queue_sem, SPI_done_sem, spi_transfer_waiting, list,
                   csInt, driver, irq, client, live, ghosts>>

(* A host with something to send asserts CS and waits for the interrupt    *)
(* line.                                                                   *)
HostAssertCS(c) ==
    /\ hpc = "idle" /\ hpc' = "cs"
    /\ AssertCS(c)

(* The interrupt line, seen by an idle host: the device calls.             *)
HostSeesCall ==
    /\ hpc = "idle" /\ hpc' = "called"
    /\ irq
    /\ UNCHANGED <<thread, sems, spi_transfer_waiting, list, csInt, driver, irq,
                   client, hout, live, ghosts>>

(* A host that is called does not look at the line again.  It may have     *)
(* something to send or not (None).                                        *)
HostAnswers(c) ==
    /\ hpc = "called" /\ hpc' = "go"
    /\ AssertCS(c)

HostSeesIRQ ==
    /\ hpc = "cs" /\ hpc' = "go"
    /\ irq
    /\ UNCHANGED <<thread, sems, spi_transfer_waiting, list, csInt, driver, irq,
                   client, hout, live, ghosts>>

(* The first bit of a run, whatever has become of the transfer since the   *)
(* host saw the interrupt line.                                            *)
HostRunClock ==
    /\ hpc = "go" /\ hpc' = "run"
    /\ live' = (status = "STARTED" /\ ~ragged)
    /\ UNCHANGED <<thread, sems, spi_transfer_waiting, list, csInt, driver, irq,
                   client, hout, ghosts>>

Sent(m) == [copies EXCEPT ![m] = IF @ < 2 THEN @ + 1 ELSE 2]

(* The last byte of a run.  The armed transfer completes if its 32 bytes   *)
(* are there, and spi_transfer_done runs in the same step.  A transfer     *)
(* armed in the middle of a run keeps the tail and completes with the next.*)
HostLastByte ==
    /\ hpc = "run" /\ hpc' = "raise"
    /\ live' = FALSE
    /\ owed' = hout
    /\ IF status = "STARTED" /\ (live \/ ragged)
       THEN /\ status' = "COMPLETED"
            /\ rx_buf' = IF live THEN hout ELSE Noise
            /\ got' = rx_buf'
            /\ SPI_done_sem' = IF spi_transfer_waiting THEN Post(SPI_done_sem)
                                                       ELSE SPI_done_sem
            /\ copies' = IF live /\ tx_msg # None THEN Sent(tx_msg) ELSE copies
            /\ UNCHANGED ragged
       ELSE /\ ragged' = (status = "STARTED")
            /\ UNCHANGED <<status, rx_buf, got, SPI_done_sem, copies>>
    /\ UNCHANGED <<thread, queue_sem, CS_sem, spi_transfer_waiting, list, csInt, irq,
                   client, hout>>

HostRaiseCS ==
    /\ hpc = "raise" /\ hpc' = "end"
    /\ UNCHANGED <<thread, sems, spi_transfer_waiting, list, csInt, driver, irq,
                   client, hout, live, ghosts>>

HostSeesIRQOff ==
    /\ hpc = "end" /\ hpc' = "idle"
    /\ ~irq
    /\ UNCHANGED <<thread, sems, spi_transfer_waiting, list, csInt, driver, irq,
                   client, hout, live, ghosts>>

----------------------------------------------------------------------------
SpiThread ==
    \/ StealCS \/ LockQueue \/ NothingToDo \/ WaitCS \/ PeekHead
    \/ Arm \/ SetWaiting \/ AssertIRQ \/ TransferWoken \/ TransferTimeout
    \/ ClearWaiting \/ DeassertIRQ \/ CheckStatus \/ Cancel
    \/ Handle \/ HandlerReturns \/ LockQueueAgain \/ RemoveSent \/ CallDone

SpiSend(m) == SendLock(m) \/ SendAdd(m) \/ SendPost(m)

HostStep ==
    \/ HostSeesCall \/ HostSeesIRQ \/ HostRunClock
    \/ HostLastByte \/ HostRaiseCS \/ HostSeesIRQOff

Next ==
    \/ SpiThread
    \/ \E m \in Msgs : Acquire(m) \/ SpiSend(m)
    \/ \E c \in Cmds : HostAssertCS(c)
    \/ \E c \in Cmds \cup {None} : HostAnswers(c)
    \/ HostStep

Spec == Init /\ [][Next]_vars

(* Threads of equal priority that block are served in the order in which   *)
(* they blocked, so whoever waits on queue_sem gets it (strong fairness).  *)
(* The host answers the interrupt line and ends what it starts.  It sees   *)
(* the line go off although spiThread may assert it again at once (strong  *)
(* fairness: it looks often enough, or takes an interrupt from the edge).  *)
Fairness ==
    /\ WF_vars(SpiThread)
    /\ SF_vars(LockQueue) /\ SF_vars(LockQueueAgain)
    /\ \A m \in Msgs : WF_vars(SpiSend(m)) /\ SF_vars(SendLock(m))
    /\ WF_vars(HostStep) /\ SF_vars(HostSeesIRQOff)
    /\ WF_vars(\E c \in Cmds \cup {None} : HostAnswers(c))

FairSpec == Spec /\ Fairness
=============================================================================

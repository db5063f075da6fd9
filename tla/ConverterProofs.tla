-------------------------- MODULE ConverterProofs ---------------------------
(***************************************************************************)
(* Theorems about the converter, for every number of buses and GPIOs, every*)
(* set of requests, a port that may lose runs and a driver that may refuse.*)
(***************************************************************************)
EXTENDS ConverterProps, SequenceTheorems, FiniteSetTheorems, TLAPS

(* The messages to the host that are in the transmit queue.                *)
Queued == {queue[i] : i \in DOMAIN queue}

(* What the SPI port promises the code above it: a message is queued once, *)
(* and the one that a run carries is the oldest.                           *)
PortInv ==
    /\ queue \in Seq(Msgs)
    /\ \A i, j \in 1..Len(queue) : queue[i] = queue[j] => i = j
    /\ phase = "idle" => cmd = None /\ cur = None
    /\ phase = "sent" => cur # None /\ cmd = None
    /\ cur # None => queue # <<>> /\ cur = queue[1]

(* The arrays TypeOK says nothing of have an entry for each bus.           *)
ArraysInv ==
    /\ DOMAIN addr = Buses /\ DOMAIN rxcount = Buses /\ DOMAIN data = Buses
    /\ DOMAIN hdr = Buses /\ DOMAIN ask = Buses /\ DOMAIN result = Buses

(* Where the handler is says which request it has, and what it has done.   *)
HandlerInv ==
    /\ hpc # "idle" => phase = "received" /\ cmd \in Reqs
    /\ hpc \in {"start", "driver", "fail", "wake"} => cmd.op = "i2c" /\ cmd.bus \in Buses
    /\ hpc \in {"gsend", "return"} => cmd.op = "get" /\ cmd.gpio \in Gpios
    /\ hpc = "driver" => owner[cmd.bus] = Slot(cmd.bus)
    /\ hpc \in {"start", "driver"} => ~TooLong(cmd)

(* SlotInOneHand without the counting: the five hands exclude each other.  *)
OneHand(b) ==
    /\ inuse[b] <=>
         AtHandler(b) \/ InDriver(b) \/ done[b] \/ InThread(b) \/ Rsp(b) \in Queued
    /\ AtHandler(b) => ~InDriver(b) /\ ~done[b] /\ ~InThread(b) /\ Rsp(b) \notin Queued
    /\ InDriver(b) => ~done[b] /\ ~InThread(b) /\ Rsp(b) \notin Queued
    /\ done[b] => ~InThread(b) /\ Rsp(b) \notin Queued
    /\ InThread(b) => Rsp(b) \notin Queued

HandsInv ==
    /\ tpc = "clear" => done[ti]
    /\ \A b \in Buses : OneHand(b)

(* ResponseAnswersRequest, followed from the request through every hand.   *)
AnswerOf(b) ==
    /\ addr[b] = ask[b].addr /\ rxcount[b] = ask[b].rx
    /\ AtHandler(b) \/ InDriver(b) => result[b] = NoResult /\ data[b] = Zero
    /\ AtHandler(b) => status[b] \in {"minus1", "error"}
    /\ done[b] \/ InThread(b) \/ Rsp(b) \in Queued =>
         IF result[b] = NoResult
         THEN status[b] \in {"minus1", "error"} /\ data[b] = Zero
         ELSE status[b] = result[b].status /\ data[b] = result[b].data
    /\ (tpc = "clear" /\ ti = b) \/ InThread(b) \/ Rsp(b) \in Queued =>
         hdr[b] = [status |-> status[b], rxcount |-> rxcount[b], addr |-> addr[b]]

AnswerInv ==
    \A b \in Buses : inuse[b] =>
        /\ AtHandler(b) => ask[b] = cmd
        /\ InDriver(b) => ~TooLong(ask[b])
        /\ ~TooLong(ask[b]) => AnswerOf(b)

(* ValueInOneHand, over the set of the messages that are queued.           *)
ValueInv ==
    \A g \in Gpios :
        /\ ginuse[g] <=> Val(g) \in Queued \/ (hpc = "gsend" /\ cmd.gpio = g)
        /\ ~(Val(g) \in Queued /\ hpc = "gsend" /\ cmd.gpio = g)

(* The inductive invariant: WakeNotLost and the types as they are, the     *)
(* others strengthened by where the handler and the port are.              *)
IInv ==
    /\ TypeOK /\ PortInv /\ ArraysInv /\ HandlerInv
    /\ HandsInv /\ WakeNotLost /\ ValueInv /\ AnswerInv

-----------------------------------------------------------------------------
(* The messages to the host are all different, and so are the transactions.*)
LEMMA Messages ==
    /\ \A b \in Buses : Rsp(b) \in Msgs /\ Rsp(b) # None
    /\ \A g \in Gpios : Val(g) \in Msgs /\ Val(g) # None
    /\ \A m \in Others : Other(m) \in Msgs /\ Other(m) # None
    /\ \A b, c \in Buses : Rsp(b) = Rsp(c) => b = c
    /\ \A g, h \in Gpios : Val(g) = Val(h) => g = h
    /\ \A b \in Buses, g \in Gpios : Rsp(b) # Val(g)
    /\ \A b \in Buses, m \in Others : Rsp(b) # Other(m)
    /\ \A g \in Gpios, m \in Others : Val(g) # Other(m)
BY ConverterAssumption DEF Msgs, Rsp, Val, Other

(* Neither is a transaction the mark of a free or of a wedged bus.         *)
LEMMA Transactions ==
    /\ None \notin Trans /\ Stuck \notin Trans /\ Stuck # None
    /\ Elsewhere \in Trans
    /\ \A b \in Buses : Slot(b) \in Trans /\ Slot(b) # Elsewhere
    /\ \A b, c \in Buses : Slot(b) = Slot(c) => b = c
BY ConverterAssumption DEF Trans, Elsewhere, Slot

(* A message given to spi_send is in the queue with those already there.   *)
LEMMA SendQueue ==
    ASSUME PortInv, NEW m \in Msgs, Bus!Send(m)
    PROVE  /\ PortInv'
           /\ Queued' = Queued \cup {m} /\ m \notin Queued
<1>1. /\ queue \in Seq(Msgs) /\ queue' = Append(queue, m)
      /\ \A i \in 1..Len(queue) : queue[i] # m
      /\ phase' = phase /\ cmd' = cmd /\ cur' = cur
  BY DEF PortInv, Bus!Send, Bus!InQueue
<1>2. /\ queue' \in Seq(Msgs) /\ Len(queue') = Len(queue) + 1
      /\ \A i \in 1..Len(queue) : queue'[i] = queue[i]
      /\ queue'[Len(queue) + 1] = m
  BY <1>1
<1>3. Queued' = Queued \cup {m} /\ m \notin Queued
  <2>1. Queued' = {queue'[i] : i \in 1..Len(queue')}
    BY <1>2 DEF Queued
  <2>2. Queued = {queue[i] : i \in 1..Len(queue)}
    BY <1>1 DEF Queued
  <2>3. QED
    BY <1>1, <1>2, <2>1, <2>2
<1>4. \A i, j \in 1..Len(queue') : queue'[i] = queue'[j] => i = j
  BY <1>1, <1>2 DEF PortInv
<1>5. cur' # None => queue' # <<>> /\ cur' = queue'[1]
  BY <1>1, <1>2 DEF PortInv
<1>6. QED
  BY <1>1, <1>2, <1>3, <1>4, <1>5 DEF PortInv

(* done() is called for the oldest message, which leaves the queue.        *)
LEMMA DoneQueue ==
    ASSUME PortInv, Bus!Done
    PROVE  /\ PortInv'
           /\ Queued' = Queued \ {cur} /\ cur \in Queued
<1>1. /\ queue \in Seq(Msgs) /\ queue' = Tail(queue) /\ queue # <<>>
      /\ \A i, j \in 1..Len(queue) : queue[i] = queue[j] => i = j
      /\ phase' = "idle" /\ cmd' = cmd /\ cur' = None /\ cmd = None
      /\ cur = queue[1] /\ cur # None
  BY DEF PortInv, Bus!Done
<1>2. /\ Len(queue) > 0 /\ queue' \in Seq(Msgs) /\ Len(queue') = Len(queue) - 1
      /\ \A i \in 1..Len(queue') : queue'[i] = queue[i + 1]
  BY <1>1
<1>3. Queued' = Queued \ {cur} /\ cur \in Queued
  <2>1. Queued' = {queue'[i] : i \in 1..Len(queue')}
    BY <1>2 DEF Queued
  <2>2. Queued = {queue[i] : i \in 1..Len(queue)}
    BY <1>1 DEF Queued
  <2>3. ASSUME NEW i \in 1..Len(queue')
        PROVE  queue'[i] \in Queued \ {cur}
    <3>1. i + 1 \in 1..Len(queue) /\ i + 1 # 1 /\ 1 \in 1..Len(queue)
      BY <1>1, <1>2
    <3>2. QED
      BY <1>1, <1>2, <2>2, <3>1
  <2>4. ASSUME NEW j \in 1..Len(queue), queue[j] # cur
        PROVE  queue[j] \in Queued'
    <3>1. j - 1 \in 1..Len(queue') /\ (j - 1) + 1 = j
      BY <1>1, <1>2, <2>4
    <3>2. QED
      BY <1>2, <2>1, <3>1
  <2>5. cur \in Queued
    BY <1>1, <1>2, <2>2
  <2>6. QED
    BY <2>1, <2>2, <2>3, <2>4, <2>5
<1>4. \A i, j \in 1..Len(queue') : queue'[i] = queue'[j] => i = j
  BY <1>1, <1>2
<1>5. QED
  BY <1>1, <1>2, <1>3, <1>4 DEF PortInv

(* A run of the host's clock, the handler's return and a run that is lost  *)
(* leave the queue as it was.                                              *)
LEMMA PhaseStep ==
    ASSUME PortInv,
           \/ \E c \in Reqs \cup {None} : Bus!Exchange(c)
           \/ Bus!Handled \/ Bus!Dropped \/ UNCHANGED busVars
    PROVE  PortInv' /\ Queued' = Queued
<1>1. queue' = queue
  BY DEF Bus!Exchange, Bus!Handled, Bus!Dropped, busVars
<1>2. Queued' = Queued
  BY <1>1 DEF Queued
<1>3. CASE \E c \in Reqs \cup {None} : Bus!Exchange(c)
  <2>1. queue # <<>> => Head(queue) = queue[1]
    BY DEF PortInv
  <2>2. QED
    BY <1>1, <1>2, <1>3, <2>1 DEF PortInv, Bus!Exchange
<1>4. CASE Bus!Handled
  BY <1>1, <1>2, <1>4 DEF PortInv, Bus!Handled
<1>5. CASE Bus!Dropped
  BY <1>1, <1>2, <1>5 DEF PortInv, Bus!Dropped
<1>6. CASE UNCHANGED busVars
  BY <1>1, <1>2, <1>6 DEF PortInv, busVars
<1>7. QED
  BY <1>3, <1>4, <1>5, <1>6

(* What the handler knows of a request that it does not ignore.            *)
LEMMA NotIgnored ==
    ASSUME cmd \in Reqs \cup {None}, ~Ignored(cmd)
    PROVE  /\ cmd \in Reqs
           /\ cmd.op = "i2c" => cmd.bus \in Buses /\ ~inuse[cmd.bus]
           /\ cmd.op = "get" => cmd.gpio \in Gpios /\ ~ginuse[cmd.gpio]
           /\ cmd.op = "set" => cmd.gpio \in Outputs /\ cmd.val \in {0, 1}
BY ConverterAssumption DEF Ignored

(* The scan of spiI2cThread stays within the slots.                        *)
LEMMA Scan ==
    ASSUME ti \in Buses, NextSlot
    PROVE  /\ ti' \in Buses /\ tpc' \in {"scan", "wait"}
           /\ tpc' = "wait" => ti = NumBuses - 1 /\ ti' = 0
           /\ tpc' = "scan" => ti' = ti + 1
<1>1. ti \in Nat /\ ti < NumBuses /\ NumBuses \in Nat /\ 0 \in Buses
  BY ConverterAssumption DEF Buses
<1>2. ti + 1 < NumBuses => ti + 1 \in Buses
  BY <1>1 DEF Buses
<1>3. QED
  BY <1>1, <1>2 DEF NextSlot

-----------------------------------------------------------------------------
(* Each named part of the inductive invariant is kept by every step.       *)

(* The port: the converter uses it as MsgBus says it is to be used.        *)
LEMMA PortStep ==
    ASSUME TypeOK, PortInv, HandlerInv, [Next]_vars PROVE PortInv'
<1>1. ASSUME NEW c \in Reqs \cup {None}, HostRuns(c) PROVE PortInv'
  BY <1>1, PhaseStep DEF HostRuns
<1>2. CASE RunLost
  BY <1>2, PhaseStep DEF RunLost
<1>3. CASE Ignore
  BY <1>3, PhaseStep DEF Ignore
<1>4. CASE TakeSlot
  BY <1>4, PhaseStep DEF TakeSlot
<1>5. CASE ClaimBus
  BY <1>5, PhaseStep DEF ClaimBus
<1>6. CASE BusInUse
  BY <1>6, PhaseStep DEF BusInUse
<1>7. CASE StartTransfer
  BY <1>7, PhaseStep DEF StartTransfer
<1>8. CASE StartRefused
  BY <1>8, PhaseStep DEF StartRefused
<1>9. CASE ReturnFail
  BY <1>9, PhaseStep DEF ReturnFail
<1>10. CASE PostWake
  BY <1>10, PhaseStep DEF PostWake
<1>11. CASE SetGpio
  BY <1>11, PhaseStep DEF SetGpio
<1>12. CASE GetGpio
  BY <1>12, PhaseStep DEF GetGpio
<1>13. CASE SendValue
  BY <1>13, SendQueue, Messages DEF SendValue, HandlerInv
<1>14. CASE Return
  BY <1>14, PhaseStep DEF Return
<1>15. CASE MessageDone
  BY <1>15, DoneQueue DEF MessageDone
<1>16. CASE WaitWake
  BY <1>16, PhaseStep DEF WaitWake
<1>17. CASE SkipSlot
  BY <1>17, PhaseStep DEF SkipSlot
<1>18. CASE FillResponse
  BY <1>18, PhaseStep DEF FillResponse
<1>19. CASE ClearDone
  BY <1>19, PhaseStep DEF ClearDone
<1>20. CASE SendResponse
  BY <1>20, SendQueue, Messages DEF SendResponse, TypeOK
<1>21. CASE OtherSends
  BY <1>21, SendQueue, Messages DEF OtherSends
<1>22. ASSUME NEW b \in Buses, TransferDone(b) PROVE PortInv'
  BY <1>22, PhaseStep DEF TransferDone
<1>23. ASSUME NEW b \in Buses, OtherTransaction(b) PROVE PortInv'
  BY <1>23, PhaseStep DEF OtherTransaction
<1>24. CASE UNCHANGED vars
  BY <1>24, PhaseStep DEF vars
<1>25. QED
  BY <1>1, <1>2, <1>3, <1>4, <1>5, <1>6, <1>7, <1>8, <1>9, <1>10, <1>11,
    <1>12, <1>13, <1>14, <1>15, <1>16, <1>17, <1>18, <1>19, <1>20, <1>21,
    <1>22, <1>23, <1>24 DEF Next, Handler, SpiI2cThread

(* Types.                                                                  *)
LEMMA TypeStep ==
    ASSUME TypeOK, PortInv, HandlerInv, PortInv', [Next]_vars PROVE TypeOK'
<1> USE ConverterAssumption DEF TypeOK
<1>0. (\A i \in DOMAIN queue' : queue'[i] \in Msgs) /\ cur' \in Msgs \cup {None}
  BY DEF PortInv
<1>1. ASSUME NEW c \in Reqs \cup {None}, HostRuns(c) PROVE TypeOK'
  BY <1>1, <1>0 DEF HostRuns, Bus!Exchange, slotVars, thrVars, gpioVars,
    histVars
<1>2. CASE RunLost
  BY <1>2, <1>0 DEF RunLost, Bus!Dropped, slotVars, thrVars, gpioVars,
    histVars
<1>3. CASE Ignore
  BY <1>3, <1>0 DEF Ignore, Bus!Handled, Handling, slotVars, thrVars,
    gpioVars, histVars
<1>4. CASE TakeSlot
  BY <1>4, <1>0 DEF TakeSlot, Handling, busVars, thrVars, gpioVars
<1>5. CASE ClaimBus
  <2>1. cmd.bus \in Buses /\ Slot(cmd.bus) \in Trans
    BY <1>5, Transactions DEF ClaimBus, HandlerInv
  <2>2. QED
    BY <1>5, <1>0, <2>1 DEF ClaimBus, I2cBus!Own, busVars, slotVars, thrVars,
       gpioVars, histVars
<1>6. CASE BusInUse
  BY <1>6, <1>0 DEF BusInUse, busVars, slotVars, thrVars, gpioVars, histVars
<1>7. CASE StartTransfer
  BY <1>7, <1>0 DEF StartTransfer, Bus!Handled, thrVars, gpioVars, histVars
<1>8. CASE StartRefused
  BY <1>8, <1>0 DEF StartRefused, I2cBus!Wedge, busVars, thrVars, gpioVars,
    histVars
<1>9. CASE ReturnFail
  BY <1>9, <1>0 DEF ReturnFail, busVars, thrVars, gpioVars, histVars
<1>10. CASE PostWake
  BY <1>10, <1>0 DEF PostWake, Bus!Handled, Post, slotVars, gpioVars,
    histVars
<1>11. CASE SetGpio
  <2>1. cmd.gpio \in Outputs /\ cmd.val \in {0, 1}
    BY <1>11, NotIgnored DEF SetGpio
  <2>2. QED
    BY <1>11, <1>0, <2>1 DEF SetGpio, Bus!Handled, slotVars, thrVars, histVars
<1>12. CASE GetGpio
  BY <1>12, <1>0 DEF GetGpio, Handling, gpio_read, busVars, slotVars,
    thrVars, histVars
<1>13. CASE SendValue
  BY <1>13, <1>0 DEF SendValue, Bus!Send, slotVars, thrVars, gpioVars,
    histVars
<1>14. CASE Return
  BY <1>14, <1>0 DEF Return, Bus!Handled, slotVars, thrVars, gpioVars,
    histVars
<1>15. CASE MessageDone
  BY <1>15, <1>0 DEF MessageDone, Bus!Done, thrVars
<1>16. CASE WaitWake
  <2>1. 0 \in Buses /\ wake' \in 0..WakeMax
    BY <1>16 DEF WaitWake, Buses
  <2>2. QED
    BY <1>16, <1>0, <2>1 DEF WaitWake, busVars, slotVars, gpioVars, histVars
<1>17. CASE SkipSlot
  <2>1. ti' \in Buses /\ tpc' \in {"scan", "wait"}
    BY <1>17, Scan DEF SkipSlot
  <2>2. QED
    BY <1>17, <1>0, <2>1 DEF SkipSlot, busVars, slotVars, gpioVars, histVars
<1>18. CASE FillResponse
  BY <1>18, <1>0 DEF FillResponse, busVars, gpioVars, histVars
<1>19. CASE ClearDone
  BY <1>19, <1>0 DEF ClearDone, busVars, gpioVars, histVars
<1>20. CASE SendResponse
  <2>1. ti' \in Buses /\ tpc' \in {"scan", "wait"}
    BY <1>20, Scan DEF SendResponse
  <2>2. QED
    BY <1>20, <1>0, <2>1 DEF SendResponse, Bus!Send, slotVars, gpioVars,
       histVars
<1>21. CASE OtherSends
  BY <1>21, <1>0 DEF OtherSends, Bus!Send, slotVars, thrVars, gpioVars,
    histVars
<1>22. ASSUME NEW b \in Buses, TransferDone(b) PROVE TypeOK'
  BY <1>22, <1>0 DEF TransferDone, I2cBus!Finish, InDriver, Post, busVars,
    gpioVars
<1>23. ASSUME NEW b \in Buses, OtherTransaction(b) PROVE TypeOK'
  <2>1. owner' \in [Buses -> Trans \cup {None, Stuck}]
    BY <1>23, Transactions DEF OtherTransaction, I2cBus!Own, I2cBus!Finish,
       I2cBus!Wedge
  <2>2. QED
    BY <1>23, <1>0, <2>1 DEF OtherTransaction, busVars, slotVars, thrVars, gpioVars,
       histVars
<1>24. CASE UNCHANGED vars
  BY <1>24, <1>0 DEF vars, busVars, slotVars, thrVars, gpioVars, histVars
<1>25. QED
  BY <1>1, <1>2, <1>3, <1>4, <1>5, <1>6, <1>7, <1>8, <1>9, <1>10, <1>11,
    <1>12, <1>13, <1>14, <1>15, <1>16, <1>17, <1>18, <1>19, <1>20, <1>21,
    <1>22, <1>23, <1>24 DEF Next, Handler, SpiI2cThread

(* The arrays keep their entries.                                          *)
LEMMA ArraysStep ==
    ASSUME ArraysInv, [Next]_vars PROVE ArraysInv'
<1> USE DEF ArraysInv
<1>1. ASSUME NEW c \in Reqs \cup {None}, HostRuns(c) PROVE ArraysInv'
  BY <1>1 DEF HostRuns, Bus!Exchange, slotVars, thrVars, gpioVars, histVars
<1>2. CASE RunLost
  BY <1>2 DEF RunLost, Bus!Dropped, slotVars, thrVars, gpioVars, histVars
<1>3. CASE Ignore
  BY <1>3 DEF Ignore, Bus!Handled, Handling, slotVars, thrVars, gpioVars,
    histVars
<1>4. CASE TakeSlot
  BY <1>4 DEF TakeSlot, Handling, busVars, thrVars, gpioVars
<1>5. CASE ClaimBus
  BY <1>5 DEF ClaimBus, I2cBus!Own, busVars, slotVars, thrVars, gpioVars,
    histVars
<1>6. CASE BusInUse
  BY <1>6 DEF BusInUse, busVars, slotVars, thrVars, gpioVars, histVars
<1>7. CASE StartTransfer
  BY <1>7 DEF StartTransfer, Bus!Handled, thrVars, gpioVars, histVars
<1>8. CASE StartRefused
  BY <1>8 DEF StartRefused, I2cBus!Wedge, busVars, thrVars, gpioVars,
    histVars
<1>9. CASE ReturnFail
  BY <1>9 DEF ReturnFail, busVars, thrVars, gpioVars, histVars
<1>10. CASE PostWake
  BY <1>10 DEF PostWake, Bus!Handled, Post, slotVars, gpioVars, histVars
<1>11. CASE SetGpio
  BY <1>11 DEF SetGpio, Bus!Handled, Handling, slotVars, thrVars, histVars
<1>12. CASE GetGpio
  BY <1>12 DEF GetGpio, Handling, gpio_read, busVars, slotVars, thrVars,
    histVars
<1>13. CASE SendValue
  BY <1>13 DEF SendValue, Bus!Send, slotVars, thrVars, gpioVars, histVars
<1>14. CASE Return
  BY <1>14 DEF Return, Bus!Handled, slotVars, thrVars, gpioVars, histVars
<1>15. CASE MessageDone
  BY <1>15 DEF MessageDone, Bus!Done, thrVars
<1>16. CASE WaitWake
  BY <1>16 DEF WaitWake, busVars, slotVars, gpioVars, histVars
<1>17. CASE SkipSlot
  BY <1>17 DEF SkipSlot, NextSlot, busVars, slotVars, gpioVars, histVars
<1>18. CASE FillResponse
  BY <1>18 DEF FillResponse, busVars, gpioVars, histVars
<1>19. CASE ClearDone
  BY <1>19 DEF ClearDone, busVars, gpioVars, histVars
<1>20. CASE SendResponse
  BY <1>20 DEF SendResponse, Bus!Send, NextSlot, slotVars, gpioVars,
    histVars
<1>21. CASE OtherSends
  BY <1>21 DEF OtherSends, Bus!Send, slotVars, thrVars, gpioVars, histVars
<1>22. ASSUME NEW b \in Buses, TransferDone(b) PROVE ArraysInv'
  BY <1>22 DEF TransferDone, I2cBus!Finish, InDriver, Post, busVars,
    gpioVars
<1>23. ASSUME NEW b \in Buses, OtherTransaction(b) PROVE ArraysInv'
  BY <1>23 DEF OtherTransaction, I2cBus!Own, I2cBus!Finish, I2cBus!Wedge,
    busVars, slotVars, thrVars, gpioVars, histVars
<1>24. CASE UNCHANGED vars
  BY <1>24 DEF vars, busVars, slotVars, thrVars, gpioVars, histVars
<1>25. QED
  BY <1>1, <1>2, <1>3, <1>4, <1>5, <1>6, <1>7, <1>8, <1>9, <1>10, <1>11,
    <1>12, <1>13, <1>14, <1>15, <1>16, <1>17, <1>18, <1>19, <1>20, <1>21,
    <1>22, <1>23, <1>24 DEF Next, Handler, SpiI2cThread

(* The handler: the request stays what it is until the handler returns.    *)
LEMMA HandlerStep ==
    ASSUME TypeOK, PortInv, HandlerInv, [Next]_vars PROVE HandlerInv'
<1> USE NotIgnored DEF HandlerInv
<1>0. /\ owner \in [Buses -> Trans \cup {None, Stuck}] /\ cmd \in Reqs \cup {None}
      /\ hpc \in {"idle", "start", "driver", "fail", "wake", "gsend", "return"}
  BY DEF TypeOK
<1>1. ASSUME NEW c \in Reqs \cup {None}, HostRuns(c) PROVE HandlerInv'
  BY <1>1, <1>0 DEF HostRuns, Bus!Exchange, slotVars, thrVars, gpioVars,
    histVars
<1>2. CASE RunLost
  BY <1>2, <1>0 DEF RunLost, Bus!Dropped, slotVars, thrVars, gpioVars,
    histVars
<1>3. CASE Ignore
  BY <1>3, <1>0 DEF Ignore, Bus!Handled, Handling, slotVars, thrVars,
    gpioVars, histVars
<1>4. CASE TakeSlot
  BY <1>4, <1>0 DEF TakeSlot, Handling, busVars, thrVars, gpioVars
<1>5. CASE ClaimBus
  BY <1>5, <1>0 DEF ClaimBus, I2cBus!Own, busVars, slotVars, thrVars,
    gpioVars, histVars
<1>6. CASE BusInUse
  BY <1>6, <1>0 DEF BusInUse, busVars, slotVars, thrVars, gpioVars, histVars
<1>7. CASE StartTransfer
  BY <1>7, <1>0 DEF StartTransfer, Bus!Handled, thrVars, gpioVars, histVars
<1>8. CASE StartRefused
  BY <1>8, <1>0 DEF StartRefused, I2cBus!Wedge, busVars, thrVars, gpioVars,
    histVars
<1>9. CASE ReturnFail
  BY <1>9, <1>0 DEF ReturnFail, busVars, thrVars, gpioVars, histVars
<1>10. CASE PostWake
  BY <1>10, <1>0 DEF PostWake, Bus!Handled, Post, slotVars, gpioVars,
    histVars
<1>11. CASE SetGpio
  BY <1>11, <1>0 DEF SetGpio, Bus!Handled, Handling, slotVars, thrVars,
    histVars
<1>12. CASE GetGpio
  BY <1>12, <1>0 DEF GetGpio, Handling, gpio_read, busVars, slotVars,
    thrVars, histVars
<1>13. CASE SendValue
  BY <1>13, <1>0 DEF SendValue, Bus!Send, slotVars, thrVars, gpioVars,
    histVars
<1>14. CASE Return
  BY <1>14, <1>0 DEF Return, Bus!Handled, slotVars, thrVars, gpioVars,
    histVars
<1>15. CASE MessageDone
  BY <1>15, <1>0 DEF MessageDone, Bus!Done, thrVars
<1>16. CASE WaitWake
  BY <1>16, <1>0 DEF WaitWake, busVars, slotVars, gpioVars, histVars
<1>17. CASE SkipSlot
  BY <1>17, <1>0 DEF SkipSlot, NextSlot, busVars, slotVars, gpioVars,
    histVars
<1>18. CASE FillResponse
  BY <1>18, <1>0 DEF FillResponse, busVars, gpioVars, histVars
<1>19. CASE ClearDone
  BY <1>19, <1>0 DEF ClearDone, busVars, gpioVars, histVars
<1>20. CASE SendResponse
  BY <1>20, <1>0 DEF SendResponse, Bus!Send, NextSlot, slotVars, gpioVars,
    histVars
<1>21. CASE OtherSends
  BY <1>21, <1>0 DEF OtherSends, Bus!Send, slotVars, thrVars, gpioVars,
    histVars
<1>22. ASSUME NEW b \in Buses, TransferDone(b) PROVE HandlerInv'
  BY <1>22, <1>0 DEF TransferDone, I2cBus!Finish, InDriver, Post, busVars,
    gpioVars
<1>23. ASSUME NEW b \in Buses, OtherTransaction(b) PROVE HandlerInv'
  <2>1. hpc = "driver" => owner'[cmd.bus] = Slot(cmd.bus)
    BY <1>23, <1>0, Transactions DEF OtherTransaction, I2cBus!Own, I2cBus!Finish,
       I2cBus!Wedge
  <2>2. QED
    BY <1>23, <1>0, <2>1 DEF OtherTransaction, busVars, slotVars, thrVars, gpioVars,
       histVars
<1>24. CASE UNCHANGED vars
  BY <1>24, <1>0 DEF vars, busVars, slotVars, thrVars, gpioVars, histVars
<1>25. QED
  BY <1>1, <1>2, <1>3, <1>4, <1>5, <1>6, <1>7, <1>8, <1>9, <1>10, <1>11,
    <1>12, <1>13, <1>14, <1>15, <1>16, <1>17, <1>18, <1>19, <1>20, <1>21,
    <1>22, <1>23, <1>24 DEF Next, Handler, SpiI2cThread

(* The wake-up: who sets a flag posts the semaphore, and the scan goes on. *)
LEMMA WakeStep ==
    ASSUME TypeOK, HandlerInv, WakeNotLost, [Next]_vars PROVE WakeNotLost'
<1> USE ConverterAssumption DEF WakeNotLost
<1>0. /\ wake \in 0..WakeMax /\ ti \in Buses /\ done \in [Buses -> BOOLEAN]
      /\ tpc \in {"wait", "scan", "clear", "send"} /\ Buses \subseteq Nat
  BY DEF TypeOK, Buses
<1>1. ASSUME NEW c \in Reqs \cup {None}, HostRuns(c) PROVE WakeNotLost'
  BY <1>1, <1>0 DEF HostRuns, Bus!Exchange, slotVars, thrVars, gpioVars,
    histVars
<1>2. CASE RunLost
  BY <1>2, <1>0 DEF RunLost, Bus!Dropped, slotVars, thrVars, gpioVars,
    histVars
<1>3. CASE Ignore
  BY <1>3, <1>0 DEF Ignore, Bus!Handled, Handling, slotVars, thrVars,
    gpioVars, histVars
<1>4. CASE TakeSlot
  BY <1>4, <1>0 DEF TakeSlot, Handling, busVars, thrVars, gpioVars
<1>5. CASE ClaimBus
  BY <1>5, <1>0 DEF ClaimBus, I2cBus!Own, busVars, slotVars, thrVars,
    gpioVars, histVars
<1>6. CASE BusInUse
  BY <1>6, <1>0 DEF BusInUse, busVars, slotVars, thrVars, gpioVars, histVars
<1>7. CASE StartTransfer
  BY <1>7, <1>0 DEF StartTransfer, Bus!Handled, thrVars, gpioVars, histVars
<1>8. CASE StartRefused
  BY <1>8, <1>0 DEF StartRefused, I2cBus!Wedge, busVars, thrVars, gpioVars,
    histVars
<1>9. CASE ReturnFail
  BY <1>9, <1>0 DEF ReturnFail, busVars, thrVars, gpioVars, histVars
<1>10. CASE PostWake
  BY <1>10, <1>0 DEF PostWake, Bus!Handled, Post, slotVars, gpioVars,
    histVars
<1>11. CASE SetGpio
  BY <1>11, <1>0 DEF SetGpio, Bus!Handled, Handling, slotVars, thrVars,
    histVars
<1>12. CASE GetGpio
  BY <1>12, <1>0 DEF GetGpio, Handling, gpio_read, busVars, slotVars,
    thrVars, histVars
<1>13. CASE SendValue
  BY <1>13, <1>0 DEF SendValue, Bus!Send, slotVars, thrVars, gpioVars,
    histVars
<1>14. CASE Return
  BY <1>14, <1>0 DEF Return, Bus!Handled, slotVars, thrVars, gpioVars,
    histVars
<1>15. CASE MessageDone
  BY <1>15, <1>0 DEF MessageDone, Bus!Done, thrVars
<1>16. CASE WaitWake
  BY <1>16, <1>0 DEF WaitWake, busVars, slotVars, gpioVars, histVars
<1>17. CASE SkipSlot
  <2>1. /\ ti' \in Buses /\ tpc' \in {"scan", "wait"}
        /\ tpc' = "wait" => ti = NumBuses - 1 /\ ti' = 0
        /\ tpc' = "scan" => ti' = ti + 1
    BY <1>17, <1>0, Scan DEF SkipSlot
  <2>2. wake' = wake /\ done' = done /\ hpc' = hpc
    BY <1>17 DEF SkipSlot, slotVars
  <2>3. \A b \in Buses : done[b] /\ ti <= b => ti < b /\ tpc' = "scan"
    BY <1>17, <1>0, <2>1 DEF SkipSlot, Buses
  <2>4. QED
    BY <1>17, <1>0, <2>1, <2>2, <2>3 DEF SkipSlot
<1>18. CASE FillResponse
  BY <1>18, <1>0 DEF FillResponse, busVars, gpioVars, histVars
<1>19. CASE ClearDone
  BY <1>19, <1>0 DEF ClearDone, busVars, gpioVars, histVars
<1>20. CASE SendResponse
  <2>1. /\ ti' \in Buses /\ tpc' \in {"scan", "wait"}
        /\ tpc' = "wait" => ti = NumBuses - 1 /\ ti' = 0
        /\ tpc' = "scan" => ti' = ti + 1
    BY <1>20, <1>0, Scan DEF SendResponse
  <2>2. wake' = wake /\ done' = done /\ hpc' = hpc
    BY <1>20 DEF SendResponse, slotVars
  <2>3. \A b \in Buses : done[b] /\ ti < b => tpc' = "scan"
    BY <1>20, <1>0, <2>1 DEF SendResponse, Buses
  <2>4. QED
    BY <1>20, <1>0, <2>1, <2>2, <2>3 DEF SendResponse
<1>21. CASE OtherSends
  BY <1>21, <1>0 DEF OtherSends, Bus!Send, slotVars, thrVars, gpioVars,
    histVars
<1>22. ASSUME NEW b \in Buses, TransferDone(b) PROVE WakeNotLost'
  BY <1>22, <1>0 DEF TransferDone, I2cBus!Finish, InDriver, Post, busVars,
    gpioVars
<1>23. ASSUME NEW b \in Buses, OtherTransaction(b) PROVE WakeNotLost'
  BY <1>23, <1>0 DEF OtherTransaction, I2cBus!Own, I2cBus!Finish,
    I2cBus!Wedge, busVars, slotVars, thrVars, gpioVars, histVars
<1>24. CASE UNCHANGED vars
  BY <1>24, <1>0 DEF vars, busVars, slotVars, thrVars, gpioVars, histVars
<1>25. QED
  BY <1>1, <1>2, <1>3, <1>4, <1>5, <1>6, <1>7, <1>8, <1>9, <1>10, <1>11,
    <1>12, <1>13, <1>14, <1>15, <1>16, <1>17, <1>18, <1>19, <1>20, <1>21,
    <1>22, <1>23, <1>24 DEF Next, Handler, SpiI2cThread

(* The replies to GET_GPIO.                                                *)
LEMMA ValueStep ==
    ASSUME TypeOK, PortInv, HandlerInv, ValueInv, [Next]_vars PROVE ValueInv'
<1> USE NotIgnored DEF ValueInv, HandlerInv
<1>0. /\ owner \in [Buses -> Trans \cup {None, Stuck}] /\ cmd \in Reqs \cup {None}
      /\ inuse \in [Buses -> BOOLEAN] /\ done \in [Buses -> BOOLEAN]
      /\ ginuse \in [Gpios -> BOOLEAN] /\ ti \in Buses
      /\ hpc \in {"idle", "start", "driver", "fail", "wake", "gsend", "return"}
      /\ tpc \in {"wait", "scan", "clear", "send"}
  BY DEF TypeOK
<1>00. queue' = queue => Queued' = Queued
  BY DEF Queued
<1>1. ASSUME NEW c \in Reqs \cup {None}, HostRuns(c) PROVE ValueInv'
  BY <1>1, <1>0, <1>00 DEF HostRuns, Bus!Exchange, slotVars, thrVars,
    gpioVars, histVars
<1>2. CASE RunLost
  BY <1>2, <1>0, <1>00 DEF RunLost, Bus!Dropped, slotVars, thrVars, gpioVars,
    histVars
<1>3. CASE Ignore
  BY <1>3, <1>0, <1>00 DEF Ignore, Bus!Handled, Handling, slotVars, thrVars,
    gpioVars, histVars
<1>4. CASE TakeSlot
  BY <1>4, <1>0, <1>00 DEF TakeSlot, Handling, busVars, thrVars, gpioVars
<1>5. CASE ClaimBus
  BY <1>5, <1>0, <1>00 DEF ClaimBus, I2cBus!Own, busVars, slotVars, thrVars,
    gpioVars, histVars
<1>6. CASE BusInUse
  BY <1>6, <1>0, <1>00 DEF BusInUse, busVars, slotVars, thrVars, gpioVars,
    histVars
<1>7. CASE StartTransfer
  BY <1>7, <1>0, <1>00 DEF StartTransfer, Bus!Handled, thrVars, gpioVars,
    histVars
<1>8. CASE StartRefused
  BY <1>8, <1>0, <1>00 DEF StartRefused, I2cBus!Wedge, busVars, thrVars,
    gpioVars, histVars
<1>9. CASE ReturnFail
  BY <1>9, <1>0, <1>00 DEF ReturnFail, busVars, thrVars, gpioVars, histVars
<1>10. CASE PostWake
  BY <1>10, <1>0, <1>00 DEF PostWake, Bus!Handled, Post, slotVars, gpioVars,
    histVars
<1>11. CASE SetGpio
  BY <1>11, <1>0, <1>00 DEF SetGpio, Bus!Handled, Handling, slotVars,
    thrVars, histVars
<1>12. CASE GetGpio
  BY <1>12, <1>0, <1>00 DEF GetGpio, Handling, gpio_read, busVars, slotVars,
    thrVars, histVars
<1>13. CASE SendValue
  <2>1. Queued' = Queued \cup {Val(cmd.gpio)} /\ Val(cmd.gpio) \notin Queued
    BY <1>13, SendQueue, Messages DEF SendValue, HandlerInv
  <2>2. QED
    BY <1>13, <1>0, <2>1, Messages DEF SendValue, Bus!Send, slotVars, thrVars, gpioVars,
       histVars, HandlerInv
<1>14. CASE Return
  BY <1>14, <1>0, <1>00 DEF Return, Bus!Handled, slotVars, thrVars, gpioVars,
    histVars
<1>15. CASE MessageDone
  <2>1. Queued' = Queued \ {cur} /\ cur \in Queued
    BY <1>15, DoneQueue DEF MessageDone
  <2>2. QED
    BY <1>15, <1>0, <2>1, Messages DEF MessageDone, Bus!Done, thrVars
<1>16. CASE WaitWake
  BY <1>16, <1>0, <1>00 DEF WaitWake, busVars, slotVars, gpioVars, histVars
<1>17. CASE SkipSlot
  BY <1>17, <1>0, <1>00 DEF SkipSlot, NextSlot, busVars, slotVars, gpioVars,
    histVars
<1>18. CASE FillResponse
  BY <1>18, <1>0, <1>00 DEF FillResponse, busVars, gpioVars, histVars
<1>19. CASE ClearDone
  BY <1>19, <1>0, <1>00 DEF ClearDone, busVars, gpioVars, histVars
<1>20. CASE SendResponse
  <2>1. Queued' = Queued \cup {Rsp(ti)} /\ Rsp(ti) \notin Queued
    BY <1>20, <1>0, SendQueue, Messages DEF SendResponse
  <2>2. tpc' \in {"scan", "wait"}
    BY <1>20, <1>0, Scan DEF SendResponse
  <2>3. QED
    BY <1>20, <1>0, <2>1, <2>2, Messages DEF SendResponse, Bus!Send, slotVars, gpioVars,
       histVars
<1>21. CASE OtherSends
  <2>1. PICK m \in Others : Queued' = Queued \cup {Other(m)}
    BY <1>21, SendQueue, Messages DEF OtherSends
  <2>2. QED
    BY <1>21, <1>0, <2>1, Messages DEF OtherSends, Bus!Send, slotVars, thrVars, gpioVars,
       histVars
<1>22. ASSUME NEW b \in Buses, TransferDone(b) PROVE ValueInv'
  BY <1>22, <1>0, <1>00 DEF TransferDone, I2cBus!Finish, InDriver, Post,
    busVars, gpioVars
<1>23. ASSUME NEW b \in Buses, OtherTransaction(b) PROVE ValueInv'
  BY <1>23, <1>0, <1>00 DEF OtherTransaction, I2cBus!Own, I2cBus!Finish,
    I2cBus!Wedge, busVars, slotVars, thrVars, gpioVars, histVars
<1>24. CASE UNCHANGED vars
  BY <1>24, <1>0, <1>00 DEF vars, busVars, slotVars, thrVars, gpioVars,
    histVars
<1>25. QED
  BY <1>1, <1>2, <1>3, <1>4, <1>5, <1>6, <1>7, <1>8, <1>9, <1>10, <1>11,
    <1>12, <1>13, <1>14, <1>15, <1>16, <1>17, <1>18, <1>19, <1>20, <1>21,
    <1>22, <1>23, <1>24 DEF Next, Handler, SpiI2cThread

(* The responses: each step moves a request from one hand to the next.     *)
LEMMA HandsStep ==
    ASSUME TypeOK, PortInv, HandlerInv, HandsInv, [Next]_vars PROVE HandsInv'
<1> USE NotIgnored, Transactions DEF HandsInv, OneHand, HandlerInv, AtHandler, InDriver,
        InThread
<1>0. /\ owner \in [Buses -> Trans \cup {None, Stuck}] /\ cmd \in Reqs \cup {None}
      /\ inuse \in [Buses -> BOOLEAN] /\ done \in [Buses -> BOOLEAN]
      /\ ginuse \in [Gpios -> BOOLEAN] /\ ti \in Buses
      /\ hpc \in {"idle", "start", "driver", "fail", "wake", "gsend", "return"}
      /\ tpc \in {"wait", "scan", "clear", "send"}
  BY DEF TypeOK
<1>00. queue' = queue => Queued' = Queued
  BY DEF Queued
<1>1. ASSUME NEW c \in Reqs \cup {None}, HostRuns(c) PROVE HandsInv'
  BY <1>1, <1>0, <1>00 DEF HostRuns, Bus!Exchange, slotVars, thrVars,
    gpioVars, histVars
<1>2. CASE RunLost
  BY <1>2, <1>0, <1>00 DEF RunLost, Bus!Dropped, slotVars, thrVars, gpioVars,
    histVars
<1>3. CASE Ignore
  BY <1>3, <1>0, <1>00 DEF Ignore, Bus!Handled, Handling, slotVars, thrVars,
    gpioVars, histVars
<1>4. CASE TakeSlot
  BY <1>4, <1>0, <1>00 DEF TakeSlot, Handling, busVars, thrVars, gpioVars
<1>5. CASE ClaimBus
  BY <1>5, <1>0, <1>00 DEF ClaimBus, I2cBus!Own, busVars, slotVars, thrVars,
    gpioVars, histVars
<1>6. CASE BusInUse
  BY <1>6, <1>0, <1>00 DEF BusInUse, busVars, slotVars, thrVars, gpioVars,
    histVars
<1>7. CASE StartTransfer
  BY <1>7, <1>0, <1>00 DEF StartTransfer, Bus!Handled, thrVars, gpioVars,
    histVars
<1>8. CASE StartRefused
  BY <1>8, <1>0, <1>00 DEF StartRefused, I2cBus!Wedge, busVars, thrVars,
    gpioVars, histVars
<1>9. CASE ReturnFail
  BY <1>9, <1>0, <1>00 DEF ReturnFail, busVars, thrVars, gpioVars, histVars
<1>10. CASE PostWake
  BY <1>10, <1>0, <1>00 DEF PostWake, Bus!Handled, Post, slotVars, gpioVars,
    histVars
<1>11. CASE SetGpio
  BY <1>11, <1>0, <1>00 DEF SetGpio, Bus!Handled, Handling, slotVars,
    thrVars, histVars
<1>12. CASE GetGpio
  BY <1>12, <1>0, <1>00 DEF GetGpio, Handling, gpio_read, busVars, slotVars,
    thrVars, histVars
<1>13. CASE SendValue
  <2>1. Queued' = Queued \cup {Val(cmd.gpio)} /\ Val(cmd.gpio) \notin Queued
    BY <1>13, SendQueue, Messages DEF SendValue, HandlerInv
  <2>2. QED
    BY <1>13, <1>0, <2>1, Messages DEF SendValue, Bus!Send, slotVars, thrVars, gpioVars,
       histVars, HandlerInv
<1>14. CASE Return
  BY <1>14, <1>0, <1>00 DEF Return, Bus!Handled, slotVars, thrVars, gpioVars,
    histVars
<1>15. CASE MessageDone
  <2>1. Queued' = Queued \ {cur} /\ cur \in Queued
    BY <1>15, DoneQueue DEF MessageDone
  <2>2. QED
    BY <1>15, <1>0, <2>1, Messages DEF MessageDone, Bus!Done, thrVars
<1>16. CASE WaitWake
  BY <1>16, <1>0, <1>00 DEF WaitWake, busVars, slotVars, gpioVars, histVars
<1>17. CASE SkipSlot
  BY <1>17, <1>0, <1>00 DEF SkipSlot, NextSlot, busVars, slotVars, gpioVars,
    histVars
<1>18. CASE FillResponse
  BY <1>18, <1>0, <1>00 DEF FillResponse, busVars, gpioVars, histVars
<1>19. CASE ClearDone
  BY <1>19, <1>0, <1>00 DEF ClearDone, busVars, gpioVars, histVars
<1>20. CASE SendResponse
  <2>1. Queued' = Queued \cup {Rsp(ti)} /\ Rsp(ti) \notin Queued
    BY <1>20, <1>0, SendQueue, Messages DEF SendResponse
  <2>2. tpc' \in {"scan", "wait"}
    BY <1>20, <1>0, Scan DEF SendResponse
  <2>3. QED
    BY <1>20, <1>0, <2>1, <2>2, Messages DEF SendResponse, Bus!Send, slotVars, gpioVars,
       histVars
<1>21. CASE OtherSends
  <2>1. PICK m \in Others : Queued' = Queued \cup {Other(m)}
    BY <1>21, SendQueue, Messages DEF OtherSends
  <2>2. QED
    BY <1>21, <1>0, <2>1, Messages DEF OtherSends, Bus!Send, slotVars, thrVars, gpioVars,
       histVars
<1>22. ASSUME NEW b \in Buses, TransferDone(b) PROVE HandsInv'
  BY <1>22, <1>0, <1>00 DEF TransferDone, I2cBus!Finish, InDriver, Post,
    busVars, gpioVars
<1>23. ASSUME NEW b \in Buses, OtherTransaction(b) PROVE HandsInv'
  BY <1>23, <1>0, <1>00 DEF OtherTransaction, I2cBus!Own, I2cBus!Finish,
    I2cBus!Wedge, busVars, slotVars, thrVars, gpioVars, histVars
<1>24. CASE UNCHANGED vars
  BY <1>24, <1>0, <1>00 DEF vars, busVars, slotVars, thrVars, gpioVars,
    histVars
<1>25. QED
  BY <1>1, <1>2, <1>3, <1>4, <1>5, <1>6, <1>7, <1>8, <1>9, <1>10, <1>11,
    <1>12, <1>13, <1>14, <1>15, <1>16, <1>17, <1>18, <1>19, <1>20, <1>21,
    <1>22, <1>23, <1>24 DEF Next, Handler, SpiI2cThread

(* The answers: while a slot is in use nobody writes to it but its hand.   *)
LEMMA AnswerStep ==
    ASSUME TypeOK, PortInv, ArraysInv, HandlerInv, HandsInv, AnswerInv, [Next]_vars
    PROVE  AnswerInv'
<1> USE NotIgnored, Transactions DEF AnswerInv, AnswerOf, HandsInv, OneHand, HandlerInv,
        AtHandler, InDriver, InThread, ArraysInv
<1>0. /\ owner \in [Buses -> Trans \cup {None, Stuck}] /\ cmd \in Reqs \cup {None}
      /\ inuse \in [Buses -> BOOLEAN] /\ done \in [Buses -> BOOLEAN]
      /\ status \in [Buses -> {"success", "nack", "error", "minus1"}] /\ ti \in Buses
      /\ hpc \in {"idle", "start", "driver", "fail", "wake", "gsend", "return"}
      /\ tpc \in {"wait", "scan", "clear", "send"}
  BY DEF TypeOK
<1>00. queue' = queue => Queued' = Queued
  BY DEF Queued
<1>1. ASSUME NEW c \in Reqs \cup {None}, HostRuns(c) PROVE AnswerInv'
  BY <1>1, <1>0, <1>00 DEF HostRuns, Bus!Exchange, slotVars, thrVars,
    gpioVars, histVars
<1>2. CASE RunLost
  BY <1>2, <1>0, <1>00 DEF RunLost, Bus!Dropped, slotVars, thrVars, gpioVars,
    histVars
<1>3. CASE Ignore
  BY <1>3, <1>0, <1>00 DEF Ignore, Bus!Handled, Handling, slotVars, thrVars,
    gpioVars, histVars
<1>4. CASE TakeSlot
  BY <1>4, <1>0, <1>00 DEF TakeSlot, Handling, busVars, thrVars, gpioVars
<1>5. CASE ClaimBus
  BY <1>5, <1>0, <1>00 DEF ClaimBus, I2cBus!Own, busVars, slotVars, thrVars,
    gpioVars, histVars
<1>6. CASE BusInUse
  BY <1>6, <1>0, <1>00 DEF BusInUse, busVars, slotVars, thrVars, gpioVars,
    histVars
<1>7. CASE StartTransfer
  BY <1>7, <1>0, <1>00 DEF StartTransfer, Bus!Handled, thrVars, gpioVars,
    histVars
<1>8. CASE StartRefused
  BY <1>8, <1>0, <1>00 DEF StartRefused, I2cBus!Wedge, busVars, thrVars,
    gpioVars, histVars
<1>9. CASE ReturnFail
  BY <1>9, <1>0, <1>00 DEF ReturnFail, busVars, thrVars, gpioVars, histVars
<1>10. CASE PostWake
  BY <1>10, <1>0, <1>00 DEF PostWake, Bus!Handled, Post, slotVars, gpioVars,
    histVars
<1>11. CASE SetGpio
  BY <1>11, <1>0, <1>00 DEF SetGpio, Bus!Handled, Handling, slotVars,
    thrVars, histVars
<1>12. CASE GetGpio
  BY <1>12, <1>0, <1>00 DEF GetGpio, Handling, gpio_read, busVars, slotVars,
    thrVars, histVars
<1>13. CASE SendValue
  <2>1. Queued' = Queued \cup {Val(cmd.gpio)} /\ Val(cmd.gpio) \notin Queued
    BY <1>13, SendQueue, Messages DEF SendValue, HandlerInv
  <2>2. QED
    BY <1>13, <1>0, <2>1, Messages DEF SendValue, Bus!Send, slotVars, thrVars, gpioVars,
       histVars, HandlerInv
<1>14. CASE Return
  BY <1>14, <1>0, <1>00 DEF Return, Bus!Handled, slotVars, thrVars, gpioVars,
    histVars
<1>15. CASE MessageDone
  <2>1. Queued' = Queued \ {cur} /\ cur \in Queued
    BY <1>15, DoneQueue DEF MessageDone
  <2>2. QED
    BY <1>15, <1>0, <2>1, Messages DEF MessageDone, Bus!Done, thrVars
<1>16. CASE WaitWake
  BY <1>16, <1>0, <1>00 DEF WaitWake, busVars, slotVars, gpioVars, histVars
<1>17. CASE SkipSlot
  BY <1>17, <1>0, <1>00 DEF SkipSlot, NextSlot, busVars, slotVars, gpioVars,
    histVars
<1>18. CASE FillResponse
  BY <1>18, <1>0, <1>00 DEF FillResponse, busVars, gpioVars, histVars
<1>19. CASE ClearDone
  BY <1>19, <1>0, <1>00 DEF ClearDone, busVars, gpioVars, histVars
<1>20. CASE SendResponse
  <2>1. Queued' = Queued \cup {Rsp(ti)} /\ Rsp(ti) \notin Queued
    BY <1>20, <1>0, SendQueue, Messages DEF SendResponse
  <2>2. tpc' \in {"scan", "wait"}
    BY <1>20, <1>0, Scan DEF SendResponse
  <2>3. QED
    BY <1>20, <1>0, <2>1, <2>2, Messages DEF SendResponse, Bus!Send, slotVars, gpioVars,
       histVars
<1>21. CASE OtherSends
  <2>1. PICK m \in Others : Queued' = Queued \cup {Other(m)}
    BY <1>21, SendQueue, Messages DEF OtherSends
  <2>2. QED
    BY <1>21, <1>0, <2>1, Messages DEF OtherSends, Bus!Send, slotVars, thrVars, gpioVars,
       histVars
<1>22. ASSUME NEW b \in Buses, TransferDone(b) PROVE AnswerInv'
  <2>1. InDriver(b) /\ Queued' = Queued /\ NoResult.status = "none"
    BY <1>22, <1>00 DEF TransferDone, busVars, NoResult
  <2>2. /\ inuse[b] /\ ~AtHandler(b) /\ ~done[b] /\ ~InThread(b)
        /\ Rsp(b) \notin Queued
        /\ result[b] = NoResult /\ data[b] = Zero /\ ~TooLong(ask[b])
        /\ ~(tpc = "clear" /\ ti = b) /\ addr[b] = ask[b].addr /\ rxcount[b] = ask[b].rx
    BY <2>1
  <2>3. /\ status' = [status EXCEPT ![b] = status'[b]]
        /\ data' = [data EXCEPT ![b] = data'[b]]
        /\ result' = [result EXCEPT ![b] = result'[b]]
        /\ result'[b].status = status'[b] /\ result'[b].data = data'[b]
        /\ status'[b] # "none"
    BY <1>22, <1>0, <2>2 DEF TransferDone
  <2>4. /\ done' = [done EXCEPT ![b] = TRUE] /\ owner' = [owner EXCEPT ![b] = None]
        /\ UNCHANGED <<cmd, inuse, addr, rxcount, hdr, hpc, tpc, ti, ask>>
    BY <1>22 DEF TransferDone, I2cBus!Finish, busVars
  <2>5. ASSUME NEW c \in Buses, inuse'[c], c # b
        PROVE  /\ AtHandler(c)' => ask'[c] = cmd'
               /\ InDriver(c)' => ~TooLong(ask'[c])
               /\ ~TooLong(ask'[c]) => AnswerOf(c)'
    BY <1>0, <2>1, <2>3, <2>4, <2>5
  <2>6. /\ AtHandler(b)' => ask'[b] = cmd'
        /\ InDriver(b)' => ~TooLong(ask'[b])
        /\ ~TooLong(ask'[b]) => AnswerOf(b)'
    BY <1>0, <2>1, <2>2, <2>3, <2>4
  <2>7. QED
    BY <2>5, <2>6
<1>23. ASSUME NEW b \in Buses, OtherTransaction(b) PROVE AnswerInv'
  BY <1>23, <1>0, <1>00 DEF OtherTransaction, I2cBus!Own, I2cBus!Finish,
    I2cBus!Wedge, busVars, slotVars, thrVars, gpioVars, histVars
<1>24. CASE UNCHANGED vars
  BY <1>24, <1>0, <1>00 DEF vars, busVars, slotVars, thrVars, gpioVars,
    histVars
<1>25. QED
  BY <1>1, <1>2, <1>3, <1>4, <1>5, <1>6, <1>7, <1>8, <1>9, <1>10, <1>11,
    <1>12, <1>13, <1>14, <1>15, <1>16, <1>17, <1>18, <1>19, <1>20, <1>21,
    <1>22, <1>23, <1>24 DEF Next, Handler, SpiI2cThread

-----------------------------------------------------------------------------
(* The initial state has it, and every step keeps it.                      *)
LEMMA InitInv == Init => IInv
<1> SUFFICES ASSUME Init PROVE IInv
  OBVIOUS
<1> USE ConverterAssumption DEF Init, Bus!BusInit, I2cBus!I2cInit
<1>1. queue = <<>> /\ Queued = {}
  BY DEF Queued
<1>2. 0 \in Buses /\ queue \in Seq(Msgs) /\ Len(queue) = 0
  BY <1>1 DEF Buses
<1>3. TypeOK
  BY <1>1, <1>2 DEF TypeOK
<1>4. PortInv /\ ArraysInv /\ HandlerInv
  BY <1>1, <1>2 DEF PortInv, ArraysInv, HandlerInv
<1>5. HandsInv /\ AnswerInv
  BY <1>1, Transactions
  DEF HandsInv, OneHand, AtHandler, InDriver, InThread, AnswerInv
<1>6. WakeNotLost /\ ValueInv
  BY <1>1 DEF WakeNotLost, ValueInv
<1>7. QED
  BY <1>3, <1>4, <1>5, <1>6 DEF IInv

(* Each part is kept by its own lemma.                                     *)
LEMMA StepInv == IInv /\ [Next]_vars => IInv'
<1> SUFFICES ASSUME IInv, [Next]_vars PROVE IInv'
  OBVIOUS
<1>1. /\ TypeOK /\ PortInv /\ ArraysInv /\ HandlerInv
      /\ HandsInv /\ WakeNotLost /\ ValueInv /\ AnswerInv
  BY DEF IInv
<1>2. PortInv'
  BY <1>1, PortStep
<1>3. TypeOK'
  BY <1>1, <1>2, TypeStep
<1>4. ArraysInv' /\ HandlerInv'
  BY <1>1, ArraysStep, HandlerStep
<1>5. HandsInv' /\ AnswerInv'
  BY <1>1, HandsStep, AnswerStep
<1>6. WakeNotLost' /\ ValueInv'
  BY <1>1, WakeStep, ValueStep
<1>7. QED
  BY <1>2, <1>3, <1>4, <1>5, <1>6 DEF IInv

(* The invariant that carries the theorems below.                          *)
THEOREM ConverterIInv == Spec => []IInv
<1>1. Init => IInv
  BY InitInv
<1>2. IInv /\ [Next]_vars => IInv'
  BY StepInv
<1>3. QED
  BY <1>1, <1>2, PTL DEF Spec

(* Every variable of the converter keeps its type.                         *)
THEOREM ConverterTypes == Spec => []TypeOK
<1>1. IInv => TypeOK
  BY DEF IInv
<1>2. QED
  BY <1>1, ConverterIInv, PTL

(* The set of the queued messages says the same as InQueue.                *)
LEMMA InQueueIsQueued == ASSUME NEW m PROVE InQueue(m) <=> m \in Queued
BY DEF InQueue, Bus!InQueue, Queued

(* A request for an I2C bus is in exactly one of the hands of the handler, *)
(* the driver, the flag done, spiI2cThread and the transmit queue while    *)
(* its slot is in use, and in none of them otherwise.                      *)
THEOREM OneHandOnly == Spec => []SlotInOneHand
<1>1. ASSUME IInv, NEW b \in Buses
      PROVE  Cardinality(Hands(b)) = (IF inuse[b] THEN 1 ELSE 0)
  <2>1. OneHand(b)
    BY <1>1 DEF IInv, HandsInv
  <2>2. CASE inuse[b]
    <3>1. PICK h \in {"handler", "driver", "flag", "thread", "queue"} : Hands(b) = {h}
      BY <2>1, <2>2, InQueueIsQueued DEF OneHand, Hands
    <3>2. QED
      BY <2>2, <3>1, FS_Singleton
  <2>3. CASE ~inuse[b]
    <3>1. Hands(b) = {}
      BY <2>1, <2>3, InQueueIsQueued DEF OneHand, Hands
    <3>2. QED
      BY <2>3, <3>1, FS_EmptySet
  <2>4. QED
    BY <2>2, <2>3
<1>2. IInv => SlotInOneHand
  BY <1>1 DEF SlotInOneHand
<1>3. QED
  BY <1>2, ConverterIInv, PTL

(* The reply to a GET_GPIO is queued once, or about to be, exactly while   *)
(* the GPIO is marked as in use.                                           *)
THEOREM OneReplyOnly == Spec => []ValueInOneHand
<1>1. IInv => ValueInOneHand
  BY InQueueIsQueued DEF IInv, ValueInv, ValueInOneHand
<1>2. QED
  BY <1>1, ConverterIInv, PTL

(* No wake-up of spiI2cThread is lost between the handler, the interrupt   *)
(* of the I2C driver and the scan of the slots.                            *)
THEOREM NoLostWakeUp == Spec => []WakeNotLost
<1>1. IInv => WakeNotLost
  BY DEF IInv
<1>2. QED
  BY <1>1, ConverterIInv, PTL

(* A response that the host can see answers the request its slot was taken *)
(* for, with what the driver reported for that request.                    *)
THEOREM RightAnswer == Spec => []ResponseAnswersRequest
<1>1. ASSUME IInv, NEW b \in Buses, InQueue(Rsp(b)), ~TooLong(ask[b])
      PROVE  Answers(hdr[b], data[b], ask[b], result[b])
  <2>1. Rsp(b) \in Queued /\ inuse[b]
    BY <1>1, InQueueIsQueued DEF IInv, HandsInv, OneHand
  <2>2. AnswerOf(b)
    BY <1>1, <2>1 DEF IInv, AnswerInv
  <2>3. QED
    BY <2>1, <2>2 DEF AnswerOf, Answers
<1>2. IInv => ResponseAnswersRequest
  BY <1>1 DEF ResponseAnswersRequest
<1>3. QED
  BY <1>2, ConverterIInv, PTL
=============================================================================

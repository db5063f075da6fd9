---------------------------- MODULE ConsoleProofs ----------------------------
(***************************************************************************)
(* The theorems about the console, for every line, every number of buses   *)
(* and of bytes, and a driver that may refuse a transaction: that the two  *)
(* commands which lend a structure of their stack frame have it back when  *)
(* they return, that a command is given the words of the line on the       *)
(* terminal, and that no buffer is overrun.                                *)
(***************************************************************************)
EXTENDS Console, FiniteSetTheorems, WellFoundedInduction, SequenceTheorems, TLAPS

(* The messages that are in the transmit queue.                            *)
Queued == {queue[i] : i \in DOMAIN queue}

(* What the SPI port promises: a message is queued once, and the one that  *)
(* a run carries is the oldest.                                            *)
PortInv ==
    /\ queue \in Seq({Mine, Elsewhere})
    /\ \A i, j \in 1..Len(queue) : queue[i] = queue[j] => i = j
    /\ phase = "idle" => cur = None
    /\ phase = "sent" => cur # None
    /\ cur # None => queue # <<>> /\ cur = queue[1]

(* The bus that the command i2c is given.                                  *)
Claimed == Value(toks[2])

(* Only the wait of the command i2c has t with the driver, or the post of  *)
(* its end; a bus is the console's from the call on until that end.        *)
I2cInv ==
    /\ DOMAIN owner = Buses /\ fly \in BOOLEAN
    /\ cpc # "i2c wait" => ~fly /\ i2c_done_sem = 0
    /\ cpc = "i2c wait" /\ fly => i2c_done_sem = 0
    /\ cpc = "i2c wait" /\ ~fly => i2c_done_sem = 1
    /\ \A b \in Buses : owner[b] = Mine =>
          (cpc = "i2c start" /\ b = Claimed) \/ (fly /\ b = req.bus)

(* Only the wait of the command spi has the message in the queue, or the   *)
(* post of its done().                                                     *)
SpiInv ==
    /\ cpc # "spi wait" => Mine \notin Queued /\ spi_done_sem = 0
    /\ cpc = "spi wait" /\ Mine \in Queued => spi_done_sem = 0
    /\ cpc = "spi wait" /\ Mine \notin Queued => spi_done_sem = 1

FrameInv == PortInv /\ I2cInv /\ SpiInv

-----------------------------------------------------------------------------
(* A word of one character, a semaphore of no or one post, and the first   *)
(* post.                                                                   *)
LEMMA HeadOne == ASSUME NEW c PROVE Head(<<c>>) = c
  OBVIOUS

LEMMA Count ==
    ASSUME NEW s
    PROVE  /\ s = 0 => ~(s > 0)
           /\ s = 1 => s # 0 /\ s - 1 = 0
  OBVIOUS

LEMMA PostOne == Post(0) = 1
  BY ConsoleAssumption DEF Post

-----------------------------------------------------------------------------
(* A message given to spi_send is in the queue with those already there.   *)
LEMMA SendQueue ==
    ASSUME PortInv, NEW m \in {Mine, Elsewhere}, Port!Send(m)
    PROVE  /\ PortInv'
           /\ Queued' = Queued \cup {m} /\ m \notin Queued
<1>1. /\ queue \in Seq({Mine, Elsewhere}) /\ queue' = Append(queue, m)
      /\ \A i \in 1..Len(queue) : queue[i] # m
      /\ phase' = phase /\ cmd' = cmd /\ cur' = cur
  BY DEF PortInv, Port!Send, Port!InQueue
<1>2. /\ queue' \in Seq({Mine, Elsewhere}) /\ Len(queue') = Len(queue) + 1
      /\ \A i \in 1..Len(queue) : queue'[i] = queue[i]
      /\ queue'[Len(queue) + 1] = m
  BY <1>1
<1>3. Queued' = Queued \cup {m} /\ m \notin Queued
  <2>1. Queued' = {queue'[i] : i \in 1..Len(queue')}
    BY <1>2 DEF Queued
  <2>2. Queued = {queue[i] : i \in 1..Len(queue)}
    BY <1>1 DEF Queued
  <2>3. QED
    BY <1>1, <1>2, <2>1, <2>2
<1>4. \A i, j \in 1..Len(queue') : queue'[i] = queue'[j] => i = j
  BY <1>1, <1>2 DEF PortInv
<1>5. cur' # None => queue' # <<>> /\ cur' = queue'[1]
  BY <1>1, <1>2 DEF PortInv
<1>6. QED
  BY <1>1, <1>2, <1>3, <1>4, <1>5 DEF PortInv

(* done() is called for the oldest message, which leaves the queue.        *)
LEMMA DoneQueue ==
    ASSUME PortInv, Port!Done
    PROVE  /\ PortInv'
           /\ Queued' = Queued \ {cur} /\ cur \in Queued
<1>1. /\ queue \in Seq({Mine, Elsewhere}) /\ queue' = Tail(queue) /\ queue # <<>>
      /\ \A i, j \in 1..Len(queue) : queue[i] = queue[j] => i = j
      /\ phase' = "idle" /\ cmd' = cmd /\ cur' = None
      /\ cur = queue[1] /\ cur # None
  BY DEF PortInv, Port!Done
<1>2. /\ Len(queue) > 0 /\ queue' \in Seq({Mine, Elsewhere}) /\ Len(queue') = Len(queue) - 1
      /\ \A i \in 1..Len(queue') : queue'[i] = queue[i + 1]
  BY <1>1
<1>3. Queued' = Queued \ {cur} /\ cur \in Queued
  <2>1. Queued' = {queue'[i] : i \in 1..Len(queue')}
    BY <1>2 DEF Queued
  <2>2. Queued = {queue[i] : i \in 1..Len(queue)}
    BY <1>1 DEF Queued
  <2>3. ASSUME NEW i \in 1..Len(queue')
        PROVE  queue'[i] \in Queued \ {cur}
    <3>1. i + 1 \in 1..Len(queue) /\ i + 1 # 1 /\ 1 \in 1..Len(queue)
      BY <1>1, <1>2
    <3>2. QED
      BY <1>1, <1>2, <2>2, <3>1
  <2>4. ASSUME NEW j \in 1..Len(queue), queue[j] # cur
        PROVE  queue[j] \in Queued'
    <3>1. j - 1 \in 1..Len(queue') /\ (j - 1) + 1 = j
      BY <1>1, <1>2, <2>4
    <3>2. QED
      BY <1>2, <2>1, <3>1
  <2>5. cur \in Queued
    BY <1>1, <1>2, <2>2
  <2>6. QED
    BY <2>1, <2>2, <2>3, <2>4, <2>5
<1>4. \A i, j \in 1..Len(queue') : queue'[i] = queue'[j] => i = j
  BY <1>1, <1>2
<1>5. QED
  BY <1>1, <1>2, <1>3, <1>4 DEF PortInv

(* A run of the host's clock and the handler's return leave the queue as   *)
(* it was.                                                                 *)
LEMMA PhaseStep ==
    ASSUME PortInv,
           \/ Port!Exchange(None)
           \/ Port!Handled \/ UNCHANGED <<queue, phase, cmd, cur>>
    PROVE  PortInv' /\ Queued' = Queued
<1>1. queue' = queue
  BY DEF Port!Exchange, Port!Handled
<1>2. Queued' = Queued
  BY <1>1 DEF Queued
<1>3. CASE Port!Exchange(None)
  <2>1. queue # <<>> => Head(queue) = queue[1]
    BY DEF PortInv
  <2>2. QED
    BY <1>1, <1>2, <1>3, <2>1 DEF PortInv, Port!Exchange
<1>4. CASE Port!Handled
  BY <1>1, <1>2, <1>4 DEF PortInv, Port!Handled
<1>5. CASE UNCHANGED <<queue, phase, cmd, cur>>
  BY <1>1, <1>2, <1>5 DEF PortInv
<1>6. QED
  BY <1>3, <1>4, <1>5

(* Each named part of the invariant is kept by every step.                 *)

(* The port.                                                               *)
LEMMA PortStep ==
    ASSUME PortInv, [Next]_vars PROVE PortInv'
<1>1. ASSUME NEW c \in UNION {Range(l) : l \in Lines}, Key(c)
      PROVE  PortInv'
  BY <1>1, PhaseStep DEF Key, spiVars
<1>2. CASE Backspace
  BY <1>2, PhaseStep DEF Backspace, spiVars
<1>3. CASE Enter
  BY <1>3, PhaseStep DEF Enter, spiVars
<1>4. CASE FirstToken
  BY <1>4, PhaseStep DEF FirstToken, spiVars
<1>5. CASE NextArg
  BY <1>5, PhaseStep DEF NextArg, spiVars
<1>6. CASE Missing
  BY <1>6, PhaseStep DEF Missing, spiVars
<1>7. CASE TraceCommand
  BY <1>7, PhaseStep DEF TraceCommand, spiVars
<1>8. CASE GpioCommand
  BY <1>8, PhaseStep DEF GpioCommand, spiVars
<1>9. CASE I2cCall
  BY <1>9, PhaseStep DEF I2cCall, spiVars
<1>10. CASE I2cBusy
  BY <1>10, PhaseStep DEF I2cBusy, spiVars
<1>11. CASE I2cStart
  BY <1>11, PhaseStep DEF I2cStart, spiVars
<1>12. CASE I2cRefused
  BY <1>12, PhaseStep DEF I2cRefused, spiVars
<1>13. CASE I2cWait
  BY <1>13, PhaseStep DEF I2cWait, spiVars
<1>14. CASE SpiSend
  BY <1>14, SendQueue DEF SpiSend
<1>15. CASE SpiWait
  BY <1>15, PhaseStep DEF SpiWait
<1>16. CASE Prompt
  BY <1>16, PhaseStep DEF Prompt
<1>17. CASE TransferDone
  BY <1>17, PhaseStep DEF TransferDone, spiVars
<1>18. CASE HostRuns
  BY <1>18, PhaseStep DEF HostRuns
<1>19. CASE RunHandled
  BY <1>19, PhaseStep DEF RunHandled
<1>20. CASE MessageDone
  BY <1>20, DoneQueue DEF MessageDone
<1>21. CASE OtherSends
  BY <1>21, SendQueue DEF OtherSends
<1>22. ASSUME NEW b \in Buses, OtherTransaction(b) PROVE PortInv'
  BY <1>22, PhaseStep DEF OtherTransaction, spiVars
<1>23. CASE UNCHANGED vars
  BY <1>23, PhaseStep DEF vars, spiVars
<1>24. QED
  BY <1>1, <1>2, <1>3, <1>4, <1>5, <1>6, <1>7, <1>8, <1>9, <1>10, <1>11,
    <1>12, <1>13, <1>14, <1>15, <1>16, <1>17, <1>18, <1>19, <1>20, <1>21,
    <1>22, <1>23 DEF Next, Command

(* The structure of the command i2c.                                       *)
LEMMA I2cStep ==
    ASSUME I2cInv, [Next]_vars PROVE I2cInv'
<1> USE ConsoleAssumption DEF I2cInv, Mine, Elsewhere
<1>0. toks' = toks => Claimed' = Claimed
  BY DEF Claimed
<1>1. ASSUME NEW c \in UNION {Range(l) : l \in Lines}, Key(c)
      PROVE  I2cInv'
  BY <1>1, <1>0 DEF Key, words, i2cVars, spiVars, others
<1>2. CASE Backspace
  BY <1>2, <1>0 DEF Backspace, words, i2cVars, spiVars, others
<1>3. CASE Enter
  BY <1>3, <1>0 DEF Enter, i2cVars, spiVars, others
<1>4. CASE FirstToken
  <2>1. cpc' \in {"prompt", "g", "i", "s", "t"}
    <3> DEFINE r == i_next_token(tokst)
    <3> HIDE DEF r
    <3>1. \/ r.tok \in {<<c>> : c \in Commands} /\ cpc' = Head(r.tok)
          \/ cpc' = "prompt"
      BY <1>4 DEF FirstToken, r
    <3>2. QED
      BY <3>1, HeadOne DEF Commands
  <2>2. cpc = "command" /\ UNCHANGED <<fly, req, i2c_done_sem, owner>>
    BY <1>4 DEF FirstToken, i2cVars, spiVars
  <2>3. QED
    BY <2>1, <2>2
<1>5. CASE NextArg
  BY <1>5, <1>0 DEF NextArg, Wants, Commands, Take, i2cVars, spiVars, others
<1>6. CASE Missing
  BY <1>6, <1>0 DEF Missing, NoMoreArgs, Commands, line, words, i2cVars,
    spiVars, others
<1>7. CASE TraceCommand
  BY <1>7, <1>0 DEF TraceCommand, NoMoreArgs, line, words, i2cVars, spiVars
<1>8. CASE GpioCommand
  BY <1>8, <1>0 DEF GpioCommand, NoMoreArgs, line, words, i2cVars, spiVars
<1>9. CASE I2cCall
  <2>1. /\ owner[Claimed] = None /\ owner' = [owner EXCEPT ![Claimed] = Mine]
        /\ cpc' = "i2c start" /\ toks' = toks /\ cpc = "i"
        /\ UNCHANGED <<fly, req, i2c_done_sem>>
    BY <1>9 DEF I2cCall, I2cBus!Own, Claimed, words
  <2>2. QED
    BY <1>0, <2>1
<1>10. CASE I2cBusy
  BY <1>10, <1>0 DEF I2cBusy, line, words, i2cVars, spiVars, others
<1>11. CASE I2cStart
  <2>1. /\ req'.bus = Claimed /\ owner' = owner /\ fly' = TRUE
        /\ cpc = "i2c start" /\ cpc' = "i2c wait" /\ i2c_done_sem' = i2c_done_sem
    BY <1>11 DEF I2cStart, Claimed
  <2>2. QED
    BY <2>1
<1>12. CASE I2cRefused
  <2>1. /\ owner' = [owner EXCEPT ![Claimed] = Stuck]
        /\ cpc = "i2c start" /\ cpc' = "prompt" /\ UNCHANGED <<fly, req, i2c_done_sem>>
    BY <1>12 DEF I2cRefused, I2cBus!Wedge, Claimed
  <2>2. QED
    BY <2>1
<1>13. CASE I2cWait
  <2>1. ~fly /\ i2c_done_sem = 1
    BY <1>13, Count DEF I2cWait
  <2>2. i2c_done_sem' = 0
    BY <1>13, <2>1, Count DEF I2cWait
  <2>3. QED
    BY <1>13, <2>1, <2>2 DEF I2cWait, words
<1>14. CASE SpiSend
  BY <1>14, <1>0 DEF SpiSend, Port!Send, line, words, i2cVars, others
<1>15. CASE SpiWait
  BY <1>15, <1>0 DEF SpiWait, line, words, i2cVars, others
<1>16. CASE Prompt
  BY <1>16, <1>0 DEF Prompt, others
<1>17. CASE TransferDone
  <2>1. cpc = "i2c wait" /\ i2c_done_sem = 0 /\ Post(0) = 1
    BY <1>17, PostOne, Count DEF TransferDone
  <2>2. \A b \in Buses : owner'[b] # Mine
    BY <1>17, <2>1 DEF TransferDone, I2cBus!Finish
  <2>3. QED
    BY <1>17, <2>1, <2>2 DEF TransferDone, I2cBus!Finish
<1>18. CASE HostRuns
  BY <1>18, <1>0 DEF HostRuns, Port!Exchange, line, words, i2cVars, others
<1>19. CASE RunHandled
  BY <1>19, <1>0 DEF RunHandled, Port!Handled, line, words, i2cVars, others
<1>20. CASE MessageDone
  BY <1>20, <1>0 DEF MessageDone, Port!Done, Post, line, words, i2cVars,
    others
<1>21. CASE OtherSends
  BY <1>21, <1>0 DEF OtherSends, Port!Send, line, words, i2cVars, others
<1>22. ASSUME NEW b \in Buses, OtherTransaction(b) PROVE I2cInv'
  BY <1>22, <1>0 DEF OtherTransaction, I2cBus!Own, I2cBus!Finish,
    I2cBus!Wedge, line, words, spiVars, others
<1>23. CASE UNCHANGED vars
  BY <1>23, <1>0 DEF vars, i2cVars, spiVars, words, line, others
<1>24. QED
  BY <1>1, <1>2, <1>3, <1>4, <1>5, <1>6, <1>7, <1>8, <1>9, <1>10, <1>11,
    <1>12, <1>13, <1>14, <1>15, <1>16, <1>17, <1>18, <1>19, <1>20, <1>21,
    <1>22, <1>23 DEF Next, Command

(* The message of the command spi.                                         *)
LEMMA SpiStep ==
    ASSUME PortInv, SpiInv, [Next]_vars PROVE SpiInv'
<1> USE ConsoleAssumption DEF SpiInv
<1>0. queue' = queue => Queued' = Queued
  BY DEF Queued
<1>1. ASSUME NEW c \in UNION {Range(l) : l \in Lines}, Key(c)
      PROVE  SpiInv'
  BY <1>1, <1>0 DEF Key, words, i2cVars, spiVars, others
<1>2. CASE Backspace
  BY <1>2, <1>0 DEF Backspace, words, i2cVars, spiVars, others
<1>3. CASE Enter
  BY <1>3, <1>0 DEF Enter, i2cVars, spiVars, others
<1>4. CASE FirstToken
  <2>1. cpc' \in {"prompt", "g", "i", "s", "t"}
    <3> DEFINE r == i_next_token(tokst)
    <3> HIDE DEF r
    <3>1. \/ r.tok \in {<<c>> : c \in Commands} /\ cpc' = Head(r.tok)
          \/ cpc' = "prompt"
      BY <1>4 DEF FirstToken, r
    <3>2. QED
      BY <3>1, HeadOne DEF Commands
  <2>2. cpc = "command" /\ UNCHANGED <<spi_done_sem, queue>>
    BY <1>4 DEF FirstToken, i2cVars, spiVars
  <2>3. QED
    BY <1>0, <2>1, <2>2
<1>5. CASE NextArg
  BY <1>5, <1>0 DEF NextArg, Wants, Commands, Take, i2cVars, spiVars, others
<1>6. CASE Missing
  BY <1>6, <1>0 DEF Missing, NoMoreArgs, Commands, line, words, i2cVars,
    spiVars, others
<1>7. CASE TraceCommand
  BY <1>7, <1>0 DEF TraceCommand, NoMoreArgs, line, words, i2cVars, spiVars
<1>8. CASE GpioCommand
  BY <1>8, <1>0 DEF GpioCommand, NoMoreArgs, line, words, i2cVars, spiVars
<1>9. CASE I2cCall
  BY <1>9, <1>0 DEF I2cCall, I2cBus!Own, line, words, spiVars, others
<1>10. CASE I2cBusy
  BY <1>10, <1>0 DEF I2cBusy, line, words, i2cVars, spiVars, others
<1>11. CASE I2cStart
  BY <1>11, <1>0 DEF I2cStart, line, words, spiVars, others
<1>12. CASE I2cRefused
  BY <1>12, <1>0 DEF I2cRefused, I2cBus!Wedge, line, words, spiVars, others
<1>13. CASE I2cWait
  BY <1>13, <1>0 DEF I2cWait, line, words, spiVars, others
<1>14. CASE SpiSend
  <2>1. Queued' = Queued \cup {Mine}
    BY <1>14, SendQueue DEF SpiSend
  <2>2. QED
    BY <1>14, <2>1 DEF SpiSend, NoMoreArgs, Commands
<1>15. CASE SpiWait
  <2>1. Mine \notin Queued /\ spi_done_sem = 1
    BY <1>15, Count DEF SpiWait
  <2>2. Queued' = Queued /\ spi_done_sem' = 0 /\ cpc' = "prompt"
    BY <1>15, <1>0, <2>1, Count DEF SpiWait
  <2>3. QED
    BY <2>1, <2>2
<1>16. CASE Prompt
  BY <1>16, <1>0 DEF Prompt, others
<1>17. CASE TransferDone
  BY <1>17, <1>0 DEF TransferDone, I2cBus!Finish, Post, line, words,
    spiVars, others
<1>18. CASE HostRuns
  BY <1>18, <1>0 DEF HostRuns, Port!Exchange, line, words, i2cVars, others
<1>19. CASE RunHandled
  BY <1>19, <1>0 DEF RunHandled, Port!Handled, line, words, i2cVars, others
<1>20. CASE MessageDone
  <2>1. Queued' = Queued \ {cur} /\ cur \in Queued
    BY <1>20, DoneQueue DEF MessageDone
  <2>2. cpc = "spi wait" /\ Mine \in Queued => spi_done_sem = 0
    OBVIOUS
  <2>3. cur = Mine => Mine \in Queued /\ cpc = "spi wait" /\ spi_done_sem' = 1
    BY <1>20, <2>1, <2>2, PostOne DEF MessageDone
  <2>4. cur # Mine => spi_done_sem' = spi_done_sem /\ (Mine \in Queued' <=> Mine \in Queued)
    BY <1>20, <2>1 DEF MessageDone
  <2>5. cpc' = cpc
    BY <1>20 DEF MessageDone
  <2>6. QED
    BY <2>1, <2>3, <2>4, <2>5
<1>21. CASE OtherSends
  <2>1. Queued' = Queued \cup {Elsewhere} /\ Elsewhere # Mine
    BY <1>21, SendQueue DEF OtherSends, Mine, Elsewhere
  <2>2. QED
    BY <1>21, <2>1 DEF OtherSends
<1>22. ASSUME NEW b \in Buses, OtherTransaction(b) PROVE SpiInv'
  BY <1>22, <1>0 DEF OtherTransaction, I2cBus!Own, I2cBus!Finish,
    I2cBus!Wedge, line, words, spiVars, others
<1>23. CASE UNCHANGED vars
  BY <1>23, <1>0 DEF vars, i2cVars, spiVars, words, line, others
<1>24. QED
  BY <1>1, <1>2, <1>3, <1>4, <1>5, <1>6, <1>7, <1>8, <1>9, <1>10, <1>11,
    <1>12, <1>13, <1>14, <1>15, <1>16, <1>17, <1>18, <1>19, <1>20, <1>21,
    <1>22, <1>23 DEF Next, Command

-----------------------------------------------------------------------------
(* The invariant that carries the theorem below.                           *)
THEOREM FrameInvariant == Spec => []FrameInv
<1>1. Init => FrameInv
  <2> SUFFICES ASSUME Init PROVE FrameInv
    OBVIOUS
  <2>1. queue = <<>> /\ Queued = {} /\ Len(queue) = 0
    BY DEF Init, Port!BusInit, Queued
  <2>2. PortInv
    BY <2>1 DEF Init, Port!BusInit, PortInv
  <2>3. I2cInv
    BY ConsoleAssumption DEF Init, I2cBus!I2cInit, I2cInv
  <2>4. SpiInv
    BY <2>1 DEF Init, SpiInv
  <2>5. QED
    BY <2>2, <2>3, <2>4 DEF FrameInv
<1>2. FrameInv /\ [Next]_vars => FrameInv'
  BY PortStep, I2cStep, SpiStep DEF FrameInv
<1>3. QED
  BY <1>1, <1>2, PTL DEF Spec

(* A command of the console returns only when neither the I2C driver nor   *)
(* the SPI port has a structure of its frame, and leaves no post behind.   *)
THEOREM FrameStaysFree == Spec => []FrameIsFree
<1>1. FrameInv => FrameIsFree
  <2> SUFFICES ASSUME FrameInv, cpc \in {"read", "command", "prompt"} \cup Commands
               PROVE  /\ ~fly /\ \A b \in Buses : owner[b] # Mine
                      /\ ~Port!InQueue(Mine)
                      /\ i2c_done_sem = 0 /\ spi_done_sem = 0
    BY DEF FrameIsFree
  <2>1. cpc \notin {"i2c start", "i2c wait", "spi wait"}
    BY DEF Commands
  <2>2. ~fly /\ i2c_done_sem = 0 /\ \A b \in Buses : owner[b] # Mine
    BY <2>1 DEF FrameInv, I2cInv
  <2>3. ~Port!InQueue(Mine) /\ spi_done_sem = 0
    BY <2>1 DEF FrameInv, SpiInv, Port!InQueue, Queued
  <2>4. QED
    BY <2>2, <2>3
<1>2. QED
  BY <1>1, FrameInvariant, PTL

-----------------------------------------------------------------------------
(* Induction over numbers, as a statement about sets.                      *)

LEMMA LeastNatural ==
    ASSUME NEW T, T \subseteq Nat, T # {}
    PROVE  \E x \in T : \A y \in T : x <= y
<1> DEFINE R == OpToRel(<, Nat)
<1>1. IsWellFoundedOn(R, Nat)
  BY NatLessThanWellFounded
<1>2. ASSUME NEW x \in Nat, NEW y \in Nat, y < x PROVE <<y, x>> \in R
  BY <1>2 DEF OpToRel
<1> HIDE DEF R
<1>3. PICK x \in T : \A y \in T : ~(<<y, x>> \in R)
  BY <1>1, WFMin
<1>4. ASSUME NEW y \in T PROVE x <= y
  <2>1. x \in Nat /\ y \in Nat
    OBVIOUS
  <2>2. ~(y < x)
    BY <2>1, <1>2, <1>3
  <2>3. QED
    BY <2>1, <2>2
<1>5. QED
  BY <1>4

LEMMA LeastElement ==
    ASSUME NEW T, NEW lo \in Int, T \subseteq Int, \A t \in T : lo <= t, T # {}
    PROVE  \E x \in T : \A y \in T : x <= y
<1> DEFINE U == {t - lo : t \in T}
<1>1. U \subseteq Nat /\ U # {}
  <2>1. ASSUME NEW t \in T PROVE t - lo \in Nat
    <3>1. t \in Int /\ lo <= t
      OBVIOUS
    <3>2. QED
      BY <3>1
  <2>2. QED
    BY <2>1
<1> HIDE DEF U
<1>2. PICK u \in U : \A v \in U : u <= v
  BY <1>1, LeastNatural
<1>3. PICK x \in T : u = x - lo
  BY <1>2 DEF U
<1>4. ASSUME NEW y \in T PROVE x <= y
  <2>1. y - lo \in U /\ x \in Int /\ y \in Int
    BY DEF U
  <2>2. x - lo <= y - lo
    BY <1>2, <1>3, <2>1
  <2>3. QED
    BY <2>1, <2>2
<1>5. QED
  BY <1>4

LEMMA GreatestElement ==
    ASSUME NEW T, NEW hi \in Int, T \subseteq Int, \A t \in T : t <= hi, T # {}
    PROVE  \E x \in T : \A y \in T : y <= x
<1> DEFINE U == {-t : t \in T}
<1>1. U \subseteq Int /\ U # {} /\ -hi \in Int /\ \A u \in U : -hi <= u
  OBVIOUS
<1> HIDE DEF U
<1>2. PICK u \in U : \A v \in U : u <= v
  BY <1>1, LeastElement
<1>3. PICK x \in T : u = -x
  BY <1>2 DEF U
<1>4. ASSUME NEW y \in T PROVE y <= x
  <2>1. -y \in U
    BY DEF U
  <2>2. QED
    BY <1>2, <1>3, <2>1
<1>5. QED
  BY <1>4

LEMMA Induction ==
    ASSUME NEW T, 0 \in T, \A n \in Nat : n \in T => n + 1 \in T
    PROVE  Nat \subseteq T
<1>1. ASSUME Nat \ T # {} PROVE FALSE
  <2>1. PICK x \in Nat \ T : \A y \in Nat \ T : x <= y
    BY <1>1, LeastNatural
  <2>2. x # 0 /\ x - 1 \in Nat /\ (x - 1) + 1 = x /\ ~(x <= x - 1)
    BY <2>1
  <2>3. QED
    BY <2>1, <2>2
<1>2. QED
  BY <1>1

-----------------------------------------------------------------------------
(* The folds of the library exist: F adds the element at an index.         *)

LEMMA MaxIs ==
    ASSUME NEW n \in Nat, NEW u \in SUBSET (1..n), u # {}
    PROVE  Max(u) \in u /\ \A y \in u : y <= Max(u)
<1>1. u \subseteq Int /\ n \in Int /\ \A y \in u : y <= n
  OBVIOUS
<1>2. \E x \in u : \A y \in u : y <= x
  BY <1>1, GreatestElement
<1>3. PICK x \in u : \A y \in u : y <= x
  BY <1>2
<1>4. \A y \in u : x >= y
  BY <1>1, <1>3
<1>5. \E z \in u : \A y \in u : z >= y
  BY <1>4
<1>6. Max(u) \in u /\ \A y \in u : Max(u) >= y
  BY <1>5 DEF Max
<1>7. QED
  BY <1>1, <1>6

LEMMA MaxOfInterval ==
    ASSUME NEW n \in Nat, NEW u \in SUBSET (1..(n + 1)), n + 1 \in u
    PROVE  Max(u) = n + 1 /\ u \ {Max(u)} \in SUBSET (1..n)
<1>1. Max(u) \in u /\ n + 1 <= Max(u)
  BY MaxIs
<1>2. Max(u) = n + 1
  <2>1. Max(u) \in 1..(n + 1)
    BY <1>1
  <2>2. QED
    BY <1>1, <2>1
<1>3. ASSUME NEW x \in u, x # n + 1 PROVE x \in 1..n
  <2>1. x \in 1..(n + 1)
    OBVIOUS
  <2>2. QED
    BY <1>3, <2>1
<1>4. QED
  BY <1>2, <1>3

Iterates(h, F, base, n) ==
    \A u \in SUBSET (1..n) :
        h[u] = IF u = {} THEN base ELSE F[h[u \ {Max(u)}], Max(u)]

FoldTo(A, F, base, n) == \E h \in [SUBSET (1..n) -> A] : Iterates(h, F, base, n)

LEMMA FoldExists ==
    ASSUME NEW A, NEW base \in A, NEW n \in Nat, NEW F \in [A \X (1..n) -> A]
    PROVE  \E h \in [SUBSET (1..n) -> A] : Iterates(h, F, base, n)
<1> DEFINE T == {k \in Nat : k <= n => FoldTo(A, F, base, k)}
<1>1. 0 \in T
  <2>1. SUBSET (1..0) = {{}}
    OBVIOUS
  <2> DEFINE h == [u \in {{}} |-> base]
  <2>2. h \in [SUBSET (1..0) -> A] /\ h[{}] = base
    BY <2>1
  <2>3. Iterates(h, F, base, 0)
    BY <2>1, <2>2 DEF Iterates
  <2>4. FoldTo(A, F, base, 0)
    BY <2>2, <2>3 DEF FoldTo
  <2>5. QED
    BY <2>4
<1>2. ASSUME NEW k \in Nat, k \in T PROVE k + 1 \in T
  <2> SUFFICES ASSUME k + 1 <= n
               PROVE  FoldTo(A, F, base, k + 1)
    OBVIOUS
  <2>1. k <= n /\ FoldTo(A, F, base, k)
    BY <1>2
  <2>2. PICK g \in [SUBSET (1..k) -> A] : Iterates(g, F, base, k)
    BY <2>1 DEF FoldTo
  <2> DEFINE h == [u \in SUBSET (1..(k + 1)) |->
                     IF u \in SUBSET (1..k) THEN g[u] ELSE F[g[u \ {k + 1}], k + 1]]
  <2>3. ASSUME NEW u \in SUBSET (1..(k + 1)), u \notin SUBSET (1..k)
        PROVE  /\ k + 1 \in u /\ Max(u) = k + 1 /\ u \ {k + 1} \in SUBSET (1..k) /\ u # {}
               /\ h[u] = F[g[u \ {k + 1}], k + 1] /\ h[u] \in A
    <3>1. k + 1 \in u
      BY <2>3
    <3>2. Max(u) = k + 1 /\ u \ {k + 1} \in SUBSET (1..k)
      BY <3>1, MaxOfInterval
    <3>3. g[u \ {k + 1}] \in A /\ k + 1 \in 1..n
      BY <3>2
    <3>4. h[u] = F[g[u \ {k + 1}], k + 1]
      BY <2>3
    <3>5. <<g[u \ {k + 1}], k + 1>> \in A \X (1..n)
      BY <3>3
    <3>6. F[g[u \ {k + 1}], k + 1] \in A
      BY <3>5
    <3>7. QED
      BY <3>1, <3>2, <3>4, <3>6
  <2>4. ASSUME NEW u \in SUBSET (1..k)
        PROVE  u \in SUBSET (1..(k + 1)) /\ h[u] = g[u] /\ h[u] \in A
    <3>1. 1..k \subseteq 1..(k + 1)
      OBVIOUS
    <3>2. u \in SUBSET (1..(k + 1))
      BY <3>1
    <3>3. QED
      BY <3>2
  <2>5. h \in [SUBSET (1..(k + 1)) -> A]
    BY <2>3, <2>4
  <2>6. ASSUME NEW u \in SUBSET (1..(k + 1))
        PROVE  h[u] = IF u = {} THEN base ELSE F[h[u \ {Max(u)}], Max(u)]
    <3> HIDE DEF h
    <3>1. CASE u \in SUBSET (1..k)
      <4>1. u \ {Max(u)} \in SUBSET (1..k)
        BY <3>1
      <4>2. h[u] = g[u] /\ h[u \ {Max(u)}] = g[u \ {Max(u)}]
        BY <2>4, <3>1, <4>1
      <4>3. QED
        BY <2>2, <3>1, <4>2 DEF Iterates
    <3>2. CASE u \notin SUBSET (1..k)
      BY <2>3, <2>4, <3>2
    <3>3. QED
      BY <3>1, <3>2
  <2> HIDE DEF h
  <2>7. Iterates(h, F, base, k + 1)
    BY <2>6 DEF Iterates
  <2>8. QED
    BY <2>5, <2>7 DEF FoldTo
<1> HIDE DEF T
<1>3. n \in T
  BY <1>1, <1>2, Induction
<1>4. FoldTo(A, F, base, n)
  BY <1>3 DEF T
<1>5. QED
  BY <1>4 DEF FoldTo


LEMMA IntervalLess ==
    ASSUME NEW k \in Nat
    PROVE  (1..(k + 1)) \ {k + 1} = 1..k /\ 1..(k + 1) # {}
<1>1. k + 1 \in 1..(k + 1)
  OBVIOUS
<1>2. ASSUME NEW j PROVE j \in (1..(k + 1)) \ {k + 1} <=> j \in 1..k
  OBVIOUS
<1>3. QED
  BY <1>1, <1>2

-----------------------------------------------------------------------------
(* The line and its words.                                                 *)

Letter == STRING \ {NUL}
Word == Seq(Letter) \ {<<>>}
Waits == {"i2c start", "i2c wait", "spi wait"}
Acts == Commands \cup Waits

(* The buffer holds what the terminal shows while it is typed.             *)
LineInv ==
    /\ DOMAIN input = 0..(SIZE - 1) /\ input_pos \in 0..(SIZE - 1)
    /\ shown \in Seq(Letter) /\ Len(shown) = input_pos
    /\ cpc = "read" => \A k \in 0..(input_pos - 1) : input[k] = shown[k + 1]

(* From the tokenizer's place on it holds that still, and the NUL; the     *)
(* place is not inside a word.                                             *)
PlaceInv ==
    cpc \in {"command"} \cup Acts =>
        /\ tokst \in 0..input_pos /\ input[input_pos] = NUL
        /\ \A k \in tokst..(input_pos - 1) : input[k] = shown[k + 1]
        /\ tokst > 0 /\ tokst < input_pos => shown[tokst] = Blank

(* The words before that place are those taken.                            *)
Passed == {r \in Runs(shown) : r[1] <= tokst}

WordsInv ==
    /\ cpc = "command" => toks = <<>>
    /\ cpc \in {"command"} \cup Acts =>
          /\ toks \in Seq(Word)
          /\ Len(toks) = Cardinality(Passed)
          /\ Len(toks) <= Len(Words(shown))
          /\ \A n \in 1..Len(toks) : toks[n] = Words(shown)[n]
    /\ cpc \in Waits => toks = Words(shown)

(* The words taken passed their checks.                                    *)
I2cArgs ==
    /\ Len(toks) <= MaxData + 4
    /\ Len(toks) >= 2 => IsUint(toks[2])
    /\ Len(toks) >= 3 => IsUint8(toks[3])
    /\ Len(toks) >= 4 => /\ Value(toks[2]) < NumBuses
                         /\ IsUint(toks[4]) /\ Value(toks[4]) <= MaxData
    /\ \A n \in 5..Len(toks) : IsUint8(toks[n])

SpiArgs ==
    Len(toks) <= SPI_MSG_LEN + 1 /\ \A n \in 2..Len(toks) : IsUint8(toks[n])

ArgsInv ==
    /\ cpc \in Acts => Len(toks) >= 1
    /\ cpc \in {"i", "i2c start", "i2c wait"} => I2cArgs
    /\ cpc \in {"i2c start", "i2c wait"} => Len(toks) >= 4
    /\ cpc \in {"s", "spi wait"} => SpiArgs

LexInv == LineInv /\ PlaceInv /\ WordsInv /\ ArgsInv

-----------------------------------------------------------------------------
(* What strtoul returns for digits is a number.                            *)

LEMMA DigitIsNat == ASSUME NEW c \in DOMAIN Digit PROVE Digit[c] \in Nat
<1>1. c \in {"0", "1", "2", "7", "9"}
  BY DEF Digit
<1>2. QED
  BY <1>1 DEF Digit

Sums(it, s) ==
    it = [u \in SUBSET DOMAIN s |->
            IF u = {} THEN 0 ELSE LET x == Max(u) IN 10 * it[u \ {x}] + Digit[s[x]]]

LEMMA SumIsFold ==
    ASSUME NEW s
    PROVE  FoldLeft(LAMBDA n, c : 10 * n + Digit[c], 0, s) = (CHOOSE it : Sums(it, s))[DOMAIN s]
BY DEF Sums, FoldLeft, MapThenFoldSet

LEMMA SumIsNat ==
    ASSUME NEW S, NEW s \in Seq(S), \A k \in DOMAIN s : s[k] \in DOMAIN Digit
    PROVE  FoldLeft(LAMBDA m, c : 10 * m + Digit[c], 0, s) \in Nat
<1> DEFINE n == Len(s)
           F == [p \in Nat \X (1..n) |-> 10 * p[1] + Digit[s[p[2]]]]
<1>1. n \in Nat /\ DOMAIN s = 1..n
  OBVIOUS
<1>2. F \in [Nat \X (1..n) -> Nat]
  <2>1. ASSUME NEW p \in Nat \X (1..n) PROVE 10 * p[1] + Digit[s[p[2]]] \in Nat
    <3>1. p[1] \in Nat /\ p[2] \in DOMAIN s
      BY <1>1
    <3>2. Digit[s[p[2]]] \in Nat
      BY <3>1, DigitIsNat
    <3>3. QED
      BY <3>1, <3>2
  <2>2. QED
    BY <2>1
<1>3. PICK h \in [SUBSET (1..n) -> Nat] : Iterates(h, F, 0, n)
  <2> HIDE DEF F, n
  <2>1. 0 \in Nat
    OBVIOUS
  <2>2. QED
    BY <1>1, <1>2, <2>1, FoldExists
<1>4. Sums(h, s)
  <2>1. ASSUME NEW u \in SUBSET (1..n)
        PROVE  h[u] = IF u = {} THEN 0 ELSE 10 * h[u \ {Max(u)}] + Digit[s[Max(u)]]
    <3>1. CASE u = {}
      BY <1>3, <3>1 DEF Iterates
    <3>2. CASE u # {}
      <4>1. Max(u) \in 1..n
        BY <1>1, <3>2, MaxIs
      <4>2. h[u \ {Max(u)}] \in Nat
        OBVIOUS
      <4>3. h[u] = F[h[u \ {Max(u)}], Max(u)]
        BY <1>3, <3>2 DEF Iterates
      <4>4. QED
        BY <3>2, <4>1, <4>2, <4>3
    <3>3. QED
      BY <3>1, <3>2
  <2>2. h = [u \in SUBSET (1..n) |->
               IF u = {} THEN 0 ELSE 10 * h[u \ {Max(u)}] + Digit[s[Max(u)]]]
    <3> HIDE DEF F, n
    <3>1. QED
      BY <2>1
  <2>3. QED
    BY <1>1, <2>2 DEF Sums
<1> DEFINE g == CHOOSE it : Sums(it, s)
<1>5. Sums(g, s)
  <2>1. \E it : Sums(it, s)
    BY <1>4
  <2>2. QED
    BY <2>1
<1> HIDE DEF g, n, F
<1>6. \A u \in SUBSET (1..n) :
         g[u] = IF u = {} THEN 0 ELSE 10 * g[u \ {Max(u)}] + Digit[s[Max(u)]]
  BY <1>1, <1>5 DEF Sums
<1> DEFINE T == {k \in Nat : k <= n => g[1..k] \in Nat}
<1>7. 0 \in T
  <2>1. 1..0 = {} /\ {} \in SUBSET (1..n)
    OBVIOUS
  <2>2. g[1..0] = 0
    BY <1>6, <2>1
  <2>3. QED
    BY <2>2
<1>8. ASSUME NEW k \in Nat, k \in T PROVE k + 1 \in T
  <2> SUFFICES ASSUME k + 1 <= n PROVE g[1..(k + 1)] \in Nat
    OBVIOUS
  <2>1. 1..(k + 1) \in SUBSET (1..n) /\ k + 1 \in 1..(k + 1) /\ k + 1 \in DOMAIN s /\ k <= n
    BY <1>1
  <2>2. Max(1..(k + 1)) = k + 1
    <3>1. 1..(k + 1) \in SUBSET (1..(k + 1))
      OBVIOUS
    <3>2. QED
      BY <2>1, <3>1, MaxOfInterval
  <2>3. (1..(k + 1)) \ {k + 1} = 1..k /\ 1..(k + 1) # {}
    BY IntervalLess
  <2>4. g[1..(k + 1)] = 10 * g[1..k] + Digit[s[k + 1]]
    BY <1>6, <2>1, <2>2, <2>3
  <2>5. g[1..k] \in Nat /\ Digit[s[k + 1]] \in Nat
    BY <1>8, <2>1, DigitIsNat
  <2>6. QED
    BY <2>4, <2>5
<1> HIDE DEF T
<1>9. n \in T
  BY <1>1, <1>7, <1>8, Induction
<1>10. g[DOMAIN s] \in Nat
  BY <1>1, <1>9 DEF T
<1>11. QED
  BY <1>10, SumIsFold DEF g

LEMMA ValueIsNat ==
    ASSUME NEW tok \in Word, IsUint(tok)
    PROVE  Value(tok) \in Nat
<1> DEFINE d == Digits(tok)
           v == FoldLeft(LAMBDA n, c : 10 * n + Digit[c], 0, d)
<1>1. d \in Seq(Letter) /\ \A k \in DOMAIN d : d[k] \in DOMAIN Digit
  BY DEF IsUint, Digits, Word
<1> HIDE DEF d
<1>2. v \in Nat
  BY <1>1, SumIsNat
<1> HIDE DEF v
<1>3. (-v) % (MaxUlong + 1) \in Nat
  BY <1>2, ConsoleAssumption
<1>4. Value(tok) = IF v > MaxUlong THEN MaxUlong
                   ELSE IF Minus(tok) THEN (-v) % (MaxUlong + 1) ELSE v
  BY DEF Value, v, d
<1>5. QED
  BY <1>2, <1>3, <1>4, ConsoleAssumption

-----------------------------------------------------------------------------
(* The runs of a line are finitely many, and the n-th word is the run that *)
(* n - 1 others precede.                                                   *)

LEMMA RunsAreFinite ==
    ASSUME NEW l \in Seq(Letter)
    PROVE  /\ IsFiniteSet(Runs(l)) /\ Cardinality(Runs(l)) \in Nat
           /\ \A r \in Runs(l) : r = <<r[1], r[2]>> /\ r[1] \in 1..Len(l) /\ r[2] \in 1..Len(l)
<1> DEFINE D == 1..Len(l)
<1>1. IsFiniteSet(D)
  BY FS_Interval
<1> HIDE DEF D
<1>2. IsFiniteSet(D \X D)
  BY <1>1, FS_Product
<1>3. Runs(l) \subseteq D \X D
  BY DEF Runs, D
<1>4. IsFiniteSet(Runs(l))
  BY <1>2, <1>3, FS_Subset
<1>5. Cardinality(Runs(l)) \in Nat
  BY <1>4, FS_CardinalityType
<1>6. QED
  BY <1>3, <1>4, <1>5 DEF D

(* Two runs do not begin at the same place.                                *)
LEMMA RunsDiffer ==
    ASSUME NEW l \in Seq(Letter), NEW r \in Runs(l), NEW s \in Runs(l), r[1] = s[1]
    PROVE  r = s
<1>1. /\ r = <<r[1], r[2]>> /\ r[1] \in 1..Len(l) /\ r[2] \in 1..Len(l)
      /\ s = <<s[1], s[2]>> /\ s[1] \in 1..Len(l) /\ s[2] \in 1..Len(l)
      /\ Len(l) \in Nat
  BY RunsAreFinite
<1>2. ASSUME NEW p \in Runs(l), NEW q \in Runs(l), p[1] = q[1],
             p[1] \in Nat, p[2] \in 1..Len(l), q[2] \in 1..Len(l)
      PROVE  ~(p[2] < q[2])
  <2> SUFFICES ASSUME p[2] < q[2] PROVE FALSE
    OBVIOUS
  <2>1. p[1] <= p[2] /\ p[2] + 1 \in q[1]..q[2] /\ p[2] < Len(l)
    BY <1>2 DEF Runs
  <2>2. l[p[2] + 1] = Blank
    BY <2>1 DEF Runs
  <2>3. l[p[2] + 1] # Blank
    BY <2>1 DEF Runs
  <2>4. QED
    BY <2>2, <2>3
<1>3. ~(r[2] < s[2]) /\ ~(s[2] < r[2])
  BY <1>1, <1>2
<1>4. r[2] = s[2]
  BY <1>1, <1>3
<1>5. QED
  BY <1>1, <1>4

LEMMA EarlierCounts ==
    ASSUME NEW l \in Seq(Letter), NEW r \in Runs(l), NEW s \in Runs(l), r[1] < s[1]
    PROVE  /\ Cardinality(Earlier(l, r)) \in Nat /\ Cardinality(Earlier(l, s)) \in Nat
           /\ Cardinality(Earlier(l, r)) < Cardinality(Earlier(l, s))
<1>1. Earlier(l, r) \subseteq Runs(l) /\ Earlier(l, s) \subseteq Runs(l)
  BY DEF Earlier
<1>2. IsFiniteSet(Earlier(l, r)) /\ IsFiniteSet(Earlier(l, s))
  BY <1>1, RunsAreFinite, FS_Subset
<1>3. r[1] \in Int /\ s[1] \in Int /\ \A q \in Runs(l) : q[1] \in Int
  BY RunsAreFinite
<1>4. Earlier(l, r) \subseteq Earlier(l, s)
  BY <1>3 DEF Earlier
<1>5. r \in Earlier(l, s) /\ r \notin Earlier(l, r)
  BY <1>3 DEF Earlier
<1>6. Cardinality(Earlier(l, r)) <= Cardinality(Earlier(l, s))
  BY <1>2, <1>4, FS_Subset
<1>7. Cardinality(Earlier(l, r)) # Cardinality(Earlier(l, s))
  BY <1>2, <1>4, <1>5, FS_Subset
<1>8. Cardinality(Earlier(l, r)) \in Nat /\ Cardinality(Earlier(l, s)) \in Nat
  BY <1>2, FS_CardinalityType
<1>9. QED
  BY <1>6, <1>7, <1>8

LEMMA WordOfRun ==
    ASSUME NEW l \in Seq(Letter), NEW r \in Runs(l)
    PROVE  /\ Cardinality(Earlier(l, r)) \in Nat
           /\ Cardinality(Earlier(l, r)) + 1 \in 1..Len(Words(l))
           /\ Words(l)[Cardinality(Earlier(l, r)) + 1] = SubSeq(l, r[1], r[2])
<1> DEFINE n == Cardinality(Earlier(l, r))
<1>1. Earlier(l, r) \subseteq Runs(l) /\ r \notin Earlier(l, r)
  <2>1. r[1] \in Int
    BY RunsAreFinite
  <2>2. QED
    BY <2>1 DEF Earlier
<1>2. IsFiniteSet(Runs(l)) /\ IsFiniteSet(Earlier(l, r))
  BY <1>1, RunsAreFinite, FS_Subset
<1>3. n \in Nat /\ Cardinality(Runs(l)) \in Nat
  BY <1>2, FS_CardinalityType
<1>4. n < Cardinality(Runs(l))
  <2>1. n <= Cardinality(Runs(l)) /\ (n = Cardinality(Runs(l)) => Earlier(l, r) = Runs(l))
    BY <1>1, <1>2, FS_Subset
  <2>2. QED
    BY <1>1, <1>3, <2>1
<1> HIDE DEF n
<1>5. ASSUME NEW s \in Runs(l), Cardinality(Earlier(l, s)) = n PROVE s = r
  <2>1. r[1] \in Int /\ s[1] \in Int
    BY RunsAreFinite
  <2>2. CASE r[1] < s[1]
    BY <1>3, <1>5, <2>2, EarlierCounts DEF n
  <2>3. CASE s[1] < r[1]
    BY <1>3, <1>5, <2>3, EarlierCounts DEF n
  <2>4. CASE r[1] = s[1]
    BY <2>4, RunsDiffer
  <2>5. QED
    BY <2>1, <2>2, <2>3, <2>4
<1>6. Nth(l, n + 1) = r
  <2>1. (n + 1) - 1 = n
    BY <1>3
  <2>2. \E s \in Runs(l) : Cardinality(Earlier(l, s)) = (n + 1) - 1
    BY <2>1 DEF n
  <2>3. Nth(l, n + 1) \in Runs(l) /\ Cardinality(Earlier(l, Nth(l, n + 1))) = (n + 1) - 1
    BY <2>2 DEF Nth
  <2>4. QED
    BY <1>5, <2>1, <2>3
<1>7. Len(Words(l)) = Cardinality(Runs(l)) /\ DOMAIN Words(l) = 1..Cardinality(Runs(l))
  BY <1>3 DEF Words
<1>8. n + 1 \in 1..Cardinality(Runs(l))
  BY <1>3, <1>4
<1>9. Words(l)[n + 1] = SubSeq(l, r[1], r[2])
  BY <1>6, <1>8 DEF Words
<1>10. QED
  BY <1>3, <1>7, <1>8, <1>9 DEF n

-----------------------------------------------------------------------------
(* The tokenizer.                                                          *)

LEMMA FirstInIs ==
    ASSUME LineInv, NEW cs, NEW a \in Nat, NEW b \in a..(SIZE - 1), input[b] \in cs
    PROVE  /\ FirstIn(cs, a) \in a..b /\ input[FirstIn(cs, a)] \in cs
           /\ \A k \in a..(FirstIn(cs, a) - 1) : input[k] \notin cs
<1>0. SIZE \in Int /\ b \in Int /\ a <= b /\ b <= SIZE - 1
  BY ConsoleAssumption
<1> DEFINE T == {j \in a..(SIZE - 1) : input[j] \in cs}
<1>1. T \subseteq Int /\ T # {} /\ a \in Int /\ \A t \in T : a <= t
  BY <1>0
<1> HIDE DEF T
<1>2. PICK x \in T : \A y \in T : x <= y
  BY <1>1, LeastElement
<1>3. x \in a..(SIZE - 1) /\ input[x] \in cs
  BY <1>2 DEF T
<1>4. ASSUME NEW k \in a..(x - 1) PROVE input[k] \notin cs
  <2>1. k \in a..(SIZE - 1) /\ ~(x <= k)
    BY <1>0, <1>3
  <2>2. QED
    BY <1>2, <2>1 DEF T
<1>5. \E j \in a..(SIZE - 1) : input[j] \in cs /\ \A k \in a..(j - 1) : input[k] \notin cs
  BY <1>3, <1>4
<1> DEFINE f == FirstIn(cs, a)
<1>6. f \in a..(SIZE - 1) /\ input[f] \in cs /\ \A k \in a..(f - 1) : input[k] \notin cs
  BY <1>5 DEF FirstIn
<1> HIDE DEF f
<1>7. f <= b
  <2> SUFFICES ASSUME ~(f <= b) PROVE FALSE
    OBVIOUS
  <2>1. b \in a..(f - 1)
    BY <1>0, <1>6
  <2>2. QED
    BY <1>6, <2>1
<1>8. f \in a..b
  BY <1>0, <1>6, <1>7
<1>9. QED
  BY <1>6, <1>8 DEF f

LEMMA FirstNotInIs ==
    ASSUME LineInv, NEW cs, NEW a \in Nat, NEW b \in a..(SIZE - 1), input[b] \notin cs
    PROVE  /\ FirstNotIn(cs, a) \in a..b /\ input[FirstNotIn(cs, a)] \notin cs
           /\ \A k \in a..(FirstNotIn(cs, a) - 1) : input[k] \in cs
<1>0. SIZE \in Int /\ b \in Int /\ a <= b /\ b <= SIZE - 1
  BY ConsoleAssumption
<1> DEFINE T == {j \in a..(SIZE - 1) : input[j] \notin cs}
<1>1. T \subseteq Int /\ T # {} /\ a \in Int /\ \A t \in T : a <= t
  BY <1>0
<1> HIDE DEF T
<1>2. PICK x \in T : \A y \in T : x <= y
  BY <1>1, LeastElement
<1>3. x \in a..(SIZE - 1) /\ input[x] \notin cs
  BY <1>2 DEF T
<1>4. ASSUME NEW k \in a..(x - 1) PROVE input[k] \in cs
  <2>1. k \in a..(SIZE - 1) /\ ~(x <= k)
    BY <1>0, <1>3
  <2>2. QED
    BY <1>2, <2>1 DEF T
<1>5. \E j \in a..(SIZE - 1) : input[j] \notin cs /\ \A k \in a..(j - 1) : input[k] \in cs
  BY <1>3, <1>4
<1> DEFINE f == FirstNotIn(cs, a)
<1>6. f \in a..(SIZE - 1) /\ input[f] \notin cs /\ \A k \in a..(f - 1) : input[k] \in cs
  BY <1>5 DEF FirstNotIn
<1> HIDE DEF f
<1>7. f <= b
  <2> SUFFICES ASSUME ~(f <= b) PROVE FALSE
    OBVIOUS
  <2>1. b \in a..(f - 1)
    BY <1>0, <1>6
  <2>2. QED
    BY <1>6, <2>1
<1>8. f \in a..b
  BY <1>0, <1>6, <1>7
<1>9. QED
  BY <1>6, <1>8 DEF f

(* A token that is the run q, and the end of the line.                     *)
TakesRun(r, q) ==
    /\ r.tok = SubSeq(shown, q[1], q[2]) /\ q[1] > tokst
    /\ r.input = [input EXCEPT ![q[2]] = NUL]
    /\ r.state \in q[2]..input_pos
    /\ \/ r.state = q[2] /\ q[2] = input_pos
       \/ r.state = q[2] + 1 /\ shown[r.state] = Blank
    /\ \A p \in Runs(shown) : p[1] > tokst => p = q \/ p[1] > r.state

FindsEnd(r) == r.tok = None /\ \A p \in Runs(shown) : p[1] <= tokst

LEMMA TokenIs ==
    ASSUME LineInv, PlaceInv, cpc \in {"command"} \cup Commands
    PROVE  LET r == i_next_token(tokst) IN
           \/ FindsEnd(r)
           \/ r.tok # None /\ \E q \in Runs(shown) : TakesRun(r, q)
<1> DEFINE r == i_next_token(tokst)
           f == FirstNotIn({Blank}, tokst)
           e == FirstIn({Blank, NUL}, f)
           q == <<f + 1, e>>
<1>1. /\ input_pos \in Nat /\ SIZE \in Nat /\ input_pos <= SIZE - 1 /\ Len(shown) = input_pos
      /\ shown \in Seq(Letter) /\ \A k \in 1..input_pos : shown[k] \in STRING /\ shown[k] # NUL
  BY ConsoleAssumption DEF LineInv, Letter
<1>2. /\ tokst \in Nat /\ tokst <= input_pos /\ input[input_pos] = NUL
      /\ \A k \in tokst..(input_pos - 1) : input[k] = shown[k + 1]
      /\ tokst > 0 /\ tokst < input_pos => shown[tokst] = Blank
  BY <1>1 DEF PlaceInv, Acts
<1>3. NUL # Blank
  BY DEF NUL, Blank
<1>4. f \in tokst..input_pos /\ input[f] # Blank /\ \A k \in tokst..(f - 1) : input[k] = Blank
  <2>1. input_pos \in tokst..(SIZE - 1) /\ input[input_pos] \notin {Blank}
    BY <1>1, <1>2, <1>3
  <2> HIDE DEF f
  <2>2. f \in tokst..input_pos /\ input[f] \notin {Blank} /\ \A k \in tokst..(f - 1) : input[k] \in {Blank}
    BY <1>2, <2>1, FirstNotInIs DEF f
  <2>3. QED
    BY <2>2
<1>5. /\ e \in f..input_pos /\ input[e] \in {Blank, NUL}
      /\ \A k \in f..(e - 1) : input[k] # Blank /\ input[k] # NUL
  <2> HIDE DEF f
  <2>1. f \in Nat /\ input_pos \in f..(SIZE - 1) /\ input[input_pos] \in {Blank, NUL}
    BY <1>1, <1>2, <1>4
  <2> HIDE DEF e
  <2>2. /\ e \in f..input_pos /\ input[e] \in {Blank, NUL}
        /\ \A k \in f..(e - 1) : input[k] \notin {Blank, NUL}
    BY <2>1, FirstInIs DEF e
  <2>3. QED
    BY <2>2
<1>6. r = IF input[f] = NUL THEN [tok |-> None, input |-> input, state |-> tokst]
          ELSE [tok   |-> [i \in 1..(e - f) |-> input[f + i - 1]],
                input |-> [input EXCEPT ![e] = NUL],
                state |-> IF input[e] = NUL THEN e ELSE e + 1]
  BY DEF i_next_token
<1> HIDE DEF r, f, e
(* What comes after the tokenizer's place.                                 *)
<1>7. ASSUME NEW p \in Runs(shown), p[1] > tokst
      PROVE  p[1] \in 1..input_pos /\ p[1] > f /\ f < input_pos
  <2>1. p[1] \in 1..input_pos /\ p[2] \in 1..input_pos /\ p[1] <= p[2] /\ shown[p[1]] # Blank
    BY <1>1, RunsAreFinite DEF Runs
  <2>2. p[1] - 1 \in tokst..(input_pos - 1) /\ (p[1] - 1) + 1 = p[1]
    BY <1>1, <1>2, <1>7, <2>1
  <2>3. input[p[1] - 1] # Blank
    BY <1>2, <2>1, <2>2
  <2>4. p[1] - 1 \notin tokst..(f - 1)
    BY <1>4, <2>3
  <2>5. QED
    BY <1>1, <1>2, <1>4, <2>1, <2>2, <2>4
<1>8. CASE input[f] = NUL
  <2>1. f = input_pos
    <3> SUFFICES ASSUME f # input_pos PROVE FALSE
      OBVIOUS
    <3>1. f \in tokst..(input_pos - 1) /\ f + 1 \in 1..input_pos
      BY <1>1, <1>2, <1>4
    <3>2. QED
      BY <1>1, <1>2, <1>8, <3>1
  <2>2. \A p \in Runs(shown) : p[1] <= tokst
    <3> SUFFICES ASSUME NEW p \in Runs(shown) PROVE p[1] <= tokst
      OBVIOUS
    <3>1. p[1] \in Int
      BY <1>1, RunsAreFinite
    <3>2. QED
      BY <1>1, <1>2, <1>7, <2>1, <3>1
  <2>3. QED
    BY <1>6, <1>8, <2>2 DEF FindsEnd, r
<1>9. CASE input[f] # NUL
  <2>1. f \in Nat /\ e \in Nat /\ f < e /\ e <= input_pos /\ tokst <= f
    BY <1>1, <1>2, <1>4, <1>5, <1>9
  <2>2. \A k \in f..(e - 1) : input[k] = shown[k + 1]
    <3> SUFFICES ASSUME NEW k \in f..(e - 1) PROVE input[k] = shown[k + 1]
      OBVIOUS
    <3>1. k \in tokst..(input_pos - 1)
      BY <1>1, <1>2, <2>1
    <3>2. QED
      BY <1>2, <3>1
  <2>3. \A k \in (f + 1)..e : shown[k] # Blank
    <3> SUFFICES ASSUME NEW k \in (f + 1)..e PROVE shown[k] # Blank
      OBVIOUS
    <3>1. k - 1 \in f..(e - 1) /\ (k - 1) + 1 = k
      BY <2>1
    <3>2. QED
      BY <1>5, <2>2, <3>1
  <2>4. e < input_pos => input[e] = shown[e + 1] /\ shown[e + 1] = Blank /\ input[e] # NUL
    <3> SUFFICES ASSUME e < input_pos
                 PROVE  input[e] = shown[e + 1] /\ shown[e + 1] = Blank /\ input[e] # NUL
      OBVIOUS
    <3>1. e \in tokst..(input_pos - 1) /\ e + 1 \in 1..input_pos
      BY <1>1, <1>2, <2>1
    <3>2. input[e] = shown[e + 1] /\ shown[e + 1] # NUL
      BY <1>1, <1>2, <3>1
    <3>3. QED
      BY <1>5, <3>2
  <2>5. f > 0 => shown[f] = Blank
    <3>1. CASE f = tokst
      BY <1>1, <1>2, <2>1, <3>1
    <3>2. CASE f # tokst
      <4>1. f - 1 \in tokst..(f - 1) /\ f - 1 \in tokst..(input_pos - 1) /\ (f - 1) + 1 = f
        BY <1>1, <1>2, <2>1, <3>2
      <4>2. QED
        BY <1>2, <1>4, <4>1
    <3>3. QED
      BY <3>1, <3>2
  <2>6. q \in Runs(shown) /\ q[1] = f + 1 /\ q[2] = e
    <3>1. q \in (1..Len(shown)) \X (1..Len(shown)) /\ q[1] = f + 1 /\ q[2] = e
      BY <1>1, <2>1
    <3>2. q[1] <= q[2] /\ (q[1] > 1 => shown[q[1] - 1] = Blank)
      BY <2>1, <2>5, <3>1
    <3>3. \A k \in q[1]..q[2] : shown[k] # Blank
      BY <2>3, <3>1
    <3>4. q[2] < Len(shown) => shown[q[2] + 1] = Blank
      BY <1>1, <2>4, <3>1
    <3> HIDE DEF q
    <3>5. QED
      BY <3>1, <3>2, <3>3, <3>4 DEF Runs
  <2> HIDE DEF q
  <2>7. r.tok = SubSeq(shown, q[1], q[2])
    <3>1. r.tok = [i \in 1..(e - f) |-> input[f + i - 1]]
      BY <1>6, <1>9
    <3>2. \A i \in 1..(e - f) : input[f + i - 1] = shown[i + f]
      <4> SUFFICES ASSUME NEW i \in 1..(e - f) PROVE input[f + i - 1] = shown[i + f]
        OBVIOUS
      <4>1. f + i - 1 \in f..(e - 1) /\ (f + i - 1) + 1 = i + f
        BY <2>1
      <4>2. QED
        BY <2>2, <4>1
    <3>3. SubSeq(shown, f + 1, e) = [i \in 1..(e - f) |-> shown[i + f]]
      <4>1. SubSeq(shown, f + 1, e) \in Seq(Letter) /\ Len(SubSeq(shown, f + 1, e)) = e - f
        BY <1>1, <2>1
      <4>2. \A i \in 1..(e - f) : SubSeq(shown, f + 1, e)[i] = shown[i + f]
        <5> SUFFICES ASSUME NEW i \in 1..(e - f) PROVE SubSeq(shown, f + 1, e)[i] = shown[i + f]
          OBVIOUS
        <5>1. SubSeq(shown, f + 1, e)[i] = shown[(f + 1) + i - 1] /\ (f + 1) + i - 1 = i + f
          BY <1>1, <2>1
        <5>2. QED
          BY <5>1
      <4>3. SubSeq(shown, f + 1, e) = [i \in 1..(e - f) |-> SubSeq(shown, f + 1, e)[i]]
        BY <4>1
      <4>4. QED
        BY <4>2, <4>3
    <3>4. QED
      BY <2>6, <3>1, <3>2, <3>3
  <2>8. r.tok # None
    <3>1. SubSeq(shown, q[1], q[2]) \in Seq(STRING)
      BY <1>1, <2>1, <2>6 DEF Letter
    <3>2. QED
      BY <2>7, <3>1, ConsoleAssumption
  <2>9. /\ r.input = [input EXCEPT ![q[2]] = NUL] /\ r.state \in q[2]..input_pos
        /\ \/ r.state = q[2] /\ q[2] = input_pos
           \/ r.state = q[2] + 1 /\ shown[r.state] = Blank
    <3>1. r.input = [input EXCEPT ![e] = NUL] /\ r.state = IF input[e] = NUL THEN e ELSE e + 1
      BY <1>6, <1>9
    <3>2. CASE e = input_pos
      BY <1>1, <1>2, <2>1, <2>6, <3>1, <3>2
    <3>3. CASE e < input_pos
      BY <1>1, <2>1, <2>4, <2>6, <3>1, <3>3
    <3>4. QED
      BY <1>1, <2>1, <3>2, <3>3
  <2>10. ASSUME NEW p \in Runs(shown), p[1] > tokst PROVE p = q \/ p[1] > r.state
    <3>1. p[1] \in 1..input_pos /\ p[1] >= q[1] /\ q[1] \in Nat /\ q[2] \in Nat
      BY <1>1, <1>7, <2>1, <2>6, <2>10
    <3>2. CASE p[1] = q[1]
      BY <1>1, <2>6, <3>2, RunsDiffer
    <3>3. CASE p[1] > q[1]
      <4>1. p[1] > 1 /\ q[1] >= 1
        BY <2>1, <2>6, <3>1, <3>3
      <4>2. shown[p[1] - 1] = Blank
        BY <4>1 DEF Runs
      <4>3. p[1] - 1 \notin (f + 1)..e
        BY <2>3, <4>2
      <4>4. p[1] > e + 1
        BY <2>1, <2>6, <3>1, <3>3, <4>3
      <4>5. r.state <= e + 1 /\ r.state \in Int
        BY <1>1, <2>1, <2>6, <2>9
      <4>6. QED
        BY <2>1, <3>1, <4>4, <4>5
    <3>4. QED
      BY <3>1, <3>2, <3>3
  <2>11. q[1] > tokst
    BY <1>2, <2>1, <2>6
  <2>12. TakesRun(r, q)
    BY <2>7, <2>9, <2>10, <2>11 DEF TakesRun
  <2>13. QED
    BY <2>6, <2>8, <2>12 DEF r
<1>10. QED
  BY <1>8, <1>9 DEF r


LEMMA WordSequence ==
    ASSUME NEW s \in Seq(Word)
    PROVE  Len(s) \in Nat /\ \A k \in 1..Len(s) : s[k] \in Word
<1> HIDE DEF Word
<1>1. QED
  OBVIOUS

LEMMA WordAppended ==
    ASSUME NEW s \in Seq(Word), NEW w \in Word
    PROVE  /\ Append(s, w) \in Seq(Word) /\ Len(Append(s, w)) = Len(s) + 1
           /\ \A k \in 1..Len(s) : Append(s, w)[k] = s[k]
           /\ Append(s, w)[Len(s) + 1] = w
OBVIOUS

(* The tokenizer's place after a word is taken, and the words then passed. *)
LEMMA TakeWord ==
    ASSUME LineInv, PlaceInv, WordsInv, cpc \in {"command"} \cup Commands,
           NEW r, r = i_next_token(tokst), r.tok # None, Take(r),
           UNCHANGED <<input_pos, shown>>, cpc' \in {"prompt"} \cup Commands
    PROVE  /\ LineInv' /\ PlaceInv' /\ WordsInv'
           /\ r.tok \in Word
           /\ toks \in Seq(Word) /\ toks' = Append(toks, r.tok)
<1>1. PICK q \in Runs(shown) : TakesRun(r, q)
  BY TokenIs DEF FindsEnd
<1>2. /\ input_pos \in Nat /\ SIZE \in Nat /\ input_pos <= SIZE - 1 /\ Len(shown) = input_pos
      /\ shown \in Seq(Letter) /\ DOMAIN input = 0..(SIZE - 1)
  BY ConsoleAssumption DEF LineInv
<1>3. /\ tokst \in Nat /\ tokst <= input_pos /\ input[input_pos] = NUL
      /\ \A k \in tokst..(input_pos - 1) : input[k] = shown[k + 1]
  BY <1>2 DEF PlaceInv, Acts
<1>4. q = <<q[1], q[2]>> /\ q[1] \in 1..input_pos /\ q[2] \in 1..input_pos /\ q[1] <= q[2]
  BY <1>2, RunsAreFinite DEF Runs
<1>5. /\ toks \in Seq(Word) /\ Len(toks) = Cardinality(Passed)
      /\ Len(toks) <= Len(Words(shown))
      /\ \A n \in 1..Len(toks) : toks[n] = Words(shown)[n]
  BY DEF WordsInv, Acts
<1>6. /\ input' = [input EXCEPT ![q[2]] = NUL] /\ tokst' = r.state
      /\ toks' = Append(toks, SubSeq(shown, q[1], q[2])) /\ toks' = Append(toks, r.tok)
  BY <1>1 DEF Take, TakesRun
<1>7. /\ tokst' \in q[2]..input_pos /\ tokst < q[1]
      /\ \/ tokst' = q[2] /\ q[2] = input_pos
         \/ tokst' = q[2] + 1 /\ shown[tokst'] = Blank
      /\ \A p \in Runs(shown) : p[1] > tokst => p = q \/ p[1] > tokst'
  BY <1>1, <1>3, <1>4, <1>6 DEF TakesRun
<1>8. r.tok \in Word /\ r.tok = SubSeq(shown, q[1], q[2])
  <2>1. r.tok = SubSeq(shown, q[1], q[2])
    BY <1>1 DEF TakesRun
  <2>2. SubSeq(shown, q[1], q[2]) \in Seq(Letter) /\ Len(SubSeq(shown, q[1], q[2])) = q[2] - q[1] + 1
    BY <1>2, <1>4
  <2>3. SubSeq(shown, q[1], q[2]) # <<>>
    <3>1. Len(<<>>) = 0 /\ q[2] - q[1] + 1 # 0
      BY <1>2, <1>4
    <3>2. QED
      BY <2>2, <3>1
  <2>4. QED
    BY <2>1, <2>2, <2>3 DEF Word
<1>9. LineInv'
  BY <1>2, <1>6 DEF LineInv, Commands
<1>10. PlaceInv'
  <2>1. tokst' \in 0..input_pos
    BY <1>2, <1>4, <1>7
  <2>2. input'[input_pos] = NUL
    BY <1>2, <1>3, <1>6
  <2>3. ASSUME NEW k \in tokst'..(input_pos - 1) PROVE input'[k] = shown[k + 1]
    <3>1. k # q[2] /\ k \in tokst..(input_pos - 1) /\ k \in 0..(SIZE - 1)
      BY <1>2, <1>3, <1>4, <1>7
    <3>2. QED
      BY <1>2, <1>3, <1>6, <3>1
  <2>4. tokst' > 0 /\ tokst' < input_pos => shown[tokst'] = Blank
    BY <1>2, <1>4, <1>7
  <2>5. UNCHANGED <<input_pos, shown>>
    OBVIOUS
  <2>6. QED
    BY <2>1, <2>2, <2>3, <2>4, <2>5 DEF PlaceInv
<1>11. Passed = Earlier(shown, q)
  <2>1. ASSUME NEW p \in Runs(shown) PROVE p[1] <= tokst <=> p[1] < q[1]
    <3>1. p[1] \in Int
      BY <1>2, RunsAreFinite
    <3>2. p[1] > tokst => ~(p[1] < q[1])
      BY <1>4, <1>7, <3>1
    <3>3. QED
      BY <1>3, <1>4, <1>7, <3>1, <3>2
  <2>2. QED
    BY <2>1 DEF Passed, Earlier
<1>12. Passed' = Passed \cup {q} /\ q \notin Passed
  <2>1. ASSUME NEW p \in Runs(shown) PROVE p[1] <= tokst' <=> p[1] <= tokst \/ p = q
    <3>1. p[1] \in Int
      BY <1>2, RunsAreFinite
    <3>2. q[1] <= tokst' /\ tokst <= tokst' /\ tokst' \in Int
      BY <1>2, <1>3, <1>4, <1>7
    <3>3. QED
      BY <1>3, <1>7, <3>1, <3>2
  <2>2. Passed' = {p \in Runs(shown) : p[1] <= tokst'}
    BY DEF Passed
  <2>3. q \notin Passed
    BY <1>3, <1>4, <1>7 DEF Passed
  <2>4. QED
    BY <2>1, <2>2, <2>3 DEF Passed
<1>13. Cardinality(Passed') = Len(toks) + 1
  <2>1. IsFiniteSet(Passed)
    BY <1>2, RunsAreFinite, FS_Subset DEF Passed
  <2>2. Cardinality(Passed \cup {q}) = Cardinality(Passed) + 1
    BY <1>12, <2>1, FS_AddElement
  <2>3. QED
    BY <1>5, <1>12, <2>2
<1>14. Len(toks) + 1 \in 1..Len(Words(shown)) /\ Words(shown)[Len(toks) + 1] = r.tok
  BY <1>2, <1>5, <1>8, <1>11, WordOfRun
<1>15. WordsInv'
  <2>1. /\ toks' \in Seq(Word) /\ Len(toks') = Len(toks) + 1
        /\ \A n \in 1..Len(toks) : toks'[n] = toks[n]
        /\ toks'[Len(toks) + 1] = r.tok
    <3>1. toks \in Seq(Word) /\ r.tok \in Word /\ toks' = Append(toks, r.tok)
      BY <1>5, <1>6, <1>8
    <3>2. QED
      BY <3>1, WordAppended
  <2>2. Len(toks') = Cardinality(Passed')
    BY <1>13, <2>1
  <2>3. Len(toks') <= Len(Words(shown)')
    BY <1>14, <2>1
  <2>4. ASSUME NEW n \in 1..Len(toks') PROVE toks'[n] = Words(shown)'[n]
    <3>1. n \in 1..Len(toks) \/ n = Len(toks) + 1
      BY <1>5, <2>1
    <3>2. QED
      BY <1>5, <1>14, <2>1, <3>1
  <2>5. cpc' # "command" /\ cpc' \notin Waits
    BY DEF Commands, Waits
  <2>6. QED
    BY <2>1, <2>2, <2>3, <2>4, <2>5 DEF WordsInv
<1>16. QED
  BY <1>5, <1>6, <1>8, <1>9, <1>10, <1>15

(* When the tokenizer finds no more, the words taken are those of the line.*)
LEMMA AllTaken ==
    ASSUME LineInv, PlaceInv, WordsInv, cpc \in Commands, i_next_token(tokst).tok = None
    PROVE  toks = Words(shown)
<1>1. \A p \in Runs(shown) : p[1] <= tokst
  BY TokenIs DEF FindsEnd
<1>2. Passed = Runs(shown)
  BY <1>1 DEF Passed
<1>3. /\ toks \in Seq(Word) /\ Len(toks) = Cardinality(Runs(shown))
      /\ \A n \in 1..Len(toks) : toks[n] = Words(shown)[n]
  BY <1>2 DEF WordsInv, Acts
<1>4. Words(shown) = [n \in 1..Len(toks) |-> Words(shown)[n]]
  BY <1>3 DEF Words
<1>5. toks = [n \in 1..Len(toks) |-> toks[n]]
  BY <1>3
<1>6. QED
  BY <1>3, <1>4, <1>5


(* A word that is accepted passed its check.                               *)
LEMMA TakeArg ==
    ASSUME ArgsInv, cpc \in Commands, toks \in Seq(Word),
           NEW tok \in Word, toks' = Append(toks, tok),
           cpc' = IF ArgOK(tok) THEN cpc ELSE "prompt"
    PROVE  ArgsInv'
<1> DEFINE n == Len(toks)
<1>1. /\ n \in Nat /\ n >= 1 /\ toks' \in Seq(Word) /\ Len(toks') = n + 1
      /\ \A k \in 1..n : toks'[k] = toks[k]
      /\ toks'[n + 1] = tok
  <2>1. /\ n \in Nat /\ toks' \in Seq(Word) /\ Len(toks') = n + 1
        /\ \A k \in 1..n : toks'[k] = toks[k]
        /\ toks'[n + 1] = tok
    BY WordSequence, WordAppended
  <2>2. n >= 1
    BY DEF ArgsInv, Acts
  <2>3. QED
    BY <2>1, <2>2
<1>2. n \in Nat /\ n >= 1
  BY <1>1
<1> HIDE DEF n
<1>3. CASE ~ArgOK(tok)
  BY <1>3 DEF ArgsInv, Acts, Commands, Waits
<1>4. CASE ArgOK(tok) /\ cpc = "i"
  <2>1. I2cArgs /\ cpc' = "i"
    BY <1>4 DEF ArgsInv
  <2>2. (n = 1 => IsUint(tok)) /\ (n = 2 => IsUint8(tok))
    <3>1. IsUint(tok) \in BOOLEAN /\ IsUint8(tok) \in BOOLEAN
      BY DEF IsUint, IsUint8
    <3>2. CASE n = 1
      BY <1>4, <3>1, <3>2 DEF ArgOK, n
    <3>3. CASE n = 2
      BY <1>4, <3>1, <3>3 DEF ArgOK, n
    <3>4. QED
      BY <3>2, <3>3
  <2>3. n = 3 => IsUint(tok) /\ Value(toks[2]) < NumBuses /\ Value(tok) <= MaxData
    BY <1>4 DEF ArgOK, n
  <2>4. n > 3 => n - 4 < MaxData /\ IsUint8(tok)
    <3> SUFFICES ASSUME n > 3 PROVE n - 4 < MaxData /\ IsUint8(tok)
      OBVIOUS
    <3>1. n # 1 /\ n # 2 /\ n # 3
      BY <1>2
    <3>2. QED
      BY <1>4, <3>1 DEF ArgOK, n
  <2>5. Len(toks') <= MaxData + 4
    BY <1>2, <1>1, <2>4, ConsoleAssumption
  <2>6. Len(toks') >= 2 => IsUint(toks'[2])
    <3>1. CASE n = 1
      BY <1>1, <2>2, <3>1
    <3>2. CASE n >= 2
      <4>1. toks'[2] = toks[2]
        BY <1>1, <3>2
      <4>2. IsUint(toks[2])
        BY <2>1, <3>2 DEF I2cArgs, n
      <4>3. QED
        BY <4>1, <4>2, Zenon
    <3>3. n = 1 \/ n >= 2
      BY <1>2
    <3>4. QED
      BY <3>1, <3>2, <3>3
  <2>7. Len(toks') >= 3 => IsUint8(toks'[3])
    <3>1. CASE n = 1
      BY <1>1, <3>1
    <3>2. CASE n = 2
      BY <1>1, <2>2, <3>2
    <3>3. CASE n >= 3
      <4>1. toks'[3] = toks[3]
        BY <1>1, <3>3
      <4>2. IsUint8(toks[3])
        BY <2>1, <3>3 DEF I2cArgs, n
      <4>3. QED
        BY <4>1, <4>2, Zenon
    <3>4. n = 1 \/ n = 2 \/ n >= 3
      BY <1>2
    <3>5. QED
      BY <3>1, <3>2, <3>3, <3>4
  <2>8. Len(toks') >= 4 => /\ Value(toks'[2]) < NumBuses
                           /\ IsUint(toks'[4]) /\ Value(toks'[4]) <= MaxData
    <3>1. CASE n = 3
      <4>1. toks'[2] = toks[2] /\ toks'[4] = tok
        BY <1>1, <3>1
      <4>2. QED
        BY <2>3, <3>1, <4>1
    <3>2. CASE n >= 4
      <4>1. toks'[2] = toks[2] /\ toks'[4] = toks[4]
        BY <1>1, <3>2
      <4>2. Value(toks[2]) < NumBuses /\ IsUint(toks[4]) /\ Value(toks[4]) <= MaxData
        BY <2>1, <3>2 DEF I2cArgs, n
      <4>3. QED
        BY <4>1, <4>2, Zenon
    <3>3. CASE n < 3
      BY <1>1, <3>3
    <3>4. n < 3 \/ n = 3 \/ n >= 4
      BY <1>2
    <3>5. QED
      BY <3>1, <3>2, <3>3, <3>4
  <2>9. ASSUME NEW k \in 5..Len(toks') PROVE IsUint8(toks'[k])
    <3>1. CASE k = n + 1
      <4>1. n > 3
        BY <1>2, <2>9, <3>1
      <4>2. toks'[k] = tok /\ IsUint8(tok)
        BY <1>1, <2>4, <3>1, <4>1
      <4>3. QED
        BY <4>2, Zenon
    <3>2. CASE k # n + 1
      <4>1. k \in 5..n /\ toks'[k] = toks[k]
        BY <1>1, <3>2
      <4>2. IsUint8(toks[k])
        BY <2>1, <4>1 DEF I2cArgs, n
      <4>3. QED
        BY <4>1, <4>2, Zenon
    <3>3. QED
      BY <3>1, <3>2
  <2>10. I2cArgs'
    BY <2>5, <2>6, <2>7, <2>8, <2>9 DEF I2cArgs
  <2>11. Len(toks') >= 1
    BY <1>1
  <2>12. QED
    BY <2>1, <2>10, <2>11 DEF ArgsInv
<1>5. CASE ArgOK(tok) /\ cpc = "s"
  <2>1. SpiArgs /\ cpc' = "s"
    BY <1>5 DEF ArgsInv
  <2>2. n - 1 < SPI_MSG_LEN /\ IsUint8(tok)
    BY <1>1, <1>5 DEF ArgOK
  <2>3. Len(toks') <= SPI_MSG_LEN + 1
    BY <1>1, <2>2, ConsoleAssumption
  <2>4. ASSUME NEW k \in 2..Len(toks') PROVE IsUint8(toks'[k])
    <3>1. CASE k = n + 1
      <4>1. toks'[k] = tok
        BY <1>1, <3>1
      <4>2. QED
        BY <2>2, <4>1, Zenon
    <3>2. CASE k # n + 1
      <4>1. k \in 2..n /\ toks'[k] = toks[k]
        BY <1>1, <3>2
      <4>2. IsUint8(toks[k])
        BY <2>1, <4>1 DEF SpiArgs, n
      <4>3. QED
        BY <4>1, <4>2, Zenon
    <3>3. QED
      BY <3>1, <3>2
  <2>5. SpiArgs'
    BY <2>3, <2>4 DEF SpiArgs
  <2>6. Len(toks') >= 1
    BY <1>1
  <2>7. QED
    BY <2>1, <2>5, <2>6 DEF ArgsInv
<1>6. CASE ArgOK(tok) /\ cpc \in {"g", "t"}
  <2>1. Len(toks') >= 1 /\ cpc' \in {"g", "t"}
    BY <1>1, <1>6
  <2>2. QED
    BY <2>1 DEF ArgsInv
<1>7. QED
  BY <1>3, <1>4, <1>5, <1>6 DEF Commands

(* What no longer depends on the words is kept while they are.             *)
LEMMA LexQuiet ==
    ASSUME LexInv, UNCHANGED <<input, input_pos, shown, tokst, toks>>,
           \/ cpc' = cpc \/ cpc' = "prompt"
           \/ cpc = "i2c start" /\ cpc' = "i2c wait"
    PROVE  LexInv'
<1>1. LineInv'
  BY DEF LexInv, LineInv
<1>2. PlaceInv'
  BY DEF LexInv, PlaceInv, Acts, Waits, Commands
<1>3. WordsInv'
  <2>1. Passed' = Passed /\ Words(shown)' = Words(shown)
    BY DEF Passed
  <2>2. QED
    BY <2>1 DEF LexInv, WordsInv, Acts, Waits, Commands
<1>4. ArgsInv'
  <2>1. I2cArgs' = I2cArgs /\ SpiArgs' = SpiArgs
    BY DEF I2cArgs, SpiArgs
  <2>2. QED
    BY <2>1 DEF LexInv, ArgsInv, Acts, Waits, Commands
<1>5. QED
  BY <1>1, <1>2, <1>3, <1>4 DEF LexInv

(* A command that is done with its line, and acts.                         *)
LEMMA LexActs ==
    ASSUME LexInv, UNCHANGED <<input, input_pos, shown, tokst, toks>>, NoMoreArgs,
           \/ cpc = "i" /\ Len(toks) >= 4 /\ cpc' = "i2c start"
           \/ cpc = "s" /\ Len(toks) >= 2 /\ cpc' = "spi wait"
    PROVE  LexInv' /\ toks = Words(shown)
<1>1. toks = Words(shown)
  <2>1. Wants
    <3>1. Len(toks) <= MaxArgs[cpc]
      <4>1. CASE cpc = "i"
        BY <4>1 DEF LexInv, ArgsInv, I2cArgs, MaxArgs
      <4>2. CASE cpc = "s"
        BY <4>2 DEF LexInv, ArgsInv, SpiArgs, MaxArgs
      <4>3. QED
        BY <4>1, <4>2
    <3>2. QED
      BY <3>1 DEF Wants, Commands
  <2>2. i_next_token(tokst).tok = None
    BY <2>1 DEF NoMoreArgs
  <2>3. QED
    BY <2>2, AllTaken DEF LexInv, Commands
<1>2. LineInv'
  BY DEF LexInv, LineInv
<1>3. PlaceInv'
  BY DEF LexInv, PlaceInv, Acts, Waits, Commands
<1>4. WordsInv'
  <2>1. Passed' = Passed /\ Words(shown)' = Words(shown)
    BY DEF Passed
  <2>2. QED
    BY <1>1, <2>1 DEF LexInv, WordsInv, Acts, Waits, Commands
<1>5. ArgsInv'
  <2>1. I2cArgs' = I2cArgs /\ SpiArgs' = SpiArgs
    BY DEF I2cArgs, SpiArgs
  <2>2. QED
    BY <2>1 DEF LexInv, ArgsInv, Acts, Waits, Commands
<1>6. QED
  BY <1>1, <1>2, <1>3, <1>4, <1>5 DEF LexInv

LEMMA LetterTyped ==
    ASSUME NEW l \in Lines, NEW c \in Range(l) PROVE c \in Letter
<1>1. l \in Seq(Letter)
  BY ConsoleAssumption DEF Letter
<1>2. PICK k \in DOMAIN l : c = l[k]
  BY DEF Range
<1>3. QED
  BY <1>1, <1>2

LEMMA KeyLine ==
    ASSUME LexInv, NEW c \in Letter, Key(c) PROVE LexInv'
<1>1. /\ input_pos \in 0..(SIZE - 1) /\ SIZE \in Nat /\ DOMAIN input = 0..(SIZE - 1)
      /\ shown \in Seq(Letter) /\ Len(shown) = input_pos /\ cpc = "read" /\ cpc' = "read"
      /\ \A k \in 0..(input_pos - 1) : input[k] = shown[k + 1]
  BY ConsoleAssumption DEF LexInv, LineInv, Key
<1>2. LineInv'
  <2>1. CASE input_pos < SIZE - 1
    <3>1. /\ input' = [input EXCEPT ![input_pos] = c] /\ input_pos' = input_pos + 1
          /\ shown' = Append(shown, c)
      BY <2>1 DEF Key
    <3>2. /\ DOMAIN input' = 0..(SIZE - 1) /\ input_pos' \in 0..(SIZE - 1)
          /\ shown' \in Seq(Letter) /\ Len(shown') = input_pos'
      BY <1>1, <2>1, <3>1
    <3>3. ASSUME NEW k \in 0..(input_pos' - 1) PROVE input'[k] = shown'[k + 1]
      <4>1. CASE k = input_pos
        BY <1>1, <3>1, <4>1
      <4>2. CASE k # input_pos
        <5>1. k \in 0..(input_pos - 1) /\ k \in 0..(SIZE - 1) /\ k + 1 \in 1..Len(shown)
          BY <1>1, <2>1, <3>1, <4>2
        <5>2. input'[k] = input[k] /\ shown'[k + 1] = shown[k + 1]
          BY <1>1, <3>1, <4>2, <5>1
        <5>3. QED
          BY <1>1, <5>1, <5>2
      <4>3. QED
        BY <4>1, <4>2
    <3>4. QED
      BY <3>2, <3>3 DEF LineInv
  <2>2. CASE ~(input_pos < SIZE - 1)
    BY <1>1, <2>2 DEF Key, LineInv
  <2>3. QED
    BY <2>1, <2>2
<1>3. PlaceInv' /\ WordsInv' /\ ArgsInv'
  BY <1>1 DEF PlaceInv, WordsInv, ArgsInv, Acts, Waits, Commands
<1>4. QED
  BY <1>2, <1>3 DEF LexInv

LEMMA BackspaceLine ==
    ASSUME LexInv, Backspace PROVE LexInv'
<1>1. /\ input_pos \in 0..(SIZE - 1) /\ SIZE \in Nat /\ DOMAIN input = 0..(SIZE - 1)
      /\ shown \in Seq(Letter) /\ Len(shown) = input_pos /\ cpc = "read" /\ cpc' = "read"
      /\ \A k \in 0..(input_pos - 1) : input[k] = shown[k + 1]
      /\ input_pos > 0 /\ input_pos' = input_pos - 1 /\ shown' = SubSeq(shown, 1, Len(shown) - 1)
      /\ input' = input
  BY ConsoleAssumption DEF LexInv, LineInv, Backspace, Front
<1>2. /\ input_pos' \in 0..(SIZE - 1) /\ shown' \in Seq(Letter) /\ Len(shown') = input_pos'
      /\ \A k \in 1..input_pos' : shown'[k] = shown[k]
  BY <1>1
<1>3. ASSUME NEW k \in 0..(input_pos' - 1) PROVE input'[k] = shown'[k + 1]
  <2>1. k + 1 \in 1..input_pos' /\ k \in 0..(input_pos - 1)
    BY <1>1
  <2>2. QED
    BY <1>1, <1>2, <2>1
<1>4. LineInv'
  BY <1>1, <1>2, <1>3 DEF LineInv
<1>5. PlaceInv' /\ WordsInv' /\ ArgsInv'
  BY <1>1 DEF PlaceInv, WordsInv, ArgsInv, Acts, Waits, Commands
<1>6. QED
  BY <1>4, <1>5 DEF LexInv

LEMMA EnterLine ==
    ASSUME LexInv, Enter PROVE LexInv'
<1>1. /\ input_pos \in 0..(SIZE - 1) /\ SIZE \in Nat /\ DOMAIN input = 0..(SIZE - 1)
      /\ shown \in Seq(Letter) /\ Len(shown) = input_pos /\ cpc = "read" /\ cpc' = "command"
      /\ \A k \in 0..(input_pos - 1) : input[k] = shown[k + 1]
      /\ input' = [input EXCEPT ![input_pos] = NUL] /\ tokst' = 0 /\ toks' = <<>>
      /\ input_pos' = input_pos /\ shown' = shown
  BY ConsoleAssumption DEF LexInv, LineInv, Enter
<1>2. LineInv'
  BY <1>1 DEF LineInv
<1>3. PlaceInv'
  <2>1. input'[input_pos] = NUL
    BY <1>1
  <2>2. ASSUME NEW k \in 0..(input_pos - 1) PROVE input'[k] = shown[k + 1]
    <3>1. k # input_pos /\ k \in DOMAIN input
      BY <1>1
    <3>2. QED
      BY <1>1, <3>1
  <2>3. 0 \in 0..input_pos
    BY <1>1
  <2>4. QED
    BY <1>1, <2>1, <2>2, <2>3 DEF PlaceInv
<1>4. WordsInv'
  <2>1. Passed' = {}
    <3>1. \A p \in Runs(shown) : ~(p[1] <= 0)
      <4> SUFFICES ASSUME NEW p \in Runs(shown) PROVE ~(p[1] <= 0)
        OBVIOUS
      <4>1. p[1] \in 1..Len(shown)
        BY <1>1, RunsAreFinite
      <4>2. QED
        BY <1>1, <4>1
    <3>2. Passed' = {p \in Runs(shown) : p[1] <= 0}
      BY <1>1 DEF Passed
    <3>3. QED
      BY <3>1, <3>2
  <2>2. Cardinality(Passed') = 0 /\ Len(toks') = 0
    BY <1>1, <2>1, FS_EmptySet
  <2>3. Len(Words(shown)) \in Nat
    <3>1. Cardinality(Runs(shown)) \in Nat
      BY <1>1, RunsAreFinite
    <3>2. Len(Words(shown)) = Cardinality(Runs(shown))
      BY <3>1 DEF Words
    <3>3. QED
      BY <3>1, <3>2
  <2>4. toks' \in Seq(Word)
    BY <1>1
  <2>5. Words(shown)' = Words(shown)
    BY <1>1
  <2>6. cpc' \notin Waits
    BY <1>1 DEF Waits
  <2>7. \A n \in 1..Len(toks') : toks'[n] = Words(shown)'[n]
    BY <2>2
  <2>8. Len(toks') <= Len(Words(shown)')
    BY <2>2, <2>3, <2>5
  <2>9. QED
    BY <1>1, <2>2, <2>4, <2>6, <2>7, <2>8 DEF WordsInv
<1>5. ArgsInv'
  BY <1>1 DEF ArgsInv, Acts, Waits, Commands
<1>6. QED
  BY <1>2, <1>3, <1>4, <1>5 DEF LexInv

LEMMA FirstTokenLine ==
    ASSUME LexInv, FirstToken PROVE LexInv'
<1> DEFINE r == i_next_token(tokst)
<1>1. /\ cpc = "command" /\ UNCHANGED <<input_pos, shown>>
      /\ \/ r.tok = None /\ cpc' = "prompt" /\ UNCHANGED <<input, tokst, toks>>
         \/ /\ r.tok # None /\ Take(r)
            /\ cpc' = IF r.tok \in {<<c>> : c \in Commands} THEN Head(r.tok) ELSE "prompt"
  BY DEF FirstToken, words
<1> HIDE DEF r
<1>2. CASE r.tok = None
  BY <1>1, <1>2, LexQuiet
<1>3. CASE r.tok # None
  <2>1. cpc' \in {"prompt"} \cup Commands
    BY <1>1, <1>3, HeadOne
  <2>2. /\ LineInv' /\ PlaceInv' /\ WordsInv' /\ r.tok \in Word
        /\ toks' = Append(toks, r.tok)
    BY <1>1, <1>3, <2>1, TakeWord DEF LexInv, r
  <2>3. toks = <<>>
    BY <1>1 DEF LexInv, WordsInv
  <2>4. Len(toks') = 1
    BY <2>2, <2>3
  <2>5. ArgsInv'
    <3>1. I2cArgs'
      BY <2>4, ConsoleAssumption DEF I2cArgs
    <3>2. SpiArgs'
      BY <2>4, ConsoleAssumption DEF SpiArgs
    <3>3. cpc' \notin {"i2c start", "i2c wait", "spi wait"}
      BY <2>1 DEF Commands
    <3>4. Len(toks') >= 1
      BY <2>4
    <3>5. QED
      BY <3>1, <3>2, <3>3, <3>4 DEF ArgsInv
  <2>6. QED
    BY <2>2, <2>5 DEF LexInv
<1>4. QED
  BY <1>2, <1>3

LEMMA NextArgLine ==
    ASSUME LexInv, NextArg PROVE LexInv'
<1> DEFINE r == i_next_token(tokst)
<1>1. /\ cpc \in Commands /\ UNCHANGED <<input_pos, shown>> /\ r.tok # None /\ Take(r)
      /\ cpc' = IF ArgOK(r.tok) THEN cpc ELSE "prompt"
  BY DEF NextArg, Wants
<1> HIDE DEF r
<1>2. cpc' \in {"prompt"} \cup Commands
  BY <1>1
<1>3. /\ LineInv' /\ PlaceInv' /\ WordsInv' /\ r.tok \in Word
      /\ toks \in Seq(Word) /\ toks' = Append(toks, r.tok)
  BY <1>1, <1>2, TakeWord DEF LexInv, r
<1>4. ArgsInv'
  BY <1>1, <1>3, TakeArg DEF LexInv
<1>5. QED
  BY <1>3, <1>4 DEF LexInv

LEMMA PromptLine ==
    ASSUME LexInv, Prompt PROVE LexInv'
<1>1. /\ cpc' = "read" /\ input_pos' = 0 /\ shown' = <<>> /\ input' = input
      /\ DOMAIN input = 0..(SIZE - 1) /\ SIZE \in Nat \ {0}
  BY ConsoleAssumption DEF LexInv, LineInv, Prompt
<1>2. LineInv'
  BY <1>1 DEF LineInv
<1>3. PlaceInv' /\ WordsInv' /\ ArgsInv'
  BY <1>1 DEF PlaceInv, WordsInv, ArgsInv, Acts, Waits, Commands
<1>4. QED
  BY <1>2, <1>3 DEF LexInv


(* The line, its words and their checks, in every step.                    *)
LEMMA LexStep ==
    ASSUME LexInv, [Next]_vars PROVE LexInv'
<1>1. ASSUME NEW c \in UNION {Range(l) : l \in Lines}, Key(c)
      PROVE  LexInv'
  <2>1. PICK l \in Lines : c \in Range(l)
    BY <1>1
  <2>2. c \in Letter
    BY <2>1, LetterTyped
  <2>3. QED
    BY <1>1, <2>2, KeyLine
<1>2. CASE Backspace
  BY <1>2, BackspaceLine
<1>3. CASE Enter
  BY <1>3, EnterLine
<1>4. CASE FirstToken
  BY <1>4, FirstTokenLine
<1>5. CASE NextArg
  BY <1>5, NextArgLine
<1>6. CASE Missing
  BY <1>6, LexQuiet DEF Missing, line, words
<1>7. CASE TraceCommand
  BY <1>7, LexQuiet DEF TraceCommand, line, words
<1>8. CASE GpioCommand
  BY <1>8, LexQuiet DEF GpioCommand, line, words
<1>9. CASE I2cCall
  BY <1>9, LexActs DEF I2cCall, line, words
<1>10. CASE I2cBusy
  BY <1>10, LexQuiet DEF I2cBusy, line, words
<1>11. CASE I2cStart
  BY <1>11, LexQuiet DEF I2cStart, line, words
<1>12. CASE I2cRefused
  BY <1>12, LexQuiet DEF I2cRefused, line, words
<1>13. CASE I2cWait
  BY <1>13, LexQuiet DEF I2cWait, line, words
<1>14. CASE SpiSend
  BY <1>14, LexActs DEF SpiSend, line, words
<1>15. CASE SpiWait
  BY <1>15, LexQuiet DEF SpiWait, line, words
<1>16. CASE Prompt
  BY <1>16, PromptLine
<1>17. CASE TransferDone
  BY <1>17, LexQuiet DEF TransferDone, line, words
<1>18. CASE HostRuns
  BY <1>18, LexQuiet DEF HostRuns, line, words
<1>19. CASE RunHandled
  BY <1>19, LexQuiet DEF RunHandled, line, words
<1>20. CASE MessageDone
  BY <1>20, LexQuiet DEF MessageDone, line, words
<1>21. CASE OtherSends
  BY <1>21, LexQuiet DEF OtherSends, line, words
<1>22. ASSUME NEW b \in Buses, OtherTransaction(b) PROVE LexInv'
  BY <1>22, LexQuiet DEF OtherTransaction, line, words
<1>23. CASE UNCHANGED vars
  BY <1>23, LexQuiet DEF vars, line, words
<1>24. QED
  BY <1>1, <1>2, <1>3, <1>4, <1>5, <1>6, <1>7, <1>8, <1>9, <1>10, <1>11,
    <1>12, <1>13, <1>14, <1>15, <1>16, <1>17, <1>18, <1>19, <1>20, <1>21,
    <1>22, <1>23 DEF Next, Command

-----------------------------------------------------------------------------
(* What the driver and the port are given.                                 *)

GivenInv ==
    /\ fly => /\ req.bus \in Buses /\ req.addr <= MaxByte /\ req.rx <= MaxData
              /\ Len(req.tx) <= MaxData /\ \A i \in DOMAIN req.tx : req.tx[i] <= MaxByte
    /\ Mine \in Queued => \A i \in DOMAIN msg : msg[i] <= MaxByte

LEMMA GivenI2c ==
    ASSUME LexInv, I2cStart
    PROVE  /\ req'.bus \in Buses /\ req'.addr <= MaxByte /\ req'.rx <= MaxData
           /\ Len(req'.tx) <= MaxData /\ \A i \in DOMAIN req'.tx : req'.tx[i] <= MaxByte
<1> DEFINE n == Len(toks)
           x == [i \in 1..(n - 4) |-> Value(toks[i + 4])]
<1>1. /\ req'.bus = Value(toks[2]) /\ req'.addr = Value(toks[3]) /\ req'.rx = Value(toks[4])
      /\ req'.tx = x
  BY DEF I2cStart
<1>2. cpc = "i2c start"
  BY DEF I2cStart
<1>3. toks \in Seq(Word)
  BY <1>2 DEF LexInv, WordsInv, Acts, Waits
<1>4. n \in Nat /\ n >= 4 /\ n <= MaxData + 4 /\ MaxData \in Nat
  <2>1. n >= 4 /\ n <= MaxData + 4
    BY <1>2 DEF LexInv, ArgsInv, I2cArgs
  <2>2. n \in Nat
    BY <1>3, WordSequence
  <2>3. QED
    BY <2>1, <2>2, ConsoleAssumption
<1>5. /\ IsUint(toks[2]) /\ Value(toks[2]) < NumBuses /\ IsUint8(toks[3])
      /\ Value(toks[4]) <= MaxData /\ \A k \in 5..n : IsUint8(toks[k])
  <2>1. I2cArgs
    BY <1>2 DEF LexInv, ArgsInv
  <2>2. n >= 2 /\ n >= 3 /\ n >= 4
    BY <1>4
  <2>3. QED
    BY <2>1, <2>2 DEF I2cArgs
<1>6. toks[2] \in Word
  <2>1. 2 \in 1..n
    BY <1>4
  <2>2. QED
    BY <1>3, <2>1, WordSequence
<1> HIDE DEF n
<1>7. Value(toks[2]) \in Buses
  <2>1. Value(toks[2]) \in Nat
    BY <1>5, <1>6, ValueIsNat
  <2>2. QED
    BY <1>5, <2>1, ConsoleAssumption DEF Buses
<1>8. Value(toks[3]) <= MaxByte
  BY <1>5 DEF IsUint8
<1>9. Len(x) = n - 4 /\ DOMAIN x = 1..(n - 4)
  BY <1>4
<1>10. ASSUME NEW i \in 1..(n - 4) PROVE x[i] <= MaxByte
  <2>1. i + 4 \in 5..n
    BY <1>4
  <2>2. Value(toks[i + 4]) <= MaxByte
    BY <1>5, <2>1 DEF IsUint8
  <2>3. x[i] = Value(toks[i + 4])
    OBVIOUS
  <2>4. QED
    BY <2>2, <2>3
<1> HIDE DEF x
<1>11. Len(x) <= MaxData
  BY <1>4, <1>9
<1>12. QED
  BY <1>1, <1>5, <1>7, <1>8, <1>9, <1>10, <1>11

LEMMA GivenSpi ==
    ASSUME LexInv, SpiSend
    PROVE  \A i \in DOMAIN msg' : msg'[i] <= MaxByte
<1>1. cpc = "s" /\ msg' = [i \in 1..SPI_MSG_LEN |-> IF i < Len(toks) THEN Value(toks[i + 1]) ELSE 0]
  BY DEF SpiSend
<1>2. toks \in Seq(Word) /\ Len(toks) \in Nat
  <2>1. toks \in Seq(Word)
    BY <1>1 DEF LexInv, WordsInv, Acts, Commands
  <2>2. QED
    BY <2>1, WordSequence
<1>3. \A k \in 2..Len(toks) : IsUint8(toks[k])
  BY <1>1 DEF LexInv, ArgsInv, SpiArgs
<1>4. ASSUME NEW i \in 1..SPI_MSG_LEN
      PROVE  (IF i < Len(toks) THEN Value(toks[i + 1]) ELSE 0) <= MaxByte
  <2>1. CASE i < Len(toks)
    <3>1. i + 1 \in 2..Len(toks)
      BY <1>2, <2>1, ConsoleAssumption
    <3>2. Value(toks[i + 1]) <= MaxByte
      BY <1>3, <3>1 DEF IsUint8
    <3>3. QED
      BY <2>1, <3>2
  <2>2. CASE ~(i < Len(toks))
    BY <2>2, ConsoleAssumption
  <2>3. QED
    BY <2>1, <2>2
<1>5. QED
  BY <1>1, <1>4

LEMMA OneLess == ASSUME NEW m \in Nat, NEW k \in Nat, m <= k + 1 PROVE m - 1 <= k
OBVIOUS

LEMMA GivenKept ==
    ASSUME GivenInv, UNCHANGED req, fly' => fly, Mine \in Queued' => Mine \in Queued,
           msg' = msg \/ msg' = <<>>
    PROVE  GivenInv'
BY DEF GivenInv

LEMMA GivenStep ==
    ASSUME PortInv, LexInv, GivenInv, [Next]_vars PROVE GivenInv'
<1>0. queue' = queue => Queued' = Queued
  BY DEF Queued
<1>1. ASSUME NEW c \in UNION {Range(l) : l \in Lines}, Key(c)
      PROVE  GivenInv'
  BY <1>0, <1>1, GivenKept DEF Key, i2cVars, spiVars
<1>2. CASE Backspace
  BY <1>0, <1>2, GivenKept DEF Backspace, i2cVars, spiVars
<1>3. CASE Enter
  BY <1>0, <1>3, GivenKept DEF Enter, i2cVars, spiVars
<1>4. CASE FirstToken
  BY <1>0, <1>4, GivenKept DEF FirstToken, i2cVars, spiVars
<1>5. CASE NextArg
  BY <1>0, <1>5, GivenKept DEF NextArg, i2cVars, spiVars
<1>6. CASE Missing
  BY <1>0, <1>6, GivenKept DEF Missing, i2cVars, spiVars
<1>7. CASE TraceCommand
  BY <1>0, <1>7, GivenKept DEF TraceCommand, i2cVars, spiVars
<1>8. CASE GpioCommand
  BY <1>0, <1>8, GivenKept DEF GpioCommand, i2cVars, spiVars
<1>9. CASE I2cCall
  BY <1>0, <1>9, GivenKept DEF I2cCall, i2cVars, spiVars
<1>10. CASE I2cBusy
  BY <1>0, <1>10, GivenKept DEF I2cBusy, i2cVars, spiVars
<1>11. CASE I2cStart
  <2>1. UNCHANGED <<queue, msg>>
    BY <1>11 DEF I2cStart, spiVars
  <2>2. QED
    BY <1>0, <1>11, <2>1, GivenI2c DEF GivenInv
<1>12. CASE I2cRefused
  BY <1>0, <1>12, GivenKept DEF I2cRefused, spiVars
<1>13. CASE I2cWait
  BY <1>0, <1>13, GivenKept DEF I2cWait, spiVars
<1>14. CASE SpiSend
  <2>1. UNCHANGED <<req, fly>>
    BY <1>14 DEF SpiSend, i2cVars
  <2>2. QED
    BY <1>14, <2>1, GivenSpi DEF GivenInv
<1>15. CASE SpiWait
  BY <1>0, <1>15, GivenKept DEF SpiWait, i2cVars
<1>16. CASE Prompt
  BY <1>0, <1>16, GivenKept DEF Prompt
<1>17. CASE TransferDone
  <2>1. ~fly' /\ UNCHANGED <<queue, msg>>
    BY <1>17 DEF TransferDone, spiVars
  <2>2. QED
    BY <1>0, <2>1 DEF GivenInv
<1>18. CASE HostRuns
  <2>1. Queued' = Queued
    BY <1>18, PhaseStep DEF HostRuns
  <2>2. QED
    BY <1>18, <2>1, GivenKept DEF HostRuns, i2cVars
<1>19. CASE RunHandled
  <2>1. Queued' = Queued
    BY <1>19, PhaseStep DEF RunHandled
  <2>2. QED
    BY <1>19, <2>1, GivenKept DEF RunHandled, i2cVars
<1>20. CASE MessageDone
  <2>1. Queued' = Queued \ {cur}
    BY <1>20, DoneQueue DEF MessageDone
  <2>2. QED
    BY <1>20, <2>1, GivenKept DEF MessageDone, i2cVars
<1>21. CASE OtherSends
  <2>1. Queued' = Queued \cup {Elsewhere} /\ Elsewhere # Mine
    BY <1>21, SendQueue DEF OtherSends, Mine, Elsewhere
  <2>2. QED
    BY <1>21, <2>1, GivenKept DEF OtherSends, i2cVars
<1>22. ASSUME NEW b \in Buses, OtherTransaction(b) PROVE GivenInv'
  BY <1>0, <1>22, GivenKept DEF OtherTransaction, spiVars
<1>23. CASE UNCHANGED vars
  BY <1>0, <1>23, GivenKept DEF vars, i2cVars, spiVars
<1>24. QED
  BY <1>1, <1>2, <1>3, <1>4, <1>5, <1>6, <1>7, <1>8, <1>9, <1>10, <1>11,
    <1>12, <1>13, <1>14, <1>15, <1>16, <1>17, <1>18, <1>19, <1>20, <1>21,
    <1>22, <1>23 DEF Next, Command

-----------------------------------------------------------------------------
(* The line as it is edited, cut off and taken apart, what is known of each*)
(* word, and what the driver and the port were given.                      *)
THEOREM ConsoleInvariant == Spec => [](PortInv /\ LexInv /\ GivenInv)
<1>1. Init => PortInv /\ LexInv /\ GivenInv
  <2> SUFFICES ASSUME Init PROVE PortInv /\ LexInv /\ GivenInv
    OBVIOUS
  <2>1. queue = <<>> /\ Queued = {} /\ Len(queue) = 0
    BY DEF Init, Port!BusInit, Queued
  <2>2. PortInv
    BY <2>1 DEF Init, Port!BusInit, PortInv
  <2>3. LineInv
    BY ConsoleAssumption DEF Init, LineInv
  <2>4. PlaceInv /\ WordsInv /\ ArgsInv
    BY DEF Init, PlaceInv, WordsInv, ArgsInv, Acts, Waits, Commands
  <2>5. GivenInv
    BY <2>1 DEF Init, GivenInv
  <2>6. QED
    BY <2>2, <2>3, <2>4, <2>5 DEF LexInv
<1>2. (PortInv /\ LexInv /\ GivenInv) /\ [Next]_vars => (PortInv /\ LexInv /\ GivenInv)'
  BY PortStep, LexStep, GivenStep
<1>3. QED
  BY <1>1, <1>2, PTL DEF Spec

(* No buffer is overrun: the line leaves room for its NUL, the buffers on  *)
(* a command's stack hold what it gives to the driver and to the port, and *)
(* what it gives them as a byte is one.                                    *)
THEOREM BuffersAlwaysHold == Spec => []BuffersHold
<1>1. PortInv /\ LexInv /\ GivenInv => BuffersHold
  <2> SUFFICES ASSUME PortInv, LexInv, GivenInv PROVE BuffersHold
    OBVIOUS
  <2>1. input_pos \in 0..(SIZE - 1)
    BY DEF LexInv, LineInv
  <2>2. cpc = "spi wait" => Len(toks) - 1 <= SPI_MSG_LEN
    <3> SUFFICES ASSUME cpc = "spi wait" PROVE Len(toks) - 1 <= SPI_MSG_LEN
      OBVIOUS
    <3>1. toks \in Seq(Word)
      BY DEF LexInv, WordsInv, Acts, Waits
    <3>2. Len(toks) <= SPI_MSG_LEN + 1
      BY DEF LexInv, ArgsInv, SpiArgs
    <3>3. Len(toks) \in Nat
      BY <3>1, WordSequence
    <3>4. SPI_MSG_LEN \in Nat
      BY ConsoleAssumption
    <3>5. QED
      BY <3>2, <3>3, <3>4, OneLess
  <2>3. Port!InQueue(Mine) => Mine \in Queued
    BY DEF Port!InQueue, Queued
  <2>4. QED
    BY <2>1, <2>2, <2>3 DEF GivenInv, BuffersHold
<1>2. QED
  BY <1>1, ConsoleInvariant, PTL

(* The words a command is given are those of the line on the terminal, and *)
(* it acts when it has had them all.                                       *)
THEOREM LineIsTaken == Spec => []CommandGetsLine
<1>1. PortInv /\ LexInv /\ GivenInv => CommandGetsLine
  <2> SUFFICES ASSUME LexInv PROVE CommandGetsLine
    OBVIOUS
  <2>1. ASSUME cpc \in Acts PROVE IsPrefix(toks, Words(shown))
    <3>1. /\ toks \in Seq(Word) /\ Len(toks) <= Len(Words(shown))
          /\ \A n \in 1..Len(toks) : toks[n] = Words(shown)[n]
      BY <2>1 DEF LexInv, WordsInv
    <3>2. SubSeq(toks, 1, Len(toks)) = [n \in 1..Len(toks) |-> toks[n]]
      BY <3>1
    <3>3. SubSeq(Words(shown), 1, Len(toks)) = [n \in 1..Len(toks) |-> Words(shown)[n]]
      BY <3>1
    <3>4. SubSeq(toks, 1, Len(toks)) = SubSeq(Words(shown), 1, Len(toks))
      BY <3>1, <3>2, <3>3
    <3>5. QED
      BY <3>1, <3>4 DEF IsPrefix
  <2>2. cpc \in Waits => toks = Words(shown)
    BY DEF LexInv, WordsInv
  <2>3. QED
    BY <2>1, <2>2 DEF CommandGetsLine, Acts, Waits
<1>2. QED
  BY <1>1, ConsoleInvariant, PTL
==============================================================================

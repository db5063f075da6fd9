----------------------------- MODULE SpiProofs -----------------------------
(***************************************************************************)
(* Theorems about the SPI port, for every set of messages and commands,    *)
(* every bound on the semaphores, and a host that may or may not stall;    *)
(* the last of them: the port implements the message bus.                  *)
(***************************************************************************)
EXTENDS SpiProps, SequenceTheorems, TLAPS

(* Unlinking the oldest message leaves the rest of the queue in order.     *)
LEMMA RemoveHead ==
    ASSUME NEW S, NEW q \in Seq(S), NEW m \in S, Len(q) > 0, q[1] = m,
           \A i, j \in 1..Len(q) : q[i] = q[j] => i = j
    PROVE  RemoveLink(q, m) = Tail(q)
<1> DEFINE i == CHOOSE j \in DOMAIN q : q[j] = m
<1>1. i = 1
  OBVIOUS
<1>2. RemoveLink(q, m) = SubSeq(q, 1, i - 1) \o SubSeq(q, i + 1, Len(q))
  BY DEF RemoveLink
<1> HIDE DEF i
<1>3. SubSeq(q, 1, i - 1) = <<>> /\ SubSeq(q, i + 1, Len(q)) = Tail(q)
  BY <1>1
<1>4. Tail(q) \in Seq(S)
  OBVIOUS
<1>5. <<>> \o Tail(q) = Tail(q)
  BY <1>4
<1>6. QED
  BY <1>2, <1>3, <1>5

(* Unlinking a message that is in the queue leaves a queue of messages.    *)
LEMMA RemoveLinkType ==
    ASSUME NEW S, NEW q \in Seq(S), NEW m \in S, \E j \in 1..Len(q) : q[j] = m
    PROVE  RemoveLink(q, m) \in Seq(S)
<1> DEFINE i == CHOOSE j \in DOMAIN q : q[j] = m
<1>1. i \in 1..Len(q)
  OBVIOUS
<1>2. SubSeq(q, 1, i - 1) \in Seq(S)
  BY <1>1
<1>3. SubSeq(q, i + 1, Len(q)) \in Seq(S)
  BY <1>1
<1>4. QED
  BY <1>2, <1>3 DEF RemoveLink

----------------------------------------------------------------------------
(* Each named part of the inductive invariant is kept by every step.       *)

(* Types.  The queue is unlinked from only where the message is (ListInv). *)
LEMMA TypeStep ==
    ASSUME TypeOK, ListInv, [Next]_vars PROVE TypeOK'
<1> USE ConstantsAssumption DEF TypeOK
<1>1. CASE StealCS
  BY <1>1 DEF StealCS, Goto, ThreadPCs, sems, list, driver, client, host,
         ghosts
<1>2. CASE LockQueue
  BY <1>2 DEF LockQueue, Goto, ThreadPCs, sems, list, driver, client, host,
         ghosts
<1>3. CASE NothingToDo
  BY <1>3 DEF NothingToDo, Goto, ThreadPCs, Post, CSIsOff, sems, list, driver,
         client, host, ghosts
<1>4. CASE WaitCS
  BY <1>4 DEF WaitCS, Goto, ThreadPCs, sems, list, driver, client, host,
         ghosts
<1>5. CASE PeekHead
  BY <1>5 DEF PeekHead, Goto, ThreadPCs, Post, CSIsOff, sems, list, driver,
         client, host, ghosts
<1>6. CASE Arm
  BY <1>6 DEF Arm, Goto, ThreadPCs, sems, list, driver, client, host, ghosts
<1>7. CASE SetWaiting
  BY <1>7 DEF SetWaiting, Goto, ThreadPCs, sems, list, driver, client, host,
         ghosts
<1>8. CASE AssertIRQ
  BY <1>8 DEF AssertIRQ, Goto, ThreadPCs, sems, list, driver, client, host,
         ghosts
<1>9. CASE TransferWoken
  BY <1>9 DEF TransferWoken, Goto, ThreadPCs, sems, list, driver, client,
         host, ghosts
<1>10. CASE TransferTimeout
  BY <1>10 DEF TransferTimeout, Goto, ThreadPCs, sems, list, driver, client,
         host, ghosts
<1>11. CASE ClearWaiting
  <2>1. UNCHANGED <<rv, tx_msg, queue_sem, CS_sem, SPI_done_sem, tx_queue,
                  linked, csInt, rx_buf, status, ragged, irq, snd, inuse, hpc,
                  hout, live, owed, got, copies>>
    BY <1>11 DEF ClearWaiting, sems, list, driver, client, host, ghosts
  <2>2. spc' \in ThreadPCs /\ spi_transfer_waiting' \in BOOLEAN
    BY <1>11 DEF ClearWaiting, Goto, ThreadPCs
  <2>3. QED
    BY <2>1, <2>2
<1>12. CASE DeassertIRQ
  <2>1. UNCHANGED <<rv, tx_msg, queue_sem, CS_sem, SPI_done_sem,
                  spi_transfer_waiting, tx_queue, linked, csInt, rx_buf,
                  status, ragged, snd, inuse, hpc, hout, live, owed, got, copies>>
    BY <1>12 DEF DeassertIRQ, sems, list, driver, client, host, ghosts
  <2>2. spc' \in ThreadPCs /\ irq' \in BOOLEAN
    BY <1>12 DEF DeassertIRQ, Goto, ThreadPCs
  <2>3. QED
    BY <2>1, <2>2
<1>13. CASE CheckStatus
  BY <1>13 DEF CheckStatus, ThreadPCs, sems, list, driver, client, host,
         ghosts
<1>14. CASE Cancel
  <2>1. UNCHANGED <<rv, tx_msg, queue_sem, CS_sem, spi_transfer_waiting,
                  tx_queue, linked, csInt, rx_buf, ragged, irq, snd, inuse,
                  hpc, hout, owed, got, copies>>
    BY <1>14 DEF Cancel, sems, list, driver, client, host, ghosts
  <2>2. spc' \in ThreadPCs
    BY <1>14 DEF Cancel, Goto, ThreadPCs
  <2>3. SPI_done_sem' \in 0..SemMax
    BY <1>14 DEF Cancel, Post
  <2>4. status' \in {"IDLE", "STARTED", "COMPLETED", "CANCELED"}
    BY <1>14 DEF Cancel
  <2>5. live' \in BOOLEAN
    BY <1>14 DEF Cancel
  <2>6. QED
    BY <2>1, <2>2, <2>3, <2>4, <2>5
<1>15. CASE Handle
  <2>1. UNCHANGED <<rv, tx_msg, queue_sem, CS_sem, SPI_done_sem,
                  spi_transfer_waiting, tx_queue, linked, csInt, rx_buf,
                  status, ragged, irq, hpc, hout, live, copies>>
    BY <1>15 DEF Handle, sems, list, driver, client, host, ghosts
  <2>2. spc' \in ThreadPCs
    BY <1>15 DEF Handle, AfterHandler, ThreadPCs
  <2>3. snd' \in [Msgs -> SendPCs]
    BY <1>15 DEF Handle, Msgs, SendPCs, client
  <2>4. inuse' \in [Msgs -> BOOLEAN]
    BY <1>15 DEF Handle, Msgs, client
  <2>5. owed' \in Cmds \cup {None} /\ got' \in Cmds \cup {None, Noise}
    BY <1>15 DEF Handle
  <2>6. QED
    BY <2>1, <2>2, <2>3, <2>4, <2>5
<1>16. CASE HandlerReturns
  BY <1>16 DEF HandlerReturns, Goto, ThreadPCs, AfterHandler, sems, list,
         driver, client, host, ghosts
<1>17. CASE LockQueueAgain
  BY <1>17 DEF LockQueueAgain, Goto, ThreadPCs, sems, list, driver, client,
         host, ghosts
<1>18. CASE RemoveSent
  <2>1. UNCHANGED <<rv, tx_msg, CS_sem, SPI_done_sem, spi_transfer_waiting,
                  csInt, rx_buf, status, ragged, irq, snd, inuse, hpc, hout,
                  live, owed, got, copies>>
    BY <1>18 DEF RemoveSent, sems, list, driver, client, host, ghosts
  <2>2. spc' \in ThreadPCs
    BY <1>18 DEF RemoveSent, Goto, ThreadPCs
  <2>3. queue_sem' \in 0..SemMax
    BY <1>18 DEF RemoveSent, Post
  <2>4. linked' \subseteq Msgs
    BY <1>18 DEF RemoveSent
  <2>5. tx_queue' \in Seq(Msgs)
    <3>1. tx_msg \in Msgs /\ \E j \in 1..Len(tx_queue) : tx_queue[j] = tx_msg
      BY <1>18 DEF RemoveSent, ListInv, Msgs
    <3>2. QED
      BY <1>18, <3>1, RemoveLinkType DEF RemoveSent
  <2>6. QED
    BY <2>1, <2>2, <2>3, <2>4, <2>5
<1>19. CASE CallDone
  <2>1. UNCHANGED <<rv, tx_msg, queue_sem, CS_sem, SPI_done_sem,
                  spi_transfer_waiting, tx_queue, linked, csInt, rx_buf,
                  status, ragged, irq, snd, hpc, hout, live, owed, got>>
    BY <1>19 DEF CallDone, sems, list, driver, client, host, ghosts
  <2>2. spc' \in ThreadPCs /\ inuse' \in [Msgs -> BOOLEAN]
    BY <1>19 DEF CallDone, Goto, Msgs, ThreadPCs
  <2>3. copies' \in [Msgs -> 0..2]
    <3>1. 0 \in 0..2
      OBVIOUS
    <3>2. QED
      BY <1>19, <3>1, Zenon DEF CallDone
  <2>4. QED
    BY <2>1, <2>2, <2>3
<1>20. ASSUME NEW m \in Msgs, Acquire(m) PROVE TypeOK'
  BY <1>20 DEF Acquire, Msgs, SendPCs, thread, sems, list, driver, client,
         host, ghosts
<1>21. ASSUME NEW m \in Msgs, SendLock(m) PROVE TypeOK'
  BY <1>21 DEF SendLock, Msgs, SendPCs, thread, sems, list, driver, client,
         host, ghosts
<1>22. ASSUME NEW m \in Msgs, SendAdd(m) PROVE TypeOK'
  BY <1>22 DEF SendAdd, Post, Msgs, SendPCs, thread, sems, list, driver,
         client, host, ghosts
<1>23. ASSUME NEW m \in Msgs, SendPost(m) PROVE TypeOK'
  BY <1>23 DEF SendPost, Post, Msgs, SendPCs, thread, sems, list, driver,
         client, host, ghosts
<1>24. ASSUME NEW c \in Cmds \cup {None}, HostAssertCS(c) PROVE TypeOK'
  BY <1>24 DEF HostAssertCS, AssertCS, Post, HostPCs, thread, sems, list, driver,
         client, host, ghosts
<1>25. CASE HostRunClock
  <2>1. UNCHANGED <<spc, rv, tx_msg, queue_sem, CS_sem, SPI_done_sem,
                  spi_transfer_waiting, tx_queue, linked, csInt, rx_buf,
                  status, ragged, irq, snd, inuse, hout, owed, got, copies>>
    BY <1>25 DEF HostRunClock, thread, sems, list, driver, client, host, ghosts
  <2>2. hpc' \in HostPCs /\ live' \in BOOLEAN
    BY <1>25 DEF HostRunClock, HostPCs
  <2>3. QED
    BY <2>1, <2>2
<1>26. CASE HostLastByte
  <2>1. UNCHANGED <<spc, rv, tx_msg, queue_sem, CS_sem, spi_transfer_waiting,
                  tx_queue, linked, csInt, irq, snd, inuse, hout>>
    BY <1>26 DEF HostLastByte, thread, sems, list, driver, client, host, ghosts
  <2>2. SPI_done_sem' \in 0..SemMax
    BY <1>26 DEF HostLastByte, Post
  <2>3. rx_buf' \in Cmds \cup {None, Noise} /\ got' \in Cmds \cup {None, Noise}
    BY <1>26 DEF HostLastByte
  <2>4. status' \in {"IDLE", "STARTED", "COMPLETED", "CANCELED"}
    BY <1>26 DEF HostLastByte
  <2>5. ragged' \in BOOLEAN
    BY <1>26 DEF HostLastByte
  <2>6. hpc' \in HostPCs
    BY <1>26 DEF HostLastByte, HostPCs
  <2>7. live' \in BOOLEAN
    BY <1>26 DEF HostLastByte
  <2>8. owed' \in Cmds \cup {None}
    BY <1>26 DEF HostLastByte
  <2>9. copies' \in [Msgs -> 0..2]
    BY <1>26 DEF HostLastByte, Sent
  <2>10. QED
    BY <2>1, <2>2, <2>3, <2>4, <2>5, <2>6, <2>7, <2>8, <2>9
<1>27. CASE HostRaiseCS
  <2>1. UNCHANGED <<spc, rv, tx_msg, queue_sem, CS_sem, SPI_done_sem,
                  spi_transfer_waiting, tx_queue, linked, csInt, rx_buf,
                  status, ragged, irq, snd, inuse, hout, live, owed, got, copies>>
    BY <1>27 DEF HostRaiseCS, thread, sems, list, driver, client, host, ghosts
  <2>2. hpc' \in HostPCs
    BY <1>27 DEF HostRaiseCS, HostPCs
  <2>3. QED
    BY <2>1, <2>2
<1>28. CASE HostSeesIRQOff
  <2>1. UNCHANGED <<spc, rv, tx_msg, queue_sem, CS_sem, SPI_done_sem,
                  spi_transfer_waiting, tx_queue, linked, csInt, rx_buf,
                  status, ragged, irq, snd, inuse, hout, live, owed, got, copies>>
    BY <1>28 DEF HostSeesIRQOff, thread, sems, list, driver, client, host, ghosts
  <2>2. hpc' \in HostPCs
    BY <1>28 DEF HostSeesIRQOff, HostPCs
  <2>3. QED
    BY <2>1, <2>2
<1>29. CASE UNCHANGED vars
  BY <1>29 DEF vars, thread, sems, list, driver, client, host, ghosts
<1>30. CASE HostSeesCall
  <2>1. UNCHANGED <<spc, rv, tx_msg, queue_sem, CS_sem, SPI_done_sem,
                  spi_transfer_waiting, tx_queue, linked, csInt, rx_buf,
                  status, ragged, irq, snd, inuse, hout, live, owed, got, copies>>
    BY <1>30 DEF HostSeesCall, thread, sems, list, driver, client, host, ghosts
  <2>2. hpc' \in HostPCs
    BY <1>30 DEF HostSeesCall, HostPCs
  <2>3. QED
    BY <2>1, <2>2
<1>31. ASSUME NEW c \in Cmds \cup {None}, HostAnswers(c) PROVE TypeOK'
  BY <1>31 DEF HostAnswers, AssertCS, Post, HostPCs, thread, sems, list, driver,
         client, host, ghosts
<1>32. CASE HostSeesIRQ
  <2>1. UNCHANGED <<spc, rv, tx_msg, queue_sem, CS_sem, SPI_done_sem,
                  spi_transfer_waiting, tx_queue, linked, csInt, rx_buf,
                  status, ragged, irq, snd, inuse, hout, live, owed, got, copies>>
    BY <1>32 DEF HostSeesIRQ, thread, sems, list, driver, client, host, ghosts
  <2>2. hpc' \in HostPCs
    BY <1>32 DEF HostSeesIRQ, HostPCs
  <2>3. QED
    BY <2>1, <2>2
<1>33. QED
  BY <1>1, <1>2, <1>3, <1>4, <1>5, <1>6, <1>7, <1>8, <1>9, <1>10, <1>11, <1>12, <1>13, <1>14,
     <1>15, <1>16, <1>17, <1>18, <1>19, <1>20, <1>21, <1>22, <1>23, <1>24, <1>25, <1>26, <1>27, <1>28, <1>29, <1>30, <1>31,
     <1>32
  DEF Next, SpiThread, SpiSend, HostStep

(* queue_sem: whoever is in a critical section has taken it.                *)
LEMMA LockStep ==
    ASSUME TypeOK, LockInv, [Next]_vars PROVE LockInv'
<1> USE ConstantsAssumption DEF LockInv, Goto, Post
<1>0. snd \in [Msgs -> SendPCs] /\ queue_sem \in 0..SemMax
  BY DEF TypeOK
<1>1. CASE StealCS
  BY <1>0, <1>1 DEF StealCS, sems, list, driver, client, host, ghosts
<1>2. CASE LockQueue
  BY <1>0, <1>2 DEF LockQueue, sems, list, driver, client, host, ghosts
<1>3. CASE NothingToDo
  BY <1>0, <1>3 DEF NothingToDo, CSIsOff, sems, list, driver, client, host,
         ghosts
<1>4. CASE WaitCS
  BY <1>0, <1>4 DEF WaitCS, sems, list, driver, client, host, ghosts
<1>5. CASE PeekHead
  BY <1>0, <1>5 DEF PeekHead, CSIsOff, sems, list, driver, client, host,
         ghosts
<1>6. CASE Arm
  BY <1>0, <1>6 DEF Arm, sems, list, driver, client, host, ghosts
<1>7. CASE SetWaiting
  BY <1>0, <1>7 DEF SetWaiting, sems, list, driver, client, host, ghosts
<1>8. CASE AssertIRQ
  BY <1>0, <1>8 DEF AssertIRQ, sems, list, driver, client, host, ghosts
<1>9. CASE TransferWoken
  BY <1>0, <1>9 DEF TransferWoken, sems, list, driver, client, host, ghosts
<1>10. CASE TransferTimeout
  BY <1>0, <1>10 DEF TransferTimeout, sems, list, driver, client, host, ghosts
<1>11. CASE ClearWaiting
  BY <1>0, <1>11 DEF ClearWaiting, sems, list, driver, client, host, ghosts
<1>12. CASE DeassertIRQ
  BY <1>0, <1>12 DEF DeassertIRQ, sems, list, driver, client, host, ghosts
<1>13. CASE CheckStatus
  BY <1>0, <1>13 DEF CheckStatus, sems, list, driver, client, host, ghosts
<1>14. CASE Cancel
  BY <1>0, <1>14 DEF Cancel, sems, list, driver, client, host, ghosts
<1>15. CASE Handle
  BY <1>0, <1>15 DEF Handle, AfterHandler, sems, list, driver, client, host,
         ghosts
<1>16. CASE HandlerReturns
  BY <1>0, <1>16 DEF HandlerReturns, AfterHandler, sems, list, driver, client,
         host, ghosts
<1>17. CASE LockQueueAgain
  BY <1>0, <1>17 DEF LockQueueAgain, sems, list, driver, client, host, ghosts
<1>18. CASE RemoveSent
  BY <1>0, <1>18 DEF RemoveSent, sems, list, driver, client, host, ghosts
<1>19. CASE CallDone
  BY <1>0, <1>19 DEF CallDone, sems, list, driver, client, host, ghosts
<1>20. ASSUME NEW m \in Msgs, Acquire(m) PROVE LockInv'
  BY <1>0, <1>20 DEF Acquire, thread, sems, list, driver, client, host, ghosts
<1>21. ASSUME NEW m \in Msgs, SendLock(m) PROVE LockInv'
  BY <1>0, <1>21 DEF SendLock, thread, sems, list, driver, client, host,
         ghosts
<1>22. ASSUME NEW m \in Msgs, SendAdd(m) PROVE LockInv'
  BY <1>0, <1>22 DEF SendAdd, thread, sems, list, driver, client, host, ghosts
<1>23. ASSUME NEW m \in Msgs, SendPost(m) PROVE LockInv'
  BY <1>0, <1>23 DEF SendPost, thread, sems, list, driver, client, host,
         ghosts
<1>24. ASSUME NEW c \in Cmds \cup {None}, HostAssertCS(c) PROVE LockInv'
  BY <1>0, <1>24 DEF HostAssertCS, AssertCS, thread, sems, list, driver, client, host,
         ghosts
<1>25. CASE HostRunClock
  BY <1>0, <1>25 DEF HostRunClock, thread, sems, list, driver, client, host,
         ghosts
<1>26. CASE HostLastByte
  BY <1>0, <1>26 DEF HostLastByte, thread, sems, list, driver, client, host,
         ghosts
<1>27. CASE HostRaiseCS
  BY <1>0, <1>27 DEF HostRaiseCS, thread, sems, list, driver, client, host,
         ghosts
<1>28. CASE HostSeesIRQOff
  BY <1>0, <1>28 DEF HostSeesIRQOff, thread, sems, list, driver, client, host,
         ghosts
<1>29. CASE UNCHANGED vars
  BY <1>29 DEF vars, thread, sems, list, driver, client, host, ghosts
<1>30. CASE HostSeesCall
  BY <1>0, <1>30 DEF HostSeesCall, thread, sems, list, driver,
         client, host, ghosts
<1>31. ASSUME NEW c \in Cmds \cup {None}, HostAnswers(c) PROVE LockInv'
  BY <1>0, <1>31 DEF HostAnswers, AssertCS, thread, sems, list, driver,
         client, host, ghosts
<1>32. CASE HostSeesIRQ
  BY <1>0, <1>32 DEF HostSeesIRQ, thread, sems, list, driver,
         client, host, ghosts
<1>33. QED
  BY <1>1, <1>2, <1>3, <1>4, <1>5, <1>6, <1>7, <1>8, <1>9, <1>10, <1>11,
     <1>12, <1>13, <1>14, <1>15, <1>16, <1>17, <1>18, <1>19, <1>20, <1>21,
     <1>22, <1>23, <1>24, <1>25, <1>26, <1>27, <1>28, <1>29, <1>30, <1>31,
     <1>32
  DEF Next, SpiThread, SpiSend, HostStep

(* The links and the queue agree: only SendAdd and RemoveSent touch them.   *)
LEMMA ListStep ==
    ASSUME TypeOK, TxInv, ListInv, [Next]_vars PROVE ListInv'
<1> USE ConstantsAssumption DEF ListInv, Goto
<1>0. /\ tx_queue \in Seq(Msgs) /\ tx_msg \in Msgs \cup {None}
  BY DEF TypeOK
<1>1. CASE StealCS
  BY <1>0, <1>1 DEF StealCS, sems, list, driver, client, host, ghosts
<1>2. CASE LockQueue
  BY <1>0, <1>2 DEF LockQueue, sems, list, driver, client, host, ghosts
<1>3. CASE NothingToDo
  BY <1>0, <1>3 DEF NothingToDo, CSIsOff, sems, list, driver, client, host,
         ghosts
<1>4. CASE WaitCS
  BY <1>0, <1>4 DEF WaitCS, sems, list, driver, client, host, ghosts
<1>5. CASE PeekHead
  BY <1>0, <1>5 DEF PeekHead, CSIsOff, sems, list, driver, client, host,
         ghosts
<1>6. CASE Arm
  BY <1>0, <1>6 DEF Arm, sems, list, driver, client, host, ghosts
<1>7. CASE SetWaiting
  BY <1>0, <1>7 DEF SetWaiting, sems, list, driver, client, host, ghosts
<1>8. CASE AssertIRQ
  BY <1>0, <1>8 DEF AssertIRQ, sems, list, driver, client, host, ghosts
<1>9. CASE TransferWoken
  BY <1>0, <1>9 DEF TransferWoken, sems, list, driver, client, host, ghosts
<1>10. CASE TransferTimeout
  BY <1>0, <1>10 DEF TransferTimeout, sems, list, driver, client, host, ghosts
<1>11. CASE ClearWaiting
  BY <1>0, <1>11 DEF ClearWaiting, sems, list, driver, client, host, ghosts
<1>12. CASE DeassertIRQ
  BY <1>0, <1>12 DEF DeassertIRQ, sems, list, driver, client, host, ghosts
<1>13. CASE CheckStatus
  BY <1>0, <1>13 DEF CheckStatus, sems, list, driver, client, host, ghosts
<1>14. CASE Cancel
  BY <1>0, <1>14 DEF Cancel, sems, list, driver, client, host, ghosts
<1>15. CASE Handle
  BY <1>0, <1>15 DEF Handle, AfterHandler, sems, list, driver, client, host,
         ghosts
<1>16. CASE HandlerReturns
  BY <1>0, <1>16 DEF HandlerReturns, AfterHandler, sems, list, driver, client,
         host, ghosts
<1>17. CASE LockQueueAgain
  BY <1>0, <1>17 DEF LockQueueAgain, sems, list, driver, client, host, ghosts
<1>18. CASE RemoveSent
  <2>1. tx_msg # None /\ Len(tx_queue) > 0 /\ tx_queue[1] = tx_msg
    BY <1>18 DEF RemoveSent, TxInv
  <2>2. tx_queue' = Tail(tx_queue)
    BY <1>0, <1>18, <2>1, RemoveHead DEF RemoveSent
  <2>3. /\ Len(tx_queue') = Len(tx_queue) - 1
        /\ \A i \in 1..Len(tx_queue') : tx_queue'[i] = tx_queue[i + 1]
    BY <1>0, <2>1, <2>2, HeadTailProperties
  <2>4. \A i, j \in 1..Len(tx_queue') : tx_queue'[i] = tx_queue'[j] => i = j
    BY <1>0, <2>3
  <2>5. ASSUME NEW m \in Msgs
        PROVE  m \in linked' <=> \E i \in 1..Len(tx_queue') : tx_queue'[i] = m
    <3>1. linked' = linked \ {tx_msg}
      BY <1>18 DEF RemoveSent
    <3>2. ASSUME m \in linked'
          PROVE  \E i \in 1..Len(tx_queue') : tx_queue'[i] = m
      <4>1. PICK i \in 1..Len(tx_queue) : tx_queue[i] = m
        BY <3>1, <3>2
      <4>2. i # 1
        BY <2>1, <3>1, <3>2, <4>1
      <4>3. i - 1 \in 1..Len(tx_queue') /\ tx_queue'[i - 1] = m
        BY <1>0, <2>3, <4>1, <4>2
      <4>4. QED
        BY <4>3
    <3>3. ASSUME NEW i \in 1..Len(tx_queue'), tx_queue'[i] = m
          PROVE  m \in linked'
      <4>1. i + 1 \in 1..Len(tx_queue) /\ tx_queue[i + 1] = m /\ m # tx_msg
        BY <1>0, <2>1, <2>3, <3>3
      <4>2. QED
        BY <3>1, <4>1
    <3>4. QED
      BY <3>2, <3>3
  <2>6. QED
    BY <2>4, <2>5
<1>19. CASE CallDone
  BY <1>0, <1>19 DEF CallDone, sems, list, driver, client, host, ghosts
<1>20. ASSUME NEW m \in Msgs, Acquire(m) PROVE ListInv'
  BY <1>0, <1>20 DEF Acquire, thread, sems, list, driver, client, host, ghosts
<1>21. ASSUME NEW m \in Msgs, SendLock(m) PROVE ListInv'
  BY <1>0, <1>21 DEF SendLock, thread, sems, list, driver, client, host,
         ghosts
<1>22. ASSUME NEW m \in Msgs, SendAdd(m) PROVE ListInv'
  BY <1>0, <1>22 DEF SendAdd, thread, sems, list, driver, client, host, ghosts
<1>23. ASSUME NEW m \in Msgs, SendPost(m) PROVE ListInv'
  BY <1>0, <1>23 DEF SendPost, thread, sems, list, driver, client, host,
         ghosts
<1>24. ASSUME NEW c \in Cmds \cup {None}, HostAssertCS(c) PROVE ListInv'
  BY <1>0, <1>24 DEF HostAssertCS, AssertCS, thread, sems, list, driver, client, host,
         ghosts
<1>25. CASE HostRunClock
  BY <1>0, <1>25 DEF HostRunClock, thread, sems, list, driver, client, host,
         ghosts
<1>26. CASE HostLastByte
  BY <1>0, <1>26 DEF HostLastByte, thread, sems, list, driver, client, host,
         ghosts
<1>27. CASE HostRaiseCS
  BY <1>0, <1>27 DEF HostRaiseCS, thread, sems, list, driver, client, host,
         ghosts
<1>28. CASE HostSeesIRQOff
  BY <1>0, <1>28 DEF HostSeesIRQOff, thread, sems, list, driver, client, host,
         ghosts
<1>29. CASE UNCHANGED vars
  BY <1>29 DEF vars, thread, sems, list, driver, client, host, ghosts
<1>30. CASE HostSeesCall
  BY <1>0, <1>30 DEF HostSeesCall, thread, sems, list, driver,
         client, host, ghosts
<1>31. ASSUME NEW c \in Cmds \cup {None}, HostAnswers(c) PROVE ListInv'
  BY <1>0, <1>31 DEF HostAnswers, AssertCS, thread, sems, list, driver,
         client, host, ghosts
<1>32. CASE HostSeesIRQ
  BY <1>0, <1>32 DEF HostSeesIRQ, thread, sems, list, driver,
         client, host, ghosts
<1>33. QED
  BY <1>1, <1>2, <1>3, <1>4, <1>5, <1>6, <1>7, <1>8, <1>9, <1>10, <1>11,
     <1>12, <1>13, <1>14, <1>15, <1>16, <1>17, <1>18, <1>19, <1>20, <1>21,
     <1>22, <1>23, <1>24, <1>25, <1>26, <1>27, <1>28, <1>29, <1>30, <1>31,
     <1>32
  DEF Next, SpiThread, SpiSend, HostStep

(* The owners' flags: CallDone clears the flag of a message that is not     *)
(* linked and not being sent (TxInv).                                       *)
LEMMA OwnerStep ==
    ASSUME TypeOK, TxInv, OwnerInv, [Next]_vars PROVE OwnerInv'
<1> USE ConstantsAssumption DEF OwnerInv, Goto, Msgs
<1>0. /\ snd \in [Msgs -> SendPCs] /\ inuse \in [Msgs -> BOOLEAN]
      /\ linked \subseteq Msgs /\ tx_msg \in Msgs \cup {None}
  BY DEF TypeOK
<1>1. CASE StealCS
  BY <1>0, <1>1 DEF StealCS, sems, list, driver, client, host, ghosts
<1>2. CASE LockQueue
  BY <1>0, <1>2 DEF LockQueue, sems, list, driver, client, host, ghosts
<1>3. CASE NothingToDo
  BY <1>0, <1>3 DEF NothingToDo, CSIsOff, sems, list, driver, client, host,
         ghosts
<1>4. CASE WaitCS
  BY <1>0, <1>4 DEF WaitCS, sems, list, driver, client, host, ghosts
<1>5. CASE PeekHead
  BY <1>0, <1>5 DEF PeekHead, CSIsOff, sems, list, driver, client, host,
         ghosts
<1>6. CASE Arm
  BY <1>0, <1>6 DEF Arm, sems, list, driver, client, host, ghosts
<1>7. CASE SetWaiting
  BY <1>0, <1>7 DEF SetWaiting, sems, list, driver, client, host, ghosts
<1>8. CASE AssertIRQ
  BY <1>0, <1>8 DEF AssertIRQ, sems, list, driver, client, host, ghosts
<1>9. CASE TransferWoken
  BY <1>0, <1>9 DEF TransferWoken, sems, list, driver, client, host, ghosts
<1>10. CASE TransferTimeout
  BY <1>0, <1>10 DEF TransferTimeout, sems, list, driver, client, host, ghosts
<1>11. CASE ClearWaiting
  BY <1>0, <1>11 DEF ClearWaiting, sems, list, driver, client, host, ghosts
<1>12. CASE DeassertIRQ
  BY <1>0, <1>12 DEF DeassertIRQ, sems, list, driver, client, host, ghosts
<1>13. CASE CheckStatus
  BY <1>0, <1>13 DEF CheckStatus, sems, list, driver, client, host, ghosts
<1>14. CASE Cancel
  BY <1>0, <1>14 DEF Cancel, sems, list, driver, client, host, ghosts
<1>15. CASE Handle
  BY <1>0, <1>15 DEF Handle, AfterHandler, sems, list, driver, client, host,
         ghosts
<1>16. CASE HandlerReturns
  BY <1>0, <1>16 DEF HandlerReturns, AfterHandler, sems, list, driver, client,
         host, ghosts
<1>17. CASE LockQueueAgain
  BY <1>0, <1>17 DEF LockQueueAgain, sems, list, driver, client, host, ghosts
<1>18. CASE RemoveSent
  BY <1>0, <1>18 DEF RemoveSent, sems, list, driver, client, host, ghosts
<1>19. CASE CallDone
  <2>1. tx_msg \notin linked /\ snd[tx_msg] \in {"post", "idle"}
    BY <1>19 DEF CallDone, TxInv
  <2>2. QED
    BY <1>0, <1>19, <2>1 DEF CallDone, list, client
<1>20. ASSUME NEW m \in Msgs, Acquire(m) PROVE OwnerInv'
  BY <1>0, <1>20 DEF Acquire, thread, sems, list, driver, client, host, ghosts
<1>21. ASSUME NEW m \in Msgs, SendLock(m) PROVE OwnerInv'
  BY <1>0, <1>21 DEF SendLock, thread, sems, list, driver, client, host,
         ghosts
<1>22. ASSUME NEW m \in Msgs, SendAdd(m) PROVE OwnerInv'
  BY <1>0, <1>22 DEF SendAdd, thread, sems, list, driver, client, host, ghosts
<1>23. ASSUME NEW m \in Msgs, SendPost(m) PROVE OwnerInv'
  BY <1>0, <1>23 DEF SendPost, thread, sems, list, driver, client, host,
         ghosts
<1>24. ASSUME NEW c \in Cmds \cup {None}, HostAssertCS(c) PROVE OwnerInv'
  BY <1>0, <1>24 DEF HostAssertCS, AssertCS, thread, sems, list, driver, client, host,
         ghosts
<1>25. CASE HostRunClock
  BY <1>0, <1>25 DEF HostRunClock, thread, sems, list, driver, client, host,
         ghosts
<1>26. CASE HostLastByte
  BY <1>0, <1>26 DEF HostLastByte, thread, sems, list, driver, client, host,
         ghosts
<1>27. CASE HostRaiseCS
  BY <1>0, <1>27 DEF HostRaiseCS, thread, sems, list, driver, client, host,
         ghosts
<1>28. CASE HostSeesIRQOff
  BY <1>0, <1>28 DEF HostSeesIRQOff, thread, sems, list, driver, client, host,
         ghosts
<1>29. CASE UNCHANGED vars
  BY <1>29 DEF vars, thread, sems, list, driver, client, host, ghosts
<1>30. CASE HostSeesCall
  BY <1>0, <1>30 DEF HostSeesCall, thread, sems, list, driver,
         client, host, ghosts
<1>31. ASSUME NEW c \in Cmds \cup {None}, HostAnswers(c) PROVE OwnerInv'
  BY <1>0, <1>31 DEF HostAnswers, AssertCS, thread, sems, list, driver,
         client, host, ghosts
<1>32. CASE HostSeesIRQ
  BY <1>0, <1>32 DEF HostSeesIRQ, thread, sems, list, driver,
         client, host, ghosts
<1>33. QED
  BY <1>1, <1>2, <1>3, <1>4, <1>5, <1>6, <1>7, <1>8, <1>9, <1>10, <1>11,
     <1>12, <1>13, <1>14, <1>15, <1>16, <1>17, <1>18, <1>19, <1>20, <1>21,
     <1>22, <1>23, <1>24, <1>25, <1>26, <1>27, <1>28, <1>29, <1>30, <1>31,
     <1>32
  DEF Next, SpiThread, SpiSend, HostStep

(* The peeked message: only spiThread unlinks, and it unlinks this one.     *)
LEMMA TxStep ==
    ASSUME TypeOK, OwnerInv, TxInv, [Next]_vars PROVE TxInv'
<1> USE ConstantsAssumption DEF TxInv, AtTransfer, Goto, Msgs
<1>0. /\ snd \in [Msgs -> SendPCs] /\ inuse \in [Msgs -> BOOLEAN]
      /\ linked \subseteq Msgs /\ tx_msg \in Msgs \cup {None} /\ tx_queue \in Seq(Msgs)
  BY DEF TypeOK
<1>1. CASE StealCS
  BY <1>0, <1>1 DEF StealCS, sems, list, driver, client, host, ghosts
<1>2. CASE LockQueue
  BY <1>0, <1>2 DEF LockQueue, sems, list, driver, client, host, ghosts
<1>3. CASE NothingToDo
  BY <1>0, <1>3 DEF NothingToDo, CSIsOff, sems, list, driver, client, host,
         ghosts
<1>4. CASE WaitCS
  BY <1>0, <1>4 DEF WaitCS, sems, list, driver, client, host, ghosts
<1>5. CASE PeekHead
  BY <1>0, <1>5 DEF PeekHead, CSIsOff, sems, list, driver, client, host,
         ghosts
<1>6. CASE Arm
  BY <1>0, <1>6 DEF Arm, sems, list, driver, client, host, ghosts
<1>7. CASE SetWaiting
  BY <1>0, <1>7 DEF SetWaiting, sems, list, driver, client, host, ghosts
<1>8. CASE AssertIRQ
  BY <1>0, <1>8 DEF AssertIRQ, sems, list, driver, client, host, ghosts
<1>9. CASE TransferWoken
  BY <1>0, <1>9 DEF TransferWoken, sems, list, driver, client, host, ghosts
<1>10. CASE TransferTimeout
  BY <1>0, <1>10 DEF TransferTimeout, sems, list, driver, client, host, ghosts
<1>11. CASE ClearWaiting
  BY <1>0, <1>11 DEF ClearWaiting, sems, list, driver, client, host, ghosts
<1>12. CASE DeassertIRQ
  BY <1>0, <1>12 DEF DeassertIRQ, sems, list, driver, client, host, ghosts
<1>13. CASE CheckStatus
  BY <1>0, <1>13 DEF CheckStatus, sems, list, driver, client, host, ghosts
<1>14. CASE Cancel
  BY <1>0, <1>14 DEF Cancel, sems, list, driver, client, host, ghosts
<1>15. CASE Handle
  BY <1>0, <1>15 DEF Handle, AfterHandler, sems, list, driver, client, host,
         ghosts
<1>16. CASE HandlerReturns
  BY <1>0, <1>16 DEF HandlerReturns, AfterHandler, sems, list, driver, client,
         host, ghosts
<1>17. CASE LockQueueAgain
  BY <1>0, <1>17 DEF LockQueueAgain, sems, list, driver, client, host, ghosts
<1>18. CASE RemoveSent
  <2>1. inuse[tx_msg] /\ snd[tx_msg] \in {"post", "idle"}
    BY <1>18 DEF RemoveSent, OwnerInv
  <2>2. QED
    BY <1>0, <1>18, <2>1 DEF RemoveSent, client
<1>19. CASE CallDone
  BY <1>0, <1>19 DEF CallDone, sems, list, driver, client, host, ghosts
<1>20. ASSUME NEW m \in Msgs, Acquire(m) PROVE TxInv'
  BY <1>0, <1>20 DEF Acquire, thread, sems, list, driver, client, host, ghosts
<1>21. ASSUME NEW m \in Msgs, SendLock(m) PROVE TxInv'
  BY <1>0, <1>21 DEF SendLock, thread, sems, list, driver, client, host,
         ghosts
<1>22. ASSUME NEW m \in Msgs, SendAdd(m) PROVE TxInv'
  BY <1>0, <1>22 DEF SendAdd, thread, sems, list, driver, client, host, ghosts
<1>23. ASSUME NEW m \in Msgs, SendPost(m) PROVE TxInv'
  BY <1>0, <1>23 DEF SendPost, thread, sems, list, driver, client, host,
         ghosts
<1>24. ASSUME NEW c \in Cmds \cup {None}, HostAssertCS(c) PROVE TxInv'
  BY <1>0, <1>24 DEF HostAssertCS, AssertCS, thread, sems, list, driver, client, host,
         ghosts
<1>25. CASE HostRunClock
  BY <1>0, <1>25 DEF HostRunClock, thread, sems, list, driver, client, host,
         ghosts
<1>26. CASE HostLastByte
  BY <1>0, <1>26 DEF HostLastByte, thread, sems, list, driver, client, host,
         ghosts
<1>27. CASE HostRaiseCS
  BY <1>0, <1>27 DEF HostRaiseCS, thread, sems, list, driver, client, host,
         ghosts
<1>28. CASE HostSeesIRQOff
  BY <1>0, <1>28 DEF HostSeesIRQOff, thread, sems, list, driver, client, host,
         ghosts
<1>29. CASE UNCHANGED vars
  BY <1>29 DEF vars, thread, sems, list, driver, client, host, ghosts
<1>30. CASE HostSeesCall
  BY <1>0, <1>30 DEF HostSeesCall, thread, sems, list, driver,
         client, host, ghosts
<1>31. ASSUME NEW c \in Cmds \cup {None}, HostAnswers(c) PROVE TxInv'
  BY <1>0, <1>31 DEF HostAnswers, AssertCS, thread, sems, list, driver,
         client, host, ghosts
<1>32. CASE HostSeesIRQ
  BY <1>0, <1>32 DEF HostSeesIRQ, thread, sems, list, driver,
         client, host, ghosts
<1>33. QED
  BY <1>1, <1>2, <1>3, <1>4, <1>5, <1>6, <1>7, <1>8, <1>9, <1>10, <1>11,
     <1>12, <1>13, <1>14, <1>15, <1>16, <1>17, <1>18, <1>19, <1>20, <1>21,
     <1>22, <1>23, <1>24, <1>25, <1>26, <1>27, <1>28, <1>29, <1>30, <1>31,
     <1>32
  DEF Next, SpiThread, SpiSend, HostStep

(* Program counter, driver and interrupt line: a transfer may complete at   *)
(* any point from its start to its cancellation.                            *)
LEMMA TransferStep ==
    ASSUME TypeOK, TransferInv, [Next]_vars PROVE TransferInv'
<1> USE ConstantsAssumption DEF TransferInv, AtTransfer, AtReceived, AtIRQ, Goto
<1>0. status \in {"IDLE", "STARTED", "COMPLETED", "CANCELED"}
  BY DEF TypeOK
<1>1. CASE StealCS
  BY <1>0, <1>1 DEF StealCS, sems, list, driver, client, host, ghosts
<1>2. CASE LockQueue
  BY <1>0, <1>2 DEF LockQueue, sems, list, driver, client, host, ghosts
<1>3. CASE NothingToDo
  BY <1>0, <1>3 DEF NothingToDo, CSIsOff, sems, list, driver, client, host,
         ghosts
<1>4. CASE WaitCS
  BY <1>0, <1>4 DEF WaitCS, sems, list, driver, client, host, ghosts
<1>5. CASE PeekHead
  BY <1>0, <1>5 DEF PeekHead, CSIsOff, sems, list, driver, client, host,
         ghosts
<1>6. CASE Arm
  BY <1>0, <1>6 DEF Arm, sems, list, driver, client, host, ghosts
<1>7. CASE SetWaiting
  BY <1>0, <1>7 DEF SetWaiting, sems, list, driver, client, host, ghosts
<1>8. CASE AssertIRQ
  BY <1>0, <1>8 DEF AssertIRQ, sems, list, driver, client, host, ghosts
<1>9. CASE TransferWoken
  BY <1>0, <1>9 DEF TransferWoken, sems, list, driver, client, host, ghosts
<1>10. CASE TransferTimeout
  BY <1>0, <1>10 DEF TransferTimeout, sems, list, driver, client, host, ghosts
<1>11. CASE ClearWaiting
  BY <1>0, <1>11 DEF ClearWaiting, sems, list, driver, client, host, ghosts
<1>12. CASE DeassertIRQ
  BY <1>0, <1>12 DEF DeassertIRQ, sems, list, driver, client, host, ghosts
<1>13. CASE CheckStatus
  BY <1>0, <1>13 DEF CheckStatus, Completed, sems, list, driver, client, host,
         ghosts
<1>14. CASE Cancel
  BY <1>0, <1>14 DEF Cancel, sems, list, driver, client, host, ghosts
<1>15. CASE Handle
  BY <1>0, <1>15 DEF Handle, AfterHandler, AfterHandler, sems, list, driver,
         client, host, ghosts
<1>16. CASE HandlerReturns
  BY <1>0, <1>16 DEF HandlerReturns, AfterHandler, sems, list, driver, client,
         host, ghosts
<1>17. CASE LockQueueAgain
  BY <1>0, <1>17 DEF LockQueueAgain, sems, list, driver, client, host, ghosts
<1>18. CASE RemoveSent
  BY <1>0, <1>18 DEF RemoveSent, sems, list, driver, client, host, ghosts
<1>19. CASE CallDone
  BY <1>0, <1>19 DEF CallDone, sems, list, driver, client, host, ghosts
<1>20. ASSUME NEW m \in Msgs, Acquire(m) PROVE TransferInv'
  BY <1>0, <1>20 DEF Acquire, thread, sems, list, driver, client, host, ghosts
<1>21. ASSUME NEW m \in Msgs, SendLock(m) PROVE TransferInv'
  BY <1>0, <1>21 DEF SendLock, thread, sems, list, driver, client, host,
         ghosts
<1>22. ASSUME NEW m \in Msgs, SendAdd(m) PROVE TransferInv'
  BY <1>0, <1>22 DEF SendAdd, thread, sems, list, driver, client, host, ghosts
<1>23. ASSUME NEW m \in Msgs, SendPost(m) PROVE TransferInv'
  BY <1>0, <1>23 DEF SendPost, thread, sems, list, driver, client, host,
         ghosts
<1>24. ASSUME NEW c \in Cmds \cup {None}, HostAssertCS(c) PROVE TransferInv'
  BY <1>0, <1>24 DEF HostAssertCS, AssertCS, thread, sems, list, driver, client, host,
         ghosts
<1>25. CASE HostRunClock
  BY <1>0, <1>25 DEF HostRunClock, thread, sems, list, driver, client, host,
         ghosts
<1>26. CASE HostLastByte
  BY <1>0, <1>26 DEF HostLastByte, thread, sems, list, driver, client, host,
         ghosts
<1>27. CASE HostRaiseCS
  BY <1>0, <1>27 DEF HostRaiseCS, thread, sems, list, driver, client, host,
         ghosts
<1>28. CASE HostSeesIRQOff
  BY <1>0, <1>28 DEF HostSeesIRQOff, thread, sems, list, driver, client, host,
         ghosts
<1>29. CASE UNCHANGED vars
  BY <1>29 DEF vars, thread, sems, list, driver, client, host, ghosts
<1>30. CASE HostSeesCall
  BY <1>0, <1>30 DEF HostSeesCall, thread, sems, list, driver,
         client, host, ghosts
<1>31. ASSUME NEW c \in Cmds \cup {None}, HostAnswers(c) PROVE TransferInv'
  BY <1>0, <1>31 DEF HostAnswers, AssertCS, thread, sems, list, driver,
         client, host, ghosts
<1>32. CASE HostSeesIRQ
  BY <1>0, <1>32 DEF HostSeesIRQ, thread, sems, list, driver,
         client, host, ghosts
<1>33. QED
  BY <1>1, <1>2, <1>3, <1>4, <1>5, <1>6, <1>7, <1>8, <1>9, <1>10, <1>11,
     <1>12, <1>13, <1>14, <1>15, <1>16, <1>17, <1>18, <1>19, <1>20, <1>21,
     <1>22, <1>23, <1>24, <1>25, <1>26, <1>27, <1>28, <1>29, <1>30, <1>31,
     <1>32
  DEF Next, SpiThread, SpiSend, HostStep

(* The host's run against the armed transfer.                               *)
LEMMA HostInvStep ==
    ASSUME TypeOK, TransferInv, HostInv, [Next]_vars PROVE HostInv'
<1> USE ConstantsAssumption DEF TransferInv, HostInv, AtTransfer, AtReceived, AtIRQ, Goto
<1>0. status \in {"IDLE", "STARTED", "COMPLETED", "CANCELED"} /\ spc \in ThreadPCs
  BY DEF TypeOK
<1>1. CASE StealCS
  BY <1>0, <1>1 DEF StealCS, sems, list, driver, client, host, ghosts
<1>2. CASE LockQueue
  BY <1>0, <1>2 DEF LockQueue, sems, list, driver, client, host, ghosts
<1>3. CASE NothingToDo
  BY <1>0, <1>3 DEF NothingToDo, CSIsOff, sems, list, driver, client, host,
         ghosts
<1>4. CASE WaitCS
  BY <1>0, <1>4 DEF WaitCS, sems, list, driver, client, host, ghosts
<1>5. CASE PeekHead
  BY <1>0, <1>5 DEF PeekHead, CSIsOff, sems, list, driver, client, host,
         ghosts
<1>6. CASE Arm
  BY <1>0, <1>6 DEF Arm, sems, list, driver, client, host, ghosts
<1>7. CASE SetWaiting
  BY <1>0, <1>7 DEF SetWaiting, sems, list, driver, client, host, ghosts
<1>8. CASE AssertIRQ
  BY <1>0, <1>8 DEF AssertIRQ, sems, list, driver, client, host, ghosts
<1>9. CASE TransferWoken
  BY <1>0, <1>9 DEF TransferWoken, sems, list, driver, client, host, ghosts
<1>10. CASE TransferTimeout
  BY <1>0, <1>10 DEF TransferTimeout, sems, list, driver, client, host, ghosts
<1>11. CASE ClearWaiting
  BY <1>0, <1>11 DEF ClearWaiting, sems, list, driver, client, host, ghosts
<1>12. CASE DeassertIRQ
  BY <1>0, <1>12 DEF DeassertIRQ, sems, list, driver, client, host, ghosts
<1>13. CASE CheckStatus
  BY <1>0, <1>13 DEF CheckStatus, Completed, sems, list, driver, client, host,
         ghosts
<1>14. CASE Cancel
  BY <1>0, <1>14 DEF Cancel, sems, list, driver, client, host, ghosts
<1>15. CASE Handle
  BY <1>0, <1>15 DEF Handle, AfterHandler, AfterHandler, sems, list, driver,
         client, host, ghosts
<1>16. CASE HandlerReturns
  BY <1>0, <1>16 DEF HandlerReturns, AfterHandler, sems, list, driver, client,
         host, ghosts
<1>17. CASE LockQueueAgain
  BY <1>0, <1>17 DEF LockQueueAgain, sems, list, driver, client, host, ghosts
<1>18. CASE RemoveSent
  BY <1>0, <1>18 DEF RemoveSent, sems, list, driver, client, host, ghosts
<1>19. CASE CallDone
  BY <1>0, <1>19 DEF CallDone, sems, list, driver, client, host, ghosts
<1>20. ASSUME NEW m \in Msgs, Acquire(m) PROVE HostInv'
  BY <1>0, <1>20 DEF Acquire, thread, sems, list, driver, client, host, ghosts
<1>21. ASSUME NEW m \in Msgs, SendLock(m) PROVE HostInv'
  BY <1>0, <1>21 DEF SendLock, thread, sems, list, driver, client, host,
         ghosts
<1>22. ASSUME NEW m \in Msgs, SendAdd(m) PROVE HostInv'
  BY <1>0, <1>22 DEF SendAdd, thread, sems, list, driver, client, host, ghosts
<1>23. ASSUME NEW m \in Msgs, SendPost(m) PROVE HostInv'
  BY <1>0, <1>23 DEF SendPost, thread, sems, list, driver, client, host,
         ghosts
<1>24. ASSUME NEW c \in Cmds \cup {None}, HostAssertCS(c) PROVE HostInv'
  BY <1>0, <1>24 DEF HostAssertCS, AssertCS, thread, sems, list, driver, client, host,
         ghosts
<1>25. CASE HostRunClock
  BY <1>0, <1>25 DEF HostRunClock, thread, sems, list, driver, client, host,
         ghosts
<1>26. CASE HostLastByte
  BY <1>0, <1>26 DEF HostLastByte, thread, sems, list, driver, client, host,
         ghosts
<1>27. CASE HostRaiseCS
  BY <1>0, <1>27 DEF HostRaiseCS, thread, sems, list, driver, client, host,
         ghosts
<1>28. CASE HostSeesIRQOff
  BY <1>0, <1>28 DEF HostSeesIRQOff, thread, sems, list, driver, client, host,
         ghosts
<1>29. CASE UNCHANGED vars
  BY <1>29 DEF vars, thread, sems, list, driver, client, host, ghosts
<1>30. CASE HostSeesCall
  BY <1>0, <1>30 DEF HostSeesCall, thread, sems, list, driver,
         client, host, ghosts
<1>31. ASSUME NEW c \in Cmds \cup {None}, HostAnswers(c) PROVE HostInv'
  BY <1>0, <1>31 DEF HostAnswers, AssertCS, thread, sems, list, driver,
         client, host, ghosts
<1>32. CASE HostSeesIRQ
  BY <1>0, <1>32 DEF HostSeesIRQ, thread, sems, list, driver,
         client, host, ghosts
<1>33. QED
  BY <1>1, <1>2, <1>3, <1>4, <1>5, <1>6, <1>7, <1>8, <1>9, <1>10, <1>11,
     <1>12, <1>13, <1>14, <1>15, <1>16, <1>17, <1>18, <1>19, <1>20, <1>21,
     <1>22, <1>23, <1>24, <1>25, <1>26, <1>27, <1>28, <1>29, <1>30, <1>31,
     <1>32
  DEF Next, SpiThread, SpiSend, HostStep

(* What a completed transfer left in rx_buf, and what it carried.           *)
LEMMA ReceivedStep ==
    ASSUME TypeOK, TransferInv, HostInv, ReceivedInv, [Next]_vars PROVE ReceivedInv'
<1> USE ConstantsAssumption DEF TransferInv, HostInv, ReceivedInv, AtTransfer, AtReceived, AtIRQ, Goto
<1>0. /\ status \in {"IDLE", "STARTED", "COMPLETED", "CANCELED"} /\ spc \in ThreadPCs
      /\ copies \in [Msgs -> 0..2] /\ tx_msg \in Msgs \cup {None}
  BY DEF TypeOK
<1>1. CASE StealCS
  BY <1>0, <1>1 DEF StealCS, sems, list, driver, client, host, ghosts
<1>2. CASE LockQueue
  BY <1>0, <1>2 DEF LockQueue, sems, list, driver, client, host, ghosts
<1>3. CASE NothingToDo
  BY <1>0, <1>3 DEF NothingToDo, CSIsOff, sems, list, driver, client, host,
         ghosts
<1>4. CASE WaitCS
  BY <1>0, <1>4 DEF WaitCS, sems, list, driver, client, host, ghosts
<1>5. CASE PeekHead
  BY <1>0, <1>5 DEF PeekHead, CSIsOff, sems, list, driver, client, host,
         ghosts
<1>6. CASE Arm
  BY <1>0, <1>6 DEF Arm, sems, list, driver, client, host, ghosts
<1>7. CASE SetWaiting
  BY <1>0, <1>7 DEF SetWaiting, sems, list, driver, client, host, ghosts
<1>8. CASE AssertIRQ
  BY <1>0, <1>8 DEF AssertIRQ, sems, list, driver, client, host, ghosts
<1>9. CASE TransferWoken
  BY <1>0, <1>9 DEF TransferWoken, sems, list, driver, client, host, ghosts
<1>10. CASE TransferTimeout
  BY <1>0, <1>10 DEF TransferTimeout, sems, list, driver, client, host, ghosts
<1>11. CASE ClearWaiting
  BY <1>0, <1>11 DEF ClearWaiting, sems, list, driver, client, host, ghosts
<1>12. CASE DeassertIRQ
  BY <1>0, <1>12 DEF DeassertIRQ, sems, list, driver, client, host, ghosts
<1>13. CASE CheckStatus
  BY <1>0, <1>13 DEF CheckStatus, Completed, sems, list, driver, client, host,
         ghosts
<1>14. CASE Cancel
  BY <1>0, <1>14 DEF Cancel, sems, list, driver, client, host, ghosts
<1>15. CASE Handle
  BY <1>0, <1>15 DEF Handle, AfterHandler, AfterHandler, sems, list, driver,
         client, host, ghosts
<1>16. CASE HandlerReturns
  BY <1>0, <1>16 DEF HandlerReturns, AfterHandler, sems, list, driver, client,
         host, ghosts
<1>17. CASE LockQueueAgain
  BY <1>0, <1>17 DEF LockQueueAgain, sems, list, driver, client, host, ghosts
<1>18. CASE RemoveSent
  BY <1>0, <1>18 DEF RemoveSent, sems, list, driver, client, host, ghosts
<1>19. CASE CallDone
  BY <1>0, <1>19 DEF CallDone, sems, list, driver, client, host, ghosts
<1>20. ASSUME NEW m \in Msgs, Acquire(m) PROVE ReceivedInv'
  BY <1>0, <1>20 DEF Acquire, thread, sems, list, driver, client, host, ghosts
<1>21. ASSUME NEW m \in Msgs, SendLock(m) PROVE ReceivedInv'
  BY <1>0, <1>21 DEF SendLock, thread, sems, list, driver, client, host,
         ghosts
<1>22. ASSUME NEW m \in Msgs, SendAdd(m) PROVE ReceivedInv'
  BY <1>0, <1>22 DEF SendAdd, thread, sems, list, driver, client, host, ghosts
<1>23. ASSUME NEW m \in Msgs, SendPost(m) PROVE ReceivedInv'
  BY <1>0, <1>23 DEF SendPost, thread, sems, list, driver, client, host,
         ghosts
<1>24. ASSUME NEW c \in Cmds \cup {None}, HostAssertCS(c) PROVE ReceivedInv'
  BY <1>0, <1>24 DEF HostAssertCS, AssertCS, thread, sems, list, driver, client, host,
         ghosts
<1>25. CASE HostRunClock
  BY <1>0, <1>25 DEF HostRunClock, thread, sems, list, driver, client, host,
         ghosts
<1>26. CASE HostLastByte
  BY <1>0, <1>26 DEF HostLastByte, Sent, thread, sems, list, driver, client,
         host, ghosts
<1>27. CASE HostRaiseCS
  BY <1>0, <1>27 DEF HostRaiseCS, thread, sems, list, driver, client, host,
         ghosts
<1>28. CASE HostSeesIRQOff
  BY <1>0, <1>28 DEF HostSeesIRQOff, thread, sems, list, driver, client, host,
         ghosts
<1>29. CASE UNCHANGED vars
  BY <1>29 DEF vars, thread, sems, list, driver, client, host, ghosts
<1>30. CASE HostSeesCall
  BY <1>0, <1>30 DEF HostSeesCall, thread, sems, list, driver,
         client, host, ghosts
<1>31. ASSUME NEW c \in Cmds \cup {None}, HostAnswers(c) PROVE ReceivedInv'
  BY <1>0, <1>31 DEF HostAnswers, AssertCS, thread, sems, list, driver,
         client, host, ghosts
<1>32. CASE HostSeesIRQ
  BY <1>0, <1>32 DEF HostSeesIRQ, thread, sems, list, driver,
         client, host, ghosts
<1>33. QED
  BY <1>1, <1>2, <1>3, <1>4, <1>5, <1>6, <1>7, <1>8, <1>9, <1>10, <1>11,
     <1>12, <1>13, <1>14, <1>15, <1>16, <1>17, <1>18, <1>19, <1>20, <1>21,
     <1>22, <1>23, <1>24, <1>25, <1>26, <1>27, <1>28, <1>29, <1>30, <1>31,
     <1>32
  DEF Next, SpiThread, SpiSend, HostStep

(* The host that does not stall.                                            *)
LEMMA TimelyStep ==
    ASSUME HostMayStall = FALSE, TypeOK, TransferInv, HostInv, TimelyInv, [Next]_vars PROVE TimelyInv'
<1> USE ConstantsAssumption DEF TransferInv, HostInv, TimelyInv, AtTransfer, AtReceived, AtIRQ, Goto, Post
<1>0. /\ status \in {"IDLE", "STARTED", "COMPLETED", "CANCELED"} /\ spc \in ThreadPCs
      /\ SPI_done_sem \in 0..SemMax /\ rv \in {0, 1}
  BY DEF TypeOK
<1>1. CASE StealCS
  BY <1>0, <1>1 DEF StealCS, sems, list, driver, client, host, ghosts
<1>2. CASE LockQueue
  BY <1>0, <1>2 DEF LockQueue, sems, list, driver, client, host, ghosts
<1>3. CASE NothingToDo
  BY <1>0, <1>3 DEF NothingToDo, CSIsOff, sems, list, driver, client, host,
         ghosts
<1>4. CASE WaitCS
  BY <1>0, <1>4 DEF WaitCS, sems, list, driver, client, host, ghosts
<1>5. CASE PeekHead
  BY <1>0, <1>5 DEF PeekHead, CSIsOff, sems, list, driver, client, host,
         ghosts
<1>6. CASE Arm
  BY <1>0, <1>6 DEF Arm, sems, list, driver, client, host, ghosts
<1>7. CASE SetWaiting
  BY <1>0, <1>7 DEF SetWaiting, sems, list, driver, client, host, ghosts
<1>8. CASE AssertIRQ
  BY <1>0, <1>8 DEF AssertIRQ, sems, list, driver, client, host, ghosts
<1>9. CASE TransferWoken
  BY <1>0, <1>9 DEF TransferWoken, sems, list, driver, client, host, ghosts
<1>10. CASE TransferTimeout
  BY <1>0, <1>10 DEF TransferTimeout, sems, list, driver, client, host, ghosts
<1>11. CASE ClearWaiting
  BY <1>0, <1>11 DEF ClearWaiting, sems, list, driver, client, host, ghosts
<1>12. CASE DeassertIRQ
  BY <1>0, <1>12 DEF DeassertIRQ, sems, list, driver, client, host, ghosts
<1>13. CASE CheckStatus
  BY <1>0, <1>13 DEF CheckStatus, Completed, sems, list, driver, client, host,
         ghosts
<1>14. CASE Cancel
  BY <1>0, <1>14 DEF Cancel, sems, list, driver, client, host, ghosts
<1>15. CASE Handle
  BY <1>0, <1>15 DEF Handle, AfterHandler, AfterHandler, sems, list, driver,
         client, host, ghosts
<1>16. CASE HandlerReturns
  BY <1>0, <1>16 DEF HandlerReturns, AfterHandler, sems, list, driver, client,
         host, ghosts
<1>17. CASE LockQueueAgain
  BY <1>0, <1>17 DEF LockQueueAgain, sems, list, driver, client, host, ghosts
<1>18. CASE RemoveSent
  BY <1>0, <1>18 DEF RemoveSent, sems, list, driver, client, host, ghosts
<1>19. CASE CallDone
  BY <1>0, <1>19 DEF CallDone, sems, list, driver, client, host, ghosts
<1>20. ASSUME NEW m \in Msgs, Acquire(m) PROVE TimelyInv'
  BY <1>0, <1>20 DEF Acquire, thread, sems, list, driver, client, host, ghosts
<1>21. ASSUME NEW m \in Msgs, SendLock(m) PROVE TimelyInv'
  BY <1>0, <1>21 DEF SendLock, thread, sems, list, driver, client, host,
         ghosts
<1>22. ASSUME NEW m \in Msgs, SendAdd(m) PROVE TimelyInv'
  BY <1>0, <1>22 DEF SendAdd, thread, sems, list, driver, client, host, ghosts
<1>23. ASSUME NEW m \in Msgs, SendPost(m) PROVE TimelyInv'
  BY <1>0, <1>23 DEF SendPost, thread, sems, list, driver, client, host,
         ghosts
<1>24. ASSUME NEW c \in Cmds \cup {None}, HostAssertCS(c) PROVE TimelyInv'
  BY <1>0, <1>24 DEF HostAssertCS, AssertCS, thread, sems, list, driver, client, host,
         ghosts
<1>25. CASE HostRunClock
  BY <1>0, <1>25 DEF HostRunClock, thread, sems, list, driver, client, host,
         ghosts
<1>26. CASE HostLastByte
  BY <1>0, <1>26 DEF HostLastByte, Sent, thread, sems, list, driver, client,
         host, ghosts
<1>27. CASE HostRaiseCS
  BY <1>0, <1>27 DEF HostRaiseCS, thread, sems, list, driver, client, host,
         ghosts
<1>28. CASE HostSeesIRQOff
  BY <1>0, <1>28 DEF HostSeesIRQOff, thread, sems, list, driver, client, host,
         ghosts
<1>29. CASE UNCHANGED vars
  BY <1>29 DEF vars, thread, sems, list, driver, client, host, ghosts
<1>30. CASE HostSeesCall
  BY <1>0, <1>30 DEF HostSeesCall, thread, sems, list, driver,
         client, host, ghosts
<1>31. ASSUME NEW c \in Cmds \cup {None}, HostAnswers(c) PROVE TimelyInv'
  BY <1>0, <1>31 DEF HostAnswers, AssertCS, thread, sems, list, driver,
         client, host, ghosts
<1>32. CASE HostSeesIRQ
  BY <1>0, <1>32 DEF HostSeesIRQ, thread, sems, list, driver,
         client, host, ghosts
<1>33. QED
  BY <1>1, <1>2, <1>3, <1>4, <1>5, <1>6, <1>7, <1>8, <1>9, <1>10, <1>11,
     <1>12, <1>13, <1>14, <1>15, <1>16, <1>17, <1>18, <1>19, <1>20, <1>21,
     <1>22, <1>23, <1>24, <1>25, <1>26, <1>27, <1>28, <1>29, <1>30, <1>31,
     <1>32
  DEF Next, SpiThread, SpiSend, HostStep

(* The copies that reached the host, and the command it is owed.            *)
LEMMA CountStep ==
    ASSUME HostMayStall = FALSE, TypeOK, TxInv, TransferInv, HostInv, TimelyInv, CountInv, [Next]_vars PROVE CountInv'
<1> USE ConstantsAssumption DEF TransferInv, TimelyInv, CountInv, AtTransfer, AtReceived, AtIRQ, Goto, Msgs
<1>0. /\ status \in {"IDLE", "STARTED", "COMPLETED", "CANCELED"} /\ spc \in ThreadPCs
      /\ copies \in [Msgs -> 0..2] /\ tx_msg \in Msgs \cup {None} /\ hout \in Cmds \cup {None}
  BY DEF TypeOK
<1>1. CASE StealCS
  BY <1>0, <1>1 DEF StealCS, sems, list, driver, client, host, ghosts
<1>2. CASE LockQueue
  BY <1>0, <1>2 DEF LockQueue, sems, list, driver, client, host, ghosts
<1>3. CASE NothingToDo
  BY <1>0, <1>3 DEF NothingToDo, CSIsOff, sems, list, driver, client, host,
         ghosts
<1>4. CASE WaitCS
  BY <1>0, <1>4 DEF WaitCS, sems, list, driver, client, host, ghosts
<1>5. CASE PeekHead
  BY <1>0, <1>5 DEF PeekHead, CSIsOff, sems, list, driver, client, host,
         ghosts
<1>6. CASE Arm
  BY <1>0, <1>6 DEF Arm, sems, list, driver, client, host, ghosts
<1>7. CASE SetWaiting
  BY <1>0, <1>7 DEF SetWaiting, sems, list, driver, client, host, ghosts
<1>8. CASE AssertIRQ
  BY <1>0, <1>8 DEF AssertIRQ, sems, list, driver, client, host, ghosts
<1>9. CASE TransferWoken
  BY <1>0, <1>9 DEF TransferWoken, sems, list, driver, client, host, ghosts
<1>10. CASE TransferTimeout
  BY <1>0, <1>10 DEF TransferTimeout, sems, list, driver, client, host, ghosts
<1>11. CASE ClearWaiting
  BY <1>0, <1>11 DEF ClearWaiting, sems, list, driver, client, host, ghosts
<1>12. CASE DeassertIRQ
  BY <1>0, <1>12 DEF DeassertIRQ, sems, list, driver, client, host, ghosts
<1>13. CASE CheckStatus
  BY <1>0, <1>13 DEF CheckStatus, Completed, sems, list, driver, client, host,
         ghosts
<1>14. CASE Cancel
  BY <1>0, <1>14 DEF Cancel, sems, list, driver, client, host, ghosts
<1>15. CASE Handle
  BY <1>0, <1>15 DEF Handle, AfterHandler, AfterHandler, sems, list, driver,
         client, host, ghosts
<1>16. CASE HandlerReturns
  BY <1>0, <1>16 DEF HandlerReturns, AfterHandler, sems, list, driver, client,
         host, ghosts
<1>17. CASE LockQueueAgain
  BY <1>0, <1>17 DEF LockQueueAgain, sems, list, driver, client, host, ghosts
<1>18. CASE RemoveSent
  BY <1>0, <1>18 DEF RemoveSent, sems, list, driver, client, host, ghosts
<1>19. CASE CallDone
  BY <1>0, <1>19 DEF CallDone, sems, list, driver, client, host, ghosts
<1>20. ASSUME NEW m \in Msgs, Acquire(m) PROVE CountInv'
  BY <1>0, <1>20 DEF Acquire, thread, sems, list, driver, client, host, ghosts
<1>21. ASSUME NEW m \in Msgs, SendLock(m) PROVE CountInv'
  BY <1>0, <1>21 DEF SendLock, thread, sems, list, driver, client, host,
         ghosts
<1>22. ASSUME NEW m \in Msgs, SendAdd(m) PROVE CountInv'
  BY <1>0, <1>22 DEF SendAdd, thread, sems, list, driver, client, host, ghosts
<1>23. ASSUME NEW m \in Msgs, SendPost(m) PROVE CountInv'
  BY <1>0, <1>23 DEF SendPost, thread, sems, list, driver, client, host,
         ghosts
<1>24. ASSUME NEW c \in Cmds \cup {None}, HostAssertCS(c) PROVE CountInv'
  BY <1>0, <1>24 DEF HostAssertCS, AssertCS, thread, sems, list, driver, client, host,
         ghosts
<1>25. CASE HostRunClock
  BY <1>0, <1>25 DEF HostRunClock, thread, sems, list, driver, client, host,
         ghosts
<1>26. CASE HostLastByte
  BY <1>0, <1>26 DEF HostLastByte, Sent, thread, sems, list, driver, client,
         host, ghosts
<1>27. CASE HostRaiseCS
  BY <1>0, <1>27 DEF HostRaiseCS, thread, sems, list, driver, client, host,
         ghosts
<1>28. CASE HostSeesIRQOff
  BY <1>0, <1>28 DEF HostSeesIRQOff, thread, sems, list, driver, client, host,
         ghosts
<1>29. CASE UNCHANGED vars
  BY <1>29 DEF vars, thread, sems, list, driver, client, host, ghosts
<1>30. CASE HostSeesCall
  BY <1>0, <1>30 DEF HostSeesCall, thread, sems, list, driver,
         client, host, ghosts
<1>31. ASSUME NEW c \in Cmds \cup {None}, HostAnswers(c) PROVE CountInv'
  BY <1>0, <1>31 DEF HostAnswers, AssertCS, thread, sems, list, driver,
         client, host, ghosts
<1>32. CASE HostSeesIRQ
  BY <1>0, <1>32 DEF HostSeesIRQ, thread, sems, list, driver,
         client, host, ghosts
<1>33. QED
  BY <1>1, <1>2, <1>3, <1>4, <1>5, <1>6, <1>7, <1>8, <1>9, <1>10, <1>11,
     <1>12, <1>13, <1>14, <1>15, <1>16, <1>17, <1>18, <1>19, <1>20, <1>21,
     <1>22, <1>23, <1>24, <1>25, <1>26, <1>27, <1>28, <1>29, <1>30, <1>31,
     <1>32
  DEF Next, SpiThread, SpiSend, HostStep

----------------------------------------------------------------------------
(* The invariants.                                                         *)

(* The initial state satisfies every part.                                 *)
LEMMA SpiInvInit == Init => SpiInv /\ TimelyInv /\ CountInv
<1> SUFFICES ASSUME Init PROVE SpiInv /\ TimelyInv /\ CountInv
  OBVIOUS
<1> USE ConstantsAssumption DEF Init
<1>1. TypeOK
  <2>1. copies \in [Msgs -> 0..2] /\ snd \in [Msgs -> SendPCs] /\ inuse \in [Msgs -> BOOLEAN]
    BY DEF SendPCs
  <2>2. /\ queue_sem \in 0..SemMax /\ CS_sem \in 0..SemMax /\ SPI_done_sem \in 0..SemMax
        /\ rv \in {0, 1}
    OBVIOUS
  <2>3. tx_queue \in Seq(Msgs) /\ linked \subseteq Msgs
    OBVIOUS
  <2>4. QED
    BY <2>1, <2>2, <2>3, Zenon DEF TypeOK, ThreadPCs, HostPCs
<1>2. LockInv /\ ListInv /\ OwnerInv
  BY DEF LockInv, ListInv, OwnerInv, Msgs
<1>3. TxInv /\ TransferInv /\ HostInv /\ ReceivedInv
  BY DEF TxInv, TransferInv, HostInv, ReceivedInv, AtTransfer, AtReceived, AtIRQ
<1>4. TimelyInv /\ CountInv
  BY DEF TimelyInv, CountInv, AtTransfer, AtReceived
<1>5. QED
  BY <1>1, <1>2, <1>3, <1>4 DEF SpiInv

(* Every step keeps every part.                                            *)
LEMMA SpiInvStep == SpiInv /\ [Next]_vars => SpiInv'
<1> SUFFICES ASSUME SpiInv, [Next]_vars PROVE SpiInv'
  OBVIOUS
<1>1. /\ TypeOK /\ LockInv /\ ListInv /\ OwnerInv /\ TxInv
      /\ TransferInv /\ HostInv /\ ReceivedInv
  BY DEF SpiInv
<1>2. TypeOK' /\ LockInv' /\ ListInv'
  BY <1>1, TypeStep, LockStep, ListStep
<1>3. OwnerInv' /\ TxInv'
  BY <1>1, OwnerStep, TxStep
<1>4. TransferInv' /\ HostInv' /\ ReceivedInv'
  BY <1>1, TransferStep, HostInvStep, ReceivedStep
<1>5. QED
  BY <1>2, <1>3, <1>4 DEF SpiInv

(* The inductive invariant holds in every state of the SPI port, whatever  *)
(* the host does (spi.c and list.h as modelled in Spi).                    *)
THEOREM SpiInvariant == Spec => []SpiInv
<1>1. Init => SpiInv
  BY SpiInvInit
<1>2. QED
  BY <1>1, SpiInvStep, PTL DEF Spec

(* Every variable of the SPI port keeps its type.                          *)
THEOREM TypeCorrect == Spec => []TypeOK
<1>1. SpiInv => TypeOK
  BY DEF SpiInv
<1>2. QED
  BY <1>1, SpiInvariant, PTL

(* The debugging checks of list.h never catch anything: dlist_add_tail and *)
(* dlist_remove_link never spin with queue_sem taken.  SPI_transfer never  *)
(* refuses a transfer for one that is still under way.                     *)
THEOREM NoSpin == Spec => []NeverSpins
<1>1. SpiInv => NeverSpins
  <2> SUFFICES ASSUME SpiInv PROVE NeverSpins
    OBVIOUS
  <2>1. \A m \in Msgs : snd[m] = "add" => m \notin linked
    BY DEF SpiInv, OwnerInv
  <2>2. ASSUME spc = "remove" PROVE tx_msg \in linked
    <3>1. tx_msg \in Msgs /\ Len(tx_queue) > 0 /\ tx_queue[1] = tx_msg
      BY <2>2 DEF SpiInv, TxInv, TypeOK
    <3>2. 1 \in 1..Len(tx_queue)
      BY <3>1 DEF SpiInv, TypeOK
    <3>3. QED
      BY <3>1, <3>2 DEF SpiInv, ListInv
  <2>3. spc = "arm" => status # "STARTED"
    BY DEF SpiInv, TransferInv, AtTransfer
  <2>4. QED
    BY <2>1, <2>2, <2>3 DEF NeverSpins
<1>2. QED
  BY <1>1, SpiInvariant, PTL

(* The message peeked under the lock is still the head of the queue, and   *)
(* still its owner's to wait for, when spiThread has finished with it.     *)
THEOREM TxMsgStaysHead == Spec => []TxMsgIsHead
<1>1. SpiInv => TxMsgIsHead
  <2> SUFFICES ASSUME SpiInv, tx_msg # None,
                      spc \in {"arm", "waiting", "irqOn", "wait", "notWaiting", "irqOff",
                               "check", "handle", "reply", "lock2", "remove"}
               PROVE  /\ tx_queue # <<>> /\ Head(tx_queue) = tx_msg
                      /\ inuse[tx_msg] /\ snd[tx_msg] \in {"post", "idle"}
    BY DEF TxMsgIsHead
  <2>1. tx_msg \in Msgs /\ tx_queue \in Seq(Msgs)
    BY DEF SpiInv, TypeOK
  <2>2. Len(tx_queue) > 0 /\ tx_queue[1] = tx_msg
    BY DEF SpiInv, TxInv, AtTransfer
  <2>3. tx_msg \in linked
    <3>1. 1 \in 1..Len(tx_queue)
      BY <2>1, <2>2
    <3>2. QED
      BY <2>1, <2>2, <3>1 DEF SpiInv, ListInv
  <2>4. inuse[tx_msg] /\ snd[tx_msg] \in {"post", "idle"}
    BY <2>3 DEF SpiInv, OwnerInv
  <2>5. QED
    BY <2>1, <2>2, <2>4
<1>2. QED
  BY <1>1, SpiInvariant, PTL

(* done() is called only for messages the host was sent in full, stale     *)
(* posts and timeouts notwithstanding.                                     *)
THEOREM DoneOnlyIfSent == Spec => []DoneImpliesSent
<1>1. SpiInv => DoneImpliesSent
  BY DEF SpiInv, TxInv, TransferInv, ReceivedInv, AtReceived, DoneImpliesSent
<1>2. QED
  BY <1>1, SpiInvariant, PTL

(* The handler sees what the transfer armed last received, never what      *)
(* rx_buf kept from an earlier one, whenever the host runs its clock.      *)
THEOREM HandlerGetsOwn == Spec => []HandlerGetsReceived
<1>1. SpiInv => HandlerGetsReceived
  BY DEF SpiInv, TransferInv, ReceivedInv, AtReceived, HandlerGetsReceived
<1>2. QED
  BY <1>1, SpiInvariant, PTL

(* With a host that does not stall the invariant has its timely parts too. *)
THEOREM TimelyInvariant ==
    ASSUME HostMayStall = FALSE PROVE Spec => []TimelySpiInv
<1>1. Init => TimelySpiInv
  BY SpiInvInit DEF TimelySpiInv
<1>2. TimelySpiInv /\ [Next]_vars => TimelySpiInv'
  <2> SUFFICES ASSUME TimelySpiInv, [Next]_vars PROVE TimelySpiInv'
    OBVIOUS
  <2>1. SpiInv'
    BY SpiInvStep DEF TimelySpiInv
  <2>2. TimelyInv'
    BY TimelyStep DEF TimelySpiInv, SpiInv
  <2>3. CountInv'
    BY CountStep DEF TimelySpiInv, SpiInv
  <2>4. QED
    BY <2>1, <2>2, <2>3 DEF TimelySpiInv
<1>3. QED
  BY <1>1, <1>2, PTL DEF Spec

(* With a host that does not stall each message reaches it exactly once.   *)
THEOREM ExactlyOnce == ASSUME HostMayStall = FALSE PROVE Spec => []SentOnce
<1>1. TimelySpiInv => SentOnce
  BY DEF TimelySpiInv, SpiInv, TypeOK, TxInv, TransferInv, CountInv, AtReceived, SentOnce
<1>2. QED
  BY <1>1, TimelyInvariant, PTL

(* With a host that does not stall no command of the host is lost.         *)
THEOREM CommandsArrive == ASSUME HostMayStall = FALSE PROVE Spec => []NoCommandLost
<1>1. TimelySpiInv => NoCommandLost
  BY DEF TimelySpiInv, CountInv, AtTransfer, NoCommandLost
<1>2. QED
  BY <1>1, TimelyInvariant, PTL

(* With a host that does not stall a post of SPI_done_sem is there only    *)
(* while spiThread waits for the transfer that posted it.                  *)
THEOREM PostsAreFresh == ASSUME HostMayStall = FALSE PROVE Spec => []NoStalePost
<1>1. TimelySpiInv => NoStalePost
  BY DEF TimelySpiInv, SpiInv, TypeOK, TimelyInv, NoStalePost
<1>2. QED
  BY <1>1, TimelyInvariant, PTL

-----------------------------------------------------------------------------
(* The SPI port implements the message bus (MsgBus): a lossy one if the    *)
(* host may stall, one that loses nothing if it may not.                   *)

(* The port starts as the bus does.                                        *)
LEMMA BusInitOK == Init => Bus!BusInit
  BY ConstantsAssumption DEF Init, Bus!BusInit, busPhase, InTransfer

(* A step of the port is a step of the bus, or changes nothing of it: only *)
(* six actions of the port are visible on the bus.                         *)
LEMMA BusStep ==
    ASSUME SpiInv, HostMayStall = FALSE => TimelyInv, [Next]_vars
    PROVE  [Bus!BusNext]_Bus!busVars
<1> USE ConstantsAssumption
<1> DEFINE q == IF spc = "done" THEN <<tx_msg>> \o tx_queue ELSE tx_queue
           c == IF busPhase = "received" THEN rx_buf ELSE None
           t == IF busPhase = "idle" THEN None ELSE tx_msg
           Same == q' = q /\ busPhase' = busPhase /\ c' = c /\ t' = t
<1>same. ASSUME Same PROVE UNCHANGED Bus!busVars
  BY <1>same DEF Bus!busVars
<1>0. /\ status \in {"IDLE", "STARTED", "COMPLETED", "CANCELED"} /\ spc \in ThreadPCs
      /\ tx_msg \in Msgs \cup {None} /\ tx_queue \in Seq(Msgs)
      /\ rx_buf \in Cmds \cup {None, Noise} /\ hout \in Cmds \cup {None}
  BY DEF SpiInv, TypeOK
<1>01. TransferInv /\ TxInv /\ ListInv /\ HostInv /\ OwnerInv
  BY DEF SpiInv
<1>1. ASSUME StealCS PROVE Same
  BY <1>1 DEF StealCS, Goto, list, driver, busPhase, InTransfer
<1>2. ASSUME LockQueue PROVE Same
  BY <1>2 DEF LockQueue, Goto, list, driver, busPhase, InTransfer
<1>3. ASSUME NothingToDo PROVE Same
  BY <1>3 DEF NothingToDo, Goto, list, driver, busPhase, InTransfer
<1>4. ASSUME WaitCS PROVE Same
  BY <1>4 DEF WaitCS, Goto, list, driver, busPhase, InTransfer
<1>5. ASSUME PeekHead PROVE Same
  BY <1>5 DEF PeekHead, Goto, list, driver, busPhase, InTransfer
<1>6. ASSUME Arm PROVE Same
  BY <1>6 DEF Arm, Goto, list, driver, busPhase, InTransfer
<1>7. ASSUME SetWaiting PROVE Same
  BY <1>7 DEF SetWaiting, Goto, list, driver, busPhase, InTransfer
<1>8. ASSUME AssertIRQ PROVE Same
  BY <1>8 DEF AssertIRQ, Goto, list, driver, busPhase, InTransfer
<1>9. ASSUME TransferWoken PROVE Same
  BY <1>9 DEF TransferWoken, Goto, list, driver, busPhase, InTransfer
<1>10. ASSUME TransferTimeout PROVE Same
  BY <1>10 DEF TransferTimeout, Goto, list, driver, busPhase, InTransfer
<1>11. ASSUME ClearWaiting PROVE Same
  BY <1>11 DEF ClearWaiting, Goto, list, driver, busPhase, InTransfer
<1>12. ASSUME DeassertIRQ PROVE Same
  BY <1>12 DEF DeassertIRQ, Goto, list, driver, busPhase, InTransfer
<1>13. ASSUME CheckStatus PROVE Same
  BY <1>13 DEF CheckStatus, list, driver, busPhase, InTransfer
<1>14. CASE Cancel
  <2>1. CASE status = "STARTED"
    <3>1. Same
      BY <1>14, <2>1 DEF Cancel, Goto, list, busPhase, InTransfer
    <3>2. QED
      BY <1>same, <3>1
  <2>2. CASE status # "STARTED"
    <3>1. HostMayStall = TRUE
      BY <1>14, <2>2 DEF Cancel, Goto, TimelyInv
    <3>2. busPhase = "received" /\ busPhase' = "idle"
      BY <1>0, <1>01, <1>14, <2>2 DEF Cancel, Goto, busPhase, InTransfer, TransferInv, AtTransfer
    <3>3. q' = q
      BY <1>14 DEF Cancel, Goto, list
    <3>4. Bus!Dropped
      BY <3>1, <3>2, <3>3 DEF Bus!Dropped
    <3>5. QED
      BY <3>4 DEF Bus!BusNext
  <2>3. QED
    BY <2>1, <2>2
<1>15. CASE Handle
  <2>1. busPhase = "received"
    BY <1>01, <1>15 DEF Handle, busPhase, InTransfer, TransferInv, AtReceived
  <2>2. busPhase' = IF tx_msg = None THEN "idle" ELSE "sent"
    BY <1>15 DEF Handle, AfterHandler, busPhase, InTransfer
  <2>3. q' = q /\ t = tx_msg /\ t' = tx_msg
    BY <1>15, <2>1, <2>2 DEF Handle, AfterHandler, list
  <2>4. Bus!Handled
    BY <2>1, <2>2, <2>3 DEF Bus!Handled
  <2>5. QED
    BY <2>4 DEF Bus!BusNext
<1>16. ASSUME HandlerReturns PROVE Same
  BY <1>16 DEF HandlerReturns, Goto, AfterHandler, list, driver, busPhase,
         InTransfer
<1>17. ASSUME LockQueueAgain PROVE Same
  BY <1>17 DEF LockQueueAgain, Goto, list, driver, busPhase, InTransfer
<1>18. CASE RemoveSent
  <2>1. tx_msg \in Msgs /\ Len(tx_queue) > 0 /\ tx_queue[1] = tx_msg
    BY <1>0, <1>01, <1>18 DEF RemoveSent, Goto, TxInv
  <2>2. tx_queue' = Tail(tx_queue)
    BY <1>0, <1>01, <1>18, <2>1, RemoveHead DEF RemoveSent, ListInv
  <2>3. <<tx_msg>> \o Tail(tx_queue) = tx_queue
    BY <1>0, <2>1
  <2>4. Same
    BY <1>18, <2>2, <2>3 DEF RemoveSent, Goto, driver, busPhase, InTransfer
  <2>5. QED
    BY <1>same, <2>4
<1>19. CASE CallDone
  <2>1. busPhase = "sent" /\ busPhase' = "idle"
    BY <1>01, <1>19 DEF CallDone, Goto, busPhase, InTransfer, TxInv
  <2>2. q = <<tx_msg>> \o tx_queue /\ q' = tx_queue
    BY <1>19 DEF CallDone, Goto, list
  <2>3. Tail(<<tx_msg>> \o tx_queue) = tx_queue
    BY <1>0, <1>01, <1>19 DEF CallDone, Goto, TxInv
  <2>4. Bus!Done
    BY <2>1, <2>2, <2>3 DEF Bus!Done
  <2>5. QED
    BY <2>4 DEF Bus!BusNext
<1>20. ASSUME NEW m \in Msgs, Acquire(m) PROVE Same
  BY <1>20 DEF Acquire, thread, list, driver, busPhase, InTransfer
<1>21. ASSUME NEW m \in Msgs, SendLock(m) PROVE Same
  BY <1>21 DEF SendLock, thread, list, driver, busPhase, InTransfer
<1>22. ASSUME NEW m \in Msgs, SendAdd(m) PROVE Bus!Send(m)
  <2>1. /\ busPhase' = busPhase /\ c' = c /\ t' = t
    BY <1>22 DEF SendAdd, thread, driver, busPhase, InTransfer
  <2>2. q' = Append(q, m)
    <3>1. CASE spc = "done"
      <4>1. tx_msg \in Msgs
        BY <1>0, <1>01, <3>1 DEF TxInv
      <4>2. <<tx_msg>> \o Append(tx_queue, m) = Append(<<tx_msg>> \o tx_queue, m)
        BY <1>0, <4>1
      <4>3. QED
        BY <1>22, <3>1, <4>2 DEF SendAdd, thread
    <3>2. CASE spc # "done"
      BY <1>22, <3>2 DEF SendAdd, thread
    <3>3. QED
      BY <3>1, <3>2
  <2>3. \A i \in DOMAIN q : q[i] # m
    <3>1. \A i \in 1..Len(tx_queue) : tx_queue[i] # m
      BY <1>01, <1>22 DEF SendAdd, ListInv
    <3>2. CASE spc = "done"
      <4>1. tx_msg \in Msgs /\ tx_msg # m
        BY <1>0, <1>01, <1>22, <3>2 DEF SendAdd, TxInv
      <4>2. QED
        BY <1>0, <3>1, <3>2, <4>1
    <3>3. CASE spc # "done"
      BY <1>0, <3>1, <3>3
    <3>4. QED
      BY <3>2, <3>3
  <2>4. QED
    BY <2>1, <2>2, <2>3 DEF Bus!Send, Bus!InQueue
<1>23. ASSUME NEW m \in Msgs, SendPost(m) PROVE Same
  BY <1>23 DEF SendPost, thread, list, driver, busPhase, InTransfer
<1>24. ASSUME NEW k \in Cmds, HostAssertCS(k) PROVE Same
  BY <1>24 DEF HostAssertCS, AssertCS, thread, list, driver, busPhase, InTransfer
<1>25. ASSUME HostRunClock PROVE Same
  BY <1>25 DEF HostRunClock, thread, list, driver, busPhase, InTransfer
<1>26. CASE HostLastByte
  <2>1. CASE status = "STARTED" /\ (live \/ ragged)
    <3>1. busPhase = "idle" /\ busPhase' = "received"
      BY <1>01, <1>26, <2>1 DEF HostLastByte, thread, busPhase, InTransfer, TransferInv, AtTransfer
    <3>2. q' = q /\ c' = rx_buf' /\ t' = tx_msg /\ t = None
      BY <3>1, <1>26 DEF HostLastByte, thread, list
    <3>3. rx_buf' = Noise => HostMayStall
      BY <1>0, <1>26, <2>1 DEF HostLastByte, TimelyInv
    <3>4. rx_buf' \in Cmds \cup {None, Noise}
      BY <1>0, <1>26, <2>1 DEF HostLastByte
    <3>5. tx_msg = None \/ (q # <<>> /\ tx_msg = Head(q))
      BY <1>0, <1>01, <2>1 DEF TxInv, TransferInv, AtTransfer
    <3>6. Bus!Exchange(rx_buf')
      BY <3>1, <3>2, <3>3, <3>5 DEF Bus!Exchange
    <3>7. QED
      BY <3>4, <3>6 DEF Bus!BusNext
  <2>2. CASE ~(status = "STARTED" /\ (live \/ ragged))
    <3>1. Same
      BY <1>26, <2>2 DEF HostLastByte, thread, list, driver, busPhase, InTransfer
    <3>2. QED
      BY <1>same, <3>1
  <2>3. QED
    BY <2>1, <2>2
<1>27. ASSUME HostRaiseCS PROVE Same
  BY <1>27 DEF HostRaiseCS, thread, list, driver, busPhase, InTransfer
<1>28. ASSUME HostSeesIRQOff PROVE Same
  BY <1>28 DEF HostSeesIRQOff, thread, list, driver, busPhase, InTransfer
<1>29. ASSUME UNCHANGED vars PROVE Same
  BY <1>29 DEF vars, thread, list, driver, busPhase, InTransfer
<1>35. ASSUME HostSeesCall PROVE Same
  BY <1>35 DEF HostSeesCall, thread, list, driver, busPhase, InTransfer
<1>36. ASSUME NEW k \in Cmds \cup {None}, HostAnswers(k) PROVE Same
  BY <1>36 DEF HostAnswers, AssertCS, thread, list, driver, busPhase, InTransfer
<1>37. ASSUME HostSeesIRQ PROVE Same
  BY <1>37 DEF HostSeesIRQ, thread, list, driver, busPhase, InTransfer
<1> HIDE DEF Same
<1>30. CASE SpiThread
  <2>1. Same \/ [Bus!BusNext]_Bus!busVars
    BY <1>30, <1>1, <1>2, <1>3, <1>4, <1>5, <1>6, <1>7, <1>8, <1>9, <1>10, <1>11,
       <1>12, <1>13, <1>14, <1>15, <1>16, <1>17, <1>18, <1>19, Zenon DEF SpiThread
  <2>2. QED
    BY <2>1, <1>same
<1>31. CASE \E m \in Msgs : Acquire(m) \/ SpiSend(m)
  BY <1>20, <1>21, <1>22, <1>23, <1>31, <1>same DEF SpiSend, Bus!BusNext
<1>32. CASE \E k \in Cmds : HostAssertCS(k)
  BY <1>24, <1>32, <1>same
<1>33. CASE \E k \in Cmds \cup {None} : HostAnswers(k)
  BY <1>36, <1>33, <1>same
<1>34. CASE HostStep
  BY <1>25, <1>26, <1>27, <1>28, <1>34, <1>35, <1>37, <1>same DEF HostStep
<1>38. QED
  BY <1>29, <1>30, <1>31, <1>32, <1>33, <1>34, <1>same DEF Next

(* The SPI port implements the message bus, for any host: FIFO order, done *)
(* once per message and after its run, each command handled at most once.  *)
THEOREM PortImplementsBus == Spec => ImplementsBus
<1>1. SpiInv /\ (HostMayStall = FALSE => TimelyInv) /\ [Next]_vars
      => [Bus!BusNext]_Bus!busVars
  BY BusStep
<1>2. Spec => [](HostMayStall = FALSE => TimelyInv)
  <2>1. CASE HostMayStall = FALSE
    <3>1. TimelySpiInv => (HostMayStall = FALSE => TimelyInv)
      BY DEF TimelySpiInv
    <3>2. Spec => []TimelySpiInv
      BY <2>1, TimelyInvariant
    <3>3. QED
      BY <3>1, <3>2, PTL
  <2>2. CASE HostMayStall # FALSE
    <3>1. HostMayStall = FALSE => TimelyInv
      BY <2>2
    <3>2. QED
      BY <3>1, PTL
  <2>3. QED
    BY <2>1, <2>2
<1>3. QED
  BY <1>1, <1>2, BusInitOK, SpiInvariant, PTL DEF Spec, ImplementsBus, Bus!BusSpec
=============================================================================

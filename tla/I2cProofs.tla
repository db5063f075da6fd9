----------------------------- MODULE I2cProofs -----------------------------
(* Proofs about i2c.c (module I2c), for any buses, callers and statuses.   *)
EXTENDS I2c, TLAPS

(* A caller between its sem_wait and its sem_post for bus b.               *)
Holds(t, b) == pc[t] \in {"test", "busy", "claim"} /\ i2cnum[t] = b

(* The semaphore of a bus is a mutex.                                      *)
MutexInv ==
    \A b \in Buses, t \in Trans : Holds(t, b) =>
        /\ i2c_sem[b] = 0
        /\ \A u \in Trans : Holds(u, b) => t = u

(* The flag of a bus, against who starts on it and what the driver has.    *)
FlagInv ==
    /\ \A b \in Buses : driver[b] # None => i2c_inuse[b]
    /\ \A b \in Buses, t \in Trans : Starting(t, b) => i2c_inuse[b]
    /\ \A t \in Trans : pc[t] = "claim" => ~i2c_inuse[i2cnum[t]]

(* A structure the driver has names its bus.                               *)
BusInv == \A b \in Buses : driver[b] # None => i2cnum[driver[b]] = b

CallsInv ==
    \A t \in Trans : calls[t] = IF \E b \in Buses : driver[b] = t THEN 1 ELSE 0

(* The inductive invariant: exclusion on a bus needs the mutex and the     *)
(* flag, and the flag needs BusInv, since i2c_transfer_done finds it       *)
(* through the structure.                                                  *)
I2cInv ==
    I2cTypeOK /\ MutexInv /\ FlagInv /\ BusInv /\ CallsInv
    /\ OneTransactionPerBus /\ StatusNotStale

----------------------------------------------------------------------------
LEMMA I2cInvInit == I2cInit => I2cInv
BY I2cAssumption
DEF I2cInit, I2cInv, I2cTypeOK, MutexInv, FlagInv, BusInv, CallsInv, CallerPCs, Holds,
    OneTransactionPerBus, StatusNotStale, Starting

LEMMA I2cTypeStep == I2cInv /\ [I2cNext]_i2cVars => I2cTypeOK'
<1> SUFFICES ASSUME I2cInv, [I2cNext]_i2cVars PROVE I2cTypeOK'
  OBVIOUS
<1> USE I2cAssumption DEF I2cInv, I2cTypeOK, CallerPCs, Goto, ERROR
<1>1. ASSUME NEW t \in Trans, NEW b \in Buses, Call(t, b) PROVE I2cTypeOK'
  BY <1>1 DEF Call
<1>2. ASSUME NEW t \in Trans, Lock(t) PROVE I2cTypeOK'
  BY <1>2 DEF Lock
<1>3. ASSUME NEW t \in Trans, Test(t) PROVE I2cTypeOK'
  BY <1>3 DEF Test
<1>4. ASSUME NEW t \in Trans, ReturnBusy(t) PROVE I2cTypeOK'
  BY <1>4 DEF ReturnBusy
<1>5. ASSUME NEW t \in Trans, Claim(t) PROVE I2cTypeOK'
  BY <1>5 DEF Claim
<1>6. ASSUME NEW t \in Trans, Start(t) PROVE I2cTypeOK'
  <2>1. i2cnum[t] \in Buses /\ driver[i2cnum[t]] = None
    BY <1>6 DEF Start, OneTransactionPerBus, Starting
  <2>2. calls[t] = 0
    BY <2>1, <1>6 DEF BusInv, CallsInv, Start
  <2>3. QED
    BY <1>6, <2>1, <2>2 DEF Start
<1>7. ASSUME NEW t \in Trans, StartRefused(t) PROVE I2cTypeOK'
  BY <1>7 DEF StartRefused
<1>8. ASSUME NEW d \in Buses, TransferDone(d) PROVE I2cTypeOK'
  <2>1. driver[d] \in Trans /\ calls[driver[d]] = 1
    BY <1>8 DEF TransferDone, CallsInv
  <2>2. QED
    BY <1>8, <2>1 DEF TransferDone
<1>9. CASE UNCHANGED i2cVars
  BY <1>9 DEF i2cVars
<1>10. QED
  BY <1>1, <1>2, <1>3, <1>4, <1>5, <1>6, <1>7, <1>8, <1>9 DEF I2cNext, Caller

(* Lock takes the semaphore only when nobody holds it.                     *)
LEMMA MutexStep == I2cInv /\ [I2cNext]_i2cVars => MutexInv'
<1> SUFFICES ASSUME I2cInv, [I2cNext]_i2cVars PROVE MutexInv'
  OBVIOUS
<1> USE I2cAssumption DEF I2cInv, I2cTypeOK, CallerPCs, Goto, ERROR, MutexInv, Holds
<1>1. ASSUME NEW t \in Trans, NEW b \in Buses, Call(t, b) PROVE MutexInv'
  BY <1>1 DEF Call
<1>2. ASSUME NEW t \in Trans, Lock(t) PROVE MutexInv'
  BY <1>2 DEF Lock
<1>3. ASSUME NEW t \in Trans, Test(t) PROVE MutexInv'
  BY <1>3 DEF Test
<1>4. ASSUME NEW t \in Trans, ReturnBusy(t) PROVE MutexInv'
  BY <1>4 DEF ReturnBusy
<1>5. ASSUME NEW t \in Trans, Claim(t) PROVE MutexInv'
  BY <1>5 DEF Claim
<1>6. ASSUME NEW t \in Trans, Start(t) PROVE MutexInv'
  BY <1>6 DEF Start
<1>7. ASSUME NEW t \in Trans, StartRefused(t) PROVE MutexInv'
  BY <1>7 DEF StartRefused
<1>8. ASSUME NEW d \in Buses, TransferDone(d) PROVE MutexInv'
  BY <1>8 DEF TransferDone
<1>9. CASE UNCHANGED i2cVars
  BY <1>9 DEF i2cVars
<1>10. QED
  BY <1>1, <1>2, <1>3, <1>4, <1>5, <1>6, <1>7, <1>8, <1>9 DEF I2cNext, Caller

(* Only the holder of the mutex sets the flag, only the driver clears it.  *)
LEMMA FlagStep == I2cInv /\ [I2cNext]_i2cVars => FlagInv'
<1> SUFFICES ASSUME I2cInv, [I2cNext]_i2cVars PROVE FlagInv'
  OBVIOUS
<1> USE I2cAssumption DEF I2cInv, I2cTypeOK, CallerPCs, Goto, ERROR, FlagInv, Starting
<1>1. ASSUME NEW t \in Trans, NEW b \in Buses, Call(t, b) PROVE FlagInv'
  BY <1>1 DEF Call
<1>2. ASSUME NEW t \in Trans, Lock(t) PROVE FlagInv'
  BY <1>2 DEF Lock
<1>3. ASSUME NEW t \in Trans, Test(t) PROVE FlagInv'
  BY <1>3 DEF Test
<1>4. ASSUME NEW t \in Trans, ReturnBusy(t) PROVE FlagInv'
  BY <1>4 DEF ReturnBusy
<1>5. ASSUME NEW t \in Trans, Claim(t) PROVE FlagInv'
  BY <1>5 DEF Claim, MutexInv, Holds
<1>6. ASSUME NEW t \in Trans, Start(t) PROVE FlagInv'
  BY <1>6 DEF Start
<1>7. ASSUME NEW t \in Trans, StartRefused(t) PROVE FlagInv'
  BY <1>7 DEF StartRefused
<1>8. ASSUME NEW d \in Buses, TransferDone(d) PROVE FlagInv'
  <2>1. driver[d] \in Trans /\ i2cnum[driver[d]] = d
    BY <1>8 DEF TransferDone, BusInv
  <2>2. \A t \in Trans : ~Starting(t, d)
    BY <1>8 DEF TransferDone, OneTransactionPerBus
  <2>3. QED
    BY <1>8, <2>1, <2>2 DEF TransferDone
<1>9. CASE UNCHANGED i2cVars
  BY <1>9 DEF i2cVars
<1>10. QED
  BY <1>1, <1>2, <1>3, <1>4, <1>5, <1>6, <1>7, <1>8, <1>9 DEF I2cNext, Caller

(* A caller names another bus only while the driver does not have its      *)
(* structure.                                                              *)
LEMMA BusStep == I2cInv /\ [I2cNext]_i2cVars => BusInv'
<1> SUFFICES ASSUME I2cInv, [I2cNext]_i2cVars PROVE BusInv'
  OBVIOUS
<1> USE I2cAssumption DEF I2cInv, I2cTypeOK, CallerPCs, Goto, ERROR, BusInv
<1>1. ASSUME NEW t \in Trans, NEW b \in Buses, Call(t, b) PROVE BusInv'
  BY <1>1 DEF Call
<1>2. ASSUME NEW t \in Trans, Lock(t) PROVE BusInv'
  BY <1>2 DEF Lock
<1>3. ASSUME NEW t \in Trans, Test(t) PROVE BusInv'
  BY <1>3 DEF Test
<1>4. ASSUME NEW t \in Trans, ReturnBusy(t) PROVE BusInv'
  BY <1>4 DEF ReturnBusy
<1>5. ASSUME NEW t \in Trans, Claim(t) PROVE BusInv'
  BY <1>5 DEF Claim
<1>6. ASSUME NEW t \in Trans, Start(t) PROVE BusInv'
  BY <1>6 DEF Start
<1>7. ASSUME NEW t \in Trans, StartRefused(t) PROVE BusInv'
  BY <1>7 DEF StartRefused
<1>8. ASSUME NEW d \in Buses, TransferDone(d) PROVE BusInv'
  BY <1>8 DEF TransferDone
<1>9. CASE UNCHANGED i2cVars
  BY <1>9 DEF i2cVars
<1>10. QED
  BY <1>1, <1>2, <1>3, <1>4, <1>5, <1>6, <1>7, <1>8, <1>9 DEF I2cNext, Caller

(* calls counts what the driver has.                                       *)
LEMMA CallsStep == I2cInv /\ [I2cNext]_i2cVars => CallsInv'
<1> SUFFICES ASSUME I2cInv, [I2cNext]_i2cVars PROVE CallsInv'
  OBVIOUS
<1> USE I2cAssumption DEF I2cInv, I2cTypeOK, CallerPCs, Goto, ERROR, CallsInv
<1>1. ASSUME NEW t \in Trans, NEW b \in Buses, Call(t, b) PROVE CallsInv'
  BY <1>1 DEF Call
<1>2. ASSUME NEW t \in Trans, Lock(t) PROVE CallsInv'
  BY <1>2 DEF Lock
<1>3. ASSUME NEW t \in Trans, Test(t) PROVE CallsInv'
  BY <1>3 DEF Test
<1>4. ASSUME NEW t \in Trans, ReturnBusy(t) PROVE CallsInv'
  BY <1>4 DEF ReturnBusy
<1>5. ASSUME NEW t \in Trans, Claim(t) PROVE CallsInv'
  BY <1>5 DEF Claim
<1>6. ASSUME NEW t \in Trans, Start(t) PROVE CallsInv'
  <2>1. driver[i2cnum[t]] = None
    BY <1>6 DEF Start, OneTransactionPerBus, Starting
  <2>2. \A b \in Buses : driver[b] # t
    BY <2>1, <1>6 DEF BusInv
  <2>3. calls[t] = 0
    BY <2>2
  <2>4. QED
    BY <1>6, <2>1, <2>2, <2>3 DEF Start
<1>7. ASSUME NEW t \in Trans, StartRefused(t) PROVE CallsInv'
  BY <1>7 DEF StartRefused
<1>8. ASSUME NEW d \in Buses, TransferDone(d) PROVE CallsInv'
  <2> DEFINE t == driver[d]
  <2>1. t \in Trans /\ calls[t] = 1
    BY <1>8 DEF TransferDone
  <2>2. \A b \in Buses : driver[b] = t => b = d
    BY <2>1 DEF BusInv
  <2>3. QED
    BY <1>8, <2>1, <2>2 DEF TransferDone
<1>9. CASE UNCHANGED i2cVars
  BY <1>9 DEF i2cVars
<1>10. QED
  BY <1>1, <1>2, <1>3, <1>4, <1>5, <1>6, <1>7, <1>8, <1>9 DEF I2cNext, Caller

(* A claim finds the flag clear, so nobody starts and the driver is free.  *)
LEMMA ExclusionStep == I2cInv /\ [I2cNext]_i2cVars => OneTransactionPerBus'
<1> SUFFICES ASSUME I2cInv, [I2cNext]_i2cVars PROVE OneTransactionPerBus'
  OBVIOUS
<1> USE I2cAssumption DEF I2cInv, I2cTypeOK, CallerPCs, Goto, ERROR, OneTransactionPerBus, Starting
<1>1. ASSUME NEW t \in Trans, NEW b \in Buses, Call(t, b) PROVE OneTransactionPerBus'
  BY <1>1 DEF Call
<1>2. ASSUME NEW t \in Trans, Lock(t) PROVE OneTransactionPerBus'
  BY <1>2 DEF Lock
<1>3. ASSUME NEW t \in Trans, Test(t) PROVE OneTransactionPerBus'
  BY <1>3 DEF Test
<1>4. ASSUME NEW t \in Trans, ReturnBusy(t) PROVE OneTransactionPerBus'
  BY <1>4 DEF ReturnBusy
<1>5. ASSUME NEW t \in Trans, Claim(t) PROVE OneTransactionPerBus'
  <2>1. driver[i2cnum[t]] = None /\ \A u \in Trans : ~Starting(u, i2cnum[t])
    BY <1>5 DEF Claim, FlagInv
  <2>2. QED
    BY <1>5, <2>1 DEF Claim
<1>6. ASSUME NEW t \in Trans, Start(t) PROVE OneTransactionPerBus'
  BY <1>6 DEF Start
<1>7. ASSUME NEW t \in Trans, StartRefused(t) PROVE OneTransactionPerBus'
  BY <1>7 DEF StartRefused
<1>8. ASSUME NEW d \in Buses, TransferDone(d) PROVE OneTransactionPerBus'
  BY <1>8 DEF TransferDone
<1>9. CASE UNCHANGED i2cVars
  BY <1>9 DEF i2cVars
<1>10. QED
  BY <1>1, <1>2, <1>3, <1>4, <1>5, <1>6, <1>7, <1>8, <1>9 DEF I2cNext, Caller

(* The status is written when a transaction starts and when it ends.       *)
LEMMA StatusStep == I2cInv /\ [I2cNext]_i2cVars => StatusNotStale'
<1> SUFFICES ASSUME I2cInv, [I2cNext]_i2cVars PROVE StatusNotStale'
  OBVIOUS
<1> USE I2cAssumption DEF I2cInv, I2cTypeOK, CallerPCs, Goto, ERROR, StatusNotStale
<1>1. ASSUME NEW t \in Trans, NEW b \in Buses, Call(t, b) PROVE StatusNotStale'
  BY <1>1 DEF Call
<1>2. ASSUME NEW t \in Trans, Lock(t) PROVE StatusNotStale'
  BY <1>2 DEF Lock
<1>3. ASSUME NEW t \in Trans, Test(t) PROVE StatusNotStale'
  BY <1>3 DEF Test
<1>4. ASSUME NEW t \in Trans, ReturnBusy(t) PROVE StatusNotStale'
  BY <1>4 DEF ReturnBusy
<1>5. ASSUME NEW t \in Trans, Claim(t) PROVE StatusNotStale'
  BY <1>5 DEF Claim
<1>6. ASSUME NEW t \in Trans, Start(t) PROVE StatusNotStale'
  BY <1>6 DEF Start
<1>7. ASSUME NEW t \in Trans, StartRefused(t) PROVE StatusNotStale'
  BY <1>7 DEF StartRefused
<1>8. ASSUME NEW d \in Buses, TransferDone(d) PROVE StatusNotStale'
  <2> DEFINE t == driver[d]
  <2>1. t \in Trans
    BY <1>8 DEF TransferDone
  <2>2. \A b \in Buses : driver[b] = t => b = d
    BY <2>1 DEF BusInv
  <2>3. QED
    BY <1>8, <2>1, <2>2 DEF TransferDone
<1>9. CASE UNCHANGED i2cVars
  BY <1>9 DEF i2cVars
<1>10. QED
  BY <1>1, <1>2, <1>3, <1>4, <1>5, <1>6, <1>7, <1>8, <1>9 DEF I2cNext, Caller

(* The inductive invariant of i2c.c.                                       *)
THEOREM I2cInvariant == I2cSpec => []I2cInv
<1>1. I2cInv /\ [I2cNext]_i2cVars => I2cInv'
  BY I2cTypeStep, MutexStep, FlagStep, BusStep, CallsStep, ExclusionStep, StatusStep
  DEF I2cInv
<1>2. QED
  BY I2cInvInit, <1>1, PTL DEF I2cSpec

(* Every variable keeps its type: no structure has two transactions.       *)
THEOREM I2cTypeCorrect == I2cSpec => []I2cTypeOK
<1>1. I2cInv => I2cTypeOK
  BY DEF I2cInv
<1>2. QED
  BY <1>1, I2cInvariant, PTL

(* A bus has one transaction at a time, from the claim to the callback,    *)
(* with any number of callers and whether or not the driver may refuse.    *)
THEOREM Exclusion == I2cSpec => []OneTransactionPerBus
<1>1. I2cInv => OneTransactionPerBus
  BY DEF I2cInv
<1>2. QED
  BY <1>1, I2cInvariant, PTL

(* A caller that gave up cannot hand the driver a structure it still has.  *)
THEOREM GivenOnce == I2cSpec => []NeverGivenTwice
<1>1. I2cInv => NeverGivenTwice
  <2> SUFFICES ASSUME I2cInv, NEW t \in Trans, NEW d \in Buses, driver[d] = t
               PROVE /\ pc[t] # "start"
                     /\ \A a, e \in Buses : driver[a] = t /\ driver[e] = t => a = e
    BY DEF NeverGivenTwice
  <2>1. \A e \in Buses : driver[e] = t => i2cnum[t] = e
    BY I2cAssumption DEF I2cInv, BusInv
  <2>2. pc[t] # "start"
    BY <2>1, I2cAssumption DEF I2cInv, OneTransactionPerBus, Starting
  <2>3. QED
    BY <2>1, <2>2
<1>2. QED
  BY <1>1, I2cInvariant, PTL

(* The driver's structures never say success while it has them.            *)
THEOREM NoOldStatus == I2cSpec => []StatusNotStale
<1>1. I2cInv => StatusNotStale
  BY DEF I2cInv
<1>2. QED
  BY <1>1, I2cInvariant, PTL

----------------------------------------------------------------------------
(* i2c.c implements I2cBus.                                                *)

LEMMA OwnerInDriver ==
    ASSUME NEW b \in Buses, driver[b] # None PROVE Owner(b) = driver[b]
BY DEF Owner

LEMMA OwnerStarting ==
    ASSUME OneTransactionPerBus, NEW b \in Buses, NEW t \in Trans, Starting(t, b)
    PROVE  Owner(b) = t
<1>1. driver[b] = None /\ \A u \in Trans : Starting(u, b) => u = t
  BY DEF OneTransactionPerBus
<1>2. (CHOOSE u \in Trans : Starting(u, b)) = t
  BY <1>1
<1>3. QED
  BY <1>1, <1>2 DEF Owner

LEMMA OwnerNobody ==
    ASSUME NEW b \in Buses, driver[b] = None, \A t \in Trans : ~Starting(t, b)
    PROVE  Owner(b) = IF i2c_inuse[b] THEN Stuck ELSE None
BY DEF Owner

(* A bus nobody touches keeps its owner.                                   *)
LEMMA OwnerKept ==
    ASSUME I2cInv, I2cInv', NEW b \in Buses, driver'[b] = driver[b],
           i2c_inuse'[b] = i2c_inuse[b], \A t \in Trans : Starting(t, b)' <=> Starting(t, b)
    PROVE  Owner(b)' = Owner(b)
<1>1. CASE driver[b] # None
  BY <1>1 DEF Owner
<1>2. CASE driver[b] = None /\ \E t \in Trans : Starting(t, b)
  <2>1. PICK t \in Trans : Starting(t, b)
    BY <1>2
  <2>2. Owner(b) = t
    BY <2>1, OwnerStarting DEF I2cInv
  <2>3. \A u \in Trans : Starting(u, b)' => u = t
    BY <2>1 DEF I2cInv, OneTransactionPerBus
  <2>4. (CHOOSE u \in Trans : Starting(u, b)') = t
    BY <2>1, <2>3
  <2>5. Owner(b)' = t
    BY <1>2, <2>1, <2>4 DEF Owner
  <2>6. QED
    BY <2>2, <2>5
<1>3. CASE driver[b] = None /\ \A t \in Trans : ~Starting(t, b)
  BY <1>3, OwnerNobody DEF Owner
<1>4. QED
  BY <1>1, <1>2, <1>3

Owners == [b \in Buses |-> Owner(b)]

LEMMA OwnersInit == I2cInit => Service!I2cInit
<1> SUFFICES ASSUME I2cInit PROVE Owners = [b \in Buses |-> None]
  BY DEF Service!I2cInit, Owners
<1>1. ASSUME NEW b \in Buses PROVE Owner(b) = None
  BY I2cAssumption DEF Owner, I2cInit, Starting
<1>2. QED
  BY <1>1 DEF Owners

(* Claiming a bus, the driver's refusal and its callback are steps of the  *)
(* abstract bus; everything else leaves the owners as they are.            *)
LEMMA OwnersStep ==
    ASSUME I2cInv, I2cInv', [I2cNext]_i2cVars PROVE [Service!I2cNext]_Owners
<1> USE I2cAssumption DEF Goto, ERROR
<1>a. I2cTypeOK /\ I2cTypeOK' /\ OneTransactionPerBus /\ OneTransactionPerBus'
  BY DEF I2cInv
<1>b. ASSUME \A b \in Buses : Owner(b)' = Owner(b) PROVE Owners' = Owners
  BY <1>b DEF Owners
<1>c. ASSUME NEW b \in Buses, NEW v, Owner(b)' = v,
             \A d \in Buses \ {b} : Owner(d)' = Owner(d)
      PROVE  Owners' = [Owners EXCEPT ![b] = v]
  BY <1>c DEF Owners
<1>1. ASSUME NEW t \in Trans, NEW b \in Buses, Call(t, b) PROVE Owners' = Owners
  <2>1. \A d \in Buses : driver'[d] = driver[d] /\ i2c_inuse'[d] = i2c_inuse[d]
    BY <1>1 DEF Call
  <2>2. \A u \in Trans, d \in Buses : Starting(u, d)' <=> Starting(u, d)
    BY <1>1, <1>a DEF Call, Starting, I2cTypeOK
  <2>3. QED
    BY <2>1, <2>2, <1>b, OwnerKept
<1>2. ASSUME NEW t \in Trans, Lock(t) \/ Test(t) \/ ReturnBusy(t) PROVE Owners' = Owners
  <2>1. \A d \in Buses : driver'[d] = driver[d] /\ i2c_inuse'[d] = i2c_inuse[d]
    BY <1>2 DEF Lock, Test, ReturnBusy
  <2>2. \A u \in Trans, d \in Buses : Starting(u, d)' <=> Starting(u, d)
    BY <1>2, <1>a DEF Lock, Test, ReturnBusy, Starting, I2cTypeOK
  <2>3. QED
    BY <2>1, <2>2, <1>b, OwnerKept
<1>3. ASSUME NEW t \in Trans, Claim(t) PROVE Service!I2cNext
  <2>0. PICK b \in Buses : b = i2cnum[t]
    BY <1>a DEF I2cTypeOK
  <2>1. i2c_inuse[b] = FALSE
    BY <1>3, <2>0, <1>a DEF Claim, I2cTypeOK, I2cInv, FlagInv
  <2>2. driver[b] = None /\ \A u \in Trans : ~Starting(u, b)
    BY <2>1 DEF I2cInv, FlagInv
  <2>3. Owner(b) = None
    BY <2>1, <2>2, OwnerNobody
  <2>4. Starting(t, b)'
    BY <1>3, <2>0, <1>a DEF Claim, Starting, I2cTypeOK
  <2>5. Owner(b)' = t
    <3>1. driver'[b] = None /\ \A u \in Trans : Starting(u, b)' => u = t
      BY <2>1, <2>4, <1>a DEF OneTransactionPerBus
    <3>2. (CHOOSE u \in Trans : Starting(u, b)') = t
      BY <2>4, <3>1
    <3>3. QED
      BY <2>4, <3>1, <3>2 DEF Owner
  <2>6. ASSUME NEW d \in Buses \ {b} PROVE Owner(d)' = Owner(d)
    <3>1. driver'[d] = driver[d] /\ i2c_inuse'[d] = i2c_inuse[d]
      BY <1>3, <2>0, <1>a DEF Claim, I2cTypeOK
    <3>2. \A u \in Trans : Starting(u, d)' <=> Starting(u, d)
      BY <1>3, <2>0, <1>a DEF Claim, Starting, I2cTypeOK
    <3>3. QED
      BY <3>1, <3>2, OwnerKept
  <2>7. Owners' = [Owners EXCEPT ![b] = t]
    BY <2>1, <2>5, <2>6, <1>c
  <2>8. Service!Own(t, b)
    BY <2>1, <2>3, <2>7 DEF Service!Own, Owners
  <2>9. QED
    BY <2>1, <2>8 DEF Service!I2cNext
<1>4. ASSUME NEW t \in Trans, Start(t) PROVE Owners' = Owners
  <2>0. PICK b \in Buses : b = i2cnum[t]
    BY <1>a DEF I2cTypeOK
  <2>1. Starting(t, b) /\ driver'[b] = t
    BY <1>4, <2>0, <1>a DEF Start, Starting, I2cTypeOK
  <2>2. Owner(b) = t /\ Owner(b)' = t
    BY <2>1, <1>a, OwnerStarting DEF Owner
  <2>3. ASSUME NEW d \in Buses \ {b} PROVE Owner(d)' = Owner(d)
    <3>1. driver'[d] = driver[d] /\ i2c_inuse'[d] = i2c_inuse[d]
      BY <1>4, <2>0, <1>a DEF Start, I2cTypeOK
    <3>2. \A u \in Trans : Starting(u, d)' <=> Starting(u, d)
      BY <1>4, <2>0, <1>a DEF Start, Starting, I2cTypeOK
    <3>3. QED
      BY <3>1, <3>2, OwnerKept
  <2>4. QED
    BY <2>2, <2>3, <1>b
<1>5. ASSUME NEW t \in Trans, StartRefused(t) PROVE Service!I2cNext
  <2>0. PICK b \in Buses : b = i2cnum[t]
    BY <1>a DEF I2cTypeOK
  <2>1. Starting(t, b)
    BY <1>5, <2>0, <1>a DEF StartRefused, Starting, I2cTypeOK
  <2>2. Owner(b) = t
    BY <2>1, <1>a, OwnerStarting
  <2>3. driver'[b] = None /\ i2c_inuse'[b] /\ \A u \in Trans : ~Starting(u, b)'
    BY <1>5, <2>0, <2>1, <1>a
    DEF StartRefused, Starting, I2cTypeOK, OneTransactionPerBus, I2cInv, FlagInv
  <2>4. Owner(b)' = Stuck
    BY <2>3 DEF Owner
  <2>5. ASSUME NEW d \in Buses \ {b} PROVE Owner(d)' = Owner(d)
    <3>1. driver'[d] = driver[d] /\ i2c_inuse'[d] = i2c_inuse[d]
      BY <1>5, <2>0 DEF StartRefused
    <3>2. \A u \in Trans : Starting(u, d)' <=> Starting(u, d)
      BY <1>5, <2>0, <1>a DEF StartRefused, Starting, I2cTypeOK
    <3>3. QED
      BY <3>1, <3>2, OwnerKept
  <2>6. Owners' = [Owners EXCEPT ![b] = Stuck]
    BY <2>1, <2>4, <2>5, <1>c
  <2>7. Service!Wedge(b)
    BY <1>5, <2>0, <2>1, <2>2, <2>6 DEF StartRefused, Service!Wedge, Owners
  <2>8. QED
    BY <2>1, <2>7 DEF Service!I2cNext
<1>6. ASSUME NEW d \in Buses, TransferDone(d) PROVE Service!I2cNext
  <2>1. driver[d] \in Trans /\ i2cnum[driver[d]] = d
    BY <1>6, <1>a DEF TransferDone, I2cTypeOK, I2cInv, BusInv
  <2>2. Owner(d) = driver[d]
    BY <2>1, OwnerInDriver
  <2>3. driver'[d] = None /\ i2c_inuse'[d] = FALSE
    BY <1>6, <2>1, <1>a DEF TransferDone, I2cTypeOK
  <2>4. \A u \in Trans : ~Starting(u, d)'
    BY <1>6, <2>1, <1>a DEF TransferDone, Starting, OneTransactionPerBus
  <2>5. Owner(d)' = None
    BY <2>3, <2>4 DEF Owner
  <2>6. ASSUME NEW e \in Buses \ {d} PROVE Owner(e)' = Owner(e)
    <3>1. driver'[e] = driver[e] /\ i2c_inuse'[e] = i2c_inuse[e]
      BY <1>6, <2>1, <1>a DEF TransferDone, I2cTypeOK
    <3>2. \A u \in Trans : Starting(u, e)' <=> Starting(u, e)
      BY <1>6 DEF TransferDone, Starting
    <3>3. QED
      BY <3>1, <3>2, OwnerKept
  <2>7. Owners' = [Owners EXCEPT ![d] = None]
    BY <2>5, <2>6, <1>c
  <2>8. Service!Finish(d)
    BY <2>1, <2>2, <2>7 DEF Service!Finish, Owners
  <2>9. QED
    BY <2>8 DEF Service!I2cNext
<1>7. CASE UNCHANGED i2cVars
  BY <1>7 DEF i2cVars, Owners, Owner, Starting
<1>8. QED
  BY <1>1, <1>2, <1>3, <1>4, <1>5, <1>6, <1>7 DEF I2cNext, Caller

(* Every behaviour of i2c.c is one of the abstract buses: a bus is owned   *)
(* from the claim to the callback, and stuck once the driver refused.      *)
THEOREM I2cImplementsBus == I2cSpec => ImplementsI2cBus
<1>1. I2cInv /\ I2cInv' /\ [I2cNext]_i2cVars => [Service!I2cNext]_Owners
  BY OwnersStep
<1>2. QED
  BY <1>1, OwnersInit, I2cInvariant, PTL
  DEF I2cSpec, ImplementsI2cBus, Service!I2cSpec, Owners
=============================================================================

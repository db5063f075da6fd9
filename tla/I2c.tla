-------------------------------- MODULE I2c --------------------------------
(***************************************************************************)
(* src/i2c.c: i2c_transaction called by several threads, each with a       *)
(* struct i2c_transaction of its own, and i2c_transfer_done, which the     *)
(* driver calls from its interrupt handler (one atomic step).              *)
(*                                                                         *)
(* A caller need not wait for done(): it may give up (adc.c does, after    *)
(* 100 ms) and call again with the same structure while the driver still   *)
(* has it.                                                                 *)
(***************************************************************************)
EXTENDS Naturals

CONSTANTS
    Buses,        \* 0 .. CONFIG_I2C_COUNT - 1
    Trans,        \* one transaction structure for each caller
    BusesOf,      \* the buses each caller uses
    None,         \* no transaction
    Stuck,        \* left in use with no transaction
    Statuses,     \* what the driver reports
    MayRefuse     \* may I2C_transferTimeout return an error?

ERROR == "error"  \* I2C_ACP_STATUS_ERROR

ASSUME I2cAssumption ==
    /\ None \notin Trans /\ Stuck \notin Trans \cup {None}
    /\ BusesOf \in [Trans -> SUBSET Buses]
    /\ MayRefuse \in BOOLEAN

VARIABLES
    i2c_sem,     \* one binary semaphore for each bus
    i2c_inuse,   \* one flag for each bus
    driver,      \* the transaction the driver has on each bus, or None
    pc,          \* where each caller is in i2c_transaction
    i2cnum,      \* t->i2cnum, and the argument it is set from
    status,      \* t->status
    calls        \* history: transactions begun and not yet done(), by caller

i2cVars == <<i2c_sem, i2c_inuse, driver, pc, i2cnum, status, calls>>

CallerPCs == {"idle", "lock", "test", "claim", "busy", "start"}

I2cInit ==
    /\ i2c_sem = [b \in Buses |-> 1]
    /\ i2c_inuse = [b \in Buses |-> FALSE]
    /\ driver = [b \in Buses |-> None]
    /\ pc = [t \in Trans |-> "idle"]
    /\ i2cnum \in [Trans -> Buses] /\ \A t \in Trans : i2cnum[t] \in BusesOf[t]
    /\ status = [t \in Trans |-> ERROR]
    /\ calls = [t \in Trans |-> 0]

Goto(t, from, to) == pc[t] = from /\ pc' = [pc EXCEPT ![t] = to]

(* The structure's bus may change only when the driver does not have it:   *)
(* every caller that gives up keeps to one bus.                            *)
Call(t, b) ==
    /\ b \in BusesOf[t]
    /\ b = i2cnum[t] \/ \A d \in Buses : driver[d] # t
    /\ Goto(t, "idle", "lock")
    /\ i2cnum' = [i2cnum EXCEPT ![t] = b]
    /\ UNCHANGED <<i2c_sem, i2c_inuse, driver, status, calls>>

(* Wrong on purpose: the test and the claim are not protected.             *)
LockNothing(t) ==
    /\ Goto(t, "lock", "test")
    /\ UNCHANGED <<i2c_sem, i2c_inuse, driver, i2cnum, status, calls>>

Lock(t) ==
    /\ Goto(t, "lock", "test")
    /\ i2c_sem[i2cnum[t]] > 0
    /\ i2c_sem' = [i2c_sem EXCEPT ![i2cnum[t]] = @ - 1]
    /\ UNCHANGED <<i2c_inuse, driver, i2cnum, status, calls>>

(* Wrong on purpose: a bus in use is claimed too.                          *)
TestNothing(t) ==
    /\ Goto(t, "test", "claim")
    /\ UNCHANGED <<i2c_sem, i2c_inuse, driver, i2cnum, status, calls>>

Test(t) ==
    /\ Goto(t, "test", IF i2c_inuse[i2cnum[t]] THEN "busy" ELSE "claim")
    /\ UNCHANGED <<i2c_sem, i2c_inuse, driver, i2cnum, status, calls>>

(* Wrong on purpose: returns with the lock in hand.                        *)
ReturnBusyLocked(t) ==
    /\ Goto(t, "busy", "idle")
    /\ UNCHANGED <<i2c_sem, i2c_inuse, driver, i2cnum, status, calls>>

ReturnBusy(t) ==
    /\ Goto(t, "busy", "idle")
    /\ i2c_sem' = [i2c_sem EXCEPT ![i2cnum[t]] = 1]
    /\ UNCHANGED <<i2c_inuse, driver, i2cnum, status, calls>>

Claim(t) ==
    /\ Goto(t, "claim", "start")
    /\ i2c_inuse' = [i2c_inuse EXCEPT ![i2cnum[t]] = TRUE]
    /\ i2c_sem' = [i2c_sem EXCEPT ![i2cnum[t]] = 1]
    /\ UNCHANGED <<driver, i2cnum, status, calls>>

(* Wrong on purpose: the status of the last transaction stays.             *)
StartOldStatus(t) ==
    /\ Goto(t, "start", "idle")
    /\ driver' = [driver EXCEPT ![i2cnum[t]] = t]
    /\ calls' = [calls EXCEPT ![t] = @ + 1]
    /\ UNCHANGED <<i2c_sem, i2c_inuse, i2cnum, status>>

Start(t) ==
    /\ Goto(t, "start", "idle")
    /\ status' = [status EXCEPT ![t] = ERROR]
    /\ driver' = [driver EXCEPT ![i2cnum[t]] = t]
    /\ calls' = [calls EXCEPT ![t] = @ + 1]
    /\ UNCHANGED <<i2c_sem, i2c_inuse, i2cnum>>

(* i2c_transaction returns false and leaves i2c_inuse set.                 *)
StartRefused(t) ==
    /\ MayRefuse
    /\ Goto(t, "start", "idle")
    /\ status' = [status EXCEPT ![t] = ERROR]
    /\ UNCHANGED <<i2c_sem, i2c_inuse, driver, i2cnum, calls>>

(* Wrong on purpose: the flag of another bus is cleared.                   *)
TransferDoneOtherBus(d) ==
    /\ driver[d] # None
    /\ \E b \in Buses \ {d} : i2c_inuse' = [i2c_inuse EXCEPT ![b] = FALSE]
    /\ \E s \in Statuses : status' = [status EXCEPT ![driver[d]] = s]
    /\ calls' = [calls EXCEPT ![driver[d]] = @ - 1]
    /\ driver' = [driver EXCEPT ![d] = None]
    /\ UNCHANGED <<i2c_sem, pc, i2cnum>>

(* The driver ends the transaction it has on bus d; i2c_transfer_done      *)
(* clears the flag of the bus that the structure names.                    *)
TransferDone(d) ==
    /\ driver[d] # None
    /\ LET t == driver[d] IN
          /\ i2c_inuse' = [i2c_inuse EXCEPT ![i2cnum[t]] = FALSE]
          /\ \E s \in Statuses : status' = [status EXCEPT ![t] = s]
          /\ calls' = [calls EXCEPT ![t] = @ - 1]
    /\ driver' = [driver EXCEPT ![d] = None]
    /\ UNCHANGED <<i2c_sem, pc, i2cnum>>

Caller(t) ==
    \/ Lock(t) \/ Test(t) \/ ReturnBusy(t) \/ Claim(t) \/ Start(t) \/ StartRefused(t)

I2cNext ==
    \/ \E t \in Trans : Caller(t) \/ \E b \in Buses : Call(t, b)
    \/ \E d \in Buses : TransferDone(d)

I2cSpec == I2cInit /\ [][I2cNext]_i2cVars

(* A thread that can run does, threads that wait for a semaphore get it in *)
(* turn, and the driver ends every transaction (it has a time limit).      *)
I2cFairness ==
    /\ \A t \in Trans : WF_i2cVars(Caller(t)) /\ SF_i2cVars(Lock(t))
    /\ \A d \in Buses : WF_i2cVars(TransferDone(d))

I2cFairSpec == I2cSpec /\ I2cFairness

----------------------------------------------------------------------------
(* Properties.                                                             *)

I2cTypeOK ==
    /\ i2c_sem \in [Buses -> {0, 1}] /\ i2c_inuse \in [Buses -> BOOLEAN]
    /\ driver \in [Buses -> Trans \cup {None}]
    /\ pc \in [Trans -> CallerPCs] /\ i2cnum \in [Trans -> Buses]
    /\ status \in [Trans -> Statuses \cup {ERROR}]
    /\ calls \in [Trans -> {0, 1}]

Starting(t, b) == pc[t] = "start" /\ i2cnum[t] = b

(* A bus has at most one transaction between the claim and done(): nobody  *)
(* starts on a bus the driver is busy with, and no two callers start       *)
(* together, although i2c_transfer_done clears the flag without the lock.  *)
OneTransactionPerBus ==
    \A b \in Buses :
        /\ \A t \in Trans : Starting(t, b) => driver[b] = None
        /\ \A t, u \in Trans : Starting(t, b) /\ Starting(u, b) => t = u

(* The driver never gets a structure it already has, although callers that *)
(* gave up call again with the same one: the bus is still in use then.     *)
NeverGivenTwice ==
    \A t \in Trans : (\E d \in Buses : driver[d] = t) =>
        /\ pc[t] # "start"
        /\ \A d, e \in Buses : driver[d] = t /\ driver[e] = t => d = e

(* While the driver has a structure its status does not say success, so a  *)
(* caller that gave up cannot take an old result for the new one.          *)
StatusNotStale ==
    \A d \in Buses : driver[d] # None => status[driver[d]] = ERROR

(* A bus is in use only for somebody: when the driver never refuses.       *)
InUseHasUser ==
    \A b \in Buses :
        i2c_inuse[b] => driver[b] # None \/ \E t \in Trans : Starting(t, b)

(* i2c_transaction returns, whoever else calls it: nobody keeps the lock.  *)
CallReturns == \A t \in Trans : pc[t] = "lock" ~> pc[t] = "idle"

----------------------------------------------------------------------------
(* i2c.c implements I2cBus: a bus is owned from the claim.                 *)

Owner(b) ==
    IF driver[b] # None THEN driver[b]
    ELSE IF \E t \in Trans : Starting(t, b) THEN CHOOSE t \in Trans : Starting(t, b)
    ELSE IF i2c_inuse[b] THEN Stuck ELSE None

Service == INSTANCE I2cBus WITH
    Free <- None, owner <- [b \in Buses |-> Owner(b)]

ImplementsI2cBus == Service!I2cSpec
=============================================================================

-------------------------------- MODULE Adc --------------------------------
(***************************************************************************)
(* src/adc.c: adcThread reads every value of its two chips over the I2C    *)
(* bus they share with the host's requests and with the console, and sends *)
(* a report.  A read takes three transactions (write the configuration,    *)
(* poll until the conversion is there, get it), each of them awaited for   *)
(* 100 ms; the driver may take longer, and then it ends a transaction, and *)
(* uses buffers, of a call of read_adc_value that has returned.  The next  *)
(* call has its frame, and so its buffers, in the same place; what runs in *)
(* between (the entry of an interrupt, spi_send, clock_nanosleep) may have *)
(* used the place for something else.                                      *)
(*                                                                         *)
(* The I2C bus is that of I2cBus; nobody else configures the chips.        *)
(***************************************************************************)
EXTENDS Naturals

CONSTANTS
    Chips, Muxes,     \* {72, 73} (0x48, 0x49) and 0..3
    Retries,          \* 10
    SemMax,           \* a bound: the count at which a semaphore saturates
    None, Stuck,
    MayRefuse         \* may the I2C driver refuse a transaction?

Vals == Chips \X Muxes

Bus == "adc bus"
Mine == "t"
Elsewhere == "other"

ASSUME AdcAssumption ==
    /\ Retries \in Nat \ {0} /\ SemMax \in Nat \ {0}
    /\ MayRefuse \in BOOLEAN
    /\ None \notin (Vals \X Nat) \cup {Mine, Elsewhere, Stuck}
    /\ Stuck \notin {Mine, Elsewhere}

VARIABLES
    owner,                  \* the I2C bus of the chips
    fly,                    \* the transaction the driver has, or None
    spoiled,                \* it was given up, and its frame is used by something else
    now, next,              \* each chip's result, and the one it is converting
    apc,                    \* where adcThread is
    todo,                   \* the values of this report not yet read
    cur,                    \* the value being read
    kind,                   \* which of the three transactions is next, or awaited
    retries,
    adc_done_sem,
    adc_transfer_waiting,
    status,                 \* t.status
    rx,                     \* adc_rx: the ready bit, and the result
    val,                    \* the values of msg.buf whose flag is set, or None
    adc_spi_inuse,
    queued,                 \* the message is with the SPI port
    gen                     \* history: parity of the report

vars == <<owner, fly, spoiled, now, next, apc, todo, cur, kind, retries, adc_done_sem,
          adc_transfer_waiting, status, rx, val, adc_spi_inuse, queued, gen>>
i2c    == <<owner, fly, spoiled, now, next>>
loop   == <<todo, cur, val, adc_spi_inuse, queued, gen>>
read   == <<kind, retries>>
waits  == <<adc_done_sem, adc_transfer_waiting>>
result == <<status, rx>>

I2cBus == INSTANCE I2cBus WITH
    Buses <- {Bus}, Trans <- {Mine, Elsewhere}, Free <- None

(* A conversion of value v, begun for the report of parity g.              *)
Conversion(v, g) == <<v, g>>
Stale == 2
NoBytes == [ready |-> FALSE, result |-> None]
Post(sem) == IF sem < SemMax THEN sem + 1 ELSE sem

Init ==
    /\ I2cBus!I2cInit /\ fly = None /\ spoiled = FALSE
    /\ now = [c \in Chips |-> None] /\ next = [c \in Chips |-> None]
    /\ apc = "sleep" /\ todo = {} /\ cur \in Vals /\ kind = "config" /\ retries = 0
    /\ adc_done_sem = 0 /\ adc_transfer_waiting = FALSE
    /\ status = "error" /\ rx = NoBytes
    /\ val = [v \in Vals |-> None]
    /\ adc_spi_inuse = FALSE /\ queued = FALSE /\ gen = 0

----------------------------------------------------------------------------
(* adcThread.                                                              *)

(* Wrong on purpose: the message is used whether or not it is on its way.  *)
WakeAnyway ==
    /\ apc = "sleep" /\ apc' = "begin"
    /\ adc_spi_inuse' = TRUE
    /\ val' = [v \in Vals |-> None]
    /\ todo' = Vals
    /\ gen' = 1 - gen
    /\ UNCHANGED <<i2c, cur, read, waits, result, queued>>

(* With the last report still in use it sleeps for another second.         *)
Wake ==
    /\ apc = "sleep" /\ apc' = "begin"
    /\ ~adc_spi_inuse /\ adc_spi_inuse' = TRUE
    /\ val' = [v \in Vals |-> None]
    /\ todo' = Vals
    /\ gen' = 1 - gen
    /\ UNCHANGED <<i2c, cur, read, waits, result, queued>>

(* The order in which the values are read makes no difference.             *)
Begin ==
    /\ apc = "begin" /\ apc' = "call"
    /\ \E v \in todo : cur' = v /\ todo' = todo \ {v}
    /\ kind' = "config" /\ retries' = Retries
    /\ adc_transfer_waiting' = TRUE
    /\ UNCHANGED <<i2c, adc_done_sem, result, val, adc_spi_inuse, queued, gen>>

Call ==
    /\ apc = "call" /\ apc' = "start"
    /\ I2cBus!Own(Mine, Bus)
    /\ UNCHANGED <<fly, spoiled, now, next, loop, read, waits, result>>

CallBusy ==
    /\ apc = "call" /\ apc' = "out"
    /\ owner[Bus] # None
    /\ UNCHANGED <<i2c, loop, read, waits, result>>

Start ==
    /\ apc = "start" /\ apc' = "wait"
    /\ status' = "error"
    /\ fly' = [kind |-> kind, of |-> cur]
    /\ UNCHANGED <<owner, spoiled, now, next, loop, read, waits, rx>>

StartRefused ==
    /\ apc = "start" /\ apc' = "out"
    /\ I2cBus!Wedge(Bus)
    /\ status' = "error"
    /\ UNCHANGED <<fly, spoiled, now, next, loop, read, waits, rx>>

Woken ==
    /\ apc = "wait" /\ apc' = "status"
    /\ adc_done_sem > 0 /\ adc_done_sem' = adc_done_sem - 1
    /\ UNCHANGED <<i2c, loop, read, adc_transfer_waiting, result>>

TimedOut ==
    /\ apc = "wait" /\ apc' = "out"
    /\ adc_done_sem = 0
    /\ UNCHANGED <<i2c, loop, read, waits, result>>

AfterSuccess == [config |-> "call", poll |-> "ready", get |-> "flag"]

(* Wrong on purpose: the post alone is taken for success.                  *)
SkipStatus ==
    /\ apc = "status"
    /\ apc' = AfterSuccess[kind]
    /\ kind' = IF kind = "config" THEN "poll" ELSE kind
    /\ UNCHANGED <<i2c, loop, retries, waits, result>>

CheckStatus ==
    /\ apc = "status"
    /\ apc' = IF status = "error" THEN "out" ELSE AfterSuccess[kind]
    /\ kind' = IF status # "error" /\ kind = "config" THEN "poll" ELSE kind
    /\ UNCHANGED <<i2c, loop, retries, waits, result>>

Ready ==
    /\ apc = "ready" /\ rx.ready /\ apc' = "call"
    /\ kind' = "get"
    /\ UNCHANGED <<i2c, loop, retries, waits, result>>

(* Wrong on purpose: the tries are not counted.                            *)
PollForever ==
    /\ apc = "ready" /\ ~rx.ready
    /\ apc' = "call"
    /\ UNCHANGED <<i2c, loop, kind, retries, waits, result>>

NotReady ==
    /\ apc = "ready" /\ ~rx.ready
    /\ retries' = retries - 1
    /\ apc' = IF retries' = 0 THEN "out" ELSE "call"
    /\ UNCHANGED <<i2c, loop, kind, waits, result>>

SetFlag ==
    /\ apc = "flag" /\ apc' = "out"
    /\ val' = [val EXCEPT ![cur] = rx.result]
    /\ UNCHANGED <<i2c, todo, cur, adc_spi_inuse, queued, gen, read, waits, result>>

(* The call returns.  If the driver still has its transaction the frame is *)
(* used by something else before the driver is done with it, or it is not. *)
Out ==
    /\ apc = "out" /\ apc' = IF todo = {} THEN "send" ELSE "begin"
    /\ adc_transfer_waiting' = FALSE
    /\ kind' = "config" /\ retries' = 0
    /\ spoiled' \in IF fly = None THEN {FALSE} ELSE {spoiled, TRUE}
    /\ UNCHANGED <<owner, fly, now, next, loop, adc_done_sem, result>>

SendReport ==
    /\ apc = "send" /\ apc' = "sleep"
    /\ queued' = TRUE
    /\ UNCHANGED <<i2c, todo, cur, val, adc_spi_inuse, gen, read, waits, result>>

(* The SPI port has sent the message: adc_spi_done.                        *)
ReportDone ==
    /\ queued /\ queued' = FALSE
    /\ adc_spi_inuse' = FALSE
    /\ UNCHANGED <<i2c, apc, todo, cur, val, gen, read, waits, result>>

----------------------------------------------------------------------------
(* The driver and the chips.                                               *)

(* The call that began the transaction still waits for it.                 *)
Awaited == apc \in {"wait", "status"}

(* A configuration write begins a conversion; one whose bytes come from a  *)
(* frame that is gone begins any.  A read of such a transaction leaves     *)
(* something in adc_rx.                                                    *)
Transferred ==
    LET c == fly.of[1] IN
    CASE fly.kind = "config" ->
           /\ \E n \in IF Awaited THEN {Conversion(fly.of, gen)}
                                  ELSE {Conversion(v, Stale) : v \in {c} \X Muxes} :
                 next' = [next EXCEPT ![c] = n]
           /\ UNCHANGED rx
      [] fly.kind = "poll" ->
           /\ rx' = [ready |-> next[c] = None, result |-> None]
           /\ UNCHANGED next
      [] fly.kind = "get" ->
           /\ rx' = [ready |-> FALSE, result |-> now[c]]
           /\ UNCHANGED next

TransferDone ==
    /\ fly # None /\ fly' = None
    /\ ~spoiled /\ UNCHANGED spoiled
    /\ I2cBus!Finish(Bus)
    /\ \/ status' = "success" /\ Transferred
       \/ status' = "error" /\ UNCHANGED <<rx, next>>
    /\ adc_done_sem' = IF adc_transfer_waiting THEN Post(adc_done_sem) ELSE adc_done_sem
    /\ UNCHANGED <<now, apc, loop, read, adc_transfer_waiting>>

(* i2c_transfer_done clears the flag of a bus whose number is whatever the *)
(* frame holds by now, and calls whatever done is there: the end of what   *)
(* can be said of the thread.                                              *)
LateDone ==
    /\ fly # None /\ fly' = None
    /\ spoiled /\ spoiled' = FALSE
    /\ apc' = "lost"
    /\ UNCHANGED <<owner, now, next, loop, read, waits, result>>

Convert(c) ==
    /\ next[c] # None
    /\ now' = [now EXCEPT ![c] = next[c]]
    /\ next' = [next EXCEPT ![c] = None]
    /\ UNCHANGED <<owner, fly, spoiled, apc, loop, read, waits, result>>

OtherTransaction ==
    /\ \/ I2cBus!Own(Elsewhere, Bus)
       \/ owner[Bus] = Elsewhere /\ (I2cBus!Finish(Bus) \/ I2cBus!Wedge(Bus))
    /\ UNCHANGED <<fly, spoiled, now, next, apc, loop, read, waits, result>>

----------------------------------------------------------------------------
AdcThread ==
    \/ Wake \/ Begin \/ Call \/ CallBusy \/ Start \/ StartRefused \/ Woken \/ TimedOut
    \/ CheckStatus \/ Ready \/ NotReady \/ SetFlag \/ Out \/ SendReport

Next ==
    \/ AdcThread \/ ReportDone \/ TransferDone \/ LateDone \/ OtherTransaction
    \/ \E c \in Chips : Convert(c)

Spec == Init /\ [][Next]_vars

(* Only the thread itself needs to run: every wait has a time limit.       *)
FairSpec == Spec /\ WF_vars(AdcThread)

----------------------------------------------------------------------------
(* Properties.                                                             *)

(* A value flagged as valid is the one of its own channel, converted for   *)
(* this report: posts left over from transactions that were given up, bus  *)
(* errors, results of an earlier read in adc_rx and chips configured by a  *)
(* transaction nobody waits for any more never make it up.                 *)
FlaggedIsFresh == \A v \in Vals : val[v] \in {None, Conversion(v, gen)}

(* The one message buffer is not written while it is with the SPI port.    *)
ReportUntouched == queued => apc \in {"sleep", "lost"}

(* adcThread gets through its reads, however often a chip is not ready, a  *)
(* wait times out or the bus is in use, unless a transaction that was      *)
(* given up ends in a frame that is used by something else.                *)
ReportGoesOn == apc # "sleep" ~> apc \in {"sleep", "lost"}
=============================================================================

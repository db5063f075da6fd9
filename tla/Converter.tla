----------------------------- MODULE Converter -----------------------------
(***************************************************************************)
(* src/spii2c.c: the receive handler, which spiThread calls for every run  *)
(* of the host's clock, spiI2cThread, and the done callbacks, over the SPI *)
(* port as MsgBus states it and the I2C driver as I2cBus states it.        *)
(*                                                                         *)
(* One slot for each I2C bus and one for each GPIO carries a request from  *)
(* the host through the handler, the driver's interrupt, spiI2cThread and  *)
(* the transmit queue back to the host.                                    *)
(***************************************************************************)
EXTENDS Naturals, Sequences, FiniteSets

CONSTANTS
    NumBuses,          \* CONFIG_I2C_COUNT
    Inputs, Outputs,   \* the GPIOs of gpio_acp
    High,              \* the outputs whose configuration has GPIO_CFG_OUT_HIGH
    MAX_I2C_MSG_SIZE,  \* 27
    Reqs,              \* the messages of the host
    Others,            \* other messages to the host: ADC reports, the console's
    Shared,            \* the buses that adcThread and the console use too
    None, Stuck, Noise,
    WakeMax,           \* a bound: the count at which a semaphore saturates
    Lossy,             \* can the host be slower than the timeout of spiThread?
    MayRefuse          \* may the I2C driver refuse a transaction?

Buses == 0..(NumBuses - 1)
Gpios == Inputs \cup Outputs

Slot(b) == <<"s2i", b>>       \* &spi_to_i2c[b].t
Rsp(b) == <<"rsp", b>>        \* &spi_to_i2c[b].rspmsg
Val(g) == <<"val", g>>        \* &gpio_acp[g].rspmsg
Other(m) == <<"other", m>>
Msgs == {Rsp(b) : b \in Buses} \cup {Val(g) : g \in Gpios} \cup {Other(m) : m \in Others}

Elsewhere == <<"other", 0>>   \* a transaction of adcThread or of the console
Trans == {Slot(b) : b \in Buses} \cup {Elsewhere}

ASSUME ConverterAssumption ==
    /\ NumBuses \in Nat \ {0} /\ MAX_I2C_MSG_SIZE \in Nat /\ WakeMax \in Nat \ {0}
    /\ Shared \subseteq Buses /\ Inputs \cap Outputs = {} /\ High \subseteq Outputs
    /\ None \notin Reqs /\ None \notin Msgs /\ None \notin Trans
    /\ Noise \notin Reqs /\ Stuck \notin Trans /\ Stuck # None
    /\ Lossy \in BOOLEAN /\ MayRefuse \in BOOLEAN
    /\ \A r \in Reqs : r.op \in {"i2c", "set", "get"}
    /\ \A r \in Reqs : r.op = "set" => r.val \in {0, 1}

VARIABLES
    queue, phase, cmd, cur,   \* the SPI port
    owner,                    \* the I2C buses
    inuse, done,              \* the flags of each spi_to_i2c
    addr, rxcount,            \* what the request asked for
    status, data,             \* t.status, and rspmsg.buf from byte 5 on
    hdr,                      \* rspmsg.buf up to byte 4, once it is written
    hpc,                      \* where handle_spi_recv_msg is
    tpc, ti,                  \* where spiI2cThread is, and its i
    wake,                     \* spi_to_i2c_wake
    ginuse, gbuf,             \* gpio_acp[g].inuse, and the value in its rspmsg
    pins,                     \* the level of each output
    ask,                      \* history: the request a slot was taken for
    result                    \* history: what the driver reported for it

busVars  == <<queue, phase, cmd, cur>>
slotVars == <<inuse, done, addr, rxcount, status, data, hdr>>
thrVars  == <<tpc, ti, wake>>
gpioVars == <<ginuse, gbuf, pins>>
histVars == <<ask, result>>
vars     == <<busVars, owner, slotVars, hpc, thrVars, gpioVars, histVars>>

Bus == INSTANCE MsgBus WITH Cmds <- Reqs
I2cBus == INSTANCE I2cBus WITH Free <- None

Post(sem) == IF sem < WakeMax THEN sem + 1 ELSE sem

Zero == "zero"                \* a cleared receive buffer
NoHdr == [status |-> "none", rxcount |-> 0, addr |-> None]
NoResult == [status |-> "none", data |-> Zero]

Init ==
    /\ Bus!BusInit /\ I2cBus!I2cInit
    /\ inuse = [b \in Buses |-> FALSE] /\ done = [b \in Buses |-> FALSE]
    /\ addr = [b \in Buses |-> None] /\ rxcount = [b \in Buses |-> 0]
    /\ status = [b \in Buses |-> "success"] /\ data = [b \in Buses |-> Zero]
    /\ hdr = [b \in Buses |-> NoHdr]
    /\ hpc = "idle" /\ tpc = "wait" /\ ti = 0 /\ wake = 0
    /\ ginuse = [g \in Gpios |-> FALSE] /\ gbuf = [g \in Gpios |-> 0]
    /\ pins = [g \in Outputs |-> IF g \in High THEN 1 ELSE 0]
    /\ ask = [b \in Buses |-> None] /\ result = [b \in Buses |-> NoResult]

----------------------------------------------------------------------------
(* The host runs the clock: at most one message goes each way.             *)

(* A run mixed out of two (Noise) is taken for one of Reqs or for nothing. *)
HostRuns(c) ==
    /\ Bus!Exchange(c)
    /\ UNCHANGED <<owner, slotVars, hpc, thrVars, gpioVars, histVars>>

(* spiThread gives up on a run that came too late for its timeout.         *)
RunLost ==
    /\ hpc = "idle"
    /\ Bus!Dropped
    /\ UNCHANGED <<owner, slotVars, hpc, thrVars, gpioVars, histVars>>

----------------------------------------------------------------------------
(* handle_spi_recv_msg, in spiThread.                                      *)

Handling == phase = "received" /\ hpc = "idle"

(* Wrong on purpose: the flag of a GPIO is not tested.                     *)
IgnoredGpioAnyway(c) ==
    c # None =>
        CASE c.op = "i2c" -> c.bus \in Buses => inuse[c.bus]
          [] c.op = "get" -> c.gpio \notin Gpios
          [] c.op = "set" -> c.gpio \notin Outputs

Ignored(c) ==
    c # None =>
        CASE c.op = "i2c" -> c.bus \in Buses => inuse[c.bus]
          [] c.op = "get" -> c.gpio \in Gpios => ginuse[c.gpio]
          [] c.op = "set" -> c.gpio \notin Outputs

Ignore ==
    /\ Handling /\ Ignored(cmd)
    /\ Bus!Handled
    /\ UNCHANGED <<owner, slotVars, hpc, thrVars, gpioVars, histVars>>

TooLong(c) == c.tx >= MAX_I2C_MSG_SIZE \/ c.rx >= MAX_I2C_MSG_SIZE

(* Wrong on purpose: the response buffer is not cleared.                   *)
TakeSlotNoClear ==
    /\ Handling /\ ~Ignored(cmd) /\ cmd.op = "i2c"
    /\ LET b == cmd.bus IN
       /\ inuse' = [inuse EXCEPT ![b] = TRUE]
       /\ status' = [status EXCEPT ![b] = "minus1"]
       /\ IF TooLong(cmd)
          THEN hpc' = "fail" /\ UNCHANGED <<addr, rxcount>>
          ELSE /\ hpc' = "start"
               /\ addr' = [addr EXCEPT ![b] = cmd.addr]
               /\ rxcount' = [rxcount EXCEPT ![b] = cmd.rx]
       /\ ask' = [ask EXCEPT ![b] = cmd]
       /\ result' = [result EXCEPT ![b] = NoResult]
    /\ UNCHANGED <<busVars, owner, done, data, hdr, thrVars, gpioVars>>

TakeSlot ==
    /\ Handling /\ ~Ignored(cmd) /\ cmd.op = "i2c"
    /\ LET b == cmd.bus IN
       /\ inuse' = [inuse EXCEPT ![b] = TRUE]
       /\ status' = [status EXCEPT ![b] = "minus1"]
       /\ IF TooLong(cmd)
          THEN hpc' = "fail" /\ UNCHANGED <<addr, rxcount, data>>
          ELSE /\ hpc' = "start"
               /\ addr' = [addr EXCEPT ![b] = cmd.addr]
               /\ rxcount' = [rxcount EXCEPT ![b] = cmd.rx]
               /\ data' = [data EXCEPT ![b] = Zero]
       /\ ask' = [ask EXCEPT ![b] = cmd]
       /\ result' = [result EXCEPT ![b] = NoResult]
    /\ UNCHANGED <<busVars, owner, done, hdr, thrVars, gpioVars>>

(* i2c_transaction claims the bus, or finds it in use.                     *)
ClaimBus ==
    /\ hpc = "start" /\ hpc' = "driver"
    /\ I2cBus!Own(Slot(cmd.bus), cmd.bus)
    /\ UNCHANGED <<busVars, slotVars, thrVars, gpioVars, histVars>>

BusInUse ==
    /\ hpc = "start" /\ hpc' = "fail"
    /\ owner[cmd.bus] # None
    /\ UNCHANGED <<busVars, owner, slotVars, thrVars, gpioVars, histVars>>

StartTransfer ==
    /\ hpc = "driver" /\ hpc' = "idle"
    /\ status' = [status EXCEPT ![cmd.bus] = "error"]
    /\ Bus!Handled
    /\ UNCHANGED <<owner, inuse, done, addr, rxcount, data, hdr, thrVars, gpioVars,
                   histVars>>

(* I2C_transferTimeout fails: i2c_transaction leaves its bus in use.       *)
StartRefused ==
    /\ hpc = "driver" /\ hpc' = "fail"
    /\ I2cBus!Wedge(cmd.bus)
    /\ status' = [status EXCEPT ![cmd.bus] = "error"]
    /\ UNCHANGED <<busVars, inuse, done, addr, rxcount, data, hdr, thrVars, gpioVars,
                   histVars>>

ReturnFail ==
    /\ hpc = "fail" /\ hpc' = "wake"
    /\ done' = [done EXCEPT ![cmd.bus] = TRUE]
    /\ UNCHANGED <<busVars, owner, inuse, addr, rxcount, status, data, hdr, thrVars,
                   gpioVars, histVars>>

PostWake ==
    /\ hpc = "wake" /\ hpc' = "idle"
    /\ wake' = Post(wake)
    /\ Bus!Handled
    /\ UNCHANGED <<owner, slotVars, tpc, ti, gpioVars, histVars>>

SetGpio ==
    /\ Handling /\ ~Ignored(cmd) /\ cmd.op = "set"
    /\ pins' = [pins EXCEPT ![cmd.gpio] = cmd.val]
    /\ Bus!Handled
    /\ UNCHANGED <<owner, slotVars, hpc, thrVars, ginuse, gbuf, histVars>>

(* An input may have any level; an output gives what it is configured to.  *)
gpio_read(g) == IF g \in Inputs THEN {0, 1} ELSE {IF g \in High THEN 1 ELSE 0}

GetGpio ==
    /\ Handling /\ ~Ignored(cmd) /\ cmd.op = "get"
    /\ hpc' = "gsend"
    /\ ginuse' = [ginuse EXCEPT ![cmd.gpio] = TRUE]
    /\ \E v \in gpio_read(cmd.gpio) : gbuf' = [gbuf EXCEPT ![cmd.gpio] = v]
    /\ UNCHANGED <<busVars, owner, slotVars, thrVars, pins, histVars>>

SendValue ==
    /\ hpc = "gsend" /\ hpc' = "return"
    /\ Bus!Send(Val(cmd.gpio))
    /\ UNCHANGED <<owner, slotVars, thrVars, gpioVars, histVars>>

Return ==
    /\ hpc = "return" /\ hpc' = "idle"
    /\ Bus!Handled
    /\ UNCHANGED <<owner, slotVars, thrVars, gpioVars, histVars>>

----------------------------------------------------------------------------
(* The callbacks: spi_rsp_done and gpio_msg_done in spiThread,             *)
(* spi_i2c_transaction_done in the interrupt of the I2C driver.            *)

(* Wrong on purpose: spi_rsp_done does not free the slot.                  *)
MessageDoneInUse ==
    /\ Bus!Done
    /\ ginuse' = [g \in Gpios |-> ginuse[g] /\ cur # Val(g)]
    /\ UNCHANGED <<owner, slotVars, hpc, thrVars, gbuf, pins, histVars>>

MessageDone ==
    /\ Bus!Done
    /\ inuse' = [b \in Buses |-> inuse[b] /\ cur # Rsp(b)]
    /\ ginuse' = [g \in Gpios |-> ginuse[g] /\ cur # Val(g)]
    /\ ask' = [b \in Buses |-> IF cur = Rsp(b) THEN None ELSE ask[b]]
    /\ UNCHANGED <<owner, done, addr, rxcount, status, data, hdr, hpc, thrVars, gbuf,
                   pins, result>>

InDriver(b) == owner[b] = Slot(b) /\ ~(hpc = "driver" /\ cmd.bus = b)

(* Wrong on purpose: the callback does not wake spiI2cThread.              *)
TransferDoneNoPost(b) ==
    /\ InDriver(b) /\ I2cBus!Finish(b)
    /\ \E s \in {"success", "nack"} :
          LET read == s = "success" /\ rxcount[b] > 0 IN
          /\ status' = [status EXCEPT ![b] = s]
          /\ data' = [data EXCEPT ![b] = IF read THEN addr[b] ELSE @]
          /\ result' = [result EXCEPT ![b] =
                [status |-> s, data |-> IF read THEN addr[b] ELSE Zero]]
    /\ done' = [done EXCEPT ![b] = TRUE]
    /\ UNCHANGED <<busVars, inuse, addr, rxcount, hdr, hpc, thrVars, gpioVars, ask>>

TransferDone(b) ==
    /\ InDriver(b) /\ I2cBus!Finish(b)
    /\ \E s \in {"success", "nack"} :
          LET read == s = "success" /\ rxcount[b] > 0 IN
          /\ status' = [status EXCEPT ![b] = s]
          /\ data' = [data EXCEPT ![b] = IF read THEN addr[b] ELSE @]
          /\ result' = [result EXCEPT ![b] =
                [status |-> s, data |-> IF read THEN addr[b] ELSE Zero]]
    /\ done' = [done EXCEPT ![b] = TRUE]
    /\ wake' = Post(wake)
    /\ UNCHANGED <<busVars, inuse, addr, rxcount, hdr, hpc, tpc, ti, gpioVars, ask>>

----------------------------------------------------------------------------
(* spiI2cThread.                                                           *)

WaitWake ==
    /\ tpc = "wait" /\ tpc' = "scan"
    /\ wake > 0 /\ wake' = wake - 1
    /\ ti' = 0
    /\ UNCHANGED <<busVars, owner, slotVars, hpc, gpioVars, histVars>>

(* Wrong on purpose: the scan goes one slot too far.                       *)
NextSlotPastEnd ==
    IF ti + 1 <= NumBuses THEN ti' = ti + 1 /\ tpc' = "scan" ELSE ti' = 0 /\ tpc' = "wait"

NextSlot ==
    IF ti + 1 < NumBuses THEN ti' = ti + 1 /\ tpc' = "scan" ELSE ti' = 0 /\ tpc' = "wait"

SkipSlot ==
    /\ tpc = "scan" /\ ~done[ti]
    /\ NextSlot
    /\ UNCHANGED <<busVars, owner, slotVars, hpc, wake, gpioVars, histVars>>

FillResponse ==
    /\ tpc = "scan" /\ done[ti] /\ tpc' = "clear"
    /\ hdr' = [hdr EXCEPT ![ti] =
          [status |-> status[ti], rxcount |-> rxcount[ti], addr |-> addr[ti]]]
    /\ UNCHANGED <<busVars, owner, inuse, done, addr, rxcount, status, data, hpc, ti,
                   wake, gpioVars, histVars>>

(* Wrong on purpose: the flag stays set.                                   *)
ClearNothing ==
    /\ tpc = "clear" /\ tpc' = "send"
    /\ UNCHANGED <<busVars, owner, slotVars, hpc, ti, wake, gpioVars, histVars>>

ClearDone ==
    /\ tpc = "clear" /\ tpc' = "send"
    /\ done' = [done EXCEPT ![ti] = FALSE]
    /\ UNCHANGED <<busVars, owner, inuse, addr, rxcount, status, data, hdr, hpc, ti,
                   wake, gpioVars, histVars>>

SendResponse ==
    /\ tpc = "send"
    /\ Bus!Send(Rsp(ti))
    /\ NextSlot
    /\ UNCHANGED <<owner, slotVars, hpc, wake, gpioVars, histVars>>

----------------------------------------------------------------------------
(* Other users of the port and of the I2C driver.                          *)

OtherSends ==
    /\ \E m \in Others : Bus!Send(Other(m))
    /\ UNCHANGED <<owner, slotVars, hpc, thrVars, gpioVars, histVars>>

OtherTransaction(b) ==
    /\ b \in Shared
    /\ \/ I2cBus!Own(Elsewhere, b)
       \/ owner[b] = Elsewhere /\ (I2cBus!Finish(b) \/ I2cBus!Wedge(b))
    /\ UNCHANGED <<busVars, slotVars, hpc, thrVars, gpioVars, histVars>>

----------------------------------------------------------------------------
Handler ==
    \/ Ignore \/ TakeSlot \/ ClaimBus \/ BusInUse \/ StartTransfer \/ StartRefused
    \/ ReturnFail \/ PostWake \/ SetGpio \/ GetGpio \/ SendValue \/ Return

SpiI2cThread == WaitWake \/ SkipSlot \/ FillResponse \/ ClearDone \/ SendResponse

Next ==
    \/ \E c \in Reqs \cup {None} : HostRuns(c)
    \/ RunLost \/ Handler \/ MessageDone \/ SpiI2cThread \/ OtherSends
    \/ \E b \in Buses : TransferDone(b) \/ OtherTransaction(b)

Spec == Init /\ [][Next]_vars

(* The threads run, the I2C driver ends what it was given, and the port    *)
(* carries the oldest message again and again until done() is called for   *)
(* it (SendIsDone of SpiProps); the host is not late for ever for the runs *)
(* that bring it a message.                                                *)
Fairness ==
    /\ SF_vars(cur # None /\ Handler)
    /\ WF_vars(Handler \/ MessageDone) /\ WF_vars(SpiI2cThread)
    /\ \A b \in Buses : WF_vars(TransferDone(b))
    /\ \A b \in Shared : WF_vars(owner[b] = Elsewhere /\ OtherTransaction(b))
    /\ SF_vars(HostRuns(None) /\ cur' # None)

FairSpec == Spec /\ Fairness
=============================================================================

------------------------------ MODULE Startup ------------------------------
(***************************************************************************)
(* From reset to the loops of the four threads: main, the order in which   *)
(* mainThread sets up the parts of the program and starts the threads, the *)
(* calls of it that may fail, and then the messages the threads put into   *)
(* the one list of src/list.h, linked pointer by pointer.                  *)
(*                                                                         *)
(* What a statement makes and what it needs is a name: a driver that is    *)
(* open, a semaphore, a pin, the display, a link or the list.  A call that *)
(* fails ends in while (true) {}, some of them after a printf.  The loops  *)
(* over buses and pins are one statement.                                  *)
(***************************************************************************)
EXTENDS DList, FiniteSets

CONSTANTS
    Slots,     \* the links of spi_to_i2c[].rspmsg, in the order of the array
    Values,    \* the links of gpio_acp[].rspmsg: static and never initialised
    AdcMsg,    \* the link of adcThread's message, on its stack
    ConMsg     \* the link of the message of spi_command, on the console's stack

SlotLinks == {Slots[i] : i \in DOMAIN Slots}

Threads == {"main", "mainThread", "spiThread", "spiI2cThread", "adcThread"}
Pins    == {"PC104_8", "ANT_POW", "EXTRA", "ADC_ENABLE", "PC104_7"}

Names == Threads \cup Pins \cup
    {"power", "sysosc", "LFOSC", "scheduler", "GPIO", "I2C", "SPI",
     "command_handler", "Display", "display", "wake", "i2c_handles", "i2c_sem",
     "recv_handler", "queue_sem", "CS_sem", "SPI_done_sem", "i2c_done_sem",
     "spi_done_sem", "adc_done_sem", "HOST_IRQ", "spi_handle"}

ASSUME StartupAssumption ==
    /\ Slots \in Seq(Links)
    /\ Links = SlotLinks \cup Values \cup {AdcMsg, ConMsg}
    /\ AdcMsg # ConMsg
    /\ {AdcMsg, ConMsg} \cap (SlotLinks \cup Values) = {}
    /\ SlotLinks \cap Values = {}
    /\ Names \cap Nodes = {}     \* a name is no link

VARIABLES
    pc,        \* the statement of each thread, 0 before it is created
    failed,    \* the threads that spin after a call failed
    made,      \* what is set up
    out,       \* the messages sent whose done() was not called yet
    removed,   \* the message spiThread took out of the list, before its done()
    cmd        \* the console's spi command: none, linked, sent

vars == <<pc, failed, made, out, removed, cmd, listVars>>

----------------------------------------------------------------------------
(* Statements.                                                             *)

Statement(makes, needs) ==
    [makes |-> makes, needs |-> needs, awaits |-> {}, starts |-> {},
     mayFail |-> FALSE, says |-> {}]

Do(makes, needs)    == <<Statement(makes, needs)>>
Try(makes, needs)   == <<[Statement(makes, needs) EXCEPT !.mayFail = TRUE]>>
TrySay(makes, needs) ==
    <<[Statement(makes, needs) EXCEPT !.mayFail = TRUE, !.says = {"display"}]>>
Await(x)  == <<[Statement({}, {}) EXCEPT !.awaits = {x}]>>
Start(t)  == <<[Statement({}, {}) EXCEPT !.mayFail = TRUE, !.starts = {t}]>>

sem_init(s)   == TrySay({s}, {})
set_attrs     == Try({}, {})

(* Peripherals have power, the oscillator is set, the slow clock is good.  *)
SYSCFG_DL_init == Do({"power"}, {}) \o Do({"sysosc"}, {"power"}) \o Await("LFOSC")

main == SYSCFG_DL_init \o set_attrs \o Start("mainThread") \o Try({"scheduler"}, {"sysosc"})

init_slots == [i \in DOMAIN Slots |-> Statement({Slots[i]}, {})]

console_init ==
    Do({"command_handler"}, {}) \o Do({"Display"}, {})
    \o Try({"display"}, {"Display", "power", "sysosc"})

i2c_init ==
    Do({"I2C"}, {}) \o Try({"i2c_handles"}, {"I2C", "power", "sysosc"})
    \o Try({"i2c_sem"}, {})

spi_init ==
    Do({List}, {}) \o sem_init("queue_sem") \o sem_init("CS_sem")
    \o sem_init("SPI_done_sem") \o Do({"SPI"}, {})

command_init == sem_init("i2c_done_sem") \o sem_init("spi_done_sem")

adc_init == sem_init("adc_done_sem")

init_all ==
    Do({"GPIO"}, {"power"}) \o i2c_init \o Do({"recv_handler"}, {}) \o spi_init
    \o command_init \o adc_init \o Do(Pins, {"GPIO"}) \o Do({}, {"display"})

start_all ==
    set_attrs \o Start("spiThread") \o Start("spiI2cThread") \o Start("adcThread")

consoleThread == Do({}, {"display"})

(* Wrong on purpose: the display is opened after a call that may complain. *)
mainThreadLate ==
    init_slots \o sem_init("wake") \o console_init \o init_all \o start_all
    \o consoleThread

mainThread ==
    init_slots \o console_init \o sem_init("wake") \o init_all \o start_all
    \o consoleThread

spiThread ==
    Do({"HOST_IRQ"}, {"GPIO"}) \o TrySay({"spi_handle"}, {"SPI", "power", "sysosc"})

(* Wrong on purpose: the message on the stack is used as it is.            *)
adcThreadNoInit == <<>>

adcThread == Do({AdcMsg}, {})

Program == [main |-> main, mainThread |-> mainThread, spiThread |-> spiThread,
            spiI2cThread |-> <<>>, adcThread |-> adcThread]

(* What the loop of a thread, and the callbacks of what it starts, use.    *)
spi_send_uses == {"display", "queue_sem", "CS_sem", List}
i2c_transaction_uses == {"i2c_handles", "i2c_sem"}

LoopUses ==
    [main |-> {},
     mainThread |-> spi_send_uses \cup i2c_transaction_uses \cup Pins
         \cup {"command_handler", "i2c_done_sem", "spi_done_sem"},
     spiThread |-> spi_send_uses \cup i2c_transaction_uses \cup Pins \cup SlotLinks
         \cup {"GPIO", "HOST_IRQ", "spi_handle", "SPI_done_sem", "recv_handler", "wake"},
     spiI2cThread |-> spi_send_uses \cup SlotLinks \cup {"wake"},
     adcThread |-> spi_send_uses \cup i2c_transaction_uses
         \cup {"adc_done_sem", "ADC_ENABLE", AdcMsg}]

----------------------------------------------------------------------------
Serves(t)  == pc[t] > Len(Program[t])
Runs(t)    == pc[t] > 0 /\ (t = "main" \/ "scheduler" \in made)
Current(t) == Program[t][pc[t]]

(* Static memory is zero, the stack is not.                                *)
Init ==
    /\ pc = [t \in Threads |-> IF t = "main" THEN 1 ELSE 0]
    /\ failed = {} /\ made = {} /\ out = {} /\ removed = NULL /\ cmd = "none"
    /\ listed = FALSE /\ sent = <<>> /\ ready = SlotLinks \cup Values
    /\ \E h \in [{AdcMsg, ConMsg} -> {NULL, List}] :
          mem = [head |-> [l \in Links |-> IF l \in ready THEN NULL ELSE h[l]],
                 next |-> [n \in Nodes |-> NULL], prev |-> [n \in Nodes |-> NULL]]

ClockGood ==
    /\ "LFOSC" \notin made /\ made' = made \cup {"LFOSC"}
    /\ UNCHANGED <<pc, failed, out, removed, cmd, listVars>>

Step(t) ==
    /\ Runs(t) /\ ~Serves(t) /\ t \notin failed
    /\ Current(t).awaits \subseteq made
    /\ pc' = [x \in Threads |-> IF x = t THEN pc[t] + 1
                                ELSE IF x \in Current(t).starts THEN 1 ELSE pc[x]]
    /\ made' = made \cup Current(t).makes
    /\ \/ List \in Current(t).makes /\ InitList
       \/ \E l \in Current(t).makes \cap Links : InitLink(l)
       \/ Current(t).makes \cap Nodes = {} /\ UNCHANGED listVars
    /\ UNCHANGED <<failed, out, removed, cmd>>

Fail(t) ==
    /\ Runs(t) /\ ~Serves(t) /\ t \notin failed
    /\ Current(t).mayFail
    /\ failed' = failed \cup {t}
    /\ UNCHANGED <<pc, made, out, removed, cmd, listVars>>

----------------------------------------------------------------------------
(* The loops, as far as they use the list.  A message that is out is not   *)
(* sent again before its done().                                           *)

spi_send(l) ==
    /\ l \notin out /\ out' = out \cup {l}
    /\ Add(l)

SendResponse ==
    /\ Serves("spiI2cThread")
    /\ \E l \in SlotLinks : spi_send(l)
    /\ UNCHANGED <<pc, failed, made, removed, cmd>>

SendValue ==
    /\ Serves("spiThread") /\ removed = NULL
    /\ \E l \in Values : spi_send(l)
    /\ UNCHANGED <<pc, failed, made, removed, cmd>>

SendReport ==
    /\ Serves("adcThread")
    /\ spi_send(AdcMsg)
    /\ UNCHANGED <<pc, failed, made, removed, cmd>>

CommandLinks ==
    /\ Serves("mainThread") /\ cmd = "none" /\ cmd' = "linked"
    /\ InitLink(ConMsg)
    /\ UNCHANGED <<pc, failed, made, out, removed>>

CommandSends ==
    /\ cmd = "linked" /\ cmd' = "sent"
    /\ spi_send(ConMsg)
    /\ UNCHANGED <<pc, failed, made, removed>>

(* The command returns when done() posted, and its frame is used again.    *)
CommandReturns ==
    /\ cmd = "sent" /\ ConMsg \notin out /\ cmd' = "none"
    /\ Overwrite(ConMsg)
    /\ UNCHANGED <<pc, failed, made, out, removed>>

Remove ==
    /\ Serves("spiThread") /\ removed = NULL
    /\ removed' = dlist_get_head(mem)
    /\ RemoveHead
    /\ UNCHANGED <<pc, failed, made, out, cmd>>

Done ==
    /\ removed # NULL
    /\ out' = out \ {removed} /\ removed' = NULL
    /\ UNCHANGED <<pc, failed, made, cmd, listVars>>

Next ==
    \/ ClockGood
    \/ \E t \in Threads : Step(t) \/ Fail(t)
    \/ SendResponse \/ SendValue \/ SendReport
    \/ CommandLinks \/ CommandSends \/ CommandReturns
    \/ Remove \/ Done

Spec == Init /\ [][Next]_vars

----------------------------------------------------------------------------
Uses(t) ==
    IF Serves(t) THEN LoopUses[t]
    ELSE IF t \in failed THEN Current(t).says ELSE Current(t).needs

(* Nothing is used before it is set up, by any thread, on any path, that   *)
(* of a failed call included: console_init before any printf               *)
(* (src/console.h), power before drivers, every driver, semaphore, pin and *)
(* link before the threads that use it are started.                        *)
ReadyBeforeUse == \A t \in Threads : Runs(t) => Uses(t) \subseteq made
=============================================================================

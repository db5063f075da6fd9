# TLA+ models of the SPI to I2C converter

This directory specifies and verifies the firmware of the SPI to I2C converter
(an MSPM0L1228 under FreeRTOS): its SPI message port, the in-use logic of its
I2C buses, and the converter that carries requests of the host from one to the
other.  The ADC thread and the console share those buses with it and have models
of their own, and so have the allocator that all threads, semaphores and queues
come from, the display all of them print to, and the start-up that sets all of
this up.  TLC checks small instances; TLAPS proves the central safety results about
the SPI port, the I2C wrapper, the converter, the ADC thread, the console's
stack frames, the allocator, the start-up and the intrusive list for every set
of messages, commands, requests, callers, buses, channels and links, and for a
heap of any size.

    tlc -config MCSpiTimely.cfg MCSpi.tla     # any run listed below
    tlapm SpiProofs.tla                       # any module with proofs

## 1. The system

Five threads of the same priority (1), two kinds of interrupts, and a host.

| Part | Source | State | Operations |
| --- | --- | --- | --- |
| SPI message port | `spi.c` | `tx_queue`, `queue_sem`, `CS_sem`, `SPI_done_sem`, `spi_transfer_waiting`, the transaction, `rx_buf`, the interrupt line | `spiThread`, `spi_send`, `gpio_CS` (interrupt), `spi_transfer_done` (interrupt) |
| Message queue | `list.h` | links with `next`, `prev` and, for debugging, `head` | add at the tail, head, remove, empty |
| I2C driver wrapper | `i2c.c` | `i2c_sem[]`, `i2c_inuse[]`, the transaction of each bus | `i2c_transaction`, `i2c_transfer_done` (interrupt) |
| Converter | `spii2c.c` | a slot (`spi_to_i2c`) for each bus, a `gpio_acp` for each GPIO, `spi_to_i2c_wake` | `handle_spi_recv_msg` (called by `spiThread`), `spiI2cThread`, the done callbacks |
| GPIO access | `commands.c` | the pins' configuration | `gpio_is_input`, `gpio_read` |
| ADC reporting | `adc.c` | `adc_done_sem`, `adc_spi_inuse`, a message and a transaction on its stack | `adcThread`, every second |
| Console | `console.c`, `commands.c`, `tokens.c` | a line buffer, two semaphores | `gpio`, `i2c`, `spi`, `trace`, `help` |
| Start-up, board | `main_freertos.c`, `spii2c.c`, `ti_*.c`, `FreeRTOSConfig.h` | what is set up so far | `main`, `mainThread`, the `*_init` functions; hooks, tables |
| Allocator | `heap_4.c` | the free list, its accounts | `pvPortMalloc`, `pvPortCalloc`, `vPortFree`, resets, statistics |
| Display | `ti/display/*` | the UART, one semaphore, one buffer for each display | `Display_open`, `printf`, `clear`, `clearLines`, `close` |

How they interact:

 - The host asserts CS; `gpio_CS` posts `CS_sem`; `spiThread` arms a transfer
   and asserts the interrupt line; the host runs its clock for 32 bytes; the
   driver's interrupt calls `spi_transfer_done`, which posts `SPI_done_sem`;
   `spiThread` de-asserts the line, calls the receive handler with what came
   in, unlinks the message that went out and calls its `done`.
 - `spi_send` (from `spiI2cThread`, `adcThread`, the console, and from the
   receive handler inside `spiThread`) queues a message and posts the same
   `CS_sem`.
 - The receive handler takes the slot of a bus and calls `i2c_transaction`;
   the driver's interrupt calls back, sets `done` and posts `spi_to_i2c_wake`;
   `spiI2cThread` fills in the response, clears `done` and calls `spi_send`;
   the `done` callback of the message, in `spiThread`, frees the slot.
 - `adcThread` and the console use the same I2C buses as the host's requests.
 - `main` starts `mainThread`, which sets up the slots, the console, the drivers
   and the semaphores, starts the other three threads and becomes the console.
 - All threads print through the one display.

What is hard about it: a one second timeout that races with the end of a
transfer; a semaphore whose late post would end the next wait; a line that is
tested as a level and waited for as an edge; a message that is peeked under a
lock and used long after; flags shared between threads and interrupts without
a lock; static buffers used again by each request; one semaphore for several
slots; a request that is turned down and must still be answered; an order of
initialisation that nothing enforces; links on stacks.
`PROJECT.json` lists these hazards at their lines, each with the properties
that would catch it or with the reason why none does.

What makes each part correct:

 - *SPI port.*  Messages reach the host once, in order, before their `done`;
   commands reach the handler once, unmixed, in order; nothing ever spins in
   the debugging checks of `list.h`; whoever waits is woken.
 - *I2C wrapper.*  One transaction on a bus at a time; the driver is never
   given a structure it has; a bus in use becomes free.
 - *Converter.*  A request is in exactly one hand until its answer is
   delivered, the answer is that request's, and there is always one.
 - *ADC thread.*  A value that a report flags as valid was converted for that
   report, on that channel; the buffer is left alone while the SPI port has it.
 - *Console.*  A command works on the line the terminal shows; what it gives to
   the I2C driver and the SPI port fits, is left alone until it comes back, and
   comes back.
 - *List.*  The pointers are the ring of what was added and not removed, and
   its users never add or write to a link that is linked or not initialised.
 - *Start-up.*  Nothing is used before it is set up, on any path, that of a
   failing call included.
 - *Allocator.*  The blocks never overlap and fill the heap; the free list is
   ordered, complete and joined; the account that decides whether a request is
   looked at is right, and so are the statistics.
 - *Display.*  What one call prints comes out whole and unmixed; the buffer
   holds it; every call returns.

## 2. The modules

| Module | What it is |
| --- | --- |
| `MsgBus` | What the SPI port promises: each run of the host's clock exchanges at most one message each way; lossless or lossy. |
| `Spi` | `spi.c` with `list.h`, statement by statement, and the host. |
| `SpiProps` | Properties of `Spi`, the inductive invariant in named parts, the refinement mapping to `MsgBus`. |
| `SpiProofs` | Invariance proofs for `SpiProps`, and that `Spi` implements `MsgBus`. |
| `I2cBus` | What `i2c.c` promises: each bus has at most one owner. |
| `I2c` | `i2c.c`, its properties, the mapping to `I2cBus`. |
| `I2cProofs` | Proofs for `I2c`: invariants, and that it implements `I2cBus`. |
| `Converter` | `spii2c.c` over `MsgBus` and `I2cBus`. |
| `ConverterProps` | Properties of `Converter`. |
| `ConverterProofs` | Proofs of all its safety properties. |
| `Adc` | `adc.c` over `I2cBus`, with the two converter chips, and its properties. |
| `AdcProofs` | Proofs of its safety properties. |
| `Console` | `console.c`, `tokens.c` and the commands of `commands.c` over `I2cBus` and `MsgBus`, and its properties. |
| `ConsoleProofs` | Proofs of its safety properties. |
| `DList` | `list.h`, pointer by pointer, and the rules of its users (`DListSpec`). |
| `Startup` | `main`, `mainThread` and the initialisations, then all users of the list over `DList`, and its properties. |
| `StartupProofs` | Proof that the pointers are the queue for users who keep the rules of the list, that the threads keep them, and that nothing is used before it is set up. |
| `Heap` | `heap_4.c` and its properties. |
| `HeapProofs` | Proofs of all its properties. |
| `Display` | `ti/display`: `Display.c` and both drivers of `DisplayUart.c`, and its properties. |
| `DisplayProofs` | Proofs of its safety properties. |
| `MCSpi`, `MCI2c`, `MCConverter`, `MCAdc`, `MCConsole`, `MCHeap`, `MCStartup`, `MCDisplay` | Constants for TLC. |

`Converter`, `Adc` and `Console` are composed with the abstract modules and not
with `Spi` and `I2c` themselves; that these implement them is checked and proved.

A definition whose comment begins "Wrong on purpose" is no part of a
specification: it is the next definition with a plausible mistake in it, and
TLC finds the property it is listed for in `PROJECT.json` ("mutants") violated
when it takes that definition's place.

### Spi

A thread may be switched out between any two statements, so each statement of
`spiThread` that touches shared state is an action, named after it; `spc` is
its program counter.  `spi_send` is three actions for each message (`SendLock`,
`SendAdd`, `SendPost`).  An interrupt handler runs in the step that causes it:
`gpio_CS` in `HostAssertCS`, `spi_transfer_done` in `HostLastByte` and `Cancel`.

 - `tx_queue` is the sequence of the linked messages, `linked` the set of links
   whose `head` is set.  The `while (true)` of the two debugging checks is an
   action that is disabled with the lock taken; `NeverSpins` says it never is.
 - A sender sets its own in-use flag before `spi_send`, and `done` clears it:
   `Acquire`, and `Handle` for the messages that the receive handler sends.
 - The transaction's status is `IDLE`, `STARTED`, `COMPLETED` or `CANCELED`.
   If the transfer is armed in the middle of a run of the clock it has the tail
   of that run (`ragged`) and completes with a mixture (`Noise`).
 - `SPI_transferCancel` calls the callback of a transfer under way, which posts
   if `spi_transfer_waiting` is still set.
 - The host follows section SPI of `src/README.md`.  It sends one of `Cmds` or
   nothing; with nothing to send it answers the interrupt line.  It sees the line
   in one step (`HostSeesIRQ`, or `HostSeesCall` and then `HostAnswers`) and
   starts its clock in a later one (`HostRunClock`), which does not look at the
   line again.
 - `owed`, `got` and `copies` are history variables: what the host last sent and
   is not yet handled, what the transfer armed last received, and how often a
   message has reached the host.
 - Assumed of the library: `clock_gettime` does not fail, and `SPI_transfer` only
   refuses a second transfer while one is under way (`spi.c:175-178` and
   `186-189` would spin for ever); a transfer starts with empty FIFOs.  That
   refusal is the guard of `Arm`, and `NeverSpins` says it never comes.

`HostMayStall` separates two assumptions.  A host that does not stall runs its
clock and ends the run within the second `spiThread` waits, once it has seen the
line asserted; the wait may then run out only while the host is still at the
end of its previous run, not having seen the line go off.  A host that stalls
may be late at any point, so that the timeout falls between any two steps.  One
that saw the line, is overtaken by the timeout and then runs its clock sends its
bytes into whatever is armed by then: into nothing, into the middle of the next
transfer, or into all of it, before `spi_transfer_waiting` is set as well.  In
the last case the transfer completes without a post, and the host may answer the
line `spiThread` asserts afterwards with a run that nothing receives.  Hence
`HandlerGetsReceived` compares what the handler gets with what that transfer
received (`got`), and only for a host that does not stall does `NoCommandLost`
say that this is what the host sent last.

### I2c

`i2c_transaction` for each caller `t`, one action for each statement, the
semaphore of the bus included; `TransferDone(d)` is the driver's interrupt.  A
caller may call again while the driver has its structure, as `adcThread` does
when it gives up after 100 ms.  `MayRefuse` lets `I2C_transferTimeout` fail.
The order of the statements matters and is kept: the status and the number of
the bus are written after the claim and before the driver is started, which is
one step here because nobody else reads them in between.  `I2c` assumes that a
structure the driver has is left alone until its callback; of the callers only
`adcThread` breaks that (see `Adc`).

### Converter

`handle_spi_recv_msg` takes several steps (`hpc`), because it is interrupted by
`TransferDone` and interleaved with `spiI2cThread` (`tpc`, `ti`).  `HostRuns`,
`Handled`, `MessageDone` and `RunLost` are the steps of `MsgBus`; `owner` is the
state of `I2cBus`.  The received bytes of a transaction are represented by the
address they came from (`data`), so that bytes of an earlier response can be
told from those of this one.  Of the GPIOs it keeps the level of each output;
an input may have any level when it is read.  `Shared` are the buses that other
threads use as well.

### Adc

`adcThread` takes one value after the other from `todo`; a read of `cur` is
three transactions (`kind`: write the configuration, poll, get the result),
each with the claim of the bus, the start, the wait of 100 ms and the test of
the status as steps of its own.  What makes it hard is kept:

 - A transaction given up after 100 ms goes on in the driver (`fly`).  It ends
   at any later step, posts `adc_done_sem` if the next call waits by then, and
   uses the stack frame of a call that has returned, where the next call has
   its own.  A configuration write of that kind may configure any channel
   (`Stale`), a read writes to `adc_rx`.
 - Between the return of a read and the next one, `printf`, the interrupts,
   `spi_send` and `clock_nanosleep` use that stack.  Whether they have
   overwritten the structure of a transaction that is still in the driver is a
   choice made when the call returns (`spoiled`).  `TransferDone` is the end of
   a transaction whose structure is intact; `LateDone` is that of another, in
   which `i2c_transfer_done` takes the number of a bus and a function to call
   from what is there.  Nothing can be said of the thread after that: `apc` is
   "lost" for good.  So `FlaggedIsFresh` is about reads whose late completions
   found the structure (those in which the next call has it in the same place),
   and `ReportGoesOn` says that the thread gets through its reads unless it is
   lost.  That it may be lost is the most serious thing noticed in this code: the
   reports then end, although `src/README.md:175` has one "once a second", and so
   may everything else.

### Console

One character after the other comes in (`Key`, `Backspace`, `Enter`), and the
commands take one word of the line after the other.

 - `i_next_token` works on the buffer in place, as the code does: it writes a
   NUL behind each word, and `tokst` is where it goes on.  `toks` has the words
   taken so far.  Characters of longer lines of before are still in the buffer.
 - `shown` is a history variable: the line as the terminal shows it.  The words
   of a command are compared with the words of that.
 - `cpc` is the command that runs, or the statement it waits at.  A command
   tests its arguments one by one and gives up at the first that is wrong
   (`ArgOK`); which test an argument gets depends on how many came before.
 - The transaction, the message and the two semaphores of a command are shared
   with an interrupt and with `spiThread`; `req` and `fly` are what the driver
   has, `queue`, `phase` and `cur` what the port has.  Other threads use the
   same bus and the same port.

### Heap

`heap` is the list: `next` and `size` of each header, named by its address,
with `xStart` in front and `pxEnd` behind; `allocated` are the headers whose top
bit is set.  `pvPortMalloc` and `vPortFree` are one step each, because the
scheduler is suspended in them; the first call makes the heap (`prvHeapInit`).
`xPortResetHeapMinimumEverFreeHeapSize` is not protected: a task loads the free
bytes (`ResetLoad`) and stores them later (`ResetStore`).  A request granted in
between leaves the minimum above what is free; `overtaken` and `raced` are
histories that say whether that happened in the last reset, and only then does
`StatsAreRight` except the minimum.  `vPortGetHeapStats` looks at the blocks with
the scheduler suspended (`StatsOfBlocks`) and at the accounts in a critical
section of its own (`StatsOfAccounts`), with a point where it may be switched out
between them: each part is right at the moment it is read, and nothing is said of
one against the other.  The walks along the list are
recursive functions.  `live` and `last` are histories: what each caller asked
for and has, and what became of the last request.  The counters of calls are
`size_t` and wrap, here at `CountMod`.  After `vPortHeapResetState` the code
keeps `xStart.pxNextFreeBlock`, so that the statistics, asked before the next
`pvPortMalloc`, would walk the old list, although `heap_4.c:581` says "pxBlock
will be NULL if the heap has not been initialised"; the model forgets the list,
and `StatsAreRight` is about a heap that is initialised.

### DList and Startup

`mem` has the fields of each link; every operation of `list.h` is a function of
it, and `CanAdd` and `CanRemove` are the conditions whose failure spins.
`DListSpec` allows any user that keeps the rules; `sent`, `ready` and `listed`
are histories that state them.  `Overwrite` is what happens to a link on a stack
once its call has returned.

In `Startup` each thread has a program of statements; a statement makes some
things and needs some, may fail, and may say so on the display.  A failed call
spins (`failed`); the thread goes no further, the others may (without time
slicing they hardly would, which only takes behaviours away).  `ReadyBeforeUse`
compares what a statement needs, what a failed one prints with and what the
loop of each thread uses (`LoopUses`) with what is made by then.  That
includes, for instance, that `console_init` comes before the first call that may
complain, and not after the drivers it is written next to.  `HOST_IRQ` is not
among what the console needs: `gpio hostirq` may write that pin before
`spiThread` has configured it, a write the configuration then overrides.

The loops keep from the other modules only that a message is not sent again
before its `done()`; that is what `Spi`, `Converter`, `Adc` and `Console`
establish.  TLC shows that these users implement `DListSpec`, and TLAPS that
whoever implements `DListSpec` has `QueueIsRing`.

### Display

`Display_open` tries one display after the other, each step of which may fail,
and leaves the semaphore of a display whose UART it could not get; the print
functions take the semaphore, put text and escape sequences into the one buffer
and send them in pieces.  An escape sequence is one item with its length in
bytes (`Bytes`), which for a position depends on the digits of its line and
column (`Digits`, 13 to 17 bytes; those are bytes, so they are printed as 1 to
256).  `out` is a history of what was sent since the semaphore was
taken; `Rendered` says, without loops or chunks, what a call has to send.

The drivers leave some things to their callers, who are modelled keeping these
rules (`Allowed`): open a display that is closed and close it when nobody prints
("Not sure what happens if someone is pending", `DisplayUart.c:443`), and print
to a terminal only what fits the buffer, since the terminal driver counts the
length `vsnprintf` wanted (`DisplayUart.c:410-420`): a text that does not fit is
written and sent beyond the buffer, and no property here says otherwise.
`BufferHolds` says that a plain UART never writes beyond its buffer, whatever the
text; that a terminal does not for any lines that are cleared; and that a text
which keeps the rule leaves room for what the driver puts around it.  The firmware opens the display once, never closes it
and configures the plain UART, which truncates.  `DisplayUart.h` says that a
plain UART adds a newline at the end of each statement; the copy kept here does
not, and the callers write their own.

## 3. The runs

| Run | Question | Distinct states |
| --- | --- | --- |
| `spi_timely` | host that does not stall: exactly once, in order, nothing lost, no stale post; implements the lossless bus; host served and released, messages done | 58 000 |
| `spi_stall` | host that stalls anywhere: the queue, the message peeked, `done` and the handler's bytes stay right | 4 220 000 |
| `i2c_buses` | exclusion on each bus, structures never given twice, status not stale, implements `I2cBus`, every call returns; the driver may refuse | 20 000 |
| `conv` | each request in one hand, each answer its request's, no wake-up lost, and a request that was taken is answered, over a port that loses runs | 358 000 |
| `adc` | flagged values are of their channel and of this report, the report is not written while it is sent, the thread gets through its reads unless a late completion finds its frame in use | 235 000 |
| `console` | commands get the line shown, buffers hold, stack frames are free when a command returns, no command hangs | 310 000 |
| `heap` | blocks fill the heap without overlap, the list is ordered, joined and accounted for, both parts of the statistics are right, a request fails only if no block is large enough | 1 720 000 |
| `display` | output whole and unmixed, the buffer holds it, every call returns | 129 000 |
| `startup` | nothing used before it is set up, the list's users keep its rules, its pointers form the queue | 87 000 |
| `conv_lost`, `conv_target`, `i2c_leak` | three statements of `src/README.md` the code does not keep | |

**Bounds.**  `spi_*`: two messages of other threads and one of the handler, so
that a queue of three forms while one is being sent and the handler's own
`spi_send` runs into a taken lock; two commands in `spi_stall`, so that an old
command can be told from a new one, and one in `spi_timely`, which also checks
liveness; semaphores saturate at 2 (`SemMax`): a second post is the one that
would be stale, and more than one stale post adds nothing to what a wait can do.
`i2c_*`: two buses and three callers, a slot and `adcThread` on bus 1 and the
console on both, so that three compete for one bus and one moves between buses.
`adc`: one chip (the chips share nothing but the bus, and each is read before
the next) with two channels, so that a stale configuration can select the wrong
one; two polls, so that one comes back not ready and another runs out
(`Retries`); two posts (`SemMax`).  `conv_*`: two buses and one GPIO of each
kind; requests that differ in address, in read count and in being too long, with
the limit of 27 scaled to 2 (in `conv` each bus has one request, so that an address
or a count left by another is told from the right one by `RightAnswer`, the
theorem, and not by the run); `spi_to_i2c_wake` saturates at 2 (`WakeMax`), one
for each slot; in `conv` one bus is shared with other threads, so that requests
find it in use, and one message of another thread is queued between the
responses.  `console`: one bus and the limits scaled down, so that each is
reached and passed: a line of 12 (and one typed that is longer), one byte of
data on I2C and two on SPI, bytes up to 2 and numbers up to 7 (`MaxUlong`), so
that a number can be too large for a byte, saturate, or come round to a byte
with a minus sign; what is typed are the beginnings of a few lines, which end at
every test a command makes, and three times Enter or Backspace, so that two
commands follow each other in one buffer or a line is changed before it is used
(`MaxControls`).  `heap`: ten units of two bytes at an odd address, room for
five of the smallest blocks; one task in the reset of the minimum (the proof has
any number); requests that are zero, odd, leave more, less or
exactly the minimum block, fill the heap, or overflow a `size_t` of six bits
(`SizeMax`), also as a product; `CountMod` is 3, so that the counters wrap while
blocks are taken.  `display`: a terminal and a plain UART that
share one UART, so that an open can fail on either and go on to the other; two
threads; buffers of 23 and 6 bytes, which four lines to clear and a text with
two newlines do not fit at once; lines of two and of three digits, up to 256 as
printed, and a text at a position that fills the buffer to the byte.  `startup`: two slots and one GPIO message, the
console's and `adcThread`'s, so that the list gets five links from four threads;
one statement stands for a loop over buses or pins.

**Fairness.**  Safety is checked for every interleaving of the threads.  The
scheduler allows fewer: all threads have priority 1, `configUSE_PREEMPTION` is 1
and `configUSE_TIME_SLICING` 0 (`FreeRTOSConfig.h:87`, `94`), so that a thread
is switched out when it blocks or an interrupt wakes another.  Weak fairness of
a thread is justified since every thread soon blocks: none of their loops runs
without a wait in it, except those of a failed call, which are the end.
One that waits for a semaphore gets it in turn (FreeRTOS serves threads of equal
priority in the order they blocked), hence strong fairness of the lock steps in
`Spi`, `I2c` and `Display`.

`Spi`: the host ends what it starts and answers the interrupt line, and what it
has seen it acts on.
`HostSeesIRQOff` has strong fairness: the line is off for a short time only
when `spiThread` finds CS still asserted and arms a transfer at once, and the
host must look often enough or use the edge.  `I2c`: the driver ends each
transaction (it is given a time limit).  `Adc`: only that the thread runs when it
can; it never needs the driver, a chip or the port to do anything.  `Console`:
threads and driver as before, and the port carries the oldest message again and
again until it is done with, which is `SendIsDone` of `SpiProps`; nobody has to
type.  `Converter`: the same, but over a lossy port: the host is asked not to be
late for ever, so that of the runs that bring it a message again and again one
is handled (`SF` of the handler and of the runs).

**Where the code and its documentation differ** (`findings` in `PROJECT.json`):

 1. `conv_lost`: `README.md:112` "An I2C\_RESULT is always returned".  When the
    timed wait runs out just before the last byte of the run, `spi.c:202` drops
    a completed transfer, and the command in it.
 2. `i2c_leak`: when the driver refuses a transaction, `i2c.c:91` leaves the
    bus in use for ever, with no transaction pending.
 3. `conv_target`: a request of 27 bytes, which `README.md:121-122` allows
    ("(0-27)"), is turned down (`spii2c.c:95`, `97`) before its address and its
    count are kept, and the result has those the slot happens to hold;
    `README.md:138` says "Target address".  In the trace it is the first request
    of its bus and the address is the one the slot starts with, which nobody set.
Noticed and not run: a transaction that `read_adc_value` gives up on (`adc.c:97`)
stays with the driver when its stack frame is gone, as said under `Adc`; the
model has its late end as `LateDone`.  `README.md:137` has the count of a result
as "number of bytes received", the code sends the count requested
(`spii2c.c:179`).

## 4. The proofs

`SpiProofs`, from `ConstantsAssumption` (messages, commands, `None` and `Noise`
are different things; the semaphore bound is positive):

 - `SpiInvariant`: `Spec => []SpiInv`.  The invariant has one part for each
   reason: `LockInv` (`queue_sem` is a mutex), `ListInv` (`tx_queue` has the
   links of `linked`, once each), `OwnerInv` (a linked message is in use and its
   sender past the add), `TxInv` (the peeked message is the head until it is
   unlinked), `TransferInv` (how far `spiThread` is against what the driver
   says), `HostInv` (a run that is complete so far is one the armed transfer has),
   `ReceivedInv` (what a completed transfer left).  `NeverSpins` needs `ListInv`, `OwnerInv` and
   `TxInv` together: that a link is still in the list when `spiThread` comes
   back for it, several releases of the lock later, is not inductive alone.
 - From it `TypeCorrect`, `NoSpin`, `TxMsgStaysHead`, `DoneOnlyIfSent` and
   `HandlerGetsOwn`, with any host, the one included whose run comes after the
   timeout into a transfer armed since.
 - `TimelyInvariant` adds `TimelyInv` and `CountInv` for a host that does not
   stall, and gives `ExactlyOnce`, `CommandsArrive` and `PostsAreFresh`.

 - `PortImplementsBus`: every behaviour of `Spi` is one of `MsgBus`, by
   `BusInitOK` and one case of `BusStep` for each action: a run maps to
   `Exchange` in the step of its last byte, the handler's return to `Handled`,
   `CallDone` to `Done`, a cancelled transfer that had completed to `Dropped`,
   `SendAdd` to `Send`, all else to a stutter.

`I2cProofs`, from `I2cAssumption`: `I2cInvariant` for the inductive invariant
`I2cInv`, whose parts are `MutexInv` (the semaphore of a bus is a mutex),
`FlagInv` (a bus is in use while somebody starts on it or the driver has a
transaction), `BusInv` (a structure the driver has names that bus) and
`CallsInv` (what each step of a call has established).  From it follow the
types (`I2cTypeCorrect`), exclusion on each bus (`Exclusion`), `GivenOnce`,
`NoOldStatus`, and `I2cImplementsBus`: claiming `i2c_inuse` maps to `Own`, the
driver's interrupt to `Finish`, a refusal to `Wedge`, all else to a stutter.

`StartupProofs` begins with `DList`, from `DListAssumption` (the list is no link,
and `NULL` neither):
`InitMakesRing`, `AddTailAppends`, `GetHeadIsFirst` and `RemoveHeadIsTail` say
what each operation of `list.h` does to a ring of any length, and `DListInvariant`
that the ring is kept by users who keep the rules.  `RingIsInvariant`, that is
`DListSpec => []QueueIsRing`, follows; the rest of the module proves its
assumption for the program's users.

That rest is from `StartupAssumption` (the links are those of the slots, the
GPIOs, the ADC's and the console's message, which are different; the name of a
driver or semaphore is no link).  The programs are put together with `\o`, one
call after the other, and what is known of a part is joined the same way:
`Part(P, base, M, S)` says that the statements of `P` find what they want if
`base` is made, make `M`, start `S`, make the list and start each thread in at
most one place, and make the links before the list.  `PartJoin` gives that of
`P \o Q`, a lemma for each `*_init` function uses it, and `Programs` has the
result for the five threads with any number of slots.  The invariant then has
no list of statements in it: what a thread has passed is made, and so is what
its creator had made (`SetUp`).  `ReadyBeforeUse` alone is not inductive, since
it speaks of the statement at hand only.  That a thread is started once is part
of it: a second start would initialise the list, or a link that is linked, once
more.  From it and `Queued` (who is in the list was sent and is not done, and
is initialised) each step is one of `DListNext` or none, which is
`StartupKeepsRules`, and with `RingIsInvariant` there follows `StartupRing`.

`HeapProofs`, from `HeapAssumption` (sizes and alignment are positive, the
structure is aligned, an address fits, and the heap is no more than half of
what a `size_t` counts, as it must be for the top bit to be free).
`HeapInvariant` has six parts: `Shaped` (types), `Counted` (the accounts are
sums over the free blocks, the counters agree modulo `CountMod`), `Tiles` (each
block ends where another starts, and the last at `pxEnd`), `Ordered` (`next` is
the least free address beyond), `Apart` (two free blocks never touch) and
`Fits`.  The properties of the run need all of them: what `prvInsertBlockIntoFreeList` joins
is right only if the walk stops at the block before, for which the list must be
ordered and complete; that a split or a join leaves no byte out needs `Tiles`;
that `MayFit` refuses nothing that would fit needs the sum in `Counted`.  The
walks along the list, and the sums of the statistics, are recursive functions.
For each the proof shows by a least (or greatest) counterexample that the
function exists and what it returns: a walk stops, at a block of the list, and
all it passed are too small or lie below; no induction theorem with an operator
as parameter is needed for that.  There follow `BlocksTile`,
`FreeListInvariant`, `StatsInvariant` and `RefusedInvariant`.

`ConverterProofs`, from `ConverterAssumption` (the
marks `None`, `Noise` and `Stuck` are no requests, messages or transactions, a
GPIO is an input or an output, a request is one of the three kinds): `ConverterIInv` for the invariant `IInv`.  The
properties of the run are not inductive for three reasons.  They speak of what
is in the queue, so `PortInv` says that a message is queued once and that a run
carries the oldest.  They speak of the handler's next step, so `HandlerInv` says
which request it has where, and that the bus it starts a transaction on is the
slot's.  And `ResponseAnswersRequest` is about the queued response only, so
`AnswerInv` follows an answer from the request through every hand: the fields
the handler copies, what the driver reports, what `spiI2cThread` copies.
`HandsInv` is `SlotInOneHand` without the counting; that at most one of the five
hands has a slot is the same as their number being one (`OneHandOnly`).
`WakeNotLost` is inductive over these.  There follow `ConverterTypes`,
`OneHandOnly`, `OneReplyOnly`, `NoLostWakeUp` and `RightAnswer`, for a port that
may lose runs, buses others use, and a driver that may refuse.

`AdcProofs`, from `AdcAssumption`: `AdcInvariant`, whose parts are the types,
`FlyInv` (a transaction that was given up owns the bus, so that no later call
gets further than to find it in use; one that is awaited has the status of an
error until its end), `ReadInv` (from the write of the configuration on, the chip
converts the value that is read, and the result is fetched only when the chip
has it) and `MessageInv`.  `FlaggedIsFresh` alone is not inductive: it is
`ReadInv` that excludes a stale configuration or an old result in `adc_rx`.
There follow `FlaggedValuesAreFresh` and `ReportIsUntouched`.

`ConsoleProofs`, from `ConsoleAssumption`: `FrameInvariant`, whose parts are
`PortInv` as before, `I2cInv` (the driver has `t` only while the command waits,
and there is one post exactly when it has ended; a bus is the console's from the
call on until that end or a refusal) and `SpiInv` (the same for the message and
the queue).  `FrameStaysFree` follows.  What the tokenizer and `strtoul` return
does not matter for it.

For the other two properties it does, and `ConsoleInvariant` has that.
`CommandGetsLine` is not inductive: it does not say where the tokenizer is, nor
what of the line is still in the buffer.  `LineInv` says that while it is typed the buffer
has what the terminal shows; `PlaceInv` that from the tokenizer's place on it
has that still, up to the NUL, and that the place is not inside a word;
`WordsInv` that the words taken are those that begin before that place, and all
of them once the command acts; `ArgsInv` that each passed its check.
`TokenIs` then says what the tokenizer finds: the next run of the line, and no
other begins before its end, or that there is none.  `WordOfRun` makes the run
that n others precede the word n + 1, by the cardinality of what is before it.
`ArgsInv` is needed for this too: by its counts `i2c` and `spi` cannot stop at
their largest number of words, so they act only after the tokenizer found the end.  The value of a
token is a fold; that it is a number at all (`ValueIsNat`), so that a bus that is
less than `NumBuses` is a bus, is shown as in `DisplayProofs`.
`GivenInv` carries this to what the driver and the port were given.  There follow
`LineIsTaken` and `BuffersAlwaysHold`, for lines in which no NUL is typed.

`DisplayProofs`, from `DisplayAssumption`: a display's buffer holds what its
driver puts there of its own (`Shortest`: the two bytes that end a plain line and
the NUL, or a position of three digits, one line to clear and the end, 23 bytes;
the buffer of this board has 128), and the
characters of a text are one byte each.  `DisplayInvariant`
is for any number of threads, displays and calls, with any lines and, as far as
`Allowed` lets a terminal's be, any text.  `OutputIsWhole` alone is not inductive, for it says nothing of what is
left to send, nor of who else could send; the invariant has, beside the types:
`Handles` (who opens or closes is alone, the others have the display that is
open), `Holds` (at most one thread is between the pend and the post, and it has
the mutex), and for each thread where it may be with which call (`Places1`,
`Places2`), that a terminal's text fits (`Fits`), and `Progress`: what was sent,
followed by what is left in the buffer, is `Rendered`, or the lines cleared so
far, or the characters so far with their returns.  `Room` is what the test at
`DisplayUart.c:319` must leave: while the lines are put together, the buffer has
room for one more and the end.  `Bytes`, `Rendered` and the size of the buffer
are folds over sequences of any length; `FoldExists` shows, by induction over a
set of numbers and so without an operator as parameter, that such a fold exists,
and `SizeRun` and `ReturnRun` turn that into what one more item does to it.
There follow `BufferInvariant` and `OutputInvariant`.

Only proved and not in a run of their own: `TimelySpiInv`, `I2cTypeOK`, `IInv`,
`AdcIInv`, `FrameInv`, `LexInv`, `GivenInv`, `HInv`, `SetUp`, `Queued`, `Inv` of
`DisplayProofs`, and `ImplementsBus` for a host
that stalls (`PortImplementsBus` covers both hosts).

Model-checked only: every property under fairness, which is beyond the prover.

## 5. What is not modelled

The trace output and the wording of what is printed; the time itself; electrical
faults (a stuck I2C clock hangs `i2c_transaction`, as `i2c.c:85-88` says); the
inside of TI's drivers, which appear by their effect on a transaction; of the
console the `help` command, the values that `gpio` and `i2c` print, and base
prefixes of numbers; of the allocator the clearing of memory, and the statistics
between a reset and the next request.

Left out because they have no behaviour of their own: the vector table and its
default handlers (`startup_mspm0l222x_ticlang.c`), the generated tables of pins,
interrupts and peripherals (`ti_drivers_config.c`, `ti_msp_dl_config.h`), the
options of `FreeRTOSConfig.h`, and the application hooks of `main_freertos.c`,
which are not called (their `configUSE_..._HOOK` are 0).

An operator may override the interrupt line of the host with `gpio hostirq`
while `spiThread` drives it; `Spi` has only `spiThread`.

## 6. Order of work, and what is left

In the order of weight: `MsgBus`, `Spi`, `SpiProps` and their proofs; `I2cBus`,
`I2c` and its proofs; `Converter`, `Adc` and `Console` over both, with their
proofs; `Heap` with its proofs; `DList` and `Startup` over it with their proofs;
and `Display` with its proofs.  Left: `Spi` over `DList` instead of the sequence,
with `sent` as `tx_queue`.

The checks of one component stay in as few runs as their questions allow: a run
for each host model or fairness, not for each property.

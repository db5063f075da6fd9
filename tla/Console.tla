------------------------------ MODULE Console ------------------------------
(***************************************************************************)
(* The console: the line editor of src/console.c, the tokenizer of         *)
(* src/tokens.c, which takes the line apart in place, and the commands of  *)
(* src/commands.c, two of which give a structure of their stack frame to   *)
(* the I2C driver or to the SPI port and wait for it to come back.  All of *)
(* it runs in consoleThread; the buses and the port are those of I2cBus    *)
(* and MsgBus.  What is printed is left out, but for the echo of the line. *)
(*                                                                         *)
(* A line is a sequence of one-character strings; the command and GPIO     *)
(* names are shortened to single letters.                                  *)
(***************************************************************************)
EXTENDS Integers, FiniteSets, SequencesExt

CONSTANTS
    SIZE,              \* CONSOLE_MAX_INPUT_SIZE, 128
    Lines,             \* a bound: what is typed is the beginning of one of these
    MaxControls,       \* a bound: how often Enter and Backspace are typed
    NumBuses,          \* CONFIG_I2C_COUNT
    MaxData,           \* the size of rx_data and of tx_data, 32
    SPI_MSG_LEN,       \* 32
    MaxByte,           \* 255
    MaxUlong,          \* ULONG_MAX, which is UINT_MAX too
    Pins,              \* name -> [input, nlogic]
    SemMax,            \* a bound: the count at which a semaphore saturates
    None, Stuck, Noise,
    MayRefuse          \* may the I2C driver refuse a transaction?

Buses == 0..(NumBuses - 1)

VARIABLES
    input, input_pos,  \* the line buffer
    left,              \* history: how many of those will still be typed
    shown,             \* history: the line as the terminal shows it
    cpc,               \* where consoleThread is
    tokst,             \* the tokenizer's place in input
    toks,              \* the words the command has taken so far, it included
    req,               \* what the I2C driver was given, or None
    fly,               \* does the driver have t?
    status,            \* t.status
    i2c_done_sem, spi_done_sem,
    msg,               \* the bytes of the SPI message
    spi_trace,
    pins,              \* the level of each output
    owner,             \* the I2C buses
    queue, phase, cmd, cur  \* the SPI port

line    == <<input, input_pos, shown, left>>
words   == <<tokst, toks>>
i2cVars == <<req, fly, status, i2c_done_sem, owner>>
spiVars == <<spi_done_sem, msg, queue, phase, cmd, cur>>
others  == <<spi_trace, pins>>
vars    == <<line, cpc, words, i2cVars, spiVars, others>>

Mine == "t"
Elsewhere == "other"

I2cBus == INSTANCE I2cBus WITH Trans <- {Mine, Elsewhere}, Free <- None
Port == INSTANCE MsgBus WITH Msgs <- {Mine, Elsewhere}, Cmds <- {}, Lossy <- FALSE

NUL == "nul"
Blank == " "

(* What is typed has no NUL in it; None is no token.                       *)
ASSUME ConsoleAssumption ==
    /\ SIZE \in Nat \ {0} /\ MaxControls \in Nat /\ NumBuses \in Nat \ {0}
    /\ SPI_MSG_LEN \in Nat \ {0}
    /\ MaxData \in Nat /\ MaxByte \in Nat /\ MaxUlong \in Nat /\ SemMax \in Nat \ {0}
    /\ \A p \in DOMAIN Pins : Pins[p].input \in BOOLEAN /\ Pins[p].nlogic \in BOOLEAN
    /\ Lines \subseteq Seq(STRING \ {NUL}) /\ None \notin Seq(STRING)
    /\ None \notin {Mine, Elsewhere, Stuck} /\ Stuck \notin {Mine, Elsewhere}
    /\ MayRefuse \in BOOLEAN

Post(sem) == IF sem < SemMax THEN sem + 1 ELSE sem

Init ==
    /\ input = [i \in 0..(SIZE - 1) |-> NUL] /\ input_pos = 0 /\ shown = <<>>
    /\ left = MaxControls
    /\ cpc = "read" /\ tokst = 0 /\ toks = <<>>
    /\ req = None /\ fly = FALSE /\ status = "error"
    /\ i2c_done_sem = 0 /\ spi_done_sem = 0 /\ msg = <<>>
    /\ spi_trace = FALSE
    /\ pins = [p \in {q \in DOMAIN Pins : ~Pins[q].input} |-> 0]
    /\ I2cBus!I2cInit /\ Port!BusInit

----------------------------------------------------------------------------
(* tokens.c.                                                               *)

(* The first index of input, from i on, that holds one of cs or none of cs.*)
FirstIn(cs, i) == CHOOSE j \in i..(SIZE - 1) :
                      input[j] \in cs /\ \A k \in i..(j - 1) : input[k] \notin cs
FirstNotIn(cs, i) == CHOOSE j \in i..(SIZE - 1) :
                      input[j] \notin cs /\ \A k \in i..(j - 1) : input[k] \in cs

(* The token from str on, the buffer with the token ended by a NUL, and    *)
(* the place to go on from.                                                *)
i_next_token(str) ==
    LET first == FirstNotIn({Blank}, str)
        end   == FirstIn({Blank, NUL}, first)
    IN  IF input[first] = NUL THEN [tok |-> None, input |-> input, state |-> tokst]
        ELSE [tok   |-> [i \in 1..(end - first) |-> input[first + i - 1]],
              input |-> [input EXCEPT ![end] = NUL],
              state |-> IF input[end] = NUL THEN end ELSE end + 1]

Digit == [c \in {"0", "1", "2", "7", "9"} |->
            CASE c = "0" -> 0 [] c = "1" -> 1 [] c = "2" -> 2 [] c = "7" -> 7 [] c = "9" -> 9]

(* strtoul of a token without plus sign and leading zeros: what is too     *)
(* large saturates, a minus sign is taken modulo the width.                *)
Minus(tok) == Head(tok) = "-"
Digits(tok) == IF Minus(tok) THEN Tail(tok) ELSE tok
IsUint(tok) ==
    /\ Digits(tok) # <<>>
    /\ \A i \in DOMAIN Digits(tok) : Digits(tok)[i] \in DOMAIN Digit
Value(tok) ==
    LET v == FoldLeft(LAMBDA n, c : 10 * n + Digit[c], 0, Digits(tok)) IN
    IF v > MaxUlong THEN MaxUlong
    ELSE IF Minus(tok) THEN (-v) % (MaxUlong + 1) ELSE v
IsUint8(tok) == IsUint(tok) /\ Value(tok) <= MaxByte

----------------------------------------------------------------------------
(* console.c.                                                              *)

Typing(c) == \E l \in Lines : IsPrefix(Append(shown, c), l)

(* A character that does not fit is neither stored nor echoed.             *)
Key(c) ==
    /\ cpc = "read" /\ Typing(c)
    /\ IF input_pos < SIZE - 1
       THEN /\ input' = [input EXCEPT ![input_pos] = c]
            /\ input_pos' = input_pos + 1
            /\ shown' = Append(shown, c)
       ELSE UNCHANGED <<input, input_pos, shown>>
    /\ UNCHANGED <<left, cpc, words, i2cVars, spiVars, others>>

Backspace ==
    /\ cpc = "read" /\ input_pos > 0
    /\ left > 0 /\ left' = left - 1
    /\ input_pos' = input_pos - 1
    /\ shown' = Front(shown)
    /\ UNCHANGED <<input, cpc, words, i2cVars, spiVars, others>>

(* Wrong on purpose: the line is not ended.                                *)
EnterNoNul ==
    /\ cpc = "read" /\ cpc' = "command"
    /\ left > 0 /\ left' = left - 1
    /\ tokst' = 0 /\ toks' = <<>>
    /\ UNCHANGED <<input, input_pos, shown, i2cVars, spiVars, others>>

Enter ==
    /\ cpc = "read" /\ cpc' = "command"
    /\ left > 0 /\ left' = left - 1
    /\ input' = [input EXCEPT ![input_pos] = NUL]
    /\ tokst' = 0 /\ toks' = <<>>
    /\ UNCHANGED <<input_pos, shown, i2cVars, spiVars, others>>

(* command_handler has returned, and its variables are gone.               *)
Prompt ==
    /\ cpc = "prompt" /\ cpc' = "read"
    /\ input_pos' = 0 /\ shown' = <<>>
    /\ tokst' = 0 /\ toks' = <<>> /\ status' = "error" /\ msg' = <<>>
    /\ UNCHANGED <<input, left, req, fly, i2c_done_sem, owner,
                   spi_done_sem, queue, phase, cmd, cur, others>>

----------------------------------------------------------------------------
(* handle_command, and the words a command takes one after the other.      *)

Commands == {"g", "i", "s", "t"}    \* gpio, i2c, spi, trace; help only prints

Take(r) == input' = r.input /\ tokst' = r.state /\ toks' = Append(toks, r.tok)

FirstToken ==
    /\ cpc = "command"
    /\ LET r == i_next_token(tokst) IN
       IF r.tok = None
       THEN cpc' = "prompt" /\ UNCHANGED <<input, words>>
       ELSE /\ Take(r)
            /\ cpc' = IF r.tok \in {<<c>> : c \in Commands} THEN Head(r.tok) ELSE "prompt"
    /\ UNCHANGED <<input_pos, shown, left, i2cVars, spiVars, others>>

(* Wrong on purpose: one byte too many is let through.                     *)
ArgOKOneMore(tok) ==
    LET n == Len(toks) IN
    CASE cpc = "i" /\ n = 1 -> IsUint(tok)
      [] cpc = "i" /\ n = 2 -> IsUint8(tok)
      [] cpc = "i" /\ n = 3 -> /\ IsUint(tok)
                               /\ Value(toks[2]) < NumBuses
                               /\ Value(tok) <= MaxData
      [] cpc = "i" /\ n > 3 -> n - 4 <= MaxData /\ IsUint8(tok)
      [] cpc = "s" -> n - 1 < SPI_MSG_LEN /\ IsUint8(tok)
      [] cpc = "t" -> IsUint(tok)
      [] OTHER -> TRUE

(* May the word after toks be tok?  The ranges of the first two arguments  *)
(* of i2c are looked at once it has the third.                             *)
ArgOK(tok) ==
    LET n == Len(toks) IN
    CASE cpc = "i" /\ n = 1 -> IsUint(tok)
      [] cpc = "i" /\ n = 2 -> IsUint8(tok)
      [] cpc = "i" /\ n = 3 -> /\ IsUint(tok)
                               /\ Value(toks[2]) < NumBuses
                               /\ Value(tok) <= MaxData
      [] cpc = "i" /\ n > 3 -> n - 4 < MaxData /\ IsUint8(tok)
      [] cpc = "s" -> n - 1 < SPI_MSG_LEN /\ IsUint8(tok)
      [] cpc = "t" -> IsUint(tok)
      [] OTHER -> TRUE

MaxArgs == [g |-> 2, i |-> MaxData + 4, s |-> SPI_MSG_LEN + 1, t |-> 1]
Wants == cpc \in Commands /\ Len(toks) <= MaxArgs[cpc]

NextArg ==
    /\ Wants
    /\ LET r == i_next_token(tokst) IN
       /\ r.tok # None
       /\ Take(r)
       /\ cpc' = IF ArgOK(r.tok) THEN cpc ELSE "prompt"
    /\ UNCHANGED <<input_pos, shown, left, i2cVars, spiVars, others>>

NoMoreArgs ==
    /\ cpc \in Commands
    /\ Wants => i_next_token(tokst).tok = None

----------------------------------------------------------------------------
(* The commands.                                                           *)

Missing ==
    /\ NoMoreArgs /\ cpc' = "prompt"
    /\ \/ cpc = "i" /\ Len(toks) < 4
       \/ cpc \in {"s", "t"} /\ Len(toks) < 2
    /\ UNCHANGED <<line, words, i2cVars, spiVars, others>>

TraceCommand ==
    /\ NoMoreArgs /\ cpc = "t" /\ Len(toks) = 2
    /\ spi_trace' = (Value(toks[2]) # 0)
    /\ cpc' = "prompt"
    /\ UNCHANGED <<line, words, i2cVars, spiVars, pins>>

(* A GPIO without a value, without a name, unknown or an input is not set. *)
GpioCommand ==
    /\ NoMoreArgs /\ cpc = "g" /\ cpc' = "prompt"
    /\ \/ /\ Len(toks) = 3 /\ IsUint(toks[3])
          /\ \E p \in DOMAIN pins :
               /\ toks[2] = <<p>>
               /\ pins' = [pins EXCEPT ![p] =
                             IF (Value(toks[3]) # 0) # Pins[p].nlogic THEN 1 ELSE 0]
       \/ /\ Len(toks) = 3 /\ IsUint(toks[3]) => toks[2] \notin {<<p>> : p \in DOMAIN pins}
          /\ UNCHANGED pins
    /\ UNCHANGED <<line, words, i2cVars, spiVars, spi_trace>>

I2cCall ==
    /\ NoMoreArgs /\ cpc = "i" /\ Len(toks) >= 4
    /\ cpc' = "i2c start"
    /\ I2cBus!Own(Mine, Value(toks[2]))
    /\ UNCHANGED <<line, words, req, fly, status, i2c_done_sem, spiVars, others>>

I2cBusy ==
    /\ NoMoreArgs /\ cpc = "i" /\ Len(toks) >= 4
    /\ cpc' = "prompt"
    /\ owner[Value(toks[2])] # None
    /\ UNCHANGED <<line, words, i2cVars, spiVars, others>>

I2cStart ==
    /\ cpc = "i2c start" /\ cpc' = "i2c wait"
    /\ status' = "error" /\ fly' = TRUE
    /\ req' = [bus |-> Value(toks[2]), addr |-> Value(toks[3]), rx |-> Value(toks[4]),
               tx |-> [i \in 1..(Len(toks) - 4) |-> Value(toks[i + 4])]]
    /\ UNCHANGED <<line, words, i2c_done_sem, owner, spiVars, others>>

I2cRefused ==
    /\ cpc = "i2c start" /\ cpc' = "prompt"
    /\ status' = "error"
    /\ I2cBus!Wedge(Value(toks[2]))
    /\ UNCHANGED <<line, words, req, fly, i2c_done_sem, spiVars, others>>

(* Wrong on purpose: the command does not wait for its transaction.        *)
I2cNoWait ==
    /\ cpc = "i2c wait" /\ cpc' = "prompt"
    /\ UNCHANGED <<line, words, i2cVars, spiVars, others>>

I2cWait ==
    /\ cpc = "i2c wait" /\ cpc' = "prompt"
    /\ i2c_done_sem > 0 /\ i2c_done_sem' = i2c_done_sem - 1
    /\ UNCHANGED <<line, words, req, fly, status, owner, spiVars, others>>

SpiSend ==
    /\ NoMoreArgs /\ cpc = "s" /\ Len(toks) >= 2
    /\ cpc' = "spi wait"
    /\ msg' = [i \in 1..SPI_MSG_LEN |-> IF i < Len(toks) THEN Value(toks[i + 1]) ELSE 0]
    /\ Port!Send(Mine)
    /\ UNCHANGED <<line, words, i2cVars, spi_done_sem, others>>

SpiWait ==
    /\ cpc = "spi wait" /\ cpc' = "prompt"
    /\ spi_done_sem > 0 /\ spi_done_sem' = spi_done_sem - 1
    /\ UNCHANGED <<line, words, i2cVars, msg, queue, phase, cmd, cur, others>>

----------------------------------------------------------------------------
(* The I2C driver, the SPI port, and their other users.                    *)

(* Wrong on purpose: nobody is woken.                                      *)
TransferDoneNoPost ==
    /\ fly /\ fly' = FALSE /\ req' = None
    /\ status' \in {"success", "error"}
    /\ I2cBus!Finish(req.bus)
    /\ UNCHANGED <<line, cpc, words, i2c_done_sem, spiVars, others>>

(* i2c_transaction_done runs in the driver's interrupt.                    *)
TransferDone ==
    /\ fly /\ fly' = FALSE /\ req' = None
    /\ status' \in {"success", "error"}
    /\ i2c_done_sem' = Post(i2c_done_sem)
    /\ I2cBus!Finish(req.bus)
    /\ UNCHANGED <<line, cpc, words, spiVars, others>>

HostRuns ==
    /\ Port!Exchange(None)
    /\ UNCHANGED <<line, cpc, words, i2cVars, spi_done_sem, msg, others>>

RunHandled ==
    /\ Port!Handled
    /\ UNCHANGED <<line, cpc, words, i2cVars, spi_done_sem, msg, others>>

(* spi_command_done, if the message was the console's.                     *)
MessageDone ==
    /\ Port!Done
    /\ spi_done_sem' = IF cur = Mine THEN Post(spi_done_sem) ELSE spi_done_sem
    /\ UNCHANGED <<line, cpc, words, i2cVars, msg, others>>

OtherSends ==
    /\ Port!Send(Elsewhere)
    /\ UNCHANGED <<line, cpc, words, i2cVars, spi_done_sem, msg, others>>

OtherTransaction(b) ==
    /\ \/ I2cBus!Own(Elsewhere, b)
       \/ owner[b] = Elsewhere /\ (I2cBus!Finish(b) \/ I2cBus!Wedge(b))
    /\ UNCHANGED <<line, cpc, words, req, fly, status, i2c_done_sem, spiVars, others>>

----------------------------------------------------------------------------
Command ==
    \/ FirstToken \/ NextArg \/ Missing \/ TraceCommand \/ GpioCommand
    \/ I2cCall \/ I2cBusy \/ I2cStart \/ I2cRefused \/ I2cWait
    \/ SpiSend \/ SpiWait \/ Prompt

Next ==
    \/ \E c \in UNION {Range(l) : l \in Lines} : Key(c)
    \/ Backspace \/ Enter
    \/ Command
    \/ TransferDone \/ HostRuns \/ RunHandled \/ MessageDone \/ OtherSends
    \/ \E b \in Buses : OtherTransaction(b)

Spec == Init /\ [][Next]_vars

(* The thread runs, the driver ends what it has, and the host runs the     *)
(* clock for a message that waits.                                         *)
Fairness ==
    /\ WF_vars(Command) /\ WF_vars(TransferDone)
    /\ WF_vars(RunHandled) /\ WF_vars(MessageDone)
    /\ SF_vars(HostRuns /\ cur' # None)

FairSpec == Spec /\ Fairness

----------------------------------------------------------------------------
(* Properties.                                                             *)

(* The words of a line: its longest runs without a blank, from the left.   *)
Runs(l) ==
    {r \in (1..Len(l)) \X (1..Len(l)) :
        /\ r[1] <= r[2]
        /\ \A k \in r[1]..r[2] : l[k] # Blank
        /\ r[1] > 1 => l[r[1] - 1] = Blank
        /\ r[2] < Len(l) => l[r[2] + 1] = Blank}
Earlier(l, r) == {s \in Runs(l) : s[1] < r[1]}
Nth(l, n) == CHOOSE r \in Runs(l) : Cardinality(Earlier(l, r)) = n - 1
Words(l) ==
    [n \in 1..Cardinality(Runs(l)) |-> SubSeq(l, Nth(l, n)[1], Nth(l, n)[2])]

(* The words a command is given are those of the line on the terminal, as  *)
(* edited and cut off, in order, and it acts when it has had them all:     *)
(* what earlier lines left in the buffer never comes in, although the      *)
(* tokenizer writes into it and is asked again after its end.              *)
CommandGetsLine ==
    /\ cpc \in Commands \cup {"i2c start", "i2c wait", "spi wait"} => IsPrefix(toks, Words(shown))
    /\ cpc \in {"i2c start", "i2c wait", "spi wait"} => toks = Words(shown)

(* No buffer is overrun: the line leaves room for its NUL, the buffers on  *)
(* a command's stack hold what it gives to the driver and to the port, and *)
(* what it gives them as a byte is one.                                    *)
BuffersHold ==
    /\ input_pos \in 0..(SIZE - 1)
    /\ cpc = "spi wait" => Len(toks) - 1 <= SPI_MSG_LEN
    /\ fly => /\ req.bus \in Buses /\ req.addr <= MaxByte /\ req.rx <= MaxData
              /\ Len(req.tx) <= MaxData /\ \A i \in DOMAIN req.tx : req.tx[i] <= MaxByte
    /\ Port!InQueue(Mine) => \A i \in DOMAIN msg : msg[i] <= MaxByte

(* A command returns only when neither the driver nor the port has a       *)
(* structure of its stack frame, and leaves no post behind that would end  *)
(* the next command's wait.                                                *)
FrameIsFree ==
    cpc \in {"read", "command", "prompt"} \cup Commands =>
        /\ ~fly /\ \A b \in Buses : owner[b] # Mine
        /\ ~Port!InQueue(Mine)
        /\ i2c_done_sem = 0 /\ spi_done_sem = 0

(* Each line is done with, and the console reads the next.                 *)
ConsoleReadsOn == cpc # "read" ~> cpc = "read"
=============================================================================

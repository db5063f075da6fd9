------------------------------ MODULE Display ------------------------------
(***************************************************************************)
(* src/ti/display: Display.c finds a display and hands each call to its    *)
(* driver; DisplayUart.c has two drivers, one for a plain UART (Min), the  *)
(* one the firmware configures, and one for a terminal (Ansi).  All        *)
(* threads print to one display, which has one buffer and one binary       *)
(* semaphore.                                                              *)
(*                                                                         *)
(* What goes out is a sequence of characters and of escape sequences, each *)
(* of them one item of its own length.  The callers keep three rules the   *)
(* drivers do not check: they open only a display that is closed, close it *)
(* only when nobody prints ("Not sure what happens if someone is           *)
(* pending"), and print to a terminal only texts that fit the buffer.      *)
(***************************************************************************)
EXTENDS Naturals, Sequences, FiniteSets, SequencesExt

CONSTANTS
    Threads,
    Config,      \* Display_config: a driver, a UART, a buffer, a timeout
    Calls,       \* what a thread may ask for
    NULL

Displays == DOMAIN Config
Drivers == {"min", "ansi"}
Ops == {"open", "close", "clear", "clearLines", "printf", "control"}
Modes == {"none", "left", "right", "both"}

VARIABLES
    pc, call,        \* what each thread is doing, and for which call
    hDisplay,        \* the display it is doing it to, or NULL
    i, curLine,      \* its loops: displays, characters or items; lines to clear
    handle,          \* what the callers got from Display_open
    mutex,           \* object->mutex: NULL, or the count of the semaphore
    hUart,           \* object->hUart: does the display have its UART open?
    lineClearSeq,
    strBuf,          \* hwAttrs->strBuf, up to strSize
    out              \* history: what was sent since the mutex was taken

vars == <<pc, call, hDisplay, i, curLine, handle, mutex, hUart, lineClearSeq, strBuf, out>>
object == <<mutex, hUart, lineClearSeq>>
caller == <<call, hDisplay, handle>>
loops == <<i, curLine>>

----------------------------------------------------------------------------
(* What is sent: characters, escape sequences, and their length in bytes.  *)
CR == <<"\r">>
LF == <<"\n">>
INITIAL == <<"reset, clear, set up scrolling">>
CLEARSCREEN == <<"clear screen">>
RESTOREPOS == <<"restore cursor">>
CLEARDOWN == <<"clear line, move down">>
MOVEPOS(line, column) == <<"save cursor, move to", line, column>>
CLEAR(mode) == <<"clear", mode>>

(* Lines and columns are bytes, printed with one added to them.            *)
Indexes == 0..255
Digits(n) == IF n < 10 THEN 1 ELSE IF n < 100 THEN 2 ELSE 3

Bytes(x) ==
    CASE x[1] = "save cursor, move to" -> 11 + Digits(x[2]) + Digits(x[3])
      [] x = CLEARDOWN -> 6
      [] x[1] = "clear" -> 4
      [] x = RESTOREPOS -> 2
      [] OTHER -> 1
strSize(s) == FoldLeft(LAMBDA n, x : n + Bytes(x), 0, s)

SCROLLING == 255
getType(d) == IF Config[d].driver = "min" THEN {"UART"} ELSE {"UART", "ANSI"}
bufLen(d) == Config[d].strBufLen

(* The buffers hold what the drivers put there of their own: for a plain   *)
(* UART the NUL and a return and a newline, for a terminal the shortest    *)
(* piece of the lines to clear, whichever these are.  A character of a     *)
(* text is one byte.                                                       *)
Shortest(driver) ==
    IF driver = "min" THEN 3
    ELSE Bytes(MOVEPOS(256, 0)) + Bytes(CLEARDOWN) + Bytes(RESTOREPOS)

ASSUME DisplayAssumption ==
    /\ Displays = 0..(Cardinality(Displays) - 1)
    /\ NULL \notin Displays
    /\ \A d \in Displays :
          /\ Config[d].driver \in Drivers
          /\ Config[d].strBufLen \in Nat /\ Config[d].strBufLen >= Shortest(Config[d].driver)
    /\ \A c \in Calls :
          /\ c.op \in Ops
          /\ c.op = "open" => c.mode \in Modes
          /\ c.op = "clearLines" => c.from \in Indexes /\ c.to \in Indexes
          /\ c.op = "printf" =>
                /\ c.line \in Indexes /\ c.column \in Indexes /\ c.text \in Seq(STRING)
                /\ \A n \in DOMAIN c.text : Bytes(<<c.text[n]>>) = 1

(* vsnprintf keeps one byte of the size it is given for the NUL.           *)
vsnprintf(size, text) ==
    SubSeq(text, 1, IF size <= Len(text) THEN size - 1 ELSE Len(text))

----------------------------------------------------------------------------
NoCall == [op |-> "none"]

Init ==
    /\ pc = [t \in Threads |-> "idle"] /\ call = [t \in Threads |-> NoCall]
    /\ hDisplay = [t \in Threads |-> NULL]
    /\ i = [t \in Threads |-> 0] /\ curLine = [t \in Threads |-> 0]
    /\ handle = NULL
    /\ mutex = [d \in Displays |-> NULL] /\ hUart = [d \in Displays |-> FALSE]
    /\ lineClearSeq = [d \in Displays |-> "none"]
    /\ strBuf = [d \in Displays |-> <<>>] /\ out = [d \in Displays |-> <<>>]

Goto(t, l) == pc' = [pc EXCEPT ![t] = l]
Alone(t) == \A u \in Threads \ {t} : pc[u] = "idle"

(* What Ansi_vprintf puts before the text, and after it.                   *)
Before(d, c) ==
    IF c.line = SCROLLING THEN <<>>
    ELSE IF lineClearSeq[d] = "none" THEN <<MOVEPOS(c.line + 1, c.column + 1)>>
    ELSE <<MOVEPOS(c.line + 1, c.column + 1), CLEAR(lineClearSeq[d])>>
After(c) == IF c.line = SCROLLING THEN <<CR, LF>> ELSE <<RESTOREPOS>>

(* The rules of the callers.                                               *)
Allowed(t, c) ==
    /\ c.op = "open" => handle = NULL /\ Alone(t)
    /\ c.op = "close" => Alone(t)
    /\ c.op = "printf" /\ handle # NULL =>
          \/ Config[handle].driver = "min"
          \/ Len(c.text) <= bufLen(handle) - strSize(Before(handle, c)) - 3

(* Where Display.c and the driver's function table lead: nothing is done   *)
(* with a NULL handle, nor to clear a plain UART.                          *)
Entry(c, d) ==
    IF c.op = "open" THEN "open"
    ELSE IF d = NULL \/ c.op = "control" THEN "return"
    ELSE IF c.op = "close" THEN "close"
    ELSE IF c.op = "printf" \/ Config[d].driver = "ansi" THEN "pend"
    ELSE "return"

Call(t) ==
    /\ pc[t] = "idle"
    /\ \E c \in Calls :
          /\ Allowed(t, c)
          /\ call' = [call EXCEPT ![t] = c]
          /\ Goto(t, Entry(c, handle))
          /\ handle' = IF c.op = "close" THEN NULL ELSE handle
    /\ hDisplay' = [hDisplay EXCEPT ![t] = handle]
    /\ UNCHANGED <<loops, object, strBuf, out>>

Return(t) ==
    /\ pc[t] = "return" /\ Goto(t, "idle")
    /\ handle' = IF call[t].op = "open" THEN hDisplay[t] ELSE handle
    /\ call' = [call EXCEPT ![t] = NoCall]
    /\ hDisplay' = [hDisplay EXCEPT ![t] = NULL]
    /\ i' = [i EXCEPT ![t] = 0] /\ curLine' = [curLine EXCEPT ![t] = 0]
    /\ UNCHANGED <<object, strBuf, out>>

----------------------------------------------------------------------------
(* Display_doOpen, and the drivers' open.                                  *)

Matches(id, d) == id = [index |-> d] \/ \E y \in getType(d) : id = [type |-> y]

TryDisplay(t) ==
    /\ pc[t] = "open"
    /\ IF i[t] \notin Displays THEN Goto(t, "return") /\ UNCHANGED i
       ELSE IF Matches(call[t].id, i[t]) THEN Goto(t, "create") /\ UNCHANGED i
       ELSE i' = [i EXCEPT ![t] = @ + 1] /\ UNCHANGED pc
    /\ UNCHANGED <<caller, curLine, object, strBuf, out>>

(* Wrong on purpose: the same display is tried again.                      *)
OpenFailsForever(t) == Goto(t, "open") /\ UNCHANGED i

OpenFails(t) == Goto(t, "open") /\ i' = [i EXCEPT ![t] = @ + 1]

CreateMutex(t) ==
    /\ pc[t] = "create"
    /\ \E m \in {1, NULL} :
          /\ mutex' = [mutex EXCEPT ![i[t]] = m]
          /\ IF m = NULL THEN OpenFails(t) ELSE Goto(t, "uart") /\ UNCHANGED i
    /\ UNCHANGED <<caller, curLine, hUart, lineClearSeq, strBuf, out>>

(* A UART is opened once.  A display that cannot have it leaves the        *)
(* semaphore it made.                                                      *)
InUse(uart) == \E d \in Displays : hUart[d] /\ Config[d].uartIdx = uart

OpenUart(t) ==
    LET d == i[t] IN
    /\ pc[t] = "uart"
    /\ \/ /\ ~InUse(Config[d].uartIdx)
          /\ hUart' = [hUart EXCEPT ![d] = TRUE]
          /\ hDisplay' = [hDisplay EXCEPT ![t] = d]
          /\ IF Config[d].driver = "min"
             THEN Goto(t, "return") /\ UNCHANGED <<lineClearSeq, i>>
             ELSE /\ lineClearSeq' = [lineClearSeq EXCEPT ![d] = call[t].mode]
                  /\ Goto(t, "write") /\ i' = [i EXCEPT ![t] = 1]
       \/ /\ OpenFails(t)
          /\ hUart' = [hUart EXCEPT ![d] = FALSE]
          /\ UNCHANGED <<lineClearSeq, hDisplay>>
    /\ UNCHANGED <<call, handle, curLine, mutex, strBuf, out>>

Close(t) ==
    LET d == hDisplay[t] IN
    /\ pc[t] = "close" /\ Goto(t, "return")
    /\ hUart' = [hUart EXCEPT ![d] = FALSE]
    /\ mutex' = [mutex EXCEPT ![d] = NULL]
    /\ UNCHANGED <<caller, loops, lineClearSeq, strBuf, out>>

----------------------------------------------------------------------------
(* The functions that print.                                               *)

(* Wrong on purpose: the result of SemaphoreP_pend is not tested.          *)
PendUntested(t) ==
    LET d == hDisplay[t] IN
    /\ pc[t] = "pend" /\ Goto(t, "format")
    /\ mutex[d] = 1 \/ Config[d].gives_up
    /\ mutex' = [mutex EXCEPT ![d] = 0]
    /\ UNCHANGED <<caller, loops, hUart, lineClearSeq, strBuf, out>>

Pend(t) ==
    LET d == hDisplay[t] IN
    /\ pc[t] = "pend" /\ Goto(t, "format")
    /\ mutex[d] = 1
    /\ mutex' = [mutex EXCEPT ![d] = 0]
    /\ UNCHANGED <<caller, loops, hUart, lineClearSeq, strBuf, out>>

(* With a time limit the call may return having printed nothing.           *)
PendTimeout(t) ==
    /\ pc[t] = "pend" /\ Goto(t, "return")
    /\ Config[hDisplay[t]].gives_up
    /\ UNCHANGED <<caller, loops, object, strBuf, out>>

Chars(text) == [n \in DOMAIN text |-> <<text[n]>>]

(* The buffer gets the text, or the start of the lines to clear.           *)
Format(t) ==
    LET d == hDisplay[t]
        c == call[t] IN
    /\ pc[t] = "format"
    /\ Goto(t, CASE c.op = "clearLines" -> "lines"
                 [] Config[d].driver = "min" -> "char"
                 [] OTHER -> "write")
    /\ strBuf' = [strBuf EXCEPT ![d] =
          CASE c.op = "clear" -> @
            [] c.op = "clearLines" -> <<MOVEPOS(c.from + 1, 0)>>
            [] Config[d].driver = "min" -> Chars(vsnprintf(bufLen(d) - 2, c.text))
            [] OTHER -> Before(d, c)
                \o Chars(vsnprintf(bufLen(d) - strSize(Before(d, c)) - 2, c.text))
                \o After(c)]
    /\ i' = [i EXCEPT ![t] = 1]
    /\ curLine' = [curLine EXCEPT ![t] = IF c.op = "clearLines" THEN c.from + 1 ELSE 0]
    /\ UNCHANGED <<caller, object, out>>

(* Ansi_clearLines: the buffer is sent whenever the next line, or the end, *)
(* would not fit.                                                          *)
lineTo(c) == IF c.to <= c.from THEN c.from ELSE c.to

(* Wrong on purpose: room for the end only.                                *)
FullLate(d, s) == bufLen(d) - strSize(s) < Bytes(RESTOREPOS)

Full(d, s) == bufLen(d) - strSize(s) < Bytes(RESTOREPOS) + Bytes(CLEARDOWN)

ClearLine(t) ==
    LET d == hDisplay[t]
        s == strBuf[d] \o <<CLEARDOWN>> IN
    /\ pc[t] = "lines"
    /\ IF curLine[t] < lineTo(call[t]) + 2
       THEN /\ strBuf' = [strBuf EXCEPT ![d] = s]
            /\ curLine' = [curLine EXCEPT ![t] = @ + 1]
            /\ IF Full(d, s) THEN Goto(t, "flush") ELSE UNCHANGED pc
       ELSE /\ strBuf' = [strBuf EXCEPT ![d] = @ \o <<RESTOREPOS>>]
            /\ Goto(t, "write") /\ UNCHANGED curLine
    /\ UNCHANGED <<caller, i, object, out>>

Emit(d, x) == out' = [out EXCEPT ![d] = Append(@, x)]

(* UART_write takes its bytes from the buffer while it sends.              *)
Source(t) ==
    CASE call[t].op = "open" -> <<INITIAL>>
      [] call[t].op = "clear" -> <<CLEARSCREEN>>
      [] OTHER -> strBuf[hDisplay[t]]

Write(t) ==
    /\ pc[t] \in {"write", "flush"} /\ i[t] <= Len(Source(t))
    /\ Emit(hDisplay[t], Source(t)[i[t]])
    /\ i' = [i EXCEPT ![t] = @ + 1]
    /\ UNCHANGED <<pc, caller, curLine, object, strBuf>>

Written(t) ==
    LET d == hDisplay[t] IN
    /\ pc[t] \in {"write", "flush"} /\ i[t] > Len(Source(t))
    /\ Goto(t, CASE pc[t] = "flush" -> "lines"
                 [] call[t].op = "open" -> "return"
                 [] OTHER -> "post")
    /\ strBuf' = IF pc[t] = "flush" THEN [strBuf EXCEPT ![d] = <<>>] ELSE strBuf
    /\ i' = [i EXCEPT ![t] = 1]
    /\ out' = IF call[t].op = "open" THEN [out EXCEPT ![d] = <<>>] ELSE out
    /\ UNCHANGED <<caller, curLine, object>>

(* Min_vprintf: one byte at a time, a return before each newline.          *)
WriteChar(t) ==
    LET d == hDisplay[t] IN
    /\ pc[t] = "char" /\ i[t] <= Len(strBuf[d])
    /\ IF strBuf[d][i[t]] = LF
       THEN Emit(d, CR) /\ Goto(t, "newline") /\ UNCHANGED i
       ELSE Emit(d, strBuf[d][i[t]]) /\ i' = [i EXCEPT ![t] = @ + 1] /\ UNCHANGED pc
    /\ UNCHANGED <<caller, curLine, object, strBuf>>

WriteNewline(t) ==
    /\ pc[t] = "newline" /\ Goto(t, "char")
    /\ Emit(hDisplay[t], strBuf[hDisplay[t]][i[t]])
    /\ i' = [i EXCEPT ![t] = @ + 1]
    /\ UNCHANGED <<caller, curLine, object, strBuf>>

CharsWritten(t) ==
    /\ pc[t] = "char" /\ i[t] > Len(strBuf[hDisplay[t]])
    /\ Goto(t, "post")
    /\ UNCHANGED <<caller, loops, object, strBuf, out>>

Post(t) ==
    LET d == hDisplay[t] IN
    /\ pc[t] = "post" /\ Goto(t, "return")
    /\ mutex' = [mutex EXCEPT ![d] = 1]
    /\ out' = [out EXCEPT ![d] = <<>>]
    /\ UNCHANGED <<caller, loops, hUart, lineClearSeq, strBuf>>

----------------------------------------------------------------------------
Runs(t) ==
    \/ Return(t) \/ TryDisplay(t) \/ CreateMutex(t) \/ OpenUart(t) \/ Close(t)
    \/ PendTimeout(t) \/ Format(t) \/ ClearLine(t) \/ Write(t) \/ Written(t)
    \/ WriteChar(t) \/ WriteNewline(t) \/ CharsWritten(t) \/ Post(t)

Next == \E t \in Threads : Call(t) \/ Pend(t) \/ Runs(t)

Spec == Init /\ [][Next]_vars

(* The threads run; those that wait for a semaphore get it in turn.        *)
Fairness == \A t \in Threads : WF_vars(Runs(t)) /\ SF_vars(Pend(t))

FairSpec == Spec /\ Fairness

----------------------------------------------------------------------------
(* What a call sends, from first to last.                                  *)
AddReturn(s, x) == IF x = LF THEN s \o <<CR, LF>> ELSE Append(s, x)
Shown(d, text) == [n \in {n \in DOMAIN text : n + 3 <= bufLen(d)} |-> <<text[n]>>]

Rendered(t) ==
    LET d == hDisplay[t]
        c == call[t] IN
    CASE c.op = "open" -> <<INITIAL>>
      [] c.op = "clear" -> <<CLEARSCREEN>>
      [] c.op = "clearLines" ->
            <<MOVEPOS(c.from + 1, 0)>>
            \o [n \in 1..Cardinality(c.from..c.to \cup {c.from}) |-> CLEARDOWN]
            \o <<RESTOREPOS>>
      [] c.op = "printf" /\ Config[d].driver = "min" ->
            FoldLeft(AddReturn, <<>>, Shown(d, c.text))
      [] OTHER -> Before(d, c) \o Chars(c.text) \o After(c)

(* Every call's output is its own and whole: nothing of another thread is  *)
(* mixed in, in whatever pieces it is sent, and at the end none is missing. *)
OutputIsWhole ==
    \A t \in Threads :
        /\ pc[t] \in {"format", "lines", "write", "flush", "char", "newline"} =>
              IsPrefix(out[hDisplay[t]], Rendered(t))
        /\ pc[t] = "post" => out[hDisplay[t]] = Rendered(t)

(* What is put together in the buffer fits it: on a plain UART whatever    *)
(* the text is, with its NUL; on a terminal whatever lines are cleared,    *)
(* and each text that keeps the rule of Allowed, for which the driver has  *)
(* no test of its own.                                                     *)
BufferHolds ==
    \A d \in Displays :
        strSize(strBuf[d]) + (IF Config[d].driver = "min" THEN 1 ELSE 0) <= bufLen(d)

(* Every call returns: the display that was opened has its semaphore, and  *)
(* whoever took it gives it back.                                          *)
DisplayReturns == \A t \in Threads : pc[t] # "idle" ~> pc[t] = "idle"
=============================================================================

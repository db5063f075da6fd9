------------------------------ MODULE AdcProofs ------------------------------
(***************************************************************************)
(* Theorems about adcThread, for every set of chips and channels, every    *)
(* number of tries, a driver that may be late, and other users of the bus. *)
(***************************************************************************)
EXTENDS Adc, TLAPS

AdcTypes ==
    /\ DOMAIN owner = {Bus}
    /\ DOMAIN now = Chips /\ DOMAIN next = Chips
    /\ apc \in {"sleep", "begin", "call", "start", "wait", "status", "ready", "flag",
                "out", "send", "lost"}
    /\ todo \subseteq Vals /\ cur \in Vals
    /\ kind \in {"config", "poll", "get"} /\ status \in {"success", "error"}
    /\ DOMAIN val = Vals /\ gen \in {0, 1}
    /\ fly # None => fly.kind \in {"config", "poll", "get"} /\ fly.of \in Vals

(* A transaction of this thread owns the bus while the driver has it.  One *)
(* that is awaited is the one the call began, and its status is not yet    *)
(* that of a success; with one that was given up no call gets further than *)
(* to find the bus in use: only such a one can have its frame spoiled.     *)
FlyInv ==
    /\ fly # None =>
         /\ owner[Bus] = Mine
         /\ apc \in {"wait", "status", "out", "begin", "call", "send", "sleep"}
         /\ apc = "call" => kind = "config"
    /\ fly # None /\ Awaited => status = "error" /\ fly.kind = kind /\ fly.of = cur
    /\ apc = "start" => owner[Bus] = Mine
    /\ spoiled => fly # None /\ ~Awaited

(* The read is past the write of the configuration.                        *)
Past(k) == kind = k /\ (apc \in {"call", "start", "ready", "flag"} \/ Awaited)
Succeeded(k) == kind = k /\ Awaited /\ status = "success"

(* From there on the chip converts the value that is being read, and the   *)
(* result is fetched only once the chip has said that it has it.           *)
ReadInv ==
    LET c == cur[1]
        mine == Conversion(cur, gen)
    IN
    /\ Succeeded("config") \/ Past("poll") \/ Past("get") =>
         next[c] = mine \/ (next[c] = None /\ now[c] = mine)
    /\ (apc = "ready" /\ rx.ready) \/ (Succeeded("poll") /\ rx.ready) \/ Past("get") =>
         next[c] = None
    /\ apc = "flag" \/ Succeeded("get") => rx.result = mine
    /\ apc = "ready" => kind = "poll"
    /\ apc = "flag" => kind = "get"

(* The message is in use from the first read on until adc_spi_done, and    *)
(* with the SPI port only while the thread sleeps, or is lost.             *)
MessageInv ==
    /\ queued => adc_spi_inuse /\ apc \in {"sleep", "lost"}
    /\ apc \notin {"sleep", "lost"} => adc_spi_inuse

AdcIInv == AdcTypes /\ FlyInv /\ ReadInv /\ MessageInv /\ FlaggedIsFresh

-----------------------------------------------------------------------------
(* Each named part of the inductive invariant is kept by every step.       *)

(* Types.                                                                  *)
LEMMA AdcTypeStep ==
    ASSUME AdcTypes, [Next]_vars PROVE AdcTypes'
<1> USE AdcAssumption DEF AdcTypes
<1>0. cur \in Vals /\ cur[1] \in Chips /\ (fly # None => fly.of[1] \in Chips)
  BY DEF AdcTypes, Vals
<1>1. CASE Wake
  BY <1>1, <1>0 DEF Wake, i2c, read, waits, result
<1>2. CASE Begin
  BY <1>2, <1>0 DEF Begin, i2c, result
<1>3. CASE Call
  BY <1>3, <1>0 DEF Call, I2cBus!Own, loop, read, waits, result
<1>4. CASE CallBusy
  BY <1>4, <1>0 DEF CallBusy, i2c, loop, read, waits, result
<1>5. CASE Start
  BY <1>5, <1>0 DEF Start, loop, read, waits
<1>6. CASE StartRefused
  BY <1>6, <1>0 DEF StartRefused, I2cBus!Wedge, loop, read, waits
<1>7. CASE Woken
  BY <1>7, <1>0 DEF Woken, i2c, loop, read, result
<1>8. CASE TimedOut
  BY <1>8, <1>0 DEF TimedOut, i2c, loop, read, waits, result
<1>9. CASE CheckStatus
  BY <1>9, <1>0 DEF CheckStatus, AfterSuccess, i2c, loop, waits, result
<1>10. CASE Ready
  BY <1>10, <1>0 DEF Ready, i2c, loop, waits, result
<1>11. CASE NotReady
  BY <1>11, <1>0 DEF NotReady, i2c, loop, waits, result
<1>12. CASE SetFlag
  BY <1>12, <1>0 DEF SetFlag, i2c, read, waits, result
<1>13. CASE Out
  BY <1>13, <1>0 DEF Out, i2c, loop, result
<1>14. CASE SendReport
  BY <1>14, <1>0 DEF SendReport, i2c, read, waits, result
<1>15. CASE ReportDone
  BY <1>15, <1>0 DEF ReportDone, i2c, read, waits, result
<1>16. CASE TransferDone
  BY <1>16, <1>0 DEF TransferDone, I2cBus!Finish, Transferred, loop, read
<1>17. CASE OtherTransaction
  BY <1>17, <1>0 DEF OtherTransaction, I2cBus!Own, I2cBus!Finish,
    I2cBus!Wedge, loop, read, waits, result
<1>18. ASSUME NEW c \in Chips, Convert(c) PROVE AdcTypes'
  BY <1>18, <1>0 DEF Convert, loop, read, waits, result
<1>19. CASE UNCHANGED vars
  BY <1>19, <1>0 DEF vars
<1>20. CASE LateDone
  BY <1>20, <1>0 DEF LateDone, loop, read, waits, result
<1>21. QED
  BY <1>1, <1>2, <1>3, <1>4, <1>5, <1>6, <1>7, <1>8, <1>9, <1>10, <1>11,
    <1>12, <1>13, <1>14, <1>15, <1>16, <1>17, <1>18, <1>19, <1>20 DEF Next, AdcThread

(* The transaction that the driver has.                                    *)
LEMMA FlyStep ==
    ASSUME AdcTypes, FlyInv, [Next]_vars PROVE FlyInv'
<1> USE AdcAssumption DEF AdcTypes, FlyInv, Awaited, Mine, Elsewhere
<1>1. CASE Wake
  BY <1>1 DEF Wake, i2c, read, waits, result
<1>2. CASE Begin
  BY <1>2 DEF Begin, i2c, result
<1>3. CASE Call
  BY <1>3 DEF Call, I2cBus!Own, loop, read, waits, result
<1>4. CASE CallBusy
  BY <1>4 DEF CallBusy, i2c, loop, read, waits, result
<1>5. CASE Start
  BY <1>5 DEF Start, loop, read, waits
<1>6. CASE StartRefused
  BY <1>6 DEF StartRefused, I2cBus!Wedge, loop, read, waits
<1>7. CASE Woken
  BY <1>7 DEF Woken, i2c, loop, read, result
<1>8. CASE TimedOut
  BY <1>8 DEF TimedOut, i2c, loop, read, waits, result
<1>9. CASE CheckStatus
  BY <1>9 DEF CheckStatus, AfterSuccess, i2c, loop, waits, result
<1>10. CASE Ready
  BY <1>10 DEF Ready, i2c, loop, waits, result
<1>11. CASE NotReady
  BY <1>11 DEF NotReady, i2c, loop, waits, result
<1>12. CASE SetFlag
  BY <1>12 DEF SetFlag, i2c, read, waits, result
<1>13. CASE Out
  BY <1>13 DEF Out, i2c, loop, result
<1>14. CASE SendReport
  BY <1>14 DEF SendReport, i2c, read, waits, result
<1>15. CASE ReportDone
  BY <1>15 DEF ReportDone, i2c, read, waits, result
<1>16. CASE TransferDone
  BY <1>16 DEF TransferDone, I2cBus!Finish, Transferred, loop, read
<1>17. CASE OtherTransaction
  BY <1>17 DEF OtherTransaction, I2cBus!Own, I2cBus!Finish, I2cBus!Wedge,
    loop, read, waits, result
<1>18. ASSUME NEW c \in Chips, Convert(c) PROVE FlyInv'
  BY <1>18 DEF Convert, loop, read, waits, result
<1>19. CASE UNCHANGED vars
  BY <1>19 DEF vars
<1>20. CASE LateDone
  BY <1>20 DEF LateDone, loop, read, waits, result
<1>21. QED
  BY <1>1, <1>2, <1>3, <1>4, <1>5, <1>6, <1>7, <1>8, <1>9, <1>10, <1>11,
    <1>12, <1>13, <1>14, <1>15, <1>16, <1>17, <1>18, <1>19, <1>20 DEF Next, AdcThread

(* The three transactions of a read.                                       *)
LEMMA ReadStep ==
    ASSUME AdcTypes, FlyInv, ReadInv, [Next]_vars PROVE ReadInv'
<1> USE DEF AdcTypes, FlyInv, ReadInv, Past, Succeeded, Awaited
<1>0. cur \in Vals /\ cur[1] \in Chips /\ (fly # None => fly.of[1] \in Chips)
  BY DEF AdcTypes, Vals
<1>1. CASE Wake
  BY <1>1, <1>0 DEF Wake, i2c, read, waits, result
<1>2. CASE Begin
  BY <1>2, <1>0 DEF Begin, i2c, result
<1>3. CASE Call
  BY <1>3, <1>0 DEF Call, I2cBus!Own, loop, read, waits, result
<1>4. CASE CallBusy
  BY <1>4, <1>0 DEF CallBusy, i2c, loop, read, waits, result
<1>5. CASE Start
  BY <1>5, <1>0 DEF Start, loop, read, waits
<1>6. CASE StartRefused
  BY <1>6, <1>0 DEF StartRefused, I2cBus!Wedge, loop, read, waits
<1>7. CASE Woken
  BY <1>7, <1>0 DEF Woken, i2c, loop, read, result
<1>8. CASE TimedOut
  BY <1>8, <1>0 DEF TimedOut, i2c, loop, read, waits, result
<1>9. CASE CheckStatus
  BY <1>9, <1>0 DEF CheckStatus, AfterSuccess, i2c, loop, waits, result
<1>10. CASE Ready
  BY <1>10, <1>0 DEF Ready, i2c, loop, waits, result
<1>11. CASE NotReady
  BY <1>11, <1>0 DEF NotReady, i2c, loop, waits, result
<1>12. CASE SetFlag
  BY <1>12, <1>0 DEF SetFlag, i2c, read, waits, result
<1>13. CASE Out
  BY <1>13, <1>0 DEF Out, i2c, loop, result
<1>14. CASE SendReport
  BY <1>14, <1>0 DEF SendReport, i2c, read, waits, result
<1>15. CASE ReportDone
  BY <1>15, <1>0 DEF ReportDone, i2c, read, waits, result
<1>16. CASE TransferDone
  <2>1. UNCHANGED <<now, apc, todo, cur, val, gen, kind>>
    BY <1>16 DEF TransferDone, loop, read
  <2>2. CASE ~Awaited
    <3>1. /\ ~Past("poll") /\ ~Past("get") /\ apc \notin {"ready", "flag", "wait", "status"}
      BY <1>16, <2>2 DEF TransferDone
    <3>2. QED
      BY <2>1, <3>1
  <2>3. CASE status' = "error" /\ UNCHANGED <<rx, next>>
    BY <2>1, <2>3
  <2>4. CASE Awaited /\ status' = "success" /\ Transferred
    <3>1. fly.kind = kind /\ fly.of = cur /\ status = "error"
      BY <1>16, <2>4 DEF TransferDone
    <3>2. CASE kind = "config"
      <4>1. next' = [next EXCEPT ![cur[1]] = Conversion(cur, gen)]
        BY <2>4, <3>1, <3>2 DEF Transferred
      <4>2. QED
        BY <1>0, <2>1, <2>4, <3>2, <4>1
    <3>3. CASE kind = "poll"
      <4>1. next' = next /\ rx'.ready = (next[cur[1]] = None)
        BY <2>4, <3>1, <3>3 DEF Transferred
      <4>2. QED
        BY <1>0, <2>1, <2>4, <3>3, <4>1
    <3>4. CASE kind = "get"
      <4>1. next' = next /\ rx'.result = now[cur[1]]
        BY <2>4, <3>1, <3>4 DEF Transferred
      <4>2. QED
        <5>1. Conversion(cur, gen) # None
          BY <1>0, AdcAssumption DEF Conversion
        <5>2. QED
          BY <1>0, <2>1, <2>4, <3>4, <4>1, <5>1
    <3>5. QED
      BY <3>2, <3>3, <3>4
  <2>5. QED
    BY <1>16, <2>2, <2>3, <2>4 DEF TransferDone
<1>17. CASE OtherTransaction
  BY <1>17, <1>0 DEF OtherTransaction, I2cBus!Own, I2cBus!Finish,
    I2cBus!Wedge, loop, read, waits, result
<1>18. ASSUME NEW c \in Chips, Convert(c) PROVE ReadInv'
  BY <1>18, <1>0 DEF Convert, loop, read, waits, result
<1>19. CASE UNCHANGED vars
  BY <1>19, <1>0 DEF vars
<1>20. CASE LateDone
  BY <1>20, <1>0 DEF LateDone, loop, read, waits, result
<1>21. QED
  BY <1>1, <1>2, <1>3, <1>4, <1>5, <1>6, <1>7, <1>8, <1>9, <1>10, <1>11,
    <1>12, <1>13, <1>14, <1>15, <1>16, <1>17, <1>18, <1>19, <1>20 DEF Next, AdcThread

(* The message.                                                            *)
LEMMA MessageStep ==
    ASSUME MessageInv, [Next]_vars PROVE MessageInv'
<1> USE DEF MessageInv
<1>1. CASE Wake
  BY <1>1 DEF Wake, i2c, read, waits, result
<1>2. CASE Begin
  BY <1>2 DEF Begin, i2c, result
<1>3. CASE Call
  BY <1>3 DEF Call, I2cBus!Own, loop, read, waits, result
<1>4. CASE CallBusy
  BY <1>4 DEF CallBusy, i2c, loop, read, waits, result
<1>5. CASE Start
  BY <1>5 DEF Start, loop, read, waits
<1>6. CASE StartRefused
  BY <1>6 DEF StartRefused, I2cBus!Wedge, loop, read, waits
<1>7. CASE Woken
  BY <1>7 DEF Woken, i2c, loop, read, result
<1>8. CASE TimedOut
  BY <1>8 DEF TimedOut, i2c, loop, read, waits, result
<1>9. CASE CheckStatus
  BY <1>9 DEF CheckStatus, AfterSuccess, i2c, loop, waits, result
<1>10. CASE Ready
  BY <1>10 DEF Ready, i2c, loop, waits, result
<1>11. CASE NotReady
  BY <1>11 DEF NotReady, i2c, loop, waits, result
<1>12. CASE SetFlag
  BY <1>12 DEF SetFlag, i2c, read, waits, result
<1>13. CASE Out
  BY <1>13 DEF Out, i2c, loop, result
<1>14. CASE SendReport
  BY <1>14 DEF SendReport, i2c, read, waits, result
<1>15. CASE ReportDone
  BY <1>15 DEF ReportDone, i2c, read, waits, result
<1>16. CASE TransferDone
  BY <1>16 DEF TransferDone, I2cBus!Finish, Transferred, loop, read
<1>17. CASE OtherTransaction
  BY <1>17 DEF OtherTransaction, I2cBus!Own, I2cBus!Finish, I2cBus!Wedge,
    loop, read, waits, result
<1>18. ASSUME NEW c \in Chips, Convert(c) PROVE MessageInv'
  BY <1>18 DEF Convert, loop, read, waits, result
<1>19. CASE UNCHANGED vars
  BY <1>19 DEF vars
<1>20. CASE LateDone
  BY <1>20 DEF LateDone, loop, read, waits, result
<1>21. QED
  BY <1>1, <1>2, <1>3, <1>4, <1>5, <1>6, <1>7, <1>8, <1>9, <1>10, <1>11,
    <1>12, <1>13, <1>14, <1>15, <1>16, <1>17, <1>18, <1>19, <1>20 DEF Next, AdcThread

(* The flagged values.                                                     *)
LEMMA FlagStep ==
    ASSUME AdcTypes, ReadInv, FlaggedIsFresh, [Next]_vars PROVE FlaggedIsFresh'
<1> USE DEF AdcTypes, ReadInv, FlaggedIsFresh
<1>1. CASE Wake
  BY <1>1 DEF Wake, i2c, read, waits, result
<1>2. CASE Begin
  BY <1>2 DEF Begin, i2c, result
<1>3. CASE Call
  BY <1>3 DEF Call, I2cBus!Own, loop, read, waits, result
<1>4. CASE CallBusy
  BY <1>4 DEF CallBusy, i2c, loop, read, waits, result
<1>5. CASE Start
  BY <1>5 DEF Start, loop, read, waits
<1>6. CASE StartRefused
  BY <1>6 DEF StartRefused, I2cBus!Wedge, loop, read, waits
<1>7. CASE Woken
  BY <1>7 DEF Woken, i2c, loop, read, result
<1>8. CASE TimedOut
  BY <1>8 DEF TimedOut, i2c, loop, read, waits, result
<1>9. CASE CheckStatus
  BY <1>9 DEF CheckStatus, AfterSuccess, i2c, loop, waits, result
<1>10. CASE Ready
  BY <1>10 DEF Ready, i2c, loop, waits, result
<1>11. CASE NotReady
  BY <1>11 DEF NotReady, i2c, loop, waits, result
<1>12. CASE SetFlag
  BY <1>12 DEF SetFlag, i2c, read, waits, result
<1>13. CASE Out
  BY <1>13 DEF Out, i2c, loop, result
<1>14. CASE SendReport
  BY <1>14 DEF SendReport, i2c, read, waits, result
<1>15. CASE ReportDone
  BY <1>15 DEF ReportDone, i2c, read, waits, result
<1>16. CASE TransferDone
  BY <1>16 DEF TransferDone, I2cBus!Finish, Transferred, loop, read
<1>17. CASE OtherTransaction
  BY <1>17 DEF OtherTransaction, I2cBus!Own, I2cBus!Finish, I2cBus!Wedge,
    loop, read, waits, result
<1>18. ASSUME NEW c \in Chips, Convert(c) PROVE FlaggedIsFresh'
  BY <1>18 DEF Convert, loop, read, waits, result
<1>19. CASE UNCHANGED vars
  BY <1>19 DEF vars
<1>20. CASE LateDone
  BY <1>20 DEF LateDone, loop, read, waits, result
<1>21. QED
  BY <1>1, <1>2, <1>3, <1>4, <1>5, <1>6, <1>7, <1>8, <1>9, <1>10, <1>11,
    <1>12, <1>13, <1>14, <1>15, <1>16, <1>17, <1>18, <1>19, <1>20 DEF Next, AdcThread

-----------------------------------------------------------------------------
(* The invariant that carries the theorems below.                          *)
THEOREM AdcInvariant == Spec => []AdcIInv
<1>1. Init => AdcIInv
  BY AdcAssumption
  DEF Init, I2cBus!I2cInit, AdcIInv, AdcTypes, FlyInv, ReadInv, MessageInv, FlaggedIsFresh,
      Past, Succeeded, Awaited
<1>2. AdcIInv /\ [Next]_vars => AdcIInv'
  BY AdcTypeStep, FlyStep, ReadStep, MessageStep, FlagStep DEF AdcIInv
<1>3. QED
  BY <1>1, <1>2, PTL DEF Spec

(* A value flagged as valid is the one of its own channel, converted for   *)
(* this report, whatever transactions were given up before.                *)
THEOREM FlaggedValuesAreFresh == Spec => []FlaggedIsFresh
<1>1. AdcIInv => FlaggedIsFresh
  BY DEF AdcIInv
<1>2. QED
  BY <1>1, AdcInvariant, PTL

(* The one message buffer is not written while it is with the SPI port.    *)
THEOREM ReportIsUntouched == Spec => []ReportUntouched
<1>1. AdcIInv => ReportUntouched
  BY DEF AdcIInv, MessageInv, ReportUntouched
<1>2. QED
  BY <1>1, AdcInvariant, PTL
=============================================================================

--------------------------- MODULE ConverterProps ---------------------------
(***************************************************************************)
(* What must hold of the converter: each request of the host is carried by *)
(* exactly one hand at a time and comes back as the answer to that request.*)
(***************************************************************************)
EXTENDS Converter

(* Every variable has its type.                                            *)
TypeOK ==
    /\ \A i \in DOMAIN queue : queue[i] \in Msgs
    /\ phase \in {"idle", "received", "sent"}
    /\ cmd \in Reqs \cup {None} /\ cur \in Msgs \cup {None}
    /\ owner \in [Buses -> Trans \cup {None, Stuck}]
    /\ inuse \in [Buses -> BOOLEAN] /\ done \in [Buses -> BOOLEAN]
    /\ status \in [Buses -> {"success", "nack", "error", "minus1"}]
    /\ hpc \in {"idle", "start", "driver", "fail", "wake", "gsend", "return"}
    /\ tpc \in {"wait", "scan", "clear", "send"} /\ ti \in Buses
    /\ wake \in 0..WakeMax
    /\ ginuse \in [Gpios -> BOOLEAN] /\ gbuf \in [Gpios -> {0, 1}]
    /\ pins \in [Outputs -> {0, 1}]

----------------------------------------------------------------------------
AtHandler(b) == hpc \in {"start", "driver", "fail"} /\ cmd.bus = b
InThread(b) == tpc = "send" /\ ti = b
InQueue(m) == Bus!InQueue(m)

(* The hands a request for bus b can be in.                                *)
Hands(b) ==
    (IF AtHandler(b) THEN {"handler"} ELSE {}) \cup
    (IF InDriver(b) THEN {"driver"} ELSE {}) \cup
    (IF done[b] THEN {"flag"} ELSE {}) \cup
    (IF InThread(b) THEN {"thread"} ELSE {}) \cup
    (IF InQueue(Rsp(b)) THEN {"queue"} ELSE {})

(* A slot in use is in exactly one hand, and a free slot in none: the flag *)
(* is not set for a response that is already on its way, a message is not  *)
(* given to spi_send while it is queued, and no request is dropped between *)
(* two hands.                                                              *)
SlotInOneHand ==
    \A b \in Buses : Cardinality(Hands(b)) = (IF inuse[b] THEN 1 ELSE 0)

(* The same for the reply to a GET_GPIO, sent from the handler itself.     *)
ValueInOneHand ==
    \A g \in Gpios :
        /\ ginuse[g] <=> InQueue(Val(g)) \/ (hpc = "gsend" /\ cmd.gpio = g)
        /\ ~(InQueue(Val(g)) /\ hpc = "gsend" /\ cmd.gpio = g)

(* No wake-up of spiI2cThread is lost: when a response is due the          *)
(* semaphore is posted, or about to be, or the scan has yet to come to it. *)
WakeNotLost ==
    \A b \in Buses : done[b] =>
        \/ wake > 0 \/ hpc = "wake"
        \/ tpc \in {"scan", "clear"} /\ ti <= b
        \/ tpc = "send" /\ ti < b

(* The response in the queue answers the request the slot was taken for,   *)
(* from the first time the host can see it until it is done with: address, *)
(* count, what the driver reported for this request and for no other, and  *)
(* no bytes of an earlier response.                                        *)
Answers(h, d, r, res) ==
    /\ h.addr = r.addr /\ h.rxcount = r.rx
    /\ IF res = NoResult
       THEN h.status \in {"minus1", "error"} /\ d = Zero
       ELSE h.status = res.status /\ d = res.data

ResponseAnswersRequest ==
    \A b \in Buses : InQueue(Rsp(b)) /\ ~TooLong(ask[b]) =>
        Answers(hdr[b], data[b], ask[b], result[b])

(* The host gets a result for every request it sends, after the run that   *)
(* carried the request; one sent before the result of another has come is  *)
(* ignored, and the result of the other is its answer.                     *)
Requested(b) ==
    phase = "received" /\ cmd # None /\ cmd.op = "i2c" /\ cmd.bus = b /\ cur # Rsp(b)

AlwaysAnswered == \A b \in Buses : Requested(b) ~> cur = Rsp(b)

(* A request that the handler has taken is answered, also when it is       *)
(* turned down, when its bus is wedged, and when runs are lost on the way; *)
(* one that is ignored finds the slot in use, so the same holds for it.    *)
(* No slot stays taken: it would have to be answered again and again.      *)
TakenIsAnswered == \A b \in Buses : inuse[b] ~> cur = Rsp(b)

----------------------------------------------------------------------------
(* What README.md says and the code does not do.                           *)

(* A result carries the address of the device its request targeted.        *)
ResultNamesTarget ==
    \A b \in Buses : InQueue(Rsp(b)) => hdr[b].addr = ask[b].addr
=============================================================================

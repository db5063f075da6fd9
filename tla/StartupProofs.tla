---------------------------- MODULE StartupProofs ----------------------------
(***************************************************************************)
(* That nothing is used before it is set up, and that the threads keep to  *)
(* the rules of the list, for any number of links.                         *)
(*                                                                         *)
(* A program is put together with \o; what is known of its parts (Part) is *)
(* joined the same way.  The invariant then only says that what a thread   *)
(* has passed is made.                                                     *)
(***************************************************************************)
EXTENDS Startup, SequenceTheorems, TLAPS

(***************************************************************************)
(* The list.  Each operation takes a ring to the ring of the sequence it   *)
(* should, so that the ring is an invariant of every user that keeps to    *)
(* DListSpec, for any number of links.                                     *)
(***************************************************************************)

LEMMA NodeInNodes ==
    ASSUME NEW q \in Seq(Links), NEW k
    PROVE  Node(q, k) \in Nodes
BY DEF Node, Nodes

(* dlist_init makes the ring of no link.                                   *)
LEMMA InitMakesRing ==
    ASSUME NEW m \in Memory
    PROVE  dlist_init(m) \in Memory /\ IsRing(dlist_init(m), <<>>)
<1> DEFINE n == dlist_init(m)
           q == <<>>
<1>1. n \in Memory /\ n.next[List] = List /\ n.prev[List] = List
  BY DEF Memory, dlist_init, Nodes
<1>2. Len(q) = 0 /\ DOMAIN q = {}
  OBVIOUS
<1>3. \A k : Node(q, k) = List
  BY <1>2 DEF Node
<1>4. QED
  BY <1>1, <1>2, <1>3 DEF IsRing

(* A link that is initialised, or scribbled over, is not in the ring.      *)
LEMMA HeadOfOther ==
    ASSUME NEW m \in Memory, NEW q \in Seq(Links), IsRing(m, q),
           NEW l \in Links, \A k \in DOMAIN q : q[k] # l, NEW h \in {NULL, List}
    PROVE  /\ [m EXCEPT !.head[l] = h] \in Memory
           /\ IsRing([m EXCEPT !.head[l] = h], q)
<1> DEFINE n == [m EXCEPT !.head[l] = h]
<1>1. n \in Memory /\ n.next = m.next /\ n.prev = m.prev
  BY DEF Memory
<1>2. ASSUME NEW k \in DOMAIN q PROVE n.head[q[k]] = m.head[q[k]]
  BY DEF Memory
<1>3. QED
  BY <1>1, <1>2 DEF IsRing

(* dlist_add_tail makes the ring of the sequence with the link appended.   *)
LEMMA AddTailAppends ==
    ASSUME NEW m \in Memory, NEW q \in Seq(Links), IsRing(m, q),
           NEW l \in Links, \A k \in DOMAIN q : q[k] # l
    PROVE  /\ dlist_add_tail(m, l) \in Memory
           /\ IsRing(dlist_add_tail(m, l), Append(q, l))
<1> DEFINE n == dlist_add_tail(m, l)
           r == Append(q, l)
           p == m.prev[List]
<1>1. p = Node(q, Len(q)) /\ p \in Nodes /\ p # l
  <2>1. m.prev[Node(q, Len(q) + 1)] = Node(q, Len(q))
    BY DEF IsRing
  <2>2. Node(q, Len(q) + 1) = List
    BY DEF Node
  <2>3. QED
    BY <2>1, <2>2, NodeInNodes, DListAssumption DEF Node, Nodes
<1>2. n \in Memory
  BY <1>1 DEF Memory, dlist_add_tail, Nodes
<1>3. /\ \A x \in Nodes : n.next[x] = IF x = p THEN l ELSE IF x = l THEN List ELSE m.next[x]
      /\ \A x \in Nodes : n.prev[x] = IF x = List THEN l ELSE IF x = l THEN p ELSE m.prev[x]
      /\ \A x \in Links : n.head[x] = IF x = l THEN List ELSE m.head[x]
  BY <1>1, DListAssumption DEF Memory, dlist_add_tail, Nodes
<1>4. /\ r \in Seq(Links) /\ Len(r) = Len(q) + 1 /\ DOMAIN r = 1..(Len(q) + 1)
      /\ DOMAIN q = 1..Len(q) /\ Len(q) \in Nat
      /\ \A k \in DOMAIN q : r[k] = q[k]
      /\ r[Len(q) + 1] = l
  OBVIOUS
<1>5. /\ \A k \in 0..Len(q) : Node(r, k) = Node(q, k) /\ Node(q, k) # l
      /\ Node(r, Len(q) + 1) = l /\ Node(r, Len(q) + 2) = List
  BY <1>4, DListAssumption DEF Node, Nodes
<1>6. \A j, k \in DOMAIN r : r[j] = r[k] => j = k
  BY <1>4 DEF IsRing
<1>7. \A j, k \in 0..Len(q) : Node(q, j) = Node(q, k) => j = k
  BY <1>4, DListAssumption DEF IsRing, Node, Nodes
<1>8. ASSUME NEW k \in 0..Len(r)
      PROVE  n.next[Node(r, k)] = Node(r, k + 1) /\ n.prev[Node(r, k + 1)] = Node(r, k)
  <2>1. CASE k < Len(q)
    <3>1. k \in 0..Len(q) /\ k + 1 \in 0..Len(q) /\ k + 1 \in DOMAIN q
      BY <2>1, <1>4
    <3>2. Node(q, k) # p /\ Node(q, k) # l /\ Node(q, k + 1) # l /\ Node(q, k + 1) # List
      BY <3>1, <2>1, <1>1, <1>5, <1>7, DListAssumption DEF Node, Nodes
    <3>3. m.next[Node(q, k)] = Node(q, k + 1) /\ m.prev[Node(q, k + 1)] = Node(q, k)
      BY <3>1 DEF IsRing
    <3>4. QED
      BY <3>1, <3>2, <3>3, <1>3, <1>5, NodeInNodes
  <2>2. CASE k = Len(q)
    <3>1. Node(r, k) = p /\ Node(r, k + 1) = l
      BY <2>2, <1>1, <1>5
    <3>2. QED
      BY <3>1, <1>1, <1>3, DListAssumption DEF Nodes
  <2>3. CASE k = Len(q) + 1
    <3>1. Node(r, k) = l /\ Node(r, k + 1) = List
      BY <2>3, <1>5
    <3>2. QED
      BY <3>1, <1>1, <1>3, DListAssumption DEF Nodes
  <2>4. k < Len(q) \/ k = Len(q) \/ k = Len(q) + 1
    <3>1. Len(q) \in Nat /\ k \in 0..(Len(q) + 1)
      BY <1>4
    <3>2. QED
      BY <3>1
  <2>5. QED
    BY <2>1, <2>2, <2>3, <2>4
<1>9. \A k \in DOMAIN r : n.head[r[k]] = List
  BY <1>3, <1>4 DEF IsRing
<1>10. QED
  BY <1>2, <1>6, <1>8, <1>9 DEF IsRing

(* dlist_get_head gives the first link of the ring, or NULL.               *)
LEMMA GetHeadIsFirst ==
    ASSUME NEW m \in Memory, NEW q \in Seq(Links), IsRing(m, q)
    PROVE  dlist_get_head(m) = IF q = <<>> THEN NULL ELSE q[1]
<1>1. m.next[List] = Node(q, 1)
  BY DEF IsRing, Node
<1>2. CASE q = <<>>
  BY <1>1, <1>2 DEF Node, dlist_get_head, dlist_empty
<1>3. CASE q # <<>>
  <2>1. 1 \in DOMAIN q /\ q[1] \in Links
    BY <1>3
  <2>2. QED
    BY <1>1, <1>3, <2>1, DListAssumption DEF Node, dlist_get_head, dlist_empty, Nodes
<1>4. QED
  BY <1>2, <1>3

(* dlist_remove_link of the head makes the ring of the rest.               *)
LEMMA RemoveHeadIsTail ==
    ASSUME NEW m \in Memory, NEW q \in Seq(Links), IsRing(m, q), q # <<>>
    PROVE  /\ dlist_remove_link(m, q[1]) \in Memory
           /\ IsRing(dlist_remove_link(m, q[1]), Tail(q))
<1> DEFINE n == dlist_remove_link(m, q[1])
           r == Tail(q)
           s == Node(q, 2)
<1>1. /\ 1 \in DOMAIN q /\ q[1] \in Links /\ DOMAIN q = 1..Len(q) /\ Len(q) \in Nat \ {0}
      /\ r \in Seq(Links) /\ Len(r) = Len(q) - 1 /\ DOMAIN r = 1..(Len(q) - 1)
      /\ \A k \in DOMAIN r : r[k] = q[k + 1]
  OBVIOUS
<1>2. m.next[q[1]] = s /\ m.prev[q[1]] = List
  <2>1. m.next[Node(q, 1)] = Node(q, 2)
    BY <1>1 DEF IsRing
  <2>2. m.prev[Node(q, 1)] = Node(q, 0)
    BY <1>1 DEF IsRing
  <2>3. QED
    BY <1>1, <2>1, <2>2 DEF Node
<1>3. s \in Nodes /\ List \in Nodes /\ q[1] \in Nodes
  BY <1>1, NodeInNodes DEF Nodes
<1>4. n \in Memory
  BY <1>1, <1>2, <1>3 DEF Memory, dlist_remove_link
<1>5. /\ \A x \in Nodes : n.next[x] = IF x = List THEN s ELSE m.next[x]
      /\ \A x \in Nodes : n.prev[x] = IF x = s THEN List ELSE m.prev[x]
      /\ \A x \in Links : n.head[x] = IF x = q[1] THEN NULL ELSE m.head[x]
  BY <1>1, <1>2, <1>3 DEF Memory, dlist_remove_link
<1>6. /\ Node(r, 0) = List
      /\ \A k \in 1..Len(q) : Node(r, k) = Node(q, k + 1)
  BY <1>1 DEF Node
<1>7. \A j, k \in DOMAIN r : r[j] = r[k] => j = k
  <2>1. \A k \in DOMAIN r : k + 1 \in DOMAIN q
    BY <1>1
  <2>2. QED
    BY <1>1, <2>1 DEF IsRing
<1>8. ASSUME NEW k \in 0..Len(r)
      PROVE  n.next[Node(r, k)] = Node(r, k + 1) /\ n.prev[Node(r, k + 1)] = Node(r, k)
  <2>1. CASE k = 0
    <3>1. Node(r, k) = List /\ Node(r, k + 1) = s
      BY <2>1, <1>1, <1>6
    <3>2. QED
      BY <3>1, <1>3, <1>5
  <2>2. CASE k # 0
    <3>1. k \in 1..Len(q) /\ k + 1 \in 1..Len(q) /\ k + 1 \in DOMAIN q
      BY <2>2, <1>1
    <3>2. Node(r, k) = Node(q, k + 1) /\ Node(r, k + 1) = Node(q, k + 2)
      <4>1. (k + 1) + 1 = k + 2
        BY <3>1
      <4>2. QED
        BY <3>1, <4>1, <1>6
    <3>3. m.next[Node(q, k + 1)] = Node(q, k + 2) /\ m.prev[Node(q, k + 2)] = Node(q, k + 1)
      <4>1. k + 1 \in 0..Len(q) /\ (k + 1) + 1 = k + 2
        BY <3>1, <1>1
      <4>2. QED
        BY <4>1 DEF IsRing
    <3>4. Node(q, k + 1) # List
      BY <3>1, <1>1, DListAssumption DEF Node, Nodes
    <3>5. Node(q, k + 2) # s
      <4>1. CASE k + 2 \in DOMAIN q
        <5>1. Node(q, k + 2) = q[k + 2] /\ 2 \in DOMAIN q /\ s = q[2] /\ k + 2 # 2
          BY <4>1, <3>1, <1>1, <2>2 DEF Node
        <5>2. QED
          BY <5>1, <4>1 DEF IsRing
      <4>2. CASE k + 2 \notin DOMAIN q
        <5>1. Node(q, k + 2) = List /\ 2 \in DOMAIN q /\ s = q[2]
          BY <4>2, <3>1, <2>2, <1>1 DEF Node
        <5>2. QED
          BY <5>1, <1>1, DListAssumption DEF Nodes
      <4>3. QED
        BY <4>1, <4>2
    <3>6. QED
      BY <3>2, <3>3, <3>4, <3>5, <1>5, NodeInNodes
  <2>3. QED
    BY <2>1, <2>2
<1>9. \A k \in DOMAIN r : n.head[r[k]] = List
  <2>1. ASSUME NEW k \in DOMAIN r
        PROVE  k + 1 \in DOMAIN q /\ r[k] = q[k + 1] /\ q[k + 1] # q[1] /\ q[k + 1] \in Links
    BY <1>1 DEF IsRing
  <2>2. QED
    BY <2>1, <1>5 DEF IsRing
<1>10. QED
  BY <1>4, <1>7, <1>8, <1>9 DEF IsRing

----------------------------------------------------------------------------
(* QueueIsRing is not inductive: it says nothing of the links outside the  *)
(* list, that those made ready say so in the field head, nor of what sent  *)
(* holds before the list is initialised.                                   *)
DListInv ==
    /\ mem \in Memory /\ listed \in BOOLEAN
    /\ ready \subseteq Links /\ sent \in Seq(Links)
    /\ listed => IsRing(mem, sent)
    /\ ~listed => sent = <<>>
    /\ \A l \in ready : ~InList(l) => mem.head[l] = NULL
    /\ \A k \in DOMAIN sent : sent[k] \in ready

LEMMA InitEstablishes == DListInit => DListInv
<1> SUFFICES ASSUME DListInit PROVE DListInv
  OBVIOUS
<1>1. DOMAIN sent = {} /\ sent \in Seq(Links)
  BY DEF DListInit
<1>2. QED
  BY <1>1 DEF DListInit, DListInv

LEMMA StepPreserves == DListInv /\ [DListNext]_listVars => DListInv'
<1> SUFFICES ASSUME DListInv, [DListNext]_listVars PROVE DListInv'
  OBVIOUS
<1> USE DEF DListInv
<1>1. ASSUME ~listed, InitList PROVE DListInv'
  <2>1. /\ mem' = dlist_init(mem) /\ listed' = TRUE
        /\ sent' = <<>> /\ ready' = ready /\ sent' = sent
    BY <1>1 DEF InitList
  <2>2. mem' \in Memory /\ IsRing(mem', sent')
    BY <2>1, InitMakesRing
  <2>3. mem'.head = mem.head
    BY <2>1 DEF dlist_init, Memory
  <2>4. QED
    BY <2>1, <2>2, <2>3 DEF InList
<1>2. ASSUME NEW l \in Links, ~InList(l), NEW h \in {NULL, List},
             mem' = [mem EXCEPT !.head[l] = h], UNCHANGED <<listed, sent>>,
             \/ h = NULL /\ ready' = ready \cup {l}
             \/ ready' = ready \ {l}
      PROVE  DListInv'
  <2>1. \A k \in DOMAIN sent : sent[k] # l
    BY <1>2 DEF InList
  <2>2. mem' \in Memory
    BY <1>2 DEF Memory
  <2>3. listed' => IsRing(mem', sent')
    BY <1>2, <2>1, HeadOfOther
  <2>4. \A x \in Links : mem'.head[x] = IF x = l THEN h ELSE mem.head[x]
    BY <1>2 DEF Memory
  <2>5. \A x \in ready' : ~InList(x)' => mem'.head[x] = NULL
    BY <1>2, <2>4 DEF InList
  <2>6. \A k \in DOMAIN sent' : sent'[k] \in ready'
    BY <1>2, <2>1
  <2>7. QED
    BY <1>2, <2>2, <2>3, <2>5, <2>6
<1>3. ASSUME NEW l \in Links, listed, l \in ready, ~InList(l), Add(l) PROVE DListInv'
  <2>1. /\ mem' = dlist_add_tail(mem, l) /\ sent' = Append(sent, l)
        /\ listed' = listed /\ ready' = ready
    BY <1>3 DEF Add
  <2>2. mem' \in Memory /\ IsRing(mem', sent')
    BY <1>3, <2>1, AddTailAppends DEF InList
  <2>3. \A x \in Links : x # l => mem'.head[x] = mem.head[x]
    BY <2>1 DEF dlist_add_tail, Memory
  <2>4. /\ sent' \in Seq(Links) /\ DOMAIN sent = 1..Len(sent)
        /\ DOMAIN sent' = 1..(Len(sent) + 1)
        /\ \A k \in DOMAIN sent : k \in DOMAIN sent' /\ sent'[k] = sent[k]
        /\ Len(sent) + 1 \in DOMAIN sent' /\ sent'[Len(sent) + 1] = l
    BY <2>1
  <2>5. \A x \in ready' : ~InList(x)' => mem'.head[x] = NULL
    BY <2>1, <2>3, <2>4 DEF InList
  <2>6. \A k \in DOMAIN sent' : sent'[k] \in ready'
    BY <1>3, <2>1, <2>4
  <2>7. QED
    BY <1>3, <2>1, <2>2, <2>4, <2>5, <2>6
<1>4. ASSUME listed, RemoveHead PROVE DListInv'
  <2>1. dlist_get_head(mem) # NULL /\ sent # <<>> /\ dlist_get_head(mem) = sent[1]
    BY <1>4, GetHeadIsFirst DEF RemoveHead
  <2>2. /\ mem' = dlist_remove_link(mem, sent[1]) /\ sent' = Tail(sent)
        /\ listed' = listed /\ ready' = ready
    BY <1>4, <2>1 DEF RemoveHead
  <2>3. mem' \in Memory /\ IsRing(mem', sent')
    BY <1>4, <2>1, <2>2, RemoveHeadIsTail
  <2>4. \A x \in Links : mem'.head[x] = IF x = sent[1] THEN NULL ELSE mem.head[x]
    BY <2>2 DEF dlist_remove_link, Memory
  <2>5. /\ sent' \in Seq(Links) /\ DOMAIN sent = 1..Len(sent)
        /\ DOMAIN sent' = 1..(Len(sent) - 1) /\ Len(sent) \in Nat \ {0}
        /\ \A k \in DOMAIN sent' : sent'[k] = sent[k + 1]
    BY <2>1, <2>2
  <2>6. \A x \in ready' : ~InList(x)' => mem'.head[x] = NULL
    <3> SUFFICES ASSUME NEW x \in ready', ~InList(x)', x # sent[1]
                 PROVE  mem.head[x] = NULL
      BY <2>2, <2>4
    <3>1. ASSUME NEW k \in DOMAIN sent, sent[k] = x PROVE FALSE
      <4>1. k # 1 /\ k - 1 \in DOMAIN sent' /\ (k - 1) + 1 = k
        BY <3>1, <2>5
      <4>2. sent'[k - 1] = x
        BY <3>1, <4>1, <2>5
      <4>3. QED
        BY <4>1, <4>2 DEF InList
    <3>2. QED
      BY <3>1, <2>2 DEF InList
  <2>7. \A k \in DOMAIN sent' : sent'[k] \in ready'
    <3>1. \A k \in DOMAIN sent' : k + 1 \in DOMAIN sent
      BY <2>5
    <3>2. QED
      BY <3>1, <2>2, <2>5
  <2>8. QED
    BY <1>4, <2>2, <2>3, <2>5, <2>6, <2>7
<1>5. ASSUME UNCHANGED listVars PROVE DListInv'
  BY <1>5 DEF listVars, InList
<1>6. ASSUME NEW l \in Links, ~InList(l), InitLink(l) \/ Overwrite(l) PROVE DListInv'
  <2>1. CASE InitLink(l)
    <3>1. mem' = [mem EXCEPT !.head[l] = NULL] /\ UNCHANGED <<listed, sent>>
      BY <2>1 DEF InitLink, dlist_link_init
    <3>2. ready' = ready \cup {l}
      BY <2>1 DEF InitLink
    <3>3. QED
      BY <3>1, <3>2, <1>6, <1>2
  <2>2. CASE Overwrite(l)
    BY <2>2, <1>6, <1>2 DEF Overwrite
  <2>3. QED
    BY <1>6, <2>1, <2>2
<1>7. QED
  BY <1>1, <1>3, <1>4, <1>5, <1>6 DEF DListNext

(* The inductive invariant of src/list.h under users that keep the rules.  *)
THEOREM DListInvariant == DListSpec => []DListInv
<1>1. QED
  BY InitEstablishes, StepPreserves, PTL DEF DListSpec

(* The pointers of the list are the ring of what was sent and not yet      *)
(* removed, and none of the checks of DEBUG_DLIST stops a user, with any   *)
(* number of messages.                                                     *)
THEOREM RingIsInvariant == DListSpec => []QueueIsRing
<1>1. DListInv => QueueIsRing
  <2> SUFFICES ASSUME DListInv, listed PROVE
        /\ IsRing(mem, sent)
        /\ dlist_get_head(mem) = (IF sent = <<>> THEN NULL ELSE Head(sent))
        /\ \A l \in ready : CanAdd(mem, l) <=> ~InList(l)
    BY DEF QueueIsRing
  <2>1. mem \in Memory /\ sent \in Seq(Links) /\ IsRing(mem, sent)
    BY DEF DListInv
  <2>2. dlist_get_head(mem) = (IF sent = <<>> THEN NULL ELSE Head(sent))
    BY <2>1, GetHeadIsFirst
  <2>3. \A l \in ready : CanAdd(mem, l) <=> ~InList(l)
    BY <2>1, DListAssumption DEF DListInv, IsRing, InList, CanAdd, Nodes
  <2>4. QED
    BY <2>1, <2>2, <2>3
<1>2. QED
  BY <1>1, DListInvariant, PTL

(***************************************************************************)
(* The programs of the threads.                                            *)
(***************************************************************************)

Things == Names \cup Nodes

Statements == [makes : SUBSET Things, needs : SUBSET Things, awaits : SUBSET Things,
               starts : SUBSET Threads, mayFail : BOOLEAN, says : SUBSET Things]

(* What a thread finds when it is created, the loops of which run after    *)
(* mainThread has made all that comes before the calls that start them.    *)
Ready == SlotLinks \cup Pins \cup
    {List, "power", "sysosc", "GPIO", "I2C", "SPI", "command_handler", "Display",
     "display", "wake", "i2c_handles", "i2c_sem", "recv_handler", "queue_sem",
     "CS_sem", "SPI_done_sem", "i2c_done_sem", "spi_done_sem", "adc_done_sem"}

Base(t) ==
    IF t = "main" THEN {} ELSE IF t = "mainThread" THEN {"power", "sysosc"} ELSE Ready

(* What happens once: the list is made, a thread is created.               *)
Once == Threads \cup {List}

Wants(s) == s.needs \cup s.says \cup UNION {Base(t) : t \in s.starts}

Events(s) == s.makes \cup s.starts

(* The statements of P, run with base made, find what they want; they make *)
(* M and start S, what happens once in one place, and the list is made     *)
(* after the links.                                                        *)
Part(P, base, M, S) ==
    /\ P \in Seq(Statements)
    /\ \A i \in DOMAIN P : \A x \in Wants(P[i]) :
          x \in base \/ \E j \in DOMAIN P : j < i /\ x \in P[j].makes
    /\ \A i \in DOMAIN P : P[i].makes \subseteq M /\ P[i].starts \subseteq S
    /\ \A x \in M : \E i \in DOMAIN P : x \in P[i].makes
    /\ \A i, j \in DOMAIN P : \A x \in Once :
          x \in Events(P[i]) /\ x \in Events(P[j]) => i = j
    /\ \A i, j \in DOMAIN P :
          List \in P[i].makes /\ P[j].makes \cap Links # {} => j < i

(* The indices of P \o Q.                                                  *)
LEMMA IndexOfConcat ==
    ASSUME NEW P \in Seq(Statements), NEW Q \in Seq(Statements)
    PROVE  /\ P \o Q \in Seq(Statements)
           /\ \A i \in DOMAIN P : i \in DOMAIN (P \o Q) /\ (P \o Q)[i] = P[i]
           /\ \A i \in DOMAIN Q : /\ i + Len(P) \in DOMAIN (P \o Q)
                                  /\ (P \o Q)[i + Len(P)] = Q[i]
           /\ \A k \in DOMAIN (P \o Q) : 
                k \in DOMAIN P \/ \E i \in DOMAIN Q : k = i + Len(P)
           /\ \A i \in DOMAIN P : i \in Int /\ i <= Len(P)
           /\ \A i \in DOMAIN Q : i \in Int /\ i > 0
           /\ Len(P) \in Int
<1>1. /\ P \o Q \in Seq(Statements) /\ DOMAIN (P \o Q) = 1..(Len(P) + Len(Q))
      /\ DOMAIN P = 1..Len(P) /\ DOMAIN Q = 1..Len(Q) /\ Len(P) \in Nat /\ Len(Q) \in Nat
      /\ \A i \in 1..Len(P) : (P \o Q)[i] = P[i]
      /\ \A i \in 1..Len(Q) : (P \o Q)[i + Len(P)] = Q[i]
  OBVIOUS
<1>2. ASSUME NEW k \in DOMAIN (P \o Q), k \notin DOMAIN P
      PROVE  \E i \in DOMAIN Q : k = i + Len(P)
  <2>1. k - Len(P) \in DOMAIN Q /\ k = (k - Len(P)) + Len(P)
    BY <1>1, <1>2
  <2>2. QED
    BY <2>1
<1>3. QED
  BY <1>1, <1>2

LEMMA PartJoin ==
    ASSUME NEW P, NEW Q, NEW base, NEW more, NEW M, NEW N, NEW S, NEW T, NEW MN, NEW ST,
           Part(P, base, M, S), Part(Q, more, N, T),
           more \subseteq base \cup M,
           Once \cap (M \cup S) \cap (N \cup T) = {},
           List \in M => N \cap Links = {},
           MN = M \cup N, ST = S \cup T
    PROVE  Part(P \o Q, base, MN, ST)
<1> DEFINE R == P \o Q
           n == Len(P)
<1>0. P \in Seq(Statements) /\ Q \in Seq(Statements)
  BY DEF Part
<1>1. /\ R \in Seq(Statements)
      /\ \A i \in DOMAIN P : i \in DOMAIN R /\ R[i] = P[i]
      /\ \A i \in DOMAIN Q : i + n \in DOMAIN R /\ R[i + n] = Q[i]
      /\ \A k \in DOMAIN R : k \in DOMAIN P \/ \E i \in DOMAIN Q : k = i + n
      /\ \A i \in DOMAIN P : i \in Int /\ i <= n
      /\ \A i \in DOMAIN Q : i \in Int /\ i > 0
      /\ n \in Int
  BY <1>0, IndexOfConcat
<1> HIDE DEF R, n
<1>2. ASSUME NEW k \in DOMAIN R, NEW x \in Wants(R[k])
      PROVE  x \in base \/ \E j \in DOMAIN R : j < k /\ x \in R[j].makes
  <2>1. CASE k \in DOMAIN P
    <3>1. R[k] = P[k]
      BY <1>1, <2>1
    <3>2. x \in base \/ \E j \in DOMAIN P : j < k /\ x \in P[j].makes
      BY <2>1, <3>1, <1>2 DEF Part
    <3>3. QED
      BY <1>1, <3>2
  <2>2. ASSUME NEW i \in DOMAIN Q, k = i + n
        PROVE  x \in base \/ \E j \in DOMAIN R : j < k /\ x \in R[j].makes
    <3>1. R[k] = Q[i]
      BY <1>1, <2>2
    <3>2. x \in more \/ \E j \in DOMAIN Q : j < i /\ x \in Q[j].makes
      BY <3>1, <1>2 DEF Part
    <3>3. CASE x \in more /\ x \notin base
      <4>1. PICK j \in DOMAIN P : x \in P[j].makes
        BY <3>3 DEF Part
      <4>2. j \in DOMAIN R /\ R[j] = P[j] /\ j < k
        BY <1>1, <2>2
      <4>3. QED
        BY <4>1, <4>2
    <3>4. ASSUME NEW j \in DOMAIN Q, j < i, x \in Q[j].makes
          PROVE  \E m \in DOMAIN R : m < k /\ x \in R[m].makes
      <4>1. j + n \in DOMAIN R /\ R[j + n] = Q[j] /\ j + n < k
        BY <1>1, <2>2, <3>4
      <4>2. QED
        BY <3>4, <4>1
    <3>5. QED
      BY <3>2, <3>3, <3>4
  <2>3. QED
    BY <1>1, <2>1, <2>2
<1>3. ASSUME NEW k \in DOMAIN R
      PROVE  R[k].makes \subseteq MN /\ R[k].starts \subseteq ST
  BY <1>1 DEF Part
<1>4. ASSUME NEW x \in MN PROVE \E i \in DOMAIN R : x \in R[i].makes
  <2>1. CASE x \in M
    BY <1>1, <2>1 DEF Part
  <2>2. CASE x \in N
    BY <1>1, <2>2 DEF Part
  <2>3. QED
    BY <1>4, <2>1, <2>2
<1>5. ASSUME NEW i \in DOMAIN R, NEW j \in DOMAIN R, NEW x \in Once,
             x \in Events(R[i]), x \in Events(R[j])
      PROVE  i = j
  <2>1. ASSUME NEW k \in DOMAIN P, x \in Events(P[k]) PROVE x \in M \cup S
    BY <2>1 DEF Part, Events
  <2>2. ASSUME NEW k \in DOMAIN Q, x \in Events(Q[k]) PROVE x \in N \cup T
    BY <2>2 DEF Part, Events
  <2>3. CASE x \notin N \cup T
    <3>1. i \in DOMAIN P /\ j \in DOMAIN P
      BY <1>1, <1>5, <2>2, <2>3
    <3>2. QED
      BY <1>1, <1>5, <3>1 DEF Part
  <2>4. CASE x \notin M \cup S
    <3>1. PICK a \in DOMAIN Q : i = a + n
      BY <1>1, <1>5, <2>1, <2>4
    <3>2. PICK b \in DOMAIN Q : j = b + n
      BY <1>1, <1>5, <2>1, <2>4
    <3>3. R[i] = Q[a] /\ R[j] = Q[b]
      BY <1>1, <3>1, <3>2
    <3>4. a = b
      BY <1>5, <3>3 DEF Part
    <3>5. QED
      BY <3>1, <3>2, <3>4
  <2>5. QED
    BY <2>3, <2>4
<1>6. ASSUME NEW i \in DOMAIN R, NEW j \in DOMAIN R,
             List \in R[i].makes, R[j].makes \cap Links # {}
      PROVE  j < i
  <2>1. CASE i \in DOMAIN P
    <3>1. R[i] = P[i] /\ List \in M
      BY <1>1, <1>6, <2>1 DEF Part
    <3>2. j \in DOMAIN P
      <4>1. ASSUME NEW b \in DOMAIN Q, j = b + n PROVE FALSE
        <5>1. R[j] = Q[b] /\ Q[b].makes \subseteq N
          BY <1>1, <4>1 DEF Part
        <5>2. QED
          BY <5>1, <3>1, <1>6
      <4>2. QED
        BY <1>1, <4>1
    <3>3. R[j] = P[j]
      BY <1>1, <3>2
    <3>4. QED
      BY <2>1, <3>1, <3>2, <3>3, <1>6 DEF Part
  <2>2. ASSUME NEW a \in DOMAIN Q, i = a + n PROVE j < i
    <3>1. R[i] = Q[a]
      BY <1>1, <2>2
    <3>2. CASE j \in DOMAIN P
      BY <1>1, <2>2, <3>2
    <3>3. ASSUME NEW b \in DOMAIN Q, j = b + n PROVE j < i
      <4>1. R[j] = Q[b]
        BY <1>1, <3>3
      <4>2. b < a
        BY <1>6, <3>1, <4>1 DEF Part
      <4>3. QED
        BY <1>1, <2>2, <3>3, <4>2
    <3>4. QED
      BY <1>1, <3>2, <3>3
  <2>3. QED
    BY <1>1, <2>1, <2>2
<1>7. Part(R, base, MN, ST)
  BY <1>1, <1>2, <1>3, <1>4, <1>5, <1>6 DEF Part
<1>8. QED
  BY <1>7 DEF R

LEMMA PartMono ==
    ASSUME NEW P, NEW base, NEW more, NEW M, NEW S, Part(P, base, M, S),
           base \subseteq more
    PROVE  Part(P, more, M, S)
BY DEF Part

LEMMA PartOne ==
    ASSUME NEW s \in Statements, List \in s.makes => s.makes \cap Links = {}
    PROVE  Part(<<s>>, Wants(s), s.makes, s.starts)
<1> DEFINE P == <<s>>
<1>1. P \in Seq(Statements) /\ DOMAIN P = {1} /\ P[1] = s
  OBVIOUS
<1> HIDE DEF P
<1>2. Part(P, Wants(s), s.makes, s.starts)
  BY <1>1 DEF Part
<1>3. QED
  BY <1>2 DEF P

LEMMA PartNone == Part(<<>>, {}, {}, {})
<1> DEFINE P == <<>>
<1>1. P \in Seq(Statements) /\ DOMAIN P = {}
  OBVIOUS
<1> HIDE DEF P
<1>2. Part(P, {}, {}, {})
  BY <1>1 DEF Part
<1>3. QED
  BY <1>2 DEF P

LEMMA PartDo ==
    ASSUME NEW m \in SUBSET Things, NEW n \in SUBSET Things,
           List \in m => m \cap Links = {}
    PROVE  Part(Do(m, n), n, m, {})
<1>1. /\ Statement(m, n) \in Statements /\ Statement(m, n).makes = m
      /\ Statement(m, n).starts = {} /\ Wants(Statement(m, n)) = n
  BY DEF Statement, Statements, Wants
<1>2. QED
  BY <1>1, PartOne DEF Do

LEMMA PartTry ==
    ASSUME NEW m \in SUBSET Things, NEW n \in SUBSET Things,
           List \in m => m \cap Links = {}
    PROVE  Part(Try(m, n), n, m, {})
<1> DEFINE s == [Statement(m, n) EXCEPT !.mayFail = TRUE]
<1>1. s \in Statements /\ s.makes = m /\ s.starts = {} /\ Wants(s) = n
  BY DEF Statement, Statements, Wants
<1>2. QED
  BY <1>1, PartOne DEF Try

LEMMA PartTrySay ==
    ASSUME NEW m \in SUBSET Things, NEW n \in SUBSET Things,
           List \in m => m \cap Links = {}
    PROVE  Part(TrySay(m, n), n \cup {"display"}, m, {})
<1> DEFINE s == [Statement(m, n) EXCEPT !.mayFail = TRUE, !.says = {"display"}]
<1>1. "display" \in Things
  BY DEF Things, Names
<1>2. s \in Statements /\ s.makes = m /\ s.starts = {} /\ Wants(s) = n \cup {"display"}
  BY <1>1 DEF Statement, Statements, Wants
<1>3. QED
  BY <1>2, PartOne DEF TrySay

LEMMA PartAwait ==
    ASSUME NEW x \in Things
    PROVE  Part(Await(x), {}, {}, {})
<1> DEFINE s == [Statement({}, {}) EXCEPT !.awaits = {x}]
<1>1. s \in Statements /\ s.makes = {} /\ s.starts = {} /\ Wants(s) = {}
  BY DEF Statement, Statements, Wants
<1>2. QED
  BY <1>1, PartOne DEF Await

LEMMA PartStart ==
    ASSUME NEW t \in Threads
    PROVE  Part(Start(t), Base(t), {}, {t})
<1> DEFINE s == [Statement({}, {}) EXCEPT !.mayFail = TRUE, !.starts = {t}]
<1>1. s \in Statements /\ s.makes = {} /\ s.starts = {t} /\ Wants(s) = Base(t)
  BY DEF Statement, Statements, Wants
<1>2. QED
  BY <1>1, PartOne DEF Start

----------------------------------------------------------------------------
(* The programs.                                                           *)

Plain == Names \ Threads

LEMMA PlainFacts ==
    /\ Plain \in SUBSET Things /\ Plain \cap Once = {} /\ Plain \cap Nodes = {}
    /\ List \notin Plain /\ List \notin Threads /\ List \notin Links
    /\ Threads \cap Nodes = {} /\ Links \cap Once = {}
    /\ SlotLinks \subseteq Links /\ AdcMsg \in Links /\ ConMsg \in Links
    /\ Values \subseteq Links /\ Pins \subseteq Plain
BY StartupAssumption, DListAssumption
   DEF Plain, Things, Once, Nodes, Names, Threads, Pins

LEMMA JoinPlain ==
    ASSUME NEW P, NEW Q, NEW base, NEW more, NEW M, NEW S, NEW N,
           Part(P, base, M, S), Part(Q, more, N, {}),
           N \in SUBSET Plain, more \subseteq base \cup M
    PROVE  Part(P \o Q, base, M \cup N, S)
<1>1. Once \cap (M \cup S) \cap (N \cup {}) = {} /\ N \cap Links = {} /\ S = S \cup {}
  BY PlainFacts DEF Nodes
<1> DEFINE MN == M \cup N
<1>2. MN = M \cup N
  OBVIOUS
<1> HIDE DEF MN
<1>3. Part(P \o Q, base, MN, S)
  BY <1>1, <1>2, PartJoin
<1>4. QED
  BY <1>2, <1>3

LEMMA PlainDo ==
    ASSUME NEW m \in SUBSET Plain, NEW n \in SUBSET Plain
    PROVE  Part(Do(m, n), n, m, {}) /\ Part(Try(m, n), n, m, {})
<1>1. m \in SUBSET Things /\ n \in SUBSET Things /\ List \notin m
  BY PlainFacts
<1>2. QED
  BY <1>1, PartDo, PartTry

LEMMA PlainSem ==
    ASSUME NEW s \in Plain
    PROVE  Part(sem_init(s), {"display"}, {s}, {})
<1>1. {s} \in SUBSET Things /\ {} \in SUBSET Things /\ List \notin {s}
  BY PlainFacts
<1>2. Part(TrySay({s}, {}), {} \cup {"display"}, {s}, {})
  BY <1>1, PartTrySay
<1>3. {} \cup {"display"} = {"display"}
  OBVIOUS
<1>4. QED
  BY <1>2, <1>3 DEF sem_init

LEMMA PartSyscfg == Part(SYSCFG_DL_init, {}, {"power", "sysosc"}, {})
<1>0. {"power"} \in SUBSET Plain /\ {"sysosc"} \in SUBSET Plain /\ "LFOSC" \in Things
  BY DEF Plain, Names, Threads, Things
<1> DEFINE A == Do({"power"}, {})
           B == Do({"sysosc"}, {"power"})
           C == Await("LFOSC")
<1>1. Part(A, {}, {"power"}, {}) /\ Part(B, {"power"}, {"sysosc"}, {}) /\ Part(C, {}, {}, {})
  BY <1>0, PlainDo, PartAwait
<1> HIDE DEF A, B, C
<1>2. Part(A \o B, {}, {"power"} \cup {"sysosc"}, {})
  BY <1>0, <1>1, JoinPlain
<1>3. Part(A \o B \o C, {}, {"power"} \cup {"sysosc"} \cup {}, {})
  BY <1>1, <1>2, JoinPlain
<1>4. {"power"} \cup {"sysosc"} \cup {} = {"power", "sysosc"}
  OBVIOUS
<1>5. QED
  BY <1>3, <1>4 DEF SYSCFG_DL_init, A, B, C

LEMMA PartMain ==
    Part(main, {}, {"power", "sysosc", "scheduler"}, {"mainThread"})
<1>0. {"power", "sysosc"} \in SUBSET Plain /\ {"scheduler"} \in SUBSET Plain
      /\ {"sysosc"} \in SUBSET Plain /\ "mainThread" \in Threads
      /\ Base("mainThread") = {"power", "sysosc"}
  BY DEF Plain, Names, Threads, Base
<1> DEFINE A == SYSCFG_DL_init
           B == set_attrs
           C == Start("mainThread")
           D == Try({"scheduler"}, {"sysosc"})
           PS == {"power", "sysosc"}
<1>1. Part(A, {}, PS, {}) /\ Part(B, {}, {}, {}) /\ Part(C, PS, {}, {"mainThread"})
      /\ Part(D, {"sysosc"}, {"scheduler"}, {})
  BY <1>0, PartSyscfg, PlainDo, PartStart DEF set_attrs
<1>p. PS \subseteq {} \cup PS /\ Once \cap PS = {} /\ List \notin PS
      /\ {"sysosc"} \subseteq {} \cup PS
  BY <1>0, PlainFacts
<1> HIDE DEF A, B, C, D, PS
<1>2. Part(A \o B, {}, PS \cup {}, {})
  BY <1>1, JoinPlain
<1>3. PS \cup {} = PS
  OBVIOUS
<1>4. Part(A \o B, {}, PS, {})
  BY <1>2, <1>3
<1>5. Part(A \o B \o C, {}, PS, {"mainThread"})
  <2>1. /\ Once \cap (PS \cup {}) \cap ({} \cup {"mainThread"}) = {}
        /\ PS = PS \cup {} /\ {"mainThread"} = {} \cup {"mainThread"}
    BY <1>p
  <2>2. QED
    BY <2>1, <1>1, <1>4, <1>p, PartJoin
<1>6. Part(A \o B \o C \o D, {}, PS \cup {"scheduler"}, {"mainThread"})
  BY <1>0, <1>1, <1>5, <1>p, JoinPlain
<1>7. PS \cup {"scheduler"} = {"power", "sysosc", "scheduler"}
  BY DEF PS
<1>8. QED
  BY <1>6, <1>7 DEF main, A, B, C, D

LEMMA PartSlots == Part(init_slots, {}, SlotLinks, {})
<1>1. /\ DOMAIN Slots = 1..Len(Slots) /\ Len(Slots) \in Nat
      /\ \A i \in DOMAIN Slots : Slots[i] \in Links
  BY StartupAssumption
<1>2. ASSUME NEW l \in Links
      PROVE  /\ Statement({l}, {}) \in Statements /\ Statement({l}, {}).makes = {l}
             /\ Statement({l}, {}).starts = {} /\ Wants(Statement({l}, {})) = {}
             /\ List \notin {l} /\ {l} \cap Once = {}
  BY <1>2, PlainFacts DEF Statement, Statements, Wants, Things, Nodes
<1>3. /\ DOMAIN init_slots = DOMAIN Slots
      /\ \A i \in DOMAIN Slots : init_slots[i] = Statement({Slots[i]}, {})
  BY DEF init_slots
<1>4. init_slots \in Seq(Statements)
  <2>1. init_slots \in [1..Len(Slots) -> Statements]
    BY <1>1, <1>2 DEF init_slots
  <2>2. QED
    BY <1>1, <2>1
<1>5. \A i \in DOMAIN init_slots :
         /\ Wants(init_slots[i]) = {} /\ init_slots[i].makes = {Slots[i]}
         /\ init_slots[i].starts = {} /\ Slots[i] \in SlotLinks
         /\ List \notin {Slots[i]} /\ {Slots[i]} \cap Once = {}
  BY <1>1, <1>2, <1>3 DEF SlotLinks
<1>6. \A x \in SlotLinks : \E i \in DOMAIN init_slots : x \in init_slots[i].makes
  BY <1>3, <1>5 DEF SlotLinks
<1>7. QED
  BY <1>4, <1>5, <1>6 DEF Part, Events

LEMMA PartConsole ==
    Part(console_init, {"power", "sysosc"}, {"command_handler", "Display", "display"}, {})
<1>0. /\ {"command_handler"} \in SUBSET Plain /\ {"Display"} \in SUBSET Plain
      /\ {"display"} \in SUBSET Plain /\ {"Display", "power", "sysosc"} \in SUBSET Plain
      /\ {"Display", "power", "sysosc"}
             \subseteq {"power", "sysosc"} \cup ({"command_handler"} \cup {"Display"})
  BY DEF Plain, Names, Threads
<1> DEFINE A == Do({"command_handler"}, {})
           B == Do({"Display"}, {})
           C == Try({"display"}, {"Display", "power", "sysosc"})
           E == {"power", "sysosc"}
<1>1. /\ Part(A, {}, {"command_handler"}, {}) /\ Part(B, {}, {"Display"}, {})
      /\ Part(C, {"Display", "power", "sysosc"}, {"display"}, {})
  BY <1>0, PlainDo
<1>2. Part(A, E, {"command_handler"}, {})
  BY <1>1, PartMono
<1> HIDE DEF A, B, C
<1>3. Part(A \o B, E, {"command_handler"} \cup {"Display"}, {})
  BY <1>0, <1>1, <1>2, JoinPlain
<1>4. Part(A \o B \o C, E, {"command_handler"} \cup {"Display"} \cup {"display"}, {})
  BY <1>0, <1>1, <1>3, JoinPlain
<1>5. {"command_handler"} \cup {"Display"} \cup {"display"} = {"command_handler", "Display", "display"}
  OBVIOUS
<1>6. QED
  BY <1>4, <1>5 DEF console_init, A, B, C

LEMMA PartI2c ==
    Part(i2c_init, {"power", "sysosc"}, {"I2C", "i2c_handles", "i2c_sem"}, {})
<1>0. /\ {"I2C"} \in SUBSET Plain /\ {"i2c_handles"} \in SUBSET Plain
      /\ {"i2c_sem"} \in SUBSET Plain /\ {"I2C", "power", "sysosc"} \in SUBSET Plain
      /\ {"I2C", "power", "sysosc"} \subseteq {"power", "sysosc"} \cup {"I2C"}
  BY DEF Plain, Names, Threads
<1> DEFINE A == Do({"I2C"}, {})
           B == Try({"i2c_handles"}, {"I2C", "power", "sysosc"})
           C == Try({"i2c_sem"}, {})
           E == {"power", "sysosc"}
<1>1. /\ Part(A, {}, {"I2C"}, {}) /\ Part(C, {}, {"i2c_sem"}, {})
      /\ Part(B, {"I2C", "power", "sysosc"}, {"i2c_handles"}, {})
  BY <1>0, PlainDo
<1>2. Part(A, E, {"I2C"}, {})
  BY <1>1, PartMono
<1> HIDE DEF A, B, C
<1>3. Part(A \o B, E, {"I2C"} \cup {"i2c_handles"}, {})
  BY <1>0, <1>1, <1>2, JoinPlain
<1>4. Part(A \o B \o C, E, {"I2C"} \cup {"i2c_handles"} \cup {"i2c_sem"}, {})
  BY <1>0, <1>1, <1>3, JoinPlain
<1>5. {"I2C"} \cup {"i2c_handles"} \cup {"i2c_sem"} = {"I2C", "i2c_handles", "i2c_sem"}
  OBVIOUS
<1>6. QED
  BY <1>4, <1>5 DEF i2c_init, A, B, C

LEMMA PartSpi ==
    Part(spi_init, {"display"}, {List, "queue_sem", "CS_sem", "SPI_done_sem", "SPI"}, {})
<1>0. /\ "queue_sem" \in Plain /\ "CS_sem" \in Plain /\ "SPI_done_sem" \in Plain
      /\ {"SPI"} \in SUBSET Plain
  BY DEF Plain, Names, Threads
<1> DEFINE A == Do({List}, {})
           B == sem_init("queue_sem")
           C == sem_init("CS_sem")
           D == sem_init("SPI_done_sem")
           F == Do({"SPI"}, {})
           E == {"display"}
<1>1. /\ Part(B, E, {"queue_sem"}, {}) /\ Part(C, E, {"CS_sem"}, {})
      /\ Part(D, E, {"SPI_done_sem"}, {}) /\ Part(F, {}, {"SPI"}, {})
  BY <1>0, PlainDo, PlainSem
<1>2. Part(A, E, {List}, {})
  <2>1. {List} \in SUBSET Things /\ {List} \cap Links = {}
    BY PlainFacts DEF Things, Nodes
  <2>2. Part(A, {}, {List}, {})
    BY <2>1, PartDo
  <2>3. QED
    BY <2>2, PartMono
<1> HIDE DEF A, B, C, D, F, E
<1>3. Part(A \o B, E, {List} \cup {"queue_sem"}, {})
  BY <1>0, <1>1, <1>2, JoinPlain
<1>4. Part(A \o B \o C, E, {List} \cup {"queue_sem"} \cup {"CS_sem"}, {})
  BY <1>0, <1>1, <1>3, JoinPlain
<1>5. Part(A \o B \o C \o D, E,
           {List} \cup {"queue_sem"} \cup {"CS_sem"} \cup {"SPI_done_sem"}, {})
  BY <1>0, <1>1, <1>4, JoinPlain
<1>6. Part(A \o B \o C \o D \o F, E,
           {List} \cup {"queue_sem"} \cup {"CS_sem"} \cup {"SPI_done_sem"} \cup {"SPI"}, {})
  BY <1>0, <1>1, <1>5, JoinPlain
<1>7. {List} \cup {"queue_sem"} \cup {"CS_sem"} \cup {"SPI_done_sem"} \cup {"SPI"}
          = {List, "queue_sem", "CS_sem", "SPI_done_sem", "SPI"}
  OBVIOUS
<1>8. QED
  BY <1>6, <1>7 DEF spi_init, A, B, C, D, F, E

LEMMA PartCommand == Part(command_init, {"display"}, {"i2c_done_sem", "spi_done_sem"}, {})
<1>0. "i2c_done_sem" \in Plain /\ "spi_done_sem" \in Plain
  BY DEF Plain, Names, Threads
<1> DEFINE A == sem_init("i2c_done_sem")
           B == sem_init("spi_done_sem")
<1>1. Part(A, {"display"}, {"i2c_done_sem"}, {}) /\ Part(B, {"display"}, {"spi_done_sem"}, {})
  BY <1>0, PlainSem
<1> HIDE DEF A, B
<1>2. Part(A \o B, {"display"}, {"i2c_done_sem"} \cup {"spi_done_sem"}, {})
  BY <1>0, <1>1, JoinPlain
<1>3. {"i2c_done_sem"} \cup {"spi_done_sem"} = {"i2c_done_sem", "spi_done_sem"}
  OBVIOUS
<1>4. QED
  BY <1>2, <1>3 DEF command_init, A, B

InitI2c  == {"I2C", "i2c_handles", "i2c_sem"}
InitSpi  == {List, "queue_sem", "CS_sem", "SPI_done_sem", "SPI"}
InitSems == {"i2c_done_sem", "spi_done_sem"}
InitAll  == {"GPIO"} \cup InitI2c \cup {"recv_handler"} \cup InitSpi \cup InitSems
                \cup {"adc_done_sem"} \cup Pins

LEMMA PartInit == Part(init_all, {"power", "sysosc", "display"}, InitAll, {})
<1>0. /\ {"GPIO"} \in SUBSET Plain /\ {"power"} \in SUBSET Plain
      /\ {"recv_handler"} \in SUBSET Plain /\ InitI2c \in SUBSET Plain
      /\ InitSems \in SUBSET Plain /\ "adc_done_sem" \in Plain
      /\ {"adc_done_sem"} \in SUBSET Plain /\ Pins \in SUBSET Plain
      /\ {"display"} \in SUBSET Plain
  BY PlainFacts DEF Plain, Names, Threads, InitI2c, InitSems
<1> DEFINE A == Do({"GPIO"}, {"power"})
           B == i2c_init
           C == Do({"recv_handler"}, {})
           D == spi_init
           F == command_init
           G == adc_init
           H == Do(Pins, {"GPIO"})
           I == Do({}, {"display"})
           E == {"power", "sysosc", "display"}
           M1 == {"GPIO"}
           M2 == M1 \cup InitI2c
           M3 == M2 \cup {"recv_handler"}
           M4 == M3 \cup InitSpi
           M5 == M4 \cup InitSems
           M6 == M5 \cup {"adc_done_sem"}
           M7 == M6 \cup Pins
<1>1. /\ Part(A, {"power"}, M1, {}) /\ Part(B, {"power", "sysosc"}, InitI2c, {})
      /\ Part(C, {}, {"recv_handler"}, {}) /\ Part(D, {"display"}, InitSpi, {})
      /\ Part(F, {"display"}, InitSems, {}) /\ Part(G, {"display"}, {"adc_done_sem"}, {})
      /\ Part(H, {"GPIO"}, Pins, {}) /\ Part(I, {"display"}, {}, {})
  <2>1. Part(B, {"power", "sysosc"}, InitI2c, {})
    BY PartI2c DEF InitI2c
  <2>2. Part(D, {"display"}, InitSpi, {}) /\ Part(F, {"display"}, InitSems, {})
    BY PartSpi, PartCommand DEF InitSpi, InitSems
  <2>3. Part(G, {"display"}, {"adc_done_sem"}, {})
    BY <1>0, PlainSem DEF adc_init
  <2>4. Part(A, {"power"}, M1, {}) /\ Part(C, {}, {"recv_handler"}, {})
    BY <1>0, PlainDo
  <2>5. Part(H, {"GPIO"}, Pins, {}) /\ Part(I, {"display"}, {}, {})
    BY <1>0, PlainDo
  <2>6. QED
    BY <2>1, <2>2, <2>3, <2>4, <2>5
<1>2. Part(A, E, M1, {})
  <2>1. {"power"} \subseteq E
    OBVIOUS
  <2> HIDE DEF A, E, M1
  <2>2. QED
    BY <1>1, <2>1, PartMono
<1>p. /\ {"power", "sysosc"} \subseteq E /\ {"display"} \subseteq E
      /\ "GPIO" \in M1 /\ M3 \in SUBSET Plain
  BY <1>0
<1> HIDE DEF A, B, C, D, F, G, H, I, E, M1
<1>3. Part(A \o B, E, M2, {})
  BY <1>0, <1>1, <1>2, <1>p, JoinPlain
<1> HIDE DEF M2
<1>4. Part(A \o B \o C, E, M3, {})
  BY <1>0, <1>1, <1>3, JoinPlain
<1>5. Part(A \o B \o C \o D, E, M4, {})
  <2>1. /\ Once \cap (M3 \cup {}) \cap (InitSpi \cup {}) = {} /\ List \notin M3
        /\ {} = {} \cup {} /\ {"display"} \subseteq E \cup M3
    BY <1>p, PlainFacts
  <2> HIDE DEF M3
  <2>2. QED
    BY <2>1, <1>1, <1>4, PartJoin
<1> HIDE DEF M4
<1>6. Part(A \o B \o C \o D \o F, E, M5, {})
  BY <1>0, <1>1, <1>5, <1>p, JoinPlain
<1> HIDE DEF M5
<1>7. Part(A \o B \o C \o D \o F \o G, E, M6, {})
  BY <1>0, <1>1, <1>6, <1>p, JoinPlain
<1>8. Part(A \o B \o C \o D \o F \o G \o H, E, M7, {})
  <2>1. "GPIO" \in M6
    BY <1>p DEF M2, M4, M5
  <2> HIDE DEF M6
  <2>2. QED
    BY <1>0, <1>1, <1>7, <2>1, JoinPlain
<1> HIDE DEF M7
<1>9. Part(A \o B \o C \o D \o F \o G \o H \o I, E, M7 \cup {}, {})
  BY <1>0, <1>1, <1>8, <1>p, JoinPlain
<1>10. M7 \cup {} = InitAll
  BY DEF M7, M5, M4, M2, M1, InitAll
<1>11. QED
  BY <1>9, <1>10 DEF init_all, A, B, C, D, F, G, H, I, E

LEMMA PartStartAll ==
    Part(start_all, Ready, {}, {"spiThread", "spiI2cThread", "adcThread"})
<1>0. /\ "spiThread" \in Threads /\ "spiI2cThread" \in Threads /\ "adcThread" \in Threads
      /\ Base("spiThread") = Ready /\ Base("spiI2cThread") = Ready
      /\ Base("adcThread") = Ready
  BY DEF Threads, Base
<1> DEFINE A == set_attrs
           B == Start("spiThread")
           C == Start("spiI2cThread")
           D == Start("adcThread")
<1>1. /\ Part(A, {}, {}, {}) /\ Part(B, Ready, {}, {"spiThread"})
      /\ Part(C, Ready, {}, {"spiI2cThread"}) /\ Part(D, Ready, {}, {"adcThread"})
  BY <1>0, PlainDo, PartStart DEF set_attrs
<1>2. Part(A, Ready, {}, {})
  BY <1>1, PartMono
<1>3. {} \cup {} = {} /\ Ready \subseteq Ready \cup {}
  OBVIOUS
<1> HIDE DEF A, B, C, D
<1>4. Part(A \o B, Ready, {}, {"spiThread"})
  <2>1. {} \cup {"spiThread"} = {"spiThread"} /\ Once \cap ({} \cup {}) \cap ({} \cup {"spiThread"}) = {}
    OBVIOUS
  <2>2. QED
    BY <2>1, <1>1, <1>2, <1>3, PartJoin
<1>5. Part(A \o B \o C, Ready, {}, {"spiThread", "spiI2cThread"})
  <2>1. /\ {"spiThread"} \cup {"spiI2cThread"} = {"spiThread", "spiI2cThread"}
        /\ Once \cap ({} \cup {"spiThread"}) \cap ({} \cup {"spiI2cThread"}) = {}
    OBVIOUS
  <2>2. QED
    BY <2>1, <1>1, <1>3, <1>4, PartJoin
<1>6. Part(A \o B \o C \o D, Ready, {}, {"spiThread", "spiI2cThread", "adcThread"})
  <2>1. /\ {"spiThread", "spiI2cThread"} \cup {"adcThread"}
               = {"spiThread", "spiI2cThread", "adcThread"}
        /\ Once \cap ({} \cup {"spiThread", "spiI2cThread"}) \cap ({} \cup {"adcThread"}) = {}
    OBVIOUS
  <2>2. QED
    BY <2>1, <1>1, <1>3, <1>5, PartJoin
<1>7. QED
  BY <1>6 DEF start_all, A, B, C, D

InitConsole == {"command_handler", "Display", "display"}
InitMain    == SlotLinks \cup InitConsole \cup {"wake"} \cup InitAll

LEMMA PartMainThread ==
    Part(mainThread, {"power", "sysosc"}, InitMain, {"spiThread", "spiI2cThread", "adcThread"})
<1>0. InitConsole \in SUBSET Plain /\ {"wake"} \in SUBSET Plain /\ "wake" \in Plain
      /\ {"display"} \in SUBSET Plain
  BY DEF Plain, Names, Threads, InitConsole
<1> DEFINE A == init_slots
           B == console_init
           C == sem_init("wake")
           D == init_all
           F == start_all
           G == consoleThread
           E == {"power", "sysosc"}
           M1 == SlotLinks
           M2 == M1 \cup InitConsole
           M3 == M2 \cup {"wake"}
           M4 == M3 \cup InitAll
           S == {"spiThread", "spiI2cThread", "adcThread"}
<1>1. /\ Part(A, E, M1, {}) /\ Part(B, E, InitConsole, {})
      /\ Part(C, {"display"}, {"wake"}, {}) /\ Part(D, {"power", "sysosc", "display"}, InitAll, {})
      /\ Part(F, Ready, {}, S) /\ Part(G, {"display"}, {}, {})
  <2>1. Part(B, E, InitConsole, {})
    BY PartConsole DEF InitConsole
  <2>2. Part(C, {"display"}, {"wake"}, {})
    BY <1>0, PlainSem
  <2>3. Part(D, {"power", "sysosc", "display"}, InitAll, {})
    BY PartInit
  <2>4. Part(F, Ready, {}, S)
    BY PartStartAll
  <2>5. Part(G, {"display"}, {}, {})
    BY <1>0, PlainDo DEF consoleThread
  <2>6. Part(A, E, M1, {})
    <3>1. Part(A, {}, M1, {})
      BY PartSlots
    <3> HIDE DEF A, E, M1
    <3>2. QED
      BY <3>1, PartMono
  <2>7. QED
    BY <2>1, <2>2, <2>3, <2>4, <2>5, <2>6
<1>p. /\ "display" \in M2 /\ {"power", "sysosc", "display"} \subseteq E \cup M2
      /\ Once \cap M3 = {} /\ List \notin M3 /\ InitAll \cap Links = {}
      /\ Ready \subseteq E \cup M4 /\ M4 \cap Threads = {}
  <2>1. "display" \in M2 /\ {"power", "sysosc", "display"} \subseteq E \cup M2
    BY DEF InitConsole
  <2>2. Once \cap M3 = {} /\ List \notin M3
    BY <1>0, PlainFacts
  <2>3. InitAll \subseteq Plain \cup {List}
    BY PlainFacts DEF InitAll, InitI2c, InitSpi, InitSems, Plain, Names, Threads
  <2>4. InitAll \cap Links = {} /\ InitAll \cap Threads = {}
    BY <2>3, PlainFacts DEF Nodes, Plain
  <2>5. Ready \subseteq E \cup M4
    BY DEF Ready, InitConsole, InitAll, InitI2c, InitSpi, InitSems
  <2>6. M4 \cap Threads = {}
    BY <2>2, <2>4 DEF Once
  <2>7. QED
    BY <2>1, <2>2, <2>4, <2>5, <2>6
<1> HIDE DEF A, B, C, D, E, F, G, M1
<1>2. Part(A \o B, E, M2, {})
  BY <1>0, <1>1, JoinPlain
<1> HIDE DEF M2
<1>3. Part(A \o B \o C, E, M3, {})
  BY <1>0, <1>1, <1>2, <1>p, JoinPlain
<1>4. Part(A \o B \o C \o D, E, M4, {})
  <2>1. /\ Once \cap (M3 \cup {}) \cap (InitAll \cup {}) = {} /\ {} = {} \cup {}
        /\ {"power", "sysosc", "display"} \subseteq E \cup M3
    BY <1>p
  <2> HIDE DEF M3
  <2>2. QED
    BY <2>1, <1>1, <1>3, <1>p, PartJoin
<1> HIDE DEF M4
<1>5. Part(A \o B \o C \o D \o F, E, M4, S)
  <2>1. Once \cap (M4 \cup {}) \cap ({} \cup S) = {} /\ M4 = M4 \cup {} /\ S = {} \cup S
    BY <1>p, PlainFacts DEF Once, Threads, Nodes
  <2> HIDE DEF S
  <2>2. QED
    BY <2>1, <1>1, <1>4, <1>p, PartJoin
<1> HIDE DEF S
<1>6. Part(A \o B \o C \o D \o F \o G, E, M4 \cup {}, S)
  <2>1. {"display"} \subseteq E \cup M4
    BY <1>p DEF M4
  <2>2. QED
    BY <1>0, <1>1, <1>5, <2>1, JoinPlain
<1>7. M4 \cup {} = InitMain
  BY DEF M4, M2, M1, InitMain
<1>8. QED
  BY <1>6, <1>7 DEF mainThread, A, B, C, D, F, G, E, S

LEMMA PartSpiThread == Part(spiThread, Ready, {"HOST_IRQ", "spi_handle"}, {})
<1>0. /\ {"HOST_IRQ"} \in SUBSET Plain /\ {"GPIO"} \in SUBSET Plain
      /\ {"spi_handle"} \in SUBSET Plain /\ {"SPI", "power", "sysosc"} \in SUBSET Plain
      /\ {"spi_handle"} \in SUBSET Things /\ {"SPI", "power", "sysosc"} \in SUBSET Things
      /\ List \notin {"spi_handle"}
  <2>1. /\ {"HOST_IRQ"} \in SUBSET Plain /\ {"GPIO"} \in SUBSET Plain
        /\ {"spi_handle"} \in SUBSET Plain /\ {"SPI", "power", "sysosc"} \in SUBSET Plain
    BY DEF Plain, Names, Threads
  <2>2. QED
    BY <2>1, PlainFacts
<1> DEFINE A == Do({"HOST_IRQ"}, {"GPIO"})
           B == TrySay({"spi_handle"}, {"SPI", "power", "sysosc"})
           N == {"SPI", "power", "sysosc"} \cup {"display"}
<1>1. Part(A, {"GPIO"}, {"HOST_IRQ"}, {}) /\ Part(B, N, {"spi_handle"}, {})
  <2>1. Part(A, {"GPIO"}, {"HOST_IRQ"}, {})
    BY <1>0, PlainDo
  <2>2. Part(B, N, {"spi_handle"}, {})
    BY <1>0, PartTrySay
  <2>3. QED
    BY <2>1, <2>2
<1>2. {"GPIO"} \subseteq Ready /\ N \subseteq Ready
  BY DEF Ready
<1> HIDE DEF A, B, N
<1>3. Part(A, Ready, {"HOST_IRQ"}, {})
  BY <1>1, <1>2, PartMono
<1>4. Part(A \o B, Ready, {"HOST_IRQ"} \cup {"spi_handle"}, {})
  BY <1>0, <1>1, <1>2, <1>3, JoinPlain
<1>5. {"HOST_IRQ"} \cup {"spi_handle"} = {"HOST_IRQ", "spi_handle"}
  OBVIOUS
<1>6. QED
  BY <1>4, <1>5 DEF spiThread, A, B

LEMMA PartAdcThread == Part(adcThread, Ready, {AdcMsg}, {})
<1>1. {AdcMsg} \in SUBSET Things /\ {} \in SUBSET Things /\ List \notin {AdcMsg}
  BY PlainFacts DEF Things, Nodes
<1>2. Part(adcThread, {}, {AdcMsg}, {})
  BY <1>1, PartDo DEF adcThread
<1>3. QED
  BY <1>2, PartMono

(* What each thread makes and starts.                                      *)
Makes(t) ==
    IF t = "main" THEN {"power", "sysosc", "scheduler"}
    ELSE IF t = "mainThread" THEN InitMain
    ELSE IF t = "spiThread" THEN {"HOST_IRQ", "spi_handle"}
    ELSE IF t = "adcThread" THEN {AdcMsg} ELSE {}

Starts(t) ==
    IF t = "main" THEN {"mainThread"}
    ELSE IF t = "mainThread" THEN {"spiThread", "spiI2cThread", "adcThread"} ELSE {}

LEMMA Programs ==
    ASSUME NEW t \in Threads
    PROVE  Part(Program[t], Base(t), Makes(t), Starts(t))
<1>1. CASE t = "main"
  <2>1. Program[t] = main /\ Base(t) = {} /\ Makes(t) = {"power", "sysosc", "scheduler"}
        /\ Starts(t) = {"mainThread"}
    BY <1>1 DEF Program, Base, Makes, Starts
  <2>2. QED
    BY <2>1, PartMain
<1>2. CASE t = "mainThread"
  <2>1. Program[t] = mainThread /\ Base(t) = {"power", "sysosc"} /\ Makes(t) = InitMain
        /\ Starts(t) = {"spiThread", "spiI2cThread", "adcThread"}
    BY <1>2 DEF Program, Base, Makes, Starts
  <2>2. QED
    BY <2>1, PartMainThread
<1>3. CASE t = "spiThread"
  <2>1. Program[t] = spiThread /\ Base(t) = Ready /\ Makes(t) = {"HOST_IRQ", "spi_handle"}
        /\ Starts(t) = {}
    BY <1>3 DEF Program, Base, Makes, Starts
  <2>2. QED
    BY <2>1, PartSpiThread
<1>4. CASE t = "adcThread"
  <2>1. Program[t] = adcThread /\ Base(t) = Ready /\ Makes(t) = {AdcMsg} /\ Starts(t) = {}
    BY <1>4 DEF Program, Base, Makes, Starts
  <2>2. QED
    BY <2>1, PartAdcThread
<1>5. CASE t = "spiI2cThread"
  <2>1. Program[t] = <<>> /\ Base(t) = Ready /\ Makes(t) = {} /\ Starts(t) = {}
    BY <1>5 DEF Program, Base, Makes, Starts
  <2>2. Part(<<>>, Ready, {}, {})
    BY PartNone, PartMono
  <2>3. QED
    BY <2>1, <2>2
<1>6. QED
  BY <1>1, <1>2, <1>3, <1>4, <1>5 DEF Threads

(* What happens once happens in one thread, and only two make links.       *)
LEMMA OneThread ==
    /\ \A t, u \in Threads : \A x \in Once :
          x \in Makes(t) \cup Starts(t) /\ x \in Makes(u) \cup Starts(u) => t = u
    /\ \A t \in Threads : List \in Makes(t) => t = "mainThread"
    /\ \A t \in Threads : Makes(t) \cap Links # {} => t \in {"mainThread", "adcThread"}
    /\ Makes("mainThread") \cap Links \subseteq SlotLinks
    /\ Makes("adcThread") = {AdcMsg} /\ List \in Makes("mainThread")
    /\ \A t \in Threads : Makes(t) \cap Threads = {}
    /\ \A t \in Threads : "main" \notin Starts(t)
    /\ \A t \in Threads : "adcThread" \in Starts(t) => t = "mainThread"
<1>1. /\ Makes("main") \subseteq Plain /\ Makes("spiThread") \subseteq Plain
      /\ Makes("spiI2cThread") = {} /\ Makes("adcThread") = {AdcMsg}
      /\ Makes("mainThread") = InitMain
  BY DEF Makes, Plain, Names, Threads
<1>2. InitMain \subseteq SlotLinks \cup {List} \cup Plain /\ List \in InitMain
  <2>1. InitConsole \subseteq Plain /\ "wake" \in Plain
    BY DEF InitConsole, Plain, Names, Threads
  <2>2. InitAll \subseteq Plain \cup {List} /\ List \in InitAll
    BY PlainFacts DEF InitAll, InitI2c, InitSpi, InitSems, Plain, Names, Threads
  <2>3. QED
    BY <2>1, <2>2 DEF InitMain
<1>3. /\ Starts("main") = {"mainThread"} /\ Starts("spiThread") = {}
      /\ Starts("mainThread") = {"spiThread", "spiI2cThread", "adcThread"}
      /\ Starts("spiI2cThread") = {} /\ Starts("adcThread") = {}
  BY DEF Starts
<1>4. \A t \in Threads : t \in {"main", "mainThread", "spiThread", "spiI2cThread", "adcThread"}
  BY DEF Threads
<1>5. \A t \in Threads : Makes(t) \cap Threads = {} /\ (List \in Makes(t) => t = "mainThread")
  BY <1>1, <1>2, <1>4, PlainFacts DEF Nodes, Once
<1>6. \A t, u \in Threads : \A x \in Threads : x \in Starts(t) /\ x \in Starts(u) => t = u
  BY <1>3, <1>4
<1>7. \A t \in Threads : Starts(t) \subseteq Threads
  BY <1>3, <1>4 DEF Threads
<1>8. \A t, u \in Threads : \A x \in Once :
          x \in Makes(t) \cup Starts(t) /\ x \in Makes(u) \cup Starts(u) => t = u
  BY <1>5, <1>6, <1>7, PlainFacts DEF Once
<1>9. Makes("mainThread") \cap Links \subseteq SlotLinks
  BY <1>1, <1>2, PlainFacts DEF Nodes
<1>10. \A t \in Threads : Makes(t) \cap Links # {} => t \in {"mainThread", "adcThread"}
  BY <1>1, <1>4, PlainFacts DEF Nodes
<1>11. \A t \in Threads : "adcThread" \in Starts(t) => t = "mainThread"
  BY <1>3, <1>4
<1>12. (\A t \in Threads : "main" \notin Starts(t)) /\ List \in Makes("mainThread")
  BY <1>1, <1>2, <1>3, <1>4
<1>13. QED
  BY <1>1, <1>5, <1>8, <1>9, <1>10, <1>11, <1>12

(* What the loop of a thread uses, it or those that ran before it made.    *)
LEMMA LoopsFind ==
    ASSUME NEW t \in Threads
    PROVE  LoopUses[t] \subseteq Base(t) \cup Makes(t)
<1>1. CASE t = "main"
  BY <1>1 DEF LoopUses
<1>2. CASE t = "mainThread"
  BY <1>2 DEF LoopUses, Makes, InitMain, InitConsole, InitAll, InitI2c, InitSpi, InitSems,
              spi_send_uses, i2c_transaction_uses
<1>3. CASE t = "spiThread"
  BY <1>3 DEF LoopUses, Makes, Base, Ready, spi_send_uses, i2c_transaction_uses
<1>4. CASE t = "spiI2cThread"
  BY <1>4 DEF LoopUses, Makes, Base, Ready, spi_send_uses
<1>5. CASE t = "adcThread"
  BY <1>5 DEF LoopUses, Makes, Base, Ready, spi_send_uses, i2c_transaction_uses, Pins
<1>6. QED
  BY <1>1, <1>2, <1>3, <1>4, <1>5 DEF Threads

----------------------------------------------------------------------------
(* Nothing is used before it is set up.                                    *)

Happened(x) ==
    \E t \in Threads : \E i \in DOMAIN Program[t] :
        i < pc[t] /\ x \in Events(Program[t][i])

(* What a thread passed is made, and what it found when it was created; a  *)
(* thread that runs was started, a list in use was made.                   *)
SetUp ==
    /\ pc \in [Threads -> Nat]
    /\ \A t \in Threads : pc[t] > 0 => Base(t) \subseteq made
    /\ \A t \in Threads : \A i \in DOMAIN Program[t] :
          i < pc[t] => Program[t][i].makes \subseteq made
    /\ \A t \in Threads \ {"main"} : pc[t] > 0 => Happened(t)
    /\ listed => Happened(List)
    /\ List \in made => listed

LEMMA SetUpInit == Init => SetUp
<1> SUFFICES ASSUME Init PROVE SetUp
  OBVIOUS
<1>1. /\ pc \in [Threads -> Nat] /\ made = {} /\ listed = FALSE
      /\ \A t \in Threads : pc[t] = IF t = "main" THEN 1 ELSE 0
  BY DEF Init
<1>2. \A t \in Threads : \A i \in DOMAIN Program[t] : i \in Nat /\ i >= 1
  <2>1. \A t \in Threads : Program[t] \in Seq(Statements)
    BY Programs DEF Part
  <2>2. QED
    BY <2>1
<1>3. \A t \in Threads : pc[t] > 0 => Base(t) \subseteq made
  BY <1>1 DEF Base
<1>4. \A t \in Threads : \A i \in DOMAIN Program[t] : ~(i < pc[t])
  BY <1>1, <1>2
<1>5. QED
  BY <1>1, <1>3, <1>4 DEF SetUp

(* The statement a thread is at finds what it wants, and what happens once *)
(* has not happened yet.                                                   *)
LEMMA AtStatement ==
    ASSUME SetUp, NEW t \in Threads, pc[t] > 0, ~Serves(t)
    PROVE  /\ pc[t] \in DOMAIN Program[t]
           /\ Wants(Current(t)) \subseteq made
           /\ Current(t).makes \subseteq Makes(t)
           /\ Current(t).starts \subseteq Starts(t) \cap Threads
           /\ \A x \in Once \cap Events(Current(t)) : ~Happened(x)
<1>1. /\ Part(Program[t], Base(t), Makes(t), Starts(t))
      /\ Program[t] \in Seq(Statements)
  BY Programs DEF Part
<1>2. pc[t] \in DOMAIN Program[t] /\ Current(t) = Program[t][pc[t]]
  BY <1>1 DEF SetUp, Serves, Current
<1>3. Wants(Current(t)) \subseteq made
  BY <1>1, <1>2 DEF Part, SetUp
<1>4. /\ Current(t).makes \subseteq Makes(t) /\ Current(t).starts \subseteq Starts(t)
      /\ Current(t).starts \subseteq Threads
  <2>1. /\ Current(t).makes \subseteq Makes(t) /\ Current(t).starts \subseteq Starts(t)
    BY <1>1, <1>2 DEF Part
  <2>2. Current(t) \in Statements
    BY <1>1, <1>2
  <2>3. Current(t).starts \subseteq Threads
    BY <2>2 DEF Statements
  <2>4. QED
    BY <2>1, <2>3
<1>5. ASSUME NEW x \in Once, x \in Events(Current(t)), Happened(x) PROVE FALSE
  <2>0. PICK u \in Threads : \E i \in DOMAIN Program[u] :
            i < pc[u] /\ x \in Events(Program[u][i])
    BY <1>5 DEF Happened
  <2>1. PICK i \in DOMAIN Program[u] : i < pc[u] /\ x \in Events(Program[u][i])
    BY <2>0
  <2>2. x \in Makes(t) \cup Starts(t)
    BY <1>4, <1>5 DEF Events
  <2>3. x \in Makes(u) \cup Starts(u)
    <3>1. Part(Program[u], Base(u), Makes(u), Starts(u))
      BY Programs
    <3>2. QED
      BY <3>1, <2>1 DEF Part, Events
  <2>4. u = t
    BY <2>2, <2>3, OneThread
  <2>5. i = pc[t]
    BY <1>1, <1>2, <1>5, <2>1, <2>4 DEF Part
  <2>6. pc[t] \in Nat
    BY DEF SetUp
  <2>7. QED
    BY <2>1, <2>4, <2>5, <2>6
<1>6. QED
  BY <1>2, <1>3, <1>4, <1>5

LEMMA SetUpStep ==
    ASSUME SetUp, NEW t \in Threads, Step(t)
    PROVE  SetUp'
<1> DEFINE s == Current(t)
<1>0. /\ pc' = [x \in Threads |-> IF x = t THEN pc[t] + 1
                                  ELSE IF x \in s.starts THEN 1 ELSE pc[x]]
      /\ made' = made \cup s.makes /\ pc[t] > 0 /\ ~Serves(t)
      /\ \/ List \in s.makes /\ listed' = TRUE
         \/ listed' = listed /\ List \notin s.makes
  <2>1. /\ pc' = [x \in Threads |-> IF x = t THEN pc[t] + 1
                                    ELSE IF x \in s.starts THEN 1 ELSE pc[x]]
        /\ made' = made \cup s.makes /\ pc[t] > 0 /\ ~Serves(t)
    BY DEF Step, Runs
  <2>2. \/ List \in s.makes /\ InitList
        \/ \E l \in s.makes \cap Links : InitLink(l)
        \/ s.makes \cap Nodes = {} /\ UNCHANGED listVars
    BY DEF Step
  <2>3. CASE List \in s.makes /\ InitList
    BY <2>1, <2>3 DEF InitList
  <2>4. ASSUME NEW l \in s.makes \cap Links, InitLink(l)
        PROVE  \/ List \in s.makes /\ listed' = TRUE
               \/ listed' = listed /\ List \notin s.makes
    <3>1. /\ Part(Program[t], Base(t), Makes(t), Starts(t))
          /\ Program[t] \in Seq(Statements)
      BY Programs DEF Part
    <3>2. pc[t] \in DOMAIN Program[t] /\ s = Program[t][pc[t]] /\ pc[t] \in Nat
      BY <2>1, AtStatement DEF SetUp, Current
    <3>3. List \notin s.makes
      BY <3>1, <3>2, <2>4 DEF Part
    <3>4. QED
      BY <2>4, <3>3 DEF InitLink
  <2>5. CASE s.makes \cap Nodes = {} /\ UNCHANGED listVars
    <3>1. listed' = listed
      BY <2>5 DEF listVars
    <3>2. List \notin s.makes
      BY <2>5 DEF Nodes
    <3>3. QED
      BY <2>1, <3>1, <3>2
  <2>6. QED
    BY <2>1, <2>2, <2>3, <2>4, <2>5
<1>1. /\ pc[t] \in DOMAIN Program[t] /\ Wants(s) \subseteq made
      /\ s.makes \subseteq Makes(t) /\ s.starts \subseteq Starts(t) \cap Threads
      /\ \A x \in Once \cap Events(s) : ~Happened(x)
  BY <1>0, AtStatement
<1>2. s = Program[t][pc[t]] /\ pc \in [Threads -> Nat]
  BY DEF Current, SetUp
<1> HIDE DEF s
<1>3. \A u \in s.starts : pc[u] = 0
  <2>1. ASSUME NEW u \in s.starts, pc[u] > 0 PROVE FALSE
    <3>1. u \in Threads \ {"main"} /\ u \in Once \cap Events(s)
      BY <1>1, <2>1, OneThread DEF Once, Events
    <3>2. QED
      BY <3>1, <2>1, <1>1 DEF SetUp
  <2>2. QED
    BY <2>1, <1>1, <1>2
<1>4. pc' \in [Threads -> Nat] /\ \A u \in Threads : pc'[u] >= pc[u]
  BY <1>0, <1>1, <1>2, <1>3
<1>5. ASSUME NEW u \in Threads, pc'[u] > 0 PROVE Base(u) \subseteq made'
  <2>1. CASE pc[u] > 0
    BY <1>0, <2>1 DEF SetUp
  <2>2. CASE u \in s.starts
    BY <1>0, <1>1, <2>2 DEF Wants
  <2>3. QED
    BY <1>0, <1>2, <1>5, <2>1, <2>2
<1>6. ASSUME NEW u \in Threads, NEW i \in DOMAIN Program[u], i < pc'[u]
      PROVE  Program[u][i].makes \subseteq made'
  <2>1. i \in Nat /\ i >= 1
    <3>1. Program[u] \in Seq(Statements)
      BY Programs DEF Part
    <3>2. QED
      BY <3>1
  <2>2. CASE i < pc[u]
    BY <1>0, <2>2 DEF SetUp
  <2>3. CASE u = t /\ i = pc[t]
    BY <1>0, <1>2, <2>3
  <2>4. QED
    BY <1>0, <1>2, <1>6, <2>1, <2>2, <2>3
<1>7. ASSUME NEW x, Happened(x) PROVE Happened(x)'
  <2>0. PICK u \in Threads : \E i \in DOMAIN Program[u] :
            i < pc[u] /\ x \in Events(Program[u][i])
    BY <1>7 DEF Happened
  <2>1. PICK i \in DOMAIN Program[u] : i < pc[u] /\ x \in Events(Program[u][i])
    BY <2>0
  <2>2. i < pc'[u]
    <3>1. Program[u] \in Seq(Statements)
      BY Programs DEF Part
    <3>2. i \in Int /\ pc[u] \in Int /\ pc'[u] \in Int /\ pc'[u] >= pc[u]
      BY <1>2, <1>4, <3>1
    <3>3. QED
      BY <2>1, <3>2
  <2>3. QED
    BY <2>1, <2>2 DEF Happened, Events
<1>8. \A x \in Events(s) : Happened(x)'
  <2>1. pc'[t] = pc[t] + 1 /\ pc[t] < pc'[t]
    BY <1>0, <1>2
  <2>2. QED
    BY <1>1, <1>2, <2>1 DEF Happened, Events
<1>9. ASSUME NEW u \in Threads \ {"main"}, pc'[u] > 0 PROVE Happened(u)'
  <2>1. CASE pc[u] > 0
    BY <1>7, <2>1 DEF SetUp
  <2>2. CASE u \in s.starts
    BY <1>8, <2>2 DEF Events
  <2>3. QED
    BY <1>0, <1>2, <1>9, <2>1, <2>2
<1>10. listed' => Happened(List)'
  BY <1>0, <1>7, <1>8 DEF SetUp, Events
<1>11. List \in made' => listed'
  BY <1>0 DEF SetUp
<1>12. QED
  BY <1>4, <1>5, <1>6, <1>9, <1>10, <1>11 DEF SetUp

LEMMA SetUpSame ==
    ASSUME SetUp, pc' = pc, made \subseteq made', List \in made' => List \in made,
           listed' = listed
    PROVE  SetUp'
<1>1. \A x : Happened(x) => Happened(x)'
  BY DEF Happened, Events
<1>2. QED
  BY <1>1 DEF SetUp

LEMMA SetUpNext == SetUp /\ [Next]_vars => SetUp'
<1> SUFFICES ASSUME SetUp, [Next]_vars PROVE SetUp'
  OBVIOUS
<1>1. CASE ClockGood
  <2>1. List # "LFOSC"
    BY StartupAssumption DEF Names, Nodes
  <2>2. QED
    BY <1>1, <2>1, SetUpSame DEF ClockGood, listVars
<1>2. ASSUME NEW t \in Threads, Step(t) PROVE SetUp'
  BY <1>2, SetUpStep
<1>3. ASSUME NEW t \in Threads, Fail(t) PROVE SetUp'
  BY <1>3, SetUpSame DEF Fail, listVars
<1>4. CASE SendResponse \/ SendValue \/ SendReport
  BY <1>4, SetUpSame DEF SendResponse, SendValue, SendReport, spi_send, Add
<1>5. CASE CommandLinks \/ CommandSends \/ CommandReturns
  BY <1>5, SetUpSame
  DEF CommandLinks, CommandSends, CommandReturns, spi_send, Add, InitLink, Overwrite
<1>6. CASE Remove \/ Done
  BY <1>6, SetUpSame DEF Remove, Done, RemoveHead, listVars
<1>7. CASE UNCHANGED vars
  BY <1>7, SetUpSame DEF vars, listVars
<1>8. QED
  BY <1>1, <1>2, <1>3, <1>4, <1>5, <1>6, <1>7 DEF Next

THEOREM SetUpInvariant == Spec => []SetUp
<1>1. QED
  BY SetUpInit, SetUpNext, PTL DEF Spec

LEMMA ServesMade ==
    ASSUME SetUp, NEW t \in Threads, Serves(t)
    PROVE  Base(t) \cup Makes(t) \subseteq made
<1>1. /\ Part(Program[t], Base(t), Makes(t), Starts(t))
      /\ Program[t] \in Seq(Statements)
  BY Programs DEF Part
<1>2. /\ DOMAIN Program[t] = 1..Len(Program[t]) /\ Len(Program[t]) \in Nat
      /\ pc[t] \in Nat /\ pc[t] > Len(Program[t])
  BY <1>1 DEF SetUp, Serves
<1>3. Base(t) \subseteq made
  BY <1>2 DEF SetUp
<1>4. ASSUME NEW x \in Makes(t) PROVE x \in made
  <2>1. PICK i \in DOMAIN Program[t] : x \in Program[t][i].makes
    BY <1>1 DEF Part
  <2>2. i < pc[t]
    BY <1>2
  <2>3. QED
    BY <2>1, <2>2 DEF SetUp
<1>5. QED
  BY <1>3, <1>4

(* Whatever runs, before or after a call failed, finds set up what it uses *)
(* (the order of the calls in main and mainThread): the drivers, the       *)
(* semaphores, the pins, the display of a complaint, the list.             *)
THEOREM ReadyBeforeUseInvariant == Spec => []ReadyBeforeUse
<1>1. SetUp => ReadyBeforeUse
  <2> SUFFICES ASSUME SetUp, NEW t \in Threads, Runs(t) PROVE Uses(t) \subseteq made
    BY DEF ReadyBeforeUse
  <2>1. CASE Serves(t)
    BY <2>1, ServesMade, LoopsFind DEF Uses
  <2>2. CASE ~Serves(t)
    <3>1. Wants(Current(t)) \subseteq made
      BY <2>2, AtStatement DEF Runs
    <3>2. Current(t).needs \subseteq made /\ Current(t).says \subseteq made
      BY <3>1 DEF Wants
    <3>3. CASE t \in failed
      BY <2>2, <3>2, <3>3 DEF Uses
    <3>4. CASE t \notin failed
      BY <2>2, <3>2, <3>4 DEF Uses
    <3>5. QED
      BY <3>3, <3>4
  <2>3. QED
    BY <2>1, <2>2
<1>2. QED
  BY <1>1, SetUpInvariant, PTL

----------------------------------------------------------------------------
(* The threads keep to the rules of the list.                              *)

Queued ==
    /\ DListInv
    /\ \A l \in Links : InList(l) => l \in out /\ l # removed
    /\ removed # NULL => removed \in out
    /\ SlotLinks \cup Values \subseteq ready
    /\ AdcMsg \in out => pc["adcThread"] > 1
    /\ pc["adcThread"] > 1 => AdcMsg \in ready
    /\ cmd \in {"none", "linked", "sent"}
    /\ ConMsg \in out => cmd = "sent"
    /\ cmd # "none" => listed /\ ConMsg \in ready

LEMMA InitIsListInit == Init => DListInit
<1> SUFFICES ASSUME Init PROVE DListInit
  OBVIOUS
<1>1. /\ listed = FALSE /\ sent = <<>> /\ ready = SlotLinks \cup Values
      /\ ready \subseteq Links
  BY PlainFacts DEF Init
<1>2. PICK h \in [{AdcMsg, ConMsg} -> {NULL, List}] :
          mem = [head |-> [l \in Links |-> IF l \in ready THEN NULL ELSE h[l]],
                 next |-> [n \in Nodes |-> NULL], prev |-> [n \in Nodes |-> NULL]]
  BY DEF Init
<1>3. \A l \in Links : l \notin ready => l \in {AdcMsg, ConMsg}
  BY <1>1, StartupAssumption
<1>4. [l \in Links |-> IF l \in ready THEN NULL ELSE h[l]] \in [Links -> {NULL, List}]
  BY <1>3
<1>5. mem \in Memory
  BY <1>2, <1>4 DEF Memory
<1>6. \A l \in ready : mem.head[l] = NULL
  BY <1>1, <1>2
<1>7. QED
  BY <1>1, <1>5, <1>6 DEF DListInit

LEMMA QueuedInit == Init => Queued
<1> SUFFICES ASSUME Init PROVE Queued
  OBVIOUS
<1>1. DListInv
  BY InitIsListInit, InitEstablishes
<1>2. \A l \in Links : ~InList(l)
  <2>1. DOMAIN sent = {}
    BY DEF Init
  <2>2. QED
    BY <2>1 DEF InList
<1>3. pc["adcThread"] = 0
  BY DEF Init, Threads
<1>4. QED
  BY <1>1, <1>2, <1>3 DEF Init, Queued

(* Who has passed its statements, and is no thread of main's time, has the *)
(* list.                                                                   *)
LEMMA ServesListed ==
    ASSUME SetUp, NEW t \in Threads, t # "main", Serves(t)
    PROVE  listed
<1>1. Base(t) \cup Makes(t) \subseteq made
  BY ServesMade
<1>2. CASE t = "mainThread"
  BY <1>1, <1>2, OneThread DEF SetUp
<1>3. CASE t # "mainThread"
  <2>1. List \in Base(t)
    BY <1>3 DEF Base, Ready
  <2>2. QED
    BY <1>1, <2>1 DEF SetUp
<1>4. QED
  BY <1>2, <1>3

(* A statement initialises the list once, and a link only while it is in   *)
(* no list.                                                                *)
LEMMA StatementKeepsRules ==
    ASSUME SetUp, Queued, NEW t \in Threads, Step(t)
    PROVE  \/ ~listed /\ InitList /\ t # "adcThread"
           \/ \E l \in SlotLinks : ~listed /\ ~InList(l) /\ InitLink(l) /\ t = "mainThread"
           \/ t = "adcThread" /\ ~InList(AdcMsg) /\ InitLink(AdcMsg)
           \/ t # "adcThread" /\ UNCHANGED listVars
<1> DEFINE s == Current(t)
<1>0. pc[t] > 0 /\ ~Serves(t)
  BY DEF Step, Runs
<1>1. /\ pc[t] \in DOMAIN Program[t] /\ s = Program[t][pc[t]]
      /\ s.makes \subseteq Makes(t) /\ s.starts \subseteq Starts(t) \cap Threads
      /\ \A x \in Once \cap Events(s) : ~Happened(x)
  BY <1>0, AtStatement DEF Current
<1>2. \/ List \in s.makes /\ InitList
      \/ \E l \in s.makes \cap Links : InitLink(l)
      \/ s.makes \cap Nodes = {} /\ UNCHANGED listVars
  BY DEF Step
<1>3. t = "adcThread" => pc[t] = 1 /\ s.makes = {AdcMsg}
  <2> SUFFICES ASSUME t = "adcThread" PROVE pc[t] = 1 /\ s.makes = {AdcMsg}
    OBVIOUS
  <2>1. Program[t] = <<Statement({AdcMsg}, {})>>
    BY DEF Program, adcThread, Do
  <2>2. DOMAIN Program[t] = {1} /\ Program[t][1] = Statement({AdcMsg}, {})
    BY <2>1
  <2>3. QED
    BY <2>2, <1>1 DEF Statement
<1> HIDE DEF s
<1>4. CASE List \in s.makes /\ InitList
  <2>1. ~Happened(List)
    BY <1>1, <1>4 DEF Once, Events
  <2>2. t # "adcThread"
    BY <1>3, <1>4, PlainFacts DEF Nodes
  <2>3. QED
    BY <2>1, <2>2, <1>4 DEF SetUp
<1>5. ASSUME NEW l \in s.makes \cap Links, InitLink(l), t = "mainThread"
      PROVE  l \in SlotLinks /\ ~listed /\ ~InList(l)
  <2>1. l \in SlotLinks
    BY <1>1, <1>5, OneThread
  <2>2. ASSUME listed PROVE FALSE
    <3>1. Happened(List)
      BY <2>2 DEF SetUp
    <3>2. PICK u \in Threads : \E i \in DOMAIN Program[u] :
              i < pc[u] /\ List \in Events(Program[u][i])
      BY <3>1 DEF Happened
    <3>3. PICK i \in DOMAIN Program[u] : i < pc[u] /\ List \in Events(Program[u][i])
      BY <3>2
    <3>4. Part(Program[u], Base(u), Makes(u), Starts(u)) /\ Program[u] \in Seq(Statements)
      BY Programs DEF Part
    <3>5. List \in Program[u][i].makes
      <4>1. Program[u][i] \in Statements
        BY <3>4
      <4>2. Program[u][i].starts \subseteq Threads
        BY <4>1 DEF Statements
      <4>3. QED
        BY <3>3, <4>2, PlainFacts DEF Events
    <3>6. u = "mainThread"
      BY <3>4, <3>5, OneThread DEF Part
    <3>7. s.makes \cap Links # {}
      BY <1>5
    <3>8. pc[t] < i
      BY <3>4, <3>5, <3>6, <3>7, <1>1, <1>5 DEF Part
    <3>9. pc[t] \in Int /\ i \in Int
      BY <3>4 DEF SetUp
    <3>10. QED
      BY <3>3, <3>6, <3>8, <3>9, <1>5
  <2>3. sent = <<>>
    BY <2>2 DEF Queued, DListInv
  <2>4. DOMAIN sent = {}
    BY <2>3
  <2>5. QED
    BY <2>1, <2>2, <2>4 DEF InList
<1>6. ASSUME NEW l \in s.makes \cap Links, InitLink(l), t = "adcThread"
      PROVE  l = AdcMsg /\ ~InList(AdcMsg)
  <2>1. l = AdcMsg /\ pc["adcThread"] = 1
    BY <1>3, <1>6
  <2>2. AdcMsg \notin out
    BY <2>1 DEF Queued
  <2>3. QED
    BY <2>1, <2>2, PlainFacts DEF Queued
<1>7. ASSUME NEW l \in s.makes \cap Links, InitLink(l)
      PROVE  t \in {"mainThread", "adcThread"}
  BY <1>1, <1>7, OneThread
<1>8. t = "adcThread" => s.makes \cap Nodes # {}
  BY <1>3, PlainFacts DEF Nodes
<1>9. CASE \E l \in s.makes \cap Links : InitLink(l)
  BY <1>5, <1>6, <1>7, <1>9
<1>10. CASE s.makes \cap Nodes = {} /\ UNCHANGED listVars
  BY <1>8, <1>10
<1>11. QED
  BY <1>2, <1>4, <1>9, <1>10

LEMMA StepKeepsRules == SetUp /\ Queued /\ [Next]_vars => [DListNext]_listVars
<1> SUFFICES ASSUME SetUp, Queued, [Next]_vars PROVE DListNext \/ UNCHANGED listVars
  OBVIOUS
<1>0. /\ \A l \in Links : l \notin out => ~InList(l)
      /\ SlotLinks \subseteq ready /\ Values \subseteq ready /\ SlotLinks \subseteq Links
      /\ Values \subseteq Links /\ AdcMsg \in Links /\ ConMsg \in Links
      /\ {"mainThread", "spiThread", "spiI2cThread", "adcThread"} \subseteq Threads \ {"main"}
  BY PlainFacts DEF Queued, Threads
<1>1. CASE ClockGood
  BY <1>1 DEF ClockGood
<1>2. ASSUME NEW t \in Threads, Step(t) PROVE DListNext \/ UNCHANGED listVars
  BY <1>0, <1>2, StatementKeepsRules DEF DListNext
<1>3. ASSUME NEW t \in Threads, Fail(t) PROVE DListNext \/ UNCHANGED listVars
  BY <1>3 DEF Fail
<1>4. CASE SendResponse
  <2>1. PICK l \in SlotLinks : l \notin out /\ Add(l)
    BY <1>4 DEF SendResponse, spi_send
  <2>2. listed
    BY <1>0, <1>4, ServesListed DEF SendResponse
  <2>3. QED
    BY <1>0, <2>1, <2>2 DEF DListNext
<1>5. CASE SendValue
  <2>1. PICK l \in Values : l \notin out /\ Add(l)
    BY <1>5 DEF SendValue, spi_send
  <2>2. listed
    BY <1>0, <1>5, ServesListed DEF SendValue
  <2>3. QED
    BY <1>0, <2>1, <2>2 DEF DListNext
<1>6. CASE SendReport
  <2>1. AdcMsg \notin out /\ Add(AdcMsg) /\ Serves("adcThread")
    BY <1>6 DEF SendReport, spi_send
  <2>2. listed
    BY <1>0, <2>1, ServesListed
  <2>3. AdcMsg \in ready
    <3>1. Len(Program["adcThread"]) = 1
      BY DEF Program, adcThread, Do
    <3>2. QED
      BY <2>1, <3>1 DEF Serves, Queued
  <2>4. QED
    BY <1>0, <2>1, <2>2, <2>3 DEF DListNext
<1>7. CASE CommandLinks
  <2>1. ~InList(ConMsg) /\ InitLink(ConMsg)
    BY <1>0, <1>7 DEF CommandLinks, Queued
  <2>2. QED
    BY <1>0, <2>1 DEF DListNext
<1>8. CASE CommandSends
  <2>1. listed /\ ConMsg \in ready /\ ConMsg \notin out /\ Add(ConMsg)
    BY <1>8 DEF CommandSends, Queued, spi_send
  <2>2. QED
    BY <1>0, <2>1 DEF DListNext
<1>9. CASE CommandReturns
  <2>1. ~InList(ConMsg) /\ Overwrite(ConMsg)
    BY <1>0, <1>9 DEF CommandReturns
  <2>2. QED
    BY <1>0, <2>1 DEF DListNext
<1>10. CASE Remove
  <2>1. listed
    BY <1>0, <1>10, ServesListed DEF Remove
  <2>2. QED
    BY <1>10, <2>1 DEF Remove, DListNext
<1>11. CASE Done
  BY <1>11 DEF Done
<1>12. CASE UNCHANGED vars
  BY <1>12 DEF vars
<1>13. QED
  BY <1>1, <1>2, <1>3, <1>4, <1>5, <1>6, <1>7, <1>8, <1>9, <1>10, <1>11, <1>12 DEF Next

LEMMA InListSame == ASSUME sent' = sent, NEW l, InList(l)' PROVE InList(l)
BY DEF InList

LEMMA InListAppend ==
    ASSUME sent \in Seq(Links), NEW x \in Links, sent' = Append(sent, x), NEW l, InList(l)'
    PROVE  InList(l) \/ l = x
<1>1. PICK k \in DOMAIN Append(sent, x) : Append(sent, x)[k] = l
  BY DEF InList
<1>2. k \in DOMAIN sent \/ k = Len(sent) + 1
  BY <1>1
<1>3. QED
  BY <1>1, <1>2 DEF InList

LEMMA InListTail ==
    ASSUME sent \in Seq(Links), sent # <<>>, sent' = Tail(sent), NEW l, InList(l)',
           \A j, k \in DOMAIN sent : sent[j] = sent[k] => j = k
    PROVE  InList(l) /\ l # sent[1]
<1>1. PICK k \in DOMAIN Tail(sent) : Tail(sent)[k] = l
  BY DEF InList
<1>2. /\ k + 1 \in DOMAIN sent /\ sent[k + 1] = l /\ 1 \in DOMAIN sent /\ k + 1 # 1
  BY <1>1
<1>3. QED
  BY <1>2 DEF InList

LEMMA QueuedNext == SetUp /\ Queued /\ [Next]_vars => Queued'
<1> SUFFICES ASSUME SetUp, Queued, [Next]_vars PROVE Queued'
  OBVIOUS
<1>0. /\ DListInv' /\ sent \in Seq(Links)
      /\ SlotLinks \subseteq Links /\ Values \subseteq Links /\ AdcMsg \in Links
      /\ ConMsg \in Links /\ ConMsg # AdcMsg /\ ConMsg \notin SlotLinks \cup Values
      /\ AdcMsg \notin SlotLinks \cup Values
  BY StepKeepsRules, StepPreserves, PlainFacts, StartupAssumption DEF Queued, DListInv
<1>p. "adcThread" \in Threads /\ pc \in [Threads -> Nat]
  BY DEF Threads, SetUp
<1>1. CASE ClockGood
  <2>1. /\ UNCHANGED <<pc, failed, out, removed, cmd, mem, listed, ready, sent>>
    BY <1>1 DEF ClockGood, listVars
  <2>2. QED
    BY <1>0, <2>1, InListSame DEF Queued
<1>2. ASSUME NEW t \in Threads, Step(t) PROVE Queued'
  <2>1. /\ out' = out /\ removed' = removed /\ cmd' = cmd /\ pc[t] > 0 /\ ~Serves(t)
        /\ pc' = [x \in Threads |-> IF x = t THEN pc[t] + 1
                                    ELSE IF x \in Current(t).starts THEN 1 ELSE pc[x]]
    BY <1>2 DEF Step, Runs
  <2>2. /\ sent' = sent /\ ready \subseteq ready' /\ (listed => listed')
        /\ (t = "adcThread" => AdcMsg \in ready')
    <3>1. CASE ~listed /\ InitList /\ t # "adcThread"
      BY <3>1 DEF InitList
    <3>2. ASSUME NEW l, InitLink(l), t = "adcThread" => l = AdcMsg
          PROVE  /\ sent' = sent /\ ready \subseteq ready' /\ (listed => listed')
                 /\ (t = "adcThread" => AdcMsg \in ready')
      BY <3>2 DEF InitLink
    <3>3. CASE t # "adcThread" /\ UNCHANGED listVars
      BY <3>3 DEF listVars
    <3>4. QED
      BY <1>2, <3>1, <3>2, <3>3, StatementKeepsRules
  <2>3. pc["adcThread"] > 1 => pc'["adcThread"] > 1
    <3>1. ASSUME "adcThread" \in Current(t).starts PROVE pc["adcThread"] = 0
      <4>1. ~Happened("adcThread")
        BY <2>1, <1>p, <3>1, AtStatement DEF Once, Events
      <4>2. QED
        BY <4>1, <1>p DEF SetUp
    <3>2. QED
      BY <2>1, <3>1, <1>p
  <2>4. pc'["adcThread"] > 1 => t = "adcThread" \/ pc["adcThread"] > 1
    BY <2>1, <1>p
  <2>5. QED
    BY <1>0, <2>1, <2>2, <2>3, <2>4, InListSame DEF Queued
<1>3. ASSUME NEW t \in Threads, Fail(t) PROVE Queued'
  <2>1. UNCHANGED <<pc, out, removed, cmd, mem, listed, ready, sent>>
    BY <1>3 DEF Fail, listVars
  <2>2. QED
    BY <1>0, <2>1, InListSame DEF Queued
<1>4. ASSUME NEW l \in Links, l \notin out, out' = out \cup {l}, Add(l),
             pc' = pc, removed' = removed, cmd' \in {"none", "linked", "sent"},
             l = AdcMsg => pc["adcThread"] > 1, ConMsg \in out' => cmd' = "sent",
             cmd' # "none" => cmd # "none"
      PROVE  Queued'
  <2>1. sent' = Append(sent, l) /\ ready' = ready /\ listed' = listed
    BY <1>4 DEF Add
  <2>2. ASSUME NEW x \in Links, InList(x)' PROVE x \in out' /\ x # removed'
    <3>1. InList(x) \/ x = l
      BY <1>0, <2>1, <2>2, <1>4, InListAppend
    <3>2. l # removed
      BY <1>4, DListAssumption DEF Queued, Nodes
    <3>3. QED
      BY <3>1, <3>2, <1>4, <2>2 DEF Queued
  <2>3. QED
    BY <1>0, <1>4, <2>1, <2>2 DEF Queued
<1>5. CASE SendResponse
  <2>1. PICK l \in SlotLinks : l \notin out /\ out' = out \cup {l} /\ Add(l)
    BY <1>5 DEF SendResponse, spi_send
  <2>2. UNCHANGED <<pc, removed, cmd>>
    BY <1>5 DEF SendResponse
  <2>3. QED
    BY <1>0, <2>1, <2>2, <1>4 DEF Queued
<1>6. CASE SendValue
  <2>1. PICK l \in Values : l \notin out /\ out' = out \cup {l} /\ Add(l)
    BY <1>6 DEF SendValue, spi_send
  <2>2. UNCHANGED <<pc, removed, cmd>>
    BY <1>6 DEF SendValue
  <2>3. QED
    BY <1>0, <2>1, <2>2, <1>4 DEF Queued
<1>7. CASE SendReport
  <2>1. /\ AdcMsg \notin out /\ out' = out \cup {AdcMsg} /\ Add(AdcMsg)
        /\ Serves("adcThread") /\ UNCHANGED <<pc, removed, cmd>>
    BY <1>7 DEF SendReport, spi_send
  <2>2. Len(Program["adcThread"]) = 1
    BY DEF Program, adcThread, Do
  <2>3. QED
    BY <1>0, <2>1, <2>2, <1>4 DEF Queued, Serves
<1>8. CASE CommandSends
  <2>1. /\ ConMsg \notin out /\ out' = out \cup {ConMsg} /\ Add(ConMsg) /\ cmd = "linked"
        /\ cmd' = "sent" /\ UNCHANGED <<pc, removed>>
    BY <1>8 DEF CommandSends, spi_send
  <2>2. QED
    BY <1>0, <2>1, <1>4 DEF Queued
<1>9. CASE CommandLinks
  <2>1. /\ ready' = ready \cup {ConMsg} /\ sent' = sent /\ listed' = listed
        /\ cmd = "none" /\ cmd' = "linked" /\ UNCHANGED <<pc, out, removed>>
    BY <1>9 DEF CommandLinks, InitLink
  <2>2. listed
    BY <1>9, ServesListed DEF CommandLinks, Threads
  <2>3. QED
    BY <1>0, <2>1, <2>2, InListSame DEF Queued
<1>10. CASE CommandReturns
  <2>1. /\ ready' = ready \ {ConMsg} /\ sent' = sent /\ listed' = listed
        /\ ConMsg \notin out /\ cmd' = "none" /\ UNCHANGED <<pc, out, removed>>
    BY <1>10 DEF CommandReturns, Overwrite
  <2>2. QED
    BY <1>0, <2>1, InListSame DEF Queued
<1>11. CASE Remove
  <2>1. /\ removed' = dlist_get_head(mem) /\ dlist_get_head(mem) # NULL
        /\ sent' = Tail(sent) /\ ready' = ready /\ listed' = listed
        /\ UNCHANGED <<pc, out, cmd>>
    BY <1>11 DEF Remove, RemoveHead
  <2>2. listed
    BY <1>11, ServesListed DEF Remove, Threads
  <2>3. mem \in Memory /\ IsRing(mem, sent)
    BY <2>2 DEF Queued, DListInv
  <2>4. sent # <<>> /\ removed' = sent[1]
    BY <1>0, <2>1, <2>3, GetHeadIsFirst
  <2>5. \A j, k \in DOMAIN sent : sent[j] = sent[k] => j = k
    BY <2>3 DEF IsRing
  <2>6. \A x \in Links : InList(x)' => x \in out' /\ x # removed'
    BY <1>0, <2>1, <2>4, <2>5, InListTail DEF Queued
  <2>7. removed' \in out'
    <3>1. 1 \in DOMAIN sent /\ sent[1] \in Links
      BY <1>0, <2>4
    <3>2. InList(sent[1])
      BY <3>1 DEF InList
    <3>3. QED
      BY <2>1, <2>4, <3>1, <3>2 DEF Queued
  <2>8. QED
    BY <1>0, <2>1, <2>6, <2>7 DEF Queued
<1>12. CASE Done
  <2>1. /\ out' = out \ {removed} /\ removed' = NULL
        /\ UNCHANGED <<pc, cmd, mem, listed, ready, sent>>
    BY <1>12 DEF Done, listVars
  <2>2. \A x \in Links : InList(x)' => x \in out' /\ x # removed'
    BY <2>1, InListSame, DListAssumption DEF Queued, Nodes
  <2>3. QED
    BY <1>0, <2>1, <2>2 DEF Queued
<1>13. CASE UNCHANGED vars
  <2>1. UNCHANGED <<pc, out, removed, cmd, mem, listed, ready, sent>>
    BY <1>13 DEF vars, listVars
  <2>2. QED
    BY <1>0, <2>1, InListSame DEF Queued
<1>14. QED
  BY <1>1, <1>2, <1>3, <1>5, <1>6, <1>7, <1>8, <1>9, <1>10, <1>11, <1>12, <1>13 DEF Next

(* Every step of the threads is one the users of the list may take, or     *)
(* none of it (struct dlist is only touched by its functions): the list is *)
(* made once and before use, no link is added that was not initialised or  *)
(* is linked, none is written to while it is, with any number of slots.    *)
THEOREM StartupKeepsRules == Spec => DListSpec
<1>1. Spec => [](SetUp /\ Queued)
  <2>1. Init => SetUp /\ Queued
    BY SetUpInit, QueuedInit
  <2>2. SetUp /\ Queued /\ [Next]_vars => (SetUp /\ Queued)'
    BY SetUpNext, QueuedNext
  <2>3. QED
    BY <2>1, <2>2, PTL DEF Spec
<1>2. QED
  BY <1>1, InitIsListInit, StepKeepsRules, PTL DEF Spec, DListSpec

(* So the pointers are the ring of what the threads sent, and none of the  *)
(* checks of DEBUG_DLIST stops one of them.                                *)
THEOREM StartupRing == Spec => []QueueIsRing
<1>1. QED
  BY StartupKeepsRules, RingIsInvariant, PTL

==============================================================================

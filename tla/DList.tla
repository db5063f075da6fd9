------------------------------- MODULE DList -------------------------------
(***************************************************************************)
(* src/list.h, pointer by pointer: a ring of links that are parts of the   *)
(* messages themselves, closed by the link of the list.  With DEBUG_DLIST  *)
(* a link also remembers the list it is in, and adding or removing one     *)
(* that does not tell so spins for ever.                                   *)
(*                                                                         *)
(* DListSpec is what the users of a list must keep to: initialise the list *)
(* and each link first, and not touch a link that is linked.               *)
(***************************************************************************)
EXTENDS Naturals, Sequences

CONSTANTS
    Links,     \* the struct dlist_link of each message
    List,      \* the link in the struct dlist
    NULL

Nodes == Links \cup {List}

ASSUME DListAssumption == List \notin Links /\ NULL \notin Nodes

VARIABLES
    mem,       \* the fields of each link: head, next, prev
    listed,    \* is the list initialised?
    ready,     \* history: the links initialised, or in zeroed memory
    sent       \* history: the links added and not removed, in order

listVars == <<mem, listed, ready, sent>>

Memory == [head : [Links -> {NULL, List}],
           next : [Nodes -> Nodes \cup {NULL}],
           prev : [Nodes -> Nodes \cup {NULL}]]

----------------------------------------------------------------------------
dlist_init(m) == [m EXCEPT !.next[List] = List, !.prev[List] = List]

dlist_link_init(m, l) == [m EXCEPT !.head[l] = NULL]

CanAdd(m, l) == m.head[l] = NULL

(* Wrong on purpose: the list does not learn of its new last link.         *)
add_tail_half(m, l) ==
    [head |-> [m.head EXCEPT ![l] = List],
     next |-> [m.next EXCEPT ![l] = List, ![m.prev[List]] = l],
     prev |-> [m.prev EXCEPT ![l] = m.prev[List]]]

dlist_add_tail(m, l) ==
    [head |-> [m.head EXCEPT ![l] = List],
     next |-> [m.next EXCEPT ![l] = List, ![m.prev[List]] = l],
     prev |-> [m.prev EXCEPT ![l] = m.prev[List], ![List] = l]]

dlist_empty(m) == m.next[List] = List

dlist_get_head(m) == IF dlist_empty(m) THEN NULL ELSE m.next[List]

CanRemove(m, l) == m.head[l] = List

dlist_remove_link(m, l) ==
    [head |-> [m.head EXCEPT ![l] = NULL],
     next |-> [m.next EXCEPT ![m.prev[l]] = m.next[l]],
     prev |-> [m.prev EXCEPT ![m.next[l]] = m.prev[l]]]

----------------------------------------------------------------------------
(* The users.  What is not static is not zero, and the stack of a call     *)
(* that has returned holds anything.                                       *)

InList(l) == \E k \in DOMAIN sent : sent[k] = l

DListInit ==
    /\ mem \in Memory /\ listed = FALSE /\ sent = <<>>
    /\ ready \subseteq Links
    /\ \A l \in ready : mem.head[l] = NULL

InitList ==
    /\ mem' = dlist_init(mem) /\ listed' = TRUE
    /\ UNCHANGED <<ready, sent>>

InitLink(l) ==
    /\ mem' = dlist_link_init(mem, l)
    /\ ready' = ready \cup {l}
    /\ UNCHANGED <<listed, sent>>

Overwrite(l) ==
    /\ \E h \in {NULL, List} : mem' = [mem EXCEPT !.head[l] = h]
    /\ ready' = ready \ {l}
    /\ UNCHANGED <<listed, sent>>

Add(l) ==
    /\ CanAdd(mem, l)
    /\ mem' = dlist_add_tail(mem, l)
    /\ sent' = Append(sent, l)
    /\ UNCHANGED <<listed, ready>>

RemoveHead ==
    LET l == dlist_get_head(mem) IN
    /\ l # NULL /\ CanRemove(mem, l)
    /\ mem' = dlist_remove_link(mem, l)
    /\ sent' = Tail(sent)
    /\ UNCHANGED <<listed, ready>>

DListNext ==
    \/ ~listed /\ InitList
    \/ \E l \in Links :
          \/ ~InList(l) /\ (InitLink(l) \/ Overwrite(l))
          \/ listed /\ l \in ready /\ ~InList(l) /\ Add(l)
    \/ listed /\ RemoveHead

(* The users keep to the rules of the list in whatever order they run: it  *)
(* is initialised once and before use, no link is added that was not       *)
(* initialised or is linked, and none is written to while it is linked.    *)
DListSpec == DListInit /\ [][DListNext]_listVars

----------------------------------------------------------------------------
(* The k-th node of the ring that holds the links of q, from 0, the list.  *)
Node(q, k) == IF k \in DOMAIN q THEN q[k] ELSE List

IsRing(m, q) ==
    /\ \A j, k \in DOMAIN q : q[j] = q[k] => j = k
    /\ \A k \in 0..Len(q) :
          /\ m.next[Node(q, k)] = Node(q, k + 1)
          /\ m.prev[Node(q, k + 1)] = Node(q, k)
    /\ \A k \in DOMAIN q : m.head[q[k]] = List

(* The pointers form the ring of what was added and not yet removed, the   *)
(* head is the oldest of it, and the debugging checks stop nobody: what is *)
(* in the list says so, and what is initialised and not in it says that.   *)
QueueIsRing ==
    listed =>
        /\ IsRing(mem, sent)
        /\ dlist_get_head(mem) = (IF sent = <<>> THEN NULL ELSE Head(sent))
        /\ \A l \in ready : CanAdd(mem, l) <=> ~InList(l)
=============================================================================

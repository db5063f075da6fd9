-------------------------------- MODULE Heap --------------------------------
(***************************************************************************)
(* src/heap_4.c, the allocator every thread, semaphore and queue of the    *)
(* firmware comes from: a list of the free blocks in the order of their    *)
(* addresses, first fit, splitting when a block is taken and joining when  *)
(* it is given back.  The scheduler is suspended in the parts that touch   *)
(* the list, so that pvPortMalloc and vPortFree are one step each; the     *)
(* reset of the minimum is not protected, and is two.                      *)
(*                                                                         *)
(* Blocks are named by the address of their header; what an application    *)
(* keeps in a block is left out.                                           *)
(***************************************************************************)
EXTENDS Integers, FiniteSetsExt

CONSTANTS
    ucHeap,      \* the address of the array
    TotalSize,   \* configTOTAL_HEAP_SIZE
    Align,       \* portBYTE_ALIGNMENT
    StructSize,  \* xHeapStructSize
    SizeMax,     \* heapSIZE_MAX
    CountMod,    \* the counters of calls wrap at this; a size_t in the code
    Tasks,       \* the tasks that reset the minimum
    Sizes,       \* a bound: the sizes that are asked for
    Counts       \* a bound: the numbers of elements that are asked for

ASSUME HeapAssumption ==
    /\ ucHeap \in Nat /\ Align \in Nat \ {0} /\ StructSize \in Nat \ {0}
    /\ StructSize % Align = 0
    /\ TotalSize \in Nat /\ TotalSize >= 2 * (StructSize + Align)
    /\ CountMod \in Nat \ {0}
    /\ SizeMax \in Nat /\ TotalSize <= SizeMax \div 2 /\ ucHeap + TotalSize <= SizeMax
    /\ Sizes \subseteq 0..SizeMax /\ Counts \subseteq 0..SizeMax

VARIABLES
    heap,   \* the list and its accounts, as prvHeapInit makes them, or NoHeap
    live,   \* history: the blocks applications have, and what each asked for
    last,   \* history: the request just made, and what it got
    loaded, \* of each task that is in the reset: what it is about to store
    overtaken,  \* history: a request was granted since the task loaded it
    raced   \* history: the minimum was overtaken when it was stored last

resets == <<loaded, overtaken, raced>>
vars == <<heap, live, last, resets>>

NULL == -2
xStart == -1     \* outside of the array; the size of its block is 0
heapMINIMUM_BLOCK_SIZE == 2 * StructSize
TopBit == (SizeMax + 1) \div 2

RoundDown(a) == a - (a % Align)
RoundUp(a) == RoundDown(a + Align - 1)

Start == RoundUp(ucHeap)
pxEnd == RoundDown(ucHeap + TotalSize - StructSize)

(* One free block, and the end marker behind it.                           *)
prvHeapInit ==
    [next |-> [p \in {xStart, Start, pxEnd} |->
                 CASE p = xStart -> Start [] p = Start -> pxEnd [] OTHER -> NULL],
     size |-> [p \in {xStart, Start, pxEnd} |-> IF p = Start THEN pxEnd - Start ELSE 0],
     allocated |-> {},                 \* the headers whose top bit is set
     xFreeBytesRemaining |-> pxEnd - Start,
     xMinimumEverFreeBytesRemaining |-> pxEnd - Start,
     xNumberOfSuccessfulAllocations |-> 0, xNumberOfSuccessfulFrees |-> 0]

(* Before the first call, with pxEnd NULL.  What a reset leaves of the old *)
(* list (xStart still points to it) is left out: the next pvPortMalloc     *)
(* writes over it, and only the statistics would look at it before.        *)
NoHeap ==
    [next |-> [p \in {xStart} |-> NULL], size |-> [p \in {xStart} |-> 0],
     allocated |-> {},
     xFreeBytesRemaining |-> 0, xMinimumEverFreeBytesRemaining |-> 0,
     xNumberOfSuccessfulAllocations |-> 0, xNumberOfSuccessfulFrees |-> 0]

NoRequest == [wanted |-> 0, got |-> NULL]

NoResets ==
    loaded = [t \in Tasks |-> NULL] /\ overtaken = {} /\ raced = FALSE

Init == heap = NoHeap /\ live = <<>> /\ last = NoRequest /\ NoResets

----------------------------------------------------------------------------
(* pvPortMalloc.                                                           *)

(* The size of the block for a request; 0 if a size_t cannot hold it.      *)
BlockSize(wanted) ==
    LET w == RoundUp(wanted + StructSize)
    IN  IF wanted = 0 \/ w > SizeMax THEN 0 ELSE w

(* Wrong on purpose: a request that fits exactly is turned down.           *)
MayFitStrictly(h, w) == 0 < w /\ w < TopBit /\ w < h.xFreeBytesRemaining

MayFit(h, w) == 0 < w /\ w < TopBit /\ w <= h.xFreeBytesRemaining

(* The blocks from which a walk along the list can go on.                  *)
Linked(h) == {p \in DOMAIN h.next : h.next[p] # NULL}

(* The block in front of the first one that is large enough, or of pxEnd.  *)
PreviousBlock(h, w) ==
    LET walk[p \in Linked(h)] ==
            LET b == h.next[p]
            IN  IF h.size[b] < w /\ h.next[b] # NULL THEN walk[b] ELSE p
    IN  walk[xStart]

(* A function with one entry more, the header made of the rest of a block. *)
Put(f, x, y) == [z \in DOMAIN f \cup {x} |-> IF z = x THEN y ELSE f[z]]

Smaller(a, b) == IF a < b THEN a ELSE b

Accounted(h, bytes) ==
    LET free == h.xFreeBytesRemaining - bytes
    IN  [h EXCEPT
          !.xFreeBytesRemaining = free,
          !.xMinimumEverFreeBytesRemaining = Smaller(free, @),
          !.xNumberOfSuccessfulAllocations = (@ + 1) % CountMod]

(* Wrong on purpose: accounts for what was asked and not for what it gets. *)
TakenAsAsked(h, prev, w) ==
    LET b == h.next[prev]
        split == h.size[b] - w > heapMINIMUM_BLOCK_SIZE
        rest == b + w
    IN  [Accounted(h, w) EXCEPT
          !.next = IF split
                   THEN [Put(@, rest, @[b]) EXCEPT ![prev] = rest, ![b] = NULL]
                   ELSE [@ EXCEPT ![prev] = h.next[b], ![b] = NULL],
          !.size = IF split
                   THEN [Put(@, rest, @[b] - w) EXCEPT ![b] = w]
                   ELSE @,
          !.allocated = @ \cup {b}]

(* Wrong on purpose: the rest of a block gets no header.                   *)
TakenNoRest(h, prev, w) ==
    LET b == h.next[prev]
    IN  [Accounted(h, w) EXCEPT
          !.next = [@ EXCEPT ![prev] = h.next[b], ![b] = NULL],
          !.size = [@ EXCEPT ![b] = w],
          !.allocated = @ \cup {b}]

(* The block behind prev is taken off the list.  If more than the minimum  *)
(* is left of it, that becomes a free block in its place.                  *)
Taken(h, prev, w) ==
    LET b == h.next[prev]
        split == h.size[b] - w > heapMINIMUM_BLOCK_SIZE
        rest == b + w
    IN  [Accounted(h, IF split THEN w ELSE h.size[b]) EXCEPT
          !.next = IF split
                   THEN [Put(@, rest, @[b]) EXCEPT ![prev] = rest, ![b] = NULL]
                   ELSE [@ EXCEPT ![prev] = h.next[b], ![b] = NULL],
          !.size = IF split
                   THEN [Put(@, rest, @[b] - w) EXCEPT ![b] = w]
                   ELSE @,
          !.allocated = @ \cup {b}]

(* The first call makes the heap, also when it fails.                      *)
pvPortMalloc(wanted) ==
    LET h == IF heap = NoHeap THEN prvHeapInit ELSE heap
        w == BlockSize(wanted)
        prev == PreviousBlock(h, w)
        b == h.next[prev]
    IN  IF MayFit(h, w) /\ b # pxEnd
        THEN /\ heap' = Taken(h, prev, w)
             /\ live' = Put(live, b, wanted)
             /\ last' = [wanted |-> wanted, got |-> b]
             /\ overtaken' = {t \in Tasks : loaded[t] # NULL}
             /\ raced' = FALSE /\ UNCHANGED loaded
        ELSE /\ heap' = h
             /\ last' = [wanted |-> wanted, got |-> NULL]
             /\ UNCHANGED <<live, resets>>

(* heapMULTIPLY_WILL_OVERFLOW.                                             *)
Overflows(a, b) == a > 0 /\ b > SizeMax \div a

pvPortCalloc(num, each) ==
    IF Overflows(num, each)
    THEN last' = NoRequest /\ UNCHANGED <<heap, live, resets>>
    ELSE pvPortMalloc(num * each)

----------------------------------------------------------------------------
(* vPortFree and prvInsertBlockIntoFreeList.                               *)

(* The last free block, or xStart, below address a.                        *)
Iterator(h, a) ==
    LET walk[p \in Linked(h)] == IF h.next[p] < a THEN walk[h.next[p]] ELSE p
    IN  walk[xStart]

(* Wrong on purpose: it is not joined with the block behind it.            *)
InsertedNoJoin(h, a) ==
    LET it == Iterator(h, a)
        joined == it + h.size[it] = a
        b == IF joined THEN it ELSE a
        sz == IF joined THEN h.size[it] + h.size[a] ELSE h.size[a]
        heads == DOMAIN h.next \ (IF joined THEN {a} ELSE {})
    IN  [h EXCEPT
          !.next = [p \in heads |-> CASE p = b -> h.next[it]
                                      [] p # b /\ p = it -> b
                                      [] OTHER -> h.next[p]],
          !.size = [p \in heads |-> IF p = b THEN sz ELSE h.size[p]]]

(* Block a is joined with the free blocks right before and right behind it *)
(* (never with pxEnd) and linked; the headers of what was joined are gone. *)
Inserted(h, a) ==
    LET it == Iterator(h, a)
        behind == h.next[it]
        joined == it + h.size[it] = a
        b == IF joined THEN it ELSE a
        sz == IF joined THEN h.size[it] + h.size[a] ELSE h.size[a]
        plugs == b + sz = behind /\ behind # pxEnd
        heads == DOMAIN h.next \ ((IF joined THEN {a} ELSE {}) \cup
                                  (IF plugs THEN {behind} ELSE {}))
    IN  [h EXCEPT
          !.next = [p \in heads |-> CASE p = b -> IF plugs THEN h.next[behind] ELSE behind
                                      [] p # b /\ p = it -> b
                                      [] OTHER -> h.next[p]],
          !.size = [p \in heads |-> CASE p = b -> IF plugs THEN sz + h.size[behind] ELSE sz
                                      [] OTHER -> h.size[p]]]

(* What is given back is a block that was got and not yet given back: the  *)
(* two tests for it are assertions.                                        *)
vPortFree(a) ==
    /\ a \in DOMAIN live
    /\ a \in heap.allocated /\ heap.next[a] = NULL
    /\ LET h == [heap EXCEPT !.allocated = @ \ {a},
                             !.xFreeBytesRemaining = @ + heap.size[a],
                             !.xNumberOfSuccessfulFrees = (@ + 1) % CountMod]
       IN  heap' = Inserted(h, a)
    /\ live' = [b \in DOMAIN live \ {a} |-> live[b]]
    /\ last' = NoRequest
    /\ UNCHANGED resets

(* xPortResetHeapMinimumEverFreeHeapSize reads one variable and writes the *)
(* other, with the scheduler running.                                      *)
ResetLoad(t) ==
    /\ loaded[t] = NULL
    /\ loaded' = [loaded EXCEPT ![t] = heap.xFreeBytesRemaining]
    /\ UNCHANGED <<heap, live, last, overtaken, raced>>

ResetStore(t) ==
    /\ loaded[t] # NULL
    /\ heap' = [heap EXCEPT !.xMinimumEverFreeBytesRemaining = loaded[t]]
    /\ loaded' = [loaded EXCEPT ![t] = NULL]
    /\ overtaken' = overtaken \ {t} /\ raced' = (t \in overtaken)
    /\ last' = NoRequest
    /\ UNCHANGED live

(* Before the scheduler starts anew; all that was allocated is gone, and   *)
(* so is every task.                                                       *)
vPortHeapResetState ==
    /\ heap' = NoHeap /\ live' = <<>>
    /\ last' = NoRequest
    /\ loaded' = [t \in Tasks |-> NULL] /\ overtaken' = {} /\ raced' = FALSE

Next ==
    \/ \E n \in Sizes : pvPortMalloc(n)
    \/ \E n \in Sizes, num \in Counts : pvPortCalloc(num, n)
    \/ \E a \in DOMAIN live : vPortFree(a)
    \/ \E t \in Tasks : ResetLoad(t) \/ ResetStore(t)
    \/ vPortHeapResetState

Spec == Init /\ [][Next]_vars

----------------------------------------------------------------------------
(* What is asked of the heap.                                              *)

xPortGetFreeHeapSize == heap.xFreeBytesRemaining
xPortGetMinimumEverFreeHeapSize == heap.xMinimumEverFreeBytesRemaining

(* The blocks the walk of vPortGetHeapStats finds, from a block to pxEnd.  *)
Walk ==
    LET from[p \in Linked(heap) \cup {pxEnd}] ==
            IF p = pxEnd THEN {} ELSE {p} \cup from[heap.next[p]]
    IN  IF heap.next[xStart] = NULL THEN {} ELSE from[heap.next[xStart]]

(* What vPortGetHeapStats says of the blocks and of the accounts.  It      *)
(* looks at the one with the scheduler suspended and at the other in a     *)
(* later critical section, so that the two parts may be of different       *)
(* states: nothing can be said of one against the other.                   *)
StatsOfBlocks ==
    LET sizes == {heap.size[p] : p \in Walk}
    IN  [xSizeOfLargestFreeBlockInBytes |-> Max(sizes \cup {0}),
         xSizeOfSmallestFreeBlockInBytes |-> Min(sizes \cup {SizeMax}),
         xNumberOfFreeBlocks |-> Cardinality(Walk)]

StatsOfAccounts ==
    [xAvailableHeapSpaceInBytes |-> heap.xFreeBytesRemaining,
     xNumberOfSuccessfulAllocations |-> heap.xNumberOfSuccessfulAllocations,
     xNumberOfSuccessfulFrees |-> heap.xNumberOfSuccessfulFrees,
     xMinimumEverFreeBytesRemaining |-> heap.xMinimumEverFreeBytesRemaining]

----------------------------------------------------------------------------
(* Properties.                                                             *)

Heads == DOMAIN heap.next
FreeBlocks == Heads \ ({xStart, pxEnd} \cup DOMAIN live)

(* The blocks lie one behind the other from the start of the heap to its   *)
(* end marker, each aligned, and each application's memory is inside its   *)
(* own: no call ever makes two of them overlap, or loses a byte.           *)
BlocksTileHeap ==
    /\ Heads \ {xStart} # {} => {Start, pxEnd} \subseteq Heads
    /\ \A p \in Heads \ {xStart, pxEnd} :
        /\ p \in Start..pxEnd /\ p % Align = 0
        /\ heap.size[p] > 0 /\ p + heap.size[p] \in Heads
        /\ ~\E q \in Heads : p < q /\ q < p + heap.size[p]
    /\ heap.allocated = DOMAIN live
    /\ \A a \in DOMAIN live : StructSize + live[a] <= heap.size[a]

(* The list has every free block, and only those, in the order of their    *)
(* addresses: each walk along it ends at pxEnd.                            *)
ListIsOrdered ==
    heap # NoHeap => \A p \in FreeBlocks \cup {xStart} :
        heap.next[p] = Min({q \in FreeBlocks \cup {pxEnd} : q > p})

(* No two free blocks touch, whatever was given back in whatever order: so *)
(* once all is given back the heap is one block again.                     *)
NoneTouch ==
    /\ \A p \in FreeBlocks : p + heap.size[p] \notin FreeBlocks
    /\ heap # NoHeap /\ DOMAIN live = {} => FreeBlocks = {Start}

(* The free list, which decides what a request gets, is ordered, complete  *)
(* and joined.                                                             *)
FreeListIsRight == ListIsOrdered /\ NoneTouch

(* What the heap says of itself once it is made.  Of the blocks, at the    *)
(* moment of the walk: the free ones, each between the smallest and the    *)
(* largest.  Of the accounts, at the moment they are read: the bytes that  *)
(* decide whether a request is looked at are those of the free blocks, the *)
(* calls counted are those that got a block or gave one back, and the      *)
(* least there ever was is no more than there is, unless a request was     *)
(* granted inside the last reset of it (heap_4.c:427).                     *)
StatsAreRight ==
    heap # NoHeap =>
    LET b == StatsOfBlocks
        a == StatsOfAccounts
    IN
    /\ b.xNumberOfFreeBlocks = Cardinality(FreeBlocks)
    /\ \A p \in FreeBlocks : heap.size[p] \in
           b.xSizeOfSmallestFreeBlockInBytes..b.xSizeOfLargestFreeBlockInBytes
    /\ a.xAvailableHeapSpaceInBytes = MapThenSumSet(LAMBDA p : heap.size[p], FreeBlocks)
    /\ (a.xNumberOfSuccessfulAllocations - a.xNumberOfSuccessfulFrees) % CountMod
           = Cardinality(DOMAIN live) % CountMod
    /\ raced \/ xPortGetMinimumEverFreeHeapSize \in 0..xPortGetFreeHeapSize

(* A request is turned down only if no free block is large enough.         *)
RefusedOnlyIfFull ==
    last.got = NULL /\ last.wanted > 0 =>
        \A p \in FreeBlocks : heap.size[p] < last.wanted + StructSize
=============================================================================

----------------------------- MODULE HeapProofs -----------------------------
(***************************************************************************)
(* Why the allocator keeps its heap in order, for every heap, alignment,   *)
(* sequence of requests and order of giving back.                          *)
(***************************************************************************)
EXTENDS Heap, FiniteSetTheorems, WellFoundedInduction, TLAPS

-----------------------------------------------------------------------------
(* Induction over numbers, as a statement about sets.                      *)

LEMMA LeastNatural ==
    ASSUME NEW T, T \subseteq Nat, T # {}
    PROVE  \E x \in T : \A y \in T : x <= y
<1> DEFINE R == OpToRel(<, Nat)
<1>1. IsWellFoundedOn(R, Nat)
  BY NatLessThanWellFounded
<1>2. ASSUME NEW x \in Nat, NEW y \in Nat, y < x PROVE <<y, x>> \in R
  BY <1>2 DEF OpToRel
<1> HIDE DEF R
<1>3. PICK x \in T : \A y \in T : ~(<<y, x>> \in R)
  BY <1>1, WFMin
<1>4. ASSUME NEW y \in T PROVE x <= y
  <2>1. x \in Nat /\ y \in Nat
    OBVIOUS
  <2>2. ~(y < x)
    BY <2>1, <1>2, <1>3
  <2>3. QED
    BY <2>1, <2>2
<1>5. QED
  BY <1>4

LEMMA LeastElement ==
    ASSUME NEW T, NEW lo \in Int, T \subseteq Int, \A t \in T : lo <= t, T # {}
    PROVE  \E x \in T : \A y \in T : x <= y
<1> DEFINE U == {t - lo : t \in T}
<1>1. U \subseteq Nat /\ U # {}
  <2>1. ASSUME NEW t \in T PROVE t - lo \in Nat
    <3>1. t \in Int /\ lo <= t
      OBVIOUS
    <3>2. QED
      BY <3>1
  <2>2. QED
    BY <2>1
<1> HIDE DEF U
<1>2. PICK u \in U : \A v \in U : u <= v
  BY <1>1, LeastNatural
<1>3. PICK x \in T : u = x - lo
  BY <1>2 DEF U
<1>4. ASSUME NEW y \in T PROVE x <= y
  <2>1. y - lo \in U /\ x \in Int /\ y \in Int
    BY DEF U
  <2>2. x - lo <= y - lo
    BY <1>2, <1>3, <2>1
  <2>3. QED
    BY <2>1, <2>2
<1>5. QED
  BY <1>4

LEMMA GreatestElement ==
    ASSUME NEW T, NEW hi \in Int, T \subseteq Int, \A t \in T : t <= hi, T # {}
    PROVE  \E x \in T : \A y \in T : y <= x
<1> DEFINE U == {-t : t \in T}
<1>1. U \subseteq Int /\ U # {} /\ -hi \in Int /\ \A u \in U : -hi <= u
  OBVIOUS
<1> HIDE DEF U
<1>2. PICK u \in U : \A v \in U : u <= v
  BY <1>1, LeastElement
<1>3. PICK x \in T : u = -x
  BY <1>2 DEF U
<1>4. ASSUME NEW y \in T PROVE y <= x
  <2>1. -y \in U
    BY DEF U
  <2>2. QED
    BY <1>2, <1>3, <2>1
<1>5. QED
  BY <1>4

LEMMA Induction ==
    ASSUME NEW T, 0 \in T, \A n \in Nat : n \in T => n + 1 \in T
    PROVE  Nat \subseteq T
<1>1. ASSUME Nat \ T # {} PROVE FALSE
  <2>1. PICK x \in Nat \ T : \A y \in Nat \ T : x <= y
    BY <1>1, LeastNatural
  <2>2. x # 0 /\ x - 1 \in Nat /\ (x - 1) + 1 = x /\ ~(x <= x - 1)
    BY <2>1
  <2>3. QED
    BY <2>1, <2>2
<1>2. QED
  BY <1>1

-----------------------------------------------------------------------------
(* Sums over finite sets.                                                  *)

Sum(f, S) == MapThenSumSet(LAMBDA p : f[p], S)

(* What the fold of the library recurs over.                               *)
Sums(it, f, S) ==
    it = [s \in SUBSET S |-> IF s = {} THEN 0
                             ELSE LET x == CHOOSE x \in s : TRUE IN f[x] + it[s \ {x}]]

LEMMA SumIsFold ==
    ASSUME NEW S, NEW f
    PROVE  Sum(f, S) = (CHOOSE it : Sums(it, f, S))[S]
BY DEF Sum, Sums, MapThenSumSet, MapThenFoldSet

Pick(s) == CHOOSE x \in s : TRUE

LEMMA PickIn == ASSUME NEW s, s # {} PROVE Pick(s) \in s
BY DEF Pick

LEMMA Smallest ==
    ASSUME NEW S, IsFiniteSet(S), NEW s \in SUBSET S, NEW x \in s
    PROVE  /\ Cardinality(s) \in Nat \ {0} /\ s \ {x} \in SUBSET S
           /\ Cardinality(s \ {x}) = Cardinality(s) - 1
<1>1. IsFiniteSet(s)
  BY FS_Subset
<1>2. QED
  BY <1>1, FS_RemoveElement, FS_CardinalityType, FS_EmptySet

(* What the fold recurs over is a function, so that there is a sum.        *)
LEMMA SumsExist ==
    ASSUME NEW S, IsFiniteSet(S), NEW f, \A x \in S : f[x] \in Nat
    PROVE  \E it \in [SUBSET S -> Nat] : Sums(it, f, S)
<1> DEFINE Level(n) == {s \in SUBSET S : Cardinality(s) <= n}
           Value(it, s) == IF s = {} THEN 0 ELSE f[Pick(s)] + it[s \ {Pick(s)}]
           T == {n \in Nat : \E it \in [Level(n) -> Nat] : \A s \in Level(n) : it[s] = Value(it, s)}
<1>1. \A s \in SUBSET S : IsFiniteSet(s) /\ Cardinality(s) \in Nat /\ Cardinality(s) <= Cardinality(S)
  BY FS_Subset, FS_CardinalityType
<1>2. 0 \in T
  <2> DEFINE it == [s \in Level(0) |-> 0]
  <2>1. \A s \in Level(0) : s = {}
    BY <1>1, FS_EmptySet
  <2>2. it \in [Level(0) -> Nat] /\ \A s \in Level(0) : it[s] = Value(it, s)
    BY <2>1
  <2>3. QED
    BY <2>2
<1>3. ASSUME NEW n \in Nat, n \in T PROVE n + 1 \in T
  <2>1. PICK it \in [Level(n) -> Nat] : \A s \in Level(n) : it[s] = Value(it, s)
    BY <1>3
  <2> DEFINE jt == [s \in Level(n + 1) |-> Value(it, s)]
  <2>2. Level(n) \subseteq Level(n + 1)
    BY <1>1
  <2>3. ASSUME NEW s \in Level(n + 1), s # {}
        PROVE  /\ Pick(s) \in s /\ f[Pick(s)] \in Nat
               /\ s \ {Pick(s)} \in Level(n)
    <3>1. Pick(s) \in s
      BY <2>3, PickIn
    <3>2. /\ Cardinality(s) \in Nat \ {0} /\ s \ {Pick(s)} \in SUBSET S
          /\ Cardinality(s \ {Pick(s)}) = Cardinality(s) - 1
      BY <3>1, Smallest
    <3>3. QED
      BY <3>1, <3>2
  <2>4. \A s \in Level(n + 1) : Value(it, s) \in Nat
    BY <2>1, <2>3
  <2>5. \A s \in Level(n) : jt[s] = it[s]
    BY <2>1, <2>2
  <2>6. \A s \in Level(n + 1) : jt[s] = Value(jt, s)
    BY <2>3, <2>5
  <2>7. jt \in [Level(n + 1) -> Nat]
    BY <2>4
  <2> HIDE DEF jt, Value
  <2>8. \E kt \in [Level(n + 1) -> Nat] : \A s \in Level(n + 1) : kt[s] = Value(kt, s)
    BY <2>6, <2>7
  <2>9. QED
    BY <2>8
<1>4. Cardinality(S) \in T
  <2> HIDE DEF T
  <2>1. QED
    BY <1>1, <1>2, <1>3, Induction
<1>5. Level(Cardinality(S)) = SUBSET S
  BY <1>1
<1>6. PICK it \in [SUBSET S -> Nat] : \A s \in SUBSET S : it[s] = Value(it, s)
  BY <1>4, <1>5
<1>7. Sums(it, f, S)
  BY <1>6 DEF Sums, Pick
<1>8. QED
  BY <1>7

LEMMA SumsValue ==
    ASSUME NEW S, NEW f, NEW it, Sums(it, f, S), NEW s \in SUBSET S
    PROVE  /\ s = {} => it[s] = 0
           /\ s # {} => it[s] = f[Pick(s)] + it[s \ {Pick(s)}]
BY DEF Sums, Pick

(* Sums over the same values are the same.                                 *)
LEMMA SumsAgree ==
    ASSUME NEW S, NEW R, NEW f, NEW g, NEW it, NEW jt, Sums(it, f, S), Sums(jt, g, R),
           NEW u \in SUBSET S, u \in SUBSET R, IsFiniteSet(u), \A x \in u : f[x] = g[x]
    PROVE  it[u] = jt[u]
<1> DEFINE T == {n \in Nat : \A s \in SUBSET u : Cardinality(s) = n => it[s] = jt[s]}
<1>1. 0 \in T
  <2>1. ASSUME NEW s \in SUBSET u, Cardinality(s) = 0 PROVE it[s] = jt[s]
    <3>1. s = {}
      BY <2>1, FS_Subset, FS_EmptySet
    <3>2. QED
      BY <3>1, SumsValue
  <2>2. QED
    BY <2>1
<1>2. ASSUME NEW n \in Nat, n \in T PROVE n + 1 \in T
  <2>1. ASSUME NEW s \in SUBSET u, Cardinality(s) = n + 1 PROVE it[s] = jt[s]
    <3> DEFINE x == Pick(s)
    <3>1. s # {}
      BY <2>1, FS_EmptySet
    <3>2. x \in s
      BY <3>1, PickIn
    <3> HIDE DEF x
    <3>3. s \ {x} \in SUBSET u /\ Cardinality(s \ {x}) = n
      BY <2>1, <3>2, Smallest
    <3>4. it[s \ {x}] = jt[s \ {x}]
      BY <1>2, <3>3
    <3>5. it[s] = f[x] + it[s \ {x}] /\ jt[s] = g[x] + jt[s \ {x}]
      <4>1. s \in SUBSET S /\ s \in SUBSET R
        OBVIOUS
      <4>2. it[s] = f[x] + it[s \ {x}]
        <5>1. Sums(it, f, S) /\ s \in SUBSET S
          BY <4>1
        <5>2. it[s] = f[Pick(s)] + it[s \ {Pick(s)}]
          BY <3>1, <5>1 DEF Sums, Pick
        <5>3. QED
          BY <5>2 DEF x
      <4>3. jt[s] = g[x] + jt[s \ {x}]
        <5>1. Sums(jt, g, R) /\ s \in SUBSET R
          BY <4>1
        <5>2. jt[s] = g[Pick(s)] + jt[s \ {Pick(s)}]
          BY <3>1, <5>1 DEF Sums, Pick
        <5>3. QED
          BY <5>2 DEF x
      <4>4. QED
        BY <4>2, <4>3
    <3>6. QED
      BY <3>2, <3>4, <3>5
  <2>2. QED
    BY <2>1
<1>3. Cardinality(u) \in T
  <2> HIDE DEF T
  <2>1. QED
    BY <1>1, <1>2, Induction, FS_CardinalityType
<1>4. QED
  BY <1>3

(* It does not matter which element the fold takes first.                  *)
SumsWell(it, f, S) ==
    /\ IsFiniteSet(S) /\ \A x \in S : f[x] \in Nat
    /\ it \in [SUBSET S -> Nat] /\ Sums(it, f, S)

LEMMA SumsRemove ==
    ASSUME NEW S, NEW f, NEW it, SumsWell(it, f, S), NEW e \in S
    PROVE  it[S] = f[e] + it[S \ {e}]
<1> USE DEF SumsWell
<1> DEFINE T == {n \in Nat : \A s \in SUBSET S : Cardinality(s) = n =>
                    \A x \in s : it[s] = f[x] + it[s \ {x}]}
<1>1. 0 \in T
  BY FS_Subset, FS_EmptySet
<1>2. ASSUME NEW n \in Nat, n \in T PROVE n + 1 \in T
  <2>1. ASSUME NEW s \in SUBSET S, Cardinality(s) = n + 1, NEW x \in s
        PROVE  it[s] = f[x] + it[s \ {x}]
    <3> DEFINE y == Pick(s)
    <3>1. y \in s /\ it[s] = f[y] + it[s \ {y}]
      BY PickIn, SumsValue
    <3> HIDE DEF y
    <3>2. CASE x = y
      BY <3>1, <3>2
    <3>3. CASE x # y
      <4>1. s \ {x} \in SUBSET S /\ Cardinality(s \ {x}) = n /\ y \in s \ {x}
        BY <2>1, <3>1, <3>3, Smallest
      <4>2. s \ {y} \in SUBSET S /\ Cardinality(s \ {y}) = n /\ x \in s \ {y}
        BY <2>1, <3>1, <3>3, Smallest
      <4>3. it[s \ {x}] = f[y] + it[(s \ {x}) \ {y}]
        BY <1>2, <4>1
      <4>4. it[s \ {y}] = f[x] + it[(s \ {y}) \ {x}]
        BY <1>2, <4>2
      <4>5. (s \ {x}) \ {y} = (s \ {y}) \ {x} /\ (s \ {x}) \ {y} \in SUBSET S
        OBVIOUS
      <4>6. f[x] \in Nat /\ f[y] \in Nat /\ it[(s \ {x}) \ {y}] \in Nat
        BY <3>1, <4>5
      <4>7. it[(s \ {y}) \ {x}] = it[(s \ {x}) \ {y}]
        BY <4>5
      <4>8. QED
        BY <3>1, <4>3, <4>4, <4>6, <4>7
    <3>4. QED
      BY <3>2, <3>3
  <2>2. QED
    BY <2>1
<1>3. Cardinality(S) \in T
  <2> HIDE DEF T
  <2>1. QED
    BY <1>1, <1>2, Induction, FS_CardinalityType, FS_Subset
<1>4. S \in SUBSET S
  OBVIOUS
<1>5. QED
  BY <1>3, <1>4

(* The three facts about sums that the heap needs.                         *)
LEMMA SumIsSums ==
    ASSUME NEW S, IsFiniteSet(S), NEW f, \A x \in S : f[x] \in Nat
    PROVE  \E it \in [SUBSET S -> Nat] : Sums(it, f, S) /\ Sum(f, S) = it[S]
<1>1. PICK it \in [SUBSET S -> Nat] : Sums(it, f, S)
  BY SumsExist
<1>2. Sums(CHOOSE jt : Sums(jt, f, S), f, S)
  BY <1>1
<1>3. Sum(f, S) = it[S]
  BY <1>1, <1>2, SumIsFold, SumsAgree
<1>4. QED
  BY <1>1, <1>3

LEMMA SumSame ==
    ASSUME NEW S, IsFiniteSet(S), NEW f, NEW g, \A x \in S : f[x] \in Nat /\ f[x] = g[x]
    PROVE  Sum(f, S) = Sum(g, S)
<1>1. PICK it \in [SUBSET S -> Nat] : Sums(it, f, S) /\ Sum(f, S) = it[S]
  BY SumIsSums
<1>2. PICK jt \in [SUBSET S -> Nat] : Sums(jt, g, S) /\ Sum(g, S) = jt[S]
  BY SumIsSums
<1>3. QED
  BY <1>1, <1>2, SumsAgree

LEMMA SumEmpty == ASSUME NEW f PROVE Sum(f, {}) = 0
<1>1. PICK it \in [SUBSET {} -> Nat] : Sums(it, f, {}) /\ Sum(f, {}) = it[{}]
  BY SumIsSums, FS_EmptySet
<1>2. QED
  BY <1>1, SumsValue

LEMMA SumWithout ==
    ASSUME NEW S, IsFiniteSet(S), NEW f, \A x \in S : f[x] \in Nat
    PROVE  /\ Sum(f, S) \in Nat
           /\ \A e \in S : Sum(f, S) = f[e] + Sum(f, S \ {e})
<1>1. PICK it \in [SUBSET S -> Nat] : Sums(it, f, S) /\ Sum(f, S) = it[S]
  BY SumIsSums
<1>2. ASSUME NEW e \in S PROVE Sum(f, S) = f[e] + Sum(f, S \ {e})
  <2>1. IsFiniteSet(S \ {e})
    BY FS_Subset
  <2>2. PICK jt \in [SUBSET (S \ {e}) -> Nat] :
            Sums(jt, f, S \ {e}) /\ Sum(f, S \ {e}) = jt[S \ {e}]
    BY <2>1, SumIsSums
  <2>3. it[S \ {e}] = jt[S \ {e}]
    BY <1>1, <2>1, <2>2, SumsAgree
  <2>4. it[S] = f[e] + it[S \ {e}]
    <3>1. SumsWell(it, f, S)
      BY <1>1 DEF SumsWell
    <3>2. QED
      BY <3>1, SumsRemove
  <2>5. QED
    BY <1>1, <2>2, <2>3, <2>4
<1>3. QED
  BY <1>1, <1>2

-----------------------------------------------------------------------------
(* Addresses.                                                              *)

LEMMA Constants ==
    /\ ucHeap \in Nat /\ Align \in Nat /\ Align > 0 /\ StructSize \in Nat /\ StructSize > 0
    /\ TotalSize \in Nat /\ TotalSize >= 2 * (StructSize + Align)
    /\ StructSize % Align = 0 /\ SizeMax \in Nat /\ CountMod \in Nat /\ CountMod > 0
    /\ TotalSize <= SizeMax \div 2 /\ ucHeap + TotalSize <= SizeMax
    /\ \A n \in Sizes : n \in Nat
    /\ \A n \in Counts : n \in Nat
    /\ TopBit \in Nat /\ TotalSize <= TopBit /\ TopBit <= SizeMax
BY HeapAssumption DEF HeapAssumption, TopBit

Aligned(a) == a % Align = 0

LEMMA AlignedSum ==
    ASSUME NEW a \in Int, NEW b \in Int, Aligned(a), Aligned(b)
    PROVE  Aligned(a + b) /\ Aligned(a - b)
<1> DEFINE k == a \div Align
           q == b \div Align
<1>1. k \in Int /\ q \in Int /\ a = Align * k /\ b = Align * q
  BY Constants DEF Aligned
<1> HIDE DEF k, q
<1>2. a + b = Align * (k + q) /\ a - b = Align * (k - q)
  BY <1>1, Constants
<1>3. ASSUME NEW j \in Int PROVE (Align * j) % Align = 0
  <2>1. Align \in Int /\ Align > 0
    BY Constants
  <2>2. QED
    BY <2>1
<1>4. k + q \in Int /\ k - q \in Int
  BY <1>1
<1>5. QED
  BY <1>2, <1>3, <1>4 DEF Aligned

LEMMA RoundedDown ==
    ASSUME NEW a \in Int
    PROVE  /\ RoundDown(a) \in Int /\ Aligned(RoundDown(a))
           /\ RoundDown(a) <= a /\ a < RoundDown(a) + Align
<1> DEFINE k == a \div Align
<1>1. k \in Int /\ a = Align * k + (a % Align) /\ a % Align \in 0..(Align - 1)
  BY Constants
<1> HIDE DEF k
<1>2. RoundDown(a) = Align * k /\ Align * k \in Int
  BY <1>1, Constants DEF RoundDown
<1>3. (Align * k) % Align = 0
  <2>1. Align \in Int /\ Align > 0 /\ k \in Int
    BY <1>1, Constants
  <2>2. QED
    BY <2>1
<1>4. QED
  BY <1>1, <1>2, <1>3, Constants DEF Aligned

LEMMA RoundedUp ==
    ASSUME NEW a \in Int
    PROVE  /\ RoundUp(a) \in Int /\ Aligned(RoundUp(a))
           /\ a <= RoundUp(a) /\ RoundUp(a) < a + Align
<1>1. a + Align - 1 \in Int
  BY Constants
<1>2. QED
  BY <1>1, RoundedDown, Constants DEF RoundUp

(* Where the array begins and where the end marker is.                     *)
LEMMA Ends ==
    /\ Start \in Nat /\ pxEnd \in Nat /\ Start < pxEnd
    /\ Aligned(Start) /\ Aligned(pxEnd)
    /\ pxEnd - Start < TopBit
    /\ xStart \in Int /\ NULL \in Int /\ xStart < 0 /\ xStart < Start /\ NULL < xStart
    /\ pxEnd <= SizeMax
<1>1. ucHeap \in Int /\ ucHeap + TotalSize - StructSize \in Int
  BY Constants
<1>2. /\ Start \in Int /\ Aligned(Start) /\ ucHeap <= Start /\ Start < ucHeap + Align
      /\ pxEnd \in Int /\ Aligned(pxEnd) /\ pxEnd <= ucHeap + TotalSize - StructSize
      /\ ucHeap + TotalSize - StructSize < pxEnd + Align
  BY <1>1, RoundedDown, RoundedUp DEF Start, pxEnd
<1>3. QED
  BY <1>1, <1>2, Constants DEF xStart, NULL

-----------------------------------------------------------------------------
(* Walks along a list in the order of its addresses.                       *)

IsNext(S, p, n) == n \in S /\ p < n /\ \A q \in S : p < q => n <= q

(* The list of the elements of L, with end behind it.                      *)
IsList(L, end, nx) ==
    /\ L \subseteq Int /\ end \in Int /\ L # {}
    /\ \E lo \in Int : \A p \in L : lo <= p
    /\ \A p \in L : p < end /\ IsNext(L \cup {end}, p, nx[p])

LEMMA ListFacts ==
    ASSUME NEW L, NEW end, NEW nx, IsList(L, end, nx)
    PROVE  /\ L \subseteq Int /\ L # {} /\ end \in Int /\ end \notin L
           /\ \A p \in L : /\ p \in Int /\ p < end /\ p <= end
                         /\ nx[p] \in L \cup {end} /\ nx[p] \in Int /\ p < nx[p]
                         /\ \A q \in L : p < q => nx[p] <= q
<1>1. L \subseteq Int /\ L # {} /\ end \in Int /\ \A p \in L : p < end /\ IsNext(L \cup {end}, p, nx[p])
  BY DEF IsList
<1>2. ASSUME NEW p \in L
      PROVE  /\ p \in Int /\ p < end /\ p <= end
             /\ nx[p] \in L \cup {end} /\ nx[p] \in Int /\ p < nx[p]
             /\ \A q \in L : p < q => nx[p] <= q
  <2>1. p \in Int /\ p < end /\ IsNext(L \cup {end}, p, nx[p])
    BY <1>1
  <2>2. p <= end
    BY <1>1, <2>1
  <2>3. QED
    BY <1>1, <2>1, <2>2 DEF IsNext
<1>3. end \notin L
  BY <1>1
<1>4. QED
  BY <1>1, <1>2, <1>3

(* A walk that stops at the first element of Stop it comes to.             *)
Walks(f, L, nx, Stop) == \A p \in L : f[p] = IF p \in Stop THEN p ELSE f[nx[p]]

(* The walk from p ends at q.                                              *)
FirstStop(L, Stop, p, q) == q \in Stop /\ p <= q /\ \A r \in L : p <= r /\ r < q => r \notin Stop

LEMMA WalkEnds ==
    ASSUME NEW L, NEW end, NEW nx, IsList(L, end, nx),
           NEW Stop, Stop \subseteq L, \A p \in L : nx[p] = end => p \in Stop,
           NEW f, Walks(f, L, nx, Stop),
           NEW p \in L
    PROVE  FirstStop(L, Stop, p, f[p])
<1> DEFINE T == {x \in L : ~FirstStop(L, Stop, x, f[x])}
<1>1. ASSUME T # {} PROVE FALSE
  <2>1. T \subseteq Int /\ end \in Int /\ \A x \in T : x <= end
    BY ListFacts
  <2>2. PICK x \in T : \A y \in T : y <= x
    BY <1>1, <2>1, GreatestElement
  <2>3. x \in L /\ ~FirstStop(L, Stop, x, f[x]) /\ x \in Int
    BY <2>1, <2>2
  <2>4. CASE x \in Stop
    <3>1. f[x] = x
      BY <2>3, <2>4 DEF Walks
    <3>2. \A r \in L : ~(x <= r /\ r < x)
      BY <2>3 DEF IsList
    <3>3. QED
      BY <2>3, <2>4, <3>1, <3>2 DEF FirstStop
  <2>5. CASE x \notin Stop
    <3> DEFINE y == nx[x]
    <3>1. f[x] = f[y]
      BY <2>3, <2>5 DEF Walks
    <3>2. y \in L /\ x < y /\ y \in Int /\ \A r \in L : x < r => y <= r
      BY <2>3, <2>5 DEF IsList, IsNext
    <3>3. FirstStop(L, Stop, y, f[y])
      <4>1. y \notin T
        BY <2>2, <2>3, <3>2
      <4>2. QED
        BY <3>2, <4>1
    <3> HIDE DEF y
    <3>4. f[y] \in Stop /\ f[y] \in Int /\ y <= f[y] /\ \A r \in L : y <= r /\ r < f[y] => r \notin Stop
      BY <3>3 DEF FirstStop, IsList
    <3>5. x <= f[y]
      BY <2>3, <3>2, <3>4
    <3>6. ASSUME NEW r \in L, x <= r, r < f[y] PROVE r \notin Stop
      <4>1. r \in Int
        BY DEF IsList
      <4>2. r = x \/ y <= r
        BY <2>3, <3>2, <3>6, <4>1
      <4>3. QED
        BY <2>5, <3>4, <3>6, <4>2
    <3>7. QED
      BY <2>3, <3>1, <3>4, <3>5, <3>6 DEF FirstStop
  <2>6. QED
    BY <2>4, <2>5
<1>2. QED
  BY <1>1

LEMMA WalkExists ==
    ASSUME NEW L, NEW end, NEW nx, IsList(L, end, nx),
           NEW Stop, Stop \subseteq L, \A p \in L : nx[p] = end => p \in Stop
    PROVE  \E f \in [L -> L] : Walks(f, L, nx, Stop)
<1> DEFINE Ahead(p) == {q \in Stop : p <= q}
           First(p) == CHOOSE q \in Ahead(p) : \A r \in Ahead(p) : q <= r
           f == [p \in L |-> First(p)]
<1>1. ASSUME NEW p \in L PROVE Ahead(p) # {}
  <2> DEFINE T == {x \in L : p <= x}
  <2>1. T \subseteq Int /\ end \in Int /\ (\A x \in T : x <= end) /\ p \in T
    BY ListFacts
  <2>2. PICK x \in T : \A y \in T : y <= x
    BY <2>1, GreatestElement
  <2>3. nx[x] = end
    <3>1. x \in L /\ x \in Int /\ p \in Int /\ p <= x
      BY <2>1, <2>2
    <3>2. nx[x] \in L \cup {end} /\ x < nx[x] /\ L \subseteq Int
      BY <3>1 DEF IsList, IsNext
    <3>3. ASSUME nx[x] \in L PROVE FALSE
      <4>1. p <= nx[x] /\ nx[x] \in Int
        BY <3>1, <3>3, ListFacts
      <4>2. nx[x] <= x
        BY <2>2, <3>3, <4>1
      <4>3. QED
        BY <3>1, <3>2, <4>1, <4>2
    <3>4. QED
      BY <3>2, <3>3
  <2>4. QED
    BY <2>2, <2>3
<1>2. ASSUME NEW p \in L
      PROVE  First(p) \in Ahead(p) /\ \A r \in Ahead(p) : First(p) <= r
  <2>1. Ahead(p) \subseteq Int /\ p \in Int /\ \A t \in Ahead(p) : p <= t
    BY DEF IsList
  <2>2. \E x \in Ahead(p) : \A y \in Ahead(p) : x <= y
    BY <1>1, <2>1, LeastElement
  <2>3. QED
    BY <2>2
<1>3. ASSUME NEW p \in L PROVE f[p] = IF p \in Stop THEN p ELSE f[nx[p]]
  <2>1. p \in Int /\ L \subseteq Int /\ First(p) \in Int
    BY <1>2 DEF IsList
  <2>2. CASE p \in Stop
    <3>1. p \in Ahead(p)
      BY <2>1, <2>2
    <3>2. First(p) <= p /\ p <= First(p)
      BY <1>2, <3>1
    <3>3. QED
      BY <2>1, <2>2, <3>2
  <2>3. CASE p \notin Stop
    <3> DEFINE y == nx[p]
    <3>1. y \in L /\ p < y /\ y \in Int /\ \A r \in L : p < r => y <= r
      BY <2>3 DEF IsList, IsNext
    <3>2. Ahead(p) = Ahead(y)
      <4>1. \A q \in Stop : q \in Int /\ q \in L /\ q # p
        BY <2>1, <2>3
      <4>2. \A q \in Stop : p <= q <=> y <= q
        BY <2>1, <3>1, <4>1
      <4>3. QED
        BY <4>2
    <3>3. First(p) = First(y)
      BY <3>2
    <3>4. f[p] = First(p) /\ f[y] = First(y)
      BY <3>1
    <3> HIDE DEF f, First
    <3>5. QED
      BY <2>3, <3>3, <3>4
  <2>4. QED
    BY <2>2, <2>3
<1>4. f \in [L -> L]
  BY <1>2
<1> HIDE DEF f
<1>5. Walks(f, L, nx, Stop)
  BY <1>3 DEF Walks
<1>6. QED
  BY <1>4, <1>5

(* The set of what a walk to the end comes by.                             *)
Collects(f, L, end, nx) == \A p \in L \cup {end} : f[p] = IF p = end THEN {} ELSE {p} \cup f[nx[p]]

Above(L, p) == {q \in L : p <= q}

LEMMA NextAbove ==
    ASSUME NEW L, NEW end, NEW nx, IsList(L, end, nx), NEW p \in L
    PROVE  Above(L, p) = {p} \cup Above(L, nx[p])
<1>1. L \subseteq Int /\ p \in Int /\ end \in Int /\ (\A x \in L : x < end) /\ IsNext(L \cup {end}, p, nx[p])
  BY DEF IsList
<1> DEFINE y == nx[p]
<1>2. y \in Int /\ p < y /\ \A r \in L : p < r => y <= r
  BY <1>1 DEF IsNext
<1> HIDE DEF y
<1>3. \A q \in L : p <= q <=> (q = p \/ y <= q)
  BY <1>1, <1>2
<1>4. QED
  BY <1>3 DEF Above, y

LEMMA CollectsAll ==
    ASSUME NEW L, NEW end, NEW nx, IsList(L, end, nx), NEW f, Collects(f, L, end, nx),
           NEW p \in L \cup {end}
    PROVE  f[p] = Above(L, p)
<1>1. /\ L \subseteq Int /\ end \in Int /\ end \notin L
      /\ \A x \in L : x < end /\ x <= end /\ nx[x] \in L \cup {end} /\ x < nx[x]
  BY ListFacts
<1>2. f[end] = {} /\ Above(L, end) = {}
  <2>1. \A x \in L : ~(end <= x)
    BY <1>1
  <2>2. QED
    BY <2>1 DEF Collects, Above
<1> DEFINE T == {x \in L : f[x] # Above(L, x)}
<1>3. ASSUME T # {} PROVE FALSE
  <2>1. T \subseteq Int /\ \A x \in T : x <= end
    BY <1>1
  <2>2. PICK x \in T : \A y \in T : y <= x
    BY <1>1, <1>3, <2>1, GreatestElement
  <2>3. x \in L /\ x \in Int /\ x # end
    BY <1>1, <2>2
  <2>4. f[nx[x]] = Above(L, nx[x])
    <3>1. CASE nx[x] = end
      BY <1>2, <3>1
    <3>2. CASE nx[x] \in L
      <4>1. nx[x] \notin T
        <5>1. x < nx[x] /\ nx[x] \in Int
          BY <1>1, <2>3, <3>2
        <5>2. ~(nx[x] <= x)
          BY <2>3, <5>1
        <5>3. QED
          BY <2>2, <5>2
      <4>2. QED
        BY <3>2, <4>1
    <3>3. QED
      BY <1>1, <2>3, <3>1, <3>2
  <2>5. f[x] = {x} \cup f[nx[x]]
    BY <2>3 DEF Collects
  <2>6. f[x] = Above(L, x)
    BY <2>3, <2>4, <2>5, NextAbove
  <2>7. QED
    BY <2>2, <2>6
<1>4. QED
  BY <1>2, <1>3

LEMMA CollectExists ==
    ASSUME NEW L, NEW end, NEW nx, IsList(L, end, nx)
    PROVE  \E f \in [L \cup {end} -> SUBSET L] : Collects(f, L, end, nx)
<1> DEFINE f == [p \in L \cup {end} |-> Above(L, p)]
<1>1. f \in [L \cup {end} -> SUBSET L]
  BY DEF Above
<1>2. L \subseteq Int /\ end \in Int /\ end \notin L /\ \A x \in L : x < end /\ nx[x] \in L \cup {end}
  BY ListFacts
<1>3. Above(L, end) = {}
  <2>1. \A x \in L : ~(end <= x)
    BY <1>2
  <2>2. QED
    BY <2>1 DEF Above
<1>4. Collects(f, L, end, nx)
  BY <1>2, <1>3, NextAbove DEF Collects
<1>5. QED
  BY <1>1, <1>4

-----------------------------------------------------------------------------
(* The inductive invariant.                                                *)

(* The blocks B, of sizes sz, lie one behind the other.                    *)
Tiles(B, sz) ==
    /\ Start \in B
    /\ \A p \in B : /\ p \in Start..(pxEnd - 1) /\ Aligned(p)
                    /\ sz[p] \in Nat /\ sz[p] > 0 /\ Aligned(sz[p])
                    /\ IsNext(B \cup {pxEnd}, p, p + sz[p])

(* nx is the list of the blocks F, in the order of their addresses.        *)
Ordered(F, nx) == \A p \in F \cup {xStart} : IsNext(F \cup {pxEnd}, p, nx[p])

Apart(F, sz) == \A p \in F : p + sz[p] \notin F

Fields == {"next", "size", "allocated", "xFreeBytesRemaining", "xMinimumEverFreeBytesRemaining",
           "xNumberOfSuccessfulAllocations", "xNumberOfSuccessfulFrees"}

Blocks(h) == DOMAIN h.next \ {xStart, pxEnd}
Free(h) == Blocks(h) \ h.allocated

Shaped(h) ==
    /\ h = [f \in Fields |-> h[f]]
    /\ h.next \in [DOMAIN h.next -> Int] /\ h.size \in [DOMAIN h.next -> Int]
    /\ {xStart, pxEnd} \subseteq DOMAIN h.next
    /\ h.size[xStart] = 0 /\ h.size[pxEnd] = 0 /\ h.next[pxEnd] = NULL
    /\ h.allocated \subseteq Blocks(h)
    /\ \A a \in h.allocated : h.next[a] = NULL

Counted(h) ==
    /\ h.xFreeBytesRemaining = Sum(h.size, Free(h))
    /\ h.xMinimumEverFreeBytesRemaining \in Nat
    /\ h.xNumberOfSuccessfulAllocations \in Nat /\ h.xNumberOfSuccessfulFrees \in Nat
    /\ (h.xNumberOfSuccessfulAllocations - h.xNumberOfSuccessfulFrees) % CountMod
           = Cardinality(h.allocated) % CountMod

WellMade(h) ==
    /\ Shaped(h) /\ Counted(h)
    /\ Tiles(Blocks(h), h.size) /\ Ordered(Free(h), h.next) /\ Apart(Free(h), h.size)

(* What was asked for fits what was got.                                   *)
Fits(h, asked) ==
    /\ asked \in [h.allocated -> Nat]
    /\ \A a \in h.allocated : StructSize + asked[a] <= h.size[a]

(* What a task has loaded is no more than is free now, unless a request    *)
(* was granted in between; what was stored last likewise.                  *)
ResetInv ==
    /\ loaded \in [Tasks -> Nat \cup {NULL}]
    /\ \A t \in Tasks \ overtaken : loaded[t] <= heap.xFreeBytesRemaining
    /\ raced \/ heap.xMinimumEverFreeBytesRemaining <= heap.xFreeBytesRemaining
    /\ heap = NoHeap => \A t \in Tasks : loaded[t] \in {NULL, 0}

HInv ==
    /\ \/ heap = NoHeap /\ live = <<>>
       \/ heap # NoHeap /\ WellMade(heap) /\ Fits(heap, live)
    /\ RefusedOnlyIfFull
    /\ ResetInv

-----------------------------------------------------------------------------
(* What is done to the blocks and to the list.                             *)

LEMMA TileFacts ==
    ASSUME NEW B, NEW sz, Tiles(B, sz)
    PROVE  /\ B \subseteq Nat /\ xStart \notin B /\ pxEnd \notin B /\ IsFiniteSet(B)
           /\ \A p \in B : /\ p \in Nat /\ Start <= p /\ p < pxEnd /\ xStart < p
                           /\ sz[p] \in Nat /\ sz[p] > 0 /\ p < p + sz[p]
                           /\ p + sz[p] \in B \cup {pxEnd} /\ p + sz[p] <= pxEnd
                           /\ \A q \in B : p < q => p + sz[p] <= q
<1>1. ASSUME NEW p \in B
      PROVE  /\ p \in Nat /\ Start <= p /\ p < pxEnd /\ xStart < p
             /\ sz[p] \in Nat /\ sz[p] > 0 /\ p < p + sz[p]
             /\ p + sz[p] \in B \cup {pxEnd} /\ p + sz[p] <= pxEnd
             /\ \A q \in B : p < q => p + sz[p] <= q
  <2>1. /\ p \in Start..(pxEnd - 1) /\ sz[p] \in Nat /\ sz[p] > 0
        /\ IsNext(B \cup {pxEnd}, p, p + sz[p])
    BY DEF Tiles
  <2>2. p \in Nat /\ Start <= p /\ p < pxEnd /\ xStart < p /\ p < p + sz[p]
    BY <2>1, Ends
  <2>3. QED
    BY <2>1, <2>2 DEF IsNext
<1>2. B \subseteq Start..pxEnd
  BY <1>1, Ends
<1>3. IsFiniteSet(B)
  <2>1. Start \in Int /\ pxEnd \in Int
    BY Ends
  <2>2. IsFiniteSet(Start..pxEnd)
    BY <2>1, FS_Interval
  <2>3. QED
    BY <1>2, <2>2, FS_Subset
<1>4. xStart \notin B /\ pxEnd \notin B
  <2>1. xStart \in Int /\ pxEnd \in Int /\ ~(xStart < xStart) /\ ~(pxEnd < pxEnd)
    BY Ends
  <2>2. QED
    BY <1>1, <2>1
<1>5. QED
  BY <1>1, <1>3, <1>4

LEMMA TilesSplit ==
    ASSUME NEW B, NEW sz, Tiles(B, sz), NEW b \in B, NEW w \in Nat,
           0 < w, w < sz[b], Aligned(w),
           NEW tz, tz[b] = w, tz[b + w] = sz[b] - w, \A p \in B \ {b} : tz[p] = sz[p]
    PROVE  b + w \notin B \cup {pxEnd} /\ Tiles(B \cup {b + w}, tz)
<1> DEFINE rest == b + w
<1>1. /\ b \in Nat /\ b < pxEnd /\ sz[b] \in Nat /\ b + sz[b] \in B \cup {pxEnd} /\ b + sz[b] <= pxEnd
      /\ Start <= b /\ pxEnd \in Nat /\ Start \in Nat
      /\ \A q \in B : b < q => b + sz[b] <= q
  BY TileFacts, Ends
<1>2. rest \in Nat /\ b < rest /\ rest < b + sz[b] /\ rest < pxEnd /\ Start <= rest
  BY <1>1
<1>3. rest \notin B \cup {pxEnd}
  BY <1>1, <1>2
<1>4. Aligned(rest) /\ Aligned(sz[b] - w)
  <2>1. b \in Int /\ sz[b] \in Int /\ w \in Int /\ Aligned(b) /\ Aligned(sz[b])
    BY <1>1 DEF Tiles
  <2>2. QED
    BY <2>1, AlignedSum
<1> HIDE DEF rest
<1>5. tz[rest] = sz[b] - w /\ rest + tz[rest] = b + sz[b]
  BY <1>1 DEF rest
<1>6. ASSUME NEW p \in B \cup {rest}
      PROVE  /\ p \in Start..(pxEnd - 1) /\ Aligned(p)
             /\ tz[p] \in Nat /\ tz[p] > 0 /\ Aligned(tz[p])
             /\ IsNext((B \cup {rest}) \cup {pxEnd}, p, p + tz[p])
  <2>1. CASE p = b
    <3>1. p + tz[p] = rest
      BY <2>1 DEF rest
    <3>2. \A q \in B \cup {pxEnd} : b < q => rest <= q
      BY <1>1, <1>2, TileFacts
    <3>3. QED
      BY <1>1, <1>2, <2>1, <3>1, <3>2 DEF Tiles, IsNext
  <2>2. CASE p = rest
    <3>1. \A q \in B \cup {pxEnd} : rest < q => b + sz[b] <= q
      BY <1>1, <1>2, TileFacts
    <3>2. QED
      BY <1>1, <1>2, <1>4, <1>5, <2>2, <3>1 DEF IsNext
  <2>3. CASE p \in B \ {b}
    <3>1. tz[p] = sz[p] /\ p \in Nat /\ sz[p] \in Nat /\ p # b
      BY <2>3, TileFacts
    <3>2. p < rest => p + sz[p] <= rest
      <4>1. p < b => p + sz[p] <= b
        BY <2>3, TileFacts
      <4>2. b < p => b + sz[b] <= p
        BY <1>1, <2>3
      <4>3. QED
        BY <1>1, <1>2, <3>1, <4>1, <4>2
    <3>3. QED
      BY <2>3, <3>1, <3>2 DEF Tiles, IsNext
  <2>4. QED
    BY <2>1, <2>2, <2>3
<1>7. Tiles(B \cup {rest}, tz)
  BY <1>6 DEF Tiles
<1>8. QED
  BY <1>3, <1>7 DEF rest

LEMMA TilesJoin ==
    ASSUME NEW B, NEW sz, Tiles(B, sz), NEW b \in B, NEW c \in B, b + sz[b] = c,
           NEW tz, tz[b] = sz[b] + sz[c], \A p \in B \ {b, c} : tz[p] = sz[p]
    PROVE  Tiles(B \ {c}, tz)
<1>1. /\ b \in Nat /\ sz[b] \in Nat /\ sz[c] \in Nat /\ c \in Nat /\ b < c /\ c < pxEnd /\ Start < c
      /\ sz[c] > 0 /\ c + sz[c] \in B \cup {pxEnd} /\ c < c + sz[c]
      /\ \A q \in B : c < q => c + sz[c] <= q
      /\ c + sz[c] <= pxEnd
      /\ \A q \in B : b < q => c <= q
  BY TileFacts, Ends
<1>2. ASSUME NEW p \in B \ {c}
      PROVE  /\ p \in Start..(pxEnd - 1) /\ Aligned(p)
             /\ tz[p] \in Nat /\ tz[p] > 0 /\ Aligned(tz[p])
             /\ IsNext((B \ {c}) \cup {pxEnd}, p, p + tz[p])
  <2>1. CASE p = b
    <3>1. p + tz[p] = c + sz[c]
      BY <1>1, <2>1
    <3>2. Aligned(tz[p])
      <4>1. sz[b] \in Int /\ sz[c] \in Int /\ Aligned(sz[b]) /\ Aligned(sz[c])
        BY <1>1 DEF Tiles
      <4>2. QED
        BY <2>1, <4>1, AlignedSum
    <3>3. c + sz[c] \in (B \ {c}) \cup {pxEnd}
      BY <1>1
    <3>4. \A q \in (B \ {c}) \cup {pxEnd} : b < q => c + sz[c] <= q
      <4>1. ASSUME NEW q \in B \ {c}, b < q PROVE c + sz[c] <= q
        <5>1. q \in Nat /\ c <= q /\ q # c
          BY <1>1, <4>1, TileFacts
        <5>2. c < q
          BY <1>1, <5>1
        <5>3. QED
          BY <1>1, <5>2
      <4>2. QED
        BY <1>1, <4>1
    <3>5. tz[p] \in Nat /\ tz[p] > 0 /\ b < c + sz[c]
      BY <1>1, <2>1
    <3>6. QED
      BY <2>1, <3>1, <3>2, <3>3, <3>4, <3>5 DEF Tiles, IsNext
  <2>2. CASE p # b
    <3>1. tz[p] = sz[p]
      BY <2>2
    <3>2. p + sz[p] # c
      <4>1. p \in Nat /\ sz[p] \in Nat /\ sz[p] > 0
        BY TileFacts
      <4>2. p < b => p + sz[p] <= b
        BY TileFacts
      <4>3. b < p => c <= p
        BY <1>1
      <4>4. QED
        BY <1>1, <2>2, <4>1, <4>2, <4>3
    <3>3. QED
      BY <3>1, <3>2 DEF Tiles, IsNext
  <2>3. QED
    BY <2>1, <2>2
<1>3. Start \in B \ {c}
  BY <1>1, Ends DEF Tiles
<1>4. QED
  BY <1>2, <1>3 DEF Tiles

(* A set of blocks of a heap, as addresses.                                *)
Addresses(F) == F \subseteq Int /\ \A p \in F : xStart < p /\ p < pxEnd

LEMMA OrderedFacts ==
    ASSUME NEW F, Addresses(F), NEW nx, Ordered(F, nx), NEW p \in F \cup {xStart}
    PROVE  /\ p \in Int /\ nx[p] \in Int /\ nx[p] \in F \cup {pxEnd} /\ p < nx[p] /\ p < pxEnd
           /\ \A q \in F \cup {pxEnd} : p < q => nx[p] <= q
<1>1. F \subseteq Int /\ pxEnd \in Int /\ xStart \in Int /\ xStart < pxEnd
  BY Ends DEF Addresses
<1>2. IsNext(F \cup {pxEnd}, p, nx[p])
  BY DEF Ordered
<1>3. p < pxEnd
  BY <1>1 DEF Addresses
<1>4. QED
  BY <1>1, <1>2, <1>3 DEF IsNext

LEMMA OrderedRemove ==
    ASSUME NEW F, Addresses(F), NEW nx, Ordered(F, nx),
           NEW prev \in F \cup {xStart}, nx[prev] \in F,
           NEW mx, mx[prev] = nx[nx[prev]],
           \A p \in (F \cup {xStart}) \ {prev, nx[prev]} : mx[p] = nx[p]
    PROVE  Ordered(F \ {nx[prev]}, mx)
<1> DEFINE b == nx[prev]
<1>1. /\ prev \in Int /\ b \in Int /\ pxEnd \in Int /\ xStart \in Int /\ F \subseteq Int
      /\ prev < b /\ b < pxEnd /\ \A q \in F : prev < q => b <= q
  <2>1. b \in F \cup {xStart} /\ pxEnd \in Int /\ xStart \in Int /\ F \subseteq Int
    BY Ends DEF Addresses
  <2>2. QED
    BY <2>1, OrderedFacts
<1>2. /\ nx[b] \in F \cup {pxEnd} /\ b < nx[b] /\ \A q \in F \cup {pxEnd} : b < q => nx[b] <= q
      /\ nx[b] \in Int
  BY <1>1 DEF Addresses, Ordered, IsNext
<1>3. ASSUME NEW p \in (F \ {b}) \cup {xStart} PROVE IsNext((F \ {b}) \cup {pxEnd}, p, mx[p])
  <2>1. CASE p = prev
    <3>1. ASSUME NEW q \in (F \ {b}) \cup {pxEnd}, prev < q PROVE nx[b] <= q
      <4>1. q \in Int /\ b <= q /\ q # b /\ q \in F \cup {pxEnd}
        BY <1>1, <3>1
      <4>2. b < q
        BY <1>1, <4>1
      <4>3. QED
        BY <1>2, <4>1, <4>2
    <3>2. nx[b] \in (F \ {b}) \cup {pxEnd} /\ prev < nx[b]
      BY <1>1, <1>2
    <3>3. mx[p] = nx[b]
      BY <2>1
    <3>4. QED
      BY <2>1, <3>1, <3>2, <3>3 DEF IsNext
  <2>2. CASE p # prev
    <3>1. p # b
      BY <1>1, Ends DEF Addresses
    <3>2. mx[p] = nx[p] /\ IsNext(F \cup {pxEnd}, p, nx[p]) /\ p \in Int
      BY <1>1, <2>2, <3>1 DEF Ordered
    <3>3. nx[p] # b
      <4>1. ASSUME nx[p] = b PROVE FALSE
        <5>1. p < b
          BY <3>2, <4>1 DEF IsNext
        <5>2. CASE p < prev
          <6>1. prev \in F
            <7>1. prev # xStart
              BY <1>1, <3>2, <5>2, Ends DEF Addresses
            <7>2. QED
              BY <7>1
          <6>2. nx[p] <= prev
            BY <3>2, <5>2, <6>1 DEF IsNext
          <6>3. QED
            BY <1>1, <4>1, <6>2
        <5>3. CASE prev < p
          <6>1. p \in F
            <7>1. p # xStart
              BY <1>1, <5>3, Ends DEF Addresses
            <7>2. QED
              BY <7>1
          <6>2. QED
            BY <1>1, <3>2, <5>1, <5>3, <6>1
        <5>4. QED
          BY <1>1, <2>2, <3>2, <5>2, <5>3
      <4>2. QED
        BY <4>1
    <3>4. QED
      BY <3>2, <3>3 DEF IsNext
  <2>3. QED
    BY <2>1, <2>2
<1>4. QED
  BY <1>3 DEF Ordered

LEMMA OrderedInsert ==
    ASSUME NEW F, Addresses(F), NEW nx, Ordered(F, nx),
           NEW it \in F \cup {xStart}, NEW a \in Int, it < a, a < nx[it], a < pxEnd,
           NEW mx, mx[it] = a, mx[a] = nx[it],
           \A p \in (F \cup {xStart}) \ {it} : mx[p] = nx[p]
    PROVE  Ordered(F \cup {a}, mx) /\ a \notin F
<1>1. /\ it \in Int /\ nx[it] \in Int /\ nx[it] \in F \cup {pxEnd} /\ F \subseteq Int
      /\ pxEnd \in Int /\ xStart \in Int
      /\ \A q \in F \cup {pxEnd} : it < q => nx[it] <= q
  <2>1. F \subseteq Int /\ pxEnd \in Int /\ xStart \in Int
    BY Ends DEF Addresses
  <2>2. /\ it \in Int /\ nx[it] \in Int /\ nx[it] \in F \cup {pxEnd}
        /\ \A q \in F \cup {pxEnd} : it < q => nx[it] <= q
    BY OrderedFacts
  <2>3. QED
    BY <2>1, <2>2
<1>2. a \notin F
  BY <1>1
<1>3. ASSUME NEW p \in (F \cup {a}) \cup {xStart} PROVE IsNext((F \cup {a}) \cup {pxEnd}, p, mx[p])
  <2>1. CASE p = it
    <3>1. ASSUME NEW q \in F \cup {pxEnd}, it < q PROVE a <= q
      <4>1. q \in Int /\ nx[it] <= q
        BY <1>1, <3>1
      <4>2. QED
        BY <1>1, <4>1
    <3>2. a <= a
      OBVIOUS
    <3>3. QED
      BY <2>1, <3>1, <3>2 DEF IsNext
  <2>2. CASE p = a
    <3>1. ASSUME NEW q \in (F \cup {a}) \cup {pxEnd}, a < q PROVE nx[it] <= q
      <4>1. q \in Int /\ q \in F \cup {pxEnd}
        BY <1>1, <3>1
      <4>2. it < q
        BY <1>1, <3>1, <4>1
      <4>3. QED
        BY <1>1, <4>1, <4>2
    <3>2. QED
      BY <1>1, <2>2, <3>1 DEF IsNext
  <2>3. CASE p # it /\ p # a
    <3>1. p \in F \cup {xStart} /\ p \in Int /\ mx[p] = nx[p] /\ IsNext(F \cup {pxEnd}, p, nx[p])
      BY <1>1, <2>3 DEF Ordered
    <3>2. nx[p] \in Int
      BY <1>1, <3>1 DEF IsNext
    <3>3. p < a => nx[p] <= a
      <4>1. ASSUME p < a PROVE nx[p] <= a
        <5>1. CASE it < p
          <6>1. p \in F
            <7>1. p # xStart
              BY <1>1, <3>1, <5>1, Ends DEF Addresses
            <7>2. QED
              BY <3>1, <7>1
          <6>2. nx[it] <= p
            BY <1>1, <5>1, <6>1
          <6>3. QED
            BY <1>1, <3>1, <4>1, <6>2
        <5>2. CASE p < it
          <6>1. it \in F
            <7>1. it # xStart
              BY <1>1, <3>1, <5>2, Ends DEF Addresses
            <7>2. QED
              BY <7>1
          <6>2. nx[p] <= it
            BY <3>1, <5>2, <6>1 DEF IsNext
          <6>3. QED
            BY <1>1, <3>2, <6>2
        <5>3. QED
          BY <1>1, <2>3, <3>1, <5>1, <5>2
      <4>2. QED
        BY <4>1
    <3>4. QED
      BY <3>1, <3>3 DEF IsNext
  <2>4. QED
    BY <2>1, <2>2, <2>3
<1>4. QED
  BY <1>2, <1>3 DEF Ordered

-----------------------------------------------------------------------------
(* The counters.                                                           *)

LEMMA ModShift ==
    ASSUME NEW k \in Int, NEW y \in Int
    PROVE  (CountMod * k + y) % CountMod = y % CountMod
<1>1. CountMod \in Int /\ CountMod > 0
  BY Constants
<1> DEFINE q == y \div CountMod
           r == y % CountMod
<1>2. q \in Int /\ r \in 0..(CountMod - 1) /\ y = CountMod * q + r
  BY <1>1
<1> HIDE DEF q, r
<1>3. CountMod * k + y = CountMod * (k + q) + r
  BY <1>1, <1>2
<1>4. k + q \in Int
  BY <1>2
<1>5. ASSUME NEW j \in Int PROVE (CountMod * j + r) % CountMod = r
  BY <1>1, <1>2
<1>6. QED
  BY <1>3, <1>4, <1>5 DEF r

LEMMA ModSame ==
    ASSUME NEW x \in Int, NEW y \in Int, NEW d \in Int, x % CountMod = y % CountMod
    PROVE  /\ (x + d) % CountMod = (y + d) % CountMod
           /\ (d - x) % CountMod = (d - y) % CountMod
<1>1. CountMod \in Int /\ CountMod > 0
  BY Constants
<1> DEFINE i == x \div CountMod
           j == y \div CountMod
<1>2. i \in Int /\ j \in Int /\ x - y = CountMod * i - CountMod * j
  BY <1>1
<1> HIDE DEF i, j
<1>3. /\ x + d = CountMod * (i - j) + (y + d)
      /\ d - x = CountMod * (j - i) + (d - y)
  BY <1>1, <1>2
<1>4. i - j \in Int /\ j - i \in Int /\ y + d \in Int /\ d - y \in Int
  BY <1>2
<1>5. QED
  BY <1>3, <1>4, ModShift

LEMMA CountedUp ==
    ASSUME NEW a \in Nat, NEW f \in Nat, NEW c \in Int, (a - f) % CountMod = c % CountMod
    PROVE  /\ (a + 1) % CountMod \in Nat
           /\ (((a + 1) % CountMod) - f) % CountMod = (c + 1) % CountMod
           /\ (f + 1) % CountMod \in Nat
           /\ (a - ((f + 1) % CountMod)) % CountMod = (c - 1) % CountMod
<1>1. CountMod \in Int /\ CountMod > 0
  BY Constants
<1>2. ASSUME NEW z \in Int PROVE z % CountMod \in Nat /\ (z % CountMod) % CountMod = z % CountMod
  BY <1>1
<1> DEFINE u == (a + 1) % CountMod
           v == (f + 1) % CountMod
<1>3. u \in Nat /\ u % CountMod = (a + 1) % CountMod /\ v \in Nat /\ v % CountMod = (f + 1) % CountMod
  BY <1>2
<1> HIDE DEF u, v
<1>4. (u + (-f)) % CountMod = ((a + 1) + (-f)) % CountMod
  <2>1. u \in Int /\ a + 1 \in Int /\ -f \in Int
    BY <1>3
  <2>2. QED
    BY <1>3, <2>1, ModSame, Zenon
<1>5. (a - v) % CountMod = (a - (f + 1)) % CountMod
  <2>1. v \in Int /\ f + 1 \in Int /\ a \in Int
    BY <1>3
  <2>2. QED
    BY <1>3, <2>1, ModSame, Zenon
<1>6. /\ ((a - f) + 1) % CountMod = (c + 1) % CountMod
      /\ ((a - f) + (-1)) % CountMod = (c + (-1)) % CountMod
  <2>1. a - f \in Int /\ 1 \in Int /\ -1 \in Int
    OBVIOUS
  <2>2. QED
    BY <2>1, ModSame, Zenon
<1>7. /\ u + (-f) = u - f /\ (a + 1) + (-f) = (a - f) + 1
      /\ a - (f + 1) = (a - f) + (-1) /\ c + (-1) = c - 1
  BY <1>3
<1>8. /\ (u - f) % CountMod = (c + 1) % CountMod
      /\ (a - v) % CountMod = (c - 1) % CountMod
  BY <1>4, <1>5, <1>6, <1>7, Zenon
<1>9. QED
  BY <1>3, <1>8 DEF u, v

-----------------------------------------------------------------------------
(* Where the two walks end.                                                *)

(* The list of the free blocks F of heap h.                                *)
Chain(h, F) ==
    /\ Linked(h) = F \cup {xStart} /\ Addresses(F) /\ Ordered(F, h.next)
    /\ h.next[pxEnd] = NULL

LEMMA ChainIsList ==
    ASSUME NEW h, NEW F, Chain(h, F)
    PROVE  IsList(Linked(h), pxEnd, h.next)
<1>1. /\ Linked(h) = F \cup {xStart} /\ F \subseteq Int /\ pxEnd \in Int /\ xStart \in Int /\ xStart < pxEnd
      /\ \A p \in F : xStart < p /\ p < pxEnd
  BY Ends DEF Chain, Addresses
<1>2. ASSUME NEW p \in Linked(h)
      PROVE  p < pxEnd /\ xStart <= p /\ IsNext(Linked(h) \cup {pxEnd}, p, h.next[p])
  <2>1. IsNext(F \cup {pxEnd}, p, h.next[p])
    BY <1>1 DEF Chain, Ordered
  <2>2. p \in Int /\ p < pxEnd /\ xStart <= p /\ ~(p < xStart)
    <3>1. CASE p = xStart
      BY <1>1, <3>1
    <3>2. CASE p \in F
      BY <1>1, <3>2
    <3>3. QED
      BY <1>1, <3>1, <3>2
  <2>3. QED
    BY <1>1, <2>1, <2>2 DEF IsNext
<1>3. QED
  BY <1>1, <1>2 DEF IsList

(* Each free block is behind another one.                                  *)
LEMMA Predecessor ==
    ASSUME NEW h, NEW F, Chain(h, F), NEW q \in F
    PROVE  \E p \in Linked(h) : p < q /\ h.next[p] = q
<1> DEFINE T == {x \in Linked(h) : x < q}
<1>1. Linked(h) = F \cup {xStart} /\ F \subseteq Int /\ xStart \in Int /\ xStart < q /\ q \in Int
  BY Ends DEF Chain, Addresses
<1>2. T \subseteq Int /\ (\A x \in T : x <= q) /\ xStart \in T
  <2>1. \A x \in T : x \in Int /\ x < q
    BY <1>1
  <2>2. \A x \in T : x <= q
    BY <1>1, <2>1
  <2>3. QED
    BY <1>1, <2>1, <2>2
<1>3. PICK p \in T : \A y \in T : y <= p
  BY <1>1, <1>2, GreatestElement
<1>4. /\ p \in Int /\ p < q /\ p \in Linked(h)
      /\ h.next[p] \in F \cup {pxEnd} /\ p < h.next[p] /\ h.next[p] <= q /\ h.next[p] \in Int
  <2>1. p \in F \cup {xStart} /\ p < q /\ p \in Int /\ Ordered(F, h.next) /\ Addresses(F)
    BY <1>1, <1>3 DEF Chain
  <2>2. QED
    BY <1>1, <2>1, OrderedFacts
<1>5. ~(h.next[p] < q)
  <2>1. ASSUME h.next[p] < q PROVE FALSE
    <3>1. h.next[p] # pxEnd
      BY <1>1, <2>1, Ends DEF Chain, Addresses
    <3>2. h.next[p] \in T
      BY <1>1, <1>4, <2>1, <3>1
    <3>3. h.next[p] <= p
      BY <1>3, <3>2
    <3>4. QED
      BY <1>4, <3>3
  <2>2. QED
    BY <2>1
<1>6. QED
  BY <1>1, <1>4, <1>5

LEMMA PreviousIs ==
    ASSUME NEW h, NEW F, Chain(h, F), NEW w \in Nat,
           \A p \in F \cup {pxEnd} : h.size[p] \in Int
    PROVE  LET prev == PreviousBlock(h, w) IN
           /\ prev \in F \cup {xStart}
           /\ h.next[prev] \in F \cup {pxEnd}
           /\ h.next[prev] # pxEnd => w <= h.size[h.next[prev]]
           /\ h.next[prev] = pxEnd => \A q \in F : h.size[q] < w
<1> DEFINE L == Linked(h)
           Stop == {p \in L : ~(h.size[h.next[p]] < w /\ h.next[h.next[p]] # NULL)}
           Body(f) == [p \in L |-> IF h.size[h.next[p]] < w /\ h.next[h.next[p]] # NULL
                                   THEN f[h.next[p]] ELSE p]
           walk == CHOOSE f : f = Body(f)
           prev == walk[xStart]
<1>1. PreviousBlock(h, w) = prev
  BY DEF PreviousBlock
<1>2. IsList(L, pxEnd, h.next) /\ L = F \cup {xStart}
  BY ChainIsList DEF Chain
<1>3. /\ \A p \in L : h.next[p] \in F \cup {pxEnd} /\ h.next[p] \in Int /\ p \in Int
      /\ \A p \in L : p < pxEnd /\ \A q \in F \cup {pxEnd} : p < q => h.next[p] <= q
  BY <1>2, OrderedFacts DEF Chain
<1>4. Stop \subseteq L /\ \A p \in L : h.next[p] = pxEnd => p \in Stop
  BY DEF Chain
<1>5. walk = Body(walk)
  <2>1. PICK f \in [L -> L] : Walks(f, L, h.next, Stop)
    BY <1>2, <1>4, WalkExists
  <2>2. \A p \in L : f[p] = Body(f)[p]
    BY <2>1 DEF Walks
  <2>3. f = Body(f)
    BY <2>1, <2>2
  <2> HIDE DEF Body
  <2>4. QED
    BY <2>3
<1>6. Walks(walk, L, h.next, Stop)
  <2> HIDE DEF walk
  <2>1. QED
    BY <1>5 DEF Walks
<1> HIDE DEF walk, Body
<1>7. FirstStop(L, Stop, xStart, prev)
  <2>1. xStart \in L
    BY <1>2
  <2>2. QED
    BY <1>2, <1>4, <1>6, <2>1, WalkEnds
<1> HIDE DEF prev
<1>8. prev \in Stop /\ prev \in L /\ xStart <= prev /\ \A r \in L : xStart <= r /\ r < prev => r \notin Stop
  BY <1>7 DEF FirstStop
<1>9. ASSUME h.next[prev] # pxEnd PROVE w <= h.size[h.next[prev]]
  <2>1. h.next[prev] \in F /\ h.size[h.next[prev]] \in Int
    BY <1>3, <1>8, <1>9
  <2>2. h.next[h.next[prev]] # NULL
    BY <2>1, Ends, <1>2 DEF Linked
  <2>3. ~(h.size[h.next[prev]] < w)
    BY <1>8, <2>2
  <2>4. QED
    BY <2>1, <2>3
<1>10. ASSUME h.next[prev] = pxEnd, NEW q \in F PROVE h.size[q] < w
  <2>1. PICK p \in L : p < q /\ h.next[p] = q
    BY Predecessor
  <2>2. q \in Int /\ prev \in Int /\ p \in Int /\ q < pxEnd /\ pxEnd \in Int /\ xStart <= p /\ q \in F \cup {pxEnd}
    BY <1>2, <1>3, <1>8, <2>1, Ends DEF Chain, Addresses
  <2>3. ~(prev < q)
    BY <1>3, <1>8, <1>10, <2>2
  <2>4. p < prev
    BY <2>1, <2>2, <2>3
  <2>5. p \notin Stop
    BY <1>8, <2>2, <2>4
  <2>6. QED
    BY <2>1, <2>5
<1>11. QED
  BY <1>1, <1>2, <1>3, <1>8, <1>9, <1>10

LEMMA IteratorIs ==
    ASSUME NEW h, NEW F, Chain(h, F), NEW a \in Nat, a \notin F, a < pxEnd
    PROVE  LET it == Iterator(h, a) IN
           /\ it \in F \cup {xStart} /\ it < a /\ a < h.next[it]
           /\ \A q \in F : q < a => q <= it
<1> DEFINE L == Linked(h)
           Stop == {p \in L : ~(h.next[p] < a)}
           Body(f) == [p \in L |-> IF h.next[p] < a THEN f[h.next[p]] ELSE p]
           walk == CHOOSE f : f = Body(f)
           it == walk[xStart]
<1>1. Iterator(h, a) = it
  BY DEF Iterator
<1>2. IsList(L, pxEnd, h.next) /\ L = F \cup {xStart}
  BY ChainIsList DEF Chain
<1>3. /\ \A p \in L : h.next[p] \in F \cup {pxEnd} /\ h.next[p] \in Int /\ p \in Int
      /\ \A p \in L : p < pxEnd /\ \A q \in F \cup {pxEnd} : p < q => h.next[p] <= q
  BY <1>2, OrderedFacts DEF Chain
<1>4. Stop \subseteq L /\ \A p \in L : h.next[p] = pxEnd => p \in Stop
  BY Ends
<1>5. walk = Body(walk)
  <2>1. PICK f \in [L -> L] : Walks(f, L, h.next, Stop)
    BY <1>2, <1>4, WalkExists
  <2>2. \A p \in L : f[p] = Body(f)[p]
    BY <2>1 DEF Walks
  <2>3. f = Body(f)
    BY <2>1, <2>2
  <2> HIDE DEF Body
  <2>4. QED
    BY <2>3
<1>6. Walks(walk, L, h.next, Stop)
  <2> HIDE DEF walk
  <2>1. QED
    BY <1>5 DEF Walks
<1> HIDE DEF walk, Body
<1>7. FirstStop(L, Stop, xStart, it)
  <2>1. xStart \in L
    BY <1>2
  <2>2. QED
    BY <1>2, <1>4, <1>6, <2>1, WalkEnds
<1> HIDE DEF it
<1>8. it \in Stop /\ it \in L /\ xStart <= it /\ \A r \in L : xStart <= r /\ r < it => r \notin Stop
  BY <1>7 DEF FirstStop
<1>9. a < h.next[it]
  <2>1. h.next[it] # a /\ h.next[it] \in Int /\ ~(h.next[it] < a)
    BY <1>3, <1>8, Ends
  <2>2. QED
    BY <2>1
<1>10. it < a
  <2>1. CASE it = xStart
    BY <2>1, Ends
  <2>2. CASE it \in F
    <3>1. PICK p \in L : p < it /\ h.next[p] = it
      BY <2>2, Predecessor
    <3>2. xStart <= p
      <4>1. IsList(L, pxEnd, h.next) /\ p \in Int /\ xStart \in Int
        BY <1>2, <1>3, Ends
      <4>2. p # xStart => xStart < p
        BY <1>2, <3>1 DEF Chain, Addresses
      <4>3. QED
        BY <4>1, <4>2
    <3>3. p \notin Stop
      BY <1>8, <3>1, <3>2
    <3>4. QED
      BY <3>1, <3>3
  <2>3. QED
    BY <1>2, <1>8, <2>1, <2>2
<1>11. ASSUME NEW q \in F, q < a PROVE q <= it
  <2>1. q \in Int /\ it \in Int /\ h.next[it] \in Int /\ q \in F \cup {pxEnd}
    BY <1>3, <1>8 DEF Chain, Addresses
  <2>2. it < q => h.next[it] <= q
    BY <1>3, <1>8, <2>1
  <2>3. QED
    BY <1>9, <1>11, <2>1, <2>2
<1>12. QED
  BY <1>1, <1>2, <1>8, <1>9, <1>10, <1>11

-----------------------------------------------------------------------------
(* Taking a block.                                                         *)

LEMMA WellFacts ==
    ASSUME NEW h, WellMade(h)
    PROVE  /\ Chain(h, Free(h)) /\ IsFiniteSet(Blocks(h)) /\ IsFiniteSet(Free(h))
           /\ DOMAIN h.next = Blocks(h) \cup {xStart, pxEnd} /\ DOMAIN h.size = DOMAIN h.next
           /\ h.allocated \subseteq Blocks(h) /\ Blocks(h) = Free(h) \cup h.allocated
           /\ IsFiniteSet(h.allocated)
           /\ \A p \in Blocks(h) : h.size[p] \in Nat /\ h.size[p] > 0
           /\ \A p \in Free(h) : h.size[p] \in Nat
           /\ \A p \in Free(h) \cup {pxEnd} : h.size[p] \in Int
           /\ h.xFreeBytesRemaining \in Nat
<1>1. /\ h.next \in [DOMAIN h.next -> Int] /\ h.size \in [DOMAIN h.next -> Int]
      /\ {xStart, pxEnd} \subseteq DOMAIN h.next /\ h.size[pxEnd] = 0 /\ h.next[pxEnd] = NULL
      /\ h.allocated \subseteq Blocks(h) /\ \A a \in h.allocated : h.next[a] = NULL
  BY DEF WellMade, Shaped
<1>2. /\ Tiles(Blocks(h), h.size) /\ Ordered(Free(h), h.next)
      /\ h.xFreeBytesRemaining = Sum(h.size, Free(h))
  BY DEF WellMade, Counted
<1>3. Blocks(h) = Free(h) \cup h.allocated /\ DOMAIN h.next = Blocks(h) \cup {xStart, pxEnd}
  BY <1>1 DEF Free, Blocks
<1>4. /\ IsFiniteSet(Blocks(h))
      /\ \A p \in Blocks(h) : p \in Nat /\ xStart < p /\ p < pxEnd /\ h.size[p] \in Nat /\ h.size[p] > 0
  BY <1>2, TileFacts
<1>5. IsFiniteSet(Free(h)) /\ IsFiniteSet(h.allocated)
  BY <1>3, <1>4, FS_Subset
<1>6. Addresses(Free(h))
  BY <1>3, <1>4 DEF Addresses
<1>7. \A p \in Free(h) \cup {xStart} : p < h.next[p] /\ h.next[p] \in Int /\ p \in Int /\ xStart <= p
  <2>1. \A p \in Free(h) \cup {xStart} : p < h.next[p] /\ h.next[p] \in Int /\ p \in Int
    BY <1>2, <1>6, OrderedFacts
  <2>2. \A p \in Free(h) : xStart < p
    BY <1>6 DEF Addresses
  <2>3. QED
    BY <2>1, <2>2, Ends
<1>8. Linked(h) = Free(h) \cup {xStart}
  <2>1. \A p \in Free(h) \cup {xStart} : h.next[p] # NULL
    BY <1>7, Ends
  <2>2. QED
    BY <1>1, <1>3, <2>1 DEF Linked
<1>9. Chain(h, Free(h))
  BY <1>1, <1>2, <1>6, <1>8 DEF Chain
<1>10. h.xFreeBytesRemaining \in Nat
  BY <1>2, <1>3, <1>4, <1>5, SumWithout
<1>11. QED
  BY <1>1, <1>3, <1>4, <1>5, <1>9, <1>10

LEMMA InitHeap ==
    /\ WellMade(prvHeapInit) /\ prvHeapInit.allocated = {} /\ Free(prvHeapInit) = {Start}
    /\ prvHeapInit # NoHeap
    /\ prvHeapInit.xMinimumEverFreeBytesRemaining = prvHeapInit.xFreeBytesRemaining
<1> DEFINE h == prvHeapInit
<1>1. /\ Start \in Nat /\ pxEnd \in Nat /\ Start < pxEnd /\ xStart < 0 /\ xStart \in Int /\ NULL \in Int
      /\ xStart # Start /\ xStart # pxEnd /\ Start # pxEnd /\ Aligned(Start) /\ Aligned(pxEnd)
      /\ pxEnd - Start \in Nat /\ pxEnd - Start > 0 /\ Start + (pxEnd - Start) = pxEnd
  BY Ends
<1>2. h = [f \in Fields |-> h[f]]
  BY DEF prvHeapInit, Fields
<1>3. /\ DOMAIN h.next = {xStart, Start, pxEnd} /\ DOMAIN h.size = {xStart, Start, pxEnd}
      /\ h.next \in [{xStart, Start, pxEnd} -> Int] /\ h.size \in [{xStart, Start, pxEnd} -> Int]
      /\ h.next[xStart] = Start /\ h.next[Start] = pxEnd /\ h.next[pxEnd] = NULL
      /\ h.size[xStart] = 0 /\ h.size[Start] = pxEnd - Start /\ h.size[pxEnd] = 0
  BY <1>1 DEF prvHeapInit
<1>4. /\ h.allocated = {} /\ h.xFreeBytesRemaining = pxEnd - Start
      /\ h.xMinimumEverFreeBytesRemaining = pxEnd - Start
      /\ h.xNumberOfSuccessfulAllocations = 0 /\ h.xNumberOfSuccessfulFrees = 0
  BY DEF prvHeapInit
<1>5. h # NoHeap
  <2>1. DOMAIN NoHeap.next = {xStart}
    BY DEF NoHeap
  <2>2. QED
    BY <1>1, <1>3, <2>1
<1> HIDE DEF h
<1>6. Blocks(h) = {Start} /\ Free(h) = {Start}
  BY <1>1, <1>3, <1>4 DEF Blocks, Free
<1>7. Shaped(h)
  BY <1>2, <1>3, <1>4 DEF Shaped
<1>8. Tiles(Blocks(h), h.size)
  <2>1. Aligned(pxEnd - Start)
    BY <1>1, AlignedSum
  <2>2. Start \in Start..(pxEnd - 1)
    BY <1>1
  <2>3. IsNext({Start} \cup {pxEnd}, Start, Start + h.size[Start])
    BY <1>1, <1>3 DEF IsNext
  <2>4. QED
    BY <1>1, <1>3, <1>6, <2>1, <2>2, <2>3 DEF Tiles
<1>9. Ordered(Free(h), h.next)
  BY <1>1, <1>3, <1>6 DEF Ordered, IsNext
<1>10. Apart(Free(h), h.size)
  BY <1>1, <1>3, <1>6 DEF Apart
<1>11. Counted(h)
  <2>1. Sum(h.size, {Start}) = h.size[Start] + Sum(h.size, {Start} \ {Start})
    <3>1. IsFiniteSet({Start}) /\ Start \in {Start} /\ \A x \in {Start} : h.size[x] \in Nat
      BY <1>1, <1>3, FS_Singleton
    <3>2. QED
      BY <3>1, SumWithout
  <2>2. Sum(h.size, {Start} \ {Start}) = 0
    <3>1. {Start} \ {Start} = {}
      OBVIOUS
    <3>2. QED
      BY <3>1, SumEmpty
  <2>3. Cardinality({}) = 0
    BY FS_EmptySet
  <2>4. QED
    BY <1>1, <1>3, <1>4, <1>6, <2>1, <2>2, <2>3 DEF Counted
<1>12. QED
  BY <1>4, <1>5, <1>6, <1>7, <1>8, <1>9, <1>10, <1>11 DEF WellMade, h

(* t is heap h after the w bytes of the block b behind prev were taken.    *)
IsTaken(h, prev, w, b, t) ==
    LET split == h.size[b] - w > heapMINIMUM_BLOCK_SIZE
        rest == b + w
    IN
    /\ t = [f \in Fields |-> t[f]]
    /\ split => /\ t.next = [Put(h.next, rest, h.next[b]) EXCEPT ![prev] = rest, ![b] = NULL]
                /\ t.size = [Put(h.size, rest, h.size[b] - w) EXCEPT ![b] = w]
                /\ t.xFreeBytesRemaining = h.xFreeBytesRemaining - w
    /\ ~split => /\ t.next = [h.next EXCEPT ![prev] = h.next[b], ![b] = NULL]
                 /\ t.size = h.size
                 /\ t.xFreeBytesRemaining = h.xFreeBytesRemaining - h.size[b]
    /\ t.allocated = h.allocated \cup {b}
    /\ t.xMinimumEverFreeBytesRemaining =
           Smaller(t.xFreeBytesRemaining, h.xMinimumEverFreeBytesRemaining)
    /\ t.xNumberOfSuccessfulAllocations = (h.xNumberOfSuccessfulAllocations + 1) % CountMod
    /\ t.xNumberOfSuccessfulFrees = h.xNumberOfSuccessfulFrees

LEMMA TakenIs ==
    ASSUME NEW h, Shaped(h), NEW prev, NEW w
    PROVE  IsTaken(h, prev, w, h.next[prev], Taken(h, prev, w))
<1>1. h = [f \in Fields |-> h[f]] /\ DOMAIN h = Fields
  BY DEF Shaped
<1> DEFINE b == h.next[prev]
           split == h.size[b] - w > heapMINIMUM_BLOCK_SIZE
           g == Accounted(h, IF split THEN w ELSE h.size[b])
           bytes == IF split THEN w ELSE h.size[b]
<1>2. /\ g = [f \in Fields |-> g[f]]
      /\ g.next = h.next /\ g.size = h.size /\ g.allocated = h.allocated
      /\ g.xFreeBytesRemaining = h.xFreeBytesRemaining - bytes
      /\ g.xMinimumEverFreeBytesRemaining =
             Smaller(g.xFreeBytesRemaining, h.xMinimumEverFreeBytesRemaining)
      /\ g.xNumberOfSuccessfulAllocations = (h.xNumberOfSuccessfulAllocations + 1) % CountMod
      /\ g.xNumberOfSuccessfulFrees = h.xNumberOfSuccessfulFrees
  BY <1>1 DEF Accounted, Fields
<1> HIDE DEF g
<1>3. Taken(h, prev, w) =
          [g EXCEPT
          !.next = IF split
                   THEN [Put(@, b + w, @[b]) EXCEPT ![prev] = b + w, ![b] = NULL]
                   ELSE [@ EXCEPT ![prev] = h.next[b], ![b] = NULL],
          !.size = IF split
                   THEN [Put(@, b + w, @[b] - w) EXCEPT ![b] = w]
                   ELSE @,
          !.allocated = @ \cup {b}]
  BY DEF Taken, g
<1> HIDE DEF b, split, bytes
<1>4. DOMAIN g = Fields
  BY <1>2
<1>5. /\ Taken(h, prev, w) = [f \in Fields |-> Taken(h, prev, w)[f]]
      /\ split => /\ Taken(h, prev, w).next = [Put(h.next, b + w, h.next[b]) EXCEPT ![prev] = b + w, ![b] = NULL]
                  /\ Taken(h, prev, w).size = [Put(h.size, b + w, h.size[b] - w) EXCEPT ![b] = w]
      /\ ~split => /\ Taken(h, prev, w).next = [h.next EXCEPT ![prev] = h.next[b], ![b] = NULL]
                   /\ Taken(h, prev, w).size = h.size
      /\ Taken(h, prev, w).allocated = h.allocated \cup {b}
      /\ Taken(h, prev, w).xFreeBytesRemaining = g.xFreeBytesRemaining
      /\ Taken(h, prev, w).xMinimumEverFreeBytesRemaining = g.xMinimumEverFreeBytesRemaining
      /\ Taken(h, prev, w).xNumberOfSuccessfulAllocations = g.xNumberOfSuccessfulAllocations
      /\ Taken(h, prev, w).xNumberOfSuccessfulFrees = g.xNumberOfSuccessfulFrees
  BY <1>2, <1>3, <1>4 DEF Fields
<1>6. (split => bytes = w) /\ (~split => bytes = h.size[b])
  BY DEF bytes
<1>7. QED
  BY <1>2, <1>5, <1>6 DEF b, split, IsTaken

LEMMA MinimumKept ==
    ASSUME NEW a \in Nat, NEW b \in Nat
    PROVE  Smaller(a, b) \in Nat /\ Smaller(a, b) <= a
BY DEF Smaller

LEMMA TakenKeeps ==
    ASSUME NEW h, WellMade(h), NEW prev \in Free(h) \cup {xStart}, h.next[prev] # pxEnd,
           NEW w \in Nat, w > 0, Aligned(w), w <= h.size[h.next[prev]]
    PROVE  LET b == h.next[prev]
               t == Taken(h, prev, w)
           IN  /\ WellMade(t) /\ t.allocated = h.allocated \cup {b} /\ b \notin h.allocated
               /\ w <= t.size[b] /\ \A a \in h.allocated : t.size[a] = h.size[a]
               /\ t.xMinimumEverFreeBytesRemaining <= t.xFreeBytesRemaining
<1> DEFINE b == h.next[prev]
           F == Free(h)
           B == Blocks(h)
           D == DOMAIN h.next
           rest == b + w
           t == Taken(h, prev, w)
           split == h.size[b] - w > heapMINIMUM_BLOCK_SIZE
<1>1. /\ Shaped(h) /\ Counted(h) /\ Tiles(B, h.size) /\ Ordered(F, h.next) /\ Apart(F, h.size)
      /\ Addresses(F) /\ IsFiniteSet(B) /\ IsFiniteSet(F) /\ IsFiniteSet(h.allocated)
      /\ D = B \cup {xStart, pxEnd} /\ DOMAIN h.size = D
      /\ h.next \in [D -> Int] /\ h.size \in [D -> Int]
      /\ F = B \ h.allocated /\ h.allocated \subseteq B
      /\ B = D \ {xStart, pxEnd}
      /\ h.size[xStart] = 0 /\ h.size[pxEnd] = 0 /\ h.next[pxEnd] = NULL
      /\ \A a \in h.allocated : h.next[a] = NULL
      /\ \A p \in F : h.size[p] \in Nat
  BY WellFacts DEF WellMade, Chain, Free, Blocks, Shaped
<1>2. /\ b \in F /\ prev \in Int /\ b \in Int /\ prev < b /\ prev # b /\ h.next[b] \in F \cup {pxEnd}
      /\ b < h.next[b] /\ h.next[b] \in Int
  <2>1. /\ prev \in Int /\ b \in Int /\ prev < b /\ b \in F \cup {pxEnd}
    BY <1>1, OrderedFacts
  <2>2. b \in F \cup {xStart}
    BY <2>1
  <2>3. h.next[b] \in F \cup {pxEnd} /\ b < h.next[b] /\ h.next[b] \in Int
    BY <1>1, <2>2, OrderedFacts
  <2>4. QED
    BY <2>1, <2>3
<1>3. /\ b \in Nat /\ h.size[b] \in Nat /\ h.size[b] > 0 /\ b \in B /\ b # xStart /\ b # pxEnd
      /\ b + h.size[b] \notin F /\ xStart \notin B /\ pxEnd \notin B
  BY <1>1, <1>2, TileFacts DEF Apart
<1>4. /\ h.xFreeBytesRemaining = Sum(h.size, F)
      /\ h.xMinimumEverFreeBytesRemaining \in Nat
      /\ h.xNumberOfSuccessfulAllocations \in Nat /\ h.xNumberOfSuccessfulFrees \in Nat
      /\ (h.xNumberOfSuccessfulAllocations - h.xNumberOfSuccessfulFrees) % CountMod
             = Cardinality(h.allocated) % CountMod
  BY <1>1 DEF Counted
<1>5. /\ t = [f \in Fields |-> t[f]]
      /\ split => /\ t.next = [Put(h.next, rest, h.next[b]) EXCEPT ![prev] = rest, ![b] = NULL]
                  /\ t.size = [Put(h.size, rest, h.size[b] - w) EXCEPT ![b] = w]
                  /\ t.xFreeBytesRemaining = h.xFreeBytesRemaining - w
      /\ ~split => /\ t.next = [h.next EXCEPT ![prev] = h.next[b], ![b] = NULL]
                   /\ t.size = h.size
                   /\ t.xFreeBytesRemaining = h.xFreeBytesRemaining - h.size[b]
      /\ t.allocated = h.allocated \cup {b}
      /\ t.xMinimumEverFreeBytesRemaining =
             Smaller(t.xFreeBytesRemaining, h.xMinimumEverFreeBytesRemaining)
      /\ t.xNumberOfSuccessfulAllocations = (h.xNumberOfSuccessfulAllocations + 1) % CountMod
      /\ t.xNumberOfSuccessfulFrees = h.xNumberOfSuccessfulFrees
  <2>1. Shaped(h)
    BY DEF WellMade
  <2>2. IsTaken(h, prev, w, b, t)
    BY <2>1, TakenIs
  <2> HIDE DEF b, t
  <2>3. QED
    BY <2>2 DEF IsTaken
<1>6. Free(h) = F /\ Blocks(h) = B /\ DOMAIN h.next = D /\ h.next[prev] = b
  OBVIOUS
<1>7. Sum(h.size, F) = h.size[b] + Sum(h.size, F \ {b}) /\ Sum(h.size, F \ {b}) \in Nat
  <2>1. IsFiniteSet(F \ {b}) /\ \A x \in F \ {b} : h.size[x] \in Nat
    BY <1>1, FS_Subset
  <2>2. Sum(h.size, F \ {b}) \in Nat
    BY <2>1, SumWithout
  <2>3. QED
    BY <1>1, <1>2, <2>2, SumWithout
<1>8. split => rest \notin B \cup {pxEnd} /\ rest # xStart /\ rest \in Nat /\ 0 < w /\ w < h.size[b]
  <2>1. ASSUME split PROVE rest \notin B \cup {pxEnd} /\ rest # xStart /\ rest \in Nat /\ 0 < w /\ w < h.size[b]
    <3>1. 0 < w /\ w < h.size[b]
      BY <1>3, <2>1, Constants DEF heapMINIMUM_BLOCK_SIZE
    <3>2. rest \in Nat /\ b < rest /\ rest < b + h.size[b]
      BY <1>3, <3>1
    <3>3. /\ \A q \in B : b < q => b + h.size[b] <= q
          /\ b + h.size[b] <= pxEnd
      BY <1>1, <1>3, TileFacts
    <3>4. QED
      BY <1>3, <3>1, <3>2, <3>3, Ends
  <2>2. QED
    BY <2>1
<1> HIDE DEF b, F, B, D, t, split
<1>9. ASSUME Shaped(t), Tiles(Blocks(t), t.size), Ordered(Free(t), t.next), Apart(Free(t), t.size),
             t.xFreeBytesRemaining = Sum(t.size, Free(t)), t.xFreeBytesRemaining \in Nat,
             w <= t.size[b], \A a \in h.allocated : t.size[a] = h.size[a]
      PROVE  /\ WellMade(t) /\ t.allocated = h.allocated \cup {b} /\ b \notin h.allocated
             /\ w <= t.size[b] /\ \A a \in h.allocated : t.size[a] = h.size[a]
             /\ t.xMinimumEverFreeBytesRemaining <= t.xFreeBytesRemaining
  <2>1. b \notin h.allocated
    BY <1>1, <1>2
  <2>2. /\ Cardinality(t.allocated) = Cardinality(h.allocated) + 1
        /\ Cardinality(h.allocated) \in Nat
    <3>1. IsFiniteSet(h.allocated) /\ t.allocated = h.allocated \cup {b}
      BY <1>1, <1>5
    <3>2. QED
      BY <2>1, <3>1, FS_AddElement, FS_CardinalityType
  <2>3. /\ t.xNumberOfSuccessfulAllocations \in Nat /\ t.xNumberOfSuccessfulFrees \in Nat
        /\ (t.xNumberOfSuccessfulAllocations - t.xNumberOfSuccessfulFrees) % CountMod
               = Cardinality(t.allocated) % CountMod
    BY <1>4, <1>5, <2>2, CountedUp
  <2>4. /\ t.xMinimumEverFreeBytesRemaining \in Nat
        /\ t.xMinimumEverFreeBytesRemaining <= t.xFreeBytesRemaining
    BY <1>4, <1>5, <1>9, MinimumKept
  <2>5. Counted(t)
    BY <1>9, <2>3, <2>4 DEF Counted
  <2>6. QED
    BY <1>5, <1>9, <2>1, <2>4, <2>5 DEF WellMade
<1>10. CASE ~split
  <2>1. /\ t.size = h.size /\ t.next \in [D -> Int] /\ DOMAIN t.next = D
        /\ t.next[prev] = h.next[b] /\ t.next[b] = NULL
        /\ \A p \in D \ {prev, b} : t.next[p] = h.next[p]
    <3>1. prev \in D /\ b \in D /\ NULL \in Int
      BY <1>1, <1>2, <1>3, <1>6, Ends
    <3>2. t.next = [h.next EXCEPT ![prev] = h.next[b], ![b] = NULL] /\ t.size = h.size
      BY <1>5, <1>10
    <3>3. QED
      BY <1>1, <1>2, <3>1, <3>2
  <2>2. Blocks(t) = B /\ Free(t) = F \ {b}
    <3>1. Blocks(t) = B
      BY <1>1, <2>1 DEF Blocks
    <3>2. QED
      BY <1>1, <1>5, <3>1 DEF Free
  <2>3. Shaped(t)
    <3>1. ASSUME NEW a \in t.allocated PROVE t.next[a] = NULL
      <4>1. CASE a = b
        BY <2>1, <4>1
      <4>2. CASE a \in h.allocated /\ a # b
        <5>1. a \in D \ {prev, b}
          BY <1>1, <1>3, <1>6, <4>2
        <5>2. QED
          BY <1>1, <2>1, <4>2, <5>1
      <4>3. QED
        BY <1>5, <4>1, <4>2
    <3>2. t.next[pxEnd] = NULL
      BY <1>1, <1>2, <1>3, <1>6, <2>1, Ends DEF Addresses
    <3>3. t.allocated \subseteq Blocks(t)
      BY <1>1, <1>3, <1>5, <2>2
    <3>4. QED
      BY <1>1, <1>5, <2>1, <3>1, <3>2, <3>3 DEF Shaped
  <2>4. Ordered(Free(t), t.next)
    <3>1. \A p \in (F \cup {xStart}) \ {prev, h.next[prev]} : t.next[p] = h.next[p]
      BY <1>1, <1>6, <2>1
    <3>2. h.next[prev] \in F /\ t.next[prev] = h.next[h.next[prev]] /\ prev \in F \cup {xStart}
      BY <1>2, <1>6, <2>1
    <3>3. Ordered(F \ {h.next[prev]}, t.next)
      BY <1>1, <3>1, <3>2, OrderedRemove
    <3>4. QED
      BY <1>6, <2>2, <3>3
  <2>5. Apart(Free(t), t.size)
    BY <1>1, <2>1, <2>2 DEF Apart
  <2>6. t.xFreeBytesRemaining = Sum(t.size, Free(t)) /\ t.xFreeBytesRemaining \in Nat
    <3>1. t.xFreeBytesRemaining = h.xFreeBytesRemaining - h.size[b]
      BY <1>5, <1>10
    <3>2. QED
      BY <1>3, <1>4, <1>7, <2>1, <2>2, <3>1
  <2>7. QED
    BY <1>1, <1>6, <1>9, <2>1, <2>2, <2>3, <2>4, <2>5, <2>6 DEF b, t
<1>11. CASE split
  <2>1. /\ DOMAIN t.next = D \cup {rest} /\ t.next \in [D \cup {rest} -> Int]
        /\ t.next[prev] = rest /\ t.next[b] = NULL /\ t.next[rest] = h.next[b]
        /\ \A p \in D \ {prev, b} : t.next[p] = h.next[p]
    <3>1. prev \in D /\ b \in D /\ NULL \in Int /\ rest \in Int /\ rest \notin D
      BY <1>1, <1>2, <1>3, <1>6, <1>8, <1>11, Ends
    <3>2. t.next = [Put(h.next, rest, h.next[b]) EXCEPT ![prev] = rest, ![b] = NULL]
      BY <1>5, <1>11
    <3>3. /\ DOMAIN Put(h.next, rest, h.next[b]) = D \cup {rest}
          /\ Put(h.next, rest, h.next[b])[rest] = h.next[b]
          /\ \A p \in D : Put(h.next, rest, h.next[b])[p] = h.next[p]
          /\ Put(h.next, rest, h.next[b]) \in [D \cup {rest} -> Int]
      BY <1>1, <1>2, <1>6, <3>1 DEF Put
    <3> HIDE DEF rest
    <3>4. QED
      BY <1>2, <3>1, <3>2, <3>3
  <2>2. /\ t.size \in [D \cup {rest} -> Int]
        /\ t.size[b] = w /\ t.size[rest] = h.size[b] - w
        /\ \A p \in D \ {b} : t.size[p] = h.size[p]
    <3>1. b \in D /\ rest \in Int /\ rest \notin D /\ h.size[b] - w \in Int
      BY <1>1, <1>2, <1>3, <1>6, <1>8, <1>11, Ends
    <3>2. t.size = [Put(h.size, rest, h.size[b] - w) EXCEPT ![b] = w]
      BY <1>5, <1>11
    <3>3. /\ DOMAIN Put(h.size, rest, h.size[b] - w) = D \cup {rest}
          /\ Put(h.size, rest, h.size[b] - w)[rest] = h.size[b] - w
          /\ \A p \in D : Put(h.size, rest, h.size[b] - w)[p] = h.size[p]
          /\ Put(h.size, rest, h.size[b] - w) \in [D \cup {rest} -> Int]
      BY <1>1, <3>1 DEF Put
    <3> HIDE DEF rest
    <3>4. QED
      BY <3>1, <3>2, <3>3
  <2>3. Blocks(t) = B \cup {rest} /\ Free(t) = (F \ {b}) \cup {rest}
    <3>1. Blocks(t) = B \cup {rest}
      BY <1>1, <1>8, <1>11, <2>1 DEF Blocks
    <3>2. rest \notin t.allocated
      BY <1>1, <1>3, <1>5, <1>8, <1>11
    <3>3. QED
      BY <1>1, <1>5, <3>1, <3>2 DEF Free
  <2>4. Shaped(t)
    <3>1. ASSUME NEW a \in t.allocated PROVE t.next[a] = NULL
      <4>1. CASE a = b
        BY <2>1, <4>1
      <4>2. CASE a \in h.allocated /\ a # b
        <5>1. a \in D \ {prev, b}
          BY <1>1, <1>3, <1>6, <4>2
        <5>2. QED
          BY <1>1, <2>1, <4>2, <5>1
      <4>3. QED
        BY <1>5, <4>1, <4>2
    <3>2. t.next[pxEnd] = NULL
      BY <1>1, <1>2, <1>3, <1>6, <2>1, Ends DEF Addresses
    <3>3. t.allocated \subseteq Blocks(t)
      BY <1>1, <1>3, <1>5, <2>3
    <3>4. t.size[xStart] = 0 /\ t.size[pxEnd] = 0 /\ {xStart, pxEnd} \subseteq DOMAIN t.next
      BY <1>1, <1>3, <2>1, <2>2
    <3>5. QED
      BY <1>5, <2>1, <2>2, <3>1, <3>2, <3>3, <3>4 DEF Shaped
  <2>5. Tiles(Blocks(t), t.size)
    <3>1. \A p \in B \ {b} : t.size[p] = h.size[p]
      BY <1>1, <2>2
    <3>2. Tiles(B \cup {b + w}, t.size)
      <4>1. /\ Tiles(B, h.size) /\ b \in B /\ 0 < w /\ w < h.size[b] /\ t.size[b] = w
            /\ t.size[b + w] = h.size[b] - w
        BY <1>1, <1>3, <1>8, <1>11, <2>2
      <4>2. QED
        BY <3>1, <4>1, TilesSplit
    <3>3. QED
      BY <2>3, <3>2
  <2>6. Ordered(Free(t), t.next)
    <3> DEFINE G == F \ {b}
               mx == [p \in D |-> IF p = prev THEN h.next[b] ELSE h.next[p]]
    <3>1. Ordered(G, mx)
      <4>1. /\ mx[prev] = h.next[h.next[prev]] /\ h.next[prev] \in F
            /\ \A p \in (F \cup {xStart}) \ {prev, h.next[prev]} : mx[p] = h.next[p]
        BY <1>1, <1>2, <1>6
      <4> HIDE DEF mx
      <4>2. Ordered(F \ {h.next[prev]}, mx)
        <5>1. Addresses(F) /\ Ordered(F, h.next) /\ prev \in F \cup {xStart}
          BY <1>1, <1>6
        <5>2. QED
          BY <4>1, <5>1, OrderedRemove
      <4>3. QED
        BY <1>6, <4>2
    <3>2. Addresses(G) /\ prev \in G \cup {xStart} /\ mx[prev] = h.next[b]
      BY <1>1, <1>2, <1>6 DEF Addresses
    <3>3. prev < rest /\ rest < h.next[b] /\ rest < pxEnd /\ rest \in Int
      <4>1. b + h.size[b] <= pxEnd /\ \A q \in B : b < q => b + h.size[b] <= q
        BY <1>1, <1>3, TileFacts
      <4>2. b + h.size[b] <= h.next[b]
        BY <1>1, <1>2, <4>1
      <4>3. QED
        BY <1>2, <1>3, <1>8, <1>11, <4>1, <4>2, Ends
    <3>4. /\ t.next[prev] = rest /\ t.next[rest] = mx[prev]
          /\ \A p \in (G \cup {xStart}) \ {prev} : t.next[p] = mx[p]
      BY <1>1, <1>3, <2>1, <3>2
    <3> HIDE DEF mx, G, rest
    <3>5. Ordered(G \cup {rest}, t.next)
      BY <3>1, <3>2, <3>3, <3>4, OrderedInsert
    <3>6. QED
      BY <2>3, <3>5 DEF G
  <2>7. Apart(Free(t), t.size)
    <3>1. rest + t.size[rest] = b + h.size[b] /\ b + h.size[b] # rest
      BY <1>3, <1>8, <1>11, <2>2
    <3>2. ASSUME NEW p \in F \ {b}
          PROVE  p + t.size[p] \notin F /\ p + t.size[p] # rest
      <4>1. t.size[p] = h.size[p]
        BY <1>1, <2>2, <3>2
      <4>2. p + h.size[p] \in B \cup {pxEnd}
        BY <1>1, TileFacts
      <4>3. QED
        BY <1>1, <1>8, <1>11, <4>1, <4>2 DEF Apart
    <3>3. QED
      BY <1>3, <2>3, <3>1, <3>2 DEF Apart
  <2>8. t.xFreeBytesRemaining = Sum(t.size, Free(t)) /\ t.xFreeBytesRemaining \in Nat
    <3> DEFINE G == F \ {b}
    <3>1. t.xFreeBytesRemaining = h.xFreeBytesRemaining - w
      BY <1>5, <1>11
    <3>2. IsFiniteSet(Free(t)) /\ rest \in Free(t) /\ \A x \in Free(t) : t.size[x] \in Nat
      <4>1. IsFiniteSet(F \ {b})
        BY <1>1, FS_Subset
      <4>2. IsFiniteSet(Free(t))
        BY <2>3, <4>1, FS_AddElement
      <4>3. h.size[b] - w \in Nat
        BY <1>3, <1>8, <1>11
      <4>4. QED
        BY <1>1, <2>2, <2>3, <4>2, <4>3
    <3>3. Sum(t.size, Free(t)) = t.size[rest] + Sum(t.size, Free(t) \ {rest})
      BY <3>2, SumWithout
    <3>4. Free(t) \ {rest} = G
      BY <1>1, <1>8, <1>11, <2>3
    <3>5. Sum(t.size, G) = Sum(h.size, G)
      <4>1. IsFiniteSet(G)
        BY <1>1, FS_Subset
      <4>2. \A x \in G : t.size[x] \in Nat /\ t.size[x] = h.size[x]
        BY <1>1, <2>2
      <4>3. QED
        BY <4>1, <4>2, SumSame
    <3> HIDE DEF rest
    <3>6. Sum(t.size, Free(t)) = (h.size[b] - w) + Sum(h.size, F \ {b})
      BY <2>2, <3>3, <3>4, <3>5
    <3>7. h.size[b] - w \in Nat
      BY <1>3, <1>8, <1>11
    <3>8. QED
      BY <1>3, <1>4, <1>7, <3>1, <3>6, <3>7
  <2>9. w <= t.size[b] /\ \A a \in h.allocated : t.size[a] = h.size[a]
    <3>1. \A a \in h.allocated : a \in D \ {b}
      BY <1>1, <1>2
    <3>2. QED
      BY <2>2, <3>1
  <2>10. QED
    BY <1>9, <2>4, <2>5, <2>6, <2>7, <2>8, <2>9 DEF b, t
<1>12. QED
  BY <1>10, <1>11

-----------------------------------------------------------------------------
(* Giving a block back.                                                    *)

LEMMA SumSwap ==
    ASSUME NEW S, IsFiniteSet(S), NEW f, \A p \in S : f[p] \in Nat, NEW x \in S,
           NEW R, IsFiniteSet(R), NEW g, \A p \in R : g[p] \in Nat, NEW y \in R,
           S \ {x} = R \ {y}, \A p \in S \ {x} : f[p] = g[p]
    PROVE  /\ Sum(g, R) = (Sum(f, S) - f[x]) + g[y]
           /\ Sum(f, S) \in Nat /\ Sum(g, R) \in Nat
<1> DEFINE Q == S \ {x}
<1>1. IsFiniteSet(Q) /\ \A p \in Q : f[p] \in Nat /\ f[p] = g[p]
  BY FS_Subset
<1>2. Sum(f, Q) \in Nat
  BY <1>1, SumWithout
<1>3. Sum(f, Q) = Sum(g, Q)
  BY <1>1, SumSame
<1>4. Sum(f, S) = f[x] + Sum(f, Q) /\ Sum(f, S) \in Nat
  BY SumWithout
<1>5. Sum(g, R) = g[y] + Sum(g, R \ {y}) /\ Sum(g, R) \in Nat
  BY SumWithout
<1>6. Sum(g, R) = g[y] + Sum(g, Q)
  BY <1>5
<1> HIDE DEF Q
<1>7. f[x] \in Nat /\ g[y] \in Nat
  OBVIOUS
<1>8. QED
  BY <1>2, <1>3, <1>4, <1>5, <1>6, <1>7

(* What vPortFree does before it inserts the block.                        *)
GivenBack(h, a) ==
    [h EXCEPT !.allocated = @ \ {a},
              !.xFreeBytesRemaining = @ + h.size[a],
              !.xNumberOfSuccessfulFrees = (@ + 1) % CountMod]

LEMMA GivenBackIs ==
    ASSUME NEW h, Shaped(h), NEW a
    PROVE  LET g == GivenBack(h, a) IN
           /\ g = [f \in Fields |-> g[f]]
           /\ g.next = h.next /\ g.size = h.size /\ g.allocated = h.allocated \ {a}
           /\ g.xFreeBytesRemaining = h.xFreeBytesRemaining + h.size[a]
           /\ g.xMinimumEverFreeBytesRemaining = h.xMinimumEverFreeBytesRemaining
           /\ g.xNumberOfSuccessfulAllocations = h.xNumberOfSuccessfulAllocations
           /\ g.xNumberOfSuccessfulFrees = (h.xNumberOfSuccessfulFrees + 1) % CountMod
<1>1. h = [f \in Fields |-> h[f]] /\ DOMAIN h = Fields
  BY DEF Shaped
<1>2. QED
  BY <1>1 DEF GivenBack, Fields

(* t is heap g after block a was linked behind it: its header becomes b,   *)
(* and the headers in gone are no more.                                    *)
IsInserted(g, a, it, joined, plugs, b, sz, gone, t) ==
    LET behind == g.next[it]
        heads == DOMAIN g.next \ gone
    IN
    /\ t = [f \in Fields |-> t[f]]
    /\ t.next = [p \in heads |-> IF p = b THEN IF plugs THEN g.next[behind] ELSE behind
                                 ELSE IF p = it THEN b ELSE g.next[p]]
    /\ t.size = [p \in heads |-> IF p = b THEN IF plugs THEN sz + g.size[behind] ELSE sz
                                 ELSE g.size[p]]
    /\ t.allocated = g.allocated
    /\ t.xFreeBytesRemaining = g.xFreeBytesRemaining
    /\ t.xMinimumEverFreeBytesRemaining = g.xMinimumEverFreeBytesRemaining
    /\ t.xNumberOfSuccessfulAllocations = g.xNumberOfSuccessfulAllocations
    /\ t.xNumberOfSuccessfulFrees = g.xNumberOfSuccessfulFrees

LEMMA InsertedIs ==
    ASSUME NEW g, g = [f \in Fields |-> g[f]], NEW a
    PROVE  LET it == Iterator(g, a)
               behind == g.next[it]
               joined == it + g.size[it] = a
               b == IF joined THEN it ELSE a
               sz == IF joined THEN g.size[it] + g.size[a] ELSE g.size[a]
               plugs == b + sz = behind /\ behind # pxEnd
               gone == (IF joined THEN {a} ELSE {}) \cup (IF plugs THEN {behind} ELSE {})
           IN  IsInserted(g, a, it, joined, plugs, b, sz, gone, Inserted(g, a))
<1> DEFINE it == Iterator(g, a)
           behind == g.next[it]
           joined == it + g.size[it] = a
           b == IF joined THEN it ELSE a
           sz == IF joined THEN g.size[it] + g.size[a] ELSE g.size[a]
           plugs == b + sz = behind /\ behind # pxEnd
           gone == (IF joined THEN {a} ELSE {}) \cup (IF plugs THEN {behind} ELSE {})
           heads == DOMAIN g.next \ gone
           nx == [p \in heads |-> CASE p = b -> IF plugs THEN g.next[behind] ELSE behind
                                    [] p # b /\ p = it -> b
                                    [] OTHER -> g.next[p]]
           size == [p \in heads |-> CASE p = b -> IF plugs THEN sz + g.size[behind] ELSE sz
                                      [] OTHER -> g.size[p]]
<1>1. Inserted(g, a) = [g EXCEPT !.next = nx, !.size = size]
  BY DEF Inserted
<1> HIDE DEF joined, b, sz, plugs, gone, it
<1>2. nx = [p \in heads |-> IF p = b THEN IF plugs THEN g.next[behind] ELSE behind
                            ELSE IF p = it THEN b ELSE g.next[p]]
  OBVIOUS
<1>3. size = [p \in heads |-> IF p = b THEN IF plugs THEN sz + g.size[behind] ELSE sz
                              ELSE g.size[p]]
  OBVIOUS
<1> HIDE DEF nx, size
<1>4. DOMAIN g = Fields
  OBVIOUS
<1>5. /\ Inserted(g, a) = [f \in Fields |-> Inserted(g, a)[f]]
      /\ Inserted(g, a).next = nx /\ Inserted(g, a).size = size
      /\ \A f \in Fields \ {"next", "size"} : Inserted(g, a)[f] = g[f]
  BY <1>1, <1>4 DEF Fields
<1>6. IsInserted(g, a, it, joined, plugs, b, sz, gone, Inserted(g, a))
  BY <1>2, <1>3, <1>5 DEF IsInserted, Fields
<1>7. QED
  BY <1>6 DEF joined, b, sz, plugs, gone, it

(* Where a block that is given back lies between its free neighbours.      *)
LEMMA Neighbours ==
    ASSUME NEW h, WellMade(h), NEW a \in h.allocated
    PROVE  LET it == Iterator(GivenBack(h, a), a)
               behind == h.next[it]
               joined == it + h.size[it] = a
               plugs == a + h.size[a] = behind /\ behind # pxEnd
               F == Free(h)
           IN  /\ it \in F \cup {xStart} /\ it \in Int /\ it < a /\ a < behind
               /\ behind \in F \cup {pxEnd} /\ behind \in Int
               /\ joined => it \in F
               /\ ~joined => \A p \in F : p + h.size[p] # a
               /\ plugs => behind \in F
               /\ ~plugs => a + h.size[a] \notin F
<1> DEFINE F == Free(h)
           B == Blocks(h)
           g == GivenBack(h, a)
           it == Iterator(g, a)
           behind == h.next[it]
           e == a + h.size[a]
<1>1. /\ Chain(h, F) /\ Tiles(B, h.size) /\ Ordered(F, h.next) /\ Addresses(F) /\ h.size[xStart] = 0
      /\ F = B \ h.allocated /\ F \subseteq B /\ a \in B /\ a \notin F
  BY WellFacts DEF WellMade, Chain, Free, Shaped
<1>2. g.next = h.next /\ g.size = h.size
  BY GivenBackIs DEF WellMade
<1>3. Chain(g, F)
  BY <1>1, <1>2 DEF Chain, Linked
<1>4. /\ a \in Nat /\ a < pxEnd /\ h.size[a] \in Nat /\ e \in B \cup {pxEnd} /\ a < e /\ e \in Int
      /\ e <= pxEnd /\ \A q \in B : a < q => e <= q
  BY <1>1, TileFacts, Ends
<1> HIDE DEF F, B, g, it, e
<1>5. it \in F \cup {xStart} /\ it < a /\ a < g.next[it] /\ \A q \in F : q < a => q <= it
  BY <1>1, <1>3, <1>4, IteratorIs DEF it
<1>6. /\ it \in Int /\ behind \in Int /\ behind \in F \cup {pxEnd} /\ a < behind
      /\ \A q \in F \cup {pxEnd} : it < q => behind <= q
  BY <1>1, <1>2, <1>5, OrderedFacts
<1>7. ASSUME it + h.size[it] = a PROVE it \in F
  <2>1. it # xStart
    BY <1>1, <1>4, <1>7, Ends
  <2>2. QED
    BY <1>5, <2>1
<1>8. ASSUME it + h.size[it] # a, NEW p \in F PROVE p + h.size[p] # a
  <2>1. p \in B /\ p \in Nat /\ h.size[p] \in Nat /\ h.size[p] > 0 /\ xStart < p
    BY <1>1, TileFacts
  <2>2. CASE p < it
    <3>1. it \in B
      BY <1>1, <1>5, <2>1, <2>2, Ends
    <3>2. p + h.size[p] <= it
      BY <1>1, <2>1, <2>2, <3>1, TileFacts
    <3>3. QED
      BY <1>4, <1>5, <1>6, <2>1, <3>2
  <2>3. CASE p = it
    BY <1>8, <2>3
  <2>4. CASE it < p
    <3>1. ~(p < a)
      BY <1>5, <1>6, <2>1, <2>4
    <3>2. QED
      BY <1>4, <2>1, <3>1
  <2>5. QED
    BY <1>6, <2>1, <2>2, <2>3, <2>4
<1>9. ASSUME ~(e = behind /\ behind # pxEnd) PROVE e \notin F
  <2>1. ASSUME e \in F PROVE FALSE
    <3>1. it < e
      BY <1>4, <1>5, <1>6
    <3>2. behind <= e
      BY <1>6, <2>1, <3>1
    <3>3. e <= behind
      BY <1>1, <1>4, <1>6
    <3>4. e = behind /\ e # pxEnd
      BY <1>1, <1>4, <1>6, <2>1, <3>2, <3>3, TileFacts
    <3>5. QED
      BY <1>9, <3>4
  <2>2. QED
    BY <2>1
<1>10. QED
  BY <1>5, <1>6, <1>2, <1>7, <1>8, <1>9 DEF F, it, g, e

LEMMA FreedKeeps ==
    ASSUME NEW h, WellMade(h), NEW a \in h.allocated
    PROVE  LET t == Inserted(GivenBack(h, a), a) IN
           /\ WellMade(t) /\ t.allocated = h.allocated \ {a}
           /\ \A c \in t.allocated : t.size[c] = h.size[c]
           /\ h.xFreeBytesRemaining <= t.xFreeBytesRemaining
           /\ t.xMinimumEverFreeBytesRemaining = h.xMinimumEverFreeBytesRemaining
<1> DEFINE N == h.next
           Z == h.size
           F == Free(h)
           B == Blocks(h)
           D == DOMAIN h.next
           g == GivenBack(h, a)
           it == Iterator(g, a)
           behind == N[it]
           joined == it + Z[it] = a
           plugs == a + Z[a] = behind /\ behind # pxEnd
           b == IF joined THEN it ELSE a
           sz == IF joined THEN Z[it] + Z[a] ELSE Z[a]
           gone == (IF joined THEN {a} ELSE {}) \cup (IF plugs THEN {behind} ELSE {})
           t == Inserted(g, a)
<1>1. /\ Shaped(h) /\ Counted(h) /\ Tiles(B, Z) /\ Ordered(F, N) /\ Apart(F, Z)
      /\ Addresses(F) /\ IsFiniteSet(B) /\ IsFiniteSet(F) /\ IsFiniteSet(h.allocated)
      /\ D = B \cup {xStart, pxEnd} /\ B = D \ {xStart, pxEnd}
      /\ N \in [D -> Int] /\ Z \in [D -> Int]
      /\ F = B \ h.allocated /\ h.allocated \subseteq B
      /\ Z[xStart] = 0 /\ Z[pxEnd] = 0 /\ N[pxEnd] = NULL
      /\ \A c \in h.allocated : N[c] = NULL
  BY WellFacts DEF WellMade, Chain, Free, Blocks, Shaped
<1>2. /\ it \in F \cup {xStart} /\ it \in Int /\ it < a /\ a < behind
      /\ behind \in F \cup {pxEnd} /\ behind \in Int
      /\ joined => it \in F
      /\ ~joined => \A p \in F : p + Z[p] # a
      /\ plugs => behind \in F
      /\ ~plugs => a + Z[a] \notin F
  BY Neighbours
<1>3. /\ g = [f \in Fields |-> g[f]]
      /\ g.next = N /\ g.size = Z /\ g.allocated = h.allocated \ {a}
      /\ g.xFreeBytesRemaining = h.xFreeBytesRemaining + Z[a]
      /\ g.xMinimumEverFreeBytesRemaining = h.xMinimumEverFreeBytesRemaining
      /\ g.xNumberOfSuccessfulAllocations = h.xNumberOfSuccessfulAllocations
      /\ g.xNumberOfSuccessfulFrees = (h.xNumberOfSuccessfulFrees + 1) % CountMod
  BY <1>1, GivenBackIs
<1>4. /\ a \in B /\ a \notin F /\ a \in Nat /\ Z[a] \in Nat /\ Z[a] > 0 /\ a < pxEnd
      /\ xStart \notin B /\ pxEnd \notin B /\ xStart # pxEnd /\ pxEnd \in Int
      /\ \A p \in B : p \in Nat /\ Z[p] \in Nat
  BY <1>1, TileFacts, Ends
<1>5. IsInserted(g, a, it, joined, plugs, b, sz, gone, t)
  <2> DEFINE plugs2 == b + sz = behind /\ behind # pxEnd
             gone2 == (IF joined THEN {a} ELSE {}) \cup (IF plugs2 THEN {behind} ELSE {})
  <2>1. IsInserted(g, a, it, joined, plugs2, b, sz, gone2, t)
    <3>1. g.next = N /\ g.size = Z /\ g = [f \in Fields |-> g[f]]
      BY <1>3
    <3> HIDE DEF g
    <3>2. IsInserted(g, a, it,
             it + g.size[it] = a,
             (IF it + g.size[it] = a THEN it ELSE a) +
                 (IF it + g.size[it] = a THEN g.size[it] + g.size[a] ELSE g.size[a]) = g.next[it]
               /\ g.next[it] # pxEnd,
             IF it + g.size[it] = a THEN it ELSE a,
             IF it + g.size[it] = a THEN g.size[it] + g.size[a] ELSE g.size[a],
             (IF it + g.size[it] = a THEN {a} ELSE {}) \cup
                 (IF (IF it + g.size[it] = a THEN it ELSE a) +
                        (IF it + g.size[it] = a THEN g.size[it] + g.size[a] ELSE g.size[a]) = g.next[it]
                     /\ g.next[it] # pxEnd THEN {g.next[it]} ELSE {}),
             t)
      BY <3>1, InsertedIs, Zenon
    <3>3. QED
      BY <3>1, <3>2, Zenon
  <2>2. b + sz = a + Z[a]
    <3>1. CASE joined
      <4>1. it \in F /\ it \in Int /\ Z[it] \in Nat /\ it + Z[it] = a
        BY <1>1, <1>2, <1>4, <3>1
      <4> HIDE DEF it, Z
      <4>2. it + (Z[it] + Z[a]) = (it + Z[it]) + Z[a]
        BY <1>4, <4>1
      <4>3. QED
        BY <3>1, <4>1, <4>2
    <3>2. CASE ~joined
      BY <3>2
    <3>3. QED
      BY <3>1, <3>2
  <2>3. plugs2 = plugs
    BY <2>2
  <2>4. gone2 = gone
    BY <2>3
  <2> HIDE DEF plugs, plugs2, gone, gone2, t, b, sz, joined, it, g
  <2>5. QED
    BY <2>1, <2>3, <2>4
<1>6. /\ Counted(h) => /\ h.xFreeBytesRemaining = Sum(Z, F)
                       /\ h.xMinimumEverFreeBytesRemaining \in Nat
                       /\ h.xNumberOfSuccessfulAllocations \in Nat /\ h.xNumberOfSuccessfulFrees \in Nat
                       /\ (h.xNumberOfSuccessfulAllocations - h.xNumberOfSuccessfulFrees) % CountMod
                              = Cardinality(h.allocated) % CountMod
  BY DEF Counted
<1>7. /\ joined => b = it /\ sz = Z[it] + Z[a] /\ it + Z[it] = a
      /\ ~joined => b = a /\ sz = Z[a]
      /\ plugs => a + Z[a] = behind /\ behind # pxEnd
      /\ gone = {c \in {a, behind} : (c = a /\ joined) \/ (c = behind /\ plugs)}
      /\ N[it] = behind
  OBVIOUS
<1> HIDE DEF N, Z, F, B, D, g, it, behind, joined, b, sz, plugs, gone, t
<1>8. /\ t = [f \in Fields |-> t[f]]
      /\ DOMAIN t.next = D \ gone /\ DOMAIN t.size = D \ gone
      /\ \A p \in D \ gone : t.next[p] = IF p = b THEN IF plugs THEN N[behind] ELSE behind
                                         ELSE IF p = it THEN b ELSE N[p]
      /\ \A p \in D \ gone : t.size[p] = IF p = b THEN IF plugs THEN sz + Z[behind] ELSE sz
                                         ELSE Z[p]
      /\ t.next = [p \in D \ gone |-> t.next[p]] /\ t.size = [p \in D \ gone |-> t.size[p]]
  <2>1. /\ g.next = N /\ g.size = Z /\ DOMAIN N = D /\ N[it] = behind
    BY <1>3, <1>7 DEF D, N
  <2>2. /\ t = [f \in Fields |-> t[f]]
        /\ t.next = [p \in D \ gone |-> IF p = b THEN IF plugs THEN N[behind] ELSE behind
                                        ELSE IF p = it THEN b ELSE N[p]]
        /\ t.size = [p \in D \ gone |-> IF p = b THEN IF plugs THEN sz + Z[behind] ELSE sz
                                        ELSE Z[p]]
    BY <1>5, <2>1 DEF IsInserted
  <2>3. QED
    BY <2>2
<1>9. /\ t.allocated = h.allocated \ {a}
      /\ t.xFreeBytesRemaining = h.xFreeBytesRemaining + Z[a]
      /\ t.xMinimumEverFreeBytesRemaining = h.xMinimumEverFreeBytesRemaining
      /\ t.xNumberOfSuccessfulAllocations = h.xNumberOfSuccessfulAllocations
      /\ t.xNumberOfSuccessfulFrees = (h.xNumberOfSuccessfulFrees + 1) % CountMod
  BY <1>3, <1>5 DEF IsInserted
<1>10. gone \subseteq F \cup {a} /\ b \in F \cup {a} /\ b \notin gone /\ it \notin gone
  BY <1>1, <1>2, <1>4, <1>7, Ends
<1>11. Blocks(t) = B \ gone /\ Free(t) = (F \cup {a}) \ gone
  <2>1. Blocks(t) = B \ gone
    BY <1>1, <1>4, <1>8, <1>10 DEF Blocks
  <2>2. QED
    BY <1>1, <1>4, <1>9, <1>10, <2>1 DEF Free
<1>12. Shaped(t) /\ \A c \in t.allocated : t.size[c] = Z[c]
  <2>1. \A c \in t.allocated : c \in D \ gone /\ c # b /\ c # it /\ c \in B
    BY <1>1, <1>2, <1>4, <1>9, <1>10
  <2>2. \A c \in t.allocated : t.size[c] = Z[c] /\ t.next[c] = NULL
    <3>1. ASSUME NEW c \in t.allocated PROVE t.size[c] = Z[c] /\ t.next[c] = NULL
      <4>1. t.size[c] = Z[c] /\ t.next[c] = N[c]
        BY <1>8, <2>1
      <4>2. N[c] = NULL
        BY <1>1, <1>9
      <4>3. QED
        BY <4>1, <4>2
    <3>2. QED
      BY <3>1
  <2>3. t.next \in [D \ gone -> Int]
    <3>1. (b \in Int /\ N[behind] \in Int) \/ ~plugs
      BY <1>1, <1>2, <1>4, <1>10
    <3>2. b \in Int
      BY <1>1, <1>2, <1>4, <1>10 DEF Addresses
    <3>3. \A p \in D \ gone : t.next[p] \in Int
      BY <1>1, <1>2, <1>8, <3>1, <3>2
    <3>4. QED
      BY <1>8, <3>3
  <2>4. t.size \in [D \ gone -> Int]
    <3>1. sz \in Int
      BY <1>1, <1>2, <1>4, <1>7
    <3>2. plugs => sz + Z[behind] \in Int
      BY <1>1, <1>2, <1>4, <3>1
    <3>3. \A p \in D \ gone : t.size[p] \in Int
      BY <1>1, <1>8, <3>1, <3>2
    <3>4. QED
      BY <1>8, <3>3
  <2>5. {xStart, pxEnd} \subseteq D \ gone /\ xStart # b /\ pxEnd # b /\ pxEnd # it
    BY <1>1, <1>2, <1>4, <1>10
  <2>6. t.size[xStart] = 0 /\ t.size[pxEnd] = 0 /\ t.next[pxEnd] = NULL
    BY <1>1, <1>8, <2>5
  <2>7. t.allocated \subseteq Blocks(t)
    BY <1>11, <2>1
  <2>8. QED
    BY <1>8, <2>2, <2>3, <2>4, <2>5, <2>6, <2>7 DEF Shaped
<1>13. ASSUME Tiles(Blocks(t), t.size), Ordered(Free(t), t.next), Apart(Free(t), t.size),
              Sum(t.size, Free(t)) = Sum(Z, F) + Z[a]
       PROVE  /\ WellMade(t) /\ t.allocated = h.allocated \ {a}
              /\ \A c \in t.allocated : t.size[c] = h.size[c]
              /\ h.xFreeBytesRemaining <= t.xFreeBytesRemaining
              /\ t.xMinimumEverFreeBytesRemaining = h.xMinimumEverFreeBytesRemaining
  <2>1. Cardinality(t.allocated) = Cardinality(h.allocated) - 1 /\ Cardinality(h.allocated) \in Nat
    <3>1. IsFiniteSet(h.allocated) /\ t.allocated = h.allocated \ {a}
      BY <1>1, <1>9
    <3>2. QED
      BY <3>1, FS_RemoveElement, FS_CardinalityType
  <2>2. /\ t.xNumberOfSuccessfulAllocations \in Nat /\ t.xNumberOfSuccessfulFrees \in Nat
        /\ (t.xNumberOfSuccessfulAllocations - t.xNumberOfSuccessfulFrees) % CountMod
               = Cardinality(t.allocated) % CountMod
    <3>1. Cardinality(h.allocated) \in Int
      BY <2>1
    <3>2. /\ h.xNumberOfSuccessfulAllocations \in Nat /\ h.xNumberOfSuccessfulFrees \in Nat
          /\ (h.xNumberOfSuccessfulAllocations - h.xNumberOfSuccessfulFrees) % CountMod
                 = Cardinality(h.allocated) % CountMod
      BY <1>1, <1>6
    <3>3. /\ (h.xNumberOfSuccessfulFrees + 1) % CountMod \in Nat
          /\ (h.xNumberOfSuccessfulAllocations - ((h.xNumberOfSuccessfulFrees + 1) % CountMod)) % CountMod
                 = (Cardinality(h.allocated) - 1) % CountMod
      BY <3>1, <3>2, CountedUp
    <3>4. QED
      BY <1>9, <2>1, <3>2, <3>3
  <2>3. /\ t.xMinimumEverFreeBytesRemaining \in Nat
        /\ h.xFreeBytesRemaining <= t.xFreeBytesRemaining
        /\ t.xFreeBytesRemaining = Sum(t.size, Free(t))
    <3>1. Sum(Z, F) \in Nat
      BY <1>1, <1>4, SumWithout
    <3>2. QED
      BY <1>1, <1>4, <1>6, <1>9, <1>13, <3>1
  <2>4. Counted(t)
    BY <2>2, <2>3 DEF Counted
  <2>5. QED
    BY <1>9, <1>12, <1>13, <2>3, <2>4 DEF WellMade, Z
<1>14. /\ joined => Tiles(B \ {a}, [p \in B |-> IF p = it THEN Z[it] + Z[a] ELSE Z[p]])
       /\ \A p \in B : p < pxEnd /\ p \in Nat /\ Z[p] \in Nat /\ Z[p] > 0
  <2>1. ASSUME joined PROVE Tiles(B \ {a}, [p \in B |-> IF p = it THEN Z[it] + Z[a] ELSE Z[p]])
    <3> DEFINE tz == [p \in B |-> IF p = it THEN Z[it] + Z[a] ELSE Z[p]]
    <3>1. it \in B /\ it + Z[it] = a /\ a \in B /\ it # a
      BY <1>1, <1>2, <1>4, <1>7, <2>1
    <3>2. tz[it] = Z[it] + Z[a] /\ \A p \in B \ {it, a} : tz[p] = Z[p]
      BY <3>1
    <3> HIDE DEF tz
    <3>3. Tiles(B \ {a}, tz)
      BY <1>1, <3>1, <3>2, TilesJoin
    <3>4. QED
      BY <3>3 DEF tz
  <2>2. QED
    BY <1>1, <2>1, TileFacts
<1>15. b \in B /\ b \in F \cup {a} /\ (plugs => behind \in B /\ behind # a /\ behind # it /\ behind # b)
  BY <1>1, <1>2, <1>4, <1>10, <1>7
<1>16. CASE ~joined /\ ~plugs
  <2>1. gone = {} /\ b = a /\ sz = Z[a] /\ Blocks(t) = B /\ Free(t) = F \cup {a}
    BY <1>7, <1>11, <1>16
  <2>2. \A p \in D : t.size[p] = Z[p]
    BY <1>8, <1>16, <2>1
  <2>3. t.size = Z
    <3>1. D \ gone = D /\ t.size = [p \in D \ gone |-> t.size[p]]
      BY <1>8, <2>1
    <3>2. Z = [p \in D |-> Z[p]]
      BY <1>1
    <3>3. QED
      BY <2>2, <3>1, <3>2
  <2>4. Ordered(F \cup {a}, t.next)
    <3>1. /\ t.next[it] = a /\ t.next[a] = N[it]
          /\ \A p \in (F \cup {xStart}) \ {it} : t.next[p] = N[p]
      BY <1>1, <1>2, <1>4, <1>7, <1>8, <1>16, <2>1
    <3>2. /\ Addresses(F) /\ Ordered(F, N) /\ it \in F \cup {xStart} /\ a \in Int /\ it < a
          /\ a < N[it] /\ a < pxEnd
      BY <1>1, <1>2, <1>4, <1>7
    <3>3. QED
      BY <3>1, <3>2, OrderedInsert
  <2>5. Apart(F \cup {a}, Z)
    <3>1. a + Z[a] \notin F /\ a + Z[a] # a
      BY <1>2, <1>4, <1>16
    <3>2. \A p \in F : p + Z[p] \notin F /\ p + Z[p] # a
      BY <1>1, <1>2, <1>16 DEF Apart
    <3>3. QED
      BY <3>1, <3>2 DEF Apart
  <2>6. Sum(Z, F \cup {a}) = Sum(Z, F) + Z[a]
    <3>1. IsFiniteSet(F \cup {a}) /\ \A p \in F \cup {a} : Z[p] \in Nat
      BY <1>1, <1>4, FS_AddElement
    <3>2. Sum(Z, F \cup {a}) = Z[a] + Sum(Z, (F \cup {a}) \ {a})
      BY <3>1, SumWithout
    <3>3. (F \cup {a}) \ {a} = F
      BY <1>4
    <3>4. Sum(Z, F) \in Nat
      BY <1>1, <1>4, SumWithout
    <3>5. QED
      BY <1>4, <3>2, <3>3, <3>4
  <2>7. QED
    BY <1>1, <1>13, <2>1, <2>3, <2>4, <2>5, <2>6 DEF t, g
<1>17. CASE joined /\ ~plugs
  <2>1. gone = {a} /\ b = it /\ sz = Z[it] + Z[a] /\ Blocks(t) = B \ {a} /\ Free(t) = F /\ it \in F
    BY <1>2, <1>4, <1>7, <1>11, <1>17
  <2>2. t.size[it] = Z[it] + Z[a] /\ \A p \in B \ {it, a} : t.size[p] = Z[p]
    BY <1>1, <1>2, <1>8, <1>10, <1>17, <2>1
  <2>3. Tiles(B \ {a}, t.size)
    <3>1. it \in B /\ a \in B /\ it + Z[it] = a
      BY <1>1, <1>4, <1>7, <1>17, <2>1
    <3>2. QED
      BY <1>1, <2>2, <3>1, TilesJoin
  <2>4. Ordered(F, t.next)
    <3>1. \A p \in F \cup {xStart} : p \in D \ gone
      BY <1>1, <1>4, <2>1
    <3>2. \A p \in F \cup {xStart} : t.next[p] = N[p]
      BY <1>7, <1>8, <1>17, <2>1, <3>1
    <3>3. QED
      BY <1>1, <3>2 DEF Ordered
  <2>5. Apart(F, t.size)
    <3>1. it + t.size[it] = a + Z[a]
      <4>1. it + (Z[it] + Z[a]) = (it + Z[it]) + Z[a] /\ it + Z[it] = a
        BY <1>1, <1>2, <1>4, <1>7, <1>14, <1>17, <2>1
      <4>2. QED
        BY <2>2, <4>1
    <3>2. \A p \in F \ {it} : t.size[p] = Z[p]
      BY <1>1, <1>4, <2>2
    <3>3. QED
      BY <1>1, <1>2, <1>17, <3>1, <3>2 DEF Apart
  <2>6. Sum(t.size, F) = Sum(Z, F) + Z[a]
    <3>1. \A p \in F : Z[p] \in Nat /\ t.size[p] \in Nat
      BY <1>1, <1>4, <2>3, TileFacts
    <3>2. \A p \in F \ {it} : Z[p] = t.size[p]
      BY <1>1, <1>4, <2>2
    <3>3. Sum(t.size, F) = (Sum(Z, F) - Z[it]) + t.size[it] /\ Sum(Z, F) \in Nat
      BY <1>1, <2>1, <3>1, <3>2, SumSwap
    <3>4. Z[it] \in Nat
      BY <2>1, <3>1
    <3>5. QED
      BY <1>4, <2>2, <3>3, <3>4
  <2>7. QED
    BY <1>13, <2>1, <2>3, <2>4, <2>5, <2>6 DEF t, g
<1>18. CASE ~joined /\ plugs
  <2>1. /\ gone = {behind} /\ b = a /\ sz = Z[a] /\ Blocks(t) = B \ {behind}
        /\ Free(t) = (F \cup {a}) \ {behind} /\ behind \in F /\ behind \in B
    BY <1>1, <1>2, <1>7, <1>11, <1>18
  <2>2. t.size[a] = Z[a] + Z[behind] /\ \A p \in B \ {a, behind} : t.size[p] = Z[p]
    BY <1>1, <1>2, <1>4, <1>8, <1>10, <1>18, <2>1
  <2>3. Tiles(B \ {behind}, t.size)
    <3>1. a \in B /\ behind \in B /\ a + Z[a] = behind
      BY <1>4, <1>7, <1>18, <2>1
    <3>2. QED
      BY <1>1, <2>2, <3>1, TilesJoin
  <2>4. Ordered((F \cup {a}) \ {behind}, t.next)
    <3> DEFINE mx == [p \in D |-> IF p = it THEN a ELSE IF p = a THEN behind ELSE N[p]]
    <3>1. /\ mx[it] = a /\ mx[a] = N[it]
          /\ \A p \in (F \cup {xStart}) \ {it} : mx[p] = N[p]
      BY <1>1, <1>2, <1>4, <1>7
    <3>2. /\ Addresses(F) /\ Ordered(F, N) /\ it \in F \cup {xStart} /\ a \in Int /\ it < a
          /\ a < N[it] /\ a < pxEnd
      BY <1>1, <1>2, <1>4, <1>7
    <3> HIDE DEF mx
    <3>3. Ordered(F \cup {a}, mx)
      BY <3>1, <3>2, OrderedInsert
    <3>4. Addresses(F \cup {a})
      BY <1>1, <1>4, Ends DEF Addresses
    <3>5. /\ mx[a] = behind /\ a \in (F \cup {a}) \cup {xStart} /\ mx[a] \in F \cup {a}
          /\ t.next[a] = mx[mx[a]]
      <4>1. mx[a] = behind
        BY <1>7, <3>1
      <4>2. mx[behind] = N[behind]
        BY <1>15, <1>18, <2>1, <3>1
      <4>3. a \in D \ gone
        BY <1>1, <1>4, <1>15, <1>18, <2>1
      <4>4. t.next[a] = N[behind]
        BY <1>8, <1>18, <2>1, <4>3
      <4>5. QED
        BY <2>1, <4>1, <4>2, <4>4
    <3>6. ASSUME NEW p \in ((F \cup {a}) \cup {xStart}) \ {a, mx[a]} PROVE t.next[p] = mx[p]
      <4>1. p \in D \ gone /\ p # b /\ p \in F \cup {xStart}
        BY <1>1, <2>1, <3>5
      <4>2. CASE p = it
        BY <1>8, <2>1, <3>1, <4>1, <4>2
      <4>3. CASE p # it
        BY <1>8, <3>1, <4>1, <4>3
      <4>4. QED
        BY <4>2, <4>3
    <3>7. Ordered((F \cup {a}) \ {mx[a]}, t.next)
      BY <3>3, <3>4, <3>5, <3>6, OrderedRemove
    <3>8. QED
      BY <3>5, <3>7
  <2>5. Apart((F \cup {a}) \ {behind}, t.size)
    <3>1. a + t.size[a] = behind + Z[behind]
      BY <1>4, <1>7, <1>18, <2>1, <2>2
    <3>2. behind + Z[behind] \notin F /\ behind + Z[behind] # a
      BY <1>1, <1>2, <1>4, <2>1 DEF Apart
    <3>3. \A p \in F \ {behind} : t.size[p] = Z[p] /\ p + Z[p] \notin F /\ p + Z[p] # a
      BY <1>1, <1>2, <1>4, <1>18, <2>2 DEF Apart
    <3>4. QED
      BY <3>1, <3>2, <3>3 DEF Apart
  <2>6. Sum(t.size, (F \cup {a}) \ {behind}) = Sum(Z, F) + Z[a]
    <3> DEFINE R == (F \cup {a}) \ {behind}
    <3>1. IsFiniteSet(R) /\ a \in R /\ F \ {behind} = R \ {a}
      <4>1. IsFiniteSet(F \cup {a})
        BY <1>1, FS_AddElement
      <4>2. IsFiniteSet(R)
        BY <4>1, FS_Subset
      <4>3. QED
        BY <1>2, <1>4, <2>1, <4>2
    <3>2. \A p \in R : t.size[p] \in Nat
      BY <1>1, <1>4, <2>3, TileFacts
    <3>3. \A p \in F : Z[p] \in Nat
      BY <1>1, <1>4
    <3>4. \A p \in F \ {behind} : Z[p] = t.size[p]
      BY <1>1, <1>4, <2>2
    <3> HIDE DEF R
    <3>5. Sum(t.size, R) = (Sum(Z, F) - Z[behind]) + t.size[a] /\ Sum(Z, F) \in Nat
      BY <1>1, <2>1, <3>1, <3>2, <3>3, <3>4, SumSwap
    <3>6. Z[behind] \in Nat
      BY <2>1, <3>3
    <3>7. QED
      BY <1>4, <2>2, <3>5, <3>6 DEF R
  <2>7. QED
    BY <1>13, <2>1, <2>3, <2>4, <2>5, <2>6 DEF t, g
<1>19. CASE joined /\ plugs
  <2>1. /\ gone = {a, behind} /\ b = it /\ sz = Z[it] + Z[a] /\ Blocks(t) = (B \ {a}) \ {behind}
        /\ Free(t) = F \ {behind} /\ behind \in F /\ behind \in B /\ it \in F /\ it \in B
    BY <1>1, <1>2, <1>4, <1>7, <1>11, <1>19
  <2>2. /\ t.size[it] = (Z[it] + Z[a]) + Z[behind]
        /\ \A p \in B \ {it, a, behind} : t.size[p] = Z[p]
    BY <1>1, <1>2, <1>8, <1>10, <1>15, <1>19, <2>1
  <2>3. Tiles((B \ {a}) \ {behind}, t.size)
    <3> DEFINE tz == [p \in B |-> IF p = it THEN Z[it] + Z[a] ELSE Z[p]]
    <3>1. Tiles(B \ {a}, tz)
      BY <1>14, <1>19
    <3>2. /\ tz[it] = Z[it] + Z[a] /\ tz[behind] = Z[behind]
          /\ \A p \in (B \ {a}) \ {it, behind} : t.size[p] = tz[p]
      BY <1>15, <1>19, <2>1, <2>2
    <3> HIDE DEF tz
    <3>3. it + tz[it] = behind
      <4>1. it + (Z[it] + Z[a]) = (it + Z[it]) + Z[a] /\ it + Z[it] = a /\ a + Z[a] = behind
        BY <1>1, <1>2, <1>4, <1>7, <1>14, <1>19, <2>1
      <4>2. QED
        BY <3>2, <4>1
    <3>4. it \in B \ {a} /\ behind \in B \ {a} /\ t.size[it] = tz[it] + tz[behind]
      BY <1>1, <1>4, <1>15, <1>19, <2>1, <2>2, <3>2
    <3>5. QED
      BY <3>1, <3>2, <3>3, <3>4, TilesJoin
  <2>4. Ordered(F \ {behind}, t.next)
    <3>1. it \in F \cup {xStart} /\ N[it] = behind /\ N[it] \in F /\ t.next[it] = N[N[it]]
      BY <1>1, <1>7, <1>8, <1>10, <1>19, <2>1
    <3>2. \A p \in (F \cup {xStart}) \ {it, N[it]} : p \in D \ gone /\ p # b /\ p # it
      BY <1>1, <1>4, <2>1, <3>1
    <3>3. \A p \in (F \cup {xStart}) \ {it, N[it]} : t.next[p] = N[p]
      BY <1>8, <3>2
    <3>4. Ordered(F \ {N[it]}, t.next)
      BY <1>1, <3>1, <3>3, OrderedRemove
    <3>5. QED
      BY <3>1, <3>4
  <2>5. Apart(F \ {behind}, t.size)
    <3>1. it + t.size[it] = behind + Z[behind]
      <4>1. it + Z[it] = a /\ a + Z[a] = behind /\ Z[it] \in Nat /\ Z[behind] \in Nat
        BY <1>4, <1>7, <1>19, <2>1
      <4>2. QED
        BY <1>2, <1>4, <2>2, <4>1
    <3>2. \A p \in F \ {it, behind} : t.size[p] = Z[p]
      BY <1>1, <1>4, <2>2
    <3>3. QED
      BY <1>1, <2>1, <3>1, <3>2 DEF Apart
  <2>6. Sum(t.size, F \ {behind}) = Sum(Z, F) + Z[a]
    <3> DEFINE R == F \ {behind}
    <3>1. IsFiniteSet(R) /\ it \in R
      BY <1>1, <1>15, <1>19, <2>1, FS_Subset
    <3>2. \A p \in R : t.size[p] \in Nat
      BY <1>1, <1>4, <2>3, TileFacts
    <3>3. \A p \in F : Z[p] \in Nat
      BY <1>1, <1>4
    <3>4. \A p \in R : Z[p] \in Nat
      BY <3>3
    <3>5. \A p \in R \ {it} : Z[p] = t.size[p]
      BY <1>1, <1>4, <2>2
    <3>6. Sum(Z, F) = Z[behind] + Sum(Z, R)
      BY <1>1, <2>1, <3>3, SumWithout
    <3> HIDE DEF R
    <3>7. Sum(t.size, R) = (Sum(Z, R) - Z[it]) + t.size[it] /\ Sum(Z, R) \in Nat
      BY <3>1, <3>2, <3>4, <3>5, SumSwap
    <3>8. Z[behind] \in Nat /\ Z[it] \in Nat
      BY <2>1, <3>3
    <3>9. QED
      BY <1>4, <2>2, <3>6, <3>7, <3>8 DEF R
  <2>7. QED
    BY <1>13, <2>1, <2>3, <2>4, <2>5, <2>6 DEF t, g
<1>20. QED
  BY <1>16, <1>17, <1>18, <1>19

-----------------------------------------------------------------------------
(* The calls keep the invariant.                                           *)

LEMMA AlignedLess ==
    ASSUME NEW a \in Int, NEW b \in Int, Aligned(a), Aligned(b), a < b + Align
    PROVE  a <= b
<1>1. Align \in Int /\ Align > 0
  BY Constants
<1> DEFINE d == (a - b) \div Align
<1>2. Aligned(a - b)
  BY AlignedSum
<1>3. d \in Int /\ a - b = Align * d
  BY <1>1, <1>2 DEF Aligned
<1> HIDE DEF d
<1>4. ASSUME d >= 1 PROVE FALSE
  <2>1. Align * d >= Align
    BY <1>1, <1>3, <1>4
  <2>2. QED
    BY <1>1, <1>3, <2>1
<1>5. Align * d <= 0
  BY <1>1, <1>3, <1>4
<1>6. QED
  BY <1>3, <1>5

(* The size of a block for a request.                                      *)
LEMMA BlockSizeIs ==
    ASSUME NEW wanted \in Nat
    PROVE  LET w == BlockSize(wanted) IN
           /\ w \in Nat
           /\ w > 0 => Aligned(w) /\ wanted + StructSize <= w /\ w < wanted + StructSize + Align
           /\ w = 0 /\ wanted > 0 => SizeMax < wanted + StructSize + Align
<1> DEFINE x == wanted + StructSize
           u == RoundUp(x)
<1>1. x \in Int /\ wanted <= x /\ StructSize > 0 /\ SizeMax \in Nat /\ Align \in Nat
  BY Constants
<1>2. u \in Int /\ Aligned(u) /\ x <= u /\ u < x + Align
  BY <1>1, RoundedUp
<1>3. BlockSize(wanted) = IF wanted = 0 \/ u > SizeMax THEN 0 ELSE u
  BY DEF BlockSize
<1> HIDE DEF u
<1>4. QED
  BY <1>1, <1>2, <1>3

(* No block is larger than what the array holds beside the end marker.     *)
LEMMA BlocksAreSmall ==
    ASSUME NEW h, WellMade(h), NEW p \in Free(h)
    PROVE  /\ h.size[p] \in Nat /\ Aligned(h.size[p])
           /\ h.size[p] + Align <= TopBit /\ h.size[p] + Align <= SizeMax
           /\ h.size[p] <= h.xFreeBytesRemaining
<1>1. Tiles(Blocks(h), h.size) /\ p \in Blocks(h)
  BY WellFacts DEF WellMade
<1>2. p \in Nat /\ h.size[p] \in Nat /\ Start <= p /\ p + h.size[p] <= pxEnd /\ Aligned(h.size[p])
  BY <1>1, TileFacts DEF Tiles
<1>3. Align <= StructSize
  <2>1. Align \in Int /\ StructSize \in Int /\ 0 \in Int /\ Aligned(StructSize) /\ Aligned(0) /\ Align > 0 /\ StructSize > 0
    BY Constants DEF Aligned
  <2>2. ASSUME StructSize < Align PROVE FALSE
    <3>1. StructSize < 0 + Align
      BY <2>1, <2>2
    <3>2. StructSize <= 0
      BY <2>1, <3>1, AlignedLess
    <3>3. QED
      BY <2>1, <3>2
  <2>3. QED
    BY <2>1, <2>2
<1>4. pxEnd - Start <= TotalSize - StructSize
  <2>1. /\ ucHeap \in Int /\ ucHeap + TotalSize - StructSize \in Int /\ StructSize \in Int /\ TotalSize \in Int
    BY Constants
  <2>2. ucHeap <= Start /\ pxEnd <= ucHeap + TotalSize - StructSize
    BY <2>1, RoundedUp, RoundedDown DEF Start, pxEnd
  <2>3. QED
    BY <2>1, <2>2, Ends
<1>5. h.size[p] + Align <= TopBit /\ h.size[p] + Align <= SizeMax
  <2>1. h.size[p] <= TotalSize - StructSize
    BY <1>2, <1>4, Constants, Ends
  <2>2. QED
    BY <1>2, <1>3, <2>1, Constants
<1>6. h.size[p] <= h.xFreeBytesRemaining
  <2>1. /\ IsFiniteSet(Free(h)) /\ \A q \in Free(h) : h.size[q] \in Nat
        /\ h.xFreeBytesRemaining = Sum(h.size, Free(h))
    BY WellFacts DEF WellMade, Counted
  <2>2. Sum(h.size, Free(h)) = h.size[p] + Sum(h.size, Free(h) \ {p})
    BY <2>1, SumWithout
  <2>3. IsFiniteSet(Free(h) \ {p}) /\ \A q \in Free(h) \ {p} : h.size[q] \in Nat
    BY <2>1, FS_Subset
  <2>4. Sum(h.size, Free(h) \ {p}) \in Nat
    BY <2>3, SumWithout
  <2>5. QED
    BY <1>2, <2>1, <2>2, <2>4
<1>7. QED
  BY <1>2, <1>5, <1>6

LEMMA NotNoHeap ==
    ASSUME NEW h, WellMade(h)
    PROVE  h # NoHeap /\ h.next[xStart] # NULL
<1>1. Start \in DOMAIN h.next
  BY DEF WellMade, Tiles, Blocks
<1>2. DOMAIN NoHeap.next = {xStart}
  BY DEF NoHeap
<1>3. Start # xStart
  BY Ends
<1>4. h.next[xStart] # NULL
  <2>1. xStart \in Linked(h)
    BY WellFacts DEF Chain
  <2>2. QED
    BY <2>1 DEF Linked
<1>5. QED
  BY <1>1, <1>2, <1>3, <1>4

(* A request that is turned down found no block that is large enough.      *)
LEMMA RefusedIsRight ==
    ASSUME NEW h, WellMade(h), NEW wanted \in Nat, wanted > 0, NEW p \in Free(h),
           LET w == BlockSize(wanted)
           IN  ~(MayFit(h, w) /\ h.next[PreviousBlock(h, w)] # pxEnd)
    PROVE  h.size[p] < wanted + StructSize
<1> DEFINE w == BlockSize(wanted)
           x == wanted + StructSize
           prev == PreviousBlock(h, w)
<1>1. /\ w \in Nat /\ x \in Nat /\ Align \in Nat /\ Align > 0 /\ TopBit \in Nat
      /\ w > 0 => Aligned(w) /\ x <= w /\ w < x + Align
      /\ w = 0 => SizeMax < x + Align
  BY BlockSizeIs, Constants
<1>2. /\ h.size[p] \in Nat /\ Aligned(h.size[p])
      /\ h.size[p] + Align <= TopBit /\ h.size[p] + Align <= SizeMax
      /\ h.size[p] <= h.xFreeBytesRemaining /\ h.xFreeBytesRemaining \in Nat
  BY BlocksAreSmall, WellFacts
<1>3. h.next[prev] = pxEnd => h.size[p] < w
  <2>1. Chain(h, Free(h)) /\ \A q \in Free(h) \cup {pxEnd} : h.size[q] \in Int
    BY WellFacts
  <2>2. QED
    BY <1>1, <2>1, PreviousIs
<1>4. ~(MayFit(h, w) /\ h.next[prev] # pxEnd)
  OBVIOUS
<1> HIDE DEF w, x, prev
<1>5. ASSUME x <= h.size[p] PROVE FALSE
  <2>1. w > 0 /\ w < x + Align
    BY <1>1, <1>2, <1>5, Constants
  <2>2. w < h.size[p] + Align
    BY <1>1, <1>2, <1>5, <2>1
  <2>3. w <= h.size[p]
    <3>1. w \in Int /\ h.size[p] \in Int /\ Aligned(w) /\ Aligned(h.size[p])
      BY <1>1, <1>2, <2>1
    <3>2. QED
      BY <2>2, <3>1, AlignedLess
  <2>4. MayFit(h, w)
    BY <1>1, <1>2, <2>1, <2>2, <2>3 DEF MayFit
  <2>5. h.size[p] < w
    BY <1>3, <1>4, <2>4
  <2>6. QED
    BY <1>1, <1>2, <2>3, <2>5
<1>6. QED
  BY <1>1, <1>2, <1>5 DEF x

LEMMA FreeBlocksAre ==
    ASSUME WellMade(heap), Fits(heap, live)
    PROVE  FreeBlocks = Free(heap) /\ DOMAIN live = heap.allocated
BY DEF FreeBlocks, Heads, Free, Blocks, Fits

LEMMA MallocKeeps ==
    ASSUME HInv, NEW wanted \in Nat, pvPortMalloc(wanted)
    PROVE  HInv'
<1> DEFINE h == IF heap = NoHeap THEN prvHeapInit ELSE heap
           w == BlockSize(wanted)
           prev == PreviousBlock(h, w)
           b == h.next[prev]
<1>1. WellMade(h) /\ Fits(h, live)
  <2>1. CASE heap = NoHeap
    <3>1. live = <<>>
      BY <2>1 DEF HInv
    <3>2. h.allocated = {} /\ WellMade(h)
      BY <2>1, InitHeap
    <3>3. live \in [{} -> Nat]
      BY <3>1
    <3>4. QED
      BY <3>2, <3>3 DEF Fits
  <2>2. CASE heap # NoHeap
    BY <2>2 DEF HInv
  <2>3. QED
    BY <2>1, <2>2
<1>2. IF MayFit(h, w) /\ b # pxEnd
      THEN /\ heap' = Taken(h, prev, w)
           /\ live' = Put(live, b, wanted)
           /\ last' = [wanted |-> wanted, got |-> b]
           /\ loaded' = loaded /\ overtaken' = {t \in Tasks : loaded[t] # NULL}
      ELSE /\ heap' = h
           /\ last' = [wanted |-> wanted, got |-> NULL]
           /\ live' = live
           /\ loaded' = loaded /\ overtaken' = overtaken /\ raced' = raced
  BY DEF pvPortMalloc, resets
<1>3. /\ w \in Nat
      /\ w > 0 => Aligned(w) /\ wanted + StructSize <= w
  BY BlockSizeIs
<1>4. /\ prev \in Free(h) \cup {xStart} /\ b \in Free(h) \cup {pxEnd}
      /\ b # pxEnd => w <= h.size[b]
  <2>1. Chain(h, Free(h)) /\ \A q \in Free(h) \cup {pxEnd} : h.size[q] \in Int
    BY <1>1, WellFacts
  <2>2. QED
    BY <1>3, <2>1, PreviousIs
<1>9. /\ loaded \in [Tasks -> Nat \cup {NULL}] /\ h.xFreeBytesRemaining \in Nat
      /\ \A t \in Tasks \ overtaken : loaded[t] <= h.xFreeBytesRemaining
      /\ raced \/ h.xMinimumEverFreeBytesRemaining <= h.xFreeBytesRemaining
  <2>1. ResetInv /\ h.xFreeBytesRemaining \in Nat
    BY <1>1, WellFacts DEF HInv
  <2>2. CASE heap = NoHeap
    <3>1. h = prvHeapInit /\ \A t \in Tasks : loaded[t] \in {NULL, 0}
      BY <2>1, <2>2 DEF ResetInv
    <3>2. h.xMinimumEverFreeBytesRemaining = h.xFreeBytesRemaining
      BY <3>1, InitHeap
    <3>3. NULL <= h.xFreeBytesRemaining /\ 0 <= h.xFreeBytesRemaining
      BY <2>1 DEF NULL
    <3> HIDE DEF h
    <3>4. QED
      BY <2>1, <3>1, <3>2, <3>3 DEF ResetInv
  <2>3. CASE heap # NoHeap
    <3>1. h = heap
      BY <2>3
    <3>2. QED
      BY <2>1, <3>1 DEF ResetInv
  <2>4. QED
    BY <2>2, <2>3
<1> HIDE DEF h, w
<1>5. CASE MayFit(h, w) /\ b # pxEnd
  <2>1. w > 0 /\ Aligned(w) /\ wanted + StructSize <= w /\ w <= h.size[b]
    BY <1>3, <1>4, <1>5 DEF MayFit
  <2>2. /\ WellMade(heap') /\ heap'.allocated = h.allocated \cup {b} /\ b \notin h.allocated
        /\ w <= heap'.size[b] /\ \A a \in h.allocated : heap'.size[a] = h.size[a]
        /\ heap'.xMinimumEverFreeBytesRemaining <= heap'.xFreeBytesRemaining
    BY <1>1, <1>2, <1>3, <1>4, <1>5, <2>1, TakenKeeps
  <2>3. live' = Put(live, b, wanted) /\ last' = [wanted |-> wanted, got |-> b]
    BY <1>2, <1>5
  <2> HIDE DEF b, prev
  <2>4. b \in Int /\ b # NULL
    <3>1. b \in Blocks(h) /\ Tiles(Blocks(h), h.size)
      BY <1>1, <1>4, <1>5, WellFacts DEF WellMade
    <3>2. QED
      BY <3>1, TileFacts, Ends
  <2>5. /\ live' \in [heap'.allocated -> Nat]
        /\ live'[b] = wanted /\ \A a \in h.allocated : live'[a] = live[a]
    BY <1>1, <2>2, <2>3 DEF Put, Fits
  <2>6. \A a \in heap'.allocated : StructSize + live'[a] <= heap'.size[a]
    <3>1. StructSize + wanted <= heap'.size[b]
      <4>1. b \in heap'.allocated /\ heap'.size[b] \in Nat
        BY <2>2, WellFacts
      <4>2. QED
        BY <1>3, <2>1, <2>2, <4>1, Constants
    <3>2. QED
      BY <1>1, <2>2, <2>5, <3>1 DEF Fits
  <2>7. WellMade(heap') /\ Fits(heap', live') /\ heap' # NoHeap
    BY <2>2, <2>5, <2>6, NotNoHeap DEF Fits
  <2>8. RefusedOnlyIfFull'
    BY <2>3, <2>4 DEF RefusedOnlyIfFull
  <2>9. ResetInv'
    <3>1. loaded' = loaded /\ overtaken' = {t \in Tasks : loaded[t] # NULL}
      BY <1>2, <1>5
    <3>2. NULL <= heap'.xFreeBytesRemaining
      BY <2>2, WellFacts DEF NULL
    <3>3. \A t \in Tasks \ overtaken' : loaded'[t] <= heap'.xFreeBytesRemaining
      BY <3>1, <3>2
    <3>4. QED
      BY <1>9, <2>2, <2>7, <3>1, <3>3 DEF ResetInv
  <2>10. QED
    BY <2>7, <2>8, <2>9 DEF HInv
<1>6. CASE ~(MayFit(h, w) /\ b # pxEnd)
  <2>1. heap' = h /\ live' = live /\ last' = [wanted |-> wanted, got |-> NULL]
    BY <1>2, <1>6
  <2>2. WellMade(heap') /\ Fits(heap', live') /\ heap' # NoHeap
    BY <1>1, <2>1, NotNoHeap
  <2>3. FreeBlocks' = Free(h)
    BY <1>1, <2>1 DEF FreeBlocks, Heads, Free, Blocks, Fits
  <2>4. RefusedOnlyIfFull'
    <3>1. ASSUME wanted > 0, NEW p \in Free(h) PROVE h.size[p] < wanted + StructSize
      BY <1>1, <1>6, <3>1, RefusedIsRight DEF w
    <3>2. QED
      BY <2>1, <2>3, <3>1 DEF RefusedOnlyIfFull
  <2>5. ResetInv'
    <3>1. loaded' = loaded /\ overtaken' = overtaken /\ raced' = raced
      BY <1>2, <1>6
    <3>2. QED
      BY <1>9, <2>1, <2>2, <3>1 DEF ResetInv
  <2>6. QED
    BY <2>2, <2>4, <2>5 DEF HInv
<1>7. QED
  BY <1>5, <1>6

LEMMA FreeKeeps ==
    ASSUME HInv, NEW a \in DOMAIN live, vPortFree(a)
    PROVE  HInv'
<1>1. heap # NoHeap /\ WellMade(heap) /\ Fits(heap, live) /\ a \in heap.allocated
  BY DEF HInv, vPortFree
<1>2. /\ heap' = Inserted(GivenBack(heap, a), a)
      /\ live' = [c \in DOMAIN live \ {a} |-> live[c]] /\ last' = NoRequest
      /\ loaded' = loaded /\ overtaken' = overtaken /\ raced' = raced
  BY DEF vPortFree, GivenBack, resets
<1>3. /\ WellMade(heap') /\ heap'.allocated = heap.allocated \ {a}
      /\ \A c \in heap'.allocated : heap'.size[c] = heap.size[c]
      /\ heap.xFreeBytesRemaining <= heap'.xFreeBytesRemaining
      /\ heap'.xMinimumEverFreeBytesRemaining = heap.xMinimumEverFreeBytesRemaining
  BY <1>1, <1>2, FreedKeeps
<1>4. Fits(heap', live')
  BY <1>1, <1>2, <1>3 DEF Fits
<1>5. RefusedOnlyIfFull'
  BY <1>2 DEF RefusedOnlyIfFull, NoRequest
<1>6. ResetInv'
  <2> DEFINE old == heap.xFreeBytesRemaining
             new == heap'.xFreeBytesRemaining
             least == heap.xMinimumEverFreeBytesRemaining
  <2>1. old \in Nat /\ new \in Nat /\ least \in Nat /\ old <= new
    BY <1>1, <1>3, WellFacts DEF WellMade, Counted
  <2>2. /\ loaded \in [Tasks -> Nat \cup {NULL}] /\ (raced \/ least <= old)
        /\ \A t \in Tasks \ overtaken : loaded[t] <= old
    BY DEF HInv, ResetInv
  <2>3. raced \/ least <= new
    BY <2>1, <2>2
  <2>4. \A t \in Tasks \ overtaken : loaded[t] <= new
    <3>1. ASSUME NEW t \in Tasks \ overtaken PROVE loaded[t] <= new
      <4>1. loaded[t] \in Int /\ loaded[t] <= old
        BY <2>2 DEF NULL
      <4> HIDE DEF old, new
      <4>2. QED
        BY <2>1, <4>1
    <3>2. QED
      BY <3>1
  <2>5. heap' # NoHeap
    BY <1>3, NotNoHeap
  <2>6. QED
    BY <1>2, <1>3, <2>2, <2>3, <2>4, <2>5 DEF ResetInv
<1>7. QED
  BY <1>3, <1>4, <1>5, <1>6, NotNoHeap DEF HInv

LEMMA ResetLoadKeeps ==
    ASSUME HInv, NEW t \in Tasks, ResetLoad(t)
    PROVE  HInv'
<1>1. /\ heap' = heap /\ live' = live /\ last' = last
      /\ overtaken' = overtaken /\ raced' = raced
      /\ loaded' = [loaded EXCEPT ![t] = heap.xFreeBytesRemaining]
  BY DEF ResetLoad
<1>2. RefusedOnlyIfFull'
  BY <1>1 DEF HInv, RefusedOnlyIfFull, FreeBlocks, Heads
<1>3. heap.xFreeBytesRemaining \in Nat /\ (heap = NoHeap => heap.xFreeBytesRemaining = 0)
  <2>1. NoHeap.xFreeBytesRemaining = 0
    BY DEF NoHeap
  <2>2. QED
    BY <2>1, WellFacts DEF HInv
<1>4. ResetInv'
  <2>1. ResetInv
    BY DEF HInv
  <2>2. loaded' \in [Tasks -> Nat \cup {NULL}]
    BY <1>1, <1>3, <2>1 DEF ResetInv
  <2>3. \A u \in Tasks : loaded'[u] = IF u = t THEN heap.xFreeBytesRemaining ELSE loaded[u]
    BY <1>1, <2>1 DEF ResetInv
  <2>4. heap.xFreeBytesRemaining <= heap.xFreeBytesRemaining
    BY <1>3
  <2>5. QED
    BY <1>1, <1>3, <2>1, <2>2, <2>3, <2>4 DEF ResetInv
<1>5. QED
  BY <1>1, <1>2, <1>4 DEF HInv

LEMMA ResetStoreKeeps ==
    ASSUME HInv, NEW t \in Tasks, ResetStore(t)
    PROVE  HInv'
<1>1. /\ heap' = [heap EXCEPT !.xMinimumEverFreeBytesRemaining = loaded[t]]
      /\ loaded' = [loaded EXCEPT ![t] = NULL] /\ overtaken' = overtaken \ {t}
      /\ raced' = (t \in overtaken) /\ last' = NoRequest /\ live' = live /\ loaded[t] # NULL
  BY DEF ResetStore
<1>2. RefusedOnlyIfFull'
  BY <1>1 DEF RefusedOnlyIfFull, NoRequest
<1>3. /\ ResetInv /\ loaded[t] \in Nat
      /\ loaded' \in [Tasks -> Nat \cup {NULL}] /\ loaded'[t] = NULL
      /\ \A u \in Tasks \ {t} : loaded'[u] = loaded[u]
  BY <1>1 DEF HInv, ResetInv
<1>4. CASE heap = NoHeap /\ live = <<>>
  <2>1. loaded[t] = 0
    BY <1>1, <1>3, <1>4 DEF ResetInv
  <2>2. heap' = NoHeap
    BY <1>1, <1>4, <2>1 DEF NoHeap
  <2>3. NoHeap.xFreeBytesRemaining = 0 /\ NoHeap.xMinimumEverFreeBytesRemaining = 0
    BY DEF NoHeap
  <2>4. \A u \in Tasks : loaded'[u] \in {NULL, 0}
    BY <1>3, <1>4 DEF ResetInv
  <2>5. ResetInv'
    BY <1>3, <2>2, <2>3, <2>4 DEF ResetInv, NULL
  <2>6. QED
    BY <1>1, <1>2, <1>4, <2>2, <2>5 DEF HInv
<1>5. CASE heap # NoHeap /\ WellMade(heap) /\ Fits(heap, live)
  <2>1. heap = [f \in Fields |-> heap[f]] /\ DOMAIN heap = Fields
    BY <1>5 DEF WellMade, Shaped
  <2>2. /\ heap' = [f \in Fields |-> heap'[f]]
        /\ heap'.xMinimumEverFreeBytesRemaining = loaded[t]
        /\ heap'.next = heap.next /\ heap'.size = heap.size /\ heap'.allocated = heap.allocated
        /\ heap'.xFreeBytesRemaining = heap.xFreeBytesRemaining
        /\ heap'.xNumberOfSuccessfulAllocations = heap.xNumberOfSuccessfulAllocations
        /\ heap'.xNumberOfSuccessfulFrees = heap.xNumberOfSuccessfulFrees
    BY <1>1, <2>1 DEF Fields
  <2>3. Blocks(heap') = Blocks(heap) /\ Free(heap') = Free(heap)
    BY <2>2 DEF Blocks, Free
  <2>4. Shaped(heap')
    BY <1>5, <2>2, <2>3 DEF WellMade, Shaped
  <2>5. Counted(heap')
    BY <1>3, <1>5, <2>2, <2>3 DEF WellMade, Counted
  <2>6. WellMade(heap')
    BY <1>5, <2>2, <2>3, <2>4, <2>5 DEF WellMade
  <2>7. Fits(heap', live')
    BY <1>1, <1>5, <2>2 DEF Fits
  <2>8. heap' # NoHeap
    BY <2>6, NotNoHeap
  <2>9. ResetInv'
    <3>1. heap.xFreeBytesRemaining \in Nat /\ NULL <= heap.xFreeBytesRemaining
      BY <1>5, WellFacts DEF NULL
    <3>2. raced' \/ loaded[t] <= heap.xFreeBytesRemaining
      BY <1>1, <1>3 DEF ResetInv
    <3>3. \A u \in Tasks \ overtaken' : loaded'[u] <= heap.xFreeBytesRemaining
      BY <1>1, <1>3, <3>1 DEF ResetInv
    <3>4. QED
      BY <1>3, <2>2, <2>8, <3>2, <3>3 DEF ResetInv
  <2>10. QED
    BY <1>2, <2>6, <2>7, <2>8, <2>9 DEF HInv
<1>6. QED
  BY <1>4, <1>5 DEF HInv

(* The inductive invariant holds of every heap.                            *)
THEOREM HeapInvariant == Spec => []HInv
<1>1. Init => HInv
  <2> SUFFICES ASSUME Init PROVE HInv
    OBVIOUS
  <2>1. NoHeap.xFreeBytesRemaining = 0 /\ NoHeap.xMinimumEverFreeBytesRemaining = 0
    BY DEF NoHeap
  <2>2. heap = NoHeap /\ loaded = [t \in Tasks |-> NULL]
    BY DEF Init, NoResets
  <2>3. ResetInv
    BY <2>1, <2>2 DEF ResetInv, NULL
  <2>4. QED
    BY <2>3 DEF Init, HInv, RefusedOnlyIfFull, NoRequest
<1>2. HInv /\ [Next]_vars => HInv'
  <2> SUFFICES ASSUME HInv, [Next]_vars PROVE HInv'
    OBVIOUS
  <2>1. CASE \E n \in Sizes : pvPortMalloc(n)
    BY <2>1, Constants, MallocKeeps
  <2>2. ASSUME NEW n \in Sizes, NEW num \in Counts, pvPortCalloc(num, n) PROVE HInv'
    <3>1. CASE Overflows(num, n)
      <4>1. /\ last' = NoRequest /\ heap' = heap /\ live' = live
            /\ loaded' = loaded /\ overtaken' = overtaken /\ raced' = raced
        BY <2>2, <3>1 DEF pvPortCalloc, resets
      <4>2. RefusedOnlyIfFull'
        BY <4>1 DEF RefusedOnlyIfFull, NoRequest
      <4>3. ResetInv'
        BY <4>1 DEF HInv, ResetInv
      <4>4. QED
        BY <4>1, <4>2, <4>3 DEF HInv
    <3>2. CASE ~Overflows(num, n)
      <4>1. num * n \in Nat /\ pvPortMalloc(num * n)
        BY <2>2, <3>2, Constants DEF pvPortCalloc
      <4>2. QED
        BY <4>1, MallocKeeps
    <3>3. QED
      BY <3>1, <3>2
  <2>3. CASE \E a \in DOMAIN live : vPortFree(a)
    BY <2>3, FreeKeeps
  <2>4. CASE \E t \in Tasks : ResetLoad(t) \/ ResetStore(t)
    BY <2>4, ResetLoadKeeps, ResetStoreKeeps
  <2>5. CASE vPortHeapResetState
    <3>1. NoHeap.xFreeBytesRemaining = 0 /\ NoHeap.xMinimumEverFreeBytesRemaining = 0
      BY DEF NoHeap
    <3>2. heap' = NoHeap /\ loaded' = [t \in Tasks |-> NULL]
      BY <2>5 DEF vPortHeapResetState
    <3>3. ResetInv'
      BY <3>1, <3>2 DEF ResetInv, NULL
    <3>4. QED
      BY <2>5, <3>3 DEF vPortHeapResetState, HInv, RefusedOnlyIfFull, NoRequest
  <2>6. CASE UNCHANGED vars
    <3>1. /\ heap' = heap /\ live' = live /\ last' = last
          /\ loaded' = loaded /\ overtaken' = overtaken /\ raced' = raced
      BY <2>6 DEF vars, resets
    <3>2. QED
      BY <3>1 DEF HInv, ResetInv, RefusedOnlyIfFull, FreeBlocks, Heads
  <2>7. QED
    BY <2>1, <2>2, <2>3, <2>4, <2>5, <2>6 DEF Next
<1>3. QED
  BY <1>1, <1>2, PTL DEF Spec

-----------------------------------------------------------------------------
(* What the runs check, of every heap.                                     *)

(* The blocks, free and taken, always lie one behind the other from the    *)
(* start of the heap to its end marker, and what an application asked for  *)
(* fits its block: no sequence of calls makes two of them overlap.         *)
THEOREM BlocksTile == Spec => []BlocksTileHeap
<1>1. HInv => BlocksTileHeap
  <2> SUFFICES ASSUME HInv PROVE BlocksTileHeap
    OBVIOUS
  <2>1. CASE heap = NoHeap /\ live = <<>>
    <3>1. Heads = {xStart} /\ heap.allocated = {} /\ DOMAIN live = {}
      BY <2>1 DEF NoHeap, Heads
    <3>2. QED
      BY <3>1 DEF BlocksTileHeap
  <2>2. CASE WellMade(heap) /\ Fits(heap, live)
    <3>1. Heads = Blocks(heap) \cup {xStart, pxEnd} /\ Tiles(Blocks(heap), heap.size)
      BY <2>2, WellFacts DEF Heads, WellMade
    <3>2. {Start, pxEnd} \subseteq Heads
      BY <3>1 DEF Tiles
    <3>3. ASSUME NEW p \in Heads \ {xStart, pxEnd}
          PROVE  /\ p \in Start..pxEnd /\ p % Align = 0
                 /\ heap.size[p] > 0 /\ p + heap.size[p] \in Heads
                 /\ ~\E q \in Heads : p < q /\ q < p + heap.size[p]
      <4>1. p \in Blocks(heap)
        BY <3>1
      <4>2. /\ p \in Nat /\ Start <= p /\ p < pxEnd /\ xStart < p /\ heap.size[p] \in Nat
            /\ heap.size[p] > 0 /\ p + heap.size[p] \in Blocks(heap) \cup {pxEnd}
            /\ p + heap.size[p] <= pxEnd /\ \A q \in Blocks(heap) : p < q => p + heap.size[p] <= q
        BY <3>1, <4>1, TileFacts
      <4>3. p % Align = 0
        BY <3>1, <4>1 DEF Tiles, Aligned
      <4>4. ASSUME NEW q \in Heads, p < q, q < p + heap.size[p] PROVE FALSE
        <5>1. CASE q = xStart
          BY <4>2, <4>4, <5>1, Ends
        <5>2. CASE q = pxEnd
          BY <4>2, <4>4, <5>2, Ends
        <5>3. CASE q \in Blocks(heap)
          <6>1. q \in Nat /\ p + heap.size[p] <= q
            BY <3>1, <4>2, <4>4, <5>3, TileFacts
          <6>2. QED
            BY <4>2, <4>4, <6>1
        <5>4. QED
          BY <3>1, <5>1, <5>2, <5>3
      <4>5. QED
        BY <3>1, <4>2, <4>3, <4>4, Ends
    <3>4. heap.allocated = DOMAIN live /\ \A a \in DOMAIN live : StructSize + live[a] <= heap.size[a]
      BY <2>2 DEF Fits
    <3>5. QED
      BY <3>2, <3>3, <3>4 DEF BlocksTileHeap
  <2>3. QED
    BY <2>1, <2>2 DEF HInv
<1>2. QED
  BY <1>1, HeapInvariant, PTL

LEMMA MinIs ==
    ASSUME NEW T, T \subseteq Int, NEW x \in T, \A y \in T : x <= y
    PROVE  Min(T) = x
<1>1. ASSUME NEW z \in T, \A y \in T : z <= y PROVE z = x
  <2>1. z <= x /\ x <= z /\ z \in Int /\ x \in Int
    BY <1>1
  <2>2. QED
    BY <2>1
<1>2. QED
  BY <1>1 DEF Min

(* The free list has every free block, in the order of their addresses,    *)
(* and no two of them touch: what is given back, in any order, becomes one *)
(* block again.                                                            *)
THEOREM FreeListInvariant == Spec => []FreeListIsRight
<1>1. HInv => FreeListIsRight
  <2> SUFFICES ASSUME HInv PROVE FreeListIsRight
    OBVIOUS
  <2>1. CASE heap = NoHeap /\ live = <<>>
    <3>1. FreeBlocks = {}
      BY <2>1 DEF NoHeap, FreeBlocks, Heads
    <3>2. QED
      BY <2>1, <3>1 DEF FreeListIsRight, ListIsOrdered, NoneTouch
  <2>2. CASE WellMade(heap) /\ Fits(heap, live)
    <3> DEFINE F == Free(heap)
               B == Blocks(heap)
    <3>1. /\ FreeBlocks = F /\ DOMAIN live = heap.allocated /\ Addresses(F)
          /\ Ordered(F, heap.next) /\ Apart(F, heap.size) /\ Tiles(B, heap.size)
          /\ F = B \ heap.allocated
      BY <2>2, FreeBlocksAre, WellFacts DEF WellMade, Chain, Free
    <3> HIDE DEF F, B
    <3>2. ASSUME NEW p \in F \cup {xStart}
          PROVE  heap.next[p] = Min({q \in F \cup {pxEnd} : q > p})
      <4> DEFINE T == {q \in F \cup {pxEnd} : q > p}
      <4>1. /\ p \in Int /\ heap.next[p] \in Int /\ heap.next[p] \in F \cup {pxEnd} /\ p < heap.next[p]
            /\ \A q \in F \cup {pxEnd} : p < q => heap.next[p] <= q
        BY <3>1, OrderedFacts
      <4>2. T \subseteq Int /\ heap.next[p] \in T /\ \A q \in T : heap.next[p] <= q
        BY <3>1, <4>1, Ends DEF Addresses
      <4> HIDE DEF T
      <4>3. Min(T) = heap.next[p]
        BY <4>2, MinIs
      <4>4. QED
        BY <4>3 DEF T
    <3>3. ListIsOrdered
      BY <3>1, <3>2 DEF ListIsOrdered
    <3>4. ASSUME DOMAIN live = {} PROVE F = {Start}
      <4>1. F = B
        BY <3>1, <3>4
      <4>2. Start \in B /\ Start + heap.size[Start] \in B \cup {pxEnd} /\ Start + heap.size[Start] \notin B
        BY <3>1, <4>1, TileFacts DEF Apart, Tiles
      <4>3. ASSUME NEW q \in B PROVE q = Start
        <5>1. q \in Nat /\ Start <= q /\ q < pxEnd /\ (Start < q => Start + heap.size[Start] <= q)
          BY <3>1, <4>2, TileFacts
        <5>2. QED
          BY <4>2, <5>1, Ends
      <4>4. QED
        BY <4>1, <4>2, <4>3
    <3>5. NoneTouch
      BY <3>1, <3>4 DEF NoneTouch, Apart
    <3>6. QED
      BY <3>3, <3>5 DEF FreeListIsRight
  <2>3. QED
    BY <2>1, <2>2 DEF HInv
<1>2. QED
  BY <1>1, HeapInvariant, PTL

(* The walk of the statistics comes by every free block.                   *)
LEMMA WalkIsFree ==
    ASSUME NEW F, Chain(heap, F)
    PROVE  Walk = F
<1> DEFINE L == Linked(heap)
           N == heap.next
           Body(f) == [p \in L \cup {pxEnd} |-> IF p = pxEnd THEN {} ELSE {p} \cup f[N[p]]]
           from == CHOOSE f : f = Body(f)
<1>1. IsList(L, pxEnd, N) /\ L = F \cup {xStart}
  BY ChainIsList DEF Chain
<1>2. from = Body(from)
  <2>1. PICK f \in [L \cup {pxEnd} -> SUBSET L] : Collects(f, L, pxEnd, N)
    BY <1>1, CollectExists
  <2>2. \A p \in L \cup {pxEnd} : f[p] = Body(f)[p]
    BY <2>1 DEF Collects
  <2>3. f = Body(f)
    BY <2>1, <2>2
  <2> HIDE DEF Body
  <2>4. QED
    BY <2>3
<1>3. Collects(from, L, pxEnd, N)
  <2> HIDE DEF from
  <2>1. QED
    BY <1>2 DEF Collects
<1>4. xStart \in L /\ N[xStart] # NULL
  BY <1>1 DEF Linked
<1>5. Walk = from[N[xStart]]
  BY <1>4 DEF Walk
<1> HIDE DEF from, Body
<1>6. /\ xStart \in Int /\ N[xStart] \in Int /\ N[xStart] \in F \cup {pxEnd} /\ xStart < N[xStart]
      /\ \A q \in F \cup {pxEnd} : xStart < q => N[xStart] <= q
  BY OrderedFacts DEF Chain
<1>7. from[N[xStart]] = Above(L, N[xStart])
  BY <1>1, <1>3, <1>6, CollectsAll
<1>8. Above(L, N[xStart]) = F
  <2>1. ~(N[xStart] <= xStart) /\ \A q \in F : N[xStart] <= q
    BY <1>6 DEF Chain, Addresses
  <2>2. QED
    BY <1>1, <2>1 DEF Above
<1>9. QED
  BY <1>5, <1>7, <1>8

LEMMA MaxIn ==
    ASSUME NEW T, T \subseteq Int, T # {}, NEW hi \in Int, \A t \in T : t <= hi
    PROVE  Max(T) \in T /\ \A t \in T : t <= Max(T)
<1>1. PICK x \in T : \A y \in T : y <= x
  BY GreatestElement
<1>2. \A y \in T : x >= y
  BY <1>1
<1>3. QED
  BY <1>2 DEF Max

LEMMA MinIn ==
    ASSUME NEW T, T \subseteq Int, T # {}, NEW lo \in Int, \A t \in T : lo <= t
    PROVE  Min(T) \in T /\ \A t \in T : Min(T) <= t
<1>1. PICK x \in T : \A y \in T : x <= y
  BY LeastElement
<1>2. QED
  BY <1>1 DEF Min

(* Each part of the statistics says what is there at the moment it is      *)
(* read, in the critical section of its own that the code reads it in; the *)
(* minimum does unless a request was granted between the load and the      *)
(* store of the last reset of it.                                          *)
THEOREM StatsInvariant == Spec => []StatsAreRight
<1>1. HInv => StatsAreRight
  <2> SUFFICES ASSUME HInv, heap # NoHeap PROVE StatsAreRight
    BY DEF StatsAreRight
  <2> DEFINE F == Free(heap)
             Z == heap.size
             sizes == {Z[p] : p \in F}
             largest == Max(sizes \cup {0})
             smallest == Min(sizes \cup {SizeMax})
  <2>1. WellMade(heap) /\ Fits(heap, live)
    BY DEF HInv
  <2>2. FreeBlocks = F /\ DOMAIN live = heap.allocated
    BY <2>1, FreeBlocksAre
  <2>3. Walk = F
    BY <2>1, WellFacts, WalkIsFree
  <2>4. \A p \in F : Z[p] \in Nat /\ Z[p] <= heap.xFreeBytesRemaining /\ Z[p] <= SizeMax
    <3>1. ASSUME NEW p \in F PROVE Z[p] \in Nat /\ Z[p] <= heap.xFreeBytesRemaining /\ Z[p] <= SizeMax
      BY <2>1, BlocksAreSmall, Constants
    <3>2. QED
      BY <3>1
  <2>5. heap.xFreeBytesRemaining \in Nat
    BY <2>1, WellFacts
  <2>6. /\ StatsOfBlocks.xSizeOfLargestFreeBlockInBytes = largest
        /\ StatsOfBlocks.xSizeOfSmallestFreeBlockInBytes = smallest
        /\ StatsOfBlocks.xNumberOfFreeBlocks = Cardinality(F)
        /\ StatsOfAccounts.xAvailableHeapSpaceInBytes = heap.xFreeBytesRemaining
        /\ StatsOfAccounts.xNumberOfSuccessfulAllocations = heap.xNumberOfSuccessfulAllocations
        /\ StatsOfAccounts.xNumberOfSuccessfulFrees = heap.xNumberOfSuccessfulFrees
    BY <2>3 DEF StatsOfBlocks, StatsOfAccounts
  <2> HIDE DEF F, Z, largest, smallest
  <2>7. largest \in Int /\ largest <= heap.xFreeBytesRemaining /\ \A p \in F : Z[p] <= largest
    <3> DEFINE T == sizes \cup {0}
    <3>1. T \subseteq Int /\ T # {} /\ \A t \in T : t <= heap.xFreeBytesRemaining
      BY <2>4, <2>5
    <3>2. Max(T) \in T /\ \A t \in T : t <= Max(T)
      <4>1. heap.xFreeBytesRemaining \in Int
        BY <2>5
      <4> HIDE DEF T
      <4>2. QED
        BY <3>1, <4>1, MaxIn
    <3>3. QED
      BY <3>1, <3>2 DEF largest
  <2>8. smallest \in Int /\ \A p \in F : smallest <= Z[p]
    <3> DEFINE T == sizes \cup {SizeMax}
    <3>1. T \subseteq Int /\ T # {} /\ \A t \in T : 0 <= t
      BY <2>4, Constants
    <3>2. Min(T) \in T /\ \A t \in T : Min(T) <= t
      <4>1. 0 \in Int
        OBVIOUS
      <4> HIDE DEF T
      <4>2. QED
        BY <3>1, <4>1, MinIn
    <3>3. QED
      BY <3>1, <3>2 DEF smallest
  <2>9. heap.xFreeBytesRemaining = MapThenSumSet(LAMBDA p : heap.size[p], F)
    BY <2>1 DEF WellMade, Counted, Sum, F
  <2>10. /\ raced \/ heap.xMinimumEverFreeBytesRemaining \in 0..heap.xFreeBytesRemaining
         /\ (heap.xNumberOfSuccessfulAllocations - heap.xNumberOfSuccessfulFrees) % CountMod
                = Cardinality(DOMAIN live) % CountMod
    <3>1. raced \/ heap.xMinimumEverFreeBytesRemaining <= heap.xFreeBytesRemaining
      BY DEF HInv, ResetInv
    <3>2. QED
      BY <2>1, <2>2, <2>5, <3>1 DEF WellMade, Counted
  <2>11. \A p \in F : heap.size[p] \in smallest..largest
    BY <2>4, <2>7, <2>8 DEF Z
  <2> HIDE DEF StatsOfBlocks, StatsOfAccounts
  <2>12. QED
    BY <2>2, <2>6, <2>7, <2>9, <2>10, <2>11
       DEF StatsAreRight, xPortGetMinimumEverFreeHeapSize, xPortGetFreeHeapSize
<1>2. QED
  BY <1>1, HeapInvariant, PTL

(* A request is turned down only if no free block is large enough for it:  *)
(* no free block is ever lost to the list, nor passed over by the walk.    *)
THEOREM RefusedInvariant == Spec => []RefusedOnlyIfFull
<1>1. HInv => RefusedOnlyIfFull
  BY DEF HInv
<1>2. QED
  BY <1>1, HeapInvariant, PTL

==============================================================================

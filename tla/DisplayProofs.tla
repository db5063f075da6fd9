---------------------------- MODULE DisplayProofs ----------------------------
(***************************************************************************)
(* Why what a call prints comes out whole and fits the buffer, for any     *)
(* number of threads, displays and calls.                                  *)
(***************************************************************************)
EXTENDS Display, FiniteSetTheorems, WellFoundedInduction, SequenceTheorems, TLAPS

-----------------------------------------------------------------------------
(* Induction over numbers, as a statement about sets.                      *)

LEMMA LeastNatural ==
    ASSUME NEW T, T \subseteq Nat, T # {}
    PROVE  \E x \in T : \A y \in T : x <= y
<1> DEFINE R == OpToRel(<, Nat)
<1>1. IsWellFoundedOn(R, Nat)
  BY NatLessThanWellFounded
<1>2. ASSUME NEW x \in Nat, NEW y \in Nat, y < x PROVE <<y, x>> \in R
  BY <1>2 DEF OpToRel
<1> HIDE DEF R
<1>3. PICK x \in T : \A y \in T : ~(<<y, x>> \in R)
  BY <1>1, WFMin
<1>4. ASSUME NEW y \in T PROVE x <= y
  <2>1. x \in Nat /\ y \in Nat
    OBVIOUS
  <2>2. ~(y < x)
    BY <2>1, <1>2, <1>3
  <2>3. QED
    BY <2>1, <2>2
<1>5. QED
  BY <1>4

LEMMA LeastElement ==
    ASSUME NEW T, NEW lo \in Int, T \subseteq Int, \A t \in T : lo <= t, T # {}
    PROVE  \E x \in T : \A y \in T : x <= y
<1> DEFINE U == {t - lo : t \in T}
<1>1. U \subseteq Nat /\ U # {}
  <2>1. ASSUME NEW t \in T PROVE t - lo \in Nat
    <3>1. t \in Int /\ lo <= t
      OBVIOUS
    <3>2. QED
      BY <3>1
  <2>2. QED
    BY <2>1
<1> HIDE DEF U
<1>2. PICK u \in U : \A v \in U : u <= v
  BY <1>1, LeastNatural
<1>3. PICK x \in T : u = x - lo
  BY <1>2 DEF U
<1>4. ASSUME NEW y \in T PROVE x <= y
  <2>1. y - lo \in U /\ x \in Int /\ y \in Int
    BY DEF U
  <2>2. x - lo <= y - lo
    BY <1>2, <1>3, <2>1
  <2>3. QED
    BY <2>1, <2>2
<1>5. QED
  BY <1>4

LEMMA GreatestElement ==
    ASSUME NEW T, NEW hi \in Int, T \subseteq Int, \A t \in T : t <= hi, T # {}
    PROVE  \E x \in T : \A y \in T : y <= x
<1> DEFINE U == {-t : t \in T}
<1>1. U \subseteq Int /\ U # {} /\ -hi \in Int /\ \A u \in U : -hi <= u
  OBVIOUS
<1> HIDE DEF U
<1>2. PICK u \in U : \A v \in U : u <= v
  BY <1>1, LeastElement
<1>3. PICK x \in T : u = -x
  BY <1>2 DEF U
<1>4. ASSUME NEW y \in T PROVE y <= x
  <2>1. -y \in U
    BY DEF U
  <2>2. QED
    BY <1>2, <1>3, <2>1
<1>5. QED
  BY <1>4

LEMMA Induction ==
    ASSUME NEW T, 0 \in T, \A n \in Nat : n \in T => n + 1 \in T
    PROVE  Nat \subseteq T
<1>1. ASSUME Nat \ T # {} PROVE FALSE
  <2>1. PICK x \in Nat \ T : \A y \in Nat \ T : x <= y
    BY <1>1, LeastNatural
  <2>2. x # 0 /\ x - 1 \in Nat /\ (x - 1) + 1 = x /\ ~(x <= x - 1)
    BY <2>1
  <2>3. QED
    BY <2>1, <2>2
<1>2. QED
  BY <1>1

-----------------------------------------------------------------------------
(* The folds of the library exist: F adds the element at an index.         *)

LEMMA MaxIs ==
    ASSUME NEW n \in Nat, NEW u \in SUBSET (1..n), u # {}
    PROVE  Max(u) \in u /\ \A y \in u : y <= Max(u)
<1>1. u \subseteq Int /\ n \in Int /\ \A y \in u : y <= n
  OBVIOUS
<1>2. \E x \in u : \A y \in u : y <= x
  BY <1>1, GreatestElement
<1>3. PICK x \in u : \A y \in u : y <= x
  BY <1>2
<1>4. \A y \in u : x >= y
  BY <1>1, <1>3
<1>5. \E z \in u : \A y \in u : z >= y
  BY <1>4
<1>6. Max(u) \in u /\ \A y \in u : Max(u) >= y
  BY <1>5 DEF Max
<1>7. QED
  BY <1>1, <1>6

LEMMA MaxOfInterval ==
    ASSUME NEW n \in Nat, NEW u \in SUBSET (1..(n + 1)), n + 1 \in u
    PROVE  Max(u) = n + 1 /\ u \ {Max(u)} \in SUBSET (1..n)
<1>1. Max(u) \in u /\ n + 1 <= Max(u)
  BY MaxIs
<1>2. Max(u) = n + 1
  <2>1. Max(u) \in 1..(n + 1)
    BY <1>1
  <2>2. QED
    BY <1>1, <2>1
<1>3. ASSUME NEW x \in u, x # n + 1 PROVE x \in 1..n
  <2>1. x \in 1..(n + 1)
    OBVIOUS
  <2>2. QED
    BY <1>3, <2>1
<1>4. QED
  BY <1>2, <1>3

Iterates(h, F, base, n) ==
    \A u \in SUBSET (1..n) :
        h[u] = IF u = {} THEN base ELSE F[h[u \ {Max(u)}], Max(u)]

FoldTo(A, F, base, n) == \E h \in [SUBSET (1..n) -> A] : Iterates(h, F, base, n)

LEMMA FoldExists ==
    ASSUME NEW A, NEW base \in A, NEW n \in Nat, NEW F \in [A \X (1..n) -> A]
    PROVE  \E h \in [SUBSET (1..n) -> A] : Iterates(h, F, base, n)
<1> DEFINE T == {k \in Nat : k <= n => FoldTo(A, F, base, k)}
<1>1. 0 \in T
  <2>1. SUBSET (1..0) = {{}}
    OBVIOUS
  <2> DEFINE h == [u \in {{}} |-> base]
  <2>2. h \in [SUBSET (1..0) -> A] /\ h[{}] = base
    BY <2>1
  <2>3. Iterates(h, F, base, 0)
    BY <2>1, <2>2 DEF Iterates
  <2>4. FoldTo(A, F, base, 0)
    BY <2>2, <2>3 DEF FoldTo
  <2>5. QED
    BY <2>4
<1>2. ASSUME NEW k \in Nat, k \in T PROVE k + 1 \in T
  <2> SUFFICES ASSUME k + 1 <= n
               PROVE  FoldTo(A, F, base, k + 1)
    OBVIOUS
  <2>1. k <= n /\ FoldTo(A, F, base, k)
    BY <1>2
  <2>2. PICK g \in [SUBSET (1..k) -> A] : Iterates(g, F, base, k)
    BY <2>1 DEF FoldTo
  <2> DEFINE h == [u \in SUBSET (1..(k + 1)) |->
                     IF u \in SUBSET (1..k) THEN g[u] ELSE F[g[u \ {k + 1}], k + 1]]
  <2>3. ASSUME NEW u \in SUBSET (1..(k + 1)), u \notin SUBSET (1..k)
        PROVE  /\ k + 1 \in u /\ Max(u) = k + 1 /\ u \ {k + 1} \in SUBSET (1..k) /\ u # {}
               /\ h[u] = F[g[u \ {k + 1}], k + 1] /\ h[u] \in A
    <3>1. k + 1 \in u
      BY <2>3
    <3>2. Max(u) = k + 1 /\ u \ {k + 1} \in SUBSET (1..k)
      BY <3>1, MaxOfInterval
    <3>3. g[u \ {k + 1}] \in A /\ k + 1 \in 1..n
      BY <3>2
    <3>4. h[u] = F[g[u \ {k + 1}], k + 1]
      BY <2>3
    <3>5. <<g[u \ {k + 1}], k + 1>> \in A \X (1..n)
      BY <3>3
    <3>6. F[g[u \ {k + 1}], k + 1] \in A
      BY <3>5
    <3>7. QED
      BY <3>1, <3>2, <3>4, <3>6
  <2>4. ASSUME NEW u \in SUBSET (1..k)
        PROVE  u \in SUBSET (1..(k + 1)) /\ h[u] = g[u] /\ h[u] \in A
    <3>1. 1..k \subseteq 1..(k + 1)
      OBVIOUS
    <3>2. u \in SUBSET (1..(k + 1))
      BY <3>1
    <3>3. QED
      BY <3>2
  <2>5. h \in [SUBSET (1..(k + 1)) -> A]
    BY <2>3, <2>4
  <2>6. ASSUME NEW u \in SUBSET (1..(k + 1))
        PROVE  h[u] = IF u = {} THEN base ELSE F[h[u \ {Max(u)}], Max(u)]
    <3> HIDE DEF h
    <3>1. CASE u \in SUBSET (1..k)
      <4>1. u \ {Max(u)} \in SUBSET (1..k)
        BY <3>1
      <4>2. h[u] = g[u] /\ h[u \ {Max(u)}] = g[u \ {Max(u)}]
        BY <2>4, <3>1, <4>1
      <4>3. QED
        BY <2>2, <3>1, <4>2 DEF Iterates
    <3>2. CASE u \notin SUBSET (1..k)
      BY <2>3, <2>4, <3>2
    <3>3. QED
      BY <3>1, <3>2
  <2> HIDE DEF h
  <2>7. Iterates(h, F, base, k + 1)
    BY <2>6 DEF Iterates
  <2>8. QED
    BY <2>5, <2>7 DEF FoldTo
<1> HIDE DEF T
<1>3. n \in T
  BY <1>1, <1>2, Induction
<1>4. FoldTo(A, F, base, n)
  BY <1>3 DEF T
<1>5. QED
  BY <1>4 DEF FoldTo

-----------------------------------------------------------------------------
(* strSize is a sum.                                                       *)

(* What may be sent.                                                       *)
Item == {CR, LF, INITIAL, CLEARSCREEN, RESTOREPOS, CLEARDOWN}
    \cup {MOVEPOS(p[1], p[2]) : p \in Nat \X Nat} \cup {CLEAR(m) : m \in Modes} \cup {<<ch>> : ch \in STRING}

LEMMA BytesAreNat == ASSUME NEW x PROVE Bytes(x) \in Nat
<1>1. Digits(x[2]) \in Nat /\ Digits(x[3]) \in Nat
  BY DEF Digits
<1>2. 11 + Digits(x[2]) + Digits(x[3]) \in Nat
  BY <1>1
<1>3. QED
  BY <1>2 DEF Bytes

Sizes(it, s) ==
    it = [u \in SUBSET DOMAIN s |->
            IF u = {} THEN 0 ELSE LET x == Max(u) IN it[u \ {x}] + Bytes(s[x])]

LEMMA SizeIsFold ==
    ASSUME NEW s
    PROVE  strSize(s) = (CHOOSE it : Sizes(it, s))[DOMAIN s]
BY DEF strSize, Sizes, FoldLeft, MapThenFoldSet

(* The size of each prefix of s.                                           *)
SizeRun(r, s) ==
    /\ r \in [0..Len(s) -> Nat] /\ r[0] = 0
    /\ \A k \in 1..Len(s) : r[k] = r[k - 1] + Bytes(s[k])

LEMMA SizeHasRun ==
    ASSUME NEW S, NEW s \in Seq(S)
    PROVE  \E r : SizeRun(r, s) /\ r[Len(s)] = strSize(s)
<1> DEFINE n == Len(s)
           F == [p \in Nat \X (1..n) |-> p[1] + Bytes(s[p[2]])]
<1>1. n \in Nat /\ DOMAIN s = 1..n
  OBVIOUS
<1>2. F \in [Nat \X (1..n) -> Nat]
  BY BytesAreNat
<1>3. PICK h \in [SUBSET (1..n) -> Nat] : Iterates(h, F, 0, n)
  <2> HIDE DEF F, n
  <2>1. 0 \in Nat
    OBVIOUS
  <2>2. QED
    BY <1>1, <1>2, <2>1, FoldExists
<1>4. Sizes(h, s)
  <2>1. ASSUME NEW u \in SUBSET (1..n)
        PROVE  h[u] = IF u = {} THEN 0 ELSE h[u \ {Max(u)}] + Bytes(s[Max(u)])
    <3>1. CASE u = {}
      BY <1>3, <3>1 DEF Iterates
    <3>2. CASE u # {}
      <4>1. Max(u) \in 1..n
        BY <1>1, <3>2, MaxIs
      <4>2. h[u \ {Max(u)}] \in Nat
        OBVIOUS
      <4>3. h[u] = F[h[u \ {Max(u)}], Max(u)]
        BY <1>3, <3>2 DEF Iterates
      <4>4. QED
        BY <3>2, <4>1, <4>2, <4>3
    <3>3. QED
      BY <3>1, <3>2
  <2>2. h = [u \in SUBSET (1..n) |->
               IF u = {} THEN 0 ELSE h[u \ {Max(u)}] + Bytes(s[Max(u)])]
    <3> HIDE DEF F, n
    <3>1. QED
      BY <2>1
  <2>3. QED
    BY <1>1, <2>2 DEF Sizes
<1> DEFINE g == CHOOSE it : Sizes(it, s)
<1>5. Sizes(g, s)
  <2>1. \E it : Sizes(it, s)
    BY <1>4
  <2>2. QED
    BY <2>1
<1> HIDE DEF g, n, F
<1>6. \A u \in SUBSET (1..n) :
         g[u] = IF u = {} THEN 0 ELSE g[u \ {Max(u)}] + Bytes(s[Max(u)])
  BY <1>1, <1>5 DEF Sizes
<1> DEFINE r == [k \in 0..n |-> g[1..k]]
<1>7. g[1..0] = 0
  <2>1. 1..0 = {} /\ {} \in SUBSET (1..n)
    OBVIOUS
  <2>2. QED
    BY <1>6, <2>1
<1>8. ASSUME NEW k \in 1..n PROVE g[1..k] = g[1..(k - 1)] + Bytes(s[k])
  <2>1. k - 1 \in Nat /\ (k - 1) + 1 = k /\ 1..k \in SUBSET (1..n) /\ k \in 1..k
    BY <1>1
  <2>2. Max(1..k) = k
    <3>1. 1..k \in SUBSET (1..((k - 1) + 1))
      BY <2>1
    <3>2. QED
      BY <2>1, <3>1, MaxOfInterval
  <2>3. (1..k) \ {k} = 1..(k - 1) /\ 1..k # {}
    BY <2>1
  <2>4. QED
    BY <1>6, <2>1, <2>2, <2>3
<1>9. ASSUME NEW k \in Nat, k <= n PROVE g[1..k] \in Nat
  <2> DEFINE T == {j \in Nat : j <= n => g[1..j] \in Nat}
  <2>1. 0 \in T
    BY <1>7
  <2>2. ASSUME NEW j \in Nat, j \in T PROVE j + 1 \in T
    <3>1. CASE j + 1 <= n
      <4>1. j + 1 \in 1..n /\ (j + 1) - 1 = j /\ j <= n
        BY <1>1, <3>1
      <4>2. QED
        BY <1>8, <2>2, <4>1, BytesAreNat
    <3>2. QED
      BY <1>1, <3>1
  <2> HIDE DEF T
  <2>3. k \in T
    BY <2>1, <2>2, Induction
  <2>4. QED
    BY <1>9, <2>3 DEF T
<1>10. SizeRun(r, s)
  <2>1. n = Len(s)
    BY DEF n
  <2>2. r \in [0..n -> Nat]
    BY <1>1, <1>9
  <2>3. r[0] = 0
    BY <1>1, <1>7
  <2>4. ASSUME NEW k \in 1..n PROVE r[k] = r[k - 1] + Bytes(s[k])
    BY <1>1, <1>8
  <2> HIDE DEF r
  <2>5. QED
    BY <2>1, <2>2, <2>3, <2>4 DEF SizeRun
<1>11. r[Len(s)] = strSize(s)
  <2>1. strSize(s) = g[1..n]
    BY <1>1, SizeIsFold DEF g
  <2>2. QED
    BY <1>1, <2>1 DEF n
<1>12. QED
  BY <1>10, <1>11

LEMMA SizeRunsAgree ==
    ASSUME NEW S, NEW s \in Seq(S), NEW t \in Seq(S), NEW r, NEW q,
           SizeRun(r, s), SizeRun(q, t), NEW n \in Nat, n <= Len(s), n <= Len(t),
           \A k \in 1..n : s[k] = t[k]
    PROVE  r[n] = q[n]
<1> DEFINE T == {k \in Nat : k <= n => r[k] = q[k]}
<1>1. 0 \in T
  BY DEF SizeRun
<1>2. ASSUME NEW k \in Nat, k \in T PROVE k + 1 \in T
  <2>1. CASE k + 1 <= n
    <3>1. k + 1 \in 1..n /\ k + 1 \in 1..Len(s) /\ k + 1 \in 1..Len(t) /\ (k + 1) - 1 = k /\ k <= n
      BY <2>1
    <3>2. r[k + 1] = r[k] + Bytes(s[k + 1]) /\ q[k + 1] = q[k] + Bytes(t[k + 1])
      BY <3>1 DEF SizeRun
    <3>3. QED
      BY <1>2, <3>1, <3>2
  <2>2. QED
    BY <2>1
<1> HIDE DEF T
<1>3. n \in T
  BY <1>1, <1>2, Induction
<1>4. QED
  BY <1>3 DEF T

LEMMA SizeIsNat ==
    ASSUME NEW S, NEW s \in Seq(S)
    PROVE  strSize(s) \in Nat
<1>1. PICK r : SizeRun(r, s) /\ r[Len(s)] = strSize(s)
  BY SizeHasRun
<1>2. Len(s) \in 0..Len(s)
  OBVIOUS
<1>3. QED
  BY <1>1, <1>2 DEF SizeRun

LEMMA SizeOfEmpty == strSize(<<>>) = 0
<1>1. <<>> \in Seq({}) /\ Len(<<>>) = 0
  OBVIOUS
<1>2. PICK r : SizeRun(r, <<>>) /\ r[Len(<<>>)] = strSize(<<>>)
  BY <1>1, SizeHasRun
<1>3. QED
  BY <1>1, <1>2 DEF SizeRun

LEMMA SizeOfAppend ==
    ASSUME NEW S, NEW s \in Seq(S), NEW x \in S
    PROVE  strSize(Append(s, x)) = strSize(s) + Bytes(x)
<1> DEFINE t == Append(s, x)
           n == Len(s)
<1>1. /\ n \in Nat /\ t \in Seq(S) /\ Len(t) = n + 1 /\ t[n + 1] = x
      /\ \A k \in 1..n : t[k] = s[k]
  OBVIOUS
<1> HIDE DEF t
<1>2. PICK r : SizeRun(r, s) /\ r[Len(s)] = strSize(s)
  BY SizeHasRun
<1>3. PICK q : SizeRun(q, t) /\ q[Len(t)] = strSize(t)
  BY <1>1, SizeHasRun
<1>4. r[n] = q[n]
  <2> HIDE DEF n
  <2>1. n <= Len(s) /\ n <= Len(t)
    BY <1>1 DEF n
  <2>2. \A k \in 1..n : s[k] = t[k]
    BY <1>1
  <2>3. QED
    BY <1>1, <1>2, <1>3, <2>1, <2>2, SizeRunsAgree
<1>5. q[n + 1] = q[n] + Bytes(x)
  <2>1. n + 1 \in 1..Len(t) /\ (n + 1) - 1 = n
    BY <1>1
  <2>2. QED
    BY <1>1, <1>3, <2>1 DEF SizeRun
<1>6. QED
  BY <1>1, <1>2, <1>3, <1>4, <1>5 DEF t

LEMMA SizeOfConcat ==
    ASSUME NEW S, NEW s \in Seq(S), NEW t \in Seq(S)
    PROVE  strSize(s \o t) = strSize(s) + strSize(t)
<1> DEFINE n == Len(t)
           T == {k \in Nat : k <= n =>
                   strSize(s \o SubSeq(t, 1, k)) = strSize(s) + strSize(SubSeq(t, 1, k))}
<1>1. n \in Nat /\ Len(s) \in Nat
  OBVIOUS
<1>2. 0 \in T
  <2>1. SubSeq(t, 1, 0) = <<>> /\ s \o <<>> = s
    OBVIOUS
  <2>2. strSize(s) \in Nat
    BY SizeIsNat
  <2>3. strSize(s) = strSize(s) + 0
    BY <2>2
  <2>4. strSize(s \o SubSeq(t, 1, 0)) = strSize(s) + strSize(SubSeq(t, 1, 0))
    BY <2>1, <2>3, SizeOfEmpty
  <2>5. QED
    BY <2>4
<1>3. ASSUME NEW k \in Nat, k \in T PROVE k + 1 \in T
  <2> SUFFICES ASSUME k + 1 <= n
               PROVE  strSize(s \o SubSeq(t, 1, k + 1)) = strSize(s) + strSize(SubSeq(t, 1, k + 1))
    OBVIOUS
  <2>1. k <= n /\ k + 1 \in 1..n /\ t[k + 1] \in S
    BY <1>1
  <2>2. SubSeq(t, 1, k) \in Seq(S) /\ SubSeq(t, 1, k + 1) = Append(SubSeq(t, 1, k), t[k + 1])
    BY <2>1
  <2> DEFINE u == SubSeq(t, 1, k)
             x == t[k + 1]
  <2> HIDE DEF u, x
  <2>3. u \in Seq(S) /\ x \in S
    BY <2>1, <2>2 DEF u, x
  <2>4. s \o Append(u, x) = Append(s \o u, x) /\ s \o u \in Seq(S)
    BY <2>3
  <2>5. /\ strSize(Append(s \o u, x)) = strSize(s \o u) + Bytes(x)
        /\ strSize(Append(u, x)) = strSize(u) + Bytes(x)
    BY <2>3, <2>4, SizeOfAppend
  <2>6. SubSeq(t, 1, k + 1) = Append(u, x)
    BY <2>2 DEF u, x
  <2>7. strSize(s \o u) = strSize(s) + strSize(u)
    BY <1>3, <2>1 DEF u
  <2>8. strSize(s) \in Nat /\ strSize(u) \in Nat /\ Bytes(x) \in Nat
    BY <2>3, SizeIsNat, BytesAreNat
  <2>9. strSize(s \o Append(u, x)) = (strSize(s) + strSize(u)) + Bytes(x)
    BY <2>4, <2>5, <2>7
  <2>10. strSize(s \o Append(u, x)) = strSize(s) + strSize(Append(u, x))
    BY <2>5, <2>8, <2>9
  <2>11. QED
    BY <2>6, <2>10
<1>4. s \o SubSeq(t, 1, n) = s \o t /\ SubSeq(t, 1, n) = t
  OBVIOUS
<1> HIDE DEF T
<1>5. n \in T
  BY <1>1, <1>2, <1>3, Induction
<1> HIDE DEF n
<1>6. strSize(s \o SubSeq(t, 1, n)) = strSize(s) + strSize(SubSeq(t, 1, n))
  BY <1>1, <1>5 DEF T
<1>7. QED
  BY <1>4, <1>6

LEMMA SizeOfOne ==
    ASSUME NEW x
    PROVE  strSize(<<x>>) = Bytes(x)
<1>1. <<>> \in Seq({x}) /\ <<x>> = Append(<<>>, x) /\ x \in {x}
  OBVIOUS
<1>2. strSize(Append(<<>>, x)) = strSize(<<>>) + Bytes(x)
  BY <1>1, SizeOfAppend
<1>3. QED
  BY <1>1, <1>2, SizeOfEmpty, BytesAreNat

(* A text of one byte per character is as long as it has characters.       *)
LEMMA SizeOfText ==
    ASSUME NEW S, NEW s \in Seq(S), \A k \in DOMAIN s : Bytes(s[k]) = 1
    PROVE  strSize(s) = Len(s)
<1> DEFINE n == Len(s)
           T == {k \in Nat : k <= n => strSize(SubSeq(s, 1, k)) = k}
<1>1. n \in Nat
  OBVIOUS
<1>2. 0 \in T
  <2>1. SubSeq(s, 1, 0) = <<>>
    OBVIOUS
  <2>2. QED
    BY <2>1, SizeOfEmpty
<1>3. ASSUME NEW k \in Nat, k \in T PROVE k + 1 \in T
  <2> SUFFICES ASSUME k + 1 <= n
               PROVE  strSize(SubSeq(s, 1, k + 1)) = k + 1
    OBVIOUS
  <2>1. k <= n /\ k + 1 \in DOMAIN s /\ s[k + 1] \in S
    BY <1>1
  <2>2. SubSeq(s, 1, k) \in Seq(S) /\ SubSeq(s, 1, k + 1) = Append(SubSeq(s, 1, k), s[k + 1])
    BY <2>1
  <2> HIDE DEF n
  <2>3. strSize(Append(SubSeq(s, 1, k), s[k + 1])) = strSize(SubSeq(s, 1, k)) + Bytes(s[k + 1])
    BY <2>1, <2>2, SizeOfAppend
  <2>4. strSize(SubSeq(s, 1, k)) = k
    BY <1>3, <2>1
  <2>5. QED
    BY <2>1, <2>2, <2>3, <2>4
<1>4. SubSeq(s, 1, n) = s
  OBVIOUS
<1> HIDE DEF T
<1>5. n \in T
  BY <1>1, <1>2, <1>3, Induction
<1>6. strSize(SubSeq(s, 1, n)) = n
  <2> HIDE DEF n
  <2>1. QED
    BY <1>1, <1>5 DEF T
<1> HIDE DEF n
<1>7. strSize(s) = n
  BY <1>4, <1>6
<1>8. QED
  BY <1>7 DEF n

-----------------------------------------------------------------------------
(* What the plain driver makes of a text: a return before each newline.    *)

Returned(s) == FoldLeft(AddReturn, <<>>, s)

Returns(it, s) ==
    it = [u \in SUBSET DOMAIN s |->
            IF u = {} THEN <<>> ELSE LET x == Max(u) IN AddReturn(it[u \ {x}], s[x])]

LEMMA ReturnedIsFold ==
    ASSUME NEW s
    PROVE  Returned(s) = (CHOOSE it : Returns(it, s))[DOMAIN s]
BY DEF Returned, Returns, FoldLeft, MapThenFoldSet

LEMMA AddReturnIsSeq ==
    ASSUME NEW S, NEW s \in Seq(S), NEW x \in S, CR \in S, LF \in S
    PROVE  AddReturn(s, x) \in Seq(S)
<1>1. CASE x = LF
  <2>1. <<CR, LF>> \in Seq(S)
    OBVIOUS
  <2>2. s \o <<CR, LF>> \in Seq(S)
    BY <2>1, ConcatProperties
  <2>3. QED
    BY <1>1, <2>2 DEF AddReturn
<1>2. CASE x # LF
  BY <1>2 DEF AddReturn
<1>3. QED
  BY <1>1, <1>2

(* What each prefix of s is made of.                                       *)
ReturnRun(r, s, S) ==
    /\ r \in [0..Len(s) -> Seq(S)] /\ r[0] = <<>>
    /\ \A k \in 1..Len(s) : r[k] = AddReturn(r[k - 1], s[k])

LEMMA ReturnedHasRun ==
    ASSUME NEW S, NEW s \in Seq(S), CR \in S, LF \in S
    PROVE  \E r : ReturnRun(r, s, S) /\ r[Len(s)] = Returned(s)
<1> DEFINE n == Len(s)
           F == [p \in Seq(S) \X (1..n) |-> AddReturn(p[1], s[p[2]])]
<1>1. n \in Nat /\ DOMAIN s = 1..n /\ <<>> \in Seq(S) /\ \A k \in 1..n : s[k] \in S
  OBVIOUS
<1>2. F \in [Seq(S) \X (1..n) -> Seq(S)]
  <2>1. ASSUME NEW p \in Seq(S) \X (1..n) PROVE AddReturn(p[1], s[p[2]]) \in Seq(S)
    BY <1>1, AddReturnIsSeq
  <2>2. QED
    BY <2>1
<1>3. PICK h \in [SUBSET (1..n) -> Seq(S)] : Iterates(h, F, <<>>, n)
  <2> HIDE DEF F, n
  <2>1. QED
    BY <1>1, <1>2, FoldExists
<1>4. Returns(h, s)
  <2>1. ASSUME NEW u \in SUBSET (1..n)
        PROVE  h[u] = IF u = {} THEN <<>> ELSE AddReturn(h[u \ {Max(u)}], s[Max(u)])
    <3>1. CASE u = {}
      BY <1>3, <3>1 DEF Iterates
    <3>2. CASE u # {}
      <4>1. Max(u) \in 1..n
        BY <1>1, <3>2, MaxIs
      <4>2. h[u \ {Max(u)}] \in Seq(S)
        OBVIOUS
      <4>3. h[u] = F[h[u \ {Max(u)}], Max(u)]
        BY <1>3, <3>2 DEF Iterates
      <4>4. ASSUME NEW a \in Seq(S), NEW k \in 1..n PROVE F[a, k] = AddReturn(a, s[k])
        OBVIOUS
      <4> DEFINE a == h[u \ {Max(u)}]
                 k == Max(u)
      <4>5. a \in Seq(S) /\ k \in 1..n
        BY <4>1, <4>2
      <4> HIDE DEF F, a, k
      <4>6. F[a, k] = AddReturn(a, s[k])
        BY <4>4, <4>5
      <4>7. QED
        BY <3>2, <4>3, <4>6 DEF a, k
    <3>3. QED
      BY <3>1, <3>2
  <2>2. h = [u \in SUBSET (1..n) |->
               IF u = {} THEN <<>> ELSE AddReturn(h[u \ {Max(u)}], s[Max(u)])]
    <3> HIDE DEF F, n
    <3>1. QED
      BY <2>1
  <2>3. QED
    BY <1>1, <2>2 DEF Returns
<1> DEFINE g == CHOOSE it : Returns(it, s)
<1>5. Returns(g, s)
  <2>1. \E it : Returns(it, s)
    BY <1>4
  <2>2. QED
    BY <2>1
<1> HIDE DEF g, n, F
<1>6. \A u \in SUBSET (1..n) :
         g[u] = IF u = {} THEN <<>> ELSE AddReturn(g[u \ {Max(u)}], s[Max(u)])
  BY <1>1, <1>5 DEF Returns
<1> DEFINE r == [k \in 0..n |-> g[1..k]]
<1>7. g[1..0] = <<>>
  <2>1. 1..0 = {} /\ {} \in SUBSET (1..n)
    OBVIOUS
  <2>2. QED
    BY <1>6, <2>1
<1>8. ASSUME NEW k \in 1..n PROVE g[1..k] = AddReturn(g[1..(k - 1)], s[k])
  <2>1. k - 1 \in Nat /\ (k - 1) + 1 = k /\ 1..k \in SUBSET (1..n) /\ k \in 1..k
    BY <1>1
  <2>2. Max(1..k) = k
    <3>1. 1..k \in SUBSET (1..((k - 1) + 1))
      BY <2>1
    <3>2. QED
      BY <2>1, <3>1, MaxOfInterval
  <2>3. (1..k) \ {k} = 1..(k - 1) /\ 1..k # {}
    BY <2>1
  <2>4. QED
    BY <1>6, <2>1, <2>2, <2>3
<1>9. ASSUME NEW k \in Nat, k <= n PROVE g[1..k] \in Seq(S)
  <2> DEFINE T == {j \in Nat : j <= n => g[1..j] \in Seq(S)}
  <2>1. 0 \in T
    BY <1>1, <1>7
  <2>2. ASSUME NEW j \in Nat, j \in T PROVE j + 1 \in T
    <3>1. CASE j + 1 <= n
      <4>1. j + 1 \in 1..n /\ (j + 1) - 1 = j /\ j <= n
        BY <1>1, <3>1
      <4>2. AddReturn(g[1..j], s[j + 1]) \in Seq(S)
        BY <1>1, <2>2, <4>1, AddReturnIsSeq
      <4>3. QED
        BY <1>8, <4>1, <4>2
    <3>2. QED
      BY <1>1, <3>1
  <2> HIDE DEF T
  <2>3. k \in T
    BY <2>1, <2>2, Induction
  <2>4. QED
    BY <1>9, <2>3 DEF T
<1>10. ReturnRun(r, s, S)
  <2>1. n = Len(s)
    BY DEF n
  <2>2. r \in [0..n -> Seq(S)]
    BY <1>1, <1>9
  <2>3. r[0] = <<>>
    BY <1>1, <1>7
  <2>4. ASSUME NEW k \in 1..n PROVE r[k] = AddReturn(r[k - 1], s[k])
    BY <1>1, <1>8
  <2> HIDE DEF r
  <2>5. QED
    BY <2>1, <2>2, <2>3, <2>4 DEF ReturnRun
<1>11. r[Len(s)] = Returned(s)
  <2>1. Returned(s) = g[1..n]
    BY <1>1, ReturnedIsFold DEF g
  <2>2. QED
    BY <1>1, <2>1 DEF n
<1>12. QED
  BY <1>10, <1>11

LEMMA ReturnRunsAgree ==
    ASSUME NEW S, NEW s \in Seq(S), NEW t \in Seq(S), NEW r, NEW q,
           ReturnRun(r, s, S), ReturnRun(q, t, S), NEW n \in Nat, n <= Len(s), n <= Len(t),
           \A k \in 1..n : s[k] = t[k]
    PROVE  r[n] = q[n]
<1> DEFINE T == {k \in Nat : k <= n => r[k] = q[k]}
<1>1. 0 \in T
  BY DEF ReturnRun
<1>2. ASSUME NEW k \in Nat, k \in T PROVE k + 1 \in T
  <2>1. CASE k + 1 <= n
    <3>1. k + 1 \in 1..n /\ k + 1 \in 1..Len(s) /\ k + 1 \in 1..Len(t) /\ (k + 1) - 1 = k /\ k <= n
      BY <2>1
    <3>2. r[k + 1] = AddReturn(r[k], s[k + 1]) /\ q[k + 1] = AddReturn(q[k], t[k + 1])
      BY <3>1 DEF ReturnRun
    <3>3. QED
      BY <1>2, <3>1, <3>2
  <2>2. QED
    BY <2>1
<1> HIDE DEF T
<1>3. n \in T
  BY <1>1, <1>2, Induction
<1>4. QED
  BY <1>3 DEF T

LEMMA ReturnedOfEmpty == Returned(<<>>) = <<>>
<1> DEFINE S == {CR, LF}
<1>1. <<>> \in Seq(S) /\ Len(<<>>) = 0 /\ CR \in S /\ LF \in S
  OBVIOUS
<1> HIDE DEF S
<1>2. PICK r : ReturnRun(r, <<>>, S) /\ r[Len(<<>>)] = Returned(<<>>)
  BY <1>1, ReturnedHasRun
<1>3. QED
  BY <1>1, <1>2 DEF ReturnRun

LEMMA ReturnedIsSeq ==
    ASSUME NEW S, NEW s \in Seq(S), CR \in S, LF \in S
    PROVE  Returned(s) \in Seq(S)
<1>1. PICK r : ReturnRun(r, s, S) /\ r[Len(s)] = Returned(s)
  BY ReturnedHasRun
<1>2. Len(s) \in 0..Len(s)
  OBVIOUS
<1>3. QED
  BY <1>1, <1>2 DEF ReturnRun

(* One more character adds itself, after a return if it is a newline.      *)
LEMMA ReturnedOfPrefix ==
    ASSUME NEW S, NEW s \in Seq(S), CR \in S, LF \in S, NEW n \in 1..Len(s)
    PROVE  /\ Returned(SubSeq(s, 1, n)) = AddReturn(Returned(SubSeq(s, 1, n - 1)), s[n])
           /\ Returned(SubSeq(s, 1, n - 1)) \in Seq(S)
<1> DEFINE a == SubSeq(s, 1, n - 1)
           b == SubSeq(s, 1, n)
<1>1. /\ n \in Nat /\ n - 1 \in Nat
      /\ a \in Seq(S) /\ Len(a) = n - 1 /\ b \in Seq(S) /\ Len(b) = n /\ b[n] = s[n]
      /\ \A k \in 1..(n - 1) : a[k] = b[k]
  OBVIOUS
<1> HIDE DEF a, b
<1>2. PICK r : ReturnRun(r, a, S) /\ r[Len(a)] = Returned(a)
  BY <1>1, ReturnedHasRun
<1>3. PICK q : ReturnRun(q, b, S) /\ q[Len(b)] = Returned(b)
  BY <1>1, ReturnedHasRun
<1>4. r[n - 1] = q[n - 1]
  <2>1. n - 1 <= Len(a) /\ n - 1 <= Len(b)
    BY <1>1
  <2>2. QED
    BY <1>1, <1>2, <1>3, <2>1, ReturnRunsAgree
<1>5. q[n] = AddReturn(q[n - 1], s[n])
  <2>1. n \in 1..Len(b)
    BY <1>1
  <2>2. QED
    BY <1>1, <1>3, <2>1 DEF ReturnRun
<1>6. Returned(a) \in Seq(S)
  BY <1>1, ReturnedIsSeq
<1>7. QED
  BY <1>1, <1>2, <1>3, <1>4, <1>5, <1>6 DEF a, b

-----------------------------------------------------------------------------
(* The invariant.                                                          *)

Places == {"idle", "return", "open", "create", "uart", "close", "pend", "format", "lines",
           "flush", "write", "char", "newline", "post"}
PrintPlaces == {"format", "lines", "flush", "write", "char", "newline", "post"}

Types ==
    /\ pc \in [Threads -> Places] /\ call \in [Threads -> Calls \cup {NoCall}]
    /\ hDisplay \in [Threads -> Displays \cup {NULL}]
    /\ i \in [Threads -> Nat] /\ curLine \in [Threads -> Nat]
    /\ handle \in Displays \cup {NULL}
    /\ mutex \in [Displays -> {0, 1, NULL}] /\ hUart \in [Displays -> BOOLEAN]
    /\ lineClearSeq \in [Displays -> Modes]
    /\ strBuf \in [Displays -> Seq(Item)] /\ out \in [Displays -> Seq(Item)]

Prints(t) == pc[t] \in PrintPlaces
Opens(t) == call[t].op \in {"open", "close"}

(* Which call is where, and on which display.                              *)
Places1(t) ==
    /\ pc[t] = "idle" <=> call[t] = NoCall
    /\ pc[t] = "idle" => hDisplay[t] = NULL
    /\ pc[t] \in {"open", "create", "uart"} => call[t].op = "open" /\ hDisplay[t] = NULL
    /\ pc[t] \in {"create", "uart"} => i[t] \in Displays
    /\ pc[t] = "close" => call[t].op = "close"
    /\ pc[t] \in {"close", "pend"} \cup PrintPlaces => hDisplay[t] # NULL

Places2(t) ==
    /\ pc[t] \in {"pend"} \cup PrintPlaces =>
          \/ call[t].op \in {"clear", "clearLines", "printf"}
          \/ call[t].op = "open" /\ pc[t] = "write"
    /\ pc[t] \in {"pend"} \cup PrintPlaces /\ call[t].op # "printf" =>
          Config[hDisplay[t]].driver = "ansi"
    /\ pc[t] \in {"lines", "flush"} => call[t].op = "clearLines"
    /\ pc[t] \in {"char", "newline"} =>
          call[t].op = "printf" /\ Config[hDisplay[t]].driver = "min"
    /\ pc[t] = "write" => Config[hDisplay[t]].driver = "ansi"

(* A text for a terminal fits, as it did when the call was made.           *)
Fits(t) ==
    LET d == hDisplay[t] IN
    d # NULL /\ call[t].op = "printf" =>
        \/ Config[d].driver = "min"
        \/ Len(call[t].text) <= bufLen(d) - strSize(Before(d, call[t])) - 3

(* Who opens or closes is alone, and the others have the handle.           *)
Handles ==
    \A t \in Threads :
        /\ hDisplay[t] # NULL /\ ~Opens(t) => hDisplay[t] = handle
        /\ Opens(t) => /\ handle = NULL
                       /\ \A u \in Threads \ {t} : hDisplay[u] = NULL /\ ~Opens(u)

(* One thread prints, and it has the mutex; when none does, nothing was    *)
(* sent since the mutex was last taken.                                    *)
Holds ==
    /\ \A t, u \in Threads : Prints(t) /\ Prints(u) => t = u
    /\ \A t \in Threads : Prints(t) /\ call[t].op # "open" => mutex[hDisplay[t]] = 0
    /\ \A d \in Displays : (\A t \in Threads : Prints(t) => hDisplay[t] # d) => out[d] = <<>>

(* The lines cleared up to line l.                                         *)
Cleared(c, l) == <<MOVEPOS(c.from + 1, 0)>> \o [n \in 1..(l - (c.from + 1)) |-> CLEARDOWN]

(* What is sent and what is left to send are what was asked for.           *)
Progress(t) ==
    LET d == hDisplay[t]
        c == call[t]
        Left == SubSeq(Source(t), i[t], Len(Source(t))) IN
    /\ pc[t] = "format" => out[d] = <<>>
    /\ pc[t] \in {"lines", "flush"} => curLine[t] \in (c.from + 1)..(lineTo(c) + 2)
    /\ pc[t] = "lines" => i[t] = 1 /\ out[d] \o strBuf[d] = Cleared(c, curLine[t])
    /\ pc[t] \in {"flush", "write"} => i[t] \in 1..(Len(Source(t)) + 1)
    /\ pc[t] = "flush" => out[d] \o Left = Cleared(c, curLine[t])
    /\ pc[t] = "write" => out[d] \o Left = Rendered(t)
    /\ pc[t] \in {"char", "newline"} => strBuf[d] = Shown(d, c.text) /\ i[t] \in 1..(Len(strBuf[d]) + 1)
    /\ pc[t] = "char" => out[d] = Returned(SubSeq(strBuf[d], 1, i[t] - 1))
    /\ pc[t] = "newline" => /\ i[t] <= Len(strBuf[d]) /\ strBuf[d][i[t]] = LF
                            /\ out[d] = Append(Returned(SubSeq(strBuf[d], 1, i[t] - 1)), CR)
    /\ pc[t] = "post" => out[d] = Rendered(t)

(* When the lines are put together there is room for one more and the end. *)
Room(t) ==
    pc[t] = "lines" =>
        strSize(strBuf[hDisplay[t]]) + Bytes(CLEARDOWN) + Bytes(RESTOREPOS) <= bufLen(hDisplay[t])

Local(t) == Places1(t) /\ Places2(t) /\ Fits(t) /\ Progress(t) /\ Room(t)

Inv == Types /\ BufferHolds /\ Handles /\ Holds /\ \A t \in Threads : Local(t)

-----------------------------------------------------------------------------
(* Sequences: what is sent and what is left.                               *)

LEMMA OneIsSeq ==
    ASSUME NEW x
    PROVE  <<x>> \in Seq({x}) /\ Len(<<x>>) = 1
OBVIOUS

LEMMA WholeIsLeft ==
    ASSUME NEW S, NEW s \in Seq(S)
    PROVE  /\ <<>> \o SubSeq(s, 1, Len(s)) = s
           /\ 1 \in 1..(Len(s) + 1)
<1>1. SubSeq(s, 1, Len(s)) = s /\ Len(s) \in Nat
  OBVIOUS
<1>2. <<>> \o s = s
  OBVIOUS
<1>3. QED
  BY <1>1, <1>2

(* The next item is sent.                                                  *)
LEMMA SendNext ==
    ASSUME NEW S, NEW s \in Seq(S), NEW o \in Seq(S), NEW k \in 1..Len(s)
    PROVE  /\ Append(o, s[k]) \o SubSeq(s, k + 1, Len(s)) = o \o SubSeq(s, k, Len(s))
           /\ k + 1 \in 1..(Len(s) + 1)
           /\ Append(o, s[k]) \in Seq(S)
<1> DEFINE n == Len(s)
           b == SubSeq(s, k + 1, n)
<1>1. /\ n \in Nat /\ n \in k..n /\ s[k] \in S /\ k + 1 \in 1..(n + 1)
      /\ <<s[k]>> \in Seq(S) /\ b \in Seq(S)
  OBVIOUS
<1>2. SubSeq(s, k, n) = <<s[k]>> \o b
  BY <1>1, SubSeqRecursiveFirst
<1>3. Append(o, s[k]) = o \o <<s[k]>>
  BY <1>1, AppendIsConcat
<1> HIDE DEF b, n
<1>4. (o \o <<s[k]>>) \o b = o \o (<<s[k]>> \o b)
  BY <1>1, ConcatAssociative
<1>5. Append(o, s[k]) \in Seq(S)
  BY <1>1, AppendProperties
<1>6. QED
  BY <1>1, <1>2, <1>3, <1>4, <1>5 DEF b, n

(* Nothing is left.                                                        *)
LEMMA NothingLeft ==
    ASSUME NEW S, NEW s \in Seq(S), NEW o \in Seq(S), NEW k \in Nat, k > Len(s)
    PROVE  o \o SubSeq(s, k, Len(s)) = o
<1>1. SubSeq(s, k, Len(s)) = <<>>
  OBVIOUS
<1>2. o \o <<>> = o
  OBVIOUS
<1>3. QED
  BY <1>1, <1>2

-----------------------------------------------------------------------------
(* What the others keep.                                                   *)

LEMMA CallsAre ==
    /\ \A c \in Calls : c # NoCall /\ c.op \in Ops
    /\ NoCall.op = "none"
    /\ \A d \in Displays : d \in Nat /\ d # NULL /\ bufLen(d) \in Nat
<1>1. \A c \in Calls : c # NoCall /\ c.op \in Ops
  BY DisplayAssumption DEF NoCall, Ops
<1>2. ASSUME NEW d \in Displays PROVE d \in Nat
  <2> DEFINE m == Cardinality(Displays) - 1
  <2>1. Displays = 0..m
    BY DisplayAssumption
  <2> HIDE DEF m
  <2>2. d \in 0..m
    BY <2>1
  <2>3. QED
    BY <2>2
<1>3. \A d \in Displays : d # NULL /\ bufLen(d) \in Nat
  BY DisplayAssumption DEF bufLen
<1>4. NoCall.op = "none"
  BY DEF NoCall
<1>5. QED
  BY <1>1, <1>2, <1>3, <1>4

LEMMA LocalFrame ==
    ASSUME NEW u \in Threads, Local(u),
           pc'[u] = pc[u], call'[u] = call[u], hDisplay'[u] = hDisplay[u],
           i'[u] = i[u], curLine'[u] = curLine[u],
           hDisplay[u] # NULL => lineClearSeq'[hDisplay[u]] = lineClearSeq[hDisplay[u]],
           Prints(u) => /\ strBuf'[hDisplay[u]] = strBuf[hDisplay[u]]
                        /\ out'[hDisplay[u]] = out[hDisplay[u]]
    PROVE  Local(u)'
<1>1. Places1(u)'
  BY DEF Local, Places1
<1>2. Places2(u)'
  BY DEF Local, Places2
<1>3. hDisplay[u] # NULL => Before(hDisplay[u], call[u])' = Before(hDisplay[u], call[u])
  BY DEF Before
<1>4. Fits(u)'
  BY <1>3 DEF Local, Fits
<1>5. Room(u)'
  BY DEF Local, Room, Prints, PrintPlaces
<1>6. Progress(u)'
  <2>1. CASE ~Prints(u)
    BY <2>1 DEF Local, Progress, Prints, PrintPlaces
  <2>2. CASE Prints(u)
    <3>1. hDisplay[u] # NULL
      BY <2>2 DEF Local, Places1, Prints
    <3>2. Rendered(u)' = Rendered(u)
      BY <1>3, <3>1 DEF Rendered
    <3>3. Source(u)' = Source(u)
      BY <2>2 DEF Source
    <3>4. QED
      BY <2>2, <3>2, <3>3 DEF Local, Progress
  <2>3. QED
    BY <2>1, <2>2
<1>7. QED
  BY <1>1, <1>2, <1>4, <1>5, <1>6 DEF Local

(* A step of the thread that prints, which goes on printing.               *)
LEMMA PrintStep ==
    ASSUME Inv, NEW t \in Threads, Prints(t), NEW l \in PrintPlaces,
           NEW k \in Nat, NEW n \in Nat, NEW s \in Seq(Item), NEW o \in Seq(Item),
           pc' = [pc EXCEPT ![t] = l], i' = [i EXCEPT ![t] = k],
           curLine' = [curLine EXCEPT ![t] = n],
           strBuf' = [strBuf EXCEPT ![hDisplay[t]] = s],
           out' = [out EXCEPT ![hDisplay[t]] = o],
           UNCHANGED <<call, hDisplay, handle, mutex, hUart, lineClearSeq>>,
           strSize(s) + (IF Config[hDisplay[t]].driver = "min" THEN 1 ELSE 0) <= bufLen(hDisplay[t]),
           Local(t)'
    PROVE  Inv'
<1> DEFINE d == hDisplay[t]
<1>1. d \in Displays
  BY DEF Inv, Types, Local, Places1, Prints, PrintPlaces
<1>2. Types'
  BY <1>1 DEF Inv, Types, PrintPlaces, Places
<1>3. BufferHolds'
  <2>1. ASSUME NEW e \in Displays
        PROVE  strSize(strBuf'[e]) + (IF Config[e].driver = "min" THEN 1 ELSE 0) <= bufLen(e)
    BY DEF Inv, Types, BufferHolds
  <2>2. QED
    BY <2>1 DEF BufferHolds
<1>4. Handles'
  BY DEF Inv, Handles, Opens
<1>5. \A u \in Threads : Prints(u)' = Prints(u)
  BY DEF Inv, Types, Prints, PrintPlaces
<1>6. Holds'
  <2>1. \A u, v \in Threads : Prints(u)' /\ Prints(v)' => u = v
    BY <1>5 DEF Inv, Holds
  <2>2. \A u \in Threads : Prints(u)' /\ call'[u].op # "open" => mutex'[hDisplay'[u]] = 0
    BY <1>5 DEF Inv, Holds
  <2>3. ASSUME NEW e \in Displays, \A u \in Threads : Prints(u)' => hDisplay'[u] # e
        PROVE  out'[e] = <<>>
    <3>1. e # d
      BY <1>5, <2>3
    <3>2. out'[e] = out[e]
      BY <3>1 DEF Inv, Types
    <3>3. QED
      BY <1>5, <2>3, <3>2 DEF Inv, Holds
  <2>4. QED
    BY <2>1, <2>2, <2>3 DEF Holds
<1>7. ASSUME NEW u \in Threads PROVE Local(u)'
  <2>1. CASE u = t
    BY <2>1
  <2>2. CASE u # t
    <3>1. ~Prints(u)
      BY <2>2 DEF Inv, Holds
    <3>2. /\ pc'[u] = pc[u] /\ call'[u] = call[u] /\ hDisplay'[u] = hDisplay[u]
          /\ i'[u] = i[u] /\ curLine'[u] = curLine[u] /\ lineClearSeq' = lineClearSeq
      BY <2>2 DEF Inv, Types
    <3>3. Local(u)
      BY DEF Inv
    <3>4. QED
      BY <3>1, <3>2, <3>3, LocalFrame
  <2>3. QED
    BY <2>1, <2>2
<1>8. QED
  BY <1>2, <1>3, <1>4, <1>6, <1>7 DEF Inv

(* The others keep what is said of them, whatever t does not print.        *)
OthersKeep(t) ==
    \A u \in Threads \ {t} :
        /\ pc'[u] = pc[u] /\ call'[u] = call[u] /\ hDisplay'[u] = hDisplay[u]
        /\ i'[u] = i[u] /\ curLine'[u] = curLine[u]

LEMMA SilentStep ==
    ASSUME Inv, NEW t \in Threads, ~Prints(t), ~Prints(t)', OthersKeep(t),
           UNCHANGED <<strBuf, out>>,
           \A u \in Threads \ {t} : hDisplay[u] # NULL =>
               /\ lineClearSeq'[hDisplay[u]] = lineClearSeq[hDisplay[u]]
               /\ Prints(u) => mutex'[hDisplay[u]] = mutex[hDisplay[u]],
           Types', Handles', Local(t)'
    PROVE  Inv'
<1>1. BufferHolds'
  BY DEF Inv, BufferHolds
<1>2. \A u \in Threads : Prints(u)' = Prints(u)
  BY DEF OthersKeep, Prints
<1>3. \A u \in Threads : Prints(u) => u # t /\ hDisplay[u] # NULL
  BY DEF Inv, Local, Places1, Prints
<1>4. Holds'
  <2>1. \A u, v \in Threads : Prints(u)' /\ Prints(v)' => u = v
    BY <1>2 DEF Inv, Holds
  <2>2. \A u \in Threads : Prints(u)' /\ call'[u].op # "open" => mutex'[hDisplay'[u]] = 0
    BY <1>2, <1>3 DEF Inv, Holds, OthersKeep
  <2>3. ASSUME NEW e \in Displays, \A u \in Threads : Prints(u)' => hDisplay'[u] # e
        PROVE  out'[e] = <<>>
    BY <1>2, <1>3, <2>3 DEF Inv, Holds, OthersKeep
  <2>4. QED
    BY <2>1, <2>2, <2>3 DEF Holds
<1>5. ASSUME NEW u \in Threads PROVE Local(u)'
  <2>1. CASE u = t
    BY <2>1
  <2>2. CASE u # t
    BY <2>2, LocalFrame DEF Inv, OthersKeep
  <2>3. QED
    BY <2>1, <2>2
<1>6. QED
  BY <1>1, <1>4, <1>5 DEF Inv

LEMMA AloneWhenOpening ==
    ASSUME Inv, NEW t \in Threads, Opens(t)
    PROVE  /\ \A u \in Threads \ {t} : hDisplay[u] = NULL /\ ~Opens(u) /\ ~Prints(u)
           /\ handle = NULL
BY DEF Inv, Handles, Local, Places1, Prints

(* In these places nothing is said of the buffers.                         *)
LEMMA NoProgress ==
    ASSUME NEW t \in Threads, ~Prints(t)'
    PROVE  Progress(t)' /\ Room(t)'
BY DEF Progress, Room, Prints, PrintPlaces

LEMMA CallKeeps ==
    ASSUME Inv, NEW t \in Threads, Call(t)
    PROVE  Inv'
<1>1. PICK c \in Calls : /\ Allowed(t, c) /\ call' = [call EXCEPT ![t] = c]
                         /\ pc' = [pc EXCEPT ![t] = Entry(c, handle)]
                         /\ handle' = IF c.op = "close" THEN NULL ELSE handle
  BY DEF Call, Goto
<1>2. /\ pc[t] = "idle" /\ hDisplay' = [hDisplay EXCEPT ![t] = handle]
      /\ UNCHANGED <<i, curLine, mutex, hUart, lineClearSeq, strBuf, out>>
  BY DEF Call, loops, object
<1>3. Entry(c, handle) \in {"open", "return", "close", "pend"}
  BY DEF Entry
<1>4. Types /\ c \in Calls
  BY DEF Inv
<1>5. Types'
  BY <1>1, <1>2, <1>3, <1>4 DEF Types, Places
<1>6. /\ pc'[t] = Entry(c, handle) /\ call'[t] = c /\ hDisplay'[t] = handle
      /\ OthersKeep(t)
  BY <1>1, <1>2, <1>4 DEF Types, OthersKeep
<1>7. ~Prints(t) /\ ~Prints(t)'
  BY <1>2, <1>3, <1>6 DEF Prints, PrintPlaces
<1>8. Local(t)'
  <2>1. c # NoCall /\ c.op \in Ops
    BY CallsAre
  <2>2. Places1(t)'
    BY <1>1, <1>3, <1>6, <2>1 DEF Places1, PrintPlaces, Entry, Allowed
  <2>3. Places2(t)'
    BY <1>3, <1>6, <2>1 DEF Places2, PrintPlaces, Entry, Ops
  <2>4. Fits(t)'
    BY <1>1, <1>2, <1>6 DEF Fits, Allowed, Before, bufLen
  <2>5. QED
    BY <1>7, <2>2, <2>3, <2>4, NoProgress DEF Local
<1>9. Handles'
  <2>1. CASE c.op \in {"open", "close"}
    <3>1. \A u \in Threads \ {t} : pc[u] = "idle"
      BY <1>1, <2>1 DEF Allowed, Alone
    <3>2. \A u \in Threads \ {t} : hDisplay[u] = NULL /\ ~Opens(u)
      BY <3>1, CallsAre DEF Inv, Local, Places1, Opens
    <3>3. handle' = NULL
      BY <1>1, <2>1 DEF Allowed
    <3>4. \A u \in Threads \ {t} : hDisplay'[u] = NULL /\ ~Opens(u)'
      BY <1>6, <3>2 DEF OthersKeep, Opens
    <3>5. Opens(t)'
      BY <1>6, <2>1 DEF Opens
    <3>6. QED
      BY <3>3, <3>4, <3>5 DEF Handles
  <2>2. CASE c.op \notin {"open", "close"}
    <3>1. handle' = handle /\ ~Opens(t)' /\ \A u \in Threads \ {t} : Opens(u)' = Opens(u)
      BY <1>1, <1>6, <2>2 DEF Opens, OthersKeep
    <3>2. QED
      BY <1>6, <3>1 DEF Inv, Handles, OthersKeep
  <2>3. QED
    BY <2>1, <2>2
<1>10. QED
  BY <1>2, <1>5, <1>6, <1>7, <1>8, <1>9, SilentStep

LEMMA ReturnKeeps ==
    ASSUME Inv, NEW t \in Threads, Return(t)
    PROVE  Inv'
<1>1. /\ pc[t] = "return" /\ pc' = [pc EXCEPT ![t] = "idle"]
      /\ handle' = IF call[t].op = "open" THEN hDisplay[t] ELSE handle
      /\ call' = [call EXCEPT ![t] = NoCall] /\ hDisplay' = [hDisplay EXCEPT ![t] = NULL]
      /\ i' = [i EXCEPT ![t] = 0] /\ curLine' = [curLine EXCEPT ![t] = 0]
      /\ UNCHANGED <<mutex, hUart, lineClearSeq, strBuf, out>>
  BY DEF Return, Goto, object
<1>2. Types
  BY DEF Inv
<1>3. Types'
  BY <1>1, <1>2 DEF Types, Places
<1>4. /\ pc'[t] = "idle" /\ call'[t] = NoCall /\ hDisplay'[t] = NULL /\ OthersKeep(t)
  BY <1>1, <1>2 DEF Types, OthersKeep
<1>5. ~Prints(t) /\ ~Prints(t)'
  BY <1>1, <1>4 DEF Prints, PrintPlaces
<1>6. Local(t)'
  <2>1. Places1(t)' /\ Places2(t)' /\ Fits(t)'
    BY <1>4 DEF Places1, Places2, Fits, PrintPlaces
  <2>2. QED
    BY <1>5, <2>1, NoProgress DEF Local
<1>7. Handles'
  <2>1. ~Opens(t)' /\ \A u \in Threads \ {t} : Opens(u)' = Opens(u) /\ hDisplay'[u] = hDisplay[u]
    BY <1>4, CallsAre DEF Opens, OthersKeep
  <2>2. CASE Opens(t)
    <3>1. \A u \in Threads \ {t} : hDisplay[u] = NULL /\ ~Opens(u)
      BY <2>2, AloneWhenOpening
    <3>2. QED
      BY <1>4, <2>1, <3>1 DEF Handles
  <2>3. CASE ~Opens(t)
    <3>1. handle' = handle
      BY <1>1, <2>3 DEF Opens
    <3>2. QED
      BY <1>4, <2>1, <3>1 DEF Inv, Handles
  <2>4. QED
    BY <2>2, <2>3
<1>8. QED
  BY <1>1, <1>3, <1>4, <1>5, <1>6, <1>7, SilentStep

(* What opening changes, others do not have.                               *)
LEMMA OpenStep ==
    ASSUME Inv, NEW t \in Threads, call[t].op = "open", ~Prints(t), ~Prints(t)',
           OthersKeep(t), Types', call' = call, handle' = handle,
           UNCHANGED <<strBuf, out>>, Local(t)'
    PROVE  Inv'
<1>1. Opens(t)
  BY DEF Opens
<1>2. /\ \A u \in Threads \ {t} : hDisplay[u] = NULL /\ ~Opens(u) /\ ~Prints(u)
      /\ handle = NULL
  BY <1>1, AloneWhenOpening
<1>3. Handles'
  BY <1>1, <1>2 DEF Handles, OthersKeep, Opens
<1>4. QED
  BY <1>2, <1>3, SilentStep

LEMMA TryDisplayKeeps ==
    ASSUME Inv, NEW t \in Threads, TryDisplay(t)
    PROVE  Inv'
<1>1. /\ pc[t] = "open"
      /\ \/ i[t] \notin Displays /\ pc' = [pc EXCEPT ![t] = "return"] /\ i' = i
         \/ i[t] \in Displays /\ pc' = [pc EXCEPT ![t] = "create"] /\ i' = i
         \/ i' = [i EXCEPT ![t] = @ + 1] /\ pc' = pc
      /\ UNCHANGED <<call, hDisplay, handle, curLine, mutex, hUart, lineClearSeq, strBuf, out>>
  BY DEF TryDisplay, Goto, caller, object
<1>2. Types
  BY DEF Inv
<1>3. Types'
  <2>1. pc' \in [Threads -> Places]
    BY <1>1, <1>2 DEF Types, Places
  <2>2. i' \in [Threads -> Nat]
    <3>1. i[t] + 1 \in Nat /\ i \in [Threads -> Nat]
      BY <1>2 DEF Types
    <3>2. [i EXCEPT ![t] = @ + 1] \in [Threads -> Nat]
      BY <3>1
    <3>3. QED
      BY <1>1, <3>1, <3>2
  <2>3. QED
    BY <1>1, <1>2, <2>1, <2>2 DEF Types
<1>4. /\ pc'[t] \in {"return", "create", "open"} /\ OthersKeep(t)
      /\ pc'[t] = "create" => i'[t] \in Displays
  BY <1>1, <1>2 DEF Types, OthersKeep
<1>5. ~Prints(t) /\ ~Prints(t)' /\ call[t].op = "open" /\ hDisplay[t] = NULL /\ call[t] # NoCall
  BY <1>1, <1>4, CallsAre DEF Prints, PrintPlaces, Inv, Local, Places1
<1>6. Local(t)'
  <2>1. Places1(t)' /\ Places2(t)' /\ Fits(t)'
    BY <1>1, <1>4, <1>5 DEF Places1, Places2, Fits, PrintPlaces
  <2>2. QED
    BY <1>5, <2>1, NoProgress DEF Local
<1>7. QED
  BY <1>1, <1>3, <1>4, <1>5, <1>6, OpenStep

LEMMA CreateMutexKeeps ==
    ASSUME Inv, NEW t \in Threads, CreateMutex(t)
    PROVE  Inv'
<1>1. PICK m \in {1, NULL} :
         /\ mutex' = [mutex EXCEPT ![i[t]] = m]
         /\ IF m = NULL THEN OpenFails(t) ELSE Goto(t, "uart") /\ UNCHANGED i
  BY DEF CreateMutex
<1>2. /\ pc[t] = "create"
      /\ \/ i' = [i EXCEPT ![t] = @ + 1] /\ pc' = [pc EXCEPT ![t] = "open"]
         \/ i' = i /\ pc' = [pc EXCEPT ![t] = "uart"]
      /\ UNCHANGED <<call, hDisplay, handle, curLine, hUart, lineClearSeq, strBuf, out>>
  BY <1>1 DEF CreateMutex, OpenFails, Goto, caller
<1>3. Types
  BY DEF Inv
<1>4. /\ call[t].op = "open" /\ hDisplay[t] = NULL /\ call[t] # NoCall /\ i[t] \in Displays
      /\ ~Prints(t)
  BY <1>2, CallsAre DEF Prints, PrintPlaces, Inv, Local, Places1
<1>5. Types'
  <2>1. pc' \in [Threads -> Places]
    BY <1>2, <1>3 DEF Types, Places
  <2>2. i' \in [Threads -> Nat]
    <3>1. i[t] + 1 \in Nat /\ i \in [Threads -> Nat]
      BY <1>3 DEF Types
    <3>2. [i EXCEPT ![t] = @ + 1] \in [Threads -> Nat]
      BY <3>1
    <3>3. QED
      BY <1>2, <3>1, <3>2
  <2>3. mutex' \in [Displays -> {0, 1, NULL}]
    BY <1>1, <1>3, <1>4 DEF Types
  <2>4. QED
    BY <1>2, <1>3, <2>1, <2>2, <2>3 DEF Types
<1>6. /\ pc'[t] \in {"uart", "open"} /\ OthersKeep(t) /\ ~Prints(t)'
      /\ pc'[t] = "uart" => i'[t] \in Displays
  BY <1>2, <1>3, <1>4 DEF Types, OthersKeep, Prints, PrintPlaces
<1>7. Local(t)'
  <2>1. Places1(t)' /\ Places2(t)' /\ Fits(t)'
    BY <1>2, <1>4, <1>6 DEF Places1, Places2, Fits, PrintPlaces
  <2>2. QED
    BY <1>6, <2>1, NoProgress DEF Local
<1>8. QED
  BY <1>2, <1>4, <1>5, <1>6, <1>7, OpenStep

LEMMA OpenUartKeeps ==
    ASSUME Inv, NEW t \in Threads, OpenUart(t)
    PROVE  Inv'
<1> DEFINE d == i[t]
<1>1. Types /\ pc[t] = "uart" /\ UNCHANGED <<call, handle, curLine, mutex, strBuf, out>>
  BY DEF Inv, OpenUart
<1>2. /\ call[t].op = "open" /\ hDisplay[t] = NULL /\ call[t] # NoCall /\ d \in Displays
      /\ ~Prints(t) /\ Opens(t) /\ d # NULL
  BY <1>1, CallsAre DEF Prints, PrintPlaces, Inv, Local, Places1, Opens
<1>3. CASE /\ OpenFails(t) /\ hUart' = [hUart EXCEPT ![d] = FALSE]
           /\ UNCHANGED <<lineClearSeq, hDisplay>>
  <2>1. pc' = [pc EXCEPT ![t] = "open"] /\ i' = [i EXCEPT ![t] = @ + 1]
    BY <1>3 DEF OpenFails, Goto
  <2>2. Types'
    BY <1>1, <1>2, <1>3, <2>1 DEF Types, Places
  <2>3. pc'[t] = "open" /\ OthersKeep(t) /\ ~Prints(t)'
    BY <1>1, <1>3, <2>1 DEF Types, OthersKeep, Prints, PrintPlaces
  <2>4. Local(t)'
    <3>1. Places1(t)' /\ Places2(t)' /\ Fits(t)'
      BY <1>1, <1>2, <1>3, <2>3 DEF Places1, Places2, Fits, PrintPlaces
    <3>2. QED
      BY <2>3, <3>1, NoProgress DEF Local
  <2>5. QED
    BY <1>1, <1>2, <1>3, <2>2, <2>3, <2>4, OpenStep
<1>4. CASE /\ hUart' = [hUart EXCEPT ![d] = TRUE] /\ hDisplay' = [hDisplay EXCEPT ![t] = d]
           /\ Config[d].driver = "min"
           /\ pc' = [pc EXCEPT ![t] = "return"] /\ UNCHANGED <<lineClearSeq, i>>
  <2>1. Types'
    BY <1>1, <1>2, <1>4 DEF Types, Places
  <2>2. pc'[t] = "return" /\ OthersKeep(t) /\ ~Prints(t)'
    BY <1>1, <1>4 DEF Types, OthersKeep, Prints, PrintPlaces
  <2>3. Local(t)'
    <3>1. Places1(t)' /\ Places2(t)' /\ Fits(t)'
      BY <1>1, <1>2, <2>2 DEF Places1, Places2, Fits, PrintPlaces
    <3>2. QED
      BY <2>2, <3>1, NoProgress DEF Local
  <2>4. QED
    BY <1>1, <1>2, <2>1, <2>2, <2>3, OpenStep
<1>5. CASE /\ hUart' = [hUart EXCEPT ![d] = TRUE] /\ hDisplay' = [hDisplay EXCEPT ![t] = d]
           /\ Config[d].driver # "min"
           /\ lineClearSeq' = [lineClearSeq EXCEPT ![d] = call[t].mode]
           /\ pc' = [pc EXCEPT ![t] = "write"] /\ i' = [i EXCEPT ![t] = 1]
  <2>1. call[t] \in Calls /\ call[t].mode \in Modes
    BY <1>1, <1>2, DisplayAssumption DEF Types
  <2>2. Types'
    BY <1>1, <1>2, <1>5, <2>1 DEF Types, Places
  <2>3. /\ pc'[t] = "write" /\ OthersKeep(t) /\ Prints(t)' /\ hDisplay'[t] = d /\ i'[t] = 1
        /\ call'[t] = call[t]
    BY <1>1, <1>5 DEF Types, OthersKeep, Prints, PrintPlaces
  <2>4. /\ \A u \in Threads \ {t} : hDisplay[u] = NULL /\ ~Opens(u) /\ ~Prints(u)
        /\ handle = NULL
    BY <1>2, AloneWhenOpening
  <2>5. \A u \in Threads \ {t} : ~Prints(u)' /\ ~Opens(u)' /\ hDisplay'[u] = NULL
    BY <2>3, <2>4, <1>1 DEF OthersKeep, Prints, Opens
  <2>6. \A e \in Displays : out[e] = <<>>
    BY <1>2, <2>4 DEF Inv, Holds
  <2>7. BufferHolds'
    BY <1>1 DEF Inv, BufferHolds
  <2>8. Handles'
    BY <1>1, <1>2, <2>3, <2>4, <2>5 DEF Handles, Opens
  <2>9. Holds'
    <3>1. \A u, v \in Threads : Prints(u)' /\ Prints(v)' => u = v
      BY <2>5
    <3>2. \A u \in Threads : Prints(u)' /\ call'[u].op # "open" => mutex'[hDisplay'[u]] = 0
      BY <1>2, <2>3, <2>5
    <3>3. \A e \in Displays : out'[e] = <<>>
      BY <1>1, <2>6
    <3>4. QED
      BY <3>1, <3>2, <3>3 DEF Holds
  <2>10. Local(t)'
    <3>1. Places1(t)'
      BY <1>2, <2>3 DEF Places1
    <3>2. Config[d].driver = "ansi"
      BY <1>2, <1>5, DisplayAssumption DEF Drivers
    <3>3. Places2(t)' /\ Fits(t)' /\ Room(t)'
      BY <1>2, <2>3, <3>2 DEF Places2, Fits, Room
    <3>4. Source(t)' = <<INITIAL>> /\ Rendered(t)' = <<INITIAL>>
      BY <1>2, <2>3 DEF Source, Rendered
    <3>5. out'[d] = <<>>
      BY <1>1, <1>2, <2>6
    <3>6. <<>> \o SubSeq(<<INITIAL>>, 1, Len(<<INITIAL>>)) = <<INITIAL>> /\ 1 \in 1..(Len(<<INITIAL>>) + 1)
      BY WholeIsLeft, OneIsSeq
    <3>7. Progress(t)'
      BY <2>3, <3>4, <3>5, <3>6 DEF Progress
    <3>8. QED
      BY <3>1, <3>3, <3>7 DEF Local
  <2>11. ASSUME NEW u \in Threads PROVE Local(u)'
    <3>1. CASE u = t
      BY <2>10, <3>1
    <3>2. CASE u # t
      BY <2>3, <2>4, <3>2, LocalFrame DEF Inv, OthersKeep
    <3>3. QED
      BY <3>1, <3>2
  <2>12. QED
    BY <2>2, <2>7, <2>8, <2>9, <2>11 DEF Inv
<1>6. QED
  BY <1>3, <1>4, <1>5 DEF OpenUart, Goto

LEMMA CloseKeeps ==
    ASSUME Inv, NEW t \in Threads, Close(t)
    PROVE  Inv'
<1> DEFINE d == hDisplay[t]
<1>1. /\ Types /\ pc[t] = "close" /\ pc' = [pc EXCEPT ![t] = "return"]
      /\ hUart' = [hUart EXCEPT ![d] = FALSE] /\ mutex' = [mutex EXCEPT ![d] = NULL]
      /\ UNCHANGED <<call, hDisplay, handle, i, curLine, lineClearSeq, strBuf, out>>
  BY DEF Inv, Close, Goto, caller, loops
<1>2. /\ call[t].op = "close" /\ call[t] # NoCall /\ d \in Displays /\ ~Prints(t) /\ Opens(t)
  BY <1>1, CallsAre DEF Prints, PrintPlaces, Inv, Types, Local, Places1, Opens
<1>3. Types'
  BY <1>1, <1>2 DEF Types, Places
<1>4. pc'[t] = "return" /\ OthersKeep(t) /\ ~Prints(t)'
  BY <1>1 DEF Types, OthersKeep, Prints, PrintPlaces
<1>5. \A u \in Threads \ {t} : hDisplay[u] = NULL /\ ~Opens(u) /\ ~Prints(u)
  BY <1>2, AloneWhenOpening
<1>6. Handles'
  BY <1>1 DEF Inv, Handles, Opens
<1>7. Local(t)'
  <2>1. Places1(t)' /\ Places2(t)'
    BY <1>1, <1>2, <1>4 DEF Places1, Places2, PrintPlaces
  <2>2. Fits(t)'
    BY <1>1, <1>2 DEF Fits
  <2>3. QED
    BY <1>4, <2>1, <2>2, NoProgress DEF Local
<1>8. QED
  BY <1>1, <1>2, <1>3, <1>4, <1>5, <1>6, <1>7, SilentStep

LEMMA PendTimeoutKeeps ==
    ASSUME Inv, NEW t \in Threads, PendTimeout(t)
    PROVE  Inv'
<1>1. /\ Types /\ pc[t] = "pend" /\ pc' = [pc EXCEPT ![t] = "return"]
      /\ UNCHANGED <<call, hDisplay, handle, i, curLine, mutex, hUart, lineClearSeq, strBuf, out>>
  BY DEF Inv, PendTimeout, Goto, caller, loops, object
<1>2. Types'
  BY <1>1 DEF Types, Places
<1>3. pc'[t] = "return" /\ OthersKeep(t) /\ ~Prints(t) /\ ~Prints(t)'
  BY <1>1 DEF Types, OthersKeep, Prints, PrintPlaces
<1>4. Handles'
  BY <1>1 DEF Inv, Handles, Opens
<1>5. Local(t)'
  <2>1. Places1(t)' /\ Places2(t)'
    BY <1>1, <1>3 DEF Inv, Local, Places1, Places2, PrintPlaces
  <2>2. Before(hDisplay[t], call[t])' = Before(hDisplay[t], call[t])
    BY <1>1 DEF Before
  <2>3. Fits(t)'
    BY <1>1, <2>2 DEF Inv, Local, Fits
  <2>4. QED
    BY <1>3, <2>1, <2>3, NoProgress DEF Local
<1>6. QED
  BY <1>1, <1>2, <1>3, <1>4, <1>5, SilentStep

-----------------------------------------------------------------------------
(* What the drivers put together.                                          *)

LEMMA ItemsAre ==
    /\ CR \in Item /\ LF \in Item /\ INITIAL \in Item /\ CLEARSCREEN \in Item
    /\ RESTOREPOS \in Item /\ CLEARDOWN \in Item
    /\ \A l, k \in Nat : MOVEPOS(l, k) \in Item
    /\ \A m \in Modes : CLEAR(m) \in Item
    /\ \A ch \in STRING : <<ch>> \in Item
<1>1. ASSUME NEW l \in Nat, NEW k \in Nat PROVE MOVEPOS(l, k) \in Item
  <2> DEFINE p == <<l, k>>
  <2>1. p \in Nat \X Nat /\ p[1] = l /\ p[2] = k
    OBVIOUS
  <2> HIDE DEF p
  <2>2. MOVEPOS(l, k) = MOVEPOS(p[1], p[2])
    BY <2>1
  <2>3. QED
    BY <2>1, <2>2 DEF Item
<1>2. QED
  BY <1>1 DEF Item

LEMMA BytesAre ==
    /\ \A l, k : Bytes(MOVEPOS(l, k)) = 11 + Digits(l) + Digits(k)
    /\ \A n : Digits(n) \in 1..3
    /\ Digits(0) = 1 /\ Digits(256) = 3
    /\ Bytes(CLEARDOWN) = 6 /\ Bytes(RESTOREPOS) = 2 /\ Bytes(CR) = 1 /\ Bytes(LF) = 1
<1>1. \A l, k : Bytes(MOVEPOS(l, k)) = 11 + Digits(l) + Digits(k)
  BY DEF Bytes, MOVEPOS, CLEARDOWN, RESTOREPOS
<1>2. Bytes(CLEARDOWN) = 6
  BY DEF Bytes, CLEARDOWN, RESTOREPOS
<1>3. Bytes(RESTOREPOS) = 2
  BY DEF Bytes, CLEARDOWN, RESTOREPOS
<1>4. Bytes(CR) = 1 /\ Bytes(LF) = 1
  BY DEF Bytes, CLEARDOWN, RESTOREPOS, CR, LF
<1>5. (\A n : Digits(n) \in 1..3) /\ Digits(0) = 1 /\ Digits(256) = 3
  BY DEF Digits
<1>6. QED
  BY <1>1, <1>2, <1>3, <1>4, <1>5

LEMMA CharsAre ==
    ASSUME NEW text \in Seq(STRING), \A n \in DOMAIN text : Bytes(<<text[n]>>) = 1
    PROVE  /\ Chars(text) \in Seq(Item) /\ Len(Chars(text)) = Len(text)
           /\ strSize(Chars(text)) = Len(text)
<1>1. /\ Len(text) \in Nat /\ DOMAIN text = 1..Len(text)
      /\ \A n \in 1..Len(text) : text[n] \in STRING
  OBVIOUS
<1>2. Chars(text) = [n \in 1..Len(text) |-> <<text[n]>>]
  BY <1>1 DEF Chars
<1>3. \A n \in 1..Len(text) : <<text[n]>> \in Item
  BY <1>1, ItemsAre
<1>4. Chars(text) \in Seq(Item) /\ Len(Chars(text)) = Len(text)
  BY <1>1, <1>2, <1>3
<1>5. \A n \in DOMAIN Chars(text) : Bytes(Chars(text)[n]) = 1
  BY <1>1, <1>2
<1>6. strSize(Chars(text)) = Len(Chars(text))
  BY <1>4, <1>5, SizeOfText
<1>7. QED
  BY <1>4, <1>6

(* What fits of a text for a plain UART.                                   *)
LEMMA ShownIs ==
    ASSUME NEW d \in Displays, bufLen(d) >= 3,
           NEW text \in Seq(STRING), \A n \in DOMAIN text : Bytes(<<text[n]>>) = 1
    PROVE  /\ Shown(d, text) = Chars(vsnprintf(bufLen(d) - 2, text))
           /\ Shown(d, text) \in Seq(Item)
           /\ strSize(Shown(d, text)) + 3 <= bufLen(d)
<1> DEFINE b == bufLen(d)
           m == IF b - 2 <= Len(text) THEN b - 3 ELSE Len(text)
           v == SubSeq(text, 1, m)
<1>1. b \in Nat
  BY CallsAre
<1> HIDE DEF b
<1>2. /\ Len(text) \in Nat /\ DOMAIN text = 1..Len(text) /\ b >= 3
      /\ m \in Nat /\ m <= Len(text) /\ m + 3 <= b
  BY <1>1 DEF b
<1>3. {n \in DOMAIN text : n + 3 <= b} = 1..m
  BY <1>1, <1>2
<1> HIDE DEF m
<1>4. v \in Seq(STRING) /\ DOMAIN v = 1..m /\ Len(v) = m /\ \A n \in 1..m : v[n] = text[n]
  BY <1>2
<1>5. Shown(d, text) = [n \in 1..m |-> <<text[n]>>]
  BY <1>3 DEF Shown, b
<1> HIDE DEF v
<1>6. Chars(v) = [n \in 1..m |-> <<text[n]>>]
  BY <1>4 DEF Chars
<1>7. \A n \in DOMAIN v : Bytes(<<v[n]>>) = 1
  BY <1>2, <1>4
<1>8. Chars(v) \in Seq(Item) /\ strSize(Chars(v)) = m
  BY <1>4, <1>7, CharsAre
<1>9. vsnprintf(b - 2, text) = v
  <2>1. IF b - 2 <= Len(text) THEN (b - 2) - 1 = m ELSE Len(text) = m
    BY <1>1, <1>2 DEF m
  <2>2. QED
    BY <2>1 DEF vsnprintf, v
<1>10. QED
  BY <1>1, <1>2, <1>5, <1>6, <1>8, <1>9 DEF b

LEMMA BeforeAfterAre ==
    ASSUME NEW d \in Displays, lineClearSeq[d] \in Modes, NEW c, c.line \in Nat, c.column \in Nat
    PROVE  /\ Before(d, c) \in Seq(Item) /\ After(c) \in Seq(Item)
           /\ strSize(Before(d, c)) \in Nat /\ strSize(After(c)) = 2
<1>1. Before(d, c) \in Seq(Item)
  <2>1. MOVEPOS(c.line + 1, c.column + 1) \in Item /\ CLEAR(lineClearSeq[d]) \in Item
    <3>1. c.line + 1 \in Nat /\ c.column + 1 \in Nat
      OBVIOUS
    <3>2. QED
      BY <3>1, ItemsAre
  <2>2. \A x, y \in Item : <<x>> \in Seq(Item) /\ <<x, y>> \in Seq(Item) /\ <<>> \in Seq(Item)
    OBVIOUS
  <2>3. QED
    BY <2>1, <2>2 DEF Before
<1>2. After(c) \in Seq(Item)
  BY ItemsAre DEF After
<1>3. strSize(After(c)) = 2
  <2>1. strSize(<<RESTOREPOS>>) = 2
    BY SizeOfOne, BytesAre
  <2>2. strSize(<<CR, LF>>) = 2
    <3>1. <<CR>> \in Seq(Item) /\ <<CR, LF>> = Append(<<CR>>, LF) /\ LF \in Item
      <4>1. \A x, y : <<x, y>> = Append(<<x>>, y)
        OBVIOUS
      <4>2. \A x \in Item : <<x>> \in Seq(Item)
        OBVIOUS
      <4>3. QED
        BY <4>1, <4>2, ItemsAre
    <3>2. strSize(<<CR>>) = 1
      BY SizeOfOne, BytesAre
    <3>3. strSize(Append(<<CR>>, LF)) = strSize(<<CR>>) + Bytes(LF)
      BY <3>1, SizeOfAppend
    <3>4. strSize(Append(<<CR>>, LF)) = 2
      BY <3>2, <3>3, BytesAre
    <3>5. QED
      BY <3>1, <3>4, Zenon
  <2>3. QED
    BY <2>1, <2>2 DEF After
<1>4. QED
  BY <1>1, <1>2, <1>3, SizeIsNat

(* A text for a terminal, which fits.                                      *)
LEMMA TextIs ==
    ASSUME NEW d \in Displays, lineClearSeq[d] \in Modes, NEW c, c.line \in Nat, c.column \in Nat,
           c.text \in Seq(STRING), \A n \in DOMAIN c.text : Bytes(<<c.text[n]>>) = 1,
           Len(c.text) <= bufLen(d) - strSize(Before(d, c)) - 3
    PROVE  /\ vsnprintf(bufLen(d) - strSize(Before(d, c)) - 2, c.text) = c.text
           /\ Before(d, c) \o Chars(c.text) \o After(c) \in Seq(Item)
           /\ strSize(Before(d, c) \o Chars(c.text) \o After(c)) + 1 <= bufLen(d)
<1> DEFINE p == Before(d, c)
           x == Chars(c.text)
           q == After(c)
<1>1. /\ p \in Seq(Item) /\ q \in Seq(Item) /\ x \in Seq(Item)
      /\ strSize(p) \in Nat /\ strSize(q) = 2 /\ strSize(x) = Len(c.text)
  BY BeforeAfterAre, CharsAre
<1>2. bufLen(d) \in Nat /\ Len(c.text) \in Nat
  BY CallsAre
<1>3. vsnprintf(bufLen(d) - strSize(p) - 2, c.text) = c.text
  <2>1. ~(bufLen(d) - strSize(p) - 2 <= Len(c.text))
    BY <1>1, <1>2
  <2>2. SubSeq(c.text, 1, Len(c.text)) = c.text
    OBVIOUS
  <2>3. QED
    BY <2>1, <2>2 DEF vsnprintf
<1> HIDE DEF p, x, q
<1>4. p \o x \in Seq(Item) /\ (p \o x) \o q \in Seq(Item)
  BY <1>1, ConcatProperties
<1>5. strSize(p \o x) = strSize(p) + strSize(x) /\ strSize((p \o x) \o q) = strSize(p \o x) + strSize(q)
  BY <1>1, <1>4, SizeOfConcat
<1>6. strSize((p \o x) \o q) + 1 <= bufLen(d)
  <2>1. Len(c.text) <= bufLen(d) - strSize(p) - 3
    BY DEF p
  <2>2. QED
    BY <1>1, <1>2, <1>5, <2>1
<1>7. QED
  BY <1>3, <1>4, <1>6 DEF p, x, q

LEMMA AppendInside ==
    ASSUME NEW p \in Seq(Item), NEW a \in Seq(Item), NEW x \in Item
    PROVE  Append(p \o a, x) = p \o Append(a, x)
<1> DEFINE w == <<x>>
<1>1. w \in Seq(Item) /\ p \o a \in Seq(Item)
  BY ConcatProperties
<1>2. Append(p \o a, x) = (p \o a) \o w /\ Append(a, x) = a \o w
  BY <1>1, AppendIsConcat
<1> HIDE DEF w
<1>3. (p \o a) \o w = p \o (a \o w)
  BY <1>1, ConcatAssociative
<1>4. QED
  BY <1>2, <1>3

(* The lines that are cleared.                                             *)
LEMMA ClearedIs ==
    ASSUME NEW c, c.from \in Nat, NEW l \in Nat, c.from + 1 <= l
    PROVE  /\ Cleared(c, l) \in Seq(Item)
           /\ Cleared(c, c.from + 1) = <<MOVEPOS(c.from + 1, 0)>>
           /\ Append(Cleared(c, l), CLEARDOWN) = Cleared(c, l + 1)
<1> DEFINE f == c.from
           p == <<MOVEPOS(f + 1, 0)>>
           m == l - (f + 1)
           L(n) == [k \in 1..n |-> CLEARDOWN]
<1>1. p \in Seq(Item) /\ m \in Nat /\ f \in Nat
  BY ItemsAre
<1>2. ASSUME NEW n \in Nat PROVE L(n) \in Seq(Item) /\ Len(L(n)) = n
  BY ItemsAre
<1>3. Cleared(c, l) \in Seq(Item)
  <2>1. Cleared(c, l) = p \o L(m)
    BY DEF Cleared
  <2> HIDE DEF p, L
  <2>2. QED
    BY <1>1, <1>2, <2>1, ConcatProperties
<1>4. Cleared(c, f + 1) = p
  <2>1. (f + 1) - (f + 1) = 0
    BY <1>1
  <2>2. L(0) = <<>>
    OBVIOUS
  <2>3. Cleared(c, f + 1) = p \o L(0)
    BY <2>1 DEF Cleared
  <2>4. p \o <<>> = p
    BY <1>1, ConcatEmptySeq
  <2>5. QED
    BY <2>2, <2>3, <2>4
<1>5. Append(L(m), CLEARDOWN) = L(m + 1)
  <2> HIDE DEF m
  <2>1. /\ Append(L(m), CLEARDOWN) \in Seq(Item) /\ Len(Append(L(m), CLEARDOWN)) = m + 1
        /\ \A k \in 1..(m + 1) : Append(L(m), CLEARDOWN)[k] = CLEARDOWN
    BY <1>1, <1>2, ItemsAre
  <2>2. L(m + 1) \in Seq(Item) /\ Len(L(m + 1)) = m + 1 /\ \A k \in 1..(m + 1) : L(m + 1)[k] = CLEARDOWN
    BY <1>1, <1>2
  <2> HIDE DEF L
  <2>3. QED
    BY <2>1, <2>2, SeqEqual
<1>6. Append(p \o L(m), CLEARDOWN) = p \o L(m + 1)
  <2>1. L(m) \in Seq(Item) /\ CLEARDOWN \in Item
    BY <1>1, <1>2, ItemsAre
  <2> HIDE DEF L, p, m
  <2>2. Append(p \o L(m), CLEARDOWN) = p \o Append(L(m), CLEARDOWN)
    BY <1>1, <2>1, AppendInside
  <2>3. QED
    BY <1>5, <2>2
<1>7. m + 1 = (l + 1) - (f + 1)
  BY <1>1
<1>8. Append(Cleared(c, l), CLEARDOWN) = Cleared(c, l + 1)
  BY <1>6, <1>7 DEF Cleared
<1>9. QED
  BY <1>3, <1>4, <1>8

LEMMA LinesCleared ==
    ASSUME NEW c, c.from \in Nat, c.to \in Nat
    PROVE  /\ lineTo(c) + 2 - (c.from + 1) = Cardinality(c.from..c.to \cup {c.from})
           /\ lineTo(c) \in Nat /\ c.from <= lineTo(c)
<1>1. CASE c.to <= c.from
  <2>1. c.from..c.to \cup {c.from} = {c.from}
    BY <1>1
  <2>2. Cardinality({c.from}) = 1
    BY FS_Singleton
  <2>3. lineTo(c) = c.from
    BY <1>1 DEF lineTo
  <2>4. c.from \in Int /\ c.from + 2 - (c.from + 1) = 1
    OBVIOUS
  <2>5. lineTo(c) + 2 - (c.from + 1) = 1
    BY <2>3, <2>4
  <2>6. Cardinality(c.from..c.to \cup {c.from}) = 1
    BY <2>1, <2>2, Zenon
  <2>7. QED
    BY <2>3, <2>4, <2>5, <2>6
<1>2. CASE ~(c.to <= c.from)
  <2>1. c.from..c.to \cup {c.from} = c.from..c.to
    BY <1>2
  <2>2. Cardinality(c.from..c.to) = c.to - c.from + 1
    BY <1>2, FS_Interval
  <2>3. lineTo(c) = c.to
    BY <1>2 DEF lineTo
  <2>4. c.to + 2 - (c.from + 1) = c.to - c.from + 1 /\ c.from <= c.to
    BY <1>2
  <2>5. QED
    BY <2>1, <2>2, <2>3, <2>4
<1>3. QED
  BY <1>1, <1>2

LEMMA BuffersAre ==
    ASSUME NEW d \in Displays
    PROVE  /\ bufLen(d) \in Nat
           /\ Config[d].driver = "min" => bufLen(d) >= 3
           /\ Config[d].driver = "ansi" => bufLen(d) >= 23
           /\ Config[d].driver \in {"min", "ansi"}
<1>1. Shortest("min") = 3
  BY DEF Shortest
<1>2. Shortest("ansi") = 23
  BY BytesAre DEF Shortest
<1>3. QED
  BY <1>1, <1>2, DisplayAssumption DEF bufLen, Drivers

(* What is known of the thread that prints.                                *)
LEMMA PrinterIs ==
    ASSUME Inv, NEW t \in Threads, pc[t] \in {"pend"} \cup PrintPlaces
    PROVE  /\ Types /\ Local(t) /\ hDisplay[t] \in Displays /\ call[t] \in Calls
           /\ \/ call[t].op \in {"clear", "clearLines", "printf"}
              \/ call[t].op = "open" /\ pc[t] = "write"
           /\ lineClearSeq[hDisplay[t]] \in Modes
           /\ strBuf[hDisplay[t]] \in Seq(Item) /\ out[hDisplay[t]] \in Seq(Item)
           /\ i[t] \in Nat /\ curLine[t] \in Nat
           /\ call[t].op = "clearLines" => call[t].from \in Nat /\ call[t].to \in Nat
           /\ call[t].op = "printf" =>
                 /\ call[t].line \in Nat /\ call[t].column \in Nat /\ call[t].text \in Seq(STRING)
                 /\ \A n \in DOMAIN call[t].text : Bytes(<<call[t].text[n]>>) = 1
<1>1. Types /\ Local(t)
  BY DEF Inv
<1>2. pc[t] # "idle"
  BY DEF PrintPlaces
<1>3. hDisplay[t] \in Displays
  BY <1>1 DEF Types, Local, Places1
<1>4. call[t] \in Calls
  BY <1>1, <1>2 DEF Types, Local, Places1
<1>5. \/ call[t].op \in {"clear", "clearLines", "printf"}
      \/ call[t].op = "open" /\ pc[t] = "write"
  BY <1>1 DEF Local, Places2
<1>6. /\ lineClearSeq[hDisplay[t]] \in Modes
      /\ strBuf[hDisplay[t]] \in Seq(Item) /\ out[hDisplay[t]] \in Seq(Item)
      /\ i[t] \in Nat /\ curLine[t] \in Nat
  BY <1>1, <1>3 DEF Types
<1>7. \A n \in Indexes : n \in Nat
  BY DEF Indexes
<1>8. /\ call[t].op = "clearLines" => call[t].from \in Indexes /\ call[t].to \in Indexes
      /\ call[t].op = "printf" =>
            /\ call[t].line \in Indexes /\ call[t].column \in Indexes /\ call[t].text \in Seq(STRING)
            /\ \A n \in DOMAIN call[t].text : Bytes(<<call[t].text[n]>>) = 1
  BY <1>4, DisplayAssumption
<1>9. QED
  BY <1>1, <1>3, <1>4, <1>5, <1>6, <1>7, <1>8

(* Whoever prints goes on with the same call and the same display.         *)
LEMMA StaysPrinter ==
    ASSUME NEW t \in Threads, Local(t), pc[t] \in {"pend"} \cup PrintPlaces,
           call[t] # NoCall, pc'[t] \in PrintPlaces,
           call'[t] = call[t], hDisplay'[t] = hDisplay[t], lineClearSeq' = lineClearSeq
    PROVE  Places1(t)' /\ Fits(t)' /\ Rendered(t)' = Rendered(t)
<1>1. Places1(t)'
  BY DEF Local, Places1, PrintPlaces
<1>2. Before(hDisplay[t], call[t])' = Before(hDisplay[t], call[t])
  BY DEF Before
<1>3. Fits(t)'
  BY <1>2 DEF Local, Fits
<1>4. Rendered(t)' = Rendered(t)
  BY <1>2 DEF Rendered
<1>5. QED
  BY <1>1, <1>3, <1>4

LEMMA PendKeeps ==
    ASSUME Inv, NEW t \in Threads, Pend(t)
    PROVE  Inv'
<1> DEFINE d == hDisplay[t]
<1>1. /\ pc[t] = "pend" /\ pc' = [pc EXCEPT ![t] = "format"] /\ mutex[d] = 1
      /\ mutex' = [mutex EXCEPT ![d] = 0]
      /\ UNCHANGED <<call, hDisplay, handle, i, curLine, hUart, lineClearSeq, strBuf, out>>
  BY DEF Pend, Goto, caller, loops
<1>2. /\ Types /\ Local(t) /\ d \in Displays /\ call[t] \in Calls /\ d # NULL /\ call[t] # NoCall
      /\ call[t].op \in {"clear", "clearLines", "printf"}
  BY <1>1, PrinterIs, CallsAre
<1>3. Types'
  BY <1>1, <1>2 DEF Types, Places
<1>4. pc'[t] = "format" /\ OthersKeep(t) /\ ~Prints(t) /\ Prints(t)' /\ ~Opens(t)
  BY <1>1, <1>2 DEF Types, OthersKeep, Prints, PrintPlaces, Opens
<1>5. d = handle
  BY <1>2, <1>4 DEF Inv, Handles
<1>6. ASSUME NEW u \in Threads, Prints(u) PROVE FALSE
  <2>1. u # t /\ hDisplay[u] # NULL
    BY <1>4, <1>6 DEF Inv, Local, Places1, Prints
  <2>2. ~Opens(u)
    BY <1>2, <2>1 DEF Inv, Handles
  <2>3. hDisplay[u] = d
    BY <1>5, <2>1, <2>2 DEF Inv, Handles
  <2>4. mutex[d] = 0
    BY <1>6, <2>2, <2>3 DEF Inv, Holds, Opens
  <2>5. QED
    BY <1>1, <2>4
<1>7. \A e \in Displays : out[e] = <<>>
  BY <1>6 DEF Inv, Holds
<1>8. BufferHolds'
  BY <1>1 DEF Inv, BufferHolds
<1>9. Handles'
  BY <1>1 DEF Inv, Handles, Opens
<1>10. \A u \in Threads \ {t} : ~Prints(u)'
  BY <1>4, <1>6 DEF OthersKeep, Prints
<1>11. Holds'
  <2>1. \A u, v \in Threads : Prints(u)' /\ Prints(v)' => u = v
    BY <1>10
  <2>2. mutex'[d] = 0
    BY <1>1, <1>2 DEF Types
  <2>3. \A u \in Threads : Prints(u)' /\ call'[u].op # "open" => mutex'[hDisplay'[u]] = 0
    BY <1>1, <1>10, <2>2
  <2>4. QED
    BY <1>1, <1>7, <2>1, <2>3 DEF Holds
<1>12. Local(t)'
  <2>1. Places1(t)' /\ Fits(t)'
    BY <1>1, <1>2, <1>4, StaysPrinter DEF PrintPlaces
  <2>2. Places2(t)'
    BY <1>1, <1>2, <1>4 DEF Local, Places2, PrintPlaces
  <2>3. Progress(t)' /\ Room(t)'
    BY <1>1, <1>2, <1>4, <1>7 DEF Progress, Room
  <2>4. QED
    BY <2>1, <2>2, <2>3 DEF Local
<1>13. ASSUME NEW u \in Threads PROVE Local(u)'
  <2>1. CASE u = t
    BY <1>12, <2>1
  <2>2. CASE u # t
    BY <1>1, <1>4, <2>2, LocalFrame DEF Inv, OthersKeep
  <2>3. QED
    BY <2>1, <2>2
<1>14. QED
  BY <1>3, <1>8, <1>9, <1>11, <1>13 DEF Inv

LEMMA PostKeeps ==
    ASSUME Inv, NEW t \in Threads, Post(t)
    PROVE  Inv'
<1> DEFINE d == hDisplay[t]
<1>1. /\ pc[t] = "post" /\ pc' = [pc EXCEPT ![t] = "return"]
      /\ mutex' = [mutex EXCEPT ![d] = 1] /\ out' = [out EXCEPT ![d] = <<>>]
      /\ UNCHANGED <<call, hDisplay, handle, i, curLine, hUart, lineClearSeq, strBuf>>
  BY DEF Post, Goto, caller, loops
<1>2. pc[t] \in {"pend"} \cup PrintPlaces /\ Prints(t)
  BY <1>1 DEF Prints, PrintPlaces
<1>3. Types /\ Local(t) /\ d \in Displays /\ call[t] \in Calls /\ call[t] # NoCall
  BY <1>2, PrinterIs, CallsAre
<1>4. Types'
  BY <1>1, <1>3 DEF Types, Places
<1>5. pc'[t] = "return" /\ OthersKeep(t) /\ ~Prints(t)'
  BY <1>1, <1>3 DEF Types, OthersKeep, Prints, PrintPlaces
<1>6. \A u \in Threads \ {t} : ~Prints(u)
  BY <1>2 DEF Inv, Holds
<1>7. \A u \in Threads : ~Prints(u)'
  BY <1>5, <1>6 DEF OthersKeep, Prints
<1>8. BufferHolds'
  BY <1>1 DEF Inv, BufferHolds
<1>9. Handles'
  BY <1>1 DEF Inv, Handles, Opens
<1>10. Holds'
  <2>1. ASSUME NEW e \in Displays PROVE out'[e] = <<>>
    <3>1. CASE e = d
      BY <1>1, <1>3, <3>1 DEF Types
    <3>2. CASE e # d
      <4>1. \A u \in Threads : Prints(u) => hDisplay[u] # e
        BY <1>6, <3>2
      <4>2. QED
        BY <1>1, <1>3, <3>2, <4>1 DEF Inv, Holds, Types
    <3>3. QED
      BY <3>1, <3>2
  <2>2. QED
    BY <1>7, <2>1 DEF Holds
<1>11. Local(t)'
  <2>1. Places1(t)' /\ Places2(t)'
    BY <1>1, <1>3, <1>5 DEF Places1, Places2, PrintPlaces
  <2>2. Before(d, call[t])' = Before(d, call[t])
    BY <1>1 DEF Before
  <2>3. Fits(t)'
    BY <1>1, <1>3, <2>2 DEF Local, Fits
  <2>4. QED
    BY <1>5, <2>1, <2>3, NoProgress DEF Local
<1>12. ASSUME NEW u \in Threads PROVE Local(u)'
  <2>1. CASE u = t
    BY <1>11, <2>1
  <2>2. CASE u # t
    BY <1>1, <1>5, <1>6, <2>2, LocalFrame DEF Inv, OthersKeep
  <2>3. QED
    BY <2>1, <2>2
<1>13. QED
  BY <1>4, <1>8, <1>9, <1>10, <1>12 DEF Inv

LEMMA FormatKeeps ==
    ASSUME Inv, NEW t \in Threads, Format(t)
    PROVE  Inv'
<1> DEFINE d == hDisplay[t]
           c == call[t]
<1>1. pc[t] = "format" /\ Prints(t) /\ pc[t] \in {"pend"} \cup PrintPlaces
  BY DEF Format, Prints, PrintPlaces
<1>2. /\ Types /\ Local(t) /\ d \in Displays /\ c \in Calls /\ c # NoCall
      /\ c.op \in {"clear", "clearLines", "printf"}
      /\ c.op # "printf" => Config[d].driver = "ansi"
      /\ lineClearSeq[d] \in Modes /\ strBuf[d] \in Seq(Item) /\ out[d] \in Seq(Item)
      /\ out[d] = <<>>
  BY <1>1, PrinterIs, CallsAre DEF Local, Places2, Progress
<1>3. UNCHANGED <<call, hDisplay, handle, mutex, hUart, lineClearSeq>>
  BY DEF Format, caller, object
<1>4. out' = [out EXCEPT ![d] = out[d]]
  BY <1>2 DEF Format, Types
<1>5. i' = [i EXCEPT ![t] = 1]
  BY DEF Format
<1>6. CASE c.op = "clear"
  <2>1. /\ pc' = [pc EXCEPT ![t] = "write"] /\ strBuf' = [strBuf EXCEPT ![d] = strBuf[d]]
        /\ curLine' = [curLine EXCEPT ![t] = 0]
    BY <1>2, <1>6 DEF Format, Goto
  <2>2. /\ pc'[t] = "write" /\ i'[t] = 1 /\ out'[d] = <<>> /\ hDisplay'[t] = d /\ call'[t] = c
    BY <1>2, <1>3, <1>4, <1>5, <2>1 DEF Types
  <2>3. Places1(t)' /\ Fits(t)' /\ Rendered(t)' = Rendered(t)
    BY <1>1, <1>2, <1>3, <2>2, StaysPrinter DEF PrintPlaces
  <2>4. Places2(t)' /\ Room(t)'
    BY <1>2, <1>6, <2>2 DEF Places2, Room
  <2>5. Source(t)' = <<CLEARSCREEN>> /\ Rendered(t)' = <<CLEARSCREEN>>
    BY <1>6, <2>2 DEF Source, Rendered
  <2>6. Progress(t)'
    <3>1. /\ <<>> \o SubSeq(<<CLEARSCREEN>>, 1, Len(<<CLEARSCREEN>>)) = <<CLEARSCREEN>>
          /\ 1 \in 1..(Len(<<CLEARSCREEN>>) + 1)
      BY WholeIsLeft, OneIsSeq
    <3>2. QED
      BY <2>2, <2>5, <3>1 DEF Progress
  <2>7. strSize(strBuf[d]) + (IF Config[d].driver = "min" THEN 1 ELSE 0) <= bufLen(d)
    BY <1>2 DEF Inv, BufferHolds
  <2>8. "write" \in PrintPlaces /\ 1 \in Nat /\ 0 \in Nat
    BY DEF PrintPlaces
  <2>9. QED
    BY <1>1, <1>2, <1>3, <1>4, <1>5, <2>1, <2>3, <2>4, <2>6, <2>7, <2>8, PrintStep DEF Local
<1>7. CASE c.op = "clearLines"
  <2> DEFINE s == <<MOVEPOS(c.from + 1, 0)>>
  <2>1. /\ pc' = [pc EXCEPT ![t] = "lines"] /\ strBuf' = [strBuf EXCEPT ![d] = s]
        /\ curLine' = [curLine EXCEPT ![t] = c.from + 1]
    BY <1>2, <1>7 DEF Format, Goto
  <2>2. c.from \in Nat /\ c.to \in Nat /\ c.from + 1 \in Nat
    BY <1>1, <1>7, PrinterIs
  <2>3. s \in Seq(Item) /\ strSize(s) \in Nat /\ strSize(s) <= 15
    <3>1. MOVEPOS(c.from + 1, 0) \in Item
      BY <2>2, ItemsAre
    <3>2. strSize(s) = 11 + Digits(c.from + 1) + 1 /\ Digits(c.from + 1) \in 1..3
      BY SizeOfOne, BytesAre
    <3>3. QED
      BY <3>1, <3>2
  <2> HIDE DEF s
  <2>4. /\ pc'[t] = "lines" /\ i'[t] = 1 /\ out'[d] = <<>> /\ hDisplay'[t] = d /\ call'[t] = c
        /\ strBuf'[d] = s /\ curLine'[t] = c.from + 1
    BY <1>2, <1>3, <1>4, <1>5, <2>1 DEF Types
  <2>5. Places1(t)' /\ Fits(t)'
    BY <1>1, <1>2, <1>3, <2>4, StaysPrinter DEF PrintPlaces
  <2>6. bufLen(d) \in Nat /\ bufLen(d) >= 23 /\ Config[d].driver = "ansi"
    BY <1>2, <1>7, BuffersAre
  <2>7. Places2(t)' /\ Room(t)'
    BY <1>7, <2>3, <2>4, <2>6, BytesAre DEF Places2, Room, bufLen
  <2>8. Progress(t)'
    <3>1. <<>> \o s = Cleared(c, c.from + 1)
      <4>1. Cleared(c, c.from + 1) = s
        BY <2>2, ClearedIs DEF s
      <4>2. QED
        BY <2>3, <4>1, ConcatEmptySeq
    <3>2. c.from + 1 \in (c.from + 1)..(lineTo(c) + 2)
      <4>1. lineTo(c) \in Nat /\ c.from <= lineTo(c)
        BY <2>2, LinesCleared
      <4>2. QED
        BY <2>2, <4>1
    <3>3. QED
      BY <2>4, <3>1, <3>2 DEF Progress
  <2>9. strSize(s) + (IF Config[d].driver = "min" THEN 1 ELSE 0) <= bufLen(d)
    BY <2>3, <2>6
  <2>10. "lines" \in PrintPlaces /\ 1 \in Nat
    BY DEF PrintPlaces
  <2>11. QED
    BY <1>1, <1>2, <1>3, <1>4, <1>5, <2>1, <2>2, <2>3, <2>5, <2>7, <2>8, <2>9, <2>10, PrintStep DEF Local
<1>8. CASE c.op = "printf" /\ Config[d].driver = "min"
  <2> DEFINE s == Shown(d, c.text)
  <2>1. bufLen(d) \in Nat /\ bufLen(d) >= 3
    BY <1>2, <1>8, BuffersAre
  <2>2. /\ c.text \in Seq(STRING) /\ \A n \in DOMAIN c.text : Bytes(<<c.text[n]>>) = 1
    BY <1>1, <1>8, PrinterIs
  <2>3. /\ s = Chars(vsnprintf(bufLen(d) - 2, c.text)) /\ s \in Seq(Item)
        /\ strSize(s) + 3 <= bufLen(d) /\ strSize(s) \in Nat
    BY <1>2, <2>1, <2>2, ShownIs, SizeIsNat
  <2>4. /\ pc' = [pc EXCEPT ![t] = "char"] /\ strBuf' = [strBuf EXCEPT ![d] = s]
        /\ curLine' = [curLine EXCEPT ![t] = 0]
    BY <1>2, <1>8, <2>3 DEF Format, Goto
  <2>5. /\ pc'[t] = "char" /\ i'[t] = 1 /\ out'[d] = <<>> /\ hDisplay'[t] = d /\ call'[t] = c
        /\ strBuf'[d] = s
    BY <1>2, <1>3, <1>4, <1>5, <2>4 DEF Types
  <2>6. Places1(t)' /\ Fits(t)'
    BY <1>1, <1>2, <1>3, <2>5, StaysPrinter DEF PrintPlaces
  <2>7. Places2(t)' /\ Room(t)'
    BY <1>8, <2>5 DEF Places2, Room
  <2>8. Progress(t)'
    <3>1. SubSeq(s, 1, 1 - 1) = <<>> /\ 1 \in 1..(Len(s) + 1)
      BY <2>3
    <3>2. Returned(SubSeq(s, 1, 1 - 1)) = <<>>
      BY <3>1, ReturnedOfEmpty
    <3>3. QED
      BY <2>5, <3>1, <3>2 DEF Progress
  <2> HIDE DEF s
  <2>9. strSize(s) + (IF Config[d].driver = "min" THEN 1 ELSE 0) <= bufLen(d)
    BY <2>1, <2>3
  <2>10. "char" \in PrintPlaces /\ 1 \in Nat /\ 0 \in Nat
    BY DEF PrintPlaces
  <2>11. QED
    BY <1>1, <1>2, <1>3, <1>4, <1>5, <2>3, <2>4, <2>6, <2>7, <2>8, <2>9, <2>10, PrintStep DEF Local
<1>9. CASE c.op = "printf" /\ Config[d].driver # "min"
  <2> DEFINE s == Before(d, c) \o Chars(c.text) \o After(c)
  <2>1. bufLen(d) \in Nat /\ Config[d].driver = "ansi"
    BY <1>2, <1>9, BuffersAre
  <2>2. /\ c.text \in Seq(STRING) /\ \A n \in DOMAIN c.text : Bytes(<<c.text[n]>>) = 1
        /\ c.line \in Nat /\ c.column \in Nat
    BY <1>1, <1>9, PrinterIs
  <2>3. Len(c.text) <= bufLen(d) - strSize(Before(d, c)) - 3
    BY <1>2, <1>9, CallsAre DEF Local, Fits
  <2>4. /\ vsnprintf(bufLen(d) - strSize(Before(d, c)) - 2, c.text) = c.text
        /\ s \in Seq(Item) /\ strSize(s) + 1 <= bufLen(d)
    BY <1>2, <2>2, <2>3, TextIs
  <2>5. /\ pc' = [pc EXCEPT ![t] = "write"] /\ strBuf' = [strBuf EXCEPT ![d] = s]
        /\ curLine' = [curLine EXCEPT ![t] = 0]
    BY <1>2, <1>9, <2>4 DEF Format, Goto
  <2>6. Rendered(t) = s
    BY <1>9 DEF Rendered
  <2> HIDE DEF s
  <2>7. /\ pc'[t] = "write" /\ i'[t] = 1 /\ out'[d] = <<>> /\ hDisplay'[t] = d /\ call'[t] = c
        /\ strBuf'[d] = s
    BY <1>2, <1>3, <1>4, <1>5, <2>5 DEF Types
  <2>8. Places1(t)' /\ Fits(t)' /\ Rendered(t)' = s
    BY <1>1, <1>2, <1>3, <2>6, <2>7, StaysPrinter DEF PrintPlaces
  <2>9. Places2(t)' /\ Room(t)'
    BY <1>9, <2>1, <2>7 DEF Places2, Room
  <2>10. Source(t)' = s
    BY <1>9, <2>7 DEF Source
  <2>11. Progress(t)'
    <3>1. <<>> \o SubSeq(s, 1, Len(s)) = s /\ 1 \in 1..(Len(s) + 1)
      BY <2>4, WholeIsLeft
    <3>2. QED
      BY <2>7, <2>8, <2>10, <3>1 DEF Progress
  <2>12. strSize(s) + (IF Config[d].driver = "min" THEN 1 ELSE 0) <= bufLen(d)
    <3>1. strSize(s) \in Nat
      BY <2>4, SizeIsNat
    <3>2. QED
      BY <2>1, <2>4, <3>1
  <2>13. "write" \in PrintPlaces /\ 1 \in Nat /\ 0 \in Nat
    BY DEF PrintPlaces
  <2>14. QED
    BY <1>1, <1>2, <1>3, <1>4, <1>5, <2>4, <2>5, <2>8, <2>9, <2>11, <2>12, <2>13, PrintStep DEF Local
<1>10. QED
  BY <1>2, <1>6, <1>7, <1>8, <1>9

(* One more item in the buffer.                                            *)
LEMMA AddOne ==
    ASSUME NEW o \in Seq(Item), NEW a \in Seq(Item), NEW x \in Item, NEW s, s = a \o <<x>>
    PROVE  /\ s \in Seq(Item) /\ strSize(s) = strSize(a) + Bytes(x)
           /\ o \o s = (o \o a) \o <<x>>
           /\ o \o s = Append(o \o a, x)
<1> DEFINE w == <<x>>
<1>1. w \in Seq(Item) /\ strSize(w) = Bytes(x)
  BY SizeOfOne
<1>2. o \o a \in Seq(Item)
  BY ConcatProperties
<1>3. Append(o \o a, x) = (o \o a) \o w
  BY <1>2, AppendIsConcat
<1>4. s = a \o w
  OBVIOUS
<1> HIDE DEF w
<1>5. s \in Seq(Item) /\ strSize(s) = strSize(a) + strSize(w)
  BY <1>1, <1>4, SizeOfConcat, ConcatProperties
<1>6. (o \o a) \o w = o \o s
  BY <1>1, <1>4, ConcatAssociative
<1>7. QED
  BY <1>1, <1>3, <1>5, <1>6 DEF w

LEMMA ClearLineKeeps ==
    ASSUME Inv, NEW t \in Threads, ClearLine(t)
    PROVE  Inv'
<1> DEFINE d == hDisplay[t]
           c == call[t]
           n == curLine[t]
<1>1. pc[t] = "lines" /\ Prints(t) /\ pc[t] \in {"pend"} \cup PrintPlaces
  BY DEF ClearLine, Prints, PrintPlaces
<1>2. /\ Types /\ Local(t) /\ d \in Displays /\ c \in Calls /\ c # NoCall
      /\ c.op = "clearLines" /\ Config[d].driver = "ansi"
      /\ lineClearSeq[d] \in Modes /\ strBuf[d] \in Seq(Item) /\ out[d] \in Seq(Item)
      /\ n \in Nat
  BY <1>1, PrinterIs, CallsAre DEF Local, Places2
<1>3. c.from \in Nat /\ c.to \in Nat /\ lineTo(c) \in Nat /\ c.from <= lineTo(c)
  BY <1>1, <1>2, PrinterIs, LinesCleared
<1>4. /\ n \in (c.from + 1)..(lineTo(c) + 2) /\ i[t] = 1 /\ out[d] \o strBuf[d] = Cleared(c, n)
  BY <1>1, <1>2 DEF Local, Progress
<1>5. UNCHANGED <<call, hDisplay, handle, mutex, hUart, lineClearSeq>>
  BY DEF ClearLine, caller, object
<1>6. out' = [out EXCEPT ![d] = out[d]] /\ i' = [i EXCEPT ![t] = 1]
  BY <1>2, <1>4 DEF ClearLine, Types
<1>7. /\ bufLen(d) \in Nat /\ strSize(strBuf[d]) \in Nat
      /\ strSize(strBuf[d]) + 8 <= bufLen(d)
  <2>1. strSize(strBuf[d]) + 6 + 2 <= bufLen(d)
    BY <1>1, <1>2, BytesAre DEF Local, Room
  <2>2. strSize(strBuf[d]) \in Nat
    BY <1>2, SizeIsNat
  <2>3. bufLen(d) \in Nat
    BY <1>2, CallsAre
  <2>4. QED
    BY <2>1, <2>2, <2>3
<1>8. CASE n < lineTo(c) + 2
  <2> DEFINE s == strBuf[d] \o <<CLEARDOWN>>
             l == IF Full(d, s) THEN "flush" ELSE "lines"
  <2>1. /\ pc' = [pc EXCEPT ![t] = l] /\ strBuf' = [strBuf EXCEPT ![d] = s]
        /\ curLine' = [curLine EXCEPT ![t] = n + 1]
    BY <1>1, <1>2, <1>8 DEF ClearLine, Goto, Types
  <2>2. /\ s \in Seq(Item) /\ strSize(s) = strSize(strBuf[d]) + 6
        /\ out[d] \o s = Cleared(c, n + 1)
    <3> DEFINE o == out[d]
               a == strBuf[d]
               x == CLEARDOWN
    <3>1. o \in Seq(Item) /\ a \in Seq(Item) /\ x \in Item /\ s = a \o <<x>>
      BY <1>2, ItemsAre
    <3> HIDE DEF o, a, x, s
    <3>2. /\ s \in Seq(Item) /\ strSize(s) = strSize(strBuf[d]) + Bytes(CLEARDOWN)
          /\ out[d] \o s = Append(out[d] \o strBuf[d], CLEARDOWN)
      <4>1. s \in Seq(Item) /\ strSize(s) = strSize(a) + Bytes(x)
        BY <3>1, AddOne
      <4>2. o \o s = (o \o a) \o <<x>>
        BY <3>1, AddOne
      <4>3. o \o s = Append(o \o a, x)
        BY <3>1, AddOne
      <4>4. QED
        BY <4>1, <4>2, <4>3 DEF o, a, x
    <3>3. strSize(s) = strSize(strBuf[d]) + 6
      BY <3>2, BytesAre
    <3>4. c.from + 1 <= n
      BY <1>3, <1>4
    <3>5. Append(Cleared(c, n), CLEARDOWN) = Cleared(c, n + 1)
      BY <1>2, <1>3, <3>4, ClearedIs
    <3>6. out[d] \o s = Cleared(c, n + 1)
      BY <1>4, <3>2, <3>5
    <3>7. QED
      BY <3>2, <3>3, <3>6
  <2> HIDE DEF s
  <2>3. /\ pc'[t] = l /\ i'[t] = 1 /\ out'[d] = out[d] /\ hDisplay'[t] = d /\ call'[t] = c
        /\ strBuf'[d] = s /\ curLine'[t] = n + 1
    BY <1>2, <1>5, <1>6, <2>1 DEF Types
  <2>4. l \in {"flush", "lines"} /\ l \in PrintPlaces /\ n + 1 \in Nat /\ 1 \in Nat
    BY <1>2 DEF PrintPlaces
  <2>5. Places1(t)' /\ Fits(t)'
    BY <1>1, <1>2, <1>5, <2>3, <2>4, StaysPrinter
  <2>6. Places2(t)'
    BY <1>2, <2>3, <2>4 DEF Places2
  <2>7. Room(t)'
    <3>1. CASE Full(d, s)
      BY <2>3, <3>1 DEF Room
    <3>2. CASE ~Full(d, s)
      <4>1. strSize(s) + 6 + 2 <= bufLen(d)
        BY <1>7, <2>2, <3>2, BytesAre DEF Full
      <4>2. QED
        BY <2>3, <4>1, BytesAre DEF Room, bufLen
    <3>3. QED
      BY <3>1, <3>2
  <2>8. Progress(t)'
    <3>1. n + 1 \in (c.from + 1)..(lineTo(c) + 2)
      BY <1>3, <1>4, <1>8
    <3>2. Source(t)' = s
      BY <1>2, <2>3 DEF Source
    <3>3. SubSeq(s, 1, Len(s)) = s /\ 1 \in 1..(Len(s) + 1)
      BY <2>2, WholeIsLeft, SubSeqFull
    <3>4. CASE Full(d, s)
      <4>1. pc'[t] = "flush"
        BY <2>3, <3>4
      <4>2. QED
        BY <2>2, <2>3, <3>1, <3>2, <3>3, <4>1 DEF Progress
    <3>5. CASE ~Full(d, s)
      <4>1. pc'[t] = "lines"
        BY <2>3, <3>5
      <4>2. QED
        BY <2>2, <2>3, <3>1, <4>1 DEF Progress
    <3>6. QED
      BY <3>4, <3>5
  <2>9. strSize(s) + (IF Config[d].driver = "min" THEN 1 ELSE 0) <= bufLen(d)
    BY <1>2, <1>7, <2>2
  <2> HIDE DEF l
  <2>10. QED
    BY <1>1, <1>2, <1>5, <1>6, <2>1, <2>2, <2>4, <2>5, <2>6, <2>7, <2>8, <2>9, PrintStep DEF Local
<1>9. CASE ~(n < lineTo(c) + 2)
  <2> DEFINE s == strBuf[d] \o <<RESTOREPOS>>
  <2>1. /\ pc' = [pc EXCEPT ![t] = "write"] /\ strBuf' = [strBuf EXCEPT ![d] = s]
        /\ curLine' = [curLine EXCEPT ![t] = n]
    BY <1>1, <1>2, <1>9 DEF ClearLine, Goto, Types
  <2>2. n = lineTo(c) + 2
    BY <1>3, <1>4, <1>9
  <2>3. Rendered(t) = Cleared(c, n) \o <<RESTOREPOS>>
    <3>1. n - (c.from + 1) = Cardinality(c.from..c.to \cup {c.from})
      BY <1>3, <2>2, LinesCleared
    <3>2. QED
      BY <1>2, <3>1 DEF Rendered, Cleared
  <2>4. /\ s \in Seq(Item) /\ strSize(s) = strSize(strBuf[d]) + 2
        /\ out[d] \o s = Rendered(t)
    <3> DEFINE o == out[d]
               a == strBuf[d]
               x == RESTOREPOS
    <3>1. o \in Seq(Item) /\ a \in Seq(Item) /\ x \in Item /\ s = a \o <<x>>
      BY <1>2, ItemsAre
    <3> HIDE DEF o, a, x, s
    <3>2. /\ s \in Seq(Item) /\ strSize(s) = strSize(strBuf[d]) + Bytes(RESTOREPOS)
          /\ out[d] \o s = (out[d] \o strBuf[d]) \o <<RESTOREPOS>>
      <4>1. s \in Seq(Item) /\ strSize(s) = strSize(a) + Bytes(x)
        BY <3>1, AddOne
      <4>2. o \o s = (o \o a) \o <<x>>
        BY <3>1, AddOne
      <4>3. o \o s = Append(o \o a, x)
        BY <3>1, AddOne
      <4>4. QED
        BY <4>1, <4>2, <4>3 DEF o, a, x
    <3>3. strSize(s) = strSize(strBuf[d]) + 2
      BY <3>2, BytesAre
    <3>4. QED
      BY <1>4, <2>3, <3>2, <3>3
  <2> HIDE DEF s
  <2>5. /\ pc'[t] = "write" /\ i'[t] = 1 /\ out'[d] = out[d] /\ hDisplay'[t] = d /\ call'[t] = c
        /\ strBuf'[d] = s
    BY <1>2, <1>5, <1>6, <2>1 DEF Types
  <2>6. "write" \in PrintPlaces /\ 1 \in Nat
    BY DEF PrintPlaces
  <2>7. Places1(t)' /\ Fits(t)' /\ Rendered(t)' = Rendered(t)
    BY <1>1, <1>2, <1>5, <2>5, <2>6, StaysPrinter
  <2>8. Places2(t)' /\ Room(t)'
    BY <1>2, <2>5 DEF Places2, Room
  <2>9. Progress(t)'
    <3>1. Source(t)' = s
      BY <1>2, <2>5 DEF Source
    <3>2. SubSeq(s, 1, Len(s)) = s /\ 1 \in 1..(Len(s) + 1)
      BY <2>4, WholeIsLeft, SubSeqFull
    <3>3. QED
      BY <2>4, <2>5, <2>7, <3>1, <3>2 DEF Progress
  <2>10. strSize(s) + (IF Config[d].driver = "min" THEN 1 ELSE 0) <= bufLen(d)
    BY <1>2, <1>7, <2>4
  <2>11. QED
    BY <1>1, <1>2, <1>5, <1>6, <2>1, <2>4, <2>6, <2>7, <2>8, <2>9, <2>10, PrintStep DEF Local
<1>10. QED
  BY <1>8, <1>9

LEMMA SourceIs ==
    ASSUME NEW t \in Threads, strBuf[hDisplay[t]] \in Seq(Item)
    PROVE  Source(t) \in Seq(Item)
<1>1. <<INITIAL>> \in Seq(Item) /\ <<CLEARSCREEN>> \in Seq(Item)
  BY ItemsAre
<1>2. QED
  BY <1>1 DEF Source

LEMMA WriteKeeps ==
    ASSUME Inv, NEW t \in Threads, Write(t)
    PROVE  Inv'
<1> DEFINE d == hDisplay[t]
           s == Source(t)
           k == i[t]
<1>1. /\ pc[t] \in {"write", "flush"} /\ Prints(t) /\ pc[t] \in {"pend"} \cup PrintPlaces
      /\ k <= Len(s) /\ pc[t] \in PrintPlaces
  BY DEF Write, Prints, PrintPlaces
<1>2. /\ Types /\ Local(t) /\ d \in Displays /\ call[t] \in Calls /\ call[t] # NoCall
      /\ strBuf[d] \in Seq(Item) /\ out[d] \in Seq(Item) /\ k \in Nat /\ curLine[t] \in Nat
      /\ s \in Seq(Item)
  BY <1>1, PrinterIs, CallsAre, SourceIs
<1>3. /\ UNCHANGED <<call, hDisplay, handle, mutex, hUart, lineClearSeq>>
      /\ out' = [out EXCEPT ![d] = Append(out[d], s[k])]
      /\ i' = [i EXCEPT ![t] = k + 1] /\ pc' = [pc EXCEPT ![t] = pc[t]]
      /\ curLine' = [curLine EXCEPT ![t] = curLine[t]]
      /\ strBuf' = [strBuf EXCEPT ![d] = strBuf[d]]
  BY <1>2 DEF Write, Emit, caller, object, Types
<1>4. /\ pc'[t] = pc[t] /\ hDisplay'[t] = d /\ call'[t] = call[t] /\ strBuf'[d] = strBuf[d]
      /\ i'[t] = k + 1 /\ out'[d] = Append(out[d], s[k]) /\ curLine'[t] = curLine[t]
      /\ strBuf' = strBuf
  BY <1>2, <1>3 DEF Types
<1>5. k \in 1..(Len(s) + 1)
  BY <1>1, <1>2 DEF Local, Progress
<1>6. k \in 1..Len(s)
  BY <1>1, <1>2, <1>5
<1>7. /\ Append(out[d], s[k]) \o SubSeq(s, k + 1, Len(s)) = out[d] \o SubSeq(s, k, Len(s))
      /\ k + 1 \in 1..(Len(s) + 1)
      /\ Append(out[d], s[k]) \in Seq(Item)
  <2> HIDE DEF s, k
  <2>1. QED
    BY <1>2, <1>6, SendNext
<1>8. Source(t)' = s
  BY <1>4 DEF Source
<1>9. Places1(t)' /\ Fits(t)' /\ Rendered(t)' = Rendered(t)
  BY <1>1, <1>2, <1>3, <1>4, StaysPrinter
<1>10. Places2(t)' /\ Room(t)'
  BY <1>1, <1>2, <1>4 DEF Local, Places2, Room
<1>11. Progress(t)'
  <2> HIDE DEF s
  <2>1. CASE pc[t] = "write"
    <3>1. out[d] \o SubSeq(s, k, Len(s)) = Rendered(t)
      BY <1>2, <2>1 DEF Local, Progress, s
    <3>2. QED
      BY <1>4, <1>7, <1>8, <1>9, <2>1, <3>1 DEF Progress
  <2>2. CASE pc[t] = "flush"
    <3>1. /\ out[d] \o SubSeq(s, k, Len(s)) = Cleared(call[t], curLine[t])
          /\ curLine[t] \in (call[t].from + 1)..(lineTo(call[t]) + 2)
      BY <1>2, <2>2 DEF Local, Progress, s
    <3>2. QED
      BY <1>4, <1>7, <1>8, <2>2, <3>1 DEF Progress
  <2>3. QED
    BY <1>1, <2>1, <2>2
<1>12. strSize(strBuf[d]) + (IF Config[d].driver = "min" THEN 1 ELSE 0) <= bufLen(d)
  BY <1>2 DEF Inv, BufferHolds
<1>13. k + 1 \in Nat
  BY <1>2
<1> HIDE DEF s, k
<1>14. QED
  BY <1>1, <1>2, <1>3, <1>7, <1>9, <1>10, <1>11, <1>12, <1>13, PrintStep DEF Local

LEMMA WrittenKeeps ==
    ASSUME Inv, NEW t \in Threads, Written(t)
    PROVE  Inv'
<1> DEFINE d == hDisplay[t]
           s == Source(t)
           k == i[t]
<1>1. /\ pc[t] \in {"write", "flush"} /\ Prints(t) /\ pc[t] \in {"pend"} \cup PrintPlaces
      /\ k > Len(s) /\ pc[t] \in PrintPlaces
  BY DEF Written, Prints, PrintPlaces
<1>2. /\ Types /\ Local(t) /\ d \in Displays /\ call[t] \in Calls /\ call[t] # NoCall
      /\ strBuf[d] \in Seq(Item) /\ out[d] \in Seq(Item) /\ k \in Nat /\ curLine[t] \in Nat
      /\ s \in Seq(Item)
      /\ \/ call[t].op \in {"clear", "clearLines", "printf"}
         \/ call[t].op = "open" /\ pc[t] = "write"
  BY <1>1, PrinterIs, CallsAre, SourceIs
<1>3. out[d] \o SubSeq(s, k, Len(s)) = out[d]
  <2> HIDE DEF s, k
  <2>1. QED
    BY <1>1, <1>2, NothingLeft
<1>4. /\ UNCHANGED <<call, hDisplay, handle, mutex, hUart, lineClearSeq>>
      /\ i' = [i EXCEPT ![t] = 1] /\ curLine' = [curLine EXCEPT ![t] = curLine[t]]
      /\ curLine' = curLine
  BY <1>2 DEF Written, caller, object, Types
<1>5. CASE pc[t] = "flush"
  <2>1. call[t].op = "clearLines" /\ Config[d].driver = "ansi"
    BY <1>2, <1>5 DEF Local, Places2, PrintPlaces
  <2>2. /\ pc' = [pc EXCEPT ![t] = "lines"] /\ strBuf' = [strBuf EXCEPT ![d] = <<>>]
        /\ out' = [out EXCEPT ![d] = out[d]]
    BY <1>2, <1>5, <2>1 DEF Written, Goto, Types
  <2>3. /\ pc'[t] = "lines" /\ hDisplay'[t] = d /\ call'[t] = call[t] /\ strBuf'[d] = <<>>
        /\ i'[t] = 1 /\ out'[d] = out[d] /\ curLine'[t] = curLine[t]
    BY <1>2, <1>4, <2>2 DEF Types
  <2>4. Places1(t)' /\ Fits(t)'
    BY <1>1, <1>2, <1>4, <2>3, StaysPrinter DEF PrintPlaces
  <2>5. bufLen(d) \in Nat /\ bufLen(d) >= 23
    BY <1>2, <2>1, BuffersAre
  <2>6. Places2(t)' /\ Room(t)'
    BY <2>1, <2>3, <2>5, BytesAre, SizeOfEmpty DEF Places2, Room, bufLen
  <2>7. Progress(t)'
    <3>1. /\ out[d] = Cleared(call[t], curLine[t])
          /\ curLine[t] \in (call[t].from + 1)..(lineTo(call[t]) + 2)
      BY <1>2, <1>3, <1>5 DEF Local, Progress
    <3>2. out[d] \o <<>> = out[d]
      BY <1>2, ConcatEmptySeq
    <3>3. QED
      BY <2>3, <3>1, <3>2 DEF Progress
  <2>8. strSize(<<>>) + (IF Config[d].driver = "min" THEN 1 ELSE 0) <= bufLen(d)
    BY <2>1, <2>5, SizeOfEmpty
  <2>9. "lines" \in PrintPlaces /\ 1 \in Nat /\ <<>> \in Seq(Item)
    BY DEF PrintPlaces
  <2>10. QED
    BY <1>1, <1>2, <1>4, <2>2, <2>4, <2>6, <2>7, <2>8, <2>9, PrintStep DEF Local
<1>6. CASE pc[t] = "write" /\ call[t].op # "open"
  <2>1. /\ pc' = [pc EXCEPT ![t] = "post"] /\ strBuf' = [strBuf EXCEPT ![d] = strBuf[d]]
        /\ out' = [out EXCEPT ![d] = out[d]]
    BY <1>2, <1>6 DEF Written, Goto, Types
  <2>2. /\ pc'[t] = "post" /\ hDisplay'[t] = d /\ call'[t] = call[t] /\ out'[d] = out[d]
    BY <1>2, <1>4, <2>1 DEF Types
  <2>3. Places1(t)' /\ Fits(t)' /\ Rendered(t)' = Rendered(t)
    BY <1>1, <1>2, <1>4, <2>2, StaysPrinter DEF PrintPlaces
  <2>4. Places2(t)' /\ Room(t)'
    BY <1>2, <1>6, <2>2 DEF Local, Places2, PrintPlaces, Room
  <2>5. Progress(t)'
    <3>1. out[d] = Rendered(t)
      BY <1>2, <1>3, <1>6 DEF Local, Progress
    <3>2. QED
      BY <2>2, <2>3, <3>1 DEF Progress
  <2>6. strSize(strBuf[d]) + (IF Config[d].driver = "min" THEN 1 ELSE 0) <= bufLen(d)
    BY <1>2 DEF Inv, BufferHolds
  <2>7. "post" \in PrintPlaces /\ 1 \in Nat
    BY DEF PrintPlaces
  <2>8. QED
    BY <1>1, <1>2, <1>4, <2>1, <2>3, <2>4, <2>5, <2>6, <2>7, PrintStep DEF Local
<1>7. CASE pc[t] = "write" /\ call[t].op = "open"
  <2>1. /\ pc' = [pc EXCEPT ![t] = "return"] /\ out' = [out EXCEPT ![d] = <<>>] /\ strBuf' = strBuf
    BY <1>7 DEF Written, Goto
  <2>2. Opens(t)
    BY <1>7 DEF Opens
  <2>3. \A u \in Threads \ {t} : hDisplay[u] = NULL /\ ~Opens(u) /\ ~Prints(u)
    BY <2>2, AloneWhenOpening
  <2>4. pc'[t] = "return" /\ OthersKeep(t) /\ ~Prints(t)'
    BY <1>2, <1>4, <2>1 DEF Types, OthersKeep, Prints, PrintPlaces
  <2>5. Types'
    BY <1>2, <1>4, <2>1 DEF Types, Places
  <2>6. \A u \in Threads : ~Prints(u)'
    BY <2>3, <2>4 DEF OthersKeep, Prints
  <2>7. BufferHolds'
    BY <2>1 DEF Inv, BufferHolds
  <2>8. Handles'
    BY <1>4 DEF Inv, Handles, Opens
  <2>9. Holds'
    <3>1. ASSUME NEW e \in Displays PROVE out'[e] = <<>>
      <4>1. CASE e = d
        BY <1>2, <2>1, <4>1 DEF Types
      <4>2. CASE e # d
        <5>1. \A u \in Threads : Prints(u) => hDisplay[u] # e
          BY <2>3, <4>2
        <5>2. QED
          BY <1>2, <2>1, <4>2, <5>1 DEF Inv, Holds, Types
      <4>3. QED
        BY <4>1, <4>2
    <3>2. QED
      BY <2>6, <3>1 DEF Holds
  <2>10. Local(t)'
    <3>1. Places1(t)' /\ Places2(t)' /\ Fits(t)'
      BY <1>2, <1>4, <1>7, <2>4 DEF Places1, Places2, Fits, PrintPlaces
    <3>2. QED
      BY <2>4, <3>1, NoProgress DEF Local
  <2>11. ASSUME NEW u \in Threads PROVE Local(u)'
    <3>1. CASE u = t
      BY <2>10, <3>1
    <3>2. CASE u # t
      BY <2>3, <2>4, <3>2, LocalFrame DEF Inv, OthersKeep
    <3>3. QED
      BY <3>1, <3>2
  <2>12. QED
    BY <2>5, <2>7, <2>8, <2>9, <2>11 DEF Inv
<1>8. QED
  BY <1>1, <1>5, <1>6, <1>7

(* What is known where the characters are sent.                            *)
LEMMA CharsLeft ==
    ASSUME Inv, NEW t \in Threads, pc[t] \in {"char", "newline"}
    PROVE  LET d == hDisplay[t]
               s == strBuf[d]
               k == i[t] IN
           /\ Types /\ Local(t) /\ d \in Displays /\ call[t] \in Calls /\ call[t] # NoCall
           /\ call[t].op = "printf" /\ Config[d].driver = "min"
           /\ s \in Seq(Item) /\ out[d] \in Seq(Item) /\ k \in Nat /\ curLine[t] \in Nat
           /\ s = Shown(d, call[t].text) /\ k \in 1..(Len(s) + 1) /\ Len(s) \in Nat
           /\ k <= Len(s) =>
                 /\ Returned(SubSeq(s, 1, k)) = AddReturn(Returned(SubSeq(s, 1, k - 1)), s[k])
                 /\ Returned(SubSeq(s, 1, k - 1)) \in Seq(Item)
                 /\ s[k] \in Item /\ k + 1 \in 1..(Len(s) + 1) /\ (k + 1) - 1 = k
<1> DEFINE d == hDisplay[t]
           s == strBuf[d]
           k == i[t]
<1>1. pc[t] \in {"pend"} \cup PrintPlaces
  BY DEF PrintPlaces
<1>2. /\ Types /\ Local(t) /\ d \in Displays /\ call[t] \in Calls /\ call[t] # NoCall
      /\ s \in Seq(Item) /\ out[d] \in Seq(Item) /\ k \in Nat /\ curLine[t] \in Nat
  BY <1>1, PrinterIs, CallsAre
<1>3. call[t].op = "printf" /\ Config[d].driver = "min"
  BY <1>2 DEF Local, Places2
<1>4. s = Shown(d, call[t].text) /\ k \in 1..(Len(s) + 1)
  BY <1>2 DEF Local, Progress
<1>5. Len(s) \in Nat
  BY <1>2
<1> HIDE DEF s, k
<1>6. ASSUME k <= Len(s)
      PROVE  /\ Returned(SubSeq(s, 1, k)) = AddReturn(Returned(SubSeq(s, 1, k - 1)), s[k])
             /\ Returned(SubSeq(s, 1, k - 1)) \in Seq(Item)
             /\ s[k] \in Item /\ k + 1 \in 1..(Len(s) + 1) /\ (k + 1) - 1 = k
  <2>1. k \in 1..Len(s) /\ k + 1 \in 1..(Len(s) + 1) /\ (k + 1) - 1 = k
    BY <1>2, <1>4, <1>5, <1>6
  <2>2. s[k] \in Item
    BY <1>2, <2>1
  <2>3. QED
    BY <1>2, <2>1, <2>2, ReturnedOfPrefix, ItemsAre
<1>7. QED
  BY <1>2, <1>3, <1>4, <1>5, <1>6 DEF s, k

LEMMA WriteCharKeeps ==
    ASSUME Inv, NEW t \in Threads, WriteChar(t)
    PROVE  Inv'
<1> DEFINE d == hDisplay[t]
           s == strBuf[d]
           k == i[t]
           r == Returned(SubSeq(s, 1, k - 1))
<1>1. /\ pc[t] = "char" /\ Prints(t) /\ pc[t] \in {"pend"} \cup PrintPlaces
      /\ pc[t] \in {"char", "newline"} /\ k <= Len(s)
  BY DEF WriteChar, Prints, PrintPlaces
<1>2. /\ Types /\ Local(t) /\ d \in Displays /\ call[t] \in Calls /\ call[t] # NoCall
      /\ call[t].op = "printf" /\ Config[d].driver = "min"
      /\ s \in Seq(Item) /\ out[d] \in Seq(Item) /\ k \in Nat /\ curLine[t] \in Nat
      /\ s = Shown(d, call[t].text) /\ k \in 1..(Len(s) + 1)
      /\ Returned(SubSeq(s, 1, k)) = AddReturn(r, s[k]) /\ r \in Seq(Item)
      /\ s[k] \in Item /\ k + 1 \in 1..(Len(s) + 1) /\ (k + 1) - 1 = k
  BY <1>1, CharsLeft
<1>3. out[d] = r
  BY <1>1, <1>2 DEF Local, Progress
<1>4. /\ UNCHANGED <<call, hDisplay, handle, mutex, hUart, lineClearSeq>>
      /\ curLine' = [curLine EXCEPT ![t] = curLine[t]]
      /\ strBuf' = [strBuf EXCEPT ![d] = s] /\ strBuf' = strBuf
  BY <1>2 DEF WriteChar, caller, object, Types
<1>5. strSize(s) + (IF Config[d].driver = "min" THEN 1 ELSE 0) <= bufLen(d)
  BY <1>2 DEF Inv, BufferHolds
<1>6. CASE s[k] = LF
  <2>1. /\ pc' = [pc EXCEPT ![t] = "newline"] /\ i' = [i EXCEPT ![t] = k]
        /\ out' = [out EXCEPT ![d] = Append(r, CR)]
    BY <1>2, <1>3, <1>6 DEF WriteChar, Goto, Emit, Types
  <2>2. /\ pc'[t] = "newline" /\ hDisplay'[t] = d /\ call'[t] = call[t] /\ i'[t] = k
        /\ out'[d] = Append(r, CR) /\ strBuf'[d] = s
    BY <1>2, <1>4, <2>1 DEF Types
  <2>3. Places1(t)' /\ Fits(t)'
    BY <1>1, <1>2, <1>4, <2>2, StaysPrinter DEF PrintPlaces
  <2>4. Places2(t)' /\ Room(t)'
    BY <1>2, <2>2 DEF Places2, Room
  <2>5. Progress(t)'
    <3> HIDE DEF s, k
    <3>1. QED
      BY <1>1, <1>2, <1>6, <2>2 DEF Progress
  <2>6. "newline" \in PrintPlaces /\ Append(r, CR) \in Seq(Item)
    BY <1>2, ItemsAre, AppendProperties DEF PrintPlaces
  <2> HIDE DEF s, k, r
  <2>7. QED
    BY <1>1, <1>2, <1>4, <1>5, <2>1, <2>3, <2>4, <2>5, <2>6, PrintStep DEF Local
<1>7. CASE s[k] # LF
  <2>1. /\ pc' = [pc EXCEPT ![t] = "char"] /\ i' = [i EXCEPT ![t] = k + 1]
        /\ out' = [out EXCEPT ![d] = Append(r, s[k])]
    BY <1>1, <1>2, <1>3, <1>7 DEF WriteChar, Goto, Emit, Types
  <2>2. /\ pc'[t] = "char" /\ hDisplay'[t] = d /\ call'[t] = call[t] /\ i'[t] = k + 1
        /\ out'[d] = Append(r, s[k]) /\ strBuf'[d] = s
    BY <1>2, <1>4, <2>1 DEF Types
  <2>3. Places1(t)' /\ Fits(t)'
    BY <1>1, <1>2, <1>4, <2>2, StaysPrinter DEF PrintPlaces
  <2>4. Places2(t)' /\ Room(t)'
    BY <1>2, <2>2 DEF Places2, Room
  <2>5. Append(r, s[k]) = Returned(SubSeq(s, 1, k))
    BY <1>2, <1>7 DEF AddReturn
  <2>6. Progress(t)'
    <3> HIDE DEF s, k
    <3>1. QED
      BY <1>2, <2>2, <2>5 DEF Progress
  <2>7. "char" \in PrintPlaces /\ Append(r, s[k]) \in Seq(Item) /\ k + 1 \in Nat
    BY <1>2, AppendProperties DEF PrintPlaces
  <2> HIDE DEF s, k, r
  <2>8. QED
    BY <1>1, <1>2, <1>4, <1>5, <2>1, <2>3, <2>4, <2>6, <2>7, PrintStep DEF Local
<1>8. QED
  BY <1>6, <1>7

LEMMA WriteNewlineKeeps ==
    ASSUME Inv, NEW t \in Threads, WriteNewline(t)
    PROVE  Inv'
<1> DEFINE d == hDisplay[t]
           s == strBuf[d]
           k == i[t]
           r == Returned(SubSeq(s, 1, k - 1))
<1>1. /\ pc[t] = "newline" /\ Prints(t) /\ pc[t] \in {"pend"} \cup PrintPlaces
      /\ pc[t] \in {"char", "newline"}
  BY DEF WriteNewline, Prints, PrintPlaces
<1>2. Local(t)
  BY DEF Inv
<1>3. k <= Len(s) /\ s[k] = LF /\ out[d] = Append(r, CR)
  BY <1>1, <1>2 DEF Local, Progress
<1>4. /\ Types /\ d \in Displays /\ call[t] \in Calls /\ call[t] # NoCall
      /\ call[t].op = "printf" /\ Config[d].driver = "min"
      /\ s \in Seq(Item) /\ out[d] \in Seq(Item) /\ k \in Nat /\ curLine[t] \in Nat
      /\ s = Shown(d, call[t].text) /\ k \in 1..(Len(s) + 1)
      /\ Returned(SubSeq(s, 1, k)) = AddReturn(r, s[k]) /\ r \in Seq(Item)
      /\ s[k] \in Item /\ k + 1 \in 1..(Len(s) + 1) /\ (k + 1) - 1 = k
  BY <1>1, <1>3, CharsLeft
<1>5. /\ UNCHANGED <<call, hDisplay, handle, mutex, hUart, lineClearSeq>>
      /\ curLine' = [curLine EXCEPT ![t] = curLine[t]]
      /\ strBuf' = [strBuf EXCEPT ![d] = s] /\ strBuf' = strBuf
      /\ pc' = [pc EXCEPT ![t] = "char"] /\ i' = [i EXCEPT ![t] = k + 1]
      /\ out' = [out EXCEPT ![d] = Append(Append(r, CR), LF)]
  BY <1>3, <1>4 DEF WriteNewline, Goto, Emit, caller, object, Types
<1>6. strSize(s) + (IF Config[d].driver = "min" THEN 1 ELSE 0) <= bufLen(d)
  BY <1>4 DEF Inv, BufferHolds
<1>7. /\ pc'[t] = "char" /\ hDisplay'[t] = d /\ call'[t] = call[t] /\ i'[t] = k + 1
      /\ out'[d] = Append(Append(r, CR), LF) /\ strBuf'[d] = s
  BY <1>4, <1>5 DEF Types
<1>8. Places1(t)' /\ Fits(t)'
  BY <1>1, <1>2, <1>4, <1>5, <1>7, StaysPrinter DEF PrintPlaces
<1>9. Places2(t)' /\ Room(t)'
  BY <1>4, <1>7 DEF Places2, Room
<1>10. /\ Append(Append(r, CR), LF) = Returned(SubSeq(s, 1, k))
       /\ Append(Append(r, CR), LF) \in Seq(Item)
  <2>1. Returned(SubSeq(s, 1, k)) = r \o <<CR, LF>>
    BY <1>3, <1>4 DEF AddReturn
  <2> HIDE DEF r
  <2>2. CR \in Item /\ LF \in Item
    BY ItemsAre
  <2>3. ASSUME NEW x \in Item, NEW y \in Item
        PROVE  /\ Append(Append(r, x), y) = r \o <<x, y>>
               /\ Append(Append(r, x), y) \in Seq(Item)
    BY <1>4
  <2>4. QED
    BY <2>1, <2>2, <2>3
<1>11. Progress(t)'
  <2> HIDE DEF s, k
  <2>1. QED
    BY <1>4, <1>7, <1>10 DEF Progress
<1>12. "char" \in PrintPlaces /\ k + 1 \in Nat
  BY <1>4 DEF PrintPlaces
<1> HIDE DEF s, k, r
<1>13. QED
  BY <1>1, <1>4, <1>5, <1>6, <1>8, <1>9, <1>10, <1>11, <1>12, PrintStep DEF Local

LEMMA CharsWrittenKeeps ==
    ASSUME Inv, NEW t \in Threads, CharsWritten(t)
    PROVE  Inv'
<1> DEFINE d == hDisplay[t]
           s == strBuf[d]
           k == i[t]
<1>1. /\ pc[t] = "char" /\ Prints(t) /\ pc[t] \in {"pend"} \cup PrintPlaces
      /\ pc[t] \in {"char", "newline"} /\ k > Len(s)
  BY DEF CharsWritten, Prints, PrintPlaces
<1>2. /\ Types /\ Local(t) /\ d \in Displays /\ call[t] \in Calls /\ call[t] # NoCall
      /\ call[t].op = "printf" /\ Config[d].driver = "min"
      /\ s \in Seq(Item) /\ out[d] \in Seq(Item) /\ k \in Nat /\ curLine[t] \in Nat
      /\ s = Shown(d, call[t].text) /\ k \in 1..(Len(s) + 1) /\ Len(s) \in Nat
  BY <1>1, CharsLeft
<1>3. out[d] = Returned(SubSeq(s, 1, k - 1))
  BY <1>1, <1>2 DEF Local, Progress
<1>4. out[d] = Rendered(t)
  <2>1. k - 1 = Len(s)
    BY <1>1, <1>2
  <2>2. SubSeq(s, 1, Len(s)) = s
    BY <1>2, SubSeqFull
  <2>3. Rendered(t) = Returned(s)
    BY <1>2 DEF Rendered, Returned
  <2>4. QED
    BY <1>3, <2>1, <2>2, <2>3
<1>5. /\ UNCHANGED <<call, hDisplay, handle, mutex, hUart, lineClearSeq>>
      /\ curLine' = [curLine EXCEPT ![t] = curLine[t]] /\ i' = [i EXCEPT ![t] = k]
      /\ strBuf' = [strBuf EXCEPT ![d] = s] /\ pc' = [pc EXCEPT ![t] = "post"]
      /\ out' = [out EXCEPT ![d] = out[d]]
  BY <1>2 DEF CharsWritten, Goto, caller, loops, object, Types
<1>6. strSize(s) + (IF Config[d].driver = "min" THEN 1 ELSE 0) <= bufLen(d)
  BY <1>2 DEF Inv, BufferHolds
<1>7. pc'[t] = "post" /\ hDisplay'[t] = d /\ call'[t] = call[t] /\ out'[d] = out[d]
  BY <1>2, <1>5 DEF Types
<1>8. Places1(t)' /\ Fits(t)' /\ Rendered(t)' = Rendered(t)
  BY <1>1, <1>2, <1>5, <1>7, StaysPrinter DEF PrintPlaces
<1>9. Places2(t)' /\ Room(t)'
  BY <1>2, <1>7 DEF Places2, PrintPlaces, Room
<1>10. Progress(t)'
  BY <1>4, <1>7, <1>8 DEF Progress
<1>11. "post" \in PrintPlaces
  BY DEF PrintPlaces
<1>12. QED
  BY <1>1, <1>2, <1>5, <1>6, <1>8, <1>9, <1>10, <1>11, PrintStep DEF Local

-----------------------------------------------------------------------------
(* The theorems.                                                           *)

LEMMA InvHoldsAtFirst ==
    ASSUME Init
    PROVE  Inv
<1>1. /\ pc = [t \in Threads |-> "idle"] /\ call = [t \in Threads |-> NoCall]
      /\ hDisplay = [t \in Threads |-> NULL]
      /\ i = [t \in Threads |-> 0] /\ curLine = [t \in Threads |-> 0]
      /\ handle = NULL
      /\ mutex = [d \in Displays |-> NULL] /\ hUart = [d \in Displays |-> FALSE]
      /\ lineClearSeq = [d \in Displays |-> "none"]
      /\ strBuf = [d \in Displays |-> <<>>] /\ out = [d \in Displays |-> <<>>]
  BY DEF Init
<1>2. Types
  <2>1. "idle" \in Places /\ "none" \in Modes
    BY DEF Places, Modes
  <2>2. <<>> \in Seq(Item)
    OBVIOUS
  <2>3. QED
    BY <1>1, <2>1, <2>2 DEF Types
<1>3. BufferHolds
  <2>1. ASSUME NEW d \in Displays
        PROVE  strSize(strBuf[d]) + (IF Config[d].driver = "min" THEN 1 ELSE 0) <= bufLen(d)
    <3>1. strSize(strBuf[d]) = 0
      BY <1>1, SizeOfEmpty
    <3>2. QED
      BY <3>1, BuffersAre
  <2>2. QED
    BY <2>1 DEF BufferHolds
<1>4. ASSUME NEW t \in Threads PROVE pc[t] = "idle" /\ call[t] = NoCall /\ hDisplay[t] = NULL
  BY <1>1
<1>5. \A t \in Threads : ~Prints(t) /\ ~Opens(t)
  BY <1>4, CallsAre DEF Prints, PrintPlaces, Opens
<1>6. Handles
  BY <1>4, <1>5 DEF Handles
<1>7. Holds
  BY <1>1, <1>5 DEF Holds
<1>8. ASSUME NEW t \in Threads PROVE Local(t)
  <2>1. Places1(t) /\ Places2(t) /\ Fits(t)
    BY <1>4 DEF Places1, Places2, Fits, PrintPlaces
  <2>2. Progress(t) /\ Room(t)
    BY <1>4 DEF Progress, Room
  <2>3. QED
    BY <2>1, <2>2 DEF Local
<1>9. QED
  BY <1>2, <1>3, <1>6, <1>7, <1>8 DEF Inv

LEMMA InvIsKept ==
    ASSUME Inv, [Next]_vars
    PROVE  Inv'
<1>1. ASSUME NEW t \in Threads, Call(t) \/ Pend(t) \/ Runs(t) PROVE Inv'
  <2>1. CASE Call(t)
    BY <2>1, CallKeeps
  <2>2. CASE Pend(t)
    BY <2>2, PendKeeps
  <2>3. CASE Return(t) \/ TryDisplay(t) \/ CreateMutex(t) \/ OpenUart(t) \/ Close(t)
    BY <2>3, ReturnKeeps, TryDisplayKeeps, CreateMutexKeeps, OpenUartKeeps, CloseKeeps
  <2>4. CASE PendTimeout(t) \/ Format(t) \/ ClearLine(t) \/ Write(t) \/ Written(t)
    BY <2>4, PendTimeoutKeeps, FormatKeeps, ClearLineKeeps, WriteKeeps, WrittenKeeps
  <2>5. CASE WriteChar(t) \/ WriteNewline(t) \/ CharsWritten(t) \/ Post(t)
    BY <2>5, WriteCharKeeps, WriteNewlineKeeps, CharsWrittenKeeps, PostKeeps
  <2>6. QED
    BY <1>1, <2>1, <2>2, <2>3, <2>4, <2>5 DEF Runs
<1>2. CASE UNCHANGED vars
  <2>1. /\ UNCHANGED <<pc, call, hDisplay, i, curLine, handle, mutex, hUart, lineClearSeq>>
        /\ UNCHANGED <<strBuf, out>>
    BY <1>2 DEF vars
  <2>2. Types'
    BY <2>1 DEF Inv, Types
  <2>3. BufferHolds' /\ Handles' /\ Holds'
    BY <2>1 DEF Inv, BufferHolds, Handles, Holds, Opens, Prints
  <2>4. \A t \in Threads : Local(t)'
    BY <2>1, LocalFrame DEF Inv
  <2>5. QED
    BY <2>2, <2>3, <2>4 DEF Inv
<1>3. QED
  BY <1>1, <1>2 DEF Next

(* Who is where and with what, who holds the mutex, and that what was sent *)
(* and what is left to send are what the call asked for.                   *)
THEOREM DisplayInvariant == Spec => []Inv
<1>1. Init => Inv
  BY InvHoldsAtFirst
<1>2. Inv /\ [Next]_vars => Inv'
  BY InvIsKept
<1>3. QED
  BY <1>1, <1>2, PTL DEF Spec

(* What the drivers put together fits the buffer of the display: on a      *)
(* plain UART whatever the text; on a terminal whatever lines are cleared, *)
(* and each text its caller keeps short enough (Allowed), which nothing in *)
(* the driver makes sure of.                                               *)
THEOREM BufferInvariant == Spec => []BufferHolds
<1>1. Inv => BufferHolds
  BY DEF Inv
<1>2. QED
  BY <1>1, DisplayInvariant, PTL

-----------------------------------------------------------------------------
(* What was sent is a start of what is to be sent.                         *)

StartOf(o, r) == \E x \in Seq(Item) : r = o \o x

LEMMA StartIsPrefix ==
    ASSUME NEW o \in Seq(Item), NEW r, StartOf(o, r)
    PROVE  IsPrefix(o, r)
<1>1. PICK x \in Seq(Item) : r = o \o x
  BY DEF StartOf
<1>2. Len(o) \in Nat /\ Len(x) \in Nat /\ r \in Seq(Item) /\ Len(r) = Len(o) + Len(x)
  BY <1>1, ConcatProperties
<1>3. \A k \in 1..Len(o) : r[k] = o[k]
  <2>1. \A k \in 1..(Len(o) + Len(x)) : (o \o x)[k] = IF k <= Len(o) THEN o[k] ELSE x[k - Len(o)]
    BY ConcatProperties
  <2>2. QED
    BY <1>1, <1>2, <2>1
<1>4. SubSeq(r, 1, Len(o)) = SubSeq(o, 1, Len(o))
  <2> DEFINE a == SubSeq(r, 1, Len(o))
             b == SubSeq(o, 1, Len(o))
  <2>1. a \in Seq(Item) /\ Len(a) = Len(o) /\ \A k \in 1..Len(o) : a[k] = r[k]
    BY <1>2
  <2>2. b \in Seq(Item) /\ Len(b) = Len(o) /\ \A k \in 1..Len(o) : b[k] = o[k]
    BY <1>2
  <2> HIDE DEF a, b
  <2>3. a = b
    BY <1>3, <2>1, <2>2, SeqEqual
  <2>4. QED
    BY <2>3 DEF a, b
<1>5. QED
  BY <1>2, <1>4 DEF IsPrefix

LEMMA StartOfStart ==
    ASSUME NEW o \in Seq(Item), NEW p \in Seq(Item), NEW r, StartOf(o, p), StartOf(p, r)
    PROVE  StartOf(o, r)
<1>1. PICK x \in Seq(Item) : p = o \o x
  BY DEF StartOf
<1>2. PICK y \in Seq(Item) : r = p \o y
  BY DEF StartOf
<1>3. r = o \o (x \o y) /\ x \o y \in Seq(Item)
  BY <1>1, <1>2, ConcatAssociative, ConcatProperties
<1>4. QED
  BY <1>3 DEF StartOf

LEMMA AppendStarts ==
    ASSUME NEW o \in Seq(Item), NEW x \in Item
    PROVE  StartOf(o, Append(o, x)) /\ StartOf(o, o)
<1>1. Append(o, x) = o \o <<x>> /\ <<x>> \in Seq(Item)
  BY AppendIsConcat
<1>2. o = o \o <<>> /\ <<>> \in Seq(Item)
  BY ConcatEmptySeq
<1>3. QED
  BY <1>1, <1>2 DEF StartOf

(* The start of a text becomes the start of what is made of it.            *)
LEMMA ReturnedStarts ==
    ASSUME NEW s \in Seq(Item), NEW k \in Nat, k <= Len(s)
    PROVE  StartOf(Returned(SubSeq(s, 1, k)), Returned(s))
<1> DEFINE R(j) == Returned(SubSeq(s, 1, j))
           T == {j \in Nat : k + j <= Len(s) => StartOf(R(k), R(k + j))}
<1>1. ASSUME NEW j \in Nat, j <= Len(s) PROVE R(j) \in Seq(Item)
  <2>1. SubSeq(s, 1, j) \in Seq(Item)
    BY <1>1
  <2>2. QED
    BY <2>1, ReturnedIsSeq, ItemsAre
<1>2. 0 \in T
  <2>1. k + 0 = k /\ StartOf(R(k), R(k))
    BY <1>1, AppendStarts, ItemsAre
  <2> HIDE DEF R
  <2>2. QED
    BY <2>1
<1>3. ASSUME NEW j \in Nat, j \in T PROVE j + 1 \in T
  <2> SUFFICES ASSUME k + (j + 1) <= Len(s)
               PROVE  StartOf(R(k), R(k + (j + 1)))
    OBVIOUS
  <2> DEFINE n == k + (j + 1)
  <2>1. /\ n \in 1..Len(s) /\ n - 1 = k + j /\ n - 1 \in Nat /\ n - 1 <= Len(s) /\ n \in Nat
        /\ k + j <= Len(s) /\ s[n] \in Item
    OBVIOUS
  <2>2. R(n) = AddReturn(R(n - 1), s[n])
    <3> HIDE DEF n
    <3>1. QED
      BY <2>1, ReturnedOfPrefix, ItemsAre
  <2>3. R(n - 1) \in Seq(Item) /\ R(k) \in Seq(Item)
    BY <1>1, <2>1
  <2>4. StartOf(R(k), R(n - 1))
    BY <1>3, <2>1
  <2>5. StartOf(R(n - 1), R(n))
    <3> DEFINE a == R(n - 1)
    <3>1. a \in Seq(Item) /\ R(n) = AddReturn(a, s[n])
      BY <2>2, <2>3
    <3> HIDE DEF a, R, n
    <3>2. <<CR, LF>> \in Seq(Item)
      BY ItemsAre
    <3>3. StartOf(a, a \o <<CR, LF>>)
      BY <3>2 DEF StartOf
    <3>4. StartOf(a, AddReturn(a, s[n]))
      BY <2>1, <3>1, <3>3, AppendStarts DEF AddReturn
    <3>5. QED
      BY <3>1, <3>4 DEF a
  <2> HIDE DEF R, n
  <2>6. StartOf(R(k), R(n))
    BY <2>3, <2>4, <2>5, StartOfStart
  <2>7. QED
    BY <2>6 DEF n
<1> HIDE DEF T
<1>4. Len(s) - k \in T
  <2>1. Len(s) - k \in Nat
    OBVIOUS
  <2>2. QED
    BY <1>2, <1>3, <2>1, Induction
<1>5. StartOf(R(k), R(k + (Len(s) - k)))
  <2>1. k + (Len(s) - k) <= Len(s)
    OBVIOUS
  <2> HIDE DEF R
  <2>2. QED
    BY <1>4, <2>1 DEF T
<1>6. k + (Len(s) - k) = Len(s) /\ SubSeq(s, 1, Len(s)) = s
  OBVIOUS
<1>7. QED
  BY <1>5, <1>6

(* Fewer lines cleared are a start of more.                                *)
LEMMA ClearedStarts ==
    ASSUME NEW c, c.from \in Nat, NEW l \in Nat, c.from + 1 <= l, NEW m \in Nat, l <= m
    PROVE  StartOf(Cleared(c, l), Cleared(c, m))
<1> DEFINE T == {j \in Nat : StartOf(Cleared(c, l), Cleared(c, l + j))}
<1>1. \A j \in Nat : l + j \in Nat /\ c.from + 1 <= l + j
  OBVIOUS
<1>2. \A j \in Nat : Cleared(c, l + j) \in Seq(Item)
  BY <1>1, ClearedIs
<1>3. 0 \in T
  <2>1. l + 0 = l
    OBVIOUS
  <2>2. Cleared(c, l) \in Seq(Item)
    BY ClearedIs
  <2>3. StartOf(Cleared(c, l), Cleared(c, l))
    BY <2>2, AppendStarts, ItemsAre
  <2>4. QED
    BY <2>1, <2>3
<1>4. ASSUME NEW j \in Nat, j \in T PROVE j + 1 \in T
  <2>1. Append(Cleared(c, l + j), CLEARDOWN) = Cleared(c, (l + j) + 1)
    BY <1>1, ClearedIs
  <2>2. (l + j) + 1 = l + (j + 1) /\ j + 1 \in Nat
    OBVIOUS
  <2>3. StartOf(Cleared(c, l + j), Cleared(c, l + (j + 1)))
    BY <1>2, <2>1, <2>2, AppendStarts, ItemsAre
  <2>4. Cleared(c, l) \in Seq(Item) /\ Cleared(c, l + j) \in Seq(Item)
    BY <1>2, ClearedIs
  <2>5. StartOf(Cleared(c, l), Cleared(c, l + j))
    BY <1>4
  <2>6. StartOf(Cleared(c, l), Cleared(c, l + (j + 1)))
    BY <2>3, <2>4, <2>5, StartOfStart
  <2>7. QED
    BY <2>2, <2>6
<1> HIDE DEF T
<1>5. m - l \in T
  <2>1. m - l \in Nat
    OBVIOUS
  <2>2. QED
    BY <1>3, <1>4, <2>1, Induction
<1>6. l + (m - l) = m
  OBVIOUS
<1>7. QED
  BY <1>5, <1>6 DEF T

(* The prefix that was sent, in each place.                                *)
LEMMA SentIsStart ==
    ASSUME Inv, NEW t \in Threads,
           pc[t] \in {"lines", "write", "flush", "char", "newline"}
    PROVE  StartOf(out[hDisplay[t]], Rendered(t))
<1> DEFINE d == hDisplay[t]
           c == call[t]
<1>1. pc[t] \in {"pend"} \cup PrintPlaces
  BY DEF PrintPlaces
<1>2. /\ Types /\ Local(t) /\ d \in Displays /\ strBuf[d] \in Seq(Item) /\ out[d] \in Seq(Item)
      /\ i[t] \in Nat /\ curLine[t] \in Nat
  BY <1>1, PrinterIs
<1>3. CASE pc[t] \in {"lines", "flush"}
  <2> DEFINE n == curLine[t]
             m == lineTo(c) + 2
  <2>1. c.op = "clearLines"
    BY <1>2, <1>3 DEF Local, Places2
  <2>2. c.from \in Nat /\ c.to \in Nat /\ lineTo(c) \in Nat
    BY <1>1, <2>1, PrinterIs, LinesCleared
  <2>3. n \in (c.from + 1)..m
    BY <1>2, <1>3 DEF Local, Progress
  <2>4. n \in Nat /\ m \in Nat /\ c.from + 1 <= n /\ n <= m /\ c.from + 1 <= m
    BY <1>2, <2>2, <2>3
  <2> HIDE DEF n, m
  <2>5. StartOf(out[d], Cleared(c, n))
    <3>1. CASE pc[t] = "lines"
      <4>1. out[d] \o strBuf[d] = Cleared(c, n)
        BY <1>2, <3>1 DEF Local, Progress, n
      <4>2. QED
        BY <1>2, <4>1 DEF StartOf
    <3>2. CASE pc[t] = "flush"
      <4> DEFINE x == SubSeq(strBuf[d], i[t], Len(strBuf[d]))
      <4>1. Source(t) = strBuf[d]
        BY <2>1 DEF Source
      <4>2. out[d] \o x = Cleared(c, n) /\ i[t] \in 1..(Len(strBuf[d]) + 1)
        BY <1>2, <3>2, <4>1 DEF Local, Progress, n
      <4>3. x \in Seq(Item)
        BY <1>2, <4>2
      <4> HIDE DEF x
      <4>4. QED
        BY <4>2, <4>3 DEF StartOf
    <3>3. QED
      BY <1>3, <3>1, <3>2
  <2>6. StartOf(Cleared(c, n), Cleared(c, m))
    BY <2>2, <2>4, ClearedStarts
  <2>7. Rendered(t) = Cleared(c, m) \o <<RESTOREPOS>>
    <3>1. m - (c.from + 1) = Cardinality(c.from..c.to \cup {c.from})
      BY <2>2, LinesCleared DEF m
    <3>2. QED
      BY <2>1, <3>1 DEF Rendered, Cleared
  <2>8. Cleared(c, n) \in Seq(Item) /\ Cleared(c, m) \in Seq(Item)
    BY <2>2, <2>4, ClearedIs
  <2>9. StartOf(Cleared(c, m), Rendered(t))
    <3>1. <<RESTOREPOS>> \in Seq(Item)
      BY ItemsAre
    <3>2. QED
      BY <2>7, <3>1 DEF StartOf
  <2>10. StartOf(out[d], Cleared(c, m))
    BY <1>2, <2>5, <2>6, <2>8, StartOfStart
  <2>11. QED
    BY <1>2, <2>8, <2>9, <2>10, StartOfStart
<1>4. CASE pc[t] = "write"
  <2> DEFINE s == Source(t)
             x == SubSeq(s, i[t], Len(s))
  <2>1. s \in Seq(Item)
    BY <1>2, SourceIs
  <2>2. out[d] \o x = Rendered(t) /\ i[t] \in 1..(Len(s) + 1)
    BY <1>2, <1>4 DEF Local, Progress
  <2> HIDE DEF s
  <2>3. x \in Seq(Item)
    BY <2>1, <2>2
  <2> HIDE DEF x
  <2>4. QED
    BY <2>2, <2>3 DEF StartOf
<1>5. CASE pc[t] \in {"char", "newline"}
  <2> DEFINE s == strBuf[d]
             k == i[t]
             r == Returned(SubSeq(s, 1, k - 1))
  <2>1. /\ c.op = "printf" /\ Config[d].driver = "min" /\ s = Shown(d, c.text)
        /\ k \in 1..(Len(s) + 1) /\ Len(s) \in Nat /\ s \in Seq(Item) /\ k \in Nat
    BY <1>5, CharsLeft
  <2>2. Rendered(t) = Returned(s)
    BY <2>1 DEF Rendered, Returned
  <2>3. CASE pc[t] = "char"
    <3>1. out[d] = r
      BY <1>2, <2>3 DEF Local, Progress
    <3>2. k - 1 \in Nat /\ k - 1 <= Len(s)
      BY <2>1
    <3> HIDE DEF s, k
    <3>3. StartOf(r, Returned(s))
      BY <2>1, <3>2, ReturnedStarts
    <3>4. QED
      BY <2>2, <3>1, <3>3
  <2>4. CASE pc[t] = "newline"
    <3>1. k <= Len(s) /\ s[k] = LF /\ out[d] = Append(r, CR)
      BY <1>2, <2>4 DEF Local, Progress
    <3>2. Returned(SubSeq(s, 1, k)) = AddReturn(r, s[k]) /\ r \in Seq(Item)
      BY <1>5, <3>1, CharsLeft
    <3> HIDE DEF r, s, k
    <3>3. CR \in Item /\ LF \in Item
      BY ItemsAre
    <3>4. ASSUME NEW x \in Item, NEW y \in Item
          PROVE  /\ r \o <<x, y>> = Append(Append(r, x), y) /\ Append(r, x) \in Seq(Item)
                 /\ Append(Append(r, x), y) \in Seq(Item)
      BY <3>2
    <3>5. Returned(SubSeq(s, 1, k)) = Append(out[d], LF)
      BY <3>1, <3>2, <3>3, <3>4 DEF AddReturn
    <3>6. StartOf(out[d], Append(out[d], LF)) /\ Append(out[d], LF) \in Seq(Item)
      BY <1>2, <3>3, AppendStarts, AppendProperties
    <3>7. StartOf(Returned(SubSeq(s, 1, k)), Returned(s))
      BY <2>1, <3>1, ReturnedStarts
    <3>8. QED
      BY <1>2, <2>2, <3>5, <3>6, <3>7, StartOfStart
  <2>5. QED
    BY <1>5, <2>3, <2>4
<1>6. QED
  BY <1>3, <1>4, <1>5

LEMMA RenderedIs ==
    ASSUME Inv, NEW t \in Threads, pc[t] \in {"format"}
    PROVE  Rendered(t) \in Seq(Item)
<1> DEFINE d == hDisplay[t]
           c == call[t]
<1>1. pc[t] \in {"pend"} \cup PrintPlaces /\ pc[t] # "write"
  BY DEF PrintPlaces
<1>2. /\ Local(t) /\ d \in Displays /\ lineClearSeq[d] \in Modes
      /\ c.op \in {"clear", "clearLines", "printf"}
  BY <1>1, PrinterIs
<1>3. CASE c.op = "clear"
  BY <1>3, ItemsAre DEF Rendered
<1>4. CASE c.op = "clearLines"
  <2> DEFINE m == lineTo(c) + 2
  <2>1. /\ c.from \in Nat /\ c.to \in Nat /\ lineTo(c) \in Nat /\ c.from <= lineTo(c)
        /\ m - (c.from + 1) = Cardinality(c.from..c.to \cup {c.from})
    BY <1>1, <1>4, PrinterIs, LinesCleared
  <2>2. Rendered(t) = Cleared(c, m) \o <<RESTOREPOS>>
    BY <1>4, <2>1 DEF Rendered, Cleared
  <2>3. m \in Nat /\ c.from + 1 <= m
    BY <2>1
  <2> HIDE DEF m
  <2>4. Cleared(c, m) \in Seq(Item)
    BY <2>1, <2>3, ClearedIs
  <2>5. <<RESTOREPOS>> \in Seq(Item)
    BY ItemsAre
  <2>6. QED
    BY <2>2, <2>4, <2>5, ConcatProperties
<1>5. CASE c.op = "printf"
  <2>1. /\ c.text \in Seq(STRING) /\ \A n \in DOMAIN c.text : Bytes(<<c.text[n]>>) = 1
        /\ c.line \in Nat /\ c.column \in Nat
    BY <1>1, <1>5, PrinterIs
  <2>2. CASE Config[d].driver = "min"
    <3>1. Rendered(t) = Returned(Shown(d, c.text))
      BY <1>5, <2>2 DEF Rendered, Returned
    <3>2. Shown(d, c.text) \in Seq(Item)
      BY <1>2, <2>1, <2>2, ShownIs, BuffersAre
    <3>3. QED
      BY <3>1, <3>2, ReturnedIsSeq, ItemsAre
  <2>3. CASE Config[d].driver # "min"
    <3> DEFINE p == Before(d, c)
               x == Chars(c.text)
               q == After(c)
    <3>1. p \in Seq(Item) /\ x \in Seq(Item) /\ q \in Seq(Item)
      BY <1>2, <2>1, CharsAre, BeforeAfterAre
    <3>2. Rendered(t) = (p \o x) \o q
      BY <1>5, <2>3 DEF Rendered
    <3> HIDE DEF p, x, q
    <3>3. p \o x \in Seq(Item) /\ (p \o x) \o q \in Seq(Item)
      BY <3>1, ConcatProperties
    <3>4. QED
      BY <3>2, <3>3
  <2>4. QED
    BY <2>2, <2>3
<1>6. QED
  BY <1>2, <1>3, <1>4, <1>5

(* Every call's output is its own and whole: while it is sent it is a      *)
(* start of what the call asked for, and at the end all of it: of a text   *)
(* too long for a plain UART the start that is kept, and on a terminal     *)
(* with texts that fit its buffer.                                         *)
THEOREM OutputInvariant == Spec => []OutputIsWhole
<1>1. ASSUME Inv, NEW t \in Threads PROVE pc[t] = "post" => out[hDisplay[t]] = Rendered(t)
  BY <1>1 DEF Inv, Local, Progress
<1>2. ASSUME Inv, NEW t \in Threads,
             pc[t] \in {"format", "lines", "write", "flush", "char", "newline"}
      PROVE  IsPrefix(out[hDisplay[t]], Rendered(t))
  <2>1. out[hDisplay[t]] \in Seq(Item)
    BY <1>2, PrinterIs DEF PrintPlaces
  <2>2. StartOf(out[hDisplay[t]], Rendered(t))
    <3>1. CASE pc[t] = "format"
      <4>1. out[hDisplay[t]] = <<>>
        BY <1>2, <3>1 DEF Inv, Local, Progress
      <4>2. Rendered(t) \in Seq(Item)
        BY <1>2, <3>1, RenderedIs
      <4>3. Rendered(t) = <<>> \o Rendered(t)
        BY <4>2, ConcatEmptySeq
      <4>4. QED
        BY <4>1, <4>2, <4>3 DEF StartOf
    <3>2. CASE pc[t] # "format"
      BY <1>2, <3>2, SentIsStart
    <3>3. QED
      BY <3>1, <3>2
  <2>3. QED
    BY <2>1, <2>2, StartIsPrefix
<1>3. Inv => OutputIsWhole
  BY <1>1, <1>2 DEF OutputIsWhole
<1>4. QED
  BY <1>3, DisplayInvariant, PTL

==============================================================================

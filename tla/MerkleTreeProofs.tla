-------------------------- MODULE MerkleTreeProofs --------------------------
(***************************************************************************)
(* Proofs about MerkleTree, for any blocks, in every mode and with any     *)
(* number of workers.                                                      *)
(***************************************************************************)
EXTENDS MerkleTree, FiniteSetTheorems, WellFoundedInduction, TLAPS

(* A set of natural numbers has a least one.                                 *)
LEMMA Least ==
    ASSUME NEW T, T \subseteq Nat, T # {}
    PROVE  \E m \in T : \A k \in T : m <= k
<1>1. PICK R : IsWellFoundedOn(R, Nat) /\ \A k, m \in Nat : k < m => <<k, m>> \in R
  BY NatLessThanWellFounded DEF OpToRel
<1>2. IsWellFoundedOn(R, T)
  BY <1>1, IsWellFoundedOnSubset
<1>3. \E p \in T : \A k \in T : ~(<<k, p>> \in R)
  BY <1>2, WFMin
<1>4. PICK p \in T : \A k \in T : ~(<<k, p>> \in R)
  BY <1>3
<1>5. \A k \in T : ~(k < p)
  BY <1>1, <1>4
<1>6. \A k \in T : p <= k
  BY <1>5
<1> QED
  BY <1>6

-----------------------------------------------------------------------------
(* Sharing a loop: worker w of n takes the turns w, w + s, w + 2s, ... of it, *)
(* for some s that is at least n.                                             *)

Turns(w, s) == {w + s * k : k \in Nat}

\* No turn is taken by two workers.
LEMMA TurnsDiffer ==
    ASSUME NEW n \in Nat, NEW s \in Nat, n <= s,
           NEW v \in 0..n - 1, NEW w \in 0..n - 1, v # w
    PROVE  Turns(v, s) \cap Turns(w, s) = {}
<1> SUFFICES ASSUME NEW j \in Nat, NEW k \in Nat, v + s * j = w + s * k
             PROVE  FALSE
  BY DEF Turns
<1>1. \A a, b \in Nat : a < b => s * a + s <= s * b
  <2> SUFFICES ASSUME NEW a \in Nat, NEW b \in Nat, a < b
               PROVE  s * a + s <= s * b
    OBVIOUS
  <2>1. PICK d \in Nat : b = a + 1 + d
    <3>1. b - a - 1 \in Nat /\ b = a + 1 + (b - a - 1)
      OBVIOUS
    <3> QED
      BY <3>1
  <2>2. s * b = s * a + s + s * d /\ s * d \in Nat /\ s * a \in Nat
    BY <2>1
  <2> QED
    BY <2>2
<1>2. s * j \in Nat /\ s * k \in Nat
  OBVIOUS
<1>3. CASE j < k
  BY <1>1, <1>2, <1>3
<1>4. CASE k < j
  BY <1>1, <1>2, <1>4
<1>5. CASE j = k
  BY <1>2, <1>5
<1> QED
  BY <1>3, <1>4, <1>5

LEMMA TurnsBegin ==
    ASSUME NEW w \in Nat, NEW s \in Nat
    PROVE  w \in Turns(w, s)
<1>1. w = w + s * 0
  OBVIOUS
<1> QED
  BY <1>1 DEF Turns

LEMMA TurnsGoOn ==
    ASSUME NEW w \in Nat, NEW s \in Nat, NEW q \in Turns(w, s)
    PROVE  q \in Nat /\ q + s \in Turns(w, s)
<1>1. PICK k \in Nat : q = w + s * k
  BY DEF Turns
<1>2. s * k \in Nat /\ s * (k + 1) = s * k + s
  OBVIOUS
<1>3. q + s = w + s * (k + 1)
  BY <1>1, <1>2
<1> QED
  BY <1>1, <1>2, <1>3 DEF Turns

LEMMA Lower ==
    ASSUME NEW a \in Nat, NEW b \in Nat
    PROVE  Min({a, b}) = IF a <= b THEN a ELSE b
BY DEF Min

\* A loop that begins: one worker alone, or some of the pool.
LEMMA LoopBegins ==
    ASSUME NEW unit \in Nat, NEW bound \in Nat, routines \in Nat
    PROVE  \E n \in Nat :
              /\ DOMAIN Loop(unit, bound) = 0..n - 1
              /\ ~Parallel => n = 1
              /\ Parallel => n <= routines
              /\ \A w \in 0..n - 1 : Loop(unit, bound)[w] = w * unit
<1>1. CASE Parallel
  <2> DEFINE n == Min({routines, bound})
  <2>1. n \in Nat /\ n <= routines
    BY Lower
  <2>2. Loop(unit, bound) = [w \in 0..n - 1 |-> w * unit]
    BY <1>1 DEF Loop
  <2> HIDE DEF n
  <2> QED
    BY <1>1, <2>1, <2>2
<1>2. CASE ~Parallel
  <2>1. Loop(unit, bound) = [w \in 0..1 - 1 |-> w * unit]
    BY <1>2 DEF Loop
  <2> QED
    BY <1>2, <2>1
<1> QED
  BY <1>1, <1>2
-----------------------------------------------------------------------------
(* Powers of two, and the depth of a tree                                    *)

\* A length for whose powers PowersAssumption speaks.
IsLength(n) == n \in Nat /\ \A k \in 0..n : 2^(k + 1) = 2 * 2^k

LEMMA LengthOf == ASSUME NEW bs \in Blocks PROVE IsLength(Len(bs))
BY BlocksAssumption, PowersAssumption DEF IsLength

LEMMA PowerType ==
    ASSUME NEW n, IsLength(n)
    PROVE  \A k \in 0..n + 1 : 2^k \in Nat \ {0}
<1> DEFINE P(k) == 2^k \in Nat \ {0}
           T == {k \in 0..n + 1 : ~P(k)}
<1>0. n \in Nat
  BY DEF IsLength
<1> SUFFICES ASSUME T # {} PROVE FALSE
  OBVIOUS
<1>1. PICK m \in T : \A k \in T : m <= k
  <2>1. T \subseteq Nat
    BY <1>0
  <2> HIDE DEF T
  <2> QED BY <2>1, Least
<1>2. m # 0
  <2>1. P(0)
    <3>1. 2^0 = 1
      BY PowersAssumption
    <3> QED BY <3>1
  <2>2. ~P(m)
    OBVIOUS
  <2> HIDE DEF P
  <2> QED BY <2>1, <2>2
<1>3. m - 1 \in 0..n /\ m - 1 \in 0..n + 1 /\ (m - 1) + 1 = m /\ ~(m <= m - 1)
  BY <1>0, <1>1, <1>2
<1>4. P(m - 1)
  BY <1>1, <1>3
<1>5. 2^((m - 1) + 1) = 2 * 2^(m - 1)
  BY <1>3 DEF IsLength
<1> DEFINE a == 2^(m - 1)
           b == 2^m
<1>6. a \in Nat \ {0} /\ b = 2 * a
  BY <1>3, <1>4, <1>5
<1> HIDE DEF a, b
<1>7. b \in Nat \ {0}
  BY <1>6
<1> QED
  BY <1>1, <1>7 DEF b

LEMMA PowersGrow ==
    ASSUME NEW n, IsLength(n)
    PROVE  \A k \in 0..n : k < 2^k
<1> DEFINE P(k) == k < 2^k
           T == {k \in 0..n : ~P(k)}
<1>0. n \in Nat
  BY DEF IsLength
<1> SUFFICES ASSUME T # {} PROVE FALSE
  OBVIOUS
<1>1. PICK m \in T : \A k \in T : m <= k
  <2>1. T \subseteq Nat
    BY <1>0
  <2> HIDE DEF T
  <2> QED BY <2>1, Least
<1>2. m # 0
  <2>1. P(0)
    <3>1. 2^0 = 1
      BY PowersAssumption
    <3> QED BY <3>1
  <2>2. ~P(m)
    OBVIOUS
  <2> HIDE DEF P
  <2> QED BY <2>1, <2>2
<1>3. m - 1 \in 0..n /\ (m - 1) + 1 = m /\ ~(m <= m - 1) /\ m \in Nat
  BY <1>0, <1>1, <1>2
<1>4. P(m - 1)
  BY <1>1, <1>3
<1>5. 2^((m - 1) + 1) = 2 * 2^(m - 1) /\ 2^(m - 1) \in Nat
  <2>1. PICK l \in 0..n + 1 : l = m - 1 /\ l \in 0..n
    BY <1>0, <1>3
  <2>2. 2^(l + 1) = 2 * 2^l
    BY <2>1 DEF IsLength
  <2>3. 2^l \in Nat
    BY <2>1, PowerType
  <2> QED
    BY <2>1, <2>2, <2>3
<1> DEFINE a == 2^(m - 1)
           b == 2^m
<1>6. a \in Nat /\ b = 2 * a /\ m - 1 < a
  BY <1>3, <1>4, <1>5
<1> HIDE DEF a, b
<1>7. m < b
  BY <1>3, <1>6
<1> QED
  BY <1>1, <1>7 DEF b

LEMMA DepthExists ==
    ASSUME NEW n, IsLength(n)
    PROVE  \E d \in 0..n : IsDepth(n, d)
<1> DEFINE T == {d \in 0..n : n <= 2^d}
<1>0. n \in Nat /\ n \in 0..n
  BY DEF IsLength
<1>1. n \in T
  <2>1. n < 2^n /\ 2^n \in Nat
    BY <1>0, PowersGrow, PowerType
  <2> QED BY <1>0, <2>1
<1>2. PICK m \in T : \A k \in T : m <= k
  <2>1. T \subseteq Nat
    BY <1>0
  <2> HIDE DEF T
  <2> QED BY <1>1, <2>1, Least
<1>3. ASSUME NEW e \in 0..m - 1 PROVE 2^e < n
  <2>1. e \in 0..n /\ ~(m <= e)
    BY <1>0, <1>2
  <2>2. ~(n <= 2^e) /\ 2^e \in Nat
    BY <1>0, <1>2, <2>1, PowerType
  <2> QED BY <1>0, <2>2
<1> QED
  BY <1>2, <1>3 DEF IsDepth

LEMMA DepthType ==
    ASSUME blocks \in Blocks
    PROVE  Depth \in 0..NumLeaves /\ IsDepth(NumLeaves, Depth) /\ NumLeaves \in Nat
<1>1. IsLength(NumLeaves)
  BY LengthOf DEF NumLeaves
<1> QED
  BY <1>1, DepthExists DEF Depth, IsLength

LEMMA Divides ==
    ASSUME NEW m \in Nat, NEW p \in Nat \ {0}
    PROVE  /\ m \div p \in Nat /\ m % p \in 0..p - 1
           /\ m = p * (m \div p) + (m % p)
OBVIOUS

LEMMA Quotient ==
    ASSUME NEW q \in Nat, NEW p \in Nat \ {0}, NEW r \in 0..p - 1
    PROVE  (p * q + r) \div p = q
<1> DEFINE m == p * q + r
           d == m \div p
           e == m % p
<1>1. m \in Nat
  <2>1. p * q \in Nat
    OBVIOUS
  <2> QED BY <2>1
<1>2. d \in Nat /\ e \in 0..p - 1 /\ m = p * d + e
  BY <1>1, Divides
<1>3. ASSUME NEW a \in Nat, NEW b \in Nat, a < b PROVE p * a + p <= p * b
  <2>1. PICK c \in Nat : b = a + 1 + c
    <3>1. b - a - 1 \in Nat /\ b = a + 1 + (b - a - 1)
      BY <1>3
    <3> QED BY <3>1
  <2>2. p * b = p * a + p + p * c /\ p * c \in Nat /\ p * a \in Nat
    BY <2>1
  <2> QED BY <2>2
<1>4. p * d \in Nat /\ p * q \in Nat
  BY <1>2
<1> HIDE DEF d, e
<1>5. CASE d < q
  <2>1. p * d + p <= p * q
    BY <1>2, <1>3, <1>5
  <2> QED BY <1>2, <1>4, <2>1
<1>6. CASE q < d
  <2>1. p * q + p <= p * d
    BY <1>2, <1>3, <1>6
  <2> QED BY <1>2, <1>4, <2>1
<1> QED
  BY <1>2, <1>5, <1>6 DEF d

\* Halving the quotient is dividing by the double.
LEMMA Halves ==
    ASSUME NEW m \in Nat, NEW p \in Nat \ {0}
    PROVE  m \div (2 * p) = (m \div p) \div 2
<1> DEFINE q == m \div p
           r == m % p
           s == q \div 2
           t == q % 2
           u == p * t + r
<1>1. q \in Nat /\ r \in 0..p - 1 /\ m = p * q + r
  BY Divides
<1> HIDE DEF q, r
<1>2. s \in Nat /\ t \in {0, 1} /\ q = 2 * s + t
  BY <1>1
<1> HIDE DEF s, t
<1>3. u \in 0..2 * p - 1
  <2>1. p * t \in {0, p}
    BY <1>2
  <2> QED BY <1>1, <2>1
<1>4. m = (2 * p) * s + u
  <2>1. p * q = p * (2 * s) + p * t
    BY <1>2
  <2>2. p * (2 * s) = (2 * p) * s
    BY <1>2
  <2>3. p * q \in Nat /\ p * t \in Nat /\ (2 * p) * s \in Nat
    BY <1>1, <1>2
  <2> QED BY <1>1, <2>1, <2>2, <2>3
<1> HIDE DEF u
<1>5. ((2 * p) * s + u) \div (2 * p) = s
  <2>1. 2 * p \in Nat \ {0}
    OBVIOUS
  <2> QED BY <2>1, <1>2, <1>3, Quotient
<1> QED
  BY <1>4, <1>5 DEF s, q

-----------------------------------------------------------------------------
(* The tree by definition.  Level is a recursive function: that the function *)
(* it chooses exists is shown by the least level without one.                *)

Node(bs, k, i) == Level(bs)[k][i]
\* The nodes of a level, the last one repeated: as FixOddLength leaves it.
Padded(bs, k, j) == IF j <= LastNode(bs, k) THEN Node(bs, k, j) ELSE Node(bs, k, LastNode(bs, k))

LevelOf(bs, h, k) ==
    [i \in 0..LastNode(bs, k) |->
        IF k = 0 THEN LeafHash(bs[i + 1])
        ELSE Concat(h[k - 1][2 * i], h[k - 1][Min({2 * i + 1, LastNode(bs, k - 1)})])]
LevelsUpTo(bs, h, n) == h = [k \in 0..n |-> LevelOf(bs, h, k)]
HasLevelsUpTo(bs, n) == \E h : LevelsUpTo(bs, h, n)
ChosenLevels(bs) == CHOOSE h : LevelsUpTo(bs, h, Len(bs))

LEMMA LevelIs == \A bs : Level(bs) = ChosenLevels(bs)
BY DEF Level, ChosenLevels, LevelsUpTo, LevelOf

LEMMA LevelsExist ==
    ASSUME NEW bs, NEW n \in Nat
    PROVE  HasLevelsUpTo(bs, n)
<1> DEFINE T == {k \in Nat : ~HasLevelsUpTo(bs, k)}
<1> SUFFICES ASSUME T # {} PROVE FALSE
  OBVIOUS
<1>1. PICK m \in T : \A k \in T : m <= k
  BY Least
<1>2. CASE m = 0
  <2> DEFINE g == [k \in 0..0 |-> LevelOf(bs, Empty, k)]
  <2>1. \A k \in 0..0 : k = 0
    OBVIOUS
  <2>2. \A k \in 0..0 : LevelOf(bs, g, k) = LevelOf(bs, Empty, k)
    BY <2>1 DEF LevelOf
  <2>3. g = [k \in 0..0 |-> LevelOf(bs, g, k)]
    BY <2>2
  <2>4. LevelsUpTo(bs, g, 0)
    BY <2>3 DEF LevelsUpTo
  <2> QED BY <2>4, <1>2 DEF HasLevelsUpTo
<1>3. CASE m # 0
  <2>1. m \in Nat /\ m - 1 \in Nat /\ ~(m <= m - 1)
    BY <1>3
  <2>2. PICK h : LevelsUpTo(bs, h, m - 1)
    BY <2>1, <1>1 DEF HasLevelsUpTo
  <2> DEFINE g == [k \in 0..m |-> LevelOf(bs, h, k)]
  <2>3. ASSUME NEW k \in 0..m PROVE LevelOf(bs, g, k) = LevelOf(bs, h, k)
    <3>1. CASE k = 0
      BY <3>1 DEF LevelOf
    <3>2. CASE k # 0
      <4>1. k - 1 \in 0..m - 1 /\ k - 1 \in 0..m
        BY <2>1, <3>2
      <4>2. g[k - 1] = LevelOf(bs, h, k - 1) /\ h[k - 1] = LevelOf(bs, h, k - 1)
        BY <4>1, <2>2 DEF LevelsUpTo
      <4> QED BY <4>2, <3>2 DEF LevelOf
    <3> QED BY <3>1, <3>2
  <2>4. g = [k \in 0..m |-> LevelOf(bs, g, k)]
    BY <2>3
  <2>5. LevelsUpTo(bs, g, m)
    BY <2>4 DEF LevelsUpTo
  <2> QED BY <2>5 DEF HasLevelsUpTo
<1> QED
  BY <1>2, <1>3

\* How many nodes a level has, and that half as many are on the next.
LEMMA LastNodes ==
    ASSUME NEW bs \in Blocks, Len(bs) >= 1
    PROVE  /\ LastNode(bs, 0) = Len(bs) - 1
           /\ \A k \in 0..Len(bs) + 1 : LastNode(bs, k) \in Nat
           /\ \A k \in 0..Len(bs) : LastNode(bs, k + 1) = LastNode(bs, k) \div 2
<1> DEFINE n == Len(bs)
           m == n - 1
<1>1. IsLength(n) /\ n \in Nat /\ m \in Nat
  BY LengthOf DEF IsLength
<1>2. LastNode(bs, 0) = m
  <2>1. 2^0 = 1
    BY PowersAssumption
  <2> QED BY <1>1, <2>1 DEF LastNode
<1>3. \A k \in 0..n + 1 : 2^k \in Nat \ {0}
  BY <1>1, PowerType
<1>4. ASSUME NEW k \in 0..n + 1 PROVE LastNode(bs, k) \in Nat
  <2>1. PICK p \in Nat \ {0} : p = 2^k
    BY <1>3
  <2> HIDE DEF m
  <2>2. m \div p \in Nat
    BY <1>1, Divides
  <2> QED BY <2>1, <2>2 DEF LastNode, m
<1>5. ASSUME NEW k \in 0..n PROVE LastNode(bs, k + 1) = LastNode(bs, k) \div 2
  <2>0. k \in 0..n + 1
    BY <1>1
  <2>1. PICK p \in Nat \ {0} : p = 2^k
    BY <1>3, <2>0
  <2>2. 2^(k + 1) = 2 * p
    BY <2>1, <1>1 DEF IsLength
  <2> HIDE DEF m
  <2>3. m \div (2 * p) = (m \div p) \div 2
    BY <1>1, Halves
  <2> QED BY <2>1, <2>2, <2>3 DEF LastNode, m
<1> QED
  BY <1>2, <1>4, <1>5

LEMMA LevelAbove ==
    ASSUME NEW bs \in Blocks, Len(bs) >= 1, NEW k \in 0..Len(bs) - 1
    PROVE  /\ k \in 0..Len(bs) /\ k + 1 \in 0..Len(bs)
           /\ LastNode(bs, k) \in Nat /\ LastNode(bs, k + 1) = LastNode(bs, k) \div 2
           /\ \A i \in 0..LastNode(bs, k + 1) : i \in Nat /\ 2 * i \in 0..LastNode(bs, k)
<1>1. Len(bs) \in Nat
  BY LengthOf DEF IsLength
<1>2. k \in 0..Len(bs) + 1 /\ k \in 0..Len(bs) /\ k + 1 \in 0..Len(bs)
  BY <1>1
<1>3. LastNode(bs, k) \in Nat /\ LastNode(bs, k + 1) = LastNode(bs, k) \div 2
  BY <1>2, LastNodes
<1> QED
  BY <1>2, <1>3

LEMMA FirstLevel ==
    ASSUME NEW bs \in Blocks, Len(bs) >= 1
    PROVE  /\ Len(bs) \in Nat /\ LastNode(bs, 0) = Len(bs) - 1
           /\ \A i \in 0..LastNode(bs, 0) : /\ i \in Nat /\ i + 1 \in 1..Len(bs) /\ i + 1 \in DOMAIN bs
                                          /\ bs[i + 1] \in Nat
<1>1. Len(bs) \in Nat /\ bs \in Seq(Nat)
  BY BlocksAssumption
<1>2. LastNode(bs, 0) = Len(bs) - 1
  BY LastNodes
<1>3. \A i \in 0..Len(bs) - 1 : i \in Nat /\ i + 1 \in 1..Len(bs)
  BY <1>1
<1>4. DOMAIN bs = 1..Len(bs) /\ \A x \in 1..Len(bs) : bs[x] \in Nat
  BY <1>1
<1> QED
  BY <1>1, <1>2, <1>3, <1>4

LEMMA NodeIs ==
    ASSUME NEW bs \in Blocks, Len(bs) >= 1
    PROVE  /\ \A i \in 0..LastNode(bs, 0) : Node(bs, 0, i) = LeafHash(bs[i + 1])
           /\ \A k \in 0..Len(bs) - 1 : \A i \in 0..LastNode(bs, k + 1) :
                 Node(bs, k + 1, i) = Concat(Node(bs, k, 2 * i), Padded(bs, k, 2 * i + 1))
<1> DEFINE L == Level(bs)
           n == Len(bs)
<1>0. n \in Nat /\ 0 \in 0..n
  BY LengthOf DEF IsLength
<1>1. \A k \in 0..n : L[k] = LevelOf(bs, L, k)
  <2>1. LevelsUpTo(bs, ChosenLevels(bs), n)
    BY <1>0, LevelsExist DEF HasLevelsUpTo, ChosenLevels
  <2>2. LevelsUpTo(bs, L, n)
    BY <2>1, LevelIs
  <2> HIDE DEF L
  <2> QED BY <2>2 DEF LevelsUpTo
<1> HIDE DEF L, n
<1>2. ASSUME NEW i \in 0..LastNode(bs, 0) PROVE Node(bs, 0, i) = LeafHash(bs[i + 1])
  BY <1>0, <1>1 DEF LevelOf, Node, L
<1>3. ASSUME NEW k \in 0..n - 1, NEW i \in 0..LastNode(bs, k + 1)
      PROVE  Node(bs, k + 1, i) = Concat(Node(bs, k, 2 * i), Padded(bs, k, 2 * i + 1))
  <2>1. k + 1 \in 0..n /\ k + 1 # 0 /\ (k + 1) - 1 = k
    BY <1>0
  <2>2. L[k + 1][i] = Concat(L[k][2 * i], L[k][Min({2 * i + 1, LastNode(bs, k)})])
    <3>1. PICK u : u = k + 1
      OBVIOUS
    <3>2. L[u] = LevelOf(bs, L, u) /\ u # 0 /\ u - 1 = k /\ i \in 0..LastNode(bs, u)
      BY <1>1, <2>1, <3>1
    <3>3. LevelOf(bs, L, u)[i] = Concat(L[u - 1][2 * i], L[u - 1][Min({2 * i + 1, LastNode(bs, u - 1)})])
      BY <3>2 DEF LevelOf
    <3>4. L[u][i] = Concat(L[k][2 * i], L[k][Min({2 * i + 1, LastNode(bs, k)})])
      BY <3>2, <3>3
    <3> QED BY <3>1, <3>4
  <2>3. LastNode(bs, k) \in Nat /\ LastNode(bs, k + 1) \in Nat
    BY <1>0, LastNodes DEF n
  <2>4. i \in Nat /\ 2 * i + 1 \in Nat
    BY <2>3
  <2>5. Min({2 * i + 1, LastNode(bs, k)}) = IF 2 * i + 1 <= LastNode(bs, k) THEN 2 * i + 1
                                            ELSE LastNode(bs, k)
    BY <2>3, <2>4, Lower
  <2> QED BY <2>2, <2>5 DEF Node, Padded, L
<1> QED
  BY <1>2, <1>3 DEF n

\* The root is the one node of the level that the depth names.
LEMMA DepthIsTop ==
    ASSUME NEW bs \in Blocks, Len(bs) >= 1, NEW d \in 0..Len(bs), IsDepth(Len(bs), d)
    PROVE  /\ LastNode(bs, d) = 0 /\ \A k \in 0..d - 1 : LastNode(bs, k) > 0
           /\ d > 0 => LastNode(bs, d - 1) = 1
<1> DEFINE n == Len(bs)
           m == n - 1
<1>1. IsLength(n) /\ n \in Nat /\ m \in Nat
  BY LengthOf DEF IsLength
<1>2. \A k \in 0..n + 1 : 2^k \in Nat \ {0}
  BY <1>1, PowerType
<1>3. LastNode(bs, d) = 0
  <2>1. PICK p \in Nat \ {0} : p = 2^d
    BY <1>1, <1>2
  <2>2. n <= p
    BY <2>1 DEF IsDepth
  <2>3. m \in 0..p - 1
    BY <1>1, <2>2
  <2> HIDE DEF m
  <2>4. (p * 0 + m) \div p = 0
    BY <2>3, Quotient
  <2>5. p * 0 + m = m
    BY <1>1
  <2> QED BY <2>1, <2>4, <2>5 DEF LastNode, m
<1>4. ASSUME NEW k \in 0..d - 1 PROVE LastNode(bs, k) > 0
  <2>0. k \in 0..n + 1
    BY <1>1
  <2>1. PICK p \in Nat \ {0} : p = 2^k
    BY <1>2, <2>0
  <2>2. p < n
    BY <2>1 DEF IsDepth
  <2>3. m >= p
    BY <1>1, <2>2
  <2> DEFINE q == m \div p
             r == m % p
  <2>4. q \in Nat /\ r \in 0..p - 1 /\ m = p * q + r
    <3> HIDE DEF m
    <3> QED BY <1>1, Divides
  <2>5. LastNode(bs, k) = q
    BY <2>1 DEF LastNode
  <2> HIDE DEF q, r, m
  <2>6. q # 0
    <3> SUFFICES ASSUME q = 0 PROVE FALSE
      OBVIOUS
    <3>1. p * q = 0
      OBVIOUS
    <3> QED BY <2>3, <2>4, <3>1
  <2> QED BY <2>4, <2>5, <2>6
<1>5. ASSUME d > 0 PROVE LastNode(bs, d - 1) = 1
  <2>1. d - 1 \in 0..n /\ d - 1 \in 0..n + 1 /\ d - 1 \in 0..d - 1 /\ (d - 1) + 1 = d
    BY <1>1, <1>5
  <2>2. LastNode(bs, (d - 1) + 1) = LastNode(bs, d - 1) \div 2 /\ LastNode(bs, d - 1) \in Nat
    BY <2>1, LastNodes DEF n
  <2>3. LastNode(bs, d - 1) > 0
    BY <1>4, <2>1
  <2> QED BY <1>3, <2>1, <2>2, <2>3
<1> QED
  BY <1>3, <1>4, <1>5

-----------------------------------------------------------------------------
(* The root by definition commits to the blocks                              *)

\* On a level of a tree over different blocks no node occurs twice.
LEMMA NodesDiffer ==
    ASSUME NEW bs \in Blocks, Len(bs) >= 1, Ascending(bs)
    PROVE  \A k \in 0..Len(bs) : \A i, j \in 0..LastNode(bs, k) :
              Node(bs, k, i) = Node(bs, k, j) => i = j
<1> DEFINE n == Len(bs)
           P(k) == \A i, j \in 0..LastNode(bs, k) : Node(bs, k, i) = Node(bs, k, j) => i = j
           T == {k \in 0..n : ~P(k)}
<1>0. n \in Nat /\ bs \in Seq(Nat)
  BY BlocksAssumption
<1> SUFFICES ASSUME T # {} PROVE FALSE
  OBVIOUS
<1>1. PICK m \in T : \A k \in T : m <= k
  <2>1. T \subseteq Nat
    BY <1>0
  <2> HIDE DEF T
  <2> QED BY <2>1, Least
<1>2. P(0)
  <2> SUFFICES ASSUME NEW i \in 0..LastNode(bs, 0), NEW j \in 0..LastNode(bs, 0),
                      Node(bs, 0, i) = Node(bs, 0, j), i # j
               PROVE  FALSE
    OBVIOUS
  <2>1. /\ i \in Nat /\ i + 1 \in DOMAIN bs /\ bs[i + 1] \in Nat
        /\ j \in Nat /\ j + 1 \in DOMAIN bs /\ bs[j + 1] \in Nat
    BY FirstLevel
  <2>2. LeafHash(bs[i + 1]) = LeafHash(bs[j + 1])
    BY NodeIs
  <2>3. bs[i + 1] = bs[j + 1]
    BY <2>2 DEF LeafHash
  <2>4. i + 1 < j + 1 \/ j + 1 < i + 1
    BY <2>1
  <2>5. ~(bs[i + 1] < bs[j + 1]) /\ ~(bs[j + 1] < bs[i + 1])
    BY <2>1, <2>3
  <2> QED BY <2>1, <2>4, <2>5 DEF Ascending
<1>3. m # 0
  <2> HIDE DEF P
  <2> QED BY <1>2
<1>4. PICK k \in 0..n - 1 : m = k + 1
  <2>1. m - 1 \in 0..n - 1 /\ m = (m - 1) + 1
    BY <1>0, <1>3
  <2> QED BY <2>1
<1>5. P(k)
  <2>1. k \in 0..n /\ ~(m <= k)
    BY <1>0, <1>4
  <2> HIDE DEF P
  <2> QED BY <2>1, <1>1
<1>6. P(k + 1)
  <2> SUFFICES ASSUME NEW i \in 0..LastNode(bs, k + 1), NEW j \in 0..LastNode(bs, k + 1),
                      Node(bs, k + 1, i) = Node(bs, k + 1, j)
               PROVE  i = j
    OBVIOUS
  <2>1. i \in Nat /\ j \in Nat /\ 2 * i \in 0..LastNode(bs, k) /\ 2 * j \in 0..LastNode(bs, k)
    BY LevelAbove
  <2>3. Node(bs, k, 2 * i) = Node(bs, k, 2 * j)
    BY NodeIs DEF Concat
  <2>4. 2 * i = 2 * j
    BY <1>5, <2>1, <2>3
  <2> QED BY <2>1, <2>4
<1> QED
  BY <1>4, <1>6

\* A node tells the level it is on.
LEMMA SameLevel ==
    ASSUME NEW bs \in Blocks, Len(bs) >= 1, NEW cs \in Blocks, Len(cs) >= 1
    PROVE  \A k \in 0..Len(bs), j \in 0..Len(cs) :
              \A i \in 0..LastNode(bs, k), l \in 0..LastNode(cs, j) :
                 Node(bs, k, i) = Node(cs, j, l) => k = j
<1> DEFINE n == Len(bs)
           o == Len(cs)
           P(k) == \A j \in 0..o : \A i \in 0..LastNode(bs, k), l \in 0..LastNode(cs, j) :
                      Node(bs, k, i) = Node(cs, j, l) => k = j
           T == {k \in 0..n : ~P(k)}
<1>0. n \in Nat /\ o \in Nat
  BY LengthOf DEF IsLength
<1> SUFFICES ASSUME T # {} PROVE FALSE
  OBVIOUS
<1>1. PICK m \in T : \A k \in T : m <= k
  <2>1. T \subseteq Nat
    BY <1>0
  <2> HIDE DEF T
  <2> QED BY <2>1, Least
<1>2. ASSUME NEW j \in 0..o, NEW i \in 0..LastNode(bs, m), NEW l \in 0..LastNode(cs, j),
             Node(bs, m, i) = Node(cs, j, l), m # j
      PROVE  FALSE
  <2>a. \A x, a, b : LeafHash(x) # Concat(a, b)
    BY DEF LeafHash, Concat
  <2>1. CASE m = 0
    <3>1. PICK p \in 0..o - 1 : j = p + 1
      <4>1. j - 1 \in 0..o - 1 /\ j = (j - 1) + 1
        BY <1>0, <1>2, <2>1
      <4> QED BY <4>1
    <3>2. Node(bs, 0, i) = LeafHash(bs[i + 1])
      BY <2>1, NodeIs
    <3>3. Node(cs, p + 1, l) = Concat(Node(cs, p, 2 * l), Padded(cs, p, 2 * l + 1))
      BY <3>1, NodeIs
    <3> QED BY <1>2, <2>a, <2>1, <3>1, <3>2, <3>3
  <2>2. CASE m # 0
    <3>1. PICK k \in 0..n - 1 : m = k + 1
      <4>1. m - 1 \in 0..n - 1 /\ m = (m - 1) + 1
        BY <1>0, <2>2
      <4> QED BY <4>1
    <3>2. Node(bs, k + 1, i) = Concat(Node(bs, k, 2 * i), Padded(bs, k, 2 * i + 1))
      BY <3>1, NodeIs
    <3>3. j # 0
      <4> SUFFICES ASSUME j = 0 PROVE FALSE
        OBVIOUS
      <4>1. Node(cs, 0, l) = LeafHash(cs[l + 1])
        BY NodeIs
      <4> QED BY <1>2, <2>a, <3>1, <3>2, <4>1
    <3>4. PICK p \in 0..o - 1 : j = p + 1
      <4>1. j - 1 \in 0..o - 1 /\ j = (j - 1) + 1
        BY <1>0, <3>3
      <4> QED BY <4>1
    <3>5. Node(cs, p + 1, l) = Concat(Node(cs, p, 2 * l), Padded(cs, p, 2 * l + 1))
      BY <3>4, NodeIs
    <3>6. Node(bs, k, 2 * i) = Node(cs, p, 2 * l)
      BY <1>2, <3>1, <3>2, <3>4, <3>5 DEF Concat
    <3>7. 2 * i \in 0..LastNode(bs, k)
      BY <3>1, LevelAbove
    <3>8. 2 * l \in 0..LastNode(cs, p)
      BY <3>4, LevelAbove
    <3>9. k \in 0..n /\ p \in 0..o /\ ~(m <= k) /\ k # p
      BY <1>0, <1>2, <3>1, <3>4
    <3>10. P(k)
      <4> HIDE DEF P
      <4> QED BY <1>1, <3>9
    <3> QED BY <3>6, <3>7, <3>8, <3>9, <3>10
  <2> QED BY <2>1, <2>2
<1>3. P(m)
  BY <1>2
<1> QED
  BY <1>3

\* Two trees agree on a level.
Agree(bs, cs, k) == /\ LastNode(bs, k) = LastNode(cs, k)
                    /\ \A i \in 0..LastNode(bs, k) : Node(bs, k, i) = Node(cs, k, i)

LEMMA PairsAgree ==
    ASSUME NEW bs \in Blocks, Len(bs) >= 1, NEW cs \in Blocks, Len(cs) >= 1,
           NEW k \in 0..Len(bs) - 1, k \in 0..Len(cs) - 1, Agree(bs, cs, k + 1),
           NEW i \in 0..LastNode(bs, k + 1)
    PROVE  /\ Node(bs, k, 2 * i) = Node(cs, k, 2 * i)
           /\ Padded(bs, k, 2 * i + 1) = Padded(cs, k, 2 * i + 1)
<1>1. Node(bs, k + 1, i) = Concat(Node(bs, k, 2 * i), Padded(bs, k, 2 * i + 1))
  BY NodeIs
<1>2. Node(cs, k + 1, i) = Concat(Node(cs, k, 2 * i), Padded(cs, k, 2 * i + 1))
  BY NodeIs DEF Agree
<1>3. Node(bs, k + 1, i) = Node(cs, k + 1, i)
  BY DEF Agree
<1> QED
  BY <1>1, <1>2, <1>3 DEF Concat

LEMMA NoNodeMore ==
    ASSUME NEW bs \in Blocks, Len(bs) >= 1, NEW cs \in Blocks, Len(cs) >= 1, Ascending(cs),
           NEW k \in 0..Len(bs) - 1, k \in 0..Len(cs) - 1, Agree(bs, cs, k + 1)
    PROVE  LastNode(cs, k) <= LastNode(bs, k)
<1> DEFINE a == LastNode(bs, k)
           b == LastNode(cs, k)
           h == LastNode(bs, k + 1)
<1>1. Len(bs) \in Nat /\ Len(cs) \in Nat
  BY LengthOf DEF IsLength
<1>2. a \in Nat /\ b \in Nat /\ h = a \div 2 /\ h = b \div 2
  BY LevelAbove DEF Agree
<1>3. h \in 0..h /\ h \in Nat
  BY <1>2
<1> SUFFICES ASSUME ~(b <= a) PROVE FALSE
  OBVIOUS
<1>4. a = 2 * h /\ b = 2 * h + 1
  BY <1>2
<1>5. Node(bs, k, 2 * h) = Node(cs, k, 2 * h) /\ Padded(bs, k, 2 * h + 1) = Padded(cs, k, 2 * h + 1)
  BY <1>3, PairsAgree
<1>6. Padded(bs, k, 2 * h + 1) = Node(bs, k, 2 * h)
  <2>1. ~(2 * h + 1 <= a)
    BY <1>2, <1>4
  <2> QED BY <1>4, <2>1 DEF Padded
<1>7. Padded(cs, k, 2 * h + 1) = Node(cs, k, 2 * h + 1)
  <2>1. 2 * h + 1 <= b
    BY <1>2, <1>4
  <2> QED BY <2>1 DEF Padded
<1>8. Node(cs, k, 2 * h) = Node(cs, k, 2 * h + 1)
  BY <1>5, <1>6, <1>7
<1>9. 2 * h \in 0..b /\ 2 * h + 1 \in 0..b /\ 2 * h # 2 * h + 1 /\ k \in 0..Len(cs)
  BY <1>1, <1>3, <1>4
<1> QED
  BY <1>8, <1>9, NodesDiffer

LEMMA LowerLevelAgrees ==
    ASSUME NEW bs \in Blocks, Len(bs) >= 1, NEW cs \in Blocks, Len(cs) >= 1,
           Ascending(bs), Ascending(cs),
           NEW k \in 0..Len(bs) - 1, k \in 0..Len(cs) - 1, Agree(bs, cs, k + 1)
    PROVE  Agree(bs, cs, k)
<1> DEFINE a == LastNode(bs, k)
<1>1. Len(bs) \in Nat /\ Len(cs) \in Nat
  BY LengthOf DEF IsLength
<1>2. a \in Nat /\ LastNode(cs, k) \in Nat /\ LastNode(bs, k + 1) = a \div 2
  BY LevelAbove
<1>3. LastNode(cs, k) = a
  <2>1. Agree(cs, bs, k + 1)
    BY DEF Agree
  <2>2. LastNode(cs, k) <= a /\ a <= LastNode(cs, k)
    BY <2>1, NoNodeMore
  <2> QED BY <1>2, <2>2
<1>4. ASSUME NEW i \in 0..a PROVE Node(bs, k, i) = Node(cs, k, i)
  <2>1. PICK h \in 0..a \div 2 : i = 2 * h \/ i = 2 * h + 1
    <3>1. i \div 2 \in 0..a \div 2 /\ (i = 2 * (i \div 2) \/ i = 2 * (i \div 2) + 1)
      BY <1>2
    <3> QED BY <3>1
  <2>2. Node(bs, k, 2 * h) = Node(cs, k, 2 * h) /\ Padded(bs, k, 2 * h + 1) = Padded(cs, k, 2 * h + 1)
    BY <1>2, <2>1, PairsAgree
  <2>3. CASE i = 2 * h
    BY <2>2, <2>3
  <2>4. CASE i = 2 * h + 1
    <3>1. 2 * h + 1 <= a
      BY <1>2, <2>4
    <3> QED BY <1>3, <2>2, <2>4, <3>1 DEF Padded
  <2> QED BY <2>1, <2>3, <2>4
<1> QED
  BY <1>3, <1>4 DEF Agree

IsTop(bs, k) == LastNode(bs, k) = 0 /\ \A j \in 0..k - 1 : LastNode(bs, j) > 0
Top(bs) == CHOOSE k \in 0..Len(bs) : IsTop(bs, k)

LEMMA TopIs ==
    ASSUME NEW bs \in Blocks, Len(bs) >= 1
    PROVE  /\ Top(bs) \in 0..Len(bs) /\ IsTop(bs, Top(bs))
           /\ IdealRoot(bs) = Node(bs, Top(bs), 0)
           /\ \A d \in 0..Len(bs) : IsDepth(Len(bs), d) => Top(bs) = d
<1>1. PICK d \in 0..Len(bs) : IsDepth(Len(bs), d)
  BY LengthOf, DepthExists
<1>2. \A e \in 0..Len(bs) : IsDepth(Len(bs), e) => IsTop(bs, e)
  BY DepthIsTop DEF IsTop
<1>3. Top(bs) \in 0..Len(bs) /\ IsTop(bs, Top(bs))
  BY <1>1, <1>2 DEF Top
<1>4. IdealRoot(bs) = Node(bs, Top(bs), 0)
  BY DEF IdealRoot, Node, Top, IsTop
<1>5. ASSUME NEW e \in 0..Len(bs), IsDepth(Len(bs), e) PROVE Top(bs) = e
  <2>1. IsTop(bs, e)
    BY <1>2, <1>5
  <2>2. Len(bs) \in Nat
    BY LengthOf DEF IsLength
  <2>3. \A x, y \in 0..Len(bs) : x < y /\ IsTop(bs, x) /\ IsTop(bs, y) => FALSE
    <3> SUFFICES ASSUME NEW x \in 0..Len(bs), NEW y \in 0..Len(bs), x < y, IsTop(bs, x), IsTop(bs, y)
                 PROVE  FALSE
      OBVIOUS
    <3>1. x \in 0..y - 1
      BY <2>2
    <3>2. LastNode(bs, x) > 0 /\ LastNode(bs, x) = 0
      BY <3>1 DEF IsTop
    <3> QED BY <3>2
  <2>4. ~(Top(bs) < e) /\ ~(e < Top(bs))
    BY <1>3, <2>1, <2>3
  <2> QED BY <1>3, <2>2, <2>4
<1> QED
  BY <1>3, <1>4, <1>5

\* No two sets of blocks have the same root.
LEMMA RootsDiffer ==
    ASSUME NEW bs \in Blocks, Len(bs) >= 1, NEW cs \in Blocks, Len(cs) >= 1,
           Ascending(bs), Ascending(cs), IdealRoot(bs) = IdealRoot(cs)
    PROVE  bs = cs
<1> DEFINE d == Top(bs)
           T == {e \in 0..d : ~Agree(bs, cs, d - e)}
<1>0. Len(bs) \in Nat /\ Len(cs) \in Nat
  BY LengthOf DEF IsLength
<1>1. d \in 0..Len(bs) /\ Top(cs) \in 0..Len(cs) /\ LastNode(bs, d) = 0 /\ LastNode(cs, Top(cs)) = 0
      /\ Node(bs, d, 0) = Node(cs, Top(cs), 0)
  BY TopIs DEF IsTop
<1>2. Top(cs) = d
  <2>1. 0 \in 0..LastNode(bs, d) /\ 0 \in 0..LastNode(cs, Top(cs))
    BY <1>1
  <2> QED BY <1>1, <2>1, SameLevel
<1>3. Agree(bs, cs, d)
  <2>1. \A i \in 0..0 : i = 0
    OBVIOUS
  <2> QED BY <1>1, <1>2, <2>1 DEF Agree
<1> HIDE DEF d
<1>4. T = {}
  <2> SUFFICES ASSUME T # {} PROVE FALSE
    OBVIOUS
  <2>1. PICK m \in T : \A e \in T : m <= e
    <3>1. T \subseteq Nat
      BY <1>0, <1>1
    <3> HIDE DEF T
    <3> QED BY <3>1, Least
  <2>2. m # 0
    <3>1. d - 0 = d
      BY <1>0, <1>1
    <3> QED BY <1>3, <3>1
  <2>3. m - 1 \in 0..d /\ ~(m <= m - 1)
    BY <1>0, <1>1, <2>2
  <2>4. Agree(bs, cs, d - (m - 1))
    BY <2>1, <2>3
  <2>5. d - (m - 1) = (d - m) + 1 /\ d - m \in 0..Len(bs) - 1 /\ d - m \in 0..Len(cs) - 1
    BY <1>0, <1>1, <1>2, <2>2
  <2>6. Agree(bs, cs, d - m)
    BY <2>4, <2>5, LowerLevelAgrees
  <2> QED BY <2>6
<1>5. Agree(bs, cs, 0)
  <2>1. d \in 0..d /\ d - d = 0
    BY <1>0, <1>1
  <2> QED BY <1>4, <2>1
<1>6. Len(bs) = Len(cs)
  <2>1. LastNode(bs, 0) = Len(bs) - 1 /\ LastNode(cs, 0) = Len(cs) - 1
    BY LastNodes
  <2> QED BY <1>0, <1>5, <2>1 DEF Agree
<1>7. \A i \in 1..Len(bs) : bs[i] = cs[i]
  <2> SUFFICES ASSUME NEW i \in 1..Len(bs) PROVE bs[i] = cs[i]
    OBVIOUS
  <2>1. PICK j \in 0..Len(bs) - 1 : i = j + 1
    <3>1. i - 1 \in 0..Len(bs) - 1 /\ i = (i - 1) + 1
      BY <1>0
    <3> QED BY <3>1
  <2>2. j \in 0..LastNode(bs, 0) /\ j \in 0..LastNode(cs, 0)
    BY <1>6, <2>1, FirstLevel
  <2>3. LeafHash(bs[j + 1]) = LeafHash(cs[j + 1])
    BY <1>5, <2>2, NodeIs DEF Agree
  <2> QED BY <2>1, <2>3 DEF LeafHash
<1>8. bs \in [1..Len(bs) -> Nat] /\ cs \in [1..Len(bs) -> Nat]
  <2>1. bs \in Seq(Nat) /\ cs \in Seq(Nat)
    BY BlocksAssumption
  <2>2. bs \in [1..Len(bs) -> Nat] /\ cs \in [1..Len(cs) -> Nat]
    BY <2>1
  <2> QED BY <1>6, <2>2
<1> QED
  BY <1>7, <1>8

-----------------------------------------------------------------------------
(* The inductive invariant *)

\* The n workers of a loop each are at a turn of their own.  (The tree's levels
\* are advanced over by NumRoutines, however few workers there are.)
Shares(n) ==
    /\ Workers = 0..n - 1
    /\ ~Parallel => n = 1
    /\ phase = "pool" => Parallel /\ n <= routines
    /\ \A w \in Workers :
          \E q \in Turns(w, IF phase = "pool" THEN routines ELSE n) :
              at[w] = IF phase = "leaves" THEN q ELSE 2 * q

FiniteNodes ==
    /\ IsFiniteSet(DOMAIN leaves)
    /\ \A i \in DOMAIN nodes : IsFiniteSet(DOMAIN nodes[i])

HasLevels == phase \in {"pool", "nodes", "wait"} \/ (phase = "proofs" /\ mode # "ModeProofGen")

IInv ==
    /\ routines \in Nat /\ NumLeaves \in Nat /\ Depth \in Nat /\ step \in Nat
    /\ phase \in {"leaves", "proofs", "level", "pool"} => \E n \in Nat : Shares(n)
    /\ phase \in {"proofs", "level", "pool", "nodes"} => length \in Nat
    /\ FiniteNodes
    /\ HasLevels => DOMAIN nodes = 0..Depth - 1
    /\ phase = "level" => mode = "ModeProofGen"
    /\ phase \in {"pool", "nodes", "wait"} => mode # "ModeProofGen"
    /\ phase = "wait" => Depth >= 1

-----------------------------------------------------------------------------
(* The invariant implies NoRace *)

LEMMA PlacesDiffer ==
    ASSUME NEW n \in Nat, Shares(n), routines \in Nat, NEW v \in Workers, NEW w \in Workers, v # w
    PROVE  /\ at[v] \in Nat /\ at[w] \in Nat /\ at[v] # at[w]
           /\ phase # "leaves" => /\ {at[v], at[v] + 1} \cap {at[w], at[w] + 1} = {}
                                  /\ at[v] \div 2 # at[w] \div 2
<1> DEFINE s == IF phase = "pool" THEN routines ELSE n
<1>1. s \in Nat /\ n <= s /\ v \in 0..n - 1 /\ w \in 0..n - 1
  BY DEF Shares
<1>2. PICK q \in Turns(v, s) : at[v] = IF phase = "leaves" THEN q ELSE 2 * q
  BY DEF Shares
<1>3. PICK r \in Turns(w, s) : at[w] = IF phase = "leaves" THEN r ELSE 2 * r
  BY DEF Shares
<1> HIDE DEF s
<1>4. q \in Nat /\ r \in Nat
  BY <1>1, TurnsGoOn
<1>5. q # r
  BY <1>1, <1>2, <1>3, TurnsDiffer
<1> QED
  BY <1>2, <1>3, <1>4, <1>5

LEMMA InvNoRace == IInv => NoRace
<1> SUFFICES ASSUME IInv, NEW v \in Running, NEW w \in Running, v # w
             PROVE  Writes(v) \cap (Reads(w) \cup Writes(w)) = {}
  BY DEF NoRace
<1>1. v \in Workers /\ w \in Workers /\ phase \in {"leaves", "proofs", "level", "pool"}
  BY DEF Running
<1>2. PICK n \in Nat : Shares(n)
  BY <1>1 DEF IInv
<1>3. Parallel
  <2> SUFFICES ASSUME ~Parallel PROVE FALSE
    OBVIOUS
  <2>1. Workers = 0..0
    BY <1>2 DEF Shares
  <2> QED
    BY <1>1, <2>1
<1>4. /\ at[v] \in Nat /\ at[w] \in Nat /\ at[v] # at[w]
      /\ phase # "leaves" => /\ {at[v], at[v] + 1} \cap {at[w], at[w] + 1} = {}
                             /\ at[v] \div 2 # at[w] \div 2
  BY <1>1, <1>2, PlacesDiffer DEF IInv
<1>5. CASE phase = "leaves"
  BY <1>4, <1>5 DEF Reads, Writes
<1>6. CASE phase = "pool"
  <2>1. step \in Nat
    BY DEF IInv
  <2>2. Writes(v) = {<<step + 1, at[v] \div 2>>} /\ Writes(w) = {<<step + 1, at[w] \div 2>>}
        /\ Reads(w) = {<<step, at[w]>>, <<step, at[w] + 1>>}
    BY <1>6 DEF Reads, Writes
  <2> QED
    BY <1>4, <1>6, <2>1, <2>2
<1>7. CASE phase = "level"
  <2>1. Writes(v) = {<<"temp", at[v] \div 2>>} /\ Writes(w) = {<<"temp", at[w] \div 2>>}
        /\ Reads(w) = {<<"buffer", at[w]>>, <<"buffer", at[w] + 1>>}
    BY <1>3, <1>7 DEF Reads, Writes
  <2> QED
    BY <1>4, <1>7, <2>1
<1>8. CASE phase = "proofs"
  <2> DEFINE touched(x) == {<<"proofs", i>> : i \in {j \in DOMAIN proofs :
                                j \div 2^step \in {at[x], at[x] + 1}}}
  <2>1. /\ Writes(v) = touched(v) /\ Writes(w) = touched(w)
        /\ Reads(w) = {<<"buffer", at[w]>>, <<"buffer", at[w] + 1>>}
    BY <1>8 DEF Reads, Writes
  <2>2. touched(v) \cap touched(w) = {}
    <3> SUFFICES ASSUME NEW i \in DOMAIN proofs, NEW j \in DOMAIN proofs,
                        i \div 2^step \in {at[v], at[v] + 1},
                        j \div 2^step \in {at[w], at[w] + 1},
                        <<"proofs", i>> = <<"proofs", j>>
                 PROVE  FALSE
      OBVIOUS
    <3>1. i = j
      OBVIOUS
    <3> QED
      BY <1>4, <1>8, <3>1
  <2>3. touched(v) \cap Reads(w) = {}
    BY <2>1
  <2> QED
    BY <2>1, <2>2, <2>3
<1> QED
  BY <1>1, <1>5, <1>6, <1>7, <1>8

-----------------------------------------------------------------------------
(* The invariant is inductive *)

\* Every loop begins with each worker at its first turn.
LEMMA LoopShares ==
    ASSUME IInv, NEW bound \in Nat, routines' = routines,
           phase' \in {"leaves", "proofs", "level", "pool"},
           at' = Loop(IF phase' = "leaves" THEN 1 ELSE 2, bound),
           phase' = "pool" => Parallel
    PROVE  \E n \in Nat : Shares(n)'
<1> DEFINE unit == IF phase' = "leaves" THEN 1 ELSE 2
<1>1. PICK n \in Nat : /\ DOMAIN Loop(unit, bound) = 0..n - 1
                       /\ ~Parallel => n = 1
                       /\ Parallel => n <= routines
                       /\ \A w \in 0..n - 1 : Loop(unit, bound)[w] = w * unit
  <2>1. unit \in Nat /\ routines \in Nat
    BY DEF IInv
  <2> HIDE DEF unit
  <2> QED
    BY <2>1, LoopBegins
<1>2. /\ Workers' = 0..n - 1
      /\ \A w \in 0..n - 1 : at'[w] = IF phase' = "leaves" THEN w ELSE 2 * w
  BY <1>1 DEF Workers
<1>3. \A w \in 0..n - 1 : w \in Turns(w, IF phase' = "pool" THEN routines' ELSE n)
  BY TurnsBegin DEF IInv
<1>4. Shares(n)'
  BY <1>1, <1>2, <1>3 DEF Shares, Parallel
<1> QED
  BY <1>4

\* A worker that goes on takes its next turn.
LEMMA IterationShares ==
    ASSUME IInv, NEW n \in Nat, Shares(n), NEW w \in Workers, NEW bound,
           Iterate(w, bound, (IF phase = "leaves" THEN 1 ELSE 2)
                             * (IF phase = "pool" THEN routines ELSE n)),
           phase' = phase, routines' = routines
    PROVE  Shares(n)'
<1> DEFINE s == IF phase = "pool" THEN routines ELSE n
           unit == IF phase = "leaves" THEN 1 ELSE 2
<1>1. at' = [at EXCEPT ![w] = @ + unit * s]
  BY DEF Iterate
<1>2. /\ Workers' = Workers
      /\ at'[w] = at[w] + unit * s
      /\ \A v \in Workers \ {w} : at'[v] = at[v]
  BY <1>1 DEF Workers
<1>3. s \in Nat
  BY DEF IInv
<1>4. \A v \in Workers : \E q \in Turns(v, s) : at'[v] = IF phase = "leaves" THEN q ELSE 2 * q
  <2>1. \A v \in Workers : \E q \in Turns(v, s) : at[v] = IF phase = "leaves" THEN q ELSE 2 * q
    BY DEF Shares
  <2>2. PICK q \in Turns(w, s) : at[w] = IF phase = "leaves" THEN q ELSE 2 * q
    BY <2>1
  <2>3. w \in Nat
    BY DEF Shares
  <2> HIDE DEF s
  <2>4. q \in Nat /\ q + s \in Turns(w, s)
    BY <1>3, <2>3, TurnsGoOn
  <2>5. at'[w] = IF phase = "leaves" THEN q + s ELSE 2 * (q + s)
    BY <1>2, <1>3, <2>2, <2>4
  <2> QED
    BY <1>2, <2>1, <2>4, <2>5
<1> QED
  BY <1>2, <1>4 DEF Shares, Parallel

LEMMA FiniteSlices ==
    ASSUME NEW n \in Int
    PROVE  IsFiniteSet(DOMAIN Slice(n)) /\ IsFiniteSet(DOMAIN Empty)
BY FS_Interval, FS_EmptySet DEF Slice, Empty

LEMMA FixedIsFinite ==
    ASSUME NEW buf, NEW n \in Nat, IsFiniteSet(DOMAIN buf)
    PROVE  IsFiniteSet(DOMAIN FixOddLength(buf, n))
<1>1. DOMAIN FixOddLength(buf, n) \in {DOMAIN buf, DOMAIN buf \cup {n}}
  BY DEF FixOddLength
<1> QED
  BY <1>1, FS_AddElement

LEMMA FixedLengthType == \A n \in Nat : FixedLength(n) \in Nat /\ FixedLength(n) \div 2 \in Nat
BY DEF FixedLength

LEMMA InitEstablishes == Init => IInv
<1> SUFFICES ASSUME Init PROVE IInv
  OBVIOUS
<1>1. routines \in Nat /\ NumLeaves \in Nat /\ Depth \in Nat /\ step \in Nat
  BY DepthType, RoutinesAssumption DEF Init
<1>2. phase = "leaves" => \E n \in Nat : Shares(n)
  <2>1. PICK n \in Nat : /\ DOMAIN Loop(1, NumLeaves) = 0..n - 1
                         /\ ~Parallel => n = 1
                         /\ \A w \in 0..n - 1 : Loop(1, NumLeaves)[w] = w * 1
    BY <1>1, LoopBegins
  <2>2. Workers = 0..n - 1 /\ \A w \in 0..n - 1 : at[w] = w /\ w \in Turns(w, n)
    BY <2>1, TurnsBegin DEF Init, Workers
  <2> QED
    BY <2>1, <2>2 DEF Shares
<1>3. FiniteNodes
  BY <1>1, FiniteSlices, FS_EmptySet DEF FiniteNodes, Init, Empty
<1> QED
  BY <1>1, <1>2, <1>3 DEF IInv, Init, HasLevels

LEMMA InputStays ==
    ASSUME IInv, UNCHANGED input
    PROVE  /\ routines' = routines /\ mode' = mode /\ (Parallel' <=> Parallel)
           /\ NumLeaves' = NumLeaves /\ Depth' = Depth
           /\ routines \in Nat /\ NumLeaves \in Nat /\ Depth \in Nat
BY DEF IInv, input, Parallel, NumLeaves, Depth

\* Workers keep the loop, its bound and the shape of the levels.
LEMMA WorkPreserves ==
    ASSUME IInv, NEW w \in Workers, Work(w)
    PROVE  IInv'
<1>1. UNCHANGED <<input, phase, step, length>> /\ DOMAIN nodes' = DOMAIN nodes /\ DOMAIN leaves' = DOMAIN leaves
      /\ \A i \in DOMAIN nodes : DOMAIN nodes'[i] = DOMAIN nodes[i]
  BY DEF Work, GenerateLeaf, UpdateProofs, HashLevel, BuildNode, level, tree
<1>2. /\ routines' = routines /\ mode' = mode
      /\ NumLeaves' = NumLeaves /\ Depth' = Depth
      /\ routines \in Nat /\ NumLeaves \in Nat /\ Depth \in Nat
  BY <1>1, InputStays
<1>3. FiniteNodes'
  BY <1>1 DEF IInv, FiniteNodes
<1>4. ASSUME phase \in {"leaves", "proofs", "level", "pool"}
      PROVE  \E n \in Nat : Shares(n)'
  <2>1. PICK n \in Nat : Shares(n)
    BY <1>4 DEF IInv
  <2>2. Cardinality(Workers) = n
    <3>1. Workers = 0..n - 1
      BY <2>1 DEF Shares
    <3> QED
      BY <3>1, FS_Interval
  <2>3. \E bound : Iterate(w, bound, (IF phase = "leaves" THEN 1 ELSE 2)
                                     * (IF phase = "pool" THEN routines ELSE n))
    <3>1. CASE GenerateLeaf(w)
      <4>1. phase = "leaves" /\ Iterate(w, NumLeaves, n) /\ 1 * n = n
        BY <2>2, <3>1 DEF GenerateLeaf
      <4> QED
        BY <4>1
    <3>2. CASE UpdateProofs(w)
      BY <2>2, <3>2 DEF UpdateProofs
    <3>3. CASE HashLevel(w)
      BY <2>2, <3>3 DEF HashLevel
    <3>4. CASE BuildNode(w)
      <4>1. phase = "pool" /\ Iterate(w, length, 2 * routines)
        BY <1>4, <3>4 DEF BuildNode
      <4> QED
        BY <4>1
    <3> QED
      BY <3>1, <3>2, <3>3, <3>4 DEF Work
  <2> QED
    BY <1>1, <1>2, <2>1, <2>3, IterationShares
<1> QED
  BY <1>1, <1>2, <1>3, <1>4 DEF IInv, HasLevels

\* The loops over the proofs, without a tree.
LEMMA ProofStepsPreserve ==
    ASSUME IInv, BeginProofs \/ NextStep \/ LevelDone
    PROVE  IInv'
<1>1. UNCHANGED <<input, leaves, nodes>> /\ mode = "ModeProofGen"
  BY DEF IInv, BeginProofs, NextStep, LevelDone, tree
<1>2. /\ routines' = routines /\ mode' = mode
      /\ NumLeaves' = NumLeaves /\ Depth' = Depth
      /\ routines \in Nat /\ NumLeaves \in Nat /\ Depth \in Nat /\ step \in Nat
  BY <1>1, InputStays DEF IInv
<1>3. FiniteNodes'
  BY <1>1 DEF IInv, FiniteNodes
<1>4. CASE BeginProofs
  <2>1. phase' = "proofs" /\ step' = step /\ length' \in Nat /\ at' = Loop(2, NumLeaves)
    BY <1>2, <1>4, FixedLengthType DEF BeginProofs
  <2>2. \E n \in Nat : Shares(n)'
    BY <1>2, <2>1, LoopShares
  <2> QED
    BY <1>1, <1>2, <1>3, <2>1, <2>2 DEF IInv, HasLevels
<1>5. CASE NextStep
  <2>1. length' \in Nat /\ length' = length
    BY <1>5 DEF IInv, NextStep
  <2>2. CASE phase' = "level" /\ step' = step + 1 /\ at' = Loop(2, length)
    <3>1. \E n \in Nat : Shares(n)'
      BY <1>2, <2>1, <2>2, LoopShares
    <3> QED
      BY <1>1, <1>2, <1>3, <2>1, <2>2, <3>1 DEF IInv, HasLevels
  <2>3. CASE phase' = "done" /\ step' = step
    BY <1>1, <1>2, <1>3, <2>1, <2>3 DEF IInv, HasLevels
  <2> QED
    BY <1>5, <2>2, <2>3 DEF NextStep
<1>6. CASE LevelDone
  <2>1. phase = "level" /\ length \in Nat
    BY <1>6 DEF IInv, LevelDone
  <2>2. phase' = "proofs" /\ step' = step /\ length' \in Nat /\ at' = Loop(2, length')
    BY <1>6, <2>1, FixedLengthType DEF LevelDone
  <2>3. \E n \in Nat : Shares(n)'
    BY <1>2, <2>2, LoopShares
  <2> QED
    BY <1>1, <1>2, <1>3, <2>2, <2>3 DEF IInv, HasLevels
<1> QED
  BY <1>4, <1>5, <1>6

\* The loops over the levels of the tree.
LEMMA LevelBegins ==
    ASSUME IInv, NEW p \in {"pool", "nodes"}, NEW i \in Nat, BeginLevel(p, i),
           UNCHANGED input, p = "pool" => Parallel, mode # "ModeProofGen" \/ phase \in {"pool", "nodes"},
           step' \in Nat, FiniteNodes', DOMAIN nodes' = 0..Depth - 1
    PROVE  IInv'
<1>1. /\ routines' = routines /\ mode' = mode
      /\ NumLeaves' = NumLeaves /\ Depth' = Depth
      /\ routines \in Nat /\ NumLeaves \in Nat /\ Depth \in Nat
  BY InputStays
<1>2. phase' = p /\ length' = i /\ (p = "pool" => at' = Loop(2, i))
  BY DEF BeginLevel
<1>3. p = "pool" => \E n \in Nat : Shares(n)'
  BY <1>1, <1>2, LoopShares
<1> QED
  BY <1>1, <1>2, <1>3 DEF IInv, HasLevels

LEMMA TreeStepsPreserve ==
    ASSUME IInv, BeginTree \/ NodesDone \/ PoolDone \/ TreeDone
    PROVE  IInv'
<1> DEFINE half(n) == FixedLength(n) \div 2
<1>1. UNCHANGED input /\ leaves' = leaves
  BY DEF BeginTree, NodesDone, PoolDone, TreeDone
<1>2. /\ routines' = routines /\ mode' = mode
      /\ NumLeaves' = NumLeaves /\ Depth' = Depth
      /\ routines \in Nat /\ NumLeaves \in Nat /\ Depth \in Nat /\ step \in Nat
  BY <1>1, InputStays DEF IInv
<1>3. /\ FixedLength(NumLeaves) \in Nat
      /\ \A n \in Nat : half(n) \in Int
  BY <1>2, FixedLengthType
<1>4. CASE BeginTree
  <2>1. BeginLevel(IF Parallel THEN "pool" ELSE "nodes", FixedLength(NumLeaves)) /\ mode # "ModeProofGen"
        /\ step' = step
    BY <1>4 DEF BeginTree
  <2>2. length' = FixedLength(NumLeaves)
    BY <2>1 DEF BeginLevel
  <2>3. DOMAIN nodes' = 0..Depth - 1
    BY <1>4 DEF BeginTree
  <2>4. \A i \in 0..Depth - 1 : nodes'[i] \in {FixOddLength(leaves, NumLeaves), Slice(half(NumLeaves)), Empty}
    BY <1>4, <2>2 DEF BeginTree
  <2>5. FiniteNodes'
    <3>1. IsFiniteSet(DOMAIN leaves)
      BY DEF IInv, FiniteNodes
    <3>2. IsFiniteSet(DOMAIN FixOddLength(leaves, NumLeaves))
      BY <1>2, <3>1, FixedIsFinite
    <3>3. IsFiniteSet(DOMAIN Slice(half(NumLeaves))) /\ IsFiniteSet(DOMAIN Empty)
      BY <1>2, <1>3, FiniteSlices
    <3> QED
      BY <1>1, <2>3, <2>4, <3>1, <3>2, <3>3 DEF FiniteNodes
  <2> QED
    BY <1>1, <1>2, <1>3, <2>1, <2>3, <2>5, LevelBegins
<1>5. CASE NodesDone
  <2>1. /\ phase \in {"pool", "nodes"} /\ length \in Nat /\ DOMAIN nodes = 0..Depth - 1
        /\ phase = "pool" => Parallel
    <3>1. phase = "pool" => Parallel
      BY DEF IInv, Shares
    <3> QED
      BY <1>5, <3>1 DEF IInv, NodesDone, HasLevels
  <2>2. length \div 2 \in Nat /\ FixedLength(length \div 2) \in Nat /\ half(length \div 2) \in Int
    <3>1. length \div 2 \in Nat
      BY <2>1
    <3> QED
      BY <1>3, <3>1, FixedLengthType
  <2>3. BeginLevel(phase, FixedLength(length \div 2)) /\ step' = step + 1
    BY <1>5 DEF NodesDone
  <2>4. length' = FixedLength(length \div 2)
    BY <2>3 DEF BeginLevel
  <2>5. /\ DOMAIN nodes' = DOMAIN nodes
        /\ \A i \in DOMAIN nodes :
              nodes'[i] \in {FixOddLength(nodes[i], length \div 2), Slice(half(length \div 2)), nodes[i]}
    BY <1>5, <2>4 DEF NodesDone
  <2>6. FiniteNodes'
    <3>1. IsFiniteSet(DOMAIN leaves) /\ \A i \in DOMAIN nodes : IsFiniteSet(DOMAIN nodes[i])
      BY DEF IInv, FiniteNodes
    <3>2. \A i \in DOMAIN nodes : IsFiniteSet(DOMAIN FixOddLength(nodes[i], length \div 2))
      BY <2>2, <3>1, FixedIsFinite
    <3>3. IsFiniteSet(DOMAIN Slice(half(length \div 2)))
      BY <2>2, FiniteSlices
    <3> QED
      BY <1>1, <2>5, <3>1, <3>2, <3>3 DEF FiniteNodes
  <2> QED
    BY <1>1, <1>2, <2>1, <2>2, <2>3, <2>5, <2>6, LevelBegins
<1>6. CASE PoolDone
  <2>1. phase = "pool" /\ DOMAIN nodes = 0..Depth - 1
    BY <1>6 DEF IInv, PoolDone, HasLevels
  <2>2. BeginLevel("nodes", FixedLength(NumLeaves)) /\ step' = 0
    BY <1>6 DEF PoolDone
  <2>3. length' = FixedLength(NumLeaves)
    BY <2>2 DEF BeginLevel
  <2>4. /\ DOMAIN nodes' = DOMAIN nodes
        /\ \A i \in DOMAIN nodes : nodes'[i] \in {Slice(half(NumLeaves)), nodes[i]}
    BY <1>6, <2>3 DEF PoolDone
  <2>5. FiniteNodes'
    <3>1. IsFiniteSet(DOMAIN Slice(half(NumLeaves)))
      BY <1>2, <1>3, FiniteSlices
    <3> QED
      BY <1>1, <2>4, <3>1 DEF IInv, FiniteNodes
  <2> QED
    BY <1>1, <1>3, <2>1, <2>2, <2>4, <2>5, LevelBegins
<1>7. CASE TreeDone
  <2>1. phase = "nodes" /\ phase' = "wait" /\ step' = step /\ nodes' = nodes /\ Depth >= 1
    BY <1>2, <1>7 DEF TreeDone, level
  <2>2. FiniteNodes'
    BY <1>1, <2>1 DEF IInv, FiniteNodes
  <2> QED
    BY <1>2, <2>1, <2>2 DEF IInv, HasLevels
<1> QED
  BY <1>4, <1>5, <1>6, <1>7

\* Once there is a tree: the map, and the proofs level by level.
LEMMA MapStepsPreserve ==
    ASSUME IInv, FillMap \/ WaitForMap \/ NextNodes
    PROVE  IInv'
<1>1. UNCHANGED <<input, leaves, nodes>>
  BY DEF FillMap, WaitForMap, NextNodes, tree
<1>2. /\ routines' = routines /\ mode' = mode
      /\ NumLeaves' = NumLeaves /\ Depth' = Depth
      /\ routines \in Nat /\ NumLeaves \in Nat /\ Depth \in Nat /\ step \in Nat
  BY <1>1, InputStays DEF IInv
<1>3. FiniteNodes'
  BY <1>1 DEF IInv, FiniteNodes
<1>4. CASE FillMap
  <2>1. UNCHANGED <<phase, at, step, length>>
    BY <1>4 DEF FillMap, level
  <2>2. \A n \in Nat : Shares(n) => Shares(n)'
    BY <1>2, <2>1 DEF Shares, Workers, Parallel
  <2> QED
    BY <1>1, <1>2, <1>3, <2>1, <2>2 DEF IInv, HasLevels
<1>5. ASSUME HasLevels, HasLevels', phase' = "proofs", step' \in 0..Depth - 1,
             length' = Cardinality(DOMAIN nodes[step']), at' = Loop(2, length')
      PROVE  IInv'
  <2>1. DOMAIN nodes = 0..Depth - 1
    BY <1>5 DEF IInv
  <2>2. length' \in Nat
    <3>1. IsFiniteSet(DOMAIN nodes[step'])
      BY <1>5, <2>1 DEF IInv, FiniteNodes
    <3> QED
      BY <1>5, <3>1, FS_CardinalityType
  <2>3. \E n \in Nat : Shares(n)'
    BY <1>2, <1>5, <2>2, LoopShares
  <2> QED
    BY <1>1, <1>2, <1>3, <1>5, <2>1, <2>2, <2>3 DEF IInv
<1>6. CASE WaitForMap
  <2>1. phase = "wait" /\ Depth >= 1 /\ HasLevels /\ mode # "ModeProofGen"
    BY <1>6 DEF IInv, WaitForMap, HasLevels
  <2>2. CASE phase' = "done" /\ step' = step
    BY <1>2, <1>3, <2>2 DEF IInv, HasLevels
  <2>3. CASE /\ phase' = "proofs" /\ step' = 0
             /\ length' = Cardinality(DOMAIN nodes[0]) /\ at' = Loop(2, length')
    <3>1. step' \in 0..Depth - 1
      BY <1>2, <2>1, <2>3
    <3> QED
      BY <1>1, <1>2, <1>3, <1>5, <2>1, <2>3, <3>1 DEF HasLevels
  <2> QED
    BY <1>6, <2>2, <2>3 DEF WaitForMap, AfterTree, level
<1>7. CASE NextNodes
  <2>1. phase = "proofs" /\ mode = "ModeProofGenAndTreeBuild" /\ HasLevels
    BY <1>7 DEF NextNodes, HasLevels
  <2>2. CASE phase' = "done" /\ step' = step
    BY <1>2, <1>3, <2>2 DEF IInv, HasLevels
  <2>3. CASE /\ step + 1 < Depth /\ phase' = phase /\ step' = step + 1
             /\ length' = Cardinality(DOMAIN nodes[step']) /\ at' = Loop(2, length')
    <3>1. step' \in 0..Depth - 1 /\ phase' = "proofs" /\ HasLevels'
      BY <1>2, <2>1, <2>3 DEF HasLevels
    <3> QED
      BY <1>5, <2>1, <2>3, <3>1
  <2> QED
    BY <1>7, <2>2, <2>3 DEF NextNodes
<1> QED
  BY <1>4, <1>6, <1>7

LEMMA StepPreserves == IInv /\ [Next]_vars => IInv'
<1> SUFFICES ASSUME IInv, [Next]_vars PROVE IInv'
  OBVIOUS
<1>1. CASE \E w \in Workers : Work(w)
  BY <1>1, WorkPreserves
<1>2. CASE BeginProofs \/ NextStep \/ LevelDone
  BY <1>2, ProofStepsPreserve
<1>3. CASE BeginTree \/ NodesDone \/ PoolDone \/ TreeDone
  BY <1>3, TreeStepsPreserve
<1>4. CASE FillMap \/ WaitForMap \/ NextNodes
  BY <1>4, MapStepsPreserve
<1>5. CASE UNCHANGED vars
  <2>1. UNCHANGED <<input, phase, at, step, length, leaves, nodes>>
    BY <1>5 DEF vars, level, tree
  <2>2. /\ routines' = routines /\ mode' = mode
        /\ NumLeaves' = NumLeaves /\ Depth' = Depth
    BY <2>1, InputStays
  <2>3. \A n \in Nat : Shares(n) => Shares(n)'
    BY <2>1, <2>2 DEF Shares, Workers, Parallel
  <2>4. FiniteNodes'
    BY <2>1 DEF IInv, FiniteNodes
  <2> QED
    BY <2>1, <2>2, <2>3, <2>4 DEF IInv, HasLevels
<1> QED
  BY <1>1, <1>2, <1>3, <1>4, <1>5 DEF Next, Finished

-----------------------------------------------------------------------------
(* The levels that New computes                                              *)

\* The nodes of a level as the slices of New hold them.
Width(bs, k) == FixedLength(LastNode(bs, k) + 1)
HoldsLevel(bs, buf, k) ==
    \A j \in 0..Width(bs, k) - 1 : j \in DOMAIN buf /\ buf[j] = Padded(bs, k, j)

LEMMA FixedWidth ==
    ASSUME NEW n \in Nat \ {0}
    PROVE  /\ FixedLength(n) \in Nat /\ FixedLength(n) \div 2 = ((n - 1) \div 2) + 1
           /\ \A i \in 0..(n - 1) \div 2 : /\ i \in Nat /\ 2 * i \in 0..n - 1
                                           /\ 2 * i + 1 \in 0..FixedLength(n) - 1
                                           /\ 2 * i \in 0..FixedLength(n) - 1
           /\ n <= FixedLength(n) /\ FixedLength(n) <= n + 1
           /\ \A j \in 0..FixedLength(n) - 1 : j \in Nat /\ (j \in 0..n - 1 \/ (j = n /\ n % 2 # 0))
           /\ n % 2 = 0 => FixedLength(n) = n
           /\ n % 2 # 0 => FixedLength(n) = n + 1
           /\ \A i \in Nat : 2 * i < FixedLength(n) => i \in 0..(n - 1) \div 2
BY DEF FixedLength

\* Half of a level's slice is the next level.
LEMMA WidthIs ==
    ASSUME NEW bs \in Blocks, Len(bs) >= 1, NEW k \in 0..Len(bs) - 1
    PROVE  /\ Width(bs, k) \in Nat /\ Width(bs, k) \div 2 = LastNode(bs, k + 1) + 1
           /\ LastNode(bs, k) \in Nat /\ LastNode(bs, k + 1) \in Nat
           /\ LastNode(bs, k) < Width(bs, k)
           /\ \A i \in 0..LastNode(bs, k + 1) :
                 i \in Nat /\ 2 * i \in 0..LastNode(bs, k) /\ 2 * i + 1 \in 0..Width(bs, k) - 1
                 /\ 2 * i \in 0..Width(bs, k) - 1
           /\ \A i \in Nat : 2 * i < Width(bs, k) => i \in 0..LastNode(bs, k + 1)
<1>1. LastNode(bs, k) \in Nat /\ LastNode(bs, k + 1) = LastNode(bs, k) \div 2
  BY LevelAbove
<1>2. PICK n \in Nat \ {0} : n = LastNode(bs, k) + 1
  BY <1>1
<1>3. Width(bs, k) = FixedLength(n)
  BY <1>2 DEF Width
<1>4. LastNode(bs, k) = n - 1
  BY <1>1, <1>2
<1>5. /\ FixedLength(n) \in Nat /\ FixedLength(n) \div 2 = ((n - 1) \div 2) + 1 /\ n <= FixedLength(n)
      /\ \A i \in 0..(n - 1) \div 2 : /\ i \in Nat /\ 2 * i \in 0..n - 1
                                      /\ 2 * i + 1 \in 0..FixedLength(n) - 1
                                      /\ 2 * i \in 0..FixedLength(n) - 1
      /\ \A i \in Nat : 2 * i < FixedLength(n) => i \in 0..(n - 1) \div 2
  BY FixedWidth
<1>6. (n - 1) \div 2 = LastNode(bs, k + 1)
  BY <1>1, <1>4
<1>7. (n - 1) \div 2 \in Nat /\ n - 1 < FixedLength(n)
  BY <1>5
<1> QED
  BY <1>1, <1>3, <1>4, <1>5, <1>6, <1>7

LEMMA HashOfPair ==
    ASSUME NEW bs \in Blocks, Len(bs) >= 1, NEW k \in 0..Len(bs) - 1, NEW buf,
           NEW i \in 0..LastNode(bs, k + 1),
           buf[2 * i] = Padded(bs, k, 2 * i), buf[2 * i + 1] = Padded(bs, k, 2 * i + 1)
    PROVE  Concat(buf[2 * i], buf[2 * i + 1]) = Node(bs, k + 1, i)
<1>1. i \in Nat /\ 2 * i \in 0..LastNode(bs, k) /\ LastNode(bs, k) \in Nat
  BY WidthIs
<1>2. 2 * i <= LastNode(bs, k)
  BY <1>1
<1>3. Padded(bs, k, 2 * i) = Node(bs, k, 2 * i)
  BY <1>2 DEF Padded
<1> QED
  BY <1>3, NodeIs

LEMMA FixHoldsLevel ==
    ASSUME NEW bs \in Blocks, Len(bs) >= 1, NEW k \in 0..Len(bs), NEW buf,
           \A i \in 0..LastNode(bs, k) : i \in DOMAIN buf /\ buf[i] = Node(bs, k, i)
    PROVE  /\ HoldsLevel(bs, FixOddLength(buf, LastNode(bs, k) + 1), k)
           /\ DOMAIN buf = 0..LastNode(bs, k) =>
                 DOMAIN FixOddLength(buf, LastNode(bs, k) + 1) = 0..Width(bs, k) - 1
<1>1. PICK n \in Nat \ {0} : n = LastNode(bs, k) + 1
  <2>1. LastNode(bs, k) \in Nat
    BY LastNodes
  <2> QED
    BY <2>1
<1>2. LastNode(bs, k) = n - 1
  <2>1. LastNode(bs, k) \in Nat
    BY LastNodes
  <2> QED
    BY <1>1, <2>1
<1>3. Width(bs, k) = FixedLength(n)
  BY <1>1 DEF Width
<1>4. ASSUME NEW j \in 0..FixedLength(n) - 1
      PROVE  j \in DOMAIN FixOddLength(buf, n) /\ FixOddLength(buf, n)[j] = Padded(bs, k, j)
  <2>1. CASE j \in 0..n - 1
    <3>1. j \in DOMAIN buf /\ buf[j] = Node(bs, k, j) /\ j # n /\ j <= n - 1
      BY <1>2, <2>1
    <3> QED
      BY <1>2, <3>1 DEF FixOddLength, Padded
  <2>2. CASE j = n /\ n % 2 # 0
    <3>1. n - 1 \in 0..LastNode(bs, k) /\ ~(n <= n - 1)
      BY <1>2
    <3>2. buf[n - 1] = Node(bs, k, n - 1)
      BY <3>1
    <3> QED
      BY <1>2, <2>2, <3>1, <3>2 DEF FixOddLength, Padded
  <2> QED
    BY <2>1, <2>2, FixedWidth
<1>5. ASSUME DOMAIN buf = 0..LastNode(bs, k)
      PROVE  DOMAIN FixOddLength(buf, n) = 0..FixedLength(n) - 1
  <2>1. CASE n % 2 = 0
    <3>1. FixedLength(n) = n /\ FixOddLength(buf, n) = buf
      BY <2>1, FixedWidth DEF FixOddLength
    <3> QED
      BY <1>2, <1>5, <3>1
  <2>2. CASE n % 2 # 0
    <3>1. FixedLength(n) = n + 1 /\ DOMAIN FixOddLength(buf, n) = DOMAIN buf \cup {n}
      BY <2>2, FixedWidth DEF FixOddLength
    <3> QED
      BY <1>2, <1>5, <3>1
  <2> QED
    BY <2>1, <2>2
<1> QED
  BY <1>1, <1>3, <1>4, <1>5 DEF HoldsLevel

-----------------------------------------------------------------------------
(* The turns to come                                                         *)

\* At the places t of a loop's workers, turn q is still to come.
Comes(t, unit, q) ==
    \E w \in DOMAIN t, i \in Nat : t[w] = unit * i /\ q \in Turns(i, Cardinality(DOMAIN t))

LEMMA TurnsAhead ==
    ASSUME NEW i \in Nat, NEW s \in Nat
    PROVE  /\ \A q \in Turns(i, s) : q \in Nat /\ i <= q
           /\ \A q \in Turns(i, s) : q = i \/ q \in Turns(i + s, s)
           /\ Turns(i + s, s) \subseteq Turns(i, s)
<1>1. ASSUME NEW q \in Turns(i, s)
      PROVE  q \in Nat /\ i <= q /\ (q = i \/ q \in Turns(i + s, s))
  <2>1. PICK k \in Nat : q = i + s * k
    BY DEF Turns
  <2>2. s * k \in Nat
    OBVIOUS
  <2>3. CASE k = 0
    BY <2>1, <2>2, <2>3
  <2>4. CASE k # 0
    <3>1. PICK j \in Nat : k = j + 1
      <4>1. k - 1 \in Nat /\ k = (k - 1) + 1
        BY <2>4
      <4> QED
        BY <4>1
    <3>2. s * k = s + s * j /\ s * j \in Nat
      BY <3>1
    <3>3. q = (i + s) + s * j
      BY <2>1, <3>2
    <3> QED
      BY <2>1, <2>2, <3>3 DEF Turns
  <2> QED
    BY <2>3, <2>4
<1>2. ASSUME NEW q \in Turns(i + s, s) PROVE q \in Turns(i, s)
  <2>1. PICK k \in Nat : q = (i + s) + s * k
    BY DEF Turns
  <2>2. s * (k + 1) = s + s * k /\ s * k \in Nat /\ k + 1 \in Nat
    OBVIOUS
  <2>3. q = i + s * (k + 1)
    BY <2>1, <2>2
  <2> QED
    BY <2>2, <2>3 DEF Turns
<1> QED
  BY <1>1, <1>2

\* A loop that begins has all its turns ahead.
LEMMA AllCome ==
    ASSUME routines \in Nat, NEW unit \in {1, 2}, NEW bound \in Nat \ {0}, NEW q \in Nat
    PROVE  Comes(Loop(unit, bound), unit, q)
<1> DEFINE t == Loop(unit, bound)
<1>1. PICK n \in Nat \ {0} : DOMAIN t = 0..n - 1 /\ \A w \in 0..n - 1 : t[w] = w * unit
  <2>1. CASE Parallel
    <3> DEFINE n == Min({routines, bound})
    <3>1. n \in Nat \ {0}
      BY <2>1, Lower DEF Parallel
    <3>2. t = [w \in 0..n - 1 |-> w * unit]
      BY <2>1 DEF Loop
    <3> HIDE DEF n, t
    <3> QED
      BY <3>1, <3>2
  <2>2. CASE ~Parallel
    <3>1. t = [w \in 0..1 - 1 |-> w * unit]
      BY <2>2 DEF Loop
    <3> HIDE DEF t
    <3> QED
      BY <3>1
  <2> QED
    BY <2>1, <2>2
<1> HIDE DEF t
<1>2. Cardinality(DOMAIN t) = n
  BY <1>1, FS_Interval
<1>3. PICK w \in 0..n - 1 : w = q % n
  BY Divides
<1>4. q \div n \in Nat /\ q = w + n * (q \div n)
  <2>1. q \div n \in Nat /\ q = n * (q \div n) + (q % n)
    BY Divides
  <2>2. n * (q \div n) \in Nat
    BY <2>1
  <2> QED
    BY <1>3, <2>1, <2>2
<1>5. q \in Turns(w, n)
  BY <1>4 DEF Turns
<1>6. w \in Nat /\ w \in DOMAIN t /\ t[w] = unit * w
  BY <1>1
<1>7. Comes(t, unit, q)
  BY <1>2, <1>5, <1>6 DEF Comes
<1> QED
  BY <1>7 DEF t

\* A loop that is done has none below its bound.
LEMMA NoneComes ==
    ASSUME NEW t, NEW unit \in {1, 2}, NEW bound \in Nat, NEW q \in Nat, unit * q < bound,
           \A w \in DOMAIN t : t[w] >= bound, Cardinality(DOMAIN t) \in Nat
    PROVE  ~Comes(t, unit, q)
<1> SUFFICES ASSUME NEW w \in DOMAIN t, NEW i \in Nat, t[w] = unit * i,
                    q \in Turns(i, Cardinality(DOMAIN t))
             PROVE  FALSE
  BY DEF Comes
<1>1. i <= q
  BY TurnsAhead
<1>2. unit * i >= bound
  OBVIOUS
<1> QED
  BY <1>1, <1>2

\* A worker that goes on takes one turn from those to come.
LEMMA OthersCome ==
    ASSUME NEW t, NEW u, NEW unit \in {1, 2}, NEW i \in Nat, NEW w \in DOMAIN t, t[w] = unit * i,
           Cardinality(DOMAIN t) \in Nat, DOMAIN u = DOMAIN t,
           u[w] = unit * (i + Cardinality(DOMAIN t)), \A v \in DOMAIN t \ {w} : u[v] = t[v]
    PROVE  /\ Comes(t, unit, i)
           /\ \A q : Comes(t, unit, q) => q = i \/ Comes(u, unit, q)
           /\ \A q : Comes(u, unit, q) => Comes(t, unit, q)
<1> DEFINE s == Cardinality(DOMAIN t)
<1>1. Comes(t, unit, i)
  BY TurnsBegin DEF Comes
<1>2. ASSUME NEW q, Comes(t, unit, q), q # i
      PROVE  Comes(u, unit, q)
  <2>1. PICK v \in DOMAIN t, k \in Nat : t[v] = unit * k /\ q \in Turns(k, s)
    BY <1>2 DEF Comes
  <2>2. CASE v = w
    <3>1. k = i
      BY <2>1, <2>2
    <3> HIDE DEF s
    <3>2. s \in Nat
      BY DEF s
    <3>3. q \in Turns(i + s, s) /\ i + s \in Nat
      BY <1>2, <2>1, <3>1, <3>2, TurnsAhead
    <3> QED
      BY <2>2, <3>3 DEF Comes, s
  <2>3. CASE v # w
    BY <2>1, <2>3 DEF Comes
  <2> QED
    BY <2>2, <2>3
<1>3. ASSUME NEW q, Comes(u, unit, q)
      PROVE  Comes(t, unit, q)
  <2>1. PICK v \in DOMAIN t, k \in Nat : u[v] = unit * k /\ q \in Turns(k, s)
    BY <1>3 DEF Comes
  <2>2. CASE v = w
    <3> HIDE DEF s
    <3>1. s \in Nat
      BY DEF s
    <3>2. u[w] = unit * (i + s)
      BY DEF s
    <3>3. k = i + s
      BY <2>1, <2>2, <3>1, <3>2
    <3>4. q \in Turns(i, s)
      BY <2>1, <3>1, <3>3, TurnsAhead
    <3> QED
      BY <3>4 DEF Comes, s
  <2>3. CASE v # w
    BY <2>1, <2>3 DEF Comes
  <2> QED
    BY <2>2, <2>3
<1> QED
  BY <1>1, <1>2, <1>3

LEMMA TurnsFollow ==
    ASSUME NEW w \in Nat, NEW s \in Nat, NEW i \in Turns(w, s)
    PROVE  Turns(i, s) \subseteq Turns(w, s)
<1> SUFFICES ASSUME NEW q \in Turns(i, s) PROVE q \in Turns(w, s)
  OBVIOUS
<1>1. PICK j \in Nat : i = w + s * j
  BY DEF Turns
<1>2. PICK k \in Nat : q = i + s * k
  BY DEF Turns
<1>3. s * (j + k) = s * j + s * k /\ s * j \in Nat /\ s * k \in Nat /\ j + k \in Nat
  OBVIOUS
<1>4. q = w + s * (j + k)
  BY <1>1, <1>2, <1>3
<1> QED
  BY <1>3, <1>4 DEF Turns

\* A worker of a loop over turns that no other worker takes.
LEMMA TurnTaken ==
    ASSUME IInv, phase \in {"leaves", "proofs", "level"}, NEW w \in Workers, NEW bound,
           NEW unit \in {1, 2}, unit = IF phase = "leaves" THEN 1 ELSE 2,
           Iterate(w, bound, unit * Cardinality(Workers))
    PROVE  /\ Cardinality(Workers) \in Nat
           /\ \E i \in Nat :
                 /\ at[w] = unit * i /\ unit * i < bound
                 /\ Comes(at, unit, i) /\ ~Comes(at', unit, i)
                 /\ \A q : Comes(at, unit, q) => q = i \/ Comes(at', unit, q)
                 /\ \A q : Comes(at', unit, q) => Comes(at, unit, q)
<1>1. PICK n \in Nat : Shares(n)
  BY DEF IInv
<1>2. Workers = 0..n - 1 /\ Cardinality(Workers) = n /\ w \in 0..n - 1
  <2>1. Workers = 0..n - 1
    BY <1>1 DEF Shares
  <2> QED
    BY <2>1, FS_Interval
<1>3. \A v \in Workers : \E k \in Turns(v, n) : at[v] = unit * k
  <2> SUFFICES ASSUME NEW v \in Workers PROVE \E k \in Turns(v, n) : at[v] = unit * k
    OBVIOUS
  <2>1. PICK k \in Turns(v, n) : at[v] = IF phase = "leaves" THEN k ELSE 2 * k
    BY <1>1 DEF Shares
  <2>2. k \in Nat
    BY <1>2, TurnsGoOn
  <2>3. at[v] = unit * k
    BY <2>1, <2>2
  <2> QED
    BY <2>3
<1>4. PICK i \in Turns(w, n) : at[w] = unit * i
  BY <1>3
<1>5. i \in Nat
  BY <1>2, <1>4, TurnsGoOn
<1>6. /\ DOMAIN at' = DOMAIN at /\ at'[w] = at[w] + unit * n /\ at[w] < bound
      /\ \A v \in DOMAIN at \ {w} : at'[v] = at[v]
  BY <1>2 DEF Iterate, Workers
<1>7. at'[w] = unit * (i + n)
  BY <1>4, <1>5, <1>6
<1>8. /\ Comes(at, unit, i)
      /\ \A q : Comes(at, unit, q) => q = i \/ Comes(at', unit, q)
      /\ \A q : Comes(at', unit, q) => Comes(at, unit, q)
  <2>1. Cardinality(DOMAIN at) = n /\ w \in DOMAIN at
    BY <1>2 DEF Workers
  <2> QED
    BY <2>1, <1>4, <1>5, <1>6, <1>7, OthersCome
<1>9. ASSUME Comes(at', unit, i) PROVE FALSE
  <2>1. PICK v \in DOMAIN at', k \in Nat : at'[v] = unit * k /\ i \in Turns(k, Cardinality(DOMAIN at'))
    BY <1>9 DEF Comes
  <2>2. Cardinality(DOMAIN at') = n /\ v \in Workers /\ v \in 0..n - 1
    BY <1>2, <1>6, <2>1 DEF Workers
  <2>3. i \in Turns(k, n) /\ k <= i
    BY <2>1, <2>2, <1>1, TurnsAhead
  <2>4. CASE v = w
    <3>1. k = i + n /\ n > 0
      BY <1>2, <1>5, <1>7, <2>1, <2>4
    <3> QED
      BY <1>5, <2>3, <3>1
  <2>5. CASE v # w
    <3>1. PICK j \in Turns(v, n) : at[v] = unit * j
      BY <1>3, <2>2
    <3>2. j \in Nat
      BY <2>2, TurnsGoOn
    <3>3. j = k
      <4>1. at[v] = unit * k
        BY <1>6, <2>1, <2>2, <2>5 DEF Workers
      <4> QED
        BY <3>1, <3>2, <4>1
    <3>4. i \in Turns(v, n)
      BY <2>2, <2>3, <3>1, <3>3, TurnsFollow
    <3>5. Turns(v, n) \cap Turns(w, n) = {}
      BY <1>2, <2>2, <2>5, TurnsDiffer
    <3> QED
      BY <1>4, <3>4, <3>5
  <2> QED
    BY <2>4, <2>5
<1> QED
  BY <1>2, <1>4, <1>5, <1>6, <1>8, <1>9

-----------------------------------------------------------------------------
(* What New computes                                                         *)

LeavesInv ==
    /\ blocks \in Blocks
    /\ DOMAIN leaves = 0..NumLeaves - 1
    /\ phase # "failed" => NumLeaves >= 2
    /\ phase = "leaves" => step = 0
    /\ phase # "failed" => \A i \in 0..NumLeaves - 1 :
          ~(phase = "leaves" /\ Comes(at, 1, i)) => leaves[i] = LeafHash(blocks[i + 1])

\* The buffers of generateProofs and buildTree.  Hashing in place leaves what is
\* still to be hashed, hashing with workers the whole buffer it reads.
LevelInv ==
    /\ phase \in {"proofs", "nodes", "wait"} => step \in 0..Depth - 1
    /\ phase \in {"proofs", "nodes"} => length = Width(blocks, step)
    /\ phase = "proofs" => HoldsLevel(blocks, buffer, step)
    /\ phase = "proofs" /\ mode = "ModeProofGen" /\ Parallel =>
          \A i \in 0..LastNode(blocks, step + 1) : i \in DOMAIN temp
HashedInv ==
    phase = "level" =>
        /\ step \in 1..Depth - 1 /\ length = Width(blocks, step - 1)
        /\ \A j \in 0..length - 1 :
              /\ j \in DOMAIN buffer
              /\ Parallel \/ at[0] <= j => buffer[j] = Padded(blocks, step - 1, j)
        /\ LET hashed == IF Parallel THEN temp ELSE buffer
           IN  \A i \in 0..LastNode(blocks, step) :
                  i \in DOMAIN hashed /\ (~Comes(at, 2, i) => hashed[i] = Node(blocks, step, i))

HeldUpTo(bs, held, n) ==
    \A k \in 0..n : DOMAIN held[k] = 0..Width(bs, k) - 1 /\ HoldsLevel(bs, held[k], k)
\* The first level is there while the pool computes levels that buildTree will
\* compute again.
NodesInv ==
    /\ phase = "pool" => HeldUpTo(blocks, nodes, 0)
    /\ phase = "nodes" =>
          /\ HeldUpTo(blocks, nodes, step)
          /\ Workers = {0} /\ \E i \in Nat : at[0] = 2 * i
          /\ step + 1 < Depth =>
                /\ DOMAIN nodes[step + 1] = 0..LastNode(blocks, step + 1)
                /\ \A i \in 0..LastNode(blocks, step + 1) :
                      2 * i < at[0] => nodes[step + 1][i] = Node(blocks, step + 1, i)
    /\ phase = "wait" \/ (phase = "proofs" /\ mode # "ModeProofGen") => HeldUpTo(blocks, nodes, Depth - 1)
    /\ phase = "wait" \/ (phase = "proofs" /\ mode # "ModeProofGen") \/ phase = "done" =>
          Root = Node(blocks, Depth, 0)

TreeInv == IInv /\ LeavesInv /\ LevelInv /\ HashedInv /\ NodesInv

LEMMA InvDepth ==
    ASSUME LeavesInv, phase # "failed"
    PROVE  /\ blocks \in Blocks /\ Len(blocks) \in Nat /\ NumLeaves = Len(blocks) /\ Len(blocks) >= 2
           /\ Depth \in 1..Len(blocks) /\ LastNode(blocks, Depth) = 0
           /\ \A k \in 0..Depth - 1 : k \in 0..Len(blocks) - 1 /\ k \in 0..Len(blocks)
           /\ LastNode(blocks, 0) = Len(blocks) - 1 /\ Width(blocks, 0) = FixedLength(NumLeaves)
           /\ \A i \in 0..NumLeaves - 1 : LeafHash(blocks[i + 1]) = Node(blocks, 0, i)
<1>1. blocks \in Blocks /\ NumLeaves = Len(blocks) /\ NumLeaves >= 2
  BY DEF LeavesInv, NumLeaves
<1>2. Depth \in 0..Len(blocks) /\ IsDepth(Len(blocks), Depth) /\ Len(blocks) \in Nat
  BY <1>1, DepthType
<1>3. LastNode(blocks, Depth) = 0
  BY <1>1, <1>2, DepthIsTop
<1>4. LastNode(blocks, 0) = Len(blocks) - 1
  BY <1>1, <1>2, LastNodes
<1>5. Depth # 0
  BY <1>1, <1>2, <1>3, <1>4
<1>6. Width(blocks, 0) = FixedLength(NumLeaves)
  BY <1>1, <1>2, <1>4 DEF Width
<1>7. \A i \in 0..LastNode(blocks, 0) : Node(blocks, 0, i) = LeafHash(blocks[i + 1])
  BY <1>1, <1>2, NodeIs
<1> QED
  BY <1>1, <1>2, <1>3, <1>4, <1>5, <1>6, <1>7

LEMMA Unchanged ==
    ASSUME TreeInv, UNCHANGED input
    PROVE  /\ blocks' = blocks /\ mode' = mode /\ routines' = routines /\ (Parallel' <=> Parallel)
           /\ NumLeaves' = NumLeaves /\ Depth' = Depth
BY InputStays DEF TreeInv, input

\* Leaves, once computed, stay.
LEMMA LeavesStay ==
    ASSUME TreeInv, UNCHANGED input, leaves' = leaves, phase \notin {"leaves", "failed"},
           phase' \notin {"leaves", "failed"}
    PROVE  LeavesInv'
<1>1. blocks' = blocks /\ NumLeaves' = NumLeaves
  BY Unchanged
<1> QED
  BY <1>1 DEF TreeInv, LeavesInv

LEMMA HowManyWorkers ==
    ASSUME IInv, phase \in {"leaves", "proofs", "level", "pool"}
    PROVE  Cardinality(Workers) \in Nat
<1>1. PICK n \in Nat : Workers = 0..n - 1
  BY DEF IInv, Shares
<1>2. Cardinality(0..n - 1) = n
  BY FS_Interval
<1> QED
  BY <1>1, <1>2

LEMMA GenerateLeafComputes ==
    ASSUME TreeInv, NEW w \in Workers, GenerateLeaf(w)
    PROVE  LeavesInv' /\ LevelInv' /\ HashedInv' /\ NodesInv'
<1>1. blocks' = blocks /\ NumLeaves' = NumLeaves /\ phase = "leaves" /\ phase' = "leaves" /\ step' = step
  BY Unchanged DEF GenerateLeaf, level
<1>2. Cardinality(Workers) \in Nat
  BY <1>1, HowManyWorkers DEF TreeInv
<1>3. Iterate(w, NumLeaves, 1 * Cardinality(Workers))
  <2>1. 1 * Cardinality(Workers) = Cardinality(Workers)
    BY <1>2
  <2> QED
    BY <2>1 DEF GenerateLeaf
<1>4. PICK i \in Nat : /\ at[w] = 1 * i /\ 1 * i < NumLeaves
                       /\ \A q : Comes(at, 1, q) => q = i \/ Comes(at', 1, q)
  BY <1>1, <1>3, TurnTaken DEF TreeInv
<1>5. at[w] = i /\ i \in 0..NumLeaves - 1
  BY <1>4 DEF TreeInv, IInv
<1>6. leaves' = [leaves EXCEPT ![i] = LeafHash(blocks[i + 1])]
  BY <1>5 DEF GenerateLeaf
<1>7. LeavesInv'
  <2>1. DOMAIN leaves = 0..NumLeaves - 1
        /\ \A q \in 0..NumLeaves - 1 : ~Comes(at, 1, q) => leaves[q] = LeafHash(blocks[q + 1])
    BY <1>1 DEF TreeInv, LeavesInv
  <2>2. ASSUME NEW q \in 0..NumLeaves - 1, ~Comes(at', 1, q)
        PROVE  leaves'[q] = LeafHash(blocks[q + 1])
    BY <1>4, <1>5, <1>6, <2>1, <2>2
  <2>3. DOMAIN leaves' = 0..NumLeaves - 1
    BY <1>6, <2>1
  <2> QED
    BY <1>1, <2>2, <2>3 DEF TreeInv, LeavesInv
<1> QED
  BY <1>1, <1>7 DEF LevelInv, HashedInv, NodesInv

\* When no leaf is to come, all are there.
LEMMA LeavesAreDone ==
    ASSUME TreeInv, phase = "leaves", LoopDone(NumLeaves)
    PROVE  /\ \A i \in 0..NumLeaves - 1 : leaves[i] = LeafHash(blocks[i + 1])
           /\ \A i \in 0..LastNode(blocks, 0) : i \in DOMAIN leaves /\ leaves[i] = Node(blocks, 0, i)
           /\ HoldsLevel(blocks, FixOddLength(leaves, NumLeaves), 0)
           /\ DOMAIN FixOddLength(leaves, NumLeaves) = 0..Width(blocks, 0) - 1
<1>2. Cardinality(DOMAIN at) \in Nat
  BY HowManyWorkers DEF TreeInv, Workers
<1>3. NumLeaves \in Nat
  BY DEF TreeInv, IInv
<1>4. ASSUME NEW i \in 0..NumLeaves - 1 PROVE leaves[i] = LeafHash(blocks[i + 1])
  <2>1. ~Comes(at, 1, i)
    <3>1. i \in Nat /\ 1 * i < NumLeaves
      BY <1>3
    <3> QED
      BY <1>2, <1>3, <3>1, NoneComes DEF LoopDone, Workers
  <2> QED
    BY <2>1 DEF TreeInv, LeavesInv
<1>5. /\ blocks \in Blocks /\ Len(blocks) \in Nat /\ NumLeaves = Len(blocks) /\ Len(blocks) >= 2
      /\ LastNode(blocks, 0) = Len(blocks) - 1
      /\ \A i \in 0..NumLeaves - 1 : LeafHash(blocks[i + 1]) = Node(blocks, 0, i)
  BY InvDepth DEF TreeInv
<1>6. \A i \in 0..LastNode(blocks, 0) : i \in DOMAIN leaves /\ leaves[i] = Node(blocks, 0, i)
  BY <1>4, <1>5 DEF TreeInv, LeavesInv
<1>7. 0 \in 0..Len(blocks) /\ LastNode(blocks, 0) + 1 = NumLeaves /\ DOMAIN leaves = 0..LastNode(blocks, 0)
  BY <1>5 DEF TreeInv, LeavesInv
<1> QED
  BY <1>4, <1>5, <1>6, <1>7, FixHoldsLevel

LEMMA BeginProofsComputes ==
    ASSUME TreeInv, BeginProofs
    PROVE  LeavesInv' /\ LevelInv' /\ HashedInv' /\ NodesInv'
<1>1. /\ blocks' = blocks /\ mode' = mode /\ (Parallel' <=> Parallel) /\ NumLeaves' = NumLeaves /\ Depth' = Depth
      /\ phase = "leaves" /\ phase' = "proofs" /\ mode = "ModeProofGen" /\ LoopDone(NumLeaves)
      /\ leaves' = leaves /\ step' = step
  BY Unchanged DEF BeginProofs
<1>2. /\ blocks \in Blocks /\ Len(blocks) \in Nat /\ Len(blocks) >= 2 /\ Depth \in 1..Len(blocks)
      /\ Width(blocks, 0) = FixedLength(NumLeaves)
  BY <1>1, InvDepth DEF TreeInv
<1>3. /\ \A i \in 0..NumLeaves - 1 : leaves[i] = LeafHash(blocks[i + 1])
      /\ HoldsLevel(blocks, FixOddLength(leaves, NumLeaves), 0)
  BY <1>1, LeavesAreDone
<1>4. LeavesInv'
  BY <1>1, <1>3 DEF TreeInv, LeavesInv
<1>5. LevelInv'
  <2>1. step = 0
    BY <1>1 DEF TreeInv, LeavesInv
  <2>2. length' = Width(blocks, 0) /\ HoldsLevel(blocks, buffer', 0) /\ 0 \in 0..Depth - 1
    BY <1>2, <1>3 DEF BeginProofs
  <2>3. Parallel => \A i \in 0..LastNode(blocks, 1) : i \in DOMAIN temp'
    <3>1. Width(blocks, 0) \div 2 = LastNode(blocks, 0 + 1) + 1 /\ LastNode(blocks, 0 + 1) \in Nat
      <4>1. 0 \in 0..Len(blocks) - 1 /\ Len(blocks) >= 1
        BY <1>2
      <4> QED
        BY <1>2, <4>1, WidthIs
    <3>2. Parallel => temp' = Slice(length' \div 2)
      BY DEF BeginProofs
    <3> QED
      BY <2>2, <3>1, <3>2 DEF Slice
  <2>4. Parallel => \A i \in 0..LastNode(blocks, step + 1) : i \in DOMAIN temp'
    BY <2>1, <2>3
  <2> QED
    BY <1>1, <2>1, <2>2, <2>4 DEF LevelInv
<1> QED
  BY <1>1, <1>4, <1>5 DEF HashedInv, NodesInv

LEMMA UpdateProofsComputes ==
    ASSUME TreeInv, NEW w \in Workers, UpdateProofs(w)
    PROVE  LeavesInv' /\ LevelInv' /\ HashedInv' /\ NodesInv'
<1>1. /\ blocks' = blocks /\ mode' = mode /\ (Parallel' <=> Parallel) /\ NumLeaves' = NumLeaves /\ Depth' = Depth
      /\ phase = "proofs" /\ phase' = "proofs"
      /\ leaves' = leaves /\ nodes' = nodes /\ Root' = Root
      /\ step' = step /\ buffer' = buffer /\ temp' = temp /\ length' = length
  BY Unchanged DEF UpdateProofs, level
<1>2. LeavesInv'
  BY <1>1, LeavesStay DEF UpdateProofs
<1>3. LevelInv'
  BY <1>1 DEF TreeInv, LevelInv
<1>4. NodesInv'
  BY <1>1 DEF TreeInv, NodesInv
<1> QED
  BY <1>1, <1>2, <1>3, <1>4 DEF HashedInv

LEMMA HashLevelComputes ==
    ASSUME TreeInv, NEW w \in Workers, HashLevel(w)
    PROVE  LeavesInv' /\ LevelInv' /\ HashedInv' /\ NodesInv'
<1>1. /\ blocks' = blocks /\ (Parallel' <=> Parallel) /\ NumLeaves' = NumLeaves /\ Depth' = Depth
      /\ phase = "level" /\ phase' = "level"
      /\ leaves' = leaves /\ step' = step /\ length' = length
  BY Unchanged DEF HashLevel, tree
<1>2. LeavesInv'
  BY <1>1, LeavesStay DEF HashLevel
<1>3. /\ blocks \in Blocks /\ Len(blocks) \in Nat /\ Len(blocks) >= 1
      /\ Depth \in 1..Len(blocks) /\ \A k \in 0..Depth - 1 : k \in 0..Len(blocks) - 1
  BY <1>1, InvDepth DEF TreeInv
<1>4. PICK k \in 0..Depth - 1 : step = k + 1 /\ k = step - 1 /\ k + 1 \in 1..Depth - 1
  <2>1. step \in 1..Depth - 1
    BY <1>1 DEF TreeInv, HashedInv
  <2>2. step - 1 \in 0..Depth - 1 /\ step = (step - 1) + 1
    BY <1>3, <2>1
  <2> QED
    BY <2>1, <2>2
<1> DEFINE hashed == IF Parallel THEN temp ELSE buffer
<1>5. /\ length = Width(blocks, k)
      /\ \A j \in 0..length - 1 :
              /\ j \in DOMAIN buffer
              /\ Parallel \/ at[0] <= j => buffer[j] = Padded(blocks, k, j)
      /\ \A q \in 0..LastNode(blocks, k + 1) :
            q \in DOMAIN hashed /\ (~Comes(at, 2, q) => hashed[q] = Node(blocks, k + 1, q))
  BY <1>1, <1>4 DEF TreeInv, HashedInv
<1>6. PICK i \in Nat : /\ at[w] = 2 * i /\ 2 * i < length
                       /\ \A q : Comes(at, 2, q) => q = i \/ Comes(at', 2, q)
  BY <1>1, TurnTaken DEF TreeInv, HashLevel
<1>7. /\ i \in 0..LastNode(blocks, k + 1) /\ 2 * i \in 0..length - 1 /\ 2 * i + 1 \in 0..length - 1
      /\ length \in Nat
  <2>1. k \in 0..Len(blocks) - 1
    BY <1>3
  <2>2. i \in 0..LastNode(blocks, k + 1)
    BY <1>3, <1>5, <1>6, <2>1, WidthIs
  <2> QED
    BY <1>3, <1>5, <2>1, <2>2, WidthIs
<1>8. ~Parallel => w = 0 /\ at'[0] = 2 * i + 2
  <2> SUFFICES ASSUME ~Parallel PROVE w = 0 /\ at'[0] = 2 * i + 2
    OBVIOUS
  <2>1. PICK n \in Nat : Workers = 0..n - 1 /\ n = 1
    BY <1>1 DEF TreeInv, IInv, Shares
  <2>2. Cardinality(0..n - 1) = n
    BY FS_Interval
  <2>3. w = 0 /\ at'[w] = at[w] + 2 * 1
    BY <2>1, <2>2 DEF HashLevel, Iterate, Workers
  <2> QED
    BY <1>6, <2>3
<1>9. Concat(buffer[2 * i], buffer[2 * i + 1]) = Node(blocks, k + 1, i)
  <2>1. buffer[2 * i] = Padded(blocks, k, 2 * i) /\ buffer[2 * i + 1] = Padded(blocks, k, 2 * i + 1)
    <3>1. Parallel \/ (at[0] <= 2 * i /\ at[0] <= 2 * i + 1)
      BY <1>6, <1>8
    <3> QED
      BY <1>5, <1>7, <3>1
  <2> QED
    BY <1>3, <1>7, <2>1, HashOfPair
<1>10. IF Parallel THEN temp' = [temp EXCEPT ![i] = Node(blocks, k + 1, i)] /\ buffer' = buffer
                   ELSE buffer' = [buffer EXCEPT ![i] = Node(blocks, k + 1, i)] /\ temp' = temp
  <2>1. at[w] \div 2 = i
    BY <1>6
  <2> QED
    BY <1>6, <1>9, <2>1 DEF HashLevel
<1>11. ASSUME NEW j \in 0..length - 1
       PROVE  /\ j \in DOMAIN buffer'
              /\ Parallel \/ at'[0] <= j => buffer'[j] = Padded(blocks, k, j)
  <2>1. CASE Parallel
    BY <1>5, <1>10, <2>1
  <2>2. CASE ~Parallel
    <3>1. at'[0] <= j => at[0] <= j /\ j # i
      BY <1>6, <1>7, <1>8, <2>2
    <3> QED
      BY <1>5, <1>10, <2>2, <3>1
  <2> QED
    BY <2>1, <2>2
<1>12. ASSUME NEW q \in 0..LastNode(blocks, k + 1)
       PROVE  /\ q \in DOMAIN (IF Parallel THEN temp' ELSE buffer')
              /\ ~Comes(at', 2, q) => (IF Parallel THEN temp' ELSE buffer')[q] = Node(blocks, k + 1, q)
  <2>1. /\ DOMAIN (IF Parallel THEN temp' ELSE buffer') = DOMAIN hashed
        /\ (IF Parallel THEN temp' ELSE buffer')[q] = IF q = i THEN Node(blocks, k + 1, i) ELSE hashed[q]
    <3>1. q \in DOMAIN hashed /\ i \in DOMAIN hashed
      BY <1>5, <1>7
    <3> QED
      BY <1>10, <3>1
  <2> QED
    BY <1>5, <1>6, <2>1
<1>13. HashedInv'
  <2> HIDE DEF hashed
  <2>1. length' = Width(blocks', step' - 1) /\ step' \in 1..Depth' - 1
    BY <1>1, <1>4, <1>5
  <2>2. \A j \in 0..length' - 1 :
              /\ j \in DOMAIN buffer'
              /\ Parallel' \/ at'[0] <= j => buffer'[j] = Padded(blocks', step' - 1, j)
    BY <1>1, <1>4, <1>11
  <2>3. \A q \in 0..LastNode(blocks', step') :
            /\ q \in DOMAIN (IF Parallel' THEN temp' ELSE buffer')
            /\ ~Comes(at', 2, q) => (IF Parallel' THEN temp' ELSE buffer')[q] = Node(blocks', step', q)
    BY <1>1, <1>4, <1>12
  <2> QED
    BY <2>1, <2>2, <2>3 DEF HashedInv
<1> QED
  BY <1>1, <1>2, <1>13 DEF LevelInv, NodesInv

\* The root is the hash of the two nodes below it.
LEMMA RootIs ==
    ASSUME LeavesInv, phase # "failed", NEW buf, HoldsLevel(blocks, buf, Depth - 1)
    PROVE  ComputeRoot(buf) = Node(blocks, Depth, 0)
<1>1. /\ blocks \in Blocks /\ Len(blocks) \in Nat /\ Len(blocks) >= 1 /\ Depth \in 1..Len(blocks)
      /\ LastNode(blocks, Depth) = 0
  BY InvDepth
<1>2. PICK k \in 0..Len(blocks) - 1 : k = Depth - 1 /\ k + 1 = Depth
  <2>1. Depth - 1 \in 0..Len(blocks) - 1 /\ (Depth - 1) + 1 = Depth
    BY <1>1
  <2> QED
    BY <2>1
<1>3. 0 \in 0..LastNode(blocks, k + 1)
  BY <1>1, <1>2
<1>4. 2 * 0 \in 0..Width(blocks, k) - 1 /\ 2 * 0 + 1 \in 0..Width(blocks, k) - 1
  BY <1>1, <1>3, WidthIs
<1>5. buf[2 * 0] = Padded(blocks, k, 2 * 0) /\ buf[2 * 0 + 1] = Padded(blocks, k, 2 * 0 + 1)
  BY <1>2, <1>4 DEF HoldsLevel
<1>6. Concat(buf[2 * 0], buf[2 * 0 + 1]) = Node(blocks, k + 1, 0)
  BY <1>1, <1>3, <1>5, HashOfPair
<1> QED
  BY <1>2, <1>6 DEF ComputeRoot

LEMMA NextStepComputes ==
    ASSUME TreeInv, NextStep
    PROVE  LeavesInv' /\ LevelInv' /\ HashedInv' /\ NodesInv'
<1>1. /\ blocks' = blocks /\ mode' = mode /\ routines' = routines /\ (Parallel' <=> Parallel)
      /\ NumLeaves' = NumLeaves /\ Depth' = Depth
      /\ phase = "proofs" /\ phase' \in {"level", "done"} /\ mode = "ModeProofGen"
      /\ leaves' = leaves /\ buffer' = buffer /\ temp' = temp /\ length' = length
  BY Unchanged DEF NextStep
<1>2. LeavesInv'
  BY <1>1, LeavesStay DEF NextStep
<1>3. /\ blocks \in Blocks /\ Len(blocks) \in Nat /\ Len(blocks) >= 1
      /\ Depth \in 1..Len(blocks) /\ \A k \in 0..Depth - 1 : k \in 0..Len(blocks) - 1
  BY <1>1, InvDepth DEF TreeInv
<1>4. /\ step \in 0..Depth - 1 /\ length = Width(blocks, step) /\ HoldsLevel(blocks, buffer, step)
      /\ Parallel => \A i \in 0..LastNode(blocks, step + 1) : i \in DOMAIN temp
  BY <1>1 DEF TreeInv, LevelInv
<1>5. /\ length \in Nat \ {0}
      /\ \A i \in 0..LastNode(blocks, step + 1) : i \in Nat /\ i \in 0..length - 1
  <2>1. PICK k \in 0..Len(blocks) - 1 : k = step
    BY <1>3, <1>4
  <2>2. /\ Width(blocks, k) \in Nat /\ LastNode(blocks, k) \in Nat /\ LastNode(blocks, k) < Width(blocks, k)
        /\ \A i \in 0..LastNode(blocks, k + 1) : i \in Nat /\ 2 * i \in 0..Width(blocks, k) - 1
    BY <1>3, WidthIs
  <2> QED
    BY <1>4, <2>1, <2>2
<1>6. CASE step + 1 < Depth
  <2>1. phase' = "level" /\ step' = step + 1 /\ at' = Loop(2, length)
    BY <1>6 DEF NextStep
  <2>2. step' \in 1..Depth - 1 /\ step' - 1 = step
    BY <1>3, <1>4, <1>6, <2>1
  <2>3. \A j \in 0..length' - 1 : j \in DOMAIN buffer' /\ buffer'[j] = Padded(blocks', step' - 1, j)
    BY <1>1, <1>4, <2>2 DEF HoldsLevel
  <2>4. \A i \in 0..LastNode(blocks', step') :
           i \in DOMAIN (IF Parallel' THEN temp' ELSE buffer') /\ Comes(at', 2, i)
    <3> SUFFICES ASSUME NEW i \in 0..LastNode(blocks, step + 1)
                 PROVE  i \in DOMAIN (IF Parallel THEN temp ELSE buffer) /\ Comes(at', 2, i)
      BY <1>1, <2>1
    <3>1. i \in DOMAIN temp \/ ~Parallel
      BY <1>4
    <3>2. i \in DOMAIN buffer
      BY <1>4, <1>5 DEF HoldsLevel
    <3>3. Comes(at', 2, i)
      BY <1>5, <2>1, AllCome DEF TreeInv, IInv
    <3> QED
      BY <3>1, <3>2, <3>3
  <2>5. HashedInv'
    BY <1>1, <1>4, <2>2, <2>3, <2>4 DEF HashedInv
  <2> QED
    BY <1>2, <2>1, <2>5 DEF LevelInv, NodesInv
<1>7. CASE ~(step + 1 < Depth)
  <2>1. phase' = "done" /\ Root' = ComputeRoot(buffer)
    BY <1>7 DEF NextStep
  <2>2. step = Depth - 1
    BY <1>3, <1>4, <1>7
  <2>3. Root' = Node(blocks, Depth, 0)
    BY <1>1, <1>4, <2>1, <2>2, RootIs DEF TreeInv
  <2> QED
    BY <1>1, <1>2, <2>1, <2>3 DEF LevelInv, HashedInv, NodesInv
<1> QED
  BY <1>6, <1>7

LEMMA LevelDoneComputes ==
    ASSUME TreeInv, LevelDone
    PROVE  LeavesInv' /\ LevelInv' /\ HashedInv' /\ NodesInv'
<1>1. /\ blocks' = blocks /\ mode' = mode /\ routines' = routines /\ (Parallel' <=> Parallel)
      /\ NumLeaves' = NumLeaves /\ Depth' = Depth
      /\ phase = "level" /\ phase' = "proofs" /\ mode = "ModeProofGen"
      /\ leaves' = leaves /\ step' = step /\ LoopDone(length)
  BY Unchanged DEF LevelDone, tree, TreeInv, IInv
<1>2. LeavesInv'
  BY <1>1, LeavesStay DEF LevelDone
<1>3. /\ blocks \in Blocks /\ Len(blocks) \in Nat /\ Len(blocks) >= 1
      /\ Depth \in 1..Len(blocks) /\ \A k \in 0..Depth - 1 : k \in 0..Len(blocks) - 1
  BY <1>1, InvDepth DEF TreeInv
<1>4. PICK k \in 0..Depth - 1 : step = k + 1 /\ k = step - 1 /\ k + 1 \in 1..Depth - 1
  <2>1. step \in 1..Depth - 1
    BY <1>1 DEF TreeInv, HashedInv
  <2>2. step - 1 \in 0..Depth - 1 /\ step = (step - 1) + 1
    BY <1>3, <2>1
  <2> QED
    BY <2>1, <2>2
<1> DEFINE hashed == IF Parallel THEN temp ELSE buffer
<1>5. /\ length = Width(blocks, k)
      /\ \A j \in 0..length - 1 : j \in DOMAIN buffer
      /\ \A q \in 0..LastNode(blocks, k + 1) :
            q \in DOMAIN hashed /\ (~Comes(at, 2, q) => hashed[q] = Node(blocks, k + 1, q))
  BY <1>1, <1>4 DEF TreeInv, HashedInv
<1>6. /\ length \in Nat /\ length \div 2 = LastNode(blocks, k + 1) + 1
      /\ LastNode(blocks, k) \in Nat /\ LastNode(blocks, k + 1) \in Nat
      /\ \A q \in 0..LastNode(blocks, k + 1) :
            q \in Nat /\ 2 * q \in 0..length - 1
  <2>1. k \in 0..Len(blocks) - 1
    BY <1>3
  <2> QED
    BY <1>3, <1>5, <2>1, WidthIs
<1> HIDE DEF hashed
<1>7. \A q \in 0..LastNode(blocks, k + 1) : q \in DOMAIN hashed /\ hashed[q] = Node(blocks, k + 1, q)
  <2> SUFFICES ASSUME NEW q \in 0..LastNode(blocks, k + 1) PROVE ~Comes(at, 2, q)
    BY <1>5
  <2>1. q \in Nat /\ 2 * q < length
    BY <1>6
  <2>2. Cardinality(DOMAIN at) \in Nat
    BY <1>1, HowManyWorkers DEF TreeInv, Workers
  <2> QED
    BY <1>1, <1>6, <2>1, <2>2, NoneComes DEF LoopDone, Workers
<1>8. HoldsLevel(blocks, buffer', k + 1)
  <2>1. buffer' = FixOddLength(hashed, LastNode(blocks, k + 1) + 1)
    BY <1>6 DEF LevelDone, hashed
  <2>2. k + 1 \in 0..Len(blocks)
    BY <1>3
  <2> QED
    BY <1>3, <1>7, <2>1, <2>2, FixHoldsLevel
<1>9. length' = Width(blocks, k + 1)
  BY <1>6 DEF LevelDone, Width
<1>10. Parallel => \A i \in 0..LastNode(blocks, k + 2) : i \in DOMAIN temp'
  <2> SUFFICES ASSUME Parallel, NEW i \in 0..LastNode(blocks, (k + 1) + 1) PROVE i \in DOMAIN temp'
    <3>1. k + 2 = (k + 1) + 1
      OBVIOUS
    <3> QED
      BY <3>1
  <2>1. temp' = buffer
    BY DEF LevelDone
  <2>2. k + 1 \in 0..Len(blocks) - 1
    BY <1>3, <1>4
  <2>3. i \in Nat /\ 2 * i \in 0..LastNode(blocks, k + 1)
    BY <1>3, <2>2, WidthIs
  <2>4. i \in 0..LastNode(blocks, k + 1)
    BY <1>6, <2>3
  <2>5. i \in 0..length - 1
    BY <1>6, <2>4
  <2> QED
    BY <1>5, <2>1, <2>5
<1>11. LevelInv'
  <2>1. step' \in 0..Depth' - 1 /\ length' = Width(blocks', step') /\ HoldsLevel(blocks', buffer', step')
    BY <1>1, <1>3, <1>4, <1>8, <1>9
  <2>2. Parallel' => \A i \in 0..LastNode(blocks', step' + 1) : i \in DOMAIN temp'
    <3>1. step' + 1 = k + 2
      BY <1>1, <1>4
    <3> QED
      BY <1>1, <1>10, <3>1
  <2> QED
    BY <1>1, <2>1, <2>2 DEF LevelInv
<1> QED
  BY <1>1, <1>2, <1>11 DEF HashedInv, NodesInv

\* buildTree's loop begins with the first level.
LEMMA FirstNodes ==
    ASSUME TreeInv, phase \in {"leaves", "pool"}, UNCHANGED input, phase' \in {"pool", "nodes"},
           BeginLevel(phase', FixedLength(NumLeaves)), step' = 0, Root' = Root, leaves' = leaves,
           DOMAIN nodes' = 0..Depth - 1, LeavesInv', HeldUpTo(blocks, nodes', 0),
           1 < Depth => nodes'[1] = Slice(length' \div 2)
    PROVE  LevelInv' /\ HashedInv' /\ NodesInv'
<1>1. blocks' = blocks /\ NumLeaves' = NumLeaves /\ Depth' = Depth
  BY Unchanged
<1>2. /\ blocks \in Blocks /\ Len(blocks) \in Nat /\ Len(blocks) >= 2 /\ Depth \in 1..Len(blocks)
      /\ Width(blocks, 0) = FixedLength(NumLeaves)
  BY InvDepth DEF TreeInv
<1>3. length' = Width(blocks, 0)
  BY <1>2 DEF BeginLevel
<1>4. Width(blocks, 0) \div 2 = LastNode(blocks, 0 + 1) + 1 /\ LastNode(blocks, 0 + 1) \in Nat
  <2>1. 0 \in 0..Len(blocks) - 1 /\ Len(blocks) >= 1
    BY <1>2
  <2> QED
    BY <1>2, <2>1, WidthIs
<1>5. LevelInv'
  BY <1>1, <1>2, <1>3 DEF LevelInv
<1>6. NodesInv'
  <2>1. CASE phase' = "pool"
    BY <1>1, <2>1 DEF NodesInv
  <2>2. CASE phase' = "nodes"
    <3>1. Workers' = {0} /\ at'[0] = 0
      BY <2>2 DEF BeginLevel, Workers
    <3>2. \E i \in Nat : at'[0] = 2 * i
      <4>1. at'[0] = 2 * 0
        BY <3>1
      <4> QED
        BY <4>1
    <3>3. ASSUME 1 < Depth
          PROVE  /\ DOMAIN nodes'[1] = 0..LastNode(blocks, 1)
                 /\ \A i \in 0..LastNode(blocks, 1) :
                       2 * i < at'[0] => nodes'[1][i] = Node(blocks, 1, i)
      <4>1. DOMAIN nodes'[1] = 0..LastNode(blocks, 1)
        BY <1>3, <1>4, <3>3 DEF Slice
      <4>2. \A i \in 0..LastNode(blocks, 1) : ~(2 * i < at'[0])
        BY <1>4, <3>1
      <4> QED
        BY <4>1, <4>2
    <3>4. step' + 1 = 1
      OBVIOUS
    <3> QED
      BY <1>1, <2>2, <3>1, <3>2, <3>3, <3>4 DEF NodesInv
  <2> QED
    BY <2>1, <2>2
<1> QED
  BY <1>5, <1>6 DEF HashedInv

LEMMA BeginTreeComputes ==
    ASSUME TreeInv, BeginTree
    PROVE  LeavesInv' /\ LevelInv' /\ HashedInv' /\ NodesInv'
<1>1. /\ blocks' = blocks /\ NumLeaves' = NumLeaves /\ Depth' = Depth
      /\ phase = "leaves" /\ phase' \in {"pool", "nodes"} /\ LoopDone(NumLeaves)
      /\ leaves' = leaves /\ step' = step /\ Root' = Root
      /\ BeginLevel(phase', FixedLength(NumLeaves))
  BY Unchanged DEF BeginTree, BeginLevel
<1>2. Depth \in Nat \ {0}
  BY <1>1, InvDepth DEF TreeInv
<1>3. /\ \A i \in 0..NumLeaves - 1 : leaves[i] = LeafHash(blocks[i + 1])
      /\ HoldsLevel(blocks, FixOddLength(leaves, NumLeaves), 0)
      /\ DOMAIN FixOddLength(leaves, NumLeaves) = 0..Width(blocks, 0) - 1
  BY <1>1, LeavesAreDone
<1>4. LeavesInv'
  BY <1>1, <1>3 DEF TreeInv, LeavesInv
<1>5. step' = 0
  BY <1>1 DEF TreeInv, LeavesInv
<1>6. /\ DOMAIN nodes' = 0..Depth - 1
      /\ nodes'[0] = FixOddLength(leaves, NumLeaves)
      /\ 1 < Depth => nodes'[1] = Slice(length' \div 2)
  BY <1>2 DEF BeginTree
<1>7. HeldUpTo(blocks, nodes', 0)
  BY <1>3, <1>6 DEF HeldUpTo
<1>8. UNCHANGED input
  BY DEF BeginTree
<1> QED
  BY <1>1, <1>4, <1>5, <1>6, <1>7, <1>8, FirstNodes

LEMMA PoolDoneComputes ==
    ASSUME TreeInv, PoolDone
    PROVE  LeavesInv' /\ LevelInv' /\ HashedInv' /\ NodesInv'
<1>1. /\ blocks' = blocks /\ phase = "pool" /\ phase' = "nodes" /\ leaves' = leaves /\ step' = 0 /\ Root' = Root
      /\ BeginLevel("nodes", FixedLength(NumLeaves)) /\ UNCHANGED input
  BY Unchanged DEF PoolDone, BeginLevel
<1>2. LeavesInv'
  BY <1>1, LeavesStay
<1>3. DOMAIN nodes = 0..Depth - 1 /\ HeldUpTo(blocks, nodes, 0) /\ Depth \in Nat
  BY <1>1 DEF TreeInv, IInv, HasLevels, NodesInv
<1>4. Depth \in Nat \ {0}
  BY <1>1, InvDepth DEF TreeInv
<1>5. /\ DOMAIN nodes' = 0..Depth - 1 /\ nodes'[0] = nodes[0]
      /\ 1 < Depth => nodes'[1] = Slice(length' \div 2)
  BY <1>3, <1>4 DEF PoolDone
<1>6. HeldUpTo(blocks, nodes', 0)
  BY <1>3, <1>5 DEF HeldUpTo
<1> QED
  BY <1>1, <1>2, <1>5, <1>6, FirstNodes

LEMMA BuildNodeComputes ==
    ASSUME TreeInv, NEW w \in Workers, BuildNode(w)
    PROVE  LeavesInv' /\ LevelInv' /\ HashedInv' /\ NodesInv'
<1>1. /\ blocks' = blocks /\ NumLeaves' = NumLeaves /\ Depth' = Depth
      /\ phase \in {"pool", "nodes"} /\ phase' = phase /\ UNCHANGED input
      /\ leaves' = leaves /\ step' = step /\ length' = length /\ Root' = Root
  BY Unchanged DEF BuildNode, level
<1>2. LeavesInv'
  BY <1>1, LeavesStay
<1>3. LevelInv'
  BY <1>1 DEF TreeInv, LevelInv
<1>4. step \in Nat /\ DOMAIN nodes = 0..Depth - 1 /\ Depth \in Nat /\ step < Depth - 1
  BY <1>1 DEF TreeInv, IInv, HasLevels, BuildNode
<1>5. DOMAIN nodes' = DOMAIN nodes /\ \A k \in DOMAIN nodes : k # step + 1 => nodes'[k] = nodes[k]
  BY DEF BuildNode
<1>6. CASE phase = "pool"
  <2>1. HeldUpTo(blocks, nodes, 0)
    BY <1>6 DEF TreeInv, NodesInv
  <2>2. nodes'[0] = nodes[0]
    BY <1>4, <1>5
  <2>3. HeldUpTo(blocks, nodes', 0)
    BY <2>1, <2>2 DEF HeldUpTo
  <2> QED
    BY <1>1, <1>2, <1>3, <1>6, <2>3 DEF HashedInv, NodesInv
<1>7. CASE phase = "nodes"
  <2>1. /\ blocks \in Blocks /\ Len(blocks) \in Nat /\ Len(blocks) >= 1
        /\ \A k \in 0..Depth - 1 : k \in 0..Len(blocks) - 1
    BY <1>7, InvDepth DEF TreeInv
  <2>2. PICK k \in 0..Len(blocks) - 1 : k = step /\ k + 1 = step + 1 /\ k + 1 < Depth
    BY <1>4, <2>1
  <2>3. /\ HeldUpTo(blocks, nodes, k) /\ Workers = {0}
        /\ DOMAIN nodes[k + 1] = 0..LastNode(blocks, k + 1)
        /\ \A q \in 0..LastNode(blocks, k + 1) :
              2 * q < at[0] => nodes[k + 1][q] = Node(blocks, k + 1, q)
        /\ length = Width(blocks, k)
    BY <1>7, <2>2 DEF TreeInv, NodesInv, LevelInv
  <2>4. PICK i \in Nat : at[0] = 2 * i
    BY <1>7 DEF TreeInv, NodesInv
  <2>5. w = 0 /\ 2 * i < length /\ at'[0] = 2 * i + 2 /\ DOMAIN at' = DOMAIN at
    BY <1>7, <2>3, <2>4 DEF BuildNode, Iterate, Workers
  <2>6. i \in 0..LastNode(blocks, k + 1) /\ LastNode(blocks, k + 1) \in Nat
    BY <2>1, <2>3, <2>5, WidthIs
  <2>7. 2 * i \in 0..Width(blocks, k) - 1 /\ 2 * i + 1 \in 0..Width(blocks, k) - 1
    BY <2>1, <2>6, WidthIs
  <2>8. nodes[k][2 * i] = Padded(blocks, k, 2 * i) /\ nodes[k][2 * i + 1] = Padded(blocks, k, 2 * i + 1)
    BY <2>3, <2>7 DEF HeldUpTo, HoldsLevel
  <2>9. Concat(nodes[k][2 * i], nodes[k][2 * i + 1]) = Node(blocks, k + 1, i)
    BY <2>1, <2>6, <2>8, HashOfPair
  <2>10. nodes'[k + 1] = [nodes[k + 1] EXCEPT ![i] = Node(blocks, k + 1, i)]
    <3>1. at[w] \div 2 = i /\ at[w] = 2 * i
      BY <2>4, <2>5
    <3>2. k + 1 \in DOMAIN nodes
      BY <1>4, <2>2
    <3>3. nodes' = [nodes EXCEPT ![step + 1][at[w] \div 2] =
                                    Concat(nodes[step][at[w]], nodes[step][at[w] + 1])]
      BY DEF BuildNode
    <3> QED
      BY <2>2, <2>9, <3>1, <3>2, <3>3
  <2>11. HeldUpTo(blocks, nodes', k)
    <3> SUFFICES ASSUME NEW j \in 0..k PROVE nodes'[j] = nodes[j]
      BY <2>3 DEF HeldUpTo
    <3>1. j \in DOMAIN nodes /\ j # step + 1
      BY <1>4, <2>2
    <3> QED
      BY <1>5, <3>1
  <2>12. /\ DOMAIN nodes'[k + 1] = 0..LastNode(blocks, k + 1)
         /\ \A q \in 0..LastNode(blocks, k + 1) :
               2 * q < at'[0] => nodes'[k + 1][q] = Node(blocks, k + 1, q)
    <3>1. ASSUME NEW q \in 0..LastNode(blocks, k + 1), 2 * q < at'[0]
          PROVE  q = i \/ 2 * q < at[0]
      BY <2>4, <2>5, <2>6, <3>1
    <3> QED
      BY <2>3, <2>6, <2>10, <3>1
  <2>13. Workers' = {0} /\ \E j \in Nat : at'[0] = 2 * j
    <3>1. at'[0] = 2 * (i + 1) /\ i + 1 \in Nat
      BY <2>5
    <3> QED
      BY <2>3, <2>5, <3>1 DEF Workers
  <2>14. NodesInv'
    BY <1>1, <1>7, <2>2, <2>11, <2>12, <2>13 DEF NodesInv
  <2> QED
    BY <1>1, <1>2, <1>3, <1>7, <2>14 DEF HashedInv
<1> QED
  BY <1>1, <1>6, <1>7

LEMMA NodesDoneComputes ==
    ASSUME TreeInv, NodesDone
    PROVE  LeavesInv' /\ LevelInv' /\ HashedInv' /\ NodesInv'
<1>1. /\ blocks' = blocks /\ NumLeaves' = NumLeaves /\ Depth' = Depth
      /\ phase \in {"pool", "nodes"} /\ phase' = phase /\ UNCHANGED input
      /\ leaves' = leaves /\ step' = step + 1 /\ Root' = Root /\ step < Depth - 1 /\ LoopDone(length)
      /\ length' = FixedLength(length \div 2)
  BY Unchanged DEF NodesDone, BeginLevel
<1>2. LeavesInv'
  BY <1>1, LeavesStay
<1>3. step \in Nat /\ DOMAIN nodes = 0..Depth - 1 /\ Depth \in Nat
  BY <1>1 DEF TreeInv, IInv, HasLevels
<1>4. /\ DOMAIN nodes' = DOMAIN nodes
      /\ \A k \in DOMAIN nodes : k # step + 1 /\ k # step + 2 => nodes'[k] = nodes[k]
      /\ \A k \in DOMAIN nodes : k = step + 1 => nodes'[k] = FixOddLength(nodes[k], length \div 2)
      /\ \A k \in DOMAIN nodes : k = step + 2 => nodes'[k] = Slice(length' \div 2)
  BY <1>3 DEF NodesDone
<1>5. CASE phase = "pool"
  <2>1. HeldUpTo(blocks, nodes, 0)
    BY <1>5 DEF TreeInv, NodesInv
  <2>2. 0 \in DOMAIN nodes /\ 0 # step + 1 /\ 0 # step + 2
    BY <1>1, <1>3
  <2>3. nodes'[0] = nodes[0]
    BY <1>4, <2>2
  <2>4. HeldUpTo(blocks, nodes', 0)
    BY <2>1, <2>3 DEF HeldUpTo
  <2> QED
    BY <1>1, <1>2, <1>5, <2>4 DEF LevelInv, HashedInv, NodesInv
<1>6. CASE phase = "nodes"
  <2>1. /\ blocks \in Blocks /\ Len(blocks) \in Nat /\ Len(blocks) >= 1
        /\ \A k \in 0..Depth - 1 : k \in 0..Len(blocks) - 1
    BY <1>6, InvDepth DEF TreeInv
  <2>2. PICK k \in 0..Len(blocks) - 1 : k = step /\ k + 1 = step + 1 /\ k + 1 < Depth
    BY <1>1, <1>3, <2>1
  <2>3. PICK l \in 0..Len(blocks) - 1 : l = k + 1 /\ l \in DOMAIN nodes /\ l \in 0..Len(blocks)
    <3>1. k + 1 \in 0..Depth - 1
      BY <1>3, <2>2
    <3> QED
      BY <1>3, <2>1, <3>1
  <2>4. /\ HeldUpTo(blocks, nodes, k) /\ Workers = {0}
        /\ DOMAIN nodes[l] = 0..LastNode(blocks, l)
        /\ \A q \in 0..LastNode(blocks, l) : 2 * q < at[0] => nodes[l][q] = Node(blocks, l, q)
        /\ length = Width(blocks, k)
    BY <1>6, <2>2, <2>3 DEF TreeInv, NodesInv, LevelInv
  <2>5. PICK i \in Nat : at[0] = 2 * i /\ at[0] >= length
    BY <1>1, <1>6, <2>4 DEF TreeInv, NodesInv, LoopDone
  <2>6. /\ length \in Nat /\ length \div 2 = LastNode(blocks, l) + 1
        /\ \A q \in 0..LastNode(blocks, l) : q \in Nat /\ 2 * q \in 0..length - 1
    BY <2>1, <2>3, <2>4, WidthIs
  <2>7. \A q \in 0..LastNode(blocks, l) : q \in DOMAIN nodes[l] /\ nodes[l][q] = Node(blocks, l, q)
    <3> SUFFICES ASSUME NEW q \in 0..LastNode(blocks, l) PROVE 2 * q < at[0]
      BY <2>4
    <3>1. 2 * q \in 0..length - 1
      BY <2>6
    <3> QED
      BY <2>5, <2>6, <3>1
  <2>8. /\ HoldsLevel(blocks, nodes'[l], l) /\ DOMAIN nodes'[l] = 0..Width(blocks, l) - 1
    <3>1. nodes'[l] = FixOddLength(nodes[l], LastNode(blocks, l) + 1)
      BY <1>4, <2>2, <2>3, <2>6
    <3> QED
      BY <2>1, <2>3, <2>4, <2>7, <3>1, FixHoldsLevel
  <2>9. length' = Width(blocks, l)
    BY <1>1, <2>6 DEF Width
  <2>10. HeldUpTo(blocks, nodes', l)
    <3> SUFFICES ASSUME NEW j \in 0..l
                 PROVE  DOMAIN nodes'[j] = 0..Width(blocks, j) - 1 /\ HoldsLevel(blocks, nodes'[j], j)
      BY DEF HeldUpTo
    <3>1. CASE j = l
      BY <2>8, <3>1
    <3>2. CASE j # l
      <4>1. j \in 0..k /\ j \in DOMAIN nodes /\ j # step + 1 /\ j # step + 2
        BY <1>3, <2>2, <2>3, <3>2
      <4>2. nodes'[j] = nodes[j]
        BY <1>4, <4>1
      <4> QED
        BY <2>4, <4>1, <4>2 DEF HeldUpTo
    <3> QED
      BY <3>1, <3>2
  <2>11. Workers' = {0} /\ at'[0] = 0
    BY <1>6 DEF NodesDone, BeginLevel, Workers
  <2>12. \E j \in Nat : at'[0] = 2 * j
    <3>1. at'[0] = 2 * 0
      BY <2>11
    <3> QED
      BY <3>1
  <2>13. ASSUME l + 1 < Depth
         PROVE  /\ DOMAIN nodes'[l + 1] = 0..LastNode(blocks, l + 1)
                /\ \A q \in 0..LastNode(blocks, l + 1) :
                      2 * q < at'[0] => nodes'[l + 1][q] = Node(blocks, l + 1, q)
    <3>1. /\ length' \div 2 = LastNode(blocks, l + 1) + 1 /\ LastNode(blocks, l + 1) \in Nat
      BY <2>1, <2>9, WidthIs
    <3>2. l + 1 \in DOMAIN nodes /\ l + 1 = step + 2
      BY <1>3, <2>2, <2>3, <2>13
    <3>3. nodes'[l + 1] = Slice(length' \div 2)
      BY <1>4, <3>2
    <3>4. DOMAIN nodes'[l + 1] = 0..LastNode(blocks, l + 1)
      BY <3>1, <3>3 DEF Slice
    <3>5. \A q \in 0..LastNode(blocks, l + 1) : ~(2 * q < at'[0])
      BY <2>11, <3>1
    <3> QED
      BY <3>4, <3>5
  <2>14. step' = l /\ l \in 0..Depth - 1
    BY <1>1, <1>3, <2>2, <2>3
  <2>15. LevelInv'
    BY <1>1, <1>6, <2>9, <2>14 DEF LevelInv
  <2>16. NodesInv'
    BY <1>1, <1>6, <2>10, <2>11, <2>12, <2>13, <2>14 DEF NodesInv
  <2> QED
    BY <1>1, <1>2, <1>6, <2>15, <2>16 DEF HashedInv
<1> QED
  BY <1>1, <1>5, <1>6

LEMMA TreeDoneComputes ==
    ASSUME TreeInv, TreeDone
    PROVE  LeavesInv' /\ LevelInv' /\ HashedInv' /\ NodesInv'
<1>1. /\ blocks' = blocks /\ NumLeaves' = NumLeaves /\ Depth' = Depth
      /\ phase = "nodes" /\ phase' = "wait" /\ UNCHANGED input
      /\ leaves' = leaves /\ step' = step /\ nodes' = nodes /\ step = Depth - 1
      /\ Root' = ComputeRoot(nodes[Depth - 1])
  BY Unchanged DEF TreeDone, level
<1>2. LeavesInv'
  BY <1>1, LeavesStay
<1>3. HeldUpTo(blocks, nodes, Depth - 1)
  BY <1>1 DEF TreeInv, NodesInv
<1>4. step \in 0..Depth - 1 /\ Depth - 1 \in 0..Depth - 1
  BY <1>1 DEF TreeInv, LevelInv
<1>5. HoldsLevel(blocks, nodes[Depth - 1], Depth - 1)
  BY <1>3, <1>4 DEF HeldUpTo
<1>6. Root' = Node(blocks, Depth, 0)
  BY <1>1, <1>5, RootIs DEF TreeInv
<1> QED
  BY <1>1, <1>2, <1>3, <1>4, <1>6 DEF LevelInv, HashedInv, NodesInv

LEMMA FillMapComputes ==
    ASSUME TreeInv, FillMap
    PROVE  LeavesInv' /\ LevelInv' /\ HashedInv' /\ NodesInv'
<1>1. /\ blocks' = blocks /\ NumLeaves' = NumLeaves /\ Depth' = Depth
      /\ phase \in {"pool", "nodes", "wait"} /\ phase' = phase /\ UNCHANGED input
      /\ leaves' = leaves /\ step' = step /\ length' = length /\ nodes' = nodes
      /\ Root' = Root /\ at' = at
  BY Unchanged DEF FillMap, level, tree
<1>2. LeavesInv'
  BY <1>1, LeavesStay
<1>3. LevelInv'
  BY <1>1 DEF TreeInv, LevelInv
<1>4. NodesInv'
  BY <1>1 DEF TreeInv, NodesInv, Workers
<1> QED
  BY <1>1, <1>2, <1>3, <1>4 DEF HashedInv

\* With a tree, the proofs are updated from its levels.
LEMMA ProofsFromLevel ==
    ASSUME TreeInv, phase \in {"wait", "proofs"}, mode # "ModeProofGen", NEW k \in 0..Depth - 1,
           UNCHANGED <<input, nodes, Root>>, phase' = "proofs", step' = k,
           buffer' = nodes[k], length' = Cardinality(DOMAIN nodes[k])
    PROVE  LevelInv' /\ HashedInv' /\ NodesInv'
<1>1. blocks' = blocks /\ mode' = mode /\ Depth' = Depth
  BY Unchanged
<1>2. HeldUpTo(blocks, nodes, Depth - 1) /\ Root = Node(blocks, Depth, 0)
  BY DEF TreeInv, NodesInv
<1>3. DOMAIN nodes[k] = 0..Width(blocks, k) - 1 /\ HoldsLevel(blocks, nodes[k], k)
  BY <1>2 DEF HeldUpTo
<1>4. Width(blocks, k) \in Nat
  <2>1. blocks \in Blocks /\ Len(blocks) >= 1 /\ k \in 0..Len(blocks) - 1
    BY InvDepth DEF TreeInv
  <2> QED
    BY <2>1, WidthIs
<1>5. length' = Width(blocks, k)
  <2>1. PICK n \in Nat : n = Width(blocks, k)
    BY <1>4
  <2>2. Cardinality(0..n - 1) = n
    BY FS_Interval
  <2> QED
    BY <1>3, <2>1, <2>2
<1>6. LevelInv'
  BY <1>1, <1>3, <1>5 DEF LevelInv
<1>7. NodesInv'
  BY <1>1, <1>2 DEF NodesInv
<1> QED
  BY <1>6, <1>7 DEF HashedInv

LEMMA WaitForMapComputes ==
    ASSUME TreeInv, WaitForMap
    PROVE  LeavesInv' /\ LevelInv' /\ HashedInv' /\ NodesInv'
<1>1. /\ blocks' = blocks /\ Depth' = Depth /\ UNCHANGED <<input, nodes, Root>>
      /\ phase = "wait" /\ phase' \in {"done", "proofs"}
      /\ leaves' = leaves /\ mode # "ModeProofGen"
  BY Unchanged DEF WaitForMap, AfterTree, TreeInv, IInv
<1>2. LeavesInv'
  BY <1>1, LeavesStay
<1>3. CASE mode = "ModeTreeBuild"
  <2>1. phase' = "done"
    BY <1>3 DEF WaitForMap, AfterTree
  <2>2. Root = Node(blocks, Depth, 0)
    BY <1>1 DEF TreeInv, NodesInv
  <2> QED
    BY <1>1, <1>2, <2>1, <2>2 DEF LevelInv, HashedInv, NodesInv
<1>4. CASE mode # "ModeTreeBuild"
  <2>1. /\ phase' = "proofs" /\ step' = 0 /\ buffer' = nodes[0]
        /\ length' = Cardinality(DOMAIN nodes[0])
    BY <1>4 DEF WaitForMap, AfterTree
  <2>2. 0 \in 0..Depth - 1
    BY <1>1, InvDepth DEF TreeInv
  <2> QED
    BY <1>1, <1>2, <2>1, <2>2, ProofsFromLevel
<1> QED
  BY <1>3, <1>4

LEMMA NextNodesComputes ==
    ASSUME TreeInv, NextNodes
    PROVE  LeavesInv' /\ LevelInv' /\ HashedInv' /\ NodesInv'
<1>1. /\ blocks' = blocks /\ Depth' = Depth /\ UNCHANGED <<input, nodes, Root>>
      /\ phase = "proofs" /\ phase' \in {"done", "proofs"}
      /\ leaves' = leaves /\ mode # "ModeProofGen"
  BY Unchanged DEF NextNodes, tree
<1>2. LeavesInv'
  BY <1>1, LeavesStay
<1>3. step \in 0..Depth - 1 /\ Root = Node(blocks, Depth, 0) /\ Depth \in Nat
  BY <1>1 DEF TreeInv, IInv, LevelInv, NodesInv
<1>4. CASE step + 1 < Depth
  <2>1. /\ step' = step + 1 /\ buffer' = nodes[step + 1] /\ phase' = "proofs"
        /\ length' = Cardinality(DOMAIN nodes[step + 1])
    BY <1>1, <1>4 DEF NextNodes
  <2>2. PICK k \in 0..Depth - 1 : k = step + 1
    BY <1>3, <1>4
  <2> QED
    BY <1>1, <1>2, <2>1, <2>2, ProofsFromLevel
<1>5. CASE ~(step + 1 < Depth)
  <2>1. phase' = "done"
    BY <1>5 DEF NextNodes
  <2> QED
    BY <1>1, <1>2, <1>3, <2>1 DEF LevelInv, HashedInv, NodesInv
<1> QED
  BY <1>4, <1>5

LEMMA TreeInvInit == Init => TreeInv
<1> SUFFICES ASSUME Init PROVE TreeInv
  OBVIOUS
<1>1. IInv
  BY InitEstablishes
<1>2. NumLeaves \in Nat /\ phase \in {"failed", "leaves"} /\ (phase = "leaves" => NumLeaves >= 2)
  BY <1>1 DEF IInv, Init
<1>3. ASSUME phase = "leaves", NEW i \in 0..NumLeaves - 1 PROVE Comes(at, 1, i)
  <2>1. i \in Nat /\ NumLeaves \in Nat \ {0} /\ routines \in Nat /\ at = Loop(1, NumLeaves)
    BY <1>1, <1>2, <1>3 DEF IInv, Init
  <2> QED
    BY <2>1, AllCome
<1>4. LeavesInv
  BY <1>2, <1>3 DEF LeavesInv, Init, Slice
<1> QED
  BY <1>1, <1>2, <1>4 DEF TreeInv, LevelInv, HashedInv, NodesInv

LEMMA TreeInvStep == TreeInv /\ [Next]_vars => TreeInv'
<1> SUFFICES ASSUME TreeInv, [Next]_vars PROVE TreeInv'
  OBVIOUS
<1>1. IInv'
  BY StepPreserves DEF TreeInv
<1>2. CASE \E w \in Workers : Work(w)
  <2>1. PICK w \in Workers : Work(w)
    BY <1>2
  <2> QED
    BY <1>1, <2>1, GenerateLeafComputes, UpdateProofsComputes, HashLevelComputes, BuildNodeComputes
       DEF Work, TreeInv
<1>3. CASE BeginProofs \/ NextStep \/ LevelDone
  BY <1>1, <1>3, BeginProofsComputes, NextStepComputes, LevelDoneComputes DEF TreeInv
<1>4. CASE BeginTree \/ NodesDone \/ PoolDone \/ TreeDone
  BY <1>1, <1>4, BeginTreeComputes, NodesDoneComputes, PoolDoneComputes, TreeDoneComputes DEF TreeInv
<1>5. CASE FillMap \/ WaitForMap \/ NextNodes
  BY <1>1, <1>5, FillMapComputes, WaitForMapComputes, NextNodesComputes DEF TreeInv
<1>6. CASE UNCHANGED vars
  <2>1. UNCHANGED <<input, phase, at, step, buffer, temp, length, leaves, nodes, Root>>
    BY <1>6 DEF vars, level, tree
  <2>2. /\ blocks' = blocks /\ mode' = mode /\ (Parallel' <=> Parallel)
        /\ NumLeaves' = NumLeaves /\ Depth' = Depth /\ Workers' = Workers
    BY <2>1, Unchanged DEF Workers
  <2> QED
    BY <1>1, <2>1, <2>2 DEF TreeInv, LeavesInv, LevelInv, HashedInv, NodesInv
<1> QED
  BY <1>2, <1>3, <1>4, <1>5, <1>6 DEF Next, Finished

LEMMA TreeInvariant == Spec => []TreeInv
<1> QED
  BY TreeInvInit, TreeInvStep, PTL DEF Spec

LEMMA RootIsCommitment == TreeInv => RootCommits
<1> SUFFICES ASSUME TreeInv, phase = "done"
             PROVE  /\ Root = IdealRoot(blocks)
                    /\ Ascending(blocks) =>
                          \A bs \in Blocks :
                             (Len(bs) > 1 /\ Ascending(bs) /\ Root = IdealRoot(bs)) => bs = blocks
  BY DEF RootCommits
<1>1. /\ blocks \in Blocks /\ Len(blocks) >= 1 /\ NumLeaves = Len(blocks)
      /\ Root = Node(blocks, Depth, 0)
  BY InvDepth DEF TreeInv, NodesInv
<1>2. Depth \in 0..Len(blocks) /\ IsDepth(Len(blocks), Depth)
  BY <1>1, DepthType
<1>3. Root = IdealRoot(blocks)
  BY <1>1, <1>2, TopIs
<1>4. ASSUME Ascending(blocks), NEW bs \in Blocks, Len(bs) > 1, Ascending(bs), Root = IdealRoot(bs)
      PROVE  bs = blocks
  <2>1. Len(bs) >= 1
    BY <1>4, LengthOf DEF IsLength
  <2> QED
    BY <1>1, <1>3, <1>4, <2>1, RootsDiffer
<1> QED
  BY <1>3, <1>4

-----------------------------------------------------------------------------
(* Climbing a proof                                                          *)

Bit(p, j) == (p \div 2^j) % 2
ClimbOf(d, proof, h, k) ==
    IF k = 0 THEN LeafHash(d)
    ELSE IF (proof.path \div 2^(k - 1)) % 2 = 1
    THEN Concat(h[k - 1], proof.siblings[k])
    ELSE Concat(proof.siblings[k], h[k - 1])
ClimbsUpTo(d, proof, h, n) == h = [k \in 0..n |-> ClimbOf(d, proof, h, k)]
HasClimb(d, proof, n) == \E h : ClimbsUpTo(d, proof, h, n)
ChosenClimb(d, proof) == CHOOSE h : ClimbsUpTo(d, proof, h, Len(proof.siblings))

LEMMA ClimbIs == \A d, proof : Climb(d, proof) = ChosenClimb(d, proof)[Len(proof.siblings)]
BY DEF Climb, ChosenClimb, ClimbsUpTo, ClimbOf

\* As for the levels: the function that Climb chooses exists.
LEMMA ClimbsExist ==
    ASSUME NEW d, NEW proof, NEW n \in Nat
    PROVE  HasClimb(d, proof, n)
<1> DEFINE T == {k \in Nat : ~HasClimb(d, proof, k)}
<1> SUFFICES ASSUME T # {} PROVE FALSE
  OBVIOUS
<1>1. PICK m \in T : \A k \in T : m <= k
  BY Least
<1>2. CASE m = 0
  <2> DEFINE g == [k \in 0..0 |-> ClimbOf(d, proof, Empty, k)]
  <2>1. \A k \in 0..0 : k = 0
    OBVIOUS
  <2>2. \A k \in 0..0 : ClimbOf(d, proof, g, k) = ClimbOf(d, proof, Empty, k)
    BY <2>1 DEF ClimbOf
  <2>3. g = [k \in 0..0 |-> ClimbOf(d, proof, g, k)]
    BY <2>2
  <2>4. ClimbsUpTo(d, proof, g, 0)
    BY <2>3 DEF ClimbsUpTo
  <2> QED
    BY <2>4, <1>2 DEF HasClimb
<1>3. CASE m # 0
  <2>1. m \in Nat /\ m - 1 \in Nat /\ ~(m <= m - 1)
    BY <1>3
  <2>2. PICK h : ClimbsUpTo(d, proof, h, m - 1)
    BY <2>1, <1>1 DEF HasClimb
  <2> DEFINE g == [k \in 0..m |-> ClimbOf(d, proof, h, k)]
  <2>3. ASSUME NEW k \in 0..m PROVE ClimbOf(d, proof, g, k) = ClimbOf(d, proof, h, k)
    <3>1. CASE k = 0
      BY <3>1 DEF ClimbOf
    <3>2. CASE k # 0
      <4>1. k - 1 \in 0..m - 1 /\ k - 1 \in 0..m
        BY <2>1, <3>2
      <4>2. g[k - 1] = ClimbOf(d, proof, h, k - 1) /\ h[k - 1] = ClimbOf(d, proof, h, k - 1)
        BY <4>1, <2>2 DEF ClimbsUpTo
      <4> QED
        BY <4>2, <3>2 DEF ClimbOf
    <3> QED
      BY <3>1, <3>2
  <2>4. g = [k \in 0..m |-> ClimbOf(d, proof, g, k)]
    BY <2>3
  <2>5. ClimbsUpTo(d, proof, g, m)
    BY <2>4 DEF ClimbsUpTo
  <2> QED
    BY <2>5 DEF HasClimb
<1> QED
  BY <1>2, <1>3

LEMMA ClimbChosen ==
    ASSUME NEW d, NEW proof, NEW n \in Nat, Len(proof.siblings) = n
    PROVE  \E h : ClimbsUpTo(d, proof, h, n) /\ Climb(d, proof) = h[n]
<1>1. \E h : ClimbsUpTo(d, proof, h, n)
  BY ClimbsExist DEF HasClimb
<1>2. ClimbsUpTo(d, proof, ChosenClimb(d, proof), n)
  BY <1>1 DEF ChosenClimb
<1>3. Climb(d, proof) = ChosenClimb(d, proof)[n]
  BY ClimbIs
<1> QED
  BY <1>2, <1>3

\* A proof and one that goes on from it lead to the same node.
LEMMA ClimbsAgree ==
    ASSUME NEW d, NEW proof, NEW more, NEW n \in Nat, NEW m \in Nat, n <= m, NEW h, NEW g,
           ClimbsUpTo(d, proof, h, n), ClimbsUpTo(d, more, g, m),
           \A k \in 1..n : proof.siblings[k] = more.siblings[k],
           \A j \in 0..n - 1 : Bit(proof.path, j) = Bit(more.path, j)
    PROVE  h[n] = g[n]
<1> DEFINE T == {k \in 0..n : h[k] # g[k]}
<1> SUFFICES ASSUME T # {} PROVE FALSE
  BY DEF T
<1>1. T \subseteq Nat
  OBVIOUS
<1>2. PICK k \in T : \A j \in T : k <= j
  <2> HIDE DEF T
  <2> QED
    BY <1>1, Least
<1>3. k \in 0..n /\ k \in 0..m
  OBVIOUS
<1>4. h[k] = ClimbOf(d, proof, h, k) /\ g[k] = ClimbOf(d, more, g, k)
  BY <1>3 DEF ClimbsUpTo
<1>5. CASE k = 0
  BY <1>4, <1>5 DEF ClimbOf
<1>6. CASE k # 0
  <2>1. k - 1 \in 0..n /\ k - 1 \in 0..n - 1 /\ k \in 1..n /\ ~(k <= k - 1)
    BY <1>3, <1>6
  <2>2. h[k - 1] = g[k - 1]
    BY <1>2, <2>1
  <2>3. Bit(proof.path, k - 1) = Bit(more.path, k - 1) /\ proof.siblings[k] = more.siblings[k]
    BY <2>1
  <2> HIDE DEF T
  <2>4. ClimbOf(d, proof, h, k) = ClimbOf(d, more, g, k)
    BY <1>6, <2>2, <2>3 DEF ClimbOf, Bit
  <2> QED
    BY <1>4, <2>4 DEF T
<1> QED
  BY <1>5, <1>6

\* A higher power is an even multiple of a lower one.
LEMMA EvenMultiple ==
    ASSUME NEW n, IsLength(n), NEW j \in 0..n
    PROVE  \A l \in 0..n : j < l => \E m \in Nat : 2^l = 2 * (m * 2^j)
<1> DEFINE T == {l \in 0..n : j < l /\ ~\E m \in Nat : 2^l = 2 * (m * 2^j)}
<1> SUFFICES ASSUME T # {} PROVE FALSE
  OBVIOUS
<1>1. n \in Nat /\ T \subseteq Nat
  BY DEF IsLength
<1>2. PICK l \in T : \A i \in T : l <= i
  <2> HIDE DEF T
  <2> QED
    BY <1>1, Least
<1>3. l \in 0..n /\ j < l /\ ~\E m \in Nat : 2^l = 2 * (m * 2^j)
  OBVIOUS
<1>4. PICK k \in 0..n : l = k + 1
  <2>1. l - 1 \in 0..n /\ l = (l - 1) + 1
    BY <1>1, <1>3
  <2> QED
    BY <2>1
<1>5. 2^l = 2 * 2^k
  BY <1>4 DEF IsLength
<1>6. 2^k \in Nat /\ 2^j \in Nat
  <2>1. k \in 0..n + 1 /\ j \in 0..n + 1
    BY <1>1
  <2> QED
    BY <2>1, PowerType
<1>7. CASE k = j
  <2>1. 2^l = 2 * (1 * 2^j)
    BY <1>5, <1>6, <1>7
  <2> QED
    BY <1>3, <2>1
<1>8. CASE k # j
  <2>1. j < k /\ ~(l <= k)
    BY <1>1, <1>3, <1>4, <1>8
  <2>2. PICK m \in Nat : 2^k = 2 * (m * 2^j)
    BY <1>2, <2>1
  <2>3. 2^l = 2 * ((2 * m) * 2^j)
    <3>1. PICK a \in Nat, b \in Nat : a = 2^k /\ b = 2^j
      BY <1>6
    <3>2. 2 * (2 * (m * b)) = 2 * ((2 * m) * b)
      BY <3>1
    <3> QED
      BY <1>5, <2>2, <3>1, <3>2
  <2>4. 2 * m \in Nat
    OBVIOUS
  <2> QED
    BY <1>3, <2>3, <2>4
<1> QED
  BY <1>7, <1>8

\* The new bit of a path leaves the lower ones alone.
LEMMA BitsOfPath ==
    ASSUME NEW n, IsLength(n), NEW l \in 0..n, NEW p \in 0..2^l - 1
    PROVE  /\ p \in Nat /\ p + 2^l \in Nat
           /\ Bit(p, l) = 0 /\ Bit(p + 2^l, l) = 1
           /\ \A j \in 0..l - 1 : Bit(p + 2^l, j) = Bit(p, j)
<1>1. n \in Nat
  BY DEF IsLength
<1>2. PICK q \in Nat \ {0} : q = 2^l
  <2>1. l \in 0..n + 1
    BY <1>1
  <2> QED
    BY <2>1, PowerType
<1>3. p \in 0..q - 1 /\ p \in Nat
  BY <1>2
<1>4. p \div q = 0 /\ (p + q) \div q = 1
  <2>1. q * 0 + p = p /\ q * 1 + p = p + q
    BY <1>3
  <2>2. (q * 0 + p) \div q = 0 /\ (q * 1 + p) \div q = 1
    BY <1>3, Quotient
  <2> QED
    BY <2>1, <2>2
<1>5. ASSUME NEW j \in 0..l - 1 PROVE Bit(p + q, j) = Bit(p, j)
  <2>1. j \in 0..n /\ j < l /\ j \in 0..n + 1
    BY <1>1
  <2>2. PICK m \in Nat : q = 2 * (m * 2^j)
    BY <1>2, <2>1, EvenMultiple
  <2>3. PICK a \in Nat \ {0} : a = 2^j
    BY <2>1, PowerType
  <2>4. p \div a \in Nat /\ p % a \in 0..a - 1 /\ p = a * (p \div a) + (p % a)
    BY <1>3, Divides
  <2>5. PICK c \in Nat, r \in 0..a - 1 : c = p \div a /\ p = a * c + r
    BY <2>4
  <2>6. p + q = a * (c + 2 * m) + r
    <3>1. a * (c + 2 * m) = a * c + 2 * (m * a)
      BY <2>5
    <3>2. a * c \in Nat /\ 2 * (m * a) \in Nat
      BY <2>5
    <3> QED
      BY <2>2, <2>3, <2>5, <3>1, <3>2
  <2>7. (p + q) \div a = c + 2 * m
    <3>1. c + 2 * m \in Nat
      OBVIOUS
    <3> QED
      BY <2>5, <2>6, <3>1, Quotient
  <2>8. (c + 2 * m) % 2 = c % 2
    OBVIOUS
  <2> QED
    BY <2>3, <2>5, <2>7, <2>8 DEF Bit
<1> QED
  BY <1>2, <1>3, <1>4, <1>5 DEF Bit

\* A proof has l siblings, and no bit of its path is beyond them.
HasSiblings(proof, l) ==
    (\E T : proof.siblings \in Seq(T)) /\ Len(proof.siblings) = l /\ proof.path \in 0..2^l - 1
WithBit(p, l) == p + 2^l
Longer(proof, more, x, l) ==
    HasSiblings(proof, l) /\ more.siblings = Append(proof.siblings, x)
GoesOn(proof, more, n) ==
    /\ Len(proof.siblings) = n /\ Len(more.siblings) = n + 1
    /\ \A k \in 1..n : proof.siblings[k] = more.siblings[k]
    /\ \A j \in 0..n - 1 : Bit(proof.path, j) = Bit(more.path, j)

LEMMA ClimbStep ==
    ASSUME NEW d, NEW proof, NEW more, NEW n \in Nat, GoesOn(proof, more, n)
    PROVE  Climb(d, more) = IF Bit(more.path, n) = 1
                            THEN Concat(Climb(d, proof), more.siblings[n + 1])
                            ELSE Concat(more.siblings[n + 1], Climb(d, proof))
<1>0. Len(proof.siblings) = n
  BY DEF GoesOn
<1>1. PICK h : ClimbsUpTo(d, proof, h, n) /\ Climb(d, proof) = h[n]
  BY <1>0, ClimbChosen
<1>2. PICK m \in Nat : m = n + 1 /\ m # 0 /\ m - 1 = n /\ n <= m
  <2>1. n + 1 \in Nat /\ n + 1 # 0 /\ (n + 1) - 1 = n /\ n <= n + 1
    OBVIOUS
  <2> QED
    BY <2>1
<1>3. PICK g : ClimbsUpTo(d, more, g, m) /\ Climb(d, more) = g[m]
  <2>1. Len(more.siblings) = m
    BY <1>2 DEF GoesOn
  <2> QED
    BY <2>1, ClimbChosen
<1>4. h[n] = g[n]
  BY <1>1, <1>2, <1>3, ClimbsAgree DEF GoesOn
<1>5. g[m] = ClimbOf(d, more, g, m)
  <2>1. m \in 0..m
    BY <1>2
  <2> QED
    BY <1>3, <2>1 DEF ClimbsUpTo
<1>6. g[m] = IF Bit(more.path, n) = 1 THEN Concat(g[n], more.siblings[m])
                                      ELSE Concat(more.siblings[m], g[n])
  BY <1>2, <1>5 DEF ClimbOf, Bit
<1> QED
  BY <1>1, <1>2, <1>3, <1>4, <1>6

LEMMA ClimbNone ==
    ASSUME NEW d, NEW p
    PROVE  Climb(d, [siblings |-> <<>>, path |-> p]) = LeafHash(d)
<1> DEFINE proof == [siblings |-> <<>>, path |-> p]
<1>1. Len(proof.siblings) = 0
  OBVIOUS
<1> HIDE DEF proof
<1>2. PICK h : ClimbsUpTo(d, proof, h, 0) /\ Climb(d, proof) = h[0]
  BY <1>1, ClimbChosen
<1>3. h[0] = ClimbOf(d, proof, h, 0)
  <2>1. 0 \in 0..0
    OBVIOUS
  <2> QED
    BY <1>2, <2>1 DEF ClimbsUpTo
<1>4. Climb(d, proof) = LeafHash(d)
  BY <1>2, <1>3 DEF ClimbOf
<1> QED
  BY <1>4 DEF proof

\* One more sibling, on the left, or on the right with a bit of the path.
LEMMA ClimbOn ==
    ASSUME NEW n, IsLength(n), NEW l \in 0..n, NEW d, NEW x, NEW proof, NEW more,
           Longer(proof, more, x, l)
    PROVE  /\ more.path = proof.path => Climb(d, more) = Concat(x, Climb(d, proof))
           /\ more.path = WithBit(proof.path, l) => Climb(d, more) = Concat(Climb(d, proof), x)
<1>1. l \in Nat
  BY DEF IsLength
<1>2. PICK T : \E S \in Seq(T), p \in 0..2^l - 1 : S = proof.siblings /\ p = proof.path
  BY DEF HasSiblings, Longer
<1>8. PICK S \in Seq(T), p \in 0..2^l - 1 : S = proof.siblings /\ p = proof.path /\ Len(S) = l
  BY <1>2 DEF HasSiblings, Longer
<1>3. /\ Len(Append(S, x)) = l + 1 /\ Append(S, x)[l + 1] = x
      /\ \A k \in 1..l : Append(S, x)[k] = S[k]
  <2>1. PICK R : R = T \cup {x}
    OBVIOUS
  <2>2. S \in Seq(R) /\ x \in R /\ Len(S) = l
    BY <1>8, <2>1
  <2> QED
    BY <2>2
<1>4. /\ Bit(p, l) = 0 /\ Bit(p + 2^l, l) = 1
      /\ \A j \in 0..l - 1 : Bit(p + 2^l, j) = Bit(p, j)
  BY BitsOfPath
<1>5. /\ Len(more.siblings) = l + 1 /\ more.siblings[l + 1] = x
      /\ \A k \in 1..l : proof.siblings[k] = more.siblings[k]
      /\ Len(proof.siblings) = l
  BY <1>3, <1>8 DEF Longer
<1>6. CASE more.path = proof.path
  <2>1. Bit(more.path, l) = 0 /\ \A j \in 0..l - 1 : Bit(proof.path, j) = Bit(more.path, j)
    BY <1>4, <1>6, <1>8
  <2>2. Climb(d, more) = IF Bit(more.path, l) = 1
                         THEN Concat(Climb(d, proof), more.siblings[l + 1])
                         ELSE Concat(more.siblings[l + 1], Climb(d, proof))
    <3>1. GoesOn(proof, more, l)
      BY <1>5, <2>1 DEF GoesOn
    <3> QED
      BY <1>1, <3>1, ClimbStep
  <2>3. p # p + 2^l
    BY <1>4
  <2> QED
    BY <1>5, <1>6, <1>8, <2>1, <2>2, <2>3 DEF WithBit
<1>7. CASE more.path = WithBit(proof.path, l)
  <2>1. Bit(more.path, l) = 1 /\ \A j \in 0..l - 1 : Bit(proof.path, j) = Bit(more.path, j)
    BY <1>4, <1>7, <1>8 DEF WithBit
  <2>2. Climb(d, more) = IF Bit(more.path, l) = 1
                         THEN Concat(Climb(d, proof), more.siblings[l + 1])
                         ELSE Concat(more.siblings[l + 1], Climb(d, proof))
    <3>1. GoesOn(proof, more, l)
      BY <1>5, <2>1 DEF GoesOn
    <3> QED
      BY <1>1, <3>1, ClimbStep
  <2>3. p # p + 2^l
    BY <1>4
  <2> QED
    BY <1>5, <1>7, <1>8, <2>1, <2>2, <2>3 DEF WithBit
<1> QED
  BY <1>6, <1>7

LEMMA ClimbRight ==
    ASSUME NEW n, IsLength(n), NEW l \in 0..n, NEW d, NEW x, NEW proof, NEW more,
           Longer(proof, more, x, l), more.path = WithBit(proof.path, l)
    PROVE  Climb(d, more) = Concat(Climb(d, proof), x)
BY ClimbOn

\* One proof leads two blocks to two nodes.
LEMMA ClimbsApart ==
    ASSUME NEW d, NEW e, NEW proof, Len(proof.siblings) \in Nat, Climb(d, proof) = Climb(e, proof)
    PROVE  d = e
<1>1. PICK n \in Nat : n = Len(proof.siblings)
  OBVIOUS
<1>2. PICK h : ClimbsUpTo(d, proof, h, n) /\ Climb(d, proof) = h[n]
  BY <1>1, ClimbChosen
<1>3. PICK g : ClimbsUpTo(e, proof, g, n) /\ Climb(e, proof) = g[n]
  BY <1>1, ClimbChosen
<1> DEFINE T == {k \in 0..n : h[k] = g[k]}
<1>4. T \subseteq Nat /\ T # {}
  <2>1. n \in T
    <3>1. h[n] = g[n]
      BY <1>2, <1>3
    <3>2. n \in 0..n
      OBVIOUS
    <3> QED
      BY <3>1, <3>2
  <2> QED
    BY <2>1
<1>5. PICK k \in T : \A j \in T : k <= j
  <2> HIDE DEF T
  <2> QED
    BY <1>4, Least
<1>6. k \in 0..n /\ h[k] = g[k]
  OBVIOUS
<1>7. h[k] = ClimbOf(d, proof, h, k) /\ g[k] = ClimbOf(e, proof, g, k)
  BY <1>2, <1>3, <1>6 DEF ClimbsUpTo
<1>8. CASE k = 0
  BY <1>6, <1>7, <1>8 DEF ClimbOf, LeafHash
<1>9. CASE k # 0
  <2>1. k - 1 \in 0..n /\ ~(k <= k - 1)
    BY <1>6, <1>9
  <2>2. h[k - 1] = g[k - 1]
    <3>1. CASE (proof.path \div 2^(k - 1)) % 2 = 1
      <4>1. <<h[k - 1], proof.siblings[k]>> = <<g[k - 1], proof.siblings[k]>>
        BY <1>6, <1>7, <1>9, <3>1 DEF ClimbOf, Concat
      <4> QED
        BY <4>1
    <3>2. CASE (proof.path \div 2^(k - 1)) % 2 # 1
      <4>1. <<proof.siblings[k], h[k - 1]>> = <<proof.siblings[k], g[k - 1]>>
        BY <1>6, <1>7, <1>9, <3>2 DEF ClimbOf, Concat
      <4> QED
        BY <4>1
    <3> QED
      BY <3>1, <3>2
  <2> QED
    BY <1>5, <2>1, <2>2
<1> QED
  BY <1>8, <1>9

-----------------------------------------------------------------------------
(* Which proof leads up from a block                                         *)

\* The sibling of leaf i on level j, and the path with a bit for each of k
\* levels where the node above leaf i is on the left.
Sibling(bs, i, j) == IF (i \div 2^j) % 2 = 0 THEN Padded(bs, j, i \div 2^j + 1)
                     ELSE Padded(bs, j, i \div 2^j - 1)
PathOf(i, k) == 2^k - 1 - (i % 2^k)
PathBit(i, j) == IF (i \div 2^j) % 2 = 0 THEN 2^j ELSE 0
Made(bs, i, k) == [siblings |-> [j \in 1..k |-> Sibling(bs, i, j - 1)], path |-> PathOf(i, k)]

LEMMA PathGrows ==
    ASSUME NEW n, IsLength(n), NEW i \in Nat, NEW k \in 0..n
    PROVE  PathOf(i, 0) = 0 /\ PathOf(i, k) \in Nat /\ PathOf(i, k + 1) = PathOf(i, k) + PathBit(i, k)
<1>1. PICK q \in Nat \ {0} : q = 2^k /\ 2^(k + 1) = 2 * q
  <2>1. k \in 0..n + 1 /\ n \in Nat
    BY DEF IsLength
  <2>2. 2^k \in Nat \ {0} /\ 2^(k + 1) = 2 * 2^k
    BY <2>1, PowerType DEF IsLength
  <2> QED
    BY <2>2
<1>2. PICK a \in Nat, r \in 0..q - 1 : a = i \div q /\ r = i % q /\ i = q * a + r
  <2>1. i \div q \in Nat /\ i % q \in 0..q - 1 /\ i = q * (i \div q) + (i % q)
    BY Divides
  <2> QED
    BY <2>1
<1>3. PICK c \in Nat, b \in {0, 1} : b = a % 2 /\ a = 2 * c + b
  <2>1. a \div 2 \in Nat /\ a % 2 \in {0, 1} /\ a = 2 * (a \div 2) + (a % 2)
    OBVIOUS
  <2> QED
    BY <2>1
<1>4. i = (2 * q) * c + (q * b + r)
  <2>1. q * a = (2 * q) * c + q * b
    <3>1. q * (2 * c + b) = q * (2 * c) + q * b /\ q * (2 * c) = (2 * q) * c
      OBVIOUS
    <3> QED
      BY <1>3, <3>1
  <2>2. q * a \in Nat /\ (2 * q) * c \in Nat /\ q * b \in Nat
    OBVIOUS
  <2> QED
    BY <1>2, <2>1, <2>2
<1>5. i % (2 * q) = q * b + r
  <2>1. q * b + r \in 0..2 * q - 1 /\ 2 * q \in Nat \ {0}
    OBVIOUS
  <2>7. PICK m \in Nat \ {0} : m = 2 * q
    BY <2>1
  <2>2. PICK s \in 0..m - 1 : m = 2 * q /\ s = q * b + r
    BY <2>1, <2>7
  <2>3. i = m * c + s
    BY <1>4, <2>2
  <2>4. i \div m = c
    BY <2>2, <2>3, Quotient
  <2>5. i % m \in Nat /\ i = m * (i \div m) + (i % m)
    BY Divides
  <2>6. i % m = s
    <3>1. PICK u \in Nat, v \in Nat : u = m * c /\ v = i % m
      <4>1. m * c \in Nat
        OBVIOUS
      <4> QED
        BY <2>5, <4>1
    <3> QED
      BY <2>3, <2>4, <2>5, <3>1
  <2> QED
    BY <2>2, <2>6
<1>6. PathOf(i, k) = q - 1 - r /\ PathOf(i, k + 1) = 2 * q - 1 - (q * b + r)
  BY <1>1, <1>2, <1>5 DEF PathOf
<1>7. PathBit(i, k) = IF b = 0 THEN q ELSE 0
  BY <1>1, <1>2, <1>3 DEF PathBit
<1>8. PathOf(i, 0) = 0
  <2>1. 2^0 = 1 /\ i % 1 = 0
    BY PowersAssumption
  <2> QED
    BY <2>1 DEF PathOf
<1> QED
  BY <1>6, <1>7, <1>8

LEMMA MadeOn ==
    ASSUME NEW bs \in Blocks, NEW i \in Nat, NEW k \in 0..Len(bs)
    PROVE  Made(bs, i, k + 1) = [siblings |-> Append(Made(bs, i, k).siblings, Sibling(bs, i, k)),
                                 path |-> Made(bs, i, k).path + PathBit(i, k)]
<1>1. IsLength(Len(bs)) /\ k \in Nat
  BY LengthOf DEF IsLength
<1>2. PathOf(i, k + 1) = PathOf(i, k) + PathBit(i, k)
  BY <1>1, PathGrows
<1>3. PICK S : S = [j \in 1..k |-> Sibling(bs, i, j - 1)]
  OBVIOUS
<1>4. Made(bs, i, k).siblings = S /\ Made(bs, i, k).path = PathOf(i, k)
  BY <1>3 DEF Made
<1>6. PICK x : x = Sibling(bs, i, k)
  OBVIOUS
<1>5. Append(S, x) = [j \in 1..k + 1 |-> Sibling(bs, i, j - 1)]
  <2>1. PICK T : T = {S[j] : j \in 1..k} \cup {x}
    OBVIOUS
  <2>2. S \in Seq(T) /\ x \in T /\ Len(S) = k
    BY <1>1, <1>3, <2>1
  <2>3. Append(S, x) \in Seq(T) /\ Len(Append(S, x)) = k + 1 /\ Append(S, x)[k + 1] = x
        /\ \A j \in 1..k : Append(S, x)[j] = S[j]
    BY <2>2
  <2>4. PICK R : R = Append(S, x)
    OBVIOUS
  <2>5. R = [j \in 1..k + 1 |-> R[j]]
    <3>1. R \in Seq(T) /\ Len(R) = k + 1
      BY <2>3, <2>4
    <3>2. R \in [1..Len(R) -> T]
      BY <3>1
    <3> QED
      BY <3>1, <3>2
  <2>6. ASSUME NEW j \in 1..k + 1 PROVE R[j] = Sibling(bs, i, j - 1)
    <3>1. CASE j = k + 1
      <4>1. j - 1 = k
        BY <1>1, <3>1
      <4> QED
        BY <1>6, <2>3, <2>4, <3>1, <4>1
    <3>2. CASE j # k + 1
      <4>1. j \in 1..k
        BY <1>1, <3>2
      <4> QED
        BY <1>3, <2>3, <2>4, <4>1
    <3> QED
      BY <3>1, <3>2
  <2> QED
    BY <2>4, <2>5, <2>6
<1> QED
  BY <1>2, <1>4, <1>5, <1>6 DEF Made

-----------------------------------------------------------------------------
(* The proofs that New makes                                                 *)

\* A proof has reached level k: it leads from its block to the node above it.
Reaches(bs, i, proof, k) ==
    \E T : \E S \in Seq(T), p \in 0..2^k - 1 :
        /\ proof = [siblings |-> S, path |-> p] /\ Len(S) = k
        /\ Climb(bs[i + 1], proof) = Node(bs, k, i \div 2^k)
        /\ proof = Made(bs, i, k)

\* Turn t of a level's loop updates the proofs below nodes 2t and 2t + 1.
ProofsInv ==
    /\ phase \in {"leaves", "failed", "pool", "nodes", "wait"} => proofs = Empty
    /\ phase \in {"proofs", "level"} => DOMAIN proofs = 0..NumLeaves - 1
    /\ phase = "proofs" =>
          \A i \in 0..NumLeaves - 1 :
             Reaches(blocks, i, proofs[i], IF Comes(at, 2, i \div 2^(step + 1)) THEN step ELSE step + 1)
    /\ phase = "level" => \A i \in 0..NumLeaves - 1 : Reaches(blocks, i, proofs[i], step)
    /\ phase = "done" =>
          \/ proofs = Empty
          \/ /\ step + 1 = Depth /\ DOMAIN proofs = 0..NumLeaves - 1
             /\ \A i \in 0..NumLeaves - 1 : Reaches(blocks, i, proofs[i], Depth)

\* The loops that New goes through.
PhaseInv ==
    phase \in {"leaves", "failed", "pool", "nodes", "wait", "proofs", "level", "done"}

\* The node above leaf i.
LEMMA NodeAbove ==
    ASSUME NEW bs \in Blocks, Len(bs) >= 1, NEW i \in 0..Len(bs) - 1
    PROVE  /\ i \div 2^0 = i
           /\ \A k \in 0..Len(bs) : i \div 2^k \in 0..LastNode(bs, k)
           /\ \A k \in 0..Len(bs) - 1 : i \div 2^(k + 1) = (i \div 2^k) \div 2
<1>1. IsLength(Len(bs))
  BY LengthOf
<1>2. Len(bs) \in Nat /\ i \in Nat /\ Len(bs) - 1 \in Nat /\ i <= Len(bs) - 1
  BY <1>1 DEF IsLength
<1>3. i \div 2^0 = i
  BY <1>2, PowersAssumption
<1>4. ASSUME NEW k \in 0..Len(bs) PROVE i \div 2^k \in 0..LastNode(bs, k)
  <2>1. PICK q \in Nat \ {0} : q = 2^k
    <3>1. k \in 0..Len(bs) + 1
      BY <1>2
    <3> QED
      BY <1>1, <3>1, PowerType
  <2>2. PICK m \in Nat : m = Len(bs) - 1
    BY <1>2
  <2>3. i \div q \in Nat /\ m \div q \in Nat /\ i \div q <= m \div q
    <3>1. PICK a \in Nat, r \in 0..q - 1 : a = i \div q /\ i = q * a + r
      <4>1. i \div q \in Nat /\ i % q \in 0..q - 1 /\ i = q * (i \div q) + (i % q)
        BY <1>2, Divides
      <4> QED
        BY <4>1
    <3>2. PICK b \in Nat, s \in 0..q - 1 : b = m \div q /\ m = q * b + s
      BY Divides
    <3>3. a <= b
      <4> SUFFICES ASSUME b < a PROVE FALSE
        OBVIOUS
      <4>1. PICK c \in Nat : a = b + 1 + c
        <5>1. a - b - 1 \in Nat /\ a = b + 1 + (a - b - 1)
          OBVIOUS
        <5> QED
          BY <5>1
      <4>2. q * a = q * b + q + q * c /\ q * c \in Nat /\ q * b \in Nat
        BY <4>1
      <4> QED
        BY <1>2, <2>2, <3>1, <3>2, <4>2
    <3> QED
      BY <3>1, <3>2, <3>3
  <2> QED
    BY <2>1, <2>2, <2>3 DEF LastNode
<1>5. ASSUME NEW k \in 0..Len(bs) - 1 PROVE i \div 2^(k + 1) = (i \div 2^k) \div 2
  <2>1. k \in 0..Len(bs) /\ k \in 0..Len(bs) + 1
    BY <1>2
  <2>2. 2^(k + 1) = 2 * 2^k /\ 2^k \in Nat \ {0}
    BY <1>1, <2>1, PowerType DEF IsLength
  <2>3. PICK q \in Nat \ {0} : q = 2^k
    BY <2>2
  <2>4. i \div (2 * q) = (i \div q) \div 2
    BY <1>2, Halves
  <2> QED
    BY <2>2, <2>3, <2>4
<1> QED
  BY <1>3, <1>4, <1>5

\* No proof has a sibling yet.
LEMMA NoneReaches ==
    ASSUME NEW bs \in Blocks, Len(bs) >= 1, NEW i \in 0..Len(bs) - 1, NEW none, none = [siblings |-> <<>>, path |-> 0]
    PROVE  none = Made(bs, i, 0) /\ Reaches(bs, i, none, 0)
<1>1. i \div 2^0 = i
  BY NodeAbove
<1>2. LeafHash(bs[i + 1]) = Node(bs, 0, i)
  <2>1. i \in 0..LastNode(bs, 0)
    BY LengthOf, LastNodes DEF IsLength
  <2> QED
    BY <2>1, NodeIs
<1>3. Climb(bs[i + 1], none) = Node(bs, 0, i)
  BY <1>2, ClimbNone
<1>4. 0 \in 0..2^0 - 1
  BY PowersAssumption
<1>5. <<>> \in Seq({}) /\ Len(<<>>) = 0
  OBVIOUS
<1>6. none = Made(bs, i, 0)
  <2>1. PathOf(i, 0) = 0
    <3>1. 2^0 = 1 /\ i % 1 = 0
      BY PowersAssumption
    <3> QED
      BY <3>1 DEF PathOf
  <2>2. [j \in 1..0 |-> Sibling(bs, i, j - 1)] = <<>>
    OBVIOUS
  <2> QED
    BY <2>1, <2>2 DEF Made
<1> QED
  BY <1>1, <1>3, <1>4, <1>5, <1>6 DEF Reaches

LEMMA NoSiblings ==
    ASSUME LeavesInv, phase # "failed", NEW i \in 0..NumLeaves - 1
    PROVE  Reaches(blocks, i, InitProofs[i], 0)
<1>1. blocks \in Blocks /\ NumLeaves = Len(blocks) /\ Len(blocks) >= 1
  BY InvDepth
<1>2. InitProofs[i] = [siblings |-> <<>>, path |-> 0]
  BY DEF InitProofs
<1> QED
  BY <1>1, <1>2, NoneReaches

LEMMA EvenOrOdd ==
    \A t, a \in Nat : (a = 2 * t => a % 2 = 0) /\ (a = 2 * t + 1 => a % 2 = 1 /\ a - 1 = 2 * t)
OBVIOUS

\* What updateProofs does to a proof on the left, and to one on the right.
LEMMA ReachesOn ==
    ASSUME NEW bs \in Blocks, Len(bs) >= 1, NEW i \in 0..Len(bs) - 1, NEW k \in 0..Len(bs) - 1,
           NEW proof, NEW more, NEW buf, Reaches(bs, i, proof, k), NEW t \in 0..LastNode(bs, k + 1),
           buf[2 * t] = Padded(bs, k, 2 * t), buf[2 * t + 1] = Padded(bs, k, 2 * t + 1),
           \/ /\ i \div 2^k = 2 * t
              /\ more = [siblings |-> Append(proof.siblings, buf[2 * t + 1]), path |-> proof.path + 2^k]
           \/ /\ i \div 2^k = 2 * t + 1
              /\ more = [siblings |-> Append(proof.siblings, buf[2 * t]), path |-> proof.path]
    PROVE  Reaches(bs, i, more, k + 1)
<1>1. IsLength(Len(bs)) /\ Len(bs) \in Nat /\ k \in 0..Len(bs) /\ k \in Nat /\ k \in 0..Len(bs) + 1
  BY LengthOf DEF IsLength
<1>2. PICK T : \E S \in Seq(T), p \in 0..2^k - 1 :
                  /\ proof = [siblings |-> S, path |-> p] /\ Len(S) = k
                  /\ Climb(bs[i + 1], proof) = Node(bs, k, i \div 2^k)
                  /\ proof = Made(bs, i, k)
  BY DEF Reaches
<1>3. PICK S \in Seq(T), p \in 0..2^k - 1 :
                  /\ proof = [siblings |-> S, path |-> p] /\ Len(S) = k
                  /\ Climb(bs[i + 1], proof) = Node(bs, k, i \div 2^k)
                  /\ proof = Made(bs, i, k)
  BY <1>2
<1>4. proof.siblings = S /\ proof.path = p
  BY <1>3
<1>5. PICK q \in Nat \ {0} : q = 2^k /\ 2^(k + 1) = 2 * q
  <2>1. 2^k \in Nat \ {0} /\ 2^(k + 1) = 2 * 2^k
    BY <1>1, PowerType DEF IsLength
  <2> QED
    BY <2>1
<1>6. p \in 0..2^(k + 1) - 1 /\ p + q \in 0..2^(k + 1) - 1
  BY <1>5
<1>7. i \div 2^(k + 1) = (i \div 2^k) \div 2 /\ i \div 2^k \in 0..LastNode(bs, k)
  BY <1>1, NodeAbove
<1>8. t \in Nat /\ LastNode(bs, k) \in Nat /\ 2 * t \in 0..LastNode(bs, k)
      /\ Node(bs, k + 1, t) = Concat(Node(bs, k, 2 * t), Padded(bs, k, 2 * t + 1))
  BY WidthIs, NodeIs
<1>9. \A x : \E U : Append(S, x) \in Seq(U) /\ Len(Append(S, x)) = k + 1
  <2> SUFFICES ASSUME NEW x PROVE \E U : Append(S, x) \in Seq(U) /\ Len(Append(S, x)) = k + 1
    OBVIOUS
  <2>1. PICK U : U = T \cup {x}
    OBVIOUS
  <2>2. S \in Seq(U) /\ x \in U
    BY <2>1
  <2>3. Append(S, x) \in Seq(U) /\ Len(Append(S, x)) = k + 1
    BY <1>3, <2>2
  <2> QED
    BY <2>3
<1>12. HasSiblings(proof, k)
  BY <1>3, <1>4 DEF HasSiblings
<1>13. \A a \in Nat : (a = 2 * t => a \div 2 = t) /\ (a = 2 * t + 1 => a \div 2 = t)
  BY <1>8
<1>14. i \div 2^k \in Nat
  BY <1>7, <1>8
<1>15. \A a \in Nat : (a = 2 * t => a % 2 = 0) /\ (a = 2 * t + 1 => a % 2 = 1 /\ a - 1 = 2 * t)
  BY <1>8, EvenOrOdd
<1>16. k \in 0..Len(bs) /\ i \in Nat
  BY <1>1
<1>17. Made(bs, i, k + 1) = [siblings |-> Append(S, Sibling(bs, i, k)), path |-> p + PathBit(i, k)]
  <2>1. Made(bs, i, k).siblings = S /\ Made(bs, i, k).path = p
    BY <1>3
  <2> QED
    BY <1>16, <2>1, MadeOn
<1>10. CASE i \div 2^k = 2 * t /\ more = [siblings |-> Append(proof.siblings, buf[2 * t + 1]), path |-> proof.path + 2^k]
  <2>1. PICK x : x = buf[2 * t + 1]
    OBVIOUS
  <2>2. more = [siblings |-> Append(S, x), path |-> p + 2^k]
    BY <1>4, <1>10, <2>1
  <2>3. Climb(bs[i + 1], more) = Concat(Climb(bs[i + 1], proof), x)
    <3>1. more.siblings = Append(proof.siblings, x) /\ more.path = proof.path + 2^k
      BY <1>4, <2>2
    <3>2. Longer(proof, more, x, k) /\ more.path = WithBit(proof.path, k)
      BY <1>12, <3>1 DEF Longer, WithBit
    <3> QED
      BY <1>1, <3>2, ClimbRight
  <2>4. i \div 2^(k + 1) = t
    BY <1>7, <1>10, <1>13, <1>14
  <2>5. Climb(bs[i + 1], more) = Node(bs, k + 1, i \div 2^(k + 1))
    BY <1>3, <1>8, <1>10, <2>1, <2>3, <2>4
  <2>6. PICK U : Append(S, x) \in Seq(U) /\ Len(Append(S, x)) = k + 1
    BY <1>9
  <2>7. p + 2^k \in 0..2^(k + 1) - 1
    BY <1>5, <1>6
  <2>8. more = Made(bs, i, k + 1)
    <3>1. x = Sibling(bs, i, k) /\ PathBit(i, k) = 2^k
      <4>1. (i \div 2^k) % 2 = 0
        BY <1>10, <1>14, <1>15
      <4> QED
        BY <1>10, <2>1, <4>1 DEF Sibling, PathBit
    <3> QED
      BY <1>17, <2>2, <3>1
  <2> QED
    BY <2>2, <2>5, <2>6, <2>7, <2>8 DEF Reaches
<1>11. CASE i \div 2^k = 2 * t + 1 /\ more = [siblings |-> Append(proof.siblings, buf[2 * t]), path |-> proof.path]
  <2>1. PICK x : x = buf[2 * t]
    OBVIOUS
  <2>2. more = [siblings |-> Append(S, x), path |-> p]
    BY <1>4, <1>11, <2>1
  <2>3. Climb(bs[i + 1], more) = Concat(x, Climb(bs[i + 1], proof))
    <3>1. more.siblings = Append(proof.siblings, x) /\ more.path = proof.path
      BY <1>4, <2>2
    <3>2. Longer(proof, more, x, k)
      BY <1>12, <3>1 DEF Longer
    <3> QED
      BY <1>1, <3>1, <3>2, ClimbOn
  <2>4. i \div 2^(k + 1) = t
    <3>1. (2 * t + 1) \div 2 = t
      BY <1>8
    <3> QED
      BY <1>7, <1>11, <3>1
  <2>5. x = Node(bs, k, 2 * t) /\ Padded(bs, k, 2 * t + 1) = Node(bs, k, 2 * t + 1)
    <3>1. 2 * t <= LastNode(bs, k) /\ 2 * t + 1 <= LastNode(bs, k)
      BY <1>7, <1>8, <1>11
    <3> QED
      BY <2>1, <3>1 DEF Padded
  <2>6. Climb(bs[i + 1], more) = Node(bs, k + 1, i \div 2^(k + 1))
    BY <1>3, <1>8, <1>11, <2>3, <2>4, <2>5
  <2>7. PICK U : Append(S, x) \in Seq(U) /\ Len(Append(S, x)) = k + 1
    BY <1>9
  <2>8. more = Made(bs, i, k + 1)
    <3>1. x = Sibling(bs, i, k) /\ PathBit(i, k) = 0
      <4>1. (i \div 2^k) % 2 = 1 /\ i \div 2^k - 1 = 2 * t
        BY <1>11, <1>14, <1>15
      <4> QED
        BY <2>1, <4>1 DEF Sibling, PathBit
    <3>2. p + 0 = p
      BY <1>5
    <3> QED
      BY <1>17, <2>2, <3>1, <3>2
  <2> QED
    BY <1>6, <2>2, <2>6, <2>7, <2>8 DEF Reaches
<1> QED
  BY <1>10, <1>11

\* So the proof with all siblings of the first k levels leads up to level k.
LEMMA MadeReaches ==
    ASSUME NEW bs \in Blocks, Len(bs) >= 1, NEW i \in 0..Len(bs) - 1
    PROVE  \A k \in 0..Len(bs) : Reaches(bs, i, Made(bs, i, k), k)
<1> DEFINE P(k) == Reaches(bs, i, Made(bs, i, k), k)
           T == {k \in 0..Len(bs) : ~P(k)}
<1> SUFFICES ASSUME T # {} PROVE FALSE
  OBVIOUS
<1>1. IsLength(Len(bs)) /\ Len(bs) \in Nat /\ T \subseteq Nat
  BY LengthOf DEF IsLength
<1>2. PICK m \in T : \A k \in T : m <= k
  <2> HIDE DEF T
  <2> QED
    BY <1>1, Least
<1>3. m \in 0..Len(bs) /\ ~P(m)
  OBVIOUS
<1>4. m # 0
  <2>1. P(0)
    <3>1. PICK none : none = [siblings |-> <<>>, path |-> 0]
      OBVIOUS
    <3> QED
      BY <3>1, NoneReaches
  <2> HIDE DEF P
  <2> QED
    BY <1>3, <2>1
<1>5. PICK k \in 0..Len(bs) - 1 : m = k + 1
  <2>1. m - 1 \in 0..Len(bs) - 1 /\ m = (m - 1) + 1
    BY <1>1, <1>3, <1>4
  <2> QED
    BY <2>1
<1>6. k \in 0..Len(bs) /\ k \in Nat /\ i \in Nat /\ P(k)
  <2>1. k \in 0..Len(bs) /\ ~(m <= k)
    BY <1>1, <1>5
  <2> HIDE DEF P
  <2> QED
    BY <1>1, <1>2, <2>1
<1>7. /\ LastNode(bs, k) \in Nat /\ i \div 2^k \in 0..LastNode(bs, k)
      /\ i \div 2^(k + 1) \in 0..LastNode(bs, k + 1) /\ i \div 2^(k + 1) = (i \div 2^k) \div 2
  <2>1. PICK l \in 0..Len(bs) : l = k + 1
    BY <1>3, <1>5
  <2>2. i \div 2^l \in 0..LastNode(bs, l)
    BY NodeAbove
  <2> QED
    BY <1>6, <2>1, <2>2, NodeAbove, WidthIs
<1>8. PICK t \in 0..LastNode(bs, k + 1), u \in Nat :
         t \in Nat /\ u = i \div 2^k /\ (u = 2 * t \/ u = 2 * t + 1)
  <2>1. PICK u \in Nat : u = i \div 2^k
    <3>1. i \div 2^k \in Nat
      BY <1>7
    <3> QED
      BY <3>1
  <2>2. u \div 2 \in 0..LastNode(bs, k + 1)
    BY <1>7, <2>1
  <2>3. PICK t \in 0..LastNode(bs, k + 1) : t = u \div 2
    BY <2>2
  <2>4. t \in Nat /\ (u = 2 * t \/ u = 2 * t + 1)
    BY <2>3
  <2> QED
    BY <2>1, <2>4
<1>9. PICK S, p : Made(bs, i, k) = [siblings |-> S, path |-> p] /\ p \in Nat
  BY <1>1, <1>6, PathGrows DEF Made
<1>10. PICK buf : buf = [j \in Nat |-> Padded(bs, k, j)]
  OBVIOUS
<1>11. buf[2 * t] = Padded(bs, k, 2 * t) /\ buf[2 * t + 1] = Padded(bs, k, 2 * t + 1)
  BY <1>8, <1>10
<1>12. Made(bs, i, k + 1) = [siblings |-> Append(S, Sibling(bs, i, k)), path |-> p + PathBit(i, k)]
  <2>1. Made(bs, i, k).siblings = S /\ Made(bs, i, k).path = p
    BY <1>9
  <2> QED
    BY <1>6, <2>1, MadeOn
<1>13. PICK more : more = Made(bs, i, k + 1)
  OBVIOUS
<1>14. \/ u = 2 * t /\ more = [siblings |-> Append(S, buf[2 * t + 1]), path |-> p + 2^k]
       \/ u = 2 * t + 1 /\ more = [siblings |-> Append(S, buf[2 * t]), path |-> p]
  <2>1. CASE u = 2 * t
    <3>1. (i \div 2^k) % 2 = 0 /\ i \div 2^k + 1 = 2 * t + 1
      <4>1. (2 * t) % 2 = 0
        BY <1>8
      <4> QED
        BY <1>8, <2>1, <4>1
    <3>2. Sibling(bs, i, k) = buf[2 * t + 1] /\ PathBit(i, k) = 2^k
      BY <1>11, <3>1 DEF Sibling, PathBit
    <3> QED
      BY <1>12, <1>13, <2>1, <3>2
  <2>2. CASE u = 2 * t + 1
    <3>1. (i \div 2^k) % 2 = 1 /\ i \div 2^k - 1 = 2 * t
      <4>1. (2 * t + 1) % 2 = 1 /\ (2 * t + 1) - 1 = 2 * t
        BY <1>8
      <4> QED
        BY <1>8, <2>2, <4>1
    <3>2. Sibling(bs, i, k) = buf[2 * t] /\ PathBit(i, k) = 0
      BY <1>11, <3>1 DEF Sibling, PathBit
    <3>3. p + 0 = p
      BY <1>9
    <3> QED
      BY <1>12, <1>13, <2>2, <3>2, <3>3
  <2> QED
    BY <1>8, <2>1, <2>2
<1>15. PICK proof : proof = Made(bs, i, k) /\ proof.siblings = S /\ proof.path = p
  BY <1>9
<1>16. Reaches(bs, i, more, k + 1)
  <2>1. Reaches(bs, i, proof, k)
    BY <1>6, <1>15
  <2> HIDE DEF P, T
  <2> QED
    BY <1>8, <1>11, <1>14, <1>15, <2>1, ReachesOn
<1> QED
  BY <1>3, <1>5, <1>13, <1>16

\* Which proofs a turn updates: those below its two nodes.
LEMMA BelowNode ==
    ASSUME NEW i \in Nat, NEW q \in Nat \ {0}, NEW m \in Nat
    PROVE  i \in m * q..m * q + q - 1 <=> i \div q = m
<1>1. PICK a \in Nat, r \in 0..q - 1 : a = i \div q /\ i = q * a + r
  <2>1. i \div q \in Nat /\ i % q \in 0..q - 1 /\ i = q * (i \div q) + (i % q)
    BY Divides
  <2> QED
    BY <2>1
<1>2. ASSUME i \in m * q..m * q + q - 1 PROVE i \div q = m
  <2>1. m * q \in Nat /\ m * q = q * m
    OBVIOUS
  <2>2. PICK s \in 0..q - 1 : i = q * m + s
    <3>1. i - q * m \in 0..q - 1 /\ i = q * m + (i - q * m)
      BY <1>2, <2>1
    <3> QED
      BY <3>1
  <2> QED
    BY <2>2, Quotient
<1>3. ASSUME i \div q = m PROVE i \in m * q..m * q + q - 1
  <2>1. i = m * q + r /\ m * q \in Nat
    BY <1>1, <1>3
  <2> QED
    BY <2>1
<1> QED
  BY <1>2, <1>3

LEMMA ProofsBoundIs ==
    ASSUME TreeInv, phase = "proofs"
    PROVE  /\ ProofsBound \in Nat /\ ProofsBound <= length /\ length = Width(blocks, step)
           /\ step \in 0..Depth - 1 /\ step \in 0..Len(blocks) - 1
           /\ \A t \in Nat : 2 * t < ProofsBound => t \in 0..LastNode(blocks, step + 1)
           /\ \A t \in 0..LastNode(blocks, step + 1) : t \in Nat /\ 2 * t < ProofsBound
<1>1. /\ blocks \in Blocks /\ Len(blocks) \in Nat /\ NumLeaves = Len(blocks) /\ Len(blocks) >= 1
      /\ LastNode(blocks, 0) = Len(blocks) - 1 /\ Width(blocks, 0) = FixedLength(NumLeaves)
      /\ \A k \in 0..Depth - 1 : k \in 0..Len(blocks) - 1
  BY InvDepth DEF TreeInv
<1>2. length = Width(blocks, step) /\ step \in 0..Depth - 1
  BY DEF TreeInv, LevelInv
<1>3. PICK k \in 0..Len(blocks) - 1 : k = step
  BY <1>1, <1>2
<1>4. /\ Width(blocks, k) \in Nat /\ LastNode(blocks, k) \in Nat /\ LastNode(blocks, k + 1) \in Nat
      /\ LastNode(blocks, k) < Width(blocks, k)
      /\ \A i \in 0..LastNode(blocks, k + 1) : i \in Nat /\ 2 * i \in 0..LastNode(blocks, k)
      /\ \A i \in Nat : 2 * i < Width(blocks, k) => i \in 0..LastNode(blocks, k + 1)
  BY <1>1, WidthIs
<1>5. ProofsBound \in Nat /\ LastNode(blocks, k) < ProofsBound /\ ProofsBound <= length
  <2>1. CASE mode = "ModeProofGen" /\ step = 0
    <3>1. ProofsBound = NumLeaves /\ LastNode(blocks, k) < NumLeaves
      BY <1>1, <1>3, <2>1 DEF ProofsBound
    <3>2. NumLeaves <= FixedLength(NumLeaves)
      BY <1>1, FixedWidth
    <3> QED
      BY <1>1, <1>2, <1>3, <2>1, <3>1, <3>2
  <2>2. CASE ~(mode = "ModeProofGen" /\ step = 0)
    <3>1. ProofsBound = length
      BY <2>2 DEF ProofsBound
    <3> QED
      BY <1>2, <1>3, <1>4, <3>1
  <2> QED
    BY <2>1, <2>2
<1>6. ASSUME NEW t \in Nat, 2 * t < ProofsBound PROVE t \in 0..LastNode(blocks, k + 1)
  <2>1. 2 * t < Width(blocks, k)
    BY <1>2, <1>3, <1>4, <1>5, <1>6
  <2> QED
    BY <1>4, <2>1
<1>7. ASSUME NEW t \in 0..LastNode(blocks, k + 1) PROVE t \in Nat /\ 2 * t < ProofsBound
  <2>1. t \in Nat /\ 2 * t \in 0..LastNode(blocks, k)
    BY <1>4
  <2> QED
    BY <1>4, <1>5, <2>1
<1> QED
  BY <1>2, <1>3, <1>5, <1>6, <1>7

LEMMA UpdatedProof ==
    ASSUME NEW i \in DOMAIN proofs, i \in Nat, NEW t \in Nat, NEW q \in Nat \ {0},
           NEW S, NEW p, proofs[i] = [siblings |-> S, path |-> p]
    PROVE  UpdateProofPairs(2 * t, q)[i] =
              IF i \div q = 2 * t
              THEN [siblings |-> Append(proofs[i].siblings, buffer[2 * t + 1]), path |-> proofs[i].path + q]
              ELSE IF i \div q = 2 * t + 1
              THEN [siblings |-> Append(proofs[i].siblings, buffer[2 * t]), path |-> proofs[i].path]
              ELSE proofs[i]
<1>1. PICK m \in Nat, n \in Nat : m = 2 * t /\ n = 2 * t + 1
  OBVIOUS
<1>2. i \in m * q..m * q + q - 1 <=> i \div q = m
  BY BelowNode
<1>3. i \in m * q + q..m * q + 2 * q - 1 <=> i \div q = n
  <2>1. i \in n * q..n * q + q - 1 <=> i \div q = n
    BY BelowNode
  <2>2. n * q = m * q + q /\ n * q + q - 1 = m * q + 2 * q - 1
    <3>1. n = m + 1 /\ m * q \in Nat
      BY <1>1
    <3>2. n * q = m * q + q
      BY <3>1
    <3> QED
      BY <3>1, <3>2
  <2> QED
    BY <2>1, <2>2
<1>4. [proofs[i] EXCEPT !.siblings = Append(@, buffer[m])]
         = [siblings |-> Append(proofs[i].siblings, buffer[m]), path |-> proofs[i].path]
  <2>1. PICK A : A = Append(proofs[i].siblings, buffer[m])
    OBVIOUS
  <2>2. [[siblings |-> S, path |-> p] EXCEPT !.siblings = A] = [siblings |-> A, path |-> p]
    OBVIOUS
  <2>3. proofs[i].path = p
    OBVIOUS
  <2> QED
    BY <2>1, <2>2, <2>3
<1> QED
  BY <1>1, <1>2, <1>3, <1>4 DEF UpdateProofPairs

LEMMA UpdateProofsReaches ==
    ASSUME TreeInv, ProofsInv, NEW w \in Workers, UpdateProofs(w)
    PROVE  ProofsInv'
<1>1. /\ blocks' = blocks /\ NumLeaves' = NumLeaves /\ phase = "proofs" /\ phase' = "proofs" /\ step' = step
      /\ buffer' = buffer
  BY Unchanged DEF UpdateProofs, level
<1>2. /\ ProofsBound \in Nat /\ ProofsBound <= length /\ length = Width(blocks, step)
      /\ step \in 0..Len(blocks) - 1
      /\ \A t \in Nat : 2 * t < ProofsBound => t \in 0..LastNode(blocks, step + 1)
  BY <1>1, ProofsBoundIs
<1>3. blocks \in Blocks /\ Len(blocks) \in Nat /\ Len(blocks) >= 1 /\ NumLeaves = Len(blocks)
  BY <1>1, InvDepth DEF TreeInv
<1>4. PICK k \in 0..Len(blocks) - 1 : k = step
  BY <1>2
<1>5. PICK t \in Nat : /\ at[w] = 2 * t /\ 2 * t < ProofsBound
                       /\ Comes(at, 2, t) /\ ~Comes(at', 2, t)
                       /\ \A q : Comes(at, 2, q) => q = t \/ Comes(at', 2, q)
                       /\ \A q : Comes(at', 2, q) => Comes(at, 2, q)
  BY <1>1, TurnTaken DEF TreeInv, UpdateProofs
<1>6. t \in 0..LastNode(blocks, k + 1)
  BY <1>2, <1>4, <1>5
<1>7. PICK q \in Nat \ {0} : q = 2^k
  <2>1. k \in 0..Len(blocks) + 1 /\ IsLength(Len(blocks))
    BY <1>3, LengthOf
  <2> QED
    BY <2>1, PowerType
<1>8. proofs' = UpdateProofPairs(2 * t, q)
  BY <1>4, <1>5, <1>7 DEF UpdateProofs
<1>9. DOMAIN proofs = 0..NumLeaves - 1 /\ DOMAIN proofs' = 0..NumLeaves - 1
  BY <1>1, <1>8 DEF ProofsInv, UpdateProofPairs
<1>10. ASSUME NEW i \in 0..NumLeaves - 1
       PROVE  Reaches(blocks, i, proofs'[i], IF Comes(at', 2, i \div 2^(k + 1)) THEN k ELSE k + 1)
  <2>1. i \in 0..Len(blocks) - 1 /\ i \in Nat /\ i \in DOMAIN proofs
    BY <1>3, <1>9
  <2>2. Reaches(blocks, i, proofs[i], IF Comes(at, 2, i \div 2^(k + 1)) THEN k ELSE k + 1)
    BY <1>1, <1>4 DEF ProofsInv
  <2>3. \E S, p : proofs[i] = [siblings |-> S, path |-> p]
    BY <2>2 DEF Reaches
  <2>4. proofs'[i] =
              IF i \div q = 2 * t
              THEN [siblings |-> Append(proofs[i].siblings, buffer[2 * t + 1]), path |-> proofs[i].path + q]
              ELSE IF i \div q = 2 * t + 1
              THEN [siblings |-> Append(proofs[i].siblings, buffer[2 * t]), path |-> proofs[i].path]
              ELSE proofs[i]
    BY <1>8, <2>1, <2>3, UpdatedProof
  <2>5. PICK m \in Nat : m = i \div q /\ i \div 2^(k + 1) = m \div 2
    <3>1. i \div q \in Nat
      BY <2>1, Divides
    <3>2. i \div 2^(k + 1) = (i \div 2^k) \div 2
      BY <1>3, <2>1, NodeAbove
    <3> QED
      BY <1>7, <3>1, <3>2
  <2>6. CASE m \div 2 = t
    <3>1. Reaches(blocks, i, proofs[i], k) /\ ~Comes(at', 2, i \div 2^(k + 1))
      BY <1>5, <2>2, <2>5, <2>6
    <3>2. m = 2 * t \/ m = 2 * t + 1
      BY <2>6
    <3>3. 2 * t # 2 * t + 1
      OBVIOUS
    <3>4. buffer[2 * t] = Padded(blocks, k, 2 * t) /\ buffer[2 * t + 1] = Padded(blocks, k, 2 * t + 1)
      <4>1. 2 * t \in 0..Width(blocks, k) - 1 /\ 2 * t + 1 \in 0..Width(blocks, k) - 1
        BY <1>3, <1>6, WidthIs
      <4>2. HoldsLevel(blocks, buffer, k)
        BY <1>1, <1>4 DEF TreeInv, LevelInv
      <4> QED
        BY <4>1, <4>2 DEF HoldsLevel
    <3>5. \/ /\ i \div 2^k = 2 * t
             /\ proofs'[i] = [siblings |-> Append(proofs[i].siblings, buffer[2 * t + 1]),
                              path |-> proofs[i].path + 2^k]
          \/ /\ i \div 2^k = 2 * t + 1
             /\ proofs'[i] = [siblings |-> Append(proofs[i].siblings, buffer[2 * t]),
                              path |-> proofs[i].path]
      BY <1>7, <2>4, <2>5, <3>2, <3>3
    <3>6. Reaches(blocks, i, proofs'[i], k + 1)
      BY <1>3, <1>6, <2>1, <3>1, <3>4, <3>5, ReachesOn
    <3> QED
      BY <3>1, <3>6
  <2>7. CASE m \div 2 # t
    <3>1. m # 2 * t /\ m # 2 * t + 1
      BY <2>7
    <3>2. proofs'[i] = proofs[i]
      BY <2>4, <2>5, <3>1
    <3>3. Comes(at', 2, i \div 2^(k + 1)) <=> Comes(at, 2, i \div 2^(k + 1))
      BY <1>5, <2>5, <2>7
    <3> QED
      BY <2>2, <3>2, <3>3
  <2> QED
    BY <2>6, <2>7
<1> QED
  BY <1>1, <1>4, <1>9, <1>10 DEF ProofsInv

\* The proofs when a level's loop begins, and when it is done.
LEMMA LoopOverProofs ==
    ASSUME LeavesInv, phase # "failed", UNCHANGED input, routines \in Nat, phase' = "proofs",
           NEW k \in 0..Depth - 1, step' = k, NEW bound \in Nat \ {0}, at' = Loop(2, bound),
           DOMAIN proofs' = 0..NumLeaves - 1,
           \A i \in 0..NumLeaves - 1 : Reaches(blocks, i, proofs'[i], k)
    PROVE  ProofsInv'
<1>1. blocks' = blocks /\ NumLeaves' = NumLeaves
  BY DEF input, NumLeaves
<1>2. /\ blocks \in Blocks /\ Len(blocks) \in Nat /\ Len(blocks) >= 1 /\ NumLeaves = Len(blocks)
      /\ k \in 0..Len(blocks) - 1
  BY InvDepth
<1>3. ASSUME NEW i \in 0..NumLeaves - 1 PROVE Comes(at', 2, i \div 2^(k + 1))
  <2>1. i \div 2^(k + 1) \in Nat
    <3>1. k + 1 \in 0..Len(blocks) /\ i \in 0..Len(blocks) - 1
      BY <1>2
    <3>2. PICK l \in 0..Len(blocks) : l = k + 1
      BY <3>1
    <3>3. i \div 2^l \in 0..LastNode(blocks, l)
      BY <1>2, <3>1, NodeAbove
    <3> QED
      BY <3>2, <3>3
  <2> QED
    BY <2>1, AllCome
<1> QED
  BY <1>1, <1>3 DEF ProofsInv

LEMMA LoopIsOver ==
    ASSUME TreeInv, ProofsInv, phase = "proofs", LoopDone(ProofsBound)
    PROVE  DOMAIN proofs = 0..NumLeaves - 1
           /\ \A i \in 0..NumLeaves - 1 : Reaches(blocks, i, proofs[i], step + 1)
<1>1. /\ ProofsBound \in Nat /\ step \in 0..Len(blocks) - 1
      /\ \A t \in 0..LastNode(blocks, step + 1) : t \in Nat /\ 2 * t < ProofsBound
  BY ProofsBoundIs
<1>2. blocks \in Blocks /\ Len(blocks) \in Nat /\ Len(blocks) >= 1 /\ NumLeaves = Len(blocks)
  BY InvDepth DEF TreeInv
<1>3. Cardinality(DOMAIN at) \in Nat
  BY HowManyWorkers DEF TreeInv, Workers
<1>4. ASSUME NEW i \in 0..NumLeaves - 1 PROVE ~Comes(at, 2, i \div 2^(step + 1))
  <2>1. PICK l \in 0..Len(blocks) : l = step + 1
    BY <1>1, <1>2
  <2>2. i \div 2^l \in 0..LastNode(blocks, l)
    BY <1>2, NodeAbove
  <2>3. i \div 2^l \in Nat /\ 2 * (i \div 2^l) < ProofsBound
    BY <1>1, <2>1, <2>2
  <2>4. ~Comes(at, 2, i \div 2^l)
    BY <1>1, <1>3, <2>3, NoneComes DEF LoopDone, Workers
  <2> QED
    BY <2>1, <2>4
<1> QED
  BY <1>4 DEF ProofsInv

LEMMA LevelHasNodes ==
    ASSUME LeavesInv, phase # "failed", NEW k \in 0..Depth - 1
    PROVE  Width(blocks, k) \in Nat \ {0}
<1>1. blocks \in Blocks /\ Len(blocks) >= 1 /\ k \in 0..Len(blocks) - 1
  BY InvDepth
<1>2. Width(blocks, k) \in Nat /\ LastNode(blocks, k) \in Nat /\ LastNode(blocks, k) < Width(blocks, k)
  BY <1>1, WidthIs
<1> QED
  BY <1>2

LEMMA BeginProofsReaches ==
    ASSUME TreeInv, BeginProofs
    PROVE  ProofsInv'
<1>1. /\ phase = "leaves" /\ phase' = "proofs" /\ step' = 0 /\ at' = Loop(2, NumLeaves) /\ UNCHANGED input
      /\ proofs' = InitProofs
  BY DEF BeginProofs, TreeInv, LeavesInv
<1>2. 0 \in 0..Depth - 1 /\ NumLeaves \in Nat \ {0} /\ routines \in Nat /\ LeavesInv
  BY <1>1, InvDepth DEF TreeInv, IInv
<1>3. \A i \in 0..NumLeaves - 1 : Reaches(blocks, i, proofs'[i], 0)
  BY <1>1, <1>2, NoSiblings
<1>4. DOMAIN proofs' = 0..NumLeaves - 1
  BY <1>1 DEF InitProofs
<1> QED
  BY <1>1, <1>2, <1>3, <1>4, LoopOverProofs

LEMMA LevelDoneReaches ==
    ASSUME TreeInv, TreeInv', ProofsInv, LevelDone
    PROVE  ProofsInv'
<1>1. /\ phase = "level" /\ phase' = "proofs" /\ step' = step /\ at' = Loop(2, length') /\ UNCHANGED input
      /\ proofs' = proofs
  BY DEF LevelDone, tree
<1>2. step \in 0..Depth - 1 /\ routines \in Nat /\ LeavesInv
  BY <1>1 DEF TreeInv, IInv, HashedInv
<1>3. length' \in Nat \ {0}
  <2>1. length' = Width(blocks, step)
    BY <1>1 DEF TreeInv, LevelInv, input
  <2> QED
    BY <1>1, <1>2, <2>1, LevelHasNodes
<1>4. DOMAIN proofs' = 0..NumLeaves - 1 /\ \A i \in 0..NumLeaves - 1 : Reaches(blocks, i, proofs'[i], step)
  BY <1>1 DEF ProofsInv
<1>5. PICK k \in 0..Depth - 1, bound \in Nat \ {0} : k = step /\ bound = length'
  BY <1>2, <1>3
<1> QED
  BY <1>1, <1>2, <1>4, <1>5, LoopOverProofs

LEMMA NextStepReaches ==
    ASSUME TreeInv, ProofsInv, NextStep
    PROVE  ProofsInv'
<1>1. /\ phase = "proofs" /\ LoopDone(ProofsBound) /\ UNCHANGED input /\ proofs' = proofs
      /\ blocks' = blocks /\ NumLeaves' = NumLeaves /\ Depth' = Depth
  BY Unchanged DEF NextStep
<1>2. DOMAIN proofs' = 0..NumLeaves' - 1
      /\ \A i \in 0..NumLeaves' - 1 : Reaches(blocks', i, proofs'[i], step + 1)
  BY <1>1, LoopIsOver
<1>3. CASE step + 1 < Depth
  <2>1. phase' = "level" /\ step' = step + 1
    BY <1>3 DEF NextStep
  <2> QED
    BY <1>2, <2>1 DEF ProofsInv
<1>4. CASE ~(step + 1 < Depth)
  <2>1. phase' = "done" /\ step' = step
    BY <1>4 DEF NextStep
  <2>2. step + 1 = Depth'
    <3>1. step \in 0..Depth - 1 /\ Depth \in Nat
      BY <1>1 DEF TreeInv, LevelInv, IInv
    <3> QED
      BY <1>1, <1>4, <3>1
  <2> QED
    BY <1>2, <2>1, <2>2 DEF ProofsInv
<1> QED
  BY <1>3, <1>4

LEMMA NextNodesReaches ==
    ASSUME TreeInv, TreeInv', ProofsInv, NextNodes
    PROVE  ProofsInv'
<1>1. /\ phase = "proofs" /\ LoopDone(ProofsBound) /\ UNCHANGED input /\ proofs' = proofs
      /\ blocks' = blocks /\ NumLeaves' = NumLeaves /\ Depth' = Depth
  BY Unchanged DEF NextNodes, tree
<1>2. DOMAIN proofs' = 0..NumLeaves - 1
      /\ \A i \in 0..NumLeaves - 1 : Reaches(blocks, i, proofs'[i], step + 1)
  BY <1>1, LoopIsOver
<1>3. step \in 0..Depth - 1 /\ Depth \in Nat /\ routines \in Nat /\ LeavesInv
  BY <1>1 DEF TreeInv, LevelInv, IInv
<1>4. CASE step + 1 < Depth
  <2>1. /\ phase' = "proofs" /\ step' = step + 1 /\ at' = Loop(2, length')
    BY <1>1, <1>4 DEF NextNodes
  <2>2. PICK k \in 0..Depth - 1 : k = step + 1
    BY <1>3, <1>4
  <2>3. length' \in Nat \ {0}
    <3>1. length' = Width(blocks, k)
      BY <1>1, <2>1, <2>2 DEF TreeInv, LevelInv
    <3> QED
      BY <1>1, <1>3, <3>1, LevelHasNodes
  <2>4. PICK bound \in Nat \ {0} : bound = length'
    BY <2>3
  <2> QED
    BY <1>1, <1>2, <1>3, <2>1, <2>2, <2>4, LoopOverProofs
<1>5. CASE ~(step + 1 < Depth)
  <2>1. phase' = "done" /\ step' = step
    BY <1>5 DEF NextNodes
  <2>2. step + 1 = Depth
    BY <1>3, <1>5
  <2> QED
    BY <1>1, <1>2, <2>1, <2>2 DEF ProofsInv
<1> QED
  BY <1>4, <1>5

LEMMA WaitForMapReaches ==
    ASSUME TreeInv, TreeInv', ProofsInv, WaitForMap
    PROVE  ProofsInv'
<1>1. phase = "wait" /\ UNCHANGED input /\ blocks' = blocks
  BY Unchanged DEF WaitForMap
<1>2. CASE mode = "ModeTreeBuild"
  <2>1. phase' = "done" /\ proofs' = proofs
    BY <1>2 DEF WaitForMap, AfterTree
  <2> QED
    BY <1>1, <2>1 DEF ProofsInv
<1>3. CASE mode # "ModeTreeBuild"
  <2>1. phase' = "proofs" /\ step' = 0 /\ at' = Loop(2, length') /\ proofs' = InitProofs
    BY <1>3 DEF WaitForMap, AfterTree
  <2>2. 0 \in 0..Depth - 1 /\ routines \in Nat /\ LeavesInv
    BY <1>1, InvDepth DEF TreeInv, IInv
  <2>3. length' \in Nat \ {0}
    <3>1. length' = Width(blocks, 0)
      BY <1>1, <2>1 DEF TreeInv, LevelInv
    <3> QED
      BY <1>1, <2>2, <3>1, LevelHasNodes
  <2>4. PICK bound \in Nat \ {0} : bound = length'
    BY <2>3
  <2>5. \A i \in 0..NumLeaves - 1 : Reaches(blocks, i, proofs'[i], 0)
    BY <1>1, <2>1, <2>2, NoSiblings
  <2>6. DOMAIN proofs' = 0..NumLeaves - 1
    BY <2>1 DEF InitProofs
  <2> QED
    BY <1>1, <2>1, <2>2, <2>4, <2>5, <2>6, LoopOverProofs
<1> QED
  BY <1>2, <1>3

\* All other steps leave the proofs alone.
LEMMA ProofsStay ==
    ASSUME TreeInv, ProofsInv, UNCHANGED input, proofs' = proofs, step' = step, phase' = phase,
           phase = "proofs" => at' = at
    PROVE  ProofsInv'
<1>1. blocks' = blocks /\ NumLeaves' = NumLeaves /\ Depth' = Depth
  BY Unchanged
<1> QED
  BY <1>1 DEF ProofsInv

LEMMA NoProofsYet ==
    ASSUME ProofsInv, proofs' = proofs,
           phase \in {"leaves", "pool", "nodes"}, phase' \in {"leaves", "pool", "nodes", "wait"}
    PROVE  ProofsInv'
BY DEF ProofsInv

LEMMA ProofsInvStep ==
    ASSUME TreeInv, TreeInv', ProofsInv, [Next]_vars
    PROVE  ProofsInv'
<1>1. CASE \E w \in Workers : Work(w)
  <2>1. PICK w \in Workers : Work(w)
    BY <1>1
  <2>2. CASE GenerateLeaf(w)
    BY <2>2, NoProofsYet DEF GenerateLeaf
  <2>3. CASE UpdateProofs(w)
    BY <2>3, UpdateProofsReaches
  <2>4. CASE HashLevel(w)
    BY <2>4, ProofsStay DEF HashLevel, tree
  <2>5. CASE BuildNode(w)
    BY <2>5, NoProofsYet DEF BuildNode
  <2> QED
    BY <2>1, <2>2, <2>3, <2>4, <2>5 DEF Work
<1>2. CASE BeginProofs \/ NextStep \/ LevelDone
  BY <1>2, BeginProofsReaches, NextStepReaches, LevelDoneReaches
<1>3. CASE BeginTree \/ NodesDone \/ PoolDone \/ TreeDone
  BY <1>3, NoProofsYet DEF BeginTree, NodesDone, PoolDone, TreeDone, BeginLevel
<1>4. CASE FillMap
  BY <1>4, ProofsStay DEF FillMap, level, tree
<1>5. CASE WaitForMap \/ NextNodes
  BY <1>5, WaitForMapReaches, NextNodesReaches
<1>6. CASE UNCHANGED vars
  BY <1>6, ProofsStay DEF vars, level, tree
<1> QED
  BY <1>1, <1>2, <1>3, <1>4, <1>5, <1>6 DEF Next, Finished

LEMMA PhaseStep == PhaseInv /\ [Next]_vars => PhaseInv'
<1> USE DEF PhaseInv
<1>1. ASSUME PhaseInv, NEW w \in Workers, Work(w) PROVE PhaseInv'
  BY <1>1 DEF Work, GenerateLeaf, UpdateProofs, HashLevel, BuildNode
<1>2. ASSUME PhaseInv, BeginProofs \/ BeginTree \/ NextStep \/ LevelDone PROVE PhaseInv'
  BY <1>2 DEF BeginProofs, BeginTree, BeginLevel, NextStep, LevelDone
<1>3. ASSUME PhaseInv, NodesDone \/ PoolDone \/ TreeDone \/ FillMap PROVE PhaseInv'
  BY <1>3 DEF NodesDone, BeginLevel, PoolDone, TreeDone, AfterTree, FillMap
<1>4. ASSUME PhaseInv, WaitForMap \/ NextNodes \/ UNCHANGED vars PROVE PhaseInv'
  BY <1>4 DEF WaitForMap, AfterTree, NextNodes, vars
<1> QED
  BY <1>1, <1>2, <1>3, <1>4 DEF Next, Finished

LEMMA ProofsInvariant == Spec => [](TreeInv /\ ProofsInv /\ PhaseInv)
<1>1. Init => TreeInv /\ ProofsInv /\ PhaseInv
  BY TreeInvInit DEF Init, ProofsInv, PhaseInv
<1>2. TreeInv /\ ProofsInv /\ PhaseInv /\ [Next]_vars => (TreeInv /\ ProofsInv /\ PhaseInv)'
  BY TreeInvStep, ProofsInvStep, PhaseStep
<1> QED
  BY <1>1, <1>2, PTL DEF Spec

LEMMA ReachesClimbs ==
    ASSUME NEW bs, NEW i, NEW proof, NEW k, Reaches(bs, i, proof, k)
    PROVE  Len(proof.siblings) = k /\ Climb(bs[i + 1], proof) = Level(bs)[k][i \div 2^k]
BY DEF Reaches, Node

LEMMA ProofsDoClimb == TreeInv /\ ProofsInv /\ PhaseInv => ProofsClimb
<1> SUFFICES ASSUME TreeInv, ProofsInv, PhaseInv, NEW i \in DOMAIN proofs
             PROVE  \E k \in step..step + 1 :
                       /\ Len(proofs[i].siblings) = k
                       /\ Climb(blocks[i + 1], proofs[i]) = Level(blocks)[k][i \div 2^k]
  BY DEF ProofsClimb
<1>1. step \in Nat
  BY DEF TreeInv, IInv
<1>2. \E k \in step..step + 1 : Reaches(blocks, i, proofs[i], k)
  <2>1. CASE phase = "proofs"
    <3>1. i \in 0..NumLeaves - 1
      BY <2>1 DEF ProofsInv
    <3>2. Reaches(blocks, i, proofs[i], IF Comes(at, 2, i \div 2^(step + 1)) THEN step ELSE step + 1)
      BY <2>1, <3>1 DEF ProofsInv
    <3>3. step \in step..step + 1 /\ step + 1 \in step..step + 1
      BY <1>1
    <3> QED
      BY <3>2, <3>3
  <2>2. CASE phase = "level"
    <3>1. i \in 0..NumLeaves - 1 /\ step \in step..step + 1
      BY <1>1, <2>2 DEF ProofsInv
    <3> QED
      BY <2>2, <3>1 DEF ProofsInv
  <2>3. CASE phase = "done"
    <3>1. proofs # Empty
      BY DEF Empty
    <3>2. /\ step + 1 = Depth /\ i \in 0..NumLeaves - 1
          /\ \A j \in 0..NumLeaves - 1 : Reaches(blocks, j, proofs[j], Depth)
      BY <2>3, <3>1 DEF ProofsInv
    <3>3. step + 1 \in step..step + 1
      BY <1>1
    <3> QED
      BY <3>2, <3>3
  <2>4. CASE phase \in {"leaves", "failed", "pool", "nodes", "wait"}
    BY <2>4 DEF ProofsInv, Empty
  <2>5. phase \in {"leaves", "failed", "pool", "nodes", "wait", "proofs", "level", "done"}
    BY DEF PhaseInv
  <2> QED
    BY <2>1, <2>2, <2>3, <2>4, <2>5
<1> QED
  BY <1>2, ReachesClimbs

-----------------------------------------------------------------------------
(* What New leaves behind                                                    *)

\* The map knows a place of each leaf that it was given.
MapInv ==
    /\ mapped \in 0..NumLeaves
    /\ DOMAIN leafMap = {LeafHash(blocks[j + 1]) : j \in 0..mapped - 1}
    /\ \A h \in DOMAIN leafMap :
          leafMap[h] \in 0..NumLeaves - 1 /\ h = LeafHash(blocks[leafMap[h] + 1])

\* After buildTree the map is full, and the levels stay.
DoneInv ==
    /\ phase = "proofs" => mode # "ModeTreeBuild"
    /\ phase \in {"proofs", "done"} /\ mode # "ModeProofGen" => mapped = NumLeaves
    /\ phase = "done" =>
          /\ mode # "ModeTreeBuild" => DOMAIN proofs = 0..NumLeaves - 1
          /\ mode = "ModeTreeBuild" => proofs = Empty
          /\ mode # "ModeProofGen" => HeldUpTo(blocks, nodes, Depth - 1)

LEMMA MapStays ==
    ASSUME MapInv, UNCHANGED input, UNCHANGED map
    PROVE  MapInv'
<1>1. blocks' = blocks /\ NumLeaves' = NumLeaves /\ leafMap' = leafMap /\ mapped' = mapped
  BY DEF input, map, NumLeaves
<1> QED
  BY <1>1 DEF MapInv

LEMMA FillMapFills ==
    ASSUME TreeInv, MapInv, FillMap
    PROVE  MapInv'
<1>1. blocks' = blocks /\ NumLeaves' = NumLeaves /\ phase \in {"pool", "nodes", "wait"} /\ mapped < NumLeaves
  BY Unchanged DEF FillMap
<1>2. NumLeaves \in Nat /\ mapped \in 0..NumLeaves - 1 /\ mapped' = mapped + 1
  BY <1>1 DEF TreeInv, IInv, MapInv, FillMap
<1>3. leaves[mapped] = LeafHash(blocks[mapped + 1])
  BY <1>1, <1>2 DEF TreeInv, LeavesInv
<1>4. PICK h : h = LeafHash(blocks[mapped + 1])
  OBVIOUS
<1>5. leafMap' = [g \in DOMAIN leafMap \cup {h} |-> IF g = h THEN mapped ELSE leafMap[g]]
  BY <1>3, <1>4 DEF FillMap
<1>6. DOMAIN leafMap' = {LeafHash(blocks[j + 1]) : j \in 0..mapped' - 1}
  <2>1. DOMAIN leafMap' = {LeafHash(blocks[j + 1]) : j \in 0..mapped - 1} \cup {h}
    BY <1>5 DEF MapInv
  <2>2. 0..mapped' - 1 = 0..mapped - 1 \cup {mapped}
    BY <1>2
  <2> QED
    BY <1>4, <2>1, <2>2
<1>7. ASSUME NEW g \in DOMAIN leafMap'
      PROVE  leafMap'[g] \in 0..NumLeaves - 1 /\ g = LeafHash(blocks[leafMap'[g] + 1])
  <2>1. CASE g = h
    BY <1>2, <1>4, <1>5, <2>1
  <2>2. CASE g # h
    BY <1>5, <2>2 DEF MapInv
  <2> QED
    BY <2>1, <2>2
<1>8. mapped' \in 0..NumLeaves
  BY <1>2
<1> QED
  BY <1>1, <1>6, <1>7, <1>8 DEF MapInv

LEMMA MapStep == TreeInv /\ MapInv /\ [Next]_vars => MapInv'
<1> SUFFICES ASSUME TreeInv, MapInv, [Next]_vars PROVE MapInv'
  OBVIOUS
<1>1. ASSUME NEW w \in Workers, Work(w) PROVE MapInv'
  BY <1>1, MapStays DEF Work, GenerateLeaf, UpdateProofs, HashLevel, BuildNode
<1>2. ASSUME BeginProofs \/ NextStep \/ LevelDone \/ NextNodes PROVE MapInv'
  BY <1>2, MapStays DEF BeginProofs, NextStep, LevelDone, NextNodes
<1>3. ASSUME BeginTree \/ NodesDone \/ PoolDone \/ TreeDone \/ WaitForMap PROVE MapInv'
  BY <1>3, MapStays DEF BeginTree, NodesDone, PoolDone, TreeDone, WaitForMap
<1>4. ASSUME UNCHANGED vars PROVE MapInv'
  BY <1>4, MapStays DEF vars
<1> QED
  BY <1>1, <1>2, <1>3, <1>4, FillMapFills DEF Next, Finished

\* What comes of the proofs and levels when New is done.
LEMMA DoneWithProofs ==
    ASSUME TreeInv, ProofsInv, DoneInv, NextStep
    PROVE  DoneInv'
<1>1. phase = "proofs" /\ mode = "ModeProofGen" /\ mode' = mode /\ NumLeaves' = NumLeaves /\ proofs' = proofs
  BY Unchanged DEF NextStep
<1>2. DOMAIN proofs = 0..NumLeaves - 1
  BY <1>1 DEF ProofsInv
<1> QED
  BY <1>1, <1>2 DEF DoneInv

LEMMA DoneWithTree ==
    ASSUME TreeInv, ProofsInv, DoneInv, WaitForMap
    PROVE  DoneInv'
<1>1. /\ phase = "wait" /\ mapped = NumLeaves /\ mapped' = mapped /\ nodes' = nodes
      /\ mode' = mode /\ blocks' = blocks /\ NumLeaves' = NumLeaves /\ Depth' = Depth
  BY Unchanged DEF WaitForMap, map
<1>2. HeldUpTo(blocks, nodes, Depth - 1) /\ proofs = Empty
  BY <1>1 DEF TreeInv, NodesInv, ProofsInv
<1>3. HeldUpTo(blocks', nodes', Depth' - 1)
  BY <1>1, <1>2
<1>4. CASE mode = "ModeTreeBuild"
  <2>1. phase' = "done" /\ proofs' = proofs
    BY <1>4 DEF WaitForMap, AfterTree
  <2> QED
    BY <1>1, <1>2, <1>3, <1>4, <2>1 DEF DoneInv
<1>5. CASE mode # "ModeTreeBuild"
  <2>1. phase' = "proofs"
    BY <1>5 DEF WaitForMap, AfterTree
  <2> QED
    BY <1>1, <1>5, <2>1 DEF DoneInv
<1> QED
  BY <1>4, <1>5

LEMMA DoneWithBoth ==
    ASSUME TreeInv, ProofsInv, DoneInv, NextNodes
    PROVE  DoneInv'
<1>1. /\ phase = "proofs" /\ mode = "ModeProofGenAndTreeBuild" /\ mapped' = mapped /\ nodes' = nodes
      /\ proofs' = proofs
      /\ mode' = mode /\ blocks' = blocks /\ NumLeaves' = NumLeaves /\ Depth' = Depth
  BY Unchanged DEF NextNodes, map, tree
<1>2. HeldUpTo(blocks, nodes, Depth - 1) /\ DOMAIN proofs = 0..NumLeaves - 1 /\ mapped = NumLeaves
  BY <1>1 DEF TreeInv, NodesInv, ProofsInv, DoneInv
<1>3. HeldUpTo(blocks', nodes', Depth' - 1)
  BY <1>1, <1>2
<1> QED
  BY <1>1, <1>2, <1>3 DEF DoneInv

LEMMA DoneStep == TreeInv /\ ProofsInv /\ DoneInv /\ [Next]_vars => DoneInv'
<1> SUFFICES ASSUME TreeInv, ProofsInv, DoneInv, [Next]_vars PROVE DoneInv'
  OBVIOUS
<1>1. ASSUME phase' \notin {"proofs", "done"} PROVE DoneInv'
  BY <1>1 DEF DoneInv
<1>2. ASSUME UNCHANGED vars PROVE DoneInv'
  <2>1. /\ phase' = phase /\ mode' = mode /\ mapped' = mapped /\ nodes' = nodes /\ proofs' = proofs
        /\ blocks' = blocks /\ NumLeaves' = NumLeaves /\ Depth' = Depth
    BY <1>2, Unchanged DEF vars, tree, map, input
  <2>2. HeldUpTo(blocks, nodes, Depth - 1) => HeldUpTo(blocks', nodes', Depth' - 1)
    BY <2>1
  <2> QED
    BY <2>1, <2>2 DEF DoneInv
<1>3. ASSUME NEW w \in Workers, Work(w) PROVE DoneInv'
  <2>1. CASE UpdateProofs(w)
    <3>1. /\ phase = "proofs" /\ phase' = phase /\ mode' = mode /\ mapped' = mapped /\ NumLeaves' = NumLeaves
      BY <2>1, Unchanged DEF UpdateProofs, map
    <3> QED
      BY <3>1 DEF DoneInv
  <2>2. CASE GenerateLeaf(w) \/ HashLevel(w) \/ BuildNode(w)
    BY <1>1, <2>2 DEF GenerateLeaf, HashLevel, BuildNode
  <2> QED
    BY <1>3, <2>1, <2>2 DEF Work
<1>4. ASSUME BeginProofs \/ LevelDone PROVE DoneInv'
  <2>1. mode = "ModeProofGen" /\ mode' = mode /\ phase' = "proofs"
    BY <1>4, Unchanged DEF BeginProofs, LevelDone, TreeInv, IInv
  <2> QED
    BY <2>1 DEF DoneInv
<1>5. ASSUME BeginTree \/ NodesDone \/ PoolDone \/ TreeDone \/ FillMap PROVE DoneInv'
  BY <1>1, <1>5 DEF BeginTree, NodesDone, PoolDone, BeginLevel, TreeDone, FillMap
<1> QED
  BY <1>2, <1>3, <1>4, <1>5, DoneWithProofs, DoneWithTree, DoneWithBoth DEF Next, Finished

KeptInv == TreeInv /\ ProofsInv /\ PhaseInv /\ MapInv /\ DoneInv

LEMMA KeptInvariant == Spec => []KeptInv
<1>1. Init => MapInv
  <2> SUFFICES ASSUME Init PROVE MapInv
    OBVIOUS
  <2>1. NumLeaves \in Nat
    BY TreeInvInit DEF TreeInv, IInv
  <2>2. 0..0 - 1 = {}
    OBVIOUS
  <2> QED
    BY <2>1, <2>2 DEF Init, MapInv
<1>2. Init => TreeInv /\ ProofsInv /\ PhaseInv /\ DoneInv
  BY TreeInvInit DEF Init, ProofsInv, PhaseInv, DoneInv
<1>3. KeptInv /\ [Next]_vars => KeptInv'
  BY TreeInvStep, ProofsInvStep, PhaseStep, MapStep, DoneStep DEF KeptInv
<1> QED
  BY <1>1, <1>2, <1>3, PTL DEF Spec, KeptInv

-----------------------------------------------------------------------------
(* What Proof reads off the tree                                             *)

PathStep(i, h, k) ==
    IF k = 0 THEN 0 ELSE h[k - 1] + (IF (i \div 2^(k - 1)) % 2 = 0 THEN 2^(k - 1) ELSE 0)
PathsUpTo(i, h, n) == h = [k \in 0..n |-> PathStep(i, h, k)]
ChosenPaths(i, n) == CHOOSE h : PathsUpTo(i, h, n)
ReadSibling(i, k) ==
    nodes[k - 1][IF (i \div 2^(k - 1)) % 2 = 0 THEN i \div 2^(k - 1) + 1 ELSE i \div 2^(k - 1) - 1]

LEMMA ProofIs ==
    \A d : Proof(d) = [siblings |-> [k \in 1..Depth |-> ReadSibling(leafMap[LeafHash(d)], k)],
                       path |-> ChosenPaths(leafMap[LeafHash(d)], Depth)[Depth]]
BY DEF Proof, ReadSibling, ChosenPaths, PathsUpTo, PathStep

LEMMA ChosenPathIs ==
    ASSUME NEW n, IsLength(n), NEW i \in Nat, NEW m \in 0..n
    PROVE  ChosenPaths(i, m)[m] = PathOf(i, m)
<1>1. n \in Nat /\ m \in Nat
  BY DEF IsLength
<1>2. \A k \in 0..m : k # 0 => /\ k - 1 \in 0..m /\ k - 1 \in 0..n /\ ~(k <= k - 1)
                              /\ PathOf(i, k) = PathOf(i, k - 1) + PathBit(i, k - 1)
  <2> SUFFICES ASSUME NEW k \in 0..m, k # 0
               PROVE  /\ k - 1 \in 0..m /\ k - 1 \in 0..n /\ ~(k <= k - 1)
                      /\ PathOf(i, k) = PathOf(i, k - 1) + PathBit(i, k - 1)
    OBVIOUS
  <2>1. PICK j \in 0..n : j = k - 1 /\ k = j + 1 /\ j \in 0..m /\ ~(k <= j)
    <3>1. k - 1 \in 0..n /\ k = (k - 1) + 1 /\ k - 1 \in 0..m /\ ~(k <= k - 1)
      BY <1>1
    <3> QED
      BY <3>1
  <2> QED
    BY <2>1, PathGrows
<1>3. PathOf(i, 0) = 0
  <2>1. 0 \in 0..n
    BY <1>1
  <2> QED
    BY <2>1, PathGrows
<1>4. \E h : PathsUpTo(i, h, m)
  <2> DEFINE g == [k \in 0..m |-> PathOf(i, k)]
  <2>1. ASSUME NEW k \in 0..m PROVE PathOf(i, k) = PathStep(i, g, k)
    <3>1. CASE k = 0
      BY <1>3, <3>1 DEF PathStep
    <3>2. CASE k # 0
      BY <1>2, <3>2 DEF PathStep, PathBit
    <3> QED
      BY <3>1, <3>2
  <2>2. g = [k \in 0..m |-> PathStep(i, g, k)]
    BY <2>1
  <2> QED
    BY <2>2 DEF PathsUpTo
<1>5. PICK h : h = ChosenPaths(i, m) /\ PathsUpTo(i, h, m)
  BY <1>4 DEF ChosenPaths
<1> DEFINE T == {k \in 0..m : h[k] # PathOf(i, k)}
<1>6. T = {}
  <2> SUFFICES ASSUME T # {} PROVE FALSE
    OBVIOUS
  <2>1. T \subseteq Nat
    OBVIOUS
  <2>2. PICK k \in T : \A j \in T : k <= j
    <3> HIDE DEF T
    <3> QED
      BY <2>1, Least
  <2>3. k \in 0..m /\ h[k] # PathOf(i, k)
    OBVIOUS
  <2>4. h[k] = PathStep(i, h, k)
    BY <1>5, <2>3 DEF PathsUpTo
  <2>5. k # 0
    BY <1>3, <2>3, <2>4 DEF PathStep
  <2>6. h[k - 1] = PathOf(i, k - 1)
    BY <1>2, <2>2, <2>3, <2>5
  <2>7. PathStep(i, h, k) = h[k - 1] + PathBit(i, k - 1)
    BY <2>5 DEF PathStep, PathBit
  <2> QED
    BY <1>2, <2>3, <2>4, <2>5, <2>6, <2>7
<1>7. h[m] = PathOf(i, m)
  <2>1. m \in 0..m
    BY <1>1
  <2> QED
    BY <1>6, <2>1
<1> QED
  BY <1>5, <1>7

LEMMA ReadSiblingIs ==
    ASSUME LeavesInv, phase # "failed", HeldUpTo(blocks, nodes, Depth - 1),
           NEW i \in 0..NumLeaves - 1, NEW k \in 1..Depth
    PROVE  ReadSibling(i, k) = Sibling(blocks, i, k - 1)
<1>1. /\ blocks \in Blocks /\ Len(blocks) \in Nat /\ NumLeaves = Len(blocks) /\ Len(blocks) >= 1
      /\ Depth \in 1..Len(blocks) /\ \A l \in 0..Depth - 1 : l \in 0..Len(blocks) - 1
  BY InvDepth
<1>2. PICK l \in 0..Depth - 1 : l = k - 1 /\ l \in 0..Len(blocks) - 1 /\ l \in 0..Len(blocks)
  <2>1. k - 1 \in 0..Depth - 1 /\ k - 1 \in 0..Len(blocks)
    BY <1>1
  <2> QED
    BY <1>1, <2>1
<1>3. PICK u \in Nat : u = i \div 2^l /\ u \in 0..LastNode(blocks, l)
  <2>1. i \div 2^l \in 0..LastNode(blocks, l)
    BY <1>1, <1>2, NodeAbove
  <2>2. LastNode(blocks, l) \in Nat
    BY <1>1, <1>2, WidthIs
  <2>3. i \div 2^l \in Nat
    BY <2>1, <2>2
  <2> QED
    BY <2>1, <2>3
<1>4. /\ Width(blocks, l) \in Nat /\ LastNode(blocks, l) \in Nat /\ LastNode(blocks, l) < Width(blocks, l)
      /\ \A t \in 0..LastNode(blocks, l + 1) : t \in Nat /\ 2 * t + 1 \in 0..Width(blocks, l) - 1
      /\ \A t \in Nat : 2 * t < Width(blocks, l) => t \in 0..LastNode(blocks, l + 1)
  BY <1>1, <1>2, WidthIs
<1>5. \A j \in 0..Width(blocks, l) - 1 : nodes[l][j] = Padded(blocks, l, j)
  BY <1>2 DEF HeldUpTo, HoldsLevel
<1>6. CASE u % 2 = 0
  <2>1. PICK t \in Nat : u = 2 * t
    <3>1. u \div 2 \in Nat /\ u = 2 * (u \div 2)
      BY <1>6
    <3> QED
      BY <3>1
  <2>2. 2 * t < Width(blocks, l)
    BY <1>3, <1>4, <2>1
  <2>3. u + 1 \in 0..Width(blocks, l) - 1
    BY <1>4, <2>1, <2>2
  <2>4. ReadSibling(i, k) = nodes[l][u + 1] /\ Sibling(blocks, i, k - 1) = Padded(blocks, l, u + 1)
    BY <1>2, <1>3, <1>6 DEF ReadSibling, Sibling
  <2> QED
    BY <1>5, <2>3, <2>4
<1>7. CASE u % 2 # 0
  <2>1. u - 1 \in 0..Width(blocks, l) - 1
    BY <1>3, <1>4, <1>7
  <2>2. ReadSibling(i, k) = nodes[l][u - 1] /\ Sibling(blocks, i, k - 1) = Padded(blocks, l, u - 1)
    BY <1>2, <1>3, <1>7 DEF ReadSibling, Sibling
  <2> QED
    BY <1>5, <2>1, <2>2
<1> QED
  BY <1>6, <1>7

\* Proof gives what New would have made, at the place that the map knows.
LEMMA ProofIsMade ==
    ASSUME KeptInv, phase = "done", NEW d, d \in Provable
    PROVE  /\ leafMap[LeafHash(d)] \in 0..NumLeaves - 1 /\ blocks[leafMap[LeafHash(d)] + 1] = d
           /\ Proof(d) = Made(blocks, leafMap[LeafHash(d)], Depth)
<1>1. LeafHash(d) \in DOMAIN leafMap /\ mode # "ModeProofGen"
  BY DEF Provable
<1>2. PICK i \in 0..NumLeaves - 1 : i = leafMap[LeafHash(d)] /\ blocks[i + 1] = d
  <2>1. leafMap[LeafHash(d)] \in 0..NumLeaves - 1
        /\ LeafHash(d) = LeafHash(blocks[leafMap[LeafHash(d)] + 1])
    BY <1>1 DEF KeptInv, MapInv
  <2> QED
    BY <2>1 DEF LeafHash
<1>3. LeavesInv /\ HeldUpTo(blocks, nodes, Depth - 1)
  BY <1>1 DEF KeptInv, TreeInv, DoneInv
<1>4. /\ blocks \in Blocks /\ Len(blocks) \in Nat /\ NumLeaves = Len(blocks)
      /\ Depth \in 0..Len(blocks)
  BY <1>3, InvDepth
<1>5. ChosenPaths(i, Depth)[Depth] = PathOf(i, Depth)
  <2>1. IsLength(Len(blocks)) /\ i \in Nat
    BY <1>4, LengthOf
  <2> QED
    BY <1>4, <2>1, ChosenPathIs
<1>6. \A k \in 1..Depth : ReadSibling(i, k) = Sibling(blocks, i, k - 1)
  BY <1>3, ReadSiblingIs
<1>7. Proof(d) = [siblings |-> [k \in 1..Depth |-> ReadSibling(i, k)], path |-> ChosenPaths(i, Depth)[Depth]]
  BY <1>2, ProofIs
<1> QED
  BY <1>2, <1>5, <1>6, <1>7 DEF Made

-----------------------------------------------------------------------------
(* Proofs are exact *)

LEMMA MadeVerifies ==
    ASSUME KeptInv, phase = "done", NEW i \in 0..NumLeaves - 1, NEW j \in 0..NumLeaves - 1
    PROVE  Verify(blocks[j + 1], Made(blocks, i, Depth), Root) <=> blocks[j + 1] = blocks[i + 1]
<1>1. /\ blocks \in Blocks /\ Len(blocks) \in Nat /\ NumLeaves = Len(blocks) /\ Len(blocks) >= 1
      /\ Depth \in 0..Len(blocks) /\ LastNode(blocks, Depth) = 0
  BY InvDepth DEF KeptInv, TreeInv
<1>2. PICK proof : proof = Made(blocks, i, Depth)
  OBVIOUS
<1>3. Reaches(blocks, i, proof, Depth)
  BY <1>1, <1>2, MadeReaches
<1>4. i \div 2^Depth = 0
  <2>1. i \div 2^Depth \in 0..LastNode(blocks, Depth)
    BY <1>1, NodeAbove
  <2> QED
    BY <1>1, <2>1
<1>5. Climb(blocks[i + 1], proof) = Root /\ Len(proof.siblings) = Depth
  <2>1. Root = Node(blocks, Depth, 0)
    BY DEF KeptInv, TreeInv, NodesInv
  <2> QED
    BY <1>3, <1>4, <2>1, ReachesClimbs DEF Node
<1>6. Len(proof.siblings) \in Nat
  BY <1>1, <1>5
<1> QED
  BY <1>2, <1>5, <1>6, ClimbsApart DEF Verify

LEMMA EveryBlockIsProvable ==
    ASSUME KeptInv, phase = "done", mode # "ModeProofGen", NEW i \in 0..NumLeaves - 1
    PROVE  blocks[i + 1] \in Provable
<1>1. mapped = NumLeaves
  BY DEF KeptInv, DoneInv
<1>2. LeafHash(blocks[i + 1]) \in DOMAIN leafMap
  BY <1>1 DEF KeptInv, MapInv
<1>3. i + 1 \in DOMAIN blocks
  <2>1. blocks \in Seq(Nat) /\ NumLeaves = Len(blocks) /\ Len(blocks) \in Nat
    BY InvDepth, BlocksAssumption DEF KeptInv, TreeInv
  <2> QED
    BY <2>1
<1> QED
  BY <1>2, <1>3 DEF Provable

LEMMA ProofsAreMade ==
    ASSUME KeptInv, phase = "done", NEW i \in 0..NumLeaves - 1, NEW proof \in Provided(i)
    PROVE  \E j \in 0..NumLeaves - 1 : blocks[j + 1] = blocks[i + 1] /\ proof = Made(blocks, j, Depth)
<1>1. CASE \E j \in {i} \cap DOMAIN proofs : proof = proofs[j]
  <2>1. i \in DOMAIN proofs /\ proof = proofs[i]
    BY <1>1
  <2>2. proofs # Empty
    BY <2>1 DEF Empty
  <2>3. Reaches(blocks, i, proofs[i], Depth)
    BY <2>2 DEF KeptInv, ProofsInv
  <2> QED
    BY <2>1, <2>3 DEF Reaches
<1>2. CASE \E d \in {blocks[i + 1]} \cap Provable : proof = Proof(d)
  BY <1>2, ProofIsMade
<1> QED
  BY <1>1, <1>2 DEF Provided

LEMMA OneProof ==
    ASSUME KeptInv, phase = "done", Ascending(blocks), NEW i \in 0..NumLeaves - 1
    PROVE  Cardinality(Provided(i)) = 1
<1>1. blocks \in Seq(Nat) /\ NumLeaves = Len(blocks) /\ Len(blocks) \in Nat
  BY InvDepth, BlocksAssumption DEF KeptInv, TreeInv
<1>2. ASSUME NEW j \in 0..NumLeaves - 1, blocks[j + 1] = blocks[i + 1] PROVE j = i
  <2>1. j + 1 \in DOMAIN blocks /\ i + 1 \in DOMAIN blocks /\ blocks[i + 1] \in Nat /\ blocks[j + 1] \in Nat
    BY <1>1
  <2>2. ~(i + 1 < j + 1) /\ ~(j + 1 < i + 1)
    BY <1>2, <2>1 DEF Ascending
  <2> QED
    BY <1>1, <2>2
<1>3. Provided(i) \subseteq {Made(blocks, i, Depth)}
  BY <1>2, ProofsAreMade
<1>4. Provided(i) # {}
  <2>1. CASE mode = "ModeProofGen"
    <3>1. i \in DOMAIN proofs
      BY <2>1 DEF KeptInv, DoneInv
    <3> QED
      BY <3>1 DEF Provided
  <2>2. CASE mode # "ModeProofGen"
    BY <2>2, EveryBlockIsProvable DEF Provided
  <2> QED
    BY <2>1, <2>2
<1>5. Provided(i) = {Made(blocks, i, Depth)}
  BY <1>3, <1>4
<1> QED
  BY <1>5, FS_Singleton

LEMMA InvProofsExact == KeptInv => ProofsExact
<1> SUFFICES ASSUME KeptInv, phase = "done", NEW i \in 0..NumLeaves - 1
             PROVE  /\ mode # "ModeProofGen" => blocks[i + 1] \in Provable
                    /\ mode # "ModeTreeBuild" => i \in DOMAIN proofs
                    /\ Ascending(blocks) => Cardinality(Provided(i)) = 1
                    /\ \A proof \in Provided(i), j \in 0..NumLeaves - 1 :
                          Verify(blocks[j + 1], proof, Root) <=> blocks[j + 1] = blocks[i + 1]
  BY DEF ProofsExact
<1>1. mode # "ModeTreeBuild" => i \in DOMAIN proofs
  BY DEF KeptInv, DoneInv
<1>2. ASSUME NEW proof \in Provided(i), NEW j \in 0..NumLeaves - 1
      PROVE  Verify(blocks[j + 1], proof, Root) <=> blocks[j + 1] = blocks[i + 1]
  <2>1. PICK k \in 0..NumLeaves - 1 : blocks[k + 1] = blocks[i + 1] /\ proof = Made(blocks, k, Depth)
    BY ProofsAreMade
  <2> QED
    BY <2>1, MadeVerifies
<1> QED
  BY <1>1, <1>2, EveryBlockIsProvable, OneProof

-----------------------------------------------------------------------------
\* Whatever the blocks, the mode and the number of workers, no two workers of a
\* loop of New ever touch the same leaf, proof or node, and none reads a node
\* that another one writes: the loops need no lock.
THEOREM WorkersNeverRace == Spec => []NoRace
<1>1. Init => IInv
  BY InitEstablishes
<1>2. IInv /\ [Next]_vars => IInv'
  BY StepPreserves
<1>3. IInv => NoRace
  BY InvNoRace
<1> QED
  BY <1>1, <1>2, <1>3, PTL DEF Spec

\* Whatever the blocks, the mode and the number of workers, a tree that New has
\* made, with a pool or without, level by level from its nodes or in a buffer
\* hashed in place, has the root that its blocks in their order define, and no
\* other blocks, where both are in ascending order, have that root.
THEOREM RootIsThatOfTheTree == Spec => []RootCommits
<1>1. TreeInv => RootCommits
  BY RootIsCommitment
<1> QED
  BY <1>1, TreeInvariant, PTL

\* Whatever the blocks, the mode and the number of workers, a proof under
\* construction climbs, from the hash of its block, to the node above the leaf on
\* the level that New has come to: no worker ever leaves a sibling out, takes the
\* wrong one or takes one twice.
THEOREM ProofsFollowTheTree == Spec => []ProofsClimb
<1>1. TreeInv /\ ProofsInv /\ PhaseInv => ProofsClimb
  BY ProofsDoClimb
<1> QED
  BY <1>1, ProofsInvariant, PTL

\* Whatever the blocks, the mode and the number of workers, each block gets its
\* proof, made while the tree was built or read off it with Proof; this proof
\* verifies it and no other block, and where no block comes twice both ways to a
\* proof give the same.
THEOREM EveryBlockIsProved == Spec => []ProofsExact
<1>1. KeptInv => ProofsExact
  BY InvProofsExact
<1> QED
  BY <1>1, KeptInvariant, PTL
=============================================================================

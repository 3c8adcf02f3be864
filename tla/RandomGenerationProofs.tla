----------------------- MODULE RandomGenerationProofs -----------------------
(***************************************************************************)
(* Proofs about RandomGeneration, for any number of domains, any range of  *)
(* offsets, any base of the words, any shapes and any views.               *)
(*                                                                         *)
(* No word is drawn for two elements.  The words below the offset that a   *)
(* domain has reached have been drawn, except, on the way through the      *)
(* kernels of a CUDA call, those of the values, which the call has counted *)
(* and its last kernel is still to draw.                                   *)
(*                                                                         *)
(* Every call stores exactly what it promises.  Ordinals are numbers whose *)
(* mixed-radix digits are the coordinates, in row-major order from the     *)
(* last dimension and in column-major order from the first; the priorities *)
(* rank the ordinals, and the passes of the host, the cutoff of the        *)
(* workspace and the insertions of the device all come to those of least   *)
(* rank.                                                                   *)
(***************************************************************************)
EXTENDS RandomGeneration, FiniteSetTheorems, FunctionTheorems, SequenceTheorems,
        WellFoundedInduction, TLAPS

------------------------------------------------------------------------------
\* Numbers, and ranks in a strict order of a finite set

(* A set of naturals has a least element.                                   *)
LEMMA LeastNat ==
  ASSUME NEW S, S \subseteq Nat, S # {}
  PROVE  \E x \in S : \A y \in S : x <= y
<1> DEFINE Less == {ss \in Nat \X Nat : ss[1] < ss[2]}
<1>1. IsWellFoundedOn(Less, Nat)
  BY NatLessThanWellFounded, Zenon DEF OpToRel
<1>2. \E x \in S : \A y \in S : ~(<<y, x>> \in Less)
  <2> HIDE DEF Less
  <2> QED
    BY <1>1, WFMin, Zenon
<1>3. PICK x \in S : \A y \in S : ~(<<y, x>> \in Less)
  BY <1>2
<1>4. ASSUME NEW y \in S
      PROVE  x <= y
  <2>1. <<y, x>> \notin Less /\ y \in Nat /\ x \in Nat
    BY <1>3
  <2>2. ~(y < x)
    BY <2>1
  <2> QED
    BY <2>1, <2>2
<1> QED
  BY <1>4

(* Induction over a set of naturals.                                        *)
LEMMA NatInd ==
  ASSUME NEW S, 0 \in S, \A n \in Nat : n \in S => n + 1 \in S
  PROVE  Nat \subseteq S
<1> SUFFICES ASSUME NEW m \in Nat, m \notin S
             PROVE  FALSE
  OBVIOUS
<1> DEFINE T == {n \in Nat : n \notin S}
<1>1. PICK x \in T : \A y \in T : x <= y
  <2>1. T \subseteq Nat /\ T # {}
    OBVIOUS
  <2> HIDE DEF T
  <2> QED
    BY <2>1, LeastNat
<1>2. x # 0 /\ x \in Nat
  OBVIOUS
<1>3. x - 1 \in Nat /\ x - 1 \notin T
  BY <1>1, <1>2
<1>4. x - 1 \in S
  BY <1>3
<1>5. (x - 1) + 1 = x
  BY <1>2
<1>6. x \in S
  BY <1>3, <1>4, <1>5
<1> QED
  BY <1>6

(* The elements that come before one, in the order that R lists.            *)
RankIn(D, R, x) == Cardinality({y \in D : <<y, x>> \in R})

StrictOrder(D, R) ==
  /\ \A x \in D : <<x, x>> \notin R
  /\ \A x, y, z \in D : <<x, y>> \in R /\ <<y, z>> \in R => <<x, z>> \in R
  /\ \A x, y \in D : x # y => <<x, y>> \in R \/ <<y, x>> \in R

(* Ranks number the elements of a set from zero, in their order.            *)
LEMMA Ranks ==
  ASSUME NEW D, IsFiniteSet(D), NEW R, StrictOrder(D, R)
  PROVE  /\ Cardinality(D) \in Nat
         /\ \A x \in D : RankIn(D, R, x) \in 0 .. Cardinality(D) - 1
         /\ \A x, y \in D : <<x, y>> \in R <=> RankIn(D, R, x) < RankIn(D, R, y)
         /\ \A x, y \in D : RankIn(D, R, x) = RankIn(D, R, y) => x = y
         /\ \A p \in 0 .. Cardinality(D) - 1 : \E x \in D : RankIn(D, R, x) = p
<1> DEFINE Below(x) == {y \in D : <<y, x>> \in R}
           Rank(x) == Cardinality(Below(x))
<1>1. Cardinality(D) \in Nat
  BY FS_CardinalityType
<1>2. ASSUME NEW x \in D
      PROVE  IsFiniteSet(Below(x)) /\ Rank(x) \in Nat
  <2>1. Below(x) \in SUBSET D
    OBVIOUS
  <2> HIDE DEF Below
  <2> QED
    BY <2>1, FS_Subset, FS_CardinalityType
<1>3. ASSUME NEW x \in D
      PROVE  x \notin Below(x)
  BY DEF StrictOrder
<1>4. ASSUME NEW x \in D
      PROVE  Rank(x) \in 0 .. Cardinality(D) - 1
  <2>1. Below(x) \cup {x} \in SUBSET D
    OBVIOUS
  <2>2. x \notin Below(x)
    BY <1>3
  <2> HIDE DEF Below
  <2>3. Cardinality(Below(x) \cup {x}) = Rank(x) + 1
    BY <1>2, <2>2, FS_AddElement
  <2>4. Cardinality(Below(x) \cup {x}) <= Cardinality(D)
    BY <2>1, FS_Subset
  <2> QED
    BY <1>1, <1>2, <2>3, <2>4
<1>5. ASSUME NEW x \in D, NEW y \in D, <<x, y>> \in R
      PROVE  Rank(x) < Rank(y)
  <2>1. Below(x) \cup {x} \in SUBSET Below(y)
    BY <1>5 DEF StrictOrder
  <2>2. x \notin Below(x)
    BY <1>3
  <2> HIDE DEF Below
  <2>3. Cardinality(Below(x) \cup {x}) = Rank(x) + 1
    BY <1>2, <2>2, FS_AddElement
  <2>4. Cardinality(Below(x) \cup {x}) <= Rank(y)
    BY <1>2, <2>1, FS_Subset
  <2> QED
    BY <1>2, <2>3, <2>4
<1>6. ASSUME NEW x \in D, NEW y \in D, x # y
      PROVE  <<x, y>> \in R \/ <<y, x>> \in R
  BY <1>6 DEF StrictOrder
<1> HIDE DEF Rank
<1>7. ASSUME NEW x \in D, NEW y \in D, Rank(x) = Rank(y)
      PROVE  x = y
  <2>1. Rank(x) \in Int /\ Rank(y) \in Int
    BY <1>4
  <2>2. ~(Rank(x) < Rank(y)) /\ ~(Rank(y) < Rank(x))
    BY <2>1, <1>7
  <2> QED
    BY <1>5, <1>6, <2>2
<1>8. ASSUME NEW x \in D, NEW y \in D, Rank(x) < Rank(y)
      PROVE  <<x, y>> \in R
  <2>1. Rank(x) \in Int /\ Rank(y) \in Int
    BY <1>4
  <2>2. x # y /\ ~(Rank(y) < Rank(x))
    BY <2>1, <1>8
  <2> QED
    BY <1>5, <1>6, <2>2
<1> DEFINE ranks == 0 .. Cardinality(D) - 1
           g == [x \in D |-> Rank(x)]
<1>9. g \in Injection(D, ranks)
  BY <1>4, <1>7 DEF Injection, IsInjective
<1>10. IsFiniteSet(ranks) /\ Cardinality(ranks) = Cardinality(D)
  BY <1>1, FS_Interval
<1>11. g \in Surjection(D, ranks)
  <2> HIDE DEF g, ranks
  <2> QED
    BY <1>9, <1>10, FS_Injection
<1>12. \A p \in ranks : \E x \in D : Rank(x) = p
  BY <1>11 DEF Surjection
<1>13. \A x : RankIn(D, R, x) = Rank(x)
  BY DEF RankIn, Rank
<1>14. \A x \in D : Rank(x) \in ranks
  BY <1>4
<1>15. \A x, y \in D : <<x, y>> \in R <=> Rank(x) < Rank(y)
  BY <1>5, <1>8
<1> HIDE DEF ranks
<1>16. \A p \in ranks : \E x \in D : RankIn(D, R, x) = p
  BY <1>12, <1>13
<1> QED
  BY <1>1, <1>7, <1>13, <1>14, <1>15, <1>16 DEF ranks

(* The elements of the first n ranks are n.                                 *)
LEMMA FirstRanks ==
  ASSUME NEW D, IsFiniteSet(D), NEW R, StrictOrder(D, R), NEW n \in 0 .. Cardinality(D)
  PROVE  LET first == {x \in D : RankIn(D, R, x) < n}
         IN IsFiniteSet(first) /\ Cardinality(first) = n
<1> DEFINE first == {x \in D : RankIn(D, R, x) < n}
           ranks == 0 .. n - 1
           g == [x \in first |-> RankIn(D, R, x)]
<1>1. /\ Cardinality(D) \in Nat
      /\ \A x \in D : RankIn(D, R, x) \in 0 .. Cardinality(D) - 1
      /\ \A x, y \in D : RankIn(D, R, x) = RankIn(D, R, y) => x = y
      /\ \A p \in 0 .. Cardinality(D) - 1 : \E x \in D : RankIn(D, R, x) = p
  BY Ranks
<1>2. \A x \in first : RankIn(D, R, x) \in ranks
  BY <1>1
<1>3. \A p \in ranks : \E x \in first : RankIn(D, R, x) = p
  BY <1>1
<1>4. first \in SUBSET D
  OBVIOUS
<1> HIDE DEF first, ranks
<1>5. g \in Injection(first, ranks)
  BY <1>1, <1>2, <1>4 DEF Injection, IsInjective
<1>6. g \in Surjection(first, ranks)
  BY <1>2, <1>3 DEF Surjection
<1>7. ExistsBijection(first, ranks)
  BY <1>5, <1>6 DEF ExistsBijection, Bijection
<1>8. IsFiniteSet(first)
  BY <1>4, FS_Subset
<1>9. Cardinality(first) = Cardinality(ranks)
  BY <1>7, <1>8, FS_Bijection
<1>10. Cardinality(ranks) = n
  BY <1>1, FS_Interval DEF ranks
<1> QED
  BY <1>8, <1>9, <1>10 DEF first

(* A fold takes the elements of a set one by one.                           *)
FoldStep(base, op, g, s) ==
  IF s = {} THEN base
  ELSE op[<<CHOOSE x \in s : TRUE, g[s \ {CHOOSE x \in s : TRUE}]>>]

IsFold(g, S, base, op) == g = [s \in SUBSET S |-> FoldStep(base, op, g, s)]

(* A fold over a finite set has a value on every subset.                    *)
LEMMA FoldExists ==
  ASSUME NEW S, IsFiniteSet(S), NEW B, NEW base \in B, NEW op \in [S \X B -> B]
  PROVE  \E g \in [SUBSET S -> B] : IsFold(g, S, base, op)
<1> DEFINE Sets(k) == {s \in SUBSET S : Cardinality(s) <= k}
           Solves(g, k) == \A s \in Sets(k) : g[s] = FoldStep(base, op, g, s)
           K == {k \in Nat : \E g \in [Sets(k) -> B] : Solves(g, k)}
<1>1. \A s \in SUBSET S : IsFiniteSet(s) /\ Cardinality(s) \in Nat
                          /\ Cardinality(s) <= Cardinality(S)
  BY FS_Subset, FS_CardinalityType
<1>2. ASSUME NEW s \in SUBSET S, s # {}
      PROVE  /\ (CHOOSE x \in s : TRUE) \in S
             /\ s \ {CHOOSE x \in s : TRUE} \in SUBSET S
             /\ Cardinality(s \ {CHOOSE x \in s : TRUE}) = Cardinality(s) - 1
  <2>1. PICK x : x = CHOOSE y \in s : TRUE
    OBVIOUS
  <2>2. x \in s
    BY <1>2, <2>1
  <2>3. Cardinality(s \ {x}) = Cardinality(s) - 1
    BY <1>1, <2>2, FS_RemoveElement
  <2>4. x \in S /\ s \ {x} \in SUBSET S
    BY <2>2
  <2> QED
    BY <2>1, <2>3, <2>4, Zenon
<1>3. 0 \in K
  <2> DEFINE g == [s \in Sets(0) |-> base]
  <2>1. \A s \in Sets(0) : s = {}
    BY <1>1, FS_EmptySet
  <2>2. Solves(g, 0)
    BY <2>1 DEF FoldStep
  <2>3. g \in [Sets(0) -> B]
    OBVIOUS
  <2> HIDE DEF g, Sets, Solves
  <2> QED
    BY <2>2, <2>3
<1>4. ASSUME NEW k \in Nat, k \in K
      PROVE  k + 1 \in K
  <2>1. PICK g \in [Sets(k) -> B] : Solves(g, k)
    BY <1>4
  <2> DEFINE h == [s \in Sets(k + 1) |-> FoldStep(base, op, g, s)]
  <2>2. \A s \in Sets(k) : s \in Sets(k + 1)
    BY <1>1
  <2>3. \A s \in Sets(k) : h[s] = g[s]
    <3> HIDE DEF Sets
    <3> QED
      BY <2>1, <2>2
  <2>4. ASSUME NEW s \in Sets(k + 1), s # {}
        PROVE  s \ {CHOOSE x \in s : TRUE} \in Sets(k)
    BY <1>1, <1>2, <2>4
  <2>5. ASSUME NEW s \in Sets(k + 1)
        PROVE  FoldStep(base, op, g, s) \in B /\ h[s] = FoldStep(base, op, h, s)
    <3>1. CASE s = {}
      BY <3>1 DEF FoldStep
    <3>2. CASE s # {}
      <4>1. PICK x : x = CHOOSE y \in s : TRUE
        OBVIOUS
      <4>2. x \in S /\ s \ {x} \in Sets(k)
        BY <1>2, <2>4, <3>2, <4>1
      <4>3. h[s \ {x}] = g[s \ {x}] /\ g[s \ {x}] \in B
        <5> HIDE DEF h, Sets
        <5> QED
          BY <2>1, <2>3, <4>2
      <4>4. h[s] = FoldStep(base, op, g, s)
        <5> HIDE DEF Sets
        <5> QED
          OBVIOUS
      <4> HIDE DEF h, Sets
      <4>5. FoldStep(base, op, g, s) = op[<<x, g[s \ {x}]>>]
        BY <3>2, <4>1, Zenon DEF FoldStep
      <4>6. FoldStep(base, op, h, s) = op[<<x, h[s \ {x}]>>]
        BY <3>2, <4>1, Zenon DEF FoldStep
      <4>7. op[<<x, g[s \ {x}]>>] \in B
        BY <4>2, <4>3
      <4> QED
        BY <4>3, <4>4, <4>5, <4>6, <4>7
    <3> QED
      BY <3>1, <3>2
  <2>6. h \in [Sets(k + 1) -> B]
    <3> HIDE DEF Sets
    <3> QED
      BY <2>5
  <2>7. Solves(h, k + 1)
    <3> HIDE DEF Sets, h
    <3> QED
      BY <2>5
  <2> HIDE DEF h, Sets, Solves
  <2> QED
    BY <2>6, <2>7
<1>5. Nat \subseteq K
  <2> HIDE DEF K
  <2> QED
    BY <1>3, <1>4, NatInd
<1>6. PICK k \in Nat : k = Cardinality(S)
  BY FS_CardinalityType
<1>7. Sets(k) = SUBSET S
  BY <1>1, <1>6
<1>8. PICK g \in [Sets(k) -> B] : Solves(g, k)
  BY <1>5
<1>9. g \in [SUBSET S -> B] /\ \A s \in SUBSET S : g[s] = FoldStep(base, op, g, s)
  <2> HIDE DEF Sets
  <2> QED
    BY <1>7, <1>8
<1>10. IsFold(g, S, base, op)
  BY <1>9 DEF IsFold
<1> QED
  BY <1>9, <1>10

-----------------------------------------------------------------------------
(* Division and digits. *)

(* Quotient and remainder recompose the number.                             *)
LEMMA DivFacts ==
  ASSUME NEW m \in Nat, m > 0, NEW x \in Int
  PROVE  /\ x \div m \in Int /\ x % m \in 0 .. m - 1
         /\ x = m * (x \div m) + (x % m)
OBVIOUS

(* Division by m has one quotient and one remainder.                        *)
LEMMA Unique ==
  ASSUME NEW m \in Nat, m > 0, NEW q \in Int, NEW r \in 0 .. m - 1
  PROVE  /\ (m * q + r) % m = r
         /\ (m * q + r) \div m = q
<1>1. PICK x \in Int : x = m * q + r
  OBVIOUS
<1>2. PICK d \in Int, e \in 0 .. m - 1 : d = x \div m /\ e = x % m /\ x = m * d + e
  BY DivFacts
<1>3. m * (q - d) = m * q - m * d
  OBVIOUS
<1>4. PICK k \in Int : k = q - d
  OBVIOUS
<1>5. PICK p \in Int : p = m * k
  OBVIOUS
<1>6. p = e - r
  <2>1. PICK y \in Int, z \in Int : y = m * q /\ z = m * d
    OBVIOUS
  <2>2. p = y - z /\ x = y + r /\ x = z + e
    BY <1>1, <1>2, <1>3, <1>4, <1>5, <2>1
  <2> QED
    BY <2>2
<1>7. p < m /\ -m < p
  BY <1>6
<1>8. k = 0
  <2>1. CASE k >= 1
    BY <1>5, <1>7, <2>1
  <2>2. CASE k <= -1
    BY <1>5, <1>7, <2>2
  <2> QED
    BY <2>1, <2>2
<1>9. p = 0
  BY <1>5, <1>8
<1> QED
  BY <1>1, <1>2, <1>4, <1>6, <1>8, <1>9

(* A smaller number has a smaller quotient, or the same.                    *)
LEMMA DivMonotone ==
  ASSUME NEW m \in Nat, m > 0, NEW x \in Int, NEW y \in Int, x <= y
  PROVE  x \div m <= y \div m
<1>1. PICK a \in Int, r \in 0 .. m - 1 : a = x \div m /\ x = m * a + r
  BY DivFacts
<1>2. PICK b \in Int, s \in 0 .. m - 1 : b = y \div m /\ y = m * b + s
  BY DivFacts
<1>3. CASE a > b
  <2>1. m * (a - b) = m * a - m * b
    OBVIOUS
  <2>2. PICK k \in Int, p \in Int, u \in Int, v \in Int :
          k = a - b /\ p = m * k /\ u = m * a /\ v = m * b
    OBVIOUS
  <2>3. p >= m
    BY <1>3, <2>2
  <2>4. p = u - v /\ x = u + r /\ y = v + s
    BY <1>1, <1>2, <2>1, <2>2
  <2> QED
    BY <2>3, <2>4
<1> QED
  BY <1>1, <1>2, <1>3

(* The quotient of a number below a product is below its other factor.      *)
LEMMA DivBelow ==
  ASSUME NEW m \in Nat, m > 0, NEW w \in Nat, NEW x \in Nat, x < m * w
  PROVE  x \div m \in 0 .. w - 1
<1>1. PICK a \in Int, r \in 0 .. m - 1 : a = x \div m /\ x = m * a + r
  BY DivFacts
<1>2. a >= 0
  BY <1>1
<1>3. CASE a >= w
  <2>1. m * (a - w) = m * a - m * w
    OBVIOUS
  <2>2. PICK k \in Nat, p \in Int, u \in Int, v \in Int :
          k = a - w /\ p = m * k /\ u = m * a /\ v = m * w
    BY <1>3
  <2>3. p >= 0
    BY <2>2
  <2>4. p = u - v /\ x = u + r /\ x < v
    BY <1>1, <2>1, <2>2
  <2> QED
    BY <2>3, <2>4
<1> QED
  BY <1>1, <1>2, <1>3

(* To divide by a product is to divide by its factors.                      *)
LEMMA DivDiv ==
  ASSUME NEW a \in Nat, a > 0, NEW b \in Nat, b > 0, NEW x \in Nat
  PROVE  (x \div a) \div b = x \div (b * a)
<1>1. PICK q \in Int, r \in 0 .. a - 1 : q = x \div a /\ x = a * q + r
  BY DivFacts
<1>2. PICK p \in Int, s \in 0 .. b - 1 : p = q \div b /\ q = b * p + s
  BY DivFacts
<1>3. PICK m \in Nat : m = b * a /\ m > 0
  OBVIOUS
<1>4. a * s + r \in 0 .. m - 1
  <2>1. a * s + r >= 0
    OBVIOUS
  <2>2. a * (b - 1 - s) >= 0
    OBVIOUS
  <2>3. a * (b - 1 - s) = m - a - a * s
    BY <1>3
  <2>4. PICK u \in Int : u = a * s
    OBVIOUS
  <2> QED
    BY <2>1, <2>2, <2>3, <2>4
<1>5. x = m * p + (a * s + r)
  <2>1. a * (b * p + s) = a * (b * p) + a * s
    OBVIOUS
  <2>2. a * (b * p) = m * p
    BY <1>3
  <2> QED
    BY <1>1, <1>2, <2>1, <2>2
<1>6. PICK t \in 0 .. m - 1 : t = a * s + r
  BY <1>4
<1>7. x \div m = p
  BY <1>3, <1>5, <1>6, Unique
<1> QED
  BY <1>1, <1>2, <1>3, <1>7

------------------------------------------------------------------------------
\* Mixed-radix digits of an ordinal

(* Induction downwards.                                                     *)
LEMMA Downwards ==
  ASSUME NEW low \in Nat, NEW top \in Nat, NEW S, top \in S,
         \A k \in low .. top - 1 : k + 1 \in S => k \in S
  PROVE  low .. top \subseteq S
<1> SUFFICES ASSUME NEW m \in low .. top, m \notin S
             PROVE  FALSE
  OBVIOUS
<1> DEFINE T == {n \in Nat : n <= top - low /\ top - n \notin S}
<1>1. PICK x \in T : \A y \in T : x <= y
  <2>1. T \subseteq Nat /\ top - m \in T
    OBVIOUS
  <2>2. T # {}
    BY <2>1
  <2> HIDE DEF T
  <2> QED
    BY <2>1, <2>2, LeastNat
<1>2. x \in Nat /\ x # 0 /\ x <= top - low /\ top - x \notin S
  OBVIOUS
<1>3. x - 1 \notin T /\ x - 1 \in Nat
  BY <1>1, <1>2
<1>4. top - (x - 1) \in S
  BY <1>2, <1>3
<1>5. top - x \in low .. top - 1 /\ (top - x) + 1 = top - (x - 1)
  BY <1>2
<1> QED
  BY <1>2, <1>4, <1>5

(* The radices of n digits, and the weights w of the first ones.            *)
Radices(n, e, w) ==
  /\ e \in [1 .. n -> Nat \ {0}]
  /\ w \in [0 .. n -> Nat] /\ w[0] = 1
  /\ \A d \in 1 .. n : w[d] = e[d] * w[d - 1]

(* An ordinal is divided by one radix after the other, the last one first.  *)
Divided(n, e, q, ordinal) ==
  \A d \in 1 .. n : q[d] = IF d = n THEN ordinal ELSE q[d + 1] \div e[d + 1]

(* Every quotient is in its range, and its digit below the extent.          *)
LEMMA DividedFacts ==
  ASSUME NEW n \in Nat, NEW e, NEW w, Radices(n, e, w), NEW o \in 0 .. w[n] - 1,
         NEW q, Divided(n, e, q, o)
  PROVE  \A d \in 1 .. n :
           /\ q[d] \in 0 .. w[d] - 1
           /\ q[d] = e[d] * (IF d = 1 THEN 0 ELSE q[d - 1]) + (q[d] % e[d])
           /\ q[d] % e[d] \in 0 .. e[d] - 1
<1> DEFINE S == {d \in Nat : d \in 1 .. n => q[d] \in 0 .. w[d] - 1}
<1>0. /\ \A d \in 1 .. n : e[d] \in Nat /\ e[d] > 0
      /\ \A d \in 0 .. n : w[d] \in Nat
      /\ \A d \in 1 .. n : w[d] = e[d] * w[d - 1]
      /\ w[0] = 1
  BY DEF Radices
<1>1. n \in S
  BY DEF Divided
<1>2. ASSUME NEW k \in 1 .. n - 1, k + 1 \in S
      PROVE  k \in S
  <2>1. q[k + 1] \in 0 .. w[k + 1] - 1 /\ k + 1 \in 1 .. n /\ k \in 1 .. n
    BY <1>2
  <2>2. q[k] = q[k + 1] \div e[k + 1]
    BY <2>1 DEF Divided
  <2>3. w[k + 1] = e[k + 1] * w[k] /\ w[k] \in Nat /\ w[k + 1] \in Nat
    BY <1>0, <2>1
  <2>4. PICK m \in Nat, x \in Nat, v \in Nat : m = e[k + 1] /\ x = q[k + 1] /\ v = w[k] /\ m > 0
    BY <1>0, <2>1, <2>3
  <2>5. x < m * v
    BY <2>1, <2>3, <2>4
  <2>6. x \div m \in 0 .. v - 1
    BY <2>4, <2>5, DivBelow
  <2> QED
    BY <2>2, <2>4, <2>6
<1>3. 1 .. n \subseteq S
  <2>1. CASE n = 0
    BY <2>1
  <2>2. CASE n # 0
    <3> HIDE DEF S
    <3> QED
      BY <1>1, <1>2, <2>2, Downwards
  <2> QED
    BY <2>1, <2>2
<1>4. ASSUME NEW d \in 1 .. n
      PROVE  /\ q[d] \in 0 .. w[d] - 1
             /\ q[d] = e[d] * (IF d = 1 THEN 0 ELSE q[d - 1]) + (q[d] % e[d])
             /\ q[d] % e[d] \in 0 .. e[d] - 1
  <2>1. q[d] \in 0 .. w[d] - 1
    BY <1>3
  <2>2. PICK m \in Nat, x \in Nat : m = e[d] /\ x = q[d] /\ m > 0
    BY <1>0, <2>1
  <2>3. x \div m \in Int /\ x % m \in 0 .. m - 1 /\ x = m * (x \div m) + (x % m)
    <3> HIDE DEF S
    <3>1. m \in Nat /\ m > 0 /\ x \in Int
      BY <2>2
    <3> QED
      BY <3>1, DivFacts, Zenon
  <2>4. x \div m = IF d = 1 THEN 0 ELSE q[d - 1]
    <3>1. CASE d = 1
      <4>1. w[1] = e[1] * w[0] /\ w[0] = 1 /\ e[1] \in Nat
        BY <1>0, <3>1
      <4>2. w[1] = e[1]
        BY <4>1
      <4>3. x < m * 1
        BY <2>1, <2>2, <3>1, <4>2
      <4>4. x \div m \in 0 .. 1 - 1
        BY <2>2, <4>3, DivBelow
      <4> QED
        BY <3>1, <4>4
    <3>2. CASE d # 1
      <4>1. d - 1 \in 1 .. n /\ d - 1 # n /\ (d - 1) + 1 = d
        BY <3>2
      <4>2. q[d - 1] = q[d] \div e[d]
        BY <4>1 DEF Divided
      <4> QED
        BY <2>2, <3>2, <4>2
    <3> QED
      BY <3>1, <3>2
  <2>5. x = m * (IF d = 1 THEN 0 ELSE q[d - 1]) + (x % m)
    BY <2>3, <2>4, Zenon
  <2> QED
    BY <2>1, <2>2, <2>3, <2>5
<1> QED
  BY <1>4

(* A greater ordinal has a greater digit at the first place where digits    *)
(* differ.                                                                  *)
LEMMA DigitsRise ==
  ASSUME NEW n \in Nat, NEW e, NEW w, Radices(n, e, w),
         NEW o \in 0 .. w[n] - 1, NEW q, Divided(n, e, q, o),
         NEW p \in 0 .. w[n] - 1, NEW r, Divided(n, e, r, p), o < p
  PROVE  \E d \in 1 .. n :
           /\ q[d] % e[d] < r[d] % e[d]
           /\ \A i \in 1 .. d - 1 : q[i] % e[i] = r[i] % e[i]
<1>0. /\ \A d \in 1 .. n : e[d] \in Nat /\ e[d] > 0
      /\ w[0] = 1 /\ w[n] \in Nat
  BY DEF Radices
<1>1. n > 0
  BY <1>0
<1>2. \A d \in 1 .. n :
        /\ q[d] \in Nat
        /\ q[d] = e[d] * (IF d = 1 THEN 0 ELSE q[d - 1]) + (q[d] % e[d])
        /\ q[d] % e[d] \in 0 .. e[d] - 1
  <2> HIDE DEF Divided, Radices
  <2> QED
    BY DividedFacts
<1>3. \A d \in 1 .. n :
        /\ r[d] \in Nat
        /\ r[d] = e[d] * (IF d = 1 THEN 0 ELSE r[d - 1]) + (r[d] % e[d])
        /\ r[d] % e[d] \in 0 .. e[d] - 1
  <2> HIDE DEF Divided, Radices
  <2> QED
    BY DividedFacts
<1> DEFINE S == {d \in Nat : q[d] <= r[d]}
           T == {d \in 1 .. n : q[d] # r[d]}
<1>4. n \in S
  BY <1>1 DEF Divided
<1>5. ASSUME NEW k \in 1 .. n - 1, k + 1 \in S
      PROVE  k \in S
  <2>1. k \in 1 .. n /\ k # n /\ k + 1 \in 1 .. n /\ q[k + 1] <= r[k + 1]
    BY <1>5
  <2>2. q[k] = q[k + 1] \div e[k + 1] /\ r[k] = r[k + 1] \div e[k + 1]
    BY <2>1 DEF Divided
  <2>3. q[k] <= r[k]
    <3>1. PICK m \in Nat, x \in Int, y \in Int :
            m = e[k + 1] /\ m > 0 /\ x = q[k + 1] /\ y = r[k + 1] /\ x <= y
      BY <1>0, <1>2, <1>3, <2>1
    <3>2. x \div m <= y \div m
      <4> HIDE DEF S, T
      <4> QED
        BY <3>1, DivMonotone
    <3> QED
      BY <2>2, <3>1, <3>2
  <2> QED
    BY <2>3
<1>6. 1 .. n \subseteq S
  <2> HIDE DEF S
  <2> QED
    BY <1>1, <1>4, <1>5, Downwards
<1>7. T \subseteq Nat /\ n \in T
  BY <1>1 DEF Divided
<1>8. PICK d \in T : \A i \in T : d <= i
  <2> HIDE DEF T
  <2> QED
    BY <1>7, LeastNat
<1>9. /\ d \in 1 .. n /\ q[d] # r[d] /\ q[d] <= r[d]
      /\ \A i \in 1 .. d - 1 : i \in 1 .. n /\ q[i] = r[i]
  BY <1>6, <1>8
<1>10. (IF d = 1 THEN 0 ELSE q[d - 1]) = (IF d = 1 THEN 0 ELSE r[d - 1])
  BY <1>9
<1>11. q[d] % e[d] < r[d] % e[d]
  <2>1. PICK c \in Int : c = e[d] * (IF d = 1 THEN 0 ELSE q[d - 1])
    <3>1. (IF d = 1 THEN 0 ELSE q[d - 1]) \in Int
      BY <1>2, <1>9
    <3> QED
      BY <1>0, <1>9, <3>1
  <2>2. q[d] = c + (q[d] % e[d]) /\ r[d] = c + (r[d] % e[d])
    BY <1>2, <1>3, <1>9, <1>10, <2>1
  <2>3. q[d] \in Nat /\ r[d] \in Nat /\ q[d] < r[d]
        /\ q[d] % e[d] \in Int /\ r[d] % e[d] \in Int
    BY <1>2, <1>3, <1>9
  <2> QED
    BY <2>2, <2>3
<1> QED
  BY <1>9, <1>11

(* One more digit stays below the product.                                  *)
LEMMA HornerBelow ==
  ASSUME NEW m \in Nat, NEW v \in Nat, NEW x \in 0 .. v - 1, NEW y \in 0 .. m - 1
  PROVE  m * x + y \in 0 .. m * v - 1
<1>1. m * x \in Nat /\ m * (v - 1 - x) >= 0
  OBVIOUS
<1>2. m * (v - 1 - x) = m * v - m - m * x
  OBVIOUS
<1>3. PICK u \in Nat, z \in Int : u = m * x /\ z = m * v
  OBVIOUS
<1> QED
  BY <1>1, <1>2, <1>3

(* There is an ordinal for all digits.                                      *)
Reached(n, e, w, t) ==
  \E o \in 0 .. w[n] - 1 :
    \A q : Divided(n, e, q, o) => \A d \in 1 .. n : q[d] % e[d] = t[d]

(* Every sequence of digits is that of some ordinal.                        *)
LEMMA DigitsReach ==
  ASSUME NEW n \in Nat, NEW e, NEW w, Radices(n, e, w),
         NEW t, \A d \in 1 .. n : t[d] \in 0 .. e[d] - 1
  PROVE  Reached(n, e, w, t)
<1>0. /\ \A d \in 1 .. n : e[d] \in Nat /\ e[d] > 0
      /\ \A d \in 0 .. n : w[d] \in Nat
      /\ \A d \in 1 .. n : w[d] = e[d] * w[d - 1]
      /\ w[0] = 1
  BY DEF Radices
<1> DEFINE Sums(h, k) ==
             /\ h[0] = 0
             /\ \A d \in 0 .. k : h[d] \in 0 .. w[d] - 1
             /\ \A d \in 1 .. k : h[d] = e[d] * h[d - 1] + t[d]
           S == {k \in Nat : k <= n => \E h : Sums(h, k)}
<1>1. 0 \in S
  <2>1. Sums([d \in 0 .. 0 |-> 0], 0)
    BY <1>0
  <2> HIDE DEF Sums
  <2> QED
    BY <2>1
<1>2. ASSUME NEW k \in Nat, k \in S
      PROVE  k + 1 \in S
  <2> SUFFICES ASSUME k + 1 <= n PROVE \E h : Sums(h, k + 1)
    <3> HIDE DEF Sums
    <3> QED
      OBVIOUS
  <2>1. PICK h : Sums(h, k)
    <3> HIDE DEF Sums
    <3> QED
      BY <1>2
  <2>2. PICK last : last = e[k + 1] * h[k] + t[k + 1]
    OBVIOUS
  <2> DEFINE g == [d \in 0 .. k + 1 |-> IF d = k + 1 THEN last ELSE h[d]]
  <2>3. last \in 0 .. w[k + 1] - 1
    <3>1. k + 1 \in 1 .. n /\ (k + 1) - 1 = k /\ k \in 0 .. n
      OBVIOUS
    <3>2. h[k] \in 0 .. w[k] - 1
      BY <2>1
    <3>3. PICK m \in Nat, v \in Nat, x \in Nat, y \in Nat :
            m = e[k + 1] /\ v = w[k] /\ x = h[k] /\ y = t[k + 1]
      <4>1. e[k + 1] \in Nat /\ w[k] \in Nat
        BY <1>0, <3>1
      <4>2. t[k + 1] \in 0 .. e[k + 1] - 1
        BY <3>1
      <4>3. h[k] \in Nat /\ t[k + 1] \in Nat
        BY <3>2, <4>1, <4>2
      <4> HIDE DEF Sums, S, g
      <4> QED
        BY <4>1, <4>3, Zenon
    <3>4. m * x + y \in 0 .. m * v - 1
      <4>1. x \in 0 .. v - 1 /\ y \in 0 .. m - 1
        BY <3>1, <3>2, <3>3
      <4> HIDE DEF Sums, S, g
      <4> QED
        BY <4>1, HornerBelow
    <3>5. w[k + 1] = m * v
      BY <1>0, <3>1, <3>3
    <3> QED
      BY <2>2, <3>3, <3>4, <3>5
  <2>4. \A d \in 0 .. k : g[d] = h[d]
    OBVIOUS
  <2>5. g[k + 1] = last
    OBVIOUS
  <2> HIDE DEF g
  <2>6. g[0] = 0 /\ \A d \in 0 .. k + 1 : g[d] \in 0 .. w[d] - 1
    <3>1. ASSUME NEW d \in 0 .. k + 1 PROVE g[d] \in 0 .. w[d] - 1
      <4>1. CASE d = k + 1
        BY <2>3, <2>5, <4>1
      <4>2. CASE d # k + 1
        BY <2>1, <2>4, <4>2
      <4> QED
        BY <4>1, <4>2
    <3> QED
      BY <2>1, <2>4, <3>1
  <2>7. ASSUME NEW d \in 1 .. k + 1 PROVE g[d] = e[d] * g[d - 1] + t[d]
    <3>1. d - 1 \in 0 .. k
      OBVIOUS
    <3>2. g[d - 1] = h[d - 1]
      BY <2>4, <3>1
    <3>3. CASE d = k + 1
      BY <2>2, <2>5, <3>2, <3>3
    <3>4. CASE d # k + 1
      BY <2>1, <2>4, <3>2, <3>4
    <3> QED
      BY <3>3, <3>4
  <2>8. Sums(g, k + 1)
    BY <2>6, <2>7
  <2> HIDE DEF Sums
  <2> QED
    BY <2>8
<1>3. Nat \subseteq S
  <2> HIDE DEF S
  <2> QED
    BY <1>1, <1>2, NatInd
<1>4. PICK h : Sums(h, n)
  <2> HIDE DEF Sums
  <2> QED
    BY <1>3
<1>5. h[n] \in 0 .. w[n] - 1
  BY <1>4
<1>6. ASSUME NEW q, Divided(n, e, q, h[n]), NEW i \in 1 .. n
      PROVE  q[i] % e[i] = t[i]
  <2> DEFINE D == {d \in Nat : q[d] = h[d]}
  <2>0. \A d \in 1 .. n : (e[d] * h[d - 1] + t[d]) % e[d] = t[d]
                          /\ (e[d] * h[d - 1] + t[d]) \div e[d] = h[d - 1]
    <3>1. ASSUME NEW d \in 1 .. n
          PROVE  (e[d] * h[d - 1] + t[d]) % e[d] = t[d]
                 /\ (e[d] * h[d - 1] + t[d]) \div e[d] = h[d - 1]
      <4>1. e[d] \in Nat /\ e[d] > 0 /\ t[d] \in 0 .. e[d] - 1
        BY <1>0
      <4>2. h[d - 1] \in Int
        <5>1. d - 1 \in 0 .. n
          OBVIOUS
        <5> QED
          BY <1>4, <5>1
      <4> QED
        BY <4>1, <4>2, Unique
    <3> QED
      BY <3>1
  <2>1. n \in D
    BY <1>6 DEF Divided
  <2>2. ASSUME NEW k \in 1 .. n - 1, k + 1 \in D
        PROVE  k \in D
    <3>1. k \in 1 .. n /\ k # n /\ k + 1 \in 1 .. n /\ (k + 1) - 1 = k /\ q[k + 1] = h[k + 1]
      BY <2>2
    <3>2. q[k] = h[k + 1] \div e[k + 1]
      BY <1>6, <3>1 DEF Divided
    <3>3. h[k + 1] = e[k + 1] * h[k] + t[k + 1]
      BY <1>4, <3>1
    <3>4. (e[k + 1] * h[k] + t[k + 1]) \div e[k + 1] = h[k]
      BY <2>0, <3>1
    <3> QED
      BY <3>2, <3>3, <3>4
  <2>3. 1 .. n \subseteq D
    <3>1. 1 \in Nat /\ n \in Nat
      OBVIOUS
    <3> HIDE DEF D
    <3> QED
      BY <2>1, <2>2, <3>1, Downwards
  <2>4. q[i] = h[i] /\ h[i] = e[i] * h[i - 1] + t[i]
    BY <1>4, <2>3
  <2> QED
    BY <2>0, <2>4
<1> HIDE DEF Sums
<1> QED
  BY <1>5, <1>6 DEF Reached

------------------------------------------------------------------------------
\* The weights of the dimensions, from the fold that multiplies the extents

-----------------------------------------------------------------------------
(* Sizes of shapes. *)

(* What LogicalSize() folds: the products of some of the extents.           *)
IsProducts(g, extents) ==
  g = [s \in SUBSET DOMAIN extents |->
         IF s = {} THEN 1
         ELSE extents[CHOOSE x \in s : TRUE] * g[s \ {CHOOSE x \in s : TRUE}]]

Products(extents) == CHOOSE g : IsProducts(g, extents)

(* A shape is a finite function to the naturals.                            *)
LEMMA ShapeFacts ==
  ASSUME NEW extents \in Seq(Nat)
  PROVE  /\ Len(extents) \in Nat /\ DOMAIN extents = 1 .. Len(extents)
         /\ IsFiniteSet(DOMAIN extents)
         /\ \A d \in DOMAIN extents : extents[d] \in Nat
<1>1. Len(extents) \in Nat /\ DOMAIN extents = 1 .. Len(extents)
      /\ \A d \in DOMAIN extents : extents[d] \in Nat
  OBVIOUS
<1> QED
  BY <1>1, FS_Interval

(* LogicalSize() folds the extents: the product over each set of dimensions. *)
LEMMA ProductsFacts ==
  ASSUME NEW extents \in Seq(Nat)
  PROVE  /\ LogicalSize(extents) = Products(extents)[DOMAIN extents]
         /\ Products(extents)[{}] = 1
         /\ \A s \in SUBSET DOMAIN extents : s # {} =>
              \E x \in s : Products(extents)[s] = extents[x] * Products(extents)[s \ {x}]
<1> DEFINE D == DOMAIN extents
           op == [p \in D \X Nat |-> extents[p[1]] * p[2]]
<1>1. IsFiniteSet(D) /\ \A d \in D : extents[d] \in Nat
  BY ShapeFacts
<1>2. \E g : IsProducts(g, extents)
  <2>1. op \in [D \X Nat -> Nat]
    BY <1>1
  <2>2. 1 \in Nat
    OBVIOUS
  <2>3. PICK g \in [SUBSET D -> Nat] : IsFold(g, D, 1, op)
    <3> HIDE DEF op, D
    <3> QED
      BY <1>1, <2>1, <2>2, FoldExists
  <2>4. ASSUME NEW s \in SUBSET D
        PROVE  FoldStep(1, op, g, s) =
                 IF s = {} THEN 1
                 ELSE extents[CHOOSE x \in s : TRUE] * g[s \ {CHOOSE x \in s : TRUE}]
    <3>1. CASE s = {}
      BY <3>1 DEF FoldStep
    <3>2. CASE s # {}
      <4>1. PICK x : x = CHOOSE y \in s : TRUE
        OBVIOUS
      <4>2. x \in D /\ g[s \ {x}] \in Nat
        <5>1. x \in s
          BY <3>2, <4>1
        <5>2. s \ {x} \in SUBSET D
          OBVIOUS
        <5> HIDE DEF D
        <5> QED
          BY <2>3, <5>1, <5>2
      <4>3. op[<<x, g[s \ {x}]>>] = extents[x] * g[s \ {x}]
        <5>1. PICK b \in Nat : b = g[s \ {x}]
          BY <4>2
        <5>2. <<x, b>> \in D \X Nat /\ <<x, b>>[1] = x /\ <<x, b>>[2] = b
          BY <4>2
        <5>3. op[<<x, b>>] = extents[x] * b
          BY <5>2
        <5> HIDE DEF op, D
        <5> QED
          BY <5>1, <5>3
      <4>4. FoldStep(1, op, g, s) = op[<<x, g[s \ {x}]>>]
        <5> HIDE DEF op, D
        <5> QED
          BY <3>2, <4>1, Zenon DEF FoldStep
      <4> HIDE DEF op, D
      <4> QED
        BY <3>2, <4>1, <4>3, <4>4, Zenon
    <3> QED
      BY <3>1, <3>2
  <2>5. [s \in SUBSET D |-> FoldStep(1, op, g, s)] =
          [s \in SUBSET D |->
             IF s = {} THEN 1
             ELSE extents[CHOOSE x \in s : TRUE] * g[s \ {CHOOSE x \in s : TRUE}]]
    <3> HIDE DEF op, D
    <3> QED
      BY <2>4, Zenon
  <2>6. IsProducts(g, extents)
    <3> HIDE DEF op
    <3> QED
      BY <2>3, <2>5, Zenon DEF IsFold, IsProducts
  <2> QED
    BY <2>6
<1>3. IsProducts(Products(extents), extents)
  BY <1>2, Zenon DEF Products
<1>4. LogicalSize(extents) = Products(extents)[DOMAIN extents]
  BY Zenon DEF LogicalSize, FoldSeq, FoldFunction, FoldFunctionOnSet, MapThenFoldSet,
               Products, IsProducts
<1>5. PICK g : g = Products(extents) /\ IsProducts(g, extents)
  BY <1>3
<1>6. ASSUME NEW s \in SUBSET DOMAIN extents
      PROVE  g[s] = IF s = {} THEN 1
                    ELSE extents[CHOOSE x \in s : TRUE] * g[s \ {CHOOSE x \in s : TRUE}]
  BY <1>5, Zenon DEF IsProducts
<1>7. ASSUME NEW s \in SUBSET DOMAIN extents, s # {}
      PROVE  \E x \in s : g[s] = extents[x] * g[s \ {x}]
  <2>1. PICK x : x = CHOOSE y \in s : TRUE
    OBVIOUS
  <2>2. x \in s
    BY <1>7, <2>1
  <2>3. g[s] = extents[x] * g[s \ {x}]
    BY <1>6, <1>7, <2>1, Zenon
  <2> QED
    BY <2>2, <2>3
<1>8. g[{}] = 1
  BY <1>6
<1> QED
  BY <1>4, <1>5, <1>7, <1>8

(* The order in which the extents are multiplied does not matter.           *)
LEMMA ProductSplits ==
  ASSUME NEW extents \in Seq(Nat)
  PROVE  \A s \in SUBSET DOMAIN extents :
           /\ Products(extents)[s] \in Nat
           /\ \A x \in s : Products(extents)[s] = extents[x] * Products(extents)[s \ {x}]
<1> DEFINE Splits(g, s) == /\ g[s] \in Nat
                           /\ \A x \in s : g[s] = extents[x] * g[s \ {x}]
<1>0. PICK D, g : D = DOMAIN extents /\ g = Products(extents)
  OBVIOUS
<1>1. /\ D = DOMAIN extents /\ IsFiniteSet(D)
      /\ \A d \in D : extents[d] \in Nat
      /\ g = Products(extents)
      /\ g[{}] = 1
      /\ \A s \in SUBSET D : s # {} => \E x \in s : g[s] = extents[x] * g[s \ {x}]
  <2>1. IsFiniteSet(DOMAIN extents) /\ \A d \in DOMAIN extents : extents[d] \in Nat
    BY ShapeFacts
  <2> QED
    BY <1>0, <2>1, ProductsFacts, Zenon
<1>2. \A s \in SUBSET D : IsFiniteSet(s) /\ Cardinality(s) \in Nat
  BY <1>1, FS_Subset, FS_CardinalityType
<1> DEFINE K == {k \in Nat : \A s \in SUBSET D : Cardinality(s) <= k => Splits(g, s)}
<1>3. 0 \in K
  <2>1. \A s \in SUBSET D : Cardinality(s) <= 0 => s = {}
    BY <1>2, FS_EmptySet
  <2>2. Splits(g, {})
    BY <1>1
  <2> HIDE DEF Splits
  <2> QED
    BY <2>1, <2>2
<1>4. ASSUME NEW k \in Nat, k \in K
      PROVE  k + 1 \in K
  <2>1. ASSUME NEW s \in SUBSET D, Cardinality(s) <= k + 1, s # {}
        PROVE  Splits(g, s)
    <3>2. PICK c \in s : g[s] = extents[c] * g[s \ {c}]
      BY <1>1, <2>1
    <3>3. ASSUME NEW x \in s
          PROVE  s \ {x} \in SUBSET D /\ Splits(g, s \ {x})
      <4>1. Cardinality(s \ {x}) <= k
        <5>1. Cardinality(s \ {x}) = Cardinality(s) - 1
          BY <1>2, FS_RemoveElement
        <5> QED
          BY <1>2, <2>1, <5>1
      <4>2. s \ {x} \in SUBSET D
        OBVIOUS
      <4> HIDE DEF Splits
      <4> QED
        BY <1>4, <4>1, <4>2
    <3>4. ASSUME NEW x \in s
          PROVE  g[s] = extents[x] * g[s \ {x}]
      <4>1. CASE x = c
        BY <3>2, <4>1
      <4>2. CASE x # c
        <5>1. PICK both : both = (s \ {x}) \ {c}
          OBVIOUS
        <5>2. both = (s \ {c}) \ {x} /\ c \in s \ {x} /\ x \in s \ {c}
          BY <4>2, <5>1
        <5>3. g[s \ {x}] = extents[c] * g[both] /\ g[s \ {c}] = extents[x] * g[both]
          BY <3>3, <5>1, <5>2
        <5>4. PICK a \in Nat, b \in Nat, rest \in Nat :
                a = extents[x] /\ b = extents[c] /\ rest = g[both]
          <6>1. both \in SUBSET D /\ Splits(g, both)
            <7>1. s \ {x} \in SUBSET D /\ both \in SUBSET s \ {x} /\ both \in SUBSET D
              BY <5>1
            <7>2. Cardinality(s \ {x}) <= k
              <8>1. Cardinality(s \ {x}) = Cardinality(s) - 1
                BY <1>2, FS_RemoveElement
              <8> QED
                BY <1>2, <2>1, <8>1
            <7>3. Cardinality(both) <= Cardinality(s \ {x})
              BY <1>2, <7>1, FS_Subset
            <7>4. Cardinality(both) <= k
              BY <1>2, <7>1, <7>2, <7>3
            <7> HIDE DEF Splits
            <7> QED
              BY <1>4, <7>1, <7>4
          <6> QED
            BY <1>1, <6>1
        <5>5. a * (b * rest) = b * (a * rest)
          OBVIOUS
        <5> QED
          BY <3>2, <5>3, <5>4, <5>5
      <4> QED
        BY <4>1, <4>2
    <3>5. g[s] \in Nat
      <4>1. extents[c] \in Nat /\ g[s \ {c}] \in Nat
        BY <1>1, <3>3
      <4> QED
        BY <3>2, <4>1
    <3> QED
      BY <3>4, <3>5
  <2>2. Splits(g, {})
    BY <1>1
  <2> HIDE DEF Splits
  <2> QED
    BY <2>1, <2>2
<1>5. Nat \subseteq K
  <2> HIDE DEF K
  <2> QED
    BY <1>3, <1>4, NatInd
<1>6. \A s \in SUBSET D : Splits(g, s)
  <2> HIDE DEF Splits
  <2> QED
    BY <1>2, <1>5
<1> QED
  BY <1>1, <1>6

(* The products of the first extents, and of those after one.               *)
Prefix(extents, d) == Products(extents)[1 .. d]
Suffix(extents, d) == Products(extents)[d + 1 .. Len(extents)]

(* The products of the first and of the last dimensions, one extent at a time *)
LEMMA WeightFacts ==
  ASSUME NEW extents \in Seq(Nat)
  PROVE  /\ LogicalSize(extents) \in Nat
         /\ Prefix(extents, 0) = 1 /\ Prefix(extents, Len(extents)) = LogicalSize(extents)
         /\ Suffix(extents, Len(extents)) = 1 /\ Suffix(extents, 0) = LogicalSize(extents)
         /\ \A d \in 0 .. Len(extents) :
              Prefix(extents, d) \in Nat /\ Suffix(extents, d) \in Nat
         /\ \A d \in 1 .. Len(extents) :
              /\ Prefix(extents, d) = extents[d] * Prefix(extents, d - 1)
              /\ Suffix(extents, d - 1) = extents[d] * Suffix(extents, d)
<1>0. PICK n \in Nat : n = Len(extents) /\ DOMAIN extents = 1 .. n
  BY ShapeFacts
<1>1. PICK g : g = Products(extents) /\ n = Len(extents) /\ DOMAIN extents = 1 .. n
  BY <1>0
<1>2. /\ g[1 .. n] = LogicalSize(extents) /\ g[{}] = 1
      /\ \A s \in SUBSET (1 .. n) :
           g[s] \in Nat /\ \A x \in s : g[s] = extents[x] * g[s \ {x}]
  <2>1. g[DOMAIN extents] = LogicalSize(extents) /\ g[{}] = 1
    BY <1>1, ProductsFacts, Zenon
  <2>2. \A s \in SUBSET DOMAIN extents :
          g[s] \in Nat /\ \A x \in s : g[s] = extents[x] * g[s \ {x}]
    BY <1>1, ProductSplits, Zenon
  <2> QED
    BY <1>1, <2>1, <2>2, Zenon
<1>3. 1 .. 0 = {} /\ n + 1 .. n = {} /\ 0 + 1 .. n = 1 .. n
  OBVIOUS
<1>4. ASSUME NEW d \in 0 .. n PROVE g[1 .. d] \in Nat /\ g[d + 1 .. n] \in Nat
  <2>1. 1 .. d \in SUBSET (1 .. n) /\ d + 1 .. n \in SUBSET (1 .. n)
    OBVIOUS
  <2> QED
    BY <1>2, <2>1
<1>5. ASSUME NEW d \in 1 .. n
      PROVE  /\ g[1 .. d] = extents[d] * g[1 .. d - 1]
             /\ g[(d - 1) + 1 .. n] = extents[d] * g[d + 1 .. n]
  <2>1. /\ 1 .. d \in SUBSET (1 .. n) /\ d \in 1 .. d /\ (1 .. d) \ {d} = 1 .. d - 1
        /\ d .. n \in SUBSET (1 .. n) /\ d \in d .. n /\ (d .. n) \ {d} = d + 1 .. n
        /\ (d - 1) + 1 = d
    OBVIOUS
  <2>2. g[1 .. d] = extents[d] * g[1 .. d - 1]
    BY <1>2, <2>1, Zenon
  <2>3. g[d .. n] = extents[d] * g[d + 1 .. n]
    BY <1>2, <2>1, Zenon
  <2>4. g[(d - 1) + 1 .. n] = g[d .. n]
    BY <2>1, Zenon
  <2> QED
    BY <2>2, <2>3, <2>4, Zenon
<1>6. g[1 .. n] \in Nat
  BY <1>4
<1> QED
  BY <1>1, <1>2, <1>3, <1>4, <1>5, <1>6, Zenon DEF Prefix, Suffix

(* The extents of a shape that has elements.                                *)
LEMMA PositiveExtents ==
  ASSUME NEW extents \in Seq(Nat), LogicalSize(extents) > 0
  PROVE  /\ \A d \in 1 .. Len(extents) : extents[d] \in Nat /\ extents[d] > 0
         /\ \A d \in 0 .. Len(extents) : Suffix(extents, d) \in Nat /\ Suffix(extents, d) > 0
<1>0. PICK n \in Nat : n = Len(extents) /\ DOMAIN extents = 1 .. n
  BY ShapeFacts
<1>1. PICK g : g = Products(extents) /\ n = Len(extents) /\ DOMAIN extents = 1 .. n
  BY <1>0
<1>2. ASSUME NEW d \in 1 .. n PROVE extents[d] \in Nat /\ extents[d] > 0
  <2>1. extents[d] \in Nat
    BY <1>1, ShapeFacts
  <2>2. (1 .. n) \ {d} \in SUBSET (1 .. n) /\ 1 .. n \in SUBSET (1 .. n)
    OBVIOUS
  <2>3. g[1 .. n] = extents[d] * g[(1 .. n) \ {d}] /\ g[(1 .. n) \ {d}] \in Nat
        /\ g[1 .. n] = LogicalSize(extents)
    <3>1. /\ 1 .. n \in SUBSET DOMAIN extents /\ (1 .. n) \ {d} \in SUBSET DOMAIN extents
          /\ d \in 1 .. n
      BY <1>1, <2>2, Zenon
    <3>2. g[1 .. n] = LogicalSize(extents)
      BY <1>1, ProductsFacts, Zenon
    <3>3. /\ g[1 .. n] = extents[d] * g[(1 .. n) \ {d}]
          /\ g[(1 .. n) \ {d}] \in Nat
      BY <1>1, <3>1, ProductSplits, Zenon
    <3> QED
      BY <3>2, <3>3
  <2>4. extents[d] # 0
    BY <2>3
  <2> QED
    BY <2>1, <2>4
<1>3. /\ Suffix(extents, n) = 1
      /\ \A d \in 0 .. n : Suffix(extents, d) \in Nat
      /\ \A d \in 1 .. n : Suffix(extents, d - 1) = extents[d] * Suffix(extents, d)
      /\ Suffix(extents, 0) = LogicalSize(extents)
  BY <1>1, WeightFacts
<1> DEFINE S == {d \in Nat : d <= n => Suffix(extents, d) > 0}
<1>4. 0 \in S
  BY <1>3
<1>5. ASSUME NEW d \in Nat, d \in S PROVE d + 1 \in S
  <2> SUFFICES ASSUME d + 1 <= n PROVE Suffix(extents, d + 1) > 0
    OBVIOUS
  <2>1. d + 1 \in 1 .. n /\ (d + 1) - 1 = d /\ Suffix(extents, d) > 0
    BY <1>5
  <2>2. Suffix(extents, d) = extents[d + 1] * Suffix(extents, d + 1)
    BY <1>3, <2>1
  <2>3. Suffix(extents, d + 1) \in Nat /\ extents[d + 1] \in Nat
    BY <1>2, <1>3, <2>1
  <2>4. Suffix(extents, d + 1) # 0
    BY <2>1, <2>2, <2>3
  <2> QED
    BY <2>3, <2>4
<1>6. Nat \subseteq S
  <2> HIDE DEF S
  <2> QED
    BY <1>4, <1>5, NatInd
<1> QED
  BY <1>1, <1>2, <1>3, <1>6

(* Positive extents are radices whose weights end in the size of the shape. *)
LEMMA ShapeRadices ==
  ASSUME NEW extents \in Seq(Nat), \A d \in 1 .. Len(extents) : extents[d] > 0
  PROVE  \E w : /\ Radices(Len(extents), extents, w)
                /\ w[Len(extents)] = LogicalSize(extents)
<1>1. PICK n \in Nat : n = Len(extents)
  BY ShapeFacts
<1> DEFINE w == [d \in 0 .. n |-> Prefix(extents, d)]
<1>2. /\ \A d \in 0 .. n : w[d] = Prefix(extents, d) /\ w[d] \in Nat
      /\ w[0] = 1 /\ w[n] = LogicalSize(extents) /\ w \in [0 .. n -> Nat]
      /\ \A d \in 1 .. n : w[d] = extents[d] * w[d - 1]
  <2>1. /\ Prefix(extents, 0) = 1 /\ Prefix(extents, n) = LogicalSize(extents)
        /\ \A d \in 0 .. n : Prefix(extents, d) \in Nat
        /\ \A d \in 1 .. n : Prefix(extents, d) = extents[d] * Prefix(extents, d - 1)
    BY <1>1, WeightFacts
  <2>2. \A d \in 0 .. n : w[d] = Prefix(extents, d)
    OBVIOUS
  <2>3. 0 \in 0 .. n /\ n \in 0 .. n /\ \A d \in 1 .. n : d \in 0 .. n /\ d - 1 \in 0 .. n
    OBVIOUS
  <2>4. w \in [0 .. n -> Nat]
    BY <2>1
  <2> HIDE DEF w
  <2> QED
    BY <2>1, <2>2, <2>3, <2>4
<1>3. extents \in [1 .. n -> Nat \ {0}]
  BY <1>1, ShapeFacts
<1> HIDE DEF w
<1>4. Radices(n, extents, w)
  BY <1>2, <1>3 DEF Radices
<1> QED
  BY <1>1, <1>2, <1>4

-----------------------------------------------------------------------------
(* Ordinals and coordinates. *)

IsQuotients(q, ordinal, extents) ==
  q = [d \in 1 .. Len(extents) |->
         IF d = Len(extents) THEN ordinal ELSE q[d + 1] \div extents[d + 1]]

QuotientsOf(ordinal, extents) == CHOOSE q : IsQuotients(q, ordinal, extents)

(* The quotients by which CoordinateFromOrdinal() finds the digits.         *)
LEMMA CoordinateDigits ==
  ASSUME NEW extents \in Seq(Nat), NEW o \in Ordinals(extents)
  PROVE  \E q :
           /\ Divided(Len(extents), extents, q, o)
           /\ CoordinateFromOrdinal(o, extents) =
                [d \in 1 .. Len(extents) |-> q[d] % extents[d]]
           /\ \A d \in 1 .. Len(extents) : q[d] = o \div Suffix(extents, d)
<1>1. PICK n \in Nat : n = Len(extents)
  BY ShapeFacts
<1>2. o \in Nat /\ o < LogicalSize(extents) /\ LogicalSize(extents) > 0
  BY WeightFacts DEF Ordinals
<1>3. /\ \A d \in 1 .. n : extents[d] \in Nat /\ extents[d] > 0
      /\ \A d \in 0 .. n : Suffix(extents, d) \in Nat /\ Suffix(extents, d) > 0
  BY <1>1, <1>2, PositiveExtents
<1>4. /\ Suffix(extents, n) = 1
      /\ \A d \in 1 .. n : Suffix(extents, d - 1) = extents[d] * Suffix(extents, d)
  BY <1>1, WeightFacts
<1> DEFINE g == [d \in 1 .. n |-> o \div Suffix(extents, d)]
           Quotient(q, d) == IF d = n THEN o ELSE q[d + 1] \div extents[d + 1]
<1>5. ASSUME NEW d \in 1 .. n, d # n
      PROVE  (o \div Suffix(extents, d + 1)) \div extents[d + 1] = o \div Suffix(extents, d)
  <2>1. d + 1 \in 1 .. n /\ (d + 1) - 1 = d
    BY <1>5
  <2>2. PICK a \in Nat, b \in Nat :
          a = Suffix(extents, d + 1) /\ b = extents[d + 1] /\ a > 0 /\ b > 0
    BY <1>3, <2>1
  <2>3. Suffix(extents, d) = b * a
    BY <1>4, <2>1, <2>2
  <2>4. (o \div a) \div b = o \div (b * a)
    <3> HIDE DEF g, Quotient
    <3> QED
      BY <1>2, <2>2, DivDiv
  <2> QED
    BY <2>2, <2>3, <2>4
<1>6. o \div 1 = o
  BY <1>2
<1>7. ASSUME NEW d \in 1 .. n
      PROVE  g[d] = Quotient(g, d)
  <2>1. CASE d = n
    BY <1>4, <1>6, <2>1
  <2>2. CASE d # n
    <3>1. d + 1 \in 1 .. n
      BY <2>2
    <3>2. g[d + 1] = o \div Suffix(extents, d + 1) /\ g[d] = o \div Suffix(extents, d)
      BY <3>1
    <3> HIDE DEF g
    <3> QED
      BY <1>5, <2>2, <3>2
  <2> QED
    BY <2>1, <2>2
<1>8. \E q : IsQuotients(q, o, extents)
  <2>1. g = [d \in 1 .. n |-> g[d]]
    OBVIOUS
  <2> HIDE DEF g
  <2>2. g = [d \in 1 .. n |-> Quotient(g, d)]
    <3>1. [d \in 1 .. n |-> g[d]] = [d \in 1 .. n |-> Quotient(g, d)]
      <4> HIDE DEF Quotient
      <4> QED
        BY <1>7, Zenon
    <3> HIDE DEF Quotient
    <3> QED
      BY <2>1, <3>1, Zenon
  <2>3. IsQuotients(g, o, extents)
    BY <1>1, <2>2, Zenon DEF IsQuotients
  <2> QED
    BY <2>3
<1>9. PICK q : q = QuotientsOf(o, extents) /\ IsQuotients(q, o, extents)
  BY <1>8, Zenon DEF QuotientsOf
<1>10. \A d \in 1 .. n : q[d] = Quotient(q, d)
  BY <1>1, <1>9, Zenon DEF IsQuotients
<1>11. Divided(Len(extents), extents, q, o)
  BY <1>1, <1>10 DEF Divided
<1>12. CoordinateFromOrdinal(o, extents) = [d \in 1 .. Len(extents) |-> q[d] % extents[d]]
  <2> HIDE DEF g, Quotient
  <2>1. CoordinateFromOrdinal(o, extents) =
          [d \in 1 .. Len(extents) |-> QuotientsOf(o, extents)[d] % extents[d]]
    BY Zenon DEF CoordinateFromOrdinal, QuotientsOf, IsQuotients
  <2> QED
    BY <1>9, <2>1, Zenon
<1> DEFINE S == {d \in Nat : d \in 1 .. n => q[d] = o \div Suffix(extents, d)}
<1>13. n \in S
  BY <1>4, <1>6, <1>10
<1>14. ASSUME NEW d \in 1 .. n - 1, d + 1 \in S PROVE d \in S
  <2>1. d \in 1 .. n /\ d # n /\ d + 1 \in 1 .. n /\ q[d + 1] = o \div Suffix(extents, d + 1)
    BY <1>14
  <2>2. q[d] = q[d + 1] \div extents[d + 1]
    BY <1>10, <2>1
  <2>3. (o \div Suffix(extents, d + 1)) \div extents[d + 1] = o \div Suffix(extents, d)
    BY <1>5, <2>1
  <2> HIDE DEF g
  <2>4. q[d] = o \div Suffix(extents, d)
    BY <2>1, <2>2, <2>3
  <2> QED
    BY <2>4
<1>15. 1 .. n \subseteq S
  <2>1. 1 \in Nat /\ n \in Nat
    OBVIOUS
  <2> HIDE DEF S
  <2> QED
    BY <1>13, <1>14, <2>1, Downwards
<1> QED
  <2> HIDE DEF g, Quotient
  <2> QED
    BY <1>1, <1>11, <1>12, <1>15

------------------------------------------------------------------------------
\* CoordinateFromOrdinal() lists the coordinates in row-major order

(* A coordinate has an index below the extent in every dimension.           *)
LEMMA CoordinateMembers ==
  ASSUME NEW extents \in Seq(Nat), NEW t
  PROVE  t \in CoordinatesOf(extents) <=>
           /\ t = [d \in 1 .. Len(extents) |-> t[d]]
           /\ \A d \in 1 .. Len(extents) : t[d] \in 0 .. extents[d] - 1
<1>1. PICK n \in Nat : n = Len(extents) /\ DOMAIN extents = 1 .. n
  BY ShapeFacts
<1>2. PICK I : I = Index(extents)
  OBVIOUS
<1>3. DOMAIN I = 1 .. n /\ \A d \in 1 .. n : I[d] = 0 .. extents[d] - 1
  BY <1>1, <1>2 DEF Index
<1>4. CoordinatesOf(extents) =
        {u \in [1 .. n -> UNION Range(I)] : \A d \in 1 .. n : u[d] \in I[d]}
  BY <1>1, <1>2 DEF CoordinatesOf
<1>5. \A d \in 1 .. n : I[d] \subseteq UNION Range(I)
  BY <1>3 DEF Range
<1>6. ASSUME t = [d \in 1 .. n |-> t[d]], \A d \in 1 .. n : t[d] \in 0 .. extents[d] - 1
      PROVE  t \in CoordinatesOf(extents)
  <2>1. \A d \in 1 .. n : t[d] \in I[d] /\ t[d] \in UNION Range(I)
    BY <1>3, <1>5, <1>6
  <2>2. t \in [1 .. n -> UNION Range(I)]
    BY <1>6, <2>1
  <2> QED
    BY <1>4, <2>1, <2>2
<1>7. ASSUME t \in CoordinatesOf(extents)
      PROVE  t = [d \in 1 .. n |-> t[d]] /\ \A d \in 1 .. n : t[d] \in 0 .. extents[d] - 1
  BY <1>3, <1>4, <1>7
<1> QED
  BY <1>1, <1>6, <1>7

(* Of two coordinates at most one is less.                                  *)
LEMMA LexOnce ==
  ASSUME NEW n \in Nat, NEW x, NEW y, DOMAIN x = 1 .. n, DOMAIN y = 1 .. n,
         \A d \in 1 .. n : x[d] \in Int /\ y[d] \in Int
  PROVE  ~(LexLess(x, y) /\ LexLess(y, x)) /\ ~LexLess(x, x)
<1>1. ASSUME LexLess(x, y), LexLess(y, x) PROVE FALSE
  <2>1. PICK d \in 1 .. n : x[d] < y[d] /\ \A e \in 1 .. d - 1 : x[e] = y[e]
    BY <1>1 DEF LexLess
  <2>2. PICK c \in 1 .. n : y[c] < x[c] /\ \A e \in 1 .. c - 1 : y[e] = x[e]
    BY <1>1 DEF LexLess
  <2>3. CASE c < d
    BY <2>1, <2>2, <2>3
  <2>4. CASE d < c
    BY <2>1, <2>2, <2>4
  <2>5. CASE c = d
    BY <2>1, <2>2, <2>5
  <2> QED
    BY <2>3, <2>4, <2>5
<1>2. ASSUME LexLess(x, x) PROVE FALSE
  BY <1>2 DEF LexLess
<1> QED
  BY <1>1, <1>2

(* An injective function counts its image.                                  *)
LEMMA ImageCount ==
  ASSUME NEW T, IsFiniteSet(T), NEW c, \A t, u \in T : c[t] = c[u] => t = u
  PROVE  IsFiniteSet({c[t] : t \in T}) /\ Cardinality({c[t] : t \in T}) = Cardinality(T)
<1> DEFINE image == {c[t] : t \in T}
           g == [t \in T |-> c[t]]
<1>1. g \in Injection(T, image) /\ g \in Surjection(T, image)
  BY DEF Injection, Surjection, IsInjective
<1>2. ExistsBijection(T, image)
  BY <1>1 DEF ExistsBijection, Bijection
<1> HIDE DEF image
<1>3. IsFiniteSet(image) /\ Cardinality(image) = Cardinality(T)
  BY <1>2, FS_Bijection
<1> QED
  BY <1>3 DEF image

(* Where ordinals enumerate a set in its order, as many elements are before *)
(* one as its ordinal says.                                                 *)
Enumerates(N, C, R, c) ==
  /\ \A o \in 0 .. N - 1 : c[o] \in C
  /\ \A t \in C : \E o \in 0 .. N - 1 : t = c[o]
  /\ \A o, p \in 0 .. N - 1 : <<c[o], c[p]>> \in R <=> o < p

(* What is listed in order has its position as its rank.                    *)
LEMMA EnumeratedRank ==
  ASSUME NEW N \in Nat, NEW C, NEW R, NEW c, Enumerates(N, C, R, c),
         NEW o \in 0 .. N - 1
  PROVE  RankIn(C, R, c[o]) = o
<1> USE DEF Enumerates
<1> DEFINE T == 0 .. o - 1
<1>1. \A p \in T : p \in 0 .. N - 1 /\ p < o
  OBVIOUS
<1>2. {u \in C : <<u, c[o]>> \in R} = {c[p] : p \in T}
  <2>1. ASSUME NEW u \in C, <<u, c[o]>> \in R
        PROVE  \E p \in T : u = c[p]
    <3>1. PICK p \in 0 .. N - 1 : u = c[p]
      OBVIOUS
    <3>2. p < o
      BY <2>1, <3>1
    <3> QED
      BY <3>1, <3>2
  <2>2. ASSUME NEW p \in T PROVE c[p] \in C /\ <<c[p], c[o]>> \in R
    BY <1>1
  <2> HIDE DEF T
  <2> QED
    BY <2>1, <2>2
<1>3. IsFiniteSet(T) /\ Cardinality(T) = o
  BY FS_Interval
<1>4. ASSUME NEW p \in T, NEW q \in T, c[p] = c[q]
      PROVE  p = q
  <2>1. (<<c[p], c[q]>> \in R <=> p < q) /\ (<<c[q], c[p]>> \in R <=> q < p)
        /\ (<<c[p], c[p]>> \in R <=> p < p)
    BY <1>1
  <2>2. ~(p < q) /\ ~(q < p)
    BY <1>4, <2>1
  <2> QED
    BY <2>2
<1>5. Cardinality({c[p] : p \in T}) = Cardinality(T)
  <2> HIDE DEF T
  <2> QED
    BY <1>3, <1>4, ImageCount
<1> QED
  BY <1>2, <1>3, <1>5 DEF RankIn

(* CoordinateFromOrdinal() enumerates the coordinates in their order.       *)
LEMMA RowMajor ==
  ASSUME NEW extents \in Seq(Nat)
  PROVE  /\ \A o \in Ordinals(extents) :
              /\ CoordinateFromOrdinal(o, extents) \in CoordinatesOf(extents)
              /\ RowMajorRank(extents, CoordinateFromOrdinal(o, extents)) = o
         /\ \A t \in CoordinatesOf(extents) :
              \E o \in Ordinals(extents) : t = CoordinateFromOrdinal(o, extents)
         /\ \A o, p \in Ordinals(extents) :
              LexLess(CoordinateFromOrdinal(o, extents), CoordinateFromOrdinal(p, extents))
                <=> o < p
<1>1. PICK n \in Nat, N \in Nat : n = Len(extents) /\ DOMAIN extents = 1 .. n
                                  /\ N = LogicalSize(extents)
  BY ShapeFacts, WeightFacts
<1>0. n \in Nat /\ N \in Nat
  BY <1>1
<1>2. Ordinals(extents) = 0 .. N - 1
  BY <1>1 DEF Ordinals
<1> DEFINE At(o) == CoordinateFromOrdinal(o, extents)
<1>3. ASSUME NEW o \in 0 .. N - 1
      PROVE  \E q : Divided(n, extents, q, o) /\ At(o) = [d \in 1 .. n |-> q[d] % extents[d]]
  BY <1>1, <1>2, CoordinateDigits
<1> HIDE DEF At
<1>4. ASSUME N > 0
      PROVE  \E w : Radices(n, extents, w) /\ w[n] = N
  BY <1>1, <1>4, PositiveExtents, ShapeRadices
<1>5. ASSUME NEW o \in 0 .. N - 1
      PROVE  At(o) \in CoordinatesOf(extents)
  <2>1. PICK q : Divided(n, extents, q, o) /\ At(o) = [d \in 1 .. n |-> q[d] % extents[d]]
    BY <1>3
  <2>2. PICK w : Radices(n, extents, w) /\ w[n] = N
    BY <1>4
  <2>3. o \in 0 .. w[n] - 1
    BY <2>2
  <2>4. \A d \in 1 .. n : q[d] % extents[d] \in 0 .. extents[d] - 1
    BY <2>1, <2>2, <2>3, DividedFacts
  <2>5. PICK t : t = At(o)
    OBVIOUS
  <2>6. t = [d \in 1 .. n |-> t[d]] /\ \A d \in 1 .. n : t[d] \in 0 .. extents[d] - 1
    BY <2>1, <2>4, <2>5
  <2> QED
    BY <1>1, <2>5, <2>6, CoordinateMembers
<1>6. ASSUME NEW o \in 0 .. N - 1, NEW p \in 0 .. N - 1, o < p
      PROVE  LexLess(At(o), At(p))
  <2>1. PICK q : Divided(n, extents, q, o) /\ At(o) = [d \in 1 .. n |-> q[d] % extents[d]]
    BY <1>3
  <2>2. PICK r : Divided(n, extents, r, p) /\ At(p) = [d \in 1 .. n |-> r[d] % extents[d]]
    BY <1>3
  <2>3. PICK w : Radices(n, extents, w) /\ w[n] = N
    BY <1>4
  <2>4. o \in 0 .. w[n] - 1 /\ p \in 0 .. w[n] - 1
    BY <2>3
  <2>5. PICK d \in 1 .. n :
          /\ q[d] % extents[d] < r[d] % extents[d]
          /\ \A i \in 1 .. d - 1 : q[i] % extents[i] = r[i] % extents[i]
    <3>1. /\ Radices(n, extents, w) /\ o < p
          /\ Divided(n, extents, q, o) /\ Divided(n, extents, r, p)
      BY <1>6, <2>1, <2>2, <2>3
    <3> QED
      BY <2>4, <3>1, DigitsRise
  <2>6. \A i \in 1 .. d - 1 : i \in 1 .. n
    OBVIOUS
  <2>7. DOMAIN At(o) = 1 .. n
    BY <2>1
  <2>8. At(o)[d] < At(p)[d] /\ \A i \in 1 .. d - 1 : At(o)[i] = At(p)[i]
    BY <2>1, <2>2, <2>5, <2>6
  <2> QED
    BY <2>7, <2>8 DEF LexLess
<1>7. ASSUME NEW o \in 0 .. N - 1, NEW p \in 0 .. N - 1
      PROVE  LexLess(At(o), At(p)) <=> o < p
  <2>1. PICK x, y : x = At(o) /\ y = At(p)
    OBVIOUS
  <2>2. /\ DOMAIN x = 1 .. n /\ DOMAIN y = 1 .. n
        /\ \A d \in 1 .. n : x[d] \in Int /\ y[d] \in Int
    <3>1. x \in CoordinatesOf(extents) /\ y \in CoordinatesOf(extents)
      BY <1>5, <2>1
    <3>2. /\ x = [d \in 1 .. n |-> x[d]] /\ \A d \in 1 .. n : x[d] \in 0 .. extents[d] - 1
          /\ y = [d \in 1 .. n |-> y[d]] /\ \A d \in 1 .. n : y[d] \in 0 .. extents[d] - 1
      BY <1>1, <3>1, CoordinateMembers
    <3> QED
      BY <3>2
  <2>3. ~(LexLess(x, y) /\ LexLess(y, x)) /\ ~LexLess(x, x)
    BY <2>2, LexOnce
  <2>4. CASE o = p
    BY <2>1, <2>3, <2>4
  <2>5. CASE o < p
    BY <1>6, <2>5
  <2>6. CASE p < o
    <3>1. LexLess(y, x)
      BY <1>6, <2>1, <2>6
    <3> QED
      BY <2>1, <2>3, <2>6, <3>1
  <2> QED
    BY <2>4, <2>5, <2>6
<1>8. ASSUME NEW t \in CoordinatesOf(extents)
      PROVE  \E o \in 0 .. N - 1 : t = At(o)
  <2>1. t = [d \in 1 .. n |-> t[d]] /\ \A d \in 1 .. n : t[d] \in 0 .. extents[d] - 1
    BY <1>1, CoordinateMembers
  <2>2. \A d \in 1 .. n : extents[d] > 0
    <3>1. \A d \in 1 .. n : extents[d] \in Nat
      BY <1>1, ShapeFacts
    <3> QED
      BY <2>1, <3>1
  <2>3. PICK w : Radices(n, extents, w) /\ w[n] = N
    BY <1>1, <2>2, ShapeRadices
  <2>4. PICK o \in 0 .. w[n] - 1 :
          \A q : Divided(n, extents, q, o) => \A d \in 1 .. n : q[d] % extents[d] = t[d]
    <3>1. \A d \in 1 .. n : t[d] \in 0 .. extents[d] - 1
      BY <2>1
    <3>2. Radices(n, extents, w)
      BY <2>3
    <3>3. Reached(n, extents, w, t)
      BY <1>0, <3>1, <3>2, DigitsReach
    <3> QED
      BY <3>3 DEF Reached
  <2>5. o \in 0 .. N - 1
    BY <2>3
  <2>6. PICK q : Divided(n, extents, q, o) /\ At(o) = [d \in 1 .. n |-> q[d] % extents[d]]
    BY <1>3, <2>5
  <2>7. \A d \in 1 .. n : q[d] % extents[d] = t[d]
    BY <2>4, <2>6
  <2>8. At(o) = t
    BY <2>1, <2>6, <2>7
  <2> QED
    BY <2>5, <2>8
<1>9. ASSUME NEW o \in 0 .. N - 1
      PROVE  RowMajorRank(extents, At(o)) = o
  <2> DEFINE C == CoordinatesOf(extents)
             R == {ss \in C \X C : LexLess(ss[1], ss[2])}
             c == [p \in 0 .. N - 1 |-> At(p)]
  <2>1. \A p \in 0 .. N - 1 : c[p] = At(p) /\ c[p] \in C
    BY <1>5
  <2>2. \A t \in C : \E p \in 0 .. N - 1 : t = c[p]
    BY <1>8
  <2>3. \A t, u \in C : <<t, u>> \in R <=> LexLess(t, u)
    OBVIOUS
  <2> HIDE DEF C, c, R
  <2>4. \A p, q \in 0 .. N - 1 : <<c[p], c[q]>> \in R <=> p < q
    BY <1>7, <2>1, <2>3
  <2>5. RankIn(C, R, c[o]) = o
    <3>1. \A p \in 0 .. N - 1 : c[p] \in C
      BY <2>1
    <3>2. Enumerates(N, C, R, c)
      BY <2>2, <2>4, <3>1 DEF Enumerates
    <3> QED
      BY <1>0, <3>2, EnumeratedRank
  <2>6. {u \in C : <<u, c[o]>> \in R} = {u \in C : LexLess(u, At(o))}
    BY <2>1, <2>3
  <2> QED
    BY <2>5, <2>6 DEF RankIn, RowMajorRank, Quantify, C
<1> QED
  BY <1>2, <1>5, <1>7, <1>8, <1>9 DEF At

------------------------------------------------------------------------------
\* PhysicalOffset() goes through them in column-major order

(* The quotients of an ordinal are determined.                              *)
LEMMA DividedOnce ==
  ASSUME NEW n \in Nat, NEW e, NEW o, NEW q, Divided(n, e, q, o),
         NEW r, Divided(n, e, r, o)
  PROVE  \A d \in 1 .. n : q[d] = r[d]
<1> DEFINE S == {d \in 1 .. n : q[d] = r[d]}
<1>1. CASE n = 0
  BY <1>1
<1>2. CASE n > 0
  <2>1. 1 \in Nat /\ n \in S
    BY <1>2 DEF Divided
  <2>2. ASSUME NEW k \in 1 .. n - 1, k + 1 \in S
        PROVE  k \in S
    <3>1. k \in 1 .. n /\ k # n /\ q[k + 1] = r[k + 1]
      BY <2>2
    <3>2. q[k] = q[k + 1] \div e[k + 1] /\ r[k] = r[k + 1] \div e[k + 1]
      BY <3>1 DEF Divided
    <3> QED
      BY <3>1, <3>2
  <2>3. 1 .. n \subseteq S
    <3> HIDE DEF S
    <3> QED
      BY <2>1, <2>2, Downwards
  <2> QED
    BY <2>3
<1> QED
  BY <1>1, <1>2

(* Reversing twice gives the sequence back.                                 *)
LEMMA ReverseFacts ==
  ASSUME NEW n \in Nat, NEW t, t = [d \in 1 .. n |-> t[d]]
  PROVE  /\ Reverse(t) = [d \in 1 .. n |-> t[n + 1 - d]]
         /\ Reverse(Reverse(t)) = t
<1>1. t \in Seq({t[d] : d \in 1 .. n}) /\ Len(t) = n
  OBVIOUS
<1>2. PICK u : u = [d \in 1 .. n |-> t[n + 1 - d]]
  OBVIOUS
<1>3. Reverse(t) = u
  <2>1. \A d \in 1 .. n : (n - d) + 1 = n + 1 - d
    OBVIOUS
  <2>2. Reverse(t) = [d \in 1 .. n |-> t[(n - d) + 1]]
    BY <1>1, Zenon DEF Reverse
  <2> QED
    BY <1>2, <2>1, <2>2
<1>4. u \in Seq({u[d] : d \in 1 .. n}) /\ Len(u) = n
  <2>1. u = [d \in 1 .. n |-> u[d]]
    BY <1>2
  <2> HIDE <1>1, <1>2, <1>3
  <2> QED
    BY <2>1
<1>5. Reverse(u) = [d \in 1 .. n |-> u[n + 1 - d]]
  <2>1. \A d \in 1 .. n : (n - d) + 1 = n + 1 - d
    OBVIOUS
  <2>2. Reverse(u) = [d \in 1 .. n |-> u[(n - d) + 1]]
    BY <1>4, Zenon DEF Reverse
  <2> HIDE <1>1, <1>2, <1>3, <1>4
  <2> QED
    BY <2>1, <2>2
<1>6. ASSUME NEW d \in 1 .. n
      PROVE  u[n + 1 - d] = t[d]
  <2>1. n + 1 - d \in 1 .. n /\ n + 1 - (n + 1 - d) = d
    OBVIOUS
  <2> QED
    BY <1>2, <2>1
<1>7. [d \in 1 .. n |-> u[n + 1 - d]] = [d \in 1 .. n |-> t[d]]
  BY <1>6
<1> QED
  BY <1>2, <1>3, <1>5, <1>7

(* Reversed extents are a shape of the same size.                           *)
LEMMA ReversedShape ==
  ASSUME NEW extents \in Seq(Nat)
  PROVE  /\ Reverse(extents) \in Seq(Nat)
         /\ Len(Reverse(extents)) = Len(extents)
         /\ \A d \in 1 .. Len(extents) : Reverse(extents)[d] = extents[Len(extents) + 1 - d]
         /\ LogicalSize(Reverse(extents)) = LogicalSize(extents)
<1>1. PICK n \in Nat : n = Len(extents)
  BY ShapeFacts
<1>2. PICK r : r = Reverse(extents)
  OBVIOUS
<1>3. r = [d \in 1 .. n |-> extents[n + 1 - d]]
  BY <1>1, <1>2 DEF Reverse
<1>4. \A d \in 1 .. n : n + 1 - d \in 1 .. n /\ extents[n + 1 - d] \in Nat
  BY <1>1
<1>5. r \in Seq(Nat) /\ Len(r) = n
  BY <1>3, <1>4
<1> DEFINE S == {i \in Nat : i <= n => Prefix(r, i) = Suffix(extents, n - i)}
<1>6. 0 \in S
  BY <1>1, <1>5, WeightFacts
<1>7. ASSUME NEW i \in Nat, i \in S PROVE i + 1 \in S
  <2> SUFFICES ASSUME i + 1 <= n PROVE Prefix(r, i + 1) = Suffix(extents, n - (i + 1))
    OBVIOUS
  <2>1. i + 1 \in 1 .. n /\ (i + 1) - 1 = i /\ n - i \in 1 .. n /\ (n - i) - 1 = n - (i + 1)
    OBVIOUS
  <2>2. Prefix(r, i + 1) = r[i + 1] * Prefix(r, i)
    BY <1>5, <2>1, WeightFacts
  <2>3. Suffix(extents, n - (i + 1)) = extents[n - i] * Suffix(extents, n - i)
    BY <1>1, <2>1, WeightFacts
  <2>4. r[i + 1] = extents[n - i]
    BY <1>3, <2>1
  <2>5. Prefix(r, i) = Suffix(extents, n - i)
    BY <1>7
  <2> QED
    BY <2>2, <2>3, <2>4, <2>5
<1>8. Prefix(r, n) = Suffix(extents, n - n)
  <2>1. Nat \subseteq S
    <3> HIDE DEF S
    <3> QED
      BY <1>6, <1>7, NatInd
  <2> QED
    BY <2>1
<1>9. Prefix(r, n) = LogicalSize(r) /\ Suffix(extents, 0) = LogicalSize(extents)
  BY <1>1, <1>5, WeightFacts
<1> QED
  BY <1>1, <1>2, <1>3, <1>5, <1>8, <1>9

ColumnCoordinate(o, extents) == Reverse(CoordinateFromOrdinal(o, Reverse(extents)))

(* Reversed coordinates are the coordinates of the reversed extents.        *)
LEMMA ReversedMembers ==
  ASSUME NEW extents \in Seq(Nat), NEW t
  PROVE  /\ t \in CoordinatesOf(extents) =>
              Reverse(t) \in CoordinatesOf(Reverse(extents)) /\ Reverse(Reverse(t)) = t
         /\ t \in CoordinatesOf(Reverse(extents)) =>
              Reverse(t) \in CoordinatesOf(extents) /\ Reverse(Reverse(t)) = t
<1>1. PICK n \in Nat, e \in Seq(Nat) :
        /\ n = Len(extents) /\ e = Reverse(extents) /\ n = Len(e)
        /\ \A d \in 1 .. n : e[d] = extents[n + 1 - d]
  BY ShapeFacts, ReversedShape
<1>2. \A d \in 1 .. n : n + 1 - d \in 1 .. n /\ n + 1 - (n + 1 - d) = d
  OBVIOUS
<1>3. ASSUME t \in CoordinatesOf(extents)
      PROVE  Reverse(t) \in CoordinatesOf(e) /\ Reverse(Reverse(t)) = t
  <2>1. /\ t = [d \in 1 .. n |-> t[d]]
        /\ \A d \in 1 .. n : t[d] \in 0 .. extents[d] - 1
    <3>1. /\ t = [d \in 1 .. Len(extents) |-> t[d]]
          /\ \A d \in 1 .. Len(extents) : t[d] \in 0 .. extents[d] - 1
      BY <1>3, CoordinateMembers
    <3> QED
      BY <1>1, <3>1
  <2>2. Reverse(t) = [d \in 1 .. n |-> t[n + 1 - d]] /\ Reverse(Reverse(t)) = t
    BY <2>1, ReverseFacts
  <2>3. PICK u : u = Reverse(t)
    OBVIOUS
  <2>4. u = [d \in 1 .. n |-> u[d]] /\ \A d \in 1 .. n : u[d] = t[n + 1 - d]
    BY <2>2, <2>3
  <2>5. \A d \in 1 .. n : u[d] \in 0 .. e[d] - 1
    <3> SUFFICES ASSUME NEW d \in 1 .. n PROVE u[d] \in 0 .. e[d] - 1
      OBVIOUS
    <3>1. PICK c \in 1 .. n : c = n + 1 - d
      BY <1>2
    <3>2. u[d] = t[c] /\ t[c] \in 0 .. extents[c] - 1 /\ e[d] = extents[c]
      BY <1>1, <2>1, <2>4, <3>1
    <3> QED
      BY <3>2
  <2>6. u \in CoordinatesOf(e)
    BY <1>1, <2>4, <2>5, CoordinateMembers
  <2> QED
    BY <2>2, <2>3, <2>6
<1>4. ASSUME t \in CoordinatesOf(e)
      PROVE  Reverse(t) \in CoordinatesOf(extents) /\ Reverse(Reverse(t)) = t
  <2>1. /\ t = [d \in 1 .. n |-> t[d]]
        /\ \A d \in 1 .. n : t[d] \in 0 .. e[d] - 1
    BY <1>1, <1>4, CoordinateMembers
  <2>2. Reverse(t) = [d \in 1 .. n |-> t[n + 1 - d]] /\ Reverse(Reverse(t)) = t
    BY <2>1, ReverseFacts
  <2>3. PICK u : u = Reverse(t)
    OBVIOUS
  <2>4. u = [d \in 1 .. n |-> u[d]] /\ \A d \in 1 .. n : u[d] = t[n + 1 - d]
    BY <2>2, <2>3
  <2>5. \A d \in 1 .. n : u[d] \in 0 .. extents[d] - 1
    <3> SUFFICES ASSUME NEW d \in 1 .. n PROVE u[d] \in 0 .. extents[d] - 1
      OBVIOUS
    <3>1. PICK c \in 1 .. n : c = n + 1 - d /\ n + 1 - c = d
      BY <1>2
    <3>2. u[d] = t[c] /\ t[c] \in 0 .. e[c] - 1 /\ e[c] = extents[d]
      BY <1>1, <2>1, <2>4, <3>1
    <3> QED
      BY <3>2
  <2>6. u \in CoordinatesOf(extents)
    BY <1>1, <2>4, <2>5, CoordinateMembers
  <2> QED
    BY <2>2, <2>3, <2>6
<1> QED
  BY <1>1, <1>3, <1>4

(* The elements of a view, numbered with the first index fastest.           *)
LEMMA ColumnMajor ==
  ASSUME NEW extents \in Seq(Nat)
  PROVE  /\ \A o \in Ordinals(extents) :
              /\ ColumnCoordinate(o, extents) \in CoordinatesOf(extents)
              /\ ColumnMajorRank(extents, ColumnCoordinate(o, extents)) = o
         /\ \A t \in CoordinatesOf(extents) :
              \E o \in Ordinals(extents) : t = ColumnCoordinate(o, extents)
<1>1. PICK e \in Seq(Nat) : e = Reverse(extents) /\ LogicalSize(e) = LogicalSize(extents)
  BY ReversedShape
<1>2. Ordinals(e) = Ordinals(extents)
  BY <1>1 DEF Ordinals
<1>3. ASSUME NEW o \in Ordinals(extents)
      PROVE  /\ ColumnCoordinate(o, extents) \in CoordinatesOf(extents)
             /\ ColumnMajorRank(extents, ColumnCoordinate(o, extents)) = o
  <2>1. PICK v : v = CoordinateFromOrdinal(o, e)
    OBVIOUS
  <2>2. v \in CoordinatesOf(e) /\ RowMajorRank(e, v) = o
    BY <1>1, <1>2, <2>1, RowMajor
  <2>3. PICK t : t = Reverse(v)
    OBVIOUS
  <2>4. t \in CoordinatesOf(extents) /\ Reverse(t) = v
    BY <1>1, <2>2, <2>3, ReversedMembers
  <2> DEFINE T == {u \in CoordinatesOf(extents) : LexLess(Reverse(u), v)}
             V == {u \in CoordinatesOf(e) : LexLess(u, v)}
             c == [u \in V |-> Reverse(u)]
  <2>5. \A u \in CoordinatesOf(extents) :
          Reverse(u) \in CoordinatesOf(e) /\ Reverse(Reverse(u)) = u
    BY <1>1, ReversedMembers
  <2>6. \A u \in CoordinatesOf(e) :
          Reverse(u) \in CoordinatesOf(extents) /\ Reverse(Reverse(u)) = u
    BY <1>1, ReversedMembers
  <2>7. T = {c[u] : u \in V}
    <3>1. ASSUME NEW u \in T PROVE \E x \in V : u = c[x]
      <4>1. Reverse(u) \in V /\ c[Reverse(u)] = Reverse(Reverse(u))
        BY <2>5
      <4> QED
        BY <2>5, <4>1
    <3>2. ASSUME NEW u \in V PROVE c[u] \in T
      BY <2>6
    <3> HIDE DEF T, V, c
    <3> QED
      BY <3>1, <3>2
  <2>8. \A x, y \in V : c[x] = c[y] => x = y
    <3> SUFFICES ASSUME NEW x \in V, NEW y \in V, c[x] = c[y] PROVE x = y
      OBVIOUS
    <3>1. Reverse(x) = Reverse(y)
      OBVIOUS
    <3>2. Reverse(Reverse(x)) = x /\ Reverse(Reverse(y)) = y
      BY <2>6
    <3> QED
      BY <3>1, <3>2
  <2>9. IsFiniteSet(V)
    <3> PICK N \in Nat : N = LogicalSize(extents)
      BY WeightFacts
    <3>1. IsFiniteSet(0 .. N - 1)
      BY FS_Interval
    <3>2. IsFiniteSet({CoordinateFromOrdinal(p, e) : p \in 0 .. N - 1})
      <4> DEFINE D == 0 .. N - 1
                 f == [p \in D |-> CoordinateFromOrdinal(p, e)]
      <4>1. \A p, q \in D : f[p] = f[q] => p = q
        <5>1. \A p \in D : RowMajorRank(e, CoordinateFromOrdinal(p, e)) = p
          BY <1>1, RowMajor DEF Ordinals
        <5> QED
          BY <5>1, Zenon
      <4>2. {CoordinateFromOrdinal(p, e) : p \in D} = {f[p] : p \in D}
        OBVIOUS
      <4>3. IsFiniteSet({f[p] : p \in D})
        <5>1. IsFiniteSet(D)
          BY <3>1
        <5> HIDE DEF D, f
        <5> QED
          BY <4>1, <5>1, ImageCount
      <4> QED
        BY <4>2, <4>3
    <3>3. V \subseteq {CoordinateFromOrdinal(p, e) : p \in 0 .. N - 1}
      <4>1. \A u \in CoordinatesOf(e) : \E p \in 0 .. N - 1 : u = CoordinateFromOrdinal(p, e)
        BY <1>1, RowMajor DEF Ordinals
      <4> QED
        BY <4>1
    <3> HIDE DEF V
    <3> QED
      BY <3>2, <3>3, FS_Subset
  <2>10. Cardinality(T) = Cardinality(V)
    <3> HIDE DEF T, V, c
    <3> QED
      BY <2>7, <2>8, <2>9, ImageCount
  <2>11. RowMajorRank(e, v) = Cardinality(V) /\ ColumnMajorRank(extents, t) = Cardinality(T)
    BY <2>4 DEF RowMajorRank, ColumnMajorRank, Quantify
  <2>12. t = ColumnCoordinate(o, extents)
    BY <1>1, <2>1, <2>3 DEF ColumnCoordinate
  <2> HIDE DEF T, V, c
  <2> QED
    BY <2>2, <2>4, <2>10, <2>11, <2>12
<1>4. ASSUME NEW t \in CoordinatesOf(extents)
      PROVE  \E o \in Ordinals(extents) : t = ColumnCoordinate(o, extents)
  <2>1. Reverse(t) \in CoordinatesOf(e) /\ Reverse(Reverse(t)) = t
    BY <1>1, ReversedMembers
  <2>2. PICK o \in Ordinals(e) : Reverse(t) = CoordinateFromOrdinal(o, e)
    BY <2>1, RowMajor
  <2> QED
    BY <1>1, <1>2, <2>1, <2>2 DEF ColumnCoordinate
<1> QED
  BY <1>3, <1>4

(* The quotients by which PhysicalOffset() finds the digits, first one first *)
IsFirstQuotients(q, ordinal, extents) ==
  q = [d \in 1 .. Len(extents) |->
         IF d = 1 THEN ordinal ELSE q[d - 1] \div extents[d - 1]]

FirstQuotientsOf(ordinal, extents) == CHOOSE q : IsFirstQuotients(q, ordinal, extents)

Summed(f) == FoldSeq(LAMBDA x, y : x + y, 0, f)

(* The digits from the first dimension are those of the reversed extents.   *)
LEMMA FirstDigits ==
  ASSUME NEW extents \in Seq(Nat), NEW o \in Ordinals(extents)
  PROVE  ColumnCoordinate(o, extents) =
           [d \in 1 .. Len(extents) |-> FirstQuotientsOf(o, extents)[d] % extents[d]]
<1>1. PICK n \in Nat, e \in Seq(Nat) :
        /\ n = Len(extents) /\ e = Reverse(extents) /\ n = Len(e)
        /\ LogicalSize(e) = LogicalSize(extents)
        /\ \A d \in 1 .. n : e[d] = extents[n + 1 - d]
  BY ShapeFacts, ReversedShape
<1>2. o \in Ordinals(e)
  BY <1>1 DEF Ordinals
<1>3. PICK r : /\ Divided(n, e, r, o)
               /\ CoordinateFromOrdinal(o, e) = [d \in 1 .. n |-> r[d] % e[d]]
  <2>1. \E r : /\ Divided(Len(e), e, r, o)
               /\ CoordinateFromOrdinal(o, e) = [d \in 1 .. Len(e) |-> r[d] % e[d]]
    <3>1. e \in Seq(Nat)
      OBVIOUS
    <3> HIDE <1>1
    <3> QED
      BY <1>2, <3>1, CoordinateDigits
  <2> QED
    BY <1>1, <2>1
<1> DEFINE g == [d \in 1 .. n |-> r[n + 1 - d]]
           Quotient(q, d) == IF d = 1 THEN o ELSE q[d - 1] \div extents[d - 1]
<1>4. ASSUME NEW d \in 1 .. n
      PROVE  g[d] = Quotient(g, d)
  <2>1. PICK c \in 1 .. n : c = n + 1 - d /\ n + 1 - c = d
    OBVIOUS
  <2>2. g[d] = r[c]
    BY <2>1
  <2>3. r[c] = IF c = n THEN o ELSE r[c + 1] \div e[c + 1]
    BY <1>3 DEF Divided
  <2>4. CASE d = 1
    BY <2>1, <2>2, <2>3, <2>4
  <2>5. CASE d # 1
    <3>1. d - 1 \in 1 .. n /\ c # n /\ c + 1 = n + 1 - (d - 1) /\ c + 1 \in 1 .. n
          /\ n + 1 - (c + 1) = d - 1
      BY <2>1, <2>5
    <3>2. g[d - 1] = r[c + 1]
      BY <3>1
    <3>3. e[c + 1] = extents[d - 1]
      BY <1>1, <3>1
    <3> HIDE DEF g
    <3> QED
      BY <2>2, <2>3, <2>5, <3>1, <3>2, <3>3
  <2> QED
    BY <2>4, <2>5
<1>5. \E q : IsFirstQuotients(q, o, extents)
  <2>1. g = [d \in 1 .. n |-> g[d]]
    OBVIOUS
  <2> HIDE DEF g
  <2>2. g = [d \in 1 .. n |-> Quotient(g, d)]
    <3>1. [d \in 1 .. n |-> g[d]] = [d \in 1 .. n |-> Quotient(g, d)]
      <4> HIDE DEF Quotient
      <4> QED
        BY <1>4, Zenon
    <3> HIDE DEF Quotient
    <3> QED
      BY <2>1, <3>1, Zenon
  <2>3. IsFirstQuotients(g, o, extents)
    BY <1>1, <2>2, Zenon DEF IsFirstQuotients
  <2> QED
    BY <2>3
<1>6. PICK q : q = FirstQuotientsOf(o, extents) /\ IsFirstQuotients(q, o, extents)
  BY <1>5, Zenon DEF FirstQuotientsOf
<1>7. \A d \in 1 .. n : q[d] = Quotient(q, d)
  BY <1>1, <1>6, Zenon DEF IsFirstQuotients
<1> DEFINE h == [d \in 1 .. n |-> q[n + 1 - d]]
<1>8. ASSUME NEW d \in 1 .. n
      PROVE  h[d] = IF d = n THEN o ELSE h[d + 1] \div e[d + 1]
  <2>1. PICK c \in 1 .. n : c = n + 1 - d /\ n + 1 - c = d
    OBVIOUS
  <2>2. h[d] = q[c]
    BY <2>1
  <2>3. q[c] = IF c = 1 THEN o ELSE q[c - 1] \div extents[c - 1]
    BY <1>7
  <2>4. CASE d = n
    BY <2>1, <2>2, <2>3, <2>4
  <2>5. CASE d # n
    <3>1. d + 1 \in 1 .. n /\ c # 1 /\ n + 1 - (d + 1) = c - 1
      BY <2>1, <2>5
    <3>2. h[d + 1] = q[c - 1]
      BY <3>1
    <3>3. e[d + 1] = extents[c - 1]
      BY <1>1, <3>1
    <3> HIDE DEF h
    <3> QED
      BY <2>2, <2>3, <2>5, <3>1, <3>2, <3>3
  <2> QED
    BY <2>4, <2>5
<1>9. \A d \in 1 .. n : r[d] = h[d]
  <2>1. Divided(n, e, h, o)
    <3> HIDE DEF h
    <3> QED
      BY <1>8 DEF Divided
  <2>2. Divided(n, e, r, o)
    BY <1>3
  <2> HIDE DEF h, g
  <2> QED
    BY <2>1, <2>2, DividedOnce
<1>10. PICK t : t = CoordinateFromOrdinal(o, e)
  OBVIOUS
<1>11. t = [d \in 1 .. n |-> t[d]] /\ \A d \in 1 .. n : t[d] = r[d] % e[d]
  BY <1>3, <1>10
<1>12. ColumnCoordinate(o, extents) = [d \in 1 .. n |-> t[n + 1 - d]]
  <2>1. Reverse(t) = [d \in 1 .. n |-> t[n + 1 - d]]
    BY <1>11, ReverseFacts
  <2> QED
    BY <1>1, <1>10, <2>1 DEF ColumnCoordinate
<1>13. ASSUME NEW d \in 1 .. n
       PROVE  t[n + 1 - d] = q[d] % extents[d]
  <2>1. PICK c \in 1 .. n : c = n + 1 - d /\ n + 1 - c = d
    OBVIOUS
  <2>2. t[c] = r[c] % e[c] /\ r[c] = q[d] /\ e[c] = extents[d]
    BY <1>1, <1>9, <1>11, <2>1
  <2> QED
    BY <2>1, <2>2
<1>14. [d \in 1 .. n |-> t[n + 1 - d]] = [d \in 1 .. n |-> q[d] % extents[d]]
  BY <1>13
<1> QED
  BY <1>1, <1>6, <1>12, <1>14

(* PhysicalOffset() weighs the column-major coordinate with the strides.    *)
LEMMA DenseOffset ==
  ASSUME NEW layout, layout.extents \in Seq(Nat), NEW o \in Ordinals(layout.extents),
         NEW t, t = ColumnCoordinate(o, layout.extents)
  PROVE  PhysicalOffset(layout, o) = Summed([d \in DOMAIN t |-> t[d] * layout.strides[d]])
<1>0. PICK extents \in Seq(Nat) : extents = layout.extents
  OBVIOUS
<1>1. PICK q : extents = layout.extents /\ q = FirstQuotientsOf(o, extents)
  BY <1>0
<1>2. t = [d \in 1 .. Len(extents) |-> q[d] % extents[d]]
  BY <1>1, FirstDigits
<1>3. DOMAIN t = 1 .. Len(extents)
      /\ \A d \in 1 .. Len(extents) : t[d] = q[d] % extents[d]
  BY <1>2
<1>4. PhysicalOffset(layout, o) =
        Summed([d \in 1 .. Len(layout.extents) |->
                  (FirstQuotientsOf(o, layout.extents)[d] % layout.extents[d])
                    * layout.strides[d]])
  BY Zenon DEF PhysicalOffset, Summed, FirstQuotientsOf, IsFirstQuotients
<1>5. PhysicalOffset(layout, o) =
        Summed([d \in 1 .. Len(extents) |-> (q[d] % extents[d]) * layout.strides[d]])
  BY <1>1, <1>4, Zenon
<1>6. [d \in 1 .. Len(extents) |-> (q[d] % extents[d]) * layout.strides[d]]
        = [d \in 1 .. Len(extents) |-> t[d] * layout.strides[d]]
  BY <1>3, Zenon
<1>7. [d \in 1 .. Len(extents) |-> t[d] * layout.strides[d]]
        = [d \in DOMAIN t |-> t[d] * layout.strides[d]]
  BY <1>3, Zenon
<1> QED
  BY <1>5, <1>6, <1>7, Zenon

(* The words that a fill takes do not wrap around.                          *)
LEMMA WordFits ==
  ASSUME NEW first \in Offsets, NEW elements \in Nat, NEW width \in {1, 2},
         Fits(first, elements * width), NEW o \in 0 .. elements - 1
  PROVE  WordOf(first, o, width, 0) = first + width * o
<1>1. LastOffset \in Nat /\ first \in Nat
  BY SizeAssumption DEF Offsets
<1>2. CASE width = 1
  <2>1. first + (o * width) + 0 = first + width * o /\ first + width * o \in Nat
        /\ first + width * o < LastOffset + 1
    BY <1>1, <1>2 DEF Fits
  <2>2. (first + width * o) % (LastOffset + 1) = first + width * o
    BY <1>1, <2>1, Unique
  <2> QED
    BY <2>1, <2>2 DEF WordOf
<1>3. CASE width = 2
  <2>1. first + (o * width) + 0 = first + width * o /\ first + width * o \in Nat
        /\ first + width * o < LastOffset + 1
    BY <1>1, <1>3 DEF Fits
  <2>2. (first + width * o) % (LastOffset + 1) = first + width * o
    BY <1>1, <2>1, Unique
  <2> QED
    BY <2>1, <2>2 DEF WordOf
<1> QED
  BY <1>2, <1>3

(* What a dense call leaves in the storage.                                 *)
DenseExact(layout, first, width, stored) ==
  stored = {<<Summed([d \in DOMAIN t |-> t[d] * layout.strides[d]]),
              first + width * ColumnMajorRank(layout.extents, t)>> :
              t \in CoordinatesOf(layout.extents)}

(* A dense call puts the words of every element where the view keeps it.    *)
LEMMA DenseFill ==
  ASSUME NEW layout, layout.extents \in Seq(Nat), NEW first \in Offsets,
         NEW width \in {1, 2}, Fits(first, LogicalSize(layout.extents) * width)
  PROVE  DenseExact(layout, first, width,
           {<<PhysicalOffset(layout, o), WordOf(first, o, width, 0)>> :
              o \in 0 .. LogicalSize(layout.extents) - 1})
<1> DEFINE Put(o) == <<PhysicalOffset(layout, o), WordOf(first, o, width, 0)>>
           Kept(t) == <<Summed([d \in DOMAIN t |-> t[d] * layout.strides[d]]),
                        first + width * ColumnMajorRank(layout.extents, t)>>
<1>1. PICK N \in Nat, extents \in Seq(Nat) : N = LogicalSize(extents) /\ extents = layout.extents
  BY WeightFacts
<1>2. Ordinals(extents) = 0 .. N - 1
  BY <1>1 DEF Ordinals
<1>3. ASSUME NEW o \in 0 .. N - 1
      PROVE  /\ ColumnCoordinate(o, extents) \in CoordinatesOf(extents)
             /\ Put(o) = Kept(ColumnCoordinate(o, extents))
  <2>1. PICK t : t = ColumnCoordinate(o, extents)
    OBVIOUS
  <2>2. t \in CoordinatesOf(extents) /\ ColumnMajorRank(extents, t) = o
    BY <1>2, <2>1, ColumnMajor
  <2>3. PhysicalOffset(layout, o) = Summed([d \in DOMAIN t |-> t[d] * layout.strides[d]])
    BY <1>1, <1>2, <2>1, DenseOffset
  <2>4. WordOf(first, o, width, 0) = first + width * o
    BY <1>1, WordFits
  <2>5. Put(o) = Kept(t)
    BY <1>1, <2>2, <2>3, <2>4, Zenon
  <2> HIDE DEF Put, Kept
  <2> QED
    BY <2>1, <2>2, <2>5
<1>4. \A t \in CoordinatesOf(extents) : \E o \in 0 .. N - 1 : t = ColumnCoordinate(o, extents)
  BY <1>2, ColumnMajor
<1>5. {Put(o) : o \in 0 .. N - 1} = {Kept(t) : t \in CoordinatesOf(extents)}
  <2> HIDE DEF Put, Kept
  <2>1. ASSUME NEW o \in 0 .. N - 1
        PROVE  Put(o) \in {Kept(t) : t \in CoordinatesOf(extents)}
    BY <1>3
  <2>2. ASSUME NEW t \in CoordinatesOf(extents)
        PROVE  Kept(t) \in {Put(o) : o \in 0 .. N - 1}
    BY <1>3, <1>4
  <2> QED
    BY <2>1, <2>2
<1> QED
  BY <1>1, <1>5, Zenon DEF DenseExact

------------------------------------------------------------------------------
\* The least ordinals by priority, and the passes that find them in order

Before(p, o, q) == CandidateLess(<<p[o], o>>, <<p[q], q>>)

ByPriority(D, p) == {oq \in D \X D : Before(p, oq[1], oq[2])}

RankOf(p, o) == RankIn(DOMAIN p, ByPriority(DOMAIN p, p), o)

(* Priorities, with ties broken by ordinals, put the elements in an order.  *)
LEMMA PriorityRanks ==
  ASSUME NEW N \in Nat, NEW p \in [0 .. N - 1 -> Nat]
  PROVE  /\ \A o \in 0 .. N - 1 : RankOf(p, o) \in 0 .. N - 1
         /\ \A o, q \in 0 .. N - 1 : Before(p, o, q) <=> RankOf(p, o) < RankOf(p, q)
         /\ \A o, q \in 0 .. N - 1 : RankOf(p, o) = RankOf(p, q) => o = q
         /\ \A r \in 0 .. N - 1 : \E o \in 0 .. N - 1 : RankOf(p, o) = r
         /\ \A count \in 0 .. N :
              IsFiniteSet(Least(p, count)) /\ Cardinality(Least(p, count)) = count
         /\ \A count : Least(p, count) = {o \in 0 .. N - 1 : RankOf(p, o) < count}
<1>1. PICK D, R : D = 0 .. N - 1 /\ R = ByPriority(D, p)
  OBVIOUS
<1>2. \A o, q \in D :
        /\ <<o, q>> \in R <=> Before(p, o, q)
        /\ Before(p, o, q) <=> p[o] < p[q] \/ (p[o] = p[q] /\ o < q)
  <2> SUFFICES ASSUME NEW o \in D, NEW q \in D
               PROVE  /\ <<o, q>> \in R <=> Before(p, o, q)
                      /\ Before(p, o, q) <=> p[o] < p[q] \/ (p[o] = p[q] /\ o < q)
    OBVIOUS
  <2>1. <<o, q>> \in R <=> Before(p, o, q)
    <3>1. <<o, q>> \in D \X D
      OBVIOUS
    <3>2. <<o, q>> \in ByPriority(D, p) <=> Before(p, <<o, q>>[1], <<o, q>>[2])
      BY <3>1, Zenon DEF ByPriority
    <3>3. <<o, q>>[1] = o /\ <<o, q>>[2] = q
      OBVIOUS
    <3> QED
      BY <1>1, <3>2, <3>3, Zenon
  <2>2. Before(p, o, q) <=> p[o] < p[q] \/ (p[o] = p[q] /\ o < q)
    BY DEF Before, CandidateLess
  <2> QED
    BY <2>1, <2>2
<1>3. \A o \in D : p[o] \in Nat /\ o \in Nat
  BY <1>1
<1>4. StrictOrder(D, R)
  <2>1. \A x \in D : <<x, x>> \notin R
    BY <1>2, <1>3
  <2>2. \A x, y \in D : x # y => <<x, y>> \in R \/ <<y, x>> \in R
    BY <1>2, <1>3
  <2>3. ASSUME NEW x \in D, NEW y \in D, NEW z \in D, <<x, y>> \in R, <<y, z>> \in R
        PROVE  <<x, z>> \in R
    BY <1>2, <1>3, <2>3
  <2> QED
    BY <2>1, <2>2, <2>3 DEF StrictOrder
<1>5. IsFiniteSet(D) /\ Cardinality(D) = N
  BY <1>1, FS_Interval
<1>6. \A o : RankOf(p, o) = RankIn(D, R, o)
  <2>1. DOMAIN p = D
    BY <1>1
  <2> QED
    BY <1>1, <2>1, Zenon DEF RankOf
<1>7. /\ \A x \in D : RankIn(D, R, x) \in 0 .. Cardinality(D) - 1
      /\ \A x, y \in D : <<x, y>> \in R <=> RankIn(D, R, x) < RankIn(D, R, y)
      /\ \A x, y \in D : RankIn(D, R, x) = RankIn(D, R, y) => x = y
      /\ \A r \in 0 .. Cardinality(D) - 1 : \E x \in D : RankIn(D, R, x) = r
  BY <1>4, <1>5, Ranks
<1>8. ASSUME NEW o \in D
      PROVE  Quantify(D, LAMBDA q : p[q] < p[o] \/ (p[q] = p[o] /\ q < o)) = RankIn(D, R, o)
  <2>1. {q \in D : p[q] < p[o] \/ (p[q] = p[o] /\ q < o)} = {q \in D : <<q, o>> \in R}
    BY <1>2
  <2> QED
    BY <2>1 DEF Quantify, RankIn
<1>9. ASSUME NEW count
      PROVE  Least(p, count) = {o \in D : RankIn(D, R, o) < count}
  <2>1. Least(p, count) = {o \in D : Quantify(D, LAMBDA q :
                              p[q] < p[o] \/ (p[q] = p[o] /\ q < o)) < count}
    BY <1>1 DEF Least
  <2> QED
    BY <1>8, <2>1
<1>10. ASSUME NEW count \in 0 .. N
       PROVE  IsFiniteSet(Least(p, count)) /\ Cardinality(Least(p, count)) = count
  <2>1. PICK first : first = {x \in D : RankIn(D, R, x) < count}
    OBVIOUS
  <2>2. IsFiniteSet(first) /\ Cardinality(first) = count
    BY <1>4, <1>5, <2>1, FirstRanks
  <2> QED
    BY <1>9, <2>1, <2>2
<1>11. /\ \A o \in D : RankOf(p, o) \in 0 .. N - 1
       /\ \A o, q \in D : RankOf(p, o) = RankOf(p, q) => o = q
       /\ \A r \in 0 .. N - 1 : \E o \in D : RankOf(p, o) = r
  BY <1>5, <1>6, <1>7
<1>12. \A o, q \in D : Before(p, o, q) <=> RankOf(p, o) < RankOf(p, q)
  <2> SUFFICES ASSUME NEW o \in D, NEW q \in D
               PROVE  Before(p, o, q) <=> RankOf(p, o) < RankOf(p, q)
    OBVIOUS
  <2>1. Before(p, o, q) <=> <<o, q>> \in R
    BY <1>2
  <2>2. <<o, q>> \in R <=> RankIn(D, R, o) < RankIn(D, R, q)
    BY <1>7
  <2>3. RankOf(p, o) = RankIn(D, R, o) /\ RankOf(p, q) = RankIn(D, R, q)
    BY <1>6
  <2> QED
    BY <2>1, <2>2, <2>3
<1>13. \A count : Least(p, count) = {o \in D : RankOf(p, o) < count}
  BY <1>6, <1>9
<1>14. /\ \A o \in 0 .. N - 1 : RankOf(p, o) \in 0 .. N - 1
       /\ \A o, q \in 0 .. N - 1 : RankOf(p, o) = RankOf(p, q) => o = q
       /\ \A r \in 0 .. N - 1 : \E o \in 0 .. N - 1 : RankOf(p, o) = r
  BY <1>1, <1>11
<1>15. \A o, q \in 0 .. N - 1 : Before(p, o, q) <=> RankOf(p, o) < RankOf(p, q)
  BY <1>1, <1>12
<1>16. \A count : Least(p, count) = {o \in 0 .. N - 1 : RankOf(p, o) < count}
  BY <1>1, <1>13
<1> QED
  BY <1>10, <1>14, <1>15, <1>16

(* The least candidate after the one with the rank before.                  *)
LEMMA LeastAfter ==
  ASSUME NEW N \in Nat, NEW p \in [0 .. N - 1 -> Nat], NEW k \in 1 .. N,
         NEW x \in 0 .. N - 1, RankOf(p, x) = k - 1, NEW previous,
         k > 1 => \E y \in 0 .. N - 1 : previous = <<p[y], y>> /\ RankOf(p, y) = k - 2
  PROVE  LeastOf({c \in Candidates(p) : k > 1 => CandidateLess(previous, c)}) = <<p[x], x>>
<1> DEFINE D == 0 .. N - 1
           rest == {c \in Candidates(p) : k > 1 => CandidateLess(previous, c)}
<1>1. /\ \A o \in D : RankOf(p, o) \in D
      /\ \A o, q \in D : Before(p, o, q) <=> RankOf(p, o) < RankOf(p, q)
      /\ \A o, q \in D : RankOf(p, o) = RankOf(p, q) => o = q
  BY PriorityRanks
<1>2. Candidates(p) = {<<p[o], o>> : o \in D}
  BY DEF Candidates
<1>3. ASSUME NEW o \in D
      PROVE  <<p[o], o>> \in rest <=> k - 1 <= RankOf(p, o)
  <2>0. <<p[o], o>> \in Candidates(p) /\ RankOf(p, o) \in Nat
    BY <1>1, <1>2
  <2>1. CASE k = 1
    BY <2>0, <2>1
  <2>2. CASE k > 1
    <3>1. PICK y \in D : previous = <<p[y], y>> /\ RankOf(p, y) = k - 2
      BY <2>2
    <3>2. CandidateLess(previous, <<p[o], o>>) <=> k - 2 < RankOf(p, o)
      <4>1. Before(p, y, o) <=> RankOf(p, y) < RankOf(p, o)
        BY <1>1
      <4> QED
        BY <3>1, <4>1, Zenon DEF Before
    <3>3. k - 2 < RankOf(p, o) <=> k - 1 <= RankOf(p, o)
      BY <2>0
    <3> QED
      BY <2>0, <2>2, <3>2, <3>3
  <2> QED
    BY <2>1, <2>2
<1>4. <<p[x], x>> \in rest
  BY <1>3
<1>5. ASSUME NEW o \in D, <<p[o], o>> \in rest
      PROVE  /\ ~Before(p, o, x)
             /\ o # x => Before(p, x, o)
  <2>1. RankOf(p, o) \in Nat /\ RankOf(p, x) \in Nat /\ RankOf(p, x) <= RankOf(p, o)
    BY <1>1, <1>3, <1>5
  <2>2. o # x => RankOf(p, x) # RankOf(p, o)
    BY <1>1
  <2> QED
    BY <1>1, <2>1, <2>2
<1>6. \A c \in rest : \E o \in D : c = <<p[o], o>>
  BY <1>2
<1> HIDE DEF rest
<1>7. \A d \in rest : ~CandidateLess(d, <<p[x], x>>)
  BY <1>5, <1>6 DEF Before
<1>8. ASSUME NEW c \in rest, \A d \in rest : ~CandidateLess(d, c)
      PROVE  c = <<p[x], x>>
  <2>1. PICK o \in D : c = <<p[o], o>>
    BY <1>6
  <2>2. ~Before(p, x, o)
    BY <1>4, <1>8, <2>1 DEF Before
  <2> QED
    BY <1>5, <2>1, <2>2
<1>9. rest # {}
  BY <1>4
<1>10. LeastOf(rest) = CHOOSE c \in rest : \A d \in rest : ~CandidateLess(d, c)
  BY <1>9, Zenon DEF LeastOf
<1>11. LeastOf(rest) = <<p[x], x>>
  <2>1. PICK least : least = CHOOSE c \in rest : \A d \in rest : ~CandidateLess(d, c)
    OBVIOUS
  <2>2. least \in rest /\ \A d \in rest : ~CandidateLess(d, least)
    BY <1>4, <1>7, <2>1
  <2> QED
    BY <1>8, <1>10, <2>1, <2>2
<1> QED
  BY <1>11 DEF rest

NextChoice(p, g, k) ==
  LeastOf({c \in Candidates(p) : k > 1 => CandidateLess(g[k - 1], c)})

IsPasses(g, p, count) ==
  g = [k \in 1 .. count |->
         LeastOf({c \in Candidates(p) : k > 1 => CandidateLess(g[k - 1], c)})]

Passes(p, count) == CHOOSE g : IsPasses(g, p, count)

(* Each pass over the ordinals finds the element of the next rank.          *)
ChosenInOrder(N, p, count, chosen) ==
  /\ chosen = [k \in 1 .. count |-> chosen[k]]
  /\ \A k \in 1 .. count : chosen[k] \in 0 .. N - 1 /\ RankOf(p, chosen[k]) = k - 1

(* The k-th pass chooses the ordinal of rank k - 1.                         *)
LEMMA InOrder ==
  ASSUME NEW N \in Nat, NEW p \in [0 .. N - 1 -> Nat], NEW count \in 0 .. N
  PROVE  ChosenInOrder(N, p, count, InOrderOfPriority(p, count))
<1> DEFINE At(r) == CHOOSE o \in 0 .. N - 1 : RankOf(p, o) = r
           g == [k \in 1 .. count |-> <<p[At(k - 1)], At(k - 1)>>]
<1>1. ASSUME NEW k \in 1 .. count
      PROVE  At(k - 1) \in 0 .. N - 1 /\ RankOf(p, At(k - 1)) = k - 1
  <2>1. k - 1 \in 0 .. N - 1
    OBVIOUS
  <2>2. \E o \in 0 .. N - 1 : RankOf(p, o) = k - 1
    BY <2>1, PriorityRanks
  <2> QED
    BY <2>2
<1> HIDE DEF At
<1>2. ASSUME NEW f, NEW k \in 1 .. count, k > 1 => f[k - 1] = g[k - 1]
      PROVE  NextChoice(p, f, k) = g[k]
  <2>1. PICK x \in 0 .. N - 1 : x = At(k - 1) /\ RankOf(p, x) = k - 1
    BY <1>1
  <2>2. k \in 1 .. N
    OBVIOUS
  <2>3. k > 1 => \E y \in 0 .. N - 1 : f[k - 1] = <<p[y], y>> /\ RankOf(p, y) = k - 2
    <3> SUFFICES ASSUME k > 1
                 PROVE  \E y \in 0 .. N - 1 : f[k - 1] = <<p[y], y>> /\ RankOf(p, y) = k - 2
      OBVIOUS
    <3>1. k - 1 \in 1 .. count /\ (k - 1) - 1 = k - 2
      OBVIOUS
    <3>2. At(k - 2) \in 0 .. N - 1 /\ RankOf(p, At(k - 2)) = k - 2
      BY <1>1, <3>1
    <3>3. f[k - 1] = <<p[At(k - 2)], At(k - 2)>>
      BY <1>2, <3>1
    <3> QED
      BY <3>2, <3>3
  <2>4. PICK previous : previous = f[k - 1]
    OBVIOUS
  <2>5. k > 1 => \E y \in 0 .. N - 1 : previous = <<p[y], y>> /\ RankOf(p, y) = k - 2
    BY <2>3, <2>4
  <2> HIDE DEF g
  <2>6. LeastOf({c \in Candidates(p) : k > 1 => CandidateLess(previous, c)}) = <<p[x], x>>
    BY <2>1, <2>2, <2>5, LeastAfter
  <2>7. NextChoice(p, f, k) = <<p[x], x>>
    BY <2>4, <2>6, Zenon DEF NextChoice
  <2>8. g[k] = <<p[x], x>>
    BY <2>1 DEF g
  <2> QED
    BY <2>7, <2>8
<1>3. g = [k \in 1 .. count |-> NextChoice(p, g, k)]
  <2>1. \A k \in 1 .. count : g[k] = NextChoice(p, g, k)
    <3> HIDE DEF g
    <3> QED
      BY <1>2, Zenon
  <2>2. g = [k \in 1 .. count |-> g[k]]
    OBVIOUS
  <2> HIDE DEF g
  <2>3. [k \in 1 .. count |-> g[k]] = [k \in 1 .. count |-> NextChoice(p, g, k)]
    BY <2>1, Zenon
  <2> QED
    BY <2>2, <2>3, Zenon
<1>4. PICK f : f = Passes(p, count) /\ IsPasses(f, p, count)
  <2> HIDE DEF g
  <2>1. IsPasses(g, p, count)
    BY <1>3, Zenon DEF IsPasses, NextChoice
  <2> QED
    BY <2>1, Zenon DEF Passes
<1>5. \A k \in 1 .. count : f[k] = NextChoice(p, f, k)
  BY <1>4, Zenon DEF IsPasses, NextChoice
<1> DEFINE S == {k \in Nat : k \in 1 .. count => f[k] = g[k]}
<1>6. Nat \subseteq S
  <2>1. 0 \in S
    OBVIOUS
  <2>2. ASSUME NEW k \in Nat, k \in S PROVE k + 1 \in S
    <3> SUFFICES ASSUME k + 1 \in 1 .. count PROVE f[k + 1] = g[k + 1]
      OBVIOUS
    <3>1. k + 1 > 1 => k \in 1 .. count
      OBVIOUS
    <3>2. (k + 1) - 1 = k
      OBVIOUS
    <3>3. k + 1 > 1 => f[(k + 1) - 1] = g[(k + 1) - 1]
      BY <2>2, <3>1, <3>2
    <3> HIDE DEF g
    <3>4. NextChoice(p, f, k + 1) = g[k + 1]
      BY <1>2, <3>3, Zenon
    <3> QED
      BY <1>5, <3>4
  <2> HIDE DEF S
  <2> QED
    BY <2>1, <2>2, NatInd
<1>7. ASSUME NEW k \in 1 .. count PROVE f[k] = <<p[At(k - 1)], At(k - 1)>>
  <2>1. g[k] = <<p[At(k - 1)], At(k - 1)>>
    OBVIOUS
  <2> HIDE DEF g
  <2>2. k \in S
    BY <1>6
  <2>3. f[k] = g[k]
    BY <2>2
  <2> QED
    BY <2>1, <2>3
<1>8. PICK chosen : chosen = InOrderOfPriority(p, count)
  OBVIOUS
<1>9. chosen = [k \in 1 .. count |-> f[k][2]]
  <2>1. InOrderOfPriority(p, count) = [k \in 1 .. count |-> Passes(p, count)[k][2]]
    BY Zenon DEF InOrderOfPriority, Passes, IsPasses
  <2> QED
    BY <1>4, <1>8, <2>1, Zenon
<1>10. ASSUME NEW k \in 1 .. count PROVE chosen[k] = At(k - 1)
  <2>1. chosen[k] = f[k][2]
    BY <1>9
  <2>2. f[k] = <<p[At(k - 1)], At(k - 1)>>
    BY <1>7
  <2>3. <<p[At(k - 1)], At(k - 1)>>[2] = At(k - 1)
    OBVIOUS
  <2> QED
    BY <2>1, <2>2, <2>3, Zenon
<1>11. chosen = [k \in 1 .. count |-> chosen[k]]
  BY <1>9
<1> HIDE DEF g, S
<1>12. \A k \in 1 .. count : chosen[k] \in 0 .. N - 1 /\ RankOf(p, chosen[k]) = k - 1
  BY <1>1, <1>10
<1> QED
  BY <1>8, <1>11, <1>12, Zenon DEF ChosenInOrder

(* What is chosen in order are the elements of least priority.              *)
LEMMA ChosenAreLeast ==
  ASSUME NEW N \in Nat, NEW p \in [0 .. N - 1 -> Nat], NEW count \in 0 .. N,
         NEW chosen, ChosenInOrder(N, p, count, chosen)
  PROVE  /\ DOMAIN chosen = 1 .. count
         /\ \A k \in 1 .. count : chosen[k] \in Least(p, count) /\ chosen[k] \in 0 .. N - 1
         /\ \A o \in Least(p, count) : o \in 0 .. N - 1 /\ \E k \in 1 .. count : o = chosen[k]
         /\ \A i, k \in 1 .. count : chosen[i] = chosen[k] => i = k
<1>1. /\ chosen = [k \in 1 .. count |-> chosen[k]]
      /\ \A k \in 1 .. count : chosen[k] \in 0 .. N - 1 /\ RankOf(p, chosen[k]) = k - 1
  BY DEF ChosenInOrder
<1>2. /\ \A o \in 0 .. N - 1 : RankOf(p, o) \in 0 .. N - 1
      /\ \A o, q \in 0 .. N - 1 : RankOf(p, o) = RankOf(p, q) => o = q
  BY PriorityRanks
<1>3. Least(p, count) = {o \in 0 .. N - 1 : RankOf(p, o) < count}
  BY PriorityRanks
<1>4. DOMAIN chosen = 1 .. count
  BY <1>1
<1>5. ASSUME NEW k \in 1 .. count
      PROVE  chosen[k] \in Least(p, count)
  <2>1. chosen[k] \in 0 .. N - 1 /\ RankOf(p, chosen[k]) = k - 1 /\ k - 1 < count
    BY <1>1
  <2> QED
    BY <1>3, <2>1
<1>6. ASSUME NEW o \in Least(p, count)
      PROVE  o \in 0 .. N - 1 /\ \E k \in 1 .. count : o = chosen[k]
  <2>1. o \in 0 .. N - 1 /\ RankOf(p, o) < count /\ RankOf(p, o) \in 0 .. N - 1
    BY <1>2, <1>3
  <2>2. PICK k \in 1 .. count : k = RankOf(p, o) + 1 /\ RankOf(p, o) = k - 1
    BY <2>1
  <2>3. chosen[k] \in 0 .. N - 1 /\ RankOf(p, chosen[k]) = RankOf(p, o)
    BY <1>1, <2>2
  <2> QED
    BY <1>2, <2>1, <2>3
<1>7. ASSUME NEW i \in 1 .. count, NEW k \in 1 .. count, chosen[i] = chosen[k]
      PROVE  i = k
  <2>1. i - 1 = k - 1
    BY <1>1, <1>7
  <2> QED
    BY <2>1
<1> QED
  BY <1>1, <1>4, <1>5, <1>6, <1>7

------------------------------------------------------------------------------
\* What the host stores

(* The members of a set of numbers in ascending order.                      *)
Lists(sorted, S, n) ==
  /\ \A k \in 1 .. n : sorted[k] \in S
  /\ \A o \in S : \E k \in 1 .. n : o = sorted[k]
  /\ \A k \in 1 .. n - 1 : sorted[k] < sorted[k + 1]

SparseExact(extents, p, count, stored) ==
  /\ \A k \in 1 .. count - 1 : LexLess(stored[k], stored[k + 1])
  /\ Range(stored) =
       {t \in CoordinatesOf(extents) : RowMajorRank(extents, t) \in Least(p, count)}

(* The coordinates of ascending ordinals are in canonical order.            *)
LEMMA CanonicalSequence ==
  ASSUME NEW extents \in Seq(Nat), NEW p \in [Ordinals(extents) -> Nat], NEW count \in Nat,
         NEW sorted, Lists(sorted, Least(p, count), count), NEW stored,
         stored = [k \in 1 .. count |-> CoordinateFromOrdinal(sorted[k], extents)]
  PROVE  SparseExact(extents, p, count, stored)
<1>1. Least(p, count) \subseteq Ordinals(extents)
  BY DEF Least
<1>2. /\ \A o \in Ordinals(extents) :
           /\ CoordinateFromOrdinal(o, extents) \in CoordinatesOf(extents)
           /\ RowMajorRank(extents, CoordinateFromOrdinal(o, extents)) = o
      /\ \A t \in CoordinatesOf(extents) :
           \E o \in Ordinals(extents) : t = CoordinateFromOrdinal(o, extents)
      /\ \A o, q \in Ordinals(extents) :
           LexLess(CoordinateFromOrdinal(o, extents), CoordinateFromOrdinal(q, extents))
             <=> o < q
  BY RowMajor
<1>3. /\ \A k \in 1 .. count : sorted[k] \in Least(p, count) /\ sorted[k] \in Ordinals(extents)
      /\ \A o \in Least(p, count) : \E k \in 1 .. count : o = sorted[k]
      /\ \A k \in 1 .. count - 1 : sorted[k] < sorted[k + 1]
  BY <1>1 DEF Lists
<1>4. DOMAIN stored = 1 .. count
      /\ \A k \in 1 .. count : stored[k] = CoordinateFromOrdinal(sorted[k], extents)
  OBVIOUS
<1>5. ASSUME NEW k \in 1 .. count - 1
      PROVE  LexLess(stored[k], stored[k + 1])
  <2>1. k \in 1 .. count /\ k + 1 \in 1 .. count /\ sorted[k] < sorted[k + 1]
    BY <1>3
  <2>2. /\ sorted[k] \in Ordinals(extents) /\ sorted[k + 1] \in Ordinals(extents)
        /\ stored[k] = CoordinateFromOrdinal(sorted[k], extents)
        /\ stored[k + 1] = CoordinateFromOrdinal(sorted[k + 1], extents)
    BY <1>3, <1>4, <2>1
  <2> QED
    BY <1>2, <2>1, <2>2
<1> DEFINE kept == {t \in CoordinatesOf(extents) : RowMajorRank(extents, t) \in Least(p, count)}
<1>6. ASSUME NEW k \in 1 .. count
      PROVE  stored[k] \in kept
  <2>1. PICK o \in Ordinals(extents) : o = sorted[k] /\ o \in Least(p, count)
    BY <1>3
  <2>2. stored[k] = CoordinateFromOrdinal(o, extents)
    BY <1>4, <2>1
  <2> QED
    BY <1>2, <2>1, <2>2
<1>7. ASSUME NEW t \in kept
      PROVE  \E k \in 1 .. count : t = stored[k]
  <2>1. PICK o \in Ordinals(extents) : t = CoordinateFromOrdinal(o, extents)
    BY <1>2
  <2>2. o \in Least(p, count)
    <3>1. RowMajorRank(extents, t) = o
      BY <1>2, <2>1
    <3> QED
      BY <3>1
  <2>3. PICK k \in 1 .. count : o = sorted[k]
    BY <1>3, <2>2
  <2> QED
    BY <1>4, <2>1, <2>3
<1>8. Range(stored) = kept
  <2>1. Range(stored) = {stored[k] : k \in 1 .. count}
    BY <1>4 DEF Range
  <2> HIDE DEF kept
  <2> QED
    BY <1>6, <1>7, <2>1
<1> QED
  BY <1>5, <1>8 DEF SparseExact

(* The positions of different numbers, in the order of the numbers.         *)
ByValue(f, n) == {ij \in (1 .. n) \X (1 .. n) : f[ij[1]] < f[ij[2]]}

(* Different numbers have one position each in their order.                 *)
LEMMA SortedByValue ==
  ASSUME NEW n \in Nat, NEW f, \A i \in 1 .. n : f[i] \in Int,
         \A i, j \in 1 .. n : f[i] = f[j] => i = j
  PROVE  /\ \A k \in 1 .. n : \E i \in 1 .. n : RankIn(1 .. n, ByValue(f, n), i) = k - 1
         /\ \A i \in 1 .. n : RankIn(1 .. n, ByValue(f, n), i) \in 0 .. n - 1
         /\ \A i, j \in 1 .. n :
              RankIn(1 .. n, ByValue(f, n), i) < RankIn(1 .. n, ByValue(f, n), j)
                => f[i] < f[j]
         /\ \A i, j \in 1 .. n :
              RankIn(1 .. n, ByValue(f, n), i) = RankIn(1 .. n, ByValue(f, n), j) => i = j
<1>1. PICK D, R : D = 1 .. n /\ R = ByValue(f, n)
  OBVIOUS
<1>2. \A i, j \in D : <<i, j>> \in R <=> f[i] < f[j]
  BY <1>1 DEF ByValue
<1>3. StrictOrder(D, R)
  <2>0. \A i \in D : f[i] \in Int
    BY <1>1
  <2>1. \A i \in D : <<i, i>> \notin R
    BY <1>2, <2>0
  <2>2. ASSUME NEW i \in D, NEW j \in D, i # j PROVE <<i, j>> \in R \/ <<j, i>> \in R
    <3>1. f[i] # f[j]
      BY <1>1, <2>2
    <3> QED
      BY <1>2, <2>0, <3>1
  <2>3. ASSUME NEW i \in D, NEW j \in D, NEW k \in D, <<i, j>> \in R, <<j, k>> \in R
        PROVE  <<i, k>> \in R
    BY <1>2, <2>0, <2>3
  <2> QED
    BY <2>1, <2>2, <2>3 DEF StrictOrder
<1>4. IsFiniteSet(D) /\ Cardinality(D) = n
  BY <1>1, FS_Interval
<1>5. /\ \A i \in D : RankIn(D, R, i) \in 0 .. Cardinality(D) - 1
      /\ \A i, j \in D : <<i, j>> \in R <=> RankIn(D, R, i) < RankIn(D, R, j)
      /\ \A i, j \in D : RankIn(D, R, i) = RankIn(D, R, j) => i = j
      /\ \A r \in 0 .. Cardinality(D) - 1 : \E i \in D : RankIn(D, R, i) = r
  BY <1>3, <1>4, Ranks
<1>6. \A k \in 1 .. n : \E i \in D : RankIn(D, R, i) = k - 1
  <2> SUFFICES ASSUME NEW k \in 1 .. n PROVE \E i \in D : RankIn(D, R, i) = k - 1
    OBVIOUS
  <2>1. k - 1 \in 0 .. Cardinality(D) - 1
    BY <1>4
  <2> QED
    BY <1>5, <2>1
<1>7. \A i, j \in D : RankIn(D, R, i) < RankIn(D, R, j) => f[i] < f[j]
  BY <1>2, <1>5
<1>8. \A i \in D : RankIn(D, R, i) \in 0 .. n - 1
  BY <1>4, <1>5
<1>9. \A i, j \in D : RankIn(D, R, i) = RankIn(D, R, j) => i = j
  BY <1>5
<1> QED
  BY <1>1, <1>6, <1>7, <1>8, <1>9, Zenon

(* Positions by value list the values in ascending order.                   *)
OnceEach(f, n, S) ==
  /\ \A i \in 1 .. n : f[i] \in Int /\ f[i] \in S
  /\ \A i, j \in 1 .. n : f[i] = f[j] => i = j
  /\ \A o \in S : \E i \in 1 .. n : o = f[i]

Places(at, f, n) ==
  \A k \in 1 .. n : at[k] \in 1 .. n /\ RankIn(1 .. n, ByValue(f, n), at[k]) = k - 1

(* Taken in the order of their values, they list the set.                   *)
LEMMA ValuesListed ==
  ASSUME NEW n \in Nat, NEW f, NEW S, OnceEach(f, n, S), NEW at, Places(at, f, n),
         NEW sorted, sorted = [k \in 1 .. n |-> f[at[k]]]
  PROVE  Lists(sorted, S, n)
<1> USE DEF OnceEach, Places
<1> DEFINE Rank(i) == RankIn(1 .. n, ByValue(f, n), i)
<1>1. /\ \A i \in 1 .. n : Rank(i) \in 0 .. n - 1
      /\ \A i, j \in 1 .. n : Rank(i) < Rank(j) => f[i] < f[j]
      /\ \A i, j \in 1 .. n : Rank(i) = Rank(j) => i = j
  BY SortedByValue
<1>2. \A k \in 1 .. n : at[k] \in 1 .. n /\ Rank(at[k]) = k - 1
  OBVIOUS
<1> HIDE DEF Rank
<1>3. \A k \in 1 .. n : sorted[k] \in S
  BY <1>2
<1>4. ASSUME NEW k \in 1 .. n - 1 PROVE sorted[k] < sorted[k + 1]
  <2>1. k \in 1 .. n /\ k + 1 \in 1 .. n /\ (k + 1) - 1 = k
    OBVIOUS
  <2>2. at[k] \in 1 .. n /\ Rank(at[k]) = k - 1 /\ at[k + 1] \in 1 .. n /\ Rank(at[k + 1]) = k
    BY <1>2, <2>1
  <2>3. Rank(at[k]) < Rank(at[k + 1])
    BY <2>2
  <2> QED
    BY <1>1, <2>1, <2>2, <2>3
<1>5. ASSUME NEW o \in S PROVE \E k \in 1 .. n : o = sorted[k]
  <2>1. PICK i \in 1 .. n : o = f[i]
    OBVIOUS
  <2>2. PICK k \in 1 .. n : Rank(i) = k - 1
    <3>1. PICK r \in 0 .. n - 1 : r = Rank(i)
      BY <1>1
    <3>2. r + 1 \in 1 .. n /\ r = (r + 1) - 1
      OBVIOUS
    <3> QED
      BY <3>1, <3>2
  <2>3. at[k] = i
    BY <1>1, <1>2, <2>2
  <2> QED
    BY <2>1, <2>3
<1> QED
  BY <1>3, <1>4, <1>5 DEF Lists

InPlace(added, i) ==
  Quantify(DOMAIN added, LAMBDA j :
    LexLess(added[j], added[i]) \/ (added[j] = added[i] /\ j < i))

(* The builder puts what was added one after the other in canonical order.  *)
LEMMA HostSorts ==
  ASSUME NEW extents \in Seq(Nat), NEW p \in [Ordinals(extents) -> Nat],
         NEW count \in 0 .. LogicalSize(extents),
         NEW added, added = [k \in 1 .. count |->
                               CoordinateFromOrdinal(InOrderOfPriority(p, count)[k], extents)]
  PROVE  /\ IsInjective(added)
         /\ SparseExact(extents, p, count, InCanonicalOrder(added))
<1>0. PICK N \in Nat : N = LogicalSize(extents)
  BY WeightFacts
<1>1. PICK chosen : N = LogicalSize(extents) /\ chosen = InOrderOfPriority(p, count)
  BY <1>0
<1>2. Ordinals(extents) = 0 .. N - 1 /\ count \in 0 .. N /\ count \in Nat
  BY <1>1 DEF Ordinals
<1>3. /\ \A k \in 1 .. count : chosen[k] \in Least(p, count) /\ chosen[k] \in 0 .. N - 1
      /\ \A o \in Least(p, count) : \E k \in 1 .. count : o = chosen[k]
      /\ \A i, k \in 1 .. count : chosen[i] = chosen[k] => i = k
  <2>1. p \in [0 .. N - 1 -> Nat]
    BY <1>2
  <2>2. ChosenInOrder(N, p, count, chosen)
    BY <1>1, <1>2, <2>1, InOrder
  <2> QED
    BY <1>2, <2>1, <2>2, ChosenAreLeast
<1>4. DOMAIN added = 1 .. count
      /\ \A k \in 1 .. count : added[k] = CoordinateFromOrdinal(chosen[k], extents)
  BY <1>1
<1>5. /\ \A o \in 0 .. N - 1 : RowMajorRank(extents, CoordinateFromOrdinal(o, extents)) = o
      /\ \A o, q \in 0 .. N - 1 :
           LexLess(CoordinateFromOrdinal(o, extents), CoordinateFromOrdinal(q, extents))
             <=> o < q
  BY <1>2, RowMajor
<1>6. ASSUME NEW i \in 1 .. count, NEW j \in 1 .. count, added[i] = added[j]
      PROVE  i = j
  <2>1. /\ added[i] = CoordinateFromOrdinal(chosen[i], extents)
        /\ added[j] = CoordinateFromOrdinal(chosen[j], extents)
        /\ chosen[i] \in 0 .. N - 1 /\ chosen[j] \in 0 .. N - 1
    BY <1>3, <1>4
  <2>2. chosen[i] = chosen[j]
    BY <1>5, <1>6, <2>1
  <2> QED
    BY <1>3, <2>2
<1>7. IsInjective(added)
  BY <1>4, <1>6 DEF IsInjective
<1> DEFINE R == ByValue(chosen, count)
<1>8. ASSUME NEW i \in 1 .. count
      PROVE  InPlace(added, i) = RankIn(1 .. count, R, i)
  <2>1. ASSUME NEW j \in 1 .. count
        PROVE  (LexLess(added[j], added[i]) \/ (added[j] = added[i] /\ j < i)) <=> <<j, i>> \in R
    <3>1. /\ added[i] = CoordinateFromOrdinal(chosen[i], extents)
          /\ added[j] = CoordinateFromOrdinal(chosen[j], extents)
          /\ chosen[i] \in 0 .. N - 1 /\ chosen[j] \in 0 .. N - 1
      BY <1>3, <1>4
    <3>2. LexLess(added[j], added[i]) <=> chosen[j] < chosen[i]
      BY <1>5, <3>1
    <3>3. <<j, i>> \in R <=> chosen[j] < chosen[i]
      BY DEF ByValue
    <3>4. ~(added[j] = added[i] /\ j < i)
      BY <1>6
    <3> QED
      BY <3>2, <3>3, <3>4
  <2> HIDE DEF R
  <2>2. {j \in 1 .. count : LexLess(added[j], added[i]) \/ (added[j] = added[i] /\ j < i)}
          = {j \in 1 .. count : <<j, i>> \in R}
    BY <2>1
  <2> QED
    BY <1>4, <2>2 DEF InPlace, Quantify, RankIn
<1> DEFINE Fit(i, k) == InPlace(added, i) = k - 1
           at == [k \in 1 .. count |-> CHOOSE i \in 1 .. count : Fit(i, k)]
           sorted == [k \in 1 .. count |-> chosen[at[k]]]
<1>9. \A k \in 1 .. count : at[k] \in 1 .. count /\ RankIn(1 .. count, R, at[k]) = k - 1
  <2> SUFFICES ASSUME NEW k \in 1 .. count
               PROVE  at[k] \in 1 .. count /\ RankIn(1 .. count, R, at[k]) = k - 1
    BY Zenon
  <2>1. \A i \in 1 .. count : chosen[i] \in Int
    BY <1>3
  <2>2. \E i \in 1 .. count : RankIn(1 .. count, R, i) = k - 1
    <3>1. \A i, j \in 1 .. count : chosen[i] = chosen[j] => i = j
      BY <1>3
    <3>2. \A c \in 1 .. count : \E i \in 1 .. count :
            RankIn(1 .. count, ByValue(chosen, count), i) = c - 1
      BY <1>2, <2>1, <3>1, SortedByValue
    <3> QED
      BY <3>2
  <2> HIDE DEF R
  <2>3. \E i \in 1 .. count : Fit(i, k)
    BY <1>8, <2>2
  <2>4. at[k] = CHOOSE i \in 1 .. count : Fit(i, k)
    BY Zenon
  <2> HIDE DEF at, Fit
  <2>5. at[k] \in 1 .. count /\ Fit(at[k], k)
    BY <2>3, <2>4
  <2>6. InPlace(added, at[k]) = k - 1
    BY <2>5 DEF Fit
  <2> QED
    BY <1>8, <2>5, <2>6
<1>10. Lists(sorted, Least(p, count), count)
  <2>1. \A i \in 1 .. count : chosen[i] \in Int /\ chosen[i] \in Least(p, count)
    BY <1>3
  <2>2. PICK places, values : places = at /\ values = sorted
    OBVIOUS
  <2>3. values = [k \in 1 .. count |-> chosen[places[k]]]
    <3> HIDE DEF at
    <3>1. sorted = [k \in 1 .. count |-> chosen[at[k]]]
      OBVIOUS
    <3> HIDE DEF sorted
    <3> QED
      BY <2>2, <3>1, Zenon
  <2>4. \A k \in 1 .. count : places[k] \in 1 .. count
          /\ RankIn(1 .. count, ByValue(chosen, count), places[k]) = k - 1
    <3> HIDE DEF at
    <3> QED
      BY <1>9, <2>2
  <2>5. Lists(values, Least(p, count), count)
    <3> HIDE DEF at, sorted
    <3> QED
      <4>1. OnceEach(chosen, count, Least(p, count))
        BY <1>3, <2>1 DEF OnceEach
      <4>2. Places(places, chosen, count)
        BY <2>4 DEF Places
      <4> QED
        BY <1>2, <2>3, <4>1, <4>2, ValuesListed
  <2> QED
    BY <2>2, <2>5, Zenon
<1>11. InCanonicalOrder(added) =
         [k \in 1 .. count |-> CoordinateFromOrdinal(sorted[k], extents)]
  <2>1. InCanonicalOrder(added) = [k \in 1 .. count |-> added[at[k]]]
    <3>1. InCanonicalOrder(added) =
            [k \in DOMAIN added |-> added[CHOOSE i \in DOMAIN added : InPlace(added, i) = k - 1]]
      BY Zenon DEF InCanonicalOrder, InPlace
    <3>2. InCanonicalOrder(added) =
            [k \in 1 .. count |-> added[CHOOSE i \in 1 .. count : Fit(i, k)]]
      <4>1. DOMAIN added = 1 .. count
        BY <1>4
      <4> QED
        BY <3>1, <4>1, Zenon
    <3>3. \A k \in 1 .. count : at[k] = CHOOSE i \in 1 .. count : Fit(i, k)
      BY Zenon
    <3> HIDE DEF at
    <3> QED
      BY <3>2, <3>3, Zenon
  <2>2. \A k \in 1 .. count : at[k] \in 1 .. count
    <3> HIDE DEF at
    <3> QED
      BY <1>9
  <2>3. ASSUME NEW k \in 1 .. count
        PROVE  added[at[k]] = CoordinateFromOrdinal(sorted[k], extents)
    <3>1. sorted[k] = chosen[at[k]]
      BY Zenon
    <3> HIDE DEF at, sorted
    <3> QED
      BY <1>4, <2>2, <3>1, Zenon
  <2> HIDE DEF at, sorted
  <2> QED
    BY <2>1, <2>3, Zenon
<1>12. SparseExact(extents, p, count, InCanonicalOrder(added))
  <2>1. PICK values, stored : values = sorted /\ stored = InCanonicalOrder(added)
    OBVIOUS
  <2> HIDE DEF sorted
  <2>2. /\ Lists(values, Least(p, count), count)
        /\ stored = [k \in 1 .. count |-> CoordinateFromOrdinal(values[k], extents)]
    BY <1>10, <1>11, <2>1, Zenon
  <2>3. SparseExact(extents, p, count, stored)
    BY <1>2, <2>2, CanonicalSequence
  <2> QED
    BY <2>1, <2>3, Zenon
<1> QED
  BY <1>7, <1>12

------------------------------------------------------------------------------
\* What the second pass of GenerateSparseStructure() puts out

Below(S, o) == Quantify(S, LAMBDA q : q < o)

Ordered(S) ==
  [k \in 1 .. Cardinality(S) |->
     CHOOSE o \in S : Quantify(S, LAMBDA q : q < o) = k - 1]

IsListing(sorted, S, n) ==
  S \subseteq Nat /\ sorted = Ordered(S) /\ n = Cardinality(S)

(* A finite set of numbers listed by how many of it are below each.         *)
LEMMA NumbersListed ==
  ASSUME NEW S, IsFiniteSet(S), NEW n, NEW sorted, IsListing(sorted, S, n)
  PROVE  /\ n \in Nat /\ Lists(sorted, S, n)
         /\ DOMAIN sorted = 1 .. n /\ Range(sorted) = S
<1>0. n \in Nat
  BY FS_CardinalityType DEF IsListing
<1>00. PICK R : R = {qo \in S \X S : qo[1] < qo[2]}
  OBVIOUS
<1>1. \A q, o \in S : <<q, o>> \in R <=> q < o
  BY <1>00
<1>2. StrictOrder(S, R)
  <2>1. \A o \in S : o \in Nat
    BY DEF IsListing
  <2> QED
    BY <1>1, <2>1 DEF StrictOrder
<1>3. /\ \A x \in S : RankIn(S, R, x) \in 0 .. n - 1
      /\ \A x, y \in S : <<x, y>> \in R <=> RankIn(S, R, x) < RankIn(S, R, y)
      /\ \A x, y \in S : RankIn(S, R, x) = RankIn(S, R, y) => x = y
      /\ \A r \in 0 .. n - 1 : \E x \in S : RankIn(S, R, x) = r
  <2>1. /\ \A x \in S : RankIn(S, R, x) \in 0 .. Cardinality(S) - 1
        /\ \A x, y \in S : <<x, y>> \in R <=> RankIn(S, R, x) < RankIn(S, R, y)
        /\ \A x, y \in S : RankIn(S, R, x) = RankIn(S, R, y) => x = y
        /\ \A r \in 0 .. Cardinality(S) - 1 : \E x \in S : RankIn(S, R, x) = r
    <3> HIDE <1>00, <1>1
    <3> QED
      BY <1>2, Ranks
  <2> QED
    BY <2>1, Zenon DEF IsListing
<1>4. ASSUME NEW o \in S PROVE Below(S, o) = RankIn(S, R, o)
  <2>1. {q \in S : q < o} = {q \in S : <<q, o>> \in R}
    BY <1>1
  <2> QED
    BY <2>1 DEF Below, Quantify, RankIn
<1>5. /\ DOMAIN sorted = 1 .. n
      /\ \A k \in 1 .. n : sorted[k] = CHOOSE o \in S : Below(S, o) = k - 1
  <2>1. sorted = [k \in 1 .. n |-> CHOOSE o \in S : Below(S, o) = k - 1]
    <3>1. sorted = [k \in 1 .. Cardinality(S) |-> CHOOSE o \in S : Below(S, o) = k - 1]
      BY Zenon DEF Ordered, Below, IsListing
    <3> QED
      BY <3>1, Zenon DEF IsListing
  <2> QED
    BY <2>1, Zenon
<1>6. ASSUME NEW k \in 1 .. n
      PROVE  sorted[k] \in S /\ RankIn(S, R, sorted[k]) = k - 1
  <2>1. k - 1 \in 0 .. n - 1
    BY <1>0
  <2>2. \E o \in S : Below(S, o) = k - 1
    BY <1>3, <1>4, <2>1
  <2>3. sorted[k] = CHOOSE o \in S : Below(S, o) = k - 1
    BY <1>5
  <2>4. sorted[k] \in S /\ Below(S, sorted[k]) = k - 1
    BY <2>2, <2>3, Zenon
  <2> QED
    BY <1>4, <2>4
<1>7. ASSUME NEW k \in 1 .. n - 1 PROVE sorted[k] < sorted[k + 1]
  <2>1. k \in 1 .. n /\ k + 1 \in 1 .. n /\ (k + 1) - 1 = k
    BY <1>0
  <2>2. RankIn(S, R, sorted[k]) = k - 1 /\ RankIn(S, R, sorted[k + 1]) = k
        /\ sorted[k] \in S /\ sorted[k + 1] \in S
    BY <1>6, <2>1
  <2>3. <<sorted[k], sorted[k + 1]>> \in R
    <3>1. PICK x \in S, y \in S : x = sorted[k] /\ y = sorted[k + 1]
      BY <2>2
    <3>2. RankIn(S, R, x) = k - 1 /\ RankIn(S, R, y) = k /\ k - 1 < k
      BY <2>1, <2>2, <3>1
    <3>3. RankIn(S, R, x) < RankIn(S, R, y)
      BY <3>2, Zenon
    <3> QED
      BY <1>3, <3>1, <3>3
  <2> QED
    BY <1>1, <2>2, <2>3
<1>8. ASSUME NEW o \in S PROVE \E k \in 1 .. n : o = sorted[k]
  <2>1. PICK r \in 0 .. n - 1 : r = RankIn(S, R, o)
    BY <1>3
  <2>2. r + 1 \in 1 .. n /\ (r + 1) - 1 = r
    BY <1>0
  <2>3. sorted[r + 1] \in S /\ RankIn(S, R, sorted[r + 1]) = r
    BY <1>6, <2>2
  <2> QED
    BY <1>3, <2>1, <2>2, <2>3
<1>9. Lists(sorted, S, n)
  BY <1>6, <1>7, <1>8 DEF Lists
<1>10. Range(sorted) = S
  <2>1. Range(sorted) = {sorted[k] : k \in 1 .. n}
    BY <1>5 DEF Range
  <2>2. \A k \in 1 .. n : sorted[k] \in S
    BY <1>6
  <2> QED
    BY <1>8, <2>1, <2>2
<1> QED
  BY <1>0, <1>5, <1>9, <1>10

(* The cutoff of the workspace and everything up to it.                     *)
LEMMA CutoffSelects ==
  ASSUME NEW N \in Nat, NEW p \in [0 .. N - 1 -> Nat], NEW count \in 1 .. N,
         NEW part \in FirstParts(p, count), NEW c \in part, \A d \in part : ~CandidateLess(c, d)
  PROVE  {o \in DOMAIN p : ~CandidateLess(c, <<p[o], o>>)} = Least(p, count)
<1> DEFINE D == 0 .. N - 1
           Pair(o) == <<p[o], o>>
<1>1. /\ \A o \in D : RankOf(p, o) \in 0 .. N - 1
      /\ \A o, q \in D : Before(p, o, q) <=> RankOf(p, o) < RankOf(p, q)
      /\ \A o, q \in D : RankOf(p, o) = RankOf(p, q) => o = q
  BY PriorityRanks
<1>2. Candidates(p) = {Pair(o) : o \in D}
  BY DEF Candidates
<1>3. /\ part \subseteq Candidates(p)
      /\ Cardinality(part) = count
      /\ \A a \in part, d \in Candidates(p) \ part : ~CandidateLess(d, a)
  <2>1. CASE count = Cardinality(Candidates(p))
    <3>1. part = Candidates(p)
      BY <2>1 DEF FirstParts
    <3> QED
      BY <2>1, <3>1
  <2>2. CASE count # Cardinality(Candidates(p))
    BY <2>2 DEF FirstParts, kSubset
  <2> QED
    BY <2>1, <2>2
<1>4. \A o, q \in D : CandidateLess(Pair(o), Pair(q)) <=> Before(p, o, q)
  BY Zenon DEF Before
<1> DEFINE mine == {o \in D : Pair(o) \in part}
<1>5. Cardinality(mine) = count /\ IsFiniteSet(mine)
  <2> DEFINE f == [o \in mine |-> Pair(o)]
  <2>1. IsFiniteSet(mine)
    <3>1. IsFiniteSet(D) /\ mine \in SUBSET D
      BY FS_Interval
    <3> HIDE DEF mine, D
    <3> QED
      BY <3>1, FS_Subset
  <2>2. part = {f[o] : o \in mine}
    <3>1. \A d \in part : \E o \in mine : d = Pair(o)
      BY <1>2, <1>3
    <3>2. \A o \in mine : Pair(o) \in part /\ f[o] = Pair(o)
      OBVIOUS
    <3> HIDE DEF mine, Pair, f
    <3> QED
      BY <3>1, <3>2
  <2>3. \A o, q \in mine : f[o] = f[q] => o = q
    <3> SUFFICES ASSUME NEW o \in mine, NEW q \in mine, f[o] = f[q] PROVE o = q
      OBVIOUS
    <3>1. <<p[o], o>> = <<p[q], q>>
      OBVIOUS
    <3> QED
      BY <3>1
  <2> HIDE DEF mine, f
  <2>4. Cardinality({f[o] : o \in mine}) = Cardinality(mine)
    BY <2>1, <2>3, ImageCount
  <2> QED
    BY <1>3, <2>1, <2>2, <2>4
<1>6. PICK x \in D : c = Pair(x)
  BY <1>2, <1>3
<1>7. ASSUME NEW o \in D
      PROVE  /\ o \in mine <=> ~CandidateLess(c, Pair(o))
             /\ o \in mine <=> RankOf(p, o) < RankOf(p, x) + 1
  <2>0. RankOf(p, o) \in Nat /\ RankOf(p, x) \in Nat
    BY <1>1
  <2>1. CASE o \in mine
    <3>1. ~CandidateLess(c, Pair(o))
      BY <2>1
    <3>2. ~(RankOf(p, x) < RankOf(p, o))
      <4>1. ~Before(p, x, o)
        BY <1>4, <1>6, <3>1
      <4> QED
        BY <1>1, <4>1
    <3> QED
      BY <2>0, <2>1, <3>1, <3>2
  <2>2. CASE o \notin mine
    <3>1. Pair(o) \in Candidates(p) \ part
      BY <1>2, <2>2
    <3>2. ~CandidateLess(Pair(o), Pair(x))
      BY <1>3, <1>6, <3>1
    <3>3. o # x
      BY <1>6, <2>2
    <3>4. ~Before(p, o, x)
      BY <1>4, <3>2
    <3>5. RankOf(p, x) < RankOf(p, o)
      <4>1. ~(RankOf(p, o) < RankOf(p, x)) /\ RankOf(p, o) # RankOf(p, x)
        BY <1>1, <3>3, <3>4
      <4> QED
        BY <2>0, <4>1
    <3>6. CandidateLess(c, Pair(o))
      <4>1. Before(p, x, o)
        BY <1>1, <3>5
      <4> QED
        BY <1>4, <1>6, <4>1
    <3> QED
      BY <2>0, <2>2, <3>5, <3>6
  <2> QED
    BY <2>1, <2>2
<1>8. mine = Least(p, RankOf(p, x) + 1)
  <2>1. Least(p, RankOf(p, x) + 1) = {o \in D : RankOf(p, o) < RankOf(p, x) + 1}
    BY PriorityRanks
  <2>2. \A o \in mine : o \in D
    OBVIOUS
  <2> HIDE DEF mine
  <2> QED
    BY <1>7, <2>1, <2>2
<1>9. RankOf(p, x) + 1 = count
  <2>1. RankOf(p, x) + 1 \in 0 .. N
    BY <1>1
  <2>2. Cardinality(Least(p, RankOf(p, x) + 1)) = RankOf(p, x) + 1
    BY <2>1, PriorityRanks
  <2> QED
    BY <1>5, <1>8, <2>2
<1>10. {o \in DOMAIN p : ~CandidateLess(c, <<p[o], o>>)} = mine
  <2>1. DOMAIN p = D
    OBVIOUS
  <2>2. \A o \in mine : o \in D
    OBVIOUS
  <2> HIDE DEF mine
  <2> QED
    BY <1>7, <2>1, <2>2
<1> QED
  BY <1>8, <1>9, <1>10

(* Whichever part nth_element() leaves in front, the least are put out.     *)
LEMMA WorkspaceSelects ==
  ASSUME NEW N \in Nat, NEW p \in [0 .. N - 1 -> Nat], NEW count \in 1 .. N,
         NEW part \in FirstParts(p, count), NEW c \in part, \A d \in part : ~CandidateLess(c, d),
         NEW put, put = UpTo(c, p)
  PROVE  /\ DOMAIN put = 1 .. count /\ Len(put) = count
         /\ Lists(put, Least(p, count), count) /\ Range(put) = Least(p, count)
<1>1. put = Ordered({o \in DOMAIN p : ~CandidateLess(c, <<p[o], o>>)})
  BY Zenon DEF UpTo, Ordered
<1>2. {o \in DOMAIN p : ~CandidateLess(c, <<p[o], o>>)} = Least(p, count)
  BY CutoffSelects
<1>3. PICK S : S = Least(p, count)
  OBVIOUS
<1>4. put = Ordered(S)
  BY <1>1, <1>2, <1>3, Zenon
<1>5. IsFiniteSet(S) /\ Cardinality(S) = count /\ S \subseteq Nat
  <2>1. count \in 0 .. N
    OBVIOUS
  <2>2. IsFiniteSet(S) /\ Cardinality(S) = count
    BY <1>3, <2>1, PriorityRanks
  <2>3. S \subseteq 0 .. N - 1
    BY <1>3 DEF Least
  <2> QED
    BY <2>2, <2>3
<1>6. Lists(put, S, count) /\ DOMAIN put = 1 .. count /\ Range(put) = S
  <2>1. IsListing(put, S, count)
    BY <1>4, <1>5 DEF IsListing
  <2> QED
    BY <1>5, <2>1, NumbersListed
<1>7. Len(put) = count
  <2>1. put = [k \in 1 .. count |-> put[k]]
    <3>1. put = [k \in 1 .. Cardinality(S) |-> CHOOSE o \in S : Below(S, o) = k - 1]
      BY <1>4, Zenon DEF Ordered, Below
    <3>2. put = [k \in 1 .. count |-> CHOOSE o \in S : Below(S, o) = k - 1]
      BY <1>5, <3>1, Zenon
    <3> QED
      BY <3>2
  <2> QED
    BY <2>1
<1> QED
  BY <1>3, <1>6, <1>7

------------------------------------------------------------------------------
\* What SelectCanonicalOrdinals() inserts

Rises(s) == \A i, j \in 1 .. Len(s) : i < j => s[i] < s[j]

(* What is put in at one place.                                             *)
LEMMA InsertedAt ==
  ASSUME NEW s \in Seq(Nat), NEW m \in 0 .. Len(s), NEW ordinal \in Nat
  PROVE  LET r == InsertAt(s, m + 1, ordinal)
         IN  /\ r \in Seq(Nat) /\ Len(r) = Len(s) + 1
             /\ \A k \in 1 .. m : r[k] = s[k]
             /\ r[m + 1] = ordinal
             /\ \A k \in m + 1 .. Len(s) : r[k + 1] = s[k]
<1>00. PICK n \in Nat : n = Len(s)
  OBVIOUS
<1>0. PICK r : n = Len(s) /\ r = InsertAt(s, m + 1, ordinal)
  BY <1>00
<1>01. m \in 0 .. n /\ m \in Nat
  BY <1>0
<1>1. PICK front, back : front = SubSeq(s, 1, m) /\ back = SubSeq(s, m + 1, n)
  OBVIOUS
<1>2. /\ front \in Seq(Nat) /\ Len(front) = m
      /\ \A k \in 1 .. m : front[k] = s[k]
  BY <1>0, <1>01, <1>1
<1>3. /\ back \in Seq(Nat) /\ Len(back) = n - m
      /\ \A k \in 1 .. n - m : back[k] = s[m + k]
  BY <1>0, <1>01, <1>1
<1>4. (m + 1) - 1 = m
  OBVIOUS
<1>5. r = (front \o <<ordinal>>) \o back
  BY <1>0, <1>1, <1>4, Zenon DEF InsertAt
<1>6. PICK left : left = front \o <<ordinal>>
  OBVIOUS
<1>7. /\ left \in Seq(Nat) /\ Len(left) = m + 1
      /\ \A k \in 1 .. m : left[k] = s[k]
      /\ left[m + 1] = ordinal
  <2>1. PICK one : one = <<ordinal>>
    OBVIOUS
  <2>2. one \in Seq(Nat) /\ Len(one) = 1 /\ one[1] = ordinal
    BY <2>1
  <2>3. /\ front \o one \in Seq(Nat)
        /\ Len(front \o one) = Len(front) + Len(one)
        /\ \A i \in 1 .. Len(front) + Len(one) :
             (front \o one)[i] = IF i <= Len(front) THEN front[i] ELSE one[i - Len(front)]
    BY <1>2, <2>2, ConcatProperties
  <2>4. /\ left \in Seq(Nat) /\ Len(left) = m + 1
        /\ \A i \in 1 .. m + 1 : left[i] = IF i <= m THEN front[i] ELSE one[i - m]
    BY <1>2, <1>6, <2>1, <2>2, <2>3, Zenon
  <2>5. ASSUME NEW k \in 1 .. m PROVE left[k] = s[k]
    <3>1. k \in 1 .. m + 1 /\ k <= m
      BY <1>01
    <3> QED
      BY <1>2, <2>4, <3>1
  <2>6. left[m + 1] = ordinal
    <3>1. m + 1 \in 1 .. m + 1 /\ ~(m + 1 <= m) /\ (m + 1) - m = 1
      BY <1>01
    <3>2. left[m + 1] = one[(m + 1) - m]
      BY <2>4, <3>1, Zenon
    <3> QED
      BY <2>2, <3>1, <3>2, Zenon
  <2> QED
    BY <2>4, <2>5, <2>6
<1>8. r = left \o back
  BY <1>5, <1>6
<1>9. /\ r \in Seq(Nat) /\ Len(r) = n + 1
      /\ \A k \in 1 .. m + 1 : r[k] = left[k]
      /\ \A k \in 1 .. n - m : r[m + 1 + k] = back[k]
  <2>1. /\ left \o back \in Seq(Nat)
        /\ Len(left \o back) = Len(left) + Len(back)
        /\ \A i \in 1 .. Len(left) + Len(back) :
             (left \o back)[i] = IF i <= Len(left) THEN left[i] ELSE back[i - Len(left)]
    BY <1>3, <1>7, ConcatProperties
  <2>2. /\ r \in Seq(Nat) /\ Len(r) = (m + 1) + (n - m)
        /\ \A i \in 1 .. (m + 1) + (n - m) :
             r[i] = IF i <= m + 1 THEN left[i] ELSE back[i - (m + 1)]
    BY <1>3, <1>7, <1>8, <2>1, Zenon
  <2>3. (m + 1) + (n - m) = n + 1
    BY <1>01
  <2>4. /\ r \in Seq(Nat) /\ Len(r) = n + 1
        /\ \A i \in 1 .. n + 1 : r[i] = IF i <= m + 1 THEN left[i] ELSE back[i - (m + 1)]
    BY <2>2, <2>3, Zenon
  <2>5. ASSUME NEW k \in 1 .. n - m PROVE r[m + 1 + k] = back[k]
    <3>1. PICK i \in 1 .. n + 1 : i = m + 1 + k /\ ~(i <= m + 1) /\ i - (m + 1) = k
      BY <1>01
    <3> QED
      BY <2>4, <3>1
  <2>6. ASSUME NEW k \in 1 .. m + 1 PROVE r[k] = left[k]
    <3>1. k \in 1 .. n + 1 /\ k <= m + 1
      BY <1>01
    <3> QED
      BY <2>4, <3>1
  <2> QED
    BY <2>4, <2>5, <2>6
<1>10. ASSUME NEW k \in m + 1 .. n
       PROVE  r[k + 1] = s[k]
  <2>1. PICK j \in 1 .. n - m : m + 1 + j = k + 1 /\ m + j = k
    <3>1. k - m \in 1 .. n - m /\ m + 1 + (k - m) = k + 1 /\ m + (k - m) = k
      BY <1>01
    <3> QED
      BY <3>1
  <2>2. r[m + 1 + j] = back[j] /\ back[j] = s[m + j]
    BY <1>3, <1>9
  <2> QED
    BY <2>1, <2>2
<1>11. \A k \in 1 .. m : k \in 1 .. m + 1
  BY <1>01
<1>12. m + 1 \in 1 .. m + 1
  BY <1>01
<1> QED
  BY <1>0, <1>7, <1>9, <1>10, <1>11, <1>12

(* Insert() puts the ordinal behind those that are not greater.             *)
LEMMA InsertPlace ==
  ASSUME NEW s \in Seq(Nat), NEW ordinal \in Nat
  PROVE  /\ Insert(s, ordinal) \in Seq(Nat)
         /\ Rises(s) =>
              \E m \in 0 .. Len(s) :
                /\ Insert(s, ordinal) = InsertAt(s, m + 1, ordinal)
                /\ \A k \in 1 .. m : s[k] <= ordinal
                /\ \A k \in m + 1 .. Len(s) : ordinal < s[k]
<1> DEFINE below == {k \in DOMAIN s : \E j \in k .. Len(s) : s[j] <= ordinal}
<1>0. PICK n \in Nat : n = Len(s)
  OBVIOUS
<1>1. DOMAIN s = 1 .. n /\ \A k \in 1 .. n : s[k] \in Nat
  BY <1>0
<1>2. IsFiniteSet(1 .. n) /\ Cardinality(1 .. n) = n
  BY FS_Interval
<1>3. Cardinality(below) \in 0 .. n
  <2>1. below \in SUBSET (1 .. n)
    BY <1>1
  <2> HIDE DEF below
  <2>2. IsFiniteSet(below) /\ Cardinality(below) <= n
    BY <1>2, <2>1, FS_Subset
  <2>3. Cardinality(below) \in Nat
    BY <2>2, FS_CardinalityType
  <2> QED
    BY <2>2, <2>3
<1>4. Insert(s, ordinal) = InsertAt(s, Cardinality(below) + 1, ordinal)
  BY Zenon DEF Insert
<1>5. Insert(s, ordinal) \in Seq(Nat)
  <2> HIDE DEF below
  <2>1. PICK m \in 0 .. Len(s) : m = Cardinality(below)
    BY <1>0, <1>3
  <2>2. InsertAt(s, m + 1, ordinal) \in Seq(Nat)
    BY InsertedAt
  <2> QED
    BY <1>4, <2>1, <2>2
<1>6. ASSUME Rises(s)
      PROVE  \E m \in 0 .. n :
                /\ Insert(s, ordinal) = InsertAt(s, m + 1, ordinal)
                /\ \A k \in 1 .. m : s[k] <= ordinal
                /\ \A k \in m + 1 .. n : ordinal < s[k]
  <2>1. \A i, j \in 1 .. n : i < j => s[i] < s[j]
    BY <1>0, <1>6 DEF Rises
  <2> DEFINE ends == {m \in 0 .. n : \A k \in m + 1 .. n : ordinal < s[k]}
  <2>2. PICK m \in ends : \A x \in ends : m <= x
    <3>1. n \in ends /\ ends \subseteq Nat
      OBVIOUS
    <3> HIDE DEF ends
    <3> QED
      BY <3>1, LeastNat
  <2>3. m \in 0 .. n /\ \A k \in m + 1 .. n : ordinal < s[k]
    OBVIOUS
  <2>4. ASSUME NEW k \in 1 .. m PROVE s[k] <= ordinal
    <3>0. m - 1 \in 0 .. n /\ ~(m <= m - 1)
      BY <2>3
    <3>1. m - 1 \in 0 .. n /\ m - 1 \notin ends
      <4> HIDE DEF ends
      <4> QED
        BY <2>2, <3>0
    <3>2. PICK j \in (m - 1) + 1 .. n : ~(ordinal < s[j])
      BY <3>1
    <3>3. j = m /\ m \in 1 .. n /\ k \in 1 .. n /\ s[m] \in Nat /\ s[k] \in Nat
      BY <1>1, <2>3, <3>2
    <3>4. s[m] <= ordinal
      BY <3>2, <3>3
    <3>5. k = m \/ s[k] < s[m]
      BY <2>1, <3>3
    <3> QED
      BY <3>3, <3>4, <3>5
  <2> HIDE DEF ends
  <2>5. below = 1 .. m
    <3>1. ASSUME NEW k \in below PROVE k \in 1 .. m
      <4>1. PICK j \in k .. n : s[j] <= ordinal
        BY <1>0
      <4>2. k \in 1 .. n /\ j \in 1 .. n /\ s[j] \in Nat
        BY <1>1
      <4>3. ~(ordinal < s[j])
        BY <4>1, <4>2
      <4>4. j <= m
        BY <2>3, <4>2, <4>3
      <4> QED
        BY <2>3, <4>2, <4>4
    <3>2. ASSUME NEW k \in 1 .. m PROVE k \in below
      <4>1. k \in 1 .. n /\ k \in k .. n /\ s[k] <= ordinal
        BY <2>3, <2>4
      <4> QED
        BY <1>0, <1>1, <4>1
    <3> HIDE DEF below
    <3> QED
      BY <3>1, <3>2
  <2>6. Cardinality(below) = m
    <3>1. Cardinality(1 .. m) = m
      BY <2>3, FS_Interval
    <3> HIDE DEF below
    <3> QED
      BY <2>5, <3>1
  <2> HIDE DEF below
  <2> QED
    BY <1>4, <2>3, <2>4, <2>6
<1> QED
  <2> HIDE DEF below
  <2> QED
    BY <1>0, <1>5, <1>6

(* SelectCanonicalOrdinals() keeps its list in ascending order.             *)
LEMMA InsertRises ==
  ASSUME NEW s \in Seq(Nat), Rises(s), NEW ordinal \in Nat, ordinal \notin Range(s)
  PROVE  LET r == Insert(s, ordinal)
         IN  /\ r \in Seq(Nat) /\ Rises(r) /\ Len(r) = Len(s) + 1
             /\ Range(r) = Range(s) \cup {ordinal}
<1>0. PICK r : r = Insert(s, ordinal)
  OBVIOUS
<1>1. PICK n \in Nat : n = Len(s) /\ DOMAIN s = 1 .. n /\ \A k \in 1 .. n : s[k] \in Nat
  OBVIOUS
<1>2. PICK m \in 0 .. n :
        /\ r = InsertAt(s, m + 1, ordinal)
        /\ \A k \in 1 .. m : s[k] <= ordinal
        /\ \A k \in m + 1 .. n : ordinal < s[k]
  BY <1>0, <1>1, InsertPlace
<1>3. /\ r \in Seq(Nat) /\ Len(r) = n + 1
      /\ \A k \in 1 .. m : r[k] = s[k]
      /\ r[m + 1] = ordinal
      /\ \A k \in m + 1 .. n : r[k + 1] = s[k]
  <2>1. m \in 0 .. Len(s)
    BY <1>1
  <2>2. LET x == InsertAt(s, m + 1, ordinal)
        IN  /\ x \in Seq(Nat) /\ Len(x) = Len(s) + 1
            /\ \A k \in 1 .. m : x[k] = s[k]
            /\ x[m + 1] = ordinal
            /\ \A k \in m + 1 .. Len(s) : x[k + 1] = s[k]
    BY <2>1, InsertedAt
  <2> QED
    BY <1>1, <1>2, <2>2
<1>4. \A i, j \in 1 .. n : i < j => s[i] < s[j]
  BY <1>1 DEF Rises
<1>5. \A k \in 1 .. n : s[k] # ordinal
  BY <1>1 DEF Range
<1>6. ASSUME NEW j \in 1 .. n + 1
      PROVE  \/ j \in 1 .. m /\ j \in 1 .. n /\ r[j] = s[j] /\ s[j] < ordinal
             \/ j = m + 1 /\ r[j] = ordinal
             \/ j \in m + 2 .. n + 1 /\ j - 1 \in m + 1 .. n /\ j - 1 \in 1 .. n
                /\ r[j] = s[j - 1] /\ ordinal < s[j - 1]
  <2>1. CASE j <= m
    <3>1. j \in 1 .. m /\ j \in 1 .. n
      BY <2>1
    <3>2. s[j] <= ordinal /\ s[j] \in Nat /\ s[j] # ordinal /\ r[j] = s[j]
      BY <1>1, <1>2, <1>3, <1>5, <3>1
    <3>3. s[j] < ordinal
      BY <3>2
    <3> QED
      BY <3>1, <3>2, <3>3
  <2>2. CASE j = m + 1
    BY <1>3, <2>2
  <2>3. CASE j > m + 1
    <3>1. PICK k \in m + 1 .. n : k = j - 1 /\ k + 1 = j /\ k \in 1 .. n
      BY <2>3
    <3>2. r[k + 1] = s[k] /\ ordinal < s[k]
      BY <1>2, <1>3
    <3> QED
      BY <2>3, <3>1, <3>2
  <2> QED
    BY <2>1, <2>2, <2>3
<1>7. ASSUME NEW i \in 1 .. n + 1, NEW j \in 1 .. n + 1, i < j
      PROVE  r[i] < r[j]
  <2>1. r[i] \in Nat /\ r[j] \in Nat
    <3>1. i \in 1 .. Len(r) /\ j \in 1 .. Len(r) /\ r \in Seq(Nat)
      BY <1>3
    <3> QED
      BY <3>1
  <2>2. CASE i \in 1 .. m
    <3>1. i \in 1 .. n /\ r[i] = s[i] /\ s[i] < ordinal
      BY <1>6, <2>2
    <3>2. CASE j \in 1 .. m
      <4>1. j \in 1 .. n /\ r[j] = s[j]
        BY <1>6, <3>2
      <4> QED
        BY <1>4, <1>7, <3>1, <4>1
    <3>3. CASE j \notin 1 .. m
      <4>1. r[j] = ordinal \/ ordinal < r[j]
        BY <1>6, <3>3
      <4> QED
        BY <2>1, <3>1, <4>1
    <3> QED
      BY <3>2, <3>3
  <2>3. CASE i = m + 1
    <3>1. r[i] = ordinal /\ j \notin 1 .. m /\ j # m + 1
      BY <1>3, <1>7, <2>3
    <3>2. ordinal < r[j]
      BY <1>6, <3>1
    <3> QED
      BY <3>1, <3>2
  <2>4. CASE i > m + 1
    <3>1. i \notin 1 .. m /\ i # m + 1 /\ j \notin 1 .. m /\ j # m + 1 /\ i - 1 < j - 1
      BY <1>7, <2>4
    <3>2. i - 1 \in 1 .. n /\ r[i] = s[i - 1] /\ j - 1 \in 1 .. n /\ r[j] = s[j - 1]
      BY <1>6, <3>1
    <3> QED
      BY <1>4, <3>1, <3>2
  <2> QED
    BY <2>2, <2>3, <2>4
<1>8. Rises(r)
  BY <1>3, <1>7 DEF Rises
<1>9. Range(r) = Range(s) \cup {ordinal}
  <2>1. Range(r) = {r[k] : k \in 1 .. n + 1} /\ Range(s) = {s[k] : k \in 1 .. n}
    <3>1. DOMAIN r = 1 .. n + 1
      BY <1>3
    <3> QED
      BY <1>1, <3>1, Zenon DEF Range
  <2>2. ASSUME NEW j \in 1 .. n + 1 PROVE r[j] \in Range(s) \cup {ordinal}
    BY <1>6, <2>1
  <2>3. ASSUME NEW k \in 1 .. n PROVE s[k] \in Range(r)
    <3>1. CASE k <= m
      <4>1. k \in 1 .. m /\ k \in 1 .. n + 1
        BY <3>1
      <4> QED
        BY <1>3, <2>1, <4>1
    <3>2. CASE k > m
      <4>1. k \in m + 1 .. n /\ k + 1 \in 1 .. n + 1
        BY <3>2
      <4> QED
        BY <1>3, <2>1, <4>1
    <3> QED
      BY <3>1, <3>2
  <2>4. ordinal \in Range(r)
    <3>1. m + 1 \in 1 .. n + 1
      OBVIOUS
    <3> QED
      BY <1>3, <2>1, <3>1
  <2> QED
    BY <2>1, <2>2, <2>3, <2>4
<1> QED
  BY <1>0, <1>1, <1>3, <1>8, <1>9

IsInserts(g, chosen) ==
  g = [s \in SUBSET DOMAIN chosen |->
         IF s = {} THEN <<>>
         ELSE Insert(g[s \ {CHOOSE x \in s : TRUE}], chosen[CHOOSE x \in s : TRUE])]

Inserts(chosen) == CHOOSE g : IsInserts(g, chosen)

Inserted(chosen) == FoldSeq(LAMBDA ordinal, s : Insert(s, ordinal), <<>>, chosen)

(* The insertions, one chosen ordinal after the other                       *)
LEMMA InsertsFacts ==
  ASSUME NEW chosen, IsFiniteSet(DOMAIN chosen), \A k \in DOMAIN chosen : chosen[k] \in Nat
  PROVE  /\ Inserted(chosen) = Inserts(chosen)[DOMAIN chosen]
         /\ Inserts(chosen)[{}] = <<>>
         /\ \A s \in SUBSET DOMAIN chosen : s # {} =>
              \E x \in s : Inserts(chosen)[s] = Insert(Inserts(chosen)[s \ {x}], chosen[x])
<1> DEFINE D == DOMAIN chosen
           B == Seq(Nat)
           op == [p \in D \X B |-> Insert(p[2], chosen[p[1]])]
<1>2. \E g : IsInserts(g, chosen)
  <2>1. op \in [D \X B -> B]
    <3>1. ASSUME NEW p \in D \X B PROVE Insert(p[2], chosen[p[1]]) \in B
      <4>1. PICK d \in D, b \in B : d = p[1] /\ b = p[2]
        OBVIOUS
      <4>2. chosen[d] \in Nat /\ b \in Seq(Nat)
        OBVIOUS
      <4>3. Insert(b, chosen[d]) \in Seq(Nat)
        BY <4>2, InsertPlace
      <4> QED
        BY <4>1, <4>3
    <3> HIDE DEF B, D
    <3> QED
      BY <3>1
  <2>2. <<>> \in B
    OBVIOUS
  <2>20. IsFiniteSet(D)
    OBVIOUS
  <2>3. PICK g \in [SUBSET D -> B] : IsFold(g, D, <<>>, op)
    <3> HIDE DEF op, D, B
    <3> QED
      BY <2>1, <2>2, <2>20, FoldExists
  <2>4. ASSUME NEW s \in SUBSET D
        PROVE  FoldStep(<<>>, op, g, s) =
                 IF s = {} THEN <<>>
                 ELSE Insert(g[s \ {CHOOSE x \in s : TRUE}], chosen[CHOOSE x \in s : TRUE])
    <3>1. CASE s = {}
      BY <3>1 DEF FoldStep
    <3>2. CASE s # {}
      <4>1. PICK x : x = CHOOSE y \in s : TRUE
        OBVIOUS
      <4>2. x \in D /\ g[s \ {x}] \in B
        <5>1. x \in s
          BY <3>2, <4>1
        <5>2. s \ {x} \in SUBSET D
          OBVIOUS
        <5> HIDE DEF D, B
        <5> QED
          BY <2>3, <5>1, <5>2
      <4>3. op[<<x, g[s \ {x}]>>] = Insert(g[s \ {x}], chosen[x])
        <5>1. PICK b \in B : b = g[s \ {x}]
          BY <4>2
        <5>2. <<x, b>> \in D \X B /\ <<x, b>>[1] = x /\ <<x, b>>[2] = b
          BY <4>2
        <5>3. op[<<x, b>>] = Insert(b, chosen[x])
          <6> HIDE DEF B, D
          <6> QED
            BY <5>2
        <5> HIDE DEF op, D, B
        <5> QED
          BY <5>1, <5>3
      <4>4. FoldStep(<<>>, op, g, s) = op[<<x, g[s \ {x}]>>]
        <5> HIDE DEF op, D
        <5> QED
          BY <3>2, <4>1, Zenon DEF FoldStep
      <4> HIDE DEF op, D
      <4> QED
        BY <3>2, <4>1, <4>3, <4>4, Zenon
    <3> QED
      BY <3>1, <3>2
  <2>5. [s \in SUBSET D |-> FoldStep(<<>>, op, g, s)] =
          [s \in SUBSET D |->
             IF s = {} THEN <<>>
             ELSE Insert(g[s \ {CHOOSE x \in s : TRUE}], chosen[CHOOSE x \in s : TRUE])]
    <3> HIDE DEF op, D
    <3> QED
      BY <2>4, Zenon
  <2>6. IsInserts(g, chosen)
    <3> HIDE DEF op
    <3> QED
      BY <2>3, <2>5, Zenon DEF IsFold, IsInserts
  <2> QED
    BY <2>6
<1>3. IsInserts(Inserts(chosen), chosen)
  BY <1>2, Zenon DEF Inserts
<1>4. Inserted(chosen) = Inserts(chosen)[DOMAIN chosen]
  BY Zenon DEF Inserted, FoldSeq, FoldFunction, FoldFunctionOnSet, MapThenFoldSet,
               Inserts, IsInserts
<1>5. PICK g : g = Inserts(chosen) /\ IsInserts(g, chosen)
  BY <1>3
<1>6. ASSUME NEW s \in SUBSET DOMAIN chosen
      PROVE  g[s] = IF s = {} THEN <<>>
                    ELSE Insert(g[s \ {CHOOSE x \in s : TRUE}], chosen[CHOOSE x \in s : TRUE])
  BY <1>5, Zenon DEF IsInserts
<1>7. ASSUME NEW s \in SUBSET DOMAIN chosen, s # {}
      PROVE  \E x \in s : g[s] = Insert(g[s \ {x}], chosen[x])
  <2>1. PICK x : x = CHOOSE y \in s : TRUE
    OBVIOUS
  <2>2. x \in s
    BY <1>7, <2>1
  <2>3. g[s] = Insert(g[s \ {x}], chosen[x])
    BY <1>6, <1>7, <2>1, Zenon
  <2> QED
    BY <2>2, <2>3
<1>8. g[{}] = <<>>
  BY <1>6
<1> QED
  BY <1>4, <1>5, <1>7, <1>8

(* A list of some of the chosen ordinals in ascending order                 *)
Holds(s, chosen, positions) ==
  /\ s \in Seq(Nat) /\ Rises(s) /\ Len(s) = Cardinality(positions)
  /\ Range(s) = {chosen[k] : k \in positions}

(* They come to an ascending sequence of all that was chosen.               *)
LEMMA InsertedInOrder ==
  ASSUME NEW n \in Nat, NEW chosen, DOMAIN chosen = 1 .. n,
         \A k \in 1 .. n : chosen[k] \in Nat,
         \A i, k \in 1 .. n : chosen[i] = chosen[k] => i = k
  PROVE  Holds(Inserted(chosen), chosen, 1 .. n)
<1>1. PICK D, g : D = DOMAIN chosen /\ g = Inserts(chosen)
  OBVIOUS
<1>2. D = 1 .. n /\ IsFiniteSet(D) /\ \A k \in D : chosen[k] \in Nat
  BY <1>1, FS_Interval
<1>3. /\ Inserted(chosen) = g[D] /\ g[{}] = <<>>
      /\ \A s \in SUBSET D : s # {} => \E x \in s : g[s] = Insert(g[s \ {x}], chosen[x])
  <2>1. IsFiniteSet(DOMAIN chosen) /\ \A k \in DOMAIN chosen : chosen[k] \in Nat
    BY <1>1, <1>2
  <2> QED
    BY <1>1, <2>1, InsertsFacts, Zenon
<1>4. \A s \in SUBSET D : IsFiniteSet(s) /\ Cardinality(s) \in Nat
  BY <1>2, FS_Subset, FS_CardinalityType
<1> DEFINE K == {c \in Nat : \A s \in SUBSET D : Cardinality(s) <= c => Holds(g[s], chosen, s)}
<1>5. 0 \in K
  <2>1. \A s \in SUBSET D : Cardinality(s) <= 0 => s = {}
    BY <1>4, FS_EmptySet
  <2>2. Holds(g[{}], chosen, {})
    <3>1. Cardinality({}) = 0
      BY FS_EmptySet
    <3>2. <<>> \in Seq(Nat) /\ Len(<<>>) = 0
      OBVIOUS
    <3>3. Rises(<<>>)
      BY <3>2 DEF Rises
    <3>4. Range(<<>>) = {}
      BY DEF Range
    <3> QED
      BY <1>3, <3>1, <3>2, <3>3, <3>4 DEF Holds
  <2> QED
    BY <2>1, <2>2
<1>6. ASSUME NEW c \in Nat, c \in K PROVE c + 1 \in K
  <2>1. ASSUME NEW s \in SUBSET D, Cardinality(s) <= c + 1, s # {}
        PROVE  Holds(g[s], chosen, s)
    <3>1. PICK x \in s : g[s] = Insert(g[s \ {x}], chosen[x])
      BY <1>3, <2>1
    <3>2. PICK t \in SUBSET D : t = s \ {x}
      OBVIOUS
    <3>3. Cardinality(t) = Cardinality(s) - 1
      BY <1>4, <3>2, FS_RemoveElement
    <3>4. Cardinality(t) <= c
      BY <1>4, <2>1, <3>3
    <3>5. Holds(g[t], chosen, t)
      BY <1>6, <3>4
    <3>6. PICK a, o : a = g[t] /\ o = chosen[x]
      OBVIOUS
    <3>7. /\ a \in Seq(Nat) /\ Rises(a) /\ Len(a) = Cardinality(t)
          /\ Range(a) = {chosen[k] : k \in t}
      BY <3>5, <3>6 DEF Holds
    <3>8. o \in Nat /\ o \notin Range(a)
      <4>1. x \in D /\ o \in Nat
        BY <1>2, <3>6
      <4>2. \A k \in t : k \in 1 .. n /\ k # x
        BY <1>2, <3>2
      <4>3. \A k \in t : chosen[k] # o
        BY <1>2, <3>6, <4>1, <4>2
      <4> QED
        BY <3>7, <4>1, <4>3
    <3>9. LET r == Insert(a, o)
          IN  /\ r \in Seq(Nat) /\ Rises(r) /\ Len(r) = Len(a) + 1
              /\ Range(r) = Range(a) \cup {o}
      BY <3>7, <3>8, InsertRises
    <3>10. g[s] = Insert(a, o)
      BY <3>1, <3>2, <3>6
    <3>11. {chosen[k] : k \in t} \cup {o} = {chosen[k] : k \in s}
      BY <3>2, <3>6
    <3>12. Len(a) + 1 = Cardinality(s)
      BY <1>4, <3>3, <3>7
    <3> QED
      BY <3>7, <3>9, <3>10, <3>11, <3>12 DEF Holds
  <2>2. \A s \in SUBSET D : s = {} => Cardinality(s) <= c
    <3>1. Cardinality({}) = 0
      BY FS_EmptySet
    <3> QED
      BY <3>1
  <2>3. \A s \in SUBSET D : Cardinality(s) <= c + 1 => Holds(g[s], chosen, s)
    BY <1>6, <2>1, <2>2
  <2> QED
    BY <2>3
<1>7. Cardinality(D) \in K
  <2>1. Cardinality(D) \in Nat
    BY <1>4
  <2> HIDE DEF K
  <2> QED
    BY <1>5, <1>6, <2>1, NatInd
<1>8. Holds(g[D], chosen, D)
  <2>1. D \in SUBSET D /\ Cardinality(D) <= Cardinality(D)
    BY <1>4
  <2> QED
    BY <1>7, <2>1
<1> QED
  BY <1>2, <1>3, <1>8

(* What the kernel puts in the first slots: the least ordinals, in order.   *)
LEMMA DeviceSorts ==
  ASSUME NEW N \in Nat, NEW p \in [0 .. N - 1 -> Nat], NEW count \in 0 .. N
  PROVE  Lists(Inserted(InOrderOfPriority(p, count)), Least(p, count), count)
<1>1. PICK chosen : chosen = InOrderOfPriority(p, count)
  OBVIOUS
<1>2. count \in Nat
  OBVIOUS
<1>3. /\ DOMAIN chosen = 1 .. count
      /\ \A k \in 1 .. count : chosen[k] \in Least(p, count) /\ chosen[k] \in 0 .. N - 1
      /\ \A o \in Least(p, count) : \E k \in 1 .. count : o = chosen[k]
      /\ \A i, k \in 1 .. count : chosen[i] = chosen[k] => i = k
  <2>1. ChosenInOrder(N, p, count, chosen)
    BY <1>1, InOrder
  <2> QED
    BY <2>1, ChosenAreLeast
<1>4. \A k \in 1 .. count : chosen[k] \in Nat
  BY <1>3
<1>5. PICK s : s = Inserted(chosen)
  OBVIOUS
<1>6. Holds(s, chosen, 1 .. count)
  BY <1>2, <1>3, <1>4, <1>5, InsertedInOrder
<1>7. Cardinality(1 .. count) = count
  BY <1>2, FS_Interval
<1>8. /\ s \in Seq(Nat) /\ Len(s) = count /\ DOMAIN s = 1 .. count
      /\ \A i, j \in 1 .. count : i < j => s[i] < s[j]
      /\ Range(s) = {chosen[k] : k \in 1 .. count}
  <2>1. /\ s \in Seq(Nat) /\ Len(s) = count
        /\ \A i, j \in 1 .. Len(s) : i < j => s[i] < s[j]
        /\ Range(s) = {chosen[k] : k \in 1 .. count}
    BY <1>6, <1>7 DEF Holds, Rises
  <2> QED
    BY <2>1
<1>9. {chosen[k] : k \in 1 .. count} = Least(p, count)
  BY <1>3
<1>10. Range(s) = {s[k] : k \in 1 .. count}
  BY <1>8, Zenon DEF Range
<1>11. \A k \in 1 .. count - 1 : s[k] < s[k + 1]
  <2> SUFFICES ASSUME NEW k \in 1 .. count - 1 PROVE s[k] < s[k + 1]
    OBVIOUS
  <2>1. k \in 1 .. count /\ k + 1 \in 1 .. count /\ k < k + 1
    BY <1>2
  <2> QED
    BY <1>8, <2>1
<1>12. {s[k] : k \in 1 .. count} = Least(p, count)
  BY <1>8, <1>9, <1>10, Zenon
<1> QED
  BY <1>1, <1>5, <1>11, <1>12 DEF Lists

------------------------------------------------------------------------------
\* The slots that the kernels fill

(* A slot belongs to one position and one dimension.                        *)
SlotAt(n, k, d) == (k - 1) * n + d

(* Every slot is in the storage.                                            *)
LEMMA SlotFacts ==
  ASSUME NEW n \in Nat, NEW count \in Nat, NEW k \in 1 .. count, NEW d \in 1 .. n
  PROVE  SlotAt(n, k, d) \in 1 .. count * n
<1>1. PICK j \in Nat : j = k - 1 /\ j \in 0 .. count - 1
  OBVIOUS
<1>2. n * j + (d - 1) \in 0 .. n * count - 1
  <2>1. d - 1 \in 0 .. n - 1
    OBVIOUS
  <2> QED
    BY <1>1, <2>1, HornerBelow
<1>3. n * j = j * n /\ n * count = count * n /\ j * n \in Nat /\ count * n \in Nat
  OBVIOUS
<1>4. SlotAt(n, k, d) = j * n + d
  BY <1>1 DEF SlotAt
<1>5. PICK x \in Nat, y \in Nat : x = j * n /\ y = count * n
  BY <1>3
<1>6. x + (d - 1) \in 0 .. y - 1
  BY <1>2, <1>3, <1>5
<1> QED
  BY <1>4, <1>5, <1>6

(* No two positions or dimensions share a slot.                             *)
LEMMA SlotOnce ==
  ASSUME NEW n \in Nat, NEW count \in Nat, NEW i \in 1 .. count, NEW c \in 1 .. n,
         NEW k \in 1 .. count, NEW d \in 1 .. n, SlotAt(n, i, c) = SlotAt(n, k, d)
  PROVE  i = k /\ c = d
<1>1. n > 0 /\ n \in Nat
  OBVIOUS
<1>2. ASSUME NEW j \in 1 .. count, NEW b \in 1 .. n
      PROVE  /\ (SlotAt(n, j, b) - 1) % n = b - 1
             /\ (SlotAt(n, j, b) - 1) \div n = j - 1
  <2>1. PICK q \in Int, r \in 0 .. n - 1 : q = j - 1 /\ r = b - 1
    OBVIOUS
  <2>2. (n * q + r) % n = r /\ (n * q + r) \div n = q
    BY <1>1, Unique
  <2>3. SlotAt(n, j, b) - 1 = n * q + r
    <3>1. q * n = n * q /\ q * n \in Int
      OBVIOUS
    <3>2. SlotAt(n, j, b) = q * n + b
      BY <2>1 DEF SlotAt
    <3>3. PICK x \in Int : x = q * n
      BY <3>1
    <3> QED
      BY <2>1, <3>1, <3>2, <3>3
  <2> QED
    BY <2>1, <2>2, <2>3
<1>3. /\ (SlotAt(n, i, c) - 1) % n = c - 1 /\ (SlotAt(n, i, c) - 1) \div n = i - 1
      /\ (SlotAt(n, k, d) - 1) % n = d - 1 /\ (SlotAt(n, k, d) - 1) \div n = k - 1
  BY <1>2
<1>4. c - 1 = d - 1 /\ i - 1 = k - 1
  BY <1>3
<1> QED
  BY <1>4

(* What a kernel puts into the slots of one dimension                       *)
IsSelected(new, a, n, count, sorted) ==
  new = [slot \in DOMAIN a |->
           IF \E k \in 1 .. count : slot = SlotAt(n, k, 1)
           THEN sorted[CHOOSE k \in 1 .. count : slot = SlotAt(n, k, 1)]
           ELSE a[slot]]

IsDecoded(new, a, n, count, d, divisor, extent) ==
  new = [slot \in DOMAIN a |->
           IF \E k \in 1 .. count : slot = SlotAt(n, k, d)
           THEN (a[slot - d + 1] \div divisor) % extent
           ELSE a[slot]]

(* SelectCanonicalOrdinals() writes the first slot of each position.        *)
LEMMA SelectedSlots ==
  ASSUME NEW n \in Nat, n > 0, NEW count \in Nat, NEW a, DOMAIN a = 1 .. count * n,
         NEW sorted, NEW new, IsSelected(new, a, n, count, sorted)
  PROVE  /\ DOMAIN new = 1 .. count * n
         /\ \A k \in 1 .. count : new[SlotAt(n, k, 1)] = sorted[k]
<1>1. ASSUME NEW k \in 1 .. count
      PROVE  new[SlotAt(n, k, 1)] = sorted[k]
  <2>1. ASSUME NEW d \in 1 .. n
        PROVE  /\ SlotAt(n, k, d) \in DOMAIN a
               /\ \A i \in 1 .. count : SlotAt(n, i, d) = SlotAt(n, k, d) => i = k
    <3>1. SlotAt(n, k, d) \in DOMAIN a
      BY SlotFacts
    <3>2. ASSUME NEW i \in 1 .. count, SlotAt(n, i, d) = SlotAt(n, k, d)
          PROVE  i = k
      BY <3>2, SlotOnce
    <3> QED
      BY <3>1, <3>2
  <2>2. /\ SlotAt(n, k, 1) \in DOMAIN a
        /\ \A i \in 1 .. count : SlotAt(n, i, 1) = SlotAt(n, k, 1) => i = k
    <3>1. 1 \in 1 .. n
      OBVIOUS
    <3> QED
      BY <2>1, <3>1
  <2>3. PICK slot : slot = SlotAt(n, k, 1)
    OBVIOUS
  <2>4. (CHOOSE i \in 1 .. count : slot = SlotAt(n, i, 1)) = k
    BY <2>2, <2>3
  <2>5. new[slot] = sorted[CHOOSE i \in 1 .. count : slot = SlotAt(n, i, 1)]
    BY <2>2, <2>3, Zenon DEF IsSelected
  <2> QED
    BY <2>3, <2>4, <2>5
<1> QED
  BY <1>1 DEF IsSelected

IsWritten(new, a, n, count, d, divisor, extent) ==
  /\ DOMAIN new = 1 .. count * n
  /\ \A k \in 1 .. count :
       /\ new[SlotAt(n, k, d)] = (a[SlotAt(n, k, 1)] \div divisor) % extent
       /\ \A c \in 1 .. n : c # d => new[SlotAt(n, k, c)] = a[SlotAt(n, k, c)]

(* DecodeCoordinateDimension() writes one slot of each position and keeps the others. *)
LEMMA DecodedSlots ==
  ASSUME NEW n \in Nat, NEW count \in Nat, NEW a, DOMAIN a = 1 .. count * n,
         NEW d \in 1 .. n, NEW divisor, NEW extent,
         NEW new, IsDecoded(new, a, n, count, d, divisor, extent)
  PROVE  IsWritten(new, a, n, count, d, divisor, extent)
<1>1. ASSUME NEW k \in 1 .. count
      PROVE  new[SlotAt(n, k, d)] = (a[SlotAt(n, k, 1)] \div divisor) % extent
  <2>1. SlotAt(n, k, d) \in DOMAIN a
    BY SlotFacts
  <2>2. PICK slot : slot = SlotAt(n, k, d)
    OBVIOUS
  <2>3. slot - d + 1 = SlotAt(n, k, 1)
    <3>1. PICK x \in Int : x = (k - 1) * n
      OBVIOUS
    <3>2. slot = x + d /\ SlotAt(n, k, 1) = x + 1
      BY <2>2, <3>1 DEF SlotAt
    <3> QED
      BY <3>2
  <2>4. new[slot] = (a[slot - d + 1] \div divisor) % extent
    BY <2>1, <2>2, Zenon DEF IsDecoded
  <2> QED
    BY <2>2, <2>3, <2>4, Zenon
<1>2. ASSUME NEW k \in 1 .. count, NEW c \in 1 .. n, c # d
      PROVE  new[SlotAt(n, k, c)] = a[SlotAt(n, k, c)]
  <2>1. SlotAt(n, k, c) \in DOMAIN a
    BY SlotFacts
  <2>2. PICK slot : slot = SlotAt(n, k, c)
    OBVIOUS
  <2>3. ~\E i \in 1 .. count : slot = SlotAt(n, i, d)
    <3>1. ASSUME NEW i \in 1 .. count, SlotAt(n, i, d) = SlotAt(n, k, c)
          PROVE  FALSE
      BY <1>2, <3>1, SlotOnce
    <3> QED
      BY <2>2, <3>1
  <2> QED
    BY <2>1, <2>2, <2>3, Zenon DEF IsDecoded
<1> QED
  BY <1>1, <1>2 DEF IsDecoded, IsWritten

(* The slots of the dimensions after low hold the digits of the chosen      *)
(* ordinals; as long as a dimension is left, the first one's hold the       *)
(* ordinals.                                                                *)
Decoding(extents, sorted, count, a, low) ==
  \A k \in 1 .. count :
    /\ low > 0 => a[SlotAt(Len(extents), k, 1)] = sorted[k]
    /\ \A d \in low + 1 .. Len(extents) :
         a[SlotAt(Len(extents), k, d)] = CoordinateFromOrdinal(sorted[k], extents)[d]

DecodeReady(extents, sorted, count, a, low) ==
  /\ \A k \in 1 .. count : sorted[k] \in Ordinals(extents)
  /\ DOMAIN a = 1 .. count * Len(extents)
  /\ Decoding(extents, sorted, count, a, low)

Decodes(new, a, extents, count, d) ==
  IsDecoded(new, a, Len(extents), count, d, Suffix(extents, d), extents[d])

(* A decoded dimension holds its digits, and the divisor is the next weight. *)
LEMMA DecodingStep ==
  ASSUME NEW extents \in Seq(Nat), NEW count \in Nat, NEW sorted, NEW a,
         NEW d \in 1 .. Len(extents), DecodeReady(extents, sorted, count, a, d),
         NEW new, Decodes(new, a, extents, count, d)
  PROVE  /\ DecodeReady(extents, sorted, count, new, d - 1)
         /\ Suffix(extents, d) * extents[d] = Suffix(extents, d - 1)
<1>0. PICK divisor : divisor = Suffix(extents, d)
  OBVIOUS
<1>01. /\ \A k \in 1 .. count : sorted[k] \in Ordinals(extents)
       /\ DOMAIN a = 1 .. count * Len(extents)
       /\ Decoding(extents, sorted, count, a, d)
       /\ IsDecoded(new, a, Len(extents), count, d, divisor, extents[d])
  BY <1>0 DEF DecodeReady, Decodes
<1>1. PICK n \in Nat : n = Len(extents)
  OBVIOUS
<1>2. d \in 1 .. n
  BY <1>1
<1>3. \A k \in 1 .. count :
        /\ d > 0 => a[SlotAt(n, k, 1)] = sorted[k]
        /\ \A c \in d + 1 .. n :
             a[SlotAt(n, k, c)] = CoordinateFromOrdinal(sorted[k], extents)[c]
  BY <1>01, <1>1 DEF Decoding
<1>4. /\ DOMAIN new = 1 .. count * n
      /\ \A k \in 1 .. count :
           /\ new[SlotAt(n, k, d)] = (a[SlotAt(n, k, 1)] \div divisor) % extents[d]
           /\ \A c \in 1 .. n : c # d => new[SlotAt(n, k, c)] = a[SlotAt(n, k, c)]
  <2>1. DOMAIN a = 1 .. count * n /\ IsDecoded(new, a, n, count, d, divisor, extents[d])
    BY <1>01, <1>1
  <2>2. IsWritten(new, a, n, count, d, divisor, extents[d])
    BY <1>2, <2>1, DecodedSlots
  <2> QED
    BY <2>2 DEF IsWritten
<1>6. ASSUME NEW k \in 1 .. count
      PROVE  new[SlotAt(n, k, d)] = CoordinateFromOrdinal(sorted[k], extents)[d]
  <2>1. PICK o \in Ordinals(extents) : o = sorted[k]
    BY <1>01
  <2>2. PICK q : /\ CoordinateFromOrdinal(o, extents) =
                      [c \in 1 .. Len(extents) |-> q[c] % extents[c]]
                 /\ \A c \in 1 .. Len(extents) : q[c] = o \div Suffix(extents, c)
    BY CoordinateDigits
  <2>3. CoordinateFromOrdinal(o, extents)[d] = (o \div Suffix(extents, d)) % extents[d]
    <3>1. CoordinateFromOrdinal(o, extents)[d] = q[d] % extents[d]
      BY <2>2, Zenon
    <3>2. q[d] = o \div Suffix(extents, d)
      BY <2>2
    <3> QED
      BY <3>1, <3>2, Zenon
  <2>4. a[SlotAt(n, k, 1)] = o
    BY <1>2, <1>3, <2>1
  <2>5. new[SlotAt(n, k, d)] = (a[SlotAt(n, k, 1)] \div divisor) % extents[d]
    BY <1>4
  <2> QED
    BY <1>0, <2>1, <2>3, <2>4, <2>5, Zenon
<1>7. ASSUME NEW k \in 1 .. count, NEW c \in d - 1 + 1 .. n
      PROVE  new[SlotAt(n, k, c)] = CoordinateFromOrdinal(sorted[k], extents)[c]
  <2>1. CASE c = d
    BY <1>6, <2>1
  <2>2. CASE c # d
    <3>1. c \in 1 .. n /\ c \in d + 1 .. n
      BY <1>2, <2>2
    <3> QED
      BY <1>3, <1>4, <2>2, <3>1
  <2> QED
    BY <2>1, <2>2
<1>8. ASSUME NEW k \in 1 .. count, d - 1 > 0
      PROVE  new[SlotAt(n, k, 1)] = sorted[k]
  <2>1. 1 \in 1 .. n /\ 1 # d /\ d > 0
    BY <1>2, <1>8
  <2>2. new[SlotAt(n, k, 1)] = a[SlotAt(n, k, 1)]
    BY <1>4, <2>1
  <2> QED
    BY <1>3, <2>1, <2>2
<1>9. Decoding(extents, sorted, count, new, d - 1)
  BY <1>1, <1>7, <1>8 DEF Decoding
<1>10. Suffix(extents, d) * extents[d] = Suffix(extents, d - 1)
  <2>1. /\ Suffix(extents, d) \in Nat /\ Suffix(extents, d - 1) = extents[d] * Suffix(extents, d)
    <3>1. d \in 0 .. Len(extents)
      BY <1>1, <1>2
    <3> QED
      BY <3>1, WeightFacts
  <2>2. extents[d] \in Nat
    OBVIOUS
  <2> QED
    BY <2>1, <2>2
<1> QED
  BY <1>01, <1>1, <1>4, <1>9, <1>10 DEF DecodeReady

------------------------------------------------------------------------------
\* Words: each is drawn for one element

(* The extents of a shape, and of a view, have a natural product.           *)
LEMMA ShapeIsSequence ==
  ASSUME NEW extents \in Shapes
  PROVE  extents \in Seq(Nat) /\ LogicalSize(extents) \in Nat /\ Len(extents) \in Nat
<1>1. extents \in Seq(Nat)
  BY SizeAssumption
<1> QED
  BY <1>1, WeightFacts

LEMMA LayoutIsSequence ==
  ASSUME NEW layout \in Layouts
  PROVE  layout.extents \in Seq(Nat) /\ LogicalSize(layout.extents) \in Nat
<1>1. layout.extents \in Seq(Nat)
  BY SizeAssumption
<1> QED
  BY <1>1, WeightFacts

Pending == call.phase \in {"select", "decode", "fill"}

Selecting == call.phase = "select"

(* The words of the domain below this offset have been drawn or skipped. *)
DrawnTo(d) ==
  IF Selecting /\ d = call.structure THEN call.start
  ELSE IF Pending /\ d = call.value THEN call.first
  ELSE next[d]

Spent(d, offset) == drawn[d][offset] + skipped[d][offset]

Bags == [Domains -> [Offsets -> Nat]]

TypeOK ==
  /\ next \in [Domains -> Offsets]
  /\ drawn \in Bags /\ skipped \in Bags
  /\ "phase" \in DOMAIN call

(* What the queued kernels will draw is what the call has counted. *)
QueuedWords ==
  /\ Pending =>
       /\ {"value", "first", "count", "width"} \subseteq DOMAIN call
       /\ call.value \in Domains /\ call.first \in Offsets
       /\ call.count \in Nat /\ call.width \in {1, 2}
       /\ next[call.value] = call.first + call.count * call.width
  /\ Selecting =>
       /\ {"structure", "start", "extents"} \subseteq DOMAIN call
       /\ call.structure \in Domains /\ call.structure # call.value
       /\ call.start \in Offsets /\ LogicalSize(call.extents) \in Nat
       /\ next[call.structure] = call.start + LogicalSize(call.extents) * 2

DrawnBelow ==
  \A d \in Domains, offset \in Offsets :
    Spent(d, offset) = IF offset < DrawnTo(d) THEN 1 ELSE 0

IInv == TypeOK /\ QueuedWords /\ DrawnBelow

(* Words that fit do not wrap around. *)
LEMMA NoWrap ==
  ASSUME NEW x \in Nat, NEW n \in Nat, x < n
  PROVE  x % n = x
OBVIOUS

LEMMA AdvancedFits ==
  ASSUME NEW offset \in Offsets, NEW words \in Nat, Fits(offset, words)
  PROVE  Advanced(offset, words) = offset + words /\ offset + words \in Offsets
<1>1. LastOffset \in Nat
  BY SizeAssumption
<1>2. offset + words * 1 + 0 = offset + words /\ offset + words \in Nat
      /\ offset + words < LastOffset + 1
  BY <1>1 DEF Offsets, Fits
<1>3. (offset + words) % (LastOffset + 1) = offset + words
  BY <1>1, <1>2, NoWrap
<1> QED
  BY <1>1, <1>2, <1>3 DEF Advanced, WordOf, Offsets

LEMMA Halves ==
  ASSUME NEW n \in Int
  PROVE  \E q \in Int : n = 2 * q \/ n = 2 * q + 1
<1>1. n \div 2 \in Int /\ (n = 2 * (n \div 2) \/ n = 2 * (n \div 2) + 1)
  OBVIOUS
<1> QED
  BY <1>1

(* An element of the call draws the offset if, and only if, it is in the   *)
(* window, and no two do.                                                  *)
Takers(first, elements, width, offset) ==
  {e \in 0 .. elements - 1 : \E w \in 0 .. width - 1 : WordOf(first, e, width, w) = offset}

LEMMA OneTaker ==
  ASSUME NEW first \in Offsets, NEW elements \in Nat, NEW width \in {1, 2},
         NEW words \in Nat, words = elements * width, Fits(first, words),
         NEW offset \in Offsets
  PROVE  Cardinality(Takers(first, elements, width, offset)) =
           IF first <= offset /\ offset < first + words THEN 1 ELSE 0
<1>1. LastOffset \in Nat /\ first \in Nat /\ offset \in Nat
      /\ first + elements * width <= LastOffset
  BY SizeAssumption DEF Offsets, Fits
<1>2. ASSUME NEW e \in 0 .. elements - 1, NEW w \in 0 .. width - 1
      PROVE  WordOf(first, e, width, w) = first + e * width + w
  <2>1. first + e * width + w \in Nat /\ first + e * width + w < LastOffset + 1
    <3>1. CASE width = 1
      BY <1>1, <3>1
    <3>2. CASE width = 2
      BY <1>1, <3>2
    <3> QED
      BY <3>1, <3>2
  <2> QED
    BY <1>1, <2>1, NoWrap DEF WordOf
<1>3. CASE ~(first <= offset /\ offset < first + words)
  <2>1. ASSUME NEW e \in 0 .. elements - 1, NEW w \in 0 .. width - 1
        PROVE  first + e * width + w # offset
    <3>1. CASE width = 1
      BY <1>1, <1>3, <3>1
    <3>2. CASE width = 2
      BY <1>1, <1>3, <3>2
    <3> QED
      BY <3>1, <3>2
  <2>2. Takers(first, elements, width, offset) = {}
    BY <1>2, <2>1 DEF Takers
  <2> QED
    BY <1>3, <2>2, FS_EmptySet
<1>4. CASE first <= offset /\ offset < first + words
  <2>1. PICK q \in 0 .. elements - 1 :
          \A e \in 0 .. elements - 1 :
            (\E w \in 0 .. width - 1 : first + e * width + w = offset) <=> e = q
    <3>1. CASE width = 1
      <4>1. offset - first \in 0 .. elements - 1
        BY <1>1, <1>4, <3>1
      <4>2. \A e \in 0 .. elements - 1 :
              (\E w \in 0 .. width - 1 : first + e * width + w = offset) <=> e = offset - first
        BY <1>1, <3>1
      <4> QED
        BY <4>1, <4>2
    <3>2. CASE width = 2
      <4>1. PICK q \in Int : offset - first = 2 * q \/ offset - first = 2 * q + 1
        <5>1. PICK n \in Int : n = offset - first
          BY <1>1
        <5>2. \E q \in Int : n = 2 * q \/ n = 2 * q + 1
          BY Halves
        <5> QED
          BY <5>1, <5>2
      <4>2. q \in 0 .. elements - 1
        BY <1>1, <1>4, <3>2, <4>1
      <4>3. ASSUME NEW e \in 0 .. elements - 1
            PROVE  (\E w \in 0 .. width - 1 : first + e * width + w = offset) <=> e = q
        <5>1. ASSUME NEW w \in 0 .. width - 1, first + e * width + w = offset
              PROVE  e = q
          BY <1>1, <3>2, <4>1, <4>2, <5>1
        <5>2. ASSUME e = q
              PROVE  \E w \in 0 .. width - 1 : first + e * width + w = offset
          <6>1. CASE offset - first = 2 * q
            <7>1. 0 \in 0 .. width - 1 /\ first + e * width + 0 = offset
              BY <1>1, <3>2, <5>2, <6>1
            <7> QED
              BY <7>1
          <6>2. CASE offset - first = 2 * q + 1
            <7>1. 1 \in 0 .. width - 1 /\ first + e * width + 1 = offset
              BY <1>1, <3>2, <5>2, <6>2
            <7> QED
              BY <7>1
          <6> QED
            BY <4>1, <6>1, <6>2
        <5> QED
          BY <5>1, <5>2
      <4> QED
        BY <4>2, <4>3
    <3> QED
      BY <3>1, <3>2
  <2>2. Takers(first, elements, width, offset) = {q}
    BY <1>2, <2>1 DEF Takers
  <2> QED
    BY <1>4, <2>2, FS_Singleton
<1> QED
  BY <1>3, <1>4

(* So many words in all; hidden where it is only passed on *)
Take(elements, width, words) == words = elements * width

LEMMA DrawsItsWindow ==
  ASSUME NEW bag \in Bags, NEW domain \in Domains,
         NEW first \in Offsets, NEW elements \in Nat, NEW width \in {1, 2},
         NEW words \in Nat, Take(elements, width, words), Fits(first, words)
  PROVE  /\ Draw(bag, domain, first, elements, width) \in Bags
         /\ \A d \in Domains, offset \in Offsets :
              Draw(bag, domain, first, elements, width)[d][offset] =
                bag[d][offset] +
                  IF d = domain /\ first <= offset /\ offset < first + words THEN 1 ELSE 0
<1> DEFINE new == [offset \in Offsets |->
                     bag[domain][offset] + Cardinality(Takers(first, elements, width, offset))]
<1>1. Draw(bag, domain, first, elements, width) = [bag EXCEPT ![domain] = new]
  BY DEF Draw, Quantify, Takers
<1>2. \A offset \in Offsets :
        new[offset] = bag[domain][offset] +
          IF first <= offset /\ offset < first + words THEN 1 ELSE 0
  BY OneTaker DEF Take
<1>3. new \in [Offsets -> Nat]
  <2>1. \A offset \in Offsets : bag[domain][offset] \in Nat
    BY DEF Bags
  <2>2. \A offset \in Offsets : new[offset] \in Nat
    BY <1>2, <2>1
  <2> QED
    BY <2>2
<1> HIDE DEF new
<1>4. \A d \in Domains : [bag EXCEPT ![domain] = new][d] = IF d = domain THEN new ELSE bag[d]
  BY DEF Bags
<1>5. ASSUME NEW d \in Domains, NEW offset \in Offsets
      PROVE  [bag EXCEPT ![domain] = new][d][offset] =
               bag[d][offset] +
                 IF d = domain /\ first <= offset /\ offset < first + words THEN 1 ELSE 0
  <2>1. bag[d][offset] \in Nat
    BY DEF Bags
  <2>2. CASE d = domain
    BY <1>2, <1>4, <2>2
  <2>3. CASE d # domain
    BY <1>4, <2>1, <2>3
  <2> QED
    BY <2>2, <2>3
<1>6. [bag EXCEPT ![domain] = new] \in Bags
  BY <1>3 DEF Bags
<1> QED
  BY <1>1, <1>5, <1>6

(* Between calls every word below the offset reached is spent, none beyond. *)
LEMMA SpentWhenIdle ==
  ASSUME IInv, ~Pending, NEW d \in Domains, NEW offset \in Offsets
  PROVE  \E before \in Nat, idle \in Nat :
           /\ before = drawn[d][offset] /\ idle = skipped[d][offset]
           /\ next[d] \in Nat /\ offset \in Nat
           /\ before + idle = IF offset < next[d] THEN 1 ELSE 0
<1>1. PICK before \in Nat, idle \in Nat :
        before = drawn[d][offset] /\ idle = skipped[d][offset]
  BY DEF IInv, TypeOK, Bags
<1>2. ~Selecting
  BY DEF Selecting, Pending
<1>3. /\ before + idle = IF offset < next[d] THEN 1 ELSE 0
      /\ next[d] \in Nat /\ offset \in Nat
  BY <1>1, <1>2 DEF IInv, TypeOK, DrawnBelow, DrawnTo, Spent, Offsets
<1> QED
  BY <1>1, <1>3

(* A window counted from the offset reached moves that offset to its end. *)
LEMMA WindowSpent ==
  ASSUME NEW before \in Nat, NEW idle \in Nat, NEW offset \in Nat,
         NEW start \in Nat, NEW words \in Nat,
         before + idle = IF offset < start THEN 1 ELSE 0
  PROVE  LET one == IF start <= offset /\ offset < start + words THEN 1 ELSE 0
         IN /\ (before + one) + idle = IF offset < start + words THEN 1 ELSE 0
            /\ before + (idle + one) = IF offset < start + words THEN 1 ELSE 0
<1>1. CASE offset < start
  BY <1>1
<1>2. CASE start <= offset /\ offset < start + words
  BY <1>2
<1>3. CASE start <= offset /\ ~(offset < start + words)
  BY <1>3
<1> QED
  BY <1>1, <1>2, <1>3

LEMMA DrawStep ==
  ASSUME IInv, NEW domain \in Domains, NEW elements \in Nat, NEW width \in {1, 2},
         NEW words \in Nat, Take(elements, width, words), Fits(next[domain], words),
         ~Pending, ~Pending', "phase" \in DOMAIN call',
         next' = [next EXCEPT ![domain] = Advanced(@, words)],
         drawn' = Draw(drawn, domain, next[domain], elements, width),
         skipped' = skipped
  PROVE  IInv'
<1>1. next[domain] \in Offsets /\ drawn \in Bags
  BY DEF IInv, TypeOK
<1>2. /\ next'[domain] = next[domain] + words /\ next'[domain] \in Offsets
      /\ \A d \in Domains : d # domain => next'[d] = next[d]
      /\ next' \in [Domains -> Offsets]
  <2>1. /\ Advanced(next[domain], words) = next[domain] + words
        /\ next[domain] + words \in Offsets
    BY <1>1, AdvancedFits
  <2> QED
    BY <2>1 DEF IInv, TypeOK
<1>3. /\ drawn' \in Bags
      /\ \A d \in Domains, offset \in Offsets :
           drawn'[d][offset] = drawn[d][offset] +
             IF d = domain /\ next[domain] <= offset /\ offset < next[domain] + words
             THEN 1 ELSE 0
  BY <1>1, DrawsItsWindow
<1>4. ASSUME NEW d \in Domains, NEW offset \in Offsets
      PROVE  Spent(d, offset)' = IF offset < next'[d] THEN 1 ELSE 0
  <2>1. PICK before \in Nat, idle \in Nat :
          /\ before = drawn[d][offset] /\ idle = skipped[d][offset]
          /\ next[d] \in Nat /\ offset \in Nat
          /\ before + idle = IF offset < next[d] THEN 1 ELSE 0
    BY SpentWhenIdle
  <2>10. Spent(d, offset)' = drawn'[d][offset] + idle
    BY <2>1 DEF Spent
  <2>2. CASE d = domain
    <3>1. drawn'[d][offset] =
            before + IF next[d] <= offset /\ offset < next[d] + words THEN 1 ELSE 0
      BY <1>3, <2>1, <2>2
    <3> QED
      BY <1>2, <2>1, <2>10, <2>2, <3>1, WindowSpent
  <2>3. CASE d # domain
    BY <1>2, <1>3, <2>1, <2>10, <2>3
  <2> QED
    BY <2>2, <2>3
<1> QED
  BY <1>2, <1>3, <1>4
  DEF IInv, TypeOK, QueuedWords, DrawnBelow, DrawnTo, Selecting, Pending

(* A call that is not accepted *)
LEMMA KeptStep ==
  ASSUME IInv, ~Pending, ~Pending', UNCHANGED <<next, drawn, skipped>>,
         "phase" \in DOMAIN call'
  PROVE  IInv'
BY DEF IInv, TypeOK, QueuedWords, DrawnBelow, DrawnTo, Spent, Selecting, Pending

LEMMA NoCallIsNotPending ==
  ASSUME NEW status, call' = NoCall(status)
  PROVE  ~Pending' /\ "phase" \in DOMAIN call'
BY DEF NoCall, Pending

LEMMA RefuseStep ==
  ASSUME IInv, call.phase = "idle", NEW status, Refuse(status)
  PROVE  IInv'
<1>1. ~Pending
  BY DEF Pending
<1> QED
  BY <1>1, KeptStep, NoCallIsNotPending DEF Refuse

LEMMA FillStep ==
  ASSUME IInv, call.phase = "idle", NEW domain \in Domains, NEW width \in {1, 2},
         \/ \E elements \in 0 .. 3 : FillWords(domain, elements, width)
         \/ \E layout \in Layouts : FillDenseUniform01(domain, layout, width)
  PROVE  IInv'
<1>1. ~Pending
  BY DEF Pending
<1>2. ASSUME NEW elements \in 0 .. 3, FillWords(domain, elements, width) PROVE IInv'
  <2>1. CASE Refuse("kOverflow")
    BY <2>1, RefuseStep
  <2>2. CASE ~Refuse("kOverflow")
    <3>1. PICK words \in Nat : words = elements * width
      OBVIOUS
    <3>2. Take(elements, width, words)
      BY <3>1 DEF Take
    <3>3. /\ Fits(next[domain], words)
          /\ next' = [next EXCEPT ![domain] = Advanced(@, words)]
          /\ drawn' = Draw(drawn, domain, next[domain], elements, width)
          /\ call' = NoCall("kOk") /\ skipped' = skipped
      BY <1>2, <2>2, <3>1 DEF FillWords
    <3>4. ~Pending' /\ "phase" \in DOMAIN call'
      BY <3>3, NoCallIsNotPending
    <3>5. elements \in Nat
      OBVIOUS
    <3> QED
      BY <1>1, <3>2, <3>3, <3>4, <3>5, DrawStep
  <2> QED
    BY <2>1, <2>2
<1>3. ASSUME NEW layout \in Layouts, FillDenseUniform01(domain, layout, width) PROVE IInv'
  <2>1. CASE Refuse("kOverflow")
    BY <2>1, RefuseStep
  <2>2. CASE ~Refuse("kOverflow")
    <3>1. PICK elements \in Nat : elements = LogicalSize(layout.extents)
      BY LayoutIsSequence
    <3>0. PICK words \in Nat : words = elements * width
      OBVIOUS
    <3>01. Take(elements, width, words)
      BY <3>0 DEF Take
    <3>2. /\ Fits(next[domain], words)
          /\ next' = [next EXCEPT ![domain] = Advanced(@, words)]
          /\ drawn' = Draw(drawn, domain, next[domain], elements, width)
          /\ skipped' = skipped
      BY <1>3, <2>2, <3>0, <3>1 DEF FillDenseUniform01
    <3>3. call' = [kind |-> "dense", phase |-> "done", status |-> "kOk",
                   layout |-> layout, width |-> width, first |-> next[domain]]
      BY <1>3, <2>2 DEF FillDenseUniform01
    <3>4. ~Pending' /\ "phase" \in DOMAIN call'
      BY <3>3 DEF Pending
    <3> QED
      BY <1>1, <3>01, <3>2, <3>4, DrawStep
  <2> QED
    BY <2>1, <2>2
<1> QED
  BY <1>2, <1>3

(* The words that a sparse call draws for its structure, two at a time *)
LEMMA StructureFits ==
  ASSUME NEW extents \in Shapes, NEW count
  PROVE  /\ StructureWords(extents, count) \in Nat
         /\ StructureWords(extents, count) \div 2 \in Nat
         /\ (StructureWords(extents, count) \div 2) * 2 = StructureWords(extents, count)
<1>1. LogicalSize(extents) \in Nat
  BY ShapeIsSequence
<1>2. CASE count = 0
  BY <1>2 DEF StructureWords
<1>3. CASE count # 0
  <2>1. PICK n \in Nat : StructureWords(extents, count) = 2 * n
    BY <1>1, <1>3 DEF StructureWords
  <2>2. (2 * n) \div 2 = n
    OBVIOUS
  <2> QED
    BY <2>1, <2>2
<1> QED
  BY <1>2, <1>3

(* What both facets do with the offsets *)
LEMMA SparseAdvances ==
  ASSUME IInv, NEW extents \in Shapes, NEW width \in {1, 2},
         NEW structure \in Domains, NEW value \in Domains,
         NEW count \in -1 .. LogicalSize(extents) + 1,
         NEW own \in Int, Take(count, width, own),
         SparseStatus(extents, count, width, structure, value) = "kOk",
         AdvanceBoth(extents, count, width, structure, value)
  PROVE  /\ count \in Nat /\ own \in Nat /\ structure # value
         /\ next[structure] \in Offsets /\ next[value] \in Offsets
         /\ Fits(next[structure], StructureWords(extents, count)) /\ Fits(next[value], own)
         /\ next' \in [Domains -> Offsets]
         /\ next'[structure] = next[structure] + StructureWords(extents, count)
         /\ next'[value] = next[value] + own
         /\ \A d \in Domains : d # structure /\ d # value => next'[d] = next[d]
<1>1. /\ count \in Nat /\ structure # value
      /\ Fits(next[structure], StructureWords(extents, count))
      /\ Fits(next[value], own)
  <2>1. LogicalSize(extents) \in Nat
    BY ShapeIsSequence
  <2> QED
    BY <2>1 DEF SparseStatus, Take
<1>2. own \in Nat
  BY <1>1 DEF Take
<1>3. PICK words \in Nat : words = StructureWords(extents, count)
  BY StructureFits
<1>4. /\ next \in [Domains -> Offsets] /\ next[structure] \in Offsets
      /\ next[value] \in Offsets
  BY DEF IInv, TypeOK
<1>5. /\ Advanced(next[structure], words) = next[structure] + words
      /\ next[structure] + words \in Offsets
      /\ Advanced(next[value], own) = next[value] + own /\ next[value] + own \in Offsets
  BY <1>1, <1>2, <1>3, <1>4, AdvancedFits
<1>6. next' = [next EXCEPT ![structure] = next[structure] + words, ![value] = next[value] + own]
  <2>1. next' = [next EXCEPT ![structure] = Advanced(@, words), ![value] = Advanced(@, own)]
    BY <1>3 DEF AdvanceBoth, Take
  <2> QED
    BY <1>1, <1>4, <1>5, <2>1
<1>7. /\ next' \in [Domains -> Offsets] /\ next'[value] = next[value] + own
      /\ next'[structure] = next[structure] + words
      /\ \A d \in Domains : d # structure /\ d # value => next'[d] = next[d]
  BY <1>1, <1>4, <1>5, <1>6
<1> QED
  BY <1>1, <1>2, <1>3, <1>4, <1>7

(* The window of the structure is counted where a facet counts it. *)
LEMMA StructureWindow ==
  ASSUME NEW bag \in Bags, NEW extents \in Shapes, NEW count, NEW structure \in Domains,
         NEW start \in Offsets, start = next[structure],
         NEW words, words = StructureWords(extents, count), Fits(start, words)
  PROVE  /\ DrawStructure(bag, extents, count, structure) \in Bags
         /\ \A d \in Domains, offset \in Offsets :
              DrawStructure(bag, extents, count, structure)[d][offset] = bag[d][offset] +
                IF d = structure /\ start <= offset /\ offset < start + words THEN 1 ELSE 0
<1>1. PICK pairs \in Nat : pairs = words \div 2 /\ pairs * 2 = words /\ words \in Nat
  BY StructureFits
<1>2. DrawStructure(bag, extents, count, structure) = Draw(bag, structure, start, pairs, 2)
  BY <1>1 DEF DrawStructure
<1>3. Take(pairs, 2, words)
  BY <1>1 DEF Take
<1> QED
  BY <1>1, <1>2, <1>3, DrawsItsWindow

LEMMA HostStep ==
  ASSUME IInv, call.phase = "idle", NEW extents \in Shapes, NEW width \in {1, 2},
         NEW structure \in Domains, NEW value \in Domains,
         NEW count \in -1 .. LogicalSize(extents) + 1,
         GenerateSparseUniform01(extents, count, width, structure, value)
  PROVE  IInv'
<1>1. ~Pending
  BY DEF Pending
<1>2. CASE Refuse(SparseStatus(extents, count, width, structure, value))
  BY <1>2, RefuseStep
<1>3. CASE ~Refuse(SparseStatus(extents, count, width, structure, value))
  <2>1. /\ SparseStatus(extents, count, width, structure, value) = "kOk"
        /\ AdvanceBoth(extents, count, width, structure, value)
        /\ drawn' = Draw(DrawStructure(drawn, extents, count, structure),
                         value, next[value], count, width)
        /\ skipped' = skipped
    BY <1>3 DEF GenerateSparseUniform01
  <2>2. ~Pending' /\ ~Selecting' /\ "phase" \in DOMAIN call'
    BY <1>3 DEF GenerateSparseUniform01, SparseCall, Pending, Selecting
  <2>3. PICK own \in Int : own = count * width
    <3>1. LogicalSize(extents) \in Nat
      BY ShapeIsSequence
    <3> QED
      BY <3>1
  <2>31. Take(count, width, own)
    BY <2>3 DEF Take
  <2>32. PICK words \in Nat : words = StructureWords(extents, count)
    BY StructureFits
  <2>33. PICK start \in Offsets, first \in Offsets :
           start = next[structure] /\ first = next[value]
    BY DEF IInv, TypeOK
  <2>4. /\ count \in Nat /\ own \in Nat /\ structure # value
        /\ Fits(start, words) /\ Fits(first, own) /\ next' \in [Domains -> Offsets]
        /\ next'[structure] = start + words /\ next'[value] = first + own
        /\ \A d \in Domains : d # structure /\ d # value => next'[d] = next[d]
    BY <2>1, <2>31, <2>32, <2>33, SparseAdvances
  <2>40. drawn \in Bags /\ skipped \in Bags
    BY DEF IInv, TypeOK
  <2>41. PICK bag \in Bags :
           /\ bag = DrawStructure(drawn, extents, count, structure)
           /\ \A d \in Domains, offset \in Offsets :
                bag[d][offset] = drawn[d][offset] +
                  IF d = structure /\ start <= offset /\ offset < start + words THEN 1 ELSE 0
    BY <2>32, <2>33, <2>4, <2>40, StructureWindow
  <2>5. drawn' = Draw(bag, value, first, count, width)
    BY <2>1, <2>33, <2>41
  <2>6. /\ drawn' \in Bags
        /\ \A d \in Domains, offset \in Offsets :
             drawn'[d][offset] = bag[d][offset] +
               IF d = value /\ first <= offset /\ offset < first + own THEN 1 ELSE 0
    BY <2>31, <2>4, <2>5, DrawsItsWindow
  <2>7. ASSUME NEW d \in Domains, NEW offset \in Offsets
        PROVE  Spent(d, offset)' = IF offset < next'[d] THEN 1 ELSE 0
    <3>1. PICK before \in Nat, idle \in Nat :
            /\ before = drawn[d][offset] /\ idle = skipped[d][offset]
            /\ next[d] \in Nat /\ offset \in Nat
            /\ before + idle = IF offset < next[d] THEN 1 ELSE 0
      BY <1>1, SpentWhenIdle
    <3>3. Spent(d, offset)' = drawn'[d][offset] + idle
      BY <2>1, <3>1 DEF Spent
    <3>4. CASE d = value
      <4>1. drawn'[d][offset] =
              before + IF first <= offset /\ offset < first + own THEN 1 ELSE 0
        BY <2>4, <2>41, <2>6, <3>1, <3>4
      <4> QED
        BY <2>33, <2>4, <3>1, <3>3, <3>4, <4>1, WindowSpent
    <3>5. CASE d = structure
      <4>1. drawn'[d][offset] =
              before + IF start <= offset /\ offset < start + words THEN 1 ELSE 0
        BY <2>4, <2>41, <2>6, <3>1, <3>5
      <4> QED
        BY <2>33, <2>4, <3>1, <3>3, <3>5, <4>1, WindowSpent
    <3>6. CASE d # value /\ d # structure
      BY <2>4, <2>41, <2>6, <3>1, <3>3, <3>6
    <3> QED
      BY <3>4, <3>5, <3>6
  <2> QED
    BY <2>1, <2>2, <2>4, <2>40, <2>6, <2>7
    DEF IInv, TypeOK, QueuedWords, DrawnBelow, DrawnTo
<1> QED
  BY <1>2, <1>3

(* The call of the CUDA facet leaves its windows to the kernels, or skips   *)
(* that of the structure.                                                   *)
LEMMA CudaStep ==
  ASSUME IInv, call.phase = "idle", NEW extents \in Shapes, NEW width \in {1, 2},
         NEW structure \in Domains, NEW value \in Domains,
         NEW count \in -1 .. LogicalSize(extents) + 1,
         CudaGenerateSparseUniform01(extents, count, width, structure, value)
  PROVE  IInv'
<1>1. ~Pending
  BY DEF Pending
<1>2. CASE Refuse(SparseStatus(extents, count, width, structure, value))
  BY <1>2, RefuseStep
<1>3. CASE ~Refuse(SparseStatus(extents, count, width, structure, value))
  <2>1. /\ SparseStatus(extents, count, width, structure, value) = "kOk"
        /\ AdvanceBoth(extents, count, width, structure, value)
        /\ skipped' = IF extents = <<>> THEN DrawStructure(skipped, extents, count, structure)
                      ELSE skipped
        /\ drawn' = drawn
    BY <1>3 DEF CudaGenerateSparseUniform01, SelectsOrdinals
  <2>2. /\ {"phase", "value", "first", "count", "width", "structure", "start", "extents"}
             \subseteq DOMAIN call'
        /\ call'.value = value /\ call'.first = next[value]
        /\ call'.structure = structure /\ call'.start = next[structure]
        /\ call'.count = count /\ call'.width = width /\ call'.extents = extents
        /\ call'.phase = IF count = 0 THEN "done" ELSE IF extents = <<>> THEN "fill" ELSE "select"
    BY <1>3 DEF CudaGenerateSparseUniform01, SelectsOrdinals, SparseCall
  <2>3. PICK own \in Int : own = count * width
    <3>1. LogicalSize(extents) \in Nat
      BY ShapeIsSequence
    <3> QED
      BY <3>1
  <2>31. Take(count, width, own)
    BY <2>3 DEF Take
  <2>32. PICK words \in Nat : words = StructureWords(extents, count)
    BY StructureFits
  <2>33. PICK start \in Offsets, first \in Offsets :
           start = next[structure] /\ first = next[value]
    BY DEF IInv, TypeOK
  <2>4. /\ count \in Nat /\ own \in Nat /\ structure # value
        /\ Fits(start, words) /\ Fits(first, own) /\ next' \in [Domains -> Offsets]
        /\ next'[structure] = start + words /\ next'[value] = first + own
        /\ \A d \in Domains : d # structure /\ d # value => next'[d] = next[d]
    BY <2>1, <2>31, <2>32, <2>33, SparseAdvances
  <2>40. drawn \in Bags /\ skipped \in Bags
    BY DEF IInv, TypeOK
  <2>41. /\ skipped' \in Bags
         /\ \A d \in Domains, offset \in Offsets :
              skipped'[d][offset] = skipped[d][offset] +
                IF extents = <<>> /\ d = structure /\ start <= offset /\ offset < start + words
                THEN 1 ELSE 0
    <3>1. CASE extents = <<>>
      BY <2>1, <2>32, <2>33, <2>4, <2>40, <3>1, StructureWindow
    <3>2. CASE extents # <<>>
      <4>1. \A d \in Domains, offset \in Offsets : skipped[d][offset] + 0 = skipped[d][offset]
        BY <2>40 DEF Bags
      <4> QED
        BY <2>1, <2>40, <3>2, <4>1
    <3> QED
      BY <3>1, <3>2
  <2>42. /\ count = 0 => words = 0 /\ own = 0
         /\ count # 0 => words = LogicalSize(extents) * 2 /\ LogicalSize(extents) \in Nat
    <3>1. LogicalSize(extents) \in Nat
      BY ShapeIsSequence
    <3> QED
      BY <2>3, <2>32, <3>1 DEF StructureWords
  <2>5. ASSUME NEW d \in Domains, NEW offset \in Offsets
        PROVE  Spent(d, offset)' =
                 IF offset < (IF d = value THEN first
                              ELSE IF d = structure /\ extents # <<>> THEN start
                              ELSE next'[d]) THEN 1 ELSE 0
    <3>1. PICK before \in Nat, idle \in Nat :
            /\ before = drawn[d][offset] /\ idle = skipped[d][offset]
            /\ next[d] \in Nat /\ offset \in Nat
            /\ before + idle = IF offset < next[d] THEN 1 ELSE 0
      BY <1>1, SpentWhenIdle
    <3>3. Spent(d, offset)' = before + skipped'[d][offset]
      BY <2>1, <3>1 DEF Spent
    <3>4. CASE d = value
      BY <2>33, <2>4, <2>41, <3>1, <3>3, <3>4
    <3>5. CASE d = structure /\ extents = <<>>
      <4>1. skipped'[d][offset] =
              idle + IF start <= offset /\ offset < start + words THEN 1 ELSE 0
        BY <2>41, <3>1, <3>5
      <4>2. before + idle = IF offset < start THEN 1 ELSE 0
        BY <2>33, <3>1, <3>5
      <4>3. start \in Nat /\ words \in Nat
        BY DEF Offsets
      <4>4. before + (idle + IF start <= offset /\ offset < start + words THEN 1 ELSE 0)
              = IF offset < start + words THEN 1 ELSE 0
        BY <3>1, <4>2, <4>3, WindowSpent
      <4>5. next'[d] = start + words /\ d # value
        BY <2>4, <3>5
      <4> QED
        BY <3>3, <3>5, <4>1, <4>4, <4>5
    <3>6. CASE d = structure /\ extents # <<>>
      BY <2>33, <2>4, <2>41, <3>1, <3>3, <3>6
    <3>7. CASE d # value /\ d # structure
      BY <2>4, <2>41, <3>1, <3>3, <3>7
    <3> QED
      BY <3>4, <3>5, <3>6, <3>7
  <2>6. CASE count = 0
    <3>1. ~Pending' /\ ~Selecting'
      BY <2>2, <2>6 DEF Pending, Selecting
    <3>2. next'[value] = first /\ next'[structure] = start
      BY <2>4, <2>42, <2>6 DEF Offsets
    <3> QED
      BY <2>1, <2>2, <2>4, <2>40, <2>41, <2>5, <3>1, <3>2
      DEF IInv, TypeOK, QueuedWords, DrawnBelow, DrawnTo
  <2>7. CASE count # 0 /\ extents = <<>>
    <3>1. Pending' /\ ~Selecting'
      BY <2>2, <2>7 DEF Pending, Selecting
    <3> QED
      BY <2>1, <2>2, <2>3, <2>33, <2>4, <2>40, <2>41, <2>5, <2>7, <3>1
      DEF IInv, TypeOK, QueuedWords, DrawnBelow, DrawnTo
  <2>8. CASE count # 0 /\ extents # <<>>
    <3>1. Pending' /\ Selecting'
      BY <2>2, <2>8 DEF Pending, Selecting
    <3>2. QueuedWords'
      BY <2>2, <2>3, <2>33, <2>4, <2>42, <2>8, <3>1 DEF QueuedWords
    <3>3. \A d \in Domains, offset \in Offsets :
            Spent(d, offset)' = IF offset < DrawnTo(d)' THEN 1 ELSE 0
      BY <2>2, <2>33, <2>4, <2>5, <2>8, <3>1 DEF DrawnTo
    <3> QED
      BY <2>1, <2>2, <2>4, <2>40, <2>41, <3>2, <3>3 DEF IInv, TypeOK, DrawnBelow
  <2> QED
    BY <2>6, <2>7, <2>8
<1> QED
  BY <1>2, <1>3

LEMMA WorkspaceStep ==
  ASSUME IInv, call.phase = "idle", NEW extents \in Shapes, NEW domain \in Domains,
         NEW count, NEW output, NEW workspace,
         GenerateSparseStructure(extents, count, output, workspace, domain)
  PROVE  IInv'
<1>1. ~Pending
  BY DEF Pending
<1>2. CASE Refuse("kShape") \/ Refuse("kOverflow") \/ Refuse("kInvalidArgument")
  BY <1>2, RefuseStep
<1>3. CASE ~(Refuse("kShape") \/ Refuse("kOverflow") \/ Refuse("kInvalidArgument"))
  <2>1. PICK words \in Nat, pairs \in Nat :
          words = StructureWords(extents, count) /\ pairs = words \div 2 /\ pairs * 2 = words
    BY StructureFits
  <2>2. /\ Fits(next[domain], words)
        /\ next' = [next EXCEPT ![domain] = Advanced(@, words)]
        /\ drawn' = Draw(drawn, domain, next[domain], pairs, 2)
        /\ skipped' = skipped
    BY <1>3, <2>1 DEF GenerateSparseStructure, DrawStructure
  <2>21. Take(pairs, 2, words)
    BY <2>1 DEF Take
  <2>3. ~Pending' /\ "phase" \in DOMAIN call'
    <3>1. PICK w : LET new == SparseCall("ordinals", extents, count, 0, domain, domain, w)
                   IN call' = new \/ call' = [new EXCEPT !.status = "kInternal"]
      BY <1>3 DEF GenerateSparseStructure
    <3>2. CASE call' = SparseCall("ordinals", extents, count, 0, domain, domain, w)
      BY <3>2 DEF SparseCall, Pending
    <3>3. CASE call' = [SparseCall("ordinals", extents, count, 0, domain, domain, w)
                          EXCEPT !.status = "kInternal"]
      BY <3>3 DEF SparseCall, Pending
    <3> QED
      BY <3>1, <3>2, <3>3
  <2> QED
    BY <1>1, <2>2, <2>21, <2>3, DrawStep
<1> QED
  BY <1>2, <1>3

(* The first kernel of a CUDA call draws the window of the structure. *)
LEMMA SelectStep ==
  ASSUME IInv, SelectCanonicalOrdinals
  PROVE  IInv'
<1>1. Pending /\ Selecting /\ UNCHANGED <<next, skipped>>
  BY DEF SelectCanonicalOrdinals, Pending, Selecting
<1>2. /\ {"phase", "value", "first", "count", "width", "structure", "start", "extents"}
           \subseteq DOMAIN call
      /\ drawn \in Bags /\ skipped \in Bags /\ next \in [Domains -> Offsets]
  BY <1>1 DEF IInv, TypeOK, QueuedWords
<1>3. PICK structure \in Domains, start \in Offsets, pairs \in Nat :
        /\ structure = call.structure /\ start = call.start
        /\ pairs = LogicalSize(call.extents) /\ structure # call.value
        /\ next[structure] = start + pairs * 2
  BY <1>1 DEF IInv, QueuedWords
<1>4. PICK words \in Nat : words = pairs * 2
  OBVIOUS
<1>5. Take(pairs, 2, words)
  BY <1>4 DEF Take
<1>6. LastOffset \in Nat /\ start \in Nat /\ next[structure] \in Offsets
  BY <1>2, SizeAssumption DEF Offsets
<1>7. Fits(start, words)
  BY <1>3, <1>4, <1>6 DEF Fits, Offsets
<1>8. drawn' = Draw(drawn, structure, start, pairs, 2)
  BY <1>3 DEF SelectCanonicalOrdinals
<1>9. /\ drawn' \in Bags
      /\ \A d \in Domains, offset \in Offsets :
           drawn'[d][offset] = drawn[d][offset] +
             IF d = structure /\ start <= offset /\ offset < start + words THEN 1 ELSE 0
  BY <1>2, <1>5, <1>7, <1>8, DrawsItsWindow
<1>10. /\ DOMAIN call' = DOMAIN call
       /\ call'.value = call.value /\ call'.first = call.first
       /\ call'.count = call.count /\ call'.width = call.width
       /\ Pending' /\ ~Selecting'
  BY <1>2 DEF SelectCanonicalOrdinals, Pending, Selecting
<1>11. ASSUME NEW d \in Domains, NEW offset \in Offsets
       PROVE  Spent(d, offset)' =
                IF offset < (IF d = call.value THEN call.first ELSE next[d]) THEN 1 ELSE 0
  <2>1. PICK before \in Nat, idle \in Nat :
          before = drawn[d][offset] /\ idle = skipped[d][offset]
    BY <1>2 DEF Bags
  <2>2. before + idle =
          IF offset < (IF d = structure THEN start
                       ELSE IF d = call.value THEN call.first ELSE next[d]) THEN 1 ELSE 0
    BY <1>1, <1>3, <2>1 DEF IInv, DrawnBelow, DrawnTo, Spent
  <2>3. offset \in Nat
    BY DEF Offsets
  <2>4. Spent(d, offset)' = drawn'[d][offset] + idle
    BY <1>1, <2>1 DEF Spent
  <2>5. CASE d = structure
    <3>1. drawn'[d][offset] =
            before + IF start <= offset /\ offset < start + words THEN 1 ELSE 0
      BY <1>9, <2>1, <2>5
    <3>2. before + idle = IF offset < start THEN 1 ELSE 0
      BY <2>2, <2>5
    <3> QED
      BY <1>3, <1>4, <1>6, <2>3, <2>4, <2>5, <3>1, <3>2, WindowSpent
  <2>6. CASE d # structure
    BY <1>9, <2>1, <2>2, <2>4, <2>6
  <2> QED
    BY <2>5, <2>6
<1>12. QueuedWords'
  BY <1>1, <1>10 DEF IInv, QueuedWords
<1>13. DrawnBelow'
  BY <1>1, <1>10, <1>11 DEF DrawnBelow, DrawnTo
<1> QED
  BY <1>1, <1>2, <1>9, <1>10, <1>12, <1>13 DEF IInv, TypeOK

(* The decoding of a dimension draws nothing. *)
LEMMA DecodeStep ==
  ASSUME IInv, DecodeCoordinateDimension
  PROVE  IInv'
<1>1. Pending /\ ~Selecting /\ UNCHANGED <<next, drawn, skipped>>
  BY DEF DecodeCoordinateDimension, Pending, Selecting
<1>2. {"phase", "value", "first", "count", "width"} \subseteq DOMAIN call
  BY <1>1 DEF IInv, TypeOK, QueuedWords
<1>3. /\ DOMAIN call' = DOMAIN call
      /\ call'.value = call.value /\ call'.first = call.first
      /\ call'.count = call.count /\ call'.width = call.width
      /\ Pending' /\ ~Selecting'
  BY <1>2 DEF DecodeCoordinateDimension, Pending, Selecting
<1> QED
  BY <1>1, <1>2, <1>3 DEF IInv, TypeOK, QueuedWords, DrawnBelow, DrawnTo, Spent

LEMMA FillValuesStep ==
  ASSUME IInv, FillValues
  PROVE  IInv'
<1>1. Pending /\ ~Selecting /\ UNCHANGED <<next, skipped>>
  BY DEF FillValues, Pending, Selecting
<1>2. /\ {"phase", "value", "first", "count", "width"} \subseteq DOMAIN call
      /\ drawn \in Bags /\ skipped \in Bags /\ next \in [Domains -> Offsets]
  BY <1>1 DEF IInv, TypeOK, QueuedWords
<1>3. PICK value \in Domains, first \in Offsets, count \in Nat, width \in {1, 2} :
        /\ value = call.value /\ first = call.first /\ count = call.count /\ width = call.width
        /\ next[value] = first + count * width
  BY <1>1 DEF IInv, QueuedWords
<1>4. PICK words \in Nat : words = count * width
  OBVIOUS
<1>41. Take(count, width, words)
  BY <1>4 DEF Take
<1>5. LastOffset \in Nat /\ first \in Nat /\ next[value] \in Offsets
  BY <1>2, SizeAssumption DEF Offsets
<1>6. Fits(first, words)
  BY <1>3, <1>4, <1>5 DEF Fits, Offsets
<1>7. drawn' = Draw(drawn, value, first, count, width)
  BY <1>3 DEF FillValues
<1>8. /\ drawn' \in Bags
      /\ \A d \in Domains, offset \in Offsets :
           drawn'[d][offset] = drawn[d][offset] +
             IF d = value /\ first <= offset /\ offset < first + words THEN 1 ELSE 0
  BY <1>2, <1>41, <1>6, <1>7, DrawsItsWindow
<1>9. ASSUME NEW d \in Domains, NEW offset \in Offsets
      PROVE  Spent(d, offset)' = IF offset < next[d] THEN 1 ELSE 0
  <2>0. PICK before \in Nat, idle \in Nat :
          before = drawn[d][offset] /\ idle = skipped[d][offset]
    BY <1>2 DEF Bags
  <2>1. before + idle = IF offset < (IF d = value THEN first ELSE next[d]) THEN 1 ELSE 0
    BY <1>1, <1>3, <2>0 DEF IInv, DrawnBelow, DrawnTo, Spent
  <2>2. offset \in Nat
    BY DEF Offsets
  <2>10. Spent(d, offset)' = drawn'[d][offset] + idle
    BY <1>1, <2>0 DEF Spent
  <2>3. CASE d = value
    <3>1. drawn'[d][offset] =
            before + IF first <= offset /\ offset < first + words THEN 1 ELSE 0
      BY <1>8, <2>0, <2>3
    <3>2. before + idle = IF offset < first THEN 1 ELSE 0
      BY <2>1, <2>3
    <3> QED
      BY <1>3, <1>4, <1>5, <2>10, <2>2, <2>3, <3>1, <3>2, WindowSpent
  <2>4. CASE d # value
    BY <1>8, <2>0, <2>1, <2>10, <2>4
  <2> QED
    BY <2>3, <2>4
<1>10. ~Pending' /\ ~Selecting' /\ "phase" \in DOMAIN call'
  BY <1>2 DEF FillValues, Pending, Selecting
<1> QED
  BY <1>1, <1>2, <1>8, <1>9, <1>10 DEF IInv, TypeOK, QueuedWords, DrawnBelow, DrawnTo

LEMMA InitIInv == Init => IInv
<1> SUFFICES ASSUME Init PROVE IInv
  OBVIOUS
<1>1. 0 \in Offsets /\ \A offset \in Offsets : offset \in Nat
  BY SizeAssumption DEF Offsets
<1>2. ~Pending /\ ~Selecting /\ "phase" \in DOMAIN call
  BY DEF Init, NoCall, Pending, Selecting
<1> QED
  BY <1>1, <1>2 DEF Init, IInv, TypeOK, QueuedWords, DrawnBelow, DrawnTo, Spent, Bags

LEMMA NextIInv == IInv /\ [Next]_vars => IInv'
<1> SUFFICES ASSUME IInv, [Next]_vars PROVE IInv'
  OBVIOUS
<1>1. ASSUME call.phase = "idle", Call PROVE IInv'
  BY <1>1, RefuseStep, HostStep, CudaStep, WorkspaceStep, FillStep DEF Call, RefuseContext
<1>2. CASE TakeResult
  <2>1. ~Pending /\ ~Pending' /\ "phase" \in DOMAIN call'
    BY <1>2, NoCallIsNotPending DEF TakeResult, Pending
  <2> QED
    BY <1>2, <2>1, KeptStep DEF TakeResult
<1>3. CASE UNCHANGED vars
  BY <1>3 DEF vars, IInv, TypeOK, QueuedWords, DrawnBelow, DrawnTo, Spent, Selecting, Pending
<1> QED
  BY <1>1, <1>2, <1>3, SelectStep, DecodeStep, FillValuesStep DEF Next

(* The offsets, the counts of draws and the queued windows keep their types *)
(* and agree: the whole inductive invariant.                                *)
THEOREM Invariance == Spec => []IInv
<1>1. Init => IInv
  BY InitIInv
<1>2. IInv /\ [Next]_vars => IInv'
  BY NextIInv
<1> QED
  BY <1>1, <1>2, PTL DEF Spec

(* No word of a domain is ever drawn for two elements, up to the last       *)
(* offset and by kernels that run after their call, nor drawn when a CUDA   *)
(* call of rank 0 has skipped it; between calls the words below the offset  *)
(* that the calls returned are exactly the drawn and the skipped ones.      *)
THEOREM DrawnOnce == Spec => []WordsAreDrawnOnce
<1>1. IInv => WordsAreDrawnOnce
  BY DEF IInv, DrawnBelow, DrawnTo, Spent, WordsAreDrawnOnce, Selecting, Pending
<1> QED
  BY <1>1, Invariance, PTL

------------------------------------------------------------------------------
\* Every call and every kernel keeps the storage exact

(* The chosen ordinals as the first kernel leaves them                      *)
Sorted(c) == Inserted(InOrderOfPriority(c.priority, c.count))

(* A call whose kernels fill the slots                                      *)
SlotsExact(c, a) ==
  /\ {"kind", "phase", "status", "extents", "count", "priority", "dimension", "divisor"}
       \subseteq DOMAIN c
  /\ c.kind = "slots" /\ c.status = "kOk"
  /\ c.extents \in Shapes /\ c.count \in 0 .. LogicalSize(c.extents)
  /\ c.priority \in [Ordinals(c.extents) -> Nat]
  /\ DOMAIN a = 1 .. c.count * Len(c.extents)
  /\ c.phase = "select" =>
       Len(c.extents) > 0 /\ c.dimension = Len(c.extents) /\ c.divisor = 1
  /\ c.phase = "decode" =>
       /\ c.dimension \in 1 .. Len(c.extents)
       /\ c.divisor = Suffix(c.extents, c.dimension)
       /\ Decoding(c.extents, Sorted(c), c.count, a, c.dimension)
  /\ c.phase \in {"fill", "done"} => Decoding(c.extents, Sorted(c), c.count, a, 0)

(* A call that stores everything at once                                    *)
StoredExact(c, a) ==
  /\ c.status = "kOk" /\ c.kind \in {"coordinates", "ordinals", "dense"}
  /\ c.kind = "coordinates" => SparseExact(c.extents, c.priority, c.count, a)
  /\ c.kind = "ordinals" =>
       /\ \A k \in 1 .. c.count - 1 : a[k] < a[k + 1]
       /\ Range(a) = Least(c.priority, c.count)
  /\ c.kind = "dense" => DenseExact(c.layout, c.first, c.width, a)

CallExact(c, a) ==
  /\ c.phase \in {"select", "decode", "fill"} => SlotsExact(c, a)
  /\ c.phase = "done" => IF c.kind = "slots" THEN SlotsExact(c, a) ELSE StoredExact(c, a)

ExactInv == CallExact(call, array)

(* Between calls there is nothing to show.                                  *)
LEMMA NoCallExact ==
  ASSUME NEW status, NEW c, c = NoCall(status), NEW a
  PROVE  CallExact(c, a)
BY DEF NoCall, CallExact

(* Two words make a priority.                                               *)
LEMMA WordsAreNumbers ==
  ASSUME NEW extents, NEW count, NEW words \in Words(extents, count)
  PROVE  [o \in Ordinals(extents) |-> Priority(words[o][1], words[o][2])]
           \in [Ordinals(extents) -> Nat]
<1>1. WordBase \in Nat
  BY SizeAssumption
<1>2. ASSUME NEW o \in Ordinals(extents)
      PROVE  Priority(words[o][1], words[o][2]) \in Nat
  <2>1. words[o] \in {<<0, 0>>} \cup ((0 .. WordBase - 1) \X (0 .. WordBase - 1))
    BY DEF Words
  <2>2. PICK w \in Nat \X Nat : w = words[o]
    BY <1>1, <2>1
  <2>3. PICK high \in Nat, low \in Nat : high = w[1] /\ low = w[2]
    OBVIOUS
  <2>4. high * WordBase + low \in Nat
    BY <1>1
  <2> QED
    BY <2>2, <2>3, <2>4 DEF Priority
<1> QED
  BY <1>2

SparseStart(c, kind, extents, count) ==
  /\ {"kind", "phase", "status", "extents", "count", "priority", "dimension", "divisor"}
       \subseteq DOMAIN c
  /\ c.kind = kind /\ c.phase = "done" /\ c.status = "kOk"
  /\ c.extents = extents /\ c.count = count
  /\ c.dimension = Len(extents) /\ c.divisor = 1
  /\ c.priority \in [Ordinals(extents) -> Nat]

(* What a sparse call starts with                                           *)
LEMMA SparseFields ==
  ASSUME NEW kind, NEW extents \in Shapes, NEW count, NEW width,
         NEW structure, NEW value, NEW words \in Words(extents, count)
  PROVE  SparseStart(SparseCall(kind, extents, count, width, structure, value, words),
                     kind, extents, count)
<1>1. PICK new : new = SparseCall(kind, extents, count, width, structure, value, words)
  OBVIOUS
<1>2. new.priority = [o \in Ordinals(extents) |-> Priority(words[o][1], words[o][2])]
  BY <1>1 DEF SparseCall
<1>3. new.priority \in [Ordinals(extents) -> Nat]
  BY <1>2, WordsAreNumbers
<1>4. SparseStart(new, kind, extents, count)
  BY <1>1, <1>3 DEF SparseCall, SparseStart
<1> QED
  BY <1>1, <1>4

(* The status of a call says that the count is in range.                    *)
LEMMA AcceptedCount ==
  ASSUME NEW extents \in Shapes, NEW count \in -1 .. LogicalSize(extents) + 1, NEW width,
         NEW structure, NEW value,
         SparseStatus(extents, count, width, structure, value) = "kOk"
  PROVE  count \in 0 .. LogicalSize(extents)
BY DEF SparseStatus

(* GenerateSparseUniform01() on the host                                    *)
LEMMA HostExact ==
  ASSUME ExactInv, NEW extents \in Shapes, NEW width \in {1, 2},
         NEW structure \in Domains, NEW value \in Domains,
         NEW count \in -1 .. LogicalSize(extents) + 1,
         GenerateSparseUniform01(extents, count, width, structure, value)
  PROVE  ExactInv'
<1>1. CASE Refuse(SparseStatus(extents, count, width, structure, value))
  BY <1>1, NoCallExact DEF Refuse, ExactInv
<1>2. CASE ~Refuse(SparseStatus(extents, count, width, structure, value))
  <2>1. SparseStatus(extents, count, width, structure, value) = "kOk"
    BY <1>2 DEF GenerateSparseUniform01
  <2>2. PICK words \in Words(extents, count) :
          LET new == SparseCall("coordinates", extents, count, width, structure, value, words)
              chosen == InOrderOfPriority(new.priority, count)
              added == [k \in 1 .. count |-> CoordinateFromOrdinal(chosen[k], extents)]
          IN /\ call' = [new EXCEPT !.status =
                            IF IsInjective(added) THEN "kOk" ELSE "kInvalidArgument"]
             /\ array' = InCanonicalOrder(added)
    BY <1>2 DEF GenerateSparseUniform01
  <2>3. PICK new : new = SparseCall("coordinates", extents, count, width, structure, value, words)
    OBVIOUS
  <2>4. PICK p : p = new.priority
    OBVIOUS
  <2>5. PICK added : added = [k \in 1 .. count |->
                                CoordinateFromOrdinal(InOrderOfPriority(p, count)[k], extents)]
    OBVIOUS
  <2>6. /\ call' = [new EXCEPT !.status = IF IsInjective(added) THEN "kOk" ELSE "kInvalidArgument"]
        /\ array' = InCanonicalOrder(added)
    BY <2>2, <2>3, <2>4, <2>5, Zenon
  <2>7. /\ {"kind", "phase", "status", "extents", "count", "priority"} \subseteq DOMAIN new
        /\ new.kind = "coordinates" /\ new.phase = "done"
        /\ new.extents = extents /\ new.count = count
        /\ p \in [Ordinals(extents) -> Nat]
    <3>1. SparseStart(new, "coordinates", extents, count)
      BY <2>3, SparseFields
    <3> QED
      BY <2>4, <3>1 DEF SparseStart
  <2>8. extents \in Seq(Nat) /\ count \in 0 .. LogicalSize(extents)
    BY <2>1, AcceptedCount, ShapeIsSequence
  <2>9. IsInjective(added) /\ SparseExact(extents, p, count, InCanonicalOrder(added))
    BY <2>5, <2>7, <2>8, HostSorts
  <2>10. /\ call'.kind = "coordinates" /\ call'.phase = "done" /\ call'.status = "kOk"
         /\ call'.extents = extents /\ call'.count = count /\ call'.priority = p
    BY <2>4, <2>6, <2>7, <2>9
  <2>11. SparseExact(call'.extents, call'.priority, call'.count, array')
    BY <2>6, <2>9, <2>10
  <2> QED
    BY <2>10, <2>11 DEF ExactInv, CallExact, StoredExact
<1> QED
  BY <1>1, <1>2

(* What the second pass of GenerateSparseStructure() puts out               *)
WorkspaceExact(put, p, count) ==
  /\ Len(put) = count /\ Range(put) = Least(p, count)
  /\ \A k \in 1 .. count - 1 : put[k] < put[k + 1]

(* An empty call puts nothing out.                                          *)
LEMMA NothingLeast ==
  ASSUME NEW N \in Nat, NEW p \in [0 .. N - 1 -> Nat]
  PROVE  WorkspaceExact(<<>>, p, 0)
<1>1. Least(p, 0) = {}
  <2>1. 0 \in 0 .. N
    OBVIOUS
  <2>2. IsFiniteSet(Least(p, 0)) /\ Cardinality(Least(p, 0)) = 0
    BY <2>1, PriorityRanks
  <2> QED
    BY <2>2, FS_EmptySet
<1>2. Range(<<>>) = {} /\ Len(<<>>) = 0
  BY DEF Range
<1> QED
  BY <1>1, <1>2 DEF WorkspaceExact

CutoffsOf(part) == {c \in part : \A d \in part : ~CandidateLess(c, d)}

(* What is put out are the least ordinals, in order.                        *)
LEMMA PutOut ==
  ASSUME NEW N \in Nat, NEW p \in [0 .. N - 1 -> Nat], NEW count \in 0 .. N,
         NEW part \in FirstParts(p, count), NEW put,
         put \in IF count = 0 THEN {<<>>} ELSE {UpTo(c, p) : c \in CutoffsOf(part)}
  PROVE  WorkspaceExact(put, p, count)
<1>1. CASE count = 0
  <2>1. WorkspaceExact(<<>>, p, 0)
    BY NothingLeast
  <2> QED
    BY <1>1, <2>1
<1>2. CASE count # 0
  <2>1. PICK c \in CutoffsOf(part) : put = UpTo(c, p)
    BY <1>2
  <2>2. c \in part /\ (\A d \in part : ~CandidateLess(c, d)) /\ count \in 1 .. N
    BY <1>2 DEF CutoffsOf
  <2>3. /\ Len(put) = count /\ Range(put) = Least(p, count)
        /\ Lists(put, Least(p, count), count)
    BY <2>1, <2>2, WorkspaceSelects
  <2> QED
    BY <2>3 DEF WorkspaceExact, Lists
<1> QED
  BY <1>1, <1>2

(* GenerateSparseStructure() with a workspace                               *)
LEMMA WorkspaceStructureExact ==
  ASSUME ExactInv, NEW extents \in Shapes, NEW domain \in Domains,
         NEW count \in -1 .. LogicalSize(extents) + 1, NEW output, NEW workspace,
         GenerateSparseStructure(extents, count, output, workspace, domain)
  PROVE  ExactInv'
<1>1. CASE Refuse("kShape") \/ Refuse("kOverflow") \/ Refuse("kInvalidArgument")
  BY <1>1, NoCallExact DEF Refuse, ExactInv
<1>2. CASE ~(Refuse("kShape") \/ Refuse("kOverflow") \/ Refuse("kInvalidArgument"))
  <2>1. count \in 0 .. LogicalSize(extents) /\ output = count
    BY <1>2 DEF GenerateSparseStructure
  <2>2. PICK words \in Words(extents, count) :
          LET new == SparseCall("ordinals", extents, count, 0, domain, domain, words)
          IN \E first \in FirstParts(new.priority, count) :
               LET cutoffs == {c \in first : \A d \in first : ~CandidateLess(c, d)}
               IN \E put \in IF count = 0 THEN {<<>>}
                             ELSE {UpTo(c, new.priority) : c \in cutoffs} :
                    /\ call' = IF Len(put) = output THEN new
                               ELSE [new EXCEPT !.status = "kInternal"]
                    /\ array' = put
    BY <1>2 DEF GenerateSparseStructure
  <2>3. PICK new : new = SparseCall("ordinals", extents, count, 0, domain, domain, words)
    OBVIOUS
  <2>4. PICK p : p = new.priority
    OBVIOUS
  <2>5. \E first \in FirstParts(p, count) :
          \E put \in IF count = 0 THEN {<<>>} ELSE {UpTo(c, p) : c \in CutoffsOf(first)} :
            /\ call' = IF Len(put) = output THEN new
                       ELSE [new EXCEPT !.status = "kInternal"]
            /\ array' = put
    BY <2>2, <2>3, <2>4, Zenon DEF CutoffsOf
  <2>61. PICK first \in FirstParts(p, count) :
           \E put \in IF count = 0 THEN {<<>>} ELSE {UpTo(c, p) : c \in CutoffsOf(first)} :
             /\ call' = IF Len(put) = output THEN new
                        ELSE [new EXCEPT !.status = "kInternal"]
             /\ array' = put
    BY <2>5
  <2>6. PICK put \in IF count = 0 THEN {<<>>} ELSE {UpTo(c, p) : c \in CutoffsOf(first)} :
          /\ call' = IF Len(put) = output THEN new
                     ELSE [new EXCEPT !.status = "kInternal"]
          /\ array' = put
    BY <2>61
  <2>7. SparseStart(new, "ordinals", extents, count)
    BY <2>3, SparseFields
  <2>8. PICK N \in Nat : N = LogicalSize(extents)
    BY ShapeIsSequence
  <2>9. p \in [0 .. N - 1 -> Nat] /\ count \in 0 .. N
    BY <2>1, <2>4, <2>7, <2>8 DEF SparseStart, Ordinals
  <2>10. WorkspaceExact(put, p, count)
    <3> HIDE <2>4, <2>8
    <3> QED
      BY <2>6, <2>9, PutOut
  <2>11. call' = new /\ array' = put
    BY <2>1, <2>6, <2>10 DEF WorkspaceExact
  <2>12. /\ new.kind = "ordinals" /\ new.phase = "done" /\ new.status = "kOk"
         /\ new.count = count /\ new.priority = p
    BY <2>4, <2>7 DEF SparseStart
  <2>13. StoredExact(new, put)
    BY <2>10, <2>12 DEF StoredExact, WorkspaceExact
  <2> QED
    BY <2>11, <2>12, <2>13 DEF ExactInv, CallExact
<1> QED
  BY <1>1, <1>2

(* FillDenseUniform01() of any view                                         *)
LEMMA DenseUniformExact ==
  ASSUME IInv, ExactInv, NEW domain \in Domains, NEW layout \in Layouts, NEW width \in {1, 2},
         FillDenseUniform01(domain, layout, width)
  PROVE  ExactInv'
<1>1. CASE Refuse("kOverflow")
  BY <1>1, NoCallExact DEF Refuse, ExactInv
<1>2. CASE ~Refuse("kOverflow")
  <2>1. /\ Fits(next[domain], LogicalSize(layout.extents) * width)
        /\ call' = [kind |-> "dense", phase |-> "done", status |-> "kOk",
                    layout |-> layout, width |-> width, first |-> next[domain]]
        /\ array' = {<<PhysicalOffset(layout, o), WordOf(next[domain], o, width, 0)>> :
                       o \in 0 .. LogicalSize(layout.extents) - 1}
    BY <1>2 DEF FillDenseUniform01
  <2>2. PICK first \in Offsets : first = next[domain]
    BY DEF IInv, TypeOK
  <2>3. layout.extents \in Seq(Nat)
    BY SizeAssumption
  <2>4. DenseExact(layout, first, width,
          {<<PhysicalOffset(layout, o), WordOf(first, o, width, 0)>> :
             o \in 0 .. LogicalSize(layout.extents) - 1})
    BY <2>1, <2>2, <2>3, DenseFill
  <2>5. PICK stored : stored = array'
    OBVIOUS
  <2>6. DenseExact(layout, first, width, stored)
    BY <2>1, <2>2, <2>4, <2>5, Zenon
  <2>7. PICK new : new = call'
    OBVIOUS
  <2>8. /\ new.kind = "dense" /\ new.phase = "done" /\ new.status = "kOk"
        /\ new.layout = layout /\ new.width = width /\ new.first = first
    BY <2>1, <2>2, <2>7
  <2>9. StoredExact(new, stored)
    BY <2>6, <2>8 DEF StoredExact
  <2> QED
    BY <2>5, <2>7, <2>8, <2>9 DEF ExactInv, CallExact
<1> QED
  BY <1>1, <1>2

(* The CUDA call leaves its slots to the kernels.                           *)
LEMMA CudaExact ==
  ASSUME ExactInv, NEW extents \in Shapes, NEW width \in {1, 2},
         NEW structure \in Domains, NEW value \in Domains,
         NEW count \in -1 .. LogicalSize(extents) + 1,
         CudaGenerateSparseUniform01(extents, count, width, structure, value)
  PROVE  ExactInv'
<1>1. CASE Refuse(SparseStatus(extents, count, width, structure, value))
  BY <1>1, NoCallExact DEF Refuse, ExactInv
<1>2. CASE ~Refuse(SparseStatus(extents, count, width, structure, value))
  <2>1. /\ SparseStatus(extents, count, width, structure, value) = "kOk"
        /\ array' = [slot \in 1 .. count * Len(extents) |-> "unset"]
    BY <1>2 DEF CudaGenerateSparseUniform01
  <2>2. PICK words \in Words(extents, count) :
          call' = [SparseCall("slots", extents, count, width, structure, value, words)
                     EXCEPT !.phase = IF count = 0 THEN "done"
                                      ELSE IF extents = <<>> THEN "fill" ELSE "select"]
    BY <1>2 DEF CudaGenerateSparseUniform01, SelectsOrdinals
  <2>3. PICK start : start = SparseCall("slots", extents, count, width, structure, value, words)
    OBVIOUS
  <2>4. SparseStart(start, "slots", extents, count)
    BY <2>3, SparseFields
  <2>5. PICK new, stored : new = call' /\ stored = array'
    OBVIOUS
  <2>6. PICK phase : phase = IF count = 0 THEN "done"
                             ELSE IF extents = <<>> THEN "fill" ELSE "select"
    OBVIOUS
  <2>7. /\ DOMAIN new = DOMAIN start
        /\ new.phase = phase /\ new.kind = "slots" /\ new.status = "kOk"
        /\ new.extents = extents /\ new.count = count
        /\ new.dimension = Len(extents) /\ new.divisor = 1
        /\ new.priority = start.priority
    BY <2>2, <2>3, <2>4, <2>5, <2>6 DEF SparseStart
  <2>8. /\ {"kind", "phase", "status", "extents", "count", "priority", "dimension", "divisor"}
              \subseteq DOMAIN new
        /\ new.priority \in [Ordinals(new.extents) -> Nat]
    BY <2>4, <2>7 DEF SparseStart
  <2>9. extents \in Seq(Nat) /\ Len(extents) \in Nat /\ count \in 0 .. LogicalSize(extents)
    BY <2>1, AcceptedCount, ShapeIsSequence
  <2>10. DOMAIN stored = 1 .. new.count * Len(new.extents)
    BY <2>1, <2>5, <2>7
  <2>11. phase = "select" => Len(extents) > 0
    BY <2>6, <2>9
  <2>12. phase \in {"fill", "done"} => Decoding(extents, Sorted(new), count, stored, 0)
    <3> SUFFICES ASSUME phase \in {"fill", "done"}
                 PROVE  Decoding(extents, Sorted(new), count, stored, 0)
      OBVIOUS
    <3>1. count = 0 \/ Len(extents) = 0
      BY <2>6
    <3> QED
      BY <3>1, <2>9 DEF Decoding
  <2>13. phase \in {"select", "fill", "done"}
    BY <2>6
  <2>14. SlotsExact(new, stored)
    BY <2>7, <2>8, <2>9, <2>10, <2>11, <2>12, <2>13 DEF SlotsExact
  <2> QED
    BY <2>5, <2>7, <2>14 DEF ExactInv, CallExact
<1> QED
  BY <1>1, <1>2

(* The chosen ordinals are sorted, and ordinals of the shape.               *)
LEMMA SortedFacts ==
  ASSUME NEW extents \in Shapes, NEW count \in 0 .. LogicalSize(extents),
         NEW p \in [Ordinals(extents) -> Nat], NEW sorted,
         sorted = Inserted(InOrderOfPriority(p, count))
  PROVE  /\ extents \in Seq(Nat) /\ Len(extents) \in Nat /\ count \in Nat
         /\ Lists(sorted, Least(p, count), count)
         /\ \A k \in 1 .. count : sorted[k] \in Ordinals(extents)
<1>1. PICK N \in Nat : N = LogicalSize(extents)
  BY ShapeIsSequence
<1>2. p \in [0 .. N - 1 -> Nat] /\ count \in 0 .. N
  BY <1>1 DEF Ordinals
<1>3. Lists(sorted, Least(p, count), count)
  <2>1. Lists(Inserted(InOrderOfPriority(p, count)), Least(p, count), count)
    BY <1>2, DeviceSorts
  <2> QED
    BY <2>1
<1>4. Least(p, count) \subseteq Ordinals(extents)
  BY DEF Least
<1> QED
  BY <1>2, <1>3, <1>4, ShapeIsSequence DEF Lists

(* What SlotsExact says of the call, in names that no step changes          *)
SlotCall(c, a, extents, count, p) ==
  /\ {"kind", "phase", "status", "extents", "count", "priority", "dimension", "divisor"}
       \subseteq DOMAIN c
  /\ c.kind = "slots" /\ c.status = "kOk"
  /\ c.extents = extents /\ c.count = count /\ c.priority = p
  /\ DOMAIN a = 1 .. count * Len(extents)

(* The first kernel puts the sorted ordinals into the slots of the first dimension. *)
LEMMA SelectExact ==
  ASSUME ExactInv, SelectCanonicalOrdinals
  PROVE  ExactInv'
<1>1. SlotsExact(call, array) /\ call.phase = "select"
  BY DEF SelectCanonicalOrdinals, ExactInv, CallExact
<1>2. PICK c, a : c = call /\ a = array
  OBVIOUS
<1>3. PICK extents \in Shapes, count \in 0 .. LogicalSize(call.extents),
           p \in [Ordinals(call.extents) -> Nat] :
        extents = call.extents /\ SlotCall(c, a, extents, count, p)
  BY <1>1, <1>2 DEF SlotsExact, SlotCall
<1>4. count \in 0 .. LogicalSize(extents) /\ p \in [Ordinals(extents) -> Nat]
  BY <1>3
<1>5. Len(extents) > 0 /\ c.dimension = Len(extents) /\ c.divisor = 1
  BY <1>1, <1>2, <1>3 DEF SlotsExact
<1>6. PICK sorted : sorted = Inserted(InOrderOfPriority(p, count))
  OBVIOUS
<1>7. /\ extents \in Seq(Nat) /\ Len(extents) \in Nat /\ count \in Nat
      /\ Lists(sorted, Least(p, count), count)
      /\ \A k \in 1 .. count : sorted[k] \in Ordinals(extents)
  BY <1>4, <1>6, SortedFacts
<1>8. PICK new, stored : new = call' /\ stored = array'
  OBVIOUS
<1>9. new = [c EXCEPT !.phase = "decode"]
  BY <1>2, <1>8 DEF SelectCanonicalOrdinals
<1>10. stored = [slot \in DOMAIN a |->
                   IF \E k \in 1 .. count : slot = (k - 1) * Len(extents) + 1
                   THEN sorted[CHOOSE k \in 1 .. count : slot = (k - 1) * Len(extents) + 1]
                   ELSE a[slot]]
  <2>1. /\ call.count = count /\ call.priority = p /\ call.extents = extents
    BY <1>2, <1>3 DEF SlotCall
  <2>2. stored = [slot \in DOMAIN array |->
                    IF \E k \in 1 .. count : slot = (k - 1) * Len(extents) + 1
                    THEN Inserted(InOrderOfPriority(p, count))[
                           CHOOSE k \in 1 .. count : slot = (k - 1) * Len(extents) + 1]
                    ELSE array[slot]]
    BY <1>8, <2>1, Zenon DEF SelectCanonicalOrdinals, Slots, Slot, Inserted
  <2> QED
    BY <1>2, <1>6, <2>2, Zenon
<1>11. IsSelected(stored, a, Len(extents), count, sorted)
  BY <1>10, Zenon DEF IsSelected, SlotAt
<1>12. /\ DOMAIN stored = 1 .. count * Len(extents)
       /\ \A k \in 1 .. count : stored[SlotAt(Len(extents), k, 1)] = sorted[k]
  <2>1. PICK n \in Nat : n = Len(extents)
    BY <1>7
  <2>2. n > 0 /\ DOMAIN a = 1 .. count * n /\ IsSelected(stored, a, n, count, sorted)
    BY <1>3, <1>5, <1>11, <2>1 DEF SlotCall
  <2>3. /\ DOMAIN stored = 1 .. count * n
        /\ \A k \in 1 .. count : stored[SlotAt(n, k, 1)] = sorted[k]
    BY <1>7, <2>2, SelectedSlots
  <2> QED
    BY <2>1, <2>3
<1>13. SlotCall(new, stored, extents, count, p) /\ new.phase = "decode"
       /\ new.dimension = Len(extents) /\ new.divisor = 1
  BY <1>3, <1>5, <1>9, <1>12 DEF SlotCall
<1>14. Decoding(extents, sorted, count, stored, Len(extents))
  BY <1>7, <1>12 DEF Decoding
<1>15. new.divisor = Suffix(extents, new.dimension) /\ new.dimension \in 1 .. Len(extents)
  BY <1>5, <1>7, <1>13, WeightFacts
<1>16. Sorted(new) = sorted
  BY <1>6, <1>13 DEF Sorted, SlotCall
<1>17. SlotsExact(new, stored)
  BY <1>4, <1>13, <1>14, <1>15, <1>16 DEF SlotsExact, SlotCall
<1> QED
  BY <1>8, <1>13, <1>17 DEF ExactInv, CallExact

(* Each launch decodes one dimension, the first last.                       *)
LEMMA DecodeExact ==
  ASSUME ExactInv, DecodeCoordinateDimension
  PROVE  ExactInv'
<1>1. SlotsExact(call, array) /\ call.phase = "decode"
  BY DEF DecodeCoordinateDimension, ExactInv, CallExact
<1>2. PICK c, a : c = call /\ a = array
  OBVIOUS
<1>3. PICK extents \in Shapes, count \in 0 .. LogicalSize(call.extents),
           p \in [Ordinals(call.extents) -> Nat] :
        extents = call.extents /\ SlotCall(c, a, extents, count, p)
  BY <1>1, <1>2 DEF SlotsExact, SlotCall
<1>4. count \in 0 .. LogicalSize(extents) /\ p \in [Ordinals(extents) -> Nat]
  BY <1>3
<1>6. PICK sorted : sorted = Inserted(InOrderOfPriority(p, count))
  OBVIOUS
<1>61. Sorted(c) = sorted
  BY <1>3, <1>6 DEF Sorted, SlotCall
<1>50. PICK d \in 1 .. Len(extents) :
         /\ d = c.dimension /\ c.divisor = Suffix(extents, d)
         /\ Decoding(extents, sorted, count, a, d)
  BY <1>1, <1>2, <1>3, <1>61 DEF SlotsExact, SlotCall
<1>5. PICK divisor :
        /\ d = c.dimension /\ divisor = c.divisor
        /\ divisor = Suffix(extents, d) /\ Decoding(extents, sorted, count, a, d)
  BY <1>50
<1>7. /\ extents \in Seq(Nat) /\ Len(extents) \in Nat /\ count \in Nat
      /\ Lists(sorted, Least(p, count), count)
      /\ \A k \in 1 .. count : sorted[k] \in Ordinals(extents)
  BY <1>4, <1>6, SortedFacts
<1>8. PICK new, stored : new = call' /\ stored = array'
  OBVIOUS
<1>9. new = [c EXCEPT !.dimension = FollowingDimension(@), !.divisor = @ * extents[d],
                      !.phase = IF d = 1 THEN "fill" ELSE "decode"]
  BY <1>2, <1>3, <1>5, <1>8 DEF DecodeCoordinateDimension
<1>10. IsDecoded(stored, a, Len(extents), count, d, divisor, extents[d])
  <2>1. /\ call.count = count /\ call.extents = extents
        /\ call.dimension = d /\ call.divisor = divisor
    BY <1>2, <1>3, <1>5 DEF SlotCall
  <2>2. stored = [slot \in DOMAIN array |->
                    IF \E k \in 1 .. count : slot = (k - 1) * Len(extents) + d
                    THEN (array[slot - d + 1] \div divisor) % extents[d]
                    ELSE array[slot]]
    BY <1>8, <2>1, Zenon DEF DecodeCoordinateDimension, Slots, Slot
  <2> QED
    BY <1>2, <2>2, Zenon DEF IsDecoded, SlotAt
<1>11. /\ DOMAIN stored = 1 .. count * Len(extents)
       /\ Decoding(extents, sorted, count, stored, d - 1)
       /\ divisor * extents[d] = Suffix(extents, d - 1)
  <2>1. DecodeReady(extents, sorted, count, a, d)
    BY <1>3, <1>5, <1>7 DEF SlotCall, DecodeReady
  <2>2. Decodes(stored, a, extents, count, d)
    BY <1>5, <1>10 DEF Decodes
  <2>3. /\ DecodeReady(extents, sorted, count, stored, d - 1)
        /\ Suffix(extents, d) * extents[d] = Suffix(extents, d - 1)
    BY <1>7, <2>1, <2>2, DecodingStep
  <2> QED
    BY <1>5, <2>3 DEF DecodeReady
<1>12. /\ SlotCall(new, stored, extents, count, p)
       /\ new.phase = (IF d = 1 THEN "fill" ELSE "decode")
       /\ new.dimension = d - 1 /\ new.divisor = divisor * extents[d]
  BY <1>3, <1>5, <1>9, <1>11 DEF SlotCall, FollowingDimension
<1>13. Sorted(new) = sorted
  BY <1>6, <1>12 DEF Sorted, SlotCall
<1>14. CASE d = 1
  <2>1. new.phase = "fill" /\ Decoding(extents, sorted, count, stored, 0)
    <3>1. d - 1 = 0
      BY <1>14
    <3> QED
      BY <1>11, <1>12, <1>14, <3>1
  <2>2. SlotsExact(new, stored)
    BY <1>4, <1>12, <1>13, <2>1 DEF SlotsExact, SlotCall
  <2> QED
    BY <1>8, <2>1, <2>2 DEF ExactInv, CallExact
<1>15. CASE d # 1
  <2>1. new.phase = "decode" /\ new.dimension \in 1 .. Len(extents)
    BY <1>7, <1>12, <1>15
  <2>2. SlotsExact(new, stored)
    BY <1>4, <1>11, <1>12, <1>13, <2>1 DEF SlotsExact, SlotCall
  <2> QED
    BY <1>8, <2>1, <2>2 DEF ExactInv, CallExact
<1> QED
  BY <1>14, <1>15

(* The kernel of the values leaves the slots alone.                         *)
LEMMA FillValuesExact ==
  ASSUME ExactInv, FillValues
  PROVE  ExactInv'
<1>1. PICK c, a, new : c = call /\ a = array /\ new = call'
  OBVIOUS
<1>2. SlotsExact(c, a) /\ c.phase = "fill"
  BY <1>1 DEF FillValues, ExactInv, CallExact
<1>3. new = [c EXCEPT !.phase = "done"] /\ array' = a
  BY <1>1 DEF FillValues
<1>4. Sorted(new) = Sorted(c)
  BY <1>2, <1>3 DEF SlotsExact, Sorted
<1>5. /\ DOMAIN new = DOMAIN c /\ new.phase = "done"
      /\ new.kind = c.kind /\ new.status = c.status /\ new.extents = c.extents
      /\ new.count = c.count /\ new.priority = c.priority
  BY <1>2, <1>3 DEF SlotsExact
<1>6. SlotsExact(new, a)
  BY <1>2, <1>4, <1>5 DEF SlotsExact
<1> QED
  BY <1>1, <1>3, <1>5, <1>6 DEF ExactInv, CallExact, SlotsExact

LEMMA InitExact == Init => ExactInv
BY NoCallExact DEF Init, ExactInv

(* Every step keeps what was stored exact.                                  *)
LEMMA NextExact == IInv /\ ExactInv /\ [Next]_vars => ExactInv'
<1> SUFFICES ASSUME IInv, ExactInv, [Next]_vars PROVE ExactInv'
  OBVIOUS
<1>1. ASSUME NEW status, call' = NoCall(status) PROVE ExactInv'
  BY <1>1, NoCallExact DEF ExactInv
<1>2. ASSUME Call PROVE ExactInv'
  <2>1. CASE RefuseContext
    BY <1>1, <2>1 DEF RefuseContext, Refuse
  <2>2. ASSUME NEW extents \in Shapes, NEW structure \in Domains, NEW value \in Domains,
               NEW width \in {1, 2}, NEW count \in -1 .. LogicalSize(extents) + 1,
               \/ GenerateSparseUniform01(extents, count, width, structure, value)
               \/ CudaGenerateSparseUniform01(extents, count, width, structure, value)
        PROVE  ExactInv'
    BY <2>2, HostExact, CudaExact
  <2>3. ASSUME NEW extents \in Shapes, NEW domain \in Domains,
               NEW count \in -1 .. LogicalSize(extents) + 1, NEW output, NEW workspace,
               GenerateSparseStructure(extents, count, output, workspace, domain)
        PROVE  ExactInv'
    BY <2>3, WorkspaceStructureExact
  <2>4. ASSUME NEW domain \in Domains, NEW elements \in 0 .. 3, NEW width \in {1, 2},
               FillWords(domain, elements, width)
        PROVE  ExactInv'
    BY <1>1, <2>4 DEF FillWords, Refuse
  <2>5. ASSUME NEW domain \in Domains, NEW layout \in Layouts, NEW width \in {1, 2},
               FillDenseUniform01(domain, layout, width)
        PROVE  ExactInv'
    BY <2>5, DenseUniformExact
  <2> QED
    BY <1>2, <2>1, <2>2, <2>3, <2>4, <2>5 DEF Call
<1>3. CASE TakeResult
  BY <1>1, <1>3 DEF TakeResult
<1>4. CASE UNCHANGED vars
  BY <1>4 DEF vars, ExactInv
<1> QED
  BY <1>2, <1>3, <1>4, SelectExact, DecodeExact, FillValuesExact DEF Next

(* The slots of a finished call hold the coordinates of the sorted ordinals. *)
LEMMA SlotsStored ==
  ASSUME call.phase = "done", SlotsExact(call, array)
  PROVE  SparseExact(call.extents, call.priority, call.count, Stored)
<1>1. PICK c, a : c = call /\ a = array
  OBVIOUS
<1>2. PICK extents \in Shapes, count \in 0 .. LogicalSize(call.extents),
           p \in [Ordinals(call.extents) -> Nat] :
        extents = call.extents /\ SlotCall(c, a, extents, count, p)
  BY <1>1 DEF SlotsExact, SlotCall
<1>3. count \in 0 .. LogicalSize(extents) /\ p \in [Ordinals(extents) -> Nat]
  BY <1>2
<1>4. PICK sorted : sorted = Inserted(InOrderOfPriority(p, count))
  OBVIOUS
<1>5. /\ extents \in Seq(Nat) /\ Len(extents) \in Nat /\ count \in Nat
      /\ Lists(sorted, Least(p, count), count)
      /\ \A k \in 1 .. count : sorted[k] \in Ordinals(extents)
  BY <1>3, <1>4, SortedFacts
<1>6. Decoding(extents, sorted, count, a, 0)
  <2>1. Sorted(c) = sorted
    BY <1>2, <1>4 DEF Sorted, SlotCall
  <2> QED
    BY <1>1, <1>2, <2>1 DEF SlotsExact, SlotCall
<1>7. \A k \in 1 .. count :
        [d \in DOMAIN extents |-> a[SlotAt(Len(extents), k, d)]]
          = CoordinateFromOrdinal(sorted[k], extents)
  <2> TAKE k \in 1 .. count
  <2>1. PICK o \in Ordinals(extents) : o = sorted[k]
    BY <1>5
  <2>2. PICK q : CoordinateFromOrdinal(o, extents) =
                   [d \in 1 .. Len(extents) |-> q[d] % extents[d]]
    BY <1>5, CoordinateDigits
  <2>3. PICK t : t = CoordinateFromOrdinal(o, extents)
    OBVIOUS
  <2>4. t = [d \in 1 .. Len(extents) |-> t[d]]
    BY <2>2, <2>3
  <2>5. \A d \in 1 .. Len(extents) : a[SlotAt(Len(extents), k, d)] = t[d]
    BY <1>5, <1>6, <2>1, <2>3 DEF Decoding
  <2>6. DOMAIN extents = 1 .. Len(extents)
    BY <1>5
  <2>7. [d \in 1 .. Len(extents) |-> a[SlotAt(Len(extents), k, d)]] = t
    BY <2>4, <2>5
  <2> QED
    BY <2>1, <2>3, <2>6, <2>7
<1>8. PICK stored : stored = [k \in 1 .. count |-> CoordinateFromOrdinal(sorted[k], extents)]
  OBVIOUS
<1>9. Stored = stored
  <2>1. call.kind = "slots" /\ call.count = count /\ call.extents = extents
    BY <1>1, <1>2 DEF SlotCall
  <2>2. Stored = [k \in 1 .. count |->
                    [d \in DOMAIN extents |-> array[(k - 1) * Len(extents) + d]]]
    BY <2>1, Zenon DEF Stored, Slot
  <2>3. Stored = [k \in 1 .. count |->
                    [d \in DOMAIN extents |-> a[SlotAt(Len(extents), k, d)]]]
    BY <1>1, <2>2, Zenon DEF SlotAt
  <2> QED
    BY <1>7, <1>8, <2>3
<1>10. SparseExact(extents, p, count, stored)
  BY <1>3, <1>5, <1>8, CanonicalSequence
<1> QED
  BY <1>1, <1>2, <1>9, <1>10 DEF SlotCall

(* Whatever the ties, a finished sparse call of either facet has stored     *)
(* exactly the elements of least priority, each once and in canonical order *)
(* (the builder on the host, the cutoff of the workspace, the kernels that  *)
(* insert and decode), and a dense call has put each element's words where  *)
(* the view keeps that element.                                             *)
THEOREM Exact == Spec => []GenerationIsExact
<1>1. Init => IInv /\ ExactInv
  BY InitIInv, InitExact
<1>2. IInv /\ ExactInv /\ [Next]_vars => IInv' /\ ExactInv'
  BY NextIInv, NextExact
<1>3. ExactInv => GenerationIsExact
  <2> SUFFICES ASSUME ExactInv, call.phase = "done" PROVE GenerationIsExact
    BY DEF GenerationIsExact
  <2>1. CASE call.kind = "slots"
    <3>1. SlotsExact(call, array) /\ call.status = "kOk"
      BY <2>1 DEF ExactInv, CallExact, SlotsExact
    <3>2. SparseExact(call.extents, call.priority, call.count, Stored)
      BY <3>1, SlotsStored
    <3> QED
      BY <2>1, <3>1, <3>2 DEF GenerationIsExact, SparseExact
  <2>2. CASE call.kind # "slots"
    <3>1. StoredExact(call, array) /\ Stored = array
      BY <2>2 DEF ExactInv, CallExact, Stored
    <3>2. CASE call.kind = "coordinates"
      BY <3>1, <3>2 DEF GenerationIsExact, StoredExact, SparseExact
    <3>3. CASE call.kind = "ordinals"
      BY <3>1, <3>3 DEF GenerationIsExact, StoredExact
    <3>4. CASE call.kind = "dense"
      <4>1. call.status = "kOk" /\ DenseExact(call.layout, call.first, call.width, array)
        BY <3>1, <3>4 DEF StoredExact
      <4> QED
        BY <3>4, <4>1, Zenon DEF GenerationIsExact, DenseExact, Summed
    <3> QED
      BY <3>1, <3>2, <3>3, <3>4 DEF StoredExact
  <2> QED
    BY <2>1, <2>2
<1> QED
  BY <1>1, <1>2, <1>3, PTL DEF Spec
=============================================================================

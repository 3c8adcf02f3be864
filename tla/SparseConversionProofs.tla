----------------------- MODULE SparseConversionProofs ------------------------
(***************************************************************************)
(* Proofs about SparseConversion, for every shape of rank two, every array *)
(* a caller may offer and every number of entries: owners store exactly    *)
(* their matrix through creation, evaluation and conversion, only          *)
(* arrays that store nothing are refused, and Lookup reads every entry.    *)
(*                                                                         *)
(* Three facts carry the argument. In canonical arrays the entry p stands  *)
(* for the p-th coordinate of what is stored, and an offset counts those   *)
(* of the rows before it; so storage and set determine each other. Two     *)
(* positions of one row have the same order in every format, so a          *)
(* conversion that appends them in the order of the source sorts them. It  *)
(* has seen as many entries as it has written, so it never writes past the *)
(* end.                                                                    *)
(***************************************************************************)
EXTENDS SparseConversion, FiniteSetTheorems, WellFoundedInduction, TLAPS

-----------------------------------------------------------------------------
(* The least element of a set of natural numbers, and induction. *)

(* A set of naturals has a least element.                                   *)
LEMMA LeastNat ==
  ASSUME NEW S, S \subseteq Nat, S # {}
  PROVE  \E x \in S : \A y \in S : x <= y
<1> DEFINE Less == {ss \in Nat \X Nat : ss[1] < ss[2]}
<1>1. IsWellFoundedOn(Less, Nat)
  BY NatLessThanWellFounded, Zenon DEF OpToRel
<1>2. \E x \in S : \A y \in S : ~(<<y, x>> \in Less)
  <2> HIDE DEF Less
  <2> QED
    BY <1>1, WFMin, Zenon
<1>3. PICK x \in S : \A y \in S : ~(<<y, x>> \in Less)
  BY <1>2
<1>4. ASSUME NEW y \in S
      PROVE  x <= y
  <2>1. <<y, x>> \notin Less /\ y \in Nat /\ x \in Nat
    BY <1>3
  <2>2. ~(y < x)
    BY <2>1
  <2> QED
    BY <2>1, <2>2
<1> QED
  BY <1>4

(* Induction over a set of naturals.                                        *)
LEMMA NatInd ==
  ASSUME NEW S, 0 \in S, \A n \in Nat : n \in S => n + 1 \in S
  PROVE  Nat \subseteq S
<1> SUFFICES ASSUME NEW m \in Nat, m \notin S
             PROVE  FALSE
  OBVIOUS
<1> DEFINE T == {n \in Nat : n \notin S}
<1>1. PICK x \in T : \A y \in T : x <= y
  <2>1. T \subseteq Nat /\ T # {}
    OBVIOUS
  <2> HIDE DEF T
  <2> QED
    BY <2>1, LeastNat
<1>2. x # 0 /\ x \in Nat
  OBVIOUS
<1>3. x - 1 \in Nat /\ x - 1 \notin T
  BY <1>1, <1>2
<1>4. x - 1 \in S
  BY <1>3
<1>5. (x - 1) + 1 = x
  BY <1>2
<1>6. x \in S
  BY <1>3, <1>4, <1>5
<1> QED
  BY <1>6

-----------------------------------------------------------------------------
(* Positions and their order in each format. *)

Less(f, b, a) ==
  IF f = "coordinate" THEN Precedes(b, a)
  ELSE \/ OuterOf(f, b) < OuterOf(f, a)
       \/ OuterOf(f, b) = OuterOf(f, a) /\ InnerOf(f, b) < InnerOf(f, a)

(* What the assumptions say of the constants.                               *)
LEMMA ShapeFacts ==
  /\ DOMAIN Shape = 1 .. 2 /\ Shape[1] \in Nat /\ Shape[2] \in Nat
  /\ MaxStored \in Nat /\ Indices \subseteq Int /\ Offsets \subseteq Int
  /\ \A f \in Compressed : OuterExtent(f) \in Nat /\ InnerExtent(f) \in Nat
<1>1. DOMAIN Shape = 1 .. 2 /\ Shape[1] \in Nat /\ Shape[2] \in Nat
  BY ShapeAssumption, ConversionAssumption
<1> QED
  BY <1>1, ShapeAssumption, ConversionAssumption
     DEF Compressed, OuterExtent, InnerExtent, OuterOf, InnerOf

(* A position lies inside the shape, and is made of its outer and inner     *)
(* index.                                                                   *)
LEMMA PositionFacts ==
  ASSUME NEW a \in Positions
  PROVE  /\ a = <<a[1], a[2]>> /\ a[1] \in Int /\ a[2] \in Int
         /\ 0 <= a[1] /\ a[1] < Shape[1] /\ 0 <= a[2] /\ a[2] < Shape[2]
         /\ InBounds(a)
         /\ \A f \in Compressed :
              /\ OuterOf(f, a) \in 0 .. OuterExtent(f) - 1
              /\ InnerOf(f, a) \in 0 .. InnerExtent(f) - 1
              /\ At(f, OuterOf(f, a), InnerOf(f, a)) = a
<1>1. Shape[1] \in Nat /\ Shape[2] \in Nat
  BY ShapeFacts
<1>2. /\ a = <<a[1], a[2]>> /\ a[1] \in Int /\ a[2] \in Int
      /\ 0 <= a[1] /\ a[1] < Shape[1] /\ 0 <= a[2] /\ a[2] < Shape[2]
  BY <1>1 DEF Positions
<1>3. InBounds(a)
  <2>1. \A d \in 1 .. 2 : d = 1 \/ d = 2
    OBVIOUS
  <2> QED
    BY <1>2, <2>1, ShapeFacts DEF InBounds
<1>4. ASSUME NEW f \in Compressed
      PROVE  /\ OuterOf(f, a) \in 0 .. OuterExtent(f) - 1
             /\ InnerOf(f, a) \in 0 .. InnerExtent(f) - 1
             /\ At(f, OuterOf(f, a), InnerOf(f, a)) = a
  BY <1>1, <1>2 DEF Compressed, OuterOf, InnerOf, OuterExtent, InnerExtent, At
<1> QED
  BY <1>2, <1>3, <1>4

(* An outer and an inner index inside their extents make a position.        *)
LEMMA AtFacts ==
  ASSUME NEW f \in Compressed, NEW o \in 0 .. OuterExtent(f) - 1,
         NEW i \in 0 .. InnerExtent(f) - 1
  PROVE  /\ At(f, o, i) \in Positions
         /\ OuterOf(f, At(f, o, i)) = o /\ InnerOf(f, At(f, o, i)) = i
BY ShapeFacts DEF Compressed, OuterOf, InnerOf, OuterExtent, InnerExtent, At, Positions

(* A coordinate inside the shape is a position.                             *)
LEMMA PositionFrom ==
  ASSUME NEW a \in Coordinates, InBounds(a)
  PROVE  a \in Positions
<1>1. a \in [1 .. 2 -> Indices]
  BY ShapeFacts DEF Coordinates
<1>2. a = <<a[1], a[2]>>
  <2>1. a = [d \in 1 .. 2 |-> a[d]]
    BY <1>1
  <2>2. <<a[1], a[2]>> = [d \in 1 .. 2 |-> a[d]]
    <3>1. \A d \in 1 .. 2 : d = 1 \/ d = 2
      OBVIOUS
    <3>2. \A d \in 1 .. 2 : <<a[1], a[2]>>[d] = a[d]
      BY <3>1
    <3> QED
      BY <3>2
  <2> QED
    BY <2>1, <2>2
<1>3. a[1] \in Int /\ a[2] \in Int
  <2>1. a[1] \in Indices /\ a[2] \in Indices
    BY <1>1
  <2> QED
    BY <2>1, ShapeFacts
<1>4. a[1] \in 0 .. Shape[1] - 1 /\ a[2] \in 0 .. Shape[2] - 1
  BY <1>3, ShapeFacts DEF InBounds
<1> QED
  BY <1>2, <1>4 DEF Positions

(* On positions the coordinate order is the order by rows. *)
LEMMA LessFacts ==
  ASSUME NEW f \in Formats, NEW b \in Positions, NEW a \in Positions
  PROVE  Less(f, b, a) <=>
           IF f = "csc" THEN b[2] < a[2] \/ (b[2] = a[2] /\ b[1] < a[1])
           ELSE b[1] < a[1] \/ (b[1] = a[1] /\ b[2] < a[2])
<1>1. CASE f = "coordinate"
  <2>1. Less(f, b, a) <=> \E d \in 1 .. 2 : b[d] < a[d] /\ \A e \in 1 .. d - 1 : b[e] = a[e]
    BY <1>1, ShapeFacts DEF Less, Precedes
  <2>2. \A d \in 1 .. 2 : d = 1 \/ d = 2
    OBVIOUS
  <2>3. \A e \in 1 .. 1 - 1 : b[e] = a[e]
    OBVIOUS
  <2>4. (\A e \in 1 .. 2 - 1 : b[e] = a[e]) <=> b[1] = a[1]
    <3>1. 1 \in 1 .. 2 - 1 /\ \A e \in 1 .. 2 - 1 : e = 1
      OBVIOUS
    <3> QED
      BY <3>1, Zenon
  <2>5. 1 \in 1 .. 2 /\ 2 \in 1 .. 2
    OBVIOUS
  <2>6. (\E d \in 1 .. 2 : b[d] < a[d] /\ \A e \in 1 .. d - 1 : b[e] = a[e])
          <=> \/ b[1] < a[1] /\ \A e \in 1 .. 1 - 1 : b[e] = a[e]
              \/ b[2] < a[2] /\ \A e \in 1 .. 2 - 1 : b[e] = a[e]
    BY <2>2, <2>5, Zenon
  <2>7. f # "csc"
    BY <1>1
  <2>8. Less(f, b, a) <=> b[1] < a[1] \/ (b[2] < a[2] /\ b[1] = a[1])
    BY <2>1, <2>3, <2>4, <2>6, Zenon
  <2> QED
    BY <2>7, <2>8
<1>2. CASE f # "coordinate"
  BY <1>2 DEF Less, OuterOf, InnerOf, Formats, Compressed
<1> QED
  BY <1>1, <1>2

(* The order of a format is a strict total order of the positions.          *)
LEMMA LessOrder ==
  ASSUME NEW f \in Formats, NEW a \in Positions, NEW b \in Positions, NEW c \in Positions
  PROVE  /\ ~Less(f, a, a)
         /\ Less(f, a, b) /\ Less(f, b, c) => Less(f, a, c)
         /\ a # b => Less(f, a, b) \/ Less(f, b, a)
<1>1. /\ a = <<a[1], a[2]>> /\ b = <<b[1], b[2]>>
      /\ a[1] \in Int /\ a[2] \in Int /\ b[1] \in Int /\ b[2] \in Int
      /\ c[1] \in Int /\ c[2] \in Int
  BY PositionFacts
<1>2. a # b => a[1] # b[1] \/ a[2] # b[2]
  BY <1>1
<1>3. ~Less(f, a, a)
  BY <1>1, LessFacts
<1>4. Less(f, a, b) /\ Less(f, b, c) => Less(f, a, c)
  <2>1. CASE f = "csc"
    BY <1>1, <2>1, LessFacts
  <2>2. CASE f # "csc"
    BY <1>1, <2>2, LessFacts
  <2> QED
    BY <2>1, <2>2
<1>5. a # b => Less(f, a, b) \/ Less(f, b, a)
  <2>1. CASE f = "csc"
    BY <1>1, <1>2, <2>1, LessFacts
  <2>2. CASE f # "csc"
    BY <1>1, <1>2, <2>2, LessFacts
  <2> QED
    BY <2>1, <2>2
<1> QED
  BY <1>3, <1>4, <1>5

(* Where two positions share an outer index of one format, every format     *)
(* orders them alike.                                                       *)
LEMMA SameOuter ==
  ASSUME NEW f \in Formats, NEW t \in Compressed, NEW a \in Positions, NEW b \in Positions,
         Less(f, a, b), OuterOf(t, a) = OuterOf(t, b)
  PROVE  InnerOf(t, a) < InnerOf(t, b)
<1>1. /\ a[1] \in Int /\ a[2] \in Int /\ b[1] \in Int /\ b[2] \in Int
  BY PositionFacts
<1>2. CASE f = "csc"
  BY <1>1, <1>2, LessFacts DEF OuterOf, InnerOf
<1>3. CASE f # "csc"
  BY <1>1, <1>3, LessFacts DEF OuterOf, InnerOf
<1> QED
  BY <1>2, <1>3

(* Before counts the coordinates that are less.                             *)
LEMMA BeforeIsLess ==
  ASSUME NEW f, NEW S, NEW a
  PROVE  Before(f, S, a) = Cardinality({b \in S : Less(f, b, a)})
BY DEF Before, Less

-----------------------------------------------------------------------------
(* Counting. *)

(* There are n slots of n entries.                                          *)
LEMMA SlotsFacts ==
  ASSUME NEW n \in Nat
  PROVE  IsFiniteSet(Slots(n)) /\ Cardinality(Slots(n)) = n
BY FS_Interval DEF Slots

(* An injective function counts its image. *)
LEMMA ImageCount ==
  ASSUME NEW T, IsFiniteSet(T), NEW c, \A t, u \in T : c[t] = c[u] => t = u
  PROVE  IsFiniteSet({c[t] : t \in T}) /\ Cardinality({c[t] : t \in T}) = Cardinality(T)
<1> DEFINE image == {c[t] : t \in T}
           g == [t \in T |-> c[t]]
<1>1. g \in Injection(T, image) /\ g \in Surjection(T, image)
  BY DEF Injection, Surjection, IsInjective
<1>2. ExistsBijection(T, image)
  BY <1>1 DEF ExistsBijection, Bijection
<1> HIDE DEF image
<1>3. IsFiniteSet(image) /\ Cardinality(image) = Cardinality(T)
  BY <1>2, FS_Bijection
<1> QED
  BY <1>3 DEF image

(* The rank of an element: how many elements of T are before it. *)
RankIn(f, T, c, t) == Cardinality({r \in T : Less(f, c[r], c[t])})

(* Ranks number the elements of T from zero, in their order.                *)
LEMMA RankOnto ==
  ASSUME NEW f \in Formats, NEW T, IsFiniteSet(T), NEW c,
         \A t \in T : c[t] \in Positions, \A t, u \in T : c[t] = c[u] => t = u
  PROVE  /\ \A t \in T : RankIn(f, T, c, t) \in 0 .. Cardinality(T) - 1
         /\ \A t, u \in T : Less(f, c[t], c[u]) <=> RankIn(f, T, c, t) < RankIn(f, T, c, u)
         /\ \A t, u \in T : RankIn(f, T, c, t) = RankIn(f, T, c, u) => t = u
         /\ \A p \in 0 .. Cardinality(T) - 1 : \E t \in T : RankIn(f, T, c, t) = p
<1> DEFINE Below(t) == {r \in T : Less(f, c[r], c[t])}
           Rank(t) == Cardinality(Below(t))
<1>1. Cardinality(T) \in Nat
  BY FS_CardinalityType
<1>2. ASSUME NEW t \in T
      PROVE  IsFiniteSet(Below(t)) /\ Rank(t) \in Nat
  <2>1. Below(t) \in SUBSET T
    OBVIOUS
  <2> HIDE DEF Below
  <2> QED
    BY <2>1, FS_Subset, FS_CardinalityType
<1>3. ASSUME NEW t \in T
      PROVE  t \notin Below(t)
  BY LessOrder
<1>4. ASSUME NEW t \in T
      PROVE  Rank(t) \in 0 .. Cardinality(T) - 1
  <2>1. Below(t) \cup {t} \in SUBSET T
    OBVIOUS
  <2>2. t \notin Below(t)
    BY <1>3
  <2> HIDE DEF Below
  <2>3. Cardinality(Below(t) \cup {t}) = Rank(t) + 1
    BY <1>2, <2>2, FS_AddElement
  <2>4. Cardinality(Below(t) \cup {t}) <= Cardinality(T)
    BY <2>1, FS_Subset
  <2> QED
    BY <1>1, <1>2, <2>3, <2>4
<1>5. ASSUME NEW t \in T, NEW u \in T, Less(f, c[t], c[u])
      PROVE  Rank(t) < Rank(u)
  <2>1. Below(t) \cup {t} \in SUBSET Below(u)
    <3>1. ASSUME NEW r \in T, Less(f, c[r], c[t])
          PROVE  Less(f, c[r], c[u])
      <4>1. PICK x \in Positions : x = c[r]
        OBVIOUS
      <4>2. PICK y \in Positions : y = c[t]
        OBVIOUS
      <4>3. PICK z \in Positions : z = c[u]
        OBVIOUS
      <4>4. Less(f, x, y) /\ Less(f, y, z)
        BY <3>1, <1>5, <4>1, <4>2, <4>3
      <4> HIDE DEF Below, Rank
      <4>5. Less(f, x, z)
        BY <4>4, LessOrder
      <4> QED
        BY <4>1, <4>3, <4>5
    <3> QED
      BY <3>1, <1>5
  <2>2. t \notin Below(t)
    BY <1>3
  <2> HIDE DEF Below
  <2>3. Cardinality(Below(t) \cup {t}) = Rank(t) + 1
    BY <1>2, <2>2, FS_AddElement
  <2>4. Cardinality(Below(t) \cup {t}) <= Rank(u)
    BY <1>2, <2>1, FS_Subset
  <2> QED
    BY <1>2, <2>3, <2>4
<1>6. ASSUME NEW t \in T, NEW u \in T, t # u
      PROVE  Less(f, c[t], c[u]) \/ Less(f, c[u], c[t])
  <2>1. c[t] # c[u] /\ c[t] \in Positions /\ c[u] \in Positions
    BY <1>6
  <2> HIDE DEF Below, Rank
  <2> QED
    BY <2>1, LessOrder
<1> HIDE DEF Rank
<1>7. \A t, u \in T : Rank(t) = Rank(u) => t = u
  BY <1>4, <1>5, <1>6
<1>8. ASSUME NEW t \in T, NEW u \in T, Rank(t) < Rank(u)
      PROVE  Less(f, c[t], c[u])
  <2>1. Rank(t) \in Int /\ Rank(u) \in Int
    BY <1>4
  <2>2. t # u /\ ~(Rank(u) < Rank(t))
    BY <2>1, <1>8
  <2> QED
    BY <1>5, <1>6, <2>2
<1> DEFINE ranks == 0 .. Cardinality(T) - 1
           g == [t \in T |-> Rank(t)]
<1>9. g \in Injection(T, ranks)
  BY <1>4, <1>7 DEF Injection, IsInjective
<1>10. IsFiniteSet(ranks) /\ Cardinality(ranks) = Cardinality(T)
  BY <1>1, FS_Interval
<1>11. g \in Surjection(T, ranks)
  <2> HIDE DEF g, ranks
  <2> QED
    BY <1>9, <1>10, FS_Injection
<1>12. \A p \in ranks : \E t \in T : Rank(t) = p
  BY <1>11 DEF Surjection
<1>13. \A t \in T : Rank(t) \in ranks
  BY <1>4
<1>14. \A t, u \in T : Less(f, c[t], c[u]) <=> Rank(t) < Rank(u)
  BY <1>5, <1>8
<1>15. \A t : RankIn(f, T, c, t) = Rank(t)
  BY DEF RankIn, Rank
<1> HIDE DEF ranks
<1>16. \A p \in ranks : \E t \in T : RankIn(f, T, c, t) = p
  BY <1>12, <1>15
<1> QED
  BY <1>7, <1>13, <1>14, <1>15, <1>16 DEF ranks

(* A strictly increasing enumeration of positions. *)
LEMMA Chain ==
  ASSUME NEW f \in Formats, NEW n \in Nat, NEW c,
         \A p \in Slots(n) : c[p] \in Positions,
         \A p \in Slots(n) : p # 0 => Less(f, c[p - 1], c[p])
  PROVE  \A p, q \in Slots(n) : p < q => Less(f, c[p], c[q])
<1> DEFINE S == {k \in Nat : \A p, q \in Slots(n) : q = p + k + 1 => Less(f, c[p], c[q])}
<1>1. 0 \in S
  <2>1. ASSUME NEW p \in Slots(n), NEW q \in Slots(n), q = p + 0 + 1
        PROVE  Less(f, c[p], c[q])
    <3>1. q # 0 /\ p = q - 1
      BY <2>1 DEF Slots
    <3> QED
      BY <3>1
  <2> QED
    BY <2>1
<1>2. ASSUME NEW k \in Nat, k \in S
      PROVE  k + 1 \in S
  <2>1. ASSUME NEW p \in Slots(n), NEW q \in Slots(n), q = p + (k + 1) + 1
        PROVE  Less(f, c[p], c[q])
    <3>1. /\ q - 1 \in Slots(n) /\ q - 1 = p + k + 1 /\ q # 0
      BY <2>1 DEF Slots
    <3>2. PICK m \in Slots(n) : m = q - 1
      BY <3>1
    <3>3. PICK x \in Positions : x = c[p]
      OBVIOUS
    <3>4. PICK y \in Positions : y = c[m]
      OBVIOUS
    <3>5. PICK z \in Positions : z = c[q]
      OBVIOUS
    <3>6. Less(f, x, y)
      <4>1. m = p + k + 1
        BY <3>1, <3>2
      <4>2. Less(f, c[p], c[m])
        BY <1>2, <4>1
      <4> QED
        BY <4>2, <3>3, <3>4
    <3>7. Less(f, y, z)
      <4>1. Less(f, c[q - 1], c[q])
        BY <3>1
      <4> QED
        BY <4>1, <3>2, <3>4, <3>5
    <3> HIDE DEF S
    <3>8. Less(f, x, z)
      BY <3>6, <3>7, LessOrder
    <3> QED
      BY <3>3, <3>5, <3>8
  <2> QED
    BY <2>1
<1>3. Nat \subseteq S
  <2> HIDE DEF S
  <2> QED
    BY <1>1, <1>2, NatInd
<1>4. ASSUME NEW p \in Slots(n), NEW q \in Slots(n), p < q
      PROVE  Less(f, c[p], c[q])
  <2>1. q - p - 1 \in Nat /\ q = p + (q - p - 1) + 1
    BY <1>4 DEF Slots
  <2>2. PICK k \in Nat : k = q - p - 1
    BY <2>1
  <2>3. k \in S /\ q = p + k + 1
    BY <1>3, <2>1, <2>2
  <2> QED
    BY <2>3
<1> QED
  BY <1>4

(* In such an enumeration an entry stands at its rank. *)
LEMMA ChainRank ==
  ASSUME NEW f \in Formats, NEW n \in Nat, NEW c,
         \A p \in Slots(n) : c[p] \in Positions,
         \A p, q \in Slots(n) : p < q => Less(f, c[p], c[q])
  PROVE  LET S == {c[p] : p \in Slots(n)}
         IN  /\ \A p, q \in Slots(n) : c[p] = c[q] => p = q
             /\ IsFiniteSet(S) /\ Cardinality(S) = n
             /\ \A p \in Slots(n) : Before(f, S, c[p]) = p
<1> DEFINE S == {c[p] : p \in Slots(n)}
<1>1. ASSUME NEW p \in Slots(n), NEW q \in Slots(n), ~(p < q)
      PROVE  ~Less(f, c[p], c[q])
  <2>1. PICK x \in Positions : x = c[p]
    OBVIOUS
  <2>2. PICK y \in Positions : y = c[q]
    OBVIOUS
  <2>3. p = q \/ q < p
    BY <1>1 DEF Slots
  <2>4. CASE p = q
    BY <2>1, <2>2, <2>4, LessOrder
  <2>5. CASE q < p
    <3>1. Less(f, y, x)
      BY <2>1, <2>2, <2>5
    <3>2. ~Less(f, x, y)
      BY <3>1, LessOrder
    <3> QED
      BY <2>1, <2>2, <3>2
  <2> QED
    BY <2>3, <2>4, <2>5
<1>2. ASSUME NEW p \in Slots(n), NEW q \in Slots(n), c[p] = c[q]
      PROVE  p = q
  <2>1. ~Less(f, c[p], c[q]) /\ ~Less(f, c[q], c[p])
    BY <1>2, LessOrder
  <2>2. ~(p < q) /\ ~(q < p)
    BY <2>1
  <2> QED
    BY <2>2 DEF Slots
<1>3. IsFiniteSet(S) /\ Cardinality(S) = n
  BY <1>2, SlotsFacts, ImageCount
<1>4. ASSUME NEW p \in Slots(n)
      PROVE  Before(f, S, c[p]) = p
  <2>1. {b \in S : Less(f, b, c[p])} = {c[q] : q \in Slots(p)}
    <3>1. Slots(p) = {q \in Slots(n) : q < p}
      BY DEF Slots
    <3> QED
      BY <1>1, <3>1
  <2>2. p \in Nat /\ \A q \in Slots(p) : q \in Slots(n)
    BY DEF Slots
  <2>3. Cardinality({c[q] : q \in Slots(p)}) = p
    <3>1. \A t, u \in Slots(p) : c[t] = c[u] => t = u
      BY <1>2, <2>2
    <3>2. IsFiniteSet(Slots(p)) /\ Cardinality(Slots(p)) = p
      BY <2>2, SlotsFacts
    <3> HIDE DEF S
    <3> QED
      BY <3>1, <3>2, ImageCount
  <2> QED
    BY <2>1, <2>3, BeforeIsLess
<1> QED
  BY <1>2, <1>3, <1>4

(* Arrays of n entries in format f. *)
Shaped(f, s, n) ==
  /\ s = Storage(s.offsets, s.indices, s.values)
  /\ s.indices = [p \in Slots(n) |-> s.indices[p]]
  /\ s.values = [p \in Slots(n) |-> s.values[p]]
  /\ f \in Compressed => DOMAIN s.offsets = 0 .. OuterExtent(f)

(* Canonical arrays of integers and positions. *)
Sound(f, s, n) ==
  /\ Shaped(f, s, n)
  /\ f = "coordinate" => \A p \in Slots(n) : s.indices[p] \in Positions
  /\ f \in Compressed =>
       /\ \A o \in 0 .. OuterExtent(f) : s.offsets[o] \in Int
       /\ \A p \in Slots(n) : s.indices[p] \in Int
  /\ Canonical(f, s)

(* The coordinates of the n entries of s. *)
StoredAt(f, s, n) == {CoordinateOf(f, s, p) : p \in Slots(n)}

-----------------------------------------------------------------------------
(* What canonical arrays store. *)

(* How many entries arrays have, and where.                                 *)
LEMMA ShapedFacts ==
  ASSUME NEW f \in Formats, NEW s, NEW n \in Nat, Shaped(f, s, n)
  PROVE  /\ DOMAIN s.indices = Slots(n) /\ DOMAIN s.values = Slots(n) /\ Count(s) = n
         /\ f \in Compressed => DOMAIN s.offsets = 0 .. OuterExtent(f)
<1>1. DOMAIN s.indices = Slots(n) /\ DOMAIN s.values = Slots(n)
  BY DEF Shaped
<1>2. Count(s) = n
  BY <1>1, SlotsFacts DEF Count
<1> QED
  BY <1>1, <1>2 DEF Shaped

(* The offsets of canonical compressed storage never fall. *)
LEMMA OffsetsRise ==
  ASSUME NEW f \in Compressed, NEW s, NEW n \in Nat, Count(s) = n,
         \A o \in 0 .. OuterExtent(f) : s.offsets[o] \in Int, Canonical(f, s)
  PROVE  /\ s.offsets[0] = 0 /\ s.offsets[OuterExtent(f)] = n
         /\ \A o, q \in 0 .. OuterExtent(f) : o <= q => s.offsets[o] <= s.offsets[q]
         /\ \A o \in 0 .. OuterExtent(f) : 0 <= s.offsets[o] /\ s.offsets[o] <= n
<1>1. /\ f # "coordinate" /\ OuterExtent(f) \in Nat
  BY ShapeFacts DEF Compressed
<1>2. /\ s.offsets[0] = 0 /\ s.offsets[OuterExtent(f)] = n
      /\ \A o \in Slots(OuterExtent(f)) : CanonicalRow(f, s, o)
  BY <1>1 DEF Canonical
<1>3. \A o \in Slots(OuterExtent(f)) : s.offsets[o] <= s.offsets[o + 1]
  BY <1>2 DEF CanonicalRow
<1> DEFINE S == {k \in Nat : \A o, q \in 0 .. OuterExtent(f) :
                   q = o + k => s.offsets[o] <= s.offsets[q]}
<1>4. 0 \in S
  OBVIOUS
<1>5. ASSUME NEW k \in Nat, k \in S
      PROVE  k + 1 \in S
  <2>1. ASSUME NEW o \in 0 .. OuterExtent(f), NEW q \in 0 .. OuterExtent(f), q = o + (k + 1)
        PROVE  s.offsets[o] <= s.offsets[q]
    <3>1. PICK m \in 0 .. OuterExtent(f) : m = q - 1 /\ m = o + k
      <4>1. q - 1 \in 0 .. OuterExtent(f) /\ q - 1 = o + k
        BY <1>1, <2>1
      <4> QED
        BY <4>1
    <3>2. m \in Slots(OuterExtent(f)) /\ m + 1 = q
      BY <3>1, <1>1 DEF Slots
    <3>3. s.offsets[o] <= s.offsets[m]
      BY <1>5, <3>1
    <3>4. s.offsets[m] <= s.offsets[q]
      BY <1>3, <3>2
    <3>5. s.offsets[o] \in Int /\ s.offsets[m] \in Int /\ s.offsets[q] \in Int
      OBVIOUS
    <3> QED
      BY <3>3, <3>4, <3>5
  <2> QED
    BY <2>1
<1>6. Nat \subseteq S
  <2> HIDE DEF S
  <2> QED
    BY <1>4, <1>5, NatInd
<1>7. ASSUME NEW o \in 0 .. OuterExtent(f), NEW q \in 0 .. OuterExtent(f), o <= q
      PROVE  s.offsets[o] <= s.offsets[q]
  <2>1. PICK k \in Nat : k = q - o
    BY <1>7
  <2>2. k \in S /\ q = o + k
    BY <1>6, <2>1
  <2> QED
    BY <2>2
<1>8. ASSUME NEW o \in 0 .. OuterExtent(f)
      PROVE  0 <= s.offsets[o] /\ s.offsets[o] <= n
  BY <1>1, <1>2, <1>7
<1> QED
  BY <1>2, <1>7, <1>8

(* Rising offsets give every entry exactly one row. *)
LEMMA RowFacts ==
  ASSUME NEW f \in Compressed, NEW s, NEW n \in Nat,
         DOMAIN s.offsets = 0 .. OuterExtent(f),
         \A o \in 0 .. OuterExtent(f) : s.offsets[o] \in Int,
         s.offsets[0] = 0, s.offsets[OuterExtent(f)] = n,
         \A o, q \in 0 .. OuterExtent(f) : o <= q => s.offsets[o] <= s.offsets[q],
         NEW p \in Slots(n)
  PROVE  /\ RowOf(s, p) \in Slots(OuterExtent(f))
         /\ s.offsets[RowOf(s, p)] <= p /\ p < s.offsets[RowOf(s, p) + 1]
         /\ \A o \in Slots(OuterExtent(f)) :
              s.offsets[o] <= p /\ p < s.offsets[o + 1] => RowOf(s, p) = o
<1>1. OuterExtent(f) \in Nat /\ p \in Int /\ 0 <= p /\ p < n
  BY ShapeFacts DEF Slots
<1> DEFINE O == {o \in DOMAIN s.offsets : o + 1 \in DOMAIN s.offsets /\ p < s.offsets[o + 1]}
<1>2. \A o : o \in O <=> o \in Slots(OuterExtent(f)) /\ p < s.offsets[o + 1]
  BY <1>1 DEF Slots
<1>3. O # {}
  <2>1. OuterExtent(f) # 0
    BY <1>1
  <2>2. PICK m \in Slots(OuterExtent(f)) : m + 1 = OuterExtent(f)
    BY <1>1, <2>1 DEF Slots
  <2>3. m \in O
    BY <1>1, <1>2, <2>2
  <2> QED
    BY <2>3
<1>4. O \subseteq Nat
  BY <1>1
<1> HIDE DEF O
<1>5. \E x \in O : \A y \in O : x <= y
  BY <1>3, <1>4, LeastNat
<1>6. RowOf(s, p) = CHOOSE x \in O : \A y \in O : x =< y
  BY DEF RowOf, Min, O
<1>7. PICK r : r = RowOf(s, p)
  OBVIOUS
<1>8. r \in O /\ \A y \in O : r <= y
  BY <1>5, <1>6, <1>7, Zenon
<1>9. r \in Slots(OuterExtent(f)) /\ p < s.offsets[r + 1]
  BY <1>2, <1>8
<1>10. s.offsets[r] <= p
  <2>1. CASE r = 0
    BY <1>1, <2>1
  <2>2. CASE r # 0
    <3>1. PICK m \in Slots(OuterExtent(f)) : m + 1 = r
      BY <1>1, <1>9, <2>2 DEF Slots
    <3>2. m \notin O
      <4>1. ~(r <= m)
        BY <1>1, <3>1 DEF Slots
      <4> QED
        BY <1>8, <4>1
    <3>3. ~(p < s.offsets[r])
      BY <1>2, <3>1, <3>2
    <3>4. s.offsets[r] \in Int
      BY <1>1, <1>9 DEF Slots
    <3> QED
      BY <1>1, <3>3, <3>4
  <2> QED
    BY <2>1, <2>2
<1>11. ASSUME NEW o \in Slots(OuterExtent(f)), s.offsets[o] <= p, p < s.offsets[o + 1]
       PROVE  r = o
  <2>1. o \in O
    BY <1>2, <1>11
  <2>2. r <= o
    BY <1>8, <2>1
  <2>3. CASE r < o
    <3>1. PICK m \in 0 .. OuterExtent(f) : m = r + 1 /\ m <= o
      BY <1>1, <1>9, <2>3 DEF Slots
    <3>2. s.offsets[m] <= s.offsets[o]
      BY <3>1, <1>1 DEF Slots
    <3>3. s.offsets[m] \in Int /\ s.offsets[o] \in Int /\ p < s.offsets[m]
      BY <1>1, <1>9, <3>1 DEF Slots
    <3> QED
      BY <1>1, <1>11, <3>2, <3>3
  <2> QED
    BY <1>1, <1>9, <2>2, <2>3 DEF Slots
<1> QED
  BY <1>7, <1>9, <1>10, <1>11

(* In the rows of canonical storage the inner indices lie in their extent.  *)
LEMMA RowIndices ==
  ASSUME NEW f \in Compressed, NEW s, NEW n \in Nat, Sound(f, s, n), NEW p \in Slots(n)
  PROVE  /\ RowOf(s, p) \in 0 .. OuterExtent(f) - 1
         /\ s.indices[p] \in 0 .. InnerExtent(f) - 1
         /\ CoordinateOf(f, s, p) \in Positions
         /\ OuterOf(f, CoordinateOf(f, s, p)) = RowOf(s, p)
         /\ InnerOf(f, CoordinateOf(f, s, p)) = s.indices[p]
<1>1. /\ f # "coordinate" /\ f \in Formats /\ OuterExtent(f) \in Nat
  BY ShapeFacts DEF Compressed, Formats
<1>2. /\ Count(s) = n /\ DOMAIN s.offsets = 0 .. OuterExtent(f) /\ Canonical(f, s)
      /\ \A o \in 0 .. OuterExtent(f) : s.offsets[o] \in Int
      /\ s.indices[p] \in Int
  BY <1>1, ShapedFacts DEF Sound
<1>3. PICK r : r = RowOf(s, p)
  OBVIOUS
<1>4. r \in Slots(OuterExtent(f)) /\ s.offsets[r] <= p /\ p < s.offsets[r + 1]
  <2>1. /\ s.offsets[0] = 0 /\ s.offsets[OuterExtent(f)] = n
        /\ \A o, q \in 0 .. OuterExtent(f) : o <= q => s.offsets[o] <= s.offsets[q]
    BY <1>2, OffsetsRise
  <2> QED
    BY <1>2, <1>3, <2>1, RowFacts
<1>5. CanonicalRow(f, s, r)
  BY <1>1, <1>2, <1>4 DEF Canonical
<1>6. p \in s.offsets[r] .. s.offsets[r + 1] - 1
  <2>1. s.offsets[r] \in Int /\ s.offsets[r + 1] \in Int /\ p \in Int
    BY <1>1, <1>2, <1>4 DEF Slots
  <2> QED
    BY <1>4, <2>1
<1>7. 0 <= s.indices[p] /\ s.indices[p] < InnerExtent(f)
  BY <1>5, <1>6 DEF CanonicalRow
<1>8. r \in 0 .. OuterExtent(f) - 1 /\ s.indices[p] \in 0 .. InnerExtent(f) - 1
  BY <1>1, <1>2, <1>4, <1>7, ShapeFacts DEF Slots
<1>9. PICK i \in 0 .. InnerExtent(f) - 1 : i = s.indices[p]
  BY <1>8
<1>10. CoordinateOf(f, s, p) = At(f, r, i)
  BY <1>1, <1>3, <1>9 DEF CoordinateOf
<1>11. /\ At(f, r, i) \in Positions
       /\ OuterOf(f, At(f, r, i)) = r /\ InnerOf(f, At(f, r, i)) = i
  BY <1>8, AtFacts
<1> QED
  BY <1>3, <1>8, <1>9, <1>10, <1>11

(* Canonical arrays enumerate positions in the order of their format.       *)
LEMMA Enumerates ==
  ASSUME NEW f \in Formats, NEW s, NEW n \in Nat, Sound(f, s, n)
  PROVE  /\ \A p \in Slots(n) : CoordinateOf(f, s, p) \in Positions
         /\ \A p, q \in Slots(n) :
              p < q => Less(f, CoordinateOf(f, s, p), CoordinateOf(f, s, q))
<1> DEFINE c == [p \in Slots(n) |-> CoordinateOf(f, s, p)]
<1>1. \A p \in Slots(n) : CoordinateOf(f, s, p) \in Positions
  <2>1. CASE f = "coordinate"
    BY <2>1 DEF Sound, CoordinateOf
  <2>2. CASE f # "coordinate"
    BY <2>2, RowIndices DEF Formats
  <2> QED
    BY <2>1, <2>2
<1>2. ASSUME NEW p \in Slots(n), p # 0, NEW q \in Slots(n), q = p - 1
      PROVE  Less(f, CoordinateOf(f, s, q), CoordinateOf(f, s, p))
  <2>1. CASE f = "coordinate"
    <3>1. Precedes(s.indices[p - 1], s.indices[p])
      BY <1>2, <2>1, ShapedFacts DEF Sound, Canonical
    <3> QED
      BY <1>2, <2>1, <3>1 DEF Less, CoordinateOf
  <2>2. CASE f # "coordinate"
    <3>1. f \in Compressed /\ OuterExtent(f) \in Nat
      BY <2>2, ShapeFacts DEF Formats
    <3>2. /\ Count(s) = n /\ DOMAIN s.offsets = 0 .. OuterExtent(f) /\ Canonical(f, s)
          /\ \A o \in 0 .. OuterExtent(f) : s.offsets[o] \in Int
          /\ \A k \in Slots(n) : s.indices[k] \in Int
      BY <3>1, ShapedFacts DEF Sound
    <3>3. /\ s.offsets[0] = 0 /\ s.offsets[OuterExtent(f)] = n
          /\ \A o, k \in 0 .. OuterExtent(f) : o <= k => s.offsets[o] <= s.offsets[k]
      BY <3>1, <3>2, OffsetsRise
    <3>4. PICK r : r = RowOf(s, p)
      OBVIOUS
    <3>5. PICK t : t = RowOf(s, q)
      OBVIOUS
    <3>6. r \in Slots(OuterExtent(f)) /\ s.offsets[r] <= p /\ p < s.offsets[r + 1]
      BY <3>1, <3>2, <3>3, <3>4, RowFacts
    <3>7. t \in Slots(OuterExtent(f)) /\ s.offsets[t] <= q /\ q < s.offsets[t + 1]
      BY <3>1, <3>2, <3>3, <3>5, RowFacts
    <3>8. t < r \/ (t = r /\ s.indices[q] < s.indices[p])
      <4>1. /\ r \in Int /\ t \in Int /\ p \in Int /\ q \in Int
            /\ r \in 0 .. OuterExtent(f) /\ r + 1 \in 0 .. OuterExtent(f)
            /\ t \in 0 .. OuterExtent(f) /\ t + 1 \in 0 .. OuterExtent(f)
        BY <3>1, <3>6, <3>7 DEF Slots
      <4>2. /\ s.offsets[r] \in Int /\ s.offsets[r + 1] \in Int
            /\ s.offsets[t] \in Int /\ s.offsets[t + 1] \in Int
        BY <3>2, <4>1
      <4>3. CASE r < t
        <5>1. s.offsets[r + 1] <= s.offsets[t]
          <6>1. r + 1 <= t
            BY <4>1, <4>3
          <6> QED
            BY <3>3, <4>1, <6>1
        <5> QED
          BY <1>2, <3>6, <3>7, <4>1, <4>2, <5>1
      <4>4. CASE r = t
        <5>1. CanonicalRow(f, s, r)
          BY <2>2, <3>2, <3>6 DEF Canonical
        <5>2. p \in s.offsets[r] .. s.offsets[r + 1] - 1 /\ p # s.offsets[r]
          BY <1>2, <3>6, <3>7, <4>1, <4>2, <4>4
        <5>3. s.indices[p - 1] < s.indices[p]
          BY <5>1, <5>2 DEF CanonicalRow
        <5> QED
          BY <1>2, <4>4, <5>3
      <4> QED
        BY <4>1, <4>3, <4>4
    <3>9. PICK x \in Positions : x = CoordinateOf(f, s, q)
      BY <1>1
    <3>10. PICK y \in Positions : y = CoordinateOf(f, s, p)
      BY <1>1
    <3>11. /\ OuterOf(f, x) = t /\ InnerOf(f, x) = s.indices[q]
           /\ OuterOf(f, y) = r /\ InnerOf(f, y) = s.indices[p]
      BY <3>1, <3>4, <3>5, <3>9, <3>10, RowIndices
    <3>12. Less(f, x, y)
      BY <2>2, <3>8, <3>11 DEF Less
    <3> QED
      BY <3>9, <3>10, <3>12
  <2> QED
    BY <2>1, <2>2
<1>3. \A p \in Slots(n) : c[p] \in Positions
  BY <1>1
<1>4. ASSUME NEW p \in Slots(n), p # 0
      PROVE  Less(f, c[p - 1], c[p])
  <2>1. PICK q \in Slots(n) : q = p - 1
    BY <1>4 DEF Slots
  <2>2. Less(f, c[q], c[p])
    BY <1>2, <1>4, <2>1
  <2> QED
    BY <2>1, <2>2
<1>5. \A p, q \in Slots(n) : p < q => Less(f, c[p], c[q])
  <2> HIDE DEF c
  <2> QED
    BY <1>3, <1>4, Chain
<1> QED
  BY <1>1, <1>5

-----------------------------------------------------------------------------
(* Canonical arrays store their entries and nothing else. *)

(* Canonical arrays store n distinct coordinates, each at its rank.         *)
LEMMA SoundCounts ==
  ASSUME NEW f \in Formats, NEW s, NEW n \in Nat, Sound(f, s, n)
  PROVE  /\ \A p, q \in Slots(n) :
              CoordinateOf(f, s, p) = CoordinateOf(f, s, q) => p = q
         /\ IsFiniteSet(StoredAt(f, s, n)) /\ Cardinality(StoredAt(f, s, n)) = n
         /\ \A p \in Slots(n) :
              Before(f, StoredAt(f, s, n), CoordinateOf(f, s, p)) = p
<1> DEFINE c == [p \in Slots(n) |-> CoordinateOf(f, s, p)]
           S == StoredAt(f, s, n)
           T == {c[p] : p \in Slots(n)}
<1>1. S = T
  BY DEF StoredAt
<1>2. /\ \A p \in Slots(n) : c[p] \in Positions
      /\ \A p, q \in Slots(n) : p < q => Less(f, c[p], c[q])
  BY Enumerates
<1>3. \A p \in Slots(n) : c[p] = CoordinateOf(f, s, p)
  OBVIOUS
<1>4. /\ \A p, q \in Slots(n) : c[p] = c[q] => p = q
      /\ IsFiniteSet(T) /\ Cardinality(T) = n
      /\ \A p \in Slots(n) : Before(f, T, c[p]) = p
  <2> HIDE DEF c, S
  <2> QED
    BY <1>2, ChainRank
<1> HIDE DEF T, c
<1>5. \A p, q \in Slots(n) : CoordinateOf(f, s, p) = CoordinateOf(f, s, q) => p = q
  BY <1>3, <1>4
<1>6. \A p \in Slots(n) : Before(f, S, CoordinateOf(f, s, p)) = p
  <2> HIDE DEF S
  <2> QED
    BY <1>1, <1>3, <1>4
<1>7. IsFiniteSet(S) /\ Cardinality(S) = n
  BY <1>1, <1>4
<1> QED
  BY <1>5, <1>6, <1>7

(* An offset counts the coordinates of the rows before it.                  *)
LEMMA SoundOffsets ==
  ASSUME NEW f \in Compressed, NEW s, NEW n \in Nat, Sound(f, s, n),
         NEW o \in 0 .. OuterExtent(f)
  PROVE  s.offsets[o] = Cardinality({a \in StoredAt(f, s, n) : OuterOf(f, a) < o})
<1>1. f \in Formats /\ f # "coordinate" /\ OuterExtent(f) \in Nat
  BY ShapeFacts DEF Compressed, Formats
<1>2. /\ Count(s) = n /\ DOMAIN s.offsets = 0 .. OuterExtent(f) /\ Canonical(f, s)
      /\ \A q \in 0 .. OuterExtent(f) : s.offsets[q] \in Int
  BY <1>1, ShapedFacts DEF Sound
<1>3. /\ s.offsets[0] = 0 /\ s.offsets[OuterExtent(f)] = n
      /\ \A q, k \in 0 .. OuterExtent(f) : q <= k => s.offsets[q] <= s.offsets[k]
      /\ 0 <= s.offsets[o] /\ s.offsets[o] <= n
  BY <1>2, OffsetsRise
<1>4. PICK m \in Nat : m = s.offsets[o] /\ m <= n
  BY <1>2, <1>3
<1>5. ASSUME NEW p \in Slots(n)
      PROVE  OuterOf(f, CoordinateOf(f, s, p)) < o <=> p \in Slots(m)
  <2>1. PICK r : r = RowOf(s, p)
    OBVIOUS
  <2>2. r \in Slots(OuterExtent(f)) /\ s.offsets[r] <= p /\ p < s.offsets[r + 1]
    BY <1>2, <1>3, <2>1, RowFacts
  <2>3. OuterOf(f, CoordinateOf(f, s, p)) = r
    BY <2>1, RowIndices
  <2>4. r \in 0 .. OuterExtent(f) /\ r + 1 \in 0 .. OuterExtent(f) /\ r \in Int /\ p \in Nat
    BY <1>1, <2>2 DEF Slots
  <2>5. s.offsets[r] \in Int /\ s.offsets[r + 1] \in Int
    BY <1>2, <2>4
  <2>6. CASE r < o
    <3>1. s.offsets[r + 1] <= m
      <4>1. r + 1 <= o
        BY <2>4, <2>6
      <4> QED
        BY <1>3, <1>4, <2>4, <4>1
    <3> QED
      BY <2>2, <2>3, <2>4, <2>5, <2>6, <3>1 DEF Slots
  <2>7. CASE ~(r < o)
    <3>1. m <= s.offsets[r]
      <4>1. o <= r
        BY <2>4, <2>7
      <4> QED
        BY <1>3, <1>4, <2>4, <4>1
    <3> QED
      BY <2>2, <2>3, <2>4, <2>5, <2>7, <3>1 DEF Slots
  <2> QED
    BY <2>6, <2>7
<1>6. \A p \in Slots(m) : p \in Slots(n)
  BY <1>4 DEF Slots
<1> DEFINE c == [p \in Slots(n) |-> CoordinateOf(f, s, p)]
<1>7. {a \in StoredAt(f, s, n) : OuterOf(f, a) < o}
        = {c[p] : p \in Slots(m)}
  BY <1>5, <1>6 DEF StoredAt
<1>8. \A p, q \in Slots(m) : c[p] = c[q] => p = q
  BY <1>1, <1>6, SoundCounts
<1>9. IsFiniteSet(Slots(m)) /\ Cardinality(Slots(m)) = m
  BY SlotsFacts
<1>10. Cardinality({c[p] : p \in Slots(m)}) = m
  <2> HIDE DEF c
  <2> QED
    BY <1>8, <1>9, ImageCount
<1> QED
  BY <1>4, <1>7, <1>10

(* Canonical arrays store the coordinates of their entries, with their      *)
(* values.                                                                  *)
LEMMA SoundStores ==
  ASSUME NEW f \in Formats, NEW s, NEW n \in Nat, Sound(f, s, n)
  PROVE  /\ {e.at : e \in Entries(f, s)} = StoredAt(f, s, n)
         /\ Stores(f, s, StoredAt(f, s, n))
         /\ \A e \in Entries(f, s) : s.values[Before(f, StoredAt(f, s, n), e.at)] = e.value
<1> DEFINE S == StoredAt(f, s, n)
<1>1. Count(s) = n /\ DOMAIN s.indices = Slots(n)
  BY ShapedFacts DEF Sound
<1>2. Entries(f, s) = {Entry(CoordinateOf(f, s, p), s.values[p]) : p \in Slots(n)}
  BY <1>1, Zenon DEF Entries
<1>3. {e.at : e \in Entries(f, s)} = S
  <2>1. ASSUME NEW e \in Entries(f, s)
        PROVE  e.at \in S
    BY <1>2 DEF Entry, StoredAt
  <2>2. ASSUME NEW p \in Slots(n)
        PROVE  \E e \in Entries(f, s) : e.at = CoordinateOf(f, s, p)
    <3>1. Entry(CoordinateOf(f, s, p), s.values[p]) \in Entries(f, s)
      BY <1>2
    <3>2. Entry(CoordinateOf(f, s, p), s.values[p]).at = CoordinateOf(f, s, p)
      BY DEF Entry
    <3> QED
      BY <3>1, <3>2
  <2> DEFINE ats == {e.at : e \in Entries(f, s)}
  <2>3. ats \subseteq S
    <3> HIDE DEF S
    <3> QED
      BY <2>1
  <2>4. S \subseteq ats
    BY <2>2 DEF StoredAt
  <2> HIDE DEF S, ats
  <2>5. ats = S
    BY <2>3, <2>4
  <2> QED
    BY <2>5 DEF ats
<1>4. /\ Cardinality(S) = n
      /\ \A p \in Slots(n) : Before(f, S, CoordinateOf(f, s, p)) = p
  BY SoundCounts
<1>5. ASSUME NEW e \in Entries(f, s)
      PROVE  s.values[Before(f, S, e.at)] = e.value
  <2>1. PICK p \in Slots(n) : e.at = CoordinateOf(f, s, p) /\ e.value = s.values[p]
    BY <1>2 DEF Entry
  <2> HIDE DEF S
  <2> QED
    BY <1>4, <2>1
<1>6. ASSUME NEW a \in S
      PROVE  s.indices[Before(f, S, a)] =
               IF f = "coordinate" THEN a ELSE InnerOf(f, a)
  <2>1. PICK p \in Slots(n) : a = CoordinateOf(f, s, p)
    BY DEF StoredAt
  <2>2. Before(f, S, a) = p
    <3> HIDE DEF S
    <3> QED
      BY <1>4, <2>1
  <2> HIDE DEF S
  <2>3. CASE f = "coordinate"
    BY <2>1, <2>2, <2>3 DEF CoordinateOf
  <2>4. CASE f # "coordinate"
    <3>1. InnerOf(f, a) = s.indices[p]
      BY <2>1, <2>4, RowIndices DEF Formats
    <3> QED
      BY <2>2, <2>4, <3>1
  <2> QED
    BY <2>3, <2>4
<1>7. ASSUME f # "coordinate"
      PROVE  \A o \in DOMAIN s.offsets :
               s.offsets[o] = Cardinality({a \in S : OuterOf(f, a) < o})
  <2>1. f \in Compressed /\ DOMAIN s.offsets = 0 .. OuterExtent(f)
    BY <1>7, ShapedFacts DEF Sound, Formats
  <2> QED
    BY <2>1, SoundOffsets
<1> HIDE DEF S
<1>8. Stores(f, s, S)
  BY <1>1, <1>4, <1>6, <1>7 DEF Stores
<1> QED
  BY <1>3, <1>5, <1>8 DEF S

-----------------------------------------------------------------------------
(* Arrays that store a set of coordinates are canonical. *)

(* Before numbers the coordinates of a set from zero, in their order.       *)
LEMMA BeforeRanks ==
  ASSUME NEW f \in Formats, NEW S \in SUBSET Positions, IsFiniteSet(S)
  PROVE  /\ \A a \in S : Before(f, S, a) \in 0 .. Cardinality(S) - 1
         /\ \A a, b \in S : Less(f, a, b) <=> Before(f, S, a) < Before(f, S, b)
         /\ \A p \in 0 .. Cardinality(S) - 1 : \E a \in S : Before(f, S, a) = p
<1> DEFINE c == [a \in S |-> a]
<1>1. \A a \in S : RankIn(f, S, c, a) = Before(f, S, a)
  <2>1. ASSUME NEW a \in S
        PROVE  {r \in S : Less(f, c[r], c[a])} = {b \in S : Less(f, b, a)}
    <3>1. \A b \in S : c[b] = b
      OBVIOUS
    <3> HIDE DEF c
    <3> QED
      BY <3>1
  <2> QED
    BY <2>1, BeforeIsLess DEF RankIn
<1>2. \A a \in S : c[a] = a /\ c[a] \in Positions
  OBVIOUS
<1> HIDE DEF c
<1>3. /\ \A t \in S : RankIn(f, S, c, t) \in 0 .. Cardinality(S) - 1
      /\ \A t, u \in S : Less(f, c[t], c[u]) <=> RankIn(f, S, c, t) < RankIn(f, S, c, u)
      /\ \A p \in 0 .. Cardinality(S) - 1 : \E t \in S : RankIn(f, S, c, t) = p
  BY <1>2, RankOnto
<1>4. \A a \in S : Before(f, S, a) \in 0 .. Cardinality(S) - 1
  BY <1>1, <1>3
<1>5. \A a, b \in S : Less(f, a, b) <=> Before(f, S, a) < Before(f, S, b)
  BY <1>1, <1>2, <1>3
<1>6. \A p \in 0 .. Cardinality(S) - 1 : \E a \in S : Before(f, S, a) = p
  BY <1>1, <1>3
<1> QED
  BY <1>4, <1>5, <1>6

(* The coordinates of the outer indices below o are the first ones. *)
Above(f, S, o) == {a \in S : OuterOf(f, a) < o}

(* A coordinate is in a row before o when its rank is below their number.   *)
LEMMA BeforeOuter ==
  ASSUME NEW f \in Compressed, NEW S \in SUBSET Positions, IsFiniteSet(S),
         NEW o \in Int, NEW a \in S
  PROVE  OuterOf(f, a) < o <=> Before(f, S, a) < Cardinality(Above(f, S, o))
<1>1. f # "coordinate" /\ f \in Formats
  BY DEF Compressed, Formats
<1>2. a \in Positions /\ \A b \in S : OuterOf(f, b) \in Int
  BY PositionFacts
<1> DEFINE L == {b \in S : Less(f, b, a)}
           R == Above(f, S, o)
<1>3. IsFiniteSet(L) /\ IsFiniteSet(R) /\ Cardinality(L) \in Nat /\ Cardinality(R) \in Nat
  <2>1. L \in SUBSET S /\ R \in SUBSET S
    BY DEF Above
  <2> HIDE DEF L, R
  <2> QED
    BY <2>1, FS_Subset, FS_CardinalityType
<1>4. Before(f, S, a) = Cardinality(L)
  BY BeforeIsLess
<1>5. \A b \in S : Less(f, b, a) => OuterOf(f, b) <= OuterOf(f, a)
  BY <1>1, <1>2 DEF Less
<1>6. \A b \in S : OuterOf(f, b) < OuterOf(f, a) => Less(f, b, a)
  BY <1>1 DEF Less
<1>7. CASE OuterOf(f, a) < o
  <2>1. L \cup {a} \in SUBSET R
    BY <1>2, <1>5, <1>7 DEF Above
  <2>2. a \notin L
    BY <1>1, <1>2, LessOrder
  <2> HIDE DEF L, R
  <2>3. Cardinality(L \cup {a}) = Cardinality(L) + 1
    BY <1>3, <2>2, FS_AddElement
  <2>4. Cardinality(L \cup {a}) <= Cardinality(R)
    BY <1>3, <2>1, FS_Subset
  <2>5. Cardinality(L) < Cardinality(R)
    BY <1>3, <2>3, <2>4
  <2> QED
    BY <1>4, <1>7, <2>5 DEF R
<1>8. CASE ~(OuterOf(f, a) < o)
  <2>1. R \in SUBSET L
    BY <1>2, <1>6, <1>8 DEF Above
  <2> HIDE DEF L, R
  <2>2. Cardinality(R) <= Cardinality(L)
    BY <1>3, <2>1, FS_Subset
  <2>3. ~(Cardinality(L) < Cardinality(R))
    BY <1>3, <2>2
  <2> QED
    BY <1>4, <1>8, <2>3 DEF R
<1> QED
  BY <1>7, <1>8

(* The shape has as many positions as the product of its extents.           *)
LEMMA PositionsFinite ==
  IsFiniteSet(Positions) /\ Cardinality(Positions) = Shape[1] * Shape[2]
<1>1. Shape[1] \in Nat /\ Shape[2] \in Nat
  BY ShapeFacts
<1>2. PICK h \in Nat, w \in Nat : h = Shape[1] /\ w = Shape[2]
  BY <1>1
<1>3. /\ IsFiniteSet(Slots(h)) /\ Cardinality(Slots(h)) = h
      /\ IsFiniteSet(Slots(w)) /\ Cardinality(Slots(w)) = w
  BY SlotsFacts
<1>4. IsFiniteSet(Slots(h) \X Slots(w)) /\ Cardinality(Slots(h) \X Slots(w)) = h * w
  BY <1>3, FS_Product
<1>5. Positions = Slots(h) \X Slots(w)
  BY <1>2 DEF Positions, Slots
<1> QED
  BY <1>2, <1>4, <1>5

(* What stores a set of coordinates is canonical, and no longer than the    *)
(* shape allows.                                                            *)
LEMMA StoredIsCanonical ==
  ASSUME NEW f \in Formats, NEW s, NEW n \in Nat, Count(s) = n,
         f \in Compressed => DOMAIN s.offsets = 0 .. OuterExtent(f),
         NEW S \in SUBSET Positions, Stores(f, s, S)
  PROVE  n <= Shape[1] * Shape[2] /\ Canonical(f, s)
<1>1. /\ IsFiniteSet(S) /\ Cardinality(S) = n /\ n <= Shape[1] * Shape[2]
  <2>1. IsFiniteSet(S) /\ Cardinality(S) <= Cardinality(Positions)
    BY PositionsFinite, FS_Subset
  <2> QED
    BY <2>1, PositionsFinite DEF Stores
<1>2. /\ \A a \in S : Before(f, S, a) \in 0 .. n - 1
      /\ \A a, b \in S : Less(f, a, b) <=> Before(f, S, a) < Before(f, S, b)
      /\ \A p \in Slots(n) : \E a \in S : Before(f, S, a) = p
  BY <1>1, BeforeRanks DEF Slots
<1>3. ASSUME NEW p \in Slots(n), p # 0
      PROVE  p - 1 \in Slots(n) /\ p - 1 < p
  BY <1>3 DEF Slots
<1>4. CASE f = "coordinate"
  <2>1. ASSUME NEW p \in Slots(n)
        PROVE  InBounds(s.indices[p])
    <3>1. PICK a \in S : Before(f, S, a) = p
      BY <1>2
    <3>2. s.indices[p] = a
      BY <1>4, <3>1 DEF Stores
    <3> QED
      BY <3>2, PositionFacts
  <2>2. ASSUME NEW p \in Slots(n), p # 0
        PROVE  Precedes(s.indices[p - 1], s.indices[p])
    <3>1. PICK q \in Slots(n) : q = p - 1 /\ q < p
      BY <1>3, <2>2
    <3>2. PICK a \in S : Before(f, S, a) = p
      BY <1>2
    <3>3. PICK b \in S : Before(f, S, b) = q
      BY <1>2
    <3>4. s.indices[p] = a /\ s.indices[q] = b
      BY <1>4, <3>2, <3>3 DEF Stores
    <3>5. Less(f, b, a)
      BY <1>2, <3>1, <3>2, <3>3
    <3> QED
      BY <1>4, <3>1, <3>4, <3>5 DEF Less
  <2>3. \A p \in Slots(n) :
          InBounds(s.indices[p]) /\ (p # 0 => Precedes(s.indices[p - 1], s.indices[p]))
    BY <2>1, <2>2
  <2>4. Slots(Count(s)) = Slots(n)
    OBVIOUS
  <2> QED
    BY <1>1, <1>4, <2>3, <2>4 DEF Canonical
<1>5. CASE f # "coordinate"
  <2>1. f \in Compressed /\ OuterExtent(f) \in Nat
    BY <1>5, ShapeFacts DEF Formats
  <2> DEFINE Up(o) == Above(f, S, o)
  <2>2. /\ \A o \in 0 .. OuterExtent(f) : s.offsets[o] = Cardinality(Up(o))
        /\ \A a \in S : s.indices[Before(f, S, a)] = InnerOf(f, a)
    BY <1>5, <2>1 DEF Stores, Above
  <2>3. \A a \in S : /\ OuterOf(f, a) \in 0 .. OuterExtent(f) - 1
                     /\ InnerOf(f, a) \in 0 .. InnerExtent(f) - 1
    BY <2>1, PositionFacts
  <2>4. ASSUME NEW o \in 0 .. OuterExtent(f)
        PROVE  IsFiniteSet(Up(o)) /\ s.offsets[o] \in Nat /\ s.offsets[o] <= n
    <3>1. Up(o) \in SUBSET S
      BY DEF Above
    <3> HIDE DEF Up
    <3> QED
      BY <1>1, <2>2, <3>1, FS_Subset, FS_CardinalityType
  <2>5. s.offsets[0] = 0
    <3>1. Up(0) = {}
      BY <2>3 DEF Above
    <3>2. 0 \in 0 .. OuterExtent(f)
      BY <2>1
    <3> HIDE DEF Up
    <3> QED
      BY <2>2, <3>1, <3>2, FS_EmptySet
  <2>6. s.offsets[OuterExtent(f)] = n
    <3>1. Up(OuterExtent(f)) = S
      BY <2>1, <2>3 DEF Above
    <3> HIDE DEF Up
    <3> QED
      BY <1>1, <2>1, <2>2, <3>1
  <2>7. ASSUME NEW a \in S, NEW o \in 0 .. OuterExtent(f)
        PROVE  OuterOf(f, a) < o <=> Before(f, S, a) < s.offsets[o]
    <3>1. OuterOf(f, a) < o <=> Before(f, S, a) < Cardinality(Up(o))
      BY <1>1, <2>1, BeforeOuter
    <3> HIDE DEF Up
    <3> QED
      BY <2>2, <3>1
  <2>8. ASSUME NEW o \in Slots(OuterExtent(f))
        PROVE  CanonicalRow(f, s, o)
    <3>1. o \in 0 .. OuterExtent(f) /\ o + 1 \in 0 .. OuterExtent(f) /\ o \in Int
      BY <2>1 DEF Slots
    <3>2. s.offsets[o] <= s.offsets[o + 1]
      <4>1. Up(o) \in SUBSET Up(o + 1)
        BY <2>3, <3>1 DEF Above
      <4>2. IsFiniteSet(Up(o + 1))
        BY <2>4, <3>1
      <4> HIDE DEF Up
      <4>3. Cardinality(Up(o)) <= Cardinality(Up(o + 1))
        BY <4>1, <4>2, FS_Subset
      <4> QED
        BY <2>2, <3>1, <4>3
    <3> HIDE DEF Up
    <3>3. PICK b \in Nat, e \in Nat : b = s.offsets[o] /\ e = s.offsets[o + 1] /\ b <= e /\ e <= n
      BY <2>4, <3>1, <3>2
    <3>4. ASSUME NEW p \in b .. e - 1
          PROVE  \E a \in S : Before(f, S, a) = p /\ OuterOf(f, a) = o
      <4>1. p \in Slots(n) /\ p \in Int /\ b <= p /\ p < e
        BY <3>3 DEF Slots
      <4>2. PICK a \in S : Before(f, S, a) = p
        BY <1>2, <4>1
      <4>3. ~(OuterOf(f, a) < o) /\ OuterOf(f, a) < o + 1
        BY <2>7, <3>1, <3>3, <4>1, <4>2
      <4> QED
        BY <2>3, <3>1, <4>2, <4>3
    <3>5. ASSUME NEW p \in b .. e - 1
          PROVE  0 <= s.indices[p] /\ s.indices[p] < InnerExtent(f)
      <4>1. PICK a \in S : Before(f, S, a) = p /\ OuterOf(f, a) = o
        BY <3>4
      <4>2. s.indices[p] = InnerOf(f, a)
        BY <2>2, <4>1
      <4> QED
        BY <2>1, <2>3, <4>2, ShapeFacts
    <3>6. ASSUME NEW p \in b .. e - 1, p # b
          PROVE  s.indices[p - 1] < s.indices[p]
      <4>1. PICK q \in b .. e - 1 : q = p - 1 /\ q < p
        BY <3>3, <3>6
      <4>2. PICK a \in S : Before(f, S, a) = p /\ OuterOf(f, a) = o
        BY <3>4
      <4>3. PICK d \in S : Before(f, S, d) = q /\ OuterOf(f, d) = o
        BY <3>4
      <4>4. s.indices[p] = InnerOf(f, a) /\ s.indices[q] = InnerOf(f, d)
        BY <2>2, <4>2, <4>3
      <4>5. Less(f, d, a)
        BY <1>2, <4>1, <4>2, <4>3
      <4>6. InnerOf(f, d) < InnerOf(f, a)
        BY <1>5, <3>1, <4>2, <4>3, <4>5 DEF Less
      <4> QED
        BY <4>1, <4>4, <4>6
    <3> QED
      BY <3>3, <3>5, <3>6 DEF CanonicalRow
  <2>9. s.offsets[OuterExtent(f)] = Count(s)
    BY <2>6
  <2> HIDE DEF Up
  <2> QED
    BY <1>1, <1>5, <2>5, <2>8, <2>9 DEF Canonical
<1> QED
  BY <1>1, <1>4, <1>5

-----------------------------------------------------------------------------
(* The inductive invariant. *)

Offered(n) ==
  /\ array = Storage(array.offsets, array.indices, <<>>)
  /\ array.offsets \in OffsetArrays(format) /\ array.indices \in IndexArrays(format, n)

Source(p) == CoordinateOf(format, array, p)
TargetOuter(p) == OuterOf(target, Source(p))
TargetInner(p) == InnerOf(target, Source(p))

(* The traversal visits the entries of the source in their order. *)
Traversal(n) ==
  /\ from \in 0 .. Segments(format) /\ position \in 0 .. n
  /\ from < Segments(format) => SegmentBegin(from) <= position /\ position <= SegmentEnd(from)
  /\ from = Segments(format) => position = n

Collected(n) ==
  /\ output = position
  /\ built.offsets = <<>>
  /\ \A p \in Slots(position) :
       built.indices[p] = Source(p) /\ built.values[p] = array.values[p]

(* The source entries copied while outer index o is filled up to entry q. *)
Seen(n, o, q) ==
  {p \in Slots(n) : \/ TargetOuter(p) < o
                    \/ TargetOuter(p) = o /\ p < q}

RowBegin(b, o) == b.offsets[o]
RowEnd(b, o, last, k) == IF o = last THEN k ELSE b.offsets[o + 1]

Copies(b, k, p) == b.indices[k] = TargetInner(p) /\ b.values[k] = array.values[p]

(* Row o of the arrays b, the last row of which ends at k. *)
RowFilled(n, b, last, k, q, o) ==
  /\ RowBegin(b, o) \in Int /\ RowEnd(b, o, last, k) \in Int
  /\ 0 <= RowBegin(b, o) /\ RowBegin(b, o) <= RowEnd(b, o, last, k)
  /\ RowEnd(b, o, last, k) <= k
  /\ \A j \in RowBegin(b, o) .. RowEnd(b, o, last, k) - 1 :
       /\ \E p \in Seen(n, last, q) : TargetOuter(p) = o /\ Copies(b, j, p)
       /\ j # RowBegin(b, o) => b.indices[j - 1] < b.indices[j]

EntryFilled(n, b, last, k, p) ==
  \E j \in RowBegin(b, TargetOuter(p)) .. RowEnd(b, TargetOuter(p), last, k) - 1 :
    Copies(b, j, p)

(* The rows up to the last hold the entries seen, in order. *)
Filled(n, b, last, k, q) ==
  /\ last \in 0 .. OuterExtent(target)
  /\ k = Cardinality(Seen(n, last, q))
  /\ RowBegin(b, 0) = 0
  /\ \A o \in 0 .. last : RowFilled(n, b, last, k, q, o)
  /\ \A p \in Seen(n, last, q) : EntryFilled(n, b, last, k, p)

Owns(n) == Sound(format, array, n) /\ matrix = Entries(format, array)

Converts(n) ==
  /\ Owns(n) /\ target # format
  /\ Shaped(target, built, n) /\ Traversal(n)
  /\ target = "coordinate" => Collected(n)
  /\ target \in Compressed => Filled(n, built, outer, output, position)

IInv ==
  /\ stage \in Stages /\ format \in Formats /\ target \in Formats
  /\ \E n \in 0 .. MaxStored :
       /\ stage \in {"offered", "refused"} => Offered(n)
       /\ stage = "refused" => ~(n <= Shape[1] * Shape[2] /\ Canonical(format, array))
       /\ stage = "owned" => Owns(n)
       /\ stage = "converting" => Converts(n)

-----------------------------------------------------------------------------
(* What the invariant says of an owner and of refused arrays. *)

(* An owner stores its matrix.                                              *)
LEMMA OwnedStores == IInv => OwnerStoresItsMatrix
<1> SUFFICES ASSUME IInv, stage = "owned"
             PROVE  LET S == {e.at : e \in matrix} IN
                    /\ Stores(format, array, S)
                    /\ \A e \in matrix : array.values[Before(format, S, e.at)] = e.value
  BY DEF OwnerStoresItsMatrix
<1>1. PICK n \in Nat : Sound(format, array, n) /\ matrix = Entries(format, array)
  BY ShapeFacts DEF IInv, Owns
<1>2. format \in Formats
  BY DEF IInv
<1>3. PICK f \in Formats : f = format
  BY <1>2
<1>4. PICK S : S = StoredAt(f, array, n)
  OBVIOUS
<1>5. /\ {e.at : e \in Entries(f, array)} = S
      /\ Stores(f, array, S)
      /\ \A e \in Entries(f, array) : array.values[Before(f, S, e.at)] = e.value
  BY <1>1, <1>3, <1>4, SoundStores
<1>6. {e.at : e \in matrix} = S
  BY <1>1, <1>3, <1>5, Zenon
<1> QED
  BY <1>1, <1>3, <1>5, <1>6, Zenon

(* What a caller may offer.                                                 *)
LEMMA OfferedFacts ==
  ASSUME NEW n \in Nat, Offered(n), format \in Formats
  PROVE  /\ DOMAIN array.indices = Slots(n) /\ Count(array) = n
         /\ format = "coordinate" => \A p \in Slots(n) : array.indices[p] \in Coordinates
         /\ format \in Compressed =>
              /\ DOMAIN array.offsets = 0 .. OuterExtent(format)
              /\ \A o \in 0 .. OuterExtent(format) : array.offsets[o] \in Int
              /\ \A p \in Slots(n) : array.indices[p] \in Int
<1>1. DOMAIN array.indices = Slots(n)
  BY DEF Offered, IndexArrays
<1>2. Count(array) = n
  BY <1>1, SlotsFacts DEF Count
<1>3. format = "coordinate" => \A p \in Slots(n) : array.indices[p] \in Coordinates
  BY DEF Offered, IndexArrays
<1>4. ASSUME format \in Compressed
      PROVE  /\ DOMAIN array.offsets = 0 .. OuterExtent(format)
             /\ \A o \in 0 .. OuterExtent(format) : array.offsets[o] \in Int
             /\ \A p \in Slots(n) : array.indices[p] \in Int
  <2>1. format # "coordinate"
    BY <1>4 DEF Compressed
  <2>2. array.offsets \in [0 .. OuterExtent(format) -> Offsets]
    BY <2>1 DEF Offered, OffsetArrays
  <2>3. array.indices \in [Slots(n) -> Indices]
    BY <2>1 DEF Offered, IndexArrays
  <2> QED
    BY <2>2, <2>3, ShapeFacts
<1> QED
  BY <1>1, <1>2, <1>3, <1>4

(* Arrays that are refused store no set of positions.                       *)
LEMMA RefusedStores == IInv => RefusedArraysStoreNothing
<1> SUFFICES ASSUME IInv, stage = "refused",
                    NEW S \in kSubset(Count(array), Positions), Stores(format, array, S)
             PROVE  FALSE
  BY DEF RefusedArraysStoreNothing
<1>1. PICK n \in 0 .. MaxStored :
        Offered(n) /\ ~(n <= Shape[1] * Shape[2] /\ Canonical(format, array))
  BY DEF IInv
<1>2. n \in Nat /\ format \in Formats /\ S \in SUBSET Positions
  BY ShapeFacts DEF IInv, kSubset
<1>3. Count(array) = n /\ (format \in Compressed => DOMAIN array.offsets = 0 .. OuterExtent(format))
  BY <1>1, <1>2, OfferedFacts
<1>4. PICK f \in Formats : f = format
  BY <1>2
<1>5. n <= Shape[1] * Shape[2] /\ Canonical(f, array)
  BY <1>2, <1>3, <1>4, StoredIsCanonical
<1> QED
  BY <1>1, <1>4, <1>5

(* The entry a conversion visits is the one its segment says.               *)
LEMMA SegmentFacts ==
  ASSUME NEW n \in Nat, Sound(format, array, n), format \in Formats, from < Segments(format),
         from \in 0 .. Segments(format),
         position \in 0 .. n, SegmentBegin(from) <= position, position < SegmentEnd(from)
  PROVE  position \in Slots(n) /\ Here = Source(position)
<1>1. CASE format = "coordinate"
  BY <1>1, ShapedFacts DEF Sound, SegmentEnd, Here, Source, CoordinateOf, Slots
<1>2. CASE format # "coordinate"
  <2>1. format \in Compressed /\ OuterExtent(format) \in Nat
    BY <1>2, ShapeFacts DEF Formats
  <2>2. /\ Count(array) = n /\ DOMAIN array.offsets = 0 .. OuterExtent(format)
        /\ Canonical(format, array)
        /\ \A o \in 0 .. OuterExtent(format) : array.offsets[o] \in Int
    BY <2>1, ShapedFacts DEF Sound
  <2>3. /\ array.offsets[0] = 0 /\ array.offsets[OuterExtent(format)] = n
        /\ \A o, q \in 0 .. OuterExtent(format) :
             o <= q => array.offsets[o] <= array.offsets[q]
        /\ \A o \in 0 .. OuterExtent(format) : 0 <= array.offsets[o] /\ array.offsets[o] <= n
    BY <2>1, <2>2, OffsetsRise
  <2>4. from \in Slots(OuterExtent(format)) /\ from + 1 \in 0 .. OuterExtent(format)
    BY <1>2, <2>1 DEF Segments, Slots
  <2>5. array.offsets[from] <= position /\ position < array.offsets[from + 1]
    BY <1>2 DEF SegmentBegin, SegmentEnd
  <2>6. position \in Slots(n)
    BY <2>2, <2>3, <2>4, <2>5 DEF Slots
  <2>7. RowOf(array, position) = from
    BY <2>1, <2>2, <2>3, <2>4, <2>5, <2>6, RowFacts
  <2> QED
    BY <1>2, <2>6, <2>7 DEF Here, Source, CoordinateOf
<1> QED
  BY <1>1, <1>2

(* A conversion to coordinates adds distinct coordinates that fit.          *)
LEMMA CollectedFits == IInv => BuilderTakesEveryEntry
<1> SUFFICES ASSUME IInv, stage = "converting", target = "coordinate"
             PROVE  /\ Visiting /\ position < SegmentEnd(from) =>
                         InBounds(Here) /\ output < Count(array)
                    /\ \A p, q \in Slots(output) : built.indices[p] = built.indices[q] => p = q
  BY DEF BuilderTakesEveryEntry
<1>1. PICK n \in Nat : Converts(n)
  BY ShapeFacts DEF IInv
<1>2. /\ Sound(format, array, n) /\ Traversal(n) /\ Collected(n) /\ format \in Formats
  BY <1>1 DEF Converts, Owns, IInv
<1>3. ASSUME Visiting, position < SegmentEnd(from)
      PROVE  InBounds(Here) /\ output < Count(array)
  <2>1. position \in Slots(n) /\ Here = Source(position)
    BY <1>2, <1>3, SegmentFacts DEF Traversal, Visiting
  <2>2. Source(position) \in Positions
    BY <1>2, <2>1, Enumerates DEF Source
  <2>3. Count(array) = n
    BY <1>2, ShapedFacts DEF Sound
  <2>4. InBounds(Here)
    BY <2>1, <2>2, PositionFacts
  <2> QED
    BY <1>2, <2>1, <2>3, <2>4 DEF Collected, Slots
<1>4. ASSUME NEW p \in Slots(output), NEW q \in Slots(output), built.indices[p] = built.indices[q]
      PROVE  p = q
  <2>1. p \in Slots(n) /\ q \in Slots(n) /\ p \in Slots(position) /\ q \in Slots(position)
    BY <1>2 DEF Collected, Traversal, Slots
  <2>2. Source(p) = Source(q)
    BY <1>2, <1>4, <2>1 DEF Collected
  <2> QED
    BY <1>2, <2>1, <2>2, SoundCounts DEF Source
<1> QED
  BY <1>3, <1>4

-----------------------------------------------------------------------------
(* The steps of an owner. *)

(* What is canonical, and where entries are, does not depend on the values. *)
LEMMA ValuesApart ==
  ASSUME NEW f, NEW s, NEW t, s.offsets = t.offsets, s.indices = t.indices
  PROVE  /\ Canonical(f, s) <=> Canonical(f, t)
         /\ \A p : CoordinateOf(f, s, p) = CoordinateOf(f, t, p)
<1>1. Count(s) = Count(t)
  BY DEF Count
<1>2. \A o : CanonicalRow(f, s, o) <=> CanonicalRow(f, t, o)
  BY <1>1 DEF CanonicalRow
<1>3. Canonical(f, s) <=> Canonical(f, t)
  BY <1>1, <1>2 DEF Canonical
<1>4. \A p : RowOf(s, p) = RowOf(t, p)
  BY Zenon DEF RowOf
<1>5. \A p : CoordinateOf(f, s, p) = CoordinateOf(f, t, p)
  BY <1>4 DEF CoordinateOf
<1> QED
  BY <1>3, <1>5

(* The invariant holds of what a caller may offer.                          *)
LEMMA InitIInv == Init => IInv
<1> SUFFICES ASSUME Init
             PROVE  IInv
  OBVIOUS
<1>1. PICK n \in 0 .. MaxStored : \E offsets \in OffsetArrays(format) :
        \E indices \in IndexArrays(format, n) : array = Storage(offsets, indices, <<>>)
  BY DEF Init
<1>2. PICK offsets \in OffsetArrays(format), indices \in IndexArrays(format, n) :
        array = Storage(offsets, indices, <<>>)
  BY <1>1
<1>3. Offered(n)
  BY <1>2 DEF Offered, Storage
<1>4. stage = "offered" /\ format \in Formats /\ target \in Formats
  BY DEF Init
<1> QED
  BY <1>3, <1>4 DEF IInv, Stages

(* Create: canonical arrays get their values.                               *)
LEMMA CreateStep ==
  ASSUME IInv, NEW values \in [DOMAIN array.indices -> Elements], Create(values)
  PROVE  IInv'
<1>1. stage = "offered" /\ stage' = "owned" /\ format' = format /\ target' = target
  BY DEF Create
<1>2. PICK n \in 0 .. MaxStored : Offered(n)
  BY <1>1 DEF IInv
<1>3. n \in Nat /\ format \in Formats /\ target \in Formats
  BY ShapeFacts DEF IInv
<1>4. /\ DOMAIN array.indices = Slots(n) /\ Count(array) = n
      /\ format = "coordinate" => \A p \in Slots(n) : array.indices[p] \in Coordinates
      /\ format \in Compressed =>
           /\ DOMAIN array.offsets = 0 .. OuterExtent(format)
           /\ \A o \in 0 .. OuterExtent(format) : array.offsets[o] \in Int
           /\ \A p \in Slots(n) : array.indices[p] \in Int
  BY <1>2, <1>3, OfferedFacts
<1>5. /\ array' = Storage(array.offsets, array.indices, values)
      /\ array'.offsets = array.offsets /\ array'.indices = array.indices
      /\ array'.values = values
  BY <1>2 DEF Create, Offered, Storage
<1>6. Canonical(format, array')
  BY <1>5, ValuesApart DEF Create
<1>7. ASSUME format = "coordinate", NEW p \in Slots(n)
      PROVE  array.indices[p] \in Positions
  <2>1. InBounds(array.indices[p])
    BY <1>4, <1>7 DEF Create, Canonical
  <2>2. array.indices[p] \in Coordinates
    BY <1>4, <1>7
  <2> QED
    BY <2>1, <2>2, PositionFrom
<1>8. Shaped(format, array', n)
  <2>1. array'.indices = [p \in Slots(n) |-> array'.indices[p]]
    <3>1. array.indices = [p \in Slots(n) |-> array.indices[p]]
      BY <1>2 DEF Offered, IndexArrays
    <3> QED
      BY <1>5, <3>1
  <2>2. array'.values = [p \in Slots(n) |-> array'.values[p]]
    BY <1>4, <1>5
  <2>3. array' = Storage(array'.offsets, array'.indices, array'.values)
    BY <1>5
  <2> QED
    BY <1>4, <1>5, <2>1, <2>2, <2>3 DEF Shaped
<1>9. Sound(format, array', n)
  BY <1>4, <1>5, <1>6, <1>7, <1>8 DEF Sound
<1>10. Owns(n)'
  BY <1>1, <1>9 DEF Owns, Create
<1> QED
  BY <1>1, <1>2, <1>3, <1>10 DEF IInv, Stages

(* A failed Create keeps the reason it failed for.                          *)
LEMMA CreateFailsStep ==
  ASSUME IInv, CreateFails
  PROVE  IInv'
<1>1. /\ stage = "offered" /\ stage' = "refused" /\ format' = format /\ target' = target
      /\ array' = array
  BY DEF CreateFails
<1>2. PICK n \in 0 .. MaxStored : Offered(n)
  BY <1>1 DEF IInv
<1>3. n \in Nat /\ format \in Formats /\ target \in Formats
  BY ShapeFacts DEF IInv
<1>4. Count(array) = n
  BY <1>2, <1>3, OfferedFacts
<1>5. ~(n <= Shape[1] * Shape[2] /\ Canonical(format, array))
  BY <1>4 DEF CreateFails
<1>6. Offered(n)'
  BY <1>1, <1>2 DEF Offered
<1>7. (~(n <= Shape[1] * Shape[2] /\ Canonical(format, array)))'
  BY <1>1, <1>5
<1> QED
  BY <1>1, <1>2, <1>3, <1>6, <1>7 DEF IInv, Stages

(* Write changes the one entry of the matrix at its coordinate.             *)
LEMMA WriteStep ==
  ASSUME IInv, NEW p \in DOMAIN array.indices, NEW v \in Elements, Write(p, v)
  PROVE  IInv'
<1>1. stage = "owned" /\ stage' = "owned" /\ format' = format /\ target' = target
  BY DEF Write
<1>2. PICK n \in 0 .. MaxStored : Sound(format, array, n) /\ matrix = Entries(format, array)
  BY <1>1 DEF IInv, Owns
<1>3. n \in Nat /\ format \in Formats /\ target \in Formats
  BY ShapeFacts DEF IInv
<1>4. /\ DOMAIN array.indices = Slots(n) /\ Count(array) = n /\ DOMAIN array.values = Slots(n)
      /\ array = Storage(array.offsets, array.indices, array.values)
  BY <1>2, <1>3, ShapedFacts DEF Sound, Shaped
<1>5. /\ array'.offsets = array.offsets /\ array'.indices = array.indices
      /\ array'.values = [array.values EXCEPT ![p] = v]
      /\ array' = Storage(array'.offsets, array'.indices, array'.values)
  BY <1>4 DEF Write, Storage
<1>6. /\ Canonical(format, array')
      /\ \A q : CoordinateOf(format, array', q) = CoordinateOf(format, array, q)
  BY <1>2, <1>5, ValuesApart DEF Sound
<1>7. Shaped(format, array', n)
  <2>1. array'.indices = [q \in Slots(n) |-> array'.indices[q]]
    BY <1>2, <1>5 DEF Sound, Shaped
  <2>2. array'.values = [q \in Slots(n) |-> array'.values[q]]
    BY <1>4, <1>5
  <2> QED
    BY <1>2, <1>5, <2>1, <2>2 DEF Sound, Shaped
<1>8. Sound(format, array', n)
  BY <1>2, <1>5, <1>6, <1>7 DEF Sound
<1>9. Count(array') = n
  BY <1>3, <1>7, ShapedFacts
<1>10. PICK a : a = CoordinateOf(format, array, p)
  OBVIOUS
<1>11. matrix' = {e \in matrix : e.at # a} \cup {Entry(a, v)}
  BY <1>10 DEF Write
<1>12. matrix = {Entry(CoordinateOf(format, array, q), array.values[q]) : q \in Slots(n)}
  BY <1>2, <1>4, Zenon DEF Entries
<1>13. Entries(format, array') =
         {Entry(CoordinateOf(format, array, q), array'.values[q]) : q \in Slots(n)}
  <2>1. Entries(format, array') =
          {Entry(CoordinateOf(format, array', q), array'.values[q]) : q \in Slots(n)}
    BY <1>9, Zenon DEF Entries
  <2> QED
    BY <1>6, <2>1
<1>14. \A q \in Slots(n) : array'.values[q] = IF q = p THEN v ELSE array.values[q]
  BY <1>4, <1>5
<1>15. \A q \in Slots(n) : CoordinateOf(format, array, q) = a => q = p
  BY <1>2, <1>3, <1>4, <1>10, SoundCounts
<1>16. ASSUME NEW e \in matrix'
       PROVE  e \in Entries(format, array')
  <2>1. CASE e = Entry(a, v)
    BY <1>4, <1>10, <1>13, <1>14, <2>1
  <2>2. CASE e # Entry(a, v)
    <3>1. e \in matrix /\ e.at # a
      BY <1>11, <1>16, <2>2
    <3>2. PICK q \in Slots(n) : e = Entry(CoordinateOf(format, array, q), array.values[q])
      BY <1>12, <3>1
    <3>3. q # p
      BY <1>10, <3>1, <3>2 DEF Entry
    <3>4. e = Entry(CoordinateOf(format, array, q), array'.values[q])
      BY <1>14, <3>2, <3>3
    <3> QED
      BY <1>13, <3>4
  <2> QED
    BY <2>1, <2>2
<1>17. ASSUME NEW e \in Entries(format, array')
       PROVE  e \in matrix'
  <2>1. PICK q \in Slots(n) : e = Entry(CoordinateOf(format, array, q), array'.values[q])
    BY <1>13
  <2>2. CASE q = p
    <3>1. e = Entry(a, v)
      BY <1>10, <1>14, <2>1, <2>2
    <3> QED
      BY <1>11, <3>1
  <2>3. CASE q # p
    <3>1. e = Entry(CoordinateOf(format, array, q), array.values[q])
      BY <1>14, <2>1, <2>3
    <3>2. e \in matrix
      BY <1>12, <3>1
    <3>3. e.at = CoordinateOf(format, array, q)
      BY <3>1 DEF Entry
    <3>4. e.at # a
      BY <1>15, <2>3, <3>3
    <3> QED
      BY <1>11, <3>2, <3>4
  <2> QED
    BY <2>2, <2>3
<1>18. matrix' = Entries(format, array')
  BY <1>16, <1>17
<1>19. Owns(n)'
  BY <1>1, <1>8, <1>18 DEF Owns
<1> QED
  BY <1>1, <1>2, <1>3, <1>19 DEF IInv, Stages

-----------------------------------------------------------------------------
(* The traversal of the source. *)

(* The entries of the source are positions.                                 *)
LEMMA SourceFacts ==
  ASSUME NEW n \in Nat, Sound(format, array, n), format \in Formats, NEW p \in Slots(n)
  PROVE  /\ Source(p) \in Positions
         /\ target \in Compressed =>
              /\ TargetOuter(p) \in 0 .. OuterExtent(target) - 1
              /\ TargetInner(p) \in 0 .. InnerExtent(target) - 1
<1>1. PICK a : a = Source(p)
  OBVIOUS
<1>2. a \in Positions
  BY <1>1, Enumerates DEF Source
<1>3. ASSUME target \in Compressed
      PROVE  /\ OuterOf(target, a) \in 0 .. OuterExtent(target) - 1
             /\ InnerOf(target, a) \in 0 .. InnerExtent(target) - 1
  BY <1>2, <1>3, PositionFacts
<1> QED
  BY <1>1, <1>2, <1>3 DEF TargetOuter, TargetInner

(* The segments of the source lie one behind the other. *)
LEMMA SegmentsFacts ==
  ASSUME NEW n \in Nat, Sound(format, array, n), format \in Formats
  PROVE  /\ Segments(format) \in Nat /\ (Segments(format) = 0 => n = 0)
         /\ Segments(format) # 0 => SegmentBegin(0) = 0
         /\ \A k \in Slots(Segments(format)) :
              /\ SegmentBegin(k) \in Int /\ SegmentEnd(k) \in Int
              /\ 0 <= SegmentBegin(k) /\ SegmentBegin(k) <= SegmentEnd(k)
              /\ SegmentEnd(k) <= n
              /\ k + 1 < Segments(format) => SegmentBegin(k + 1) = SegmentEnd(k)
              /\ k + 1 = Segments(format) => SegmentEnd(k) = n
<1>1. CASE format = "coordinate"
  <2>1. Segments(format) = 1 /\ Count(array) = n
    BY <1>1, ShapedFacts DEF Segments, Sound
  <2>2. \A k : SegmentBegin(k) = 0 /\ SegmentEnd(k) = n
    BY <1>1, <2>1 DEF SegmentBegin, SegmentEnd
  <2> QED
    BY <2>1, <2>2 DEF Slots
<1>2. CASE format # "coordinate"
  <2>1. format \in Compressed /\ OuterExtent(format) \in Nat
    BY <1>2, ShapeFacts DEF Formats
  <2>2. /\ Count(array) = n /\ DOMAIN array.offsets = 0 .. OuterExtent(format)
        /\ Canonical(format, array)
        /\ \A o \in 0 .. OuterExtent(format) : array.offsets[o] \in Int
    BY <2>1, ShapedFacts DEF Sound
  <2>3. /\ array.offsets[0] = 0 /\ array.offsets[OuterExtent(format)] = n
        /\ \A o, q \in 0 .. OuterExtent(format) :
             o <= q => array.offsets[o] <= array.offsets[q]
        /\ \A o \in 0 .. OuterExtent(format) : 0 <= array.offsets[o] /\ array.offsets[o] <= n
    BY <2>1, <2>2, OffsetsRise
  <2>4. Segments(format) = OuterExtent(format)
    BY <1>2 DEF Segments
  <2>5. \A k : SegmentBegin(k) = array.offsets[k] /\ SegmentEnd(k) = array.offsets[k + 1]
    BY <1>2 DEF SegmentBegin, SegmentEnd
  <2>6. ASSUME NEW k \in Slots(Segments(format))
        PROVE  /\ SegmentBegin(k) \in Int /\ SegmentEnd(k) \in Int
               /\ 0 <= SegmentBegin(k) /\ SegmentBegin(k) <= SegmentEnd(k)
               /\ SegmentEnd(k) <= n
               /\ k + 1 < Segments(format) => SegmentBegin(k + 1) = SegmentEnd(k)
               /\ k + 1 = Segments(format) => SegmentEnd(k) = n
    <3>1. k \in 0 .. OuterExtent(format) /\ k + 1 \in 0 .. OuterExtent(format) /\ k <= k + 1
      BY <2>1, <2>4 DEF Slots
    <3> QED
      BY <2>2, <2>3, <2>4, <2>5, <3>1
  <2> QED
    BY <2>1, <2>3, <2>4, <2>5, <2>6
<1> QED
  BY <1>1, <1>2

(* A traversal starts at the first entry. *)
LEMMA TraversalStart ==
  ASSUME NEW n \in Nat, Sound(format, array, n), format \in Formats,
         UNCHANGED <<format, array>>, from' = 0,
         position' = IF Segments(format) = 0 THEN 0 ELSE SegmentBegin(0)
  PROVE  Traversal(n)' /\ position' = 0
<1>1. /\ Segments(format) \in Nat /\ (Segments(format) = 0 => n = 0)
      /\ Segments(format) # 0 => SegmentBegin(0) = 0
      /\ Segments(format) # 0 => SegmentBegin(0) <= SegmentEnd(0)
  BY SegmentsFacts DEF Slots
<1>2. position' = 0
  BY <1>1
<1>3. /\ Segments(format)' = Segments(format)
      /\ SegmentBegin(0)' = SegmentBegin(0) /\ SegmentEnd(0)' = SegmentEnd(0)
  BY DEF Segments, SegmentBegin, SegmentEnd
<1>4. SegmentBegin(from)' = SegmentBegin(0) /\ SegmentEnd(from)' = SegmentEnd(0)
  BY DEF SegmentBegin, SegmentEnd
<1> QED
  BY <1>1, <1>2, <1>3, <1>4 DEF Traversal

(* It visits one entry after the other. *)
LEMMA TraversalVisit ==
  ASSUME NEW n \in Nat, Sound(format, array, n), format \in Formats, Traversal(n),
         UNCHANGED <<format, array, from>>, from < Segments(format),
         position < SegmentEnd(from), position' = position + 1
  PROVE  Traversal(n)' /\ position \in Slots(n) /\ Here = Source(position)
<1>1. Segments(format) \in Nat /\ from \in Slots(Segments(format)) /\ position \in 0 .. n
  BY SegmentsFacts DEF Traversal, Slots
<1>2. /\ SegmentBegin(from) \in Int /\ SegmentEnd(from) \in Int
      /\ SegmentBegin(from) <= position /\ SegmentEnd(from) <= n
  BY <1>1, SegmentsFacts DEF Traversal
<1>3. position \in Slots(n) /\ Here = Source(position)
  BY <1>1, <1>2, SegmentFacts DEF Traversal
<1>4. /\ Segments(format)' = Segments(format)
      /\ SegmentBegin(from)' = SegmentBegin(from) /\ SegmentEnd(from)' = SegmentEnd(from)
  BY DEF Segments, SegmentBegin, SegmentEnd
<1>5. /\ position' \in 0 .. n /\ SegmentBegin(from) <= position' /\ position' <= SegmentEnd(from)
  BY <1>1, <1>2
<1>6. from' \in 0 .. Segments(format)' /\ from' < Segments(format)'
  BY <1>4 DEF Traversal
<1> QED
  BY <1>1, <1>3, <1>4, <1>5, <1>6 DEF Traversal

(* A new segment begins where the last one ended. *)
LEMMA TraversalNext ==
  ASSUME NEW n \in Nat, Sound(format, array, n), format \in Formats, Traversal(n),
         UNCHANGED <<format, array>>, from < Segments(format), position >= SegmentEnd(from),
         from' = from + 1,
         position' = IF from' < Segments(format) THEN SegmentBegin(from') ELSE position
  PROVE  Traversal(n)' /\ position' = position
<1>1. Segments(format) \in Nat /\ from \in Slots(Segments(format)) /\ position \in 0 .. n
  BY SegmentsFacts DEF Traversal, Slots
<1>2. /\ SegmentEnd(from) \in Int /\ position <= SegmentEnd(from)
      /\ from + 1 < Segments(format) => SegmentBegin(from + 1) = SegmentEnd(from)
      /\ from + 1 = Segments(format) => SegmentEnd(from) = n
  BY <1>1, SegmentsFacts DEF Traversal
<1>3. position = SegmentEnd(from)
  BY <1>1, <1>2
<1>4. position' = position
  BY <1>2, <1>3
<1>5. /\ Segments(format)' = Segments(format)
      /\ SegmentBegin(from)' = SegmentBegin(from + 1) /\ SegmentEnd(from)' = SegmentEnd(from + 1)
  BY DEF Segments, SegmentBegin, SegmentEnd
<1>6. from + 1 < Segments(format) => SegmentBegin(from + 1) <= SegmentEnd(from + 1)
  <2>1. from + 1 < Segments(format) => from + 1 \in Slots(Segments(format))
    BY <1>1 DEF Slots
  <2> QED
    BY <2>1, SegmentsFacts
<1>7. from' \in 0 .. Segments(format)
  BY <1>1 DEF Slots
<1> QED
  BY <1>1, <1>2, <1>3, <1>4, <1>5, <1>6, <1>7 DEF Traversal

-----------------------------------------------------------------------------
(* The steps of a conversion. *)

(* While the source and the target format stay, Filled speaks of the new    *)
(* rows.                                                                    *)
LEMMA FilledPrimed ==
  ASSUME NEW n, UNCHANGED <<format, array, target>>,
         Filled(n, built', outer', output', position')
  PROVE  Filled(n, built, outer, output, position)'
<1>1. \A p : TargetOuter(p)' = TargetOuter(p) /\ TargetInner(p)' = TargetInner(p)
  BY DEF TargetOuter, TargetInner, Source
<1>2. \A j, p : Copies(built, j, p)' <=> Copies(built', j, p)
  BY <1>1 DEF Copies
<1>3. Seen(n, outer, position)' = Seen(n, outer', position')
  BY <1>1 DEF Seen
<1>4. \A o : /\ RowBegin(built, o)' = RowBegin(built', o)
             /\ RowEnd(built, o, outer, output)' = RowEnd(built', o, outer', output')
  BY DEF RowBegin, RowEnd
<1>5. ASSUME NEW o, RowFilled(n, built', outer', output', position', o)
      PROVE  RowFilled(n, built, outer, output, position, o)'
  BY <1>1, <1>2, <1>3, <1>4, <1>5 DEF RowFilled
<1>6. ASSUME NEW p, EntryFilled(n, built', outer', output', p)
      PROVE  EntryFilled(n, built, outer, output, p)'
  BY <1>1, <1>2, <1>4, <1>6 DEF EntryFilled
<1>7. \A o \in 0 .. outer' : RowFilled(n, built, outer, output, position, o)'
  BY <1>5 DEF Filled
<1>8. \A p \in Seen(n, outer, position)' : EntryFilled(n, built, outer, output, p)'
  BY <1>3, <1>6 DEF Filled
<1>9. /\ outer' \in 0 .. OuterExtent(target)'
      /\ output' = Cardinality(Seen(n, outer, position)')
      /\ RowBegin(built, 0)' = 0
  BY <1>3, <1>4 DEF Filled
<1> QED
  BY <1>7, <1>8, <1>9 DEF Filled

(* What a step of a conversion has to show.                                 *)
LEMMA ConvertsPrimed ==
  ASSUME IInv, NEW n \in 0 .. MaxStored, Converts(n), stage' = "converting",
         UNCHANGED <<format, array, target, matrix>>,
         Traversal(n)', Shaped(target, built', n),
         target = "coordinate" => Collected(n)',
         target \in Compressed => Filled(n, built', outer', output', position')
  PROVE  IInv'
<1>1. Owns(n)'
  BY DEF Owns, Converts
<1>2. Shaped(target, built, n)'
  OBVIOUS
<1>3. (target # format)'
  BY DEF Converts
<1>4. (target = "coordinate" => Collected(n))'
  OBVIOUS
<1>5. (target \in Compressed => Filled(n, built, outer, output, position))'
  BY FilledPrimed
<1>6. Converts(n)'
  BY <1>1, <1>2, <1>3, <1>4, <1>5 DEF Converts
<1> QED
  BY <1>6 DEF IInv, Stages

(* Put writes the next entry of the target and no other.                    *)
LEMMA PutFacts ==
  ASSUME NEW n \in Nat, target \in Formats, Shaped(target, built, n), output \in Slots(n),
         NEW index, Put(index)
  PROVE  /\ Shaped(target, built', n) /\ output' = output + 1
         /\ built'.offsets = built.offsets
         /\ built'.indices[output] = index /\ built'.values[output] = array.values[position]
         /\ \A k \in Slots(n) : k # output =>
              built'.indices[k] = built.indices[k] /\ built'.values[k] = built.values[k]
<1>1. /\ built = Storage(built.offsets, built.indices, built.values)
      /\ DOMAIN built.indices = Slots(n) /\ DOMAIN built.values = Slots(n)
  BY ShapedFacts DEF Shaped
<1>2. /\ built'.offsets = built.offsets
      /\ built'.indices = [built.indices EXCEPT ![output] = index]
      /\ built'.values = [built.values EXCEPT ![output] = array.values[position]]
      /\ built' = Storage(built'.offsets, built'.indices, built'.values)
  BY <1>1 DEF Put, Storage
<1>3. /\ built'.indices = [p \in Slots(n) |-> built'.indices[p]]
      /\ built'.values = [p \in Slots(n) |-> built'.values[p]]
  BY <1>1, <1>2
<1>4. Shaped(target, built', n)
  BY <1>2, <1>3 DEF Shaped
<1>5. /\ built'.indices[output] = index /\ built'.values[output] = array.values[position]
      /\ \A k \in Slots(n) : k # output =>
           built'.indices[k] = built.indices[k] /\ built'.values[k] = built.values[k]
  BY <1>1, <1>2
<1> QED
  BY <1>2, <1>4, <1>5 DEF Put

(* A conversion starts with no entry seen.                                  *)
LEMMA ConvertStep ==
  ASSUME IInv, NEW f \in Formats, Convert(f)
  PROVE  IInv'
<1>1. /\ stage = "owned" /\ f # format /\ stage' = "converting" /\ target' = f
      /\ built' = Fresh(f, Count(array)) /\ outer' = 0 /\ from' = 0 /\ output' = 0
      /\ position' = IF Segments(format) = 0 THEN 0 ELSE SegmentBegin(0)
      /\ format' = format /\ array' = array /\ matrix' = matrix
  BY DEF Convert
<1>2. PICK n \in 0 .. MaxStored : Owns(n)
  BY <1>1 DEF IInv
<1>3. n \in Nat /\ format \in Formats /\ Sound(format, array, n)
  BY <1>2, ShapeFacts DEF IInv, Owns
<1>4. Traversal(n)' /\ position' = 0
  BY <1>1, <1>3, TraversalStart
<1>5. Count(array) = n
  BY <1>3, ShapedFacts DEF Sound
<1>6. Shaped(f, built', n)
  <2>1. /\ built' = Storage(built'.offsets, built'.indices, built'.values)
        /\ built'.indices = [p \in Slots(n) |-> Unset]
        /\ built'.values = [p \in Slots(n) |-> Unset]
    BY <1>1, <1>5 DEF Fresh, Storage
  <2>2. f \in Compressed => DOMAIN built'.offsets = 0 .. OuterExtent(f)
    BY <1>1 DEF Fresh, Storage, Compressed
  <2> QED
    BY <2>1, <2>2 DEF Shaped
<1>7. f = "coordinate" => Collected(n)'
  <2>1. f = "coordinate" => built'.offsets = <<>>
    BY <1>1 DEF Fresh, Storage
  <2>2. Slots(position)' = {}
    BY <1>4 DEF Slots
  <2> QED
    BY <1>1, <1>4, <2>1, <2>2 DEF Collected
<1>8. ASSUME f \in Compressed
      PROVE  Filled(n, built, outer, output, position)'
  <2>1. OuterExtent(f) \in Nat /\ f # "coordinate"
    BY <1>8, ShapeFacts DEF Compressed
  <2>2. built'.offsets[0] = 0
    <3>1. 0 \in 0 .. OuterExtent(f)
      BY <2>1
    <3> QED
      BY <1>1, <2>1, <3>1 DEF Fresh, Storage
  <2>3. ASSUME NEW p \in Slots(n)
        PROVE  /\ TargetOuter(p)' \in Int /\ ~(TargetOuter(p)' < 0)
               /\ ~(p < 0)
    <3>1. PICK a \in Positions : a = Source(p)
      BY <1>3, Enumerates DEF Source
    <3>2. TargetOuter(p)' = OuterOf(f, a)
      BY <1>1, <3>1 DEF TargetOuter, Source
    <3>3. OuterOf(f, a) \in 0 .. OuterExtent(f) - 1
      BY <1>8, PositionFacts
    <3> QED
      BY <2>1, <3>2, <3>3 DEF Slots
  <2>4. Seen(n, outer, position)' = {}
    BY <1>1, <1>4, <2>3 DEF Seen
  <2>5. \A o \in 0 .. outer' : o = 0
    BY <1>1
  <2>6. RowBegin(built, 0)' = 0 /\ RowEnd(built, 0, outer, output)' = 0
    BY <1>1, <2>2 DEF RowBegin, RowEnd
  <2>7. RowFilled(n, built, outer, output, position, 0)'
    BY <1>1, <2>6 DEF RowFilled
  <2>8. (\A o \in 0 .. outer : RowFilled(n, built, outer, output, position, o))'
    BY <2>5, <2>7
  <2>9. (outer \in 0 .. OuterExtent(target))'
    BY <1>1, <2>1
  <2>10. (output = Cardinality(Seen(n, outer, position)))'
    BY <1>1, <2>4, FS_EmptySet
  <2>11. (\A p \in Seen(n, outer, position) : EntryFilled(n, built, outer, output, p))'
    BY <2>4
  <2> QED
    BY <2>6, <2>8, <2>9, <2>10, <2>11 DEF Filled
<1>9. Owns(n)'
  BY <1>1, <1>2 DEF Owns
<1>10. Converts(n)'
  BY <1>1, <1>4, <1>6, <1>7, <1>8, <1>9 DEF Converts
<1> QED
  BY <1>1, <1>3, <1>10 DEF IInv, Stages

(* An entry is added to the builder.                                        *)
LEMMA CollectStep ==
  ASSUME IInv, Collect
  PROVE  IInv'
<1>1. /\ stage = "converting" /\ from < Segments(format) /\ target = "coordinate"
      /\ position < SegmentEnd(from) /\ Put(Here) /\ position' = position + 1
      /\ UNCHANGED <<stage, format, array, target, outer, from, matrix>>
  BY DEF Collect, Visiting
<1>2. PICK n \in 0 .. MaxStored : Converts(n)
  BY <1>1 DEF IInv
<1>3. /\ n \in Nat /\ format \in Formats /\ target \in Formats /\ Sound(format, array, n)
      /\ Traversal(n) /\ Collected(n) /\ Shaped(target, built, n)
  BY <1>1, <1>2, ShapeFacts DEF IInv, Converts, Owns
<1>4. Traversal(n)' /\ position \in Slots(n) /\ Here = Source(position)
  BY <1>1, <1>3, TraversalVisit
<1>5. output = position
  BY <1>3 DEF Collected
<1>6. /\ Shaped(target, built', n) /\ output' = output + 1
      /\ built'.offsets = built.offsets
      /\ built'.indices[output] = Here /\ built'.values[output] = array.values[position]
      /\ \A k \in Slots(n) : k # output =>
           built'.indices[k] = built.indices[k] /\ built'.values[k] = built.values[k]
  BY <1>1, <1>3, <1>4, <1>5, PutFacts
<1>7. ASSUME NEW p \in Slots(position')
      PROVE  built'.indices[p] = Source(p) /\ built'.values[p] = array.values[p]
  <2>1. p \in Slots(n) /\ (p = position \/ p \in Slots(position))
    BY <1>1, <1>4 DEF Slots
  <2>2. CASE p = position
    BY <1>4, <1>5, <1>6, <2>2
  <2>3. CASE p # position
    BY <1>3, <1>5, <1>6, <2>1, <2>3 DEF Collected
  <2> QED
    BY <2>2, <2>3
<1>8. \A p : Source(p)' = Source(p)
  BY <1>1 DEF Source
<1>9. Collected(n)'
  BY <1>1, <1>3, <1>5, <1>6, <1>7, <1>8 DEF Collected
<1>10. stage' = "converting" /\ target \notin Compressed
  BY <1>1 DEF Compressed
<1> QED
  BY <1>1, <1>2, <1>4, <1>6, <1>9, <1>10, ConvertsPrimed

(* The next segment is entered.                                             *)
LEMMA NextSegmentStep ==
  ASSUME IInv, NextSegment
  PROVE  IInv'
<1>1. /\ stage = "converting" /\ from < Segments(format)
      /\ position >= SegmentEnd(from) /\ from' = from + 1
      /\ position' = IF from' < Segments(format) THEN SegmentBegin(from') ELSE position
      /\ UNCHANGED <<stage, format, array, target, built, outer, output, matrix>>
  BY DEF NextSegment, Visiting
<1>2. PICK n \in 0 .. MaxStored : Converts(n)
  BY <1>1 DEF IInv
<1>3. /\ n \in Nat /\ format \in Formats /\ Sound(format, array, n)
      /\ Traversal(n) /\ Shaped(target, built, n)
  BY <1>1, <1>2, ShapeFacts DEF IInv, Converts, Owns
<1>4. Traversal(n)' /\ position' = position
  BY <1>1, <1>3, TraversalNext
<1>5. target = "coordinate" => Collected(n)'
  BY <1>1, <1>2, <1>4 DEF Converts, Collected, Source
<1>6. target \in Compressed => Filled(n, built', outer', output', position')
  BY <1>1, <1>2, <1>4 DEF Converts
<1>7. stage' = "converting" /\ Shaped(target, built', n)
  BY <1>1, <1>3
<1> QED
  BY <1>1, <1>2, <1>4, <1>5, <1>6, <1>7, ConvertsPrimed

(* The row filled is closed: every entry of its outer index has been seen.  *)
LEMMA NextOuterStep ==
  ASSUME IInv, NextOuter
  PROVE  IInv'
<1>1. /\ stage = "converting" /\ target # "coordinate" /\ outer < OuterExtent(target)
      /\ from = Segments(format)
      /\ built' = [built EXCEPT !.offsets[outer + 1] = output]
      /\ outer' = outer + 1 /\ from' = 0
      /\ position' = IF Segments(format) = 0 THEN 0 ELSE SegmentBegin(0)
      /\ UNCHANGED <<stage, format, array, target, output, matrix>>
  BY DEF NextOuter
<1>2. PICK n \in 0 .. MaxStored : Converts(n)
  BY <1>1 DEF IInv
<1>3. /\ n \in Nat /\ format \in Formats /\ Sound(format, array, n)
      /\ Traversal(n) /\ Shaped(target, built, n) /\ target \in Compressed
      /\ Filled(n, built, outer, output, position)
  BY <1>1, <1>2, ShapeFacts DEF IInv, Converts, Owns, Formats
<1>4. Traversal(n)' /\ position' = 0
  BY <1>1, <1>3, TraversalStart
<1>5. position = n
  BY <1>1, <1>3 DEF Traversal
<1>6. OuterExtent(target) \in Nat /\ outer \in 0 .. OuterExtent(target)
      /\ outer' \in 0 .. OuterExtent(target) /\ outer \in Nat
  BY <1>1, <1>3, ShapeFacts DEF Filled
<1>7. /\ built = Storage(built.offsets, built.indices, built.values)
      /\ DOMAIN built.offsets = 0 .. OuterExtent(target)
  BY <1>3 DEF Shaped
<1>8. /\ built'.offsets = [built.offsets EXCEPT ![outer + 1] = output]
      /\ built'.indices = built.indices /\ built'.values = built.values
      /\ built' = Storage(built'.offsets, built'.indices, built'.values)
  BY <1>1, <1>7 DEF Storage
<1>9. Shaped(target, built', n)
  BY <1>3, <1>8 DEF Shaped
<1>10. /\ built'.offsets[outer + 1] = output
       /\ \A o \in 0 .. outer : built'.offsets[o] = built.offsets[o]
  BY <1>6, <1>7, <1>8, <1>1
<1>11. \A p \in Slots(n) : /\ TargetOuter(p) \in Int /\ 0 <= TargetOuter(p)
                          /\ p < n /\ ~(p < 0)
  <2>1. ASSUME NEW p \in Slots(n)
        PROVE  TargetOuter(p) \in Int /\ 0 <= TargetOuter(p)
    BY <1>3, <1>6, SourceFacts
  <2> QED
    BY <2>1, <1>3 DEF Slots
<1>12. Seen(n, outer', 0) = Seen(n, outer, n)
  BY <1>1, <1>6, <1>11 DEF Seen
<1>13. \A o \in 0 .. outer :
         /\ RowBegin(built', o) = RowBegin(built, o)
         /\ RowEnd(built', o, outer', output) = RowEnd(built, o, outer, output)
  <2>1. ASSUME NEW o \in 0 .. outer
        PROVE  RowEnd(built', o, outer', output) = RowEnd(built, o, outer, output)
    <3>1. CASE o = outer
      BY <1>1, <1>6, <1>10, <3>1 DEF RowEnd
    <3>2. CASE o # outer
      <4>1. o + 1 \in 0 .. outer /\ o # outer'
        BY <1>1, <1>6, <3>2
      <4> QED
        BY <1>10, <3>2, <4>1 DEF RowEnd
    <3> QED
      BY <3>1, <3>2
  <2> QED
    BY <1>10, <2>1 DEF RowBegin
<1>14. \A j, p : Copies(built', j, p) <=> Copies(built, j, p)
  BY <1>8 DEF Copies
<1>15. ASSUME NEW o \in 0 .. outer
       PROVE  RowFilled(n, built', outer', output, 0, o)
  <2>1. RowFilled(n, built, outer, output, n, o)
    BY <1>3, <1>5 DEF Filled
  <2> QED
    BY <1>8, <1>12, <1>13, <1>14, <2>1 DEF RowFilled
<1>16. output \in Nat
  <2>1. Seen(n, outer, position) \in SUBSET Slots(n)
    BY DEF Seen
  <2> QED
    BY <1>3, <2>1, SlotsFacts, FS_Subset, FS_CardinalityType DEF Filled
<1>17. RowFilled(n, built', outer', output, 0, outer')
  <2>1. RowBegin(built', outer') = output /\ RowEnd(built', outer', outer', output) = output
    BY <1>1, <1>10 DEF RowBegin, RowEnd
  <2> QED
    BY <1>16, <2>1 DEF RowFilled
<1>18. \A o \in 0 .. outer' : RowFilled(n, built', outer', output, 0, o)
  <2>1. \A o \in 0 .. outer' : o = outer' \/ o \in 0 .. outer
    BY <1>1, <1>6
  <2> QED
    BY <1>15, <1>17, <2>1
<1>19. ASSUME NEW p \in Seen(n, outer, n)
       PROVE  EntryFilled(n, built', outer', output, p)
  <2>1. EntryFilled(n, built, outer, output, p)
    BY <1>3, <1>5 DEF Filled
  <2>2. TargetOuter(p) \in 0 .. outer
    BY <1>6, <1>11 DEF Seen
  <2> QED
    BY <1>13, <1>14, <2>1, <2>2 DEF EntryFilled
<1>20. RowBegin(built', 0) = 0
  BY <1>3, <1>6, <1>13 DEF Filled
<1>21. Filled(n, built', outer', output, 0)
  BY <1>3, <1>5, <1>6, <1>12, <1>18, <1>19, <1>20 DEF Filled
<1>22. Filled(n, built', outer', output', position')
  BY <1>1, <1>4, <1>21
<1>23. stage' = "converting" /\ (target = "coordinate" => Collected(n)')
  BY <1>1
<1> QED
  BY <1>1, <1>2, <1>4, <1>9, <1>22, <1>23, ConvertsPrimed

-----------------------------------------------------------------------------
(* An entry of another outer index is passed over. *)
LEMMA SkipKeeps ==
  ASSUME NEW n \in Nat, Filled(n, built, outer, output, position), position \in Slots(n),
         TargetOuter(position) # outer
  PROVE  Filled(n, built, outer, output, position + 1)
<1>1. \A p \in Slots(n) : p \in Int
  BY DEF Slots
<1>2. Seen(n, outer, position + 1) = Seen(n, outer, position)
  BY <1>1 DEF Seen
<1>3. \A o : RowFilled(n, built, outer, output, position, o) =>
             RowFilled(n, built, outer, output, position + 1, o)
  BY <1>2 DEF RowFilled
<1> QED
  BY <1>2, <1>3 DEF Filled

(* An entry of the outer index is put behind those already there. *)
LEMMA PutKeeps ==
  ASSUME NEW n \in Nat, Sound(format, array, n), format \in Formats, target \in Compressed,
         Shaped(target, built, n), Filled(n, built, outer, output, position),
         position \in Slots(n), TargetOuter(position) = outer, Put(TargetInner(position))
  PROVE  Shaped(target, built', n) /\ Filled(n, built', outer, output', position + 1)
<1>1. \A p \in Slots(n) : p \in Int
  BY DEF Slots
<1>2. /\ \A p \in Slots(n) : TargetOuter(p) \in Int /\ 0 <= TargetOuter(p)
      /\ outer \in Nat /\ position \in Int
  <2>1. OuterExtent(target) \in Nat
    BY ShapeFacts
  <2>2. ASSUME NEW p \in Slots(n)
        PROVE  TargetOuter(p) \in Int /\ 0 <= TargetOuter(p)
    BY <2>1, SourceFacts
  <2> QED
    BY <1>1, <2>1, <2>2 DEF Filled
<1> DEFINE S == Seen(n, outer, position)
           T == Seen(n, outer, position + 1)
<1>3. T = S \cup {position} /\ position \notin S
  <2>1. \A p \in Slots(n) : p < position + 1 <=> p < position \/ p = position
    BY <1>1
  <2>2. ~(position < position) /\ ~(outer < outer)
    BY <1>2
  <2>3. \A p : p \in T <=> p \in S \/ p = position
    BY <2>1 DEF Seen
  <2>4. position \notin S
    BY <2>2 DEF Seen
  <2> HIDE DEF S, T
  <2> QED
    BY <2>3, <2>4
<1>4. /\ IsFiniteSet(S) /\ output = Cardinality(S) /\ output \in Nat
      /\ Cardinality(T) = output + 1 /\ output \in Slots(n)
  <2>1. S \in SUBSET Slots(n) /\ T \in SUBSET Slots(n)
    BY DEF Seen
  <2>2. output = Cardinality(S)
    BY DEF Filled
  <2> HIDE DEF S, T
  <2>3. IsFiniteSet(S) /\ Cardinality(S) \in Nat /\ Cardinality(T) <= n
    BY <2>1, SlotsFacts, FS_Subset, FS_CardinalityType
  <2>4. Cardinality(T) = Cardinality(S) + 1
    BY <1>3, <2>3, FS_AddElement
  <2> QED
    BY <2>2, <2>3, <2>4 DEF Slots
<1> HIDE DEF S, T
<1>5. target \in Formats
  BY DEF Formats
<1>6. /\ Shaped(target, built', n) /\ output' = output + 1
      /\ built'.offsets = built.offsets
      /\ built'.indices[output] = TargetInner(position)
      /\ built'.values[output] = array.values[position]
      /\ \A k \in Slots(n) : k # output =>
           built'.indices[k] = built.indices[k] /\ built'.values[k] = built.values[k]
  BY <1>4, <1>5, PutFacts
<1>7. \A k \in 0 .. output - 1 :
        /\ built'.indices[k] = built.indices[k] /\ built'.values[k] = built.values[k]
        /\ \A p : Copies(built', k, p) <=> Copies(built, k, p)
  <2>1. ASSUME NEW k \in 0 .. output - 1
        PROVE  built'.indices[k] = built.indices[k] /\ built'.values[k] = built.values[k]
    <3>1. k \in Slots(n) /\ k # output
      BY <1>4 DEF Slots
    <3> QED
      BY <1>6, <3>1
  <2> QED
    BY <2>1 DEF Copies
<1>8. Copies(built', output, position)
  BY <1>6 DEF Copies
<1>9. \A o : /\ RowBegin(built', o) = RowBegin(built, o)
             /\ o # outer => RowEnd(built', o, outer, output') = RowEnd(built, o, outer, output)
  BY <1>6 DEF RowBegin, RowEnd
<1>10. RowEnd(built', outer, outer, output') = output + 1 /\
       RowEnd(built, outer, outer, output) = output
  BY <1>6 DEF RowEnd
<1>11. ASSUME NEW o \in 0 .. outer, o # outer
       PROVE  RowFilled(n, built', outer, output', position + 1, o)
  <2>1. RowFilled(n, built, outer, output, position, o)
    BY DEF Filled
  <2>2. PICK b \in Int, e \in Int :
          /\ b = RowBegin(built, o) /\ e = RowEnd(built, o, outer, output)
          /\ b = RowBegin(built', o) /\ e = RowEnd(built', o, outer, output')
    BY <1>9, <1>11, <2>1 DEF RowFilled
  <2>3. /\ 0 <= b /\ b <= e /\ e <= output
        /\ \A j \in b .. e - 1 :
             /\ \E p \in S : TargetOuter(p) = o /\ Copies(built, j, p)
             /\ j # b => built.indices[j - 1] < built.indices[j]
    BY <2>1, <2>2 DEF RowFilled, S
  <2>4. ASSUME NEW j \in b .. e - 1
        PROVE  /\ \E p \in T : TargetOuter(p) = o /\ Copies(built', j, p)
               /\ j # b => built'.indices[j - 1] < built'.indices[j]
    <3>1. j \in 0 .. output - 1 /\ (j # b => j - 1 \in 0 .. output - 1)
      BY <1>4, <2>3
    <3>2. PICK p \in S : TargetOuter(p) = o /\ Copies(built, j, p)
      BY <2>3
    <3>3. p \in T /\ Copies(built', j, p)
      BY <1>3, <1>7, <3>1, <3>2
    <3>4. j # b => built'.indices[j - 1] < built'.indices[j]
      BY <1>7, <2>3, <3>1
    <3> QED
      BY <3>2, <3>3, <3>4
  <2>5. e <= output'
    BY <1>4, <1>6, <2>3
  <2> QED
    BY <2>2, <2>3, <2>4, <2>5 DEF RowFilled, T
<1>12. RowFilled(n, built', outer, output', position + 1, outer)
  <2>1. RowFilled(n, built, outer, output, position, outer)
    BY <1>2 DEF Filled
  <2>2. PICK b \in Int : b = RowBegin(built, outer) /\ b = RowBegin(built', outer)
    BY <1>9, <2>1 DEF RowFilled
  <2>3. /\ 0 <= b /\ b <= output
        /\ \A j \in b .. output - 1 :
             /\ \E p \in S : TargetOuter(p) = outer /\ Copies(built, j, p)
             /\ j # b => built.indices[j - 1] < built.indices[j]
    BY <1>10, <2>1, <2>2 DEF RowFilled, S
  <2>4. ASSUME NEW j \in b .. output - 1
        PROVE  /\ \E p \in T : TargetOuter(p) = outer /\ Copies(built', j, p)
               /\ j # b => built'.indices[j - 1] < built'.indices[j]
    <3>1. j \in 0 .. output - 1 /\ (j # b => j - 1 \in 0 .. output - 1)
      BY <1>4, <2>3
    <3>2. PICK p \in S : TargetOuter(p) = outer /\ Copies(built, j, p)
      BY <2>3
    <3>3. p \in T /\ Copies(built', j, p)
      BY <1>3, <1>7, <3>1, <3>2
    <3>4. j # b => built'.indices[j - 1] < built'.indices[j]
      BY <1>7, <2>3, <3>1
    <3> QED
      BY <3>2, <3>3, <3>4
  <2>5. ASSUME output # b
        PROVE  built'.indices[output - 1] < built'.indices[output]
    <3>1. PICK j \in b .. output - 1 : j = output - 1
      BY <1>4, <2>3, <2>5
    <3>2. PICK p \in S : TargetOuter(p) = outer /\ Copies(built, j, p)
      BY <2>3
    <3>3. p \in Slots(n) /\ p < position
      BY <1>2, <3>2 DEF S, Seen
    <3>4. PICK x \in Positions : x = Source(p)
      BY <3>3, SourceFacts
    <3>5. PICK y \in Positions : y = Source(position)
      BY SourceFacts
    <3>6. Less(format, x, y)
      BY <3>3, <3>4, <3>5, Enumerates DEF Source
    <3>7. OuterOf(target, x) = OuterOf(target, y)
      BY <3>2, <3>4, <3>5 DEF TargetOuter
    <3>8. InnerOf(target, x) < InnerOf(target, y)
      BY <3>6, <3>7, SameOuter
    <3>9. built'.indices[j] = InnerOf(target, x)
      <4>1. j \in 0 .. output - 1
        BY <1>4, <2>3
      <4> QED
        BY <1>7, <3>2, <3>4, <4>1 DEF Copies, TargetInner
    <3>10. built'.indices[output] = InnerOf(target, y)
      BY <1>6, <3>5 DEF TargetInner
    <3> QED
      BY <3>1, <3>8, <3>9, <3>10
  <2>6. position \in T
    BY <1>3
  <2>7. ASSUME NEW j \in b .. (output + 1) - 1
        PROVE  /\ \E p \in T : TargetOuter(p) = outer /\ Copies(built', j, p)
               /\ j # b => built'.indices[j - 1] < built'.indices[j]
    <3>1. j = output \/ j \in b .. output - 1
      BY <1>4
    <3> QED
      BY <1>8, <2>4, <2>5, <2>6, <3>1
  <2>8. b <= output + 1 /\ output + 1 \in Int /\ output + 1 <= output'
    BY <1>4, <1>6, <2>3
  <2> QED
    BY <1>10, <2>2, <2>3, <2>7, <2>8 DEF RowFilled, T
<1>13. ASSUME NEW p \in T
       PROVE  EntryFilled(n, built', outer, output', p)
  <2>1. CASE p = position
    <3>1. RowFilled(n, built, outer, output, position, outer)
      BY <1>2 DEF Filled
    <3>2. PICK b \in Int : b = RowBegin(built', outer) /\ b <= output
      BY <1>9, <1>10, <3>1 DEF RowFilled
    <3>3. output \in b .. (output + 1) - 1
      BY <1>4, <3>2
    <3> QED
      BY <1>8, <1>10, <2>1, <3>2, <3>3 DEF EntryFilled
  <2>2. CASE p # position
    <3>1. p \in S
      BY <1>3, <2>2
    <3>2. EntryFilled(n, built, outer, output, p)
      BY <3>1 DEF Filled, S
    <3>3. PICK o : o = TargetOuter(p)
      OBVIOUS
    <3>4. o \in 0 .. outer
      BY <1>2, <3>1, <3>3 DEF S, Seen
    <3>5. RowFilled(n, built, outer, output, position, o)
      BY <3>4 DEF Filled
    <3>6. PICK b \in Int, e \in Int :
            b = RowBegin(built, o) /\ e = RowEnd(built, o, outer, output)
      BY <3>5 DEF RowFilled
    <3>7. 0 <= b /\ e <= output
      BY <3>5, <3>6 DEF RowFilled
    <3>8. PICK j \in b .. e - 1 : Copies(built, j, p)
      BY <3>2, <3>3, <3>6 DEF EntryFilled
    <3>9. Copies(built', j, p)
      BY <1>4, <1>7, <3>7, <3>8
    <3>10. b = RowBegin(built', o)
      BY <1>9, <3>6
    <3>11. PICK d \in Int : d = RowEnd(built', o, outer, output') /\ e <= d
      <4>1. CASE o = outer
        BY <1>4, <1>10, <3>6, <4>1
      <4>2. CASE o # outer
        BY <1>9, <3>6, <4>2
      <4> QED
        BY <4>1, <4>2
    <3>12. j \in b .. d - 1
      BY <3>11
    <3> QED
      BY <3>3, <3>9, <3>10, <3>11, <3>12 DEF EntryFilled
  <2> QED
    BY <2>1, <2>2
<1>14. \A o \in 0 .. outer : RowFilled(n, built', outer, output', position + 1, o)
  BY <1>11, <1>12
<1>15. RowBegin(built', 0) = 0 /\ outer \in 0 .. OuterExtent(target)
  BY <1>9 DEF Filled
<1>16. output' = Cardinality(T)
  BY <1>4, <1>6
<1> QED
  BY <1>6, <1>13, <1>14, <1>15, <1>16 DEF Filled, T

(* An entry is visited for the outer index being filled.                    *)
LEMMA FillStep ==
  ASSUME IInv, Fill
  PROVE  IInv'
<1>1. /\ stage = "converting" /\ from < Segments(format) /\ target # "coordinate"
      /\ outer < OuterExtent(target)
      /\ position < SegmentEnd(from) /\ position' = position + 1
      /\ UNCHANGED <<stage, format, array, target, outer, from, matrix>>
      /\ IF OuterOf(target, Here) = outer THEN Put(InnerOf(target, Here))
         ELSE UNCHANGED <<built, output>>
  BY DEF Fill, Visiting
<1>2. PICK n \in 0 .. MaxStored : Converts(n)
  BY <1>1 DEF IInv
<1>3. /\ n \in Nat /\ format \in Formats /\ Sound(format, array, n)
      /\ Traversal(n) /\ Shaped(target, built, n) /\ target \in Compressed
      /\ Filled(n, built, outer, output, position)
  BY <1>1, <1>2, ShapeFacts DEF IInv, Converts, Owns, Formats
<1>4. Traversal(n)' /\ position \in Slots(n) /\ Here = Source(position)
  BY <1>1, <1>3, TraversalVisit
<1>5. /\ OuterOf(target, Here) = TargetOuter(position)
      /\ InnerOf(target, Here) = TargetInner(position)
  BY <1>4 DEF TargetOuter, TargetInner
<1>6. Shaped(target, built', n) /\ Filled(n, built', outer, output', position + 1)
  <2>1. CASE TargetOuter(position) = outer
    BY <1>1, <1>3, <1>4, <1>5, <2>1, PutKeeps
  <2>2. CASE TargetOuter(position) # outer
    <3>1. built' = built /\ output' = output
      BY <1>1, <1>5, <2>2
    <3> QED
      BY <1>3, <1>4, <2>2, <3>1, SkipKeeps
  <2> QED
    BY <2>1, <2>2
<1>7. Filled(n, built', outer', output', position')
  BY <1>1, <1>6
<1>8. stage' = "converting" /\ (target = "coordinate" => Collected(n)')
  BY <1>1
<1> QED
  BY <1>1, <1>2, <1>4, <1>6, <1>7, <1>8, ConvertsPrimed

(* Arrays with the same coordinates and values have the same entries.       *)
LEMMA SameEntries ==
  ASSUME NEW n \in Nat, NEW f, NEW s, NEW g, NEW t, Count(s) = n, Count(t) = n,
         \A p \in Slots(n) : \E k \in Slots(n) :
           CoordinateOf(f, s, p) = CoordinateOf(g, t, k) /\ s.values[p] = t.values[k],
         \A k \in Slots(n) : \E p \in Slots(n) :
           CoordinateOf(f, s, p) = CoordinateOf(g, t, k) /\ s.values[p] = t.values[k]
  PROVE  Entries(f, s) = Entries(g, t)
<1>1. Entries(f, s) = {Entry(CoordinateOf(f, s, p), s.values[p]) : p \in Slots(n)}
  BY Zenon DEF Entries
<1>2. Entries(g, t) = {Entry(CoordinateOf(g, t, k), t.values[k]) : k \in Slots(n)}
  BY Zenon DEF Entries
<1>3. ASSUME NEW e \in Entries(f, s)
      PROVE  e \in Entries(g, t)
  <2>1. PICK p \in Slots(n) : e = Entry(CoordinateOf(f, s, p), s.values[p])
    BY <1>1
  <2>2. PICK k \in Slots(n) :
          CoordinateOf(f, s, p) = CoordinateOf(g, t, k) /\ s.values[p] = t.values[k]
    OBVIOUS
  <2> QED
    BY <1>2, <2>1, <2>2
<1>4. ASSUME NEW e \in Entries(g, t)
      PROVE  e \in Entries(f, s)
  <2>1. PICK k \in Slots(n) : e = Entry(CoordinateOf(g, t, k), t.values[k])
    BY <1>2
  <2>2. PICK p \in Slots(n) :
          CoordinateOf(f, s, p) = CoordinateOf(g, t, k) /\ s.values[p] = t.values[k]
    OBVIOUS
  <2> QED
    BY <1>1, <2>1, <2>2
<1> QED
  BY <1>3, <1>4

(* Rows that hold every entry of the source are canonical. *)
LEMMA FilledIsSound ==
  ASSUME NEW n \in Nat, Sound(format, array, n), format \in Formats, target \in Compressed,
         Shaped(target, built, n), outer = OuterExtent(target),
         Filled(n, built, outer, output, position)
  PROVE  Sound(target, built, n) /\ Entries(format, array) = Entries(target, built)
<1>1. PICK E \in Nat : E = OuterExtent(target) /\ E = outer
  BY ShapeFacts
<1>2. target \in Formats /\ target # "coordinate"
  BY DEF Formats, Compressed
<1>3. \A p \in Slots(n) : /\ Source(p) \in Positions
                         /\ TargetOuter(p) \in 0 .. E - 1
                         /\ TargetInner(p) \in 0 .. InnerExtent(target) - 1
  BY <1>1, SourceFacts
<1>4. Seen(n, outer, position) = Slots(n) /\ output = n
  <2>1. \A p \in Slots(n) : TargetOuter(p) < outer
    BY <1>1, <1>3
  <2>2. Seen(n, outer, position) = Slots(n)
    BY <2>1 DEF Seen
  <2> QED
    BY <2>2, SlotsFacts DEF Filled
<1>5. /\ Count(built) = n /\ DOMAIN built.offsets = 0 .. E
  BY <1>1, <1>2, ShapedFacts
<1>6. built.offsets[0] = 0
  BY DEF Filled, RowBegin
<1>7. \A o \in 0 .. E : RowFilled(n, built, outer, n, position, o)
  BY <1>1, <1>4 DEF Filled
<1>8. built.offsets[E] = n
  <2>1. E \in 0 .. E
    OBVIOUS
  <2>2. RowFilled(n, built, outer, n, position, E)
    BY <1>7, <2>1
  <2>3. PICK b \in Int : b = built.offsets[E] /\ b = RowBegin(built, E)
    BY <2>2 DEF RowFilled, RowBegin
  <2>4. RowEnd(built, E, outer, n) = n
    BY <1>1 DEF RowEnd
  <2>5. b <= n
    BY <2>2, <2>3, <2>4 DEF RowFilled
  <2>6. ASSUME b # n
        PROVE  FALSE
    <3>1. b \in b .. n - 1
      BY <2>5, <2>6
    <3>2. PICK p \in Seen(n, outer, position) : TargetOuter(p) = E
      BY <2>2, <2>3, <2>4, <3>1 DEF RowFilled
    <3> QED
      BY <1>3, <1>4, <3>2
  <2> QED
    BY <2>3, <2>6
<1>9. ASSUME NEW o \in Slots(E)
      PROVE  /\ built.offsets[o] \in Int /\ built.offsets[o + 1] \in Int
             /\ 0 <= built.offsets[o] /\ built.offsets[o] <= built.offsets[o + 1]
             /\ built.offsets[o + 1] <= n
             /\ \A j \in built.offsets[o] .. built.offsets[o + 1] - 1 :
                  /\ \E p \in Slots(n) : TargetOuter(p) = o /\ Copies(built, j, p)
                  /\ j # built.offsets[o] => built.indices[j - 1] < built.indices[j]
  <2>1. o \in 0 .. E /\ o # E
    BY DEF Slots
  <2>2. RowBegin(built, o) = built.offsets[o] /\ RowEnd(built, o, outer, n) = built.offsets[o + 1]
    BY <1>1, <2>1 DEF RowBegin, RowEnd
  <2>3. RowFilled(n, built, outer, n, position, o)
    BY <1>7, <2>1
  <2> QED
    BY <1>4, <2>2, <2>3 DEF RowFilled
<1>10. \A o \in 0 .. E : built.offsets[o] \in Int
  BY <1>7 DEF RowFilled, RowBegin
<1>11. ASSUME NEW o \in Slots(E)
       PROVE  CanonicalRow(target, built, o)
  <2>1. ASSUME NEW j \in built.offsets[o] .. built.offsets[o + 1] - 1
        PROVE  0 <= built.indices[j] /\ built.indices[j] < InnerExtent(target)
    <3>1. PICK p \in Slots(n) : Copies(built, j, p)
      BY <1>9
    <3>2. built.indices[j] \in 0 .. InnerExtent(target) - 1
      BY <1>3, <3>1 DEF Copies
    <3> QED
      BY <3>2, ShapeFacts
  <2> QED
    BY <1>5, <1>9, <2>1 DEF CanonicalRow
<1>12. Canonical(target, built)
  BY <1>1, <1>2, <1>5, <1>6, <1>8, <1>11 DEF Canonical
<1>13. \A o, q \in 0 .. E : o <= q => built.offsets[o] <= built.offsets[q]
  BY <1>1, <1>5, <1>10, <1>12, OffsetsRise
<1>14. ASSUME NEW k \in Slots(n)
       PROVE  \E p \in Slots(n) : TargetOuter(p) = RowOf(built, k) /\ Copies(built, k, p)
  <2>1. PICK r : r = RowOf(built, k)
    OBVIOUS
  <2>2. r \in Slots(E) /\ built.offsets[r] <= k /\ k < built.offsets[r + 1]
    BY <1>1, <1>5, <1>6, <1>8, <1>10, <1>13, <2>1, RowFacts
  <2>3. k \in built.offsets[r] .. built.offsets[r + 1] - 1
    BY <1>9, <2>2 DEF Slots
  <2> QED
    BY <1>9, <2>1, <2>2, <2>3
<1>15. \A k \in Slots(n) : built.indices[k] \in Int
  <2>1. ASSUME NEW k \in Slots(n)
        PROVE  built.indices[k] \in Int
    <3>1. PICK p \in Slots(n) : Copies(built, k, p)
      BY <1>14
    <3> QED
      BY <1>3, <3>1 DEF Copies
  <2> QED
    BY <2>1
<1>16. Sound(target, built, n)
  BY <1>1, <1>2, <1>10, <1>12, <1>15 DEF Sound
<1>17. ASSUME NEW k \in Slots(n), NEW p \in Slots(n), TargetOuter(p) = RowOf(built, k),
              Copies(built, k, p)
       PROVE  /\ CoordinateOf(format, array, p) = CoordinateOf(target, built, k)
              /\ array.values[p] = built.values[k]
  <2>1. PICK a \in Positions : a = Source(p)
    BY <1>3
  <2>2. At(target, OuterOf(target, a), InnerOf(target, a)) = a
    BY PositionFacts
  <2>3. CoordinateOf(target, built, k) = At(target, RowOf(built, k), built.indices[k])
    BY <1>2 DEF CoordinateOf
  <2>4. RowOf(built, k) = OuterOf(target, a) /\ built.indices[k] = InnerOf(target, a)
    BY <1>17, <2>1 DEF Copies, TargetOuter, TargetInner
  <2>5. CoordinateOf(target, built, k) = a
    BY <2>2, <2>3, <2>4
  <2> QED
    BY <1>17, <2>1, <2>5 DEF Source, Copies
<1>18. ASSUME NEW k \in Slots(n)
       PROVE  \E p \in Slots(n) : /\ CoordinateOf(format, array, p) = CoordinateOf(target, built, k)
                                  /\ array.values[p] = built.values[k]
  BY <1>14, <1>17
<1>19. ASSUME NEW p \in Slots(n)
       PROVE  \E k \in Slots(n) : /\ CoordinateOf(format, array, p) = CoordinateOf(target, built, k)
                                  /\ array.values[p] = built.values[k]
  <2>1. PICK o \in Slots(E) : o = TargetOuter(p)
    BY <1>3 DEF Slots
  <2>2. EntryFilled(n, built, outer, n, p)
    BY <1>4 DEF Filled
  <2>3. RowBegin(built, o) = built.offsets[o] /\ RowEnd(built, o, outer, n) = built.offsets[o + 1]
    BY <1>1 DEF RowBegin, RowEnd, Slots
  <2>4. PICK j \in built.offsets[o] .. built.offsets[o + 1] - 1 : Copies(built, j, p)
    BY <2>1, <2>2, <2>3 DEF EntryFilled
  <2>5. j \in Slots(n) /\ built.offsets[o] <= j /\ j < built.offsets[o + 1]
    BY <1>9, <2>4 DEF Slots
  <2>6. RowOf(built, j) = o
    BY <1>1, <1>5, <1>6, <1>8, <1>10, <1>13, <2>5, RowFacts
  <2> QED
    BY <1>17, <2>1, <2>4, <2>5, <2>6
<1>20. Count(array) = n
  BY ShapedFacts DEF Sound
<1>21. Entries(format, array) = Entries(target, built)
  BY <1>5, <1>18, <1>19, <1>20, SameEntries
<1> QED
  BY <1>16, <1>21

(* Finished rows become the owner.                                          *)
LEMMA FinishCompressedStep ==
  ASSUME IInv, FinishCompressed
  PROVE  IInv'
<1>1. /\ stage = "converting" /\ target # "coordinate" /\ outer = OuterExtent(target)
      /\ stage' = "owned" /\ format' = target /\ array' = built
      /\ target' = target /\ matrix' = matrix
  BY DEF FinishCompressed, Finish
<1>2. PICK n \in 0 .. MaxStored : Converts(n)
  BY <1>1 DEF IInv
<1>3. /\ n \in Nat /\ format \in Formats /\ Sound(format, array, n)
      /\ matrix = Entries(format, array)
      /\ Shaped(target, built, n) /\ target \in Compressed /\ target \in Formats
      /\ Filled(n, built, outer, output, position)
  BY <1>1, <1>2, ShapeFacts DEF IInv, Converts, Owns, Formats
<1>4. Sound(target, built, n) /\ Entries(format, array) = Entries(target, built)
  BY <1>1, <1>3, FilledIsSound
<1>5. Owns(n)'
  BY <1>1, <1>3, <1>4 DEF Owns
<1> QED
  BY <1>1, <1>3, <1>5 DEF IInv, Stages

(* The entries of s in the order g. *)
Permuted(s, g, n) ==
  Storage(<<>>, [p \in Slots(n) |-> s.indices[g[p]]], [p \in Slots(n) |-> s.values[g[p]]])

(* Sorting puts every entry at its rank. *)
LEMMA SortedFacts ==
  ASSUME NEW n \in Nat, NEW s, DOMAIN s.indices = Slots(n),
         \A p \in Slots(n) : s.indices[p] \in Positions,
         \A p, q \in Slots(n) : s.indices[p] = s.indices[q] => p = q
  PROVE  \E g \in [Slots(n) -> Slots(n)] :
           /\ \A p, q \in Slots(n) :
                p < q => Less("coordinate", s.indices[g[p]], s.indices[g[q]])
           /\ \A q \in Slots(n) : \E p \in Slots(n) : g[p] = q
           /\ Sorted(s) = Permuted(s, g, n)
<1> DEFINE Rank(q) == Cardinality({r \in DOMAIN s.indices : Precedes(s.indices[r], s.indices[q])})
           Pick(p) == CHOOSE q \in DOMAIN s.indices : Rank(q) = p
           g == [p \in Slots(n) |-> Pick(p)]
<1>1. \A q : Rank(q) = RankIn("coordinate", Slots(n), s.indices, q)
  BY DEF RankIn, Less
<1>2. Sorted(s) = Storage(<<>>, [p \in DOMAIN s.indices |-> s.indices[Pick(p)]],
                                [p \in DOMAIN s.indices |-> s.values[Pick(p)]])
  BY DEF Sorted
<1>3. PICK f \in Formats : f = "coordinate"
  BY DEF Formats
<1>4. PICK c : c = s.indices
  OBVIOUS
<1> HIDE DEF Rank
<1>5. /\ \A t \in Slots(n) : RankIn(f, Slots(n), c, t) \in 0 .. n - 1
      /\ \A t, u \in Slots(n) :
           Less(f, c[t], c[u]) <=> RankIn(f, Slots(n), c, t) < RankIn(f, Slots(n), c, u)
      /\ \A t, u \in Slots(n) :
           RankIn(f, Slots(n), c, t) = RankIn(f, Slots(n), c, u) => t = u
      /\ \A p \in 0 .. n - 1 : \E t \in Slots(n) : RankIn(f, Slots(n), c, t) = p
  <2>1. IsFiniteSet(Slots(n)) /\ Cardinality(Slots(n)) = n
    BY SlotsFacts
  <2>2. /\ \A p \in Slots(n) : c[p] \in Positions
        /\ \A p, q \in Slots(n) : c[p] = c[q] => p = q
    BY <1>4
  <2> QED
    BY <2>1, <2>2, RankOnto
<1>6. \A q : Rank(q) = RankIn(f, Slots(n), c, q)
  BY <1>1, <1>3, <1>4
<1>7. ASSUME NEW p \in Slots(n)
      PROVE  Pick(p) \in Slots(n) /\ Rank(Pick(p)) = p
  <2>1. \E q \in DOMAIN s.indices : Rank(q) = p
    BY <1>5, <1>6 DEF Slots
  <2>2. Pick(p) \in DOMAIN s.indices /\ Rank(Pick(p)) = p
    BY <2>1, Zenon
  <2> QED
    BY <2>2
<1> HIDE DEF Pick
<1>8. g \in [Slots(n) -> Slots(n)] /\ \A p \in Slots(n) : Rank(g[p]) = p
  BY <1>7
<1>9. ASSUME NEW p \in Slots(n), NEW q \in Slots(n), p < q
      PROVE  Less("coordinate", s.indices[g[p]], s.indices[g[q]])
  <2>1. PICK t \in Slots(n) : t = g[p] /\ Rank(t) = p
    BY <1>8
  <2>2. PICK u \in Slots(n) : u = g[q] /\ Rank(u) = q
    BY <1>8
  <2>3. Less(f, c[t], c[u])
    BY <1>5, <1>6, <1>9, <2>1, <2>2
  <2> QED
    BY <1>3, <1>4, <2>1, <2>2, <2>3
<1>10. ASSUME NEW q \in Slots(n)
       PROVE  \E p \in Slots(n) : g[p] = q
  <2>1. PICK p \in Slots(n) : p = Rank(q)
    BY <1>5, <1>6 DEF Slots
  <2>2. g[p] \in Slots(n) /\ Rank(g[p]) = Rank(q)
    BY <1>8, <2>1
  <2>3. g[p] = q
    BY <1>5, <1>6, <2>2
  <2> QED
    BY <2>3
<1>11. Sorted(s) = Permuted(s, g, n)
  BY <1>2 DEF Permuted
<1> HIDE DEF g
<1> QED
  BY <1>8, <1>9, <1>10, <1>11

(* The sorted entries of the builder become the owner.                      *)
LEMMA FinishCoordinateStep ==
  ASSUME IInv, FinishCoordinate
  PROVE  IInv'
<1>1. /\ stage = "converting" /\ target = "coordinate" /\ from = Segments(format)
      /\ stage' = "owned" /\ format' = target /\ array' = Sorted(built)
      /\ target' = target /\ matrix' = matrix
  BY DEF FinishCoordinate, Finish
<1>2. PICK n \in 0 .. MaxStored : Converts(n)
  BY <1>1 DEF IInv
<1>3. /\ n \in Nat /\ format \in Formats /\ Sound(format, array, n)
      /\ matrix = Entries(format, array) /\ target \in Formats
      /\ Shaped(target, built, n) /\ Traversal(n) /\ Collected(n)
  BY <1>1, <1>2, ShapeFacts DEF IInv, Converts, Owns
<1>4. position = n
  BY <1>1, <1>3 DEF Traversal
<1>5. /\ DOMAIN built.indices = Slots(n) /\ Count(array) = n
      /\ \A p \in Slots(n) :
           built.indices[p] = Source(p) /\ built.values[p] = array.values[p]
  BY <1>3, <1>4, ShapedFacts DEF Collected, Sound
<1>6. \A p \in Slots(n) : built.indices[p] \in Positions
  BY <1>3, <1>5, SourceFacts
<1>7. \A p, q \in Slots(n) : built.indices[p] = built.indices[q] => p = q
  BY <1>3, <1>5, SoundCounts DEF Source
<1>8. PICK g \in [Slots(n) -> Slots(n)] :
        /\ \A p, q \in Slots(n) :
             p < q => Less("coordinate", built.indices[g[p]], built.indices[g[q]])
        /\ \A q \in Slots(n) : \E p \in Slots(n) : g[p] = q
        /\ Sorted(built) = Permuted(built, g, n)
  BY <1>3, <1>5, <1>6, <1>7, SortedFacts
<1>9. PICK s : s = Sorted(built)
  OBVIOUS
<1>10. /\ s.offsets = <<>>
       /\ s.indices = [p \in Slots(n) |-> built.indices[g[p]]]
       /\ s.values = [p \in Slots(n) |-> built.values[g[p]]]
       /\ s = Storage(s.offsets, s.indices, s.values)
  BY <1>8, <1>9 DEF Storage, Permuted
<1>11. \A p \in Slots(n) : /\ g[p] \in Slots(n)
                          /\ s.indices[p] = built.indices[g[p]]
                          /\ s.values[p] = built.values[g[p]]
  BY <1>10
<1>12. Shaped("coordinate", s, n)
  BY <1>10 DEF Shaped, Compressed
<1>13. Count(s) = n
  BY <1>3, <1>12, ShapedFacts DEF Formats
<1>14. \A p \in Slots(n) : s.indices[p] \in Positions
  BY <1>6, <1>11
<1>15. Canonical("coordinate", s)
  <2>1. ASSUME NEW p \in Slots(n)
        PROVE  InBounds(s.indices[p])
    BY <1>14, PositionFacts
  <2>2. ASSUME NEW p \in Slots(n), p # 0
        PROVE  Precedes(s.indices[p - 1], s.indices[p])
    <3>1. PICK q \in Slots(n) : q = p - 1 /\ q < p
      BY <2>2 DEF Slots
    <3>2. Less("coordinate", built.indices[g[q]], built.indices[g[p]])
      BY <1>8, <3>1
    <3>3. Precedes(built.indices[g[q]], built.indices[g[p]])
      BY <3>2 DEF Less
    <3> QED
      BY <1>11, <3>1, <3>3
  <2> QED
    BY <1>13, <2>1, <2>2 DEF Canonical
<1>16. Sound("coordinate", s, n)
  BY <1>12, <1>14, <1>15 DEF Sound, Compressed
<1>17. \A p \in Slots(n) : /\ CoordinateOf("coordinate", s, p) = CoordinateOf(format, array, g[p])
                          /\ s.values[p] = array.values[g[p]]
  <2>1. ASSUME NEW p \in Slots(n)
        PROVE  /\ CoordinateOf("coordinate", s, p) = CoordinateOf(format, array, g[p])
               /\ s.values[p] = array.values[g[p]]
    <3>1. PICK q \in Slots(n) : q = g[p]
      BY <1>11
    <3>2. s.indices[p] = Source(q) /\ s.values[p] = array.values[q]
      BY <1>5, <1>11, <3>1
    <3> QED
      BY <3>1, <3>2 DEF Source, CoordinateOf
  <2> QED
    BY <2>1
<1>18. Entries("coordinate", s) = Entries(format, array)
  <2>1. \A p \in Slots(n) : \E k \in Slots(n) :
          /\ CoordinateOf("coordinate", s, p) = CoordinateOf(format, array, k)
          /\ s.values[p] = array.values[k]
    BY <1>11, <1>17
  <2>2. ASSUME NEW k \in Slots(n)
        PROVE  \E p \in Slots(n) :
                 /\ CoordinateOf("coordinate", s, p) = CoordinateOf(format, array, k)
                 /\ s.values[p] = array.values[k]
    <3>1. PICK p \in Slots(n) : g[p] = k
      BY <1>8
    <3> QED
      BY <1>17, <3>1
  <2> QED
    BY <1>3, <1>5, <1>13, <2>1, <2>2, SameEntries
<1>19. Owns(n)'
  BY <1>1, <1>3, <1>9, <1>16, <1>18 DEF Owns
<1> QED
  BY <1>1, <1>3, <1>19 DEF IInv, Stages

-----------------------------------------------------------------------------

(* A step that changes nothing.                                             *)
LEMMA StutterStep ==
  ASSUME IInv, UNCHANGED vars
  PROVE  IInv'
<1>1. UNCHANGED <<stage, format, array, target, built, outer, from, position, output, matrix>>
  BY DEF vars
<1>2. PICK n \in 0 .. MaxStored :
        /\ stage \in {"offered", "refused"} => Offered(n)
        /\ stage = "refused" => ~(n <= Shape[1] * Shape[2] /\ Canonical(format, array))
        /\ stage = "owned" => Owns(n)
        /\ stage = "converting" => Converts(n)
  BY DEF IInv
<1>3. CASE stage = "converting"
  <2>1. Traversal(n)'
    BY <1>1, <1>2, <1>3 DEF Converts, Traversal, Segments, SegmentBegin, SegmentEnd
  <2>2. target = "coordinate" => Collected(n)'
    BY <1>1, <1>2, <1>3 DEF Converts, Collected, Source
  <2>3. Shaped(target, built', n) /\ stage' = "converting"
    BY <1>1, <1>2, <1>3 DEF Converts
  <2>4. target \in Compressed => Filled(n, built', outer', output', position')
    BY <1>1, <1>2, <1>3 DEF Converts
  <2> QED
    BY <1>1, <1>2, <1>3, <2>1, <2>2, <2>3, <2>4, ConvertsPrimed
<1>4. CASE stage = "owned"
  <2>1. Owns(n)'
    BY <1>1, <1>2, <1>4 DEF Owns
  <2> QED
    BY <1>1, <1>4, <2>1 DEF IInv, Stages
<1>5. CASE stage \in {"offered", "refused"}
  <2>1. Offered(n)'
    BY <1>1, <1>2, <1>5 DEF Offered
  <2>2. (stage = "refused" => ~(n <= Shape[1] * Shape[2] /\ Canonical(format, array)))'
    BY <1>1, <1>2, <1>5
  <2> QED
    BY <1>1, <1>5, <2>1, <2>2 DEF IInv, Stages
<1> QED
  BY <1>3, <1>4, <1>5 DEF IInv, Stages

(* Every step keeps the invariant.                                          *)
LEMMA NextIInv == IInv /\ [Next]_vars => IInv'
<1> SUFFICES ASSUME IInv, [Next]_vars
             PROVE  IInv'
  OBVIOUS
<1>1. CASE \E values \in [DOMAIN array.indices -> Elements] : Create(values)
  BY <1>1, CreateStep
<1>2. CASE CreateFails
  BY <1>2, CreateFailsStep
<1>3. CASE \E p \in DOMAIN array.indices, v \in Elements : Write(p, v)
  BY <1>3, WriteStep
<1>4. CASE \E f \in Formats : Convert(f)
  BY <1>4, ConvertStep
<1>5. CASE Fill
  BY <1>5, FillStep
<1>6. CASE Collect
  BY <1>6, CollectStep
<1>7. CASE NextSegment
  BY <1>7, NextSegmentStep
<1>8. CASE NextOuter
  BY <1>8, NextOuterStep
<1>9. CASE FinishCompressed
  BY <1>9, FinishCompressedStep
<1>10. CASE FinishCoordinate
  BY <1>10, FinishCoordinateStep
<1>11. CASE UNCHANGED vars
  BY <1>11, StutterStep
<1> QED
  BY <1>1, <1>2, <1>3, <1>4, <1>5, <1>6, <1>7, <1>8, <1>9, <1>10, <1>11 DEF Next

-----------------------------------------------------------------------------
(* The binary search of a row. *)

Under(i, k) == array.indices[k] < i

(* The first entry of first..last-1 that is not under i, or last. *)
Lands(x, i, first, last) ==
  IF first >= last THEN x = first
  ELSE /\ x \in first .. last
       /\ x = last \/ ~Under(i, x)
       /\ \A k \in first .. x - 1 : Under(i, k)

IsSearch(f, i, begin, end) ==
  f = [range \in (begin .. end) \X (begin .. end) |->
         LET first == range[1]
             last == range[2]
             middle == first + (last - first) \div 2
         IN IF first >= last THEN first
            ELSE IF array.indices[middle] < i THEN f[<<middle + 1, last>>]
            ELSE f[<<first, middle>>]]

(* There is such a place.                                                   *)
LEMMA LandsSomewhere ==
  ASSUME NEW i, NEW first \in Nat, NEW last \in Nat
  PROVE  \E x : Lands(x, i, first, last)
<1>1. CASE first >= last
  BY <1>1 DEF Lands
<1>2. CASE first < last
  <2> DEFINE S == {x \in first .. last : x = last \/ ~Under(i, x)}
  <2>1. S \subseteq Nat /\ S # {}
    BY <1>2
  <2>2. PICK x \in S : \A y \in S : x <= y
    <3> HIDE DEF S
    <3> QED
      BY <2>1, LeastNat
  <2>3. \A k \in first .. x - 1 : Under(i, k)
    BY <2>2
  <2> QED
    BY <1>2, <2>2, <2>3 DEF Lands
<1> QED
  BY <1>1, <1>2

(* The middle lies in the range, and before its end.                        *)
LEMMA Halving ==
  ASSUME NEW first \in Nat, NEW last \in Nat, first < last
  PROVE  first + (last - first) \div 2 \in first .. last - 1
<1>1. PICK d \in Nat : d = last - first /\ d >= 1
  OBVIOUS
<1>2. d \div 2 \in 0 .. d - 1
  BY <1>1
<1> QED
  BY <1>1, <1>2

(* In a sorted row the place of one half is the place of the whole.         *)
LEMMA LandsInHalf ==
  ASSUME NEW begin \in Nat, NEW end \in Nat, NEW i \in Int,
         \A k \in begin .. end - 1 : array.indices[k] \in Int,
         \A j, k \in begin .. end - 1 : j < k => array.indices[j] < array.indices[k],
         NEW first \in begin .. end, NEW last \in begin .. end,
         first < last, NEW middle \in first .. last - 1, NEW x,
         \/ Under(i, middle) /\ Lands(x, i, middle + 1, last)
         \/ ~Under(i, middle) /\ Lands(x, i, first, middle)
  PROVE  Lands(x, i, first, last)
<1>1. CASE Under(i, middle) /\ Lands(x, i, middle + 1, last)
  <2>1. ASSUME NEW k \in first .. middle
        PROVE  Under(i, k)
    <3>1. k \in begin .. end - 1 /\ middle \in begin .. end - 1
      OBVIOUS
    <3>2. CASE k = middle
      BY <1>1, <3>2
    <3>3. CASE k < middle
      <4>1. array.indices[k] < array.indices[middle]
        BY <3>1, <3>3
      <4>2. array.indices[k] \in Int /\ array.indices[middle] \in Int
        BY <3>1
      <4> QED
        BY <1>1, <4>1, <4>2 DEF Under
    <3> QED
      BY <3>2, <3>3
  <2>2. /\ x \in middle + 1 .. last
        /\ x = last \/ ~Under(i, x)
        /\ \A k \in middle + 1 .. x - 1 : Under(i, k)
    <3>1. CASE middle + 1 >= last
      <4>1. x = middle + 1 /\ x = last
        BY <1>1, <3>1 DEF Lands
      <4> QED
        BY <4>1
    <3>2. CASE ~(middle + 1 >= last)
      BY <1>1, <3>2 DEF Lands
    <3> QED
      BY <3>1, <3>2
  <2>3. /\ x \in first .. last
        /\ \A k \in first .. x - 1 : k \in first .. middle \/ k \in middle + 1 .. x - 1
    BY <2>2
  <2>4. \A k \in first .. x - 1 : Under(i, k)
    BY <2>1, <2>2, <2>3
  <2>5. ~(first >= last)
    OBVIOUS
  <2> QED
    BY <2>2, <2>3, <2>4, <2>5 DEF Lands
<1>2. CASE ~Under(i, middle) /\ Lands(x, i, first, middle)
  <2>1. /\ x \in first .. middle
        /\ x = middle \/ ~Under(i, x)
        /\ \A k \in first .. x - 1 : Under(i, k)
    <3>1. CASE first >= middle
      <4>1. x = first /\ x = middle
        BY <1>2, <3>1 DEF Lands
      <4> QED
        BY <4>1
    <3>2. CASE ~(first >= middle)
      BY <1>2, <3>2 DEF Lands
    <3> QED
      BY <3>1, <3>2
  <2>2. x \in first .. last /\ ~Under(i, x) /\ ~(first >= last)
    BY <1>2, <2>1
  <2> QED
    BY <2>1, <2>2 DEF Lands
<1> QED
  BY <1>1, <1>2

(* The place is the only one.                                               *)
LEMMA LandsOnce ==
  ASSUME NEW i, NEW first \in Nat, NEW last \in Nat, NEW x, NEW y,
         Lands(x, i, first, last), Lands(y, i, first, last)
  PROVE  x = y
<1>1. CASE first >= last
  BY <1>1 DEF Lands
<1>2. CASE first < last
  <2>1. /\ x \in first .. last /\ (x = last \/ ~Under(i, x))
        /\ \A k \in first .. x - 1 : Under(i, k)
        /\ y \in first .. last /\ (y = last \/ ~Under(i, y))
        /\ \A k \in first .. y - 1 : Under(i, k)
    BY <1>2 DEF Lands
  <2>2. ~(x < y)
    <3>1. ASSUME x < y PROVE FALSE
      <4>1. x \in first .. y - 1 /\ x # last
        BY <2>1, <3>1
      <4> QED
        BY <2>1, <4>1
    <3> QED
      BY <3>1
  <2>3. ~(y < x)
    <3>1. ASSUME y < x PROVE FALSE
      <4>1. y \in first .. x - 1 /\ y # last
        BY <2>1, <3>1
      <4> QED
        BY <2>1, <4>1
    <3> QED
      BY <3>1
  <2> QED
    BY <2>1, <2>2, <2>3
<1> QED
  BY <1>1, <1>2

(* The recursive definition of the search has a solution, and every         *)
(* solution ends at the place sought.                                       *)
LEMMA SearchFinds ==
  ASSUME NEW begin \in Nat, NEW end \in Nat, begin <= end, NEW i \in Int,
         \A k \in begin .. end - 1 : array.indices[k] \in Int,
         \A j, k \in begin .. end - 1 : j < k => array.indices[j] < array.indices[k]
  PROVE  /\ Search(i, begin, end) \in begin .. end
         /\ Search(i, begin, end) = end \/ ~(array.indices[Search(i, begin, end)] < i)
         /\ \A k \in begin .. Search(i, begin, end) - 1 : array.indices[k] < i
<1> DEFINE R == begin .. end
           F == [range \in R \X R |-> CHOOSE x : Lands(x, i, range[1], range[2])]
<1>1. \A k \in R : k \in Nat
  OBVIOUS
<1>2. \A first, last \in R : Lands(F[<<first, last>>], i, first, last)
  <2>1. \A first, last \in R : F[<<first, last>>] = CHOOSE x : Lands(x, i, first, last)
    OBVIOUS
  <2> HIDE DEF F, R
  <2>2. ASSUME NEW first \in R, NEW last \in R
        PROVE  Lands(F[<<first, last>>], i, first, last)
    <3>1. \E x : Lands(x, i, first, last)
      BY <1>1, LandsSomewhere
    <3>2. Lands(CHOOSE x : Lands(x, i, first, last), i, first, last)
      BY <3>1, Zenon
    <3> QED
      BY <2>1, <3>2, Zenon
  <2> QED
    BY <2>2
<1>3. IsSearch(F, i, begin, end)
  <2>1. ASSUME NEW first \in R, NEW last \in R
        PROVE  F[<<first, last>>] =
                 IF first >= last THEN first
                 ELSE LET middle == first + (last - first) \div 2 IN
                      IF array.indices[middle] < i THEN F[<<middle + 1, last>>]
                      ELSE F[<<first, middle>>]
    <3>1. Lands(F[<<first, last>>], i, first, last) /\ first \in Nat /\ last \in Nat
      <4>1. first \in Nat /\ last \in Nat
        BY <1>1
      <4> HIDE DEF F
      <4> QED
        BY <1>2, <4>1
    <3>2. CASE first >= last
      BY <3>1, <3>2 DEF Lands
    <3>3. CASE first < last
      <4>1. PICK middle \in first .. last - 1 : middle = first + (last - first) \div 2
        BY <3>1, <3>3, Halving
      <4>2. middle \in R /\ middle + 1 \in R /\ middle \in Nat /\ middle + 1 \in Nat
        BY <3>1, <3>3, <4>1
      <4>3. /\ Lands(F[<<middle + 1, last>>], i, middle + 1, last)
            /\ Lands(F[<<first, middle>>], i, first, middle)
        BY <1>2, <4>2
      <4> HIDE DEF F
      <4>4. CASE Under(i, middle)
        <5>1. Lands(F[<<middle + 1, last>>], i, first, last)
          BY <3>3, <4>3, <4>4, LandsInHalf
        <5>2. F[<<first, last>>] = F[<<middle + 1, last>>]
          BY <3>1, <5>1, LandsOnce
        <5> QED
          BY <3>1, <3>3, <4>1, <4>4, <5>2 DEF Under
      <4>5. CASE ~Under(i, middle)
        <5>1. Lands(F[<<first, middle>>], i, first, last)
          BY <3>3, <4>3, <4>5, LandsInHalf
        <5>2. F[<<first, last>>] = F[<<first, middle>>]
          BY <3>1, <5>1, LandsOnce
        <5> QED
          BY <3>1, <3>3, <4>1, <4>5, <5>2 DEF Under
      <4> QED
        BY <4>4, <4>5
    <3> QED
      BY <3>1, <3>2, <3>3
  <2>2. F = [range \in R \X R |-> F[range]]
    OBVIOUS
  <2>3. \A range \in R \X R : range = <<range[1], range[2]>> /\ range[1] \in R /\ range[2] \in R
    OBVIOUS
  <2>4. ASSUME NEW range \in R \X R
        PROVE  F[range] =
                 IF range[1] >= range[2] THEN range[1]
                 ELSE IF array.indices[range[1] + (range[2] - range[1]) \div 2] < i
                      THEN F[<<range[1] + (range[2] - range[1]) \div 2 + 1, range[2]>>]
                      ELSE F[<<range[1], range[1] + (range[2] - range[1]) \div 2>>]
    <3>1. PICK first \in R, last \in R :
            range = <<first, last>> /\ range[1] = first /\ range[2] = last
      BY <2>3
    <3> HIDE DEF F
    <3> QED
      BY <2>1, <3>1
  <2> HIDE DEF F
  <2> QED
    BY <2>2, <2>4 DEF IsSearch
<1>4. PICK f : IsSearch(f, i, begin, end) /\ Search(i, begin, end) = f[<<begin, end>>]
  <2>1. Search(i, begin, end) = (CHOOSE f : IsSearch(f, i, begin, end))[<<begin, end>>]
    BY DEF Search, IsSearch
  <2> HIDE DEF F
  <2> QED
    BY <1>3, <2>1
<1>5. \A first, last \in R :
        f[<<first, last>>] =
          IF first >= last THEN first
          ELSE LET middle == first + (last - first) \div 2 IN
               IF array.indices[middle] < i THEN f[<<middle + 1, last>>]
               ELSE f[<<first, middle>>]
  BY <1>4 DEF IsSearch
<1> HIDE DEF F
<1> DEFINE S == {n \in Nat : \A first, last \in R :
                   first <= last /\ last - first <= n => Lands(f[<<first, last>>], i, first, last)}
<1>6. 0 \in S
  <2>1. ASSUME NEW first \in R, NEW last \in R, first <= last, last - first <= 0
        PROVE  Lands(f[<<first, last>>], i, first, last)
    <3>1. first >= last
      BY <1>1, <2>1
    <3>2. f[<<first, last>>] = first
      BY <1>5, <3>1
    <3> QED
      BY <3>1, <3>2 DEF Lands
  <2> QED
    BY <2>1
<1>7. ASSUME NEW n \in Nat, n \in S
      PROVE  n + 1 \in S
  <2>1. ASSUME NEW first \in R, NEW last \in R, first <= last, last - first <= n + 1
        PROVE  Lands(f[<<first, last>>], i, first, last)
    <3>1. first \in Nat /\ last \in Nat
      BY <1>1
    <3>2. CASE first >= last
      <4>1. f[<<first, last>>] = first
        BY <1>5, <3>2
      <4> QED
        BY <3>2, <4>1 DEF Lands
    <3>3. CASE first < last
      <4>1. PICK middle \in first .. last - 1 : middle = first + (last - first) \div 2
        BY <3>1, <3>3, Halving
      <4>2. /\ middle \in R /\ middle + 1 \in R
            /\ first <= middle /\ middle - first <= n
            /\ middle + 1 <= last /\ last - (middle + 1) <= n
        BY <1>1, <2>1, <3>1, <3>3, <4>1
      <4>3. /\ Lands(f[<<middle + 1, last>>], i, middle + 1, last)
            /\ Lands(f[<<first, middle>>], i, first, middle)
        BY <1>7, <4>2
      <4>4. f[<<first, last>>] =
              IF Under(i, middle) THEN f[<<middle + 1, last>>] ELSE f[<<first, middle>>]
        BY <1>5, <3>1, <3>3, <4>1 DEF Under
      <4>5. CASE Under(i, middle)
        <5>1. Lands(f[<<middle + 1, last>>], i, first, last)
          BY <3>3, <4>3, <4>5, LandsInHalf
        <5> QED
          BY <4>4, <4>5, <5>1
      <4>6. CASE ~Under(i, middle)
        <5>1. Lands(f[<<first, middle>>], i, first, last)
          BY <3>3, <4>3, <4>6, LandsInHalf
        <5> QED
          BY <4>4, <4>6, <5>1
      <4> QED
        BY <4>5, <4>6
    <3> QED
      BY <3>1, <3>2, <3>3
  <2> QED
    BY <2>1
<1>8. Nat \subseteq S
  <2> HIDE DEF S
  <2> QED
    BY <1>6, <1>7, NatInd
<1>9. PICK x : x = Search(i, begin, end) /\ Lands(x, i, begin, end)
  <2>1. PICK n \in Nat : n = end - begin
    OBVIOUS
  <2>2. n \in S /\ begin \in R /\ end \in R /\ begin <= end /\ end - begin <= n
    BY <1>8, <2>1
  <2>3. Lands(f[<<begin, end>>], i, begin, end)
    BY <2>2
  <2> QED
    BY <1>4, <2>3
<1>10. /\ x \in begin .. end
       /\ x = end \/ ~Under(i, x)
       /\ \A k \in begin .. x - 1 : Under(i, k)
  <2>1. CASE begin = end
    <3>1. x = begin
      BY <1>9, <2>1 DEF Lands
    <3> QED
      BY <2>1, <3>1
  <2>2. CASE begin # end
    <3>1. ~(begin >= end)
      BY <2>2
    <3> QED
      BY <1>9, <3>1 DEF Lands
  <2> QED
    BY <2>1, <2>2
<1> QED
  BY <1>9, <1>10 DEF Under

-----------------------------------------------------------------------------
(* Lookup. *)

(* In canonical storage Lookup finds what is stored and nothing else.       *)
LEMMA LookupReads == IInv => LookupReadsTheMatrix
<1> SUFFICES ASSUME IInv, stage = "owned", format # "coordinate", NEW a \in Positions
             PROVE  Lookup(a) = IF \E e \in matrix : e.at = a
                                THEN (CHOOSE e \in matrix : e.at = a).value ELSE Default
  BY DEF LookupReadsTheMatrix
<1>1. PICK n \in Nat : Sound(format, array, n) /\ matrix = Entries(format, array)
  BY ShapeFacts DEF IInv, Owns
<1>2. format \in Formats /\ format \in Compressed /\ OuterExtent(format) \in Nat
  BY ShapeFacts DEF IInv, Formats
<1>3. /\ Count(array) = n /\ DOMAIN array.offsets = 0 .. OuterExtent(format)
      /\ Canonical(format, array)
      /\ \A q \in 0 .. OuterExtent(format) : array.offsets[q] \in Int
  BY <1>1, <1>2, ShapedFacts DEF Sound
<1>4. /\ array.offsets[0] = 0 /\ array.offsets[OuterExtent(format)] = n
      /\ \A q, k \in 0 .. OuterExtent(format) : q <= k => array.offsets[q] <= array.offsets[k]
      /\ \A q \in 0 .. OuterExtent(format) : 0 <= array.offsets[q] /\ array.offsets[q] <= n
  BY <1>2, <1>3, OffsetsRise
<1>5. PICK o \in 0 .. OuterExtent(format) - 1, i \in 0 .. InnerExtent(format) - 1 :
        o = OuterOf(format, a) /\ i = InnerOf(format, a) /\ At(format, o, i) = a
  BY <1>2, PositionFacts
<1>6. o \in 0 .. OuterExtent(format) /\ o + 1 \in 0 .. OuterExtent(format)
      /\ o \in Slots(OuterExtent(format)) /\ i \in Int
  BY <1>2, <1>5, ShapeFacts DEF Slots
<1>7. PICK begin \in Nat, end \in Nat :
        begin = array.offsets[o] /\ end = array.offsets[o + 1] /\ begin <= end /\ end <= n
  <2>1. array.offsets[o] \in Int /\ array.offsets[o + 1] \in Int
    BY <1>3, <1>6
  <2>2. array.offsets[o] <= array.offsets[o + 1]
    BY <1>4, <1>6
  <2>3. 0 <= array.offsets[o] /\ 0 <= array.offsets[o + 1] /\ array.offsets[o + 1] <= n
    BY <1>4, <1>6
  <2> QED
    BY <2>1, <2>2, <2>3
<1>8. ASSUME NEW k \in begin .. end - 1
      PROVE  /\ k \in Slots(n) /\ RowOf(array, k) = o
             /\ array.indices[k] \in Int
             /\ CoordinateOf(format, array, k) = At(format, o, array.indices[k])
             /\ InnerOf(format, CoordinateOf(format, array, k)) = array.indices[k]
             /\ OuterOf(format, CoordinateOf(format, array, k)) = o
  <2>1. k \in Slots(n) /\ begin <= k /\ k < end
    BY <1>7 DEF Slots
  <2>2. RowOf(array, k) = o
    BY <1>2, <1>3, <1>4, <1>6, <1>7, <2>1, RowFacts
  <2>3. array.indices[k] \in Int
    BY <1>1, <1>2, <2>1 DEF Sound
  <2>4. CoordinateOf(format, array, k) = At(format, o, array.indices[k])
    BY <2>2 DEF CoordinateOf
  <2> QED
    BY <1>1, <1>2, <2>1, <2>2, <2>3, <2>4, RowIndices
<1>9. ASSUME NEW j \in begin .. end - 1, NEW k \in begin .. end - 1, j < k
      PROVE  array.indices[j] < array.indices[k]
  <2>1. j \in Slots(n) /\ k \in Slots(n)
    BY <1>8
  <2>2. Less(format, CoordinateOf(format, array, j), CoordinateOf(format, array, k))
    BY <1>1, <1>2, <1>9, <2>1, Enumerates
  <2>3. ~(o < o)
    BY <1>6
  <2> QED
    BY <1>8, <2>2, <2>3 DEF Less
<1>10. PICK x : x = Search(i, begin, end)
  OBVIOUS
<1>11. /\ x \in begin .. end
       /\ x = end \/ ~(array.indices[x] < i)
       /\ \A k \in begin .. x - 1 : array.indices[k] < i
  <2>1. /\ \A k \in begin .. end - 1 : array.indices[k] \in Int
        /\ \A j, k \in begin .. end - 1 : j < k => array.indices[j] < array.indices[k]
    BY <1>8, <1>9
  <2> QED
    BY <1>6, <1>7, <1>10, <2>1, SearchFinds
<1>12. Lookup(a) = IF x < end /\ array.indices[x] = i THEN array.values[x] ELSE Default
  BY <1>5, <1>7, <1>10 DEF Lookup
<1>13. \A e : e \in matrix <=>
         \E p \in Slots(n) : e = Entry(CoordinateOf(format, array, p), array.values[p])
  <2>1. matrix = {Entry(CoordinateOf(format, array, p), array.values[p]) : p \in Slots(n)}
    BY <1>1, <1>3, Zenon DEF Entries
  <2> QED
    BY <2>1
<1>14. \A c, v : Entry(c, v).at = c /\ Entry(c, v).value = v
  BY DEF Entry
<1>15. CASE x < end /\ array.indices[x] = i
  <2>1. x \in begin .. end - 1
    BY <1>11, <1>15
  <2>2. x \in Slots(n) /\ CoordinateOf(format, array, x) = a
    BY <1>5, <1>8, <1>15, <2>1
  <2>3. PICK d : d = Entry(a, array.values[x])
    OBVIOUS
  <2>4. d \in matrix /\ d.at = a /\ d.value = array.values[x]
    BY <1>13, <1>14, <2>2, <2>3
  <2>5. ASSUME NEW e \in matrix, e.at = a
        PROVE  e = d
    <3>1. PICK p \in Slots(n) : e = Entry(CoordinateOf(format, array, p), array.values[p])
      BY <1>13
    <3>2. CoordinateOf(format, array, p) = a
      BY <1>14, <2>5, <3>1
    <3>3. p = x
      BY <1>1, <1>2, <2>2, <3>2, SoundCounts
    <3> QED
      BY <2>3, <3>1, <3>2, <3>3
  <2>6. (CHOOSE e \in matrix : e.at = a) = d
    BY <2>4, <2>5, Zenon
  <2> QED
    BY <1>12, <1>15, <2>4, <2>6
<1>16. CASE ~(x < end /\ array.indices[x] = i)
  <2>1. ASSUME NEW e \in matrix, e.at = a
        PROVE  FALSE
    <3>1. PICK p \in Slots(n) : e = Entry(CoordinateOf(format, array, p), array.values[p])
      BY <1>13
    <3>2. CoordinateOf(format, array, p) = a
      BY <1>14, <2>1, <3>1
    <3>3. RowOf(array, p) = o /\ array.indices[p] = i
      BY <1>1, <1>2, <1>5, <3>2, RowIndices
    <3>4. p \in begin .. end - 1
      <4>1. array.offsets[RowOf(array, p)] <= p /\ p < array.offsets[RowOf(array, p) + 1]
        BY <1>2, <1>3, <1>4, RowFacts
      <4> QED
        BY <1>7, <3>3, <4>1 DEF Slots
    <3>5. ~(p < x)
      <4>1. ASSUME p < x PROVE FALSE
        <5>1. p \in begin .. x - 1
          BY <1>11, <3>4, <4>1
        <5>2. array.indices[p] < i
          BY <1>11, <5>1
        <5> QED
          BY <1>6, <3>3, <5>2
      <4> QED
        BY <4>1
    <3>6. x \in begin .. end - 1 /\ ~(array.indices[x] < i)
      BY <1>11, <3>4, <3>5
    <3>7. ~(x < p)
      BY <1>9, <3>3, <3>4, <3>6
    <3>8. x = p
      BY <3>4, <3>5, <3>6, <3>7
    <3> QED
      BY <1>16, <3>3, <3>6, <3>8
  <2> QED
    BY <1>12, <1>16, <2>1
<1> QED
  BY <1>15, <1>16

-----------------------------------------------------------------------------
(* The theorems. *)

(* The inductive invariant: the source of a conversion stays canonical, the *)
(* traversal visits its entries in order, and the rows of the target hold   *)
(* exactly the entries seen.                                                *)
THEOREM Invariance == Spec => []IInv
<1>1. Init => IInv
  BY InitIInv
<1>2. IInv /\ [Next]_vars => IInv'
  BY NextIInv
<1> QED
  BY <1>1, <1>2, PTL DEF Spec

(* Creation, Evaluate, FromCoordinate, FromCompressed and                   *)
(* ConvertToCoordinate keep every entry of the matrix at its one place.     *)
THEOREM StoresItsMatrix == Spec => []OwnerStoresItsMatrix
<1> QED
  BY OwnedStores, Invariance, PTL

(* ValidateCanonicalStructure refuses no arrays that store a matrix.        *)
THEOREM RefusesOnlyWhatStoresNothing == Spec => []RefusedArraysStoreNothing
<1> QED
  BY RefusedStores, Invariance, PTL

(* Every Add of ConvertToCoordinate is within the shape and the capacity of *)
(* the builder, and the entries it finalizes are distinct.                  *)
THEOREM BuilderIsFilled == Spec => []BuilderTakesEveryEntry
<1> QED
  BY CollectedFits, Invariance, PTL

(* CompressedSparseView::Lookup answers every coordinate of the shape.      *)
THEOREM LookupReadsEveryEntry == Spec => []LookupReadsTheMatrix
<1> QED
  BY LookupReads, Invariance, PTL

=============================================================================

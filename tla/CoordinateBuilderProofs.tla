----------------------- MODULE CoordinateBuilderProofs -----------------------
(***************************************************************************)
(* Proofs about CoordinateBuilder, for every shape, capacity and range of   *)
(* elements: the array that Finalize returns is the sum of what was added.  *)
(*                                                                          *)
(* Three facts carry the argument. A round of the insertion sort moves an  *)
(* entry in front of entries at other coordinates only, so every coordinate*)
(* keeps the order of its values and with it the sums the preflight saw.   *)
(* The compaction reads the sorted entries group by group and never writes *)
(* past what it has read. In a strictly sorted array halving the range     *)
(* keeps the first entry that does not precede the one looked up.           *)
(***************************************************************************)
EXTENDS CoordinateBuilder, SequenceTheorems, WellFoundedInduction, TLAPS

-----------------------------------------------------------------------------
(* Naturals.  The library proves that they are well-founded; that gives     *)
(* the least element of a set of them and induction over a set.             *)

(* A set of naturals has a least element. *)
LEMMA LeastNat ==
  ASSUME NEW S, S \subseteq Nat, S # {}
  PROVE  \E x \in S : \A y \in S : x <= y
<1> DEFINE Less == {ss \in Nat \X Nat : ss[1] < ss[2]}
<1>1. IsWellFoundedOn(Less, Nat)
  BY NatLessThanWellFounded, Zenon DEF OpToRel
<1>2. \E x \in S : \A y \in S : ~(<<y, x>> \in Less)
  <2> HIDE DEF Less
  <2> QED
    BY <1>1, WFMin, Zenon
<1>3. PICK x \in S : \A y \in S : ~(<<y, x>> \in Less)
  BY <1>2
<1>4. ASSUME NEW y \in S
      PROVE  x <= y
  <2>1. <<y, x>> \notin Less /\ y \in Nat /\ x \in Nat
    BY <1>3
  <2>2. ~(y < x)
    BY <2>1
  <2> QED
    BY <2>1, <2>2
<1> QED
  BY <1>4

(* A set that zero is in and that adding one stays in has all naturals. *)
LEMMA NatInd ==
  ASSUME NEW S, 0 \in S, \A n \in Nat : n \in S => n + 1 \in S
  PROVE  Nat \subseteq S
<1> SUFFICES ASSUME NEW m \in Nat, m \notin S
             PROVE  FALSE
  OBVIOUS
<1> DEFINE T == {n \in Nat : n \notin S}
<1>1. PICK x \in T : \A y \in T : x <= y
  <2>1. T \subseteq Nat /\ T # {}
    OBVIOUS
  <2> HIDE DEF T
  <2> QED
    BY <2>1, LeastNat
<1>2. x # 0 /\ x \in Nat
  OBVIOUS
<1>3. x - 1 \in Nat /\ x - 1 \notin T
  BY <1>1, <1>2
<1>4. x - 1 \in S
  BY <1>3
<1>5. (x - 1) + 1 = x
  BY <1>2
<1>6. x \in S
  BY <1>3, <1>4, <1>5
<1> QED
  BY <1>6

(* Min0 is the least element of a set of naturals. *)
LEMMA Min0Facts ==
  ASSUME NEW S, S \subseteq Nat, S # {}
  PROVE  Min0(S) \in S /\ \A y \in S : Min0(S) <= y
BY LeastNat DEF Min0

-----------------------------------------------------------------------------
(* The order of coordinates.                                                *)

(* Indices are integers. *)
LEMMA CoordinateFacts ==
  ASSUME NEW a \in Coordinates, NEW d \in DOMAIN Shape
  PROVE  a[d] \in Int
BY ShapeAssumption DEF Coordinates

(* Dimensions are numbered from 1. *)
LEMMA DimensionFacts ==
  DOMAIN Shape = 1 .. Len(Shape) /\ Len(Shape) \in Nat /\ DOMAIN Shape \subseteq Nat
BY ShapeAssumption, LenProperties

(* CompareCoordinates is a strict total order: no coordinate precedes itself, *)
LEMMA PrecedesIrreflexive ==
  ASSUME NEW a \in Coordinates
  PROVE  ~Precedes(a, a)
BY CoordinateFacts DEF Precedes

(* what precedes a predecessor precedes, *)
LEMMA PrecedesTransitive ==
  ASSUME NEW a \in Coordinates, NEW b \in Coordinates, NEW c \in Coordinates,
         Precedes(a, b), Precedes(b, c)
  PROVE  Precedes(a, c)
<1>1. PICK d \in DOMAIN Shape : a[d] < b[d] /\ \A e \in 1 .. d - 1 : a[e] = b[e]
  BY DEF Precedes
<1>2. PICK f \in DOMAIN Shape : b[f] < c[f] /\ \A e \in 1 .. f - 1 : b[e] = c[e]
  BY DEF Precedes
<1>3. d \in Nat /\ f \in Nat /\ d > 0 /\ f > 0
  BY DimensionFacts
<1>4. /\ a[d] \in Int /\ b[d] \in Int /\ c[d] \in Int
      /\ a[f] \in Int /\ b[f] \in Int /\ c[f] \in Int
  BY CoordinateFacts
<1>5. CASE d = f
  <2>1. a[d] < c[d] /\ \A e \in 1 .. d - 1 : a[e] = c[e]
    BY <1>1, <1>2, <1>4, <1>5
  <2> QED
    BY <2>1 DEF Precedes
<1>6. CASE d < f
  <2>1. a[d] < c[d] /\ \A e \in 1 .. d - 1 : a[e] = c[e]
    BY <1>1, <1>2, <1>3, <1>6
  <2> QED
    BY <2>1 DEF Precedes
<1>7. CASE f < d
  <2>1. a[f] < c[f] /\ \A e \in 1 .. f - 1 : a[e] = c[e]
    BY <1>1, <1>2, <1>3, <1>7
  <2> QED
    BY <2>1 DEF Precedes
<1> QED
  BY <1>3, <1>5, <1>6, <1>7

(* and of two coordinates one precedes the other. *)
LEMMA PrecedesTotal ==
  ASSUME NEW a \in Coordinates, NEW b \in Coordinates, a # b
  PROVE  Precedes(a, b) \/ Precedes(b, a)
<1> DEFINE D == {d \in DOMAIN Shape : a[d] # b[d]}
<1>1. D \subseteq Nat /\ D # {}
  BY DimensionFacts DEF Coordinates
<1>2. PICK d \in D : \A e \in D : d <= e
  <2> HIDE DEF D
  <2> QED
    BY <1>1, LeastNat
<1>3. d \in DOMAIN Shape /\ a[d] # b[d] /\ a[d] \in Int /\ b[d] \in Int
  BY CoordinateFacts
<1>4. \A e \in 1 .. d - 1 : a[e] = b[e]
  BY <1>2, <1>3, DimensionFacts
<1>5. a[d] < b[d] \/ b[d] < a[d]
  BY <1>3
<1> QED
  BY <1>3, <1>4, <1>5 DEF Precedes

(* What follows a coordinate that does not precede a does not precede a. *)
LEMMA PrecedesWeak ==
  ASSUME NEW a \in Coordinates, NEW b \in Coordinates, NEW c \in Coordinates,
         Precedes(a, b), ~Precedes(c, b)
  PROVE  Precedes(a, c)
BY PrecedesTransitive, PrecedesTotal

(* Not to precede is transitive too. *)
LEMMA NotPrecedesTransitive ==
  ASSUME NEW a \in Coordinates, NEW b \in Coordinates, NEW c \in Coordinates,
         ~Precedes(b, a), ~Precedes(c, b)
  PROVE  ~Precedes(c, a)
BY PrecedesTransitive, PrecedesTotal

-----------------------------------------------------------------------------
(* Running sums.                                                            *)

(* There is a function that sums c from lo to hi. *)
LEMMA RunningSumExists ==
  ASSUME NEW lo \in Int, NEW hi \in Int, lo <= hi,
         NEW c \in [lo + 1 .. hi -> Int]
  PROVE  \E g \in [lo .. hi -> Int] :
           g[lo] = 0 /\ \A n \in lo + 1 .. hi : g[n] = g[n - 1] + c[n]
<1> DEFINE S == {k \in Nat : lo + k <= hi =>
                   \E g \in [lo .. lo + k -> Int] :
                     g[lo] = 0 /\ \A n \in lo + 1 .. lo + k : g[n] = g[n - 1] + c[n]}
<1>1. 0 \in S
  <2> DEFINE g == [n \in lo .. lo + 0 |-> 0]
  <2>1. g \in [lo .. lo + 0 -> Int] /\ g[lo] = 0
    OBVIOUS
  <2>2. \A n \in lo + 1 .. lo + 0 : g[n] = g[n - 1] + c[n]
    OBVIOUS
  <2> QED
    BY <2>1, <2>2
<1>2. ASSUME NEW k \in Nat, k \in S, lo + (k + 1) <= hi
      PROVE  \E g \in [lo .. lo + (k + 1) -> Int] :
               g[lo] = 0 /\ \A n \in lo + 1 .. lo + (k + 1) : g[n] = g[n - 1] + c[n]
  <2>1. lo + k <= hi
    BY <1>2
  <2>2. PICK g \in [lo .. lo + k -> Int] :
          g[lo] = 0 /\ \A n \in lo + 1 .. lo + k : g[n] = g[n - 1] + c[n]
    BY <1>2, <2>1
  <2> DEFINE h == [n \in lo .. lo + (k + 1) |->
                     IF n = lo + (k + 1) THEN g[lo + k] + c[n] ELSE g[n]]
  <2>3. lo + (k + 1) \in lo + 1 .. hi /\ lo + k \in lo .. lo + k
    BY <1>2
  <2>4. h \in [lo .. lo + (k + 1) -> Int]
    <3>1. c[lo + (k + 1)] \in Int /\ g[lo + k] \in Int
      BY <2>3
    <3>2. \A n \in lo .. lo + (k + 1) : n # lo + (k + 1) => n \in lo .. lo + k
      OBVIOUS
    <3> QED
      BY <3>1, <3>2
  <2>5. h[lo] = 0
    BY <2>2
  <2>6. ASSUME NEW n \in lo + 1 .. lo + (k + 1)
        PROVE  h[n] = h[n - 1] + c[n]
    <3>1. n - 1 \in lo .. lo + k /\ n - 1 # lo + (k + 1) /\ n \in lo .. lo + (k + 1)
          /\ n - 1 \in lo .. lo + (k + 1)
      OBVIOUS
    <3>2. h[n - 1] = g[n - 1]
      BY <3>1
    <3>3. CASE n = lo + (k + 1)
      <4>1. n - 1 = lo + k
        BY <3>3
      <4> QED
        BY <3>1, <3>2, <3>3, <4>1
    <3>4. CASE n # lo + (k + 1)
      <4>1. n \in lo + 1 .. lo + k
        BY <3>4
      <4> QED
        BY <2>2, <3>1, <3>2, <3>4, <4>1
    <3> QED
      BY <3>3, <3>4
  <2> HIDE DEF h
  <2> QED
    BY <2>4, <2>5, <2>6
<1>3. ASSUME NEW k \in Nat, k \in S
      PROVE  k + 1 \in S
  <2>1. k + 1 \in Nat
    OBVIOUS
  <2>2. lo + (k + 1) <= hi =>
          \E g \in [lo .. lo + (k + 1) -> Int] :
            g[lo] = 0 /\ \A n \in lo + 1 .. lo + (k + 1) : g[n] = g[n - 1] + c[n]
    BY <1>2, <1>3
  <2> QED
    BY <2>1, <2>2
<1>4. Nat \subseteq S
  <2> HIDE DEF S
  <2> QED
    BY <1>1, <1>3, NatInd
<1>5. hi - lo \in Nat /\ lo + (hi - lo) = hi
  OBVIOUS
<1>6. PICK k \in Nat : k = hi - lo /\ lo + k = hi
  BY <1>5
<1>7. k \in S
  BY <1>4
<1>8. \E g \in [lo .. lo + k -> Int] :
        g[lo] = 0 /\ \A n \in lo + 1 .. lo + k : g[n] = g[n - 1] + c[n]
  BY <1>6, <1>7
<1> QED
  BY <1>6, <1>8

Contribution(s, a, n) == IF s[n].at = a THEN s[n].value ELSE 0

IsSums(g, s, a, first) ==
  g = [n \in first - 1 .. Len(s) |->
         IF n < first THEN 0
         ELSE g[n - 1] + (IF s[n].at = a THEN s[n].value ELSE 0)]

EntrySeq == Seq(Entries)

(* The entries of a sequence of them. *)
LEMMA EntryFacts ==
  ASSUME NEW s \in EntrySeq
  PROVE  /\ Len(s) \in Nat /\ DOMAIN s = 1 .. Len(s)
         /\ \A n \in 1 .. Len(s) : /\ s[n] \in Entries /\ s[n].at \in Coordinates
                                   /\ s[n].value \in Int /\ s[n].value \in Values
<1>1. Len(s) \in Nat /\ DOMAIN s = 1 .. Len(s)
  BY LenProperties DEF EntrySeq
<1>2. ASSUME NEW n \in 1 .. Len(s)
      PROVE  s[n] \in Entries
  BY <1>1, ElementOfSeq DEF EntrySeq
<1>3. Values \subseteq Int
  BY BuilderAssumption DEF Values
<1> QED
  BY <1>1, <1>2, <1>3 DEF Entries

(* The recursive definition of the sums has a solution, so they are what    *)
(* it says: they begin with zero and each adds what its entry contributes.  *)
LEMMA SumsFacts ==
  ASSUME NEW s \in EntrySeq, NEW a, NEW first \in 1 .. Len(s) + 1
  PROVE  /\ RunningSums(s, a, first) \in [first - 1 .. Len(s) -> Int]
         /\ RunningSums(s, a, first)[first - 1] = 0
         /\ \A n \in first .. Len(s) :
              RunningSums(s, a, first)[n] =
                RunningSums(s, a, first)[n - 1] + Contribution(s, a, n)
<1>1. Len(s) \in Nat /\ first \in Nat /\ first >= 1
  BY EntryFacts
<1> DEFINE c == [n \in first .. Len(s) |-> Contribution(s, a, n)]
<1>2. \A n \in first .. Len(s) : Contribution(s, a, n) \in Int
  BY <1>1, EntryFacts DEF Contribution
<1>3. c \in [first .. Len(s) -> Int]
  BY <1>1, <1>2
<1>4. \A n \in first .. Len(s) : c[n] = Contribution(s, a, n)
  OBVIOUS
<1> HIDE DEF c
<1>5. PICK g \in [first - 1 .. Len(s) -> Int] :
        g[first - 1] = 0 /\ \A n \in (first - 1) + 1 .. Len(s) : g[n] = g[n - 1] + c[n]
  <2>1. PICK lo \in Int, hi \in Int : lo = first - 1 /\ hi = Len(s) /\ lo <= hi
    BY <1>1
  <2>2. c \in [lo + 1 .. hi -> Int]
    <3>1. lo + 1 = first
      BY <1>1, <2>1
    <3> QED
      BY <1>3, <2>1, <3>1
  <2>3. \E g \in [lo .. hi -> Int] : g[lo] = 0 /\ \A n \in lo + 1 .. hi : g[n] = g[n - 1] + c[n]
    <3>1. PICK d \in [lo + 1 .. hi -> Int] : d = c
      BY <2>2
    <3>2. lo <= hi
      BY <2>1
    <3>3. \E g \in [lo .. hi -> Int] : g[lo] = 0 /\ \A n \in lo + 1 .. hi : g[n] = g[n - 1] + d[n]
      BY <3>2, RunningSumExists
    <3> QED
      BY <3>1, <3>3
  <2> QED
    BY <2>1, <2>3
<1>6. IsSums(g, s, a, first)
  <2>1. ASSUME NEW n \in first - 1 .. Len(s)
        PROVE  g[n] = IF n < first THEN 0 ELSE g[n - 1] + Contribution(s, a, n)
    <3>1. CASE n < first
      <4>1. n = first - 1
        BY <1>1, <3>1
      <4> QED
        BY <1>5, <3>1, <4>1
    <3>2. CASE ~(n < first)
      <4>1. n \in first .. Len(s) /\ n \in (first - 1) + 1 .. Len(s)
        BY <1>1, <3>2
      <4> QED
        BY <1>4, <1>5, <3>2, <4>1
    <3> QED
      BY <3>1, <3>2
  <2> QED
    BY <2>1 DEF IsSums, Contribution
<1>7. PICK f : f = RunningSums(s, a, first) /\ IsSums(f, s, a, first)
  <2>1. RunningSums(s, a, first) = CHOOSE f : IsSums(f, s, a, first)
    BY DEF RunningSums, IsSums
  <2> QED
    BY <1>6, <2>1
<1>8. /\ f[first - 1] = 0
      /\ \A n \in first .. Len(s) : f[n] = f[n - 1] + Contribution(s, a, n)
      /\ DOMAIN f = first - 1 .. Len(s)
      /\ f = [n \in first - 1 .. Len(s) |-> f[n]]
  <2>1. f = [n \in first - 1 .. Len(s) |->
               IF n < first THEN 0 ELSE f[n - 1] + Contribution(s, a, n)]
    BY <1>7 DEF IsSums, Contribution
  <2>2. DOMAIN f = first - 1 .. Len(s) /\ f = [n \in first - 1 .. Len(s) |-> f[n]]
    BY <2>1
  <2>3. \A n \in first - 1 .. Len(s) :
          f[n] = IF n < first THEN 0 ELSE f[n - 1] + Contribution(s, a, n)
    BY <2>1
  <2>4. first - 1 \in first - 1 .. Len(s) /\ first - 1 < first
    BY <1>1
  <2>5. \A n \in first .. Len(s) : n \in first - 1 .. Len(s) /\ ~(n < first)
    BY <1>1
  <2> QED
    BY <2>2, <2>3, <2>4, <2>5
<1>81. \A n \in first .. Len(s) : f[n] = f[n - 1] + Contribution(s, a, n)
  BY <1>8
<1>9. \A n \in first - 1 .. Len(s) : f[n] \in Int
  <2> DEFINE S == {k \in Nat : first - 1 + k <= Len(s) => f[first - 1 + k] \in Int}
  <2>1. 0 \in S
    BY <1>1, <1>8
  <2>2. ASSUME NEW k \in Nat, k \in S, first - 1 + (k + 1) <= Len(s)
        PROVE  f[first - 1 + (k + 1)] \in Int
    <3>1. PICK n \in first .. Len(s) :
            n = first - 1 + (k + 1) /\ n - 1 = first - 1 + k /\ first - 1 + k <= Len(s)
      BY <1>1, <2>2
    <3>2. f[n - 1] \in Int /\ Contribution(s, a, n) \in Int
      BY <1>2, <2>2, <3>1
    <3>3. f[n] \in Int
      BY <1>81, <3>2
    <3> QED
      BY <3>1, <3>3
  <2>3. \A k \in Nat : k \in S => k + 1 \in S
    BY <2>2
  <2>4. Nat \subseteq S
    <3> HIDE DEF S
    <3> QED
      BY <2>1, <2>3, NatInd
  <2>5. ASSUME NEW n \in first - 1 .. Len(s)
        PROVE  f[n] \in Int
    <3>1. n - (first - 1) \in Nat /\ first - 1 + (n - (first - 1)) = n /\ n <= Len(s)
      BY <1>1
    <3>2. n - (first - 1) \in S
      BY <2>4, <3>1
    <3> QED
      BY <3>1, <3>2
  <2> QED
    BY <2>5
<1>10. f \in [first - 1 .. Len(s) -> Int]
  BY <1>8, <1>9
<1> QED
  BY <1>7, <1>8, <1>10

(* Nothing else runs like them. *)
LEMMA SumsAre ==
  ASSUME NEW s \in EntrySeq, NEW a, NEW first \in 1 .. Len(s) + 1,
         NEW g, g[first - 1] = 0,
         \A n \in first .. Len(s) : g[n] = g[n - 1] + Contribution(s, a, n)
  PROVE  \A n \in first - 1 .. Len(s) : RunningSums(s, a, first)[n] = g[n]
<1>1. Len(s) \in Nat /\ first \in Nat /\ first >= 1
  BY EntryFacts
<1>2. PICK f : f = RunningSums(s, a, first)
  OBVIOUS
<1>3. /\ f[first - 1] = 0
      /\ \A n \in first .. Len(s) : f[n] = f[n - 1] + Contribution(s, a, n)
  BY <1>2, SumsFacts
<1> DEFINE S == {k \in Nat : first - 1 + k <= Len(s) => f[first - 1 + k] = g[first - 1 + k]}
<1>4. 0 \in S
  BY <1>1, <1>3
<1>5. ASSUME NEW k \in Nat, k \in S, first - 1 + (k + 1) <= Len(s)
      PROVE  f[first - 1 + (k + 1)] = g[first - 1 + (k + 1)]
  <2>1. first - 1 + (k + 1) \in first .. Len(s)
        /\ (first - 1 + (k + 1)) - 1 = first - 1 + k /\ first - 1 + k <= Len(s)
    BY <1>1, <1>5
  <2> QED
    BY <1>3, <1>5, <2>1
<1>6. \A k \in Nat : k \in S => k + 1 \in S
  BY <1>5
<1>7. Nat \subseteq S
  <2> HIDE DEF S
  <2> QED
    BY <1>4, <1>6, NatInd
<1>8. ASSUME NEW n \in first - 1 .. Len(s)
      PROVE  f[n] = g[n]
  <2>1. n - (first - 1) \in Nat /\ first - 1 + (n - (first - 1)) = n /\ n <= Len(s)
    BY <1>1
  <2>2. n - (first - 1) \in S
    BY <1>7, <2>1
  <2> QED
    BY <2>1, <2>2
<1> QED
  BY <1>2, <1>8

(* Where no entry is at a, the sum stays. *)
LEMMA SumsStay ==
  ASSUME NEW s \in EntrySeq, NEW a, NEW first \in 1 .. Len(s) + 1,
         NEW m \in first - 1 .. Len(s), NEW n \in first - 1 .. Len(s), m <= n,
         \A k \in m + 1 .. n : s[k].at # a
  PROVE  RunningSums(s, a, first)[n] = RunningSums(s, a, first)[m]
<1>1. Len(s) \in Nat /\ first \in Nat /\ first >= 1
  BY EntryFacts
<1>2. PICK f : f = RunningSums(s, a, first)
  OBVIOUS
<1>3. /\ f \in [first - 1 .. Len(s) -> Int]
      /\ \A k \in first .. Len(s) : f[k] = f[k - 1] + Contribution(s, a, k)
  BY <1>2, SumsFacts
<1> DEFINE S == {k \in Nat : m + k <= n => f[m + k] = f[m]}
<1>4. 0 \in S
  BY <1>1
<1>5. ASSUME NEW k \in Nat, k \in S, m + (k + 1) <= n
      PROVE  f[m + (k + 1)] = f[m]
  <2>1. m + (k + 1) \in first .. Len(s) /\ m + (k + 1) \in m + 1 .. n
        /\ (m + (k + 1)) - 1 = m + k /\ m + k <= n /\ m + k \in first - 1 .. Len(s)
    BY <1>1, <1>5
  <2>2. Contribution(s, a, m + (k + 1)) = 0
    BY <2>1 DEF Contribution
  <2>3. f[m + k] = f[m] /\ f[m + k] \in Int
    BY <1>3, <1>5, <2>1
  <2> QED
    BY <1>3, <2>1, <2>2, <2>3
<1>6. \A k \in Nat : k \in S => k + 1 \in S
  BY <1>5
<1>7. Nat \subseteq S
  <2> HIDE DEF S
  <2> QED
    BY <1>4, <1>6, NatInd
<1>8. n - m \in Nat /\ m + (n - m) = n
  BY <1>1
<1>9. n - m \in S
  BY <1>7, <1>8
<1> QED
  BY <1>2, <1>8, <1>9

-----------------------------------------------------------------------------
(* One round of the sort.                                                   *)

Inserted(s, i, p) ==
  [k \in DOMAIN s |-> IF k = i THEN s[p] ELSE IF i < k /\ k <= p THEN s[k - 1] ELSE s[k]]

(* What one round of the sort leaves where. *)
LEMMA InsertedFacts ==
  ASSUME NEW s \in EntrySeq, NEW p \in 1 .. Len(s), NEW i \in 1 .. p
  PROVE  /\ Inserted(s, i, p) \in EntrySeq /\ Len(Inserted(s, i, p)) = Len(s)
         /\ Inserted(s, i, p)[i] = s[p]
         /\ \A k \in 1 .. Len(s) : k < i \/ k > p => Inserted(s, i, p)[k] = s[k]
         /\ \A k \in 1 .. Len(s) : i < k /\ k <= p => Inserted(s, i, p)[k] = s[k - 1]
<1>1. Len(s) \in Nat /\ DOMAIN s = 1 .. Len(s) /\ \A n \in 1 .. Len(s) : s[n] \in Entries
  BY EntryFacts
<1>2. PICK t : t = Inserted(s, i, p)
  OBVIOUS
<1>3. /\ DOMAIN t = 1 .. Len(s)
      /\ \A k \in 1 .. Len(s) :
           t[k] = IF k = i THEN s[p] ELSE IF i < k /\ k <= p THEN s[k - 1] ELSE s[k]
      /\ t = [k \in 1 .. Len(s) |-> t[k]]
  BY <1>1, <1>2 DEF Inserted
<1>4. \A k \in 1 .. Len(s) : t[k] \in Entries
  BY <1>1, <1>3
<1>5. t \in [1 .. Len(s) -> Entries]
  BY <1>3, <1>4
<1>6. t \in EntrySeq /\ Len(t) = Len(s)
  BY <1>1, <1>5, SeqDef, LenProperties DEF EntrySeq
<1>7. i \in 1 .. Len(s)
  BY <1>1
<1> QED
  BY <1>1, <1>2, <1>3, <1>6, <1>7

(* An entry that moves in front of entries at other coordinates changes no *)
(* coordinate's order of values: its running sums are those of before.     *)
LEMMA InsertedSums ==
  ASSUME NEW s \in EntrySeq, NEW p \in 1 .. Len(s), NEW i \in 1 .. p,
         \A j \in i .. p - 1 : s[j].at # s[p].at, NEW a
  PROVE  /\ RunningSums(Inserted(s, i, p), a, 1)[Len(s)] = RunningSums(s, a, 1)[Len(s)]
         /\ \A n \in 0 .. Len(s) : \E m \in 0 .. Len(s) :
              RunningSums(Inserted(s, i, p), a, 1)[n] = RunningSums(s, a, 1)[m]
<1>1. Len(s) \in Nat /\ p \in Nat /\ i \in Nat /\ p >= 1 /\ i >= 1 /\ i <= p /\ p <= Len(s)
      /\ 1 \in 1 .. Len(s) + 1
  BY EntryFacts
<1>2. PICK t \in EntrySeq :
        /\ t = Inserted(s, i, p) /\ Len(t) = Len(s) /\ t[i] = s[p]
        /\ \A k \in 1 .. Len(s) : k < i \/ k > p => t[k] = s[k]
        /\ \A k \in 1 .. Len(s) : i < k /\ k <= p => t[k] = s[k - 1]
  BY InsertedFacts
<1>3. PICK f \in [0 .. Len(s) -> Int] :
        /\ f = RunningSums(s, a, 1) /\ f[0] = 0
        /\ \A n \in 1 .. Len(s) : f[n] = f[n - 1] + Contribution(s, a, n)
  BY <1>1, SumsFacts
<1>4. PICK cp \in Int : cp = Contribution(s, a, p)
  BY EntryFacts DEF Contribution
<1> DEFINE g == [n \in 0 .. Len(s) |-> IF i <= n /\ n < p THEN f[n - 1] + cp ELSE f[n]]
<1>5. \A n \in 0 .. Len(s) : g[n] = IF i <= n /\ n < p THEN f[n - 1] + cp ELSE f[n]
  OBVIOUS
<1> HIDE DEF g
<1>6. g[0] = 0
  BY <1>1, <1>3, <1>5
<1>7. ASSUME NEW n \in 1 .. Len(s)
      PROVE  g[n] = g[n - 1] + Contribution(t, a, n)
  <2>1. /\ n - 1 \in 0 .. Len(s) /\ n \in 0 .. Len(s) /\ f[n] \in Int /\ f[n - 1] \in Int
        /\ f[n] = f[n - 1] + Contribution(s, a, n)
        /\ g[n] = IF i <= n /\ n < p THEN f[n - 1] + cp ELSE f[n]
        /\ g[n - 1] = IF i <= n - 1 /\ n - 1 < p THEN f[n - 1 - 1] + cp ELSE f[n - 1]
    <3>1. n - 1 \in 0 .. Len(s) /\ n \in 0 .. Len(s)
      BY <1>1
    <3>2. /\ f[n] \in Int /\ f[n - 1] \in Int
          /\ f[n] = f[n - 1] + Contribution(s, a, n)
      BY <1>3, <3>1
    <3>3. PICK m \in 0 .. Len(s) : m = n - 1
      BY <3>1
    <3>4. g[m] = IF i <= m /\ m < p THEN f[m - 1] + cp ELSE f[m]
      BY <1>5
    <3> QED
      BY <1>5, <3>1, <3>2, <3>3, <3>4
  <2>2. CASE n < i
    <3>1. Contribution(t, a, n) = Contribution(s, a, n)
      BY <1>2, <2>2 DEF Contribution
    <3> QED
      BY <1>1, <2>1, <2>2, <3>1
  <2>3. CASE n > p
    <3>1. Contribution(t, a, n) = Contribution(s, a, n)
      BY <1>2, <2>3 DEF Contribution
    <3> QED
      BY <1>1, <2>1, <2>3, <3>1
  <2>4. CASE n = i
    <3>1. Contribution(t, a, n) = cp
      BY <1>2, <1>4, <2>4 DEF Contribution
    <3>2. CASE n = p
      BY <1>1, <1>4, <2>1, <2>4, <3>1, <3>2
    <3>3. CASE n < p
      BY <1>1, <2>1, <2>4, <3>1, <3>3
    <3> QED
      BY <1>1, <2>4, <3>2, <3>3
  <2>5. CASE i < n /\ n <= p
    <3>1. n - 1 \in 1 .. Len(s) /\ n - 1 - 1 \in 0 .. Len(s)
      BY <1>1, <2>5
    <3>2. Contribution(t, a, n) = Contribution(s, a, n - 1)
      BY <1>2, <2>5 DEF Contribution
    <3>3. f[n - 1] = f[n - 1 - 1] + Contribution(t, a, n) /\ f[n - 1 - 1] \in Int
      BY <1>3, <3>1, <3>2
    <3>4. Contribution(t, a, n) \in Int
      BY <1>2, EntryFacts DEF Contribution
    <3>5. CASE n = p
      BY <1>1, <1>4, <2>1, <2>5, <3>3, <3>4, <3>5
    <3>6. CASE n < p
      BY <1>1, <2>1, <2>5, <3>3, <3>4, <3>6
    <3> QED
      BY <1>1, <2>5, <3>5, <3>6
  <2> QED
    BY <1>1, <2>2, <2>3, <2>4, <2>5
<1>8. \A n \in 0 .. Len(s) : RunningSums(t, a, 1)[n] = g[n]
  <2>1. g[1 - 1] = 0 /\ 1 \in 1 .. Len(t) + 1
    BY <1>1, <1>2, <1>6
  <2>2. \A n \in 1 .. Len(t) : g[n] = g[n - 1] + Contribution(t, a, n)
    BY <1>2, <1>7
  <2>3. \A n \in 1 - 1 .. Len(t) : RunningSums(t, a, 1)[n] = g[n]
    BY <2>1, <2>2, SumsAre
  <2> QED
    BY <1>2, <2>3
<1>9. g[Len(s)] = f[Len(s)]
  BY <1>1, <1>5
<1>10. ASSUME NEW n \in 0 .. Len(s)
       PROVE  \E m \in 0 .. Len(s) : g[n] = f[m]
  <2>1. CASE ~(i <= n /\ n < p)
    BY <1>5, <2>1
  <2>2. CASE i <= n /\ n < p /\ cp = 0
    <3>1. n - 1 \in 0 .. Len(s) /\ g[n] = f[n - 1] + cp /\ f[n - 1] \in Int
      BY <1>1, <1>5, <2>2
    <3> QED
      BY <2>2, <3>1
  <2>3. CASE i <= n /\ n < p /\ cp # 0
    <3>1. s[p].at = a
      BY <1>4, <2>3 DEF Contribution
    <3>2. /\ n - 1 \in 0 .. Len(s) /\ p - 1 \in 0 .. Len(s) /\ p \in 0 .. Len(s)
          /\ n - 1 <= p - 1 /\ g[n] = f[n - 1] + cp
      BY <1>1, <1>5, <2>3
    <3>3. \A k \in (n - 1) + 1 .. p - 1 : s[k].at # a
      BY <1>1, <2>3, <3>1
    <3>4. f[p - 1] = f[n - 1]
      <4>1. PICK lo \in 1 - 1 .. Len(s), hi \in 1 - 1 .. Len(s) :
              lo = n - 1 /\ hi = p - 1 /\ lo <= hi
        BY <3>2
      <4>2. \A k \in lo + 1 .. hi : s[k].at # a
        BY <3>3, <4>1
      <4>3. RunningSums(s, a, 1)[hi] = RunningSums(s, a, 1)[lo]
        BY <1>1, <4>1, <4>2, SumsStay
      <4> QED
        BY <1>3, <4>1, <4>3
    <3>5. f[p] = f[p - 1] + cp
      BY <1>1, <1>3, <1>4
    <3> QED
      BY <3>2, <3>4, <3>5
  <2> QED
    BY <2>1, <2>2, <2>3
<1>11. ASSUME NEW n \in 0 .. Len(s)
       PROVE  \E m \in 0 .. Len(s) : RunningSums(t, a, 1)[n] = f[m]
  BY <1>8, <1>10
<1>12. RunningSums(t, a, 1)[Len(s)] = f[Len(s)]
  BY <1>1, <1>8, <1>9
<1> QED
  BY <1>2, <1>3, <1>11, <1>12

SortedBefore(s, p) == \A j, k \in 1 .. Len(s) : j < k /\ k < p => ~Precedes(s[k].at, s[j].at)

Distinct(s, first) == \A j, k \in first .. Len(s) : s[j].at = s[k].at => j = k

Holds(s, first, last, a) == \E i \in first .. last : s[i].at = a

(* The sorted part of the entries takes in one more. *)
LEMMA InsertedSorted ==
  ASSUME NEW s \in EntrySeq, NEW p \in 1 .. Len(s), NEW i \in 1 .. p, SortedBefore(s, p),
         \A j \in i .. p - 1 : Precedes(s[p].at, s[j].at),
         i > 1 => ~Precedes(s[p].at, s[i - 1].at)
  PROVE  SortedBefore(Inserted(s, i, p), p + 1)
<1>1. Len(s) \in Nat /\ p \in Nat /\ i \in Nat /\ p >= 1 /\ i >= 1 /\ i <= p /\ p <= Len(s)
  BY EntryFacts
<1>2. PICK t \in EntrySeq :
        /\ t = Inserted(s, i, p) /\ Len(t) = Len(s) /\ t[i] = s[p]
        /\ \A k \in 1 .. Len(s) : k < i \/ k > p => t[k] = s[k]
        /\ \A k \in 1 .. Len(s) : i < k /\ k <= p => t[k] = s[k - 1]
  BY InsertedFacts
<1>3. \A k \in 1 .. Len(s) : s[k].at \in Coordinates
  BY EntryFacts
<1>4. ASSUME NEW j \in 1 .. Len(s), NEW k \in 1 .. Len(s), j < k, k < p + 1
      PROVE  ~Precedes(t[k].at, t[j].at)
  <2>1. CASE k < i
    <3>1. t[k] = s[k] /\ t[j] = s[j]
      BY <1>2, <1>4, <2>1, <1>1
    <3> QED
      BY <1>1, <1>4, <2>1, <3>1 DEF SortedBefore
  <2>2. CASE k = i
    <3>1. t[k] = s[p] /\ t[j] = s[j]
      BY <1>2, <1>4, <2>2, <1>1
    <3>2. i - 1 \in 1 .. Len(s) /\ ~Precedes(s[p].at, s[i - 1].at)
      BY <1>1, <1>4, <2>2
    <3>3. CASE j = i - 1
      BY <3>1, <3>2, <3>3
    <3>4. CASE j < i - 1
      <4>1. ~Precedes(s[i - 1].at, s[j].at)
        BY <1>1, <3>2, <3>4 DEF SortedBefore
      <4> QED
        BY <1>1, <1>3, <3>1, <3>2, <4>1, NotPrecedesTransitive
    <3> QED
      BY <1>1, <1>4, <2>2, <3>3, <3>4
  <2>3. CASE k > i
    <3>1. t[k] = s[k - 1] /\ k - 1 \in 1 .. Len(s) /\ k - 1 \in i .. p - 1
      BY <1>1, <1>2, <1>4, <2>3
    <3>2. CASE j < i
      <4>1. t[j] = s[j] /\ j < k - 1 /\ k - 1 < p
        BY <1>1, <1>2, <1>4, <2>3, <3>2
      <4> QED
        BY <3>1, <4>1 DEF SortedBefore
    <3>3. CASE j = i
      <4>1. t[j] = s[p] /\ Precedes(s[p].at, s[k - 1].at)
        BY <1>2, <3>1, <3>3
      <4>2. ~Precedes(s[k - 1].at, s[p].at)
        BY <1>1, <1>3, <3>1, <4>1, PrecedesTransitive, PrecedesIrreflexive
      <4> QED
        BY <3>1, <4>1, <4>2
    <3>4. CASE j > i
      <4>1. t[j] = s[j - 1] /\ j - 1 \in 1 .. Len(s) /\ j - 1 < k - 1 /\ k - 1 < p
        BY <1>1, <1>2, <1>4, <3>4
      <4> QED
        BY <3>1, <4>1 DEF SortedBefore
    <3> QED
      BY <1>1, <3>2, <3>3, <3>4
  <2> QED
    BY <1>1, <2>1, <2>2, <2>3
<1> QED
  BY <1>2, <1>4 DEF SortedBefore

(* It holds the same entries, each as often. *)
LEMMA InsertedHolds ==
  ASSUME NEW s \in EntrySeq, NEW p \in 1 .. Len(s), NEW i \in 1 .. p
  PROVE  /\ \A k \in 1 .. Len(s) : \E j \in 1 .. Len(s) : Inserted(s, i, p)[k] = s[j]
         /\ \A j \in 1 .. Len(s) : \E k \in 1 .. Len(s) : Inserted(s, i, p)[k] = s[j]
         /\ Distinct(s, 1) => Distinct(Inserted(s, i, p), 1)
<1>1. Len(s) \in Nat /\ p \in Nat /\ i \in Nat /\ p >= 1 /\ i >= 1 /\ i <= p /\ p <= Len(s)
  BY EntryFacts
<1>2. PICK t \in EntrySeq :
        /\ t = Inserted(s, i, p) /\ Len(t) = Len(s) /\ t[i] = s[p]
        /\ \A k \in 1 .. Len(s) : k < i \/ k > p => t[k] = s[k]
        /\ \A k \in 1 .. Len(s) : i < k /\ k <= p => t[k] = s[k - 1]
  BY InsertedFacts
<1> DEFINE from(k) == IF k = i THEN p ELSE IF i < k /\ k <= p THEN k - 1 ELSE k
<1>3. \A k \in 1 .. Len(s) : from(k) \in 1 .. Len(s) /\ t[k] = s[from(k)]
  BY <1>1, <1>2
<1>4. \A j, k \in 1 .. Len(s) : from(j) = from(k) => j = k
  BY <1>1
<1>5. ASSUME NEW j \in 1 .. Len(s)
      PROVE  \E k \in 1 .. Len(s) : t[k] = s[j]
  <2>1. CASE j < i \/ j > p
    BY <1>2, <2>1
  <2>2. CASE j = p
    BY <1>1, <1>2, <2>2
  <2>3. CASE i <= j /\ j < p
    <3>1. j + 1 \in 1 .. Len(s) /\ i < j + 1 /\ j + 1 <= p /\ (j + 1) - 1 = j
      BY <1>1, <2>3
    <3> QED
      BY <1>2, <3>1
  <2> QED
    BY <1>1, <2>1, <2>2, <2>3
<1>6. ASSUME Distinct(s, 1), NEW j \in 1 .. Len(s), NEW k \in 1 .. Len(s), t[j].at = t[k].at
      PROVE  j = k
  <2>1. s[from(j)].at = s[from(k)].at
    BY <1>3, <1>6
  <2>2. from(j) = from(k)
    BY <1>3, <1>6, <2>1 DEF Distinct
  <2> QED
    BY <1>4, <2>2
<1> QED
  BY <1>2, <1>3, <1>5, <1>6 DEF Distinct

-----------------------------------------------------------------------------
(* The inductive invariant.                                                 *)

WasAdded(a) == Holds(added, 1, Len(added), a)

(* The preflight has seen that no running sum overflows, or no duplicate. *)
Preflight ==
  /\ policy.duplicates = "sum" =>
       \A a \in Coordinates : \A n \in 0 .. Len(added) :
         RunningSums(added, a, 1)[n] \in Values
  /\ policy.duplicates = "reject" => Distinct(added, 1)

(* The running sums of every coordinate are those of the entries as they  *)
(* were added, which is what the stability of the sort is for.            *)
SameSums ==
  \A a \in Coordinates :
    /\ \A n \in 0 .. Len(slots) : \E m \in 0 .. Len(added) :
         RunningSums(slots, a, 1)[n] = RunningSums(added, a, 1)[m]
    /\ RunningSums(slots, a, 1)[Len(slots)] = Total(a)
    /\ Holds(slots, 1, Len(slots), a) <=> WasAdded(a)

Typed ==
  /\ slots \in EntrySeq /\ added \in EntrySeq
  /\ stage \in Stages
  /\ policy.duplicates \in Duplicates
  /\ \A i \in 1 .. Len(slots) : InBounds(slots[i].at)

SortInv ==
  stage = "sorting" =>
    /\ position \in Nat /\ position >= 2
    /\ Preflight
    /\ SortedBefore(slots, position)
    /\ SameSums
    /\ policy.duplicates = "reject" => Distinct(slots, 1)

(* The entries not yet read are sorted, and at each of their coordinates   *)
(* they run through sums that were checked, to the total.                  *)
Rest ==
  /\ \A j, k \in input .. Size : j < k => ~Precedes(slots[k].at, slots[j].at)
  /\ policy.duplicates = "reject" => Distinct(slots, input)
  /\ \A a \in Coordinates : Holds(slots, input, Size, a) =>
       /\ WasAdded(a)
       /\ RunningSums(slots, a, input)[Size] = Total(a)
       /\ policy.duplicates = "sum" =>
            \A n \in input .. Size : RunningSums(slots, a, input)[n] \in Values

(* The entries written are in strict order and hold the totals, *)
Canonical(count) ==
  /\ \A i, j \in 1 .. count : i < j => Precedes(slots[i].at, slots[j].at)
  /\ \A i \in 1 .. count : /\ WasAdded(slots[i].at)
                           /\ slots[i].value = Total(slots[i].at)
                           /\ ~Unwanted(slots[i].value)

(* and no coordinate is missing but those whose total is dropped.          *)
CompactInv ==
  stage = "compacting" =>
    /\ input \in 1 .. Size + 1 /\ output \in 0 .. input - 1
    /\ Rest
    /\ Canonical(output)
    /\ \A i \in 1 .. output, j \in input .. Size : Precedes(slots[i].at, slots[j].at)
    /\ \A a \in Coordinates : WasAdded(a) =>
         \/ Holds(slots, 1, output, a) \/ Holds(slots, input, Size, a) \/ Unwanted(Total(a))

FinalInv ==
  stage = "finalized" =>
    /\ Canonical(Size)
    /\ \A a \in Coordinates : WasAdded(a) => Holds(slots, 1, Size, a) \/ Unwanted(Total(a))

IInv == Typed /\ FailureKeepsEntries /\ SortInv /\ CompactInv /\ FinalInv

(* Create establishes the invariant. *)
LEMMA InitIInv == Init => IInv
<1> SUFFICES ASSUME Init PROVE IInv
  OBVIOUS
<1>1. <<>> \in EntrySeq /\ Len(<<>>) = 0
  BY EmptySeq DEF EntrySeq
<1> QED
  BY <1>1 DEF Init, IInv, Typed, Stages, Duplicates, FailureKeepsEntries, SortInv, CompactInv,
     FinalInv

(* A call that returns early preserves it, and so do Add, *)
LEMMA ReturnsStep ==
  ASSUME IInv, NEW result, Returns(result)
  PROVE  IInv'
BY DEF Returns, IInv, Typed, FailureKeepsEntries, SortInv, CompactInv, FinalInv, SameSums,
   Preflight, Rest, Canonical, WasAdded, Total, Size, Unwanted

(* whether the entry is taken or refused; *)
LEMMA AddStep ==
  ASSUME IInv, NEW a \in Coordinates, NEW v \in Values, Add(a, v)
  PROVE  IInv'
<1>1. CASE \E result : Returns(result)
  BY <1>1, ReturnsStep
<1>2. CASE ~\E result : Returns(result)
  <2>1. /\ stage = "building" /\ InBounds(a)
        /\ slots' = Append(slots, [at |-> a, value |-> v])
        /\ added' = Append(added, [at |-> a, value |-> v])
        /\ UNCHANGED <<stage, policy>>
    BY <1>2 DEF Add
  <2>2. PICK e \in Entries : e = [at |-> a, value |-> v]
    BY DEF Entries
  <2>3. /\ slots \in Seq(Entries) /\ slots = added
        /\ \A i \in 1 .. Len(slots) : InBounds(slots[i].at)
    BY <2>1 DEF IInv, Typed, EntrySeq, FailureKeepsEntries
  <2>4. /\ slots' \in Seq(Entries) /\ Len(slots') = Len(slots) + 1 /\ Len(slots) \in Nat
        /\ \A i \in 1 .. Len(slots) : slots'[i] = slots[i]
        /\ slots'[Len(slots) + 1] = e
    <3>1. slots' = Append(slots, e)
      BY <2>1, <2>2
    <3> QED
      BY <2>3, <3>1, AppendProperties, LenProperties
  <2>5. ASSUME NEW i \in 1 .. Len(slots')
        PROVE  InBounds(slots'[i].at)
    <3>1. CASE i \in 1 .. Len(slots)
      <4>1. slots'[i] = slots[i]
        BY <2>4, <3>1
      <4> QED
        BY <2>3, <3>1, <4>1
    <3>2. CASE i = Len(slots) + 1
      <4>1. slots'[i] = e /\ e.at = a
        BY <2>2, <2>4, <3>2
      <4> QED
        BY <2>1, <4>1
    <3> QED
      BY <2>4, <3>1, <3>2
  <2>6. slots' = added' /\ policy' = policy /\ stage' = "building" /\ stage' \in Stages
    BY <2>1, <2>3 DEF Stages
  <2>7. slots' \in EntrySeq /\ added' \in EntrySeq
    BY <2>4, <2>6 DEF EntrySeq
  <2>8. Typed'
    BY <2>5, <2>6, <2>7 DEF IInv, Typed
  <2> QED
    BY <2>6, <2>8 DEF IInv, FailureKeepsEntries, SortInv, CompactInv, FinalInv
<1> QED
  BY <1>1, <1>2

(* What it means that the preflight found nothing. *)
LEMMA PreflightFacts ==
  ASSUME NEW s \in EntrySeq, NEW duplicates \in Duplicates, Conflicts(s, duplicates) = {}
  PROVE  /\ duplicates = "sum" =>
              \A a \in Coordinates : \A n \in 0 .. Len(s) : RunningSums(s, a, 1)[n] \in Values
         /\ duplicates = "reject" => Distinct(s, 1)
<1>1. Len(s) \in Nat /\ DOMAIN s = 1 .. Len(s) /\ 1 \in 1 .. Len(s) + 1 /\ 0 \in 0 .. Len(s)
  BY EntryFacts
<1>2. ASSUME NEW j \in 1 .. Len(s)
      PROVE  \E i \in 1 .. j : FirstOf(s, i) /\ s[i].at = s[j].at
  <2> DEFINE S == {i \in 1 .. j : s[i].at = s[j].at}
  <2>1. S \subseteq Nat /\ S # {}
    BY <1>1
  <2>2. PICK i \in S : \A k \in S : i <= k
    <3> HIDE DEF S
    <3> QED
      BY <2>1, LeastNat
  <2>3. FirstOf(s, i)
    BY <1>1, <2>2 DEF FirstOf
  <2> QED
    BY <2>2, <2>3
<1>3. \A i \in 1 .. Len(s) : FirstOf(s, i) =>
        ~ IF duplicates = "reject" THEN \E j \in i + 1 .. Len(s) : s[j].at = s[i].at
          ELSE Overflows(s, i, Len(s))
  BY <1>1 DEF Conflicts
<1>4. ASSUME duplicates = "sum", NEW a \in Coordinates, NEW n \in 0 .. Len(s)
      PROVE  RunningSums(s, a, 1)[n] \in Values
  <2>1. PICK f \in [0 .. Len(s) -> Int] :
          /\ f = RunningSums(s, a, 1) /\ f[0] = 0
          /\ \A k \in 1 .. Len(s) : f[k] = f[k - 1] + Contribution(s, a, k)
    BY <1>1, SumsFacts
  <2>2. 0 \in Values
    BY BuilderAssumption DEF Values
  <2>3. CASE \A k \in 1 .. n : s[k].at # a
    <3>1. RunningSums(s, a, 1)[n] = RunningSums(s, a, 1)[0]
      <4>1. PICK lo \in 1 - 1 .. Len(s), hi \in 1 - 1 .. Len(s) : lo = 0 /\ hi = n /\ lo <= hi
        BY <1>1
      <4>2. \A k \in lo + 1 .. hi : s[k].at # a
        BY <2>3, <4>1
      <4> QED
        BY <1>1, <4>1, <4>2, SumsStay
    <3> QED
      BY <2>1, <2>2, <3>1
  <2>4. CASE \E k \in 1 .. n : s[k].at = a
    <3>1. PICK j \in 1 .. n : s[j].at = a
      BY <2>4
    <3>2. PICK i \in 1 .. j : FirstOf(s, i) /\ s[i].at = a
      <4>1. j \in 1 .. Len(s)
        BY <1>1
      <4> QED
        BY <1>2, <3>1, <4>1
    <3>3. i \in 1 .. Len(s) /\ i \in 1 .. Len(s) + 1 /\ n \in i .. Len(s)
      BY <1>1
    <3>4. f[i - 1] = 0
      <4>1. PICK lo \in 1 - 1 .. Len(s), hi \in 1 - 1 .. Len(s) :
              lo = 0 /\ hi = i - 1 /\ lo <= hi
        BY <1>1
      <4>2. \A k \in lo + 1 .. hi : s[k].at # a
        BY <3>2, <4>1 DEF FirstOf
      <4>3. RunningSums(s, a, 1)[hi] = RunningSums(s, a, 1)[lo]
        BY <1>1, <4>1, <4>2, SumsStay
      <4> QED
        BY <2>1, <4>1, <4>3
    <3>5. \A k \in i .. Len(s) : f[k] = f[k - 1] + Contribution(s, a, k)
      BY <2>1, <3>3
    <3>6. \A k \in i - 1 .. Len(s) : RunningSums(s, a, i)[k] = f[k]
      <4>1. PICK first \in 1 .. Len(s) + 1 : first = i
        BY <3>3
      <4>2. PICK g : g = f
        OBVIOUS
      <4>3. g[first - 1] = 0 /\ \A k \in first .. Len(s) : g[k] = g[k - 1] + Contribution(s, a, k)
        BY <3>4, <3>5, <4>1, <4>2
      <4>4. \A k \in first - 1 .. Len(s) : RunningSums(s, a, first)[k] = g[k]
        BY <4>3, SumsAre
      <4> QED
        BY <4>1, <4>2, <4>4
    <3>7. RunningSums(s, a, i)[n] = f[n]
      BY <3>3, <3>6
    <3>8. ~Overflows(s, i, Len(s))
      BY <1>3, <1>4, <3>2, <3>3
    <3>9. RunningSums(s, a, i)[n] \in Values
      BY <3>2, <3>3, <3>8 DEF Overflows
    <3> QED
      BY <2>1, <3>7, <3>9
  <2> QED
    BY <2>3, <2>4
<1>5. ASSUME duplicates = "reject", NEW j \in 1 .. Len(s), NEW k \in 1 .. Len(s), j < k,
             s[j].at = s[k].at
      PROVE  FALSE
  <2>1. PICK i \in 1 .. j : FirstOf(s, i) /\ s[i].at = s[j].at
    BY <1>2
  <2>2. i \in 1 .. Len(s) /\ k \in i + 1 .. Len(s) /\ s[k].at = s[i].at
    BY <1>1, <1>5, <2>1
  <2> QED
    BY <1>3, <1>5, <2>1, <2>2
<1>6. duplicates = "reject" => Distinct(s, 1)
  <2> SUFFICES ASSUME duplicates = "reject", NEW j \in 1 .. Len(s), NEW k \in 1 .. Len(s),
                      s[j].at = s[k].at
               PROVE  j = k
    BY DEF Distinct
  <2>1. j < k \/ k < j \/ j = k
    BY <1>1
  <2> QED
    BY <1>5, <2>1
<1> QED
  BY <1>4, <1>6

(* Finalize, whose preflight is what the later steps rely on; *)
LEMMA FinalizeStep ==
  ASSUME IInv, NEW d \in Duplicates, NEW z \in Zeros, Finalize(d, z)
  PROVE  IInv'
<1>1. CASE \E result : Returns(result)
  BY <1>1, ReturnsStep
<1>2. CASE ~\E result : Returns(result)
  <2>1. /\ stage = "building" /\ Conflicts(slots, d) = {}
        /\ stage' = "sorting" /\ position' = 2
        /\ policy' = [duplicates |-> d, zeros |-> z]
        /\ UNCHANGED <<slots, added>>
    BY <1>2 DEF Finalize
  <2>2. /\ slots \in EntrySeq /\ slots = added
        /\ \A i \in 1 .. Len(slots) : InBounds(slots[i].at)
    BY <2>1 DEF IInv, Typed, FailureKeepsEntries
  <2>3. policy'.duplicates = d /\ stage' \in Stages
    BY <2>1 DEF Stages
  <2>4. Typed'
    BY <2>1, <2>2, <2>3 DEF Typed
  <2>5. Preflight'
    BY <2>1, <2>2, <2>3, PreflightFacts DEF Preflight
  <2>6. SortedBefore(slots, 2) /\ Len(slots) \in Nat
    BY <2>2, EntryFacts DEF SortedBefore
  <2>7. SameSums'
    <3>1. SameSums
      BY <2>2, <2>6 DEF SameSums, WasAdded, Total
    <3> QED
      BY <2>1, <3>1 DEF SameSums, WasAdded, Total
  <2>8. (policy.duplicates = "reject" => Distinct(slots, 1))'
    BY <2>1, <2>2, <2>3, PreflightFacts
  <2>9. SortInv'
    BY <2>1, <2>5, <2>6, <2>7, <2>8 DEF SortInv
  <2> QED
    BY <2>1, <2>4, <2>9 DEF IInv, FailureKeepsEntries, CompactInv, FinalInv
<1> QED
  BY <1>1, <1>2

(* What StableSort inserts in front of: entries that follow the new one. *)
LEMMA InsertionFacts ==
  ASSUME slots \in EntrySeq, NEW p \in 1 .. Size
  PROVE  \E i \in 1 .. p :
           /\ i = Insertion(p)
           /\ \A j \in i .. p - 1 : Precedes(slots[p].at, slots[j].at)
           /\ i > 1 => ~Precedes(slots[p].at, slots[i - 1].at)
<1> DEFINE S == {i \in 1 .. p : \A j \in i .. p - 1 : Precedes(slots[p].at, slots[j].at)}
<1>0. Size \in Nat /\ p \in Nat /\ p >= 1
  <2>1. Size \in Nat
    BY EntryFacts DEF Size
  <2> QED
    BY <2>1
<1>1. S \subseteq Nat /\ p \in S /\ S # {} /\ p \in Nat /\ p >= 1
  BY <1>0
<1>2. PICK i : i = Min0(S)
  OBVIOUS
<1>3. i \in S /\ \A y \in S : i <= y
  <2> HIDE DEF S
  <2> QED
    BY <1>1, <1>2, Min0Facts
<1>4. i = Insertion(p)
  BY <1>2 DEF Insertion
<1>5. ASSUME i > 1, Precedes(slots[p].at, slots[i - 1].at)
      PROVE  FALSE
  <2>1. i - 1 \in 1 .. p /\ i \in Nat
    BY <1>1, <1>3, <1>5
  <2>2. \A j \in i - 1 .. p - 1 : Precedes(slots[p].at, slots[j].at)
    <3>1. \A j \in i - 1 .. p - 1 : j = i - 1 \/ j \in i .. p - 1
      BY <1>1, <2>1
    <3> QED
      BY <1>3, <1>5, <3>1
  <2>3. i - 1 \in S
    BY <2>1, <2>2
  <2> QED
    BY <1>3, <2>1, <2>3
<1> QED
  BY <1>3, <1>4, <1>5

(* a round of the sort, which is stable; *)
LEMMA SortStep ==
  ASSUME IInv, SortRound
  PROVE  IInv'
<1>1. /\ stage = "sorting" /\ stage' = "sorting" /\ position' = position + 1
      /\ position <= Size
      /\ UNCHANGED <<policy, added>>
  BY DEF SortRound
<1>2. /\ slots \in EntrySeq /\ added \in EntrySeq /\ stage \in Stages
      /\ policy.duplicates \in Duplicates
      /\ position \in Nat /\ position >= 2 /\ Preflight /\ SortedBefore(slots, position)
      /\ SameSums
      /\ policy.duplicates = "reject" => Distinct(slots, 1)
      /\ \A i \in 1 .. Len(slots) : InBounds(slots[i].at)
  BY <1>1 DEF IInv, Typed, SortInv
<1>3. Len(slots) \in Nat /\ Size = Len(slots) /\ \A n \in 1 .. Len(slots) : slots[n].at \in Coordinates
  BY <1>2, EntryFacts DEF Size
<1>4. PICK p \in 1 .. Len(slots) : p = position /\ p \in 1 .. Size
  BY <1>1, <1>2, <1>3
<1>5. PICK i \in 1 .. p :
        /\ i = Insertion(p)
        /\ \A j \in i .. p - 1 : Precedes(slots[p].at, slots[j].at)
        /\ i > 1 => ~Precedes(slots[p].at, slots[i - 1].at)
  BY <1>2, <1>4, InsertionFacts
<1>6. slots' = Inserted(slots, i, p)
  BY <1>4, <1>5 DEF SortRound, Inserted
<1>7. /\ slots' \in EntrySeq /\ Len(slots') = Len(slots)
  BY <1>2, <1>6, InsertedFacts
<1>8. /\ \A k \in 1 .. Len(slots) : \E j \in 1 .. Len(slots) : slots'[k] = slots[j]
      /\ \A j \in 1 .. Len(slots) : \E k \in 1 .. Len(slots) : slots'[k] = slots[j]
      /\ Distinct(slots, 1) => Distinct(slots', 1)
  BY <1>2, <1>6, InsertedHolds
<1>9. Typed'
  BY <1>1, <1>2, <1>7, <1>8 DEF Typed
<1>10. Preflight'
  BY <1>1, <1>2 DEF Preflight
<1>11. SortedBefore(slots', position')
  <2>1. SortedBefore(slots, p)
    BY <1>2, <1>4
  <2>2. SortedBefore(Inserted(slots, i, p), p + 1)
    BY <1>2, <1>5, <2>1, InsertedSorted
  <2> QED
    BY <1>1, <1>4, <1>6, <2>2
<1>12. SameSums'
  <2>1. \A j \in i .. p - 1 : slots[j].at # slots[p].at
    <3>1. \A j \in i .. p - 1 : j \in 1 .. Len(slots)
      BY <1>3
    <3> QED
      BY <1>3, <1>5, <3>1, PrecedesIrreflexive
  <2>2. ASSUME NEW a \in Coordinates
        PROVE  /\ RunningSums(slots', a, 1)[Len(slots)] = RunningSums(slots, a, 1)[Len(slots)]
               /\ \A n \in 0 .. Len(slots) : \E m \in 0 .. Len(slots) :
                    RunningSums(slots', a, 1)[n] = RunningSums(slots, a, 1)[m]
    <3>1. /\ RunningSums(Inserted(slots, i, p), a, 1)[Len(slots)] =
               RunningSums(slots, a, 1)[Len(slots)]
          /\ \A n \in 0 .. Len(slots) : \E m \in 0 .. Len(slots) :
               RunningSums(Inserted(slots, i, p), a, 1)[n] = RunningSums(slots, a, 1)[m]
      BY <1>2, <2>1, InsertedSums
    <3> QED
      BY <1>6, <3>1
  <2>3. ASSUME NEW a \in Coordinates
        PROVE  Holds(slots', 1, Len(slots), a) <=> Holds(slots, 1, Len(slots), a)
    BY <1>8 DEF Holds
  <2>4. ASSUME NEW a \in Coordinates, NEW n \in 0 .. Len(slots)
        PROVE  \E m \in 0 .. Len(added) : RunningSums(slots', a, 1)[n] = RunningSums(added, a, 1)[m]
    <3>1. PICK m \in 0 .. Len(slots) :
            RunningSums(slots', a, 1)[n] = RunningSums(slots, a, 1)[m]
      BY <2>2
    <3> QED
      BY <1>2, <3>1 DEF SameSums
  <2>5. added' = added
    BY <1>1
  <2>6. ASSUME NEW a \in Coordinates
        PROVE  RunningSums(slots', a, 1)[Len(slots')] = Total(a)'
    BY <1>2, <1>7, <2>2, <2>5 DEF SameSums, Total
  <2>7. ASSUME NEW a \in Coordinates
        PROVE  Holds(slots', 1, Len(slots'), a) <=> WasAdded(a)'
    BY <1>2, <1>7, <2>3, <2>5 DEF SameSums, WasAdded
  <2> QED
    BY <1>7, <2>4, <2>5, <2>6, <2>7 DEF SameSums
<1>13. SortInv'
  BY <1>1, <1>2, <1>8, <1>10, <1>11, <1>12 DEF SortInv
<1> QED
  BY <1>1, <1>9, <1>13 DEF IInv, FailureKeepsEntries, CompactInv, FinalInv

(* the end of the sort, where all that was sorted is yet to be compacted; *)
LEMMA SortedStep ==
  ASSUME IInv, Sorted
  PROVE  IInv'
<1>1. /\ stage = "sorting" /\ stage' = "compacting" /\ position > Size
      /\ input' = 1 /\ output' = 0
      /\ UNCHANGED <<slots, policy, added>>
  BY DEF Sorted
<1>2. /\ slots \in EntrySeq /\ added \in EntrySeq /\ stage \in Stages
      /\ policy.duplicates \in Duplicates
      /\ position \in Nat /\ Preflight /\ SortedBefore(slots, position) /\ SameSums
      /\ policy.duplicates = "reject" => Distinct(slots, 1)
      /\ \A i \in 1 .. Len(slots) : InBounds(slots[i].at)
  BY <1>1 DEF IInv, Typed, SortInv
<1>3. Len(slots) \in Nat /\ Size = Len(slots) /\ Size' = Len(slots) /\ Len(added) \in Nat
  BY <1>1, <1>2, EntryFacts DEF Size
<1>4. Typed'
  BY <1>1, <1>2 DEF Typed, Stages
<1>5. \A j, k \in 1 .. Len(slots) : j < k => ~Precedes(slots[k].at, slots[j].at)
  BY <1>1, <1>2, <1>3 DEF SortedBefore
<1>6. ASSUME NEW a \in Coordinates, Holds(slots, 1, Len(slots), a)
      PROVE  /\ WasAdded(a)
             /\ RunningSums(slots, a, 1)[Len(slots)] = Total(a)
             /\ policy.duplicates = "sum" =>
                  \A n \in 1 .. Len(slots) : RunningSums(slots, a, 1)[n] \in Values
  <2>1. WasAdded(a) /\ RunningSums(slots, a, 1)[Len(slots)] = Total(a)
    BY <1>2, <1>6 DEF SameSums
  <2>2. ASSUME policy.duplicates = "sum", NEW n \in 1 .. Len(slots)
        PROVE  RunningSums(slots, a, 1)[n] \in Values
    <3>1. n \in 0 .. Len(slots)
      BY <1>3
    <3>2. PICK m \in 0 .. Len(added) : RunningSums(slots, a, 1)[n] = RunningSums(added, a, 1)[m]
      BY <1>2, <3>1 DEF SameSums
    <3> QED
      BY <1>2, <2>2, <3>2 DEF Preflight
  <2> QED
    BY <2>1, <2>2
<1>7. Rest'
  BY <1>1, <1>2, <1>3, <1>5, <1>6 DEF Rest, WasAdded, Total
<1>8. \A a \in Coordinates : WasAdded(a) => Holds(slots, 1, Len(slots), a)
  BY <1>2 DEF SameSums
<1>9. CompactInv'
  BY <1>1, <1>3, <1>7, <1>8 DEF CompactInv, Canonical, WasAdded
<1> QED
  BY <1>1, <1>4, <1>9 DEF IInv, FailureKeepsEntries, SortInv, FinalInv

(* The group that begins at input holds all entries of its coordinate that *)
(* have not been read.                                                     *)
LEMMA GroupFacts ==
  ASSUME slots \in EntrySeq, input \in 1 .. Size,
         \A j, k \in input .. Size : j < k => ~Precedes(slots[k].at, slots[j].at)
  PROVE  \E e \in input + 1 .. Size + 1 :
           /\ e = GroupEnd
           /\ \A k \in input .. e - 1 : slots[k].at = slots[input].at
           /\ \A k \in e .. Size : Precedes(slots[input].at, slots[k].at)
<1> DEFINE S == {i \in input + 1 .. Size + 1 : i = Size + 1 \/ slots[i].at # slots[input].at}
<1>1. Size \in Nat /\ \A k \in 1 .. Size : slots[k].at \in Coordinates
  BY EntryFacts DEF Size
<1>2. input \in Nat /\ input >= 1 /\ input <= Size
  BY <1>1
<1>3. S \subseteq Nat /\ Size + 1 \in S
  BY <1>1, <1>2
<1>4. PICK e : e = Min0(S)
  OBVIOUS
<1>5. e \in S /\ \A y \in S : e <= y
  <2>1. S # {}
    BY <1>3
  <2> HIDE DEF S
  <2> QED
    BY <1>3, <1>4, <2>1, Min0Facts
<1>6. e = GroupEnd
  BY <1>4 DEF GroupEnd
<1>7. e \in input + 1 .. Size + 1 /\ e \in Nat
  BY <1>1, <1>2, <1>5
<1>8. ASSUME NEW k \in input .. e - 1
      PROVE  slots[k].at = slots[input].at
  <2>1. CASE k = input
    BY <2>1
  <2>2. CASE k # input
    <3>1. k \in input + 1 .. Size + 1 /\ k # Size + 1 /\ k < e
      BY <1>1, <1>2, <1>7, <2>2
    <3>2. k \notin S
      BY <1>5, <1>7, <3>1
    <3> QED
      BY <3>1, <3>2
  <2> QED
    BY <2>1, <2>2
<1>9. ASSUME NEW k \in e .. Size
      PROVE  Precedes(slots[input].at, slots[k].at)
  <2>1. /\ e \in input .. Size /\ k \in input .. Size /\ input \in input .. Size /\ input < e
        /\ e <= k /\ e # Size + 1
    BY <1>1, <1>2, <1>7
  <2>2. /\ slots[e].at \in Coordinates /\ slots[k].at \in Coordinates
        /\ slots[input].at \in Coordinates
    BY <1>1, <1>2, <2>1
  <2>3. slots[e].at # slots[input].at
    BY <1>5, <2>1
  <2>4. Precedes(slots[input].at, slots[e].at)
    BY <2>1, <2>2, <2>3, PrecedesTotal
  <2>5. CASE k = e
    BY <2>4, <2>5
  <2>6. CASE k # e
    <3>1. ~Precedes(slots[k].at, slots[e].at)
      BY <1>1, <1>2, <1>7, <2>1, <2>6
    <3> QED
      BY <2>2, <2>4, <3>1, PrecedesWeak
  <2> QED
    BY <2>5, <2>6
<1> QED
  BY <1>6, <1>7, <1>8, <1>9

(* Its value is the total, and the sums on the way to it were checked. *)
LEMMA GroupTotal ==
  ASSUME IInv, stage = "compacting", input <= Size
  PROVE  /\ input \in 1 .. Size /\ slots[input].at \in Coordinates
         /\ WasAdded(slots[input].at)
         /\ GroupValue = Total(slots[input].at) /\ GroupValue \in Values
         /\ policy.duplicates = "sum" => ~Overflows(slots, input, GroupEnd - 1)
<1>1. slots \in EntrySeq /\ policy.duplicates \in {"reject", "sum"}
  BY DEF IInv, Typed, Duplicates
<1>2. Size = Len(slots) /\ Size \in Nat /\ \A k \in 1 .. Size : slots[k] \in Entries
      /\ slots[k].at \in Coordinates /\ slots[k].value \in Int /\ slots[k].value \in Values
  BY <1>1, EntryFacts DEF Size
<1>3. input \in 1 .. Size + 1 /\ Rest
  BY DEF IInv, CompactInv
<1>4. input \in 1 .. Size /\ input \in 1 .. Len(slots) + 1 /\ input \in input .. Size
      /\ input \in Nat
  BY <1>2, <1>3
<1>5. PICK first \in 1 .. Len(slots) + 1 : first = input
  BY <1>4
<1>6. PICK a \in Coordinates : a = slots[input].at
  BY <1>2, <1>4
<1>7. Holds(slots, input, Size, a)
  BY <1>4, <1>6 DEF Holds
<1>8. /\ WasAdded(a)
      /\ RunningSums(slots, a, input)[Size] = Total(a)
      /\ policy.duplicates = "sum" =>
           \A n \in input .. Size : RunningSums(slots, a, input)[n] \in Values
  BY <1>3, <1>7 DEF Rest
<1>9. PICK e \in input + 1 .. Size + 1 :
        /\ e = GroupEnd
        /\ \A k \in input .. e - 1 : slots[k].at = slots[input].at
        /\ \A k \in e .. Size : Precedes(slots[input].at, slots[k].at)
  BY <1>1, <1>3, <1>4, GroupFacts DEF Rest
<1>10. e \in Nat /\ e - 1 \in input .. Size /\ e - 1 \in Nat
  BY <1>2, <1>4, <1>9
<1>11. RunningSums(slots, a, input)[e - 1] = Total(a)
  <2>1. PICK m \in first - 1 .. Len(slots), n \in first - 1 .. Len(slots) :
          m = e - 1 /\ n = Size /\ m <= n
    BY <1>2, <1>4, <1>5, <1>10
  <2>2. ASSUME NEW k \in m + 1 .. n
        PROVE  slots[k].at # a
    <3>1. k \in e .. Size /\ k \in 1 .. Size
      BY <1>2, <1>4, <1>10, <2>1
    <3> QED
      BY <1>2, <1>6, <1>9, <3>1, PrecedesIrreflexive
  <2>3. RunningSums(slots, a, first)[n] = RunningSums(slots, a, first)[m]
    BY <1>1, <2>1, <2>2, SumsStay
  <2> QED
    BY <1>5, <1>8, <2>1, <2>3
<1>12. CASE policy.duplicates = "sum"
  <2>1. GroupValue = RunningSums(slots, a, input)[e - 1]
    BY <1>6, <1>9, <1>12 DEF GroupValue
  <2>2. GroupValue \in Values
    BY <1>8, <1>10, <1>12, <2>1
  <2>3. ~Overflows(slots, input, GroupEnd - 1)
    <3>1. \A n \in input .. e - 1 : n \in input .. Size
      BY <1>2, <1>4, <1>10
    <3>2. \A n \in input .. e - 1 : RunningSums(slots, a, input)[n] \in Values
      BY <1>8, <1>12, <3>1
    <3> QED
      BY <1>6, <1>9, <3>2 DEF Overflows
  <2> QED
    BY <1>4, <1>6, <1>8, <1>11, <2>1, <2>2, <2>3
<1>13. CASE policy.duplicates = "reject"
  <2>1. Distinct(slots, input)
    BY <1>3, <1>13 DEF Rest
  <2>2. e = input + 1
    <3>1. e - 1 \in input .. Len(slots) /\ e - 1 \in input .. e - 1 /\ input \in input .. Len(slots)
      BY <1>2, <1>4, <1>10
    <3>2. slots[e - 1].at = slots[input].at
      BY <1>9, <3>1
    <3>3. e - 1 = input
      BY <2>1, <3>1, <3>2 DEF Distinct
    <3> QED
      BY <1>4, <1>10, <3>3
  <2>3. RunningSums(slots, a, input)[input] = slots[input].value
    <3>1. first \in first .. Len(slots)
      BY <1>2, <1>4, <1>5
    <3>2. PICK f : f = RunningSums(slots, a, first)
      OBVIOUS
    <3>3. f[first - 1] = 0 /\ \A n \in first .. Len(slots) : f[n] = f[n - 1] + Contribution(slots, a, n)
      BY <1>1, <3>2, SumsFacts
    <3>4. Contribution(slots, a, first) = slots[input].value
      BY <1>5, <1>6 DEF Contribution
    <3>5. f[first] = f[first - 1] + Contribution(slots, a, first)
      BY <3>1, <3>3
    <3>6. slots[input].value \in Int
      BY <1>2, <1>4
    <3>7. f[first] = slots[input].value
      BY <3>3, <3>4, <3>5, <3>6
    <3> QED
      BY <1>5, <3>2, <3>7
  <2>4. e - 1 = input
    BY <1>4, <2>2
  <2>5. GroupValue = slots[input].value /\ slots[input].value = Total(a)
    BY <1>11, <1>13, <2>3, <2>4 DEF GroupValue
  <2> QED
    BY <1>2, <1>4, <1>6, <1>8, <1>13, <2>5
<1> QED
  BY <1>1, <1>12, <1>13

(* a group compacted, which writes only where all has been read; *)
LEMMA CompactStep ==
  ASSUME IInv, CompactGroup
  PROVE  IInv'
<1>1. /\ stage = "compacting" /\ stage' = "compacting" /\ input <= Size
      /\ input' = GroupEnd
      /\ UNCHANGED <<policy, added>>
  BY DEF CompactGroup
<1>2. /\ slots \in EntrySeq /\ added \in EntrySeq /\ stage \in Stages
      /\ policy.duplicates \in Duplicates
      /\ \A i \in 1 .. Len(slots) : InBounds(slots[i].at)
  BY DEF IInv, Typed
<1>3. /\ output \in 0 .. input - 1 /\ Rest /\ Canonical(output)
      /\ \A i \in 1 .. output, j \in input .. Size : Precedes(slots[i].at, slots[j].at)
      /\ \A a \in Coordinates : WasAdded(a) =>
           \/ Holds(slots, 1, output, a) \/ Holds(slots, input, Size, a) \/ Unwanted(Total(a))
  BY <1>1 DEF IInv, CompactInv
<1>4. /\ Size = Len(slots) /\ Size \in Nat
      /\ \A k \in 1 .. Size : slots[k] \in Entries /\ slots[k].at \in Coordinates
  BY <1>2, EntryFacts DEF Size
<1>5. PICK a0 \in Coordinates :
        /\ input \in 1 .. Size /\ a0 = slots[input].at
        /\ WasAdded(a0) /\ GroupValue = Total(a0) /\ GroupValue \in Values
  BY <1>1, GroupTotal
<1>6. input \in Nat /\ output \in Nat /\ output + 1 <= input /\ output + 1 \in 1 .. Size
  BY <1>3, <1>4, <1>5
<1>7. PICK e \in input + 1 .. Size + 1 :
        /\ e = GroupEnd
        /\ \A k \in input .. e - 1 : slots[k].at = slots[input].at
        /\ \A k \in e .. Size : Precedes(slots[input].at, slots[k].at)
  BY <1>2, <1>3, <1>5, GroupFacts DEF Rest
<1>8. /\ e \in Nat /\ input < e /\ e <= Size + 1 /\ input' = e
      /\ \A k \in input .. e - 1 : slots[k].at = a0
      /\ \A k \in e .. Size : Precedes(a0, slots[k].at)
  BY <1>1, <1>4, <1>5, <1>6, <1>7
<1>9. PICK t \in Entries : t = [at |-> a0, value |-> GroupValue]
  BY <1>5 DEF Entries
<1>10. t.at = a0 /\ t.value = Total(a0) /\ InBounds(a0)
  BY <1>2, <1>4, <1>5, <1>9
<1>11. Unwanted(Total(a0)) <=> Drops(GroupValue)
  BY <1>5 DEF Unwanted, Drops
(* What the step writes, in either case. *)
<1>12. /\ slots' \in EntrySeq /\ Len(slots') = Len(slots)
       /\ \A k \in 1 .. Size : k # output + 1 => slots'[k] = slots[k]
       /\ \A k \in 1 .. Size : InBounds(slots'[k].at)
       /\ \/ Unwanted(Total(a0)) /\ output' = output
          \/ ~Unwanted(Total(a0)) /\ output' = output + 1 /\ slots'[output + 1] = t
  <2>1. CASE Drops(GroupValue)
    <3>1. slots' = slots /\ output' = output
      BY <2>1 DEF CompactGroup
    <3> QED
      BY <1>2, <1>4, <1>11, <2>1, <3>1
  <2>2. CASE ~Drops(GroupValue)
    <3>1. slots' = [slots EXCEPT ![output + 1] = t] /\ output' = output + 1
      BY <1>5, <1>9, <2>2 DEF CompactGroup
    <3>2. PICK o \in 1 .. Len(slots) : o = output + 1
      BY <1>4, <1>6
    <3>3. DOMAIN slots = 1 .. Len(slots) /\ slots \in [1 .. Len(slots) -> Entries]
      BY <1>2, LenProperties DEF EntrySeq
    <3>4. slots' = [slots EXCEPT ![o] = t]
      BY <3>1, <3>2
    <3>5. /\ slots' \in [1 .. Len(slots) -> Entries]
          /\ slots'[o] = t /\ \A k \in 1 .. Len(slots) : k # o => slots'[k] = slots[k]
      BY <3>3, <3>4
    <3>6. slots' \in EntrySeq /\ Len(slots') = Len(slots)
      BY <1>4, <3>5, SeqDef, LenProperties DEF EntrySeq
    <3>7. \A k \in 1 .. Size : InBounds(slots'[k].at)
      BY <1>2, <1>4, <1>10, <3>2, <3>5
    <3> QED
      BY <1>4, <1>11, <2>2, <3>1, <3>2, <3>5, <3>6, <3>7
  <2> QED
    BY <2>1, <2>2
<1>13. Size' = Size /\ Len(slots') = Size
  BY <1>4, <1>12 DEF Size
<1>14. \A k \in 1 .. output : slots'[k] = slots[k]
  BY <1>4, <1>6, <1>12
<1>15. \A k \in e .. Size : slots'[k] = slots[k] /\ k \in input .. Size /\ k \in 1 .. Size
  BY <1>4, <1>6, <1>8, <1>12
<1>16. Typed'
  BY <1>1, <1>2, <1>4, <1>12, <1>13 DEF Typed
<1>17. Rest'
  <2>1. ASSUME NEW j \in e .. Size, NEW k \in e .. Size, j < k
        PROVE  ~Precedes(slots'[k].at, slots'[j].at)
    BY <1>3, <1>15, <2>1 DEF Rest
  <2>2. ASSUME policy.duplicates = "reject", NEW j \in e .. Size, NEW k \in e .. Size,
               slots'[j].at = slots'[k].at
        PROVE  j = k
    <3>1. Distinct(slots, input)
      BY <1>3, <2>2 DEF Rest
    <3> QED
      BY <1>4, <1>15, <2>2, <3>1 DEF Distinct
  <2>3. ASSUME NEW a \in Coordinates, Holds(slots', e, Size, a)
        PROVE  /\ WasAdded(a)
               /\ RunningSums(slots', a, e)[Size] = Total(a)
               /\ policy.duplicates = "sum" =>
                    \A n \in e .. Size : RunningSums(slots', a, e)[n] \in Values
    <3>1. PICK i \in e .. Size : slots'[i].at = a
      BY <2>3 DEF Holds
    <3>2. slots[i].at = a /\ i \in input .. Size /\ Precedes(a0, a)
      BY <1>8, <1>15, <3>1
    <3>3. a # a0
      BY <3>2, PrecedesIrreflexive
    <3>4. Holds(slots, input, Size, a)
      BY <3>2 DEF Holds
    <3>5. /\ WasAdded(a)
          /\ RunningSums(slots, a, input)[Size] = Total(a)
          /\ policy.duplicates = "sum" =>
               \A n \in input .. Size : RunningSums(slots, a, input)[n] \in Values
      BY <1>3, <3>4 DEF Rest
    <3>6. PICK first \in 1 .. Len(slots) + 1 : first = input
      BY <1>4, <1>5
    <3>7. PICK g : g = RunningSums(slots, a, first)
      OBVIOUS
    <3>8. /\ g[first - 1] = 0
          /\ \A n \in first .. Len(slots) : g[n] = g[n - 1] + Contribution(slots, a, n)
      BY <1>2, <3>7, SumsFacts
    <3>9. g[e - 1] = 0
      <4>1. PICK m \in first - 1 .. Len(slots), n \in first - 1 .. Len(slots) :
              m = first - 1 /\ n = e - 1 /\ m <= n
        BY <1>4, <1>6, <1>8, <3>6
      <4>2. ASSUME NEW k \in m + 1 .. n
            PROVE  slots[k].at # a
        <5>1. k \in input .. e - 1
          BY <1>6, <1>8, <3>6, <4>1
        <5> QED
          BY <1>8, <3>3, <5>1
      <4>3. RunningSums(slots, a, first)[n] = RunningSums(slots, a, first)[m]
        BY <1>2, <4>1, <4>2, SumsStay
      <4> QED
        BY <3>7, <3>8, <4>1, <4>3
    <3>10. PICK u \in EntrySeq : u = slots' /\ Len(u) = Size
      BY <1>12, <1>13
    <3>11. PICK next \in 1 .. Len(u) + 1 : next = e
      BY <1>6, <1>8, <3>10
    <3>12. ASSUME NEW n \in next .. Len(u)
           PROVE  g[n] = g[n - 1] + Contribution(u, a, n)
      <4>1. n \in e .. Size /\ n \in first .. Len(slots)
        BY <1>4, <1>6, <1>8, <3>6, <3>10, <3>11
      <4>2. Contribution(u, a, n) = Contribution(slots, a, n)
        BY <1>15, <3>10, <4>1 DEF Contribution
      <4> QED
        BY <3>8, <4>1, <4>2
    <3>13. \A n \in next - 1 .. Len(u) : RunningSums(u, a, next)[n] = g[n]
      BY <3>9, <3>11, <3>12, SumsAre
    <3>14. \A n \in e - 1 .. Size : RunningSums(slots', a, e)[n] = RunningSums(slots, a, input)[n]
      BY <3>6, <3>7, <3>10, <3>11, <3>13
    <3>15. Size \in e - 1 .. Size /\ \A n \in e .. Size : n \in e - 1 .. Size /\ n \in input .. Size
      BY <1>4, <1>6, <1>8
    <3> QED
      BY <3>5, <3>14, <3>15
  <2> QED
    BY <1>1, <1>8, <1>13, <2>1, <2>2, <2>3 DEF Rest, Distinct, WasAdded, Total
<1>18. Canonical(output)'
  <2>1. ASSUME NEW i \in 1 .. output', NEW j \in 1 .. output', i < j
        PROVE  Precedes(slots'[i].at, slots'[j].at)
    <3>1. i \in 1 .. output
      BY <1>6, <1>12, <2>1
    <3>2. slots'[i] = slots[i]
      BY <1>14, <3>1
    <3>3. CASE j \in 1 .. output
      BY <1>3, <1>14, <2>1, <3>1, <3>2, <3>3 DEF Canonical
    <3>4. CASE j \notin 1 .. output
      <4>1. j = output + 1 /\ slots'[output + 1] = t
        BY <1>6, <1>12, <3>4
      <4>2. input \in input .. Size
        BY <1>4, <1>5
      <4>3. Precedes(slots[i].at, a0)
        BY <1>3, <1>5, <3>1, <4>2
      <4> QED
        BY <1>10, <3>2, <4>1, <4>3
    <3> QED
      BY <3>3, <3>4
  <2>2. ASSUME NEW i \in 1 .. output'
        PROVE  /\ WasAdded(slots'[i].at)
               /\ slots'[i].value = Total(slots'[i].at)
               /\ ~Unwanted(slots'[i].value)
    <3>1. CASE i \in 1 .. output
      BY <1>3, <1>14, <3>1 DEF Canonical
    <3>2. CASE i \notin 1 .. output
      <4>1. i = output + 1 /\ slots'[output + 1] = t /\ ~Unwanted(Total(a0))
        BY <1>6, <1>12, <3>2
      <4> QED
        BY <1>5, <1>10, <4>1
    <3> QED
      BY <3>1, <3>2
  <2> QED
    BY <1>1, <2>1, <2>2 DEF Canonical, WasAdded, Total, Unwanted
<1>19. \A i \in 1 .. output', j \in e .. Size : Precedes(slots'[i].at, slots'[j].at)
  <2>1. ASSUME NEW i \in 1 .. output', NEW j \in e .. Size
        PROVE  Precedes(slots'[i].at, slots'[j].at)
    <3>1. slots'[j] = slots[j] /\ j \in input .. Size
      BY <1>15
    <3>2. CASE i \in 1 .. output
      BY <1>3, <1>14, <3>1, <3>2
    <3>3. CASE i \notin 1 .. output
      <4>1. i = output + 1 /\ slots'[output + 1] = t
        BY <1>6, <1>12, <3>3
      <4> QED
        BY <1>8, <1>10, <3>1, <4>1
    <3> QED
      BY <3>2, <3>3
  <2> QED
    BY <2>1
<1>20. ASSUME NEW a \in Coordinates, WasAdded(a)
       PROVE  \/ Holds(slots', 1, output', a) \/ Holds(slots', e, Size, a)
              \/ Unwanted(Total(a))
  <2>1. CASE Holds(slots, 1, output, a)
    <3>1. PICK i \in 1 .. output : slots[i].at = a
      BY <2>1 DEF Holds
    <3>2. i \in 1 .. output' /\ slots'[i] = slots[i]
      BY <1>6, <1>12, <1>14
    <3> QED
      BY <3>1, <3>2 DEF Holds
  <2>2. CASE Holds(slots, input, Size, a)
    <3>1. PICK k \in input .. Size : slots[k].at = a
      BY <2>2 DEF Holds
    <3>2. CASE k < e
      <4>1. a = a0
        BY <1>4, <1>6, <1>8, <3>1, <3>2
      <4>2. CASE ~Unwanted(Total(a0))
        <5>1. output + 1 \in 1 .. output' /\ slots'[output + 1] = t
          BY <1>6, <1>12, <4>2
        <5> QED
          BY <1>10, <4>1, <5>1 DEF Holds
      <4> QED
        BY <4>1, <4>2
    <3>3. CASE ~(k < e)
      <4>1. k \in e .. Size
        BY <1>4, <1>6, <1>8, <3>3
      <4> QED
        BY <1>15, <3>1, <4>1 DEF Holds
    <3> QED
      BY <3>2, <3>3
  <2> QED
    BY <1>3, <1>20, <2>1, <2>2
<1>21. input' \in 1 .. Size' + 1 /\ output' \in 0 .. input' - 1
  BY <1>4, <1>6, <1>8, <1>12, <1>13
<1>22. CompactInv'
  BY <1>1, <1>8, <1>13, <1>17, <1>18, <1>19, <1>20, <1>21
     DEF CompactInv, WasAdded, Total, Unwanted
<1> QED
  BY <1>1, <1>16, <1>22 DEF IInv, FailureKeepsEntries, SortInv, FinalInv

(* and the array that is handed out. *)
LEMMA PublishStep ==
  ASSUME IInv, Publish
  PROVE  IInv'
<1>1. /\ stage = "compacting" /\ stage' = "finalized" /\ input > Size
      /\ slots' = SubSeq(slots, 1, output)
      /\ UNCHANGED <<policy, added>>
  BY DEF Publish
<1>2. /\ slots \in EntrySeq /\ added \in EntrySeq /\ policy.duplicates \in Duplicates
      /\ \A i \in 1 .. Len(slots) : InBounds(slots[i].at)
  BY DEF IInv, Typed
<1>3. /\ input \in 1 .. Size + 1 /\ output \in 0 .. input - 1 /\ Canonical(output)
      /\ \A a \in Coordinates : WasAdded(a) =>
           \/ Holds(slots, 1, output, a) \/ Holds(slots, input, Size, a) \/ Unwanted(Total(a))
  BY <1>1 DEF IInv, CompactInv
<1>4. Size = Len(slots) /\ Size \in Nat
  BY <1>2, EntryFacts DEF Size
<1>5. output \in Nat /\ output <= Len(slots)
  BY <1>3, <1>4
<1>6. /\ slots' \in EntrySeq /\ Len(slots') = output /\ Size' = output
      /\ \A k \in 1 .. output : slots'[k] = slots[k] /\ k \in 1 .. Len(slots)
  <2>1. PICK o \in Nat : o = output /\ o <= Len(slots)
    BY <1>5
  <2>2. SubSeq(slots, 1, o) \in Seq(Entries) /\ Len(SubSeq(slots, 1, o)) = o
        /\ \A k \in 1 .. o : SubSeq(slots, 1, o)[k] = slots[k]
    <3>1. slots \in Seq(Entries) /\ 1 \in 1 .. Len(slots) + 1 /\ o \in 1 - 1 .. Len(slots)
      BY <1>2, <1>4, <2>1 DEF EntrySeq
    <3> QED
      BY <2>1, <3>1, SubSeqProperties
  <2> QED
    BY <1>1, <1>4, <2>1, <2>2 DEF EntrySeq, Size
<1>7. Typed'
  BY <1>1, <1>2, <1>6 DEF Typed, Stages
<1>8. Canonical(output)
  BY <1>3
<1>9. Canonical(Size)'
  BY <1>1, <1>6, <1>8 DEF Canonical, WasAdded, Total, Unwanted
<1>10. ASSUME NEW a \in Coordinates, WasAdded(a)
       PROVE  Holds(slots', 1, output, a) \/ Unwanted(Total(a))
  <2>1. ~Holds(slots, input, Size, a)
    BY <1>1, <1>3, <1>4 DEF Holds
  <2> QED
    BY <1>3, <1>6, <1>10, <2>1 DEF Holds
<1>11. FinalInv'
  BY <1>1, <1>6, <1>9, <1>10 DEF FinalInv, WasAdded, Total, Unwanted
<1> QED
  BY <1>1, <1>7, <1>11 DEF IInv, FailureKeepsEntries, SortInv, CompactInv

-----------------------------------------------------------------------------
(* The binary search.                                                       *)

Before(a, k) == Precedes(slots[k].at, a)

(* The first entry of first..last-1 that does not precede a, or last. *)
Lands(i, a, first, last) ==
  IF first >= last THEN i = first
  ELSE /\ i \in first .. last
       /\ i = last \/ ~Before(a, i)
       /\ \A k \in first .. i - 1 : Before(a, k)

IsSearch(f, a) ==
  f = [range \in (1 .. Size + 1) \X (1 .. Size + 1) |->
         LET first == range[1]
             last == range[2]
             middle == first + (last - first) \div 2
         IN IF first >= last THEN first
            ELSE IF Precedes(slots[middle].at, a) THEN f[<<middle + 1, last>>]
            ELSE f[<<first, middle>>]]

(* There is such an entry. *)
LEMMA LandsSomewhere ==
  ASSUME NEW a, NEW first \in Nat, NEW last \in Nat
  PROVE  \E i : Lands(i, a, first, last)
<1>1. CASE first >= last
  BY <1>1 DEF Lands
<1>2. CASE first < last
  <2> DEFINE S == {i \in first .. last : i = last \/ ~Before(a, i)}
  <2>1. S \subseteq Nat /\ S # {}
    BY <1>2
  <2>2. PICK i \in S : \A y \in S : i <= y
    <3> HIDE DEF S
    <3> QED
      BY <2>1, LeastNat
  <2>3. \A k \in first .. i - 1 : Before(a, k)
    BY <2>2
  <2> QED
    BY <1>2, <2>2, <2>3 DEF Lands
<1> QED
  BY <1>1, <1>2

(* The middle lies in the range, and before its end. *)
LEMMA Halving ==
  ASSUME NEW first \in Nat, NEW last \in Nat, first < last
  PROVE  first + (last - first) \div 2 \in first .. last - 1
<1>1. PICK d \in Nat : d = last - first /\ d >= 1
  OBVIOUS
<1>2. d \div 2 \in 0 .. d - 1
  BY <1>1
<1> QED
  BY <1>1, <1>2

(* In sorted entries the place is the only one, and halving keeps it. *)
LEMMA LandsInHalf ==
  ASSUME slots \in EntrySeq,
         \A i, j \in 1 .. Size : i < j => Precedes(slots[i].at, slots[j].at),
         NEW a \in Coordinates, NEW first \in 1 .. Size + 1, NEW last \in 1 .. Size + 1,
         first < last, NEW middle \in first .. last - 1, NEW i,
         \/ Before(a, middle) /\ Lands(i, a, middle + 1, last)
         \/ ~Before(a, middle) /\ Lands(i, a, first, middle)
  PROVE  Lands(i, a, first, last)
<1>1. Size \in Nat /\ \A k \in 1 .. Size : slots[k].at \in Coordinates
  BY EntryFacts DEF Size
<1>2. CASE Before(a, middle) /\ Lands(i, a, middle + 1, last)
  <2>1. ASSUME NEW k \in first .. middle
        PROVE  Before(a, k)
    <3>1. k \in 1 .. Size /\ middle \in 1 .. Size
      BY <1>1
    <3>2. CASE k = middle
      BY <1>2, <3>2
    <3>3. CASE k < middle
      <4>1. Precedes(slots[k].at, slots[middle].at)
        BY <3>1, <3>3
      <4> QED
        BY <1>1, <1>2, <3>1, <4>1, PrecedesTransitive DEF Before
    <3> QED
      BY <1>1, <3>2, <3>3
  <2>2. /\ i \in middle + 1 .. last
        /\ i = last \/ ~Before(a, i)
        /\ \A k \in middle + 1 .. i - 1 : Before(a, k)
    <3>1. CASE middle + 1 >= last
      <4>1. i = middle + 1 /\ i = last
        BY <1>1, <1>2, <3>1 DEF Lands
      <4> QED
        BY <1>1, <4>1
    <3>2. CASE ~(middle + 1 >= last)
      BY <1>2, <3>2 DEF Lands
    <3> QED
      BY <3>1, <3>2
  <2>3. i \in first .. last /\ \A k \in first .. i - 1 : k \in first .. middle \/ k \in middle + 1 .. i - 1
    BY <1>1, <2>2
  <2>4. \A k \in first .. i - 1 : Before(a, k)
    BY <2>1, <2>2, <2>3
  <2>5. ~(first >= last)
    BY <1>1
  <2> QED
    BY <2>2, <2>3, <2>4, <2>5 DEF Lands
<1>3. CASE ~Before(a, middle) /\ Lands(i, a, first, middle)
  <2>1. /\ i \in first .. middle
        /\ i = middle \/ ~Before(a, i)
        /\ \A k \in first .. i - 1 : Before(a, k)
    <3>1. CASE first >= middle
      <4>1. i = first /\ i = middle
        BY <1>1, <1>3, <3>1 DEF Lands
      <4> QED
        BY <1>1, <4>1
    <3>2. CASE ~(first >= middle)
      BY <1>3, <3>2 DEF Lands
    <3> QED
      BY <3>1, <3>2
  <2>2. i \in first .. last /\ ~Before(a, i) /\ ~(first >= last)
    BY <1>1, <1>3, <2>1
  <2> QED
    BY <2>1, <2>2 DEF Lands
<1> QED
  BY <1>2, <1>3

(* Two searches of one range end in one place. *)
LEMMA LandsOnce ==
  ASSUME NEW a, NEW first \in Nat, NEW last \in Nat, NEW i, NEW j,
         Lands(i, a, first, last), Lands(j, a, first, last)
  PROVE  i = j
<1>1. CASE first >= last
  BY <1>1 DEF Lands
<1>2. CASE first < last
  <2>1. /\ i \in first .. last /\ (i = last \/ ~Before(a, i))
        /\ \A k \in first .. i - 1 : Before(a, k)
        /\ j \in first .. last /\ (j = last \/ ~Before(a, j))
        /\ \A k \in first .. j - 1 : Before(a, k)
    BY <1>2 DEF Lands
  <2>2. ~(i < j)
    <3>1. ASSUME i < j PROVE FALSE
      <4>1. i \in first .. j - 1 /\ i # last
        BY <2>1, <3>1
      <4> QED
        BY <2>1, <4>1
    <3> QED
      BY <3>1
  <2>3. ~(j < i)
    <3>1. ASSUME j < i PROVE FALSE
      <4>1. j \in first .. i - 1 /\ j # last
        BY <2>1, <3>1
      <4> QED
        BY <2>1, <4>1
    <3> QED
      BY <3>1
  <2> QED
    BY <2>1, <2>2, <2>3
<1> QED
  BY <1>1, <1>2

(* Lookup searches to the first stored coordinate that does not precede a:  *)
(* the recursive definition of the search has a solution, and every         *)
(* solution ends there.                                                     *)
LEMMA SearchFinds ==
  ASSUME slots \in EntrySeq,
         \A i, j \in 1 .. Size : i < j => Precedes(slots[i].at, slots[j].at),
         NEW a \in Coordinates
  PROVE  /\ Search(a) \in 1 .. Size + 1
         /\ Search(a) = Size + 1 \/ ~Precedes(slots[Search(a)].at, a)
         /\ \A k \in 1 .. Search(a) - 1 : Precedes(slots[k].at, a)
<1>1. Size \in Nat /\ \A k \in 1 .. Size : slots[k].at \in Coordinates
  BY EntryFacts DEF Size
<1> DEFINE R == 1 .. Size + 1
           F == [range \in R \X R |-> CHOOSE i : Lands(i, a, range[1], range[2])]
<1>2. \A first, last \in R : Lands(F[<<first, last>>], a, first, last)
  <2>1. \A first, last \in R : first \in Nat /\ last \in Nat
    BY <1>1
  <2>2. \A first, last \in R : F[<<first, last>>] = CHOOSE i : Lands(i, a, first, last)
    OBVIOUS
  <2>3. \A first, last \in R : \E i : Lands(i, a, first, last)
    <3> HIDE DEF F, R
    <3>1. ASSUME NEW first \in R, NEW last \in R
          PROVE  \E i : Lands(i, a, first, last)
      BY <2>1, LandsSomewhere
    <3> QED
      BY <3>1
  <2> HIDE DEF F, R
  <2>4. ASSUME NEW first \in R, NEW last \in R
        PROVE  Lands(F[<<first, last>>], a, first, last)
    <3>1. \E i : Lands(i, a, first, last)
      BY <2>3
    <3>2. Lands(CHOOSE i : Lands(i, a, first, last), a, first, last)
      BY <3>1, Zenon
    <3> QED
      BY <2>2, <3>2, Zenon
  <2> QED
    BY <2>4
<1>3. IsSearch(F, a)
  <2>1. ASSUME NEW first \in R, NEW last \in R
        PROVE  F[<<first, last>>] =
                 IF first >= last THEN first
                 ELSE LET middle == first + (last - first) \div 2 IN
                      IF Precedes(slots[middle].at, a) THEN F[<<middle + 1, last>>]
                      ELSE F[<<first, middle>>]
    <3>0. Lands(F[<<first, last>>], a, first, last)
      <4> HIDE DEF F
      <4> QED
        BY <1>2
    <3>1. Lands(F[<<first, last>>], a, first, last) /\ first \in Nat /\ last \in Nat
      <4>1. first \in Nat /\ last \in Nat
        BY <1>1
      <4> HIDE DEF F
      <4> QED
        BY <3>0, <4>1
    <3>2. CASE first >= last
      BY <3>1, <3>2 DEF Lands
    <3>3. CASE first < last
      <4>1. PICK middle \in first .. last - 1 : middle = first + (last - first) \div 2
        BY <3>1, <3>3, Halving
      <4>2. middle \in R /\ middle + 1 \in R
        BY <1>1, <3>1, <3>3, <4>1
      <4>3. Lands(F[<<middle + 1, last>>], a, middle + 1, last) /\ Lands(F[<<first, middle>>], a, first, middle)
        BY <1>2, <4>2
      <4> HIDE DEF F
      <4>4. CASE Before(a, middle)
        <5>1. Lands(F[<<middle + 1, last>>], a, first, last)
          BY <3>3, <4>3, <4>4, LandsInHalf
        <5>2. F[<<first, last>>] = F[<<middle + 1, last>>]
          BY <3>1, <5>1, LandsOnce
        <5> QED
          BY <3>1, <3>3, <4>1, <4>4, <5>2 DEF Before
      <4>5. CASE ~Before(a, middle)
        <5>1. Lands(F[<<first, middle>>], a, first, last)
          BY <3>3, <4>3, <4>5, LandsInHalf
        <5>2. F[<<first, last>>] = F[<<first, middle>>]
          BY <3>1, <5>1, LandsOnce
        <5> QED
          BY <3>1, <3>3, <4>1, <4>5, <5>2 DEF Before
      <4> QED
        BY <4>4, <4>5
    <3> QED
      BY <3>1, <3>2, <3>3
  <2>2. F = [range \in R \X R |-> F[range]]
    OBVIOUS
  <2>3. \A range \in R \X R : range = <<range[1], range[2]>> /\ range[1] \in R /\ range[2] \in R
    OBVIOUS
  <2>4. ASSUME NEW range \in R \X R
        PROVE  F[range] =
                 IF range[1] >= range[2] THEN range[1]
                 ELSE IF Precedes(slots[range[1] + (range[2] - range[1]) \div 2].at, a)
                      THEN F[<<range[1] + (range[2] - range[1]) \div 2 + 1, range[2]>>]
                      ELSE F[<<range[1], range[1] + (range[2] - range[1]) \div 2>>]
    <3>1. PICK first \in R, last \in R : range = <<first, last>> /\ range[1] = first /\ range[2] = last
      BY <2>3
    <3> HIDE DEF F
    <3> QED
      BY <2>1, <3>1
  <2> HIDE DEF F
  <2> QED
    BY <2>2, <2>4 DEF IsSearch
<1>4. PICK f : IsSearch(f, a) /\ Search(a) = f[<<1, Size + 1>>]
  <2>1. Search(a) = (CHOOSE f : IsSearch(f, a))[<<1, Size + 1>>]
    BY DEF Search, IsSearch
  <2> HIDE DEF F
  <2> QED
    BY <1>3, <2>1
<1>5. \A first, last \in R :
        f[<<first, last>>] =
          IF first >= last THEN first
          ELSE LET middle == first + (last - first) \div 2 IN
               IF Precedes(slots[middle].at, a) THEN f[<<middle + 1, last>>]
               ELSE f[<<first, middle>>]
  BY <1>4 DEF IsSearch
<1> HIDE DEF F
<1> DEFINE S == {n \in Nat : \A first, last \in R :
                   first <= last /\ last - first <= n => Lands(f[<<first, last>>], a, first, last)}
<1>6. 0 \in S
  <2>1. ASSUME NEW first \in R, NEW last \in R, first <= last, last - first <= 0
        PROVE  Lands(f[<<first, last>>], a, first, last)
    <3>1. first >= last
      BY <1>1, <2>1
    <3>2. f[<<first, last>>] = first
      BY <1>5, <3>1
    <3> QED
      BY <3>1, <3>2 DEF Lands
  <2> QED
    BY <2>1
<1>7. ASSUME NEW n \in Nat, n \in S
      PROVE  n + 1 \in S
  <2>1. ASSUME NEW first \in R, NEW last \in R, first <= last, last - first <= n + 1
        PROVE  Lands(f[<<first, last>>], a, first, last)
    <3>1. first \in Nat /\ last \in Nat
      BY <1>1
    <3>2. CASE first >= last
      <4>1. f[<<first, last>>] = first
        BY <1>5, <3>2
      <4> QED
        BY <3>2, <4>1 DEF Lands
    <3>3. CASE first < last
      <4>1. PICK middle \in first .. last - 1 : middle = first + (last - first) \div 2
        BY <3>1, <3>3, Halving
      <4>2. /\ middle \in R /\ middle + 1 \in R
            /\ first <= middle /\ middle - first <= n
            /\ middle + 1 <= last /\ last - (middle + 1) <= n
        BY <1>1, <2>1, <3>1, <3>3, <4>1
      <4>3. Lands(f[<<middle + 1, last>>], a, middle + 1, last) /\ Lands(f[<<first, middle>>], a, first, middle)
        BY <1>7, <4>2
      <4>4. f[<<first, last>>] = IF Before(a, middle) THEN f[<<middle + 1, last>>] ELSE f[<<first, middle>>]
        BY <1>5, <3>1, <3>3, <4>1 DEF Before
      <4>5. CASE Before(a, middle)
        <5>1. Lands(f[<<middle + 1, last>>], a, first, last)
          BY <3>3, <4>3, <4>5, LandsInHalf
        <5> QED
          BY <4>4, <4>5, <5>1
      <4>6. CASE ~Before(a, middle)
        <5>1. Lands(f[<<first, middle>>], a, first, last)
          BY <3>3, <4>3, <4>6, LandsInHalf
        <5> QED
          BY <4>4, <4>6, <5>1
      <4> QED
        BY <4>5, <4>6
    <3> QED
      BY <3>1, <3>2, <3>3
  <2> QED
    BY <2>1
<1>8. Nat \subseteq S
  <2> HIDE DEF S
  <2> QED
    BY <1>6, <1>7, NatInd
<1>9. PICK i : i = Search(a) /\ Lands(i, a, 1, Size + 1)
  <2>1. Size \in S /\ 1 \in R /\ Size + 1 \in R /\ 1 <= Size + 1 /\ (Size + 1) - 1 <= Size
    BY <1>1, <1>8
  <2>2. Lands(f[<<1, Size + 1>>], a, 1, Size + 1)
    BY <2>1
  <2> QED
    BY <1>4, <2>2
<1>10. /\ i \in 1 .. Size + 1
       /\ i = Size + 1 \/ ~Before(a, i)
       /\ \A k \in 1 .. i - 1 : Before(a, k)
  <2>1. CASE Size = 0
    <3>1. i = 1
      BY <1>9, <2>1 DEF Lands
    <3> QED
      BY <2>1, <3>1
  <2>2. CASE Size # 0
    <3>1. ~(1 >= Size + 1)
      BY <1>1, <2>2
    <3> QED
      BY <1>9, <3>1 DEF Lands
  <2> QED
    BY <2>1, <2>2
<1> QED
  BY <1>9, <1>10 DEF Before

-----------------------------------------------------------------------------
(* The theorems.                                                            *)

(* Every step of the builder preserves the invariant. *)
LEMMA NextIInv == IInv /\ [Next]_vars => IInv'
<1> SUFFICES ASSUME IInv, [Next]_vars PROVE IInv'
  OBVIOUS
<1>1. CASE \E a \in Coordinates, v \in Values : Add(a, v)
  BY <1>1, AddStep
<1>2. CASE \E d \in Duplicates, z \in Zeros : Finalize(d, z)
  BY <1>2, FinalizeStep
<1>3. CASE SortRound
  BY <1>3, SortStep
<1>4. CASE Sorted
  BY <1>4, SortedStep
<1>5. CASE CompactGroup
  BY <1>5, CompactStep
<1>6. CASE Publish
  BY <1>6, PublishStep
<1>7. CASE UNCHANGED vars
  BY <1>7 DEF vars, IInv, Typed, FailureKeepsEntries, SortInv, CompactInv, FinalInv, SameSums,
     Preflight, Rest, Canonical, WasAdded, Total, Size, Unwanted
<1> QED
  BY <1>1, <1>2, <1>3, <1>4, <1>5, <1>6, <1>7 DEF Next

(* The builder keeps its invariant, whatever the shape, the capacity and the *)
(* range of elements.                                                       *)
THEOREM Invariance == Spec => []IInv
<1>1. Init => IInv
  BY InitIInv
<1>2. IInv /\ [Next]_vars => IInv'
  BY NextIInv
<1> QED
  BY <1>1, <1>2, PTL DEF Spec

(* While the builder can be called, it holds the entries it accepted, in    *)
(* the order it accepted them: Add and Finalize fail without a trace.       *)
THEOREM FailuresKeepEntries == Spec => []FailureKeepsEntries
<1>1. IInv => FailureKeepsEntries
  BY DEF IInv
<1> QED
  BY <1>1, Invariance, PTL

(* Compact adds without checking, and no sum it forms overflows: the sort   *)
(* is stable, so each coordinate runs through the sums the preflight saw.   *)
THEOREM SumsChecked == Spec => []SumsWereChecked
<1>1. IInv => SumsWereChecked
  BY GroupTotal DEF SumsWereChecked
<1> QED
  BY <1>1, Invariance, PTL

(* Finalize returns an array in strictly increasing order, inside the shape, *)
(* with no zero that was to be dropped.                                     *)
THEOREM CanonicalArray == Spec => []ArrayIsCanonical
<1>1. IInv => ArrayIsCanonical
  <2> SUFFICES ASSUME IInv, stage = "finalized" PROVE ArrayIsCanonical
    BY DEF ArrayIsCanonical
  <2>1. /\ slots \in EntrySeq /\ Canonical(Size)
        /\ \A i \in 1 .. Len(slots) : InBounds(slots[i].at)
    BY DEF IInv, Typed, FinalInv
  <2>2. DOMAIN slots = 1 .. Size /\ Size = Len(slots)
    BY <2>1, EntryFacts DEF Size
  <2> QED
    BY <2>1, <2>2 DEF ArrayIsCanonical, Canonical
<1> QED
  BY <1>1, Invariance, PTL

(* What was not added sums to zero. *)
LEMMA NothingAdded ==
  ASSUME added \in EntrySeq, NEW a \in Coordinates, ~WasAdded(a)
  PROVE  Total(a) = 0
<1>1. Len(added) \in Nat /\ 1 \in 1 .. Len(added) + 1
  BY EntryFacts
<1>2. PICK lo \in 1 - 1 .. Len(added), hi \in 1 - 1 .. Len(added) :
        lo = 0 /\ hi = Len(added) /\ lo <= hi
  BY <1>1
<1>3. \A k \in lo + 1 .. hi : added[k].at # a
  BY <1>2 DEF WasAdded, Holds
<1>4. RunningSums(added, a, 1)[hi] = RunningSums(added, a, 1)[lo]
  BY <1>1, <1>2, <1>3, SumsStay
<1>5. RunningSums(added, a, 1)[1 - 1] = 0
  BY <1>1, SumsFacts
<1> QED
  BY <1>2, <1>4, <1>5 DEF Total

(* The binary search of Lookup finds at every coordinate of the shape the   *)
(* sum of what Add accepted there, and the array stores no other coordinate. *)
THEOREM FindsTheSum == Spec => []LookupFindsTheSum
<1>1. IInv => LookupFindsTheSum
  <2> SUFFICES ASSUME IInv, stage = "finalized", NEW a \in Coordinates
               PROVE  /\ Lookup(a) = Total(a)
                      /\ (\E i \in DOMAIN slots : slots[i].at = a) <=>
                           (\E i \in DOMAIN added : added[i].at = a) /\ ~Unwanted(Total(a))
    BY DEF LookupFindsTheSum
  <2>1. /\ slots \in EntrySeq /\ added \in EntrySeq
        /\ \A i, j \in 1 .. Size : i < j => Precedes(slots[i].at, slots[j].at)
        /\ \A i \in 1 .. Size : /\ WasAdded(slots[i].at)
                                /\ slots[i].value = Total(slots[i].at)
                                /\ ~Unwanted(slots[i].value)
        /\ \A b \in Coordinates : WasAdded(b) => Holds(slots, 1, Size, b) \/ Unwanted(Total(b))
    BY DEF IInv, Typed, FinalInv, Canonical
  <2>2. /\ DOMAIN slots = 1 .. Size /\ Size \in Nat /\ DOMAIN added = 1 .. Len(added)
        /\ \A k \in 1 .. Size : slots[k].at \in Coordinates
    BY <2>1, EntryFacts DEF Size
  <2>3. (\E i \in DOMAIN slots : slots[i].at = a) <=>
          (\E i \in DOMAIN added : added[i].at = a) /\ ~Unwanted(Total(a))
    BY <2>1, <2>2 DEF WasAdded, Holds
  <2>4. PICK i : /\ i = Search(a) /\ i \in 1 .. Size + 1
                 /\ i = Size + 1 \/ ~Precedes(slots[i].at, a)
                 /\ \A k \in 1 .. i - 1 : Precedes(slots[k].at, a)
    BY <2>1, SearchFinds
  <2>5. CASE i <= Size /\ slots[i].at = a
    <3>1. i \in 1 .. Size /\ Lookup(a) = slots[i].value
      BY <2>2, <2>4, <2>5 DEF Lookup
    <3> QED
      BY <2>1, <2>3, <2>5, <3>1
  <2>6. CASE ~(i <= Size /\ slots[i].at = a)
    <3>1. Lookup(a) = 0
      BY <2>4, <2>6 DEF Lookup
    <3>2. ASSUME NEW k \in 1 .. Size, slots[k].at = a
          PROVE  FALSE
      <4>1. CASE k < i
        <5>1. k \in 1 .. i - 1
          BY <2>2, <2>4, <4>1
        <5> QED
          BY <2>4, <3>2, <5>1, PrecedesIrreflexive
      <4>2. CASE k = i
        BY <2>2, <2>6, <3>2, <4>2
      <4>3. CASE i < k
        <5>1. i \in 1 .. Size /\ ~Precedes(slots[i].at, a)
          BY <2>2, <2>4, <4>3
        <5> QED
          BY <2>1, <3>2, <4>3, <5>1
      <4> QED
        BY <2>2, <2>4, <4>1, <4>2, <4>3
    <3>3. ~Holds(slots, 1, Size, a)
      BY <3>2 DEF Holds
    <3>4. CASE WasAdded(a)
      <4>1. Unwanted(Total(a))
        BY <2>1, <3>3, <3>4
      <4> QED
        BY <2>3, <3>1, <4>1 DEF Unwanted
    <3>5. CASE ~WasAdded(a)
      BY <2>1, <2>3, <3>1, <3>5, NothingAdded
    <3> QED
      BY <3>4, <3>5
  <2> QED
    BY <2>3, <2>5, <2>6
<1> QED
  BY <1>1, Invariance, PTL

===============================================================================

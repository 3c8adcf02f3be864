------------------------- MODULE QuasiRandomProofs -------------------------
(***************************************************************************)
(* Proofs about QuasiRandom, for every width of a word and every size.     *)
(*                                                                         *)
(* Points: what a sequence gave lies behind its index.  Integers: the      *)
(* words from the threshold on are a multiple of the range, so each        *)
(* residue has as many of them.  Shuffles: no iteration moves what an      *)
(* earlier one has put, so an order shows the selections that made it, and *)
(* every order can be made.                                                *)
(***************************************************************************)
EXTENDS QuasiRandom, FiniteSetTheorems, FunctionTheorems, WellFoundedInduction, TLAPS

-----------------------------------------------------------------------------
(* Words. *)

(* A word has an even number of values.                                     *)
LEMMA ModulusFacts ==
  \E half \in Nat : half > 0 /\ Modulus = 2 * half
<1> DEFINE A == SUBSET (1 .. Width - 1)
           B == {T \in SUBSET (1 .. Width) : Width \in T}
           f == [T \in A |-> T \cup {Width}]
<1>1. Width \in Nat /\ Width > 0
  BY PositionsAssumption
<1>2. IsFiniteSet(1 .. Width) /\ Cardinality(1 .. Width) = Width /\ IsFiniteSet(1 .. Width - 1)
  BY <1>1, FS_Interval
<1>3. IsFiniteSet(SUBSET (1 .. Width)) /\ Cardinality(SUBSET (1 .. Width)) = Modulus
  BY <1>2, FS_SUBSET DEF Modulus
<1>4. IsFiniteSet(A)
  BY <1>2, FS_SUBSET
<1>5. Width \notin 1 .. Width - 1 /\ 1 .. Width = (1 .. Width - 1) \cup {Width}
  BY <1>1
<1>6. ExistsBijection(A, B)
  <2>1. f \in [A -> B]
    BY <1>5
  <2>2. ASSUME NEW S \in A, NEW T \in A, f[S] = f[T]
        PROVE  S = T
    BY <1>5, <2>2
  <2>3. ASSUME NEW T \in B
        PROVE  \E S \in A : f[S] = T
    <3>1. T \ {Width} \in A /\ (T \ {Width}) \cup {Width} = T
      BY <1>5
    <3> QED
      BY <3>1
  <2> HIDE DEF A, B, f
  <2>4. f \in Bijection(A, B)
    BY <2>1, <2>2, <2>3, Fun_IsBij
  <2> QED
    BY <2>4 DEF ExistsBijection
<1>7. SUBSET (1 .. Width) = A \cup B /\ A \cap B = {}
  BY <1>5
<1>8. {} \in A
  OBVIOUS
<1> HIDE DEF A, B, f
<1>9. IsFiniteSet(B) /\ Cardinality(B) = Cardinality(A)
  BY <1>4, <1>6, FS_Bijection
<1>10. Cardinality(A) \in Nat /\ Cardinality(A) # 0
  BY <1>4, <1>8, FS_CardinalityType, FS_EmptySet
<1>11. Cardinality(A \cup B) = Cardinality(A) + Cardinality(B) - 0
  BY <1>4, <1>7, <1>9, FS_Union, FS_EmptySet
<1>12. PICK half \in Nat : half = Cardinality(A)
  BY <1>10
<1>13. Cardinality(SUBSET (1 .. Width)) = half + half - 0
  BY <1>7, <1>9, <1>11, <1>12, Zenon
<1>14. Modulus = 2 * half /\ half > 0
  BY <1>3, <1>10, <1>12, <1>13
<1> QED
  BY <1>14

-----------------------------------------------------------------------------
(* SobolSequence. *)

SobolSequences ==
  [dimensions : Nat, index : Indices, exhausted : BOOLEAN,
   status : {"kOk", "kShape", "kEndOfFile", "kOverflow"}]

(* What a sequence gave lies behind its index, and the last index is the   *)
(* only one where it may have given the index it stands at.                *)
Behind ==
  \A i \in Indices :
    /\ taken[i] <= 1
    /\ taken[i] = 1 =>
         /\ sequence # None
         /\ i < sequence.index \/ (sequence.exhausted /\ i <= sequence.index)

ExhaustedAtTheEnd ==
  sequence # None /\ sequence.exhausted =>
    sequence.index = MaxIndex /\ taken[MaxIndex] = 1

TypeOK ==
  /\ sequence \in SobolSequences \cup {None}
  /\ taken \in [Indices -> Nat]

IInv == TypeOK /\ Behind /\ ExhaustedAtTheEnd

LEMMA Bounds == MaxIndex \in Nat /\ 0 \in Indices /\ MaxIndex \in Indices
<1>1. PICK half \in Nat : half > 0 /\ Modulus = 2 * half
  BY ModulusFacts
<1>2. MaxIndex = 2 * half - 1
  BY <1>1 DEF Modulus, MaxIndex
<1> QED
  BY <1>1, <1>2 DEF Indices

LEMMA NoneIsNoSequence == None \notin SobolSequences
  BY DEF None, SobolSequences

LEMMA InitIInv == Init => IInv
  BY Bounds, NoneIsNoSequence DEF Init, IInv, TypeOK, Behind, ExhaustedAtTheEnd

(* The fields of the record that a call leaves behind *)
LEMMA PositionStep ==
  ASSUME NEW dimensions \in Nat, NEW index \in Positions, Position(dimensions, index)
  PROVE  IInv'
<1>1. index \in Indices
  BY PositionsAssumption
<1>2. sequence' \in SobolSequences /\ sequence'.exhausted = FALSE
  BY <1>1 DEF Position, SobolSequences
<1>3. taken' = [i \in Indices |-> 0]
  BY DEF Position
<1> QED
  BY <1>2, <1>3 DEF IInv, TypeOK, Behind, ExhaustedAtTheEnd

LEMMA EndsStep ==
  ASSUME IInv, sequence # None,
         NEW status \in {"kOk", "kShape", "kEndOfFile", "kOverflow"}, Ends(status)
  PROVE  IInv'
<1>1. sequence \in SobolSequences /\ taken' = taken
  BY DEF IInv, TypeOK, Ends
<1>2. /\ sequence' \in SobolSequences
      /\ sequence'.index = sequence.index
      /\ sequence'.exhausted = sequence.exhausted
  BY <1>1 DEF Ends, SobolSequences
<1>3. sequence' # None
  BY <1>2, NoneIsNoSequence
<1> QED
  BY <1>1, <1>2, <1>3 DEF IInv, TypeOK, Behind, ExhaustedAtTheEnd

(* A point is given at the index, which then lies behind, or is the last. *)
LEMMA GiveStep ==
  ASSUME IInv, sequence # None, ~sequence.exhausted,
         sequence' = [AfterPoint(sequence) EXCEPT !.status = "kOk"],
         taken' = [taken EXCEPT ![sequence.index] = @ + 1]
  PROVE  IInv'
<1>1. sequence \in SobolSequences /\ sequence.index \in Indices /\ taken \in [Indices -> Nat]
  BY DEF IInv, TypeOK, SobolSequences
<1>2. taken[sequence.index] = 0
  BY <1>1, Bounds DEF IInv, Behind, Indices
<1>3. /\ taken' \in [Indices -> Nat]
      /\ \A i \in Indices : taken'[i] = IF i = sequence.index THEN 1 ELSE taken[i]
  BY <1>1, <1>2
<1>4. CASE sequence.index = MaxIndex
  <2>1. /\ sequence' \in SobolSequences
        /\ sequence'.index = MaxIndex
        /\ sequence'.exhausted = TRUE
    BY <1>1, <1>4 DEF AfterPoint, SobolSequences
  <2> QED
    BY <1>1, <1>3, <1>4, <2>1, Bounds, NoneIsNoSequence
    DEF IInv, TypeOK, Behind, ExhaustedAtTheEnd, Indices
<1>5. CASE sequence.index # MaxIndex
  <2>1. sequence.index + 1 \in Indices
    BY <1>1, <1>5, Bounds DEF Indices
  <2>2. /\ sequence' \in SobolSequences
        /\ sequence'.index = sequence.index + 1
        /\ sequence'.exhausted = FALSE
    BY <1>1, <1>5, <2>1 DEF AfterPoint, SobolSequences
  <2>3. TypeOK' /\ ExhaustedAtTheEnd'
    BY <1>3, <2>2 DEF TypeOK, ExhaustedAtTheEnd
  <2>4. sequence' # None
    BY <2>2, NoneIsNoSequence
  <2>5. ASSUME NEW i \in Indices
        PROVE  taken'[i] <= 1 /\ (taken'[i] = 1 => i < sequence'.index)
    <3>1. i \in Nat /\ sequence.index \in Nat /\ taken[i] \in Nat
      BY <1>1, Bounds DEF Indices
    <3>2. taken[i] <= 1 /\ (taken[i] = 1 => i < sequence.index)
      BY <2>2 DEF IInv, Behind
    <3> QED
      BY <1>3, <2>2, <3>1, <3>2
  <2>6. Behind'
    BY <2>4, <2>5 DEF Behind
  <2> QED
    BY <2>3, <2>6 DEF IInv
<1> QED
  BY <1>4, <1>5

LEMMA SkipStep ==
  ASSUME IInv, sequence # None, ~sequence.exhausted,
         NEW count \in Counts, count <= MaxIndex - sequence.index,
         sequence' = [sequence EXCEPT !.index = @ + count, !.status = "kOk"],
         taken' = taken
  PROVE  IInv'
<1>1. sequence \in SobolSequences /\ sequence.index \in Indices /\ count \in Nat
  BY PositionsAssumption DEF IInv, TypeOK, SobolSequences
<1>2. sequence.index + count \in Indices
  BY <1>1, Bounds DEF Indices
<1>3. /\ sequence' \in SobolSequences
      /\ sequence'.index = sequence.index + count
      /\ sequence'.exhausted = FALSE
  BY <1>1, <1>2 DEF SobolSequences
<1>4. TypeOK' /\ ExhaustedAtTheEnd' /\ sequence' # None
  BY <1>3, NoneIsNoSequence DEF IInv, TypeOK, ExhaustedAtTheEnd
<1>5. ASSUME NEW i \in Indices
      PROVE  taken'[i] <= 1 /\ (taken'[i] = 1 => i < sequence'.index)
  <2>1. i \in Nat /\ sequence.index \in Nat
    BY <1>1, Bounds DEF Indices
  <2> QED
    BY <1>1, <1>3, <2>1 DEF IInv, Behind
<1>6. Behind'
  BY <1>4, <1>5 DEF Behind
<1> QED
  BY <1>4, <1>6 DEF IInv

LEMMA NextIInv == IInv /\ [Next]_vars => IInv'
<1> SUFFICES ASSUME IInv, [Next]_vars PROVE IInv'
  OBVIOUS
<1>1. ASSUME UNCHANGED <<sequence, taken>> PROVE IInv'
  BY <1>1 DEF IInv, TypeOK, Behind, ExhaustedAtTheEnd
<1>2. CASE Begin
  <2>1. CASE Create
    <3>1. PICK dimensions \in 0 .. Len(DirectionRows) + 2, index \in Positions :
            IF dimensions > Len(DirectionRows) + 1
            THEN Answer(Refused("sequence", "kShape"))
            ELSE Position(dimensions, index) /\ UNCHANGED call
      BY <2>1 DEF Create
    <3> QED
      BY <1>1, <3>1, PositionStep DEF Answer
  <2>2. CASE ~Create
    BY <1>1, <1>2, <2>2
    DEF Begin, CallSobol, CallHalton, CallScrambledHalton, CallHammersley,
        CallLatinHypercube, CallUniformInteger, CallShuffle, Answer
  <2> QED
    BY <2>1, <2>2
<1>3. CASE Reset
  <2>1. sequence.dimensions \in Nat
    BY <1>3 DEF Reset, IInv, TypeOK, SobolSequences
  <2> QED
    BY <1>3, <2>1, PositionStep DEF Reset
<1>4. CASE NextPoint
  <2>1. PICK size \in 0 .. 2 :
          IF size # sequence.dimensions THEN Ends("kShape")
          ELSE IF size = 0 THEN Ends("kOk")
          ELSE IF sequence.exhausted THEN Ends("kEndOfFile")
          ELSE /\ sequence' = [AfterPoint(sequence) EXCEPT !.status = "kOk"]
               /\ taken' = [taken EXCEPT ![sequence.index] = @ + 1]
    BY <1>4 DEF NextPoint
  <2> QED
    BY <1>4, <2>1, EndsStep, GiveStep DEF NextPoint
<1>5. CASE Skip
  <2>1. PICK count \in Counts :
          IF sequence.exhausted THEN Ends("kEndOfFile")
          ELSE IF count > MaxIndex - sequence.index THEN Ends("kOverflow")
          ELSE /\ sequence' = [sequence EXCEPT !.index = @ + count, !.status = "kOk"]
               /\ UNCHANGED taken
    BY <1>5 DEF Skip
  <2>2. count \in Nat /\ sequence.index \in Indices
    BY <1>5, PositionsAssumption DEF Skip, IInv, TypeOK, SobolSequences
  <2>3. count > MaxIndex - sequence.index \/ count <= MaxIndex - sequence.index
    BY <2>2, Bounds DEF Indices
  <2> QED
    BY <1>5, <2>1, <2>3, EndsStep, SkipStep DEF Skip
<1>6. CASE Drop
  <2>1. sequence' = None /\ taken' = [i \in Indices |-> 0]
    BY <1>6 DEF Drop
  <2> QED
    BY <2>1 DEF IInv, TypeOK, Behind, ExhaustedAtTheEnd
<1>7. CASE UNCHANGED vars
  BY <1>1, <1>7 DEF vars
<1> QED
  BY <1>2, <1>3, <1>4, <1>5, <1>6, <1>7 DEF Next

(* A sequence gives no index twice after it was positioned: the index that *)
(* NextPoint() gives lies behind it afterwards, or it is exhausted.        *)
THEOREM PointsOnce == Spec => []PointsComeOnce
<1>1. IInv => PointsComeOnce
  BY Bounds DEF IInv, TypeOK, Behind, ExhaustedAtTheEnd, PointsComeOnce
<1>2. QED
  BY <1>1, InitIInv, NextIInv, PTL DEF Spec

-----------------------------------------------------------------------------
(* Unsigned arithmetic. *)

LEMMA ModSmall ==
  ASSUME NEW m \in Nat, NEW x \in Int, 0 <= x, x < m
  PROVE  x % m = x
OBVIOUS

LEMMA ModBelow ==
  ASSUME NEW m \in Nat, NEW x \in Int, -m <= x, x < 0
  PROVE  x % m = x + m
OBVIOUS

LEMMA ModSelf ==
  ASSUME NEW m \in Nat, m > 0
  PROVE  m % m = 0
OBVIOUS

LEMMA DivFacts ==
  ASSUME NEW m \in Nat, m > 0, NEW x \in Int
  PROVE  /\ x \div m \in Int /\ x % m \in 0 .. m - 1
         /\ x = m * (x \div m) + (x % m)
OBVIOUS

(* Division by m has one quotient and one remainder.                        *)
LEMMA Unique ==
  ASSUME NEW m \in Nat, m > 0, NEW q \in Int, NEW r \in 0 .. m - 1
  PROVE  /\ (m * q + r) % m = r
         /\ (m * q + r) \div m = q
<1>1. PICK x \in Int : x = m * q + r
  OBVIOUS
<1>2. PICK d \in Int, e \in 0 .. m - 1 : d = x \div m /\ e = x % m /\ x = m * d + e
  BY DivFacts
<1>3. m * (q - d) = m * q - m * d
  OBVIOUS
<1>4. PICK k \in Int : k = q - d
  OBVIOUS
<1>5. PICK p \in Int : p = m * k
  OBVIOUS
<1>6. p = e - r
  <2>1. PICK y \in Int, z \in Int : y = m * q /\ z = m * d
    OBVIOUS
  <2>2. p = y - z /\ x = y + r /\ x = z + e
    BY <1>1, <1>2, <1>3, <1>4, <1>5, <2>1
  <2> QED
    BY <2>2
<1>7. p < m /\ -m < p
  BY <1>6
<1>8. k = 0
  <2>1. CASE k >= 1
    BY <1>5, <1>7, <2>1
  <2>2. CASE k <= -1
    BY <1>5, <1>7, <2>2
  <2> QED
    BY <2>1, <2>2
<1>9. p = 0
  BY <1>5, <1>8
<1> QED
  BY <1>1, <1>2, <1>4, <1>6, <1>8, <1>9

-----------------------------------------------------------------------------
(* The integers of a range. *)

(* The words of a signed or of an unsigned integer are those of a range.    *)
Least(signed) == IF signed THEN 0 - Modulus \div 2 ELSE 0
Representable(signed) == Least(signed) .. Least(signed) + Modulus - 1

LEMMA HalfFacts ==
  ASSUME NEW half \in Nat, Modulus = 2 * half
  PROVE  Modulus \div 2 = half /\ Modulus \in Nat
OBVIOUS

(* AddOffset() adds the offset to the lower bound.                          *)
LEMMA OffsetIsAdded ==
  ASSUME NEW signed \in BOOLEAN, NEW lower \in Representable(signed), NEW offset \in Nat,
         lower + offset \in Representable(signed)
  PROVE  AddOffset(signed, lower, offset) = lower + offset
<1>1. PICK half \in Nat : half > 0 /\ Modulus = 2 * half
  BY ModulusFacts
<1>2. Modulus \div 2 = half /\ Modulus \in Nat
  BY <1>1, HalfFacts
<1>3. CASE ~signed
  <2>1. lower \in Int /\ 0 <= lower /\ lower + offset < Modulus
    BY <1>2, <1>3 DEF Representable, Least
  <2>2. Unsigned(lower + offset) = lower + offset
    BY <1>2, <2>1, ModSmall DEF Unsigned
  <2> QED
    BY <1>3, <2>2 DEF AddOffset
<1>4. CASE signed /\ lower >= 0
  <2>1. lower \in Int /\ 0 <= lower /\ lower + offset < half /\ half < Modulus
    BY <1>1, <1>2, <1>4 DEF Representable, Least
  <2>2. Unsigned(lower + offset) = lower + offset
    BY <1>2, <2>1, ModSmall DEF Unsigned
  <2>3. Signed(lower + offset) = lower + offset
    BY <1>2, <2>1 DEF Signed
  <2> QED
    BY <1>4, <2>1, <2>2, <2>3 DEF AddOffset
<1>5. CASE signed /\ lower < 0
  <2>1. /\ lower \in Int /\ 0 - half <= lower /\ lower < 0 /\ lower + offset < half
        /\ half < Modulus
    BY <1>1, <1>2, <1>5 DEF Representable, Least
  <2>2. PICK negative \in Int : negative = 0 - lower
    BY <2>1
  <2>3. Unsigned(0 - Unsigned(lower)) = negative
    <3>1. Unsigned(lower) = lower + Modulus
      BY <1>1, <1>2, <2>1, ModBelow DEF Unsigned
    <3>2. PICK x \in Int : x = 0 - (lower + Modulus)
      BY <1>2, <2>1
    <3>3. -Modulus <= x /\ x < 0 /\ x + Modulus = negative
      BY <1>1, <1>2, <2>1, <2>2, <3>2
    <3>4. x % Modulus = x + Modulus
      BY <1>2, <3>3, ModBelow
    <3> QED
      BY <3>1, <3>2, <3>3, <3>4 DEF Unsigned
  <2>4. AddOffset(signed, lower, offset) =
          IF offset < negative
          THEN IF negative - offset = half THEN 0 - half ELSE 0 - Signed(negative - offset)
          ELSE Signed(offset - negative)
    <3>1. ~(lower >= 0)
      BY <2>1
    <3> QED
      BY <1>2, <1>5, <2>3, <3>1 DEF AddOffset
  <2>5. CASE offset < negative /\ negative - offset # half
    <3>1. Signed(negative - offset) = negative - offset
      BY <1>1, <1>2, <2>1, <2>2, <2>5 DEF Signed
    <3> QED
      BY <2>1, <2>2, <2>4, <2>5, <3>1
  <2>6. CASE offset < negative /\ negative - offset = half
    BY <1>1, <2>1, <2>2, <2>4, <2>6
  <2>7. CASE ~(offset < negative)
    <3>1. Signed(offset - negative) = offset - negative
      BY <1>1, <1>2, <2>1, <2>2, <2>7 DEF Signed
    <3> QED
      BY <2>1, <2>2, <2>4, <2>7, <3>1
  <2> QED
    BY <2>5, <2>6, <2>7
<1>6. lower \in Int
  BY <1>2 DEF Representable, Least
<1> QED
  BY <1>3, <1>4, <1>5, <1>6

(* The size of a range, unless it is that of all words.                     *)
LEMMA RangeOf ==
  ASSUME NEW signed \in BOOLEAN, NEW lower \in Representable(signed), NEW upper \in Representable(signed),
         lower <= upper
  PROVE  Unsigned(Unsigned(upper) - Unsigned(lower) + 1) =
           IF upper - lower + 1 = Modulus THEN 0 ELSE upper - lower + 1
<1>1. PICK half \in Nat : half > 0 /\ Modulus = 2 * half
  BY ModulusFacts
<1>2. Modulus \div 2 = half /\ Modulus \in Nat
  BY <1>1, HalfFacts
<1>3. /\ lower \in Int /\ upper \in Int /\ upper - lower + 1 <= Modulus
      /\ -Modulus <= lower /\ upper < Modulus
  BY <1>1, <1>2 DEF Representable, Least
<1>4. \A x \in Int : -Modulus <= x /\ x < Modulus =>
        Unsigned(x) = IF x < 0 THEN x + Modulus ELSE x
  BY <1>2, ModSmall, ModBelow DEF Unsigned
<1>5. PICK n \in Nat : n = upper - lower + 1 /\ n > 0 /\ n <= Modulus
  BY <1>3
<1>6. PICK x \in Int : x = Unsigned(upper) - Unsigned(lower) + 1
                       /\ (x = n \/ x = n - Modulus)
  BY <1>2, <1>3, <1>4, <1>5
<1>7. CASE n = Modulus
  <2>1. Unsigned(0) = 0 /\ Unsigned(Modulus) = 0
    BY <1>2, <1>5, ModSelf, ModSmall, <1>7 DEF Unsigned
  <2> QED
    BY <1>2, <1>5, <1>6, <1>7, <2>1
<1>8. CASE n < Modulus
  <2>1. Unsigned(x) = n
    BY <1>2, <1>4, <1>5, <1>6, <1>8
  <2> QED
    BY <1>5, <1>6, <1>8, <2>1
<1> QED
  BY <1>2, <1>5, <1>7, <1>8

(* The words of begin..end-1 that leave the residue r.                      *)
Residue(begin, end, n, r) == {c \in begin .. end - 1 : c % n = r}

(* A stretch of q times n words has each residue q times.                   *)
LEMMA ResiduesEqual ==
  ASSUME NEW n \in Nat, NEW q \in Nat, NEW begin \in 0 .. n - 1, NEW r \in 0 .. n - 1,
         NEW end \in Nat, end = begin + n * q
  PROVE  /\ IsFiniteSet(Residue(begin, end, n, r))
         /\ Cardinality(Residue(begin, end, n, r)) = q
<1>1. n > 0
  OBVIOUS
<1>2. PICK s \in {0, 1} : s = IF r < begin THEN 1 ELSE 0
  OBVIOUS
<1> DEFINE I == s .. s + q - 1
           f == [i \in I |-> n * i + r]
<1>3. ASSUME NEW i \in I
      PROVE  n * i + r \in Residue(begin, end, n, r)
  <2>1. PICK x \in Int : x = n * i
    OBVIOUS
  <2>2. PICK y \in Int : y = n * q
    OBVIOUS
  <2>3. x % n = 0 /\ (x + r) % n = r
    BY <1>1, <2>1, Unique
  <2>4. i >= s /\ i <= s + q - 1 /\ i \in Int
    OBVIOUS
  <2>5. CASE s = 0
    <3>1. x >= 0
      BY <2>1, <2>4, <2>5
    <3>2. PICK k \in Nat : q - 1 - i = k
      BY <2>4, <2>5
    <3>3. n * k >= 0 /\ n * k \in Int /\ n * (q - 1 - i) = n * q - n - n * i
      OBVIOUS
    <3>4. x <= y - n
      BY <2>1, <2>2, <3>2, <3>3
    <3> QED
      BY <1>2, <2>2, <2>3, <2>5, <3>1, <3>4 DEF Residue
  <2>6. CASE s = 1
    <3>1. x >= n
      BY <2>1, <2>4, <2>6
    <3>2. PICK k \in Nat : q - i = k
      BY <2>4, <2>6
    <3>3. n * k >= 0 /\ n * k \in Int /\ n * (q - i) = n * q - n * i
      OBVIOUS
    <3>4. x <= y
      BY <2>1, <2>2, <3>2, <3>3
    <3>5. r < begin
      BY <1>2, <2>6
    <3>6. x + r \in begin .. end - 1
      BY <2>2, <3>1, <3>4, <3>5
    <3> QED
      BY <2>1, <2>3, <3>6 DEF Residue
  <2> QED
    BY <2>5, <2>6
<1>4. ASSUME NEW i \in I, NEW j \in I, f[i] = f[j]
      PROVE  i = j
  <2>1. (n * i + r) \div n = i /\ (n * j + r) \div n = j
    BY <1>1, Unique
  <2> QED
    BY <1>4, <2>1
<1>5. ASSUME NEW c \in Residue(begin, end, n, r)
      PROVE  \E i \in I : f[i] = c
  <2>1. c \in Int /\ begin <= c /\ c < end /\ c % n = r
    BY DEF Residue
  <2>2. PICK i \in Int : c = n * i + r
    BY <1>1, <2>1, DivFacts
  <2>3. PICK x \in Int, y \in Int : x = n * i /\ y = n * q
    OBVIOUS
  <2>4. x + r >= begin /\ x + r < begin + y /\ c = x + r
    BY <2>1, <2>2, <2>3
  <2>5. i >= s
    <3>1. CASE s = 0
      <4>1. ASSUME i < 0 PROVE FALSE
        <5>1. x <= -n
          BY <2>3, <4>1
        <5> QED
          BY <2>4, <5>1
      <4> QED
        BY <3>1, <4>1
    <3>2. CASE s = 1
      <4>1. ASSUME i < 1 PROVE FALSE
        <5>1. x <= 0
          BY <2>3, <4>1
        <5>2. r < begin
          BY <1>2, <3>2
        <5> QED
          BY <2>4, <5>1, <5>2
      <4> QED
        BY <3>2, <4>1
    <3> QED
      BY <3>1, <3>2
  <2>6. i <= s + q - 1
    <3>1. ASSUME i > s + q - 1 PROVE FALSE
      <4>1. PICK k \in Nat : k = i - (s + q)
        BY <3>1
      <4>2. n * k >= 0 /\ n * k \in Int /\ n * (i - (s + q)) = n * i - n * s - n * q
        OBVIOUS
      <4>3. x >= n * s + y
        BY <2>3, <4>1, <4>2
      <4>4. CASE s = 0
        <5>1. ~(r < begin)
          BY <1>2, <4>4
        <5> QED
          BY <2>4, <4>3, <4>4, <5>1
      <4>5. CASE s = 1
        BY <2>4, <4>3, <4>5
      <4> QED
        BY <4>4, <4>5
    <3> QED
      BY <3>1
  <2> QED
    BY <2>2, <2>5, <2>6
<1>6. f \in [I -> Residue(begin, end, n, r)]
  BY <1>3
<1>7. IsFiniteSet(I) /\ Cardinality(I) = q
  BY FS_Interval
<1> HIDE DEF I, f
<1>8. f \in Bijection(I, Residue(begin, end, n, r))
  BY <1>4, <1>5, <1>6, Fun_IsBij
<1> QED
  BY <1>7, <1>8, FS_Bijection DEF ExistsBijection

(* The draws that give v.                                                   *)
Draws(outcome, v) == {x \in DOMAIN outcome : outcome[x] = v}

Uniform(outcome, values) ==
  /\ Range(outcome) = values
  /\ \A v, w \in values : Cardinality(Draws(outcome, v)) = Cardinality(Draws(outcome, w))

LEMMA StretchIsUniform ==
  ASSUME NEW n \in Nat, NEW q \in Nat, q > 0, NEW begin \in 0 .. n - 1,
         NEW end \in Nat, end = begin + n * q, NEW lower \in Int,
         NEW outcome, DOMAIN outcome = begin .. end - 1,
         \A c \in begin .. end - 1 : outcome[c] = lower + (c % n)
  PROVE  Uniform(outcome, lower .. lower + n - 1)
<1>1. n > 0
  OBVIOUS
<1>2. \A c \in begin .. end - 1 : c \in Int /\ c % n \in 0 .. n - 1
  BY <1>1, DivFacts
<1>3. ASSUME NEW v \in lower .. lower + n - 1
      PROVE  Cardinality(Draws(outcome, v)) = q /\ \E c \in DOMAIN outcome : outcome[c] = v
  <2>1. PICK r \in 0 .. n - 1 : r = v - lower
    OBVIOUS
  <2>2. ASSUME NEW c \in begin .. end - 1
        PROVE  outcome[c] = v <=> c % n = r
    <3>1. PICK s \in 0 .. n - 1 : s = c % n
      BY <1>2
    <3>2. outcome[c] = lower + s
      BY <3>1
    <3>3. lower + s = v <=> s = r
      BY <2>1
    <3> QED
      BY <3>1, <3>2, <3>3, Zenon
  <2>3. Draws(outcome, v) = Residue(begin, end, n, r)
    BY <2>2 DEF Draws, Residue
  <2>4. /\ IsFiniteSet(Residue(begin, end, n, r))
        /\ Cardinality(Residue(begin, end, n, r)) = q
    BY ResiduesEqual
  <2>5. Residue(begin, end, n, r) # {}
    BY <2>4, FS_EmptySet
  <2>6. PICK c \in Residue(begin, end, n, r) : TRUE
    BY <2>5
  <2>7. c \in Draws(outcome, v)
    BY <2>3, <2>6, Zenon
  <2>8. c \in DOMAIN outcome /\ outcome[c] = v
    BY <2>7 DEF Draws
  <2> QED
    BY <2>3, <2>4, <2>8
<1>4. ASSUME NEW c \in DOMAIN outcome
      PROVE  outcome[c] \in lower .. lower + n - 1
  <2>1. PICK r \in 0 .. n - 1 : r = c % n
    BY <1>2
  <2>2. outcome[c] = lower + r
    BY <2>1
  <2> QED
    BY <2>2
<1>5. Range(outcome) = lower .. lower + n - 1
  BY <1>3, <1>4 DEF Range
<1> QED
  BY <1>3, <1>5 DEF Uniform

(* A distribution, whatever its bounds.                                     *)
LEMMA IntegerIsUniform ==
  ASSUME NEW signed \in BOOLEAN, NEW lower \in Representable(signed), NEW upper \in Representable(signed),
         lower <= upper
  PROVE  Uniform(UniformInteger(signed, lower, upper), lower .. upper)
<1>1. PICK m \in Nat : m = Modulus /\ m > 0
  BY ModulusFacts
<1>0. Modulus \div 2 \in Int
  BY ModulusFacts
<1>2. lower \in Int /\ upper \in Int /\ upper - lower + 1 <= m
  BY <1>0, <1>1 DEF Representable, Least
<1>3. PICK n \in Nat : n = upper - lower + 1 /\ n > 0 /\ n <= m
  BY <1>2
<1>4. lower .. upper = lower .. lower + n - 1
  BY <1>2, <1>3
<1>5. PICK outcome : outcome = UniformInteger(signed, lower, upper)
  OBVIOUS
<1>6. ASSUME NEW offset \in 0 .. n - 1
      PROVE  AddOffset(signed, lower, offset) = lower + offset
  <2>1. lower + offset \in Representable(signed)
    BY <1>0, <1>1, <1>2, <1>3 DEF Representable, Least
  <2> QED
    BY <2>1, OffsetIsAdded
<1>7. PICK range : range = Unsigned(Unsigned(upper) - Unsigned(lower) + 1)
                   /\ range = IF n = m THEN 0 ELSE n
  BY <1>1, <1>3, RangeOf
<1>8. CASE n = m
  <2>1. outcome = [candidate \in 0 .. m - 1 |-> AddOffset(signed, lower, candidate)]
    BY <1>1, <1>5, <1>7, <1>8 DEF UniformInteger
  <2>2. \A c \in 0 .. m - 1 : outcome[c] = lower + (c % n)
    BY <1>6, <1>8, <2>1, ModSmall
  <2>3. PICK one \in Nat : one = 1
    OBVIOUS
  <2>4. m = 0 + n * one /\ 0 \in 0 .. n - 1
    BY <1>3, <1>8, <2>3
  <2>5. DOMAIN outcome = 0 .. m - 1 /\ one > 0
    BY <2>1, <2>3
  <2>6. Uniform(outcome, lower .. lower + n - 1)
    BY <1>2, <2>2, <2>4, <2>5, StretchIsUniform
  <2> QED
    BY <1>4, <1>5, <2>6
<1>9. CASE n # m
  <2>1. range = n /\ range # 0
    BY <1>3, <1>7, <1>9
  <2>2. PICK t : t = Threshold(n)
    OBVIOUS
  <2>3. outcome = [candidate \in t .. m - 1 |-> AddOffset(signed, lower, candidate % n)]
    BY <1>1, <1>5, <1>7, <2>1, <2>2 DEF UniformInteger
  <2>4. PICK rest \in Int : rest = m - n
    OBVIOUS
  <2>5. t = rest % n
    <3>1. m - 1 - n + 1 = rest
      BY <2>4
    <3> QED
      BY <1>1, <2>2, <3>1 DEF Threshold
  <2>6. PICK j \in Int : t \in 0 .. n - 1 /\ rest = n * j + t
    BY <1>3, <2>5, DivFacts
  <2>7. j >= 0
    <3>1. ASSUME j <= -1 PROVE FALSE
      <4>1. n * j <= -n
        BY <1>3, <3>1
      <4> QED
        BY <1>3, <2>4, <2>6, <4>1
    <3> QED
      BY <3>1
  <2>8. PICK q \in Nat : q = j + 1 /\ q > 0
    BY <2>7
  <2>9. m = t + n * q
    <3>1. n * (j + 1) = n * j + n
      OBVIOUS
    <3>2. PICK x \in Int : x = n * j
      OBVIOUS
    <3>3. n * q = x + n
      BY <2>8, <3>1, <3>2
    <3> QED
      BY <2>4, <2>6, <3>2, <3>3
  <2>10. \A c \in t .. m - 1 : c % n \in 0 .. n - 1
    BY <1>3, <2>6, DivFacts
  <2>11. \A c \in t .. m - 1 : outcome[c] = lower + (c % n)
    BY <1>6, <2>3, <2>10
  <2>12. DOMAIN outcome = t .. m - 1
    BY <2>3
  <2>13. Uniform(outcome, lower .. lower + n - 1)
    BY <1>2, <2>6, <2>8, <2>9, <2>11, <2>12, StretchIsUniform
  <2> QED
    BY <1>4, <1>5, <2>13
<1> QED
  BY <1>8, <1>9

-----------------------------------------------------------------------------
(* Shuffles. *)

(* A set of naturals has a least element.                                   *)
LEMMA LeastNat ==
  ASSUME NEW S, S \subseteq Nat, S # {}
  PROVE  \E x \in S : \A y \in S : x <= y
<1> DEFINE Less == {ss \in Nat \X Nat : ss[1] < ss[2]}
<1>1. IsWellFoundedOn(Less, Nat)
  BY NatLessThanWellFounded, Zenon DEF OpToRel
<1>2. \E x \in S : \A y \in S : ~(<<y, x>> \in Less)
  <2> HIDE DEF Less
  <2> QED
    BY <1>1, WFMin, Zenon
<1>3. PICK x \in S : \A y \in S : ~(<<y, x>> \in Less)
  BY <1>2
<1>4. ASSUME NEW y \in S
      PROVE  x <= y
  <2>1. <<y, x>> \notin Less /\ y \in Nat /\ x \in Nat
    BY <1>3
  <2>2. ~(y < x)
    BY <2>1
  <2> QED
    BY <2>1, <2>2
<1> QED
  BY <1>4

(* Induction downwards, as the loop of a shuffle runs.                      *)
LEMMA Downwards ==
  ASSUME NEW low \in Nat, NEW top \in Nat, NEW S, top \in S,
         \A k \in low .. top - 1 : k + 1 \in S => k \in S
  PROVE  low .. top \subseteq S
<1> SUFFICES ASSUME NEW m \in low .. top, m \notin S
             PROVE  FALSE
  OBVIOUS
<1> DEFINE T == {n \in Nat : n <= top - low /\ top - n \notin S}
<1>1. PICK x \in T : \A y \in T : x <= y
  <2>1. T \subseteq Nat /\ top - m \in T
    OBVIOUS
  <2>2. T # {}
    BY <2>1
  <2> HIDE DEF T
  <2> QED
    BY <2>1, <2>2, LeastNat
<1>2. x \in Nat /\ x # 0 /\ x <= top - low /\ top - x \notin S
  OBVIOUS
<1>3. x - 1 \notin T /\ x - 1 \in Nat
  BY <1>1, <1>2
<1>4. top - (x - 1) \in S
  BY <1>2, <1>3
<1>5. top - x \in low .. top - 1 /\ (top - x) + 1 = top - (x - 1)
  BY <1>2
<1> QED
  BY <1>2, <1>4, <1>5

Identity(size) == [index \in 0 .. size - 1 |-> index]

Step(g, size, selected, limit) ==
  IF limit > size THEN Identity(size)
  ELSE Swapped(g[limit + 1], limit - 1, selected[limit])

(* What is in order after each iteration, from limit size down to 2.        *)
IsAfter(g, size, selected) ==
  g = [limit \in 2 .. size + 2 |->
         IF limit > size THEN [index \in 0 .. size - 1 |-> index]
         ELSE Swapped(g[limit + 1], limit - 1, selected[limit])]

After(size, selected) == CHOOSE g : IsAfter(g, size, selected)

LEMMA AfterExists ==
  ASSUME NEW size \in Nat, NEW selected
  PROVE  \E g : IsAfter(g, size, selected)
<1> DEFINE Upper(k) == k .. size + 2
           Solves(g, k) == g = [limit \in Upper(k) |-> Step(g, size, selected, limit)]
           S == {k \in Nat : \E g : Solves(g, k)}
<1>1. size + 2 \in S
  <2> DEFINE g == [limit \in Upper(size + 2) |-> Identity(size)]
  <2>1. \A limit \in Upper(size + 2) : limit > size
    OBVIOUS
  <2>2. \A limit \in Upper(size + 2) : Step(g, size, selected, limit) = Identity(size)
    BY <2>1 DEF Step
  <2>3. Solves(g, size + 2)
    BY <2>2
  <2> QED
    BY <2>3
<1>2. ASSUME NEW k \in 2 .. size + 1, k + 1 \in S
      PROVE  k \in S
  <2>1. PICK g : Solves(g, k + 1)
    BY <1>2
  <2>2. PICK first : first = Step(g, size, selected, k)
    OBVIOUS
  <2> DEFINE h == [limit \in Upper(k) |-> IF limit = k THEN first ELSE g[limit]]
  <2>3. \A limit \in Upper(k) : limit + 1 \in Upper(k) => h[limit + 1] = g[limit + 1]
    OBVIOUS
  <2>4. ASSUME NEW limit \in Upper(k)
        PROVE  h[limit] = Step(h, size, selected, limit)
    <3>1. Step(h, size, selected, limit) = Step(g, size, selected, limit)
      <4>1. CASE limit > size
        BY <4>1 DEF Step
      <4>2. CASE ~(limit > size)
        <5>1. limit + 1 \in Upper(k)
          BY <4>2
        <5>2. h[limit + 1] = g[limit + 1]
          BY <2>3, <5>1
        <5> HIDE DEF h
        <5> QED
          BY <5>2 DEF Step
      <4> QED
        BY <4>1, <4>2
    <3>2. CASE limit = k
      <4>1. h[limit] = first
        BY <3>2
      <4> HIDE DEF h
      <4> QED
        BY <2>2, <3>1, <3>2, <4>1
    <3>3. CASE limit # k
      <4>1. h[limit] = g[limit] /\ limit \in Upper(k + 1)
        BY <3>3
      <4>2. g[limit] = Step(g, size, selected, limit)
        BY <2>1, <4>1
      <4> HIDE DEF h
      <4> QED
        BY <3>1, <4>1, <4>2
    <3> QED
      BY <3>2, <3>3
  <2>5. h = [limit \in Upper(k) |-> h[limit]]
    OBVIOUS
  <2>6. Solves(h, k)
    <3> HIDE DEF h
    <3>1. [limit \in Upper(k) |-> h[limit]] = [limit \in Upper(k) |-> Step(h, size, selected, limit)]
      BY <2>4, Zenon
    <3> QED
      BY <2>5, <3>1, Zenon
  <2>7. k \in Nat /\ \E w : Solves(w, k)
    <3> HIDE DEF h, Solves
    <3> QED
      BY <2>6
  <2> QED
    <3> HIDE DEF h, Solves
    <3> QED
      BY <2>7
<1>3. 2 .. size + 2 \subseteq S
  <2> HIDE DEF S
  <2> QED
    BY <1>1, <1>2, Downwards
<1>4. PICK g : Solves(g, 2)
  BY <1>3
<1> QED
  BY <1>4 DEF IsAfter, Step, Identity

LEMMA AfterFacts ==
  ASSUME NEW size \in Nat, NEW selected
  PROVE  /\ Shuffle(size, selected) = After(size, selected)[2]
         /\ \A limit \in 2 .. size + 2 :
              After(size, selected)[limit] = Step(After(size, selected), size, selected, limit)
<1>1. IsAfter(After(size, selected), size, selected)
  BY AfterExists, Zenon DEF After
<1>2. Shuffle(size, selected) = After(size, selected)[2]
  BY DEF Shuffle, After, IsAfter
<1>3. PICK g : g = After(size, selected) /\ IsAfter(g, size, selected)
  BY <1>1
<1>4. \A limit \in 2 .. size + 2 : g[limit] = Step(g, size, selected, limit)
  BY <1>3 DEF IsAfter, Step, Identity
<1> QED
  BY <1>2, <1>3, <1>4, Zenon

Orders(size) == {f \in [0 .. size - 1 -> 0 .. size - 1] : IsInjective(f)}

LEMMA OrderFacts ==
  ASSUME NEW size \in Nat, NEW f \in Orders(size)
  PROVE  /\ DOMAIN f = 0 .. size - 1 /\ f \in [0 .. size - 1 -> 0 .. size - 1]
         /\ \A i, j \in 0 .. size - 1 : f[i] = f[j] => i = j
         /\ \A v \in 0 .. size - 1 : \E i \in 0 .. size - 1 : f[i] = v
<1> DEFINE I == 0 .. size - 1
<1>1. f \in [I -> I] /\ IsInjective(f)
  BY DEF Orders
<1>2. \A i, j \in I : f[i] = f[j] => i = j
  BY <1>1 DEF IsInjective
<1>3. IsFiniteSet(I)
  BY FS_Interval
<1> HIDE DEF I
<1>4. f \in Injection(I, I)
  BY <1>1, <1>2, Fun_IsInj
<1>5. f \in Surjection(I, I)
  BY <1>3, <1>4, FS_Injection
<1>6. \A v \in I : \E i \in I : f[i] = v
  BY <1>5, Fun_SurjectionProperties
<1> QED
  BY <1>1, <1>2, <1>6 DEF I

LEMMA SwapKeepsOrders ==
  ASSUME NEW size \in Nat, NEW f \in Orders(size), NEW i \in 0 .. size - 1, NEW j \in 0 .. size - 1
  PROVE  /\ Swapped(f, i, j) \in Orders(size)
         /\ Swapped(f, i, j)[i] = f[j]
         /\ \A k \in 0 .. size - 1 : k # i /\ k # j => Swapped(f, i, j)[k] = f[k]
<1>1. /\ DOMAIN f = 0 .. size - 1 /\ f \in [0 .. size - 1 -> 0 .. size - 1]
      /\ \A k, m \in 0 .. size - 1 : f[k] = f[m] => k = m
  BY OrderFacts
<1>2. PICK g : g = Swapped(f, i, j)
  OBVIOUS
<1>3. /\ g \in [0 .. size - 1 -> 0 .. size - 1]
      /\ \A k \in 0 .. size - 1 :
           g[k] = IF k = j THEN f[i] ELSE IF k = i THEN f[j] ELSE f[k]
  BY <1>1, <1>2 DEF Swapped
<1>4. g[i] = f[j]
  BY <1>3
<1>5. \A k, m \in 0 .. size - 1 : g[k] = g[m] => k = m
  BY <1>1, <1>3
<1>6. IsInjective(g)
  BY <1>3, <1>5 DEF IsInjective
<1> QED
  BY <1>2, <1>3, <1>4, <1>6 DEF Orders

LEMMA IdentityIsAnOrder ==
  ASSUME NEW size \in Nat
  PROVE  Identity(size) \in Orders(size)
BY DEF Identity, Orders, IsInjective

(* A selection in iteration limit is below limit.                           *)
LEMMA SelectionFacts ==
  ASSUME NEW size \in Nat, NEW selected \in Selections(size), NEW limit \in 2 .. size
  PROVE  selected[limit] \in 0 .. limit - 1 /\ selected[limit] \in 0 .. size - 1
BY DEF Selections

(* Every iteration swaps two elements.                                      *)
LEMMA AfterIsAnOrder ==
  ASSUME NEW size \in Nat, NEW selected \in Selections(size), NEW limit \in 2 .. size + 2
  PROVE  After(size, selected)[limit] \in Orders(size)
<1>1. PICK g : g = After(size, selected)
  OBVIOUS
<1>2. \A k \in 2 .. size + 2 : g[k] = Step(g, size, selected, k)
  BY <1>1, AfterFacts
<1> DEFINE S == {k \in 2 .. size + 2 : g[k] \in Orders(size)}
<1>3. size + 2 \in S
  BY <1>2, IdentityIsAnOrder DEF Step
<1>4. ASSUME NEW k \in 2 .. (size + 2) - 1, k + 1 \in S
      PROVE  k \in S
  <2>1. CASE k > size
    BY <1>2, <2>1, IdentityIsAnOrder DEF Step
  <2>2. CASE ~(k > size)
    <3>1. g[k] = Swapped(g[k + 1], k - 1, selected[k])
      BY <1>2, <2>2 DEF Step
    <3>2. k - 1 \in 0 .. size - 1 /\ selected[k] \in 0 .. size - 1
      BY <2>2, SelectionFacts
    <3>3. g[k + 1] \in Orders(size)
      BY <1>4
    <3>4. Swapped(g[k + 1], k - 1, selected[k]) \in Orders(size)
      BY <3>2, <3>3, SwapKeepsOrders
    <3> QED
      BY <3>1, <3>4
  <2> QED
    BY <2>1, <2>2
<1>5. 2 .. size + 2 \subseteq S
  <2>1. size + 2 \in Nat
    OBVIOUS
  <2> HIDE DEF S
  <2> QED
    BY <1>3, <1>4, <2>1, Downwards
<1> QED
  BY <1>1, <1>5

(* An iteration puts the selected element at limit - 1, and none of the     *)
(* later ones moves what an earlier one has put.                            *)
LEMMA Iteration ==
  ASSUME NEW size \in Nat, NEW selected \in Selections(size), NEW limit \in 2 .. size
  PROVE  /\ After(size, selected)[limit] =
              Swapped(After(size, selected)[limit + 1], limit - 1, selected[limit])
         /\ After(size, selected)[limit][limit - 1] =
              After(size, selected)[limit + 1][selected[limit]]
         /\ \A i \in limit .. size - 1 :
              After(size, selected)[limit][i] = After(size, selected)[limit + 1][i]
<1>1. PICK g : g = After(size, selected)
  OBVIOUS
<1>2. g[limit] = Step(g, size, selected, limit)
  BY <1>1, AfterFacts
<1>3. g[limit] = Swapped(g[limit + 1], limit - 1, selected[limit])
  BY <1>2 DEF Step
<1>4. g[limit + 1] \in Orders(size)
  BY <1>1, AfterIsAnOrder
<1>5. /\ limit - 1 \in 0 .. size - 1
      /\ selected[limit] \in 0 .. size - 1 /\ selected[limit] \in 0 .. limit - 1
  BY SelectionFacts
<1>6. /\ g[limit][limit - 1] = g[limit + 1][selected[limit]]
      /\ \A k \in 0 .. size - 1 : k # limit - 1 /\ k # selected[limit] => g[limit][k] = g[limit + 1][k]
  <2>1. PICK f \in Orders(size), i \in 0 .. size - 1, j \in 0 .. size - 1 :
          f = g[limit + 1] /\ i = limit - 1 /\ j = selected[limit]
    BY <1>4, <1>5
  <2>2. g[limit] = Swapped(f, i, j)
    BY <1>3, <2>1
  <2>3. /\ Swapped(f, i, j)[i] = f[j]
        /\ \A k \in 0 .. size - 1 : k # i /\ k # j => Swapped(f, i, j)[k] = f[k]
    BY SwapKeepsOrders
  <2> QED
    BY <2>1, <2>2, <2>3, Zenon
<1>7. ASSUME NEW i \in limit .. size - 1
      PROVE  g[limit][i] = g[limit + 1][i]
  <2>1. i \in 0 .. size - 1 /\ i # limit - 1 /\ i # selected[limit]
    BY <1>5
  <2> QED
    BY <1>6, <2>1
<1> QED
  BY <1>1, <1>3, <1>6, <1>7

LEMMA Settled ==
  ASSUME NEW size \in Nat, NEW selected \in Selections(size), NEW limit \in 2 .. size
  PROVE  Shuffle(size, selected)[limit - 1] = After(size, selected)[limit][limit - 1]
<1>1. PICK g : g = After(size, selected)
  OBVIOUS
<1> DEFINE S == {k \in 2 .. limit : g[k][limit - 1] = g[limit][limit - 1]}
<1>2. ASSUME NEW k \in 2 .. limit - 1, k + 1 \in S
      PROVE  k \in S
  <2>1. limit - 1 \in k .. size - 1 /\ k \in 2 .. size
    OBVIOUS
  <2>2. g[k][limit - 1] = g[k + 1][limit - 1]
    BY <1>1, <2>1, Iteration
  <2> QED
    BY <1>2, <2>2
<1>3. limit \in S /\ limit \in Nat
  OBVIOUS
<1>4. 2 .. limit \subseteq S
  <2> HIDE DEF S
  <2> QED
    BY <1>2, <1>3, Downwards
<1>5. 2 \in S
  BY <1>4
<1> QED
  BY <1>1, <1>5, AfterFacts

(* What an iteration starts with depends on the selections before it.       *)
LEMMA SameStart ==
  ASSUME NEW size \in Nat, NEW s \in Selections(size), NEW t \in Selections(size),
         NEW limit \in 2 .. size + 2, \A k \in limit .. size : s[k] = t[k]
  PROVE  After(size, s)[limit] = After(size, t)[limit]
<1>1. PICK g : g = After(size, s)
  OBVIOUS
<1>2. PICK h : h = After(size, t)
  OBVIOUS
<1>3. \A k \in 2 .. size + 2 : g[k] = Step(g, size, s, k) /\ h[k] = Step(h, size, t, k)
  BY <1>1, <1>2, AfterFacts
<1> DEFINE S == {k \in limit .. size + 2 : g[k] = h[k]}
<1>4. size + 2 \in S
  BY <1>3 DEF Step
<1>5. ASSUME NEW k \in limit .. (size + 2) - 1, k + 1 \in S
      PROVE  k \in S
  <2>1. g[k] = Step(g, size, s, k) /\ h[k] = Step(h, size, t, k)
    BY <1>3
  <2>2. CASE k > size
    BY <2>1, <2>2 DEF Step
  <2>3. CASE ~(k > size)
    <3>1. s[k] = t[k] /\ g[k + 1] = h[k + 1]
      BY <1>5, <2>3
    <3> QED
      BY <2>1, <2>3, <3>1 DEF Step
  <2> QED
    BY <2>2, <2>3
<1>6. limit .. size + 2 \subseteq S
  <2>1. size + 2 \in Nat /\ limit \in Nat
    OBVIOUS
  <2> HIDE DEF S
  <2> QED
    BY <1>4, <1>5, <2>1, Downwards
<1>7. limit \in S
  BY <1>6
<1> QED
  BY <1>1, <1>2, <1>7

(* A shuffle shows its selections: no two give the same order.              *)
LEMMA SelectionsApart ==
  ASSUME NEW size \in Nat, NEW s \in Selections(size), NEW t \in Selections(size),
         Shuffle(size, s) = Shuffle(size, t)
  PROVE  s = t
<1>1. DOMAIN s = 2 .. size /\ DOMAIN t = 2 .. size /\ s = [k \in 2 .. size |-> s[k]]
      /\ t = [k \in 2 .. size |-> t[k]]
  BY DEF Selections
<1> DEFINE S == {k \in 2 .. size + 1 : \A i \in k .. size : s[i] = t[i]}
<1>2. ASSUME NEW k \in 2 .. size, k + 1 \in S
      PROVE  k \in S
  <2>1. \A i \in k + 1 .. size : s[i] = t[i]
    BY <1>2
  <2>2. k + 1 \in 2 .. size + 2
    OBVIOUS
  <2>3. After(size, s)[k + 1] = After(size, t)[k + 1]
    BY <2>1, <2>2, SameStart
  <2>4. PICK g : g = After(size, s)[k + 1]
    OBVIOUS
  <2>5. /\ Shuffle(size, s)[k - 1] = g[s[k]]
        /\ Shuffle(size, t)[k - 1] = g[t[k]]
    BY <2>3, <2>4, Settled, Iteration
  <2>6. g \in Orders(size)
    BY <2>2, <2>4, AfterIsAnOrder
  <2>7. s[k] \in 0 .. size - 1 /\ t[k] \in 0 .. size - 1
    BY SelectionFacts
  <2>8. s[k] = t[k]
    <3>1. g[s[k]] = g[t[k]]
      BY <2>5, Zenon
    <3>2. \A i, j \in 0 .. size - 1 : g[i] = g[j] => i = j
      BY <2>6, OrderFacts, Zenon
    <3> QED
      BY <2>7, <3>1, <3>2, Zenon
  <2>9. ASSUME NEW i \in k .. size
        PROVE  s[i] = t[i]
    <3>1. i = k \/ i \in k + 1 .. size
      OBVIOUS
    <3> QED
      BY <2>1, <2>8, <3>1
  <2> QED
    BY <2>9
<1>3. \A i \in 2 .. size : s[i] = t[i]
  <2>1. CASE size = 0
    BY <2>1
  <2>2. CASE size # 0
    <3>1. size + 1 \in S
      BY <2>2
    <3>2. size + 1 \in Nat /\ (size + 1) - 1 = size
      OBVIOUS
    <3>3. 2 .. size + 1 \subseteq S
      <4> HIDE DEF S
      <4> QED
        BY <1>2, <3>1, <3>2, Downwards
    <3>4. 2 \in S
      BY <2>2, <3>3
    <3> QED
      BY <3>4
  <2> QED
    BY <2>1, <2>2
<1> QED
  BY <1>1, <1>3

(* The selections of a given order.                                         *)
LEMMA SelectionsReach ==
  ASSUME NEW size \in Nat, NEW order \in Orders(size)
  PROVE  \E selected \in Selections(size) : Shuffle(size, selected) = order
<1>1. /\ order \in [0 .. size - 1 -> 0 .. size - 1]
      /\ \A i, j \in 0 .. size - 1 : order[i] = order[j] => i = j
      /\ \A v \in 0 .. size - 1 : \E i \in 0 .. size - 1 : order[i] = v
  BY OrderFacts
<1> DEFINE Agrees(selected, k) ==
             \A i \in 0 .. size - 1 : i >= k - 1 => After(size, selected)[k][i] = order[i]
           S == {k \in 2 .. size + 1 : \E selected \in Selections(size) : Agrees(selected, k)}
<1>2. \E selected : selected \in Selections(size)
  <2>1. [k \in 2 .. size |-> 0] \in Selections(size)
    BY DEF Selections
  <2> QED
    BY <2>1
<1>3. ASSUME NEW k \in 2 .. size, k + 1 \in S
      PROVE  k \in S
  <2>1. PICK s \in Selections(size) : Agrees(s, k + 1)
    BY <1>3
  <2>2. PICK g : g = After(size, s)[k + 1]
    OBVIOUS
  <2>3. g \in Orders(size)
    <3>1. k + 1 \in 2 .. size + 2
      OBVIOUS
    <3> QED
      BY <2>2, <3>1, AfterIsAnOrder
  <2>4. k - 1 \in 0 .. size - 1 /\ order[k - 1] \in 0 .. size - 1
    BY <1>1
  <2>5. PICK p \in 0 .. size - 1 : g[p] = order[k - 1]
    BY <2>3, <2>4, OrderFacts
  <2>6. \A i \in 0 .. size - 1 : i >= k => g[i] = order[i]
    BY <2>1, <2>2
  <2>7. p < k
    <3>1. ASSUME p >= k PROVE FALSE
      <4>1. order[p] = order[k - 1]
        BY <2>5, <2>6, <3>1
      <4>2. p = k - 1
        BY <1>1, <2>4, <4>1
      <4> QED
        BY <3>1, <4>2
    <3> QED
      BY <3>1
  <2>8. PICK t : t = [s EXCEPT ![k] = p]
    OBVIOUS
  <2>9. /\ t \in Selections(size) /\ t[k] = p
        /\ \A i \in k + 1 .. size : s[i] = t[i]
    <3>1. /\ s \in [2 .. size -> 0 .. size - 1]
          /\ \A i \in 2 .. size : s[i] < i
      BY DEF Selections
    <3>2. /\ t \in [2 .. size -> 0 .. size - 1]
          /\ \A i \in 2 .. size : t[i] = IF i = k THEN p ELSE s[i]
      BY <2>8, <3>1
    <3>3. \A i \in 2 .. size : t[i] < i
      BY <2>7, <3>1, <3>2
    <3> QED
      BY <3>2, <3>3 DEF Selections
  <2>10. After(size, t)[k + 1] = g
    <3>1. k + 1 \in 2 .. size + 2
      OBVIOUS
    <3> QED
      BY <2>2, <2>9, <3>1, SameStart
  <2>11. /\ After(size, t)[k][k - 1] = g[p]
         /\ \A i \in k .. size - 1 : After(size, t)[k][i] = g[i]
    BY <2>9, <2>10, Iteration
  <2>12. ASSUME NEW i \in 0 .. size - 1, i >= k - 1
         PROVE  After(size, t)[k][i] = order[i]
    <3>1. CASE i = k - 1
      BY <2>5, <2>11, <3>1
    <3>2. CASE i # k - 1
      <4>1. i \in k .. size - 1
        BY <2>12, <3>2
      <4> QED
        BY <2>6, <2>11, <4>1
    <3> QED
      BY <3>1, <3>2
  <2>13. Agrees(t, k)
    BY <2>12
  <2>14. k \in 2 .. size + 1
    OBVIOUS
  <2> QED
    BY <2>9, <2>13, <2>14
<1>4. \E selected \in Selections(size) : \A i \in 0 .. size - 1 :
        i >= 1 => Shuffle(size, selected)[i] = order[i]
  <2>1. CASE size = 0
    BY <1>2, <2>1
  <2>2. CASE size # 0
    <3>1. size + 1 \in S
      <4>1. \A i \in 0 .. size - 1 : ~(i >= (size + 1) - 1)
        OBVIOUS
      <4> QED
        BY <1>2, <2>2, <4>1
    <3>2. size + 1 \in Nat /\ (size + 1) - 1 = size
      OBVIOUS
    <3>3. 2 .. size + 1 \subseteq S
      <4> HIDE DEF S
      <4> QED
        BY <1>3, <3>1, <3>2, Downwards
    <3>4. 2 \in S
      BY <2>2, <3>3
    <3>5. PICK s \in Selections(size) : Agrees(s, 2)
      BY <3>4
    <3>6. Shuffle(size, s) = After(size, s)[2]
      BY AfterFacts
    <3> QED
      BY <3>5, <3>6
  <2> QED
    BY <2>1, <2>2
<1>5. PICK s \in Selections(size) :
        \A i \in 0 .. size - 1 : i >= 1 => Shuffle(size, s)[i] = order[i]
  BY <1>4
<1>6. PICK f : f = Shuffle(size, s)
  OBVIOUS
<1>7. f \in Orders(size)
  <2>1. 2 \in 2 .. size + 2
    OBVIOUS
  <2> QED
    BY <1>6, <2>1, AfterIsAnOrder, AfterFacts
<1>8. /\ f \in [0 .. size - 1 -> 0 .. size - 1]
      /\ \A v \in 0 .. size - 1 : \E i \in 0 .. size - 1 : f[i] = v
  BY <1>7, OrderFacts
<1>9. ASSUME NEW i \in 0 .. size - 1
      PROVE  f[i] = order[i]
  <2>1. CASE i >= 1
    BY <1>5, <1>6, <2>1
  <2>2. CASE i = 0
    <3>1. order[0] \in 0 .. size - 1
      BY <1>1, <2>2
    <3>2. PICK p \in 0 .. size - 1 : f[p] = order[0]
      BY <1>8, <3>1
    <3>3. CASE p >= 1
      <4>1. order[p] = order[0]
        BY <1>5, <1>6, <3>2, <3>3
      <4> QED
        BY <1>1, <2>2, <3>3, <4>1
    <3> QED
      BY <2>2, <3>2, <3>3
  <2> QED
    BY <2>1, <2>2
<1>10. f = order
  BY <1>1, <1>8, <1>9
<1> QED
  BY <1>6, <1>10

(* Every order comes from one selection.                                    *)
LEMMA ShuffleIsUniform ==
  ASSUME NEW size \in Nat
  PROVE  Uniform([selected \in Selections(size) |-> Shuffle(size, selected)], Orders(size))
<1>1. PICK outcome : outcome = [selected \in Selections(size) |-> Shuffle(size, selected)]
  OBVIOUS
<1>2. DOMAIN outcome = Selections(size)
      /\ \A s \in Selections(size) : outcome[s] = Shuffle(size, s)
  BY <1>1
<1>3. \A s \in Selections(size) : Shuffle(size, s) \in Orders(size)
  <2>1. 2 \in 2 .. size + 2
    OBVIOUS
  <2> QED
    BY <2>1, AfterIsAnOrder, AfterFacts
<1>4. Range(outcome) = Orders(size)
  BY <1>2, <1>3, SelectionsReach DEF Range
<1>5. ASSUME NEW v \in Orders(size)
      PROVE  Cardinality(Draws(outcome, v)) = 1
  <2>1. PICK s \in Selections(size) : Shuffle(size, s) = v
    BY SelectionsReach
  <2>2. Draws(outcome, v) = {s}
    BY <1>2, <2>1, SelectionsApart DEF Draws
  <2> QED
    BY <2>2, FS_Singleton
<1> QED
  BY <1>1, <1>4, <1>5 DEF Uniform

(* Each coordinate of a Latin hypercube visits every stratum.               *)
Hypercube ==
  \A d \in DOMAIN call.rows[1] :
    {call.rows[i][d] : i \in DOMAIN call.rows} = 0 .. Len(call.rows) - 1

LEMMA HypercubeStep ==
  ASSUME NEW count \in Nat, count > 0, NEW selections,
         \A d \in DOMAIN selections : selections[d] \in Selections(count),
         call' = FillDenseLatinHypercube(count, selections)
  PROVE  Hypercube'
<1>1. PICK rows : rows = [sample \in 1 .. count |->
                            [d \in DOMAIN selections |-> Shuffle(count, selections[d])[sample - 1]]]
  OBVIOUS
<1>2. call'.rows = rows
  <2>1. call'.rows = [sample \in 1 .. count |->
                        [d \in DOMAIN selections |->
                           [e \in DOMAIN selections |-> Shuffle(count, selections[e])][d][sample - 1]]]
    BY DEF FillDenseLatinHypercube
  <2>2. \A sample \in 1 .. count :
          [d \in DOMAIN selections |->
             [e \in DOMAIN selections |-> Shuffle(count, selections[e])][d][sample - 1]] = rows[sample]
    BY <1>1
  <2> QED
    BY <1>1, <2>1, <2>2
<1>3. DOMAIN rows = 1 .. count /\ Len(rows) = count /\ DOMAIN rows[1] = DOMAIN selections
  BY <1>1
<1>4. ASSUME NEW d \in DOMAIN selections
      PROVE  {rows[i][d] : i \in 1 .. count} = 0 .. count - 1
  <2>1. PICK f : f = Shuffle(count, selections[d])
    OBVIOUS
  <2>2. f \in Orders(count)
    <3>1. 2 \in 2 .. count + 2
      OBVIOUS
    <3> QED
      BY <2>1, <3>1, AfterIsAnOrder, AfterFacts
  <2>3. /\ f \in [0 .. count - 1 -> 0 .. count - 1]
        /\ \A v \in 0 .. count - 1 : \E i \in 0 .. count - 1 : f[i] = v
    BY <2>2, OrderFacts
  <2>4. \A i \in 1 .. count : rows[i][d] = f[i - 1]
    BY <1>1, <2>1
  <2>5. ASSUME NEW i \in 1 .. count
        PROVE  rows[i][d] \in 0 .. count - 1
    <3>1. i - 1 \in 0 .. count - 1
      OBVIOUS
    <3>2. f[i - 1] \in 0 .. count - 1
      BY <2>3, <3>1
    <3> QED
      BY <2>4, <3>2
  <2>6. ASSUME NEW v \in 0 .. count - 1
        PROVE  \E i \in 1 .. count : rows[i][d] = v
    <3>1. PICK j \in 0 .. count - 1 : f[j] = v
      BY <2>3
    <3>2. j + 1 \in 1 .. count /\ (j + 1) - 1 = j
      OBVIOUS
    <3>3. rows[j + 1][d] = v
      BY <2>4, <3>1, <3>2
    <3> QED
      BY <3>2, <3>3
  <2> QED
    BY <2>5, <2>6
<1> QED
  BY <1>2, <1>3, <1>4 DEF Hypercube

-----------------------------------------------------------------------------
(* What the calls that draw leave behind. *)

DrawInv ==
  /\ call.kind = "integer" /\ call.status = "kOk" =>
       \E signed \in BOOLEAN : \E lower, upper \in Representable(signed) :
         /\ lower <= upper /\ call.values = lower .. upper
         /\ call.outcome = UniformInteger(signed, lower, upper)
  /\ call.kind = "shuffle" =>
       \E size \in Nat :
         /\ call.values = Orders(size)
         /\ call.outcome = [selected \in Selections(size) |-> Shuffle(size, selected)]
  /\ call.kind = "latin" => Hypercube

LEMMA OtherCall ==
  ASSUME call'.kind \notin {"integer", "shuffle", "latin"}
  PROVE  DrawInv'
BY DEF DrawInv

LEMMA FillKinds ==
  ASSUME CallSobol \/ CallHalton \/ CallScrambledHalton \/ CallHammersley
  PROVE  call'.kind \in {"sobol", "halton", "hammersley"}
<1>1. \A kind, status : Refused(kind, status).kind = kind
  BY DEF Refused
<1>2. \A kind, bases, first, total, point, count :
        Samples(kind, bases, first, total, point, count).kind = kind
  BY DEF Samples
<1>3. CASE CallSobol
  <2>1. PICK first, count, dimensions : call' = FillDenseSobol(first, count, dimensions)
    BY <1>3 DEF CallSobol, Answer
  <2> QED
    BY <1>1, <1>2, <2>1 DEF FillDenseSobol
<1>4. CASE CallHalton
  <2>1. PICK first, count, dimensions : call' = FillDenseHalton(first, count, dimensions)
    BY <1>4 DEF CallHalton, Answer
  <2> QED
    BY <1>1, <1>2, <2>1 DEF FillDenseHalton
<1>5. CASE CallScrambledHalton
  <2>1. PICK first, count, permutations :
          call' = FillDenseScrambledHalton(first, count, permutations)
    BY <1>5 DEF CallScrambledHalton, Answer
  <2> QED
    BY <1>1, <1>2, <2>1 DEF FillDenseScrambledHalton
<1>6. CASE CallHammersley
  <2>1. PICK first, count, total, dimensions :
          call' = FillDenseHammersley(first, count, total, dimensions)
    BY <1>6 DEF CallHammersley, Answer
  <2> QED
    BY <1>1, <1>2, <2>1 DEF FillDenseHammersley
<1> QED
  BY <1>3, <1>4, <1>5, <1>6

LEMMA IntegerStep ==
  ASSUME CallUniformInteger
  PROVE  DrawInv'
<1>0. PICK signed \in BOOLEAN : \E lower, upper \in Representable(signed) :
        \/ Answer(Refused("integer", "kInvalidArgument"))
        \/ /\ lower <= upper
           /\ Answer([kind |-> "integer", status |-> "kOk", values |-> lower .. upper,
                      outcome |-> UniformInteger(signed, lower, upper)])
  BY DEF CallUniformInteger, Representable, Least
<1>1. PICK lower \in Representable(signed), upper \in Representable(signed) :
        \/ Answer(Refused("integer", "kInvalidArgument"))
        \/ /\ lower <= upper
           /\ Answer([kind |-> "integer", status |-> "kOk", values |-> lower .. upper,
                      outcome |-> UniformInteger(signed, lower, upper)])
  BY <1>0
<1>2. CASE Answer(Refused("integer", "kInvalidArgument"))
  BY <1>2 DEF Answer, Refused, DrawInv
<1>3. CASE /\ lower <= upper
           /\ Answer([kind |-> "integer", status |-> "kOk", values |-> lower .. upper,
                      outcome |-> UniformInteger(signed, lower, upper)])
  <2>1. /\ call'.kind = "integer" /\ call'.values = lower .. upper
        /\ call'.outcome = UniformInteger(signed, lower, upper)
    BY <1>3 DEF Answer
  <2> QED
    BY <1>3, <2>1 DEF DrawInv
<1> QED
  BY <1>1, <1>2, <1>3

LEMMA ShuffleStep ==
  ASSUME CallShuffle
  PROVE  DrawInv'
<1>1. PICK size \in 0 .. 4 :
        call' = [kind |-> "shuffle", status |-> "kOk",
                 values |-> {f \in [0 .. size - 1 -> 0 .. size - 1] : IsInjective(f)},
                 outcome |-> [selected \in Selections(size) |-> Shuffle(size, selected)]]
  BY DEF CallShuffle, Answer
<1>2. size \in Nat /\ call'.kind = "shuffle" /\ call'.values = Orders(size)
      /\ call'.outcome = [selected \in Selections(size) |-> Shuffle(size, selected)]
  BY <1>1 DEF Orders
<1> QED
  BY <1>2 DEF DrawInv

LEMMA LatinStep ==
  ASSUME CallLatinHypercube
  PROVE  DrawInv'
<1>0. PICK count \in 1 .. 4 : \E one, two \in Selections(count) :
        call' = FillDenseLatinHypercube(count, <<one, two>>)
  BY DEF CallLatinHypercube, Answer
<1>1. PICK one \in Selections(count), two \in Selections(count) :
        call' = FillDenseLatinHypercube(count, <<one, two>>)
  BY <1>0
<1>2. PICK selections : selections = <<one, two>>
  OBVIOUS
<1>3. \A d \in DOMAIN selections : selections[d] \in Selections(count)
  BY <1>2
<1>4. count \in Nat /\ count > 0 /\ call' = FillDenseLatinHypercube(count, selections)
  BY <1>1, <1>2
<1>5. Hypercube'
  BY <1>3, <1>4, HypercubeStep
<1>6. call'.kind = "latin"
  BY <1>4 DEF FillDenseLatinHypercube
<1> QED
  BY <1>5, <1>6 DEF DrawInv

LEMMA InitDrawInv == Init => DrawInv
BY DEF Init, Refused, DrawInv

LEMMA NextDrawInv == DrawInv /\ [Next]_vars => DrawInv'
<1> SUFFICES ASSUME DrawInv, [Next]_vars PROVE DrawInv'
  OBVIOUS
<1>1. ASSUME UNCHANGED call PROVE DrawInv'
  BY <1>1 DEF DrawInv, Hypercube
<1>2. CASE Begin
  <2>1. CASE CallSobol \/ CallHalton \/ CallScrambledHalton \/ CallHammersley
    <3>1. call'.kind \in {"sobol", "halton", "hammersley"}
      BY <2>1, FillKinds
    <3> QED
      BY <3>1, OtherCall
  <2>2. CASE Create
    <3>1. UNCHANGED call \/ call' = Refused("sequence", "kShape")
      BY <2>2 DEF Create, Answer
    <3>2. CASE call' = Refused("sequence", "kShape")
      <4>1. call'.kind = "sequence"
        BY <3>2 DEF Refused
      <4> QED
        BY <4>1, OtherCall
    <3> QED
      BY <1>1, <3>1, <3>2
  <2> QED
    BY <1>2, <2>1, <2>2, IntegerStep, ShuffleStep, LatinStep DEF Begin
<1>3. CASE Reset \/ NextPoint \/ Skip \/ UNCHANGED vars
  BY <1>1, <1>3 DEF Reset, NextPoint, Skip, vars
<1>4. CASE Drop
  <2>1. call'.kind = "none"
    BY <1>4 DEF Drop, Refused
  <2> QED
    BY <2>1, OtherCall
<1> QED
  BY <1>2, <1>3, <1>4 DEF Next

(* Whatever the bounds and the width of a word, a distribution gives every  *)
(* integer of its range for equally many words, and a shuffle every order   *)
(* for equally many selections.                                             *)
THEOREM UniformDraws == Spec => []DrawsAreUniform
<1>1. DrawInv => DrawsAreUniform
  <2> SUFFICES ASSUME DrawInv, call.kind \in {"integer", "shuffle"}, call.status = "kOk"
               PROVE  Uniform(call.outcome, call.values)
    BY DEF DrawsAreUniform, Uniform, Draws, Quantify
  <2>1. CASE call.kind = "integer"
    BY <2>1, IntegerIsUniform DEF DrawInv
  <2>2. CASE call.kind = "shuffle"
    BY <2>2, ShuffleIsUniform DEF DrawInv
  <2> QED
    BY <2>1, <2>2
<1> QED
  BY <1>1, InitDrawInv, NextDrawInv, PTL DEF Spec

(* FillDenseLatinHypercube puts one sample in each stratum of each          *)
(* coordinate.                                                              *)
THEOREM HypercubeStratified == Spec => [](call.kind = "latin" => Hypercube)
<1>1. DrawInv => (call.kind = "latin" => Hypercube)
  BY DEF DrawInv
<1> QED
  BY <1>1, InitDrawInv, NextDrawInv, PTL DEF Spec
=============================================================================

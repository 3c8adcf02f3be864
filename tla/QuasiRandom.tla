---------------------------- MODULE QuasiRandom -----------------------------
(***************************************************************************)
(* Low-discrepancy points, and the draws that Latin hypercubes rest on.    *)
(* A coordinate is its sequence of digits after the point, the most        *)
(* significant first: the rounding of floats is left out.  A word is the   *)
(* set of its one bits.                                                    *)
(***************************************************************************)
EXTENDS Integers, Sequences, FiniteSetsExt, Functions

CONSTANTS
  Width,          \* bits of a word, of an index and of an integer, 64 in the code
  DirectionRows,  \* rows of the Joe-Kuo table, [degree, coefficient, initial]
  Primes,         \* the first primes in order
  Positions,      \* indices that a program starts at
  Counts          \* numbers of samples, and of indices to skip

MaxIndex == 2 ^ Width - 1
Bits == 0 .. Width - 1
Dimensions == 0 .. Len(DirectionRows)

VARIABLES
  call,           \* the last call of a free function, with its result
  sequence,       \* a SobolSequence, or None
  taken           \* how often it has given each index since it was positioned

vars == <<call, sequence, taken>>

None == [dimensions |-> -1]

------------------------------------------------------------------------------
\* Sobol words

BitsOf(number) == {b \in Bits : (number \div 2 ^ b) % 2 = 1}
ShiftLeft(word, by) == {b + by : b \in word} \cap Bits
ShiftRight(word, by) == {b - by : b \in word} \cap Bits

XorOf(words) ==
  {b \in Bits : Quantify(DOMAIN words, LAMBDA w : b \in words[w]) % 2 = 1}

(* Which earlier directions a coefficient bit brings in. *)
CoefficientBit(degree, offset) == degree - 1 - offset

(* InitializeSobolDirectionNumbers() *)
Directions(dimension) ==
  IF dimension = 0 THEN [i \in Bits |-> {Width - 1 - i}]
  ELSE LET row == DirectionRows[dimension]
           brings == {offset \in 1 .. row.degree - 1 :
                        CoefficientBit(row.degree, offset) \in BitsOf(row.coefficient)}
           direction[i \in Bits] ==
             IF i < row.degree
             THEN ShiftLeft(BitsOf(row.initial[i + 1]), Width - 1 - i)
             ELSE XorOf([o \in {0, row.degree} \cup brings |->
                           IF o = 0 THEN ShiftRight(direction[i - row.degree], row.degree)
                           ELSE direction[i - o]])
       IN direction

(* index ^ (index >> 1) *)
Gray(index) == XorOf(<<BitsOf(index), ShiftRight(BitsOf(index), 1)>>)

SobolCoordinate(index, dimension) ==
  LET directions == Directions(dimension)
      word == XorOf([b \in Gray(index) |-> directions[b]])
  IN [digit \in 1 .. Width |-> IF Width - digit \in word THEN 1 ELSE 0]

------------------------------------------------------------------------------
\* Radical inverses

(* Once no digit of the index is left, no digit of the value follows. *)
ScrambledRadicalInverse(base, index, permutation) ==
  [digit \in 1 .. Width |->
     LET rest == index \div base ^ (digit - 1)
     IN IF rest = 0 THEN 0 ELSE permutation[rest % base]]

RadicalInverse(base, index) ==
  ScrambledRadicalInverse(base, index, [digit \in 0 .. base - 1 |-> digit])

Bijective(base, permutation) ==
  /\ DOMAIN permutation = 0 .. base - 1
  /\ \A digit \in DOMAIN permutation : permutation[digit] \in 0 .. base - 1
  /\ IsInjective(permutation)

ValidDigitPermutation(base, permutation) ==
  Bijective(base, permutation) /\ permutation[0] = 0

(* The binary digits of index / total_count *)
Fraction(index, total) ==
  [digit \in 1 .. Width |-> ((index * 2 ^ digit) \div total) % 2]

------------------------------------------------------------------------------
\* Uniform integers and shuffles

Modulus == 2 ^ Width
Unsigned(x) == x % Modulus
Signed(x) == IF x < Modulus \div 2 THEN x ELSE x - Modulus

(* AddOffset() of a signed or unsigned Integer, without signed overflow *)
AddOffset(signed, lower, offset) ==
  IF ~signed THEN Unsigned(lower + offset)
  ELSE IF lower >= 0 THEN Signed(Unsigned(lower + offset))
  ELSE LET negative == Unsigned(0 - Unsigned(lower))
       IN IF offset < negative
          THEN IF negative - offset = Modulus \div 2 THEN 0 - Modulus \div 2
               ELSE 0 - Signed(negative - offset)
          ELSE Signed(offset - negative)

(* Candidates below the threshold are drawn again. *)
NoThreshold(range) == 0
Threshold(range) == (Modulus - 1 - range + 1) % range

(* The integer that each word gives, for the words that are not rejected *)
UniformInteger(signed, lower, upper) ==
  LET range == Unsigned(Unsigned(upper) - Unsigned(lower) + 1)
  IN IF range = 0
     THEN [candidate \in 0 .. Modulus - 1 |-> AddOffset(signed, lower, candidate)]
     ELSE [candidate \in Threshold(range) .. Modulus - 1 |->
             AddOffset(signed, lower, candidate % range)]

(* The shuffle swaps limit - 1, downwards, with a selection below limit. *)
Selections(size) ==
  {selected \in [2 .. size -> 0 .. size - 1] : \A limit \in 2 .. size : selected[limit] < limit}

Swapped(f, i, j) == [f EXCEPT ![i] = f[j], ![j] = f[i]]

Shuffle(size, selected) ==
  LET after[limit \in 2 .. size + 2] ==
        IF limit > size THEN [index \in 0 .. size - 1 |-> index]
        ELSE Swapped(after[limit + 1], limit - 1, selected[limit])
  IN after[2]

------------------------------------------------------------------------------
\* Fills of a dense destination

Refused(kind, status) == [kind |-> kind, status |-> status]

(* ValidateQmcIndexRange() *)
Validated(first, count) == count = 0 \/ first + (count - 1) <= MaxIndex

(* Index arithmetic is unsigned. *)
Indices == 0 .. MaxIndex

ASSUME PositionsAssumption ==
  /\ Width \in Nat \ {0}
  /\ Positions \subseteq Indices
  /\ Counts \subseteq Nat

Samples(kind, bases, first, total, point, count) ==
  [kind |-> kind, status |-> "kOk", bases |-> bases, first |-> first, total |-> total,
   rows |-> [sample \in 1 .. count |-> point[Unsigned(first + sample - 1)]]]

FillDenseSobol(first, count, dimensions) ==
  IF ~Validated(first, count) THEN Refused("sobol", "kOverflow")
  ELSE Samples("sobol", [d \in 1 .. dimensions |-> 2], first, 0,
               [index \in Indices |->
                  [d \in 1 .. dimensions |-> SobolCoordinate(index, d - 1)]], count)

FillDenseHalton(first, count, dimensions) ==
  IF ~Validated(first, count) THEN Refused("halton", "kOverflow")
  ELSE Samples("halton", SubSeq(Primes, 1, dimensions), first, 0,
               [index \in Indices |->
                  [d \in 1 .. dimensions |-> RadicalInverse(Primes[d], index)]], count)

FillDenseScrambledHalton(first, count, permutations) ==
  LET dimensions == Len(permutations) IN
  IF ~Validated(first, count) THEN Refused("halton", "kOverflow")
  ELSE IF \E d \in 1 .. dimensions : ~ValidDigitPermutation(Primes[d], permutations[d])
  THEN Refused("halton", "kInvalidArgument")
  ELSE Samples("halton", SubSeq(Primes, 1, dimensions), first, 0,
               [index \in Indices |->
                  [d \in 1 .. dimensions |->
                     ScrambledRadicalInverse(Primes[d], index, permutations[d])]], count)

FillDenseHammersley(first, count, total, dimensions) ==
  IF total = 0 THEN Refused("hammersley", "kInvalidArgument")
  ELSE IF ~Validated(first, count) THEN Refused("hammersley", "kOverflow")
  ELSE IF count # 0 /\ Unsigned(first + (count - 1)) >= total
  THEN Refused("hammersley", "kIndex")
  ELSE Samples("hammersley", <<2>> \o SubSeq(Primes, 1, dimensions - 1), first, total,
               [index \in Indices |->
                  [d \in 1 .. dimensions |->
                     IF d = 1 THEN Fraction(index, total)
                     ELSE RadicalInverse(Primes[d - 1], index)]], count)

(* One shuffle per column; PrepareLatinHypercube() draws all of them before *)
(* it writes a point.                                                       *)
FillDenseLatinHypercube(count, selections) ==
  LET column == [d \in DOMAIN selections |-> Shuffle(count, selections[d])]
  IN [kind |-> "latin", status |-> "kOk",
      rows |-> [sample \in 1 .. count |->
                  [d \in DOMAIN selections |-> column[d][sample - 1]]]]

------------------------------------------------------------------------------
\* The free functions keep no state: a program that has no sequence calls them.

Init ==
  /\ call = Refused("none", "kOk")
  /\ sequence = None
  /\ taken = [index \in Indices |-> 0]

Answer(result) == call' = result /\ UNCHANGED <<sequence, taken>>

CallSobol ==
  \E first \in Indices, count \in Counts, dimensions \in 1 .. Len(DirectionRows) + 1 :
    Answer(FillDenseSobol(first, count, dimensions))

CallHalton ==
  \E first \in Indices, count \in Counts, dimensions \in DOMAIN Primes :
    Answer(FillDenseHalton(first, count, dimensions))

(* Digits maps of the first two bases, permutations or not. *)
CallScrambledHalton ==
  \E first \in Positions, count \in Counts,
     one \in [0 .. Primes[1] - 1 -> 0 .. Primes[1]],
     two \in [0 .. Primes[2] - 1 -> 0 .. Primes[2]] :
    Answer(FillDenseScrambledHalton(first, count, <<one, two>>))

CallHammersley ==
  \E first \in Positions, count, total \in Counts, dimensions \in 1 .. Len(Primes) + 1 :
    Answer(FillDenseHammersley(first, count, total, dimensions))

CallLatinHypercube ==
  \E count \in 1 .. 4 : \E one, two \in Selections(count) :
    Answer(FillDenseLatinHypercube(count, <<one, two>>))

(* All the words that an engine may give, to one distribution. *)
CallUniformInteger ==
  \E signed \in BOOLEAN :
    LET least == IF signed THEN 0 - Modulus \div 2 ELSE 0
    IN \E lower, upper \in least .. least + Modulus - 1 :
         \/ lower > upper /\ Answer(Refused("integer", "kInvalidArgument"))
         \/ /\ lower <= upper
            /\ Answer([kind |-> "integer", status |-> "kOk", values |-> lower .. upper,
                       outcome |-> UniformInteger(signed, lower, upper)])

(* All the selections that a shuffle may make. *)
CallShuffle ==
  \E size \in 0 .. 4 :
    Answer([kind |-> "shuffle", status |-> "kOk",
            values |-> {f \in [0 .. size - 1 -> 0 .. size - 1] : IsInjective(f)},
            outcome |-> [selected \in Selections(size) |-> Shuffle(size, selected)]])

------------------------------------------------------------------------------
\* SobolSequence

Position(dimensions, index) ==
  /\ sequence' = [dimensions |-> dimensions, index |-> index, exhausted |-> FALSE,
                  status |-> "kOk"]
  /\ taken' = [i \in Indices |-> 0]

Ends(status) ==
  /\ sequence' = [sequence EXCEPT !.status = status]
  /\ UNCHANGED taken

Create ==
  /\ \E dimensions \in 0 .. Len(DirectionRows) + 2, index \in Positions :
       IF dimensions > Len(DirectionRows) + 1
       THEN Answer(Refused("sequence", "kShape"))
       ELSE Position(dimensions, index) /\ UNCHANGED call

(* Reset() and SkipTo() *)
Reset ==
  /\ sequence # None
  /\ \E index \in Positions : Position(sequence.dimensions, index)
  /\ UNCHANGED call

(* The last index is given once, and then the sequence is exhausted. *)
AfterPointWrapping(s) == [s EXCEPT !.index = Unsigned(@ + 1)]

AfterPoint(s) ==
  IF s.index = MaxIndex THEN [s EXCEPT !.exhausted = TRUE]
  ELSE [s EXCEPT !.index = @ + 1]

NextPoint ==
  /\ sequence # None
  /\ \E size \in 0 .. 2 :
       IF size # sequence.dimensions THEN Ends("kShape")
       ELSE IF size = 0 THEN Ends("kOk")
       ELSE IF sequence.exhausted THEN Ends("kEndOfFile")
       ELSE /\ sequence' = [AfterPoint(sequence) EXCEPT !.status = "kOk"]
            /\ taken' = [taken EXCEPT ![sequence.index] = @ + 1]
  /\ UNCHANGED call

Skip ==
  /\ sequence # None
  /\ \E count \in Counts :
       IF sequence.exhausted THEN Ends("kEndOfFile")
       ELSE IF count > MaxIndex - sequence.index THEN Ends("kOverflow")
       ELSE /\ sequence' = [sequence EXCEPT !.index = @ + count, !.status = "kOk"]
            /\ UNCHANGED taken
  /\ UNCHANGED call

(* The caller drops the result, or the sequence. *)
Drop ==
  /\ call.kind # "none" \/ sequence # None
  /\ call' = Refused("none", "kOk")
  /\ sequence' = None
  /\ taken' = [index \in Indices |-> 0]

Begin ==
  \/ CallSobol \/ CallHalton \/ CallScrambledHalton \/ CallHammersley
  \/ CallLatinHypercube \/ CallUniformInteger \/ CallShuffle
  \/ Create

Next ==
  \/ call.kind = "none" /\ sequence = None /\ Begin
  \/ Reset \/ NextPoint \/ Skip \/ Drop

Spec == Init /\ [][Next]_vars

------------------------------------------------------------------------------

(* A sequence gives no index twice after it was positioned, not even at    *)
(* the end of the index range, where it is exhausted once the last index   *)
(* was given; what it has given lies behind it.                            *)
PointsComeOnce ==
  \A index \in Indices :
    /\ taken[index] <= 1
    /\ taken[index] = 1 => index < sequence.index \/ sequence.exhausted
    /\ sequence # None /\ sequence.exhausted => taken[MaxIndex] = 1

(* The samples numbered by rows lie in different boxes, when the k[d] most *)
(* significant digits of coordinate d say which box a point is in.         *)
InDifferentBoxes(samples, k) ==
  IsInjective([i \in samples |-> [d \in DOMAIN k |-> SubSeq(call.rows[i][d], 1, k[d])]])

(* For any number of boxes per coordinate, how many boxes there are *)
Boxes(bases, k) ==
  FoldFunctionOnSet(LAMBDA x, y : x * y, 1, [d \in DOMAIN k |-> bases[d] ^ k[d]], DOMAIN k)

Runs(length) == {s .. s + length - 1 : s \in 1 .. Len(call.rows) - length + 1}

(* As many consecutive samples as there are boxes lie one in each: boxes   *)
(* of any edges for Halton points, of one or the first two coordinates for *)
(* Sobol points that start at a multiple of the number, and with the       *)
(* leading coordinate for a whole Hammersley set.  The strata of a Latin   *)
(* hypercube hold one sample each in every coordinate.                     *)
PointsAreStratified ==
  call.status = "kOk" =>
    CASE call.kind = "halton" ->
           \A k \in [DOMAIN call.bases -> 0 .. 2] :
             \A run \in Runs(Boxes(call.bases, k)) : InDifferentBoxes(run, k)
      [] call.kind = "sobol" ->
           \A k \in [DOMAIN call.bases -> 0 .. Width] :
             {d \in DOMAIN k : k[d] > 0} \in {{d} : d \in DOMAIN k} \cup {{1, 2}} =>
               LET boxes == Boxes(call.bases, k) IN
               \A run \in Runs(boxes) :
                 (call.first + Min(run) - 1) % boxes = 0 => InDifferentBoxes(run, k)
      [] call.kind = "hammersley" /\ call.first = 0 ->
           \A k \in [DOMAIN call.bases -> 0 .. 3] :
             Boxes(call.bases, k) = Len(call.rows) /\ Boxes(call.bases, k) = call.total =>
               InDifferentBoxes(DOMAIN call.rows, k)
      [] call.kind = "latin" ->
           \A d \in DOMAIN call.rows[1] :
             {call.rows[i][d] : i \in DOMAIN call.rows} = 0 .. Len(call.rows) - 1
      [] OTHER -> TRUE

(* Whatever its bounds, an integer distribution gives every integer of its *)
(* range for equally many words and no other integer, and a shuffle gives  *)
(* every order for equally many selections.                                *)
DrawsAreUniform ==
  call.kind \in {"integer", "shuffle"} /\ call.status = "kOk" =>
    /\ Range(call.outcome) = call.values
    /\ \A v, w \in call.values :
         Quantify(DOMAIN call.outcome, LAMBDA x : call.outcome[x] = v)
           = Quantify(DOMAIN call.outcome, LAMBDA x : call.outcome[x] = w)
=============================================================================

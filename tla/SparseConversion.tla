-------------------------- MODULE SparseConversion ---------------------------
(***************************************************************************)
(* The storage of rank-two sparse owners and the conversions between its   *)
(* three formats (include/asc/sparse/compressed.h and coordinate.h): an     *)
(* owner is created from arrays the caller offers, if they are canonical,   *)
(* its stored values are written by Evaluate (evaluate.h), and FromCoordinate, *)
(* FromCompressed and ConvertToCoordinate build the same matrix in another *)
(* format, one visited entry per step. Positions count from zero.          *)
(***************************************************************************)
EXTENDS SparseCoordinates, FiniteSetsExt

CONSTANTS
  Elements,    \* values an entry may store
  Default,     \* what Lookup answers where nothing is stored
  Offsets,     \* what a caller may put into an array of offsets
  MaxStored,   \* bound on the entries of an owner
  Unset        \* what an allocated buffer holds before it is written

ASSUME ConversionAssumption ==
  Len(Shape) = 2 /\ MaxStored \in Nat /\ Offsets \subseteq Int /\ Unset \notin Elements

VARIABLES
  stage,      \* what is being done
  format,     \* the format of the offered arrays, then of the owner
  array,      \* its arrays
  target,     \* the format a conversion builds
  built,      \* the arrays it builds
  outer,      \* the outer index of the target
  from,       \* the outer index of the source
  position,   \* the source entry to visit next
  output,     \* the entries written
  matrix      \* the entries the owner stands for

vars == <<stage, format, array, target, built, outer, from, position, output, matrix>>

Compressed == {"csr", "csc"}
Formats == Compressed \cup {"coordinate"}
Stages == {"offered", "refused", "owned", "converting"}

-----------------------------------------------------------------------------

OuterOf(f, a) == IF f = "csr" THEN a[1] ELSE a[2]
InnerOf(f, a) == IF f = "csr" THEN a[2] ELSE a[1]
OuterExtent(f) == OuterOf(f, Shape)
InnerExtent(f) == InnerOf(f, Shape)

(* Coordinate<Format>(outer, inner) *)
At(f, o, i) == IF f = "csr" THEN <<o, i>> ELSE <<i, o>>

Positions == (0 .. Shape[1] - 1) \X (0 .. Shape[2] - 1)

(* The arrays of n entries: the offsets of compressed storage, its inner   *)
(* indices or whole coordinates, and the values.                           *)
Storage(offsets, indices, values) ==
  [offsets |-> offsets, indices |-> indices, values |-> values]

Count(s) == Cardinality(DOMAIN s.indices)

Slots(n) == 0 .. n - 1

OffsetArrays(f) ==
  IF f = "coordinate" THEN {<<>>} ELSE [0 .. OuterExtent(f) -> Offsets]

IndexArrays(f, n) ==
  [Slots(n) -> IF f = "coordinate" THEN Coordinates ELSE Indices]

-----------------------------------------------------------------------------
(* ValidateCanonicalStructure of the two kinds of views. *)

(* Seeded fault: a row without entries is refused. *)
CanonicalRowNonempty(f, s, o) ==
  LET begin == s.offsets[o]
      end   == s.offsets[o + 1]
  IN  /\ 0 <= begin /\ begin < end /\ end <= Count(s)
      /\ \A p \in begin .. end - 1 :
           /\ 0 <= s.indices[p] /\ s.indices[p] < InnerExtent(f)
           /\ p # begin => s.indices[p - 1] < s.indices[p]

CanonicalRow(f, s, o) ==
  LET begin == s.offsets[o]
      end   == s.offsets[o + 1]
  IN  /\ 0 <= begin /\ begin <= end /\ end <= Count(s)
      /\ \A p \in begin .. end - 1 :
           /\ 0 <= s.indices[p] /\ s.indices[p] < InnerExtent(f)
           /\ p # begin => s.indices[p - 1] < s.indices[p]

Canonical(f, s) ==
  IF f = "coordinate"
  THEN \A p \in Slots(Count(s)) :
         /\ InBounds(s.indices[p])
         /\ p # 0 => Precedes(s.indices[p - 1], s.indices[p])
  ELSE /\ s.offsets[0] = 0
       /\ \A o \in Slots(OuterExtent(f)) : CanonicalRow(f, s, o)
       /\ s.offsets[OuterExtent(f)] = Count(s)

(* Seeded fault: the search for a row stops at an end that is not behind p. *)
RowOfEarly(s, p) ==
  Min({o \in DOMAIN s.offsets : o + 1 \in DOMAIN s.offsets /\ p <= s.offsets[o + 1]})

(* The outer index of entry p: the first one whose end lies behind p. *)
RowOf(s, p) ==
  Min({o \in DOMAIN s.offsets : o + 1 \in DOMAIN s.offsets /\ p < s.offsets[o + 1]})

(* The coordinate of entry p of storage s, as the readers compute it. *)
CoordinateOf(f, s, p) ==
  IF f = "coordinate" THEN s.indices[p] ELSE At(f, RowOf(s, p), s.indices[p])

Entry(a, v) == [at |-> a, value |-> v]

Entries(f, s) ==
  {Entry(CoordinateOf(f, s, p), s.values[p]) : p \in Slots(Count(s))}

-----------------------------------------------------------------------------

NoArrays == Storage(<<>>, <<>>, <<>>)

(* A caller offers arrays, in an order the type of the owner determines. *)
Init ==
  /\ stage = "offered"
  /\ format \in Formats
  /\ \E n \in 0 .. MaxStored : \E offsets \in OffsetArrays(format) :
       \E indices \in IndexArrays(format, n) :
         array = Storage(offsets, indices, <<>>)
  /\ target = format /\ built = NoArrays
  /\ outer = 0 /\ from = 0 /\ position = 0 /\ output = 0
  /\ matrix = {}

(* Create of a CoordinateArray or a CompressedSparseArray. *)
Create(values) ==
  /\ stage = "offered"
  /\ Count(array) <= Shape[1] * Shape[2] /\ Canonical(format, array)
  /\ stage' = "owned"
  /\ array' = [array EXCEPT !.values = values]
  /\ matrix' = Entries(format, array')
  /\ UNCHANGED <<format, target, built, outer, from, position, output>>

CreateFails ==
  /\ stage = "offered"
  /\ ~(Count(array) <= Shape[1] * Shape[2] /\ Canonical(format, array))
  /\ stage' = "refused"
  /\ UNCHANGED <<format, array, target, built, outer, from, position, output,
                 matrix>>

(* Evaluate writes the value of its expression at the coordinate of a      *)
(* stored entry.                                                           *)
Write(p, v) ==
  /\ stage = "owned"
  /\ array' = [array EXCEPT !.values[p] = v]
  /\ LET a == CoordinateOf(format, array, p)
     IN  matrix' = {e \in matrix : e.at # a} \cup {Entry(a, v)}
  /\ UNCHANGED <<stage, format, target, built, outer, from, position, output>>

-----------------------------------------------------------------------------
(* Conversions. The source is read in segments: the rows of compressed      *)
(* storage, or all the entries of coordinate storage.                      *)

Segments(f) == IF f = "coordinate" THEN 1 ELSE OuterExtent(f)
SegmentBegin(k) == IF format = "coordinate" THEN 0 ELSE array.offsets[k]
SegmentEnd(k) == IF format = "coordinate" THEN Count(array) ELSE array.offsets[k + 1]

(* The buffers of the target. For coordinates they are the builder's, with *)
(* room for as many entries as the source has.                             *)
Fresh(f, n) ==
  Storage(IF f = "coordinate" THEN <<>>
          ELSE [o \in 0 .. OuterExtent(f) |-> IF o = 0 THEN 0 ELSE Unset],
          [p \in Slots(n) |-> Unset], [p \in Slots(n) |-> Unset])

(* A conversion to another format begins; a refused context or a failed    *)
(* allocation is returned before anything is written.                      *)
Convert(f) ==
  /\ stage = "owned" /\ f # format
  /\ stage' = "converting"
  /\ target' = f
  /\ built' = Fresh(f, Count(array))
  /\ outer' = 0 /\ from' = 0 /\ output' = 0
  /\ position' = IF Segments(format) = 0 THEN 0 ELSE SegmentBegin(0)
  /\ UNCHANGED <<format, array, matrix>>

Visiting ==
  /\ stage = "converting" /\ from < Segments(format)
  /\ target = "coordinate" \/ outer < OuterExtent(target)

Here ==
  IF format = "coordinate" THEN array.indices[position]
  ELSE At(format, from, array.indices[position])

Put(index) ==
  /\ built' = [built EXCEPT !.indices[output] = index,
                            !.values[output] = array.values[position]]
  /\ output' = output + 1

(* FromCoordinate and FromCompressed: the entries of one outer index. *)
Fill ==
  /\ Visiting /\ target # "coordinate" /\ position < SegmentEnd(from)
  /\ IF OuterOf(target, Here) = outer THEN Put(InnerOf(target, Here))
     ELSE UNCHANGED <<built, output>>
  /\ position' = position + 1
  /\ UNCHANGED <<stage, format, array, target, outer, from, matrix>>

(* ConvertToCoordinate: CoordinateBuilder::Add. *)
Collect ==
  /\ Visiting /\ target = "coordinate" /\ position < SegmentEnd(from)
  /\ Put(Here)
  /\ position' = position + 1
  /\ UNCHANGED <<stage, format, array, target, outer, from, matrix>>

(* Seeded fault: the traversal goes back to the segment it has read. *)
NextSegmentRepeats ==
  /\ Visiting /\ position >= SegmentEnd(from)
  /\ from' = from + 1
  /\ position' = 0
  /\ UNCHANGED <<stage, format, array, target, built, outer, output, matrix>>

NextSegment ==
  /\ Visiting /\ position >= SegmentEnd(from)
  /\ from' = from + 1
  /\ position' = IF from' < Segments(format) THEN SegmentBegin(from') ELSE position
  /\ UNCHANGED <<stage, format, array, target, built, outer, output, matrix>>

(* The source has been read for one outer index of compressed storage. *)
NextOuter ==
  /\ stage = "converting" /\ target # "coordinate"
  /\ outer < OuterExtent(target) /\ from = Segments(format)
  /\ built' = [built EXCEPT !.offsets[outer + 1] = output]
  /\ outer' = outer + 1
  /\ from' = 0
  /\ position' = IF Segments(format) = 0 THEN 0 ELSE SegmentBegin(0)
  /\ UNCHANGED <<stage, format, array, target, output, matrix>>

(* The caller keeps the new owner in place of the source. *)
Finish(s) ==
  /\ stage' = "owned" /\ format' = target /\ array' = s
  /\ built' = NoArrays
  /\ outer' = 0 /\ from' = 0 /\ position' = 0 /\ output' = 0
  /\ UNCHANGED <<target, matrix>>

FinishCompressed ==
  /\ stage = "converting" /\ target # "coordinate" /\ outer = OuterExtent(target)
  /\ Finish(built)

(* What CoordinateBuilder::Finalize makes of entries without duplicates. *)
Sorted(s) ==
  LET Rank(q) == Cardinality({r \in DOMAIN s.indices : Precedes(s.indices[r], s.indices[q])})
      At0(p)  == CHOOSE q \in DOMAIN s.indices : Rank(q) = p
  IN  Storage(<<>>, [p \in DOMAIN s.indices |-> s.indices[At0(p)]],
                    [p \in DOMAIN s.indices |-> s.values[At0(p)]])

FinishCoordinate ==
  /\ stage = "converting" /\ target = "coordinate" /\ from = Segments(format)
  /\ Finish(Sorted(built))

Next ==
  \/ \E values \in [DOMAIN array.indices -> Elements] : Create(values)
  \/ CreateFails
  \/ \E p \in DOMAIN array.indices, v \in Elements : Write(p, v)
  \/ \E f \in Formats : Convert(f)
  \/ Fill \/ Collect \/ NextSegment \/ NextOuter
  \/ FinishCompressed \/ FinishCoordinate

Spec == Init /\ [][Next]_vars

-----------------------------------------------------------------------------
(* Reading compressed storage. *)

(* CompressedSparseView::Lookup: the binary search of a row. *)
Search(i, begin, end) ==
  LET search[range \in (begin .. end) \X (begin .. end)] ==
        LET first == range[1]
            last == range[2]
            middle == first + (last - first) \div 2
        IN IF first >= last THEN first
           ELSE IF array.indices[middle] < i THEN search[<<middle + 1, last>>]
           ELSE search[<<first, middle>>]
  IN search[<<begin, end>>]

(* Seeded fault: the entry found is not compared with the index sought. *)
LookupUnchecked(a) ==
  LET o == OuterOf(format, a)
      p == Search(InnerOf(format, a), array.offsets[o], array.offsets[o + 1])
  IN  IF p < array.offsets[o + 1] THEN array.values[p] ELSE Default

Lookup(a) ==
  LET o == OuterOf(format, a)
      i == InnerOf(format, a)
      p == Search(i, array.offsets[o], array.offsets[o + 1])
  IN  IF p < array.offsets[o + 1] /\ array.indices[p] = i
      THEN array.values[p] ELSE Default

-----------------------------------------------------------------------------
(* How many of the coordinates S lie before a in the order of format f. *)
Before(f, S, a) ==
  Cardinality({b \in S :
    IF f = "coordinate" THEN Precedes(b, a)
    ELSE \/ OuterOf(f, b) < OuterOf(f, a)
         \/ OuterOf(f, b) = OuterOf(f, a) /\ InnerOf(f, b) < InnerOf(f, a)})

(* The one structure that stores exactly the coordinates S in format f.    *)
Stores(f, s, S) ==
  /\ Count(s) = Cardinality(S)
  /\ \A a \in S : s.indices[Before(f, S, a)] =
       IF f = "coordinate" THEN a ELSE InnerOf(f, a)
  /\ f # "coordinate" => \A o \in DOMAIN s.offsets :
       s.offsets[o] = Cardinality({a \in S : OuterOf(f, a) < o})

(* An owner stores its matrix and nothing else: creation, Evaluate and any *)
(* sequence of conversions keep every entry, explicit zeros too, and no    *)
(* row is attributed to another.                                           *)
OwnerStoresItsMatrix ==
  stage = "owned" =>
    LET S == {e.at : e \in matrix} IN
    /\ Stores(format, array, S)
    /\ \A e \in matrix : array.values[Before(format, S, e.at)] = e.value

(* The arrays that Create refuses store no set of coordinates.             *)
RefusedArraysStoreNothing ==
  stage = "refused" =>
    \A S \in kSubset(Count(array), Positions) : ~Stores(format, array, S)

(* Lookup answers every coordinate of the shape with the stored value.     *)
LookupReadsTheMatrix ==
  stage = "owned" /\ format # "coordinate" =>
    \A a \in Positions :
      Lookup(a) = IF \E e \in matrix : e.at = a
                  THEN (CHOOSE e \in matrix : e.at = a).value ELSE Default

(* ConvertToCoordinate never meets an error of the builder it fills: every *)
(* Add is within its shape and capacity, and Finalize rejects no duplicate. *)
BuilderTakesEveryEntry ==
  stage = "converting" /\ target = "coordinate" =>
    /\ Visiting /\ position < SegmentEnd(from) =>
         InBounds(Here) /\ output < Count(array)
    /\ \A p, q \in Slots(output) : built.indices[p] = built.indices[q] => p = q

=============================================================================

---------------------------- MODULE BlasStorage -----------------------------
(***************************************************************************)
(* The elements, the storage and the views of Dense and Sparse BLAS: what a *)
(* view of a vector or of a full, band, packed or sparse matrix may reach,  *)
(* and where each of its elements is.                                       *)
(*                                                                          *)
(* A view is a record                                                       *)
(*   kind                 "vector", "full", "band" (general), "triangular"  *)
(*                        (a triangular band) or "packed"                   *)
(*   base                 the cell its data pointer names                   *)
(*   rows, columns        its logical shape; a vector has one column        *)
(*   ld                   its leading dimension, or increment               *)
(*   layout               "column" or "row" major                           *)
(*   lower, upper         bandwidths, both the one bandwidth of a           *)
(*                        triangular band                                   *)
(* Indices start at 0, as in the code. Cells are addresses divided by the   *)
(* size of an element.                                                      *)
(*                                                                          *)
(* A view of a sparse operand is a record                                   *)
(*   kind                 "indexed" (a vector), "csr" or "csc"              *)
(*   base, indices, offsets   the cells where the arrays of its values, its *)
(*                        inner indices and its outer offsets begin         *)
(*   rows, columns        its logical shape                                 *)
(*   entries              the coordinates it stores, in the arrays' order   *)
(*   room                 how far the value storage that an indexed vector  *)
(*                        is given goes beyond its values                   *)
(***************************************************************************)
EXTENDS Integers, SequencesExt

(* Elements are complex numbers with integer parts, exact where the code   *)
(* rounds; real ones have an imaginary part of zero. A shorter tuple is    *)
(* something a routine must not read: <<x>> what cell x held before anyone *)
(* gave it a number, Undefined what comes of computing with it. A longer   *)
(* one is an index, of which a sparse operand has arrays.                  *)
Zero == <<0, 0>>
One  == <<1, 0>>
Undefined == <<>>

Index(n) == <<n, 0, 0>>

IsNumber(x) == Len(x) = 2

Plus(x, y) ==
  IF IsNumber(x) /\ IsNumber(y) THEN <<x[1] + y[1], x[2] + y[2]>>
  ELSE Undefined

Times(x, y) ==
  IF IsNumber(x) /\ IsNumber(y)
  THEN <<x[1] * y[1] - x[2] * y[2], x[1] * y[2] + x[2] * y[1]>>
  ELSE Undefined

Conjugate(x) == IF IsNumber(x) THEN <<x[1], -x[2]>> ELSE Undefined
RealPart(x)  == IF IsNumber(x) THEN <<x[1], 0>> ELSE Undefined
Minus(x, y)  == Plus(x, Times(<<-1, 0>>, y))

(* Division; exact here because every divisor has modulus one. *)
Over(x, y) == Times(x, Conjugate(y))

Absolute(n) == IF n < 0 THEN -n ELSE n

(* |re| + |im|, the size of an element in sums and searches. *)
Magnitude(x) ==
  IF IsNumber(x) THEN <<Absolute(x[1]) + Absolute(x[2]), 0>> ELSE Undefined

MaybeConjugate(x, conjugate) == IF conjugate THEN Conjugate(x) ELSE x

(* The sum of Term(k) for k from first to last. *)
SumOver(first, last, Term(_)) ==
  FoldFunction(Plus, Zero, [k \in first .. last |-> Term(k)])

(* Loops over elements write them one after another, each computed from    *)
(* the memory that the writes before it left.                              *)
Sweep(mem, places, At(_), Value(_, _)) ==
  FoldLeft(LAMBDA m, p : [m EXCEPT ![At(p)] = Value(m, p)], mem, places)

Upwards(n)   == [k \in 1 .. n |-> k - 1]
Downwards(n) == [k \in 1 .. n |-> n - k]

RowByRow(is, js) ==
  [k \in 1 .. Len(is) * Len(js) |->
     <<is[((k - 1) \div Len(js)) + 1], js[((k - 1) % Len(js)) + 1]>>]

ColumnByColumn(is, js) ==
  [k \in 1 .. Len(is) * Len(js) |->
     <<is[((k - 1) % Len(is)) + 1], js[((k - 1) \div Len(is)) + 1]>>]

InTriangle(triangle, row, column) ==
  IF triangle = "upper" THEN row <= column ELSE row >= column

(* The elements of one triangle, row by row. *)
TriangleRowByRow(n, triangle) ==
  SelectSeq(RowByRow(Upwards(n), Upwards(n)),
            LAMBDA p : InTriangle(triangle, p[1], p[2]))

-----------------------------------------------------------------------------
(* Creation. A view has to describe its storage consistently, and all it   *)
(* reaches has to lie in the backing span it was given.                    *)

Major(v) == IF v.layout = "column" THEN v.columns ELSE v.rows
Minor(v) == IF v.layout = "column" THEN v.rows ELSE v.columns
Nothing(v) == v.rows = 0 \/ v.columns = 0

VectorDescribed(v) == v.ld # 0

MatrixDescribed(v) == v.ld >= Max({1, Minor(v)})

BandDescribed(v) ==
  /\ v.lower <= Max({v.rows - 1, 0})
  /\ v.upper <= Max({v.columns - 1, 0})
  /\ v.ld >= v.lower + v.upper + 1

TriangularBandDescribed(v) ==
  /\ v.rows # 0 => v.upper < v.rows
  /\ v.ld >= v.upper + 1

(* An indexed vector stores no more elements than it has. *)
IndexedDescribed(v) == Len(v.entries) <= v.rows

Described(v) ==
  CASE v.kind = "vector"     -> VectorDescribed(v)
    [] v.kind = "full"       -> MatrixDescribed(v)
    [] v.kind = "band"       -> BandDescribed(v)
    [] v.kind = "triangular" -> TriangularBandDescribed(v)
    [] v.kind = "indexed"    -> IndexedDescribed(v)
    [] v.kind \in {"packed", "csr", "csc"} -> TRUE

(* Seeded fault: a vector is taken to reach upwards from its first element. *)
VectorReachUpwards(v) ==
  IF v.rows = 0 THEN {} ELSE v.base .. (v.base + (v.rows - 1) * Max({v.ld, 0}))

(* A vector reaches from the lowest to the highest of its elements, the    *)
(* first of which is the highest when its increment is negative.           *)
VectorReach(v) ==
  LET ends == {v.base, v.base + (v.rows - 1) * v.ld}
  IN IF v.rows = 0 THEN {} ELSE Min(ends) .. Max(ends)

MatrixSpan(v) == (Major(v) - 1) * v.ld + Minor(v)

BandSpan(v) == Major(v) * v.ld

TriangularBandSpan(v) == v.rows * v.ld

PackedSpan(v) == (v.rows * (v.rows + 1)) \div 2

Span(v) ==
  CASE v.kind = "full"       -> MatrixSpan(v)
    [] v.kind = "band"       -> BandSpan(v)
    [] v.kind = "triangular" -> TriangularBandSpan(v)
    [] v.kind = "packed"     -> PackedSpan(v)

(* The arrays of a sparse operand, one cell to an index as to a value. *)
Sparse(v) == v.kind \in {"indexed", "csr", "csc"}

Stored(v) == Len(v.entries)

OuterExtent(v) == IF v.kind = "csr" THEN v.rows ELSE v.columns

ValueCells(v)  == v.base .. v.base + Stored(v) - 1
IndexCells(v)  == v.indices .. v.indices + Stored(v) - 1
OffsetCells(v) ==
  IF v.kind = "indexed" THEN {} ELSE v.offsets .. v.offsets + OuterExtent(v)

(* reachable_storage() *)
Reach(v) ==
  IF Sparse(v) THEN ValueCells(v) \cup IndexCells(v) \cup OffsetCells(v)
  ELSE IF Nothing(v) THEN {}
  ELSE IF v.kind = "vector" THEN VectorReach(v)
  ELSE v.base .. (v.base + Span(v) - 1)

Creates(v, backing) == Described(v) /\ Reach(v) \subseteq backing

Overlap(v, w) == Reach(v) \cap Reach(w) # {}

SameDescriptor(v, w) == v.base = w.base /\ v.rows = w.rows /\ v.ld = w.ld

-----------------------------------------------------------------------------
(* Element access. *)

VectorAt(v, i) == v.base + i * v.ld

MatrixAt(v, row, column) ==
  v.base + IF v.layout = "column" THEN column * v.ld + row
           ELSE row * v.ld + column

(* A band stores only the diagonals near the main one. *)
InBand(v, row, column) ==
  column <= row + v.upper /\ row <= column + v.lower

GeneralBandAt(v, row, column) ==
  v.base + IF v.layout = "column" THEN column * v.ld + v.upper + row - column
           ELSE row * v.ld + v.lower + column - row

TriangularBandAt(v, triangle, row, column) ==
  v.base +
    CASE v.layout = "column" /\ triangle = "upper" ->
           column * v.ld + v.upper + row - column
      [] v.layout = "column" /\ triangle = "lower" ->
           column * v.ld + row - column
      [] v.layout = "row" /\ triangle = "upper" ->
           row * v.ld + column - row
      [] v.layout = "row" /\ triangle = "lower" ->
           row * v.ld + v.upper + column - row

PackedOffset(order, layout, triangle, row, column) ==
  CASE layout = "column" /\ triangle = "upper" ->
         (column * (column + 1)) \div 2 + row
    [] layout = "column" /\ triangle = "lower" ->
         column * order - (column * (column - 1)) \div 2 + row - column
    [] layout = "row" /\ triangle = "upper" ->
         row * order - (row * (row - 1)) \div 2 + column - row
    [] layout = "row" /\ triangle = "lower" ->
         (row * (row + 1)) \div 2 + column

PackedAt(v, triangle, row, column) ==
  v.base + PackedOffset(v.rows, v.layout, triangle, row, column)

=============================================================================

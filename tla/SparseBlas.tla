----------------------------- MODULE SparseBlas -----------------------------
(***************************************************************************)
(* Sparse BLAS, as the serial facet computes it in loops over the stored    *)
(* elements, and as the CUDA facet does in kernels of the project's own and, *)
(* for the older CSR product, by a call of cuSPARSE. The arrays of indices  *)
(* and offsets are in the same memory as the elements, and are read from it *)
(* as the loops run.                                                        *)
(***************************************************************************)
EXTENDS BlasReference

IndexAt(m, v, position)  == m[v.indices + position][1]
OffsetAt(m, v, outer)    == m[v.offsets + outer][1]
ValueAt(v, position)     == v.base + position

(* The stored elements, each a row, a column and a position. *)
Coordinate(v, outer, inner) ==
  IF v.kind = "csr" THEN <<outer, inner>> ELSE <<inner, outer>>

OuterElements(m, v, outer) ==
  LET begin == OffsetAt(m, v, outer)
  IN [k \in 1 .. OffsetAt(m, v, outer + 1) - begin |->
        LET position == begin + k - 1
        IN Append(Coordinate(v, outer, IndexAt(m, v, position)), position)]

StoredElements(m, v) ==
  FlattenSeq([o \in 1 .. OuterExtent(v) |-> OuterElements(m, v, o - 1)])

-----------------------------------------------------------------------------
(* Creation of views, beyond the bounds of their arrays. The structure of  *)
(* a CSR or CSC matrix is checked where its arrays are made.               *)

IndexedCreates(m, v) ==
  /\ ValueCells(v) \cap IndexCells(v) = {}
  /\ \A k \in 0 .. Stored(v) - 1 :
       /\ IndexAt(m, v, k) \in 0 .. v.rows - 1
       /\ k > 0 => IndexAt(m, v, k - 1) < IndexAt(m, v, k)

(* Every stored element is in the triangle, and a diagonal to divide by is *)
(* stored and is not zero.                                                 *)
TriangularCreates(m, v, triangle, diagonal) ==
  LET stored == ToSet(StoredElements(m, v))
  IN /\ Square(v)
     /\ \A e \in stored : InTriangle(triangle, e[1], e[2])
     /\ diagonal = "stored" =>
          \A row \in 0 .. v.rows - 1 :
            \E e \in stored : /\ e[1] = row
                              /\ e[2] = row
                              /\ m[ValueAt(v, e[3])] # Zero

(* The views that are checked against what is in their arrays. *)
SparseCreates(m, r) ==
  /\ r.a.kind = "indexed" => IndexedCreates(m, r.a)
  /\ Routine(r) = "SparseSolve" =>
       TriangularCreates(m, r.a, r.triangle, r.diagonal)

-----------------------------------------------------------------------------
(* What a call refuses. *)

(* The value storage that an indexed vector is given may have room for     *)
(* more values; the serial facet keeps a dense vector out of it.           *)
GivenStorage(v) ==
  v.base .. v.base + Stored(v) + v.room - 1 \cup IndexCells(v)

SameExtent(r) == IF r.operation = "SparseDot" THEN r.b.rows = r.a.rows
                 ELSE r.c.rows = r.a.rows

IndexedAccepts(r) ==
  /\ SameExtent(r)
  /\ r.operation # "SparseDot" => GivenStorage(r.a) \cap Reach(r.c) = {}

CudaIndexedAccepts(r) ==
  /\ SameExtent(r)
  /\ ~Overlap(r.a, r.c)
  /\ r.operation = "SparseDot" => r.c.rows = 1 /\ ~Overlap(r.b, r.c)

ProductAccepts(r) ==
  /\ r.b.rows = OpColumns(r.a, r.transpose)
  /\ r.c.rows = OpRows(r.a, r.transpose)
  /\ r.b.columns = r.c.columns
  /\ ~Overlap(r.b, r.c)
  /\ ~Overlap(r.a, r.c)

(* Device matrices are in CSR storage. *)
CudaProductAccepts(r) == r.a.kind = "csr" /\ ProductAccepts(r)

CsrMvAccepts(r) ==
  /\ r.a.kind = "csr"
  /\ r.b.rows = r.a.columns
  /\ r.c.rows = r.a.rows
  /\ ~Overlap(r.b, r.c)
  /\ ~Overlap(r.a, r.c)

SparseSolveAccepts(r) == r.c.rows = r.a.rows /\ ~Overlap(r.a, r.c)

CudaSparseSolveAccepts(r) == r.a.kind = "csr" /\ SparseSolveAccepts(r)

-----------------------------------------------------------------------------
(* Level 1. a is the sparse vector, c the dense one or the result.         *)

Positions(v) == Upwards(Stored(v))

(* The cell of the dense element that belongs to a position. *)
DenseAt(m, sparse, dense, position) ==
  VectorAt(dense, IndexAt(m, sparse, position))

SparseDot(mem, r) ==
  LET Term(k) == Times(MaybeConjugate(mem[ValueAt(r.a, k)], r.hermitian),
                       mem[DenseAt(mem, r.a, r.b, k)])
  IN [mem EXCEPT ![VectorAt(r.c, 0)] = SumOver(0, Stored(r.a) - 1, Term)]

SparseAxpy(mem, r) ==
  LET At(k) == DenseAt(mem, r.a, r.c, k)
  IN IF r.alpha = Zero THEN mem
     ELSE Sweep(mem, Positions(r.a), At,
                LAMBDA m, k : Plus(m[At(k)],
                                   Times(r.alpha, m[ValueAt(r.a, k)])))

SparseGather(mem, r) ==
  Sweep(mem, Positions(r.a), LAMBDA k : ValueAt(r.a, k),
        LAMBDA m, k : m[DenseAt(m, r.a, r.c, k)])

SparseGatherZero(mem, r) ==
  FoldLeft(LAMBDA m, k :
             LET dense == DenseAt(m, r.a, r.c, k)
             IN [m EXCEPT ![ValueAt(r.a, k)] = m[dense], ![dense] = Zero],
           mem, Positions(r.a))

SparseScatter(mem, r) ==
  Sweep(mem, Positions(r.a), LAMBDA k : DenseAt(mem, r.a, r.c, k),
        LAMBDA m, k : m[ValueAt(r.a, k)])

-----------------------------------------------------------------------------
(* Products. The operands are vectors, which have one column, or matrices. *)

ElementAt(v, i, j) ==
  IF v.kind = "vector" THEN VectorAt(v, i) ELSE MatrixAt(v, i, j)

(* Spmv, Spmm. The serial loop adds what each stored element contributes,  *)
(* one right-hand side after another.                                      *)
SparseProduct(mem, r) ==
  LET exchanged == r.transpose # "none"
      OutputIndex(e) == IF exchanged THEN e[2] ELSE e[1]
      InputIndex(e)  == IF exchanged THEN e[1] ELSE e[2]
      At(p) == ElementAt(r.c, OutputIndex(p[1]), p[2])
      Value(m, p) ==
        Plus(m[At(p)],
             Times(Times(r.alpha,
                         MaybeConjugate(m[ValueAt(r.a, p[1][3])],
                                        r.transpose = "conjugate")),
                   m[ElementAt(r.b, InputIndex(p[1]), p[2])]))
  IN IF r.alpha = Zero THEN mem
     ELSE Sweep(mem, RowByRow(StoredElements(mem, r.a), Upwards(r.c.columns)),
                At, Value)

(* The product of one stored row with one column of b. *)
RowProduct(m, r, row, column) ==
  SumOver(OffsetAt(m, r.a, row), OffsetAt(m, r.a, row + 1) - 1,
          LAMBDA k : Times(m[ValueAt(r.a, k)],
                           m[ElementAt(r.b, IndexAt(m, r.a, k), column)]))

(* The older product, of a row at a time. *)
CsrMv(mem, r) ==
  LET At(row) == VectorAt(r.c, row)
      Value(m, row) ==
        Plus(Times(r.alpha, RowProduct(m, r, row, 0)),
             IF r.beta = Zero THEN Zero ELSE Times(r.beta, m[At(row)]))
  IN Sweep(mem, Upwards(r.a.rows), At, Value)

(* A kernel searches the row for the column. *)
CsrOpValue(m, r, row, column) ==
  LET exchanged == r.transpose # "none"
      sourceRow == IF exchanged THEN column ELSE row
      sourceColumn == IF exchanged THEN row ELSE column
      found == SelectSeq(OuterElements(m, r.a, sourceRow),
                         LAMBDA e : e[2] = sourceColumn)
      result == IF found = <<>> THEN Zero ELSE m[ValueAt(r.a, found[1][3])]
  IN MaybeConjugate(result, r.transpose = "conjugate")

(* A kernel computes each element of the output from a row of op(a). *)
StandardProductKernel(mem, r) ==
  LET At(p) == ElementAt(r.c, p[1], p[2])
      Sum(m, row, rhs) ==
        IF r.transpose = "none" THEN RowProduct(m, r, row, rhs)
        ELSE SumOver(0, r.b.rows - 1,
                     LAMBDA k : Times(CsrOpValue(m, r, row, k),
                                      m[ElementAt(r.b, k, rhs)]))
      Value(m, p) == Plus(m[At(p)], Times(r.alpha, Sum(m, p[1], p[2])))
  IN IF r.alpha = Zero THEN mem
     ELSE Sweep(mem, RowByRow(Upwards(r.c.rows), Upwards(r.c.columns)),
                At, Value)

(* cuSPARSE is given the size and the lowest cell of a vector and takes it *)
(* to be contiguous; other vectors, and matrices without columns, have a   *)
(* kernel. The workspace of cuSPARSE is apart from all operands.           *)
CudaCsrMv(mem, r) ==
  IF r.a.rows = 0 THEN [memory |-> mem, provider |-> <<>>]
  ELSE IF r.a.columns = 0 \/ r.b.ld # 1 \/ r.c.ld # 1
       THEN [memory |-> CsrMv(mem, r), provider |-> <<>>]
  ELSE [memory |-> mem, provider |-> <<[r EXCEPT !.b.ld = 1, !.c.ld = 1]>>]

-----------------------------------------------------------------------------
(* Triangular solutions. *)

(* The element of op(a), of all that are stored. *)
OpValue(m, r, row, column) ==
  LET source == IF r.transpose = "none" THEN <<row, column>> ELSE <<column, row>>
      found == SelectSeq(StoredElements(m, r.a),
                         LAMBDA e : <<e[1], e[2]>> = source)
  IN IF found = <<>> THEN Zero
     ELSE MaybeConjugate(m[ValueAt(r.a, Last(found)[3])],
                         r.transpose = "conjugate")

(* Substitution, in the order in which the unknowns become known, one      *)
(* right-hand side after another. At gives the cell of an unknown.         *)
Substitution(mem, r, Element(_, _, _), At(_)) ==
  LET order == r.a.rows
      lower == r.triangle = IF r.transpose = "none" THEN "lower" ELSE "upper"
      rows == IF lower THEN Upwards(order) ELSE Downwards(order)
      Value(m, p) ==
        LET row == p[1]
            rest == Minus(Times(r.alpha, m[At(p)]),
                          SumOver(IF lower THEN 0 ELSE row + 1,
                                  IF lower THEN row - 1 ELSE order - 1,
                                  LAMBDA k : Times(Element(m, row, k),
                                                   m[At(<<k, p[2]>>)])))
        IN IF r.diagonal = "unit" THEN rest ELSE Over(rest, Element(m, row, row))
      unknowns == ColumnByColumn(rows, Upwards(r.c.columns))
  IN Sweep(mem, unknowns, At,
           LAMBDA m, p : IF r.alpha = Zero THEN Zero ELSE Value(m, p))

SparseSolve(mem, r) ==
  Substitution(mem, r, LAMBDA m, i, j : OpValue(m, r, i, j),
               LAMBDA p : ElementAt(r.c, p[1], p[2]))

(* A kernel is given a vector as a row-major matrix of one column.         *)
AsMatrix(v) ==
  IF v.kind = "vector" THEN [v EXCEPT !.kind = "full", !.layout = "row"] ELSE v

StandardTriangularSolveKernel(mem, r) ==
  Substitution(mem, r, LAMBDA m, i, j : CsrOpValue(m, r, i, j),
               LAMBDA p : MatrixAt(AsMatrix(r.c), p[1], p[2]))

=============================================================================

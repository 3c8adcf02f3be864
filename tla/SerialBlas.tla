----------------------------- MODULE SerialBlas -----------------------------
(***************************************************************************)
(* Dense BLAS as the serial facet computes it: loops                        *)
(* over the elements of the destination, in an order that matters where a   *)
(* routine overwrites the operand it reads. Each routine takes the memory   *)
(* and a request it accepts, and gives the memory afterwards.               *)
(***************************************************************************)
EXTENDS BlasCalls

(* Element access, with m the memory at that moment. *)

GeneralAt(m, v, row, column) ==
  IF v.kind = "full" THEN m[MatrixAt(v, row, column)]
  ELSE IF InBand(v, row, column) THEN m[GeneralBandAt(v, row, column)]
  ELSE Zero

StoredAt(v, triangle, row, column) ==
  CASE v.kind = "full"       -> MatrixAt(v, row, column)
    [] v.kind = "triangular" -> TriangularBandAt(v, triangle, row, column)
    [] v.kind = "packed"     -> PackedAt(v, triangle, row, column)

OutOfBand(v, row, column) ==
  v.kind = "triangular" /\ ~InBand(v, row, column)

(* The other triangle is read from the stored one. *)
SymmetricAt(m, r, row, column) ==
  LET reflected == ~InTriangle(r.triangle, row, column)
      value == m[IF reflected THEN StoredAt(r.a, r.triangle, column, row)
                 ELSE StoredAt(r.a, r.triangle, row, column)]
  IN IF OutOfBand(r.a, row, column) THEN Zero
     ELSE IF row = column /\ r.hermitian THEN RealPart(value)
     ELSE MaybeConjugate(value, r.hermitian /\ reflected)

TriangularAt(m, r, row, column) ==
  IF row = column /\ r.diagonal = "unit" THEN One
  ELSE IF ~InTriangle(r.triangle, row, column) \/ OutOfBand(r.a, row, column)
       THEN Zero
  ELSE m[StoredAt(r.a, r.triangle, row, column)]

OperationAt(Access(_, _), transpose, row, column) ==
  MaybeConjugate(IF transpose = "none" THEN Access(row, column)
                 ELSE Access(column, row),
                 transpose = "conjugate")

TriangularOperationAt(m, r, row, column) ==
  OperationAt(LAMBDA i, j : TriangularAt(m, r, i, j), r.transpose, row, column)

(* Seeded fault: a transpose does not exchange the triangles. *)
EffectiveUpperOfStored(r) == r.triangle = "upper"

EffectiveUpper(r) ==
  IF r.transpose = "none" THEN r.triangle = "upper" ELSE r.triangle = "lower"

(* alpha times the product, which is not formed for alpha = 0, plus beta   *)
(* times the old value, which is not read for beta = 0.                    *)
Blend(r, product, old) ==
  Plus(IF r.alpha = Zero THEN Zero ELSE Times(r.alpha, product),
       IF r.beta = Zero THEN Zero ELSE Times(r.beta, old))

-----------------------------------------------------------------------------
(* Level 1. x is r.a and y is r.c. *)

(* A loop over two vectors that reads an element of each and then writes   *)
(* both.                                                                   *)
Together(mem, r, X(_, _), Y(_, _)) ==
  FoldLeft(LAMBDA m, i :
             LET oldX == m[VectorAt(r.a, i)]
                 oldY == m[VectorAt(r.c, i)]
             IN [m EXCEPT ![VectorAt(r.a, i)] = X(oldX, oldY),
                          ![VectorAt(r.c, i)] = Y(oldX, oldY)],
           mem, Upwards(r.a.rows))

Rot(mem, r) ==
  Together(mem, r,
           LAMBDA x, y : Plus(Times(r.alpha, x), Times(r.beta, y)),
           LAMBDA x, y : Minus(Times(r.alpha, y), Times(r.beta, x)))

Rotm(mem, r) ==
  LET parameter(k) == mem[VectorAt(r.b, k)]
      flag == parameter(0)
      X(x, y) == Plus(IF flag = Zero THEN x ELSE Times(x, parameter(1)),
                      IF flag = One THEN y ELSE Times(y, parameter(3)))
      Y(x, y) == Plus(IF flag = One THEN Minus(Zero, x)
                      ELSE Times(x, parameter(2)),
                      IF flag = Zero THEN y ELSE Times(y, parameter(4)))
  IN IF flag = <<-2, 0>> THEN mem ELSE Together(mem, r, X, Y)

Swap(mem, r) ==
  IF SameDescriptor(r.a, r.c) THEN mem
  ELSE Together(mem, r, LAMBDA x, y : y, LAMBDA x, y : x)

Scal(mem, r) ==
  Sweep(mem, Upwards(r.c.rows), LAMBDA i : VectorAt(r.c, i),
        LAMBDA m, i : Times(r.alpha, m[VectorAt(r.c, i)]))

Copy(mem, r) ==
  IF SameDescriptor(r.a, r.c) THEN mem
  ELSE Sweep(mem, Upwards(r.a.rows), LAMBDA i : VectorAt(r.c, i),
             LAMBDA m, i : m[VectorAt(r.a, i)])

Axpy(mem, r) ==
  IF r.alpha = Zero THEN mem
  ELSE Sweep(mem, Upwards(r.a.rows), LAMBDA i : VectorAt(r.c, i),
             LAMBDA m, i : Plus(m[VectorAt(r.c, i)],
                                Times(r.alpha, m[VectorAt(r.a, i)])))

Write(mem, v, value) == [mem EXCEPT ![VectorAt(v, 0)] = value]

Dot(mem, r) ==
  LET Term(k) == Times(MaybeConjugate(mem[VectorAt(r.a, k)], r.hermitian),
                       mem[VectorAt(r.b, k)])
  IN Write(mem, r.c, Plus(r.alpha, SumOver(0, r.a.rows - 1, Term)))

Asum(mem, r) ==
  Write(mem, r.c, SumOver(0, r.a.rows - 1,
                          LAMBDA k : Magnitude(mem[VectorAt(r.a, k)])))

(* A later element replaces the maximum only if it is larger. *)
MaximumIndex(mem, v) ==
  LET size(i) == Magnitude(mem[VectorAt(v, i)])[1]
  IN FoldLeft(LAMBDA found, i : IF size(i) > size(found) THEN i ELSE found,
              0, Upwards(v.rows))

Iamax(mem, r) ==
  Write(mem, r.c, IF r.a.rows = 0 THEN <<-1, 0>>
                  ELSE <<MaximumIndex(mem, r.a), 0>>)

-----------------------------------------------------------------------------
(* Level 2. *)

(* Gemv, Gbmv *)
GeneralMv(mem, r) ==
  LET Value(m, p) ==
        Blend(r,
              SumOver(0, r.b.rows - 1,
                      LAMBDA k :
                        Times(OperationAt(LAMBDA i, j : GeneralAt(m, r.a, i, j),
                                          r.transpose, p, k),
                              m[VectorAt(r.b, k)])),
              m[VectorAt(r.c, p)])
  IN Sweep(mem, Upwards(r.c.rows), LAMBDA p : VectorAt(r.c, p), Value)

(* Symv, Hemv and their banded and packed forms *)
StructuredMv(mem, r) ==
  LET Value(m, p) ==
        Blend(r,
              SumOver(0, r.a.rows - 1,
                      LAMBDA k : Times(SymmetricAt(m, r, p, k),
                                       m[VectorAt(r.b, k)])),
              m[VectorAt(r.c, p)])
  IN Sweep(mem, Upwards(r.a.rows), LAMBDA p : VectorAt(r.c, p), Value)

(* Trmv, Trsv and their banded and packed forms. An element is overwritten *)
(* when no later row reads it any more (a product), or when all that it    *)
(* depends on has its final value (a solution).                            *)
TriangularVector(mem, r) ==
  LET order == r.a.rows
      upper == EffectiveUpper(r)
      solve == r.operation = "triangularSolve"
      rows == IF upper # solve THEN Upwards(order) ELSE Downwards(order)
      Term(m, row, k) ==
        Times(TriangularOperationAt(m, r, row, k), m[VectorAt(r.c, k)])
      Product(m, row) ==
        SumOver(IF upper THEN row ELSE 0, IF upper THEN order - 1 ELSE row,
                LAMBDA k : Term(m, row, k))
      Remainder(m, row) ==
        Minus(m[VectorAt(r.c, row)],
              SumOver(IF upper THEN row + 1 ELSE 0,
                      IF upper THEN order - 1 ELSE row - 1,
                      LAMBDA k : Term(m, row, k)))
      Value(m, row) ==
        IF ~solve THEN Product(m, row)
        ELSE IF r.diagonal = "unit" THEN Remainder(m, row)
        ELSE Over(Remainder(m, row), TriangularOperationAt(m, r, row, row))
  IN Sweep(mem, rows, LAMBDA p : VectorAt(r.c, p), Value)

(* Ger, Geru, Gerc *)
GeneralRank(mem, r) ==
  LET Value(m, p) ==
        Plus(m[MatrixAt(r.c, p[1], p[2])],
             Times(Times(r.alpha, m[VectorAt(r.a, p[1])]),
                   MaybeConjugate(m[VectorAt(r.b, p[2])], r.hermitian)))
  IN IF r.alpha = Zero THEN mem
     ELSE Sweep(mem, ColumnByColumn(Upwards(r.c.rows), Upwards(r.c.columns)),
                LAMBDA p : MatrixAt(r.c, p[1], p[2]), Value)

(* Syr, Her, Syr2, Her2 and their packed forms *)
StructuredRank(mem, r) ==
  LET Outer(m, alpha, x, y, p) ==
        Times(Times(alpha, m[VectorAt(x, p[1])]),
              MaybeConjugate(m[VectorAt(y, p[2])], r.hermitian))
      Update(m, p) ==
        Plus(Outer(m, r.alpha, r.a, r.b, p),
             IF ~r.two THEN Zero
             ELSE Outer(m, MaybeConjugate(r.alpha, r.hermitian), r.b, r.a, p))
      At(p) == StoredAt(r.c, r.triangle, p[1], p[2])
      Value(m, p) ==
        LET new == Plus(m[At(p)], Update(m, p))
        IN IF r.hermitian /\ p[1] = p[2] THEN RealPart(new) ELSE new
  IN IF r.alpha = Zero THEN mem
     ELSE Sweep(mem, TriangleRowByRow(r.c.rows, r.triangle), At, Value)

-----------------------------------------------------------------------------
(* Level 3. *)

Everywhere(v) == RowByRow(Upwards(v.rows), Upwards(v.columns))

FillZero(mem, v) ==
  Sweep(mem, Everywhere(v), LAMBDA p : MatrixAt(v, p[1], p[2]),
        LAMBDA m, p : Zero)

OpAt(m, v, transpose, row, column) ==
  OperationAt(LAMBDA i, j : m[MatrixAt(v, i, j)], transpose, row, column)

Gemm(mem, r) ==
  LET At(p) == MatrixAt(r.c, p[1], p[2])
      Value(m, p) ==
        Blend(r,
              SumOver(0, OpColumns(r.a, r.transpose) - 1,
                      LAMBDA k :
                        Times(OpAt(m, r.a, r.transpose, p[1], k),
                              OpAt(m, r.b, r.transposeRight, k, p[2]))),
              m[At(p)])
  IN Sweep(mem, Everywhere(r.c), At, Value)

(* Symm, Hemm *)
StructuredMultiply(mem, r) ==
  LET At(p) == MatrixAt(r.c, p[1], p[2])
      Term(m, p, k) ==
        IF r.side = "left"
        THEN Times(SymmetricAt(m, r, p[1], k), m[MatrixAt(r.b, k, p[2])])
        ELSE Times(m[MatrixAt(r.b, p[1], k)], SymmetricAt(m, r, k, p[2]))
      Value(m, p) ==
        Blend(r, SumOver(0, r.a.rows - 1, LAMBDA k : Term(m, p, k)), m[At(p)])
  IN Sweep(mem, Everywhere(r.c), At, Value)

(* Syrk, Syr2k *)
SymmetricRankK(mem, r) ==
  LET At(p) == MatrixAt(r.c, p[1], p[2])
      Outer(m, x, y, p, k) ==
        Times(OpAt(m, x, r.transpose, p[1], k), OpAt(m, y, r.transpose, p[2], k))
      Term(m, p, k) ==
        Plus(Outer(m, r.a, r.b, p, k),
             IF r.two THEN Outer(m, r.b, r.a, p, k) ELSE Zero)
      Value(m, p) ==
        Blend(r, SumOver(0, OpColumns(r.a, r.transpose) - 1,
                         LAMBDA k : Term(m, p, k)), m[At(p)])
  IN Sweep(mem, TriangleRowByRow(r.c.rows, r.triangle), At, Value)

(* Herk, Her2k *)
HermitianRankK(mem, r) ==
  LET At(p) == MatrixAt(r.c, p[1], p[2])
      Outer(m, alpha, x, y, p, k) ==
        Times(Times(alpha, OpAt(m, x, r.transpose, p[1], k)),
              Conjugate(OpAt(m, y, r.transpose, p[2], k)))
      Term(m, p, k) ==
        Plus(Outer(m, r.alpha, r.a, r.b, p, k),
             IF r.two THEN Outer(m, Conjugate(r.alpha), r.b, r.a, p, k)
             ELSE Zero)
      Product(m, p) ==
        IF r.alpha = Zero THEN Zero
        ELSE SumOver(0, OpColumns(r.a, r.transpose) - 1,
                     LAMBDA k : Term(m, p, k))
      Real(x, p) == IF p[1] = p[2] THEN RealPart(x) ELSE x
      Value(m, p) ==
        Real(Plus(Product(m, p),
                  IF r.beta = Zero THEN Zero
                  ELSE Times(r.beta, Real(m[At(p)], p))), p)
  IN Sweep(mem, TriangleRowByRow(r.c.rows, r.triangle), At, Value)

RankK(mem, r) ==
  IF r.hermitian THEN HermitianRankK(mem, r) ELSE SymmetricRankK(mem, r)

(* The triangular element that belongs to step k of the sum at p, and the  *)
(* element of c that it multiplies.                                        *)
TriangularTerm(m, r, p, k) ==
  IF r.side = "left"
  THEN Times(TriangularOperationAt(m, r, p[1], k), m[MatrixAt(r.c, k, p[2])])
  ELSE Times(m[MatrixAt(r.c, p[1], k)], TriangularOperationAt(m, r, k, p[2]))

(* Trmm *)
TriangularMultiply(mem, r) ==
  LET upper == EffectiveUpper(r)
      left == r.side = "left"
      last == r.a.rows - 1
      rows == IF upper THEN Upwards(r.c.rows) ELSE Downwards(r.c.rows)
      columns == IF upper THEN Downwards(r.c.columns) ELSE Upwards(r.c.columns)
      At(p) == MatrixAt(r.c, p[1], p[2])
      Value(m, p) ==
        LET i == IF left THEN p[1] ELSE p[2]
            begin == IF left = upper THEN i ELSE 0
            end == IF left = upper THEN last ELSE i
        IN Times(r.alpha,
                 SumOver(begin, end, LAMBDA k : TriangularTerm(m, r, p, k)))
  IN IF r.alpha = Zero THEN FillZero(mem, r.c)
     ELSE Sweep(mem, IF left THEN ColumnByColumn(rows, Upwards(r.c.columns))
                     ELSE RowByRow(Upwards(r.c.rows), columns), At, Value)

(* Trsm *)
TriangularSolve(mem, r) ==
  LET upper == EffectiveUpper(r)
      left == r.side = "left"
      last == r.a.rows - 1
      rows == IF upper THEN Downwards(r.c.rows) ELSE Upwards(r.c.rows)
      columns == IF upper THEN Upwards(r.c.columns) ELSE Downwards(r.c.columns)
      At(p) == MatrixAt(r.c, p[1], p[2])
      Value(m, p) ==
        LET i == IF left THEN p[1] ELSE p[2]
            begin == IF left = upper THEN i + 1 ELSE 0
            end == IF left = upper THEN last ELSE i - 1
            rest == Minus(Times(r.alpha, m[At(p)]),
                          SumOver(begin, end,
                                  LAMBDA k : TriangularTerm(m, r, p, k)))
        IN IF r.diagonal = "unit" THEN rest
           ELSE Over(rest, TriangularOperationAt(m, r, i, i))
  IN IF r.alpha = Zero THEN FillZero(mem, r.c)
     ELSE Sweep(mem, IF left THEN ColumnByColumn(rows, Upwards(r.c.columns))
                     ELSE RowByRow(Upwards(r.c.rows), columns), At, Value)

TriangularMatrix(mem, r) ==
  IF r.operation = "triangularSolve" THEN TriangularSolve(mem, r)
  ELSE TriangularMultiply(mem, r)

=============================================================================

------------------------------ MODULE CudaBlas ------------------------------
(***************************************************************************)
(* Dense BLAS as the CUDA facet computes it. cuBLAS                         *)
(* takes column-major matrices only, so a row-major operand is passed as    *)
(* the transpose that its storage is in column-major terms, and the call is *)
(* rewritten to fit: operations, triangles, sides and operands are          *)
(* exchanged. What cannot be rewritten (a conjugation without transpose)    *)
(* and what cuBLAS does not do for empty or scaled-out products runs in the *)
(* project's own kernels. How work is enqueued is in CudaSubmit; here it is  *)
(* what an accepted request enqueues.                                       *)
(***************************************************************************)
EXTENDS BlasReference

RowMajor(v) == v.layout = "row"

SignedProviderPointer(v) ==
  IF v.ld >= 0 \/ v.rows <= 1 THEN v.base ELSE Min(Reach(v))

ProviderIncrement(v) == IF v.rows <= 1 THEN 1 ELSE v.ld

ProviderVector(v) ==
  [v EXCEPT !.base = SignedProviderPointer(v), !.ld = ProviderIncrement(v)]

(* Rows and columns, and bandwidths, exchanged for row-major storage. *)
ProviderMatrix(v) ==
  IF ~RowMajor(v) THEN v
  ELSE [v EXCEPT !.layout = "column", !.rows = v.columns, !.columns = v.rows,
                 !.lower = v.upper, !.upper = v.lower]

(* Seeded fault: the triangle keeps its name in row-major storage. *)
ProviderTriangleKept(triangle, layout) == triangle

ProviderTriangle(triangle, layout) ==
  LET upper == triangle = "upper"
  IN IF (IF layout = "column" THEN upper ELSE ~upper) THEN "upper" ELSE "lower"

ProviderSide(side, layout) ==
  LET left == side = "left"
  IN IF (IF layout = "column" THEN left ELSE ~left) THEN "left" ELSE "right"

(* The operation on a matrix passed as its transpose. *)
MirroredOperation(transpose, layout) ==
  CASE layout = "column" -> transpose
    [] layout = "row" /\ transpose = "none" -> "transpose"
    [] layout = "row" /\ transpose # "none" -> "none"

-----------------------------------------------------------------------------
(* The project's kernels. One thread computes everything; matrices are     *)
(* row-major.                                                              *)

ScaleKernel(mem, beta, places, At(_)) ==
  Sweep(mem, places, At,
        LAMBDA m, p : IF beta = Zero THEN Zero ELSE Times(beta, m[At(p)]))

KernelPackedOffset(order, triangle, row, column) ==
  IF triangle = "upper"
  THEN row * order - (row * (row - 1)) \div 2 + column - row
  ELSE (row * (row + 1)) \div 2 + column

KernelAt(v, triangle, row, column) ==
  v.base +
    CASE v.kind = "full" -> row * v.ld + column
      [] v.kind = "band" -> row * v.ld + v.lower + column - row
      [] v.kind = "triangular" ->
           row * v.ld + (IF triangle = "upper" THEN 0 ELSE v.lower)
             + column - row
      [] v.kind = "packed" -> KernelPackedOffset(v.rows, triangle, row, column)

KernelGeneralAt(m, v, row, column) ==
  IF v.kind = "band" /\ ~InBand(v, row, column) THEN Zero
  ELSE m[KernelAt(v, "none", row, column)]

KernelOutOfBand(v, row, column) ==
  v.kind = "triangular" /\ (row > column + v.lower \/ column > row + v.lower)

KernelHermitianAt(m, r, row, column) ==
  LET reflected == ~InTriangle(r.triangle, row, column)
      value == m[IF reflected THEN KernelAt(r.a, r.triangle, column, row)
                 ELSE KernelAt(r.a, r.triangle, row, column)]
  IN IF KernelOutOfBand(r.a, row, column) THEN Zero
     ELSE IF row = column THEN RealPart(value)
     ELSE MaybeConjugate(value, reflected)

KernelTriangularAt(m, r, row, column, unit) ==
  IF row = column /\ unit THEN One
  ELSE IF \/ ~InTriangle(r.triangle, row, column)
          \/ KernelOutOfBand(r.a, row, column) THEN Zero
  ELSE m[KernelAt(r.a, r.triangle, row, column)]

KernelBlend(r, product, old) ==
  Plus(IF r.alpha = Zero THEN Zero ELSE Times(r.alpha, product),
       IF r.beta = Zero THEN Zero ELSE Times(r.beta, old))

ConjugateGemvKernel(mem, r) ==
  LET Term(m, column, row) ==
        Times(Conjugate(KernelGeneralAt(m, r.a, row, column)),
              m[VectorAt(r.b, row)])
      Value(m, column) ==
        KernelBlend(r, SumOver(0, r.a.rows - 1, LAMBDA k : Term(m, column, k)),
                    m[VectorAt(r.c, column)])
  IN Sweep(mem, Upwards(r.a.columns), LAMBDA p : VectorAt(r.c, p), Value)

HermitianMvKernel(mem, r) ==
  LET Term(m, row, k) ==
        Times(KernelHermitianAt(m, r, row, k), m[VectorAt(r.b, k)])
      Value(m, row) ==
        KernelBlend(r, SumOver(0, r.a.rows - 1, LAMBDA k : Term(m, row, k)),
                    m[VectorAt(r.c, row)])
  IN Sweep(mem, Upwards(r.a.rows), LAMBDA p : VectorAt(r.c, p), Value)

ConjugateTriangularKernel(mem, r) ==
  LET order == r.a.rows
      upper == r.triangle # "upper"
      unit == r.diagonal = "unit"
      solve == r.operation = "triangularSolve"
      rows == IF upper # solve THEN Upwards(order) ELSE Downwards(order)
      Term(m, row, k) ==
        Times(Conjugate(KernelTriangularAt(m, r, k, row, unit)),
              m[VectorAt(r.c, k)])
      Sum(m, row, begin, end) ==
        SumOver(IF upper THEN begin ELSE 0, IF upper THEN order - 1 ELSE end,
                LAMBDA k : Term(m, row, k))
      Remainder(m, row) ==
        Minus(m[VectorAt(r.c, row)], Sum(m, row, row + 1, row - 1))
      Value(m, row) ==
        CASE ~solve -> Sum(m, row, row, row)
          [] solve /\ unit -> Remainder(m, row)
          [] solve /\ ~unit ->
               Over(Remainder(m, row),
                    Conjugate(KernelTriangularAt(m, r, row, row, FALSE)))
  IN Sweep(mem, rows, LAMBDA p : VectorAt(r.c, p), Value)

KernelOuter(m, alpha, x, y, p) ==
  Times(alpha, Times(m[VectorAt(x, p[1])], Conjugate(m[VectorAt(y, p[2])])))

GercKernel(mem, r) ==
  LET At(p) == KernelAt(r.c, "none", p[1], p[2])
      Value(m, p) == Plus(m[At(p)], KernelOuter(m, r.alpha, r.a, r.b, p))
  IN Sweep(mem, RowByRow(Upwards(r.c.rows), Upwards(r.c.columns)), At, Value)

HermitianUpdateKernel(mem, r) ==
  LET At(p) == KernelAt(r.c, r.triangle, p[1], p[2])
      Update(m, p) ==
        Plus(KernelOuter(m, r.alpha, r.a, IF r.two THEN r.b ELSE r.a, p),
             IF r.two THEN KernelOuter(m, Conjugate(r.alpha), r.b, r.a, p)
             ELSE Zero)
      Value(m, p) ==
        LET new == Plus(m[At(p)], Update(m, p))
        IN IF p[1] = p[2] THEN RealPart(new) ELSE new
  IN Sweep(mem, TriangleRowByRow(r.c.rows, r.triangle), At, Value)

-----------------------------------------------------------------------------
(* What is on the stream when a routine returns: kernels, of which only    *)
(* the effect is kept, or a call of cuBLAS.                                *)
Done(mem) == [memory |-> mem, provider |-> <<>>]

Enqueued(mem, call) == [memory |-> mem, provider |-> <<call>>]

-----------------------------------------------------------------------------
(* Level 1. *)

(* Where the order of a vector's elements does not matter, it is passed    *)
(* upwards from its lowest cell.                                           *)
PositiveProviderVector(v) ==
  [v EXCEPT !.base = SignedProviderPointer(v),
            !.ld = IF v.rows <= 1 THEN 1 ELSE Absolute(v.ld)]

ProviderVectors(r) ==
  [r EXCEPT !.a = ProviderVector(@), !.b = ProviderVector(@),
            !.c = ProviderVector(@)]

SetScalar(mem, v, value) == [mem EXCEPT ![v.base] = value]

Rot(mem, r) == IF r.a.rows = 0 THEN Done(mem) ELSE Enqueued(mem, ProviderVectors(r))

Rotm(mem, r) ==
  IF r.a.rows = 0 THEN Done(mem)
  ELSE Enqueued(mem, [r EXCEPT !.a = ProviderVector(@), !.c = ProviderVector(@)])

(* Swap and Copy *)
Transfer(mem, r) ==
  IF SameDescriptor(r.a, r.c) \/ r.a.rows = 0 THEN Done(mem)
  ELSE Enqueued(mem, ProviderVectors(r))

Scal(mem, r) ==
  IF r.c.rows = 0 THEN Done(mem)
  ELSE Enqueued(mem, [r EXCEPT !.c = PositiveProviderVector(@)])

Axpy(mem, r) ==
  IF r.a.rows = 0 \/ r.alpha = Zero THEN Done(mem)
  ELSE Enqueued(mem, ProviderVectors(r))

(* A product with a bias has a kernel of its own. *)
DotKernel(mem, r) ==
  SetScalar(mem, r.c,
            Plus(r.alpha, SumOver(0, r.a.rows - 1,
                                  LAMBDA k : Times(mem[VectorAt(r.a, k)],
                                                   mem[VectorAt(r.b, k)]))))

Dot(mem, r) ==
  IF r.a.rows = 0 THEN Done(SetScalar(mem, r.c, r.alpha))
  ELSE IF r.alpha # Zero THEN Done(DotKernel(mem, r))
  ELSE Enqueued(mem, [r EXCEPT !.a = ProviderVector(@), !.b = ProviderVector(@)])

Asum(mem, r) ==
  IF r.a.rows = 0 THEN Done(SetScalar(mem, r.c, Zero))
  ELSE Enqueued(mem, [r EXCEPT !.a = PositiveProviderVector(@)])

(* cuBLAS counts from one. *)
CuBlasIamax(mem, v, result) ==
  SetScalar(mem, result, <<Largest(Elements(mem, FromLowest(v))) + 1, 0>>)

NegativeIamaxKernel(mem, v, result) ==
  LET size(i) == Magnitude(mem[VectorAt(v, i)])[1]
      found == FoldLeft(LAMBDA found, i :
                          IF size(i) > size(found) THEN i ELSE found,
                        0, Upwards(v.rows))
  IN SetScalar(mem, result, <<found + 1, 0>>)

IamaxIndexConversionKernel(mem, workspace, result) ==
  SetScalar(mem, result, <<mem[workspace.base][1] - 1, 0>>)

(* By way of the workspace. cuBLAS would find the last of equal elements   *)
(* in a vector with a negative increment.                                  *)
Iamax(mem, r) ==
  IF r.a.rows = 0 THEN Done(SetScalar(mem, r.c, <<-1, 0>>))
  ELSE Done(IamaxIndexConversionKernel(
              IF r.a.ld < 0 THEN NegativeIamaxKernel(mem, r.a, r.b)
              ELSE CuBlasIamax(mem, PositiveProviderVector(r.a), r.b),
              r.b, r.c))

-----------------------------------------------------------------------------
(* Level 2. *)

GeneralMv(mem, r) ==
  IF r.c.rows = 0 THEN Done(mem)
  ELSE IF r.b.rows = 0
       THEN Done(ScaleKernel(mem, r.beta, Upwards(r.c.rows),
                             LAMBDA p : VectorAt(r.c, p)))
  ELSE IF r.complex /\ RowMajor(r.a) /\ r.transpose = "conjugate"
       THEN Done(ConjugateGemvKernel(mem, r))
  ELSE Enqueued(mem,
              [r EXCEPT !.transpose = MirroredOperation(@, r.a.layout),
                        !.a = ProviderMatrix(@), !.b = ProviderVector(@),
                        !.c = ProviderVector(@)])

StructuredMv(mem, r) ==
  IF r.a.rows = 0 THEN Done(mem)
  ELSE IF r.complex /\ RowMajor(r.a) THEN Done(HermitianMvKernel(mem, r))
  ELSE Enqueued(mem,
              [r EXCEPT !.triangle = ProviderTriangle(@, r.a.layout),
                        !.a = ProviderMatrix(@), !.b = ProviderVector(@),
                        !.c = ProviderVector(@)])

TriangularVector(mem, r) ==
  IF r.a.rows = 0 THEN Done(mem)
  ELSE IF r.complex /\ RowMajor(r.a) /\ r.transpose = "conjugate"
       THEN Done(ConjugateTriangularKernel(mem, r))
  ELSE Enqueued(mem,
              [r EXCEPT !.transpose = MirroredOperation(@, r.a.layout),
                        !.triangle = ProviderTriangle(@, r.a.layout),
                        !.a = ProviderMatrix(@), !.b = ProviderMatrix(@),
                        !.c = ProviderVector(@)])

GeneralRank(mem, r) ==
  IF r.c.rows = 0 \/ r.c.columns = 0 \/ r.alpha = Zero THEN Done(mem)
  ELSE IF r.complex /\ RowMajor(r.c) /\ r.hermitian THEN Done(GercKernel(mem, r))
  ELSE LET x == IF RowMajor(r.c) THEN r.b ELSE r.a
           y == IF RowMajor(r.c) THEN r.a ELSE r.b
       IN Enqueued(mem, [r EXCEPT !.a = ProviderVector(x),
                                !.b = ProviderVector(y),
                                !.c = ProviderMatrix(@)])

StructuredRank(mem, r) ==
  IF r.c.rows = 0 \/ r.alpha = Zero THEN Done(mem)
  ELSE IF r.hermitian /\ RowMajor(r.c) THEN Done(HermitianUpdateKernel(mem, r))
  ELSE Enqueued(mem,
              [r EXCEPT !.triangle = ProviderTriangle(@, r.c.layout),
                        !.a = ProviderVector(@), !.b = ProviderVector(@),
                        !.c = ProviderMatrix(@)])

-----------------------------------------------------------------------------
(* Level 3. All operands have the layout of c.                             *)

MatrixPointer(v, p) == MatrixAt(v, p[1], p[2])

ScaleMatrix(mem, beta, v) ==
  ScaleKernel(mem, beta, RowByRow(Upwards(v.rows), Upwards(v.columns)),
              LAMBDA p : MatrixPointer(v, p))

(* The diagonal of a Hermitian triangle also loses its imaginary parts. *)
ScaleTriangle(mem, r) ==
  LET scaled == ScaleKernel(mem, r.beta, TriangleRowByRow(r.c.rows, r.triangle),
                            LAMBDA p : MatrixPointer(r.c, p))
  IN IF ~r.hermitian THEN scaled
     ELSE Sweep(scaled, Upwards(r.c.rows),
                LAMBDA i : MatrixPointer(r.c, <<i, i>>),
                LAMBDA m, i : RealPart(m[MatrixPointer(r.c, <<i, i>>)]))

ProviderMatrices(r) ==
  [r EXCEPT !.a = ProviderMatrix(@), !.b = ProviderMatrix(@),
            !.c = ProviderMatrix(@)]

Exchanged(r) ==
  [r EXCEPT !.transpose = r.transposeRight, !.transposeRight = r.transpose,
            !.a = r.b, !.b = r.a]

Gemm(mem, r) ==
  IF Nothing(r.c) THEN Done(mem)
  ELSE IF r.alpha = Zero \/ OpColumns(r.a, r.transpose) = 0
       THEN Done(ScaleMatrix(mem, r.beta, r.c))
  ELSE Enqueued(mem,
              ProviderMatrices(IF RowMajor(r.c) THEN Exchanged(r) ELSE r))

StructuredMultiply(mem, r) ==
  IF Nothing(r.c) THEN Done(mem)
  ELSE IF r.alpha = Zero THEN Done(ScaleMatrix(mem, r.beta, r.c))
  ELSE Enqueued(mem, [ProviderMatrices(r) EXCEPT
                      !.side = ProviderSide(@, r.c.layout),
                      !.triangle = ProviderTriangle(@, r.c.layout)])

SymmetricRankK(mem, r) ==
  IF r.c.rows = 0 THEN Done(mem)
  ELSE IF r.alpha = Zero \/ OpColumns(r.a, r.transpose) = 0
       THEN Done(ScaleTriangle(mem, r))
  ELSE Enqueued(mem, [ProviderMatrices(r) EXCEPT
                      !.transpose = MirroredOperation(@, r.c.layout),
                      !.triangle = ProviderTriangle(@, r.c.layout)])

(* The transpose of a Hermitian product is its conjugate: the factors are  *)
(* conjugated, and those of two products change places.                    *)
HermitianRankK(mem, r) ==
  IF r.c.rows = 0 THEN Done(mem)
  ELSE IF r.alpha = Zero \/ OpColumns(r.a, r.transpose) = 0
       THEN Done(ScaleTriangle(mem, r))
  ELSE LET swapped == RowMajor(r.c) /\ r.two
           operation == IF ~RowMajor(r.c) THEN r.transpose
                        ELSE IF r.transpose = "none" THEN "conjugate" ELSE "none"
       IN Enqueued(mem, [ProviderMatrices(r) EXCEPT
                         !.transpose = operation,
                         !.triangle = ProviderTriangle(@, r.c.layout),
                         !.a = IF swapped THEN ProviderMatrix(r.b) ELSE @,
                         !.b = IF swapped THEN ProviderMatrix(r.a) ELSE @])

RankK(mem, r) ==
  IF r.hermitian THEN HermitianRankK(mem, r) ELSE SymmetricRankK(mem, r)

TriangularMatrix(mem, r) ==
  IF Nothing(r.c) THEN Done(mem)
  ELSE IF r.alpha = Zero THEN Done(ScaleMatrix(mem, Zero, r.c))
  ELSE Enqueued(mem, [ProviderMatrices(r) EXCEPT
                      !.side = ProviderSide(@, r.c.layout),
                      !.triangle = ProviderTriangle(@, r.c.layout)])

=============================================================================

----------------------------- MODULE BlasCalls ------------------------------
(***************************************************************************)
(* The calls of Dense and Sparse BLAS. A request is a record of             *)
(*   operation         a routine of Level 1, or of Level 2 and Level 3 one  *)
(*                     of "multiply", "csrMultiply", "structured", "rank",  *)
(*                     "triangularMultiply" and "triangularSolve"           *)
(*   complex           whether elements are complex                         *)
(*   hermitian         a Hermitian matrix, or a conjugated general update   *)
(*   two               whether a rank update is one of two products         *)
(*   transpose, transposeRight   "none", "transpose" or "conjugate"         *)
(*   triangle          "upper", "lower", or "none" for a general matrix     *)
(*   diagonal, side    "unit" or "stored"; "left" or "right"                *)
(*   alpha, beta       scalars                                              *)
(*   a, b, c           views: the matrix (of a rank update the first        *)
(*                     factor), the other factor (a itself where there is   *)
(*                     none) and the operand to write                       *)
(* Which of the code's Level 2 and Level 3 routines a request is for        *)
(* follows from its shape, as overload resolution does it in the code.      *)
(*                                                                          *)
(* Of Level 1, a is x or the left vector and c is y or the result. b is the *)
(* right vector of a product, the parameters of Rotm and the workspace of   *)
(* Iamax, which only the CUDA facet has. alpha and beta are the c and s of  *)
(* Rot; alpha is also the bias that a product starts from and, of Rotm, the *)
(* flag that its parameters begin with.                                     *)
(*                                                                          *)
(* Sparse operands are always a. The sparse "multiply" adds to c, which is  *)
(* a beta of one; "csrMultiply" is the older product, which has a beta.     *)
(***************************************************************************)
EXTENDS BlasStorage

Triangular(r) == r.operation \in {"triangularMultiply", "triangularSolve"}

Level1 ==
  {"Rot", "Rotm", "Swap", "Scal", "Copy", "Axpy", "Dot", "Asum", "Iamax",
   "SparseDot", "SparseAxpy", "SparseGather", "SparseGatherZero",
   "SparseScatter"}

Routine(r) ==
  LET vector == r.c.kind = "vector" \/ r.a.kind = "vector"
  IN CASE r.operation \in Level1 -> r.operation
       [] r.operation = "csrMultiply" -> "CsrMv"
       [] r.operation = "multiply" /\ Sparse(r.a) ->
            "SparseProduct"
       [] r.operation = "triangularSolve" /\ Sparse(r.a) -> "SparseSolve"
       [] r.operation = "multiply" /\ ~Sparse(r.a) ->
            IF vector THEN "GeneralMv" ELSE "Gemm"
       [] r.operation = "structured" ->
            IF vector THEN "StructuredMv" ELSE "StructuredMultiply"
       [] r.operation = "rank" ->
            IF ~vector THEN "RankK"
            ELSE IF r.triangle = "none" THEN "GeneralRank"
            ELSE "StructuredRank"
       [] Triangular(r) /\ ~Sparse(r.a) ->
            IF vector THEN "TriangularVector" ELSE "TriangularMatrix"

-----------------------------------------------------------------------------
(* What a call refuses. The serial and the CUDA facet check the same.      *)

Square(v) == v.rows = v.columns

Separate(r) == ~Overlap(r.a, r.c) /\ ~Overlap(r.b, r.c)

SameLayout(r) == r.a.layout = r.c.layout /\ r.b.layout = r.c.layout

SameSize(r) == r.a.rows = r.c.rows

RotAccepts(r) == SameSize(r) /\ ~Overlap(r.a, r.c)

RotmAccepts(r) ==
  /\ SameSize(r)
  /\ r.b.rows = 5
  /\ r.b.ld = 1
  /\ ~Overlap(r.a, r.c)
  /\ ~Overlap(r.a, r.b)
  /\ ~Overlap(r.c, r.b)

(* Swap, Copy and Axpy take one vector twice, but not two that overlap. *)
PairAccepts(r) ==
  SameSize(r) /\ (Overlap(r.a, r.c) => SameDescriptor(r.a, r.c))

DotAccepts(r) == r.a.rows = r.b.rows /\ r.c.rows = 1 /\ Separate(r)

ReductionAccepts(r) == r.c.rows = 1 /\ ~Overlap(r.a, r.c)

(* The CUDA facet searches by way of a workspace. *)
WorkspaceAccepts(r) ==
  r.b.rows >= 1 /\ ~Overlap(r.a, r.b) /\ ~Overlap(r.c, r.b)

(* The shape of op(v). *)
OpRows(v, transpose)    == IF transpose = "none" THEN v.rows ELSE v.columns
OpColumns(v, transpose) == IF transpose = "none" THEN v.columns ELSE v.rows

GeneralMvAccepts(r) ==
  /\ r.b.rows = OpColumns(r.a, r.transpose)
  /\ r.c.rows = OpRows(r.a, r.transpose)
  /\ Separate(r)

StructuredMvAccepts(r) ==
  /\ Square(r.a)
  /\ r.b.rows = r.a.rows
  /\ r.c.rows = r.a.rows
  /\ Separate(r)

TriangularVectorAccepts(r) ==
  /\ Square(r.a)
  /\ r.c.rows = r.a.rows
  /\ ~Overlap(r.a, r.c)

GeneralRankAccepts(r) ==
  /\ Separate(r)
  /\ r.a.rows = r.c.rows
  /\ r.b.rows = r.c.columns

StructuredRankAccepts(r) ==
  /\ Square(r.c)
  /\ Separate(r)
  /\ r.a.rows = r.c.rows
  /\ r.two => r.b.rows = r.c.rows

GemmAccepts(r) ==
  /\ SameLayout(r)
  /\ Separate(r)
  /\ OpColumns(r.a, r.transpose) = OpRows(r.b, r.transposeRight)
  /\ r.c.rows = OpRows(r.a, r.transpose)
  /\ r.c.columns = OpColumns(r.b, r.transposeRight)

StructuredMultiplyAccepts(r) ==
  /\ SameLayout(r)
  /\ Separate(r)
  /\ Square(r.a)
  /\ r.b.rows = r.c.rows
  /\ r.b.columns = r.c.columns
  /\ r.a.rows = IF r.side = "left" THEN r.c.rows ELSE r.c.columns

(* A symmetric product of complex matrices has no conjugate, a Hermitian   *)
(* one no plain transpose.                                                 *)
RankKAccepts(r) ==
  /\ r.hermitian => r.transpose # "transpose"
  /\ r.complex /\ ~r.hermitian => r.transpose # "conjugate"
  /\ SameLayout(r)
  /\ Separate(r)
  /\ r.a.rows = r.b.rows
  /\ r.a.columns = r.b.columns
  /\ Square(r.c)
  /\ r.c.rows = OpRows(r.a, r.transpose)

TriangularMatrixAccepts(r) ==
  /\ r.a.layout = r.c.layout
  /\ Square(r.a)
  /\ r.a.rows = IF r.side = "left" THEN r.c.rows ELSE r.c.columns
  /\ ~Overlap(r.a, r.c)

=============================================================================

--------------------------- MODULE BlasReference ----------------------------
(***************************************************************************)
(* What the BLAS standard says that a call computes, in terms of matrices   *)
(* rather than of loops and offsets. It is used twice: as what every BLAS   *)
(* call promises, and as what the cuBLAS library does for column-major      *)
(* views, and cuSPARSE for CSR matrices, which the code calls but does not  *)
(* contain.                                                                 *)
(***************************************************************************)
EXTENDS BlasCalls

Flip(triangle) ==
  CASE triangle = "upper" -> "lower"
    [] triangle = "lower" -> "upper"
    [] triangle = "none"  -> "none"

Pairs(rows, columns) == (0 .. rows - 1) \X (0 .. columns - 1)

(* The elements that a view of a matrix, or of one triangle of it, holds. *)
Holds(v, triangle) ==
  {p \in Pairs(v.rows, v.columns) :
     /\ triangle # "none" => InTriangle(triangle, p[1], p[2])
     /\ v.kind \in {"band", "triangular"} => InBand(v, p[1], p[2])
     /\ Sparse(v) => p \in ToSet(v.entries)}

(* Where column-major storage puts an element. A packed triangle has its   *)
(* elements one after another, column by column.                           *)
ColumnPosition(v, triangle, i, j) ==
  v.base +
    CASE v.kind = "vector"     -> i * v.ld
      [] v.kind = "full"       -> j * v.ld + i
      [] v.kind = "band"       -> j * v.ld + v.upper + (i - j)
      [] v.kind = "triangular" ->
           j * v.ld + (IF triangle = "upper" THEN v.upper ELSE 0) + (i - j)
      [] v.kind = "packed"     ->
           Cardinality({p \in Holds(v, triangle) :
                          p[2] < j \/ (p[2] = j /\ p[1] < i)})

(* Row-major storage of a matrix is column-major storage of its transpose. *)
Mirror(v) ==
  [v EXCEPT !.rows = v.columns, !.columns = v.rows, !.lower = v.upper,
            !.upper = v.lower, !.layout = "column"]

(* The values of a sparse operand are in the order of its coordinates, by  *)
(* rows in CSR and by columns in CSC.                                      *)
SparsePosition(v, p) ==
  LET Before(q) == IF v.kind = "csc"
                   THEN q[2] < p[2] \/ (q[2] = p[2] /\ q[1] < p[1])
                   ELSE q[1] < p[1] \/ (q[1] = p[1] /\ q[2] < p[2])
  IN v.base + Cardinality({q \in ToSet(v.entries) : Before(q)})

Position(v, triangle, p) ==
  IF Sparse(v) THEN SparsePosition(v, p)
  ELSE IF v.kind = "vector" \/ v.layout = "column"
  THEN ColumnPosition(v, triangle, p[1], p[2])
  ELSE ColumnPosition(Mirror(v), Flip(triangle), p[2], p[1])

-----------------------------------------------------------------------------
(* Matrices, and the ones that views denote. *)

Matrix(rows, columns, At(_, _)) ==
  [rows |-> rows, columns |-> columns,
   at |-> [p \in Pairs(rows, columns) |-> At(p[1], p[2])]]

Op(transpose, A) ==
  IF transpose = "none" THEN A
  ELSE Matrix(A.columns, A.rows,
              LAMBDA i, j :
                MaybeConjugate(A.at[<<j, i>>], transpose = "conjugate"))

Scale(alpha, A) ==
  Matrix(A.rows, A.columns, LAMBDA i, j : Times(alpha, A.at[<<i, j>>]))

Add(A, B) ==
  Matrix(A.rows, A.columns,
         LAMBDA i, j : Plus(A.at[<<i, j>>], B.at[<<i, j>>]))

Mul(A, B) ==
  Matrix(A.rows, B.columns,
         LAMBDA i, j :
           SumOver(0, A.columns - 1,
                   LAMBDA k : Times(A.at[<<i, k>>], B.at[<<k, j>>])))

General(mem, v) ==
  Matrix(v.rows, v.columns,
         LAMBDA i, j : IF <<i, j>> \in Holds(v, "none")
                       THEN mem[Position(v, "none", <<i, j>>)] ELSE Zero)

Symmetric(mem, r) ==
  LET held == Holds(r.a, r.triangle)
      Held(p) == mem[Position(r.a, r.triangle, p)]
  IN Matrix(r.a.rows, r.a.rows,
            LAMBDA i, j :
              CASE i = j /\ r.hermitian   -> RealPart(Held(<<i, j>>))
                [] <<i, j>> \in held      -> Held(<<i, j>>)
                [] <<j, i>> \in held \ {<<i, j>>} ->
                     MaybeConjugate(Held(<<j, i>>), r.hermitian)
                [] {<<i, j>>, <<j, i>>} \cap held = {} -> Zero)

TriangularOf(mem, r) ==
  Matrix(r.a.rows, r.a.rows,
         LAMBDA i, j :
           IF i = j /\ r.diagonal = "unit" THEN One
           ELSE IF <<i, j>> \in Holds(r.a, r.triangle)
                THEN mem[Position(r.a, r.triangle, <<i, j>>)]
           ELSE Zero)

(* The X of T X = B. *)
Solution(T, upper, B) ==
  LET x[i \in 0 .. T.rows - 1, j \in 0 .. B.columns - 1] ==
        Over(Minus(B.at[<<i, j>>],
                   SumOver(IF upper THEN i + 1 ELSE 0,
                           IF upper THEN T.rows - 1 ELSE i - 1,
                           LAMBDA k : Times(T.at[<<i, k>>], x[k, j]))),
             T.at[<<i, i>>])
  IN Matrix(T.rows, B.columns, LAMBDA i, j : x[i, j])

-----------------------------------------------------------------------------
(* The call. *)

(* The matrix that alpha multiplies, alpha included. *)
Addend(mem, r) ==
  LET A == Op(r.transpose, General(mem, r.a))
      B == General(mem, r.b)
      S == Symmetric(mem, r)
      T == Op(r.transpose, TriangularOf(mem, r))
      C == Scale(r.alpha, General(mem, r.c))
      upper == (r.triangle = "upper") = (r.transpose = "none")
      adjoint == IF r.hermitian THEN "conjugate" ELSE "transpose"
      Outer(x, y, alpha) == Scale(alpha, Mul(x, Op(adjoint, y)))
      OpB == Op(r.transpose, B)
  IN CASE r.operation \in {"multiply", "csrMultiply"} ->
            Scale(r.alpha, Mul(A, Op(r.transposeRight, B)))
       [] r.operation = "structured" ->
            Scale(r.alpha, IF r.side = "left" THEN Mul(S, B) ELSE Mul(B, S))
       [] r.operation = "rank" /\ ~r.two -> Outer(A, OpB, r.alpha)
       [] r.operation = "rank" /\ r.two ->
            Add(Outer(A, OpB, r.alpha),
                Outer(OpB, A, MaybeConjugate(r.alpha, r.hermitian)))
       [] r.operation = "triangularMultiply" ->
            IF r.side = "left" THEN Mul(T, C) ELSE Mul(C, T)
       [] r.operation = "triangularSolve" ->
            IF r.side = "left" THEN Solution(T, upper, C)
            ELSE Op("transpose", Solution(Op("transpose", T), ~upper,
                                          Op("transpose", C)))

(* Level 1, as functions on vectors. *)
Elements(mem, v) ==
  [i \in {p[1] : p \in Holds(v, "none")} |-> mem[Position(v, "none", <<i, 0>>)]]

Give(mem, v, values) ==
  FoldSet(LAMBDA i, m : [m EXCEPT ![Position(v, "none", <<i, 0>>)] = values[i]],
          mem, DOMAIN values)

(* The matrix of a modified rotation, of which the flag leaves out the     *)
(* diagonal, the rest or everything.                                       *)
Rotation(p) ==
  LET flag == p[0]
  IN IF flag = <<-2, 0>> THEN <<One, Zero, Zero, One>>
     ELSE <<IF flag = Zero THEN One ELSE p[1],
            IF flag = One THEN One ELSE p[3],
            IF flag = One THEN <<-1, 0>> ELSE p[2],
            IF flag = Zero THEN One ELSE p[4]>>

(* The first of the largest elements, -1 if there is none. *)
Largest(x) ==
  LET size(i) == Magnitude(x[i])[1]
      largest == {i \in DOMAIN x : \A k \in DOMAIN x : size(k) <= size(i)}
  IN IF largest = {} THEN -1 ELSE Min(largest)

DefinedVectors(mem, r) ==
  LET x == Elements(mem, r.a)
      y == Elements(mem, r.c)
      z == Elements(mem, r.b)
      Rotated(h) ==
        Give(Give(mem, r.a,
                [i \in DOMAIN x |-> Plus(Times(h[1], x[i]), Times(h[2], y[i]))]),
            r.c,
            [i \in DOMAIN y |-> Plus(Times(h[3], x[i]), Times(h[4], y[i]))])
      Result(value) == Give(mem, r.c, [i \in {0} |-> value])
      Sum(Term(_)) == SumOver(0, r.a.rows - 1, Term)
  IN CASE r.operation = "Rot" ->
            Rotated(<<r.alpha, r.beta, Minus(Zero, r.beta), r.alpha>>)
       [] r.operation = "Rotm" ->
            IF DOMAIN x = {} THEN mem ELSE Rotated(Rotation(z))
       [] r.operation = "Swap" -> Give(Give(mem, r.a, y), r.c, x)
       [] r.operation = "Scal" ->
            Give(mem, r.c, [i \in DOMAIN y |-> Times(r.alpha, y[i])])
       [] r.operation = "Copy" -> Give(mem, r.c, x)
       [] r.operation = "Axpy" ->
            IF r.alpha = Zero THEN mem
            ELSE Give(mem, r.c,
                     [i \in DOMAIN y |-> Plus(Times(r.alpha, x[i]), y[i])])
       [] r.operation = "Dot" ->
            Result(Plus(r.alpha,
                        Sum(LAMBDA i : Times(MaybeConjugate(x[i], r.hermitian),
                                             z[i]))))
       [] r.operation = "Asum" -> Result(Sum(LAMBDA i : Magnitude(x[i])))
       [] r.operation = "Iamax" -> Result(<<Largest(x), 0>>)
       [] r.operation = "SparseDot" ->
            Result(FoldFunction(Plus, Zero,
                     [i \in DOMAIN x |->
                        Times(MaybeConjugate(x[i], r.hermitian), z[i])]))
       [] r.operation = "SparseAxpy" ->
            IF r.alpha = Zero THEN mem
            ELSE Give(mem, r.c,
                     [i \in DOMAIN x |-> Plus(Times(r.alpha, x[i]), y[i])])
       [] r.operation = "SparseGather" ->
            Give(mem, r.a, [i \in DOMAIN x |-> y[i]])
       [] r.operation = "SparseGatherZero" ->
            Give(Give(mem, r.a, [i \in DOMAIN x |-> y[i]]), r.c,
                 [i \in DOMAIN x |-> Zero])
       [] r.operation = "SparseScatter" -> Give(mem, r.c, x)

(* What adds to c does nothing when alpha is zero. *)
Writes(r) ==
  IF /\ Routine(r) \in {"GeneralRank", "StructuredRank", "SparseProduct"}
     /\ r.alpha = Zero THEN {}
  ELSE Holds(r.c, IF r.operation = "rank" THEN r.triangle ELSE "none")

(* The triangle that c is stored by. *)
Side(r) == IF r.operation = "rank" THEN r.triangle ELSE "none"

(* Operands that alpha = 0 or beta = 0 multiplies are not read, and the    *)
(* diagonal of a Hermitian result is real.                                 *)
DefinedMatrix(mem, r) ==
  LET addend == Addend(mem, r)
      Result(p) ==
        LET old == mem[Position(r.c, Side(r), p)]
            new == Plus(IF r.alpha = Zero THEN Zero ELSE addend.at[p],
                        IF r.beta = Zero THEN Zero ELSE Times(r.beta, old))
            real == Side(r) # "none" /\ r.hermitian /\ p[1] = p[2]
        IN IF real THEN RealPart(new) ELSE new
  IN FoldSet(LAMBDA p, m : [m EXCEPT ![Position(r.c, Side(r), p)] = Result(p)],
             mem, Writes(r))

Defined(mem, r) ==
  IF r.operation \in Level1 THEN DefinedVectors(mem, r)
  ELSE DefinedMatrix(mem, r)

(* The cells of the elements that a call may read, and of those it writes. *)
VectorCells(v) == {Position(v, "none", p) : p \in Holds(v, "none")}

(* The elements of v that a sparse vector has an index of. *)
Selected(sparse, v) ==
  {Position(v, "none", p) : p \in Holds(sparse, "none")}

ReadVectors(r) ==
  CASE r.operation \in {"Rot", "Swap", "Scal"} -> {}
    [] r.operation = "Rotm" -> VectorCells(r.b)
    [] r.operation \in {"Copy", "Axpy"} ->
         IF SameDescriptor(r.a, r.c) THEN {} ELSE VectorCells(r.a)
    [] r.operation = "Dot" -> VectorCells(r.a) \cup VectorCells(r.b)
    [] r.operation \in {"Asum", "Iamax", "SparseAxpy", "SparseScatter"} ->
         VectorCells(r.a)
    [] r.operation = "SparseDot" -> VectorCells(r.a) \cup Selected(r.a, r.b)
    [] r.operation = "SparseGather" -> Selected(r.a, r.c)
    [] r.operation = "SparseGatherZero" -> {}

WrittenVectors(r) ==
  CASE r.operation = "SparseGather" -> VectorCells(r.a)
    [] r.operation = "SparseGatherZero" ->
         VectorCells(r.a) \cup Selected(r.a, r.c)
    [] r.operation \in {"SparseAxpy", "SparseScatter"} -> Selected(r.a, r.c)
    [] r.operation \in {"Rot", "Rotm", "Swap"} ->
         VectorCells(r.a) \cup VectorCells(r.c)
    [] OTHER -> VectorCells(r.c)

ReadMatrices(r) ==
  LET unread == IF Triangular(r) /\ r.diagonal = "unit"
                THEN {<<i, i>> : i \in 0 .. r.a.rows} ELSE {}
      triangle == IF r.operation = "structured" \/ Triangular(r)
                  THEN r.triangle ELSE "none"
  IN {Position(r.a, triangle, p) : p \in Holds(r.a, triangle) \ unread}
       \cup IF Triangular(r) THEN {}
            ELSE VectorCells(r.b)

StructureCells(v) == IF Sparse(v) THEN IndexCells(v) \cup OffsetCells(v) ELSE {}

ReadOperands(r) ==
  StructureCells(r.a)
    \cup IF r.operation \in Level1 THEN ReadVectors(r) ELSE ReadMatrices(r)

Destination(r) ==
  IF r.operation \in Level1 THEN WrittenVectors(r)
  ELSE {Position(r.c, Side(r), p) : p \in Holds(r.c, Side(r))}

(* Routines that do not read what they write. *)
OverwriteOnly ==
  {"Copy", "Dot", "Asum", "Iamax", "SparseDot", "SparseGather", "SparseScatter"}

(* The cells that have to hold numbers before the call. The older sparse   *)
(* product forms a product that alpha = 0 multiplies all the same.         *)
Needs(r) ==
  CASE r.operation \in OverwriteOnly -> ReadVectors(r) \ Destination(r)
    [] r.operation \in Level1 \ OverwriteOnly ->
         ReadVectors(r) \cup WrittenVectors(r)
    [] r.operation \notin Level1 ->
         (IF r.alpha = Zero /\ r.operation # "csrMultiply" THEN {}
          ELSE ReadOperands(r))
           \cup (IF r.beta # Zero \/ (Triangular(r) /\ r.alpha # Zero)
                 THEN Destination(r) ELSE {})

-----------------------------------------------------------------------------
(* cuBLAS and cuSPARSE. cuBLAS takes the lowest cell of a vector whatever  *)
(* its increment. A call it refuses leaves the memory as it was.           *)

FromLowest(v) ==
  IF v.kind = "vector" /\ v.ld < 0
  THEN [v EXCEPT !.base = v.base - (v.rows - 1) * v.ld] ELSE v

Provider(mem, call) ==
  LET views == {call.a, call.b, call.c}
      vectors == [call EXCEPT !.a = FromLowest(@), !.b = FromLowest(@),
                              !.c = FromLowest(@)]
  IN IF \A v \in views : Sparse(v) \/ (v.layout = "column" /\ Described(v))
     THEN Defined(mem, vectors) ELSE mem

=============================================================================

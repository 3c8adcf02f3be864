----------------------------- MODULE BlasPrograms ------------------------------
(***************************************************************************)
(* A program that makes the views of a Dense or Sparse BLAS call over its   *)
(* storage and then makes the call, on the serial facet or on the CUDA      *)
(* facet.                                                                   *)
(***************************************************************************)
EXTENDS BlasReference

CONSTANTS
  Cells,      \* all of memory
  Backing     \* the part of it that the program owns

ASSUME BackingAssumption == Backing \subseteq Cells

S == INSTANCE SerialBlas
C == INSTANCE CudaBlas
P == INSTANCE SparseBlas

VARIABLES
  request,
  memory,     \* the element in each cell
  before,     \* what memory was when the program began
  provider,   \* the call of cuBLAS or cuSPARSE on the stream, if any
  phase       \* "views", "ready", "refused", "serial", "enqueued" or "cuda"

vars == <<request, memory, before, provider, phase>>

(* A program gives values to the elements that the call may read, and to   *)
(* no other cell. A diagonal to divide by has elements of modulus one, so  *)
(* that all values stay exact.                                             *)
Divisors(r) ==
  IF r.operation # "triangularSolve" THEN {}
  ELSE {Position(r.a, r.triangle, <<i, i>>) : i \in 0 .. r.a.rows - 1}

Value(r, x, divisors) ==
  LET number == <<2 + ((3 * x * x + 5 * x) % 7), ((4 * x * x + x) % 5) - 2>>
      divisor == x \in divisors
      flag == r.operation = "Rotm" /\ x = r.b.base
  IN CASE flag -> r.alpha
       [] divisor /\ r.complex  -> IF x % 2 = 0 THEN <<0, 1>> ELSE <<-1, 0>>
       [] divisor /\ ~r.complex -> IF x % 2 = 0 THEN One ELSE <<-1, 0>>
       [] ~divisor /\ ~flag /\ r.complex -> number
       [] ~divisor /\ ~flag /\ ~r.complex -> <<number[1], 0>>

(* The arrays of a sparse operand that hold its structure. *)
Inner(v, entry) == IF v.kind = "csr" THEN entry[2] ELSE entry[1]
Outer(v, entry) == IF v.kind = "csr" THEN entry[1] ELSE entry[2]

Structure(v, x) ==
  Index(IF x \in IndexCells(v) THEN Inner(v, v.entries[x - v.indices + 1])
        ELSE Cardinality({k \in DOMAIN v.entries :
                            Outer(v, v.entries[k]) < x - v.offsets}))

Contents(r) ==
  LET needed == Needs(r) \cap Backing
      structure == StructureCells(r.a)
      divisors == Divisors(r)
  IN [x \in Cells |-> IF x \in structure THEN Structure(r.a, x)
                      ELSE IF x \in needed THEN Value(r, x, divisors)
                      ELSE <<x>>]

(* The programs that make one of the requests. *)
InitWith(requests) ==
  /\ request \in requests
  /\ memory = Contents(request)
  /\ before = memory
  /\ provider = <<>>
  /\ phase = "views"

(* Create() of the view of each operand *)
CreateViews ==
  /\ phase = "views"
  /\ phase' = IF /\ \A v \in {request.a, request.b, request.c} :
                      Creates(v, Backing)
                 /\ P!SparseCreates(memory, request)
              THEN "ready" ELSE "refused"
  /\ UNCHANGED <<request, memory, before, provider>>

Call(routine, accepts) ==
  /\ phase = "ready"
  /\ Routine(request) = routine
  /\ accepts
  /\ UNCHANGED <<request, before>>

Refuse(routine, accepts) ==
  /\ phase = "ready"
  /\ Routine(request) = routine
  /\ ~accepts
  /\ phase' = "refused"
  /\ UNCHANGED <<request, memory, before, provider>>

Serially(result) ==
  /\ phase' = "serial"
  /\ memory' = result
  /\ UNCHANGED provider

OnDevice(work) ==
  /\ phase' = IF work.provider = <<>> THEN "cuda" ELSE "enqueued"
  /\ memory' = work.memory
  /\ provider' = work.provider

CallEither(routine, accepts, serial, cuda) ==
  \/ Refuse(routine, accepts)
  \/ Call(routine, accepts) /\ (Serially(serial) \/ OnDevice(cuda))

Rot ==
  CallEither("Rot", RotAccepts(request),
             S!Rot(memory, request), C!Rot(memory, request))

Rotm ==
  CallEither("Rotm", RotmAccepts(request),
             S!Rotm(memory, request), C!Rotm(memory, request))

Swap ==
  CallEither("Swap", PairAccepts(request),
             S!Swap(memory, request), C!Transfer(memory, request))

Scal ==
  CallEither("Scal", TRUE,
             S!Scal(memory, request), C!Scal(memory, request))

Copy ==
  CallEither("Copy", PairAccepts(request),
             S!Copy(memory, request), C!Transfer(memory, request))

Axpy ==
  CallEither("Axpy", PairAccepts(request),
             S!Axpy(memory, request), C!Axpy(memory, request))

Dot ==
  CallEither("Dot", DotAccepts(request),
             S!Dot(memory, request), C!Dot(memory, request))

Asum ==
  CallEither("Asum", ReductionAccepts(request),
             S!Asum(memory, request), C!Asum(memory, request))

(* Only the CUDA facet has a workspace to check. *)
Iamax ==
  LET accepts == ReductionAccepts(request)
      cudaAccepts == accepts /\ WorkspaceAccepts(request)
  IN \/ Refuse("Iamax", cudaAccepts)
     \/ Call("Iamax", accepts) /\ Serially(S!Iamax(memory, request))
     \/ Call("Iamax", cudaAccepts) /\ OnDevice(C!Iamax(memory, request))

GeneralMv ==
  CallEither("GeneralMv", GeneralMvAccepts(request),
             S!GeneralMv(memory, request), C!GeneralMv(memory, request))

StructuredMv ==
  CallEither("StructuredMv", StructuredMvAccepts(request),
             S!StructuredMv(memory, request), C!StructuredMv(memory, request))

TriangularVector ==
  CallEither("TriangularVector", TriangularVectorAccepts(request),
             S!TriangularVector(memory, request), C!TriangularVector(memory, request))

GeneralRank ==
  CallEither("GeneralRank", GeneralRankAccepts(request),
             S!GeneralRank(memory, request), C!GeneralRank(memory, request))

StructuredRank ==
  CallEither("StructuredRank", StructuredRankAccepts(request),
             S!StructuredRank(memory, request), C!StructuredRank(memory, request))

Gemm ==
  CallEither("Gemm", GemmAccepts(request),
             S!Gemm(memory, request), C!Gemm(memory, request))

StructuredMultiply ==
  CallEither("StructuredMultiply", StructuredMultiplyAccepts(request),
             S!StructuredMultiply(memory, request), C!StructuredMultiply(memory, request))

RankK ==
  CallEither("RankK", RankKAccepts(request),
             S!RankK(memory, request), C!RankK(memory, request))

TriangularMatrix ==
  CallEither("TriangularMatrix", TriangularMatrixAccepts(request),
             S!TriangularMatrix(memory, request), C!TriangularMatrix(memory, request))

(* Sparse BLAS. What the two facets refuse differs. *)
CallEitherSparse(routine, accepts, cudaAccepts, serial, cuda) ==
  \/ Refuse(routine, accepts)
  \/ Refuse(routine, cudaAccepts)
  \/ Call(routine, accepts) /\ Serially(serial)
  \/ Call(routine, cudaAccepts) /\ OnDevice(cuda)

(* The serial product is returned; a program keeps it apart from the       *)
(* operands.                                                               *)
SparseDot ==
  \/ Refuse("SparseDot", P!CudaIndexedAccepts(request))
  \/ /\ Call("SparseDot", P!IndexedAccepts(request))
     /\ request.c.rows = 1 /\ Separate(request)
     /\ Serially(P!SparseDot(memory, request))
  \/ /\ Call("SparseDot", P!CudaIndexedAccepts(request))
     /\ OnDevice(C!Done(P!SparseDot(memory, request)))

SparseAxpy ==
  CallEitherSparse("SparseAxpy", P!IndexedAccepts(request),
                   P!CudaIndexedAccepts(request), P!SparseAxpy(memory, request),
                   C!Done(P!SparseAxpy(memory, request)))

SparseGather ==
  CallEitherSparse("SparseGather", P!IndexedAccepts(request),
                   P!CudaIndexedAccepts(request),
                   P!SparseGather(memory, request),
                   C!Done(P!SparseGather(memory, request)))

SparseGatherZero ==
  CallEitherSparse("SparseGatherZero", P!IndexedAccepts(request),
                   P!CudaIndexedAccepts(request),
                   P!SparseGatherZero(memory, request),
                   C!Done(P!SparseGatherZero(memory, request)))

SparseScatter ==
  CallEitherSparse("SparseScatter", P!IndexedAccepts(request),
                   P!CudaIndexedAccepts(request),
                   P!SparseScatter(memory, request),
                   C!Done(P!SparseScatter(memory, request)))

SparseProduct ==
  CallEitherSparse("SparseProduct", P!ProductAccepts(request),
                   P!CudaProductAccepts(request),
                   P!SparseProduct(memory, request),
                   C!Done(P!StandardProductKernel(memory, request)))

CsrMv ==
  CallEither("CsrMv", P!CsrMvAccepts(request),
             P!CsrMv(memory, request), P!CudaCsrMv(memory, request))

SparseSolve ==
  CallEitherSparse("SparseSolve", P!SparseSolveAccepts(request),
                   P!CudaSparseSolveAccepts(request),
                   P!SparseSolve(memory, request),
                   C!Done(P!StandardTriangularSolveKernel(memory, request)))

(* The stream runs the call of the library. *)
RunProvider ==
  /\ phase = "enqueued"
  /\ phase' = "cuda"
  /\ memory' = Provider(memory, provider[1])
  /\ UNCHANGED <<request, before, provider>>

Next ==
  \/ CreateViews
  \/ Rot \/ Rotm \/ Swap \/ Scal \/ Copy \/ Axpy \/ Dot \/ Asum \/ Iamax
  \/ GeneralMv \/ StructuredMv \/ TriangularVector
  \/ GeneralRank \/ StructuredRank
  \/ Gemm \/ StructuredMultiply \/ RankK \/ TriangularMatrix
  \/ SparseDot \/ SparseAxpy \/ SparseGather \/ SparseGatherZero
  \/ SparseScatter \/ SparseProduct \/ CsrMv \/ SparseSolve
  \/ RunProvider

-----------------------------------------------------------------------------

(* memory is what the standard defines for the call: the elements of the   *)
(* destination have their values, which are numbers, every other cell is   *)
(* as before, and a solution solves its system.                            *)
Solves(r) ==
  LET T == Op(r.transpose, TriangularOf(before, r))
      X == General(memory, r.c)
  IN r.alpha # Zero =>
       (IF r.side = "left" THEN Mul(T, X) ELSE Mul(X, T))
         = Scale(r.alpha, General(before, r.c))

Workspace ==
  IF phase = "cuda" /\ request.operation = "Iamax" THEN Reach(request.b) ELSE {}

ComputedAsDefined ==
  LET defined == Defined(before, request)
      changed == {x \in Cells : defined[x] # before[x]}
  IN /\ \A x \in Cells \ Workspace : memory[x] = defined[x]
     /\ \A x \in changed : IsNumber(memory[x])
     /\ request.operation = "triangularSolve" => Solves(request)

(* The serial loops compute what the standard defines, whatever the        *)
(* storage, layout, increments and operation: in particular those that     *)
(* overwrite an operand while they read it (TriangularOperation,           *)
(* TriangularMultiply, TriangularSolve) never read an element too late.    *)
SerialComputesTheDefinition == phase = "serial" => ComputedAsDefined

(* The rewriting of a row-major call to a column-major one for cuBLAS, and *)
(* the project's kernels, compute what the standard defines.               *)
CudaComputesTheDefinition == phase = "cuda" => ComputedAsDefined

(* A call that is made has all elements of its operands in the program's   *)
(* storage, and writes no element that it also reads as an operand:        *)
(* reachable_storage(), by which the code checks both, covers every        *)
(* element of a view.                                                      *)
AcceptedOperandsAreSeparate ==
  LET read == ReadOperands(request)
      written == Destination(request)
  IN phase \in {"serial", "cuda"} =>
       read \cup written \subseteq Backing /\ read \cap written = {}

=============================================================================

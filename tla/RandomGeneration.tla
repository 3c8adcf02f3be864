-------------------------- MODULE RandomGeneration --------------------------
(***************************************************************************)
(* Generation from the counter-based engine.  A domain is a stream with a  *)
(* subsequence; it holds one word at every offset, always the same.  A     *)
(* call draws a window of words, returns the offset after the window, and  *)
(* the caller gives that offset to the next call on the domain.            *)
(*                                                                         *)
(* A sparse call draws two words per element of the shape, which make the  *)
(* element's priority, and stores the elements of least priority; ordinals *)
(* break ties.  There are three implementations: GenerateSparseUniform01   *)
(* on the host, GenerateSparseStructure with a workspace, and the kernels  *)
(* of the CUDA facet.  What a kernel launch may fail at is in CudaSubmit.  *)
(***************************************************************************)
EXTENDS Integers, Sequences, SequencesExt, FiniteSetsExt

CONSTANTS
  Domains,
  LastOffset,    \* the greatest RandomOffset
  Shapes,        \* sequences of extents
  Layouts,       \* the views of a dense call, [extents, strides]
  WordBase       \* a word is a number below WordBase

Offsets == 0 .. LastOffset

VARIABLES
  next,          \* the offset that the caller of each domain has reached
  drawn,         \* how many elements drew the word at each offset
  skipped,       \* how many draws a call counted there that no kernel makes
  call,          \* the call in progress, or finished and not yet looked at
  array          \* the storage it fills

vars == <<next, drawn, skipped, call, array>>

LogicalSize(extents) == FoldSeq(LAMBDA x, y : x * y, 1, extents)

(* Extents::Create() refuses a negative extent and a size out of range. *)
ASSUME SizeAssumption ==
  /\ LastOffset \in Nat /\ WordBase \in Nat
  /\ Shapes \subseteq Seq(Nat)
  /\ \A layout \in Layouts : layout.extents \in Seq(Nat)

Ordinals(extents) == 0 .. LogicalSize(extents) - 1

------------------------------------------------------------------------------
\* Words and offsets

(* AdvanceRandomOffset() compares with what is left of the range. *)
FitsTheSum(offset, words) == (offset + words) % (LastOffset + 1) <= LastOffset

Fits(offset, words) == words <= LastOffset - offset

(* Unsigned sums wrap around. *)
WordOf(first, element, width, word) ==
  (first + element * width + word) % (LastOffset + 1)

Advanced(offset, words) == WordOf(offset, words, 1, 0)

(* A number of elements draw their words, one element after the other. *)
Draw(bag, domain, first, elements, width) ==
  [bag EXCEPT ![domain] =
     [offset \in Offsets |->
        @[offset] + Quantify(0 .. elements - 1, LAMBDA e :
                      \E w \in 0 .. width - 1 : WordOf(first, e, width, w) = offset)]]

------------------------------------------------------------------------------
\* Selection

Priority(high, low) == high * WordBase + low

(* PriorityOrdinalLess() of pairs <<priority, ordinal>> *)
PriorityLess(x, y) == x[1] < y[1]

CandidateLess(x, y) == x[1] < y[1] \/ (x[1] = y[1] /\ x[2] < y[2])

Candidates(priority) == {<<priority[o], o>> : o \in DOMAIN priority}

(* One pass over the ordinals finds the least after the previous choice. *)
LeastOf(candidates) ==
  IF candidates = {} THEN <<0, 0>>
  ELSE CHOOSE c \in candidates : \A d \in candidates : ~CandidateLess(d, c)

InOrderOfPriority(priority, count) ==
  LET choice[k \in 1 .. count] ==
        LeastOf({c \in Candidates(priority) :
                   k > 1 => CandidateLess(choice[k - 1], c)})
  IN [k \in 1 .. count |-> choice[k][2]]

(* What std::nth_element() may leave before the count-th candidate. *)
FirstParts(priority, count) ==
  LET all == Candidates(priority)
  IN IF count = Cardinality(all) THEN {all}
     ELSE {part \in kSubset(count, all) :
             \A c \in part, d \in all \ part : ~CandidateLess(d, c)}

(* The second pass of GenerateSparseStructure() recomputes the priorities. *)
UpTo(cutoff, priority) ==
  LET put == {o \in DOMAIN priority : ~CandidateLess(cutoff, <<priority[o], o>>)}
  IN [k \in 1 .. Cardinality(put) |->
        CHOOSE o \in put : Quantify(put, LAMBDA q : q < o) = k - 1]

CoordinateFromOrdinal(ordinal, extents) ==
  LET rank == Len(extents)
      quotient[d \in 1 .. rank] ==
        IF d = rank THEN ordinal ELSE quotient[d + 1] \div extents[d + 1]
  IN [d \in 1 .. rank |-> quotient[d] % extents[d]]

(* Finalize() of the builder sorts by coordinates. *)
LexLess(x, y) ==
  \E d \in DOMAIN x : x[d] < y[d] /\ \A e \in 1 .. d - 1 : x[e] = y[e]

InCanonicalOrder(added) ==
  [k \in DOMAIN added |->
     added[CHOOSE i \in DOMAIN added :
             Quantify(DOMAIN added, LAMBDA j :
               LexLess(added[j], added[i]) \/ (added[j] = added[i] /\ j < i)) = k - 1]]

(* SelectCanonicalOrdinals() moves greater ordinals up for the new one. *)
Insert(sorted, ordinal) ==
  LET below == {k \in DOMAIN sorted :
                  \E j \in k .. Len(sorted) : sorted[j] <= ordinal}
  IN InsertAt(sorted, Cardinality(below) + 1, ordinal)

(* LogicalElement() and PhysicalOffset(), first dimension fastest *)
PhysicalOffset(layout, ordinal) ==
  LET quotient[d \in 1 .. Len(layout.extents)] ==
        IF d = 1 THEN ordinal ELSE quotient[d - 1] \div layout.extents[d - 1]
  IN FoldSeq(LAMBDA x, y : x + y, 0,
             [d \in 1 .. Len(layout.extents) |->
                (quotient[d] % layout.extents[d]) * layout.strides[d]])

------------------------------------------------------------------------------
\* Calls

NoCall(status) == [phase |-> "idle", status |-> status]

Init ==
  /\ next = [d \in Domains |-> 0]
  /\ drawn = [d \in Domains |-> [offset \in Offsets |-> 0]]
  /\ skipped = drawn
  /\ call = NoCall("kOk")
  /\ array = <<>>

Refuse(status) ==
  /\ call' = NoCall(status)
  /\ UNCHANGED <<next, drawn, skipped, array>>

(* A context of another backend, or memory that the context cannot use *)
RefuseContext ==
  \E status \in {"kUnsupported", "kMemoryAccess"} : Refuse(status)

StructureWords(extents, count) == IF count = 0 THEN 0 ELSE 2 * LogicalSize(extents)

(* The checks that both facets make before they draw a word. *)
SparseStatus(extents, count, width, structure, value) ==
  IF count \notin 0 .. LogicalSize(extents) THEN "kShape"
  ELSE IF structure = value THEN "kInvalidArgument"
  ELSE IF /\ Fits(next[structure], StructureWords(extents, count))
          /\ Fits(next[value], count * width)
       THEN "kOk" ELSE "kOverflow"

SparseCall(kind, extents, count, width, structure, value, words) ==
  [kind |-> kind, phase |-> "done", status |-> "kOk", extents |-> extents,
   count |-> count, width |-> width, value |-> value, first |-> next[value],
   structure |-> structure, start |-> next[structure],
   dimension |-> Len(extents), divisor |-> 1,
   priority |-> [o \in Ordinals(extents) |-> Priority(words[o][1], words[o][2])]]

Words(extents, count) ==
  [Ordinals(extents) -> IF count = 0 THEN {<<0, 0>>}
                        ELSE (0 .. WordBase - 1) \X (0 .. WordBase - 1)]

AdvanceBoth(extents, count, width, structure, value) ==
  next' = [next EXCEPT ![structure] = Advanced(@, StructureWords(extents, count)),
                       ![value] = Advanced(@, count * width)]

DrawStructure(bag, extents, count, structure) ==
  Draw(bag, structure, next[structure], StructureWords(extents, count) \div 2, 2)

(* On the host: one Add() per choice, Finalize(kReject, kKeep), and the    *)
(* values in the order of the array.                                       *)
GenerateSparseUniform01(extents, count, width, structure, value) ==
  /\ LET status == SparseStatus(extents, count, width, structure, value) IN
     \/ status # "kOk" /\ Refuse(status)
     \/ /\ status = "kOk"
        /\ \E words \in Words(extents, count) :
             LET new == SparseCall("coordinates", extents, count, width, structure, value, words)
                 chosen == InOrderOfPriority(new.priority, count)
                 added == [k \in 1 .. count |-> CoordinateFromOrdinal(chosen[k], extents)]
             IN /\ call' = [new EXCEPT !.status =
                               IF IsInjective(added) THEN "kOk" ELSE "kInvalidArgument"]
                /\ array' = InCanonicalOrder(added)
        /\ AdvanceBoth(extents, count, width, structure, value)
        /\ drawn' = Draw(DrawStructure(drawn, extents, count, structure),
                         value, next[value], count, width)
        /\ UNCHANGED skipped

(* Output and workspace of the caller, refused where they overlap; the     *)
(* cutoff is the greatest of the first part, and everything up to it is    *)
(* put out in ascending order.                                             *)
GenerateSparseStructure(extents, count, output, workspace, domain) ==
  /\ \/ /\ \/ count \notin 0 .. LogicalSize(extents)
           \/ output # count
           \/ workspace # IF count = 0 THEN 0 ELSE LogicalSize(extents)
        /\ Refuse("kShape")
     \/ /\ count \in 0 .. LogicalSize(extents) /\ output = count
        /\ workspace = IF count = 0 THEN 0 ELSE LogicalSize(extents)
        /\ \/ count # 0 /\ Refuse("kInvalidArgument")
           \/ /\ ~Fits(next[domain], StructureWords(extents, count))
              /\ Refuse("kOverflow")
           \/ /\ Fits(next[domain], StructureWords(extents, count))
              /\ \E words \in Words(extents, count) :
                   LET new == SparseCall("ordinals", extents, count, 0, domain, domain, words)
                   IN \E first \in FirstParts(new.priority, count) :
                        LET cutoffs == {c \in first : \A d \in first : ~CandidateLess(c, d)}
                        IN \E put \in IF count = 0 THEN {<<>>}
                                      ELSE {UpTo(c, new.priority) : c \in cutoffs} :
                             /\ call' = IF Len(put) = output THEN new
                                        ELSE [new EXCEPT !.status = "kInternal"]
                             /\ array' = put
              /\ next' = [next EXCEPT ![domain] =
                            Advanced(@, StructureWords(extents, count))]
              /\ drawn' = DrawStructure(drawn, extents, count, domain)
              /\ UNCHANGED skipped

------------------------------------------------------------------------------
\* The CUDA facet: the call returns its offsets when the kernels are queued,
\* and the kernels run in the order of the stream.

Slots == DOMAIN array
Slot(position, dimension) == (position - 1) * Len(call.extents) + dimension

(* Without dimensions there are no ordinals to select: the kernel that     *)
(* reads the words of the structure is not launched.                       *)
SelectsOrdinals(extents) == extents # <<>>

(* The structure offset advances over those words all the same.            *)
CudaGenerateSparseUniform01(extents, count, width, structure, value) ==
  /\ LET status == SparseStatus(extents, count, width, structure, value) IN
     \/ status # "kOk" /\ Refuse(status)
     \/ /\ status = "kOk"
        /\ \E words \in Words(extents, count) :
             call' = [SparseCall("slots", extents, count, width, structure, value, words)
                        EXCEPT !.phase = IF count = 0 THEN "done"
                                         ELSE IF SelectsOrdinals(extents) THEN "select" ELSE "fill"]
        /\ array' = [slot \in 1 .. count * Len(extents) |-> "unset"]
        /\ AdvanceBoth(extents, count, width, structure, value)
        /\ skipped' = IF SelectsOrdinals(extents) THEN skipped
                      ELSE DrawStructure(skipped, extents, count, structure)
        /\ UNCHANGED drawn

(* The kernel draws the priorities, and the chosen ordinals go, in order,  *)
(* to the first dimension's slots.                                         *)
SelectCanonicalOrdinals ==
  /\ call.phase = "select"
  /\ LET sorted == FoldSeq(LAMBDA ordinal, s : Insert(s, ordinal), <<>>,
                           InOrderOfPriority(call.priority, call.count))
     IN array' = [slot \in Slots |->
                    IF \E k \in 1 .. call.count : slot = Slot(k, 1)
                    THEN sorted[CHOOSE k \in 1 .. call.count : slot = Slot(k, 1)]
                    ELSE array[slot]]
  /\ call' = [call EXCEPT !.phase = "decode"]
  /\ drawn' = Draw(drawn, call.structure, call.start, LogicalSize(call.extents), 2)
  /\ UNCHANGED <<next, skipped>>

(* The launches go from the last dimension down to the first, whose slots  *)
(* hold the ordinals until then.                                           *)
FollowingDimension(dimension) == dimension - 1

DecodeCoordinateDimension ==
  /\ call.phase = "decode"
  /\ LET extent == call.extents[call.dimension] IN
     /\ array' = [slot \in Slots |->
                    IF \E k \in 1 .. call.count : slot = Slot(k, call.dimension)
                    THEN LET ordinal == array[slot - call.dimension + 1]
                         IN (ordinal \div call.divisor) % extent
                    ELSE array[slot]]
     /\ call' = [call EXCEPT !.dimension = FollowingDimension(@),
                             !.divisor = @ * extent,
                             !.phase = IF call.dimension = 1 THEN "fill" ELSE "decode"]
  /\ UNCHANGED <<next, drawn, skipped>>

FillValues ==
  /\ call.phase = "fill"
  /\ drawn' = Draw(drawn, call.value, call.first, call.count, call.width)
  /\ call' = [call EXCEPT !.phase = "done"]
  /\ UNCHANGED <<next, skipped, array>>

------------------------------------------------------------------------------
\* Fills

(* FillSparseUniform01() of the stored values, CudaFillPhilox4x32() *)
FillWords(domain, elements, width) ==
  /\ \/ ~Fits(next[domain], elements * width) /\ Refuse("kOverflow")
     \/ /\ Fits(next[domain], elements * width)
        /\ next' = [next EXCEPT ![domain] = Advanced(@, elements * width)]
        /\ drawn' = Draw(drawn, domain, next[domain], elements, width)
        /\ call' = NoCall("kOk")
        /\ UNCHANGED <<skipped, array>>

(* Every element of a dense view, wherever its strides put it. *)
FillDenseUniform01(domain, layout, width) ==
  /\ LET elements == LogicalSize(layout.extents) IN
     \/ ~Fits(next[domain], elements * width) /\ Refuse("kOverflow")
     \/ /\ Fits(next[domain], elements * width)
        /\ next' = [next EXCEPT ![domain] = Advanced(@, elements * width)]
        /\ drawn' = Draw(drawn, domain, next[domain], elements, width)
        /\ call' = [kind |-> "dense", phase |-> "done", status |-> "kOk",
                    layout |-> layout, width |-> width, first |-> next[domain]]
        /\ array' = {<<PhysicalOffset(layout, o), WordOf(next[domain], o, width, 0)>> :
                       o \in 0 .. elements - 1}
        /\ UNCHANGED skipped

(* The caller has looked at the result. *)
TakeResult ==
  /\ call.phase = "done"
  /\ call' = NoCall("kOk")
  /\ array' = <<>>
  /\ UNCHANGED <<next, drawn, skipped>>

(* One call at a time: its caller has seen the result of the one before. *)
Call ==
  \/ RefuseContext
  \/ \E extents \in Shapes, structure, value \in Domains, width \in {1, 2} :
       \E count \in -1 .. LogicalSize(extents) + 1 :
         \/ GenerateSparseUniform01(extents, count, width, structure, value)
         \/ CudaGenerateSparseUniform01(extents, count, width, structure, value)
  \/ \E extents \in Shapes, domain \in Domains :
       \E count \in -1 .. LogicalSize(extents) + 1,
          output \in 0 .. LogicalSize(extents), workspace \in {0, LogicalSize(extents)} :
         GenerateSparseStructure(extents, count, output, workspace, domain)
  \/ \E domain \in Domains, elements \in 0 .. 3, width \in {1, 2} :
       FillWords(domain, elements, width)
  \/ \E domain \in Domains, layout \in Layouts, width \in {1, 2} :
       FillDenseUniform01(domain, layout, width)

Next ==
  \/ call.phase = "idle" /\ Call
  \/ SelectCanonicalOrdinals
  \/ DecodeCoordinateDimension
  \/ FillValues
  \/ TakeResult

Spec == Init /\ [][Next]_vars

------------------------------------------------------------------------------

(* No word is ever drawn for two elements, not even at the end of the      *)
(* range of offsets or by a kernel that runs after its call has returned,  *)
(* and a word that a CUDA call of rank 0 counts and skips is never drawn.  *)
(* Between calls the words below the offset that the calls returned are    *)
(* exactly those that have been drawn or skipped.                          *)
WordsAreDrawnOnce ==
  \A d \in Domains, offset \in Offsets :
    LET spent == drawn[d][offset] + skipped[d][offset] IN
    /\ spent <= 1
    /\ call.phase \in {"idle", "done"} => (spent = 1 <=> offset < next[d])

Index(extents) == [d \in DOMAIN extents |-> 0 .. extents[d] - 1]

CoordinatesOf(extents) ==
  {t \in [DOMAIN extents -> UNION Range(Index(extents))] :
     \A d \in DOMAIN extents : t[d] \in Index(extents)[d]}

(* The elements before one when the last, or the first, index runs fastest *)
RowMajorRank(extents, t) ==
  Quantify(CoordinatesOf(extents), LAMBDA u : LexLess(u, t))

ColumnMajorRank(extents, t) ==
  Quantify(CoordinatesOf(extents), LAMBDA u : LexLess(Reverse(u), Reverse(t)))

(* The ordinals with fewer than count others before them *)
Least(priority, count) ==
  {o \in DOMAIN priority :
     Quantify(DOMAIN priority, LAMBDA q :
       priority[q] < priority[o] \/ (priority[q] = priority[o] /\ q < o)) < count}

Stored ==
  IF call.kind = "slots"
  THEN [k \in 1 .. call.count |->
          [d \in DOMAIN call.extents |-> array[Slot(k, d)]]]
  ELSE array

(* Whatever the ties, a finished sparse call of either facet has stored    *)
(* exactly the elements of least priority, each once and in canonical      *)
(* order, and a dense call has put each element's words where the view     *)
(* keeps that element.                                                     *)
GenerationIsExact ==
  call.phase = "done" =>
    /\ call.status = "kOk"
    /\ CASE call.kind \in {"coordinates", "slots"} ->
           /\ \A k \in 1 .. call.count - 1 : LexLess(Stored[k], Stored[k + 1])
           /\ Range(Stored) =
                {t \in CoordinatesOf(call.extents) :
                   RowMajorRank(call.extents, t) \in Least(call.priority, call.count)}
      [] call.kind = "ordinals" ->
           /\ \A k \in 1 .. call.count - 1 : array[k] < array[k + 1]
           /\ Range(array) = Least(call.priority, call.count)
      [] call.kind = "dense" ->
           array = {<<FoldSeq(LAMBDA x, y : x + y, 0,
                              [d \in DOMAIN t |-> t[d] * call.layout.strides[d]]),
                      call.first + call.width * ColumnMajorRank(call.layout.extents, t)>> :
                    t \in CoordinatesOf(call.layout.extents)}
=============================================================================

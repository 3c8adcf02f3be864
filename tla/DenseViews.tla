----------------------------- MODULE DenseViews -----------------------------
(***************************************************************************)
(* Layouts, views and owning arrays of the Dense module and the serial     *)
(* evaluation of expressions over them.  Memory is a set of blocks of      *)
(* cells, one element each: the caller's own storage, and a block per      *)
(* allocation of a DenseArray.  How a Buffer keeps and returns its         *)
(* allocation is in BufferOwnership.                                       *)
(***************************************************************************)
EXTENDS Integers, Sequences, SequencesExt, FiniteSetsExt

CONSTANTS
  IndexMax,      \* the greatest extent_t, index_t and stride_t
  SizeMax,       \* the greatest std::size_t
  ElementSize,   \* bytes of an element
  ElementMax,    \* elements are unsigned and wrap around
  LayoutInputs,  \* extents and explicit strides that a caller asks a layout for
  ViewInputs,    \* those of the views over the caller's storage
  Offsets,       \* offsets of subviews, per dimension
  Shapes,        \* extents of subviews, per dimension
  ArrayShapes,   \* extents of arrays
  Others,        \* scalars and views that are the other operand of an expression
  Cells,         \* how many cells the caller's storage has
  Storage,       \* the block of the caller
  Blocks,        \* what allocations are named by, in the order they are taken
  Arrays,        \* DenseArray variables of the caller
  Null,          \* the data pointer of an array without elements
  Unset,         \* the contents of uninitialized memory
  None           \* no object, or the buffer of an object moved from

VARIABLES
  heap,          \* the cells of each block, or None for a block not allocated
  arrays,        \* a DenseArray, or None
  call           \* the last call with its result, until it was looked at

vars == <<heap, arrays, call>>

------------------------------------------------------------------------------
\* Checked arithmetic

Toward0(x, y) ==
  LET magnitude == (IF x < 0 THEN -x ELSE x) \div (IF y < 0 THEN -y ELSE y)
  IN IF (x < 0) = (y < 0) THEN magnitude ELSE -magnitude

(* CheckedMultiply() of signed integers, by its quotients *)
MultiplyOverflows(left, right) ==
  LET least == -IndexMax - 1 IN
  /\ left # 0 /\ right # 0
  /\ \/ left = -1 /\ right = least
     \/ right = -1 /\ left = least
     \/ left > 0 /\ right > 0 /\ left > Toward0(IndexMax, right)
     \/ left > 0 /\ right < 0 /\ right < Toward0(least, left)
     \/ left < 0 /\ right > 0 /\ left < Toward0(least, right)
     \/ left < 0 /\ right < 0 /\ left < Toward0(IndexMax, right)

AddOverflows(left, right) ==
  \/ right > 0 /\ left > IndexMax - right
  \/ right < 0 /\ left < -IndexMax - 1 - right

Product(numbers) == FoldSeq(LAMBDA x, y : x * y, 1, numbers)
Sum(numbers) == FoldSeq(LAMBDA x, y : x + y, 0, numbers)

Before(numbers, d) == SubSeq(numbers, 1, d - 1)
After(numbers, d) == SubSeq(numbers, d + 1, Len(numbers))

------------------------------------------------------------------------------
\* DenseLayout

(* ValidateExtents() stops at the first extent that it refuses; nothing    *)
(* overflows once an extent was zero.                                      *)
Refused(extents) ==
  {d \in DOMAIN extents :
     \/ extents[d] < 0
     \/ MultiplyOverflows(Product(Before(extents, d)), extents[d])}

ExtentsStatus(extents) ==
  IF Refused(extents) = {} THEN "kOk"
  ELSE IF extents[Min(Refused(extents))] < 0 THEN "kShape" ELSE "kOverflow"

LeftStrides(extents) == [d \in DOMAIN extents |-> Product(Before(extents, d))]
RightStrides(extents) == [d \in DOMAIN extents |-> Product(After(extents, d))]

(* The strides of a left or right layout are products as well. *)
StrideOverflows(kind, extents) ==
  \E d \in DOMAIN extents :
    \/ kind = "kLeft" /\ MultiplyOverflows(LeftStrides(extents)[d], extents[d])
    \/ kind = "kRight" /\ MultiplyOverflows(RightStrides(extents)[d], extents[d])

Terms(extents, strides) == [d \in DOMAIN extents |-> (extents[d] - 1) * strides[d]]

SpanOverflows(extents, strides) ==
  LET terms == Terms(extents, strides) IN
  \/ \E d \in DOMAIN extents :
       \/ MultiplyOverflows(extents[d] - 1, strides[d])
       \/ AddOverflows(Sum(Before(terms, d)), terms[d])
  \/ AddOverflows(Sum(terms), 1)

(* Dimensions by ascending strides, those of one index left out *)
Active(extents, strides) ==
  SetToSortSeq({d \in DOMAIN extents : extents[d] > 1},
               LAMBDA c, d : strides[c] < strides[d] \/ (strides[c] = strides[d] /\ c < d))

\* Leaves out the element at the start of every stretch.
CoveredFromZero(extents, strides, order, k) ==
  Sum([j \in 1 .. k - 1 |-> Terms(extents, strides)[order[j]]])

Covered(extents, strides, order, k) ==
  1 + Sum([j \in 1 .. k - 1 |-> Terms(extents, strides)[order[j]]])

(* Every stride steps over all that the smaller ones reach. *)
ProveUnique(extents, strides) ==
  LET order == Active(extents, strides)
  IN \A k \in DOMAIN order : strides[order[k]] >= Covered(extents, strides, order, k)

CreateValidated(extents, strides, kind) ==
  LET size == Product(extents)
      span == IF size = 0 THEN 0 ELSE 1 + Sum(Terms(extents, strides))
      unique == size = 0 \/ ProveUnique(extents, strides)
  IN IF size # 0 /\ SpanOverflows(extents, strides)
     THEN [status |-> "kOverflow"]
     ELSE [status |-> "kOk", extents |-> extents, strides |-> strides, kind |-> kind,
           size |-> size, span |-> span, unique |-> unique,
           exhaustive |-> unique /\ span = size]

(* DenseLayout::Create(); strides count only for LayoutStride. *)
Layout(kind, extents, strides) ==
  IF ExtentsStatus(extents) # "kOk" THEN [status |-> ExtentsStatus(extents)]
  ELSE IF StrideOverflows(kind, extents) THEN [status |-> "kOverflow"]
  ELSE IF kind = "kStride" /\ \E d \in DOMAIN strides : strides[d] < 0
  THEN [status |-> "kInvalidArgument"]
  ELSE CreateValidated(extents, CASE kind = "kLeft" -> LeftStrides(extents)
                                  [] kind = "kRight" -> RightStrides(extents)
                                  [] OTHER -> strides, kind)

(* The coordinates that ForEachCoordinate() visits, dimension 1 fastest *)
Coordinate(extents, ordinal) ==
  [d \in DOMAIN extents |-> (ordinal \div Product(Before(extents, d))) % extents[d]]

Offset(mapping, coordinate) ==
  Sum([d \in DOMAIN coordinate |-> coordinate[d] * mapping.strides[d]])

------------------------------------------------------------------------------
\* DenseView: where its data pointer points, and a mapping

View(block, base, mapping) == [block |-> block, base |-> base, mapping |-> mapping]

(* DenseView::Create() *)
ViewStatus(mapping) ==
  IF mapping.status # "kOk" THEN mapping.status
  ELSE IF ~mapping.unique THEN "kInvalidArgument"
  ELSE IF mapping.span * ElementSize > SizeMax THEN "kOverflow"
  ELSE "kOk"

Rank(view) == Len(view.mapping.extents)
Ordinals(view) == 0 .. view.mapping.size - 1

At(view, coordinate) == view.base + Offset(view.mapping, coordinate)

ElementOf(view, ordinal) == At(view, Coordinate(view.mapping.extents, ordinal))

(* The first subview bound, in order of the dimensions, that is not right *)
SubviewStatus(view, offsets, extents) ==
  LET negative(d) == offsets[d] < 0 \/ extents[d] < 0
      wrong == {d \in DOMAIN extents :
                  \/ negative(d) \/ AddOverflows(offsets[d], extents[d])
                  \/ offsets[d] + extents[d] > view.mapping.extents[d]}
  IN IF wrong = {} THEN "kOk"
     ELSE IF negative(Min(wrong)) THEN "kInvalidArgument"
     ELSE IF AddOverflows(offsets[Min(wrong)], extents[Min(wrong)]) THEN "kOverflow"
     ELSE "kIndex"

(* An empty subview keeps the pointer of its source. *)
Subview(view, offsets, extents) ==
  LET mapping == Layout("kStride", extents, view.mapping.strides)
  IN IF SubviewStatus(view, offsets, extents) # "kOk"
     THEN [status |-> SubviewStatus(view, offsets, extents)]
     ELSE IF mapping.status # "kOk" THEN [status |-> mapping.status]
     ELSE IF ~mapping.unique THEN [status |-> "kInvalidArgument"]
     ELSE [status |-> "kOk",
           view |-> View(view.block,
                         IF \E d \in DOMAIN extents : extents[d] = 0 THEN view.base
                         ELSE At(view, offsets), mapping)]

------------------------------------------------------------------------------
\* Expressions: an operation on one or two operands, views or scalars

Scalar(value) == [scalar |-> value]
IsView(operand) == "block" \in DOMAIN operand

OperandRank(operand) == IF IsView(operand) THEN Rank(operand) ELSE 0

(* The operand that gives an expression its rank and its extents *)
Leading(expression) ==
  IF /\ Len(expression.operands) = 2
     /\ OperandRank(expression.operands[1]) = 0
  THEN expression.operands[2] ELSE expression.operands[1]

ExpressionRank(expression) == OperandRank(Leading(expression))

(* ValidateBinaryShape() *)
ShapesMatch(left, right) ==
  \/ OperandRank(left) = 0 \/ OperandRank(right) = 0
  \/ left.mapping.extents = right.mapping.extents

ReadOperand(operand, coordinate, contents) ==
  IF ~IsView(operand) THEN operand.scalar
  ELSE contents[operand.block]
         [At(operand, IF Rank(operand) = 0 THEN <<>> ELSE coordinate)]

(* Unsigned arithmetic *)
Apply(operation, values) ==
  (CASE operation = "kTerminal" -> values[1]
     [] operation = "kNegate" -> -values[1]
     [] operation = "kAdd" -> values[1] + values[2]
     [] operation = "kSubtract" -> values[1] - values[2]
     [] operation = "kMultiply" -> values[1] * values[2]) % (ElementMax + 1)

ExpressionRead(expression, coordinate, contents) ==
  Apply(expression.operation,
        [k \in DOMAIN expression.operands |->
           ReadOperand(expression.operands[k], coordinate, contents)])

\* Counts the elements and not the gaps between them.
SpanBySize(view) == view.base .. view.base + view.mapping.size - 1

(* MayAlias() takes all that lies between the first element and the last. *)
ReachableSpan(view) == view.base .. view.base + view.mapping.span - 1

MayAlias(expression, block, cell) ==
  \E k \in DOMAIN expression.operands :
    LET operand == expression.operands[k]
    IN IsView(operand) /\ operand.block = block /\ cell \in ReachableSpan(operand)

SameDescriptor(left, right) ==
  /\ left.block = right.block /\ left.base = right.base
  /\ left.mapping.extents = right.mapping.extents
  /\ left.mapping.strides = right.mapping.strides

------------------------------------------------------------------------------
\* Evaluation and reductions.  ForEachCoordinate() calls a function for one
\* coordinate after the other.

NoCall(status) == [op |-> "none", status |-> status]

Unchanged(status) == call' = NoCall(status) /\ UNCHANGED <<heap, arrays>>

Written(expression, destination) ==
  LET after[count \in 0 .. destination.mapping.size] ==
        IF count = 0 THEN heap
        ELSE LET coordinate == Coordinate(destination.mapping.extents, count - 1)
             IN [after[count - 1] EXCEPT ![destination.block][At(destination, coordinate)] =
                   ExpressionRead(expression, coordinate, after[count - 1])]
  IN after[destination.mapping.size]

EvaluateStatus(expression, destination) ==
  IF \/ Len(expression.operands) = 2
        /\ ~ShapesMatch(expression.operands[1], expression.operands[2])
     \/ ExpressionRank(expression) \notin {0, Rank(destination)}
     \/ /\ ExpressionRank(expression) # 0
        /\ Leading(expression).mapping.extents # destination.mapping.extents
  THEN "kShape"
  ELSE IF \E o \in Ordinals(destination) :
            MayAlias(expression, destination.block, ElementOf(destination, o))
  THEN "kInvalidArgument"
  ELSE "kOk"

IsSelf(expression, destination) ==
  /\ expression.operation = "kTerminal" /\ IsView(expression.operands[1])
  /\ SameDescriptor(expression.operands[1], destination)

Evaluate(expression, destination) ==
  \/ /\ ~IsSelf(expression, destination)
     /\ EvaluateStatus(expression, destination) # "kOk"
     /\ Unchanged(EvaluateStatus(expression, destination))
  \/ /\ IsSelf(expression, destination) \/ EvaluateStatus(expression, destination) = "kOk"
     /\ heap' = IF IsSelf(expression, destination) THEN heap
                ELSE Written(expression, destination)
     /\ call' = [op |-> "evaluate", status |-> "kOk",
                 expression |-> expression, destination |-> destination]
     /\ UNCHANGED arrays

Read(view, ordinal) == heap[view.block][ElementOf(view, ordinal)]

(* The sum overflows as soon as one of its steps does. *)
Reduce(kind, source) ==
  LET partial[k \in 0 .. source.mapping.size] ==
        IF k = 0 THEN 0
        ELSE IF k = 1 /\ kind # "sum" THEN Read(source, 0)
        ELSE LET value == Read(source, k - 1) IN
             CASE kind = "sum" -> partial[k - 1] + value
               [] kind = "min" -> IF value < partial[k - 1] THEN value ELSE partial[k - 1]
               [] kind = "max" -> IF value > partial[k - 1] THEN value ELSE partial[k - 1]
  IN \/ kind # "sum" /\ source.mapping.size = 0 /\ Unchanged("kInvalidArgument")
     \/ /\ \E k \in DOMAIN partial : partial[k] > ElementMax
        /\ call' = [op |-> "reduce", status |-> "kOverflow", kind |-> kind, source |-> source]
        /\ UNCHANGED <<heap, arrays>>
     \/ /\ kind = "sum" \/ source.mapping.size # 0
        /\ \A k \in DOMAIN partial : partial[k] <= ElementMax
        /\ call' = [op |-> "reduce", status |-> "kOk", kind |-> kind, source |-> source,
                    value |-> partial[source.mapping.size]]
        /\ UNCHANGED <<heap, arrays>>

------------------------------------------------------------------------------
\* DenseArray: a Buffer that holds a block, or none for no elements, and the
\* mapping.  An object moved from keeps all but the buffer.

NewArray(block, mapping) == [block |-> block, mapping |-> mapping]

IsValid(a) == arrays[a] # None /\ arrays[a].block # None

(* Extents::Create() looks for zeros before it multiplies. *)
ExtentsCreateStatus(extents) ==
  IF \E d \in DOMAIN extents : extents[d] < 0 THEN "kShape"
  ELSE IF /\ \A d \in DOMAIN extents : extents[d] # 0
          /\ Refused(extents) # {}
  THEN "kOverflow" ELSE "kOk"

CreateStatus(extents, mapping) ==
  IF ExtentsCreateStatus(extents) # "kOk" THEN ExtentsCreateStatus(extents)
  ELSE IF mapping.status # "kOk" THEN mapping.status
  ELSE IF ~mapping.unique \/ ~mapping.exhaustive THEN "kInvalidArgument"
  ELSE IF mapping.span * ElementSize > SizeMax THEN "kOverflow"
  ELSE "kOk"

Released(memory, array) ==
  IF array = None \/ array.block \in {None, Null} THEN memory
  ELSE [memory EXCEPT ![array.block] = None]

Free == {b \in Blocks : heap[b] = None}

(* CreateUninitializedWithMapping() and the assignment of its result to a; *)
(* what a held before goes when the new array is there.  contents are the  *)
(* cells' once the call is over.                                           *)
Replace(a, mapping, contents) ==
  /\ call' = NoCall("kOk")
  /\ \/ /\ mapping.span = 0
        /\ arrays' = [arrays EXCEPT ![a] = NewArray(Null, mapping)]
        /\ heap' = Released(heap, arrays[a])
     \/ /\ mapping.span # 0 /\ Free # {}
        /\ arrays' = [arrays EXCEPT ![a] = NewArray(Min(Free), mapping)]
        /\ heap' = [Released(heap, arrays[a]) EXCEPT ![Min(Free)] = contents]

AllocationFails(mapping) == mapping.span # 0 /\ Unchanged("kAllocation")

Filled(mapping, value) == [c \in 0 .. mapping.span - 1 |-> value]

(* Create(), whose elements are zero and whose resource has to be the       *)
(* host's, and CreateUninitialized()                                        *)
Create(a, kind, extents, value) ==
  LET mapping == Layout(kind, extents, <<>>) IN
  /\ arrays[a] = None
  /\ \/ CreateStatus(extents, mapping) # "kOk" /\ Unchanged(CreateStatus(extents, mapping))
     \/ /\ CreateStatus(extents, mapping) = "kOk"
        /\ \/ value = 0 /\ Unchanged("kUnsupported")
           \/ AllocationFails(mapping)
           \/ Replace(a, mapping, Filled(mapping, value))

(* Gives up what the array holds and then looks for memory. *)
DiscardFirst(a, kind, extents) ==
  LET mapping == Layout(kind, extents, <<>>) IN
  /\ IsValid(a) /\ Rank(arrays[a]) = Len(extents)
  /\ heap' = Released(heap, arrays[a])
  /\ arrays' = [arrays EXCEPT ![a].block = None]
  /\ call' = NoCall(IF CreateStatus(extents, mapping) = "kOk" THEN "kAllocation"
                    ELSE CreateStatus(extents, mapping))

DiscardResize(a, kind, extents) ==
  LET mapping == Layout(kind, extents, <<>>) IN
  /\ IsValid(a) /\ Rank(arrays[a]) = Len(extents)
  /\ \/ CreateStatus(extents, mapping) # "kOk" /\ Unchanged(CreateStatus(extents, mapping))
     \/ /\ CreateStatus(extents, mapping) = "kOk"
        /\ \/ Unchanged("kUnsupported")
           \/ AllocationFails(mapping)
           \/ Replace(a, mapping, Filled(mapping, 0))

(* Without a layout, DiscardResize() keeps a right one and else takes left. *)
KeptKind(a) == IF arrays[a].mapping.kind = "kRight" THEN "kRight" ELSE "kLeft"

Clone(a, b) ==
  /\ arrays[a] = None /\ IsValid(b)
  /\ \/ Unchanged("kMemoryAccess")
     \/ AllocationFails(arrays[b].mapping)
     \/ Replace(a, arrays[b].mapping,
                IF arrays[b].block = Null THEN <<>> ELSE heap[arrays[b].block])

(* Construction of a from b, and assignment to an a of b's type *)
Move(a, b) ==
  /\ arrays[b] # None
  /\ arrays[a] = None => a # b
  /\ arrays[a] # None => Rank(arrays[a]) = Rank(arrays[b])
  /\ IF a = b THEN UNCHANGED <<heap, arrays>>
     ELSE /\ heap' = Released(heap, arrays[a])
          /\ arrays' = [arrays EXCEPT ![a] = arrays[b], ![b].block = None]
  /\ call' = NoCall("kOk")

Destroy(a) ==
  /\ arrays[a] # None
  /\ heap' = Released(heap, arrays[a])
  /\ arrays' = [arrays EXCEPT ![a] = None]
  /\ call' = NoCall("kOk")

(* view(), Clone() and DiscardResize() of an object moved from *)
MovedFrom(a) == arrays[a] # None /\ ~IsValid(a) /\ Unchanged("kInvalidState")

ArrayView(a) == View(arrays[a].block, 0, arrays[a].mapping)

------------------------------------------------------------------------------
\* What the caller does.  Two bounds on the states: it asks for layouts and
\* subviews while it has no array, and evaluates fewer expressions over its
\* arrays than over its storage.

NoArrays == arrays = [a \in Arrays |-> None]

StorageViews ==
  UNION {LET mapping == Layout("kStride", input.extents, input.strides)
         IN IF ViewStatus(mapping) # "kOk" THEN {}
            ELSE {View(Storage, base, mapping) :
                    base \in 0 .. IF mapping.span = 0 THEN 0 ELSE Cells - mapping.span} :
         input \in ViewInputs}

ValidArrays == {a \in Arrays : IsValid(a)}

CallerViews ==
  IF ValidArrays = {} THEN StorageViews
  ELSE {ArrayView(a) : a \in ValidArrays} \cup {x \in Others : IsView(x)}

Unary == {"kTerminal", "kNegate"}
Binary == {"kAdd", "kSubtract", "kMultiply"}

Expressions ==
  {[operation |-> o, operands |-> <<x>>] : o \in Unary, x \in CallerViews \cup Others}
  \cup IF ValidArrays # {} THEN {}
       ELSE {[operation |-> o, operands |-> xy] :
               o \in Binary, xy \in (CallerViews \X Others) \cup (Others \X CallerViews)}

Initialized(view) == \A o \in Ordinals(view) : Read(view, o) # Unset

OperandsInitialized(expression) ==
  \A k \in DOMAIN expression.operands :
    IsView(expression.operands[k]) => Initialized(expression.operands[k])

(* The caller looks at the result and fills what was written to again, with *)
(* another value in every cell.                                             *)
Distinct(block) == [c \in DOMAIN heap[block] |-> (c + 1) % (ElementMax + 1)]

TakeResult ==
  /\ call # NoCall("kOk")
  /\ heap' = IF call.op # "evaluate" \/ call.destination.block = Null THEN heap
             ELSE [heap EXCEPT ![call.destination.block] = Distinct(call.destination.block)]
  /\ call' = NoCall("kOk")
  /\ UNCHANGED arrays

Ready == call = NoCall("kOk")

CreateLayout ==
  /\ NoArrays
  /\ \E kind \in {"kLeft", "kRight", "kStride"}, input \in LayoutInputs :
       LET mapping == Layout(kind, input.extents, input.strides)
       IN call' = [op |-> "layout", status |-> mapping.status, mapping |-> mapping]
  /\ UNCHANGED <<heap, arrays>>

TakeSubview ==
  /\ NoArrays
  /\ \E view \in StorageViews :
       \E offsets \in [1 .. Rank(view) -> Offsets], extents \in [1 .. Rank(view) -> Shapes] :
         LET result == Subview(view, offsets, extents)
         IN call' = [op |-> "subview", status |-> result.status,
                     source |-> view, offsets |-> offsets, result |-> result]
  /\ UNCHANGED <<heap, arrays>>

EvaluateExpression ==
  \E expression \in Expressions, destination \in CallerViews :
    /\ OperandsInitialized(expression)
    /\ Evaluate(expression, destination)

ReduceView ==
  \E kind \in {"sum", "min", "max"}, source \in CallerViews :
    Initialized(source) /\ Reduce(kind, source)

(* A context that is not serial, or cannot access the operands *)
ContextRefused == \E status \in {"kUnsupported", "kMemoryAccess"} : Unchanged(status)

ArrayCall ==
  \E a \in Arrays :
    \/ \E kind \in {"kLeft", "kRight"}, extents \in ArrayShapes :
         \/ \E value \in {0, Unset} : Create(a, kind, extents, value)
         \/ DiscardResize(a, kind, extents)
    \/ \E extents \in ArrayShapes :
         arrays[a] # None /\ DiscardResize(a, KeptKind(a), extents)
    \/ \E b \in Arrays : Clone(a, b) \/ Move(a, b)
    \/ Destroy(a)
    \/ MovedFrom(a)

Init ==
  /\ heap = [b \in Blocks \cup {Storage} |->
               IF b = Storage THEN [c \in 0 .. Cells - 1 |-> (c + 1) % (ElementMax + 1)]
               ELSE None]
  /\ arrays = [a \in Arrays |-> None]
  /\ call = NoCall("kOk")

Next ==
  \/ TakeResult
  \/ /\ Ready
     /\ \/ CreateLayout \/ TakeSubview
        \/ EvaluateExpression \/ ReduceView \/ ContextRefused
        \/ ArrayCall

Spec == Init /\ [][Next]_vars

------------------------------------------------------------------------------
\* Properties

ElementsOf(view) == {ElementOf(view, o) : o \in Ordinals(view)}

Faithful(mapping) ==
  LET offsets == {Offset(mapping, Coordinate(mapping.extents, o)) : o \in 0 .. mapping.size - 1}
  IN /\ mapping.unique => Cardinality(offsets) = mapping.size
     /\ offsets \subseteq 0 .. mapping.span - 1
     /\ mapping.size # 0 => mapping.span - 1 \in offsets
     /\ mapping.span <= IndexMax
     /\ mapping.exhaustive <=> mapping.unique /\ offsets = 0 .. mapping.span - 1

(* A mapping that claims to be unique gives every coordinate an offset of   *)
(* its own, all within the span that it claims and none smaller would do;   *)
(* an exhaustive one leaves no gap.  The elements of a subview are those of *)
(* its source at the shifted coordinates.  Every array owns a block of      *)
(* exactly its span, no two share one and no block is without an owner.     *)
MappingsCoverTheirStorage ==
  /\ call.op = "layout" /\ call.status = "kOk" => Faithful(call.mapping)
  /\ call.op = "subview" /\ call.status = "kOk" =>
       LET view == call.result.view IN
       /\ Faithful(view.mapping) /\ view.mapping.unique
       /\ ElementsOf(view) \subseteq ElementsOf(call.source)
       /\ \A o \in Ordinals(view) :
            LET c == Coordinate(view.mapping.extents, o)
            IN At(view, c) = At(call.source, [d \in DOMAIN c |-> call.offsets[d] + c[d]])
  /\ \A a \in Arrays : IsValid(a) =>
       /\ Faithful(arrays[a].mapping) /\ arrays[a].mapping.exhaustive
       /\ IF arrays[a].block = Null THEN arrays[a].mapping.span = 0
          ELSE DOMAIN heap[arrays[a].block] = 0 .. arrays[a].mapping.span - 1
  /\ \A b \in Blocks :
       Cardinality({a \in Arrays : arrays[a] # None /\ arrays[a].block = b})
         = IF heap[b] = None THEN 0 ELSE 1

ValuesOf(view) == {Read(view, o) : o \in Ordinals(view)}

SumOf(view) == MapThenSumSet(LAMBDA o : Read(view, o), Ordinals(view))

(* An accepted evaluation gives every element of its destination the value *)
(* of the expression over what the memory held before the call, whatever   *)
(* operands share it, and writes nothing else.  A reduction returns what   *)
(* is defined over the set of elements; no sum that fits is refused.       *)
CallsComputeTheirDefinition ==
  [][/\ call'.op = "evaluate" =>
          LET d == call'.destination
              written(b, c) == b = d.block /\ c \in ElementsOf(d)
          IN /\ \A o \in Ordinals(d) :
                  LET coordinate == Coordinate(d.mapping.extents, o)
                  IN heap'[d.block][At(d, coordinate)]
                       = ExpressionRead(call'.expression, coordinate, heap)
             /\ \A b \in DOMAIN heap : heap[b] # None =>
                  \A c \in DOMAIN heap[b] : written(b, c) \/ heap'[b][c] = heap[b][c]
     /\ call'.op = "reduce" =>
          LET source == call'.source IN
          CASE call'.kind = "sum" -> IF call'.status = "kOk" THEN call'.value = SumOf(source)
                                     ELSE SumOf(source) > ElementMax
            [] call'.kind = "min" -> call'.value = Min(ValuesOf(source))
            [] call'.kind = "max" -> call'.value = Max(ValuesOf(source))]_vars

(* A call that returns a failure has changed neither memory nor arrays: a  *)
(* resize that cannot get its new storage keeps the old one and all in it. *)
FailuresChangeNothing ==
  [][call'.status # "kOk" => UNCHANGED <<heap, arrays>>]_vars
=============================================================================

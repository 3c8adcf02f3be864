# asc-cpp: specifications, model checking and proofs

asc-cpp is a C++20 library of scientific computing facilities: memory ownership
and execution contexts (Core), dense and sparse arrays with their linear
algebra, counter-based random generation, expressions, a command line parser and
a timer, and optional CUDA facets of Core, Dense, Sparse and Random. This
directory holds TLA+ specifications of the parts whose correctness depends on
the order of steps, on what is left behind when one of them fails, or on long
sequences of calls; the TLC runs that check them; and proofs that TLAPS checks.

`PROJECT.json` is the machine-readable side: components, runs, the source lines
each definition models (`map`), the seeded faults that show each property can
fail (`mutants`), hazards, findings and theorems. Paths are relative to the
parent of `src/`; `src/src/...` is the implementation and `src/include/...` the
headers of the repository.

Contents: [inventory](#inventory) · [hard behaviours](#hard-behaviours) ·
[modules](#modules-and-how-they-correspond-to-the-code) ·
[runs](#runs-bounds-and-what-they-show) · [fairness](#fairness) ·
[proofs](#proofs) · [assumptions](#assumptions-and-abstractions) ·
[finding](#finding) · [not modelled](#what-is-not-modelled) · [plan](#plan)

## Inventory

### Core

| part | state it keeps | operations | what makes it correct |
| --- | --- | --- | --- |
| `MemoryResource`, `Buffer` (`core/memory.h`, `memory.cc`) | a buffer's resource, address, size, alignment | allocate, move, reset, destroy | one owner per allocation; returned once, as requested |
| `ExecutionContext` (`core/execution.h`) | a shared pointer to an execution state (a CUDA stream) | create, copy, move, destroy, `CopyBytes` | the stream lives as long as anything needs it |
| `CompletionEvent` | validity, cached completion, a completion state that owns a native event | move, `Query`, `Wait`, destroy | completion reported is real; the native event is destroyed once |
| CUDA runtime (`core/cuda/runtime.cc`) | native streams and events, the device's queue | `CreateCudaExecutionContext`, `CopyBytes`, `RecordCudaEvent`, CUDA memory resource | a failed call leaves no work running; nothing leaks on an error path |
| status, result, checked arithmetic, extents | values | pure checks | overflow is reported, not computed |
| I/O (`core/io.h`, `io.cc`) | a `File`'s native stream and mode; the progress of a transfer | open, read, write, flush, close, move; `ReadExact`, `WriteAll`, text files | a stream is closed once; what is transferred is what was asked; limits are exact |
| configuration (`core/configuration.h`) | a schema and resolved values | parse, resolve, override | precedence and duplicates |

### Dense, Sparse, Random, Expressions, Utilities

| part | state it keeps | operations | what makes it correct |
| --- | --- | --- | --- |
| Dense layouts, views, arrays | extents, strides, storage | creation, subviews, evaluation, reduction, resize, clone, move | offsets stay in the storage; aliases are refused; failures change nothing |
| Dense serial BLAS | none beyond its operands | levels 1 to 3 over full, band and packed storage | the right element at each step, in an order that never reads too late |
| Dense CUDA facet | a cuBLAS handle, its mutex and scalar pointer mode | asynchronous levels 1 to 3, pointwise kernels | mode and mutex are restored on every path; recovery after failures; row-major calls are rewritten as a whole |
| Sparse coordinate storage | a builder's entries, an array's entries | `Add`, `Finalize`, `Create`, `Lookup` | a failing call changes nothing; the array is canonical and complete |
| Sparse compressed storage | offsets, inner indices, values | `Create`, conversions, `Lookup` | the structure is canonical; a conversion stores the same matrix |
| Sparse evaluation and BLAS | destinations | writes at stored coordinates, products, triangular solution | every value goes to its own coordinate; outputs lie apart from the structure |
| Sparse CUDA facet | a cuSPARSE handle and its mutex | asynchronous kernels, SpMV, clones | buffers outlive their writers |
| Random engine, distributions | a word offset, seeds | generation, advance | no word is used twice, none is left out (but by a CUDA structure of rank 0); integers come equally often |
| Sparse generation | priorities of all ordinals | selection, decoding, fill | exactly the elements of least priority, in canonical order |
| Quasi-random sequences | an index | next, skip, fills | each point comes once; points are stratified |
| Random CUDA facet | buffers under construction | raw, dense, sparse generation | buffers outlive their writers |
| Expressions | operand views | composition | immutable after construction |
| Command line, timer | parsed options; start and accumulated time | parse; start, stop, reset | precedence; the state machine of the timer |

### How the parts interact

A caller creates an `ExecutionContext`, copies it freely, and passes it by
reference to every operation. A serial context makes the operation run before it
returns. A CUDA context makes the operation put commands on the stream that all
copies of the context share; the operation returns a `CompletionEvent` which
owns a native event recorded behind the commands, and which shares the execution
state, so that the stream outlives it. The provider facets (Dense, Sparse,
Random) enqueue their own kernels or library calls on that stream and then ask
Core (`RecordCudaEvent`) for the event. Dense and Sparse do it under the mutex
of a provider handle that several threads may share. Facets that allocate a
result use `Buffer` over the CUDA memory resource and hand the buffers to the
caller along with the event. In the serial world sparse builders hand their
buffers to arrays, arrays are read through views, and conversions read a view of
one owner and fill the buffers of another.

## Hard behaviours

The full list, each at its line, is `hazards` in `PROJECT.json`. In short:

- *Failures after enqueue.* Each CUDA call may fail after the commands before it
  have been enqueued. The operation must then wait for the stream, or the caller
  frees memory that the device still uses.
- *Failures that hide.* A destructor or `Deallocate` cannot report that it
  failed to select the device; `cudaGetLastError` may return an error of an
  earlier call on the thread.
- *Sharing.* Calls of several threads meet on one stream, one handle, one scalar
  pointer mode.
- *Lifetimes.* Streams are destroyed by the last of several owners, events by
  whoever holds them last after any number of moves.
- *Sequences.* Builders are retried after failed `Finalize` calls; owners are
  moved, assigned to themselves, reset, destroyed.
- *Unchecked second passes.* `Compact` adds without checks what a preflight in
  another order has checked; conversions fill arrays that are never validated.
- *Partial transfers.* Sources and sinks move less than asked, nothing, or claim
  more; a failing call leaves a file half written.
- *Aliasing.* Strided vectors of either sign, padded matrices and the arrays of a
  sparse operand may interleave in memory; whether they overlap is judged from
  the storage that a view claims to reach.
- *Rewriting.* A row-major call is given to cuBLAS as a column-major one:
  operations, triangle, side, sizes and operands change together.
- *Orders of loops.* Triangular products and solutions overwrite what they read.
- *Boundaries.* Empty rows, binary searches at their ends, full builders, sums
  at the end of the element range, word offsets and sequence indices at the end
  of 64 bits, ties between priorities.

## Modules and how they correspond to the code

| module | models | role |
| --- | --- | --- |
| `AsyncCall` | what `docs/modules/core.md` and `dense.md` promise of an asynchronous call | abstract specification |
| `CudaRuntime` | `core/cuda/runtime.cc`, `core/execution.cc` | implements `AsyncCall` |
| `CudaSubmit` | the submission protocols of `dense/cuda`, `sparse/cuda`, `random/cuda` | implements `AsyncCall` |
| `BufferOwnership` | `core/memory.cc` and the CUDA memory resource | |
| `FileIo` | `core/io.cc` | |
| `DenseViews` | `dense/layout.h`, `view.h`, `array.h`, `evaluate.h`, checked arithmetic | |
| `BlasStorage` | the views of Dense and Sparse BLAS, their elements and reach | shared by the next five |
| `BlasCalls` | what a call of each routine refuses | shared by the next four |
| `BlasReference` | what a call is to compute, by logical element | abstract definition; the external cuBLAS and cuSPARSE |
| `SerialBlas` | the loops of `dense/blas_level1.cc` to `blas_level3.cc` | implements `BlasReference` |
| `CudaBlas` | the rewriting for cuBLAS and the kernels of `dense/cuda` | implements `BlasReference` |
| `SparseBlas` | `sparse/blas.h`, `reference_blas.cc` and the kernels of `sparse/cuda` | implements `BlasReference` |
| `BlasPrograms` | a program that makes views and a call, on either facet | composes the five above |
| `SparseCoordinates` | coordinates and their order | shared by the next two |
| `CoordinateBuilder` | `CoordinateBuilder` and the array it publishes | |
| `SparseConversion` | sparse owners, conversions, `Lookup`, writes | takes the builder's contract for its target |
| `RandomGeneration` | word offsets; dense fills and sparse generation, on host and device | |
| `QuasiRandom` | Sobol, Halton, Hammersley and Latin hypercube fills, `SobolSequence`, bounded integers, shuffles | |
| `CudaRuntimeProofs`, `CudaSubmitProofs`, `BufferOwnershipProofs`, `FileIoProofs`, `CoordinateBuilderProofs`, `SparseConversionProofs`, `RandomGenerationProofs`, `QuasiRandomProofs` | | proofs |
| `MC*` | | instances for TLC |

### AsyncCall

Each call is idle, running, failed, returned or reported (its completion has
been told to a caller), and is pending or not (some work of it is on the
device). A call may fail only when it is not pending, and be reported only when
it is not pending. Everything the two detailed modules add is a refinement of
these two guards.

### CudaRuntime

A stream executes its commands in order, so a command is its *ticket*: the
number of commands issued on its stream up to it. `finished[s]` is the number of
commands stream `s` has executed; a command has run when `finished` has reached
its ticket. `context[x]` is the execution state that the caller's variable `x`
shares; the reference count is not stored but is the question `Held(s)`, and a
step that drops a reference runs the destructor of the stream when no holder is
left (`ReleaseStreams`). `state`, `valid`, `complete` are the members of
`CompletionEvent`; `native[c]` is the life of the `cudaEvent_t` that call `c`
created.

A call is a program counter through `CudaExecutionState::CopyBytes`
(`createCopyEvent`, `copy`, `record`, `recorded`) or `RecordEvent`
(`createMarkEvent`, `record`, `recorded`); between any two of these steps other
threads and the device may move. A failure of `cudaEventCreate`,
`cudaMemcpyAsync` or `cudaEventRecord` goes through `drain`, where the call waits
until everything issued when it began to drain has run, as
`cudaStreamSynchronize` does. `Reject` stands for all argument and accessibility
checks that return before anything is created, and `CopyNothing` for empty
copies and serial contexts, whose event is complete from the start. `Return`
puts the event into a variable of the caller, which may overwrite another
event; `Discard` is the temporary destroyed by a caller that ignores it.

The destructors of streams and events may *leak* their handle: they select the
device first and give up if they cannot. This is the code's behaviour
(`runtime.cc` 181-186, 296-301) and so a legal outcome of the model.

### CudaSubmit

The operations of the provider facets run one protocol with different policies,
and the record `Protocol` tabulates the policies: what is held under the mutex,
where cuBLAS finds its scalars, how many commands are enqueued and of which
kind, which failures drain the stream, whether the operation itself recovers when
`RecordCudaEvent` fails, what it returns when there is nothing to do, and
whether it allocates its result. One operator per protocol (`DenseKernel`,
`DenseMatrix`, `BlasHost`, `BlasDevice`, `BlasKernel`, `BlasMatrix`,
`BlasMatrixKernel`, `Iamax`, `SparseKernel`, `Spmv`, `Clone`, `RandomKernel`,
`Generate`) names the code that follows it. The
actions are the steps of a call: lock, switch the mode, submit, restore or undo,
convert (the second stage of `Iamax`), record, drain, return. `stale` says that
the thread of the call has an old error that `cudaGetLastError` would return,
which makes an enqueued launch look failed (`Misled`). `mode` and `mutex` belong
to a provider context; `stuck` collects the contexts whose handle cuBLAS refused
to switch back, a failure that the code reports and cannot repair.

`GuardFailsAt` is the set of operations at which `RecordCudaEvent` may fail to
select the device, in which case it returns without a drain of its own
(`runtime.cc` 258-261). It is a constant because the operations differ exactly
in whether they survive this. What the submitted BLAS work computes is not in
this module but in `CudaBlas` and `SparseBlas`.

### BufferOwnership

`exists` and `buffer` are the objects and their four members; `heap[p]` is the
request that address `p` was handed out for. `fresh[b]` is what a running
`Buffer::Allocate` got from a virtual resource that it does not trust: storage
for no bytes and misaligned storage go back before the error is returned. The
CUDA resource may fail to select its device in `Deallocate`, which returns
`void`: then the address is `lost`. `mismatched` is a history variable: it
becomes true if a resource is ever given back an address with another size,
alignment or resource than it handed out.

### FileIo

There is one path with the content `disk`; `streams` are the `FILE` objects of
the C library with their mode, position, buffered bytes and error indicator, and
`files` the caller's `File` objects. The C library is external: `Fread`,
`Fwrite`, `Fflush` and `Fclose` are the sets of outcomes the code can meet, short
counts and errors among them. `ReadExact` and `WriteAll` are one step per request
to the source or sink, which is a `File` or a custom one that may also make no
progress or claim more than it was asked for. `ReadTextFile` and `WriteTextFile`
own a `File` of their own (`Local`) through every error path to its destructor.
Moves (`MoveFile`, `MoveOverOpen`) and closes of the caller's files interleave
with the calls. `TransfersAreExact` relates the result to the file: a success
moved all that was asked, a `ReadTextFile` returns the whole content if it
is within the limit and fails if not, and a failed write leaves a prefix.

### DenseViews

Memory is a set of blocks of cells; layouts are records of extents, strides,
size and span, made with the overflow checks of `CheckedMultiply` and
`CheckedAdd` on integers of a small width, in the order of the code. A
call (a layout, a subview, an evaluation, a reduction, an operation of an owning
array) is one step, and its result stays in `call` until it is looked at, so
that each property speaks of a call together with the memory it left.
`Evaluate` walks the ordinals one after another and reads its operands from the
memory as it is by then. The alias check and the exemption of an operand that is
the destination itself are those of `evaluate.h`.

### BlasStorage, BlasCalls, BlasReference

Memory is a function from cells to elements: complex integers, computed exactly,
so that rounding is left out and every misplaced, omitted, repeated or
unconjugated term shows. A cell a program gave no number to holds its own name,
and computing with it gives `Undefined`; a routine that reads outside its
triangle, band or vector therefore fails to compute its definition. A view is a
record of kind, first cell, shape, leading dimension (the increment of a vector,
of either sign), layout and band widths. `Reach` is the cells that
`reachable_storage()` of the view claims, by which `Creates` checks that the
view fits its storage and `Overlap` refuses calls; a sparse operand reaches its
three arrays, whose indices and offsets lie in the same memory and are read from
it. `BlasReference` places and combines elements by logical
coordinates alone (`Position`, `General`, `Symmetric`, `TriangularOf`, `Solution`,
`Addend`, `Defined`), which is what the standard says of a routine; on
column-major operands the same operators stand for cuBLAS (`Provider`), which
the repository calls but does not contain. It takes the lowest cell of a vector
whatever its increment, and refuses row-major operands: the rewriting has to
be done by `src/`.

### SerialBlas, CudaBlas, SparseBlas, BlasPrograms

`SerialBlas` has one operator per function of the serial facet: a fold over the
index sequence of its loops, reading the memory as it is at each step (`Sweep`),
with the storage access functions of each kind of matrix. `CudaBlas` has what
the CUDA facet does instead: the record of the call given to cuBLAS
(`ProviderTriangle`, `ProviderSide`, `MirroredOperation`, `Exchanged`,
`SignedProviderPointer`), or the memory after one of the project's own kernels
for what cuBLAS lacks. `SparseBlas` has both facets of Sparse BLAS. In
`SparseCreates` the view of an indexed vector and of a triangular matrix is
checked against the arrays it is made over; that CSR and CSC arrays are canonical is
checked where they are made (`SparseConversion`).

A program in `BlasPrograms` makes the views of a request (`CreateViews`), then
calls the routine, which refuses it, or computes on the serial facet, or on the
CUDA facet, where a call of the provider is enqueued and run later
(`RunProvider`). The request is drawn from the sets of the MC module. Kernels
whose threads write different elements and read none that another writes are
folded in one order; `AcceptedOperandsAreSeparate` is what makes the order
irrelevant.

### RandomGeneration, QuasiRandom

A domain of the counter-based engine holds a word at each offset, always the
same. `next` is the offset a caller has reached in each domain and `drawn` a
history of how many elements drew each word. A host call draws its words at
once. On the device the words of the structure are drawn when
`SelectCanonicalOrdinals` runs and those of the values when `FillValues` does,
by when the call has returned its offsets. For a shape of rank 0 the first of
these kernels is not launched (`sparse_kernels.cu` 204), yet the structure
offset advances by the two words of its element (`cuda/sparse.cc` 109-113), as it
does on the host, where they are read: these words go into the history
`skipped`. `GenerateSparseUniform01`, `GenerateSparseStructure`, which refuses
overlapping spans, and the CUDA kernels (`CudaGenerateSparseUniform01`,
`SelectCanonicalOrdinals`, `DecodeCoordinateDimension`, `FillValues`) are three
implementations of one selection: the elements of least priority, ties broken by
ordinal, stored in the lexicographic order of their coordinates. The words of a
priority are chosen from every possibility, so ties at the cutoff occur. Dense
fills write through padded and permuted layouts.

`QuasiRandom` has direction numbers, Gray codes and radical inverses as
operators on sets of bits and sequences of digits; a `SobolSequence` is its index
and its exhaustion, with `NextPoint`, `Skip` and `Reset`, and the fills of a
number of samples from an index are calls of their own. Bounded integers take
every word of the width in turn, with the rejection of the code.

### SparseCoordinates, CoordinateBuilder

`slots` is the entries in the buffers. `Add` is one step, with its three failure
statuses in the order of the code. `Finalize` begins with the checks in their
order (context, duplicates and sums in insertion order), and continues as
`SortRound` (one round of the insertion sort), `Sorted`, `CompactGroup` (one
group of equal coordinates, written over the front of the same buffers), and
`Publish`. Elements are integers of a small signed range, whose overflow is the
overflow of `CheckedAdd`; `RunningSums` are the sums that the preflight checks
and the compaction computes. `added` is a history variable: the entries that were
accepted. Positions count from one, the code's from zero. `Lookup` is the binary
search of `CoordinateView::Lookup`, as a recursive function.

### SparseConversion

A caller offers arrays, canonical or not, for an owner of one of the three
formats; `Create` accepts them or `CreateFails` refuses them by the validation
of the code. From then on `Write` is `Evaluate` storing a value at a stored
entry (for compressed storage through the row search of `evaluate.h` 237-249),
and a conversion is one step per visited source entry (`Fill` or `Collect`), per
source row (`NextSegment`) and per outer index of the target (`NextOuter`).
`FromCoordinate` and `FromCompressed` are one set of actions: their loops differ
only in that a coordinate source is a single segment. `matrix` is a history
variable: the set of entries the owner stands for, independent of its format.
Where `ConvertToCoordinate` calls `Finalize`, this module takes the result
`CoordinateBuilder` is shown to give for entries without duplicates (`Sorted`),
and checks in turn that the builder is never given anything it would refuse.

## Runs, bounds and what they show

| run | instance | states | what it shows |
| --- | --- | --- | --- |
| `cuda_runtime` | 2 calls, 2 contexts, 2 events, 2 streams; fair | 283,560 | failed calls leave no copy behind; reported completions are real; native events and streams are neither lost nor used after destruction; a stream outlives its events; `AsyncCall` is implemented; every call and every `Wait()` returns, whatever fails |
| `cuda_submit` | 2 calls of every operation, 2 Dense and 1 Sparse context; `RecordCudaEvent` may fail to select the device at every operation that recovers from it | 1,150,394 | cuBLAS and cuSPARSE run in the mode they rely on; result buffers outlive their writers; failed calls leave nothing behind; `AsyncCall` is implemented |
| `cuda_submit_live` | 2 calls, one operation for each way to hold the mutex; every call may fail; fair | 59,434 | every call returns; no path keeps the mutex |
| `cuda_submit_unrecovered` | 2 calls on one Dense context; `RecordCudaEvent` may fail to select the device everywhere | violation | the [finding](#finding) |
| `buffer_ownership` | 3 objects, a host (or custom) and a CUDA resource, 3 addresses | 3,030 | one owner per allocation, no leak but by the CUDA resource, exact returns |
| `file_io` | 2 `File` objects, 2 native streams, texts of up to 3 bytes, limits 0 to 3, a chunk of 2; fair | 482,075 | each native stream is closed once on every path; a successful transfer moved exactly what was asked; limits are exact; every transfer and helper returns |
| `dense_views` | integers of 4 bits, layouts of rank 0 to 3 with extents and strides -1 to 3, 5 cells of the caller's, 2 arrays, 3 allocations | 197,922 | accepted mappings are injective and cover their span; views and subviews stay in their storage; evaluations and reductions compute their definition in spite of aliases; failed calls change nothing |
| `blas` | every routine with its flags, up to 3 rows and columns, 36 owned cells of memory | 74,208 | both facets compute what the standard defines; accepted operands are in their storage and apart |
| `coordinate_builder` | 2 x 2 shape, capacity up to 3, indices -1..2, elements -2..1; fair | 358,669 | failures keep the entries; no unchecked overflow; the array is canonical, complete and found by `Lookup`; a `Finalize` whose checks passed returns |
| `sparse_conversion` | 2 x 3 shape, every array of up to 3 entries with indices and offsets -1..3, 2 values | 283,323 | exactly the canonical arrays are accepted; owners store their matrix through writes and all six conversions; `Lookup` reads it; the target builder refuses nothing |
| `random_generation` | 2 domains of 9 words, words 0 and 1, shapes of rank 0 to 2, every count | 328,366 | no word is drawn twice, up to the last offset and by queued kernels, and none below the offsets is left out but those of a CUDA structure of rank 0; the selection is exact, canonical and in storage order on host and device |
| `quasi_random` | words of 4 bits, first 3 rows and primes, every integer range of the width | 591,610 | no Sobol index is given twice, skipped or wrapped; points are stratified; bounded integers and shuffles are uniform |

State counts are of distinct states, after symmetry reduction where it is used.

*Bounds.* Two concurrent calls suffice for every conflict between a call and its
neighbour on the stream or on a handle. In `cuda_runtime` the number of commands
is bounded by the calls (a copy and an event each), the streams by the set
`Streams`, which are never reused, and two event variables allow every overwrite
and self-assignment. `BufferOwnership` has three objects so that a block can move
between two while the third allocates.

`Chunk` stands for the 4096-byte buffer of `ReadTextFile`: with 2, a text needs
no, one or two reads, and each limit is below, at or above a length. `MaxLength`
bounds what a caller writes through one stream.

In `dense_views` the last value of an integer is 7, so the extents and strides
offered make products and sums meet it from both sides, and `SizeMax` and
`ElementSize` do the same for byte counts. Three dimensions are the least with
a stride between two others.

In `blas` three rows and columns distinguish first, inner and last lines, band
widths inside and beyond the matrix, and all triangles; each operand is laid out
with and without padding, in both layouts, with increments of both signs and
of magnitude one and two; the destination lies apart from the operands or shares
its first cell with the last one of either; arrays of a sparse operand come
in each order. Elements take different values in each cell,
so an exchange of two shows. Empty operands, zero scalars and wrong shapes are
included. The cells around `Backing` catch writes outside of it.

In the sparse runs indices range from one below the shape to one above it, so
each check is met from both sides; three entries contain a group of duplicates
with a neighbour, a full builder and a dropped group between two kept ones; the
two-bit signed element type -2..1 has sums that fit in one order and overflow in
another. The 2 x 3 shape of `sparse_conversion` makes rows and columns differ in
number; three entries leave empty first, last and inner rows in both formats.

`LastOffset` stands for the last 64-bit offset: calls reach it exactly and would
pass it by one. Two words make ties of priorities frequent. `Width` stands for 64
bits: all indices of a sequence are visited, up to the last, and every range of an
integer type is drawn from with every word.

State spaces are finite without state constraints in every run. Symmetry is used
in `cuda_submit`, `cuda_submit_unrecovered`, `buffer_ownership` and
`random_generation`, which check safety only.

Deadlock is checked in `buffer_ownership`, `coordinate_builder`,
`random_generation`, `quasi_random` and `dense_views`, which can always go on (a
consumed builder answers every further `Add` and `Finalize` with an
invalid-state status). It is off where the bounded instance really stops: the
CUDA runs when all calls have been made, `sparse_conversion` in the refused
state, `blas` when the program is done, `file_io` where the contract of
`File` ends the program.

Every property is checked against a seeded fault as well: an operator defined
next to the definition it alters, of the kind a change to the code could
introduce, with which TLC finds the property violated (`mutants`). The type
invariant is checked in `file_io`; in the other modules that have a proof it is
proved, and in the rest a value of the wrong kind fails in evaluation.

## Fairness

- *Streams* (`WF Execute`): a CUDA device makes progress on the work it was
  given. Device errors that stop a stream for good are not modelled.
- *Calls* (`WF Advance(c)`): a C++ thread inside a call runs on. Weak fairness
  per call is enough in `CudaRuntime`. In `CudaSubmit` a call that waits for a
  mutex is enabled only while it is free; with two calls, each of which takes the
  mutex at most once, weak fairness of the holder frees it for the other, so no
  fairness of `std::mutex` itself is assumed.
- *`Wait()`* (`WF WaitSucceeds(e)`): a thread blocked in
  `cudaEventSynchronize` wakes when the event has fired.
- *`Finalize`* (`WF` of its internal steps): it is a synchronous loop.
- *File helpers* (`WF CallStep`): a call in progress goes on. A source or sink
  answers each request; that it ever makes progress is not assumed, because the
  loops give up on one that does not.

Nothing else is fair: no caller has to make a call, wait, or free anything, and
no failure has to happen or to stop happening.

## Proofs

`tlapm` proves everything in the proof modules for every value of the constants,
from these named assumptions:

| assumption | says | justified by |
| --- | --- | --- |
| `RuntimeAssumption`, `BufferAssumption`, `SubmitAssumption`, `NameAssumption` | `None` is no call, stream, context, operation, resource or address; the names of sources and streams differ; CUDA resources are resources; Dense and Sparse contexts differ; sizes are naturals | null is no object; types |
| `ValueAssumption` | the buffer of `ReadTextFile` is not empty; texts are sequences of bytes | `io.cc`: 4096 bytes |
| `ShapeAssumption`, `BuilderAssumption` | extents are naturals, indices integers; zero is in the element range | validated extents; integer types |
| `ConversionAssumption` | shapes have rank two, offered offsets are integers, an unwritten slot is no element; `MaxStored` is any natural | `compressed.h` is two-dimensional; offsets are machine integers |
| `SizeAssumption` | the last offset and the base of the words are naturals; shapes and the extents of views are finite sequences of naturals | offsets and words are unsigned; `Extents::Create` refuses a negative extent |
| `PositionsAssumption` | a word has at least one bit; positions are indices, counts are naturals | types |

Two theorems about `CudaSubmit` have a hypothesis of their own,
`GuardedSitesRecover`: the operations in `GuardFailsAt` recover when
`RecordCudaEvent` cannot select the device. It is the line between the run
`cuda_submit` and the [finding](#finding): where it is false, the finding is what
happens. What holds without it is `RecoveredFailureSafe`.

The theorems and the invariants of the runs they state:

| module | theorem | states |
| --- | --- | --- |
| `CudaRuntimeProofs` | `FailureSafe`, `CompletionSound`, `HandlesLive`, `NoLoss` | `FailedCallLeavesNothing`, `ReportedCallIsDone`, `EventsOwnLiveHandles`, `NoEventIsLost` |
| | `StreamsOutliveEvents` | the action property `StreamOutlivesItsEvents` |
| | `Refinement` | `ImplementsAsyncCall` |
| `CudaSubmitProofs` | `ModesAgree`, `BuffersSafe`, `FailureSafe` | `SubmitsInItsMode`, `BuffersOutliveWork`, `FailedCallLeavesNothing` |
| | `RecoveredFailureSafe` | the part of the last that needs no hypothesis |
| | `Refinement` | `ImplementsAsyncCall` |
| `BufferOwnershipProofs` | `SingleOwner`, `LeakFree`, `ExactReturn` | `OwnedOnce`, `NoLeak`, `ReturnedAsRequested` |
| `FileIoProofs` | `TypeCorrect`, `ClosedOnce`, `Exact` | `TypeOK`, `StreamsAreClosedOnce`, `TransfersAreExact` |
| `CoordinateBuilderProofs` | `FailuresKeepEntries`, `SumsChecked`, `CanonicalArray`, `FindsTheSum` | `FailureKeepsEntries`, `SumsWereChecked`, `ArrayIsCanonical`, `LookupFindsTheSum` |
| `SparseConversionProofs` | `StoresItsMatrix`, `RefusesOnlyWhatStoresNothing`, `BuilderIsFilled`, `LookupReadsEveryEntry` | `OwnerStoresItsMatrix`, `RefusedArraysStoreNothing`, `BuilderTakesEveryEntry`, `LookupReadsTheMatrix` |
| `RandomGenerationProofs` | `DrawnOnce`, `Exact` | `WordsAreDrawnOnce`, `GenerationIsExact` |
| `QuasiRandomProofs` | `PointsOnce`, `UniformDraws` | `PointsComeOnce`, `DrawsAreUniform` |
| | `HypercubeStratified` | the part of `PointsAreStratified` that is about Latin hypercubes |

`TypeCorrect` is proved in the first two and in `BufferOwnershipProofs` as well, and
`Invariance`, that `IInv` is invariant, in `SparseConversionProofs`.

**CudaRuntime.** `IInv` is inductive: `Init => IInv`, `IInv /\ [Next]_vars =>
IInv'`. The checked invariants are not inductive by themselves, because they
speak of failed and reported calls only; `IInv` adds, for each step of a call,
where its tickets stand:

- `StreamInv`, `TicketInv`: a stream executes only what was issued; tickets are
  issued commands; an event is recorded behind the work of its call; no two
  calls have the same command.
- `ContextInv`, `CallInv`: a context variable shares a live stream; a running
  call still has the context it was given, which is how its stream stays alive;
  the native event exists exactly at the steps that own it; a draining call
  waits at least up to its own work.
- `EventInv`: an event object refers to a call that has returned, whose native
  event and stream are alive, and no other object refers to the same call; a
  cached completion is a fired event.
- `ReportInv`: what was reported has fired.

`FailureSafe`, `CompletionSound`, `HandlesLive`, `NoLoss` and `TypeCorrect`
follow. `StreamsOutliveEvents` is the action property: a step that ends the life
of a stream finds no holder, and by `EventInv` every live native event has one.
`Refinement` shows that each step is a step of `AsyncCall` or a stutter: failing
and reporting map to steps with their guards because of `CallInv` and `ReportInv`,
an enqueued copy makes exactly its call pending because of `TicketInv`, and one
executed command finishes at most one call for the same reason.

**BufferOwnership.** `IInv` is the conjunction of the four checked invariants and
`LostStaysOut`. They need one another: that an address goes back as it was
requested needs that its owner describes it (`OwnedOnce`), which needs that no
other owner has given it back; a fresh address belongs to nobody because owned
addresses are not free, and lost ones stay out of circulation.

**CudaSubmit.** `IInv` adds to the types where each call stands: who holds which
mutex at each step (`MutexInv`); that a handle is in device pointer mode only
for the one call that holds its mutex and has still to switch it back
(`ModeInv`); that a draining call waits at least up to its own work, and that a
call which has failed without excuse has none (`TicketInv`); and who owns the
buffers (`BufferInv`). The policies enter through `ProtocolFacts`: library calls
and calls in device mode lock and always drain, a launch that an old error may
mislead always drains, what allocates recovers. Each is a fact about the table,
so an operation added to the table without one of them breaks this lemma.

**CoordinateBuilder.** The chain from `Add` to `Lookup` is proved as a whole.
`IInv` follows the entries through the stages of `Finalize`:

- `SortInv`: the entries before `position` are sorted, and every coordinate has
  the running sums it had when the preflight looked at them. The second is the
  stability of the sort: an entry moves in front of entries at *other*
  coordinates only (`InsertedSums`), so the values of one coordinate keep their
  order. Without it `SumsWereChecked` is false: the sums of the same values in
  another order may overflow.
- `CompactInv`: the entries still to read are sorted and run through the sums
  that were checked; those written are in strict order, hold totals, and precede
  all that is to be read; a coordinate that was added is in one of the two parts
  or its total is dropped. `output` is behind `input`, so nothing is overwritten
  before it is read.
- `FinalInv`: the array holds exactly the totals.

`FindsTheSum` adds the binary search: `LandsInHalf` shows that each half the loop
takes contains the first entry that does not precede the coordinate sought.

**SparseConversion.** All four invariants of the run are proved, for every shape,
every array a caller may offer and every number of entries. The checked
invariants say nothing about the middle of a conversion; `IInv` does:

- The source is canonical and holds the matrix throughout (`Sound`):
  a conversion only reads it.
- `Traversal`: the entries visited are those of the source before `position`,
  within the segment that `from` names. `output` is their number (`Seen`), which
  is why nothing is written past the end of the target.
- `Filled`: the finished rows of a compressed target hold exactly the entries
  of the source that belong to them, and the row in progress those of them that
  have been seen. `Collected` says the same of the entries given to the builder.

Two lemmas join arrays and sets. In canonical arrays the entry `p` stands at the
coordinate with `p` predecessors and an offset counts the entries of the rows
before it, so storage and set determine each other; this gives `StoresItsMatrix`,
and with its converse, that arrays which store a set are canonical,
`RefusesOnlyWhatStoresNothing`. And two positions of one row, or of one column,
have the same order in every format, so a conversion that appends them in the
order of its source has sorted them: this is why the code needs no sort after
`FromCompressed`. For `LookupReadsEveryEntry` the search is confined to its row,
and halving the row keeps the place where the index would stand.

**RandomGeneration.** The words below the offset that a domain has reached are
drawn once, or skipped by a CUDA call of rank 0, except those that a CUDA
generation has counted and its kernels are still to draw: the window of the
structure until the first kernel has run, that of the values until the last
(`QueuedWords`, `DrawnBelow`). `OneTaker` shows that each word of a window has
exactly one element that takes it, with one or two words per element, and
`WindowSpent` that a window drawn where the drawn words end moves that end.

That what is generated is `Exact` needs arithmetic first, and then one invariant
(`ExactInv`) of the storage that a call fills.

- The quotients of an ordinal by the products of the extents have the digits of a
  mixed-radix number as remainders (`DividedFacts`): different ordinals differ in
  a first digit, in their order (`DigitsRise`), and all digits are reached
  (`DigitsReach`). From the last dimension this makes the row-major rank of a
  coordinate its ordinal (`RowMajor`); from the first, of the reversed extents,
  the column-major rank (`ColumnMajor`, `DenseFill`).
- Priorities with ordinals as ties are a strict order, in which every ordinal has
  a rank below the size and no two the same (`Ranks`, `PriorityRanks`). The k-th
  pass over the ordinals finds rank k - 1 (`InOrder`). Everything up to the
  greatest of the candidates that `nth_element` leaves in front, whichever of
  them these are, is the same set (`CutoffSelects`, `WorkspaceSelects`).
- Insertion keeps the ordinals ascending (`InsertRises`, `DeviceSorts`), and the
  builder's sort by coordinates is their order (`HostSorts`).
- Between the launches of a CUDA call, `Decoding` says which slots hold digits
  already and that the first dimension's still hold ordinals, as long as a
  dimension is left; the divisor is the product of the extents behind. Without
  the divisor, or were the first dimension not decoded last, `DecodeExact` would
  fail. A slot belongs to one position and one dimension (`SlotOnce`).

**QuasiRandom.** What a sequence gave lies behind its index, or at it when the
sequence is exhausted, which it is at the last index only.

For `UniformDraws` a call that draws holds the whole table from words, or from
selections, to outcomes, and the invariant says that every value has as many
preimages as every other.

- Bounded integers: the threshold is the remainder of the number of words, so the
  words accepted are a multiple of the population; an interval of `q * n` numbers
  has each remainder `q` times (`QuasiRandomProofs` builds the bijections). When
  the population is the whole width nothing is rejected. Adding the offset to the
  lower bound modulo the width gives the integer meant, without overflow.
- Shuffles: a settled position never moves again, so an order determines the
  selections that made it, and choosing at each step where the wanted element
  stands makes every order: selections and orders are in bijection.

`HypercubeStratified` follows from the second: every coordinate of a Latin
hypercube is a shuffle of its strata.

**FileIo.** `IInv` is `TypeOK`, `StreamsAreClosedOnce` and `Inside`. The progress
bounds in `TypeOK` (`done` within the request, memory within the limit) keep a
step from taking the progress out of its type. `StreamsAreClosedOnce` says that
each open native stream has exactly one owner among the caller's files and the
local file of a helper, and that no file owns a closed one. `Inside` says where
the local file stands: it is closed when a helper begins, and it is never the
peer of `ReadExact` or `WriteAll`; without it a helper could open a stream into a
`File` that already owns one. `Exact` needs `SoFar`: what each call has
done so far. The bytes that a stream has put out, with those it still buffers,
are the part of the text that the call counts as written; the bytes in memory
are those of the source from where the call began to where its stream stands.

*Induction and recursion.* The induction theorems of the library take an operator
as a parameter, which the provers cannot instantiate. Where a proof needs
induction it takes the well-foundedness of the naturals from the library and
proves induction over a *set* of naturals from it (`LeastNat`, `NatInd` in
`CoordinateBuilderProofs` and `RandomGenerationProofs`); with it a recursive
function, or the fold of a community module, is shown to exist before its equation
is used (`RunningSumExists`, `SumsFacts`, `SearchFinds`, `FoldExists`). The sorts
of `RandomGeneration` name the element of each rank, because the sorting operators
of the library are recursive. The binary
search of `SparseConversion` is a recursive function of its range for this reason.

**Only model-checked.** Liveness (`CallReturns`, `WaitReturns`,
`FinalizeReturns` and the like) rests on `ENABLED`, which `tlapm` does not
support. `blas` computes with folds over the loops of every routine; its
definition is checked by TLC for all routines rather than proved for one.
`PointsAreStratified` is proved for Latin hypercubes; for Halton and Hammersley
points it counts the digits of residues in several bases at once, over powers
that the provers leave uninterpreted (`b^2 = b * b` is beyond them), and for Sobol
points it depends on the rows of the table. `MappingsCoverTheirStorage` is about every layout
with its uniqueness proof and all arrays at once; the products and folds it needs
are those of `RandomGenerationProofs`, the rest is not proved.

## Assumptions and abstractions

About CUDA, as `src/` uses it:

- `cudaStreamSynchronize` returns when the commands issued before it have run.
  Were it to fail, nothing could be said of the stream.
- A `cudaMemcpyAsync` or a launch that reports a failure of its own has enqueued
  nothing. A failing cuBLAS or cuSPARSE call may have enqueued its work.
- Errors that are sticky on a device, or that reach a stream asynchronously, are
  not modelled, except as failures of later calls.
- Destroying a stream does not cancel its commands.
- The drain inside `RecordEvent` and a second one by its caller right after it
  are one step: nothing of the call happens between them.

About the C++ side:

- Checks of pointers, spans, ordinals, shapes and operand types that return
  before any state changes are one action (`Reject`, `Refuse`) or a stutter.
- Callers follow the documented rules: an object is not used by two threads at
  once except where the documents allow it; a moved-from builder or buffer is
  used only in the ways the class defines.
- An allocation that fails before anything is written leaves no trace, so
  conversions and builders that fail to begin are not separate steps.
- Values of elements are abstract, small integers or exact complex integers;
  rounding, infinities and NaN are not modelled. A solution divides by elements
  of modulus one, so that it is exact.
- cuBLAS and cuSPARSE compute what the standard defines for the call they are
  given. The workspace of a sparse product is kept apart from all operands.
- The C library buffers writes in order and reports a short count or an error; a
  byte that `fwrite` has counted is behind the bytes counted before it. Reads
  see the file as it is: bytes that a stream has read ahead before another one
  changed them are not modelled.
- `BackingAssumption`: the storage that a program owns is part of memory.

## Finding

`cuda_submit_unrecovered` checks the promise of `src/docs/modules/dense.md`
387-390, that after a provider or kernel failure the stream is drained before an
error is returned, against the Dense pointwise operations and `Gemv`/`Gemm`. TLC
finds it violated. These operations return the status of `RecordCudaEvent` as it
is (`dense/cuda/operations.cc` 80, 325, 424, 459). `RecordEvent` drains when
creating or recording the event fails, but not when it cannot select the device
(`core/cuda/runtime.cc` 258-261). In that case the call has failed and its kernel
may still be running. The Standard BLAS calls, and the Sparse and Random facets,
drain on any failure of `RecordCudaEvent`; the run `cuda_submit` checks them
under the same failures and finds nothing.

## What is not modelled

- Configuration and the command line: parsing of text with precedence rules;
  planned, see below. The timer keeps two numbers.
- Philox rounds, seed mixing and the generated table of Sobol direction numbers
  (`random/sobol_table_generated.cc`, data only, 44% of the lines of the
  implementation): bit mixing and constants outside TLC's reach; `QuasiRandom`
  takes the first rows of the table as a constant.
- Distributions with real parameters, multivariate normals, points on the unit
  sphere, midpoints and jitter of Latin hypercubes: floating arithmetic. `Rotg`,
  `Rotmg` and `Nrm2` for the same reason: their results are irrational.
- The older entry points of `dense/blas.cc` on strided views, which do what level
  1 to 3 do over `DenseView`; pointwise evaluation of sparse operands on the
  device; evaluation of nested expressions and the effect of an expression on
  sparsity (`DenseViews` has expressions of one operation).
- Creation and moves of the provider contexts: a handle is created or not.
- `CompletionEvent` used by two threads at once: `Query` and `Wait` write the
  cached flag without synchronisation and `docs/modules/core.md` asks callers not
  to do it. A cuBLAS handle that refuses to be switched back
  (`blas_level1.cc` 1071) is reported by the code and recorded in `stuck`; what
  later calls on it compute is left open.
- The wording of diagnostics, help text and formatting.
- Build system, packaging, benchmarks, examples.

## Plan

Done, in this order: `AsyncCall`, `CudaRuntime` and its proofs; `CudaSubmit`;
`CoordinateBuilder`; `BufferOwnership` and its proofs; `SparseConversion`; then
the level 2 and 3 protocols of `CudaSubmit`, `FileIo` and its proofs,
`RandomGeneration`, `QuasiRandom`, `DenseViews`, and the BLAS modules, dense
before sparse; then the proofs of `CudaSubmit`, the transfers of `FileIo`, the
points and draws of `QuasiRandom`, and the whole of `CoordinateBuilder`, of
`SparseConversion` and of `RandomGeneration`.

Next, to extend the model:

1. *Utilities and configuration*: precedence and duplicates in option
   resolution; the timer's state machine.
2. *Sparse*: clones and moves of indexed vectors and CSR arrays, structural
   merges, the alias checks of sparse evaluation.
3. *Contexts*: creation and moves of the provider contexts.

Next, to prove:

1. `DenseViews`: that failing calls change nothing, and the offsets of a layout
   from the weights that `RandomGenerationProofs` has for extents.

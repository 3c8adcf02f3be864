----------------------------- MODULE CudaSubmit -----------------------------
(***************************************************************************)
(* How the CUDA provider facets of Dense, Sparse and Random put the work of *)
(* one call on the stream of its ExecutionContext: take the mutex of the    *)
(* provider handle if the call uses it, switch the scalar pointer mode if   *)
(* the results are on the device, enqueue one or several commands, record   *)
(* an event over them with RecordCudaEvent, and on any failure wait for     *)
(* the stream before the operands, and the buffers the call allocated, are  *)
(* given up.                                                                *)
(*                                                                          *)
(* The facets follow one protocol with different policies, which `Protocol` *)
(* tabulates. CudaRuntime models RecordCudaEvent and completion events; of  *)
(* those only what a submitting call sees is kept here.                     *)
(***************************************************************************)
EXTENDS Naturals, FiniteSets

CONSTANTS
  Calls,             \* invocations of asynchronous facet operations
  Sites,             \* the operations called, a subset of AllSites
  DenseContexts,     \* DenseCudaContext objects: a cuBLAS handle, its mutex
  SparseContexts,    \* SparseCudaContext objects: a cuSPARSE handle, its mutex
  GuardFailsAt,      \* the Sites where RecordCudaEvent may fail to select the
                     \* device
  None

VARIABLES
  pc,         \* where each call is
  site,       \* the operation a call is
  on,         \* the provider context it was given
  left,       \* commands it has still to enqueue
  last,       \* ticket of the last command it enqueued, 0 if none
  mark,       \* ticket of its recorded event, 0 if none
  goal,       \* ticket its drain waits for
  stale,      \* its thread has an old error for cudaGetLastError to return
  buffers,    \* the result buffers it allocates, and who owns them
  mutex,      \* the call that holds the mutex of a context
  mode,       \* scalar pointer mode of its handle
  stuck,      \* contexts whose handle could not be switched back
  issued,     \* commands enqueued on the stream
  finished,   \* commands the stream has executed
  reported    \* the calls whose completion was observed

callVars    == <<pc, site, on, left, last, mark, goal, stale>>
contextVars == <<mutex, mode, stuck>>
streamVars  == <<issued, finished>>
vars == <<callVars, buffers, contextVars, streamVars, reported>>

Contexts == DenseContexts \cup SparseContexts

Steps == {"idle", "lock", "ready", "submit", "restore", "undo", "convert",
          "record", "drain", "failed", "recorded", "returned"}
Running == Steps \ {"idle", "failed", "returned"}
Owners == {"none", "call", "caller", "freed"}

-----------------------------------------------------------------------------
(* The operations, by what sets their protocols apart:                     *)
(*   lock       the handle's mutex is held until the call "returns", or     *)
(*              only while its "work" is enqueued, or not at all            *)
(*   scalars    where the results of the cuBLAS call are                    *)
(*   counts     how many commands a call may enqueue                        *)
(*   commands   what they are: a "library" call, which may fail halfway, a  *)
(*              "launch" checked with cudaGetLastError, or a "copy" that    *)
(*              returns its own status                                      *)
(*   clears     a launch forgets the earlier errors of its thread first     *)
(*   drains     a failed command is "always" followed by a drain of the     *)
(*              stream, or once the call has "enqueued" a command           *)
(*   recovers   a failed RecordCudaEvent is followed by a drain             *)
(*   empty      with nothing to enqueue the call returns a "complete"       *)
(*              event, or "records" one all the same                        *)
(*   allocates  the call allocates its result                               *)
Facet == [lock |-> "no", scalars |-> "host", counts |-> {0, 1},
          commands |-> "launch", clears |-> TRUE, drains |-> "enqueued",
          recovers |-> TRUE, empty |-> {"complete"}, allocates |-> FALSE]

(* Dense pointwise kernels, and the fills of Gemv and Gemm. *)
DenseKernel == [Facet EXCEPT !.clears = FALSE, !.drains = "always",
                !.recovers = FALSE, !.empty = {"records"}]

(* Gemv and Gemm. *)
DenseMatrix == [Facet EXCEPT !.lock = "returns", !.counts = {1},
                !.commands = "library", !.drains = "always", !.recovers = FALSE]

(* Standard BLAS on one cuBLAS call with host scalars ... *)
BlasHost == [Facet EXCEPT !.lock = "returns", !.commands = "library",
             !.drains = "always", !.empty = {"records"}]

(* ... on one whose result goes to the device ... *)
BlasDevice == [Facet EXCEPT !.lock = "returns", !.scalars = "device",
               !.counts = {1}, !.commands = "library", !.drains = "always"]

(* ... on one or two kernels of the project ... *)
BlasKernel == [Facet EXCEPT !.lock = "returns", !.counts = {1, 2},
               !.clears = FALSE, !.drains = "always"]

(* ... and Iamax: a cuBLAS call, then a kernel that converts its index.    *)
Iamax == [Facet EXCEPT !.lock = "returns", !.scalars = "device",
          !.counts = {2}, !.commands = "library", !.clears = FALSE,
          !.drains = "always"]

(* Level 2 and Level 3 on one cuBLAS call: a result of no rows or no       *)
(* columns records over nothing, and a failed record drains all the same.  *)
BlasMatrix == [Facet EXCEPT !.lock = "returns", !.commands = "library",
               !.drains = "always", !.empty = {"records"}]

(* ... on kernels of the project: one for what cuBLAS cannot express in    *)
(* rows, one per row to scale a result by beta, and a memset after each    *)
(* for a Hermitian diagonal (taken for a launch).                          *)
BlasMatrixKernel == [Facet EXCEPT !.lock = "returns", !.counts = {1, 2, 4},
                     !.clears = FALSE, !.drains = "always"]

(* Seeded fault: a sparse product trusts what cudaGetLastError returns,    *)
(* and drains like the calls that clear it.                                *)
SparseKernelUncleared == [Facet EXCEPT !.empty = {"complete", "records"},
                          !.clears = FALSE]

(* Sparse kernels; some return early, some launch nothing and record.      *)
SparseKernel == [Facet EXCEPT !.empty = {"complete", "records"}]

(* The compatibility SpMV on cuSPARSE: the scope of its lock ends before   *)
(* the event is recorded.                                                  *)
Spmv == [Facet EXCEPT !.lock = "work", !.counts = {1},
         !.commands = "library", !.drains = "always"]

(* CloneCsr and CloneIndexedVector: copies into buffers of their own.      *)
Clone == [Facet EXCEPT !.counts = 0 .. 3, !.commands = "copy",
          !.allocates = TRUE]

(* One random kernel over raw words or a dense view. *)
RandomKernel == Facet

(* Sparse generation: selection, decoding per dimension, values.           *)
Generate == [Facet EXCEPT !.counts = {0, 1, 3}, !.allocates = TRUE]

Protocol ==
  [denseKernel |-> DenseKernel, denseMatrix |-> DenseMatrix,
   blasHost |-> BlasHost, blasDevice |-> BlasDevice,
   blasKernel |-> BlasKernel, iamax |-> Iamax,
   blasMatrix |-> BlasMatrix, blasMatrixKernel |-> BlasMatrixKernel,
   sparseKernel |-> SparseKernel, spmv |-> Spmv, clone |-> Clone,
   randomKernel |-> RandomKernel, generate |-> Generate]

AllSites == DOMAIN Protocol

ContextsFor(k) ==
  IF Protocol[k].lock = "no" THEN {None}
  ELSE IF k = "spmv" THEN SparseContexts ELSE DenseContexts

ASSUME SubmitAssumption ==
  /\ Sites \subseteq AllSites
  /\ GuardFailsAt \subseteq AllSites
  /\ None \notin Calls /\ None \notin Contexts /\ None \notin AllSites
  /\ DenseContexts \cap SparseContexts = {}

-----------------------------------------------------------------------------

P(c) == Protocol[site[c]]

(* The cuBLAS call of c needs device pointer mode. *)
OnDevice(c) == P(c).scalars = "device"

Done(c) == last[c] <= finished

Init ==
  /\ pc       = [c \in Calls |-> "idle"]
  /\ site     = [c \in Calls |-> None]
  /\ on       = [c \in Calls |-> None]
  /\ left     = [c \in Calls |-> 0]
  /\ last     = [c \in Calls |-> 0]
  /\ mark     = [c \in Calls |-> 0]
  /\ goal     = [c \in Calls |-> 0]
  /\ stale    = [c \in Calls |-> FALSE]
  /\ buffers  = [c \in Calls |-> "none"]
  /\ mutex    = [x \in Contexts |-> None]
  /\ mode     = [x \in Contexts |-> "host"]
  /\ stuck    = {}
  /\ issued   = 0
  /\ finished = 0
  /\ reported = {}

(* Moves within a call. *)
Goto(c, to) == pc' = [pc EXCEPT ![c] = to]

Unlock(c) == mutex' = [x \in Contexts |-> IF mutex[x] = c THEN None ELSE mutex[x]]

Drain(c) == Goto(c, "drain") /\ goal' = [goal EXCEPT ![c] = issued]

(* Seeded fault: an early return keeps the mutex. *)
LeaveLocked(c) ==
  /\ Goto(c, "failed")
  /\ buffers' = [buffers EXCEPT ![c] = IF @ = "call" THEN "freed" ELSE @]
  /\ UNCHANGED mutex

(* A failing return leaves the scopes of the lock and of the buffers. *)
Leave(c) ==
  /\ Goto(c, "failed")
  /\ Unlock(c)
  /\ buffers' = [buffers EXCEPT ![c] = IF @ = "call" THEN "freed" ELSE @]

Enqueue(c) ==
  /\ issued' = issued + 1
  /\ last' = [last EXCEPT ![c] = issued + 1]
  /\ left' = [left EXCEPT ![c] = @ - 1]
  /\ UNCHANGED finished

-----------------------------------------------------------------------------
(* A call of operation k on context x begins with n commands to enqueue,   *)
(* on a thread that may have an old CUDA error.                            *)
Begin(c, k, x, n) ==
  /\ pc[c] = "idle"
  /\ Goto(c, IF Protocol[k].lock = "no" THEN "ready" ELSE "lock")
  /\ site' = [site EXCEPT ![c] = k]
  /\ on' = [on EXCEPT ![c] = x]
  /\ left' = [left EXCEPT ![c] = n]
  /\ \E old \in BOOLEAN : stale' = [stale EXCEPT ![c] = old]
  /\ buffers' = [buffers EXCEPT ![c] = IF Protocol[k].allocates THEN "call" ELSE @]
  /\ UNCHANGED <<last, mark, goal, contextVars, streamVars, reported>>

(* Seeded fault: a call does not wait for the mutex. *)
AcquireShared(c) ==
  /\ pc[c] = "lock"
  /\ Goto(c, "ready")
  /\ mutex' = [mutex EXCEPT ![on[c]] = c]
  /\ UNCHANGED <<site, on, left, last, mark, goal, stale, buffers, mode, stuck,
                 streamVars, reported>>

Acquire(c) ==
  /\ pc[c] = "lock" /\ mutex[on[c]] = None
  /\ Goto(c, "ready")
  /\ mutex' = [mutex EXCEPT ![on[c]] = c]
  /\ UNCHANGED <<site, on, left, last, mark, goal, stale, buffers, mode, stuck,
                 streamVars, reported>>

(* Every return of an error before anything is enqueued: context checks,   *)
(* allocation, device guard, operand and workspace validation. The Blas    *)
(* calls validate with the lock held, the others without.                  *)
Refuse(c) ==
  /\ pc[c] \in {"idle", "ready"}
  /\ Leave(c)
  /\ UNCHANGED <<site, on, left, last, mark, goal, stale, mode, stuck,
                 streamVars, reported>>

(* The caller receives its result, and its buffers with it. *)
Give(c) ==
  /\ Goto(c, "returned")
  /\ Unlock(c)
  /\ buffers' = [buffers EXCEPT ![c] = IF @ = "call" THEN "caller" ELSE @]

CompleteNothing(c) ==
  /\ pc[c] = "ready" /\ left[c] = 0 /\ "complete" \in P(c).empty
  /\ Give(c)
  /\ UNCHANGED <<site, on, left, last, mark, goal, stale, mode, stuck,
                 streamVars, reported>>

RecordNothing(c) ==
  /\ pc[c] = "ready" /\ left[c] = 0 /\ "records" \in P(c).empty
  /\ Goto(c, "record")
  /\ UNCHANGED <<site, on, left, last, mark, goal, stale, buffers, contextVars,
                 streamVars, reported>>

-----------------------------------------------------------------------------
(* Scalar pointer mode. *)

Proceed(c) ==
  /\ pc[c] = "ready" /\ left[c] > 0
  /\ Goto(c, "submit")
  /\ mode' = IF OnDevice(c) THEN [mode EXCEPT ![on[c]] = "device"]
             ELSE mode
  /\ UNCHANGED <<site, on, left, last, mark, goal, stale, buffers, mutex, stuck,
                 streamVars, reported>>

SelectFails(c) ==
  /\ pc[c] = "ready" /\ left[c] > 0 /\ OnDevice(c)
  /\ Drain(c)
  /\ UNCHANGED <<site, on, left, last, mark, stale, buffers, contextVars,
                 streamVars, reported>>

Restored(c) == mode' = [mode EXCEPT ![on[c]] = "host"] /\ UNCHANGED stuck
Stuck(c) == stuck' = stuck \cup {on[c]} /\ UNCHANGED mode

Restore(c) ==
  /\ pc[c] = "restore"
  /\ \/ Restored(c) /\ UNCHANGED goal
        /\ Goto(c, IF left[c] > 0 THEN "convert" ELSE "record")
     \/ Stuck(c) /\ Drain(c)
  /\ UNCHANGED <<site, on, left, last, mark, stale, buffers, mutex, streamVars,
                 reported>>

(* Seeded fault: a failed cuBLAS call returns in device pointer mode. *)
UndoForgotten(c) ==
  /\ pc[c] = "undo"
  /\ Drain(c)
  /\ UNCHANGED <<site, on, left, last, mark, stale, buffers, mutex, mode, stuck,
                 streamVars, reported>>

(* The mode is restored after a failed cuBLAS call too. *)
Undo(c) ==
  /\ pc[c] = "undo"
  /\ Restored(c) \/ Stuck(c)
  /\ Drain(c)
  /\ UNCHANGED <<site, on, left, last, mark, stale, buffers, mutex, streamVars,
                 reported>>

-----------------------------------------------------------------------------
(* Commands. *)

InLibrary(c) == pc[c] = "submit" /\ P(c).commands = "library"
InLaunch(c) ==
  pc[c] = "convert" \/ (pc[c] = "submit" /\ P(c).commands = "launch")

(* cudaGetLastError returns an error the launch did not cause. *)
Misled(c) == InLaunch(c) /\ stale[c] /\ ~P(c).clears

AfterSubmit(c) ==
  IF pc[c] = "submit" /\ OnDevice(c) THEN "restore"
  ELSE IF left[c] = 1 THEN "record" ELSE "submit"

Submit(c) ==
  /\ pc[c] \in {"submit", "convert"} /\ ~Misled(c)
  /\ Enqueue(c)
  /\ Goto(c, AfterSubmit(c))
  /\ IF AfterSubmit(c) = "record" /\ P(c).lock = "work" THEN Unlock(c)
     ELSE UNCHANGED mutex
  /\ UNCHANGED <<site, on, mark, goal, stale, buffers, mode, stuck, reported>>

(* Seeded fault: a failed command drains only if every one does. *)
DrainsOnlyAlways(c) == P(c).drains = "always"

(* Whether the error path of a failed command synchronizes the stream.     *)
DrainsSubmit(c) == P(c).drains = "always" \/ last[c] # 0

(* Seeded fault: a command that failed is taken not to be on the stream.   *)
SubmitFailsUndrained(c) ==
  /\ pc[c] \in {"submit", "convert"}
  /\ \/ UNCHANGED <<left, last, streamVars>>
     \/ (InLibrary(c) \/ Misled(c)) /\ Enqueue(c)
  /\ Leave(c)
  /\ UNCHANGED <<site, on, mark, goal, stale, mode, stuck, reported>>

(* A library call that fails may have enqueued its work; so has a launch   *)
(* that was taken for a failure.                                           *)
SubmitFails(c) ==
  /\ pc[c] \in {"submit", "convert"}
  /\ \/ UNCHANGED <<left, last, streamVars>>
     \/ (InLibrary(c) \/ Misled(c)) /\ Enqueue(c)
  /\ \/ /\ pc[c] = "submit" /\ OnDevice(c)
        /\ Goto(c, "undo") /\ UNCHANGED <<goal, buffers, mutex>>
     \/ /\ pc[c] = "convert" \/ ~OnDevice(c)
        /\ IF DrainsSubmit(c)
           THEN /\ Goto(c, "drain") /\ goal' = [goal EXCEPT ![c] = issued']
                /\ UNCHANGED <<buffers, mutex>>
           ELSE Leave(c) /\ UNCHANGED goal
  /\ UNCHANGED <<site, on, mark, stale, mode, stuck, reported>>

-----------------------------------------------------------------------------
(* RecordCudaEvent and what follows it. *)

Record(c) ==
  /\ pc[c] = "record"
  /\ Goto(c, "recorded")
  /\ issued' = issued + 1
  /\ mark' = [mark EXCEPT ![c] = issued + 1]
  /\ UNCHANGED <<site, on, left, last, goal, stale, buffers, contextVars,
                 finished, reported>>

(* Seeded fault: without an event, the result claims to be complete. *)
RecordFailsAsComplete(c) ==
  /\ pc[c] = "record"
  /\ Goto(c, "recorded")
  /\ UNCHANGED <<site, on, left, last, mark, goal, stale, buffers, contextVars,
                 streamVars, reported>>

(* RecordCudaEvent drains the stream itself unless it could not select the *)
(* device; then the drain is the caller's, which the Level 1 calls that had  *)
(* nothing to enqueue do not need.                                         *)
RecordFails(c) ==
  /\ pc[c] = "record"
  /\ \/ Drain(c) /\ UNCHANGED <<buffers, mutex>>
     \/ site[c] \in GuardFailsAt /\ (~P(c).recovers \/ (site[c] = "blasHost" /\ last[c] = 0))
        /\ Leave(c) /\ UNCHANGED goal
  /\ UNCHANGED <<site, on, left, last, mark, stale, mode, stuck, streamVars,
                 reported>>

Drained(c) ==
  /\ pc[c] = "drain" /\ goal[c] <= finished
  /\ Leave(c)
  /\ UNCHANGED <<site, on, left, last, mark, goal, stale, mode, stuck,
                 streamVars, reported>>

Return(c) ==
  /\ pc[c] = "recorded"
  /\ Give(c)
  /\ UNCHANGED <<site, on, left, last, mark, goal, stale, mode, stuck,
                 streamVars, reported>>

-----------------------------------------------------------------------------
(* The caller observes completion, and may then free the result. *)
Observe(c) ==
  /\ pc[c] = "returned" /\ mark[c] <= finished
  /\ reported' = reported \cup {c}
  /\ UNCHANGED <<callVars, buffers, contextVars, streamVars>>

FreeResult(c) ==
  /\ c \in reported /\ buffers[c] = "caller"
  /\ buffers' = [buffers EXCEPT ![c] = "freed"]
  /\ UNCHANGED <<callVars, contextVars, streamVars, reported>>

Execute ==
  /\ finished < issued
  /\ finished' = finished + 1
  /\ UNCHANGED <<callVars, buffers, contextVars, issued, reported>>

Advance(c) ==
  \/ Acquire(c) \/ CompleteNothing(c) \/ RecordNothing(c)
  \/ Proceed(c) \/ SelectFails(c) \/ Restore(c) \/ Undo(c)
  \/ Submit(c) \/ SubmitFails(c)
  \/ Record(c) \/ RecordFails(c) \/ Drained(c) \/ Return(c)

Next ==
  \/ \E c \in Calls :
       \/ \E k \in Sites : \E x \in ContextsFor(k) : \E n \in Protocol[k].counts :
            Begin(c, k, x, n)
       \/ Refuse(c) \/ Advance(c) \/ Observe(c) \/ FreeResult(c)
  \/ Execute

Spec == Init /\ [][Next]_vars

(* The stream runs what it was given, and a call that has begun runs on.   *)
FairSpec == Spec /\ WF_vars(Execute) /\ \A c \in Calls : WF_vars(Advance(c))

-----------------------------------------------------------------------------
(* A cuBLAS or cuSPARSE call finds its handle in the scalar pointer mode   *)
(* it relies on, whatever calls on the same context run or failed before,  *)
(* unless cuBLAS has refused to switch the mode of that handle back.       *)
SubmitsInItsMode ==
  \A c \in Calls : InLibrary(c) /\ on[c] \notin stuck =>
    mode[on[c]] = IF OnDevice(c) THEN "device" ELSE "host"

(* A buffer that a clone or a generation allocated is not freed, by the    *)
(* failing call or by the caller, while a command may still write to it.   *)
BuffersOutliveWork == \A c \in Calls : buffers[c] = "freed" => Done(c)

(* A call that returned a failure has no command left on the stream.       *)
FailedCallLeavesNothing == \A c \in Calls : pc[c] = "failed" => Done(c)

(* Every call returns: every path gives the mutex up, and no path waits    *)
(* for commands that are not on the stream.                                *)
CallReturns == \A c \in Calls : pc[c] \in Running ~> pc[c] \notin Running

(* What the caller of c knows of it, and the calls with commands to run. *)
PhaseOf(c) ==
  CASE pc[c] = "idle"    -> "idle"
    [] pc[c] = "failed"  -> "failed"
    [] pc[c] \in Running -> "running"
    [] OTHER             -> IF c \in reported THEN "reported" ELSE "returned"

Phase   == [c \in Calls |-> PhaseOf(c)]
Pending == {c \in Calls : ~Done(c)}

(* The facets keep the promise of AsyncCall. *)
Async == INSTANCE AsyncCall WITH phase <- Phase, pending <- Pending

ImplementsAsyncCall == Async!Spec

=============================================================================

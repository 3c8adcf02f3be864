----------------------------- MODULE CudaRuntime -----------------------------
(***************************************************************************)
(* The asynchronous runtime of the core_cuda facet: execution contexts     *)
(* that share one native stream (src/core/cuda/runtime.cc,                 *)
(* CudaExecutionState), the CopyBytes and RecordCudaEvent calls that put    *)
(* commands on it, and the CompletionEvent objects through which a caller   *)
(* learns that they have run (src/core/execution.cc).                      *)
(*                                                                         *)
(* The device is an external actor: each stream executes its commands in   *)
(* order, so a command is its ticket, the number of commands issued on the *)
(* stream up to it, and it has run when `finished` has reached the ticket. *)
(* Calls of several host threads interleave at every CUDA runtime call.    *)
(* Every runtime call may fail; what a failed call leaves behind is the    *)
(* subject of the properties.                                              *)
(***************************************************************************)
EXTENDS Naturals, FiniteSets

CONSTANTS
  Calls,     \* invocations of CopyBytes or RecordCudaEvent on a CUDA context
  Contexts,  \* the callers' ExecutionContext variables
  Events,    \* the callers' CompletionEvent variables
  Streams,   \* the native streams the runtime may create
  None       \* a null pointer

ASSUME RuntimeAssumption ==
  None \notin Calls /\ None \notin Streams /\ None \notin Contexts

VARIABLES
  context,   \* ExecutionContext::state_: the stream each variable shares
  stream,    \* the life of each native stream
  issued,    \* commands enqueued on each stream
  finished,  \* commands each stream has executed
  pc,        \* where each call is
  via,       \* the context variable a running call was given
  target,    \* the stream of a call, kept by its completion state
  work,      \* ticket of the call's own copy, 0 if it enqueued none
  mark,      \* ticket of the call's recorded event, 0 if none
  goal,      \* ticket up to which a failing call drains its stream
  native,    \* the life of the cudaEvent_t of each call
  valid,     \* CompletionEvent::valid_
  complete,  \* CompletionEvent::complete_
  state,     \* CompletionEvent::state_: the call whose event it holds
  waiting,   \* the event is inside CompletionState::Wait
  reported   \* the calls whose completion a caller has been told

streamVars == <<issued, finished>>
callVars   == <<pc, via, target, work, mark, goal>>
eventVars  == <<valid, complete, state, waiting>>
vars == <<context, stream, streamVars, callVars, native, eventVars, reported>>

Lives == {"unused", "live", "destroyed", "leaked"}
Steps == {"idle", "createCopyEvent", "createMarkEvent", "copy", "record",
          "recorded", "drain", "failed", "returned"}
Running == Steps \ {"idle", "failed", "returned"}

-----------------------------------------------------------------------------

(* A command with ticket t has run on stream s; ticket 0 is no command. *)
Ran(s, t) == t = 0 \/ t <= finished[s]

Done(c) == work[c] = 0 \/ work[c] <= finished[target[c]]

Fired(c) == mark[c] <= finished[target[c]]

(* A completion state lives in the call's Result, then in an event. *)
HoldsCompletion(c) == pc[c] = "recorded" \/ \E e \in Events : state[e] = c

(* Seeded fault: completion states refer to their stream without sharing. *)
HeldByContextsOnly(s) == \E x \in Contexts : context[x] = s

(* The shared_ptr count of an execution state is not zero. *)
Held(s) ==
  \/ \E x \in Contexts : context[x] = s
  \/ \E c \in Calls : HoldsCompletion(c) /\ target[c] = s

(* A destructor destroys its native handle, unless it cannot select the    *)
(* device (DeviceGuard::Create fails): then the handle is abandoned.       *)
Fates == {"destroyed", "leaked"}

(* ~CudaExecutionState runs when the last holder of a stream has gone. *)
ReleaseStreams ==
  \E fate \in Fates :
    stream' = [s \in Streams |->
                 IF stream[s] = "live" /\ ~Held(s)' THEN fate ELSE stream[s]]

(* ~CudaCompletionState of the state an event or a Result held. *)
DestroyCompletion(c) ==
  \E fate \in Fates :
    native' = IF c = None THEN native ELSE [native EXCEPT ![c] = fate]

(* Calls in progress read the context variable they were given. *)
InUse(x) == \E c \in Calls : via[c] = x

Init ==
  /\ context  = [x \in Contexts |-> None]
  /\ stream   = [s \in Streams |-> "unused"]
  /\ issued   = [s \in Streams |-> 0]
  /\ finished = [s \in Streams |-> 0]
  /\ pc       = [c \in Calls |-> "idle"]
  /\ via      = [c \in Calls |-> None]
  /\ target   = [c \in Calls |-> None]
  /\ work     = [c \in Calls |-> 0]
  /\ mark     = [c \in Calls |-> 0]
  /\ goal     = [c \in Calls |-> 0]
  /\ native   = [c \in Calls |-> "unused"]
  /\ valid    = [e \in Events |-> FALSE]
  /\ complete = [e \in Events |-> FALSE]
  /\ state    = [e \in Events |-> None]
  /\ waiting  = [e \in Events |-> FALSE]
  /\ reported = {}

-----------------------------------------------------------------------------
(* Execution contexts: immutable, copyable, sharing one execution state.   *)

(* CreateCudaExecutionContext: a failure creates nothing. *)
CreateContext(x, s) ==
  /\ context[x] = None
  /\ stream[s] = "unused"
  /\ context' = [context EXCEPT ![x] = s]
  /\ stream' = [stream EXCEPT ![s] = "live"]
  /\ UNCHANGED <<streamVars, callVars, native, eventVars, reported>>

(* The destination of an assignment drops the state it shared before. *)
CopyContext(x, y) ==
  /\ x # y /\ ~InUse(x)
  /\ context' = [context EXCEPT ![x] = context[y]]
  /\ UNCHANGED <<streamVars, callVars, native, eventVars, reported>>
  /\ ReleaseStreams

MoveContext(x, y) ==
  /\ x # y /\ ~InUse(x) /\ ~InUse(y)
  /\ context' = [context EXCEPT ![x] = context[y], ![y] = None]
  /\ UNCHANGED <<streamVars, callVars, native, eventVars, reported>>
  /\ ReleaseStreams

DropContext(x) ==
  /\ context[x] # None /\ ~InUse(x)
  /\ context' = [context EXCEPT ![x] = None]
  /\ UNCHANGED <<streamVars, callVars, native, eventVars, reported>>
  /\ ReleaseStreams

-----------------------------------------------------------------------------
(* The calls, one step per CUDA runtime call they make.                    *)

(* A call leaves for `to`; one that is over no longer reads its context.   *)
Goto(c, to) ==
  /\ pc' = [pc EXCEPT ![c] = to]
  /\ via' = IF to \in Running THEN via ELSE [via EXCEPT ![c] = None]

(* The error paths that synchronize the stream wait for every command      *)
(* issued on it so far.                                                    *)
Drain(c) ==
  /\ Goto(c, "drain")
  /\ goal' = [goal EXCEPT ![c] = issued[target[c]]]

(* Every return before the stream is touched: a moved-from context, sizes, *)
(* null or inaccessible views, the device guard, the pointer checks and    *)
(* partial overlap.                                                        *)
Reject(c) ==
  /\ pc[c] = "idle"
  /\ Goto(c, "failed")
  /\ UNCHANGED <<context, stream, streamVars, target, work, mark, goal,
                 native, eventVars, reported>>

(* CopyBytes of distinct ranges goes on to create its event; a self-copy   *)
(* and RecordCudaEvent go on in RecordEvent.                               *)
Begin(c, x) ==
  /\ pc[c] = "idle"
  /\ context[x] # None
  /\ pc' \in {[pc EXCEPT ![c] = p] : p \in {"createCopyEvent", "createMarkEvent"}}
  /\ via' = [via EXCEPT ![c] = x]
  /\ target' = [target EXCEPT ![c] = context[x]]
  /\ UNCHANGED <<context, stream, streamVars, work, mark, goal, native,
                 eventVars, reported>>

CreateEvent(c) ==
  /\ \/ pc[c] = "createCopyEvent" /\ Goto(c, "copy")
     \/ pc[c] = "createMarkEvent" /\ Goto(c, "record")
  /\ native' = [native EXCEPT ![c] = "live"]
  /\ UNCHANGED <<context, stream, streamVars, target, work, mark, goal,
                 eventVars, reported>>

(* CopyBytes returns at once, for nothing is enqueued yet; RecordEvent     *)
(* drains, for its caller may have enqueued work.                          *)
CreateEventFails(c) ==
  /\ \/ pc[c] = "createCopyEvent" /\ Goto(c, "failed") /\ UNCHANGED goal
     \/ pc[c] = "createMarkEvent" /\ Drain(c)
  /\ UNCHANGED <<context, stream, streamVars, target, work, mark, native,
                 eventVars, reported>>

(* The next command of the call's stream gets the next ticket. *)
NextTicket(c) == issued[target[c]] + 1
Issue(c) == issued' = [issued EXCEPT ![target[c]] = @ + 1]

EnqueueCopy(c) ==
  /\ pc[c] = "copy"
  /\ Goto(c, "record")
  /\ Issue(c)
  /\ work' = [work EXCEPT ![c] = NextTicket(c)]
  /\ UNCHANGED <<context, stream, finished, target, mark, goal, native,
                 eventVars, reported>>

EnqueueCopyFails(c) ==
  /\ pc[c] = "copy"
  /\ Drain(c)
  /\ UNCHANGED <<context, stream, streamVars, target, work, mark, native,
                 eventVars, reported>>

Record(c) ==
  /\ pc[c] = "record"
  /\ Goto(c, "recorded")
  /\ Issue(c)
  /\ mark' = [mark EXCEPT ![c] = NextTicket(c)]
  /\ UNCHANGED <<context, stream, finished, target, work, goal, native,
                 eventVars, reported>>

(* Seeded fault: the error of cudaEventRecord is returned without a drain. *)
RecordFailsUndrained(c) ==
  /\ pc[c] = "record"
  /\ Goto(c, "failed")
  /\ native' = [native EXCEPT ![c] = "destroyed"]
  /\ UNCHANGED <<context, stream, streamVars, target, work, mark, goal,
                 eventVars, reported>>

(* Seeded fault: the drain waits for the event that was not recorded. *)
RecordFailsDrainsTooFar(c) ==
  /\ pc[c] = "record"
  /\ Goto(c, "drain")
  /\ goal' = [goal EXCEPT ![c] = NextTicket(c)]
  /\ UNCHANGED <<context, stream, streamVars, target, work, mark, native,
                 eventVars, reported>>

(* Seeded fault: the error of cudaEventRecord is ignored. *)
RecordFailsIgnored(c) ==
  /\ pc[c] = "record"
  /\ Goto(c, "recorded")
  /\ mark' = [mark EXCEPT ![c] = NextTicket(c)]
  /\ UNCHANGED <<context, stream, streamVars, target, work, goal, native,
                 eventVars, reported>>

RecordFails(c) ==
  /\ pc[c] = "record"
  /\ Drain(c)
  /\ UNCHANGED <<context, stream, streamVars, target, work, mark, native,
                 eventVars, reported>>

(* Seeded fault: the error paths forget the event they created. *)
DrainedKeepsEvent(c) ==
  /\ pc[c] = "drain"
  /\ Ran(target[c], goal[c])
  /\ Goto(c, "failed")
  /\ UNCHANGED <<context, stream, streamVars, target, work, mark, goal,
                 native, eventVars, reported>>

(* DrainStream returns; the event the call created is destroyed. *)
Drained(c) ==
  /\ pc[c] = "drain"
  /\ Ran(target[c], goal[c])
  /\ Goto(c, "failed")
  /\ native' = [native EXCEPT ![c] = IF @ = "live" THEN "destroyed" ELSE @]
  /\ UNCHANGED <<context, stream, streamVars, target, work, mark, goal,
                 eventVars, reported>>

-----------------------------------------------------------------------------
(* CompletionEvent objects. Waiting on, moving, assigning and destroying   *)
(* one object do not overlap: the callers see to it.                       *)

(* Object e takes the three fields given; the state it held is destroyed.  *)
SetEvent(e, v, k, c) ==
  /\ ~waiting[e]
  /\ valid' = [valid EXCEPT ![e] = v]
  /\ complete' = [complete EXCEPT ![e] = k]
  /\ state' = [state EXCEPT ![e] = c]
  /\ DestroyCompletion(state[e])
  /\ UNCHANGED waiting

(* CopyBytes of zero bytes returns an event that is complete already. *)
CopyNothing(c, e) ==
  /\ pc[c] = "idle"
  /\ Goto(c, "returned")
  /\ SetEvent(e, TRUE, TRUE, None)
  /\ UNCHANGED <<context, streamVars, target, work, mark, goal, reported>>
  /\ ReleaseStreams

Return(c, e) ==
  /\ pc[c] = "recorded"
  /\ Goto(c, "returned")
  /\ SetEvent(e, TRUE, FALSE, c)
  /\ UNCHANGED <<context, streamVars, target, work, mark, goal, reported>>
  /\ ReleaseStreams

(* The caller drops the Result: the event goes, its work stays. *)
Discard(c) ==
  /\ pc[c] = "recorded"
  /\ Goto(c, "returned")
  /\ DestroyCompletion(c)
  /\ UNCHANGED <<context, streamVars, target, work, mark, goal, eventVars,
                 reported>>
  /\ ReleaseStreams

(* Seeded fault: a move keeps the destination's complete_ flag. *)
MoveEventKeepsFlag(d, e) ==
  /\ d # e /\ ~waiting[d] /\ ~waiting[e]
  /\ valid' = [valid EXCEPT ![d] = valid[e], ![e] = FALSE]
  /\ state' = [state EXCEPT ![d] = state[e], ![e] = None]
  /\ DestroyCompletion(state[d])
  /\ UNCHANGED <<context, streamVars, callVars, complete, waiting, reported>>
  /\ ReleaseStreams

(* Seeded fault: a move leaves the source its state. *)
MoveEventShares(d, e) ==
  /\ d # e /\ ~waiting[d] /\ ~waiting[e]
  /\ valid' = [valid EXCEPT ![d] = valid[e], ![e] = FALSE]
  /\ complete' = [complete EXCEPT ![d] = complete[e], ![e] = FALSE]
  /\ state' = [state EXCEPT ![d] = state[e]]
  /\ DestroyCompletion(state[d])
  /\ UNCHANGED <<context, streamVars, callVars, waiting, reported>>
  /\ ReleaseStreams

(* Move assignment: d takes the fields of e, and e is left moved-from. *)
MoveEvent(d, e) ==
  /\ d # e /\ ~waiting[d] /\ ~waiting[e]
  /\ valid' = [valid EXCEPT ![d] = valid[e], ![e] = FALSE]
  /\ complete' = [complete EXCEPT ![d] = complete[e], ![e] = FALSE]
  /\ state' = [state EXCEPT ![d] = state[e], ![e] = None]
  /\ DestroyCompletion(state[d])
  /\ UNCHANGED <<context, streamVars, callVars, waiting, reported>>
  /\ ReleaseStreams

(* Destruction leaves what an object not yet constructed looks like. *)
DestroyEvent(e) ==
  /\ valid[e] \/ state[e] # None
  /\ SetEvent(e, FALSE, FALSE, None)
  /\ UNCHANGED <<context, streamVars, callVars, reported>>
  /\ ReleaseStreams

(* Seeded fault: the null state of a stateless event is not told apart. *)
TellUnchecked(e) ==
  /\ complete' = [complete EXCEPT ![e] = TRUE]
  /\ reported' = reported \cup {state[e]}

(* Completion of e is cached and the caller is told. *)
Tell(e) ==
  /\ complete' = [complete EXCEPT ![e] = TRUE]
  /\ reported' = reported \cup ({state[e]} \ {None})

(* Query() answers true; the answers false and error change nothing. *)
Query(e) ==
  /\ valid[e] /\ ~waiting[e]
  /\ complete[e] \/ (state[e] # None /\ Fired(state[e]))
  /\ Tell(e)
  /\ UNCHANGED <<context, stream, streamVars, callVars, native, valid, state,
                 waiting>>

(* Wait() on an object that is not known to be complete. *)
Wait(e) ==
  /\ valid[e] /\ ~complete[e] /\ state[e] # None /\ ~waiting[e]
  /\ waiting' = [waiting EXCEPT ![e] = TRUE]
  /\ UNCHANGED <<context, stream, streamVars, callVars, native, valid,
                 complete, state, reported>>

WaitSucceeds(e) ==
  /\ waiting[e] /\ Fired(state[e])
  /\ Tell(e)
  /\ waiting' = [waiting EXCEPT ![e] = FALSE]
  /\ UNCHANGED <<context, stream, streamVars, callVars, native, valid, state>>

(* Seeded fault: Wait() caches completion before it looks at the status. *)
WaitFailsCaches(e) ==
  /\ waiting[e]
  /\ Tell(e)
  /\ waiting' = [waiting EXCEPT ![e] = FALSE]
  /\ UNCHANGED <<context, stream, streamVars, callVars, native, valid, state>>

(* The device guard or cudaEventSynchronize fails: nothing is cached. *)
WaitFails(e) ==
  /\ waiting[e]
  /\ waiting' = [waiting EXCEPT ![e] = FALSE]
  /\ UNCHANGED <<context, stream, streamVars, callVars, native, valid,
                 complete, state, reported>>

-----------------------------------------------------------------------------
(* The device. Destroying a stream does not cancel its commands. *)
Execute(s) ==
  /\ finished[s] < issued[s]
  /\ finished' = [finished EXCEPT ![s] = @ + 1]
  /\ UNCHANGED <<context, stream, issued, callVars, native, eventVars,
                 reported>>

ContextNext ==
  \E x \in Contexts :
    \/ \E s \in Streams : CreateContext(x, s)
    \/ \E y \in Contexts : CopyContext(x, y) \/ MoveContext(x, y)
    \/ DropContext(x)

(* What a running call does next; the failures are the provider's. *)
Advance(c) ==
  \/ CreateEvent(c) \/ CreateEventFails(c)
  \/ EnqueueCopy(c) \/ EnqueueCopyFails(c)
  \/ Record(c) \/ RecordFails(c) \/ Drained(c)
  \/ (\E e \in Events : Return(c, e)) \/ Discard(c)

CallNext ==
  \E c \in Calls :
    \/ Reject(c)
    \/ \E e \in Events : CopyNothing(c, e)
    \/ \E x \in Contexts : Begin(c, x)
    \/ Advance(c)

EventNext ==
  \E e \in Events :
    \/ \E d \in Events : MoveEvent(d, e)
    \/ DestroyEvent(e)
    \/ Query(e) \/ Wait(e) \/ WaitSucceeds(e) \/ WaitFails(e)

Next == ContextNext \/ CallNext \/ EventNext \/ \E s \in Streams : Execute(s)

Spec == Init /\ [][Next]_vars

(* The device runs what it was given, a call that has begun runs on, and a *)
(* thread inside Wait() wakes when the event has fired.                    *)
Fairness ==
  /\ \A s \in Streams : WF_vars(Execute(s))
  /\ \A c \in Calls : WF_vars(Advance(c))
  /\ \A e \in Events : WF_vars(WaitSucceeds(e))

FairSpec == Spec /\ Fairness

-----------------------------------------------------------------------------

TypeOK ==
  /\ context \in [Contexts -> Streams \cup {None}]
  /\ stream \in [Streams -> Lives]
  /\ issued \in [Streams -> Nat]
  /\ finished \in [Streams -> Nat]
  /\ pc \in [Calls -> Steps]
  /\ via \in [Calls -> Contexts \cup {None}]
  /\ target \in [Calls -> Streams \cup {None}]
  /\ work \in [Calls -> Nat]
  /\ mark \in [Calls -> Nat]
  /\ goal \in [Calls -> Nat]
  /\ native \in [Calls -> Lives]
  /\ valid \in [Events -> BOOLEAN]
  /\ complete \in [Events -> BOOLEAN]
  /\ state \in [Events -> Calls \cup {None}]
  /\ waiting \in [Events -> BOOLEAN]
  /\ reported \in SUBSET Calls

(* A CopyBytes that returned a failure has no copy of its own left on the  *)
(* stream, whichever of its steps failed: the caller may free both ranges. *)
FailedCallLeavesNothing ==
  \A c \in Calls : pc[c] = "failed" => Done(c)

(* Once Query() has answered true or Wait() has succeeded, the call's copy *)
(* and every copy enqueued on the stream before the event have run. Moves, *)
(* the cached complete_ flag and other calls on the stream do not matter.  *)
ReportedCallIsDone ==
  \A c \in reported :
    /\ Done(c)
    /\ \A d \in Calls : target[d] = target[c] /\ work[d] <= mark[c] => Done(d)

(* The native event behind an event object exists, its stream too, and no  *)
(* other object holds it: no use after cudaEventDestroy, no second one.    *)
EventsOwnLiveHandles ==
  \A e \in Events : state[e] # None =>
    /\ native[state[e]] = "live"
    /\ stream[target[state[e]]] = "live"
    /\ \A d \in Events : state[d] = state[e] => d = e

(* Every native event is owned: by its running call or by an object. Only  *)
(* a destructor that cannot select the device abandons one.                *)
NoEventIsLost ==
  \A c \in Calls : native[c] = "live" =>
    pc[c] \in Running \/ \E e \in Events : state[e] = c

(* A stream is destroyed only after the native events recorded on it: the  *)
(* completion state keeps the execution state alive.                       *)
StreamOutlivesItsEvents ==
  [][\A s \in Streams : stream[s] = "live" /\ stream'[s] # "live" =>
       \A c \in Calls : target[c] = s => native'[c] # "live"]_vars

(* A running call always returns: an error path that drains its stream     *)
(* waits only for commands that will run.                                  *)
CallReturns ==
  \A c \in Calls : pc[c] \in Running ~> pc[c] \notin Running

(* Wait() always returns. *)
WaitReturns == \A e \in Events : waiting[e] ~> ~waiting[e]

(* What the caller of c knows of it, and the calls with a copy to run. *)
PhaseOf(c) ==
  CASE pc[c] = "idle"    -> "idle"
    [] pc[c] = "failed"  -> "failed"
    [] pc[c] \in Running -> "running"
    [] OTHER             -> IF c \in reported THEN "reported" ELSE "returned"

Phase   == [c \in Calls |-> PhaseOf(c)]
Pending == {c \in Calls : ~Done(c)}

(* The runtime keeps the promise of AsyncCall. *)
Async == INSTANCE AsyncCall WITH phase <- Phase, pending <- Pending

ImplementsAsyncCall == Async!Spec

=============================================================================

------------------------------ MODULE AsyncCall ------------------------------
(***************************************************************************)
(* What every asynchronous call of asc-cpp promises its caller, whatever   *)
(* provider carries it out (docs/modules/core.md, "Optional CUDA runtime   *)
(* facet", and docs/modules/dense.md on failures after enqueue):           *)
(*                                                                         *)
(*   - a call that returns a failure leaves none of its work behind on the *)
(*     device, so its operands may be released at once;                    *)
(*   - a call that succeeds returns an event, and the event reports        *)
(*     completion only when the work of the call is over.                  *)
(*                                                                         *)
(* CudaRuntime and CudaSubmit are shown to implement this module.          *)
(***************************************************************************)

CONSTANT Calls     \* one element per invocation of an asynchronous operation

VARIABLES
  phase,           \* what the caller of each call knows of it
  pending          \* the calls with work on the device that has not ended

vars == <<phase, pending>>

Phases == {"idle", "running", "failed", "returned", "reported"}

Init ==
  /\ phase = [c \in Calls |-> "idle"]
  /\ pending = {}

Enter(c, from, to) ==
  /\ phase[c] \in from
  /\ phase' = [phase EXCEPT ![c] = to]

Start(c) == Enter(c, {"idle"}, "running") /\ UNCHANGED pending

(* A call puts work on the device only while it runs. *)
Enqueue(c) ==
  /\ phase[c] = "running"
  /\ pending' = pending \cup {c}
  /\ UNCHANGED phase

(* The device ends the work of a call at any time. *)
Finish(c) ==
  /\ c \in pending
  /\ pending' = pending \ {c}
  /\ UNCHANGED phase

(* A failure is returned only when nothing of the call is left running. *)
Fail(c) ==
  /\ Enter(c, {"idle", "running"}, "failed")
  /\ c \notin pending
  /\ UNCHANGED pending

Return(c) == Enter(c, {"idle", "running"}, "returned") /\ UNCHANGED pending

(* Query() returns true or Wait() succeeds only when the work has ended. *)
Report(c) ==
  /\ Enter(c, {"returned"}, "reported")
  /\ c \notin pending
  /\ UNCHANGED pending

Next ==
  \E c \in Calls :
    \/ Start(c) \/ Enqueue(c) \/ Finish(c)
    \/ Fail(c) \/ Return(c) \/ Report(c)

Spec == Init /\ [][Next]_vars

=============================================================================

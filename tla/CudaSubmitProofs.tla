-------------------------- MODULE CudaSubmitProofs --------------------------
(***************************************************************************)
(* The safety of CudaSubmit for any calls, operations and contexts.  IInv  *)
(* strengthens the checked invariants until every step preserves it: it    *)
(* adds who holds which mutex at each step of a call, which call may have  *)
(* a handle in device pointer mode, where the tickets of a call stand, and *)
(* who owns its buffers.                                                   *)
(*                                                                         *)
(* A failed RecordCudaEvent that could not select the device leaves the    *)
(* drain to its caller, and some operations do not drain.  Nothing is      *)
(* assumed about it: the invariant says it of all the other calls.         *)
(***************************************************************************)
EXTENDS CudaSubmit, TLAPS

(* The variables keep their types. *)
TypeOK ==
  /\ pc \in [Calls -> Steps]
  /\ site \in [Calls -> Sites \cup {None}]
  /\ on \in [Calls -> Contexts \cup {None}]
  /\ left \in [Calls -> Nat]
  /\ last \in [Calls -> Nat]
  /\ mark \in [Calls -> Nat]
  /\ goal \in [Calls -> Nat]
  /\ stale \in [Calls -> BOOLEAN]
  /\ buffers \in [Calls -> Owners]
  /\ mutex \in [Contexts -> Calls \cup {None}]
  /\ mode \in [Contexts -> {"host", "device"}]
  /\ stuck \in SUBSET Contexts
  /\ issued \in Nat
  /\ finished \in Nat
  /\ reported \in SUBSET Calls

(* A call that has begun has an operation, and a context of its kind.      *)
SiteInv ==
  \A c \in Calls :
    /\ pc[c] = "idle" => site[c] = None
    /\ site[c] = None => pc[c] \in {"idle", "failed"} /\ last[c] = 0
    /\ site[c] # None => on[c] \in ContextsFor(site[c])

(* How many commands a call has still to enqueue. *)
CountInv ==
  \A c \in Calls :
    /\ pc[c] \in {"lock", "ready"} => left[c] \in P(c).counts
    /\ pc[c] \in {"submit", "convert"} => left[c] > 0
    /\ pc[c] \in {"restore", "undo", "convert"} => OnDevice(c)
    /\ pc[c] = "submit" /\ OnDevice(c) => left[c] <= 2
    /\ pc[c] \in {"restore", "convert"} => left[c] <= 1

(* While its work is enqueued, a call that locks holds the mutex. *)
Working == {"ready", "submit", "restore", "undo", "convert"}

MutexInv ==
  \A c \in Calls :
    pc[c] \in Working /\ P(c).lock # "no" => mutex[on[c]] = c

(* A handle is in device pointer mode for one call, which will restore it. *)
ModeInv ==
  /\ \A x \in Contexts \ stuck : mode[x] = "device" =>
       \E c \in Calls : /\ on[c] = x /\ OnDevice(c)
                        /\ pc[c] \in {"submit", "restore", "undo"}
  /\ \A c \in Calls :
       pc[c] = "submit" /\ OnDevice(c) => mode[on[c]] = "device"

(* The operations whose failed record may return without a drain. *)
Exempt(c) == site[c] \in GuardFailsAt /\ ~P(c).recovers

(* Tickets are commands of the stream, and no two calls have the same one. *)
TicketInv ==
  /\ finished <= issued
  /\ \A c \in Calls :
       /\ last[c] <= issued /\ mark[c] <= issued
       /\ pc[c] \in {"idle", "lock", "ready"} => last[c] = 0
       /\ pc[c] = "drain" => last[c] <= goal[c]
       /\ pc[c] \in {"recorded", "returned"} => last[c] <= mark[c]
       /\ pc[c] = "failed" /\ ~Exempt(c) => Done(c)
       /\ \A d \in Calls : last[c] # 0 /\ last[d] = last[c] => d = c

(* Buffers are the call's while it runs, the caller's once it returned.    *)
BufferInv ==
  \A c \in Calls :
    /\ pc[c] = "idle" => buffers[c] = "none"
    /\ buffers[c] # "none" => site[c] # None /\ P(c).allocates
    /\ buffers[c] = "caller" => pc[c] = "returned"
    /\ buffers[c] = "freed" => pc[c] = "failed" \/ c \in reported

ReportInv == \A c \in reported : pc[c] = "returned" /\ Done(c)

IInv ==
  /\ TypeOK
  /\ SiteInv /\ CountInv
  /\ MutexInv /\ ModeInv
  /\ TicketInv /\ BufferInv /\ ReportInv

-----------------------------------------------------------------------------
(* What the proofs need to know of the protocols: library calls, and the   *)
(* calls in device pointer mode, lock and always drain; a launch that may  *)
(* be misled by an old error always drains; and a call that allocates      *)
(* recovers.                                                               *)
Consistent(p) ==
  /\ p.counts \in SUBSET Nat
  /\ p.scalars = "device" =>
       p.lock = "returns" /\ p.drains = "always" /\ p.counts \subseteq {1, 2}
  /\ p.commands = "library" => p.lock # "no" /\ p.drains = "always"
  /\ p.drains # "always" => p.clears
  /\ p.allocates => p.recovers

LEMMA ProtocolFacts == \A k \in AllSites : Consistent(Protocol[k])
  <1> USE DEF Consistent, Facet
  <1>1. Consistent(DenseKernel)
    BY DEF DenseKernel
  <1>2. Consistent(DenseMatrix)
    BY DEF DenseMatrix
  <1>3. Consistent(BlasHost)
    BY DEF BlasHost
  <1>4. Consistent(BlasDevice)
    BY DEF BlasDevice
  <1>5. Consistent(BlasKernel)
    BY DEF BlasKernel
  <1>6. Consistent(Iamax)
    BY DEF Iamax
  <1>7. Consistent(BlasMatrix)
    BY DEF BlasMatrix
  <1>8. Consistent(BlasMatrixKernel)
    BY DEF BlasMatrixKernel
  <1>9. Consistent(SparseKernel)
    BY DEF SparseKernel
  <1>10. Consistent(Spmv)
    BY DEF Spmv
  <1>11. Consistent(Clone)
    BY DEF Clone
  <1>12. Consistent(RandomKernel)
    BY DEF RandomKernel
  <1>13. Consistent(Generate)
    BY DEF Generate
  <1>14. QED
    BY <1>1, <1>2, <1>3, <1>4, <1>5, <1>6, <1>7, <1>8, <1>9, <1>10, <1>11, <1>12,
       <1>13 DEF AllSites, Protocol

(* A call that locks has a context with a mutex. *)
LEMMA ContextFacts ==
  ASSUME NEW k \in AllSites
  PROVE  /\ ContextsFor(k) \subseteq Contexts \cup {None}
         /\ Protocol[k].lock # "no" => ContextsFor(k) \subseteq Contexts
  BY DEF ContextsFor, Contexts

(* The protocol of a call that has begun. *)
LEMMA SiteFacts ==
  ASSUME TypeOK, SiteInv, NEW c \in Calls, site[c] # None
  PROVE  /\ site[c] \in AllSites
         /\ Consistent(P(c))
         /\ P(c).lock # "no" => on[c] \in Contexts
  BY SubmitAssumption, ProtocolFacts, ContextFacts DEF TypeOK, SiteInv, P

-----------------------------------------------------------------------------
(* The commands still to enqueue stay a number, and a call in device       *)
(* pointer mode has a context.                                             *)
LEMMA TypeStep ==
  ASSUME TypeOK, SiteInv, CountInv, [Next]_vars
  PROVE  TypeOK'
  <1> USE DEF TypeOK, callVars, contextVars, streamVars, Goto, Steps, Owners
  <1>1. ASSUME NEW c \in Calls, NEW k \in Sites, NEW x \in ContextsFor(k),
               NEW n \in Protocol[k].counts, Begin(c, k, x, n)
        PROVE  TypeOK'
    <2>1. n \in Nat /\ x \in Contexts \cup {None}
      BY SubmitAssumption, ProtocolFacts, ContextFacts DEF Consistent
    <2>2. QED
      BY <1>1, <2>1 DEF Begin
  <1>2. ASSUME NEW c \in Calls,
               \/ Refuse(c) \/ Advance(c) \/ Observe(c) \/ FreeResult(c)
        PROVE  TypeOK'
    <2>1. CASE Refuse(c)
      BY <2>1 DEF Refuse, Leave, Unlock
    <2>2. CASE Acquire(c)
      BY <2>2 DEF Acquire
    <2>3. CASE CompleteNothing(c) \/ Return(c)
      BY <2>3 DEF CompleteNothing, Return, Give, Unlock
    <2>4. CASE RecordNothing(c) \/ Record(c)
      BY <2>4 DEF RecordNothing, Record
    <2>5. CASE Proceed(c) \/ SelectFails(c)
      BY <2>5 DEF Proceed, SelectFails, Drain
    <2>6. CASE Restore(c) \/ Undo(c)
      <3>1. on[c] \in Contexts
        BY <2>6, SiteFacts DEF Restore, Undo, CountInv, OnDevice, SiteInv, Consistent
      <3>2. QED
        BY <2>6, <3>1 DEF Restore, Undo, Restored, Stuck, Drain
    <2>7. CASE Submit(c)
      BY <2>7 DEF Submit, Enqueue, AfterSubmit, Unlock, CountInv
    <2>8. CASE SubmitFails(c)
      BY <2>8 DEF SubmitFails, Enqueue, Leave, Unlock, CountInv
    <2>9. CASE RecordFails(c)
      BY <2>9 DEF RecordFails, Drain, Leave, Unlock
    <2>10. CASE Drained(c)
      BY <2>10 DEF Drained, Leave, Unlock
    <2>11. CASE Observe(c) \/ FreeResult(c)
      BY <2>11 DEF Observe, FreeResult
    <2>12. QED
      BY <1>2, <2>1, <2>2, <2>3, <2>4, <2>5, <2>6, <2>7, <2>8, <2>9, <2>10, <2>11
      DEF Advance
  <1>3. CASE Execute
    BY <1>3 DEF Execute
  <1>4. CASE UNCHANGED vars
    BY <1>4 DEF vars
  <1>5. QED
    BY <1>1, <1>2, <1>3, <1>4 DEF Next

(* Every step of a call but the first preserves the invariant.             *)
LEMMA CallStep ==
  ASSUME IInv, TypeOK', NEW c \in Calls, Refuse(c) \/ Advance(c)
  PROVE  IInv'
  <1> USE SubmitAssumption DEF IInv, TypeOK, callVars, contextVars, streamVars, Goto, P, OnDevice
  <1>0. \A d \in Calls : site[d] # None =>
          /\ Consistent(Protocol[site[d]])
          /\ Protocol[site[d]].lock # "no" => on[d] \in Contexts
    BY SiteFacts
  <1>1. CASE Refuse(c)
    <2> USE <1>1 DEF Refuse, Leave, Unlock
    <2>1. SiteInv'
      BY DEF SiteInv
    <2>2. CountInv'
      BY <1>0 DEF SiteInv, CountInv, Consistent
    <2>3. MutexInv'
      BY <1>0 DEF SiteInv, MutexInv, CountInv, Working, Consistent
    <2>4. ModeInv'
      BY <1>0 DEF SiteInv, MutexInv, ModeInv, CountInv, Working, Consistent
    <2>5. TicketInv'
      BY <1>0 DEF SiteInv, CountInv, TicketInv, Exempt, Done, Consistent
    <2>6. BufferInv' /\ ReportInv'
      BY DEF SiteInv, BufferInv, ReportInv, Done
    <2>7. QED
      BY <2>1, <2>2, <2>3, <2>4, <2>5, <2>6
  <1>2. CASE Acquire(c)
    <2> USE <1>2 DEF Acquire
    <2>1. SiteInv'
      BY DEF SiteInv
    <2>2. CountInv'
      BY <1>0 DEF SiteInv, CountInv, Consistent
    <2>3. MutexInv'
      BY <1>0 DEF SiteInv, MutexInv, CountInv, Working, Consistent
    <2>4. ModeInv'
      BY <1>0 DEF SiteInv, MutexInv, ModeInv, CountInv, Working, Consistent
    <2>5. TicketInv'
      BY <1>0 DEF SiteInv, CountInv, TicketInv, Exempt, Done, Consistent
    <2>6. BufferInv' /\ ReportInv'
      BY DEF SiteInv, BufferInv, ReportInv, Done
    <2>7. QED
      BY <2>1, <2>2, <2>3, <2>4, <2>5, <2>6
  <1>3. CASE CompleteNothing(c)
    <2> USE <1>3 DEF CompleteNothing, Give, Unlock
    <2>1. SiteInv'
      BY DEF SiteInv
    <2>2. CountInv'
      BY <1>0 DEF SiteInv, CountInv, Consistent
    <2>3. MutexInv'
      BY <1>0 DEF SiteInv, MutexInv, CountInv, Working, Consistent
    <2>4. ModeInv'
      BY <1>0 DEF SiteInv, MutexInv, ModeInv, CountInv, Working, Consistent
    <2>5. TicketInv'
      BY <1>0 DEF SiteInv, CountInv, TicketInv, Exempt, Done, Consistent
    <2>6. BufferInv' /\ ReportInv'
      BY DEF SiteInv, BufferInv, ReportInv, Done
    <2>7. QED
      BY <2>1, <2>2, <2>3, <2>4, <2>5, <2>6
  <1>4. CASE RecordNothing(c)
    <2> USE <1>4 DEF RecordNothing
    <2>1. SiteInv'
      BY DEF SiteInv
    <2>2. CountInv'
      BY <1>0 DEF SiteInv, CountInv, Consistent
    <2>3. MutexInv'
      BY <1>0 DEF SiteInv, MutexInv, CountInv, Working, Consistent
    <2>4. ModeInv'
      BY <1>0 DEF SiteInv, MutexInv, ModeInv, CountInv, Working, Consistent
    <2>5. TicketInv'
      BY <1>0 DEF SiteInv, CountInv, TicketInv, Exempt, Done, Consistent
    <2>6. BufferInv' /\ ReportInv'
      BY DEF SiteInv, BufferInv, ReportInv, Done
    <2>7. QED
      BY <2>1, <2>2, <2>3, <2>4, <2>5, <2>6
  <1>5. CASE Proceed(c)
    <2> USE <1>5 DEF Proceed
    <2>1. SiteInv'
      BY DEF SiteInv
    <2>2. CountInv'
      BY <1>0 DEF SiteInv, CountInv, Consistent
    <2>3. MutexInv'
      BY <1>0 DEF SiteInv, MutexInv, CountInv, Working, Consistent
    <2>4. ModeInv'
      BY <1>0 DEF SiteInv, MutexInv, ModeInv, CountInv, Working, Consistent
    <2>5. TicketInv'
      BY <1>0 DEF SiteInv, CountInv, TicketInv, Exempt, Done, Consistent
    <2>6. BufferInv' /\ ReportInv'
      BY DEF SiteInv, BufferInv, ReportInv, Done
    <2>7. QED
      BY <2>1, <2>2, <2>3, <2>4, <2>5, <2>6
  <1>6. CASE SelectFails(c)
    <2> USE <1>6 DEF SelectFails, Drain
    <2>1. SiteInv'
      BY DEF SiteInv
    <2>2. CountInv'
      BY <1>0 DEF SiteInv, CountInv, Consistent
    <2>3. MutexInv'
      BY <1>0 DEF SiteInv, MutexInv, CountInv, Working, Consistent
    <2>4. ModeInv'
      BY <1>0 DEF SiteInv, MutexInv, ModeInv, CountInv, Working, Consistent
    <2>5. TicketInv'
      BY <1>0 DEF SiteInv, CountInv, TicketInv, Exempt, Done, Consistent
    <2>6. BufferInv' /\ ReportInv'
      BY DEF SiteInv, BufferInv, ReportInv, Done
    <2>7. QED
      BY <2>1, <2>2, <2>3, <2>4, <2>5, <2>6
  <1>7. CASE Restore(c)
    <2> USE <1>7 DEF Restore, Restored, Stuck, Drain
    <2>1. SiteInv'
      BY DEF SiteInv
    <2>2. CountInv'
      BY <1>0 DEF SiteInv, CountInv, Consistent
    <2>3. MutexInv'
      BY <1>0 DEF SiteInv, MutexInv, CountInv, Working, Consistent
    <2>4. ModeInv'
      BY <1>0 DEF SiteInv, MutexInv, ModeInv, CountInv, Working, Consistent
    <2>5. TicketInv'
      BY <1>0 DEF SiteInv, CountInv, TicketInv, Exempt, Done, Consistent
    <2>6. BufferInv' /\ ReportInv'
      BY DEF SiteInv, BufferInv, ReportInv, Done
    <2>7. QED
      BY <2>1, <2>2, <2>3, <2>4, <2>5, <2>6
  <1>8. CASE Undo(c)
    <2> USE <1>8 DEF Undo, Restored, Stuck, Drain
    <2>1. SiteInv'
      BY DEF SiteInv
    <2>2. CountInv'
      BY <1>0 DEF SiteInv, CountInv, Consistent
    <2>3. MutexInv'
      BY <1>0 DEF SiteInv, MutexInv, CountInv, Working, Consistent
    <2>4. ModeInv'
      BY <1>0 DEF SiteInv, MutexInv, ModeInv, CountInv, Working, Consistent
    <2>5. TicketInv'
      BY <1>0 DEF SiteInv, CountInv, TicketInv, Exempt, Done, Consistent
    <2>6. BufferInv' /\ ReportInv'
      BY DEF SiteInv, BufferInv, ReportInv, Done
    <2>7. QED
      BY <2>1, <2>2, <2>3, <2>4, <2>5, <2>6
  <1>9. CASE Submit(c)
    <2> USE <1>9 DEF Submit, Enqueue, AfterSubmit, Unlock
    <2>1. SiteInv'
      BY DEF SiteInv
    <2>2. CountInv'
      BY <1>0 DEF SiteInv, CountInv, Consistent
    <2>3. MutexInv'
      BY <1>0 DEF SiteInv, MutexInv, CountInv, Working, Consistent
    <2>4. ModeInv'
      BY <1>0 DEF SiteInv, MutexInv, ModeInv, CountInv, Working, Consistent
    <2>5. TicketInv'
      BY <1>0 DEF SiteInv, CountInv, TicketInv, Exempt, Done, Consistent
    <2>6. BufferInv' /\ ReportInv'
      BY DEF SiteInv, BufferInv, ReportInv, Done
    <2>7. QED
      BY <2>1, <2>2, <2>3, <2>4, <2>5, <2>6
  <1>10. CASE SubmitFails(c)
    <2> USE <1>10 DEF SubmitFails, Enqueue, Leave, Unlock, Misled, InLibrary, InLaunch, DrainsSubmit
    <2>1. SiteInv'
      BY DEF SiteInv
    <2>2. CountInv'
      BY <1>0 DEF SiteInv, CountInv, Consistent
    <2>3. MutexInv'
      BY <1>0 DEF SiteInv, MutexInv, CountInv, Working, Consistent
    <2>4. ModeInv'
      BY <1>0 DEF SiteInv, MutexInv, ModeInv, CountInv, Working, Consistent
    <2>5. TicketInv'
      BY <1>0 DEF SiteInv, CountInv, TicketInv, Exempt, Done, Consistent
    <2>6. BufferInv' /\ ReportInv'
      BY DEF SiteInv, BufferInv, ReportInv, Done
    <2>7. QED
      BY <2>1, <2>2, <2>3, <2>4, <2>5, <2>6
  <1>11. CASE Record(c)
    <2> USE <1>11 DEF Record
    <2>1. SiteInv'
      BY DEF SiteInv
    <2>2. CountInv'
      BY <1>0 DEF SiteInv, CountInv, Consistent
    <2>3. MutexInv'
      BY <1>0 DEF SiteInv, MutexInv, CountInv, Working, Consistent
    <2>4. ModeInv'
      BY <1>0 DEF SiteInv, MutexInv, ModeInv, CountInv, Working, Consistent
    <2>5. TicketInv'
      BY <1>0 DEF SiteInv, CountInv, TicketInv, Exempt, Done, Consistent
    <2>6. BufferInv' /\ ReportInv'
      BY DEF SiteInv, BufferInv, ReportInv, Done
    <2>7. QED
      BY <2>1, <2>2, <2>3, <2>4, <2>5, <2>6
  <1>12. CASE RecordFails(c)
    <2> USE <1>12 DEF RecordFails, Drain, Leave, Unlock
    <2>1. SiteInv'
      BY DEF SiteInv
    <2>2. CountInv'
      BY <1>0 DEF SiteInv, CountInv, Consistent
    <2>3. MutexInv'
      BY <1>0 DEF SiteInv, MutexInv, CountInv, Working, Consistent
    <2>4. ModeInv'
      BY <1>0 DEF SiteInv, MutexInv, ModeInv, CountInv, Working, Consistent
    <2>5. TicketInv'
      BY <1>0 DEF SiteInv, CountInv, TicketInv, Exempt, Done, Consistent
    <2>6. BufferInv' /\ ReportInv'
      BY DEF SiteInv, BufferInv, ReportInv, Done
    <2>7. QED
      BY <2>1, <2>2, <2>3, <2>4, <2>5, <2>6
  <1>13. CASE Drained(c)
    <2> USE <1>13 DEF Drained, Leave, Unlock
    <2>1. SiteInv'
      BY DEF SiteInv
    <2>2. CountInv'
      BY <1>0 DEF SiteInv, CountInv, Consistent
    <2>3. MutexInv'
      BY <1>0 DEF SiteInv, MutexInv, CountInv, Working, Consistent
    <2>4. ModeInv'
      BY <1>0 DEF SiteInv, MutexInv, ModeInv, CountInv, Working, Consistent
    <2>5. TicketInv'
      BY <1>0 DEF SiteInv, CountInv, TicketInv, Exempt, Done, Consistent
    <2>6. BufferInv' /\ ReportInv'
      BY DEF SiteInv, BufferInv, ReportInv, Done
    <2>7. QED
      BY <2>1, <2>2, <2>3, <2>4, <2>5, <2>6
  <1>14. CASE Return(c)
    <2> USE <1>14 DEF Return, Give, Unlock
    <2>1. SiteInv'
      BY DEF SiteInv
    <2>2. CountInv'
      BY <1>0 DEF SiteInv, CountInv, Consistent
    <2>3. MutexInv'
      BY <1>0 DEF SiteInv, MutexInv, CountInv, Working, Consistent
    <2>4. ModeInv'
      BY <1>0 DEF SiteInv, MutexInv, ModeInv, CountInv, Working, Consistent
    <2>5. TicketInv'
      BY <1>0 DEF SiteInv, CountInv, TicketInv, Exempt, Done, Consistent
    <2>6. BufferInv' /\ ReportInv'
      BY DEF SiteInv, BufferInv, ReportInv, Done
    <2>7. QED
      BY <2>1, <2>2, <2>3, <2>4, <2>5, <2>6
  <1>15. QED
    BY <1>1, <1>2, <1>3, <1>4, <1>5, <1>6, <1>7, <1>8, <1>9, <1>10, <1>11, <1>12, <1>13, <1>14 DEF Advance

(* A call begins. *)
LEMMA BeginStep ==
  ASSUME IInv, TypeOK', NEW c \in Calls, NEW k \in Sites, NEW x \in ContextsFor(k),
         NEW n \in Protocol[k].counts, Begin(c, k, x, n)
  PROVE  IInv'
  <1> USE SubmitAssumption
      DEF IInv, TypeOK, callVars, contextVars, streamVars, Goto, P, OnDevice, Begin
  <1>1. SiteInv' /\ CountInv'
    BY DEF SiteInv, CountInv
  <1>2. MutexInv' /\ ModeInv'
    BY DEF SiteInv, MutexInv, ModeInv, Working
  <1>3. TicketInv'
    BY DEF SiteInv, TicketInv, Exempt, Done
  <1>4. BufferInv' /\ ReportInv'
    BY DEF SiteInv, BufferInv, ReportInv, Done
  <1>5. QED
    BY <1>1, <1>2, <1>3, <1>4

(* The caller of a call that returned, and the device. *)
LEMMA OutsideStep ==
  ASSUME IInv, TypeOK', Execute \/ \E c \in Calls : Observe(c) \/ FreeResult(c)
  PROVE  IInv'
  <1> USE DEF IInv, TypeOK, callVars, contextVars, streamVars, P, OnDevice,
          Execute, Observe, FreeResult
  <1>1. SiteInv' /\ CountInv' /\ MutexInv'
    BY DEF SiteInv, CountInv, MutexInv
  <1>2. ModeInv'
    BY DEF ModeInv
  <1>3. TicketInv'
    BY DEF TicketInv, Exempt, Done
  <1>4. BufferInv' /\ ReportInv'
    BY DEF TicketInv, BufferInv, ReportInv, Done
  <1>5. QED
    BY <1>1, <1>2, <1>3, <1>4

(* Every step preserves the strengthened invariant. *)
LEMMA Step == IInv /\ [Next]_vars => IInv'
  <1> SUFFICES ASSUME IInv, [Next]_vars PROVE IInv'
    OBVIOUS
  <1>1. TypeOK'
    BY TypeStep DEF IInv
  <1>2. CASE UNCHANGED vars
    BY <1>2 DEF vars, callVars, contextVars, streamVars, IInv, TypeOK, SiteInv,
       CountInv, MutexInv, ModeInv, TicketInv, BufferInv, ReportInv, P, OnDevice,
       Exempt, Done
  <1>3. QED
    BY <1>1, <1>2, BeginStep, CallStep, OutsideStep DEF Next

-----------------------------------------------------------------------------
(* In every reachable state mutexes, modes, tickets and buffers agree with *)
(* where the calls are.                                                    *)
THEOREM Invariance == Spec => []IInv
  <1>1. Init => IInv
    BY SubmitAssumption DEF Init, IInv, TypeOK, Steps, Owners, SiteInv, CountInv,
       MutexInv, ModeInv, Working, TicketInv, BufferInv, ReportInv
  <1>2. QED
    BY <1>1, Step, PTL DEF Spec

(* Every variable keeps its type: no call enqueues more than it has to.    *)
THEOREM TypeCorrect == Spec => []TypeOK
  <1>1. IInv => TypeOK
    BY DEF IInv
  <1>2. QED
    BY <1>1, Invariance, PTL

(* No cuBLAS or cuSPARSE call runs in the pointer mode of another: the     *)
(* handle is switched only under its mutex, and switched back on the error *)
(* paths before the mutex is given up.                                     *)
THEOREM ModesAgree == Spec => []SubmitsInItsMode
  <1>1. ASSUME IInv, NEW c \in Calls, InLibrary(c), on[c] \notin stuck
        PROVE  mode[on[c]] = IF OnDevice(c) THEN "device" ELSE "host"
    <2>1. site[c] # None /\ on[c] \in Contexts /\ mutex[on[c]] = c
      BY <1>1, SiteFacts DEF IInv, SiteInv, MutexInv, Working, InLibrary,
         Consistent
    <2>2. CASE OnDevice(c)
      BY <1>1, <2>2 DEF IInv, ModeInv, InLibrary
    <2>3. CASE ~OnDevice(c)
      <3>1. ASSUME mode[on[c]] = "device" PROVE FALSE
        <4>1. PICK d \in Calls : /\ on[d] = on[c] /\ OnDevice(d)
                                 /\ pc[d] \in {"submit", "restore", "undo"}
          BY <1>1, <2>1, <3>1 DEF IInv, ModeInv
        <4>2. mutex[on[d]] = d
          BY <1>1, <4>1, SiteFacts DEF IInv, SiteInv, MutexInv, Working,
             OnDevice, Consistent
        <4>3. QED
          BY <2>1, <2>3, <4>1, <4>2
      <3>2. QED
        BY <1>1, <2>1, <2>3, <3>1 DEF IInv, TypeOK
    <2>4. QED
      BY <2>2, <2>3
  <1>2. IInv => SubmitsInItsMode
    BY <1>1 DEF SubmitsInItsMode
  <1>3. QED
    BY <1>2, Invariance, PTL

(* Whatever fails, a buffer that a clone or a generation allocated is not  *)
(* freed under a kernel: the operations that allocate drain the stream     *)
(* themselves when RecordCudaEvent could not.                              *)
THEOREM BuffersSafe == Spec => []BuffersOutliveWork
  <1>1. ASSUME IInv, NEW c \in Calls, buffers[c] = "freed" PROVE Done(c)
    <2>1. site[c] # None /\ P(c).recovers
      BY <1>1, SiteFacts DEF IInv, BufferInv, Consistent
    <2>2. QED
      BY <1>1, <2>1 DEF IInv, BufferInv, TicketInv, ReportInv, Exempt
  <1>2. IInv => BuffersOutliveWork
    BY <1>1 DEF BuffersOutliveWork
  <1>3. QED
    BY <1>2, Invariance, PTL

(* The calls of an operation whose device guard cannot fail under it, or   *)
(* that recovers when it does, leave nothing on the stream when they fail. *)
RecoveredCallLeavesNothing ==
  \A c \in Calls : pc[c] = "failed" /\ ~Exempt(c) => Done(c)

THEOREM RecoveredFailureSafe == Spec => []RecoveredCallLeavesNothing
  <1>1. IInv => RecoveredCallLeavesNothing
    BY DEF IInv, TicketInv, RecoveredCallLeavesNothing
  <1>2. QED
    BY <1>1, Invariance, PTL

(* The operations that may fail to select the device after their work was  *)
(* enqueued all recover: where this is false, a call that returned a       *)
(* failure may have left its work behind.                                  *)
GuardedSitesRecover == \A k \in GuardFailsAt : Protocol[k].recovers

(* Then no failed call has a command left on the stream. *)
THEOREM FailureSafe ==
  ASSUME GuardedSitesRecover
  PROVE  Spec => []FailedCallLeavesNothing
  <1>1. \A c \in Calls : ~Exempt(c)
    BY DEF Exempt, P, GuardedSitesRecover
  <1>2. IInv => FailedCallLeavesNothing
    BY <1>1 DEF IInv, TicketInv, FailedCallLeavesNothing
  <1>3. QED
    BY <1>2, Invariance, PTL

-----------------------------------------------------------------------------
(* The refinement. A step changes what the caller of one call knows, or    *)
(* whether one call has commands to run, as a step of AsyncCall does.      *)

(* Initially no call of the abstract system has begun. *)
LEMMA AsyncInit == Init => Async!Init
  BY DEF Init, Async!Init, Phase, PhaseOf, Pending, Done, Running

(* What a caller knows follows from where its call is. *)
LEMMA PhaseFacts ==
  ASSUME IInv, NEW c \in Calls
  PROVE  /\ pc[c] = "idle" => Phase[c] = "idle"
         /\ pc[c] \in Running => Phase[c] = "running"
         /\ pc[c] = "returned" /\ c \notin reported => Phase[c] = "returned"
  BY DEF IInv, TypeOK, Phase, PhaseOf, Running, Steps

(* A step of call c changes what callers know of c alone. *)
LEMMA PhaseMoves ==
  ASSUME IInv, NEW c \in Calls, pc[c] \in Running \cup {"idle"}, NEW p \in Steps,
         pc' = [pc EXCEPT ![c] = p], reported' = reported
  PROVE  /\ p = "failed" => Phase' = [Phase EXCEPT ![c] = "failed"]
         /\ p = "returned" => Phase' = [Phase EXCEPT ![c] = "returned"]
         /\ p \in Running => Phase' = [Phase EXCEPT ![c] = "running"]
         /\ p \in Running /\ pc[c] \in Running => Phase' = Phase
  <1>0. c \notin reported
    BY DEF IInv, ReportInv, Running
  <1>1. ASSUME NEW d \in Calls, d # c PROVE Phase'[d] = Phase[d]
    BY <1>1 DEF IInv, TypeOK, Phase, PhaseOf
  <1>2. /\ p = "failed" => Phase'[c] = "failed"
        /\ p = "returned" => Phase'[c] = "returned"
        /\ p \in Running => Phase'[c] = "running"
    BY <1>0 DEF IInv, TypeOK, Phase, PhaseOf, Running, Steps
  <1>3. pc[c] \in Running => Phase[c] = "running"
    BY PhaseFacts
  <1>4. QED
    BY <1>1, <1>2, <1>3 DEF Phase

(* A step of a call that enqueues nothing of its work is Start, Fail,      *)
(* Return or invisible.                                                    *)
LEMMA QuietStep ==
  ASSUME IInv, NEW c \in Calls, pc[c] \in Running \cup {"idle"}, NEW p \in Steps \ {"idle"},
         pc' = [pc EXCEPT ![c] = p], UNCHANGED <<last, finished, reported>>,
         p = "failed" => Done(c)
  PROVE  [Async!Next]_<<Phase, Pending>>
  <1>1. Pending' = Pending /\ (p = "failed" => c \notin Pending)
    BY DEF Pending, Done
  <1>2. CASE p \in Running /\ pc[c] \in Running
    BY <1>1, <1>2, PhaseMoves
  <1>3. CASE p \in Running /\ pc[c] = "idle"
    <2>1. Async!Start(c)
      BY <1>1, <1>3, PhaseMoves, PhaseFacts DEF Async!Start, Async!Enter
    <2>2. QED
      BY <2>1 DEF Async!Next
  <1>4. CASE p = "failed"
    <2>1. Async!Fail(c)
      BY <1>1, <1>4, PhaseMoves, PhaseFacts DEF Async!Fail, Async!Enter
    <2>2. QED
      BY <2>1 DEF Async!Next
  <1>5. CASE p = "returned"
    <2>1. Async!Return(c)
      BY <1>1, <1>5, PhaseMoves, PhaseFacts DEF Async!Return, Async!Enter
    <2>2. QED
      BY <2>1 DEF Async!Next
  <1>6. QED
    BY <1>2, <1>3, <1>4, <1>5 DEF Running, Steps

(* A step that enqueues a command of the call, which runs on. *)
LEMMA EnqueueStep ==
  ASSUME IInv, NEW c \in Calls, pc[c] \in Running, NEW p \in Running,
         pc' = [pc EXCEPT ![c] = p], Enqueue(c), reported' = reported
  PROVE  [Async!Next]_<<Phase, Pending>>
  <1>1. Phase' = Phase /\ Phase[c] = "running"
    BY PhaseMoves, PhaseFacts DEF Running
  <1>2. Pending' = Pending \cup {c}
    BY DEF Enqueue, Pending, Done, IInv, TypeOK, TicketInv
  <1>3. Async!Enqueue(c)
    BY <1>1, <1>2 DEF Async!Enqueue
  <1>4. QED
    BY <1>3 DEF Async!Next

(* Every step of a call is a step of AsyncCall, or invisible to it. *)
LEMMA AsyncCallStep ==
  ASSUME GuardedSitesRecover, IInv, IInv', NEW c \in Calls,
         \/ Refuse(c) \/ Advance(c)
         \/ \E k \in Sites : \E x \in ContextsFor(k) : \E n \in Protocol[k].counts :
              Begin(c, k, x, n)
  PROVE  [Async!Next]_<<Phase, Pending>>
  <1> USE DEF callVars, contextVars, streamVars, Goto
  <1>0. pc'[c] = "failed" => Done(c)'
    BY DEF Exempt, P, GuardedSitesRecover, IInv, TicketInv
  <1>1. CASE Refuse(c) \/ Drained(c)
    BY <1>0, <1>1, QuietStep DEF Refuse, Drained, Leave, Running, Steps, Done,
       IInv, TypeOK
  <1>2. CASE Acquire(c) \/ Proceed(c) \/ SelectFails(c) \/ Restore(c) \/ Undo(c)
    BY <1>2, QuietStep DEF Acquire, Proceed, SelectFails, Restore, Undo, Drain,
       Running, Steps
  <1>3. CASE CompleteNothing(c) \/ RecordNothing(c) \/ Record(c) \/ Return(c)
    BY <1>3, QuietStep DEF CompleteNothing, RecordNothing, Record, Return, Give,
       Running, Steps
  <1>4. CASE Submit(c)
    BY <1>4, EnqueueStep DEF Submit, AfterSubmit, Running, Steps
  <1>5. CASE SubmitFails(c)
    <2>1. CASE UNCHANGED <<last, finished>>
      BY <1>0, <1>5, <2>1, QuietStep DEF SubmitFails, Leave, Running, Steps, Done,
         IInv, TypeOK
    <2>2. CASE Enqueue(c)
      <3>1. pc'[c] # "failed"
        BY <1>0, <2>2 DEF Enqueue, Done, IInv, TypeOK, TicketInv
      <3>2. PICK p \in {"undo", "drain"} : pc' = [pc EXCEPT ![c] = p]
        BY <1>5, <3>1 DEF SubmitFails, Leave, IInv, TypeOK
      <3>3. QED
        BY <1>5, <2>2, <3>2, EnqueueStep DEF SubmitFails, Running, Steps
    <2>3. QED
      BY <1>5, <2>1, <2>2 DEF SubmitFails
  <1>6. CASE RecordFails(c)
    BY <1>0, <1>6, QuietStep DEF RecordFails, Drain, Leave, Running, Steps, Done,
       IInv, TypeOK
  <1>7. ASSUME NEW k \in Sites, NEW x \in ContextsFor(k), NEW n \in Protocol[k].counts,
               Begin(c, k, x, n)
        PROVE  [Async!Next]_<<Phase, Pending>>
    <2>1. PICK p \in {"ready", "lock"} : pc' = [pc EXCEPT ![c] = p]
      BY <1>7 DEF Begin
    <2>2. QED
      BY <1>7, <2>1, QuietStep DEF Begin, Running, Steps
  <1>8. QED
    BY <1>1, <1>2, <1>3, <1>4, <1>5, <1>6, <1>7 DEF Advance

(* The device ends the work of one call at most with each command. *)
LEMMA AsyncDeviceStep ==
  ASSUME IInv, Execute
  PROVE  [Async!Next]_<<Phase, Pending>>
  <1>1. Phase' = Phase
    BY DEF Execute, callVars, Phase, PhaseOf
  <1>2. \A c \in Calls : Done(c) => Done(c)'
    BY DEF IInv, TypeOK, Execute, Done, callVars
  <1>3. \A c, d \in Calls :
          c \in Pending \ Pending' /\ d \in Pending \ Pending' => c = d
    BY DEF IInv, TypeOK, TicketInv, Execute, Pending, Done, callVars
  <1>4. CASE Pending' = Pending
    BY <1>1, <1>4
  <1>5. CASE Pending' # Pending
    <2>1. PICK c \in Calls : c \in Pending \ Pending'
      BY <1>2, <1>5 DEF Pending
    <2>2. Pending' = Pending \ {c}
      BY <1>2, <1>3, <2>1 DEF Pending
    <2>3. Async!Finish(c)
      BY <1>1, <2>1, <2>2 DEF Async!Finish
    <2>4. QED
      BY <2>3 DEF Async!Next
  <1>6. QED
    BY <1>4, <1>5

(* Observing completion is Report, the first time. *)
LEMMA AsyncCallerStep ==
  ASSUME IInv, IInv', NEW c \in Calls, Observe(c) \/ FreeResult(c)
  PROVE  [Async!Next]_<<Phase, Pending>>
  <1>1. Pending' = Pending /\ pc' = pc
    BY DEF Observe, FreeResult, callVars, streamVars, Pending, Done
  <1>2. CASE reported' = reported
    BY <1>1, <1>2 DEF Phase, PhaseOf
  <1>3. CASE reported' # reported
    <2>1. /\ reported' = reported \cup {c} /\ c \notin reported
          /\ pc[c] = "returned" /\ Done(c)'
      BY <1>3 DEF Observe, FreeResult, IInv, ReportInv
    <2>2. Phase[c] = "returned"
      BY <2>1, PhaseFacts
    <2>3. Phase' = [Phase EXCEPT ![c] = "reported"]
      BY <1>1, <2>1 DEF Phase, PhaseOf, Running, Steps
    <2>4. Async!Report(c)
      BY <1>1, <2>1, <2>2, <2>3 DEF Async!Report, Async!Enter, Pending
    <2>5. QED
      BY <2>4 DEF Async!Next
  <1>4. QED
    BY <1>2, <1>3

(* The facets implement AsyncCall if the guarded operations recover: a     *)
(* failed call has nothing pending, and completion is not observed early.  *)
THEOREM Refinement ==
  ASSUME GuardedSitesRecover
  PROVE  Spec => ImplementsAsyncCall
  <1>1. ASSUME IInv, IInv', [Next]_vars
        PROVE  [Async!Next]_<<Phase, Pending>>
    <2>1. CASE UNCHANGED vars
      BY <2>1 DEF vars, callVars, streamVars, Phase, PhaseOf, Pending, Done
    <2>2. QED
      BY <1>1, <2>1, AsyncCallStep, AsyncCallerStep, AsyncDeviceStep DEF Next
  <1>2. QED
    BY <1>1, AsyncInit, Invariance, PTL
    DEF Spec, ImplementsAsyncCall, Async!Spec, Async!vars

=============================================================================

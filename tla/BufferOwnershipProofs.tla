----------------------- MODULE BufferOwnershipProofs ------------------------
(***************************************************************************)
(* Proofs about BufferOwnership, for any number of buffers, resources and  *)
(* addresses. The invariant is what TLC checks and one conjunct more: that an  *)
(* address is returned as it was requested needs that its owner describes  *)
(* it, which needs that no other owner has returned it; and a fresh address *)
(* belongs to nobody because the ones that were lost stay out of use.       *)
(***************************************************************************)
EXTENDS BufferOwnership, TLAPS

(* An address that a resource has failed to free is not handed out again.  *)
LostStaysOut == \A p \in lost : heap[p].resource \in CudaResources

IInv == TypeOK /\ OwnedOnce /\ NoLeak /\ ReturnedAsRequested /\ LostStaysOut

(* A free address is not described by any request. *)
LEMMA FreeFacts ==
  ASSUME NEW r \in Resources, NEW n, NEW a
  PROVE  Request(r, n, a) # Free /\ Free.resource = None
BY BufferAssumption DEF Request, Free

(* Giving up an object o that describes what it owns: its address is freed *)
(* or lost, and nothing else changes.                                       *)
LEMMA ReleaseFacts ==
  ASSUME TypeOK, ReturnedAsRequested, NEW o \in Members, Describes(o), Release(o)
  PROVE  /\ mismatched' = FALSE
         /\ lost' \in SUBSET Blocks
         /\ heap' \in [Blocks -> Requests \cup {Free}]
         /\ lost \subseteq lost'
         /\ \A p \in Blocks : p # o.data => heap'[p] = heap[p] /\ (p \in lost' <=> p \in lost)
         /\ o.data # None =>
              \/ heap'[o.data] = Free /\ o.data \notin lost'
              \/ /\ o.data \in lost' /\ heap'[o.data] = heap[o.data]
                 /\ heap[o.data].resource \in CudaResources
<1>1. CASE o.data = None
  BY <1>1 DEF Release, TypeOK, ReturnedAsRequested
<1>2. CASE o.data # None
  <2>1. o.data \in Blocks /\ o.resource # None
    BY <1>2 DEF Describes, Members
  <2>2. Deallocate(o)
    BY <1>2, <2>1 DEF Release
  <2>3. heap[o.data] = Request(o.resource, o.size, o.alignment)
    BY <1>2 DEF Describes
  <2>4. mismatched' = FALSE
    BY <2>2, <2>3 DEF Deallocate, ReturnedAsRequested, TypeOK
  <2>5. heap[o.data].resource = o.resource
    BY <2>3 DEF Request
  <2>6. CASE heap' = [heap EXCEPT ![o.data] = Free] /\ UNCHANGED lost
    BY <1>2, <2>1, <2>4, <2>6 DEF TypeOK, Describes
  <2>7. CASE o.resource \in CudaResources /\ lost' = lost \cup {o.data} /\ UNCHANGED heap
    BY <2>1, <2>4, <2>5, <2>7 DEF TypeOK
  <2>8. QED
    BY <2>2, <2>6, <2>7 DEF Deallocate
<1>3. QED
  BY <1>1, <1>2

(* Every object is in Members and describes what it owns. *)
LEMMA ObjectFacts ==
  ASSUME IInv, NEW b \in Buffers
  PROVE  /\ buffer[b] \in Members /\ Describes(buffer[b])
         /\ fresh[b] \in Members /\ Describes(fresh[b])
BY DEF IInv, TypeOK, OwnedOnce

(* The invariant holds at first. *)
LEMMA InitInv == Init => IInv
<1> SUFFICES ASSUME Init PROVE IInv
  OBVIOUS
<1>1. Empty \in Members /\ Empty.data = None
  BY DEF Empty, Owner, Members
<1>2. TypeOK
  BY <1>1 DEF Init, TypeOK
<1>3. OwnedOnce
  BY <1>1 DEF Init, OwnedOnce, Describes
<1>4. NoLeak
  BY DEF Init, NoLeak
<1>5. QED
  BY <1>2, <1>3, <1>4 DEF IInv, Init, ReturnedAsRequested, LostStaysOut

(* An allocation that ends without storage, or has just got some. *)
LEMMA AllocateStep ==
  ASSUME IInv, NEW b \in Buffers, NEW r \in Resources, NEW n \in Sizes,
         NEW a \in Alignments,
         \/ AllocateNothing(b, r, n, a)
         \/ \E p \in Blocks : AllocateBlock(b, r, n, a, p)
  PROVE  IInv'
<1> USE DEF IInv
<1>1. CASE AllocateNothing(b, r, n, a)
  <2>1. Owner(r, None, n, a) \in Members /\ Owner(r, None, n, a).data = None
    BY DEF Owner, Members
  <2>2. buffer[b].data = None
    BY <1>1 DEF AllocateNothing, TypeOK, Empty, Owner
  <2>3. TypeOK'
    BY <1>1, <2>1 DEF AllocateNothing, TypeOK
  <2>4. OwnedOnce'
    BY <1>1, <2>1 DEF AllocateNothing, TypeOK, OwnedOnce, Describes
  <2>5. NoLeak'
    BY <1>1, <2>2 DEF AllocateNothing, TypeOK, NoLeak
  <2>6. QED
    BY <1>1, <2>3, <2>4, <2>5 DEF AllocateNothing, ReturnedAsRequested, LostStaysOut
<1>2. ASSUME NEW p \in Blocks, AllocateBlock(b, r, n, a, p)
      PROVE  IInv'
  <2> DEFINE o == Owner(r, p, n, a)
  <2>1. o \in Members /\ o.data = p /\ o # Empty /\ o.resource = r
        /\ Request(o.resource, o.size, o.alignment) = Request(r, n, a)
    BY BufferAssumption DEF Owner, Members, Empty
  <2>2. heap[p] = Free /\ heap'[p] = Request(r, n, a)
        /\ heap'[p] \in Requests /\ heap'[p] # Free /\ r # None
    BY <1>2, FreeFacts, BufferAssumption DEF AllocateBlock, TypeOK, Request, Requests
  <2>3. \A c \in Buffers : buffer[c].data # p /\ fresh[c].data # p
    <3> SUFFICES ASSUME NEW c \in Buffers PROVE buffer[c].data # p /\ fresh[c].data # p
      OBVIOUS
    <3>1. p # None
      BY BufferAssumption
    <3>2. Free.resource = None
      BY DEF Free
    <3>3. Describes(buffer[c]) /\ Describes(fresh[c])
      BY ObjectFacts
    <3>4. QED
      BY <3>1, <3>2, <3>3, <2>2 DEF Describes, Request
  <2>4. p \notin lost
    BY <2>2, BufferAssumption DEF LostStaysOut, Free
  <2>5. TypeOK'
    BY <1>2, <2>1, <2>2 DEF AllocateBlock, TypeOK
  <2>6. OwnedOnce'
    BY <1>2, <2>1, <2>2, <2>3, <2>4, ObjectFacts DEF AllocateBlock, TypeOK, OwnedOnce, Describes
  <2>7. NoLeak'
    BY <1>2, <2>1, <2>2 DEF AllocateBlock, TypeOK, NoLeak
  <2>8. QED
    BY <1>2, <2>4, <2>5, <2>6, <2>7 DEF AllocateBlock, ReturnedAsRequested, LostStaysOut, TypeOK
<1>3. QED
  BY <1>1, <1>2

(* Storage that changes hands, from a call of Allocate to the buffer it    *)
(* returns or from one buffer to a new one.                                 *)
LEMMA HandOverStep ==
  ASSUME IInv, NEW b \in Buffers, NEW s \in Buffers, Adopt(b) \/ MoveConstruct(b, s)
  PROVE  IInv'
<1> USE DEF IInv
<1>0. Empty \in Members /\ Empty.data = None
  BY DEF Empty, Owner, Members
<1>1. CASE Adopt(b)
  <2>1. TypeOK'
    BY <1>0, <1>1 DEF Adopt, TypeOK
  <2>2. OwnedOnce'
    BY <1>0, <1>1 DEF Adopt, TypeOK, OwnedOnce, Describes
  <2>3. buffer[b].data = None
    BY <1>0, <1>1 DEF Adopt, TypeOK
  <2>4. NoLeak'
    BY <1>0, <1>1, <2>3 DEF Adopt, TypeOK, NoLeak
  <2>5. QED
    BY <1>1, <2>1, <2>2, <2>4 DEF Adopt, ReturnedAsRequested, LostStaysOut
<1>2. CASE MoveConstruct(b, s)
  <2>1. TypeOK'
    BY <1>0, <1>2 DEF MoveConstruct, TypeOK
  <2>2. OwnedOnce'
    BY <1>0, <1>2 DEF MoveConstruct, TypeOK, OwnedOnce, Describes
  <2>3. buffer[b].data = None /\ b # s
    BY <1>0, <1>2 DEF MoveConstruct, TypeOK
  <2>4. NoLeak'
    BY <1>0, <1>2, <2>3 DEF MoveConstruct, TypeOK, NoLeak
  <2>5. QED
    BY <1>2, <2>1, <2>2, <2>4 DEF MoveConstruct, ReturnedAsRequested, LostStaysOut
<1>3. QED
  BY <1>1, <1>2

(* Storage that is given up, and perhaps replaced by the source's.         *)
LEMMA GiveUpStep ==
  ASSUME IInv, NEW b \in Buffers, NEW s \in Buffers,
         Refuse(b) \/ MoveAssign(b, s) \/ Reset(b) \/ Destroy(b)
  PROVE  IInv'
<1> USE DEF IInv
<1>0. Empty \in Members /\ Empty.data = None
  BY DEF Empty, Owner, Members
<1>1. CASE Refuse(b)
  <2> DEFINE o == fresh[b]
  <2>1. o \in Members /\ Describes(o)
    BY ObjectFacts
  <2>2. Release(o)
    BY <1>1, <2>1 DEF Refuse, Release, Describes
  <2>3. /\ mismatched' = FALSE
        /\ lost' \in SUBSET Blocks
        /\ heap' \in [Blocks -> Requests \cup {Free}]
        /\ lost \subseteq lost'
        /\ \A p \in Blocks : p # o.data => heap'[p] = heap[p] /\ (p \in lost' <=> p \in lost)
        /\ o.data # None =>
             \/ heap'[o.data] = Free /\ o.data \notin lost'
             \/ /\ o.data \in lost' /\ heap'[o.data] = heap[o.data]
                /\ heap[o.data].resource \in CudaResources
    BY <2>1, <2>2, ReleaseFacts
  <2>4. TypeOK'
    BY <1>0, <1>1, <2>3 DEF Refuse, TypeOK
  <2>5. \A c \in Buffers : buffer[c].data # None => buffer[c].data # o.data
    BY DEF OwnedOnce
  <2>6. \A c \in Buffers : c # b /\ fresh[c].data # None => fresh[c].data # o.data
    BY DEF OwnedOnce
  <2>7. OwnedOnce'
    BY <1>0, <1>1, <2>3, <2>5, <2>6 DEF Refuse, TypeOK, OwnedOnce, Describes, Members
  <2>8. LostStaysOut' /\ NoLeak'
    BY <1>0, <1>1, <2>3, <2>1 DEF Refuse, TypeOK, NoLeak, LostStaysOut, Members, Free
  <2>9. QED
    BY <2>3, <2>4, <2>7, <2>8 DEF ReturnedAsRequested
<1>2. ASSUME b \in exists, Release(buffer[b]), UNCHANGED fresh,
             \/ MoveAssign(b, s) /\ b # s
             \/ Reset(b)
             \/ Destroy(b)
      PROVE  IInv'
  <2> DEFINE o == buffer[b]
  <2>1. o \in Members /\ Describes(o)
    BY ObjectFacts
  <2>2. /\ mismatched' = FALSE
        /\ lost' \in SUBSET Blocks
        /\ heap' \in [Blocks -> Requests \cup {Free}]
        /\ lost \subseteq lost'
        /\ \A p \in Blocks : p # o.data => heap'[p] = heap[p] /\ (p \in lost' <=> p \in lost)
        /\ o.data # None =>
             \/ heap'[o.data] = Free /\ o.data \notin lost'
             \/ /\ o.data \in lost' /\ heap'[o.data] = heap[o.data]
                /\ heap[o.data].resource \in CudaResources
    BY <1>2, <2>1, ReleaseFacts
  <2>3. \A c \in Buffers : /\ fresh[c].data # None => fresh[c].data # o.data
                           /\ c # b /\ buffer[c].data # None => buffer[c].data # o.data
    BY DEF OwnedOnce
  <2>4. CASE MoveAssign(b, s) /\ b # s
    <3>1. TypeOK'
      BY <1>0, <1>2, <2>2, <2>4 DEF MoveAssign, TypeOK
    <3>2. OwnedOnce'
      BY <1>0, <1>2, <2>2, <2>3, <2>4 DEF MoveAssign, TypeOK, OwnedOnce, Describes, Members
    <3>3. NoLeak'
      BY <1>0, <1>2, <2>1, <2>2, <2>4 DEF MoveAssign, TypeOK, NoLeak, LostStaysOut, Members
    <3>4. LostStaysOut'
      BY <2>1, <2>2, BufferAssumption DEF TypeOK, LostStaysOut, Members
    <3>5. QED
      BY <2>2, <3>1, <3>2, <3>3, <3>4 DEF ReturnedAsRequested
  <2>5. CASE Reset(b) \/ Destroy(b)
    <3>0. buffer' = [buffer EXCEPT ![b] = Empty]
      BY <2>5 DEF Reset, Destroy
    <3>1. TypeOK'
      BY <1>0, <1>2, <2>2, <2>5 DEF Reset, Destroy, TypeOK
    <3>2. OwnedOnce'
      BY <1>0, <1>2, <2>2, <2>3, <3>0 DEF TypeOK, OwnedOnce, Describes, Members
    <3>3. NoLeak'
      BY <1>0, <1>2, <2>1, <2>2, <3>0 DEF TypeOK, NoLeak, LostStaysOut, Members
    <3>4. LostStaysOut'
      BY <2>1, <2>2, BufferAssumption DEF TypeOK, LostStaysOut, Members
    <3>5. QED
      BY <2>2, <3>1, <3>2, <3>3, <3>4 DEF ReturnedAsRequested
  <2>6. QED
    BY <1>2, <2>4, <2>5
<1>3. CASE MoveAssign(b, s) /\ b = s
  BY <1>3 DEF MoveAssign, TypeOK, OwnedOnce, Describes, NoLeak, ReturnedAsRequested, LostStaysOut
<1>4. QED
  BY <1>1, <1>2, <1>3 DEF MoveAssign, Reset, Destroy

(* Every step preserves the invariant. *)
LEMMA StepInv == IInv /\ [Next]_vars => IInv'
<1> SUFFICES ASSUME IInv, [Next]_vars PROVE IInv'
  OBVIOUS
<1>1. CASE Next
  BY <1>1, AllocateStep, HandOverStep, GiveUpStep DEF Next
<1>2. CASE UNCHANGED vars
  BY <1>2 DEF vars, IInv, TypeOK, OwnedOnce, Describes, NoLeak, ReturnedAsRequested,
              LostStaysOut
<1>3. QED
  BY <1>1, <1>2

(* The inductive invariant holds in every reachable state. *)
THEOREM Invariance == Spec => []IInv
BY InitInv, StepInv, PTL DEF Spec

(* Members stay within their types, and an object that was not constructed *)
(* or was destroyed owns nothing.                                           *)
THEOREM TypeCorrect == Spec => []TypeOK
<1>1. IInv => TypeOK
  BY DEF IInv
<1>2. QED
  BY <1>1, Invariance, PTL

(* Moves, resets and destructions never leave an address in two hands.     *)
THEOREM SingleOwner == Spec => []OwnedOnce
<1>1. IInv => OwnedOnce
  BY DEF IInv
<1>2. QED
  BY <1>1, Invariance, PTL

(* No path of Buffer, its failing ones included, forgets an allocation.    *)
THEOREM LeakFree == Spec => []NoLeak
<1>1. IInv => NoLeak
  BY DEF IInv
<1>2. QED
  BY <1>1, Invariance, PTL

(* A resource gets back what it handed out, once and as it was requested.  *)
THEOREM ExactReturn == Spec => []ReturnedAsRequested
<1>1. IInv => ReturnedAsRequested
  BY DEF IInv
<1>2. QED
  BY <1>1, Invariance, PTL

=============================================================================

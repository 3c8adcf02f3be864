-------------------------- MODULE BufferOwnership ---------------------------
(***************************************************************************)
(* Buffer and MemoryResource (include/asc/core/memory.h, src/core/memory.cc,*)
(* the CUDA resource of src/core/cuda/runtime.cc): a move-only owner of one *)
(* allocation, which it must return exactly once to the resource it came   *)
(* from, with the size and the alignment it was requested with.            *)
(*                                                                          *)
(* A resource is a virtual interface: Buffer::Allocate does not trust what  *)
(* a custom one returns.                                                    *)
(***************************************************************************)
EXTENDS Naturals

CONSTANTS
  Buffers,        \* Buffer objects
  Resources,      \* MemoryResource objects
  CudaResources,  \* the ones that must select a device to free memory
  Blocks,         \* addresses
  Sizes,          \* byte counts requested
  Alignments,     \* alignments requested
  None

ASSUME BufferAssumption ==
  /\ CudaResources \subseteq Resources
  /\ Sizes \subseteq Nat
  /\ None \notin Resources /\ None \notin Blocks

VARIABLES
  exists,      \* the Buffer objects that have been constructed
  buffer,      \* their four members
  fresh,       \* what a call of Buffer::Allocate got from the resource
  heap,        \* the request each address was handed out for, or Free
  lost,        \* addresses that Deallocate was given and did not free
  mismatched   \* a Deallocate was given what the resource did not hand out

vars == <<exists, buffer, fresh, heap, lost, mismatched>>

Owner(r, p, n, a) == [resource |-> r, data |-> p, size |-> n, alignment |-> a]
Empty == Owner(None, None, 0, 0)

Request(r, n, a) == [resource |-> r, size |-> n, alignment |-> a]
Requests == [resource : Resources, size : Sizes, alignment : Alignments]
Free == [resource |-> None, size |-> 0, alignment |-> 0]

Members == [resource  : Resources \cup {None},
            data      : Blocks \cup {None},
            size      : Sizes \cup {0},
            alignment : Alignments \cup {0}]

Init ==
  /\ exists = {}
  /\ buffer = [b \in Buffers |-> Empty]
  /\ fresh = [b \in Buffers |-> Empty]
  /\ heap = [p \in Blocks |-> Free]
  /\ lost = {}
  /\ mismatched = FALSE

-----------------------------------------------------------------------------

(* resource->Deallocate(data, size, alignment) with the members o. *)
Deallocate(o) ==
  /\ mismatched' = (mismatched \/ heap[o.data] # Request(o.resource, o.size, o.alignment))
  /\ \/ heap' = [heap EXCEPT ![o.data] = Free] /\ UNCHANGED lost
     \/ /\ o.resource \in CudaResources
        /\ lost' = lost \cup {o.data} /\ UNCHANGED heap

(* What Reset does with the members o before it clears them. *)
Release(o) ==
  IF o.resource # None /\ o.data # None
  THEN Deallocate(o) ELSE UNCHANGED <<heap, lost, mismatched>>

-----------------------------------------------------------------------------

(* Buffer::Allocate(r, n, a) constructs b. Without storage it is done: with *)
(* an error, or with the valid buffer of no bytes.                          *)
AllocateNothing(b, r, n, a) ==
  /\ b \notin exists /\ fresh[b] = Empty /\ n = 0
  /\ exists' = exists \cup {b}
  /\ buffer' = [buffer EXCEPT ![b] = Owner(r, None, n, a)]
  /\ UNCHANGED <<fresh, heap, lost, mismatched>>

(* The resource returns storage at p; a custom one may do so for a request  *)
(* of no bytes, which the CUDA resource answers without an allocation.      *)
AllocateBlock(b, r, n, a, p) ==
  /\ b \notin exists /\ fresh[b] = Empty /\ heap[p] = Free
  /\ n = 0 => r \notin CudaResources
  /\ heap' = [heap EXCEPT ![p] = Request(r, n, a)]
  /\ fresh' = [fresh EXCEPT ![b] = Owner(r, p, n, a)]
  /\ UNCHANGED <<exists, buffer, lost, mismatched>>

Adopt(b) ==
  /\ fresh[b].data # None /\ fresh[b].size # 0
  /\ exists' = exists \cup {b}
  /\ buffer' = [buffer EXCEPT ![b] = fresh[b]]
  /\ fresh' = [fresh EXCEPT ![b] = Empty]
  /\ UNCHANGED <<heap, lost, mismatched>>

(* Seeded fault: a misaligned address is an error and nothing more. *)
RefuseKept(b) ==
  /\ fresh[b].data # None /\ fresh[b].resource \notin CudaResources
  /\ fresh' = [fresh EXCEPT ![b] = Empty]
  /\ UNCHANGED <<exists, buffer, heap, lost, mismatched>>

(* Storage for no bytes, or that a custom resource has misaligned (the CUDA *)
(* resource checks that itself), goes back before the error is returned.    *)
Refuse(b) ==
  /\ fresh[b].data # None /\ fresh[b].resource \notin CudaResources
  /\ Deallocate(fresh[b])
  /\ fresh' = [fresh EXCEPT ![b] = Empty]
  /\ UNCHANGED <<exists, buffer>>

-----------------------------------------------------------------------------

(* Seeded fault: the source keeps its members. *)
MoveConstructCopies(b, s) ==
  /\ b \notin exists /\ fresh[b] = Empty /\ s \in exists
  /\ exists' = exists \cup {b}
  /\ buffer' = [buffer EXCEPT ![b] = buffer[s]]
  /\ UNCHANGED <<fresh, heap, lost, mismatched>>

MoveConstruct(b, s) ==
  /\ b \notin exists /\ fresh[b] = Empty /\ s \in exists
  /\ exists' = exists \cup {b}
  /\ buffer' = [buffer EXCEPT ![b] = buffer[s], ![s] = Empty]
  /\ UNCHANGED <<fresh, heap, lost, mismatched>>

(* Seeded fault: the alignment is not exchanged with the other members. *)
MoveAssignForgets(b, s) ==
  /\ b \in exists /\ s \in exists
  /\ IF b = s THEN UNCHANGED <<buffer, heap, lost, mismatched>>
     ELSE /\ Release(buffer[b])
          /\ buffer' = [buffer EXCEPT ![s] = Empty,
               ![b] = [buffer[s] EXCEPT !.alignment = 0]]
  /\ UNCHANGED <<exists, fresh>>

(* Assigning a buffer to itself does nothing. *)
MoveAssign(b, s) ==
  /\ b \in exists /\ s \in exists
  /\ IF b = s THEN UNCHANGED <<buffer, heap, lost, mismatched>>
     ELSE /\ Release(buffer[b])
          /\ buffer' = [buffer EXCEPT ![b] = buffer[s], ![s] = Empty]
  /\ UNCHANGED <<exists, fresh>>

(* Reset, which leaves an object like one moved from. *)
Reset(b) ==
  /\ b \in exists
  /\ Release(buffer[b])
  /\ buffer' = [buffer EXCEPT ![b] = Empty]
  /\ UNCHANGED <<exists, fresh>>

(* Seeded fault: the destructor does not go through Reset. *)
DestroyOnly(b) ==
  /\ b \in exists
  /\ exists' = exists \ {b}
  /\ UNCHANGED <<buffer, fresh, heap, lost, mismatched>>

Destroy(b) ==
  /\ b \in exists
  /\ Release(buffer[b])
  /\ exists' = exists \ {b}
  /\ buffer' = [buffer EXCEPT ![b] = Empty]
  /\ UNCHANGED fresh

Next ==
  \/ \E b \in Buffers, r \in Resources, n \in Sizes, a \in Alignments :
       \/ AllocateNothing(b, r, n, a)
       \/ \E p \in Blocks : AllocateBlock(b, r, n, a, p)
  \/ \E b \in Buffers : Adopt(b) \/ Refuse(b)
  \/ \E b, s \in Buffers : MoveConstruct(b, s) \/ MoveAssign(b, s)
  \/ \E b \in Buffers : Reset(b) \/ Destroy(b)

Spec == Init /\ [][Next]_vars

-----------------------------------------------------------------------------
(* Only an object that exists owns anything. *)
TypeOK ==
  /\ exists \in SUBSET Buffers
  /\ buffer \in [Buffers -> Members]
  /\ fresh \in [Buffers -> Members]
  /\ heap \in [Blocks -> Requests \cup {Free}]
  /\ lost \in SUBSET Blocks
  /\ mismatched \in BOOLEAN
  /\ \A b \in Buffers : b \notin exists => buffer[b] = Empty
  /\ \A b \in Buffers : fresh[b] # Empty => b \notin exists

(* The members of an object with storage are the request its address was    *)
(* handed out for, however they got into the object.                        *)
Describes(o) ==
  o.data # None =>
    /\ heap[o.data] = Request(o.resource, o.size, o.alignment)
    /\ o.resource # None
    /\ o.data \notin lost

(* No address is in two hands: no sequence of allocations, moves, resets    *)
(* and destructions releases it twice or under another description.         *)
OwnedOnce ==
  \A b, c \in Buffers :
    /\ Describes(buffer[b]) /\ Describes(fresh[b])
    /\ buffer[b].data # None => buffer[b].data # fresh[c].data
    /\ buffer[b].data # None /\ buffer[b].data = buffer[c].data => b = c
    /\ fresh[b].data # None /\ fresh[b].data = fresh[c].data => b = c

(* Every allocation is in somebody's hands until it has been returned; the  *)
(* CUDA resource alone can lose one, by failing to select its device.       *)
NoLeak ==
  \A p \in Blocks : heap[p] # Free =>
    \/ p \in lost /\ heap[p].resource \in CudaResources
    \/ \E b \in Buffers : buffer[b].data = p \/ fresh[b].data = p

(* Whatever is returned to a resource was handed out by it, and has its     *)
(* size and alignment.                                                      *)
ReturnedAsRequested == ~mismatched

=============================================================================

---------------------------- MODULE MCCudaSubmit ----------------------------
(* Instances of CudaSubmit for TLC. *)
EXTENDS CudaSubmit, TLC

(* Calls, and contexts of one kind, differ only by name (safety runs only). *)
Symmetry ==
  Permutations(Calls) \cup Permutations(DenseContexts)

(* The operations that drain the stream when the event is not recorded. *)
RecoveringSites == {k \in AllSites : Protocol[k].recovers}

(* The operations that leave it to RecordCudaEvent, with one that shares   *)
(* their handle in device pointer mode.                                    *)
DenseSites == {k \in AllSites : ~Protocol[k].recovers} \cup {"blasDevice"}

(* One operation of each way to hold the mutex. *)
LiveSites == {"denseMatrix", "iamax", "spmv", "sparseKernel"}

=============================================================================

--------------------------- MODULE MCCudaRuntime ---------------------------
(* Instances of CudaRuntime for TLC. *)
EXTENDS CudaRuntime

=============================================================================

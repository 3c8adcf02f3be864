------------------------- MODULE MCBufferOwnership --------------------------
(* An instance of BufferOwnership for TLC: three objects, so that a buffer  *)
(* can move on while another call allocates, over three addresses.           *)
EXTENDS BufferOwnership, TLC

Symmetry == Permutations(Buffers) \cup Permutations(Blocks)

=============================================================================

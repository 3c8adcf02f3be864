------------------------ MODULE MCSparseConversion -------------------------
(* Instances of SparseConversion for TLC: a 2 x 3 matrix, so that rows and *)
(* columns cannot be taken for one another.                                *)
EXTENDS SparseConversion

TwoByThree == <<2, 3>>
AroundTheShape == -1 .. 3
AroundTheCounts == -1 .. 3

=============================================================================

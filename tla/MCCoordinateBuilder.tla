------------------------ MODULE MCCoordinateBuilder -------------------------
(* Instances of CoordinateBuilder for TLC: a 2 x 2 matrix of two-bit signed *)
(* elements, where -1, 1, 1 is a sum that fits in one order and overflows   *)
(* in another.                                                              *)
EXTENDS CoordinateBuilder

TwoByTwo == <<2, 2>>
AroundTheShape == -1 .. 2
Lowest == -2

=============================================================================

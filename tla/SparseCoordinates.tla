-------------------------- MODULE SparseCoordinates --------------------------
(***************************************************************************)
(* Coordinates of sparse storage and their order                           *)
(* (include/asc/sparse/coordinate.h, internal_sparse_coordinate).          *)
(***************************************************************************)
EXTENDS Integers, Sequences

CONSTANTS
  Shape,      \* the extents, one per dimension
  Indices     \* the index values a caller may pass

ASSUME ShapeAssumption == Shape \in Seq(Nat) /\ Indices \subseteq Int

Coordinates == [DOMAIN Shape -> Indices]

InBounds(a) == \A d \in DOMAIN Shape : 0 <= a[d] /\ a[d] < Shape[d]

(* CompareCoordinates(a, b) < 0: lexicographic order. *)
Precedes(a, b) ==
  \E d \in DOMAIN Shape :
    /\ a[d] < b[d]
    /\ \A e \in 1 .. d - 1 : a[e] = b[e]

=============================================================================

------------------------- MODULE MCRandomGeneration -------------------------
\* Two domains that nothing distinguishes, with room for one call on the
\* largest shape.  Shapes of rank 0 to 2, one of them empty, and views with
\* padded, swapped and unit strides.
EXTENDS RandomGeneration, TLC

CONSTANTS d1, d2

Interchangeable == Permutations(Domains)

SomeShapes == {<<>>, <<2, 0>>, <<3>>, <<2, 2>>}

SomeLayouts ==
  {[extents |-> <<2, 3>>, strides |-> <<3, 1>>],
   [extents |-> <<2, 2>>, strides |-> <<1, 3>>],
   [extents |-> <<0, 2>>, strides |-> <<1, 1>>]}
=============================================================================

--------------------------- MODULE MCDenseViews -----------------------------
\* Extents and strides of at most three dimensions, five cells of the caller.
EXTENDS DenseViews

Inputs(rank, extents, strides) ==
  [extents : [1 .. rank -> extents], strides : [1 .. rank -> strides]]

LayoutCases ==
  Inputs(0, {}, {}) \cup Inputs(1, -1 .. 3, {-1, 0, 1, 2, 7})
  \cup Inputs(2, -1 .. 3, -1 .. 3)
  \cup Inputs(3, {0, 1, 2, 3}, {1, 2, 4})

\* The stride of a dimension with one index or none is of no account.
ViewCases ==
  {input \in Inputs(0, {}, {}) \cup Inputs(1, 0 .. 2, 1 .. 3) \cup Inputs(2, 0 .. 2, 1 .. 3) :
     \A d \in DOMAIN input.extents : input.extents[d] < 2 => input.strides[d] = 1}

SubviewOffsets == {-1, 0, 1, 7}
CallerShapes == -1 .. 3
CallerArrays == {<<>>, <<-1>>, <<0>>, <<2>>, <<2, 2>>, <<2, 3>>, <<3, 3>>, <<3, 3, 0>>}

Contiguous(extents) == Layout("kLeft", extents, <<>>)

OtherOperands ==
  {Scalar(3), View(Storage, 1, Contiguous(<<>>)), View(Storage, 0, Contiguous(<<2>>)),
   View(Storage, 1, Contiguous(<<2, 2>>))}
=============================================================================

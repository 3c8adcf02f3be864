---------------------------- MODULE MCBlasPrograms -----------------------------
(***************************************************************************)
(* The calls to check: every routine with every combination of its flags,   *)
(* on matrices of up to three rows and columns, empty ones included, with   *)
(* contiguous and padded storage and increments of both signs.              *)
(***************************************************************************)
EXTENDS BlasPrograms

CellRange    == -3 .. 44
BackingRange == 1 .. 36

Layouts    == {"column", "row"}
Triangles  == {"upper", "lower"}
Transposes == {"none", "transpose", "conjugate"}
Pads       == {0, 1}

(* Views, placed at cell 0. *)
Vector(n, increment) ==
  [kind |-> "vector", base |-> 0, rows |-> n, columns |-> 1,
   ld |-> increment, layout |-> "column", lower |-> 0, upper |-> 0]

Full(rows, columns, layout, pad) ==
  [kind |-> "full", base |-> 0, rows |-> rows, columns |-> columns,
   ld |-> Max({1, IF layout = "column" THEN rows ELSE columns}) + pad,
   layout |-> layout, lower |-> 0, upper |-> 0]

Band(rows, columns, lower, upper, layout, pad) ==
  [kind |-> "band", base |-> 0, rows |-> rows, columns |-> columns,
   ld |-> lower + upper + 1 + pad, layout |-> layout,
   lower |-> lower, upper |-> upper]

TriangularBand(n, width, layout, pad) ==
  [kind |-> "triangular", base |-> 0, rows |-> n, columns |-> n,
   ld |-> width + 1 + pad, layout |-> layout, lower |-> width, upper |-> width]

Packed(n, layout) ==
  [kind |-> "packed", base |-> 0, rows |-> n, columns |-> n,
   ld |-> 0, layout |-> layout, lower |-> 0, upper |-> 0]

(* Sparse operands, with the arrays one after another in one of three      *)
(* orders.                                                                 *)
FirstLast(n, m, order) ==
  CASE order = "values last"  -> [offsets |-> 0, indices |-> m, base |-> m + n]
    [] order = "indices last" -> [base |-> 0, offsets |-> n, indices |-> n + m]
    [] order = "offsets last" -> [indices |-> 0, base |-> n, offsets |-> 2 * n]

Compressed(kind, rows, columns, stored, order) ==
  LET outer == IF kind = "csr" THEN rows ELSE columns
      inner == IF kind = "csr" THEN columns ELSE rows
      Coordinates(k) == IF kind = "csr" THEN <<(k - 1) \div inner, (k - 1) % inner>>
                        ELSE <<(k - 1) % inner, (k - 1) \div inner>>
  IN FirstLast(Cardinality(stored), outer + 1, order) @@
     [kind |-> kind, rows |-> rows, columns |-> columns, room |-> 0,
      entries |-> SelectSeq([k \in 1 .. rows * columns |-> Coordinates(k)],
                            LAMBDA p : p \in stored)]

Indexed(rows, indices, order, room) ==
  FirstLast(Len(indices), 0, order) @@
  [kind |-> "indexed", rows |-> rows, columns |-> 1, room |-> room,
   entries |-> [k \in DOMAIN indices |-> <<indices[k], 0>>]]

(* A matrix whose op() has this shape. *)
OpFull(rows, columns, transpose, layout) ==
  IF transpose = "none" THEN Full(rows, columns, layout, 0)
  ELSE Full(columns, rows, layout, 1)

Order(n, side) == IF side = "left" THEN n[1] ELSE n[2]

(* Structured matrices in all three kinds of storage. *)
Structured(n, layout, pad) ==
  {Full(n, n, layout, pad), TriangularBand(n, 1, layout, pad), Packed(n, layout)}
    \cup IF n = 3 THEN {TriangularBand(3, 2, layout, pad)} ELSE {}

Put(v, low) ==
  IF Sparse(v) THEN [v EXCEPT !.base = @ + low, !.indices = @ + low,
                              !.offsets = @ + low]
  ELSE [v EXCEPT !.base = IF v.kind = "vector" /\ v.ld < 0
                     THEN low - (v.rows - 1) * v.ld ELSE low]

Extent(v) == Cardinality(Reach(v))

(* Operands one after another, c directly behind the others, or on the     *)
(* last cell of one of them.                                               *)
Placed(r, first, overlap) ==
  LET single == r.b = r.a
      afterA == IF first = "a" THEN 1 ELSE 1 + Extent(r.b)
      b == IF first = "a" THEN 1 + Extent(r.a) ELSE 1
      c == 1 + Extent(r.a) + IF single THEN 0 ELSE Extent(r.b)
      a == IF single THEN 1 ELSE afterA
  IN [r EXCEPT !.a = Put(@, a), !.b = Put(@, IF single THEN a ELSE b),
               !.c = Put(@, c - overlap)]

Around(r) == {Placed(r, "a", 0)}

Touching(r) == {Placed(r, first, 1) : first \in {"a", "b"}}

Plain ==
  [operation |-> "multiply", complex |-> FALSE, hermitian |-> FALSE,
   two |-> FALSE, transpose |-> "none", transposeRight |-> "none",
   triangle |-> "none", diagonal |-> "stored", side |-> "left",
   alpha |-> One, beta |-> Zero,
   a |-> Vector(0, 1), b |-> Vector(0, 1), c |-> Vector(0, 1)]

Alpha(complex) == IF complex THEN <<2, 1>> ELSE <<2, 0>>
Beta(complex)  == IF complex THEN <<-1, 3>> ELSE <<3, 0>>

Scalars(complex) ==
  {<<Alpha(complex), Beta(complex)>>, <<Zero, Beta(complex)>>,
   <<Alpha(complex), Zero>>}

(* A Hermitian update of one product has a real alpha, one of matrices a   *)
(* real beta.                                                              *)
RankScalars(complex, hermitian, two) ==
  {<<IF hermitian /\ ~two /\ s[1] # Zero THEN <<2, 0>> ELSE s[1],
     IF hermitian /\ s[2] # Zero THEN <<3, 0>> ELSE s[2]>> :
   s \in Scalars(complex)}

Increments == {<<1, -1>>, <<-2, 1>>, <<2, -2>>}

Kinds == {<<FALSE, FALSE>>, <<TRUE, FALSE>>, <<TRUE, TRUE>>}

-----------------------------------------------------------------------------

(* Level 1. The flags of Rotm are all that it has. *)
Flags == {<<-2, 0>>, <<-1, 0>>, Zero, One}

VectorPairs(operation) ==
  {[Plain EXCEPT !.operation = operation, !.complex = complex,
                 !.a = Vector(n, i[1]), !.c = Vector(n, i[2]),
                 !.alpha = s[1], !.beta = s[2]] :
   n \in {0, 1, 3}, i \in Increments \cup {<<-1, -1>>},
   <<complex, s>> \in UNION {{c} \X Scalars(c) : c \in BOOLEAN}}

VectorMaps ==
  UNION {VectorPairs(o) : o \in {"Rot", "Swap", "Scal", "Copy", "Axpy"}}
    \cup {[q EXCEPT !.operation = "Rotm", !.b = Vector(5, 1), !.alpha = flag] :
           q \in {q \in VectorPairs("Rot") : ~q.complex}, flag \in Flags}

Reductions ==
  {[Plain EXCEPT !.operation = o, !.complex = k[1], !.hermitian = k[2],
                 !.a = Vector(n, i[1]), !.b = Vector(n, i[2]),
                 !.c = Vector(1, 1), !.alpha = bias] :
   <<o, k, bias>> \in {"Dot"} \X Kinds \X {Zero} \cup
                     {<<"Dot", <<FALSE, FALSE>>, <<2, 0>>>>},
   n \in {0, 1, 3}, i \in Increments}
  \cup
  {[Plain EXCEPT !.operation = o, !.complex = complex, !.a = Vector(n, i),
                 !.b = Vector(1, 1), !.c = Vector(1, 1)] :
   o \in {"Asum", "Iamax"}, complex \in BOOLEAN, n \in {0, 1, 3, 5},
   i \in {1, -1, 2, -2}}

(* One vector in the place of both. *)
Aliased ==
  {[q EXCEPT !.a = Put(@, 1), !.b = Put(@, 1), !.c = Put(q.a, 1)] :
   q \in {q \in VectorMaps : q.operation \in {"Rot", "Swap", "Copy", "Axpy"}}}

GeneralMatrices ==
  UNION {{Full(0, 2, layout, pad), Full(2, 0, layout, pad),
          Full(2, 3, layout, pad), Full(3, 1, layout, pad),
          Band(3, 3, 1, 0, layout, pad), Band(2, 3, 1, 2, layout, pad),
          Band(3, 2, 2, 0, layout, pad)} : layout \in Layouts, pad \in Pads}

GeneralMvs ==
  {[Plain EXCEPT !.complex = complex, !.transpose = t, !.a = m,
                 !.b = Vector(OpColumns(m, t), i[1]),
                 !.c = Vector(OpRows(m, t), i[2]), !.alpha = s[1], !.beta = s[2]] :
   m \in GeneralMatrices, t \in Transposes, i \in Increments,
   <<complex, s>> \in UNION {{c} \X Scalars(c) : c \in BOOLEAN}}

StructuredMvs ==
  UNION {
  {[Plain EXCEPT !.operation = "structured", !.complex = complex,
                 !.hermitian = complex, !.triangle = t, !.a = m,
                 !.b = Vector(n, i[1]), !.c = Vector(n, i[2]),
                 !.alpha = s[1], !.beta = s[2]] :
   m \in Structured(n, layout, pad), t \in Triangles, i \in Increments,
   s \in Scalars(complex)} :
  n \in {1, 3}, layout \in Layouts, pad \in Pads, complex \in BOOLEAN}

TriangularVectors ==
  UNION {
  {[Plain EXCEPT !.operation = o, !.complex = complex, !.transpose = t,
                 !.triangle = triangle, !.diagonal = d,
                 !.a = m, !.b = m, !.c = Vector(n, i)] :
   m \in Structured(n, layout, pad), t \in Transposes, triangle \in Triangles,
   i \in {1, -2}, d \in {"unit", "stored"},
   o \in {"triangularMultiply", "triangularSolve"}} :
  n \in {1, 3}, layout \in Layouts, pad \in Pads, complex \in BOOLEAN}

GeneralRanks ==
  UNION {
  {[Plain EXCEPT !.operation = "rank", !.complex = k[1], !.hermitian = k[2],
                 !.a = Vector(m[1], i[1]), !.b = Vector(m[2], i[2]),
                 !.c = Full(m[1], m[2], layout, pad),
                 !.alpha = alpha, !.beta = One] :
   m \in {<<2, 3>>, <<3, 1>>, <<0, 2>>}, i \in Increments,
   alpha \in {Zero, Alpha(k[1])}} :
  layout \in Layouts, pad \in Pads, k \in Kinds}

StructuredRanks ==
  UNION {
  {[Plain EXCEPT !.operation = "rank", !.complex = complex,
                 !.hermitian = complex, !.two = two, !.triangle = t,
                 !.a = Vector(n, i[1]), !.b = Vector(n, IF two THEN i[2] ELSE i[1]),
                 !.c = m, !.alpha = s[1], !.beta = One] :
   m \in {Full(n, n, layout, 1), Packed(n, layout)}, t \in Triangles,
   i \in Increments, s \in RankScalars(complex, complex, two)} :
  n \in {0, 2, 3}, layout \in Layouts, complex \in BOOLEAN, two \in BOOLEAN}

Gemms ==
  UNION {
  {[Plain EXCEPT !.complex = complex, !.transpose = t[1],
                 !.transposeRight = t[2], !.a = OpFull(n[1], n[2], t[1], layout),
                 !.b = OpFull(n[2], n[3], t[2], layout),
                 !.c = Full(n[1], n[3], layout, 1),
                 !.alpha = s[1], !.beta = s[2]] :
   n \in {<<2, 3, 1>>, <<1, 2, 2>>, <<2, 0, 2>>, <<0, 1, 2>>},
   t \in Transposes \X Transposes, s \in Scalars(complex)} :
  layout \in Layouts, complex \in BOOLEAN}

StructuredMultiplies ==
  UNION {
  {[Plain EXCEPT !.operation = "structured", !.complex = k[1],
                 !.hermitian = k[2], !.triangle = t, !.side = side,
                 !.a = Full(Order(n, side), Order(n, side), layout, 1),
                 !.b = Full(n[1], n[2], layout, 0),
                 !.c = Full(n[1], n[2], layout, 1),
                 !.alpha = s[1], !.beta = s[2]] :
   n \in {<<2, 3>>, <<3, 1>>}, t \in Triangles, side \in {"left", "right"},
   s \in Scalars(k[1])} :
  layout \in Layouts, k \in Kinds}

RankKs ==
  UNION {
  {[Plain EXCEPT !.operation = "rank", !.complex = k[1], !.hermitian = k[2],
                 !.two = two, !.transpose = t, !.triangle = triangle,
                 !.a = OpFull(n[1], n[2], t, layout),
                 !.b = OpFull(n[1], n[2], t, layout),
                 !.c = Full(n[1], n[1], layout, 1),
                 !.alpha = s[1], !.beta = s[2]] :
   n \in {<<2, 3>>, <<3, 1>>, <<2, 0>>}, t \in Transposes,
   triangle \in Triangles, s \in RankScalars(k[1], k[2], two)} :
  layout \in Layouts, k \in Kinds, two \in BOOLEAN}

TriangularMatrices ==
  UNION {
  {[Plain EXCEPT !.operation = o, !.complex = complex, !.transpose = t,
                 !.triangle = triangle, !.diagonal = d, !.side = side,
                 !.a = Full(Order(n, side), Order(n, side), layout, 1),
                 !.b = Full(Order(n, side), Order(n, side), layout, 1),
                 !.c = Full(n[1], n[2], layout, 0), !.alpha = alpha] :
   n \in {<<2, 3>>, <<3, 2>>}, t \in Transposes, triangle \in Triangles,
   d \in {"unit", "stored"}, side \in {"left", "right"},
   o \in {"triangularMultiply", "triangularSolve"},
   alpha \in {Zero, Alpha(complex)}} :
  layout \in Layouts, complex \in BOOLEAN}

(* Sparse vectors, also with indices that are not sorted, unique or in     *)
(* range, or are too many.                                                 *)
SparseVectors ==
  {Indexed(4, indices, order, room) :
   indices \in {<<>>, <<0, 1, 3>>, <<2, 0>>, <<1, 1>>, <<1, 4>>},
   <<order, room>> \in {<<"values last", 0>>, <<"indices last", 1>>}}
  \cup {Indexed(1, <<0, 1>>, "values last", 0)}

SparseLevel1s ==
  {[Plain EXCEPT !.operation = o, !.a = x, !.b = x, !.c = Vector(x.rows, i),
                 !.complex = TRUE, !.alpha = alpha] :
   <<o, alpha>> \in {"SparseAxpy"} \X {Zero, Alpha(TRUE)} \cup
                  {"SparseGather", "SparseGatherZero", "SparseScatter"}
                     \X {One},
   x \in SparseVectors, i \in {1, 2, -2}}
  \cup
  {[Plain EXCEPT !.operation = "SparseDot", !.complex = k[1], !.hermitian = k[2],
                 !.a = x, !.b = Vector(x.rows, i), !.c = Vector(1, 1)] :
   x \in SparseVectors, i \in {1, -2}, k \in Kinds}

(* Sparse matrices, some with empty rows and columns. *)
SparseMatrices ==
  {Compressed(kind, m[1], m[2], m[3], "values last") :
   kind \in {"csr", "csc"},
   m \in {<<2, 3, {}>>, <<2, 0, {}>>, <<0, 2, {}>>, <<3, 1, {<<0, 0>>, <<2, 0>>}>>,
          <<3, 3, {<<0, 2>>, <<1, 1>>, <<2, 0>>, <<2, 1>>}>>}}
  \cup {Compressed("csr", 2, 3, {<<0, 1>>, <<1, 0>>, <<1, 2>>}, order) :
           order \in {"indices last", "offsets last"}}

SparseProducts ==
  {[Plain EXCEPT !.complex = TRUE, !.transpose = t, !.a = m,
                 !.b = Vector(OpColumns(m, t), i[1]),
                 !.c = Vector(OpRows(m, t), i[2]),
                 !.alpha = alpha, !.beta = One] :
   m \in SparseMatrices, t \in Transposes, i \in Increments,
   alpha \in {Zero, Alpha(TRUE)}}
  \cup
  {[Plain EXCEPT !.complex = TRUE, !.transpose = t, !.a = m,
                 !.b = Full(OpColumns(m, t), columns, layouts[1], 1),
                 !.c = Full(OpRows(m, t), columns, layouts[2], 0),
                 !.alpha = alpha, !.beta = One] :
   m \in SparseMatrices, t \in Transposes, layouts \in Layouts \X Layouts,
   <<columns, alpha>> \in {<<0, Alpha(TRUE)>>, <<2, Zero>>, <<2, Alpha(TRUE)>>}}
  \cup
  {[Plain EXCEPT !.operation = "csrMultiply", !.a = m,
                 !.b = Vector(m.columns, i[1]), !.c = Vector(m.rows, i[2]),
                 !.alpha = s[1], !.beta = s[2]] :
   m \in SparseMatrices, i \in {<<1, 1>>, <<1, 2>>, <<2, 1>>}, s \in Scalars(FALSE)}

(* Triangular matrices, also with an element outside of the triangle or    *)
(* without one of the diagonal.                                            *)
LowerElements ==
  {{<<0, 0>>, <<1, 0>>, <<1, 1>>, <<2, 0>>, <<2, 2>>},
   {<<0, 0>>, <<1, 1>>, <<2, 1>>, <<2, 2>>}, {<<1, 0>>, <<2, 0>>, <<2, 1>>},
   {<<0, 0>>, <<0, 2>>, <<1, 1>>, <<2, 2>>}}

TriangularElements(triangle) ==
  IF triangle = "lower" THEN LowerElements
  ELSE {{<<p[2], p[1]>> : p \in stored} : stored \in LowerElements}

SparseSolves ==
  UNION {
  {[Plain EXCEPT !.operation = "triangularSolve", !.complex = TRUE,
                 !.transpose = t, !.triangle = triangle, !.diagonal = d,
                 !.a = Compressed(kind, 3, 3, stored, "values last"),
                 !.b = Compressed(kind, 3, 3, stored, "values last"), !.c = c,
                 !.alpha = alpha] :
   kind \in {"csr", "csc"}, stored \in TriangularElements(triangle),
   t \in Transposes, d \in {"unit", "stored"},
   <<c, alpha>> \in {Vector(3, -2), Full(3, 2, "row", 1)} \X {Alpha(TRUE)}
                    \cup {<<Vector(3, 1), Zero>>, <<Full(3, 2, "column", 0), Alpha(TRUE)>>}} :
  triangle \in Triangles}

-----------------------------------------------------------------------------

Conforming ==
  VectorMaps \cup Reductions \cup GeneralMvs \cup StructuredMvs \cup TriangularVectors \cup GeneralRanks
    \cup StructuredRanks \cup Gemms \cup StructuredMultiplies \cup RankKs
    \cup TriangularMatrices \cup SparseLevel1s \cup SparseProducts
    \cup SparseSolves

(* Calls that are refused, or should be: a wrong shape, two layouts, views *)
(* that the storage cannot hold.                                           *)
Spoiled(r) ==
  {[r EXCEPT !.c.base = 35]}
    \cup IF r.c.kind = "packed" THEN {}
         ELSE {[r EXCEPT !.c.rows = @ + 1], [r EXCEPT !.c.ld = 0]}
    \cup IF r.c.kind # "full" THEN {}
         ELSE {[r EXCEPT !.c.layout = IF @ = "row" THEN "column" ELSE "row"]}
    \cup IF r.a.kind # "full" THEN {}
         ELSE {[r EXCEPT !.a.columns = @ + 1]}

Ordinary(r) == r.alpha \in {One, Alpha(r.complex), <<2, 0>>} /\ r.beta # Zero

Calls ==
  Aliased \cup UNION {Around(r) : r \in Conforming}
    \cup UNION {Touching(r) : r \in {q \in Conforming :
                                       Ordinary(q) \/ Triangular(q)
                                         \/ q.operation \in Level1}}
    \cup UNION {UNION {Spoiled(q) : q \in Around(r)} :
                r \in {q \in Conforming : Ordinary(q) /\ q.c.rows > 1
                                            /\ q.transpose = "none"}}

Init == InitWith(Calls)

Spec == Init /\ [][Next]_vars

=============================================================================

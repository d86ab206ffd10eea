------------------------------- MODULE Arrays -------------------------------
(* Row-major arrays: a shape, and what is at each of its flat positions.   *)
(* Axes are numbered from 1, positions and coordinates from 0.             *)
EXTENDS Integers, Sequences, FiniteSetsExt, SequencesExt

Identity(n) == [k \in 1 .. n |-> k]
Each(shape, n) == [k \in DOMAIN shape |-> n]
Volume(shape) == LET p[k \in 0 .. Len(shape)] == IF k = 0 THEN 1 ELSE p[k - 1] * shape[k] IN p[Len(shape)]
Cells(shape) == 0 .. Volume(shape) - 1
\* How far apart neighbours along each axis lie.
Strides(shape) == LET s[k \in DOMAIN shape] == IF k = Len(shape) THEN 1 ELSE s[k + 1] * shape[k + 1] IN s
CoordOf(n, shape) == LET strides == Strides(shape) IN [k \in DOMAIN shape |-> (n \div strides[k]) % shape[k]]
Place(c, shape) ==
  LET p[k \in 0 .. Len(shape)] == IF k = 0 THEN 0 ELSE p[k - 1] * shape[k] + c[k] IN p[Len(shape)]
Clamp(x, top) == Max({0, Min({x, top})})

Named(name, shape) == [shape |-> shape, data |-> [n \in Cells(shape) |-> <<name, n>>]]
Filled(shape, v) == [shape |-> shape, data |-> [n \in Cells(shape) |-> v]]
Reshaped(x, shape) == [shape |-> shape, data |-> x.data]
Transposed(x, perm) ==
  LET shape == [k \in DOMAIN perm |-> x.shape[perm[k]]]
      back(c) == [j \in DOMAIN perm |-> c[CHOOSE k \in DOMAIN perm : perm[k] = j]]
  IN [shape |-> shape, data |-> [n \in Cells(shape) |-> x.data[Place(back(CoordOf(n, shape)), x.shape)]]]
\* x[start : stop : step]
Slice(x, start, stop, step) ==
  LET shape == [k \in DOMAIN start |-> Max({0, (stop[k] - start[k] + step[k] - 1) \div step[k]})]
  IN [shape |-> shape,
      data |-> [n \in Cells(shape) |->
                  LET c == CoordOf(n, shape)
                  IN x.data[Place([k \in DOMAIN c |-> start[k] + c[k] * step[k]], x.shape)]]]
\* base with y written into every step-th place.
SliceUpdate(base, y, step) ==
  [base EXCEPT !.data =
     [n \in Cells(base.shape) |->
        LET c == CoordOf(n, base.shape)
            q == [k \in DOMAIN c |-> c[k] \div step[k]]
        IN IF \A k \in DOMAIN c : c[k] % step[k] = 0 /\ q[k] < y.shape[k]
           THEN y.data[Place(q, y.shape)] ELSE base.data[n]]]
Padded(x, lo, hi, v) ==
  LET shape == [k \in DOMAIN lo |-> x.shape[k] + lo[k] + hi[k]]
  IN [shape |-> shape,
      data |-> [n \in Cells(shape) |->
                  LET c == CoordOf(n, shape)
                      q == [k \in DOMAIN c |-> c[k] - lo[k]]
                  IN IF \A k \in DOMAIN c : q[k] \in 0 .. x.shape[k] - 1
                     THEN x.data[Place(q, x.shape)] ELSE v]]
\* as_strided checks nothing: beyond the array is what happens to be there.
AsStrided(x, shape, strides) ==
  [shape |-> shape,
   data |-> [n \in Cells(shape) |->
               LET c == CoordOf(n, shape)
                   at == SumFunction([k \in DOMAIN c |-> c[k] * strides[k]])
               IN IF at \in DOMAIN x.data THEN x.data[at] ELSE <<"beyond", at>>]]
Split(x, n, axis) ==
  LET part == x.shape[axis] \div n
      ones == [k \in DOMAIN x.shape |-> 1]
      start(i) == [k \in DOMAIN x.shape |-> IF k = axis THEN (i - 1) * part ELSE 0]
      stop(i) == [k \in DOMAIN x.shape |-> IF k = axis THEN i * part ELSE x.shape[k]]
  IN [i \in 1 .. n |-> Slice(x, start(i), stop(i), ones)]
\* Equal parts side by side along the last axis.
Concatenated(parts) ==
  LET one == parts[1].shape
      last == Len(one)
      shape == [k \in DOMAIN one |-> IF k = last THEN one[k] * Len(parts) ELSE one[k]]
  IN [shape |-> shape,
      data |-> [n \in Cells(shape) |->
                  LET c == CoordOf(n, shape)
                  IN parts[c[last] \div one[last] + 1].data[Place([c EXCEPT ![last] = @ % one[last]], one)]]]
\* y after x along an axis.
Appended(x, y, axis) ==
  LET shape == [k \in DOMAIN x.shape |-> x.shape[k] + IF k = axis THEN y.shape[k] ELSE 0]
      at(c) == IF c[axis] < x.shape[axis] THEN x.data[Place(c, x.shape)]
               ELSE y.data[Place([c EXCEPT ![axis] = @ - x.shape[axis]], y.shape)]
  IN [shape |-> shape, data |-> [n \in Cells(shape) |-> at(CoordOf(n, shape))]]
\* broadcast_in_dim
Expanded(x, shape, dims) ==
  [shape |-> shape,
   data |-> [n \in Cells(shape) |->
               LET c == CoordOf(n, shape)
               IN x.data[Place([j \in DOMAIN x.shape |-> IF x.shape[j] = 1 THEN 0 ELSE c[dims[j]]], x.shape)]]]
Mapped(F(_), x) == [shape |-> x.shape, data |-> [n \in Cells(x.shape) |-> F(x.data[n])]]
Zipped(F(_, _), x, y) == [shape |-> x.shape, data |-> [n \in Cells(x.shape) |-> F(x.data[n], y.data[n])]]
FreeAxes(rank, dims) == SelectSeq(Identity(rank), LAMBDA k : k \notin {dims[j] : j \in DOMAIN dims})
Picked(shape, dims) == [k \in DOMAIN dims |-> shape[dims[k]]]
\* The coordinates of an operand: c[j] along the axis axes[j].
Among(rank, axes, c) == [k \in 1 .. rank |-> c[CHOOSE j \in DOMAIN axes : axes[j] = k]]
\* dot_general; an element is the set of the products it sums.
DotGeneral(x, y, lb, rb, lc, rc) ==
  LET lf == FreeAxes(Len(x.shape), lb \o lc)
      rf == FreeAxes(Len(y.shape), rb \o rc)
      shape == Picked(x.shape, lb \o lf) \o Picked(y.shape, rf)
      inner == Picked(x.shape, lc)
      product(o, i) ==
        <<x.data[Place(Among(Len(x.shape), lb \o lf \o lc, SubSeq(o, 1, Len(lb \o lf)) \o i), x.shape)],
          y.data[Place(Among(Len(y.shape), rb \o rf \o rc,
                             SubSeq(o, 1, Len(lb)) \o SubSeq(o, Len(lb \o lf) + 1, Len(o)) \o i), y.shape)]>>
      summed(o) == {product(o, CoordOf(q, inner)) : q \in Cells(inner)}
  IN [shape |-> shape, data |-> [n \in Cells(shape) |-> summed(CoordOf(n, shape))]]
=============================================================================

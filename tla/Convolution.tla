---------------------------- MODULE Convolution ----------------------------
(***************************************************************************)
(* convolution: any layout brought to MLX's by three permutations, groups  *)
(* split and put side by side, a crop taken off the operand before it is   *)
(* dilated, and integers by one strided view of it (im2col).               *)
(* A cell of the result is the set of <<lhs, rhs>> places it multiplies;   *)
(* a hole or an edge is a zero, which no product is of.  A layout counts   *)
(* dims from 1: lhs <<batch, feature, spatial...>>, rhs <<out, in, ...>>.  *)
(* A complex one is four real ones over the same places.                   *)
(***************************************************************************)
EXTENDS Windows

Zero == <<"zero", 0>>
Zeros(shape) == Filled(shape, {})
Failed == [failed |-> TRUE]
Coordinates(shape) == [n \in Cells(shape) |-> CoordOf(n, shape)]
CeilDiv(a, b) == (a + b - 1) \div b
Spatial(layout) == SubSeq(layout, 3, Len(layout))
\* <<batch, spatial..., feature>>, the order MLX has them in.
MlxOrder(layout) == <<layout[1]>> \o Spatial(layout) \o <<layout[2]>>
MlxBack(layout) == [d \in DOMAIN layout |-> CHOOSE i \in DOMAIN layout : MlxOrder(layout)[i] = d]

\* (mutant) the whole elements a crop reaches are dropped, the excess not padded back
CropWhole(n, pad, dil) ==
  LET q == [e \in 1 .. 2 |-> CeilDiv(Max({0, - pad[e]}), dil)]
      start == Min({q[1], n})
  IN [start |-> start, stop |-> Max({n - q[2], 0, start}), pad |-> [e \in 1 .. 2 |-> Max({0, pad[e]})]]
(* XLA pads after the dilation, so a negative pad crops the dilated array: *)
(* drop the operand elements it reaches and pad the excess back.           *)
Crop(n, pad, dil) ==
  LET k == [e \in 1 .. 2 |-> Max({0, - pad[e]})]
      q == [e \in 1 .. 2 |-> CeilDiv(k[e], dil)]
      start == Min({q[1], n})
  IN [start |-> start, stop |-> Max({n - q[2], 0, start}),
      pad |-> [e \in 1 .. 2 |-> IF k[e] > 0 THEN q[e] * dil - k[e] ELSE pad[e]]]
\* x.pad[k] is <<low, high>> of spatial dim k.
ConvAttrs(x, ls, crops) ==
  LET rank == Len(x.lhs) - 2
      cout == x.rhsShape[x.rhs[1]]
  IN IF \E k \in 1 .. rank : crops[k].stop <= crops[k].start THEN [arm |-> "zeros"]
     ELSE IF (x.fgc > 1 /\ (ls[rank + 2] % x.fgc # 0 \/ cout % x.fgc # 0))
             \/ (x.bgc > 1 /\ (ls[1] % x.bgc # 0 \/ cout % x.bgc # 0)) THEN [arm |-> "declined"]
     ELSE [arm |-> IF x.int THEN "integer" ELSE "mlx",
           start |-> <<0>> \o [k \in 1 .. rank |-> crops[k].start] \o <<0>>,
           stop |-> <<ls[1]>> \o [k \in 1 .. rank |-> crops[k].stop] \o <<ls[rank + 2]>>,
           lo |-> [k \in 1 .. rank |-> crops[k].pad[1]], hi |-> [k \in 1 .. rank |-> crops[k].pad[2]],
           nativeGroups |-> ~ x.int /\ rank <= 2,
           want |-> Of(x.outShape, MlxOrder(x.out))]
LowerConv(x) ==
  LET rank == Len(x.lhs) - 2
      ls == Of(x.lhsShape, MlxOrder(x.lhs))
      split == IF x.bgc > 1 THEN x.bgc ELSE x.fgc
      cout == x.rhsShape[x.rhs[1]]
  IN IF Volume(x.lhsShape) = 0 \/ Volume(x.rhsShape) = 0 \/ Volume(x.outShape) = 0 THEN [arm |-> "zeros"]
     ELSE IF rank > 0 THEN ConvAttrs(x, ls, [k \in 1 .. rank |-> Crop(ls[k + 1], x.pad[k], x.ldil[k])])
     ELSE IF split > 1 /\ (cout % split # 0 \/ (IF x.bgc > 1 THEN ls[1] ELSE ls[2]) % split # 0)
          THEN [arm |-> "declined"] ELSE [arm |-> "matmul"]

\* The products a row of one side makes with a row of the other.
Products(p, q) == {<<p[i], q[i]>> : i \in {i \in DOMAIN p : p[i] # Zero /\ q[i] # Zero}}
\* int_conv, in MLX's layout.
IntConv(a, w, x, p) ==
  LET rank == Len(a.shape) - 2
      inner(f, outer) == <<outer>> \o f \o <<outer>>
      spread == Dilated(a, Zero, inner(x.ldil, 1))
      edged == Padded(spread, inner(p.lo, 0), inner(p.hi, 0), Zero)
      wd == SubSeq(w.shape, 2, rank + 1)
      c == a.shape[rank + 2]
      out == [k \in 1 .. rank |->
                Max({0, FloorDiv(edged.shape[k + 1] - ((wd[k] - 1) * x.rdil[k] + 1), x.strides[k]) + 1})]
      es == Strides(edged.shape)
      patches == AsStrided(edged, <<a.shape[1]>> \o out \o wd \o <<c>>,
                           <<es[1]>> \o [k \in 1 .. rank |-> es[k + 1] * x.strides[k]]
                             \o [k \in 1 .. rank |-> es[k + 1] * x.rdil[k]] \o <<1>>)
      flipped == IF x.flip THEN FoldLeft(Taken, w, SelectSeq([k \in 1 .. rank |-> k + 1], LAMBDA d : w.shape[d] > 1)) ELSE w
      depth == Volume(wd) * c
      shape == <<a.shape[1]>> \o out \o <<w.shape[1]>>
      row(v, i) == [j \in 1 .. depth |-> v.data[i * depth + j - 1]]
  IN [shape |-> shape,
      data |-> [n \in Cells(shape) |-> Products(row(patches, n \div w.shape[1]), row(flipped, n % w.shape[1]))]]
\* mx::conv_general, pads not negative: the same windows.
MlxConv(a, w, x, p, groups) ==
  LET rank == Len(a.shape) - 2
      out == [k \in 1 .. rank |-> WindowCount(a.shape[k + 1], p.lo[k], p.hi[k], x.ldil[k], w.shape[k + 1], x.rdil[k], x.strides[k])]
      shape == <<a.shape[1]>> \o out \o <<w.shape[1]>>
      cin == w.shape[rank + 2]
      at == Coordinates(a.shape)
      kt == Coordinates(w.shape)
      meets(o, c, k) ==
           /\ o[1] = c[1] /\ o[rank + 2] = k[1]
           /\ c[rank + 2] = (k[1] \div (w.shape[1] \div groups)) * cin + k[rank + 2]
           /\ \A d \in 1 .. rank :
                LET i == IF x.flip THEN w.shape[d + 1] - 1 - k[d + 1] ELSE k[d + 1]
                IN c[d + 1] * x.ldil[d] + p.lo[d] = o[d + 1] * x.strides[d] + i * x.rdil[d]
  IN [shape |-> shape,
      data |-> [n \in Cells(shape) |->
        LET o == CoordOf(n, shape)
        IN {<<a.data[q[1]], w.data[q[2]]>> : q \in {q \in Cells(a.shape) \X Cells(w.shape) : meets(o, at[q[1]], kt[q[2]])}}]]
Matmul(a, w) ==
  LET shape == <<a.shape[1], w.shape[1]>>
      depth == a.shape[2]
      row(v, i) == [j \in 1 .. depth |-> v.data[i * depth + j - 1]]
  IN [shape |-> shape, data |-> [n \in Cells(shape) |-> Products(row(a, n \div w.shape[1]), row(w, n % w.shape[1]))]]

(* A group of the operand's axis meets the same group of the output        *)
(* features; the results lie side by side along the features.              *)
Grouped(a, w, n, axis) ==
  LET as == Split(a, n, axis)
      ws == Split(w, n, 1)
  IN [g \in 1 .. n |-> <<as[g], ws[g]>>]
FeatureGroups(a, w, x, p) ==
  LET run(q) == IF p.arm = "integer" THEN IntConv(q[1], q[2], x, p) ELSE MlxConv(q[1], q[2], x, p, 1)
      parts == Grouped(a, w, x.fgc, Len(a.shape))
  IN IF p.nativeGroups THEN MlxConv(a, w, x, p, x.fgc) ELSE Concatenated([g \in DOMAIN parts |-> run(parts[g])])
RunConv(x, p) ==
  LET a == Transposed(Named("l", x.lhsShape), MlxOrder(x.lhs))
      w == Transposed(Named("r", x.rhsShape), MlxOrder(x.rhs))
      back == MlxBack(x.out)
      multiplied(parts) == Concatenated([g \in DOMAIN parts |-> Matmul(parts[g][1], parts[g][2])])
      featured(parts) == Concatenated([g \in DOMAIN parts |-> FeatureGroups(parts[g][1], parts[g][2], x, p)])
  IN IF p.arm = "zeros" THEN Zeros(x.outShape)
     ELSE IF p.arm = "matmul"
          THEN Transposed(multiplied(IF x.bgc > 1 THEN Grouped(a, w, x.bgc, 1) ELSE Grouped(a, w, x.fgc, 2)), back)
     ELSE LET kept == Slice(a, p.start, p.stop, Each(a.shape, 1))
              out == featured(Grouped(kept, w, x.bgc, 1))
          IN IF out.shape # p.want THEN Failed ELSE Transposed(out, back)

(* What StableHLO says of it, in the operands' own layouts. *)
ConvShape(x) ==
  LET rank == Len(x.lhs) - 2
      s(k) == WindowCount(x.lhsShape[x.lhs[k + 2]], x.pad[k][1], x.pad[k][2], x.ldil[k],
                          x.rhsShape[x.rhs[k + 2]], x.rdil[k], x.strides[k])
      size == <<x.lhsShape[x.lhs[1]] \div x.bgc, x.rhsShape[x.rhs[1]]>> \o [k \in 1 .. rank |-> s(k)]
  IN [d \in DOMAIN x.out |-> size[CHOOSE i \in DOMAIN x.out : x.out[i] = d]]
ConvMeans(x) ==
  LET rank == Len(x.lhs) - 2
      cout == x.rhsShape[x.rhs[1]]
      cin == x.rhsShape[x.rhs[2]]
      batch == x.lhsShape[x.lhs[1]] \div x.bgc
      lt == Coordinates(x.lhsShape)
      rt == Coordinates(x.rhsShape)
      meets(o, c, k) ==
        LET f == o[x.out[2]] IN
        /\ k[x.rhs[1]] = f
        /\ c[x.lhs[1]] = (f \div (cout \div x.bgc)) * batch + o[x.out[1]]
        /\ c[x.lhs[2]] = (f \div (cout \div x.fgc)) * cin + k[x.rhs[2]]
        /\ \A d \in 1 .. rank :
             LET i == k[x.rhs[d + 2]]
                 at == IF x.flip THEN x.rhsShape[x.rhs[d + 2]] - 1 - i ELSE i
             IN c[x.lhs[d + 2]] * x.ldil[d] + x.pad[d][1] = o[x.out[d + 2]] * x.strides[d] + at * x.rdil[d]
  IN [shape |-> x.outShape,
      data |-> [n \in Cells(x.outShape) |->
        LET o == CoordOf(n, x.outShape)
        IN {<<<<"l", q[1]>>, <<"r", q[2]>>>> : q \in
              {q \in Cells(x.lhsShape) \X Cells(x.rhsShape) : meets(o, lt[q[1]], rt[q[2]])}}]]

---------------------------------------------------------------------------
WindowKinds == {"pad", "reverse", "arg", "reduce", "window", "select and scatter"}
(* Every element a window or a fold is due is in it once, in order, and    *)
(* nothing else is: not a hole, an edge, or what lies beyond the operand.  *)
WindowsAreExact ==
  /\ input.kind \in WindowKinds => WindowIsExact(input)
  /\ input.kind = "conv" => LET p == LowerConv(input) IN p.arm = "declined" \/ RunConv(input, p) = ConvMeans(input)
=============================================================================

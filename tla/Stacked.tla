------------------------------ MODULE Stacked ------------------------------
(***************************************************************************)
(* The scanned-layer weight read, dot(x, stack[layer]), as one gather over *)
(* a strided view of the stack the program was given (metal_stacked.cc).   *)
(*                                                                         *)
(* A read `s`: the stack came as `dims` and is carried with axes `perm`;   *)
(* axis `a` of what is carried is the layer. The dot contracts dims `lc`   *)
(* of x : `xshape` with dims `rc` of the layer's weight. `x` names the     *)
(* activation (reshaped or not), `stack` the argument. Axes count from 1.  *)
(***************************************************************************)
EXTENDS Arrays

CONSTANT WeightMin \* the 16384 of a matrix worth reading in place, scaled down

Without(seq, k) == SubSeq(seq, 1, k - 1) \o SubSeq(seq, k + 1, Len(seq))

---------------------------------------------------------------------------
(* What the chain computes. *)
Carry(s) == Transposed(Named(s.stack, s.dims), s.perm)
Layers(s) == s.dims[s.perm[s.a]]
\* dynamic_slice, clamped, and the reshape that drops the unit axis.
LayerOf(s) ==
  LET c == Carry(s)
      at == Clamp(s.layer, Layers(s) - 1)
      one == Each(c.shape, 1)
      part == Slice(c, [Each(c.shape, 0) EXCEPT ![s.a] = at], [c.shape EXCEPT ![s.a] = at + 1], one)
  IN Reshaped(part, Without(c.shape, s.a))
ChainStacked(s) == DotGeneral(Named(s.x, s.xshape), LayerOf(s), <<>>, <<>>, s.lc, s.rc)

---------------------------------------------------------------------------
(* What is recognized. *)
\* (mutant) Any axes that are in order.
InAnyStride(axes, dims) == \A i \in 1 .. Len(axes) - 1 : axes[i] < axes[i + 1]
\* Neighbouring axes, the first striding over the whole of the second.
Collapses(axes, dims) ==
  LET st == Strides(dims)
  IN \A i \in 1 .. Len(axes) - 1 : st[axes[i]] = dims[axes[i + 1]] * st[axes[i + 1]]

NoLayout == [ok |-> FALSE]
\* The [L, K, N] view of a buffer laid out row-major as `dims`, whose axes
\* are the carried ones under `p`.
Prove(s, dims, p) ==
  LET st == Strides(dims)
      axes == [j \in 1 .. Len(dims) - 1 |-> p[IF j < s.a THEN j ELSE j + 1]]
      nc == Len(s.rc)
      kk == SubSeq(axes, 1, nc)
      nn == SubSeq(axes, nc + 1, Len(axes))
      extent(seq) == Volume([j \in DOMAIN seq |-> dims[seq[j]]])
  IN IF ~Collapses(kk, dims) \/ ~Collapses(nn, dims) \/ st[nn[Len(nn)]] # 1 THEN NoLayout
     ELSE [ok |-> TRUE, L |-> dims[p[s.a]], K |-> extent(kk), N |-> extent(nn),
           strides |-> <<st[p[s.a]], st[kk[nc]], st[nn[Len(nn)]]>>]
CarriedDims(s) == [k \in DOMAIN s.perm |-> s.dims[s.perm[k]]]
\* The view of the argument itself, or of the carried layout made real once.
LayoutOf(s) ==
  LET choose(direct, relaid) ==
        IF direct.ok THEN [layout |-> direct, relayout |-> FALSE]
        ELSE IF s.perm # Identity(Len(s.dims)) THEN [layout |-> relaid, relayout |-> relaid.ok]
        ELSE [layout |-> NoLayout, relayout |-> FALSE]
  IN choose(Prove(s, s.dims, s.perm), Prove(s, CarriedDims(s), Identity(Len(s.dims))))
\* x's trailing dims in order against the weight's leading dims in order.
MatchContraction(s) ==
  LET nc == Len(s.lc)
  IN /\ nc > 0 /\ nc < Len(s.dims) - 1
     /\ \A i \in 1 .. nc : s.lc[i] = Len(s.xshape) - nc + i /\ s.rc[i] = i
XRows(s) == Volume(SubSeq(s.xshape, 1, Len(s.xshape) - Len(s.lc)))
MatchRead(s) ==
  LET fits(l) == /\ l.layout.ok /\ l.layout.K * l.layout.N >= WeightMin
                 /\ l.relayout => XRows(s) = 1
  IN MatchContraction(s) /\ s.sites = 1 /\ fits(LayoutOf(s))
BackPerm(perm) == [k \in DOMAIN perm |-> CHOOSE j \in DOMAIN perm : perm[j] = k]

\* Reads that meet in one pack: a row each, of one activation, by one index.
Packable(a, b) ==
  /\ \A s \in {a, b} : MatchRead(s) /\ XRows(s) = 1 /\ ~LayoutOf(s).relayout
  /\ a.x = b.x /\ a.layer = b.layer /\ a.stack # b.stack
  /\ LET alike(la, lb) == la.L = lb.L /\ la.K = lb.K
     IN alike(LayoutOf(a).layout, LayoutOf(b).layout)

---------------------------------------------------------------------------
(* What is lowered and run. *)
\* gather_mm of x's rows with layer `at` of a view.
GatherMm(x, view, rows, at) ==
  LET k == view.shape[2]
      n == view.shape[3]
  IN [shape |-> <<rows, n>>,
      data |-> [c \in Cells(<<rows, n>>) |->
        {<<x.data[(c \div n) * k + q], view.data[at * k * n + q * n + (c % n)]>> : q \in 0 .. k - 1}]]
OutShape(s) == LET rest == Without(CarriedDims(s), s.a)
               IN SubSeq(s.xshape, 1, Len(s.xshape) - Len(s.lc)) \o SubSeq(rest, Len(s.rc) + 1, Len(rest))
\* (mutant) of StackOf: a relaid stack read with its old permutation.
StackAsCarried(s, l) == Transposed(Carry(s), BackPerm(s.perm))
StackOf(s, l) == IF l.relayout THEN Carry(s) ELSE Transposed(Carry(s), BackPerm(s.perm))
ViewOf(s) ==
  LET view(l) == AsStrided(StackOf(s, l), <<l.layout.L, l.layout.K, l.layout.N>>, l.layout.strides)
  IN view(LayoutOf(s))
RunStacked(s) ==
  LET dot(view) == GatherMm(Named(s.x, s.xshape), view, XRows(s), Clamp(s.layer, view.shape[1] - 1))
  IN Reshaped(dot(ViewOf(s)), OutShape(s))
\* The views side by side.
PackOf(v, w) == Appended(v, w, 3)
PackedDot(s, pack) == GatherMm(Named(s.x, s.xshape), pack, 1, Clamp(s.layer, pack.shape[1] - 1))
Band(s, y, from, to) == Reshaped(Slice(y, <<0, from>>, <<1, to>>, <<1, 1>>), OutShape(s))
Bands(a, b, v, y) == <<Band(a, y, 0, v.shape[3]), Band(b, y, v.shape[3], y.shape[2])>>
\* One gather over the pack; a member is a slice of its result.
RunPackOf(a, b, v, w) == Bands(a, b, v, PackedDot(a, PackOf(v, w)))
RunPack(a, b) == RunPackOf(a, b, ViewOf(a), ViewOf(b))

StackedIsExact(s) == MatchRead(s) => RunStacked(s) = ChainStacked(s)
PackIsExact(a, b) == Packable(a, b) => RunPack(a, b) = <<ChainStacked(a), ChainStacked(b)>>
=============================================================================

---------------------------------- MODULE Moe ----------------------------------
(***************************************************************************)
(* A dense mixture of experts against the gathered dispatch that replaces  *)
(* it (metal_moe.cc): every expert run on every token and weighted by      *)
(* scores that are zero off the router's top k, or the P = T * K selected  *)
(* pairs alone. The graph g.ops is the block in order; an op reads values  *)
(* by their places and has `frame` 0, or the call it is bound inside. Axes *)
(* count from 1; 0 stands for none. Only a conversion rounds: the bf16 of  *)
(* a number is the even one below it.                                      *)
(***************************************************************************)
EXTENDS Arrays

Rounded(elem, n) == IF elem = "bf16" THEN n - (n % 2) ELSE n

---------------------------------------------------------------------------
(* What the graph computes. *)
Argument(name, n) ==
  CASE name = "l" -> <<5, 2, 9, 9, 4, 7>>[(n % 6) + 1] [] name = "x" -> <<3, 1, 4, 5, 2, 7>>[(n % 6) + 1]
    [] name = "u" -> ((n * n + 3 * n) % 7) + 1 [] OTHER -> ((n * n + 2 * n) % 5) + 1
\* How many come before: the larger, and of equals the earlier.
Rank(row, i) == Cardinality({j \in DOMAIN row : row[j] > row[i] \/ (row[j] = row[i] /\ j < i)})
TopOf(row, r) == CHOOSE i \in DOMAIN row : Rank(row, i) = r
Line(x, o) == LET k == Last(x.shape) IN [j \in 1 .. k |-> x.data[o * k + j - 1]]
TopK(x, k, what) ==
  LET top(row, r) == IF what = "indices" THEN TopOf(row, r) - 1 ELSE row[TopOf(row, r)]
  IN [shape |-> Front(x.shape) \o <<k>>, data |-> [n \in Cells(Front(x.shape) \o <<k>>) |-> top(Line(x, n \div k), n % k)]]
SummedAlong(x, axis) ==
  LET shape == RemoveAt(x.shape, axis)
      at(c, j) == x.data[Place(InsertAt(c, axis, j), x.shape)]
  IN [shape |-> shape, data |-> [n \in Cells(shape) |->
        FoldLeft(LAMBDA s, j : s + at(CoordOf(n, shape), j - 1), 0, Identity(x.shape[axis]))]]
Multiplied(x, y, d) ==
  LET lf == FreeAxes(Len(x.shape), d.lb \o d.lc)
      rf == FreeAxes(Len(y.shape), d.rb \o d.rc)
      shape == Picked(x.shape, d.lb \o lf) \o Picked(y.shape, rf)
      inner == Picked(x.shape, d.lc)
      left(o, i) == x.data[Place(Among(Len(x.shape), d.lb \o lf \o d.lc, SubSeq(o, 1, Len(d.lb \o lf)) \o i), x.shape)]
      right(o, i) == y.data[Place(Among(Len(y.shape), d.rb \o rf \o d.rc,
                                    SubSeq(o, 1, Len(d.lb)) \o SubSeq(o, Len(d.lb \o lf) + 1, Len(o)) \o i), y.shape)]
      sum(o) == FoldLeft(LAMBDA s, q : s + left(o, CoordOf(q - 1, inner)) * right(o, CoordOf(q - 1, inner)), 0, Identity(Volume(inner)))
  IN [shape |-> shape, data |-> [n \in Cells(shape) |-> sum(CoordOf(n, shape))]]
Elementwise == {"convert", "add", "multiply", "maximum", "equal"}
Combined(op, elem, a, b) ==
  CASE op = "convert" -> Rounded(elem, a) [] op = "add" -> a + b [] op = "multiply" -> a * b
    [] op = "maximum" -> Max({a, b}) [] op = "equal" -> IF a = b THEN 1 ELSE 0
Elements(d, in) == Zipped(LAMBDA a, b : Combined(d.op, d.elem, a, b), in[1], Last(in))
Sliced(x, at) == Slice(x, at.lo, at.hi, at.step)
Computed(d, in) ==
  CASE d.op = "arg" -> [shape |-> d.shape, data |-> [n \in Cells(d.shape) |-> Argument(d.name, n)]]
    [] d.op = "constant" -> Filled(d.shape, d.at)
    [] d.op = "iota" -> [shape |-> d.shape, data |-> [n \in Cells(d.shape) |-> CoordOf(n, d.shape)[d.at]]]
    [] d.op = "broadcast" -> Expanded(in[1], d.shape, d.at)
    [] d.op = "transpose" -> Transposed(in[1], d.at)
    [] d.op = "reshape" -> Reshaped(in[1], d.shape)
    [] d.op = "slice" -> Sliced(in[1], d.at)
    [] d.op = "concatenate" -> Appended(in[1], in[2], d.at)
    [] d.op = "topk" -> TopK(in[1], d.at.k, d.at.what)
    [] d.op = "reduce" -> Mapped(LAMBDA n : n + d.at.init, SummedAlong(in[1], d.at.axis))
    [] d.op = "dot" -> Multiplied(in[1], in[2], d.at)
    [] OTHER -> Elements(d, in)
\* With the value at `pin.v` given.
Values(g, pin) ==
  FoldLeft(LAMBDA vals, v : Append(vals, IF v = pin.v THEN pin.x ELSE Computed(g[v], [j \in DOMAIN g[v].ins |-> vals[g[v].ins[j]]])),
           <<>>, Identity(Len(g)))
Unpinned == [v |-> 0, x |-> 0]

---------------------------------------------------------------------------
(* What is recognized. A walk that bails gives no result: the empty set.   *)
When(p, x) == IF p THEN {x} ELSE {}
Operand(g, v, j) == g[v].ins[j]
UnderConverts(g) == LET f[v \in DOMAIN g] == IF g[v].op = "convert" THEN f[g[v].ins[1]] ELSE v IN f
ZeroSum(g, v) == IF g[v].op = "reduce" THEN When(g[v].at.init = 0, g[v].at.axis) ELSE {}

\* Through what only lays out, to the first value of a shape in `stop`:
\* dims[j] is the axis of the first value that axis j lands in.
WideAxes(shape) == SelectSeq(Identity(Len(shape)), LAMBDA i : shape[i] # 1)
PeelUnits(s, in, from, to) ==
  LET place(i) == Cardinality({j \in 1 .. i : from[j] # 1})
  IN IF Picked(from, WideAxes(from)) # Picked(to, WideAxes(to)) THEN s
     ELSE [v |-> in, dims |-> [i \in DOMAIN from |-> IF from[i] = 1 THEN 0 ELSE s.dims[WideAxes(to)[place(i)]]]]
PeelOp(g, s) ==
  CASE g[s.v].op = "convert" -> [s EXCEPT !.v = Operand(g, @, 1)]
    [] g[s.v].op = "broadcast" -> [v |-> Operand(g, s.v, 1), dims |-> Picked(s.dims, g[s.v].at)]
    [] g[s.v].op = "transpose" ->
         [v |-> Operand(g, s.v, 1), dims |-> [j \in DOMAIN g[s.v].at |-> s.dims[CHOOSE i \in DOMAIN g[s.v].at : g[s.v].at[i] = j]]]
    [] g[s.v].op = "reshape" -> PeelUnits(s, Operand(g, s.v, 1), g[Operand(g, s.v, 1)].shape, g[s.v].shape)
    [] OTHER -> s
PeelStep(g, stop, s) == IF g[s.v].shape \in stop THEN s ELSE PeelOp(g, s)
Peel(g, v, stop) == FoldLeft(LAMBDA s, i : PeelStep(g, stop, s), [v |-> v, dims |-> Identity(Len(g[v].shape))], Identity(Len(g)))
IsIotaAt(g, p, axis, length) ==
  /\ g[p.v].op = "iota" /\ p.dims[g[p.v].at] = axis
  /\ g[p.v].shape[g[p.v].at] = length /\ Volume(g[p.v].shape) = length
IsIota(g, v, axis, length) == IsIotaAt(g, Peel(g, v, {}), axis, length)

\* The router: the score is the weights put at the places a top-k chose.
IsLaid(g, p, dims, shape) == p.dims = dims /\ g[p.v].shape = shape
LaidAt(g, v, dims, shape) == {p \in {Peel(g, v, {shape})} : IsLaid(g, p, dims, shape)}
\* The first of two operands that suits, and the other.
Sides(suits) == IF 1 \in suits THEN {<<1, 2>>} ELSE IF 2 \in suits THEN {<<2, 1>>} ELSE {}
IsTopK(g, v, t, k, e) == g[v].op = "topk" /\ g[v].at.k = k /\ g[Operand(g, v, 1)].shape = <<t, e>>
Chosen(g, r) ==
  {p \in LaidAt(g, r.index, <<r.t, r.k>>, <<r.T, r.K>>) : g[p.v].frame = 0 /\ IsTopK(g, p.v, r.T, r.K, r.E)}
\* The one-hot: an iota of the experts compared with the indices.
OneHot(g, c, r) ==
  IF g[c].op # "equal" THEN {}
  ELSE UNION {{[weights |-> r.weights, indices |-> p.v, T |-> r.T, K |-> r.K, E |-> r.E] :
                 p \in Chosen(g, [r EXCEPT !.index = Operand(g, c, i[2])])} :
                i \in Sides({i \in 1 .. 2 : IsIota(g, Operand(g, c, i), r.e, r.E)})}
Weighting(g, m, r) ==
  UNION {UNION {OneHot(g, UnderConverts(g)[Operand(g, m, i[2])], [r EXCEPT !.weights = p.v]) :
                  p \in {p \in LaidAt(g, Operand(g, m, i[1]), <<r.t, r.k>>, <<r.T, r.K>>) : g[p.v].frame = 0}} :
           i \in Sides({i \in 1 .. 2 : LaidAt(g, Operand(g, m, i), <<r.t, r.k>>, <<r.T, r.K>>) # {}})}
RouterAt(g, m, k, e, t) ==
  IF g[m].op # "multiply" \/ Len(g[m].shape) # 3 THEN {}
  ELSE Weighting(g, m, [k |-> k, e |-> e, t |-> t, K |-> g[m].shape[k], E |-> g[m].shape[e], T |-> g[m].shape[t], index |-> 0, weights |-> 0])
\* `e` and `t` are axes of the score's own shape.
MatchRouter(g, score, e, t) ==
  UNION {RouterAt(g, UnderConverts(g)[Operand(g, score, 1)], k, FreeAxes(3, <<k>>)[e], FreeAxes(3, <<k>>)[t]) : k \in ZeroSum(g, score)}

---------------------------------------------------------------------------
(* The planner: a value in pair space is [v, ea, ta], the axes of its      *)
(* dense shape that carry the expert and the token.                        *)
At(v, ea, ta) == [v |-> v, ea |-> ea, ta |-> ta]
Of(s) == {s.ea, s.ta} \ {0}
Trailing(shape, s) == Picked(shape, SelectSeq(Identity(Len(shape)), LAMBDA i : i \notin Of(s)))
TPos(s, axis) == Cardinality((1 .. axis) \ Of(s))
Node(kind, srcs, with) == [kind |-> kind, srcs |-> srcs, with |-> with]
External(g, s) == When(g[s.v].frame = 0, Node("external", <<>>, 0))
Nullary(g, s) == IF Of(s) # {} THEN {} ELSE IF g[s.v].frame = 0 THEN External(g, s) ELSE {Node("nullary", <<>>, 0)}
Elem(g, s) ==
  When(\A j \in DOMAIN g[s.v].ins : g[Operand(g, s.v, j)].shape \in {g[s.v].shape, <<>>},
       Node("elem", [j \in DOMAIN g[s.v].ins |->
                       IF g[Operand(g, s.v, j)].shape = g[s.v].shape THEN [s EXCEPT !.v = Operand(g, s.v, j)] ELSE At(Operand(g, s.v, j), 0, 0)], 0))
Concat(g, s) == When(g[s.v].at \notin Of(s), Node("concat", [j \in 1 .. 2 |-> [s EXCEPT !.v = Operand(g, s.v, j)]], TPos(s, g[s.v].at)))
\* The axis of the operand that `axis` is; one of size one is stretched.
CarriedBy(at, from, axis) ==
  LET js == {j \in DOMAIN at : at[j] = axis /\ from[j] # 1} IN IF js = {} THEN 0 ELSE CHOOSE j \in js : TRUE
\* Where each axis but the carried ones lands, or 0 for one that is dropped.
Keep(at, s, src) ==
  [k \in DOMAIN Trailing(at, src) |-> IF Trailing(at, src)[k] \in Of(s) THEN 0 ELSE TPos(s, Trailing(at, src)[k])]
BcastFrom(g, s, src) == Node("bcast", <<src>>, Keep(g[s.v].at, s, src))
Bcast(g, s) ==
  LET at == g[s.v].at
      from == g[Operand(g, s.v, 1)].shape
  IN When(\A i, j \in DOMAIN at : i < j => at[i] <= at[j],
          BcastFrom(g, s, At(Operand(g, s.v, 1), CarriedBy(at, from, s.ea), CarriedBy(at, from, s.ta))))
MovedTo(perm, axis) == IF axis = 0 THEN 0 ELSE perm[axis]
\* (mutant) of Order: the trailing axes in the order the operand has them.
OrderKept(perm, s, src) == Identity(Len(perm) - Cardinality(Of(s)))
Order(perm, s, src) == LET left == Trailing(perm, s) IN [i \in DOMAIN left |-> TPos(src, left[i])]
TransposeFrom(g, s, src) == {Node("transpose", <<src>>, Order(g[s.v].at, s, src))}
Transpose(g, s) == TransposeFrom(g, s, At(Operand(g, s.v, 1), MovedTo(g[s.v].at, s.ea), MovedTo(g[s.v].at, s.ta)))
KeepsLeading(from, to, m) == Len(from) >= m /\ SubSeq(from, 1, m) = SubSeq(to, 1, m)
Reshape(g, s) ==
  When(KeepsLeading(g[Operand(g, s.v, 1)].shape, g[s.v].shape, Max({s.ea, s.ta})), Node("reshape", <<[s EXCEPT !.v = Operand(g, s.v, 1)]>>, 0))
Cut(g, s) ==
  When(\A a \in Of(s) : g[s.v].at.lo[a] = 0 /\ g[s.v].at.hi[a] = g[Operand(g, s.v, 1)].shape[a] /\ g[s.v].at.step[a] = 1,
       Node("slice", <<[s EXCEPT !.v = Operand(g, s.v, 1)]>>,
            [lo |-> Trailing(g[s.v].at.lo, s), hi |-> Trailing(g[s.v].at.hi, s), step |-> Trailing(g[s.v].at.step, s)]))

\* The per-expert dots. An axis of the result: the side it comes from, 0 for
\* both, and its axis there, or its place among the batching axes.
Where(d, lfree, rfree, axis) ==
  IF axis <= Len(d.lb) THEN [side |-> 0, dim |-> axis]
  ELSE IF axis <= Len(d.lb) + Len(lfree) THEN [side |-> 1, dim |-> lfree[axis - Len(d.lb)]]
  ELSE [side |-> 2, dim |-> rfree[axis - Len(d.lb) - Len(lfree)]]
SideOf(g, v, j, batch, contract) ==
  [v |-> Operand(g, v, j), shape |-> g[Operand(g, v, j)].shape, batch |-> batch, contract |-> contract,
   free |-> FreeAxes(Len(g[Operand(g, v, j)].shape), batch \o contract)]
\* `w` is the weight's side and `x` the data's; E and X the expert's axis there.
WeightFits(w, E) == (w.batch = <<>> \/ w.batch = <<E>>) /\ E = 1
\* (mutant) of LaidWeight: the matrix is taken as it lies.
AnyLayout(w, wn) == {TRUE}
\* Whether the rows of the weight's matrix are its free axes.
LaidWeight(w, wn) ==
  LET ramp == [i \in 1 .. Len(w.shape) - 1 |-> i + 1]
  IN IF wn \o w.contract = ramp THEN {TRUE} ELSE IF w.contract \o wn = ramp THEN {FALSE} ELSE {}
Less(axes, axis) == SelectSeq(axes, LAMBDA a : a # axis)
PlaceIn(axes, axis) == CHOOSE i \in DOMAIN axes : axes[i] = axis
\* The dense order of the pair's [M] + [N].
Reordered(s, at, rank, x, mdims, wn) ==
  LET left == SelectSeq(Identity(rank), LAMBDA i : i \notin Of(s))
  IN [i \in DOMAIN left |-> IF at[left[i]].side = x THEN PlaceIn(mdims, at[left[i]].dim) ELSE Len(mdims) + PlaceIn(wn, at[left[i]].dim)]
DotOf(g, s, at, x, xs, w, E, X, T, wn, mdims) ==
  {Node("dot", <<At(xs.v, X, T)>>,
        [nFirst |-> n, weight |-> w.v, mshape |-> Picked(xs.shape, mdims), nshape |-> Picked(w.shape, wn), K |-> Volume(Picked(w.shape, w.contract)),
         order |-> Reordered(s, at, Len(g[s.v].shape), x, mdims, wn)]) :
     n \in IF WeightFits(w, E) /\ g[w.v].frame = 0 /\ \A i \in DOMAIN at : (i \in Of(s) \/ at[i].side # 0) THEN LaidWeight(w, wn) ELSE {}}
DotWith(g, s, at, x, xs, w, E, X, T) == DotOf(g, s, at, x, xs, w, E, X, T, Less(w.free, E), Less(xs.free, T))
DotAt(g, s, at, sides) ==
  LET x == at[s.ta].side
      e == at[s.ea]
  IN IF x = 0 \/ e.side = x THEN {}
     ELSE IF e.side = 0
          THEN DotWith(g, s, at, x, sides[x], sides[3 - x], sides[3 - x].batch[e.dim], sides[x].batch[e.dim], at[s.ta].dim)
          ELSE DotWith(g, s, at, x, sides[x], sides[3 - x], e.dim, 0, at[s.ta].dim)
DotSides(g, s, d, sides) ==
  DotAt(g, s, [i \in DOMAIN g[s.v].shape |-> Where(d, sides[1].free, sides[2].free, i)], sides)
Dot(g, s) ==
  IF s.ta = 0 THEN {}
  ELSE DotSides(g, s, g[s.v].at, <<SideOf(g, s.v, 1, g[s.v].at.lb, g[s.v].at.lc), SideOf(g, s.v, 2, g[s.v].at.rb, g[s.v].at.rc)>>)

\* What carries no expert stays outside: it is computed once and gathered.
Build(g, s) ==
  IF g[s.v].op = "arg" \/ (g[s.v].frame = 0 /\ s.ea = 0) THEN External(g, s)
  ELSE CASE g[s.v].op \in {"constant", "iota"} -> Nullary(g, s)
         [] g[s.v].op \in Elementwise -> Elem(g, s)
         [] g[s.v].op = "concatenate" -> Concat(g, s)
         [] g[s.v].op = "broadcast" -> Bcast(g, s)
         [] g[s.v].op = "transpose" -> Transpose(g, s)
         [] g[s.v].op = "reshape" -> Reshape(g, s)
         [] g[s.v].op = "slice" -> Cut(g, s)
         [] g[s.v].op = "dot" -> Dot(g, s)
         [] OTHER -> {}
AxesFit(g, s, r) == (s.ea # 0 => g[s.v].shape[s.ea] = r.E) /\ (s.ta # 0 => g[s.v].shape[s.ta] = r.T)
PlanAt(g, r, due, v) ==
  {[at |-> s, node |-> IF AxesFit(g, s, r) THEN Build(g, s) ELSE {}] : s \in {s \in due : s.v = v}}
Demanded(nodes) == UNION {UNION {Range(n.srcs) : n \in p.node} : p \in nodes}
Extended(plan, nodes) == [due |-> plan.due \cup Demanded(nodes), nodes |-> plan.nodes \cup nodes]
\* Each value once for each pair of axes it is wanted with.
Plan(g, r, s) ==
  FoldLeft(LAMBDA plan, v : Extended(plan, PlanAt(g, r, plan.due, v)), [due |-> {s}, nodes |-> {}], Reverse(Identity(Len(g)))).nodes

\* The sum over the experts: the score, and what it weights. Conversions of
\* the products before they are summed are passed over.
IsScore(p, e) == Len(p.dims) = 2 /\ \E i \in 1 .. 2 : p.dims[i] = e /\ p.dims[3 - i] \notin {0, e}
ExpertAxis(p, e) == CHOOSE i \in 1 .. 2 : p.dims[i] = e
Sum(g, m, e, t, i, r) ==
  [m |-> m, e |-> e, t |-> t, score |-> Operand(g, m, i[1]), y |-> At(Operand(g, m, i[2]), e, t), router |-> r,
   plan |-> Plan(g, r, At(Operand(g, m, i[2]), e, t))]
Scored(g, m, e, i, p, x) ==
  {Sum(g, m, e, p.dims[3 - x], i, r) :
     r \in {r \in MatchRouter(g, p.v, x, 3 - x) : g[m].shape[e] = r.E /\ g[m].shape[p.dims[3 - x]] = r.T}}
ScoreAt(g, m, e, i, p) == Scored(g, m, e, i, p, ExpertAxis(p, e))
Sums(g, m, e) ==
  IF g[m].op # "multiply" \/ g[m].frame # 0 THEN {}
  ELSE UNION {ScoreAt(g, m, e, i, Peel(g, Operand(g, m, i[1]), {})) :
                i \in Sides({i \in 1 .. 2 : IsScore(Peel(g, Operand(g, m, i), {}), e)})}
Plans(m) == {p.node : p \in m.plan}
AnalyzeRoot(g) ==
  {m \in UNION {Sums(g, UnderConverts(g)[Operand(g, Len(g), 1)], e) : e \in ZeroSum(g, Len(g))} :
     /\ {} \notin Plans(m)
     /\ \A p \in m.plan : p.at = m.y => \A n \in p.node : n.kind # "external"
     /\ \E p \in m.plan : \E n \in p.node : n.kind = "dot"}

\* Before it runs, on logits that are made up: the scores are the weights at
\* the matched indices, and no token has more than K.
Draws == 0 .. 1
Drawn(draw, n) == IF draw = 0 THEN <<7, 3, 8, 5, 6, 1>>[(n % 6) + 1] ELSE <<4, 4, 2, 2, 4, 6>>[(n % 6) + 1]
SyntheticLogits(draw, shape) == [shape |-> shape, data |-> [n \in Cells(shape) |-> Drawn(draw, n)]]
Scattered(r, idx, w, elem) ==
  [shape |-> <<r.T, r.E>>, data |-> [n \in Cells(<<r.T, r.E>>) |->
     FoldLeft(LAMBDA s, k : LET p == (n \div r.E) * r.K + k - 1 IN s + (IF idx.data[p] = n % r.E THEN Rounded(elem, w.data[p]) ELSE 0),
              0, Identity(r.K))]]
\* (mutant) of CheckRouter: any scores will do.
AnyRouter(g, m, vals, ref) == TRUE
CheckRouter(g, m, vals, ref) ==
  /\ vals[m.score] = Expanded(ref, g[m.score].shape, <<m.t, m.e>>)
  /\ \A t \in 0 .. m.router.T - 1 : Cardinality({e \in 0 .. m.router.E - 1 : ref.data[t * m.router.E + e] # 0}) <= m.router.K
CheckDraw(g, m, vals) ==
  CheckRouter(g, m, vals, Scattered(m.router, vals[m.router.indices], vals[m.router.weights], g[m.score].elem))
VerifyMoe(g, m, logits) ==
  g[logits].frame = 0 /\ \A d \in Draws : CheckDraw(g, m, Values(g, [v |-> logits, x |-> SyntheticLogits(d, g[logits].shape)]))
Verified(g) == {m \in AnalyzeRoot(g) : VerifyMoe(g, m, Operand(g, m.router.indices, 1))}

---------------------------------------------------------------------------
(* What is lowered and run: an array of every node, led by the pairs, by   *)
(* one that stands for all, or, where it has no such axis, not led at all. *)
\* The expert and the token of every pair.
PairsOf(r, idx) == [e |-> idx.data, t |-> [p \in 0 .. r.T * r.K - 1 |-> p \div r.K], n |-> r.T * r.K]
Paired(s) == Of(s) # {}
PairLead(x, paired) == IF paired THEN x ELSE Reshaped(x, <<1>> \o x.shape)
Led(x, n) == Expanded(x, [x.shape EXCEPT ![1] = n], Identity(Len(x.shape)))
Gathered(x, s, pairs, shape) ==
  LET from(c) == [i \in DOMAIN x.shape |-> IF i = s.ea THEN pairs.e[c[1]] ELSE IF i = s.ta THEN pairs.t[c[1]] ELSE c[1 + TPos(s, i)]]
  IN [shape |-> shape, data |-> [n \in Cells(shape) |-> x.data[Place(from(CoordOf(n, shape)), x.shape)]]]
MoeGather(x, s, pairs) == IF Paired(s) THEN Gathered(x, s, pairs, <<pairs.n>> \o Trailing(x.shape, s)) ELSE x
Aligned(a, b) == [i \in DOMAIN a |-> IF i <= Len(a) - Len(b) THEN a[i] ELSE Max({a[i], b[i - Len(a) + Len(b)]})]
Common(a, b) == IF Len(a) >= Len(b) THEN Aligned(a, b) ELSE Aligned(b, a)
Stretched(x, shape) == Expanded(x, shape, [j \in DOMAIN x.shape |-> Len(shape) - Len(x.shape) + j])
MoeElem(d, in, shape) == Elements(d, [j \in DOMAIN in |-> Stretched(in[j], shape)])
MoeConcat(in, axis, lead) == Appended(Led(in[1], lead), Led(in[2], lead), 1 + axis)
ViewBcast(x, keep, trailing) ==
  LET view == [d \in DOMAIN trailing |-> IF \E j \in DOMAIN keep : keep[j] = d THEN x.shape[1 + CHOOSE j \in DOMAIN keep : keep[j] = d] ELSE 1]
  IN Expanded(Reshaped(x, <<x.shape[1]>> \o view), <<x.shape[1]>> \o trailing, Identity(Len(trailing) + 1))
After(order) == <<1>> \o [i \in DOMAIN order |-> 1 + order[i]]
ViewSlice(x, cut) == Slice(x, <<0>> \o cut.lo, <<x.shape[1]>> \o cut.hi, <<1>> \o cut.step)
\* The operand's rows, [M, K] each, and which of them a pair takes.
TokenRows(x, ta, k, pairs) ==
  LET rows == Transposed(x, <<ta>> \o Less(Identity(Len(x.shape)), ta))
  IN [x |-> rows.data, size |-> Volume(x.shape) \div x.shape[ta], k |-> k, of |-> pairs.t]
PairRows(x, k, pairs) == [x |-> Led(x, pairs.n).data, size |-> Volume(x.shape) \div x.shape[1], k |-> k, of |-> [p \in 0 .. pairs.n - 1 |-> p]]
GatherMm(rows, w, d, pairs, shape) ==
  LET N == Volume(d.nshape)
      weight(e, n, k) == w.data[e * N * d.K + (IF d.nFirst THEN n * d.K + k ELSE k * N + n)]
      sum(p, m, n) == FoldLeft(LAMBDA s, k : s + rows.x[rows.of[p] * rows.size + m * d.K + k - 1] * weight(pairs.e[p], n, k - 1), 0, Identity(d.K))
      M == Volume(d.mshape)
  IN [shape |-> shape, data |-> [q \in Cells(shape) |-> sum(q \div (M * N), (q \div N) % M, q % N)]]
MoeDot(rows, w, d, pairs, trailing) ==
  Reshaped(Transposed(GatherMm(rows, w, d, pairs, <<pairs.n>> \o d.mshape \o d.nshape), After(d.order)), <<pairs.n>> \o trailing)
\* Rows that carry the token alone are read where they are.
RowsOf(src, in, vals, k, pairs, external) ==
  IF external /\ src.ea = 0 THEN TokenRows(vals[src.v], src.ta, k, pairs) ELSE PairRows(PairLead(in, Paired(src)), k, pairs)
IsExternal(m, s) == \E p \in m.plan : p.at = s /\ \E n \in p.node : n.kind = "external"
LowerMoeNode(g, m, s, n, in, vals, pairs, trailing) ==
  CASE n.kind = "external" -> MoeGather(vals[s.v], s, pairs)
    [] n.kind = "nullary" -> vals[s.v]
    [] n.kind = "elem" -> MoeElem(g[s.v], in, Common(in[1].shape, Last(in).shape))
    [] n.kind = "concat" -> MoeConcat(in, n.with, Max({in[1].shape[1], in[2].shape[1]}))
    [] n.kind = "bcast" -> ViewBcast(PairLead(in[1], Paired(n.srcs[1])), n.with, trailing)
    [] n.kind = "transpose" -> Transposed(PairLead(in[1], Paired(n.srcs[1])), After(n.with))
    [] n.kind = "reshape" -> LET x == PairLead(in[1], Paired(n.srcs[1])) IN Reshaped(x, <<x.shape[1]>> \o trailing)
    [] n.kind = "slice" -> ViewSlice(PairLead(in[1], Paired(n.srcs[1])), n.with)
    [] n.kind = "dot" ->
         MoeDot(RowsOf(n.srcs[1], in[1], vals, n.with.K, pairs, IsExternal(m, n.srcs[1])), vals[n.with.weight], n.with, pairs, trailing)
Found(out, s) == (CHOOSE o \in out : o.at = s).x
Lowered(g, m, p, n, out, vals, pairs) ==
  [at |-> p.at, x |-> LowerMoeNode(g, m, p.at, n, [j \in DOMAIN n.srcs |-> Found(out, n.srcs[j])], vals, pairs, Trailing(g[p.at.v].shape, p.at))]
Nodes(g, m, vals, pairs) ==
  FoldLeft(LAMBDA out, v : out \cup UNION {{Lowered(g, m, p, n, out, vals, pairs) : n \in p.node} : p \in {p \in m.plan : p.at.v = v}},
           {}, Identity(Len(g)))
\* The pairs weighted and summed by token, the token's axis put back.
MoeTail(g, m, y, w, product, sum) ==
  LET r == m.router
      each == Volume(y.shape) \div y.shape[1]
      term(t, k, i) == LET p == t * r.K + k - 1
                       IN Rounded(sum, y.data[p * each + i] * Rounded(product, w.data[p]))
      rows == [shape |-> <<r.T>> \o Tail(y.shape), data |-> [q \in 0 .. r.T * each - 1 |->
                 FoldLeft(LAMBDA s, k : s + term(q \div each, k, q % each), 0, Identity(r.K))]]
      axis == IF m.e < m.t THEN m.t - 1 ELSE m.t
  IN Transposed(rows, [i \in DOMAIN rows.shape |-> IF i < axis THEN i + 1 ELSE IF i = axis THEN 1 ELSE i])
LowerMoe(g, m, vals, pairs) ==
  MoeTail(g, m, Led(PairLead(Found(Nodes(g, m, vals, pairs), m.y), Paired(m.y)), pairs.n), vals[m.router.weights],
          g[m.m].elem, g[Operand(g, Len(g), 1)].elem)
MoeIsExactOf(g, vals) == \A m \in Verified(g) : LowerMoe(g, m, vals, PairsOf(m.router, vals[m.router.indices])) = vals[Len(g)]
MoeIsExact(g) == MoeIsExactOf(g.ops, Values(g.ops, Unpinned))
=============================================================================

-------------------------------- MODULE Norm --------------------------------
(***************************************************************************)
(* A spelled-out root-mean-square or layer norm against MLX's fused kernel *)
(* (metal_norm.cc). The graph `g.ops` is the sequence of ops the root, its *)
(* last, may read; a value is the place of the op that makes it:           *)
(*   op    what it is; "arg" is a value that comes from elsewhere          *)
(*   ins   the values it reads                                             *)
(*   shape, elem  what it makes                                            *)
(*   at    the permutation, the axes a broadcast names, the axis of a      *)
(*         reduction and its initial value, the number a constant holds    *)
(* Numbers are exact; beside each goes how many bits of it survive.        *)
(***************************************************************************)
EXTENDS Arrays

Bits(elem) == CASE elem = "bf16" -> 8 [] elem = "f16" -> 11 [] elem = "f32" -> 24 [] OTHER -> 0
Width(elem) == IF elem = "f32" THEN 32 ELSE 16
Narrowed(x, bits) == [x EXCEPT !.bits = Min({@, bits})]
Exactly(n) == [n |-> n, bits |-> 24]
HalfRoot == -2000 \* the constant -1/2; no other constant has its place

---------------------------------------------------------------------------
(* What the chain computes. *)
\* Injective: who takes the root of something else gets something else.
Rsqrt(n) == 1009 + 31 * n
Plus(a, b) == [n |-> a.n + b.n, bits |-> Min({a.bits, b.bits})]
Minus(a, b) == Plus(a, [b EXCEPT !.n = -@])
Times(a, b) == [n |-> a.n * b.n, bits |-> Min({a.bits, b.bits})]
Over(a, b) == [n |-> IF b.n = 0 THEN 0 ELSE a.n \div b.n, bits |-> Min({a.bits, b.bits})]
Greater(a, b) == [n |-> Max({a.n, b.n}), bits |-> Min({a.bits, b.bits})]
Rooted(a) == [a EXCEPT !.n = Rsqrt(@)]
Powered(a, e) == IF e.n = HalfRoot THEN Rooted(a) ELSE IF e.n = 2 THEN Times(a, a) ELSE Times(Times(a, a), a)
\* Along the last axis, which goes.
SummedLast(x, init) ==
  LET k == Last(x.shape)
      row(o) == FoldLeft(Plus, Exactly(init), [j \in 1 .. k |-> x.data[o * k + j - 1]])
  IN [shape |-> Front(x.shape), data |-> [o \in Cells(Front(x.shape)) |-> row(o)]]
Turned(x, axis) == IF axis = Len(x.shape) THEN x ELSE Transposed(x, FreeAxes(Len(x.shape), <<axis>>) \o <<axis>>)
\* dot_general of a vector with a batching dimension and nothing to contract.
Paired(w, y, axis) ==
  LET turned == Transposed(y, <<axis>> \o FreeAxes(Len(y.shape), <<axis>>))
  IN Zipped(Times, Expanded(w, turned.shape, <<1>>), turned)
\* Columns of even sums, so that a mean is exact.
Argument(name, n) ==
  CASE name = "x" -> <<1, 3, 2, 6>>[n + 1] [] name = "z" -> <<5, 1, 4, 2>>[n + 1]
    [] name = "w" -> <<3, 5>>[n + 1] [] name = "b" -> <<7, 11>>[n + 1]
Computed(d, x, y) ==
  CASE d.op = "arg" -> [shape |-> d.shape, data |-> [n \in Cells(d.shape) |-> Exactly(Argument(d.name, n))]]
    [] d.op = "const" -> Filled(d.shape, Exactly(d.at[1]))
    [] d.op = "convert" -> x
    [] d.op = "broadcast" -> Expanded(x, d.shape, d.at)
    [] d.op = "reshape" -> Reshaped(x, d.shape)
    [] d.op = "transpose" -> Transposed(x, d.at)
    [] d.op = "reduce" -> SummedLast(Turned(x, d.at[1]), d.at[2])
    [] d.op = "dot" -> Paired(x, y, d.at[1])
    [] d.op = "add" -> Zipped(Plus, x, y)
    [] d.op = "subtract" -> Zipped(Minus, x, y)
    [] d.op = "multiply" -> Zipped(Times, x, y)
    [] d.op = "divide" -> Zipped(Over, x, y)
    [] d.op = "maximum" -> Zipped(Greater, x, y)
    [] d.op = "rsqrt" -> Mapped(Rooted, x)
    [] d.op = "power" -> Zipped(Powered, x, y)
Stored(d, y) == IF d.op \in {"arg", "const"} THEN y ELSE Mapped(LAMBDA a : Narrowed(a, Bits(d.elem)), y)
Values(g) ==
  LET val[v \in DOMAIN g] ==
        LET in(j) == IF j <= Len(g[v].ins) THEN val[g[v].ins[j]] ELSE Filled(<<>>, 0)
        IN Stored(g[v], Computed(g[v], in(1), in(2)))
  IN val
ChainNorm(g) == Values(g)[Len(g)]

---------------------------------------------------------------------------
(* What is recognized. A walk that bails gives no result: the empty set.   *)
When(p, x) == IF p THEN {x} ELSE {}
OpAt(g, v, op) == g[v].op = op
Operand(g, v, j) == g[v].ins[j]
\* Both ways to take a binary op's operands, the first that suits.
Ways(g, v) == <<<<Operand(g, v, 1), Operand(g, v, 2)>>, <<Operand(g, v, 2), Operand(g, v, 1)>>>>
Turns(g, v) == Reverse(Ways(g, v))
First(ways, Suits(_)) == LET s == SelectSeq(ways, Suits) IN IF s = <<>> THEN {} ELSE {s[1]}

Under(g, ops) == LET f[v \in DOMAIN g] == IF g[v].op \in ops THEN f[g[v].ins[1]] ELSE v IN f
Casts == {"broadcast", "reshape", "convert"}
Splat(g, v) == LET c == Under(g, Casts)[v] IN IF OpAt(g, c, "const") THEN {g[c].at[1]} ELSE {}
PeelUpcast(g, v) == IF OpAt(g, v, "convert") THEN When(g[v].elem = "f32", Operand(g, v, 1)) ELSE {v}
PeelConvert(g, v) == IF OpAt(g, v, "convert") THEN Operand(g, v, 1) ELSE v
PeelKeepReshape(g, v, out) ==
  IF OpAt(g, v, "reshape") /\ g[v].shape = Front(out) \o <<1>> /\ g[Operand(g, v, 1)].shape = Front(out)
  THEN Operand(g, v, 1) ELSE v
\* (mutant) Any constant that is subtracted is a mean of zero.
PeelAnySplat(g, v) ==
  IF ~OpAt(g, v, "subtract") THEN [x |-> v, mean |-> {}]
  ELSE [x |-> Operand(g, v, 1), mean |-> IF Splat(g, Operand(g, v, 2)) # {} THEN {} ELSE {Operand(g, v, 2)}]
PeelMeanSubtract(g, v) ==
  IF ~OpAt(g, v, "subtract") THEN [x |-> v, mean |-> {}]
  ELSE [x |-> Operand(g, v, 1), mean |-> IF Splat(g, Operand(g, v, 2)) = {0} THEN {} ELSE {Operand(g, v, 2)}]
\* Down to the first vector.
ToVector(g) ==
  LET f[v \in DOMAIN g] == IF Len(g[v].shape) = 1 THEN {v} ELSE IF g[v].op \in Casts THEN f[g[v].ins[1]] ELSE {} IN f
IsFeatureBroadcast(g, v, n) == OpAt(g, v, "broadcast") /\ \E u \in ToVector(g)[v] : g[u].shape = <<n>>
RsqrtOperand(g, v) ==
  When(OpAt(g, v, "rsqrt") \/ (OpAt(g, v, "power") /\ Splat(g, Operand(g, v, 2)) = {HalfRoot}), Operand(g, v, 1))
IsScale(g, v) == OpAt(g, v, "broadcast") /\ RsqrtOperand(g, Operand(g, v, 1)) # {}
\* A multiply of anything by a broadcast root: <<the broadcast, the other>>.
RsqrtSide(g, v) == IF OpAt(g, v, "multiply") THEN First(Turns(g, v), LAMBDA w : IsScale(g, w[1])) ELSE {}
NormalizeMul(g, v) == RsqrtSide(g, PeelConvert(g, v))

\* The learned scale: from what multiplies, down to a vector. `dim` is the
\* feature axis, `offset` what was added on the way, last in type `adds`.
Weight(v, dim) == [v |-> v, dim |-> dim, offset |-> 0, adds |-> "none", done |-> FALSE, elem |-> "none"]
Uses(g, v) == Cardinality({u \in UNION {{<<r, j>> : j \in DOMAIN g[r].ins} : r \in DOMAIN g} : g[u[1]].ins[u[2]] = v})
AtWidth(g, s) == Len(g[s.v].shape) = 1 /\ s.dim = 1
Shared(g, s) == AtWidth(g, s) /\ s.offset = 0 /\ Uses(g, s.v) > 1
Found(g, n, s, elem) == When(g[s.v].shape = <<n>>, [s EXCEPT !.done = TRUE, !.elem = elem])
PeelWiden(g, s) ==
  IF ~OpAt(g, s.v, "convert") THEN {}
  ELSE When(Width(g[Operand(g, s.v, 1)].elem) <= Width(g[s.v].elem), [s EXCEPT !.v = Operand(g, s.v, 1)])
PeelOffset(g, n, s) ==
  IF ~OpAt(g, s.v, "add") THEN {}
  ELSE IF Shared(g, s) THEN Found(g, n, s, g[s.v].elem)
  ELSE UNION {{[s EXCEPT !.v = w[1], !.offset = @ + c, !.adds = g[s.v].elem] : c \in Splat(g, w[2])} :
                w \in First(Ways(g, s.v), LAMBDA w : Splat(g, w[2]) # {})}
\* (mutant) of FormedIn: an offset is added in the type the weight is stored in.
FormedAsStored(own, s) == {own}
FormedIn(own, s) == IF s.offset = 0 \/ s.adds = own THEN {own} ELSE When(s.adds = "f32", "f32")
PeelExit(g, n, s) ==
  IF g[s.v].op \notin {"convert", "add"} /\ AtWidth(g, s)
  THEN UNION {Found(g, n, s, e) : e \in FormedIn(g[s.v].elem, s)} ELSE {}
PeelBroadcast(g, n, s) ==
  IF ~OpAt(g, s.v, "broadcast") \/ AtWidth(g, s) THEN {}
  ELSE LET from == g[Operand(g, s.v, 1)].shape
       IN {[s EXCEPT !.v = Operand(g, s.v, 1), !.dim = i] :
             i \in {i \in DOMAIN from : g[s.v].at[i] = s.dim /\ from[i] = n /\ \A j \in DOMAIN from \ {i} : from[j] = 1}}
OnlyAxis(shape, n, i) == shape[i] = n /\ \A j \in DOMAIN shape \ {i} : shape[j] = 1
PeelReshape(g, n, s) ==
  IF ~OpAt(g, s.v, "reshape") \/ AtWidth(g, s) \/ n = 1 \/ ~OnlyAxis(g[s.v].shape, n, s.dim) THEN {}
  ELSE LET from == g[Operand(g, s.v, 1)].shape
       IN {[s EXCEPT !.v = Operand(g, s.v, 1), !.dim = i] : i \in {i \in DOMAIN from : OnlyAxis(from, n, i)}}
PeelStep(g, n, s) ==
  IF s.done THEN {s}
  ELSE UNION {PeelWiden(g, s), PeelOffset(g, n, s), PeelExit(g, n, s), PeelBroadcast(g, n, s), PeelReshape(g, n, s)}
PeelWeight(g, n, v, dim) ==
  {s \in FoldLeft(LAMBDA all, i : UNION {PeelStep(g, n, s) : s \in all}, {Weight(v, dim)}, Identity(12)) : s.done}

\* The mean over the last axis, in either of two spellings: what it sums.
\* (mutant) of IsCount
IsAnyCount(g, v, n) == Splat(g, v) # {}
IsCount(g, v, n) == Splat(g, v) = {n}
PeelSum(g, v, out) ==
  IF OpAt(g, v, "broadcast") THEN When(g[v].at = Identity(Len(out) - 1), Operand(g, v, 1)) ELSE {v}
SumOver(g, v, out) ==
  {Operand(g, s, 1) : s \in {s \in PeelSum(g, v, out) : g[s].shape = Front(out) /\ OpAt(g, s, "reduce") /\ g[s].at = <<Len(out), 0>>}}
MeanAt(g, m, out) ==
  IF OpAt(g, m, "divide") /\ IsCount(g, Operand(g, m, 2), Last(out)) THEN SumOver(g, Operand(g, m, 1), out) ELSE {}
MatchMean(g, v, out) == UNION {PeelUpcast(g, s) : s \in MeanAt(g, PeelKeepReshape(g, v, out), out)}
MatchSquareOf(g, v, x) ==
  \/ OpAt(g, v, "multiply") /\ Operand(g, v, 1) = Operand(g, v, 2) /\ PeelUpcast(g, Operand(g, v, 1)) = {x}
  \/ OpAt(g, v, "power") /\ Splat(g, Operand(g, v, 2)) = {2} /\ PeelUpcast(g, Operand(g, v, 1)) = {x}
IsMeanSquare(g, v, out, x) == \E s \in MatchMean(g, v, out) : MatchSquareOf(g, s, x)
\* (mutant) of IsMeanOf: the mean of anything may be the one that is subtracted.
IsMeanOfAny(g, v, mean, out, x) == MatchMean(g, v, out) # {}
\* The mean of x, and the one that was subtracted from it.
IsMeanOf(g, v, mean, out, x) ==
  /\ MatchMean(g, v, out) = {x}
  /\ OpAt(g, mean, "broadcast") /\ g[mean].at = Identity(Len(out))
  /\ PeelKeepReshape(g, Operand(g, mean, 1), out) = v
\* max(0, E[x^2] - E[x]^2)
IsMoments(g, d, mean, out, x) ==
  /\ OpAt(g, d, "subtract") /\ IsMeanSquare(g, Operand(g, d, 1), out, x)
  /\ OpAt(g, Operand(g, d, 2), "multiply")
  /\ LET mu == g[Operand(g, d, 2)].ins IN mu[1] = mu[2] /\ IsMeanOf(g, mu[1], mean, out, x)
IsVariance(g, v, mean, out, x) ==
  /\ OpAt(g, v, "maximum")
  /\ \E w \in First(Ways(g, v), LAMBDA w : Splat(g, w[2]) = {0}) : IsMoments(g, w[1], mean, out, x)

\* The normalization: what is scaled, and the broadcast root that scales it.
EpsOf(g, v) ==
  IF ~OpAt(g, v, "add") THEN {}
  ELSE UNION {{<<w[1], e>> : e \in Splat(g, w[2])} : w \in First(Ways(g, v), LAMBDA w : Splat(g, w[2]) # {})}
NormOf(g, out, p, x, e) ==
  When(/\ g[x].shape = out
       /\ LET var == PeelKeepReshape(g, PeelConvert(g, e[1]), out)
          IN IF p.mean = {} THEN IsMeanSquare(g, var, out, x) ELSE \A m \in p.mean : IsVariance(g, var, m, out, x),
       [x |-> x, eps |-> e[2], layer |-> p.mean # {}])
NormWith(g, out, p, rs) ==
  UNION {UNION {NormOf(g, out, p, x, e) : e \in UNION {EpsOf(g, r) : r \in RsqrtOperand(g, Operand(g, rs, 1))}} : x \in PeelUpcast(g, p.x)}
MatchNormalizedParts(g, xn, rs, out) ==
  IF IsFeatureBroadcast(g, xn, Last(out)) THEN {} ELSE NormWith(g, out, PeelMeanSubtract(g, xn), rs)

\* The roots: what is normalized, its scale, and the weight, if there is one.
Halves(sides, weight) == [xn |-> sides[2], rs |-> sides[1], w |-> weight]
BareMul(g, m) == {Halves(s, {}) : s \in RsqrtSide(g, m)}
ScaleFirst(g, a, b, out) ==
  UNION {{Halves(<<s[1], b>>, {w}) : w \in PeelWeight(g, Last(out), s[2], Len(out))} :
           s \in {s \in RsqrtSide(g, a) : g[a].shape = out /\ g[b].shape = out}}
WeightLast(g, a, b, out) ==
  UNION {{Halves(s, {w}) : w \in PeelWeight(g, Last(out), b, Len(out))} : s \in {s \in NormalizeMul(g, a) : g[b].shape = out}}
IsScaledWeight(g, a, out) == \E s \in RsqrtSide(g, a) : IsFeatureBroadcast(g, s[2], Last(out))
WeightedMul(g, m, out) ==
  UNION {IF IsScaledWeight(g, w[1], out) THEN ScaleFirst(g, w[1], w[2], out) ELSE WeightLast(g, w[1], w[2], out) :
           w \in First(Ways(g, m), LAMBDA w : NormalizeMul(g, w[1]) # {})}
MulRoot(g, m, out) ==
  IF ~OpAt(g, m, "multiply") THEN {} ELSE IF RsqrtSide(g, m) # {} THEN BareMul(g, m) ELSE WeightedMul(g, m, out)
DotRoot(g, v, out) ==
  LET dot == Operand(g, v, 1)
  IN IF ~(OpAt(g, dot, "dot") /\ g[v].at = [k \in DOMAIN out |-> IF k = Len(out) THEN 1 ELSE k + 1] /\ g[dot].at = <<Len(out)>>) THEN {}
     ELSE UNION {{Halves(s, {w}) : w \in PeelWeight(g, Last(out), Operand(g, dot, 1), 1)} : s \in NormalizeMul(g, Operand(g, dot, 2))}
Biased(g, v, out) ==
  UNION {{<<w[1], b.v>> : b \in {b \in PeelWeight(g, Last(out), w[2], Len(out)) : b.offset = 0}} :
           w \in First(Ways(g, v), LAMBDA w : OpAt(g, w[1], "multiply") /\ IsFeatureBroadcast(g, w[2], Last(out)))}
Roots(g, v, out) ==
  CASE OpAt(g, v, "transpose") -> {[h |-> h, b |-> {}] : h \in DotRoot(g, v, out)}
    [] OpAt(g, v, "add") -> UNION {{[h |-> h, b |-> {p[2]}] : h \in MulRoot(g, p[1], out)} : p \in Biased(g, v, out)}
    [] OpAt(g, v, "convert") -> {[h |-> h, b |-> {}] : h \in MulRoot(g, Operand(g, v, 1), out)}
    [] OTHER -> {[h |-> h, b |-> {}] : h \in MulRoot(g, v, out)}

\* The type MLX computes in, and the result's.
Promote(a, b) == IF a = b THEN a ELSE "f32"
WeightElem(g, w) == IF w.offset # 0 THEN w.elem ELSE g[w.v].elem
Compute(g, x, ws, bs) ==
  LET scaled == {Promote(g[x].elem, WeightElem(g, w)) : w \in ws} \cup (IF ws = {} THEN {g[x].elem} ELSE {})
  IN {Promote(t, g[b].elem) : t \in scaled, b \in bs} \cup (IF bs = {} THEN scaled ELSE {})
\* (mutant) of KeepsPrecision
KeepsAnyPrecision(compute, res) == TRUE
KeepsPrecision(compute, res) == compute = res \/ (compute = "f32" /\ Bits(res) > 0)
MatchOf(g, h, b, n) ==
  [x |-> n.x, eps |-> n.eps, layer |-> n.layer, w |-> h.w, b |-> b, compute |-> CHOOSE t \in Compute(g, n.x, h.w, b) : TRUE]
MatchRoot(g) ==
  LET out == g[Len(g)].shape
      all == UNION {{MatchOf(g, r.h, r.b, n) : n \in MatchNormalizedParts(g, r.h.xn, r.h.rs, out)} : r \in Roots(g, Len(g), out)}
  IN {m \in all : (m.b # {} => m.layer) /\ KeepsPrecision(m.compute, g[Len(g)].elem)}

---------------------------------------------------------------------------
(* What is lowered and run. *)
\* The weight as it is handed over: the offset added once, along the vector.
OffsetWeight(g, w, val) ==
  IF w.offset = 0 THEN val[w.v]
  ELSE Mapped(LAMBDA a : Narrowed(Plus(a, Exactly(w.offset)), Bits(w.elem)), val[w.v])
One == Exactly(1)
RowOf(x, o) == LET k == Last(x.shape) IN [j \in 1 .. k |-> x.data[o * k + j - 1]]
MeanOf(row) == Over(FoldLeft(Plus, Exactly(0), row), Exactly(Len(row)))
Square(a) == Times(a, a)
\* mx::fast::rms_norm and layer_norm of one row
FastNorm(row, eps, layer) ==
  LET mean == IF layer THEN MeanOf(row) ELSE Exactly(0)
      centred == [j \in DOMAIN row |-> Minus(row[j], mean)]
      scale == Rooted(Plus(MeanOf([j \in DOMAIN row |-> Square(centred[j])]), Exactly(eps)))
  IN [j \in DOMAIN row |-> Times(centred[j], scale)]
FastOf(m, x, weight, bias) ==
  LET k == Last(x.shape)
      cell(row, j) == Plus(Times(row[j + 1], weight[j]), bias[j])
  IN [shape |-> x.shape, data |-> [n \in Cells(x.shape) |-> cell(FastNorm(RowOf(x, n \div k), m.eps, m.layer), n % k)]]
Along(k, vectors, unit) == IF vectors = {} THEN [j \in 0 .. k - 1 |-> unit] ELSE (CHOOSE v \in vectors : TRUE).data
RunWith(g, m, val) ==
  LET k == Last(g[m.x].shape)
      out == FastOf(m, val[m.x], Along(k, {OffsetWeight(g, w, val) : w \in m.w}, One), Along(k, {val[b] : b \in m.b}, Exactly(0)))
  IN Mapped(LAMBDA a : Narrowed(a, Min({Bits(m.compute), Bits(g[Len(g)].elem)})), out)
\* The same numbers, no less precise.
AsGood(y, chain) == y.shape = chain.shape /\ \A n \in DOMAIN y.data : y.data[n].n = chain.data[n].n /\ y.data[n].bits >= chain.data[n].bits
NormIsExactOf(g, val) == \A m \in MatchRoot(g) : AsGood(RunWith(g, m, val), val[Len(g)])
NormIsExact(g) == NormIsExactOf(g.ops, Values(g.ops))
=============================================================================

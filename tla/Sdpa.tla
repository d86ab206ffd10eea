-------------------------------- MODULE Sdpa --------------------------------
(***************************************************************************)
(* A spelled-out attention against one call of the attention kernel        *)
(* (metal_sdpa.cc). The spelling `g`:                                      *)
(*   lhs, rhs  the first dot's operands [name, shape, steps], and its dims *)
(*             lb, rb (batching), lc, rc (contracting)                     *)
(*   logits    the steps from the first dot to the softmax                 *)
(*   max       the reduction the softmax subtracts                         *)
(*   probs     the steps from the exponential to the second dot            *)
(*   v, vb, vc, pb, pc, pside  the second dot, the probabilities its       *)
(*             operand `pside`                                             *)
(*   norm      the steps to a normalization deferred past it, or <<>>      *)
(* A reduction [kind, init, at, pre, dims, post] reads value `at` of the   *)
(* logits path, or the exponential (-1), through the steps `pre`; `post`   *)
(* takes it back to the shape it meets. Factors are powers of two.         *)
(***************************************************************************)
EXTENDS Arrays

---------------------------------------------------------------------------
(* What the chain computes. A logit: the products it sums, times 2^e, plus *)
(* an addend of a mask, less shifts; or dropped by a mask, far below any   *)
(* that is not.                                                            *)
Logit(dot) == [dot |-> dot, e |-> 0, add |-> {}, shift |-> <<>>, drop |-> FALSE]
Dropped == [Logit({}) EXCEPT !.drop = TRUE]
Scaled(l, e) ==
  IF l.drop THEN l
  ELSE [l EXCEPT !.e = @ + e, !.add = {<<a[1], a[2] + e>> : a \in @},
                 !.shift = [j \in DOMAIN @ |-> <<@[j][1], @[j][2] + e>>]]
Added(l, a) == IF l.drop THEN l ELSE [l EXCEPT !.add = @ \cup {<<a, 0>>}]
Shifted(l, t) == IF l.drop THEN l ELSE [l EXCEPT !.shift = Append(@, <<t, 0>>)]

Moved(x, s) ==
  CASE s.op = "transpose" -> Transposed(x, s.perm)
    [] s.op = "reshape" -> Reshaped(x, s.shape)
    [] s.op = "broadcast" -> Expanded(x, s.shape, s.dims)
Operand(o) == FoldLeft(Moved, Named(o.name, o.shape), o.steps)
\* What a mask or a sink reads, spread over a shape.
Held(b, shape) == Expanded(Named(b.name, b.shape), shape, b.dims)
Kept(b, shape) == Expanded([shape |-> b.shape, data |-> [n \in Cells(b.shape) |-> n \in b.keep]], shape, b.dims)

\* A reduction of logits, or of their exponentials.
Cell0(o, c, dims, rank) == Among(rank, FreeAxes(rank, dims) \o dims, o \o c)
Summed(x, dims) ==
  LET shape == Picked(x.shape, FreeAxes(Len(x.shape), dims))
      inner == Picked(x.shape, dims)
      row(o) == {x.data[Place(Cell0(o, CoordOf(q, inner), dims, Len(x.shape)), x.shape)] : q \in Cells(inner)}
  IN [shape |-> shape, data |-> [n \in Cells(shape) |-> row(CoordOf(n, shape))]]
Begun(r, row) == IF r.init = (IF r.kind = "add" THEN "zero" ELSE "lowest") THEN row ELSE row \cup {Logit({{"init"}})}
Term(r, x) ==
  FoldLeft(Moved, Mapped(LAMBDA row : <<r.kind, r.at = -1, Begun(r, row)>>, Summed(FoldLeft(Moved, x, r.pre), r.dims)), r.post)

Factor(s) == IF s.by = "divide" THEN -s.e ELSE s.e
LogitStep(c, s) ==
  LET x == Last(c)
  IN CASE s.op = "scale" -> Mapped(LAMBDA l : Scaled(l, Factor(s)), x)
       [] s.op = "add" -> Zipped(Added, x, Held(s.mask, x.shape))
       [] s.op = "select" -> Zipped(LAMBDA l, p : IF p THEN l ELSE IF s.c <= -1024 THEN Dropped ELSE Logit({{"c", s.c}}), x, Kept(s.mask, x.shape))
       [] s.op = "shift" -> Zipped(Shifted, x, Term(s.by, c[s.by.at + 1]))
       [] s.op = "sink" -> Appended(x, Mapped(LAMBDA v : Logit({{v}}), Held(s.mask, [x.shape EXCEPT ![s.axis] = s.width])), s.axis)
       [] OTHER -> Moved(x, s)
FirstDot(g) ==
  Mapped(LAMBDA s : Logit({{p[1], p[2]} : p \in s}), DotGeneral(Operand(g.lhs), Operand(g.rhs), g.lb, g.rb, g.lc, g.rc))
LogitsOf(g) == FoldLeft(LAMBDA c, s : Append(c, LogitStep(c, s)), <<FirstDot(g)>>, g.logits)

\* A probability: the logit it is the exponential of, and what divides it.
ProbStep(x, s, c, ex) ==
  CASE s.op = "divide" -> Zipped(LAMBDA p, t : [p EXCEPT !.by = @ \cup {t}], x, Term(s.sum, IF s.sum.at = -1 THEN ex ELSE c[s.sum.at + 1]))
    [] s.op = "slice" -> Slice(x, Each(x.shape, 0), s.limits, Each(x.shape, 1))
    [] s.op = "zero" -> Zipped(LAMBDA p, k : IF k THEN p ELSE [p EXCEPT !.log = Dropped], x, Kept(s.mask, x.shape))
    [] OTHER -> Moved(x, s)
SecondDot(g, p, v) ==
  LET products == IF g.pside = 1 THEN DotGeneral(p, v, g.pb, g.vb, g.pc, g.vc) ELSE DotGeneral(v, p, g.vb, g.pb, g.vc, g.pc)
      pair(q) == IF g.pside = 1 THEN q ELSE <<q[2], q[1]>>
  IN Mapped(LAMBDA s : [terms |-> {<<pair(q)[1].log, pair(q)[2]>> : q \in s}, by |-> UNION {pair(q)[1].by : q \in s}], products)
Normed(y, s, c, ex) ==
  IF s.op = "divide"
  THEN Zipped(LAMBDA o, t : [o EXCEPT !.by = @ \cup {t}], y, Term(s.sum, IF s.sum.at = -1 THEN ex ELSE c[s.sum.at + 1]))
  ELSE Moved(y, s)
ChainOf(g, c, ex) ==
  FoldLeft(LAMBDA y, s : Normed(y, s, c, ex),
           SecondDot(g, FoldLeft(LAMBDA x, s : ProbStep(x, s, c, ex), Mapped(LAMBDA l : [log |-> l, by |-> {}], ex), g.probs), Operand(g.v)),
           g.norm)
ChainWith(g, c) == ChainOf(g, c, LogitStep(c, [op |-> "shift", by |-> g.max]))
ChainSdpa(g) == ChainWith(g, LogitsOf(g))

\* A softmax loses a shift that its whole row shares, and what is dropped
\* from a row that keeps something.
Row(o) == UNION {t[3] : t \in o.by}
Canon(o) ==
  LET live == {l \in Row(o) : ~l.drop}
      plain(l) == IF Cardinality({m.shift : m \in live}) = 1 THEN [l EXCEPT !.shift = <<>>] ELSE l
  IN IF live = {} THEN o
     ELSE [terms |-> {<<plain(t[1]), t[2]>> : t \in {t \in o.terms : ~t[1].drop}},
           by |-> {<<t[1], t[2], {plain(l) : l \in {l \in t[3] : ~l.drop}}>> : t \in o.by}]

---------------------------------------------------------------------------
(* Roles. Every axis of the first dot is an atom <<kind, index, size>>; a  *)
(* value's roles are, axis by axis, the atoms the axis carries. A walk     *)
(* that bails has no reading: each step gives a set, empty or of one.      *)
When(p, x) == IF p THEN {x} ELSE {}
Atom(kind, i, size) == <<kind, i, size>>
Size(atoms) == Volume([j \in DOMAIN atoms |-> atoms[j][3]])
Flat(groups) == FlattenSeq(groups)
AtomsOf(roles) == ToSet(Flat(roles))

RolesTranspose(roles, perm) == [k \in DOMAIN perm |-> roles[perm[k]]]
RolesUntranspose(roles, perm) == [k \in DOMAIN perm |-> roles[CHOOSE j \in DOMAIN perm : perm[j] = k]]
\* The next axis takes the atoms that make up its size.
Regroup(stream, acc, size) ==
  LET ends == {j \in acc.at .. Len(stream) : Size(SubSeq(stream, acc.at + 1, j)) >= size}
  IN IF size = 1 THEN {[acc EXCEPT !.roles = Append(@, <<>>)]}
     ELSE {[at |-> j, roles |-> Append(acc.roles, SubSeq(stream, acc.at + 1, j))] :
             j \in {j \in ends : j = Min(ends) /\ Size(SubSeq(stream, acc.at + 1, j)) = size}}
RolesReshape(from, roles, to) ==
  LET stream == Flat(roles)
      all == FoldLeft(LAMBDA accs, size : UNION {Regroup(stream, acc, size) : acc \in accs}, {[at |-> 0, roles |-> <<>>]}, to)
  IN {acc.roles : acc \in {acc \in all : /\ \A k \in DOMAIN from : roles[k] # <<>> \/ from[k] = 1
                                         /\ Size(SubSeq(stream, acc.at + 1, Len(stream))) = 1}}
Expands(from, to, dims) == \A i \in DOMAIN dims : from[i] \in {1, to[dims[i]]}
\* An axis the broadcast makes is replicated, an atom of no axis of the dots.
RolesBroadcast(from, roles, to, dims, tag) ==
  LET made(d) == Atom("*", 10 * tag + d, to[d])
      of(d) == IF d \in ToSet(dims)
               THEN LET i == CHOOSE i \in DOMAIN dims : dims[i] = d IN IF from[i] = to[d] THEN roles[i] ELSE <<made(d)>>
               ELSE IF to[d] = 1 THEN <<>> ELSE <<made(d)>>
  IN When(Expands(from, to, dims), [d \in DOMAIN to |-> of(d)])
RolesUnbroadcast(roles, from, to, dims) ==
  When(Expands(from, to, dims), [i \in DOMAIN dims |-> IF from[i] = to[dims[i]] THEN roles[dims[i]] ELSE <<>>])

\* A value's roles and shape after a step, and after several.
MovedShape(shape, s) == IF s.op = "transpose" THEN Picked(shape, s.perm) ELSE s.shape
UpStep(x, s, tag) ==
  LET to == MovedShape(x.shape, s)
      roles == CASE s.op = "transpose" -> {RolesTranspose(x.roles, s.perm)}
                 [] s.op = "reshape" -> RolesReshape(x.shape, x.roles, to)
                 [] s.op = "broadcast" -> RolesBroadcast(x.shape, x.roles, to, s.dims, tag)
  IN {[roles |-> r, shape |-> to] : r \in roles}
Up(x, steps, tag) ==
  FoldLeft(LAMBDA xs, j : UNION {UpStep(y, steps[j], tag + j) : y \in xs}, {x}, Identity(Len(steps)))

\* The transpose and reshape that lay a value out as `groups`, one axis each.
\* (mutant) of Adjacent: the atoms of an axis may be apart.
Anywhere(order, roles, flat) == Len(Flat([k \in DOMAIN order |-> roles[order[k]]])) = Len(flat)
Adjacent(order, roles, flat) == Flat([k \in DOMAIN order |-> roles[order[k]]]) = flat
RecipeOf(roles, groups, flat, units, order) ==
  When(Adjacent(order, roles, flat), [perm |-> order \o units, shape |-> [k \in DOMAIN groups |-> Size(groups[k])]])
Recipe(roles, groups) ==
  LET flat == Flat(groups)
      carriers == {d \in DOMAIN roles : roles[d] # <<>>}
      first(d) == CHOOSE j \in DOMAIN flat : flat[j] = roles[d][1]
  IN IF ~(IsInjective(flat) /\ AtomsOf(roles) \subseteq ToSet(flat)) THEN {}
     ELSE RecipeOf(roles, groups, flat, SelectSeq(Identity(Len(roles)), LAMBDA d : d \notin carriers),
                   SetToSortSeq(carriers, LAMBDA a, b : first(a) < first(b) \/ (first(a) = first(b) /\ a < b)))
\* From the kernel's axes, whose atoms are `order`, to the root's.
OutRecipe(roles, order, shape) ==
  LET flat == Flat(roles)
  IN When(Len(flat) = Len(order) /\ ToSet(flat) = ToSet(order) /\ IsInjective(flat),
          [pre |-> [k \in DOMAIN order |-> order[k][3]], post |-> shape,
           perm |-> [k \in DOMAIN flat |-> CHOOSE j \in DOMAIN order : order[j] = flat[k]]])

---------------------------------------------------------------------------
(* What is recognized. *)
FiniteMax == 10000000
Canonical == -((35 * FiniteMax) \div 100)
\* What a mask's constant is emitted as: itself, or one that absorbs a logit.
MaskSentinel(c) ==
  IF -10 * c >= FiniteMax THEN {c} ELSE IF c <= -1024 THEN {Canonical} ELSE {}

\* `got` differs from `want` by replicating what it may.
Aligned(got, want, missing) ==
  /\ Len(got) = Len(want)
  /\ \A i \in DOMAIN got :
       \/ got[i] = want[i]
       \/ /\ got[i] # <<>> /\ \A a \in ToSet(got[i]) : a[1] = "*"
          /\ want[i] # <<>> /\ ToSet(want[i]) \subseteq missing

\* The key axis, by a reduction over it of one of the `anchors`. `keys` is
\* what is known of it, `missing` what may be replicated besides.
Neutral(kind) == IF kind = "add" THEN "zero" ELSE "lowest"
ReducedAxis(x, dims) == Flat([j \in DOMAIN dims |-> x.roles[dims[j]]])
Remaining(x, dims) ==
  LET kept == FreeAxes(Len(x.shape), dims) IN [roles |-> Picked(x.roles, kept), shape |-> Picked(x.shape, kept)]
CheckReduce(r, kind, anchors, want, keys, missing, tag) ==
  {k \in UNION {ToSet(ReducedAxis(x, r.dims)) :
                  x \in IF r.kind = kind /\ r.init = Neutral(kind) /\ r.at \in DOMAIN anchors THEN Up(anchors[r.at], r.pre, tag) ELSE {}} :
     /\ keys \subseteq {k}
     /\ \E x \in Up(anchors[r.at], r.pre, tag) :
          /\ ReducedAxis(x, r.dims) = <<k>>
          /\ \E y \in Up(Remaining(x, r.dims), r.post, tag + 10) : Aligned(y.roles, want, IF missing = {} THEN {k} ELSE missing)}

\* The walk over the logits: `chain` holds what it passed, `masks` at most two.
AxisAtom(kind, shape, dims, d) ==
  LET i == CHOOSE i \in DOMAIN dims : dims[i] = d IN Atom(kind, i, shape[d])
OperandRoles(side, shape, batch, inner) ==
  [d \in DOMAIN shape |->
     IF d \in ToSet(batch) THEN <<AxisAtom("b", shape, batch, d)>>
     ELSE IF d \in ToSet(inner) THEN <<AxisAtom("d", shape, inner, d)>>
     ELSE IF shape[d] = 1 THEN <<>> ELSE <<AxisAtom(side, shape, FreeAxes(Len(shape), batch \o inner), d)>>]
ShapesOf(o) == FoldLeft(LAMBDA c, s : Append(c, MovedShape(Last(c), s)), <<o.shape>>, o.steps)
ShapeOf(o) == Last(ShapesOf(o))
DotRoles(x, y, xs, ys, g) ==
  LET lf == FreeAxes(Len(xs), g.lb \o g.lc)
      rf == FreeAxes(Len(ys), g.rb \o g.rc)
  IN [roles |-> Picked(x, g.lb \o lf) \o Picked(y, rf), shape |-> Picked(xs, g.lb \o lf) \o Picked(ys, rf)]
AtDot1(g) ==
  LET xs == ShapeOf(g.lhs)
      ys == ShapeOf(g.rhs)
      x == OperandRoles("l", xs, g.lb, g.lc)
      y == OperandRoles("r", ys, g.rb, g.rc)
      top == DotRoles(x, y, xs, ys, g)
  IN When(g.lc # <<>> /\ Volume(xs) # 0 /\ Volume(ys) # 0,
          [roles |-> top.roles, shape |-> top.shape, chain |-> <<top>>, lroles |-> x, rroles |-> y,
           scale |-> 0, masks |-> <<>>, sink |-> <<>>, keys |-> {}])

Anchors(m) == [j \in 0 .. Len(m.chain) - 1 |-> m.chain[j + 1]]
Masking(m, kind, mask, konst) ==
  [m EXCEPT !.masks = Append(@, [kind |-> kind, mask |-> mask, roles |-> m.roles, shape |-> m.shape, konst |-> konst, mul |-> 0])]
\* (mutant) of Rescaled: a factor after the mask is the logits' alone.
RescaledLogits(m, e) == [m EXCEPT !.scale = @ + e]
\* A factor multiplies the masks already applied as well.
Rescaled(m, e) == [m EXCEPT !.scale = @ + e, !.masks = [j \in DOMAIN @ |-> [@[j] EXCEPT !.mul = @ + e]]]
ReadSelect(m, s) ==
  {Masking(m, "select", s.mask, konst) :
     konst \in {konst \in MaskSentinel(s.c) :
                  \/ m.masks = <<>>
                  \/ Len(m.masks) = 1 /\ m.masks[1].kind = "select" /\ m.masks[1].konst = konst}}
ReadSink(m, s) ==
  LET shape == [m.shape EXCEPT ![s.axis] = s.width]
  IN {[m EXCEPT !.shape = [@ EXCEPT ![s.axis] = @ + 1], !.sink = <<[axis |-> m.roles[s.axis], roles |-> r, of |-> s.mask]>>] :
        r \in UNION {When(s.width = 1, r) : r \in RolesUnbroadcast([m.roles EXCEPT ![s.axis] = <<>>], s.mask.shape, shape, s.mask.dims)}}
ReadLogit(m, s, tag) ==
  CASE s.op = "scale" -> {Rescaled(m, Factor(s))}
    [] s.op = "add" -> When(m.masks = <<>>, Masking(m, "add", s.mask, 0))
    [] s.op = "select" -> ReadSelect(m, s)
    [] s.op = "shift" -> {[m EXCEPT !.keys = {k}] : k \in CheckReduce(s.by, "maximum", Anchors(m), m.roles, m.keys, {}, tag)}
    [] s.op = "sink" -> ReadSink(m, s)
    [] OTHER -> {[m EXCEPT !.roles = x.roles, !.shape = x.shape] : x \in UpStep([roles |-> m.roles, shape |-> m.shape], s, tag)}
Logits(ms, steps) ==
  FoldLeft(LAMBDA all, j : {[m EXCEPT !.chain = Append(@, [roles |-> m.roles, shape |-> m.shape])] :
                              m \in UNION {ReadLogit(m, steps[j], 100 * j) : m \in all}},
           ms, Identity(Len(steps)))

\* From the exponential up. `cut` is the axis a slice cut, and what it kept.
Exp(m) == [roles |-> m.roles, shape |-> m.shape]
\* (mutant) of SumAnchors: one set of anchors for both reductions.
AllAnchors(m) == [j \in -1 .. Len(m.chain) - 1 |-> IF j = -1 THEN Exp(m) ELSE m.chain[j + 1]]
\* The sum is of the exponentials, never of a logit.
SumAnchors(m) == [j \in {-1} |-> Exp(m)]
ReadSlice(m, p, limits) ==
  LET cuts == {d \in DOMAIN limits : limits[d] # p.shape[d]}
  IN UNION {When(m.sink # <<>> /\ cuts = {d} /\ p.shape[d] - limits[d] = 1,
                 [p EXCEPT !.cut = <<[axis |-> p.roles[d], kept |-> limits[d]]>>, !.shape = limits]) : d \in cuts}
ReadProb(m, p, s, tag) ==
  CASE s.op = "divide" ->
         When(~p.normalized /\ CheckReduce(s.sum, "add", SumAnchors(m), p.roles, m.keys, {}, tag) # {}, [p EXCEPT !.normalized = TRUE])
    [] s.op = "slice" -> ReadSlice(m, p, s.limits)
    [] s.op = "zero" -> When(m.masks # <<>> /\ m.masks[1].kind = "select" /\ m.masks[1].mask = s.mask, p)
    [] OTHER -> {[p EXCEPT !.roles = x.roles, !.shape = x.shape] : x \in UpStep([roles |-> p.roles, shape |-> p.shape], s, tag)}
Probs(m, steps) ==
  FoldLeft(LAMBDA all, j : UNION {ReadProb(m, p, steps[j], 5000 + 100 * j) : p \in all},
           {[roles |-> m.roles, shape |-> m.shape, normalized |-> FALSE, cut |-> <<>>]}, Identity(Len(steps)))

\* The second dot, against a key axis `k`.
VRoles(g, p, vs, k) ==
  LET free == FreeAxes(Len(vs), g.vb \o g.vc)
  IN [d \in DOMAIN vs |->
        IF d \in ToSet(g.vb) THEN p.roles[g.pb[CHOOSE i \in DOMAIN g.vb : g.vb[i] = d]]
        ELSE IF d \in ToSet(g.vc) THEN IF d = g.vc[1] THEN <<k>> ELSE <<>>
        ELSE IF vs[d] = 1 THEN <<>> ELSE <<AxisAtom("v", vs, free, d)>>]
SameAtoms(a, b) == Len(a) = Len(b) /\ ToSet(a) = ToSet(b)
FreeAtoms(roles) == SelectSeq(Flat(roles), LAMBDA a : a[1] \in {"l", "r"})
BatchAtoms(g, m) == [i \in DOMAIN g.lb |-> m.lroles[g.lb[i]][1]]
HeadDim(g, m) == [i \in DOMAIN g.lc |-> m.lroles[g.lc[i]][1]]
VAtoms(g, vs, vroles) == Flat(Picked(vroles, FreeAxes(Len(vs), g.vb \o g.vc)))
ContractsKeys(g, p, vs, k) ==
  /\ Flat(Picked(p.roles, g.pc)) = <<k>> /\ Volume(Picked(vs, g.vc)) = k[3] /\ Volume(vs) # 0
  /\ \A i \in 2 .. Len(g.vc) : vs[g.vc[i]] = 1
  /\ \A i \in DOMAIN g.vb : vs[g.vb[i]] = Size(p.roles[g.pb[i]])
SharesBatch(g, m, p) == SameAtoms(Flat(Picked(p.roles, g.pb)), BatchAtoms(g, m))
KeepsQueries(g, p, qroles) ==
  SameAtoms(Flat(Picked(p.roles, FreeAxes(Len(p.shape), g.pb \o g.pc))), FreeAtoms(qroles))
\* The sink joins the key axis, and the slice gives the key axis back.
SinkFits(m, p, k) ==
  IF m.sink = <<>> THEN p.cut = <<>>
  ELSE m.sink[1].axis = <<k>> /\ p.cut # <<>> /\ p.cut[1].axis = <<k>> /\ p.cut[1].kept = k[3]

\* The root: the second dot, or the division found after it.
Dot2Roles(g, p, vs, vroles) ==
  LET pf == FreeAxes(Len(p.shape), g.pb \o g.pc)
      vf == FreeAxes(Len(vs), g.vb \o g.vc)
      side(x, y) == IF g.pside = 1 THEN x \o y ELSE y \o x
  IN [roles |-> Picked(p.roles, g.pb) \o side(Picked(p.roles, pf), Picked(vroles, vf)),
      shape |-> Picked(p.shape, g.pb) \o side(Picked(p.shape, pf), Picked(vs, vf))]
FindNorm(g, m, x, vatoms) ==
  LET n == Len(g.norm)
  IN IF n = 0 THEN {}
     ELSE {y \in Up(x, SubSeq(g.norm, 1, n - 1), 9000) :
             CheckReduce(g.norm[n].sum, "add", SumAnchors(m), y.roles, m.keys, ToSet(vatoms), 9500) # {}}
RootOf(g, m, p, x, vatoms) == IF p.normalized THEN When(g.norm = <<>>, x) ELSE FindNorm(g, m, x, vatoms)

\* The query axis: the one the masks vary along, or else the largest.
MaskRoles(mask) == RolesUnbroadcast(mask.roles, mask.mask.shape, mask.shape, mask.mask.dims)
Varying(masks, qfree) == SelectSeq(qfree, LAMBDA a : \E j \in DOMAIN masks : \E r \in MaskRoles(masks[j]) : a \in AtomsOf(r))
Largest(qfree) ==
  IF qfree = <<>> THEN <<>>
  ELSE <<qfree[CHOOSE i \in DOMAIN qfree : \A j \in DOMAIN qfree : qfree[j][3] < qfree[i][3] \/ (qfree[j][3] = qfree[i][3] /\ i <= j)]>>
PickQueryAxis(masks, qfree) ==
  IF Len(Varying(masks, qfree)) > 1 THEN {} ELSE {IF Varying(masks, qfree) = <<>> THEN Largest(qfree) ELSE Varying(masks, qfree)}
\* A mask covers the whole of an axis of the kernel's or none of it.
\* (mutant) of CoversWhole
CoversPart(slot, have) == TRUE
CoversWhole(slot, have) == ToSet(slot) \subseteq have \/ ToSet(slot) \cap have = {}
MaskRecipe(mask, slots) ==
  UNION {IF \A j \in DOMAIN slots : CoversWhole(slots[j], AtomsOf(r))
         THEN Recipe(r, [j \in DOMAIN slots |-> SelectSeq(slots[j], LAMBDA a : a \in AtomsOf(r))]) ELSE {} : r \in MaskRoles(mask)}
MaskRecipes(masks, slots) ==
  FoldLeft(LAMBDA all, mask : {Append(rs, r) : rs \in all, r \in MaskRecipe(mask, slots)}, {<<>>}, masks)
SinkRecipes(sinks, natoms) ==
  IF sinks = <<>> THEN {<<>>} ELSE {<<r>> : r \in Recipe(sinks[1].roles, <<natoms>>)}

\* Grouped queries: the repeat of the key and value heads, peeled off.
RepeatAxis(from, s) ==
  {d \in DOMAIN s.shape :
     /\ Expands(from, s.shape, s.dims) /\ IsInjective(s.dims) /\ s.shape[d] # 1
     /\ \A e \in DOMAIN s.shape \ {d} : s.shape[e] = 1 \/ \E i \in DOMAIN s.dims : s.dims[i] = e /\ from[i] = s.shape[e]
     /\ ~\E i \in DOMAIN s.dims : s.dims[i] = d /\ from[i] = s.shape[d]}
Repeats(o, i) ==
  /\ i > 1 /\ o.steps[i].op = "reshape" /\ o.steps[i - 1].op = "broadcast"
  /\ RepeatAxis(ShapesOf(o)[i - 1], o.steps[i - 1]) # {}
RepeatAt(o) == Max({i \in DOMAIN o.steps : Repeats(o, i)} \cup {0})
DownStep(x, s, inner) ==
  {[roles |-> r, shape |-> inner] :
     r \in CASE s.op = "transpose" -> {RolesUntranspose(x.roles, s.perm)}
             [] s.op = "reshape" -> RolesReshape(x.shape, x.roles, inner)
             [] s.op = "broadcast" -> RolesUnbroadcast(x.roles, inner, x.shape, s.dims)}
\* Down through the steps after the i-th, outermost first.
Down(x, o, shapes, i) ==
  FoldLeft(LAMBDA all, j : UNION {DownStep(y, o.steps[j], shapes[j]) : y \in all}, {x}, Reverse([j \in 1 .. Len(o.steps) - i |-> i + j]))
StripUnits(group) == SelectSeq(group, LAMBDA a : a[3] # 1)
\* (mutant) of SplitHead: the copies of all heads, one after the other.
CopiesFirst(roles, a, h, hkv, copies) ==
  [roles EXCEPT ![a] = IF hkv > 1 THEN <<copies, Atom(h[1], h[2], hkv)>> ELSE <<copies>>]
SplitHead(roles, a, h, hkv, copies) ==
  [roles EXCEPT ![a] = IF hkv > 1 THEN <<Atom(h[1], h[2], hkv), copies>> ELSE <<copies>>]
KvMajor(b, j, copies) == b[j] = <<copies>>
Narrowed(group, h, hkv) == SelectSeq([k \in DOMAIN group |-> IF group[k] = h THEN Atom(h[1], h[2], hkv) ELSE group[k]], LAMBDA a : a[3] # 1)
Peeled(o, shapes, i, x, a, h, copies, groups) ==
  LET hkv == h[3] \div copies[3]
  IN UNION {UNION {{[upto |-> i - 2, rec |-> rec, hkv |-> hkv] : rec \in Recipe(r, [k \in DOMAIN groups |-> Narrowed(groups[k], h, hkv)])} :
              r \in RolesUnbroadcast(b, shapes[i - 1], shapes[i], o.steps[i - 1].dims)} :
            b \in {b \in RolesReshape(shapes[i + 1], SplitHead(x.roles, a, h, hkv, copies), shapes[i]) :
                     \E j \in RepeatAxis(shapes[i - 1], o.steps[i - 1]) : KvMajor(b, j, copies)}}
UnrepeatAt(o, shapes, i, x, h, groups) ==
  LET g == shapes[i][CHOOSE j \in RepeatAxis(shapes[i - 1], o.steps[i - 1]) : TRUE]
      at == {a \in DOMAIN x.roles : x.roles[a] = <<h>>}
  IN IF at = {} \/ g <= 1 \/ h[3] % g # 0 THEN {} ELSE Peeled(o, shapes, i, x, Min(at), h, Atom("*", 9999, g), groups)
Unrepeat(o, roles, h, groups) ==
  LET i == RepeatAt(o)
      bare == [d \in DOMAIN roles |-> StripUnits(roles[d])]
  IN IF i = 0 \/ \E j \in i + 1 .. Len(o.steps) : o.steps[j].op = "broadcast" THEN {}
     ELSE UNION {UnrepeatAt(o, ShapesOf(o), i, x, h, groups) : x \in Down([roles |-> bare, shape |-> ShapeOf(o)], o, ShapesOf(o), i)}
\* Both or neither, to the same number of heads.
Grouped(k, v) == {<<a, b>> \in k \X v : a.hkv = b.hkv}

\* One way to split the batch atoms between the kernel's first two axes.
Query(g, k) == IF k[1] = "l" THEN g.rhs ELSE g.lhs
Keys(g, k) == IF k[1] = "l" THEN g.lhs ELSE g.rhs
Without(atoms, slot) == SelectSeq(atoms, LAMBDA a : a \notin ToSet(slot))
Slots(m, g, at, qslot, qroles, k) ==
  LET heads == SubSeq(BatchAtoms(g, m), at + 1, Len(g.lb))
  IN [batch |-> SubSeq(BatchAtoms(g, m), 1, at), heads |-> heads, n |-> heads \o Without(FreeAtoms(qroles), qslot),
      q |-> qslot, k |-> <<k>>, d |-> HeadDim(g, m)]
Laid(g, m, s, c) ==
  {[q |-> q, k |-> k, v |-> v, masks |-> ms, sinks |-> sk, out |-> out, slots |-> s] :
     q \in Recipe(c.q, <<s.batch, s.n, s.q, s.d>>), k \in Recipe(c.k, <<s.batch, s.heads, s.k, s.d>>),
     v \in Recipe(c.v, <<s.batch, s.heads, s.k, c.vatoms>>), ms \in MaskRecipes(m.masks, <<s.batch, s.n, s.q, s.k>>),
     sk \in SinkRecipes(m.sink, s.n), out \in OutRecipe(c.root.roles, s.batch \o s.n \o s.q \o c.vatoms, c.root.shape)}
Unrepeated(g, s, c) ==
  IF s.heads = <<>> THEN {}
  ELSE Grouped(Unrepeat(Keys(g, c.key), c.k, Last(s.heads), <<s.batch, s.heads, s.k, s.d>>),
               Unrepeat(g.v, c.v, Last(s.heads), <<s.batch, s.heads, s.k, c.vatoms>>))
MatchOf(g, m, c, l) ==
  [key |-> c.key, scale |-> m.scale, masks |-> m.masks, sink |-> m.sink, laid |-> l, gqa |-> Unrepeated(g, l.slots, c)]
LaidAt(g, m, c, at) == Laid(g, m, Slots(m, g, at, c.qslot, c.q, c.key), c)
\* The conventional split first, the last batching axis the head.
Splits(g) ==
  LET natural == Max({Len(g.lb) - 1, 0})
  IN <<natural>> \o SelectSeq([i \in 1 .. Len(g.lb) + 1 |-> i - 1], LAMBDA i : i # natural)
FirstLaid(g, m, c) ==
  FoldLeft(LAMBDA found, at : IF found # {} THEN found ELSE LaidAt(g, m, c, at), {}, Splits(g))

Candidate(m, k, qslot, v, vatoms, root) ==
  [key |-> k, qslot |-> qslot, v |-> v, vatoms |-> vatoms, root |-> root,
   q |-> IF k[1] = "l" THEN m.rroles ELSE m.lroles, k |-> IF k[1] = "l" THEN m.lroles ELSE m.rroles]
TrySlots(g, m, p, k, vs, vroles, qroles) ==
  UNION {{MatchOf(g, m, c, l) : l \in FirstLaid(g, m, c)} :
           c \in {Candidate(m, k, qslot, vroles, VAtoms(g, vs, vroles), root) :
                    qslot \in PickQueryAxis(m.masks, FreeAtoms(qroles)),
                    root \in RootOf(g, m, p, Dot2Roles(g, p, vs, vroles), VAtoms(g, vs, vroles))}}
TrySide(g, m, p, k) ==
  LET qroles == IF k[1] = "l" THEN m.rroles ELSE m.lroles
      kroles == IF k[1] = "l" THEN m.lroles ELSE m.rroles
  IN IF /\ ContractsKeys(g, p, ShapeOf(g.v), k) /\ SharesBatch(g, m, p)
        /\ FreeAtoms(kroles) = <<k>> /\ KeepsQueries(g, p, qroles) /\ SinkFits(m, p, k)
     THEN TrySlots(g, m, p, k, ShapeOf(g.v), VRoles(g, p, ShapeOf(g.v), k), qroles) ELSE {}
ReadMax(g, m) == {[m EXCEPT !.keys = {k}] : k \in CheckReduce(g.max, "maximum", Anchors(m), m.roles, m.keys, {}, 4000)}
Try(g) ==
  UNION {UNION {TrySide(g, m, p, k) : p \in Probs(m, g.probs), k \in m.keys} :
           m \in UNION {ReadMax(g, m) : m \in Logits(AtDot1(g), g.logits)}}

---------------------------------------------------------------------------
(* What is lowered and run. *)
ApplyRec(rec, x) == Reshaped(Transposed(x, rec.perm), rec.shape)
\* The mask as it is added: a sentinel where it drops, or its own element.
SdpaMask(mask) ==
  IF mask.kind = "select" THEN [shape |-> mask.mask.shape, data |-> [n \in Cells(mask.mask.shape) |-> [keep |-> n \in mask.mask.keep, add |-> {}]]]
  ELSE Mapped(LAMBDA v : [keep |-> TRUE, add |-> {<<v, mask.mul>>}], Named(mask.mask.name, mask.mask.shape))
MaskArrays(t) == [j \in DOMAIN t.masks |-> ApplyRec(t.laid.masks[j], SdpaMask(t.masks[j]))]
At4(x, c) == x.data[Place([j \in 1 .. 4 |-> IF x.shape[j] = 1 THEN 0 ELSE c[j]], x.shape)]
\* Two masks meet by their minimum: what either drops is dropped.
KernelLogit(q, k, masks, scale, c, group) ==
  LET products == {{q.data[Place(<<c[1], c[2], c[3], d>>, q.shape)], k.data[Place(<<c[1], c[2] \div group, c[4], d>>, k.shape)]} :
                     d \in 0 .. q.shape[4] - 1}
  IN IF \E j \in DOMAIN masks : ~At4(masks[j], c).keep THEN Dropped
     ELSE [Logit(products) EXCEPT !.e = scale, !.add = UNION {At4(masks[j], c).add : j \in DOMAIN masks}]
\* mx::fast::scaled_dot_product_attention
Kernel(q, k, v, masks, sinks, scale) ==
  LET group == q.shape[2] \div k.shape[2]
      out == <<q.shape[1], q.shape[2], q.shape[3], v.shape[4]>>
      row(c) == {KernelLogit(q, k, masks, scale, <<c[1], c[2], c[3], j>>, group) : j \in 0 .. k.shape[3] - 1}
                  \cup {Logit({{sinks[i].data[c[2]]}}) : i \in DOMAIN sinks}
      term(c, j) == <<KernelLogit(q, k, masks, scale, <<c[1], c[2], c[3], j>>, group), v.data[Place(<<c[1], c[2] \div group, j, c[4]>>, v.shape)]>>
      cell(c) == [terms |-> {term(c, j) : j \in 0 .. k.shape[3] - 1}, by |-> {<<"add", TRUE, row(c)>>}]
  IN [shape |-> out, data |-> [n \in Cells(out) |-> cell(CoordOf(n, out))]]
\* The operand as the dot reads it, or what the repeat was made of.
Fed(o, rec, peeled) ==
  IF peeled = {} THEN ApplyRec(rec, Operand(o))
  ELSE LET u == CHOOSE u \in peeled : TRUE IN ApplyRec(u.rec, Operand([o EXCEPT !.steps = SubSeq(@, 1, u.upto)]))
\* A mask that does not broadcast throws.
Broadcasts(q, k, masks) ==
  \A j \in DOMAIN masks : \A a \in 1 .. 4 : masks[j].shape[a] \in {1, <<q.shape[1], q.shape[2], q.shape[3], k.shape[3]>>[a]}
KernelOf(q, k, v, masks, sinks, scale) ==
  IF Broadcasts(q, k, masks) THEN Kernel(q, k, v, masks, sinks, scale) ELSE [shape |-> <<0>>, data |-> <<>>]
LowerSdpa(g, t) ==
  KernelOf(ApplyRec(t.laid.q, Operand(Query(g, t.key))), Fed(Keys(g, t.key), t.laid.k, {u[1] : u \in t.gqa}),
           Fed(g.v, t.laid.v, {u[2] : u \in t.gqa}), MaskArrays(t),
           [j \in DOMAIN t.sink |-> ApplyRec(t.laid.sinks[j], Named(t.sink[j].of.name, t.sink[j].of.shape))], t.scale)
\* The kernel's axes back to the root's.
RunOut(out, y) == IF y.shape = <<0>> THEN y ELSE Reshaped(Transposed(Reshaped(y, out.pre), out.perm), out.post)
RunSdpa(g, t) == RunOut(t.laid.out, LowerSdpa(g, t))

\* A row every key of which a mask drops comes out uniform, unless the mask
\* is applied to the probabilities again or another mask speaks of it too.
Speaks(g, o) ==
  \/ \E l \in Row(o) : ~l.drop
  \/ Cardinality({j \in DOMAIN g.logits : g.logits[j].op = "select"}) = 1 /\ ~\E j \in DOMAIN g.probs : g.probs[j].op = "zero"
SameAttention(g, x, y) ==
  x.shape = y.shape /\ \A n \in DOMAIN x.data : Speaks(g, y.data[n]) => Canon(x.data[n]) = Canon(y.data[n])
SdpaIsExact(g) == \A t \in Try(g) : SameAttention(g, RunSdpa(g, t), ChainSdpa(g))
=============================================================================

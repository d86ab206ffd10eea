----------------------------- MODULE MCFusedOps -----------------------------
(* The graphs of each recognizer: jax's spelling and its near misses. *)
EXTENDS FusedOps, Arrays, Sequences

---------------------------------------------------------------------------
(* Every stack of up to four axes of two, carried and read in every way. *)
Orders(n) == {f \in [1 .. n -> 1 .. n] : \A i, j \in 1 .. n : i # j => f[i] # f[j]}
Read(dims, perm, a, lead, nc, layer) ==
  LET carried == [k \in DOMAIN perm |-> dims[perm[k]]]
      rest == Sk!Without(carried, a)
  IN [kind |-> "stacked", x |-> "x", stack |-> "w", sites |-> 1, dims |-> dims, perm |-> perm, a |-> a,
      xshape |-> lead \o SubSeq(rest, 1, nc), lc |-> [i \in 1 .. nc |-> Len(lead) + i], rc |-> [i \in 1 .. nc |-> i],
      layer |-> layer]
Reads3 == UNION {{Read(d, p, a, lead, nc, l) : p \in Orders(Len(d)), a \in 1 .. Len(d), lead \in {<<>>, <<1>>, <<2>>},
                  nc \in 1 .. 2, l \in {-1, 1, 3}} : d \in {<<2, 3, 2>>, <<1, 2, 3>>}}
Reads4 == {Read(<<2, 2, 2, 2>>, p, a, lead, nc, 1) : p \in Orders(4), a \in 1 .. 4, lead \in {<<1>>, <<2>>}, nc \in 1 .. 3}
\* The dims contracted in another order, or other dims.
Twisted == {[Read(<<2, 2, 2, 2>>, <<2, 1, 3, 4>>, 1, <<2>>, 2, 1) EXCEPT !.lc = l, !.rc = r] :
              l \in {<<2, 3>>, <<3, 2>>, <<1, 2>>}, r \in {<<1, 2>>, <<2, 1>>, <<2, 3>>}}
StackedGraphs == {s \in Reads3 \cup Reads4 : Len(s.rc) < Len(s.dims) - 1} \cup Twisted
                 \cup {[Read(<<2, 3, 2>>, <<2, 1, 3>>, 1, <<1>>, 1, 1) EXCEPT !.sites = 2]}
Members == {[s EXCEPT !.stack = w] : w \in {"w", "v"}, s \in
              {Read(<<2, 2, n>>, p, 1, lead, 1, 1) : n \in 2 .. 3, lead \in {<<>>, <<1>>}, p \in {<<1, 2, 3>>, <<2, 1, 3>>}}
              \cup {Read(<<2, 1, 2, 3>>, <<1, 2, 3, 4>>, 1, <<1>>, 2, l) : l \in {1, 5}}}
PackGraphs == {[kind |-> "stacked pack", a |-> a, b |-> b] : a, b \in Members}

---------------------------------------------------------------------------
(* Ragged dots: jax's own spelling, and every way to differ from it in one *)
(* or two places.                                                          *)
RowsFrom0(s) == [i \in 0 .. Len(s) - 1 |-> s[i + 1]]
Lower == [dir |-> "LE", iotaLeft |-> FALSE, iota |-> "rows", bound |-> "starts"]
Upper == [dir |-> "LT", iotaLeft |-> TRUE, iota |-> "rows", bound |-> "ends"]
Ascending == [dir |-> "LT", swapped |-> FALSE, payload |-> <<0, 1>>]
NoStack == [L |-> 0]
Stack == [L |-> 2, perm |-> <<2, 1>>, hoists |-> TRUE, sites |-> 1, layer |-> 1, sibling |-> 2]
RealRow == [from |-> "real"]
Copies == [from |-> "gather", x0 |-> <<1, 2>>, dims |-> <<1, 3>>, shape |-> <<1, 3, 2>>, flat |-> <<3, 2>>,
           index |-> RowsFrom0(<<0, 2>>)]
Wrap == [op |-> "wrap", n |-> 3]
Clip == [op |-> "clip", lo |-> 0]
\* Three groups, two rows: the experts of one token, counted and sorted.
Plain ==
  [kind |-> "ragged", g |-> 3, m |-> 2, pad |-> 1, k |-> 2, types |-> <<"f32", "f32", "f32">>,
   off |-> 0, padValue |-> 0, mask |-> <<Lower, Upper>>, head |-> 0, tail |-> "ends",
   ends |-> [from |-> "cumsum", window |-> 3, lo |-> 2, init |-> 0, body |-> "add"],
   counts |-> [base |-> 0, update |-> 1, chain |-> <<Clip, Wrap>>],
   ids |-> [from |-> "top_k", result |-> 1, width |-> 3, tokens |-> 1, vals |-> RowsFrom0(<<2, 0>>)],
   sorts |-> <<Ascending>>, rows |-> RealRow, stack |-> NoStack, readers |-> {"rows"}]

(* The experts of each row, by where they come from. *)
ByTopK(d, a, b, w) == [d EXCEPT !.ids.width = w, !.ids.vals = RowsFrom0(<<a, b>>)]
BySort(d, a, b, payload) ==
  [d EXCEPT !.ids = [from |-> "sort", payload |-> payload, tokens |-> 1, vals |-> RowsFrom0(<<a, b>>)]]
ByArgument(d, a, b) == [d EXCEPT !.ids = [from |-> "argument", tokens |-> 1, vals |-> RowsFrom0(<<a, b>>)]]
Experts(d) ==
  {ByTopK(d, a, b, 3) : a, b \in 0 .. 2} \ {ByTopK(d, a, a, 3) : a \in 0 .. 2}
SomeExperts(d) == {d, ByTopK(d, 0, 1, 3), ByTopK(d, 1, 0, 3)}
OtherIds(d) ==
  {ByTopK(d, a, b, 4) : a \in 0 .. 3, b \in {0, 3}} \cup {ByArgument(d, a, b) : a, b \in -1 .. 3}
    \cup UNION {{BySort(d, a, b, p) : a, b \in {p[1], p[2]}} : p \in {<<0, 1>>, <<2, 0>>, <<1, 3>>}}
    \cup {[d EXCEPT !.ids.result = 0, !.ids.vals = RowsFrom0(<<a, 3>>)] : a \in {-1, 2}}
    \cup {[d EXCEPT !.ids.tokens = 2, !.ids.vals = RowsFrom0(<<a, a>>)] : a \in 0 .. 2}

(* One thing or another spelled in another way. *)
Compares == [dir : {"LT", "LE", "GT", "GE", "EQ"}, iotaLeft : BOOLEAN, iota : {"rows", "groups"}, bound : {"starts", "ends"}]
Masks(d) == {[d EXCEPT !.mask = <<a, b>>] : a, b \in {Lower, Upper}} \cup
            {[d EXCEPT !.mask = <<c, Upper>>] : c \in Compares} \cup {[d EXCEPT !.mask = <<c, Lower>>] : c \in Compares}
Ints(d) == {[d EXCEPT !.head = 1], [d EXCEPT !.tail = "rest"], [d EXCEPT !.off = 1], [d EXCEPT !.padValue = 1],
            [d EXCEPT !.ends.init = 1], [d EXCEPT !.ends.body = "max"], [d EXCEPT !.counts.base = 1],
            [d EXCEPT !.counts.update = 2], [d EXCEPT !.pad = 0]}
           \cup {[d EXCEPT !.ends.window = w, !.ends.lo = l] : w \in 1 .. 3, l \in 0 .. 2}
           \cup {[d EXCEPT !.counts.chain = c] : c \in {<<>>, <<Wrap>>, <<[op |-> "other"], Wrap>>, <<[Wrap EXCEPT !.n = -1]>>}}
Types(d) == {[d EXCEPT !.types = <<a, a, b>>] : a, b \in {"f32", "bf16", "f64"}}
Sorts(d) == {[d EXCEPT !.sorts = s] : s \in {<<[dir |-> a, swapped |-> x, payload |-> p]>> :
                a \in {"LT", "GT"}, x \in BOOLEAN, p \in {<<0, 1>>, <<1, 0>>, <<0, 0>>}}
              \cup {<<>>, <<[Ascending EXCEPT !.dir = "GT"], Ascending>>}}
Replicas(d) ==
  {[d EXCEPT !.rows = [Copies EXCEPT !.flat = f, !.index = RowsFrom0(<<a, b>>)]] : f \in {<<3, 2>>, <<2, 3>>, <<1, 6>>}, a, b \in {0, 2, 5}}
    \cup {[d EXCEPT !.rows = [Copies EXCEPT !.x0 = <<2>>, !.dims = <<a>>, !.shape = <<2, 2>>, !.flat = <<2, 2>>]] : a \in 1 .. 2}
    \cup {[d EXCEPT !.rows = [Copies EXCEPT !.x0 = <<2, 2>>, !.dims = <<1, 2>>, !.shape = <<2, 2>>, !.flat = <<2, 2>>]]}
Stacks(d) ==
  {[d EXCEPT !.stack = [Stack EXCEPT !.layer = l, !.sibling = s]] : l \in -1 .. 2, s \in 1 .. 3}
    \cup {[d EXCEPT !.stack = s] : s \in {[Stack EXCEPT !.sites = 2], [Stack EXCEPT !.hoists = FALSE], [Stack EXCEPT !.perm = <<1, 2>>]}}
Seen(d) == {[d EXCEPT !.readers = s, !.pad = p] : s \in SUBSET {"rows", "whole"}, p \in 0 .. 1}
\* The sizes of the groups are given, and none is negative.
Sized(d) == {[d EXCEPT !.ends = [from |-> "argument", vals |-> RowsFrom0(v)]] :
               v \in {v \in [1 .. 3 -> 0 .. 2] : v[1] <= v[2] /\ v[2] <= v[3]}}

Pair(A(_), B(_)) == UNION {B(d) : d \in A(Plain)}
RaggedGraphs ==
  UNION {Pair(SomeExperts, Masks), Pair(SomeExperts, Ints), Types(Plain), Pair(Experts, Sorts), Pair(SomeExperts, Replicas),
         Pair(Replicas, Stacks), Pair(Stacks, Seen), Pair(Experts, Seen), Pair(Sized, Seen), Pair(Sized, Masks),
         Pair(OtherIds, Sorts), OtherIds(Plain), Pair(Ints, Replicas), Pair(Stacks, Sized)}

---------------------------------------------------------------------------
(* Attentions spelled with named axes: b, h (heads), c (queries of a head), *)
(* t, s (queries and keys), d, e (features). Every axis is of two but those *)
(* that say otherwise, so that a wrong axis is of a fitting size.           *)
Pos(axes, a) == CHOOSE i \in DOMAIN axes : axes[i] = a
At(axes, names) == [i \in DOMAIN names |-> Pos(axes, names[i])]
SizeOf(r, a) == IF a = "b" THEN r.b ELSE IF a = "s" THEN r.s ELSE IF a = "d" THEN r.d ELSE 2
Shaped(r, axes) == [i \in DOMAIN axes |-> SizeOf(r, axes[i])]
Named0(name, shape) == [name |-> name, shape |-> shape, steps |-> <<>>]
Less(axes, names) == SelectSeq(axes, LAMBDA a : a \notin ToSet(names))
Reduce(kind, at, shape, dims) ==
  [kind |-> kind, init |-> Sd!Neutral(kind), at |-> at, pre |-> <<>>, dims |-> dims,
   post |-> <<[op |-> "broadcast", shape |-> shape, dims |-> FreeAxes(Len(shape), dims)]>>]

\* From a plan: the axes of the operands, the batching order, and the steps.
LogitAxes(r) == r.batch \o (IF r.flip THEN Less(r.ko, r.batch \o <<"d">>) \o Less(r.qo, r.batch \o <<"d">>)
                            ELSE Less(r.qo, r.batch \o <<"d">>) \o Less(r.ko, r.batch \o <<"d">>))
Widened(r, shape, axes) == IF \E j \in DOMAIN r.logits : r.logits[j].op = "sink" THEN [shape EXCEPT ![Pos(axes, "s")] = @ + 1] ELSE shape
Spelled(r, axes, shape, whole) ==
  [kind |-> "sdpa",
   lhs |-> Named0(IF r.flip THEN "k" ELSE "q", Shaped(r, IF r.flip THEN r.ko ELSE r.qo)),
   rhs |-> Named0(IF r.flip THEN "q" ELSE "k", Shaped(r, IF r.flip THEN r.qo ELSE r.ko)),
   lb |-> At(IF r.flip THEN r.ko ELSE r.qo, r.batch), rb |-> At(IF r.flip THEN r.qo ELSE r.ko, r.batch),
   lc |-> At(IF r.flip THEN r.ko ELSE r.qo, <<"d">>), rc |-> At(IF r.flip THEN r.qo ELSE r.ko, <<"d">>),
   logits |-> r.logits, max |-> Reduce("maximum", Len(r.logits), whole, <<Pos(axes, "s")>>),
   probs |-> (IF r.late THEN <<>> ELSE <<[op |-> "divide", sum |-> Reduce("add", -1, whole, <<Pos(axes, "s")>>)]>>) \o
             (IF whole # shape THEN <<[op |-> "slice", limits |-> shape]>> ELSE <<>>),
   v |-> Named0("v", Shaped(r, r.vo)), vb |-> At(r.vo, r.batch), vc |-> At(r.vo, <<"s">>),
   pb |-> At(axes, r.batch), pc |-> At(axes, <<"s">>), pside |-> r.pside,
   norm |-> <<>>]
Deferring(r, g, axes, whole) ==
  LET rest == r.batch \o (IF r.pside = 1 THEN Less(axes, r.batch \o <<"s">>) \o <<"e">> ELSE <<"e">> \o Less(axes, r.batch \o <<"s">>))
      kept == Less(axes, <<"s">>)
  IN IF ~r.late THEN g
     ELSE [g EXCEPT !.norm = <<[op |-> "divide", sum |->
              [Reduce("add", -1, whole, <<Pos(axes, "s")>>) EXCEPT !.post = <<[op |-> "broadcast", shape |-> Shaped(r, rest), dims |-> At(rest, kept)]>>]]>>]
\* `axes` name what comes out of the logits' steps.
Of(r, axes) ==
  LET shape == Shaped(r, axes)
      whole == Widened(r, shape, axes)
  IN Deferring(r, Spelled(r, axes, shape, whole), axes, whole)
Graph(r) == Of(r, LogitAxes(r))

Attention == [b |-> 1, s |-> 2, d |-> 1, batch |-> <<"b", "h">>, flip |-> FALSE, late |-> FALSE, pside |-> 1,
          qo |-> <<"b", "t", "h", "d">>, ko |-> <<"b", "s", "h", "d">>, vo |-> <<"b", "s", "h", "e">>, logits |-> <<>>]
GroupedQ == [Attention EXCEPT !.qo = <<"b", "t", "h", "c", "d">>, !.late = TRUE]

Perms(s) == {[i \in DOMAIN s |-> s[p[i]]] : p \in {p \in [DOMAIN s -> DOMAIN s] : IsInjective(p)}}
\* Where the operands' axes are, and which side the dots take them on.
Layouts ==
  {Graph([Attention EXCEPT !.qo = q, !.flip = f, !.late = l, !.d = 2]) : q \in Perms(Attention.qo), f, l \in BOOLEAN}
    \cup {Graph([Attention EXCEPT !.ko = k, !.vo = v, !.pside = p]) : k \in Perms(Attention.ko), v \in {Attention.vo, <<"e", "h", "s", "b">>}, p \in 1 .. 2}
    \cup {Graph([GroupedQ EXCEPT !.qo = q, !.late = l, !.b = 2, !.batch = o]) :
            q \in {<<"b", "t", "h", "c", "d">>, <<"b", "h", "c", "t", "d">>, <<"c", "b", "h", "t", "d">>}, l \in BOOLEAN,
            o \in {<<"b", "h">>, <<"h", "b">>, <<"h">>, <<"b">>}} 

\* Steps of a [b, h, t, s] path. A mask reads b at the axes `dims`.
Held1(name, r, axes, all) == [name |-> name, shape |-> Shaped(r, axes), dims |-> At(all, axes), keep |-> {0, 1}]
BHTS == <<"b", "h", "t", "s">>
MaskOf(axes) == Held1("m", Attention, axes, BHTS)
Scale(e) == [op |-> "scale", by |-> "multiply", e |-> e]
Divide(e) == [op |-> "scale", by |-> "divide", e |-> e]
Add(axes) == [op |-> "add", mask |-> MaskOf(axes)]
Select(axes, keep, c) == [op |-> "select", mask |-> [MaskOf(axes) EXCEPT !.keep = keep], c |-> c]
Shift(at, shape) == [op |-> "shift", by |-> Reduce("maximum", at, shape, <<4>>)]
SinkOf(axes, at, width) == [op |-> "sink", mask |-> [MaskOf(axes) EXCEPT !.name = "z"], axis |-> at, width |-> width]
Paths ==
  LET one == {Scale(1), Divide(2), Add(<<"t", "s">>), Add(<<"h">>), Select(<<"t", "s">>, {0, 2, 3}, -9000000),
              Select(<<"t", "s">>, {0, 1, 2}, -2000), Select(<<"s">>, {0}, -5000), Select(<<"h", "t">>, {1, 2}, -2000),
              Select(<<"t", "s">>, {0, 3}, -1000), Shift(0, <<1, 2, 2, 2>>)}
  IN {<<>>} \cup {<<a>> : a \in one} \cup {<<a, b>> : a, b \in one} \cup {<<a, b, c>> : a, b, c \in {x \in one : x.op # "shift"}}
Masked == {Graph([Attention EXCEPT !.logits = l, !.late = x]) : l \in Paths, x \in {FALSE}}
\* Masks along each set of axes, for each way to batch.
Along ==
  {Graph([Attention EXCEPT !.b = 2, !.batch = o, !.logits = <<[op |-> "add", mask |-> Held1("m", [Attention EXCEPT !.b = 2], axes, LogitAxes([Attention EXCEPT !.batch = o])) ]>>]) :
     o \in {<<"b", "h">>, <<"h", "b">>}, axes \in {<<"b">>, <<"h">>, <<"b", "s">>, <<"h", "t">>, <<"b", "h">>, <<"h", "b", "t", "s">>, <<"s", "t">>, <<"t">>}}
    \cup {Graph([GroupedQ EXCEPT !.logits = <<[op |-> "add", mask |-> Held1("m", GroupedQ, axes, LogitAxes(GroupedQ))]>>]) :
            axes \in {<<"c">>, <<"t">>, <<"t", "c">>, <<"h">>, <<"h", "c">>, <<"c", "s">>, <<"s">>}}

Sinks ==
  {Graph([Attention EXCEPT !.logits = pre \o <<s>> \o post]) :
     pre \in {<<>>, <<Scale(1)>>, <<Select(<<"t", "s">>, {0, 2, 3}, -2000)>>}, post \in {<<>>, <<Shift(1, <<1, 2, 2, 3>>)>>},
     s \in {SinkOf(<<"h">>, 4, 1), SinkOf(<<"h", "t">>, 4, 1), SinkOf(<<"t">>, 4, 1), SinkOf(<<"b", "h">>, 4, 1)}}

\* The reductions, and what they read.
Reductions ==
  LET g == Graph([Attention EXCEPT !.logits = <<Scale(1), Select(<<"t", "s">>, {0, 2, 3}, -2000)>>])
      back(d) == <<[op |-> "broadcast", shape |-> <<1, 2, 2, 2>>, dims |-> d]>>
      sum(x) == [g EXCEPT !.probs = <<[op |-> "divide", sum |-> x]>>]
      given == g.probs[1].sum
      turned == [given EXCEPT !.pre = <<[op |-> "transpose", perm |-> <<1, 3, 2, 4>>]>>]
  IN {[g EXCEPT !.max.at = j] : j \in 0 .. 2} \cup {[g EXCEPT !.max.init = "zero"], [g EXCEPT !.max.kind = "add"]}
     \cup {sum([given EXCEPT !.at = j]) : j \in -1 .. 2} \cup {sum([given EXCEPT !.init = "lowest"]), sum([given EXCEPT !.kind = "maximum"])}
     \cup {sum([given EXCEPT !.dims = <<a>>, !.post = back(d)]) : a \in 2 .. 4, d \in {<<1, 2, 3>>, <<1, 3, 2>>, <<1, 2, 4>>, <<1, 3, 4>>}}
     \cup {sum([turned EXCEPT !.post = back(d)]) : d \in {<<1, 2, 3>>, <<1, 3, 2>>}}
     \cup {[g EXCEPT !.probs = <<@[1], [op |-> "zero", mask |-> [MaskOf(<<"t", "s">>) EXCEPT !.keep = k]]>>] : k \in {{0, 2, 3}, {0, 1, 3}}}
     \cup {[g EXCEPT !.probs = <<>>], [g EXCEPT !.probs = @ \o @]}
     \cup {[g EXCEPT !.probs = @ \o <<[op |-> "transpose", perm |-> <<1, 3, 2, 4>>]>>, !.pb = b] : b \in {<<1, 2>>, <<1, 3>>}}

\* Axes merged, split and put elsewhere on the way.
Regrouped ==
  LET to(shape) == [op |-> "reshape", shape |-> shape]
      turn(p) == [op |-> "transpose", perm |-> p]
  IN {Of([GroupedQ EXCEPT !.logits = <<turn(<<1, 2, 4, 3, 5>>)>>, !.late = l], <<"b", "h", "c", "t", "s">>) : l \in BOOLEAN}
     \cup {Of([GroupedQ EXCEPT !.logits = <<turn(<<1, 2, 4, 3, 5>>), to(<<1, 4, 2, 2>>), to(s)>>], <<"b", "h", "c", "t", "s">>) :
             s \in {<<1, 2, 2, 2, 2>>}}
     \cup {Of([Attention EXCEPT !.logits = <<to(<<2, 2, 2>>), to(<<1, 2, 2, 2>>)>>], BHTS),
           Of([Attention EXCEPT !.logits = <<to(<<2, 4>>), to(<<1, 2, 2, 2>>)>>], BHTS),
           Of([Attention EXCEPT !.logits = <<to(<<1, 1, 2, 2, 2>>), to(<<1, 2, 2, 2>>)>>], BHTS),
           Of([Attention EXCEPT !.s = 3, !.logits = <<to(<<3, 4>>), turn(<<2, 1>>), to(<<1, 2, 2, 3>>)>>], BHTS),
           Of([Attention EXCEPT !.logits = <<to(<<4, 2>>), turn(<<2, 1>>), to(<<1, 2, 2, 2>>)>>], BHTS),
           Of([Attention EXCEPT !.logits = <<[op |-> "broadcast", shape |-> <<1, 2, 2, 2>>, dims |-> <<1, 2, 3, 4>>]>>], BHTS)}
     \cup {Of([Attention EXCEPT !.logits = <<turn(p)>>], BHTS) : p \in {<<1, 3, 2, 4>>, <<1, 2, 4, 3>>, <<1, 4, 3, 2>>}}

\* Half a key axis, and heads folded with the batch one way or the other.
Halved(d) ==
  LET r == [Attention EXCEPT !.s = 4, !.logits = <<[op |-> "reshape", shape |-> <<1, 2, 2, 2, 2>>]>>]
      g == Of(r, BHTS)
      wide == <<1, 2, 2, 2, 2>>
  IN [g EXCEPT !.max = Reduce("maximum", 1, wide, d),
               !.probs = <<[op |-> "divide", sum |-> Reduce("add", -1, wide, d)], [op |-> "reshape", shape |-> <<1, 2, 2, 4>>]>>]
FoldedHeads(p) ==
  LET r == [Attention EXCEPT !.b = 2, !.logits = <<[op |-> "transpose", perm |-> p], [op |-> "reshape", shape |-> <<4, 2, 2>>]>>]
      g == Of([r EXCEPT !.vo = BHTS], <<"b", "t", "s", "h">>)
  IN [g EXCEPT !.max = Reduce("maximum", 2, <<4, 2, 2>>, <<3>>), !.probs = <<[op |-> "divide", sum |-> Reduce("add", -1, <<4, 2, 2>>, <<3>>)]>>,
               !.v = Named0("v", <<4, 2, 2>>), !.vb = <<1>>, !.vc = <<2>>, !.pb = <<1>>, !.pc = <<3>>]
Refolded == {Halved(d) : d \in {<<4>>, <<5>>, <<4, 5>>}} \cup {FoldedHeads(p) : p \in {<<1, 2, 3, 4>>, <<2, 1, 3, 4>>, <<1, 3, 2, 4>>}}

\* Four heads made of two: the repeat, in front of both dots.
Repeated(x, to, dims, more) == [x EXCEPT !.steps = <<[op |-> "broadcast", shape |-> to, dims |-> dims], [op |-> "reshape", shape |-> <<1, 2, 4, 1>>]>> \o more]
Heads4(k, v) ==
  LET axes == <<1, 4, 2, 2>>
      keyMax == Reduce("maximum", 0, axes, <<4>>)
  IN [kind |-> "sdpa", lhs |-> Named0("q", <<1, 2, 4, 1>>), rhs |-> k, lb |-> <<1, 3>>, rb |-> <<1, 3>>, lc |-> <<4>>, rc |-> <<4>>,
      logits |-> <<>>, max |-> keyMax, probs |-> <<[op |-> "divide", sum |-> Reduce("add", -1, axes, <<4>>)]>>,
      v |-> v, vb |-> <<1, 3>>, vc |-> <<2>>, pb |-> <<1, 2>>, pc |-> <<4>>, pside |-> 1, norm |-> <<>>]
RepeatsOf(name) ==
  LET x == Named0(name, <<1, 2, 2, 1>>)
      one == Named0(name, <<1, 2, 1, 1>>)
  IN {Repeated(x, <<1, 2, 2, 2, 1>>, <<1, 2, 3, 5>>, <<>>), Repeated(x, <<1, 2, 2, 2, 1>>, <<1, 2, 4, 5>>, <<>>),
      Repeated(one, <<1, 2, 1, 4, 1>>, <<1, 2, 3, 5>>, <<>>), Repeated(one, <<1, 2, 4, 1>>, <<1, 2, 3, 4>>, <<>>),
      Repeated(Named0(name, <<1, 2, 4, 1>>), <<1, 2, 4, 1>>, <<1, 2, 3, 4>>, <<>>),
      [Named0(name, <<1, 2, 2, 1>>) EXCEPT !.steps =
         <<[op |-> "transpose", perm |-> <<1, 3, 2, 4>>], [op |-> "broadcast", shape |-> <<1, 2, 2, 2, 1>>, dims |-> <<1, 2, 4, 5>>],
           [op |-> "reshape", shape |-> <<1, 4, 2, 1>>], [op |-> "transpose", perm |-> <<1, 3, 2, 4>>]>>]}
Repeats4 == {Heads4(k, v) : k \in RepeatsOf("k"), v \in RepeatsOf("v")}

SdpaGraphs == UNION {Layouts, Masked, Along, Sinks, Reductions, Regrouped, Refolded, Repeats4}

---------------------------------------------------------------------------
MNo == INSTANCE MCNorm
MMo == INSTANCE MCMoe
MCGraphs == UNION {RaggedGraphs, StackedGraphs, PackGraphs, SdpaGraphs, MNo!NormGraphs, MMo!MoeGraphs}
=============================================================================

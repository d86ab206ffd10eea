---------------------------- MODULE MCAlgorithms ----------------------------
(* The pure algorithms side by side: a behaviour either grows one index
   expression, or picks one input of another algorithm, in one step or two. *)
EXTENDS MCIndexRange, GatherScatter, HostTransfer, LoopPlan, Convolution

\* The theorem about the ranges speaks of these expressions.
ASSUME ExpressionsFormed

---------------------------------------------------------------------------
(* Every well-formed gather and scatter over operands of rank 1 and 2, index
   arrays of rank up to 2, and indices on both sides of the bounds. *)
OpShapes == {<<3>>, <<2, 2>>}
IdxShapes == {<<1>>, <<2>>, <<1, 2>>, <<2, 1>>, <<2, 2>>}
Dimensions(n) == 0 .. n - 1
Orders(S, n) == {f \in [1 .. n -> S] : \A i, j \in 1 .. n : i # j => f[i] # f[j]}
Increasing(n, k) == {f \in Orders(Dimensions(n), k) : \A i \in 1 .. k - 1 : f[i] < f[i + 1]}

(* The index side, as the verifier admits it... *)
Formed(x) == IndicesFormed(x) /\ ToSet(x.map) \cap ToSet(x.opBatching) = {}
PickIndices ==
  /\ input = NoInput
  /\ \E ishape \in IdxShapes, oshape \in OpShapes :
     \E ivd \in 0 .. Len(ishape) :
     LET k == IF ivd = Len(ishape) THEN 1 ELSE ishape[ivd + 1] IN
     \E m \in Orders(Dimensions(Len(oshape)), k),
        ob \in {<<>>} \cup {<<d>> : d \in Dimensions(Len(oshape))},
        ib \in {<<>>} \cup {<<d>> : d \in Dimensions(Len(ishape)) \ {ivd}},
        idx \in [Coords(ishape) -> IF Product(ishape) > 2 THEN {-1, 1} ELSE {-1, 0, 1, 2}] :
       LET x == [kind |-> "indices", opShape |-> oshape, idxShape |-> ishape, ivd |-> ivd,
                 map |-> m, opBatching |-> ob, idxBatching |-> ib, idx |-> idx]
       IN Formed(x) /\ input' = x
BatchOf(x) == LET ds == BatchDims(x.idxShape, x.ivd) IN [i \in DOMAIN ds |-> x.idxShape[ds[i] + 1]]
(* `offset` interleaved with the batch dims makes the result's shape. *)
Interleaved(batch, offset, slice) ==
  LET rank == Len(batch) + Len(offset)
      rest == Kept(rank, ToSet(offset))
  IN [d \in 1 .. rank |-> IF Has(offset, d - 1) THEN slice[At(offset, d - 1)]
                          ELSE batch[At(rest, d - 1)]]

(* ...and what a gather or a scatter makes of it. *)
Gathers ==
  LET x == input
      rank == Len(x.opShape)
  IN \E collapsed \in SUBSET (Dimensions(rank) \ ToSet(x.opBatching)) :
     LET gone == collapsed \cup ToSet(x.opBatching)
         kept == Kept(rank, gone)
     IN \E sizes \in [1 .. rank -> 1 .. 2],
           offset \in Increasing(Len(BatchOf(x)) + Len(kept), Len(kept)) :
          LET y == [x EXCEPT !.kind = "gather"] @@
                [sizes |-> sizes, collapsed |-> collapsed, offset |-> offset,
                 outShape |-> Interleaved(BatchOf(x), offset,
                                [i \in DOMAIN kept |-> sizes[kept[i] + 1]])]
          IN (\A d \in gone : sizes[d + 1] = 1) /\ GatherFormed(y) /\ input' = y
(* A combiner, METALJAX_SCATTER_APPEND, and whether the starts are proven. *)
Modes == {<<"add", 0, FALSE>>, <<"apply", 0, FALSE>>, <<"sequential", 0, FALSE>>}
           \cup {<<"set", a, p>> : a \in 1 .. 2, p \in BOOLEAN} \cup {<<"set", 0, FALSE>>}
(* What the analysis proves is so, and unique indices are unique. *)
Truthful(x) ==
  /\ ScatterFormed(x)
  /\ x.append > 0 => Product(BatchOf(x)) = 1
  /\ x.method = "apply" =>
       \A c \in Coords(x.opShape) :
         Cardinality({u \in Coords(x.updShape) : c \in ScatterTo(x, u)}) <= 1
Scatters ==
  LET x == input
      rank == Len(x.opShape)
  IN \E inserted \in SUBSET (Dimensions(rank) \ ToSet(x.opBatching)) :
     LET kept == Kept(rank, inserted \cup ToSet(x.opBatching))
     IN \E window \in Increasing(Len(BatchOf(x)) + Len(kept), Len(kept)),
           slice \in [DOMAIN kept -> 1 .. 2], mode \in Modes :
          LET y == [x EXCEPT !.kind = "scatter"] @@
                [inserted |-> inserted, window |-> window, method |-> mode[1],
                 append |-> mode[2], proven |-> mode[3],
                 updShape |-> Interleaved(BatchOf(x), window, slice)]
          IN Truthful(y) /\ input' = y

GatherScatterPick == PickIndices \/ (input.kind = "indices" /\ (Gathers \/ Scatters))

---------------------------------------------------------------------------
(* Host arrays of rank 0 to 2, contiguous or a view with strides of either
   sign, in each kind of wire, and each step of a transfer failing. *)
TransferDims == {<<>>} \cup {<<n>> : n \in -1 .. 3} \cup {<<m, n>> : m \in 1 .. 2, n \in 0 .. 3}
TransferTypes == {"s8", "s16", "f64", "c128", "s2", "u2"}
TransferFails == {"none", "admit", "stage", "decode"}
TransferHosts == {[o \in -12 .. 12 |-> (o + k) % 4] : k \in 0 .. 3}
Transfers ==
  /\ input = NoInput
  /\ \E dims \in TransferDims, type \in TransferTypes, fails \in TransferFails,
        host \in TransferHosts :
     \E strides \in [DOMAIN dims -> {Wire(type).item * k : k \in {-3, -1, 0, 1, 2}}]
                      \cup {<<>>, <<1, 1, 1>>} :
       input' = [kind |-> "transfer", dims |-> dims, type |-> type, fails |-> fails,
                 host |-> host, strides |-> strides]

---------------------------------------------------------------------------
(* Every window over small arrays: one axis with all its attributes, two   *)
(* axes with a few each; every layout and grouping of a small convolution. *)
Perms(n) == {f \in [1 .. n -> 1 .. n] : \A i, j \in 1 .. n : i # j => f[i] # f[j]}
Vals(shape) == [Cells(shape) -> 0 .. 1]

(* One axis of a window... *)
Axis(n, wd, stride, bdil, wdil, lo, hi) ==
  [n |-> n, wd |-> wd, stride |-> stride, bdil |-> bdil, wdil |-> wdil, lo |-> lo, hi |-> hi]
SmallAxes == {Axis(1, 1, 1, 1, 1, 0, 0), Axis(2, 2, 1, 1, 1, 1, 0)}
PlainAxes == SmallAxes \cup {Axis(3, 2, 2, 1, 1, 0, 1), Axis(3, 2, 1, 1, 1, 0, 0)}
Spaced == {Axis(2, 2, 1, 2, 1, 0, 1), Axis(3, 2, 1, 1, 2, 0, 0)}
(* ...and a few side by side. *)
Window(axes, body, n, vals) ==
  [kind |-> "window", shape |-> [k \in DOMAIN axes |-> axes[k].n], wd |-> [k \in DOMAIN axes |-> axes[k].wd],
   strides |-> [k \in DOMAIN axes |-> axes[k].stride], bdil |-> [k \in DOMAIN axes |-> axes[k].bdil],
   wdil |-> [k \in DOMAIN axes |-> axes[k].wdil], lo |-> [k \in DOMAIN axes |-> axes[k].lo],
   hi |-> [k \in DOMAIN axes |-> axes[k].hi], body |-> body, n |-> n, vals |-> vals]

PickWindow ==
  \/ \E n, wd \in 1 .. 3, stride, bdil, wdil \in 1 .. 2, lo, hi \in 0 .. 2, body \in {"add", "other"} :
       input' = Window(<<Axis(n, wd, stride, bdil, wdil, lo, hi)>>, body, 1, <<>>)
  \/ \E a, b \in PlainAxes \cup Spaced, body \in {"max", "other"} : input' = Window(<<a, b>>, body, 1, <<>>)
  \/ input' = Window(<<Axis(0, 2, 1, 1, 1, 1, 2)>>, "add", 1, <<>>)
  \/ \E a \in PlainAxes \cup Spaced, body \in {"GE", "LE"} : \E v \in Vals(<<a.n>>) : input' = Window(<<a>>, body, 2, v)
  \/ \E a, b \in SmallAxes, body \in {"GE", "LE"} : \E v \in Vals(<<a.n, b.n>>) : input' = Window(<<a, b>>, body, 2, v)
\* A source for every window there is, and none wider than its axis.
PickScatter ==
  \E axes \in {<<a>> : a \in PlainAxes} \cup (SmallAxes \X SmallAxes), body \in {"GE", "LE"} :
    \E v \in Vals([k \in DOMAIN axes |-> axes[k].n]) : input' = [Window(axes, body, 2, v) EXCEPT !.kind = "select and scatter"]
PickPad ==
  \/ \E n \in 0 .. 3, low, high \in -2 .. 2, i \in 0 .. 2 :
       /\ low + high + Stretched(n, i + 1) >= 0
       /\ input' = [kind |-> "pad", shape |-> <<n>>, low |-> <<low>>, high |-> <<high>>, interior |-> <<i>>]
  \/ \E low, high \in [1 .. 2 -> -1 .. 1], i \in [1 .. 2 -> 0 .. 1] :
       input' = [kind |-> "pad", shape |-> <<2, 3>>, low |-> low, high |-> high, interior |-> i]
PickReduce ==
  \/ \E shape \in {<<>>, <<0>>, <<5>>, <<1, 0>>, <<2, 3>>, <<3, 1>>, <<2, 1, 3>>} :
       \E S \in SUBSET DOMAIN shape :
         \/ \E n \in 1 .. 2, body \in {"monoid", "other"} :
              input' = [kind |-> "reduce", shape |-> shape, dims |-> InOrder(S), n |-> n, body |-> body, bool |-> FALSE]
         \/ input' = [kind |-> "reverse", shape |-> shape, dims |-> Reverse(InOrder(S))]
  \/ \E n \in 1 .. 3, body \in {"GT", "LT"} : \E v \in [1 .. n -> {0, 1, NaN}] : input' = [kind |-> "arg", vals |-> v, body |-> body]

Conv(lhs, rhs, out, ls, rs, strides, ldil, rdil, pad, fgc, bgc, flip, int) ==
  LET x == [kind |-> "conv", lhs |-> lhs, rhs |-> rhs, out |-> out, lhsShape |-> ls, rhsShape |-> rs,
            strides |-> strides, ldil |-> ldil, rdil |-> rdil, pad |-> pad, fgc |-> fgc, bgc |-> bgc,
            flip |-> flip, int |-> int, outShape |-> <<>>]
  IN [x EXCEPT !.outShape = ConvShape(x)]
\* The sizes at the dims a layout gives them.
Laid(layout, sizes) == [d \in DOMAIN layout |-> sizes[CHOOSE i \in DOMAIN layout : layout[i] = d]]
PickConv ==
  \/ \E n \in {1, 3}, k, stride, ldil, rdil \in 1 .. 2, lo \in {-3, -1, 0, 1}, hi \in -2 .. 0, flip, int \in BOOLEAN :
       input' = Conv(<<1, 2, 3>>, <<1, 2, 3>>, <<1, 2, 3>>, <<1, 1, n>>, <<1, 1, k>>, <<stride>>, <<ldil>>, <<rdil>>,
                     <<<<lo, hi>>>>, 1, 1, flip, int)
  \/ \E groups \in {<<1, 1>>, <<2, 1>>, <<1, 2>>}, int \in BOOLEAN, lhs, rhs, out \in Perms(3) :
       LET f == groups[1]
           b == groups[2]
       IN /\ Cardinality({lhs, rhs, out} \ {<<1, 2, 3>>}) < 2
          /\ input' = Conv(lhs, rhs, out, Laid(lhs, <<b, 2, 2>>), Laid(rhs, <<2, 2 \div f, 2>>), <<1>>, <<2>>, <<1>>,
                           <<<<1, -1>>>>, f, b, TRUE, int)
  \/ \E groups \in {<<1, 1>>, <<2, 1>>, <<1, 2>>, <<3, 1>>}, lhs, rhs, out \in Perms(2) :
       LET f == groups[1]
           b == groups[2]
       IN input' = Conv(lhs, rhs, out, Laid(lhs, <<2, 2>>), Laid(rhs, <<2, IF f = 2 THEN 1 ELSE 2>>),
                        <<>>, <<>>, <<>>, <<>>, f, b, FALSE, FALSE)
  \/ \E flip, int \in BOOLEAN, k \in {<<2, 1>>, <<2, 2>>}, e \in {<<0, 1>>, <<-1, 0>>}, f \in 1 .. 2 :
       input' = Conv(<<1, 2, 3, 4>>, <<2, 1, 4, 3>>, <<4, 3, 1, 2>>, <<1, 2, 2, 3>>, <<2 \div f, 2, k[2], k[1]>>,
                     <<1, 2>>, <<2, 1>>, <<1, 1>>, <<e, <<1, 0>>>>, f, 1, flip, int)
WindowPick == input = NoInput /\ (PickWindow \/ PickScatter \/ PickPad \/ PickReduce \/ PickConv)
WindowSpec == input = NoInput /\ [][WindowPick]_input

---------------------------------------------------------------------------
(* Counters of three bits or in halves, from below, at and above their bound;
   three levels of blocks of one or two ops; loop bodies of two values. *)
CountedValues(type) ==
  CASE type = "signed" -> {-4, -1, 0, 2, 3} [] type = "unsigned" -> {0, 1, 3, 7}
    [] type = "i1" -> 0 .. 1 [] type = "float" -> {-3, 0, 1, 2, 5}
PickCounted ==
  \E type \in {"signed", "unsigned", "i1", "float"}, dir \in {"LT", "LE", "NE"},
     lhs \in {"carry", "other"}, rhs \in {"const", "kept", "changed", "outer", "computed"},
     step \in {"add", "same"}, effects \in BOOLEAN :
  \E start, bound \in CountedValues(type), inc \in {1, 2, 3} :
    input' = [kind |-> "counted", type |-> type, dir |-> dir, lhs |-> lhs, rhs |-> rhs,
              step |-> step, effects |-> effects, start |-> start, bound |-> bound,
              inc |-> inc]

Op0(name) == [name |-> name, inner |-> 0, bytes |-> 1, absorbed |-> FALSE, unit |-> 0,
              planned |-> FALSE, counted |-> "static", startKnown |-> TRUE, trip |-> 0,
              unique |-> FALSE, rows |-> 1]
Leaves == {Op0("plain"), [Op0("plain") EXCEPT !.bytes = 4], Op0("host"),
           [Op0("plain") EXCEPT !.absorbed = TRUE], [Op0("plain") EXCEPT !.unit = 3]}
Around(b) ==
  LET W == [Op0("while") EXCEPT !.inner = b] IN
  {[W EXCEPT !.trip = t] : t \in {0, 2, 3, 5}}
    \cup {[W EXCEPT !.counted = "value", !.trip = 2], [W EXCEPT !.startKnown = FALSE, !.trip = 2],
          [W EXCEPT !.planned = TRUE, !.trip = 5]}
    \cup {[Op0(n) EXCEPT !.inner = b] : n \in {"call", "plain", "if"}}
    \cup {[Op0("scatter") EXCEPT !.inner = b, !.rows = 2, !.unique = u] : u \in BOOLEAN}
Bodies == {<<o>> : o \in Leaves}
            \cup {<<o, p>> : o \in {o \in Leaves : o.name = "plain" /\ ~ o.absorbed}, p \in Leaves}
PickBlocks ==
  \E leaf \in Bodies,
     mid \in {<<o>> : o \in Around(1)} \cup {<<Op0("plain"), o>> : o \in Around(1)},
     top \in {<<o>> : o \in Around(2)} \cup {<<Op0("plain"), o>> : o \in Around(2)}
               \cup {<<o, p>> : o \in {w \in Around(1) : IsStatic(w) /\ w.trip > 2}, p \in Around(2)},
     less \in {<<0, 0>>, <<6, 0>>, <<0, 4>>} :
    LET x == [kind |-> "blocks", blocks |-> <<leaf, mid, top>>, passthrough |-> less[1],
              tape |-> <<0, 0, 0>>]
    IN input' = [x EXCEPT !.tape = [b \in 1 .. 3 |-> Max({1, BlockCost(x)[b] - less[2]})]]

ValueOps(n) ==
  {[name |-> "update", ins |-> <<v, w>>] : v, w \in 1 .. n}
    \cup {[name |-> "other", ins |-> <<v>>] : v \in 1 .. n}
    \cup {[name |-> "call", ins |-> <<v, w>>] : v, w \in 1 .. n}
Callees ==
  {[args |-> 2, ops |-> <<o>>, ret |-> <<r>>] :
     o \in {p \in ValueOps(2) : p.name # "call"}, r \in 1 .. 3}
PickCarries ==
  \E o \in ValueOps(2), p \in ValueOps(3), callee \in Callees, r, s \in 1 .. 4 :
    input' = [kind |-> "carries", callee |-> callee,
              body |-> [args |-> 2, ops |-> <<o, p>>, ret |-> <<r, s>>]]
LoopPlanPick == input = NoInput /\ (PickCarries \/ PickCounted \/ PickBlocks)

---------------------------------------------------------------------------
algVars == <<rangeVars, input>>
AlgInit == input = NoInput /\ (RangeInit \/ (suite = "none" /\ nodes = <<>>))
AlgNext ==
  \/ suite # "none" /\ RangeNext /\ UNCHANGED input
  \/ /\ suite = "none" /\ UNCHANGED rangeVars
     /\ \/ Transfers
        \/ WindowPick
        \/ GatherScatterPick
        \/ LoopPlanPick
        \/ input \notin {NoInput} /\ input.kind # "indices" /\ UNCHANGED input
\* Transfers only.
TransfersSpec ==
  /\ input = NoInput /\ suite = "none" /\ nodes = <<>>
  /\ [][Transfers /\ UNCHANGED rangeVars]_algVars
AlgSpec == AlgInit /\ [][AlgNext]_algVars
=============================================================================

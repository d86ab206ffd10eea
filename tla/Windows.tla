------------------------------ MODULE Windows ------------------------------
(***************************************************************************)
(* The handlers that slide a window: reduce_window, select_and_scatter and *)
(* convolution, over one strided view of the operand.                      *)
(***************************************************************************)
EXTENDS Reductions

CONSTANT WindowMax \* kWindowMax, scaled down

Stretched(n, dilation) == IF n = 0 THEN 0 ELSE (n - 1) * dilation + 1
\* C++'s /, which rounds towards zero: (mutant) of FloorDiv, and as it is in select_and_scatter.
Truncated(a, b) == IF a < 0 THEN - ((- a) \div b) ELSE a \div b
FloorDiv(a, b) == a \div b

\* Base-dilate with v, one axis after the other, and cut the last holes.
Dilated(a, v, dilation) ==
  LET step(b, k) ==
        IF dilation[k] = 1 THEN b
        ELSE LET big == [b.shape EXCEPT ![k] = @ * dilation[k]]
                 holes == SliceUpdate(Filled(big, v), b, [Each(big, 1) EXCEPT ![k] = dilation[k]])
             IN Slice(holes, Each(big, 0), [big EXCEPT ![k] = @ - (dilation[k] - 1)], Each(big, 1))
  IN FoldLeft(step, a, [k \in DOMAIN dilation |-> k])

---------------------------------------------------------------------------
(* reduce_window. *)
BuildWindowPlan(x) ==
  LET dilated == [k \in DOMAIN x.shape |-> IF x.bdil[k] = 1 THEN x.shape[k] ELSE x.shape[k] * x.bdil[k] - (x.bdil[k] - 1)]
      anyPad == \E k \in DOMAIN x.lo : x.lo[k] # 0 \/ x.hi[k] # 0
      shape == IF anyPad THEN [k \in DOMAIN dilated |-> dilated[k] + x.lo[k] + x.hi[k]] ELSE dilated
      span == [k \in DOMAIN x.wd |-> (x.wd[k] - 1) * x.wdil[k] + 1]
      out == [k \in DOMAIN shape |-> Max({0, FloorDiv(shape[k] - span[k], x.strides[k]) + 1})]
      elem == Strides(shape)
  IN IF \/ \E k \in DOMAIN x.lo : x.lo[k] < 0 \/ x.hi[k] < 0
        \/ Volume(x.wd) * Volume(out) > WindowMax
     THEN Declined
     ELSE [declined |-> FALSE, padded |-> anyPad, out |-> out,
           view |-> out \o x.wd,
           strides |-> [k \in DOMAIN out |-> elem[k] * x.strides[k]] \o [k \in DOMAIN out |-> elem[k] * x.wdil[k]],
           flat |-> Append(out, Volume(x.wd)),
           empty |-> Volume(x.wd) = 0 \/ Volume(out) = 0]
ExtractWindows(x, p, a, v) ==
  LET spread == Dilated(a, v, x.bdil)
      edged == IF p.padded THEN Padded(spread, x.lo, x.hi, v) ELSE spread
  IN Reshaped(AsStrided(edged, p.view, p.strides), p.flat)

\* jax's cumulative ops: one axis of full width, padded on one side.
Cumulative(x) ==
  LET big == {k \in DOMAIN x.wd : x.wd[k] > 1}
      full(k) == /\ x.wd[k] = x.shape[k]
                 /\ \A j \in DOMAIN x.wd : j # k => x.lo[j] = 0 /\ x.hi[j] = 0
  IN IF /\ x.n = 1 /\ x.body \in {"add", "mul", "max", "min"}
        /\ \A k \in DOMAIN x.wd : x.strides[k] = 1 /\ x.bdil[k] = 1 /\ x.wdil[k] = 1
     THEN {[axis |-> k, rev |-> r] : k \in {k \in big : big = {k} /\ full(k)}, r \in BOOLEAN}
          \cap ({[axis |-> k, rev |-> FALSE] : k \in {k \in big : x.lo[k] = x.shape[k] - 1 /\ x.hi[k] = 0}}
                \cup {[axis |-> k, rev |-> TRUE] : k \in {k \in big : x.lo[k] = 0 /\ x.hi[k] = x.shape[k] - 1}})
     ELSE {}
\* cumsum and the like: the places up to each, or from each.
RunCumulative(x, cum) ==
  [shape |-> x.shape,
   data |-> [n \in Cells(x.shape) |->
     LET c == CoordOf(n, x.shape)
         along == IF cum.rev THEN c[cum.axis] .. x.shape[cum.axis] - 1 ELSE 0 .. c[cum.axis]
         ms == InOrder({Place([c EXCEPT ![cum.axis] = i], x.shape) : i \in along})
     IN [i \in DOMAIN ms |-> <<"x", ms[i]>>]]]

ReduceKinds == {"add", "mul", "max", "min", "or", "and"}
LowerReduceWindow(x, p) ==
  IF Cumulative(x) # {} THEN "cumulative"
  ELSE IF p.declined THEN "declined"
  ELSE IF x.n >= 2 /\ x.body \in {"GE", "LE"} THEN "select"
  ELSE IF x.n = 1 /\ x.body \in ReduceKinds THEN "monoid"
  ELSE "generic"
\* Of a window, the place of the best value, the first of equals.
Winner(w, isMax) ==
  LET best == Best(isMax, {w[i].val : i \in DOMAIN w}) IN First(w, LAMBDA e : e.val = best)
\* Of select_and_gather_add, a cell is its first operand's value and where it is from.
Valued(x) == [shape |-> x.shape, data |-> [n \in Cells(x.shape) |-> [val |-> x.vals[n], at |-> n]]]
Worst(isMax) == [val |-> IF isMax THEN -1 ELSE 2, at |-> -1]
RunReduceWindow(x, p, mode) ==
  LET isMax == x.body = "GE"
      wins == IF mode = "select" THEN ExtractWindows(x, p, Valued(x), Worst(isMax)) ELSE ExtractWindows(x, p, X(x), Init0)
      last == Len(p.flat)
  IN IF p.empty THEN Filled(p.out, IF mode = "select" THEN Worst(isMax) ELSE <<Init0>>)
     ELSE CASE mode = "monoid" -> ReduceCombine(ReduceApply(wins, <<last>>))
            [] mode = "generic" -> GenericReduce(wins, [k \in 1 .. last - 1 |-> k], <<last>>)
            [] mode = "select" ->
                 [shape |-> p.out,
                  data |-> [n \in Cells(p.out) |->
                    LET w == [i \in 1 .. p.flat[last] |-> wins.data[n * p.flat[last] + i - 1]]
                    IN w[Winner(w, isMax)]]]

\* How many windows an axis has, and the operand's place the i-th reads
\* at w; 0 or less and more than there are: a hole or an edge.
WindowCount(n, lo, hi, bdil, wd, wdil, stride) ==
  LET padded == lo + Stretched(n, bdil) + hi
      span == Stretched(wd, wdil)
  IN IF padded < span THEN 0 ELSE (padded - span) \div stride + 1
Reads(x, c, w) ==
  {m \in Cells(x.shape) : \A k \in DOMAIN x.shape :
     CoordOf(m, x.shape)[k] * x.bdil[k] + x.lo[k] = c[k] * x.strides[k] + w[k] * x.wdil[k]}
WindowsOf(x) == [k \in DOMAIN x.shape |->
  WindowCount(x.shape[k], x.lo[k], x.hi[k], x.bdil[k], x.wd[k], x.wdil[k], x.strides[k])]
ReadsInOrder(x, c) ==
  LET from(i) == Reads(x, c, CoordOf(i - 1, x.wd))
      each == [i \in 1 .. Volume(x.wd) |-> InOrder(from(i))]
  IN FlattenSeq(each)
ReduceWindowMeans(x) ==
  LET out == WindowsOf(x)
  IN [shape |-> out,
      data |-> [n \in Cells(out) |->
                  LET ms == ReadsInOrder(x, CoordOf(n, out)) IN [i \in DOMAIN ms |-> <<"x", ms[i]>>]]]
\* The select keeps what it has unless the next is better.
SelectMeans(x) ==
  LET out == WindowsOf(x)
      isMax == x.body = "GE"
      keep(a, b) == IF isMax THEN IF a.val >= b.val THEN a ELSE b ELSE IF a.val <= b.val THEN a ELSE b
  IN [shape |-> out,
      data |-> [n \in Cells(out) |->
                  LET ms == ReadsInOrder(x, CoordOf(n, out))
                  IN FoldLeft(keep, Worst(isMax), [i \in DOMAIN ms |-> [val |-> x.vals[ms[i]], at |-> ms[i]]])]]

---------------------------------------------------------------------------
(* select_and_scatter: where each window's winner is, its source is added.  *)
LowerSelectAndScatter(x) ==
  IF \E k \in DOMAIN x.lo : x.lo[k] < 0 \/ x.hi[k] < 0 THEN Declined
  ELSE [declined |-> FALSE, padded |-> \E k \in DOMAIN x.lo : x.lo[k] # 0 \/ x.hi[k] # 0]
RunSelectAndScatter(x, p) ==
  LET isMax == x.body = "GE"
      a == IF p.padded THEN Padded(Valued(x), x.lo, x.hi, Worst(isMax)) ELSE Valued(x)
      elem == Strides(a.shape)
      out == [k \in DOMAIN a.shape |-> Max({0, Truncated(a.shape[k] - x.wd[k], x.strides[k]) + 1})]
      win == Reshaped(AsStrided(a, out \o x.wd, [k \in DOMAIN out |-> elem[k] * x.strides[k]] \o elem),
                      Append(out, Volume(x.wd)))
      arg == [n \in Cells(out) |-> Winner([i \in 1 .. Volume(x.wd) |-> win.data[n * Volume(x.wd) + i - 1]], isMax)]
      \* the winner's place in the padded array
      flat == [n \in Cells(out) |->
                 LET off == CoordOf(arg[n] - 1, x.wd)
                 IN SumFunction([k \in DOMAIN out |-> (CoordOf(n, out)[k] * x.strides[k] + off[k]) * elem[k]])]
      base == [shape |-> a.shape, data |-> [m \in Cells(a.shape) |-> {n \in Cells(out) : flat[n] = m}]]
  IN Slice(base, x.lo, [k \in DOMAIN x.lo |-> x.lo[k] + x.shape[k]], Each(x.shape, 1))
SelectAndScatterMeans(x) ==
  LET out == WindowsOf(x)
      winner == [n \in Cells(out) |->
                   LET ms == ReadsInOrder(x, CoordOf(n, out))
                   IN IF ms = <<>> THEN -1
                      ELSE ms[Winner([i \in DOMAIN ms |-> [val |-> x.vals[ms[i]]]], x.body = "GE")]]
  IN [shape |-> x.shape, data |-> [m \in Cells(x.shape) |-> {n \in Cells(out) : winner[n] = m}]]

---------------------------------------------------------------------------
(* What a picked input must satisfy. *)
WindowIsExact(x) ==
  CASE x.kind = "pad" -> RunPad(x, LowerPad(x)) = PadMeans(x)
    [] x.kind = "reverse" -> RunReverse(x, LowerReverse(x)) = ReverseMeans(x)
    [] x.kind = "arg" -> LET isMax == x.body \in {"GT", "GE"} IN RunArg(x, isMax) = ArgMeans(x, isMax)
    [] x.kind = "reduce" -> LET how == LowerReduce(x) IN how # "arg" => GivenOf(RunReduce(x, how)) = ReduceMeans(x)
    [] x.kind = "window" ->
         LET p == BuildWindowPlan(x)
             mode == LowerReduceWindow(x, p)
         IN (CASE mode = "declined" -> TRUE
              [] mode = "cumulative" -> \A cum \in Cumulative(x) : RunCumulative(x, cum) = ReduceWindowMeans(x)
              [] mode = "select" -> RunReduceWindow(x, p, mode) = SelectMeans(x)
              [] mode \in {"monoid", "generic"} -> GivenOf(RunReduceWindow(x, p, mode)) = ReduceWindowMeans(x))
    [] x.kind = "select and scatter" -> LET p == LowerSelectAndScatter(x) IN p.declined \/ RunSelectAndScatter(x, p) = SelectAndScatterMeans(x)
=============================================================================

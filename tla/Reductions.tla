---------------------------- MODULE Reductions -----------------------------
(***************************************************************************)
(* The handlers that pad, reverse and fold an array: pad, reverse, reduce,  *)
(* each as the lowering resolves it from static shapes and the handler     *)
(* then runs it with MLX's calls, and what StableHLO says of it.            *)
(* A cell holds its own name, and a fold the sequence of what it folded;   *)
(* of an n-ary fold one cell stands for the n operands at its place.  The  *)
(* axes, dims and positions of an input count from 1.                      *)
(***************************************************************************)
EXTENDS Arrays, Case

Init0 == <<"init", 0>>
Declined == [declined |-> TRUE]
X(x) == Named("x", x.shape)
\* The axes a set leaves, and their extents.
Keep(rank, dims) == SelectSeq([k \in 1 .. rank |-> k], LAMBDA k : k \notin dims)
Of(shape, axes) == [k \in DOMAIN axes |-> shape[axes[k]]]

---------------------------------------------------------------------------
(* pad: interior dilation, then the edges, then the crop negative pads are. *)
LowerPad(x) ==
  LET some == \E k \in DOMAIN x.shape : x.interior[k] > 0
      dilated == IF ~ some THEN x.shape
                 ELSE [k \in DOMAIN x.shape |-> IF x.shape[k] > 0 THEN (x.shape[k] - 1) * (x.interior[k] + 1) + 1 ELSE 0]
      lo == [k \in DOMAIN x.shape |-> Max({0, x.low[k]})]
      hi == [k \in DOMAIN x.shape |-> Max({0, x.high[k]})]
      whole == [k \in DOMAIN x.shape |-> dilated[k] + lo[k] + hi[k]]
  IN [interior |-> some, dilated |-> dilated, step |-> [k \in DOMAIN x.shape |-> x.interior[k] + 1],
      lo |-> lo, hi |-> hi,
      start |-> [k \in DOMAIN x.shape |-> Max({0, - x.low[k]})],
      stop |-> [k \in DOMAIN x.shape |-> whole[k] + Min({0, x.high[k]})]]
RunPad(x, p) ==
  LET spread == IF p.interior THEN SliceUpdate(Filled(p.dilated, Init0), X(x), p.step) ELSE X(x)
      edged == Padded(spread, p.lo, p.hi, Init0)
  IN Slice(edged, p.start, p.stop, Each(x.shape, 1))

(* What stablehlo says of it: element i goes to low + i * (interior + 1). *)
PadMeans(x) ==
  LET shape == [k \in DOMAIN x.shape |->
                  x.low[k] + x.high[k] + (IF x.shape[k] = 0 THEN 0 ELSE (x.shape[k] - 1) * (x.interior[k] + 1) + 1)]
  IN [shape |-> shape,
      data |-> [n \in Cells(shape) |->
                  LET from == {m \in Cells(x.shape) : \A k \in DOMAIN shape :
                                 CoordOf(n, shape)[k] = x.low[k] + CoordOf(m, x.shape)[k] * (x.interior[k] + 1)}
                  IN IF from = {} THEN Init0 ELSE <<"x", CHOOSE m \in from : TRUE>>]]

---------------------------------------------------------------------------
(* reverse: one descending take per reversed dim that has two places. *)
LowerReverse(x) == SelectSeq(x.dims, LAMBDA d : x.shape[d] > 1)
Taken(a, d) ==
  [a EXCEPT !.data = [n \in Cells(a.shape) |->
     a.data[Place([CoordOf(n, a.shape) EXCEPT ![d] = a.shape[d] - 1 - @], a.shape)]]]
RunReverse(x, dims) == FoldLeft(Taken, X(x), dims)
ReverseMeans(x) ==
  [shape |-> x.shape,
   data |-> [n \in Cells(x.shape) |->
     <<"x", Place([k \in DOMAIN x.shape |-> LET c == CoordOf(n, x.shape)[k]
                                            IN IF Has(x.dims, k) THEN x.shape[k] - 1 - c ELSE c], x.shape)>>]]

---------------------------------------------------------------------------
(* reduce.  Folding a set of axes away: a cell becomes the sequence of      *)
(* what lay along them, row-major.                                         *)
ReduceApply(a, axes) ==
  LET keep == Keep(Len(a.shape), ToSet(axes))
      flat == Transposed(a, keep \o axes)
      r == Volume(Of(a.shape, axes))
      shape == Of(a.shape, keep)
  IN [shape |-> shape, data |-> [n \in Cells(shape) |-> [i \in 1 .. r |-> flat.data[n * r + i - 1]]]]
ReduceCombine(a) == [a EXCEPT !.data = [n \in DOMAIN @ |-> Append(@[n], Init0)]]
\* One round of the pairwise fold: an odd extent gets an init.
Halved(a) ==
  LET last == Len(a.shape)
      r == a.shape[last]
      even == IF r % 2 = 0 THEN a
              ELSE Padded(a, Each(a.shape, 0), [Each(a.shape, 0) EXCEPT ![last] = 1], <<Init0>>)
      half == [a.shape EXCEPT ![last] = even.shape[last] \div 2]
  IN [shape |-> half, data |-> [n \in Cells(half) |-> even.data[2 * n] \o even.data[2 * n + 1]]]
GenericReduce(a, keep, dims) ==
  LET r == Volume(Of(a.shape, dims))
      kept == Of(a.shape, keep)
      moved == Reshaped(Transposed(a, keep \o dims), Append(kept, r))
      round[k \in 0 .. r] ==
        IF k = 0 THEN [moved EXCEPT !.data = [n \in DOMAIN @ |-> <<@[n]>>]]
        ELSE LET p == round[k - 1] IN IF p.shape[Len(p.shape)] = 1 THEN p ELSE Halved(p)
  IN IF r = 0 THEN Filled(kept, <<Init0>>)
     ELSE [shape |-> kept, data |-> [n \in Cells(kept) |-> <<Init0>> \o round[r].data[n]]]

\* The monoid of one operand, argmax and argmin, any other body.
LowerReduce(x) ==
  IF x.n = 1 /\ x.body = "monoid" THEN "monoid"
  ELSE IF x.n = 2 /\ Len(x.dims) = 1 /\ ~ x.bool /\ x.body \in {"GT", "GE", "LT", "LE"} THEN "arg"
  ELSE "generic"
RunReduce(x, how) ==
  LET keep == Keep(Len(x.shape), ToSet(x.dims))
      out == Of(x.shape, keep)
  IN IF how = "generic" THEN GenericReduce(X(x), keep, x.dims)
     ELSE IF Volume(x.shape) = 0 THEN Filled(out, IF \E i \in DOMAIN x.dims : x.shape[x.dims[i]] = 0
                                                 THEN <<Init0>> ELSE <<"zero">>)
     ELSE ReduceCombine(IF x.dims = <<>> THEN [X(x) EXCEPT !.data = [n \in DOMAIN @ |-> <<@[n]>>]]
                        ELSE ReduceApply(X(x), x.dims))
\* The fold in order, of the elements there are: inits may go anywhere.
Given(v) == SelectSeq(v, LAMBDA e : e # Init0)
GivenOf(a) == [a EXCEPT !.data = [n \in DOMAIN @ |-> Given(@[n])]]
InOrder(S) == SetToSortSeq(S, <)
ReduceMeans(x) ==
  LET keep == Keep(Len(x.shape), ToSet(x.dims))
      out == Of(x.shape, keep)
  IN [shape |-> out,
      data |-> [n \in Cells(out) |->
                  LET ms == InOrder({m \in Cells(x.shape) : Of(CoordOf(m, x.shape), keep) = CoordOf(n, out)})
                  IN [i \in DOMAIN ms |-> <<"x", ms[i]>>]]]

(* argmax and argmin along one axis of numbers: MLX's ignore the NaNs, the *)
(* first of which is the answer.                                           *)
NaN == 9
First(v, P(_)) == Min({i \in DOMAIN v : P(v[i])})
Best(isMax, S) == IF isMax THEN Max(S) ELSE Min(S)
RunArg(x, isMax) ==
  LET v == x.vals
      numbers == ToSet(v) \ {NaN}
      best == IF numbers = {} THEN NaN ELSE Best(isMax, numbers)
  IN IF \E i \in DOMAIN v : v[i] = NaN THEN [val |-> NaN, at |-> First(v, LAMBDA e : e = NaN)]
     ELSE [val |-> best, at |-> First(v, LAMBDA e : e = best)]
\* jax's comparator, folded in order: a NaN wins, and of equals the first.
ArgMeans(x, isMax) ==
  LET better(a, b) == IF a = NaN \/ b = NaN THEN b # NaN ELSE IF isMax THEN a < b ELSE b < a
      step(acc, i) == LET e == x.vals[i]
                      IN IF (e = NaN /\ acc.val # NaN) \/ (acc.val # NaN /\ e # NaN /\ better(acc.val, e))
                         THEN [val |-> e, at |-> i] ELSE acc
  IN FoldLeft(step, [val |-> x.vals[1], at |-> 1], [i \in DOMAIN x.vals |-> i])
=============================================================================

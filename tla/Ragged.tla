------------------------------- MODULE Ragged -------------------------------
(***************************************************************************)
(* lax.ragged_dot as jax spells it without a kernel, and the fused         *)
(* dispatch that takes its place (metal_ragged.cc): the spelled chain runs *)
(* every row against every group's matrix and masks what is not a row of   *)
(* the group; the fused op runs each row against its own group only.       *)
(*                                                                         *)
(* A dispatch is the graph that was matched, and its data:                 *)
(*   g, m, pad, k, types  groups, rows, rows padded, a row's width, dtypes *)
(*   off, padValue        what the mask puts off its rows; the pad's fill  *)
(*   mask                 two compares of an iota with an interval's bound *)
(*   head, tail           starts = concatenate(head, tail)                 *)
(*   ends, counts, ids    how the bounds come from the expert of each row  *)
(*   sorts                the sorts of the ids in this block               *)
(*   rows, stack, readers where rows and matrices come from; who reads it  *)
(* Groups, rows and columns are numbered from 0. A row times a matrix is   *)
(* the pair of them, a sum of products the set of their pairs.             *)
(***************************************************************************)
EXTENDS Arrays

Groups(d) == 0 .. d.g - 1
RowsOf(d) == 0 .. d.m - 1

---------------------------------------------------------------------------
(* What the chain computes. *)
Stepped(s, v) ==
  CASE s.op = "wrap" -> IF v < 0 THEN v + s.n ELSE v
    [] s.op = "clip" -> Max({v, s.lo})
    [] s.op = "other" -> v + 1
\* The group each row is counted in.
Counted(d) == [i \in RowsOf(d) |-> FoldLeft(LAMBDA v, s : Stepped(s, v), d.ids.vals[i], d.counts.chain)]
\* A scatter that adds: an index beyond the operand adds nothing.
Counts(d) ==
  LET at == Counted(d)
  IN [e \in Groups(d) |-> d.counts.base + d.counts.update * Cardinality({i \in RowsOf(d) : at[i] = e})]
\* The reduce_window over the counts.
Scanned(d) ==
  LET counts == Counts(d)
      seen(e) == {j \in Groups(d) : j >= e - d.ends.lo /\ j < e - d.ends.lo + d.ends.window}
  IN [e \in Groups(d) |-> IF d.ends.body = "add" THEN d.ends.init + SumFunction([j \in seen(e) |-> counts[j]])
                          ELSE Max({d.ends.init} \cup {counts[j] : j \in seen(e)})]
Ends(d) == IF d.ends.from = "argument" THEN d.ends.vals ELSE Scanned(d)
Starts(d) ==
  LET ends == Ends(d)
  IN [e \in Groups(d) |-> IF e = 0 THEN d.head ELSE IF d.tail = "ends" THEN ends[e - 1] ELSE ends[e]]

Compared(dir, a, b) ==
  CASE dir = "LT" -> a < b [] dir = "LE" -> a <= b [] dir = "GT" -> a > b [] dir = "GE" -> a >= b [] dir = "EQ" -> a = b
Masked(d, e, i) ==
  LET bound(c) == IF c.bound = "starts" THEN Starts(d)[e] ELSE Ends(d)[e]
      iota(c) == IF c.iota = "rows" THEN i ELSE e
      holds(c) == IF c.iotaLeft THEN Compared(c.dir, iota(c), bound(c)) ELSE Compared(c.dir, bound(c), iota(c))
  IN \A j \in 1 .. 2 : holds(d.mask[j])

\* A row is its k elements.
Across(x, r, k) == [c \in 0 .. k - 1 |-> x.data[r * x.shape[2] + c]]
Real(i, k) == [c \in 0 .. k - 1 |-> <<"x", i * k + c>>]
Row(d, i) ==
  IF d.rows.from = "real" THEN Real(i, d.k)
  ELSE LET flat == Reshaped(Expanded(Named("x", d.rows.x0), d.rows.shape, d.rows.dims), d.rows.flat)
       IN Across(flat, Clamp(d.rows.index[i], d.rows.flat[1] - 1), d.k)
\* The stacked weights are carried [L, g], the original's first two axes as `perm` says.
Carried(d) ==
  Transposed(Named("w", [j \in 1 .. 2 |-> IF d.stack.perm[1] = j THEN d.stack.L ELSE d.g]), d.stack.perm)
Matrix(d, e) ==
  IF d.stack.L = 0 THEN <<"w", e>>
  ELSE Carried(d).data[Clamp(d.stack.layer, d.stack.L - 1) * d.g + e]

ZeroRow == {}
ChainRow(d, i) ==
  LET x == IF i < d.m THEN {Row(d, i)} ELSE IF d.padValue = 0 THEN {} ELSE {<<"pad">>}
      off == IF d.off = 0 THEN {} ELSE {<<"off">>}
  IN UNION {(IF Masked(d, e, i) THEN x ELSE off) \X {Matrix(d, e)} : e \in Groups(d)}
ChainRagged(d) == [i \in 0 .. d.m + d.pad - 1 |-> ChainRow(d, i)]

---------------------------------------------------------------------------
(* What is recognized. *)
\* Which side of the interval a compare is, its operands turned about if need be.
MatchCompare(c) ==
  LET strict == c.dir \in {"LT", "GT"}
      iotaLeft == IF c.dir \in {"GE", "GT"} THEN ~c.iotaLeft ELSE c.iotaLeft
  IN CASE c.iota # "rows" \/ c.dir = "EQ" -> "none"
       [] ~strict /\ ~iotaLeft -> "lower"
       [] strict /\ iotaLeft -> "upper"
       [] OTHER -> "none"
MatchStarts(d) == d.head = 0 /\ d.tail = "ends"
MatchRoot(d) ==
  /\ d.types[1] \in {"f32", "bf16"} /\ d.types[2] = d.types[1] /\ d.types[3] = d.types[1]
  /\ d.off = 0
  /\ \E j \in 1 .. 2 : /\ MatchCompare(d.mask[j]) = "lower" /\ d.mask[j].bound = "starts"
                       /\ MatchCompare(d.mask[3 - j]) = "upper" /\ d.mask[3 - j].bound = "ends"
  /\ MatchStarts(d)
\* The tiling pad, if it pads with zeros, is left out; else its rows are rows like any.
RealRows(d) == IF d.padValue = 0 THEN d.m ELSE d.m + d.pad

MatchStacked(d) ==
  /\ d.stack.L > 0
  /\ d.stack.sites = 1      \* the callee's unique call site
  /\ d.stack.hoists         \* a carry the loop's body returns unchanged
  /\ d.stack.perm = <<2, 1>>

MatchCumsum(d) ==
  /\ d.ends.from = "cumsum"
  /\ d.ends.window = d.g /\ d.ends.lo = d.g - 1
  /\ d.ends.init = 0 /\ d.ends.body = "add"
PeelWrap(s) == s.op = "wrap" /\ s.n >= 0
PeelClip(s) == s.op = "clip" /\ s.lo >= 0
MatchBincount(d) ==
  /\ d.counts.base = 0 /\ d.counts.update = 1
  /\ \A j \in DOMAIN d.counts.chain : PeelWrap(d.counts.chain[j]) \/ PeelClip(d.counts.chain[j])
ConstantInRange(vals, g) == \A j \in DOMAIN vals : vals[j] \in 0 .. g - 1
ProveIdRange(d) ==
  /\ \/ d.ids.from = "top_k" /\ d.ids.result = 1 /\ d.ids.width <= d.g
     \/ d.ids.from = "sort" /\ ConstantInRange(d.ids.payload, d.g)
  /\ d.ids.tokens = 1
\* (mutant) Any payload that names every row once.
IsPermutation(payload, m) == {payload[j] : j \in DOMAIN payload} = 0 .. m - 1
\* The rows in order: sorted along with the ids it is their argsort.
IsIotaPayload(payload, m) == payload = [j \in 1 .. m |-> j - 1]
IsAscendingSort(s) == (s.dir = "LT" /\ ~s.swapped) \/ (s.dir = "GT" /\ s.swapped)
FindPerm(d) == {j \in DOMAIN d.sorts : IsAscendingSort(d.sorts[j]) /\ IsIotaPayload(d.sorts[j].payload, d.m)}

\* Every row is one and the same activation: all its elements along the last axis...
MatchBroadcast(d) ==
  LET r == d.rows
  IN /\ r.shape[Len(r.shape)] = d.k
     /\ \A j \in DOMAIN r.x0 : r.x0[j] # 1 => r.dims[j] = Len(r.shape)
     /\ Volume(r.x0) = d.k
\* (mutant) ...however they are cut...
AnyReshape(d) == Volume(d.rows.flat) = Volume(d.rows.shape)
\* ...and cut where they begin.
MatchReshape(d) == d.rows.flat = <<Volume(d.rows.shape) \div d.k, d.k>>
MatchReplicated(d) == d.rows.from = "gather" /\ MatchBroadcast(d) /\ MatchReshape(d)
MatchNoPad(d) == d.pad > 0 /\ d.padValue = 0 /\ d.readers # {} /\ d.readers \subseteq {"rows"}
MatchDecode(d) ==
  /\ d.padValue = 0 \/ d.pad = 0
  /\ MatchCumsum(d) /\ MatchBincount(d) /\ ProveIdRange(d)
  /\ FindPerm(d) # {}

AnalyzeRagged(d) ==
  [matched |-> MatchRoot(d), stacked |-> MatchStacked(d), M |-> d.m + d.pad,
   m |-> RealRows(d),
   form |-> IF MatchDecode(d) THEN IF MatchReplicated(d) THEN 1 ELSE 2 ELSE 0,
   nopad |-> MatchDecode(d) /\ MatchNoPad(d)]

---------------------------------------------------------------------------
(* What is lowered and run. *)
\* sort(ids, payload).result1: stable, like any sort of jax's.
Before(s, a, b) == Compared(s.dir, IF s.swapped THEN b ELSE a, IF s.swapped THEN a ELSE b)
Perm(d, s) ==
  LET ids == d.ids.vals
      earlier(a, b) == Before(s, ids[a], ids[b]) \/ (~Before(s, ids[b], ids[a]) /\ a < b)
      place(i) == Cardinality({j \in RowsOf(d) : earlier(j, i)})
  IN [i \in RowsOf(d) |-> s.payload[1 + CHOOSE j \in RowsOf(d) : place(j) = i]]
\* (mutant) One index vector for dots over stacks of different depths.
KeyWithoutDepth(r) == <<r.layer>>
\* Of one frame's dots over one sort: which of them may share an index vector.
IndexKey(r) == <<r.layer, r.L>>
\* The matrix of each row in sorted order, in the flattened stack.
RaggedIdx(d, r) ==
  LET perm == Perm(d, d.sorts[Min(FindPerm(d))])
      sorted == [i \in RowsOf(d) |-> d.ids.vals[perm[i]]]
  IN IF r.L = 0 THEN sorted ELSE [i \in RowsOf(d) |-> sorted[i] * r.L + Clamp(r.layer, r.L - 1)]
\* `roots` are lowered in order; the first with a key makes the vector.
SharedIdx(d, roots, j) ==
  RaggedIdx(d, roots[Min({i \in 1 .. j : IndexKey(roots[i]) = IndexKey(roots[j])})])

\* The matrices [g * L]: the original's own, transposed back.
Flat(d, p) == IF p.stacked THEN Transposed(Carried(d), <<2, 1>>).data ELSE [e \in Groups(d) |-> Matrix(d, e)]
AlongRows(d, i) == IF i < d.m THEN Row(d, i) ELSE <<"pad">>
RunDecode(d, p, index) ==
  LET row(i) == IF p.form = 1 THEN Across(Reshaped(Named("x", d.rows.x0), <<1, d.k>>), 0, d.k) ELSE Row(d, i)
  IN [i \in 0 .. (IF p.nopad THEN p.m ELSE p.M) - 1 |->
        IF i < p.m THEN {<<row(i), Flat(d, p)[index[i]]>>} ELSE ZeroRow]
\* A row's group is the number of intervals that end before it.
RunBase(d, p) ==
  LET ends == Ends(d)
      group(i) == Cardinality({e \in Groups(d) : i >= ends[e]})
      index(i) == LET e == Min({group(i), d.g - 1})
                  IN IF p.stacked THEN e * d.stack.L + Clamp(d.stack.layer, d.stack.L - 1) ELSE e
  IN [i \in 0 .. p.M - 1 |-> IF i < p.m /\ group(i) < d.g THEN {<<AlongRows(d, i), Flat(d, p)[index(i)]>>} ELSE ZeroRow]
\* The dots of the frame: another layer's stack may be read before this one's.
DotsOf(d, p) ==
  LET mine == [L |-> IF p.stacked THEN d.stack.L ELSE 0, layer |-> IF p.stacked THEN d.stack.layer ELSE -1]
  IN IF p.stacked THEN <<[mine EXCEPT !.L = d.stack.sibling], mine>> ELSE <<mine>>
RunRagged(d, p) ==
  IF p.form = 0 THEN RunBase(d, p)
  ELSE LET roots == DotsOf(d, p) IN RunDecode(d, p, SharedIdx(d, roots, Len(roots)))

\* What a reader of the root sees; the slices a match absorbed are the output itself.
Reads(d, out, reader, aliased) ==
  IF aliased THEN out ELSE [i \in 0 .. (IF reader = "rows" THEN d.m ELSE d.m + d.pad) - 1 |-> out[i]]
\* What ragged_dot asks of its group sizes: none is negative.
EndsAscend(d) == LET ends == Ends(d) IN \A e \in Groups(d) \ {0} : ends[e - 1] <= ends[e]
RaggedIsExact(d) ==
  LET p == AnalyzeRagged(d)
      chain == ChainRagged(d)
      fused == RunRagged(d, p)
  IN p.matched /\ (p.form = 0 => EndsAscend(d)) =>
       /\ \A r \in d.readers : Reads(d, fused, r, p.nopad) = Reads(d, chain, r, FALSE)
       /\ p.stacked => \A n \in DOMAIN Flat(d, p) : Flat(d, p)[n] = <<"w", n>>  \* no copy
=============================================================================

--------------------------- MODULE GatherScatter ---------------------------
(***************************************************************************)
(* StableHLO's gather and scatter as ONE indexed read or write of MLX.     *)
(* MLX checks no bounds: the plan of index arrays, the clamps, the         *)
(* reshapes past extent-1 dims and the rule that drops an update are what  *)
(* stands between an index and memory that is not the operand's.           *)
(*                                                                         *)
(* Sources: metal/metal_lowering.cc (BuildIndexPlan, LowerGather,          *)
(* LowerScatter), runtime/ops_index.cc (read_index_plan, step_index).      *)
(* Dimensions are numbered from 0 as in the code; an array is its shape, a *)
(* coordinate a sequence.  Elements are told apart by where they were.     *)
(***************************************************************************)
EXTENDS Integers, Sequences, FiniteSets, FiniteSetsExt, SequencesExt, Case

\* (mutant) a start is clamped from above only.
ClipTop(v, top) == Min({v, top})
Clip(v, top) == Max({0, Min({v, top})})

\* The dimensions below n outside `gone`, in order.
Kept(n, gone) ==
  LET kept[k \in 0 .. n] == IF k = 0 THEN <<>>
                            ELSE IF k - 1 \in gone THEN kept[k - 1] ELSE Append(kept[k - 1], k - 1)
  IN kept[n]

(* The index at batch coordinate b, component k of the index vector. *)
Component(x, b, k) ==
  x.idx[IF x.ivd = Len(x.idxShape) THEN b
        ELSE [i \in 1 .. Len(b) + 1 |->
                IF i <= x.ivd THEN b[i] ELSE IF i = x.ivd + 1 THEN k ELSE b[i - 1]]]

(***************************************************************************)
(* BuildIndexPlan: one index array per operand dim that is indexed.  A     *)
(* "component" entry is clamped to `top`, an "iota" is the batch           *)
(* coordinate at `pos`; with no entry at all a zero is made up.            *)
(***************************************************************************)
BatchDims(shape, ivd) == Kept(Len(shape), {ivd})

BuildIndexPlan(x, sizes) ==
  LET split == x.ivd # Len(x.idxShape)
      batchDims == BatchDims(x.idxShape, x.ivd)
      mapped == [j \in DOMAIN x.map |->
                   [kind |-> "component", k |-> j - 1, axis |-> x.map[j], pos |-> 0,
                    top |-> Max({x.opShape[x.map[j] + 1] - sizes[x.map[j] + 1], 0})]]
      iotas == [i \in DOMAIN x.opBatching |->
                  [kind |-> "iota", k |-> 0, axis |-> x.opBatching[i],
                   pos |-> At(batchDims, x.idxBatching[i]), top |-> 0]]
      zero == [kind |-> "zero", k |-> 0, axis |-> 0, pos |-> 0, top |-> 0]
      entries == IF mapped \o iotas = <<>> THEN <<zero>> ELSE mapped \o iotas
      refused == \/ (split /\ x.idxShape[x.ivd + 1] # Len(x.map))
                 \/ (~ split /\ Len(x.map) # 1)
                 \/ (mapped \o iotas = <<>> /\ x.opShape = <<>>)
                 \/ \E i, j \in DOMAIN entries : i # j /\ entries[i].axis = entries[j].axis
  IN [entries |-> entries, refused |-> refused, split |-> split,
      batch |-> [i \in DOMAIN batchDims |-> x.idxShape[batchDims[i] + 1]]]

(* read_index_plan: the clipped index of an entry, and the drop predicate. *)
Raw(x, e, b) == Component(x, b, e.k)
Index(x, e, b) == CASE e.kind = "component" -> Clip(Raw(x, e, b), e.top)
                    [] e.kind = "iota" -> b[e.pos]
                    [] e.kind = "zero" -> 0
OutOfBounds(x, plan, b) ==
  \E i \in DOMAIN plan.entries :
    LET e == plan.entries[i]
    IN e.kind = "component" /\ (Raw(x, e, b) < 0 \/ Raw(x, e, b) > e.top)

(* MLX's rule: a slice starts at its index on an indexed axis, at 0 elsewhere. *)
Start(plan, index, d) ==
  LET es == {i \in DOMAIN plan.entries : plan.entries[i].axis = d}
  IN IF es = {} THEN 0 ELSE index[CHOOSE i \in es : TRUE]
Located(plan, index, window) ==
  [d \in DOMAIN window |-> Start(plan, index, d - 1) + window[d]]
IndexAt(x, plan, b) == [i \in DOMAIN plan.entries |-> Index(x, plan.entries[i], b)]

(***************************************************************************)
(* Gather.                                                                 *)
(***************************************************************************)
(* A window over the kept dims, spread over the operand's rank. *)
Spread(rank, gone, w) ==
  [d \in 1 .. rank |-> IF d - 1 \in gone THEN 0 ELSE w[At(Kept(rank, gone), d - 1)]]

LowerGather(x) ==
  LET plan == BuildIndexPlan(x, x.sizes)
      gone == x.collapsed \cup ToSet(x.opBatching)
      kept == Kept(Len(x.opShape), gone)
      mid == plan.batch \o [i \in DOMAIN kept |-> x.sizes[kept[i] + 1]]
      outBatch == Kept(Len(x.outShape), ToSet(x.offset))
      perm == [d \in 1 .. Len(x.outShape) |->
                 IF Has(x.offset, d - 1) THEN Len(plan.batch) + At(x.offset, d - 1)
                 ELSE At(outBatch, d - 1)]
      refused == \/ plan.refused
                 \/ Len(outBatch) # Len(plan.batch) \/ Len(x.offset) # Len(kept)
                 \/ \E d \in gone : x.sizes[d + 1] # 1
                 \/ \E d \in DOMAIN perm : perm[d] > Len(mid) \/ mid[perm[d]] # x.outShape[d]
  IN [plan |-> plan, gone |-> gone, mid |-> mid, perm |-> perm, refused |-> refused]

(* step_index, kGather: where in the operand result element `o` is read. *)
Gathered(x, g, o) ==
  LET m == [i \in DOMAIN g.mid |-> o[At(g.perm, i)]]
      nb == Len(g.plan.batch)
      b == SubSeq(m, 1, nb)
  IN Located(g.plan, IndexAt(x, g.plan, b),
             Spread(Len(x.opShape), g.gone, SubSeq(m, nb + 1, Len(m))))

(* StableHLO's own words: starts clamped so the slice fits, the batching
   dims' coordinate, the offset within the slice. *)
StartOf(x, b, d) == IF Has(x.map, d) THEN Component(x, b, At(x.map, d) - 1) ELSE 0
ClampedStart(x, sizes, b, d) ==
  IF Has(x.map, d) THEN Clip(StartOf(x, b, d), x.opShape[d + 1] - sizes[d + 1]) ELSE 0
BatchingOf(x, b, d) ==
  IF ~ Has(x.opBatching, d) THEN 0
  ELSE LET from == x.idxBatching[At(x.opBatching, d)]
       IN b[1 + IF from < x.ivd THEN from ELSE from - 1]
GatherReads(x, o) ==
  LET batch == Kept(Len(x.outShape), ToSet(x.offset))
      b == [i \in DOMAIN batch |-> o[batch[i] + 1]]
      gone == x.collapsed \cup ToSet(x.opBatching)
      kept == Kept(Len(x.opShape), gone)
  IN [d \in DOMAIN x.opShape |->
        ClampedStart(x, x.sizes, b, d - 1) + BatchingOf(x, b, d - 1)
          + IF d - 1 \in gone THEN 0 ELSE o[x.offset[At(kept, d - 1)] + 1]]

(***************************************************************************)
(* Scatter.                                                                *)
(***************************************************************************)
(* Combiners: a plain assignment, one with a neutral, an apply body under
   unique indices (the complex product is one), and one without. *)
Writes == {"set", "apply"}

SliceShape(x) ==
  LET gone == x.inserted \cup ToSet(x.opBatching)
      kept == Kept(Len(x.opShape), gone)
  IN [d \in DOMAIN x.opShape |->
        IF d - 1 \in gone THEN 1 ELSE x.updShape[x.window[At(kept, d - 1)] + 1]]

\* (mutant) one window, whether or not its start is known to be in bounds.
StrategyUnguarded(x, plan, sshape) ==
  IF x.method = "set" /\ Product(plan.batch) = 1 THEN "window"
  ELSE IF x.map = <<>> \/ x.method = "sequential" THEN "none" ELSE "pad"
(* How an update whose start is out of bounds is dropped. *)
StrategyOf(x, plan, sshape) ==
  IF x.map = <<>> \/ x.method = "sequential" THEN "none"
  ELSE IF x.method \in Writes \/ Product(x.opShape) < Product(x.updShape)
  THEN IF x.append > 0 /\ x.method = "set" /\ Product(plan.batch) = 1
            /\ (x.proven \/ x.append > 1)
       THEN IF x.proven THEN "window" ELSE "guarded"
       ELSE "pad"
  ELSE "neutral"

LowerScatter(x) ==
  LET sshape == SliceShape(x)
      plan == BuildIndexPlan(x, sshape)
      gone == x.inserted \cup ToSet(x.opBatching)
      es == plan.entries
  IN [plan |-> plan, sshape |-> sshape, gone |-> gone,
      uperm |-> Kept(Len(x.updShape), ToSet(x.window)) \o x.window,
      strategy |-> StrategyOf(x, plan, sshape),
      pad |-> CHOOSE i \in DOMAIN es : \A j \in DOMAIN es : es[i].axis <= es[j].axis]

(* step_index, kScatter: the write of batch coordinate b, window element w:
   where it goes, the update element, and the element an apply body reads. *)
Write(x, s, b, w) ==
  LET read == IndexAt(x, s.plan, b)
      dropped == OutOfBounds(x, s.plan, b)
      index == IF dropped /\ s.strategy = "pad"
               THEN [read EXCEPT ![s.pad] = x.opShape[s.plan.entries[s.pad].axis + 1]]
               ELSE read
      kept == Kept(Len(x.opShape), s.gone)
      m == b \o [i \in DOMAIN kept |-> w[kept[i] + 1]]
  IN [to |-> Located(s.plan, index, w), old |-> Located(s.plan, read, w),
      update |-> [d \in DOMAIN x.updShape |-> m[At(s.uperm, d - 1)]],
      (* a neutral, a guarded window's own contents, a slot left alone *)
      noop |-> dropped /\ s.strategy \in {"neutral", "guarded", "none"}]
AllWrites(x, s) ==
  {Write(x, s, b, w) : b \in Coords(s.plan.batch), w \in Coords(s.sshape)}
(* No write leaves the operand, grown by a window's rows where it is padded. *)
Extent(x, s, d) == x.opShape[d] + IF s.strategy = "pad" /\ s.plan.entries[s.pad].axis = d - 1
                                  THEN s.sshape[d] ELSE 0
Scattered(x, s, c) == {v \in AllWrites(x, s) : v.to = c /\ ~ v.noop}

(* StableHLO's own words, with XLA's rule that an update whose window does
   not fit is dropped whole. *)
ScatterTo(x, u) ==
  LET scatterDims == Kept(Len(x.updShape), ToSet(x.window))
      b == [i \in DOMAIN scatterDims |-> u[scatterDims[i] + 1]]
      kept == Kept(Len(x.opShape), x.inserted \cup ToSet(x.opBatching))
      start(d) == StartOf(x, b, d) + BatchingOf(x, b, d)
      offset(d) == IF Has(kept, d) THEN u[x.window[At(kept, d)] + 1] ELSE 0
      sshape == SliceShape(x)
      fits == \A d \in DOMAIN x.opShape :
                start(d - 1) >= 0 /\ start(d - 1) + sshape[d] <= x.opShape[d]
  IN IF fits THEN {[d \in DOMAIN x.opShape |-> start(d - 1) + offset(d - 1)]} ELSE {}

-----------------------------------------------------------------------------
(* What the verifier admits: the index side, a gather and a scatter. *)
Dims(shape) == 0 .. Len(shape) - 1
Distinct(s) == \A i, j \in DOMAIN s : i # j => s[i] # s[j]
IndicesFormed(x) ==
  /\ x.opShape \in Seq(Nat) /\ x.idxShape \in Seq(Nat) /\ x.ivd \in 0 .. Len(x.idxShape)
  /\ x.map \in Seq(Dims(x.opShape)) /\ x.opBatching \in Seq(Dims(x.opShape))
  /\ x.idxBatching \in Seq(Dims(x.idxShape) \ {x.ivd})
  /\ Len(x.opBatching) = Len(x.idxBatching)
  /\ \A i \in DOMAIN x.opBatching :
       x.opShape[x.opBatching[i] + 1] = x.idxShape[x.idxBatching[i] + 1]
  /\ x.idx \in [Coords(x.idxShape) -> Int]
GatherFormed(x) ==
  /\ IndicesFormed(x) /\ x.collapsed \subseteq Dims(x.opShape)
  /\ x.sizes \in Seq(Nat) /\ Len(x.sizes) = Len(x.opShape)
  /\ \A d \in DOMAIN x.sizes : x.sizes[d] <= x.opShape[d]
  /\ x.outShape \in Seq(Nat) /\ x.offset \in Seq(Dims(x.outShape)) /\ Distinct(x.offset)
(* What the analysis calls proven in bounds is. *)
ScatterFormed(x) ==
  LET plan == BuildIndexPlan(x, SliceShape(x))
      scatterDims == Kept(Len(x.updShape), ToSet(x.window))
  IN /\ IndicesFormed(x) /\ x.inserted \subseteq Dims(x.opShape)
     /\ x.updShape \in Seq(Nat) /\ x.window \in Seq(Dims(x.updShape)) /\ Distinct(x.window)
     /\ Len(x.window) = Len(Kept(Len(x.opShape), x.inserted \cup ToSet(x.opBatching)))
     /\ plan.batch = [i \in DOMAIN scatterDims |-> x.updShape[scatterDims[i] + 1]]
     /\ \A d \in DOMAIN x.opShape : SliceShape(x)[d] <= x.opShape[d]
     /\ x.method \in {"add", "set", "apply", "sequential"}
     /\ x.proven => \A b \in Coords(plan.batch) : ~ OutOfBounds(x, plan, b)

(* A gather that is lowered reads, for every element of its result, the
   element StableHLO names: clamped, never outside the operand. *)
GatherReadsItsElements ==
  input.kind = "gather" =>
    LET g == LowerGather(input) IN
    ~ g.refused => \A o \in Coords(input.outShape) :
                     /\ Gathered(input, g, o) = GatherReads(input, o)
                     /\ Gathered(input, g, o) \in Coords(input.opShape)

(* A scatter writes each update element once, where StableHLO says, drops
   exactly the updates whose window does not fit, reads for an apply body the
   element it then writes, and touches no memory beyond its operand. *)
ScatterWritesItsUpdates ==
  input.kind = "scatter" =>
    LET s == LowerScatter(input) IN
    ~ s.plan.refused =>
      /\ \A c \in Coords(input.opShape) :
           /\ {v.update : v \in Scattered(input, s, c)}
                = {u \in Coords(input.updShape) : c \in ScatterTo(input, u)}
           /\ input.method \in {"apply", "sequential"} =>
                \A v \in Scattered(input, s, c) : v.old = c
      /\ \A v \in AllWrites(input, s) : \A d \in DOMAIN input.opShape :
           v.to[d] \in 0 .. Extent(input, s, d) - 1
(* A gather reads its elements and a scatter writes its updates. *)
IndexedOpsAreExact == GatherReadsItsElements /\ ScatterWritesItsUpdates
=============================================================================

------------------------------ MODULE KvRewrite ------------------------------
(***************************************************************************)
(* The KV in-place rewrite (metal_lowering.cc, namespace kv): a while body *)
(* that rebuilds its cache from slices of it, with windows written into    *)
(* some of them, becomes a chain of window writes on the cache itself.     *)
(* Nothing of the tree is computed; what the body reads of it is read off  *)
(* the chain as it stands when it is first asked for.                      *)
(*                                                                         *)
(* A body grows one op at a time, is analyzed when it ends and, accepted,  *)
(* lowered op by op.  Value v is what op v makes, value 0 is the carry.    *)
(* An op is a record of its name, operands and result shape,               *)
(* with `start` for a slice, `dims` for a broadcast, `axis` for a          *)
(* concatenate, `upd` (the shape of what is written) and `starts` for an   *)
(* update.  "view" and "read" stand for the ops outside the tree, "return" *)
(* ends the body.  Axes and dims are numbered from 1, 0 is no axis; a      *)
(* start is a constant or names a scalar.  An extent is at least 1.        *)
(***************************************************************************)
EXTENDS Arrays, FiniteSets

CONSTANTS Dims,     \* the shape of the carry
          Scalars,  \* what a start may be computed to
          KeyOf,    \* StructKey: equal for scalars spelled alike
          Envs,     \* what the scalars are: alike if spelled alike
          Grow(_)   \* the ops a body may go on with

Sizes == Nat \ {0}
\* A cache has a cell.
ASSUME CarryIsArray == Dims \in Seq(Sizes)
ASSUME SpelledAlike ==
  /\ Envs \subseteq [Scalars -> Int]
  /\ \A r, s \in Scalars : KeyOf[r] = KeyOf[s] => \A env \in Envs : env[r] = env[s]

VARIABLES body, value,  \* value[v]: what the body says, in each environment
          cover,        \* Analyzer::memo_
          analysis,         \* what the analysis made of the body
          pos,          \* how many ops are lowered
          chain,        \* kv_chain_, in each environment
          slots         \* the tree values that have a slot
kvVars == <<body, value, cover, analysis, pos, chain, slots>>

Nodes == 0 .. Len(body)
Shape(v) == IF v = 0 THEN Dims ELSE body[v].shape
Const(n) == [const |-> TRUE, at |-> n]
Scalar(s) == [const |-> FALSE, at |-> s]

---------------------------------------------------------------------------
(* What an op says: a value is an array of cells of the carry and of what  *)
(* the updates write.                                                      *)
Stored(base, shape, who, upd, at) ==
  [n \in DOMAIN base |->
     LET r == [k \in DOMAIN shape |-> CoordOf(n, shape)[k] - at[k]]
     IN IF \A k \in DOMAIN shape : r[k] \in 0 .. upd[k] - 1 THEN <<who, Place(r, upd)>> ELSE base[n]]
\* Where part i of a concatenate begins.
Begins(o, i) == LET b[j \in 1 .. i] == IF j = 1 THEN 0 ELSE b[j - 1] + Shape(o.in[j - 1])[o.axis] IN b[i]
CutOf(base, o, sh) ==
  [n \in Cells(o.shape) |-> base[Place([k \in DOMAIN sh |-> CoordOf(n, o.shape)[k] + o.start[k]], sh)]]
Updated(base, o, sh, env) ==
  Stored(base, sh, Len(body) + 1, o.upd,
    [k \in DOMAIN sh |-> LET s == o.starts[k] IN
       Clamp(IF s.const THEN s.at ELSE env[s.at], sh[k] - o.upd[k])])
Joined(o, env) ==
  [n \in Cells(o.shape) |->
     LET c == CoordOf(n, o.shape)
         i == Max({j \in DOMAIN o.in : Begins(o, j) <= c[o.axis]})
     IN value[o.in[i]][env][Place([c EXCEPT ![o.axis] = @ - Begins(o, i)], Shape(o.in[i]))]]
ValueOf(o) ==
  LET base == value[o.in[1]]  sh == Shape(o.in[1]) IN
  [env \in Envs |-> CASE o.name = "slice" -> CutOf(base[env], o, sh)
                      [] o.name = "update" -> Updated(base[env], o, sh, env)
                      [] o.name = "concatenate" -> Joined(o, env)
                      [] OTHER -> base[env]]

---------------------------------------------------------------------------
(* Analyzer::CoverOf: the window of the carry a value covers, and for each *)
(* of its axes the carry's axis it stands for.                             *)
Axes == DOMAIN Dims
None == [ok |-> FALSE, off |-> Dims, ext |-> Dims, amap |-> <<>>]
Window(off, ext, amap) == [ok |-> TRUE, off |-> off, ext |-> ext, amap |-> amap]
Carry == Window([j \in Axes |-> 0], Dims, [j \in Axes |-> j])

SliceCover(w, o) ==
  LET at(j) == {k \in DOMAIN w.amap : w.amap[k] = j}
      off == [j \in Axes |-> w.off[j] + (IF at(j) = {} THEN 0 ELSE o.start[CHOOSE k \in at(j) : TRUE])]
      ext == [j \in Axes |-> IF at(j) = {} THEN w.ext[j] ELSE o.shape[CHOOSE k \in at(j) : TRUE]]
  IN Window(off, ext, w.amap)

\* Unit dims come and go: the others pair up in order.
WideUpTo(shape, k) == Cardinality({i \in 1 .. k : shape[i] # 1})
ReshapeCover(w, from, to) ==
  LET pair(k) == {i \in DOMAIN from : from[i] # 1 /\ WideUpTo(from, i) = WideUpTo(to, k)}
      same == /\ WideUpTo(from, Len(from)) = WideUpTo(to, Len(to))
              /\ \A k \in DOMAIN to : to[k] # 1 => \E i \in pair(k) : from[i] = to[k]
      amap == [k \in DOMAIN to |-> IF to[k] = 1 THEN 0 ELSE w.amap[CHOOSE i \in pair(k) : TRUE]]
  IN IF same THEN Window(w.off, w.ext, amap) ELSE None

BroadcastCover(w, from, o) ==
  LET increasing == \A k \in DOMAIN o.dims : k > 1 => o.dims[k - 1] < o.dims[k]
      from0(d) == {k \in DOMAIN o.dims : o.dims[k] = d}
      same == \A d \in DOMAIN o.shape : IF from0(d) = {} THEN o.shape[d] = 1
                                        ELSE \A k \in from0(d) : o.shape[d] = from[k]
      amap == [d \in DOMAIN o.shape |-> IF from0(d) = {} THEN 0 ELSE w.amap[CHOOSE k \in from0(d) : TRUE]]
  IN IF increasing /\ same THEN Window(w.off, w.ext, amap) ELSE None

\* The parts agree on every axis but one, along which they tile.
ConcatCover(parts, axis) ==
  LET p == parts[1]
      differ == {j \in Axes : \E q \in ToSet(parts) : q.off[j] # p.off[j] \/ q.ext[j] # p.ext[j]}
      j == CHOOSE j \in differ : TRUE
      next[i \in DOMAIN parts] == IF i = 1 THEN p.off[j] ELSE next[i - 1] + parts[i - 1].ext[j]
      ok == /\ \A q \in ToSet(parts) : q.amap = p.amap
            /\ Cardinality(differ) = 1
            /\ p.amap[axis] \in {0, j}
            /\ \A k \in DOMAIN p.amap \ {axis} : p.amap[k] # 0 => (k < axis <=> p.amap[k] < j)
            /\ \A i \in DOMAIN parts : parts[i].off[j] = next[i]
  IN IF Len(parts) = 1 THEN p
     ELSE IF ~ ok THEN None
     ELSE Window(p.off, [p.ext EXCEPT ![j] = next[Len(parts)] + parts[Len(parts)].ext[j] - p.off[j]],
                 [p.amap EXCEPT ![axis] = j])

\* The invariant every node keeps: its shape is its window, axis by axis.
WindowIsShape(w, shape) ==
  /\ w.ok
  /\ \A k \in DOMAIN shape : shape[k] = IF w.amap[k] = 0 THEN 1 ELSE w.ext[w.amap[k]]
  /\ \A k, l \in DOMAIN shape : k < l /\ w.amap[k] # 0 /\ w.amap[l] # 0 => w.amap[k] < w.amap[l]
  /\ \A j \in Axes : /\ w.ext[j] > 1 => j \in ToSet(w.amap)
                     /\ w.off[j] >= 0 /\ w.off[j] + w.ext[j] <= Dims[j]

CoverOf(o) ==
  LET w == cover[o.in[1]]
      c == CASE o.name = "slice" -> SliceCover(w, o)
             [] o.name = "reshape" -> ReshapeCover(w, Shape(o.in[1]), o.shape)
             [] o.name = "broadcast" -> BroadcastCover(w, Shape(o.in[1]), o)
             [] o.name = "concatenate" -> ConcatCover([i \in DOMAIN o.in |-> cover[o.in[i]]], o.axis)
             [] o.name = "update" -> w
             [] OTHER -> None
  IN IF (\A p \in ToSet(o.in) : cover[p].ok) /\ WindowIsShape(c, o.shape) THEN c ELSE None

---------------------------------------------------------------------------
(* Analyzer::TryCarry. *)
Ended == body # <<>> /\ Last(body).name = "return"
Root == Last(body).in[1]
TreeOf(root) ==
  LET n == Len(body)
      above[k \in 0 .. n] ==  \* what the tree has above value n - k
        IF k = 0 THEN {root}
        ELSE LET tree == above[k - 1]  v == n + 1 - k
             IN IF v \in tree THEN tree \cup ToSet(body[v].in) ELSE tree
  IN above[n] \ {0}
UpdatesIn(tree) == {v \in tree : body[v].name = "update"}

\* The last op outside the tree that reads v, through (maybe) views; 0: none.
LastReadPos(tree) ==
  LET n == Len(body)
      outside(v) == {u \in DOMAIN body \ tree : v \in ToSet(body[u].in)}
      last[i \in 0 .. n] ==  \* of value n - i
        Max({0} \cup UNION {IF body[u].name = "view" THEN {u, last[n - u]} ELSE {u} : u \in outside(n - i)})
  IN [v \in Nodes |-> last[n - v]]

Intersect(a, b) == \A j \in Axes : a.off[j] < b.off[j] + b.ext[j] /\ b.off[j] < a.off[j] + a.ext[j]
\* (mutant) only what is read of the very value that is written.
ReadsBeforeOfIt(tree, last) ==
  \A v \in tree, d \in UpdatesIn(tree) : d > v /\ body[d].in[1] = v => last[v] <= d
\* No value of the tree is read after a later update that overlaps its window.
ReadsBefore(tree, last) ==
  \A v \in tree \cup {0}, d \in UpdatesIn(tree) :
    d > v /\ Intersect(cover[body[d].in[1]], cover[v]) => last[v] <= d

Accepts(root, tree) ==
  /\ root # 0 /\ body[root].name = "concatenate"
  /\ cover[root].ok /\ cover[root].ext = Dims /\ body[root].shape = Dims
  /\ ReadsBefore(tree, LastReadPos(tree))

\* Updates with the same scalars share one matrix of starts, and scalars
\* spelled alike are one.
Rep(s) == CHOOSE r \in Scalars : KeyOf[r] = KeyOf[s]
\* (mutant) clamped in the frame of the carry.
CellOfCarry(d, j) ==
  LET w == cover[body[d].in[1]]
      at == {k \in DOMAIN w.amap : w.amap[k] = j}
  IN IF at = {} THEN [value |-> w.off[j], bound |-> 0, raw |-> Const(0)]
     ELSE LET k == CHOOSE k \in at : TRUE
              bound == Dims[j] - body[d].upd[k]
              s == body[d].starts[k]
          IN IF s.const THEN [value |-> w.off[j] + Clamp(s.at, bound), bound |-> 0, raw |-> Const(0)]
             ELSE [value |-> w.off[j], bound |-> bound, raw |-> Scalar(Rep(s.at))]
\* One start of an update, on axis j of the carry: clamped in the frame of
\* what it is written into, then moved to where that is.
Cell(d, j) ==
  LET w == cover[body[d].in[1]]
      at == {k \in DOMAIN w.amap : w.amap[k] = j}
  IN IF at = {} THEN [value |-> w.off[j], bound |-> 0, raw |-> Const(0)]
     ELSE LET k == CHOOSE k \in at : TRUE
              bound == Shape(body[d].in[1])[k] - body[d].upd[k]
              s == body[d].starts[k]
          IN IF s.const THEN [value |-> w.off[j] + Clamp(s.at, bound), bound |-> 0, raw |-> Const(0)]
             ELSE IF bound = 0 THEN [value |-> w.off[j], bound |-> 0, raw |-> Const(0)]
             ELSE [value |-> w.off[j], bound |-> bound, raw |-> Scalar(Rep(s.at))]
UpdShape(d) ==
  LET amap == cover[body[d].in[1]].amap
  IN [j \in Axes |-> IF j \in ToSet(amap) THEN body[d].upd[CHOOSE k \in DOMAIN amap : amap[k] = j] ELSE 1]

---------------------------------------------------------------------------
(* The lowered body: KvLowerSite, KvMaterialize. *)
StartAt(cell, env) ==
  cell.value + (IF cell.raw.const THEN 0 ELSE Clamp(env[cell.raw.at], cell.bound))
KvUpdated(d) ==
  [env \in Envs |-> Stored(chain[env], Dims, d, UpdShape(d), [j \in Axes |-> StartAt(Cell(d, j), env)])]
\* A value of the tree is cut out of the chain as it stands.
Materialized(v) ==
  LET w == cover[v]
      c(n) == [j \in Axes |-> CoordOf(n, w.ext)[j] + w.off[j]]
  IN [env \in Envs |-> [n \in Cells(Shape(v)) |-> chain[env][Place(c(n), Dims)]]]

\* What StableHLO's verifier lets an op be.
Formed(o) ==
  LET sh == Shape(o.in[1]) IN
  /\ o.in \in Seq(Nodes) \ {<<>>} /\ o.shape \in Seq(Sizes)
  /\ o.name \in {"slice", "reshape", "broadcast", "update"} => Len(o.in) = 1
  /\ o.name = "slice" => /\ Len(o.shape) = Len(sh) /\ o.start \in [DOMAIN sh -> Nat]
                         /\ \A k \in DOMAIN sh : o.start[k] + o.shape[k] <= sh[k]
  /\ o.name = "broadcast" => o.dims \in [DOMAIN sh -> DOMAIN o.shape]
  /\ o.name = "concatenate" => /\ o.axis \in DOMAIN o.shape
                               /\ \A p \in ToSet(o.in) : Len(Shape(p)) = Len(o.shape)
  /\ o.name = "update" =>
       /\ o.shape = sh /\ o.upd \in Seq(Sizes) /\ Len(o.upd) = Len(sh)
       /\ \A k \in DOMAIN sh : /\ o.upd[k] <= sh[k]
                              /\ o.starts[k].const \in BOOLEAN
                              /\ o.starts[k].at \in (IF o.starts[k].const THEN Int ELSE Scalars)

Plan(verdict, root, tree) == [verdict |-> verdict, root |-> root, tree |-> tree]
Only(v, x) == [u \in {v} |-> x]
Also(f, g) == [v \in DOMAIN f \cup DOMAIN g |-> IF v \in DOMAIN f THEN f[v] ELSE g[v]]
Everywhere(cells) == [env \in Envs |-> cells]
KvInit ==
  LET carry == Everywhere([n \in Cells(Dims) |-> <<0, n>>]) IN
  /\ body = <<>> /\ value = Only(0, carry) /\ cover = Only(0, Carry)
  /\ analysis = Plan("none", 0, {}) /\ pos = 0 /\ chain = carry /\ slots = Only(0, carry)

KvGrow ==
  /\ ~ Ended
  /\ \E o \in {o \in Grow(body) : Formed(o)} : LET v == Len(body) + 1 IN
       /\ body' = Append(body, o)
       /\ value' = Also(value, Only(v, ValueOf(o)))
       /\ cover' = Also(cover, Only(v, CoverOf(o)))
  /\ UNCHANGED <<analysis, pos, chain, slots>>

KvAnalyze ==
  /\ Ended /\ analysis.verdict = "none"
  /\ LET tree == TreeOf(Root) IN
     analysis' = IF Accepts(Root, tree) THEN Plan("accepted", Root, tree) ELSE Plan("declined", 0, {})
  /\ UNCHANGED <<body, value, cover, pos, chain, slots>>

\* The walk of the body: an op of the tree lowers to what the chain is, an
\* update extends it, any other op first gets what it reads of the tree.
Lowering == analysis.verdict = "accepted" /\ pos < Len(body) /\ pos' = pos + 1
KvLowerRoot ==
  /\ Lowering /\ pos' = analysis.root
  /\ slots' = Also(slots, Only(analysis.root, chain))
  /\ UNCHANGED <<body, value, cover, analysis, chain>>
KvLowerSite ==
  /\ Lowering /\ pos' \in UpdatesIn(analysis.tree)
  /\ chain' = KvUpdated(pos')
  /\ UNCHANGED <<body, value, cover, analysis, slots>>
KvLowerAbsorbed ==
  /\ Lowering /\ pos' \in analysis.tree \ (UpdatesIn(analysis.tree) \cup {analysis.root})
  /\ UNCHANGED <<body, value, cover, analysis, chain, slots>>
KvLowerOther ==
  /\ Lowering /\ pos' \notin analysis.tree
  /\ slots' = Also(slots, [v \in ToSet(body[pos'].in) \cap analysis.tree |-> Materialized(v)])
  /\ UNCHANGED <<body, value, cover, analysis, chain>>

KvDone == (analysis.verdict = "declined" \/ (Ended /\ pos = Len(body))) /\ UNCHANGED kvVars
KvNext == KvGrow \/ KvAnalyze \/ KvLowerRoot \/ KvLowerSite \/ KvLowerAbsorbed \/ KvLowerOther \/ KvDone

KvSpec == KvInit /\ [][KvNext]_kvVars

---------------------------------------------------------------------------
\* "Bit-exact: only data movement changes" (metal_lowering.cc:2381): the
\* carry comes out of the chain as the body rebuilds it, and every op outside
\* the tree reads what the body says it reads, wherever the starts are.
KvIsLiteral == \A v \in DOMAIN slots : slots[v] = value[v]

\* The bodies the rewrite is right for: a slice is cut of the carry, and what
\* is written goes on whole.
SlicesOfCarry == \A v \in DOMAIN body : body[v].name = "slice" => body[v].in = <<0>>
=============================================================================

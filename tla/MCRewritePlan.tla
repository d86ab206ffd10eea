---------------------------- MODULE MCRewritePlan ----------------------------
(* Small blocks, and on each every pair of recognizers finding what it may. *)
EXTENDS RewritePlan

Shapes ==
  {[n |-> 4, reads |-> <<{}, {1}, {2}, {3}>>, ret |-> {4}, const |-> {1}],
   [n |-> 4, reads |-> <<{}, {1}, {1}, {2, 3}>>, ret |-> {4}, const |-> {}],
   [n |-> 4, reads |-> <<{}, {1}, {1}, {2, 3}>>, ret |-> {3, 4}, const |-> {}],
   [n |-> 4, reads |-> <<{}, {1}, {2}, {2}>>, ret |-> {3, 4}, const |-> {}],
   [n |-> 5, reads |-> <<{}, {1}, {2}, {2}, {3, 4}>>, ret |-> {5}, const |-> {}]}
Rows(b, root) ==
  {R \in {{u \in root + 1 .. b.n : root \in b.reads[u]}} :
     root \notin b.ret /\ \A u \in R : b.reads[u] = {root}}

\* What a pattern at `root` that computes `S` itself would read.
Frontier(b, root, S) == UNION {b.reads[o] : o \in S \cup {root}} \ S
Match(b, root, S) ==
  [root |-> root, ops |-> S, reads |-> Frontier(b, root, S), whole |-> S, plain |-> {},
   bound |-> {}, key |-> 0, packs |-> FALSE, over |-> {}, members |-> {}]
Trees(b, root) ==
  {S \in SUBSET (AboveIn(b, root) \ {root}) :
     /\ Cardinality(S) <= 2
     /\ \A o \in S : \E u \in S \cup {root} : o \in b.reads[u]}
Cands(b) == UNION {{Match(b, r, S) : S \in Trees(b, r)} : r \in 2 .. b.n}
Absorbing(b) == {c \in Cands(b) : c.ops # {}}
\* A call reads nothing another of its kind computes for itself.
Apart(M) == \A m \in M : \A k \in M : m.reads \cap k.ops = {}
Subsets(S) == {{m, k} : m, k \in S} \cup {{}}
OneEach(M) == \A m \in M : \A k \in M : m.root = k.root => m = k
UpToTwo(S) == {M \in Subsets(S) : OneEach(M) /\ Apart(M)}
\* Dots are read through other ops alone.
Rooted(M) == OneEach(M) /\ \A m \in M : \A k \in M : ({m.root} \cup m.bound) \cap ({k.root} \cup k.ops) \subseteq {m.root} \ k.ops
\* One of its ops may be the slice of a stack of weights.
Sliced(b, c) ==
  {[c EXCEPT !.whole = {}]} \cup {[c EXCEPT !.whole = {}, !.bound = rows] : rows \in Rows(b, c.root)}
    \cup {[c EXCEPT !.whole = {w}, !.plain = Frontier(b, c.root, c.ops \ {w})] : w \in c.ops \cap b.reads[c.root]}
One(S) == {{m} : m \in S} \cup {{}}

OfKind(b, kind) ==
  CASE kind = "qmm" -> UpToTwo(Absorbing(b))
    [] kind = "gdn" -> One(UNION {{[c EXCEPT !.bound = {s}] : s \in c.ops \ b.const} : c \in Absorbing(b)})
    [] kind = "proj" -> {M \in UpToTwo({[c EXCEPT !.key = 1] : c \in {c \in Cands(b) : c.ops = {}}}) :
                           \A m \in M : \A k \in M : m.reads = k.reads}
    [] kind = "stacked" -> {M \in UpToTwo({[c EXCEPT !.packs = p, !.key = IF p THEN 0 ELSE 1] : c \in Absorbing(b), p \in BOOLEAN}) : Rooted(M)}
    [] kind = "ragged" -> {M \in Subsets(UNION {Sliced(b, c) : c \in Absorbing(b)}) : Rooted(M)}
    [] OTHER -> UpToTwo(Absorbing(b))

Pairs == {<<"qmm", "moe">>, <<"qmm", "sdpa">>, <<"sdpa", "norm">>, <<"stacked", "gdn">>,
          <<"ragged", "norm">>, <<"proj", "rope">>, <<"mla", "norm">>, <<"gdn", "rope">>}
\* The masks and the slices of a dispatch are no pattern of another's.
MaskedApart(b) ==
  "ragged" \in DOMAIN b.found =>
    \A k \in DOMAIN b.found \ {"ragged"} : RootsOf(b.found[k]) \cap OpsOf(b.found["ragged"]) = {}
\* An expert dispatch reads what the quantized matmuls it takes over read.
Over(b, Q, c) ==
  LET over == {q \in Q : q.root \in c.ops}
  IN [c EXCEPT !.over = RootsOf(over),
               !.reads = (UNION {b.reads[o] : o \in (c.ops \cup {c.root}) \ RootsOf(over)}
                            \cup ReadsOf(over)) \ c.ops]
Dispatches(b, Q) ==
  {{Over(b, P, c)} : P \in SUBSET Q,
                     c \in {c \in Absorbing(b) : ({c.root} \cup c.ops) \cap OpsOf(Q) = {}
                                               /\ c.root \notin RootsOf(Q)}}

Finds(b, p) ==
  IF p[2] = "moe"
  THEN UNION {{(p[1] :> Q) @@ (p[2] :> D) : D \in Dispatches(b, Q)} : Q \in OfKind(b, "qmm")}
  ELSE {(p[1] :> A) @@ (p[2] :> B) : A \in OfKind(b, p[1]), B \in OfKind(b, p[2])}
MCBlocks ==
  {b \in UNION {{s @@ [found |-> f] : f \in Finds(s, p)} : s \in Shapes, p \in Pairs} : MaskedApart(b)}
=============================================================================

----------------------------- MODULE IndexRange -----------------------------
(***************************************************************************)
(* The interval analysis that decides whether a scatter can meet an index  *)
(* out of bounds at all (metal_lowering.cc RangeOfIndex, NegPredicate,     *)
(* ScatterIndicesInBounds).  "In bounds" selects a strategy that drops     *)
(* nothing: a range that misses one value writes where XLA would not.      *)
(*                                                                         *)
(* An index expression is grown node by node.  A node keeps the values it  *)
(* has under every content of the program's inputs, beside what the        *)
(* analysis says of it: the range of the whole array and of each of its    *)
(* components, and the nodes x for which it is known to be `x < 0`.  The   *)
(* walk's budget and depth only turn an answer into "unknown"; a call      *)
(* frame is the splice of its body, and is not a node.                     *)
(***************************************************************************)
EXTENDS Integers, Sequences, FiniteSets, FiniteSetsExt, SequencesExt

CONSTANTS Inputs,     \* the contents an unknown operand may have: pairs
          Expressions \* by name, [prelude, grow, ops]: how one starts, by how
                      \* many nodes it grows, and by which ops

VARIABLES nodes, suite

rangeVars == <<nodes, suite>>

least(a, b) == IF a <= b THEN a ELSE b
most(a, b) == IF a >= b THEN a ELSE b
magnitude(a) == IF a < 0 THEN - a ELSE a

(***************************************************************************)
(* Ranges.  kRangeBound keeps sums inside int64; the bands explored here   *)
(* never reach it.                                                         *)
(***************************************************************************)
UnknownRange == [known |-> FALSE, lo |-> 0, hi |-> 0]
MakeRange(lo, hi) == IF lo > hi THEN UnknownRange
                     ELSE [known |-> TRUE, lo |-> lo, hi |-> hi]
Within(v, r) == r.known => r.lo <= v /\ v <= r.hi
Exactly(r, v) == r.known /\ r.lo = v /\ r.hi = v

Union(a, b) == IF a.known /\ b.known
               THEN MakeRange(least(a.lo, b.lo), most(a.hi, b.hi))
               ELSE UnknownRange

(* An i1 constant is read sign-extended: true is -1. *)
ConstantRange(vals, i1) ==
  LET read == {IF i1 THEN - vals[i] ELSE vals[i] : i \in DOMAIN vals}
  IN MakeRange(Min(read), Max(read))

AddRange(a, b) == IF a.known /\ b.known THEN MakeRange(a.lo + b.lo, a.hi + b.hi)
                  ELSE UnknownRange
SubtractRange(a, b) == IF a.known /\ b.known THEN MakeRange(a.lo - b.hi, a.hi - b.lo)
                       ELSE UnknownRange
MaxRange(a, b) == IF a.known /\ b.known
                  THEN MakeRange(most(a.lo, b.lo), most(a.hi, b.hi)) ELSE UnknownRange
MinRange(a, b) == IF a.known /\ b.known
                  THEN MakeRange(least(a.lo, b.lo), least(a.hi, b.hi)) ELSE UnknownRange
(* Nothing need be known of the clamped operand, nor of the bounds' order. *)
ClampRange(low, high) == IF low.known /\ high.known
                         THEN MakeRange(least(low.lo, high.lo), high.hi) ELSE UnknownRange
\* (mutant) the dividend's sign is not looked at.
RemRangePositive(n, d) ==
  IF ~ d.known \/ (d.lo <= 0 /\ d.hi >= 0) THEN UnknownRange
  ELSE MakeRange(0, most(magnitude(d.lo), magnitude(d.hi)) - 1)

(* The remainder takes the dividend's sign and stays below the divisor. *)
RemRange(n, d) ==
  IF ~ d.known \/ (d.lo <= 0 /\ d.hi >= 0) THEN UnknownRange
  ELSE LET mag == most(magnitude(d.lo), magnitude(d.hi)) - 1
       IN MakeRange(IF n.known /\ n.lo >= 0 THEN 0 ELSE - mag, mag)

(* A comparison the operands' ranges settle is that constant.  Signed and
   unsigned agree where both operands are non-negative. *)
CompareRange(dir, signed, a, b) ==
  LET same == a.lo = a.hi /\ b.lo = b.hi /\ a.lo = b.lo
      apart == a.hi < b.lo \/ b.hi < a.lo
      yes == \/ (dir = "LT" /\ a.hi < b.lo) \/ (dir = "LE" /\ a.hi <= b.lo)
             \/ (dir = "GT" /\ a.lo > b.hi) \/ (dir = "GE" /\ a.lo >= b.hi)
             \/ (dir = "EQ" /\ same)        \/ (dir = "NE" /\ apart)
      no == \/ (dir = "LT" /\ a.lo >= b.hi) \/ (dir = "LE" /\ a.lo > b.hi)
            \/ (dir = "GT" /\ a.hi <= b.lo) \/ (dir = "GE" /\ a.hi < b.lo)
            \/ (dir = "EQ" /\ apart)        \/ (dir = "NE" /\ same)
  IN IF ~ (a.known /\ b.known) \/ ~ (signed \/ (a.lo >= 0 /\ b.lo >= 0))
     THEN MakeRange(0, 1)
     ELSE IF yes THEN MakeRange(1, 1) ELSE IF no THEN MakeRange(0, 0) ELSE MakeRange(0, 1)

-----------------------------------------------------------------------------
(***************************************************************************)
(* Nodes.  `n` is the extent of the one axis, 0 for a scalar.              *)
(***************************************************************************)
Size(x) == IF x.n = 0 THEN 1 ELSE x.n

(* What an op computes of its operands' elements, as StableHLO has it. *)
truncated(a, b) == LET q == magnitude(a) % magnitude(b) IN IF a < 0 THEN - q ELSE q
Holds(dir, a, b) ==
  \/ (dir = "LT" /\ a < b)  \/ (dir = "LE" /\ a <= b) \/ (dir = "GT" /\ a > b)
  \/ (dir = "GE" /\ a >= b) \/ (dir = "EQ" /\ a = b)  \/ (dir = "NE" /\ a # b)
Value(op, v) ==
  CASE op.kind = "add" -> v[1] + v[2]
    [] op.kind = "subtract" -> v[1] - v[2]
    [] op.kind = "maximum" -> most(v[1], v[2])
    [] op.kind = "minimum" -> least(v[1], v[2])
    [] op.kind = "clamp" -> least(most(v[2], v[1]), v[3])
    [] op.kind = "remainder" -> IF v[2] = 0 THEN v[1] ELSE truncated(v[1], v[2])
    [] op.kind = "compare" -> IF Holds(op.dir, v[1], v[2]) THEN 1 ELSE 0
    [] op.kind = "and" -> v[1] * v[2]
    [] op.kind = "select" -> IF v[1] = 1 THEN v[2] ELSE v[3]
    [] op.kind = "convert" -> v[1]

(* ...and the range the analysis gives it, componentwise. *)
Ranged(op, r) ==
  CASE op.kind = "add" -> AddRange(r[1], r[2])
    [] op.kind = "subtract" -> SubtractRange(r[1], r[2])
    [] op.kind = "maximum" -> MaxRange(r[1], r[2])
    [] op.kind = "minimum" -> MinRange(r[1], r[2])
    [] op.kind = "clamp" -> ClampRange(r[1], r[3])
    [] op.kind = "remainder" -> RemRange(r[1], r[2])
    [] op.kind = "compare" -> CompareRange(op.dir, op.signed, r[1], r[2])
    [] op.kind = "and" -> UnknownRange
    [] op.kind = "select" -> Union(r[2], r[3])
    [] op.kind = "convert" -> r[1]

(* What is known of a node as a predicate on another: it is `x < 0` for the
   x in `neg.equals`, implied by `x < 0` for those in `neg.weaker`, and true
   whatever x is when `neg.always`. *)
NoNeg == [equals |-> {}, weaker |-> {}, always |-> FALSE]
Weaker(neg, x) == neg.always \/ x \in neg.equals \cup neg.weaker

Conjunction(p, q, xs) ==
  [equals |-> {x \in p.equals : Weaker(q, x)} \cup {x \in q.equals : Weaker(p, x)},
   weaker |-> {x \in xs : Weaker(p, x) /\ Weaker(q, x)},
   always |-> p.always /\ q.always]

(* The comparison against exactly zero; `q != false` and `q = true` are q. *)
Comparison(op, a, b, whole) ==
  LET zero(x) == Exactly(x.whole, 0)
      left == zero(b)
      right == zero(a)
      plain(c) == /\ Exactly(c.whole, c.whole.lo)
                  /\ op.dir = IF c.whole.lo = 0 THEN "NE" ELSE "EQ"
  IN IF a.i1
     THEN IF plain(b) THEN a.neg ELSE IF plain(a) THEN b.neg ELSE NoNeg
     ELSE [equals |-> {x \in {a.peel} : left /\ op.dir = "LT"}
                        \cup {x \in {b.peel} : right /\ op.dir = "GT"},
           weaker |-> {x \in {a.peel} : left /\ op.dir \in {"LE", "NE"}}
                        \cup {x \in {b.peel} : right /\ op.dir \in {"GE", "NE"}},
           always |-> Exactly(whole, 1)]

(* Any op but those below that move components about. *)
Elementwise(ns, op) ==
  LET x(k) == ns[op.ins[k]]
      K == DOMAIN op.ins
      me == Len(ns) + 1
      whole == Ranged(op, [k \in K |-> x(k).whole])
  IN [kind |-> op.kind, ins |-> op.ins, n |-> x(1).n, peel |-> me,
      i1 |-> op.kind \in {"compare", "and"} \/ (op.kind = "select" /\ x(2).i1),
      val |-> [e \in Inputs |-> [i \in 1 .. Size(x(1)) |->
                 Value(op, [k \in K |-> x(k).val[e][i]])]],
      whole |-> whole,
      part |-> [i \in DOMAIN x(1).part |-> Ranged(op, [k \in K |-> x(k).part[i]])],
      neg |-> CASE op.kind = "and" -> Conjunction(x(1).neg, x(2).neg, 1 .. me)
                [] op.kind = "compare" -> Comparison(op, x(1), x(2), whole)
                [] OTHER -> NoNeg]

(* The one place a predicate is read: `select(i < 0, i + D, i)` is in
   [0, D-1] when i is in [-D, D-1], or is a remainder by that same D. *)
Normal(rf, rD, sameDivisor) ==
  IF Exactly(rD, rD.lo) /\ rf.lo >= - rD.lo /\ rf.hi <= rD.lo - 1
  THEN MakeRange(0, rD.lo - 1)
  ELSE IF sameDivisor THEN MakeRange(0, rD.hi - 1) ELSE UnknownRange
(* What may be `D`, for an addition to the index f... *)
Offsets(ns, op) ==
  LET t == ns[op.ins[2]]
  IN IF t.kind = "add" THEN {t.ins[3 - k] : k \in {k \in 1 .. 2 : t.ins[k] = op.ins[3]}}
     ELSE {}
(* ...and what the index, of range rf, is known to become by it. *)
Proved(ns, op, rf, rD) ==
  LET f == ns[op.ins[3]]
      body == ns[f.peel]
      sameDivisor(D) == body.kind = "remainder" /\ ns[body.ins[2]].peel = ns[D].peel
      negative == f.peel \in ns[op.ins[1]].neg.equals
  IN {Normal(rf, rD[D], sameDivisor(D)) : D \in {D \in DOMAIN rD :
        rf.known /\ rD[D].known /\ rD[D].lo > 0 /\ negative}} \ {UnknownRange}
Normalized(ns, op, node) ==
  LET f == ns[op.ins[3]]
      better(old, new) == IF new = {} THEN old ELSE CHOOSE r \in new : TRUE
      whole == [D \in Offsets(ns, op) |-> ns[D].whole]
      part(i) == [D \in Offsets(ns, op) |-> ns[D].part[i]]
  IN [node EXCEPT !.whole = better(@, Proved(ns, op, f.whole, whole)),
                  !.part = [i \in DOMAIN @ |-> better(@[i], Proved(ns, op, f.part[i], part(i)))]]

(* Constants, iota and unknown operands. *)
Leaf(ns, op) ==
  LET vals == IF op.kind = "iota" THEN [i \in 1 .. op.n |-> i - 1] ELSE op.vals
      known == op.kind # "arg"
      whole == IF known THEN ConstantRange(vals, op.i1) ELSE UnknownRange
  IN [kind |-> op.kind, ins |-> <<>>, n |-> op.n, peel |-> Len(ns) + 1, i1 |-> op.i1,
      val |-> [e \in Inputs |-> IF known THEN vals ELSE [i \in 1 .. most(op.n, 1) |-> e[i]]],
      whole |-> whole,
      part |-> [i \in 1 .. op.n |-> IF known THEN ConstantRange(<<vals[i]>>, op.i1)
                                    ELSE UnknownRange],
      neg |-> NoNeg]

(* Broadcast and reshape keep a value's contents: a component of a
   replicated axis is the whole operand.  "spread" is the broadcast of a pair
   to a square along dimension `op.dim`; a square (extent 4, row by row) is
   only asked about as a whole. *)
Source(x, op, i) == IF op.kind = "spread"
                    THEN IF op.dim = 0 THEN 1 + (i - 1) \div 2 ELSE 1 + ((i - 1) % 2)
                    ELSE IF x.n = op.n THEN i ELSE 1
Viewed(ns, op) ==
  LET x == ns[op.ins[1]]
  IN [x EXCEPT !.kind = op.kind, !.ins = op.ins, !.n = op.n,
        !.val = [e \in Inputs |-> [i \in 1 .. most(op.n, 1) |->
                   x.val[e][Source(x, op, i)]]],
        !.part = [i \in 1 .. IF op.n = 4 THEN 0 ELSE op.n |-> IF op.kind = "broadcast" /\ x.n = op.n
                                      THEN x.part[i] ELSE x.whole]]

(* Concatenation of two of extent 1: a component is one operand's. *)
Joined(ns, op) ==
  LET a == ns[op.ins[1]]
      b == ns[op.ins[2]]
  IN [kind |-> op.kind, ins |-> op.ins, n |-> 2, peel |-> Len(ns) + 1,
      i1 |-> a.i1, val |-> [e \in Inputs |-> <<a.val[e][1], b.val[e][1]>>],
      whole |-> Union(a.whole, b.whole), part |-> <<a.part[1], b.part[1]>>, neg |-> NoNeg]

Node(ns, op) ==
  CASE op.kind \in {"constant", "iota", "arg"} -> Leaf(ns, op)
    [] op.kind \in {"broadcast", "reshape", "spread"} -> Viewed(ns, op)
    [] op.kind = "concatenate" -> Joined(ns, op)
    [] op.kind = "select" -> Normalized(ns, op, Elementwise(ns, op))
    [] OTHER -> Elementwise(ns, op)

(* Whether an op may be applied: its operands are there, extents and element
   types agree, and a conversion widens without a change of sign. *)
Applies(ns, op) ==
  LET x(k) == ns[op.ins[k]] IN
  /\ \A k \in DOMAIN op.ins : op.ins[k] \in DOMAIN ns
  /\ CASE op.kind \in {"constant", "iota", "arg"} -> TRUE
       [] op.kind = "broadcast" -> op.n >= 1 /\ x(1).n \in {0, 1, op.n}
       [] op.kind = "spread" -> x(1).n = 2
       [] op.kind = "reshape" -> {x(1).n, op.n} \subseteq {0, 1}
       [] op.kind = "concatenate" -> x(1).n = 1 /\ x(2).n = 1 /\ x(1).i1 = x(2).i1
       [] op.kind = "convert" -> x(1).i1
       [] op.kind = "and" -> x(1).i1 /\ x(2).i1 /\ x(1).n = x(2).n
       [] op.kind = "select" -> /\ x(1).i1 /\ x(1).n = x(2).n /\ x(2).n = x(3).n
                                /\ x(2).i1 = x(3).i1
       [] op.kind = "compare" -> x(1).n = x(2).n /\ x(1).i1 = x(2).i1
       [] OTHER -> \A j, k \in DOMAIN op.ins : x(j).n = x(k).n /\ ~ x(j).i1

(***************************************************************************)
(* Expressions as a program has them: operands and contents of their       *)
(* kinds.  Kept out are the spread of a pair, for which NegativeExactly    *)
(* fails, and true as a constant, which ConstantRange reads as -1.         *)
(***************************************************************************)
LeafFormed(op) ==
  /\ op.n \in Nat \ {4} /\ op.i1 \in BOOLEAN /\ op.ins = <<>>
  /\ op.kind = "constant" => op.vals \in [1 .. most(op.n, 1) -> IF op.i1 THEN {0} ELSE Int]
  /\ op.kind = "iota" => op.n > 0 /\ ~ op.i1
  /\ op.kind = "arg" => ~ op.i1 /\ \A e \in Inputs : e \in Seq(Int) /\ Len(e) >= most(op.n, 1)
Arity(kind) ==
  IF kind \in {"broadcast", "reshape", "convert"} THEN 1
  ELSE IF kind \in {"clamp", "select"} THEN 3 ELSE 2
OpFormed(op) ==
  /\ op.kind \in {"constant", "iota", "arg"} => LeafFormed(op)
  /\ op.kind \notin {"constant", "iota", "arg"} => op.ins \in [1 .. Arity(op.kind) -> Nat]
  /\ op.kind \in {"broadcast", "reshape"} => op.n \in Nat
  /\ op.kind = "compare" => op.dir \in {"LT", "LE", "GT", "GE", "EQ", "NE"}
  /\ op.kind \in {"constant", "iota", "arg", "broadcast", "reshape", "concatenate", "select", "convert",
                  "and", "compare", "clamp", "remainder", "add", "subtract", "maximum", "minimum"}
ExpressionsFormed ==
  \A s \in DOMAIN Expressions :
    LET x == Expressions[s] IN
    /\ x.grow \in Nat /\ x.prelude \in Seq({op \in Range(x.prelude) : OpFormed(op)})
    /\ \A k \in Len(x.prelude) .. Len(x.prelude) + x.grow - 1 : \A op \in x.ops[k] : OpFormed(op)

RangeInit == suite \in DOMAIN Expressions /\ nodes = <<>>

(* The prelude first, then any of the suite's ops. *)
Limit == Len(Expressions[suite].prelude) + Expressions[suite].grow
NextOps ==
  LET x == Expressions[suite]
      k == Len(nodes)
  IN IF k < Len(x.prelude) THEN {x.prelude[k + 1]} ELSE x.ops[k]

Grow == /\ Len(nodes) < Limit
        /\ \E op \in NextOps : Applies(nodes, op) /\ nodes' = Append(nodes, Node(nodes, op))
        /\ UNCHANGED suite
Grown == Len(nodes) >= Limit /\ UNCHANGED rangeVars

RangeNext == Grow \/ Grown
RangeSpec == RangeInit /\ [][RangeNext]_rangeVars

-----------------------------------------------------------------------------
(* A scatter over node `x` is told that none of its starts can leave
   [0, bound]; with a split index vector component `i` is asked. *)
InBounds(r, bound) == r.known /\ r.lo >= 0 /\ r.hi <= bound
ScatterIndicesInBounds(x, bound) ==
  \/ InBounds(x.whole, bound)
  \/ x.part # <<>> /\ \A i \in DOMAIN x.part : InBounds(x.part[i], bound)

(* A predicate known to be `x < 0` is true exactly where x is negative, for
   every array of its shape that shows x. *)
NegativeExactly ==
  \A k, m \in DOMAIN nodes :
    nodes[m].peel \in nodes[k].neg.equals /\ nodes[m].n = nodes[k].n =>
      \A e \in Inputs : \A i \in 1 .. Size(nodes[k]) :
        (nodes[k].val[e][i] = 1) <=> (nodes[m].val[e][i] < 0)

(* No scatter that is told it drops nothing can meet an index out of bounds. *)
NothingDropped ==
  \A x \in {nodes[k] : k \in DOMAIN nodes} : \A bound \in 0 .. 3 :
    ~ x.i1 /\ ScatterIndicesInBounds(x, bound) =>
      \A e \in Inputs : \A i \in 1 .. Size(x) : x.val[e][i] \in 0 .. bound
=============================================================================

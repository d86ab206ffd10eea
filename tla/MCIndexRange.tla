---------------------------- MODULE MCIndexRange ----------------------------
(* Small index expressions: arithmetic over any operands, and jax's index
   normalization and remainder over every predicate. *)
EXTENDS IndexRange

MCInputs == {<<-2, 1>>, <<-1, 0>>, <<0, -2>>, <<1, 2>>, <<2, -1>>}

Basic(k, ins) == [kind |-> k, ins |-> ins, n |-> 0, i1 |-> FALSE, vals |-> <<>>,
                  dir |-> "LT", signed |-> TRUE, dim |-> 0]
Const(vals) == [Basic("constant", <<>>) EXCEPT !.vals = vals,
                  !.n = IF Len(vals) = 1 THEN 0 ELSE Len(vals)]
ArgOf(size) == [Basic("arg", <<>>) EXCEPT !.n = size]
Shaped(k, ins, size) == [Basic(k, ins) EXCEPT !.n = size]
BroadcastOf(x, dim) == [Basic("spread", <<x>>) EXCEPT !.n = 4, !.dim = dim]
Compare(dir, x, y) == [Basic("compare", <<x, y>>) EXCEPT !.dir = dir]

Binary == {"add", "subtract", "maximum", "minimum", "remainder"}
Arithmetic(k) ==
  {Basic(op, <<x, y>>) : op \in Binary, x \in 1 .. k, y \in 1 .. k}
    \cup {Basic("clamp", <<x, y, z>>) : x \in 1 .. k, y \in 1 .. k, z \in 1 .. k}
    \cup {Compare(d, x, y) : d \in {"LT", "GE", "EQ"}, x \in 1 .. k, y \in 1 .. k}
    \cup {[Compare("LE", 1, k) EXCEPT !.signed = FALSE]}
    \cup {Basic("select", <<x, y, z>>) : x \in {k}, y \in 1 .. k, z \in 1 .. k}
    \cup {Basic("convert", <<x>>) : x \in 1 .. k}
Moved(k) ==
  {Shaped(v, <<x>>, size) : v \in {"broadcast", "reshape"}, x \in 1 .. k, size \in 0 .. 2}
    \cup {Basic("concatenate", <<x, y>>) : x \in 1 .. k, y \in 1 .. k}
    \cup {Basic("add", <<x, y>>) : x \in 1 .. k, y \in 1 .. k}
(* Over an index f, zero, D and f + D: predicates, their conjunctions, the
   select of jax's normalization. *)
Modular(f, zero, D, t, k) ==
  {Compare(d, x, y) : d \in {"LT", "LE", "GT", "GE", "NE", "EQ"},
                      x \in {f, zero, k}, y \in {f, zero, D, k}}
    \cup {Basic("and", <<x, k>>) : x \in t + 1 .. k}
    \cup {Basic("select", <<x, y, f>>) : x \in t + 1 .. k, y \in {f, t}}
Spreads(k) == {BroadcastOf(1, d) : d \in 0 .. 1} \cup {Shaped("broadcast", <<2>>, 4)}
                \cup {Compare("LT", x, y) : x \in 1 .. k, y \in 1 .. k}

Suite(prelude, grow, Ops(_)) ==
  [prelude |-> prelude, grow |-> grow,
   ops |-> [k \in 1 .. 9 |-> IF k \in Len(prelude) .. Len(prelude) + grow - 1
                             THEN Ops(k) ELSE {}]]
Plain(x, d) == Suite(<<x, Const(<<0>>), Const(<<d>>), Basic("add", <<1, 3>>)>>, 3,
                     LAMBDA k : Modular(1, 2, 3, 4, k))
(* D through jax's guard against zero: a range, not a constant. *)
Guarded(least_d) ==
  Suite(<<ArgOf(0), Const(<<0>>), Const(<<least_d>>), Const(<<3>>), Basic("clamp", <<3, 1, 4>>),
          Basic("remainder", <<1, 5>>), Basic("add", <<6, 5>>)>>, 3,
        LAMBDA k : Modular(6, 2, 5, 7, k))
MCExpressions ==
  [arithmetic |-> Suite(<<ArgOf(2), Const(<<1, 3>>), [Const(<<0, 1>>) EXCEPT !.kind = "iota"]>>,
                        2, Arithmetic),
   clamped |-> Suite(<<ArgOf(0), Const(<<2>>), Const(<<-1>>), Basic("clamp", <<2, 1, 3>>)>>,
                     2, Arithmetic),
   moved |-> Suite(<<ArgOf(1), Const(<<2>>), [Const(<<0>>) EXCEPT !.kind = "iota", !.n = 1]>>,
                   3, Moved),
   unknown |-> Plain(ArgOf(0), 2), behind |-> Plain(Const(<<-2>>), 2),
   ahead |-> Plain(Const(<<1>>), 2), negative |-> Plain(ArgOf(0), -1),
   guarded |-> Guarded(1), unguarded |-> Guarded(-1)]
MCMixed == [mixed |-> Suite(<<ArgOf(2), Const(<<0>>)>>, 4, Spreads)]
=============================================================================

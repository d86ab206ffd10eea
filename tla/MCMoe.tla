------------------------------- MODULE MCMoe --------------------------------
(* Dispatches spelled from a plan with named axes: T (tokens), K (the top), *)
(* E (experts), D, F (features, two of each): jax's einsums, its one-hot in *)
(* any order of axes, and near misses.                                      *)
EXTENDS Moe

Row(v, op, ins, shape, at) == [v |-> v, op |-> op, ins |-> ins, shape |-> shape, elem |-> "f32", frame |-> 0, at |-> at]
As(rows, elem) == [k \in DOMAIN rows |-> [rows[k] EXCEPT !.elem = elem]]
Inside(rows) == [k \in DOMAIN rows |-> [rows[k] EXCEPT !.frame = 1]]
Placed(rows) ==
  LET place(k, name) == Max({i \in 1 .. k - 1 : rows[i].v = name})
  IN [k \in DOMAIN rows |-> [op |-> rows[k].op, ins |-> [j \in DOMAIN rows[k].ins |-> place(k, rows[k].ins[j])], shape |-> rows[k].shape,
                             elem |-> rows[k].elem, frame |-> rows[k].frame, at |-> rows[k].at, name |-> rows[k].v]]
Only(p, rows) == IF p THEN rows ELSE <<>>
Size(c, a) == CASE a = "T" -> c.T [] a = "K" -> c.K [] a = "E" -> c.E [] a = "1" -> 1 [] OTHER -> 2
Sized(c, axes) == [i \in DOMAIN axes |-> Size(c, axes[i])]
Pos(axes, a) == CHOOSE i \in DOMAIN axes : axes[i] = a
AxesAt(axes, names) == [i \in DOMAIN names |-> Pos(axes, names[i])]
Spread(c, v, from, axes, names) == Row(v, "broadcast", <<from>>, Sized(c, axes), AxesAt(axes, names))
\* By a transpose and a reshape first, or outright.
Laid(c, v, from, axes, names) ==
  IF c.spell = "plain" THEN <<Spread(c, v, from, axes, names)>>
  ELSE LET order == SelectSeq(axes, LAMBDA a : a \in Range(names))
           units == [i \in DOMAIN axes |-> IF axes[i] \in Range(names) THEN axes[i] ELSE "1"]
       IN <<Row(v, "transpose", <<from>>, Sized(c, order), AxesAt(names, order)), Row(v, "reshape", <<v>>, Sized(c, units), 0),
            Row(v, "broadcast", <<v>>, Sized(c, axes), Identity(Len(axes)))>>

Tops(c, axes) == <<Row("top", "topk", <<"l">>, Sized(c, axes), [k |-> c.K, what |-> "values"]),
                    Row("at", "topk", <<"l">>, Sized(c, axes), [k |-> c.K, what |-> "indices"])>>
Product(c, v, a, b, axes) == Row(v, "multiply", IF c.turned THEN <<b, a>> ELSE <<a, b>>, Sized(c, axes), 0)
Cast(v, c, axes, elem) == [Row(v, "convert", <<v>>, Sized(c, axes), 0) EXCEPT !.elem = elem]
TK == <<"T", "K">>
Router(c) ==
  <<Row("l", "arg", <<>>, Sized(c, <<"T", "E">>), 0)>> \o
  Only(c.route = "inside", Inside(<<Row("l", "add", <<"l", "l">>, Sized(c, <<"T", "E">>), 0)>>)) \o
  Tops(c, TK) \o
  (CASE c.route = "squared" -> <<Product(c, "top", "top", "top", TK)>>
     [] c.route = "low" -> <<Cast("top", c, TK, "bf16"), Cast("top", c, TK, "f32")>>
     [] c.route = "callee" -> Inside(<<Product(c, "top", "top", "top", TK)>>)
     [] OTHER -> <<>>) \o
  Laid(c, "topb", "top", c.hot, IF c.route = "crossed" THEN <<"K", "T">> ELSE TK) \o Laid(c, "atb", "at", c.hot, TK) \o
  <<Row("i", "iota", <<>>, Sized(c, <<"E">>), 1)>> \o Laid(c, "ib", "i", c.hot, IF c.route = "tokens" THEN <<"T">> ELSE <<"E">>) \o
  (IF c.route = "frame" THEN Inside(<<Row("one", "equal", <<"ib", "atb">>, Sized(c, c.hot), 0)>>)
   ELSE <<Row("one", "equal", <<"atb", "ib">>, Sized(c, c.hot), 0)>>) \o
  <<Product(c, "s", "topb", "one", c.hot)>> \o
  Only(c.route = "rounded", <<Cast("s", c, c.hot, "bf16"), Cast("s", c, c.hot, "f32")>>) \o
  <<Row("s", "reduce", <<"s">>, Sized(c, Less(c.hot, "K")), [axis |-> Pos(c.hot, "K"), init |-> IF c.route = "one" THEN 1 ELSE 0])>> \o
  Only(c.route = "half", <<Cast("s", c, Less(c.hot, "K"), "bf16"), Cast("s", c, Less(c.hot, "K"), "f32")>>)

\* The experts' hidden value, its axes <<"T", "E", "F">> or in another order.
Mult(c, v, a, b, axes, lb, rb, lc, rc) == Row(v, "dot", <<a, b>>, Sized(c, axes), [lb |-> lb, rb |-> rb, lc |-> lc, rc |-> rc])
UpAxes(c) == CASE c.up = "tokens" -> <<"T", "E", "F">> [] c.up = "weights" -> <<"E", "F", "T">> [] OTHER -> <<"E", "T", "F">>
Up(c) ==
  <<Row("x", "arg", <<>>, Sized(c, <<"T", "D">>), 0), Row("u", "arg", <<>>, Sized(c, c.u), 0)>> \o
  (CASE c.up = "tokens" -> <<Mult(c, "h", "x", "u", UpAxes(c), <<>>, <<>>, <<2>>, <<Pos(c.u, "D")>>)>>
     [] c.up = "weights" -> <<Mult(c, "h", "u", "x", UpAxes(c), <<>>, <<>>, <<Pos(c.u, "D")>>, <<2>>)>>
     [] c.up = "batched" -> <<Spread(c, "xb", "x", <<"E", "T", "D">>, <<"T", "D">>),
                              Mult(c, "h", "xb", "u", UpAxes(c), <<1>>, <<Pos(c.u, "E")>>, <<3>>, <<Pos(c.u, "D")>>)>>)
\* An order of the weight's axes in which what is left comes out as UpAxes.
MidOps(c, axes) ==
  LET shape == Sized(c, axes)
      f == Pos(axes, "F")
      half(lo) == [lo |-> [i \in DOMAIN axes |-> IF i = f THEN lo ELSE 0], hi |-> [shape EXCEPT ![f] = lo + 1], step |-> [i \in DOMAIN axes |-> 1]]
      narrow == [shape EXCEPT ![f] = 1]
  IN CASE c.mid = "none" -> <<>>
       [] c.mid = "relu" -> <<Row("k", "constant", <<>>, <<>>, 20), Spread(c, "k", "k", axes, <<>>), Row("h", "maximum", <<"h", "k">>, shape, 0)>>
       [] c.mid = "callee" -> Inside(<<Row("k", "constant", <<>>, <<>>, 20), Spread(c, "k", "k", axes, <<>>), Row("h", "maximum", <<"h", "k">>, shape, 0)>>)
       [] c.mid = "bias" -> <<Row("b", "arg", <<>>, Sized(c, <<"E", "F">>), 0)>> \o Laid(c, "bb", "b", axes, <<"E", "F">>) \o
                            <<Row("h", "add", <<"h", "bb">>, shape, 0)>>
       [] c.mid = "token" -> <<Row("b", "arg", <<>>, Sized(c, <<"T">>), 0)>> \o Laid(c, "bb", "b", axes, <<"T">>) \o <<Product(c, "h", "h", "bb", axes)>>
       [] c.mid = "own" -> <<Row("b", "arg", <<>>, Sized(c, <<"E">>), 0)>> \o Laid(c, "bb", "b", axes, <<"E">>) \o <<Product(c, "h", "h", "bb", axes)>>
       [] c.mid = "both" -> <<Row("b", "arg", <<>>, Sized(c, axes), 0), Product(c, "h", "h", "b", axes)>>
       [] c.mid = "low" -> <<Cast("h", c, axes, "bf16"), Cast("h", c, axes, "f32")>>
       [] c.mid = "gate" -> <<Row("a", "slice", <<"h">>, narrow, half(0)), Row("g", "slice", <<"h">>, narrow, half(1)),
                              Row("a", "multiply", <<"a", "g">>, narrow, 0), Row("h", "concatenate", <<"g", "a">>, shape, f)>>
       [] c.mid = "flat" -> <<Row("h", "reshape", <<"h">>, <<shape[1] * shape[2], shape[3]>>, 0), Row("h", "reshape", <<"h">>, shape, 0)>>
       [] c.mid = "folded" -> <<Row("h", "reshape", <<"h">>, shape \o <<1>>, 0), Row("h", "multiply", <<"h", "h">>, shape \o <<1>>, 0),
                                Row("h", "reshape", <<"h">>, shape, 0)>>
       [] c.mid = "swapped" -> <<Row("h", "broadcast", <<"h">>, shape \o <<2>>, Identity(3)), Row("h", "transpose", <<"h">>, shape \o <<2>>, [Identity(4) EXCEPT ![f] = 4, ![4] = f]),
                                 Row("h", "slice", <<"h">>, shape \o <<1>>, [lo |-> <<0, 0, 0, 1>>, hi |-> shape \o <<2>>, step |-> <<1, 1, 1, 1>>]),
                                 Row("h", "reshape", <<"h">>, shape, 0)>>
       [] c.mid = "regrouped" -> <<Row("h", "reshape", <<"h">>, <<shape[2], shape[1], shape[3]>>, 0), Row("h", "reshape", <<"h">>, shape, 0)>>
ETF == <<"E", "T", "F">>
ETD == <<"E", "T", "D">>
\* Down again, batched over the experts, and into the order of the product.
Down(c) ==
  IF c.down = "none" THEN <<Row("y", "transpose", <<"h">>, Sized(c, c.out), AxesAt(UpAxes(c), [i \in DOMAIN c.out |-> IF c.out[i] = "D" THEN "F" ELSE c.out[i]]))>>
  ELSE <<Row("h", "transpose", <<"h">>, Sized(c, ETF), AxesAt(UpAxes(c), ETF)), Row("v", "arg", <<>>, Sized(c, c.v), 0),
         Mult(c, "y", "h", "v", ETD, <<1>>, <<Pos(c.v, "E")>>, <<3>>, <<Pos(c.v, "F")>>),
         Row("y", "transpose", <<"y">>, Sized(c, c.out), AxesAt(ETD, c.out))>>
End(c) ==
  Laid(c, "sb", "s", c.out, Less(c.hot, "K")) \o
  Only(c.end = "low", <<Cast("y", c, c.out, "bf16"), Cast("sb", c, c.out, "bf16")>>) \o
  As(<<Product(c, "y", "y", "sb", c.out)>>, IF c.end = "low" THEN "bf16" ELSE "f32") \o
  Only(c.end \in {"low", "down"}, <<Cast("y", c, c.out, IF c.end = "low" THEN "f32" ELSE "bf16")>>) \o
  As(<<Row("y", "reduce", <<"y">>, Sized(c, Less(c.out, IF c.end = "tokens" THEN "T" ELSE "E")), [axis |-> Pos(c.out, IF c.end = "tokens" THEN "T" ELSE "E"), init |-> 0])>>,
     IF c.end = "down" THEN "bf16" ELSE "f32")
Spelling(c) == Router(c) \o Up(c) \o MidOps(c, UpAxes(c)) \o Down(c) \o End(c)

Base == [T |-> 2, E |-> 2, K |-> 1, spell |-> "plain", turned |-> FALSE, route |-> "plain", hot |-> <<"T", "K", "E">>, up |-> "tokens",
         u |-> <<"E", "D", "F">>, mid |-> "none", down |-> "batched", v |-> <<"E", "F", "D">>, out |-> <<"T", "E", "D">>, end |-> "plain"]
Orders(names) == {f \in [1 .. 3 -> names] : Range(f) = names}
Sizes == {<<2, 2, 1>>, <<1, 2, 1>>, <<2, 3, 2>>, <<2, 2, 2>>}
Resized(c, s) == [c EXCEPT !.T = s[1], !.E = s[2], !.K = s[3]]
Routes == {"plain", "inside", "squared", "low", "callee", "crossed", "tokens", "frame", "rounded", "one", "half"}
Mids == {"none", "relu", "callee", "bias", "token", "own", "both", "low", "gate", "flat", "folded", "swapped", "regrouped"}
Routed == {Resized([Base EXCEPT !.spell = s, !.turned = t, !.hot = h, !.route = r], z) : s \in {"plain", "units"}, t \in BOOLEAN,
             h \in Orders({"T", "K", "E"}), r \in {"plain", "squared", "half"}, z \in {<<2, 2, 1>>, <<2, 3, 2>>}}
MisRouted == {Resized([Base EXCEPT !.route = r, !.end = e], s) : r \in Routes, e \in {"plain", "low", "down", "tokens"}, s \in Sizes}
Ran == {Resized([Base EXCEPT !.spell = s, !.up = u, !.mid = m, !.down = d], z) : s \in {"plain", "units"}, u \in {"tokens", "weights", "batched"},
          m \in Mids, d \in {"none", "batched"}, z \in Sizes}
Arranged == {[Base EXCEPT !.up = x, !.u = u, !.v = v, !.out = o] : x \in {"tokens", "weights", "batched"}, u \in Orders({"E", "D", "F"}),
               v \in {<<"E", "F", "D">>, <<"E", "D", "F">>, <<"F", "E", "D">>}, o \in Orders({"T", "E", "D"})}
\* What is left of the weight comes out in its own order.
IsSpelled(c) ==
  /\ c.up = "batched" \/ Pos(c.u, "E") < Pos(c.u, "F")
  /\ c.route = "crossed" => c.T = c.K
  /\ c.route = "tokens" => c.T = c.E
MoeGraphs == {[kind |-> "moe", ops |-> Placed(Spelling(c))] : c \in {c \in UNION {Routed, MisRouted, Ran, Arranged} : IsSpelled(c)}}
=============================================================================

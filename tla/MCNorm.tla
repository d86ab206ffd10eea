------------------------------- MODULE MCNorm -------------------------------
(* Norms spelled from a plan: jax's, flax's, keras' and maxtext's, and near *)
(* misses of each. A row names what it reads; the last row so named is      *)
(* meant.                                                                   *)
EXTENDS Norm

Row(v, op, ins, shape, elem, at) == [v |-> v, op |-> op, ins |-> ins, shape |-> shape, elem |-> elem, at |-> at]
Placed(rows) ==
  LET place(k, name) == Max({i \in 1 .. k - 1 : rows[i].v = name})
  IN [k \in DOMAIN rows |-> [op |-> rows[k].op, ins |-> [j \in DOMAIN rows[k].ins |-> place(k, rows[k].ins[j])],
                             shape |-> rows[k].shape, elem |-> rows[k].elem, at |-> rows[k].at, name |-> rows[k].v]]
Only(p, rows) == IF p THEN rows ELSE <<>>
Lead(c) == Front(c.shape)
Keep(c) == Front(c.shape) \o <<1>>
Scalar(v, n, elem) == Row(v, "const", <<>>, <<>>, elem, <<n>>)
Spread(v, from, shape, elem, at) == Row(v, "broadcast", <<from>>, shape, elem, at)
Constant(v, n, shape, elem) == <<Scalar(v, n, elem), Spread(v, v, shape, elem, <<>>)>>
Over2(c, v, of, shape) == Constant("n", c.count, shape, c.t) \o <<Row(v, "divide", <<of, "n">>, shape, c.t, <<>>)>>
\* The mean of `of`, at the reduced rank or where its axis is kept at one.
Meant(c, v, of, init) ==
  <<Row(v, "reduce", <<of>>, Lead(c), c.t, <<c.axis, init>>)>> \o
  (IF c.mean = "lifted" THEN Over2(c, v, v, Lead(c))
   ELSE <<Spread(v, v, Keep(c), c.t, Identity(Len(Lead(c))))>> \o Over2(c, v, v, Keep(c)))
Mid(c) == IF c.mean = "lifted" THEN Lead(c) ELSE Keep(c)
Lifted(c, v, elem) == Only(c.mean = "lifted", <<Row(v, "reshape", <<v>>, Keep(c), elem, <<>>)>>)
Inputs(c) == <<Row("x", "arg", <<>>, c.shape, c.xe, <<>>), Row("z", "arg", <<>>, c.shape, c.xe, <<>>),
               Row("w", "arg", <<>>, <<Last(c.shape)>>, c.we, <<>>), Row("b", "arg", <<>>, <<Last(c.shape)>>, c.we, <<>>)>>
Squared(c) ==
  <<Row("t", "convert", <<"x">>, c.shape, c.t, <<>>)>> \o
  (CASE c.square = "mul" -> <<Row("s", "multiply", <<"t", "t">>, c.shape, c.t, <<>>)>>
     [] c.square = "mixed" -> <<Row("s", "multiply", <<"t", "z">>, c.shape, c.t, <<>>)>>
     [] c.square = "other" -> <<Row("s", "multiply", <<"z", "z">>, c.shape, c.t, <<>>)>>
     [] c.square = "pow" -> Constant("two", 2, c.shape, c.t) \o <<Row("s", "power", <<"t", "two">>, c.shape, c.t, <<>>)>>
     [] c.square = "cube" -> Constant("two", 3, c.shape, c.t) \o <<Row("s", "power", <<"t", "two">>, c.shape, c.t, <<>>)>>
     [] c.square = "low" -> <<Row("s", "multiply", <<"x", "x">>, c.shape, c.xe, <<>>), Row("s", "convert", <<"s">>, c.shape, c.t, <<>>)>>)
\* max(0, E[x^2] - E[x]^2), and x less its mean.
Varied(c) ==
  Meant(c, "m", IF c.layer = "other" THEN "z" ELSE "t", 0) \o
  Only(c.layer = "twice", Meant(c, "m2", "z", 0)) \o
  <<Row("mm", "multiply", IF c.layer = "twice" THEN <<"m2", "m2">> ELSE <<"m", "m">>, Mid(c), c.t, <<>>),
    Row("v", "subtract", <<"v", "mm">>, Mid(c), c.t, <<>>)>> \o
  Constant("zero", 0, Mid(c), c.t) \o <<Row("v", "maximum", <<"v", "zero">>, Mid(c), c.t, <<>>)>> \o
  Lifted(c, "m", c.t) \o
  <<Spread("mb", "m", c.shape, c.t, Identity(Len(c.shape)))>>
Input(c) == IF c.ye = c.t THEN "t" ELSE "x"
Centred(c) ==
  CASE c.layer = "none" -> <<>>
    [] c.layer \in {"zero", "one"} -> Constant("c", IF c.layer = "zero" THEN 0 ELSE 1, c.shape, c.ye) \o
                                      <<Row("c", "subtract", <<Input(c), "c">>, c.shape, c.ye, <<>>)>>
    [] OTHER -> <<Row("c", "subtract", <<Input(c), "mb">>, c.shape, c.ye, <<>>)>>
Data(c) == IF c.layer = "none" THEN Input(c) ELSE "c"
IsLayer(c) == c.layer \in {"mean", "other", "twice"}
Scale(c) ==
  Meant(c, "v", "s", c.init) \o Only(IsLayer(c), Varied(c)) \o Lifted(c, "v", c.t) \o
  Only(c.ye # c.t, <<Row("v", "convert", <<"v">>, Keep(c), c.ye, <<>>)>>) \o
  Constant("eps", 1, Keep(c), c.ye) \o <<Row("v", "add", IF c.turned THEN <<"eps", "v">> ELSE <<"v", "eps">>, Keep(c), c.ye, <<>>)>> \o
  (IF c.root = "rsqrt" THEN <<Row("r", "rsqrt", <<"v">>, Keep(c), c.ye, <<>>)>>
   ELSE Constant("half", IF c.root = "power" THEN HalfRoot ELSE 2, Keep(c), c.ye) \o
        <<Row("r", "power", <<"v", "half">>, Keep(c), c.ye, <<>>)>>) \o
  <<Spread("r", "r", c.shape, c.ye, Identity(Len(c.shape)))>>
Pair(c, a, b) == IF c.turned THEN <<b, a>> ELSE <<a, b>>
\* The learned scale, up to the result's shape, or a vector for a dot.
N(c) == <<Last(c.shape)>>
AddOne(c, v, shape, elem) == Constant("u", 1, shape, elem) \o <<Row(v, "add", Pair(c, v, "u"), shape, elem, <<>>)>>
ToFull(c, elem) == <<Spread("w", "w", c.shape, elem, <<c.along>>)>>
Ones(c) == [i \in DOMAIN c.shape |-> IF i = Len(c.shape) THEN Last(c.shape) ELSE 1]
Cast(c, shape) == Only(c.we # c.re, <<Row("w", "convert", <<"w">>, shape, c.re, <<>>)>>)
Weighted(c) ==
  LET full == Only(c.form # "dot", ToFull(c, c.re))
  IN CASE c.weight = "plain" -> Cast(c, N(c)) \o full
       [] c.weight = "late" -> ToFull(c, c.we) \o Cast(c, c.shape)
       [] c.weight = "units" -> <<Row("w", "reshape", <<"w">>, Ones(c), c.we, <<>>)>> \o Cast(c, Ones(c)) \o
                                <<Spread("w", "w", c.shape, c.re, Identity(Len(c.shape)))>>
       [] c.weight = "plus" -> AddOne(c, "w", N(c), c.we) \o Cast(c, N(c)) \o full
       [] c.weight = "widePlus" -> Cast(c, N(c)) \o AddOne(c, "w", N(c), c.re) \o full
       [] c.weight = "twice" -> AddOne(c, "w", N(c), c.we) \o Cast(c, N(c)) \o full \o AddOne(c, "w", IF c.form = "dot" THEN N(c) ELSE c.shape, c.re)
       [] c.weight = "shared" -> AddOne(c, "w", N(c), c.we) \o <<Row("q", "convert", <<"w">>, N(c), "f32", <<>>)>> \o Cast(c, N(c)) \o full
       [] c.weight = "data" -> Cast(c, N(c)) \o full \o <<Row("w", "multiply", <<"w", "w">>, IF c.form = "dot" THEN N(c) ELSE c.shape, c.re, <<>>)>>
Product(c, v, a, b) == Row(v, "multiply", Pair(c, a, b), c.shape, c.re, <<>>)
Normal(c) == <<Row("y", "multiply", Pair(c, Data(c), "r"), c.shape, c.ye, <<>>)>> \o
             Only(c.re # c.ye, <<Row("y", "convert", <<"y">>, c.shape, c.re, <<>>)>>)
BackTo(c) == [k \in DOMAIN c.shape |-> IF k = Len(c.shape) THEN 1 ELSE k + 1]
Root(c) ==
  CASE c.form = "bare" -> Normal(c)
    [] c.form = "mul" -> Weighted(c) \o Normal(c) \o <<Product(c, "y", "y", "w")>>
    [] c.form = "first" -> Weighted(c) \o <<Product(c, "y", "w", "r"), Product(c, "y", "y", Data(c))>>
    [] c.form = "bias" -> Weighted(c) \o Normal(c) \o <<Product(c, "y", "y", "w")>> \o
                          <<Row("b", "convert", <<"b">>, N(c), c.re, <<>>), Spread("b", "b", c.shape, c.re, <<c.along>>),
                            Row("y", "add", Pair(c, "y", "b"), c.shape, c.re, <<>>)>>
    [] c.form = "dot" -> Weighted(c) \o Normal(c) \o
                         <<Row("y", "dot", <<"w", "y">>, <<Last(c.shape)>> \o Lead(c), c.re, <<Len(c.shape)>>),
                           Row("y", "transpose", <<"y">>, c.shape, c.re, IF c.root = "square" THEN Identity(Len(c.shape)) ELSE BackTo(c))>>
Spelling(c) ==
  Inputs(c) \o Squared(c) \o Scale(c) \o Centred(c) \o Root(c) \o
  Only(c.end # c.re, <<Row("y", "convert", <<"y">>, c.shape, c.end, <<>>)>>)

\* `t`: the mean square's type, `ye`: the normalized value's, `re`: where the
\* weight is applied, `end`: the result's.
Base == [shape |-> <<2, 2>>, xe |-> "bf16", we |-> "bf16", t |-> "f32", ye |-> "f32", re |-> "f32", end |-> "bf16",
         square |-> "mul", mean |-> "kept", count |-> 2, axis |-> 2, init |-> 0, layer |-> "none", root |-> "rsqrt",
         turned |-> FALSE, form |-> "mul", weight |-> "plain", along |-> 2]
On(c, shape) == [c EXCEPT !.shape = shape, !.axis = Len(shape), !.along = Len(shape)]
Ended(c) == IF c.form \in {"dot", "bias"} THEN [c EXCEPT !.end = c.re] ELSE c
Own(c) == IF c.form \in {"dot", "bias"} THEN [c EXCEPT !.we = "f32"] ELSE c
Shapes == {<<2, 2>>, <<1, 2, 2>>, <<2>>}
Forms == {"bare", "mul", "first", "bias", "dot"}
Spellings ==
  {On(Own([Base EXCEPT !.mean = m, !.form = f, !.layer = l, !.turned = t, !.square = q]), s) :
     m \in {"kept", "lifted"}, f \in Forms, l \in {"none", "mean"}, t \in BOOLEAN, q \in {"mul", "pow"}, s \in Shapes}
Types ==
  {c \in {[Base EXCEPT !.xe = x, !.we = w, !.ye = y, !.re = r, !.end = e, !.weight = a, !.form = f] :
     x \in {"bf16", "f32"}, w \in {"f16", "bf16", "f32"}, y \in {"bf16", "f32"}, r \in {"bf16", "f32"}, e \in {"bf16", "f32"},
     a \in {"plain", "widePlus", "plus"}, f \in {"bare", "mul", "dot"}} : c.ye \in {"f32", c.xe}}
Scales == {[Base EXCEPT !.weight = a, !.form = f, !.re = r, !.along = i, !.turned = t] : a \in
             {"plain", "late", "units", "plus", "widePlus", "twice", "shared", "data"}, f \in {"mul", "first"},
             r \in {"bf16", "f32"}, i \in 1 .. 2, t \in BOOLEAN}
Biases == {[Base EXCEPT !.layer = "mean", !.weight = a, !.form = "bias", !.we = e, !.re = r, !.along = i] : a \in {"plain", "late", "plus"},
             e \in {"bf16", "f32"}, r \in {"bf16", "f32"}, i \in 1 .. 2}
Missed ==
  UNION {{[Base EXCEPT !.layer = l, !.count = k, !.axis = i, !.mean = m],
          [Base EXCEPT !.layer = l, !.square = q, !.init = n, !.mean = m],
          [Base EXCEPT !.layer = l, !.root = r, !.form = f, !.mean = m]} :
            l \in {"none", "zero", "one", "mean", "other", "twice"}, k \in 1 .. 3, i \in 1 .. 2, q \in {"mul", "mixed", "other", "cube", "low"},
            n \in 0 .. 1, r \in {"power", "square"}, f \in {"bare", "dot", "bias"}, m \in {"kept", "lifted"}}
NormGraphs == {[kind |-> "norm", ops |-> Placed(Spelling(Ended(c)))] : c \in UNION {Spellings, Types, Scales, Biases, Missed}}
=============================================================================

----------------------------- MODULE MCLowering -----------------------------
(* The lowering's parts side by side: a behaviour takes a module through   *)
(* the tape, a block through the recognizers, a body through the KV        *)
(* rewrite or a graph into its fused op, and the others stay where they    *)
(* begin.                                                                  *)
EXTENDS Tape, MCRewritePlan, KvRewrite, MCFusedOps

(* Two alphabets for the passes, two for aliasing.                         *)
CONSTANT c1

MCArgs == 1 .. 2
MCConsts == {c1}
Module(kinds, ops, region, donated) ==
  [kinds |-> kinds, ops |-> ops, region |-> region, donated |-> donated]
MCPrograms ==
  {Module({"const", "iota", "add", "bcast"}, 3, TRUE, {}),
   Module({"iota", "add", "print", "barrier"}, 3, FALSE, {}),
   Module({"const", "ident", "view", "branch"}, 2, FALSE, {}),
   Module({"const", "ident", "view", "branch"}, 3, FALSE, {2})}
    \cup {Module({"const", "iota", "loop"}, 2, FALSE, d) : d \in {{}, {2}}}
MCMoves == {<<<<"carry", 1>>, <<"carry", 2>>>>, <<<<"carry", 2>>, <<"carry", 1>>>>,
            <<<<"cap", 0>>, <<"step", 2>>>>, <<<<"step", 1>>, <<"carry", 2>>>>}
MCBytes(o) == IF o = "add" THEN 2 ELSE 1

---------------------------------------------------------------------------
(* A cache of three rows of two, taken apart and put together again.  *)
CONSTANTS MaxUpdates, MaxReads

MCDims == <<3, 2>>
MCScalars == {"pos", "same"}
MCKeyOf == [s \in MCScalars |-> "pos"]
MCEnvs == {[s \in MCScalars |-> x] : x \in {-1, 3}}

TreeOps == {"slice", "reshape", "broadcast", "update", "concatenate"}
Count(b, names) == Cardinality({i \in DOMAIN b : b[i].name \in names})
ShapeIn(b, v) == IF v = 0 THEN MCDims ELSE b[v].shape
\* Each window written into goes on, whole, to the rebuilt carry.
Open(b) == {v \in DOMAIN b : /\ b[v].name \in TreeOps
                             /\ \A u \in DOMAIN b : b[u].name \in TreeOps => v \notin ToSet(b[u].in)}
\* The cache is cut into rows 0-1 and row 2, or into its two columns.
Cuts == {<<[start |-> <<0, 0>>, shape |-> <<2, 2>>], [start |-> <<2, 0>>, shape |-> <<1, 2>>]>>,
         <<[start |-> <<0, 0>>, shape |-> <<3, 1>>], [start |-> <<0, 1>>, shape |-> <<3, 1>>]>>}
SlicesOf(b) == {[name |-> "slice", in |-> <<0>>] @@ c[Len(b) + 1] :
                  c \in {c \in Cuts : \A i \in DOMAIN b : c[i].start = b[i].start /\ c[i].shape = b[i].shape}}
\* Columns may lose their unit dim; they get it back, by a reshape or by a
\* broadcast, before they are put together.
Squeezes(b) ==
  {[name |-> "reshape", in |-> <<v>>, shape |-> <<3>>] :
     v \in {v \in Open(b) : v = Len(b) - 1 /\ b[v].shape = <<3, 1>>}}
Expands(b) ==
  LET narrow == {v \in Open(b) : Len(b[v].shape) = 1}
      ways == {<<"reshape", <<3, 1>>>>, <<"reshape", <<1, 3>>>>, <<"broadcast", <<3, 1>>>>}
      last == Last(b)
  IN {[name |-> w[1], in |-> <<Min(narrow)>>, shape |-> w[2], dims |-> <<1>>] :
        w \in {w \in ways : /\ narrow # {}
                            /\ last.name \in {"reshape", "broadcast"} /\ Len(last.shape) = 2
                                 => w = <<last.name, last.shape>>}}
\* One row or all of it is written: where a row may go, a start is computed.
UpdatesOf(b, v) ==
  LET sh == b[v].shape
      starts(k, n) == IF n = sh[k] THEN {Const(0)}
                      ELSE {Const(1)} \cup {Scalar(t) : t \in MCScalars}
  IN {[name |-> "update", in |-> <<v>>, shape |-> sh, upd |-> [sh EXCEPT ![a] = n],
       starts |-> [k \in DOMAIN sh |-> IF k = a THEN s ELSE Const(0)]] :
        <<a, n, s>> \in {<<a, n, s>> \in (DOMAIN sh) \X (1 .. 2) \X ({Const(0), Const(1)} \cup {Scalar(t) : t \in MCScalars}) :
                           n <= sh[a] /\ b[v].shape # <<1, 2>> /\ (n = sh[a] => a = 1) /\ s \in starts(a, n)}}
Concats(b) ==
  LET fit(p, a) == \A k \in DOMAIN b[p[1]].shape \ {a} :
                     \A i \in DOMAIN p : Len(b[p[i]].shape) = 2 /\ b[p[i]].shape[k] = b[p[1]].shape[k]
      open == Open(b)
      seqs == IF Cardinality(open) = 1 THEN {<<CHOOSE v \in open : TRUE>>}
              ELSE {<<v, w>> : v \in open, w \in open}
      long(p, a) == IF Len(p) = 1 THEN b[p[1]].shape
                    ELSE [b[p[1]].shape EXCEPT ![a] = @ + b[p[2]].shape[a]]
  IN {[name |-> "concatenate", in |-> p, axis |-> a, shape |-> long(p, a)] :
        <<p, a>> \in {<<p, a>> \in seqs \X (1 .. 2) :
                        ToSet(p) = open /\ Len(b[p[1]].shape) = 2 /\ fit(p, a) /\ long(p, a) = MCDims}}
OuterReads(b) ==
  {[name |-> "read", in |-> <<v>>, shape |-> ShapeIn(b, v)] : v \in 0 .. Len(b)}
  \cup {[name |-> "view", in |-> <<v>>, shape |-> ShapeIn(b, v)] : v \in {u \in 0 .. Len(b) : Count(b, {"view"}) = 0}}
MCGrow(b) ==
  LET expanding == Last(b).name \in {"reshape", "broadcast"} /\ Len(Last(b).shape) = 2 IN
  IF Len(b) < 2 THEN SlicesOf(b)
  ELSE IF Last(b).name = "concatenate"
  THEN {[name |-> "return", in |-> <<Len(b)>>, shape |-> <<>>]}
         \cup {[name |-> "return", in |-> <<Len(b), v>>, shape |-> <<>>] : v \in {u \in DOMAIN b : b[u].name = "view"}}
  ELSE IF Len(b) = 3 /\ Squeezes(b) # {} /\ b[3].name = "reshape" THEN Squeezes(b)
  ELSE IF expanding /\ Expands(b) # {} THEN Expands(b)
  ELSE LET more == (IF Len(b) = 2 THEN Squeezes(b) ELSE {}) \cup Expands(b)
             \cup (IF Count(b, {"update"}) < MaxUpdates /\ ~ expanding THEN UNION {UpdatesOf(b, v) : v \in Open(b)} ELSE {})
             \cup (IF Count(b, {"read", "view"}) < MaxReads THEN OuterReads(b) ELSE {})
             \cup Concats(b)
       IN IF more # {} THEN more ELSE {[name |-> "return", in |-> <<0>>, shape |-> <<>>]}

\* Any value as large as the carry may be cut in two and written into, whether
\* or not all of it goes on.
SlabGrow(b) ==
  LET rows == CHOOSE c \in Cuts : c[1].shape = <<2, 2>>
      whole == {v \in 0 .. Len(b) : ShapeIn(b, v) = MCDims}
      part(i) == {v \in DOMAIN b : b[v].shape = rows[i].shape}
  IN IF Len(b) = 4 THEN {[name |-> "return", in |-> <<4>>, shape |-> MCDims]}
     ELSE {[name |-> "update", in |-> <<v>>, shape |-> MCDims, upd |-> <<1, 2>>,
            starts |-> <<Scalar("pos"), Const(0)>>] : v \in whole}
          \cup {[name |-> "slice", in |-> <<v>>] @@ rows[i] : <<v, i>> \in whole \X (1 .. 2)}
          \cup {[name |-> "concatenate", in |-> p, axis |-> 1, shape |-> MCDims] : p \in part(1) \X part(2)}

---------------------------------------------------------------------------
VARIABLE part
lowerVars == <<part, tapeVars, planVars, kvVars, graph>>
NoOps == CHOOSE p \in MCPrograms : TRUE
NoBlock == /\ block = [n |-> 0] /\ stage = "none" /\ plan = [k \in Kinds |-> {}]
           /\ skip = {} /\ roots = {} /\ declined = [k \in Kinds |-> {}]
LowerInit ==
  /\ part \in {"tape", "plan", "kv", "fused"}
  /\ TapeInit /\ (part # "tape" => chosen = NoOps)
  /\ IF part = "plan" THEN PlanInit ELSE NoBlock
  /\ KvInit /\ FusedInit
LowerNext ==
  /\ UNCHANGED part
  /\ \/ part = "tape" /\ TapeNext /\ UNCHANGED <<planVars, kvVars, graph>>
     \/ part = "plan" /\ PlanNext /\ UNCHANGED <<tapeVars, kvVars, graph>>
     \/ part = "kv" /\ KvNext /\ UNCHANGED <<tapeVars, planVars, graph>>
     \/ part = "fused" /\ FusedNext /\ UNCHANGED <<tapeVars, planVars, kvVars>>
KvAlone == LowerInit /\ part = "kv" /\ [][LowerNext]_lowerVars
LowerSpec == LowerInit /\ [][LowerNext]_lowerVars
=============================================================================

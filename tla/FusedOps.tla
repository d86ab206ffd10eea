------------------------------ MODULE FusedOps ------------------------------
(***************************************************************************)
(* What the recognizers promise: the fused op that takes the place of a    *)
(* spelled-out graph computes what the graph does. RewritePlan follows     *)
(* which match wins and what is absorbed; here each recognizer meets the   *)
(* graphs it may be shown, one at a time, the matched chain against the op *)
(* that runs instead.                                                      *)
(***************************************************************************)
EXTENDS Integers

CONSTANTS Graphs,    \* the graphs shown, each a record of a kind
          WeightMin  \* see Stacked

Rg == INSTANCE Ragged
Sk == INSTANCE Stacked
Sd == INSTANCE Sdpa
No == INSTANCE Norm
Mo == INSTANCE Moe

VARIABLE graph
FusedInit == graph = [kind |-> "none"]
\* A root of the block is put to its recognizer.
Show == graph.kind = "none" /\ graph' \in Graphs
Shown == graph.kind # "none" /\ UNCHANGED graph
FusedNext == Show \/ Shown

(* No graph that differs from what a kernel computes is taken for it: the  *)
(* fused op gives what the matched chain gives, element for element, on    *)
(* every graph its recognizer accepts, jax's spelling or one close to it.  *)
FusedMeansItsChain ==
  CASE graph.kind = "none" -> TRUE
    [] graph.kind = "ragged" -> Rg!RaggedIsExact(graph)
    [] graph.kind = "stacked" -> Sk!StackedIsExact(graph)
    [] graph.kind = "stacked pack" -> Sk!PackIsExact(graph.a, graph.b)
    [] graph.kind = "sdpa" -> Sd!SdpaIsExact(graph)
    [] graph.kind = "norm" -> No!NormIsExact(graph)
    [] graph.kind = "moe" -> Mo!MoeIsExact(graph)
=============================================================================

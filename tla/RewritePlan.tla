----------------------------- MODULE RewritePlan -----------------------------
(***************************************************************************)
(* The recognizers and the plan they share (metal_lowering.cc              *)
(* LowerModuleFused): each looks for its own pattern in a block of ops and *)
(* claims a root, which will run a fused call, and the ops only that root  *)
(* needs, which will not run at all.  Then the weights are packed, what    *)
(* cannot be packed is given back, and the block is lowered.               *)
(*                                                                         *)
(* Ops are numbered in block order; an op has one result.  What a          *)
(* recognizer's pattern finds is an input: a candidate, with               *)
(*   root, ops   the op it replaces, those it computes itself              *)
(*   reads       the values its fused call reads                           *)
(*   whole       the ops without which it is not worth having              *)
(*   plain       what it reads if it may not have `whole`                  *)
(*   bound       ops of its own whose result its fused call also binds     *)
(*   key         which sibling dots it may be packed with (0: none)        *)
(*   packs       its weight is laid out anew at the first execute          *)
(*   over        the quantized matmuls it takes over                       *)
(*   members     the matches it was made of                                *)
(***************************************************************************)
EXTENDS Naturals, Sequences, FiniteSets, FiniteSetsExt, SequencesExt

CONSTANTS Blocks  \* [n, reads, ret, const, found]: a block of n ops, the
                  \* values each op and the return read, the constants among
                  \* them, and what every recognizer's pattern finds

Kinds == {"qmm", "moe", "sdpa", "ragged", "stacked", "pack", "proj", "mla",
          "gdn", "norm", "rope"}
Stages == <<"qmm", "moe", "sdpa", "ragged", "stacked", "proj", "mla", "gdn",
            "norm", "rope", "analyzed">>
FoundIn(b, kind) == IF kind \in DOMAIN b.found THEN b.found[kind] ELSE {}
AboveIn(b, o) ==
  LET up[k \in 1 .. b.n] == {k} \cup UNION {up[r] : r \in b.reads[k]} IN up[o]
RootsOf(M) == {m.root : m \in M}
OpsOf(M) == UNION {m.ops : m \in M}
ReadsOf(M) == UNION {m.reads : m \in M}

---------------------------------------------------------------------------
(* What the matchers make sure of.                                         *)

\* Values are used after they are made.
UsesFormed(b) ==
  /\ b.n \in Nat /\ b.reads \in [1 .. b.n -> SUBSET (1 .. b.n)]
  /\ \A u \in 1 .. b.n : b.reads[u] \subseteq 1 .. u - 1
  /\ b.ret \subseteq 1 .. b.n
  /\ \A u \in b.const : u \in 1 .. b.n /\ b.reads[u] = {}

\* A match is a tree below its root, and its call reads what is not in it.
MatchOf(b) ==
  LET S == SUBSET (1 .. b.n)
  IN [root : 1 .. b.n, ops : S, reads : S, whole : S, plain : S, bound : S,
      key : Nat, packs : BOOLEAN, over : S, members : {{}}]
Tree(b, m) ==
  /\ m \in MatchOf(b) /\ m.ops \subseteq 1 .. m.root - 1 /\ m.whole \subseteq m.ops
  /\ m.reads \subseteq (1 .. m.root - 1) \ m.ops
  /\ \A o \in m.ops : \E u \in m.ops \cup {m.root} : o \in b.reads[u]
MatchesFormed(b) ==
  \A k \in Kinds :
    /\ IsFiniteSet(FoundIn(b, k))
    /\ \A m \in FoundIn(b, k) : Tree(b, m)
    /\ \A m, j \in FoundIn(b, k) : m.root = j.root => m = j

\* What a call reads is read in its tree, by an op it will not do without;
\* an expert dispatch reads besides what the matmuls it takes over read.
Core(k, m) == IF k \in {"qmm", "stacked"} THEN m.whole ELSE m.ops
ReadsAreOfTrees(b) ==
  /\ \A k \in Kinds \ {"moe"} : \A m \in FoundIn(b, k) : \A v \in m.reads \cup m.plain :
       \E u \in (Core(k, m) \ b.const) \cup {m.root} : v \in b.reads[u]
  /\ \A m \in FoundIn(b, "moe") : \A v \in m.reads :
       \/ \E u \in (m.ops \cup {m.root}) \ m.over : v \in b.reads[u]
       \/ \E q \in FoundIn(b, "qmm") : q.root \in m.over /\ v \in q.reads
\* And where trees are claimed jointly, what is read in one is in it or read
\* by its call ...
TreesAreWhole(b) ==
  \A k \in {"qmm", "stacked", "mla", "gdn", "norm"} : \A m \in FoundIn(b, k) :
    \A u \in m.ops \cup {m.root} : b.reads[u] \subseteq m.ops \cup m.reads
\* ... and no call reads what another computes for itself, or it reads an
\* earlier one's second result.
TreesAreApart(b) ==
  \A k \in {"qmm", "sdpa", "stacked", "mla", "gdn", "norm"} : \A m, j \in FoundIn(b, k) :
    \A v \in m.reads \cap j.ops : v \in j.bound /\ j.root < m.root

\* Dots read each other through other ops; a projection absorbs nothing.
DotsFormed(b) ==
  /\ \A k \in {"ragged", "stacked"} : RootsOf(FoundIn(b, k)) \cap OpsOf(FoundIn(b, k)) = {}
  /\ OpsOf(FoundIn(b, "proj")) = {}
\* Second results: a delta step's state is one of its ops; the rows of a
\* ragged dot come after it and are nobody's root.
BoundFormed(b) ==
  /\ \A k \in Kinds \ {"gdn", "ragged"} : \A m \in FoundIn(b, k) : m.bound = {}
  /\ \A m \in FoundIn(b, "gdn") : m.bound \subseteq m.ops \ b.const
  /\ \A m \in FoundIn(b, "ragged") :
       /\ m.bound \subseteq m.root + 1 .. b.n
       /\ m.bound \cap (RootsOf(FoundIn(b, "ragged")) \cup OpsOf(FoundIn(b, "ragged"))) = {}
\* A ragged dot does without one op at most, the slice of its weights; its
\* masks and slices are no pattern of another recognizer.
RaggedFormed(b) ==
  /\ \A m \in FoundIn(b, "ragged") :
       m.plain \subseteq m.reads \cup m.whole /\ \A w, x \in m.whole : w = x
  /\ \A k \in Kinds \ {"ragged"} : \A m \in FoundIn(b, k) :
       ({m.root} \cup m.bound) \cap OpsOf(FoundIn(b, "ragged")) = {}
\* An expert dispatch is not in a quantized matmul, nor has it any of the ops
\* of one; an attention is not in it, and reaches it through what its call
\* reads.
DispatchesFormed(b) ==
  \A m \in FoundIn(b, "moe") :
    /\ m.root \notin RootsOf(FoundIn(b, "qmm"))
    /\ ({m.root} \cup m.ops) \cap OpsOf(FoundIn(b, "qmm")) = {}
    /\ \A c \in FoundIn(b, "sdpa") :
         /\ m.root \notin c.ops /\ c.root \notin {m.root} \cup m.ops
         /\ c.root \in AboveIn(b, m.root) => \E r \in m.reads : c.root \in AboveIn(b, r)

BlockFormed(b) ==
  /\ UsesFormed(b) /\ MatchesFormed(b)
  /\ ReadsAreOfTrees(b) /\ TreesAreWhole(b) /\ TreesAreApart(b)
  /\ DotsFormed(b) /\ BoundFormed(b) /\ RaggedFormed(b) /\ DispatchesFormed(b)
ASSUME RewritePlanAssumption == \A b \in Blocks : BlockFormed(b)

---------------------------------------------------------------------------
VARIABLES
  block,
  stage,    \* the recognizer or the builder at work
  plan,     \* the matches of each recognizer
  skip,     \* RewritePlan::skip
  roots,    \* the root maps: [kind, root] records
  declined  \* the matches of each recognizer given up after they were kept

planVars == <<block, stage, plan, skip, roots, declined>>

Found(kind) == FoundIn(block, kind)
\* A recognizer that finds nothing returns at once.
After(s) ==
  LET busy(t) == t = "analyzed" \/ Found(t) # {}
      place == CHOOSE k \in DOMAIN Stages : Stages[k] = s
  IN Stages[Min({k \in DOMAIN Stages : k > place /\ busy(Stages[k])})]

Ops == 1 .. block.n
TheReturn == 0
\* Who reads op `o`; the return has no results, and never is a member.
Users(o) == {u \in Ops : o \in block.reads[u]} \cup (IF o \in block.ret THEN {TheReturn} ELSE {})

\* The use-count discipline: the most of `S` that nothing but `S` itself and
\* the roots `R` reads.
Closed(S, R) == UNION {T \in SUBSET S : \A o \in T : Users(o) \subseteq T \cup R}

\* The largest set of candidates that meet a condition on each other.
Largest(M, OK(_, _)) == UNION {L \in SUBSET M : \A m \in L : OK(m, L)}

\* First come, first served, in block order: of those that want what one before
\* them holds, none stays.
Before(M, m) == {k \in M : k.root < m.root}
Own(m) == {m.root} \cup m.ops
Served(M, wants, holds) ==
  LET kept[k \in 0 .. block.n] ==
        IF k = 0 THEN {}
        ELSE kept[k - 1] \cup
               {m \in M : m.root = k /\ wants[m] \cap UNION {holds[j] : j \in kept[k - 1]} = {}}
  IN kept[block.n]
Disjoint(M) == Served(M, [m \in M |-> Own(m)], [m \in M |-> Own(m)])

\* What the matches so far own.
Matches == UNION {plan[k] : k \in Kinds}
Taken == RootsOf(Matches) \cup OpsOf(Matches)
Free(m) == Own(m) \cap Taken = {}
Literal == block.const  \* constants stay shared

---------------------------------------------------------------------------
\* Prune: joint, and again without those that lost their weight, until none
\* does.
Pruned(M, shared) ==
  LET own(L) == Closed(OpsOf(L) \ shared, RootsOf(L))
      live == Largest(M, LAMBDA m, L : m.whole \subseteq own(L))
  IN {[m EXCEPT !.ops = @ \cap own(live)] : m \in live}
\* AnalyzeQmm: a candidate inside another's weight is part of that weight.
Qmm == Pruned({m \in Found("qmm") : m.root \notin OpsOf(Found("qmm"))}, {})

\* DeadSweep: what only the region and its root read goes too, unless the
\* call that replaces them needs it.
Swept(m) ==
  LET needed == UNION {AboveIn(block, r) : r \in m.reads}
      more(S) == {o \in UNION {block.reads[u] : u \in S \cup {m.root}} :
                    /\ o \notin S \cup needed \cup {m.root}
                    /\ Users(o) # {} /\ Users(o) \subseteq S \cup {m.root}}
      sweep[k \in 0 .. block.n] ==
        IF k = 0 THEN m.ops ELSE sweep[k - 1] \cup more(sweep[k - 1])
  IN [m EXCEPT !.ops = sweep[block.n]]

\* AnalyzeMoe: the region may be read by itself and its root alone, and may
\* hold nothing the call reads.
Moe ==
  LET fits == {m \in Found("moe") : m.over = m.ops \cap RootsOf(plan["qmm"]) /\ Closed(m.ops, {m.root}) = m.ops /\ m.reads \cap m.ops = {}}
  IN Disjoint({Swept(m) : m \in fits})

\* Exclusive: no absorbed op is read from outside the attentions that stay.
Exclusive(M) ==
  Largest(M, LAMBDA m, L : \A o \in m.ops : Users(o) \subseteq OpsOf(L) \cup RootsOf(L))

\* AnalyzeSdpa looks at the quantized matmuls alone.
Sdpa ==
  LET claimed == RootsOf(plan["qmm"]) \cup OpsOf(plan["qmm"])
      cands == {m \in Found("sdpa") : Own(m) \cap claimed = {}}
  IN Exclusive({m \in cands : m.root \notin OpsOf(cands)})

\* (mutant) what another's call reads is absorbed like anything else.
RaggedUnseeded(M) == Closed(OpsOf(M) \ Literal, RootsOf(M))
\* What may be absorbed of ragged dispatches: never what one's call reads.
RaggedOwn(M) == Closed((OpsOf(M) \ Literal) \ ReadsOf(M), RootsOf(M))

\* AnalyzeRagged.  The readers of its root a call binds are its own unless
\* one is taken; a match that may not have its weights' slice reads it.
Ragged ==
  LET kept == {IF m.bound \cap Taken = {} THEN m ELSE [m EXCEPT !.bound = {}] :
                 m \in {c \in Found("ragged") : Free(c)}}
      own == RaggedOwn(kept)
  IN {[m EXCEPT !.ops = (@ \cap own) \cup m.bound,
                !.reads = IF m.whole \subseteq own THEN @ ELSE m.plain] : m \in kept}

\* AnalyzeStackedDotImpl does as Prune.
Stacked == Pruned({m \in Found("stacked") : Free(m)}, Literal)

\* Siblings over one activation become one: the first is the root, the
\* others are absorbed and bound by its call.
Packed(G) ==
  LET first == CHOOSE m \in G : Before(G, m) = {}
      others == RootsOf(G) \ {first.root}
  IN [first EXCEPT !.ops = OpsOf(G) \cup others, !.bound = others,
                   !.members = G]
\* GroupStackedPacks and AnalyzeProjPack: of three or more, the widest may be
\* left alone.
Groups(M) ==
  LET all == {{m \in M : m.key = k} : k \in {m.key : m \in M} \ {0}}
      ok(G, H) == G = H \/ (Cardinality(H) >= 3 /\ Cardinality(G) = Cardinality(H) - 1)
  IN {C \in SUBSET (SUBSET M) :
        /\ \A G \in C : Cardinality(G) >= 2 /\ \E H \in all : G \subseteq H /\ ok(G, H)
        /\ \A H \in all : Cardinality(H) >= 2 => Cardinality({G \in C : G \subseteq H}) = 1}
Proj == {m \in Found("proj") : m.root \notin Taken}

\* (mutant) wherever the new state is read.
AnyStep(m) == TRUE
\* AnalyzeGdn: the call at the root binds the new state as well, which must
\* have been computed before it and be read after it.
StepOrdered(m) ==
  \A s \in m.bound : s < m.root /\ \A u \in Users(s) \ m.ops : u = TheReturn \/ u >= m.root

\* AnalyzeMla and AnalyzeGdn: all of the match, or nothing.  Those that come
\* to nothing still count among the readers of what the others absorb.
ChainsKept(M) ==
  Served(M, [m \in M |-> Own(m) \cup m.bound], [m \in M |-> {m.root} \cup m.bound])
ChainsOwn(kept) ==
  LET bound == UNION {m.bound : m \in kept}
  IN Closed((OpsOf(kept) \ Literal) \ bound, RootsOf(kept) \cup bound)
Complete(kept) == {m \in kept : (m.ops \ Literal) \ m.bound \subseteq ChainsOwn(kept)}
WithoutLiteral(M) == {[m EXCEPT !.ops = @ \ Literal] : m \in M}

\* AnalyzeNorm: the largest first, no op twice.
Norms(M) ==
  LET ahead(m) == {k \in M : \/ Cardinality(k.ops) > Cardinality(m.ops)
                             \/ Cardinality(k.ops) = Cardinality(m.ops) /\ k.root < m.root}
      own(m) == {m.root} \cup (m.ops \ Literal)
      kept[k \in 0 .. Cardinality(M)] ==
        IF k = 0 THEN {}
        ELSE kept[k - 1] \cup {m \in M : /\ Cardinality(ahead(m)) = k - 1
                                         /\ own(m) \cap UNION {own(j) : j \in kept[k - 1]} = {}}
      all == kept[Cardinality(M)]
      inside == Closed(OpsOf(all) \ Literal, RootsOf(all))
  IN WithoutLiteral({m \in all : m.ops \ Literal \subseteq inside})

\* AnalyzeRope: read by nothing else, nothing taken, and no read of an absorbed
\* op that no call binds.
Rope ==
  LET unbound == OpsOf(Matches) \ UNION {m.bound : m \in plan["proj"]}
      fits == {m \in Found("rope") : Closed(m.ops, {m.root}) = m.ops}
  IN Disjoint({m \in fits : Free(m) /\ m.reads \cap unbound = {}})

---------------------------------------------------------------------------
\* A quantized matmul an expert dispatch took over is packed, and not emitted.
TakenOver(p) == {q \in p["qmm"] : \E m \in p["moe"] : q.root \in m.over}
Emitted(p, kind) == IF kind = "qmm" THEN p[kind] \ TakenOver(p) ELSE p[kind]

\* RewritePlan::rebuild: every map but the stacked packs' begins anew.
Rebuild(p) ==
  /\ skip' = OpsOf(UNION {p[k] : k \in Kinds})
  /\ roots' = {r \in roots : r.kind = "pack"}
                \cup UNION {{[kind |-> k, root |-> m.root] : m \in Emitted(p, k)} : k \in Kinds}

PlanInit ==
  /\ block \in Blocks
  /\ stage = "qmm" /\ plan = [k \in Kinds |-> {}]
  /\ skip = {} /\ roots = {} /\ declined = [k \in Kinds |-> {}]

\* One recognizer after the other claims what it may.
Analyze(kind, M) ==
  /\ stage = kind /\ stage' = After(kind)
  /\ plan' = [plan EXCEPT ![kind] = M]
  /\ UNCHANGED <<block, declined>>
AnalyzeQmm == Analyze("qmm", Qmm) /\ Rebuild(plan')
AnalyzeMoe == Analyze("moe", Moe) /\ Rebuild(plan')
AnalyzeSdpa == Analyze("sdpa", Sdpa) /\ UNCHANGED <<skip, roots>>
AnalyzeRagged == Analyze("ragged", Ragged) /\ UNCHANGED <<skip, roots>>
AnalyzeStackedDot ==
  /\ stage = "stacked" /\ stage' = After("stacked")
  /\ \E C \in Groups({m \in Stacked : ~ m.packs}) :
       plan' = [plan EXCEPT !["stacked"] = Stacked \ UNION C,
                            !["pack"] = {Packed(G) : G \in C}]
  /\ UNCHANGED <<block, skip, roots, declined>>
AnalyzeProjPack ==
  \E C \in Groups(Proj) : \E worth \in SUBSET C :
    Analyze("proj", {Packed(G) : G \in worth}) /\ UNCHANGED <<skip, roots>>
AnalyzeChains(kind, kept) ==
  /\ stage = kind /\ stage' = After(kind)
  /\ plan' = [plan EXCEPT ![kind] = WithoutLiteral(Complete(kept))]
  /\ declined' = [declined EXCEPT ![kind] = kept \ Complete(kept)]
  /\ UNCHANGED <<block, skip, roots>>
AnalyzeMla == AnalyzeChains("mla", ChainsKept({m \in Found("mla") : Free(m)}))
AnalyzeGdn == AnalyzeChains("gdn", ChainsKept({m \in Found("gdn") : Free(m) /\ StepOrdered(m)}))
AnalyzeNorm ==
  /\ Analyze("norm", Norms({m \in Found("norm") :
                              ({m.root} \cup (m.ops \ Literal)) \cap Taken = {}}))
  /\ UNCHANGED <<skip, roots>>
AnalyzeRope == Analyze("rope", Rope) /\ UNCHANGED <<skip, roots>>
Analyzed ==
  /\ stage = "analyzed" /\ Rebuild(plan)
  /\ stage' = IF Matches = {} THEN "plain" ELSE "buildQmm"
  /\ UNCHANGED <<block, plan, declined>>

\* BuildQmmPacks: any weight may turn out not to be what it looked like.
BuildQmmPacks ==
  /\ stage = "buildQmm" /\ stage' = "buildStacked"
  /\ \E D \in SUBSET plan["qmm"] :
       /\ plan' = [plan EXCEPT !["qmm"] = @ \ D]
       /\ declined' = [declined EXCEPT !["qmm"] = @ \cup D]
  /\ Rebuild(plan')
  /\ UNCHANGED block

\* BuildStackedPacks: a relayout that cannot be had is dropped, a pack gives
\* its members back.
BuildStackedPacks ==
  /\ stage = "buildStacked" /\ stage' = "buildProj"
  /\ \E D \in SUBSET {m \in plan["stacked"] : m.packs} : \E E \in SUBSET plan["pack"] :
       /\ plan' = [plan EXCEPT !["stacked"] = (@ \ D) \cup UNION {m.members : m \in E},
                               !["pack"] = @ \ E]
       /\ declined' = [declined EXCEPT !["stacked"] = @ \cup D]
       /\ IF D \cup E # {} THEN Rebuild(plan') ELSE UNCHANGED <<skip, roots>>
  /\ UNCHANGED block

\* BuildProjPacks: one that is over the budget, or fails, is dropped.
BuildProjPacks ==
  /\ stage = "buildProj" /\ stage' = "verify"
  /\ \E D \in SUBSET plan["proj"] :
       /\ plan' = [plan EXCEPT !["proj"] = @ \ D]
       /\ declined' = [declined EXCEPT !["proj"] = @ \cup D]
       /\ IF D # {} THEN Rebuild(plan') ELSE UNCHANGED <<skip, roots>>
  /\ UNCHANGED block

\* VerifyMoe: a dispatch goes with a weight of its own, or fails its check.
VerifyMoe ==
  /\ stage = "verify" /\ stage' = "lower"
  /\ \E D \in SUBSET plan["moe"] :
       LET gone == D \cup {m \in plan["moe"] : \E q \in declined["qmm"] : q.root \in m.over}
       IN /\ plan' = [plan EXCEPT !["moe"] = @ \ gone]
          /\ declined' = [declined EXCEPT !["moe"] = @ \cup gone]
          /\ IF gone # {} THEN Rebuild(plan') ELSE UNCHANGED <<skip, roots>>
  /\ UNCHANGED block

Planned == stage \in {"plain", "lower"} /\ UNCHANGED planVars

PlanNext == \/ AnalyzeQmm \/ AnalyzeMoe \/ AnalyzeSdpa \/ AnalyzeRagged
            \/ AnalyzeStackedDot \/ AnalyzeProjPack \/ AnalyzeMla \/ AnalyzeGdn
            \/ AnalyzeNorm \/ AnalyzeRope \/ Analyzed \/ BuildQmmPacks
            \/ BuildStackedPacks \/ BuildProjPacks \/ VerifyMoe \/ Planned
PlanSpec == PlanInit /\ [][PlanNext]_planVars

---------------------------------------------------------------------------
\* LowerOpImpl: an absorbed op is passed over, a root runs its call.
Calls == {m \in Matches : m.root \notin skip /\ \E r \in roots : r.root = m.root}
Reads(o) ==
  LET m == {c \in Calls : c.root = o}
  IN IF m = {} THEN block.reads[o] ELSE ReadsOf(m)
\* Where a value gets its slot.
BoundAt(v) == ({v} \ skip) \cup {m.root : m \in {c \in Calls : v \in c.bound}}
Lowers ==
  /\ \A o \in Ops \ skip : \A v \in Reads(o) : \E at \in BoundAt(v) : at < o
  /\ \A v \in block.ret : BoundAt(v) # {}

---------------------------------------------------------------------------
(* Properties. *)

\* Two recognizers never own one op, but for an expert dispatch and the
\* quantized matmuls inside it, and the two kinds of stacked dots.
Owned(p, k) == RootsOf(p[k]) \cup OpsOf(p[k])
OneOwner ==
  \A j, k \in Kinds : j # k /\ Owned(plan, j) \cap Owned(plan, k) # {} =>
    {j, k} \in {{"qmm", "moe"}, {"stacked", "pack"}}

\* What a recognizer gave up shares no absorbed op with what stays of it: a
\* shared one would stay absorbed.
Family(k) == IF k \in {"stacked", "pack"} THEN {"stacked", "pack"} ELSE {k}
Unshared ==
  \A k \in Kinds : OpsOf(declined[k]) \cap UNION {OpsOf(plan[j]) : j \in Family(k)} = {}

\* Whatever is claimed, packed, declined and given back, what is left can be
\* lowered: every value an op or a fused call reads has its slot by then,
\* and so has every result (else the whole fused tape is lost); and no op is
\* run in two ways.
PlanLowers == stage = "lower" /\ Unshared => Lowers /\ OneOwner

\* "Recompute `skip` and the root maps from the matches that are still live"
\* (metal_recognize.h): a root map names no match that is gone.
RootsAreLive == \A r \in roots : \E m \in plan[r.kind] : m.root = r.root
=============================================================================

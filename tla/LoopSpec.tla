------------------------------ MODULE LoopSpec ------------------------------
(***************************************************************************)
(* A counted loop's body compiled once per chunk, for the positions it     *)
(* runs at: the start indices of its slices and updates that depend on the *)
(* counter only are computed beforehand and become static windows.         *)
(*                                                                         *)
(* Sources: runtime/control.cc (loop_spec, run_chunked), compile.cc        *)
(* (compiled_spec, prove_spec, drop_spec, SpecScope), ops_shape.cc (the    *)
(* dynamic slice and update), metal_lowering.cc (AppendStartPlan).         *)
(*                                                                         *)
(* A body's slots are its inputs, one of them the counter, then one for    *)
(* each entry's result; a start index is one number.  An entry is a small  *)
(* integer op ("const", "add", "narrow"), a slice or an update ("window"), *)
(* or anything else ("other").  The body is one loop's, so its counter     *)
(* slot never changes.                                                     *)
(***************************************************************************)
EXTENDS Integers, Sequences, FiniteSets

CONSTANTS
  LoopBodies,    \* [inputs, counter, integer, fixed, ops, maxRepeat]
  LoopCalls,     \* [start, trip, k]: loops it is run as, k iterations a chunk
  Int32Half,     \* half as many as a start index has values
  SpecCacheMax, SpecMinFolds, SpecFoldBytes,
  SpecMax,       \* METALJAX_LOOP_SPECIALIZE_MAX
  SlotValues     \* what an input may hold

\* An entry reads what is computed before it; a window starts on each axis at
\* the value of a slot; `fixed` are the inputs that are constants outside.
EntryOf(b, s) == b.ops[s - b.inputs]
SlotsOf(b) == 1 .. b.inputs + Len(b.ops)
SpecEntries ==
  [op : {"const", "add", "narrow", "window", "other"}, ins : Seq(Nat), val : Int,
   bytes : Nat, index : BOOLEAN, bounds : Seq(Nat)]
WellFormed(b) ==
  /\ b.inputs \in Nat /\ b.counter \in 1 .. b.inputs
  /\ b.ops \in Seq(SpecEntries)
  /\ \A s \in b.inputs + 1 .. b.inputs + Len(b.ops) :
       LET e == EntryOf(b, s) IN
       /\ \A j \in DOMAIN e.ins : e.ins[j] \in 1 .. s - 1
       /\ e.op = "add" => Len(e.ins) = 2
       /\ e.op = "narrow" => Len(e.ins) = 1
       /\ e.op = "window" => Len(e.ins) = Len(e.bounds) /\ e.bounds # <<>>
  /\ DOMAIN b.fixed \subseteq 1 .. b.inputs \ {b.counter}
  /\ \A s \in DOMAIN b.fixed : b.fixed[s] \in Int

ASSUME LoopSpecAssumption ==
  /\ \A b \in LoopBodies : WellFormed(b)
  /\ \A c \in LoopCalls : c.start \in Int /\ c.trip \in Nat /\ c.k \in 2 .. c.trip
  /\ Int32Half \in Nat \ {0} /\ SlotValues \subseteq Int

VARIABLES
  body,
  verdict,     \* spec_state_: "undecided", "on", "declined"
  noCompile, noChunk,  \* compile_disabled_, no_chunk_
  tables,      \* spec_cache_: position -> start table
  graphs,      \* spec_compiled_: <<iterations, first position>> -> the tables it holds
  call,        \* the run_chunked in progress
  lastRun      \* the last chunk run: its first position and the tables it was traced with

specVars == <<body, verdict, noCompile, noChunk, tables, graphs, call, lastRun>>

NoCall == [pc |-> "none"]
NoRun == [pos |-> 0, tables |-> <<>>]
None == <<>>

---------------------------------------------------------------------------
(* Values.  An index is narrowed to 32 bits, then clamped. *)
Int32(v) == ((v + Int32Half) % (2 * Int32Half)) - Int32Half
ClipTo(v, bound) == IF v < 0 THEN 0 ELSE IF v > bound THEN bound ELSE v

Foldable(e) == e.op \in {"const", "add", "narrow"}
Computed(e, args) ==
  IF e.op = "const" THEN e.val ELSE IF e.op = "add" THEN args[1] + args[2] ELSE Int32(args[1])

\* What the body's slots hold, given its inputs and what the entries that are
\* not index arithmetic happen to compute.
ValuesOf(b, env) ==
  LET val[s \in SlotsOf(b)] ==
        IF s <= b.inputs \/ ~ Foldable(EntryOf(b, s)) THEN env[s]
        ELSE Computed(EntryOf(b, s), [j \in DOMAIN EntryOf(b, s).ins |-> val[EntryOf(b, s).ins[j]]])
  IN val

(* Starts.  What the window means: a start on every axis, clamped. *)
ClampedStarts(e, val) == [i \in DOMAIN e.bounds |-> ClipTo(Int32(val[e.ins[i]]), e.bounds[i])]

\* SplatInt of the op behind a start, when it is a constant.
KnownConstant(b, s) ==
  IF s > b.inputs THEN IF EntryOf(b, s).op = "const" THEN <<EntryOf(b, s).val>> ELSE None
  ELSE IF s \in DOMAIN b.fixed THEN <<b.fixed[s]>> ELSE None

\* The axes that get a start, and the starts that are known when lowering.
AppendStartPlan(b, e) ==
  LET at == [i \in DOMAIN e.bounds |->
               LET c == KnownConstant(b, e.ins[i])
               IN IF c = None THEN None ELSE <<ClipTo(Int32(c[1]), e.bounds[i])>>]
      needed == {i \in DOMAIN e.bounds : at[i] # <<0>>}
  IN [i \in IF needed = {} THEN {1} ELSE needed |-> at[i]]

\* The handler's: an axis without a start starts at zero.
DynamicStarts(b, e, val) ==
  LET plan == AppendStartPlan(b, e)
  IN [i \in DOMAIN e.bounds |->
        IF i \notin DOMAIN plan THEN 0
        ELSE IF plan[i] # None THEN plan[i][1] ELSE ClipTo(Int32(val[e.ins[i]]), e.bounds[i])]

---------------------------------------------------------------------------
(* loop_spec: what is static at a position, `fails` being the entries whose *)
(* step throws, and the starts of the windows that are.                     *)

\* (mutant) every small integer input is taken for the counter.
StaticAtInputs(b, pos, fails) ==
  LET st[s \in SlotsOf(b)] ==
        IF s <= b.inputs THEN <<pos>>
        ELSE LET e == EntryOf(b, s) IN
             IF /\ Foldable(e) /\ e.bytes <= SpecFoldBytes /\ e.index /\ s \notin fails
                /\ \A j \in DOMAIN e.ins : st[e.ins[j]] # None
             THEN <<Computed(e, [j \in DOMAIN e.ins |-> st[e.ins[j]][1]])>> ELSE None
  IN st
StaticAt(b, pos, fails) ==
  LET st[s \in SlotsOf(b)] ==
        IF s <= b.inputs THEN IF s = b.counter THEN <<pos>> ELSE None
        ELSE LET e == EntryOf(b, s) IN
             IF /\ Foldable(e) /\ e.bytes <= SpecFoldBytes /\ e.index /\ s \notin fails
                /\ \A j \in DOMAIN e.ins : st[e.ins[j]] # None
             THEN <<Computed(e, [j \in DOMAIN e.ins |-> st[e.ins[j]][1]])>> ELSE None
  IN st

Windows(b) == {s \in b.inputs + 1 .. b.inputs + Len(b.ops) : EntryOf(b, s).op = "window"}
\* (mutant) a start is folded as it is spelled, not as it is clamped.
StartTableUnclamped(b, pos, fails) ==
  LET st == StaticAt(b, pos, fails)
      plan == [s \in Windows(b) |-> AppendStartPlan(b, EntryOf(b, s))]
  IN [s \in {w \in Windows(b) : \A i \in DOMAIN plan[w] : plan[w][i] # None \/ st[EntryOf(b, w).ins[i]] # None} |->
        [i \in DOMAIN plan[s] |->
           IF plan[s][i] # None THEN plan[s][i][1] ELSE st[EntryOf(b, s).ins[i]][1]]]
StartTable(b, pos, fails) ==
  LET st == StaticAt(b, pos, fails)
      plan == [s \in Windows(b) |-> AppendStartPlan(b, EntryOf(b, s))]
  IN [s \in {w \in Windows(b) : \A i \in DOMAIN plan[w] : plan[w][i] # None \/ st[EntryOf(b, w).ins[i]] # None} |->
        [i \in DOMAIN plan[s] |->
           IF plan[s][i] # None THEN plan[s][i][1]
           ELSE ClipTo(Int32(st[EntryOf(b, s).ins[i]][1]), EntryOf(b, s).bounds[i])]]

\* The handler's, inside a trace that has a table for this body.
TracedStarts(b, table, s, val) ==
  LET e == EntryOf(b, s)
  IN IF s \in DOMAIN table
     THEN [i \in DOMAIN e.bounds |-> IF i \in DOMAIN table[s] THEN table[s][i] ELSE 0]
     ELSE DynamicStarts(b, e, val)

---------------------------------------------------------------------------
\* An empty map, and a map with one more key.
Empty == [x \in {} |-> None]
With(map, key, value) == [x \in DOMAIN map \cup {key} |-> IF x = key THEN value ELSE map[x]]

SpecInit ==
  /\ body \in LoopBodies
  /\ verdict \in {"undecided", "declined"}  \* METALJAX_LOOP_SPECIALIZE=0 declines all
  /\ noCompile = FALSE /\ noChunk = FALSE
  /\ tables = Empty /\ graphs = Empty /\ call = NoCall /\ lastRun = NoRun

\* loop_spec: a table that is kept; one that is made where the walk's eval
\* succeeds; or none.
Answers(pos) ==
  IF pos \in DOMAIN tables THEN {[tables |-> tables, table |-> <<tables[pos]>>]}
  ELSE {[tables |-> tables, table |-> None]} \cup
       (IF Cardinality(DOMAIN tables) < SpecCacheMax /\ body.integer /\ pos \in 0 .. Int32Half - 1
        THEN {LET t == StartTable(body, pos, fails) IN [tables |-> With(tables, pos, t), table |-> <<t>>] :
                fails \in SUBSET {s \in SlotsOf(body) : s > body.inputs /\ Foldable(EntryOf(body, s))}}
        ELSE {})
Folded(answer) == IF answer.table = None THEN 0 ELSE Cardinality(DOMAIN answer.table[1])

MayCompile(n) == ~ noCompile /\ n <= body.maxRepeat

\* run_chunked, up to the probe of its first position.
EnterChunked ==
  /\ call = NoCall /\ ~ noChunk
  /\ \E c \in LoopCalls :
       LET on == /\ verdict # "declined" /\ MayCompile(c.k)
                 /\ (c.trip \div c.k) + (c.trip % c.k) <= SpecMax
       IN /\ verdict' = IF on THEN verdict ELSE "declined"
          /\ call' = [pc |-> IF on THEN "probe" ELSE "chunk", on |-> on, at |-> 0, got |-> 0,
                      start |-> c.start, trip |-> c.trip, k |-> c.k]
  /\ UNCHANGED <<body, noCompile, noChunk, tables, graphs, lastRun>>

\* The rest of its decision: whether enough starts are static there.
Probe ==
  /\ call.pc = "probe"
  /\ \E a \in Answers(call.start) :
       LET on == a.table # None /\ Folded(a) >= SpecMinFolds IN
       /\ tables' = a.tables
       /\ verdict' = IF on THEN "on" ELSE "declined"
       /\ call' = [call EXCEPT !.pc = "chunk", !.on = on]
  /\ UNCHANGED <<body, noCompile, noChunk, graphs, lastRun>>

\* The chunk at hand: `Repeat` iterations from `Pos`.  What is left of whole
\* chunks runs one by one.
Repeat == IF call.at < call.k * (call.trip \div call.k) THEN call.k ELSE 1
Pos == call.start + call.at
Specializes == call.pc = "chunk" /\ call.on /\ MayCompile(Repeat)
Advanced ==
  IF call.at + Repeat = call.trip THEN NoCall
  ELSE [call EXCEPT !.pc = "chunk", !.at = @ + Repeat, !.got = 0]

\* A table for one more iteration of it.
Gather ==
  /\ Specializes /\ call.got < Repeat
  /\ \E a \in Answers(Pos + call.got) :
       /\ tables' = a.tables
       /\ call' = IF Folded(a) > 0 THEN [call EXCEPT !.got = @ + 1] ELSE [call EXCEPT !.pc = "generic"]
  /\ UNCHANGED <<body, verdict, noCompile, noChunk, graphs, lastRun>>

\* (mutant) every application is traced in the scope of the first table.
CompiledSpecOfFirst ==
  LET key == <<Repeat, Pos>>
  IN IF key \in DOMAIN graphs THEN graphs[key] ELSE [r \in 1 .. Repeat |-> tables[Pos]]
\* compiled_spec: the graph kept for these positions, or one that holds their
\* tables, each application traced in the scope of its own.
CompiledSpec ==
  LET key == <<Repeat, Pos>>
  IN IF key \in DOMAIN graphs THEN graphs[key] ELSE [r \in 1 .. Repeat |-> tables[Pos + r - 1]]

\* It is called and proven...
SpecRuns ==
  /\ Specializes /\ call.got = Repeat
  /\ graphs' = With(graphs, <<Repeat, Pos>>, CompiledSpec)
  /\ lastRun' = [pos |-> Pos, tables |-> CompiledSpec]
  /\ call' = Advanced
  /\ UNCHANGED <<body, verdict, noCompile, noChunk, tables>>
\* ...or fails, and drop_spec leaves the generic graph.
SpecDrops ==
  /\ Specializes /\ call.got = Repeat
  /\ verdict' = "declined" /\ tables' = Empty /\ graphs' = Empty
  /\ call' = [call EXCEPT !.pc = "generic", !.on = FALSE]
  /\ UNCHANGED <<body, noCompile, noChunk, lastRun>>

\* The body as it is, compiled or walked.
GenericRuns ==
  /\ call # NoCall
  /\ call.pc = "generic" \/ (call.pc = "chunk" /\ ~ Specializes)
  /\ lastRun' = [pos |-> Pos, tables |-> [r \in 1 .. Repeat |-> Empty]]
  /\ call' = Advanced
  /\ UNCHANGED <<body, verdict, noCompile, noChunk, tables, graphs>>

\* Whatever else fails ends the call, and the loop is not chunked again; an
\* allocation that fails under a graph just made leaves the graph.
ChunkThrows ==
  /\ call # NoCall /\ call' = NoCall /\ noChunk' = TRUE
  /\ \/ UNCHANGED graphs
     \/ Specializes /\ call.got = Repeat /\ graphs' = With(graphs, <<Repeat, Pos>>, CompiledSpec)
  /\ UNCHANGED <<body, verdict, noCompile, tables, lastRun>>

\* (mutant) the tables of dropped graphs and the graphs of dropped tables.
DropCompiledTables ==
  /\ call = NoCall /\ ~ noCompile
  /\ noCompile' = TRUE /\ verdict' = "declined"
  /\ tables' = Empty
  /\ UNCHANGED <<body, noChunk, graphs, call, lastRun>>
\* A single step that MLX rejects (drop_compiled); a kernel that died
\* (drop_compiled_deep).
DropCompiled ==
  /\ call = NoCall /\ ~ noCompile
  /\ noCompile' = TRUE /\ verdict' = "declined"
  /\ tables' = Empty /\ graphs' = Empty
  /\ UNCHANGED <<body, noChunk, call, lastRun>>
DropDeep ==
  /\ call = NoCall /\ graphs # Empty /\ graphs' = Empty
  /\ UNCHANGED <<body, verdict, noCompile, noChunk, tables, call, lastRun>>

SpecNext ==
  \/ EnterChunked \/ Probe \/ Gather \/ SpecRuns \/ SpecDrops \/ GenericRuns
  \/ ChunkThrows \/ DropCompiled \/ DropDeep
LoopSpecSpec == SpecInit /\ [][SpecNext]_specVars

---------------------------------------------------------------------------
\* What a body can find in its slots at a position.
FreeSlots(b) == {s \in SlotsOf(b) : s <= b.inputs \/ ~ Foldable(EntryOf(b, s))}
Envs(b, pos) ==
  {[s \in FreeSlots(b) |-> IF s = b.counter THEN pos ELSE IF s \in DOMAIN b.fixed THEN b.fixed[s] ELSE env[s]] :
     env \in [FreeSlots(b) \ ({b.counter} \cup DOMAIN b.fixed) -> SlotValues]}

\* Every iteration, in a specialized graph or not and whatever the other
\* inputs are, reads and writes the windows its slices mean.
WindowsAreWhereTheyAre ==
  \A r \in DOMAIN lastRun.tables : \A env \in Envs(body, lastRun.pos + r - 1), s \in Windows(body) :
    LET val == ValuesOf(body, env)
    IN TracedStarts(body, lastRun.tables[r], s, val) = ClampedStarts(EntryOf(body, s), val)

\* "By pointer: the tables live in spec_cache_ for the life of the program
\* (drop_spec is what clears both)": a graph's tables stay as long as it does.
TablesOutliveGraphs ==
  \A g \in DOMAIN graphs : \A r \in DOMAIN graphs[g] :
    g[2] + r - 1 \in DOMAIN tables /\ tables[g[2] + r - 1] = graphs[g][r]
=============================================================================

------------------------------ MODULE LoopPlan ------------------------------
(***************************************************************************)
(* What the lowering decides about a while before it runs: whether its     *)
(* trip count may be computed instead of its condition evaluated, whether  *)
(* it may be unrolled into a trace, and how many iterations one compiled   *)
(* chunk may hold.                                                         *)
(*                                                                         *)
(* Sources: metal/metal_lowering.cc (AnalyzeCounted, BlockCost,            *)
(* BlockBytes, AccumulatorBytes, BlockIsPure, WhileTraceable, LowerWhile), *)
(* runtime/control.cc (run_while).                                         *)
(* input.kind = "counted": a loop by its counter.  "blocks": a program by  *)
(* its nested blocks, the last one main, the inner ones first.  "carries": *)
(* a loop body by its values.                                              *)
(***************************************************************************)
EXTENDS Integers, Sequences, FiniteSets, FiniteSetsExt, SequencesExt, Case

CONSTANTS TraceBudget, UnrollMax, Unknown, CompileBytes,
          ChunkMax, ChunkMaxCost, ChunkBytes, ChunkAcc,
          HalfRange,    \* half as many as a counter's integer type has values
          LongestLoop   \* where counting a loop's iterations is given up

\* No loop over integers is longer than its counter has values.
ASSUME CountingAssumption ==
  HalfRange \in Nat \ {0} /\ LongestLoop \in Nat /\ LongestLoop >= 2 * HalfRange

\* The numbers of these options and limits, most of them the user's to set.
ASSUME LimitAssumption ==
  /\ Unknown \in Nat
  /\ \A n \in {TraceBudget, UnrollMax, CompileBytes, ChunkMax, ChunkMaxCost, ChunkBytes, ChunkAcc} : n \in Int

(***************************************************************************)
(* Counted loops.  A float is held in halves; an integer type is narrower  *)
(* than the 64 bits in which a trip count is computed.                     *)
(***************************************************************************)
\* SplatInt, and item_int of the same scalar at run time.
SplatInt(type, v) ==
  IF type # "float" THEN v ELSE IF v >= 0 THEN v \div 2 ELSE - ((- v) \div 2)

\* (mutant) a bound that the body changes is a bound.
AnalyzeCountedAnyCarry(x) ==
  IF /\ ~ x.effects /\ x.dir = "LT" /\ x.lhs = "carry"
     /\ x.rhs \in {"const", "kept", "changed", "outer"}
     /\ x.step = "add" /\ SplatInt(x.type, x.inc) = 1
  THEN IF x.rhs = "const" THEN "static" ELSE "value"
  ELSE "none"
\* The shape jax emits for a scan or a fori_loop: a condition k < n and
\* nothing else, n a constant, carried unchanged or from outside; k + 1.
AnalyzeCounted(x) ==
  IF /\ ~ x.effects /\ x.dir = "LT" /\ x.lhs = "carry"
     /\ x.rhs \in {"const", "kept", "outer"}
     /\ x.step = "add" /\ SplatInt(x.type, x.inc) = 1
  THEN CASE x.rhs = "const" -> "static" [] x.rhs = "kept" -> "carry" [] OTHER -> "value"
  ELSE "none"

\* run_while's trip count, of a static, a carried and a captured bound.
CountedTrip(x) == Max({SplatInt(x.type, x.bound) - SplatInt(x.type, x.start), 0})

\* The loop as StableHLO means it: the counter wraps, the condition is asked
\* before every iteration.
Wrapped(type, v) ==
  CASE type = "signed" -> ((v + HalfRange) % (2 * HalfRange)) - HalfRange
    [] type = "unsigned" -> v % (2 * HalfRange)
    [] type = "i1" -> v % 2
    [] OTHER -> v
Counter(x, j) == IF x.step = "add" THEN Wrapped(x.type, x.start + j * x.inc) ELSE x.start
CondHolds(x, j) ==
  LET b == IF x.rhs = "changed" THEN Wrapped(x.type, x.bound - j) ELSE x.bound
      c == IF x.lhs = "carry" THEN Counter(x, j) ELSE b
  IN CASE x.dir = "LT" -> c < b [] x.dir = "LE" -> c <= b [] OTHER -> c # b
Iterations(x) == Min({LongestLoop} \cup {j \in 0 .. LongestLoop : ~ CondHolds(x, j)})

(***************************************************************************)
(* Nested blocks.  An op of block b has at most one inner block, op.inner. *)
(***************************************************************************)
IsPlanned(op) == op.name = "while" /\ op.planned
IsStatic(op) == op.name = "while" /\ op.counted = "static" /\ op.startKnown
\* (mutant) a loop is charged as one of its iterations.
ChargedOnce(op) == 1
ChargedTrip(op) == IF IsStatic(op) THEN Max({op.trip, 1}) ELSE Unknown
ScatterExpansion(op) == IF op.unique THEN 1 ELSE Max({op.rows, 1})

\* BlockCost of every block, with RootCostUnit and ScatterCost.
OpCost(op, inner) ==
  IF op.absorbed THEN 0
  ELSE IF op.unit # 0 THEN op.unit
  ELSE 1 + CASE IsPlanned(op) -> 8
             [] op.name = "while" /\ ~ op.planned -> ChargedTrip(op) * inner
             [] op.name = "scatter" -> ScatterExpansion(op) * inner
             [] OTHER -> inner
BlockCost(x) ==
  LET cost[b \in DOMAIN x.blocks] ==
        Total([k \in DOMAIN x.blocks[b] |-> OpCost(x.blocks[b][k],
                 IF x.blocks[b][k].inner = 0 THEN 0 ELSE cost[x.blocks[b][k].inner])])
  IN cost

\* BlockBytes, with OpBytes and RootExtraBytes: a root goes on to its region.
OpBytes(op, inner) ==
  IF op.absorbed THEN 0
  ELSE op.bytes + CASE IsPlanned(op) -> 0
                    [] op.name = "while" /\ ~ op.planned -> ChargedTrip(op) * inner
                    [] OTHER -> inner
BlockBytes(x) ==
  LET bytes[b \in DOMAIN x.blocks] ==
        Total([k \in DOMAIN x.blocks[b] |-> OpBytes(x.blocks[b][k],
                 IF x.blocks[b][k].inner = 0 THEN 0 ELSE bytes[x.blocks[b][k].inner])])
  IN bytes
ProgramBytes(x, b) == BlockBytes(x)[b] + x.passthrough
BytesOk(per, mult) == CompileBytes <= 0 \/ mult * per <= CompileBytes
GateCost(x, b) == Min({BlockCost(x)[b], x.tape[b]})

\* (mutant) only the two budgets are asked.
TraceableWithoutLimit(cost, bytes, pure, op) ==
  /\ op.name = "while"
  /\ \/ op.planned
     \/ /\ IsStatic(op)
        /\ op.trip * cost[op.inner] <= TraceBudget
        /\ pure[op.inner]
        /\ BytesOk(bytes[op.inner], op.trip)
\* A loop that is unrolled when an enclosing graph is traced.
WhileTraceable(cost, bytes, pure, op) ==
  /\ op.name = "while"
  /\ \/ op.planned
     \/ /\ IsStatic(op)
        /\ op.trip <= UnrollMax
        /\ op.trip * cost[op.inner] <= TraceBudget
        /\ pure[op.inner]
        /\ BytesOk(bytes[op.inner], op.trip)

BlockIsPure(x) ==
  LET cost == BlockCost(x)
      bytes == BlockBytes(x)
      pure[b \in DOMAIN x.blocks] ==
        \A k \in DOMAIN x.blocks[b] :
          LET op == x.blocks[b][k] IN
          /\ op.name \notin {"if", "host"}
          /\ op.name = "while" => WhileTraceable(cost, bytes, pure, op)
          /\ op.name # "while" /\ op.inner # 0 => pure[op.inner]
  IN pure

\* Lowering::Run: whether main becomes one compiled graph.
CompileMain(x) ==
  LET main == Len(x.blocks)
  IN BlockIsPure(x)[main] /\ GateCost(x, main) <= TraceBudget /\ BytesOk(ProgramBytes(x, main), 1)

\* (mutant) a chunk is bounded by its own traffic only.
ChunkLimitOfTraffic(byCost, byBytes, byTraffic) == Max({1, Min({byCost, ChunkMax, byTraffic})})
ChunkLimit(byCost, byBytes, byTraffic) ==
  Max({1, Min({byCost, ChunkMax, Max({1, byBytes}), byTraffic})})

\* LowerWhile: what the executor may do with body block b, whose write-only
\* accumulators hold acc bytes and whose update chains were charged chain.
LowerWhile(x, b, acc, chain) ==
  LET cost == BlockCost(x)[b]
      bytes == BlockBytes(x)[b]
      pure == BlockIsPure(x)[b]
      byCost == TraceBudget \div Max({cost, 1})
      byBytes == IF CompileBytes <= 0 THEN byCost ELSE CompileBytes \div Max({bytes, 1})
      real == Max({0, bytes - chain})
      byTraffic == IF ChunkBytes <= 0 \/ acc > ChunkAcc THEN ChunkMax
                   ELSE Max({2, ChunkBytes \div Max({real, 1})})
  IN [chunkable |-> cost <= ChunkMaxCost /\ pure,
      kmax |-> ChunkLimit(byCost, IF CompileBytes <= 0 THEN ChunkMax ELSE byBytes, byTraffic),
      compileMax |-> IF pure
                     THEN Max({0, Min({TraceBudget \div Max({GateCost(x, b), 1}), byBytes})})
                     ELSE 0]

\* A trace of block b as it is made: run_while refuses a long loop, a bound
\* or a condition it would have to read back, and so does a host op.
NotTraced == [ok |-> FALSE, ops |-> 0, bytes |-> 0]
TraceOp(op, t) ==
  IF op.absorbed THEN [ok |-> TRUE, ops |-> 0, bytes |-> 0]
  ELSE IF op.unit # 0 \/ IsPlanned(op) THEN [ok |-> TRUE, ops |-> 1, bytes |-> op.bytes]
  ELSE CASE op.name \in {"if", "host"} -> NotTraced
         [] op.name = "while" ->
              IF ~ IsStatic(op) \/ op.trip > UnrollMax THEN NotTraced
              ELSE [ok |-> op.trip = 0 \/ t.ok, ops |-> op.trip * t.ops, bytes |-> op.trip * t.bytes]
         [] op.name = "scatter" -> [ok |-> t.ok, ops |-> 1 + ScatterExpansion(op) * t.ops, bytes |-> op.bytes]
         [] op.name = "call" -> t
         [] OTHER -> [ok |-> TRUE, ops |-> 1, bytes |-> op.bytes]
Trace(x) ==
  LET trace[b \in DOMAIN x.blocks] ==
        LET all == DOMAIN x.blocks[b]
            of == [k \in all |-> TraceOp(x.blocks[b][k],
                     IF x.blocks[b][k].inner = 0 THEN NotTraced ELSE trace[x.blocks[b][k].inner])]
        IN [ok |-> \A k \in all : of[k].ok,
            ops |-> Total([k \in all |-> of[k].ops]),
            bytes |-> Total([k \in all |-> of[k].bytes])]
  IN trace

(***************************************************************************)
(* Write-only accumulators.  A frame's values are its arguments, then its  *)
(* ops; an op is an "update" of its first operand, a "call" of x.callee,   *)
(* whose only result it returns, or "other".                               *)
(***************************************************************************)
\* WriteOnlyArg: every use is an update in place, here or in the callee.
WriteOnly(x, frame, arg) ==
  LET use(op, ok(_)) ==
        Has(op.ins, arg) =>
          \/ op.name = "update" /\ op.ins[1] = arg
          \/ op.name = "call" /\ \A i \in DOMAIN op.ins : op.ins[i] = arg => ok(i)
      inCallee(a) == /\ \A k \in DOMAIN x.callee.ops :
                          LET op == x.callee.ops[k]
                          IN Has(op.ins, a) => op.name = "update" /\ op.ins[1] = a
                     /\ ~ Has(x.callee.ret, a)
  IN /\ \A k \in DOMAIN frame.ops : use(frame.ops[k], inCallee)
     /\ ~ Has(frame.ret, arg)

\* UpdateChainRoot of every value: the argument it is rooted at, 0 when it is
\* not such a chain, and what BlockBytes charged along the way.
\* `called` is the root of what a call in the frame returns.
NoRoot == [arg |-> 0, bytes |-> 0]
ChainRoots(frame, called) ==
  LET root[v \in 1 .. frame.args + Len(frame.ops)] ==
        IF v <= frame.args THEN [arg |-> v, bytes |-> 0]
        ELSE LET op == frame.ops[v - frame.args]
                 up(w, n) == [root[w] EXCEPT !.bytes = @ + n]
             IN CASE op.name = "update" -> up(op.ins[1], 1)
                  [] op.name = "call" /\ called # NoRoot ->
                       up(op.ins[called.arg], 1 + called.bytes)
                  [] OTHER -> NoRoot
  IN root
CalleeRoot(x) ==
  LET r == ChainRoots(x.callee, NoRoot)[x.callee.ret[1]]
  IN IF r.arg # 0 /\ WriteOnly(x, x.callee, r.arg)
     THEN r ELSE NoRoot

\* (mutant) a chain is charged wherever it is returned.
AccumulatorsAnywhere(x) ==
  LET root == ChainRoots(x.body, CalleeRoot(x))
      acc == {i \in 1 .. x.body.args : x.body.ret[i] > x.body.args /\ root[x.body.ret[i]].arg # 0}
  IN [carries |-> acc, chain |-> Total([i \in 1 .. x.body.args |-> IF i \in acc THEN root[x.body.ret[i]].bytes ELSE 0])]
AccumulatorBytes(x) ==
  LET root == ChainRoots(x.body, CalleeRoot(x))
      acc == {i \in 1 .. x.body.args :
                /\ x.body.ret[i] # i /\ root[x.body.ret[i]].arg = i
                /\ WriteOnly(x, x.body, i)}
  IN [carries |-> acc, chain |-> Total([i \in 1 .. x.body.args |-> IF i \in acc THEN root[x.body.ret[i]].bytes ELSE 0])]

---------------------------------------------------------------------------
\* A loop whose condition is never evaluated runs the iterations its
\* condition would have let run: for every integer counter, even one that
\* could wrap.
CountedIsExactInIntegers ==
  input.kind = "counted" /\ input.type # "float" /\ AnalyzeCounted(input) # "none" =>
    CountedTrip(input) = Iterations(input)

\* "Getting this WRONG in the permissive direction is not a cadence question:
\* the counted path never evaluates the condition, so a loop wrongly called
\* counted runs the wrong number of iterations" (AnalyzeCounted).
CountedIsExact ==
  input.kind = "counted" /\ AnalyzeCounted(input) # "none" =>
    CountedTrip(input) = Iterations(input)

\* A program compiled as one graph meets, while it is traced, no loop that is
\* too long, no condition and no host op.
TracesAreNeverRefused == input.kind = "blocks" /\ CompileMain(input) => Trace(input)[Len(input.blocks)].ok

\* Nor does it materialize more than a trace may, nor unroll one loop into
\* more ops than a trace may hold.
TracesFit ==
  input.kind = "blocks" /\ CompileMain(input) =>
    /\ CompileBytes > 0 => Trace(input)[Len(input.blocks)].bytes <= CompileBytes
    /\ \A b \in DOMAIN input.blocks : \A k \in DOMAIN input.blocks[b] :
         LET op == input.blocks[b][k]
         IN IsStatic(op) /\ ~ op.planned /\ BlockIsPure(input)[b] =>
              op.trip * Trace(input)[op.inner].ops <= TraceBudget

\* A chunk the executor asks for is one the body may be compiled for, and
\* fits both budgets.
ChunksAreAdmitted ==
  input.kind = "blocks" =>
    \A b \in DOMAIN input.blocks :
      LET w == LowerWhile(input, b, 0, 0) IN
      w.chunkable /\ w.kmax > 1 =>
        /\ w.kmax <= w.compileMax
        /\ CompileBytes > 0 => w.kmax * Trace(input)[b].bytes <= CompileBytes
        /\ w.kmax * Trace(input)[b].ops <= TraceBudget

\* What a body is netted of was charged to it, once.
ChainsWereCharged ==
  input.kind = "carries" =>
    AccumulatorBytes(input).chain
      <= Total([k \in DOMAIN input.body.ops |->
                  1 + IF input.body.ops[k].name = "call" THEN Len(input.callee.ops) ELSE 0])
\* Whatever is compiled whole or in chunks keeps to MLX's limits.
GraphsFit ==
  TracesAreNeverRefused /\ TracesFit /\ ChunksAreAdmitted /\ ChainsWereCharged
=============================================================================

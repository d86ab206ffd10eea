# metaljax in TLA+

metaljax is a PJRT plugin that runs JAX programs on Apple GPUs through MLX. A
StableHLO module is lowered once to a *tape* of ops (`plugin-native/metal`); the
native runtime (`plugin-native/runtime`) interprets the tape, compiles what it
can with `mx::compile`, replaces some loops by generated Metal kernels, and
recovers when the device, the compiler or the machine's memory says no. This
directory specifies both halves: the parts of the runtime that keep state, and the
decisions of the lowering that change what a program means when one of them is
wrong. TLC checks them on small instances; TLAPS proves the safety invariants of the
runtime, and of the lowered tape that a slot is held exactly while it is needed and that
no output is an array somebody else owns, for every instance.

Paths below are relative to the repository root.

## 1. Inventory

| Part | State | Operations | What makes it correct |
|---|---|---|---|
| **Dynamic while loops** (`runtime/control.cc` 1139-1434) | the current carry, the carry built after it, their conditions; `ahead`/`decided`/`submitted`; what the device has queued | first condition, first iteration, build, submit ahead, read, commit, account | the loop returns exactly the carry the serial loop returns; no speculative kernel writes that carry or the inputs; one iteration of run-ahead at most; it ends |
| **Counted while loops** (`control.cc` 391-704, 992-1138) | `compiled_`, `no_chunk_`, `compile_disabled_`, the window of submissions in flight | chunked arm, single-step arm, bounded single-step arm | a failing chunk is replayed, an oversized graph is retired once, submissions in flight stay within a byte budget |
| **Recovery ladder** (`runtime/program.cc` 185-470) | attempt and round counters, the current exception | compiled call, eager walk, retry at the buffer limit, drop the compiled path, rerun without kernels | no value that could fail to build is submitted asynchronously or returned; terminates; a refusal retires nothing; host calls are not repeated except for a limit |
| **Generated kernels** (`runtime/msl.cc` 387-560) | `dead_`, `validated_` per plan, the thread's pending list | launch, trace, validate, kill, fall back | a validated plan is buildable; a dead kernel is in no cached graph |
| **Compiled graphs** (`runtime/compile.cc`) | `compiled_`, `spec_compiled_`, MLX's process-wide compile cache | `compiled`, `prove_compiled`, `drop_spec`, `drop_compiled`, `drop_compiled_deep` | what is retired is never asked for again; nothing is left in MLX's cache |
| **Cadences** (`runtime/runtime.cc`, `program.cc` 26-128) | `g_flushed_cost`, `g_ingested_since_clear`, live-set extremes of a flush state | `loop_eval`, `loop_submit`, `loop_account`, `eager_flush`, `ingest_account`, `flush_bound` | bounded work between reclamation points, and a pool bound within floor and cap |
| **Loop specialization** (`control.cc` 78-140, 298-397, 805-974, `compile.cc` 30-190, `ops_shape.cc` 303-430) | `spec_state_`, `spec_cache_`, `spec_compiled_`, the thread's `SpecFrame` | probe, start table of a position, compile and prove a chunk, drop | a specialized graph reads and writes the windows of the positions it runs at; a table stays as long as a graph made with it |
| **Memory governor** (`runtime/memory.cc` 460-859) | last sample and its flags, stall deadline | `governor_admit`, `governor_fits`, reclaim | refuses for live memory only, never for what is retained; a big ask keeps the budget; every ask ends |
| **Buffers** (`metal/metal_buffer.cc`) | the array, the deleted flag | settle, delete, donate, copy | a deleted buffer is not read; reads settle under the lock |
| **Loaded executable** (`metal/metal_executable.cc`) | the lowered tape, packed and fused variants, donation | `Execute`, `RunOnce`, `Tape` | donated arguments are consumed only by a successful run; a cached variant belongs to the arguments given |
| **Client and host transfers** (`metal/metal_client.cc`) | buffers, host-side completion callbacks | `BufferFromHostBuffer`, `CompileAndLoad` | the completion callback runs exactly once |
| **Submission lock and streams** (`metal/metal_stream.cc`) | one recursive mutex, the thread's stream | `SubmissionLock`, `BindThread` | one thread in MLX at a time; a host callback may re-enter |
| **Host callbacks** (`runtime/host_callback.cc`, `host.cc`) | the callback registry, the interpreter's lock | call, error | one call per execution of the op |
| **Tape lowering** (`metal/metal_lowering.cc` 3278-3525, 7096-8415, 9428-10066) | slots, entries, taints of a frame; the interpreter's environment | lower an op, a branch, a loop, a call; CSE, fold, DCE, finish; walk, drop, copy out | the tape means its source; a slot is held exactly while it is needed; no output is an array somebody else owns |
| **Index analysis** (4600-5560) | none | interval analysis, gather and scatter plans | an unchecked write is in bounds; the rule that drops an update drops that one |
| **Loop planning** (1193-2251, 7232-7303) | none | counted or not, traced whole or not, how large a chunk | a computed trip count is the loop's; a trace fits MLX |
| **Rewrite plan** (10155-10272, the `Analyze*` of ten files) | matches, the skip set, the root maps | analyze, claim, give back, rebuild, lower | what is still lowered finds every operand |
| **KV-cache rewrite** (2414-2948, 7888-8032) | the chain of a loop body | analyze, lower a site, materialize | the in-place chain is the body |
| **Fused ops** (`metal_ragged.cc`, `metal_stacked.cc`, `metal_sdpa.cc`, `metal_norm.cc`, `metal_moe.cc`, `runtime/emits.cc`) | none | match, emit | what is emitted computes what was matched |
| **Moves and folds** (`ops_index.cc`, `ops_shape.cc`, `ops_reduce.cc`, `ops_conv.cc`) | none | one handler per op | each element comes from where StableHLO says |
| **Numerics** (`ops_elementwise.cc`, `ops_rng.cc`, `ops_linalg.cc`, `host_lapack.cc`), **generated source** (`metal_msl*.cc`) | none | one handler per op; one string per kernel | numerics and text |

How they interact. `MetalLoadedExecutable::RunOnce` takes the submission lock,
asks the governor, picks a tape variant and calls `Program::run`. That call is
the recovery ladder: `run_recovering` calls the main program's compiled graph
or walks the tape; a `while` op of the tape calls `run_msl`, which launches a
generated kernel or calls `run_while`; `run_while` picks one of the four loop
arms, each of which calls the body's own `Program` (compiled or not) and one of
the sync points `loop_eval` / `loop_submit` / `loop_flush`. A sync point may
throw: a build error, Metal's buffer limit, or the governor's refusal from
`loop_account`. Everything above it catches selectively. `settle_msl` closes the
call. The device is the other actor: it retires submitted work in order, later.

What is hard here:

* *Two actors.* The host submits, drops handles and rebuilds while the device
  still executes; MLX may write an update in place when nobody else holds the
  operand.
* *Laziness.* A compiled call returns before anything is built; the failure of
  a build surfaces in whichever eval comes first, and in the wrong one
  (`mx::async_eval`) it leaves an event nothing will ever signal.
* *Recovery under recovery.* Seven catch sites, nested, each with its own idea of
  what to retire and what to rethrow, and three retry loops around each other.
* *State that outlives a call.* What one call retires must stay retired, and a
  cached graph must not outlive the kernels it embeds.
* *Resources.* Windows, pools and budgets sized from moving measurements.

The machine-readable list of hazards is in `PROJECT.json`, each at the line
where it bites and with the properties that would catch it.

## 2. Plan

Done, in this order:

1. `SerialWhile`, `DynamicWhile` — the pipelined dynamic loop against a serial
   specification; refinement checked and proved.
2. `ProgramLadder` — compiled graphs, generated kernels and every catch site of a
   run; every safety invariant proved.
3. `Execution` — buffers, donation, `RunOnce` and a re-entering host callback
   under the recursive lock, with `Delete` outside it; exclusion, donation and the life
   of a tape proved.
4. `Governor` — sample, reclaim, stall and refuse, with a machine that gives memory back
   late; what it refuses for proved.
5. The rest of the runtime's bookkeeping: `LoopWindow`, `TapeCache`, `Cadences`,
   `LoopSpec`; all of their properties proved.
6. The lowering: `Tape`, its slot discipline, its outputs' freshness and that it means what its source means proved, then the decisions it takes on the
   way: `IndexRange` (proved), `GatherScatter` (proved), `LoopPlan` (when a loop is counted and what may be traced, proved), `HostTransfer` (proved), `KvRewrite`,
   `RewritePlan` (that what is planned can be lowered, proved).
7. The handlers that move elements (`Reductions`, `Windows`, `Convolution`) and the fused
   ops against the graphs they replace (`Ragged`, `Stacked`, `Sdpa`, `Norm`, `Moe`).

Left: the arithmetic of packed weights (`metal_qmm.cc`), and the matchers of rope,
gated delta nets and latent attention (`metal_rope.cc`, `metal_gdn.cc`, `metal_mla.cc`),
which `RewritePlan` takes as given; and proofs about the modules of sections 8
and 9 that have none, where what is said of a term or an index has to be carried through its evaluation.

`ProgramLadder` takes the sync points of `DynamicWhile` and `LoopWindow` as atomic
steps; `Execution` takes a run of the ladder as one step that succeeds or fails, and the
choice of a tape as one of `TapeCache`'s outcomes; `RewritePlan` takes what the five
fused-op modules match as candidates. The abstractions meet at
those two interfaces: *a sync point settles, submits or throws*, and *a run
returns proven values or raises*; the second is what `ReturnedProven` and
`EveryRunEnds` establish.

## 3. `DynamicWhile` and `SerialWhile`

**Code.** The pipelined arm of `Program::run_while` with submit-ahead
(`control.cc` 1139-1434), the loop of every `stablehlo.while` whose trip count
is not known. `SerialWhile` is what any arm promises: one body application at
a time, each only while the condition of the current carry holds.

**State.** `vals`, `next`, `ahead`, `decided`, `submitted` are the variables of
those names; `vbuf` and `nbuf` are the buffers behind `vals` and `next`
(`NoBuf` while `next` is a lazy graph), `pgo` and `ngo` are `pred` and `npred`. A
carry's content is the number of body applications that produced it, so
`Body(c) = c + 1`, and a wrong buffer, order or in-place write becomes a wrong
number. `inflight` is what the device has been given; `mem` is what each buffer
holds.

**Actions.** `FirstCond`, `FirstIteration`, `Build`,
`AheadDeclined`/`AheadSubmitted`/`AheadFailed`, `DrainAndRebuild`, `ReadCond`,
`Commit`, `Account` follow the iteration of the loop; the exact lines are in
`PROJECT.json` under `map`. `Raise` is a throw that leaves nothing behind. `WalkThrows` is one out of a walk
that had encoded part of itself: the first iteration's flush, a body's own flush, a speculative submission that
fails otherwise than by memory (rethrown at 1355), a read-first submission that fails (1397). It unwinds without
`mx::synchronize`, so a kernel stays queued that no handle pins. `Retire` is the device and is
external: it retires the oldest kernel, reading its operand only then. MLX's two
rules that matter are in `Targets` (an operand is updated in place only when
nobody else holds it) and `FreshBufs` (a buffer nobody refers to may be allocated
again, even while a kernel of an *abandoned* walk still reads it).

**Run.** The run `execution` holds this loop beside the entries of section 5, as two parts of which a
behaviour is one. It explores every interleaving of the host's steps with the
device's retirements, with an interpreted body that may flush while it is built, a speculative
submission that runs out of memory halfway, and throws at every point; the same run checks
that the loop ends and that its result arrives (`LoopArrives`).

**What a throw leaves.** `AbandonedWalkRetired` is the promise of 1361-1363, and so of the loop that goes on: what
an abandoned walk encoded has retired, and its buffers were held till then, before the step is built again.
A throw that leaves `run_while` promises nothing: after it kernels are in flight whose handles are gone. Whether
their buffers may be handed out meanwhile is up to MLX's encoder, which is not in the repository. What can be said
of them is in `BuffersIntact`: they write no input, so that the ladder may run again from the inputs.

**Bounds.** Trip counts 0 to 4: submit-ahead engages from the third iteration, so
four give two speculated steps and the exit after them. Five buffers: the inputs,
two carries, the source of one kernel in flight and one abandoned graph; an
allocation never fails for want of a buffer. The proofs need neither bound.

**Fairness.** `WF_vars(Host)`: the host runs on the calling thread and each step
is enabled until taken, except the two that wait on the device, which the
`WF_vars(Device)` conjunct releases; Metal executes what was committed. Nothing
obliges a step to raise.

**Proved** (`DynamicWhileProofs`): type correctness (`TypeCorrect`), `BuffersIntact`
(the carry and the inputs; `BuffersSafe`), `AbandonedWalkRetired` (`AbandonedSafe`),
`RunAheadBounded` (`RunAheadSafe`), that the result is the serial one (`ResultCorrect`), and
`Refinement`: the pipelined loop implements the serial one. None of the
properties is inductive. `IInv` adds which kernels can be in flight at each point of
the host's walk (`KernelsInv`: at most one for the current carry and one for the
next), that the operand of the current carry's kernel is waiting in its buffer
(`CurrentInv`), that a kernel of the next carry reads the current buffer and
writes elsewhere and exists only while the host is inside a step (`SpeculationInv`), and
how far the walk has got (`ProgressInv`). What a throwing walk leaves is covered by the kernels being of the current
carry or the next wherever the host stands. The assumption is `LoopAssumption`.
Under the refinement mapping `carry` is the value the current buffer will have
when the queue is empty. Liveness (`LoopArrives`, which is `ResultArrives` of this part) is checked only.

**Where the comments and the code part.** `control.cc` 1291 says that a loop
stopping after one or two iterations runs no body for nothing; a loop of two submits a
third (`Commit`). `control.cc` 1335 says that nothing evaluates `next` before the condition
is read; an interpreted body that reaches its own eager flush does (`Build`). Both
cost work and neither changes a result (`ResultIsSerial`), so neither has a run.

## 4. `ProgramLadder`

**Code.** `Program::run` and `run_recovering` (`program.cc` 185-470), the compiled
graphs (`compile.cc`), generated kernels and `settle_msl` (`msl.cc` 387-560), and
the counted arms of `run_while` with their catch sites (`control.cc` 391-704,
992-1138).

**State.** `dead`, `validated`, `disabled`, `noChunk`, `pending` are `dead_`,
`validated_`, `compile_disabled_`, `no_chunk_`, `t_msl_pending`; `specOff` is
`spec_state_` at its last value; `sites` is where host calls are, on the main tape or in the bodies of loops (`has_host` asks the regions too), and
`effects` counts the calls at each of those places; `graphs` is the keys of `compiled_` and
`spec_compiled_`, and `embeds` is the kernels traced into each. Two variables
stand for MLX: `built` is what has been built in this process and `owed` is what
the lazy values at hand still have to build. `bad` is what Metal cannot build and
`fallback` is which planned loops were lowered beside their kernel; both are
chosen once.

**Actions.** One per call, failure and catch: main's compiled graph
(`MainCalled`, `MainFails`), a host call, a kernel's launch and death, the chunked
arm (`ChunkCalled`, `SpecFails`, `ChunkFails`), the single-step arm
(`OneCalled`, `OneRejected`, `OneLimited`), an eager body with its host call (`EagerBody`, `BodyCalls`), a sync point and its
failure, the rungs of `run_recovering` (`RetireCompiled`, `RetryAtLimit`,
`Leave`), `settle_msl` (`Settled`, `SettleRetires`), and the destructor. A loop is
abstracted to one replay of its body and one submission, of the arm the run
chooses; a body's compiled path is always wanted (a body that is never compiled
behaves as one that has lost it). An async submission of something owed that
cannot be built sets `wedged`; `NoWedge` asks for more than that: nothing owed is
submitted asynchronously, buildable or not.

**Run.** `program_ladder`: two loops, one planned into a kernel with another kernel
nested in its body (the case for which `settle_msl` needs its second rerun); two executions
of the same program, so that what the first retired meets the second; every plan lowered
with its loop or none; nothing, one or two things that cannot be built; no host call, one on the main tape
or one in the body of a loop; limits and refusals anywhere; fairness on the run's own steps, which execute on the calling thread.
`EffectsBounded` says how often the user's function runs for one place in one execution: once, unless the buffer
limit is met. Then `run_recovering` walks main's tape at most three times; and in a loop's body
`BodyRunner::step` redoes the iteration up to three times in each of those attempts, host call and all, which makes
twelve. `settle_msl` adds none: it never reruns a program with a host call.
`RefusalKeepsBuilds` says that a refusal, or a user's function that raises, is never taken for a
failure to build. The run `refusal` asks what `program.cc` 391 says, that a refusal retires nothing at
all, and finds the catch-all of the chunked arm.
`EveryRunEnds` is asked where every plan was lowered with its loop: a kernel that was not and
dies leaves nothing to run (`RunsNothing`, a hazard on the list).

**Bounds.** One iteration per loop: `limit_retries_` is reset by each that succeeds. `MaxRuns` = 2: the third execution meets no state the
second has not met, because everything that survives a call only grows towards
retired. `BadSets` lists sets of unbuildable things: none, one, and pairs
that meet on one path of the ladder. The proofs need neither.

**Fairness.** `WF_vars(Step)`: the ladder is sequential code on one thread and no
step of it waits in this model. `Enter` and `Destroy` are the embedder's and
unfair.

**Proved** (`ProgramLadderProofs`): the inductive invariant (`Invariance`), type correctness,
`NoWedge`, `ReturnedProven`, `ValidatedBuilds`, that what is disabled holds nothing
(`DisabledForGood`), `EffectsBounded`, `RetiredStayOut` (`RetiredForGood`),
`RefusalKeepsBuilds` (`RefusalsKeepBuilds`) and `Heals` (`FailuresHeal`), for
every number of loops, plans and executions. The argument: between two actions a
walk owes nothing, because every arm proves what it calls before returning
(`OwesOnlyPending`); a launch of a *validated* kernel is lazy, so this rests on
validated kernels having been built (`ProvenBuilt`); `settle_msl` validates all
that is pending after a single eval, so that rests on every pending kernel being
retired, built, or in a loop the walk has still to reach (`Covered`), which in turn needs
that a compiled main is tried first and only once (`Attempts`), and that a
body's graph embeds the kernel inside the body while it is alive (`EmbedsLive`).

The last three rest on a second invariant, `Retired`. A kernel dies in one of two places:
under an eager walk, when main has no graph and the body that launches it drops its own; or
in `settle_msl`, which drops every graph that embeds it before it leaves. So a graph of a dead
kernel exists only between the two halves of `settle_msl`, or when a host call took the rethrow
between them. What is thrown is remembered: a refusal, or a failing host call, comes with
nothing retired since it was thrown. `Heals` then follows the rounds: the first has main's graph,
the second its kernels, and the third has no kernel to blame, so that what cannot
be built is met on a path that no longer asks for it. Two kernels of one loop would break
this, hence the assumption `PlansAreOwned`: each while entry is lowered with an `MslPlan` of its
own (`LowerMslPlan`).

**Only checked.** The liveness property `EveryRunEnds`.

**Where the comments and the code part.**

* A kernel lowered *without* its loop that dies leaves its entry in the tape.
  `msl.cc` 482-485 expects the caller to retire the tape; nobody
  does, and the next attempt or execution reaches `run_while` with no regions
  (`control.cc` 1009 indexes an empty vector).
* A governor refusal retires nothing, says `program.cc` 391; inside a chunked loop it is caught by the catch-all at
  `control.cc` 1066, swallowed, and costs the loop its chunks for good (the run `refusal`).
* "bodies are pure" (`control.cc` 569): the body that `BodyRunner` redoes at the buffer limit may hold a host call, which
  is then made again. It has no run: that the call is repeated is what `EffectsBounded` allows and counts.

Two more are in the model without a run of their own: for a program with a host call,
`settle_msl` rethrows between killing the plans and dropping the graphs that embed them
(which is why `DeadNotEmbedded` excepts such programs), and `~Program` erases the ids of
`compiled_` from MLX's cache but not those of `spec_compiled_` (`Destroy`).

## 5. `Execution`

**Code.** The entries of the plugin that reach MLX: `RunOnce` and `Tape`
(`metal_executable.cc` 163-564), `Settled`, `CopyOut`, `CopyToMemorySpace` and
`Delete` (`metal_buffer.cc`), `BufferFromHostBuffer` (`metal_client.cc` 519-660),
and `SubmissionLock` (`metal_stream.cc`); of a run, the part of `Program::run` that
other runs can see: its own lock, the host calls it makes and the thread's
list of unproven kernels.

**State.** Each thread has a stack of calls: `depth[t]` frames `frame[t][i]`, with
what the call was given to consume (`give`) and to keep (`keep`) and where it is.
`owner` is the holder of the recursive lock, which needs no count: it is released when
the top call leaves its scope and no call below holds it (`Release`). `running` is the
set of held `Program::lock_`s. `array` and `deleted` are the two fields of a
buffer; `fused`, `tapes` and `fuseDone` are `fused_` and `fuse_done_` with a number for
each tape built; `pending` is `t_msl_pending`. `takers` and `asked` are history.

**Actions.** `Call` begins an entry, from the embedder or, while a program of
`Hosts` is in its walk, from the user's function behind its host call. Then one action
per section of the code between two places where another thread can get in:
`Check`, `Lock`, `Take`, `Keep` for a read or a copy, `DeleteResets` and `DeleteFlags`,
`Lock`, `Admit` and `Store` for a transfer, and `Lock`, `Admit`, `CheckArgs`, `Hold`,
`PickTape`, `Enter`, `Walk`, `Launch`, `WalkEnds`, `Eval`, `Wrap`, `Donate` for a run.
Each that can throw may return early. Reading an empty `array_` or a tape that is gone leads
to `"undefined"`, where the thread stays. Which tape `Tape` answers with is a choice among its outcomes;
why it does is the plan's `TapeCache`.

**Run.** `execution`: beside the loop of section 3, two threads, three calls, two deep, over one buffer, with an
executable whose callback may execute another one, under fairness.

**Bounds.** Two threads and one buffer make every race of two accesses; three
calls are a run, a call nested in it, and one of the other thread. Two fused tapes
are one that is running and one that replaces it. The proofs need no bound, and cover
`METALJAX_CONCURRENT_EXECUTE=1`, which the run leaves off.

**Fairness.** `WF_vars(Step(t))` for each thread: a thread in a call keeps running
it, and a user's function returns. A lock is got if it stays free; as calls are
bounded, the run shows the absence of deadlock, not of starvation.

**Proved** (`ExecutionProofs`): `OneSubmitter` (`SubmitsAlone`), `DonationsAreFinal`
(`DonatedOnce`, from `ConsumedByOne`, `DonatedEmpty` and `ArgumentsSurvive`: a donation has
one consumer, what is donated stays empty, a run that fails consumes nothing), for any
threads, executables, buffers and nesting. The
inductive invariant says that every call but the last is in its walk (`StackInv`),
that who is in a guarded section owns the lock (`LockInv`), and that what a run between
its check and its return will consume has been consumed by its own thread only
(`DonationInv`). Every step but a call replaces one top frame; `Moves` states what the
invariant needs of such a step, each action is shown to be one, and the invariant
is shown once for all moves. The assumption is `ExecutionAssumption`.

`TapeKept` proves `TapeOutlivesRun`, that a run's fused tape is there as long as it is read, under
the lock (`METALJAX_CONCURRENT_EXECUTE=0`) and the hypothesis that no chain of callbacks leads back to
an executable that is being run: a rank on the executables falls along `Calls`. The hypothesis
is not a convenience. Without it a callback may replace the tape under the run that made
it, or wait for a program lock its own thread holds (below). With it every run below the top of
a stack is of a greater rank than those above it (`NestInv`), so that the only run that may
replace a tape reads none of them.

**Only checked.** The liveness property `CallsReturn`.

**Where the comments and the code part.**

* The gather of `Settled` stores its result in a buffer deleted meanwhile, and `RunOnce`
  accepts it again (`metal_buffer.h` 79 against `metal_buffer.cc` 74).
* A callback that executes its own executable on the plain tape waits for the
  program's lock, which its own thread holds; `metal_stream.h` 46 says a callback may
  re-enter (`program.cc` 194). Another executable is fine, which is what `CallsReturn` shows.
* The run a callback makes clears the thread's list of unproven kernels
  (`program.cc` 195 against `program.h` 751), so the run around it returns without settling
  its own. `ProgramLadder` has no nested runs, and its `ReturnedProven` is relative to that.

Two more are in the model as a step to `"undefined"`: `Settled` tests the buffer before it
takes the lock, so a donation by another thread, or a `Delete`, in between leaves
`*array_` empty (`Take`); and with the submission lock lifted, or from a callback that
executes its own executable with other weights, `Tape` may drop the tape that a run
holds by reference (`Enter`).

## 6. `Governor`

**Code.** `governor_admit`, `governor_fits`, `governor_sample`, `settle_device`,
`reclaim` and `reclaim_hard` (`memory.cc` 439-857), and what their callers do between
two asks.

**State.** What the process holds is split by where it is on its way out: `live` arrays,
transients `running` on the device, `handed` (finished, completion handler still to
run), MLX's `cache`, and `lagNew`/`lagOld` (released, not yet taken back by the OS). The
governor reads only their sum (`Footprint`), which is the point. `sample` and `age` are
`g_sample` and `g_last_ns`; `g_pressured` and `g_squeezed` are functions of the sample;
`reclaimed` is the age of `g_reclaim_ns` and `left` the time to the deadline. `asked` and
`needed` are history.

**Actions.** `Ask`, `Gate` (the fast path, or the sample and the choice of a route), `Soft`
and `Eased` and `Pace` (the soft line), `reclaim_hard` and `Look` (the hard line),
`Nap`, `reclaim_hard`, `Again` (a tick of the stall), `Refuse`, and `Use` or `Refused` for the
caller's way on. Between asks a program allocates (`Submit`), speculates on
`governor_fits` (`Speculate`), and time passes. The machine moves at any time: work
finishes, handlers run, the OS takes pages back, another thread drops an array, other
processes come and go. What the page-cache sweep does to the free list is a choice of
`FreeReads`; how long `pace` sleeps is a delay.

**Run.** A part of `runtime_rest` (section 7), under fairness of the caller (`Admit`) and the
device (`Finish`).

**Bounds.** Budget 2, ceiling 3 and at most 3 units held, so that live arrays alone,
retained memory alone, and other processes (up to 2) can each cross a line. A stall is
three ticks: one for a late handler and one for each age of released pages. With two
`RefusedForNeed` fails, so the assumption `StallTicks >= 3` is tight; in the code it is 5
seconds of 10 ms ticks against handlers that take microseconds and an OS that takes up to
about a second (`memory.cc` 799-809).

**Proved** (`RuntimeRestProofs`): `RefusedForNeed` (`OnlyForNeed`) and `BigWithinBudget`
(`BigKeepsBudget`), for every setting. A
refusal looks at the footprint, which counts memory that is only on its way out. `DrainInv`
says how far that has come: after the first tick nothing is handed, the clear after it
leaves the pool with no more than was live at the ask, and the second and third tick
carry that through both ages of the lag; then a look that is over a line
is over it by live arrays and other processes. The first reclaim alone would not
do: a handler that is late for it refills the pool (the mutant `ReclaimOnce`). For
`BigWithinBudget`, nothing raises the footprint while a caller is in the governor
(`FootprintFalls`), because it holds the submission lock (`Execution`'s `OneSubmitter`).

**Only checked.** `EveryAskEnds`.

**Where the comments and the code part.** Neither has a run. The soft path looks again and
asks only for the soft line, so a caller passes although a hard line was crossed between
its two samples (`memory.cc` 767; other processes must have grown). `pace` sleeps at most
one second a call, so a stream of transfers that each cost more is faster than the
"CUMULATIVE" rate of `memory.cc` 665.

## 7. The rest of the runtime: `runtime_rest`

`MCRuntimeRest` puts the governor and four bookkeepers side by side. `part` chooses one per
behaviour, so the state space is the sum of theirs and not the product: they share no state
in the code either.

**`LoopWindow`** (`control.cc` 229-704, `DispatchSnapshot` of `runtime.cc`). How far the host may
run ahead of the device in a counted loop. A submission is signalled (`done`), then freed by a
handler that runs later (`freed`); a reading is the growth of active bytes across one
submission, which misses what handlers free meanwhile. An iteration may trace a generated kernel, which is then
pending until `settle_msl`, after the run: from there on every submission blocks, and the single-step arm plans
groups of as many iterations as fit the budget (728-733), read once more off the peak counter. `WithinBudget`: no
more in flight than the budget, or than two iterations, in either mode and from one to the other. In the single-step arm the reading is exact because the
handlers are waited for before it; without that wait (the mutant) one late handler halves the
estimate and doubles the window. In the chunked arm nothing waits. `control.cc` 519 says that
what a sample misses "can spoil one sample, not two"; two handlers that are late enough spoil
both, so the property speaks of loops with one reading nothing was freed in (`clean > 0`), or whose chunks all block.
With blocking groups of the op-count period, whatever it holds (the mutant `GroupOfPeriod`), it fails.
Premises: the estimate is no less than what an iteration holds; a submission is not freed
inside its own reading; `METALJAX_EAGER_FLUSH_SYNC=1`. Six iterations make the first sample,
the second, a trim and a steady state, before and after a kernel is traced at any of them; units and budgets are chosen on both sides of each
clamp (`MCLoops`). Proved for every loop.

**`TapeCache`** (`metal_executable.cc` 163-400, `CachedBuild` and `RememberBuild` of `metal_qmm.cc`).
The fused tape of an executable, keyed by the addresses of its weights, and the process-wide cache of
packs. Addresses are recycled: `Replace` puts a fresh array on any free address, `Overwrite`
writes a weight in place. `PacksAreOfTheirBuffers`: no pack answers for another buffer at a
recycled address, for which the weak handle is needed (the mutant compares addresses).
`RepacksEnd`: weights that change at every call are repacked a bounded number of times; proved.
`DeadGoFirst`: no living pack makes room while a dead one is kept. The run `stale_pack` shows what the key
does not see: a weight written in place twice can come back under its first descriptor address.

**`Cadences`** (`eager_flush`, `flush_bound`, `loop_account`, `ingest_account`).
`GrantNeverShrinks`: from one flush of a program to the next the pool's bound
never shrinks on the same machine, whatever the pool holds; it fails when the last live
sample is taken for the extremes, or when the pool counts against itself. Proved for every
configuration.

**`LoopSpec`** (`loop_spec` and `run_chunked` of `control.cc`, `compiled_spec` and the drops of `compile.cc`, the slices of
`ops_shape.cc`, `AppendStartPlan` of `metal_lowering.cc`). With `METALJAX_LOOP_SPECIALIZE=1` the body of a counted loop is compiled
once per chunk, and a start index that hangs on the counter alone becomes a number in the graph. The body is data
(`LoopBodies`): inputs, one of them the counter, index arithmetic, slices. A step is the decision of `run_chunked`, its probe, one more
table, one chunk by either graph, or a failure at any of these, and then one of the ways in which tables and graphs are dropped.
`WindowsAreWhereTheyAre`: whatever the other inputs hold, each iteration of the last chunk was traced at the starts its slices
mean, which are narrowed and clamped. It relates two lookups (a graph under its positions, a table under one) and two walks
(the table's and the iteration's) and fails when all the applications of a chunk are traced in one scope, when a start is folded as spelled,
or when every small input seeds the walk. `TablesOutliveGraphs`: a graph holds its tables by pointer, "for the life of the program", and
four paths drop one or the other. Bounds: three inputs, up to four entries, indices of three bits so that narrowing and both ends of
the clamp happen at positions up to 4, chunks of two with and without a rest, room for three tables so that the fourth is refused.
Kept out: slices of rank 0, for which the plan would keep an axis that is not there; and a second counter slot for one body,
since a body belongs to one loop (`spec_counter_` clears the tables and not the graphs).
`METALJAX_LOOP_SPECIALIZE_MAX` bounds the chunks of a call: a body called at other starts gathers graphs up to `kSpecCacheMax` tables.

**Proved** (`RuntimeRestProofs`): `WindowsAreWhereTheyAre` (`SpecializedWindows`) and `TablesOutliveGraphs` (`HeldTables`), for any
bodies and calls that `LoopSpecAssumption` admits, which says no more than that an entry reads what is before it and has its arguments. `SpecInv` says that each
table kept is one `loop_spec` made for its position, for some set of entries whose step threw; a graph holds tables that are kept, under its
positions; and the call at hand has those it gathered. What a table says is an induction over the body's entries
(`StaticIsValue`): where the walk has a value at all, it is the slot's, since nothing enters it but the counter and constants. The plan adds
that an axis without a start has the start zero (`PlanIsExact`).

**Proved** (`RuntimeRestProofs`): `PacksAreOfTheirBuffers` (`PacksAreCurrent`), `DeadGoFirst` (`RoomFromTheDead`) and
`RepacksEnd` (`RepackingEnds`), for any weights, addresses and limits. The first two rest on `CacheInv`. A weight has a generation that
is never used again, no two living weights share a buffer, and every key, of a tape or of a pack, is
faithful: the weight it was made of, as long as it lives, has the buffer the key says (`Faithful`). A match of
an address and a weak handle that is alive then names one weight (`MatchesSame`), whatever was allocated in between.
`RememberBuild` drops the dead before it counts, so that a living pack goes only when all are alive.
`RepackingEnds` rests on `RepackInv`: a fused tape that was built
is paid for by the first call or by one repack of either kind (`Paid`); a full repack past
`MaxRepacks` builds nothing; the repacks of projections end with `projOff` (`ProjEnds`); and
a call that finds neither a fused tape nor `fuse_done_` is the first (`FirstIsFree`).

**Proved** (`RuntimeRestProofs`): `GrantNeverShrinks` (`GrantMonotone`) and `WithinBudget` (`WindowBounded`). The first needs that a flush only widens what has been observed (`Widens`): the high
water rises, the low water falls, the count of flushes rises, so each clamp of `flush_bound` is
monotone, and that the footprint without the pool does not depend on the pool.

The second rests on `WindowInv`, the same for both arms up to a point: what is not signalled is
in the ring, or a blocking submission is the last (`RingInv`), and any `n` submissions of the queue
hold at most `n` times the widest (`WideInv`). The single arm is then in one of three phases
(`SingleInv`). Before a reading nothing is in flight when the next iteration is built, and that iteration is a
reading (`Fresh`): this is what makes the reading exact. After an asynchronous one the plan is of the true size
(`Informed`). After a blocking one every submission blocks, so that one is in flight at a time and a group is what has
to fit (`Blocking`, `BlockFits`). There is no way back, since a kernel once pending stays so; and an iteration that traces one
in the asynchronous phase is submitted under the plan made for the window, which `PlanFits` bounds as well. What is
left is arithmetic under the clamps of `GroupOf` and `WindowKeep`. The chunked
arm only needs that its window is that of the largest reading, and that nothing is left in flight by chunks that
block (`ChunkInv`). `LoopWindowAssumption` gives the constants their types and no more: not even that the estimate is
large enough, which is a premise of the window's engaging (`Engaged`).

## 8. The lowering: `lowering`

`MCLowering` runs four parts side by side, as above.

**`Tape`** (`metal_lowering.cc` 3278-3525, 7096-8415, 9428-10066; `interpret` and `run` of `program.cc`).
A source program grows op by op and is lowered as it grows, into entries over numbered slots;
then `CsePass`, `FoldConstants`, `DcePass` and `Finish` rewrite it and `Step` walks the
result. An array is a record of the expression it holds, the `mx::array` it is, and the
buffer it lives in. Calls of the host are a log. `MeansItsSource`: the outputs and the
log are those of the source. `HeldExactlyWhileNeeded`: a slot is let go after its last reader,
no sooner and no later. `OutputsAreFreshInPlace`: no output is an argument, a constant or another
output's array, unless it was donated. Programs of up to three ops over four alphabets (`MCPrograms`):
the merging ones, the ones with effects, views with branches (two ops where nothing is donated), loops with constants; two trips
of a loop tell a permuted carry. The run `loop_alias` checks the same freshness for loops that
permute their carries, where it fails: the taint is restated once, and a swap needs it twice.

*Proved* (`TapeProofs`): `HeldExactlyWhileNeeded` (`SlotsHeldExactly`), for programs of any length, any
loop bodies and trip counts, any sizes and either setting of the passes. Whether a slot is let go too early is
decided by what four rewrites left of the entries, so the invariant `TapeInv` follows their form. While a block is lowered,
every value it knows is bound to a slot some entry has made (`LoweredTo`, shown for each case of
`LowerOpImpl` by `OpLowers`). From then on the tape is `WellFormed`: no two entries make the same slot, none
makes an argument's, and what an entry reads, or the block returns, was made before. `MergedFlows` carries
that through `CsePass` (a remapped slot is that of a kept twin, further up), `FoldedFlows` through `FoldConstants` and
`NeededFlows` through `DcePass` (a kept entry keeps what it reads alive). For folding, `ClassifiedIs` shows that the worklist is empty
when it has run as often as there are entries, as each is queued once: everything argument-independent behind the boundary is
then kept or folded, so that a folded entry's operands may go. `LastUseIs` and `StepHolds` say the rest: the walk
holds what is wanted later of what was made before (`Holds`). The assumptions name the arguments `1 .. n`, give the flags and
sizes and programs their types, and the loops two carries as `LoopOp` has.

The passes are written as recursive functions on the tape. `Induction` supplies what their proofs need:
induction over the naturals stated on sets (`Induct`, `InductTo`, from the library's well-foundedness of `<`), a least element
(`LeastMember`), and that a function defined by recursion exists (`Chain` where a step looks one back, `Course` where it
looks at everything before), so that the function TLA+ chooses satisfies its own equation.

Proved too: `OutputsAreFreshInPlace` (`OutputsFresh`), for whatever donations a call takes back. What an output is, the walk decides;
whether it is copied, the lowering did, from taints. The invariant `FreshInv` relates the two. The frame is `Charging`: every entry
charges what it writes with at least the taints of what it may hand back. `OpCharges` shows it for each kind of op. A loop
does so because a carry stays in its place; this is where the swap of `loop_alias` fails. `CsePass`
needs more than "at least": it lets one slot stand for another, so entries that can be merged
must owe their result one taint exactly (`Due`), and twins are then charged alike (`MergedCharged`). In the walk every array
`Fits` its slot's charge: an argument's array is only where the taint names that argument, the constants' buffer
only where `const_view_` has the slot (`ResultsFit`, with `LoopFits` over the trips). At the end an output that was not copied is therefore nobody's, or
a donation's that was not taken back, and differs from the others by the pass over duplicates (`HandedFresh`). Only `@main` copies,
so nothing is said of regions, and `FoldConstants`, which changes regions alone, need not keep the charges.

And `MeansItsSource` (`TapeMeansItsSource`), for blocks of any length. Between the arrays of the source and those
of the walk the proof puts a valuation: a term for every slot, and the calls made in front of every entry. A tape `Tells`
one when each entry's results have the terms the entry makes of its operands' (`Term`). The valuation of a block comes from its lowering:
the frame is `Denoted` when it tells a valuation that gives every known value the term its array bears in the source (`Meaning`) and every
payload slot its payload. `OpKeeps` shows that for each kind of op; a slot shared by equal payloads, and by the splat broadcasts
of a constant, is where it could fail. From then on the valuation is fixed and the passes must respect it, which is why it is
stated on slots and not on positions. `CsePass` may let one slot stand for another
because entries with one key have one term (`MergedTells`, `Faithful`). What `FoldConstants` has evaluated on the side bears
the terms the tape tells (`FoldedTells`): the walk over the argument-independent entries reads only what an earlier one of them wrote
(`FoldingHolds`). `DcePass` keeps every call (`NeededTells`). Both gather a part of the tape, and where no call is
left out the calls are renumbered and otherwise the same (`GatherTells`). In the walk, whatever a slot still holds bears
its slot's term (`Walks`); that an entry finds its operands is `TapeInv`'s part, and so is that an output is still
there at the end. A loop's results depend on its operands' terms alone, by induction on its trips (`LoopTerms`), and the copies
`Return` makes change no term. The terms are symbolic: an op of the same name on the same terms is taken to compute the same,
and what it computes is the matter of the other modules.

**`RewritePlan`** (`LowerModuleFused` and the ten `Analyze*`). What a recognizer's pattern finds
is a candidate (its root, the ops it computes itself, what its fused call reads, what it
takes over); the module follows who claims first, the use-count discipline, what a builder gives
back and what `rebuild` makes of the maps. `PlanLowers`: every operand of every op that is
still lowered has a slot. `dead_pack_root` shows `RootsAreLive` violated: `rebuild` forgets one
map.
`RewritePlanAssumption` says what a candidate is, in named parts, each a fact of the matchers that
TLC evaluates on every block: a match is a tree below its root; its call reads what its tree reads
(and an expert dispatch what the matmuls it takes over read); no call reads what another match of its
recognizer computes for itself (a norm of an unweighted norm would break it: `AnalyzeNorm`
seeds no reads as `AnalyzeRagged` does); a ragged dot's masks and slices are no other
recognizer's roots, and its slice of the weights is read directly by its root
(`metal_ragged.cc` 1270-1279); an attention is in no expert dispatch. `PlanLowers` has one premise on
the run besides, `Unshared`: a match that is given up shares no absorbed op with one of its
recognizer that stays (`metal_recognize.h` 870-882 and `metal_qmm.cc` 2642 say so without checking it). It is needed:
`AnalyzeMla` (`metal_mla.cc` 885-951) and `AnalyzeGdn` run their fixpoint once and drop the matches that are not
complete after it, so a mask that two attentions share, one of which leaks another of its ops, stays absorbed by
the one that stands while the other is lowered op by op and reads it: the fused tape is lost.

Proved: `PlanLowers` (`AnyPlanLowers` in `RewritePlanProofs`), for blocks of any size and any candidates the assumption
allows. It speaks of the last state alone, so the invariant `PlanInv` says what every recognizer leaves
for that state. Of each it keeps who reads what is absorbed: a match of the
same recognizer that has the op as well, were it one given up since (`JointInv`, where matches are claimed together, so
that a later drop is visible), the match itself (`AloneInv`), or the matches that stay (`ShutInv`). `OneOwner` is part of
it, for all states; so are that recognizers further on have claimed nothing (`Unreached`), that the members of a pack
are still dots that were kept (`Dots`), so that giving them back changes nothing, and that `skip` and the root maps are the
plan's from the last analysis on (`RootsInv`). One lemma per recognizer says what its fixpoint
finds (`PrunedJoint`, `MoeFinds`, `RaggedFinds`, `ChainsFind` ...), one per action that the invariant is kept. A builder may only drop
or give back (`Builds`), which keeps each part by itself. At the end `Inside` holds under `Unshared`:
a reader of an absorbed op is owned by the same recognizers, so it is absorbed too or runs a call. A plain op
therefore reads nothing absorbed but second results, whose readers come after their root (`BoundIs`). For a call, `ReaderIs`
finds an op of its own recognizer that reads its operand, and two recognizers that own one op are of one family (`OneFamily`). What is
left is each family with itself (`CrossSame`) and dispatches against the matmuls they took over: a matmul
that reads into a dispatch is in it, root and all (`ChainUp`, along the readers of its ops up to the root), and is no call.
No pattern of another recognizer is in a ragged dot's masks (`RaggedApart`, from the greatest op of such a mask that were).

**`KvRewrite`** (`metal_lowering.cc`, namespace `kv`). A loop body that rebuilds its cache from slices
with updates becomes a chain of in-place writes. A body grows op by op and, when accepted, is
lowered; `KvIsLiteral`: the cache it carries and everything read off the tree is what the body says,
in every environment of its scalars. A cache of 3 by 2, two updates, one read. The comment calls the
rewrite "an algebraic identity" and "bit-exact" (lines 2375 and 2381). It is not for every body it accepts:
`kv_slabs` lets any value of the cache's shape be cut in two and written into, and finds one that
writes into the whole cache, keeps some rows of the result and takes the others from the carry;
where the write lands in the others, the body drops it and the chain does not. `TryCarry` asks when
a value is read outside the tree only, and its comment's "a value's content is exactly one rectangular
window of the chain" fails for a value whose updates are cut off. Three bodies are kept out of the inputs
of `lowering`: those (its slices are of the carry); an update that writes a value of the tree (a later
write changes it under the read, and `LastReadPos` does not look at operands of updates); and scalars that
`StructKey` takes for equal because it names a block's arguments by number only, so that a captured argument
and one of the body's can share a key (`SpelledAlike`). None is in the form of the caches the rewrite was
written for. `Formed` is what StableHLO's verifier asks of an op.

**`FusedOps`** with `Ragged`, `Stacked`, `Sdpa`, `Norm`, `Moe`. Each graph, jax's spelling or one
close to it, is put to its recognizer; where it matches, the emitted op is evaluated beside
the chain it replaces. `FusedMeansItsChain`: they agree element for element. The inputs are not all
graphs: a `MC` module spells the chains in the ways jax does and changes each of their parts in
turn, so that both answers of each test happen.

* *Ragged dots.* Offsets by cumulative sum, one-hot counts or a decode of ids. Premises: ids are
  clipped at 0 as `jnp.bincount` does (`PeelClip` takes any bound that is not negative, while
  the decode form reads the unclipped ids), and interval ends ascend in the base form.
* *Stacked weights.* `WeightMin` is `kStackedWeightMin` scaled from 16384 to 2.
* *Attention.* Axes by name through transposes, reshapes and broadcasts, masks of three kinds, sinks, both tiers.
  Kept out of the inputs, because the code takes graphs there that it does not reproduce: a factor
  multiplied after the sink is concatenated scales the sink in the chain alone; a maximum
  subtracted before the concatenation is dropped though the sink was not shifted; a mask added
  after it is one wider than what its recipe indexes; and with two selects, rows that are masked
  throughout differ. The checks for two sinks and two slices (1238, ≈1450) are asked
  before the recursion that would find them. Logits are assumed to stay 88 above the sentinel.
* *Norms.* RMS and layer norms, weights, offsets, biases, and the dtype each is formed in. The root
  broadcast's dimensions are not checked by the matcher (≈664-668): inputs have the identity.
* *Mixtures of experts.* The router, a dense dispatch in any order of axes, the experts' dots, the
  gathered form. Inputs keep to what the matcher assumes unasked: data is laid out with its free axes before
  the contracted one; a callee has at most one view of a value that is neither per expert nor per
  token, and no token-only dot with batching dimensions; at most one conversion between
  product and sum. A sum over unselected experts that meets `0 * inf` is NaN only in the dense form.
  Numbers are exact here; top-k's result number, packed weights and `METALJAX_MOE_VERIFY=0` are left out.

**Only checked.** `KvRewrite` and the fused ops: what they say is of what a term or a graph evaluates to,
by recursion over data whose form a recognizer takes apart case by case.

## 9. The pure algorithms: `algorithms`

`MCAlgorithms` picks one input of one algorithm, or grows an index expression, and each invariant compares
it with what it has to compute.

* **`IndexRange`** — the interval analysis behind "provably in bounds". A node keeps its values under
  every content of the inputs beside the range the analysis gives it; `NothingDropped`: what is
  called in bounds is. Ranges ignore the width of integers and `read_index_plan` casts to `int32`: the values here stay inside.
  `negative_exactly` shows a predicate taken for another through two broadcasts of one operand. Proved for expressions
  of any length over any contents of the inputs (`NothingIsDropped`), those two broadcasts kept out. The inductive
  invariant, `NodesAre`, says four things of a node: its ranges hold its values (`Sound`); it is a view of the node that
  `PeelIndexView` strips it to (`Views`); a predicate recorded as `x < 0`, implied by it or always true is so
  (`NegIs`, through `and` and comparisons in `ConjunctionIs` and `ComparisonIs`); and an addition or remainder has the operands
  it names (`OpIs`). The last three are what jax's normalization needs: `select(i < 0, i + D, i)` is below D because the
  predicate is exactly `i < 0`, and where i is a remainder, because its divisor is a view of the very D that is added
  (`SameDivisorIs`). Also kept out: true as an i1 constant. `ConstantRange` reads it as -1, against the comment `[0, 1]`
  (5024), and a range converted from it would miss the value 1. `ExpressionsFormed` states all this and is
  evaluated for the expressions of the run.
* **`GatherScatter`** — `IndexedOpsAreExact`: gather, scatter with each drop rule, `dynamic_slice` and
  `dynamic_update_slice` by StableHLO's definition. All dimension numbers over operands of rank 1 and 2 with
  indices on both sides of the bounds. Proved for operands, index arrays and windows of every rank and extent and
  indices of any size (`IndexedOpsAreAlwaysExact`), of inputs the verifier admits (`GatherFormed`, `ScatterFormed`;
  every input of the run is one) that the lowering does not refuse. What it refuses carries the argument: with no dimension
  indexed twice (`AxesDiffer`) and one entry per component of the index vector (`PlanIs`), a clamped start is StableHLO's
  and its slice lies in the operand (`PlanStarts`), and the drop predicate is "the window does not fit" (`BoundsAre`).
  The permutations either way are inverse to each other (`TransposedBack`, `TransposedFront`), so a result coordinate is a batch
  coordinate and an offset (`ResultParts`) and an update element is one of each (`MergedIs`, `PartsMerge`). A write that is to
  be dropped is then a no-op, or starts at the operand's extent along the padded dimension and stays in its padding
  (`WriteIsExact`). Assumed: starts that are called proven are in bounds, which is `NothingIsDropped`.
* **`HostTransfer`** — `TransfersAreWhole`: what comes back is what was sent; the pages given back are those of the bytes
  that were read, or none; and the callback runs once on every outcome but one. Strides of both signs and of
  0, every step failing. The code gives back a view's bounding box unless that is more than twice what was copied
  (644): the property says that a view which fills its box gives it back, and that one which reads no byte twice never gives
  back more than twice what it read. A view that repeats its elements (a stride of 0) passes the code's test by the bytes
  it copies, however sparse it is, against the comment's "bytes this transfer never read". The one outcome is the run
  `host_released`: `metal_client.cc` 603 says "The callback still runs", and the failure of the second
  allocation (665), of an emulated type's decode, returns without it. Proved for arrays of every rank and shape and strides of either sign
  (`TransfersAreAlwaysWhole`). `TurnedIsNext` shows that a turn of the odometer moves on by one in row-major order, by
  induction over the dimensions; with `PlacesDiffer` (no two coordinates share a place) it passes every element once, so the ends of the
  bounding box, which lie at corners of the array (`CornersAre`), are among the bytes that were read. `NarrowIs` is the
  narrowing in place. Assumed of the input: one of the wire types, and that what is sent of an emulated type are codes.
* **`LoopPlan`** — `CountedIsExactInIntegers`: a loop whose condition is never evaluated runs the
  iterations it would have. A float counter does not: `SplatInt` truncates (1193, which
  `notes/cpp-p3-control.md` 96 intends for other uses), so that `while x < 0: x += 1.0` from -1.5 is taken for a loop of
  one trip, where the condition lets two run (`CountedIsExact` is the claim of 1264 for every counter; no run asks it). Proved for counters of every width below the 64 bits
  of a trip count (`CountedExactly` in `AlgorithmProofs`): a bound that fits the counter's type is reached
  before the counter wraps. An unsigned counter of 64 bits is kept out: at or above 2^63 it is read as
  negative (`item_int`), so that a start above a bound on the other side of 2^63 looks like a long loop. `GraphsFit`: what is traced whole or chunked keeps
  MLX's limits, through nested loops and calls. Proved for programs of any nesting and any limits that are integers
  (`GraphsAlwaysFit`), of inputs as the lowering has them: the blocks of a program come inner ones first, and the values
  of a frame are used after they are made (`BlocksFormed`, `CarriesFormed`). What an op holds when it is traced is at most what it
  was charged (`OpCharged`), if it is one that `BlockIsPure` admits. `TracesCharged` carries this through the nesting by
  induction over the blocks. A chunk's budget is then the quotient by that charge (`ChunkFits`). A body is netted of what the chains
  of its accumulators were charged, and this is at most what was charged at all because no op is in the chains of two: each
  accumulator's chain is bounded by the ops rooted at it (`ChainBound`), and the roots split the ops (`SplitSums`).
* **`Reductions`**, **`Windows`**, **`Convolution`** — `WindowsAreExact`: every element of a reduction, a window, a
  select-and-scatter, a pad or a convolution is the fold of the elements StableHLO names, over strides, dilations,
  negative pads and groups. `WindowMax` is `kWindowMax` scaled to 24, so that both the one-view form
  and the declined one happen. Folds are compared up to their initial value. Kept out: a window
  wider than its padded axis in `select_and_scatter` (369-374 truncates towards zero, the trap that
  `ops_conv.cc` 33-39 avoids, and reads one window too many); a base-dilated empty axis, whose
  extent comes out negative in `BuildWindowPlan`; and a pad that ties with an operand of minus infinity, where the
  pad wins against the comment that it "must never win".

Sizes are the least at which each branch of the code is taken by two different inputs.

## 10. What is not modelled, and why

*Numerics*: element-wise arithmetic, random bits, factorizations and rounding. They have no
state, and their correctness is not a question of control. *Generated source*: the text of
Metal kernels (`metal_msl.cc`, `metal_msl_emit.cc`) is data; whether a kernel can be built is `bad` in
`ProgramLadder`. *Packed weights*: the reconstruction that `metal_qmm.cc` recognizes enters as
candidates of `RewritePlan` and keys of `TapeCache`. *Rope, gated delta nets, latent attention*: their
matchers enter as candidates. *Configuration* and the *PJRT glue*: constants and forwarding. The
parser of StableHLO attributes is left out where it only reads them.

Out of the prover's reach, and so checked by TLC only: liveness under fairness. Recursive functions along a sequence
are within it (`Induction`); not proved all the same are the invariants about what terms, graphs and windows evaluate to:
`KvIsLiteral`, `FusedMeansItsChain` and `WindowsAreExact`.

## 11. Running

```
tlc -config MCProgramLadder.cfg MCProgramLadder
tlc -config MCExecution.cfg MCExecution
tlc -config MCRuntimeRest.cfg MCRuntimeRest
tlc -config MCLowering.cfg MCLowering
tlc -config MCAlgorithms.cfg MCAlgorithms
```

with a violation to be found in

```
tlc -config MCLoopAlias.cfg MCLowering
tlc -config MCKvSlabs.cfg MCLowering
tlc -config MCNegativeExactly.cfg MCIndexRange
tlc -config MCRefusal.cfg MCProgramLadder
tlc -config MCHostReleased.cfg MCAlgorithms
tlc -config MCStalePack.cfg TapeCache
tlc -config MCDeadPackRoot.cfg MCRewritePlan
```

and the proofs

```
tlapm DynamicWhileProofs.tla
tlapm ProgramLadderProofs.tla
tlapm ExecutionProofs.tla
tlapm AlgorithmProofs.tla
tlapm RuntimeRestProofs.tla
tlapm TapeProofs.tla
tlapm RewritePlanProofs.tla
tlapm Induction.tla
```

tlapm 1.4.5 gives Z3 an axiom that takes anything with the domain `1 .. n` for a sequence of length n, and
the other way round: "`DOMAIN s = 1 .. n` if and only if `Len(s) = n`", of every `s`. The second half is false of an `s` that is no sequence. So every proof
was checked once more with that half taken out of the axiom.

`MCNorm` and `MCMoe` spell graphs that `MCFusedOps` gathers beside its own; `Arrays` and
`Case` hold what several modules share. Operators marked `(mutant)` in the modules are not part of any
specification: each is a plausible bug of the definition that follows it, and
substituting it must make TLC report the property named with it in `PROJECT.json`.

---------------------------- MODULE ProgramLadder ----------------------------
(***************************************************************************)
(* `Program::run` and the recovery ladder under it: what is compiled, what *)
(* has been proven buildable, and what each failure retires (program.cc,   *)
(* compile.cc, msl.cc and the counted arms of control.cc `run_while`).     *)
(*                                                                         *)
(* The main tape is a host call (if any) and a sequence of counted loops,  *)
(* whose bodies may hold a host call too.                                  *)
(* A loop may be planned into one generated kernel, `Own[l]`, and its body *)
(* may hold one more, `Inner[l]`.  Three kinds of thing are BUILT, by the  *)
(* first eval that walks them, and that build can fail: a kernel, main's   *)
(* compiled graph, and the compiled graphs of a loop's body.  A kernel     *)
(* traced into a graph is built with that graph.                           *)
(*                                                                         *)
(* `owed` is what the lazy values of the current attempt still have to     *)
(* build.  An async submission of something owed that cannot be built      *)
(* leaves MLX's events attached and unsignaled, and the next blocking eval *)
(* waits for ever: `wedged`.  A loop is abstracted to one replay of its    *)
(* body and one submission; what is thrown is "oom" (the governor's        *)
(* refusal), "limit" (Metal's buffer limit) or "error".                    *)
(***************************************************************************)
EXTENDS Naturals, Sequences

CONSTANTS
  Main,        \* the main tape; the program of a loop's body is named l
  Plans,       \* generated kernels (MslPlan)
  NoPlan,      \* "not planned into a kernel"
  LoopSeq,     \* the loops of the main tape, in tape order
  Own,         \* Own[l]: the kernel standing for loop l, or NoPlan
  Inner,       \* Inner[l]: the kernel a body of l holds, or NoPlan
  Lowered,     \* the sets of plans that may be lowered with their loops
  BadSets,     \* the sets of things Metal may turn out unable to build
  HostSites,   \* the sets of tapes that may hold a host call
  SpecEnabled, \* METALJAX_LOOP_SPECIALIZE
  MaxRuns      \* bound: executions of the program

Loops == {LoopSeq[i] : i \in 1 .. Len(LoopSeq)}
Programs == {Main} \cup Loops

\* The keys of `compiled_` and `spec_compiled_`: a program replayed once,
\* K times, or specialized to the positions it runs at.
MainGraph == <<Main, "one">>
Graphs == {MainGraph} \cup (Loops \X {"one", "many", "spec"})

ASSUME LadderAssumption ==
  /\ LoopSeq \in Seq(Loops) /\ LoopSeq # <<>>
  /\ Main \notin Loops
  /\ NoPlan \notin Plans
  /\ Own \in [Loops -> Plans \cup {NoPlan}]
  /\ Inner \in [Loops -> Plans \cup {NoPlan}]
  /\ Lowered \subseteq SUBSET Plans
  /\ BadSets \subseteq SUBSET (Plans \cup Graphs)
  /\ Plans \cap Graphs = {}
  /\ HostSites \subseteq SUBSET Programs
  /\ SpecEnabled \in BOOLEAN
  /\ MaxRuns \in Nat

\* Every while entry is lowered with an MslPlan of its own (LowerMslPlan).
ASSUME PlansAreOwned ==
  \A l, m \in Loops :
    /\ Own[l] # NoPlan => Own[l] # Inner[m]
    /\ Inner[l] # NoPlan /\ l # m => Inner[l] # Inner[m]

\* No generated kernel calls the host.
ASSUME HostsAreNotPlanned ==
  \A sites \in HostSites : \A l \in sites \cap Loops : Own[l] = NoPlan

VARIABLES
  pc, pos,             \* where the run stands; the loop it is at
  exc,                 \* what the attempt threw
  compiles, host,      \* main's compile_ flag, has_host()
  sites,               \* the tapes that hold a host call, main or a body
  bad, fallback,       \* what cannot be built; the plans with two regions
  dead, validated,     \* MslPlan::dead_, validated_
  disabled,            \* Program::compile_disabled_
  noChunk, specOff,    \* Program::no_chunk_, spec_state_ = 2
  graphs, embeds,      \* the graphs cached, and the kernels traced into each
  pending,             \* t_msl_pending
  owed, built,         \* still to be built; built in this process
  used,                \* this attempt called main's compiled graph
  attempt, round, retries, runs,
  effects,             \* host calls made by this run: [0] by main, [i] by an
                       \* iteration of the loop at position i
  wedged, exhausted    \* an unproven async submission; a limit was ever hit

facts == <<compiles, host, sites, bad, fallback>>
cached == <<graphs, embeds>>
retired == <<dead, disabled, noChunk, specOff>>
counters == <<attempt, round, retries, runs>>
vars == <<pc, pos, exc, facts, dead, validated, disabled, noChunk, specOff,
          cached, pending, owed, built, used, counters, effects,
          wedged, exhausted>>

Cur == LoopSeq[pos]
Sites == 0 .. Len(LoopSeq)
Alive(p) == p # NoPlan /\ p \notin dead

\* A dead plan lowered without its loop: nothing is left to run in its place.
Missing(p) == p \in dead \ fallback

\* The plans a trace of g comes to: of a body, the one inside it; of main,
\* which inlines the loops that no live kernel stands for, those too.
PlansIn(g) ==
  {p \in Plans :
     IF g = MainGraph
       THEN \E l \in Loops : p = Own[l] \/ (~Alive(Own[l]) /\ p = Inner[l])
       ELSE p = Inner[g[1]]}

Init ==
  /\ pc = "idle" /\ pos = 1 /\ exc = "none"
  /\ sites \in HostSites /\ host = (sites # {})  \* has_host() asks the bodies
  /\ compiles \in {c \in BOOLEAN : host => ~c}  \* a host call is impure
  /\ bad \in BadSets /\ fallback \in Lowered
  /\ dead = {} /\ validated = {} /\ disabled = {}
  /\ noChunk = {}
  /\ specOff = IF SpecEnabled THEN {} ELSE Loops
  /\ graphs = {} /\ embeds = [g \in Graphs |-> {}]
  /\ pending = {} /\ owed = {} /\ built = {}
  /\ used = FALSE /\ attempt = 0 /\ round = 0 /\ retries = 0 /\ runs = 0
  /\ effects = [i \in Sites |-> 0] /\ wedged = FALSE /\ exhausted = FALSE

---------------------------------------------------------------------------
(* Building blocks. *)

\* A call of the graph g traces it first, unless it is cached: the live
\* kernels it comes to are embedded, and those unproven become pending
\* (nothing can be evaluated while tracing).
Embedded(g) == IF g \in graphs THEN embeds[g] ELSE PlansIn(g) \ dead
Pended(g) == IF g \in graphs THEN pending
             ELSE pending \cup (PlansIn(g) \ (dead \cup validated))
Traceable(g) == g \in graphs \/ ~\E p \in PlansIn(g) : Missing(p)

Cache(g) ==
  /\ graphs' = graphs \cup {g}
  /\ embeds' = [embeds EXCEPT ![g] = Embedded(g)]

\* What is still to be built for the values of a call of g.
Owes(g) == owed \cup ((Embedded(g) \cup {g}) \ built)

\* A blocking eval builds `things`, or meets one Metal cannot build.
Builds(things) ==
  /\ things \cap bad = {}
  /\ built' = built \cup things
  /\ owed' = {}

\* Why a call and its first eval may fail: something in it cannot be built,
\* or the process is at Metal's buffer limit.
Fails(things, e) == e = "limit" \/ (e = "error" /\ things \cap bad # {})
Note(e) == exhausted' = (exhausted \/ e = "limit")

\* Erase compiled graphs: `compile_erase` and the clear of the two maps.
Forget(gs) ==
  /\ graphs' = graphs \ gs
  /\ embeds' = [g \in Graphs |-> IF g \in gs THEN {} ELSE embeds[g]]
  /\ built' = built \ gs

\* (mutant) The specialized graphs are left in their map.
DropKeepsSpec(n) ==
  /\ disabled' = disabled \cup {n}
  /\ specOff' = specOff \cup ({n} \cap Loops)
  /\ Forget({g \in Graphs : g[1] = n /\ g[2] # "spec"})

\* `drop_compiled` of the program n.
DropCompiled(n) ==
  /\ disabled' = disabled \cup {n}
  /\ specOff' = specOff \cup ({n} \cap Loops)
  /\ Forget({g \in Graphs : g[1] = n})

\* An exception leaves the attempt for run_recovering's ladder; the failed
\* attempt's arrays are gone before the ladder does anything.
Throw(e) == pc' = "catch" /\ exc' = e /\ owed' = {} /\ Note(e)

\* Whatever the chunked arm throws is caught by run_while: the body is never
\* chunked again and the loop starts over from its carries, singly.
Swallow(e) ==
  /\ pc' = "one" /\ owed' = {}
  /\ noChunk' = noChunk \cup {Cur}
  /\ Note(e)
  /\ UNCHANGED exc

---------------------------------------------------------------------------
(* Program::run, and one attempt of run_recovering. *)

Enter ==
  /\ pc \in {"idle", "done", "raised"}
  /\ runs < MaxRuns
  /\ runs' = runs + 1
  /\ pending' = {} /\ attempt' = 0 /\ round' = 0 /\ effects' = [i \in Sites |-> 0]
  /\ pc' = "try"
  /\ UNCHANGED <<pos, exc, facts, retired, validated, cached, owed, built,
                 used, retries, wedged, exhausted>>

Try ==
  /\ pc = "try"
  /\ used' = (compiles /\ Main \notin disabled)
  /\ pc' = IF used' THEN "call" ELSE IF Main \in sites THEN "host" ELSE "loop"
  /\ pos' = 1 /\ exc' = "none" /\ owed' = {} /\ retries' = 0
  /\ UNCHANGED <<facts, retired, validated, cached, pending, built, attempt,
                 round, runs, effects, wedged, exhausted>>

\* (mutant) The first call of main's graph is not proven.
MainUnproven ==
  /\ pc = "call" /\ Traceable(MainGraph)
  /\ Cache(MainGraph) /\ pending' = Pended(MainGraph)
  /\ owed' = Owes(MainGraph) /\ pc' = "settle"
  /\ UNCHANGED <<pos, exc, facts, retired, validated, built, used, counters,
                 effects, wedged, exhausted>>

\* `call`: main's compiled graph, proven on the spot unless a kernel traced
\* into it is pending (settle_msl owns that eval).  run_recovering's own
\* probe repeats an eval that has then just been made.
MainCalled ==
  /\ pc = "call" /\ Traceable(MainGraph)
  /\ Cache(MainGraph) /\ pending' = Pended(MainGraph)
  /\ IF pending' = {} THEN Builds(Owes(MainGraph))
     ELSE owed' = Owes(MainGraph) /\ UNCHANGED built
  /\ pc' = "settle"
  /\ UNCHANGED <<pos, exc, facts, retired, validated, used, counters, effects,
                 wedged, exhausted>>

\* The trace is rejected, before or after it comes to its kernels, or its
\* proof fails.
MainFails ==
  /\ pc = "call" /\ Traceable(MainGraph)
  /\ Cache(MainGraph) /\ pending' \in {pending, Pended(MainGraph)}
  /\ \E e \in {"error", "limit"} :
       /\ \/ Fails({MainGraph}, e)
          \/ pending' = {} /\ Fails(Owes(MainGraph), e)
       /\ Throw(e)
  /\ UNCHANGED <<pos, facts, retired, validated, built, used, counters,
                 effects, wedged>>

\* A host call of the eager walk: the user's function runs, and may raise.
HostCall ==
  /\ pc = "host"
  /\ effects' = [effects EXCEPT ![0] = @ + 1]
  /\ \/ pc' = "loop" /\ UNCHANGED <<exc, owed, exhausted>>
     \/ \E e \in {"error", "oom"} : Throw(e)
  /\ UNCHANGED <<pos, facts, retired, validated, cached, pending, built, used,
                 counters, wedged>>

---------------------------------------------------------------------------
(* run_msl: a loop that a generated kernel may stand for. *)

\* `MslPlan::run` outside a trace, of a plan that is alive: the first launch
\* is settled on the spot and validates the plan.
Launch(p) ==
  IF p \in validated
    THEN owed' = owed \cup ({p} \ built) /\ UNCHANGED <<validated, built>>
    ELSE Builds(owed \cup {p}) /\ validated' = validated \cup {p}

\* A failing launch retires the plan, whatever went wrong.
Kill(p, e) ==
  /\ p \notin validated /\ Fails(owed \cup {p}, e)
  /\ dead' = dead \cup {p}

KernelLaunch ==
  /\ pc = "loop" /\ Alive(Own[Cur])
  /\ Launch(Own[Cur])
  /\ pc' = "submit"
  /\ UNCHANGED <<pos, exc, facts, retired, cached, pending, used, counters,
                 effects, wedged, exhausted>>

\* The loop the plan was standing for runs in this very call, if it was
\* lowered; if not, the failure leaves.
KernelDies ==
  /\ pc = "loop" /\ Alive(Own[Cur])
  /\ \E e \in {"error", "limit"} :
       /\ Kill(Own[Cur], e)
       /\ IF Own[Cur] \in fallback THEN Note(e) /\ UNCHANGED <<pc, exc, owed>>
          ELSE Throw(e)
  /\ UNCHANGED <<pos, facts, validated, disabled, noChunk, specOff, cached,
                 pending, built, used, counters, effects, wedged>>

\* run_while reads the entry's regions: of a plan lowered alone, and dead,
\* there are none, and what the read finds is undefined.
RunsNothing ==
  /\ \/ pc = "call" /\ ~Traceable(MainGraph)
     \/ pc = "loop" /\ Missing(Own[Cur])
     \/ pc \in {"many", "one"} /\ Missing(Inner[Cur])
  /\ pc' = "undefined"
  /\ UNCHANGED <<pos, exc, facts, retired, validated, cached, pending, owed,
                 built, used, counters, effects, wedged, exhausted>>

---------------------------------------------------------------------------
(* run_while: the chunked arm. *)

\* K = min(trip, kmax) may be 1, which is the single-step arm; a body that is
\* not pure is not chunkable.
EnterLoop ==
  /\ pc = "loop" /\ ~Alive(Own[Cur]) /\ ~Missing(Own[Cur])
  /\ pc' \in IF Cur \in noChunk \cup sites THEN {"one"} ELSE {"many", "one"}
  /\ retries' = 0
  /\ UNCHANGED <<pos, exc, facts, retired, validated, cached, pending, owed,
                 built, used, attempt, round, runs, effects, wedged, exhausted>>

\* (mutant) A chunk's first call goes straight to the submission.
ChunkUnproven ==
  /\ pc = "many" /\ Cur \notin disabled
  /\ LET g == <<Cur, "many">> IN
       /\ Traceable(g)
       /\ Cache(g) /\ pending' = Pended(g)
       /\ owed' = Owes(g)
  /\ pc' = "manySubmit"
  /\ UNCHANGED <<pos, exc, facts, retired, validated, built, used, counters,
                 effects, wedged, exhausted>>

\* K iterations as one graph, specialized or not, proven whatever is pending.
\* The specialization may decline (no start table): the generic graph is then
\* called at once.
ChunkCalled ==
  /\ pc = "many" /\ Cur \notin disabled
  /\ \E kind \in {"many"} \cup (IF Cur \in specOff THEN {} ELSE {"spec"}) :
       LET g == <<Cur, kind>> IN
       /\ Traceable(g)
       /\ Cache(g) /\ pending' = Pended(g)
       /\ Builds(Owes(g))
  /\ pc' = "manySubmit"
  /\ UNCHANGED <<pos, exc, facts, retired, validated, used, counters, effects,
                 wedged, exhausted>>

\* `drop_spec`: a specialized graph that fails leaves the generic one.
SpecFails ==
  /\ pc = "many" /\ Cur \notin disabled /\ Cur \notin specOff
  /\ LET g == <<Cur, "spec">> IN
       /\ Traceable(g)
       /\ \E e \in {"error", "limit"} : Fails(Owes(g), e) /\ Note(e)
       /\ pending' \in {pending, Pended(g)}
       /\ Forget({g})
  /\ specOff' = specOff \cup {Cur}
  /\ UNCHANGED <<pc, pos, exc, facts, dead, disabled, noChunk, validated, owed,
                 used, counters, effects, wedged>>

ChunkFails ==
  /\ pc = "many" /\ Cur \notin disabled
  /\ LET g == <<Cur, "many">> IN
       /\ Traceable(g)
       /\ Cache(g) /\ pending' \in {pending, Pended(g)}
       /\ \E e \in {"error", "limit"} : Fails(Owes(g), e) /\ Swallow(e)
  /\ UNCHANGED <<pos, facts, dead, disabled, specOff, validated, built, used,
                 counters, effects, wedged>>

---------------------------------------------------------------------------
(* A body replayed eagerly, by either arm.                                 *)

\* drop_compiled, or a host call: a body that is not pure is never compiled.
Eager(l) == l \in disabled \cup sites

\* The iteration made its host call; it was made before what went wrong, or not.
BodyCalls ==
  effects' = IF Cur \in sites THEN [effects EXCEPT ![pos] = @ + 1] ELSE effects
BodyMayCall == UNCHANGED effects \/ BodyCalls

EagerBody ==
  /\ pc \in {"many", "one"} /\ Eager(Cur)
  /\ ~Missing(Inner[Cur])
  /\ IF Alive(Inner[Cur]) THEN Launch(Inner[Cur])
     ELSE UNCHANGED <<owed, validated, built>>
  /\ pc' = IF pc = "many" THEN "manySubmit" ELSE "submit"
  /\ retries' = 0 /\ BodyCalls
  /\ UNCHANGED <<pos, exc, facts, retired, cached, pending, used, attempt,
                 round, runs, wedged, exhausted>>

\* The kernel inside dies and its loop, if lowered, takes its place; if not,
\* BodyRunner redoes the iteration after a limit, as it does below.
InnerDies ==
  /\ pc \in {"many", "one"} /\ Eager(Cur) /\ Alive(Inner[Cur])
  /\ \E e \in {"error", "limit"} :
       /\ Kill(Inner[Cur], e)
       /\ IF Inner[Cur] \in fallback \/ (pc = "one" /\ e = "limit" /\ retries < 3)
            THEN Note(e) /\ UNCHANGED <<pc, exc, owed, noChunk>>
          ELSE IF pc = "many" THEN Swallow(e)
          ELSE Throw(e) /\ UNCHANGED noChunk
       /\ retries' = IF Inner[Cur] \notin fallback /\ pc = "one" /\ e = "limit"
                       THEN retries + 1 ELSE retries
       /\ IF Inner[Cur] \in fallback THEN UNCHANGED effects ELSE BodyMayCall
  /\ UNCHANGED <<pos, facts, validated, disabled, specOff, cached, pending,
                 built, used, attempt, round, runs, wedged>>

\* The governor refuses at one of the body's own eager flushes, or the user's
\* function raises.
BodyRefused ==
  /\ pc \in {"many", "one"} /\ Eager(Cur)
  /\ IF pc = "many" THEN Swallow("oom") 
     ELSE /\ \E e \in {"oom"} \cup (IF Cur \in sites THEN {"error"} ELSE {}) : Throw(e)
          /\ UNCHANGED noChunk
  /\ BodyMayCall
  /\ UNCHANGED <<pos, facts, dead, disabled, specOff, validated, cached,
                 pending, built, used, counters, wedged>>

---------------------------------------------------------------------------
(* BodyRunner: the single-step arm. *)

\* Bound afresh at every loop entry, it probes the compiled body's first call.
OneCalled ==
  /\ pc = "one" /\ ~Eager(Cur)
  /\ LET g == <<Cur, "one">> IN
       /\ Traceable(g)
       /\ Cache(g) /\ pending' = Pended(g)
       /\ Builds(Owes(g))
  /\ pc' = "submit" /\ retries' = 0
  /\ UNCHANGED <<pos, exc, facts, retired, validated, used, attempt, round,
                 runs, effects, wedged, exhausted>>

\* A failing compiled body is dropped and the iteration redone eagerly.
OneRejected ==
  /\ pc = "one" /\ ~Eager(Cur)
  /\ LET g == <<Cur, "one">> IN
       /\ Traceable(g) /\ Owes(g) \cap bad # {}
       /\ pending' \in {pending, Pended(g)}
  /\ DropCompiled(Cur)
  /\ UNCHANGED <<pc, pos, exc, facts, dead, noChunk, validated, owed, used,
                 counters, effects, wedged, exhausted>>

\* (mutant) The count is reset by the redo it was there to bound.
OneLimitedForever ==
  /\ pc = "one" /\ Note("limit")
  /\ retries' = IF retries = 0 THEN 1 ELSE 0
  /\ UNCHANGED <<pc, pos, exc, facts, retired, validated, cached, pending,
                 owed, built, used, attempt, round, runs, effects, wedged>>

\* At the buffer limit the iteration is redone, its host call with it, a
\* bounded number of times: the second time without the compiled body, and
\* after `most` times not at all.
RedoAtLimit(most) ==
  /\ pc = "one"
  /\ retries' = retries + 1
  /\ Note("limit") /\ BodyMayCall
  /\ IF Eager(Cur) THEN UNCHANGED pending
     ELSE pending' \in {pending, Pended(<<Cur, "one">>)}
  /\ IF retries' = 2 /\ ~Eager(Cur)
       THEN DropCompiled(Cur) /\ UNCHANGED <<pc, exc, owed>>
       ELSE /\ IF Eager(Cur) THEN UNCHANGED cached
               ELSE Cache(<<Cur, "one">>)
            /\ IF retries' > most THEN Throw("limit") ELSE UNCHANGED <<pc, exc, owed>>
            /\ UNCHANGED <<disabled, specOff, built>>
  /\ UNCHANGED <<pos, facts, dead, noChunk, validated, used, attempt, round,
                 runs, wedged>>

\* (mutant) The redo is counted one late.
OneLimitedLate == RedoAtLimit(4)
OneLimited == RedoAtLimit(3)

---------------------------------------------------------------------------
(* A loop's sync points, and an eager flush of main between its entries. *)

\* A kernel's loop is followed by main's own flush: it has no arm to fall to.
Advance ==
  IF pos < Len(LoopSeq) THEN pc' = "loop" /\ pos' = pos + 1
  ELSE pc' = "settle" /\ UNCHANGED pos

\* The values are evaluated; or submitted, which blocks while a kernel is
\* pending; or left lazy, short of the cadence.
Sync ==
  /\ pc \in {"manySubmit", "submit"}
  /\ \/ Builds(owed) /\ UNCHANGED wedged
     \/ /\ pending = {}
        /\ wedged' = (wedged \/ owed # {})
        /\ UNCHANGED <<owed, built>>
     \/ UNCHANGED <<owed, built, wedged>>
  /\ Advance
  /\ UNCHANGED <<exc, facts, retired, validated, cached, pending, used,
                 counters, effects, exhausted>>

\* The eval fails, or the governor asked after it (`loop_account`) refuses.
SyncFails ==
  /\ pc \in {"manySubmit", "submit"}
  /\ \E e \in {"error", "limit", "oom"} :
       /\ e = "oom" \/ Fails(owed, e)
       /\ IF pc = "manySubmit" THEN Swallow(e) ELSE Throw(e) /\ UNCHANGED noChunk
  /\ UNCHANGED <<pos, facts, dead, disabled, specOff, validated, cached,
                 pending, built, used, counters, effects, wedged>>

---------------------------------------------------------------------------
(* The ladder of run_recovering. *)

\* (mutant) Whatever was running, and whatever was thrown.
RetireAlways ==
  /\ pc = "catch" /\ Main \notin disabled
  /\ DropCompiled(Main)
  /\ attempt' = attempt + 1 /\ pc' = "try"
  /\ UNCHANGED <<pos, exc, facts, dead, noChunk, validated, pending, owed,
                 used, round, retries, runs, effects, wedged, exhausted>>

\* Whatever went wrong, the compiled graph is what was running.
RetireCompiled ==
  /\ pc = "catch" /\ exc # "oom" /\ used
  /\ DropCompiled(Main)
  /\ attempt' = attempt + 1 /\ pc' = "try"
  /\ UNCHANGED <<pos, exc, facts, dead, noChunk, validated, pending, owed,
                 used, round, retries, runs, effects, wedged, exhausted>>

RetryAtLimit ==
  /\ pc = "catch" /\ exc = "limit" /\ ~used /\ attempt < 2
  /\ attempt' = attempt + 1 /\ pc' = "try"
  /\ UNCHANGED <<pos, exc, facts, retired, validated, cached, pending, owed,
                 built, used, round, retries, runs, effects, wedged, exhausted>>

\* A refusal leaves at once; so does what no rung is left for.
Leave ==
  /\ pc = "catch"
  /\ exc = "oom" \/ (~used /\ (exc # "limit" \/ attempt >= 2))
  /\ pc' = "raised"
  /\ UNCHANGED <<pos, exc, facts, retired, validated, cached, pending, owed,
                 built, used, counters, effects, wedged, exhausted>>

---------------------------------------------------------------------------
(* settle_msl: the call is settled while a traced kernel is unproven. *)

\* (mutant) The plans are validated by the return, not by the eval.
SettledUnread ==
  /\ pc = "settle"
  /\ validated' = validated \cup pending
  /\ pending' = {} /\ owed' = {} /\ pc' = "done"
  /\ UNCHANGED <<pos, exc, facts, retired, cached, built, used, counters,
                 effects, wedged, exhausted>>

Settled ==
  /\ pc = "settle"
  /\ IF pending = {} THEN UNCHANGED <<owed, built>> ELSE Builds(owed)
  /\ validated' = validated \cup pending
  /\ pending' = {} /\ pc' = "done"
  /\ UNCHANGED <<pos, exc, facts, retired, cached, used, counters, effects,
                 wedged, exhausted>>

\* The plans that could be at fault are retired with the graphs that embed
\* them, and the program runs again: twice at most, the second time without
\* any kernel, and never past a host call.
Rerun(stop, kill, forget) ==
  /\ pc = "settle" /\ pending # {}
  /\ \E e \in {"error", "limit"} : Fails(owed, e) /\ Note(e) /\ exc' = e
  /\ pending' = {} /\ owed' = {}
  /\ dead' = dead \cup kill
  /\ IF stop
       THEN /\ pc' = "raised"
            /\ UNCHANGED <<cached, built, round, attempt>>
       ELSE /\ Forget(forget)
            /\ round' = round + 1 /\ attempt' = 0 /\ pc' = "try"
  /\ UNCHANGED <<pos, facts, disabled, noChunk, specOff, validated, used,
                 retries, runs, effects, wedged>>

Stops == host \/ round >= 2
Blamed == IF ~host /\ round = 1 THEN Plans ELSE pending
\* (mutants) The graphs stay; a host call is repeated; the
\* second failure is final.
SettleKeepsGraphs == Rerun(Stops, Blamed, {})
SettleRepeatsHost == Rerun(round >= 2, Blamed, Graphs)
SettleGivesUp == Rerun(host \/ round >= 1, Blamed, Graphs)

SettleRetires == Rerun(Stops, Blamed, Graphs)

\* ~Program erases the graphs of `compiled_`, its own and its bodies'.
Destroy ==
  /\ pc \in {"idle", "done", "raised"}
  /\ pc' = "gone"
  /\ Forget({g \in Graphs : g[2] # "spec"})
  /\ UNCHANGED <<pos, exc, facts, retired, validated, pending, owed, used,
                 counters, effects, wedged, exhausted>>

\* A step of a run, and the embedder's two calls.
Step ==
  \/ Try \/ MainCalled \/ MainFails \/ HostCall
  \/ KernelLaunch \/ KernelDies \/ RunsNothing
  \/ EnterLoop \/ ChunkCalled \/ SpecFails \/ ChunkFails
  \/ EagerBody \/ InnerDies \/ BodyRefused
  \/ OneCalled \/ OneRejected \/ OneLimited
  \/ Sync \/ SyncFails
  \/ RetireCompiled \/ RetryAtLimit \/ Leave
  \/ Settled \/ SettleRetires

Next == Enter \/ Step \/ Destroy

Spec == Init /\ [][Next]_vars

\* The ladder runs on the calling thread, which nothing here ever parks.
FairSpec == Spec /\ WF_vars(Step)

---------------------------------------------------------------------------
(* Properties. *)

PCs == {"idle", "try", "call", "host", "loop", "many", "manySubmit", "one",
        "submit", "settle", "catch", "done", "raised", "undefined", "gone"}
Throwables == {"none", "error", "limit", "oom"}

\* Every variable keeps to its set, whatever the rungs of the ladder do.
TypeOK ==
  /\ pc \in PCs /\ pos \in 1 .. Len(LoopSeq) /\ exc \in Throwables
  /\ compiles \in BOOLEAN /\ host \in BOOLEAN /\ sites \subseteq Programs
  /\ bad \subseteq Plans \cup Graphs /\ fallback \subseteq Plans
  /\ dead \subseteq Plans /\ validated \subseteq Plans
  /\ disabled \subseteq Programs /\ noChunk \subseteq Loops
  /\ specOff \subseteq Loops
  /\ graphs \subseteq Graphs /\ embeds \in [Graphs -> SUBSET Plans]
  /\ pending \subseteq Plans
  /\ owed \subseteq Plans \cup Graphs /\ built \subseteq Plans \cup Graphs
  /\ used \in BOOLEAN /\ attempt \in 0 .. 2 /\ round \in 0 .. 2
  /\ retries \in 0 .. 4 /\ runs \in 0 .. MaxRuns
  /\ effects \in [Sites -> Nat]
  /\ wedged \in BOOLEAN /\ exhausted \in BOOLEAN

\* Nothing that can still fail to build is handed to an async submission,
\* which would leave an event nothing signals (loop_submit, prove_compiled).
NoWedge == ~wedged

\* The lazy arrays a run hands back hold nothing left to build: their eval,
\* on some other thread, is too late for any rung of the ladder.
ReturnedProven == pc = "done" => owed = {}

\* A plan that is taken for proven and still launched can be built: no eval
\* vouches for a kernel it did not walk (settle_msl validates all it holds).
ValidatedBuilds == (validated \ dead) \cap bad = {}

\* No cached graph embeds a kernel that has died: the next call would launch
\* it again (settle_msl, "the compiled graphs that embedded their kernels go
\* with them"; a program with a host call leaves before it forgets them).
NoGraphOfDead == \A g \in graphs : embeds[g] \cap dead = {}
DeadNotEmbedded == ~host => NoGraphOfDead

\* A program that lost its compiled path holds no compiled graph, however
\* often it runs (drop_compiled moves one way only).
DisabledHoldNothing == \A g \in graphs : g[1] \notin disabled

\* What was retired stays out: no graph of a dead kernel, and no graph of a
\* disabled program, is ever left to be called.
RetiredStayOut == DeadNotEmbedded /\ DisabledHoldNothing

\* The governor's refusals, and the host's failures, never count as a failure
\* to build: with everything buildable and no limit hit, each plan and each
\* compiled path stays.
RefusalKeepsBuilds ==
  bad = {} /\ ~exhausted =>
    dead = {} /\ disabled = {} /\ specOff = (IF SpecEnabled THEN {} ELSE Loops)

\* A refusal "leaves immediately, keeping the program's compiled path -- the
\* next call may well fit": it retires nothing at all, the chunks of a loop
\* included.
RefusalRetiresNothing == RefusalKeepsBuilds /\ (bad = {} /\ ~exhausted => noChunk = {})

\* The user's function runs once for its place in an execution, and again only
\* because of the buffer limit: three times at most on the main tape, and in
\* an iteration of a loop four times for each of three attempts.
EffectsBounded ==
  /\ effects[0] <= 3
  /\ \A i \in Sites : effects[i] <= 12 /\ (effects[i] > 1 => exhausted)

\* What cannot be built never costs the answer: if every plan was lowered
\* with its loop, a run fails only by a refusal, a limit or the host's call.
Heals ==
  pc = "raised" /\ fallback = Plans => host \/ exhausted \/ exc = "oom"

\* Every execution returns or raises: no rung retries for ever.
EveryRunEnds == pc = "try" /\ fallback = Plans ~> pc \in {"done", "raised"}
=============================================================================

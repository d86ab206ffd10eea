---------------------------- MODULE DynamicWhile ----------------------------
(***************************************************************************)
(* The pipelined arm of `Program::run_while` for a dynamic (non-counted)   *)
(* loop, with submit-ahead (control.cc).  Two actors: the host thread that *)
(* walks the loop, and the device that executes what was submitted, in     *)
(* submission order, whenever it likes.                                    *)
(*                                                                         *)
(* A carry is one buffer.  Applying the body to content c yields c + 1 and *)
(* the condition of content c is c < trip, so a wrong buffer, a wrong      *)
(* order or an in-place write into a carry the loop still needs shows as a *)
(* wrong result.  `vals` and `next` number the carries the host variables  *)
(* of the same names hold; `vbuf` and `nbuf` are their buffers (NoBuf while*)
(* `next` is a lazy graph).  A submission puts a kernel on the queue       *)
(* `inflight`; MLX pins a submitted kernel's buffers until it retires, but *)
(* the kernels encoded by a walk that THREW are pinned by nothing.         *)
(***************************************************************************)
EXTENDS Integers

CONSTANTS
  CarryBufs,         \* device buffers
  Input,        \* the buffer of the loop's initial carry, held by `ins`
  NoBuf,        \* "not evaluated yet"
  Trips,        \* the trip counts the condition may turn out to have
  AheadEnabled, \* METALJAX_WHILE_SUBMIT_AHEAD > 0
  BodyFlushes   \* an interpreted body may reach its own eager flush

ASSUME LoopAssumption ==
  /\ Input \in CarryBufs
  /\ NoBuf \notin CarryBufs
  /\ Trips \subseteq Nat
  /\ AheadEnabled \in BOOLEAN
  /\ BodyFlushes \in BOOLEAN

VARIABLES
  pc,        \* where the host thread stands
  trip,      \* the trip count, never read by the loop
  vals, vbuf, pgo,   \* the current carry, its buffer, its condition
  next, nbuf, ngo,   \* the carry built after it, likewise
  ahead, decided, submitted,
  inflight,  \* kernels submitted and not retired
  mem        \* content of every buffer

hostVars == <<vals, vbuf, pgo, next, nbuf, ngo, ahead, decided, submitted>>
whileVars == <<pc, trip, hostVars, inflight, mem>>

Junk == -1   \* what an unwritten buffer holds

Running == {"cond0", "first", "build", "ahead", "drain", "read", "commit",
            "account"}
Terminal == {"done", "raised"}
Conds == {"lazy", "queued", "true", "false"}
Kernels == [it : Nat, src : CarryBufs, dst : CarryBufs, pinned : BOOLEAN]

Body(c) == IF c = Junk THEN Junk ELSE c + 1
Cond(c) == IF c < trip THEN "true" ELSE "false"

\* Buffers something still refers to: `ins` (held by run_while's caller for
\* a rerun), the two carries, and what the pinned kernels read and write.
Live ==
  {Input, vbuf, nbuf}
    \cup UNION {{k.src, k.dst} : k \in {q \in inflight : q.pinned}}

FreshBufs == CarryBufs \ Live

WhileInit ==
  /\ pc = "cond0"
  /\ trip \in Trips
  /\ vals = 0 /\ vbuf = Input /\ pgo = "lazy"
  /\ next = 0 /\ nbuf = NoBuf /\ ngo = "lazy"
  /\ ahead = FALSE /\ decided = FALSE /\ submitted = FALSE
  /\ inflight = {}
  /\ mem = [b \in CarryBufs |-> IF b = Input THEN 0 ELSE Junk]

---------------------------------------------------------------------------
(* The host thread. *)

\* (mutant) do-while: the body runs before the condition was ever read.
FirstCondSkipped ==
  /\ pc = "cond0"
  /\ pc' = "first"
  /\ UNCHANGED <<trip, hostVars, inflight, mem>>

\* `loop_item_bool(first)`: a zero-trip loop costs exactly one condition.
FirstCond ==
  /\ pc = "cond0"
  /\ pc' = IF Cond(mem[vbuf]) = "true" THEN "first" ELSE "done"
  /\ UNCHANGED <<trip, hostVars, inflight, mem>>

\* (mutant) the first iteration writes in place into the loop's inputs.
FirstIterationInPlace ==
  /\ pc = "first"
  /\ \E b \in FreshBufs \cup {vbuf} :
       /\ vbuf' = b
       /\ mem' = [mem EXCEPT ![b] = Body(mem[vbuf])]
  /\ vals' = vals + 1
  /\ pgo' = "lazy"
  /\ pc' = "build"
  /\ UNCHANGED <<trip, next, nbuf, ngo, ahead, decided, submitted, inflight>>

\* The first iteration is not pipelined: run_one, then a blocking loop_flush.
\* `ins` still holds the inputs, so the body cannot write in place.
FirstIteration ==
  /\ pc = "first"
  /\ \E b \in FreshBufs :
       /\ vbuf' = b
       /\ mem' = [mem EXCEPT ![b] = Body(mem[vbuf])]
  /\ vals' = vals + 1
  /\ pgo' = "lazy"
  /\ pc' = "build"
  /\ UNCHANGED <<trip, next, nbuf, ngo, ahead, decided, submitted, inflight>>

\* `next = runner.run_one(vals); npred = cond_of(next)`: a lazy graph --
\* except that an interpreted body big enough to reach eager_flush settles
\* what it holds while it is being built (a blocking eval, so everything
\* submitted before it has retired), with `vals` held, into a buffer of
\* `free`.
BuildNext(free) ==
  /\ next' = vals + 1
  /\ ngo' = "lazy"
  /\ \/ /\ nbuf' = NoBuf
        /\ UNCHANGED mem
     \/ /\ BodyFlushes /\ inflight = {}
        /\ \E b \in free :
             /\ nbuf' = b
             /\ mem' = [mem EXCEPT ![b] = Body(mem[vbuf])]

\* (mutant) submit-ahead engages before the loop has decided on it.
BuildAheadAtOnce ==
  /\ pc = "build"
  /\ BuildNext(FreshBufs)
  /\ submitted' = FALSE
  /\ pc' = "ahead"
  /\ UNCHANGED <<trip, vals, vbuf, pgo, ahead, decided, inflight>>

Build ==
  /\ pc = "build"
  /\ BuildNext(FreshBufs)
  /\ submitted' = FALSE
  /\ pc' = IF ahead THEN "ahead" ELSE "read"
  /\ UNCHANGED <<trip, vals, vbuf, pgo, ahead, decided, inflight>>

\* governor_fits said no: this step reads first.
AheadDeclined ==
  /\ pc = "ahead"
  /\ pc' = "read"
  /\ UNCHANGED <<trip, hostVars, inflight, mem>>

\* (mutant) the update donates although `vals` is held.
TargetsDonating(held) == FreshBufs \cup ({vbuf} \ {Input})

\* The buffer a submission of `next` writes.  MLX donates an operand nobody
\* else holds: with `vals` held the update must copy into a fresh buffer,
\* once the host has dropped `vals` it may (or may not) write in place.
Targets(held) == IF held THEN FreshBufs ELSE FreshBufs \cup ({vbuf} \ {Input})

\* The kernel of carry `next`, for a graph that is still lazy; a carry the
\* build already evaluated owes only its condition.
Submit(held) ==
  IF nbuf = NoBuf
    THEN \E b \in Targets(held) :
           /\ nbuf' = b
           /\ ngo' = "queued"
           /\ inflight' = inflight \cup
                {[it |-> next, src |-> vbuf, dst |-> b, pinned |-> TRUE]}
    ELSE /\ ngo' = Cond(mem[nbuf])
         /\ UNCHANGED <<nbuf, inflight>>

\* The speculative submission, with `vals` held across it.
AheadSubmitted ==
  /\ pc = "ahead"
  /\ Submit(TRUE)
  /\ submitted' = TRUE
  /\ pc' = "read"
  /\ UNCHANGED <<trip, vals, vbuf, pgo, next, ahead, decided, mem>>

\* The speculative walk ran out of memory after encoding part of itself: a
\* kernel that reads `vals` and writes a buffer of the abandoned graph,
\* which `pending` and `next` still hold.
AheadFailed ==
  /\ pc = "ahead"
  /\ nbuf = NoBuf
  /\ \E b \in FreshBufs :
       /\ nbuf' = b
       /\ inflight' = inflight \cup
            {[it |-> next, src |-> vbuf, dst |-> b, pinned |-> FALSE]}
  /\ ahead' = FALSE
  /\ pc' = "drain"
  /\ UNCHANGED <<trip, vals, vbuf, pgo, next, ngo, decided, submitted, mem>>

\* (mutant) the abandoned graph is dropped without draining the device.
RebuildUndrained ==
  /\ pc = "drain"
  /\ BuildNext(CarryBufs \ {Input, vbuf})
  /\ pc' = "read"
  /\ UNCHANGED <<trip, vals, vbuf, pgo, ahead, decided, submitted, inflight>>

\* `mx::synchronize()`, then drop the abandoned graph, clear the cache, and
\* build the step again to be read first.
DrainAndRebuild ==
  /\ pc = "drain"
  /\ inflight = {}
  /\ BuildNext(CarryBufs \ {Input, vbuf})
  /\ pc' = "read"
  /\ UNCHANGED <<trip, vals, vbuf, pgo, ahead, decided, submitted, inflight>>

\* `loop_item_bool(pred)`, the one blocking point.  The condition was
\* submitted with its carry, so the host wakes when that carry is done, not
\* when the speculation after it is.  The first one was never submitted.
CondKnown == pgo # "queued"

Go == IF pgo = "lazy" THEN Cond(mem[vbuf]) = "true" ELSE pgo = "true"

ReadCond ==
  /\ pc = "read"
  /\ CondKnown
  /\ pc' = IF Go THEN "commit" ELSE "done"
  /\ UNCHANGED <<trip, hostVars, inflight, mem>>

\* `vals = std::move(next)`: the old carry is released, THEN the whole new
\* one is submitted unless the speculation already did; the first such step
\* decides whether the loop runs ahead (its copy bound is data).
Commit ==
  /\ pc = "commit"
  /\ vals' = next
  /\ IF submitted
       THEN /\ vbuf' = nbuf
            /\ pgo' = ngo
            /\ UNCHANGED <<inflight, decided, ahead>>
       ELSE /\ IF nbuf = NoBuf
                 THEN \E b \in Targets(FALSE) :
                        /\ vbuf' = b
                        /\ pgo' = "queued"
                        /\ inflight' = inflight \cup
                             {[it |-> next, src |-> vbuf, dst |-> b,
                               pinned |-> TRUE]}
                 ELSE /\ vbuf' = nbuf
                      /\ pgo' = Cond(mem[nbuf])
                      /\ UNCHANGED inflight
            /\ IF AheadEnabled /\ ~decided
                 THEN decided' = TRUE /\ ahead' \in BOOLEAN
                 ELSE UNCHANGED <<decided, ahead>>
  /\ nbuf' = NoBuf
  /\ ngo' = "lazy"
  /\ pc' = "account"
  /\ UNCHANGED <<trip, next, submitted, mem>>

\* `loop_account(cost)`: the cadence's cache clear frees nothing live.
Account ==
  /\ pc = "account"
  /\ pc' = "build"
  /\ UNCHANGED <<trip, hostVars, inflight, mem>>

\* A walk that throws after encoding part of itself, past anything run_while
\* catches: a kernel of carry `it` that nothing pins is left behind it, its
\* handles go with run_while's locals, and nobody drains the device.
Unwind(it, targets) ==
  /\ \E b \in targets :
       inflight' = inflight \cup
         {[it |-> it, src |-> vbuf, dst |-> b, pinned |-> FALSE]}
  /\ pc' = "raised"
  /\ UNCHANGED <<trip, hostVars, mem>>

\* The first iteration's loop_flush, a body's own eager flush, a speculative
\* submission that failed otherwise than by memory (rethrown), and the
\* submission of a step that read first.
WalkThrows ==
  \/ pc = "first" /\ Unwind(vals + 1, FreshBufs)
  \/ pc = "build" /\ BodyFlushes /\ Unwind(vals + 1, FreshBufs)
  \/ /\ pc = "drain" /\ BodyFlushes /\ inflight = {}
     /\ Unwind(next, CarryBufs \ {Input, vbuf})
  \/ pc = "ahead" /\ nbuf = NoBuf /\ Unwind(next, FreshBufs)
  \/ /\ pc = "commit" /\ ~submitted /\ nbuf = NoBuf
     /\ Unwind(next, Targets(FALSE))

\* A device error, a governor refusal in loop_account, an error of the body,
\* a walk that encoded nothing: run_while's locals are dropped.  Where the
\* host stands in `mx::synchronize()`, an error surfaces after the wait.
Raise ==
  /\ pc \in Running
  /\ pc = "drain" => inflight = {}
  /\ pc' = "raised"
  /\ UNCHANGED <<trip, hostVars, inflight, mem>>

Host ==
  \/ FirstCond \/ FirstIteration \/ Build
  \/ AheadDeclined \/ AheadSubmitted \/ AheadFailed \/ DrainAndRebuild
  \/ ReadCond \/ Commit \/ Account

---------------------------------------------------------------------------
(* The device: the oldest kernel retires.  The condition of a carry is part *)
(* of the graph submitted with it.                                          *)

Retire(k) ==
  LET out == Body(mem[k.src]) IN
  /\ \A q \in inflight : k.it <= q.it
  /\ inflight' = inflight \ {k}
  /\ mem' = [mem EXCEPT ![k.dst] = out]
  /\ pgo' = IF k.pinned /\ k.it = vals THEN Cond(out) ELSE pgo
  /\ ngo' = IF k.pinned /\ k.it # vals THEN Cond(out) ELSE ngo
  /\ UNCHANGED <<pc, trip, vals, vbuf, next, nbuf, ahead, decided, submitted>>

Device == \E k \in inflight : Retire(k)

WhileNext == Host \/ Device \/ WalkThrows \/ Raise

WhileSpec == WhileInit /\ [][WhileNext]_whileVars

\* The host thread never stops by itself and the device drains its queue;
\* nothing obliges a step to raise.
FairWhileSpec == WhileSpec /\ WF_whileVars(Host) /\ WF_whileVars(Device)

---------------------------------------------------------------------------
(* Properties. *)

WhileTypeOK ==
  /\ pc \in Running \cup Terminal
  /\ trip \in Trips
  /\ vals \in Nat /\ next \in Nat
  /\ vbuf \in CarryBufs /\ nbuf \in CarryBufs \cup {NoBuf}
  /\ pgo \in Conds /\ ngo \in Conds
  /\ ahead \in BOOLEAN /\ decided \in BOOLEAN /\ submitted \in BOOLEAN
  /\ inflight \subseteq Kernels
  /\ mem \in [CarryBufs -> Nat \cup {Junk}]

\* "Speculation never touches the carry a loop may return": the buffer of
\* the current carry holds it already, or a queued kernel of that very carry
\* is the only one that will still write the buffer.
CarryIntact ==
  pc # "raised" =>
    /\ \A k \in inflight : k.dst = vbuf => k.it = vals
    /\ mem[vbuf] = vals \/ \E k \in inflight : k.dst = vbuf /\ k.it = vals

\* The loop's inputs survive it, whatever was submitted and however it ends:
\* every rung of the recovery ladder above runs again from them.
InputsIntact ==
  /\ mem[Input] = 0
  /\ \A k \in inflight : k.dst # Input

\* Neither the carry nor the inputs are ever written under the loop.
BuffersIntact == CarryIntact /\ InputsIntact

\* The carry the loop hands back is the one the serial loop computes.
ResultIsSerial == pc = "done" => vals = trip

\* A loop that survives a walk that threw has retired what the walk encoded
\* before it goes on, and holds the buffers till then ("retire what the
\* abandoned walk had already encoded while its buffers are still held ...
\* THEN allocate again"): whatever the loop builds next recycles no buffer an
\* encoded kernel still touches.  A throw that leaves run_while leaves its
\* kernels too (WalkThrows); of those there is only InputsIntact.
AbandonedWalkRetired ==
  pc # "raised" =>
    \A k \in inflight :
      ~k.pinned => pc = "drain" /\ k.src = vbuf /\ k.dst = nbuf

\* The host runs at most one iteration ahead of the carry whose condition it
\* has not read, so at most two iterations' transients are in flight; and
\* it runs ahead at all only from the third iteration on.
RunAheadBounded ==
  /\ \A k \in inflight : k.it \in {vals, vals + 1}
  /\ \A k, q \in inflight : k.it = q.it => k = q
  /\ pc # "raised" => \A k \in inflight : k.it > vals => vals >= 2

\* The carry the loop would have if everything queued had retired; a loop
\* that raised hands none back.
CarryValue ==
  LET writers == {k \in inflight : k.dst = vbuf}
  IN IF pc = "raised" THEN vals
     ELSE IF writers = {} THEN mem[vbuf]
     ELSE (CHOOSE k \in writers : \A q \in writers : q.it <= k.it).it

StatusValue ==
  CASE pc = "done" -> "returned" [] pc = "raised" -> "raised"
    [] OTHER -> "running"

Serial == INSTANCE SerialWhile WITH carry <- CarryValue, status <- StatusValue

\* The pipelined loop implements the serial one.
ImplementsSerial == Serial!SerialSpec

ResultArrives == <>[](pc = "raised" \/ (pc = "done" /\ mem[vbuf] = trip))
=============================================================================

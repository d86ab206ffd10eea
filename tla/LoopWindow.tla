----------------------------- MODULE LoopWindow -----------------------------
(***************************************************************************)
(* The byte window of a counted loop (control.cc LoopWindow,               *)
(* run_single_bounded, run_chunked): how many submissions the host lets    *)
(* the device fall behind, from a reading of how much one of them holds.   *)
(*                                                                         *)
(* Submissions are numbered; the first k are of total[k] iterations        *)
(* (chunks, in the chunked arm).  The device signals them in order, `done` *)
(* so far, and MLX frees what they held in a handler that runs later,      *)
(* `freed` so far.  One iteration holds loop.unit bytes.  A reading is the *)
(* growth of MLX's active bytes across a submission; what the handlers of  *)
(* older ones free meanwhile is missing from it.                           *)
(***************************************************************************)
EXTENDS Integers, Sequences, FiniteSetsExt

CONSTANTS Loops  \* [arm, trip, period, hardEvery, budget, estimate, unit,
                 \*  inflight, syncEvery]: the loops looked at

ASSUME LoopWindowAssumption ==
  Loops \subseteq [arm : {"single", "chunked"}, trip : Nat, period : Nat, hardEvery : Nat,
                   budget : Int, estimate : Int, unit : Nat \ {0}, inflight : Nat,
                   syncEvery : Nat \ {0}]

VARIABLES
  loop,           \* the loop at hand
  i, pending,     \* iterations built; those not submitted yet
  total, done, freed, \* the device's queue
  ring,           \* LoopWindow::ring_: the submissions not waited for
  proven,         \* t_msl_pending is empty: no kernel traced in the run is unproven,
                  \* and once one is, none but settle_msl, after the run, proves it
  est,            \* unit: what an iteration is taken to hold
  group, keep,
  measured, bounded,  \* the single arm's readings
  samples, clean, \* the chunked arm's; those nothing was freed inside of
  waiting         \* for nothing, for the window, for all of a blocking submission

device == <<total, done, freed>>
plan == <<est, group, keep, measured, bounded, samples, clean>>
windowVars == <<loop, i, pending, device, ring, proven, plan, waiting>>

AtLeast1(x) == Max({1, x})

\* (mutant) the submission being encoded is not counted.
WindowKeepAll(budget, unit, most) ==
  AtLeast1(Min({budget \div AtLeast1(unit), AtLeast1(most)}))

\* `keep + 1` submissions of `unit` bytes fit the budget.
WindowKeep(budget, unit, most) ==
  AtLeast1(Min({budget \div AtLeast1(unit) - 1, AtLeast1(most)}))

\* (mutant) blocking submissions take the op-count period whatever it holds.
GroupOfPeriod(async, unit) ==
  AtLeast1(IF async THEN Min({loop.period, loop.budget \div (3 * AtLeast1(unit))}) ELSE loop.period)

\* The single arm's plan, under either kind of submission.
GroupOf(async, unit) ==
  AtLeast1(Min({loop.period, loop.budget \div ((IF async THEN 3 ELSE 1) * AtLeast1(unit))}))
KeepOf(async, unit) ==
  LET g == GroupOf(async, unit)
  IN IF async THEN WindowKeep(loop.budget, g * AtLeast1(unit), AtLeast1(loop.hardEvery \div g))
     ELSE 1

\* The window engages where the estimate could exceed the budget.
Engaged(l) ==
  /\ l.budget > 0 /\ l.estimate >= l.unit
  /\ IF l.arm = "single" THEN l.trip >= 2 /\ Min({l.trip, l.hardEvery}) * l.estimate > l.budget
     ELSE l.trip > 1 /\ l.estimate * Min({l.inflight + 1, l.syncEvery}) > l.budget

WindowInit ==
  /\ loop \in {l \in Loops : Engaged(l)}
  /\ proven \in BOOLEAN
  /\ i = (IF loop.arm = "single" THEN 1 ELSE 0)
  /\ total = IF loop.arm = "single" THEN <<1>> ELSE <<>>  \* iteration 1 is settled:
  /\ done = Len(total) /\ freed \in 0 .. done  \* signalled, its handler yet to run
  /\ pending = 0
  /\ ring = <<>> /\ waiting = "no"
  /\ est = loop.estimate /\ measured = FALSE /\ bounded = FALSE
  /\ samples = 0 /\ clean = 0
  /\ group = IF loop.arm = "single" THEN GroupOf(proven, loop.estimate) ELSE 1
  /\ keep = IF loop.arm = "single" THEN KeepOf(proven, loop.estimate) ELSE loop.inflight

\* The iterations of the first k submissions of a queue.
Through(queue, k) == IF k = 0 THEN 0 ELSE queue[k]
Bytes(from, to) == loop.unit * (Through(total, to) - Through(total, from))

---------------------------------------------------------------------------
\* Submit `n` iterations.  `from` of the device's handlers have run when the
\* reading begins, and any may run while it lasts; a submission is not
\* freed before the reading of its own growth ends.
SubmitRun(n, async, from) ==
  /\ total' = Append(total, Through(total, Len(total)) + n)
  /\ IF async
       THEN /\ done' \in done .. Len(total)
            /\ freed' \in from .. done'
            /\ ring' = Append(ring, Len(total) + 1)
            /\ waiting' = "window"
       ELSE /\ done' \in done .. Len(total) + 1
            /\ freed' \in from .. done'
            /\ ring' = <<Len(total) + 1>>
            /\ waiting' = "all"

\* What the reading across it says it holds.
Grown(n, from) == n * loop.unit - Bytes(from, freed')

\* The plan is made again from the new reading.
Replan(async, unit) ==
  /\ est' = unit
  /\ group' = GroupOf(async, unit)
  /\ keep' = KeepOf(async, unit)

\* (mutant) the device's handlers are not waited for before a reading.
UnsettledFrom(probe) == freed
\* DispatchSnapshotSettled.
SettledFrom(probe) == IF probe THEN done ELSE freed

\* run_single_bounded: one iteration built and, when a group is full or a
\* reading is due, submitted.  Building it may trace a kernel; every later
\* submission of the loop is then a blocking one, planned for as such from
\* the next reading on, and that one's bytes are read off the peak counter,
\* which never says less than it held.
Single ==
  LET probe == /\ pending = 0 /\ ring = <<>>
               /\ IF proven THEN ~ measured ELSE ~ bounded
      from == SettledFrom(probe)
  IN
  /\ loop.arm = "single" /\ waiting = "no" /\ i < loop.trip
  /\ i' = i + 1
  /\ \E traced \in BOOLEAN :
       /\ proven' = (proven /\ ~ traced)
       /\ IF probe \/ pending + 1 >= group
          THEN /\ pending' = 0
               /\ SubmitRun(pending + 1, proven /\ ~ traced, from)
               /\ IF ~ probe THEN UNCHANGED <<est, group, keep, measured, bounded>>
                  ELSE IF proven /\ ~ traced
                  THEN /\ Replan(proven, AtLeast1(Grown(pending + 1, from)))
                       /\ measured' = TRUE /\ UNCHANGED bounded
                  ELSE \E peak \in {loop.unit, loop.unit + 1, est} :
                         /\ Replan(proven, IF peak < est THEN peak ELSE est)
                         /\ bounded' = TRUE /\ UNCHANGED measured
          ELSE /\ pending' = pending + 1
               /\ freed' = from
               /\ UNCHANGED <<total, done, ring, est, group, keep, measured, bounded, waiting>>
  /\ UNCHANGED <<loop, samples, clean>>

\* run_chunked: a chunk is one submission.  A first chunk may have been
\* settled by prove_compiled, every syncEvery-th is a blocking flush, and so
\* is every one from the first that traces a kernel.
Chunk ==
  LET probe == samples < 2 /\ i >= 1 /\ proven
      flush == (i + 1) % loop.syncEvery = 0
  IN
  /\ loop.arm = "chunked" /\ waiting = "no" /\ i < loop.trip
  /\ i' = i + 1
  /\ \E traced \in BOOLEAN, settled \in {i = 0, FALSE} :
       LET async == ~ flush /\ proven /\ ~ traced /\ ~ settled IN
       /\ proven' = (proven /\ ~ traced)
       /\ SubmitRun(1, async, freed)
       /\ IF probe /\ async
          THEN /\ samples' = samples + 1
               /\ clean' = IF Grown(1, freed) = loop.unit THEN clean + 1 ELSE clean
               /\ est' = Max({IF samples = 0 THEN 0 ELSE est, Grown(1, freed), 1})
               /\ keep' = WindowKeep(loop.budget, est', loop.inflight)
          ELSE UNCHANGED <<samples, clean, est, keep>>
  /\ UNCHANGED <<loop, pending, group, measured, bounded>>

\* keep_at_most: a wait for the oldest, until at most `keep` are left.  A
\* blocking submission comes back when nothing is in flight.
Wait ==
  /\ waiting # "no"
  /\ IF Len(ring) > IF waiting = "all" THEN 0 ELSE keep
       THEN ring[1] <= done /\ ring' = Tail(ring) /\ UNCHANGED waiting
       ELSE waiting' = "no" /\ UNCHANGED ring
  /\ UNCHANGED <<loop, i, pending, device, proven, plan>>

\* The device signals an event; a completion handler runs.
Signal ==
  /\ done < Len(total) /\ done' = done + 1
  /\ UNCHANGED <<loop, i, pending, total, freed, ring, proven, plan, waiting>>
Handler ==
  /\ freed < done /\ freed' = freed + 1
  /\ UNCHANGED <<loop, i, pending, total, done, ring, proven, plan, waiting>>

\* The tail stays lazy (single), or is flushed with the rest.
LoopOver == i = loop.trip /\ waiting = "no" /\ UNCHANGED windowVars

WindowNext == Single \/ Chunk \/ Wait \/ Signal \/ Handler \/ LoopOver
WindowSpec == WindowInit /\ [][WindowNext]_windowVars

---------------------------------------------------------------------------
InFlight == Bytes(done, Len(total))
Room == Max({loop.budget, 2 * loop.unit})

\* No arm has more in flight than the budget, or than the two iterations it
\* may not go below: the single arm always, through the trace of a kernel and
\* the blocking groups that follow it, and its reading is what one iteration
\* holds; the chunked arm once it has read two growths, one of them with
\* nothing freed inside, and trimmed the window to what they say, or once
\* every chunk blocks.
WithinBudget ==
  IF loop.arm = "single"
  THEN InFlight <= Room /\ (measured => est = loop.unit) /\ est >= loop.unit
  ELSE waiting = "no" /\ ((samples = 2 /\ clean > 0) \/ ~ proven) => InFlight <= Room

=============================================================================

------------------------------ MODULE Governor ------------------------------
(***************************************************************************)
(* The memory governor (runtime/memory.cc): before a transfer stages, at   *)
(* program entry, at hard flushes and at the sync points of loops, a       *)
(* caller asks `governor_admit` for the bytes it is about to make          *)
(* resident.  The answer is read from a sample of the machine that may be  *)
(* old; past the hard lines the governor settles the device, hands back    *)
(* what the process only retains, waits, and at last refuses.              *)
(*                                                                         *)
(* Memory is in units.  What the process holds passes through `live`       *)
(* (arrays), `running` (transients of submitted work), `handed` (finished  *)
(* work whose completion handler has not run), `cache` (MLX's pool) and    *)
(* `lagNew`, `lagOld` (released, not yet taken back by the OS).  A tick of *)
(* time is what a stall waits between two looks.                           *)
(***************************************************************************)
EXTENDS Naturals

CONSTANTS
  Budget,        \* METALJAX_MEM_BUDGET_MB: the most this process may hold
  Ceiling,       \* METALJAX_MEM_SYS_MB: the most the machine may have claimed
  FreeFloor,     \* under it the machine is under pressure
  FreeReads,     \* what the free list may read: the page cache is not ours
  Big,           \* an ask of this size looks at the machine itself (256 MB)
  SamplePeriod,  \* ticks a sample stays good for
  ReclaimPeriod, \* ticks between two reclaims of the soft line (250 ms)
  StallTicks,    \* METALJAX_MEM_STALL_MS
  Wants,         \* what callers ask for
  MaxHeld,       \* bound: what the process allocates
  MaxOthers      \* bound: what other processes claim

ASSUME GovernorAssumption ==
  /\ {Budget, Ceiling, FreeFloor, Big, SamplePeriod, ReclaimPeriod,
      StallTicks, MaxHeld, MaxOthers} \subseteq Nat
  /\ FreeReads \subseteq Nat /\ Wants \subseteq Nat
  /\ 0 \notin {Budget, Ceiling, FreeFloor, Big}   \* a line of 0 is off
  /\ StallTicks >= 3   \* one for a late handler, two for the OS

VARIABLES
  pc,         \* where the caller of governor_admit is
  want,       \* what it asks for
  live, running, handed, cache, lagNew, lagOld,
  others,     \* what other processes have claimed
  sample,     \* g_sample
  age,        \* ticks since g_last_ns
  reclaimed,  \* ticks since g_reclaim_ns
  left,       \* ticks to the deadline of the stall
  asked,      \* history: `live` when the caller asked
  needed      \* history: during the ask, live arrays and others were over a line

held == <<live, running, handed, cache, lagNew, lagOld>>
clock == <<age, reclaimed, left>>
ask == <<want, asked, needed>>
vars == <<pc, held, others, sample, clock, ask>>

Footprint == live + running + handed + cache + lagNew + lagOld

Least(a, b) == IF a < b THEN a ELSE b

Over(foot, claimed, w) == foot + w > Budget \/ claimed + w > Ceiling
over_hard_line(s, w) == Over(s.foot, s.claimed, w)
under_pressure(s, w) == s.free < FreeFloor + w
being_squeezed(s) == s.free < FreeFloor \div 4

Init ==
  /\ pc = "idle" /\ want = 0
  /\ live = 0 /\ running = 0 /\ handed = 0 /\ cache = 0
  /\ lagNew = 0 /\ lagOld = 0 /\ others = 0
  /\ sample = [foot |-> 0, claimed |-> 0, free |-> FreeFloor]
  /\ age = SamplePeriod /\ reclaimed = ReclaimPeriod /\ left = 0
  /\ asked = 0 /\ needed = FALSE

---------------------------------------------------------------------------
(* The pieces. *)

\* `governor_sample`: the cached sample while it is good, unless forced.
\* The two cached flags are g_pressured and g_squeezed, read off the sample.
governor_sample(force) ==
  IF force \/ age >= SamplePeriod
    THEN \E f \in FreeReads :
           /\ sample' = [foot |-> Footprint, claimed |-> Footprint + others,
                         free |-> f]
           /\ age' = 0
    ELSE UNCHANGED <<sample, age>>

\* `mx::clear_cache`: the pool goes to the OS, which takes it back later.
Clear == cache' = 0 /\ lagNew' = lagNew + cache

\* A tick passes: late handlers run, and the OS takes back what was
\* released two ticks ago.
Pass ==
  /\ age' = Least(age + 1, SamplePeriod)
  /\ reclaimed' = Least(reclaimed + 1, ReclaimPeriod)
  /\ cache' = cache + handed /\ handed' = 0
  /\ lagOld' = lagNew
  /\ lagNew' = 0

---------------------------------------------------------------------------
(* governor_admit. *)

Ask(w) ==
  /\ pc = "idle"
  /\ pc' = "gate"
  /\ want' = w
  /\ asked' = live
  /\ needed' = Over(live, live + others, w)
  /\ UNCHANGED <<held, others, sample, clock>>

\* The fast path: not pressured, not big, and the sample is still good.
Fast == ~under_pressure(sample, 0) /\ want < Big /\ age < SamplePeriod

\* (mutant) the fast path, and the sample behind it, do not ask how much.
GateUnforced ==
  /\ pc = "gate"
  /\ IF ~under_pressure(sample, 0) /\ age < SamplePeriod
       THEN pc' = "admitted" /\ UNCHANGED <<sample, age>>
       ELSE /\ governor_sample(FALSE)
            /\ pc' = IF over_hard_line(sample', want) THEN "hard"
                     ELSE IF under_pressure(sample', want) THEN "soft"
                     ELSE "admitted"
  /\ UNCHANGED <<held, others, reclaimed, left, ask>>

Gate ==
  /\ pc = "gate"
  /\ IF Fast
       THEN pc' = "admitted" /\ UNCHANGED <<sample, age>>
       ELSE /\ governor_sample(want >= Big)
            /\ pc' = IF over_hard_line(sample', want) THEN "hard"
                     ELSE IF under_pressure(sample', want) THEN "soft"
                     ELSE "admitted"
  /\ UNCHANGED <<held, others, reclaimed, left, ask>>

\* The soft line: sweep the page cache; `reclaim` the pool if squeezed, at
\* most once a period.
Soft ==
  /\ pc = "soft"
  /\ IF being_squeezed(sample) /\ reclaimed >= ReclaimPeriod
       THEN Clear /\ reclaimed' = 0
       ELSE UNCHANGED <<cache, lagNew, reclaimed>>
  /\ pc' = "eased"
  /\ UNCHANGED <<live, running, handed, lagOld, others, sample, age, left, ask>>

\* ...then look again and admit, a transfer under pressure after `pace`.  The
\* hard lines are not asked again.
Eased ==
  /\ pc = "eased"
  /\ governor_sample(TRUE)
  /\ pc' = IF under_pressure(sample', want) /\ want > 0 THEN "pace" ELSE "admitted"
  /\ UNCHANGED <<held, others, reclaimed, left, ask>>

\* A transfer sleeps to keep to the rate; a pack asks at "execute", and one
\* that is slower than the rate does not sleep either.
Pace ==
  /\ pc = "pace"
  /\ pc' = "admitted"
  /\ Pass \/ UNCHANGED <<held, clock>>
  /\ UNCHANGED <<live, running, others, sample, left, ask>>

\* Where a reclaim of the hard line is followed by its look.
Reclaimed == IF pc = "hard" THEN "look" ELSE "again"

\* (mutant) only the first reclaim clears the pool, not those of the ticks.
ReclaimOnce ==
  /\ pc \in {"hard", "tick"}
  /\ running = 0
  /\ pc' = Reclaimed
  /\ IF pc = "hard" THEN Clear ELSE UNCHANGED <<cache, lagNew>>
  /\ reclaimed' = 0
  /\ UNCHANGED <<live, running, handed, lagOld, others, sample, age, left, ask>>

\* `reclaim_hard`: `mx::synchronize()` waits for the submitted work, then a
\* poll for its completion handlers, which gives up at a cap of the size of
\* a few ticks; either way the pool is cleared, without a rate limit.
reclaim_hard ==
  /\ pc \in {"hard", "tick"}
  /\ running = 0
  /\ pc' = Reclaimed
  /\ reclaimed' = 0
  /\ \/ /\ handed = 0
        /\ Clear
        /\ UNCHANGED <<lagOld, age, left>>
     \/ /\ handed > 0
        /\ cache' = 0 /\ lagNew' = cache /\ lagOld' = lagNew
        /\ age' = Least(age + 1, SamplePeriod)
        /\ left' = IF left > 0 THEN left - 1 ELSE 0
  /\ UNCHANGED <<live, running, handed, others, sample, ask>>

\* The look after the first reclaim sets the deadline of the stall.
Look ==
  /\ pc = "look"
  /\ governor_sample(TRUE)
  /\ IF over_hard_line(sample', want)
       THEN pc' = "stall" /\ left' = StallTicks
       ELSE pc' = "admitted" /\ UNCHANGED left
  /\ UNCHANGED <<held, others, reclaimed, ask>>

\* The nap of a stall, while the deadline is ahead.
Nap ==
  /\ pc = "stall"
  /\ left > 0
  /\ pc' = "tick"
  /\ left' = left - 1
  /\ Pass
  /\ UNCHANGED <<live, running, others, sample, ask>>

\* (mutant) every look starts the stall anew.
AgainAnew ==
  /\ pc = "again"
  /\ governor_sample(TRUE)
  /\ IF over_hard_line(sample', want)
       THEN pc' = "stall" /\ left' = StallTicks
       ELSE pc' = "admitted" /\ UNCHANGED left
  /\ UNCHANGED <<held, others, reclaimed, ask>>

\* ...and the look after it.
Again ==
  /\ pc = "again"
  /\ governor_sample(TRUE)
  /\ pc' = IF over_hard_line(sample', want) THEN "stall" ELSE "admitted"
  /\ UNCHANGED <<held, others, reclaimed, left, ask>>

Refuse ==
  /\ pc = "stall"
  /\ left = 0
  /\ pc' = "refused"
  /\ UNCHANGED <<held, others, sample, clock, ask>>

\* The locals of the ask are gone.
Return ==
  /\ pc' = "idle"
  /\ want' = 0 /\ left' = 0 /\ asked' = 0 /\ needed' = FALSE

\* The caller goes on: what it asked for becomes live (or fails to be
\* allocated), and its cadence may clear the pool on the way.
Use ==
  /\ pc = "admitted"
  /\ \/ Footprint + want <= MaxHeld /\ live' = live + want
     \/ UNCHANGED live
  /\ Clear \/ UNCHANGED <<cache, lagNew>>
  /\ Return
  /\ UNCHANGED <<running, handed, lagOld, others, sample, age, reclaimed>>

\* The refusal is an exception; its handlers release nothing here.
Refused ==
  /\ pc = "refused"
  /\ Return
  /\ UNCHANGED <<held, others, sample, age, reclaimed>>

Admit ==
  \/ Gate \/ Soft \/ Eased \/ Pace \/ reclaim_hard \/ Look \/ Nap \/ Again
  \/ Refuse \/ Use \/ Refused

---------------------------------------------------------------------------
(* Between asks: the program runs, and a speculation asks `governor_fits`. *)

\* Submitted work takes its transients from the pool first.
Submit ==
  /\ pc = "idle"
  /\ \/ cache > 0 /\ cache' = cache - 1
     \/ cache = 0 /\ Footprint < MaxHeld /\ UNCHANGED cache
  /\ \/ running' = running + 1 /\ UNCHANGED live
     \/ live' = live + 1 /\ UNCHANGED running
  /\ UNCHANGED <<pc, handed, lagNew, lagOld, others, sample, clock, ask>>

governor_fits(s, w) ==
  ~over_hard_line(s, w) /\ s.free >= FreeFloor \div 4 + w

\* A loop that would run ahead: the bytes of its next iteration.
Speculate(w) ==
  /\ pc = "idle"
  /\ governor_sample(FALSE)
  /\ running' = IF governor_fits(sample', w) /\ Footprint + w <= MaxHeld
                  THEN running + w ELSE running
  /\ UNCHANGED <<pc, live, handed, cache, lagNew, lagOld, others, reclaimed,
                 left, ask>>

Elapse ==
  /\ pc = "idle"
  /\ Pass
  /\ UNCHANGED <<pc, live, running, others, sample, left, ask>>

---------------------------------------------------------------------------
(* The machine, at any time. *)

\* The submitted work finishes.
Finish ==
  /\ running > 0
  /\ running' = 0 /\ handed' = handed + running
  /\ UNCHANGED <<pc, live, cache, lagNew, lagOld, others, sample, clock, ask>>

\* Completion handlers move its buffers to the pool.
Handle ==
  /\ handed > 0
  /\ handed' = 0 /\ cache' = cache + handed
  /\ UNCHANGED <<pc, live, running, lagNew, lagOld, others, sample, clock, ask>>

\* The OS takes released pages back.
Take ==
  /\ lagNew + lagOld > 0
  /\ lagNew' = 0 /\ lagOld' = 0
  /\ UNCHANGED <<pc, live, running, handed, cache, others, sample, clock, ask>>

\* Another thread, or Python's collector, drops an array.
Drop ==
  /\ live > 0
  /\ live' = live - 1 /\ cache' = cache + 1
  /\ UNCHANGED <<pc, running, handed, lagNew, lagOld, others, sample, clock, ask>>

\* Other processes come and go.
Claim ==
  /\ \E o \in 0 .. MaxOthers :
       /\ others' = o
       /\ needed' = (needed \/ (pc # "idle" /\ Over(asked, asked + o, want)))
  /\ UNCHANGED <<pc, held, sample, clock, want, asked>>

Machine == Finish \/ Handle \/ Take \/ Drop \/ Claim

Next ==
  \/ Admit \/ Machine \/ Submit \/ Elapse
  \/ \E w \in Wants : Ask(w) \/ Speculate(w)

Spec == Init /\ [][Next]_vars

\* The calling thread runs, and the device finishes what was submitted.
FairSpec == Spec /\ WF_vars(Admit) /\ WF_vars(Finish)

---------------------------------------------------------------------------
(* Properties. *)

TypeOK ==
  /\ pc \in {"idle", "gate", "soft", "eased", "pace", "hard", "look", "stall",
             "tick", "again", "admitted", "refused"}
  /\ want \in Wants \cup {0}
  /\ live \in Nat /\ running \in Nat /\ handed \in Nat /\ cache \in Nat
  /\ lagNew \in Nat /\ lagOld \in Nat
  /\ others \in 0 .. MaxOthers
  /\ sample \in [foot : Nat, claimed : Nat, free : Nat]
  /\ age \in 0 .. SamplePeriod
  /\ reclaimed \in 0 .. ReclaimPeriod
  /\ left \in 0 .. StallTicks
  /\ asked \in Nat /\ needed \in BOOLEAN

\* Nobody is refused over memory the process merely retained: if live arrays
\* and the other processes were within both lines all through an ask, then
\* what else the process held has gone back by the deadline.
RefusedForNeed == pc = "refused" => needed

\* A big ask is never admitted on a stale sample: whatever the route, the
\* process is within its budget with it, counted now and not when sampled.
BigWithinBudget ==
  pc = "admitted" /\ want >= Big => Footprint + want <= Budget

\* Every ask is answered.
EveryAskEnds == pc = "gate" ~> pc \in {"admitted", "refused"}
=============================================================================

------------------------------ MODULE Cadences ------------------------------
(***************************************************************************)
(* When memory goes back: the eager flush of an interpreted program and    *)
(* the bound it leaves the buffer pool at (program.cc eager_flush,         *)
(* runtime.cc flush_bound), the op units of loops (loop_account) and the   *)
(* bytes of transfers (ingest_account).                                    *)
(*                                                                         *)
(* `active` is MLX's active memory, `pool` its cache; what else the process  *)
(* holds is a choice of each flush.  A region is a program of its own,     *)
(* with its own FlushState, run inside another's main.                     *)
(***************************************************************************)
EXTENDS Integers, FiniteSets, FiniteSetsExt

CONSTANTS
  Programs,
  Configs,   \* [cap, floor, main, footprint, earn, syncEvery, eager, loop, ingest]
  MaxBytes   \* bound: bytes of an op or a transfer, active, pool, rest

\* A count, a period or a multiplier below zero is off, as zero is.
ASSUME CadenceAssumption ==
  /\ Configs \subseteq [cap : Int, floor : Int, main : Nat, footprint : Int, earn : Nat,
                       syncEvery : Nat, eager : Nat, loop : Nat, ingest : Nat]
  /\ MaxBytes \in Nat

VARIABLES
  cfg, active, pool,
  acc,                    \* each program's bytes since its last flush
  st,                     \* FlushState
  flushes,                \* g_stats.flushes, modulo flush_sync_every
  cost, ingested          \* g_flushed_cost, g_ingested_since_clear

cadenceVars == <<cfg, active, pool, acc, st, flushes, cost, ingested>>

Bytes0 == 0 .. MaxBytes
NoState == [flushes |-> 0, hi |-> -1, lo |-> -1]

CadenceInit ==
  /\ cfg \in Configs
  /\ active = 0 /\ pool = 0
  /\ acc = [p \in Programs |-> 0] /\ st = [p \in Programs |-> NoState]
  /\ flushes = 0 /\ cost = 0 /\ ingested = 0

---------------------------------------------------------------------------
\* (mutant) the last sample, instead of the high and low water.
ObserveLast(s, l) == [s EXCEPT !.hi = l, !.lo = IF s.lo < 0 THEN l ELSE Min({s.lo, l})]
ObserveLive(s, l) == [s EXCEPT !.hi = Max({s.hi, l}),
                               !.lo = IF s.lo < 0 THEN l ELSE Min({s.lo, l})]
Swing(s) == IF s.hi < 0 \/ s.lo < 0 THEN 0 ELSE s.hi - s.lo
PeakLive(s) == Max({s.hi, 0})

Floor(c) == Min({c.floor, c.cap})

\* (mutant) the pool itself counts against the room it is given.
RoomOfAll(c, foot, cacheNow) == c.footprint - foot
\* Rule 2: what the footprint leaves beside the live set.
RoomLeft(c, foot, cacheNow) == c.footprint - Max({foot - cacheNow, 0})
\* Rule 3: what the program's own live set says it cycles.
Earned(c, s) == Min({c.earn * Swing(s), PeakLive(s)})

\* flush_bound; foot < 0 when it could not be read.
FlushBound(c, s, cacheNow, foot, pressed) ==
  IF c.cap < 0 THEN c.cap
  ELSE IF pressed \/ s.flushes < c.main \/ (c.footprint > 0 /\ foot < 0) THEN Floor(c)
  ELSE Min({c.cap,
            Max({Floor(c), Min(UNION {
              {c.cap}, IF c.footprint > 0 THEN {RoomLeft(c, foot, cacheNow)} ELSE {},
              IF c.earn > 0 THEN {Earned(c, s)} ELSE {}})})})

\* eager_flush of program p, once the pending graph is evaluated: `l` is what
\* it holds then, `c` the pool, `foot` the process's footprint, -1 if it could not
\* be read.
EagerFlush(p, l, c, foot, squeezed) ==
  LET hard == cfg.syncEvery > 0 /\ flushes + 1 = cfg.syncEvery
      counted == [st[p] EXCEPT !.flushes = @ + 1]
      seen == IF cfg.cap >= 0 THEN ObserveLive(counted, l) ELSE counted
      bound == FlushBound(cfg, seen, c, foot, squeezed)
  IN /\ flushes' = (IF cfg.syncEvery > 0 THEN (flushes + 1) % cfg.syncEvery ELSE 0)
     /\ active' = l
     /\ IF hard
        THEN /\ st' = [st EXCEPT ![p] = [seen EXCEPT !.flushes = Min({@, cfg.main})]]
             /\ pool' = IF cfg.cap >= 0 THEN Min({c, bound}) ELSE c
        ELSE pool' = c /\ UNCHANGED st

\* One op of program p, of `b` estimated bytes: the live set moves, what it
\* grows by comes out of the pool, what it drops goes there.
Op(p, b, l) ==
  LET c == Min({MaxBytes, IF l <= active THEN pool + (active - l) + b
                          ELSE Max({pool - (l - active), 0}) + b})
  IN /\ IF cfg.eager > 0 /\ acc[p] + b >= cfg.eager
        THEN /\ acc' = [acc EXCEPT ![p] = 0]
             /\ \/ \E foreign \in {0, MaxBytes} : EagerFlush(p, l, c, l + c + foreign, FALSE)
                \/ \E squeezed \in BOOLEAN : EagerFlush(p, l, c, -1, squeezed)
        ELSE /\ acc' = [acc EXCEPT ![p] = IF cfg.eager > 0 THEN @ + b ELSE 0]
             /\ active' = l /\ pool' = c
             /\ UNCHANGED <<st, flushes>>
     /\ UNCHANGED <<cfg, cost, ingested>>

\* loop_account and ingest_account: counters that clear the whole pool.
Charge(counter, amount, every) ==
  IF every > 0 /\ counter + amount >= every THEN 0
  ELSE IF every > 0 THEN counter + amount ELSE 0
LoopAccount(units) ==
  /\ cost' = Charge(cost, units, cfg.loop)
  /\ pool' = IF cfg.loop > 0 /\ cost' = 0 THEN 0 ELSE pool
  /\ UNCHANGED <<cfg, active, acc, st, flushes, ingested>>
Ingest(b) ==
  /\ active + b <= MaxBytes /\ active' = active + b
  /\ ingested' = Charge(ingested, b, cfg.ingest)
  /\ pool' = IF cfg.ingest > 0 /\ ingested' = 0 THEN 0 ELSE pool
  /\ UNCHANGED <<cfg, acc, st, flushes, cost>>

CadenceNext ==
  \/ \E p \in Programs, b \in 1 .. 2, l \in Bytes0 : Op(p, b, l)
  \/ LoopAccount(1)
  \/ \E b \in 1 .. MaxBytes : Ingest(b)
CadenceSpec == CadenceInit /\ [][CadenceNext]_cadenceVars

---------------------------------------------------------------------------
\* On the same machine a program's grant never shrinks from one flush to the
\* next, whatever MLX's pool holds at either: a bound that came and went, or
\* that the trim to it moved, would dump the pool again and again.
GrantNeverShrinks ==
  [][st' # st =>
       \A p \in Programs, c, f \in Bytes0 :
         FlushBound(cfg, st'[p], c, f + c, FALSE)
           >= FlushBound(cfg, st[p], 0, f, FALSE)]_cadenceVars
=============================================================================

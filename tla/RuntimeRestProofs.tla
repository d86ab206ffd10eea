-------------------------- MODULE RuntimeRestProofs --------------------------
(***************************************************************************)
(* What holds of the governor, the cadences, the window of a counted loop  *)
(* and the tape cache for every instance: nobody is refused over retained  *)
(* memory and big asks keep the budget, the pool's bound of a program      *)
(* never shrinks, what a loop has in flight fits its budget; and a pack    *)
(* that is used was made of the buffer the call hands over, a living       *)
(* weight's pack makes room only after every dead one, and repacking ends. *)
(* Last, a specialized loop: the windows a chunk is traced with are the    *)
(* ones its slices mean, and a graph's tables stay as long as it does.     *)
(***************************************************************************)
EXTENDS Governor, LoopWindow, Cadences, TapeCache, LoopSpec, Induction, FiniteSetTheorems, TLAPS

---------------------------------------------------------------------------
(* Grants.  A flush state has seen nothing, or a high and a low water.     *)
Seen(s) ==
  /\ s \in [flushes : Nat, hi : Int, lo : Int]
  /\ (s.hi = -1 /\ s.lo = -1) \/ (0 <= s.lo /\ s.lo <= s.hi)

CadenceInv ==
  /\ cfg \in Configs
  /\ st \in [Programs -> [flushes : Nat, hi : Int, lo : Int]]
  /\ \A p \in Programs : Seen(st[p])

\* `t` has seen what `s` has, and perhaps more; `main` is as far as flushes
\* are counted.
Widens(t, s, main) ==
  /\ Seen(s) /\ Seen(t)
  /\ t.flushes < main => s.flushes < main
  /\ \/ t.hi = s.hi /\ t.lo = s.lo
     \/ t.hi >= 0 /\ t.hi >= s.hi /\ (s.lo < 0 \/ t.lo <= s.lo)

\* The smaller of two.
LEMMA MinOfTwo ==
  ASSUME NEW a \in Int, NEW b \in Int
  PROVE  Min({a, b}) = IF a <= b THEN a ELSE b
<1> DEFINE m == IF a <= b THEN a ELSE b
<1>1. m \in {a, b} /\ \A y \in {a, b} : m <= y
  OBVIOUS
<1>2. \A x \in {a, b} : (\A y \in {a, b} : x <= y) => x = m
  OBVIOUS
<1> QED  BY <1>1, <1>2 DEF Min

\* The larger of two.
LEMMA MaxOfTwo ==
  ASSUME NEW a \in Int, NEW b \in Int
  PROVE  Max({a, b}) = IF a >= b THEN a ELSE b
<1> DEFINE m == IF a >= b THEN a ELSE b
<1>1. m \in {a, b} /\ \A y \in {a, b} : m >= y
  OBVIOUS
<1>2. \A x \in {a, b} : (\A y \in {a, b} : x >= y) => x = m
  OBVIOUS
<1> QED  BY <1>1, <1>2 DEF Max

\* Min of a set that has a least element.
LEMMA MinOfSome ==
  ASSUME NEW S, NEW m \in S, \A y \in S : m <= y
  PROVE  Min(S) \in S /\ \A y \in S : Min(S) <= y
BY DEF Min

---------------------------------------------------------------------------
(* The clamps of flush_bound, named. *)
Limits(c, s, foot, cacheNow) ==
  UNION {{c.cap}, IF c.footprint > 0 THEN {RoomLeft(c, foot, cacheNow)} ELSE {},
         IF c.earn > 0 THEN {Earned(c, s)} ELSE {}}

\* A flush widens what its program has seen, and leaves the others alone.
LEMMA FlushWidens ==
  ASSUME CadenceInv, CadenceNext
  PROVE  /\ \A p \in Programs : Widens(st'[p], st[p], cfg.main)
         /\ CadenceInv'
<1>1. cfg' = cfg /\ cfg \in Configs /\ cfg.main \in Nat
  BY CadenceAssumption DEF CadenceInv, CadenceNext, Op, LoopAccount, Ingest, CadenceAssumption
<1>2. \A p \in Programs : Widens(st[p], st[p], cfg.main)
  BY DEF CadenceInv, Widens
<1>3. CASE UNCHANGED st
  BY <1>1, <1>2, <1>3 DEF CadenceInv
<1>4. ASSUME NEW p \in Programs, NEW l \in Bytes0, NEW c, NEW foot, NEW squeezed,
             EagerFlush(p, l, c, foot, squeezed), ~ UNCHANGED st
      PROVE  /\ \A q \in Programs : Widens(st'[q], st[q], cfg.main)
             /\ st' \in [Programs -> [flushes : Nat, hi : Int, lo : Int]]
  <2> DEFINE counted == [st[p] EXCEPT !.flushes = @ + 1]
             seen == IF cfg.cap >= 0 THEN ObserveLive(counted, l) ELSE counted
             kept == [seen EXCEPT !.flushes = Min({@, cfg.main})]
  <2>1. st' = [st EXCEPT ![p] = kept]
    BY <1>4 DEF EagerFlush
  <2>2. Seen(st[p]) /\ st[p] \in [flushes : Nat, hi : Int, lo : Int]
    BY DEF CadenceInv
  <2>3. l \in Nat
    BY CadenceAssumption DEF CadenceAssumption, Bytes0
  <2>4. seen = counted \/ seen = [counted EXCEPT !.hi = IF st[p].hi >= l THEN st[p].hi ELSE l,
                                    !.lo = IF st[p].lo < 0 THEN l ELSE IF st[p].lo <= l THEN st[p].lo ELSE l]
    <3>1. Max({st[p].hi, l}) = IF st[p].hi >= l THEN st[p].hi ELSE l
      BY <2>2, <2>3, MaxOfTwo
    <3>2. Min({st[p].lo, l}) = IF st[p].lo <= l THEN st[p].lo ELSE l
      BY <2>2, <2>3, MinOfTwo
    <3>3. counted.hi = st[p].hi /\ counted.lo = st[p].lo
      BY <2>2
    <3> QED  BY <3>1, <3>2, <3>3 DEF ObserveLive
  <2>5. seen.flushes = st[p].flushes + 1 /\ seen \in [flushes : Nat, hi : Int, lo : Int]
    <3>1. counted.flushes = st[p].flushes + 1 /\ counted \in [flushes : Nat, hi : Int, lo : Int]
      BY <2>2
    <3> DEFINE high == IF st[p].hi >= l THEN st[p].hi ELSE l
               low == IF st[p].lo < 0 THEN l ELSE IF st[p].lo <= l THEN st[p].lo ELSE l
    <3>2. high \in Int /\ low \in Int
      BY <2>2, <2>3
    <3> HIDE DEF high, low
    <3>3. [counted EXCEPT !.hi = high, !.lo = low] \in [flushes : Nat, hi : Int, lo : Int]
      BY <3>1, <3>2
    <3>4. [counted EXCEPT !.hi = high, !.lo = low].flushes = counted.flushes
      BY <3>1
    <3>5. seen = counted \/ seen = [counted EXCEPT !.hi = high, !.lo = low]
      BY <2>4 DEF high, low
    <3> HIDE DEF counted, seen
    <3> QED  BY <3>1, <3>3, <3>4, <3>5
  <2>6. Min({seen.flushes, cfg.main}) = IF seen.flushes <= cfg.main THEN seen.flushes ELSE cfg.main
    BY <1>1, <2>5, MinOfTwo
  <2>7. /\ kept \in [flushes : Nat, hi : Int, lo : Int]
        /\ kept.flushes < cfg.main => st[p].flushes < cfg.main
        /\ kept.hi = seen.hi /\ kept.lo = seen.lo
    BY <1>1, <2>2, <2>5, <2>6
  <2>8. Seen(kept) /\ \/ kept.hi = st[p].hi /\ kept.lo = st[p].lo
                      \/ kept.hi >= 0 /\ kept.hi >= st[p].hi /\ (st[p].lo < 0 \/ kept.lo <= st[p].lo)
    <3> HIDE DEF kept
    <3>1. CASE seen = counted
      <4>1. seen.hi = st[p].hi /\ seen.lo = st[p].lo
        BY <2>2, <3>1
      <4> QED  BY <2>2, <2>7, <4>1 DEF Seen
    <3>2. CASE seen # counted
      <4>1. /\ seen.hi = (IF st[p].hi >= l THEN st[p].hi ELSE l)
            /\ seen.lo = (IF st[p].lo < 0 THEN l ELSE IF st[p].lo <= l THEN st[p].lo ELSE l)
        BY <2>2, <2>4, <3>2
      <4> QED  BY <2>2, <2>3, <2>7, <4>1 DEF Seen
    <3> QED  BY <3>1, <3>2
  <2>9. Widens(kept, st[p], cfg.main)
    BY <2>2, <2>7, <2>8 DEF Widens
  <2> HIDE DEF counted, seen, kept
  <2>10. st \in [Programs -> [flushes : Nat, hi : Int, lo : Int]]
    BY DEF CadenceInv
  <2> QED  BY <1>2, <2>1, <2>7, <2>9, <2>10
<1>5. \/ UNCHANGED st
      \/ \E p \in Programs, l \in Bytes0 : \E c, foot, squeezed :
           EagerFlush(p, l, c, foot, squeezed)
  <2>1. CASE \E p \in Programs, b \in 1 .. 2, l \in Bytes0 : Op(p, b, l)
    <3>1. PICK p \in Programs, b \in 1 .. 2, l \in Bytes0 : Op(p, b, l)
      BY <2>1
    <3> QED  BY <3>1 DEF Op
  <2>2. CASE LoopAccount(1) \/ \E b \in 1 .. MaxBytes : Ingest(b)
    BY <2>2 DEF LoopAccount, Ingest
  <2> QED  BY <2>1, <2>2 DEF CadenceNext
<1> QED  BY <1>1, <1>3, <1>4, <1>5 DEF CadenceInv, Widens

\* What a program has earned only grows with what it has seen.
LEMMA EarnedGrows ==
  ASSUME NEW c \in Configs, NEW s, NEW t, Widens(t, s, c.main)
  PROVE  Earned(c, s) \in Int /\ Earned(c, t) \in Int /\ Earned(c, s) <= Earned(c, t)
<1>1. c.earn \in Nat
  BY CadenceAssumption DEF CadenceAssumption
<1>2. Swing(s) \in Nat /\ Swing(t) \in Nat /\ Swing(s) <= Swing(t)
  BY DEF Widens, Seen, Swing
<1>3. PeakLive(s) \in Nat /\ PeakLive(t) \in Nat /\ PeakLive(s) <= PeakLive(t)
  <2>1. s.hi \in Int /\ t.hi \in Int /\ s.hi <= t.hi
    BY DEF Widens, Seen
  <2>2. PeakLive(s) = (IF s.hi >= 0 THEN s.hi ELSE 0) /\ PeakLive(t) = (IF t.hi >= 0 THEN t.hi ELSE 0)
    BY <2>1, MaxOfTwo DEF PeakLive
  <2> QED  BY <2>1, <2>2
<1>4. /\ c.earn * Swing(s) \in Nat /\ c.earn * Swing(t) \in Nat
      /\ c.earn * Swing(s) <= c.earn * Swing(t)
  <2> DEFINE d == Swing(t) - Swing(s)
  <2>1. d \in Nat /\ Swing(t) = Swing(s) + d
    BY <1>2
  <2>2. c.earn * d \in Nat /\ c.earn * Swing(s) \in Nat
    BY <1>1, <1>2, <2>1
  <2> HIDE DEF d
  <2>3. c.earn * (Swing(s) + d) = c.earn * Swing(s) + c.earn * d
    BY <1>1, <1>2, <2>1
  <2> QED  BY <2>1, <2>2, <2>3
<1>5. /\ Earned(c, s) = (IF c.earn * Swing(s) <= PeakLive(s) THEN c.earn * Swing(s) ELSE PeakLive(s))
      /\ Earned(c, t) = (IF c.earn * Swing(t) <= PeakLive(t) THEN c.earn * Swing(t) ELSE PeakLive(t))
  BY <1>3, <1>4, MinOfTwo DEF Earned
<1> QED  BY <1>3, <1>4, <1>5

\* The least limit grows with what has been seen.
LEMMA LimitsGrow ==
  ASSUME NEW c \in Configs, NEW s, NEW t, Widens(t, s, c.main),
         NEW foot \in Int, NEW cacheNow \in Int, NEW f \in Int, NEW k \in Int,
         foot - cacheNow = f - k
  PROVE  /\ Min(Limits(c, s, f, k)) \in Int /\ Min(Limits(c, t, foot, cacheNow)) \in Int
         /\ Min(Limits(c, s, f, k)) <= Min(Limits(c, t, foot, cacheNow))
<1> DEFINE S == Limits(c, s, f, k)
           T == Limits(c, t, foot, cacheNow)
<1>1. c.cap \in Int /\ c.footprint \in Int /\ c.earn \in Nat
  BY CadenceAssumption DEF CadenceAssumption
<1>2. RoomLeft(c, foot, cacheNow) = RoomLeft(c, f, k) /\ RoomLeft(c, f, k) \in Int
  <2>1. Max({f - k, 0}) \in Int /\ Max({foot - cacheNow, 0}) = Max({f - k, 0})
    <3>1. f - k \in Int /\ 0 \in Int
      OBVIOUS
    <3>2. Max({f - k, 0}) = IF f - k >= 0 THEN f - k ELSE 0
      BY <3>1, MaxOfTwo
    <3>3. Max({f - k, 0}) \in Int
      BY <3>1, <3>2
    <3>4. {foot - cacheNow, 0} = {f - k, 0}
      OBVIOUS
    <3> QED  BY <3>3, <3>4, Zenon
  <2> QED  BY <1>1, <2>1 DEF RoomLeft
<1>3. Earned(c, s) \in Int /\ Earned(c, t) \in Int /\ Earned(c, s) <= Earned(c, t)
  BY EarnedGrows
<1>4. S = {c.cap} \cup (IF c.footprint > 0 THEN {RoomLeft(c, f, k)} ELSE {})
                  \cup (IF c.earn > 0 THEN {Earned(c, s)} ELSE {})
  BY DEF Limits
<1>5. T = {c.cap} \cup (IF c.footprint > 0 THEN {RoomLeft(c, f, k)} ELSE {})
                  \cup (IF c.earn > 0 THEN {Earned(c, t)} ELSE {})
  BY <1>2 DEF Limits
<1> HIDE DEF S, T
<1>6. /\ \A y \in S : y \in Int
      /\ \A y \in T : y \in Int
      /\ \A y \in T : \E x \in S : x <= y
  BY <1>1, <1>2, <1>3, <1>4, <1>5
<1>7. Min(S) \in S /\ \A y \in S : Min(S) <= y
  <2>1. \E m \in S : \A y \in S : m <= y
    BY <1>1, <1>2, <1>3, <1>4
  <2> QED  BY <2>1, MinOfSome
<1>8. Min(T) \in T /\ \A y \in T : Min(T) <= y
  <2>1. \E m \in T : \A y \in T : m <= y
    <3> DEFINE room == RoomLeft(c, f, k)
               earned == Earned(c, t)
    <3>1. c.cap \in Int /\ room \in Int /\ earned \in Int
      BY <1>1, <1>2, <1>3
    <3>2. T = {c.cap} \cup (IF c.footprint > 0 THEN {room} ELSE {})
                     \cup (IF c.earn > 0 THEN {earned} ELSE {})
      BY <1>5
    <3> HIDE DEF room, earned
    <3>3. \A y \in T : y = c.cap \/ y = room \/ y = earned
      BY <3>2
    <3>4. c.cap \in T
      BY <3>2
    <3>5. CASE room \in T /\ earned \in T
      BY <3>1, <3>3, <3>4, <3>5
    <3>6. CASE room \in T /\ earned \notin T
      BY <3>1, <3>3, <3>4, <3>6
    <3>7. CASE room \notin T /\ earned \in T
      BY <3>1, <3>3, <3>4, <3>7
    <3>8. CASE room \notin T /\ earned \notin T
      BY <3>1, <3>3, <3>4, <3>8
    <3> QED  BY <3>5, <3>6, <3>7, <3>8
  <2> QED  BY <2>1, MinOfSome
<1>9. PICK x \in S : x <= Min(T)
  BY <1>6, <1>8
<1>10. Min(S) \in Int /\ Min(T) \in Int /\ Min(S) <= Min(T)
  BY <1>6, <1>7, <1>8, <1>9
<1> QED  BY <1>10 DEF S, T

\* flush_bound, off the last resort: between the floor and the cap.
LEMMA Granted ==
  ASSUME NEW c \in Configs, NEW m \in Int
  PROVE  /\ Floor(c) \in Int
         /\ Min({c.cap, Max({Floor(c), m})}) =
              LET high == IF Floor(c) >= m THEN Floor(c) ELSE m
              IN IF c.cap <= high THEN c.cap ELSE high
         /\ Floor(c) <= c.cap
<1>1. c.cap \in Int /\ c.floor \in Int
  BY CadenceAssumption DEF CadenceAssumption
<1>2. Floor(c) = IF c.floor <= c.cap THEN c.floor ELSE c.cap
  BY <1>1, MinOfTwo DEF Floor
<1>3. Floor(c) \in Int /\ Floor(c) <= c.cap
  BY <1>1, <1>2
<1>4. Max({Floor(c), m}) = IF Floor(c) >= m THEN Floor(c) ELSE m
  BY <1>3, MaxOfTwo
<1>5. Max({Floor(c), m}) \in Int
  BY <1>3, <1>4
<1> QED  BY <1>1, <1>3, <1>4, <1>5, MinOfTwo

LEMMA BoundGrows ==
  ASSUME NEW c \in Configs, NEW s, NEW t, Widens(t, s, c.main),
         NEW k \in Nat, NEW f \in Nat
  PROVE  FlushBound(c, t, k, f + k, FALSE) >= FlushBound(c, s, 0, f, FALSE)
<1> DEFINE S == Min(Limits(c, s, f, 0))
           T == Min(Limits(c, t, f + k, k))
<1>1. c.cap \in Int /\ c.footprint \in Int /\ c.main \in Nat
  BY CadenceAssumption DEF CadenceAssumption
<1>2. S \in Int /\ T \in Int /\ S <= T
  <2>1. f + k \in Int /\ f \in Int /\ k \in Int /\ 0 \in Int /\ (f + k) - k = f - 0
    OBVIOUS
  <2> HIDE DEF Limits
  <2> QED  BY <2>1, LimitsGrow, Zenon
<1>3. FlushBound(c, s, 0, f, FALSE) =
        IF c.cap < 0 THEN c.cap ELSE IF s.flushes < c.main THEN Floor(c)
        ELSE Min({c.cap, Max({Floor(c), S})})
  <2>1. ~ (f < 0)
    OBVIOUS
  <2> QED  BY <2>1 DEF FlushBound, Limits
<1>4. FlushBound(c, t, k, f + k, FALSE) =
        IF c.cap < 0 THEN c.cap ELSE IF t.flushes < c.main THEN Floor(c)
        ELSE Min({c.cap, Max({Floor(c), T})})
  <2>1. ~ (f + k < 0)
    OBVIOUS
  <2> QED  BY <2>1 DEF FlushBound, Limits
<1> HIDE DEF S, T
<1>5. t.flushes < c.main => s.flushes < c.main
  BY DEF Widens
<1>6. Floor(c) \in Int /\ Floor(c) <= c.cap
  BY <1>2, Granted
<1>7. Min({c.cap, Max({Floor(c), S})}) = LET high == IF Floor(c) >= S THEN Floor(c) ELSE S
                                         IN IF c.cap <= high THEN c.cap ELSE high
  BY <1>2, Granted
<1>8. Min({c.cap, Max({Floor(c), T})}) = LET high == IF Floor(c) >= T THEN Floor(c) ELSE T
                                         IN IF c.cap <= high THEN c.cap ELSE high
  BY <1>2, Granted
<1> DEFINE low == Floor(c)
           old == Min({c.cap, Max({low, S})})
           new == Min({c.cap, Max({low, T})})
<1>9. old \in Int /\ new \in Int /\ old <= new /\ low <= old /\ low <= new
  BY <1>1, <1>2, <1>6, <1>7, <1>8
<1> HIDE DEF low, old, new
<1> DEFINE before == FlushBound(c, s, 0, f, FALSE)
           after == FlushBound(c, t, k, f + k, FALSE)
<1>10. \/ c.cap < 0 /\ after = c.cap /\ before = c.cap
       \/ after = low /\ before = low
       \/ after = new /\ before \in {low, old}
  BY <1>3, <1>4, <1>5 DEF low, old, new
<1>11. low \in Int
  BY <1>6 DEF low
<1> HIDE DEF before, after
<1>12. after >= before
  BY <1>1, <1>9, <1>10, <1>11
<1> QED  BY <1>12 DEF before, after

\* On the same machine a program's grant never shrinks from one flush to the
\* next, whatever the pool holds (flush_bound), for any configuration.
THEOREM GrantMonotone == CadenceSpec => GrantNeverShrinks
<1>1. CadenceInit => CadenceInv
  BY DEF CadenceInit, CadenceInv, Seen, NoState
<1>2. CadenceInv /\ [CadenceNext]_cadenceVars => CadenceInv'
  <2>1. CadenceInv /\ UNCHANGED cadenceVars => CadenceInv'
    BY DEF CadenceInv, cadenceVars
  <2> QED  BY <2>1, FlushWidens
<1>3. CadenceInv /\ [CadenceNext]_cadenceVars =>
        [st' # st => \A p \in Programs, c, f \in Bytes0 :
           FlushBound(cfg, st'[p], c, f + c, FALSE) >= FlushBound(cfg, st[p], 0, f, FALSE)]_cadenceVars
  <2> SUFFICES ASSUME CadenceInv, CadenceNext, NEW p \in Programs, NEW c \in Bytes0, NEW f \in Bytes0
               PROVE  FlushBound(cfg, st'[p], c, f + c, FALSE) >= FlushBound(cfg, st[p], 0, f, FALSE)
    OBVIOUS
  <2>1. c \in Nat /\ f \in Nat
    BY CadenceAssumption DEF CadenceAssumption, Bytes0
  <2>2. cfg \in Configs /\ Widens(st'[p], st[p], cfg.main)
    BY FlushWidens DEF CadenceInv
  <2> QED  BY <2>1, <2>2, BoundGrows
<1> QED  BY <1>1, <1>2, <1>3, PTL DEF CadenceSpec, GrantNeverShrinks

---------------------------------------------------------------------------
(* The window of a counted loop.  What fits the budget is a product: a     *)
(* number of submissions, times the iterations of one, times what one      *)
(* holds; the lemmas below keep those apart until the last step.           *)

\* The largest of three.
LEMMA MaxOfThree ==
  ASSUME NEW a \in Int, NEW b \in Int, NEW c \in Int
  PROVE  LET m == Max({a, b, c}) IN m \in {a, b, c} /\ m >= a /\ m >= b /\ m >= c
<1>1. PICK m \in {a, b, c} : \A y \in {a, b, c} : m >= y
  OBVIOUS
<1>2. \A x \in {a, b, c} : (\A y \in {a, b, c} : x >= y) => x = m
  BY <1>1
<1>3. Max({a, b, c}) = m
  BY <1>1, <1>2 DEF Max
<1> QED  BY <1>1, <1>3

\* A quotient times its divisor is no more than what was divided.
LEMMA Quotient ==
  ASSUME NEW b \in Int, NEW u \in Nat \ {0}
  PROVE  b \div u \in Int /\ (b \div u) * u <= b
BY Z3

\* What fits under a quotient fits with any multiplier below it.
LEMMA FewerFit ==
  ASSUME NEW b \in Int, NEW u \in Nat \ {0}, NEW n \in Int, n <= b \div u
  PROVE  n * u <= b
<1>1. b \div u \in Int /\ (b \div u) * u <= b
  BY Quotient
<1> DEFINE q == b \div u
<1>2. q \in Int /\ q * u <= b /\ n <= q
  BY <1>1
<1> HIDE DEF q
<1>3. n * u <= q * u
  BY <1>2
<1>4. n * u \in Int /\ q * u \in Int
  BY <1>2
<1> QED  BY <1>2, <1>3, <1>4

\* An inequality times a number that is not negative.
LEMMA Scaled ==
  ASSUME NEW x \in Int, NEW y \in Int, NEW u \in Nat, x <= y
  PROVE  u * x <= y * u /\ u * x \in Int
<1>1. PICK r \in Nat : y = x + r
  <2>1. y - x \in Nat /\ y = x + (y - x)
    OBVIOUS
  <2> QED  BY <2>1
<1>2. y * u = u * x + u * r /\ u * r \in Nat /\ u * x \in Int
  BY <1>1
<1> QED  BY <1>2

\* What AtLeast1 returns.
LEMMA AtLeast ==
  ASSUME NEW x \in Int
  PROVE  AtLeast1(x) = (IF x >= 1 THEN x ELSE 1) /\ AtLeast1(x) \in Nat \ {0}
<1>1. Max({1, x}) = IF 1 >= x THEN 1 ELSE x
  BY MaxOfTwo
<1> QED  BY <1>1 DEF AtLeast1

\* `keep + 1` submissions fit the budget, unless one is the least there is.
LEMMA KeepFits ==
  ASSUME NEW b \in Int, NEW u \in Nat \ {0}, NEW most \in Int
  PROVE  /\ WindowKeep(b, u, most) \in Nat \ {0}
         /\ WindowKeep(b, u, most) = 1 \/ (WindowKeep(b, u, most) + 1) * u <= b
<1> DEFINE q == b \div u
           fit == Min({q - 1, AtLeast1(most)})
<1>1. AtLeast1(u) = u /\ AtLeast1(most) \in Int
  BY AtLeast
<1>2. q \in Int
  BY Quotient
<1>3. fit = IF q - 1 <= AtLeast1(most) THEN q - 1 ELSE AtLeast1(most)
  BY <1>1, <1>2, MinOfTwo
<1>4. WindowKeep(b, u, most) = AtLeast1(fit)
  BY <1>1 DEF WindowKeep
<1>5. fit \in Int /\ fit <= q - 1
  BY <1>1, <1>2, <1>3
<1> HIDE DEF fit, q
<1>6. AtLeast1(fit) = (IF fit >= 1 THEN fit ELSE 1) /\ AtLeast1(fit) \in Nat \ {0}
  BY <1>5, AtLeast
<1>7. CASE fit >= 1
  <2>1. WindowKeep(b, u, most) = fit /\ fit + 1 \in Int /\ fit + 1 <= q
    BY <1>2, <1>4, <1>5, <1>6, <1>7
  <2>2. (fit + 1) * u <= b
    BY <2>1, FewerFit DEF q
  <2> QED  BY <1>4, <1>6, <2>1, <2>2
<1>8. CASE ~ (fit >= 1)
  BY <1>4, <1>5, <1>6, <1>8
<1> QED  BY <1>7, <1>8

\* What a loop is declared as.
LEMMA LoopTyped ==
  ASSUME loop \in Loops
  PROVE  /\ loop.period \in Nat /\ loop.hardEvery \in Nat /\ loop.budget \in Int
         /\ loop.estimate \in Int /\ loop.unit \in Nat \ {0} /\ loop.inflight \in Nat
         /\ loop.arm \in {"single", "chunked"} /\ loop.trip \in Nat /\ loop.syncEvery \in Nat \ {0}
BY LoopWindowAssumption DEF LoopWindowAssumption

\* Three groups fit the budget, or one that blocks, unless one iteration is
\* the least there is.
LEMMA GroupFits ==
  ASSUME loop \in Loops, NEW u \in Int, NEW async \in BOOLEAN
  PROVE  /\ GroupOf(async, u) \in Nat \ {0}
         /\ async /\ u >= 1 => GroupOf(async, u) = 1 \/ GroupOf(async, u) * (3 * u) <= loop.budget
         /\ u >= 1 => GroupOf(async, u) = 1 \/ GroupOf(async, u) * u <= loop.budget
<1> DEFINE span == (IF async THEN 3 ELSE 1) * AtLeast1(u)
           q == loop.budget \div span
           fit == Min({loop.period, q})
<1>1. AtLeast1(u) \in Nat \ {0} /\ (u >= 1 => AtLeast1(u) = u)
  BY AtLeast
<1>2. span \in Nat \ {0} /\ (u >= 1 => span = (IF async THEN 3 * u ELSE u))
  BY <1>1
<1> HIDE DEF span
<1>3. loop.budget \in Int /\ loop.period \in Int
  BY LoopTyped
<1>4. q \in Int
  BY <1>2, <1>3, Quotient
<1>5. fit \in Int /\ fit <= q
  <2>1. fit = IF loop.period <= q THEN loop.period ELSE q
    BY <1>3, <1>4, MinOfTwo
  <2> QED  BY <1>3, <1>4, <2>1
<1>6. GroupOf(async, u) = AtLeast1(fit)
  BY DEF GroupOf, span
<1> HIDE DEF fit
<1>7. AtLeast1(fit) = (IF fit >= 1 THEN fit ELSE 1) /\ AtLeast1(fit) \in Nat \ {0}
  BY <1>5, AtLeast
<1>8. fit * span <= loop.budget
  BY <1>2, <1>3, <1>5, FewerFit
<1>9. GroupOf(async, u) \in Nat \ {0}
  BY <1>6, <1>7
<1>10. ASSUME u >= 1, fit >= 1
       PROVE  /\ async => GroupOf(async, u) * (3 * u) <= loop.budget
              /\ GroupOf(async, u) * u <= loop.budget
  <2>1. GroupOf(async, u) = fit /\ fit \in Nat /\ u \in Nat
    BY <1>5, <1>6, <1>7, <1>10
  <2>2. CASE async
    <3>1. fit * (3 * u) <= loop.budget
      BY <1>2, <1>8, <1>10, <2>2
    <3>2. fit * (3 * u) = 3 * (fit * u) /\ fit * u \in Nat
      BY <2>1
    <3> QED  BY <1>3, <2>1, <3>1, <3>2
  <2>3. CASE ~ async
    BY <1>2, <1>8, <1>10, <2>1, <2>3
  <2> QED  BY <2>2, <2>3
<1>11. ASSUME ~ (fit >= 1)
       PROVE  GroupOf(async, u) = 1
  BY <1>5, <1>6, <1>7, <1>11
<1> QED  BY <1>9, <1>10, <1>11

\* The single arm always keeps at least one submission.
LEMMA KeepTyped ==
  ASSUME loop \in Loops, NEW u \in Int, NEW async \in BOOLEAN
  PROVE  KeepOf(async, u) \in Nat \ {0}
<1> DEFINE g == GroupOf(async, u)
           w == g * AtLeast1(u)
           most == AtLeast1(loop.hardEvery \div g)
<1>1. g \in Nat \ {0} /\ AtLeast1(u) \in Nat \ {0}
  BY GroupFits, AtLeast
<1>2. w \in Nat \ {0}
  BY <1>1
<1>3. most \in Int
  BY <1>1, LoopTyped, Quotient, AtLeast
<1>4. KeepOf(async, u) = IF async THEN WindowKeep(loop.budget, w, most) ELSE 1
  BY DEF KeepOf
<1> HIDE DEF w, most
<1>5. WindowKeep(loop.budget, w, most) \in Nat \ {0}
  <2>1. loop.budget \in Int
    BY LoopTyped
  <2> QED  BY <1>2, <1>3, <2>1, KeepFits
<1> QED  BY <1>4, <1>5

\* The plan of the single arm, made of what an iteration holds: the window
\* and the submission behind it fit the budget, or are two iterations.
LEMMA PlanFits ==
  ASSUME loop \in Loops
  PROVE  (KeepOf(TRUE, loop.unit) + 1) * GroupOf(TRUE, loop.unit) * loop.unit <= Room
<1> DEFINE u == loop.unit
           g == GroupOf(TRUE, u)
           w == g * AtLeast1(u)
           d == loop.hardEvery \div g
           most == AtLeast1(d)
           k == WindowKeep(loop.budget, w, most)
<1>1. u \in Nat \ {0} /\ loop.budget \in Int /\ loop.hardEvery \in Int
  BY LoopTyped
<1>2. KeepOf(TRUE, u) = k
  BY DEF KeepOf
<1>3. Room = IF loop.budget >= 2 * u THEN loop.budget ELSE 2 * u
  BY <1>1, MaxOfTwo DEF Room
<1>4. SUFFICES (k + 1) * g * u <= Room
  BY <1>2
<1> HIDE DEF u
<1>5. g \in Nat \ {0} /\ (g = 1 \/ g * (3 * u) <= loop.budget)
  <2>1. u \in Int /\ TRUE \in BOOLEAN /\ u >= 1
    BY <1>1
  <2> QED  BY <2>1, GroupFits
<1> HIDE DEF g
<1>6. d \in Int
  BY <1>1, <1>5, Quotient
<1> HIDE DEF d
<1>7. most \in Int /\ AtLeast1(u) = u
  BY <1>1, <1>6, AtLeast
<1>8. w = g * u /\ w \in Nat \ {0}
  BY <1>1, <1>5, <1>7
<1> HIDE DEF most, w
<1>9. k \in Nat \ {0} /\ (k = 1 \/ (k + 1) * w <= loop.budget)
  BY <1>1, <1>7, <1>8, KeepFits
<1> HIDE DEF k
<1>10. (k + 1) * g * u = (k + 1) * w /\ (k + 1) * w \in Int
  BY <1>1, <1>5, <1>8, <1>9
<1>11. CASE (k + 1) * w <= loop.budget
  BY <1>1, <1>3, <1>10, <1>11
<1>12. CASE k = 1 /\ g = 1
  <2>1. (k + 1) * w = 2 * u
    BY <1>1, <1>8, <1>12
  <2> QED  BY <1>1, <1>3, <1>10, <2>1
<1>13. CASE k = 1 /\ g * (3 * u) <= loop.budget
  <2>1. (k + 1) * w = 2 * (g * u) /\ g * (3 * u) = 3 * (g * u) /\ g * u \in Nat
    BY <1>1, <1>5, <1>8, <1>13
  <2>2. (k + 1) * w <= loop.budget
    BY <1>1, <1>13, <2>1
  <2> QED  BY <1>11, <2>2
<1> QED  BY <1>5, <1>9, <1>11, <1>12, <1>13

\* A group that blocks, made of no less than an iteration holds, fits the
\* budget or is one iteration.
LEMMA BlockFits ==
  ASSUME loop \in Loops, NEW u \in Int, u >= loop.unit, NEW async \in BOOLEAN
  PROVE  GroupOf(async, u) * loop.unit <= Room
<1> DEFINE g == GroupOf(async, u)
<1>1. loop.unit \in Nat \ {0} /\ loop.budget \in Int
  BY LoopTyped
<1>2. Room = (IF loop.budget >= 2 * loop.unit THEN loop.budget ELSE 2 * loop.unit)
  BY <1>1, MaxOfTwo DEF Room
<1>3. u >= 1 /\ u - loop.unit \in Nat
  BY <1>1
<1>4. g \in Nat \ {0} /\ (g = 1 \/ g * u <= loop.budget)
  BY <1>3, GroupFits
<1> HIDE DEF g
<1>5. g * (u - loop.unit) \in Nat /\ g * u = g * loop.unit + g * (u - loop.unit) /\ g * loop.unit \in Nat
  BY <1>1, <1>3, <1>4
<1>6. CASE g = 1
  BY <1>1, <1>2, <1>6 DEF g
<1>7. CASE g * u <= loop.budget
  <2>1. g * loop.unit <= loop.budget
    BY <1>1, <1>5, <1>7
  <2> QED  BY <1>1, <1>2, <1>5, <2>1 DEF g
<1> QED  BY <1>4, <1>6, <1>7

---------------------------------------------------------------------------
(* The queue, and what the ring says of it. *)
QueueInv ==
  /\ loop \in Loops
  /\ total \in Seq(Nat) /\ done \in Nat /\ freed \in Nat
  /\ freed <= done /\ done <= Len(total)
  /\ ring \in Seq(Nat) /\ Len(ring) <= Len(total)
  /\ \A j \in 1 .. Len(ring) : ring[j] = Len(total) - Len(ring) + j
  /\ proven \in BOOLEAN /\ pending \in Nat /\ keep \in Nat /\ group \in Nat \ {0} /\ est \in Int

\* Submissions not signalled are in the ring, or a blocking one is the last.
RingInv ==
  /\ waiting \in {"no", "window", "all"}
  /\ waiting # "all" => Len(total) - done <= Len(ring)
  /\ waiting = "no" => Len(ring) <= keep
  /\ waiting = "all" => Len(ring) <= 1 /\ (ring = <<>> => done = Len(total))

\* The iterations of a submission: a group at most in the single arm, one
\* chunk in the other.
Wide == IF loop.arm = "single" THEN group ELSE 1
WideInv == \A a \in done .. Len(total) : Through(total, Len(total)) - Through(total, a) <= (Len(total) - a) * Wide

\* The single arm before its first reading: nothing is in flight.
Fresh ==
  /\ pending = 0 /\ ring = <<>> /\ waiting = "no" /\ done = Len(total)
\* Once it has measured: the plan is made of what an iteration holds.
OfUnit == group = GroupOf(TRUE, loop.unit) /\ keep = KeepOf(TRUE, loop.unit)
Informed ==
  /\ OfUnit
  /\ waiting = "window" => Len(ring) <= keep + 1
  /\ Len(total) - done <= keep + 1
\* Once a blocking submission was read: there is one in flight at most, and
\* it fits.
Blocking ==
  /\ ~ proven /\ waiting # "window" /\ (waiting = "no" => ring = <<>>)
  /\ Len(total) - done <= 1 /\ group * loop.unit <= Room
SingleInv ==
  loop.arm = "single" =>
    /\ keep >= 1 /\ pending < group /\ est >= loop.unit /\ (measured => est = loop.unit)
    /\ IF bounded THEN Blocking ELSE IF measured THEN Informed ELSE Fresh

\* The chunked arm, from its first reading: the window is of the largest.
ChunkInv ==
  loop.arm = "chunked" =>
    /\ samples \in Nat /\ clean \in Nat /\ (samples = 0 => clean = 0)
    /\ samples > 0 => est >= 1 /\ keep = WindowKeep(loop.budget, est, loop.inflight)
    /\ clean > 0 => est >= loop.unit
    /\ ~ proven /\ waiting # "all" => waiting = "no" /\ ring = <<>>

WindowInv == QueueInv /\ RingInv /\ WideInv /\ SingleInv /\ ChunkInv

---------------------------------------------------------------------------
\* No more than `n` submissions of `w` iterations in flight hold no more than
\* n * w of them.
LEMMA HeldByMany ==
  ASSUME QueueInv, WideInv, NEW n \in Nat, Len(total) - done <= n, NEW w \in Nat, Wide = w
  PROVE  InFlight <= n * w * loop.unit /\ InFlight \in Int
<1>1. loop.unit \in Nat \ {0}
  BY LoopTyped DEF QueueInv
<1> DEFINE d == Len(total) - done
           x == Through(total, Len(total)) - Through(total, done)
<1>2. d \in Nat /\ d <= n
  BY DEF QueueInv
<1>3. x \in Int
  BY DEF QueueInv, Through
<1>4. x <= d * w
  <2>1. done \in done .. Len(total)
    BY DEF QueueInv
  <2> QED  BY <2>1 DEF WideInv
<1> HIDE DEF d, x
<1>5. d * w <= n * w /\ d * w \in Int /\ n * w \in Int
  <2>1. n - d \in Nat
    BY <1>2
  <2>2. (n - d) * w \in Nat /\ n * w = d * w + (n - d) * w
    BY <1>2, <2>1
  <2> QED  BY <1>2, <2>2
<1>6. x <= n * w
  BY <1>3, <1>4, <1>5
<1>7. n * w \in Int /\ loop.unit \in Nat
  BY <1>1, <1>5
<1>8. loop.unit * x <= n * w * loop.unit /\ loop.unit * x \in Int
  BY <1>3, <1>6, <1>7, Scaled
<1> QED  BY <1>8 DEF InFlight, Bytes, x

\* The invariant says what is in flight.
LEMMA WindowInvBounds ==
  WindowInv => WithinBudget
<1> SUFFICES ASSUME WindowInv PROVE WithinBudget
  OBVIOUS
<1>1. QueueInv /\ RingInv /\ WideInv /\ SingleInv /\ ChunkInv /\ loop \in Loops
  BY DEF WindowInv, QueueInv
<1>2. /\ loop.unit \in Nat \ {0} /\ loop.budget \in Int /\ loop.inflight \in Int
      /\ loop.arm \in {"single", "chunked"}
  BY <1>1, LoopTyped
<1>3. Room = (IF loop.budget >= 2 * loop.unit THEN loop.budget ELSE 2 * loop.unit) /\ Room \in Int
  BY <1>2, MaxOfTwo DEF Room
<1>4. ASSUME loop.arm = "single" PROVE InFlight <= Room /\ (measured => est = loop.unit) /\ est >= loop.unit
  <2>1. /\ measured => est = loop.unit
        /\ est >= loop.unit
        /\ IF bounded THEN Blocking ELSE IF measured THEN Informed ELSE Fresh
    BY <1>1, <1>4 DEF SingleInv
  <2>2. group \in Nat /\ keep \in Nat /\ Wide = group
    BY <1>1, <1>4 DEF QueueInv, Wide
  <2>3. CASE bounded
    <3>1. PICK one \in Nat : one = 1 /\ Len(total) - done <= one
      BY <2>1, <2>3 DEF Blocking
    <3>2. InFlight <= one * group * loop.unit /\ InFlight \in Int
      BY <1>1, <2>2, <3>1, HeldByMany
    <3>3. one * group * loop.unit = group * loop.unit /\ group * loop.unit \in Int /\ group * loop.unit <= Room
      BY <1>2, <2>1, <2>2, <2>3, <3>1 DEF Blocking
    <3>4. InFlight <= Room
      BY <1>3, <3>2, <3>3
    <3> QED  BY <2>1, <3>4
  <2>4. CASE ~ bounded /\ measured
    <3>1. group = GroupOf(TRUE, loop.unit) /\ keep = KeepOf(TRUE, loop.unit) /\ Len(total) - done <= keep + 1
      BY <2>1, <2>4 DEF Informed, OfUnit
    <3>2. InFlight <= (keep + 1) * group * loop.unit /\ InFlight \in Int
      <4>1. keep + 1 \in Nat
        BY <2>2
      <4> QED  BY <1>1, <2>2, <3>1, <4>1, HeldByMany
    <3>3. (keep + 1) * group * loop.unit <= Room
      BY <1>1, <3>1, PlanFits
    <3>4. (keep + 1) * group * loop.unit \in Int
      BY <1>2, <2>2
    <3>5. InFlight <= Room
      BY <1>3, <3>2, <3>3, <3>4
    <3> QED  BY <2>1, <3>5
  <2>5. CASE ~ bounded /\ ~ measured
    <3>1. Len(total) - done <= 0 /\ 0 \in Nat
      BY <1>1, <2>1, <2>5 DEF Fresh, QueueInv
    <3>2. InFlight <= 0 * group * loop.unit /\ InFlight \in Int
      BY <1>1, <2>2, <3>1, HeldByMany
    <3>3. 0 * group * loop.unit = 0 /\ 0 <= Room
      BY <1>2, <1>3, <2>2
    <3>4. InFlight <= Room
      BY <1>3, <3>2, <3>3
    <3> QED  BY <2>1, <3>4
  <2> QED  BY <2>3, <2>4, <2>5
<1>6. CASE loop.arm = "chunked"
  <2> SUFFICES ASSUME waiting = "no", (samples = 2 /\ clean > 0) \/ ~ proven PROVE InFlight <= Room
    BY <1>6 DEF WithinBudget
  <2>1. keep \in Nat /\ est \in Int /\ Len(total) - done <= keep
    BY <1>1 DEF RingInv, QueueInv
  <2>8. CASE ~ proven
    <3>1. ring = <<>> /\ Len(ring) = 0
      BY <1>1, <1>6, <2>8 DEF ChunkInv
    <3>2. Len(total) - done <= 0 /\ 0 \in Nat /\ Wide = 1
      BY <1>1, <1>6, <3>1 DEF RingInv, Wide
    <3>3. InFlight <= 0 * 1 * loop.unit /\ InFlight \in Int
      BY <1>1, <3>2, HeldByMany
    <3>4. 0 * 1 * loop.unit = 0 /\ 0 <= Room
      BY <1>2, <1>3
    <3> QED  BY <1>3, <3>3, <3>4
  <2>9. SUFFICES ASSUME samples = 2, clean > 0 PROVE InFlight <= Room
    BY <2>8
  <2>2. est >= loop.unit /\ est \in Nat \ {0} /\ keep = WindowKeep(loop.budget, est, loop.inflight)
    <3>1. samples > 0 /\ (samples > 0 => keep = WindowKeep(loop.budget, est, loop.inflight))
          /\ (clean > 0 => est >= loop.unit)
      BY <1>1, <1>6, <2>9 DEF ChunkInv
    <3> QED  BY <1>2, <2>1, <2>9, <3>1
  <2>3. keep = 1 \/ (keep + 1) * est <= loop.budget
    BY <1>2, <2>2, KeepFits
  <2>4. InFlight <= keep * 1 * loop.unit /\ InFlight \in Int
    <3>1. Wide = 1 /\ 1 \in Nat
      BY <1>6 DEF Wide
    <3> QED  BY <1>1, <2>1, <3>1, HeldByMany
  <2>5. keep * 1 * loop.unit = keep * loop.unit /\ keep * loop.unit \in Int
    BY <1>2, <2>1
  <2>6. CASE keep = 1
    BY <1>2, <1>3, <2>4, <2>6
  <2>7. CASE (keep + 1) * est <= loop.budget
    <3>1. keep * loop.unit <= keep * est /\ keep * est \in Int
      <4>1. est - loop.unit \in Nat
        BY <1>2, <2>2
      <4>2. keep * (est - loop.unit) \in Nat /\ keep * est = keep * loop.unit + keep * (est - loop.unit)
        BY <1>2, <2>1, <4>1
      <4> QED  BY <1>2, <2>1, <2>5, <4>2
    <3>2. (keep + 1) * est = keep * est + est
      BY <2>1, <2>2
    <3> QED  BY <1>2, <1>3, <2>2, <2>4, <2>5, <2>7, <3>1, <3>2
  <2> QED  BY <2>3, <2>6, <2>7
<1> QED  BY <1>2, <1>4, <1>6 DEF WithinBudget

---------------------------------------------------------------------------
LEMMA WindowBegins ==
  WindowInit => WindowInv
<1> SUFFICES ASSUME WindowInit PROVE WindowInv
  OBVIOUS
<1>1. loop \in Loops /\ ring = <<>> /\ waiting = "no" /\ proven \in BOOLEAN
      /\ total = (IF loop.arm = "single" THEN <<1>> ELSE <<>>) /\ done = Len(total) /\ freed \in 0 .. done
  BY DEF WindowInit
<1>2. pending = 0 /\ samples = 0 /\ clean = 0 /\ ~ measured /\ ~ bounded /\ est = loop.estimate
  BY DEF WindowInit
<1>3. est \in Int /\ loop.inflight \in Nat /\ loop.arm \in {"single", "chunked"} /\ loop.unit \in Int
      /\ est >= loop.unit
  <2>1. loop.estimate >= loop.unit
    BY DEF WindowInit, Engaged
  <2> QED  BY <1>1, <1>2, <2>1, LoopTyped
<1>4. group \in Nat \ {0} /\ keep \in Nat /\ (loop.arm = "single" => keep >= 1)
  <2>1. CASE loop.arm = "single"
    <3>1. PICK b \in BOOLEAN : proven = b
      BY DEF WindowInit
    <3>2. group = GroupOf(b, loop.estimate) /\ keep = KeepOf(b, loop.estimate)
      BY <2>1, <3>1 DEF WindowInit
    <3>3. GroupOf(b, loop.estimate) \in Nat \ {0}
      BY <1>1, <1>2, <1>3, GroupFits
    <3>4. KeepOf(b, loop.estimate) \in Nat \ {0}
      BY <1>1, <1>2, <1>3, KeepTyped
    <3> QED  BY <3>2, <3>3, <3>4
  <2>2. CASE loop.arm = "chunked"
    BY <1>3, <2>2 DEF WindowInit
  <2> QED  BY <1>3, <2>1, <2>2
<1>5. total \in Seq(Nat) /\ Len(total) \in Nat /\ done = Len(total) /\ done \in Nat /\ freed \in Nat /\ freed <= done
      /\ Through(total, Len(total)) \in Nat
  <2>1. CASE loop.arm = "single"
    <3>1. total = <<1>> /\ Len(total) = 1 /\ total[1] = 1 /\ total \in Seq(Nat)
      BY <1>1, <2>1
    <3> QED  BY <1>1, <3>1 DEF Through
  <2>2. CASE loop.arm # "single"
    <3>1. total = <<>> /\ Len(total) = 0 /\ total \in Seq(Nat)
      BY <1>1, <2>2
    <3> QED  BY <1>1, <3>1 DEF Through
  <2> QED  BY <2>1, <2>2
<1>6. ring \in Seq(Nat) /\ Len(ring) = 0
  BY <1>1
<1>7. QueueInv
  BY <1>1, <1>2, <1>3, <1>4, <1>5, <1>6 DEF QueueInv
<1>8. RingInv
  BY <1>1, <1>4, <1>5, <1>6 DEF RingInv
<1>9. WideInv
  <2> SUFFICES ASSUME NEW a \in done .. Len(total)
               PROVE  Through(total, Len(total)) - Through(total, a) <= (Len(total) - a) * Wide
    BY DEF WideInv
  <2>1. a = Len(total) /\ Wide \in Nat
    BY <1>4, <1>5 DEF Wide
  <2>2. Len(total) - a = 0 /\ Through(total, Len(total)) - Through(total, a) = 0 /\ 0 * Wide = 0
    BY <1>5, <2>1
  <2> QED  BY <2>2
<1>10. SingleInv
  <2>1. pending < group /\ (loop.arm = "single" => keep >= 1)
    BY <1>2, <1>4
  <2> QED  BY <1>1, <1>2, <1>3, <1>5, <2>1 DEF SingleInv, Fresh
<1>11. ChunkInv
  BY <1>1, <1>2 DEF ChunkInv
<1> QED  BY <1>7, <1>8, <1>9, <1>10, <1>11 DEF WindowInv

\* What a submission of `n` iterations does to the queue and the ring.
LEMMA Submitted ==
  ASSUME QueueInv, RingInv, waiting = "no", NEW n \in Nat, NEW async \in BOOLEAN,
         NEW from \in Nat, SubmitRun(n, async, from)
  PROVE  /\ total' \in Seq(Nat) /\ Len(total') = Len(total) + 1
         /\ \A a \in 0 .. Len(total) : Through(total', a) = Through(total, a) /\ Through(total, a) \in Nat
         /\ Through(total', Len(total) + 1) = Through(total, Len(total)) + n
         /\ done' \in Nat /\ freed' \in Nat /\ freed' <= done' /\ done <= done' /\ done' <= Len(total')
         /\ ring' \in Seq(Nat) /\ Len(ring') <= Len(total')
         /\ \A j \in 1 .. Len(ring') : ring'[j] = Len(total') - Len(ring') + j
         /\ Len(total') - done' <= Len(ring) + 1
         /\ async => waiting' = "window" /\ Len(ring') = Len(ring) + 1
         /\ ~ async => waiting' = "all" /\ Len(ring') = 1 /\ ring' # <<>>
<1> DEFINE L == Len(total)
           R == Len(ring)
<1>1. total \in Seq(Nat) /\ L \in Nat /\ ring \in Seq(Nat) /\ R \in Nat /\ R <= L
      /\ done \in Nat /\ done <= L /\ L - done <= R
  BY DEF QueueInv, RingInv
<1>2. Through(total, L) \in Nat /\ (\A a \in 1 .. L : total[a] \in Nat)
  BY <1>1 DEF Through
<1>3. total' = Append(total, Through(total, L) + n)
  BY DEF SubmitRun
<1>4. total' \in Seq(Nat) /\ Len(total') = L + 1 /\ total'[L + 1] = Through(total, L) + n
      /\ \A a \in 1 .. L : total'[a] = total[a]
  BY <1>1, <1>2, <1>3
<1>5. \A a \in 0 .. L : Through(total', a) = Through(total, a) /\ Through(total, a) \in Nat
  BY <1>1, <1>2, <1>4 DEF Through
<1>6. Through(total', L + 1) = Through(total, L) + n
  <2>1. L + 1 # 0
    BY <1>1
  <2>2. Through(total', L + 1) = total'[L + 1]
    BY <2>1 DEF Through
  <2> QED  BY <1>4, <2>2
<1>7. done' \in Nat /\ freed' \in Nat /\ freed' <= done' /\ done <= done' /\ done' <= L + 1
  <2>1. CASE async
    BY <1>1, <2>1 DEF SubmitRun
  <2>2. CASE ~ async
    BY <1>1, <2>2 DEF SubmitRun
  <2> QED  BY <2>1, <2>2
<1>8. /\ ring' \in Seq(Nat) /\ Len(ring') <= L + 1
      /\ \A j \in 1 .. Len(ring') : ring'[j] = L + 1 - Len(ring') + j
      /\ async => waiting' = "window" /\ Len(ring') = R + 1
      /\ ~ async => waiting' = "all" /\ Len(ring') = 1 /\ ring' # <<>>
  <2>1. CASE async
    <3>1. ring' = Append(ring, L + 1) /\ waiting' = "window"
      BY <2>1 DEF SubmitRun
    <3>2. ring' \in Seq(Nat) /\ Len(ring') = R + 1 /\ ring'[R + 1] = L + 1
          /\ \A j \in 1 .. R : ring'[j] = ring[j]
      BY <1>1, <3>1
    <3>3. \A j \in 1 .. R : ring[j] = L - R + j
      BY DEF QueueInv
    <3>4. Len(ring') <= L + 1
      BY <1>1, <3>2
    <3>5. \A j \in 1 .. Len(ring') : ring'[j] = L + 1 - Len(ring') + j
      <4>1. \A j \in 1 .. R + 1 : ring'[j] = L + 1 - (R + 1) + j
        <5> HIDE DEF L, R
        <5> SUFFICES ASSUME NEW j \in 1 .. R + 1 PROVE ring'[j] = L + 1 - (R + 1) + j
          OBVIOUS
        <5>1. CASE j = R + 1
          BY <1>1, <3>2, <5>1
        <5>2. CASE j # R + 1
          <6>1. j \in 1 .. R
            BY <1>1, <5>2
          <6> QED  BY <1>1, <3>2, <3>3, <6>1
        <5> QED  BY <5>1, <5>2
      <4>2. Len(ring') = R + 1
        BY <3>2
      <4> HIDE DEF L, R
      <4> QED  BY <4>1, <4>2
    <3> QED  BY <2>1, <3>1, <3>2, <3>4, <3>5
  <2>2. CASE ~ async
    <3>1. ring' = <<L + 1>> /\ waiting' = "all"
      BY <2>2 DEF SubmitRun
    <3>2. ring' \in Seq(Nat) /\ Len(ring') = 1 /\ ring'[1] = L + 1 /\ ring' # <<>>
      BY <1>1, <3>1
    <3>3. \A j \in 1 .. Len(ring') : ring'[j] = L + 1 - Len(ring') + j
      <4>1. \A j \in 1 .. 1 : j = 1 /\ ring'[j] = L + 1 - 1 + j
        BY <1>1, <3>2
      <4> QED  BY <3>2, <4>1
    <3> QED  BY <1>1, <2>2, <3>1, <3>2, <3>3
  <2> QED  BY <2>1, <2>2
<1>9. L + 1 - done' <= R + 1
  BY <1>1, <1>7
<1> QED  BY <1>4, <1>5, <1>6, <1>7, <1>8, <1>9

\* Submissions stay within what is wide by then.
LEMMA StaysWide ==
  ASSUME QueueInv, RingInv, WideInv, waiting = "no", NEW n \in Nat, NEW async \in BOOLEAN,
         NEW from \in Nat, SubmitRun(n, async, from),
         Wide' \in Nat, n <= Wide', Wide' = Wide \/ done = Len(total)
  PROVE  WideInv'
<1> DEFINE L == Len(total)
<1>1. total \in Seq(Nat) /\ L \in Nat /\ done \in Nat /\ done <= L
  BY DEF QueueInv
<1>2. /\ Len(total') = L + 1 /\ done <= done' /\ done' \in Nat
      /\ \A a \in 0 .. L : Through(total', a) = Through(total, a) /\ Through(total, a) \in Nat
      /\ Through(total', L + 1) = Through(total, L) + n
  BY Submitted
<1>3. PICK w \in Nat : w = Wide'
  OBVIOUS
<1>4. ASSUME NEW a \in done' .. L + 1
      PROVE  Through(total', L + 1) - Through(total', a) <= (L + 1 - a) * w
  <2>1. CASE a = L + 1
    <3>1. L + 1 - a = 0 /\ Through(total', L + 1) - Through(total', a) = 0
      <4>1. Through(total', L + 1) \in Nat
        BY <1>1, <1>2
      <4> QED  BY <1>1, <2>1, <4>1
    <3>2. 0 * w = 0
      OBVIOUS
    <3> QED  BY <3>1, <3>2
  <2>2. CASE a # L + 1
    <3>1. a \in done .. L /\ a \in 0 .. L /\ L \in 0 .. L
      BY <1>1, <1>2, <2>2
    <3> DEFINE x == Through(total, L) - Through(total, a)
               y == (L - a) * w
    <3>2. x \in Int /\ Through(total', L + 1) - Through(total', a) = x + n
      BY <1>2, <3>1
    <3>3. x <= y
      <4>1. CASE Wide' = Wide
        BY <1>3, <3>1, <4>1 DEF WideInv
      <4>2. CASE done = L
        <5>1. a = L
          BY <1>1, <3>1, <4>2
        <5>2. L - a = 0 /\ x = 0 /\ 0 * w = 0
          BY <1>1, <1>2, <3>1, <5>1
        <5> QED  BY <5>2
      <4> QED  BY <4>1, <4>2
    <3>4. (L + 1 - a) * w = y + w /\ y \in Int
      BY <1>1, <3>1
    <3>5. n <= w
      BY <1>3
    <3> HIDE DEF x, y
    <3> QED  BY <3>2, <3>3, <3>4, <3>5
  <2> QED  BY <2>1, <2>2
<1> QED  BY <1>2, <1>3, <1>4 DEF WideInv

\* A submission keeps what is said of the queue, and of the ring.
LEMMA SubmittedKeeps ==
  ASSUME QueueInv, RingInv, waiting = "no", NEW n \in Nat, NEW async \in BOOLEAN,
         NEW from \in Nat, SubmitRun(n, async, from), loop' = loop,
         proven' \in BOOLEAN, pending' \in Nat, keep' \in Nat, group' \in Nat \ {0}, est' \in Int
  PROVE  QueueInv' /\ RingInv'
<1>1. /\ total' \in Seq(Nat) /\ Len(total') = Len(total) + 1
      /\ done' \in Nat /\ freed' \in Nat /\ freed' <= done' /\ done' <= Len(total')
      /\ ring' \in Seq(Nat) /\ Len(ring') <= Len(total')
      /\ \A j \in 1 .. Len(ring') : ring'[j] = Len(total') - Len(ring') + j
      /\ Len(total') - done' <= Len(ring) + 1
      /\ async => waiting' = "window" /\ Len(ring') = Len(ring) + 1
      /\ ~ async => waiting' = "all" /\ Len(ring') = 1 /\ ring' # <<>>
  BY Submitted
<1>2. QueueInv'
  BY <1>1 DEF QueueInv
<1>3. RingInv'
  <2>1. CASE async
    <3>1. waiting' = "window" /\ Len(total') - done' <= Len(ring')
      BY <1>1, <2>1
    <3> QED  BY <3>1 DEF RingInv
  <2>2. CASE ~ async
    <3>1. waiting' = "all" /\ Len(ring') = 1 /\ ring' # <<>>
      BY <1>1, <2>2
    <3> QED  BY <3>1 DEF RingInv
  <2> QED  BY <2>1, <2>2
<1> QED  BY <1>2, <1>3

\* The plan stands while the loop does.
LEMMA PlanStands ==
  ASSUME OfUnit, loop' = loop, group' = group, keep' = keep
  PROVE  OfUnit'
BY DEF OfUnit, GroupOf, KeepOf

\* What has been waited for is done.
LEMMA RingDone ==
  ASSUME WindowInv, waiting = "no", ring = <<>>
  PROVE  done = Len(total) /\ Len(ring) = 0
<1>1. Len(ring) = 0 /\ Len(total) - done <= Len(ring)
  BY DEF WindowInv, RingInv
<1> QED  BY <1>1 DEF WindowInv, QueueInv

\* A reading of a blocking submission of one iteration: the plan made of it
\* is one of groups that fit.
LEMMA ReadBlocking ==
  ASSUME WindowInv, loop.arm = "single", loop' = loop, waiting = "no", ring = <<>>,
         SubmitRun(1, FALSE, done), proven' = FALSE, pending' = 0, bounded' = TRUE, measured' = measured,
         NEW b \in BOOLEAN, NEW reading \in Int, Replan(b, reading),
         reading >= loop.unit, measured => reading = loop.unit
  PROVE  WindowInv'
<1>1. QueueInv /\ RingInv /\ WideInv /\ SingleInv /\ ChunkInv /\ loop \in Loops /\ done \in Nat
  BY DEF WindowInv, QueueInv
<1>2. done = Len(total) /\ Len(ring) = 0
  BY RingDone
<1>3. est' = reading /\ group' = GroupOf(b, reading) /\ keep' = KeepOf(b, reading)
  BY DEF Replan
<1>4. est' \in Int /\ group' \in Nat \ {0} /\ keep' \in Nat \ {0} /\ pending' \in Nat /\ proven' \in BOOLEAN
  BY <1>1, <1>3, GroupFits, KeepTyped
<1>5. 1 \in Nat /\ FALSE \in BOOLEAN
  OBVIOUS
<1>6. QueueInv' /\ RingInv'
  BY <1>1, <1>4, <1>5, SubmittedKeeps
<1>7. WideInv'
  <2>1. Wide' \in Nat /\ 1 <= Wide'
    BY <1>4 DEF Wide
  <2> QED  BY <1>1, <1>2, <1>5, <2>1, StaysWide
<1>8. Blocking'
  <2>1. Len(total') - done' <= Len(ring) + 1 /\ waiting' = "all" /\ ring' # <<>>
    BY <1>1, <1>5, Submitted
  <2>2. Len(total') \in Nat /\ done' \in Nat
    BY <1>6 DEF QueueInv
  <2>3. Len(total') - done' <= 1
    BY <1>2, <2>1, <2>2
  <2>4. group' * loop'.unit <= Room'
    <3>1. GroupOf(b, reading) * loop.unit <= Room
      BY <1>1, BlockFits
    <3>2. Room' = Room
      BY DEF Room
    <3> QED  BY <1>3, <3>1, <3>2
  <2> QED  BY <2>1, <2>3, <2>4 DEF Blocking
<1>9. SingleInv'
  <2>1. keep' >= 1 /\ pending' < group'
    BY <1>4
  <2>2. est' >= loop'.unit /\ (measured' => est' = loop'.unit)
    BY <1>3
  <2> QED  BY <1>8, <2>1, <2>2 DEF SingleInv
<1>10. ChunkInv'
  BY DEF ChunkInv
<1> QED  BY <1>6, <1>7, <1>9, <1>10 DEF WindowInv

\* What a reading of the growth says, with nothing of the loop in flight and
\* every handler run: what one iteration holds.
LEMMA ReadGrowth ==
  ASSUME WindowInv, waiting = "no", ring = <<>>, SubmitRun(1, TRUE, done)
  PROVE  AtLeast1(Grown(1, done)) = loop.unit
<1>1. done = Len(total) /\ done \in Nat /\ total \in Seq(Nat) /\ loop \in Loops
  BY RingDone DEF WindowInv, QueueInv
<1>2. loop.unit \in Nat \ {0}
  BY <1>1, LoopTyped
<1>3. freed' = done
  BY <1>1 DEF SubmitRun
<1>4. Through(total, done) \in Nat
  BY <1>1 DEF Through
<1>5. Bytes(done, freed') = 0
  <2>1. Through(total, freed') - Through(total, done) = 0
    <3>1. Through(total, done) - Through(total, done) = 0
      BY <1>4
    <3> QED  BY <1>3, <3>1
  <2>2. loop.unit * 0 = 0
    BY <1>2
  <2> QED  BY <2>1, <2>2 DEF Bytes
<1>6. 1 * loop.unit - 0 = loop.unit
  BY <1>2
<1>7. Grown(1, done) = loop.unit
  BY <1>5, <1>6 DEF Grown
<1> QED  BY <1>2, <1>7, AtLeast

\* The reading of an asynchronous submission, the first of the loop.
LEMMA ReadAsync ==
  ASSUME WindowInv, loop.arm = "single", loop' = loop, waiting = "no", ring = <<>>,
         SubmitRun(1, TRUE, done), proven' \in BOOLEAN, pending' = 0, ~ bounded', measured' = TRUE,
         Replan(TRUE, loop.unit)
  PROVE  WindowInv'
<1>1. QueueInv /\ RingInv /\ WideInv /\ loop \in Loops /\ done \in Nat
  BY DEF WindowInv, QueueInv
<1>2. done = Len(total) /\ Len(ring) = 0
  BY RingDone
<1>3. est' = loop.unit /\ group' = GroupOf(TRUE, loop.unit) /\ keep' = KeepOf(TRUE, loop.unit)
  BY DEF Replan
<1>4. loop.unit \in Int /\ TRUE \in BOOLEAN /\ 1 \in Nat
  BY <1>1, LoopTyped
<1>5. est' \in Int /\ group' \in Nat \ {0} /\ keep' \in Nat \ {0} /\ pending' \in Nat
  BY <1>1, <1>3, <1>4, GroupFits, KeepTyped
<1>6. QueueInv' /\ RingInv'
  BY <1>1, <1>4, <1>5, SubmittedKeeps
<1>7. WideInv'
  <2>1. Wide' \in Nat /\ 1 <= Wide'
    BY <1>5 DEF Wide
  <2> QED  BY <1>1, <1>2, <1>4, <2>1, StaysWide
<1>8. Informed'
  <2>1. Len(total') - done' <= Len(ring) + 1 /\ waiting' = "window" /\ Len(ring') = Len(ring) + 1
    BY <1>1, <1>4, Submitted
  <2>2. Len(total') \in Nat /\ done' \in Nat
    BY <1>6 DEF QueueInv
  <2>3. Len(ring') = 1 /\ Len(total') - done' <= 1
    BY <1>2, <2>1, <2>2
  <2>4. Len(ring') <= keep' + 1 /\ Len(total') - done' <= keep' + 1
    <3>1. PICK k \in Nat \ {0} : keep' = k
      BY <1>5
    <3>2. Len(ring') <= k + 1 /\ Len(total') - done' <= k + 1
      BY <2>2, <2>3
    <3> QED  BY <3>1, <3>2
  <2>5. OfUnit'
    BY <1>3 DEF OfUnit, GroupOf, KeepOf
  <2> QED  BY <2>4, <2>5 DEF Informed
<1>9. SingleInv'
  <2>1. keep' >= 1 /\ pending' < group'
    BY <1>5
  <2>2. est' >= loop'.unit /\ est' = loop'.unit
    BY <1>3, <1>4
  <2> QED  BY <1>8, <2>1, <2>2 DEF SingleInv
<1>10. ChunkInv'
  BY DEF ChunkInv
<1> QED  BY <1>6, <1>7, <1>9, <1>10 DEF WindowInv

\* A reading is taken with nothing in flight, of one iteration alone.
ReadingDue == pending = 0 /\ ring = <<>> /\ IF proven THEN ~ measured ELSE ~ bounded

\* The single arm's reading keeps the invariant.
LEMMA SingleReads ==
  ASSUME WindowInv, Single, ReadingDue
  PROVE  WindowInv'
<1>1. QueueInv /\ SingleInv /\ loop \in Loops /\ loop.arm = "single" /\ loop' = loop /\ waiting = "no"
  BY DEF WindowInv, QueueInv, Single
<1>2. pending = 0 /\ ring = <<>> /\ (proven => ~ measured) /\ (~ proven => ~ bounded) /\ pending + 1 = 1
  BY <1>1 DEF ReadingDue, QueueInv
<1>3. PICK traced \in BOOLEAN :
        /\ proven' = (proven /\ ~ traced)
        /\ pending' = 0
        /\ SubmitRun(1, proven /\ ~ traced, done)
        /\ IF proven /\ ~ traced
           THEN /\ Replan(proven, AtLeast1(Grown(1, done)))
                /\ measured' = TRUE /\ UNCHANGED bounded
           ELSE \E peak \in {loop.unit, loop.unit + 1, est} :
                  /\ Replan(proven, IF peak < est THEN peak ELSE est)
                  /\ bounded' = TRUE /\ UNCHANGED measured
  BY <1>2 DEF Single, SettledFrom, ReadingDue
<1>4. loop.unit \in Nat \ {0} /\ est \in Int /\ proven \in BOOLEAN
      /\ est >= loop.unit /\ (measured => est = loop.unit)
  BY <1>1, LoopTyped DEF QueueInv, SingleInv
<1>5. CASE proven /\ ~ traced
  <2>1. proven = TRUE /\ ~ measured /\ (proven /\ ~ traced) = TRUE
    BY <1>2, <1>4, <1>5
  <2>2. ~ bounded
    BY <1>1, <2>1 DEF SingleInv, Blocking
  <2>3. SubmitRun(1, TRUE, done) /\ Replan(TRUE, AtLeast1(Grown(1, done))) /\ measured' = TRUE
        /\ bounded' = bounded /\ pending' = 0 /\ proven' \in BOOLEAN
    BY <1>3, <1>5, <2>1
  <2>4. Replan(TRUE, loop.unit)
    BY <1>1, <1>2, <2>3, ReadGrowth
  <2>5. ~ bounded'
    BY <2>2, <2>3
  <2> QED  BY <1>1, <1>2, <2>3, <2>4, <2>5, ReadAsync
<1>6. CASE ~ (proven /\ ~ traced)
  <2>1. (proven /\ ~ traced) = FALSE
    BY <1>6
  <2>2. PICK peak \in {loop.unit, loop.unit + 1, est} :
          Replan(proven, IF peak < est THEN peak ELSE est) /\ bounded' = TRUE /\ measured' = measured
    BY <1>3, <1>6
  <2>3. SubmitRun(1, FALSE, done) /\ proven' = FALSE /\ pending' = 0
    BY <1>3, <2>1
  <2> DEFINE reading == IF peak < est THEN peak ELSE est
  <2>4. reading \in Int /\ reading >= loop.unit /\ (measured => reading = loop.unit)
    BY <1>4
  <2>5. Replan(proven, reading)
    BY <2>2
  <2> HIDE DEF reading
  <2> QED  BY <1>1, <1>2, <1>4, <2>2, <2>3, <2>4, <2>5, ReadBlocking
<1> QED  BY <1>5, <1>6

\* The single arm between its readings: the plan stands, and a submission is
\* of no more than a group.
LEMMA SingleGoesOn ==
  ASSUME WindowInv, Single, ~ ReadingDue
  PROVE  WindowInv'
<1>1. QueueInv /\ RingInv /\ WideInv /\ SingleInv /\ ChunkInv /\ loop \in Loops
  BY DEF WindowInv, QueueInv
<1>2. waiting = "no" /\ loop' = loop /\ loop.arm = "single"
  BY DEF Single
<1>3. /\ keep \in Nat \ {0} /\ group \in Nat \ {0} /\ est \in Int /\ pending \in Nat
      /\ pending < group /\ freed \in Nat /\ proven \in BOOLEAN
      /\ est >= loop.unit /\ (measured => est = loop.unit)
      /\ IF bounded THEN Blocking ELSE IF measured THEN Informed ELSE Fresh
  <2>1. keep \in Nat /\ keep >= 1
    BY <1>1, <1>2 DEF QueueInv, SingleInv
  <2>2. keep \in Nat \ {0}
    BY <2>1
  <2> QED  BY <1>1, <1>2, <2>2 DEF QueueInv, SingleInv
<1>4. bounded \/ measured
  <2> SUFFICES ASSUME ~ bounded, ~ measured PROVE FALSE
    OBVIOUS
  <2> QED  BY <1>3 DEF Fresh, ReadingDue
<1>5. PICK traced \in BOOLEAN :
        /\ proven' = (proven /\ ~ traced)
        /\ IF pending + 1 >= group
           THEN /\ pending' = 0
                /\ SubmitRun(pending + 1, proven /\ ~ traced, freed)
                /\ UNCHANGED <<est, group, keep, measured, bounded>>
           ELSE /\ pending' = pending + 1
                /\ freed' = freed
                /\ UNCHANGED <<total, done, ring, est, group, keep, measured, bounded, waiting>>
  BY DEF Single, SettledFrom, ReadingDue
<1> DEFINE async == proven /\ ~ traced
<1>6. async \in BOOLEAN /\ proven' = async /\ (async => proven)
  BY <1>5
<1> HIDE DEF async
<1>7. ChunkInv'
  BY <1>2 DEF ChunkInv
<1>8. CASE pending + 1 >= group
  <2>1. /\ pending' = 0 /\ SubmitRun(pending + 1, async, freed)
        /\ est' = est /\ group' = group /\ keep' = keep /\ measured' = measured /\ bounded' = bounded
    BY <1>5, <1>8 DEF async
  <2>2. pending + 1 \in Nat /\ pending + 1 <= group /\ Wide = group /\ Wide' = group
    BY <1>2, <1>3, <2>1 DEF Wide
  <2>3. QueueInv' /\ RingInv'
    BY <1>1, <1>2, <1>3, <1>6, <2>1, <2>2, SubmittedKeeps
  <2>4. WideInv'
    BY <1>1, <1>2, <1>3, <1>6, <2>1, <2>2, StaysWide
  <2>5. /\ Len(total') - done' <= Len(ring) + 1
        /\ async => waiting' = "window" /\ Len(ring') = Len(ring) + 1
        /\ ~ async => waiting' = "all" /\ Len(ring') = 1 /\ ring' # <<>>
    BY <1>1, <1>2, <1>3, <1>6, <2>1, <2>2, Submitted
  <2>6. Len(ring) <= keep /\ Len(ring) \in Nat /\ Len(total') \in Nat /\ done' \in Nat
    BY <1>1, <1>2, <2>3 DEF RingInv, QueueInv
  <2>7. IF bounded' THEN Blocking' ELSE IF measured' THEN Informed' ELSE Fresh'
    <3>1. CASE bounded
      <4>1. ~ proven /\ ring = <<>> /\ group * loop.unit <= Room
        BY <1>2, <1>3, <3>1 DEF Blocking
      <4>2. ~ async /\ ~ proven' /\ waiting' = "all" /\ ring' # <<>>
        BY <1>6, <2>5, <4>1
      <4>3. Len(ring) = 0 /\ Len(total') - done' <= 1
        BY <2>5, <2>6, <4>1
      <4>4. Room' = Room
        BY <1>2 DEF Room
      <4>5. Blocking'
        BY <1>2, <2>1, <4>1, <4>2, <4>3, <4>4 DEF Blocking
      <4> QED  BY <2>1, <3>1, <4>5
    <3>2. CASE ~ bounded
      <4>1. Informed
        BY <1>3, <1>4, <3>2
      <4>2. Len(total') - done' <= keep + 1 /\ (waiting' = "window" => Len(ring') <= keep + 1)
        BY <1>3, <1>6, <2>5, <2>6
      <4>3. Informed'
        BY <1>2, <2>1, <4>1, <4>2, PlanStands DEF Informed
      <4> QED  BY <1>4, <2>1, <3>2, <4>3
    <3> QED  BY <3>1, <3>2
  <2>8. SingleInv'
    BY <1>2, <1>3, <2>1, <2>7 DEF SingleInv
  <2> QED  BY <1>7, <2>3, <2>4, <2>8 DEF WindowInv
<1>9. CASE ~ (pending + 1 >= group)
  <2>1. /\ pending' = pending + 1 /\ freed' = freed
        /\ UNCHANGED <<total, done, ring, est, group, keep, measured, bounded, waiting>>
    BY <1>5, <1>9
  <2>2. QueueInv'
    BY <1>1, <1>2, <1>3, <1>6, <2>1 DEF QueueInv
  <2>3. RingInv'
    BY <1>1, <2>1 DEF RingInv
  <2>4. WideInv'
    BY <1>1, <1>2, <2>1 DEF WideInv, Wide, Through
  <2>5. pending' < group'
    BY <1>3, <1>9, <2>1
  <2>6. bounded => Blocking'
    BY <1>2, <1>3, <1>6, <2>1 DEF Blocking, Room
  <2>7. ~ bounded => Informed'
    BY <1>2, <1>3, <1>4, <2>1, PlanStands DEF Informed
  <2>8. SingleInv'
    BY <1>2, <1>3, <1>4, <2>1, <2>5, <2>6, <2>7 DEF SingleInv
  <2> QED  BY <1>7, <2>2, <2>3, <2>4, <2>8 DEF WindowInv
<1> QED  BY <1>8, <1>9

\* A chunk: of one iteration, and the window is of the largest reading.
LEMMA ChunkKeeps ==
  ASSUME WindowInv, Chunk
  PROVE  WindowInv'
<1>1. QueueInv /\ RingInv /\ WideInv /\ SingleInv /\ ChunkInv /\ loop \in Loops
  BY DEF WindowInv, QueueInv
<1>2. waiting = "no" /\ loop' = loop /\ loop.arm = "chunked" /\ pending' = pending /\ group' = group
      /\ measured' = measured
  BY DEF Chunk
<1>3. PICK async \in BOOLEAN :
        /\ proven' \in BOOLEAN /\ (async => proven')
        /\ SubmitRun(1, async, freed)
        /\ \/ /\ samples' = samples + 1
              /\ clean' = IF Grown(1, freed) = loop.unit THEN clean + 1 ELSE clean
              /\ est' = Max({IF samples = 0 THEN 0 ELSE est, Grown(1, freed), 1})
              /\ keep' = WindowKeep(loop.budget, est', loop.inflight)
              /\ async
           \/ UNCHANGED <<samples, clean, est, keep>>
  <2>1. PICK traced \in BOOLEAN, settled \in {i = 0, FALSE} :
          LET async == ~ ((i + 1) % loop.syncEvery = 0) /\ proven /\ ~ traced /\ ~ settled IN
          /\ proven' = (proven /\ ~ traced)
          /\ SubmitRun(1, async, freed)
          /\ IF (samples < 2 /\ i >= 1 /\ proven) /\ async
             THEN /\ samples' = samples + 1
                  /\ clean' = IF Grown(1, freed) = loop.unit THEN clean + 1 ELSE clean
                  /\ est' = Max({IF samples = 0 THEN 0 ELSE est, Grown(1, freed), 1})
                  /\ keep' = WindowKeep(loop.budget, est', loop.inflight)
             ELSE UNCHANGED <<samples, clean, est, keep>>
    BY DEF Chunk
  <2> DEFINE a == ~ ((i + 1) % loop.syncEvery = 0) /\ proven /\ ~ traced /\ ~ settled
  <2>2. a \in BOOLEAN /\ proven' \in BOOLEAN /\ (a => proven')
    BY <2>1
  <2> QED  BY <2>1, <2>2
<1>4. freed \in Nat /\ 1 \in Nat /\ est \in Int /\ keep \in Nat /\ samples \in Nat /\ clean \in Nat
      /\ group \in Nat \ {0} /\ pending \in Nat
  BY <1>1, <1>2 DEF QueueInv, ChunkInv
<1>5. loop.unit \in Nat \ {0} /\ loop.budget \in Int /\ loop.inflight \in Int
  BY <1>1, LoopTyped
<1>10. proven' \/ waiting' = "all"
  <2>1. CASE async
    BY <1>3, <2>1
  <2>2. CASE ~ async
    BY <1>3, <2>2 DEF SubmitRun
  <2> QED  BY <2>1, <2>2
<1>6. est' \in Int /\ keep' \in Nat /\ ChunkInv'
  <2>1. CASE UNCHANGED <<samples, clean, est, keep>>
    <3>1. ChunkInv'
      BY <1>1, <1>2, <1>10, <2>1 DEF ChunkInv
    <3> QED  BY <1>4, <2>1, <3>1
  <2>2. CASE /\ samples' = samples + 1
             /\ clean' = IF Grown(1, freed) = loop.unit THEN clean + 1 ELSE clean
             /\ est' = Max({IF samples = 0 THEN 0 ELSE est, Grown(1, freed), 1})
             /\ keep' = WindowKeep(loop.budget, est', loop.inflight)
             /\ async
    <3> DEFINE largest == IF samples = 0 THEN 0 ELSE est
               grown == Grown(1, freed)
    <3>1. largest \in Int
      BY <1>4
    <3>2. grown \in Int
      <4>1. freed' \in 0 .. Len(total) /\ freed \in 0 .. Len(total)
        BY <1>1, <1>3, <2>2 DEF SubmitRun, QueueInv
      <4>2. Through(total, freed') \in Int /\ Through(total, freed) \in Int
        BY <1>1, <4>1 DEF QueueInv, Through
      <4>3. Bytes(freed, freed') \in Int
        BY <1>5, <4>2 DEF Bytes
      <4> QED  BY <1>5, <4>3 DEF Grown
    <3> HIDE DEF largest, grown
    <3>3. est' = Max({largest, grown, 1})
      BY <2>2 DEF largest, grown
    <3>4. est' \in Int /\ est' >= 1 /\ est' >= largest /\ est' >= grown
      <4> DEFINE top == Max({largest, grown, 1})
      <4>1. top \in {largest, grown, 1} /\ top >= 1 /\ top >= largest /\ top >= grown
        <5>1. 1 \in Int
          OBVIOUS
        <5> QED  BY <3>1, <3>2, <5>1, MaxOfThree
      <4> HIDE DEF top
      <4>3. top \in Int
        BY <3>1, <3>2, <4>1
      <4>2. est' = top
        BY <3>3 DEF top
      <4> QED  BY <4>1, <4>2, <4>3
    <3>5. est' \in Nat \ {0}
      BY <3>4
    <3>6. keep' \in Nat
      BY <1>5, <2>2, <3>5, KeepFits
    <3>7. samples' \in Nat /\ samples' # 0 /\ clean' \in Nat
      BY <1>4, <2>2
    <3>8. clean' > 0 => est' >= loop.unit
      <4>1. CASE grown = loop.unit
        BY <3>4, <4>1
      <4>2. CASE grown # loop.unit
        <5>1. clean' = clean
          BY <2>2, <4>2 DEF grown
        <5>2. clean > 0 => largest = est /\ est >= loop.unit
          BY <1>1, <1>2, <1>4 DEF ChunkInv, largest
        <5> QED  BY <1>4, <1>5, <3>1, <3>4, <5>1, <5>2
      <4> QED  BY <4>1, <4>2
    <3>9. ChunkInv'
      BY <1>2, <1>10, <2>2, <3>4, <3>7, <3>8 DEF ChunkInv
    <3> QED  BY <3>4, <3>6, <3>9
  <2> QED  BY <1>3, <2>1, <2>2
<1>7. QueueInv' /\ RingInv'
  BY <1>1, <1>2, <1>3, <1>4, <1>6, SubmittedKeeps
<1>8. WideInv'
  <2>1. Wide = 1 /\ Wide' = 1 /\ 1 <= 1
    BY <1>2 DEF Wide
  <2> QED  BY <1>1, <1>2, <1>3, <1>4, <2>1, StaysWide
<1>9. SingleInv'
  BY <1>2 DEF SingleInv
<1> QED  BY <1>6, <1>7, <1>8, <1>9 DEF WindowInv

\* A wait takes the oldest off the ring once the device has signalled it.
LEMMA WaitKeeps ==
  ASSUME WindowInv, Wait
  PROVE  WindowInv'
<1>1. QueueInv /\ RingInv /\ WideInv /\ SingleInv /\ ChunkInv
  BY DEF WindowInv
<1>2. waiting # "no" /\ UNCHANGED <<loop, i, pending, total, done, freed, proven, plan>>
  BY DEF Wait, device
<1>3. /\ loop' = loop /\ pending' = pending /\ total' = total /\ done' = done /\ freed' = freed
      /\ proven' = proven /\ est' = est /\ group' = group /\ keep' = keep /\ measured' = measured
      /\ bounded' = bounded /\ samples' = samples /\ clean' = clean
  BY <1>2 DEF plan
<1> DEFINE L == Len(total)
           R == Len(ring)
<1>4. L \in Nat /\ R \in Nat /\ done \in Nat /\ ring \in Seq(Nat) /\ keep \in Nat /\ R <= L
  BY <1>1 DEF QueueInv
<1>5. WideInv'
  BY <1>1, <1>3 DEF WideInv, Wide, Through
<1>6. ChunkInv'
  <2> SUFFICES ASSUME loop.arm = "chunked" PROVE ChunkInv'
    BY <1>3 DEF ChunkInv
  <2>1. ~ proven => waiting = "all"
    BY <1>1, <1>2 DEF ChunkInv
  <2>2. ~ proven' /\ waiting' # "all" => waiting' = "no" /\ ring' = <<>>
    <3> SUFFICES ASSUME ~ proven, waiting' # "all" PROVE waiting' = "no" /\ ring' = <<>>
      BY <1>3
    <3>1. waiting = "all" /\ ~ (R > 0)
      BY <2>1 DEF Wait
    <3>2. waiting' = "no" /\ ring' = ring
      BY <3>1 DEF Wait
    <3>3. ring = <<>>
      BY <1>4, <3>1
    <3> QED  BY <3>2, <3>3
  <2> QED  BY <1>1, <1>3, <2>2 DEF ChunkInv
<1>7. CASE R > (IF waiting = "all" THEN 0 ELSE keep)
  <2>1. ring[1] <= done /\ ring' = Tail(ring) /\ waiting' = waiting
    BY <1>7 DEF Wait
  <2>2. R >= 1 /\ R # 0
    BY <1>4, <1>7
  <2>3. ring[1] = L - R + 1
    BY <1>1, <1>4, <2>2 DEF QueueInv
  <2>4. ring' \in Seq(Nat) /\ Len(ring') = R - 1 /\ (\A j \in 1 .. R - 1 : ring'[j] = ring[j + 1])
    <3>1. ring # <<>>
      BY <2>2
    <3> QED  BY <1>4, <2>1, <2>2, <3>1
  <2>5. \A j \in 1 .. R - 1 : ring[j + 1] = L - R + (j + 1)
    BY <1>1, <1>4 DEF QueueInv
  <2>6. QueueInv'
    <3>1. \A j \in 1 .. Len(ring') : ring'[j] = Len(total') - Len(ring') + j
      <4>1. Len(total') = L /\ Len(ring') = R - 1
        BY <1>3, <2>4
      <4> HIDE DEF L, R
      <4>2. \A j \in 1 .. R - 1 : ring'[j] = L - (R - 1) + j
        BY <1>4, <2>4, <2>5
      <4> QED  BY <4>1, <4>2
    <3>2. ring' \in Seq(Nat) /\ Len(ring') <= Len(total')
      <4>1. Len(ring') <= Len(total)
        BY <1>4, <2>4
      <4> QED  BY <1>3, <2>4, <4>1
    <3> QED  BY <1>1, <1>3, <3>1, <3>2 DEF QueueInv
  <2>7. L - done <= R - 1
    BY <1>4, <2>1, <2>3
  <2>8. RingInv'
    <3>1. waiting' = "all" => Len(ring') <= 1 /\ (ring' = <<>> => done' = Len(total'))
      <4> SUFFICES ASSUME waiting = "all" PROVE Len(ring') <= 1 /\ (ring' = <<>> => done = L)
        BY <1>3, <2>1
      <4>1. R <= 1 /\ done <= L
        BY <1>1 DEF RingInv, QueueInv
      <4>2. Len(ring') = R - 1
        BY <2>4
      <4> HIDE DEF L, R
      <4> QED  BY <1>4, <2>2, <2>7, <4>1, <4>2
    <3>2. waiting' # "all" => Len(total') - done' <= Len(ring')
      BY <1>3, <2>4, <2>7
    <3> QED  BY <1>1, <1>2, <2>1, <3>1, <3>2 DEF RingInv
  <2>9. SingleInv'
    <3> SUFFICES ASSUME loop.arm = "single" PROVE SingleInv'
      BY <1>3 DEF SingleInv
    <3>1. keep >= 1 /\ pending < group /\ est >= loop.unit /\ (measured => est = loop.unit)
          /\ IF bounded THEN Blocking ELSE IF measured THEN Informed ELSE Fresh
      BY <1>1 DEF SingleInv
    <3>2. bounded => Blocking'
      BY <1>2, <1>3, <2>1, <3>1 DEF Blocking, Room
    <3>3. ~ bounded /\ measured => Informed'
      <4> SUFFICES ASSUME ~ bounded, measured PROVE Informed'
        OBVIOUS
      <4>1. Informed
        BY <3>1
      <4>2. waiting' = "window" => Len(ring') <= keep + 1
        BY <1>4, <2>1, <2>4, <4>1 DEF Informed
      <4>3. OfUnit'
        BY <1>3, <4>1, PlanStands DEF Informed
      <4>4. Len(total') - done' <= keep' + 1
        BY <1>3, <4>1 DEF Informed
      <4> QED  BY <1>3, <4>2, <4>3, <4>4 DEF Informed
    <3>4. bounded \/ measured
      BY <1>2, <3>1 DEF Fresh
    <3> QED  BY <1>3, <3>1, <3>2, <3>3, <3>4 DEF SingleInv
  <2> QED  BY <1>5, <1>6, <2>6, <2>8, <2>9 DEF WindowInv
<1>8. CASE ~ (R > (IF waiting = "all" THEN 0 ELSE keep))
  <2>1. waiting' = "no" /\ ring' = ring
    BY <1>8 DEF Wait
  <2>2. QueueInv'
    BY <1>1, <1>3, <2>1 DEF QueueInv
  <2>3. R <= keep /\ L - done <= R /\ (waiting = "all" => ring = <<>>)
    <3>1. CASE waiting = "all"
      <4>1. R = 0 /\ ring = <<>>
        BY <1>4, <1>8, <3>1
      <4> QED  BY <1>1, <1>4, <3>1, <4>1 DEF RingInv
    <3>2. CASE waiting # "all"
      BY <1>1, <1>4, <1>8, <3>2 DEF RingInv
    <3> QED  BY <3>1, <3>2
  <2>4. RingInv'
    BY <1>3, <2>1, <2>3 DEF RingInv
  <2>5. SingleInv'
    <3> SUFFICES ASSUME loop.arm = "single" PROVE SingleInv'
      BY <1>3 DEF SingleInv
    <3>1. keep >= 1 /\ pending < group /\ est >= loop.unit /\ (measured => est = loop.unit)
          /\ IF bounded THEN Blocking ELSE IF measured THEN Informed ELSE Fresh
      BY <1>1 DEF SingleInv
    <3>2. bounded => Blocking'
      <4> SUFFICES ASSUME bounded PROVE Blocking'
        OBVIOUS
      <4>1. waiting = "all" /\ Blocking
        BY <1>1, <1>2, <3>1 DEF Blocking, RingInv
      <4> QED  BY <1>3, <2>1, <2>3, <4>1 DEF Blocking, Room
    <3>3. ~ bounded /\ measured => Informed'
      BY <1>3, <2>1, <3>1, PlanStands DEF Informed
    <3>4. bounded \/ measured
      BY <1>2, <3>1 DEF Fresh
    <3> QED  BY <1>3, <3>1, <3>2, <3>3, <3>4 DEF SingleInv
  <2> QED  BY <1>5, <1>6, <2>2, <2>4, <2>5 DEF WindowInv
<1> QED  BY <1>7, <1>8

\* The device's own steps: less is in flight, or less is held.
LEMMA DeviceKeeps ==
  ASSUME WindowInv, Signal \/ Handler
  PROVE  WindowInv'
<1>1. QueueInv /\ RingInv /\ WideInv /\ SingleInv /\ ChunkInv
  BY DEF WindowInv
<1>2. /\ loop' = loop /\ pending' = pending /\ total' = total /\ ring' = ring /\ waiting' = waiting
      /\ proven' = proven /\ est' = est /\ group' = group /\ keep' = keep /\ measured' = measured
      /\ bounded' = bounded /\ samples' = samples /\ clean' = clean
  BY DEF Signal, Handler, plan
<1>3. done \in Nat /\ freed \in Nat /\ freed <= done /\ done <= Len(total) /\ Len(total) \in Nat
      /\ Len(ring) \in Nat /\ keep \in Nat
  BY <1>1 DEF QueueInv
<1>4. done' \in Nat /\ freed' \in Nat /\ freed' <= done' /\ done' <= Len(total) /\ done <= done'
  <2>1. CASE Signal
    BY <1>3, <2>1 DEF Signal
  <2>2. CASE Handler
    BY <1>3, <2>2 DEF Handler
  <2> QED  BY <2>1, <2>2
<1>5. QueueInv'
  BY <1>1, <1>2, <1>4 DEF QueueInv
<1>6. RingInv'
  BY <1>1, <1>2, <1>3, <1>4 DEF RingInv
<1>7. WideInv'
  <2>1. \A a \in done' .. Len(total) : a \in done .. Len(total)
    BY <1>3, <1>4
  <2> QED  BY <1>1, <1>2, <2>1 DEF WideInv, Wide, Through
<1>8. SingleInv'
  <2> SUFFICES ASSUME loop.arm = "single" PROVE SingleInv'
    BY <1>2 DEF SingleInv
  <2>1. keep >= 1 /\ pending < group /\ est >= loop.unit /\ (measured => est = loop.unit)
        /\ IF bounded THEN Blocking ELSE IF measured THEN Informed ELSE Fresh
    BY <1>1 DEF SingleInv
  <2>2. bounded => Blocking'
    BY <1>2, <1>3, <1>4, <2>1 DEF Blocking, Room
  <2>3. ~ bounded /\ measured => Informed'
    <3> SUFFICES ASSUME ~ bounded, measured PROVE Informed'
      OBVIOUS
    <3>1. Informed
      BY <2>1
    <3>2. Len(total) - done' <= keep + 1
      <4>1. Len(total) - done <= keep + 1
        BY <3>1 DEF Informed
      <4> QED  BY <1>3, <1>4, <4>1
    <3>3. OfUnit'
      BY <1>2, <3>1, PlanStands DEF Informed
    <3>4. waiting' = "window" => Len(ring') <= keep' + 1
      BY <1>2, <3>1 DEF Informed
    <3> QED  BY <1>2, <3>2, <3>3, <3>4 DEF Informed
  <2>4. ~ bounded /\ ~ measured => Fresh'
    BY <1>2, <1>3, <1>4, <2>1 DEF Fresh
  <2> QED  BY <1>2, <2>1, <2>2, <2>3, <2>4 DEF SingleInv
<1>9. ChunkInv'
  BY <1>1, <1>2 DEF ChunkInv
<1> QED  BY <1>5, <1>6, <1>7, <1>8, <1>9 DEF WindowInv

\* Nothing changes.
LEMMA IdleKeeps ==
  ASSUME WindowInv, UNCHANGED windowVars
  PROVE  WindowInv'
BY DEF WindowInv, QueueInv, RingInv, WideInv, Wide, SingleInv, Informed, OfUnit, Blocking, Fresh, Room, ChunkInv,
       Through, GroupOf, KeepOf, windowVars, device, plan

\* `LoopWindow` keeps what is in flight within the budget of the loop, or
\* within the two iterations it cannot go below, for every loop: the single
\* arm at every moment, with a kernel traced at any iteration and every
\* submission a blocking one from there, the chunked arm once it has read a
\* clean growth or every chunk blocks.
THEOREM WindowBounded ==
  WindowSpec => []WithinBudget
<1>1. WindowInit => WindowInv
  BY WindowBegins
<1>2. WindowInv /\ [WindowNext]_windowVars => WindowInv'
  BY SingleReads, SingleGoesOn, ChunkKeeps, WaitKeeps, DeviceKeeps, IdleKeeps DEF WindowNext, LoopOver
<1>3. WindowInv => WithinBudget
  BY WindowInvBounds
<1> QED  BY <1>1, <1>2, <1>3, PTL DEF WindowSpec

---------------------------------------------------------------------------
(* The governor. *)
\* An ask that was not settled by the hard line.
Granting == {"soft", "eased", "pace", "admitted"}
\* An ask in its stall, between the look that began it and its end.
Stalling == {"stall", "tick", "again"}

\* What was sampled for a big ask still bounds the footprint, which nothing
\* raises while the caller is here.
FreshInv == pc \in Granting /\ want >= Big => Footprint + want <= Budget

\* Arrays are only dropped during an ask, and `needed` has seen every claim.
AskInv ==
  pc # "idle" => /\ live <= asked
                 /\ Over(asked, asked + others, want) => needed

\* After `n` ticks of a stall.
After(n) == pc \in Stalling /\ left + n <= StallTicks

\* How retained memory drains: the first tick leaves nothing handed and the
\* reclaim after it an empty pool but for what was live when asked, the second
\* leaves that in the younger lag, the third in the older one too.
DrainInv ==
  /\ pc \in Stalling \cup {"look"} => running = 0
  /\ pc \in {"tick", "again"} => After(1)
  /\ pc = "tick" => lagNew = 0
  /\ After(1) => handed = 0
  /\ After(1) /\ pc # "tick" => live + cache <= asked
  /\ After(2) => live + cache <= asked
  /\ After(2) /\ pc # "tick" => live + cache + lagNew <= asked
  /\ After(3) => live + cache + lagNew + lagOld <= asked
  /\ After(3) /\ pc = "stall" => needed
  /\ pc = "refused" => needed

IInv == TypeOK /\ FreshInv /\ AskInv /\ DrainInv

\* Natural numbers among the constants.
LEMMA Constants ==
  /\ Budget \in Nat /\ Ceiling \in Nat /\ FreeFloor \in Nat /\ Big \in Nat
  /\ SamplePeriod \in Nat /\ ReclaimPeriod \in Nat /\ StallTicks \in Nat
  /\ MaxHeld \in Nat /\ MaxOthers \in Nat /\ Big > 0 /\ StallTicks >= 3
  /\ \A w \in Wants \cup {0} : w \in Nat
BY GovernorAssumption

\* A sample that governor_sample leaves is a sample.
LEMMA SampleTyped ==
  ASSUME TypeOK, NEW force, governor_sample(force)
  PROVE  /\ sample' \in [foot : Nat, claimed : Nat, free : Nat]
         /\ age' \in 0 .. SamplePeriod
<1>1. FreeReads \subseteq Nat
  BY GovernorAssumption
<1>2. Footprint \in Nat /\ Footprint + others \in Nat
  BY DEF TypeOK, Footprint
<1> QED
  BY <1>1, <1>2, Constants DEF TypeOK, governor_sample

\* A forced sample is the machine as it is.
LEMMA SampleForced ==
  ASSUME governor_sample(TRUE)
  PROVE  sample'.foot = Footprint /\ sample'.claimed = Footprint + others
BY DEF governor_sample

LEMMA TypeInit == Init => TypeOK
<1> SUFFICES ASSUME Init PROVE TypeOK
  OBVIOUS
<1>1. sample \in [foot : Nat, claimed : Nat, free : Nat]
  BY Constants DEF Init
<1>2. age \in 0 .. SamplePeriod /\ reclaimed \in 0 .. ReclaimPeriod
      /\ left \in 0 .. StallTicks /\ others \in 0 .. MaxOthers
  BY Constants DEF Init
<1> QED
  BY <1>1, <1>2 DEF Init, TypeOK

\* Every step keeps the types.
LEMMA TypeStep == TypeOK /\ [Next]_vars => TypeOK'
<1> SUFFICES ASSUME TypeOK, [Next]_vars PROVE TypeOK'
  OBVIOUS
<1> USE Constants
<1>1. CASE Gate
  <2>1. sample' \in [foot : Nat, claimed : Nat, free : Nat]
        /\ age' \in 0 .. SamplePeriod
    <3>1. CASE Fast
      BY <1>1, <3>1 DEF Gate, TypeOK
    <3>2. CASE ~Fast
      BY <1>1, <3>2, SampleTyped DEF Gate
    <3> QED
      BY <3>1, <3>2
  <2> QED
    BY <1>1, <2>1 DEF Gate, TypeOK, held, ask
<1>2. CASE Soft
  BY <1>2 DEF Soft, TypeOK, Clear, ask
<1>3. CASE Eased \/ Look \/ Again
  <2>1. sample' \in [foot : Nat, claimed : Nat, free : Nat]
        /\ age' \in 0 .. SamplePeriod
    BY <1>3, SampleTyped DEF Eased, Look, Again
  <2>2. left' \in 0 .. StallTicks
    <3>1. left' = left \/ left' = StallTicks
      BY <1>3 DEF Eased, Look, Again
    <3> QED
      BY <3>1 DEF TypeOK
  <2>3. pc' \in {"pace", "admitted", "stall"}
    BY <1>3 DEF Eased, Look, Again
  <2> QED
    BY <1>3, <2>1, <2>2, <2>3 DEF Eased, Look, Again, TypeOK, held, ask
<1>4. CASE Pace \/ Nap
  BY <1>4 DEF Pace, Nap, Pass, Least, TypeOK, held, ask, clock
<1>5. CASE reclaim_hard
  BY <1>5 DEF reclaim_hard, Reclaimed, Clear, Least, TypeOK, ask
<1>6. CASE Refuse
  BY <1>6 DEF Refuse, TypeOK, held, clock, ask
<1>14. CASE Refused
  <2>1. left' \in 0 .. StallTicks
    BY <1>14 DEF Refused, Return
  <2> QED
    BY <1>14, <2>1 DEF Refused, Return, TypeOK, held
<1>12. CASE Use
  <2>1. live' \in Nat /\ cache' \in Nat /\ lagNew' \in Nat
    BY <1>12 DEF Use, Clear, TypeOK
  <2>2. left' \in 0 .. StallTicks
    BY <1>12 DEF Use, Return
  <2> QED
    BY <1>12, <2>1, <2>2 DEF Use, Return, TypeOK
<1>7. CASE Finish \/ Handle \/ Take \/ Drop
  BY <1>7 DEF Finish, Handle, Take, Drop, TypeOK, held, clock, ask
<1>13. CASE Claim
  BY <1>13 DEF Claim, TypeOK, held, clock, ask
<1>8. CASE Submit \/ Elapse
  BY <1>8 DEF Submit, Elapse, Pass, Least, TypeOK, held, clock, ask
<1>9. ASSUME NEW w \in Wants, Ask(w) PROVE TypeOK'
  BY <1>9 DEF Ask, TypeOK, held, clock, Over
<1>10. ASSUME NEW w \in Wants, Speculate(w) PROVE TypeOK'
  <2>1. sample' \in [foot : Nat, claimed : Nat, free : Nat]
        /\ age' \in 0 .. SamplePeriod
    BY <1>10, SampleTyped DEF Speculate
  <2> QED
    BY <1>10, <2>1 DEF Speculate, TypeOK, ask
<1>11. CASE UNCHANGED vars
  BY <1>11 DEF vars, held, clock, ask, TypeOK
<1> QED
  BY <1>1, <1>2, <1>3, <1>4, <1>5, <1>6, <1>7, <1>8, <1>9, <1>10, <1>11,
     <1>12, <1>13, <1>14
  DEF Next, Admit, Machine

\* The governor's variables keep their types, for every choice of the lines.
THEOREM TypeCorrect == Spec => []TypeOK
BY TypeInit, TypeStep, PTL DEF Spec

---------------------------------------------------------------------------
LEMMA SumTyped ==
  ASSUME NEW a \in Nat, NEW b \in Nat, NEW c \in Nat, NEW d \in Nat,
         NEW e \in Nat, NEW f \in Nat
  PROVE  a + b + c + d + e + f \in Nat
OBVIOUS

\* The footprint is a number, before and after a step.
LEMMA FootprintTyped ==
  ASSUME TypeOK, TypeOK'
  PROVE  Footprint \in Nat /\ Footprint' \in Nat
<1>1. live \in Nat /\ running \in Nat /\ handed \in Nat /\ cache \in Nat
      /\ lagNew \in Nat /\ lagOld \in Nat
  BY DEF TypeOK
<1>2. live' \in Nat /\ running' \in Nat /\ handed' \in Nat /\ cache' \in Nat
      /\ lagNew' \in Nat /\ lagOld' \in Nat
  BY DEF TypeOK
<1>3. Footprint \in Nat
  BY <1>1 DEF Footprint
<1>4. live' + running' + handed' + cache' + lagNew' + lagOld' \in Nat
  BY <1>2, SumTyped
<1> QED
  BY <1>3, <1>4 DEF Footprint

\* What bounds a sum bounds a lesser one.
LEMMA Lesser ==
  ASSUME NEW f \in Nat, NEW g \in Nat, NEW w \in Nat, NEW b \in Nat,
         f + w <= b, g <= f
  PROVE  g + w <= b
OBVIOUS

\* While a caller is inside governor_admit nothing adds to what is held.
LEMMA FootprintFalls ==
  ASSUME TypeOK, Gate \/ Soft \/ Eased \/ Pace \/ reclaim_hard \/ Look \/ Nap
                 \/ Again \/ Refuse \/ Machine
  PROVE  Footprint' <= Footprint
<1>1. CASE Gate \/ Eased \/ Look \/ Again \/ Refuse
  <2>1. UNCHANGED held
    BY <1>1 DEF Gate, Eased, Look, Again, Refuse
  <2> QED
    BY <2>1 DEF held, TypeOK, Footprint
<1>2. CASE Soft
  BY <1>2 DEF Soft, Clear, TypeOK, Footprint
<1>3. CASE Pace \/ Nap
  BY <1>3 DEF Pace, Nap, Pass, held, TypeOK, Footprint
<1>4. CASE reclaim_hard
  BY <1>4 DEF reclaim_hard, Clear, TypeOK, Footprint
<1>5. CASE Machine
  BY <1>5 DEF Machine, Finish, Handle, Take, Drop, Claim, held, TypeOK, Footprint
<1> QED
  BY <1>1, <1>2, <1>3, <1>4, <1>5

\* What a look found within the lines is within the budget.
LEMMA LookedWithin ==
  ASSUME TypeOK, governor_sample(TRUE), ~over_hard_line(sample', want)
  PROVE  Footprint + want <= Budget
<1>1. sample'.foot = Footprint
  BY SampleForced
<1>2. Footprint \in Nat /\ want \in Nat
  BY Constants DEF TypeOK, Footprint
<1> QED
  BY <1>1, <1>2, Constants DEF over_hard_line, Over

LEMMA FreshStep == TypeOK /\ FreshInv /\ [Next]_vars => FreshInv'
<1> SUFFICES ASSUME TypeOK, FreshInv, [Next]_vars, pc' \in Granting, want' >= Big
             PROVE  Footprint' + want' <= Budget
  BY DEF FreshInv
<1> USE DEF Granting
<1>0. Footprint \in Nat /\ Footprint' \in Nat /\ want \in Nat
  <2>1. TypeOK'
    BY TypeStep
  <2> QED
    BY <2>1, FootprintTyped, Constants DEF TypeOK
<1>1. CASE Gate
  <2>1. want' = want /\ ~Fast
    BY <1>1, <1>0, Constants DEF Gate, ask, Fast
  <2>2. governor_sample(TRUE)
    BY <1>1, <2>1 DEF Gate, governor_sample
  <2>3. ~over_hard_line(sample', want)
    BY <1>1, <2>1 DEF Gate
  <2>4. Footprint + want <= Budget
    BY <2>2, <2>3, LookedWithin
  <2>5. Footprint' <= Footprint
    BY <1>1, FootprintFalls
  <2> QED
    BY <1>0, <2>1, <2>4, <2>5, Constants, Lesser
<1>2. CASE Look \/ Again
  <2>1. want' = want /\ governor_sample(TRUE) /\ ~over_hard_line(sample', want)
    BY <1>2 DEF Look, Again, ask
  <2>2. Footprint + want <= Budget
    BY <2>1, LookedWithin
  <2>3. Footprint' <= Footprint
    BY <1>2, FootprintFalls
  <2> QED
    BY <1>0, <2>1, <2>2, <2>3, Constants, Lesser
<1>3. CASE Soft \/ Eased \/ Pace \/ Machine
  <2>1. want' = want /\ pc \in Granting
    BY <1>3 DEF Soft, Eased, Pace, Machine, Finish, Handle, Take, Drop, Claim, ask
  <2>2. Footprint + want <= Budget
    BY <2>1 DEF FreshInv
  <2>3. Footprint' <= Footprint
    BY <1>3, FootprintFalls
  <2> QED
    BY <1>0, <2>1, <2>2, <2>3, Constants, Lesser
<1>4. CASE UNCHANGED vars
  BY <1>4 DEF vars, held, ask, FreshInv, Footprint
<1>5. ~(reclaim_hard \/ Nap \/ Refuse \/ Use \/ Refused \/ Submit \/ Elapse)
  BY DEF reclaim_hard, Reclaimed, Nap, Refuse, Use, Refused, Return, Submit, Elapse
<1>6. ASSUME NEW w \in Wants PROVE ~(Ask(w) \/ Speculate(w))
  BY DEF Ask, Speculate
<1> QED
  BY <1>1, <1>2, <1>3, <1>4, <1>5, <1>6 DEF Next, Admit

LEMMA AskStep == TypeOK /\ AskInv /\ [Next]_vars => AskInv'
<1> SUFFICES ASSUME TypeOK, AskInv, [Next]_vars, pc' # "idle"
             PROVE  /\ live' <= asked'
                    /\ Over(asked', asked' + others', want') => needed'
  BY DEF AskInv
<1>1. ASSUME NEW w \in Wants, Ask(w)
      PROVE  /\ live' <= asked'
             /\ Over(asked', asked' + others', want') => needed'
  BY <1>1 DEF Ask, TypeOK, held
<1>2. CASE Claim
  BY <1>2 DEF Claim, AskInv, held
<1>3. CASE Drop
  BY <1>3 DEF Drop, AskInv, ask, TypeOK
<1>4. CASE Gate \/ Soft \/ Eased \/ Pace \/ reclaim_hard \/ Look \/ Nap \/ Again
           \/ Refuse \/ Finish \/ Handle \/ Take \/ UNCHANGED vars
  <2>1. pc # "idle" /\ UNCHANGED <<live, others, want, asked, needed>>
    BY <1>4 DEF Gate, Soft, Eased, Pace, reclaim_hard, Look, Nap, Again, Refuse,
                Finish, Handle, Take, vars, held, ask
  <2> QED
    BY <2>1 DEF AskInv
<1>5. ~(Use \/ Refused \/ Submit \/ Elapse)
  BY DEF Use, Refused, Return, Submit, Elapse
<1>6. ASSUME NEW w \in Wants PROVE ~Speculate(w)
  BY DEF Speculate
<1> QED
  BY <1>1, <1>2, <1>3, <1>4, <1>5, <1>6 DEF Next, Admit, Machine

\* A look that finds no more than the arrays of the ask, and is over a line,
\* was needed.
LEMMA OverNeeded ==
  ASSUME TypeOK, AskInv, pc # "idle", governor_sample(TRUE),
         Footprint <= asked, over_hard_line(sample', want)
  PROVE  needed
<1>1. sample'.foot = Footprint /\ sample'.claimed = Footprint + others
  BY SampleForced
<1>2. /\ Footprint \in Nat /\ asked \in Nat /\ want \in Nat /\ others \in Nat
  BY Constants DEF TypeOK, Footprint
<1>3. Over(asked, asked + others, want)
  BY <1>1, <1>2, Constants DEF over_hard_line, Over
<1> QED
  BY <1>3 DEF AskInv

---------------------------------------------------------------------------
\* Retained memory drains, one stage per tick of the stall.
LEMMA DrainStep == TypeOK /\ AskInv /\ DrainInv /\ [Next]_vars => DrainInv'
<1> SUFFICES ASSUME TypeOK, AskInv, DrainInv, [Next]_vars PROVE DrainInv'
  OBVIOUS
<1> USE Constants
<1>0. /\ left \in Nat /\ asked \in Nat /\ live \in Nat /\ cache \in Nat
      /\ lagNew \in Nat /\ lagOld \in Nat /\ handed \in Nat /\ running \in Nat
  BY DEF TypeOK
<1>1. CASE Look
  <2>1. pc' \in {"admitted", "stall"} /\ (pc' = "stall" => left' = StallTicks)
        /\ running' = running /\ running = 0
    BY <1>1 DEF Look, held, DrainInv
  <2> QED
    BY <2>1 DEF DrainInv, After, Stalling
<1>2. CASE reclaim_hard /\ pc = "hard"
  BY <1>2 DEF reclaim_hard, Reclaimed, DrainInv, After, Stalling
<1>3. CASE reclaim_hard /\ pc = "tick"
  <2>1. handed = 0 /\ After(1) /\ running = 0
    BY <1>3 DEF DrainInv, Stalling
  <2>2. /\ pc' = "again" /\ cache' = 0 /\ lagNew' = lagNew + cache
        /\ UNCHANGED <<live, running, handed, lagOld, left, asked, needed>>
    BY <1>3, <2>1 DEF reclaim_hard, Reclaimed, Clear, ask
  <2>3. live <= asked
    BY <1>3 DEF AskInv
  <2> QED
    BY <1>0, <1>3, <2>1, <2>2, <2>3 DEF DrainInv, After, Stalling
<1>4. CASE Nap
  <2>1. /\ pc = "stall" /\ pc' = "tick" /\ left > 0 /\ left' = left - 1
        /\ cache' = cache + handed /\ handed' = 0 /\ lagOld' = lagNew /\ lagNew' = 0
        /\ UNCHANGED <<live, running, asked, needed>>
    BY <1>4 DEF Nap, Pass, ask
  <2>2. left' + 1 <= StallTicks /\ left' \in Nat
    BY <1>0, <2>1 DEF TypeOK
  <2> QED
    BY <1>0, <2>1, <2>2 DEF DrainInv, After, Stalling
<1>5. CASE Again
  <2>1. /\ pc = "again" /\ pc' \in {"stall", "admitted"}
        /\ UNCHANGED <<live, running, handed, cache, lagNew, lagOld, left, asked, needed>>
        /\ governor_sample(TRUE)
        /\ pc' = "stall" => over_hard_line(sample', want)
    BY <1>5 DEF Again, held, ask
  <2>2. ASSUME After(3), pc' = "stall" PROVE needed
    <3>1. handed = 0 /\ running = 0 /\ live + cache + lagNew + lagOld <= asked
      BY <1>0, <2>1, <2>2 DEF DrainInv, After, Stalling
    <3>2. Footprint <= asked
      BY <1>0, <3>1 DEF Footprint
    <3> QED
      BY <2>1, <2>2, <3>2, OverNeeded
  <2> QED
    BY <1>0, <2>1, <2>2 DEF DrainInv, After, Stalling
<1>6. CASE Refuse
  BY <1>0, <1>6 DEF Refuse, DrainInv, After, Stalling, held, clock, ask
<1>7. CASE Finish
  BY <1>0, <1>7 DEF Finish, DrainInv, After, Stalling, clock, ask
<1>8. CASE Handle
  BY <1>0, <1>8 DEF Handle, DrainInv, After, Stalling, clock, ask
<1>9. CASE Take
  BY <1>0, <1>9 DEF Take, DrainInv, After, Stalling, clock, ask
<1>10. CASE Drop
  BY <1>0, <1>10 DEF Drop, DrainInv, After, Stalling, clock, ask
<1>11. CASE Claim
  BY <1>0, <1>11 DEF Claim, DrainInv, After, Stalling, held, clock
<1>12. CASE Gate \/ Soft \/ Eased \/ Pace \/ Use \/ Refused \/ Submit \/ Elapse
            \/ \E w \in Wants : Ask(w) \/ Speculate(w)
  <2>1. pc' \notin Stalling \cup {"look", "refused"}
    BY <1>12 DEF Gate, Soft, Eased, Pace, Use, Refused, Return, Submit, Elapse,
                 Ask, Speculate, Stalling
  <2> QED
    BY <2>1 DEF DrainInv, After, Stalling
<1>13. CASE UNCHANGED vars
  BY <1>13 DEF vars, held, clock, ask, DrainInv, After, Stalling
<1>14. reclaim_hard => pc = "hard" \/ pc = "tick"
  BY DEF reclaim_hard
<1> QED
  BY <1>1, <1>2, <1>3, <1>4, <1>5, <1>6, <1>7, <1>8, <1>9, <1>10, <1>11, <1>12,
     <1>13, <1>14 DEF Next, Admit, Machine

---------------------------------------------------------------------------
\* The inductive invariant: types, fresh answers, the history of the ask, and
\* how far retained memory has drained.
THEOREM Drains == Spec => []IInv
<1>1. Init => IInv
  <2> SUFFICES ASSUME Init PROVE IInv
    OBVIOUS
  <2>1. TypeOK
    BY TypeInit
  <2> QED
    BY <2>1 DEF Init, IInv, FreshInv, AskInv, DrainInv, After, Granting, Stalling
<1>2. IInv /\ [Next]_vars => IInv'
  BY TypeStep, FreshStep, AskStep, DrainStep DEF IInv
<1> QED
  BY <1>1, <1>2, PTL DEF Spec

\* No caller is refused while its live arrays and the other processes stay
\* within the lines, for every setting of the lines and of the periods.
THEOREM OnlyForNeed == Spec => []RefusedForNeed
<1>1. IInv => RefusedForNeed
  BY DEF IInv, DrainInv, RefusedForNeed
<1> QED
  BY <1>1, Drains, PTL

\* A big ask that is admitted fits the budget at that moment.
THEOREM BigKeepsBudget == Spec => []BigWithinBudget
<1>1. IInv => BigWithinBudget
  BY DEF IInv, FreshInv, BigWithinBudget, Granting
<1> QED
  BY <1>1, Drains, PTL

---------------------------------------------------------------------------
(* The cache.  A key is the weight it was taken from; what a key's weight  *)
(* left behind may be handed over again, but the Data of its generation    *)
(* stays where it was for as long as some slot holds it.                   *)
Weight == [id : Ids, gen : Nat, raw : Raws, value : Nat]
Kept == [slot : Slots, key : Weight]
Weights ==
  /\ gens \in Nat /\ now \in [Slots -> Weight]
  /\ \A s \in Slots : now[s].gen <= gens
  /\ \A s, t \in Slots : s # t => now[s].gen # now[t].gen /\ now[s].raw # now[t].raw
Faithful(k, ws, n) ==
  /\ k \in Weight /\ k.gen <= n
  /\ \A s \in Slots : ws[s].gen = k.gen => ws[s].raw = k.raw
Cached(entries, ws, n) ==
  /\ entries \in Seq(Kept) /\ Len(entries) <= MaxBuilt
  /\ \A j \in 1 .. Len(entries) : Faithful(entries[j].key, ws, n)
Tapes ==
  /\ DOMAIN fusedKeys \subseteq Slots /\ DOMAIN ran = DOMAIN fusedKeys
  /\ \A s \in DOMAIN fusedKeys : Faithful(fusedKeys[s], now, gens) /\ ran[s].gen = fusedKeys[s].gen
CacheInv == Weights /\ Tapes /\ Cached(built, now, gens)

\* The weak handle tells a recycled address from the weight that had it.
LEMMA MatchesSame ==
  ASSUME Weights, NEW k, Faithful(k, now, gens), NEW s \in Slots, Matches(k, now[s])
  PROVE  k.gen = now[s].gen
<1>1. PICK t \in Slots : now[t].gen = k.gen
  BY DEF Matches, Alive
<1>2. now[t].raw = now[s].raw
  BY <1>1 DEF Matches, Faithful
<1> QED  BY <1>1, <1>2 DEF Weights

\* The key of a weight is faithful to it.
LEMMA OwnKey ==
  ASSUME Weights, NEW s \in Slots
  PROVE  Faithful(Key(now[s]), now, gens) /\ Key(now[s]).gen = now[s].gen /\ Alive(now[s].gen)
<1>1. now[s] \in Weight
  BY DEF Weights
<1>2. /\ Key(now[s]) \in Weight /\ Key(now[s]).gen = now[s].gen /\ Key(now[s]).raw = now[s].raw
  BY <1>1 DEF Key, Weight
<1>3. \A t \in Slots : now[t].gen = now[s].gen => now[t].raw = now[s].raw
  BY DEF Weights
<1> QED  BY <1>2, <1>3 DEF Weights, Faithful, Alive

\* `q` has the living ones of the first n entries, and none other.
Sifted(q, entries, n) ==
  /\ q \in Seq(Kept) /\ Len(q) <= n
  /\ \A a \in 1 .. Len(q) : \E j \in 1 .. n : Alive(entries[j].key.gen) /\ q[a] = entries[j]
  /\ \A j \in 1 .. n : Alive(entries[j].key.gen) => \E a \in 1 .. Len(q) : q[a] = entries[j]

LEMMA SiftedStep ==
  ASSUME NEW entries \in Seq(Kept), NEW n \in 0 .. Len(entries) - 1, NEW q, Sifted(q, entries, n),
         NEW r, r = IF Alive(entries[n + 1].key.gen) THEN Append(q, entries[n + 1]) ELSE q
  PROVE  Sifted(r, entries, n + 1)
<1>1. entries[n + 1] \in Kept /\ n \in Nat /\ n + 1 \in 1 .. n + 1 /\ q \in Seq(Kept) /\ Len(q) <= n
  BY DEF Sifted
<1>2. CASE Alive(entries[n + 1].key.gen)
  <2>1. /\ r \in Seq(Kept) /\ Len(r) = Len(q) + 1 /\ Len(q) \in Nat /\ r[Len(q) + 1] = entries[n + 1]
        /\ \A a \in 1 .. Len(q) : r[a] = q[a]
    BY <1>1, <1>2
  <2>2. ASSUME NEW a \in 1 .. Len(r)
        PROVE  \E j \in 1 .. n + 1 : Alive(entries[j].key.gen) /\ r[a] = entries[j]
    <3>1. CASE a = Len(q) + 1
      BY <1>1, <1>2, <2>1, <3>1
    <3>2. CASE a # Len(q) + 1
      <4>1. a \in 1 .. Len(q)
        BY <2>1, <3>2
      <4>2. PICK j \in 1 .. n : Alive(entries[j].key.gen) /\ q[a] = entries[j]
        BY <4>1 DEF Sifted
      <4> QED  BY <1>1, <2>1, <4>1, <4>2
    <3> QED  BY <3>1, <3>2
  <2>3. ASSUME NEW j \in 1 .. n + 1, Alive(entries[j].key.gen)
        PROVE  \E a \in 1 .. Len(r) : r[a] = entries[j]
    <3>1. CASE j = n + 1
      BY <2>1, <3>1
    <3>2. CASE j # n + 1
      <4>1. j \in 1 .. n
        BY <1>1, <3>2
      <4>2. PICK a \in 1 .. Len(q) : q[a] = entries[j]
        BY <2>3, <4>1 DEF Sifted
      <4> QED  BY <2>1, <4>2
    <3> QED  BY <3>1, <3>2
  <2>4. Len(r) <= n + 1
    BY <1>1, <2>1
  <2> QED  BY <2>1, <2>2, <2>3, <2>4 DEF Sifted
<1>3. CASE ~ Alive(entries[n + 1].key.gen)
  <2>1. r = q
    BY <1>3
  <2>2. \A j \in 1 .. n + 1 : j = n + 1 \/ j \in 1 .. n
    BY <1>1
  <2>3. \A j \in 1 .. n + 1 : Alive(entries[j].key.gen) => j \in 1 .. n
    BY <1>3, <2>2
  <2>4. \A j \in 1 .. n : j \in 1 .. n + 1
    BY <1>1
  <2> QED  BY <1>1, <2>1, <2>3, <2>4 DEF Sifted
<1> QED  BY <1>2, <1>3

\* Living keeps the living entries, and none other.
LEMMA LivingLive ==
  ASSUME NEW entries \in Seq(Kept)
  PROVE  /\ Living(entries) \in Seq(Kept)
         /\ Len(Living(entries)) <= Len(entries)
         /\ ToSet(Living(entries)) = {e \in ToSet(entries) : Alive(e.key.gen)}
<1> DEFINE N == Len(entries)
           Next1(q, n) == IF Alive(entries[n].key.gen) THEN Append(q, entries[n]) ELSE q
           step == [p \in Seq(Kept) \X (1 .. N) |-> Next1(p[1], p[2])]
           kept == CHOOSE f : f = [n \in 0 .. N |-> IF n = 0 THEN <<>> ELSE Next1(f[n - 1], n)]
<1>1. N \in Nat /\ (\A n \in 1 .. N : entries[n] \in Kept) /\ <<>> \in Seq(Kept)
  OBVIOUS
<1>2. Living(entries) = kept[N]
  BY DEF Living
<1>3. \A q \in Seq(Kept), n \in 1 .. N : Next1(q, n) \in Seq(Kept)
  BY <1>1
<1> HIDE DEF Next1
<1>4. step \in [Seq(Kept) \X (1 .. N) -> Seq(Kept)]
  BY <1>3
<1>5. PICK f \in [0 .. N -> Seq(Kept)] : Chained(f, <<>>, step, N)
  <2> HIDE DEF step, N
  <2> QED  BY <1>1, <1>4, Chain
<1>6. f = [n \in 0 .. N |-> IF n = 0 THEN <<>> ELSE Next1(f[n - 1], n)]
  <2>1. ASSUME NEW n \in 0 .. N, n # 0
        PROVE  f[n] = Next1(f[n - 1], n)
    <3>1. f[n - 1] \in Seq(Kept) /\ n \in 1 .. N
      BY <1>1, <2>1
    <3>2. <<f[n - 1], n>> \in Seq(Kept) \X (1 .. N)
      BY <3>1
    <3> QED  BY <1>5, <3>1, <3>2 DEF Chained
  <2>2. DOMAIN f = 0 .. N /\ f = [n \in 0 .. N |-> f[n]]
    OBVIOUS
  <2> HIDE DEF step
  <2>3. f[0] = <<>>
    BY <1>5 DEF Chained
  <2> QED  BY <2>1, <2>2, <2>3
<1>7. kept = [n \in 0 .. N |-> IF n = 0 THEN <<>> ELSE Next1(kept[n - 1], n)]
  BY <1>6
<1> HIDE DEF kept
<1> DEFINE T == {n \in 0 .. N : Sifted(kept[n], entries, n)}
<1>8. 0 \in T
  <2>1. kept[0] = <<>> /\ 0 \in 0 .. N
    BY <1>1, <1>7
  <2>2. Sifted(<<>>, entries, 0)
    BY DEF Sifted
  <2> QED  BY <2>1, <2>2
<1>9. ASSUME NEW n \in 0 .. N - 1, n \in T
      PROVE  n + 1 \in T
  <2>1. n + 1 \in 0 .. N /\ n + 1 # 0 /\ (n + 1) - 1 = n
    BY <1>1
  <2>2. kept[n + 1] = Next1(kept[n], n + 1)
    BY <1>7, <2>1
  <2>3. Sifted(kept[n + 1], entries, n + 1)
    BY <1>9, <2>2, SiftedStep DEF Next1
  <2> QED  BY <2>1, <2>3
<1> HIDE DEF T
<1>10. N \in T
  <2> HIDE DEF N
  <2>1. \A n \in 0 .. N : n \in T
    BY <1>1, <1>8, <1>9, InductTo, Zenon
  <2> QED  BY <1>1, <2>1
<1>11. Sifted(kept[N], entries, N)
  BY <1>10 DEF T
<1>12. ToSet(kept[N]) = {e \in ToSet(entries) : Alive(e.key.gen)}
  <2>1. DOMAIN kept[N] = 1 .. Len(kept[N]) /\ DOMAIN entries = 1 .. N
    BY <1>11 DEF Sifted
  <2>2. ASSUME NEW e \in ToSet(kept[N])
        PROVE  e \in ToSet(entries) /\ Alive(e.key.gen)
    <3>1. PICK a \in 1 .. Len(kept[N]) : e = kept[N][a]
      BY <2>1 DEF ToSet
    <3>2. PICK j \in 1 .. N : Alive(entries[j].key.gen) /\ kept[N][a] = entries[j]
      BY <1>11 DEF Sifted
    <3> QED  BY <2>1, <3>1, <3>2 DEF ToSet
  <2>3. ASSUME NEW e \in ToSet(entries), Alive(e.key.gen)
        PROVE  e \in ToSet(kept[N])
    <3>1. PICK j \in 1 .. N : e = entries[j]
      BY <2>1 DEF ToSet
    <3>2. PICK a \in 1 .. Len(kept[N]) : kept[N][a] = entries[j]
      BY <1>11, <2>3, <3>1 DEF Sifted
    <3> QED  BY <2>1, <3>1, <3>2 DEF ToSet
  <2> QED  BY <2>2, <2>3
<1> QED  BY <1>2, <1>11, <1>12 DEF Sifted

\* Room is made for one entry, and a living one goes only when all that stay
\* are alive.
LEMMA ForgotMakesRoom ==
  ASSUME NEW entries, Cached(entries, now, gens), MaxBuilt # 0
  PROVE  /\ Forgot(entries) \in Seq(Kept) /\ Len(Forgot(entries)) < MaxBuilt
         /\ ToSet(Forgot(entries)) \subseteq ToSet(entries)
         /\ Forgot(entries) = entries \/ \A e \in ToSet(Forgot(entries)) : Alive(e.key.gen)
<1> DEFINE alive == Living(entries)
           M == Len(alive)
<1>1. MaxBuilt \in Nat \ {0}
  BY TapeCacheAssumption DEF TapeCacheAssumption
<1>2. entries \in Seq(Kept) /\ Len(entries) \in Nat
  BY DEF Cached
<1>3. /\ alive \in Seq(Kept) /\ M \in Nat
      /\ ToSet(alive) \subseteq ToSet(entries) /\ \A e \in ToSet(alive) : Alive(e.key.gen)
  BY <1>2, LivingLive
<1> HIDE DEF alive
<1>4. CASE Len(entries) < MaxBuilt
  BY <1>2, <1>4 DEF Forgot
<1>5. CASE ~ (Len(entries) < MaxBuilt) /\ M < MaxBuilt
  <2>1. Forgot(entries) = alive
    BY <1>5 DEF Forgot, alive
  <2> QED  BY <1>3, <1>5, <2>1
<1>6. CASE ~ (Len(entries) < MaxBuilt) /\ ~ (M < MaxBuilt)
  <2> DEFINE last == SubSeq(alive, M - MaxBuilt + 2, M)
  <2>1. Forgot(entries) = last
    BY <1>6 DEF Forgot, alive
  <2>2. M - MaxBuilt + 2 \in 1 .. M + 1
    BY <1>1, <1>3, <1>6
  <2>3. last \in Seq(Kept) /\ Len(last) = MaxBuilt - 1
    BY <1>1, <1>3, <2>2
  <2>4. \A j \in 1 .. Len(last) : last[j] = alive[M - MaxBuilt + 1 + j] /\ M - MaxBuilt + 1 + j \in 1 .. M
    BY <1>1, <1>3, <2>2, <2>3
  <2>5. ToSet(last) \subseteq ToSet(alive)
    <3>1. DOMAIN last = 1 .. Len(last) /\ DOMAIN alive = 1 .. M
      BY <1>3, <2>3
    <3> QED  BY <2>4, <3>1 DEF ToSet
  <2> HIDE DEF last
  <2>6. Len(last) < MaxBuilt
    BY <1>1, <2>3
  <2> QED  BY <1>3, <2>1, <2>3, <2>5, <2>6
<1> QED  BY <1>4, <1>5, <1>6

\* `after` is what became of `before`, which lost nothing or has only the
\* living left.
DeadFirst(before, after) ==
  (\E e \in ToSet(before) \ ToSet(after) : Alive(e.key.gen)) =>
     \A e \in ToSet(after) : Alive(e.key.gen)

LEMMA JoinedLists ==
  ASSUME NEW V, NEW q \in Seq(V), NEW r \in Seq(V)
  PROVE  /\ q \o r \in Seq(V) /\ Len(q \o r) = Len(q) + Len(r)
         /\ \A n \in 1 .. Len(q) + Len(r) : (q \o r)[n] = IF n <= Len(q) THEN q[n] ELSE r[n - Len(q)]
OBVIOUS

\* A hit only moves in the order of use.
LEMMA HitKeeps ==
  ASSUME NEW entries \in Seq(Kept), NEW j \in 1 .. Len(entries),
         NEW moved, moved = Append(RemoveAt(entries, j), entries[j])
  PROVE  moved \in Seq(Kept) /\ Len(moved) = Len(entries) /\ ToSet(moved) = ToSet(entries)
<1> DEFINE N == Len(entries)
           rest == RemoveAt(entries, j)
<1>1. N \in Nat /\ j \in Nat /\ 1 <= j /\ j <= N /\ entries[j] \in Kept
  OBVIOUS
<1>2. SubSeq(entries, 1, j - 1) \in Seq(Kept) /\ Len(SubSeq(entries, 1, j - 1)) = j - 1
      /\ \A a \in 1 .. j - 1 : SubSeq(entries, 1, j - 1)[a] = entries[a]
  BY <1>1
<1>3. SubSeq(entries, j + 1, N) \in Seq(Kept) /\ Len(SubSeq(entries, j + 1, N)) = N - j
      /\ \A a \in 1 .. N - j : SubSeq(entries, j + 1, N)[a] = entries[j + a]
  BY <1>1
<1>4. rest = SubSeq(entries, 1, j - 1) \o SubSeq(entries, j + 1, N)
  BY DEF RemoveAt
<1>5. /\ rest \in Seq(Kept) /\ Len(rest) = N - 1
      /\ \A a \in 1 .. N - 1 : rest[a] = IF a < j THEN entries[a] ELSE entries[a + 1]
  <2> DEFINE front == SubSeq(entries, 1, j - 1)
             back == SubSeq(entries, j + 1, N)
  <2>1. /\ front \in Seq(Kept) /\ Len(front) = j - 1 /\ back \in Seq(Kept) /\ Len(back) = N - j
        /\ rest = front \o back
    BY <1>2, <1>3, <1>4
  <2>2. (\A a \in 1 .. j - 1 : front[a] = entries[a]) /\ \A a \in 1 .. N - j : back[a] = entries[j + a]
    BY <1>2, <1>3
  <2> HIDE DEF front, back, rest, N
  <2>3. /\ rest \in Seq(Kept) /\ Len(rest) = N - 1
        /\ \A a \in 1 .. N - 1 : rest[a] = IF a <= j - 1 THEN front[a] ELSE back[a - (j - 1)]
    <3>1. rest \in Seq(Kept) /\ Len(rest) = (j - 1) + (N - j)
      <4>1. front \in Seq(Kept) /\ back \in Seq(Kept)
        BY <2>1
      <4>2. front \o back \in Seq(Kept) /\ Len(front \o back) = Len(front) + Len(back)
        BY ONLY <4>1, JoinedLists
      <4>3. Len(front) = j - 1 /\ Len(back) = N - j
        BY <2>1
      <4>4. rest = front \o back
        BY <2>1
      <4> QED  BY ONLY <4>2, <4>3, <4>4
    <3>0. (j - 1) + (N - j) = N - 1
      BY <1>1
    <3>2. \A a \in 1 .. (j - 1) + (N - j) : rest[a] = IF a <= j - 1 THEN front[a] ELSE back[a - (j - 1)]
      BY <2>1
    <3> QED  BY <3>0, <3>1, <3>2
  <2>4. ASSUME NEW a \in 1 .. N - 1
        PROVE  rest[a] = IF a < j THEN entries[a] ELSE entries[a + 1]
    <3>1. CASE a < j
      <4>1. a \in 1 .. j - 1 /\ a <= j - 1
        BY <1>1, <3>1
      <4> QED  BY <2>2, <2>3, <3>1, <4>1
    <3>2. CASE ~ (a < j)
      <4>1. a - (j - 1) \in 1 .. N - j /\ ~ (a <= j - 1) /\ j + (a - (j - 1)) = a + 1
        BY <1>1, <3>2
      <4> QED  BY <2>2, <2>3, <3>2, <4>1
    <3> QED  BY <3>1, <3>2
  <2> QED  BY <2>3, <2>4
<1> HIDE DEF rest
<1>6. /\ moved \in Seq(Kept) /\ Len(moved) = N /\ moved[N] = entries[j]
      /\ \A a \in 1 .. N - 1 : moved[a] = IF a < j THEN entries[a] ELSE entries[a + 1]
  <2>1. moved = Append(rest, entries[j])
    BY DEF rest
  <2> QED  BY <1>1, <1>5, <2>1
<1>7. ToSet(moved) = {moved[a] : a \in 1 .. N} /\ ToSet(entries) = {entries[a] : a \in 1 .. N}
  <2>1. DOMAIN moved = 1 .. N /\ DOMAIN entries = 1 .. N
    BY <1>6
  <2> QED  BY <2>1 DEF ToSet
<1> HIDE DEF N
<1>8. ASSUME NEW a \in 1 .. N
      PROVE  (\E k \in 1 .. N : moved[a] = entries[k]) /\ \E k \in 1 .. N : entries[a] = moved[k]
  <2>1. \E k \in 1 .. N : moved[a] = entries[k]
    <3>1. CASE a = N
      BY <1>1, <1>6, <3>1
    <3>2. CASE a # N
      <4>1. a \in 1 .. N - 1 /\ a + 1 \in 1 .. N
        BY <1>1, <3>2
      <4> QED  BY <1>6, <4>1
    <3> QED  BY <3>1, <3>2
  <2>2. \E k \in 1 .. N : entries[a] = moved[k]
    <3>1. CASE a = j
      <4>1. N \in 1 .. N /\ entries[a] = moved[N]
        BY <1>1, <1>6, <3>1
      <4> QED  BY <4>1
    <3>2. CASE a < j
      <4>1. a \in 1 .. N - 1
        BY <1>1, <3>2
      <4>2. moved[a] = entries[a]
        BY <1>6, <3>2, <4>1
      <4> QED  BY <4>2
    <3>3. CASE a > j
      <4>1. a - 1 \in 1 .. N - 1 /\ ~ (a - 1 < j) /\ (a - 1) + 1 = a /\ a - 1 \in 1 .. N
        BY <1>1, <3>3
      <4>2. moved[a - 1] = entries[a]
        BY <1>6, <4>1
      <4> QED  BY <4>1, <4>2
    <3>4. a = j \/ a < j \/ a > j
      BY <1>1
    <3> QED  BY <3>1, <3>2, <3>3, <3>4
  <2> QED  BY <2>1, <2>2
<1>9. ToSet(moved) = ToSet(entries)
  <2>1. \A a \in 1 .. N : moved[a] \in {entries[k] : k \in 1 .. N} /\ entries[a] \in {moved[k] : k \in 1 .. N}
    <3> SUFFICES ASSUME NEW a \in 1 .. N
                 PROVE  moved[a] \in {entries[k] : k \in 1 .. N} /\ entries[a] \in {moved[k] : k \in 1 .. N}
      OBVIOUS
    <3>1. (\E k \in 1 .. N : moved[a] = entries[k]) /\ \E k \in 1 .. N : entries[a] = moved[k]
      BY <1>8
    <3> QED  BY <3>1
  <2> QED  BY <1>7, <2>1
<1> QED  BY <1>6, <1>9 DEF N

\* A pack from the cache, or made anew, is of the weight at hand; the cache
\* keeps to its size and lets the dead go first.
LEMMA RememberedKeeps ==
  ASSUME Weights, NEW entries, Cached(entries, now, gens), NEW s \in Slots
  PROVE  /\ Cached(Remembered(entries, s).entries, now, gens)
         /\ Remembered(entries, s).pack.gen = now[s].gen
         /\ DeadFirst(built, entries) => DeadFirst(built, Remembered(entries, s).entries)
<1> DEFINE hit == {j \in DOMAIN entries : entries[j].slot = s /\ Matches(entries[j].key, now[s])}
           r == Remembered(entries, s)
           own == Key(now[s])
<1>1. Faithful(own, now, gens) /\ own.gen = now[s].gen /\ Alive(own.gen) /\ own \in Weight
  BY OwnKey DEF Faithful
<1>2. /\ entries \in Seq(Kept) /\ Len(entries) <= MaxBuilt /\ Len(entries) \in Nat
      /\ DOMAIN entries = 1 .. Len(entries) /\ MaxBuilt \in Nat
      /\ \A j \in 1 .. Len(entries) : Faithful(entries[j].key, now, gens)
  BY TapeCacheAssumption DEF Cached, TapeCacheAssumption
<1> HIDE DEF own
<1>3. CASE MaxBuilt = 0
  <2>1. r.pack = own /\ r.entries = entries
    BY <1>3 DEF Remembered, own
  <2> QED  BY <1>1, <2>1
<1>4. CASE MaxBuilt # 0 /\ hit # {}
  <2> DEFINE j == Min(hit)
             moved == Append(RemoveAt(entries, j), entries[j])
  <2>1. j \in hit
    <3>1. hit \subseteq Nat
      BY <1>2
    <3>2. \E x \in hit : \A y \in hit : x <= y
      BY <1>4, <3>1, LeastMember
    <3> HIDE DEF hit
    <3> QED  BY <3>2 DEF Min
  <2>2. r.pack = entries[j].key /\ r.entries = moved
    BY <1>4 DEF Remembered
  <2> HIDE DEF j
  <2>3. j \in 1 .. Len(entries) /\ Matches(entries[j].key, now[s]) /\ Faithful(entries[j].key, now, gens)
    BY <1>2, <2>1
  <2>4. entries[j].key.gen = now[s].gen
    BY <2>3, MatchesSame
  <2>5. moved \in Seq(Kept) /\ Len(moved) = Len(entries) /\ ToSet(moved) = ToSet(entries)
    BY <1>2, <2>3, HitKeeps
  <2> HIDE DEF moved
  <2>6. \A a \in 1 .. Len(moved) : Faithful(moved[a].key, now, gens)
    <3>1. \A e \in ToSet(entries) : Faithful(e.key, now, gens)
      BY <1>2 DEF ToSet
    <3>2. \A a \in 1 .. Len(moved) : moved[a] \in ToSet(moved)
      BY <2>5 DEF ToSet
    <3> QED  BY <2>5, <3>1, <3>2
  <2>7. Cached(moved, now, gens)
    BY <1>2, <2>5, <2>6 DEF Cached
  <2>8. DeadFirst(built, entries) => DeadFirst(built, moved)
    BY <2>5 DEF DeadFirst
  <2> QED  BY <2>2, <2>4, <2>7, <2>8
<1>5. CASE MaxBuilt # 0 /\ hit = {}
  <2> DEFINE room == Forgot(entries)
             new == [slot |-> s, key |-> own]
             more == Append(room, new)
  <2>1. r.pack = own /\ r.entries = more
    BY <1>5 DEF Remembered, own
  <2>2. /\ room \in Seq(Kept) /\ Len(room) < MaxBuilt /\ ToSet(room) \subseteq ToSet(entries)
        /\ room = entries \/ \A e \in ToSet(room) : Alive(e.key.gen)
    BY <1>5, ForgotMakesRoom
  <2>3. new \in Kept /\ new.key = own
    BY <1>1 DEF Kept
  <2> HIDE DEF room, new
  <2>4. /\ more \in Seq(Kept) /\ Len(more) = Len(room) + 1 /\ Len(room) \in Nat
        /\ more[Len(room) + 1] = new /\ \A a \in 1 .. Len(room) : more[a] = room[a]
    BY <2>2, <2>3
  <2>5. ToSet(more) = ToSet(room) \cup {new}
    <3>1. DOMAIN more = 1 .. Len(room) + 1 /\ DOMAIN room = 1 .. Len(room)
      BY <2>2, <2>4
    <3>2. \A a \in 1 .. Len(room) + 1 : a = Len(room) + 1 \/ a \in 1 .. Len(room)
      BY <2>4
    <3>3. \A a \in 1 .. Len(room) : a \in 1 .. Len(room) + 1
      BY <2>4
    <3>4. Len(room) + 1 \in 1 .. Len(room) + 1
      BY <2>4
    <3> QED  BY <2>4, <3>1, <3>2, <3>3, <3>4 DEF ToSet
  <2> HIDE DEF more
  <2>6. Cached(more, now, gens)
    <3>1. \A e \in ToSet(more) : Faithful(e.key, now, gens)
      <4>1. \A e \in ToSet(entries) : Faithful(e.key, now, gens)
        BY <1>2 DEF ToSet
      <4> QED  BY <1>1, <2>2, <2>3, <2>5, <4>1
    <3>2. \A a \in 1 .. Len(more) : Faithful(more[a].key, now, gens)
      BY <2>4, <3>1 DEF ToSet
    <3>3. Len(more) <= MaxBuilt
      BY <1>2, <2>2, <2>4
    <3> QED  BY <2>4, <3>2, <3>3 DEF Cached
  <2>7. DeadFirst(built, entries) => DeadFirst(built, more)
    <3>1. CASE room = entries
      BY <1>1, <2>3, <2>5, <3>1 DEF DeadFirst
    <3>2. CASE \A e \in ToSet(room) : Alive(e.key.gen)
      BY <1>1, <2>3, <2>5, <3>2 DEF DeadFirst
    <3> QED  BY <2>2, <3>1, <3>2
  <2> QED  BY <1>1, <2>1, <2>6, <2>7
<1> QED  BY <1>3, <1>4, <1>5

\* SetToSeq lists every element.
LEMMA SetToSeqLists ==
  ASSUME NEW S, IsFiniteSet(S)
  PROVE  /\ SetToSeq(S) \in Seq(S)
         /\ \A x \in S : \E n \in 1 .. Len(SetToSeq(S)) : SetToSeq(S)[n] = x
<1> DEFINE N == Cardinality(S)
           Q(f) == f \in [1 .. N -> S] /\ IsInjective(f)
<1>1. N \in Nat /\ ExistsBijection(1 .. N, S)
  BY FS_CardinalityType
<1>2. PICK f \in [1 .. N -> S] : IsInjective(f)
  BY <1>1 DEF ExistsBijection, Bijection, Injection
<1>3. SetToSeq(S) = CHOOSE g \in [1 .. N -> S] : IsInjective(g)
  BY DEF SetToSeq
<1>4. SetToSeq(S) \in [1 .. N -> S] /\ IsInjective(SetToSeq(S))
  BY <1>2, <1>3
<1>5. SetToSeq(S) \in Injection(1 .. N, S)
  BY <1>4 DEF Injection
<1>6. IsFiniteSet(1 .. N) /\ Cardinality(1 .. N) = N
  BY <1>1, FS_Interval
<1>7. SetToSeq(S) \in Surjection(1 .. N, S)
  BY <1>5, <1>6, FS_Injection
<1>8. \A x \in S : \E n \in 1 .. N : SetToSeq(S)[n] = x
  BY <1>7 DEF Surjection
<1>9. SetToSeq(S) \in Seq(S) /\ Len(SetToSeq(S)) = N
  BY <1>1, <1>4
<1> QED  BY <1>8, <1>9

\* Pack by pack, the cache stays what it is.
LEMMA AlongKeeps ==
  ASSUME Weights, Cached(built, now, gens), NEW order \in Seq(Slots)
  PROVE  \A n \in 0 .. Len(order) :
           Cached(CacheAlong(order)[n], now, gens) /\ DeadFirst(built, CacheAlong(order)[n])
<1> DEFINE N == Len(order)
           Next1(q, n) == Remembered(q, order[n]).entries
           V == {q \in Seq(Kept) : Cached(q, now, gens) /\ DeadFirst(built, q)}
           step == [p \in V \X (1 .. N) |-> Next1(p[1], p[2])]
           after == CHOOSE f : f = [n \in 0 .. N |-> IF n = 0 THEN built ELSE Next1(f[n - 1], n)]
<1>1. N \in Nat /\ (\A n \in 1 .. N : order[n] \in Slots)
  OBVIOUS
<1>2. CacheAlong(order) = after
  BY DEF CacheAlong
<1>3. built \in V
  BY DEF Cached, DeadFirst
<1>4. \A q \in V, n \in 1 .. N : Next1(q, n) \in V
  BY <1>1, RememberedKeeps DEF Cached
<1> HIDE DEF Next1, V, N
<1>5. step \in [V \X (1 .. N) -> V]
  BY <1>4
<1>6. PICK f \in [0 .. N -> V] : Chained(f, built, step, N)
  <2> HIDE DEF step
  <2> QED  BY <1>1, <1>3, <1>5, Chain
<1>7. f = [n \in 0 .. N |-> IF n = 0 THEN built ELSE Next1(f[n - 1], n)]
  <2>1. ASSUME NEW n \in 0 .. N, n # 0
        PROVE  f[n] = Next1(f[n - 1], n)
    <3>1. f[n - 1] \in V /\ n \in 1 .. N
      BY <1>1, <2>1
    <3>2. <<f[n - 1], n>> \in V \X (1 .. N)
      BY <3>1
    <3> QED  BY <1>6, <3>1, <3>2 DEF Chained
  <2>2. DOMAIN f = 0 .. N /\ f = [n \in 0 .. N |-> f[n]]
    OBVIOUS
  <2> HIDE DEF step
  <2>3. f[0] = built
    BY <1>6 DEF Chained
  <2> QED  BY <2>1, <2>2, <2>3
<1>8. after = [n \in 0 .. N |-> IF n = 0 THEN built ELSE Next1(after[n - 1], n)]
  BY <1>7
<1> HIDE DEF after
<1> DEFINE T == {n \in 0 .. N : after[n] \in V}
<1>9. 0 \in T
  BY <1>1, <1>3, <1>8
<1>10. ASSUME NEW n \in 0 .. N - 1, n \in T
       PROVE  n + 1 \in T
  <2>1. n + 1 \in 0 .. N /\ n + 1 # 0 /\ (n + 1) - 1 = n /\ n + 1 \in 1 .. N
    BY <1>1
  <2>2. after[n + 1] = Next1(after[n], n + 1)
    BY <1>8, <2>1
  <2> QED  BY <1>4, <1>10, <2>1, <2>2
<1> HIDE DEF T
<1>11. \A n \in 0 .. N : n \in T
  BY <1>1, <1>9, <1>10, InductTo, Zenon
<1> QED  BY <1>2, <1>11 DEF T, V, N

\* A build's packs are of the weights at hand, and so are its keys.
LEMMA BuildKeeps ==
  ASSUME CacheInv, NEW slots \in SUBSET Slots, Build(slots), UNCHANGED <<now, gens>>
  PROVE  /\ CacheInv'
         /\ \A s \in DOMAIN ran' : ran'[s].gen = now[s].gen
         /\ DeadFirst(built, built')
<1> DEFINE order == SetToSeq(slots)
           after == CacheAlong(order)
           At(s) == CHOOSE n \in DOMAIN order : order[n] = s
<1>1. Weights /\ Tapes /\ Cached(built, now, gens) /\ now' = now /\ gens' = gens
  BY DEF CacheInv
<1>2. Weights'
  BY <1>1 DEF Weights
<1>3. CASE Retire
  <2>1. fusedKeys' = <<>> /\ ran' = <<>> /\ built' = built /\ DOMAIN ran' = {}
    BY <1>3 DEF Retire
  <2>2. Tapes'
    BY <2>1 DEF Tapes
  <2>3. Cached(built, now, gens)'
    BY <1>1, <2>1
  <2> QED  BY <1>2, <2>1, <2>2, <2>3 DEF CacheInv, DeadFirst
<1>4. CASE /\ slots # {}
           /\ fusedKeys' = [s \in slots |-> Key(now[s])]
           /\ ran' = [s \in slots |-> Remembered(after[At(s) - 1], s).pack]
           /\ built' = after[Len(order)]
  <2>1. order \in Seq(Slots) /\ \A s \in slots : \E n \in 1 .. Len(order) : order[n] = s
    <3>1. IsFiniteSet(slots)
      BY TapeCacheAssumption, FS_Subset DEF TapeCacheAssumption
    <3>2. order \in Seq(slots) /\ \A s \in slots : \E n \in 1 .. Len(order) : order[n] = s
      BY <3>1, SetToSeqLists
    <3> HIDE DEF order
    <3> QED  BY <3>2
  <2> HIDE DEF order
  <2>2. \A n \in 0 .. Len(order) : Cached(after[n], now, gens) /\ DeadFirst(built, after[n])
    BY <1>1, <2>1, AlongKeeps
  <2> HIDE DEF after
  <2>3. Len(order) \in 0 .. Len(order) /\ DOMAIN order = 1 .. Len(order)
    BY <2>1
  <2>4. Cached(built, now, gens)' /\ DeadFirst(built, built')
    BY <1>1, <1>4, <2>2, <2>3
  <2>5. ASSUME NEW s \in slots
        PROVE  ran'[s].gen = now[s].gen
    <3>1. At(s) \in 1 .. Len(order)
      BY <2>1, <2>3
    <3> HIDE DEF At
    <3>2. At(s) - 1 \in 0 .. Len(order)
      BY <2>1, <3>1
    <3>3. Remembered(after[At(s) - 1], s).pack.gen = now[s].gen
      BY <1>1, <2>2, <3>2, RememberedKeeps
    <3> QED  BY <1>4, <3>3
  <2>6. \A s \in slots : Faithful(fusedKeys'[s], now', gens') /\ fusedKeys'[s].gen = now[s].gen
    BY <1>1, <1>4, OwnKey
  <2>7. DOMAIN fusedKeys' = slots /\ DOMAIN ran' = slots
    BY <1>4
  <2>8. Tapes'
    BY <2>5, <2>6, <2>7 DEF Tapes
  <2> QED  BY <1>2, <2>4, <2>5, <2>7, <2>8 DEF CacheInv
<1> QED  BY <1>3, <1>4 DEF Build

\* The weights differ, and nothing was packed yet.
LEMMA CacheBegins ==
  CacheInit => CacheInv /\ executions \in Nat
<1> SUFFICES ASSUME CacheInit PROVE CacheInv /\ executions \in Nat
  OBVIOUS
<1> DEFINE N == Cardinality(Slots)
           place == CHOOSE f \in [Slots -> 1 .. N] : \A s, t \in Slots : s # t => f[s] # f[t]
<1>1. IsFiniteSet(Slots) /\ N \in Nat /\ 1 .. N \subseteq Ids \cap Raws /\ MaxBuilt \in Nat
  BY TapeCacheAssumption, FS_CardinalityType DEF TapeCacheAssumption
<1>2. \E f \in [Slots -> 1 .. N] : \A s, t \in Slots : s # t => f[s] # f[t]
  <2>1. Cardinality(1 .. N) = N /\ IsFiniteSet(1 .. N)
    BY <1>1, FS_Interval
  <2>2. ExistsBijection(Slots, 1 .. N)
    BY <1>1, <2>1, FS_SameCardinalityBij
  <2>3. PICK f \in [Slots -> 1 .. N] : IsInjective(f)
    BY <2>2 DEF ExistsBijection, Bijection, Injection
  <2>4. \A s, t \in Slots : s # t => f[s] # f[t]
    BY <2>3 DEF IsInjective
  <2> QED  BY <2>4
<1>3. place \in [Slots -> 1 .. N] /\ \A s, t \in Slots : s # t => place[s] # place[t]
  BY <1>2
<1>4. /\ now = [s \in Slots |-> [id |-> place[s], gen |-> place[s], raw |-> place[s], value |-> 0]]
      /\ gens = N /\ fusedKeys = <<>> /\ ran = <<>> /\ built = <<>> /\ executions = 0
  BY DEF CacheInit
<1> HIDE DEF place, N
<1>5. ASSUME NEW s \in Slots
      PROVE  /\ now[s] \in Weight /\ now[s].gen = place[s] /\ now[s].raw = place[s]
             /\ place[s] <= gens
  <2>1. place[s] \in 1 .. N /\ place[s] \in Ids /\ place[s] \in Raws
    BY <1>1, <1>3
  <2> QED  BY <1>1, <1>4, <2>1 DEF Weight
<1>6. now \in [Slots -> Weight]
  BY <1>4, <1>5
<1>7. Weights
  BY <1>1, <1>3, <1>4, <1>5, <1>6 DEF Weights
<1>8. Tapes /\ Cached(built, now, gens)
  BY <1>1, <1>4 DEF Tapes, Cached
<1> QED  BY <1>4, <1>7, <1>8 DEF CacheInv

\* New weights leave every key faithful: a generation is never handed out
\* twice, and a Data that stays is not moved.
LEMMA KeysStay ==
  ASSUME NEW k, Faithful(k, now, gens), gens \in Nat, gens' = gens + 1,
         NEW s \in Slots, now \in [Slots -> Weight], now' \in [Slots -> Weight],
         \A t \in Slots \ {s} : now'[t] = now[t],
         now'[s].gen = gens' \/ (now'[s].gen = now[s].gen /\ now'[s].raw = now[s].raw)
  PROVE  Faithful(k, now', gens')
<1>1. k.gen \in Nat /\ k.gen <= gens
  BY DEF Faithful, Weight
<1>2. k.gen <= gens' /\ k.gen # gens'
  BY <1>1
<1>3. \A t \in Slots : now'[t].gen = k.gen => now'[t].raw = k.raw
  BY <1>2 DEF Faithful
<1> QED  BY <1>2, <1>3 DEF Faithful

\* The embedder's steps.
LEMMA WeightsChange ==
  ASSUME CacheInv, NEW s \in Slots, Replace(s) \/ Overwrite(s)
  PROVE  CacheInv' /\ built' = built /\ executions' = executions
<1>1. Weights /\ Tapes /\ Cached(built, now, gens)
  BY DEF CacheInv
<1>2. gens \in Nat /\ gens' = gens + 1 /\ UNCHANGED <<fusion, executions>> /\ now[s] \in Weight
  BY <1>1 DEF Replace, Overwrite, Weights
<1>3. fusedKeys' = fusedKeys /\ ran' = ran /\ built' = built /\ executions' = executions
  BY <1>2 DEF fusion
<1>4. PICK w \in Weight :
        /\ now' = [now EXCEPT ![s] = w]
        /\ \/ w.gen = gens' /\ \A t \in Slots \ {s} : now[t].raw # w.raw
           \/ w.gen = now[s].gen /\ w.raw = now[s].raw
  <2>1. CASE Replace(s)
    <3>1. PICK id \in Ids \ {now[t].id : t \in Slots \ {s}}, raw \in Raws \ {now[t].raw : t \in Slots \ {s}} :
            now' = [now EXCEPT ![s] = [id |-> id, gen |-> gens + 1, raw |-> raw, value |-> gens + 1]]
      BY <2>1 DEF Replace
    <3> DEFINE w == [id |-> id, gen |-> gens + 1, raw |-> raw, value |-> gens + 1]
    <3>2. w \in Weight /\ w.gen = gens' /\ w.raw = raw
      BY <1>2 DEF Weight
    <3>3. \A t \in Slots \ {s} : now[t].raw # raw
      OBVIOUS
    <3>4. now' = [now EXCEPT ![s] = w]
      BY <3>1
    <3> HIDE DEF w
    <3> QED  BY <3>2, <3>3, <3>4
  <2>2. CASE Overwrite(s)
    <3>1. PICK id \in Ids \ {now[t].id : t \in Slots} :
            now' = [now EXCEPT ![s].id = id, ![s].value = gens + 1]
      BY <2>2 DEF Overwrite
    <3> DEFINE w == [now[s] EXCEPT !.id = id, !.value = gens + 1]
    <3>2. w \in Weight /\ w.gen = now[s].gen /\ w.raw = now[s].raw
      <4>1. PICK v \in [id : Ids, gen : Nat, raw : Raws, value : Nat] : v = now[s]
        BY <1>2 DEF Weight
      <4>2. id \in Ids /\ gens + 1 \in Nat
        BY <1>2
      <4>3. [v EXCEPT !.id = id, !.value = gens + 1] \in [id : Ids, gen : Nat, raw : Raws, value : Nat]
        BY <4>2
      <4>4. w = [v EXCEPT !.id = id, !.value = gens + 1]
        BY <4>1
      <4> QED  BY <4>1, <4>3, <4>4 DEF Weight
    <3>3. now' = [now EXCEPT ![s] = w]
      BY <1>1, <3>1 DEF Weights
    <3> HIDE DEF w
    <3> QED  BY <3>2, <3>3
  <2> QED  BY <2>1, <2>2
<1>5. /\ now \in [Slots -> Weight] /\ now' \in [Slots -> Weight] /\ now'[s] = w
      /\ \A t \in Slots \ {s} : now'[t] = now[t]
  BY <1>1, <1>4 DEF Weights
<1>6. now'[s].gen = gens' \/ (now'[s].gen = now[s].gen /\ now'[s].raw = now[s].raw)
  BY <1>4, <1>5
<1>7. \A k : Faithful(k, now, gens) => Faithful(k, now', gens')
  BY <1>2, <1>5, <1>6, KeysStay
<1>8. Weights'
  <2>1. \A t \in Slots : now[t].gen \in Nat /\ now[t].gen <= gens
    BY <1>1 DEF Weights, Weight
  <2>2. \A t \in Slots : now'[t].gen <= gens'
    BY <1>2, <1>4, <1>5, <2>1
  <2>3. \A t \in Slots \ {s} : now'[t].gen # now'[s].gen /\ now'[t].raw # now'[s].raw
    <3> SUFFICES ASSUME NEW t \in Slots \ {s}
                 PROVE  now[t].gen # w.gen /\ now[t].raw # w.raw
      BY <1>5
    <3>1. CASE w.gen = gens' /\ \A u \in Slots \ {s} : now[u].raw # w.raw
      <4>1. now[t].gen # gens'
        BY <1>2, <2>1
      <4> QED  BY <3>1, <4>1
    <3>2. CASE w.gen = now[s].gen /\ w.raw = now[s].raw
      BY <1>1, <3>2 DEF Weights
    <3> QED  BY <1>4, <3>1, <3>2
  <2>4. \A t, u \in Slots : t # u => now'[t].gen # now'[u].gen /\ now'[t].raw # now'[u].raw
    <3> SUFFICES ASSUME NEW t \in Slots, NEW u \in Slots, t # u
                 PROVE  now'[t].gen # now'[u].gen /\ now'[t].raw # now'[u].raw
      OBVIOUS
    <3>1. CASE t # s /\ u # s
      <4>1. now'[t] = now[t] /\ now'[u] = now[u]
        BY <1>5, <3>1
      <4> QED  BY <1>1, <4>1 DEF Weights
    <3>2. CASE t = s \/ u = s
      BY <2>3, <3>2
    <3> QED  BY <3>1, <3>2
  <2>5. gens' \in Nat
    BY <1>2
  <2> QED  BY <1>5, <2>2, <2>4, <2>5 DEF Weights
<1>9. Tapes'
  BY <1>1, <1>3, <1>7 DEF Tapes
<1>10. Cached(built', now', gens')
  BY <1>1, <1>3, <1>7 DEF Cached
<1> QED  BY <1>3, <1>8, <1>9, <1>10 DEF CacheInv

\* An execution: the tape that is kept matches, or a tape is built.
LEMMA ExecuteKeeps ==
  ASSUME CacheInv, Execute
  PROVE  /\ CacheInv'
         /\ \A s \in DOMAIN ran' : ran'[s].gen = now[s].gen
         /\ DeadFirst(built, built')
<1> DEFINE missed == {s \in DOMAIN fusedKeys : ~ Matches(fusedKeys[s], now[s])}
<1>0. UNCHANGED <<now, gens>> /\ Weights /\ Tapes /\ Cached(built, now, gens)
  BY DEF Execute, CacheInv
<1>1. ProjOnly \subseteq Slots
  BY TapeCacheAssumption DEF TapeCacheAssumption
<1>2. Weights'
  BY <1>0 DEF Weights
<1>3. CASE \E slots \in SUBSET Slots : Build(slots)
  BY <1>0, <1>3, BuildKeeps
<1>4. CASE fusedKeys' = <<>> /\ ran' = <<>> /\ built' = built
  <2>1. Tapes' /\ DOMAIN ran' = {}
    BY <1>4 DEF Tapes
  <2>2. Cached(built', now', gens')
    BY <1>0, <1>4
  <2> QED  BY <1>2, <1>4, <2>1, <2>2 DEF CacheInv, DeadFirst
<1>5. CASE missed = {} /\ UNCHANGED fusion
  <2>1. fusedKeys' = fusedKeys /\ ran' = ran /\ built' = built
    BY <1>5 DEF fusion
  <2>2. CacheInv'
    BY <1>0, <1>2, <2>1 DEF CacheInv, Tapes
  <2>3. ASSUME NEW s \in DOMAIN ran
        PROVE  ran[s].gen = now[s].gen
    <3>1. s \in Slots /\ s \in DOMAIN fusedKeys /\ Matches(fusedKeys[s], now[s])
      BY <1>0, <1>5 DEF Tapes
    <3>2. fusedKeys[s].gen = now[s].gen
      BY <1>0, <3>1, MatchesSame DEF Tapes
    <3> QED  BY <1>0, <3>1, <3>2 DEF Tapes
  <2> QED  BY <2>1, <2>2, <2>3 DEF DeadFirst
<1> HIDE DEF missed
<1>6. \/ \E slots \in SUBSET Slots : Build(slots)
      \/ fusedKeys' = <<>> /\ ran' = <<>> /\ built' = built
      \/ missed = {} /\ UNCHANGED fusion
  <2>1. CASE fusedKeys = <<>>
    BY <2>1 DEF Execute
  <2>2. CASE fusedKeys # <<>> /\ missed = {}
    BY <2>2 DEF Execute, missed
  <2>3. CASE fusedKeys # <<>> /\ missed # {} /\ missed \subseteq ProjOnly /\ ~ projOff
    <3>1. Build(IF projOff' THEN Slots \ ProjOnly ELSE Slots)
      BY <2>3 DEF Execute, missed
    <3>2. (IF projOff' THEN Slots \ ProjOnly ELSE Slots) \in SUBSET Slots
      OBVIOUS
    <3> QED  BY <3>1, <3>2
  <2>4. CASE fusedKeys # <<>> /\ missed # {} /\ ~ (missed \subseteq ProjOnly /\ ~ projOff)
    <3>1. IF repacks' > MaxRepacks THEN Retire
          ELSE Build(IF projOff THEN Slots \ ProjOnly ELSE Slots)
      BY <2>4 DEF Execute, missed
    <3>2. (IF projOff THEN Slots \ ProjOnly ELSE Slots) \in SUBSET Slots
      OBVIOUS
    <3> QED  BY <3>1, <3>2 DEF Retire
  <2> QED  BY <2>1, <2>2, <2>3, <2>4
<1> QED  BY <1>3, <1>4, <1>5, <1>6

LEMMA CacheStep ==
  ASSUME CacheInv, executions \in Nat, [CacheNext]_cacheVars
  PROVE  /\ CacheInv' /\ executions' \in Nat /\ DeadFirst(built, built')
         /\ executions' > executions => \A s \in DOMAIN ran' : ran'[s].gen = now[s].gen
<1>1. CASE Execute
  <2>1. executions' = executions + 1
    BY <1>1 DEF Execute
  <2> QED  BY <1>1, <2>1, ExecuteKeeps
<1>2. CASE \E s \in Slots : Replace(s) \/ Overwrite(s)
  <2>1. CacheInv' /\ built' = built /\ executions' = executions
    BY <1>2, WeightsChange
  <2> QED  BY <2>1 DEF DeadFirst
<1>3. CASE UNCHANGED cacheVars
  <2>1. /\ now' = now /\ gens' = gens /\ fusedKeys' = fusedKeys /\ ran' = ran /\ built' = built
        /\ executions' = executions
    BY <1>3 DEF cacheVars, fusion
  <2>2. CacheInv'
    BY <2>1 DEF CacheInv, Weights, Tapes
  <2> QED  BY <2>1, <2>2 DEF DeadFirst
<1> QED  BY <1>1, <1>2, <1>3 DEF CacheNext, CacheRest

\* A fused tape runs on packs of the buffers the call hands over, whatever
\* came to live at their addresses in between (Tape's weak handles,
\* LeafMatches), for any weights, addresses and limits.
THEOREM PacksAreCurrent == CacheSpec => PacksAreOfTheirBuffers
<1> DEFINE Inv == CacheInv /\ executions \in Nat
<1>1. CacheInit => Inv
  BY CacheBegins
<1>2. Inv /\ [CacheNext]_cacheVars => Inv'
  BY CacheStep
<1>3. Inv /\ [CacheNext]_cacheVars =>
        [executions' > executions => \A s \in DOMAIN ran' : ran'[s].gen = now[s].gen]_cacheVars
  BY CacheStep
<1> QED  BY <1>1, <1>2, <1>3, PTL DEF CacheSpec, PacksAreOfTheirBuffers

\* The cache of packs keeps to its size, and a living weight's pack makes
\* room only when no dead one is left (RememberBuild).
THEOREM RoomFromTheDead == CacheSpec => DeadGoFirst
<1> DEFINE Inv == CacheInv /\ executions \in Nat
           Step == /\ Len(built') <= MaxBuilt
                   /\ (\E e \in ToSet(built) \ ToSet(built') : Alive(e.key.gen)) =>
                        \A e \in ToSet(built') : Alive(e.key.gen)
<1>1. CacheInit => Inv
  BY CacheBegins
<1>2. Inv /\ [CacheNext]_cacheVars => Inv'
  BY CacheStep
<1>3. Inv /\ [CacheNext]_cacheVars => [Step]_cacheVars
  <2> SUFFICES ASSUME Inv, [CacheNext]_cacheVars PROVE Step
    OBVIOUS
  <2>1. CacheInv' /\ DeadFirst(built, built')
    BY CacheStep
  <2>2. Len(built') <= MaxBuilt
    BY <2>1 DEF CacheInv, Cached
  <2> QED  BY <2>1, <2>2 DEF DeadFirst
<1> QED  BY <1>1, <1>2, <1>3, PTL DEF CacheSpec, DeadGoFirst

---------------------------------------------------------------------------
(* Repacking.  A fused tape was paid for by the first call or by a repack  *)
(* of one kind; full repacks past MaxRepacks build nothing, and projection *)
(* repacks end one past MaxProjRepacks, with projOff.                      *)
Paid ==
  /\ builds \in Nat /\ repacks \in Nat /\ projRepacks \in Nat
  /\ builds <= 1 + repacks + projRepacks
  /\ builds <= 1 + MaxRepacks + projRepacks
  /\ projRepacks <= MaxProjRepacks + 1
FirstIsFree == fusedKeys = <<>> /\ ~ fuseDone => builds = 0
ProjEnds == projOff \/ projRepacks <= MaxProjRepacks
RepackInv == Paid /\ FirstIsFree /\ ProjEnds

\* A build makes one tape or retires the fusion.
LEMMA BuildOutcome ==
  ASSUME NEW slots, Build(slots)
  PROVE  /\ builds' = builds + 1 \/ builds' = builds
         /\ fusedKeys' # <<>> \/ fuseDone'
<1>1. CASE Retire
  BY <1>1 DEF Retire
<1>2. CASE /\ slots # {}
           /\ fusedKeys' = [s \in slots |-> Key(now[s])]
           /\ builds' = builds + 1
  <2>1. DOMAIN fusedKeys' = slots
    BY <1>2
  <2> QED  BY <1>2, <2>1
<1> QED  BY <1>1, <1>2 DEF Build

\* A cache starts with nothing paid for.
LEMMA RepackBegins ==
  CacheInit => RepackInv
<1> SUFFICES ASSUME CacheInit PROVE RepackInv
  OBVIOUS
<1>1. builds = 0 /\ repacks = 0 /\ projRepacks = 0
  BY DEF CacheInit
<1> QED  BY <1>1, TapeCacheAssumption DEF RepackInv, Paid, FirstIsFree, ProjEnds, TapeCacheAssumption

\* A miss on projections alone: one repack more of theirs, and the last of
\* them switches projections off.
LEMMA ProjRepackStep ==
  ASSUME RepackInv, ~ projOff, fusedKeys # <<>>,
         projRepacks' = projRepacks + 1, repacks' = repacks,
         projOff' = (projRepacks' > MaxProjRepacks),
         NEW slots, Build(slots)
  PROVE  RepackInv'
<1>0. MaxRepacks \in Nat /\ MaxProjRepacks \in Nat
  BY TapeCacheAssumption DEF TapeCacheAssumption
<1>1. projRepacks <= MaxProjRepacks
  BY DEF RepackInv, ProjEnds
<1>2. Paid'
  BY <1>0, <1>1, BuildOutcome DEF RepackInv, Paid
<1>3. FirstIsFree'
  BY BuildOutcome, Zenon DEF FirstIsFree
<1>4. ProjEnds'
  <2>1. projRepacks' \in Int
    BY DEF RepackInv, Paid
  <2>2. projRepacks' > MaxProjRepacks \/ projRepacks' <= MaxProjRepacks
    BY <1>0, <2>1
  <2> QED  BY <2>2, Zenon DEF ProjEnds
<1> QED  BY <1>2, <1>3, <1>4 DEF RepackInv

\* Any other miss: one full repack more, until they are used up.
LEMMA FullRepackStep ==
  ASSUME RepackInv, fusedKeys # <<>>,
         repacks' = repacks + 1, UNCHANGED <<projRepacks, projOff>>,
         NEW slots, IF repacks' > MaxRepacks THEN Retire ELSE Build(slots)
  PROVE  RepackInv'
<1>0. MaxRepacks \in Nat /\ MaxProjRepacks \in Nat
  BY TapeCacheAssumption DEF TapeCacheAssumption
<1>1. ProjEnds'
  BY DEF RepackInv, ProjEnds
<1>2. CASE repacks' > MaxRepacks
  <2>1. builds' = builds /\ fuseDone'
    BY <1>2 DEF Retire
  <2>2. Paid'
    BY <1>0, <2>1 DEF RepackInv, Paid
  <2> QED  BY <1>1, <2>1, <2>2, Zenon DEF RepackInv, FirstIsFree
<1>3. CASE ~ (repacks' > MaxRepacks)
  <2>1. Paid'
    BY <1>0, <1>3, BuildOutcome DEF RepackInv, Paid
  <2>2. FirstIsFree'
    BY <1>3, BuildOutcome, Zenon DEF FirstIsFree
  <2> QED  BY <1>1, <2>1, <2>2 DEF RepackInv
<1> QED  BY <1>2, <1>3

LEMMA RepackStep ==
  ASSUME RepackInv, [CacheNext]_cacheVars
  PROVE  RepackInv'
<1>0. MaxRepacks \in Nat /\ MaxProjRepacks \in Nat
  BY TapeCacheAssumption DEF TapeCacheAssumption
<1>1. CASE UNCHANGED fusion
  BY <1>1 DEF RepackInv, Paid, FirstIsFree, ProjEnds, fusion
<1>2. ASSUME Execute PROVE RepackInv'
  <2> DEFINE missed == {s \in DOMAIN fusedKeys : ~ Matches(fusedKeys[s], now[s])}
  <2>1. CASE fusedKeys = <<>> /\ fuseDone
    <3>1. UNCHANGED <<builds, repacks, projRepacks, projOff, fusedKeys, fuseDone>>
      BY <1>2, <2>1 DEF Execute
    <3> QED  BY <3>1 DEF RepackInv, Paid, FirstIsFree, ProjEnds
  <2>2. CASE fusedKeys = <<>> /\ ~ fuseDone
    <3>1. Build(Slots) /\ UNCHANGED <<repacks, projRepacks, projOff>>
      BY <1>2, <2>2 DEF Execute
    <3>2. builds = 0
      BY <2>2 DEF RepackInv, FirstIsFree
    <3>3. Paid'
      BY <1>0, <3>1, <3>2, BuildOutcome DEF RepackInv, Paid
    <3>4. FirstIsFree'
      BY <3>1, BuildOutcome, Zenon DEF FirstIsFree
    <3> QED  BY <3>1, <3>3, <3>4 DEF RepackInv, ProjEnds
  <2>3. CASE fusedKeys # <<>> /\ missed = {}
    <3>1. UNCHANGED fusion
      BY <1>2, <2>3 DEF Execute
    <3> QED  BY <1>1, <3>1
  <2>4. CASE fusedKeys # <<>> /\ missed # {} /\ missed \subseteq ProjOnly /\ ~ projOff
    <3>1. /\ projRepacks' = projRepacks + 1
          /\ projOff' = (projRepacks' > MaxProjRepacks)
          /\ Build(IF projOff' THEN Slots \ ProjOnly ELSE Slots)
          /\ repacks' = repacks
      BY <1>2, <2>4 DEF Execute
    <3> QED  BY <2>4, <3>1, ProjRepackStep
  <2>5. CASE fusedKeys # <<>> /\ missed # {} /\ ~ (missed \subseteq ProjOnly /\ ~ projOff)
    <3>1. /\ repacks' = repacks + 1
          /\ UNCHANGED <<projRepacks, projOff>>
          /\ IF repacks' > MaxRepacks THEN Retire
             ELSE Build(IF projOff THEN Slots \ ProjOnly ELSE Slots)
      BY <1>2, <2>5 DEF Execute
    <3> QED  BY <2>5, <3>1, FullRepackStep
  <2> QED  BY <2>1, <2>2, <2>3, <2>4, <2>5
<1>3. CASE \E s \in Slots : Replace(s) \/ Overwrite(s)
  BY <1>1, <1>3 DEF Replace, Overwrite
<1>4. CASE CacheRest \/ UNCHANGED cacheVars
  BY <1>1, <1>4 DEF CacheRest, cacheVars
<1> QED  BY <1>2, <1>3, <1>4 DEF CacheNext

\* Weights that change at every call are repacked a bounded number of times
\* (Tape's kMaxRepacks and its projections' own count), for any weights,
\* addresses and limits.
THEOREM RepackingEnds == CacheSpec => []RepacksEnd
<1>1. RepackInv => RepacksEnd
  BY TapeCacheAssumption DEF TapeCacheAssumption, RepackInv, Paid, RepacksEnd
<1> QED  BY <1>1, RepackBegins, RepackStep, PTL DEF CacheSpec

---------------------------------------------------------------------------
(* Specialized loops.  What a slot holds, and what the table's walk says of *)
(* it, are each made of the slots before it.                               *)
LastSlot(b) == b.inputs + Len(b.ops)
Args(b, f, s) == [j \in DOMAIN EntryOf(b, s).ins |-> f[EntryOf(b, s).ins[j]]]
ValueIn(b, env, f, s) ==
  IF s <= b.inputs \/ ~ Foldable(EntryOf(b, s)) THEN env[s] ELSE Computed(EntryOf(b, s), Args(b, f, s))
StaticIn(b, pos, fails, f, s) ==
  IF s <= b.inputs THEN IF s = b.counter THEN <<pos>> ELSE None
  ELSE IF /\ Foldable(EntryOf(b, s)) /\ EntryOf(b, s).bytes <= SpecFoldBytes /\ EntryOf(b, s).index /\ s \notin fails
          /\ \A j \in DOMAIN EntryOf(b, s).ins : f[EntryOf(b, s).ins[j]] # None
       THEN <<Computed(EntryOf(b, s), [j \in DOMAIN EntryOf(b, s).ins |-> f[EntryOf(b, s).ins[j]][1]])>> ELSE None
AreValues(b, env, f) == f = [s \in SlotsOf(b) |-> ValueIn(b, env, f, s)]
AreStatic(b, pos, fails, f) == f = [s \in SlotsOf(b) |-> StaticIn(b, pos, fails, f, s)]

Fits(b, env) == env \in [FreeSlots(b) -> Int]

LEMMA EntryIs ==
  ASSUME NEW b, WellFormed(b), NEW s \in SlotsOf(b), s > b.inputs
  PROVE  /\ EntryOf(b, s) \in SpecEntries
         /\ \A j \in DOMAIN EntryOf(b, s).ins : EntryOf(b, s).ins[j] \in 1 .. s - 1
         /\ EntryOf(b, s).op = "add" => Len(EntryOf(b, s).ins) = 2
         /\ EntryOf(b, s).op = "narrow" => Len(EntryOf(b, s).ins) = 1
         /\ EntryOf(b, s).op = "window" => Len(EntryOf(b, s).ins) = Len(EntryOf(b, s).bounds) /\ EntryOf(b, s).bounds # <<>>
<1>1. b.inputs \in Nat /\ Len(b.ops) \in Nat
  BY DEF WellFormed
<1>2. s \in b.inputs + 1 .. b.inputs + Len(b.ops) /\ s - b.inputs \in 1 .. Len(b.ops)
  BY <1>1 DEF SlotsOf
<1>3. b.ops[s - b.inputs] \in SpecEntries
  BY <1>2 DEF WellFormed
<1> QED
  BY <1>2, <1>3 DEF WellFormed, EntryOf

LEMMA Int32Is ==
  ASSUME NEW v \in Int
  PROVE  Int32(v) \in Int
BY LoopSpecAssumption DEF Int32

LEMMA ComputedIs ==
  ASSUME NEW b, WellFormed(b), NEW s \in SlotsOf(b), s > b.inputs, Foldable(EntryOf(b, s)),
         NEW args, args \in [DOMAIN EntryOf(b, s).ins -> Int]
  PROVE  Computed(EntryOf(b, s), args) \in Int
<1> DEFINE e == EntryOf(b, s)
<1>1. /\ e.val \in Int /\ e.ins \in Seq(Nat) /\ e.op \in {"const", "add", "narrow"}
      /\ e.op = "add" => Len(e.ins) = 2
      /\ e.op = "narrow" => Len(e.ins) = 1
  BY EntryIs DEF Foldable, SpecEntries
<1> HIDE DEF e
<1>2. e.op = "add" => args[1] \in Int /\ args[2] \in Int
  BY <1>1 DEF e
<1>3. e.op = "narrow" => args[1] \in Int
  BY <1>1 DEF e
<1>4. e.op = "narrow" => Int32(args[1]) \in Int
  BY <1>3, Int32Is
<1>5. Computed(e, args) \in Int
  BY <1>1, <1>2, <1>4 DEF Computed
<1> QED
  BY <1>5 DEF e

LEMMA ValuesAre ==
  ASSUME NEW b, WellFormed(b), NEW env, Fits(b, env)
  PROVE  AreValues(b, env, ValuesOf(b, env)) /\ ValuesOf(b, env) \in [SlotsOf(b) -> Int]
<1> DEFINE N == LastSlot(b)
           W == [1 .. N -> Int]
           step == [p \in W \X (1 .. N) |-> ValueIn(b, env, p[1], p[2])]
           val == CHOOSE f : AreValues(b, env, f)
<1>1. N \in Nat /\ SlotsOf(b) = 1 .. N /\ b.inputs \in Nat
  BY DEF WellFormed, LastSlot, SlotsOf
<1>2. ValuesOf(b, env) = val
  BY DEF ValuesOf, AreValues, ValueIn, Args
<1>3. \A f \in W, s \in 1 .. N : step[<<f, s>>] = ValueIn(b, env, f, s)
  OBVIOUS
<1>4. ASSUME NEW s \in 1 .. N, NEW f, \A m \in 1 .. s - 1 : f[m] \in Int
      PROVE  ValueIn(b, env, f, s) \in Int
  <2>1. CASE s <= b.inputs \/ ~ Foldable(EntryOf(b, s))
    <3>1. env[s] \in Int
      BY <1>1, <2>1 DEF Fits, FreeSlots
    <3> QED
      BY <2>1, <3>1 DEF ValueIn
  <2>2. CASE ~ (s <= b.inputs \/ ~ Foldable(EntryOf(b, s)))
    <3>1. s > b.inputs /\ Foldable(EntryOf(b, s)) /\ s \in SlotsOf(b)
      BY <1>1, <2>2
    <3>2. Args(b, f, s) \in [DOMAIN EntryOf(b, s).ins -> Int]
      BY <1>4, <3>1, EntryIs DEF Args
    <3>3. Computed(EntryOf(b, s), Args(b, f, s)) \in Int
      BY <3>1, <3>2, ComputedIs
    <3> QED
      BY <2>2, <3>3 DEF ValueIn
  <2> QED
    BY <2>1, <2>2
<1>5. step \in [W \X (1 .. N) -> Int]
  <2>1. ASSUME NEW f \in W, NEW s \in 1 .. N
        PROVE  ValueIn(b, env, f, s) \in Int
    <3>1. \A m \in 1 .. s - 1 : f[m] \in Int
      BY <1>1
    <3> QED
      BY <1>4, <3>1
  <2> QED
    BY <2>1
<1>6. ASSUME NEW f \in W, NEW g \in W, NEW s \in 1 .. N, \A m \in 1 .. s - 1 : f[m] = g[m]
      PROVE  step[<<f, s>>] = step[<<g, s>>]
  <2>1. s > b.inputs => Args(b, f, s) = Args(b, g, s)
    BY <1>1, <1>6, EntryIs DEF Args
  <2>2. ValueIn(b, env, f, s) = ValueIn(b, env, g, s)
    BY <1>1, <2>1 DEF ValueIn
  <2> QED
    BY <1>3, <2>2
<1> HIDE DEF step
<1>7. PICK f : FollowsSteps(f, step, N, Int)
  <2>1. LocalTo(step, N, Int)
    BY <1>6 DEF LocalTo
  <2>2. Steps(step, N, Int)
    BY <1>1, <1>5, <2>1 DEF Steps
  <2> HIDE DEF N
  <2> QED
    BY <2>2, Course, Zenon
<1>8. AreValues(b, env, f)
  <2>1. f \in W /\ f = [s \in SlotsOf(b) |-> f[s]]
    BY <1>1, <1>7 DEF FollowsSteps
  <2>2. \A s \in 1 .. N : f[s] = ValueIn(b, env, f, s)
    BY <1>3, <1>7, <2>1 DEF FollowsSteps
  <2> QED
    BY <1>1, <2>1, <2>2 DEF AreValues
<1>9. AreValues(b, env, val)
  <2> HIDE DEF AreValues
  <2> QED
    BY <1>8
<1> HIDE DEF val
<1> DEFINE T == {s \in 1 .. N : val[s] \in Int}
<1>10. ASSUME NEW s \in 1 .. N, 1 .. s - 1 \subseteq T
       PROVE  s \in T
  <2>1. \A m \in 1 .. s - 1 : val[m] \in Int
    BY <1>10
  <2>2. val[s] = ValueIn(b, env, val, s)
    BY <1>1, <1>9 DEF AreValues
  <2>3. ValueIn(b, env, val, s) \in Int
    BY <1>4, <2>1
  <2> QED
    BY <2>2, <2>3
<1> HIDE DEF T
<1>11. 1 .. N \subseteq T
  <2> HIDE DEF N
  <2> QED
    BY <1>1, <1>10, InductAll
<1>12. val \in [SlotsOf(b) -> Int]
  BY <1>1, <1>9, <1>11 DEF AreValues, T
<1> QED
  BY <1>2, <1>9, <1>12

Known == {None} \cup {<<v>> : v \in Int}
LEMMA KnownIs ==
  ASSUME NEW c \in Known, c # None
  PROVE  c[1] \in Int /\ c = <<c[1]>>
BY DEF Known, None

LEMMA StaticAre ==
  ASSUME NEW b, WellFormed(b), NEW pos \in Int, NEW fails
  PROVE  AreStatic(b, pos, fails, StaticAt(b, pos, fails)) /\ StaticAt(b, pos, fails) \in [SlotsOf(b) -> Known]
<1> DEFINE N == LastSlot(b)
           W == [1 .. N -> Known]
           step == [p \in W \X (1 .. N) |-> StaticIn(b, pos, fails, p[1], p[2])]
           static == CHOOSE f : AreStatic(b, pos, fails, f)
<1>1. N \in Nat /\ SlotsOf(b) = 1 .. N /\ b.inputs \in Nat
  BY DEF WellFormed, LastSlot, SlotsOf
<1>2. StaticAt(b, pos, fails) = static
  BY DEF StaticAt, AreStatic, StaticIn
<1>3. \A f \in W, s \in 1 .. N : step[<<f, s>>] = StaticIn(b, pos, fails, f, s)
  OBVIOUS
<1>4. ASSUME NEW s \in 1 .. N, NEW f, \A m \in 1 .. s - 1 : f[m] \in Known
      PROVE  StaticIn(b, pos, fails, f, s) \in Known
  <2> DEFINE args == [j \in DOMAIN EntryOf(b, s).ins |-> f[EntryOf(b, s).ins[j]][1]]
             good == /\ Foldable(EntryOf(b, s)) /\ EntryOf(b, s).bytes <= SpecFoldBytes /\ EntryOf(b, s).index /\ s \notin fails
                     /\ \A j \in DOMAIN EntryOf(b, s).ins : f[EntryOf(b, s).ins[j]] # None
  <2>1. None \in Known /\ \A v \in Int : <<v>> \in Known
    BY DEF Known
  <2>2. CASE s <= b.inputs \/ ~ good
    <3>1. StaticIn(b, pos, fails, f, s) \in {None, <<pos>>}
      BY <2>2, Zenon DEF StaticIn
    <3> QED
      BY <2>1, <3>1
  <2>3. CASE ~ (s <= b.inputs \/ ~ good)
    <3>1. s > b.inputs /\ Foldable(EntryOf(b, s)) /\ s \in SlotsOf(b)
      BY <1>1, <2>3
    <3>2. \A j \in DOMAIN EntryOf(b, s).ins : f[EntryOf(b, s).ins[j]] \in Known /\ f[EntryOf(b, s).ins[j]] # None
      BY <1>4, <2>3, <3>1, EntryIs
    <3>3. args \in [DOMAIN EntryOf(b, s).ins -> Int]
      BY <3>2, KnownIs
    <3> HIDE DEF args
    <3>4. Computed(EntryOf(b, s), args) \in Int
      BY <3>1, <3>3, ComputedIs
    <3>5. StaticIn(b, pos, fails, f, s) = <<Computed(EntryOf(b, s), args)>>
      BY <2>3 DEF StaticIn, args
    <3> QED
      BY <2>1, <3>4, <3>5
  <2> QED
    BY <2>2, <2>3
<1>5. step \in [W \X (1 .. N) -> Known]
  <2>1. ASSUME NEW f \in W, NEW s \in 1 .. N
        PROVE  StaticIn(b, pos, fails, f, s) \in Known
    <3>1. \A m \in 1 .. s - 1 : f[m] \in Known
      BY <1>1
    <3> QED
      BY <1>4, <3>1
  <2> QED
    BY <2>1
<1>6. ASSUME NEW f \in W, NEW g \in W, NEW s \in 1 .. N, \A m \in 1 .. s - 1 : f[m] = g[m]
      PROVE  step[<<f, s>>] = step[<<g, s>>]
  <2>1. s > b.inputs => \A j \in DOMAIN EntryOf(b, s).ins : f[EntryOf(b, s).ins[j]] = g[EntryOf(b, s).ins[j]]
    BY <1>1, <1>6, EntryIs
  <2>2. StaticIn(b, pos, fails, f, s) = StaticIn(b, pos, fails, g, s)
    <3>1. CASE s <= b.inputs
      BY <3>1, Zenon DEF StaticIn
    <3>2. CASE s > b.inputs
      <4>1. \A j \in DOMAIN EntryOf(b, s).ins : f[EntryOf(b, s).ins[j]] = g[EntryOf(b, s).ins[j]]
        BY <2>1, <3>2
      <4>2. /\ (\A j \in DOMAIN EntryOf(b, s).ins : f[EntryOf(b, s).ins[j]] # None)
                 <=> (\A j \in DOMAIN EntryOf(b, s).ins : g[EntryOf(b, s).ins[j]] # None)
            /\ [j \in DOMAIN EntryOf(b, s).ins |-> f[EntryOf(b, s).ins[j]][1]]
                 = [j \in DOMAIN EntryOf(b, s).ins |-> g[EntryOf(b, s).ins[j]][1]]
        BY <4>1
      <4> QED
        BY <4>2, Zenon DEF StaticIn
    <3> QED
      BY <1>1, <3>1, <3>2
  <2> QED
    BY <1>3, <2>2
<1> HIDE DEF step
<1>7. PICK f : FollowsSteps(f, step, N, Known)
  <2>1. LocalTo(step, N, Known)
    BY <1>6 DEF LocalTo
  <2>2. Steps(step, N, Known)
    BY <1>1, <1>5, <2>1 DEF Steps, Known
  <2> HIDE DEF N
  <2> QED
    BY <2>2, Course, Zenon
<1>8. AreStatic(b, pos, fails, f)
  <2>1. f \in W /\ f = [s \in SlotsOf(b) |-> f[s]]
    BY <1>1, <1>7 DEF FollowsSteps
  <2>2. \A s \in 1 .. N : f[s] = StaticIn(b, pos, fails, f, s)
    BY <1>3, <1>7, <2>1 DEF FollowsSteps
  <2> QED
    BY <1>1, <2>1, <2>2 DEF AreStatic
<1>9. AreStatic(b, pos, fails, static)
  <2> HIDE DEF AreStatic
  <2> QED
    BY <1>8
<1> HIDE DEF static
<1> DEFINE T == {s \in 1 .. N : static[s] \in Known}
<1>10. ASSUME NEW s \in 1 .. N, 1 .. s - 1 \subseteq T
       PROVE  s \in T
  <2>1. \A m \in 1 .. s - 1 : static[m] \in Known
    BY <1>10
  <2>2. static[s] = StaticIn(b, pos, fails, static, s)
    BY <1>1, <1>9 DEF AreStatic
  <2>3. StaticIn(b, pos, fails, static, s) \in Known
    BY <1>4, <2>1
  <2> QED
    BY <2>2, <2>3
<1> HIDE DEF T
<1>11. 1 .. N \subseteq T
  <2> HIDE DEF N
  <2> QED
    BY <1>1, <1>10, InductAll
<1>12. static \in [SlotsOf(b) -> Known]
  BY <1>1, <1>9, <1>11 DEF AreStatic, T
<1> QED
  BY <1>2, <1>9, <1>12

\* What an iteration at `pos` finds in the slots.
FoundAt(b, pos, env) ==
  /\ Fits(b, env) /\ env[b.counter] = pos
  /\ \A s \in DOMAIN b.fixed : env[s] = b.fixed[s]

\* What the walk calls static is what the slot holds, whatever is in the others.
StaticHolds(b, static, val) == \A s \in SlotsOf(b) : static[s] # None => static[s] = <<val[s]>>
LEMMA StaticIsValue ==
  ASSUME NEW b, WellFormed(b), NEW pos \in Int, NEW fails, NEW env, FoundAt(b, pos, env)
  PROVE  StaticHolds(b, StaticAt(b, pos, fails), ValuesOf(b, env))
<1> DEFINE N == LastSlot(b)
           static == StaticAt(b, pos, fails)
           val == ValuesOf(b, env)
           T == {s \in 1 .. N : static[s] # None => static[s] = <<val[s]>>}
<1>1. N \in Nat /\ SlotsOf(b) = 1 .. N /\ b.inputs \in Nat /\ b.counter \in 1 .. b.inputs
  BY DEF WellFormed, LastSlot, SlotsOf
<1>2. \A s \in SlotsOf(b) : static[s] = StaticIn(b, pos, fails, static, s)
  BY StaticAre DEF AreStatic
<1>3. \A s \in SlotsOf(b) : val[s] = ValueIn(b, env, val, s)
  BY ValuesAre DEF AreValues, FoundAt
<1>4. static \in [SlotsOf(b) -> Known] /\ val \in [SlotsOf(b) -> Int]
  BY StaticAre, ValuesAre DEF FoundAt
<1> HIDE DEF static, val
<1>5. ASSUME NEW s \in 1 .. N, 1 .. s - 1 \subseteq T
      PROVE  s \in T
  <2>1. CASE s <= b.inputs
    <3>1. val[s] = env[s]
      BY <1>1, <1>3, <2>1 DEF ValueIn
    <3>2. static[s] # None => s = b.counter /\ static[s] = <<pos>>
      BY <1>1, <1>2, <2>1 DEF StaticIn
    <3> QED
      BY <3>1, <3>2 DEF FoundAt
  <2>2. CASE s > b.inputs /\ static[s] # None
    <3> DEFINE e == EntryOf(b, s)
               sargs == [j \in DOMAIN e.ins |-> static[e.ins[j]][1]]
               vargs == [j \in DOMAIN e.ins |-> val[e.ins[j]]]
    <3>0. s \in SlotsOf(b) /\ ~ (s <= b.inputs)
      BY <1>1, <2>2
    <3>1. /\ Foldable(e) /\ \A j \in DOMAIN e.ins : static[e.ins[j]] # None
          /\ static[s] = <<Computed(e, sargs)>>
      BY <1>2, <2>2, <3>0 DEF StaticIn
    <3>2. \A j \in DOMAIN e.ins : e.ins[j] \in 1 .. s - 1
      BY <3>0, <2>2, EntryIs
    <3>3. ASSUME NEW j \in DOMAIN e.ins PROVE static[e.ins[j]][1] = val[e.ins[j]]
      <4>1. static[e.ins[j]] = <<val[e.ins[j]]>>
        BY <1>5, <3>1, <3>2
      <4> QED
        BY <4>1
    <3>4. sargs = vargs
      BY <3>3
    <3>5. val[s] = Computed(e, vargs)
      BY <1>3, <3>0, <3>1 DEF ValueIn, Args
    <3> QED
      BY <3>1, <3>4, <3>5
  <2>3. CASE s > b.inputs /\ static[s] = None
    BY <2>3
  <2> QED
    BY <1>1, <2>1, <2>2, <2>3
<1> HIDE DEF T
<1>6. 1 .. N \subseteq T
  <2> HIDE DEF N
  <2> QED
    BY <1>1, <1>5, InductAll
<1> QED
  BY <1>1, <1>6 DEF T, static, val, StaticHolds

\* What a constant behind a slot says is what the slot holds.
LEMMA KnownConstantIs ==
  ASSUME NEW b, WellFormed(b), NEW pos, NEW env, FoundAt(b, pos, env), NEW s \in SlotsOf(b),
         KnownConstant(b, s) # None
  PROVE  KnownConstant(b, s) = <<ValuesOf(b, env)[s]>>
<1> DEFINE val == ValuesOf(b, env)
<1>1. val[s] = ValueIn(b, env, val, s) /\ b.inputs \in Nat /\ s \in Nat
  BY ValuesAre DEF AreValues, FoundAt, WellFormed, SlotsOf
<1> HIDE DEF val
<1>2. CASE s > b.inputs
  <2>1. EntryOf(b, s).op = "const" /\ KnownConstant(b, s) = <<EntryOf(b, s).val>>
    BY <1>2 DEF KnownConstant
  <2>2. Foldable(EntryOf(b, s)) /\ ~ (s <= b.inputs)
    BY <1>1, <1>2, <2>1 DEF Foldable
  <2>3. val[s] = EntryOf(b, s).val
    BY <1>1, <2>1, <2>2 DEF ValueIn, Computed
  <2> QED
    BY <2>1, <2>3 DEF val
<1>3. CASE ~ (s > b.inputs)
  <2>1. s \in DOMAIN b.fixed /\ KnownConstant(b, s) = <<b.fixed[s]>>
    BY <1>3 DEF KnownConstant
  <2>2. val[s] = env[s]
    BY <1>1, <1>3 DEF ValueIn
  <2> QED
    BY <2>1, <2>2 DEF FoundAt, val
<1> QED
  BY <1>2, <1>3

\* A window's starts as they are known when it is lowered: the axes left out
\* start at zero, and what is known is the start.
At(b, e) ==
  [ax \in DOMAIN e.bounds |->
     IF KnownConstant(b, e.ins[ax]) = None THEN None
     ELSE <<ClipTo(Int32(KnownConstant(b, e.ins[ax])[1]), e.bounds[ax])>>]
Needed(b, e) == {ax \in DOMAIN e.bounds : At(b, e)[ax] # <<0>>}
LEMMA PlanIs ==
  ASSUME NEW b, NEW e
  PROVE  AppendStartPlan(b, e) = [ax \in IF Needed(b, e) = {} THEN {1} ELSE Needed(b, e) |-> At(b, e)[ax]]
BY DEF AppendStartPlan, At, Needed

PlanHolds(laid, bounds, starts) ==
  /\ DOMAIN laid \subseteq DOMAIN bounds
  /\ \A ax \in DOMAIN bounds : ax \notin DOMAIN laid => starts[ax] = 0
  /\ \A ax \in DOMAIN laid : laid[ax] # None => laid[ax] = <<starts[ax]>>
LEMMA PlanIsExact ==
  ASSUME NEW b, WellFormed(b), NEW pos, NEW env, FoundAt(b, pos, env), NEW s \in Windows(b)
  PROVE  /\ PlanHolds(AppendStartPlan(b, EntryOf(b, s)), EntryOf(b, s).bounds,
                      ClampedStarts(EntryOf(b, s), ValuesOf(b, env)))
         /\ \A ax \in DOMAIN EntryOf(b, s).bounds : EntryOf(b, s).ins[ax] \in SlotsOf(b)
<1> DEFINE e == EntryOf(b, s)
           val == ValuesOf(b, env)
           starts == ClampedStarts(e, val)
           laid == AppendStartPlan(b, e)
<1>1. s \in SlotsOf(b) /\ s > b.inputs /\ e.op = "window" /\ b.inputs \in Nat /\ Len(b.ops) \in Nat
  BY DEF Windows, SlotsOf, WellFormed
<1>2. e.ins \in Seq(Nat) /\ e.bounds \in Seq(Nat) /\ Len(e.ins) = Len(e.bounds) /\ e.bounds # <<>>
  BY <1>1, EntryIs DEF SpecEntries
<1>3. DOMAIN e.ins = DOMAIN e.bounds /\ 1 \in DOMAIN e.bounds
  <2>1. DOMAIN e.ins = 1 .. Len(e.ins) /\ DOMAIN e.bounds = 1 .. Len(e.bounds) /\ Len(e.bounds) \in Nat /\ Len(e.bounds) # 0
    BY <1>2
  <2> QED
    BY <1>2, <2>1
<1>4. \A ax \in DOMAIN e.bounds : e.ins[ax] \in SlotsOf(b)
  <2>1. \A ax \in DOMAIN e.ins : e.ins[ax] \in 1 .. s - 1
    BY <1>1, EntryIs
  <2> HIDE DEF e
  <2> QED
    BY <1>1, <1>3, <2>1 DEF SlotsOf
<1>5. ASSUME NEW ax \in DOMAIN e.bounds, At(b, e)[ax] # None
      PROVE  At(b, e)[ax] = <<starts[ax]>>
  <2>1. KnownConstant(b, e.ins[ax]) # None /\ At(b, e)[ax] = <<ClipTo(Int32(KnownConstant(b, e.ins[ax])[1]), e.bounds[ax])>>
    BY <1>5 DEF At
  <2>2. KnownConstant(b, e.ins[ax]) = <<val[e.ins[ax]]>>
    BY <1>4, <2>1, KnownConstantIs
  <2>3. KnownConstant(b, e.ins[ax])[1] = val[e.ins[ax]]
    BY <2>2
  <2> QED
    BY <2>1, <2>3 DEF ClampedStarts
<1>6. laid = [ax \in IF Needed(b, e) = {} THEN {1} ELSE Needed(b, e) |-> At(b, e)[ax]]
  BY PlanIs
<1> HIDE DEF laid, starts, val, e
<1>7. DOMAIN laid \subseteq DOMAIN e.bounds
  BY <1>3, <1>6 DEF Needed
<1>8. ASSUME NEW ax \in DOMAIN e.bounds, ax \notin DOMAIN laid
      PROVE  starts[ax] = 0
  <2>1. ax \notin Needed(b, e)
    BY <1>6, <1>8
  <2>2. At(b, e)[ax] = <<0>>
    BY <2>1 DEF Needed
  <2>3. <<0>> # None
    <3>1. Len(<<0>>) = 1 /\ Len(<<>>) = 0
      OBVIOUS
    <3> QED
      BY <3>1 DEF None
  <2>4. At(b, e)[ax] = <<starts[ax]>>
    BY <1>5, <2>2, <2>3
  <2> QED
    BY <2>2, <2>4
<1>9. ASSUME NEW ax \in DOMAIN laid, laid[ax] # None
      PROVE  laid[ax] = <<starts[ax]>>
  BY <1>5, <1>6, <1>7, <1>9
<1> QED
  BY <1>4, <1>7, <1>8, <1>9 DEF PlanHolds, laid, starts, val, e

\* Without a table, and with one made for the position, a window is traced at
\* the starts it means.
LEMMA DynamicIsExact ==
  ASSUME NEW b, WellFormed(b), NEW pos, NEW env, FoundAt(b, pos, env), NEW s \in Windows(b)
  PROVE  DynamicStarts(b, EntryOf(b, s), ValuesOf(b, env)) = ClampedStarts(EntryOf(b, s), ValuesOf(b, env))
<1> DEFINE e == EntryOf(b, s)
           val == ValuesOf(b, env)
           starts == ClampedStarts(e, val)
           laid == AppendStartPlan(b, e)
<1>1. PlanHolds(laid, e.bounds, starts)
  BY PlanIsExact
<1>2. starts = [ax \in DOMAIN e.bounds |-> ClipTo(Int32(val[e.ins[ax]]), e.bounds[ax])]
  BY DEF ClampedStarts
<1>3. DynamicStarts(b, e, val) = [ax \in DOMAIN e.bounds |->
        IF ax \notin DOMAIN laid THEN 0
        ELSE IF laid[ax] # None THEN laid[ax][1] ELSE ClipTo(Int32(val[e.ins[ax]]), e.bounds[ax])]
  BY DEF DynamicStarts
<1> HIDE DEF laid, starts, val, e
<1>4. ASSUME NEW ax \in DOMAIN e.bounds
      PROVE  DynamicStarts(b, e, val)[ax] = starts[ax]
  BY <1>1, <1>2, <1>3 DEF PlanHolds
<1>5. DynamicStarts(b, e, val) = starts
  BY <1>2, <1>3, <1>4
<1> QED
  BY <1>5 DEF laid, starts, val, e

TableOf(b, pos, t) == \E fails : t = StartTable(b, pos, fails)
LEMMA TracedIsExact ==
  ASSUME NEW b, WellFormed(b), NEW pos \in Int, NEW env, FoundAt(b, pos, env), NEW s \in Windows(b),
         NEW t, t = Empty \/ TableOf(b, pos, t)
  PROVE  TracedStarts(b, t, s, ValuesOf(b, env)) = ClampedStarts(EntryOf(b, s), ValuesOf(b, env))
<1> DEFINE e == EntryOf(b, s)
           val == ValuesOf(b, env)
           starts == ClampedStarts(e, val)
           laid == AppendStartPlan(b, e)
<1>0. CASE s \notin DOMAIN t
  <2>1. TracedStarts(b, t, s, val) = DynamicStarts(b, e, val)
    BY <1>0 DEF TracedStarts
  <2> QED
    BY <2>1, DynamicIsExact
<1>1. CASE s \in DOMAIN t
  <2>1. t # Empty
    BY <1>1 DEF Empty
  <2>2. PICK fails : t = StartTable(b, pos, fails)
    BY <2>1 DEF TableOf
  <2> DEFINE static == StaticAt(b, pos, fails)
             plans == [w \in Windows(b) |-> AppendStartPlan(b, EntryOf(b, w))]
             ds == {w \in Windows(b) : \A ax \in DOMAIN plans[w] : plans[w][ax] # None \/ static[EntryOf(b, w).ins[ax]] # None}
  <2>3. t = [w \in ds |-> [ax \in DOMAIN plans[w] |->
              IF plans[w][ax] # None THEN plans[w][ax][1]
              ELSE ClipTo(Int32(static[EntryOf(b, w).ins[ax]][1]), EntryOf(b, w).bounds[ax])]]
    BY <2>2 DEF StartTable
  <2>4. StaticHolds(b, static, val)
    BY StaticIsValue
  <2>5. PlanHolds(laid, e.bounds, starts) /\ \A ax \in DOMAIN e.bounds : e.ins[ax] \in SlotsOf(b)
    BY PlanIsExact
  <2>6. starts = [ax \in DOMAIN e.bounds |-> ClipTo(Int32(val[e.ins[ax]]), e.bounds[ax])]
    BY DEF ClampedStarts
  <2>7. plans[s] = laid
    OBVIOUS
  <2> HIDE DEF plans, static
  <2>8. s \in ds
    BY <1>1, <2>3
  <2>9. \A ax \in DOMAIN laid : laid[ax] # None \/ static[e.ins[ax]] # None
    BY <2>7, <2>8
  <2>10. t[s] = [ax \in DOMAIN laid |->
              IF laid[ax] # None THEN laid[ax][1] ELSE ClipTo(Int32(static[e.ins[ax]][1]), e.bounds[ax])]
    BY <2>3, <2>7, <2>8
  <2>11. TracedStarts(b, t, s, val) = [ax \in DOMAIN e.bounds |-> IF ax \in DOMAIN t[s] THEN t[s][ax] ELSE 0]
    BY <1>1 DEF TracedStarts
  <2> HIDE DEF laid, starts, val, e, ds
  <2>12. ASSUME NEW ax \in DOMAIN e.bounds
        PROVE  TracedStarts(b, t, s, val)[ax] = starts[ax]
    <3>1. CASE ax \notin DOMAIN laid
      BY <2>5, <2>10, <2>11, <3>1 DEF PlanHolds
    <3>2. CASE ax \in DOMAIN laid /\ laid[ax] # None
      BY <2>5, <2>10, <2>11, <3>2 DEF PlanHolds
    <3>3. CASE ax \in DOMAIN laid /\ laid[ax] = None
      <4>1. static[e.ins[ax]] = <<val[e.ins[ax]]>>
        BY <2>4, <2>5, <2>9, <3>3 DEF StaticHolds
      <4>2. static[e.ins[ax]][1] = val[e.ins[ax]]
        BY <4>1
      <4> QED
        BY <2>6, <2>10, <2>11, <3>3, <4>2
    <3> QED
      BY <3>1, <3>2, <3>3
  <2>13. TracedStarts(b, t, s, val) = starts
    BY <2>6, <2>11, <2>12
  <2> QED
    BY <2>13 DEF laid, starts, val, e
<1> QED
  BY <1>0, <1>1

---------------------------------------------------------------------------
(* The inductive invariant: every table kept is one loop_spec made for its *)
(* position, a graph holds tables that are kept, the call at hand has the  *)
(* tables of the iterations it gathered, and the last chunk run was traced *)
(* with tables of its positions or with none.                              *)
CallRecords ==
  [pc : {"probe", "chunk", "generic"}, on : BOOLEAN, at : Nat, got : Nat, start : Int, trip : Nat, k : Nat]
TablesAreMade(b, tb) == \A p \in DOMAIN tb : p \in Int /\ TableOf(b, p, tb[p])
GraphHolds(tb, g, kept) ==
  DOMAIN kept = 1 .. g[1] /\ \A r \in 1 .. g[1] : g[2] + r - 1 \in DOMAIN tb /\ tb[g[2] + r - 1] = kept[r]
GraphsHold(tb, gs) == \A g \in DOMAIN gs : GraphHolds(tb, g, gs[g])
CallHas(tb, c) ==
  c = NoCall \/ (c \in CallRecords /\ (c.pc # "generic" => \A r \in 1 .. c.got : c.start + c.at + r - 1 \in DOMAIN tb))
RunWasTraced(b, run) ==
  /\ run.pos \in Int
  /\ \A r \in DOMAIN run.tables :
       r \in Int /\ (run.tables[r] = Empty \/ TableOf(b, run.pos + r - 1, run.tables[r]))
SpecHolds(b, tb, gs, c, run) ==
  b \in LoopBodies /\ TablesAreMade(b, tb) /\ GraphsHold(tb, gs) /\ CallHas(tb, c) /\ RunWasTraced(b, run)
SpecInv == SpecHolds(body, tables, graphs, call, lastRun)

Keeps(tb, new) == \A p \in DOMAIN tb : p \in DOMAIN new /\ new[p] = tb[p]
LEMMA AnswersAre ==
  ASSUME TablesAreMade(body, tables), NEW pos \in Int, NEW a \in Answers(pos)
  PROVE  /\ TablesAreMade(body, a.tables) /\ Keeps(tables, a.tables)
         /\ a.table # None => pos \in DOMAIN a.tables
<1>1. CASE pos \in DOMAIN tables
  BY <1>1 DEF Answers, Keeps
<1>2. CASE pos \notin DOMAIN tables /\ a = [tables |-> tables, table |-> None]
  BY <1>2 DEF Keeps
<1>3. CASE pos \notin DOMAIN tables /\ a # [tables |-> tables, table |-> None]
  <2>1. PICK fails : a = LET t == StartTable(body, pos, fails) IN [tables |-> With(tables, pos, t), table |-> <<t>>]
    BY <1>3 DEF Answers
  <2> DEFINE t == StartTable(body, pos, fails)
  <2>2. a.tables = [x \in DOMAIN tables \cup {pos} |-> IF x = pos THEN t ELSE tables[x]]
    BY <2>1 DEF With
  <2>3. TableOf(body, pos, t)
    BY DEF TableOf
  <2> HIDE DEF t
  <2>4. TablesAreMade(body, a.tables) /\ Keeps(tables, a.tables)
    BY <1>3, <2>2, <2>3 DEF TablesAreMade, Keeps
  <2>5. pos \in DOMAIN a.tables
    BY <2>2
  <2> QED
    BY <2>4, <2>5
<1> QED
  BY <1>1, <1>2, <1>3

LEMMA KeepsAll ==
  ASSUME NEW tb, NEW new, Keeps(tb, new), NEW gs, NEW c
  PROVE  (GraphsHold(tb, gs) => GraphsHold(new, gs)) /\ (CallHas(tb, c) => CallHas(new, c))
<1>1. GraphsHold(tb, gs) => GraphsHold(new, gs)
  BY DEF Keeps, GraphsHold, GraphHolds
<1>2. CallHas(tb, c) => CallHas(new, c)
  BY DEF Keeps, CallHas
<1> QED
  BY <1>1, <1>2

LEMMA ChunkIs ==
  ASSUME call \in CallRecords
  PROVE  /\ Repeat \in Nat /\ Pos \in Int /\ Pos = call.start + call.at
         /\ \A tb : CallHas(tb, Advanced)
<1>1. Repeat \in Nat /\ Pos \in Int /\ Pos = call.start + call.at
  BY DEF CallRecords, Repeat, Pos
<1>2. ASSUME NEW tb, Advanced # NoCall
      PROVE  CallHas(tb, Advanced)
  <2>1. Advanced = [call EXCEPT !.pc = "chunk", !.at = @ + Repeat, !.got = 0]
    BY <1>2 DEF Advanced
  <2>2. Advanced \in CallRecords /\ Advanced.got = 0
    <3>1. call.at + Repeat \in Nat
      BY <1>1 DEF CallRecords
    <3>2. \A n \in Nat : [call EXCEPT !.pc = "chunk", !.at = n, !.got = 0] \in CallRecords
      BY DEF CallRecords
    <3>3. Advanced = [call EXCEPT !.pc = "chunk", !.at = call.at + Repeat, !.got = 0]
      BY <2>1
    <3>4. Advanced.got = 0
      BY <3>3 DEF CallRecords
    <3> QED
      BY <3>1, <3>2, <3>3, <3>4
  <2> QED
    BY <2>2 DEF CallHas
<1>3. \A tb : CallHas(tb, Advanced)
  BY <1>2 DEF CallHas
<1> QED
  BY <1>1, <1>3

\* The graph called holds the tables of its positions.
LEMMA CompiledHolds ==
  ASSUME SpecInv, call # NoCall, Specializes, call.got = Repeat
  PROVE  /\ call \in CallRecords /\ CallHas(tables, Advanced)
         /\ GraphHolds(tables, <<Repeat, Pos>>, CompiledSpec)
         /\ GraphsHold(tables, With(graphs, <<Repeat, Pos>>, CompiledSpec))
         /\ RunWasTraced(body, [pos |-> Pos, tables |-> CompiledSpec])
<1> DEFINE key == <<Repeat, Pos>>
<1>1. call \in CallRecords /\ call.pc = "chunk" /\ \A r \in 1 .. call.got : call.start + call.at + r - 1 \in DOMAIN tables
  BY DEF SpecInv, SpecHolds, CallHas, Specializes
<1>2. Repeat \in Nat /\ Pos \in Int /\ Pos = call.start + call.at /\ CallHas(tables, Advanced)
  BY <1>1, ChunkIs
<1>3. GraphHolds(tables, key, CompiledSpec)
  <2>1. key[1] = Repeat /\ key[2] = Pos
    OBVIOUS
  <2>2. CASE key \in DOMAIN graphs
    <3>1. CompiledSpec = graphs[key]
      BY <2>2 DEF CompiledSpec
    <3> QED
      BY <2>2, <3>1 DEF SpecInv, SpecHolds, GraphsHold
  <2>3. CASE key \notin DOMAIN graphs
    <3>1. CompiledSpec = [r \in 1 .. Repeat |-> tables[Pos + r - 1]]
      BY <2>3 DEF CompiledSpec
    <3> HIDE DEF key
    <3> QED
      BY <1>1, <1>2, <2>1, <3>1 DEF GraphHolds
  <2> QED
    BY <2>2, <2>3
<1>4. GraphsHold(tables, With(graphs, key, CompiledSpec))
  <2> HIDE DEF key
  <2>1. GraphsHold(tables, graphs)
    BY DEF SpecInv, SpecHolds
  <2> QED
    BY <1>3, <2>1 DEF GraphsHold, With
<1>5. RunWasTraced(body, [pos |-> Pos, tables |-> CompiledSpec])
  <2>1. DOMAIN CompiledSpec = 1 .. Repeat /\ \A r \in 1 .. Repeat : Pos + r - 1 \in DOMAIN tables /\ tables[Pos + r - 1] = CompiledSpec[r]
    BY <1>2, <1>3 DEF GraphHolds
  <2>2. TablesAreMade(body, tables)
    BY DEF SpecInv, SpecHolds
  <2>3. \A r \in 1 .. Repeat : r \in Int /\ TableOf(body, Pos + r - 1, CompiledSpec[r])
    BY <1>2, <2>1, <2>2 DEF TablesAreMade
  <2> QED
    BY <1>2, <2>1, <2>3 DEF RunWasTraced
<1> QED
  BY <1>1, <1>2, <1>3, <1>4, <1>5

LEMMA SpecInvInit ==
  ASSUME SpecInit
  PROVE  SpecInv
<1>1. body \in LoopBodies /\ tables = Empty /\ graphs = Empty /\ call = NoCall /\ lastRun = NoRun
  BY DEF SpecInit
<1>2. DOMAIN Empty = {}
  BY DEF Empty
<1>3. TablesAreMade(body, tables) /\ GraphsHold(tables, graphs) /\ CallHas(tables, call)
  BY <1>1, <1>2 DEF TablesAreMade, GraphsHold, CallHas
<1>4. RunWasTraced(body, NoRun)
  <2>1. NoRun.pos = 0 /\ DOMAIN NoRun.tables = {}
    BY DEF NoRun
  <2> QED
    BY <2>1 DEF RunWasTraced
<1> QED
  BY <1>1, <1>3, <1>4 DEF SpecInv, SpecHolds

LEMMA SpecInvNext ==
  ASSUME SpecInv, [SpecNext]_specVars
  PROVE  SpecInv'
<1>0. /\ body \in LoopBodies /\ TablesAreMade(body, tables) /\ GraphsHold(tables, graphs)
      /\ CallHas(tables, call) /\ RunWasTraced(body, lastRun)
  BY DEF SpecInv, SpecHolds
<1>1. SUFFICES SpecHolds(body', tables', graphs', call', lastRun')
  BY DEF SpecInv
<1>2. \A gs : gs = Empty => GraphsHold(Empty, gs)
  BY DEF GraphsHold, Empty
<1>3. TablesAreMade(body, Empty) /\ \A tb : CallHas(tb, NoCall) /\ GraphsHold(tb, Empty)
  BY DEF TablesAreMade, CallHas, GraphsHold, Empty
<1>4. CASE EnterChunked
  <2>1. /\ UNCHANGED <<body, noCompile, noChunk, tables, graphs, lastRun>>
        /\ \E c \in LoopCalls, on \in BOOLEAN :
             call' = [pc |-> IF on THEN "probe" ELSE "chunk", on |-> on, at |-> 0, got |-> 0,
                      start |-> c.start, trip |-> c.trip, k |-> c.k]
    BY <1>4 DEF EnterChunked
  <2>2. call' \in CallRecords /\ call'.got = 0
    <3>1. PICK c \in LoopCalls, on \in BOOLEAN :
             call' = [pc |-> IF on THEN "probe" ELSE "chunk", on |-> on, at |-> 0, got |-> 0,
                      start |-> c.start, trip |-> c.trip, k |-> c.k]
      BY <2>1
    <3>2. c.start \in Int /\ c.trip \in Nat /\ c.k \in Nat
      BY LoopSpecAssumption
    <3> QED
      BY <3>1, <3>2 DEF CallRecords
  <2>3. CallHas(tables, call')
    BY <2>2 DEF CallHas
  <2> QED
    BY <1>0, <2>1, <2>3 DEF SpecHolds
<1>5. CASE Probe
  <2>1. call \in CallRecords
    <3>1. call # NoCall
      BY <1>5 DEF Probe, NoCall
    <3> QED
      BY <1>0, <3>1 DEF CallHas
  <2>2. PICK a \in Answers(call.start) : \E on \in BOOLEAN :
          tables' = a.tables /\ call' = [call EXCEPT !.pc = "chunk", !.on = on]
    BY <1>5 DEF Probe
  <2>3. UNCHANGED <<body, graphs, lastRun>>
    BY <1>5 DEF Probe
  <2>4. call.start \in Int
    BY <2>1 DEF CallRecords
  <2>5. TablesAreMade(body, a.tables) /\ Keeps(tables, a.tables)
    BY <1>0, <2>4, AnswersAre
  <2>6. GraphsHold(a.tables, graphs)
    BY <1>0, <2>5, KeepsAll
  <2>7. call' \in CallRecords /\ call'.got = call.got
    BY <2>1, <2>2 DEF CallRecords
  <2>8. CallHas(a.tables, call')
    <3>1. CallHas(a.tables, call) /\ call # NoCall /\ call.pc # "generic"
      BY <1>0, <1>5, <2>5, KeepsAll DEF Probe, NoCall
    <3>2. call'.at = call.at /\ call'.start = call.start
      BY <2>1, <2>2 DEF CallRecords
    <3> QED
      BY <2>7, <3>1, <3>2 DEF CallHas
  <2> QED
    BY <1>0, <2>2, <2>3, <2>5, <2>6, <2>8 DEF SpecHolds
<1>6. CASE Gather
  <2>1. call \in CallRecords /\ call.pc = "chunk" /\ call # NoCall
    <3>1. call # NoCall /\ call.pc = "chunk"
      BY <1>6 DEF Gather, Specializes, NoCall
    <3> QED
      BY <1>0, <3>1 DEF CallHas
  <2>2. PICK a \in Answers(Pos + call.got) :
          /\ tables' = a.tables
          /\ call' = IF Folded(a) > 0 THEN [call EXCEPT !.got = @ + 1] ELSE [call EXCEPT !.pc = "generic"]
    BY <1>6 DEF Gather
  <2>3. UNCHANGED <<body, graphs, lastRun>>
    BY <1>6 DEF Gather
  <2>4. call.got \in Nat /\ Pos \in Int /\ Pos = call.start + call.at /\ Pos + call.got \in Int
    BY <2>1, ChunkIs DEF CallRecords
  <2>5. TablesAreMade(body, a.tables) /\ Keeps(tables, a.tables) /\ (a.table # None => Pos + call.got \in DOMAIN a.tables)
    BY <1>0, <2>4, AnswersAre
  <2>6. GraphsHold(a.tables, graphs) /\ CallHas(a.tables, call)
    BY <1>0, <2>5, KeepsAll
  <2>7. CASE Folded(a) > 0
    <3>1. a.table # None
      BY <2>7 DEF Folded
    <3>2. call' = [call EXCEPT !.got = call.got + 1]
      BY <2>2, <2>7
    <3>3. call' \in CallRecords /\ call'.got = call.got + 1 /\ call'.at = call.at /\ call'.start = call.start
      BY <2>1, <2>4, <3>2 DEF CallRecords
    <3>4. ASSUME NEW r \in 1 .. call.got + 1
          PROVE  call.start + call.at + r - 1 \in DOMAIN a.tables
      <4>1. CASE r \in 1 .. call.got
        BY <2>1, <2>6, <4>1 DEF CallHas
      <4>2. CASE r \notin 1 .. call.got
        <5>1. r = call.got + 1
          BY <2>4, <4>2
        <5>2. call.start + call.at + r - 1 = Pos + call.got
          BY <2>1, <2>4, <5>1 DEF CallRecords
        <5> QED
          BY <2>5, <3>1, <5>2
      <4> QED
        BY <4>1, <4>2
    <3>5. CallHas(a.tables, call')
      BY <3>3, <3>4 DEF CallHas
    <3> QED
      BY <1>0, <2>2, <2>3, <2>5, <2>6, <3>5 DEF SpecHolds
  <2>8. CASE ~ (Folded(a) > 0)
    <3>1. call' = [call EXCEPT !.pc = "generic"]
      BY <2>2, <2>8
    <3>2. call' \in CallRecords /\ call'.pc = "generic"
      BY <2>1, <3>1 DEF CallRecords
    <3>3. CallHas(a.tables, call')
      BY <3>2 DEF CallHas
    <3> QED
      BY <1>0, <2>2, <2>3, <2>5, <2>6, <3>3 DEF SpecHolds
  <2> QED
    BY <2>7, <2>8
<1>7. CASE SpecRuns
  <2>1. /\ Specializes /\ call.got = Repeat /\ call # NoCall
        /\ graphs' = With(graphs, <<Repeat, Pos>>, CompiledSpec)
        /\ lastRun' = [pos |-> Pos, tables |-> CompiledSpec]
        /\ call' = Advanced
        /\ UNCHANGED <<body, tables>>
    BY <1>7 DEF SpecRuns, Specializes, NoCall
  <2> QED
    BY <1>0, <2>1, CompiledHolds DEF SpecHolds
<1>8. CASE SpecDrops
  <2>1. /\ tables' = Empty /\ graphs' = Empty /\ call' = [call EXCEPT !.pc = "generic", !.on = FALSE]
        /\ UNCHANGED <<body, lastRun>> /\ call # NoCall
    BY <1>8 DEF SpecDrops, Specializes, NoCall
  <2>2. call' \in CallRecords /\ call'.pc = "generic"
    BY <1>0, <2>1 DEF CallHas, CallRecords
  <2>3. CallHas(Empty, call')
    BY <2>2 DEF CallHas
  <2> QED
    BY <1>0, <1>3, <2>1, <2>3 DEF SpecHolds
<1>9. CASE GenericRuns
  <2>1. /\ lastRun' = [pos |-> Pos, tables |-> [r \in 1 .. Repeat |-> Empty]]
        /\ call' = Advanced /\ call # NoCall
        /\ UNCHANGED <<body, tables, graphs>>
    BY <1>9 DEF GenericRuns
  <2>2. call \in CallRecords
    BY <1>0, <2>1 DEF CallHas
  <2>3. RunWasTraced(body, lastRun')
    BY <2>1, <2>2, ChunkIs DEF RunWasTraced
  <2> QED
    BY <1>0, <2>1, <2>2, <2>3, ChunkIs DEF SpecHolds
<1>10. CASE ChunkThrows
  <2>1. call' = NoCall /\ UNCHANGED <<body, tables, lastRun>> /\ call # NoCall
    BY <1>10 DEF ChunkThrows
  <2>2. GraphsHold(tables, graphs')
    <3>1. CASE graphs' = graphs
      BY <1>0, <3>1
    <3>2. CASE Specializes /\ call.got = Repeat /\ graphs' = With(graphs, <<Repeat, Pos>>, CompiledSpec)
      BY <2>1, <3>2, CompiledHolds
    <3> QED
      BY <1>10, <3>1, <3>2 DEF ChunkThrows
  <2> QED
    BY <1>0, <1>3, <2>1, <2>2 DEF SpecHolds
<1>11. CASE DropCompiled
  BY <1>0, <1>3, <1>11 DEF DropCompiled, SpecHolds
<1>12. CASE DropDeep
  BY <1>0, <1>3, <1>12 DEF DropDeep, SpecHolds
<1>13. CASE UNCHANGED specVars
  BY <1>0, <1>13 DEF specVars, SpecHolds
<1> QED
  BY <1>4, <1>5, <1>6, <1>7, <1>8, <1>9, <1>10, <1>11, <1>12, <1>13 DEF SpecNext

LEMMA SpecInvAlways == LoopSpecSpec => []SpecInv
<1>1. SpecInit => SpecInv
  BY SpecInvInit
<1>2. SpecInv /\ [SpecNext]_specVars => SpecInv'
  BY SpecInvNext
<1> QED
  BY <1>1, <1>2, PTL DEF LoopSpecSpec

\* What a body's slots can hold is what an iteration finds there.
LEMMA EnvsAreFound ==
  ASSUME NEW b \in LoopBodies, NEW pos \in Int, NEW env \in Envs(b, pos)
  PROVE  WellFormed(b) /\ FoundAt(b, pos, env)
<1> DEFINE free == FreeSlots(b) \ ({b.counter} \cup DOMAIN b.fixed)
<1>1. WellFormed(b)
  BY LoopSpecAssumption
<1>2. /\ b.inputs \in Nat /\ b.counter \in 1 .. b.inputs /\ DOMAIN b.fixed \subseteq 1 .. b.inputs \ {b.counter}
      /\ \A s \in DOMAIN b.fixed : b.fixed[s] \in Int
      /\ Len(b.ops) \in Nat
  BY <1>1 DEF WellFormed
<1>3. PICK other \in [free -> SlotValues] :
        env = [s \in FreeSlots(b) |->
                 IF s = b.counter THEN pos ELSE IF s \in DOMAIN b.fixed THEN b.fixed[s] ELSE other[s]]
  BY DEF Envs
<1>4. \A s \in 1 .. b.inputs : s \in FreeSlots(b)
  BY <1>2 DEF FreeSlots, SlotsOf
<1>5. \A s \in free : other[s] \in Int
  BY LoopSpecAssumption
<1>6. env \in [FreeSlots(b) -> Int]
  BY <1>2, <1>3, <1>5
<1>7. env[b.counter] = pos /\ \A s \in DOMAIN b.fixed : env[s] = b.fixed[s]
  BY <1>2, <1>3, <1>4
<1> QED
  BY <1>1, <1>6, <1>7 DEF FoundAt, Fits

\* control.cc run_chunked, compile.cc compiled_spec: every iteration of every
\* chunk, specialized or not, reads and writes the windows its slices mean,
\* whatever the body's other inputs hold.
THEOREM SpecializedWindows == LoopSpecSpec => []WindowsAreWhereTheyAre
<1>1. ASSUME SpecInv
      PROVE  WindowsAreWhereTheyAre
  <2>1. SUFFICES ASSUME NEW r \in DOMAIN lastRun.tables, NEW env \in Envs(body, lastRun.pos + r - 1),
                        NEW s \in Windows(body)
                 PROVE  TracedStarts(body, lastRun.tables[r], s, ValuesOf(body, env))
                          = ClampedStarts(EntryOf(body, s), ValuesOf(body, env))
    BY DEF WindowsAreWhereTheyAre
  <2> DEFINE pos == lastRun.pos + r - 1
             t == lastRun.tables[r]
  <2>2. body \in LoopBodies /\ pos \in Int /\ (t = Empty \/ TableOf(body, pos, t))
    BY <1>1 DEF SpecInv, SpecHolds, RunWasTraced
  <2>3. WellFormed(body) /\ FoundAt(body, pos, env)
    BY <2>2, EnvsAreFound
  <2> HIDE DEF pos, t
  <2>4. TracedStarts(body, t, s, ValuesOf(body, env)) = ClampedStarts(EntryOf(body, s), ValuesOf(body, env))
    BY <2>2, <2>3, TracedIsExact
  <2> QED
    BY <2>4 DEF t
<1> QED
  BY <1>1, SpecInvAlways, PTL

\* compile.cc drop_spec, drop_compiled: the tables a kept graph was traced with
\* stay as long as it does, and stay the position's.
THEOREM HeldTables == LoopSpecSpec => []TablesOutliveGraphs
<1>1. ASSUME SpecInv
      PROVE  TablesOutliveGraphs
  BY <1>1 DEF SpecInv, SpecHolds, GraphsHold, GraphHolds, TablesOutliveGraphs
<1> QED
  BY <1>1, SpecInvAlways, PTL
==============================================================================

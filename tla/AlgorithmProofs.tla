-------------------------- MODULE AlgorithmProofs --------------------------
(***************************************************************************)
(* What holds of the pure algorithms for every input, and not only for the *)
(* inputs a run enumerates.                                                *)
(***************************************************************************)
EXTENDS LoopPlan, HostTransfer, IndexRange, GatherScatter, Induction, FiniteSetTheorems

---------------------------------------------------------------------------
(* Counted loops.                                                          *)
ValuesOf(type) ==
  CASE type = "signed" -> - HalfRange .. HalfRange - 1
    [] type = "unsigned" -> 0 .. 2 * HalfRange - 1
    [] type = "i1" -> 0 .. 1

\* A loop by its counter, of an integer type and with any bound, direction
\* and step.
IntegerCounter(x) ==
  /\ x.type \in {"signed", "unsigned", "i1"}
  /\ x.start \in ValuesOf(x.type) /\ x.bound \in ValuesOf(x.type) /\ x.inc \in Int

\* The larger of two, and the least of a set of integers that has one.
LEMMA LargerOfTwo ==
  ASSUME NEW a \in Int, NEW b \in Int
  PROVE  Max({a, b}) = IF a >= b THEN a ELSE b
<1> DEFINE m == IF a >= b THEN a ELSE b
<1>1. m \in {a, b} /\ \A y \in {a, b} : m >= y
  OBVIOUS
<1>2. \A x \in {a, b} : (\A y \in {a, b} : x >= y) => x = m
  OBVIOUS
<1> QED  BY <1>1, <1>2 DEF Max

LEMMA LeastIs ==
  ASSUME NEW S \in SUBSET Int, NEW m \in S, \A y \in S : m <= y
  PROVE  Min(S) = m
<1>1. \A x \in S : (\A y \in S : x <= y) => x = m
  OBVIOUS
<1> QED  BY <1>1 DEF Min

\* No counter between its start and the largest value of its type wraps.
LEMMA NoWrap ==
  ASSUME NEW type \in {"signed", "unsigned", "i1"}, NEW v \in ValuesOf(type)
  PROVE  Wrapped(type, v) = v
<1>1. CASE type = "signed"
  <2>1. v \in - HalfRange .. HalfRange - 1 /\ HalfRange \in Nat \ {0}
    BY <1>1, CountingAssumption DEF ValuesOf
  <2>2. v + HalfRange \in 0 .. 2 * HalfRange - 1
    BY <2>1
  <2>3. (v + HalfRange) % (2 * HalfRange) = v + HalfRange
    BY <2>1, <2>2
  <2> QED
    BY <1>1, <2>1, <2>3 DEF Wrapped
<1>2. CASE type = "unsigned"
  <2>1. v \in 0 .. 2 * HalfRange - 1 /\ HalfRange \in Nat \ {0}
    BY <1>2, CountingAssumption DEF ValuesOf
  <2>2. v % (2 * HalfRange) = v
    BY <2>1
  <2> QED
    BY <1>2, <2>2 DEF Wrapped
<1>3. CASE type = "i1"
  <2>1. v \in 0 .. 1 /\ v % 2 = v
    BY <1>3 DEF ValuesOf
  <2> QED
    BY <1>3, <2>1 DEF Wrapped
<1> QED
  BY <1>1, <1>2, <1>3

\* The values of a type are an interval no longer than LongestLoop.
LEMMA Intervals ==
  ASSUME NEW type \in {"signed", "unsigned", "i1"}
  PROVE  /\ ValuesOf(type) \subseteq Int
         /\ \A a, c \in ValuesOf(type) : a .. c \subseteq ValuesOf(type) /\ c - a <= LongestLoop
BY CountingAssumption DEF ValuesOf

\* A loop over integers whose condition is never evaluated runs exactly the
\* iterations its condition would have let run, for integers of every width:
\* what AnalyzeCounted admits steps by one, and reaches its bound before its
\* counter could wrap.
THEOREM CountedExactly ==
  (input.kind = "counted" /\ input.type # "float" => IntegerCounter(input))
    => CountedIsExactInIntegers
<1> SUFFICES ASSUME IntegerCounter(input), input.type # "float", AnalyzeCounted(input) # "none"
             PROVE  CountedTrip(input) = Iterations(input)
  BY DEF CountedIsExactInIntegers
<1> DEFINE s == input.start  b == input.bound  trip == CountedTrip(input)
           Stops == {j \in 0 .. LongestLoop : ~ CondHolds(input, j)}
<1>1. /\ input.type \in {"signed", "unsigned", "i1"}
      /\ s \in ValuesOf(input.type) /\ b \in ValuesOf(input.type) /\ s \in Int /\ b \in Int
      /\ b - s <= LongestLoop /\ s .. b \subseteq ValuesOf(input.type)
  BY Intervals DEF IntegerCounter
<1>2. /\ input.dir = "LT" /\ input.lhs = "carry" /\ input.rhs # "changed"
      /\ input.step = "add" /\ input.inc = 1
  BY <1>1 DEF AnalyzeCounted, SplatInt, IntegerCounter
<1>3. trip = IF b - s >= 0 THEN b - s ELSE 0
  <2>1. trip = Max({b - s, 0})
    BY <1>1 DEF CountedTrip, SplatInt
  <2> QED
    BY <1>1, <2>1, LargerOfTwo
<1>4. LongestLoop \in Nat /\ trip \in 0 .. LongestLoop
  BY <1>1, <1>3, CountingAssumption
<1>5. ASSUME NEW j \in 0 .. trip
      PROVE  CondHolds(input, j) <=> s + j < b
  <2>1. CondHolds(input, j) <=> Wrapped(input.type, s + j) < b
    BY <1>1, <1>2, <1>4 DEF CondHolds, Counter
  <2>2. s + j \in ValuesOf(input.type)
    BY <1>1, <1>3, <1>4
  <2>3. Wrapped(input.type, s + j) = s + j
    BY <1>1, <2>2, NoWrap
  <2> QED
    BY <2>1, <2>3
<1>6. trip \in Stops /\ \A j \in Stops : trip <= j
  <2>1. ~ CondHolds(input, trip)
    BY <1>1, <1>3, <1>4, <1>5
  <2>2. ASSUME NEW j \in 0 .. LongestLoop, j < trip
        PROVE  CondHolds(input, j)
    BY <1>1, <1>3, <1>4, <1>5, <2>2
  <2> QED
    BY <1>4, <2>1, <2>2
<1>7. Iterations(input) = Min({LongestLoop} \cup Stops)
  BY DEF Iterations
<1> HIDE DEF Stops
<1>8. {LongestLoop} \cup Stops \in SUBSET Int
  BY <1>4 DEF Stops
<1>9. Min({LongestLoop} \cup Stops) = trip
  <2>1. trip \in {LongestLoop} \cup Stops /\ \A y \in {LongestLoop} \cup Stops : trip <= y
    BY <1>4, <1>6
  <2> HIDE DEF trip
  <2> QED
    BY <1>8, <2>1, LeastIs
<1> QED
  BY <1>7, <1>9

---------------------------------------------------------------------------
(* Sums.                                                                   *)
Summed(s, n) ==
  /\ Sums(s) \in [0 .. n -> Int] /\ Sums(s)[0] = 0 /\ Total(s) = Sums(s)[n]
  /\ \A m \in 1 .. n : Sums(s)[m] = Sums(s)[m - 1] + s[m]

LEMMA SumsOf ==
  ASSUME NEW n \in Nat, NEW s \in [1 .. n -> Int]
  PROVE  Summed(s, n)
<1> DEFINE step == [p \in Int \X (1 .. n) |-> p[1] + s[p[2]]]
           Adds(f) == f = [m \in 0 .. n |-> IF m = 0 THEN 0 ELSE f[m - 1] + s[m]]
           sums == CHOOSE f : Adds(f)
<1>1. s \in Seq(Int) /\ Len(s) = n
  OBVIOUS
<1>2. Sums(s) = sums
  BY <1>1 DEF Sums
<1>3. step \in [Int \X (1 .. n) -> Int] /\ \A a \in Int, m \in 1 .. n : step[<<a, m>>] = a + s[m]
  OBVIOUS
<1> HIDE DEF step
<1>4. PICK f \in [0 .. n -> Int] : Chained(f, 0, step, n)
  <2>1. 0 \in Int
    OBVIOUS
  <2> QED
    BY <1>3, <2>1, Chain, Zenon
<1>5. Adds(f)
  <2>1. ASSUME NEW m \in 0 .. n
        PROVE  f[m] = IF m = 0 THEN 0 ELSE f[m - 1] + s[m]
    <3>1. CASE m = 0
      BY <1>4, <3>1 DEF Chained
    <3>2. CASE m # 0
      <4>1. m \in 1 .. n /\ m - 1 \in 0 .. n
        BY <3>2
      <4>2. f[m] = step[<<f[m - 1], m>>] /\ f[m - 1] \in Int
        BY <1>4, <4>1 DEF Chained
      <4> QED
        BY <1>3, <3>2, <4>1, <4>2
    <3> QED
      BY <3>1, <3>2
  <2>2. f = [m \in 0 .. n |-> f[m]]
    BY <1>4
  <2> QED
    BY <2>1, <2>2
<1>6. Adds(sums)
  <2> HIDE DEF Adds
  <2> QED
    BY <1>5
<1> HIDE DEF sums
<1>7. sums[0] = 0 /\ \A m \in 1 .. n : sums[m] = sums[m - 1] + s[m]
  <2>1. \A m \in 1 .. n : m \in 0 .. n /\ m # 0
    OBVIOUS
  <2> QED
    BY <1>6, <2>1
<1> DEFINE T == {m \in 0 .. n : sums[m] \in Int}
<1>8. 0 \in T
  BY <1>7
<1>9. \A m \in 0 .. n - 1 : m \in T => m + 1 \in T
  <2> SUFFICES ASSUME NEW m \in 0 .. n - 1, m \in T
               PROVE  m + 1 \in T
    OBVIOUS
  <2>1. m + 1 \in 1 .. n /\ (m + 1) - 1 = m /\ s[m + 1] \in Int
    OBVIOUS
  <2> QED
    BY <1>7, <2>1
<1> HIDE DEF T
<1>10. \A m \in 0 .. n : m \in T
  BY <1>8, <1>9, InductTo, Zenon
<1>11. \A m \in 0 .. n : sums[m] \in Int
  BY <1>10 DEF T
<1>12. sums = [m \in 0 .. n |-> sums[m]]
  BY <1>6
<1>13. sums \in [0 .. n -> Int]
  BY <1>11, <1>12
<1> QED
  BY <1>1, <1>2, <1>7, <1>13 DEF Total, Summed

\* Of two sequences, the one never larger adds up to no more.
LEMMA SumsBelow ==
  ASSUME NEW n \in Nat, NEW s \in [1 .. n -> Int], NEW t \in [1 .. n -> Int],
         \A k \in 1 .. n : s[k] <= t[k]
  PROVE  \A m \in 0 .. n : Sums(s)[m] <= Sums(t)[m]
<1> DEFINE T == {m \in 0 .. n : Sums(s)[m] <= Sums(t)[m]}
<1>0. Summed(s, n) /\ Summed(t, n)
  BY SumsOf
<1>1. 0 \in T
  BY <1>0 DEF Summed
<1>2. \A m \in 0 .. n - 1 : m \in T => m + 1 \in T
  <2> SUFFICES ASSUME NEW m \in 0 .. n - 1, m \in T
               PROVE  m + 1 \in T
    OBVIOUS
  <2>1. m + 1 \in 1 .. n /\ (m + 1) - 1 = m /\ m \in 0 .. n /\ m + 1 \in 0 .. n
    OBVIOUS
  <2>2. /\ Sums(s)[m + 1] = Sums(s)[m] + s[m + 1] /\ Sums(t)[m + 1] = Sums(t)[m] + t[m + 1]
        /\ Sums(s)[m] \in Int /\ Sums(t)[m] \in Int
    BY <1>0, <2>1 DEF Summed
  <2>3. s[m + 1] <= t[m + 1] /\ s[m + 1] \in Int /\ t[m + 1] \in Int
    BY <2>1
  <2> QED
    BY <2>1, <2>2, <2>3
<1> HIDE DEF T
<1>3. \A m \in 0 .. n : m \in T
  BY <1>1, <1>2, InductTo, Zenon
<1> QED
  BY <1>3 DEF T

\* Naturals add up to naturals, and the more of them the more.
LEMMA SumsGrow ==
  ASSUME NEW n \in Nat, NEW s \in [1 .. n -> Nat]
  PROVE  \A m \in 0 .. n : Sums(s)[m] \in Nat /\ \A k \in 0 .. m : Sums(s)[k] <= Sums(s)[m]
<1> DEFINE Good(m) == Sums(s)[m] \in Nat /\ \A k \in 0 .. m : Sums(s)[k] <= Sums(s)[m]
           T == {m \in 0 .. n : Good(m)}
<1>1. Summed(s, n)
  <2>1. s \in [1 .. n -> Int]
    OBVIOUS
  <2> QED
    BY <2>1, SumsOf
<1>2. Good(0)
  BY <1>1 DEF Summed
<1>3. 0 \in T
  BY <1>2
<1>4. \A m \in 0 .. n - 1 : m \in T => m + 1 \in T
  <2> SUFFICES ASSUME NEW m \in 0 .. n - 1, m \in T
               PROVE  m + 1 \in T
    OBVIOUS
  <2>1. m + 1 \in 1 .. n /\ (m + 1) - 1 = m /\ m \in 0 .. n /\ m + 1 \in 0 .. n
    OBVIOUS
  <2>2. Sums(s)[m + 1] = Sums(s)[m] + s[m + 1] /\ s[m + 1] \in Nat
    BY <1>1, <2>1 DEF Summed
  <2>3. Good(m)
    OBVIOUS
  <2>4. ASSUME NEW k \in 0 .. m + 1
        PROVE  Sums(s)[k] <= Sums(s)[m + 1]
    <3>1. CASE k = m + 1
      BY <2>2, <2>3, <3>1
    <3>2. CASE k # m + 1
      <4>1. k \in 0 .. m /\ k \in 0 .. n
        BY <3>2
      <4>2. Sums(s)[k] <= Sums(s)[m] /\ Sums(s)[k] \in Int
        BY <1>1, <2>3, <4>1 DEF Summed
      <4> QED
        BY <2>2, <2>3, <4>2
    <3> QED
      BY <3>1, <3>2
  <2> QED
    BY <2>1, <2>2, <2>3, <2>4
<1> HIDE DEF T
<1>5. \A m \in 0 .. n : m \in T
  BY <1>3, <1>4, InductTo, Zenon
<1> QED
  BY <1>5 DEF T

\* What two sequences add up to is what their sums add up to.
LEMMA SumsAdd ==
  ASSUME NEW n \in Nat, NEW s \in [1 .. n -> Int], NEW t \in [1 .. n -> Int],
         NEW r \in [1 .. n -> Int], \A k \in 1 .. n : r[k] = s[k] + t[k]
  PROVE  Total(r) = Total(s) + Total(t)
<1> DEFINE T == {m \in 0 .. n : Sums(r)[m] = Sums(s)[m] + Sums(t)[m]}
<1>0. Summed(s, n) /\ Summed(t, n) /\ Summed(r, n)
  BY SumsOf
<1>1. 0 \in T
  BY <1>0 DEF Summed
<1>2. \A m \in 0 .. n - 1 : m \in T => m + 1 \in T
  <2> SUFFICES ASSUME NEW m \in 0 .. n - 1, m \in T
               PROVE  m + 1 \in T
    OBVIOUS
  <2>1. m + 1 \in 1 .. n /\ (m + 1) - 1 = m /\ m \in 0 .. n /\ m + 1 \in 0 .. n
    OBVIOUS
  <2>2. /\ Sums(s)[m + 1] = Sums(s)[m] + s[m + 1] /\ Sums(t)[m + 1] = Sums(t)[m] + t[m + 1]
        /\ Sums(r)[m + 1] = Sums(r)[m] + r[m + 1]
        /\ Sums(s)[m] \in Int /\ Sums(t)[m] \in Int /\ Sums(r)[m] \in Int
    BY <1>0, <2>1 DEF Summed
  <2>3. r[m + 1] = s[m + 1] + t[m + 1] /\ s[m + 1] \in Int /\ t[m + 1] \in Int
    BY <2>1
  <2> QED
    BY <2>1, <2>2, <2>3
<1> HIDE DEF T
<1>3. \A m \in 0 .. n : m \in T
  BY <1>1, <1>2, InductTo, Zenon
<1>4. n \in T
  BY <1>3
<1> QED
  BY <1>0, <1>4 DEF T, Summed

LEMMA TotalIsNat ==
  ASSUME NEW n \in Nat, NEW s \in [1 .. n -> Nat]
  PROVE  Total(s) \in Nat
<1>1. s \in [1 .. n -> Int] /\ n \in 0 .. n
  OBVIOUS
<1>2. Summed(s, n) /\ Sums(s)[n] \in Nat
  BY <1>1, SumsOf, SumsGrow
<1> QED
  BY <1>2 DEF Summed

LEMMA TotalsBelow ==
  ASSUME NEW n \in Nat, NEW s \in [1 .. n -> Nat], NEW t \in [1 .. n -> Nat],
         \A k \in 1 .. n : s[k] <= t[k]
  PROVE  Total(s) <= Total(t)
<1>1. s \in [1 .. n -> Int] /\ t \in [1 .. n -> Int] /\ n \in 0 .. n
  OBVIOUS
<1>2. Summed(s, n) /\ Summed(t, n)
  BY <1>1, SumsOf
<1>3. Sums(s)[n] <= Sums(t)[n]
  BY <1>1, SumsBelow
<1> QED
  BY <1>2, <1>3 DEF Summed

---------------------------------------------------------------------------
(* Nested blocks: what each costs, and what it holds.                      *)
BlockOp ==
  [name : STRING, inner : Nat, bytes : Nat, absorbed : BOOLEAN, unit : Nat, planned : BOOLEAN,
   counted : STRING, startKnown : BOOLEAN, trip : Nat, unique : BOOLEAN, rows : Nat]

\* A program by its blocks, the inner ones first: a loop, a scatter and a
\* call have one.
BlocksFormed(x) ==
  /\ x.blocks \in Seq(Seq(BlockOp)) /\ x.blocks # <<>>
  /\ \A b \in DOMAIN x.blocks : \A k \in DOMAIN x.blocks[b] :
       LET op == x.blocks[b][k]
       IN op.inner < b /\ (op.name \in {"while", "scatter", "call"} => op.inner # 0)
  /\ x.passthrough \in Nat /\ x.tape \in [DOMAIN x.blocks -> Nat]

LEMMA ProductsGrow ==
  ASSUME NEW a \in Nat, NEW b \in Nat, NEW c \in Nat, NEW d \in Nat, a <= c, b <= d
  PROVE  a * b \in Nat /\ c * d \in Nat /\ a * b <= c * d
<1>1. (c - a) * b >= 0 /\ c * (d - b) >= 0 /\ a * b >= 0 /\ c * d >= 0
  OBVIOUS
<1>2. (c - a) * b = c * b - a * b /\ c * (d - b) = c * d - c * b
  OBVIOUS
<1> QED
  BY <1>1, <1>2

LEMMA OpFields ==
  ASSUME NEW op \in BlockOp
  PROVE  /\ op.inner \in Nat /\ op.bytes \in Nat /\ op.unit \in Nat /\ op.trip \in Nat /\ op.rows \in Nat
         /\ op.absorbed \in BOOLEAN /\ op.planned \in BOOLEAN
         /\ ChargedTrip(op) \in Nat /\ ScatterExpansion(op) \in Nat
         /\ IsStatic(op) => op.trip <= ChargedTrip(op)
<1>1. /\ op.inner \in Nat /\ op.bytes \in Nat /\ op.unit \in Nat /\ op.trip \in Nat /\ op.rows \in Nat
      /\ op.absorbed \in BOOLEAN /\ op.planned \in BOOLEAN
  BY DEF BlockOp
<1>2. Max({op.trip, 1}) \in Nat /\ op.trip <= Max({op.trip, 1}) /\ Max({op.rows, 1}) \in Nat
  BY <1>1, LargerOfTwo
<1> QED
  BY <1>1, <1>2, LimitAssumption DEF ChargedTrip, ScatterExpansion

LEMMA BlocksAre ==
  ASSUME NEW x, BlocksFormed(x)
  PROVE  /\ Len(x.blocks) \in Nat \ {0} /\ DOMAIN x.blocks = 1 .. Len(x.blocks)
         /\ \A b \in DOMAIN x.blocks :
              /\ Len(x.blocks[b]) \in Nat /\ DOMAIN x.blocks[b] = 1 .. Len(x.blocks[b])
              /\ \A k \in DOMAIN x.blocks[b] :
                   /\ x.blocks[b][k] \in BlockOp /\ x.blocks[b][k].inner \in 0 .. b - 1
                   /\ x.blocks[b][k].inner # 0 => x.blocks[b][k].inner \in DOMAIN x.blocks
<1>1. Len(x.blocks) \in Nat \ {0} /\ DOMAIN x.blocks = 1 .. Len(x.blocks)
  BY DEF BlocksFormed
<1>2. ASSUME NEW b \in DOMAIN x.blocks
      PROVE  /\ Len(x.blocks[b]) \in Nat /\ DOMAIN x.blocks[b] = 1 .. Len(x.blocks[b])
             /\ \A k \in DOMAIN x.blocks[b] : x.blocks[b][k] \in BlockOp
  <2>1. x.blocks[b] \in Seq(BlockOp)
    BY <1>1 DEF BlocksFormed
  <2> QED
    BY <2>1
<1>3. ASSUME NEW b \in DOMAIN x.blocks, NEW k \in DOMAIN x.blocks[b]
      PROVE  x.blocks[b][k].inner \in 0 .. b - 1
  <2>1. x.blocks[b][k].inner \in Nat
    BY <1>2, OpFields
  <2>2. x.blocks[b][k].inner < b /\ b \in Nat
    BY <1>1 DEF BlocksFormed
  <2> QED
    BY <2>1, <2>2
<1> QED
  BY <1>1, <1>2, <1>3

Of(op, f) == IF op.inner = 0 THEN 0 ELSE f[op.inner]

LEMMA OpCostIsNat ==
  ASSUME NEW op \in BlockOp, NEW inner \in Nat
  PROVE  OpCost(op, inner) \in Nat
<1>1. ChargedTrip(op) * inner \in Nat /\ ScatterExpansion(op) * inner \in Nat
  BY OpFields, ProductsGrow
<1> QED
  BY <1>1, OpFields DEF OpCost

LEMMA OpBytesIsNat ==
  ASSUME NEW op \in BlockOp, NEW inner \in Nat
  PROVE  OpBytes(op, inner) \in Nat
<1>1. ChargedTrip(op) * inner \in Nat
  BY OpFields, ProductsGrow
<1> QED
  BY <1>1, OpFields DEF OpBytes

\* What each block is charged, and what it holds.
CostsIn(x, f, b) == [k \in DOMAIN x.blocks[b] |-> OpCost(x.blocks[b][k], Of(x.blocks[b][k], f))]
IsCost(x, f) == f = [b \in DOMAIN x.blocks |-> Total(CostsIn(x, f, b))]

LEMMA CostStep ==
  ASSUME NEW x, BlocksFormed(x), NEW b \in DOMAIN x.blocks, NEW f,
         \A m \in 1 .. b - 1 : f[m] \in Nat
  PROVE  CostsIn(x, f, b) \in [1 .. Len(x.blocks[b]) -> Nat] /\ Total(CostsIn(x, f, b)) \in Nat
<1>1. Len(x.blocks[b]) \in Nat /\ DOMAIN x.blocks[b] = 1 .. Len(x.blocks[b])
  BY BlocksAre
<1>2. ASSUME NEW k \in DOMAIN x.blocks[b]
      PROVE  OpCost(x.blocks[b][k], Of(x.blocks[b][k], f)) \in Nat
  <2> DEFINE op == x.blocks[b][k]
  <2>1. op \in BlockOp /\ op.inner \in 0 .. b - 1 /\ b \in Nat
    BY BlocksAre
  <2> HIDE DEF op
  <2>2. Of(op, f) \in Nat
    BY <2>1 DEF Of
  <2> QED
    BY <2>1, <2>2, OpCostIsNat DEF op
<1>3. CostsIn(x, f, b) \in [1 .. Len(x.blocks[b]) -> Nat]
  BY <1>1, <1>2 DEF CostsIn
<1>4. Total(CostsIn(x, f, b)) \in Nat
  BY <1>1, <1>3, TotalIsNat
<1> QED
  BY <1>3, <1>4

LEMMA CostIs ==
  ASSUME NEW x, BlocksFormed(x)
  PROVE  IsCost(x, BlockCost(x)) /\ BlockCost(x) \in [DOMAIN x.blocks -> Nat]
<1> DEFINE N == Len(x.blocks)
           W == [1 .. N -> Nat]
           step == [p \in W \X (1 .. N) |-> Total(CostsIn(x, p[1], p[2]))]
           cost == CHOOSE f : IsCost(x, f)
<1>1. N \in Nat /\ DOMAIN x.blocks = 1 .. N
  BY BlocksAre
<1>2. BlockCost(x) = cost
  BY DEF BlockCost, IsCost, CostsIn, Of
<1>3. \A f \in W, b \in 1 .. N : step[<<f, b>>] = Total(CostsIn(x, f, b))
  OBVIOUS
<1>4. ASSUME NEW f \in W, NEW b \in 1 .. N
      PROVE  Total(CostsIn(x, f, b)) \in Nat
  <2>1. \A m \in 1 .. b - 1 : f[m] \in Nat
    OBVIOUS
  <2> QED
    BY <1>1, <2>1, CostStep
<1>5. step \in [W \X (1 .. N) -> Nat]
  BY <1>4
<1>6. ASSUME NEW f \in W, NEW g \in W, NEW b \in 1 .. N, \A m \in 1 .. b - 1 : f[m] = g[m]
      PROVE  step[<<f, b>>] = step[<<g, b>>]
  <2>1. ASSUME NEW k \in DOMAIN x.blocks[b]
        PROVE  Of(x.blocks[b][k], f) = Of(x.blocks[b][k], g)
    <3>1. x.blocks[b][k].inner \in 0 .. b - 1
      BY <1>1, BlocksAre
    <3> QED
      BY <1>6, <3>1 DEF Of
  <2>2. CostsIn(x, f, b) = CostsIn(x, g, b)
    BY <2>1 DEF CostsIn
  <2> QED
    BY <1>3, <2>2
<1>7. LocalTo(step, N, Nat)
  <2> HIDE DEF step
  <2> QED
    BY <1>6 DEF LocalTo
<1> HIDE DEF step
<1>8. PICK f : FollowsSteps(f, step, N, Nat)
  <2>1. Steps(step, N, Nat)
    BY <1>1, <1>5, <1>7 DEF Steps
  <2> HIDE DEF N
  <2> QED
    BY <2>1, Course, Zenon
<1>9. IsCost(x, f)
  <2>1. f \in W /\ f = [b \in DOMAIN x.blocks |-> f[b]]
    BY <1>1, <1>8 DEF FollowsSteps
  <2>2. \A b \in 1 .. N : f[b] = Total(CostsIn(x, f, b))
    BY <1>3, <1>8, <2>1 DEF FollowsSteps
  <2> QED
    BY <1>1, <2>1, <2>2 DEF IsCost
<1>10. IsCost(x, cost)
  <2> HIDE DEF IsCost
  <2> QED
    BY <1>9
<1> HIDE DEF cost
<1> DEFINE T == {b \in 1 .. N : cost[b] \in Nat}
<1>11. ASSUME NEW b \in 1 .. N, 1 .. b - 1 \subseteq T
       PROVE  b \in T
  <2>1. \A m \in 1 .. b - 1 : cost[m] \in Nat
    BY <1>11
  <2>2. cost[b] = Total(CostsIn(x, cost, b))
    BY <1>1, <1>10 DEF IsCost
  <2>3. Total(CostsIn(x, cost, b)) \in Nat
    BY <1>1, <2>1, CostStep
  <2> QED
    BY <2>2, <2>3
<1> HIDE DEF T
<1>12. 1 .. N \subseteq T
  <2> HIDE DEF N
  <2> QED
    BY <1>1, <1>11, InductAll
<1>13. cost \in [DOMAIN x.blocks -> Nat]
  <2>1. \A b \in 1 .. N : cost[b] \in Nat
    BY <1>12 DEF T
  <2>2. cost = [b \in DOMAIN x.blocks |-> cost[b]]
    BY <1>10 DEF IsCost
  <2> QED
    BY <1>1, <2>1, <2>2
<1> QED
  BY <1>2, <1>10, <1>13

\* What each block materializes.
SizesIn(x, f, b) == [k \in DOMAIN x.blocks[b] |-> OpBytes(x.blocks[b][k], Of(x.blocks[b][k], f))]
IsBytes(x, f) == f = [b \in DOMAIN x.blocks |-> Total(SizesIn(x, f, b))]

LEMMA BytesStep ==
  ASSUME NEW x, BlocksFormed(x), NEW b \in DOMAIN x.blocks, NEW f,
         \A m \in 1 .. b - 1 : f[m] \in Nat
  PROVE  SizesIn(x, f, b) \in [1 .. Len(x.blocks[b]) -> Nat] /\ Total(SizesIn(x, f, b)) \in Nat
<1>1. Len(x.blocks[b]) \in Nat /\ DOMAIN x.blocks[b] = 1 .. Len(x.blocks[b])
  BY BlocksAre
<1>2. ASSUME NEW k \in DOMAIN x.blocks[b]
      PROVE  OpBytes(x.blocks[b][k], Of(x.blocks[b][k], f)) \in Nat
  <2> DEFINE op == x.blocks[b][k]
  <2>1. op \in BlockOp /\ op.inner \in 0 .. b - 1 /\ b \in Nat
    BY BlocksAre
  <2> HIDE DEF op
  <2>2. Of(op, f) \in Nat
    BY <2>1 DEF Of
  <2> QED
    BY <2>1, <2>2, OpBytesIsNat DEF op
<1>3. SizesIn(x, f, b) \in [1 .. Len(x.blocks[b]) -> Nat]
  BY <1>1, <1>2 DEF SizesIn
<1>4. Total(SizesIn(x, f, b)) \in Nat
  BY <1>1, <1>3, TotalIsNat
<1> QED
  BY <1>3, <1>4

LEMMA BytesIs ==
  ASSUME NEW x, BlocksFormed(x)
  PROVE  IsBytes(x, BlockBytes(x)) /\ BlockBytes(x) \in [DOMAIN x.blocks -> Nat]
<1> DEFINE N == Len(x.blocks)
           W == [1 .. N -> Nat]
           step == [p \in W \X (1 .. N) |-> Total(SizesIn(x, p[1], p[2]))]
           cost == CHOOSE f : IsBytes(x, f)
<1>1. N \in Nat /\ DOMAIN x.blocks = 1 .. N
  BY BlocksAre
<1>2. BlockBytes(x) = cost
  BY DEF BlockBytes, IsBytes, SizesIn, Of
<1>3. \A f \in W, b \in 1 .. N : step[<<f, b>>] = Total(SizesIn(x, f, b))
  OBVIOUS
<1>4. ASSUME NEW f \in W, NEW b \in 1 .. N
      PROVE  Total(SizesIn(x, f, b)) \in Nat
  <2>1. \A m \in 1 .. b - 1 : f[m] \in Nat
    OBVIOUS
  <2> QED
    BY <1>1, <2>1, BytesStep
<1>5. step \in [W \X (1 .. N) -> Nat]
  BY <1>4
<1>6. ASSUME NEW f \in W, NEW g \in W, NEW b \in 1 .. N, \A m \in 1 .. b - 1 : f[m] = g[m]
      PROVE  step[<<f, b>>] = step[<<g, b>>]
  <2>1. ASSUME NEW k \in DOMAIN x.blocks[b]
        PROVE  Of(x.blocks[b][k], f) = Of(x.blocks[b][k], g)
    <3>1. x.blocks[b][k].inner \in 0 .. b - 1
      BY <1>1, BlocksAre
    <3> QED
      BY <1>6, <3>1 DEF Of
  <2>2. SizesIn(x, f, b) = SizesIn(x, g, b)
    BY <2>1 DEF SizesIn
  <2> QED
    BY <1>3, <2>2
<1>7. LocalTo(step, N, Nat)
  <2> HIDE DEF step
  <2> QED
    BY <1>6 DEF LocalTo
<1> HIDE DEF step
<1>8. PICK f : FollowsSteps(f, step, N, Nat)
  <2>1. Steps(step, N, Nat)
    BY <1>1, <1>5, <1>7 DEF Steps
  <2> HIDE DEF N
  <2> QED
    BY <2>1, Course, Zenon
<1>9. IsBytes(x, f)
  <2>1. f \in W /\ f = [b \in DOMAIN x.blocks |-> f[b]]
    BY <1>1, <1>8 DEF FollowsSteps
  <2>2. \A b \in 1 .. N : f[b] = Total(SizesIn(x, f, b))
    BY <1>3, <1>8, <2>1 DEF FollowsSteps
  <2> QED
    BY <1>1, <2>1, <2>2 DEF IsBytes
<1>10. IsBytes(x, cost)
  <2> HIDE DEF IsBytes
  <2> QED
    BY <1>9
<1> HIDE DEF cost
<1> DEFINE T == {b \in 1 .. N : cost[b] \in Nat}
<1>11. ASSUME NEW b \in 1 .. N, 1 .. b - 1 \subseteq T
       PROVE  b \in T
  <2>1. \A m \in 1 .. b - 1 : cost[m] \in Nat
    BY <1>11
  <2>2. cost[b] = Total(SizesIn(x, cost, b))
    BY <1>1, <1>10 DEF IsBytes
  <2>3. Total(SizesIn(x, cost, b)) \in Nat
    BY <1>1, <2>1, BytesStep
  <2> QED
    BY <2>2, <2>3
<1> HIDE DEF T
<1>12. 1 .. N \subseteq T
  <2> HIDE DEF N
  <2> QED
    BY <1>1, <1>11, InductAll
<1>13. cost \in [DOMAIN x.blocks -> Nat]
  <2>1. \A b \in 1 .. N : cost[b] \in Nat
    BY <1>12 DEF T
  <2>2. cost = [b \in DOMAIN x.blocks |-> cost[b]]
    BY <1>10 DEF IsBytes
  <2> QED
    BY <1>1, <2>1, <2>2
<1> QED
  BY <1>2, <1>10, <1>13

\* Which blocks are pure.
PureOp(x, f, op) ==
  /\ op.name \notin {"if", "host"}
  /\ op.name = "while" => WhileTraceable(BlockCost(x), BlockBytes(x), f, op)
  /\ op.name # "while" /\ op.inner # 0 => f[op.inner]
PureIn(x, f, b) == \A k \in DOMAIN x.blocks[b] : PureOp(x, f, x.blocks[b][k])
IsPure(x, f) == f = [b \in DOMAIN x.blocks |-> PureIn(x, f, b)]

LEMMA PureIs ==
  ASSUME NEW x, BlocksFormed(x)
  PROVE  IsPure(x, BlockIsPure(x))
<1> DEFINE N == Len(x.blocks)
           W == [1 .. N -> BOOLEAN]
           step == [p \in W \X (1 .. N) |-> PureIn(x, p[1], p[2])]
           pure == CHOOSE f : IsPure(x, f)
<1>1. N \in Nat /\ DOMAIN x.blocks = 1 .. N
  BY BlocksAre
<1>2. BlockIsPure(x) = pure
  BY DEF BlockIsPure, IsPure, PureIn, PureOp
<1>3. \A f \in W, b \in 1 .. N : step[<<f, b>>] = PureIn(x, f, b) /\ PureIn(x, f, b) \in BOOLEAN
  BY DEF PureIn
<1>4. step \in [W \X (1 .. N) -> BOOLEAN]
  BY <1>3
<1>5. ASSUME NEW f \in W, NEW g \in W, NEW b \in 1 .. N, \A m \in 1 .. b - 1 : f[m] = g[m]
      PROVE  step[<<f, b>>] = step[<<g, b>>]
  <2>1. ASSUME NEW k \in DOMAIN x.blocks[b]
        PROVE  PureOp(x, f, x.blocks[b][k]) <=> PureOp(x, g, x.blocks[b][k])
    <3> DEFINE op == x.blocks[b][k]
    <3>1. op.inner \in 0 .. b - 1 /\ (op.name = "while" => op.inner # 0)
      BY <1>1, BlocksAre DEF BlocksFormed
    <3> HIDE DEF op
    <3>2. op.inner # 0 => f[op.inner] = g[op.inner]
      BY <1>5, <3>1
    <3>3. op.inner # 0 => (f[op.inner] <=> g[op.inner])
      BY <3>2
    <3>4. op.name = "while" =>
            (WhileTraceable(BlockCost(x), BlockBytes(x), f, op) <=> WhileTraceable(BlockCost(x), BlockBytes(x), g, op))
      BY <3>1, <3>3 DEF WhileTraceable
    <3>5. PureOp(x, f, op) <=> PureOp(x, g, op)
      BY <3>3, <3>4 DEF PureOp
    <3> QED
      BY <3>5 DEF op
  <2>2. PureIn(x, f, b) <=> PureIn(x, g, b)
    BY <2>1 DEF PureIn
  <2> HIDE DEF step
  <2> QED
    BY <1>3, <2>2
<1> HIDE DEF step
<1>6. PICK f : FollowsSteps(f, step, N, BOOLEAN)
  <2>1. LocalTo(step, N, BOOLEAN)
    BY <1>5 DEF LocalTo
  <2>2. Steps(step, N, BOOLEAN)
    BY <1>1, <1>4, <2>1 DEF Steps
  <2> HIDE DEF N
  <2> QED
    BY <2>2, Course, Zenon
<1>7. IsPure(x, f)
  <2>1. f \in W /\ f = [b \in DOMAIN x.blocks |-> f[b]]
    BY <1>1, <1>6 DEF FollowsSteps
  <2>2. \A b \in 1 .. N : f[b] = PureIn(x, f, b)
    BY <1>3, <1>6, <2>1 DEF FollowsSteps
  <2> QED
    BY <1>1, <2>1, <2>2 DEF IsPure
<1>8. IsPure(x, pure)
  <2> HIDE DEF IsPure
  <2> QED
    BY <1>7
<1> QED
  BY <1>2, <1>8

\* What each block becomes in a trace.
Traced == [ok : BOOLEAN, ops : Nat, bytes : Nat]
TraceOf(op, f) == IF op.inner = 0 THEN NotTraced ELSE f[op.inner]
TracesIn(x, f, b) == [k \in DOMAIN x.blocks[b] |-> TraceOp(x.blocks[b][k], TraceOf(x.blocks[b][k], f))]
TraceIn(x, f, b) ==
  LET of == TracesIn(x, f, b)
  IN [ok |-> \A k \in DOMAIN x.blocks[b] : of[k].ok,
      ops |-> Total([k \in DOMAIN x.blocks[b] |-> of[k].ops]),
      bytes |-> Total([k \in DOMAIN x.blocks[b] |-> of[k].bytes])]
IsTrace(x, f) == f = [b \in DOMAIN x.blocks |-> TraceIn(x, f, b)]

LEMMA TracedFields ==
  ASSUME NEW t \in Traced
  PROVE  t.ok \in BOOLEAN /\ t.ops \in Nat /\ t.bytes \in Nat
BY DEF Traced

LEMMA TraceOpIsTraced ==
  ASSUME NEW op \in BlockOp, NEW t \in Traced
  PROVE  TraceOp(op, t) \in Traced
<1>1. /\ op.trip \in Nat /\ op.bytes \in Nat /\ op.trip * t.ops \in Nat /\ op.trip * t.bytes \in Nat
      /\ ScatterExpansion(op) * t.ops \in Nat
  BY OpFields, TracedFields, ProductsGrow
<1>2. t.ok \in BOOLEAN /\ (op.trip = 0 \/ t.ok) \in BOOLEAN /\ 1 + ScatterExpansion(op) * t.ops \in Nat
  BY <1>1, TracedFields
<1>3. CASE op.absorbed \/ op.unit # 0 \/ IsPlanned(op)
  BY <1>1, <1>3 DEF TraceOp, Traced
<1>4. CASE ~ (op.absorbed \/ op.unit # 0 \/ IsPlanned(op))
  <2>1. CASE op.name \in {"if", "host"}
    BY <1>4, <2>1 DEF TraceOp, Traced, NotTraced
  <2>2. CASE op.name = "while"
    <3>1. TraceOp(op, t) = IF ~ IsStatic(op) \/ op.trip > UnrollMax THEN NotTraced
                           ELSE [ok |-> op.trip = 0 \/ t.ok, ops |-> op.trip * t.ops, bytes |-> op.trip * t.bytes]
      BY <1>4, <2>2 DEF TraceOp
    <3>2. NotTraced \in Traced
      BY DEF Traced, NotTraced
    <3>3. [ok |-> op.trip = 0 \/ t.ok, ops |-> op.trip * t.ops, bytes |-> op.trip * t.bytes] \in Traced
      BY <1>1, <1>2 DEF Traced
    <3> QED
      BY <3>1, <3>2, <3>3
  <2>3. CASE op.name = "scatter"
    <3>1. TraceOp(op, t) = [ok |-> t.ok, ops |-> 1 + ScatterExpansion(op) * t.ops, bytes |-> op.bytes]
      BY <1>4, <2>3 DEF TraceOp
    <3> QED
      BY <1>1, <1>2, <3>1 DEF Traced
  <2>4. CASE op.name = "call"
    BY <1>4, <2>4 DEF TraceOp
  <2>5. CASE op.name \notin {"if", "host", "while", "scatter", "call"}
    BY <1>1, <1>4, <2>5 DEF TraceOp, Traced
  <2> QED
    BY <2>1, <2>2, <2>3, <2>4, <2>5
<1> QED
  BY <1>3, <1>4

LEMMA TraceStep ==
  ASSUME NEW x, BlocksFormed(x), NEW b \in DOMAIN x.blocks, NEW f,
         \A m \in 1 .. b - 1 : f[m] \in Traced
  PROVE  TracesIn(x, f, b) \in [1 .. Len(x.blocks[b]) -> Traced] /\ TraceIn(x, f, b) \in Traced
<1> DEFINE n == Len(x.blocks[b])
           of == TracesIn(x, f, b)
<1>1. n \in Nat /\ DOMAIN x.blocks[b] = 1 .. n
  BY BlocksAre
<1>2. ASSUME NEW k \in DOMAIN x.blocks[b]
      PROVE  TraceOp(x.blocks[b][k], TraceOf(x.blocks[b][k], f)) \in Traced
  <2> DEFINE op == x.blocks[b][k]
  <2>1. op \in BlockOp /\ op.inner \in 0 .. b - 1 /\ b \in Nat
    BY BlocksAre
  <2> HIDE DEF op
  <2>2. NotTraced \in Traced
    BY DEF Traced, NotTraced
  <2>3. TraceOf(op, f) \in Traced
    BY <2>1, <2>2 DEF TraceOf
  <2> QED
    BY <2>1, <2>3, TraceOpIsTraced DEF op
<1>3. of \in [1 .. n -> Traced]
  BY <1>1, <1>2 DEF TracesIn
<1> HIDE DEF of, n
<1> DEFINE p == [k \in 1 .. n |-> of[k].ops]
           q == [k \in 1 .. n |-> of[k].bytes]
<1>4. p \in [1 .. n -> Nat] /\ q \in [1 .. n -> Nat]
  BY <1>3, TracedFields
<1>5. TraceIn(x, f, b) = [ok |-> \A k \in 1 .. n : of[k].ok, ops |-> Total(p), bytes |-> Total(q)]
  BY <1>1 DEF TraceIn, of
<1> HIDE DEF p, q
<1>6. Total(p) \in Nat /\ Total(q) \in Nat
  BY <1>1, <1>4, TotalIsNat
<1>7. TraceIn(x, f, b) \in Traced
  BY <1>5, <1>6 DEF Traced
<1> QED
  BY <1>3, <1>7 DEF of, n

LEMMA TraceIs ==
  ASSUME NEW x, BlocksFormed(x)
  PROVE  IsTrace(x, Trace(x)) /\ Trace(x) \in [DOMAIN x.blocks -> Traced]
<1> DEFINE N == Len(x.blocks)
           W == [1 .. N -> Traced]
           step == [p \in W \X (1 .. N) |-> TraceIn(x, p[1], p[2])]
           trace == CHOOSE f : IsTrace(x, f)
<1>1. N \in Nat /\ DOMAIN x.blocks = 1 .. N
  BY BlocksAre
<1>2. Trace(x) = trace
  BY DEF Trace, IsTrace, TraceIn, TracesIn, TraceOf
<1>3. \A f \in W, b \in 1 .. N : step[<<f, b>>] = TraceIn(x, f, b)
  OBVIOUS
<1>4. ASSUME NEW f \in W, NEW b \in 1 .. N
      PROVE  TraceIn(x, f, b) \in Traced
  <2>1. \A m \in 1 .. b - 1 : f[m] \in Traced
    OBVIOUS
  <2> QED
    BY <1>1, <2>1, TraceStep
<1>5. step \in [W \X (1 .. N) -> Traced]
  BY <1>4
<1>6. ASSUME NEW f \in W, NEW g \in W, NEW b \in 1 .. N, \A m \in 1 .. b - 1 : f[m] = g[m]
      PROVE  step[<<f, b>>] = step[<<g, b>>]
  <2>1. ASSUME NEW k \in DOMAIN x.blocks[b]
        PROVE  TraceOf(x.blocks[b][k], f) = TraceOf(x.blocks[b][k], g)
    <3>1. x.blocks[b][k].inner \in 0 .. b - 1
      BY <1>1, BlocksAre
    <3> QED
      BY <1>6, <3>1 DEF TraceOf
  <2>2. TracesIn(x, f, b) = TracesIn(x, g, b)
    BY <2>1 DEF TracesIn
  <2> QED
    BY <1>3, <2>2 DEF TraceIn
<1>7. LocalTo(step, N, Traced)
  <2> HIDE DEF step
  <2> QED
    BY <1>6 DEF LocalTo
<1> HIDE DEF step
<1>8. PICK f : FollowsSteps(f, step, N, Traced)
  <2>1. NotTraced \in Traced
    BY DEF Traced, NotTraced
  <2>2. Steps(step, N, Traced)
    BY <1>1, <1>5, <1>7, <2>1 DEF Steps
  <2> HIDE DEF N
  <2> QED
    BY <2>2, Course, Zenon
<1>9. IsTrace(x, f)
  <2>1. f \in W /\ f = [b \in DOMAIN x.blocks |-> f[b]]
    BY <1>1, <1>8 DEF FollowsSteps
  <2>2. \A b \in 1 .. N : f[b] = TraceIn(x, f, b)
    BY <1>3, <1>8, <2>1 DEF FollowsSteps
  <2> QED
    BY <1>1, <2>1, <2>2 DEF IsTrace
<1>10. IsTrace(x, trace)
  <2> HIDE DEF IsTrace
  <2> QED
    BY <1>9
<1> HIDE DEF trace
<1> DEFINE T == {b \in 1 .. N : trace[b] \in Traced}
<1>11. ASSUME NEW b \in 1 .. N, 1 .. b - 1 \subseteq T
       PROVE  b \in T
  <2>1. \A m \in 1 .. b - 1 : trace[m] \in Traced
    BY <1>11
  <2>2. trace[b] = TraceIn(x, trace, b)
    BY <1>1, <1>10 DEF IsTrace
  <2>3. TraceIn(x, trace, b) \in Traced
    BY <1>1, <2>1, TraceStep
  <2> QED
    BY <2>2, <2>3
<1> HIDE DEF T
<1>12. 1 .. N \subseteq T
  <2> HIDE DEF N
  <2> QED
    BY <1>1, <1>11, InductAll
<1>13. trace \in [DOMAIN x.blocks -> Traced]
  <2>1. \A b \in 1 .. N : trace[b] \in Traced
    BY <1>12 DEF T
  <2>2. trace = [b \in DOMAIN x.blocks |-> trace[b]]
    BY <1>10 DEF IsTrace
  <2> QED
    BY <1>1, <2>1, <2>2
<1> QED
  BY <1>2, <1>10, <1>13

\* An op of a trace is no more, and holds no more, than it was charged.
LEMMA OpCharged ==
  ASSUME NEW op \in BlockOp, NEW t \in Traced, NEW c \in Nat, NEW d \in Nat,
         t.ops <= c, t.bytes <= d
  PROVE  TraceOp(op, t).ops <= OpCost(op, c) /\ TraceOp(op, t).bytes <= OpBytes(op, d)
<1>1. /\ op.trip \in Nat /\ op.bytes \in Nat /\ op.unit \in Nat /\ t.ops \in Nat /\ t.bytes \in Nat
      /\ ChargedTrip(op) \in Nat /\ ScatterExpansion(op) \in Nat
      /\ IsStatic(op) => op.trip <= ChargedTrip(op)
  BY OpFields, TracedFields
<1>2. /\ op.trip * t.ops \in Nat /\ op.trip * t.bytes \in Nat /\ ScatterExpansion(op) * t.ops \in Nat
      /\ ChargedTrip(op) * c \in Nat /\ ChargedTrip(op) * d \in Nat /\ ScatterExpansion(op) * c \in Nat
      /\ ScatterExpansion(op) * t.ops <= ScatterExpansion(op) * c
  BY <1>1, ProductsGrow
<1>3. IsStatic(op) => op.trip * t.ops <= ChargedTrip(op) * c /\ op.trip * t.bytes <= ChargedTrip(op) * d
  BY <1>1, ProductsGrow
<1>4. CASE op.absorbed
  BY <1>4 DEF TraceOp, OpCost, OpBytes
<1>5. CASE ~ op.absorbed /\ (op.unit # 0 \/ IsPlanned(op))
  <2>1. TraceOp(op, t).ops = 1 /\ TraceOp(op, t).bytes = op.bytes
    BY <1>5 DEF TraceOp
  <2>2. OpCost(op, c) >= 1
    BY <1>1, <1>5 DEF OpCost
  <2>3. OpBytes(op, d) >= op.bytes
    <3>1. CASE IsPlanned(op)
      BY <1>1, <1>5, <3>1 DEF OpBytes
    <3>2. CASE ~ IsPlanned(op) /\ op.name = "while"
      BY <1>1, <1>2, <1>5, <3>2 DEF OpBytes, IsPlanned
    <3>3. CASE ~ IsPlanned(op) /\ op.name # "while"
      BY <1>1, <1>5, <3>3 DEF OpBytes
    <3> QED
      BY <3>1, <3>2, <3>3
  <2> QED
    BY <1>1, <2>1, <2>2, <2>3, OpCostIsNat, OpBytesIsNat
<1>6. CASE ~ op.absorbed /\ op.unit = 0 /\ ~ IsPlanned(op)
  <2>1. CASE op.name = "while"
    <3>1. ~ op.planned
      BY <1>6, <2>1 DEF IsPlanned
    <3>2. OpCost(op, c) = 1 + ChargedTrip(op) * c /\ OpBytes(op, d) = op.bytes + ChargedTrip(op) * d
      BY <1>6, <2>1, <3>1 DEF OpCost, OpBytes
    <3>3. TraceOp(op, t) = IF ~ IsStatic(op) \/ op.trip > UnrollMax THEN NotTraced
                           ELSE [ok |-> op.trip = 0 \/ t.ok, ops |-> op.trip * t.ops, bytes |-> op.trip * t.bytes]
      BY <1>6, <2>1 DEF TraceOp
    <3>4. CASE ~ IsStatic(op) \/ op.trip > UnrollMax
      <4>1. TraceOp(op, t).ops = 0 /\ TraceOp(op, t).bytes = 0
        BY <3>3, <3>4 DEF NotTraced
      <4> QED
        BY <1>1, <1>2, <3>2, <4>1
    <3>5. CASE ~ (~ IsStatic(op) \/ op.trip > UnrollMax)
      <4>1. TraceOp(op, t).ops = op.trip * t.ops /\ TraceOp(op, t).bytes = op.trip * t.bytes
        BY <3>3, <3>5
      <4> QED
        BY <1>1, <1>2, <1>3, <3>2, <3>5, <4>1
    <3> QED
      BY <3>4, <3>5
  <2>2. CASE op.name = "scatter"
    <3>1. OpCost(op, c) = 1 + ScatterExpansion(op) * c /\ OpBytes(op, d) = op.bytes + d
      BY <1>6, <2>2 DEF OpCost, OpBytes
    <3>2. TraceOp(op, t).ops = 1 + ScatterExpansion(op) * t.ops /\ TraceOp(op, t).bytes = op.bytes
      BY <1>6, <2>2 DEF TraceOp
    <3> QED
      BY <1>1, <1>2, <3>1, <3>2
  <2>3. CASE op.name \notin {"while", "scatter"}
    <3>1. OpCost(op, c) = 1 + c /\ OpBytes(op, d) = op.bytes + d
      BY <1>6, <2>3 DEF OpCost, OpBytes
    <3>2. CASE op.name \in {"if", "host"}
      <4>1. TraceOp(op, t).ops = 0 /\ TraceOp(op, t).bytes = 0
        BY <1>6, <3>2 DEF TraceOp, NotTraced
      <4> QED
        BY <1>1, <3>1, <4>1
    <3>3. CASE op.name = "call"
      <4>1. TraceOp(op, t) = t
        BY <1>6, <3>3 DEF TraceOp
      <4> QED
        BY <1>1, <3>1, <4>1
    <3>4. CASE op.name \notin {"if", "host", "call"}
      <4>1. TraceOp(op, t).ops = 1 /\ TraceOp(op, t).bytes = op.bytes
        BY <1>6, <2>3, <3>4 DEF TraceOp
      <4> QED
        BY <1>1, <3>1, <4>1
    <3> QED
      BY <3>2, <3>3, <3>4
  <2> QED
    BY <2>1, <2>2, <2>3
<1> QED
  BY <1>4, <1>5, <1>6

\* Tracing a pure op is refused nowhere, if it is not inside.
LEMMA PureOpIsOk ==
  ASSUME NEW x, NEW f, NEW op \in BlockOp, NEW t \in Traced, PureOp(x, f, op),
         op.name \in {"while", "scatter", "call"} => op.inner # 0,
         op.inner # 0 /\ f[op.inner] => t.ok
  PROVE  TraceOp(op, t).ok
<1>1. op.trip \in Nat /\ UnrollMax \in Int /\ t.ok \in BOOLEAN
  BY OpFields, TracedFields, LimitAssumption
<1>2. CASE op.absorbed \/ op.unit # 0 \/ IsPlanned(op)
  BY <1>2 DEF TraceOp
<1>3. CASE ~ (op.absorbed \/ op.unit # 0 \/ IsPlanned(op))
  <2>1. op.name \notin {"if", "host"}
    BY DEF PureOp
  <2>2. CASE op.name = "while"
    <3>1. WhileTraceable(BlockCost(x), BlockBytes(x), f, op) /\ ~ op.planned
      BY <1>3, <2>2 DEF PureOp, IsPlanned
    <3>2. IsStatic(op) /\ op.trip <= UnrollMax /\ f[op.inner]
      BY <3>1 DEF WhileTraceable
    <3>3. t.ok
      BY <2>2, <3>2
    <3>4. TraceOp(op, t) = [ok |-> op.trip = 0 \/ t.ok, ops |-> op.trip * t.ops, bytes |-> op.trip * t.bytes]
      BY <1>1, <1>3, <2>2, <3>2 DEF TraceOp
    <3>5. (op.trip = 0 \/ t.ok) = TRUE
      BY <3>3
    <3>6. TraceOp(op, t) = [ok |-> TRUE, ops |-> op.trip * t.ops, bytes |-> op.trip * t.bytes]
      BY <3>4, <3>5
    <3> QED
      BY <3>6
  <2>3. CASE op.name \in {"scatter", "call"}
    <3>1. t.ok
      BY <2>3 DEF PureOp
    <3>2. TraceOp(op, t).ok = t.ok
      BY <1>3, <2>3 DEF TraceOp
    <3> QED
      BY <3>1, <3>2
  <2>4. CASE op.name \notin {"while", "scatter", "call"}
    BY <1>3, <2>1, <2>4 DEF TraceOp
  <2> QED
    BY <2>2, <2>3, <2>4
<1> QED
  BY <1>2, <1>3

\* What a block becomes in a trace is what it was charged at most, and it
\* is traced if it is pure.
Charged(x, b) ==
  /\ Trace(x)[b].ops <= BlockCost(x)[b] /\ Trace(x)[b].bytes <= BlockBytes(x)[b]
  /\ BlockIsPure(x)[b] => Trace(x)[b].ok

LEMMA TracesCharged ==
  ASSUME NEW x, BlocksFormed(x)
  PROVE  \A b \in DOMAIN x.blocks : Charged(x, b)
<1> DEFINE N == Len(x.blocks)
           trace == Trace(x)
           cost == BlockCost(x)
           size == BlockBytes(x)
           pure == BlockIsPure(x)
           T == {b \in 1 .. N : Charged(x, b)}
<1>1. N \in Nat /\ DOMAIN x.blocks = 1 .. N
  BY BlocksAre
<1>2. /\ IsTrace(x, trace) /\ trace \in [1 .. N -> Traced]
      /\ IsCost(x, cost) /\ cost \in [1 .. N -> Nat]
      /\ IsBytes(x, size) /\ size \in [1 .. N -> Nat] /\ IsPure(x, pure)
  BY <1>1, TraceIs, CostIs, BytesIs, PureIs
<1>3. ASSUME NEW b \in 1 .. N, 1 .. b - 1 \subseteq T
      PROVE  b \in T
  <2> DEFINE n == Len(x.blocks[b])
             of == TracesIn(x, trace, b)
             costs == CostsIn(x, cost, b)
             sizes == SizesIn(x, size, b)
  <2>1. /\ b \in DOMAIN x.blocks /\ n \in Nat /\ DOMAIN x.blocks[b] = 1 .. n
        /\ \A k \in 1 .. n : /\ x.blocks[b][k] \in BlockOp /\ x.blocks[b][k].inner \in 0 .. b - 1
                             /\ x.blocks[b][k].inner # 0 => x.blocks[b][k].inner \in 1 .. N
    BY <1>1, BlocksAre
  <2>2. \A m \in 1 .. b - 1 : /\ trace[m].ops <= cost[m] /\ trace[m].bytes <= size[m]
                              /\ pure[m] => trace[m].ok
    BY <1>3 DEF Charged
  <2>3. \A m \in 1 .. b - 1 : trace[m] \in Traced /\ cost[m] \in Nat /\ size[m] \in Nat
    BY <1>2
  <2>4. of \in [1 .. n -> Traced]
    BY <2>1, <2>3, TraceStep
  <2>5. costs \in [1 .. n -> Nat] /\ sizes \in [1 .. n -> Nat]
    BY <2>1, <2>3, CostStep, BytesStep
  <2>6. trace[b] = TraceIn(x, trace, b) /\ cost[b] = Total(costs) /\ size[b] = Total(sizes)
    BY <1>2, <2>1 DEF IsTrace, IsCost, IsBytes
  <2>7. pure[b] <=> PureIn(x, pure, b)
    BY <1>2, <2>1 DEF IsPure
  <2> HIDE DEF trace, cost, size, pure, T
  <2>8. ASSUME NEW k \in 1 .. n
        PROVE  of[k].ops <= costs[k] /\ of[k].bytes <= sizes[k] /\ (pure[b] => of[k].ok)
    <3> DEFINE op == x.blocks[b][k]
               t == TraceOf(op, trace)
               c == Of(op, cost)
               d == Of(op, size)
    <3>1. of[k] = TraceOp(op, t) /\ costs[k] = OpCost(op, c) /\ sizes[k] = OpBytes(op, d)
      BY <2>1 DEF TracesIn, CostsIn, SizesIn
    <3>2. op \in BlockOp /\ op.inner \in 0 .. b - 1 /\ (op.name \in {"while", "scatter", "call"} => op.inner # 0)
      BY <2>1 DEF BlocksFormed
    <3>3. pure[b] => PureOp(x, pure, op)
      BY <2>1, <2>7 DEF PureIn
    <3> HIDE DEF op, of, costs, sizes
    <3>4. NotTraced \in Traced /\ NotTraced.ops = 0 /\ NotTraced.bytes = 0
      BY DEF NotTraced, Traced
    <3>5. t \in Traced /\ c \in Nat /\ d \in Nat /\ t.ops <= c /\ t.bytes <= d
      BY <2>2, <2>3, <3>2, <3>4 DEF TraceOf, Of
    <3>6. op.inner # 0 /\ pure[op.inner] => t.ok
      BY <2>2, <3>2 DEF TraceOf
    <3> HIDE DEF t, c, d
    <3>7. TraceOp(op, t).ops <= OpCost(op, c) /\ TraceOp(op, t).bytes <= OpBytes(op, d)
      BY <3>2, <3>5, OpCharged
    <3>8. pure[b] => TraceOp(op, t).ok
      BY <3>2, <3>3, <3>5, <3>6, PureOpIsOk
    <3> QED
      BY <3>1, <3>7, <3>8
  <2>9. TraceIn(x, trace, b) = [ok |-> \A k \in 1 .. n : of[k].ok, ops |-> Total([k \in 1 .. n |-> of[k].ops]),
                                bytes |-> Total([k \in 1 .. n |-> of[k].bytes])]
    BY <2>1 DEF TraceIn
  <2> DEFINE p == [k \in 1 .. n |-> of[k].ops]
             q == [k \in 1 .. n |-> of[k].bytes]
  <2> HIDE DEF of, costs, sizes, n
  <2>10. p \in [1 .. n -> Nat] /\ q \in [1 .. n -> Nat]
    BY <2>4, TracedFields
  <2>11. (\A k \in 1 .. n : p[k] <= costs[k]) /\ (\A k \in 1 .. n : q[k] <= sizes[k])
    BY <2>8
  <2>12. Total(p) <= Total(costs) /\ Total(q) <= Total(sizes)
    <3> HIDE DEF p, q
    <3> QED
      BY <2>1, <2>5, <2>10, <2>11, TotalsBelow
  <2>13. trace[b].ops <= cost[b] /\ trace[b].bytes <= size[b] /\ (pure[b] => trace[b].ok)
    <3>1. trace[b].ops = Total(p) /\ trace[b].bytes = Total(q) /\ trace[b].ok = \A k \in 1 .. n : of[k].ok
      BY <2>6, <2>9
    <3> HIDE DEF p, q
    <3>2. pure[b] => \A k \in 1 .. n : of[k].ok
      BY <2>8
    <3> QED
      BY <2>6, <2>12, <3>1, <3>2
  <2> QED
    BY <2>13 DEF T, Charged, trace, cost, size, pure
<1> HIDE DEF T
<1>4. 1 .. N \subseteq T
  <2> HIDE DEF N
  <2> QED
    BY <1>1, <1>3, InductAll
<1> QED
  BY <1>1, <1>4 DEF T

\* What is compiled whole is traced, within what it may materialize, and none
\* of its unrolled loops is more ops than a trace may hold.
LEMMA WholeFits ==
  ASSUME NEW x, BlocksFormed(x), CompileMain(x)
  PROVE  /\ Trace(x)[Len(x.blocks)].ok
         /\ CompileBytes > 0 => Trace(x)[Len(x.blocks)].bytes <= CompileBytes
<1> DEFINE main == Len(x.blocks)
           size == BlockBytes(x)[main]
           held == Trace(x)[main].bytes
<1>1. main \in DOMAIN x.blocks
  BY BlocksAre
<1>2. Charged(x, main)
  BY <1>1, TracesCharged
<1>3. BlockIsPure(x)[main] /\ BytesOk(size + x.passthrough, 1)
  BY DEF CompileMain, ProgramBytes
<1>4. size \in Nat /\ held \in Nat /\ x.passthrough \in Nat /\ CompileBytes \in Int
  BY <1>1, BytesIs, TraceIs, TracedFields, LimitAssumption DEF BlocksFormed
<1>5. held <= size
  BY <1>2 DEF Charged
<1>6. CompileBytes > 0 => 1 * (size + x.passthrough) <= CompileBytes
  BY <1>3, <1>4 DEF BytesOk
<1> HIDE DEF size, held
<1>7. CompileBytes > 0 => held <= CompileBytes
  BY <1>4, <1>5, <1>6
<1> QED
  BY <1>2, <1>3, <1>7 DEF Charged, held

LEMMA UnrolledFits ==
  ASSUME NEW x, BlocksFormed(x), NEW b \in DOMAIN x.blocks, NEW k \in DOMAIN x.blocks[b],
         IsStatic(x.blocks[b][k]), ~ x.blocks[b][k].planned, BlockIsPure(x)[b]
  PROVE  x.blocks[b][k].trip * Trace(x)[x.blocks[b][k].inner].ops <= TraceBudget
<1> DEFINE op == x.blocks[b][k]
           inner == op.inner
           cost == BlockCost(x)[inner]
           ops == Trace(x)[inner].ops
<1>1. op \in BlockOp /\ op.name = "while" /\ ~ op.planned
  BY BlocksAre DEF IsStatic
<1>2. inner \in DOMAIN x.blocks
  BY <1>1, BlocksAre DEF BlocksFormed
<1>3. PureIn(x, BlockIsPure(x), b)
  BY PureIs DEF IsPure
<1>4. PureOp(x, BlockIsPure(x), op)
  BY <1>3 DEF PureIn
<1>5. op.trip * cost <= TraceBudget
  <2> HIDE DEF op
  <2> QED
    BY <1>1, <1>4 DEF PureOp, WhileTraceable
<1>6. op.trip \in Nat /\ cost \in Nat /\ ops \in Nat /\ TraceBudget \in Int
  BY <1>1, <1>2, OpFields, CostIs, TraceIs, TracedFields, LimitAssumption
<1>7. ops <= cost
  BY <1>2, TracesCharged DEF Charged
<1> HIDE DEF op, cost, ops
<1>8. op.trip * ops \in Nat /\ op.trip * cost \in Nat /\ op.trip * ops <= op.trip * cost
  BY <1>6, <1>7, ProductsGrow
<1>9. op.trip * ops <= TraceBudget
  BY <1>5, <1>6, <1>8
<1> QED
  BY <1>9 DEF op, ops

\* The smallest of two, and of four.
LEMMA SmallerOfTwo ==
  ASSUME NEW a \in Int, NEW b \in Int
  PROVE  Min({a, b}) = IF a <= b THEN a ELSE b
<1> DEFINE m == IF a <= b THEN a ELSE b
<1>1. m \in {a, b} /\ \A y \in {a, b} : m <= y
  OBVIOUS
<1> QED
  BY <1>1, LeastIs

LEMMA SmallestOfFour ==
  ASSUME NEW a \in Int, NEW b \in Int, NEW c \in Int, NEW d \in Int
  PROVE  Min({a, b, c, d}) \in Int /\ Min({a, b, c, d}) <= a /\ Min({a, b, c, d}) <= c
<1> DEFINE p == IF a <= b THEN a ELSE b
           q == IF c <= d THEN c ELSE d
           m == IF p <= q THEN p ELSE q
           S == {a, b, c, d}
<1>1. m \in S /\ \A y \in S : m <= y
  OBVIOUS
<1>2. S \in SUBSET Int /\ m \in Int /\ m <= a /\ m <= c
  OBVIOUS
<1> HIDE DEF m, S
<1>3. Min(S) = m
  BY <1>1, <1>2, LeastIs
<1> QED
  BY <1>2, <1>3 DEF S

\* A chunk of more than one iteration is bounded by the cost of one and by
\* what one materializes.
LEMMA ChunkLimitIs ==
  ASSUME NEW byCost \in Int, NEW byBytes \in Int, NEW byTraffic \in Int,
         ChunkLimit(byCost, byBytes, byTraffic) > 1
  PROVE  /\ ChunkLimit(byCost, byBytes, byTraffic) \in Nat
         /\ ChunkLimit(byCost, byBytes, byTraffic) <= byCost
         /\ ChunkLimit(byCost, byBytes, byTraffic) <= byBytes
<1> DEFINE high == Max({1, byBytes})
           low == Min({byCost, ChunkMax, high, byTraffic})
<1>1. high = IF 1 >= byBytes THEN 1 ELSE byBytes
  BY LargerOfTwo
<1>2. ChunkMax \in Int /\ high \in Int
  BY <1>1, LimitAssumption
<1> HIDE DEF high
<1>3. low \in Int /\ low <= byCost /\ low <= high
  BY <1>2, SmallestOfFour
<1>4. ChunkLimit(byCost, byBytes, byTraffic) = Max({1, low})
  BY DEF ChunkLimit, high
<1> HIDE DEF low
<1>5. Max({1, low}) = IF 1 >= low THEN 1 ELSE low
  BY <1>3, LargerOfTwo
<1> QED
  BY <1>1, <1>3, <1>4, <1>5

LEMMA Quotients ==
  ASSUME NEW B \in Int, NEW n \in Nat \ {0}, NEW k \in Nat
  PROVE  k <= B \div n <=> k * n <= B
<1> DEFINE q == B \div n
           r == B % n
<1>1. q \in Int /\ r \in 0 .. n - 1 /\ B = q * n + r
  OBVIOUS
<1> HIDE DEF q, r
<1>2. ASSUME k <= q PROVE k * n <= B
  <2>1. (q - k) * n >= 0 /\ (q - k) * n = q * n - k * n
    BY <1>1, <1>2
  <2> QED
    BY <1>1, <2>1
<1>3. ASSUME ~ (k <= q) PROVE ~ (k * n <= B)
  <2>1. (k - q - 1) * n >= 0 /\ (k - q - 1) * n = k * n - q * n - n
    BY <1>1, <1>3
  <2> QED
    BY <1>1, <2>1
<1> QED
  BY <1>2, <1>3 DEF q

\* A chunk that a body is asked for is one it may be compiled for.
LEMMA ChunkFits ==
  ASSUME NEW x, BlocksFormed(x), NEW b \in DOMAIN x.blocks,
         LowerWhile(x, b, 0, 0).chunkable, LowerWhile(x, b, 0, 0).kmax > 1
  PROVE  /\ LowerWhile(x, b, 0, 0).kmax <= LowerWhile(x, b, 0, 0).compileMax
         /\ CompileBytes > 0 => LowerWhile(x, b, 0, 0).kmax * Trace(x)[b].bytes <= CompileBytes
         /\ LowerWhile(x, b, 0, 0).kmax * Trace(x)[b].ops <= TraceBudget
<1> DEFINE w == LowerWhile(x, b, 0, 0)
           cost == BlockCost(x)[b]
           size == BlockBytes(x)[b]
           ops == Trace(x)[b].ops
           held == Trace(x)[b].bytes
           gate == GateCost(x, b)
           C == Max({cost, 1})
           S == Max({size, 1})
           G == Max({gate, 1})
           byCost == TraceBudget \div C
           byBytes == IF CompileBytes <= 0 THEN byCost ELSE CompileBytes \div S
           byTraffic == IF ChunkBytes <= 0 \/ 0 > ChunkAcc THEN ChunkMax
                        ELSE Max({2, ChunkBytes \div Max({Max({0, size - 0}), 1})})
           byGate == TraceBudget \div G
           atMost == IF CompileBytes <= 0 THEN ChunkMax ELSE byBytes
           kmax == ChunkLimit(byCost, atMost, byTraffic)
<1>1. /\ w.chunkable = (cost <= ChunkMaxCost /\ BlockIsPure(x)[b]) /\ w.kmax = kmax
      /\ w.compileMax = IF BlockIsPure(x)[b] THEN Max({0, Min({byGate, byBytes})}) ELSE 0
  BY DEF LowerWhile
<1>2. /\ cost \in Nat /\ size \in Nat /\ ops \in Nat /\ held \in Nat /\ x.tape[b] \in Nat
      /\ TraceBudget \in Int /\ CompileBytes \in Int /\ ChunkMax \in Int /\ ChunkBytes \in Int /\ ChunkAcc \in Int
  BY CostIs, BytesIs, TraceIs, TracedFields, LimitAssumption DEF BlocksFormed
<1>3. ops <= cost /\ held <= size
  BY TracesCharged DEF Charged
<1>4. BlockIsPure(x)[b] /\ kmax > 1
  BY <1>1
<1>5. w.compileMax = Max({0, Min({byGate, byBytes})})
  BY <1>1, <1>4
<1>6. gate \in Nat /\ gate <= cost
  BY <1>2, SmallerOfTwo DEF GateCost
<1> HIDE DEF cost, size, ops, held, gate
<1>7. /\ C \in Nat \ {0} /\ cost <= C /\ S \in Nat \ {0} /\ size <= S /\ G \in Nat \ {0} /\ G <= C
  BY <1>2, <1>6, LargerOfTwo
<1>8. byTraffic \in Int
  <2> DEFINE real == Max({0, size - 0})
             R == Max({real, 1})
             chunk == ChunkBytes \div R
  <2>1. real \in Nat
    BY <1>2, LargerOfTwo
  <2> HIDE DEF real
  <2>2. R \in Nat \ {0}
    BY <2>1, LargerOfTwo
  <2> HIDE DEF R
  <2>3. chunk \in Int
    BY <1>2, <2>2
  <2> HIDE DEF chunk
  <2>4. Max({2, chunk}) \in Int
    BY <2>3, LargerOfTwo
  <2> QED
    BY <1>2, <2>4 DEF chunk, R, real
<1> HIDE DEF C, S, G
<1>9. byCost \in Int /\ byBytes \in Int /\ byGate \in Int /\ atMost \in Int
  BY <1>2, <1>7
<1> HIDE DEF byTraffic, byCost
<1>10. kmax \in Nat /\ kmax <= byCost /\ kmax <= atMost
  BY <1>4, <1>8, <1>9, ChunkLimitIs
<1> HIDE DEF kmax
<1>11. kmax * C <= TraceBudget
  BY <1>2, <1>7, <1>10, Quotients DEF byCost
<1>12. CompileBytes > 0 => kmax * S <= CompileBytes
  BY <1>2, <1>7, <1>10, Quotients
<1>13. kmax * ops <= TraceBudget
  <2>1. kmax * ops \in Nat /\ kmax * C \in Nat /\ kmax * ops <= kmax * C
    BY <1>2, <1>3, <1>7, <1>10, ProductsGrow
  <2> QED
    BY <1>2, <1>11, <2>1
<1>14. CompileBytes > 0 => kmax * held <= CompileBytes
  <2>1. kmax * held \in Nat /\ kmax * S \in Nat /\ kmax * held <= kmax * S
    BY <1>2, <1>3, <1>7, <1>10, ProductsGrow
  <2> QED
    BY <1>2, <1>12, <2>1
<1>15. kmax <= byGate
  <2>1. kmax * G \in Nat /\ kmax * C \in Nat /\ kmax * G <= kmax * C
    BY <1>7, <1>10, ProductsGrow
  <2>2. kmax * G <= TraceBudget
    BY <1>2, <1>11, <2>1
  <2> QED
    BY <1>2, <1>7, <1>10, <2>2, Quotients
<1>16. kmax <= byBytes
  BY <1>10
<1> HIDE DEF byGate, byBytes
<1>17. kmax <= w.compileMax
  <2>1. Min({byGate, byBytes}) = IF byGate <= byBytes THEN byGate ELSE byBytes
    BY <1>9, SmallerOfTwo
  <2>2. Max({0, Min({byGate, byBytes})}) = IF 0 >= Min({byGate, byBytes}) THEN 0 ELSE Min({byGate, byBytes})
    BY <1>9, <2>1, LargerOfTwo
  <2> QED
    BY <1>5, <1>9, <1>10, <1>15, <1>16, <2>1, <2>2
<1>18. w.kmax = kmax
  BY <1>1
<1> QED
  BY <1>13, <1>14, <1>17, <1>18 DEF ops, held

---------------------------------------------------------------------------
(* Accumulators: what a body is netted of.                                 *)
Root == [arg : Nat, bytes : Nat]
FrameOp == [name : STRING, ins : Seq(Nat)]

\* A frame in SSA form: an op's operands come before it.
FrameFormed(frame) ==
  /\ frame.args \in Nat /\ frame.ops \in Seq(FrameOp) /\ frame.ret \in Seq(Nat)
  /\ \A k \in DOMAIN frame.ops :
       /\ frame.ops[k].ins # <<>>
       /\ \A i \in DOMAIN frame.ops[k].ins : frame.ops[k].ins[i] \in 1 .. frame.args + k - 1
  /\ \A i \in DOMAIN frame.ret : frame.ret[i] \in 1 .. frame.args + Len(frame.ops)

\* A body that returns its carries, and a callee that is given its arguments.
CarriesFormed(x) ==
  /\ FrameFormed(x.body) /\ FrameFormed(x.callee)
  /\ Len(x.body.ret) = x.body.args /\ x.callee.ret # <<>>
  /\ \A k \in DOMAIN x.body.ops :
       x.body.ops[k].name = "call" => Len(x.body.ops[k].ins) = x.callee.args

Called(frame, called) ==
  /\ called \in Root
  /\ called # NoRoot =>
       \A k \in DOMAIN frame.ops : frame.ops[k].name = "call" => called.arg \in DOMAIN frame.ops[k].ins

Lengthened(r, n) == [r EXCEPT !.bytes = @ + n]
RootIn(frame, called, f, v) ==
  IF v <= frame.args THEN [arg |-> v, bytes |-> 0]
  ELSE LET op == frame.ops[v - frame.args]
       IN CASE op.name = "update" -> Lengthened(f[op.ins[1]], 1)
            [] op.name = "call" /\ called # NoRoot -> Lengthened(f[op.ins[called.arg]], 1 + called.bytes)
            [] OTHER -> NoRoot
Values(frame) == 1 .. frame.args + Len(frame.ops)
IsRoots(frame, called, f) == f = [v \in Values(frame) |-> RootIn(frame, called, f, v)]

LEMMA RootFields ==
  ASSUME NEW r \in Root
  PROVE  /\ r.arg \in Nat /\ r.bytes \in Nat
         /\ \A n \in Nat : /\ Lengthened(r, n) \in Root /\ Lengthened(r, n).arg = r.arg
                           /\ Lengthened(r, n).bytes = r.bytes + n
<1>1. r = [arg |-> r.arg, bytes |-> r.bytes] /\ r.arg \in Nat /\ r.bytes \in Nat
  BY DEF Root
<1>2. \A n \in Nat : Lengthened(r, n) = [arg |-> r.arg, bytes |-> r.bytes + n]
  BY <1>1 DEF Lengthened
<1> QED
  BY <1>1, <1>2 DEF Root

\* The value an op's root is taken from comes before it.
LEMMA OperandsBefore ==
  ASSUME NEW frame, FrameFormed(frame), NEW called, Called(frame, called),
         NEW v \in Values(frame), v > frame.args
  PROVE  LET op == frame.ops[v - frame.args]
         IN /\ v - frame.args \in DOMAIN frame.ops
            /\ op.ins[1] \in 1 .. v - 1
            /\ op.name = "call" /\ called # NoRoot => op.ins[called.arg] \in 1 .. v - 1
<1> DEFINE k == v - frame.args
           op == frame.ops[k]
<1>1. frame.args \in Nat /\ Len(frame.ops) \in Nat /\ DOMAIN frame.ops = 1 .. Len(frame.ops)
  BY DEF FrameFormed
<1>2. k \in DOMAIN frame.ops /\ frame.args + k - 1 = v - 1
  BY <1>1 DEF Values
<1>3. op \in FrameOp /\ op.ins # <<>> /\ \A i \in DOMAIN op.ins : op.ins[i] \in 1 .. v - 1
  BY <1>2 DEF FrameFormed
<1>4. 1 \in DOMAIN op.ins
  <2> HIDE DEF op
  <2>1. op.ins \in Seq(Nat)
    BY <1>3 DEF FrameOp
  <2> QED
    BY <1>3, <2>1
<1>5. op.name = "call" /\ called # NoRoot => called.arg \in DOMAIN op.ins
  BY <1>2 DEF Called
<1> QED
  BY <1>2, <1>3, <1>4, <1>5

LEMMA RootStep ==
  ASSUME NEW frame, FrameFormed(frame), NEW called, Called(frame, called),
         NEW v \in Values(frame), NEW f, \A m \in 1 .. v - 1 : f[m] \in Root
  PROVE  RootIn(frame, called, f, v) \in Root
<1>1. frame.args \in Nat /\ Len(frame.ops) \in Nat /\ called.bytes \in Nat /\ NoRoot \in Root
  <2>1. NoRoot \in Root
    BY DEF NoRoot, Root
  <2>2. called \in Root
    BY DEF Called
  <2> QED
    BY <2>1, <2>2, RootFields DEF FrameFormed
<1>2. CASE v <= frame.args
  BY <1>1, <1>2 DEF RootIn, Root, Values
<1>3. CASE v > frame.args
  <2> DEFINE op == frame.ops[v - frame.args]
  <2>1. /\ op.ins[1] \in 1 .. v - 1
        /\ op.name = "call" /\ called # NoRoot => op.ins[called.arg] \in 1 .. v - 1
    BY <1>3, OperandsBefore
  <2>2. RootIn(frame, called, f, v) =
          CASE op.name = "update" -> Lengthened(f[op.ins[1]], 1)
            [] op.name = "call" /\ called # NoRoot -> Lengthened(f[op.ins[called.arg]], 1 + called.bytes)
            [] OTHER -> NoRoot
    BY <1>1, <1>3 DEF RootIn, Values
  <2> HIDE DEF op
  <2>3. Lengthened(f[op.ins[1]], 1) \in Root
    <3>1. f[op.ins[1]] \in Root /\ 1 \in Nat
      BY <2>1
    <3> QED
      BY <3>1, RootFields
  <2>4. op.name = "call" /\ called # NoRoot => Lengthened(f[op.ins[called.arg]], 1 + called.bytes) \in Root
    <3>1. op.name = "call" /\ called # NoRoot => f[op.ins[called.arg]] \in Root
      BY <2>1
    <3>2. 1 + called.bytes \in Nat
      BY <1>1
    <3> QED
      BY <3>1, <3>2, RootFields
  <2> QED
    BY <1>1, <2>2, <2>3, <2>4
<1> QED
  BY <1>1, <1>2, <1>3 DEF Values

LEMMA RootsAre ==
  ASSUME NEW frame, FrameFormed(frame), NEW called, Called(frame, called)
  PROVE  /\ IsRoots(frame, called, ChainRoots(frame, called))
         /\ ChainRoots(frame, called) \in [Values(frame) -> Root]
<1> DEFINE N == frame.args + Len(frame.ops)
           W == [1 .. N -> Root]
           step == [p \in W \X (1 .. N) |-> RootIn(frame, called, p[1], p[2])]
           root == CHOOSE f : IsRoots(frame, called, f)
<1>1. N \in Nat /\ Values(frame) = 1 .. N
  BY DEF FrameFormed, Values
<1>2. ChainRoots(frame, called) = root
  BY DEF ChainRoots, IsRoots, RootIn, Lengthened, Values
<1>3. \A f \in W, v \in 1 .. N : step[<<f, v>>] = RootIn(frame, called, f, v)
  OBVIOUS
<1>4. ASSUME NEW f \in W, NEW v \in 1 .. N
      PROVE  RootIn(frame, called, f, v) \in Root
  <2>1. \A m \in 1 .. v - 1 : f[m] \in Root
    <3> HIDE DEF N
    <3> QED
      BY <1>1
  <2> QED
    BY <1>1, <2>1, RootStep
<1>5. step \in [W \X (1 .. N) -> Root]
  BY <1>4
<1>6. ASSUME NEW f \in W, NEW g \in W, NEW v \in 1 .. N, \A m \in 1 .. v - 1 : f[m] = g[m]
      PROVE  step[<<f, v>>] = step[<<g, v>>]
  <2>1. RootIn(frame, called, f, v) = RootIn(frame, called, g, v)
    <3>1. CASE v <= frame.args
      BY <3>1 DEF RootIn
    <3>2. CASE v > frame.args
      <4> DEFINE op == frame.ops[v - frame.args]
      <4>1. /\ op.ins[1] \in 1 .. v - 1
            /\ op.name = "call" /\ called # NoRoot => op.ins[called.arg] \in 1 .. v - 1
        BY <1>1, <3>2, OperandsBefore
      <4>2. /\ f[op.ins[1]] = g[op.ins[1]]
            /\ op.name = "call" /\ called # NoRoot => f[op.ins[called.arg]] = g[op.ins[called.arg]]
        BY <1>6, <4>1
      <4> QED
        BY <3>2, <4>2 DEF RootIn
    <3>3. frame.args \in Nat /\ v \in Nat
      BY DEF FrameFormed
    <3> QED
      BY <3>1, <3>2, <3>3
  <2> QED
    BY <1>3, <2>1
<1>7. LocalTo(step, N, Root)
  <2> HIDE DEF step
  <2> QED
    BY <1>6 DEF LocalTo
<1> HIDE DEF step
<1>8. PICK f : FollowsSteps(f, step, N, Root)
  <2>1. NoRoot \in Root
    BY DEF Root, NoRoot
  <2>2. Steps(step, N, Root)
    BY <1>1, <1>5, <1>7, <2>1 DEF Steps
  <2> HIDE DEF N
  <2> QED
    BY <2>2, Course, Zenon
<1>9. IsRoots(frame, called, f)
  <2>1. f \in W /\ f = [v \in Values(frame) |-> f[v]]
    BY <1>1, <1>8 DEF FollowsSteps
  <2>2. \A v \in 1 .. N : f[v] = RootIn(frame, called, f, v)
    BY <1>3, <1>8, <2>1 DEF FollowsSteps
  <2> QED
    BY <1>1, <2>1, <2>2 DEF IsRoots
<1>10. IsRoots(frame, called, root)
  <2> HIDE DEF IsRoots
  <2> QED
    BY <1>9
<1> HIDE DEF root
<1> DEFINE T == {v \in 1 .. N : root[v] \in Root}
<1>11. ASSUME NEW v \in 1 .. N, 1 .. v - 1 \subseteq T
       PROVE  v \in T
  <2>1. \A m \in 1 .. v - 1 : root[m] \in Root
    BY <1>11
  <2>2. root[v] = RootIn(frame, called, root, v)
    BY <1>1, <1>10 DEF IsRoots
  <2>3. RootIn(frame, called, root, v) \in Root
    BY <1>1, <2>1, RootStep
  <2> QED
    BY <2>2, <2>3
<1> HIDE DEF T
<1>12. 1 .. N \subseteq T
  <2> HIDE DEF N
  <2> QED
    BY <1>1, <1>11, InductAll
<1>13. root \in [Values(frame) -> Root]
  <2>1. \A v \in 1 .. N : root[v] \in Root
    BY <1>12 DEF T
  <2>2. root = [v \in Values(frame) |-> root[v]]
    BY <1>10 DEF IsRoots
  <2> QED
    BY <1>1, <2>1, <2>2
<1> QED
  BY <1>2, <1>10, <1>13

\* A chain is bounded by what grows, along it, by what each of its ops adds:
\* for the ops rooted at an argument j, by bound[j].
Grows(A, K, root, charge, bound) ==
  /\ A \in Nat /\ K \in Nat /\ root \in [1 .. A + K -> Root] /\ charge \in [1 .. K -> Nat]
  /\ bound \in [Nat -> [0 .. K -> Nat]]
  /\ \A v \in 1 .. A : root[v].bytes = 0
  /\ \A k \in 1 .. K : root[A + k].arg # 0 =>
       \E w \in 1 .. A + k - 1 :
         root[w].arg = root[A + k].arg /\ root[A + k].bytes <= root[w].bytes + charge[k]
  /\ \A k \in 1 .. K : \A m \in 0 .. k - 1 :
       bound[root[A + k].arg][m] + charge[k] <= bound[root[A + k].arg][k]
Position(A, v) == IF v <= A THEN 0 ELSE v - A
Bounded(A, root, bound, v) == root[v].arg # 0 => root[v].bytes <= bound[root[v].arg][Position(A, v)]

LEMMA ChainBound ==
  ASSUME NEW A, NEW K, NEW root, NEW charge, NEW bound, Grows(A, K, root, charge, bound)
  PROVE  \A v \in 1 .. A + K : Bounded(A, root, bound, v)
<1>1. A \in Nat /\ K \in Nat /\ A + K \in Nat
  BY DEF Grows
<1>2. \A v \in 1 .. A + K : root[v].arg \in Nat /\ root[v].bytes \in Nat
  BY RootFields DEF Grows
<1>3. \A j \in Nat, m \in 0 .. K : bound[j][m] \in Nat
  BY DEF Grows
<1> DEFINE T == {v \in 1 .. A + K : Bounded(A, root, bound, v)}
<1>4. ASSUME NEW v \in 1 .. A + K, 1 .. v - 1 \subseteq T
      PROVE  v \in T
  <2> SUFFICES ASSUME root[v].arg # 0
               PROVE  root[v].bytes <= bound[root[v].arg][Position(A, v)]
    BY DEF Bounded
  <2>1. CASE v <= A
    <3>1. root[v].bytes = 0 /\ Position(A, v) = 0 /\ 0 \in 0 .. K
      BY <1>1, <2>1 DEF Grows, Position
    <3> QED
      BY <1>2, <1>3, <3>1
  <2>2. CASE v > A
    <3> DEFINE k == v - A
    <3>1. k \in 1 .. K /\ v = A + k /\ Position(A, v) = k
      BY <1>1, <2>2 DEF Position
    <3> HIDE DEF k
    <3>2. PICK w \in 1 .. v - 1 :
            root[w].arg = root[v].arg /\ root[v].bytes <= root[w].bytes + charge[k]
      <4>1. root[A + k].arg # 0 =>
              \E w \in 1 .. A + k - 1 :
                root[w].arg = root[A + k].arg /\ root[A + k].bytes <= root[w].bytes + charge[k]
        BY <3>1 DEF Grows
      <4>2. root[v].arg # 0 /\ root[v] = root[A + k] /\ v - 1 = A + k - 1
        BY <1>1, <3>1
      <4> QED
        BY <4>1, <4>2
    <3> DEFINE m == Position(A, w)
    <3>3. m \in 0 .. k - 1 /\ m \in 0 .. K /\ w \in 1 .. A + K
      BY <1>1, <3>1 DEF Position
    <3>4. root[w].bytes <= bound[root[v].arg][m]
      BY <1>4, <3>2 DEF Bounded
    <3>5. bound[root[v].arg][m] + charge[k] <= bound[root[v].arg][k] /\ charge[k] \in Nat
      BY <3>1, <3>3 DEF Grows
    <3>6. /\ root[v].arg \in Nat /\ root[v].bytes \in Nat /\ root[w].bytes \in Nat
          /\ bound[root[v].arg][m] \in Nat /\ bound[root[v].arg][k] \in Nat
      BY <1>2, <1>3, <3>1, <3>3
    <3> QED
      BY <3>1, <3>2, <3>4, <3>5, <3>6
  <2>3. v \in Nat
    OBVIOUS
  <2> QED
    BY <1>1, <2>1, <2>2, <2>3
<1> HIDE DEF T
<1>5. 1 .. A + K \subseteq T
  BY <1>1, <1>4, InductAll
<1> QED
  BY <1>5 DEF T

\* What the roots of a frame are, op by op.
Lengthens(frame, called, root, k) ==
  LET v == frame.args + k
  IN root[v].arg # 0 =>
       \E w \in 1 .. v - 1 :
         /\ root[v].arg = root[w].arg
         /\ \/ root[v].bytes = root[w].bytes + 1
            \/ /\ frame.ops[k].name = "call" /\ called # NoRoot
               /\ root[v].bytes = root[w].bytes + (1 + called.bytes)

LEMMA RootOfOp ==
  ASSUME NEW frame, FrameFormed(frame), NEW called, Called(frame, called), NEW k \in DOMAIN frame.ops
  PROVE  Lengthens(frame, called, ChainRoots(frame, called), k)
<1> DEFINE A == frame.args
           N == Len(frame.ops)
           root == ChainRoots(frame, called)
           op == frame.ops[k]
           v == A + k
<1>1. A \in Nat /\ N \in Nat /\ DOMAIN frame.ops = 1 .. N
  BY DEF FrameFormed
<1>2. v \in Values(frame) /\ v > A /\ v - A = k /\ Values(frame) = 1 .. A + N
  BY <1>1 DEF Values
<1>3. root \in [Values(frame) -> Root] /\ root[v] = RootIn(frame, called, root, v)
  <2>1. IsRoots(frame, called, root) /\ root \in [Values(frame) -> Root]
    BY RootsAre
  <2> HIDE DEF root
  <2>2. root[v] = RootIn(frame, called, root, v)
    BY <1>2, <2>1 DEF IsRoots
  <2> QED
    BY <2>1, <2>2
<1>4. root[v] = CASE op.name = "update" -> Lengthened(root[op.ins[1]], 1)
                  [] op.name = "call" /\ called # NoRoot -> Lengthened(root[op.ins[called.arg]], 1 + called.bytes)
                  [] OTHER -> NoRoot
  <2>1. root[v] = RootIn(frame, called, root, v)
    BY <1>3
  <2>2. ~ (v <= frame.args) /\ frame.ops[v - frame.args] = op
    BY <1>1, <1>2
  <2> HIDE DEF root, op, v
  <2> QED
    BY <2>1, <2>2 DEF RootIn
<1>5. op.ins[1] \in 1 .. v - 1 /\ (op.name = "call" /\ called # NoRoot => op.ins[called.arg] \in 1 .. v - 1)
  BY <1>2, OperandsBefore
<1>6. called.bytes \in Nat /\ 1 \in Nat /\ 1 + called.bytes \in Nat
  <2>1. called.bytes \in Nat
    BY RootFields DEF Called
  <2> QED
    BY <2>1
<1>7. \A w \in 1 .. v - 1 : root[w] \in Root
  BY <1>1, <1>2, <1>3
<1> DEFINE Goal == \E w \in 1 .. v - 1 :
                     /\ root[v].arg = root[w].arg
                     /\ \/ root[v].bytes = root[w].bytes + 1
                        \/ /\ op.name = "call" /\ called # NoRoot
                           /\ root[v].bytes = root[w].bytes + (1 + called.bytes)
<1> SUFFICES ASSUME root[v].arg # 0 PROVE Goal
  BY DEF Lengthens
<1> HIDE DEF root, op, v
<1>8. CASE op.name = "update"
  <2> DEFINE u == op.ins[1]
  <2>1. root[v] = Lengthened(root[u], 1) /\ u \in 1 .. v - 1
    BY <1>4, <1>5, <1>8
  <2> HIDE DEF u
  <2>2. root[u] \in Root
    BY <1>7, <2>1
  <2>3. Lengthened(root[u], 1).arg = root[u].arg /\ Lengthened(root[u], 1).bytes = root[u].bytes + 1
    BY <1>6, <2>2, RootFields
  <2>4. root[v].arg = root[u].arg /\ root[v].bytes = root[u].bytes + 1
    BY <2>1, <2>3
  <2> QED
    BY <2>1, <2>4
<1>9. CASE op.name # "update" /\ op.name = "call" /\ called # NoRoot
  <2> DEFINE u == op.ins[called.arg]
             n == 1 + called.bytes
  <2>1. root[v] = Lengthened(root[u], n) /\ u \in 1 .. v - 1
    BY <1>4, <1>5, <1>9
  <2> HIDE DEF u
  <2>2. root[u] \in Root /\ n \in Nat
    BY <1>6, <1>7, <2>1
  <2> HIDE DEF n
  <2>3. Lengthened(root[u], n).arg = root[u].arg /\ Lengthened(root[u], n).bytes = root[u].bytes + n
    BY <2>2, RootFields
  <2>4. root[v].arg = root[u].arg /\ root[v].bytes = root[u].bytes + n
    BY <2>1, <2>3
  <2> QED
    BY <1>9, <2>1, <2>4 DEF n
<1>10. CASE op.name # "update" /\ ~ (op.name = "call" /\ called # NoRoot)
  <2>1. root[v] = NoRoot
    BY <1>4, <1>10
  <2> QED
    BY <2>1 DEF NoRoot
<1> QED
  BY <1>8, <1>9, <1>10

\* What a callee adds to a chain is one of each of its ops at most.
LEMMA CalleeRootIs ==
  ASSUME NEW x, CarriesFormed(x)
  PROVE  Called(x.body, CalleeRoot(x)) /\ CalleeRoot(x).bytes <= Len(x.callee.ops)
<1> DEFINE callee == x.callee
           A == callee.args
           K == Len(callee.ops)
           root == ChainRoots(callee, NoRoot)
           charge == [k \in 1 .. K |-> 1]
           bound == [j \in Nat |-> [m \in 0 .. K |-> m]]
           r == root[callee.ret[1]]
           args == {v \in Values(callee) : root[v].arg \in 0 .. A}
<1>1. /\ FrameFormed(callee) /\ A \in Nat /\ K \in Nat /\ DOMAIN callee.ops = 1 .. K
      /\ Values(callee) = 1 .. A + K
  BY DEF CarriesFormed, FrameFormed, Values
<1>2. NoRoot \in Root /\ NoRoot.arg = 0 /\ NoRoot.bytes = 0 /\ Called(callee, NoRoot)
  BY DEF NoRoot, Root, Called
<1>3. root \in [1 .. A + K -> Root] /\ \A v \in 1 .. A : root[v].arg = v /\ root[v].bytes = 0
  <2>1. IsRoots(callee, NoRoot, root) /\ root \in [1 .. A + K -> Root]
    BY <1>1, <1>2, RootsAre
  <2>2. ASSUME NEW v \in 1 .. A
        PROVE  root[v].arg = v /\ root[v].bytes = 0
    <3>1. v \in 1 .. A + K /\ v <= A
      BY <1>1
    <3> HIDE DEF root
    <3>2. root[v] = [arg |-> v, bytes |-> 0]
      BY <1>1, <2>1, <3>1 DEF IsRoots, RootIn
    <3> QED
      BY <3>2
  <2> QED
    BY <2>1, <2>2
<1>4. \A k \in 1 .. K : root[A + k].arg # 0 =>
        \E w \in 1 .. A + k - 1 : root[A + k].arg = root[w].arg /\ root[A + k].bytes = root[w].bytes + 1
  <2>1. \A k \in 1 .. K : Lengthens(callee, NoRoot, root, k)
    BY <1>1, <1>2, RootOfOp
  <2> SUFFICES ASSUME NEW k \in 1 .. K, root[A + k].arg # 0
               PROVE  \E w \in 1 .. A + k - 1 :
                        root[A + k].arg = root[w].arg /\ root[A + k].bytes = root[w].bytes + 1
    OBVIOUS
  <2>2. Lengthens(callee, NoRoot, root, k)
    BY <2>1
  <2> HIDE DEF root
  <2> QED
    BY <1>1, <2>2 DEF Lengthens
<1> HIDE DEF root, callee, K, A
<1>5. Grows(A, K, root, charge, bound)
  <2>1. \A v \in 1 .. A : root[v].bytes = 0
    BY <1>3
  <2>2. \A k \in 1 .. K : root[A + k].arg # 0 =>
          \E w \in 1 .. A + k - 1 :
            root[w].arg = root[A + k].arg /\ root[A + k].bytes <= root[w].bytes + charge[k]
    <3> SUFFICES ASSUME NEW k \in 1 .. K, root[A + k].arg # 0
                 PROVE  \E w \in 1 .. A + k - 1 :
                          root[w].arg = root[A + k].arg /\ root[A + k].bytes <= root[w].bytes + charge[k]
      OBVIOUS
    <3>1. PICK w \in 1 .. A + k - 1 : root[A + k].arg = root[w].arg /\ root[A + k].bytes = root[w].bytes + 1
      BY <1>4
    <3>2. root[w].bytes \in Nat /\ charge[k] = 1
      <4>1. w \in 1 .. A + K
        BY <1>1
      <4> QED
        BY <1>3, <4>1, RootFields
    <3>3. root[A + k].bytes <= root[w].bytes + charge[k]
      BY <3>1, <3>2
    <3> QED
      BY <3>1, <3>3
  <2>3. \A k \in 1 .. K : root[A + k].arg \in Nat
    <3>1. \A k \in 1 .. K : A + k \in 1 .. A + K
      BY <1>1
    <3>2. \A v \in 1 .. A + K : root[v].arg \in Nat
      BY <1>3, RootFields
    <3> QED
      BY <3>1, <3>2
  <2>4. \A k \in 1 .. K : \A m \in 0 .. k - 1 :
          bound[root[A + k].arg][m] + charge[k] <= bound[root[A + k].arg][k]
    <3>1. \A j \in Nat, m \in 0 .. K : bound[j][m] = m
      OBVIOUS
    <3>2. \A k \in 1 .. K : charge[k] = 1 /\ k \in 0 .. K /\ \A m \in 0 .. k - 1 : m \in 0 .. K /\ m + 1 <= k
      BY <1>1
    <3> HIDE DEF bound, charge
    <3> QED
      BY <2>3, <3>1, <3>2
  <2>5. charge \in [1 .. K -> Nat] /\ bound \in [Nat -> [0 .. K -> Nat]]
    OBVIOUS
  <2> HIDE DEF charge, bound
  <2> QED
    BY <1>1, <1>3, <2>1, <2>2, <2>4, <2>5 DEF Grows
<1>6. \A v \in 1 .. A + K : Bounded(A, root, bound, v)
  <2> HIDE DEF charge, bound
  <2> QED
    BY <1>5, ChainBound
<1>7. ASSUME NEW v \in 1 .. A + K, 1 .. v - 1 \subseteq args
      PROVE  v \in args
  <2>1. CASE v <= A
    <3>1. v \in 1 .. A
      BY <2>1, <1>1
    <3>2. root[v].arg = v
      BY <1>3, <3>1
    <3> QED
      BY <1>1, <3>1, <3>2
  <2>2. CASE v > A
    <3>1. v - A \in 1 .. K /\ v = A + (v - A)
      BY <1>1, <2>2
    <3>2. CASE root[v].arg = 0
      BY <1>1, <3>2
    <3>3. CASE root[v].arg # 0
      <4> DEFINE k == v - A
      <4>0. k \in 1 .. K /\ v = A + k
        BY <3>1
      <4> HIDE DEF k
      <4>1. PICK w \in 1 .. v - 1 : root[v].arg = root[w].arg
        <5>1. root[A + k].arg # 0 =>
                \E w \in 1 .. A + k - 1 : root[A + k].arg = root[w].arg
          BY <1>4, <4>0
        <5>2. root[v] = root[A + k] /\ v - 1 = A + k - 1
          BY <1>1, <4>0
        <5> QED
          BY <3>3, <5>1, <5>2
      <4> QED
        BY <1>1, <1>7, <4>1
    <3> QED
      BY <3>2, <3>3
  <2> QED
    BY <1>1, <2>1, <2>2
<1> HIDE DEF args
<1>8. \A v \in 1 .. A + K : root[v].arg \in 0 .. A
  <2>1. A + K \in Nat
    BY <1>1
  <2>2. 1 .. A + K \subseteq args
    BY <1>7, <2>1, InductAll
  <2> QED
    BY <2>2 DEF args
<1>9. callee.ret[1] \in 1 .. A + K
  <2>1. callee.ret \in Seq(Nat) /\ callee.ret # <<>>
    BY DEF CarriesFormed, FrameFormed, callee
  <2>2. 1 \in DOMAIN callee.ret
    BY <2>1
  <2> QED
    BY <1>1, <2>2 DEF FrameFormed, A, K
<1>10. r \in Root /\ r.arg \in 0 .. A /\ (r.arg # 0 => r.bytes <= K)
  <2> DEFINE v == callee.ret[1]
  <2>1. v \in 1 .. A + K
    BY <1>9
  <2> HIDE DEF v
  <2>2. Position(A, v) \in 0 .. K
    BY <1>1, <2>1 DEF Position
  <2>3. root[v] \in Root /\ root[v].arg \in 0 .. A /\ root[v].bytes \in Nat
    BY <1>3, <1>8, <2>1, RootFields
  <2>4. bound[root[v].arg][Position(A, v)] <= K
    BY <1>1, <2>2, <2>3
  <2>5. root[v].arg # 0 => root[v].bytes <= K
    <3>1. root[v].arg # 0 => root[v].bytes <= bound[root[v].arg][Position(A, v)]
      BY <1>6, <2>1 DEF Bounded
    <3>2. bound[root[v].arg][Position(A, v)] \in Nat
      BY <1>1, <2>2, <2>3
    <3> HIDE DEF bound
    <3> QED
      BY <1>1, <2>3, <2>4, <3>1, <3>2
  <2> QED
    BY <2>3, <2>5 DEF v
<1>11. CalleeRoot(x) = IF r.arg # 0 /\ WriteOnly(x, callee, r.arg) THEN r ELSE NoRoot
  BY DEF CalleeRoot, root, callee
<1> HIDE DEF r
<1>12. CASE CalleeRoot(x) = NoRoot
  BY <1>1, <1>2, <1>12 DEF Called, K, callee
<1>13. CASE CalleeRoot(x) # NoRoot
  <2>1. CalleeRoot(x) = r /\ r.arg # 0
    BY <1>11, <1>13
  <2>2. r.arg \in 1 .. A /\ r.bytes <= K
    BY <1>1, <1>10, <2>1
  <2>3. ASSUME NEW k \in DOMAIN x.body.ops, x.body.ops[k].name = "call"
        PROVE  r.arg \in DOMAIN x.body.ops[k].ins
    <3>1. x.body.ops[k].ins \in Seq(Nat)
      <4>1. x.body.ops[k] \in FrameOp
        BY DEF CarriesFormed, FrameFormed
      <4> QED
        BY <4>1 DEF FrameOp
    <3>2. Len(x.body.ops[k].ins) = A
      BY <2>3 DEF CarriesFormed, A, callee
    <3> QED
      BY <2>2, <3>1, <3>2
  <2> QED
    BY <1>10, <2>1, <2>2, <2>3 DEF Called, K, callee
<1> QED
  BY <1>12, <1>13

\* What is summed by argument, one argument after the other, is summed once.
Masked(c, arg, j, K) == [k \in 1 .. K |-> IF arg[k] = j THEN c[k] ELSE 0]
UpTo(c, arg, n, K) == [k \in 1 .. K |-> IF arg[k] \in 1 .. n THEN c[k] ELSE 0]

LEMMA SplitSums ==
  ASSUME NEW A \in Nat, NEW K \in Nat, NEW c \in [1 .. K -> Nat], NEW arg \in [1 .. K -> Nat],
         NEW b \in [1 .. A -> Nat], \A j \in 1 .. A : b[j] <= Total(Masked(c, arg, j, K))
  PROVE  Total(b) <= Total(c)
<1>1. /\ b \in [1 .. A -> Int] /\ Summed(b, A)
      /\ \A n \in Nat : /\ Masked(c, arg, n, K) \in [1 .. K -> Nat]
                        /\ UpTo(c, arg, n, K) \in [1 .. K -> Nat]
  <2>1. b \in [1 .. A -> Int]
    OBVIOUS
  <2>2. \A n \in Nat : /\ Masked(c, arg, n, K) \in [1 .. K -> Nat]
                       /\ UpTo(c, arg, n, K) \in [1 .. K -> Nat]
    BY DEF Masked, UpTo
  <2> QED
    BY <2>1, <2>2, SumsOf
<1> DEFINE T == {n \in 0 .. A : Sums(b)[n] <= Total(UpTo(c, arg, n, K))}
<1>2. 0 \in T
  <2>1. Sums(b)[0] = 0
    BY <1>1 DEF Summed
  <2>2. Total(UpTo(c, arg, 0, K)) \in Nat
    <3>1. UpTo(c, arg, 0, K) \in [1 .. K -> Nat]
      BY <1>1
    <3> QED
      BY <3>1, TotalIsNat
  <2> QED
    BY <2>1, <2>2
<1>3. \A n \in 0 .. A - 1 : n \in T => n + 1 \in T
  <2> SUFFICES ASSUME NEW n \in 0 .. A - 1, n \in T
               PROVE  n + 1 \in T
    OBVIOUS
  <2> DEFINE s == UpTo(c, arg, n, K)
             t == Masked(c, arg, n + 1, K)
             r == UpTo(c, arg, n + 1, K)
  <2>1. n \in Nat /\ n + 1 \in Nat /\ n + 1 \in 1 .. A /\ n + 1 \in 0 .. A /\ (n + 1) - 1 = n
    OBVIOUS
  <2>2. s \in [1 .. K -> Nat] /\ t \in [1 .. K -> Nat] /\ r \in [1 .. K -> Nat]
    BY <1>1, <2>1
  <2>3. \A k \in 1 .. K : r[k] = s[k] + t[k]
    BY <2>1 DEF UpTo, Masked
  <2>4. Sums(b)[n + 1] = Sums(b)[n] + b[n + 1] /\ b[n + 1] <= Total(t)
    BY <1>1, <2>1 DEF Summed
  <2>5. Sums(b)[n] <= Total(s) /\ Sums(b)[n] \in Int /\ b[n + 1] \in Nat
    BY <1>1, <2>1 DEF Summed
  <2> HIDE DEF s, t, r, T
  <2>6. Total(r) = Total(s) + Total(t)
    <3>1. s \in [1 .. K -> Int] /\ t \in [1 .. K -> Int] /\ r \in [1 .. K -> Int]
      BY <2>2
    <3> QED
      BY <2>3, <3>1, SumsAdd
  <2>7. Total(s) \in Nat /\ Total(t) \in Nat
    BY <2>2, TotalIsNat
  <2>8. Sums(b)[n + 1] <= Total(r)
    BY <2>4, <2>5, <2>6, <2>7
  <2> QED
    BY <2>1, <2>8 DEF T, r
<1> HIDE DEF T
<1>4. \A n \in 0 .. A : n \in T
  BY <1>2, <1>3, InductTo, Zenon
<1> DEFINE all == UpTo(c, arg, A, K)
<1>5. Sums(b)[A] <= Total(all)
  <2>1. A \in 0 .. A
    OBVIOUS
  <2> QED
    BY <1>4, <2>1 DEF T
<1>6. all \in [1 .. K -> Nat] /\ \A k \in 1 .. K : all[k] <= c[k]
  <2>1. \A k \in 1 .. K : all[k] <= c[k]
    BY DEF UpTo
  <2> QED
    BY <1>1, <2>1
<1> HIDE DEF all
<1>7. Total(all) <= Total(c) /\ Total(all) \in Nat /\ Total(c) \in Nat
  BY <1>6, TotalsBelow, TotalIsNat
<1>8. Total(b) = Sums(b)[A] /\ Sums(b)[A] \in Int
  <2>1. A \in 0 .. A
    OBVIOUS
  <2> QED
    BY <1>1, <2>1 DEF Summed
<1> QED
  BY <1>5, <1>7, <1>8

\* What a body is netted of was charged to it, and each op's charge is taken
\* off for one accumulator at most.
LEMMA ChainsFit ==
  ASSUME NEW x, CarriesFormed(x)
  PROVE  AccumulatorBytes(x).chain
           <= Total([k \in DOMAIN x.body.ops |->
                       1 + IF x.body.ops[k].name = "call" THEN Len(x.callee.ops) ELSE 0])
<1> DEFINE body == x.body
           A == body.args
           K == Len(body.ops)
           L == Len(x.callee.ops)
           called == CalleeRoot(x)
           root == ChainRoots(body, called)
           charge == [k \in 1 .. K |-> 1 + IF body.ops[k].name = "call" THEN L ELSE 0]
           arg == [k \in 1 .. K |-> root[A + k].arg]
           bound == [j \in Nat |-> Sums(Masked(charge, arg, j, K))]
           carries == {i \in 1 .. A : /\ body.ret[i] # i /\ root[body.ret[i]].arg = i
                                      /\ WriteOnly(x, body, i)}
           netted == [i \in 1 .. A |-> IF i \in carries THEN root[body.ret[i]].bytes ELSE 0]
<1>1. /\ FrameFormed(body) /\ A \in Nat /\ K \in Nat /\ L \in Nat /\ DOMAIN body.ops = 1 .. K
      /\ Values(body) = 1 .. A + K
  BY DEF CarriesFormed, FrameFormed, Values
<1>2. Called(body, called) /\ called.bytes <= L /\ called.bytes \in Nat
  <2>1. Called(body, called) /\ called.bytes <= L
    BY CalleeRootIs
  <2>2. called \in Root
    BY <2>1 DEF Called
  <2> QED
    BY <2>1, <2>2, RootFields
<1>3. root \in [1 .. A + K -> Root] /\ \A v \in 1 .. A : root[v].bytes = 0
  <2>1. IsRoots(body, called, root) /\ root \in [1 .. A + K -> Root]
    BY <1>1, <1>2, RootsAre
  <2>2. ASSUME NEW v \in 1 .. A
        PROVE  root[v].bytes = 0
    <3>1. v \in 1 .. A + K /\ v <= A
      BY <1>1
    <3> HIDE DEF root
    <3>2. root[v] = [arg |-> v, bytes |-> 0]
      BY <1>1, <2>1, <3>1 DEF IsRoots, RootIn
    <3> QED
      BY <3>2
  <2> QED
    BY <2>1, <2>2
<1>4. \A k \in 1 .. K : root[A + k].arg # 0 =>
        \E w \in 1 .. A + k - 1 :
          /\ root[A + k].arg = root[w].arg
          /\ \/ root[A + k].bytes = root[w].bytes + 1
             \/ body.ops[k].name = "call" /\ root[A + k].bytes = root[w].bytes + (1 + called.bytes)
  <2>1. \A k \in 1 .. K : Lengthens(body, called, root, k)
    BY <1>1, <1>2, RootOfOp
  <2> SUFFICES ASSUME NEW k \in 1 .. K, root[A + k].arg # 0
               PROVE  \E w \in 1 .. A + k - 1 :
                        /\ root[A + k].arg = root[w].arg
                        /\ \/ root[A + k].bytes = root[w].bytes + 1
                           \/ body.ops[k].name = "call" /\ root[A + k].bytes = root[w].bytes + (1 + called.bytes)
    OBVIOUS
  <2>2. Lengthens(body, called, root, k)
    BY <2>1
  <2> HIDE DEF root, called
  <2> QED
    BY <1>1, <2>2 DEF Lengthens
<1>5. AccumulatorBytes(x).chain = Total(netted)
  BY DEF AccumulatorBytes
<1>6. \A i \in 1 .. A : body.ret[i] \in 1 .. A + K
  <2>1. DOMAIN body.ret = 1 .. A
    BY <1>1 DEF CarriesFormed, FrameFormed
  <2> QED
    BY <1>1, <2>1 DEF FrameFormed
<1> HIDE DEF root, called, body, K, A, L
<1>7. /\ charge \in [1 .. K -> Nat] /\ \A k \in 1 .. K : charge[k] >= 1
      /\ \A k \in 1 .. K : body.ops[k].name = "call" => charge[k] = 1 + L
  BY <1>1
<1>8. \A v \in 1 .. A + K : root[v].arg \in Nat /\ root[v].bytes \in Nat
  BY <1>3, RootFields
<1>9. arg \in [1 .. K -> Nat] /\ \A k \in 1 .. K : arg[k] = root[A + k].arg
  <2>1. \A k \in 1 .. K : A + k \in 1 .. A + K
    BY <1>1
  <2> QED
    BY <1>8, <2>1
<1>10. \A k \in 1 .. K : root[A + k].arg # 0 =>
         \E w \in 1 .. A + k - 1 :
           root[w].arg = root[A + k].arg /\ root[A + k].bytes <= root[w].bytes + charge[k]
  <2> SUFFICES ASSUME NEW k \in 1 .. K, root[A + k].arg # 0
               PROVE  \E w \in 1 .. A + k - 1 :
                        root[w].arg = root[A + k].arg /\ root[A + k].bytes <= root[w].bytes + charge[k]
    OBVIOUS
  <2>1. PICK w \in 1 .. A + k - 1 :
          /\ root[A + k].arg = root[w].arg
          /\ \/ root[A + k].bytes = root[w].bytes + 1
             \/ body.ops[k].name = "call" /\ root[A + k].bytes = root[w].bytes + (1 + called.bytes)
    BY <1>4
  <2>2. root[w].bytes \in Nat
    <3>1. A + k - 1 <= A + K /\ A + k - 1 \in Nat /\ A + K \in Nat
      BY <1>1
    <3>2. w \in 1 .. A + K
      BY <3>1
    <3> QED
      BY <1>8, <3>2
  <2>3. charge[k] \in Nat /\ charge[k] >= 1 /\ (body.ops[k].name = "call" => charge[k] = 1 + L)
    BY <1>7
  <2> HIDE DEF charge
  <2>4. root[A + k].bytes = root[w].bytes + 1 => root[A + k].bytes <= root[w].bytes + charge[k]
    BY <2>2, <2>3
  <2>5. body.ops[k].name = "call" /\ root[A + k].bytes = root[w].bytes + (1 + called.bytes) =>
          root[A + k].bytes <= root[w].bytes + charge[k]
    <3> DEFINE n == 1 + called.bytes
    <3>1. n \in Nat /\ n <= 1 + L
      BY <1>1, <1>2
    <3> HIDE DEF n
    <3>2. body.ops[k].name = "call" => n <= charge[k]
      BY <2>3, <3>1
    <3>3. body.ops[k].name = "call" => root[w].bytes + n <= root[w].bytes + charge[k]
      BY <2>2, <2>3, <3>1, <3>2
    <3> QED
      BY <3>3 DEF n
  <2>6. root[A + k].bytes <= root[w].bytes + charge[k]
    BY <2>1, <2>4, <2>5
  <2> QED
    BY <2>1, <2>6
<1> HIDE DEF charge, arg
<1>11. ASSUME NEW j \in Nat
       PROVE  /\ Masked(charge, arg, j, K) \in [1 .. K -> Nat]
              /\ Summed(Masked(charge, arg, j, K), K)
              /\ Sums(Masked(charge, arg, j, K)) \in [0 .. K -> Nat]
              /\ \A m \in 0 .. K : \A n \in 0 .. m :
                   Sums(Masked(charge, arg, j, K))[n] <= Sums(Masked(charge, arg, j, K))[m]
  <2> DEFINE s == Masked(charge, arg, j, K)
  <2>1. s \in [1 .. K -> Nat]
    BY <1>7 DEF Masked
  <2> HIDE DEF s
  <2>2. s \in [1 .. K -> Int]
    BY <2>1
  <2>3. Summed(s, K)
    BY <1>1, <2>2, SumsOf
  <2>4. \A m \in 0 .. K : Sums(s)[m] \in Nat /\ \A n \in 0 .. m : Sums(s)[n] <= Sums(s)[m]
    BY <1>1, <2>1, SumsGrow
  <2>5. Sums(s) \in [0 .. K -> Nat]
    BY <2>3, <2>4 DEF Summed
  <2> QED
    BY <2>1, <2>3, <2>4, <2>5 DEF s
<1>12. bound \in [Nat -> [0 .. K -> Nat]] /\ \A j \in Nat : bound[j] = Sums(Masked(charge, arg, j, K))
  BY <1>11
<1> HIDE DEF bound
<1>13. \A k \in 1 .. K : \A m \in 0 .. k - 1 :
         bound[root[A + k].arg][m] + charge[k] <= bound[root[A + k].arg][k]
  <2> SUFFICES ASSUME NEW k \in 1 .. K, NEW m \in 0 .. k - 1
               PROVE  bound[root[A + k].arg][m] + charge[k] <= bound[root[A + k].arg][k]
    OBVIOUS
  <2> DEFINE j == root[A + k].arg
             s == Masked(charge, arg, j, K)
  <2>1. j \in Nat /\ arg[k] = j
    BY <1>9
  <2>2. s[k] = charge[k] /\ charge[k] \in Nat
    BY <1>7, <2>1 DEF Masked
  <2>3. bound[j] = Sums(s)
    BY <1>12, <2>1
  <2> HIDE DEF j
  <2>4. /\ Summed(s, K) /\ Sums(s) \in [0 .. K -> Nat]
        /\ \A n \in 0 .. K : \A l \in 0 .. n : Sums(s)[l] <= Sums(s)[n]
    BY <1>11, <2>1
  <2> HIDE DEF s
  <2>5. k - 1 \in 0 .. K /\ m \in 0 .. K /\ k \in 0 .. K
    BY <1>1
  <2>6. Sums(s)[k] = Sums(s)[k - 1] + s[k] /\ Sums(s)[m] <= Sums(s)[k - 1]
    BY <2>4, <2>5 DEF Summed
  <2>7. Sums(s)[m] + charge[k] <= Sums(s)[k]
    BY <2>2, <2>4, <2>5, <2>6
  <2> QED
    BY <2>3, <2>7 DEF j
<1>14. \A v \in 1 .. A + K : Bounded(A, root, bound, v)
  <2>1. Grows(A, K, root, charge, bound)
    BY <1>1, <1>3, <1>7, <1>10, <1>12, <1>13 DEF Grows
  <2> QED
    BY <2>1, ChainBound
<1>15. \A i \in 1 .. A : netted[i] \in Nat /\ netted[i] <= Total(Masked(charge, arg, i, K))
  <2> SUFFICES ASSUME NEW i \in 1 .. A
               PROVE  netted[i] \in Nat /\ netted[i] <= Total(Masked(charge, arg, i, K))
    OBVIOUS
  <2> DEFINE s == Masked(charge, arg, i, K)
             v == body.ret[i]
  <2>1. v \in 1 .. A + K /\ i \in Nat
    BY <1>6
  <2>2. Summed(s, K) /\ Sums(s) \in [0 .. K -> Nat] /\ \A n \in 0 .. K : Sums(s)[n] <= Sums(s)[K]
    <3>1. K \in 0 .. K
      BY <1>1
    <3> QED
      BY <1>11, <2>1, <3>1
  <2> HIDE DEF s
  <2>3. Total(s) = Sums(s)[K] /\ Total(s) \in Nat
    <3>1. K \in 0 .. K
      BY <1>1
    <3> QED
      BY <2>2, <3>1 DEF Summed
  <2>4. CASE i \notin carries
    <3>1. netted[i] = 0
      BY <2>4
    <3> QED
      BY <2>3, <3>1 DEF s
  <2>5. CASE i \in carries
    <3>1. netted[i] = root[v].bytes /\ root[v].arg = i /\ root[v].bytes \in Nat
      BY <1>8, <2>1, <2>5
    <3>2. root[v].bytes <= bound[i][Position(A, v)]
      <4>1. i # 0
        OBVIOUS
      <4> QED
        BY <1>14, <2>1, <3>1, <4>1 DEF Bounded
    <3>3. Position(A, v) \in 0 .. K
      BY <1>1, <2>1 DEF Position
    <3>4. bound[i] = Sums(s)
      BY <1>12, <2>1 DEF s
    <3> HIDE DEF netted, v
    <3>5. Sums(s)[Position(A, v)] <= Sums(s)[K] /\ Sums(s)[Position(A, v)] \in Nat
      BY <2>2, <3>3
    <3>6. netted[i] <= Total(s)
      BY <2>3, <3>1, <3>2, <3>4, <3>5
    <3> QED
      BY <3>1, <3>6 DEF s
  <2> QED
    BY <2>4, <2>5
<1>16. netted \in [1 .. A -> Nat]
  BY <1>15
<1> HIDE DEF netted
<1>17. Total(netted) <= Total(charge)
  BY <1>1, <1>7, <1>9, <1>15, <1>16, SplitSums
<1> QED
  BY <1>1, <1>5, <1>17 DEF charge, body, L

\* Whatever is compiled whole or in chunks keeps to the limits of a trace:
\* nothing that tracing refuses is admitted, at any nesting, what is traced
\* is within the budget its blocks were charged to, and a body is netted of
\* no more than it was charged.
THEOREM GraphsAlwaysFit ==
  /\ input.kind = "blocks" => BlocksFormed(input)
  /\ input.kind = "carries" => CarriesFormed(input)
  => GraphsFit
<1> SUFFICES ASSUME input.kind = "blocks" => BlocksFormed(input),
                    input.kind = "carries" => CarriesFormed(input)
             PROVE  GraphsFit
  OBVIOUS
<1>1. TracesAreNeverRefused
  BY WholeFits DEF TracesAreNeverRefused
<1>2. TracesFit
  <2> SUFFICES ASSUME BlocksFormed(input), CompileMain(input)
               PROVE  /\ CompileBytes > 0 => Trace(input)[Len(input.blocks)].bytes <= CompileBytes
                      /\ \A b \in DOMAIN input.blocks : \A k \in DOMAIN input.blocks[b] :
                           LET op == input.blocks[b][k]
                           IN IsStatic(op) /\ ~ op.planned /\ BlockIsPure(input)[b] =>
                                op.trip * Trace(input)[op.inner].ops <= TraceBudget
    BY DEF TracesFit
  <2> QED
    BY WholeFits, UnrolledFits
<1>3. ChunksAreAdmitted
  <2> SUFFICES ASSUME BlocksFormed(input), NEW b \in DOMAIN input.blocks,
                      LowerWhile(input, b, 0, 0).chunkable, LowerWhile(input, b, 0, 0).kmax > 1
               PROVE  /\ LowerWhile(input, b, 0, 0).kmax <= LowerWhile(input, b, 0, 0).compileMax
                      /\ CompileBytes > 0 =>
                           LowerWhile(input, b, 0, 0).kmax * Trace(input)[b].bytes <= CompileBytes
                      /\ LowerWhile(input, b, 0, 0).kmax * Trace(input)[b].ops <= TraceBudget
    BY DEF ChunksAreAdmitted
  <2> QED
    BY ChunkFits
<1>4. ChainsWereCharged
  BY ChainsFit DEF ChainsWereCharged
<1> QED
  BY <1>1, <1>2, <1>3, <1>4 DEF GraphsFit

---------------------------------------------------------------------------
(* Arrays: their sizes, their coordinates and row-major order.             *)

\* A recursion that multiplies and adds at every step: it has a function,
\* and whatever follows it is that function.
Recurs(f, n, z, a, b) ==
  /\ f \in [0 .. n -> Int] /\ f[0] = z
  /\ \A m \in 1 .. n : f[m] = f[m - 1] * a[m] + b[m]

LEMMA Recurrence ==
  ASSUME NEW n \in Nat, NEW z \in Int, NEW a \in [1 .. n -> Int], NEW b \in [1 .. n -> Int]
  PROVE  \E f : Recurs(f, n, z, a, b)
<1> DEFINE step == [p \in Int \X (1 .. n) |-> p[1] * a[p[2]] + b[p[2]]]
<1>1. step \in [Int \X (1 .. n) -> Int] /\ \A v \in Int, m \in 1 .. n : step[<<v, m>>] = v * a[m] + b[m]
  OBVIOUS
<1> HIDE DEF step
<1>2. PICK f \in [0 .. n -> Int] : Chained(f, z, step, n)
  BY <1>1, Chain, Zenon
<1>3. ASSUME NEW m \in 1 .. n
      PROVE  f[m] = f[m - 1] * a[m] + b[m]
  <2>1. f[m] = step[<<f[m - 1], m>>] /\ m - 1 \in 0 .. n
    BY <1>2 DEF Chained
  <2>2. f[m - 1] \in Int
    BY <2>1
  <2> QED
    BY <1>1, <2>1, <2>2
<1>4. Recurs(f, n, z, a, b)
  BY <1>2, <1>3 DEF Chained, Recurs
<1> QED
  BY <1>4

LEMMA RecursTyped ==
  ASSUME NEW n \in Nat, NEW z \in Int, NEW a \in [1 .. n -> Int], NEW b \in [1 .. n -> Int],
         NEW g, g = [m \in 0 .. n |-> g[m]], g[0] = z,
         \A m \in 1 .. n : g[m - 1] \in Int => g[m] = g[m - 1] * a[m] + b[m]
  PROVE  Recurs(g, n, z, a, b)
<1> DEFINE T == {m \in 0 .. n : g[m] \in Int}
<1>1. 0 \in T
  OBVIOUS
<1>2. \A m \in 0 .. n - 1 : m \in T => m + 1 \in T
  <2> SUFFICES ASSUME NEW m \in 0 .. n - 1, g[m] \in Int
               PROVE  m + 1 \in T
    OBVIOUS
  <2>1. m + 1 \in 1 .. n /\ (m + 1) - 1 = m /\ a[m + 1] \in Int /\ b[m + 1] \in Int
    OBVIOUS
  <2>2. g[m + 1] = g[m] * a[m + 1] + b[m + 1]
    BY <2>1
  <2> QED
    BY <2>1, <2>2
<1> HIDE DEF T
<1>3. \A m \in 0 .. n : m \in T
  BY <1>1, <1>2, InductTo, Zenon
<1>4. g \in [0 .. n -> Int]
  BY <1>3 DEF T
<1>5. \A m \in 1 .. n : m - 1 \in 0 .. n
  OBVIOUS
<1> QED
  BY <1>4, <1>5 DEF Recurs

\* How many elements the arrays of the first dimensions have, and where a
\* coordinate of theirs is.
Sized(s, n) ==
  /\ Sizes(s) \in [0 .. n -> Int] /\ Sizes(s)[0] = 1 /\ Product(s) = Sizes(s)[n]
  /\ \A m \in 1 .. n : Sizes(s)[m] = Sizes(s)[m - 1] * s[m]
LEMMA SizesOf ==
  ASSUME NEW n \in Nat, NEW s \in [1 .. n -> Int]
  PROVE  Sized(s, n)
<1> DEFINE none == [m \in 1 .. n |-> 0]
           Adds(f) == f = [m \in 0 .. n |-> IF m = 0 THEN 1 ELSE f[m - 1] * s[m]]
           g == CHOOSE f : Adds(f)
<1>1. s \in Seq(Int) /\ Len(s) = n /\ none \in [1 .. n -> Int] /\ \A m \in 1 .. n : none[m] = 0
  OBVIOUS
<1>2. Sizes(s) = g
  BY <1>1 DEF Sizes
<1> HIDE DEF none
<1>3. PICK f : Recurs(f, n, 1, s, none)
  BY <1>1, Recurrence
<1>4. Adds(f)
  <2>1. ASSUME NEW m \in 0 .. n
        PROVE  f[m] = IF m = 0 THEN 1 ELSE f[m - 1] * s[m]
    <3>1. CASE m = 0
      BY <1>3, <3>1 DEF Recurs
    <3>2. CASE m # 0
      <4>1. m \in 1 .. n /\ m - 1 \in 0 .. n
        BY <3>2
      <4>2. f[m] = f[m - 1] * s[m] + none[m] /\ f[m - 1] \in Int /\ s[m] \in Int /\ none[m] = 0
        BY <1>1, <1>3, <4>1 DEF Recurs
      <4> QED
        BY <3>2, <4>2
    <3> QED
      BY <3>1, <3>2
  <2>2. f = [m \in 0 .. n |-> f[m]]
    BY <1>3 DEF Recurs
  <2> QED
    BY <2>1, <2>2, Zenon
<1>5. Adds(g)
  <2> HIDE DEF Adds
  <2> QED
    BY <1>4
<1>6. g = [m \in 0 .. n |-> g[m]] /\ g[0] = 1 /\ \A m \in 1 .. n : g[m] = g[m - 1] * s[m]
  <2>1. \A m \in 1 .. n : m \in 0 .. n /\ m # 0
    OBVIOUS
  <2> HIDE DEF g
  <2> QED
    BY <1>5, <2>1
<1> HIDE DEF g
<1>7. \A m \in 1 .. n : g[m - 1] \in Int => g[m] = g[m - 1] * s[m] + none[m]
  <2> SUFFICES ASSUME NEW m \in 1 .. n, g[m - 1] \in Int
               PROVE  g[m] = g[m - 1] * s[m] + none[m]
    OBVIOUS
  <2>1. s[m] \in Int /\ none[m] = 0 /\ g[m] = g[m - 1] * s[m]
    BY <1>1, <1>6
  <2> QED
    BY <2>1
<1>8. Recurs(g, n, 1, s, none)
  <2>1. 1 \in Int
    OBVIOUS
  <2> QED
    BY <1>1, <1>6, <1>7, <2>1, RecursTyped, Zenon
<1> QED
  BY <1>1, <1>2, <1>6, <1>8 DEF Sized, Product, Recurs

Placed(s, c, n) ==
  /\ Places(s, c) \in [0 .. n -> Int] /\ Places(s, c)[0] = 0 /\ RowMajor(s, c) = Places(s, c)[n]
  /\ \A m \in 1 .. n : Places(s, c)[m] = Places(s, c)[m - 1] * s[m] + c[m]
LEMMA PlacesOf ==
  ASSUME NEW n \in Nat, NEW s \in [1 .. n -> Int], NEW c \in [1 .. n -> Int]
  PROVE  Placed(s, c, n)
<1> DEFINE Adds(f) == f = [m \in 0 .. n |-> IF m = 0 THEN 0 ELSE f[m - 1] * s[m] + c[m]]
           g == CHOOSE f : Adds(f)
<1>1. s \in Seq(Int) /\ Len(s) = n
  OBVIOUS
<1>2. Places(s, c) = g
  BY <1>1 DEF Places
<1>3. PICK f : Recurs(f, n, 0, s, c)
  BY Recurrence
<1>4. Adds(f)
  <2>1. \A m \in 0 .. n : m # 0 => m \in 1 .. n
    OBVIOUS
  <2>2. ASSUME NEW m \in 0 .. n
        PROVE  f[m] = IF m = 0 THEN 0 ELSE f[m - 1] * s[m] + c[m]
    BY <1>3, <2>1 DEF Recurs
  <2>3. f = [m \in 0 .. n |-> f[m]]
    BY <1>3 DEF Recurs
  <2> QED
    BY <2>2, <2>3, Zenon
<1>5. Adds(g)
  <2> HIDE DEF Adds
  <2> QED
    BY <1>4
<1>6. g = [m \in 0 .. n |-> g[m]] /\ g[0] = 0 /\ \A m \in 1 .. n : g[m] = g[m - 1] * s[m] + c[m]
  <2>1. \A m \in 1 .. n : m \in 0 .. n /\ m # 0
    OBVIOUS
  <2> HIDE DEF g
  <2> QED
    BY <1>5, <2>1
<1> HIDE DEF g
<1>7. Recurs(g, n, 0, s, c)
  <2>1. 0 \in Int
    OBVIOUS
  <2> QED
    BY <1>6, <2>1, RecursTyped, Zenon
<1> QED
  BY <1>1, <1>2, <1>7 DEF Placed, RowMajor, Recurs

---------------------------------------------------------------------------
\* The coordinates of an array none of whose dimensions is empty.
Box(dims) == {c \in [DOMAIN dims -> Nat] : \A d \in DOMAIN dims : c[d] < dims[d]}
Shape(dims, n) == n \in Nat /\ dims \in [1 .. n -> Nat \ {0}]

LEMMA Boxed ==
  ASSUME NEW n, NEW dims, Shape(dims, n), NEW c \in Box(dims)
  PROVE  /\ n \in Nat /\ dims \in [1 .. n -> Int] /\ c \in [1 .. n -> Int]
         /\ Sized(dims, n) /\ Placed(dims, c, n)
         /\ \A d \in 1 .. n : dims[d] \in Nat \ {0} /\ c[d] \in 0 .. dims[d] - 1
<1>1. n \in Nat /\ dims \in [1 .. n -> Int] /\ DOMAIN dims = 1 .. n
  BY DEF Shape
<1>2. c \in [1 .. n -> Int]
  BY <1>1 DEF Box
<1>3. \A d \in 1 .. n : dims[d] \in Nat \ {0} /\ c[d] \in 0 .. dims[d] - 1
  BY <1>1 DEF Shape, Box
<1> QED
  BY <1>1, <1>2, <1>3, SizesOf, PlacesOf

\* An array has room for each of its coordinates.
LEMMA PlaceBound ==
  ASSUME NEW n, NEW dims, Shape(dims, n), NEW c \in Box(dims)
  PROVE  \A m \in 0 .. n : Sizes(dims)[m] \in Nat \ {0} /\ Places(dims, c)[m] \in 0 .. Sizes(dims)[m] - 1
<1> DEFINE T == {m \in 0 .. n : Sizes(dims)[m] \in Nat \ {0} /\ Places(dims, c)[m] \in 0 .. Sizes(dims)[m] - 1}
<1>0. /\ n \in Nat /\ Sized(dims, n) /\ Placed(dims, c, n)
      /\ \A d \in 1 .. n : dims[d] \in Nat \ {0} /\ c[d] \in 0 .. dims[d] - 1
  BY Boxed
<1>1. 0 \in T
  BY <1>0 DEF Sized, Placed
<1>2. \A m \in 0 .. n - 1 : m \in T => m + 1 \in T
  <2> SUFFICES ASSUME NEW m \in 0 .. n - 1, Sizes(dims)[m] \in Nat \ {0},
                      Places(dims, c)[m] \in 0 .. Sizes(dims)[m] - 1
               PROVE  m + 1 \in T
    OBVIOUS
  <2> DEFINE P == Sizes(dims)[m]  q == Places(dims, c)[m]  D == dims[m + 1]  e == c[m + 1]
  <2>1. m + 1 \in 1 .. n /\ (m + 1) - 1 = m /\ D \in Nat \ {0} /\ e \in 0 .. D - 1
    BY <1>0
  <2>2. Sizes(dims)[m + 1] = P * D /\ Places(dims, c)[m + 1] = q * D + e
    BY <1>0, <2>1 DEF Sized, Placed
  <2>3. P \in Nat \ {0} /\ q \in 0 .. P - 1
    OBVIOUS
  <2> HIDE DEF P, q, D, e
  <2>4. q * D \in Nat /\ (P - 1) * D \in Nat /\ q * D <= (P - 1) * D
    BY <2>1, <2>3, ProductsGrow
  <2>5. (P - 1) * D = P * D - D /\ P * D \in Int
    BY <2>1, <2>3
  <2>6. P * D \in Nat \ {0} /\ q * D + e \in 0 .. P * D - 1
    BY <2>1, <2>3, <2>4, <2>5
  <2> QED
    BY <2>1, <2>2, <2>6
<1> HIDE DEF T
<1>3. \A m \in 0 .. n : m \in T
  BY <1>0, <1>1, <1>2, InductTo, Zenon
<1> QED
  BY <1>3 DEF T

\* No two coordinates have one place.
LEMMA PlacesDiffer ==
  ASSUME NEW n, NEW dims, Shape(dims, n), NEW c \in Box(dims), NEW e \in Box(dims),
         RowMajor(dims, c) = RowMajor(dims, e)
  PROVE  c = e
<1> DEFINE T == {m \in 0 .. n : Places(dims, c)[m] = Places(dims, e)[m] => \A d \in 1 .. m : c[d] = e[d]}
<1>0. /\ n \in Nat /\ Placed(dims, c, n) /\ Placed(dims, e, n) /\ c \in [1 .. n -> Int] /\ e \in [1 .. n -> Int]
      /\ \A d \in 1 .. n : dims[d] \in Nat \ {0} /\ c[d] \in 0 .. dims[d] - 1 /\ e[d] \in 0 .. dims[d] - 1
  BY Boxed
<1>1. 0 \in T
  BY <1>0
<1>2. \A m \in 0 .. n - 1 : m \in T => m + 1 \in T
  <2> SUFFICES ASSUME NEW m \in 0 .. n - 1, Places(dims, c)[m] = Places(dims, e)[m] => \A d \in 1 .. m : c[d] = e[d],
                      Places(dims, c)[m + 1] = Places(dims, e)[m + 1]
               PROVE  \A d \in 1 .. m + 1 : c[d] = e[d]
    <3>1. \A m \in 0 .. n - 1 : m + 1 \in 0 .. n
      BY <1>0
    <3> QED
      BY <3>1
  <2> DEFINE p == Places(dims, c)[m]  q == Places(dims, e)[m]  D == dims[m + 1]  a == c[m + 1]  b == e[m + 1]
  <2>1. m + 1 \in 1 .. n /\ (m + 1) - 1 = m /\ m \in 0 .. n
    BY <1>0
  <2>2. D \in Nat \ {0} /\ a \in 0 .. D - 1 /\ b \in 0 .. D - 1 /\ p \in Int /\ q \in Int
    BY <1>0, <2>1 DEF Placed
  <2>3. p * D + a = q * D + b
    BY <1>0, <2>1 DEF Placed
  <2> HIDE DEF p, q, D, a, b
  <2>4. p = q
    <3>1. (p - q) * D = b - a
      BY <2>2, <2>3
    <3>2. p - q >= 1 => (p - q) * D >= D
      BY <2>2
    <3>3. p - q <= -1 => (p - q) * D <= - D
      BY <2>2
    <3> QED
      BY <2>2, <3>1, <3>2, <3>3
  <2>5. a = b
    BY <2>2, <2>3, <2>4
  <2> QED
    BY <2>1, <2>4, <2>5 DEF p, q, a, b
<1> HIDE DEF T
<1>3. \A m \in 0 .. n : m \in T
  BY <1>0, <1>1, <1>2, InductTo, Zenon
<1>4. \A d \in 1 .. n : c[d] = e[d]
  <2>1. n \in T
    BY <1>0, <1>3
  <2> QED
    BY <1>0, <2>1 DEF T, Placed
<1> QED
  BY <1>0, <1>4

---------------------------------------------------------------------------
(* The odometer.                                                           *)

\* Every dimension after m is through.
Rolls(dims, c, n, m) == \A e \in m + 1 .. n : c[e] + 1 >= dims[e]
TurnedIs(dims, c, n, t) ==
  \A d \in 1 .. n : t[d] = IF ~ Rolls(dims, c, n, d) THEN c[d]
                           ELSE IF c[d] + 1 < dims[d] THEN c[d] + 1 ELSE 0

LEMMA TurnedInBox ==
  ASSUME NEW n, NEW dims, Shape(dims, n), NEW c \in Box(dims)
  PROVE  Turned(dims, c) \in Box(dims) /\ TurnedIs(dims, c, n, Turned(dims, c))
<1>1. /\ n \in Nat /\ c \in [1 .. n -> Int] /\ DOMAIN dims = 1 .. n /\ Len(dims) = n
      /\ \A d \in 1 .. n : dims[d] \in Nat \ {0} /\ c[d] \in 0 .. dims[d] - 1
  <2>1. /\ n \in Nat /\ c \in [1 .. n -> Int] /\ dims \in [1 .. n -> Int]
        /\ \A d \in 1 .. n : dims[d] \in Nat \ {0} /\ c[d] \in 0 .. dims[d] - 1
    BY Boxed
  <2>2. Len(dims) = n /\ DOMAIN dims = 1 .. n
    BY <2>1
  <2> QED
    BY <2>1, <2>2
<1> DEFINE t == Turned(dims, c)
<1>2. t = [d \in 1 .. n |-> IF ~ Rolls(dims, c, n, d) THEN c[d]
                            ELSE IF c[d] + 1 < dims[d] THEN c[d] + 1 ELSE 0]
  BY <1>1 DEF Turned, Rolls
<1> HIDE DEF t
<1>3. TurnedIs(dims, c, n, t) /\ DOMAIN t = 1 .. n
  BY <1>2 DEF TurnedIs
<1>4. ASSUME NEW d \in 1 .. n
      PROVE  t[d] \in 0 .. dims[d] - 1
  <2>1. t[d] = c[d] \/ (c[d] + 1 < dims[d] /\ t[d] = c[d] + 1) \/ t[d] = 0
    BY <1>3 DEF TurnedIs
  <2>2. dims[d] \in Nat \ {0} /\ c[d] \in 0 .. dims[d] - 1
    BY <1>1
  <2> QED
    BY <2>1, <2>2
<1>5. t \in [1 .. n -> Nat]
  <2>1. t = [d \in 1 .. n |-> t[d]]
    BY <1>2
  <2>2. \A d \in 1 .. n : t[d] \in Nat
    BY <1>1, <1>4
  <2> QED
    BY <2>1, <2>2
<1>6. \A d \in 1 .. n : t[d] < dims[d]
  BY <1>1, <1>4
<1>7. t \in Box(dims)
  BY <1>1, <1>5, <1>6 DEF Box
<1> QED
  BY <1>3, <1>7 DEF t

\* A coordinate that is not the last is turned to the next.
LEMMA TurnedIsNext ==
  ASSUME NEW n, NEW dims, Shape(dims, n), NEW c \in Box(dims),
         RowMajor(dims, c) # Product(dims) - 1
  PROVE  RowMajor(dims, Turned(dims, c)) = RowMajor(dims, c) + 1
<1> DEFINE t == Turned(dims, c)
           Stays(m) == ~ Rolls(dims, c, n, m) => Places(dims, t)[m] = Places(dims, c)[m]
           Moves(m) == Rolls(dims, c, n, m) =>
                         \/ Places(dims, t)[m] = Places(dims, c)[m] + 1
                         \/ Places(dims, t)[m] = 0 /\ Places(dims, c)[m] = Sizes(dims)[m] - 1
           T == {m \in 0 .. n : Stays(m) /\ Moves(m)}
<1>0. /\ n \in Nat /\ Sized(dims, n) /\ Placed(dims, c, n)
      /\ \A d \in 1 .. n : dims[d] \in Nat \ {0} /\ c[d] \in 0 .. dims[d] - 1
  BY Boxed
<1>1. t \in Box(dims) /\ TurnedIs(dims, c, n, t)
  BY TurnedInBox
<1> HIDE DEF t
<1>2. Placed(dims, t, n)
  BY <1>1, Boxed
<1>3. 0 \in T
  BY <1>0, <1>2 DEF Placed, Sized
<1>4. \A m \in 0 .. n - 1 : m \in T => m + 1 \in T
  <2> SUFFICES ASSUME NEW m \in 0 .. n - 1, m \in T
               PROVE  m + 1 \in T
    OBVIOUS
  <2> DEFINE P == Sizes(dims)[m]  q == Places(dims, c)[m]  r == Places(dims, t)[m]
             D == dims[m + 1]  a == c[m + 1]  b == t[m + 1]
             before == Rolls(dims, c, n, m)  after == Rolls(dims, c, n, m + 1)
  <2>1. m + 1 \in 1 .. n /\ (m + 1) - 1 = m /\ m \in 0 .. n /\ m + 1 \in 0 .. n
    BY <1>0
  <2>2. D \in Nat \ {0} /\ a \in 0 .. D - 1 /\ P \in Int /\ q \in Int /\ r \in Int
    BY <1>0, <1>2, <2>1 DEF Placed, Sized
  <2>3. /\ Sizes(dims)[m + 1] = P * D /\ Places(dims, c)[m + 1] = q * D + a
        /\ Places(dims, t)[m + 1] = r * D + b
    BY <1>0, <1>2, <2>1 DEF Placed, Sized
  <2>4. before <=> after /\ a + 1 >= D
    <3>1. m + 1 .. n = {m + 1} \cup (m + 1 + 1 .. n)
      BY <1>0, <2>1
    <3> QED
      BY <3>1 DEF Rolls
  <2>5. b = IF ~ after THEN a ELSE IF a + 1 < D THEN a + 1 ELSE 0
    BY <1>1, <2>1 DEF TurnedIs
  <2>6. /\ ~ before => r = q
        /\ before => r = q + 1 \/ (r = 0 /\ q = P - 1)
    BY DEF T
  <2> HIDE DEF P, q, r, D, a, b, before, after
  <2>7. ~ after => r * D + b = q * D + a
    BY <2>2, <2>4, <2>5, <2>6
  <2>8. after => r * D + b = q * D + a + 1 \/ (r * D + b = 0 /\ q * D + a = P * D - 1)
    <3>1. CASE ~ before
      BY <2>2, <2>4, <2>5, <2>6, <3>1
    <3>2. CASE before /\ r = q + 1
      <4>1. a = D - 1 /\ b = 0
        BY <2>2, <2>4, <2>5, <3>2
      <4>2. r * D = q * D + D
        BY <2>2, <3>2
      <4> QED
        BY <2>2, <4>1, <4>2
    <3>3. CASE before /\ r = 0 /\ q = P - 1
      <4>1. a = D - 1 /\ b = 0
        BY <2>2, <2>4, <2>5, <3>3
      <4>2. r * D = 0 /\ q * D = P * D - D
        BY <2>2, <3>3
      <4> QED
        BY <2>2, <4>1, <4>2
    <3> QED
      BY <2>6, <3>1, <3>2, <3>3
  <2>9. Stays(m + 1) /\ Moves(m + 1)
    BY <2>3, <2>7, <2>8 DEF after
  <2> QED
    BY <2>1, <2>9 DEF T
<1> HIDE DEF T
<1>5. n \in T
  <2>1. n \in 0 .. n
    BY <1>0
  <2> QED
    BY <1>0, <1>3, <1>4, <2>1, InductTo, Zenon
<1>6. Rolls(dims, c, n, n)
  BY <1>0 DEF Rolls
<1>7. Moves(n)
  BY <1>5 DEF T
<1> QED
  BY <1>0, <1>2, <1>6, <1>7 DEF t, Placed, Sized

\* The odometer passes every coordinate in row-major order.
LEMMA OdometerIs ==
  ASSUME NEW n, NEW dims, Shape(dims, n)
  PROVE  /\ Product(dims) \in Nat \ {0}
         /\ \A k \in 0 .. Product(dims) - 1 : Odometer(dims)[k] \in Box(dims) /\ RowMajor(dims, Odometer(dims)[k]) = k
<1> DEFINE first == [d \in DOMAIN dims |-> 0]
           last == Product(dims) - 1
           step == [p \in Box(dims) \X (1 .. last) |-> Turned(dims, p[1])]
           Turns(f) == f = [k \in 0 .. last |-> IF k = 0 THEN first ELSE Turned(dims, f[k - 1])]
           odo == CHOOSE f : Turns(f)
<1>1. n \in Nat /\ DOMAIN dims = 1 .. n /\ \A d \in 1 .. n : dims[d] \in Nat \ {0}
  BY DEF Shape
<1>2. first \in Box(dims)
  BY <1>1 DEF Box
<1>3. Sized(dims, n) /\ Placed(dims, first, n)
  BY <1>2, Boxed
<1>4. n \in 0 .. n /\ Product(dims) \in Nat \ {0}
  <2>1. n \in 0 .. n
    BY <1>1
  <2>2. Sizes(dims)[n] \in Nat \ {0}
    BY <1>2, <2>1, PlaceBound
  <2> QED
    BY <1>3, <2>1, <2>2 DEF Sized
<1>5. RowMajor(dims, first) = 0
  <2>0. \A d \in 1 .. n : first[d] = 0
    BY <1>1
  <2> HIDE DEF first
  <2> DEFINE T == {m \in 0 .. n : Places(dims, first)[m] = 0}
  <2>1. 0 \in T
    BY <1>1, <1>3 DEF Placed
  <2>2. \A m \in 0 .. n - 1 : m \in T => m + 1 \in T
    <3> SUFFICES ASSUME NEW m \in 0 .. n - 1, Places(dims, first)[m] = 0
                 PROVE  m + 1 \in T
      OBVIOUS
    <3>1. m + 1 \in 1 .. n /\ (m + 1) - 1 = m /\ first[m + 1] = 0 /\ m + 1 \in 0 .. n
      BY <1>1, <2>0
    <3>2. Places(dims, first)[m + 1] = Places(dims, first)[m] * dims[m + 1] + first[m + 1] /\ dims[m + 1] \in Int
      BY <1>1, <1>3, <3>1 DEF Placed
    <3> QED
      BY <3>1, <3>2
  <2> HIDE DEF T
  <2>3. n \in T
    BY <1>1, <2>1, <2>2, InductTo, Zenon, <1>4
  <2> QED
    BY <1>3, <2>3 DEF T, Placed
<1>6. Odometer(dims) = odo
  BY DEF Odometer
<1> HIDE DEF first
<1>7. step \in [Box(dims) \X (1 .. last) -> Box(dims)] /\ \A c \in Box(dims), k \in 1 .. last : step[<<c, k>>] = Turned(dims, c)
  BY TurnedInBox
<1>8. last \in Nat
  BY <1>4
<1> HIDE DEF step, last
<1>9. PICK f \in [0 .. last -> Box(dims)] : Chained(f, first, step, last)
  BY <1>2, <1>7, <1>8, Chain, Zenon
<1>10. ASSUME NEW k \in 1 .. last
       PROVE  k \in 0 .. last /\ k - 1 \in 0 .. last /\ f[k] = Turned(dims, f[k - 1]) /\ f[k - 1] \in Box(dims)
  <2>1. k \in 0 .. last /\ k - 1 \in 0 .. last
    BY <1>8
  <2>2. f[k - 1] \in Box(dims) /\ f[k] = step[<<f[k - 1], k>>]
    BY <1>9, <2>1 DEF Chained
  <2> QED
    BY <1>7, <2>1, <2>2
<1>11. Turns(f)
  <2>1. \A k \in 0 .. last : k # 0 => k \in 1 .. last
    BY <1>8
  <2>2. \A k \in 0 .. last : f[k] = IF k = 0 THEN first ELSE Turned(dims, f[k - 1])
    BY <1>9, <1>10, <2>1 DEF Chained
  <2>3. f = [k \in 0 .. last |-> f[k]]
    BY <1>9
  <2> QED
    BY <2>2, <2>3, Zenon
<1>12. Turns(odo)
  <2> HIDE DEF Turns
  <2> QED
    BY <1>11
<1> HIDE DEF odo
<1> DEFINE Good(k) == odo[k] \in Box(dims) /\ RowMajor(dims, odo[k]) = k
           T == {k \in 0 .. last : Good(k)}
<1>13. 0 \in T
  <2>1. 0 \in 0 .. last
    BY <1>8
  <2>2. odo[0] = first
    BY <1>12, <2>1
  <2> QED
    BY <1>2, <1>5, <2>1, <2>2
<1>14. \A k \in 0 .. last - 1 : k \in T => k + 1 \in T
  <2> SUFFICES ASSUME NEW k \in 0 .. last - 1, Good(k)
               PROVE  k + 1 \in T
    BY DEF T
  <2>1. k + 1 \in 0 .. last /\ k + 1 # 0 /\ (k + 1) - 1 = k /\ k # Product(dims) - 1 /\ k \in Nat
    BY <1>4, <1>8 DEF last
  <2>2. odo[k + 1] = Turned(dims, odo[k])
    BY <1>12, <2>1
  <2>3. odo[k + 1] \in Box(dims)
    BY <2>2, TurnedInBox
  <2>4. RowMajor(dims, odo[k + 1]) = k + 1
    BY <2>1, <2>2, TurnedIsNext
  <2> QED
    BY <2>1, <2>3, <2>4
<1> HIDE DEF T
<1>15. \A k \in 0 .. last : k \in T
  BY <1>8, <1>13, <1>14, InductTo, Zenon
<1>16. \A k \in 0 .. last : Good(k)
  BY <1>15 DEF T
<1> QED
  BY <1>4, <1>6, <1>16 DEF last

LEMMA CoordsBoxed ==
  ASSUME NEW n, NEW dims, Shape(dims, n)
  PROVE  Coords(dims) \subseteq Box(dims)
<1>1. DOMAIN dims = 1 .. n
  BY DEF Shape
<1> QED
  BY <1>1 DEF Coords, Box

\* Every coordinate is passed, at its place.
LEMMA OdometerPasses ==
  ASSUME NEW n, NEW dims, Shape(dims, n), NEW c \in Box(dims)
  PROVE  RowMajor(dims, c) \in 0 .. Product(dims) - 1 /\ Odometer(dims)[RowMajor(dims, c)] = c
<1> DEFINE k == RowMajor(dims, c)
<1>1. k \in 0 .. Product(dims) - 1
  <2>1. n \in 0 .. n /\ Sized(dims, n) /\ Placed(dims, c, n)
    BY Boxed
  <2>2. Places(dims, c)[n] \in 0 .. Sizes(dims)[n] - 1
    BY <2>1, PlaceBound
  <2> QED
    BY <2>1, <2>2 DEF Sized, Placed
<1> HIDE DEF k
<1>2. Odometer(dims)[k] \in Box(dims) /\ RowMajor(dims, Odometer(dims)[k]) = k
  BY <1>1, OdometerIs
<1>3. RowMajor(dims, Odometer(dims)[k]) = RowMajor(dims, c)
  BY <1>2 DEF k
<1>4. Odometer(dims)[k] = c
  BY <1>2, <1>3, PlacesDiffer
<1> QED
  BY <1>1, <1>4 DEF k

\* An array that holds something has no empty dimension.
LEMMA NoneEmpty ==
  ASSUME NEW n \in Nat, NEW dims \in [1 .. n -> Nat], Product(dims) > 0
  PROVE  Shape(dims, n)
<1> DEFINE T == {m \in 0 .. n : \A d \in 1 .. m : dims[d] = 0 => Sizes(dims)[m] = 0}
<1>1. dims \in [1 .. n -> Int] /\ \A d \in 1 .. n : dims[d] \in Nat
  OBVIOUS
<1>2. Sized(dims, n)
  BY <1>1, SizesOf
<1>3. 0 \in T
  OBVIOUS
<1>4. \A m \in 0 .. n - 1 : m \in T => m + 1 \in T
  <2> SUFFICES ASSUME NEW m \in 0 .. n - 1, m \in T
               PROVE  m + 1 \in T
    OBVIOUS
  <2>1. m + 1 \in 1 .. n /\ m + 1 \in 0 .. n /\ (m + 1) - 1 = m /\ m \in 0 .. n
    OBVIOUS
  <2>2. Sizes(dims)[m + 1] = Sizes(dims)[m] * dims[m + 1] /\ Sizes(dims)[m] \in Int /\ dims[m + 1] \in Nat
    BY <1>1, <1>2, <2>1 DEF Sized
  <2>3. ASSUME NEW d \in 1 .. m + 1, dims[d] = 0
        PROVE  Sizes(dims)[m + 1] = 0
    <3>1. d = m + 1 \/ d \in 1 .. m
      OBVIOUS
    <3>2. Sizes(dims)[m] = 0 \/ dims[m + 1] = 0
      BY <2>3, <3>1
    <3> QED
      BY <2>2, <3>2
  <2> QED
    BY <2>1, <2>3
<1> HIDE DEF T
<1>5. n \in T
  <2>1. n \in 0 .. n
    OBVIOUS
  <2> QED
    BY <1>3, <1>4, <2>1, InductTo, Zenon
<1>6. \A d \in 1 .. n : dims[d] # 0
  BY <1>2, <1>5 DEF T, Sized
<1> QED
  BY <1>1, <1>6 DEF Shape

---------------------------------------------------------------------------
(* The bytes a transfer reads.                                             *)
LEMMA GreatestIs ==
  ASSUME NEW S \in SUBSET Int, NEW m \in S, \A y \in S : m >= y
  PROVE  Max(S) = m
<1>1. \A x \in S : (\A y \in S : x >= y) => x = m
  OBVIOUS
<1> QED  BY <1>1 DEF Max

LEMMA BytesSpan ==
  ASSUME NEW O \in SUBSET Int, NEW item \in Nat \ {0}, NEW lo \in O, NEW hi \in O,
         \A o \in O : lo <= o /\ o <= hi
  PROVE  LET bytes == UNION {o .. o + item - 1 : o \in O}
         IN /\ Min(bytes) = lo /\ Max(bytes) + 1 = hi + item
            /\ bytes \in SUBSET Int /\ Min(bytes) \in bytes /\ Max(bytes) \in bytes
<1> DEFINE bytes == UNION {o .. o + item - 1 : o \in O}
<1>1. \A b \in bytes : \E o \in O : b \in o .. o + item - 1
  OBVIOUS
<1>2. \A o \in O : \A b \in o .. o + item - 1 : b \in bytes
  OBVIOUS
<1> HIDE DEF bytes
<1>3. lo \in lo .. lo + item - 1 /\ hi + item - 1 \in hi .. hi + item - 1
  OBVIOUS
<1>4. lo \in bytes /\ hi + item - 1 \in bytes
  BY <1>2, <1>3
<1>5. \A b \in bytes : b \in Int /\ lo <= b /\ b <= hi + item - 1
  BY <1>1
<1>6. bytes \in SUBSET Int
  BY <1>5
<1>7. Min(bytes) = lo
  BY <1>4, <1>5, <1>6, LeastIs
<1>8. Max(bytes) = hi + item - 1
  <2> DEFINE m == hi + item - 1
  <2>1. m \in bytes /\ \A b \in bytes : m >= b
    BY <1>4, <1>5
  <2> HIDE DEF m
  <2>2. Max(bytes) = m
    BY <1>6, <2>1, GreatestIs
  <2> QED
    BY <2>2 DEF m
<1>9. Max(bytes) + 1 = hi + item
  BY <1>8
<1>10. Min(bytes) \in bytes /\ Max(bytes) \in bytes
  BY <1>4, <1>7, <1>8
<1> QED
  BY <1>6, <1>7, <1>9, <1>10 DEF bytes

\* The least and the most a dimension adds to an offset.
Reach(dims, s, d) == (dims[d] - 1) * s[d]
Downs(dims, s) == [d \in DOMAIN dims |-> IF Reach(dims, s, d) < 0 THEN Reach(dims, s, d) ELSE 0]
Ups(dims, s) == [d \in DOMAIN dims |-> IF Reach(dims, s, d) < 0 THEN 0 ELSE Reach(dims, s, d)]

Terms(c, s) == [d \in DOMAIN c |-> c[d] * s[d]]

LEMMA TermsOf ==
  ASSUME NEW n, NEW dims, Shape(dims, n), NEW s \in [1 .. n -> Int], NEW c \in Box(dims)
  PROVE  /\ Terms(c, s) \in [1 .. n -> Int]
         /\ Downs(dims, s) \in [1 .. n -> Int] /\ Ups(dims, s) \in [1 .. n -> Int]
         /\ \A d \in 1 .. n : Downs(dims, s)[d] <= Terms(c, s)[d] /\ Terms(c, s)[d] <= Ups(dims, s)[d]
<1>1. /\ n \in Nat /\ DOMAIN dims = 1 .. n /\ DOMAIN c = 1 .. n
      /\ \A d \in 1 .. n : dims[d] \in Nat \ {0} /\ c[d] \in 0 .. dims[d] - 1 /\ s[d] \in Int
  <2>1. /\ n \in Nat /\ dims \in [1 .. n -> Int] /\ c \in [1 .. n -> Int]
        /\ \A d \in 1 .. n : dims[d] \in Nat \ {0} /\ c[d] \in 0 .. dims[d] - 1
    BY Boxed
  <2> QED
    BY <2>1
<1>2. ASSUME NEW d \in 1 .. n
      PROVE  /\ Downs(dims, s)[d] \in Int /\ Ups(dims, s)[d] \in Int /\ c[d] * s[d] \in Int
             /\ Downs(dims, s)[d] <= c[d] * s[d] /\ c[d] * s[d] <= Ups(dims, s)[d]
  <2> DEFINE D == dims[d]  a == c[d]  t == s[d]
  <2>1. D \in Nat \ {0} /\ a \in 0 .. D - 1 /\ t \in Int
    BY <1>1
  <2>2. /\ Downs(dims, s)[d] = IF (D - 1) * t < 0 THEN (D - 1) * t ELSE 0
        /\ Ups(dims, s)[d] = IF (D - 1) * t < 0 THEN 0 ELSE (D - 1) * t
    BY <1>1 DEF Downs, Ups, Reach
  <2> HIDE DEF D, a, t
  <2>3. CASE t >= 0
    <3>1. a * t \in Nat /\ (D - 1) * t \in Nat /\ a * t <= (D - 1) * t
      BY <2>1, <2>3, ProductsGrow
    <3> QED
      BY <2>2, <3>1 DEF a, t
  <2>4. CASE t < 0
    <3>1. a * (- t) \in Nat /\ (D - 1) * (- t) \in Nat /\ a * (- t) <= (D - 1) * (- t)
      <4>1. a \in Nat /\ - t \in Nat /\ D - 1 \in Nat /\ a <= D - 1 /\ - t <= - t
        BY <2>1, <2>4
      <4> QED
        BY <4>1, ProductsGrow, Zenon
    <3>2. a * (- t) = - (a * t) /\ (D - 1) * (- t) = - ((D - 1) * t) /\ a * t \in Int /\ (D - 1) * t \in Int
      BY <2>1
    <3>3. (D - 1) * t <= 0 /\ a * t <= 0 /\ (D - 1) * t <= a * t
      BY <3>1, <3>2
    <3>4. a * t = c[d] * s[d]
      BY DEF a, t
    <3> QED
      BY <2>2, <3>2, <3>3, <3>4
  <2> QED
    BY <2>1, <2>3, <2>4
<1> QED
  BY <1>1, <1>2 DEF Downs, Ups, Terms

\* Where the strides of a view lead, at the least and at the most.
LEMMA DotBetween ==
  ASSUME NEW n, NEW dims, Shape(dims, n), NEW s \in [1 .. n -> Int], NEW c \in Box(dims)
  PROVE  /\ Dot(c, s) \in Int /\ Total(Downs(dims, s)) \in Int /\ Total(Ups(dims, s)) \in Int
         /\ Total(Downs(dims, s)) <= Dot(c, s) /\ Dot(c, s) <= Total(Ups(dims, s))
<1> DEFINE terms == Terms(c, s)
           down == Downs(dims, s)
           up == Ups(dims, s)
<1>1. /\ terms \in [1 .. n -> Int] /\ down \in [1 .. n -> Int] /\ up \in [1 .. n -> Int]
  BY TermsOf
<1>2. DOMAIN c = 1 .. n /\ n \in Nat
  BY DEF Box, Shape
<1>4. \A d \in 1 .. n : down[d] <= terms[d] /\ terms[d] <= up[d]
  BY TermsOf
<1>5. Dot(c, s) = Total(terms)
  BY DEF Dot, Terms
<1> HIDE DEF terms, down, up
<1>6. n \in 0 .. n /\ Summed(terms, n) /\ Summed(down, n) /\ Summed(up, n)
  BY <1>1, <1>2, SumsOf
<1>7. Sums(down)[n] <= Sums(terms)[n]
  BY <1>1, <1>2, <1>4, <1>6, SumsBelow
<1>8. Sums(terms)[n] <= Sums(up)[n]
  BY <1>1, <1>2, <1>4, <1>6, SumsBelow
<1>9. Total(terms) \in Int /\ Total(down) \in Int /\ Total(up) \in Int
  BY <1>6 DEF Summed
<1>10. Total(down) <= Total(terms) /\ Total(terms) <= Total(up)
  BY <1>6, <1>7, <1>8 DEF Summed
<1> QED
  BY <1>5, <1>9, <1>10 DEF down, up

\* And there are elements at both ends.
LEMMA CornersAre ==
  ASSUME NEW n, NEW dims, Shape(dims, n), NEW s \in [1 .. n -> Int]
  PROVE  /\ \E c \in Box(dims) : Dot(c, s) = Total(Downs(dims, s))
         /\ \E c \in Box(dims) : Dot(c, s) = Total(Ups(dims, s))
<1> DEFINE falls(d) == Reach(dims, s, d) < 0
           low == [d \in DOMAIN dims |-> IF falls(d) THEN dims[d] - 1 ELSE 0]
           high == [d \in DOMAIN dims |-> IF falls(d) THEN 0 ELSE dims[d] - 1]
<1>1. n \in Nat /\ DOMAIN dims = 1 .. n /\ \A d \in 1 .. n : dims[d] \in Nat \ {0} /\ s[d] \in Int
  BY DEF Shape
<1>2. low \in Box(dims)
  BY <1>1 DEF Box
<1>3. high \in Box(dims)
  BY <1>1 DEF Box
<1>4. [d \in DOMAIN low |-> low[d] * s[d]] = Downs(dims, s)
  <2>1. ASSUME NEW d \in 1 .. n
        PROVE  low[d] * s[d] = IF Reach(dims, s, d) < 0 THEN Reach(dims, s, d) ELSE 0
    <3>1. low[d] = (IF falls(d) THEN dims[d] - 1 ELSE 0) /\ dims[d] \in Int /\ s[d] \in Int
      BY <1>1
    <3> HIDE DEF low
    <3> QED
      BY <3>1 DEF Reach
  <2>2. DOMAIN low = 1 .. n
    BY <1>1
  <2> HIDE DEF low
  <2> QED
    BY <1>1, <2>1, <2>2 DEF Downs
<1>5. [d \in DOMAIN high |-> high[d] * s[d]] = Ups(dims, s)
  <2>1. ASSUME NEW d \in 1 .. n
        PROVE  high[d] * s[d] = IF Reach(dims, s, d) < 0 THEN 0 ELSE Reach(dims, s, d)
    <3>1. high[d] = (IF falls(d) THEN 0 ELSE dims[d] - 1) /\ dims[d] \in Int /\ s[d] \in Int
      BY <1>1
    <3> HIDE DEF high
    <3> QED
      BY <3>1 DEF Reach
  <2>2. DOMAIN high = 1 .. n
    BY <1>1
  <2> HIDE DEF high
  <2> QED
    BY <1>1, <2>1, <2>2 DEF Ups
<1>6. Dot(low, s) = Total(Downs(dims, s)) /\ Dot(high, s) = Total(Ups(dims, s))
  <2> HIDE DEF low, high
  <2> QED
    BY <1>4, <1>5 DEF Dot
<1> HIDE DEF low, high
<1> QED
  BY <1>2, <1>3, <1>6

---------------------------------------------------------------------------
\* Narrowing in place loses no scalar.
Narrowed(last, k, N) ==
  [last EXCEPT ![k] = IF last[2 * k] = 2 * k /\ last[2 * k + 1] = 2 * k + 1 THEN - k - 1 ELSE 2 * N]
LEMMA NarrowIs ==
  ASSUME NEW N \in Nat
  PROVE  \A k \in 0 .. N - 1 : Narrow(N)[k] = - k - 1
<1> DEFINE H == 0 .. 2 * N - 1
           V == [H -> Int]
           wide == [h \in H |-> h]
           step == [p \in V \X (1 .. N) |-> Narrowed(p[1], p[2] - 1, N)]
           Stages(f) == f = [i \in 0 .. N |-> IF i = 0 THEN wide ELSE Narrowed(f[i - 1], i - 1, N)]
           stage == CHOOSE f : Stages(f)
<1>1. Narrow(N) = stage[N]
  BY DEF Narrow, Narrowed
<1>2. wide \in V /\ \A h \in H : wide[h] = h
  OBVIOUS
<1>3. ASSUME NEW last \in V, NEW k \in 0 .. N - 1
      PROVE  /\ Narrowed(last, k, N) \in V
             /\ \A h \in H : Narrowed(last, k, N)[h] =
                  IF h # k THEN last[h]
                  ELSE IF last[2 * k] = 2 * k /\ last[2 * k + 1] = 2 * k + 1 THEN - k - 1 ELSE 2 * N
  <2>1. k \in H
    OBVIOUS
  <2> DEFINE v == IF last[2 * k] = 2 * k /\ last[2 * k + 1] = 2 * k + 1 THEN - k - 1 ELSE 2 * N
  <2>2. v \in Int
    OBVIOUS
  <2>3. Narrowed(last, k, N) = [last EXCEPT ![k] = v]
    BY Zenon DEF Narrowed
  <2> HIDE DEF v
  <2>4. Narrowed(last, k, N) \in V /\ \A h \in H : Narrowed(last, k, N)[h] = IF h = k THEN v ELSE last[h]
    BY <2>1, <2>2, <2>3
  <2> QED
    BY <2>4 DEF v
<1>4. step \in [V \X (1 .. N) -> V] /\ \A last \in V, i \in 1 .. N : step[<<last, i>>] = Narrowed(last, i - 1, N)
  <2>1. \A i \in 1 .. N : i - 1 \in 0 .. N - 1
    OBVIOUS
  <2> HIDE DEF V
  <2> QED
    BY <1>3, <2>1
<1> HIDE DEF step, wide, V
<1>5. PICK f \in [0 .. N -> V] : Chained(f, wide, step, N)
  BY <1>2, <1>4, Chain, Zenon
<1>6. \A i \in 1 .. N : i \in 0 .. N /\ i - 1 \in 0 .. N /\ i # 0 /\ f[i - 1] \in V /\ f[i] = Narrowed(f[i - 1], i - 1, N)
  <2> SUFFICES ASSUME NEW i \in 1 .. N
               PROVE  i \in 0 .. N /\ i - 1 \in 0 .. N /\ i # 0 /\ f[i - 1] \in V /\ f[i] = Narrowed(f[i - 1], i - 1, N)
    OBVIOUS
  <2>1. i \in 0 .. N /\ i - 1 \in 0 .. N /\ i # 0
    OBVIOUS
  <2>2. f[i - 1] \in V /\ f[i] = step[<<f[i - 1], i>>]
    BY <1>5, <2>1 DEF Chained
  <2> QED
    BY <1>4, <2>1, <2>2
<1>7. Stages(f)
  <2>1. \A i \in 0 .. N : i # 0 => i \in 1 .. N
    OBVIOUS
  <2>2. \A i \in 0 .. N : f[i] = IF i = 0 THEN wide ELSE Narrowed(f[i - 1], i - 1, N)
    BY <1>5, <1>6, <2>1 DEF Chained
  <2>3. f = [i \in 0 .. N |-> f[i]]
    BY <1>5
  <2> QED
    BY <2>2, <2>3, Zenon
<1>8. Stages(stage)
  <2> HIDE DEF Stages
  <2> QED
    BY <1>7
<1> HIDE DEF stage
<1> DEFINE Good(i) == stage[i] \in V /\ \A h \in H : stage[i][h] = IF h < i THEN - h - 1 ELSE h
           T == {i \in 0 .. N : Good(i)}
<1>9. 0 \in T
  <2>1. 0 \in 0 .. N
    OBVIOUS
  <2>2. stage[0] = wide
    BY <1>8, <2>1
  <2> QED
    BY <1>2, <2>1, <2>2
<1>10. \A i \in 0 .. N - 1 : i \in T => i + 1 \in T
  <2> SUFFICES ASSUME NEW i \in 0 .. N - 1, Good(i)
               PROVE  i + 1 \in T
    BY DEF T
  <2>1. i + 1 \in 1 .. N /\ i + 1 \in 0 .. N /\ i + 1 # 0 /\ (i + 1) - 1 = i /\ i \in H
    OBVIOUS
  <2>2. stage[i + 1] = Narrowed(stage[i], i, N)
    BY <1>8, <2>1
  <2>3. 2 * i \in H /\ 2 * i + 1 \in H /\ ~ (2 * i < i) /\ ~ (2 * i + 1 < i)
    OBVIOUS
  <2>4. stage[i][2 * i] = 2 * i /\ stage[i][2 * i + 1] = 2 * i + 1
    <3>1. \A h \in H : ~ (h < i) => stage[i][h] = h
      OBVIOUS
    <3> HIDE DEF H
    <3> QED
      BY <2>3, <3>1, Zenon
  <2>5. stage[i + 1] \in V /\ \A h \in H : stage[i + 1][h] = IF h # i THEN stage[i][h] ELSE - i - 1
    BY <1>3, <2>1, <2>2, <2>4
  <2>6. \A h \in H : stage[i + 1][h] = IF h < i + 1 THEN - h - 1 ELSE h
    BY <2>5
  <2> QED
    BY <2>1, <2>5, <2>6
<1> HIDE DEF T
<1>11. N \in T
  <2>1. N \in 0 .. N
    OBVIOUS
  <2> QED
    BY <1>9, <1>10, <2>1, InductTo, Zenon
<1>12. \A k \in 0 .. N - 1 : k \in H /\ k < N
  OBVIOUS
<1> QED
  BY <1>1, <1>11, <1>12 DEF T

---------------------------------------------------------------------------
(* Transfers.                                                              *)
Types == {"s8", "s16", "f64", "c128", "s2", "u2"}

\* A transfer by its shape, its strides and its type.  What is sent of an
\* emulated type are codes, and the view stays inside the host's array.
TransferFormed(x) ==
  /\ x.type \in Types /\ x.dims \in Seq(Int) /\ x.strides \in Seq(Int)
  /\ WellShaped(x) /\ Wire(x.type).bits > 0 =>
       \A c \in Coords(x.dims) : x.host[HostOffset(x, c)] \in 0 .. Pow2(Wire(x.type).bits) - 1

WireFormed(w) ==
  /\ w.item \in Nat \ {0} /\ w.lanes \in {1, 2} /\ w.bits \in {0, 2} /\ w.widen \in BOOLEAN /\ w.signed \in BOOLEAN
  /\ w.bits > 0 => w.item = 1 /\ ~ w.widen
  /\ w.widen => w.item = w.lanes * (w.item \div w.lanes)
LEMMA WireIs ==
  ASSUME NEW type \in Types
  PROVE  WireFormed(Wire(type))
<1>0. 8 \div 1 = 8 /\ 16 \div 2 = 8
  OBVIOUS
<1>1. CASE type = "s8"
  <2>1. Wire(type) = [item |-> 1, widen |-> FALSE, lanes |-> 1, bits |-> 0, signed |-> TRUE]
    BY <1>1 DEF Wire
  <2> QED
    BY <1>0, <2>1 DEF WireFormed
<1>2. CASE type = "s16"
  <2>1. Wire(type) = [item |-> 2, widen |-> FALSE, lanes |-> 1, bits |-> 0, signed |-> TRUE]
    BY <1>2 DEF Wire
  <2> QED
    BY <1>0, <2>1 DEF WireFormed
<1>3. CASE type = "f64"
  <2>1. Wire(type) = [item |-> 8, widen |-> TRUE, lanes |-> 1, bits |-> 0, signed |-> TRUE]
    BY <1>3 DEF Wire
  <2> QED
    BY <1>0, <2>1 DEF WireFormed
<1>4. CASE type = "c128"
  <2>1. Wire(type) = [item |-> 16, widen |-> TRUE, lanes |-> 2, bits |-> 0, signed |-> TRUE]
    BY <1>4 DEF Wire
  <2> QED
    BY <1>0, <2>1 DEF WireFormed
<1>5. CASE type = "s2"
  <2>1. Wire(type) = [item |-> 1, widen |-> FALSE, lanes |-> 1, bits |-> 2, signed |-> TRUE]
    BY <1>5 DEF Wire
  <2> QED
    BY <1>0, <2>1 DEF WireFormed
<1>6. CASE type = "u2"
  <2>1. Wire(type) = [item |-> 1, widen |-> FALSE, lanes |-> 1, bits |-> 2, signed |-> FALSE]
    BY <1>6 DEF Wire
  <2> QED
    BY <1>0, <2>1 DEF WireFormed
<1> QED
  BY <1>1, <1>2, <1>3, <1>4, <1>5, <1>6 DEF Types

\* A code survives its decoding.
LEMMA CodesSurvive ==
  ASSUME NEW w, WireFormed(w), w.bits > 0, NEW code \in 0 .. Pow2(w.bits) - 1
  PROVE  EmulatedEncode(w, EmulatedDecode(w, code)) = code
<1>1. Pow2(w.bits) = 4 /\ w.signed \in BOOLEAN
  BY DEF WireFormed, Pow2
<1>2. code \in 0 .. 3 /\ code % 4 = code /\ 4 \div 2 = 2
  BY <1>1
<1>3. EmulatedDecode(w, code) = code \/ (EmulatedDecode(w, code) = code - 4 /\ code >= 2)
  BY <1>1, <1>2 DEF EmulatedDecode
<1>4. (code - 4) % 4 = code \/ code < 2
  <2>1. code = 2 \/ code = 3 \/ code < 2
    BY <1>2
  <2> QED
    BY <2>1
<1> QED
  BY <1>1, <1>2, <1>3, <1>4 DEF EmulatedEncode

\* What is known of a transfer of an array that is not empty.
Whole(x, n) ==
  /\ Shape(x.dims, n) /\ DOMAIN x.dims = 1 .. n /\ Product(x.dims) \in Nat \ {0}
  /\ x.strides = <<>> \/ x.strides \in [1 .. n -> Int]
  /\ WireFormed(Wire(x.type))
LEMMA WholeIs ==
  ASSUME NEW x, TransferFormed(x), WellShaped(x), Product(x.dims) > 0
  PROVE  Whole(x, Len(x.dims))
<1> DEFINE n == Len(x.dims)
<1>1. n \in Nat /\ x.dims \in [1 .. n -> Int] /\ DOMAIN x.dims = 1 .. n
  BY DEF TransferFormed
<1>2. \A d \in 1 .. n : x.dims[d] >= 0
  BY <1>1 DEF WellShaped
<1>3. x.strides = <<>> \/ x.strides \in [1 .. n -> Int]
  BY DEF TransferFormed, WellShaped
<1> HIDE DEF n
<1>4. x.dims \in [1 .. n -> Nat]
  BY <1>1, <1>2
<1>5. Shape(x.dims, n)
  BY <1>1, <1>4, NoneEmpty
<1>6. Product(x.dims) \in Nat \ {0}
  BY <1>5, OdometerIs
<1>7. WireFormed(Wire(x.type))
  BY WireIs DEF TransferFormed
<1>8. Whole(x, n)
  BY <1>1, <1>3, <1>5, <1>6, <1>7 DEF Whole
<1> QED
  BY <1>8 DEF n

\* The item read at a coordinate's place is the one the host has there.
LEMMA GatheredAt ==
  ASSUME NEW x, NEW n, Whole(x, n), NEW c \in Box(x.dims)
  PROVE  /\ RowMajor(x.dims, c) \in 0 .. Product(x.dims) - 1
         /\ StridedGather(x)[RowMajor(x.dims, c)] = HostOffset(x, c)
<1> DEFINE k == RowMajor(x.dims, c)
<1>1. Shape(x.dims, n)
  BY DEF Whole
<1>2. k \in 0 .. Product(x.dims) - 1 /\ Odometer(x.dims)[k] = c
  BY <1>1, OdometerPasses
<1> QED
  BY <1>2 DEF StridedGather, HostOffset

LEMMA GathersInts ==
  ASSUME NEW x, NEW n, Whole(x, n)
  PROVE  /\ DOMAIN StridedGather(x) = 0 .. Product(x.dims) - 1
         /\ \A k \in 0 .. Product(x.dims) - 1 : StridedGather(x)[k] \in Int
<1> DEFINE P == Product(x.dims)
<1>1. Shape(x.dims, n) /\ n \in Nat /\ DOMAIN x.dims = 1 .. n /\ Wire(x.type).item \in Nat \ {0}
  BY DEF Whole, Shape, WireFormed
<1>2. DOMAIN StridedGather(x) = 0 .. P - 1
  BY DEF StridedGather
<1>3. ASSUME NEW k \in 0 .. P - 1
      PROVE  StridedGather(x)[k] \in Int
  <2>1. CASE x.strides = <<>>
    <3>1. StridedGather(x)[k] = k * Wire(x.type).item
      BY <2>1 DEF StridedGather
    <3> QED
      BY <1>1, <3>1
  <2>2. CASE x.strides # <<>>
    <3>1. StridedGather(x)[k] = Dot(Odometer(x.dims)[k], x.strides)
      BY <2>2 DEF StridedGather
    <3>2. x.strides \in [1 .. n -> Int]
      BY <2>2 DEF Whole
    <3>3. Odometer(x.dims)[k] \in Box(x.dims)
      BY <1>1, OdometerIs
    <3> QED
      BY <1>1, <3>1, <3>2, <3>3, DotBetween
  <2> QED
    BY <2>1, <2>2
<1> QED
  BY <1>2, <1>3

LEMMA SpanFits ==
  ASSUME NEW x, NEW n, Whole(x, n)
  PROVE  LET bytes == UNION {o .. o + Wire(x.type).item - 1 : o \in Range(StridedGather(x))}
         IN /\ Span(x).lo = Min(bytes) /\ Span(x).hi = Max(bytes) + 1
            /\ bytes \in SUBSET Int /\ Min(bytes) \in bytes /\ Max(bytes) \in bytes
<1> DEFINE item == Wire(x.type).item
           P == Product(x.dims)
           O == Range(StridedGather(x))
           bytes == UNION {o .. o + item - 1 : o \in O}
<1>1. Shape(x.dims, n) /\ n \in Nat /\ DOMAIN x.dims = 1 .. n /\ P \in Nat \ {0} /\ item \in Nat \ {0}
  BY DEF Whole, Shape, WireFormed
<1>2. CASE x.strides = <<>>
  <2>1. StridedGather(x) = [k \in 0 .. P - 1 |-> k * item]
    BY <1>2 DEF StridedGather
  <2> HIDE DEF P, item
  <2>2. O = {k * item : k \in 0 .. P - 1}
    BY <2>1 DEF Range
  <2> HIDE DEF O
  <2>3. ASSUME NEW k \in 0 .. P - 1
        PROVE  k * item \in Nat /\ k * item <= (P - 1) * item /\ (P - 1) * item \in Nat
    <3>1. k \in Nat /\ P - 1 \in Nat /\ k <= P - 1 /\ item \in Nat /\ item <= item
      BY <1>1
    <3> QED
      BY <3>1, ProductsGrow, Zenon
  <2>4. O \in SUBSET Int /\ \A o \in O : 0 <= o /\ o <= (P - 1) * item
    BY <2>2, <2>3
  <2>5. 0 \in O /\ (P - 1) * item \in O
    <3>1. 0 \in 0 .. P - 1 /\ 0 * item = 0 /\ P - 1 \in 0 .. P - 1
      BY <1>1
    <3> QED
      BY <2>2, <3>1
  <2> DEFINE hi == (P - 1) * item
  <2>6. hi \in O /\ \A o \in O : 0 <= o /\ o <= hi
    BY <2>4, <2>5
  <2>7. hi + item = item * P
    BY <1>1
  <2> HIDE DEF hi
  <2>8. /\ Min(bytes) = 0 /\ Max(bytes) + 1 = hi + item
        /\ bytes \in SUBSET Int /\ Min(bytes) \in bytes /\ Max(bytes) \in bytes
    BY <1>1, <2>4, <2>5, <2>6, BytesSpan
  <2>9. Span(x).lo = 0 /\ Span(x).hi = item * P
    BY <1>2 DEF Span, item, P
  <2> QED
    BY <2>7, <2>8, <2>9 DEF O, item
<1>3. CASE x.strides # <<>>
  <2> DEFINE s == x.strides
             lo == Total(Downs(x.dims, s))
             hi == Total(Ups(x.dims, s))
             odo == Odometer(x.dims)
  <2>1. s \in [1 .. n -> Int]
    BY <1>3 DEF Whole
  <2>2. StridedGather(x) = [k \in 0 .. P - 1 |-> Dot(odo[k], s)]
    BY <1>3 DEF StridedGather
  <2>3. \A c \in Box(x.dims) : HostOffset(x, c) = Dot(c, s)
    BY <1>3 DEF HostOffset
  <2> HIDE DEF odo
  <2>4. O = {Dot(odo[k], s) : k \in 0 .. P - 1}
    BY <2>2 DEF Range
  <2>5. \A c \in Box(x.dims) : Dot(c, s) \in O
    <3>1. ASSUME NEW c \in Box(x.dims)
          PROVE  Dot(c, s) \in O
      <4>1. RowMajor(x.dims, c) \in 0 .. P - 1 /\ odo[RowMajor(x.dims, c)] = c
        BY <1>1, OdometerPasses DEF odo
      <4> QED
        BY <2>4, <4>1
    <3> QED
      BY <3>1
  <2>6. \A k \in 0 .. P - 1 : odo[k] \in Box(x.dims)
    BY <1>1, OdometerIs DEF odo
  <2> HIDE DEF s
  <2>7. \A c \in Box(x.dims) : Dot(c, s) \in Int /\ lo <= Dot(c, s) /\ Dot(c, s) <= hi
    BY <1>1, <2>1, DotBetween
  <2>8. lo \in O /\ hi \in O
    <3>1. /\ \E c \in Box(x.dims) : Dot(c, s) = lo
          /\ \E c \in Box(x.dims) : Dot(c, s) = hi
      BY <1>1, <2>1, CornersAre
    <3> HIDE DEF lo, hi, O
    <3> QED
      BY <2>5, <3>1
  <2> HIDE DEF lo, hi
  <2>9. O \in SUBSET Int /\ \A o \in O : lo <= o /\ o <= hi
    BY <2>4, <2>6, <2>7
  <2>10. Span(x).lo = lo /\ Span(x).hi = item + hi
    <3>1. Span(x) = [lo |-> Total(Downs(x.dims, x.strides)), hi |-> item + Total(Ups(x.dims, x.strides))]
      BY <1>3 DEF Span, Downs, Ups, Reach
    <3> QED
      BY <3>1 DEF lo, hi, s
  <2> HIDE DEF O, item
  <2>11. /\ Min(bytes) = lo /\ Max(bytes) + 1 = hi + item
         /\ bytes \in SUBSET Int /\ Min(bytes) \in bytes /\ Max(bytes) \in bytes
    BY <1>1, <2>8, <2>9, BytesSpan
  <2>12. Span(x).lo = Min(bytes) /\ Span(x).hi = Max(bytes) + 1
    <3>1. hi \in Int /\ item \in Int
      BY <1>1, <2>8, <2>9
    <3> HIDE DEF bytes
    <3> QED
      BY <2>10, <2>11, <3>1
  <2>13. bytes \in SUBSET Int /\ Min(bytes) \in bytes /\ Max(bytes) \in bytes
    BY <2>11
  <2> QED
    BY <2>12, <2>13 DEF O, item
<1> QED
  BY <1>2, <1>3

LEMMA ItemIs ==
  ASSUME NEW type \in Types
  PROVE  Wire(type).item \in {1, 2, 8, 16}
  BY DEF Types, Wire

\* A staged byte's item, and its place in it.
LEMMA ByteIn ==
  ASSUME NEW P \in Nat \ {0}, NEW item \in {1, 2, 8, 16}
  PROVE  /\ \A b \in 0 .. P * item - 1 : b \div item \in 0 .. P - 1 /\ b % item \in 0 .. item - 1
         /\ \A k \in 0 .. P - 1 : \A j \in 0 .. item - 1 :
              /\ k * item + j \in 0 .. P * item - 1
              /\ (k * item + j) \div item = k /\ (k * item + j) % item = j
<1>1. CASE item = 1
  BY <1>1
<1>2. CASE item = 2
  BY <1>2
<1>3. CASE item = 8
  BY <1>3
<1>4. CASE item = 16
  BY <1>4
<1> QED
  BY <1>1, <1>2, <1>3, <1>4

\* The bytes read are those of the items.
LEMMA BytesAre ==
  ASSUME NEW x, NEW n, Whole(x, n), x.type \in Types
  PROVE  /\ DOMAIN BytesRead(x) = 0 .. Product(x.dims) * Wire(x.type).item - 1
         /\ Range(BytesRead(x)) = UNION {o .. o + Wire(x.type).item - 1 : o \in Range(StridedGather(x))}
<1> DEFINE item == Wire(x.type).item
           P == Product(x.dims)
           at == StridedGather(x)
           D == 0 .. P * item - 1
<1>1. P \in Nat \ {0} /\ item \in {1, 2, 8, 16}
  BY ItemIs DEF Whole
<1>2. DOMAIN at = 0 .. P - 1 /\ \A k \in 0 .. P - 1 : at[k] \in Int
  BY GathersInts
<1>3. BytesRead(x) = [b \in D |-> at[b \div item] + (b % item)]
  BY DEF BytesRead
<1> HIDE DEF item, P, at, D
<1>4. /\ \A b \in D : b \div item \in 0 .. P - 1 /\ b % item \in 0 .. item - 1
      /\ \A k \in 0 .. P - 1 : \A j \in 0 .. item - 1 :
           /\ k * item + j \in D
           /\ (k * item + j) \div item = k /\ (k * item + j) % item = j
  BY <1>1, ByteIn DEF D
<1>5. item \in Nat \ {0}
  BY <1>1
<1>6. ASSUME NEW v \in Range(BytesRead(x))
      PROVE  \E o \in Range(at) : v \in o .. o + item - 1
  <2>1. PICK b \in D : v = at[b \div item] + (b % item)
    BY <1>3 DEF Range
  <2>2. b \div item \in 0 .. P - 1 /\ b % item \in 0 .. item - 1
    BY <1>4
  <2> DEFINE k == b \div item
             o == at[k]
  <2>3. o \in Int /\ o \in Range(at)
    <3>1. k \in 0 .. P - 1
      BY <2>2
    <3> HIDE DEF k
    <3> QED
      BY <1>2, <3>1 DEF Range
  <2>4. v \in o .. o + item - 1
    <3> HIDE DEF o
    <3> QED
      BY <1>5, <2>1, <2>2, <2>3 DEF o
  <2> QED
    BY <2>3, <2>4
<1>7. ASSUME NEW o \in Range(at), NEW v \in o .. o + item - 1
      PROVE  v \in Range(BytesRead(x))
  <2>1. PICK k \in 0 .. P - 1 : o = at[k]
    BY <1>2 DEF Range
  <2>2. o \in Int
    BY <1>2, <2>1
  <2> DEFINE j == v - o
             b == k * item + j
  <2>3. j \in 0 .. item - 1 /\ o + j = v
    BY <1>5, <2>2
  <2> HIDE DEF j
  <2>4. b \in D /\ b \div item = k /\ b % item = j
    BY <1>4, <2>3
  <2> HIDE DEF b
  <2>5. BytesRead(x)[b] = v
    BY <1>3, <2>1, <2>3, <2>4
  <2> QED
    BY <1>3, <2>4, <2>5 DEF Range
<1> QED
  BY <1>3, <1>6, <1>7 DEF item, P, at, D

\* What the device holds is what was read.
LEMMA HeldIs ==
  ASSUME NEW x, NEW n, Whole(x, n), NEW k \in 0 .. Product(x.dims) - 1
  PROVE  Held(x, k) = IF Wire(x.type).bits > 0 THEN EmulatedDecode(Wire(x.type), x.host[StridedGather(x)[k]])
                      ELSE StridedGather(x)[k]
<1> DEFINE w == Wire(x.type)
           P == Product(x.dims)
           N == P * w.lanes
           half == Narrow(N)
<1>1. P \in Nat \ {0} /\ w.lanes \in {1, 2}
  BY DEF Whole, WireFormed
<1>2. ASSUME NEW j \in k * w.lanes .. (k + 1) * w.lanes - 1
      PROVE  half[j] = - j - 1
  <2>1. N \in Nat /\ j \in 0 .. N - 1
    <3>1. CASE w.lanes = 1
      BY <1>1, <3>1
    <3>2. CASE w.lanes = 2
      BY <1>1, <3>2
    <3> QED
      BY <1>1, <3>1, <3>2
  <2> HIDE DEF N
  <2> QED
    BY <2>1, NarrowIs
<1> HIDE DEF half, N
<1>3. ~ \E j \in k * w.lanes .. (k + 1) * w.lanes - 1 : half[j] # - j - 1
  BY <1>2
<1> QED
  BY <1>3 DEF Held, half, N

LEMMA RoundTrip ==
  ASSUME NEW x, TransferFormed(x), BufferFromHostBuffer(x).status = "ok", Product(x.dims) > 0
  PROVE  LET literal == ToLiteral(x, BufferFromHostBuffer(x).array, Product(x.dims) * Wire(x.type).item)
         IN /\ Len(literal) = Product(x.dims)
            /\ \A c \in Coords(x.dims) : literal[1 + RowMajor(x.dims, c)] = HostElement(x, c)
<1> DEFINE w == Wire(x.type)
           P == Product(x.dims)
           n == Len(x.dims)
           array == BufferFromHostBuffer(x).array
           literal == ToLiteral(x, array, P * w.item)
<1>1. WellShaped(x)
  BY DEF BufferFromHostBuffer, Rejected
<1>2. Whole(x, n)
  BY <1>1, WholeIs
<1> HIDE DEF n
<1>3. Shape(x.dims, n) /\ P \in Nat \ {0} /\ WireFormed(w)
  BY <1>2 DEF Whole
<1>4. array = [k \in 1 .. P |-> Held(x, k - 1)]
  <2>1. P # 0
    BY <1>3
  <2>2. BufferFromHostBuffer(x) = Sent([k \in 1 .. P |-> Held(x, k - 1)], Release(x))
    BY <1>1, <2>1 DEF BufferFromHostBuffer, Rejected, Refused
  <2> QED
    BY <2>2 DEF Sent
<1> HIDE DEF array, w, P
<1>5. Len(array) = P /\ DOMAIN array = 1 .. P
  BY <1>3, <1>4
<1>6. literal = IF w.bits > 0 THEN [k \in DOMAIN array |-> EmulatedEncode(w, array[k])] ELSE array
  <2>1. w.item \in Nat \ {0} /\ w.lanes \in {1, 2}
    BY <1>3 DEF WireFormed
  <2>2. CASE w.bits > 0
    <3>1. P * w.item = P
      BY <1>3, <2>2 DEF WireFormed
    <3> QED
      BY <1>5, <2>2, <3>1 DEF ToLiteral, w
  <2>3. CASE ~ (w.bits > 0) /\ w.widen
    <3> DEFINE q == w.item \div w.lanes
    <3>1. q \in Int /\ w.item = w.lanes * q
      <4>1. w.item = w.lanes * (w.item \div w.lanes)
        BY <1>3, <2>3 DEF WireFormed
      <4>2. w.item \div w.lanes \in Int
        BY <2>1
      <4> QED
        BY <4>1, <4>2
    <3>2. Len(array) * w.lanes * (w.item \div w.lanes) = P * w.item
      <4> HIDE DEF q
      <4>1. P * w.lanes * q = P * w.item
        <5>1. CASE w.lanes = 1
          BY <1>3, <2>1, <3>1, <5>1
        <5>2. CASE w.lanes = 2
          <6>1. P * 2 * q = P * (2 * q)
            BY <1>3, <3>1
          <6> QED
            BY <3>1, <5>2, <6>1
        <5> QED
          BY <2>1, <5>1, <5>2
      <4> QED
        BY <1>5, <4>1 DEF q
    <3> QED
      BY <2>3, <3>2 DEF ToLiteral, w
  <2>4. CASE ~ (w.bits > 0) /\ ~ w.widen
    <3>1. ~ (P * w.item > P * w.item)
      BY <1>3, <2>1
    <3> QED
      BY <1>5, <2>4, <3>1 DEF ToLiteral, w
  <2> QED
    BY <2>2, <2>3, <2>4
<1> HIDE DEF literal
<1>7. Len(literal) = P
  <2>1. CASE w.bits > 0
    <3>1. literal = [k \in 1 .. P |-> EmulatedEncode(w, array[k])]
      BY <1>5, <1>6, <2>1
    <3> QED
      BY <1>3, <3>1
  <2>2. CASE ~ (w.bits > 0)
    BY <1>5, <1>6, <2>2
  <2> QED
    BY <2>1, <2>2
<1>8. ASSUME NEW c \in Coords(x.dims)
      PROVE  literal[1 + RowMajor(x.dims, c)] = HostElement(x, c)
  <2> DEFINE k == RowMajor(x.dims, c)
  <2>1. c \in Box(x.dims)
    BY <1>3, CoordsBoxed
  <2>2. k \in 0 .. P - 1 /\ StridedGather(x)[k] = HostOffset(x, c)
    BY <1>2, <2>1, GatheredAt DEF P
  <2> HIDE DEF k
  <2>3. 1 + k \in 1 .. P /\ (1 + k) - 1 = k
    BY <1>3, <2>2
  <2>4. array[1 + k] = Held(x, k)
    BY <1>4, <2>3
  <2>5. Held(x, k) = IF w.bits > 0 THEN EmulatedDecode(w, x.host[HostOffset(x, c)]) ELSE HostOffset(x, c)
    BY <1>2, <2>2, HeldIs DEF w, P
  <2>6. CASE w.bits > 0
    <3>1. x.host[HostOffset(x, c)] \in 0 .. Pow2(w.bits) - 1
      BY <1>1, <2>6 DEF TransferFormed, w
    <3>2. literal[1 + k] = EmulatedEncode(w, array[1 + k])
      BY <1>5, <1>6, <2>3, <2>6
    <3>3. literal[1 + k] = x.host[HostOffset(x, c)]
      BY <1>3, <2>4, <2>5, <2>6, <3>1, <3>2, CodesSurvive
    <3> QED
      BY <2>6, <3>3 DEF HostElement, w, k
  <2>7. CASE ~ (w.bits > 0)
    BY <1>6, <2>4, <2>5, <2>7 DEF HostElement, w, k
  <2> QED
    BY <2>6, <2>7
<1> QED
  BY <1>7, <1>8 DEF literal, array, P, w

LEMMA BytesFinite ==
  ASSUME NEW x, NEW n, Whole(x, n), x.type \in Types
  PROVE  LET bytes == Range(BytesRead(x))
             nbytes == Product(x.dims) * Wire(x.type).item
         IN /\ Cardinality(DOMAIN BytesRead(x)) = nbytes /\ nbytes \in Nat \ {0}
            /\ Cardinality(bytes) \in Nat /\ Cardinality(bytes) <= nbytes
<1> DEFINE item == Wire(x.type).item
           P == Product(x.dims)
           D == 0 .. P * item - 1
           reads == BytesRead(x)
           bytes == Range(reads)
<1>1. P \in Nat \ {0} /\ item \in Nat \ {0}
  BY DEF Whole, WireFormed
<1>2. DOMAIN reads = D
  BY BytesAre
<1>3. reads = [b \in D |-> reads[b]]
  BY <1>2 DEF BytesRead
<1> HIDE DEF reads, item, P
<1>4. P * item \in Nat /\ P * item > 0
  <2>1. P >= 1 /\ item >= 1 /\ P \in Nat /\ item \in Nat
    BY <1>1
  <2>2. 1 * 1 <= P * item /\ P * item \in Nat
    BY <2>1, ProductsGrow, Zenon
  <2> QED
    BY <2>2
<1>5. IsFiniteSet(D) /\ Cardinality(D) = P * item
  BY <1>4, FS_Interval
<1>6. reads \in Surjection(D, bytes)
  BY <1>3 DEF Surjection, Range
<1> HIDE DEF D, bytes
<1>7. IsFiniteSet(bytes) /\ Cardinality(bytes) <= P * item
  BY <1>5, <1>6, FS_Surjection
<1>8. Cardinality(bytes) \in Nat
  BY <1>7, FS_CardinalityType
<1> QED
  BY <1>2, <1>4, <1>5, <1>7, <1>8 DEF reads, item, P, bytes

\* What is given back, of what was read.
LEMMA PagesOf ==
  ASSUME NEW x, TransferFormed(x), WellShaped(x), Product(x.dims) > 0
  PROVE  LET reads == BytesRead(x)
             bytes == Range(reads)
             box == Min(bytes) .. Max(bytes)
         IN /\ Release(x) \in {{}, box}
            /\ bytes = box => Release(x) = box
            /\ Cardinality(bytes) = Cardinality(DOMAIN reads) =>
                 Cardinality(Release(x)) <= 2 * Cardinality(bytes)
<1> DEFINE item == Wire(x.type).item
           P == Product(x.dims)
           reads == BytesRead(x)
           bytes == Range(reads)
           lo == Min(bytes)
           hi == Max(bytes)
           box == lo .. hi
           span == hi - lo + 1
<1>1. Whole(x, Len(x.dims)) /\ x.type \in Types
  BY WholeIs DEF TransferFormed
<1>2. P \in Nat \ {0} /\ item \in Nat \ {0}
  BY <1>1 DEF Whole, WireFormed
<1>3. bytes = UNION {o .. o + item - 1 : o \in Range(StridedGather(x))}
  BY <1>1, BytesAre
<1>4. /\ Span(x).lo = lo /\ Span(x).hi = hi + 1
      /\ bytes \in SUBSET Int /\ lo \in bytes /\ hi \in bytes
  BY <1>1, <1>3, SpanFits
<1>5. /\ Cardinality(DOMAIN reads) = P * item /\ P * item \in Nat /\ P * item > 0
      /\ Cardinality(bytes) \in Nat /\ Cardinality(bytes) <= P * item
  BY <1>1, BytesFinite
<1> HIDE DEF reads, item, P, bytes
<1>10. lo \in Int /\ hi \in Int
  BY <1>4
<1> HIDE DEF lo, hi
<1>11. Cardinality(box) = IF lo > hi THEN 0 ELSE span
  BY <1>10, FS_Interval
<1>13. Release(x) = IF span > 0 /\ span <= 2 * (P * item) THEN box ELSE {}
  <2>1. Span(x).hi - Span(x).lo = span /\ Span(x).hi - 1 = hi
    BY <1>4, <1>10
  <2> QED
    BY <1>4, <2>1 DEF Release, P, item
<1>14. ASSUME bytes = box
       PROVE  Release(x) = box
  <2>1. CASE span > 0
    <3>1. Cardinality(box) = span
      BY <1>10, <1>11, <2>1
    <3>2. span <= P * item
      BY <1>5, <1>14, <3>1
    <3>3. span <= 2 * (P * item)
      BY <1>5, <1>10, <3>2
    <3> QED
      BY <1>13, <2>1, <3>3
  <2>2. CASE ~ (span > 0)
    <3>1. box = {}
      BY <1>10, <2>2
    <3> QED
      BY <1>13, <2>2, <3>1
  <2> QED
    BY <2>1, <2>2
<1>15. ASSUME Cardinality(bytes) = Cardinality(DOMAIN reads)
       PROVE  Cardinality(Release(x)) <= 2 * Cardinality(bytes)
  <2>1. Cardinality(bytes) = P * item
    BY <1>5, <1>15
  <2>2. CASE span > 0 /\ span <= 2 * (P * item)
    <3>1. Cardinality(box) = span
      BY <1>10, <1>11, <2>2
    <3> QED
      BY <1>13, <2>1, <2>2, <3>1
  <2>3. CASE ~ (span > 0 /\ span <= 2 * (P * item))
    <3>1. Release(x) = {} /\ Cardinality({}) = 0
      BY <1>13, <2>3, FS_EmptySet
    <3> QED
      BY <1>5, <3>1
  <2> QED
    BY <2>2, <2>3
<1>16. Release(x) \in {{}, box}
  BY <1>13
<1> QED
  BY <1>14, <1>15, <1>16 DEF lo, hi, bytes, reads

\* What was transferred is read back in row-major order, whatever the host's
\* layout; the pages given back are the interval from the lowest to the
\* highest byte read or none, all of it when the view fills it, and never
\* more than twice the bytes of a view that reads none twice; and the host's
\* data is let go whether or not it was copied, the one allocation failure
\* apart that HostIsReleased is about.
THEOREM TransfersAreAlwaysWhole ==
  (input.kind = "transfer" => TransferFormed(input)) => TransfersAreWhole
<1> SUFFICES ASSUME input.kind = "transfer" => TransferFormed(input)
             PROVE  TransfersAreWhole
  OBVIOUS
<1>1. TransfersRoundTrip
  BY RoundTrip DEF TransfersRoundTrip
<1> DEFINE sent == BufferFromHostBuffer(input)
<1>2. \/ sent = Rejected("invalid", {})
      \/ sent = Sent(<<>>, {}) /\ Product(input.dims) = 0
      \/ sent = Refused("exhausted")
      \/ sent = Rejected("exhausted", Release(input)) /\ DecodeFails(input)
      \/ sent = Sent([n \in 1 .. Product(input.dims) |-> Held(input, n - 1)], Release(input))
  BY DEF BufferFromHostBuffer, DecodeFails
<1>3. PagesAreRead
  <2> SUFFICES ASSUME TransferFormed(input), WellShaped(input), Product(input.dims) > 0
               PROVE  LET reads == BytesRead(input)
                          bytes == Range(reads)
                          box == Min(bytes) .. Max(bytes)
                      IN /\ sent.released \in {{}, box}
                         /\ sent.status = "ok" /\ bytes = box => sent.released = box
                         /\ Cardinality(bytes) = Cardinality(DOMAIN reads) =>
                              Cardinality(sent.released) <= 2 * Cardinality(bytes)
    BY DEF PagesAreRead
  <2>1. /\ sent.released \in {{}, Release(input)}
        /\ sent.status = "ok" => sent.released = Release(input)
    BY <1>2 DEF Rejected, Sent, Refused
  <2> DEFINE bytes == Range(BytesRead(input))
  <2>2. Cardinality(bytes) \in Nat
    <3>1. Whole(input, Len(input.dims)) /\ input.type \in Types
      BY WholeIs DEF TransferFormed
    <3> QED
      BY <3>1, BytesFinite
  <2>3. Cardinality({}) = 0
    BY FS_EmptySet
  <2> DEFINE R == Release(input)
             box == Min(bytes) .. Max(bytes)
             dense == Cardinality(bytes) = Cardinality(DOMAIN BytesRead(input))
  <2>4. /\ R \in {{}, box}
        /\ bytes = box => R = box
        /\ dense => Cardinality(R) <= 2 * Cardinality(bytes)
    BY PagesOf
  <2> HIDE DEF sent, bytes, R, box, dense
  <2>5. /\ sent.released \in {{}, box}
        /\ sent.status = "ok" /\ bytes = box => sent.released = box
        /\ dense => Cardinality(sent.released) <= 2 * Cardinality(bytes)
    <3>1. sent.released \in {{}, R} /\ (sent.status = "ok" => sent.released = R)
      BY <2>1 DEF R
    <3>2. 0 <= 2 * Cardinality(bytes)
      BY <2>2 DEF bytes
    <3> QED
      BY <2>3, <2>4, <3>1, <3>2
  <2> QED
    BY <2>5 DEF bytes, box, dense
<1>4. HostIsReleasedOtherwise
  BY <1>2 DEF HostIsReleasedOtherwise, HostIsReleased, Rejected, Refused, Sent
<1> QED
  BY <1>1, <1>3, <1>4 DEF TransfersAreWhole

---------------------------------------------------------------------------
(* Index ranges.  A node's ranges hold its values; a node is a view of its  *)
(* peeled root; a predicate that is known of it says what it is known to    *)
(* say; and an addition or a remainder has the operands it names.           *)
RangeSet == [known : BOOLEAN, lo : Int, hi : Int]
Parts(n) == IF n = 4 THEN 0 ELSE n
Fields == {"kind", "ins", "n", "peel", "i1", "val", "whole", "part", "neg"}
Typed(x) ==
  /\ DOMAIN x = Fields /\ x.n \in Nat /\ x.i1 \in BOOLEAN
  /\ x.val \in [Inputs -> [1 .. Size(x) -> IF x.i1 THEN {0, 1} ELSE Int]]
  /\ x.whole \in RangeSet /\ x.part \in [1 .. Parts(x.n) -> RangeSet]

Sound(x) ==
  \A e \in Inputs : \A i \in 1 .. Size(x) :
    Within(x.val[e][i], x.whole) /\ (i \in DOMAIN x.part => Within(x.val[e][i], x.part[i]))

\* Where element i of x is found in z, of which it is a view.
Seen(z, i) == IF Size(z) = 1 THEN 1 ELSE i
Fits(z, x) == Size(z) = 1 \/ z.n = x.n
Views(x, z) ==
  Fits(z, x) /\ \A e \in Inputs : \A i \in 1 .. Size(x) : x.val[e][i] = z.val[e][Seen(z, i)]

Equals(x, z) ==
  Fits(z, x) /\ \A e \in Inputs : \A i \in 1 .. Size(x) :
                  (x.val[e][i] = 1) <=> (z.val[e][Seen(z, i)] < 0)
Implied(x, z) ==
  Fits(z, x) /\ \A e \in Inputs : \A i \in 1 .. Size(x) :
                  z.val[e][Seen(z, i)] < 0 => x.val[e][i] = 1
Always(x) == \A e \in Inputs : \A i \in 1 .. Size(x) : x.val[e][i] = 1

NegIs(ns, x) ==
  /\ x.neg.always => Always(x)
  /\ \A k \in x.neg.equals : k \in DOMAIN ns /\ Equals(x, ns[k])
  /\ ~ x.neg.always => \A k \in x.neg.weaker : k \in DOMAIN ns /\ Implied(x, ns[k])

Adds(x, a, b) ==
  \A e \in Inputs : \A i \in 1 .. Size(x) : x.val[e][i] = a.val[e][i] + b.val[e][i]
Divides(x, a, b) ==
  \A e \in Inputs : \A i \in 1 .. Size(x) :
    b.val[e][i] # 0 => x.val[e][i] = truncated(a.val[e][i], b.val[e][i])
OpIs(ns, x) ==
  x.kind \in {"add", "remainder"} =>
    /\ x.ins \in [1 .. 2 -> DOMAIN ns] /\ ~ x.i1
    /\ \A k \in 1 .. 2 : ns[x.ins[k]].n = x.n
    /\ x.kind = "add" => Adds(x, ns[x.ins[1]], ns[x.ins[2]])
    /\ x.kind = "remainder" => Divides(x, ns[x.ins[1]], ns[x.ins[2]])

PeelIs(ns, x) == x.peel \in DOMAIN ns /\ Views(x, ns[x.peel])
NodeIs(ns, x) == Typed(x) /\ Sound(x) /\ PeelIs(ns, x) /\ NegIs(ns, x) /\ OpIs(ns, x)
NodesAre(ns) == \A k \in DOMAIN ns : NodeIs(ns, ns[k])

---------------------------------------------------------------------------
(* Values and their ranges, op by op.                                      *)
LEMMA Bigger ==
  ASSUME NEW a \in Int, NEW b \in Int
  PROVE  /\ least(a, b) \in {a, b} /\ least(a, b) <= a /\ least(a, b) <= b
         /\ most(a, b) \in {a, b} /\ most(a, b) >= a /\ most(a, b) >= b
         /\ magnitude(a) \in Nat /\ (magnitude(a) = a \/ magnitude(a) = - a)
BY DEF least, most, magnitude

\* A range that is made holds what lies between its ends; an unknown one holds everything.
LEMMA Made ==
  ASSUME NEW lo \in Int, NEW hi \in Int
  PROVE  /\ MakeRange(lo, hi) \in RangeSet /\ UnknownRange \in RangeSet
         /\ \A v : Within(v, UnknownRange)
         /\ \A v \in Int : lo <= v /\ v <= hi => Within(v, MakeRange(lo, hi))
BY DEF MakeRange, UnknownRange, RangeSet, Within

\* A remainder is smaller than its divisor and has the dividend's sign.
LEMMA RemainderBounded ==
  ASSUME NEW a \in Int, NEW b \in Int, b # 0
  PROVE  /\ truncated(a, b) \in Int
         /\ truncated(a, b) <= magnitude(b) - 1 /\ truncated(a, b) >= - (magnitude(b) - 1)
         /\ a >= 0 => truncated(a, b) >= 0
<1>1. magnitude(a) \in Nat /\ magnitude(b) \in Nat \ {0}
  BY DEF magnitude
<1>2. magnitude(a) % magnitude(b) \in 0 .. magnitude(b) - 1
  BY <1>1
<1> QED  BY <1>1, <1>2 DEF truncated

\* The range of each op holds what the op makes of values its operands' ranges hold.
LEMMA UnionHolds ==
  ASSUME NEW r \in RangeSet, NEW s \in RangeSet
  PROVE  /\ Union(r, s) \in RangeSet
         /\ \A v \in Int : Within(v, r) \/ Within(v, s) => Within(v, Union(r, s))
BY DEF Union, MakeRange, UnknownRange, RangeSet, Within, least, most

LEMMA AddHolds ==
  ASSUME NEW r \in RangeSet, NEW s \in RangeSet
  PROVE  /\ AddRange(r, s) \in RangeSet
         /\ \A v, w \in Int : Within(v, r) /\ Within(w, s) => Within(v + w, AddRange(r, s))
BY DEF AddRange, MakeRange, UnknownRange, RangeSet, Within

LEMMA SubtractHolds ==
  ASSUME NEW r \in RangeSet, NEW s \in RangeSet
  PROVE  /\ SubtractRange(r, s) \in RangeSet
         /\ \A v, w \in Int : Within(v, r) /\ Within(w, s) => Within(v - w, SubtractRange(r, s))
BY DEF SubtractRange, MakeRange, UnknownRange, RangeSet, Within

LEMMA MaxHolds ==
  ASSUME NEW r \in RangeSet, NEW s \in RangeSet
  PROVE  /\ MaxRange(r, s) \in RangeSet
         /\ \A v, w \in Int : Within(v, r) /\ Within(w, s) => Within(most(v, w), MaxRange(r, s))
BY DEF MaxRange, MakeRange, UnknownRange, RangeSet, Within, most

LEMMA MinHolds ==
  ASSUME NEW r \in RangeSet, NEW s \in RangeSet
  PROVE  /\ MinRange(r, s) \in RangeSet
         /\ \A v, w \in Int : Within(v, r) /\ Within(w, s) => Within(least(v, w), MinRange(r, s))
BY DEF MinRange, MakeRange, UnknownRange, RangeSet, Within, least

LEMMA ClampHolds ==
  ASSUME NEW r \in RangeSet, NEW s \in RangeSet
  PROVE  /\ ClampRange(r, s) \in RangeSet
         /\ \A u, v, w \in Int : Within(u, r) /\ Within(w, s) =>
              Within(least(most(v, u), w), ClampRange(r, s))
BY DEF ClampRange, MakeRange, UnknownRange, RangeSet, Within, least, most

LEMMA RemHolds ==
  ASSUME NEW r \in RangeSet, NEW s \in RangeSet
  PROVE  /\ RemRange(r, s) \in RangeSet
         /\ \A v, w \in Int : Within(v, r) /\ Within(w, s) =>
              Within(IF w = 0 THEN v ELSE truncated(v, w), RemRange(r, s))
<1> DEFINE mag == most(magnitude(s.lo), magnitude(s.hi)) - 1
           out == MakeRange(IF r.known /\ r.lo >= 0 THEN 0 ELSE - mag, mag)
<1>0. s.lo \in Int /\ s.hi \in Int /\ r.lo \in Int /\ mag \in Int /\ UnknownRange \in RangeSet
  BY DEF RangeSet, most, magnitude, UnknownRange
<1>1. CASE ~ s.known \/ (s.lo <= 0 /\ s.hi >= 0)
  BY <1>0, <1>1 DEF RemRange, UnknownRange, Within
<1>2. CASE ~ (~ s.known \/ (s.lo <= 0 /\ s.hi >= 0))
  <2>1. RemRange(r, s) = out
    BY <1>2 DEF RemRange
  <2>2. out \in RangeSet
    <3> HIDE DEF mag
    <3> QED  BY <1>0, Made
  <2>3. ASSUME NEW v \in Int, NEW w \in Int, Within(v, r), Within(w, s)
        PROVE  Within(IF w = 0 THEN v ELSE truncated(v, w), out)
    <3>1. w # 0 /\ s.lo <= w /\ w <= s.hi
      BY <1>0, <1>2, <2>3 DEF Within
    <3>2. magnitude(w) - 1 <= mag /\ magnitude(w) \in Int
      BY <1>0, <3>1 DEF most, magnitude
    <3>3. r.known /\ r.lo >= 0 => v >= 0
      BY <1>0, <2>3 DEF Within
    <3>4. /\ truncated(v, w) \in Int /\ truncated(v, w) <= mag /\ truncated(v, w) >= - mag
          /\ (r.known /\ r.lo >= 0 => truncated(v, w) >= 0)
      <4>1. /\ truncated(v, w) \in Int /\ truncated(v, w) <= magnitude(w) - 1
            /\ truncated(v, w) >= - (magnitude(w) - 1) /\ (v >= 0 => truncated(v, w) >= 0)
        BY <3>1, RemainderBounded
      <4> HIDE DEF mag
      <4> QED  BY <1>0, <3>2, <3>3, <4>1
    <3> DEFINE t == truncated(v, w)  low == IF r.known /\ r.lo >= 0 THEN 0 ELSE - mag
    <3>5. t \in Int /\ low \in Int /\ low <= t /\ t <= mag
      <4> HIDE DEF mag
      <4> QED  BY <1>0, <3>4
    <3>6. Within(t, MakeRange(low, mag))
      <4> HIDE DEF mag, t, low
      <4> QED  BY <1>0, <3>5, Made
    <3> QED  BY <3>1, <3>6, Zenon
  <2> QED  BY <2>1, <2>2, <2>3
<1> QED  BY <1>1, <1>2

Directions == {"LT", "LE", "GT", "GE", "EQ", "NE"}
LEMMA CompareHolds ==
  ASSUME NEW r \in RangeSet, NEW s \in RangeSet, NEW dir \in Directions, NEW signed
  PROVE  /\ CompareRange(dir, signed, r, s) \in RangeSet
         /\ \A v, w \in Int : Within(v, r) /\ Within(w, s) =>
              Within(IF Holds(dir, v, w) THEN 1 ELSE 0, CompareRange(dir, signed, r, s))
<1>1. MakeRange(0, 1) = [known |-> TRUE, lo |-> 0, hi |-> 1]
      /\ MakeRange(0, 0) = [known |-> TRUE, lo |-> 0, hi |-> 0]
      /\ MakeRange(1, 1) = [known |-> TRUE, lo |-> 1, hi |-> 1]
  BY DEF MakeRange
<1>2. CompareRange(dir, signed, r, s) \in {MakeRange(0, 1), MakeRange(0, 0), MakeRange(1, 1)}
  BY DEF CompareRange
<1>3. MakeRange(0, 1) \in RangeSet /\ MakeRange(0, 0) \in RangeSet /\ MakeRange(1, 1) \in RangeSet
  BY Made, 0 \in Int, 1 \in Int, Zenon
<1>4. ASSUME NEW v \in Int, NEW w \in Int, Within(v, r), Within(w, s)
      PROVE  Within(IF Holds(dir, v, w) THEN 1 ELSE 0, CompareRange(dir, signed, r, s))
  <2>1. CASE CompareRange(dir, signed, r, s) = MakeRange(0, 1)
    BY <1>1, <2>1 DEF Within
  <2>2. CASE CompareRange(dir, signed, r, s) # MakeRange(0, 1)
    <3>1. r.known /\ s.known /\ r.lo <= v /\ v <= r.hi /\ s.lo <= w /\ w <= s.hi
          /\ r.lo \in Int /\ r.hi \in Int /\ s.lo \in Int /\ s.hi \in Int
      BY <1>4, <2>2 DEF Within, CompareRange, RangeSet
    <3>2. CASE CompareRange(dir, signed, r, s) = MakeRange(1, 1)
      <4>1. MakeRange(0, 0) # MakeRange(1, 1) /\ MakeRange(0, 1) # MakeRange(1, 1)
        BY <1>1
      <4>2. Holds(dir, v, w)
        BY <3>1, <3>2, <4>1 DEF CompareRange, Holds
      <4> QED  BY <1>1, <3>2, <4>2 DEF Within
    <3>3. CASE CompareRange(dir, signed, r, s) = MakeRange(0, 0)
      <4>1. MakeRange(0, 0) # MakeRange(1, 1) /\ MakeRange(0, 1) # MakeRange(0, 0)
        BY <1>1
      <4>2. ~ Holds(dir, v, w)
        BY <3>1, <3>3, <4>1 DEF CompareRange, Holds
      <4> QED  BY <1>1, <3>3, <4>2 DEF Within
    <3> QED  BY <1>2, <2>2, <3>2, <3>3
  <2> QED  BY <2>1, <2>2
<1> QED  BY <1>2, <1>3, <1>4, Zenon

Elementary == {"add", "subtract", "maximum", "minimum", "remainder", "compare", "and", "clamp",
               "select", "convert"}
\* The same of the op at hand.
LEMMA RangedHolds ==
  ASSUME NEW op, OpFormed(op), op.kind \in Elementary,
         NEW v \in [1 .. Arity(op.kind) -> Int], NEW r \in [1 .. Arity(op.kind) -> RangeSet],
         \A k \in 1 .. Arity(op.kind) : Within(v[k], r[k])
  PROVE  Value(op, v) \in Int /\ Within(Value(op, v), Ranged(op, r))
<1> DEFINE n == Arity(op.kind)
<1>1. /\ v[1] \in Int /\ r[1] \in RangeSet /\ Within(v[1], r[1])
      /\ n >= 2 => v[2] \in Int /\ r[2] \in RangeSet /\ Within(v[2], r[2])
      /\ n = 3 => v[3] \in Int /\ r[3] \in RangeSet /\ Within(v[3], r[3])
  BY DEF Arity
<1>2. CASE op.kind = "add"
  <2>1. n >= 2 /\ Value(op, v) = v[1] + v[2] /\ Ranged(op, r) = AddRange(r[1], r[2])
    BY <1>2 DEF Arity, Value, Ranged
  <2> QED  BY <1>1, <2>1, AddHolds
<1>3. CASE op.kind = "subtract"
  <2>1. n >= 2 /\ Value(op, v) = v[1] - v[2] /\ Ranged(op, r) = SubtractRange(r[1], r[2])
    BY <1>3 DEF Arity, Value, Ranged
  <2> QED  BY <1>1, <2>1, SubtractHolds
<1>4. CASE op.kind = "maximum"
  <2>1. n >= 2 /\ Value(op, v) = most(v[1], v[2]) /\ Ranged(op, r) = MaxRange(r[1], r[2])
    BY <1>4 DEF Arity, Value, Ranged
  <2>2. n >= 2 => most(v[1], v[2]) \in Int
    BY <1>1 DEF most
  <2> QED  BY <1>1, <2>1, <2>2, MaxHolds
<1>5. CASE op.kind = "minimum"
  <2>1. n >= 2 /\ Value(op, v) = least(v[1], v[2]) /\ Ranged(op, r) = MinRange(r[1], r[2])
    BY <1>5 DEF Arity, Value, Ranged
  <2>2. n >= 2 => least(v[1], v[2]) \in Int
    BY <1>1 DEF least
  <2> QED  BY <1>1, <2>1, <2>2, MinHolds
<1>6. CASE op.kind = "clamp"
  <2>1. n = 3 /\ Value(op, v) = least(most(v[2], v[1]), v[3]) /\ Ranged(op, r) = ClampRange(r[1], r[3])
    BY <1>6 DEF Arity, Value, Ranged
  <2>2. n = 3 => least(most(v[2], v[1]), v[3]) \in Int
    BY <1>1 DEF least, most
  <2> QED  BY <1>1, <2>1, <2>2, ClampHolds
<1>7. CASE op.kind = "remainder"
  <2>1. n >= 2 /\ Value(op, v) = (IF v[2] = 0 THEN v[1] ELSE truncated(v[1], v[2]))
        /\ Ranged(op, r) = RemRange(r[1], r[2])
    BY <1>7 DEF Arity, Value, Ranged
  <2>2. n >= 2 => (IF v[2] = 0 THEN v[1] ELSE truncated(v[1], v[2])) \in Int
    BY <1>1, RemainderBounded
  <2> QED  BY <1>1, <2>1, <2>2, RemHolds
<1>8. CASE op.kind = "compare"
  <2>1. n >= 2 /\ Value(op, v) = (IF Holds(op.dir, v[1], v[2]) THEN 1 ELSE 0)
        /\ Ranged(op, r) = CompareRange(op.dir, op.signed, r[1], r[2])
    BY <1>8 DEF Arity, Value, Ranged
  <2>2. op.dir \in Directions
    BY <1>8 DEF OpFormed, Directions
  <2> QED  BY <1>1, <2>1, <2>2, CompareHolds
<1>9. CASE op.kind = "and"
  <2>1. n >= 2 /\ Value(op, v) = v[1] * v[2] /\ Ranged(op, r) = UnknownRange
    BY <1>9 DEF Arity, Value, Ranged
  <2>2. n >= 2 => v[1] * v[2] \in Int
    BY <1>1
  <2> QED  BY <2>1, <2>2 DEF UnknownRange, RangeSet, Within
<1>10. CASE op.kind = "select"
  <2>1. n = 3 /\ Value(op, v) = (IF v[1] = 1 THEN v[2] ELSE v[3]) /\ Ranged(op, r) = Union(r[2], r[3])
    BY <1>10 DEF Arity, Value, Ranged
  <2> QED  BY <1>1, <2>1, UnionHolds
<1>11. CASE op.kind = "convert"
  <2>1. Value(op, v) = v[1] /\ Ranged(op, r) = r[1]
    BY <1>11 DEF Value, Ranged
  <2> QED  BY <1>1, <2>1
<1> QED  BY <1>2, <1>3, <1>4, <1>5, <1>6, <1>7, <1>8, <1>9, <1>10, <1>11 DEF Elementary

---------------------------------------------------------------------------
(* A node is added to those that are there.                                *)
NodesFormed(ns) == (\E S : ns \in Seq(S)) /\ NodesAre(ns)

\* A sequence with one more element.
LEMMA Appended ==
  ASSUME NEW ns, NodesFormed(ns), NEW x
  PROVE  /\ \E S : Append(ns, x) \in Seq(S)
         /\ Len(ns) \in Nat /\ DOMAIN ns = 1 .. Len(ns) /\ DOMAIN Append(ns, x) = 1 .. Len(ns) + 1
         /\ \A k \in DOMAIN ns : Append(ns, x)[k] = ns[k]
         /\ Append(ns, x)[Len(ns) + 1] = x
<1> PICK S : ns \in Seq(S)
  BY DEF NodesFormed
<1>1. ns \in Seq(S \cup {x}) /\ Append(ns, x) \in Seq(S \cup {x})
  OBVIOUS
<1> QED  BY <1>1

\* What is known of a node stays so when others are added.
LEMMA Stays ==
  ASSUME NEW ns, NEW more, DOMAIN ns \subseteq DOMAIN more, \A k \in DOMAIN ns : more[k] = ns[k],
         NEW x
  PROVE  /\ NegIs(ns, x) => NegIs(more, x)
         /\ OpIs(ns, x) => OpIs(more, x)
         /\ PeelIs(ns, x) => PeelIs(more, x)
<1>1. NegIs(ns, x) => NegIs(more, x)
  BY DEF NegIs
<1>2. ASSUME OpIs(ns, x)  PROVE OpIs(more, x)
  <2> SUFFICES ASSUME x.kind \in {"add", "remainder"}
               PROVE  /\ x.ins \in [1 .. 2 -> DOMAIN more] /\ ~ x.i1
                      /\ \A k \in 1 .. 2 : more[x.ins[k]].n = x.n
                      /\ x.kind = "add" => Adds(x, more[x.ins[1]], more[x.ins[2]])
                      /\ x.kind = "remainder" => Divides(x, more[x.ins[1]], more[x.ins[2]])
    BY DEF OpIs
  <2>1. /\ x.ins \in [1 .. 2 -> DOMAIN ns] /\ ~ x.i1
        /\ \A k \in 1 .. 2 : ns[x.ins[k]].n = x.n
        /\ x.kind = "add" => Adds(x, ns[x.ins[1]], ns[x.ins[2]])
        /\ x.kind = "remainder" => Divides(x, ns[x.ins[1]], ns[x.ins[2]])
    BY <1>2 DEF OpIs
  <2>2. \A k \in 1 .. 2 : x.ins[k] \in DOMAIN ns /\ more[x.ins[k]] = ns[x.ins[k]]
    BY <2>1
  <2>3. more[x.ins[1]] = ns[x.ins[1]] /\ more[x.ins[2]] = ns[x.ins[2]]
    BY <2>2
  <2> QED  BY <2>1, <2>2, <2>3
<1>3. PeelIs(ns, x) => PeelIs(more, x)
  BY DEF PeelIs
<1> QED  BY <1>1, <1>2, <1>3

\* A node is a view of itself.
LEMMA Sizes1 ==
  ASSUME NEW x, Typed(x)
  PROVE  /\ Size(x) \in Nat \ {0} /\ x.n \in Nat
         /\ \A i \in 1 .. Size(x) : Seen(x, i) = i
BY DEF Typed, Size, Seen

\* A node of which all is known joins the nodes.
LEMMA NodeJoins ==
  ASSUME NEW ns, NodesFormed(ns), NEW x, Typed(x), Sound(x), NegIs(ns, x), OpIs(ns, x),
         PeelIs(ns, x) \/ x.peel = Len(ns) + 1
  PROVE  NodesFormed(Append(ns, x))
<1> DEFINE more == Append(ns, x)
<1>1. /\ \E S : more \in Seq(S)
      /\ Len(ns) \in Nat /\ DOMAIN ns = 1 .. Len(ns) /\ DOMAIN more = 1 .. Len(ns) + 1
      /\ \A k \in DOMAIN ns : more[k] = ns[k]
      /\ more[Len(ns) + 1] = x
  BY Appended
<1>2. DOMAIN ns \subseteq DOMAIN more
  BY <1>1
<1> HIDE DEF more
<1>3. ASSUME NEW k \in DOMAIN ns  PROVE NodeIs(more, more[k])
  <2>1. more[k] = ns[k] /\ NodeIs(ns, ns[k])
    BY <1>1 DEF NodesFormed, NodesAre
  <2>2. NegIs(more, ns[k]) /\ OpIs(more, ns[k]) /\ PeelIs(more, ns[k])
    BY <1>1, <1>2, <2>1, Stays DEF NodeIs
  <2> QED  BY <2>1, <2>2 DEF NodeIs
<1>4. NodeIs(more, x)
  <2>1. NegIs(more, x) /\ OpIs(more, x)
    BY <1>1, <1>2, Stays
  <2>2. PeelIs(more, x)
    <3>1. CASE PeelIs(ns, x)
      BY <1>1, <1>2, <3>1, Stays
    <3>2. CASE x.peel = Len(ns) + 1
      <4>1. x.peel \in DOMAIN more /\ more[x.peel] = x
        BY <1>1, <3>2
      <4> QED  BY <4>1, Sizes1 DEF PeelIs, Views, Fits
    <3> QED  BY <3>1, <3>2
  <2> QED  BY <2>1, <2>2 DEF NodeIs
<1>5. \A k \in DOMAIN more : k \in DOMAIN ns \/ more[k] = x
  BY <1>1
<1>6. NodesAre(more)
  BY <1>3, <1>4, <1>5 DEF NodesAre
<1>7. NodesFormed(more)
  BY <1>1, <1>6 DEF NodesFormed
<1> QED  BY <1>7 DEF more

---------------------------------------------------------------------------
(* Constants, iota and unknown operands.                                   *)
LEMMA EndsOf ==
  ASSUME NEW n \in Nat \ {0}, NEW f \in [1 .. n -> Int]
  PROVE  LET S == {f[i] : i \in 1 .. n} IN
         /\ Min(S) \in Int /\ Max(S) \in Int
         /\ \A i \in 1 .. n : Min(S) <= f[i] /\ f[i] <= Max(S)
<1> DEFINE S == {f[i] : i \in 1 .. n}
           T == {m \in 0 .. n - 1 : \E j, k \in 1 .. n : \A i \in 1 .. m + 1 : f[j] <= f[i] /\ f[i] <= f[k]}
<1>1. 0 \in T
  <2>1. 1 \in 1 .. n /\ \A i \in 1 .. 0 + 1 : f[1] <= f[i] /\ f[i] <= f[1]
    OBVIOUS
  <2> QED  BY <2>1
<1>2. ASSUME NEW m \in 0 .. (n - 1) - 1, m \in T
      PROVE  m + 1 \in T
  <2>1. PICK j \in 1 .. n, k \in 1 .. n : \A i \in 1 .. m + 1 : f[j] <= f[i] /\ f[i] <= f[k]
    BY <1>2
  <2>2. m + 2 \in 1 .. n /\ \A i \in 1 .. (m + 1) + 1 : i \in 1 .. m + 1 \/ i = m + 2
    OBVIOUS
  <2>3. PICK j1 \in 1 .. n : f[j1] <= f[j] /\ f[j1] <= f[m + 2]
    BY <2>2
  <2>4. PICK k1 \in 1 .. n : f[k1] >= f[k] /\ f[k1] >= f[m + 2]
    BY <2>2
  <2>5. ASSUME NEW i \in 1 .. (m + 1) + 1  PROVE f[j1] <= f[i] /\ f[i] <= f[k1]
    <3>0. i \in 1 .. n
      OBVIOUS
    <3>1. CASE i \in 1 .. m + 1
      BY <2>1, <2>3, <2>4, <3>0, <3>1
    <3>2. CASE i = m + 2
      BY <2>3, <2>4, <3>2
    <3> QED  BY <2>2, <3>1, <3>2
  <2>6. m + 1 \in 0 .. n - 1
    OBVIOUS
  <2> QED  BY <2>5, <2>6
<1>3. n - 1 \in Nat /\ n - 1 \in 0 .. n - 1
  OBVIOUS
<1>4. n - 1 \in T
  <2> HIDE DEF T
  <2> QED  BY <1>1, <1>2, <1>3, InductTo
<1>5. PICK j \in 1 .. n, k \in 1 .. n : \A i \in 1 .. n : f[j] <= f[i] /\ f[i] <= f[k]
  <2>1. 1 .. (n - 1) + 1 = 1 .. n
    OBVIOUS
  <2> QED  BY <1>4, <2>1
<1>6. S \in SUBSET Int /\ f[j] \in S /\ f[k] \in S
      /\ (\A y \in S : f[j] <= y) /\ (\A y \in S : f[k] >= y)
  BY <1>5
<1>7. Min(S) = f[j] /\ Max(S) = f[k]
  <2> HIDE DEF S
  <2> QED  BY <1>6, LeastIs, GreatestIs
<1> QED  BY <1>5, <1>7

\* The range of constants holds them.
LEMMA ConstantHolds ==
  ASSUME NEW n \in Nat \ {0}, NEW i1 \in BOOLEAN,
         NEW vals \in [1 .. n -> IF i1 THEN {0} ELSE Int]
  PROVE  /\ ConstantRange(vals, i1) \in RangeSet
         /\ \A i \in 1 .. n : Within(vals[i], ConstantRange(vals, i1))
<1> DEFINE f == [i \in 1 .. n |-> IF i1 THEN - vals[i] ELSE vals[i]]
           S == {f[i] : i \in 1 .. n}
<1>1. f \in [1 .. n -> Int] /\ \A i \in 1 .. n : f[i] = vals[i] /\ vals[i] \in Int
  OBVIOUS
<1>2. /\ Min(S) \in Int /\ Max(S) \in Int
      /\ \A i \in 1 .. n : Min(S) <= f[i] /\ f[i] <= Max(S)
  <2> HIDE DEF f
  <2> QED  BY <1>1, EndsOf
<1>3. ConstantRange(vals, i1) = MakeRange(Min(S), Max(S))
  <2>1. DOMAIN vals = 1 .. n
    OBVIOUS
  <2>2. {IF i1 THEN - vals[i] ELSE vals[i] : i \in DOMAIN vals} = S
    BY <2>1
  <2> QED  BY <2>2 DEF ConstantRange
<1> HIDE DEF f, S
<1> QED  BY <1>1, <1>2, <1>3, Made

(* What a constant or an iota holds.                                        *)
Known(op) == IF op.kind = "iota" THEN [i \in 1 .. op.n |-> i - 1] ELSE op.vals
\* The values of a constant and of an iota.
LEMMA KnownValues ==
  ASSUME NEW op, LeafFormed(op), op.kind \in {"constant", "iota"}
  PROVE  Known(op) \in [1 .. most(op.n, 1) -> IF op.i1 THEN {0} ELSE Int]
<1>1. CASE op.kind = "iota"
  <2>1. ~ op.i1 /\ most(op.n, 1) = op.n
    BY <1>1 DEF LeafFormed, most
  <2>2. [i \in 1 .. op.n |-> i - 1] \in [1 .. op.n -> Int]
    OBVIOUS
  <2> QED  BY <1>1, <2>1, <2>2 DEF Known
<1>2. CASE op.kind = "constant"
  BY <1>2 DEF LeafFormed, Known
<1> QED  BY <1>1, <1>2

\* ...and every leaf joins.
LEMMA LeafJoins ==
  ASSUME NEW ns, NodesFormed(ns), NEW op, LeafFormed(op), op.kind \in {"constant", "iota", "arg"}
  PROVE  NodesFormed(Append(ns, Leaf(ns, op)))
<1> DEFINE x == Leaf(ns, op)  m == most(op.n, 1)
<1>1. /\ DOMAIN x = Fields
      /\ x.kind = op.kind /\ x.n = op.n /\ x.peel = Len(ns) + 1 /\ x.i1 = op.i1 /\ x.neg = NoNeg
      /\ x.val = [e \in Inputs |-> IF op.kind # "arg" THEN Known(op) ELSE [i \in 1 .. m |-> e[i]]]
      /\ x.whole = (IF op.kind # "arg" THEN ConstantRange(Known(op), op.i1) ELSE UnknownRange)
      /\ x.part = [i \in 1 .. op.n |-> IF op.kind # "arg" THEN ConstantRange(<<Known(op)[i]>>, op.i1)
                                       ELSE UnknownRange]
  BY DEF Leaf, Known, Fields
<1>2. op.n \in Nat \ {4} /\ op.i1 \in BOOLEAN /\ m \in Nat \ {0} /\ Size(x) = m /\ Parts(x.n) = op.n
      /\ 1 .. op.n \subseteq 1 .. m
  BY <1>1 DEF LeafFormed, most, Size, Parts
<1> HIDE DEF x, m
<1>3. ASSUME op.kind = "arg"  PROVE Typed(x) /\ Sound(x)
  <2>1. /\ x.whole = UnknownRange /\ x.part = [i \in 1 .. op.n |-> UnknownRange] /\ ~ x.i1
        /\ x.val = [e \in Inputs |-> [i \in 1 .. m |-> e[i]]] /\ UnknownRange \in RangeSet
    BY <1>1, <1>3, Made, 0 \in Int DEF LeafFormed
  <2>2. \A e \in Inputs : e \in Seq(Int) /\ Len(e) >= m
    BY <1>3 DEF LeafFormed, m
  <2>3. \A e \in Inputs : [i \in 1 .. m |-> e[i]] \in [1 .. m -> Int]
    <3> SUFFICES ASSUME NEW e \in Inputs
                 PROVE  [i \in 1 .. m |-> e[i]] \in [1 .. m -> Int]
      OBVIOUS
    <3>1. e \in Seq(Int) /\ Len(e) \in Nat /\ Len(e) >= m
      BY <2>2
    <3>2. \A i \in 1 .. Len(e) : e[i] \in Int
      BY <3>1
    <3>3. \A i \in 1 .. m : i \in 1 .. Len(e)
      BY <1>2, <3>1
    <3>4. \A i \in 1 .. m : e[i] \in Int
      BY <3>2, <3>3
    <3> QED
      BY <3>4
  <2>4. Typed(x)
    <3>1. x.val \in [Inputs -> [1 .. Size(x) -> IF x.i1 THEN {0, 1} ELSE Int]]
      BY <1>2, <2>1, <2>3
    <3>2. x.part \in [1 .. Parts(x.n) -> RangeSet]
      BY <1>2, <2>1
    <3> QED
      BY <1>1, <1>2, <2>1, <3>1, <3>2 DEF Typed
  <2>5. Sound(x)
    BY <2>1 DEF Sound, UnknownRange, Within
  <2> QED  BY <2>4, <2>5
<1>4. ASSUME op.kind # "arg"  PROVE Typed(x) /\ Sound(x)
  <2> DEFINE vals == Known(op)
  <2>0. vals \in [1 .. m -> IF x.i1 THEN {0} ELSE Int] /\ x.i1 \in BOOLEAN
    BY <1>1, <1>2, <1>4, KnownValues DEF m
  <2>1. /\ x.whole = ConstantRange(vals, x.i1)
        /\ x.part = [i \in 1 .. op.n |-> ConstantRange(<<vals[i]>>, x.i1)]
        /\ x.val = [e \in Inputs |-> vals]
    BY <1>1, <1>4
  <2> HIDE DEF vals
  <2>2. x.whole \in RangeSet /\ \A i \in 1 .. m : Within(vals[i], x.whole)
    BY <1>2, <2>0, <2>1, ConstantHolds
  <2>3. ASSUME NEW i \in 1 .. op.n
        PROVE  x.part[i] \in RangeSet /\ Within(vals[i], x.part[i])
    <3>1. <<vals[i]>> \in [1 .. 1 -> IF x.i1 THEN {0} ELSE Int] /\ <<vals[i]>>[1] = vals[i]
      <4>1. vals[i] \in IF x.i1 THEN {0} ELSE Int
        BY <1>2, <2>0
      <4>2. \A V : \A a \in V : <<a>> \in [1 .. 1 -> V] /\ <<a>>[1] = a
        OBVIOUS
      <4> QED  BY <4>1, <4>2, Zenon
    <3>2. /\ ConstantRange(<<vals[i]>>, x.i1) \in RangeSet
          /\ \A j \in 1 .. 1 : Within(<<vals[i]>>[j], ConstantRange(<<vals[i]>>, x.i1))
      BY <2>0, <3>1, ConstantHolds, 1 \in Nat \ {0}, Zenon
    <3> QED  BY <2>1, <3>1, <3>2
  <2>4. Typed(x)
    <3>1. vals \in [1 .. m -> IF x.i1 THEN {0, 1} ELSE Int]
      BY <2>0
    <3>2. x.part \in [1 .. op.n -> RangeSet]
      BY <2>1, <2>3
    <3> QED  BY <1>1, <1>2, <2>0, <2>1, <2>2, <3>1, <3>2 DEF Typed
  <2>5. Sound(x)
    BY <1>2, <2>1, <2>2, <2>3 DEF Sound
  <2> QED  BY <2>4, <2>5
<1>5. NegIs(ns, x) /\ OpIs(ns, x)
  BY <1>1 DEF NegIs, OpIs, NoNeg
<1>6. NodesFormed(Append(ns, x))
  BY <1>1, <1>3, <1>4, <1>5, NodeJoins
<1> QED  BY <1>6 DEF x

---------------------------------------------------------------------------
(* Views.                                                                  *)
LEMMA ViewIs ==
  ASSUME NEW ns, NodesFormed(ns), NEW op, OpFormed(op), Applies(ns, op),
         op.kind \in {"broadcast", "reshape"}
  PROVE  LET x == Viewed(ns, op)
             y == ns[op.ins[1]]
         IN /\ op.ins[1] \in DOMAIN ns /\ op.n \in Nat
            /\ DOMAIN x = Fields /\ x.kind = op.kind /\ x.n = op.n
            /\ x.peel = y.peel /\ x.i1 = y.i1 /\ x.whole = y.whole /\ x.neg = y.neg
            /\ y.n = op.n \/ Size(y) = 1
            /\ x.val = [e \in Inputs |-> [i \in 1 .. Size(x) |->
                          y.val[e][IF y.n = op.n THEN i ELSE 1]]]
            /\ x.part = [i \in 1 .. Parts(op.n) |->
                           IF op.kind = "broadcast" /\ y.n = op.n THEN y.part[i] ELSE y.whole]
<1> DEFINE x == Viewed(ns, op)  y == ns[op.ins[1]]
<1>1. op.ins \in [1 .. 1 -> Nat] /\ op.n \in Nat
  BY DEF OpFormed, Arity
<1>2. op.ins[1] \in DOMAIN ns
  BY <1>1 DEF Applies
<1>3. NodeIs(ns, y)
  BY <1>2 DEF NodesFormed, NodesAre
<1>4. y.n = op.n \/ Size(y) = 1
  <2>1. CASE op.kind = "broadcast"
    <3>1. y.n \in {0, 1, op.n}
      BY <2>1, Zenon DEF Applies
    <3> QED  BY <3>1 DEF Size
  <2>2. CASE op.kind = "reshape"
    <3>1. {y.n, op.n} \subseteq {0, 1}
      BY <2>2, Zenon DEF Applies
    <3> QED  BY <3>1 DEF Size
  <2> QED  BY <2>1, <2>2
<1>5. DOMAIN y = Fields
  BY <1>3 DEF NodeIs, Typed
<1> DEFINE val == [e \in Inputs |-> [i \in 1 .. most(op.n, 1) |-> y.val[e][Source(y, op, i)]]]
           part == [i \in 1 .. Parts(op.n) |->
                      IF op.kind = "broadcast" /\ y.n = op.n THEN y.part[i] ELSE y.whole]
<1>6. x = [y EXCEPT !.kind = op.kind, !.ins = op.ins, !.n = op.n, !.val = val, !.part = part]
  BY DEF Viewed, Parts
<1>7. /\ DOMAIN x = Fields /\ x.kind = op.kind /\ x.n = op.n
      /\ x.peel = y.peel /\ x.i1 = y.i1 /\ x.whole = y.whole /\ x.neg = y.neg
      /\ x.val = val /\ x.part = part
  <2> HIDE DEF val, part, x, y
  <2> QED  BY <1>5, <1>6 DEF Fields
<1>8. Size(x) = most(op.n, 1)
  BY <1>1, <1>7 DEF Size, most
<1>9. val = [e \in Inputs |-> [i \in 1 .. Size(x) |-> y.val[e][IF y.n = op.n THEN i ELSE 1]]]
  BY <1>8 DEF Source
<1> QED  BY <1>1, <1>2, <1>4, <1>7, <1>9

\* ...which broadcast and reshape make.
LEMMA ViewJoins ==
  ASSUME NEW ns, NodesFormed(ns), NEW op, OpFormed(op), Applies(ns, op),
         op.kind \in {"broadcast", "reshape"}
  PROVE  NodesFormed(Append(ns, Viewed(ns, op)))
<1> DEFINE x == Viewed(ns, op)  y == ns[op.ins[1]]  s(i) == IF y.n = op.n THEN i ELSE 1
<1>1. /\ op.ins[1] \in DOMAIN ns /\ op.n \in Nat
      /\ DOMAIN x = Fields /\ x.kind = op.kind /\ x.n = op.n
      /\ x.peel = y.peel /\ x.i1 = y.i1 /\ x.whole = y.whole /\ x.neg = y.neg
      /\ y.n = op.n \/ Size(y) = 1
      /\ x.val = [e \in Inputs |-> [i \in 1 .. Size(x) |-> y.val[e][s(i)]]]
      /\ x.part = [i \in 1 .. Parts(op.n) |->
                     IF op.kind = "broadcast" /\ y.n = op.n THEN y.part[i] ELSE y.whole]
  BY ViewIs
<1>2. NodeIs(ns, y)
  BY <1>1 DEF NodesFormed, NodesAre
<1> HIDE DEF x, y
<1>3. /\ Size(x) \in Nat \ {0} /\ Size(y) \in Nat \ {0}
      /\ \A i \in 1 .. Size(x) : s(i) \in 1 .. Size(y)
      /\ \A e \in Inputs : \A i \in 1 .. Size(x) : x.val[e][i] = y.val[e][s(i)]
  BY <1>1, <1>2 DEF NodeIs, Typed, Size
<1>4. ASSUME NEW z, Fits(z, y)
      PROVE  Fits(z, x) /\ \A i \in 1 .. Size(x) : Seen(z, s(i)) = Seen(z, i)
  BY <1>1, <1>4 DEF Fits, Seen, Size
<1> DEFINE value == IF x.i1 THEN {0, 1} ELSE Int
<1>5. /\ y.val \in [Inputs -> [1 .. Size(y) -> value]] /\ y.n \in Nat /\ y.i1 \in BOOLEAN
      /\ y.whole \in RangeSet /\ y.part \in [1 .. Parts(y.n) -> RangeSet]
  BY <1>1, <1>2 DEF NodeIs, Typed
<1>6. Typed(x)
  <2>1. x.val \in [Inputs -> [1 .. Size(x) -> value]]
    <3> HIDE DEF value
    <3>1. \A e \in Inputs : \A i \in 1 .. Size(x) : y.val[e][s(i)] \in value
      BY <1>3, <1>5
    <3> QED  BY <1>1, <3>1
  <2>2. x.part \in [1 .. Parts(op.n) -> RangeSet]
    BY <1>1, <1>5
  <2> QED  BY <1>1, <1>5, <2>1, <2>2 DEF Typed
<1>7. Sound(x)
  <2>1. ASSUME NEW e \in Inputs, NEW i \in 1 .. Size(x)
        PROVE  Within(x.val[e][i], x.whole) /\ (i \in DOMAIN x.part => Within(x.val[e][i], x.part[i]))
    <3>1. /\ Within(y.val[e][s(i)], y.whole)
          /\ s(i) \in DOMAIN y.part => Within(y.val[e][s(i)], y.part[s(i)])
      BY <1>2, <1>3 DEF NodeIs, Sound
    <3>2. x.val[e][i] = y.val[e][s(i)] /\ x.whole = y.whole
      BY <1>1, <1>3
    <3>3. ASSUME i \in DOMAIN x.part  PROVE Within(x.val[e][i], x.part[i])
      <4>1. CASE op.kind = "broadcast" /\ y.n = op.n
        BY <1>1, <1>5, <3>1, <3>2, <3>3, <4>1
      <4>2. CASE ~ (op.kind = "broadcast" /\ y.n = op.n)
        BY <1>1, <3>1, <3>2, <3>3, <4>2
      <4> QED  BY <4>1, <4>2
    <3> QED  BY <3>1, <3>2, <3>3
  <2> QED  BY <2>1 DEF Sound
<1>8. PeelIs(ns, x)
  <2>1. y.peel \in DOMAIN ns /\ Views(y, ns[y.peel])
    BY <1>2 DEF NodeIs, PeelIs
  <2> DEFINE z == ns[y.peel]
  <2>2. Fits(z, y) /\ \A e \in Inputs : \A i \in 1 .. Size(y) : y.val[e][i] = z.val[e][Seen(z, i)]
    BY <2>1 DEF Views
  <2> HIDE DEF z
  <2>3. Fits(z, x) /\ \A i \in 1 .. Size(x) : Seen(z, s(i)) = Seen(z, i)
    BY <1>4, <2>2
  <2>4. \A e \in Inputs : \A i \in 1 .. Size(x) : x.val[e][i] = z.val[e][Seen(z, i)]
    BY <1>3, <2>2, <2>3
  <2> QED  BY <1>1, <2>1, <2>3, <2>4 DEF PeelIs, Views, z
<1>9. NegIs(ns, x)
  <2>1. NegIs(ns, y)
    BY <1>2 DEF NodeIs
  <2>2. Always(y) => Always(x)
    BY <1>3 DEF Always
  <2>3. ASSUME NEW z, Equals(y, z)  PROVE Equals(x, z)
    BY <1>3, <1>4, <2>3 DEF Equals
  <2>4. ASSUME NEW z, Implied(y, z)  PROVE Implied(x, z)
    BY <1>3, <1>4, <2>4 DEF Implied
  <2> QED  BY <1>1, <2>1, <2>2, <2>3, <2>4 DEF NegIs
<1>10. OpIs(ns, x)
  BY <1>1 DEF OpIs
<1>11. NodesFormed(Append(ns, x))
  BY <1>6, <1>7, <1>8, <1>9, <1>10, NodeJoins
<1> QED  BY <1>11 DEF x

---------------------------------------------------------------------------
(* Concatenations.                                                         *)
LEMMA ConcatenationJoins ==
  ASSUME NEW ns, NodesFormed(ns), NEW op, OpFormed(op), Applies(ns, op), op.kind = "concatenate"
  PROVE  NodesFormed(Append(ns, Joined(ns, op)))
<1> DEFINE x == Joined(ns, op)  a == ns[op.ins[1]]  b == ns[op.ins[2]]
<1>1. op.ins \in [1 .. 2 -> Nat]
  BY DEF OpFormed, Arity
<1>2. op.ins[1] \in DOMAIN ns /\ op.ins[2] \in DOMAIN ns
  BY <1>1 DEF Applies
<1>3. a.n = 1 /\ b.n = 1 /\ a.i1 = b.i1
  BY Zenon DEF Applies
<1>4. NodeIs(ns, a) /\ NodeIs(ns, b)
  BY <1>2 DEF NodesFormed, NodesAre
<1>5. /\ DOMAIN x = Fields /\ x.kind = op.kind /\ x.n = 2 /\ x.peel = Len(ns) + 1
      /\ x.i1 = a.i1 /\ x.val = [e \in Inputs |-> <<a.val[e][1], b.val[e][1]>>]
      /\ x.whole = Union(a.whole, b.whole) /\ x.part = <<a.part[1], b.part[1]>> /\ x.neg = NoNeg
  BY DEF Joined, Fields
<1> HIDE DEF x, a, b
<1> DEFINE value == IF x.i1 THEN {0, 1} ELSE Int
<1>6. /\ \A e \in Inputs : a.val[e] \in [1 .. 1 -> value] /\ b.val[e] \in [1 .. 1 -> value]
      /\ a.whole \in RangeSet /\ b.whole \in RangeSet /\ a.i1 \in BOOLEAN
      /\ a.part \in [1 .. 1 -> RangeSet] /\ b.part \in [1 .. 1 -> RangeSet]
  BY <1>3, <1>4, <1>5 DEF NodeIs, Typed, Parts, Size
<1>7. /\ \A e \in Inputs : /\ x.val[e] \in [1 .. 2 -> value]
                           /\ x.val[e][1] = a.val[e][1] /\ x.val[e][2] = b.val[e][1]
      /\ x.part \in [1 .. 2 -> RangeSet] /\ x.part[1] = a.part[1] /\ x.part[2] = b.part[1]
  <2> HIDE DEF value
  <2>1. /\ a.part[1] \in RangeSet /\ b.part[1] \in RangeSet
        /\ \A e \in Inputs : a.val[e][1] \in value /\ b.val[e][1] \in value
    BY <1>6
  <2> QED  BY <1>5, <2>1
<1>8. x.n = 2 /\ Size(x) = 2 /\ Parts(x.n) = 2 /\ x.whole \in RangeSet
  BY <1>3, <1>5, <1>6, UnionHolds DEF Size, Parts
<1>9. Typed(x)
  BY <1>5, <1>6, <1>7, <1>8 DEF Typed
<1>10. Sound(x)
  <2>1. ASSUME NEW e \in Inputs
        PROVE  /\ Within(x.val[e][1], x.whole) /\ Within(x.val[e][1], x.part[1])
               /\ Within(x.val[e][2], x.whole) /\ Within(x.val[e][2], x.part[2])
    <3>1. /\ Within(a.val[e][1], a.whole) /\ Within(a.val[e][1], a.part[1])
          /\ Within(b.val[e][1], b.whole) /\ Within(b.val[e][1], b.part[1])
      <4>1. 1 \in 1 .. Size(a) /\ 1 \in 1 .. Size(b) /\ 1 \in DOMAIN a.part /\ 1 \in DOMAIN b.part
        BY <1>3, <1>6 DEF Size
      <4> QED  BY <1>4, <4>1 DEF NodeIs, Sound
    <3>2. a.val[e][1] \in Int /\ b.val[e][1] \in Int
      BY <1>6
    <3>3. Within(a.val[e][1], x.whole) /\ Within(b.val[e][1], x.whole)
      BY <1>5, <1>6, <3>1, <3>2, UnionHolds
    <3> QED  BY <1>7, <3>1, <3>3
  <2>2. 1 .. Size(x) = {1, 2}
    BY <1>8
  <2> QED  BY <2>1, <2>2 DEF Sound
<1>11. NegIs(ns, x) /\ OpIs(ns, x)
  BY <1>5 DEF NegIs, OpIs, NoNeg
<1>12. NodesFormed(Append(ns, x))
  BY <1>5, <1>9, <1>10, <1>11, NodeJoins
<1> QED  BY <1>12 DEF x

---------------------------------------------------------------------------
(* What is computed element by element.                                    *)
ValuesAt(ns, op, e, i) == [k \in DOMAIN op.ins |-> ns[op.ins[k]].val[e][i]]
Wholes(ns, op) == [k \in DOMAIN op.ins |-> ns[op.ins[k]].whole]
PartsAt(ns, op, i) == [k \in DOMAIN op.ins |-> ns[op.ins[k]].part[i]]

\* The operands of an op are there and of one shape.
LEMMA OperandsAre ==
  ASSUME NEW ns, NodesFormed(ns), NEW op, OpFormed(op), Applies(ns, op), op.kind \in Elementary
  PROVE  /\ Arity(op.kind) \in 1 .. 3 /\ op.ins \in [1 .. Arity(op.kind) -> DOMAIN ns]
         /\ \A k \in 1 .. Arity(op.kind) :
              NodeIs(ns, ns[op.ins[k]]) /\ ns[op.ins[k]].n = ns[op.ins[1]].n
<1>1. Arity(op.kind) \in 1 .. 3 /\ op.ins \in [1 .. Arity(op.kind) -> Nat]
  BY DEF Arity, OpFormed, Elementary
<1>2. op.ins \in [1 .. Arity(op.kind) -> DOMAIN ns]
  <2>1. \A k \in 1 .. Arity(op.kind) : op.ins[k] \in DOMAIN ns
    BY <1>1 DEF Applies
  <2> QED  BY <1>1, <2>1
<1>3. \A k \in 1 .. Arity(op.kind) : NodeIs(ns, ns[op.ins[k]])
  BY <1>2 DEF NodesFormed, NodesAre
<1>4. ASSUME NEW k \in 1 .. Arity(op.kind)  PROVE ns[op.ins[k]].n = ns[op.ins[1]].n
  <2>1. CASE op.kind = "convert"
    BY <2>1 DEF Arity
  <2>2. CASE op.kind = "and"
    <3>1. ns[op.ins[1]].n = ns[op.ins[2]].n
      BY <2>2, Zenon DEF Applies
    <3> QED  BY <2>2, <3>1 DEF Arity
  <2>3. CASE op.kind = "select"
    <3>1. ns[op.ins[1]].n = ns[op.ins[2]].n /\ ns[op.ins[2]].n = ns[op.ins[3]].n
      BY <2>3, Zenon DEF Applies
    <3> QED  BY <2>3, <3>1 DEF Arity
  <2>4. CASE op.kind = "compare"
    <3>1. ns[op.ins[1]].n = ns[op.ins[2]].n
      BY <2>4, Zenon DEF Applies
    <3> QED  BY <2>4, <3>1 DEF Arity
  <2>5. CASE op.kind \in {"add", "subtract", "maximum", "minimum", "remainder", "clamp"}
    <3>1. \A j, m \in DOMAIN op.ins : ns[op.ins[j]].n = ns[op.ins[m]].n
      BY <2>5, Zenon DEF Applies
    <3> QED  BY <1>1, <3>1
  <2> QED  BY <2>1, <2>2, <2>3, <2>4, <2>5 DEF Elementary
<1> QED  BY <1>1, <1>2, <1>3, <1>4

\* The fields of a node that is computed element by element.
LEMMA ElementwiseIs ==
  ASSUME NEW ns, NEW op
  PROVE  LET x == Elementwise(ns, op)
             a == ns[op.ins[1]]
             b == ns[op.ins[2]]
         IN /\ DOMAIN x = Fields /\ x.kind = op.kind /\ x.ins = op.ins /\ x.n = a.n
            /\ x.peel = Len(ns) + 1
            /\ x.i1 = (op.kind \in {"compare", "and"} \/ (op.kind = "select" /\ b.i1))
            /\ x.val = [e \in Inputs |-> [i \in 1 .. Size(a) |-> Value(op, ValuesAt(ns, op, e, i))]]
            /\ x.whole = Ranged(op, Wholes(ns, op))
            /\ x.part = [i \in DOMAIN a.part |-> Ranged(op, PartsAt(ns, op, i))]
            /\ op.kind = "and" => x.neg = Conjunction(a.neg, b.neg, 1 .. Len(ns) + 1)
            /\ op.kind = "compare" => x.neg = Comparison(op, a, b, x.whole)
            /\ op.kind \notin {"and", "compare"} => x.neg = NoNeg
<1> DEFINE x == Elementwise(ns, op)  a == ns[op.ins[1]]  b == ns[op.ins[2]]
<1>1. /\ DOMAIN x = Fields /\ x.kind = op.kind /\ x.ins = op.ins /\ x.n = a.n
      /\ x.peel = Len(ns) + 1
      /\ x.i1 = (op.kind \in {"compare", "and"} \/ (op.kind = "select" /\ b.i1))
  BY DEF Elementwise, Fields
<1>2. /\ x.val = [e \in Inputs |-> [i \in 1 .. Size(a) |-> Value(op, ValuesAt(ns, op, e, i))]]
      /\ x.whole = Ranged(op, Wholes(ns, op))
      /\ x.part = [i \in DOMAIN a.part |-> Ranged(op, PartsAt(ns, op, i))]
  BY DEF Elementwise, ValuesAt, Wholes, PartsAt
<1>3. /\ op.kind = "and" => x.neg = Conjunction(a.neg, b.neg, 1 .. Len(ns) + 1)
      /\ op.kind = "compare" => x.neg = Comparison(op, a, b, Ranged(op, Wholes(ns, op)))
      /\ op.kind \notin {"and", "compare"} => x.neg = NoNeg
  BY DEF Elementwise, Wholes
<1> HIDE DEF x, a, b
<1>4. op.kind = "compare" => x.neg = Comparison(op, a, b, x.whole)
  BY <1>2, <1>3
<1> QED  BY <1>1, <1>2, <1>3, <1>4 DEF x, a, b

\* The range of an op is a range.
LEMMA RangedTyped ==
  ASSUME NEW op, OpFormed(op), op.kind \in Elementary, NEW r \in [1 .. Arity(op.kind) -> RangeSet]
  PROVE  Ranged(op, r) \in RangeSet
<1>0. /\ r[1] \in RangeSet
      /\ Arity(op.kind) >= 2 => r[2] \in RangeSet
      /\ Arity(op.kind) = 3 => r[3] \in RangeSet
  BY DEF Arity
<1>1. CASE op.kind = "add"
  BY <1>0, <1>1, AddHolds DEF Arity, Ranged
<1>2. CASE op.kind = "subtract"
  BY <1>0, <1>2, SubtractHolds DEF Arity, Ranged
<1>3. CASE op.kind = "maximum"
  BY <1>0, <1>3, MaxHolds DEF Arity, Ranged
<1>4. CASE op.kind = "minimum"
  BY <1>0, <1>4, MinHolds DEF Arity, Ranged
<1>5. CASE op.kind = "clamp"
  BY <1>0, <1>5, ClampHolds DEF Arity, Ranged
<1>6. CASE op.kind = "remainder"
  BY <1>0, <1>6, RemHolds DEF Arity, Ranged
<1>7. CASE op.kind = "compare"
  <2>1. Ranged(op, r) = CompareRange(op.dir, op.signed, r[1], r[2]) /\ op.dir \in Directions
        /\ r[2] \in RangeSet
    BY <1>0, <1>7 DEF Ranged, OpFormed, Directions, Arity
  <2> QED  BY <1>0, <2>1, CompareHolds
<1>8. CASE op.kind = "and"
  <2>1. Ranged(op, r) = UnknownRange
    BY <1>8 DEF Ranged
  <2> QED  BY <2>1 DEF UnknownRange, RangeSet
<1>9. CASE op.kind = "select"
  BY <1>0, <1>9, UnionHolds DEF Arity, Ranged
<1>10. CASE op.kind = "convert"
  BY <1>0, <1>10 DEF Ranged
<1> QED  BY <1>1, <1>2, <1>3, <1>4, <1>5, <1>6, <1>7, <1>8, <1>9, <1>10 DEF Elementary

\* ...and its values are in its ranges.
LEMMA ElementwiseTyped ==
  ASSUME NEW ns, NodesFormed(ns), NEW op, OpFormed(op), Applies(ns, op), op.kind \in Elementary
  PROVE  LET x == Elementwise(ns, op) IN
         /\ Typed(x) /\ Sound(x) /\ Size(x) = Size(ns[op.ins[1]])
         /\ \A e \in Inputs : \A i \in 1 .. Size(x) :
              /\ x.val[e][i] = Value(op, ValuesAt(ns, op, e, i))
              /\ ValuesAt(ns, op, e, i) \in [1 .. Arity(op.kind) -> Int]
<1> DEFINE x == Elementwise(ns, op)  a == ns[op.ins[1]]  b == ns[op.ins[2]]
           ar == Arity(op.kind)  y(k) == ns[op.ins[k]]
<1>1. /\ ar \in 1 .. 3 /\ op.ins \in [1 .. ar -> DOMAIN ns] /\ DOMAIN op.ins = 1 .. ar
      /\ \A k \in 1 .. ar : NodeIs(ns, y(k)) /\ y(k).n = a.n
  BY OperandsAre
<1>2. /\ DOMAIN x = Fields /\ x.kind = op.kind /\ x.ins = op.ins /\ x.n = a.n
      /\ x.peel = Len(ns) + 1
      /\ x.i1 = (op.kind \in {"compare", "and"} \/ (op.kind = "select" /\ b.i1))
      /\ x.val = [e \in Inputs |-> [i \in 1 .. Size(a) |-> Value(op, ValuesAt(ns, op, e, i))]]
      /\ x.whole = Ranged(op, Wholes(ns, op))
      /\ x.part = [i \in DOMAIN a.part |-> Ranged(op, PartsAt(ns, op, i))]
  BY ElementwiseIs
<1> HIDE DEF x
<1>3. Size(x) = Size(a) /\ a.n \in Nat /\ a = y(1) /\ 1 \in 1 .. ar
  BY <1>1, <1>2 DEF Size, NodeIs, Typed
<1>4. ASSUME NEW k \in 1 .. ar
      PROVE  /\ y(k).val \in [Inputs -> [1 .. Size(x) -> IF y(k).i1 THEN {0, 1} ELSE Int]]
             /\ y(k).i1 \in BOOLEAN /\ y(k).whole \in RangeSet
             /\ y(k).part \in [1 .. Parts(x.n) -> RangeSet]
             /\ \A e \in Inputs : \A i \in 1 .. Size(x) :
                  /\ Within(y(k).val[e][i], y(k).whole)
                  /\ i \in DOMAIN y(k).part => Within(y(k).val[e][i], y(k).part[i])
                  /\ y(k).val[e][i] \in Int /\ (y(k).i1 => y(k).val[e][i] \in {0, 1})
  <2>1. NodeIs(ns, y(k)) /\ y(k).n = x.n
    BY <1>1, <1>2
  <2>2. Size(y(k)) = Size(x)
    BY <2>1 DEF Size
  <2> HIDE DEF y
  <2>3. /\ y(k).val \in [Inputs -> [1 .. Size(x) -> IF y(k).i1 THEN {0, 1} ELSE Int]]
        /\ y(k).i1 \in BOOLEAN /\ y(k).whole \in RangeSet
        /\ y(k).part \in [1 .. Parts(x.n) -> RangeSet]
    BY <2>1, <2>2 DEF NodeIs, Typed
  <2>4. \A e \in Inputs : \A i \in 1 .. Size(x) :
          /\ Within(y(k).val[e][i], y(k).whole)
          /\ i \in DOMAIN y(k).part => Within(y(k).val[e][i], y(k).part[i])
    BY <2>1, <2>2 DEF NodeIs, Sound
  <2>5. ASSUME NEW e \in Inputs, NEW i \in 1 .. Size(x)
        PROVE  y(k).val[e][i] \in Int /\ (y(k).i1 => y(k).val[e][i] \in {0, 1})
    <3>1. y(k).val[e][i] \in IF y(k).i1 THEN {0, 1} ELSE Int
      BY <2>3
    <3> QED  BY <3>1
  <2> QED  BY <2>3, <2>4, <2>5
<1>5. Wholes(ns, op) \in [1 .. ar -> RangeSet] /\ \A k \in 1 .. ar : Wholes(ns, op)[k] = y(k).whole
  BY <1>1, <1>4 DEF Wholes
<1>6. DOMAIN a.part = 1 .. Parts(x.n)
  BY <1>3, <1>4
<1>7. ASSUME NEW i \in 1 .. Parts(x.n)
      PROVE  /\ PartsAt(ns, op, i) \in [1 .. ar -> RangeSet]
             /\ \A k \in 1 .. ar : PartsAt(ns, op, i)[k] = y(k).part[i]
  BY <1>1, <1>4 DEF PartsAt
<1>8. ASSUME NEW e \in Inputs, NEW i \in 1 .. Size(x)
      PROVE  /\ ValuesAt(ns, op, e, i) \in [1 .. ar -> Int]
             /\ \A k \in 1 .. ar : ValuesAt(ns, op, e, i)[k] = y(k).val[e][i]
  BY <1>1, <1>4 DEF ValuesAt
<1>9. x.whole \in RangeSet /\ x.part \in [1 .. Parts(x.n) -> RangeSet]
  BY <1>2, <1>5, <1>6, <1>7, RangedTyped
<1>10. ASSUME NEW e \in Inputs, NEW i \in 1 .. Size(x)
       PROVE  /\ x.val[e][i] = Value(op, ValuesAt(ns, op, e, i)) /\ x.val[e][i] \in Int
              /\ Within(x.val[e][i], x.whole)
              /\ i \in DOMAIN x.part => Within(x.val[e][i], x.part[i])
  <2> DEFINE v == ValuesAt(ns, op, e, i)
  <2>1. v \in [1 .. ar -> Int] /\ \A k \in 1 .. ar : Within(v[k], Wholes(ns, op)[k])
    BY <1>4, <1>5, <1>8
  <2>2. x.val[e][i] = Value(op, v)
    BY <1>2, <1>3
  <2> HIDE DEF v
  <2>3. Value(op, v) \in Int /\ Within(Value(op, v), Ranged(op, Wholes(ns, op)))
    BY <1>5, <2>1, RangedHolds, Zenon
  <2>4. ASSUME i \in DOMAIN x.part  PROVE Within(Value(op, v), x.part[i])
    <3>1. i \in 1 .. Parts(x.n) /\ x.part[i] = Ranged(op, PartsAt(ns, op, i))
      BY <1>2, <1>6, <2>4
    <3>2. \A k \in 1 .. ar : Within(v[k], PartsAt(ns, op, i)[k])
      BY <1>4, <1>7, <1>8, <3>1 DEF v
    <3>3. PartsAt(ns, op, i) \in [1 .. ar -> RangeSet] /\ v \in [1 .. ar -> Int]
      BY <1>7, <2>1, <3>1
    <3>4. Within(Value(op, v), Ranged(op, PartsAt(ns, op, i)))
      BY <3>2, <3>3, RangedHolds, Zenon
    <3> QED  BY <3>1, <3>4
  <2> QED  BY <1>2, <2>2, <2>3, <2>4 DEF v
<1>11. ASSUME NEW e \in Inputs, NEW i \in 1 .. Size(x), x.i1
       PROVE  x.val[e][i] \in {0, 1}
  <2> DEFINE v == ValuesAt(ns, op, e, i)
  <2>1. CASE op.kind = "compare"
    <3>1. Value(op, v) = IF Holds(op.dir, v[1], v[2]) THEN 1 ELSE 0
      BY <2>1 DEF Value
    <3> QED  BY <1>10, <3>1
  <2>2. CASE op.kind = "and"
    <3>0. 1 \in 1 .. ar /\ 2 \in 1 .. ar
      BY <2>2 DEF Arity
    <3>1. y(1).i1 /\ y(2).i1
      BY <2>2, Zenon DEF Applies
    <3>2. v[1] \in {0, 1} /\ v[2] \in {0, 1}
      BY <1>4, <1>8, <3>0, <3>1
    <3>3. Value(op, v) = v[1] * v[2]
      BY <2>2 DEF Value
    <3> HIDE DEF v
    <3> QED  BY <1>10, <3>2, <3>3 DEF v
  <2>3. CASE op.kind = "select"
    <3>1. y(2).i1 = y(3).i1 /\ y(2).i1
      BY <1>2, <1>11, <2>3, Zenon DEF Applies
    <3>2. 2 \in 1 .. ar /\ 3 \in 1 .. ar
      BY <2>3 DEF Arity
    <3>3. v[2] \in {0, 1} /\ v[3] \in {0, 1}
      BY <1>4, <1>8, <3>1, <3>2
    <3>4. Value(op, v) = IF v[1] = 1 THEN v[2] ELSE v[3]
      BY <2>3 DEF Value
    <3> QED  BY <1>10, <3>3, <3>4
  <2> QED  BY <1>2, <1>11, <2>1, <2>2, <2>3
<1>12. Typed(x)
  <2>1. x.i1 \in BOOLEAN
    BY <1>2
  <2>2. x.val \in [Inputs -> [1 .. Size(x) -> IF x.i1 THEN {0, 1} ELSE Int]]
    <3>1. \A e \in Inputs : \A i \in 1 .. Size(x) : x.val[e][i] \in IF x.i1 THEN {0, 1} ELSE Int
      BY <1>10, <1>11
    <3>2. /\ DOMAIN x.val = Inputs /\ \A e \in Inputs : DOMAIN x.val[e] = 1 .. Size(x)
          /\ x.val = [e \in Inputs |-> x.val[e]]
          /\ \A e \in Inputs : x.val[e] = [i \in 1 .. Size(x) |-> x.val[e][i]]
      BY <1>2, <1>3
    <3> QED  BY <3>1, <3>2
  <2> QED  BY <1>2, <1>3, <1>9, <2>1, <2>2 DEF Typed
<1>13. Sound(x)
  BY <1>10 DEF Sound
<1> QED  BY <1>3, <1>8, <1>10, <1>12, <1>13 DEF x

\* What a predicate is known of...
LEMMA ConjunctionIs ==
  ASSUME NEW ns, NodesFormed(ns), NEW op, OpFormed(op), Applies(ns, op), op.kind = "and"
  PROVE  NegIs(ns, Elementwise(ns, op))
<1> DEFINE x == Elementwise(ns, op)  p == ns[op.ins[1]]  q == ns[op.ins[2]]
<1>0. op.kind \in Elementary /\ Arity(op.kind) = 2 /\ 1 \in 1 .. 2 /\ 2 \in 1 .. 2
  BY DEF Elementary, Arity
<1>1. /\ op.ins \in [1 .. 2 -> DOMAIN ns] /\ NodeIs(ns, p) /\ NodeIs(ns, q) /\ q.n = p.n
  <2>1. /\ op.ins \in [1 .. Arity(op.kind) -> DOMAIN ns]
        /\ \A k \in 1 .. Arity(op.kind) :
             NodeIs(ns, ns[op.ins[k]]) /\ ns[op.ins[k]].n = ns[op.ins[1]].n
    BY <1>0, OperandsAre
  <2> QED  BY <1>0, <2>1
<1>2. /\ x.n = p.n /\ x.neg = Conjunction(p.neg, q.neg, 1 .. Len(ns) + 1)
      /\ Size(x) = Size(p) /\ Size(q) = Size(p)
      /\ \A e \in Inputs : \A i \in 1 .. Size(x) : x.val[e][i] = Value(op, ValuesAt(ns, op, e, i))
  <2>1. x.n = p.n /\ x.neg = Conjunction(p.neg, q.neg, 1 .. Len(ns) + 1)
    BY ElementwiseIs
  <2>2. /\ Size(x) = Size(p)
        /\ \A e \in Inputs : \A i \in 1 .. Size(x) : x.val[e][i] = Value(op, ValuesAt(ns, op, e, i))
    BY <1>0, ElementwiseTyped
  <2> QED  BY <1>1, <2>1, <2>2 DEF Size
<1>3. p.i1 /\ q.i1
  BY Zenon DEF Applies
<1>4. ASSUME NEW e \in Inputs, NEW i \in 1 .. Size(x)
      PROVE  (x.val[e][i] = 1) <=> (p.val[e][i] = 1 /\ q.val[e][i] = 1)
  <2>1. x.val[e][i] = p.val[e][i] * q.val[e][i]
    <3>1. x.val[e][i] = ValuesAt(ns, op, e, i)[1] * ValuesAt(ns, op, e, i)[2]
      BY <1>2 DEF Value
    <3> QED  BY <1>1, <3>1 DEF ValuesAt
  <2>2. p.val[e][i] \in {0, 1} /\ q.val[e][i] \in {0, 1}
    BY <1>1, <1>2, <1>3 DEF NodeIs, Typed
  <2> QED  BY <2>1, <2>2
<1> DEFINE neg == x.neg
<1>5. /\ neg.equals = {k \in p.neg.equals : Weaker(q.neg, k)} \cup {k \in q.neg.equals : Weaker(p.neg, k)}
      /\ neg.weaker = {k \in 1 .. Len(ns) + 1 : Weaker(p.neg, k) /\ Weaker(q.neg, k)}
      /\ neg.always = (p.neg.always /\ q.neg.always)
  BY <1>2 DEF Conjunction
<1> HIDE DEF x, p, q
<1>6. NegIs(ns, p) /\ NegIs(ns, q)
  BY <1>1 DEF NodeIs
<1>7. ASSUME NEW z  PROVE (Fits(z, p) <=> Fits(z, x)) /\ (Fits(z, q) <=> Fits(z, x))
  BY <1>1, <1>2 DEF Fits
<1>8. ASSUME NEW k, Weaker(p.neg, k)
      PROVE  Always(p) \/ (k \in DOMAIN ns /\ Implied(p, ns[k]))
  BY <1>6, <1>8 DEF Weaker, NegIs, Implied, Equals
<1>9. ASSUME NEW k, Weaker(q.neg, k)
      PROVE  Always(q) \/ (k \in DOMAIN ns /\ Implied(q, ns[k]))
  BY <1>6, <1>9 DEF Weaker, NegIs, Implied, Equals
<1>10. neg.always => Always(x)
  <2>1. neg.always => Always(p) /\ Always(q)
    BY <1>5, <1>6 DEF NegIs
  <2> QED  BY <1>2, <1>4, <2>1 DEF Always
<1>11. ASSUME NEW k \in p.neg.equals, Weaker(q.neg, k)
       PROVE  k \in DOMAIN ns /\ Equals(x, ns[k])
  <2>1. k \in DOMAIN ns /\ Equals(p, ns[k])
    BY <1>6 DEF NegIs
  <2> QED  BY <1>2, <1>4, <1>7, <1>9, <1>11, <2>1 DEF Equals, Implied, Always
<1>12. ASSUME NEW k \in q.neg.equals, Weaker(p.neg, k)
       PROVE  k \in DOMAIN ns /\ Equals(x, ns[k])
  <2>1. k \in DOMAIN ns /\ Equals(q, ns[k])
    BY <1>6 DEF NegIs
  <2> QED  BY <1>2, <1>4, <1>7, <1>8, <1>12, <2>1 DEF Equals, Implied, Always
<1>13. ASSUME ~ neg.always, NEW k \in neg.weaker
       PROVE  k \in DOMAIN ns /\ Implied(x, ns[k])
  <2>1. Weaker(p.neg, k) /\ Weaker(q.neg, k)
    BY <1>5, <1>13
  <2>2. /\ p.neg.always \/ (k \in DOMAIN ns /\ Implied(p, ns[k]))
        /\ q.neg.always \/ (k \in DOMAIN ns /\ Implied(q, ns[k]))
    BY <1>6, <2>1 DEF Weaker, NegIs, Implied, Equals
  <2>3. k \in DOMAIN ns /\ (Implied(p, ns[k]) \/ Implied(q, ns[k]))
    BY <1>5, <1>13, <2>2
  <2>4. /\ Always(p) \/ Implied(p, ns[k])
        /\ Always(q) \/ Implied(q, ns[k])
    BY <1>8, <1>9, <2>1
  <2> QED  BY <1>2, <1>4, <1>7, <2>3, <2>4 DEF Implied, Always
<1>14. NegIs(ns, x)
  BY <1>5, <1>10, <1>11, <1>12, <1>13 DEF NegIs
<1> QED  BY <1>14 DEF x

\* A node with another's truth has its predicates.
LEMMA SameTruth ==
  ASSUME NEW ns, NEW x, NEW p, NegIs(ns, p), x.n = p.n, x.neg = p.neg,
         \A e \in Inputs : \A i \in 1 .. Size(p) : (x.val[e][i] = 1) <=> (p.val[e][i] = 1)
  PROVE  NegIs(ns, x)
<1>1. Size(x) = Size(p) /\ \A z : Fits(z, x) <=> Fits(z, p)
  BY DEF Size, Fits
<1>2. Always(p) => Always(x)
  BY <1>1 DEF Always
<1>3. \A z : (Equals(p, z) => Equals(x, z)) /\ (Implied(p, z) => Implied(x, z))
  BY <1>1 DEF Equals, Implied
<1> QED  BY <1>2, <1>3 DEF NegIs

\* ...by a comparison, with zero or of two predicates.
LEMMA ComparisonIs ==
  ASSUME NEW ns, NodesFormed(ns), NEW op, OpFormed(op), Applies(ns, op), op.kind = "compare"
  PROVE  NegIs(ns, Elementwise(ns, op))
<1> DEFINE x == Elementwise(ns, op)  a == ns[op.ins[1]]  b == ns[op.ins[2]]
<1>0. op.kind \in Elementary /\ Arity(op.kind) = 2 /\ 1 \in 1 .. 2 /\ 2 \in 1 .. 2
  BY DEF Elementary, Arity
<1>1. /\ op.ins \in [1 .. 2 -> DOMAIN ns] /\ NodeIs(ns, a) /\ NodeIs(ns, b) /\ b.n = a.n
  <2>1. /\ op.ins \in [1 .. Arity(op.kind) -> DOMAIN ns]
        /\ \A k \in 1 .. Arity(op.kind) :
             NodeIs(ns, ns[op.ins[k]]) /\ ns[op.ins[k]].n = ns[op.ins[1]].n
    BY <1>0, OperandsAre
  <2> QED  BY <1>0, <2>1
<1>2. /\ x.n = a.n /\ x.neg = Comparison(op, a, b, x.whole) /\ Typed(x) /\ Sound(x)
      /\ Size(x) = Size(a) /\ Size(b) = Size(a)
      /\ \A e \in Inputs : \A i \in 1 .. Size(x) : x.val[e][i] = Value(op, ValuesAt(ns, op, e, i))
  <2>1. x.n = a.n /\ x.neg = Comparison(op, a, b, x.whole)
    BY ElementwiseIs
  <2>2. /\ Size(x) = Size(a) /\ Typed(x) /\ Sound(x)
        /\ \A e \in Inputs : \A i \in 1 .. Size(x) : x.val[e][i] = Value(op, ValuesAt(ns, op, e, i))
    BY <1>0, ElementwiseTyped
  <2> QED  BY <1>1, <2>1, <2>2 DEF Size
<1>3. a.i1 = b.i1
  BY Zenon DEF Applies
<1>4. ASSUME NEW e \in Inputs, NEW i \in 1 .. Size(x)
      PROVE  (x.val[e][i] = 1) <=> Holds(op.dir, a.val[e][i], b.val[e][i])
  <2>1. x.val[e][i] = IF Holds(op.dir, ValuesAt(ns, op, e, i)[1], ValuesAt(ns, op, e, i)[2]) THEN 1 ELSE 0
    BY <1>2 DEF Value
  <2>2. ValuesAt(ns, op, e, i)[1] = a.val[e][i] /\ ValuesAt(ns, op, e, i)[2] = b.val[e][i]
    BY <1>0, <1>1 DEF ValuesAt
  <2> QED  BY <2>1, <2>2
<1> HIDE DEF x, a, b
<1>5. ASSUME NEW e \in Inputs, NEW i \in 1 .. Size(x)
      PROVE  /\ a.val[e][i] \in Int /\ b.val[e][i] \in Int
             /\ a.i1 => a.val[e][i] \in {0, 1} /\ b.val[e][i] \in {0, 1}
             /\ Within(a.val[e][i], a.whole) /\ Within(b.val[e][i], b.whole)
             /\ Within(x.val[e][i], x.whole) /\ x.val[e][i] \in Int
  <2>1. /\ x.val[e][i] \in IF x.i1 THEN {0, 1} ELSE Int
        /\ a.val[e][i] \in IF a.i1 THEN {0, 1} ELSE Int
        /\ b.val[e][i] \in IF b.i1 THEN {0, 1} ELSE Int
    BY <1>1, <1>2 DEF NodeIs, Typed
  <2>2. /\ Within(a.val[e][i], a.whole) /\ Within(b.val[e][i], b.whole)
        /\ Within(x.val[e][i], x.whole)
    BY <1>1, <1>2 DEF NodeIs, Sound
  <2> QED  BY <1>3, <2>1, <2>2
<1>6. /\ a.whole.lo \in Int /\ a.whole.hi \in Int /\ b.whole.lo \in Int /\ b.whole.hi \in Int
      /\ x.whole.lo \in Int /\ x.whole.hi \in Int
  BY <1>1, <1>2 DEF NodeIs, Typed, RangeSet
<1> DEFINE plain(c) == /\ Exactly(c.whole, c.whole.lo)
                       /\ op.dir = IF c.whole.lo = 0 THEN "NE" ELSE "EQ"
<1>7. ASSUME a.i1  PROVE NegIs(ns, x)
  <2>1. x.neg = IF plain(b) THEN a.neg ELSE IF plain(a) THEN b.neg ELSE NoNeg
    BY <1>2, <1>7 DEF Comparison
  <2>2. CASE plain(b)
    <3>1. ASSUME NEW e \in Inputs, NEW i \in 1 .. Size(a)
          PROVE  (x.val[e][i] = 1) <=> (a.val[e][i] = 1)
      <4>1. b.val[e][i] = b.whole.lo
        BY <1>2, <1>5, <1>6, <2>2 DEF Exactly, Within
      <4> QED  BY <1>2, <1>4, <1>5, <1>7, <2>2, <4>1 DEF Holds
    <3> QED  BY <1>1, <1>2, <2>1, <2>2, <3>1, SameTruth DEF NodeIs
  <2>3. CASE ~ plain(b) /\ plain(a)
    <3>1. ASSUME NEW e \in Inputs, NEW i \in 1 .. Size(b)
          PROVE  (x.val[e][i] = 1) <=> (b.val[e][i] = 1)
      <4>1. a.val[e][i] = a.whole.lo
        BY <1>2, <1>5, <1>6, <2>3 DEF Exactly, Within
      <4> QED  BY <1>2, <1>4, <1>5, <1>7, <2>3, <4>1 DEF Holds
    <3> QED  BY <1>1, <1>2, <2>1, <2>3, <3>1, SameTruth DEF NodeIs
  <2>4. CASE ~ plain(b) /\ ~ plain(a)
    BY <2>1, <2>4 DEF NegIs, NoNeg
  <2> QED  BY <2>2, <2>3, <2>4
<1>8. ASSUME ~ a.i1  PROVE NegIs(ns, x)
  <2> DEFINE left == Exactly(b.whole, 0)  right == Exactly(a.whole, 0)
  <2>1. /\ x.neg.equals = {k \in {a.peel} : left /\ op.dir = "LT"}
                            \cup {k \in {b.peel} : right /\ op.dir = "GT"}
        /\ x.neg.weaker = {k \in {a.peel} : left /\ op.dir \in {"LE", "NE"}}
                            \cup {k \in {b.peel} : right /\ op.dir \in {"GE", "NE"}}
        /\ x.neg.always = Exactly(x.whole, 1)
    BY <1>2, <1>8 DEF Comparison
  <2>2. ASSUME x.neg.always  PROVE Always(x)
    <3>1. x.whole.known /\ x.whole.lo = 1 /\ x.whole.hi = 1
      BY <2>1, <2>2, Zenon DEF Exactly
    <3> QED  BY <1>5, <3>1 DEF Within, Always
  <2>3. /\ a.peel \in DOMAIN ns /\ Views(a, ns[a.peel])
        /\ b.peel \in DOMAIN ns /\ Views(b, ns[b.peel])
    BY <1>1 DEF NodeIs, PeelIs
  <2>4. ASSUME NEW z, Views(a, z)
        PROVE  /\ Fits(z, x)
               /\ \A e \in Inputs : \A i \in 1 .. Size(x) : z.val[e][Seen(z, i)] = a.val[e][i]
    BY <1>2, <2>4 DEF Views, Fits
  <2>5. ASSUME NEW z, Views(b, z)
        PROVE  /\ Fits(z, x)
               /\ \A e \in Inputs : \A i \in 1 .. Size(x) : z.val[e][Seen(z, i)] = b.val[e][i]
    BY <1>1, <1>2, <2>5 DEF Views, Fits
  <2>6. left => \A e \in Inputs : \A i \in 1 .. Size(x) : b.val[e][i] = 0
    BY <1>5 DEF Exactly, Within
  <2>7. right => \A e \in Inputs : \A i \in 1 .. Size(x) : a.val[e][i] = 0
    BY <1>5 DEF Exactly, Within
  <2> HIDE DEF left, right
  <2>8. left /\ op.dir = "LT" => Equals(x, ns[a.peel])
    BY <1>4, <1>5, <2>3, <2>4, <2>6 DEF Equals, Holds
  <2>9. right /\ op.dir = "GT" => Equals(x, ns[b.peel])
    BY <1>4, <1>5, <2>3, <2>5, <2>7 DEF Equals, Holds
  <2>10. left /\ op.dir \in {"LE", "NE"} => Implied(x, ns[a.peel])
    BY <1>4, <1>5, <2>3, <2>4, <2>6 DEF Implied, Holds
  <2>11. right /\ op.dir \in {"GE", "NE"} => Implied(x, ns[b.peel])
    BY <1>4, <1>5, <2>3, <2>5, <2>7 DEF Implied, Holds
  <2> QED  BY <2>1, <2>2, <2>3, <2>8, <2>9, <2>10, <2>11 DEF NegIs
<1>9. NegIs(ns, x)
  BY <1>7, <1>8
<1> QED  BY <1>9 DEF x

\* All ops but the select.
LEMMA ElementwiseJoins ==
  ASSUME NEW ns, NodesFormed(ns), NEW op, OpFormed(op), Applies(ns, op),
         op.kind \in Elementary \ {"select"}
  PROVE  NodesFormed(Append(ns, Elementwise(ns, op)))
<1> DEFINE x == Elementwise(ns, op)  a == ns[op.ins[1]]  b == ns[op.ins[2]]
<1>1. /\ Typed(x) /\ Sound(x) /\ Size(x) = Size(a)
      /\ \A e \in Inputs : \A i \in 1 .. Size(x) : x.val[e][i] = Value(op, ValuesAt(ns, op, e, i))
  BY ElementwiseTyped
<1>2. /\ x.kind = op.kind /\ x.ins = op.ins /\ x.n = a.n /\ x.peel = Len(ns) + 1
      /\ x.i1 = (op.kind \in {"compare", "and"} \/ (op.kind = "select" /\ b.i1))
      /\ op.kind \notin {"and", "compare"} => x.neg = NoNeg
  <2>1. /\ x.kind = op.kind /\ x.ins = op.ins /\ x.n = a.n /\ x.peel = Len(ns) + 1
        /\ x.i1 = (op.kind \in {"compare", "and"} \/ (op.kind = "select" /\ b.i1))
    BY DEF Elementwise
  <2>2. op.kind \notin {"and", "compare"} => x.neg = NoNeg
    BY ElementwiseIs, Zenon
  <2> QED  BY <2>1, <2>2
<1>3. NegIs(ns, x)
  <2>1. CASE op.kind = "and"
    BY <2>1, ConjunctionIs
  <2>2. CASE op.kind = "compare"
    BY <2>2, ComparisonIs
  <2>3. CASE op.kind \notin {"and", "compare"}
    <3> HIDE DEF x
    <3>1. x.neg = NoNeg
      BY <1>2, <2>3
    <3> QED  BY <3>1 DEF NegIs, NoNeg
  <2> QED  BY <2>1, <2>2, <2>3
<1>4. OpIs(ns, x)
  <2> SUFFICES ASSUME op.kind \in {"add", "remainder"}
               PROVE  /\ x.ins \in [1 .. 2 -> DOMAIN ns] /\ ~ x.i1
                      /\ \A k \in 1 .. 2 : ns[x.ins[k]].n = x.n
                      /\ x.kind = "add" => Adds(x, ns[x.ins[1]], ns[x.ins[2]])
                      /\ x.kind = "remainder" => Divides(x, ns[x.ins[1]], ns[x.ins[2]])
    BY <1>2, Zenon DEF OpIs
  <2>1. Arity(op.kind) = 2
    BY DEF Arity
  <2>2. op.ins \in [1 .. 2 -> DOMAIN ns] /\ \A k \in 1 .. 2 : ns[op.ins[k]].n = a.n
    <3>1. /\ op.ins \in [1 .. Arity(op.kind) -> DOMAIN ns]
          /\ \A k \in 1 .. Arity(op.kind) : ns[op.ins[k]].n = ns[op.ins[1]].n
      BY OperandsAre
    <3> QED  BY <2>1, <3>1
  <2>3. \A e \in Inputs : \A i \in 1 .. Size(x) :
          ValuesAt(ns, op, e, i)[1] = a.val[e][i] /\ ValuesAt(ns, op, e, i)[2] = b.val[e][i]
    BY <2>2 DEF ValuesAt
  <2> HIDE DEF x, a, b
  <2>4. ASSUME op.kind = "add"  PROVE Adds(x, a, b)
    <3>1. \A v : Value(op, v) = v[1] + v[2]
      BY <2>4 DEF Value
    <3> QED  BY <1>1, <2>3, <3>1 DEF Adds
  <2>5. ASSUME op.kind = "remainder"  PROVE Divides(x, a, b)
    <3>1. \A v : Value(op, v) = IF v[2] = 0 THEN v[1] ELSE truncated(v[1], v[2])
      BY <2>5 DEF Value
    <3> QED  BY <1>1, <2>3, <3>1 DEF Divides
  <2> QED  BY <1>2, <2>2, <2>4, <2>5 DEF a, b
<1> HIDE DEF x
<1>5. NodesFormed(Append(ns, x))
  BY <1>1, <1>2, <1>3, <1>4, NodeJoins
<1> QED  BY <1>5 DEF x

---------------------------------------------------------------------------
(* jax's normalization of an index.                                        *)
LEMMA NormalTyped ==
  ASSUME NEW rf, NEW rD \in RangeSet, NEW same
  PROVE  Normal(rf, rD, same) \in RangeSet
<1>1. rD.lo - 1 \in Int /\ rD.hi - 1 \in Int /\ 0 \in Int
  BY DEF RangeSet
<1> QED  BY <1>1, Made, Zenon DEF Normal

\* An index in -D .. D - 1, moved up by D where it is negative, is in 0 .. D - 1.
LEMMA NormalHolds ==
  ASSUME NEW f \in Int, NEW d \in Int, NEW rf \in RangeSet, NEW rD \in RangeSet,
         rf.known, Within(f, rf), rD.known, Within(d, rD), rD.lo > 0, NEW same,
         same => - d < f /\ f < d
  PROVE  Within(IF f < 0 THEN f + d ELSE f, Normal(rf, rD, same))
<1> DEFINE v == IF f < 0 THEN f + d ELSE f
<1>1. /\ rD.lo \in Int /\ rD.hi \in Int /\ rf.lo \in Int /\ rf.hi \in Int /\ v \in Int
      /\ rD.lo <= d /\ d <= rD.hi /\ rf.lo <= f /\ f <= rf.hi
  BY DEF RangeSet, Within
<1>2. CASE Exactly(rD, rD.lo) /\ rf.lo >= - rD.lo /\ rf.hi <= rD.lo - 1
  <2>1. 0 <= v /\ v <= rD.lo - 1 /\ rD.lo - 1 \in Int
    BY <1>1, <1>2 DEF Exactly
  <2>2. Normal(rf, rD, same) = MakeRange(0, rD.lo - 1)
    BY <1>2 DEF Normal
  <2> HIDE DEF v
  <2> QED  BY <1>1, <2>1, <2>2, Made, 0 \in Int DEF v
<1>3. CASE ~ (Exactly(rD, rD.lo) /\ rf.lo >= - rD.lo /\ rf.hi <= rD.lo - 1) /\ same
  <2>1. 0 <= v /\ v <= rD.hi - 1 /\ rD.hi - 1 \in Int
    BY <1>1, <1>3
  <2>2. Normal(rf, rD, same) = MakeRange(0, rD.hi - 1)
    BY <1>3 DEF Normal
  <2> HIDE DEF v
  <2> QED  BY <1>1, <2>1, <2>2, Made, 0 \in Int DEF v
<1>4. CASE ~ (Exactly(rD, rD.lo) /\ rf.lo >= - rD.lo /\ rf.hi <= rD.lo - 1) /\ ~ same
  <2>1. Normal(rf, rD, same) = UnknownRange
    BY <1>4 DEF Normal
  <2> QED  BY <2>1 DEF UnknownRange, Within
<1> QED  BY <1>2, <1>3, <1>4

SameDivisor(ns, f, D) ==
  ns[f.peel].kind = "remainder" /\ ns[ns[f.peel].ins[2]].peel = ns[D].peel

\* A remainder by what is a view of the same D is less than D.
LEMMA SameDivisorIs ==
  ASSUME NEW ns, NodesFormed(ns), NEW f, NodeIs(ns, f), NEW D \in DOMAIN ns, ns[D].n = f.n,
         SameDivisor(ns, f, D), NEW e \in Inputs, NEW i \in 1 .. Size(f), ns[D].val[e][i] > 0
  PROVE  - ns[D].val[e][i] < f.val[e][i] /\ f.val[e][i] < ns[D].val[e][i]
<1> DEFINE z == ns[f.peel]  g == ns[z.ins[1]]  m == ns[z.ins[2]]  y == ns[D]  q == ns[y.peel]
           j == Seen(z, i)
<1>1. /\ f.peel \in DOMAIN ns /\ Fits(z, f)
      /\ \A e1 \in Inputs : \A i1 \in 1 .. Size(f) : f.val[e1][i1] = z.val[e1][Seen(z, i1)]
  BY DEF NodeIs, PeelIs, Views
<1>2. NodeIs(ns, z) /\ NodeIs(ns, y)
  BY <1>1 DEF NodesFormed, NodesAre
<1>3. /\ z.ins \in [1 .. 2 -> DOMAIN ns] /\ g.n = z.n /\ m.n = z.n /\ Divides(z, g, m)
      /\ ~ z.i1
  <2>1. z.kind = "remainder"
    BY DEF SameDivisor
  <2>2. OpIs(ns, z)
    BY <1>2 DEF NodeIs
  <2> QED  BY <2>1, <2>2 DEF OpIs
<1>4. NodeIs(ns, m) /\ NodeIs(ns, g) /\ m.peel = y.peel
  BY <1>3 DEF NodesFormed, NodesAre, SameDivisor
<1>5. Views(m, q) /\ Views(y, q)
  BY <1>2, <1>4 DEF NodeIs, PeelIs
<1> HIDE DEF z, g, m, y, q
<1>6. j \in 1 .. Size(z) /\ Size(m) = Size(z) /\ Size(g) = Size(z) /\ Size(y) = Size(f)
      /\ (Size(z) = 1 \/ Size(z) = Size(f))
  BY <1>1, <1>3 DEF Seen, Fits, Size, y
<1>7. Seen(q, j) = Seen(q, i)
  BY <1>3, <1>5 DEF Views, Fits, Seen, Size
<1>8. m.val[e][j] = y.val[e][i]
  BY <1>5, <1>6, <1>7 DEF Views
<1>9. m.val[e][j] \in Int /\ g.val[e][j] \in Int
  <2>1. /\ m.val[e][j] \in IF m.i1 THEN {0, 1} ELSE Int
        /\ g.val[e][j] \in IF g.i1 THEN {0, 1} ELSE Int
    BY <1>4, <1>6 DEF NodeIs, Typed
  <2> QED  BY <2>1
<1>10. m.val[e][j] > 0
  BY <1>8 DEF y
<1>11. z.val[e][j] = truncated(g.val[e][j], m.val[e][j])
  BY <1>3, <1>6, <1>9, <1>10 DEF Divides
<1>12. f.val[e][i] = truncated(g.val[e][j], m.val[e][j])
  BY <1>1, <1>11 DEF z
<1>13. magnitude(m.val[e][j]) = m.val[e][j]
  BY <1>9, <1>10 DEF magnitude
<1>14. /\ truncated(g.val[e][j], m.val[e][j]) \in Int
       /\ truncated(g.val[e][j], m.val[e][j]) <= m.val[e][j] - 1
       /\ truncated(g.val[e][j], m.val[e][j]) >= - (m.val[e][j] - 1)
  <2> DEFINE u == g.val[e][j]  w == m.val[e][j]
  <2>1. u \in Int /\ w \in Int /\ w # 0 /\ magnitude(w) = w
    BY <1>9, <1>10, <1>13
  <2> HIDE DEF u, w
  <2>2. /\ truncated(u, w) \in Int
        /\ truncated(u, w) <= magnitude(w) - 1 /\ truncated(u, w) >= - (magnitude(w) - 1)
    BY <2>1, RemainderBounded
  <2> QED  BY <2>1, <2>2 DEF u, w
<1> QED  BY <1>8, <1>9, <1>12, <1>14 DEF y

\* What may be D is added to the index by the select's other operand.
LEMMA OffsetsAre ==
  ASSUME NEW ns, NodesFormed(ns), NEW op, OpFormed(op), Applies(ns, op), op.kind = "select",
         NEW D \in Offsets(ns, op)
  PROVE  LET t == ns[op.ins[2]]
             f == ns[op.ins[3]]
         IN /\ D \in DOMAIN ns /\ NodeIs(ns, ns[D]) /\ ns[D].n = f.n
            /\ \A e \in Inputs : \A i \in 1 .. Size(f) :
                 /\ f.val[e][i] \in Int /\ ns[D].val[e][i] \in Int
                 /\ t.val[e][i] = f.val[e][i] + ns[D].val[e][i]
<1> DEFINE t == ns[op.ins[2]]  f == ns[op.ins[3]]  y == ns[D]
<1>0. op.kind \in Elementary /\ Arity(op.kind) = 3 /\ {1, 2, 3} \subseteq 1 .. 3
  BY DEF Elementary, Arity
<1>1. op.ins \in [1 .. 3 -> DOMAIN ns] /\ NodeIs(ns, t) /\ NodeIs(ns, f) /\ t.n = f.n
  <2>1. /\ op.ins \in [1 .. Arity(op.kind) -> DOMAIN ns]
        /\ \A k \in 1 .. Arity(op.kind) :
             NodeIs(ns, ns[op.ins[k]]) /\ ns[op.ins[k]].n = ns[op.ins[1]].n
    BY <1>0, OperandsAre
  <2>2. NodeIs(ns, t) /\ NodeIs(ns, f) /\ t.n = ns[op.ins[1]].n /\ f.n = ns[op.ins[1]].n
    BY <1>0, <2>1
  <2> QED  BY <1>0, <2>1, <2>2
<1>2. t.kind = "add"
  BY DEF Offsets
<1>3. PICK k \in 1 .. 2 : t.ins[k] = op.ins[3] /\ D = t.ins[3 - k]
  BY <1>2 DEF Offsets
<1>4. /\ t.ins \in [1 .. 2 -> DOMAIN ns] /\ \A j \in 1 .. 2 : ns[t.ins[j]].n = t.n
      /\ Adds(t, ns[t.ins[1]], ns[t.ins[2]])
  <2>1. OpIs(ns, t)
    BY <1>1 DEF NodeIs
  <2> QED  BY <1>2, <2>1 DEF OpIs
<1>5. D \in DOMAIN ns /\ NodeIs(ns, y) /\ y.n = f.n
  BY <1>1, <1>3, <1>4 DEF NodesFormed, NodesAre
<1>6. ASSUME NEW e \in Inputs, NEW i \in 1 .. Size(f)
      PROVE  f.val[e][i] \in Int /\ y.val[e][i] \in Int /\ t.val[e][i] = f.val[e][i] + y.val[e][i]
  <2>1. Size(y) = Size(f) /\ Size(t) = Size(f)
    BY <1>1, <1>5 DEF Size
  <2>2. /\ f.val[e][i] \in IF f.i1 THEN {0, 1} ELSE Int
        /\ y.val[e][i] \in IF y.i1 THEN {0, 1} ELSE Int
    BY <1>1, <1>5, <2>1 DEF NodeIs, Typed
  <2>3. f.val[e][i] \in Int /\ y.val[e][i] \in Int
    BY <2>2
  <2>4. t.val[e][i] = ns[t.ins[1]].val[e][i] + ns[t.ins[2]].val[e][i]
    BY <1>4, <2>1 DEF Adds
  <2>5. (t.ins[1] = op.ins[3] /\ t.ins[2] = D) \/ (t.ins[2] = op.ins[3] /\ t.ins[1] = D)
    BY <1>3
  <2>6. t.val[e][i] = f.val[e][i] + y.val[e][i] \/ t.val[e][i] = y.val[e][i] + f.val[e][i]
    BY <2>4, <2>5
  <2> QED  BY <2>3, <2>6
<1> QED  BY <1>5, <1>6

\* The range that is proved of the select holds its value.
LEMMA ProvedHolds ==
  ASSUME NEW ns, NodesFormed(ns), NEW op, OpFormed(op), Applies(ns, op), op.kind = "select",
         NEW e \in Inputs, NEW i \in 1 .. Size(ns[op.ins[3]]),
         NEW rf \in RangeSet, Within(ns[op.ins[3]].val[e][i], rf),
         NEW rD \in [Offsets(ns, op) -> RangeSet],
         \A D \in Offsets(ns, op) : Within(ns[D].val[e][i], rD[D]),
         NEW r \in Proved(ns, op, rf, rD)
  PROVE  Within(Elementwise(ns, op).val[e][i], r)
<1> DEFINE p == ns[op.ins[1]]  t == ns[op.ins[2]]  f == ns[op.ins[3]]  x == Elementwise(ns, op)
<1>0. op.kind \in Elementary /\ Arity(op.kind) = 3 /\ {1, 2, 3} \subseteq 1 .. 3
  BY DEF Elementary, Arity
<1>1. /\ op.ins \in [1 .. 3 -> DOMAIN ns]
      /\ NodeIs(ns, p) /\ NodeIs(ns, t) /\ NodeIs(ns, f) /\ t.n = f.n /\ p.n = f.n
  <2>1. /\ op.ins \in [1 .. Arity(op.kind) -> DOMAIN ns]
        /\ \A k \in 1 .. Arity(op.kind) :
             NodeIs(ns, ns[op.ins[k]]) /\ ns[op.ins[k]].n = ns[op.ins[1]].n
    BY <1>0, OperandsAre
  <2>2. /\ NodeIs(ns, p) /\ NodeIs(ns, t) /\ NodeIs(ns, f)
        /\ p.n = p.n /\ t.n = p.n /\ f.n = p.n
    BY <1>0, <2>1
  <2> QED  BY <1>0, <2>1, <2>2
<1>2. PICK D \in Offsets(ns, op) :
        /\ r = Normal(rf, rD[D], SameDivisor(ns, f, D))
        /\ rf.known /\ rD[D].known /\ rD[D].lo > 0 /\ f.peel \in p.neg.equals
  BY DEF Proved, SameDivisor
<1> DEFINE d == ns[D].val[e][i]  v == f.val[e][i]
<1>3. D \in DOMAIN ns /\ ns[D].n = f.n /\ v \in Int /\ d \in Int /\ t.val[e][i] = v + d
  BY OffsetsAre
<1>4. (p.val[e][i] = 1) <=> (v < 0)
  <2>1. Equals(p, ns[f.peel]) /\ Views(f, ns[f.peel])
    BY <1>1, <1>2 DEF NodeIs, PeelIs, NegIs
  <2>2. Size(p) = Size(f)
    BY <1>1 DEF Size
  <2> QED  BY <2>1, <2>2 DEF Equals, Views
<1>5. x.val[e][i] = IF v < 0 THEN v + d ELSE v
  <2>1. Size(x) = Size(p) /\ Size(p) = Size(f)
        /\ \A i1 \in 1 .. Size(x) : x.val[e][i1] = Value(op, ValuesAt(ns, op, e, i1))
    <3>1. Size(x) = Size(p)
          /\ \A i1 \in 1 .. Size(x) : x.val[e][i1] = Value(op, ValuesAt(ns, op, e, i1))
      BY <1>0, ElementwiseTyped
    <3> QED  BY <1>1, <3>1 DEF Size
  <2> DEFINE w == ValuesAt(ns, op, e, i)
  <2>2. Value(op, w) = IF w[1] = 1 THEN w[2] ELSE w[3]
    BY DEF Value
  <2>3. w[1] = p.val[e][i] /\ w[2] = t.val[e][i] /\ w[3] = v
    BY <1>0, <1>1 DEF ValuesAt
  <2> HIDE DEF x, p, t, f, w
  <2>4. x.val[e][i] = Value(op, w)
    BY <2>1 DEF f, w
  <2> QED  BY <1>3, <1>4, <2>2, <2>3, <2>4
<1>6. Within(v, rf) /\ Within(d, rD[D]) /\ rD[D] \in RangeSet
  OBVIOUS
<1>7. d > 0
  BY <1>2, <1>3, <1>6 DEF Within, RangeSet
<1>8. SameDivisor(ns, f, D) => - d < v /\ v < d
  BY <1>1, <1>3, <1>7, SameDivisorIs
<1> DEFINE s == rD[D]  same == SameDivisor(ns, f, D)
<1>9. Within(IF v < 0 THEN v + d ELSE v, Normal(rf, s, same))
  <2>1. s \in RangeSet /\ s.known /\ s.lo > 0 /\ Within(d, s) /\ rf.known /\ Within(v, rf)
        /\ (same => - d < v /\ v < d) /\ v \in Int /\ d \in Int
    BY <1>2, <1>3, <1>6, <1>8
  <2> HIDE DEF v, d, s, same
  <2> QED  BY <2>1, NormalHolds
<1> QED  BY <1>2, <1>5, <1>9

\* ...and is a range.
LEMMA ProvedTyped ==
  ASSUME NEW ns, NEW op, NEW rf, NEW rD \in [Offsets(ns, op) -> RangeSet]
  PROVE  Proved(ns, op, rf, rD) \subseteq RangeSet
<1>1. ASSUME NEW r \in Proved(ns, op, rf, rD)  PROVE r \in RangeSet
  <2>1. PICK D \in Offsets(ns, op) : \E same : r = Normal(rf, rD[D], same)
    BY DEF Proved
  <2> QED  BY <2>1, NormalTyped
<1> QED  BY <1>1

Better(old, new) == IF new = {} THEN old ELSE CHOOSE r \in new : TRUE
WholeOf(ns, op) == [D \in Offsets(ns, op) |-> ns[D].whole]
PartOf(ns, op, i) == [D \in Offsets(ns, op) |-> ns[D].part[i]]

\* What is proved of a select is taken before the union of its arms.
LEMMA BetterHolds ==
  ASSUME NEW old, NEW new
  PROVE  Better(old, new) \in {old} \cup new
BY DEF Better

\* Only the ranges of a select change.
LEMMA NormalizedIs ==
  ASSUME NEW ns, NEW op, NEW x, DOMAIN x = Fields
  PROVE  LET y == Normalized(ns, op, x)
             f == ns[op.ins[3]]
         IN /\ DOMAIN y = Fields /\ y.kind = x.kind /\ y.ins = x.ins /\ y.n = x.n
            /\ y.peel = x.peel /\ y.i1 = x.i1 /\ y.val = x.val /\ y.neg = x.neg
            /\ y.whole = Better(x.whole, Proved(ns, op, f.whole, WholeOf(ns, op)))
            /\ y.part = [i \in DOMAIN x.part |->
                           Better(x.part[i], Proved(ns, op, f.part[i], PartOf(ns, op, i)))]
BY DEF Normalized, Fields, Better, WholeOf, PartOf

\* The select, normalizing or not.
LEMMA SelectJoins ==
  ASSUME NEW ns, NodesFormed(ns), NEW op, OpFormed(op), Applies(ns, op), op.kind = "select"
  PROVE  NodesFormed(Append(ns, Normalized(ns, op, Elementwise(ns, op))))
<1> DEFINE x == Elementwise(ns, op)  y == Normalized(ns, op, x)  f == ns[op.ins[3]]
<1>0. op.kind \in Elementary /\ Arity(op.kind) = 3 /\ {1, 2, 3} \subseteq 1 .. 3
  BY DEF Elementary, Arity
<1>1. NodeIs(ns, f) /\ f.n = ns[op.ins[1]].n
  BY <1>0, OperandsAre
<1>2. Typed(x) /\ Sound(x)
  BY <1>0, ElementwiseTyped
<1>3. x.kind = "select" /\ x.n = f.n /\ x.peel = Len(ns) + 1 /\ x.neg = NoNeg
  <2>1. x.kind = "select" /\ x.n = ns[op.ins[1]].n /\ x.peel = Len(ns) + 1
    BY DEF Elementwise
  <2>2. x.neg = NoNeg
    BY DEF Elementwise
  <2> QED  BY <1>1, <2>1, <2>2
<1>4. /\ DOMAIN y = Fields /\ y.kind = x.kind /\ y.n = x.n
      /\ y.peel = x.peel /\ y.i1 = x.i1 /\ y.val = x.val /\ y.neg = x.neg
      /\ y.whole = Better(x.whole, Proved(ns, op, f.whole, WholeOf(ns, op)))
      /\ y.part = [i \in DOMAIN x.part |->
                     Better(x.part[i], Proved(ns, op, f.part[i], PartOf(ns, op, i)))]
  <2>1. DOMAIN x = Fields
    BY <1>2 DEF Typed
  <2> HIDE DEF x
  <2> QED  BY <2>1, NormalizedIs
<1>5. ASSUME NEW D \in Offsets(ns, op)
      PROVE  /\ ns[D].n = f.n /\ Typed(ns[D]) /\ Sound(ns[D])
             /\ \A e \in Inputs : \A i \in 1 .. Size(f) :
                  f.val[e][i] \in Int /\ ns[D].val[e][i] \in Int
  <2>1. /\ ns[D].n = f.n /\ NodeIs(ns, ns[D])
        /\ \A e \in Inputs : \A i \in 1 .. Size(f) :
             f.val[e][i] \in Int /\ ns[D].val[e][i] \in Int
    BY OffsetsAre
  <2> QED  BY <2>1 DEF NodeIs
<1>6. /\ WholeOf(ns, op) \in [Offsets(ns, op) -> RangeSet]
      /\ \A i \in 1 .. Parts(f.n) : PartOf(ns, op, i) \in [Offsets(ns, op) -> RangeSet]
  BY <1>5 DEF WholeOf, PartOf, Typed
<1>7. /\ f.whole \in RangeSet /\ f.part \in [1 .. Parts(f.n) -> RangeSet] /\ Sound(f)
      /\ x.part \in [1 .. Parts(f.n) -> RangeSet] /\ x.whole \in RangeSet
      /\ Size(x) = Size(f) /\ Size(y) = Size(f)
  BY <1>1, <1>2, <1>3, <1>4 DEF NodeIs, Typed, Size
<1> HIDE DEF x, y, f
<1>8. y.whole \in RangeSet
  <2>1. Proved(ns, op, f.whole, WholeOf(ns, op)) \subseteq RangeSet
    BY <1>6, ProvedTyped
  <2> QED  BY <1>4, <1>7, <2>1, BetterHolds
<1>9. y.part \in [1 .. Parts(f.n) -> RangeSet]
  <2>1. ASSUME NEW i \in 1 .. Parts(f.n)
        PROVE  Better(x.part[i], Proved(ns, op, f.part[i], PartOf(ns, op, i))) \in RangeSet
    <3>1. Proved(ns, op, f.part[i], PartOf(ns, op, i)) \subseteq RangeSet
      BY <1>6, ProvedTyped
    <3> QED  BY <1>7, <3>1, BetterHolds
  <2> QED  BY <1>4, <1>7, <2>1
<1>10. Typed(y)
  BY <1>2, <1>3, <1>4, <1>7, <1>8, <1>9 DEF Typed
<1>11. ASSUME NEW e \in Inputs, NEW i \in 1 .. Size(y)
       PROVE  /\ Within(y.val[e][i], y.whole)
              /\ i \in DOMAIN y.part => Within(y.val[e][i], y.part[i])
  <2>0. i \in 1 .. Size(f) /\ i \in 1 .. Size(x) /\ y.val[e][i] = x.val[e][i]
    BY <1>4, <1>7
  <2>1. Within(y.val[e][i], y.whole)
    <3>1. \A D \in Offsets(ns, op) : Within(ns[D].val[e][i], WholeOf(ns, op)[D])
      <4>1. ASSUME NEW D \in Offsets(ns, op)
            PROVE  Within(ns[D].val[e][i], WholeOf(ns, op)[D])
        <5>1. Sound(ns[D]) /\ i \in 1 .. Size(ns[D])
          BY <1>5, <2>0 DEF Size
        <5> QED  BY <5>1 DEF Sound, WholeOf
      <4> QED  BY <4>1
    <3>2. Within(f.val[e][i], f.whole)
      BY <1>7, <2>0 DEF Sound
    <3>3. \A r \in Proved(ns, op, f.whole, WholeOf(ns, op)) : Within(x.val[e][i], r)
      BY <1>6, <1>7, <2>0, <3>1, <3>2, ProvedHolds DEF x, f
    <3>4. Within(x.val[e][i], x.whole)
      BY <1>2, <2>0 DEF Sound
    <3>5. y.whole \in {x.whole} \cup Proved(ns, op, f.whole, WholeOf(ns, op))
      BY <1>4, BetterHolds
    <3> QED  BY <2>0, <3>3, <3>4, <3>5
  <2>2. ASSUME i \in DOMAIN y.part  PROVE Within(y.val[e][i], y.part[i])
    <3>0. i \in 1 .. Parts(f.n) /\ i \in DOMAIN f.part /\ i \in DOMAIN x.part
      BY <1>7, <1>9, <2>2
    <3>1. \A D \in Offsets(ns, op) : Within(ns[D].val[e][i], PartOf(ns, op, i)[D])
      <4>1. ASSUME NEW D \in Offsets(ns, op)
            PROVE  Within(ns[D].val[e][i], PartOf(ns, op, i)[D])
        <5>1. Sound(ns[D]) /\ i \in 1 .. Size(ns[D]) /\ i \in DOMAIN ns[D].part
          BY <1>5, <2>0, <3>0 DEF Size, Typed
        <5> QED  BY <5>1 DEF Sound, PartOf
      <4> QED  BY <4>1
    <3>2. Within(f.val[e][i], f.part[i]) /\ f.part[i] \in RangeSet
      BY <1>7, <2>0, <3>0 DEF Sound
    <3>3. \A r \in Proved(ns, op, f.part[i], PartOf(ns, op, i)) : Within(x.val[e][i], r)
      <4>1. PartOf(ns, op, i) \in [Offsets(ns, op) -> RangeSet]
        BY <1>6, <3>0
      <4> QED  BY <2>0, <3>1, <3>2, <4>1, ProvedHolds DEF x, f
    <3>4. Within(x.val[e][i], x.part[i])
      BY <1>2, <2>0, <3>0 DEF Sound
    <3>5. y.part[i] \in {x.part[i]} \cup Proved(ns, op, f.part[i], PartOf(ns, op, i))
      <4>1. y.part[i] = Better(x.part[i], Proved(ns, op, f.part[i], PartOf(ns, op, i)))
        BY <1>4, <3>0
      <4> QED  BY <4>1, BetterHolds
    <3> QED  BY <2>0, <3>3, <3>4, <3>5
  <2> QED  BY <2>1, <2>2
<1>12. Sound(y)
  BY <1>11 DEF Sound
<1>13. NegIs(ns, y) /\ OpIs(ns, y)
  BY <1>3, <1>4 DEF NegIs, OpIs, NoNeg
<1>14. NodesFormed(Append(ns, y))
  BY <1>3, <1>4, <1>10, <1>12, <1>13, NodeJoins
<1> QED  BY <1>14 DEF y, x

---------------------------------------------------------------------------
(* Every node, and so what a scatter is told.                              *)
LEMMA NodeGrows ==
  ASSUME NEW ns, NodesFormed(ns), NEW op, OpFormed(op), Applies(ns, op)
  PROVE  NodesFormed(Append(ns, Node(ns, op)))
<1>1. CASE op.kind \in {"constant", "iota", "arg"}
  <2>1. Node(ns, op) = Leaf(ns, op)
    BY <1>1, Zenon DEF Node
  <2>2. LeafFormed(op)
    BY <1>1 DEF OpFormed
  <2> QED  BY <1>1, <2>1, <2>2, LeafJoins
<1>2. CASE op.kind \in {"broadcast", "reshape"}
  <2>1. Node(ns, op) = Viewed(ns, op)
    <3>1. op.kind \in {"broadcast", "reshape", "spread"} /\ op.kind \notin {"constant", "iota", "arg"}
      BY <1>2
    <3> QED  BY <3>1, Zenon DEF Node
  <2> QED  BY <1>2, <2>1, ViewJoins
<1>3. CASE op.kind = "concatenate"
  <2>1. Node(ns, op) = Joined(ns, op)
    BY <1>3 DEF Node
  <2> QED  BY <1>3, <2>1, ConcatenationJoins
<1>4. CASE op.kind = "select"
  <2>1. Node(ns, op) = Normalized(ns, op, Elementwise(ns, op))
    BY <1>4 DEF Node
  <2> QED  BY <1>4, <2>1, SelectJoins
<1>5. CASE op.kind \in Elementary \ {"select"}
  <2>1. Node(ns, op) = Elementwise(ns, op)
    BY <1>5 DEF Node, Elementary
  <2> QED  BY <1>5, <2>1, ElementwiseJoins
<1> QED  BY <1>1, <1>2, <1>3, <1>4, <1>5 DEF OpFormed, Elementary

\* With sound ranges, an index that is called in bounds is.
LEMMA SoundDropsNothing ==
  ASSUME NodesFormed(nodes)
  PROVE  NothingDropped
<1>1. ASSUME NEW k \in DOMAIN nodes, NEW bound \in 0 .. 3, ~ nodes[k].i1,
             ScatterIndicesInBounds(nodes[k], bound), NEW e \in Inputs, NEW i \in 1 .. Size(nodes[k])
      PROVE  nodes[k].val[e][i] \in 0 .. bound
  <2> DEFINE x == nodes[k]
  <2>1. Typed(x) /\ Sound(x)
    BY DEF NodesFormed, NodesAre, NodeIs
  <2>2. \A r \in RangeSet : Within(x.val[e][i], r) /\ InBounds(r, bound) => x.val[e][i] \in 0 .. bound
    <3>1. x.val[e][i] \in IF x.i1 THEN {0, 1} ELSE Int
      BY <2>1 DEF Typed
    <3>2. x.val[e][i] \in Int
      BY <1>1, <3>1
    <3> DEFINE v == x.val[e][i]
    <3> HIDE DEF v
    <3>3. v \in Int
      BY <3>2 DEF v
    <3> SUFFICES ASSUME NEW r \in RangeSet, Within(v, r), InBounds(r, bound)
                 PROVE  v \in 0 .. bound
      BY DEF v
    <3> QED  BY <3>3 DEF InBounds, Within, RangeSet
  <2> HIDE DEF x
  <2>3. CASE InBounds(x.whole, bound)
    BY <2>1, <2>2, <2>3 DEF Typed, Sound, x
  <2>4. CASE x.part # <<>> /\ \A j \in DOMAIN x.part : InBounds(x.part[j], bound)
    <3>1. i \in DOMAIN x.part /\ x.part[i] \in RangeSet
      <4>1. x.part \in [1 .. Parts(x.n) -> RangeSet] /\ x.n \in Nat
        BY <2>1 DEF Typed
      <4>2. Parts(x.n) # 0
        <5> SUFFICES ASSUME Parts(x.n) = 0  PROVE x.part = <<>>
          BY <2>4
        <5>1. 1 .. 0 = {}
          OBVIOUS
        <5>2. DOMAIN x.part = {} /\ x.part = [j \in DOMAIN x.part |-> x.part[j]]
          BY <4>1, <5>1
        <5> QED  BY <5>1, <5>2
      <4>3. Parts(x.n) = Size(x)
        BY <4>1, <4>2 DEF Parts, Size
      <4> QED  BY <4>1, <4>3 DEF x
    <3> QED  BY <2>1, <2>2, <2>4, <3>1 DEF Sound, x
  <2>5. x = nodes[k]
    BY DEF x
  <2>6. ScatterIndicesInBounds(x, bound)
    BY <1>1, <2>5
  <2> QED  BY <2>3, <2>4, <2>5, <2>6 DEF ScatterIndicesInBounds
<1> QED  BY <1>1 DEF NothingDropped

(* A scatter that is told it drops nothing drops nothing (RangeOfIndex,
   NegPredicate, ScatterIndicesInBounds), for index expressions of any length
   over any contents of the inputs. *)
THEOREM NothingIsDropped == ExpressionsFormed => (RangeSpec => []NothingDropped)
<1> DEFINE Inv == suite \in DOMAIN Expressions /\ NodesFormed(nodes)
<1> SUFFICES ASSUME ExpressionsFormed PROVE RangeSpec => []NothingDropped
  OBVIOUS
<1>1. RangeInit => Inv
  BY DEF RangeInit, NodesFormed, NodesAre
<1>2. Inv /\ [RangeNext]_rangeVars => Inv'
  <2> SUFFICES ASSUME Inv, [RangeNext]_rangeVars PROVE Inv'
    OBVIOUS
  <2>1. CASE UNCHANGED rangeVars
    BY <2>1 DEF rangeVars
  <2>2. CASE Grow
    <3> DEFINE s == Expressions[suite]
    <3>1. PICK op \in NextOps : Applies(nodes, op) /\ nodes' = Append(nodes, Node(nodes, op))
      BY <2>2 DEF Grow
    <3>2. UNCHANGED suite /\ Len(nodes) < Limit
      BY <2>2 DEF Grow
    <3>3. Len(nodes) \in Nat
      BY DEF NodesFormed
    <3>4. /\ s.grow \in Nat /\ s.prelude \in Seq({o \in Range(s.prelude) : OpFormed(o)})
          /\ \A k \in Len(s.prelude) .. Len(s.prelude) + s.grow - 1 : \A o \in s.ops[k] : OpFormed(o)
      BY DEF ExpressionsFormed
    <3>5. OpFormed(op)
      <4>1. CASE Len(nodes) < Len(s.prelude)
        <5>1. op = s.prelude[Len(nodes) + 1]
          BY <3>1, <4>1 DEF NextOps
        <5>2. s.prelude[Len(nodes) + 1] \in {o \in Range(s.prelude) : OpFormed(o)}
          <6> DEFINE R == {o \in Range(s.prelude) : OpFormed(o)}
          <6>1. s.prelude \in Seq(R)
            BY <3>4
          <6> HIDE DEF R
          <6>2. s.prelude[Len(nodes) + 1] \in R
            BY <3>3, <4>1, <6>1
          <6> QED  BY <6>2 DEF R
        <5> QED  BY <5>1, <5>2
      <4>2. CASE ~ Len(nodes) < Len(s.prelude)
        <5>1. op \in s.ops[Len(nodes)]
          BY <3>1, <4>2 DEF NextOps
        <5>2. Len(nodes) \in Len(s.prelude) .. Len(s.prelude) + s.grow - 1
          BY <3>2, <3>3, <3>4, <4>2 DEF Limit
        <5> QED  BY <3>4, <5>1, <5>2
      <4> QED  BY <4>1, <4>2
    <3>6. NodesFormed(nodes')
      BY <3>1, <3>5, NodeGrows
    <3> QED  BY <3>2, <3>6
  <2>3. CASE Grown
    BY <2>3 DEF Grown, rangeVars
  <2> QED  BY <2>1, <2>2, <2>3 DEF RangeNext
<1>3. Inv => NothingDropped
  BY SoundDropsNothing
<1> QED  BY <1>1, <1>2, <1>3, PTL DEF RangeSpec

---------------------------------------------------------------------------
(* Gathers and scatters.                                                   *)

\* The recursion that lists the dimensions outside S has a function, and the
\* list is its last value.
Keeps(f, n, S) ==
  /\ f \in [0 .. n -> Seq(Int)] /\ f[0] = <<>>
  /\ \A k \in 1 .. n : f[k] = IF k - 1 \in S THEN f[k - 1] ELSE Append(f[k - 1], k - 1)

\* The recursion has a function.
LEMMA KeptAs ==
  ASSUME NEW n \in Nat, NEW S
  PROVE  \E f : Keeps(f, n, S) /\ Kept(n, S) = f[n]
<1> DEFINE Q == Seq(Int)
           step == [p \in Q \X (1 .. n) |-> IF p[2] - 1 \in S THEN p[1] ELSE Append(p[1], p[2] - 1)]
           Lists(f) == f = [k \in 0 .. n |-> IF k = 0 THEN <<>>
                              ELSE IF k - 1 \in S THEN f[k - 1] ELSE Append(f[k - 1], k - 1)]
           g == CHOOSE f : Lists(f)
<1>1. \A s \in Q, k \in 1 .. n : Append(s, k - 1) \in Q
  OBVIOUS
<1>2. step \in [Q \X (1 .. n) -> Q]
  BY <1>1
<1>3. \A s \in Q, k \in 1 .. n : step[<<s, k>>] = IF k - 1 \in S THEN s ELSE Append(s, k - 1)
  OBVIOUS
<1>4. <<>> \in Q
  OBVIOUS
<1> HIDE DEF step, Q
<1>5. PICK f \in [0 .. n -> Q] : Chained(f, <<>>, step, n)
  BY <1>2, <1>4, Chain, Zenon
<1>6. ASSUME NEW k \in 1 .. n
      PROVE  f[k] = IF k - 1 \in S THEN f[k - 1] ELSE Append(f[k - 1], k - 1)
  <2>1. f[k] = step[<<f[k - 1], k>>] /\ k - 1 \in 0 .. n
    BY <1>5 DEF Chained
  <2>2. f[k - 1] \in Q
    BY <1>5, <2>1
  <2> QED
    BY <1>3, <2>1, <2>2
<1>7. f[0] = <<>>
  BY <1>5 DEF Chained
<1>8. Lists(f)
  <2>1. \A k \in 0 .. n : k = 0 \/ k \in 1 .. n
    OBVIOUS
  <2> QED
    BY <1>5, <1>6, <1>7, <2>1
<1>9. Kept(n, S) = g[n]
  BY DEF Kept
<1>10. Lists(g)
  <2> HIDE DEF Lists
  <2> QED
    BY <1>8
<1> HIDE DEF g
<1>11. \A k \in 0 .. n : g[k] = f[k]
  <2> DEFINE T == {k \in 0 .. n : g[k] = f[k]}
  <2>1. 0 \in T
    BY <1>10, <1>7
  <2>2. ASSUME NEW k \in 0 .. n - 1, k \in T
        PROVE  k + 1 \in T
    <3>1. k + 1 \in 1 .. n /\ k + 1 \in 0 .. n /\ k + 1 # 0 /\ (k + 1) - 1 = k /\ g[k] = f[k]
      BY <2>2
    <3>2. g[k + 1] = IF k \in S THEN g[k] ELSE Append(g[k], k)
      BY <1>10, <3>1
    <3>3. f[k + 1] = IF k \in S THEN f[k] ELSE Append(f[k], k)
      BY <1>6, <3>1
    <3> QED
      BY <3>1, <3>2, <3>3
  <2> HIDE DEF T
  <2>3. \A k \in 0 .. n : k \in T
    BY <2>1, <2>2, InductTo, Zenon
  <2> QED
    BY <2>3 DEF T
<1>12. Keeps(f, n, S)
  BY <1>5, <1>6, <1>7 DEF Keeps, Q
<1>13. Kept(n, S) = f[n]
  BY <1>9, <1>11
<1> HIDE DEF Lists
<1> QED
  BY <1>12, <1>13

\* What is kept of n dimensions: those outside S, in order.
InOrder(K, n, S) ==
  /\ K \in Seq(0 .. n - 1)
  /\ \A i \in DOMAIN K : K[i] \notin S
  /\ \A i, j \in DOMAIN K : i < j => K[i] < K[j]
  /\ \A d \in 0 .. n - 1 : d \notin S => Has(K, d)

\* The list of the dimensions that are kept is in order and misses none.
LEMMA KeptIs ==
  ASSUME NEW n \in Nat, NEW S
  PROVE  InOrder(Kept(n, S), n, S)
<1>1. PICK f : Keeps(f, n, S) /\ Kept(n, S) = f[n]
  BY KeptAs
<1> DEFINE T == {k \in 0 .. n : InOrder(f[k], k, S)}
<1>2. 0 \in T
  BY <1>1 DEF Keeps, InOrder
<1>3. ASSUME NEW k \in 0 .. n - 1, k \in T
      PROVE  k + 1 \in T
  <2> DEFINE K == f[k]  L == f[k + 1]
  <2>1. k + 1 \in 1 .. n /\ (k + 1) - 1 = k
    OBVIOUS
  <2>2. L = IF k \in S THEN K ELSE Append(K, k)
    BY <1>1, <2>1 DEF Keeps
  <2>3. InOrder(K, k, S)
    BY <1>3
  <2> HIDE DEF K, L
  <2>4. K \in Seq(0 .. k) /\ Len(K) \in Nat /\ DOMAIN K = 1 .. Len(K) /\ \A i \in DOMAIN K : K[i] \in 0 .. k - 1
    BY <2>3 DEF InOrder
  <2>5. CASE k \in S
    <3>1. L = K
      BY <2>2, <2>5
    <3>2. \A d \in 0 .. k : d \notin S => d \in 0 .. k - 1
      BY <2>5
    <3>3. InOrder(L, k + 1, S)
      BY <2>3, <2>4, <3>1, <3>2 DEF InOrder
    <3> QED
      BY <3>3 DEF L
  <2>6. CASE k \notin S
    <3>1. L = Append(K, k)
      BY <2>2, <2>6
    <3>2. L \in Seq(0 .. k) /\ DOMAIN L = 1 .. Len(K) + 1 /\ L[Len(K) + 1] = k
      BY <2>4, <3>1
    <3>3. \A i \in 1 .. Len(K) : L[i] = K[i]
      BY <2>4, <3>1
    <3>4. \A i \in DOMAIN L : L[i] \notin S
      BY <2>3, <2>4, <2>6, <3>2, <3>3 DEF InOrder
    <3>5. \A i, j \in DOMAIN L : i < j => L[i] < L[j]
      <4> SUFFICES ASSUME NEW i \in DOMAIN L, NEW j \in DOMAIN L, i < j
                   PROVE  L[i] < L[j]
        OBVIOUS
      <4>1. i \in 1 .. Len(K) /\ L[i] = K[i] /\ K[i] \in 0 .. k - 1
        BY <2>4, <3>2, <3>3
      <4>2. CASE j = Len(K) + 1
        BY <3>2, <4>1, <4>2
      <4>3. CASE j # Len(K) + 1
        <5>1. j \in 1 .. Len(K) /\ L[j] = K[j]
          BY <2>4, <3>2, <3>3, <4>3
        <5> QED
          BY <2>3, <2>4, <4>1, <5>1 DEF InOrder
      <4> QED
        BY <4>2, <4>3
    <3>6. ASSUME NEW d \in 0 .. k, d \notin S
          PROVE  Has(L, d)
      <4>1. CASE d = k
        BY <2>4, <3>2, <4>1 DEF Has
      <4>2. CASE d # k
        <5>1. PICK i \in DOMAIN K : K[i] = d
          BY <2>3, <3>6, <4>2 DEF InOrder, Has
        <5> QED
          BY <2>4, <3>2, <3>3, <5>1 DEF Has
      <4> QED
        BY <4>1, <4>2
    <3>7. InOrder(L, k + 1, S)
      BY <3>2, <3>4, <3>5, <3>6 DEF InOrder
    <3> QED
      BY <3>7 DEF L
  <2> QED
    BY <2>5, <2>6
<1> HIDE DEF T
<1>4. \A k \in 0 .. n : k \in T
  BY <1>2, <1>3, InductTo, Zenon
<1> QED
  BY <1>1, <1>4 DEF T

\* Without one dimension, or none.
LEMMA KeptButOne ==
  ASSUME NEW n \in Nat, NEW v \in 0 .. n
  PROVE  Kept(n, {v}) = [i \in 1 .. (IF v = n THEN n ELSE n - 1) |-> IF i <= v THEN i - 1 ELSE i]
<1>1. PICK f : Keeps(f, n, {v}) /\ Kept(n, {v}) = f[n]
  BY KeptAs
<1> DEFINE upto(k) == IF k <= v THEN k ELSE k - 1
           T == {k \in 0 .. n : f[k] = [i \in 1 .. upto(k) |-> IF i <= v THEN i - 1 ELSE i]}
<1>2. 0 \in T
  BY <1>1 DEF Keeps
<1>3. ASSUME NEW k \in 0 .. n - 1, k \in T
      PROVE  k + 1 \in T
  <2> DEFINE K == f[k]  L == f[k + 1]
  <2>1. k + 1 \in 1 .. n /\ (k + 1) - 1 = k /\ K \in Seq(Int)
    BY <1>1 DEF Keeps
  <2>2. L = IF k = v THEN K ELSE Append(K, k)
    BY <1>1, <2>1 DEF Keeps
  <2>3. K = [i \in 1 .. upto(k) |-> IF i <= v THEN i - 1 ELSE i]
    BY <1>3
  <2> HIDE DEF K, L
  <2>4. CASE k = v
    <3>1. upto(k + 1) = upto(k) /\ L = K
      BY <2>2, <2>4
    <3> QED
      BY <2>3, <3>1 DEF L
  <2>5. CASE k # v
    <3>1. upto(k) \in Nat /\ upto(k + 1) = upto(k) + 1 /\ L = Append(K, k)
      BY <2>2, <2>5
    <3>2. Len(K) = upto(k)
      BY <2>3, <2>1, <3>1
    <3>3. k = IF upto(k + 1) <= v THEN upto(k + 1) - 1 ELSE upto(k + 1)
      BY <2>5
    <3> HIDE DEF upto
    <3>4. L = [i \in 1 .. upto(k) + 1 |-> IF i = upto(k) + 1 THEN k ELSE K[i]]
      <4>1. L \in Seq(Int) /\ Len(L) = Len(K) + 1 /\ L[Len(K) + 1] = k
        BY <2>1, <3>1
      <4>2. \A i \in 1 .. Len(K) : L[i] = K[i]
        BY <2>1, <3>1
      <4>3. L = [i \in 1 .. Len(L) |-> L[i]]
        BY <4>1
      <4>4. \A i \in 1 .. Len(L) : L[i] = IF i = upto(k) + 1 THEN k ELSE K[i]
        BY <3>1, <3>2, <4>1, <4>2
      <4> QED
        BY <3>2, <4>1, <4>3, <4>4
    <3>5. L = [i \in 1 .. upto(k + 1) |-> IF i <= v THEN i - 1 ELSE i]
      <4>1. \A i \in 1 .. upto(k) + 1 : i # upto(k) + 1 =>
              i \in 1 .. upto(k) /\ K[i] = IF i <= v THEN i - 1 ELSE i
        BY <2>3, <3>1
      <4>2. \A i \in 1 .. upto(k) + 1 :
              (IF i = upto(k) + 1 THEN k ELSE K[i]) = IF i <= v THEN i - 1 ELSE i
        BY <3>1, <3>3, <4>1
      <4> QED
        BY <3>1, <3>4, <4>2
    <3> QED
      BY <3>5 DEF L
  <2> QED
    BY <2>4, <2>5
<1> HIDE DEF T
<1>4. \A k \in 0 .. n : k \in T
  BY <1>2, <1>3, InductTo, Zenon
<1>5. upto(n) = IF v = n THEN n ELSE n - 1
  OBVIOUS
<1>6. n \in T
  BY <1>4
<1>7. f[n] = [i \in 1 .. upto(n) |-> IF i <= v THEN i - 1 ELSE i]
  <2> HIDE DEF upto
  <2> QED
    BY <1>6 DEF T
<1> HIDE DEF upto
<1> QED
  BY <1>1, <1>5, <1>7

\* Where something is in a sequence without repetitions.
LEMMA AtIs ==
  ASSUME NEW s, NEW v, Has(s, v)
  PROVE  At(s, v) \in DOMAIN s /\ s[At(s, v)] = v
BY DEF At, Has

\* An element of a sequence without repetitions is at its own position.
LEMMA AtOf ==
  ASSUME NEW s, Distinct(s), NEW i \in DOMAIN s
  PROVE  Has(s, s[i]) /\ At(s, s[i]) = i
<1>1. Has(s, s[i])
  BY DEF Has
<1> QED
  BY <1>1, AtIs DEF Distinct

\* What is in order repeats nothing.
LEMMA InOrderDistinct ==
  ASSUME NEW n \in Nat, NEW K, NEW S, InOrder(K, n, S)
  PROVE  Distinct(K)
<1> SUFFICES ASSUME NEW i \in DOMAIN K, NEW j \in DOMAIN K, i # j
             PROVE  K[i] # K[j]
  BY DEF Distinct
<1>1. i \in Nat /\ j \in Nat /\ K[i] \in Int /\ K[j] \in Int
  BY DEF InOrder
<1>2. i < j \/ j < i
  BY <1>1
<1> QED
  BY <1>1, <1>2 DEF InOrder

\* The shape of an array, with its rank named.
LEMMA Spanned ==
  ASSUME NEW S, NEW s \in Seq(S)
  PROVE  \E n \in Nat : Len(s) = n /\ DOMAIN s = 1 .. n /\ s \in [1 .. n -> S]
<1>1. Len(s) \in Nat /\ DOMAIN s = 1 .. Len(s) /\ s \in [1 .. Len(s) -> S]
  OBVIOUS
<1> QED
  BY <1>1

\* The coordinates of an array are all that are below its dimensions.
LEMMA CoordsAre ==
  ASSUME NEW s \in Seq(Nat)
  PROVE  Coords(s) = Box(s)
<1> DEFINE n == Len(s)
           Top(k, m) == /\ m \in Nat \ {0} /\ (m = 1 \/ \E i \in 1 .. k : s[i] = m)
                        /\ \A i \in 1 .. k : s[i] <= m
           T == {k \in 0 .. n : \E m \in Nat : Top(k, m)}
<1>1. n \in Nat /\ DOMAIN s = 1 .. n /\ \A i \in 1 .. n : s[i] \in Nat
  OBVIOUS
<1>2. 0 \in T
  <2>1. Top(0, 1)
    OBVIOUS
  <2> QED
    BY <1>1, <2>1
<1>3. ASSUME NEW k \in 0 .. n - 1, k \in T
      PROVE  k + 1 \in T
  <2>1. PICK m \in Nat : Top(k, m)
    BY <1>3
  <2> DEFINE p == IF s[k + 1] >= m THEN s[k + 1] ELSE m
  <2>2. Top(k + 1, p)
    BY <1>1, <2>1
  <2>3. p \in Nat
    BY <2>2
  <2> HIDE DEF Top, p
  <2> QED
    BY <1>1, <2>2, <2>3
<1> HIDE DEF T
<1>4. \A k \in 0 .. n : k \in T
  BY <1>1, <1>2, <1>3, InductTo, Zenon
<1>5. PICK m \in Nat : Top(n, m)
  <2>1. n \in T
    BY <1>1, <1>4
  <2> HIDE DEF Top
  <2> QED
    BY <2>1 DEF T
<1> DEFINE all == {1} \cup ToSet(s)
<1>6. Max(all) = m
  <2>1. \A y \in all : y \in Int /\ m >= y
    BY <1>1, <1>5 DEF ToSet
  <2>2. m \in all
    BY <1>1, <1>5 DEF ToSet
  <2> HIDE DEF all
  <2>3. all \in SUBSET Int
    BY <2>1
  <2> QED
    BY <2>1, <2>2, <2>3, GreatestIs
<1>7. ASSUME NEW c \in Box(s)
      PROVE  c \in Coords(s)
  <2>1. c \in [1 .. n -> Nat] /\ \A d \in 1 .. n : c[d] < s[d]
    BY <1>1 DEF Box
  <2>2. \A d \in 1 .. n : c[d] \in 0 .. m - 1
    BY <1>1, <1>5, <2>1
  <2>3. c \in [1 .. n -> 0 .. m - 1]
    BY <2>1, <2>2
  <2> QED
    BY <1>1, <1>6, <2>1, <2>3 DEF Coords
<1>8. Coords(s) \subseteq Box(s)
  BY <1>1, <1>5, <1>6 DEF Coords, Box
<1> QED
  BY <1>7, <1>8

\* The index entries of a plan that is not refused: one per component of the
\* index vector, then one per batching dimension; or a zero.
EntryOf(x, sizes, j) ==
  [kind |-> "component", k |-> j - 1, axis |-> x.map[j], pos |-> 0,
   top |-> Max({x.opShape[x.map[j] + 1] - sizes[x.map[j] + 1], 0})]
IotaOf(x, i) ==
  [kind |-> "iota", k |-> 0, axis |-> x.opBatching[i],
   pos |-> At(BatchDims(x.idxShape, x.ivd), x.idxBatching[i]), top |-> 0]
NoEntry == [kind |-> "zero", k |-> 0, axis |-> 0, pos |-> 0, top |-> 0]

Planned(x, sizes, plan) ==
  /\ DOMAIN plan.entries = 1 .. Len(plan.entries) /\ Len(plan.entries) \in Nat \ {0}
  /\ \A j \in DOMAIN x.map : j \in DOMAIN plan.entries /\ plan.entries[j] = EntryOf(x, sizes, j)
  /\ \A i \in DOMAIN x.opBatching :
       Len(x.map) + i \in DOMAIN plan.entries /\ plan.entries[Len(x.map) + i] = IotaOf(x, i)
  /\ \A e \in DOMAIN plan.entries :
       \/ e \in DOMAIN x.map
       \/ \E i \in DOMAIN x.opBatching : e = Len(x.map) + i
       \/ x.map = <<>> /\ x.opBatching = <<>> /\ plan.entries[e] = NoEntry
  /\ \A e, f \in DOMAIN plan.entries : e # f => plan.entries[e].axis # plan.entries[f].axis
  /\ x.map = <<>> /\ x.opBatching = <<>> => x.opShape # <<>>
  /\ IF x.ivd = Len(x.idxShape) THEN Len(x.map) = 1 ELSE Len(x.map) = x.idxShape[x.ivd + 1]

\* What BuildIndexPlan does not refuse is planned so.
LEMMA PlanIs ==
  ASSUME NEW x, NEW sizes, IndicesFormed(x), ~ BuildIndexPlan(x, sizes).refused
  PROVE  Planned(x, sizes, BuildIndexPlan(x, sizes))
<1> DEFINE plan == BuildIndexPlan(x, sizes)
           mapped == [j \in DOMAIN x.map |-> EntryOf(x, sizes, j)]
           iotas == [i \in DOMAIN x.opBatching |-> IotaOf(x, i)]
           both == mapped \o iotas
           entries == IF both = <<>> THEN <<NoEntry>> ELSE both
<1>1. /\ plan.entries = entries
      /\ IF x.ivd = Len(x.idxShape) THEN Len(x.map) = 1 ELSE Len(x.map) = x.idxShape[x.ivd + 1]
      /\ ~ (both = <<>> /\ x.opShape = <<>>)
      /\ ~ \E i, j \in DOMAIN entries : i # j /\ entries[i].axis = entries[j].axis
  BY DEF BuildIndexPlan, EntryOf, IotaOf, NoEntry
<1>2. PICK m \in Nat : Len(x.map) = m /\ DOMAIN x.map = 1 .. m /\ (x.map = <<>> <=> m = 0)
  BY DEF IndicesFormed
<1>3. PICK k \in Nat : Len(x.opBatching) = k /\ DOMAIN x.opBatching = 1 .. k
                       /\ (x.opBatching = <<>> <=> k = 0)
  BY DEF IndicesFormed
<1>4. /\ DOMAIN both = 1 .. m + k /\ Len(both) = m + k /\ (both = <<>> <=> m + k = 0)
      /\ \A j \in 1 .. m : both[j] = EntryOf(x, sizes, j)
      /\ \A i \in 1 .. k : both[m + i] = IotaOf(x, i)
  <2> DEFINE V == {EntryOf(x, sizes, j) : j \in 1 .. m} \cup {IotaOf(x, i) : i \in 1 .. k}
  <2>1. mapped \in [1 .. m -> V] /\ iotas \in [1 .. k -> V]
    BY <1>2, <1>3
  <2>2. \A j \in 1 .. m : mapped[j] = EntryOf(x, sizes, j)
    BY <1>2
  <2>3. \A i \in 1 .. k : iotas[i] = IotaOf(x, i)
    BY <1>3
  <2> HIDE DEF V, mapped, iotas
  <2>4. mapped \in Seq(V) /\ iotas \in Seq(V) /\ Len(mapped) = m /\ Len(iotas) = k
    BY <2>1
  <2> DEFINE J == mapped \o iotas
  <2>5. J \in Seq(V) /\ Len(J) = m + k
    BY <2>4
  <2>6. (\A i \in 1 .. m : J[i] = mapped[i]) /\ \A i \in 1 .. k : J[m + i] = iotas[i]
    BY <2>4
  <2> HIDE DEF J
  <2>7. DOMAIN J = 1 .. m + k /\ (J = <<>> <=> m + k = 0)
    BY <2>5
  <2> QED
    BY <2>2, <2>3, <2>5, <2>6, <2>7, Zenon DEF both, J
<1> HIDE DEF both, plan
<1>5. CASE m + k = 0
  <2>1. m = 0 /\ k = 0
    BY <1>5
  <2>2. plan.entries = <<NoEntry>>
    BY <1>1, <1>4, <1>5
  <2>3. DOMAIN plan.entries = 1 .. 1 /\ Len(plan.entries) = 1 /\ plan.entries[1] = NoEntry
    BY <2>2
  <2>4. x.map = <<>> /\ x.opBatching = <<>> /\ x.opShape # <<>>
    BY <1>1, <1>2, <1>3, <1>4, <1>5, <2>1
  <2>5. DOMAIN x.map = {} /\ DOMAIN x.opBatching = {}
    BY <1>2, <1>3, <2>1
  <2> QED
    <3>1. DOMAIN plan.entries = 1 .. Len(plan.entries) /\ Len(plan.entries) \in Nat \ {0}
      BY <2>3
    <3>2. \A e \in DOMAIN plan.entries : e = 1 /\ plan.entries[e] = NoEntry
      BY <2>3
    <3>3. \A e, f \in DOMAIN plan.entries : e # f => FALSE
      BY <3>2
    <3> QED
      BY <1>1, <2>4, <2>5, <3>1, <3>2, <3>3, Zenon DEF Planned, plan
<1>6. CASE m + k # 0
  <2>1. plan.entries = both /\ entries = both /\ Len(both) \in Nat \ {0}
    BY <1>1, <1>4, <1>6
  <2>2. \A e \in 1 .. m + k : e \in 1 .. m \/ \E i \in 1 .. k : e = m + i
    <3> SUFFICES ASSUME NEW e \in 1 .. m + k, e \notin 1 .. m
                 PROVE  \E i \in 1 .. k : e = m + i
      OBVIOUS
    <3>1. e - m \in 1 .. k /\ e = m + (e - m)
      OBVIOUS
    <3> QED
      BY <3>1
  <2>3. (\A i \in 1 .. k : m + i \in 1 .. m + k) /\ 1 .. m \subseteq 1 .. m + k
    OBVIOUS
  <2>4. ~ (x.map = <<>> /\ x.opBatching = <<>>)
    BY <1>2, <1>3, <1>6
  <2>5. \A e, f \in DOMAIN both : e # f => both[e].axis # both[f].axis
    <3>1. ~ \E i, j \in DOMAIN entries : i # j /\ entries[i].axis = entries[j].axis
      BY <1>1
    <3> HIDE DEF entries
    <3> QED
      BY <2>1, <3>1, Zenon
  <2> HIDE DEF entries
  <2>6. /\ DOMAIN both = 1 .. Len(both)
        /\ \A j \in DOMAIN x.map : j \in DOMAIN both /\ both[j] = EntryOf(x, sizes, j)
    BY <1>2, <1>4, <2>3
  <2>7. \A i \in DOMAIN x.opBatching : Len(x.map) + i \in DOMAIN both /\ both[Len(x.map) + i] = IotaOf(x, i)
    BY <1>2, <1>3, <1>4, <2>3
  <2>8. \A e \in DOMAIN both : e \in DOMAIN x.map \/ \E i \in DOMAIN x.opBatching : e = Len(x.map) + i
    <3> SUFFICES ASSUME NEW e \in DOMAIN both
                 PROVE  e \in DOMAIN x.map \/ \E i \in DOMAIN x.opBatching : e = Len(x.map) + i
      OBVIOUS
    <3>1. e \in 1 .. m \/ \E i \in 1 .. k : e = m + i
      BY <1>4, <2>2
    <3> QED
      BY <1>2, <1>3, <3>1, Zenon
  <2> QED
    <3>1. DOMAIN plan.entries = 1 .. Len(plan.entries) /\ Len(plan.entries) \in Nat \ {0}
      BY <2>1, <2>6
    <3>2. \A j \in DOMAIN x.map : j \in DOMAIN plan.entries /\ plan.entries[j] = EntryOf(x, sizes, j)
      BY <2>1, <2>6
    <3>3. \A i \in DOMAIN x.opBatching :
             Len(x.map) + i \in DOMAIN plan.entries /\ plan.entries[Len(x.map) + i] = IotaOf(x, i)
      BY <2>1, <2>7
    <3>4. \A e \in DOMAIN plan.entries : e \in DOMAIN x.map \/ \E i \in DOMAIN x.opBatching : e = Len(x.map) + i
      BY <2>1, <2>8
    <3>5. \A e, f \in DOMAIN plan.entries : e # f => plan.entries[e].axis # plan.entries[f].axis
      BY <2>1, <2>5
    <3> QED
      BY <1>1, <2>4, <3>1, <3>2, <3>3, <3>4, <3>5, Zenon DEF Planned, plan
<1> QED
  BY <1>5, <1>6 DEF plan

\* No dimension is indexed twice.
LEMMA AxesDiffer ==
  ASSUME NEW x, NEW sizes, NEW plan, IndicesFormed(x), Planned(x, sizes, plan)
  PROVE  /\ Distinct(x.map) /\ Distinct(x.opBatching)
         /\ \A j \in DOMAIN x.map : ~ Has(x.opBatching, x.map[j])
<1>1. PICK m \in Nat : Len(x.map) = m /\ DOMAIN x.map = 1 .. m
  BY DEF IndicesFormed
<1>2. PICK k \in Nat : Len(x.opBatching) = k /\ DOMAIN x.opBatching = 1 .. k
  BY DEF IndicesFormed
<1>3. \A j \in 1 .. m : j \in DOMAIN plan.entries /\ plan.entries[j].axis = x.map[j]
  <2>1. \A j \in DOMAIN x.map : j \in DOMAIN plan.entries /\ plan.entries[j] = EntryOf(x, sizes, j)
    BY Zenon DEF Planned
  <2>2. \A j \in DOMAIN x.map : EntryOf(x, sizes, j).axis = x.map[j]
    BY DEF EntryOf
  <2> QED
    BY <1>1, <2>1, <2>2, Zenon
<1>4. \A i \in 1 .. k : m + i \in DOMAIN plan.entries /\ plan.entries[m + i].axis = x.opBatching[i]
  <2>1. \A i \in DOMAIN x.opBatching :
          Len(x.map) + i \in DOMAIN plan.entries /\ plan.entries[Len(x.map) + i] = IotaOf(x, i)
    BY Zenon DEF Planned
  <2>2. \A i \in DOMAIN x.opBatching : IotaOf(x, i).axis = x.opBatching[i]
    BY DEF IotaOf
  <2> QED
    BY <1>1, <1>2, <2>1, <2>2, Zenon
<1>5. \A e, f \in DOMAIN plan.entries : e # f => plan.entries[e].axis # plan.entries[f].axis
  BY DEF Planned
<1>8. Distinct(x.map)
  BY <1>1, <1>3, <1>5, Zenon DEF Distinct
<1>9. Distinct(x.opBatching)
  <2> SUFFICES ASSUME NEW i \in 1 .. k, NEW j \in 1 .. k, i # j
               PROVE  x.opBatching[i] # x.opBatching[j]
    BY <1>2 DEF Distinct
  <2>1. m + i # m + j
    OBVIOUS
  <2> QED
    BY <1>4, <1>5, <2>1, Zenon
<1>10. ASSUME NEW j \in DOMAIN x.map, Has(x.opBatching, x.map[j])
       PROVE  FALSE
  <2>1. PICK i \in 1 .. k : x.opBatching[i] = x.map[j]
    BY <1>2, <1>10 DEF Has
  <2>2. j \in 1 .. m /\ j # m + i
    BY <1>1
  <2>3. j \in DOMAIN plan.entries /\ plan.entries[j].axis = x.map[j]
    BY <1>3, <2>2
  <2>4. m + i \in DOMAIN plan.entries /\ plan.entries[m + i].axis = x.opBatching[i]
    BY <1>4
  <2> QED
    BY <1>5, <2>1, <2>2, <2>3, <2>4
<1> QED
  BY <1>8, <1>9, <1>10

\* No dimension is indexed by two entries.
OneEach(plan) ==
  \A e, f \in DOMAIN plan.entries : e # f => plan.entries[e].axis # plan.entries[f].axis

\* A slice starts at its index along an indexed dimension...
LEMMA StartAt ==
  ASSUME NEW plan, NEW index, OneEach(plan), NEW e \in DOMAIN plan.entries,
         NEW d, plan.entries[e].axis = d
  PROVE  Start(plan, index, d) = index[e]
<1> DEFINE es == {i \in DOMAIN plan.entries : plan.entries[i].axis = d}
<1>1. es = {e}
  BY DEF OneEach
<1> HIDE DEF es
<1>2. es # {} /\ (CHOOSE i \in es : TRUE) = e
  BY <1>1
<1> QED
  BY <1>2 DEF Start, es

\* ...and at 0 along one that is not.
LEMMA StartNowhere ==
  ASSUME NEW plan, NEW index, NEW d, \A e \in DOMAIN plan.entries : plan.entries[e].axis # d
  PROVE  Start(plan, index, d) = 0
BY DEF Start

\* The batch of a plan: the index array's dimensions but the one along which
\* the components lie.
Batched(x, batch, nb) ==
  /\ nb = IF x.ivd = Len(x.idxShape) THEN Len(x.idxShape) ELSE Len(x.idxShape) - 1
  /\ batch \in Seq(Nat) /\ DOMAIN batch = 1 .. nb
  /\ BatchDims(x.idxShape, x.ivd) = [i \in 1 .. nb |-> IF i <= x.ivd THEN i - 1 ELSE i]
  /\ \A i \in 1 .. nb : batch[i] = x.idxShape[IF i <= x.ivd THEN i ELSE i + 1]

\* What BuildIndexPlan makes the batch.
LEMMA BatchIs ==
  ASSUME NEW x, NEW sizes, IndicesFormed(x)
  PROVE  \E nb \in Nat : Batched(x, BuildIndexPlan(x, sizes).batch, nb)
<1> DEFINE batch == BuildIndexPlan(x, sizes).batch
           dims == BatchDims(x.idxShape, x.ivd)
<1>1. PICK n \in Nat : Len(x.idxShape) = n /\ DOMAIN x.idxShape = 1 .. n /\ x.idxShape \in [1 .. n -> Nat]
  <2>1. x.idxShape \in Seq(Nat)
    BY DEF IndicesFormed
  <2> QED
    BY <2>1, Spanned, Zenon
<1>2. PICK v \in 0 .. n : x.ivd = v
  BY <1>1 DEF IndicesFormed
<1>3. PICK nb \in Nat : nb = IF v = n THEN n ELSE n - 1
  BY <1>2
<1>4. dims = [i \in 1 .. nb |-> IF i <= v THEN i - 1 ELSE i]
  BY <1>1, <1>2, <1>3, KeptButOne DEF BatchDims
<1>5. batch = [i \in DOMAIN dims |-> x.idxShape[dims[i] + 1]]
  BY DEF BuildIndexPlan
<1> HIDE DEF batch, dims
<1>6. \A i \in 1 .. nb : dims[i] + 1 = (IF i <= v THEN i ELSE i + 1) /\ dims[i] + 1 \in 1 .. n
  BY <1>3, <1>4
<1>7. DOMAIN dims = 1 .. nb
  BY <1>4
<1>8. batch \in [1 .. nb -> Nat] /\ \A i \in 1 .. nb : batch[i] = x.idxShape[IF i <= v THEN i ELSE i + 1]
  BY <1>1, <1>5, <1>6, <1>7
<1>9. batch \in Seq(Nat) /\ DOMAIN batch = 1 .. nb
  BY <1>8
<1>10. Batched(x, batch, nb)
  BY <1>1, <1>2, <1>3, <1>4, <1>8, <1>9 DEF Batched, dims
<1> QED
  BY <1>10 DEF batch

\* The indices are integers.
LEMMA ComponentIs ==
  ASSUME NEW x, NEW sizes, IndicesFormed(x), Planned(x, sizes, BuildIndexPlan(x, sizes)),
         NEW b \in Box(BuildIndexPlan(x, sizes).batch), NEW j \in DOMAIN x.map
  PROVE  Component(x, b, j - 1) \in Int
<1> DEFINE batch == BuildIndexPlan(x, sizes).batch
           c == [i \in 1 .. Len(b) + 1 |->
                  IF i <= x.ivd THEN b[i] ELSE IF i = x.ivd + 1 THEN j - 1 ELSE b[i - 1]]
<1>1. PICK n \in Nat : Len(x.idxShape) = n /\ DOMAIN x.idxShape = 1 .. n /\ x.idxShape \in [1 .. n -> Nat]
  <2>1. x.idxShape \in Seq(Nat)
    BY DEF IndicesFormed
  <2> QED
    BY <2>1, Spanned, Zenon
<1>2. PICK v \in 0 .. n : x.ivd = v
  BY <1>1 DEF IndicesFormed
<1>20. PICK nb \in Nat : Batched(x, batch, nb)
  BY BatchIs
<1>3. /\ nb = (IF v = n THEN n ELSE n - 1) /\ DOMAIN batch = 1 .. nb
      /\ \A i \in 1 .. nb : batch[i] = x.idxShape[IF i <= v THEN i ELSE i + 1]
  <2> HIDE DEF batch
  <2> QED
    BY <1>1, <1>2, <1>20 DEF Batched
<1>4. b \in [1 .. nb -> Nat] /\ \A i \in 1 .. nb : b[i] < batch[i]
  BY <1>3 DEF Box
<1>5. x.idx \in [Box(x.idxShape) -> Int]
  BY CoordsAre DEF IndicesFormed
<1>6. CASE v = n
  <2>1. nb = n /\ \A i \in 1 .. n : b[i] < x.idxShape[i]
    BY <1>3, <1>4, <1>6
  <2>2. b \in Box(x.idxShape)
    BY <1>1, <1>4, <2>1 DEF Box
  <2>3. Component(x, b, j - 1) = x.idx[b]
    BY <1>1, <1>2, <1>6 DEF Component
  <2> QED
    BY <1>5, <2>2, <2>3
<1>7. CASE v # n
  <2>1. nb = n - 1 /\ v \in 0 .. n - 1
    BY <1>3, <1>7
  <2>2. PICK m \in Nat : m = Len(x.map) /\ DOMAIN x.map = 1 .. m /\ x.idxShape[v + 1] = m
    BY <1>1, <1>2, <1>7 DEF IndicesFormed, Planned
  <2>3. Len(b) = n - 1
    BY <1>4, <2>1
  <2>4. c = [i \in 1 .. n |-> IF i <= v THEN b[i] ELSE IF i = v + 1 THEN j - 1 ELSE b[i - 1]]
    BY <1>2, <2>3
  <2>5. ASSUME NEW i \in 1 .. n
        PROVE  c[i] \in Nat /\ c[i] < x.idxShape[i]
    <3>1. c[i] = IF i <= v THEN b[i] ELSE IF i = v + 1 THEN j - 1 ELSE b[i - 1]
      BY <2>4
    <3>2. CASE i <= v
      <4>1. i \in 1 .. nb /\ batch[i] = x.idxShape[i]
        BY <1>3, <2>1, <3>2
      <4> QED
        BY <1>4, <3>1, <3>2, <4>1
    <3>3. CASE i = v + 1
      <4>1. c[i] = j - 1 /\ j \in 1 .. m /\ x.idxShape[i] = m
        BY <2>2, <3>1, <3>3
      <4> QED
        BY <4>1
    <3>4. CASE i > v + 1
      <4>1. i - 1 \in 1 .. nb /\ batch[i - 1] = x.idxShape[i] /\ c[i] = b[i - 1]
        BY <1>3, <2>1, <3>1, <3>4
      <4> QED
        BY <1>4, <4>1
    <3> QED
      BY <3>2, <3>3, <3>4
  <2> HIDE DEF c
  <2>6. c \in Box(x.idxShape)
    BY <1>1, <2>4, <2>5 DEF Box
  <2>7. Component(x, b, j - 1) = x.idx[c]
    BY <1>1, <1>2, <1>7 DEF Component, c
  <2> QED
    BY <1>5, <2>6, <2>7
<1> QED
  BY <1>6, <1>7

\* The batch coordinate of a batching dimension.
LEMMA IotaIs ==
  ASSUME NEW x, NEW sizes, IndicesFormed(x), NEW b \in Box(BuildIndexPlan(x, sizes).batch),
         NEW i \in DOMAIN x.opBatching
  PROVE  LET from == x.idxBatching[i]
             pos == At(BatchDims(x.idxShape, x.ivd), from)
         IN /\ pos = 1 + IF from < x.ivd THEN from ELSE from - 1
            /\ b[pos] \in 0 .. x.opShape[x.opBatching[i] + 1] - 1
<1> DEFINE batch == BuildIndexPlan(x, sizes).batch
           dims == BatchDims(x.idxShape, x.ivd)
           from == x.idxBatching[i]
           pos == 1 + IF from < x.ivd THEN from ELSE from - 1
<1>1. PICK n \in Nat : Len(x.idxShape) = n /\ DOMAIN x.idxShape = 1 .. n /\ x.idxShape \in [1 .. n -> Nat]
  <2>1. x.idxShape \in Seq(Nat)
    BY DEF IndicesFormed
  <2> QED
    BY <2>1, Spanned, Zenon
<1>2. PICK v \in 0 .. n : x.ivd = v
  BY <1>1 DEF IndicesFormed
<1>20. PICK nb \in Nat : Batched(x, batch, nb)
  BY BatchIs
<1>3. /\ nb = (IF v = n THEN n ELSE n - 1) /\ DOMAIN batch = 1 .. nb
      /\ dims = [k \in 1 .. nb |-> IF k <= v THEN k - 1 ELSE k]
      /\ \A k \in 1 .. nb : batch[k] = x.idxShape[IF k <= v THEN k ELSE k + 1]
  <2> HIDE DEF batch
  <2> QED
    BY <1>1, <1>2, <1>20 DEF Batched
<1>4. b \in [1 .. nb -> Nat] /\ \A k \in 1 .. nb : b[k] < batch[k]
  BY <1>3 DEF Box
<1>5. PICK f \in 0 .. n - 1 : from = f /\ f # v
  <2>1. i \in DOMAIN x.idxBatching
    BY DEF IndicesFormed
  <2>2. from \in Dims(x.idxShape) \ {x.ivd}
    BY <2>1 DEF IndicesFormed
  <2> QED
    BY <1>1, <1>2, <2>2 DEF Dims
<1>6. PICK p \in 1 .. nb : p = 1 + (IF f < v THEN f ELSE f - 1)
  BY <1>3, <1>5
<1> HIDE DEF dims, from, batch
<1>7. dims[p] = f /\ (IF p <= v THEN p ELSE p + 1) = f + 1
  BY <1>3, <1>5, <1>6
<1>8. Distinct(dims) /\ DOMAIN dims = 1 .. nb
  BY <1>3 DEF Distinct
<1>9. At(dims, f) = p
  BY <1>7, <1>8, AtOf
<1>10. b[p] \in 0 .. x.idxShape[f + 1] - 1
  <2>1. batch[p] = x.idxShape[f + 1] /\ b[p] \in Nat /\ b[p] < batch[p] /\ x.idxShape[f + 1] \in Nat
    <3>1. batch[p] = x.idxShape[f + 1]
      <4>1. batch[p] = x.idxShape[IF p <= v THEN p ELSE p + 1]
        BY <1>3
      <4> QED
        BY <1>7, <4>1
    <3>2. f + 1 \in 1 .. n
      BY <1>5
    <3>3. x.idxShape[f + 1] \in Nat
      BY <1>1, <3>2
    <3> QED
      BY <1>4, <3>1, <3>3
  <2> QED
    BY <2>1
<1>11. x.opShape[x.opBatching[i] + 1] = x.idxShape[f + 1]
  BY <1>5 DEF IndicesFormed, from
<1> QED
  BY <1>2, <1>5, <1>6, <1>9, <1>10, <1>11 DEF dims, from

\* A clamped index.
LEMMA ClipIs ==
  ASSUME NEW v \in Int, NEW top \in Int
  PROVE  /\ Clip(v, top) = IF top < 0 \/ v < 0 THEN 0 ELSE IF v > top THEN top ELSE v
         /\ Clip(v, Max({top, 0})) = Clip(v, top)
         /\ Max({top, 0}) = IF top >= 0 THEN top ELSE 0
<1> DEFINE low(t) == IF v <= t THEN v ELSE t
<1>1. \A t \in Int : Clip(v, t) = IF 0 >= low(t) THEN 0 ELSE low(t)
  <2> SUFFICES ASSUME NEW t \in Int PROVE Clip(v, t) = IF 0 >= low(t) THEN 0 ELSE low(t)
    OBVIOUS
  <2>1. Min({v, t}) = low(t) /\ low(t) \in Int
    BY SmallerOfTwo
  <2> HIDE DEF low
  <2> QED
    BY <2>1, LargerOfTwo DEF Clip
<1>2. Max({top, 0}) = IF top >= 0 THEN top ELSE 0
  BY LargerOfTwo
<1> DEFINE t == Max({top, 0})
<1>3. t \in Int
  BY <1>2
<1> HIDE DEF t
<1>4. Clip(v, t) = (IF 0 >= low(t) THEN 0 ELSE low(t)) /\ Clip(v, top) = IF 0 >= low(top) THEN 0 ELSE low(top)
  BY <1>1, <1>3
<1> QED
  BY <1>2, <1>4 DEF t

\* A window of these sizes fits into the operand, one element along the
\* batching dimensions.
Slices(x, sizes) ==
  /\ \A d \in DOMAIN x.opShape : sizes[d] \in Nat /\ sizes[d] <= x.opShape[d]
  /\ \A i \in DOMAIN x.opBatching : sizes[x.opBatching[i] + 1] = 1

\* A window of these sizes is read, or written, at a batch coordinate.
Reading(x, sizes, plan, b) ==
  /\ IndicesFormed(x) /\ Slices(x, sizes)
  /\ plan = BuildIndexPlan(x, sizes) /\ Planned(x, sizes, plan) /\ b \in Box(plan.batch)

\* The start along an operand dimension that a component of the index
\* vector names, or a batching dimension, or neither.
LEMMA StartOfComponent ==
  ASSUME NEW x, NEW sizes, NEW plan, NEW b, Reading(x, sizes, plan, b),
         NEW d \in DOMAIN x.opShape, Has(x.map, d - 1)
  PROVE  \E s \in Int, top \in Nat, j \in DOMAIN plan.entries :
            /\ x.opShape[d] \in Nat /\ sizes[d] \in Nat /\ x.opShape[d] = top + sizes[d]
            /\ plan.entries[j].axis = d - 1 /\ plan.entries[j].kind = "component"
            /\ Raw(x, plan.entries[j], b) = s /\ plan.entries[j].top = top
            /\ Start(plan, IndexAt(x, plan, b), d - 1) = Clip(s, top)
            /\ ClampedStart(x, sizes, b, d - 1) = Clip(s, top)
            /\ StartOf(x, b, d - 1) = s
            /\ BatchingOf(x, b, d - 1) = 0
<1> DEFINE j == At(x.map, d - 1)
           s == Component(x, b, j - 1)
           top == x.opShape[d] - sizes[d]
<1>0. /\ IndicesFormed(x) /\ Slices(x, sizes)
      /\ plan = BuildIndexPlan(x, sizes) /\ Planned(x, sizes, plan) /\ b \in Box(plan.batch)
  BY DEF Reading
<1> USE <1>0
<1>1. j \in DOMAIN x.map /\ x.map[j] = d - 1
  BY AtIs
<1> HIDE DEF j
<1>2. s \in Int
  BY <1>1, ComponentIs
<1>3. d \in Int /\ x.opShape[d] \in Nat /\ sizes[d] \in Nat /\ sizes[d] <= x.opShape[d]
  <2>1. x.opShape \in Seq(Nat)
    BY DEF IndicesFormed
  <2>2. d \in Int /\ x.opShape[d] \in Nat
    BY <2>1
  <2> QED
    BY <2>2 DEF Slices
<1>4. top \in Nat
  BY <1>3
<1>5. (d - 1) + 1 = d
  BY <1>3
<1>6. j \in DOMAIN plan.entries /\ plan.entries[j] = EntryOf(x, sizes, j)
  BY <1>1, Zenon DEF Planned
<1>7. /\ plan.entries[j].axis = d - 1 /\ plan.entries[j].kind = "component" /\ plan.entries[j].k = j - 1
      /\ plan.entries[j].top = Max({top, 0})
  BY <1>1, <1>5, <1>6 DEF EntryOf
<1>8. plan.entries[j].top = top /\ Clip(s, plan.entries[j].top) = Clip(s, top)
  BY <1>2, <1>4, <1>7, ClipIs
<1>9. IndexAt(x, plan, b)[j] = Clip(s, top)
  <2>1. IndexAt(x, plan, b)[j] = Index(x, plan.entries[j], b)
    BY <1>6 DEF IndexAt
  <2>2. Index(x, plan.entries[j], b) = Clip(s, plan.entries[j].top)
    BY <1>7 DEF Index, Raw
  <2> QED
    BY <1>8, <2>1, <2>2
<1>10. Start(plan, IndexAt(x, plan, b), d - 1) = Clip(s, top)
  <2>1. \A e, f \in DOMAIN plan.entries : e # f => plan.entries[e].axis # plan.entries[f].axis
    BY Zenon DEF Planned
  <2>2. OneEach(plan) /\ plan.entries[j].axis = d - 1
    BY <1>7, <2>1 DEF OneEach
  <2> QED
    BY <1>6, <1>9, <2>2, StartAt
<1>11. ClampedStart(x, sizes, b, d - 1) = Clip(s, top) /\ StartOf(x, b, d - 1) = s
  BY <1>5 DEF ClampedStart, StartOf, j
<1>12. BatchingOf(x, b, d - 1) = 0
  <2>1. ~ Has(x.opBatching, d - 1)
    BY <1>1, AxesDiffer
  <2> QED
    BY <2>1 DEF BatchingOf
<1>13. Raw(x, plan.entries[j], b) = s
  BY <1>7 DEF Raw
<1>14. x.opShape[d] = top + sizes[d]
  BY <1>3
<1> HIDE DEF s, top
<1> QED
  BY <1>2, <1>3, <1>4, <1>6, <1>7, <1>8, <1>10, <1>11, <1>12, <1>13, <1>14

\* Along a batching dimension a slice starts at the batch coordinate.
LEMMA StartOfBatching ==
  ASSUME NEW x, NEW sizes, NEW plan, NEW b, Reading(x, sizes, plan, b),
         NEW d \in DOMAIN x.opShape, Has(x.opBatching, d - 1)
  PROVE  /\ ~ Has(x.map, d - 1) /\ sizes[d] = 1
         /\ Start(plan, IndexAt(x, plan, b), d - 1) = BatchingOf(x, b, d - 1)
         /\ BatchingOf(x, b, d - 1) \in 0 .. x.opShape[d] - 1
         /\ ClampedStart(x, sizes, b, d - 1) = 0 /\ StartOf(x, b, d - 1) = 0
<1> DEFINE i == At(x.opBatching, d - 1)
           e == Len(x.map) + i
           pos == At(BatchDims(x.idxShape, x.ivd), x.idxBatching[i])
<1>0. /\ IndicesFormed(x) /\ Slices(x, sizes)
      /\ plan = BuildIndexPlan(x, sizes) /\ Planned(x, sizes, plan) /\ b \in Box(plan.batch)
  BY DEF Reading
<1> USE <1>0
<1>1. i \in DOMAIN x.opBatching /\ x.opBatching[i] = d - 1
  BY AtIs
<1> HIDE DEF i
<1>2. ~ Has(x.map, d - 1)
  <2> SUFFICES ASSUME Has(x.map, d - 1) PROVE FALSE
    OBVIOUS
  <2>1. At(x.map, d - 1) \in DOMAIN x.map /\ x.map[At(x.map, d - 1)] = d - 1
    BY AtIs
  <2> QED
    BY <2>1, AxesDiffer
<1>3. d \in Int /\ (d - 1) + 1 = d
  <2>1. x.opShape \in Seq(Nat)
    BY DEF IndicesFormed
  <2> QED
    BY <2>1
<1>4. sizes[d] = 1
  BY <1>1, <1>3 DEF Slices
<1>5. e \in DOMAIN plan.entries /\ plan.entries[e] = IotaOf(x, i)
  BY <1>1, Zenon DEF Planned
<1> HIDE DEF e
<1>6. plan.entries[e].axis = d - 1 /\ plan.entries[e].kind = "iota" /\ plan.entries[e].pos = pos
  BY <1>1, <1>5 DEF IotaOf
<1>7. Start(plan, IndexAt(x, plan, b), d - 1) = b[pos]
  <2>1. \A g, f \in DOMAIN plan.entries : g # f => plan.entries[g].axis # plan.entries[f].axis
    BY Zenon DEF Planned
  <2>5. OneEach(plan)
    BY <2>1 DEF OneEach
  <2>2. Start(plan, IndexAt(x, plan, b), d - 1) = IndexAt(x, plan, b)[e]
    BY <1>5, <1>6, <2>5, StartAt
  <2>3. IndexAt(x, plan, b)[e] = Index(x, plan.entries[e], b)
    BY <1>5 DEF IndexAt
  <2>4. Index(x, plan.entries[e], b) = b[plan.entries[e].pos]
    BY <1>6 DEF Index
  <2> QED
    BY <1>6, <2>2, <2>3, <2>4
<1>8. /\ pos = 1 + (IF x.idxBatching[i] < x.ivd THEN x.idxBatching[i] ELSE x.idxBatching[i] - 1)
      /\ b[pos] \in 0 .. x.opShape[d] - 1
  BY <1>1, <1>3, IotaIs
<1>9. BatchingOf(x, b, d - 1) = b[pos]
  BY <1>8 DEF BatchingOf, i
<1>10. ClampedStart(x, sizes, b, d - 1) = 0 /\ StartOf(x, b, d - 1) = 0
  BY <1>2 DEF ClampedStart, StartOf
<1> QED
  BY <1>2, <1>4, <1>7, <1>8, <1>9, <1>10

\* Along any other dimension it starts at 0.
LEMMA StartOfOther ==
  ASSUME NEW x, NEW sizes, NEW plan, IndicesFormed(x), Planned(x, sizes, plan), NEW b,
         NEW d \in DOMAIN x.opShape, ~ Has(x.map, d - 1), ~ Has(x.opBatching, d - 1)
  PROVE  /\ Start(plan, IndexAt(x, plan, b), d - 1) = 0 /\ BatchingOf(x, b, d - 1) = 0
         /\ ClampedStart(x, sizes, b, d - 1) = 0 /\ StartOf(x, b, d - 1) = 0
<1>1. BatchingOf(x, b, d - 1) = 0 /\ ClampedStart(x, sizes, b, d - 1) = 0 /\ StartOf(x, b, d - 1) = 0
  BY DEF BatchingOf, ClampedStart, StartOf
<1>2. \A e, f \in DOMAIN plan.entries : e # f => plan.entries[e].axis # plan.entries[f].axis
  BY Zenon DEF Planned
<1>3. CASE \A e \in DOMAIN plan.entries : plan.entries[e].axis # d - 1
  BY <1>1, <1>3, StartNowhere
<1>4. ASSUME NEW e \in DOMAIN plan.entries, plan.entries[e].axis = d - 1
      PROVE  Start(plan, IndexAt(x, plan, b), d - 1) = 0
  <2>1. e \notin DOMAIN x.map
    <3> SUFFICES ASSUME e \in DOMAIN x.map PROVE FALSE
      OBVIOUS
    <3>1. plan.entries[e] = EntryOf(x, sizes, e)
      BY Zenon DEF Planned
    <3>2. EntryOf(x, sizes, e).axis = x.map[e]
      BY DEF EntryOf
    <3> QED
      BY <1>4, <3>1, <3>2 DEF Has
  <2>2. ASSUME NEW i \in DOMAIN x.opBatching, e = Len(x.map) + i
        PROVE  FALSE
    <3>1. plan.entries[e] = IotaOf(x, i)
      BY <2>2, Zenon DEF Planned
    <3>2. IotaOf(x, i).axis = x.opBatching[i]
      BY DEF IotaOf
    <3> QED
      BY <1>4, <3>1, <3>2 DEF Has
  <2>3. plan.entries[e] = NoEntry
    BY <2>1, <2>2, Zenon DEF Planned
  <2>4. IndexAt(x, plan, b)[e] = 0
    BY <2>3 DEF IndexAt, Index, NoEntry
  <2>5. Start(plan, IndexAt(x, plan, b), d - 1) = IndexAt(x, plan, b)[e]
    <3>1. OneEach(plan)
      BY <1>2 DEF OneEach
    <3> QED
      BY <1>4, <3>1, StartAt
  <2> QED
    BY <1>4, <2>4, <2>5
<1> QED
  BY <1>1, <1>3, <1>4

\* What a plan reads: where StableHLO's clamped window starts, which lies in
\* the operand.
LEMMA PlanStarts ==
  ASSUME NEW x, NEW sizes, NEW plan, NEW b, Reading(x, sizes, plan, b), NEW d \in DOMAIN x.opShape
  PROVE  LET start == Start(plan, IndexAt(x, plan, b), d - 1)
         IN /\ start = ClampedStart(x, sizes, b, d - 1) + BatchingOf(x, b, d - 1)
            /\ start \in Nat /\ start + sizes[d] <= x.opShape[d]
<1> DEFINE start == Start(plan, IndexAt(x, plan, b), d - 1)
           from == ClampedStart(x, sizes, b, d - 1)
           batching == BatchingOf(x, b, d - 1)
<1>1. IndicesFormed(x) /\ Slices(x, sizes) /\ Planned(x, sizes, plan)
  BY DEF Reading
<1>2. x.opShape[d] \in Nat /\ sizes[d] \in Nat /\ sizes[d] <= x.opShape[d]
  <2>1. x.opShape \in Seq(Nat)
    BY <1>1 DEF IndicesFormed
  <2>2. x.opShape[d] \in Nat
    BY <2>1
  <2> QED
    BY <1>1, <2>2 DEF Slices
<1>3. CASE Has(x.map, d - 1)
  <2>1. PICK s \in Int, top \in Nat :
          x.opShape[d] = top + sizes[d] /\ start = Clip(s, top) /\ from = Clip(s, top) /\ batching = 0
    BY <1>3, StartOfComponent
  <2>2. Clip(s, top) = IF top < 0 \/ s < 0 THEN 0 ELSE IF s > top THEN top ELSE s
    <3>1. top \in Int
      OBVIOUS
    <3> QED
      BY <3>1, ClipIs
  <2> HIDE DEF start, from, batching
  <2>3. start = from + batching /\ start \in Nat /\ start + sizes[d] <= x.opShape[d]
    BY <1>2, <2>1, <2>2
  <2> QED
    BY <2>3 DEF start, from, batching
<1>4. CASE Has(x.opBatching, d - 1)
  <2>1. sizes[d] = 1 /\ start = batching /\ batching \in 0 .. x.opShape[d] - 1 /\ from = 0
    BY <1>4, StartOfBatching
  <2> HIDE DEF start, from, batching
  <2>3. start = from + batching /\ start \in Nat /\ start + sizes[d] <= x.opShape[d]
    BY <1>2, <2>1
  <2> QED
    BY <2>3 DEF start, from, batching
<1>5. CASE ~ Has(x.map, d - 1) /\ ~ Has(x.opBatching, d - 1)
  <2>1. start = 0 /\ batching = 0 /\ from = 0
    BY <1>1, <1>5, StartOfOther
  <2> HIDE DEF start, from, batching
  <2>3. start = from + batching /\ start \in Nat /\ start + sizes[d] <= x.opShape[d]
    BY <1>2, <2>1
  <2> QED
    BY <2>3 DEF start, from, batching
<1> QED
  BY <1>3, <1>4, <1>5

\* An update is dropped exactly when its window does not fit; and one that is
\* not starts where its indices say.
BoundsHold(x, sizes, plan, b) ==
  /\ ~ OutOfBounds(x, plan, b) =>
       \A d \in DOMAIN x.opShape :
         Start(plan, IndexAt(x, plan, b), d - 1) = StartOf(x, b, d - 1) + BatchingOf(x, b, d - 1)
  /\ OutOfBounds(x, plan, b) =>
       \E d \in DOMAIN x.opShape :
         LET s == StartOf(x, b, d - 1) + BatchingOf(x, b, d - 1)
         IN ~ (s >= 0 /\ s + sizes[d] <= x.opShape[d])

\* The plan's predicate is StableHLO's.
LEMMA BoundsAre ==
  ASSUME NEW x, NEW sizes, NEW plan, NEW b, Reading(x, sizes, plan, b)
  PROVE  BoundsHold(x, sizes, plan, b)
<1>1. IndicesFormed(x) /\ Slices(x, sizes) /\ Planned(x, sizes, plan)
  BY DEF Reading
<1>2. \A e, f \in DOMAIN plan.entries : e # f => plan.entries[e].axis # plan.entries[f].axis
  BY <1>1, Zenon DEF Planned
<1>3. ASSUME ~ OutOfBounds(x, plan, b), NEW d \in DOMAIN x.opShape
      PROVE  Start(plan, IndexAt(x, plan, b), d - 1) = StartOf(x, b, d - 1) + BatchingOf(x, b, d - 1)
  <2> DEFINE start == Start(plan, IndexAt(x, plan, b), d - 1)
             from == StartOf(x, b, d - 1)
             batching == BatchingOf(x, b, d - 1)
  <2> SUFFICES start = from + batching
    OBVIOUS
  <2>1. CASE Has(x.map, d - 1)
    <3>1. PICK s \in Int, top \in Nat, j \in DOMAIN plan.entries :
            /\ plan.entries[j].kind = "component" /\ Raw(x, plan.entries[j], b) = s
            /\ plan.entries[j].top = top /\ start = Clip(s, top) /\ from = s /\ batching = 0
      BY <2>1, StartOfComponent
    <3>2. ~ (s < 0 \/ s > top)
      BY <1>3, <3>1 DEF OutOfBounds
    <3>3. Clip(s, top) = IF top < 0 \/ s < 0 THEN 0 ELSE IF s > top THEN top ELSE s
      <4>1. top \in Int
        OBVIOUS
      <4> QED
        BY <4>1, ClipIs
    <3> QED
      BY <3>1, <3>2, <3>3
  <2>2. CASE Has(x.opBatching, d - 1)
    <3>1. start = batching /\ batching \in 0 .. x.opShape[d] - 1 /\ from = 0
      BY <2>2, StartOfBatching
    <3> QED
      BY <3>1
  <2>3. CASE ~ Has(x.map, d - 1) /\ ~ Has(x.opBatching, d - 1)
    <3>1. start = 0 /\ batching = 0 /\ from = 0
      BY <1>1, <2>3, StartOfOther
    <3> QED
      BY <3>1
  <2> QED
    BY <2>1, <2>2, <2>3
<1>4. ASSUME OutOfBounds(x, plan, b)
      PROVE  \E d \in DOMAIN x.opShape :
               LET s == StartOf(x, b, d - 1) + BatchingOf(x, b, d - 1)
               IN ~ (s >= 0 /\ s + sizes[d] <= x.opShape[d])
  <2>1. PICK i \in DOMAIN plan.entries :
          /\ plan.entries[i].kind = "component"
          /\ Raw(x, plan.entries[i], b) < 0 \/ Raw(x, plan.entries[i], b) > plan.entries[i].top
    BY <1>4 DEF OutOfBounds
  <2>2. i \in DOMAIN x.map
    <3>1. \A k \in DOMAIN x.opBatching : IotaOf(x, k).kind = "iota"
      BY DEF IotaOf
    <3>2. NoEntry.kind = "zero"
      BY DEF NoEntry
    <3>3. \A k \in DOMAIN x.opBatching : plan.entries[Len(x.map) + k] = IotaOf(x, k)
      BY <1>1, Zenon DEF Planned
    <3>4. /\ "component" # "iota" /\ "component" # "zero"
      OBVIOUS
    <3>5. \/ i \in DOMAIN x.map
          \/ \E k \in DOMAIN x.opBatching : i = Len(x.map) + k
          \/ plan.entries[i] = NoEntry
      BY <1>1, Zenon DEF Planned
    <3> QED
      BY <2>1, <3>1, <3>2, <3>3, <3>4, <3>5
  <2> DEFINE d == x.map[i] + 1
  <2>3. x.map[i] \in Int /\ d \in DOMAIN x.opShape /\ d - 1 = x.map[i]
    <3>1. x.map \in Seq(Dims(x.opShape)) /\ x.opShape \in Seq(Nat)
      BY <1>1 DEF IndicesFormed
    <3>2. PICK r \in Nat : Len(x.opShape) = r /\ DOMAIN x.opShape = 1 .. r
      BY <3>1, Spanned, Zenon
    <3>3. x.map[i] \in 0 .. r - 1
      BY <2>2, <3>1, <3>2 DEF Dims
    <3> QED
      BY <3>2, <3>3
  <2>4. plan.entries[i].axis = d - 1
    <3>1. plan.entries[i] = EntryOf(x, sizes, i)
      BY <1>1, <2>2, Zenon DEF Planned
    <3>2. EntryOf(x, sizes, i).axis = x.map[i]
      BY DEF EntryOf
    <3> QED
      BY <2>3, <3>1, <3>2
  <2>5. Has(x.map, d - 1)
    BY <2>2, <2>3 DEF Has
  <2> HIDE DEF d
  <2>6. PICK s \in Int, top \in Nat, j \in DOMAIN plan.entries :
          /\ sizes[d] \in Nat /\ x.opShape[d] = top + sizes[d] /\ plan.entries[j].axis = d - 1
          /\ Raw(x, plan.entries[j], b) = s /\ plan.entries[j].top = top
          /\ StartOf(x, b, d - 1) = s /\ BatchingOf(x, b, d - 1) = 0
    BY <2>3, <2>5, StartOfComponent
  <2>7. i = j
    BY <1>2, <2>4, <2>6
  <2>8. s < 0 \/ s > top
    BY <2>1, <2>6, <2>7
  <2>9. ~ (s + 0 >= 0 /\ s + 0 + sizes[d] <= x.opShape[d])
    BY <2>6, <2>8
  <2> QED
    BY <2>3, <2>6, <2>9
<1> QED
  BY <1>3, <1>4 DEF BoundsHold

---------------------------------------------------------------------------
\* The dimensions of a result, or of the updates: those of the windows, and
\* the others; where each lies once the others are put in front.
Parted(rank, windows, others) ==
  /\ rank \in Nat /\ windows \in Seq(0 .. rank - 1) /\ Distinct(windows)
  /\ others = Kept(rank, ToSet(windows))

\* Every dimension is on one side and on one only.
LEMMA PartedIs ==
  ASSUME NEW rank, NEW windows, NEW others, Parted(rank, windows, others)
  PROVE  /\ others \in Seq(0 .. rank - 1) /\ Distinct(others) /\ windows \in Seq(0 .. rank - 1)
         /\ Len(others) \in Nat /\ DOMAIN others = 1 .. Len(others)
         /\ Len(windows) \in Nat /\ DOMAIN windows = 1 .. Len(windows)
         /\ \A d \in 0 .. rank - 1 : Has(windows, d) <=> ~ Has(others, d)
         /\ \A k \in DOMAIN windows : windows[k] \in 0 .. rank - 1 /\ ~ Has(others, windows[k])
         /\ \A i \in DOMAIN others : others[i] \in 0 .. rank - 1 /\ ~ Has(windows, others[i])
<1>1. rank \in Nat /\ windows \in Seq(0 .. rank - 1) /\ others = Kept(rank, ToSet(windows))
  BY DEF Parted
<1>2. InOrder(others, rank, ToSet(windows))
  BY <1>1, KeptIs
<1>3. others \in Seq(0 .. rank - 1) /\ Distinct(others)
  BY <1>1, <1>2, InOrderDistinct DEF InOrder
<1>4. \A v : v \in ToSet(windows) <=> Has(windows, v)
  BY DEF ToSet, Has
<1>5. \A d \in 0 .. rank - 1 : Has(windows, d) <=> ~ Has(others, d)
  <2>1. \A i \in DOMAIN others : others[i] \notin ToSet(windows)
    BY <1>2 DEF InOrder
  <2>2. \A d \in 0 .. rank - 1 : d \notin ToSet(windows) => Has(others, d)
    BY <1>2 DEF InOrder
  <2>3. \A d : Has(others, d) => d \notin ToSet(windows)
    BY <2>1 DEF Has
  <2> QED
    BY <1>4, <2>2, <2>3
<1>6. \A k \in DOMAIN windows : windows[k] \in 0 .. rank - 1 /\ Has(windows, windows[k])
  <2>1. \A k \in DOMAIN windows : windows[k] \in 0 .. rank - 1
    BY <1>1
  <2> QED
    BY <2>1 DEF Has
<1>7. \A i \in DOMAIN others : others[i] \in 0 .. rank - 1 /\ Has(others, others[i])
  <2>1. others \in Seq(0 .. rank - 1) /\ rank \in Nat
    BY <1>1, <1>3
  <2>2. \A k \in DOMAIN others : others[k] \in 0 .. rank - 1
    BY <2>1
  <2> QED
    BY <2>2 DEF Has
<1>8. /\ Len(others) \in Nat /\ DOMAIN others = 1 .. Len(others)
      /\ Len(windows) \in Nat /\ DOMAIN windows = 1 .. Len(windows)
  BY <1>1, <1>3
<1> QED
  BY <1>1, <1>3, <1>5, <1>6, <1>7, <1>8

\* Where the dimensions come from and where they go.
Inverts(perm, others, windows) ==
  /\ \A i \in DOMAIN others : At(perm, i) = others[i] + 1 /\ perm[others[i] + 1] = i
  /\ \A k \in DOMAIN windows :
       At(perm, Len(others) + k) = windows[k] + 1 /\ perm[windows[k] + 1] = Len(others) + k

\* Put in front by a permutation that says where each dimension goes...
LEMMA TransposedBack ==
  ASSUME NEW rank, NEW windows, NEW others, Parted(rank, windows, others),
         NEW perm, perm = [d \in 1 .. rank |-> IF Has(windows, d - 1) THEN Len(others) + At(windows, d - 1)
                                               ELSE At(others, d - 1)]
  PROVE  Inverts(perm, others, windows)
<1>1. /\ Distinct(others) /\ Distinct(windows)
      /\ Len(others) \in Nat /\ DOMAIN others = 1 .. Len(others)
      /\ Len(windows) \in Nat /\ DOMAIN windows = 1 .. Len(windows)
      /\ rank \in Nat
  BY PartedIs DEF Parted
<1>2. \A d \in 0 .. rank - 1 : Has(windows, d) <=> ~ Has(others, d)
  BY PartedIs
<1>3. PICK nb \in Nat : Len(others) = nb /\ DOMAIN others = 1 .. nb
  BY <1>1
<1>4. \A d \in 0 .. rank - 1 : d + 1 \in 1 .. rank /\ (d + 1) - 1 = d
  BY <1>1
<1>5. \A d \in 0 .. rank - 1 :
        perm[d + 1] = IF Has(windows, d) THEN nb + At(windows, d) ELSE At(others, d)
  BY <1>3, <1>4
<1>6. \A d \in 1 .. rank : d - 1 \in 0 .. rank - 1 /\ d = (d - 1) + 1
  BY <1>1
<1>7. DOMAIN perm = 1 .. rank
  OBVIOUS
<1>8. ASSUME NEW i \in DOMAIN others
      PROVE  At(perm, i) = others[i] + 1 /\ perm[others[i] + 1] = i
  <2>1. others[i] \in 0 .. rank - 1 /\ ~ Has(windows, others[i])
    BY PartedIs
  <2>2. At(others, others[i]) = i
    BY <1>1, AtOf
  <2>3. others[i] + 1 \in 1 .. rank /\ perm[others[i] + 1] = i
    BY <1>4, <1>5, <2>1, <2>2
  <2>4. ASSUME NEW d \in 0 .. rank - 1, perm[d + 1] = i
        PROVE  d = others[i]
    <3>1. CASE Has(windows, d)
      <4>1. At(windows, d) \in 1 .. Len(windows) /\ perm[d + 1] = nb + At(windows, d)
        BY <1>1, <1>5, <3>1, AtIs
      <4>2. i \in 1 .. nb
        BY <1>3
      <4> QED
        BY <1>1, <2>4, <4>1, <4>2
    <3>2. CASE ~ Has(windows, d)
      <4>1. Has(others, d) /\ perm[d + 1] = At(others, d)
        BY <1>2, <1>5, <3>2
      <4> QED
        BY <2>4, <4>1, AtIs
    <3> QED
      BY <3>1, <3>2
  <2>5. \A d \in DOMAIN perm : perm[d] = i => d = others[i] + 1
    BY <1>6, <1>7, <2>4
  <2> QED
    BY <1>7, <2>3, <2>5 DEF At
<1>9. ASSUME NEW k \in DOMAIN windows
      PROVE  At(perm, nb + k) = windows[k] + 1 /\ perm[windows[k] + 1] = nb + k
  <2>1. windows[k] \in 0 .. rank - 1 /\ Has(windows, windows[k])
    BY PartedIs DEF Has
  <2>2. At(windows, windows[k]) = k
    BY <1>1, AtOf
  <2>3. windows[k] + 1 \in 1 .. rank /\ perm[windows[k] + 1] = nb + k
    BY <1>4, <1>5, <2>1, <2>2
  <2>4. ASSUME NEW d \in 0 .. rank - 1, perm[d + 1] = nb + k
        PROVE  d = windows[k]
    <3>1. CASE Has(windows, d)
      <4>1. At(windows, d) \in 1 .. Len(windows) /\ perm[d + 1] = nb + At(windows, d)
        BY <1>1, <1>5, <3>1, AtIs
      <4>2. k \in 1 .. Len(windows)
        BY <1>1
      <4>3. At(windows, d) = k
        BY <1>1, <2>4, <4>1, <4>2
      <4> QED
        BY <3>1, <4>3, AtIs
    <3>2. CASE ~ Has(windows, d)
      <4>1. Has(others, d) /\ perm[d + 1] = At(others, d) /\ At(others, d) \in 1 .. nb
        BY <1>2, <1>3, <1>5, <3>2, AtIs
      <4>2. k \in 1 .. Len(windows)
        BY <1>1
      <4> QED
        BY <1>1, <2>4, <4>1, <4>2
    <3> QED
      BY <3>1, <3>2
  <2>5. \A d \in DOMAIN perm : perm[d] = nb + k => d = windows[k] + 1
    BY <1>6, <1>7, <2>4
  <2> QED
    BY <1>7, <2>3, <2>5 DEF At
<1> QED
  BY <1>3, <1>8, <1>9 DEF Inverts

\* ...or by one that says where each comes from.
LEMMA TransposedFront ==
  ASSUME NEW rank, NEW windows, NEW others, Parted(rank, windows, others), NEW d \in 0 .. rank - 1
  PROVE  LET perm == others \o windows
         IN At(perm, d) = IF Has(windows, d) THEN Len(others) + At(windows, d) ELSE At(others, d)
<1> DEFINE perm == others \o windows
           R == 0 .. rank - 1
<1>1. /\ Distinct(others) /\ Distinct(windows) /\ others \in Seq(R) /\ windows \in Seq(R)
      /\ (Has(windows, d) <=> ~ Has(others, d))
      /\ \A k \in DOMAIN windows : ~ Has(others, windows[k])
      /\ \A i \in DOMAIN others : ~ Has(windows, others[i])
  BY PartedIs DEF Parted
<1> HIDE DEF R
<1>2. PICK nb \in Nat : Len(others) = nb /\ DOMAIN others = 1 .. nb
  BY <1>1, Spanned, Zenon
<1>3. PICK nw \in Nat : Len(windows) = nw /\ DOMAIN windows = 1 .. nw
  BY <1>1, Spanned, Zenon
<1>4. /\ DOMAIN perm = 1 .. nb + nw /\ (\A i \in 1 .. nb : perm[i] = others[i])
      /\ \A k \in 1 .. nw : perm[nb + k] = windows[k]
  BY <1>1, <1>2, <1>3
<1> HIDE DEF perm
<1>5. \A e \in 1 .. nb + nw : e \in 1 .. nb \/ (e - nb \in 1 .. nw /\ e = nb + (e - nb))
  OBVIOUS
<1>6. CASE Has(windows, d)
  <2>1. At(windows, d) \in 1 .. nw /\ windows[At(windows, d)] = d
    BY <1>3, <1>6, AtIs
  <2>2. nb + At(windows, d) \in DOMAIN perm /\ perm[nb + At(windows, d)] = d
    BY <1>4, <2>1
  <2>3. ASSUME NEW e \in DOMAIN perm, perm[e] = d
        PROVE  e = nb + At(windows, d)
    <3>1. e \notin 1 .. nb
      BY <1>1, <1>2, <1>4, <1>6, <2>3 DEF Has
    <3>2. e - nb \in 1 .. nw /\ e = nb + (e - nb)
      BY <1>4, <1>5, <3>1
    <3>3. windows[e - nb] = d
      BY <1>4, <2>3, <3>2
    <3>4. e - nb = At(windows, d)
      BY <1>1, <1>3, <3>2, <3>3, AtOf
    <3> QED
      BY <3>2, <3>4
  <2>4. At(perm, d) = nb + At(windows, d)
    BY <2>2, <2>3 DEF At
  <2> QED
    BY <1>2, <1>6, <2>4 DEF perm
<1>7. CASE ~ Has(windows, d)
  <2>1. Has(others, d) /\ At(others, d) \in 1 .. nb /\ others[At(others, d)] = d
    BY <1>1, <1>2, <1>7, AtIs
  <2>2. At(others, d) \in DOMAIN perm /\ perm[At(others, d)] = d
    BY <1>4, <2>1
  <2>3. ASSUME NEW e \in DOMAIN perm, perm[e] = d
        PROVE  e = At(others, d)
    <3>1. CASE e \in 1 .. nb
      <4>1. others[e] = d
        BY <1>4, <2>3, <3>1
      <4> QED
        BY <1>1, <1>2, <3>1, <4>1, AtOf
    <3>2. CASE e \notin 1 .. nb
      <4>1. e - nb \in 1 .. nw /\ e = nb + (e - nb)
        BY <1>4, <1>5, <3>2
      <4>2. windows[e - nb] = d
        BY <1>4, <2>3, <4>1
      <4> QED
        BY <1>3, <1>7, <4>1, <4>2 DEF Has
    <3> QED
      BY <3>1, <3>2
  <2>4. At(perm, d) = At(others, d)
    BY <2>2, <2>3 DEF At
  <2> QED
    BY <1>7, <2>4 DEF perm
<1> QED
  BY <1>6, <1>7

---------------------------------------------------------------------------
\* A gather that is lowered: its plan, and how its result lies.
GatherLowered(x, plan, gone, kept, others, g) ==
  /\ plan = BuildIndexPlan(x, x.sizes) /\ ~ plan.refused /\ Planned(x, x.sizes, plan)
  /\ gone = x.collapsed \cup ToSet(x.opBatching) /\ kept = Kept(Len(x.opShape), gone)
  /\ Parted(Len(x.outShape), x.offset, others)
  /\ g.plan = plan /\ g.gone = gone
  /\ g.mid = plan.batch \o [i \in DOMAIN kept |-> x.sizes[kept[i] + 1]]
  /\ g.perm = [d \in 1 .. Len(x.outShape) |->
                 IF Has(x.offset, d - 1) THEN Len(others) + At(x.offset, d - 1) ELSE At(others, d - 1)]
  /\ Len(others) = Len(plan.batch) /\ Len(x.offset) = Len(kept)
  /\ \A d \in gone : x.sizes[d + 1] = 1
  /\ \A d \in DOMAIN g.perm : g.mid[g.perm[d]] = x.outShape[d]

\* What LowerGather does not refuse is lowered so.
LEMMA GatherIsLowered ==
  ASSUME NEW x, GatherFormed(x), ~ LowerGather(x).refused
  PROVE  \E plan, gone, kept, others : GatherLowered(x, plan, gone, kept, others, LowerGather(x))
<1> DEFINE g == LowerGather(x)
           plan == BuildIndexPlan(x, x.sizes)
           gone == x.collapsed \cup ToSet(x.opBatching)
           kept == Kept(Len(x.opShape), gone)
           others == Kept(Len(x.outShape), ToSet(x.offset))
           mid == plan.batch \o [i \in DOMAIN kept |-> x.sizes[kept[i] + 1]]
           perm == [d \in 1 .. Len(x.outShape) |->
                      IF Has(x.offset, d - 1) THEN Len(plan.batch) + At(x.offset, d - 1)
                      ELSE At(others, d - 1)]
<1>1. /\ g.plan = plan /\ g.gone = gone /\ g.mid = mid /\ g.perm = perm
      /\ ~ (\/ plan.refused
            \/ Len(others) # Len(plan.batch) \/ Len(x.offset) # Len(kept)
            \/ \E d \in gone : x.sizes[d + 1] # 1
            \/ \E d \in DOMAIN perm : perm[d] > Len(mid) \/ mid[perm[d]] # x.outShape[d])
  BY DEF LowerGather
<1>2. IndicesFormed(x)
  BY DEF GatherFormed
<1> HIDE DEF plan, mid, perm, others, g
<1>3. Planned(x, x.sizes, plan)
  BY <1>1, <1>2, PlanIs DEF plan
<1>4. Parted(Len(x.outShape), x.offset, others)
  <2>1. x.outShape \in Seq(Nat) /\ x.offset \in Seq(Dims(x.outShape)) /\ Distinct(x.offset)
    BY DEF GatherFormed
  <2>2. Len(x.outShape) \in Nat
    BY <2>1
  <2> QED
    BY <2>1, <2>2 DEF Parted, Dims, others
<1>5. \A d \in DOMAIN g.perm : g.mid[g.perm[d]] = x.outShape[d]
  BY <1>1
<1>6. g.mid = plan.batch \o [i \in DOMAIN kept |-> x.sizes[kept[i] + 1]]
  BY <1>1 DEF mid
<1>7. g.perm = [d \in 1 .. Len(x.outShape) |->
                  IF Has(x.offset, d - 1) THEN Len(others) + At(x.offset, d - 1) ELSE At(others, d - 1)]
  BY <1>1 DEF perm
<1>8. plan = BuildIndexPlan(x, x.sizes)
  BY DEF plan
<1>9. ~ plan.refused /\ Len(others) = Len(plan.batch) /\ Len(x.offset) = Len(kept) /\ \A d \in gone : x.sizes[d + 1] = 1
  BY <1>1
<1>10. GatherLowered(x, plan, gone, kept, others, g)
  BY <1>1, <1>3, <1>4, <1>5, <1>6, <1>7, <1>8, <1>9, Zenon DEF GatherLowered
<1> QED
  BY <1>10, Zenon DEF g

\* One sequence after another.
Follows(c, p, q) ==
  /\ DOMAIN c = 1 .. Len(p) + Len(q)
  /\ \A i \in 1 .. Len(p) : c[i] = p[i]
  /\ \A k \in 1 .. Len(q) : c[Len(p) + k] = q[k]

\* The elements of the first come first, those of the second after them.
LEMMA OneAfterAnother ==
  ASSUME NEW p \in Seq(Nat), NEW q \in Seq(Nat)
  PROVE  Follows(p \o q, p, q)
BY DEF Follows

\* A result's coordinate, batch dimensions first: the index vector it takes,
\* and its offsets in the window.
InParts(x, plan, kept, others, g, o) ==
  LET m == [i \in DOMAIN g.mid |-> o[At(g.perm, i)]]
      nb == Len(plan.batch)
      b == [i \in DOMAIN others |-> o[others[i] + 1]]
  IN /\ SubSeq(m, 1, nb) = b /\ b \in Box(plan.batch)
     /\ \A k \in DOMAIN kept :
          /\ SubSeq(m, nb + 1, Len(m))[k] = o[x.offset[k] + 1]
          /\ o[x.offset[k] + 1] \in Nat /\ o[x.offset[k] + 1] < x.sizes[kept[k] + 1]

\* The permutation of the result takes its coordinate apart.
LEMMA ResultParts ==
  ASSUME NEW x, NEW plan, NEW gone, NEW kept, NEW others, NEW g,
         GatherFormed(x), GatherLowered(x, plan, gone, kept, others, g), NEW o \in Box(x.outShape)
  PROVE  InParts(x, plan, kept, others, g, o)
<1>1. /\ Parted(Len(x.outShape), x.offset, others)
      /\ Len(others) = Len(plan.batch) /\ Len(x.offset) = Len(kept)
      /\ g.mid = plan.batch \o [i \in DOMAIN kept |-> x.sizes[kept[i] + 1]]
      /\ g.perm = [d \in 1 .. Len(x.outShape) |->
                     IF Has(x.offset, d - 1) THEN Len(others) + At(x.offset, d - 1) ELSE At(others, d - 1)]
      /\ \A d \in DOMAIN g.perm : g.mid[g.perm[d]] = x.outShape[d]
  BY Zenon DEF GatherLowered
<1>2. PICK R \in Nat : Len(x.outShape) = R /\ DOMAIN x.outShape = 1 .. R /\ x.outShape \in [1 .. R -> Nat]
  <2>1. x.outShape \in Seq(Nat)
    BY DEF GatherFormed
  <2> QED
    BY <2>1, Spanned, Zenon
<1>3. Parted(R, x.offset, others)
  BY <1>1, <1>2
<1>4. PICK r \in Nat : Len(x.opShape) = r /\ DOMAIN x.opShape = 1 .. r
  <2>1. x.opShape \in Seq(Nat)
    BY DEF GatherFormed, IndicesFormed
  <2> QED
    BY <2>1, Spanned, Zenon
<1>5. kept \in Seq(0 .. r - 1)
  BY <1>4, KeptIs DEF GatherLowered, InOrder
<1>6. PICK nw \in Nat : Len(kept) = nw /\ DOMAIN kept = 1 .. nw /\ kept \in [1 .. nw -> 0 .. r - 1]
  BY <1>5, Spanned, Zenon
<1>7. plan.batch \in Seq(Nat)
  <2>1. plan = BuildIndexPlan(x, x.sizes) /\ IndicesFormed(x)
    BY Zenon DEF GatherLowered, GatherFormed
  <2> QED
    BY <2>1, BatchIs DEF Batched
<1>8. PICK nb \in Nat : Len(plan.batch) = nb /\ DOMAIN plan.batch = 1 .. nb /\ plan.batch \in [1 .. nb -> Nat]
  BY <1>7, Spanned, Zenon
<1>9. /\ others \in Seq(0 .. R - 1) /\ x.offset \in Seq(0 .. R - 1)
      /\ \A k \in DOMAIN x.offset : x.offset[k] \in 0 .. R - 1
      /\ \A i \in DOMAIN others : others[i] \in 0 .. R - 1
      /\ DOMAIN others = 1 .. Len(others) /\ DOMAIN x.offset = 1 .. Len(x.offset)
  BY <1>3, PartedIs
<1>10. DOMAIN others = 1 .. nb /\ DOMAIN x.offset = 1 .. nw
  BY <1>1, <1>6, <1>8, <1>9
<1> DEFINE slice == [i \in DOMAIN kept |-> x.sizes[kept[i] + 1]]
           b == [i \in DOMAIN others |-> o[others[i] + 1]]
           m == [i \in DOMAIN g.mid |-> o[At(g.perm, i)]]
<1>11. slice \in Seq(Nat) /\ Len(slice) = nw /\ \A k \in 1 .. nw : slice[k] = x.sizes[kept[k] + 1]
  <2>1. x.sizes \in Seq(Nat) /\ Len(x.sizes) = r
    BY <1>4 DEF GatherFormed
  <2>2. \A d \in 0 .. r - 1 : x.sizes[d + 1] \in Nat
    BY <2>1
  <2>3. \A k \in 1 .. nw : x.sizes[kept[k] + 1] \in Nat
    BY <1>6, <2>2
  <2>4. slice \in [1 .. nw -> Nat]
    BY <1>6, <2>3
  <2>5. \A k \in 1 .. nw : slice[k] = x.sizes[kept[k] + 1]
    BY <1>6
  <2> HIDE DEF slice
  <2> QED
    BY <2>4, <2>5
<1>12. /\ DOMAIN g.mid = 1 .. nb + nw /\ (\A i \in 1 .. nb : g.mid[i] = plan.batch[i])
       /\ \A k \in 1 .. nw : g.mid[nb + k] = x.sizes[kept[k] + 1]
  <2>1. g.mid = plan.batch \o slice
    BY <1>1
  <2> HIDE DEF slice
  <2>2. Follows(plan.batch \o slice, plan.batch, slice)
    BY <1>7, <1>11, OneAfterAnother
  <2>3. /\ DOMAIN g.mid = 1 .. Len(plan.batch) + Len(slice)
        /\ \A i \in 1 .. Len(plan.batch) : g.mid[i] = plan.batch[i]
        /\ \A k \in 1 .. Len(slice) : g.mid[Len(plan.batch) + k] = slice[k]
    BY <2>1, <2>2, Zenon DEF Follows
  <2>4. Len(plan.batch) = nb /\ Len(slice) = nw
    BY <1>8, <1>11
  <2> QED
    BY <1>11, <2>3, <2>4
<1>13. /\ \A i \in 1 .. nb : At(g.perm, i) = others[i] + 1 /\ g.perm[others[i] + 1] = i
       /\ \A k \in 1 .. nw : At(g.perm, nb + k) = x.offset[k] + 1 /\ g.perm[x.offset[k] + 1] = nb + k
  <2>1. g.perm = [d \in 1 .. R |->
                    IF Has(x.offset, d - 1) THEN Len(others) + At(x.offset, d - 1) ELSE At(others, d - 1)]
    BY <1>1, <1>2
  <2>2. Inverts(g.perm, others, x.offset)
    BY <1>3, <2>1, TransposedBack
  <2>3. Len(others) = nb
    BY <1>1, <1>8
  <2> QED
    BY <1>10, <2>2, <2>3 DEF Inverts
<1>14. \A d \in 1 .. R : o[d] \in Nat /\ o[d] < x.outShape[d] /\ x.outShape[d] = g.mid[g.perm[d]]
  <2>1. DOMAIN g.perm = 1 .. R
    BY <1>1, <1>2
  <2> QED
    BY <1>1, <1>2, <2>1 DEF Box
<1>15. (\A i \in 1 .. nb : others[i] + 1 \in 1 .. R) /\ \A k \in 1 .. nw : x.offset[k] + 1 \in 1 .. R
  BY <1>9, <1>10
<1>16. \A i \in 1 .. nb : b[i] \in Nat /\ b[i] < plan.batch[i] /\ b[i] = o[others[i] + 1]
  <2> SUFFICES ASSUME NEW i \in 1 .. nb
               PROVE  b[i] \in Nat /\ b[i] < plan.batch[i] /\ b[i] = o[others[i] + 1]
    OBVIOUS
  <2>1. b[i] = o[others[i] + 1] /\ others[i] + 1 \in 1 .. R
    BY <1>10, <1>15
  <2>2. g.perm[others[i] + 1] = i /\ g.mid[i] = plan.batch[i]
    BY <1>12, <1>13
  <2> HIDE DEF b
  <2> QED
    BY <1>14, <2>1, <2>2
<1>17. \A k \in 1 .. nw : o[x.offset[k] + 1] \in Nat /\ o[x.offset[k] + 1] < x.sizes[kept[k] + 1]
  BY <1>12, <1>13, <1>14, <1>15
<1>18. \A i \in 1 .. nb : i \in 1 .. nb + nw /\ m[i] = b[i]
  BY <1>12, <1>13, <1>16
<1>19. \A k \in 1 .. nw : nb + k \in 1 .. nb + nw /\ m[nb + k] = o[x.offset[k] + 1]
  BY <1>12, <1>13
<1>20. m \in Seq(Nat) /\ Len(m) = nb + nw
  <2>1. DOMAIN m = 1 .. nb + nw
    BY <1>12
  <2>2. \A i \in 1 .. nb + nw : i \in 1 .. nb \/ (i - nb \in 1 .. nw /\ i = nb + (i - nb))
    OBVIOUS
  <2>3. \A i \in 1 .. nb + nw : m[i] \in Nat
    <3> HIDE DEF m, b
    <3> QED
      BY <1>16, <1>17, <1>18, <1>19, <2>2
  <2>4. m = [i \in 1 .. nb + nw |-> m[i]]
    BY <1>12
  <2> HIDE DEF m
  <2>5. m \in [1 .. nb + nw -> Nat]
    BY <2>3, <2>4
  <2> QED
    BY <2>5
<1>21. b = [i \in 1 .. nb |-> b[i]]
  BY <1>10
<1> HIDE DEF m, b
<1>22. SubSeq(m, 1, nb) = b
  <2>1. SubSeq(m, 1, nb) = [i \in 1 .. nb |-> m[i]]
    BY <1>20
  <2> QED
    BY <1>18, <1>21, <2>1
<1>23. \A k \in 1 .. nw : SubSeq(m, nb + 1, Len(m))[k] = o[x.offset[k] + 1]
  <2>1. \A k \in 1 .. nw : SubSeq(m, nb + 1, nb + nw)[k] = m[nb + k]
    BY <1>20
  <2> QED
    BY <1>19, <1>20, <2>1
<1>24. b \in Box(plan.batch)
  BY <1>8, <1>16, <1>21 DEF Box
<1> QED
  BY <1>6, <1>8, <1>17, <1>22, <1>23, <1>24 DEF m, b, InParts

\* Element by element, a lowered gather reads what StableHLO's reads.
LEMMA GatherReadsOne ==
  ASSUME NEW x, NEW plan, NEW gone, NEW kept, NEW others, NEW g,
         GatherFormed(x), GatherLowered(x, plan, gone, kept, others, g), NEW o \in Box(x.outShape)
  PROVE  Gathered(x, g, o) = GatherReads(x, o) /\ Gathered(x, g, o) \in Box(x.opShape)
<1>2. /\ plan = BuildIndexPlan(x, x.sizes) /\ Planned(x, x.sizes, plan)
      /\ gone = x.collapsed \cup ToSet(x.opBatching) /\ kept = Kept(Len(x.opShape), gone)
      /\ Parted(Len(x.outShape), x.offset, others) /\ g.plan = plan /\ g.gone = gone
      /\ \A d \in gone : x.sizes[d + 1] = 1
  BY Zenon DEF GatherLowered
<1>3. others = Kept(Len(x.outShape), ToSet(x.offset))
  BY <1>2 DEF Parted
<1> DEFINE m == [i \in DOMAIN g.mid |-> o[At(g.perm, i)]]
           nb == Len(plan.batch)
           b == [i \in DOMAIN others |-> o[others[i] + 1]]
           w == SubSeq(m, nb + 1, Len(m))
           start(d) == Start(plan, IndexAt(x, plan, b), d - 1)
           off(d) == IF d - 1 \in gone THEN 0 ELSE o[x.offset[At(kept, d - 1)] + 1]
<1>4. /\ SubSeq(m, 1, nb) = b /\ b \in Box(plan.batch)
      /\ \A k \in DOMAIN kept :
           w[k] = o[x.offset[k] + 1] /\ o[x.offset[k] + 1] \in Nat /\ o[x.offset[k] + 1] < x.sizes[kept[k] + 1]
  <2>1. InParts(x, plan, kept, others, g, o)
    BY ResultParts
  <2> QED
    BY <2>1, Zenon DEF InParts
<1>5. PICK r \in Nat : Len(x.opShape) = r /\ DOMAIN x.opShape = 1 .. r /\ x.opShape \in [1 .. r -> Nat]
  <2>1. x.opShape \in Seq(Nat)
    BY DEF GatherFormed, IndicesFormed
  <2> QED
    BY <2>1, Spanned, Zenon
<1>6. InOrder(kept, r, gone)
  BY <1>2, <1>5, KeptIs
<1>7. Reading(x, x.sizes, plan, b)
  <2>1. \A d \in DOMAIN x.opShape : x.sizes[d] \in Nat /\ x.sizes[d] <= x.opShape[d]
    <3>1. x.sizes \in Seq(Nat) /\ Len(x.sizes) = r /\ \A d \in DOMAIN x.sizes : x.sizes[d] <= x.opShape[d]
      BY <1>5 DEF GatherFormed
    <3>2. DOMAIN x.sizes = 1 .. r /\ \A d \in 1 .. r : x.sizes[d] \in Nat
      BY <3>1
    <3> QED
      BY <1>5, <3>1, <3>2
  <2>2. \A i \in DOMAIN x.opBatching : x.sizes[x.opBatching[i] + 1] = 1
    BY <1>2 DEF ToSet
  <2>3. Slices(x, x.sizes)
    BY <2>1, <2>2 DEF Slices
  <2>4. IndicesFormed(x)
    BY DEF GatherFormed
  <2> QED
    BY <1>2, <1>4, <2>3, <2>4, Zenon DEF Reading
<1> HIDE DEF m, b, nb, w
<1>8. ASSUME NEW d \in 1 .. r
      PROVE  /\ Spread(r, gone, w)[d] = off(d)
             /\ start(d) = ClampedStart(x, x.sizes, b, d - 1) + BatchingOf(x, b, d - 1)
             /\ start(d) + off(d) \in Nat /\ start(d) + off(d) < x.opShape[d]
  <2>1. /\ start(d) = ClampedStart(x, x.sizes, b, d - 1) + BatchingOf(x, b, d - 1)
        /\ start(d) \in Nat /\ start(d) + x.sizes[d] <= x.opShape[d]
    BY <1>5, <1>7, PlanStarts
  <2>2. d - 1 \in 0 .. r - 1 /\ (d - 1) + 1 = d /\ x.opShape[d] \in Nat
    BY <1>5
  <2>3. off(d) \in Nat /\ off(d) < x.sizes[d] /\ Spread(r, gone, w)[d] = off(d)
    <3>1. CASE d - 1 \in gone
      <4>1. x.sizes[d] = 1
        BY <1>2, <2>2, <3>1
      <4>2. Spread(r, gone, w)[d] = 0
        BY <3>1 DEF Spread
      <4> QED
        BY <3>1, <4>1, <4>2
    <3>2. CASE d - 1 \notin gone
      <4>1. Has(kept, d - 1)
        BY <1>6, <2>2, <3>2 DEF InOrder
      <4>2. PICK k \in DOMAIN kept : k = At(kept, d - 1) /\ kept[k] = d - 1
        BY <4>1, AtIs
      <4>3. Spread(r, gone, w)[d] = w[k]
        BY <1>2, <1>5, <3>2, <4>2 DEF Spread
      <4>4. off(d) = o[x.offset[k] + 1]
        BY <3>2, <4>2
      <4>5. kept[k] + 1 = d
        BY <2>2, <4>2
      <4> HIDE DEF off
      <4> QED
        BY <1>4, <4>3, <4>4, <4>5
    <3> QED
      BY <3>1, <3>2
  <2>4. x.sizes[d] \in Nat
    BY <1>5, <1>7 DEF Reading, Slices
  <2> HIDE DEF start, off
  <2> QED
    BY <2>1, <2>2, <2>3, <2>4
<1>9. Gathered(x, g, o) = [d \in 1 .. r |-> start(d) + off(d)]
  <2>1. Gathered(x, g, o) = Located(plan, IndexAt(x, plan, b), Spread(r, gone, w))
    <3>1. Gathered(x, g, o) = Located(g.plan, IndexAt(x, g.plan, SubSeq(m, 1, Len(g.plan.batch))),
                                 Spread(Len(x.opShape), g.gone, SubSeq(m, Len(g.plan.batch) + 1, Len(m))))
      BY DEF Gathered, m
    <3> QED
      BY <1>2, <1>4, <1>5, <3>1 DEF nb, w
  <2>2. DOMAIN Spread(r, gone, w) = 1 .. r
    BY DEF Spread
  <2>3. Gathered(x, g, o) = [d \in 1 .. r |-> start(d) + Spread(r, gone, w)[d]]
    BY <2>1, <2>2 DEF Located
  <2> HIDE DEF start, off
  <2> QED
    BY <1>8, <2>3
<1>10. GatherReads(x, o) = [d \in 1 .. r |-> ClampedStart(x, x.sizes, b, d - 1) + BatchingOf(x, b, d - 1) + off(d)]
  BY <1>2, <1>3, <1>5 DEF GatherReads, b
<1> HIDE DEF start, off
<1>11. Gathered(x, g, o) = GatherReads(x, o)
  BY <1>8, <1>9, <1>10
<1>12. Gathered(x, g, o) \in Box(x.opShape)
  BY <1>5, <1>8, <1>9 DEF Box
<1> QED
  BY <1>11, <1>12

\* So every element of a gather's result is exact.
LEMMA GathersAreExact ==
  ASSUME input.kind = "gather" => GatherFormed(input)
  PROVE  GatherReadsItsElements
<1> SUFFICES ASSUME input.kind = "gather", ~ LowerGather(input).refused, NEW o \in Coords(input.outShape)
             PROVE  /\ Gathered(input, LowerGather(input), o) = GatherReads(input, o)
                    /\ Gathered(input, LowerGather(input), o) \in Coords(input.opShape)
  BY Zenon DEF GatherReadsItsElements
<1>1. GatherFormed(input)
  OBVIOUS
<1>2. input.outShape \in Seq(Nat) /\ input.opShape \in Seq(Nat)
  BY <1>1 DEF GatherFormed, IndicesFormed
<1>3. Coords(input.outShape) = Box(input.outShape) /\ Coords(input.opShape) = Box(input.opShape)
  BY <1>2, CoordsAre
<1>4. o \in Box(input.outShape)
  BY <1>3
<1>5. PICK plan, gone, kept, others : GatherLowered(input, plan, gone, kept, others, LowerGather(input))
  BY <1>1, GatherIsLowered, Zenon
<1>6. /\ Gathered(input, LowerGather(input), o) = GatherReads(input, o)
      /\ Gathered(input, LowerGather(input), o) \in Box(input.opShape)
  BY <1>1, <1>4, <1>5, GatherReadsOne, Zenon
<1> QED
  BY <1>3, <1>6

---------------------------------------------------------------------------
\* A scatter that is lowered: the operand's rank and the dimensions of it a
\* window spans, those of the updates outside the window, and the plan.
ScatterLowered(x, r, kept, others, s) ==
  /\ r \in Nat /\ Len(x.opShape) = r /\ DOMAIN x.opShape = 1 .. r /\ x.opShape \in [1 .. r -> Nat]
  /\ s.gone = x.inserted \cup ToSet(x.opBatching)
  /\ kept = Kept(r, s.gone) /\ InOrder(kept, r, s.gone) /\ Distinct(kept)
  /\ x.updShape \in Seq(Nat) /\ Parted(Len(x.updShape), x.window, others)
  /\ Len(x.window) = Len(kept)
  /\ s.plan.batch = [i \in DOMAIN others |-> x.updShape[others[i] + 1]]
  /\ s.uperm = others \o x.window
  /\ s.sshape = [d \in 1 .. r |-> IF d - 1 \in s.gone THEN 1 ELSE x.updShape[x.window[At(kept, d - 1)] + 1]]
  /\ s.sshape = SliceShape(x) /\ s.plan = BuildIndexPlan(x, s.sshape)

\* LowerScatter lowers what the verifier admits so.
LEMMA ScatterIsLowered ==
  ASSUME NEW x, ScatterFormed(x)
  PROVE  \E r, kept, others : ScatterLowered(x, r, kept, others, LowerScatter(x))
<1> DEFINE s == LowerScatter(x)
           gone == x.inserted \cup ToSet(x.opBatching)
           others == Kept(Len(x.updShape), ToSet(x.window))
<1>1. /\ s.gone = gone /\ s.uperm = others \o x.window
      /\ s.sshape = SliceShape(x) /\ s.plan = BuildIndexPlan(x, SliceShape(x))
  BY DEF LowerScatter
<1> HIDE DEF s
<1>2. /\ IndicesFormed(x) /\ x.updShape \in Seq(Nat) /\ x.window \in Seq(Dims(x.updShape)) /\ Distinct(x.window)
      /\ Len(x.window) = Len(Kept(Len(x.opShape), gone))
      /\ BuildIndexPlan(x, SliceShape(x)).batch = [i \in DOMAIN others |-> x.updShape[others[i] + 1]]
  BY Zenon DEF ScatterFormed
<1>3. PICK r \in Nat : Len(x.opShape) = r /\ DOMAIN x.opShape = 1 .. r /\ x.opShape \in [1 .. r -> Nat]
  <2>1. x.opShape \in Seq(Nat)
    BY <1>2 DEF IndicesFormed
  <2> QED
    BY <2>1, Spanned, Zenon
<1> DEFINE kept == Kept(r, gone)
<1>4. InOrder(kept, r, gone) /\ Distinct(kept)
  <2>1. InOrder(kept, r, gone)
    BY <1>3, KeptIs
  <2> QED
    BY <1>3, <2>1, InOrderDistinct
<1>5. Parted(Len(x.updShape), x.window, others)
  <2>1. Len(x.updShape) \in Nat
    BY <1>2
  <2> QED
    BY <1>2, <2>1 DEF Parted, Dims
<1>6. SliceShape(x) = [d \in 1 .. r |-> IF d - 1 \in gone THEN 1 ELSE x.updShape[x.window[At(kept, d - 1)] + 1]]
  BY <1>3 DEF SliceShape
<1>7. Len(x.window) = Len(kept)
  BY <1>2, <1>3
<1> HIDE DEF gone, others, kept
<1>8. kept = Kept(r, s.gone)
  BY <1>1 DEF kept
<1>9. InOrder(kept, r, s.gone) /\ s.gone = x.inserted \cup ToSet(x.opBatching)
  BY <1>1, <1>4 DEF gone
<1>10. s.plan.batch = [i \in DOMAIN others |-> x.updShape[others[i] + 1]]
  BY <1>1, <1>2
<1>11. s.sshape = [d \in 1 .. r |-> IF d - 1 \in s.gone THEN 1 ELSE x.updShape[x.window[At(kept, d - 1)] + 1]]
  BY <1>1, <1>6
<1>12. s.plan = BuildIndexPlan(x, s.sshape)
  BY <1>1
<1>13. ScatterLowered(x, r, kept, others, s)
  BY <1>1, <1>2, <1>3, <1>4, <1>5, <1>7, <1>8, <1>9, <1>10, <1>11, <1>12, Zenon DEF ScatterLowered
<1> QED
  BY <1>13, Zenon DEF s

\* Along a dimension inserted or batched over an update has one element,
\* along another as many as its window dimension.
LEMMA SliceShapeIs ==
  ASSUME NEW x, NEW r, NEW kept, NEW others, NEW s, ScatterLowered(x, r, kept, others, s)
  PROVE  /\ DOMAIN s.sshape = 1 .. r
         /\ \A d \in 1 .. r : s.sshape[d] \in Nat
         /\ \A d \in 1 .. r : d - 1 \in s.gone => s.sshape[d] = 1
         /\ \A k \in DOMAIN kept :
              /\ k \in DOMAIN x.window /\ kept[k] + 1 \in 1 .. r
              /\ s.sshape[kept[k] + 1] = x.updShape[x.window[k] + 1]
<1>1. /\ r \in Nat /\ InOrder(kept, r, s.gone) /\ Distinct(kept)
      /\ x.updShape \in Seq(Nat) /\ Parted(Len(x.updShape), x.window, others) /\ Len(x.window) = Len(kept)
      /\ s.sshape = [d \in 1 .. r |-> IF d - 1 \in s.gone THEN 1 ELSE x.updShape[x.window[At(kept, d - 1)] + 1]]
  BY Zenon DEF ScatterLowered
<1>2. PICK n \in Nat : Len(x.updShape) = n /\ DOMAIN x.updShape = 1 .. n /\ x.updShape \in [1 .. n -> Nat]
  BY <1>1, Spanned, Zenon
<1>3. kept \in Seq(0 .. r - 1) /\ x.window \in Seq(0 .. n - 1)
  BY <1>1, <1>2 DEF InOrder, Parted
<1>4. PICK m \in Nat : Len(kept) = m /\ DOMAIN kept = 1 .. m /\ kept \in [1 .. m -> 0 .. r - 1]
  BY <1>3, Spanned, Zenon
<1>5. DOMAIN x.window = 1 .. m /\ x.window \in [1 .. m -> 0 .. n - 1]
  <2>1. PICK w \in Nat : Len(x.window) = w /\ DOMAIN x.window = 1 .. w /\ x.window \in [1 .. w -> 0 .. n - 1]
    BY <1>3, Spanned, Zenon
  <2>2. w = m
    BY <1>1, <1>4, <2>1
  <2> QED
    BY <2>1, <2>2
<1>6. \A k \in 1 .. m : x.updShape[x.window[k] + 1] \in Nat
  BY <1>2, <1>5
<1>7. DOMAIN s.sshape = 1 .. r
  BY <1>1
<1>8. ASSUME NEW d \in 1 .. r
      PROVE  s.sshape[d] \in Nat /\ (d - 1 \in s.gone => s.sshape[d] = 1)
  <2>1. CASE d - 1 \in s.gone
    BY <1>1, <2>1
  <2>2. CASE d - 1 \notin s.gone
    <3>1. Has(kept, d - 1)
      <4>1. d - 1 \in 0 .. r - 1
        BY <1>1
      <4> QED
        BY <1>1, <2>2, <4>1 DEF InOrder
    <3>2. At(kept, d - 1) \in 1 .. m
      BY <1>4, <3>1, AtIs
    <3>3. s.sshape[d] = x.updShape[x.window[At(kept, d - 1)] + 1]
      BY <1>1, <2>2
    <3> QED
      BY <1>6, <2>2, <3>2, <3>3
  <2> QED
    BY <2>1, <2>2
<1>9. ASSUME NEW k \in 1 .. m
      PROVE  kept[k] + 1 \in 1 .. r /\ s.sshape[kept[k] + 1] = x.updShape[x.window[k] + 1]
  <2>1. kept[k] \in 0 .. r - 1 /\ (kept[k] + 1) - 1 = kept[k] /\ kept[k] + 1 \in 1 .. r
    BY <1>1, <1>4
  <2>2. kept[k] \notin s.gone
    BY <1>1, <1>4 DEF InOrder
  <2>3. At(kept, kept[k]) = k
    BY <1>1, <1>4, AtOf
  <2> QED
    BY <1>1, <2>1, <2>2, <2>3
<1> QED
  BY <1>4, <1>5, <1>7, <1>8, <1>9

\* A dimension of the updates is a window's or another.
Spans(x, r, kept, others, n, m, nb) ==
  /\ Len(x.updShape) = n /\ DOMAIN x.updShape = 1 .. n /\ x.updShape \in [1 .. n -> Nat]
  /\ Len(kept) = m /\ DOMAIN kept = 1 .. m /\ kept \in [1 .. m -> 0 .. r - 1]
  /\ Len(x.window) = m /\ DOMAIN x.window = 1 .. m /\ x.window \in [1 .. m -> 0 .. n - 1]
  /\ Len(others) = nb /\ DOMAIN others = 1 .. nb /\ others \in [1 .. nb -> 0 .. n - 1]
  /\ Parted(n, x.window, others)
  /\ \A d \in 1 .. n : \/ \E k \in 1 .. m : d = x.window[k] + 1
                       \/ \E i \in 1 .. nb : d = others[i] + 1

\* The dimensions of the updates are the window's and the batch's.
LEMMA UpdateDims ==
  ASSUME NEW x, NEW r, NEW kept, NEW others, NEW s, ScatterLowered(x, r, kept, others, s)
  PROVE  \E n, m, nb \in Nat : Spans(x, r, kept, others, n, m, nb)
<1>1. /\ r \in Nat /\ InOrder(kept, r, s.gone) /\ x.updShape \in Seq(Nat)
      /\ Parted(Len(x.updShape), x.window, others) /\ Len(x.window) = Len(kept)
  BY Zenon DEF ScatterLowered
<1>2. PICK n \in Nat : Len(x.updShape) = n /\ DOMAIN x.updShape = 1 .. n /\ x.updShape \in [1 .. n -> Nat]
  BY <1>1, Spanned, Zenon
<1>3. Parted(n, x.window, others) /\ kept \in Seq(0 .. r - 1)
  BY <1>1, <1>2 DEF InOrder
<1>4. PICK m \in Nat : Len(kept) = m /\ DOMAIN kept = 1 .. m /\ kept \in [1 .. m -> 0 .. r - 1]
  BY <1>3, Spanned, Zenon
<1>5. /\ x.window \in Seq(0 .. n - 1) /\ others \in Seq(0 .. n - 1)
      /\ \A d \in 0 .. n - 1 : Has(x.window, d) \/ Has(others, d)
  BY <1>3, PartedIs
<1>6. PICK w \in Nat : Len(x.window) = w /\ DOMAIN x.window = 1 .. w /\ x.window \in [1 .. w -> 0 .. n - 1]
  BY <1>5, Spanned, Zenon
<1>7. w = m
  BY <1>1, <1>4, <1>6
<1>8. PICK nb \in Nat : Len(others) = nb /\ DOMAIN others = 1 .. nb /\ others \in [1 .. nb -> 0 .. n - 1]
  BY <1>5, Spanned, Zenon
<1>9. ASSUME NEW d \in 1 .. n
      PROVE  \/ \E k \in 1 .. m : d = x.window[k] + 1
             \/ \E i \in 1 .. nb : d = others[i] + 1
  <2>1. d - 1 \in 0 .. n - 1 /\ d = (d - 1) + 1
    OBVIOUS
  <2>2. CASE Has(x.window, d - 1)
    BY <1>6, <1>7, <2>1, <2>2 DEF Has
  <2>3. CASE Has(others, d - 1)
    BY <1>8, <2>1, <2>3 DEF Has
  <2> QED
    BY <1>5, <2>1, <2>2, <2>3
<1>10. Len(x.window) = m /\ DOMAIN x.window = 1 .. m /\ x.window \in [1 .. m -> 0 .. n - 1]
  BY <1>6, <1>7
<1>11. Spans(x, r, kept, others, n, m, nb)
  BY <1>2, <1>3, <1>4, <1>8, <1>9, <1>10, Zenon DEF Spans
<1> QED
  BY <1>11, Zenon

\* The update element of a batch coordinate and an element of the window, and
\* both of an update element.
Merged(x, s, kept, b, w) ==
  [d \in DOMAIN x.updShape |->
     (b \o [i \in DOMAIN kept |-> w[kept[i] + 1]])[At(s.uperm, d - 1)]]
BatchPart(others, u) == [i \in DOMAIN others |-> u[others[i] + 1]]
WindowPart(x, r, kept, s, u) ==
  [d \in 1 .. r |-> IF d - 1 \in s.gone THEN 0 ELSE u[x.window[At(kept, d - 1)] + 1]]

Merges(x, s, kept, others, b, w) ==
  /\ \A k \in DOMAIN kept : Merged(x, s, kept, b, w)[x.window[k] + 1] = w[kept[k] + 1]
  /\ \A i \in DOMAIN others : Merged(x, s, kept, b, w)[others[i] + 1] = b[i]

\* Where the parts of an update element lie in it.
LEMMA MergedAt ==
  ASSUME NEW x, NEW r, NEW kept, NEW others, NEW s, ScatterLowered(x, r, kept, others, s),
         NEW b, NEW w, b \in [DOMAIN others -> Nat], w \in [1 .. r -> Nat]
  PROVE  Merges(x, s, kept, others, b, w)
<1> DEFINE tail == [i \in DOMAIN kept |-> w[kept[i] + 1]]
           both == b \o tail
<1>0. PICK n, m, nb \in Nat : Spans(x, r, kept, others, n, m, nb)
  BY UpdateDims, Zenon
<1>1. /\ Len(x.updShape) = n /\ DOMAIN x.updShape = 1 .. n
      /\ DOMAIN kept = 1 .. m /\ kept \in [1 .. m -> 0 .. r - 1]
      /\ DOMAIN x.window = 1 .. m /\ x.window \in [1 .. m -> 0 .. n - 1]
      /\ Len(others) = nb /\ DOMAIN others = 1 .. nb /\ others \in [1 .. nb -> 0 .. n - 1]
      /\ Parted(n, x.window, others)
  BY <1>0, Zenon DEF Spans
<1>10. DOMAIN kept = 1 .. m /\ kept \in [1 .. m -> 0 .. r - 1]
  BY <1>1
<1>11. Parted(n, x.window, others)
  BY <1>1
<1>12. DOMAIN x.window = 1 .. m /\ x.window \in [1 .. m -> 0 .. n - 1]
  BY <1>1
<1>13. Len(others) = nb /\ DOMAIN others = 1 .. nb
  BY <1>1
<1>14. others \in [1 .. nb -> 0 .. n - 1]
  BY <1>1
<1>2. r \in Nat /\ s.uperm = others \o x.window
  BY Zenon DEF ScatterLowered
<1>3. /\ Distinct(others) /\ Distinct(x.window)
      /\ \A i \in DOMAIN others : ~ Has(x.window, others[i])
  <2>1. Distinct(others) /\ \A i \in DOMAIN others : ~ Has(x.window, others[i])
    BY <1>11, PartedIs
  <2>2. Distinct(x.window)
    BY <1>11 DEF Parted
  <2> QED
    BY <2>1, <2>2
<1>4. b \in Seq(Nat) /\ Len(b) = nb
  BY <1>13
<1>5. tail \in Seq(Nat) /\ Len(tail) = m
  <2>1. \A i \in 1 .. m : w[kept[i] + 1] \in Nat
    <3> SUFFICES ASSUME NEW i \in 1 .. m PROVE w[kept[i] + 1] \in Nat
      OBVIOUS
    <3>1. kept[i] \in 0 .. r - 1
      BY <1>10
    <3>2. kept[i] + 1 \in 1 .. r
      BY <1>2, <3>1
    <3> QED
      BY <3>2
  <2> QED
    BY <1>10, <2>1
<1> HIDE DEF tail
<1> HIDE DEF both
<1>6. /\ \A i \in 1 .. nb : both[i] = b[i]
      /\ \A k \in 1 .. m : both[nb + k] = tail[k]
  <2>1. Follows(both, b, tail)
    BY <1>4, <1>5, OneAfterAnother DEF both
  <2> QED
    BY <1>4, <1>5, <2>1 DEF Follows
<1>7. \A d \in 1 .. n : Merged(x, s, kept, b, w)[d] = both[At(others \o x.window, d - 1)]
  BY <1>1, <1>2 DEF Merged, both, tail
<1>8. ASSUME NEW k \in 1 .. m
      PROVE  Merged(x, s, kept, b, w)[x.window[k] + 1] = w[kept[k] + 1]
  <2>1. x.window[k] \in 0 .. n - 1 /\ x.window[k] + 1 \in 1 .. n /\ (x.window[k] + 1) - 1 = x.window[k]
    <3>1. x.window[k] \in 0 .. n - 1
      BY <1>12
    <3> QED
      BY <3>1
  <2>2. Has(x.window, x.window[k]) /\ At(x.window, x.window[k]) = k
    BY <1>12, <1>3, AtOf
  <2>3. At(others \o x.window, x.window[k]) = nb + k
    BY <1>11, <1>13, <2>1, <2>2, TransposedFront
  <2>4. tail[k] = w[kept[k] + 1]
    BY <1>10 DEF tail
  <2> QED
    BY <1>6, <1>7, <2>1, <2>3, <2>4
<1>9. ASSUME NEW i \in 1 .. nb
      PROVE  Merged(x, s, kept, b, w)[others[i] + 1] = b[i]
  <2>1. others[i] \in 0 .. n - 1 /\ others[i] + 1 \in 1 .. n /\ (others[i] + 1) - 1 = others[i]
    <3>1. others[i] \in 0 .. n - 1
      BY <1>14
    <3> QED
      BY <3>1
  <2>2. At(others, others[i]) = i /\ ~ Has(x.window, others[i])
    BY <1>13, <1>3, AtOf
  <2>3. At(others \o x.window, others[i]) = i
    BY <1>11, <2>1, <2>2, TransposedFront
  <2> QED
    BY <1>6, <1>7, <2>1, <2>3
<1> QED
  BY <1>1, <1>8, <1>9 DEF Merges

\* An update element is a batch coordinate and an element of the window...
LEMMA MergedIs ==
  ASSUME NEW x, NEW r, NEW kept, NEW others, NEW s, ScatterLowered(x, r, kept, others, s),
         NEW b \in Box(s.plan.batch), NEW w \in Box(s.sshape)
  PROVE  /\ b \in [DOMAIN others -> Nat] /\ w \in [1 .. r -> Nat]
         /\ Merged(x, s, kept, b, w) \in Box(x.updShape)
         /\ BatchPart(others, Merged(x, s, kept, b, w)) = b
         /\ WindowPart(x, r, kept, s, Merged(x, s, kept, b, w)) = w
<1> DEFINE u == Merged(x, s, kept, b, w)
<1>1. PICK n, m, nb \in Nat : Spans(x, r, kept, others, n, m, nb)
  BY UpdateDims, Zenon
<1>2. /\ DOMAIN x.updShape = 1 .. n /\ DOMAIN kept = 1 .. m /\ DOMAIN others = 1 .. nb
      /\ \A d \in 1 .. n : \/ \E k \in 1 .. m : d = x.window[k] + 1
                           \/ \E i \in 1 .. nb : d = others[i] + 1
  BY <1>1, Zenon DEF Spans
<1>3. s.plan.batch = [i \in DOMAIN others |-> x.updShape[others[i] + 1]]
  BY Zenon DEF ScatterLowered
<1>4. /\ DOMAIN s.sshape = 1 .. r
      /\ \A d \in 1 .. r : d - 1 \in s.gone => s.sshape[d] = 1
      /\ \A k \in 1 .. m : kept[k] + 1 \in 1 .. r /\ s.sshape[kept[k] + 1] = x.updShape[x.window[k] + 1]
  BY <1>2, SliceShapeIs
<1>5. b \in [DOMAIN others -> Nat] /\ \A i \in 1 .. nb : b[i] \in Nat /\ b[i] < x.updShape[others[i] + 1]
  BY <1>2, <1>3 DEF Box
<1>6. w \in [1 .. r -> Nat] /\ \A d \in 1 .. r : w[d] \in Nat /\ w[d] < s.sshape[d]
  BY <1>4 DEF Box
<1>7. /\ \A k \in 1 .. m : u[x.window[k] + 1] = w[kept[k] + 1]
      /\ \A i \in 1 .. nb : u[others[i] + 1] = b[i]
  <2>1. Merges(x, s, kept, others, b, w)
    BY <1>5, <1>6, MergedAt, Zenon
  <2> QED
    BY <1>2, <2>1, Zenon DEF Merges
<1>8. DOMAIN u = 1 .. n /\ u = [d \in 1 .. n |-> u[d]]
  BY <1>2 DEF Merged
<1> HIDE DEF u
<1>9. ASSUME NEW d \in 1 .. n
      PROVE  u[d] \in Nat /\ u[d] < x.updShape[d]
  <2>1. CASE \E k \in 1 .. m : d = x.window[k] + 1
    BY <1>4, <1>6, <1>7, <2>1
  <2>2. CASE \E i \in 1 .. nb : d = others[i] + 1
    BY <1>5, <1>7, <2>2
  <2> QED
    BY <1>2, <2>1, <2>2
<1>10. u \in Box(x.updShape)
  BY <1>2, <1>8, <1>9 DEF Box
<1>11. BatchPart(others, u) = b
  BY <1>2, <1>5, <1>7 DEF BatchPart
<1>12. ASSUME NEW d \in 1 .. r
       PROVE  WindowPart(x, r, kept, s, u)[d] = w[d]
  <2>1. CASE d - 1 \in s.gone
    <3>1. WindowPart(x, r, kept, s, u)[d] = 0
      BY <2>1 DEF WindowPart
    <3>2. s.sshape[d] = 1
      BY <1>4, <2>1
    <3>3. w[d] \in Nat /\ w[d] < 1
      BY <1>6, <3>2
    <3> QED
      BY <3>1, <3>3
  <2>2. CASE d - 1 \notin s.gone
    <3>1. r \in Nat /\ InOrder(kept, r, s.gone)
      BY Zenon DEF ScatterLowered
    <3>2. Has(kept, d - 1)
      <4>1. d - 1 \in 0 .. r - 1
        BY <3>1
      <4> QED
        BY <2>2, <3>1, <4>1 DEF InOrder
    <3>3. PICK k \in 1 .. m : k = At(kept, d - 1) /\ kept[k] = d - 1
      BY <1>2, <3>2, AtIs
    <3>4. WindowPart(x, r, kept, s, u)[d] = u[x.window[k] + 1]
      BY <2>2, <3>3 DEF WindowPart
    <3>5. kept[k] + 1 = d
      BY <3>1, <3>3
    <3> QED
      BY <1>7, <3>4, <3>5
  <2> QED
    BY <2>1, <2>2
<1>13. WindowPart(x, r, kept, s, u) = w
  <2>1. WindowPart(x, r, kept, s, u) = [d \in 1 .. r |-> WindowPart(x, r, kept, s, u)[d]]
    BY DEF WindowPart
  <2>2. w = [d \in 1 .. r |-> w[d]]
    BY <1>6
  <2> QED
    BY <1>12, <2>1, <2>2
<1> QED
  BY <1>5, <1>6, <1>10, <1>11, <1>13 DEF u

\* ...and each is.
LEMMA PartsMerge ==
  ASSUME NEW x, NEW r, NEW kept, NEW others, NEW s, ScatterLowered(x, r, kept, others, s),
         NEW u \in Box(x.updShape)
  PROVE  /\ BatchPart(others, u) \in Box(s.plan.batch)
         /\ WindowPart(x, r, kept, s, u) \in Box(s.sshape)
         /\ Merged(x, s, kept, BatchPart(others, u), WindowPart(x, r, kept, s, u)) = u
<1> DEFINE b == BatchPart(others, u)
           w == WindowPart(x, r, kept, s, u)
<1>1. PICK n, m, nb \in Nat : Spans(x, r, kept, others, n, m, nb)
  BY UpdateDims, Zenon
<1>2. /\ DOMAIN x.updShape = 1 .. n /\ DOMAIN kept = 1 .. m /\ DOMAIN others = 1 .. nb
      /\ \A d \in 1 .. n : \/ \E k \in 1 .. m : d = x.window[k] + 1
                           \/ \E i \in 1 .. nb : d = others[i] + 1
  BY <1>1, Zenon DEF Spans
<1>3. /\ s.plan.batch = [i \in DOMAIN others |-> x.updShape[others[i] + 1]]
      /\ r \in Nat /\ InOrder(kept, r, s.gone) /\ Distinct(kept)
  BY Zenon DEF ScatterLowered
<1>4. /\ DOMAIN s.sshape = 1 .. r
      /\ \A d \in 1 .. r : d - 1 \in s.gone => s.sshape[d] = 1
      /\ \A k \in 1 .. m : kept[k] + 1 \in 1 .. r /\ s.sshape[kept[k] + 1] = x.updShape[x.window[k] + 1]
  BY <1>2, SliceShapeIs
<1>5. u = [d \in 1 .. n |-> u[d]] /\ \A d \in 1 .. n : u[d] \in Nat /\ u[d] < x.updShape[d]
  BY <1>2 DEF Box
<1>6. \A i \in 1 .. nb : others[i] + 1 \in 1 .. n
  <2> SUFFICES ASSUME NEW i \in 1 .. nb PROVE others[i] + 1 \in 1 .. n
    OBVIOUS
  <2>1. others \in [1 .. nb -> 0 .. n - 1]
    BY <1>1, Zenon DEF Spans
  <2>2. others[i] \in 0 .. n - 1
    BY <2>1
  <2> QED
    BY <2>2
<1>7. \A k \in 1 .. m : x.window[k] + 1 \in 1 .. n
  <2> SUFFICES ASSUME NEW k \in 1 .. m PROVE x.window[k] + 1 \in 1 .. n
    OBVIOUS
  <2>1. x.window \in [1 .. m -> 0 .. n - 1]
    BY <1>1, Zenon DEF Spans
  <2>2. x.window[k] \in 0 .. n - 1
    BY <2>1
  <2> QED
    BY <2>2
<1>8. DOMAIN b = 1 .. nb /\ \A i \in 1 .. nb : b[i] = u[others[i] + 1] /\ b[i] \in Nat
  BY <1>2, <1>5, <1>6 DEF BatchPart
<1>9. ASSUME NEW k \in 1 .. m
      PROVE  w[kept[k] + 1] = u[x.window[k] + 1]
  <2>1. kept[k] \in 0 .. r - 1 /\ kept[k] \notin s.gone /\ At(kept, kept[k]) = k
    BY <1>2, <1>3, AtOf DEF InOrder
  <2>2. kept[k] + 1 \in 1 .. r /\ (kept[k] + 1) - 1 = kept[k]
    BY <1>3, <2>1
  <2> QED
    BY <2>1, <2>2 DEF WindowPart
<1>10. ASSUME NEW d \in 1 .. r
       PROVE  w[d] \in Nat /\ w[d] < s.sshape[d]
  <2>1. CASE d - 1 \in s.gone
    <3>1. w[d] = 0
      BY <2>1 DEF WindowPart
    <3> HIDE DEF w
    <3> QED
      BY <1>4, <2>1, <3>1
  <2>2. CASE d - 1 \notin s.gone
    <3>1. d - 1 \in 0 .. r - 1
      BY <1>3
    <3>2. Has(kept, d - 1)
      BY <1>3, <2>2, <3>1 DEF InOrder
    <3>3. PICK k \in 1 .. m : kept[k] = d - 1
      BY <1>2, <3>2, AtIs
    <3>4. kept[k] + 1 = d
      BY <1>3, <3>3
    <3> HIDE DEF w
    <3> QED
      BY <1>4, <1>5, <1>7, <1>9, <3>4
  <2> QED
    BY <2>1, <2>2
<1>11. DOMAIN w = 1 .. r /\ w = [d \in 1 .. r |-> w[d]]
  BY DEF WindowPart
<1>12. DOMAIN b = DOMAIN s.plan.batch /\ b = [i \in 1 .. nb |-> b[i]]
  BY <1>2, <1>3 DEF BatchPart
<1> HIDE DEF b, w
<1>13. b \in Box(s.plan.batch)
  BY <1>2, <1>3, <1>5, <1>6, <1>8, <1>12 DEF Box
<1>14. w \in Box(s.sshape)
  BY <1>4, <1>10, <1>11 DEF Box
<1> DEFINE v == Merged(x, s, kept, b, w)
<1>15. /\ \A k \in 1 .. m : v[x.window[k] + 1] = w[kept[k] + 1]
       /\ \A i \in 1 .. nb : v[others[i] + 1] = b[i]
  <2>1. b \in [DOMAIN others -> Nat] /\ w \in [1 .. r -> Nat]
    BY <1>13, <1>14, MergedIs
  <2>2. Merges(x, s, kept, others, b, w)
    BY <2>1, MergedAt, Zenon
  <2> QED
    BY <1>2, <2>2, Zenon DEF Merges
<1>16. v = [d \in 1 .. n |-> v[d]]
  BY <1>2 DEF Merged
<1> HIDE DEF v
<1>17. ASSUME NEW d \in 1 .. n
       PROVE  v[d] = u[d]
  BY <1>2, <1>8, <1>9, <1>15
<1>18. v = u
  BY <1>5, <1>16, <1>17
<1> QED
  BY <1>13, <1>14, <1>18 DEF b, w, v

\* A scatter that is not refused: its windows fit, one dimension is padded,
\* and one window is written only where its start was proven in bounds.
Scatters(x, r, kept, others, s) ==
  /\ ScatterFormed(x) /\ IndicesFormed(x) /\ ScatterLowered(x, r, kept, others, s)
  /\ Planned(x, s.sshape, s.plan) /\ Slices(x, s.sshape)
  /\ s.strategy \in {"none", "window", "guarded", "pad", "neutral"}
  /\ s.strategy = "window" => \A b \in Coords(s.plan.batch) : ~ OutOfBounds(x, s.plan, b)
  /\ s.pad \in DOMAIN s.plan.entries /\ s.plan.entries[s.pad].axis \in 0 .. r - 1

\* Every entry of a plan indexes a dimension of the operand.
LEMMA AxesAre ==
  ASSUME NEW x, NEW sizes, NEW plan, IndicesFormed(x), Planned(x, sizes, plan),
         NEW r \in Nat, Len(x.opShape) = r, NEW e \in DOMAIN plan.entries
  PROVE  plan.entries[e].axis \in 0 .. r - 1
<1>1. /\ \A j \in DOMAIN x.map : plan.entries[j] = EntryOf(x, sizes, j)
      /\ \A i \in DOMAIN x.opBatching : plan.entries[Len(x.map) + i] = IotaOf(x, i)
      /\ \/ e \in DOMAIN x.map
         \/ \E i \in DOMAIN x.opBatching : e = Len(x.map) + i
         \/ x.map = <<>> /\ x.opBatching = <<>> /\ plan.entries[e] = NoEntry
      /\ x.map = <<>> /\ x.opBatching = <<>> => x.opShape # <<>>
  BY Zenon DEF Planned
<1>2. /\ x.map \in Seq(0 .. r - 1) /\ x.opBatching \in Seq(0 .. r - 1) /\ x.opShape \in Seq(Nat)
  BY DEF IndicesFormed, Dims
<1>3. CASE e \in DOMAIN x.map
  <2>1. x.map[e] \in 0 .. r - 1
    BY <1>2, <1>3
  <2>2. EntryOf(x, sizes, e).axis = x.map[e]
    BY DEF EntryOf
  <2> QED
    BY <1>1, <1>3, <2>1, <2>2
<1>4. CASE \E i \in DOMAIN x.opBatching : e = Len(x.map) + i
  <2>1. PICK i \in DOMAIN x.opBatching : e = Len(x.map) + i
    BY <1>4
  <2>2. x.opBatching[i] \in 0 .. r - 1
    BY <1>2
  <2>3. IotaOf(x, i).axis = x.opBatching[i]
    BY DEF IotaOf
  <2> QED
    BY <1>1, <2>1, <2>2, <2>3
<1>5. CASE x.map = <<>> /\ x.opBatching = <<>> /\ plan.entries[e] = NoEntry
  <2>1. x.opShape # <<>>
    BY <1>1, <1>5
  <2>2. r # 0
    BY <1>2, <2>1
  <2>3. NoEntry.axis = 0
    BY DEF NoEntry
  <2> QED
    BY <1>5, <2>2, <2>3
<1> QED
  BY <1>1, <1>3, <1>4, <1>5

\* What the verifier admits and LowerScatter does not refuse is one.
LEMMA ScatterIs ==
  ASSUME NEW x, ScatterFormed(x), ~ LowerScatter(x).plan.refused
  PROVE  \E r, kept, others : Scatters(x, r, kept, others, LowerScatter(x))
<1> DEFINE s == LowerScatter(x)
           es == s.plan.entries
<1>1. PICK r, kept, others : ScatterLowered(x, r, kept, others, s)
  BY ScatterIsLowered, Zenon
<1>2. /\ s.strategy = StrategyOf(x, s.plan, s.sshape)
      /\ s.pad = CHOOSE i \in DOMAIN es : \A j \in DOMAIN es : es[i].axis <= es[j].axis
  BY DEF LowerScatter
<1>3. ~ s.plan.refused
  OBVIOUS
<1> HIDE DEF s
<1>4. /\ r \in Nat /\ Len(x.opShape) = r /\ DOMAIN x.opShape = 1 .. r /\ x.opShape \in [1 .. r -> Nat]
      /\ s.gone = x.inserted \cup ToSet(x.opBatching)
      /\ s.sshape = SliceShape(x) /\ s.plan = BuildIndexPlan(x, s.sshape)
  BY <1>1, Zenon DEF ScatterLowered
<1>5. /\ IndicesFormed(x) /\ \A d \in DOMAIN x.opShape : SliceShape(x)[d] <= x.opShape[d]
      /\ x.proven => \A b \in Coords(s.plan.batch) : ~ OutOfBounds(x, s.plan, b)
  BY <1>4, Zenon DEF ScatterFormed
<1>6. Planned(x, s.sshape, s.plan)
  BY <1>3, <1>4, <1>5, PlanIs
<1>7. Slices(x, s.sshape)
  <2>1. \A d \in 1 .. r : s.sshape[d] \in Nat /\ (d - 1 \in s.gone => s.sshape[d] = 1)
    BY <1>1, SliceShapeIs
  <2>2. ASSUME NEW i \in DOMAIN x.opBatching
        PROVE  s.sshape[x.opBatching[i] + 1] = 1
    <3>1. x.opBatching \in Seq(0 .. r - 1)
      BY <1>4, <1>5 DEF IndicesFormed, Dims
    <3>2. x.opBatching[i] \in 0 .. r - 1
      <4>1. r \in Nat
        BY <1>4
      <4> QED
        BY <3>1, <4>1
    <3>3. x.opBatching[i] \in s.gone
      BY <1>4 DEF ToSet
    <3>4. x.opBatching[i] + 1 \in 1 .. r /\ (x.opBatching[i] + 1) - 1 = x.opBatching[i]
      BY <1>4, <3>2
    <3> QED
      BY <2>1, <3>3, <3>4
  <2> QED
    BY <1>4, <1>5, <2>1, <2>2 DEF Slices
<1>8. /\ s.strategy \in {"none", "window", "guarded", "pad", "neutral"}
      /\ s.strategy = "window" => x.proven
  BY <1>2 DEF StrategyOf
<1>9. \A e \in DOMAIN es : es[e].axis \in 0 .. r - 1
  BY <1>4, <1>5, <1>6, AxesAre
<1>10. s.pad \in DOMAIN es
  <2>1. DOMAIN es = 1 .. Len(es) /\ Len(es) \in Nat \ {0}
    BY <1>6, Zenon DEF Planned
  <2> DEFINE A == {es[e].axis : e \in DOMAIN es}
  <2>2. A \subseteq Nat /\ A # {}
    <3>1. 1 \in DOMAIN es
      BY <2>1
    <3>2. r \in Nat
      BY <1>4
    <3>3. 0 .. r - 1 \subseteq Nat
      BY <3>2
    <3> HIDE DEF es
    <3> QED
      BY <1>9, <3>1, <3>3
  <2>3. PICK a \in A : \A o \in A : a <= o
    <3> HIDE DEF A
    <3> QED
      BY <2>2, LeastMember, Zenon
  <2>4. \E i \in DOMAIN es : \A j \in DOMAIN es : es[i].axis <= es[j].axis
    BY <2>3
  <2> QED
    BY <1>2, <2>4
<1>11. Scatters(x, r, kept, others, s)
  BY <1>1, <1>5, <1>6, <1>7, <1>8, <1>9, <1>10, Zenon DEF Scatters
<1> QED
  BY <1>11, Zenon DEF s

\* The padded dimension alone starts elsewhere.
Padded(plan, read, pad, top, index) ==
  index[pad] = top /\ \A e \in DOMAIN plan.entries : e # pad => index[e] = read[e]
StartsPadded(plan, read, pad, top, index) ==
  \A d : Start(plan, index, d) = IF plan.entries[pad].axis = d THEN top ELSE Start(plan, read, d)

\* Only the padded dimension's start is another.
LEMMA StartPadded ==
  ASSUME NEW plan, NEW read, OneEach(plan), NEW pad \in DOMAIN plan.entries,
         NEW top, NEW index, Padded(plan, read, pad, top, index)
  PROVE  StartsPadded(plan, read, pad, top, index)
<1> SUFFICES ASSUME NEW d
             PROVE  Start(plan, index, d) = IF plan.entries[pad].axis = d THEN top ELSE Start(plan, read, d)
  BY DEF StartsPadded
<1>1. index[pad] = top /\ \A e \in DOMAIN plan.entries : e # pad => index[e] = read[e]
  BY DEF Padded
<1>2. CASE plan.entries[pad].axis = d
  BY <1>1, <1>2, StartAt
<1>3. CASE plan.entries[pad].axis # d /\ \E e \in DOMAIN plan.entries : plan.entries[e].axis = d
  <2>1. PICK e \in DOMAIN plan.entries : plan.entries[e].axis = d /\ e # pad
    BY <1>3
  <2>2. Start(plan, index, d) = index[e] /\ Start(plan, read, d) = read[e]
    BY <2>1, StartAt
  <2> QED
    BY <1>1, <1>3, <2>1, <2>2
<1>4. CASE \A e \in DOMAIN plan.entries : plan.entries[e].axis # d
  <2>1. Start(plan, index, d) = 0 /\ Start(plan, read, d) = 0
    BY <1>4, StartNowhere
  <2> QED
    BY <1>4, <2>1
<1> QED
  BY <1>2, <1>3, <1>4

\* Where a write goes, what it reads and what it writes.
Written(x, r, kept, s, b, w, v) ==
  LET start(d) == Start(s.plan, IndexAt(x, s.plan, b), d - 1)
      padded(d) == OutOfBounds(x, s.plan, b) /\ s.strategy = "pad" /\ s.plan.entries[s.pad].axis = d - 1
  IN /\ v.update = Merged(x, s, kept, b, w)
     /\ v.old = [d \in 1 .. r |-> start(d) + w[d]]
     /\ v.to = [d \in 1 .. r |-> IF padded(d) THEN x.opShape[d] + w[d] ELSE start(d) + w[d]]
     /\ v.noop <=> OutOfBounds(x, s.plan, b) /\ s.strategy \in {"neutral", "guarded", "none"}

\* The write of a batch coordinate and an element of the window.
LEMMA WriteIs ==
  ASSUME NEW x, NEW r, NEW kept, NEW others, NEW s, Scatters(x, r, kept, others, s),
         NEW b, NEW w \in Box(s.sshape)
  PROVE  Written(x, r, kept, s, b, w, Write(x, s, b, w))
<1> DEFINE plan == s.plan
           read == IndexAt(x, s.plan, b)
           top == x.opShape[s.plan.entries[s.pad].axis + 1]
           index == IF OutOfBounds(x, s.plan, b) /\ s.strategy = "pad" THEN [read EXCEPT ![s.pad] = top] ELSE read
           v == Write(x, s, b, w)
           start(d) == Start(s.plan, read, d - 1)
           padded(d) == OutOfBounds(x, s.plan, b) /\ s.strategy = "pad" /\ s.plan.entries[s.pad].axis = d - 1
<1>1. /\ ScatterLowered(x, r, kept, others, s) /\ Planned(x, s.sshape, s.plan)
      /\ s.pad \in DOMAIN s.plan.entries /\ s.plan.entries[s.pad].axis \in 0 .. r - 1
  BY Zenon DEF Scatters
<1>2. r \in Nat /\ Len(x.opShape) = r /\ kept = Kept(r, s.gone)
  BY <1>1, Zenon DEF ScatterLowered
<1>3. DOMAIN w = 1 .. r
  <2>1. DOMAIN s.sshape = 1 .. r
    BY <1>1, SliceShapeIs
  <2> QED
    BY <2>1 DEF Box
<1>4. OneEach(plan) /\ DOMAIN read = DOMAIN plan.entries
  <2>1. OneEach(plan)
    BY <1>1, Zenon DEF Planned, OneEach
  <2> QED
    BY <2>1 DEF IndexAt
<1>5. /\ v.to = Located(plan, index, w) /\ v.old = Located(plan, read, w)
      /\ v.update = Merged(x, s, kept, b, w)
  BY <1>2 DEF Write, Merged
<1>6. v.noop <=> OutOfBounds(x, s.plan, b) /\ s.strategy \in {"neutral", "guarded", "none"}
  BY DEF Write
<1> HIDE DEF v, read, top
<1>7. v.old = [d \in 1 .. r |-> start(d) + w[d]]
  BY <1>3, <1>5 DEF Located
<1>8. ASSUME NEW d \in 1 .. r
      PROVE  Start(plan, index, d - 1) = IF padded(d) THEN x.opShape[d] ELSE start(d)
  <2>1. CASE OutOfBounds(x, s.plan, b) /\ s.strategy = "pad"
    <3>1. index = [read EXCEPT ![s.pad] = top]
      BY <2>1
    <3>2. Start(plan, index, d - 1) = IF s.plan.entries[s.pad].axis = d - 1 THEN top ELSE Start(plan, read, d - 1)
      <4>1. s.pad \in DOMAIN plan.entries
        BY <1>1
      <4>3. Padded(plan, read, s.pad, top, index)
        <5> HIDE DEF index, plan
        <5> QED
          BY <1>4, <3>1, <4>1 DEF Padded
      <4> HIDE DEF index, plan
      <4>2. StartsPadded(plan, read, s.pad, top, index)
        BY <1>4, <4>1, <4>3, StartPadded
      <4> QED
        BY <4>2 DEF plan, StartsPadded
    <3>3. s.plan.entries[s.pad].axis = d - 1 => top = x.opShape[d]
      <4>1. (d - 1) + 1 = d
        OBVIOUS
      <4> QED
        BY <4>1 DEF top
    <3> HIDE DEF index
    <3> QED
      BY <2>1, <3>2, <3>3
  <2>2. CASE ~ (OutOfBounds(x, s.plan, b) /\ s.strategy = "pad")
    BY <2>2
  <2> QED
    BY <2>1, <2>2
<1> HIDE DEF index
<1>9. v.to = [d \in 1 .. r |-> Start(plan, index, d - 1) + w[d]]
  BY <1>3, <1>5 DEF Located
<1>10. v.to = [d \in 1 .. r |-> IF padded(d) THEN x.opShape[d] + w[d] ELSE start(d) + w[d]]
  <2> HIDE DEF start, padded, plan
  <2> QED
    BY <1>8, <1>9
<1> QED
  BY <1>5, <1>6, <1>7, <1>10, Zenon DEF Written, v, read

\* Where StableHLO sends an update element.
LEMMA ScatterToIs ==
  ASSUME NEW x, NEW r, NEW kept, NEW others, NEW s, Scatters(x, r, kept, others, s),
         NEW b \in Box(s.plan.batch), NEW w \in Box(s.sshape), NEW u, u = Merged(x, s, kept, b, w)
  PROVE  LET from(d) == StartOf(x, b, d - 1) + BatchingOf(x, b, d - 1)
             fits == \A d \in 1 .. r : from(d) >= 0 /\ from(d) + s.sshape[d] <= x.opShape[d]
         IN ScatterTo(x, u) = IF fits THEN {[d \in 1 .. r |-> from(d) + w[d]]} ELSE {}
<1>1. ScatterLowered(x, r, kept, others, s)
  BY Zenon DEF Scatters
<1>2. /\ r \in Nat /\ Len(x.opShape) = r /\ DOMAIN x.opShape = 1 .. r /\ kept = Kept(r, s.gone)
      /\ InOrder(kept, r, s.gone) /\ s.gone = x.inserted \cup ToSet(x.opBatching) /\ s.sshape = SliceShape(x)
      /\ Parted(Len(x.updShape), x.window, others)
  BY <1>1, Zenon DEF ScatterLowered
<1>3. BatchPart(others, u) = b /\ WindowPart(x, r, kept, s, u) = w
  BY <1>1, MergedIs
<1>4. Kept(Len(x.updShape), ToSet(x.window)) = others
  BY <1>2 DEF Parted
<1>5. [i \in DOMAIN others |-> u[others[i] + 1]] = b
  BY <1>3 DEF BatchPart
<1> DEFINE offset(d) == IF Has(kept, d) THEN u[x.window[At(kept, d)] + 1] ELSE 0
           begin(d) == StartOf(x, b, d) + BatchingOf(x, b, d)
           fit == \A d \in 1 .. r : begin(d - 1) >= 0 /\ begin(d - 1) + s.sshape[d] <= x.opShape[d]
<1>6. ScatterTo(x, u) = IF fit THEN {[d \in 1 .. r |-> begin(d - 1) + offset(d - 1)]} ELSE {}
  BY <1>2, <1>4, <1>5 DEF ScatterTo
<1>7. \A d \in 1 .. r : offset(d - 1) = w[d]
  <2> SUFFICES ASSUME NEW d \in 1 .. r PROVE offset(d - 1) = w[d]
    OBVIOUS
  <2>1. d - 1 \in 0 .. r - 1
    BY <1>2
  <2>2. w[d] = IF d - 1 \in s.gone THEN 0 ELSE u[x.window[At(kept, d - 1)] + 1]
    BY <1>3 DEF WindowPart
  <2>3. Has(kept, d - 1) <=> d - 1 \notin s.gone
    <3>1. /\ \A i \in DOMAIN kept : kept[i] \notin s.gone
          /\ \A e \in 0 .. r - 1 : e \notin s.gone => Has(kept, e)
      BY <1>2, Zenon DEF InOrder
    <3> QED
      BY <2>1, <3>1, Zenon DEF Has
  <2> QED
    BY <2>2, <2>3
<1> HIDE DEF offset, begin
<1>8. ScatterTo(x, u) = IF fit THEN {[d \in 1 .. r |-> begin(d - 1) + w[d]]} ELSE {}
  BY <1>6, <1>7
<1> QED
  BY <1>8 DEF begin

\* A write stays in the operand, or in the rows it is padded with; what is
\* dropped leaves it alone, and what is not goes where StableHLO sends it.
Exact(x, r, s, b, v) ==
  /\ v.update \in Box(x.updShape)
  /\ \A d \in 1 .. r : v.to[d] \in 0 .. Extent(x, s, d) - 1
  /\ OutOfBounds(x, s.plan, b) =>
       ScatterTo(x, v.update) = {} /\ (v.noop \/ \E d \in 1 .. r : v.to[d] >= x.opShape[d])
  /\ ~ OutOfBounds(x, s.plan, b) => ScatterTo(x, v.update) = {v.to} /\ ~ v.noop /\ v.old = v.to

\* Each write of a scatter is exact.
LEMMA WriteIsExact ==
  ASSUME NEW x, NEW r, NEW kept, NEW others, NEW s, Scatters(x, r, kept, others, s),
         NEW b \in Box(s.plan.batch), NEW w \in Box(s.sshape), NEW v, v = Write(x, s, b, w)
  PROVE  Exact(x, r, s, b, v)
<1> DEFINE out == OutOfBounds(x, s.plan, b)
           start(d) == Start(s.plan, IndexAt(x, s.plan, b), d - 1)
           from(d) == StartOf(x, b, d - 1) + BatchingOf(x, b, d - 1)
           axis == s.plan.entries[s.pad].axis
           padded(d) == out /\ s.strategy = "pad" /\ axis = d - 1
           fits == \A d \in 1 .. r : from(d) >= 0 /\ from(d) + s.sshape[d] <= x.opShape[d]
           u == Merged(x, s, kept, b, w)
<1>1. /\ ScatterLowered(x, r, kept, others, s) /\ Planned(x, s.sshape, s.plan) /\ Slices(x, s.sshape)
      /\ s.strategy \in {"none", "window", "guarded", "pad", "neutral"}
      /\ s.strategy = "window" => \A c \in Coords(s.plan.batch) : ~ OutOfBounds(x, s.plan, c)
      /\ axis \in 0 .. r - 1 /\ IndicesFormed(x)
  BY Zenon DEF Scatters
<1>2. /\ r \in Nat /\ DOMAIN x.opShape = 1 .. r /\ x.opShape \in [1 .. r -> Nat]
      /\ s.plan = BuildIndexPlan(x, s.sshape)
  BY <1>1, Zenon DEF ScatterLowered
<1>3. Reading(x, s.sshape, s.plan, b)
  BY <1>1, <1>2, Zenon DEF Reading
<1>4. \A d \in 1 .. r : start(d) \in Nat /\ start(d) + s.sshape[d] <= x.opShape[d]
  BY <1>2, <1>3, PlanStarts
<1>5. /\ ~ out => \A d \in 1 .. r : start(d) = from(d)
      /\ out => ~ fits
  <2>1. BoundsHold(x, s.sshape, s.plan, b)
    BY <1>3, BoundsAre
  <2> QED
    BY <1>2, <2>1 DEF BoundsHold
<1>6. \A d \in 1 .. r : w[d] \in Nat /\ s.sshape[d] \in Nat /\ w[d] < s.sshape[d] /\ x.opShape[d] \in Nat
  <2>1. DOMAIN s.sshape = 1 .. r /\ \A d \in 1 .. r : s.sshape[d] \in Nat
    BY <1>1, SliceShapeIs
  <2> QED
    BY <1>2, <2>1 DEF Box
<1>7. u \in Box(x.updShape)
  BY <1>1, MergedIs
<1>8. ScatterTo(x, u) = IF fits THEN {[d \in 1 .. r |-> from(d) + w[d]]} ELSE {}
  BY ScatterToIs
<1>9. Written(x, r, kept, s, b, w, v)
  BY WriteIs
<1>10. /\ v.update = u /\ v.old = [d \in 1 .. r |-> start(d) + w[d]]
       /\ v.to = [d \in 1 .. r |-> IF padded(d) THEN x.opShape[d] + w[d] ELSE start(d) + w[d]]
       /\ v.noop <=> out /\ s.strategy \in {"neutral", "guarded", "none"}
  BY <1>9, Zenon DEF Written
<1>11. \A d \in 1 .. r : Extent(x, s, d) = x.opShape[d] + IF s.strategy = "pad" /\ axis = d - 1 THEN s.sshape[d] ELSE 0
  BY DEF Extent
<1>12. out => s.strategy # "window"
  <2>1. s.plan.batch \in Seq(Nat)
    BY <1>1, <1>2, BatchIs DEF Batched
  <2>2. b \in Coords(s.plan.batch)
    BY <2>1, CoordsAre
  <2> QED
    BY <1>1, <2>2
<1> HIDE DEF out, start, from, axis, u
<1>13. ASSUME NEW d \in 1 .. r
       PROVE  v.to[d] \in 0 .. Extent(x, s, d) - 1
  <2>1. v.to[d] = IF padded(d) THEN x.opShape[d] + w[d] ELSE start(d) + w[d]
    BY <1>10
  <2>2. /\ w[d] \in Nat /\ s.sshape[d] \in Nat /\ w[d] < s.sshape[d] /\ x.opShape[d] \in Nat
        /\ start(d) \in Nat /\ start(d) + s.sshape[d] <= x.opShape[d]
    BY <1>4, <1>6
  <2>3. CASE padded(d)
    BY <1>11, <2>1, <2>2, <2>3
  <2>4. CASE ~ padded(d)
    <3>1. v.to[d] = start(d) + w[d] /\ v.to[d] \in Nat /\ v.to[d] < x.opShape[d]
      BY <2>1, <2>2, <2>4
    <3>2. Extent(x, s, d) \in Int /\ Extent(x, s, d) >= x.opShape[d]
      BY <1>11, <2>2
    <3> QED
      BY <2>2, <3>1, <3>2
  <2> QED
    BY <2>3, <2>4
<1>14. ASSUME out
       PROVE  ScatterTo(x, v.update) = {} /\ (v.noop \/ \E d \in 1 .. r : v.to[d] >= x.opShape[d])
  <2>1. ScatterTo(x, v.update) = {}
    BY <1>5, <1>8, <1>10, <1>14
  <2>2. CASE s.strategy = "pad"
    <3> DEFINE d == axis + 1
    <3>1. d \in 1 .. r /\ d - 1 = axis
      BY <1>1, <1>2
    <3> HIDE DEF d
    <3>2. v.to[d] = x.opShape[d] + w[d]
      BY <1>10, <1>14, <2>2, <3>1
    <3>3. v.to[d] >= x.opShape[d]
      BY <1>6, <3>1, <3>2
    <3> QED
      BY <2>1, <3>1, <3>3
  <2>3. CASE s.strategy # "pad"
    BY <1>1, <1>10, <1>12, <1>14, <2>1, <2>3
  <2> QED
    BY <2>2, <2>3
<1>15. ASSUME ~ out
       PROVE  ScatterTo(x, v.update) = {v.to} /\ ~ v.noop /\ v.old = v.to
  <2>1. v.to = [d \in 1 .. r |-> start(d) + w[d]] /\ ~ v.noop
    BY <1>10, <1>15
  <2>2. \A d \in 1 .. r : from(d) = start(d)
    BY <1>5, <1>15
  <2>3. fits
    BY <1>4, <2>2
  <2>4. [d \in 1 .. r |-> from(d) + w[d]] = [d \in 1 .. r |-> start(d) + w[d]]
    BY <2>2
  <2> QED
    BY <1>8, <1>10, <2>1, <2>3, <2>4
<1> QED
  BY <1>7, <1>10, <1>13, <1>14, <1>15 DEF Exact, out

\* The writes of a scatter that is not refused are StableHLO's.
AllExact(x, s) ==
  /\ \A c \in Coords(x.opShape) :
       /\ {v.update : v \in Scattered(x, s, c)} = {u \in Coords(x.updShape) : c \in ScatterTo(x, u)}
       /\ \A v \in Scattered(x, s, c) : v.old = c
  /\ \A v \in AllWrites(x, s) : \A d \in DOMAIN x.opShape : v.to[d] \in 0 .. Extent(x, s, d) - 1

\* All its writes together are exact.
LEMMA WritesAreExact ==
  ASSUME NEW x, NEW r, NEW kept, NEW others, NEW s, Scatters(x, r, kept, others, s)
  PROVE  AllExact(x, s)
<1>1. ScatterLowered(x, r, kept, others, s) /\ IndicesFormed(x)
  BY Zenon DEF Scatters
<1>2. /\ r \in Nat /\ DOMAIN x.opShape = 1 .. r /\ x.opShape \in [1 .. r -> Nat]
      /\ s.plan = BuildIndexPlan(x, s.sshape) /\ x.updShape \in Seq(Nat)
  BY <1>1, Zenon DEF ScatterLowered
<1>3. /\ Coords(x.opShape) = Box(x.opShape) /\ Coords(x.updShape) = Box(x.updShape)
      /\ Coords(s.plan.batch) = Box(s.plan.batch) /\ Coords(s.sshape) = Box(s.sshape)
  <2>1. x.opShape \in Seq(Nat)
    BY <1>1 DEF IndicesFormed
  <2>2. s.plan.batch \in Seq(Nat)
    BY <1>1, <1>2, BatchIs DEF Batched
  <2>3. s.sshape \in Seq(Nat)
    <3>1. DOMAIN s.sshape = 1 .. r /\ \A d \in 1 .. r : s.sshape[d] \in Nat
      BY <1>1, SliceShapeIs
    <3>2. s.sshape = [d \in 1 .. r |-> s.sshape[d]]
      <4>1. s.sshape = [d \in 1 .. r |-> IF d - 1 \in s.gone THEN 1 ELSE x.updShape[x.window[At(kept, d - 1)] + 1]]
        BY <1>1, Zenon DEF ScatterLowered
      <4> QED
        BY <4>1
    <3> QED
      BY <1>2, <3>1, <3>2
  <2> QED
    BY <1>2, <2>1, <2>2, <2>3, CoordsAre
<1>4. ASSUME NEW v \in AllWrites(x, s)
      PROVE  \E b : Exact(x, r, s, b, v)
  <2>1. PICK b \in Box(s.plan.batch), w \in Box(s.sshape) : v = Write(x, s, b, w)
    BY <1>3, <1>4 DEF AllWrites
  <2> QED
    BY <2>1, WriteIsExact
<1>5. ASSUME NEW u \in Box(x.updShape)
      PROVE  \E v \in AllWrites(x, s) : v.update = u
  <2> DEFINE b == BatchPart(others, u)
             w == WindowPart(x, r, kept, s, u)
             v == Write(x, s, b, w)
  <2>1. b \in Box(s.plan.batch) /\ w \in Box(s.sshape) /\ Merged(x, s, kept, b, w) = u
    BY <1>1, PartsMerge
  <2> HIDE DEF b, w
  <2>2. v \in AllWrites(x, s)
    BY <1>3, <2>1 DEF AllWrites
  <2>3. Written(x, r, kept, s, b, w, v)
    BY <2>1, WriteIs
  <2>4. v.update = Merged(x, s, kept, b, w)
    BY <2>3, Zenon DEF Written
  <2> HIDE DEF v
  <2> QED
    BY <2>1, <2>2, <2>4
<1>6. ASSUME NEW c \in Box(x.opShape), NEW v \in Scattered(x, s, c)
      PROVE  v.update \in Box(x.updShape) /\ c \in ScatterTo(x, v.update) /\ v.old = c
  <2>1. v \in AllWrites(x, s) /\ v.to = c /\ ~ v.noop
    BY DEF Scattered
  <2>2. PICK b : Exact(x, r, s, b, v)
    BY <1>4, <2>1
  <2>3. \A d \in 1 .. r : c[d] \in Nat /\ c[d] < x.opShape[d] /\ x.opShape[d] \in Nat
    BY <1>2 DEF Box
  <2>4. ~ \E d \in 1 .. r : v.to[d] >= x.opShape[d]
    BY <2>1, <2>3
  <2>5. ScatterTo(x, v.update) = {v.to} /\ v.old = v.to /\ v.update \in Box(x.updShape)
    BY <2>1, <2>2, <2>4 DEF Exact
  <2> QED
    BY <2>1, <2>5
<1>7. ASSUME NEW c \in Box(x.opShape), NEW u \in Box(x.updShape), c \in ScatterTo(x, u)
      PROVE  \E v \in Scattered(x, s, c) : v.update = u
  <2>1. PICK v \in AllWrites(x, s) : v.update = u
    BY <1>5
  <2>2. PICK b : Exact(x, r, s, b, v)
    BY <1>4
  <2>3. ScatterTo(x, u) = {v.to} /\ ~ v.noop
    BY <1>7, <2>1, <2>2 DEF Exact
  <2>4. v.to = c
    BY <1>7, <2>3
  <2>5. v \in Scattered(x, s, c)
    BY <2>3, <2>4 DEF Scattered
  <2> QED
    BY <2>1, <2>5
<1>8. ASSUME NEW c \in Box(x.opShape)
      PROVE  {v.update : v \in Scattered(x, s, c)} = {u \in Box(x.updShape) : c \in ScatterTo(x, u)}
  <2>1. \A v \in Scattered(x, s, c) : v.update \in Box(x.updShape) /\ c \in ScatterTo(x, v.update)
    BY <1>6
  <2>2. \A u \in Box(x.updShape) : c \in ScatterTo(x, u) => \E v \in Scattered(x, s, c) : v.update = u
    BY <1>7
  <2> QED
    BY <2>1, <2>2
<1>9. ASSUME NEW v \in AllWrites(x, s), NEW d \in 1 .. r
      PROVE  v.to[d] \in 0 .. Extent(x, s, d) - 1
  <2>1. PICK b : Exact(x, r, s, b, v)
    BY <1>4
  <2> QED
    BY <2>1, Zenon DEF Exact
<1> QED
  BY <1>2, <1>3, <1>6, <1>8, <1>9, Zenon DEF AllExact

\* What the verifier admits and LowerScatter does not refuse is exact.
LEMMA ScattersAreExact ==
  ASSUME input.kind = "scatter" => ScatterFormed(input)
  PROVE  ScatterWritesItsUpdates
<1> DEFINE s == LowerScatter(input)
<1> SUFFICES ASSUME input.kind = "scatter", ~ s.plan.refused
             PROVE  /\ \A c \in Coords(input.opShape) :
                         /\ {v.update : v \in Scattered(input, s, c)}
                              = {u \in Coords(input.updShape) : c \in ScatterTo(input, u)}
                         /\ input.method \in {"apply", "sequential"} =>
                              \A v \in Scattered(input, s, c) : v.old = c
                    /\ \A v \in AllWrites(input, s) : \A d \in DOMAIN input.opShape :
                         v.to[d] \in 0 .. Extent(input, s, d) - 1
  BY Zenon DEF ScatterWritesItsUpdates
<1>1. ScatterFormed(input)
  OBVIOUS
<1>2. PICK r, kept, others : Scatters(input, r, kept, others, s)
  BY <1>1, ScatterIs, Zenon
<1> HIDE DEF s
<1>3. AllExact(input, s)
  BY <1>2, WritesAreExact
<1> QED
  BY <1>3, Zenon DEF AllExact

\* Every gather the verifier admits and LowerGather does not refuse reads the
\* elements StableHLO names, inside the operand; every such scatter writes its
\* updates where StableHLO says, drops exactly those whose window does not
\* fit, and touches nothing beyond its operand and its padding: for operands,
\* index arrays and windows of every rank, extent and index.
THEOREM IndexedOpsAreAlwaysExact ==
  /\ input.kind = "gather" => GatherFormed(input)
  /\ input.kind = "scatter" => ScatterFormed(input)
  => IndexedOpsAreExact
BY GathersAreExact, ScattersAreExact, Zenon DEF IndexedOpsAreExact

=============================================================================

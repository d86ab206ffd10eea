------------------------- MODULE RewritePlanProofs -------------------------
(***************************************************************************)
(* Whatever is claimed, packed, declined and given back, what is left can  *)
(* be lowered.  The invariant says, of each recognizer's matches, which    *)
(* matches ever kept the readers of what they absorb are in; that no two   *)
(* recognizers own one op; and that `skip` and the root maps are those of  *)
(* the plan.  At the end every reader of an absorbed op is then absorbed   *)
(* too, or runs a call, and no call reads what another absorbs.            *)
(***************************************************************************)
EXTENDS RewritePlan, Induction, FiniteSetTheorems

---------------------------------------------------------------------------
(* What the operators of the recognizers return.                           *)

\* The use-count discipline: what is left is read by itself and the roots.
LEMMA ClosedIs ==
  ASSUME NEW S, NEW R
  PROVE  /\ Closed(S, R) \subseteq S
         /\ \A o \in Closed(S, R) : Users(o) \subseteq Closed(S, R) \cup R
  BY DEF Closed

\* More ops and more roots leave more.
LEMMA ClosedGrows ==
  ASSUME NEW S, NEW R, NEW S2, NEW R2, S \subseteq S2, R \subseteq R2
  PROVE  Closed(S, R) \subseteq Closed(S2, R2)
  <1> SUFFICES ASSUME NEW T \in SUBSET S, \A o \in T : Users(o) \subseteq T \cup R
               PROVE  T \subseteq Closed(S2, R2)
    BY DEF Closed
  <1>1. T \in SUBSET S2 /\ \A o \in T : Users(o) \subseteq T \cup R2
    OBVIOUS
  <1> QED
    BY <1>1 DEF Closed

\* A match with other ops is the same match otherwise.
LEMMA WithOps ==
  ASSUME NEW m \in MatchOf(block), NEW X \in SUBSET Ops
  PROVE  LET w == [m EXCEPT !.ops = X]
         IN /\ w \in MatchOf(block) /\ w.root = m.root /\ w.ops = X /\ w.reads = m.reads
            /\ w.whole = m.whole /\ w.plain = m.plain /\ w.bound = m.bound /\ w.key = m.key
            /\ w.packs = m.packs /\ w.over = m.over /\ w.members = m.members
  BY DEF MatchOf, Ops

\* What Prune leaves: its matches have what they need, and absorb together
\* what nothing else reads.
LEMMA PrunedIs ==
  ASSUME NEW M, M \subseteq MatchOf(block), NEW shared
  PROVE  LET A == Pruned(M, shared)
         IN /\ \A a \in A : \E m \in M :
                 a = [m EXCEPT !.ops = m.ops \cap OpsOf(A)] /\ m.whole \subseteq OpsOf(A)
            /\ \A v \in OpsOf(A) : v \notin shared /\ Users(v) \subseteq OpsOf(A) \cup RootsOf(A)
  <1> DEFINE own(L) == Closed(OpsOf(L) \ shared, RootsOf(L))
             live == UNION {L \in SUBSET M : \A m \in L : m.whole \subseteq own(L)}
             A == {[m EXCEPT !.ops = m.ops \cap own(live)] : m \in live}
  <1>1. Pruned(M, shared) = A
    BY DEF Pruned, Largest
  <1>2. live \subseteq M
    OBVIOUS
  <1>3. ASSUME NEW m \in live
        PROVE  m.whole \subseteq own(live)
    <2>1. PICK L \in SUBSET M : m \in L /\ \A j \in L : j.whole \subseteq own(L)
      OBVIOUS
    <2>2. L \subseteq live
      BY <2>1
    <2>3. OpsOf(L) \ shared \subseteq OpsOf(live) \ shared /\ RootsOf(L) \subseteq RootsOf(live)
      BY <2>2 DEF OpsOf, RootsOf
    <2> HIDE DEF live
    <2>4. own(L) \subseteq own(live)
      BY <2>3, ClosedGrows
    <2> QED
      BY <2>1, <2>4
  <1> HIDE DEF live
  <1>4. own(live) \subseteq OpsOf(live) \ shared
    BY ClosedIs
  <1>5. ASSUME NEW m \in live
        PROVE  LET a == [m EXCEPT !.ops = m.ops \cap own(live)]
               IN a.ops = m.ops \cap own(live) /\ a.root = m.root
    <2>1. m \in MatchOf(block) /\ m.ops \subseteq Ops
      BY <1>2 DEF MatchOf, Ops
    <2> QED
      BY <2>1, WithOps
  <1> HIDE DEF own
  <1>6. OpsOf(A) = own(live)
    <2>1. ASSUME NEW v \in OpsOf(A)
          PROVE  v \in own(live)
      <3>1. PICK a \in A : v \in a.ops
        BY DEF OpsOf
      <3>2. PICK m \in live : a = [m EXCEPT !.ops = m.ops \cap own(live)]
        BY <3>1
      <3> QED
        BY <1>5, <3>1, <3>2
    <2>2. ASSUME NEW v \in own(live)
          PROVE  v \in OpsOf(A)
      <3>1. PICK m \in live : v \in m.ops
        BY <1>4 DEF OpsOf
      <3>2. [m EXCEPT !.ops = m.ops \cap own(live)] \in A
        OBVIOUS
      <3> QED
        BY <1>5, <3>1, <3>2 DEF OpsOf
    <2> QED
      BY <2>1, <2>2
  <1>7. RootsOf(A) = RootsOf(live)
    BY <1>5 DEF RootsOf
  <1>8. \A v \in own(live) : Users(v) \subseteq own(live) \cup RootsOf(live)
    BY ClosedIs DEF own
  <1> HIDE DEF A
  <1>9. \A a \in A : \E m \in M :
          a = [m EXCEPT !.ops = m.ops \cap OpsOf(A)] /\ m.whole \subseteq OpsOf(A)
    BY <1>2, <1>3, <1>6 DEF A
  <1> QED
    BY <1>1, <1>4, <1>6, <1>7, <1>8, <1>9

\* First come, first served: none wants what one before it holds.
LEMMA ServedIs ==
  ASSUME block.n \in Nat, NEW M, RootsOf(M) \subseteq Ops, NEW wants, NEW holds
  PROVE  LET K == Served(M, wants, holds)
         IN /\ K \subseteq M
            /\ \A m, j \in K : j.root < m.root => wants[m] \cap holds[j] = {}
  <1> DEFINE N == block.n
             more(S, k) == S \cup {m \in M : /\ m.root = k
                                             /\ wants[m] \cap UNION {holds[j] : j \in S} = {}}
             step == [p \in (SUBSET M) \X (1 .. N) |-> more(p[1], p[2])]
             kept[k \in 0 .. N] == IF k = 0 THEN {} ELSE more(kept[k - 1], k)
  <1>1. step \in [(SUBSET M) \X (1 .. N) -> SUBSET M]
    OBVIOUS
  <1>2. PICK f \in [0 .. N -> SUBSET M] : Chained(f, {}, step, N)
    <2> HIDE DEF step
    <2> QED
      BY <1>1, Chain
  <1>3. \A k \in 0 .. N : f[k] = IF k = 0 THEN {} ELSE more(f[k - 1], k)
    <2>1. f[0] = {}
      BY <1>2 DEF Chained
    <2>2. ASSUME NEW k \in 1 .. N
          PROVE  f[k] = more(f[k - 1], k)
      <3>1. k - 1 \in 0 .. N
        OBVIOUS
      <3>2. f[k - 1] \in SUBSET M
        BY <1>2, <3>1
      <3>3. f[k] = step[<<f[k - 1], k>>]
        <4> HIDE DEF step
        <4> QED
          BY <1>2 DEF Chained
      <3>4. step[<<f[k - 1], k>>] = more(f[k - 1], k)
        BY <3>2
      <3> HIDE DEF step, more
      <3> QED
        BY <3>3, <3>4
    <2> HIDE DEF more
    <2>3. \A k \in 0 .. N : k = 0 \/ k \in 1 .. N
      OBVIOUS
    <2> QED
      BY <2>1, <2>2, <2>3
  <1>4. f = [k \in 0 .. N |-> IF k = 0 THEN {} ELSE more(f[k - 1], k)]
    <2> HIDE DEF more
    <2> QED
      BY <1>2, <1>3
  <1>5. kept = [k \in 0 .. N |-> IF k = 0 THEN {} ELSE more(kept[k - 1], k)]
    <2> DEFINE fits(g) == g = [k \in 0 .. N |-> IF k = 0 THEN {} ELSE more(g[k - 1], k)]
    <2>1. kept = CHOOSE g : fits(g)
      BY DEF kept
    <2>2. fits(f)
      BY <1>4
    <2> HIDE DEF fits
    <2>3. fits(CHOOSE g : fits(g))
      BY <2>2
    <2> QED
      BY <2>1, <2>3 DEF fits
  <1>6. Served(M, wants, holds) = kept[N]
    BY DEF Served
  <1> HIDE DEF kept, step
  <1> DEFINE Good(k) == /\ kept[k] \subseteq M
                        /\ \A m \in kept[k] : m.root <= k
                        /\ \A m, j \in kept[k] : j.root < m.root => wants[m] \cap holds[j] = {}
             T == {k \in 0 .. N : Good(k)}
  <1>7. 0 \in T
    BY <1>5
  <1>8. ASSUME NEW k \in 0 .. N - 1, k \in T
        PROVE  k + 1 \in T
    <2>1. k + 1 \in 0 .. N /\ (k + 1) - 1 = k /\ k + 1 # 0 /\ Good(k)
      BY <1>8
    <2>2. kept[k + 1] = more(kept[k], k + 1)
      <3> HIDE DEF more
      <3> QED
        BY <1>5, <2>1
    <2>3. \A m \in kept[k + 1] :
            \/ m \in kept[k]
            \/ m \in M /\ m.root = k + 1 /\ \A j \in kept[k] : wants[m] \cap holds[j] = {}
      BY <2>2
    <2>4. \A m \in M : m.root \in Nat
      BY DEF RootsOf, Ops
    <2>5. kept[k + 1] \subseteq M /\ \A m \in kept[k + 1] : m.root <= k + 1
      BY <2>1, <2>3, <2>4
    <2>6. ASSUME NEW m \in kept[k + 1], NEW j \in kept[k + 1], j.root < m.root
          PROVE  wants[m] \cap holds[j] = {}
      <3>1. j \in kept[k]
        BY <2>1, <2>3, <2>4, <2>5, <2>6
      <3> QED
        BY <2>1, <2>3, <2>6, <3>1
    <2> QED
      BY <2>1, <2>5, <2>6
  <1> HIDE DEF T
  <1>9. N \in T
    BY <1>7, <1>8, InductTo
  <1> QED
    BY <1>6, <1>9 DEF T

\* First come, first served: those that stay share no op.
LEMMA DisjointIs ==
  ASSUME block.n \in Nat, NEW M, RootsOf(M) \subseteq Ops
  PROVE  /\ Disjoint(M) \subseteq M
         /\ \A m, j \in Disjoint(M) : m.root # j.root => Own(m) \cap Own(j) = {}
  <1> DEFINE own == [m \in M |-> Own(m)]
  <1>1. /\ Disjoint(M) \subseteq M
        /\ \A m, j \in Disjoint(M) : j.root < m.root => own[m] \cap own[j] = {}
    <2> HIDE DEF own
    <2>1. Disjoint(M) = Served(M, own, own)
      BY DEF Disjoint, own
    <2> QED
      BY <2>1, ServedIs
  <1>2. ASSUME NEW m \in Disjoint(M), NEW j \in Disjoint(M), m.root # j.root
        PROVE  Own(m) \cap Own(j) = {}
    <2>1. m \in M /\ j \in M /\ m.root \in Int /\ j.root \in Int
      BY <1>1 DEF RootsOf, Ops
    <2>2. j.root < m.root \/ m.root < j.root
      BY <1>2, <2>1
    <2>3. own[m] = Own(m) /\ own[j] = Own(j)
      BY <2>1
    <2> QED
      BY <1>1, <2>2, <2>3
  <1> QED
    BY <1>1, <1>2

\* A set of ops has a last one.
LEMMA GreatestMember ==
  ASSUME NEW N \in Nat, NEW T, T \subseteq 1 .. N, T # {}
  PROVE  \E x \in T : \A y \in T : y <= x
  <1> DEFINE D == {N - x : x \in T}
  <1>1. D \subseteq Nat /\ D # {}
    <2>1. \A x \in T : N - x \in Nat
      OBVIOUS
    <2>2. PICK x \in T : TRUE
      OBVIOUS
    <2>3. N - x \in D
      BY <2>2
    <2> QED
      BY <2>1, <2>3
  <1>2. PICK d \in D : \A e \in D : d <= e
    BY <1>1, LeastMember
  <1>3. PICK x \in T : d = N - x
    OBVIOUS
  <1>4. ASSUME NEW y \in T
        PROVE  y <= x
    <2>1. N - x <= N - y
      BY <1>2, <1>3
    <2> QED
      BY <2>1
  <1> QED
    BY <1>4

\* What lies above an op: itself, and what lies above what it reads.
LEMMA AboveIs ==
  ASSUME UsesFormed(block)
  PROVE  \A o \in Ops : AboveIn(block, o) = {o} \cup UNION {AboveIn(block, r) : r \in block.reads[o]}
  <1> DEFINE N == block.n
             V == SUBSET (1 .. N)
             of(g, k) == {k} \cup UNION {g[r] : r \in block.reads[k]}
             step == [p \in [1 .. N -> V] \X (1 .. N) |-> of(p[1], p[2])]
             up[k \in 1 .. N] == of(up, k)
  <1>1. N \in Nat /\ \A k \in 1 .. N : block.reads[k] \subseteq 1 .. k - 1
    BY DEF UsesFormed
  <1>2. \A k \in 1 .. N : \A r \in block.reads[k] : r \in 1 .. N /\ r \in 1 .. k - 1
    BY <1>1
  <1>3. ASSUME NEW g \in [1 .. N -> V], NEW k \in 1 .. N
        PROVE  of(g, k) \in V /\ step[<<g, k>>] = of(g, k)
    <2>1. \A r \in block.reads[k] : g[r] \in V
      BY <1>2
    <2> QED
      BY <2>1
  <1>4. step \in [[1 .. N -> V] \X (1 .. N) -> V]
    <2>1. \A p \in [1 .. N -> V] \X (1 .. N) : of(p[1], p[2]) \in V
      <3> HIDE DEF of, V
      <3> QED
        BY <1>3
    <2> HIDE DEF of, V
    <2> QED
      BY <2>1
  <1>5. LocalTo(step, N, V)
    <2> SUFFICES ASSUME NEW g \in [1 .. N -> V], NEW h \in [1 .. N -> V], NEW k \in 1 .. N,
                        \A i \in 1 .. k - 1 : g[i] = h[i]
                 PROVE  step[<<g, k>>] = step[<<h, k>>]
      BY DEF LocalTo
    <2>1. of(g, k) = of(h, k)
      BY <1>2
    <2> HIDE DEF of, V, step
    <2> QED
      BY <1>3, <2>1
  <1>6. V # {}
    OBVIOUS
  <1> HIDE DEF step, V
  <1>7. PICK f : FollowsSteps(f, step, N, V)
    BY <1>1, <1>4, <1>5, <1>6, Course DEF Steps
  <1>8. f = [k \in 1 .. N |-> of(f, k)]
    <2> HIDE DEF of
    <2>1. f \in [1 .. N -> V] /\ \A k \in 1 .. N : f[k] = step[<<f, k>>]
      BY <1>7 DEF FollowsSteps
    <2>2. \A k \in 1 .. N : f[k] = of(f, k)
      BY <1>3, <2>1
    <2> QED
      BY <2>1, <2>2
  <1>9. up = [k \in 1 .. N |-> of(up, k)]
    <2> DEFINE fits(g) == g = [k \in 1 .. N |-> of(g, k)]
    <2>1. up = CHOOSE g : fits(g)
      BY DEF up
    <2>2. fits(f)
      BY <1>8
    <2> HIDE DEF fits
    <2>3. fits(CHOOSE g : fits(g))
      BY <2>2
    <2> QED
      BY <2>1, <2>3 DEF fits
  <1>10. \A o \in 1 .. N : AboveIn(block, o) = up[o]
    BY DEF AboveIn
  <1> HIDE DEF up
  <1> SUFFICES ASSUME NEW o \in 1 .. N
               PROVE  AboveIn(block, o) = {o} \cup UNION {AboveIn(block, r) : r \in block.reads[o]}
    BY DEF Ops
  <1>11. up[o] = {o} \cup UNION {up[r] : r \in block.reads[o]}
    BY <1>9
  <1>12. \A r \in block.reads[o] : up[r] = AboveIn(block, r)
    BY <1>2, <1>10
  <1> QED
    BY <1>10, <1>11, <1>12

\* What an op above reads is above.
LEMMA AboveCloses ==
  ASSUME UsesFormed(block)
  PROVE  \A x \in Ops : /\ x \in AboveIn(block, x) /\ AboveIn(block, x) \subseteq Ops
                        /\ \A u \in AboveIn(block, x) : block.reads[u] \subseteq AboveIn(block, x)
  <1> DEFINE Good(x) == /\ x \in AboveIn(block, x) /\ AboveIn(block, x) \subseteq Ops
                        /\ \A u \in AboveIn(block, x) : block.reads[u] \subseteq AboveIn(block, x)
             T == {x \in Ops : Good(x)}
  <1>1. block.n \in Nat /\ \A k \in Ops : block.reads[k] \subseteq 1 .. k - 1
    BY DEF UsesFormed, Ops
  <1>2. ASSUME NEW x \in 1 .. block.n, 1 .. x - 1 \subseteq T
        PROVE  x \in T
    <2>1. x \in Ops /\ \A r \in block.reads[x] : Good(r)
      BY <1>1, <1>2 DEF Ops
    <2>2. AboveIn(block, x) = {x} \cup UNION {AboveIn(block, r) : r \in block.reads[x]}
      BY <2>1, AboveIs
    <2>3. AboveIn(block, x) \subseteq Ops
      BY <2>1, <2>2
    <2>4. ASSUME NEW u \in AboveIn(block, x), NEW v \in block.reads[u]
          PROVE  v \in AboveIn(block, x)
      <3>1. CASE u = x
        BY <2>1, <2>2, <2>4, <3>1
      <3>2. CASE u # x
        <4>1. PICK r \in block.reads[x] : u \in AboveIn(block, r)
          BY <2>2, <3>2
        <4> QED
          BY <2>1, <2>2, <2>4, <4>1
      <3> QED
        BY <3>1, <3>2
    <2> QED
      BY <2>1, <2>2, <2>3, <2>4
  <1> HIDE DEF T
  <1>3. 1 .. block.n \subseteq T
    BY <1>1, <1>2, InductAll
  <1> QED
    BY <1>3 DEF T, Ops

\* A tree lies above its root.
LEMMA TreeAbove ==
  ASSUME UsesFormed(block), NEW m, Tree(block, m)
  PROVE  m.ops \subseteq AboveIn(block, m.root)
  <1> DEFINE T == m.ops \ AboveIn(block, m.root)
  <1> SUFFICES ASSUME T # {} PROVE FALSE
    OBVIOUS
  <1>1. /\ block.n \in Nat /\ m.root \in Ops /\ T \subseteq 1 .. block.n
        /\ \A o \in m.ops : \E u \in m.ops \cup {m.root} : o \in block.reads[u]
        /\ \A u \in Ops : block.reads[u] \subseteq 1 .. u - 1
        /\ m.ops \subseteq Ops
    BY DEF UsesFormed, Tree, MatchOf, Ops
  <1> HIDE DEF T
  <1>2. PICK x \in T : \A y \in T : y <= x
    BY <1>1, GreatestMember
  <1>3. PICK u \in m.ops \cup {m.root} : x \in block.reads[u]
    BY <1>1 DEF T
  <1>4. u \in Ops /\ x \in 1 .. u - 1
    BY <1>1, <1>3
  <1>5. u \notin T
    BY <1>1, <1>2, <1>4 DEF Ops
  <1>6. u \in AboveIn(block, m.root)
    BY <1>1, <1>3, <1>5, AboveCloses DEF T
  <1>7. x \in AboveIn(block, m.root)
    BY <1>1, <1>3, <1>6, AboveCloses
  <1> QED
    BY <1>7 DEF T

\* What DeadSweep adds to a region: nothing the call needs, and only what the
\* region and its root read.
LEMMA SweptIs ==
  ASSUME UsesFormed(block), NEW m, Tree(block, m)
  PROVE  \E S \in SUBSET Ops :
           /\ Swept(m) = [m EXCEPT !.ops = S]
           /\ m.ops \subseteq S /\ S \subseteq 1 .. m.root - 1
           /\ S \subseteq AboveIn(block, m.root)
           /\ \A o \in S \ m.ops : /\ \A r \in m.reads : o \notin AboveIn(block, r)
                                   /\ Users(o) \subseteq S \cup {m.root}
  <1> DEFINE N == block.n
             needed == UNION {AboveIn(block, r) : r \in m.reads}
             more(S) == {o \in UNION {block.reads[u] : u \in S \cup {m.root}} :
                           /\ o \notin S \cup needed \cup {m.root}
                           /\ Users(o) # {} /\ Users(o) \subseteq S \cup {m.root}}
             step == [p \in (SUBSET Ops) \X (1 .. N) |-> p[1] \cup more(p[1])]
             sweep[k \in 0 .. N] == IF k = 0 THEN m.ops ELSE sweep[k - 1] \cup more(sweep[k - 1])
  <1>1. /\ N \in Nat /\ m.ops \in SUBSET Ops /\ m.root \in Ops
        /\ \A k \in Ops : block.reads[k] \subseteq Ops /\ block.reads[k] \subseteq 1 .. k - 1
        /\ m.ops \subseteq 1 .. m.root - 1
    BY DEF UsesFormed, Tree, MatchOf, Ops
  <1>2. ASSUME NEW S \in SUBSET Ops
        PROVE  S \cup more(S) \in SUBSET Ops
    BY <1>1
  <1>3. step \in [(SUBSET Ops) \X (1 .. N) -> SUBSET Ops]
    <2> HIDE DEF more
    <2> QED
      BY <1>2
  <1>4. \A S \in SUBSET Ops, k \in 1 .. N : step[<<S, k>>] = S \cup more(S)
    <2> HIDE DEF more
    <2> QED
      OBVIOUS
  <1> HIDE DEF step
  <1>5. PICK f \in [0 .. N -> SUBSET Ops] : Chained(f, m.ops, step, N)
    BY <1>1, <1>3, Chain
  <1> HIDE DEF more
  <1>6. f = [k \in 0 .. N |-> IF k = 0 THEN m.ops ELSE f[k - 1] \cup more(f[k - 1])]
    <2>1. f[0] = m.ops
      BY <1>5 DEF Chained
    <2>2. ASSUME NEW k \in 1 .. N
          PROVE  f[k] = f[k - 1] \cup more(f[k - 1])
      <3>1. k - 1 \in 0 .. N
        BY <1>1
      <3>2. f[k - 1] \in SUBSET Ops
        BY <1>5, <3>1
      <3> QED
        BY <1>4, <1>5, <3>2 DEF Chained
    <2>3. \A k \in 0 .. N : k = 0 \/ k \in 1 .. N
      OBVIOUS
    <2> QED
      BY <1>5, <2>1, <2>2, <2>3
  <1>7. sweep = [k \in 0 .. N |-> IF k = 0 THEN m.ops ELSE sweep[k - 1] \cup more(sweep[k - 1])]
    <2> DEFINE fits(g) == g = [k \in 0 .. N |-> IF k = 0 THEN m.ops ELSE g[k - 1] \cup more(g[k - 1])]
    <2>1. sweep = CHOOSE g : fits(g)
      BY DEF sweep
    <2>2. fits(f)
      BY <1>6
    <2> HIDE DEF fits
    <2>3. fits(CHOOSE g : fits(g))
      BY <2>2
    <2> QED
      BY <2>1, <2>3 DEF fits
  <1>8. Swept(m) = [m EXCEPT !.ops = sweep[N]]
    BY DEF Swept, more, sweep
  <1> HIDE DEF sweep
  <1> DEFINE Good(S) == /\ S \subseteq Ops /\ m.ops \subseteq S /\ S \subseteq 1 .. m.root - 1
                        /\ S \subseteq AboveIn(block, m.root)
                        /\ \A o \in S \ m.ops : o \notin needed /\ Users(o) \subseteq S \cup {m.root}
             T == {k \in 0 .. N : Good(sweep[k])}
  <1>9. 0 \in T
    BY <1>1, <1>7, TreeAbove
  <1>10. ASSUME NEW k \in 0 .. N - 1, k \in T
         PROVE  k + 1 \in T
    <2> DEFINE S == sweep[k]
    <2>1. k + 1 \in 0 .. N /\ (k + 1) - 1 = k /\ k + 1 # 0 /\ Good(S)
      BY <1>1, <1>10
    <2>2. sweep[k + 1] = S \cup more(S)
      BY <1>7, <2>1
    <2> HIDE DEF S
    <2>3. ASSUME NEW o \in more(S)
          PROVE  /\ o \in 1 .. m.root - 1 /\ o \in AboveIn(block, m.root)
                 /\ o \notin needed /\ Users(o) \subseteq S \cup {m.root}
      <3>1. PICK u \in S \cup {m.root} : o \in block.reads[u]
        BY <2>3 DEF more
      <3>2. u \in Ops /\ u \in AboveIn(block, m.root) /\ u <= m.root
        BY <1>1, <2>1, AboveCloses DEF Ops
      <3>3. o \in AboveIn(block, m.root)
        BY <1>1, <3>1, <3>2, AboveCloses
      <3>4. o \in 1 .. u - 1
        BY <1>1, <3>1, <3>2
      <3>5. o \in 1 .. m.root - 1
        BY <1>1, <3>2, <3>4 DEF Ops
      <3> QED
        BY <2>3, <3>3, <3>5 DEF more
    <2>4. Good(S \cup more(S))
      <3>1. S \cup more(S) \subseteq Ops
        BY <1>2, <2>1
      <3> HIDE DEF needed
      <3> QED
        BY <2>1, <2>3, <3>1
    <2> HIDE DEF Good
    <2> QED
      BY <2>1, <2>2, <2>4
  <1> HIDE DEF T
  <1>11. N \in T
    <2>1. N \in Nat /\ N \in 0 .. N
      BY <1>1
    <2> HIDE DEF N
    <2> QED
      BY <1>9, <1>10, <2>1, InductTo
  <1>12. Good(sweep[N])
    BY <1>11 DEF T
  <1> HIDE DEF N
  <1>13. \A o \in sweep[N] \ m.ops : \A r \in m.reads : o \notin AboveIn(block, r)
    BY <1>12
  <1>14. sweep[N] \in SUBSET Ops
    BY <1>12
  <1> QED
    BY <1>8, <1>12, <1>13, <1>14

\* What AnalyzeNorm keeps shares no op, and what it drops of that is not
\* exclusive.
NormOwn(m) == {m.root} \cup (m.ops \ Literal)
\* AnalyzeNorm: no op twice, and what is absorbed is read inside.
LEMMA NormsIs ==
  ASSUME block.n \in Nat, NEW M, M \subseteq MatchOf(block), IsFiniteSet(M),
         \A m, j \in M : m.root = j.root => m = j
  PROVE  \E K \in SUBSET M :
           /\ \A m, j \in K : m # j => NormOwn(m) \cap NormOwn(j) = {}
           /\ Norms(M) = WithoutLiteral({m \in K : m.ops \ Literal \subseteq
                                           Closed(OpsOf(K) \ Literal, RootsOf(K))})
  <1> DEFINE N == Cardinality(M)
             ahead(m) == {k \in M : \/ Cardinality(k.ops) > Cardinality(m.ops)
                                    \/ Cardinality(k.ops) = Cardinality(m.ops) /\ k.root < m.root}
             more(S, k) == S \cup {m \in M : /\ Cardinality(ahead(m)) = k - 1
                                             /\ NormOwn(m) \cap UNION {NormOwn(j) : j \in S} = {}}
             step == [p \in (SUBSET M) \X (1 .. N) |-> more(p[1], p[2])]
             kept[k \in 0 .. N] == IF k = 0 THEN {} ELSE more(kept[k - 1], k)
  <1>1. N \in Nat
    BY FS_CardinalityType
  <1>2. \A m \in M : Cardinality(m.ops) \in Nat /\ m.root \in Nat
    <2> SUFFICES ASSUME NEW m \in M
                 PROVE  Cardinality(m.ops) \in Nat /\ m.root \in Nat
      OBVIOUS
    <2>1. m.ops \in SUBSET (1 .. block.n) /\ m.root \in Nat
      BY DEF MatchOf
    <2>2. IsFiniteSet(1 .. block.n)
      BY FS_Interval
    <2> QED
      BY <2>1, <2>2, FS_Subset, FS_CardinalityType
  <1>3. ASSUME NEW m \in M, NEW j \in M, Cardinality(ahead(m)) = Cardinality(ahead(j))
        PROVE  m = j
    <2>1. ASSUME NEW a \in M, NEW c \in M, a \in ahead(c)
          PROVE  Cardinality(ahead(a)) # Cardinality(ahead(c))
      <3>1. ahead(a) \subseteq ahead(c)
        BY <1>2, <2>1
      <3>2. a \notin ahead(a)
        BY <1>2
      <3>3. IsFiniteSet(ahead(c))
        BY FS_Subset
      <3> HIDE DEF ahead
      <3> QED
        BY <2>1, <3>1, <3>2, <3>3, FS_Subset
    <2>2. m = j \/ m \in ahead(j) \/ j \in ahead(m)
      BY <1>2
    <2> HIDE DEF ahead
    <2> QED
      BY <1>3, <2>1, <2>2
  <1> HIDE DEF ahead
  <1>4. step \in [(SUBSET M) \X (1 .. N) -> SUBSET M]
    <2> HIDE DEF N
    <2> QED
      OBVIOUS
  <1>5. PICK f \in [0 .. N -> SUBSET M] : Chained(f, {}, step, N)
    <2> HIDE DEF step, N
    <2> QED
      BY <1>1, <1>4, Chain
  <1>6. \A S \in SUBSET M, k \in 1 .. N : step[<<S, k>>] = more(S, k)
    <2> HIDE DEF more, N
    <2> QED
      OBVIOUS
  <1> HIDE DEF step, N
  <1>7. f = [k \in 0 .. N |-> IF k = 0 THEN {} ELSE more(f[k - 1], k)]
    <2>1. f[0] = {}
      BY <1>5 DEF Chained
    <2>2. ASSUME NEW k \in 1 .. N
          PROVE  f[k] = more(f[k - 1], k)
      <3>1. k - 1 \in 0 .. N
        BY <1>1
      <3>2. f[k - 1] \in SUBSET M
        BY <1>5, <3>1
      <3>3. f[k] = step[<<f[k - 1], k>>]
        BY <1>5 DEF Chained
      <3> HIDE DEF more
      <3> QED
        BY <1>6, <3>2, <3>3
    <2> HIDE DEF more
    <2>3. \A k \in 0 .. N : k = 0 \/ k \in 1 .. N
      BY <1>1
    <2> QED
      BY <1>5, <2>1, <2>2, <2>3
  <1>8. kept = [k \in 0 .. N |-> IF k = 0 THEN {} ELSE more(kept[k - 1], k)]
    <2> DEFINE fits(g) == g = [k \in 0 .. N |-> IF k = 0 THEN {} ELSE more(g[k - 1], k)]
    <2>1. kept = CHOOSE g : fits(g)
      BY DEF kept
    <2>2. fits(f)
      BY <1>7
    <2> HIDE DEF fits
    <2>3. fits(CHOOSE g : fits(g))
      BY <2>2
    <2> QED
      BY <2>1, <2>3 DEF fits
  <1> DEFINE K == kept[N]
  <1>9. Norms(M) = WithoutLiteral({m \in K : m.ops \ Literal \subseteq
                                     Closed(OpsOf(K) \ Literal, RootsOf(K))})
    BY DEF Norms, kept, more, ahead, N, NormOwn
  <1> HIDE DEF kept
  <1> DEFINE Good(S, k) == /\ S \subseteq M
                           /\ \A m \in S : Cardinality(ahead(m)) < k
                           /\ \A m, j \in S : m # j => NormOwn(m) \cap NormOwn(j) = {}
             T == {k \in 0 .. N : Good(kept[k], k)}
  <1>10. 0 \in T
    BY <1>1, <1>8
  <1>11. ASSUME NEW k \in 0 .. N - 1, k \in T
         PROVE  k + 1 \in T
    <2>1. k \in Nat /\ k + 1 \in 0 .. N /\ (k + 1) - 1 = k /\ k + 1 # 0 /\ Good(kept[k], k)
      BY <1>1, <1>11
    <2>2. kept[k + 1] = more(kept[k], k + 1)
      <3> HIDE DEF more
      <3> QED
        BY <1>8, <2>1
    <2>3. \A m \in kept[k + 1] :
            \/ m \in kept[k]
            \/ /\ m \in M /\ Cardinality(ahead(m)) = k
               /\ \A j \in kept[k] : NormOwn(m) \cap NormOwn(j) = {}
      BY <2>1, <2>2
    <2>4. kept[k + 1] \subseteq M
      BY <2>1, <2>3
    <2>5. \A m \in kept[k + 1] : Cardinality(ahead(m)) < k + 1
      <3>1. \A m \in M : Cardinality(ahead(m)) \in Nat
        <4> SUFFICES ASSUME NEW m \in M PROVE Cardinality(ahead(m)) \in Nat
          OBVIOUS
        <4>1. ahead(m) \in SUBSET M
          BY DEF ahead
        <4> QED
          BY <4>1, FS_Subset, FS_CardinalityType
      <3> QED
        BY <2>1, <2>3, <2>4, <3>1
    <2>6. ASSUME NEW m \in kept[k + 1], NEW j \in kept[k + 1], m # j
          PROVE  NormOwn(m) \cap NormOwn(j) = {}
      <3>1. m \in kept[k] \/ j \in kept[k]
        BY <1>3, <2>3, <2>6
      <3> QED
        BY <2>1, <2>3, <2>6, <3>1
    <2> QED
      BY <2>1, <2>4, <2>5, <2>6
  <1> HIDE DEF T
  <1>12. N \in T
    <2>1. N \in 0 .. N
      BY <1>1
    <2> QED
      BY <1>1, <1>10, <1>11, <2>1, InductTo
  <1>13. K \in SUBSET M /\ \A m, j \in K : m # j => NormOwn(m) \cap NormOwn(j) = {}
    BY <1>12 DEF T
  <1> QED
    BY <1>9, <1>13

\* A pack runs at its first dot, and absorbs and binds the others.
LEMMA PackedIs ==
  ASSUME NEW G, G # {}, G \subseteq MatchOf(block), block.n \in Nat
  PROVE  \E first \in G :
           LET p == Packed(G)
           IN /\ p.root = first.root /\ p.reads = first.reads /\ p.members = G
              /\ p.bound = RootsOf(G) \ {first.root} /\ p.ops = OpsOf(G) \cup p.bound
              /\ p.over = first.over
              /\ \A v \in p.bound : first.root < v
  <1> DEFINE first == CHOOSE m \in G : Before(G, m) = {}
             others == RootsOf(G) \ {first.root}
  <1>1. \A m \in G : m.root \in Nat
    BY DEF MatchOf
  <1>2. PICK r \in RootsOf(G) : \A s \in RootsOf(G) : r <= s
    <2>1. RootsOf(G) # {} /\ RootsOf(G) \subseteq Nat
      BY <1>1 DEF RootsOf
    <2> QED
      BY <2>1, LeastMember
  <1>3. PICK m \in G : m.root = r
    BY DEF RootsOf
  <1>4. Before(G, m) = {}
    BY <1>1, <1>2, <1>3 DEF Before, RootsOf
  <1>5. first \in G /\ Before(G, first) = {}
    BY <1>3, <1>4
  <1>6. Packed(G) = [first EXCEPT !.ops = OpsOf(G) \cup others, !.bound = others, !.members = G]
    BY DEF Packed
  <1> HIDE DEF first
  <1>7. first \in MatchOf(block)
    BY <1>5
  <1>8. /\ Packed(G).root = first.root /\ Packed(G).reads = first.reads /\ Packed(G).members = G
        /\ Packed(G).bound = others /\ Packed(G).ops = OpsOf(G) \cup others
        /\ Packed(G).over = first.over
    BY <1>6, <1>7 DEF MatchOf
  <1>9. \A v \in others : first.root < v
    BY <1>1, <1>5 DEF RootsOf, Before
  <1> QED
    BY <1>5, <1>8, <1>9

\* Packs have no dot in common.
LEMMA GroupsIs ==
  ASSUME NEW M, IsFiniteSet(M), NEW C \in Groups(M)
  PROVE  /\ \A G \in C : G \subseteq M /\ G # {}
         /\ \A G, H \in C : G \cap H # {} => G = H
  <1> DEFINE all == {{m \in M : m.key = k} : k \in {m.key : m \in M} \ {0}}
             ok(G, H) == G = H \/ (Cardinality(H) >= 3 /\ Cardinality(G) = Cardinality(H) - 1)
  <1>1. /\ C \in SUBSET (SUBSET M)
        /\ \A G \in C : Cardinality(G) >= 2 /\ \E H \in all : G \subseteq H /\ ok(G, H)
        /\ \A H \in all : Cardinality(H) >= 2 => Cardinality({G \in C : G \subseteq H}) = 1
    BY DEF Groups
  <1>2. \A G \in C : G \subseteq M /\ G # {}
    <2> SUFFICES ASSUME NEW G \in C, G = {} PROVE FALSE
      BY <1>1
    <2>1. Cardinality(G) = 0
      BY FS_EmptySet
    <2> QED
      BY <1>1, <2>1
  <1>3. ASSUME NEW G \in C, NEW H \in C, NEW m \in G \cap H
        PROVE  G = H
    <2>1. PICK A \in all : G \subseteq A
      BY <1>1
    <2>2. PICK B \in all : H \subseteq B
      BY <1>1
    <2>3. A = B
      BY <2>1, <2>2
    <2>4. A \in SUBSET M
      BY <2>1
    <2>5. Cardinality(A) >= 2
      <3>1. IsFiniteSet(A) /\ IsFiniteSet(G) /\ Cardinality(G) <= Cardinality(A)
        BY <1>2, <2>1, <2>4, FS_Subset
      <3>2. Cardinality(A) \in Nat /\ Cardinality(G) \in Nat /\ Cardinality(G) >= 2
        BY <1>1, <3>1, FS_CardinalityType
      <3> QED
        BY <3>1, <3>2
    <2> DEFINE D == {K \in C : K \subseteq A}
    <2>6. Cardinality(D) = 1
      BY <1>1, <2>1, <2>5
    <2>7. IsFiniteSet(D)
      <3>1. D \in SUBSET (SUBSET M)
        BY <1>1
      <3> QED
        BY <3>1, FS_SUBSET, FS_Subset
    <2>8. \E x : D = {x}
      <3> HIDE DEF D
      <3> QED
        BY <2>6, <2>7, FS_Singleton
    <2>9. G \in D /\ H \in D
      BY <2>1, <2>2, <2>3
    <2> QED
      BY <2>8, <2>9
  <1> QED
    BY <1>2, <1>3

\* The next recognizer at work comes later.
LEMMA AfterIs ==
  ASSUME NEW i \in 1 .. 10
  PROVE  \E j \in i + 1 .. 11 : After(Stages[i]) = Stages[j]
  <1> DEFINE busy(t) == t = "analyzed" \/ Found(t) # {}
             place == CHOOSE k \in DOMAIN Stages : Stages[k] = Stages[i]
             S == {k \in DOMAIN Stages : k > place /\ busy(Stages[k])}
  <1>1. DOMAIN Stages = 1 .. 11 /\ \A j, k \in 1 .. 11 : Stages[j] = Stages[k] => j = k
    BY DEF Stages
  <1>2. place = i
    BY <1>1
  <1>3. After(Stages[i]) = Stages[Min(S)]
    BY DEF After
  <1>4. S \subseteq Nat /\ 11 \in S
    BY <1>1, <1>2 DEF Stages
  <1>5. S \subseteq i + 1 .. 11
    BY <1>1, <1>2
  <1> HIDE DEF S
  <1>6. Min(S) \in S
    <2>1. \E x \in S : \A y \in S : x <= y
      BY <1>4, LeastMember
    <2> QED
      BY <2>1 DEF Min
  <1> QED
    BY <1>3, <1>5, <1>6

---------------------------------------------------------------------------
(* What is known of the matches of each recognizer.                        *)

\* What an op or a match reads is made before it.
LEMMA UsersAreLater ==
  ASSUME UsesFormed(block), NEW v, NEW u \in Users(v), u # TheReturn
  PROVE  u \in Ops /\ v \in block.reads[u] /\ v \in Ops /\ v < u
  BY DEF UsesFormed, Users, Ops

\* Whatever reads a value is one of its users.
LEMMA ReadersAreUsers ==
  ASSUME NEW u \in Ops, NEW v \in block.reads[u]
  PROVE  u \in Users(v)
  BY DEF Users

\* What a pattern found is a tree in the block, below its root.
LEMMA FoundIs ==
  ASSUME BlockFormed(block), NEW k \in Kinds, NEW m \in Found(k)
  PROVE  /\ m \in MatchOf(block) /\ Tree(block, m) /\ Own(m) \subseteq Ops /\ m.ops \subseteq Ops
         /\ m.reads \subseteq Ops /\ m.bound \subseteq Ops /\ m.members = {}
         /\ m.root \in Ops /\ m.root \in Nat /\ m.ops \subseteq 1 .. m.root - 1
         /\ m.reads \subseteq 1 .. m.root - 1
         /\ \A j \in Found(k) : m.root = j.root => m = j
  <1>1. Tree(block, m) /\ \A j \in Found(k) : m.root = j.root => m = j
    BY DEF BlockFormed, MatchesFormed, Found
  <1>2. m \in MatchOf(block)
    BY <1>1 DEF Tree
  <1> QED
    BY <1>1, <1>2 DEF Tree, MatchOf, Own, Ops

\* Each op of a match is read in it.
Linked(m) == \A o \in m.ops : \E u \in Own(m) : o \in block.reads[u]
\* What the call of a match reads is read in it.
ReadHere(m) == \A v \in m.reads : v \in 1 .. m.root - 1 /\ \E u \in Own(m) : v \in block.reads[u]
\* A match as it was found, with fewer ops; it has what it binds.
StemsFrom(k, m) ==
  /\ \E f \in Found(k) : /\ m.root = f.root /\ m.reads = f.reads /\ m.bound = f.bound
                         /\ m.ops \subseteq f.ops
  /\ m.bound \subseteq m.ops /\ ReadHere(m)

\* Matches claimed together: what reads an op of theirs is in one that has the
\* op as well, were it one that was given up.
JointInv(k, M, A) ==
  /\ \A m \in M : StemsFrom(k, m)
  /\ \A m \in M : \A v \in m.ops \ m.bound : \A u \in Users(v) :
       \E d \in A : u \in Own(d) /\ v \in d.ops
\* Those claimed one by one: what reads an op is in the match.
AloneInv(M) == \A m \in M : \A v \in m.ops \ m.bound : Users(v) \subseteq Own(m)
\* Those whose users are in some match of the recognizer.
ShutInv(M) ==
  \A m \in M : \A v \in m.ops \ m.bound : Users(v) \subseteq RootsOf(M) \cup OpsOf(M)

\* The sibling dots a pack was made of.
PackShape(p) ==
  \E first \in p.members :
    /\ p.root = first.root /\ p.reads = first.reads
    /\ p.bound = RootsOf(p.members) \ {first.root} /\ p.ops = OpsOf(p.members) \cup p.bound
    /\ \A v \in p.bound : first.root < v
\* Packs share no dot.
PacksInv(P) ==
  /\ \A p \in P : PackShape(p)
  /\ \A p, r \in P : p # r => p.members \cap r.members = {}

\* What an expert dispatch is, Q being the quantized matmuls ever kept.
DispatchInv(m, Q) ==
  /\ \E f \in Found("moe") :
       /\ m.root = f.root /\ m.reads = f.reads /\ m.bound = {} /\ m.over = f.over
       /\ f.ops \subseteq m.ops /\ m.over = f.ops \cap RootsOf(Q)
  /\ m.ops \subseteq 1 .. m.root - 1 /\ \A v \in m.ops : Users(v) \subseteq Own(m)
  /\ \A c \in Found("sdpa") : c.root \notin Own(m)

\* What a ragged dot is.
RaggedStems(m, f) ==
  /\ m.root = f.root /\ m.bound \subseteq f.bound /\ m.bound \subseteq m.ops
  /\ m.ops \subseteq f.ops \cup m.bound /\ m.reads \subseteq f.reads \cup f.plain

\* Every stacked dot that was kept, in a pack or not.
Dots == plan["stacked"] \cup UNION {p.members : p \in plan["pack"]}

(* What each recognizer's matches are, from when it claims them on.        *)
QmmInv ==
  /\ JointInv("qmm", plan["qmm"], plan["qmm"] \cup declined["qmm"])
  /\ \A m \in plan["qmm"] : Linked(m)
MoeInv ==
  /\ \A m \in plan["moe"] : DispatchInv(m, plan["qmm"] \cup declined["qmm"])
  /\ \A c, m \in plan["moe"] : c.reads \cap m.ops = {}
SdpaInv == plan["sdpa"] \subseteq Found("sdpa") /\ ShutInv(plan["sdpa"])
RaggedInv ==
  /\ \A m \in plan["ragged"] : \E f \in Found("ragged") :
       /\ RaggedStems(m, f)
       /\ \A k \in {"qmm", "moe", "sdpa"} : Own(f) \cap Owned(plan, k) = {}
  /\ ShutInv(plan["ragged"])
  /\ \A c, m \in plan["ragged"] : c.reads \cap m.ops \subseteq m.bound
DotsInv ==
  /\ JointInv("stacked", Dots, Dots \cup declined["stacked"]) /\ PacksInv(plan["pack"])
  /\ \A m, j \in Dots : m.root = j.root => m = j
ProjInv == PacksInv(plan["proj"]) /\ \A p \in plan["proj"] : p.members \subseteq Found("proj")
MlaInv == JointInv("mla", plan["mla"], plan["mla"] \cup declined["mla"])
GdnInv ==
  /\ JointInv("gdn", plan["gdn"], plan["gdn"] \cup declined["gdn"])
  /\ \A m \in plan["gdn"] : \A v \in m.bound : \A u \in Users(v) \ m.ops : u = TheReturn \/ u >= m.root
  /\ \A m, j \in plan["gdn"] : m.root \notin j.ops
NormInv == (\A m \in plan["norm"] : StemsFrom("norm", m)) /\ AloneInv(plan["norm"])
RopeInv ==
  /\ plan["rope"] \subseteq Found("rope") /\ AloneInv(plan["rope"])
  /\ \A c, m \in plan["rope"] : c # m => Own(c) \cap Own(m) = {}

\* A recognizer that has not been at work has claimed nothing.
Unreached ==
  \A i \in 1 .. 11 : stage = Stages[i] =>
    /\ declined["qmm"] = {} /\ declined["stacked"] = {}
    /\ \A j \in i .. 10 : /\ plan[Stages[j]] = {} /\ declined[Stages[j]] = {}
                          /\ Stages[j] = "stacked" => plan["pack"] = {}
\* From the last analysis on, `skip` and the root maps are those of the plan.
Builders == {"buildQmm", "buildStacked", "buildProj", "verify", "lower"}
RootsInv ==
  stage \in Builders =>
    /\ skip = OpsOf(Matches)
    /\ \A k \in Kinds : \A m \in Emitted(plan, k) : [kind |-> k, root |-> m.root] \in roots
\* A dispatch that stands has taken over nothing that lost its weight.
DispatchesPacked ==
  stage = "lower" => \A m \in plan["moe"] : \A q \in declined["qmm"] : q.root \notin m.over

\* The inductive invariant.
PlanInv ==
  /\ block \in Blocks
  /\ plan = [k \in Kinds |-> plan[k]] /\ declined = [k \in Kinds |-> declined[k]]
  /\ QmmInv /\ MoeInv /\ SdpaInv /\ RaggedInv /\ DotsInv /\ ProjInv
  /\ MlaInv /\ GdnInv /\ NormInv /\ RopeInv
  /\ OneOwner /\ Unreached /\ RootsInv /\ DispatchesPacked

---------------------------------------------------------------------------
(* What each recognizer finds.                                             *)

\* Prune, of quantized matmuls and of stacked dots.
LEMMA PrunedJoint ==
  ASSUME BlockFormed(block), NEW k \in {"qmm", "stacked"}, NEW M, M \subseteq Found(k), NEW shared,
         block.const \cap shared = block.const \/ k = "qmm"
  PROVE  LET A == Pruned(M, shared)
         IN /\ JointInv(k, A, A)
            /\ \A a \in A : \E m \in M : a = [m EXCEPT !.ops = m.ops \cap OpsOf(A)] /\ a.root = m.root
            /\ RootsOf(M) \cap OpsOf(Found(k)) = {} => \A a \in A : Linked(a)
  <1> DEFINE A == Pruned(M, shared)
  <1>1. /\ \A a \in A : \E m \in M :
             a = [m EXCEPT !.ops = m.ops \cap OpsOf(A)] /\ m.whole \subseteq OpsOf(A)
        /\ \A v \in OpsOf(A) : v \notin shared /\ Users(v) \subseteq OpsOf(A) \cup RootsOf(A)
    <2>1. M \subseteq MatchOf(block)
      BY FoundIs DEF Kinds
    <2> QED
      BY <2>1, PrunedIs
  <1> HIDE DEF A
  <1>2. k \in Kinds /\ UsesFormed(block)
    BY DEF Kinds, BlockFormed
  <1>3. ASSUME NEW a \in A
        PROVE  \E m \in M :
                 /\ a = [m EXCEPT !.ops = m.ops \cap OpsOf(A)]
                 /\ a.root = m.root /\ a.reads = m.reads /\ a.bound = {} /\ m.bound = {}
                 /\ a.ops = m.ops \cap OpsOf(A)
                 /\ m.whole \subseteq OpsOf(A) /\ m \in Found(k)
    <2>1. PICK m \in M : a = [m EXCEPT !.ops = m.ops \cap OpsOf(A)] /\ m.whole \subseteq OpsOf(A)
      BY <1>1
    <2>2. m \in Found(k) /\ m \in MatchOf(block) /\ m.ops \cap OpsOf(A) \in SUBSET Ops
      BY <1>2, FoundIs
    <2>3. m.bound = {}
      BY <2>2 DEF BlockFormed, BoundFormed, Kinds, Found
    <2> QED
      BY <2>1, <2>2, <2>3, WithOps
  <1>4. ASSUME NEW a \in A
        PROVE  StemsFrom(k, a)
    <2>1. PICK m \in M : /\ a.root = m.root /\ a.reads = m.reads /\ a.bound = {} /\ m.bound = {}
                         /\ a.ops = m.ops \cap OpsOf(A) /\ m.whole \subseteq OpsOf(A) /\ m \in Found(k)
      BY <1>3
    <2>2. ASSUME NEW v \in a.reads
          PROVE  v \in 1 .. a.root - 1 /\ \E u \in Own(a) : v \in block.reads[u]
      <3>1. PICK u \in m.whole \cup {m.root} : v \in block.reads[u]
        BY <2>1, <2>2 DEF BlockFormed, ReadsAreOfTrees, Core, Kinds, Found
      <3>2. m.whole \subseteq m.ops /\ m.reads \subseteq 1 .. m.root - 1
        BY <1>2, <2>1, FoundIs DEF Tree
      <3> QED
        BY <2>1, <2>2, <3>1, <3>2 DEF Own
    <2> QED
      BY <2>1, <2>2 DEF StemsFrom, ReadHere
  <1>5. ASSUME NEW m \in A, NEW v \in m.ops \ m.bound, NEW u \in Users(v)
        PROVE  \E d \in A : u \in Own(d) /\ v \in d.ops
    <2>1. v \in OpsOf(A)
      BY DEF OpsOf
    <2>2. PICK d \in A : u \in Own(d)
      BY <1>1, <2>1 DEF OpsOf, RootsOf, Own
    <2>3. PICK g \in Found(k) : d.root = g.root /\ g.bound = {} /\ d.ops = g.ops \cap OpsOf(A)
      BY <1>3
    <2>4. u \in Own(g) /\ u \in Ops
      BY <1>2, <2>2, <2>3, FoundIs DEF Own
    <2>5. v \in block.reads[u]
      BY <1>2, <2>4, UsersAreLater DEF TheReturn, Ops
    <2>6. PICK f \in Found(k) : m.ops = f.ops \cap OpsOf(A) /\ f.bound = {}
      BY <1>3
    <2>7. v \in g.ops \cup g.reads
      BY <2>4, <2>5 DEF BlockFormed, TreesAreWhole, Found, Own
    <2>8. v \notin g.reads
      BY <2>6 DEF BlockFormed, TreesAreApart, Found
    <2> QED
      BY <2>1, <2>2, <2>3, <2>7, <2>8
  <1>6. ASSUME RootsOf(M) \cap OpsOf(Found(k)) = {}, NEW a \in A, NEW o \in a.ops
        PROVE  \E u \in Own(a) : o \in block.reads[u]
    <2>1. PICK m \in M : a.root = m.root /\ a.ops = m.ops \cap OpsOf(A) /\ m \in Found(k)
      BY <1>3
    <2>2. PICK u \in m.ops \cup {m.root} : o \in block.reads[u]
      BY <1>2, <2>1, FoundIs DEF Tree
    <2>3. u \in Users(o)
      BY <1>2, <2>1, <2>2, FoundIs, ReadersAreUsers
    <2>4. u \in OpsOf(A) \cup RootsOf(A)
      BY <1>1, <1>6, <2>3 DEF OpsOf
    <2>5. RootsOf(A) \subseteq RootsOf(M)
      BY <1>3 DEF RootsOf
    <2>6. u = m.root \/ u \in OpsOf(A)
      BY <1>6, <2>1, <2>2, <2>4, <2>5 DEF OpsOf
    <2> QED
      BY <2>1, <2>2, <2>6 DEF Own
  <1> QED
    BY <1>3, <1>4, <1>5, <1>6 DEF A, JointInv, Linked

\* AnalyzeQmm.
LEMMA QmmFinds ==
  ASSUME BlockFormed(block)
  PROVE  JointInv("qmm", Qmm, Qmm) /\ \A m \in Qmm : Linked(m)
  <1> DEFINE M == {m \in Found("qmm") : m.root \notin OpsOf(Found("qmm"))}
  <1>1. M \subseteq Found("qmm") /\ RootsOf(M) \cap OpsOf(Found("qmm")) = {}
    BY DEF RootsOf
  <1>2. Qmm = Pruned(M, {})
    BY DEF Qmm
  <1> HIDE DEF M
  <1> QED
    BY <1>1, <1>2, PrunedJoint

\* Dots that are claimed have one match each.
LEMMA StackedFinds ==
  ASSUME BlockFormed(block)
  PROVE  /\ JointInv("stacked", Stacked, Stacked)
         /\ \A m, j \in Stacked : m.root = j.root => m = j
         /\ \A m \in Stacked : m \in MatchOf(block)
         /\ IsFiniteSet(Stacked)
         /\ \A m \in Stacked : Own(m) \cap Taken = {}
  <1> DEFINE M == {m \in Found("stacked") : Free(m)}
             A == Stacked
  <1>1. M \subseteq Found("stacked")
    OBVIOUS
  <1>2. Stacked = Pruned(M, block.const)
    BY DEF Stacked, Literal
  <1> HIDE DEF M, A
  <1>3. /\ JointInv("stacked", Stacked, Stacked)
        /\ \A a \in A : \E m \in M : a = [m EXCEPT !.ops = m.ops \cap OpsOf(A)] /\ a.root = m.root
    BY <1>1, <1>2, PrunedJoint DEF A
  <1>4. ASSUME NEW a \in A, NEW c \in A, a.root = c.root
        PROVE  a = c
    <2>1. PICK m \in M : a = [m EXCEPT !.ops = m.ops \cap OpsOf(A)] /\ a.root = m.root
      BY <1>3
    <2>2. PICK j \in M : c = [j EXCEPT !.ops = j.ops \cap OpsOf(A)] /\ c.root = j.root
      BY <1>3
    <2>3. m = j
      BY <1>1, <1>4, <2>1, <2>2, FoundIs DEF Kinds
    <2> QED
      BY <2>1, <2>2, <2>3
  <1>5. \A m \in M : m \in MatchOf(block) /\ m.ops \in SUBSET Ops
    BY <1>1, FoundIs DEF Kinds
  <1>6. ASSUME NEW a \in A
        PROVE  a \in MatchOf(block) /\ Own(a) \cap Taken = {}
    <2>1. PICK m \in M : a = [m EXCEPT !.ops = m.ops \cap OpsOf(A)] /\ a.root = m.root
      BY <1>3
    <2>2. a \in MatchOf(block) /\ a.ops \subseteq m.ops
      <3>1. m.ops \cap OpsOf(A) \in SUBSET Ops
        BY <1>5
      <3> QED
        BY <1>5, <2>1, <3>1, WithOps
    <2>3. Own(m) \cap Taken = {}
      BY DEF M, Free
    <2> QED
      BY <2>1, <2>2, <2>3 DEF Own
  <1>7. IsFiniteSet(A)
    <2>1. RootsOf(A) \in SUBSET (1 .. block.n)
      BY <1>6 DEF RootsOf, MatchOf
    <2>2. IsFiniteSet(RootsOf(A))
      <3>1. 1 \in Int /\ block.n \in Int
        BY DEF BlockFormed, UsesFormed
      <3>2. IsFiniteSet(1 .. block.n)
        BY <3>1, FS_Interval
      <3> QED
        BY <2>1, <3>2, FS_Subset
    <2>3. [r \in RootsOf(A) |-> CHOOSE a \in A : a.root = r] \in Surjection(RootsOf(A), A)
      <3> DEFINE f == [r \in RootsOf(A) |-> CHOOSE a \in A : a.root = r]
      <3>1. \A r \in RootsOf(A) : f[r] \in A /\ f[r].root = r
        BY DEF RootsOf
      <3>2. \A a \in A : a.root \in RootsOf(A) /\ f[a.root] = a
        BY <1>4, <3>1 DEF RootsOf
      <3> QED
        BY <3>1, <3>2 DEF Surjection
    <2> QED
      BY <2>2, <2>3, FS_Surjection
  <1> QED
    BY <1>3, <1>4, <1>6, <1>7 DEF A

\* What reads an op of a match, and so on up to its root, is where its readers
\* must be.
LEMMA ChainUp ==
  ASSUME UsesFormed(block), NEW p, p.root \in Ops, p.ops \subseteq Ops, Linked(p),
         NEW m, \A o \in m.ops : Users(o) \subseteq Own(m), m.root \notin p.ops,
         Own(p) \cap Own(m) # {}
  PROVE  p.root \in Own(m)
  <1> SUFFICES ASSUME p.root \notin Own(m) PROVE FALSE
    OBVIOUS
  <1> DEFINE T == p.ops \cap Own(m)
  <1>1. T # {} /\ T \subseteq 1 .. block.n /\ block.n \in Nat
    BY DEF Own, Ops, UsesFormed
  <1> HIDE DEF T
  <1>2. PICK x \in T : \A y \in T : y <= x
    BY <1>1, GreatestMember
  <1>3. x \in p.ops /\ x \in m.ops /\ x \in Ops
    BY DEF T, Own
  <1>4. PICK u \in Own(p) : x \in block.reads[u]
    BY <1>3 DEF Linked
  <1>5. u \in p.ops
    <2>1. u \in Ops
      BY <1>4 DEF Own
    <2>2. u \in Own(m)
      BY <1>3, <1>4, <2>1, ReadersAreUsers
    <2> QED
      BY <1>4, <2>2 DEF Own
  <1>6. u \in Users(x) /\ u \in Ops
    BY <1>4, <1>5, ReadersAreUsers
  <1>7. u \in T
    BY <1>3, <1>5, <1>6 DEF T
  <1>8. x < u /\ u <= x
    BY <1>2, <1>4, <1>6, <1>7 DEF UsesFormed, Ops
  <1>9. x \in Nat /\ u \in Nat
    BY <1>3, <1>6 DEF Ops
  <1> QED
    BY <1>8, <1>9

\* AnalyzeMoe.
LEMMA MoeFinds ==
  ASSUME BlockFormed(block), QmmInv, declined["qmm"] = {}
  PROVE  /\ \A m \in Moe : DispatchInv(m, plan["qmm"])
         /\ \A c, m \in Moe : c.reads \cap m.ops = {}
  <1> DEFINE fits == {m \in Found("moe") : /\ m.over = m.ops \cap RootsOf(plan["qmm"])
                                           /\ Closed(m.ops, {m.root}) = m.ops
                                           /\ m.reads \cap m.ops = {}}
             M == {Swept(m) : m \in fits}
  <1>1. UsesFormed(block) /\ block.n \in Nat /\ "moe" \in Kinds /\ "sdpa" \in Kinds /\ "qmm" \in Kinds
    BY DEF BlockFormed, UsesFormed, Kinds
  <1>2. ASSUME NEW f \in fits
        PROVE  LET m == Swept(f)
               IN /\ m \in MatchOf(block) /\ m.root = f.root /\ m.reads = f.reads
                  /\ m.bound = {} /\ m.over = f.over /\ f.ops \subseteq m.ops
                  /\ m.ops \subseteq 1 .. m.root - 1
                  /\ m.ops \subseteq AboveIn(block, m.root)
                  /\ \A o \in m.ops \ f.ops : \A r \in m.reads : o \notin AboveIn(block, r)
                  /\ \A o \in m.ops : Users(o) \subseteq Own(m)
    <2>1. f \in Found("moe") /\ f \in MatchOf(block) /\ Tree(block, f) /\ f.bound = {}
      BY <1>1, FoundIs DEF BlockFormed, BoundFormed, Found
    <2>2. PICK S \in SUBSET Ops :
            /\ Swept(f) = [f EXCEPT !.ops = S]
            /\ f.ops \subseteq S /\ S \subseteq 1 .. f.root - 1
            /\ S \subseteq AboveIn(block, f.root)
            /\ \A o \in S \ f.ops : /\ \A r \in f.reads : o \notin AboveIn(block, r)
                                    /\ Users(o) \subseteq S \cup {f.root}
      BY <1>1, <2>1, SweptIs
    <2> DEFINE m == Swept(f)
    <2>3. /\ m \in MatchOf(block) /\ m.root = f.root /\ m.reads = f.reads /\ m.bound = {}
          /\ m.over = f.over /\ m.ops = S
      BY <2>1, <2>2, WithOps
    <2>4. \A o \in f.ops : Users(o) \subseteq f.ops \cup {f.root}
      BY ClosedIs
    <2> HIDE DEF m, fits
    <2>5. \A o \in m.ops : Users(o) \subseteq Own(m)
      BY <2>2, <2>3, <2>4 DEF Own
    <2> QED
      BY <2>2, <2>3, <2>5 DEF m
  <1>3. Moe = Disjoint(M)
    BY DEF Moe
  <1>4. RootsOf(M) \subseteq Ops
    <2>1. \A f \in fits : Swept(f).root \in Ops
      <3> HIDE DEF fits
      <3> QED
        BY <1>2 DEF MatchOf, Ops
    <2> QED
      BY <2>1 DEF RootsOf
  <1> HIDE DEF M
  <1>5. Moe \subseteq M /\ \A m, j \in Moe : m.root # j.root => Own(m) \cap Own(j) = {}
    BY <1>1, <1>3, <1>4, DisjointIs
  <1>6. \A m \in Moe : \E f \in fits : m = Swept(f)
    BY <1>5 DEF M
  <1>7. \A f \in fits : f \in Found("moe") /\ f.over = f.ops \cap RootsOf(plan["qmm"]) /\ f.reads \cap f.ops = {}
    OBVIOUS
  <1> HIDE DEF fits
  <1>8. ASSUME NEW m \in Moe
        PROVE  DispatchInv(m, plan["qmm"])
    <2>1. PICK f \in fits : m = Swept(f)
      BY <1>6
    <2>2. ASSUME NEW c \in Found("sdpa")
          PROVE  c.root \notin Own(m)
      <3>1. /\ c.root \notin {f.root} \cup f.ops
            /\ c.root \in AboveIn(block, f.root) => \E r \in f.reads : c.root \in AboveIn(block, r)
        BY <1>7 DEF BlockFormed, DispatchesFormed, Found
      <3> QED
        BY <1>2, <2>1, <3>1 DEF Own
    <2> QED
      BY <1>2, <1>7, <2>1, <2>2 DEF DispatchInv
  <1>9. ASSUME NEW c \in Moe, NEW m \in Moe, NEW v \in c.reads \cap m.ops
        PROVE  FALSE
    <2>1. PICK f \in fits : c = Swept(f)
      BY <1>6
    <2>2. PICK g \in fits : m = Swept(g)
      BY <1>6
    <2>3. f \in Found("moe") /\ g \in Found("moe")
      BY <1>7
    <2>4. v \in Ops /\ v \in f.reads
      BY <1>1, <1>2, <2>1, <2>3, FoundIs
    <2>5. CASE c.root = m.root
      <3>1. f = g
        BY <1>1, <1>2, <2>1, <2>2, <2>3, <2>5, FoundIs
      <3>2. v \notin f.ops /\ v \in AboveIn(block, v)
        BY <1>1, <1>7, <2>4, AboveCloses
      <3> QED
        BY <1>2, <2>1, <2>2, <2>4, <3>1, <3>2
    <2>6. CASE c.root # m.root
      <3>1. Own(c) \cap Own(m) = {} /\ Users(v) \subseteq Own(m)
        BY <1>2, <1>5, <2>2, <2>6
      <3>2. \/ \E u \in (f.ops \cup {f.root}) \ f.over : v \in block.reads[u]
            \/ \E q \in Found("qmm") : q.root \in f.over /\ v \in q.reads
        BY <2>3, <2>4 DEF BlockFormed, ReadsAreOfTrees, Found
      <3>3. CASE \E u \in (f.ops \cup {f.root}) \ f.over : v \in block.reads[u]
        <4>1. PICK u \in f.ops \cup {f.root} : v \in block.reads[u]
          BY <3>3
        <4>2. u \in Ops /\ u \in Own(c)
          BY <1>1, <1>2, <2>1, <2>3, <4>1, FoundIs DEF Own
        <4> QED
          BY <3>1, <4>1, <4>2, ReadersAreUsers
      <3>4. CASE \E q \in Found("qmm") : q.root \in f.over /\ v \in q.reads
        <4>1. PICK q \in Found("qmm") : q.root \in f.over /\ v \in q.reads
          BY <3>4
        <4>2. PICK p \in plan["qmm"] : p.root = q.root
          BY <1>7, <4>1 DEF RootsOf
        <4>3. StemsFrom("qmm", p) /\ Linked(p)
          BY <4>2 DEF QmmInv, JointInv
        <4>4. p.reads = q.reads /\ p.ops \subseteq q.ops
          BY <1>1, <4>1, <4>2, <4>3, FoundIs DEF StemsFrom
        <4>5. PICK u \in Own(p) : v \in block.reads[u]
          BY <4>1, <4>3, <4>4 DEF StemsFrom, ReadHere
        <4>6. Own(p) \subseteq Ops /\ p.ops \subseteq Ops /\ p.root \in Ops
          BY <1>1, <4>1, <4>2, <4>4, FoundIs DEF Own
        <4>7. u \in Own(p) \cap Own(m)
          BY <3>1, <4>5, <4>6, ReadersAreUsers
        <4>8. g.root \notin OpsOf(Found("qmm"))
          BY <2>3 DEF BlockFormed, DispatchesFormed, Found
        <4>9. m.root = g.root /\ m.root \notin p.ops
          BY <1>2, <2>2, <4>1, <4>4, <4>8 DEF OpsOf
        <4>10. \A o \in m.ops : Users(o) \subseteq Own(m)
          BY <1>2, <2>2
        <4>11. p.root \in Own(m)
          BY <1>1, <4>3, <4>6, <4>7, <4>9, <4>10, ChainUp
        <4>12. p.root \in Own(c)
          BY <1>2, <1>7, <2>1, <4>1, <4>2 DEF Own
        <4> QED
          BY <3>1, <4>11, <4>12
      <3> QED
        BY <3>2, <3>3, <3>4
    <2> QED
      BY <2>5, <2>6
  <1> QED
    BY <1>8, <1>9

\* AnalyzeSdpa.
LEMMA SdpaFinds ==
  ASSUME BlockFormed(block)
  PROVE  /\ Sdpa \subseteq Found("sdpa") /\ ShutInv(Sdpa)
         /\ \A c \in Sdpa : Own(c) \cap Owned(plan, "qmm") = {}
  <1> DEFINE claimed == RootsOf(plan["qmm"]) \cup OpsOf(plan["qmm"])
             cands == {m \in Found("sdpa") : Own(m) \cap claimed = {}}
             M == {m \in cands : m.root \notin OpsOf(cands)}
             A == UNION {L \in SUBSET M : \A m \in L : \A o \in m.ops :
                           Users(o) \subseteq OpsOf(L) \cup RootsOf(L)}
  <1>1. Sdpa = A
    BY DEF Sdpa, Exclusive, Largest
  <1>2. A \subseteq M /\ M \subseteq cands
    OBVIOUS
  <1>3. ASSUME NEW m \in A, NEW o \in m.ops
        PROVE  Users(o) \subseteq RootsOf(A) \cup OpsOf(A)
    <2>1. PICK L \in SUBSET M :
            m \in L /\ \A j \in L : \A x \in j.ops : Users(x) \subseteq OpsOf(L) \cup RootsOf(L)
      OBVIOUS
    <2>2. L \subseteq A
      BY <2>1
    <2> HIDE DEF A
    <2>3. OpsOf(L) \subseteq OpsOf(A) /\ RootsOf(L) \subseteq RootsOf(A)
      BY <2>2 DEF OpsOf, RootsOf
    <2> QED
      BY <1>3, <2>1, <2>3
  <1> HIDE DEF A
  <1> QED
    BY <1>1, <1>2, <1>3 DEF ShutInv, Owned

\* AnalyzeRagged.
LEMMA RaggedFinds ==
  ASSUME BlockFormed(block)
  PROVE  /\ \A m \in Ragged : \E f \in Found("ragged") :
              RaggedStems(m, f) /\ Own(f) \cap Taken = {} /\ m.bound \cap Taken = {}
         /\ ShutInv(Ragged)
         /\ \A c, m \in Ragged : c.reads \cap m.ops \subseteq m.bound
  <1> DEFINE free == {c \in Found("ragged") : Free(c)}
             kept == {IF m.bound \cap Taken = {} THEN m ELSE [m EXCEPT !.bound = {}] : m \in free}
             own == RaggedOwn(kept)
             call(m) == [m EXCEPT !.ops = (m.ops \cap own) \cup m.bound,
                                  !.reads = IF m.whole \subseteq own THEN m.reads ELSE m.plain]
             A == {call(m) : m \in kept}
  <1>1. Ragged = A
    BY DEF Ragged
  <1>2. ASSUME NEW m \in kept
        PROVE  \E f \in free :
                 /\ m \in MatchOf(block) /\ m.root = f.root /\ m.ops = f.ops /\ m.reads = f.reads
                 /\ m.whole = f.whole /\ m.plain = f.plain /\ m.bound \subseteq f.bound
                 /\ m.bound \cap Taken = {}
    <2>1. PICK f \in free : m = IF f.bound \cap Taken = {} THEN f ELSE [f EXCEPT !.bound = {}]
      OBVIOUS
    <2>2. f \in MatchOf(block)
      BY FoundIs DEF Kinds
    <2>3. CASE f.bound \cap Taken = {}
      BY <2>1, <2>2, <2>3
    <2>4. CASE f.bound \cap Taken # {}
      <3>1. m = [f EXCEPT !.bound = {}]
        BY <2>1, <2>4
      <3>2. /\ m \in MatchOf(block) /\ m.root = f.root /\ m.ops = f.ops /\ m.reads = f.reads
            /\ m.whole = f.whole /\ m.plain = f.plain /\ m.bound = {}
        BY <2>2, <3>1 DEF MatchOf
      <3> QED
        BY <3>2
    <2> QED
      BY <2>3, <2>4
  <1>3. \A f \in free : f \in Found("ragged") /\ Own(f) \cap Taken = {}
    BY DEF Free
  <1> HIDE DEF free, kept
  <1>4. /\ own \subseteq (OpsOf(kept) \ block.const) \ ReadsOf(kept)
        /\ \A v \in own : Users(v) \subseteq own \cup RootsOf(kept)
    BY ClosedIs DEF RaggedOwn, Literal
  <1> HIDE DEF own
  <1>5. ASSUME NEW m \in kept
        PROVE  /\ call(m).root = m.root /\ call(m).bound = m.bound
               /\ call(m).ops = (m.ops \cap own) \cup m.bound
               /\ call(m).reads = IF m.whole \subseteq own THEN m.reads ELSE m.plain
    <2>1. m \in MatchOf(block)
      BY <1>2
    <2> QED
      BY <2>1 DEF MatchOf
  <1> HIDE DEF call
  <1>6. \A m \in A : \E k \in kept :
          /\ m.root = k.root /\ m.bound = k.bound /\ m.ops = (k.ops \cap own) \cup k.bound
          /\ m.reads = IF k.whole \subseteq own THEN k.reads ELSE k.plain
    BY <1>5
  <1>7. ASSUME NEW m \in A
        PROVE  \E f \in Found("ragged") :
                 RaggedStems(m, f) /\ Own(f) \cap Taken = {} /\ m.bound \cap Taken = {}
    BY <1>2, <1>3, <1>6 DEF RaggedStems
  <1>8. own \subseteq OpsOf(A) /\ RootsOf(kept) \subseteq RootsOf(A)
    <2>1. ASSUME NEW v \in own PROVE v \in OpsOf(A)
      <3>1. PICK k \in kept : v \in k.ops
        BY <1>4 DEF OpsOf
      <3>2. v \in call(k).ops /\ call(k) \in A
        BY <1>5, <3>1
      <3> QED
        BY <3>2 DEF OpsOf
    <2>2. ASSUME NEW k \in kept PROVE k.root \in RootsOf(A)
      <3>1. k.root = call(k).root /\ call(k) \in A
        BY <1>5
      <3> QED
        BY <3>1 DEF RootsOf
    <2> QED
      BY <2>1, <2>2 DEF RootsOf
  <1> HIDE DEF A
  <1>9. ShutInv(A)
    <2> SUFFICES ASSUME NEW m \in A, NEW v \in m.ops \ m.bound
                 PROVE  Users(v) \subseteq RootsOf(A) \cup OpsOf(A)
      BY DEF ShutInv
    <2>1. v \in own
      BY <1>6
    <2> QED
      BY <1>4, <1>8, <2>1
  <1>10. ASSUME NEW c \in A, NEW m \in A, NEW v \in c.reads \cap m.ops, v \notin m.bound
         PROVE  FALSE
    <2>1. v \in own
      BY <1>6, <1>10
    <2>2. PICK k \in kept : c.reads = IF k.whole \subseteq own THEN k.reads ELSE k.plain
      BY <1>6
    <2>3. v \notin k.reads
      BY <1>4, <2>1 DEF ReadsOf
    <2>4. ~ (k.whole \subseteq own) /\ v \in k.plain
      BY <1>10, <2>2, <2>3
    <2>5. PICK f \in Found("ragged") : k.whole = f.whole /\ k.plain = f.plain /\ k.reads = f.reads
      BY <1>2, <1>3
    <2>6. f.plain \subseteq f.reads \cup f.whole /\ \A w, x \in f.whole : w = x
      BY <2>5 DEF BlockFormed, RaggedFormed, Found
    <2> QED
      BY <2>1, <2>3, <2>4, <2>5, <2>6
  <1> QED
    BY <1>1, <1>7, <1>9, <1>10

\* AnalyzeMla and AnalyzeGdn.
LEMMA ChainsFind ==
  ASSUME BlockFormed(block), NEW k \in {"mla", "gdn"}, NEW M, M \subseteq Found(k)
  PROVE  LET K == ChainsKept(M)
             A == WithoutLiteral(Complete(K))
         IN /\ JointInv(k, A, A \cup (K \ Complete(K)))
            /\ \A a \in A : \E m \in M : /\ a.root = m.root /\ a.bound = m.bound
                                         /\ a.ops = m.ops \ block.const
            /\ \A a, c \in A : a.root \notin c.ops
  <1> DEFINE K == ChainsKept(M)
             C == Complete(K)
             own == ChainsOwn(K)
             bound == UNION {m.bound : m \in K}
             strip(m) == [m EXCEPT !.ops = m.ops \ block.const]
             A == WithoutLiteral(C)
             wants == [m \in M |-> Own(m) \cup m.bound]
             holds == [m \in M |-> {m.root} \cup m.bound]
  <1>1. UsesFormed(block) /\ k \in Kinds /\ block.n \in Nat
    BY DEF BlockFormed, UsesFormed, Kinds
  <1>2. K \subseteq M /\ \A m, j \in K : j.root < m.root => wants[m] \cap holds[j] = {}
    <2>1. RootsOf(M) \subseteq Ops
      BY <1>1, FoundIs DEF RootsOf
    <2>2. K = Served(M, wants, holds)
      BY DEF ChainsKept
    <2> HIDE DEF K, wants, holds
    <2> QED
      BY <1>1, <2>1, <2>2, ServedIs
  <1>3. \A m, j \in K : j.root < m.root => j.root \notin m.ops
    BY <1>2 DEF Own
  <1> HIDE DEF K, wants, holds
  <1>4. ASSUME NEW m \in K
        PROVE  /\ m \in Found(k) /\ m.bound \subseteq m.ops \ block.const
               /\ strip(m).root = m.root /\ strip(m).ops = m.ops \ block.const
               /\ strip(m).reads = m.reads /\ strip(m).bound = m.bound
    <2>1. m \in Found(k) /\ m \in MatchOf(block) /\ m.ops \ block.const \in SUBSET Ops
      BY <1>1, <1>2, FoundIs
    <2>2. m.bound \subseteq m.ops \ block.const
      BY <1>1, <2>1 DEF BlockFormed, BoundFormed, Found
    <2> QED
      BY <2>1, <2>2, WithOps
  <1> HIDE DEF strip
  <1>5. C \subseteq K /\ \A m \in C : (m.ops \ block.const) \ m.bound \subseteq own
    BY DEF Complete, Literal
  <1>6. /\ own \subseteq (OpsOf(K) \ block.const) \ bound
        /\ \A v \in own : Users(v) \subseteq own \cup (RootsOf(K) \cup bound)
    <2>1. own = Closed((OpsOf(K) \ block.const) \ bound, RootsOf(K) \cup bound)
      BY DEF ChainsOwn, Literal
    <2> DEFINE S == (OpsOf(K) \ block.const) \ bound
               R == RootsOf(K) \cup bound
    <2>2. own = Closed(S, R)
      BY <2>1
    <2> HIDE DEF own, S, R
    <2>3. own \subseteq S /\ \A v \in own : Users(v) \subseteq own \cup R
      BY <2>2, ClosedIs
    <2> QED
      BY <2>3 DEF S, R
  <1>7. A = {strip(m) : m \in C}
    BY DEF WithoutLiteral, strip, Literal
  <1> HIDE DEF C, own, A
  <1>8. \A a \in A : \E m \in C : /\ a.root = m.root /\ a.ops = m.ops \ block.const
                                  /\ a.reads = m.reads /\ a.bound = m.bound
    BY <1>4, <1>5, <1>7
  <1>9. ASSUME NEW a \in A
        PROVE  StemsFrom(k, a)
    <2>1. PICK m \in C : /\ a.root = m.root /\ a.ops = m.ops \ block.const
                         /\ a.reads = m.reads /\ a.bound = m.bound
      BY <1>8
    <2>2. m \in K /\ m \in Found(k) /\ m.bound \subseteq m.ops \ block.const
      BY <1>4, <1>5
    <2>3. ASSUME NEW v \in a.reads
          PROVE  v \in 1 .. a.root - 1 /\ \E u \in Own(a) : v \in block.reads[u]
      <3>1. PICK u \in (m.ops \ block.const) \cup {m.root} : v \in block.reads[u]
        BY <1>1, <2>1, <2>2 DEF BlockFormed, ReadsAreOfTrees, Core, Found
      <3>2. m.reads \subseteq 1 .. m.root - 1
        BY <1>1, <2>2, FoundIs
      <3> QED
        BY <2>1, <3>1, <3>2 DEF Own
    <2> QED
      BY <2>1, <2>2, <2>3 DEF StemsFrom, ReadHere
  <1>10. ASSUME NEW a \in A, NEW v \in a.ops \ a.bound, NEW u \in Users(v)
         PROVE  \E d \in A \cup (K \ C) : u \in Own(d) /\ v \in d.ops
    <2>1. PICK m \in C : a.ops = m.ops \ block.const /\ a.bound = m.bound
      BY <1>8
    <2>2. m \in K /\ m \in Found(k) /\ v \in own /\ v \notin block.const
      BY <1>4, <1>5, <2>1
    <2>3. PICK j \in K : u \in (j.ops \ block.const) \cup {j.root} \cup j.bound
      BY <1>6, <2>2 DEF OpsOf, RootsOf
    <2>4. j \in Found(k) /\ u \in (j.ops \ block.const) \cup {j.root} /\ u \in Own(j)
      BY <1>4, <2>3 DEF Own
    <2>5. u \in Ops /\ u # TheReturn
      BY <1>1, <2>4, FoundIs DEF Ops, TheReturn
    <2>6. v \in block.reads[u]
      BY <1>1, <2>5, UsersAreLater
    <2>7. v \in j.ops \cup j.reads
      BY <2>4, <2>6 DEF BlockFormed, TreesAreWhole, Found
    <2>8. v \in j.reads => v \in m.bound
      BY <2>1, <2>2, <2>4 DEF BlockFormed, TreesAreApart, Found
    <2>9. v \in j.ops
      BY <2>1, <2>7, <2>8
    <2>10. CASE j \in C
      <3>1. strip(j) \in A /\ strip(j).root = j.root /\ strip(j).ops = j.ops \ block.const
        BY <1>4, <1>7, <2>10
      <3> QED
        BY <2>2, <2>4, <2>9, <3>1 DEF Own
    <2>11. CASE j \notin C
      BY <2>3, <2>4, <2>9, <2>11
    <2> QED
      BY <2>10, <2>11
  <1>11. ASSUME NEW a \in A, NEW c \in A
         PROVE  a.root \notin c.ops
    <2>1. PICK m \in K : m \in Found(k) /\ a.root = m.root
      BY <1>4, <1>5, <1>8
    <2>2. PICK j \in K : j \in Found(k) /\ c.root = j.root /\ c.ops \subseteq j.ops
      BY <1>4, <1>5, <1>8
    <2>3. m.root \in Nat /\ j.root \in Nat /\ j.ops \subseteq 1 .. j.root - 1
      BY <1>1, <2>1, <2>2, FoundIs
    <2>4. m.root < j.root \/ m.root >= j.root
      BY <2>3
    <2> QED
      BY <1>3, <2>1, <2>2, <2>3, <2>4
  <1>12. \A a \in A : \E m \in M : /\ a.root = m.root /\ a.bound = m.bound
                                   /\ a.ops = m.ops \ block.const
    BY <1>2, <1>5, <1>8
  <1> QED
    BY <1>9, <1>10, <1>11, <1>12 DEF JointInv, A, C, K

\* AnalyzeNorm.
LEMMA NormFinds ==
  ASSUME BlockFormed(block), NEW M, M \subseteq Found("norm")
  PROVE  /\ \A a \in Norms(M) : StemsFrom("norm", a)
         /\ AloneInv(Norms(M))
         /\ \A a \in Norms(M) : \E m \in M : a.root = m.root /\ a.ops = m.ops \ block.const
  <1> DEFINE strip(m) == [m EXCEPT !.ops = m.ops \ block.const]
  <1>1. UsesFormed(block) /\ "norm" \in Kinds /\ block.n \in Nat
    BY DEF BlockFormed, UsesFormed, Kinds
  <1>2. PICK K \in SUBSET M :
          /\ \A m, j \in K : m # j => NormOwn(m) \cap NormOwn(j) = {}
          /\ Norms(M) = WithoutLiteral({m \in K : m.ops \ Literal \subseteq
                                          Closed(OpsOf(K) \ Literal, RootsOf(K))})
    <2>1. IsFiniteSet(M)
      <3>1. IsFiniteSet(Found("norm"))
        BY <1>1 DEF BlockFormed, MatchesFormed, Found
      <3> QED
        BY <3>1, FS_Subset
    <2>2. M \subseteq MatchOf(block) /\ \A m, j \in M : m.root = j.root => m = j
      BY <1>1, FoundIs
    <2> QED
      BY <1>1, <2>1, <2>2, NormsIs
  <1> DEFINE own == Closed(OpsOf(K) \ Literal, RootsOf(K))
             C == {m \in K : m.ops \ Literal \subseteq own}
  <1>3. /\ own \subseteq OpsOf(K) \ block.const
        /\ \A v \in own : Users(v) \subseteq own \cup RootsOf(K)
    BY ClosedIs DEF Literal
  <1> HIDE DEF own
  <1>4. C \subseteq K /\ \A m \in C : m.ops \ block.const \subseteq own
    BY DEF Literal
  <1>5. ASSUME NEW m \in K
        PROVE  /\ m \in Found("norm") /\ m.bound = {}
               /\ strip(m).root = m.root /\ strip(m).ops = m.ops \ block.const
               /\ strip(m).reads = m.reads /\ strip(m).bound = m.bound
    <2>1. m \in Found("norm") /\ m \in MatchOf(block) /\ m.ops \ block.const \in SUBSET Ops
      BY <1>1, FoundIs
    <2>2. m.bound = {}
      BY <1>1, <2>1 DEF BlockFormed, BoundFormed, Found
    <2> QED
      BY <2>1, <2>2, WithOps
  <1>6. Norms(M) = {strip(m) : m \in C}
    BY <1>2 DEF WithoutLiteral, Literal, own
  <1> HIDE DEF strip, C
  <1>7. \A a \in Norms(M) : \E m \in C : /\ a.root = m.root /\ a.ops = m.ops \ block.const
                                         /\ a.reads = m.reads /\ a.bound = m.bound
    BY <1>4, <1>5, <1>6
  <1>8. ASSUME NEW a \in Norms(M)
        PROVE  StemsFrom("norm", a)
    <2>1. PICK m \in C : /\ a.root = m.root /\ a.ops = m.ops \ block.const
                         /\ a.reads = m.reads /\ a.bound = m.bound
      BY <1>7
    <2>2. m \in Found("norm") /\ m.bound = {}
      BY <1>4, <1>5
    <2>3. ASSUME NEW v \in a.reads
          PROVE  v \in 1 .. a.root - 1 /\ \E u \in Own(a) : v \in block.reads[u]
      <3>1. PICK u \in (m.ops \ block.const) \cup {m.root} : v \in block.reads[u]
        BY <1>1, <2>1, <2>2 DEF BlockFormed, ReadsAreOfTrees, Core, Found
      <3>2. m.reads \subseteq 1 .. m.root - 1
        BY <1>1, <2>2, FoundIs
      <3> QED
        BY <2>1, <3>1, <3>2 DEF Own
    <2> QED
      BY <2>1, <2>2, <2>3 DEF StemsFrom, ReadHere
  <1>9. ASSUME NEW a \in Norms(M), NEW v \in a.ops \ a.bound, NEW u \in Users(v)
        PROVE  u \in Own(a)
    <2>1. PICK m \in C : a.root = m.root /\ a.ops = m.ops \ block.const
      BY <1>7
    <2>2. m \in K /\ m \in Found("norm") /\ m.bound = {} /\ v \in own /\ v \notin block.const
      BY <1>4, <1>5, <2>1
    <2>3. PICK j \in K : u \in (j.ops \ block.const) \cup {j.root}
      BY <1>3, <2>2 DEF OpsOf, RootsOf
    <2>4. j \in Found("norm") /\ u \in Own(j) /\ u \in Ops /\ u # TheReturn
      BY <1>1, <1>5, <2>3, FoundIs DEF Own, Ops, TheReturn
    <2>5. v \in block.reads[u]
      BY <1>1, <2>4, UsersAreLater
    <2>6. v \in j.ops \cup j.reads
      BY <2>4, <2>5 DEF BlockFormed, TreesAreWhole, Found, Own
    <2>7. v \notin j.reads
      BY <2>1, <2>2, <2>4 DEF BlockFormed, TreesAreApart, Found
    <2>8. v \in NormOwn(j) /\ v \in NormOwn(m)
      BY <2>1, <2>2, <2>6, <2>7 DEF NormOwn, Literal
    <2>9. j = m
      BY <1>2, <2>2, <2>8
    <2> QED
      BY <2>1, <2>3, <2>9 DEF Own
  <1>10. \A a \in Norms(M) : \E m \in M : a.root = m.root /\ a.ops = m.ops \ block.const
    BY <1>4, <1>7
  <1> QED
    BY <1>8, <1>9, <1>10 DEF AloneInv

\* AnalyzeRope.
LEMMA RopeFinds ==
  ASSUME BlockFormed(block)
  PROVE  /\ Rope \subseteq Found("rope") /\ AloneInv(Rope)
         /\ \A c, m \in Rope : c # m => Own(c) \cap Own(m) = {}
         /\ \A m \in Rope : Own(m) \cap Taken = {}
  <1> DEFINE unbound == OpsOf(Matches) \ UNION {m.bound : m \in plan["proj"]}
             fits == {m \in Found("rope") : Closed(m.ops, {m.root}) = m.ops}
             M == {m \in fits : Free(m) /\ m.reads \cap unbound = {}}
  <1>1. Rope = Disjoint(M)
    BY DEF Rope
  <1>2. M \subseteq Found("rope") /\ \A m \in M : Own(m) \cap Taken = {}
    BY DEF Free
  <1>3. \A m \in M : \A v \in m.ops : Users(v) \subseteq Own(m)
    <2> SUFFICES ASSUME NEW m \in M, NEW v \in m.ops
                 PROVE  Users(v) \subseteq Own(m)
      OBVIOUS
    <2>1. Closed(m.ops, {m.root}) = m.ops
      OBVIOUS
    <2>2. Users(v) \subseteq m.ops \cup {m.root}
      BY <2>1, ClosedIs
    <2> QED
      BY <2>2 DEF Own
  <1> HIDE DEF M
  <1>4. RootsOf(M) \subseteq Ops /\ "rope" \in Kinds /\ block.n \in Nat
    BY <1>2, FoundIs DEF RootsOf, Kinds, BlockFormed, UsesFormed
  <1>5. Rope \subseteq M /\ \A m, j \in Rope : m.root # j.root => Own(m) \cap Own(j) = {}
    BY <1>1, <1>4, DisjointIs
  <1>6. \A m, j \in Rope : m.root = j.root => m = j
    BY <1>2, <1>4, <1>5, FoundIs
  <1> QED
    BY <1>2, <1>3, <1>5, <1>6 DEF AloneInv

\* GroupStackedPacks and AnalyzeProjPack.
LEMMA PacksFind ==
  ASSUME block.n \in Nat, NEW M, IsFiniteSet(M), M \subseteq MatchOf(block), NEW C \in Groups(M),
         NEW W \in SUBSET C
  PROVE  LET P == {Packed(G) : G \in W}
         IN /\ PacksInv(P) /\ \A p \in P : p.members \in C
            /\ \A p \in P : p.members \subseteq M
            /\ \A G \in W : Packed(G) \in P /\ Packed(G).members = G
            /\ RootsOf(P) \cup OpsOf(P) \subseteq RootsOf(M) \cup OpsOf(M)
  <1> DEFINE P == {Packed(G) : G \in W}
  <1>1. /\ \A G \in C : G \subseteq M /\ G # {}
        /\ \A G, H \in C : G \cap H # {} => G = H
    BY GroupsIs
  <1>2. ASSUME NEW G \in W
        PROVE  Packed(G).members = G /\ PackShape(Packed(G))
    <2>1. G # {} /\ G \subseteq MatchOf(block)
      BY <1>1
    <2> QED
      BY <2>1, PackedIs DEF PackShape
  <1>3. \A p \in P : \E G \in W : p = Packed(G) /\ p.members = G /\ PackShape(p)
    BY <1>2
  <1>4. \A G \in W : Packed(G) \in P
    OBVIOUS
  <1> HIDE DEF P
  <1>5. \A p \in P : p.members \in C /\ p.members \subseteq M
    BY <1>1, <1>3
  <1>6. PacksInv(P)
    BY <1>1, <1>3 DEF PacksInv
  <1>7. \A p \in P : p.root \in RootsOf(M) /\ p.ops \subseteq RootsOf(M) \cup OpsOf(M)
    <2> SUFFICES ASSUME NEW p \in P
                 PROVE  p.root \in RootsOf(M) /\ p.ops \subseteq RootsOf(M) \cup OpsOf(M)
      OBVIOUS
    <2>1. p.members \subseteq M /\ PackShape(p)
      BY <1>3, <1>5
    <2>2. PICK first \in p.members :
            /\ p.root = first.root
            /\ p.bound = RootsOf(p.members) \ {first.root} /\ p.ops = OpsOf(p.members) \cup p.bound
      BY <2>1 DEF PackShape
    <2>3. RootsOf(p.members) \subseteq RootsOf(M) /\ OpsOf(p.members) \subseteq OpsOf(M)
      BY <2>1 DEF RootsOf, OpsOf
    <2> QED
      BY <2>1, <2>2, <2>3 DEF RootsOf
  <1>8. RootsOf(P) \cup OpsOf(P) \subseteq RootsOf(M) \cup OpsOf(M)
    <2>1. \A x \in RootsOf(P) : x \in RootsOf(M)
      BY <1>7 DEF RootsOf
    <2>2. \A x \in OpsOf(P) : x \in RootsOf(M) \cup OpsOf(M)
      BY <1>7 DEF OpsOf
    <2> QED
      BY <2>1, <2>2
  <1> QED
    BY <1>2, <1>4, <1>5, <1>6, <1>8 DEF P

---------------------------------------------------------------------------
(* What the invariant says of a plan that is done.                         *)

\* What the recognizers own that claim one kind of op.
FamOwn(k) == UNION {Owned(plan, j) : j \in Family(k)}

\* The block of a plan is well formed.
LEMMA PlanIsFormed ==
  ASSUME PlanInv
  PROVE  BlockFormed(block) /\ UsesFormed(block) /\ block.n \in Nat
  BY RewritePlanAssumption DEF PlanInv, BlockFormed, UsesFormed

\* A match as it was found, with fewer ops.
LEMMA FoundReadsHere ==
  ASSUME BlockFormed(block), NEW k \in Kinds \ {"moe", "qmm", "stacked"}, NEW f \in Found(k)
  PROVE  ReadHere(f)
  <1> SUFFICES ASSUME NEW v \in f.reads
               PROVE  v \in 1 .. f.root - 1 /\ \E u \in Own(f) : v \in block.reads[u]
    BY DEF ReadHere
  <1>1. PICK u \in (f.ops \ block.const) \cup {f.root} : v \in block.reads[u]
    BY DEF BlockFormed, ReadsAreOfTrees, Core, Found
  <1> QED
    BY <1>1, FoundIs DEF Own

\* A stacked dot, packed or not, stems from one that was found.
LEMMA DotsStem ==
  ASSUME PlanInv, NEW m \in Dots
  PROVE  StemsFrom("stacked", m) /\ m.bound = {} /\ Own(m) \subseteq Ops
  <1>1. StemsFrom("stacked", m)
    BY DEF PlanInv, DotsInv, JointInv
  <1>2. PICK f \in Found("stacked") : m.root = f.root /\ m.bound = f.bound /\ m.ops \subseteq f.ops
    BY <1>1 DEF StemsFrom
  <1>3. f.bound = {}
    BY <1>2, PlanIsFormed DEF BlockFormed, BoundFormed, Found, Kinds
  <1>4. Own(f) \subseteq Ops
    BY <1>2, PlanIsFormed, FoundIs DEF Kinds
  <1> QED
    BY <1>1, <1>2, <1>3, <1>4 DEF StemsFrom, Own

\* The recognizers whose matches bind nothing after their root, and take over
\* and join nothing.
Simple == {"qmm", "sdpa", "stacked", "mla", "gdn", "norm", "rope"}
\* A match of these is one that was found, with fewer ops.
LEMMA SimpleStem ==
  ASSUME PlanInv, NEW k \in Simple, NEW m \in plan[k]
  PROVE  StemsFrom(k, m) /\ Own(m) \subseteq Ops /\ (k # "gdn" => m.bound = {})
  <1>1. BlockFormed(block) /\ k \in Kinds
    BY PlanIsFormed DEF Simple, Kinds
  <1>2. StemsFrom(k, m)
    <2>1. CASE k \in {"qmm", "mla", "gdn", "norm"}
      <3>1. StemsFrom(k, m)
        BY <2>1 DEF PlanInv, QmmInv, MlaInv, GdnInv, NormInv, JointInv
      <3> QED
        BY <3>1 DEF StemsFrom
    <2>2. CASE k = "stacked"
      BY <2>2, DotsStem DEF Dots
    <2>3. CASE k \in {"sdpa", "rope"}
      <3>1. m \in Found(k)
        BY <2>3 DEF PlanInv, SdpaInv, RopeInv
      <3>2. ReadHere(m)
        BY <1>1, <2>3, <3>1, FoundReadsHere DEF Kinds
      <3>3. m.bound = {}
        BY <1>1, <2>3, <3>1 DEF BlockFormed, BoundFormed, Found
      <3> QED
        BY <3>1, <3>2, <3>3 DEF StemsFrom
    <2> QED
      BY <2>1, <2>2, <2>3 DEF Simple
  <1>3. PICK f \in Found(k) : m.root = f.root /\ m.bound = f.bound /\ m.ops \subseteq f.ops
    BY <1>2 DEF StemsFrom
  <1>4. Own(f) \subseteq Ops
    BY <1>1, <1>3, FoundIs
  <1>5. k # "gdn" => f.bound = {}
    BY <1>1, <1>3 DEF BlockFormed, BoundFormed, Found, Simple
  <1> QED
    BY <1>2, <1>3, <1>4, <1>5 DEF Own

\* The dots of a pack, and of a joint projection.
LEMMA PackIs ==
  ASSUME PlanInv, NEW p \in plan["pack"]
  PROVE  /\ \A g \in p.members : g \in Dots /\ Own(g) \subseteq Own(p)
         /\ p.ops = OpsOf(p.members) \cup p.bound /\ p.bound \subseteq RootsOf(p.members)
         /\ \A v \in p.bound : p.root < v
         /\ \E first \in p.members : p.root = first.root /\ p.reads = first.reads
         /\ p.root \notin p.bound
  <1>1. PICK first \in p.members :
          /\ p.root = first.root /\ p.reads = first.reads
          /\ p.bound = RootsOf(p.members) \ {first.root} /\ p.ops = OpsOf(p.members) \cup p.bound
          /\ \A v \in p.bound : first.root < v
    BY DEF PlanInv, DotsInv, PacksInv, PackShape
  <1>2. ASSUME NEW g \in p.members
        PROVE  g \in Dots /\ Own(g) \subseteq Own(p)
    <2>1. g.root \in RootsOf(p.members) /\ g.ops \subseteq OpsOf(p.members)
      BY DEF RootsOf, OpsOf
    <2> QED
      BY <1>1, <2>1 DEF Dots, Own
  <1> QED
    BY <1>1, <1>2

\* A joint projection absorbs the roots of the others and binds them all.
LEMMA ProjIs ==
  ASSUME PlanInv, NEW p \in plan["proj"]
  PROVE  /\ p.members \subseteq Found("proj") /\ p.ops = p.bound
         /\ p.bound \subseteq RootsOf(p.members) /\ \A v \in p.bound : p.root < v
         /\ \E first \in p.members : p.root = first.root /\ p.reads = first.reads
         /\ p.root \notin p.bound
  <1>1. p.members \subseteq Found("proj")
    BY DEF PlanInv, ProjInv
  <1>2. PICK first \in p.members :
          /\ p.root = first.root /\ p.reads = first.reads
          /\ p.bound = RootsOf(p.members) \ {first.root} /\ p.ops = OpsOf(p.members) \cup p.bound
          /\ \A v \in p.bound : first.root < v
    BY DEF PlanInv, ProjInv, PacksInv, PackShape
  <1>3. OpsOf(p.members) = {}
    BY <1>1, PlanIsFormed DEF BlockFormed, DotsFormed, OpsOf, Found
  <1> QED
    BY <1>1, <1>2, <1>3

\* What an op that is absorbed is read by, is absorbed by the recognizer, or
\* runs one of its calls.
LEMMA Inside ==
  ASSUME PlanInv, Unshared, NEW k \in Kinds, NEW m \in plan[k], NEW v \in m.ops \ m.bound
  PROVE  Users(v) \subseteq FamOwn(k)
  <1>1. CASE k \in {"qmm", "mla", "gdn"}
    <2> SUFFICES ASSUME NEW u \in Users(v)
                 PROVE  u \in Owned(plan, k)
      BY <1>1 DEF FamOwn, Family
    <2>1. PICK d \in plan[k] \cup declined[k] : u \in Own(d) /\ v \in d.ops
      BY <1>1 DEF PlanInv, QmmInv, MlaInv, GdnInv, JointInv
    <2>2. v \in OpsOf(plan[k])
      BY DEF OpsOf
    <2>3. OpsOf(declined[k]) \cap OpsOf(plan[k]) = {}
      BY <1>1 DEF Unshared, Family
    <2>4. d \in plan[k]
      BY <2>1, <2>2, <2>3 DEF OpsOf
    <2> QED
      BY <2>1, <2>4 DEF Owned, RootsOf, OpsOf, Own
  <1>2. CASE k \in {"stacked", "pack"}
    <2> SUFFICES ASSUME NEW u \in Users(v)
                 PROVE  u \in Owned(plan, "stacked") \cup Owned(plan, "pack")
      BY <1>2 DEF FamOwn, Family
    <2>1. \E g \in Dots : v \in g.ops
      <3>1. CASE k = "stacked"
        BY <3>1 DEF Dots
      <3>2. CASE k = "pack"
        BY <3>2, PackIs DEF OpsOf
      <3> QED
        BY <1>2, <3>1, <3>2
    <2>2. PICK d \in Dots \cup declined["stacked"] : u \in Own(d) /\ v \in d.ops
      <3>1. PICK g \in Dots : v \in g.ops
        BY <2>1
      <3>2. g.bound = {}
        BY DotsStem
      <3> QED
        BY <3>1, <3>2 DEF PlanInv, DotsInv, JointInv
    <2>3. v \in OpsOf(plan[k])
      BY DEF OpsOf
    <2>4. OpsOf(declined["stacked"]) \cap UNION {OpsOf(plan[j]) : j \in {"stacked", "pack"}} = {}
      BY DEF Unshared, Family, Kinds
    <2>5. d \notin declined["stacked"]
      BY <1>2, <2>2, <2>3, <2>4 DEF OpsOf
    <2>6. CASE d \in plan["stacked"]
      BY <2>2, <2>6 DEF Owned, RootsOf, OpsOf, Own
    <2>7. CASE d \notin plan["stacked"]
      <3>1. PICK p \in plan["pack"] : d \in p.members
        BY <2>2, <2>5, <2>7 DEF Dots
      <3>2. u \in Own(p)
        BY <2>2, <3>1, PackIs
      <3> QED
        BY <3>2 DEF Owned, RootsOf, OpsOf, Own
    <2> QED
      BY <2>6, <2>7
  <1>3. CASE k \in {"sdpa", "ragged"}
    BY <1>3 DEF PlanInv, SdpaInv, RaggedInv, ShutInv, FamOwn, Family, Owned
  <1>4. CASE k \in {"moe", "norm", "rope"}
    <2>1. Users(v) \subseteq Own(m)
      BY <1>4 DEF PlanInv, MoeInv, DispatchInv, NormInv, RopeInv, AloneInv
    <2> QED
      BY <1>4, <2>1 DEF FamOwn, Family, Owned, RootsOf, OpsOf, Own
  <1>5. CASE k = "proj"
    BY <1>5, ProjIs
  <1> QED
    BY <1>1, <1>2, <1>3, <1>4, <1>5 DEF Kinds


\* What two recognizers own, two kinds of stacked dots own, or an expert
\* dispatch and the quantized matmuls in it.
LEMMA OneFamily ==
  ASSUME PlanInv, NEW j \in Kinds, NEW k \in Kinds, NEW v \in FamOwn(j), v \in FamOwn(k)
  PROVE  Family(j) = Family(k) \/ {j, k} = {"qmm", "moe"}
  <1>1. PICK a \in Family(j) : v \in Owned(plan, a)
    BY DEF FamOwn
  <1>2. PICK b \in Family(k) : v \in Owned(plan, b)
    BY DEF FamOwn
  <1>3. /\ a \in Kinds /\ Family(a) = Family(j) /\ (a # j => Family(j) = {"stacked", "pack"})
        /\ b \in Kinds /\ Family(b) = Family(k) /\ (b # k => Family(k) = {"stacked", "pack"})
    BY DEF Family, Kinds
  <1>4. a = b \/ {a, b} \in {{"qmm", "moe"}, {"stacked", "pack"}}
    BY <1>1, <1>2, <1>3 DEF PlanInv, OneOwner
  <1>5. CASE a = b
    BY <1>5, <1>3
  <1>6. CASE a # b
    BY <1>6, <1>4, <1>3 DEF Family
  <1> QED
    BY <1>5, <1>6

\* The root and the ops of a match are owned.
LEMMA OwnIsOfFamily ==
  ASSUME NEW k \in Kinds, NEW m \in plan[k]
  PROVE  Own(m) \subseteq FamOwn(k) /\ m.root \in FamOwn(k) /\ m.ops \subseteq FamOwn(k)
  <1>1. k \in Family(k)
    BY DEF Family, Kinds
  <1> QED
    BY <1>1 DEF FamOwn, Owned, RootsOf, OpsOf, Own

\* A dot of a pack was found, and is in no other.
LEMMA MembersAreApart ==
  ASSUME PlanInv, NEW k \in {"pack", "proj"}, NEW p \in plan[k], NEW r \in plan[k],
         NEW v \in RootsOf(p.members), v \in RootsOf(r.members)
  PROVE  p = r
  <1>1. PICK m \in p.members, j \in r.members : m.root = v /\ j.root = v
    BY DEF RootsOf
  <1>2. m = j
    <2>1. CASE k = "pack"
      <3>1. m \in Dots /\ j \in Dots
        BY <2>1, PackIs
      <3> QED
        BY <1>1, <3>1 DEF PlanInv, DotsInv
    <2>2. CASE k = "proj"
      <3>1. m \in Found("proj") /\ j \in Found("proj")
        BY <2>2, ProjIs
      <3> QED
        BY <1>1, <3>1, PlanIsFormed, FoundIs DEF Kinds
    <2> QED
      BY <2>1, <2>2
  <1> QED
    BY <1>1, <1>2 DEF PlanInv, DotsInv, ProjInv, PacksInv

\* A ragged dot: its rows come after its root, and its root is no op of another.
LEMMA RaggedIs ==
  ASSUME PlanInv, NEW m \in plan["ragged"]
  PROVE  /\ \E f \in Found("ragged") : RaggedStems(m, f)
         /\ m.root \in Ops /\ m.ops \subseteq Ops /\ m.bound \subseteq m.ops
         /\ \A v \in m.bound : m.root < v
         /\ m.reads \subseteq 1 .. m.root - 1
         /\ m.root \in RootsOf(Found("ragged"))
         /\ m.root \notin OpsOf(plan["ragged"])
         /\ m.bound \cap OpsOf(Found("ragged")) = {}
  <1>0. BlockFormed(block) /\ block.n \in Nat /\ "ragged" \in Kinds
    BY PlanIsFormed DEF Kinds
  <1>1. PICK f \in Found("ragged") : RaggedStems(m, f)
    BY DEF PlanInv, RaggedInv
  <1>2. /\ f.bound \subseteq f.root + 1 .. block.n
        /\ f.bound \cap (RootsOf(Found("ragged")) \cup OpsOf(Found("ragged"))) = {}
    BY <1>0 DEF BlockFormed, BoundFormed, Found
  <1>3. f.plain \subseteq f.reads \cup f.whole
    BY <1>0 DEF BlockFormed, RaggedFormed, Found
  <1>4. /\ f.root \in Ops /\ f.ops \subseteq Ops /\ f.bound \subseteq Ops
        /\ f.ops \subseteq 1 .. f.root - 1 /\ f.reads \subseteq 1 .. f.root - 1
        /\ f.whole \subseteq f.ops
    BY <1>0, FoundIs DEF Tree
  <1>5. \A v \in f.bound : f.root < v
    BY <1>0, <1>2, <1>4 DEF Ops
  <1>6. m.root \in RootsOf(Found("ragged"))
    BY <1>1 DEF RaggedStems, RootsOf
  <1>7. m.root \notin OpsOf(plan["ragged"])
    <2> SUFFICES ASSUME NEW c \in plan["ragged"], m.root \in c.ops
                 PROVE  FALSE
      BY DEF OpsOf
    <2>1. PICK g \in Found("ragged") : RaggedStems(c, g)
      BY DEF PlanInv, RaggedInv
    <2>2. m.root \in g.ops \/ m.root \in g.bound
      BY <2>1 DEF RaggedStems
    <2>3. RootsOf(Found("ragged")) \cap OpsOf(Found("ragged")) = {}
      BY <1>0 DEF BlockFormed, DotsFormed, Found
    <2>4. m.root \notin g.ops
      BY <2>3, <1>6 DEF OpsOf
    <2>5. g.bound \cap RootsOf(Found("ragged")) = {}
      BY <1>0 DEF BlockFormed, BoundFormed, Found
    <2> QED
      BY <2>2, <2>4, <2>5, <1>6
  <1> QED
    BY <1>1, <1>2, <1>3, <1>4, <1>5, <1>6, <1>7 DEF RaggedStems

\* A second result: its root is absorbed by nothing, and who else reads it
\* comes after the root.
LEMMA BoundIs ==
  ASSUME PlanInv, NEW k \in Kinds, NEW m \in plan[k], NEW v \in m.bound
  PROVE  /\ k \in {"ragged", "gdn", "proj", "pack"} /\ v \in m.ops
         /\ m.root \notin OpsOf(Matches)
         /\ \A u \in Users(v) \ m.ops : u = TheReturn \/ u >= m.root
         /\ k # "gdn" => m.root < v
  <1>0. BlockFormed(block) /\ UsesFormed(block) /\ block.n \in Nat
    BY PlanIsFormed
  <1>1. k \in {"ragged", "gdn", "proj", "pack"}
    <2>1. k \in Simple => k = "gdn"
      BY SimpleStem
    <2>2. k # "moe"
      BY DEF PlanInv, MoeInv, DispatchInv
    <2> QED
      BY <2>1, <2>2 DEF Kinds, Simple
  <1>2. v \in m.ops
    <2>1. CASE k = "ragged"
      BY <2>1, RaggedIs
    <2>2. CASE k = "gdn"
      BY <2>2, SimpleStem DEF StemsFrom, Simple
    <2>3. CASE k = "proj"
      BY <2>3, ProjIs
    <2>4. CASE k = "pack"
      BY <2>4, PackIs
    <2> QED
      BY <1>1, <2>1, <2>2, <2>3, <2>4
  <1>3. k # "gdn" => m.root < v
    BY <1>1, RaggedIs, ProjIs, PackIs
  <1>4. m.root \in Ops
    <2>1. CASE k = "ragged"
      BY <2>1, RaggedIs
    <2>2. CASE k = "gdn"
      BY <2>2, SimpleStem DEF Simple, Own
    <2>3. CASE k = "proj"
      BY <2>3, ProjIs, <1>0, FoundIs DEF Kinds
    <2>4. CASE k = "pack"
      BY <2>4, PackIs, DotsStem DEF Own
    <2> QED
      BY <1>1, <2>1, <2>2, <2>3, <2>4
  <1>5. \A u \in Users(v) \ m.ops : u = TheReturn \/ u >= m.root
    <2>1. CASE k = "gdn"
      BY <2>1 DEF PlanInv, GdnInv
    <2>2. CASE k # "gdn"
      <3> SUFFICES ASSUME NEW u \in Users(v), u # TheReturn
                   PROVE  u >= m.root
        OBVIOUS
      <3>1. v < u /\ v \in Ops /\ u \in Ops
        BY <1>0, UsersAreLater
      <3> QED
        BY <3>1, <2>2, <1>3, <1>4, <1>0 DEF Ops
    <2> QED
      BY <2>1, <2>2
  <1>6. m.root \notin OpsOf(Matches)
    <2> SUFFICES ASSUME NEW j \in Kinds, NEW c \in plan[j], m.root \in c.ops
                 PROVE  FALSE
      BY DEF Matches, OpsOf
    <2>1. m.root \in FamOwn(k) /\ m.root \in FamOwn(j)
      BY OwnIsOfFamily
    <2>2. Family(j) = Family(k)
      <3>1. Family(k) = Family(j) \/ {k, j} = {"qmm", "moe"}
        BY <2>1, OneFamily
      <3> QED
        BY <3>1, <1>1
    <2>3. CASE k = "ragged"
      <3>1. j = "ragged"
        BY <2>2, <2>3 DEF Family, Kinds
      <3> QED
        BY <2>3, <3>1, RaggedIs DEF OpsOf
    <2>4. CASE k = "gdn"
      <3>1. j = "gdn"
        BY <2>2, <2>4 DEF Family, Kinds
      <3> QED
        BY <2>4, <3>1 DEF PlanInv, GdnInv
    <2>5. CASE k = "proj"
      <3>1. j = "proj"
        BY <2>2, <2>5 DEF Family, Kinds
      <3>2. m.root \in RootsOf(c.members) /\ m.root \in RootsOf(m.members)
        BY <3>1, <2>5, ProjIs DEF RootsOf
      <3>3. c = m
        BY <3>1, <3>2, <2>5, MembersAreApart
      <3> QED
        BY <3>3, <2>5, ProjIs
    <2>6. CASE k = "pack"
      <3>1. j \in {"stacked", "pack"}
        BY <2>2, <2>6 DEF Family, Kinds
      <3>2. PICK first \in m.members : m.root = first.root /\ first \in Dots
        BY <2>6, PackIs
      <3>3. \A g \in Dots : g.root \in RootsOf(Found("stacked")) /\ g.ops \subseteq OpsOf(Found("stacked"))
        BY DotsStem DEF StemsFrom, RootsOf, OpsOf
      <3>4. RootsOf(Found("stacked")) \cap OpsOf(Found("stacked")) = {}
        BY <1>0 DEF BlockFormed, DotsFormed, Found
      <3>5. \A g \in Dots : m.root \notin g.ops
        BY <3>2, <3>3, <3>4
      <3>6. CASE j = "stacked"
        BY <3>5, <3>6 DEF Dots
      <3>7. CASE j = "pack"
        <4>1. m.root \notin OpsOf(c.members)
          BY <3>5, <3>7, PackIs DEF OpsOf
        <4>2. m.root \in c.bound
          BY <4>1, <3>7, PackIs
        <4>3. m.root \in RootsOf(c.members) /\ m.root \in RootsOf(m.members)
          BY <4>2, <3>2, <3>7, PackIs DEF RootsOf
        <4>4. c = m
          BY <3>7, <4>3, <2>6, MembersAreApart
        <4> QED
          BY <4>2, <4>4, <2>6, PackIs
      <3> QED
        BY <3>1, <3>6, <3>7
    <2> QED
      BY <1>1, <2>3, <2>4, <2>5, <2>6
  <1> QED
    BY <1>1, <1>2, <1>3, <1>5, <1>6


\* The call of what is claimed has its operands before its root.
LEMMA CallIs ==
  ASSUME PlanInv, NEW k \in Kinds, NEW m \in plan[k]
  PROVE  Own(m) \subseteq Ops /\ m.root \in Ops /\ m.reads \subseteq 1 .. m.root - 1
  <1>0. BlockFormed(block) /\ block.n \in Nat
    BY PlanIsFormed
  <1>1. CASE k \in Simple
    BY <1>1, SimpleStem DEF StemsFrom, ReadHere, Own
  <1>2. CASE k = "moe"
    <2>1. PICK f \in Found("moe") : m.root = f.root /\ m.reads = f.reads
      BY <1>2 DEF PlanInv, MoeInv, DispatchInv
    <2>2. f.root \in Ops /\ f.reads \subseteq 1 .. f.root - 1
      BY <1>0, <2>1, FoundIs DEF Kinds
    <2>3. m.ops \subseteq 1 .. m.root - 1
      BY <1>2 DEF PlanInv, MoeInv, DispatchInv
    <2> QED
      BY <1>0, <2>1, <2>2, <2>3 DEF Own, Ops
  <1>3. CASE k = "ragged"
    BY <1>3, RaggedIs DEF Own
  <1>4. CASE k = "pack"
    <2>1. PICK first \in m.members : m.root = first.root /\ m.reads = first.reads /\ first \in Dots
      BY <1>4, PackIs
    <2>2. first.reads \subseteq 1 .. first.root - 1
      BY <2>1, DotsStem DEF StemsFrom, ReadHere
    <2>3. \A g \in m.members : Own(g) \subseteq Ops
      BY <1>4, PackIs, DotsStem
    <2>4. m.ops = OpsOf(m.members) \cup m.bound /\ m.bound \subseteq RootsOf(m.members)
      BY <1>4, PackIs
    <2> QED
      BY <2>1, <2>2, <2>3, <2>4 DEF Own, OpsOf, RootsOf
  <1>5. CASE k = "proj"
    <2>1. PICK first \in m.members : m.root = first.root /\ m.reads = first.reads /\ first \in Found("proj")
      BY <1>5, ProjIs
    <2>2. \A g \in m.members : g.root \in Ops
      BY <1>0, <1>5, ProjIs, FoundIs DEF Kinds
    <2>3. first.reads \subseteq 1 .. first.root - 1
      BY <1>0, <2>1, FoundIs DEF Kinds
    <2> QED
      BY <2>1, <2>2, <2>3, <1>5, ProjIs DEF Own, RootsOf
  <1> QED
    BY <1>1, <1>2, <1>3, <1>4, <1>5 DEF Kinds, Simple

\* The return is owned by nothing.
LEMMA FamOwnIsOps ==
  ASSUME PlanInv, NEW k \in Kinds
  PROVE  FamOwn(k) \subseteq Ops
  <1>1. Family(k) \subseteq Kinds
    BY DEF Family, Kinds
  <1> QED
    BY <1>1, CallIs DEF FamOwn, Owned, RootsOf, OpsOf, Own

\* An expert dispatch takes over quantized matmuls that are packed.
LEMMA DispatchIs ==
  ASSUME PlanInv, NEW m \in plan["moe"]
  PROVE  /\ \E f \in Found("moe") :
              /\ m.root = f.root /\ m.reads = f.reads /\ m.bound = {} /\ m.over = f.over
              /\ f.ops \subseteq m.ops
              /\ m.over = f.ops \cap RootsOf(plan["qmm"] \cup declined["qmm"])
         /\ m.ops \subseteq 1 .. m.root - 1 /\ \A v \in m.ops : Users(v) \subseteq Own(m)
         /\ m.over \subseteq m.ops
         /\ m.root \notin RootsOf(Found("qmm")) /\ m.root \notin OpsOf(Found("qmm"))
  <1>1. PICK f \in Found("moe") :
          /\ m.root = f.root /\ m.reads = f.reads /\ m.bound = {} /\ m.over = f.over
          /\ f.ops \subseteq m.ops
          /\ m.over = f.ops \cap RootsOf(plan["qmm"] \cup declined["qmm"])
    BY DEF PlanInv, MoeInv, DispatchInv
  <1>2. m.ops \subseteq 1 .. m.root - 1 /\ \A v \in m.ops : Users(v) \subseteq Own(m)
    BY DEF PlanInv, MoeInv, DispatchInv
  <1>3. f.root \notin RootsOf(Found("qmm")) /\ f.root \notin OpsOf(Found("qmm"))
    BY PlanIsFormed DEF BlockFormed, DispatchesFormed, Found
  <1> QED
    BY <1>1, <1>2, <1>3

\* A match that absorbs or binds nothing of a ragged dot's mask is not in it.
LEMMA NoPattern ==
  ASSUME PlanInv, NEW k \in Kinds \ {"qmm", "moe", "sdpa", "ragged"}, NEW m \in plan[k]
  PROVE  ({m.root} \cup m.bound) \cap OpsOf(Found("ragged")) = {}
  <1>1. \A j \in Kinds \ {"ragged"} : \A f \in Found(j) :
          ({f.root} \cup f.bound) \cap OpsOf(Found("ragged")) = {}
    BY PlanIsFormed DEF BlockFormed, RaggedFormed, Found
  <1>2. CASE k \in Simple
    <2>1. PICK f \in Found(k) : m.root = f.root /\ m.bound = f.bound
      BY <1>2, SimpleStem DEF StemsFrom
    <2> QED
      BY <2>1, <1>1
  <1>3. CASE k = "pack"
    <2>1. \A g \in Dots : \E f \in Found("stacked") : g.root = f.root
      BY DotsStem DEF StemsFrom
    <2>2. \A g \in Dots : g.root \notin OpsOf(Found("ragged"))
      BY <2>1, <1>1 DEF Kinds
    <2> QED
      BY <2>2, <1>3, PackIs DEF RootsOf
  <1>4. CASE k = "proj"
    <2>2. \A g \in Found("proj") : g.root \notin OpsOf(Found("ragged"))
      BY <1>1 DEF Kinds
    <2> QED
      BY <2>2, <1>4, ProjIs DEF RootsOf
  <1> QED
    BY <1>2, <1>3, <1>4 DEF Kinds, Simple

\* No other recognizer has an op of a ragged dot's pattern.
LEMMA RaggedApart ==
  ASSUME PlanInv, Unshared, NEW c \in plan["ragged"], NEW f \in Found("ragged"), RaggedStems(c, f),
         NEW k \in Kinds \ {"ragged"}
  PROVE  Own(f) \cap FamOwn(k) = {}
  <1>0. BlockFormed(block) /\ UsesFormed(block) /\ block.n \in Nat /\ "ragged" \in Kinds
    BY PlanIsFormed DEF Kinds
  <1>1. CASE k \in {"qmm", "moe", "sdpa"}
    <2>1. PICK g \in Found("ragged") :
            /\ RaggedStems(c, g) /\ \A j \in {"qmm", "moe", "sdpa"} : Own(g) \cap Owned(plan, j) = {}
      BY DEF PlanInv, RaggedInv
    <2>2. g = f
      BY <1>0, <2>1, FoundIs DEF RaggedStems
    <2> QED
      BY <1>1, <2>1, <2>2 DEF FamOwn, Family
  <1>2. CASE k \notin {"qmm", "moe", "sdpa"}
    <2> SUFFICES ASSUME Own(f) \cap FamOwn(k) # {}
                 PROVE  FALSE
      OBVIOUS
    <2>1. /\ Own(f) \subseteq 1 .. block.n /\ Own(f) \cap FamOwn(k) \subseteq 1 .. block.n
          /\ Own(f) \cap FamOwn(k) # {}
      BY <1>0, FoundIs DEF Ops
    <2>2. PICK x \in Own(f) \cap FamOwn(k) : \A y \in Own(f) \cap FamOwn(k) : y <= x
      BY <1>0, <2>1, GreatestMember
    <2>3. x # f.root
      <3>1. f.root \in FamOwn("ragged") /\ f.root = c.root
        BY <1>0, OwnIsOfFamily DEF RaggedStems
      <3>2. Family("ragged") # Family(k) /\ {"ragged", k} # {"qmm", "moe"}
        BY DEF Family
      <3> QED
        BY <1>0, <3>1, <3>2, OneFamily
    <2>4. x \in f.ops
      BY <2>3 DEF Own
    <2>5. PICK u \in Own(f) : x \in block.reads[u]
      BY <1>0, <2>4, FoundIs DEF Tree, Own
    <2>6. u \in Ops /\ u \in Users(x) /\ x < u
      <3>1. u \in Ops
        BY <2>1 DEF Ops
      <3>2. u \in Users(x)
        BY <3>1, <2>5, ReadersAreUsers
      <3> QED
        BY <1>0, <3>1, <3>2, UsersAreLater DEF Ops, TheReturn
    <2>7. PICK j \in Family(k) : x \in Owned(plan, j)
      BY <2>2 DEF FamOwn
    <2>8. PICK m \in plan[j] : x \in Own(m)
      BY <2>7 DEF Owned, RootsOf, OpsOf, Own
    <2>9. j \in Kinds \ {"qmm", "moe", "sdpa", "ragged"} /\ FamOwn(j) = FamOwn(k)
      BY <1>2 DEF Family, Kinds, FamOwn
    <2>10. x \notin {m.root} \cup m.bound
      BY <2>9, <2>4, NoPattern DEF OpsOf
    <2>11. x \in m.ops \ m.bound
      BY <2>8, <2>10 DEF Own
    <2>12. u \in FamOwn(k)
      BY <2>6, <2>9, <2>11, Inside
    <2>13. u <= x
      BY <2>2, <2>5, <2>12
    <2> QED
      BY <2>6, <2>13, <2>1 DEF Ops
  <1> QED
    BY <1>1, <1>2


\* What a call reads is read by an op of its recognizer, no later than its root;
\* an expert dispatch may have it from a quantized matmul it took over.
LEMMA ReaderIs ==
  ASSUME PlanInv, Unshared, stage = "lower", NEW j \in Kinds, NEW c \in plan[j], NEW v \in c.reads,
         NEW k \in Kinds, Family(k) # Family(j), {j, k} # {"qmm", "moe"}
  PROVE  \E u \in Users(v) : u \in Ops /\ u <= c.root /\ u \notin FamOwn(k)
  <1>0. BlockFormed(block) /\ UsesFormed(block) /\ block.n \in Nat
    BY PlanIsFormed
  <1>1. c.root \in Ops /\ Own(c) \subseteq Ops
    BY CallIs
  <1>2. ASSUME NEW f, f.root = c.root, f.ops \subseteq 1 .. f.root - 1, NEW u \in Own(f)
        PROVE  u <= c.root
    BY <1>0, <1>1, <1>2 DEF Own, Ops
  <1>3. ASSUME NEW u \in FamOwn(j)
        PROVE  u \notin FamOwn(k)
    BY <1>3, OneFamily
  <1>4. CASE j \in Simple
    <2>1. PICK u \in Own(c) : v \in block.reads[u]
      BY <1>4, SimpleStem DEF StemsFrom, ReadHere
    <2>2. PICK f \in Found(j) : c.root = f.root /\ c.ops \subseteq f.ops
      BY <1>4, SimpleStem DEF StemsFrom
    <2>3. u \in Own(f) /\ f.ops \subseteq 1 .. f.root - 1
      BY <1>0, <2>1, <2>2, FoundIs DEF Own
    <2>4. u \in Ops /\ u \in FamOwn(j) /\ u \in Users(v)
      BY <1>1, <2>1, OwnIsOfFamily, ReadersAreUsers
    <2> QED
      BY <1>2, <1>3, <2>2, <2>3, <2>4
  <1>5. CASE j = "ragged"
    <2>1. PICK f \in Found("ragged") : RaggedStems(c, f)
      BY <1>5, RaggedIs
    <2>2. PICK u \in Own(f) : v \in block.reads[u]
      <3>1. v \in f.reads \cup f.plain
        BY <2>1 DEF RaggedStems
      <3>2. \E u \in (f.ops \ block.const) \cup {f.root} : v \in block.reads[u]
        BY <1>0, <3>1 DEF BlockFormed, ReadsAreOfTrees, Core, Found, Kinds
      <3> QED
        BY <3>2 DEF Own
    <2>3. Own(f) \subseteq Ops /\ f.ops \subseteq 1 .. f.root - 1 /\ f.root = c.root
      BY <1>0, <2>1, FoundIs DEF RaggedStems, Kinds
    <2>4. k # "ragged"
      BY <1>5
    <2>5. u \notin FamOwn(k)
      BY <1>5, <2>1, <2>2, <2>4, RaggedApart
    <2> QED
      BY <1>2, <2>2, <2>3, <2>5, ReadersAreUsers
  <1>6. CASE j = "pack"
    <2>1. PICK g \in c.members : c.root = g.root /\ c.reads = g.reads /\ g \in Dots /\ Own(g) \subseteq Own(c)
      BY <1>6, PackIs
    <2>2. PICK u \in Own(g) : v \in block.reads[u]
      BY <2>1, DotsStem DEF StemsFrom, ReadHere
    <2>3. PICK f \in Found("stacked") : g.root = f.root /\ g.ops \subseteq f.ops
      BY <2>1, DotsStem DEF StemsFrom
    <2>4. u \in Own(f) /\ f.ops \subseteq 1 .. f.root - 1
      BY <1>0, <2>2, <2>3, FoundIs DEF Own, Kinds
    <2>5. u \in Ops /\ u \in FamOwn(j) /\ u \in Users(v)
      BY <1>1, <2>1, <2>2, OwnIsOfFamily, ReadersAreUsers
    <2> QED
      BY <1>2, <1>3, <2>1, <2>3, <2>4, <2>5
  <1>7. CASE j = "proj"
    <2>1. PICK f \in c.members : c.root = f.root /\ c.reads = f.reads /\ f \in Found("proj")
      BY <1>7, ProjIs
    <2>2. PICK u \in Own(f) : v \in block.reads[u]
      BY <1>0, <2>1, FoundReadsHere DEF ReadHere, Kinds
    <2>3. f.ops = {}
      BY <1>0, <2>1 DEF BlockFormed, DotsFormed, OpsOf, Found
    <2>4. u = c.root
      BY <2>1, <2>2, <2>3 DEF Own
    <2>5. u \in FamOwn(j) /\ u \in Users(v)
      BY <1>1, <2>2, <2>4, OwnIsOfFamily, ReadersAreUsers
    <2> QED
      BY <1>0, <1>1, <1>3, <2>4, <2>5 DEF Ops
  <1>8. CASE j = "moe"
    <2>1. PICK f \in Found("moe") :
            /\ c.root = f.root /\ c.reads = f.reads /\ c.over = f.over /\ f.ops \subseteq c.ops
            /\ c.over = f.ops \cap RootsOf(plan["qmm"] \cup declined["qmm"])
      BY <1>8, DispatchIs
    <2>2. \/ \E u \in (f.ops \cup {f.root}) \ f.over : v \in block.reads[u]
          \/ \E q \in Found("qmm") : q.root \in f.over /\ v \in q.reads
      BY <1>0, <2>1 DEF BlockFormed, ReadsAreOfTrees, Found
    <2>3. f.ops \subseteq 1 .. f.root - 1
      BY <1>0, FoundIs DEF Kinds
    <2>4. CASE \E u \in (f.ops \cup {f.root}) \ f.over : v \in block.reads[u]
      <3>1. PICK u \in f.ops \cup {f.root} : v \in block.reads[u]
        BY <2>4
      <3>2. u \in Own(c) /\ u \in Own(f)
        BY <2>1, <3>1 DEF Own
      <3>3. u \in Ops /\ u \in FamOwn(j) /\ u \in Users(v)
        BY <1>1, <3>1, <3>2, OwnIsOfFamily, ReadersAreUsers
      <3> QED
        BY <1>2, <1>3, <2>1, <2>3, <3>2, <3>3
    <2>5. CASE \E q \in Found("qmm") : q.root \in f.over /\ v \in q.reads
      <3>1. PICK q \in Found("qmm") : q.root \in f.over /\ v \in q.reads
        BY <2>5
      <3>2. PICK p \in plan["qmm"] \cup declined["qmm"] : p.root = q.root
        BY <2>1, <3>1 DEF RootsOf
      <3>3. p \in plan["qmm"]
        BY <1>8, <2>1, <3>1, <3>2 DEF PlanInv, DispatchesPacked
      <3>4. StemsFrom("qmm", p) /\ Own(p) \subseteq Ops
        BY <3>3, SimpleStem DEF Simple
      <3>5. PICK g \in Found("qmm") : p.root = g.root /\ p.reads = g.reads /\ p.ops \subseteq g.ops
        BY <3>4 DEF StemsFrom
      <3>6. g = q
        BY <1>0, <3>2, <3>5, FoundIs DEF Kinds
      <3>7. PICK u \in Own(p) : v \in block.reads[u]
        BY <3>1, <3>4, <3>5, <3>6 DEF StemsFrom, ReadHere
      <3>8. u \in FamOwn("qmm") /\ u \in Ops /\ u \in Users(v)
        BY <3>3, <3>4, <3>7, OwnIsOfFamily, ReadersAreUsers DEF Kinds
      <3>9. u \notin FamOwn(k)
        <4>1. Family(k) # Family("qmm") /\ {k, "qmm"} # {"qmm", "moe"}
          BY <1>8 DEF Family
        <4> QED
          BY <3>8, <4>1, OneFamily DEF Kinds
      <3>10. u <= c.root
        <4>1. p.root \in 1 .. c.root - 1
          BY <2>1, <2>3, <3>1, <3>2
        <4>2. g.ops \subseteq 1 .. g.root - 1
          BY <1>0, FoundIs DEF Kinds
        <4> QED
          BY <1>0, <1>1, <3>5, <3>7, <4>1, <4>2 DEF Own, Ops
      <3> QED
        BY <3>8, <3>9, <3>10
    <2> QED
      BY <2>2, <2>4, <2>5
  <1> QED
    BY <1>4, <1>5, <1>6, <1>7, <1>8 DEF Kinds, Simple

\* The root of a match that no other absorbs runs its call.
LEMMA RootsAreCalls ==
  ASSUME PlanInv, stage = "lower", NEW k \in Kinds, NEW m \in plan[k], m.root \notin skip
  PROVE  m \in Calls
  <1>1. skip = OpsOf(Matches) /\ \A j \in Kinds : \A c \in Emitted(plan, j) : [kind |-> j, root |-> c.root] \in roots
    BY DEF PlanInv, RootsInv, Builders
  <1>2. m \in Matches
    BY DEF Matches
  <1>3. m \in Emitted(plan, k)
    <2> SUFFICES ASSUME k = "qmm", m \in TakenOver(plan)
                 PROVE  FALSE
      BY DEF Emitted
    <2>1. PICK d \in plan["moe"] : m.root \in d.over
      BY DEF TakenOver
    <2>2. m.root \in d.ops
      BY <2>1, DispatchIs
    <2>3. d \in Matches
      BY DEF Matches, Kinds
    <2> QED
      BY <1>1, <2>2, <2>3 DEF OpsOf
  <1> QED
    BY <1>1, <1>2, <1>3 DEF Calls


\* A call that reads what its own recognizer absorbs reads a second result of an
\* earlier call.
LEMMA CrossSame ==
  ASSUME PlanInv, Unshared, NEW j \in Kinds, NEW c \in plan[j], NEW k \in Kinds, NEW m \in plan[k],
         NEW v \in c.reads, v \in m.ops, Family(j) = Family(k)
  PROVE  v \in m.bound /\ m.root < c.root
  <1>0. BlockFormed(block) /\ UsesFormed(block) /\ block.n \in Nat
    BY PlanIsFormed
  <1>1. /\ c.root \in Ops /\ v \in 1 .. c.root - 1 /\ m.root \in Ops
    BY CallIs
  <1>2. v \in m.bound /\ k # "gdn" => m.root < c.root
    <2>1. v \in m.bound /\ k # "gdn" => m.root < v
      BY BoundIs
    <2> QED
      BY <1>0, <1>1, <2>1 DEF Ops
  <1>3. \A i \in {"qmm", "sdpa", "stacked", "mla", "gdn", "norm"} : \A f, g \in Found(i) :
          v \in f.reads \cap g.ops => v \in g.bound /\ g.root < f.root
    BY <1>0 DEF BlockFormed, TreesAreApart, Found
  <1>4. CASE j \in {"stacked", "pack"}
    <2>1. k \in {"stacked", "pack"}
      BY <1>4 DEF Family, Kinds
    <2>2. PICK a \in Dots : a.reads = c.reads
      <3>1. CASE j = "stacked"
        BY <3>1 DEF Dots
      <3>2. CASE j = "pack"
        BY <3>2, PackIs
      <3> QED
        BY <1>4, <3>1, <3>2
    <2>3. ASSUME NEW g \in Dots, v \in g.ops
          PROVE  FALSE
      <3>1. PICK fa \in Found("stacked") : a.reads = fa.reads
        BY <2>2, DotsStem DEF StemsFrom
      <3>2. PICK fg \in Found("stacked") : g.ops \subseteq fg.ops /\ g.bound = fg.bound /\ g.bound = {}
        BY <2>3, DotsStem DEF StemsFrom
      <3> QED
        BY <1>3, <2>2, <2>3, <3>1, <3>2
    <2>4. k = "pack" /\ v \in m.bound
      <3>1. k # "stacked"
        BY <2>3 DEF Dots
      <3> QED
        BY <3>1, <2>1, <2>3, PackIs DEF OpsOf
    <2> QED
      BY <1>2, <2>4
  <1>5. CASE j = "proj"
    <2>1. k = "proj"
      BY <1>5 DEF Family, Kinds
    <2> QED
      BY <2>1, <1>2, ProjIs
  <1>6. CASE j = "moe"
    <2>1. k = "moe"
      BY <1>6 DEF Family, Kinds
    <2> QED
      BY <2>1, <1>6 DEF PlanInv, MoeInv
  <1>7. CASE j = "ragged"
    <2>1. k = "ragged"
      BY <1>7 DEF Family, Kinds
    <2>2. v \in m.bound
      BY <2>1, <1>7 DEF PlanInv, RaggedInv
    <2> QED
      BY <1>2, <2>1, <2>2
  <1>8. CASE j = "rope"
    <2>1. k = "rope"
      BY <1>8 DEF Family, Kinds
    <2>2. /\ c \in Found("rope") /\ m \in Found("rope") /\ m.bound = {}
          /\ Users(v) \subseteq Own(m) /\ (c # m => Own(c) \cap Own(m) = {})
      <3>1. m.bound = {}
        BY <2>1, SimpleStem DEF Simple
      <3> QED
        BY <3>1, <2>1, <1>8 DEF PlanInv, RopeInv, AloneInv
    <2>3. c = m
      <3>1. PICK u \in Own(c) : v \in block.reads[u]
        BY <1>8, SimpleStem DEF StemsFrom, ReadHere, Simple
      <3>2. u \in Users(v)
        BY <3>1, CallIs, ReadersAreUsers
      <3> QED
        BY <2>2, <3>1, <3>2
    <2>4. Tree(block, c)
      BY <1>0, <2>2, FoundIs DEF Kinds
    <2> QED
      BY <2>3, <2>4 DEF Tree
  <1>9. CASE j \in {"qmm", "sdpa", "mla", "gdn", "norm"}
    <2>1. k = j /\ j \in Simple
      BY <1>9 DEF Family, Kinds, Simple
    <2>2. PICK f \in Found(j) : c.root = f.root /\ c.reads = f.reads
      BY <2>1, SimpleStem DEF StemsFrom
    <2>3. PICK g \in Found(j) : m.root = g.root /\ m.ops \subseteq g.ops /\ m.bound = g.bound
      BY <2>1, SimpleStem DEF StemsFrom
    <2> QED
      BY <1>3, <1>9, <2>2, <2>3
  <1> QED
    BY <1>4, <1>5, <1>6, <1>7, <1>8, <1>9 DEF Kinds

\* A quantized matmul that reads what an expert dispatch absorbs is absorbed by it.
LEMMA CrossIntoMoe ==
  ASSUME PlanInv, NEW c \in plan["qmm"], NEW m \in plan["moe"], NEW v \in c.reads, v \in m.ops
  PROVE  c.root \in m.ops
  <1>0. BlockFormed(block) /\ UsesFormed(block) /\ block.n \in Nat
    BY PlanIsFormed
  <1>1. StemsFrom("qmm", c) /\ Own(c) \subseteq Ops /\ Linked(c)
    BY SimpleStem DEF Simple, PlanInv, QmmInv
  <1>2. PICK f \in Found("qmm") : c.root = f.root /\ c.ops \subseteq f.ops
    BY <1>1 DEF StemsFrom
  <1>3. m.root \notin c.ops /\ m.root # c.root
    BY <1>2, DispatchIs DEF RootsOf, OpsOf
  <1>4. PICK u \in Own(c) : v \in block.reads[u]
    BY <1>1 DEF StemsFrom, ReadHere
  <1>5. u \in Own(m)
    BY <1>1, <1>4, ReadersAreUsers, DispatchIs
  <1>6. c.root \in Own(m)
    <2>1. c.root \in Ops /\ c.ops \subseteq Ops /\ Own(c) \cap Own(m) # {}
      BY <1>1, <1>4, <1>5 DEF Own
    <2> QED
      BY <1>0, <1>1, <1>3, <2>1, DispatchIs, ChainUp
  <1> QED
    BY <1>3, <1>6 DEF Own

\* An expert dispatch reads nothing a quantized matmul absorbs.
LEMMA CrossIntoQmm ==
  ASSUME PlanInv, Unshared, NEW c \in plan["moe"], NEW m \in plan["qmm"], NEW v \in c.reads
  PROVE  v \notin m.ops
  <1> SUFFICES ASSUME v \in m.ops
               PROVE  FALSE
    OBVIOUS
  <1>0. BlockFormed(block) /\ UsesFormed(block) /\ block.n \in Nat
    BY PlanIsFormed
  <1>1. PICK f \in Found("moe") :
          /\ c.root = f.root /\ c.reads = f.reads /\ c.over = f.over /\ f.ops \subseteq c.ops
          /\ c.over = f.ops \cap RootsOf(plan["qmm"] \cup declined["qmm"])
    BY DispatchIs
  <1>2. PICK g \in Found("qmm") : m.root = g.root /\ m.ops \subseteq g.ops /\ g.bound = {} /\ m.bound = {}
    <2>1. StemsFrom("qmm", m) /\ m.bound = {}
      BY SimpleStem DEF Simple
    <2> QED
      BY <2>1 DEF StemsFrom
  <1>3. \/ \E u \in (f.ops \cup {f.root}) \ f.over : v \in block.reads[u]
        \/ \E q \in Found("qmm") : q.root \in f.over /\ v \in q.reads
    BY <1>0, <1>1 DEF BlockFormed, ReadsAreOfTrees, Found
  <1>4. CASE \E u \in (f.ops \cup {f.root}) \ f.over : v \in block.reads[u]
    <2>1. PICK u \in (f.ops \cup {f.root}) \ f.over : v \in block.reads[u]
      BY <1>4
    <2>2. u \in Ops
      BY <1>0, <2>1, FoundIs DEF Kinds
    <2>3. u \in FamOwn("qmm")
      <3>1. u \in Users(v) /\ v \in m.ops \ m.bound
        BY <2>1, <2>2, <1>2, ReadersAreUsers
      <3> QED
        BY <3>1, Inside DEF Kinds
    <2>4. ({f.root} \cup f.ops) \cap OpsOf(Found("qmm")) = {} /\ f.root \notin RootsOf(Found("qmm"))
      BY <1>0 DEF BlockFormed, DispatchesFormed, Found
    <2>5. PICK p \in plan["qmm"] : u \in Own(p)
      BY <2>3 DEF FamOwn, Family, Owned, RootsOf, OpsOf, Own
    <2>6. PICK h \in Found("qmm") : p.root = h.root /\ p.ops \subseteq h.ops
      BY SimpleStem DEF Simple, StemsFrom
    <2>7. u \notin h.ops /\ h.root # f.root
      BY <2>1, <2>4 DEF OpsOf, RootsOf
    <2>8. u = p.root /\ u \in f.ops
      BY <2>1, <2>5, <2>6, <2>7 DEF Own
    <2> QED
      BY <2>1, <2>8, <1>1 DEF RootsOf
  <1>5. CASE \E q \in Found("qmm") : q.root \in f.over /\ v \in q.reads
    BY <1>0, <1>2, <1>5 DEF BlockFormed, TreesAreApart, Found
  <1> QED
    BY <1>3, <1>4, <1>5

\* What a call reads is absorbed by nothing, or bound by an earlier call.
LEMMA Cross ==
  ASSUME PlanInv, Unshared, stage = "lower", NEW j \in Kinds, NEW c \in plan[j], c.root \notin skip,
         NEW k \in Kinds, NEW m \in plan[k], NEW v \in c.reads, v \in m.ops
  PROVE  v \in m.bound /\ m.root < c.root
  <1>1. CASE Family(j) = Family(k)
    BY <1>1, CrossSame
  <1>2. CASE j = "qmm" /\ k = "moe"
    <2>1. c.root \in m.ops
      BY <1>2, CrossIntoMoe
    <2>2. skip = OpsOf(Matches) /\ m \in Matches
      BY DEF PlanInv, RootsInv, Builders, Matches
    <2> QED
      BY <2>1, <2>2 DEF OpsOf
  <1>3. CASE j = "moe" /\ k = "qmm"
    BY <1>3, CrossIntoQmm
  <1>4. CASE Family(j) # Family(k) /\ {j, k} # {"qmm", "moe"}
    <2>1. PICK u \in Users(v) : u \in Ops /\ u <= c.root /\ u \notin FamOwn(k)
      BY <1>4, ReaderIs
    <2>2. v \in m.bound
      BY <2>1, Inside
    <2>3. u \notin m.ops /\ u # TheReturn
      BY <2>1, OwnIsOfFamily DEF Ops, TheReturn
    <2>4. u >= m.root
      BY <2>1, <2>2, <2>3, BoundIs
    <2>5. c.root # m.root
      BY <1>4, OwnIsOfFamily, OneFamily
    <2>6. c.root \in Ops /\ m.root \in Ops /\ block.n \in Nat
      BY CallIs, PlanIsFormed
    <2> QED
      BY <2>1, <2>2, <2>4, <2>5, <2>6 DEF Ops
  <1> QED
    BY <1>1, <1>2, <1>3, <1>4

\* The plan that is done can be lowered.
LEMMA PlanCanBeLowered ==
  ASSUME PlanInv, Unshared, stage = "lower"
  PROVE  Lowers
  <1>0. BlockFormed(block) /\ UsesFormed(block) /\ block.n \in Nat
    BY PlanIsFormed
  <1>1. skip = OpsOf(Matches)
    BY DEF PlanInv, RootsInv, Builders
  <1>2. ASSUME NEW v \in skip
        PROVE  \E k \in Kinds : \E m \in plan[k] : v \in m.ops
    BY <1>1 DEF OpsOf, Matches
  <1>3. ASSUME NEW k \in Kinds, NEW m \in plan[k], NEW v \in m.bound
        PROVE  m.root \in BoundAt(v) /\ m \in Calls
    <2>1. m \in Calls
      BY <1>1, <1>3, BoundIs, RootsAreCalls
    <2> QED
      BY <2>1, <1>3 DEF BoundAt
  <1>4. ASSUME NEW o \in Ops \ skip, NEW v \in Reads(o)
        PROVE  \E at \in BoundAt(v) : at < o
    <2>1. CASE {c \in Calls : c.root = o} # {}
      <3>1. PICK c \in Calls : c.root = o /\ v \in c.reads
        BY <1>4, <2>1 DEF Reads, ReadsOf
      <3>2. PICK j \in Kinds : c \in plan[j]
        BY <3>1 DEF Calls, Matches
      <3>3. v \in 1 .. c.root - 1 /\ c.root \in Ops
        BY <3>1, <3>2, CallIs
      <3>4. CASE v \notin skip
        BY <1>0, <3>1, <3>3, <3>4 DEF BoundAt, Ops
      <3>5. CASE v \in skip
        <4>1. PICK k \in Kinds : \E m \in plan[k] : v \in m.ops
          BY <1>2, <3>5
        <4>2. PICK m \in plan[k] : v \in m.ops
          BY <4>1
        <4>3. v \in m.bound /\ m.root < c.root
          BY <3>1, <3>2, <4>1, <4>2, Cross
        <4> QED
          BY <1>3, <3>1, <4>1, <4>2, <4>3
      <3> QED
        BY <3>4, <3>5
    <2>2. CASE {c \in Calls : c.root = o} = {}
      <3>1. v \in block.reads[o]
        BY <2>2, <1>4 DEF Reads
      <3>2. o \in Users(v) /\ o # TheReturn /\ v < o /\ v \in Ops
        BY <1>0, <1>4, <3>1, ReadersAreUsers, UsersAreLater DEF Ops, TheReturn
      <3>3. CASE v \notin skip
        BY <3>2, <3>3 DEF BoundAt
      <3>4. CASE v \in skip
        <4>1. PICK k \in Kinds : \E m \in plan[k] : v \in m.ops
          BY <1>2, <3>4
        <4>2. PICK m \in plan[k] : v \in m.ops
          BY <4>1
        <4>3. v \in m.bound
          <5> SUFFICES ASSUME v \notin m.bound
                       PROVE  FALSE
            OBVIOUS
          <5>1. o \in FamOwn(k)
            BY <3>2, <4>1, <4>2, Inside
          <5>2. PICK j \in Family(k) : o \in Owned(plan, j)
            BY <5>1 DEF FamOwn
          <5>3. j \in Kinds
            BY <5>2 DEF Family, Kinds
          <5>4. PICK d \in plan[j] : o \in Own(d)
            BY <5>2 DEF Owned, RootsOf, OpsOf, Own
          <5>5. o \notin d.ops
            <6>1. d \in Matches
              BY <5>3 DEF Matches
            <6> QED
              BY <6>1, <1>1, <1>4 DEF OpsOf
          <5>6. d.root = o
            BY <5>4, <5>5 DEF Own
          <5>7. d \in Calls
            BY <5>3, <5>6, <1>4, RootsAreCalls
          <5> QED
            BY <2>2, <5>6, <5>7
        <4>4. m.root \in BoundAt(v) /\ m \in Calls
          BY <1>3, <4>1, <4>3
        <4>5. o \notin m.ops
          <5>1. m \in Matches
            BY <4>1 DEF Matches
          <5> QED
            BY <5>1, <1>1, <1>4 DEF OpsOf
        <4>6. o >= m.root
          BY <3>2, <4>1, <4>3, <4>5, BoundIs
        <4>7. o # m.root
          BY <2>2, <4>4
        <4>8. m.root \in Ops
          BY <4>1, CallIs
        <4>9. m.root < o
          BY <1>0, <1>4, <4>6, <4>7, <4>8 DEF Ops
        <4> QED
          BY <4>4, <4>9
      <3> QED
        BY <3>3, <3>4
    <2> QED
      BY <2>1, <2>2
  <1>5. ASSUME NEW v \in block.ret
        PROVE  BoundAt(v) # {}
    <2>1. TheReturn \in Users(v) /\ TheReturn \notin Ops
      BY DEF Users, TheReturn, Ops
    <2>2. CASE v \notin skip
      BY <2>2 DEF BoundAt
    <2>3. CASE v \in skip
      <3>1. PICK k \in Kinds : \E m \in plan[k] : v \in m.ops
        BY <1>2, <2>3
      <3>2. PICK m \in plan[k] : v \in m.ops
        BY <3>1
      <3>3. v \in m.bound
        BY <2>1, <3>1, <3>2, Inside, FamOwnIsOps
      <3> QED
        BY <1>3, <3>1, <3>3
    <2> QED
      BY <2>2, <2>3
  <1> QED
    BY <1>4, <1>5 DEF Lowers


---------------------------------------------------------------------------
(* What a step leaves alone stays as it was. *)

\* A step that leaves the block alone leaves what was claimed as it was.
LEMMA StaysStemmed ==
  ASSUME block' = block, NEW k, NEW m
  PROVE  /\ StemsFrom(k, m)' <=> StemsFrom(k, m)
         /\ Linked(m)' <=> Linked(m)
  BY DEF StemsFrom, Found, ReadHere, Own, Linked

\* Nor does who reads a value change.
LEMMA StaysUsed ==
  ASSUME block' = block, NEW v
  PROVE  Users(v)' = Users(v)
  BY DEF Users, Ops, TheReturn

\* Quantized matmuls may be given up, not forgotten.
LEMMA QmmKept ==
  ASSUME block' = block, QmmInv, plan'["qmm"] \subseteq plan["qmm"],
         plan["qmm"] \cup declined["qmm"] \subseteq plan'["qmm"] \cup declined'["qmm"]
  PROVE  QmmInv'
  <1>1. ASSUME NEW m \in plan'["qmm"]
        PROVE  StemsFrom("qmm", m)' /\ Linked(m)'
    BY <1>1, StaysStemmed DEF QmmInv, JointInv
  <1>2. ASSUME NEW m \in plan'["qmm"], NEW v \in m.ops \ m.bound, NEW u \in Users(v)'
        PROVE  \E d \in plan'["qmm"] \cup declined'["qmm"] : u \in Own(d) /\ v \in d.ops
    BY <1>2, StaysUsed DEF QmmInv, JointInv
  <1> QED
    BY <1>1, <1>2 DEF QmmInv, JointInv, Own

\* Dispatches may be given up; what they take over stays a root that was kept.
LEMMA MoeKept ==
  ASSUME block' = block, MoeInv, plan'["moe"] \subseteq plan["moe"],
         RootsOf(plan'["qmm"] \cup declined'["qmm"]) = RootsOf(plan["qmm"] \cup declined["qmm"])
  PROVE  MoeInv'
  BY StaysUsed DEF MoeInv, DispatchInv, Found, Own, RootsOf

\* Attentions stay.
LEMMA SdpaKept ==
  ASSUME block' = block, SdpaInv, plan'["sdpa"] = plan["sdpa"]
  PROVE  SdpaInv'
  BY StaysUsed DEF SdpaInv, ShutInv, Found, RootsOf, OpsOf

\* Ragged dots stay, while those before them claim no more.
LEMMA RaggedKept ==
  ASSUME block' = block, RaggedInv, plan'["ragged"] = plan["ragged"],
         \A k \in {"qmm", "moe", "sdpa"} : plan'[k] \subseteq plan[k]
  PROVE  RaggedInv'
  <1>1. \A k \in {"qmm", "moe", "sdpa"} : Owned(plan, k)' \subseteq Owned(plan, k)
    BY DEF Owned, RootsOf, OpsOf
  <1>2. \A m \in plan'["ragged"] : \E f \in Found("ragged")' :
          /\ RaggedStems(m, f)'
          /\ \A k \in {"qmm", "moe", "sdpa"} : Own(f) \cap Owned(plan, k)' = {}
    BY <1>1 DEF RaggedInv, Found, RaggedStems
  <1> QED
    BY <1>2, StaysUsed DEF RaggedInv, ShutInv, RootsOf, OpsOf, Own

\* Stacked dots may be given up or come back out of their packs.
LEMMA DotsKept ==
  ASSUME block' = block, DotsInv, plan'["pack"] \subseteq plan["pack"], Dots' \subseteq Dots,
         Dots \cup declined["stacked"] \subseteq Dots' \cup declined'["stacked"]
  PROVE  DotsInv'
  <1>1. ASSUME NEW m \in Dots'
        PROVE  StemsFrom("stacked", m)'
    BY <1>1, StaysStemmed DEF DotsInv, JointInv
  <1>2. ASSUME NEW m \in Dots', NEW v \in m.ops \ m.bound, NEW u \in Users(v)'
        PROVE  \E d \in Dots' \cup declined'["stacked"] : u \in Own(d) /\ v \in d.ops
    BY <1>2, StaysUsed DEF DotsInv, JointInv
  <1>3. JointInv("stacked", Dots, Dots \cup declined["stacked"])'
    BY <1>1, <1>2 DEF JointInv, Own
  <1>4. PacksInv(plan["pack"])'
    BY DEF DotsInv, PacksInv, PackShape, RootsOf, OpsOf
  <1> QED
    BY <1>3, <1>4 DEF DotsInv

\* Joint projections may be given up.
LEMMA ProjKept ==
  ASSUME block' = block, ProjInv, plan'["proj"] \subseteq plan["proj"]
  PROVE  ProjInv'
  BY DEF ProjInv, PacksInv, PackShape, RootsOf, OpsOf, Found

\* Latent attentions stay.
LEMMA ChainKept ==
  ASSUME block' = block, plan'["mla"] = plan["mla"], declined'["mla"] = declined["mla"], MlaInv
  PROVE  MlaInv'
  <1>1. ASSUME NEW m \in plan'["mla"]
        PROVE  StemsFrom("mla", m)'
    BY <1>1, StaysStemmed DEF MlaInv, JointInv
  <1> QED
    BY <1>1, StaysUsed DEF MlaInv, JointInv, Own

\* Delta steps stay.
LEMMA GdnKept ==
  ASSUME block' = block, plan'["gdn"] = plan["gdn"], declined'["gdn"] = declined["gdn"], GdnInv
  PROVE  GdnInv'
  <1>1. ASSUME NEW m \in plan'["gdn"]
        PROVE  StemsFrom("gdn", m)'
    BY <1>1, StaysStemmed DEF GdnInv, JointInv
  <1>2. JointInv("gdn", plan["gdn"], plan["gdn"] \cup declined["gdn"])'
    BY <1>1, StaysUsed DEF GdnInv, JointInv, Own
  <1> QED
    BY <1>2, StaysUsed DEF GdnInv, TheReturn

\* Norms stay.
LEMMA NormKept ==
  ASSUME block' = block, plan'["norm"] = plan["norm"], NormInv
  PROVE  NormInv'
  <1>1. ASSUME NEW m \in plan'["norm"]
        PROVE  StemsFrom("norm", m)'
    BY <1>1, StaysStemmed DEF NormInv
  <1> QED
    BY <1>1, StaysUsed DEF NormInv, AloneInv, Own

\* Rotary embeddings stay.
LEMMA RopeKept ==
  ASSUME block' = block, plan'["rope"] = plan["rope"], RopeInv
  PROVE  RopeInv'
  BY StaysUsed DEF RopeInv, AloneInv, Own, Found


\* The i-th recognizer at work: what it does not claim stays, and no other has
\* been at work after it.
Works(i) ==
  /\ stage = Stages[i] /\ stage' = After(Stages[i]) /\ block' = block
  /\ plan' = [k \in Kinds |-> plan'[k]] /\ declined' = [k \in Kinds |-> declined'[k]]
  /\ \A k \in Kinds : k # Stages[i] /\ (k = "pack" => Stages[i] # "stacked") => plan'[k] = plan[k]
  /\ \A k \in Kinds : k # Stages[i] \/ k \notin {"mla", "gdn"} => declined'[k] = declined[k]

\* The ten recognizers in their order.
LEMMA StagesAre ==
  /\ \A i, j \in 1 .. 11 : Stages[i] = Stages[j] => i = j
  /\ \A i \in 1 .. 11 : Stages[i] \notin Builders
  /\ \A i \in 1 .. 10 : Stages[i] \in Kinds \ {"pack"}
  /\ Stages[1] = "qmm" /\ Stages[2] = "moe" /\ Stages[3] = "sdpa" /\ Stages[4] = "ragged"
  /\ Stages[5] = "stacked" /\ Stages[6] = "proj" /\ Stages[7] = "mla" /\ Stages[8] = "gdn"
  /\ Stages[9] = "norm" /\ Stages[10] = "rope" /\ Stages[11] = "analyzed"
  <1> DEFINE I == {1, 2, 3, 4, 5, 6, 7, 8, 9, 10, 11}
  <1>1. 1 .. 11 = I /\ 1 .. 10 \subseteq I \ {11}
    OBVIOUS
  <1>2. \A i, j \in I : Stages[i] = Stages[j] => i = j
    BY DEF Stages
  <1>3. \A i \in I : Stages[i] \notin Builders
    BY DEF Stages, Builders
  <1>4. \A i \in I \ {11} : Stages[i] \in Kinds \ {"pack"}
    BY DEF Stages, Kinds
  <1> QED
    BY <1>1, <1>2, <1>3, <1>4 DEF Stages

\* Unreached, at one recognizer.
LEMMA UnreachedAt ==
  ASSUME NEW i \in 1 .. 11, NEW l \in i .. 10, Unreached, stage = Stages[i]
  PROVE  /\ declined["qmm"] = {} /\ declined["stacked"] = {}
         /\ plan[Stages[l]] = {} /\ declined[Stages[l]] = {}
         /\ Stages[l] = "stacked" => plan["pack"] = {}
  BY DEF Unreached

\* After a recognizer has been at work, those behind it still have not.
LEMMA WorksOnwards ==
  ASSUME PlanInv, NEW i \in 1 .. 10, Works(i)
  PROVE  Unreached' /\ RootsInv' /\ DispatchesPacked'
  <1>1. PICK j \in i + 1 .. 11 : stage' = Stages[j]
    BY AfterIs DEF Works
  <1>2. j \in 1 .. 11 /\ i < j /\ i \in 1 .. 11
    OBVIOUS
  <1>3. RootsInv' /\ DispatchesPacked'
    BY <1>1, <1>2, StagesAre DEF RootsInv, DispatchesPacked, Builders
  <1>4. ASSUME NEW h \in 1 .. 11, stage' = Stages[h]
        PROVE  h = j
    BY <1>1, <1>2, <1>4, StagesAre
  <1>5. declined'["qmm"] = {} /\ declined'["stacked"] = {}
    BY <1>2 DEF PlanInv, Unreached, Works, Kinds
  <1>6. ASSUME NEW l \in j .. 10
        PROVE  /\ plan'[Stages[l]] = {} /\ declined'[Stages[l]] = {}
               /\ Stages[l] = "stacked" => plan'["pack"] = {}
    <2>1. l \in i .. 10 /\ l \in 1 .. 10 /\ l # i /\ l \in 1 .. 11
      BY <1>1, <1>2
    <2>2. /\ plan[Stages[l]] = {} /\ declined[Stages[l]] = {}
          /\ Stages[l] = "stacked" => plan["pack"] = {}
      <3>1. Unreached /\ stage = Stages[i]
        BY DEF PlanInv, Works
      <3> QED
        BY <1>2, <2>1, <3>1, UnreachedAt
    <2>3. Stages[l] # Stages[i] /\ Stages[l] \in Kinds \ {"pack"} /\ "pack" \in Kinds
      BY <1>2, <2>1, StagesAre DEF Kinds
    <2>4. plan'[Stages[l]] = {} /\ declined'[Stages[l]] = {}
      BY <2>2, <2>3 DEF Works
    <2>5. ASSUME Stages[l] = "stacked"
          PROVE  plan'["pack"] = {}
      <3>1. plan'["pack"] = plan["pack"]
        BY <2>3, <2>5, StagesAre DEF Works
      <3> QED
        BY <2>2, <2>5, <3>1
    <2> QED
      BY <2>4, <2>5
  <1>7. Unreached'
    BY <1>4, <1>5, <1>6 DEF Unreached
  <1> QED
    BY <1>3, <1>7

\* A recognizer at work leaves what the others claimed as it was.
LEMMA WorksAlone ==
  ASSUME PlanInv, NEW i \in 1 .. 10, Works(i)
  PROVE  /\ block' \in Blocks
         /\ plan' = [k \in Kinds |-> plan'[k]] /\ declined' = [k \in Kinds |-> declined'[k]]
         /\ i # 1 => QmmInv'
         /\ i # 2 => MoeInv'
         /\ i # 3 => SdpaInv'
         /\ i # 4 => RaggedInv'
         /\ i # 5 => DotsInv'
         /\ i # 6 => ProjInv'
         /\ i # 7 => MlaInv'
         /\ i # 8 => GdnInv'
         /\ i # 9 => NormInv'
         /\ i # 10 => RopeInv'
  <1>1. /\ block' = block /\ block \in Blocks
        /\ plan' = [k \in Kinds |-> plan'[k]] /\ declined' = [k \in Kinds |-> declined'[k]]
    BY DEF Works, PlanInv
  <1>2. \A h \in 1 .. 10 : h # i => plan'[Stages[h]] = plan[Stages[h]] /\ declined'[Stages[h]] = declined[Stages[h]]
    <2>1. \A h \in 1 .. 10 : h # i => Stages[h] # Stages[i]
      <3>1. 1 .. 10 \subseteq 1 .. 11
        OBVIOUS
      <3> QED
        BY <3>1, StagesAre
    <2> QED
      BY <2>1, StagesAre DEF Works
  <1>3. i # 5 => plan'["pack"] = plan["pack"]
    <2>1. i # 5 => Stages[i] # "stacked"
      <3>1. 5 \in 1 .. 11 /\ i \in 1 .. 11
        OBVIOUS
      <3> QED
        BY <3>1, StagesAre
    <2>2. Stages[i] # "pack" /\ "pack" \in Kinds
      BY StagesAre DEF Kinds
    <2> QED
      BY <2>1, <2>2 DEF Works
  <1>4. declined'["qmm"] = declined["qmm"] /\ declined'["stacked"] = declined["stacked"]
    BY DEF Works, Kinds
  <1>5. \A h \in i .. 10 : plan[Stages[h]] = {}
    <2>1. i \in 1 .. 11 /\ Unreached /\ stage = Stages[i]
      BY DEF PlanInv, Works
    <2> QED
      BY <2>1, UnreachedAt
  <1>6. ASSUME i # 1
        PROVE  QmmInv'
    <2>1. plan'["qmm"] = plan["qmm"]
      BY <1>2, <1>6, StagesAre
    <2> QED
      BY <1>1, <1>4, <2>1, QmmKept DEF PlanInv
  <1>7. ASSUME i # 2
        PROVE  MoeInv'
    <2>1. plan'["moe"] = plan["moe"]
      BY <1>2, <1>7, StagesAre
    <2>2. CASE i = 1
      <3>1. 2 \in i .. 10
        BY <2>2
      <3>2. plan["moe"] = {}
        BY <1>5, <3>1, StagesAre
      <3> QED
        BY <2>1, <3>2 DEF MoeInv
    <2>3. CASE i # 1
      <3>1. plan'["qmm"] = plan["qmm"]
        BY <1>2, <2>3, StagesAre
      <3>2. RootsOf(plan'["qmm"] \cup declined'["qmm"]) = RootsOf(plan["qmm"] \cup declined["qmm"])
        BY <1>4, <3>1
      <3> QED
        BY <1>1, <2>1, <3>2, MoeKept DEF PlanInv
    <2> QED
      BY <2>2, <2>3
  <1>8. ASSUME i # 3
        PROVE  SdpaInv'
    <2>1. plan'["sdpa"] = plan["sdpa"]
      BY <1>2, <1>8, StagesAre
    <2> QED
      BY <1>1, <2>1, SdpaKept DEF PlanInv
  <1>9. ASSUME i # 4
        PROVE  RaggedInv'
    <2>1. plan'["ragged"] = plan["ragged"]
      BY <1>2, <1>9, StagesAre
    <2>2. CASE i < 4
      <3>1. 4 \in i .. 10
        BY <2>2
      <3>2. plan["ragged"] = {}
        BY <1>5, <3>1, StagesAre
      <3> QED
        BY <2>1, <3>2 DEF RaggedInv, ShutInv
    <2>3. CASE i > 4
      <3>1. \A h \in {1, 2, 3} : h \in 1 .. 10 /\ h # i
        BY <2>3
      <3>2. \A k \in {"qmm", "moe", "sdpa"} : plan'[k] \subseteq plan[k]
        BY <1>2, <3>1, StagesAre
      <3> QED
        BY <1>1, <2>1, <3>2, RaggedKept DEF PlanInv
    <2> QED
      BY <1>9, <2>2, <2>3
  <1>10. ASSUME i # 5
         PROVE  DotsInv'
    <2>1. plan'["stacked"] = plan["stacked"]
      BY <1>2, <1>10, StagesAre
    <2>2. Dots' = Dots
      BY <1>3, <1>10, <2>1 DEF Dots
    <2> QED
      BY <1>1, <1>3, <1>4, <1>10, <2>2, DotsKept DEF PlanInv
  <1>11. ASSUME i # 6
         PROVE  ProjInv'
    <2>1. plan'["proj"] = plan["proj"]
      BY <1>2, <1>11, StagesAre
    <2> QED
      BY <1>1, <2>1, ProjKept DEF PlanInv
  <1>12. ASSUME i # 7
         PROVE  MlaInv'
    <2>1. plan'["mla"] = plan["mla"] /\ declined'["mla"] = declined["mla"]
      BY <1>2, <1>12, StagesAre
    <2> QED
      BY <1>1, <2>1, ChainKept DEF PlanInv
  <1>13. ASSUME i # 8
         PROVE  GdnInv'
    <2>1. plan'["gdn"] = plan["gdn"] /\ declined'["gdn"] = declined["gdn"]
      BY <1>2, <1>13, StagesAre
    <2> QED
      BY <1>1, <2>1, GdnKept DEF PlanInv
  <1>14. ASSUME i # 9
         PROVE  NormInv'
    <2>1. plan'["norm"] = plan["norm"]
      BY <1>2, <1>14, StagesAre
    <2> QED
      BY <1>1, <2>1, NormKept DEF PlanInv
  <1>15. ASSUME i # 10
         PROVE  RopeInv'
    <2>1. plan'["rope"] = plan["rope"]
      BY <1>2, <1>15, StagesAre
    <2> QED
      BY <1>1, <2>1, RopeKept DEF PlanInv
  <1> QED
    BY <1>1, <1>6, <1>7, <1>8, <1>9, <1>10, <1>11, <1>12, <1>13, <1>14, <1>15


---------------------------------------------------------------------------
(* Each recognizer keeps the invariant.                                    *)

\* A recognizer that claims what no other owns leaves every op one owner.
LEMMA NewOwner ==
  ASSUME OneOwner, NEW K \in Kinds, \A k \in Kinds \ {K} : plan'[k] = plan[k],
         \A k \in Kinds \ {K} : Owned(plan, K)' \cap Owned(plan, k) # {} => {K, k} \in {{"qmm", "moe"}, {"stacked", "pack"}}
  PROVE  OneOwner'
  <1>1. \A k \in Kinds \ {K} : Owned(plan, k)' = Owned(plan, k)
    BY DEF Owned, RootsOf, OpsOf
  <1> SUFFICES ASSUME NEW j \in Kinds, NEW k \in Kinds, j # k, Owned(plan, j)' \cap Owned(plan, k)' # {}
               PROVE  {j, k} \in {{"qmm", "moe"}, {"stacked", "pack"}}
    BY DEF OneOwner
  <1>2. CASE j = K
    BY <1>1, <1>2
  <1>3. CASE k = K
    <2>1. {K, j} \in {{"qmm", "moe"}, {"stacked", "pack"}}
      BY <1>1, <1>3
    <2>2. {j, k} = {K, j}
      BY <1>3
    <2> QED
      BY <2>1, <2>2
  <1>4. CASE j # K /\ k # K
    BY <1>1, <1>4 DEF OneOwner
  <1> QED
    BY <1>2, <1>3, <1>4

\* What is free is owned by no recognizer.
LEMMA FreeIsUnowned ==
  ASSUME NEW M, \A m \in M : Own(m) \cap Taken = {}, NEW k \in Kinds
  PROVE  (RootsOf(M) \cup OpsOf(M)) \cap Owned(plan, k) = {}
  <1>1. Owned(plan, k) \subseteq Taken
    BY DEF Owned, Taken, Matches, RootsOf, OpsOf
  <1> QED
    BY <1>1 DEF RootsOf, OpsOf, Own

\* What a recognizer has not reached owns nothing.
LEMMA UnreachedOwnsNothing ==
  ASSUME PlanInv, NEW i \in 1 .. 10, stage = Stages[i], NEW l \in i .. 10
  PROVE  Owned(plan, Stages[l]) = {} /\ (Stages[l] = "stacked" => Owned(plan, "pack") = {})
  <1>1. i \in 1 .. 11 /\ Unreached
    BY DEF PlanInv
  <1>2. plan[Stages[l]] = {} /\ (Stages[l] = "stacked" => plan["pack"] = {})
    BY <1>1, UnreachedAt
  <1> QED
    BY <1>2 DEF Owned, RootsOf, OpsOf

\* An analysis that sets its own matches is one recognizer at work.
LEMMA AnalyzeWorks ==
  ASSUME PlanInv, NEW i \in 1 .. 10, NEW M, Analyze(Stages[i], M)
  PROVE  /\ Works(i) /\ plan'[Stages[i]] = M
         /\ \A k \in Kinds \ {Stages[i]} : plan'[k] = plan[k]
  <1>1. Stages[i] \in Kinds
    BY StagesAre
  <1>2. /\ stage = Stages[i] /\ stage' = After(Stages[i]) /\ block' = block /\ declined' = declined
        /\ plan' = [plan EXCEPT ![Stages[i]] = M]
    BY DEF Analyze
  <1>3. plan = [k \in Kinds |-> plan[k]] /\ declined = [k \in Kinds |-> declined[k]]
    BY DEF PlanInv
  <1>4. plan' = [k \in Kinds |-> IF k = Stages[i] THEN M ELSE plan[k]]
    BY <1>1, <1>2, <1>3
  <1>5. plan'[Stages[i]] = M /\ \A k \in Kinds \ {Stages[i]} : plan'[k] = plan[k]
    BY <1>1, <1>4
  <1>6. plan' = [k \in Kinds |-> plan'[k]]
    BY <1>4
  <1>7. \A k \in Kinds : k # Stages[i] /\ (k = "pack" => Stages[i] # "stacked") => plan'[k] = plan[k]
    BY <1>5
  <1>8. declined' = [k \in Kinds |-> declined'[k]] /\ \A k \in Kinds : declined'[k] = declined[k]
    BY <1>2, <1>3
  <1> QED
    BY <1>2, <1>5, <1>6, <1>7, <1>8 DEF Works

\* The first has only itself to mind.
LEMMA AnalyzeQmmKeeps ==
  ASSUME PlanInv, AnalyzeQmm
  PROVE  PlanInv'
  <1>1. Analyze(Stages[1], Qmm) /\ stage = Stages[1]
    BY StagesAre DEF AnalyzeQmm, Analyze
  <1>2. 1 \in 1 .. 10 /\ 1 \in 1 .. 11
    OBVIOUS
  <1>3. Works(1) /\ plan'["qmm"] = Qmm /\ \A k \in Kinds \ {"qmm"} : plan'[k] = plan[k]
    BY <1>1, <1>2, AnalyzeWorks, StagesAre
  <1>4. Unreached' /\ RootsInv' /\ DispatchesPacked'
    BY <1>2, <1>3, WorksOnwards
  <1>5. declined'["qmm"] = {} /\ block' = block
    <2>1. declined["qmm"] = {}
      BY <1>1, <1>2, UnreachedAt DEF PlanInv
    <2> QED
      BY <2>1, <1>3 DEF Works, Kinds
  <1>6. QmmInv'
    <2>1. JointInv("qmm", Qmm, Qmm) /\ \A m \in Qmm : Linked(m)
      BY PlanIsFormed, QmmFinds
    <2>2. ASSUME NEW m \in plan'["qmm"]
          PROVE  StemsFrom("qmm", m)' /\ Linked(m)'
      BY <1>3, <1>5, <2>1, <2>2, StaysStemmed DEF JointInv
    <2>3. ASSUME NEW m \in plan'["qmm"], NEW v \in m.ops \ m.bound, NEW u \in Users(v)'
          PROVE  \E d \in plan'["qmm"] \cup declined'["qmm"] : u \in Own(d) /\ v \in d.ops
      BY <1>3, <1>5, <2>1, <2>3, StaysUsed DEF JointInv
    <2> QED
      BY <2>2, <2>3 DEF QmmInv, JointInv, Own
  <1>7. OneOwner'
    <2>1. \A l \in 1 .. 10 : Owned(plan, Stages[l]) = {} /\ (Stages[l] = "stacked" => Owned(plan, "pack") = {})
      BY <1>1, <1>2, UnreachedOwnsNothing
    <2>2. \A k \in Kinds : Owned(plan, k) = {}
      <3>1. \A l \in {1, 2, 3, 4, 5, 6, 7, 8, 9, 10} : l \in 1 .. 10
        OBVIOUS
      <3> QED
        BY <2>1, <3>1, StagesAre DEF Kinds
    <2> QED
      BY <1>3, <2>2, NewOwner DEF PlanInv, Kinds
  <1>8. /\ block' \in Blocks /\ plan' = [k \in Kinds |-> plan'[k]] /\ declined' = [k \in Kinds |-> declined'[k]]
        /\ MoeInv' /\ SdpaInv' /\ RaggedInv' /\ DotsInv' /\ ProjInv' /\ MlaInv' /\ GdnInv' /\ NormInv' /\ RopeInv'
    BY <1>2, <1>3, WorksAlone
  <1> QED
    BY <1>4, <1>6, <1>7, <1>8 DEF PlanInv

\* A dispatch may own what the quantized matmuls own.
LEMMA AnalyzeMoeKeeps ==
  ASSUME PlanInv, AnalyzeMoe
  PROVE  PlanInv'
  <1>1. Analyze(Stages[2], Moe) /\ stage = Stages[2]
    BY StagesAre DEF AnalyzeMoe, Analyze
  <1>2. 2 \in 1 .. 10 /\ 2 \in 1 .. 11
    OBVIOUS
  <1>3. Works(2) /\ plan'["moe"] = Moe /\ \A k \in Kinds \ {"moe"} : plan'[k] = plan[k]
    BY <1>1, <1>2, AnalyzeWorks, StagesAre
  <1>4. Unreached' /\ RootsInv' /\ DispatchesPacked'
    BY <1>2, <1>3, WorksOnwards
  <1>5. declined["qmm"] = {} /\ declined'["qmm"] = {} /\ block' = block /\ plan'["qmm"] = plan["qmm"]
    <2>1. declined["qmm"] = {}
      BY <1>1, <1>2, UnreachedAt DEF PlanInv
    <2> QED
      BY <2>1, <1>3 DEF Works, Kinds
  <1>6. MoeInv'
    <2>1. (\A m \in Moe : DispatchInv(m, plan["qmm"])) /\ \A c, m \in Moe : c.reads \cap m.ops = {}
      BY <1>5, PlanIsFormed, MoeFinds DEF PlanInv
    <2>2. RootsOf(plan'["qmm"] \cup declined'["qmm"]) = RootsOf(plan["qmm"])
      BY <1>5
    <2> QED
      BY <1>3, <1>5, <2>1, <2>2, StaysUsed DEF MoeInv, DispatchInv, Found, Own, RootsOf
  <1>7. OneOwner'
    <2>1. \A l \in 2 .. 10 : Owned(plan, Stages[l]) = {} /\ (Stages[l] = "stacked" => Owned(plan, "pack") = {})
      BY <1>1, <1>2, UnreachedOwnsNothing
    <2>2. \A k \in Kinds \ {"qmm"} : Owned(plan, k) = {}
      <3>1. \A l \in {2, 3, 4, 5, 6, 7, 8, 9, 10} : l \in 2 .. 10
        OBVIOUS
      <3> QED
        BY <2>1, <3>1, StagesAre DEF Kinds
    <2> QED
      BY <1>3, <2>2, NewOwner DEF PlanInv, Kinds
  <1>8. /\ block' \in Blocks /\ plan' = [k \in Kinds |-> plan'[k]] /\ declined' = [k \in Kinds |-> declined'[k]]
        /\ QmmInv' /\ SdpaInv' /\ RaggedInv' /\ DotsInv' /\ ProjInv' /\ MlaInv' /\ GdnInv' /\ NormInv' /\ RopeInv'
    BY <1>2, <1>3, WorksAlone
  <1> QED
    BY <1>4, <1>6, <1>7, <1>8 DEF PlanInv

\* An attention avoids the quantized matmuls, and is in no dispatch: were it, the
\* dispatch would hold its root.
LEMMA AnalyzeSdpaKeeps ==
  ASSUME PlanInv, AnalyzeSdpa
  PROVE  PlanInv'
  <1>1. Analyze(Stages[3], Sdpa) /\ stage = Stages[3]
    BY StagesAre DEF AnalyzeSdpa, Analyze
  <1>2. 3 \in 1 .. 10 /\ 3 \in 1 .. 11
    OBVIOUS
  <1>3. Works(3) /\ plan'["sdpa"] = Sdpa /\ \A k \in Kinds \ {"sdpa"} : plan'[k] = plan[k]
    BY <1>1, <1>2, AnalyzeWorks, StagesAre
  <1>4. Unreached' /\ RootsInv' /\ DispatchesPacked'
    BY <1>2, <1>3, WorksOnwards
  <1>5. /\ Sdpa \subseteq Found("sdpa") /\ ShutInv(Sdpa)
        /\ \A c \in Sdpa : Own(c) \cap Owned(plan, "qmm") = {}
    BY PlanIsFormed, SdpaFinds
  <1>6. SdpaInv'
    BY <1>3, <1>5, StaysUsed DEF Works, SdpaInv, ShutInv, Found, RootsOf, OpsOf
  <1>7. OneOwner'
    <2>1. \A l \in 3 .. 10 : Owned(plan, Stages[l]) = {} /\ (Stages[l] = "stacked" => Owned(plan, "pack") = {})
      BY <1>1, <1>2, UnreachedOwnsNothing
    <2>2. \A k \in Kinds \ {"qmm", "moe"} : Owned(plan, k) = {}
      <3>1. \A l \in {3, 4, 5, 6, 7, 8, 9, 10} : l \in 3 .. 10
        OBVIOUS
      <3> QED
        BY <2>1, <3>1, StagesAre DEF Kinds
    <2>3. ASSUME NEW c \in Sdpa, NEW m \in plan["moe"]
          PROVE  Own(c) \cap Own(m) = {}
      <3>1. /\ \E f \in Found("moe") : m.root = f.root
            /\ c.root \notin Own(m) /\ \A v \in m.ops : Users(v) \subseteq Own(m)
        BY <1>5 DEF PlanInv, MoeInv, DispatchInv
      <3>2. m.root \notin c.ops
        BY <1>5, <3>1, PlanIsFormed DEF BlockFormed, DispatchesFormed, Found
      <3>3. Linked(c) /\ c.root \in Ops /\ c.ops \subseteq Ops
        BY <1>5, PlanIsFormed, FoundIs DEF Linked, Tree, Own, Kinds
      <3> QED
        BY <3>1, <3>2, <3>3, PlanIsFormed, ChainUp
    <2>4. Owned(plan, "sdpa")' \cap Owned(plan, "moe") = {}
      BY <1>3, <2>3 DEF Owned, RootsOf, OpsOf, Own
    <2>5. Owned(plan, "sdpa")' \cap Owned(plan, "qmm") = {}
      BY <1>3, <1>5 DEF Owned, RootsOf, OpsOf, Own
    <2> QED
      BY <1>3, <2>2, <2>4, <2>5, NewOwner DEF PlanInv, Kinds
  <1>8. /\ block' \in Blocks /\ plan' = [k \in Kinds |-> plan'[k]] /\ declined' = [k \in Kinds |-> declined'[k]]
        /\ QmmInv' /\ MoeInv' /\ RaggedInv' /\ DotsInv' /\ ProjInv' /\ MlaInv' /\ GdnInv' /\ NormInv' /\ RopeInv'
    BY <1>2, <1>3, WorksAlone
  <1> QED
    BY <1>4, <1>6, <1>7, <1>8 DEF PlanInv


\* A ragged dot claims what is free, its second results too.
LEMMA AnalyzeRaggedKeeps ==
  ASSUME PlanInv, AnalyzeRagged
  PROVE  PlanInv'
  <1>1. Analyze(Stages[4], Ragged) /\ stage = Stages[4]
    BY StagesAre DEF AnalyzeRagged, Analyze
  <1>2. 4 \in 1 .. 10 /\ 4 \in 1 .. 11
    OBVIOUS
  <1>3. Works(4) /\ plan'["ragged"] = Ragged /\ \A k \in Kinds \ {"ragged"} : plan'[k] = plan[k]
    BY <1>1, <1>2, AnalyzeWorks, StagesAre
  <1>4. Unreached' /\ RootsInv' /\ DispatchesPacked'
    BY <1>2, <1>3, WorksOnwards
  <1>5. /\ \A m \in Ragged : \E f \in Found("ragged") :
             RaggedStems(m, f) /\ Own(f) \cap Taken = {} /\ m.bound \cap Taken = {}
        /\ ShutInv(Ragged)
        /\ \A c, m \in Ragged : c.reads \cap m.ops \subseteq m.bound
    BY PlanIsFormed, RaggedFinds
  <1>6. RaggedInv'
    <2>1. \A k \in {"qmm", "moe", "sdpa"} : Owned(plan, k)' \subseteq Taken
      BY <1>3 DEF Owned, Taken, Matches, RootsOf, OpsOf, Kinds
    <2>2. \A m \in plan'["ragged"] : \E f \in Found("ragged")' :
            /\ RaggedStems(m, f)'
            /\ \A k \in {"qmm", "moe", "sdpa"} : Own(f) \cap Owned(plan, k)' = {}
      BY <1>3, <1>5, <2>1 DEF Works, Found, RaggedStems
    <2> QED
      BY <1>3, <1>5, <2>2, StaysUsed DEF Works, RaggedInv, ShutInv, RootsOf, OpsOf, Own
  <1>7. OneOwner'
    <2>1. \A m \in Ragged : Own(m) \cap Taken = {}
      BY <1>5 DEF RaggedStems, Own
    <2>2. \A k \in Kinds : Owned(plan, "ragged")' \cap Owned(plan, k) = {}
      BY <1>3, <2>1, FreeIsUnowned DEF Owned
    <2> QED
      BY <1>3, <2>2, NewOwner DEF PlanInv, Kinds
  <1>8. /\ block' \in Blocks /\ plan' = [k \in Kinds |-> plan'[k]] /\ declined' = [k \in Kinds |-> declined'[k]]
        /\ QmmInv' /\ MoeInv' /\ SdpaInv' /\ DotsInv' /\ ProjInv' /\ MlaInv' /\ GdnInv' /\ NormInv' /\ RopeInv'
    BY <1>2, <1>3, WorksAlone
  <1> QED
    BY <1>4, <1>6, <1>7, <1>8 DEF PlanInv

\* The packs are made of the stacked dots.
LEMMA AnalyzeStackedDotKeeps ==
  ASSUME PlanInv, AnalyzeStackedDot
  PROVE  PlanInv'
  <1>1. stage = Stages[5] /\ stage' = After(Stages[5]) /\ block' = block /\ declined' = declined
    BY StagesAre DEF AnalyzeStackedDot
  <1>2. 5 \in 1 .. 10 /\ 5 \in 1 .. 11 /\ "stacked" \in Kinds /\ "pack" \in Kinds
    BY DEF Kinds
  <1> DEFINE M == {m \in Stacked : ~ m.packs}
  <1>3. PICK C \in Groups(M) :
          plan' = [plan EXCEPT !["stacked"] = Stacked \ UNION C, !["pack"] = {Packed(G) : G \in C}]
    BY DEF AnalyzeStackedDot
  <1> DEFINE P == {Packed(G) : G \in C}
  <1>4. plan = [k \in Kinds |-> plan[k]] /\ declined = [k \in Kinds |-> declined[k]]
    BY DEF PlanInv
  <1>5. plan' = [k \in Kinds |-> IF k = "stacked" THEN Stacked \ UNION C ELSE IF k = "pack" THEN P ELSE plan[k]]
    BY <1>2, <1>3, <1>4
  <1>6. /\ plan'["stacked"] = Stacked \ UNION C /\ plan'["pack"] = P
        /\ \A k \in Kinds \ {"stacked", "pack"} : plan'[k] = plan[k]
    BY <1>2, <1>5
  <1>7. Works(5)
    <2>1. plan' = [k \in Kinds |-> plan'[k]]
      BY <1>5
    <2> QED
      BY <2>1, <1>1, <1>4, <1>6, StagesAre DEF Works
  <1>8. Unreached' /\ RootsInv' /\ DispatchesPacked'
    BY <1>2, <1>7, WorksOnwards
  <1>9. /\ JointInv("stacked", Stacked, Stacked)
        /\ \A m, j \in Stacked : m.root = j.root => m = j
        /\ \A m \in Stacked : m \in MatchOf(block)
        /\ IsFiniteSet(Stacked)
        /\ \A m \in Stacked : Own(m) \cap Taken = {}
    BY PlanIsFormed, StackedFinds
  <1>10. /\ PacksInv(P) /\ \A p \in P : p.members \in C
         /\ \A p \in P : p.members \subseteq M
         /\ \A G \in C : Packed(G) \in P /\ Packed(G).members = G
         /\ RootsOf(P) \cup OpsOf(P) \subseteq RootsOf(M) \cup OpsOf(M)
    <2>1. IsFiniteSet(M) /\ M \subseteq MatchOf(block) /\ block.n \in Nat /\ C \in SUBSET C
      BY <1>9, FS_Subset, PlanIsFormed
    <2> HIDE DEF M
    <2> QED
      BY <2>1, <1>3, PacksFind
  <1>11. Dots' = Stacked
    <2>1. \A G \in C : G \subseteq Stacked
      <3>1. IsFiniteSet(M)
        BY <1>9, FS_Subset
      <3>2. \A G \in C : G \subseteq M
        BY <3>1, <1>3, GroupsIs
      <3> QED
        BY <3>2
    <2>2. UNION {p.members : p \in P} = UNION C
      BY <1>10
    <2>3. Dots' = (Stacked \ UNION C) \cup UNION {p.members : p \in P}
      BY <1>6 DEF Dots
    <2> QED
      BY <2>1, <2>2, <2>3
  <1>12. declined'["stacked"] = {}
    BY <1>1, <1>2, UnreachedAt DEF PlanInv
  <1>13. DotsInv'
    <2>1. ASSUME NEW m \in Dots'
          PROVE  StemsFrom("stacked", m)'
      BY <1>1, <1>9, <1>11, <2>1, StaysStemmed DEF JointInv
    <2>2. ASSUME NEW m \in Dots', NEW v \in m.ops \ m.bound, NEW u \in Users(v)'
          PROVE  \E d \in Dots' \cup declined'["stacked"] : u \in Own(d) /\ v \in d.ops
      BY <1>1, <1>9, <1>11, <2>2, StaysUsed DEF JointInv
    <2>3. JointInv("stacked", Dots, Dots \cup declined["stacked"])'
      BY <2>1, <2>2 DEF JointInv, Own
    <2>4. PacksInv(plan["pack"])'
      BY <1>6, <1>10 DEF PacksInv, PackShape, RootsOf, OpsOf
    <2> QED
      BY <1>9, <1>11, <2>3, <2>4 DEF DotsInv
  <1>14. OneOwner'
    <2>1. \A k \in Kinds : (RootsOf(Stacked) \cup OpsOf(Stacked)) \cap Owned(plan, k) = {}
      BY <1>9, FreeIsUnowned
    <2>2. /\ Owned(plan, "stacked")' \subseteq RootsOf(Stacked) \cup OpsOf(Stacked)
          /\ Owned(plan, "pack")' \subseteq RootsOf(Stacked) \cup OpsOf(Stacked)
      <3>1. RootsOf(M) \cup OpsOf(M) \subseteq RootsOf(Stacked) \cup OpsOf(Stacked)
        BY DEF RootsOf, OpsOf
      <3>2. Owned(plan, "pack")' = RootsOf(P) \cup OpsOf(P)
        BY <1>6 DEF Owned, RootsOf, OpsOf
      <3>3. Owned(plan, "stacked")' \subseteq RootsOf(Stacked) \cup OpsOf(Stacked)
        BY <1>6 DEF Owned, RootsOf, OpsOf
      <3> QED
        BY <1>10, <3>1, <3>2, <3>3
    <2>3. \A k \in Kinds \ {"stacked", "pack"} : Owned(plan, k)' = Owned(plan, k)
      BY <1>6 DEF Owned, RootsOf, OpsOf
    <2> SUFFICES ASSUME NEW j \in Kinds, NEW k \in Kinds, j # k, Owned(plan, j)' \cap Owned(plan, k)' # {}
                 PROVE  {j, k} \in {{"qmm", "moe"}, {"stacked", "pack"}}
      BY DEF OneOwner
    <2>4. CASE j \in {"stacked", "pack"} /\ k \in {"stacked", "pack"}
      BY <2>4
    <2>5. CASE j \in {"stacked", "pack"} /\ k \notin {"stacked", "pack"}
      BY <2>1, <2>2, <2>3, <2>5
    <2>6. CASE j \notin {"stacked", "pack"} /\ k \in {"stacked", "pack"}
      BY <2>1, <2>2, <2>3, <2>6
    <2>7. CASE j \notin {"stacked", "pack"} /\ k \notin {"stacked", "pack"}
      BY <2>3, <2>7 DEF PlanInv, OneOwner
    <2> QED
      BY <2>4, <2>5, <2>6, <2>7
  <1>15. /\ block' \in Blocks /\ plan' = [k \in Kinds |-> plan'[k]] /\ declined' = [k \in Kinds |-> declined'[k]]
         /\ QmmInv' /\ MoeInv' /\ SdpaInv' /\ RaggedInv' /\ ProjInv' /\ MlaInv' /\ GdnInv' /\ NormInv' /\ RopeInv'
    BY <1>2, <1>7, WorksAlone
  <1> QED
    BY <1>8, <1>13, <1>14, <1>15 DEF PlanInv

\* A projection claims roots that are free.
LEMMA AnalyzeProjPackKeeps ==
  ASSUME PlanInv, AnalyzeProjPack
  PROVE  PlanInv'
  <1>0. PICK C \in Groups(Proj) : \E worth \in SUBSET C : Analyze("proj", {Packed(G) : G \in worth})
    BY DEF AnalyzeProjPack
  <1>1. PICK worth \in SUBSET C : Analyze("proj", {Packed(G) : G \in worth})
    BY <1>0
  <1> DEFINE P == {Packed(G) : G \in worth}
  <1>2. 6 \in 1 .. 10 /\ 6 \in 1 .. 11 /\ "proj" \in Kinds
    BY DEF Kinds
  <1>3. Works(6) /\ plan'["proj"] = P /\ \A k \in Kinds \ {"proj"} : plan'[k] = plan[k]
    BY <1>1, <1>2, AnalyzeWorks, StagesAre
  <1>4. Unreached' /\ RootsInv' /\ DispatchesPacked'
    BY <1>2, <1>3, WorksOnwards
  <1>5. /\ PacksInv(P) /\ \A p \in P : p.members \subseteq Proj
        /\ RootsOf(P) \cup OpsOf(P) \subseteq RootsOf(Proj) \cup OpsOf(Proj)
    <2>1. IsFiniteSet(Proj) /\ Proj \subseteq MatchOf(block) /\ block.n \in Nat
      <3>1. IsFiniteSet(Found("proj"))
        BY <1>2, PlanIsFormed DEF BlockFormed, MatchesFormed, Found
      <3>2. Proj \subseteq Found("proj")
        BY DEF Proj
      <3>3. \A m \in Found("proj") : m \in MatchOf(block)
        BY <1>2, PlanIsFormed, FoundIs
      <3> QED
        BY <3>1, <3>2, <3>3, FS_Subset, PlanIsFormed
    <2> QED
      BY <2>1, PacksFind
  <1>6. Proj \subseteq Found("proj") /\ OpsOf(Proj) = {} /\ RootsOf(Proj) \cap Taken = {}
    <2>1. OpsOf(Found("proj")) = {}
      BY PlanIsFormed DEF BlockFormed, DotsFormed, Found
    <2> QED
      BY <2>1 DEF Proj, OpsOf, RootsOf
  <1>7. ProjInv'
    <2>1. PacksInv(plan["proj"])'
      BY <1>3, <1>5 DEF PacksInv, PackShape, RootsOf, OpsOf
    <2>2. \A p \in plan'["proj"] : p.members \subseteq Found("proj")'
      BY <1>3, <1>5, <1>6 DEF Works, Found
    <2> QED
      BY <2>1, <2>2 DEF ProjInv
  <1>8. OneOwner'
    <2>1. \A k \in Kinds : Owned(plan, k) \subseteq Taken
      BY DEF Owned, Taken, Matches, RootsOf, OpsOf
    <2>2. Owned(plan, "proj")' = RootsOf(P) \cup OpsOf(P)
      BY <1>3 DEF Owned, RootsOf, OpsOf
    <2>3. \A k \in Kinds : Owned(plan, "proj")' \cap Owned(plan, k) = {}
      BY <2>1, <2>2, <1>5, <1>6
    <2> QED
      BY <1>3, <2>3, NewOwner DEF PlanInv, Kinds
  <1>9. /\ block' \in Blocks /\ plan' = [k \in Kinds |-> plan'[k]] /\ declined' = [k \in Kinds |-> declined'[k]]
        /\ QmmInv' /\ MoeInv' /\ SdpaInv' /\ RaggedInv' /\ DotsInv' /\ MlaInv' /\ GdnInv' /\ NormInv' /\ RopeInv'
    BY <1>2, <1>3, WorksAlone
  <1> QED
    BY <1>4, <1>7, <1>8, <1>9 DEF PlanInv


\* Attentions and delta steps, all of a match or nothing.
LEMMA ChainsWork ==
  ASSUME PlanInv, NEW i \in {7, 8}, NEW M, M \subseteq {m \in Found(Stages[i]) : Free(m)},
         AnalyzeChains(Stages[i], ChainsKept(M))
  PROVE  LET A == WithoutLiteral(Complete(ChainsKept(M)))
         IN /\ Works(i) /\ plan'[Stages[i]] = A /\ OneOwner'
            /\ JointInv(Stages[i], plan[Stages[i]], plan[Stages[i]] \cup declined[Stages[i]])'
            /\ \A a \in A : \E m \in M : /\ a.root = m.root /\ a.bound = m.bound
                                         /\ a.ops = m.ops \ block.const
            /\ \A a, c \in A : a.root \notin c.ops
  <1> DEFINE k == Stages[i]
             K == ChainsKept(M)
             A == WithoutLiteral(Complete(K))
  <1>1. i \in 1 .. 10 /\ k \in {"mla", "gdn"} /\ k \in Kinds
    BY StagesAre DEF Kinds
  <1>2. /\ stage = k /\ stage' = After(k) /\ block' = block
        /\ plan' = [plan EXCEPT ![k] = A] /\ declined' = [declined EXCEPT ![k] = K \ Complete(K)]
    BY DEF AnalyzeChains
  <1>3. /\ JointInv(k, A, A \cup (K \ Complete(K)))
        /\ \A a \in A : \E m \in M : /\ a.root = m.root /\ a.bound = m.bound
                                     /\ a.ops = m.ops \ block.const
        /\ \A a, c \in A : a.root \notin c.ops
    <2>1. M \subseteq Found(k)
      OBVIOUS
    <2> HIDE DEF k
    <2> QED
      BY <1>1, <2>1, PlanIsFormed, ChainsFind
  <1> HIDE DEF A, K, k
  <1>4. plan = [j \in Kinds |-> plan[j]] /\ declined = [j \in Kinds |-> declined[j]]
    BY DEF PlanInv
  <1>5. /\ plan' = [j \in Kinds |-> IF j = k THEN A ELSE plan[j]]
        /\ declined' = [j \in Kinds |-> IF j = k THEN K \ Complete(K) ELSE declined[j]]
    BY <1>1, <1>2, <1>4
  <1>6. /\ plan'[k] = A /\ declined'[k] = K \ Complete(K)
        /\ \A j \in Kinds \ {k} : plan'[j] = plan[j] /\ declined'[j] = declined[j]
    BY <1>1, <1>5
  <1>7. Works(i)
    <2>1. plan' = [j \in Kinds |-> plan'[j]] /\ declined' = [j \in Kinds |-> declined'[j]]
      BY <1>5
    <2>2. \A j \in Kinds : j # k \/ j \notin {"mla", "gdn"} => declined'[j] = declined[j]
      BY <1>1, <1>6
    <2> QED
      BY <2>1, <2>2, <1>2, <1>6 DEF Works, k
  <1>8. JointInv(k, plan[k], plan[k] \cup declined[k])'
    <2>1. ASSUME NEW m \in plan'[k]
          PROVE  StemsFrom(k, m)'
      BY <1>2, <1>3, <1>6, <2>1, StaysStemmed DEF JointInv
    <2>2. ASSUME NEW m \in plan'[k], NEW v \in m.ops \ m.bound, NEW u \in Users(v)'
          PROVE  \E d \in plan'[k] \cup declined'[k] : u \in Own(d) /\ v \in d.ops
      BY <1>2, <1>3, <1>6, <2>2, StaysUsed DEF JointInv
    <2> QED
      BY <2>1, <2>2 DEF JointInv, Own
  <1>9. OneOwner'
    <2>1. \A a \in A : Own(a) \cap Taken = {}
      BY <1>3 DEF Free, Own
    <2>2. \A j \in Kinds : (RootsOf(A) \cup OpsOf(A)) \cap Owned(plan, j) = {}
      BY <2>1, FreeIsUnowned
    <2>3. Owned(plan, k)' = RootsOf(A) \cup OpsOf(A)
      BY <1>6 DEF Owned, RootsOf, OpsOf, k
    <2> QED
      BY <1>1, <1>6, <2>2, <2>3, NewOwner DEF PlanInv
  <1> QED
    BY <1>3, <1>6, <1>7, <1>8, <1>9 DEF A, K, k

\* A latent attention claims what is free.
LEMMA AnalyzeMlaKeeps ==
  ASSUME PlanInv, AnalyzeMla
  PROVE  PlanInv'
  <1> DEFINE M == {m \in Found("mla") : Free(m)}
  <1>1. AnalyzeChains(Stages[7], ChainsKept(M)) /\ M \subseteq {m \in Found(Stages[7]) : Free(m)}
    BY StagesAre DEF AnalyzeMla
  <1>2. /\ Works(7) /\ OneOwner'
        /\ JointInv(Stages[7], plan[Stages[7]], plan[Stages[7]] \cup declined[Stages[7]])'
    <2> HIDE DEF M
    <2> QED
      BY <1>1, ChainsWork
  <1>3. MlaInv'
    BY <1>2, StagesAre DEF MlaInv
  <1>4. 7 \in 1 .. 10
    OBVIOUS
  <1>5. Unreached' /\ RootsInv' /\ DispatchesPacked'
    BY <1>2, <1>4, WorksOnwards
  <1>6. /\ block' \in Blocks /\ plan' = [k \in Kinds |-> plan'[k]] /\ declined' = [k \in Kinds |-> declined'[k]]
        /\ QmmInv' /\ MoeInv' /\ SdpaInv' /\ RaggedInv' /\ DotsInv' /\ ProjInv' /\ GdnInv' /\ NormInv' /\ RopeInv'
    BY <1>2, <1>4, WorksAlone
  <1> QED
    BY <1>2, <1>3, <1>5, <1>6 DEF PlanInv

\* A delta step too, and its new state is read after its root.
LEMMA AnalyzeGdnKeeps ==
  ASSUME PlanInv, AnalyzeGdn
  PROVE  PlanInv'
  <1> DEFINE M == {m \in Found("gdn") : Free(m) /\ StepOrdered(m)}
             A == WithoutLiteral(Complete(ChainsKept(M)))
  <1>1. AnalyzeChains(Stages[8], ChainsKept(M)) /\ M \subseteq {m \in Found(Stages[8]) : Free(m)}
    BY StagesAre DEF AnalyzeGdn
  <1>2. /\ Works(8) /\ OneOwner' /\ plan'["gdn"] = A
        /\ JointInv(Stages[8], plan[Stages[8]], plan[Stages[8]] \cup declined[Stages[8]])'
        /\ \A a \in A : \E m \in M : /\ a.root = m.root /\ a.bound = m.bound
                                     /\ a.ops = m.ops \ block.const
        /\ \A a, c \in A : a.root \notin c.ops
    <2> HIDE DEF M
    <2>1. /\ Works(8) /\ OneOwner' /\ plan'[Stages[8]] = A
          /\ JointInv(Stages[8], plan[Stages[8]], plan[Stages[8]] \cup declined[Stages[8]])'
          /\ \A a \in A : \E m \in M : /\ a.root = m.root /\ a.bound = m.bound
                                       /\ a.ops = m.ops \ block.const
          /\ \A a, c \in A : a.root \notin c.ops
      BY <1>1, ChainsWork
    <2> HIDE DEF A
    <2> QED
      BY <2>1, StagesAre
  <1>3. GdnInv'
    <2>1. JointInv("gdn", plan["gdn"], plan["gdn"] \cup declined["gdn"])'
      BY <1>2, StagesAre
    <2>2. ASSUME NEW a \in A, NEW v \in a.bound, NEW u \in Users(v) \ a.ops
          PROVE  u = TheReturn \/ u >= a.root
      <3>1. PICK m \in M : a.root = m.root /\ a.bound = m.bound /\ a.ops = m.ops \ block.const
        BY <1>2
      <3>2. CASE u \notin m.ops
        BY <2>2, <3>1, <3>2 DEF StepOrdered
      <3>3. CASE u \in m.ops
        <4>1. u \in block.const
          BY <3>1, <3>3, <2>2
        <4>2. block.reads[u] = {} /\ u \in 1 .. block.n /\ block.n \in Nat
          BY <4>1, PlanIsFormed DEF UsesFormed
        <4>3. u = TheReturn
          BY <4>2, <2>2 DEF Users
        <4> QED
          BY <4>3
      <3> QED
        BY <3>2, <3>3
    <2> HIDE DEF A
    <2>3. \A a \in plan'["gdn"] : \A v \in a.bound : \A u \in Users(v)' \ a.ops : u = TheReturn \/ u >= a.root
      BY <1>2, <2>2, StaysUsed DEF Works
    <2> QED
      BY <1>2, <2>1, <2>3 DEF GdnInv, TheReturn
  <1>4. 8 \in 1 .. 10
    OBVIOUS
  <1>5. Unreached' /\ RootsInv' /\ DispatchesPacked'
    BY <1>2, <1>4, WorksOnwards
  <1>6. /\ block' \in Blocks /\ plan' = [k \in Kinds |-> plan'[k]] /\ declined' = [k \in Kinds |-> declined'[k]]
        /\ QmmInv' /\ MoeInv' /\ SdpaInv' /\ RaggedInv' /\ DotsInv' /\ ProjInv' /\ MlaInv' /\ NormInv' /\ RopeInv'
    BY <1>2, <1>4, WorksAlone
  <1> QED
    BY <1>2, <1>3, <1>5, <1>6 DEF PlanInv

\* A norm claims what is free but for constants, and absorbs none.
LEMMA AnalyzeNormKeeps ==
  ASSUME PlanInv, AnalyzeNorm
  PROVE  PlanInv'
  <1> DEFINE M == {m \in Found("norm") : ({m.root} \cup (m.ops \ Literal)) \cap Taken = {}}
             A == Norms(M)
  <1>1. Analyze(Stages[9], A) /\ M \subseteq Found("norm")
    BY StagesAre DEF AnalyzeNorm
  <1>2. 9 \in 1 .. 10
    OBVIOUS
  <1>3. /\ \A a \in A : StemsFrom("norm", a)
        /\ AloneInv(A)
        /\ \A a \in A : \E m \in M : a.root = m.root /\ a.ops = m.ops \ block.const
    <2> HIDE DEF M
    <2> QED
      BY <1>1, PlanIsFormed, NormFinds
  <1>4. \A a \in A : Own(a) \cap Taken = {}
    BY <1>3 DEF Own, Literal
  <1> HIDE DEF A
  <1>5. Works(9) /\ plan'["norm"] = A /\ \A k \in Kinds \ {"norm"} : plan'[k] = plan[k]
    BY <1>1, <1>2, AnalyzeWorks, StagesAre
  <1>6. Unreached' /\ RootsInv' /\ DispatchesPacked'
    BY <1>2, <1>5, WorksOnwards
  <1>7. NormInv'
    <2>1. block' = block
      BY <1>5 DEF Works
    <2>2. ASSUME NEW m \in plan'["norm"]
          PROVE  StemsFrom("norm", m)'
      BY <1>3, <1>5, <2>1, <2>2, StaysStemmed
    <2> QED
      BY <1>3, <1>5, <2>1, <2>2, StaysUsed DEF NormInv, AloneInv, Own
  <1>8. OneOwner'
    <2>1. \A k \in Kinds : Owned(plan, "norm")' \cap Owned(plan, k) = {}
      BY <1>4, <1>5, FreeIsUnowned DEF Owned
    <2> QED
      BY <1>5, <2>1, NewOwner DEF PlanInv, Kinds
  <1>9. /\ block' \in Blocks /\ plan' = [k \in Kinds |-> plan'[k]] /\ declined' = [k \in Kinds |-> declined'[k]]
        /\ QmmInv' /\ MoeInv' /\ SdpaInv' /\ RaggedInv' /\ DotsInv' /\ ProjInv' /\ MlaInv' /\ GdnInv' /\ RopeInv'
    BY <1>2, <1>5, WorksAlone
  <1> QED
    BY <1>6, <1>7, <1>8, <1>9 DEF PlanInv

\* A rotary embedding claims what is free.
LEMMA AnalyzeRopeKeeps ==
  ASSUME PlanInv, AnalyzeRope
  PROVE  PlanInv'
  <1>1. Analyze(Stages[10], Rope)
    BY StagesAre DEF AnalyzeRope
  <1>2. 10 \in 1 .. 10
    OBVIOUS
  <1>3. /\ Rope \subseteq Found("rope") /\ AloneInv(Rope)
        /\ \A c, m \in Rope : c # m => Own(c) \cap Own(m) = {}
        /\ \A m \in Rope : Own(m) \cap Taken = {}
    BY PlanIsFormed, RopeFinds
  <1>4. Works(10) /\ plan'["rope"] = Rope /\ \A k \in Kinds \ {"rope"} : plan'[k] = plan[k]
    BY <1>1, <1>2, AnalyzeWorks, StagesAre
  <1>5. Unreached' /\ RootsInv' /\ DispatchesPacked'
    BY <1>2, <1>4, WorksOnwards
  <1>6. RopeInv'
    BY <1>3, <1>4, StaysUsed DEF Works, RopeInv, AloneInv, Own, Found
  <1>7. OneOwner'
    <2>1. \A k \in Kinds : Owned(plan, "rope")' \cap Owned(plan, k) = {}
      BY <1>3, <1>4, FreeIsUnowned DEF Owned
    <2> QED
      BY <1>4, <2>1, NewOwner DEF PlanInv, Kinds
  <1>8. /\ block' \in Blocks /\ plan' = [k \in Kinds |-> plan'[k]] /\ declined' = [k \in Kinds |-> declined'[k]]
        /\ QmmInv' /\ MoeInv' /\ SdpaInv' /\ RaggedInv' /\ DotsInv' /\ ProjInv' /\ MlaInv' /\ GdnInv' /\ NormInv'
    BY <1>2, <1>4, WorksAlone
  <1> QED
    BY <1>5, <1>6, <1>7, <1>8 DEF PlanInv


---------------------------------------------------------------------------
(* Each builder keeps it as well.                                          *)

\* What a builder may do: drop quantized matmuls, stacked dots, packs (whose
\* dots it gives back), joint projections and dispatches.
Builds ==
  /\ stage' \in Builders \cup {"plain"} /\ block' = block
  /\ plan' = [k \in Kinds |-> plan'[k]] /\ declined' = [k \in Kinds |-> declined'[k]]
  /\ \A k \in Kinds \ {"stacked"} : plan'[k] \subseteq plan[k]
  /\ \A k \in {"sdpa", "ragged", "mla", "gdn", "norm", "rope"} :
       plan'[k] = plan[k] /\ declined'[k] = declined[k]
  /\ plan'["qmm"] \cup declined'["qmm"] = plan["qmm"] \cup declined["qmm"]
  /\ Dots' \subseteq Dots
  /\ Dots \cup declined["stacked"] \subseteq Dots' \cup declined'["stacked"]

\* What a builder may do keeps every part but the root maps'.
LEMMA BuildsKeep ==
  ASSUME PlanInv, Builds, RootsInv', DispatchesPacked'
  PROVE  PlanInv'
  <1>1. block' = block /\ block' \in Blocks /\ plan' = [k \in Kinds |-> plan'[k]] /\ declined' = [k \in Kinds |-> declined'[k]]
    BY DEF Builds, PlanInv
  <1>2. Unreached'
    <2>1. \A i \in 1 .. 11 : Stages[i] \notin Builders \cup {"plain"}
      <3>1. 1 .. 11 = {1, 2, 3, 4, 5, 6, 7, 8, 9, 10, 11}
        OBVIOUS
      <3>2. \A i \in {1, 2, 3, 4, 5, 6, 7, 8, 9, 10, 11} : Stages[i] # "plain"
        BY DEF Stages
      <3> QED
        BY <3>1, <3>2, StagesAre
    <2>2. stage' \in Builders \cup {"plain"}
      BY DEF Builds
    <2> QED
      BY <2>1, <2>2 DEF Unreached
  <1>3. \A k \in Kinds \ {"stacked"} : plan'[k] \subseteq plan[k]
    BY DEF Builds
  <1>4. \A k \in {"sdpa", "ragged", "mla", "gdn", "norm", "rope"} : plan'[k] = plan[k] /\ declined'[k] = declined[k]
    BY DEF Builds
  <1>5. QmmInv'
    <2>1. plan'["qmm"] \subseteq plan["qmm"]
      BY <1>3 DEF Kinds
    <2>2. plan["qmm"] \cup declined["qmm"] \subseteq plan'["qmm"] \cup declined'["qmm"]
      BY DEF Builds
    <2> QED
      BY <1>1, <2>1, <2>2, QmmKept DEF PlanInv
  <1>6. MoeInv'
    <2>1. plan'["moe"] \subseteq plan["moe"]
      BY <1>3 DEF Kinds
    <2>2. RootsOf(plan'["qmm"] \cup declined'["qmm"]) = RootsOf(plan["qmm"] \cup declined["qmm"])
      BY DEF Builds
    <2> QED
      BY <1>1, <2>1, <2>2, MoeKept DEF PlanInv
  <1>7. SdpaInv'
    BY <1>1, <1>4, SdpaKept DEF PlanInv
  <1>8. RaggedInv'
    <2>1. \A k \in {"qmm", "moe", "sdpa"} : plan'[k] \subseteq plan[k]
      BY <1>3 DEF Kinds
    <2> QED
      BY <1>1, <1>4, <2>1, RaggedKept DEF PlanInv
  <1>9. DotsInv'
    <2>1. plan'["pack"] \subseteq plan["pack"]
      BY <1>3 DEF Kinds
    <2>2. Dots' \subseteq Dots /\ Dots \cup declined["stacked"] \subseteq Dots' \cup declined'["stacked"]
      BY DEF Builds
    <2> QED
      BY <1>1, <2>1, <2>2, DotsKept DEF PlanInv
  <1>10. ProjInv'
    <2>1. plan'["proj"] \subseteq plan["proj"]
      BY <1>3 DEF Kinds
    <2> QED
      BY <1>1, <2>1, ProjKept DEF PlanInv
  <1>11. MlaInv'
    BY <1>1, <1>4, ChainKept DEF PlanInv
  <1>12. GdnInv'
    BY <1>1, <1>4, GdnKept DEF PlanInv
  <1>13. NormInv'
    BY <1>1, <1>4, NormKept DEF PlanInv
  <1>14. RopeInv'
    BY <1>1, <1>4, RopeKept DEF PlanInv
  <1>15. OneOwner'
    <2>1. ASSUME NEW k \in Kinds, NEW m \in plan'[k]
          PROVE  Own(m) \subseteq FamOwn(k)
      <3>1. CASE k # "stacked"
        BY <1>3, <2>1, <3>1, OwnIsOfFamily
      <3>2. CASE k = "stacked"
        <4>1. m \in Dots
          BY <2>1, <3>2 DEF Dots, Builds
        <4>2. CASE m \in plan["stacked"]
          BY <3>2, <4>2, OwnIsOfFamily
        <4>3. CASE m \notin plan["stacked"]
          <5>1. PICK p \in plan["pack"] : m \in p.members
            BY <4>1, <4>3 DEF Dots
          <5>2. Own(m) \subseteq FamOwn("pack")
            BY <5>1, PackIs, OwnIsOfFamily DEF Kinds
          <5> QED
            BY <3>2, <5>2 DEF FamOwn, Family
        <4> QED
          BY <4>2, <4>3
      <3> QED
        BY <3>1, <3>2
    <2>2. \A k \in Kinds : Owned(plan, k)' \subseteq FamOwn(k)
      BY <2>1 DEF Owned, RootsOf, OpsOf, Own
    <2> SUFFICES ASSUME NEW j \in Kinds, NEW k \in Kinds, j # k, Owned(plan, j)' \cap Owned(plan, k)' # {}
                 PROVE  {j, k} \in {{"qmm", "moe"}, {"stacked", "pack"}}
      BY DEF OneOwner
    <2>3. Family(j) = Family(k) \/ {j, k} = {"qmm", "moe"}
      BY <2>2, OneFamily
    <2>4. Family(j) = Family(k) => {j, k} = {"stacked", "pack"}
      BY DEF Family
    <2> QED
      BY <2>3, <2>4
  <1> QED
    BY <1>1, <1>2, <1>5, <1>6, <1>7, <1>8, <1>9, <1>10, <1>11, <1>12, <1>13, <1>14, <1>15 DEF PlanInv

\* `skip` and the root maps begin anew, or nothing has changed.
LEMMA RebuiltRoots ==
  ASSUME Rebuild(plan')
  PROVE  RootsInv'
  <1> DEFINE Of(k) == {[kind |-> k, root |-> m.root] : m \in Emitted(plan', k)}
  <1>0. /\ skip' = OpsOf(UNION {plan'[k] : k \in Kinds})
        /\ UNION {Of(k) : k \in Kinds} \subseteq roots'
    BY DEF Rebuild
  <1>1. \A k \in Kinds : \A m \in Emitted(plan', k) : [kind |-> k, root |-> m.root] \in roots'
    <2> SUFFICES ASSUME NEW k \in Kinds, NEW m \in Emitted(plan', k)
                 PROVE  [kind |-> k, root |-> m.root] \in roots'
      OBVIOUS
    <2>1. [kind |-> k, root |-> m.root] \in Of(k)
      OBVIOUS
    <2> HIDE DEF Of
    <2> QED
      BY <1>0, <2>1
  <1>2. \A k \in Kinds : Emitted(plan, k)' = Emitted(plan', k)
    BY DEF Emitted, TakenOver
  <1>3. OpsOf(Matches)' = OpsOf(UNION {plan'[k] : k \in Kinds})
    BY DEF OpsOf, Matches
  <1>4. skip' = OpsOf(Matches)' /\ \A k \in Kinds : \A m \in Emitted(plan, k)' : [kind |-> k, root |-> m.root] \in roots'
    BY <1>0, <1>1, <1>2, <1>3
  <1> QED
    BY <1>4 DEF RootsInv

\* ... nothing has changed.
LEMMA SameRoots ==
  ASSUME RootsInv, stage \in Builders, plan' = plan, skip' = skip, roots' = roots
  PROVE  RootsInv'
  BY DEF RootsInv, Matches, Emitted, TakenOver, OpsOf

\* The last analysis makes `skip` and the root maps those of the plan.
LEMMA AnalyzedKeeps ==
  ASSUME PlanInv, Analyzed
  PROVE  PlanInv'
  <1>1. plan' = plan /\ declined' = declined /\ block' = block /\ stage' \in {"plain", "buildQmm"} /\ Rebuild(plan)
    BY DEF Analyzed
  <1>2. RootsInv'
    BY <1>1, RebuiltRoots
  <1>3. DispatchesPacked'
    BY <1>1 DEF DispatchesPacked
  <1>4. Builds
    BY <1>1 DEF Builds, Builders, Dots, PlanInv
  <1> QED
    BY <1>2, <1>3, <1>4, BuildsKeep

\* A quantized matmul that is dropped is still remembered.
LEMMA BuildQmmPacksKeeps ==
  ASSUME PlanInv, BuildQmmPacks
  PROVE  PlanInv'
  <1>1. PICK D \in SUBSET plan["qmm"] :
          /\ plan' = [plan EXCEPT !["qmm"] = @ \ D]
          /\ declined' = [declined EXCEPT !["qmm"] = @ \cup D]
    BY DEF BuildQmmPacks
  <1>2. stage' = "buildStacked" /\ block' = block /\ Rebuild(plan')
    BY DEF BuildQmmPacks
  <1>3. plan = [k \in Kinds |-> plan[k]] /\ declined = [k \in Kinds |-> declined[k]] /\ "qmm" \in Kinds
    BY DEF PlanInv, Kinds
  <1>4. /\ plan' = [k \in Kinds |-> IF k = "qmm" THEN plan["qmm"] \ D ELSE plan[k]]
        /\ declined' = [k \in Kinds |-> IF k = "qmm" THEN declined["qmm"] \cup D ELSE declined[k]]
    BY <1>1, <1>3
  <1>5. plan' = [k \in Kinds |-> plan'[k]] /\ declined' = [k \in Kinds |-> declined'[k]]
    BY <1>4
  <1>6. /\ plan'["qmm"] = plan["qmm"] \ D /\ declined'["qmm"] = declined["qmm"] \cup D
        /\ \A k \in Kinds \ {"qmm"} : plan'[k] = plan[k] /\ declined'[k] = declined[k]
    BY <1>3, <1>4
  <1>7. Builds
    BY <1>2, <1>5, <1>6 DEF Builds, Builders, Dots, Kinds
  <1>8. RootsInv' /\ DispatchesPacked'
    BY <1>2, RebuiltRoots DEF DispatchesPacked
  <1> QED
    BY <1>7, <1>8, BuildsKeep

\* A pack gives its members back.
LEMMA BuildStackedPacksKeeps ==
  ASSUME PlanInv, BuildStackedPacks
  PROVE  PlanInv'
  <1>0. stage = "buildStacked" /\ stage' = "buildProj" /\ block' = block
    BY DEF BuildStackedPacks
  <1>a. PICK D \in SUBSET {m \in plan["stacked"] : m.packs} : \E E \in SUBSET plan["pack"] :
          /\ plan' = [plan EXCEPT !["stacked"] = (@ \ D) \cup UNION {m.members : m \in E},
                                  !["pack"] = @ \ E]
          /\ declined' = [declined EXCEPT !["stacked"] = @ \cup D]
          /\ IF D \cup E # {} THEN Rebuild(plan') ELSE UNCHANGED <<skip, roots>>
    BY DEF BuildStackedPacks
  <1>b. PICK E \in SUBSET plan["pack"] :
          /\ plan' = [plan EXCEPT !["stacked"] = (@ \ D) \cup UNION {m.members : m \in E},
                                  !["pack"] = @ \ E]
          /\ declined' = [declined EXCEPT !["stacked"] = @ \cup D]
          /\ IF D \cup E # {} THEN Rebuild(plan') ELSE UNCHANGED <<skip, roots>>
    BY <1>a
  <1> DEFINE back == (plan["stacked"] \ D) \cup UNION {m.members : m \in E}
  <1>3. plan = [k \in Kinds |-> plan[k]] /\ declined = [k \in Kinds |-> declined[k]]
        /\ "stacked" \in Kinds /\ "pack" \in Kinds
    BY DEF PlanInv, Kinds
  <1>4. /\ plan' = [k \in Kinds |-> IF k = "stacked" THEN back
                                    ELSE IF k = "pack" THEN plan["pack"] \ E ELSE plan[k]]
        /\ declined' = [k \in Kinds |-> IF k = "stacked" THEN declined["stacked"] \cup D ELSE declined[k]]
    BY <1>b, <1>3
  <1>5. plan' = [k \in Kinds |-> plan'[k]] /\ declined' = [k \in Kinds |-> declined'[k]]
    BY <1>4
  <1>6. /\ plan'["stacked"] = back /\ plan'["pack"] = plan["pack"] \ E
        /\ declined'["stacked"] = declined["stacked"] \cup D
        /\ \A k \in Kinds \ {"stacked", "pack"} : plan'[k] = plan[k]
        /\ \A k \in Kinds \ {"stacked"} : declined'[k] = declined[k]
    BY <1>3, <1>4
  <1>7. Builds
    <2>1. Dots' = back \cup UNION {p.members : p \in plan["pack"] \ E}
      BY <1>6 DEF Dots
    <2>2. Dots' \subseteq Dots
      BY <2>1 DEF Dots
    <2>3. Dots \subseteq Dots' \cup D
      BY <2>1 DEF Dots
    <2> QED
      BY <1>0, <1>5, <1>6, <2>2, <2>3 DEF Builds, Builders, Kinds
  <1>8. RootsInv'
    <2>1. CASE D \cup E # {}
      BY <2>1, <1>b, RebuiltRoots
    <2>2. CASE D \cup E = {}
      <3>1. plan' = plan
        BY <2>2, <1>3, <1>4
      <3>2. skip' = skip /\ roots' = roots
        BY <2>2, <1>b
      <3> QED
        BY <3>1, <3>2, <1>0, SameRoots DEF PlanInv, Builders
    <2> QED
      BY <2>1, <2>2
  <1>9. DispatchesPacked'
    BY <1>0 DEF DispatchesPacked
  <1> QED
    BY <1>7, <1>8, <1>9, BuildsKeep

\* A joint projection leaves its dots to be run one by one.
LEMMA BuildProjPacksKeeps ==
  ASSUME PlanInv, BuildProjPacks
  PROVE  PlanInv'
  <1>0. stage = "buildProj" /\ stage' = "verify" /\ block' = block
    BY DEF BuildProjPacks
  <1>1. PICK D \in SUBSET plan["proj"] :
          /\ plan' = [plan EXCEPT !["proj"] = @ \ D]
          /\ declined' = [declined EXCEPT !["proj"] = @ \cup D]
          /\ IF D # {} THEN Rebuild(plan') ELSE UNCHANGED <<skip, roots>>
    BY DEF BuildProjPacks
  <1>3. plan = [k \in Kinds |-> plan[k]] /\ declined = [k \in Kinds |-> declined[k]] /\ "proj" \in Kinds
    BY DEF PlanInv, Kinds
  <1>4. /\ plan' = [k \in Kinds |-> IF k = "proj" THEN plan["proj"] \ D ELSE plan[k]]
        /\ declined' = [k \in Kinds |-> IF k = "proj" THEN declined["proj"] \cup D ELSE declined[k]]
    BY <1>1, <1>3
  <1>5. plan' = [k \in Kinds |-> plan'[k]] /\ declined' = [k \in Kinds |-> declined'[k]]
    BY <1>4
  <1>6. /\ plan'["proj"] = plan["proj"] \ D
        /\ \A k \in Kinds \ {"proj"} : plan'[k] = plan[k] /\ declined'[k] = declined[k]
    BY <1>3, <1>4
  <1>7. Builds
    BY <1>0, <1>5, <1>6 DEF Builds, Builders, Dots, Kinds
  <1>8. RootsInv'
    <2>1. CASE D # {}
      BY <2>1, <1>1, RebuiltRoots
    <2>2. CASE D = {}
      <3>1. plan' = plan
        BY <2>2, <1>3, <1>4
      <3>2. skip' = skip /\ roots' = roots
        BY <2>2, <1>1
      <3> QED
        BY <3>1, <3>2, <1>0, SameRoots DEF PlanInv, Builders
    <2> QED
      BY <2>1, <2>2
  <1>9. DispatchesPacked'
    BY <1>0 DEF DispatchesPacked
  <1> QED
    BY <1>7, <1>8, <1>9, BuildsKeep

\* What stays of the dispatches has taken over nothing that was dropped.
LEMMA VerifyMoeKeeps ==
  ASSUME PlanInv, VerifyMoe
  PROVE  PlanInv'
  <1>0. stage = "verify" /\ stage' = "lower" /\ block' = block
    BY DEF VerifyMoe
  <1> DEFINE gone(D) == D \cup {m \in plan["moe"] : \E q \in declined["qmm"] : q.root \in m.over}
  <1>1. PICK D \in SUBSET plan["moe"] :
          /\ plan' = [plan EXCEPT !["moe"] = @ \ gone(D)]
          /\ declined' = [declined EXCEPT !["moe"] = @ \cup gone(D)]
          /\ IF gone(D) # {} THEN Rebuild(plan') ELSE UNCHANGED <<skip, roots>>
    BY DEF VerifyMoe
  <1>3. plan = [k \in Kinds |-> plan[k]] /\ declined = [k \in Kinds |-> declined[k]] /\ "moe" \in Kinds
    BY DEF PlanInv, Kinds
  <1> DEFINE G == gone(D)
  <1>2. \A m \in plan["moe"] \ G : \A q \in declined["qmm"] : q.root \notin m.over
    OBVIOUS
  <1> HIDE DEF G
  <1>4. /\ plan' = [k \in Kinds |-> IF k = "moe" THEN plan["moe"] \ G ELSE plan[k]]
        /\ declined' = [k \in Kinds |-> IF k = "moe" THEN declined["moe"] \cup G ELSE declined[k]]
    BY <1>1, <1>3 DEF G
  <1>5. plan' = [k \in Kinds |-> plan'[k]] /\ declined' = [k \in Kinds |-> declined'[k]]
    BY <1>4
  <1>6. /\ plan'["moe"] = plan["moe"] \ G
        /\ \A k \in Kinds \ {"moe"} : plan'[k] = plan[k] /\ declined'[k] = declined[k]
    BY <1>3, <1>4
  <1>7. Builds
    BY <1>0, <1>5, <1>6 DEF Builds, Builders, Dots, Kinds
  <1>8. RootsInv'
    <2>1. CASE G # {}
      BY <2>1, <1>1, RebuiltRoots DEF G
    <2>2. CASE G = {}
      <3>1. plan' = plan
        BY <2>2, <1>3, <1>4
      <3>2. skip' = skip /\ roots' = roots
        BY <2>2, <1>1 DEF G
      <3> QED
        BY <3>1, <3>2, <1>0, SameRoots DEF PlanInv, Builders
    <2> QED
      BY <2>1, <2>2
  <1>9. DispatchesPacked'
    <2>1. plan'["moe"] = plan["moe"] \ G /\ declined'["qmm"] = declined["qmm"]
      BY <1>6 DEF Kinds
    <2> QED
      BY <1>2, <2>1 DEF DispatchesPacked
  <1> QED
    BY <1>7, <1>8, <1>9, BuildsKeep

\* A step that changes nothing keeps everything.
LEMMA StuttersKeep ==
  ASSUME PlanInv, UNCHANGED planVars
  PROVE  PlanInv'
  <1>1. block' = block /\ stage' = stage /\ plan' = plan /\ skip' = skip /\ roots' = roots /\ declined' = declined
    BY DEF planVars
  <1>2. block' \in Blocks /\ plan' = [k \in Kinds |-> plan'[k]] /\ declined' = [k \in Kinds |-> declined'[k]]
    BY <1>1 DEF PlanInv
  <1>3. Dots' = Dots
    BY <1>1 DEF Dots
  <1>4. QmmInv' /\ MoeInv' /\ SdpaInv' /\ RaggedInv' /\ DotsInv'
    BY <1>1, <1>3, QmmKept, MoeKept, SdpaKept, RaggedKept, DotsKept DEF PlanInv
  <1>5. ProjInv' /\ MlaInv' /\ GdnInv' /\ NormInv' /\ RopeInv'
    BY <1>1, ProjKept, ChainKept, GdnKept, NormKept, RopeKept DEF PlanInv
  <1>6. OneOwner'
    BY <1>1 DEF PlanInv, OneOwner, Owned, RootsOf, OpsOf
  <1>7. Unreached'
    BY <1>1 DEF PlanInv, Unreached
  <1>8. RootsInv'
    BY <1>1 DEF PlanInv, RootsInv, Matches, Emitted, TakenOver, OpsOf
  <1>9. DispatchesPacked'
    BY <1>1 DEF PlanInv, DispatchesPacked
  <1> QED
    BY <1>2, <1>4, <1>5, <1>6, <1>7, <1>8, <1>9 DEF PlanInv

---------------------------------------------------------------------------
\* Whatever the recognizers claim and the builders give back, what is claimed
\* together absorbs nothing that is read elsewhere but by what is given up, no
\* two recognizers own one op, and `skip` and the root maps are those of the
\* plan from the last analysis on.
THEOREM PlansAreKept == PlanSpec => []PlanInv
  <1>1. PlanInit => PlanInv
    <2> SUFFICES ASSUME PlanInit
                 PROVE  PlanInv
      OBVIOUS
    <2>1. \A k \in Kinds : plan[k] = {} /\ declined[k] = {}
      BY DEF PlanInit
    <2>2. /\ plan["qmm"] = {} /\ plan["moe"] = {} /\ plan["sdpa"] = {} /\ plan["ragged"] = {}
          /\ plan["stacked"] = {} /\ plan["pack"] = {} /\ plan["proj"] = {} /\ plan["mla"] = {}
          /\ plan["gdn"] = {} /\ plan["norm"] = {} /\ plan["rope"] = {}
          /\ declined["qmm"] = {} /\ declined["stacked"] = {}
      BY <2>1 DEF Kinds
    <2>3. Dots = {}
      BY <2>2 DEF Dots
    <2>4. QmmInv /\ MoeInv /\ SdpaInv /\ RaggedInv /\ DotsInv /\ ProjInv
      BY <2>2, <2>3 DEF QmmInv, MoeInv, SdpaInv, RaggedInv, DotsInv, ProjInv, JointInv, ShutInv, PacksInv
    <2>5. MlaInv /\ GdnInv /\ NormInv /\ RopeInv
      BY <2>2 DEF MlaInv, GdnInv, NormInv, RopeInv, JointInv, AloneInv
    <2>6. OneOwner
      BY <2>1 DEF OneOwner, Owned, RootsOf, OpsOf
    <2>7. Unreached
      <3>1. ASSUME NEW i \in 1 .. 11, NEW j \in i .. 10
            PROVE  Stages[j] \in Kinds
        <4>1. j \in 1 .. 10
          OBVIOUS
        <4> QED
          BY <4>1, StagesAre
      <3> QED
        BY <2>1, <2>2, <3>1 DEF Unreached
    <2>8. RootsInv /\ DispatchesPacked
      BY DEF PlanInit, RootsInv, DispatchesPacked, Builders
    <2>9. plan = [k \in Kinds |-> plan[k]] /\ declined = [k \in Kinds |-> declined[k]] /\ block \in Blocks
      BY DEF PlanInit
    <2> QED
      BY <2>4, <2>5, <2>6, <2>7, <2>8, <2>9 DEF PlanInv
  <1>2. PlanInv /\ [PlanNext]_planVars => PlanInv'
    <2> SUFFICES ASSUME PlanInv, [PlanNext]_planVars
                 PROVE  PlanInv'
      OBVIOUS
    <2>1. CASE UNCHANGED planVars
      BY <2>1, StuttersKeep
    <2>2. CASE Planned
      BY <2>2, StuttersKeep DEF Planned
    <2> QED
      BY <2>1, <2>2, AnalyzeQmmKeeps, AnalyzeMoeKeeps, AnalyzeSdpaKeeps, AnalyzeRaggedKeeps,
         AnalyzeStackedDotKeeps, AnalyzeProjPackKeeps, AnalyzeMlaKeeps, AnalyzeGdnKeeps,
         AnalyzeNormKeeps, AnalyzeRopeKeeps, AnalyzedKeeps, BuildQmmPacksKeeps,
         BuildStackedPacksKeeps, BuildProjPacksKeeps, VerifyMoeKeeps DEF PlanNext
  <1> QED
    BY <1>1, <1>2, PTL DEF PlanSpec

\* Whatever is claimed, packed, declined and given back, in a block of any size:
\* every value an op or a fused call reads has its slot by then, and so has every
\* result; and no op is run in two ways.
THEOREM AnyPlanLowers == PlanSpec => []PlanLowers
  <1>1. PlanInv => PlanLowers
    BY PlanCanBeLowered DEF PlanLowers, PlanInv
  <1> QED
    BY <1>1, PlansAreKept, PTL
=============================================================================

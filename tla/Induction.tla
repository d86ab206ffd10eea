----------------------------- MODULE Induction -----------------------------
(***************************************************************************)
(* Induction over the naturals stated on sets, and what it gives: a set of *)
(* naturals has a least element, and a function defined by recursion along *)
(* an interval exists, so the CHOOSE that TLA+ makes of it is that         *)
(* function.                                                               *)
(***************************************************************************)
EXTENDS Integers, WellFoundedInduction, TLAPS

\* A set of naturals that is not empty has a least element.
LEMMA LeastMember ==
  ASSUME NEW T, T \subseteq Nat, T # {}
  PROVE  \E x \in T : \A y \in T : x <= y
  <1>1. IsWellFoundedOn(OpToRel(<, Nat), Nat)
    BY NatLessThanWellFounded
  <1>2. PICK x \in T : \A y \in T : ~ (<<y, x>> \in OpToRel(<, Nat))
    BY <1>1, WFMin, Zenon
  <1>3. \A y \in T : ~ (y < x)
    BY <1>2 DEF OpToRel
  <1> QED
    BY <1>3

\* A set with 0 and with the successor of each natural in it.
LEMMA Induct ==
  ASSUME NEW T, 0 \in T, \A n \in Nat : n \in T => n + 1 \in T
  PROVE  \A n \in Nat : n \in T
  <1> SUFFICES ASSUME Nat \ T # {} PROVE FALSE
    OBVIOUS
  <1>1. PICK x \in Nat \ T : \A y \in Nat \ T : x <= y
    BY LeastMember
  <1>2. x # 0 /\ x - 1 \in Nat /\ x - 1 \notin Nat \ T
    BY <1>1
  <1>3. x - 1 \in T /\ (x - 1) + 1 = x
    BY <1>1, <1>2
  <1> QED
    BY <1>1, <1>2, <1>3

\* The same along 0 .. N.
LEMMA InductTo ==
  ASSUME NEW N \in Nat, NEW T, 0 \in T,
         \A n \in 0 .. N - 1 : n \in T => n + 1 \in T
  PROVE  \A n \in 0 .. N : n \in T
  <1> DEFINE U == {n \in Nat : n <= N => n \in T}
  <1>1. 0 \in U
    OBVIOUS
  <1>2. \A n \in Nat : n \in U => n + 1 \in U
    OBVIOUS
  <1> HIDE DEF U
  <1>3. \A n \in Nat : n \in U
    BY <1>1, <1>2, Induct
  <1> QED
    BY <1>3 DEF U

\* Each value is made of the one before it.
Chained(f, base, step, N) ==
  f[0] = base /\ \A n \in 1 .. N : f[n] = step[<<f[n - 1], n>>]

LEMMA Chain ==
  ASSUME NEW N \in Nat, NEW V, NEW base \in V, NEW step \in [V \X (1 .. N) -> V]
  PROVE  \E f \in [0 .. N -> V] : Chained(f, base, step, N)
  <1> DEFINE Reaches(f, m) == f[0] = base /\ \A n \in 1 .. m : f[n] = step[<<f[n - 1], n>>]
             T == {m \in Nat : \E f \in [0 .. m -> V] : Reaches(f, m)}
  <1>1. 0 \in T
    <2>1. [n \in 0 .. 0 |-> base] \in [0 .. 0 -> V] /\ Reaches([n \in 0 .. 0 |-> base], 0)
      OBVIOUS
    <2> QED
      BY <2>1
  <1>2. ASSUME NEW m \in 0 .. N - 1, m \in T
        PROVE  m + 1 \in T
    <2>1. PICK f \in [0 .. m -> V] : Reaches(f, m)
      BY <1>2
    <2>2. f[m] \in V /\ m + 1 \in 1 .. N /\ <<f[m], m + 1>> \in V \X (1 .. N)
      OBVIOUS
    <2> DEFINE g == [n \in 0 .. m + 1 |-> IF n = m + 1 THEN step[<<f[m], m + 1>>] ELSE f[n]]
    <2>3. step[<<f[m], m + 1>>] \in V
      BY <2>2
    <2>4. g \in [0 .. m + 1 -> V]
      BY <2>3
    <2>5. g[0] = base
      BY <2>1
    <2>6. ASSUME NEW n \in 1 .. m + 1
          PROVE  g[n] = step[<<g[n - 1], n>>]
      <3>1. n - 1 \in 0 .. m /\ g[n - 1] = f[n - 1]
        OBVIOUS
      <3>2. CASE n = m + 1
        <4>1. g[n] = step[<<f[m], n>>] /\ n - 1 = m
          BY <3>2
        <4>2. g[n - 1] = f[m]
          BY <3>1, <4>1
        <4> QED
          BY <4>1, <4>2
      <3>3. CASE n # m + 1
        <4>1. n \in 1 .. m /\ g[n] = f[n]
          BY <3>3
        <4> QED
          BY <2>1, <3>1, <4>1
      <3> QED
        BY <3>2, <3>3
    <2>7. g \in [0 .. m + 1 -> V] /\ Reaches(g, m + 1)
      BY <2>4, <2>5, <2>6
    <2>8. m + 1 \in Nat
      OBVIOUS
    <2> HIDE DEF g, Reaches
    <2> QED
      BY <2>7, <2>8
  <1> HIDE DEF T
  <1>3. N \in T
    BY <1>1, <1>2, InductTo
  <1> QED
    BY <1>3 DEF T, Chained

\* What holds at a number when it holds at all those below, from 1 on.
LEMMA InductAll ==
  ASSUME NEW N \in Nat, NEW T, \A n \in 1 .. N : 1 .. n - 1 \subseteq T => n \in T
  PROVE  1 .. N \subseteq T
  <1> DEFINE U == {n \in 0 .. N : 1 .. n \subseteq T}
  <1>1. 0 \in U
    OBVIOUS
  <1>2. ASSUME NEW n \in 0 .. N - 1, n \in U
        PROVE  n + 1 \in U
    <2>1. 1 .. (n + 1) - 1 \subseteq T /\ n + 1 \in 1 .. N
      BY <1>2
    <2>2. n + 1 \in T
      BY <2>1
    <2>3. \A k \in 1 .. n + 1 : k \in 1 .. n \/ k = n + 1
      OBVIOUS
    <2> QED
      BY <1>2, <2>2, <2>3
  <1> HIDE DEF U
  <1>3. N \in U
    BY <1>1, <1>2, InductTo
  <1> QED
    BY <1>3 DEF U

\* Each value is made of those before it, and of them only.
LocalTo(step, N, V) ==
  \A g, h \in [1 .. N -> V], n \in 1 .. N :
    (\A m \in 1 .. n - 1 : g[m] = h[m]) => step[<<g, n>>] = step[<<h, n>>]

Steps(step, N, V) ==
  /\ N \in Nat /\ V # {} /\ LocalTo(step, N, V)
  /\ step \in [[1 .. N -> V] \X (1 .. N) -> V]
FollowsSteps(f, step, N, V) == f \in [1 .. N -> V] /\ \A n \in 1 .. N : f[n] = step[<<f, n>>]

LEMMA Course ==
  ASSUME NEW N, NEW V, NEW step, Steps(step, N, V)
  PROVE  \E f : FollowsSteps(f, step, N, V)
  <1>0. /\ N \in Nat /\ V # {} /\ LocalTo(step, N, V)
        /\ step \in [[1 .. N -> V] \X (1 .. N) -> V]
    BY DEF Steps
  <1> USE <1>0
  <1> PICK base \in V : TRUE
    BY <1>0
  <1> DEFINE W == [1 .. N -> V]
             none == [n \in 1 .. N |-> base]
             more == [p \in W \X (1 .. N) |-> [p[1] EXCEPT ![p[2]] = step[p]]]
  <1>1. none \in W
    OBVIOUS
  <1>2. more \in [W \X (1 .. N) -> W]
    BY <1>0
  <1>3. \A g \in W, n \in 1 .. N :
          more[<<g, n>>] = [g EXCEPT ![n] = step[<<g, n>>]]
    OBVIOUS
  <1>4. PICK c \in [0 .. N -> W] : Chained(c, none, more, N)
    <2> HIDE DEF W, none, more
    <2> QED
      BY <1>0, <1>1, <1>2, Chain
  <1> DEFINE f == c[N]
  <1>5. ASSUME NEW n \in 1 .. N
        PROVE  /\ n - 1 \in 0 .. N /\ n \in 0 .. N /\ c[n - 1] \in W /\ c[n] \in W
               /\ c[n] = [c[n - 1] EXCEPT ![n] = step[<<c[n - 1], n>>]]
    <2>1. n - 1 \in 0 .. N /\ n \in 0 .. N
      OBVIOUS
    <2>2. c[n - 1] \in W /\ c[n] \in W
      BY <1>4, <2>1
    <2>3. c[n] = more[<<c[n - 1], n>>]
      BY <1>4 DEF Chained
    <2> HIDE DEF more, W
    <2> QED
      BY <1>3, <2>1, <2>2, <2>3
  <1> DEFINE Kept(m) == \A k \in 1 .. m : c[m][k] = step[<<c[m], k>>]
             T == {m \in 0 .. N : Kept(m)}
  <1> HIDE DEF W, none, more
  <1>6. 0 \in T
    BY <1>0
  <1>7. ASSUME NEW m \in 0 .. N - 1, m \in T
        PROVE  m + 1 \in T
    <2>1. m + 1 \in 1 .. N /\ (m + 1) - 1 = m
      OBVIOUS
    <2> DEFINE g == c[m]
               h == c[m + 1]
    <2>2. g \in W /\ h \in W /\ h = [g EXCEPT ![m + 1] = step[<<g, m + 1>>]]
      BY <1>5, <2>1
    <2>3. Kept(m)
      <3> HIDE DEF Kept
      <3> QED
        BY <1>7
    <2> HIDE DEF g, h
    <2>4. h[m + 1] = step[<<g, m + 1>>] /\ \A k \in 1 .. m : h[k] = g[k]
      BY <2>1, <2>2 DEF W
    <2>5. ASSUME NEW k \in 1 .. m + 1
          PROVE  h[k] = step[<<h, k>>]
      <3>1. k \in 1 .. N /\ \A j \in 1 .. k - 1 : g[j] = h[j]
        BY <2>1, <2>4
      <3>2. step[<<g, k>>] = step[<<h, k>>]
        <4>1. g \in [1 .. N -> V] /\ h \in [1 .. N -> V]
          BY <2>2 DEF W
        <4> QED
          BY <1>0, <3>1, <4>1 DEF LocalTo
      <3>3. h[k] = step[<<g, k>>]
        <4>1. CASE k = m + 1
          BY <2>4, <4>1
        <4>2. CASE k # m + 1
          <5>1. k \in 1 .. m
            BY <4>2
          <5> QED
            BY <2>3, <2>4, <5>1 DEF g
        <4> QED
          BY <4>1, <4>2
      <3> QED
        BY <3>2, <3>3
    <2>6. Kept(m + 1)
      BY <2>5 DEF h
    <2> HIDE DEF Kept
    <2> QED
      BY <2>1, <2>6
  <1> HIDE DEF T
  <1>8. \A n \in 0 .. N : n \in T
    BY <1>0, <1>6, <1>7, InductTo, Zenon
  <1>9. Kept(N)
    <2> HIDE DEF Kept
    <2> QED
      BY <1>8 DEF T
  <1>10. f \in W
    BY <1>4
  <1> QED
    BY <1>9, <1>10 DEF W, FollowsSteps
=============================================================================

----------------------------- MODULE TapeProofs -----------------------------
(***************************************************************************)
(* The drop lists are exact for every program, of any length and any ops:  *)
(* what the passes leave is a tape whose every entry reads what an earlier *)
(* entry makes, and a walk along it holds what it still needs.  The taints *)
(* cover what it hands back, so the copies made on their word are enough.  *)
(* And it means what the block it was lowered from means: lowering gives   *)
(* every slot the term of its source value, and the passes, the drops and  *)
(* the walk change no slot's term and no host call.                        *)
(***************************************************************************)
EXTENDS Tape, Induction, FiniteSetTheorems

---------------------------------------------------------------------------
(* A tape.  Every slot is made once, an argument's never; an entry has the *)
(* operands and results of its op.                                         *)
Operands(e) ==
  CASE e.op \in {"const", "iota"} -> TRUE
    [] e.op \in {"bcast", "view", "ident", "print"} -> Len(e.ins) = 1
    [] e.op = "add" -> Len(e.ins) = 2
    [] e.op = "branch" -> Len(e.ins) = 3 /\ e.trip \in 1 .. 2
    [] e.op = "loop" -> Len(e.ins) = 3 /\ e.trip \in Nat /\ e.move \in Moves
    [] OTHER -> FALSE
Results(e) ==
  IF e.op = "loop" THEN Len(e.outs) = 2 /\ e.outs[1] # e.outs[2] ELSE Len(e.outs) = 1
Shaped(e, n) ==
  /\ e = [op |-> e.op, ins |-> e.ins, outs |-> e.outs, payload |-> e.payload,
          trip |-> e.trip, move |-> e.move, bytes |-> e.bytes]
  /\ e.ins \in Seq(1 .. n) /\ e.outs \in Seq(1 .. n) /\ e.bytes \in Nat
  /\ Operands(e) /\ Results(e)
Sound(es, n) ==
  /\ n \in Nat /\ es \in Seq(ToSet(es))
  /\ \A i \in 1 .. Len(es) : Shaped(es[i], n) /\ ToSet(es[i].outs) \cap Args = {}
  /\ \A i, j \in 1 .. Len(es) : i # j => ToSet(es[i].outs) \cap ToSet(es[j].outs) = {}

(* Along the entries of `keep`, in front of entry i, slot s is written. *)
Has(s, es, keep, i) == s \in Args \/ \E d \in keep : d < i /\ s \in ToSet(es[d].outs)
Flows(es, keep, os) ==
  /\ \A i \in keep : \A s \in ToSet(es[i].ins) : Has(s, es, keep, i)
  /\ \A s \in ToSet(os) : Has(s, es, keep, Len(es) + 1)
WellFormed(es, n, os) ==
  Sound(es, n) /\ os \in Seq(1 .. n) /\ Flows(es, 1 .. Len(es), os)

\* A sequence is one of what it holds.
LEMMA OfItsOwn ==
  ASSUME NEW V, NEW q \in Seq(V)
  PROVE  q \in Seq(ToSet(q)) /\ DOMAIN q = 1 .. Len(q) /\ Len(q) \in Nat
         /\ ToSet(q) = {q[i] : i \in 1 .. Len(q)} /\ ToSet(q) \subseteq V
<1>1. DOMAIN q = 1 .. Len(q) /\ Len(q) \in Nat /\ q = [i \in 1 .. Len(q) |-> q[i]]
  OBVIOUS
<1>2. ToSet(q) = {q[i] : i \in 1 .. Len(q)}
  BY <1>1 DEF ToSet
<1>3. \A i \in 1 .. Len(q) : q[i] \in ToSet(q)
  BY <1>2
<1>4. q \in [1 .. Len(q) -> ToSet(q)]
  BY <1>1, <1>3
<1>5. q \in Seq(ToSet(q))
  BY <1>1, <1>4
<1>6. ToSet(q) \subseteq V
  BY <1>2
<1> QED  BY <1>1, <1>2, <1>5, <1>6

LEMMA ElementOf ==
  ASSUME NEW V, NEW q \in Seq(V)
  PROVE  \A i \in 1 .. Len(q) : q[i] \in V
OBVIOUS

LEMMA FromInterval ==
  ASSUME NEW V, NEW m \in Nat, NEW q \in [1 .. m -> V]
  PROVE  q \in Seq(V) /\ Len(q) = m /\ DOMAIN q = 1 .. m
<1>1. DOMAIN q = 1 .. m
  OBVIOUS
<1> QED  BY <1>1

LEMMA WellFormedFacts ==
  ASSUME NEW es, NEW n, NEW os, WellFormed(es, n, os)
  PROVE  /\ Sound(es, n) /\ os \in Seq(1 .. n) /\ n \in Nat
         /\ es \in Seq(ToSet(es)) /\ DOMAIN es = 1 .. Len(es) /\ Len(es) \in Nat
<1>1. Sound(es, n) /\ os \in Seq(1 .. n)
  BY DEF WellFormed
<1>2. n \in Nat /\ es \in Seq(ToSet(es))
  BY <1>1 DEF Sound
<1>3. DOMAIN es = 1 .. Len(es) /\ Len(es) \in Nat
  BY <1>2, OfItsOwn
<1> QED  BY <1>1, <1>2, <1>3

(* `r` is what is kept of the first n entries: at[i] is where r[i] was. *)
PickedAt(r, es, keep, n, at) ==
  /\ at \in [1 .. Len(r) -> 1 .. n]
  /\ \A i \in 1 .. Len(r) : at[i] \in keep /\ r[i] = es[at[i]]
  /\ \A i, j \in 1 .. Len(r) : i < j => at[i] < at[j]
  /\ \A k \in 1 .. n : k \in keep => \E i \in 1 .. Len(r) : at[i] = k
Picked(r, es, keep, n) ==
  r \in Seq(ToSet(es)) /\ \E at \in [1 .. Len(r) -> 1 .. n] : PickedAt(r, es, keep, n, at)

LEMMA PickedStep ==
  ASSUME NEW es, es \in Seq(ToSet(es)), NEW keep, NEW n \in 0 .. Len(es) - 1,
         NEW q, Picked(q, es, keep, n),
         NEW r, r = IF n + 1 \in keep THEN Append(q, es[n + 1]) ELSE q
  PROVE  Picked(r, es, keep, n + 1)
<1>1. q \in Seq(ToSet(es)) /\ Len(q) \in Nat /\ n \in Nat /\ Len(es) \in Nat
  BY DEF Picked
<1>2. PICK at \in [1 .. Len(q) -> 1 .. n] : PickedAt(q, es, keep, n, at)
  BY DEF Picked
<1>3. es[n + 1] \in ToSet(es)
  <2>1. n + 1 \in 1 .. Len(es)
    BY <1>1
  <2> QED  BY <2>1
<1>4. CASE n + 1 \in keep
  <2> DEFINE to == [i \in 1 .. Len(q) + 1 |-> IF i = Len(q) + 1 THEN n + 1 ELSE at[i]]
  <2>1. /\ r \in Seq(ToSet(es)) /\ Len(r) = Len(q) + 1 /\ r[Len(q) + 1] = es[n + 1]
        /\ \A i \in 1 .. Len(q) : r[i] = q[i]
    BY <1>1, <1>3, <1>4
  <2>2. /\ to[Len(q) + 1] = n + 1 /\ to \in [1 .. Len(r) -> 1 .. n + 1]
        /\ \A i \in 1 .. Len(q) : to[i] = at[i] /\ to[i] \in 1 .. n
    <3>1. Len(q) + 1 \in 1 .. Len(q) + 1 /\ \A i \in 1 .. Len(q) : i # Len(q) + 1 /\ i \in 1 .. Len(q) + 1
      BY <1>1
    <3>2. to[Len(q) + 1] = n + 1 /\ \A i \in 1 .. Len(q) : to[i] = at[i] /\ at[i] \in 1 .. n
      BY <3>1
    <3>3. \A i \in 1 .. Len(q) + 1 : i = Len(q) + 1 \/ i \in 1 .. Len(q)
      BY <1>1
    <3>4. \A k \in 1 .. n : k \in 1 .. n + 1
      BY <1>1
    <3>5. \A i \in 1 .. Len(q) + 1 : to[i] \in 1 .. n + 1
      <4>1. n + 1 \in 1 .. n + 1
        BY <1>1
      <4> QED  BY <3>2, <3>3, <3>4, <4>1
    <3> QED  BY <2>1, <3>2, <3>5
  <2> HIDE DEF to
  <2>3. \A i \in 1 .. Len(r) : i = Len(q) + 1 \/ i \in 1 .. Len(q)
    BY <1>1, <2>1
  <2>4. \A i \in 1 .. Len(r) : to[i] \in keep /\ r[i] = es[to[i]]
    BY <1>2, <1>4, <2>1, <2>2, <2>3 DEF PickedAt
  <2>5. \A i, j \in 1 .. Len(r) : i < j => to[i] < to[j]
    <3> SUFFICES ASSUME NEW i \in 1 .. Len(r), NEW j \in 1 .. Len(r), i < j
                 PROVE  to[i] < to[j]
      OBVIOUS
    <3>1. i \in 1 .. Len(q)
      BY <1>1, <2>1
    <3>2. CASE j = Len(q) + 1
      BY <1>1, <2>2, <3>1, <3>2
    <3>3. CASE j \in 1 .. Len(q)
      BY <1>2, <2>2, <3>1, <3>3 DEF PickedAt
    <3> QED  BY <2>3, <3>2, <3>3
  <2>6. \A k \in 1 .. n + 1 : k \in keep => \E i \in 1 .. Len(r) : to[i] = k
    <3> SUFFICES ASSUME NEW k \in 1 .. n + 1, k \in keep
                 PROVE  \E i \in 1 .. Len(r) : to[i] = k
      OBVIOUS
    <3>1. CASE k = n + 1
      <4>1. Len(q) + 1 \in 1 .. Len(r)
        BY <1>1, <2>1
      <4> QED  BY <2>2, <3>1, <4>1
    <3>2. CASE k # n + 1
      <4>1. k \in 1 .. n
        BY <1>1, <3>2
      <4>2. PICK i \in 1 .. Len(q) : at[i] = k
        BY <1>2, <4>1 DEF PickedAt
      <4>3. i \in 1 .. Len(r)
        BY <1>1, <2>1
      <4> QED  BY <2>2, <4>2, <4>3
    <3> QED  BY <3>1, <3>2
  <2> QED  BY <2>1, <2>2, <2>4, <2>5, <2>6 DEF Picked, PickedAt
<1>5. CASE n + 1 \notin keep
  <2>1. r = q
    BY <1>5
  <2>2. at \in [1 .. Len(q) -> 1 .. n + 1]
    BY <1>1, <1>2
  <2>3. \A k \in 1 .. n + 1 : k \in keep => k \in 1 .. n
    BY <1>1, <1>5
  <2>4. PickedAt(q, es, keep, n + 1, at)
    BY <1>2, <2>2, <2>3 DEF PickedAt
  <2> QED  BY <1>1, <2>1, <2>2, <2>4 DEF Picked
<1> QED  BY <1>4, <1>5

\* Gathered keeps the entries of `keep`, in order.
LEMMA Gathering ==
  ASSUME NEW es, es \in Seq(ToSet(es)), NEW keep
  PROVE  Picked(Gathered(es, keep), es, keep, Len(es))
<1> DEFINE N == Len(es)
           V == Seq(ToSet(es))
           Next1(q, n) == IF n \in keep THEN Append(q, es[n]) ELSE q
           step == [p \in V \X (1 .. N) |-> Next1(p[1], p[2])]
           got == CHOOSE f : f = [n \in 0 .. N |-> IF n = 0 THEN <<>> ELSE Next1(f[n - 1], n)]
<1>1. N \in Nat /\ <<>> \in V /\ \A n \in 1 .. N : es[n] \in ToSet(es)
  OBVIOUS
<1>2. Gathered(es, keep) = got[N]
  BY DEF Gathered
<1>3. \A q \in V, n \in 1 .. N : Next1(q, n) \in V
  BY <1>1
<1> HIDE DEF Next1, V
<1>4. step \in [V \X (1 .. N) -> V]
  BY <1>3
<1>5. PICK f \in [0 .. N -> V] : Chained(f, <<>>, step, N)
  <2> HIDE DEF step, N
  <2> QED  BY <1>1, <1>4, Chain
<1>6. f = [n \in 0 .. N |-> IF n = 0 THEN <<>> ELSE Next1(f[n - 1], n)]
  <2>1. ASSUME NEW n \in 0 .. N, n # 0
        PROVE  f[n] = Next1(f[n - 1], n)
    <3>1. f[n - 1] \in V /\ n \in 1 .. N
      BY <1>1, <2>1
    <3>2. <<f[n - 1], n>> \in V \X (1 .. N)
      BY <3>1
    <3> QED  BY <1>5, <3>1, <3>2 DEF Chained
  <2>2. DOMAIN f = 0 .. N /\ f = [n \in 0 .. N |-> f[n]]
    OBVIOUS
  <2> HIDE DEF step
  <2>3. f[0] = <<>>
    BY <1>5 DEF Chained
  <2> QED  BY <2>1, <2>2, <2>3
<1>7. got = [n \in 0 .. N |-> IF n = 0 THEN <<>> ELSE Next1(got[n - 1], n)]
  BY <1>6
<1> HIDE DEF got
<1> DEFINE T == {n \in 0 .. N : Picked(got[n], es, keep, n)}
<1>8. 0 \in T
  <2>1. got[0] = <<>> /\ 0 \in 0 .. N
    BY <1>1, <1>7
  <2>2. PickedAt(<<>>, es, keep, 0, [i \in 1 .. 0 |-> 1])
    BY DEF PickedAt
  <2>3. [i \in 1 .. 0 |-> 1] \in [1 .. Len(<<>>) -> 1 .. 0] /\ <<>> \in Seq(ToSet(es))
    OBVIOUS
  <2>4. Picked(<<>>, es, keep, 0)
    BY <2>2, <2>3 DEF Picked
  <2> QED  BY <2>1, <2>4
<1>9. ASSUME NEW n \in 0 .. N - 1, n \in T
      PROVE  n + 1 \in T
  <2>1. n + 1 \in 0 .. N /\ n + 1 # 0 /\ (n + 1) - 1 = n
    BY <1>1
  <2>2. got[n + 1] = Next1(got[n], n + 1)
    BY <1>7, <2>1
  <2>3. Picked(got[n + 1], es, keep, n + 1)
    BY <1>9, <2>2, PickedStep DEF Next1
  <2> QED  BY <2>1, <2>3
<1> HIDE DEF T
<1>10. N \in T
  <2> HIDE DEF N
  <2>1. \A n \in 0 .. N : n \in T
    BY <1>1, <1>8, <1>9, InductTo, Zenon
  <2> QED  BY <1>1, <2>1
<1> QED  BY <1>2, <1>10 DEF T

\* What is gathered of a tape is one, when what stays reads only what stays.
LEMMA GatherFlows ==
  ASSUME NEW es, NEW n, Sound(es, n), NEW keep \in SUBSET (1 .. Len(es)),
         NEW os \in Seq(1 .. n), Flows(es, keep, os)
  PROVE  WellFormed(Gathered(es, keep), n, os)
<1> DEFINE N == Len(es)
           r == Gathered(es, keep)
<1>1. es \in Seq(ToSet(es)) /\ N \in Nat /\ n \in Nat
  BY DEF Sound
<1>2. Picked(r, es, keep, N)
  BY <1>1, Gathering
<1> HIDE DEF r
<1>3. r \in Seq(ToSet(es)) /\ Len(r) \in Nat
  BY <1>2 DEF Picked
<1>4. r \in Seq(ToSet(r))
  BY <1>3, OfItsOwn
<1>5. PICK at \in [1 .. Len(r) -> 1 .. N] : PickedAt(r, es, keep, N, at)
  BY <1>2 DEF Picked
<1>6. /\ \A i \in 1 .. Len(r) : at[i] \in keep /\ r[i] = es[at[i]] /\ at[i] \in 1 .. N
      /\ \A i, j \in 1 .. Len(r) : i < j => at[i] < at[j]
      /\ \A k \in keep : \E i \in 1 .. Len(r) : at[i] = k
  BY <1>5 DEF PickedAt
<1>7. \A i, j \in 1 .. Len(r) : i # j => at[i] # at[j]
  <2> SUFFICES ASSUME NEW i \in 1 .. Len(r), NEW j \in 1 .. Len(r), i # j
               PROVE  at[i] # at[j]
    OBVIOUS
  <2>1. i < j \/ j < i
    BY <1>3
  <2>2. at[i] \in Nat /\ at[j] \in Nat
    BY <1>6
  <2>3. at[i] < at[j] \/ at[j] < at[i]
    BY <1>6, <2>1
  <2> QED  BY <2>2, <2>3
<1>8. Sound(r, n)
  <2>1. \A i \in 1 .. Len(r) : Shaped(r[i], n) /\ ToSet(r[i].outs) \cap Args = {}
    BY <1>6 DEF Sound
  <2>2. \A i, j \in 1 .. Len(r) : i # j => ToSet(r[i].outs) \cap ToSet(r[j].outs) = {}
    <3> SUFFICES ASSUME NEW i \in 1 .. Len(r), NEW j \in 1 .. Len(r), i # j
                 PROVE  ToSet(r[i].outs) \cap ToSet(r[j].outs) = {}
      OBVIOUS
    <3>1. at[i] \in 1 .. Len(es) /\ at[j] \in 1 .. Len(es) /\ at[i] # at[j]
      BY <1>6, <1>7
    <3>2. ToSet(es[at[i]].outs) \cap ToSet(es[at[j]].outs) = {}
      BY <3>1 DEF Sound
    <3> QED  BY <1>6, <3>2
  <2> QED  BY <1>1, <1>4, <2>1, <2>2 DEF Sound
<1>9. ASSUME NEW i \in 1 .. Len(r), NEW s \in ToSet(r[i].ins)
      PROVE  Has(s, r, 1 .. Len(r), i)
  <2>1. Has(s, es, keep, at[i])
    BY <1>6 DEF Flows
  <2>2. CASE s \in Args
    BY <2>2 DEF Has
  <2>3. CASE s \notin Args
    <3>1. PICK d \in keep : d < at[i] /\ s \in ToSet(es[d].outs)
      BY <2>1, <2>3 DEF Has
    <3>2. PICK k \in 1 .. Len(r) : at[k] = d
      BY <1>6
    <3>3. k < i
      <4>1. i < k => at[i] < at[k]
        BY <1>6
      <4>2. at[k] \in 1 .. N /\ at[i] \in 1 .. N
        BY <1>6
      <4> QED  BY <1>1, <1>3, <3>1, <3>2, <4>1, <4>2
    <3> QED  BY <1>6, <3>1, <3>2, <3>3 DEF Has
  <2> QED  BY <2>2, <2>3
<1>10. ASSUME NEW s \in ToSet(os)
       PROVE  Has(s, r, 1 .. Len(r), Len(r) + 1)
  <2>1. Has(s, es, keep, N + 1)
    BY DEF Flows
  <2>2. CASE s \in Args
    BY <2>2 DEF Has
  <2>3. CASE s \notin Args
    <3>1. PICK d \in keep : s \in ToSet(es[d].outs)
      BY <2>1, <2>3 DEF Has
    <3>2. PICK k \in 1 .. Len(r) : at[k] = d
      BY <1>6
    <3>3. k < Len(r) + 1
      BY <1>3
    <3> QED  BY <1>6, <3>1, <3>2, <3>3 DEF Has
  <2> QED  BY <2>2, <2>3
<1>11. Flows(r, 1 .. Len(r), os)
  BY <1>9, <1>10 DEF Flows
<1> QED  BY <1>8, <1>11 DEF WellFormed, r

---------------------------------------------------------------------------
(* CsePass.  A slot whose entry was merged is remapped to one that stays.  *)
OpKinds == {"const", "iota", "add", "bcast", "view", "ident", "print", "branch", "loop"}
Keys(n) == OpKinds \X Seq(1 .. n)
Merging(n) == [remap : [1 .. n -> 1 .. n], seen : UNION {[K -> 1 .. n] : K \in SUBSET Keys(n)}]

LEMMA ShapedFacts ==
  ASSUME NEW e, NEW n, Shaped(e, n)
  PROVE  /\ e.op \in OpKinds /\ e.ins \in Seq(1 .. n) /\ e.outs \in Seq(1 .. n)
         /\ ToSet(e.ins) \subseteq 1 .. n /\ ToSet(e.outs) \subseteq 1 .. n
         /\ e.outs[1] \in ToSet(e.outs)
         /\ e.op # "loop" => ToSet(e.outs) = {e.outs[1]}
<1>1. e.op \in OpKinds /\ e.ins \in Seq(1 .. n) /\ e.outs \in Seq(1 .. n)
  BY DEF Shaped, Operands, OpKinds
<1>2. ToSet(e.ins) \subseteq 1 .. n /\ ToSet(e.outs) \subseteq 1 .. n
      /\ ToSet(e.outs) = {e.outs[k] : k \in 1 .. Len(e.outs)}
  BY <1>1, OfItsOwn
<1>3. Len(e.outs) = 2 \/ (Len(e.outs) = 1 /\ e.op # "loop")
  BY DEF Shaped, Results
<1>4. e.op # "loop" => Len(e.outs) = 1
  BY DEF Shaped, Results
<1>5. 1 \in 1 .. 1 /\ 1 \in 1 .. 2 /\ \A k \in 1 .. 1 : k = 1
  OBVIOUS
<1>6. 1 \in 1 .. Len(e.outs)
  BY <1>3, <1>5
<1>7. e.op # "loop" => ToSet(e.outs) = {e.outs[1]}
  BY <1>2, <1>4, <1>5
<1> QED  BY <1>1, <1>2, <1>6, <1>7

(* What r reads is what e reads, remapped. *)
ReadsOf(r, e, remap) == \A s \in ToSet(r.ins) : \E u \in ToSet(e.ins) : s = remap[u]

LEMMA RewiredShaped ==
  ASSUME NEW e, NEW n \in Nat, Shaped(e, n), NEW remap \in [1 .. n -> 1 .. n]
  PROVE  /\ Shaped(Rewired(e, remap), n) /\ Rewired(e, remap).outs = e.outs
         /\ Rewired(e, remap).op = e.op
         /\ ReadsOf(Rewired(e, remap), e, remap)
<1> DEFINE r == Rewired(e, remap)
           ins == [i \in DOMAIN e.ins |-> remap[e.ins[i]]]
<1>1. e.ins \in Seq(1 .. n) /\ DOMAIN e.ins = 1 .. Len(e.ins) /\ Len(e.ins) \in Nat
  BY ShapedFacts
<1>2. \A i \in 1 .. Len(e.ins) : e.ins[i] \in 1 .. n /\ remap[e.ins[i]] \in 1 .. n
  <2> HIDE DEF ins, r
  <2>2. \A i \in 1 .. Len(e.ins) : e.ins[i] \in 1 .. n
    BY <1>1, ElementOf
  <2> QED  BY <2>2
<1>3. ins \in [1 .. Len(e.ins) -> 1 .. n]
  BY <1>1, <1>2
<1>4. ins \in Seq(1 .. n) /\ Len(ins) = Len(e.ins)
  BY <1>1, <1>3
<1>5. r = [e EXCEPT !.ins = ins]
  BY DEF Rewired
<1>6. \A s \in ToSet(ins) : \E u \in ToSet(e.ins) : s = remap[u]
  <2>1. ToSet(ins) = {ins[i] : i \in 1 .. Len(e.ins)} /\ ToSet(e.ins) = {e.ins[i] : i \in 1 .. Len(e.ins)}
    BY <1>1, <1>4 DEF ToSet
  <2>2. \A i \in 1 .. Len(e.ins) : ins[i] = remap[e.ins[i]]
    BY <1>1
  <2> HIDE DEF ins
  <2>3. \A i \in 1 .. Len(e.ins) : e.ins[i] \in ToSet(e.ins)
    BY <2>1
  <2>4. ASSUME NEW s \in ToSet(ins)
        PROVE  \E u \in ToSet(e.ins) : s = remap[u]
    <3>1. PICK i \in 1 .. Len(e.ins) : s = ins[i]
      BY <2>1, <2>4
    <3>2. e.ins[i] \in ToSet(e.ins) /\ s = remap[e.ins[i]]
      BY <2>2, <2>3, <3>1
    <3> QED  BY <3>2
  <2> QED  BY <2>4
<1> HIDE DEF ins
<1>7. /\ r = [op |-> e.op, ins |-> ins, outs |-> e.outs, payload |-> e.payload,
              trip |-> e.trip, move |-> e.move, bytes |-> e.bytes]
  BY <1>5 DEF Shaped
<1> HIDE DEF r
<1>8. /\ r.op = e.op /\ r.ins = ins /\ r.outs = e.outs /\ r.payload = e.payload
      /\ r.trip = e.trip /\ r.move = e.move /\ r.bytes = e.bytes
  BY <1>7
<1>9. Operands(r)
  BY <1>4, <1>8 DEF Shaped, Operands
<1>10. Results(r)
  BY <1>8 DEF Shaped, Results
<1>11. Shaped(r, n)
  BY <1>4, <1>7, <1>8, <1>9, <1>10 DEF Shaped
<1> QED  BY <1>6, <1>8, <1>11 DEF r, ReadsOf

LEMMA EligibleOne ==
  ASSUME NEW e, NEW n, Shaped(e, n), Eligible(e)
  PROVE  ToSet(e.outs) = {e.outs[1]}
BY ShapedFacts DEF Eligible, PurePassOp

LEMMA MergeOneTyped ==
  ASSUME NEW n \in Nat, NEW acc \in Merging(n), NEW e, Shaped(e, n)
  PROVE  MergeOne(acc, e) \in Merging(n)
<1> DEFINE r == Rewired(e, acc.remap)
           key == Key(r)
<1>1. acc.remap \in [1 .. n -> 1 .. n]
  BY DEF Merging
<1>2. PICK K \in SUBSET Keys(n) : acc.seen \in [K -> 1 .. n]
  BY DEF Merging
<1>3. Shaped(r, n)
  BY <1>1, RewiredShaped
<1>4. r.outs[1] \in 1 .. n /\ key \in Keys(n)
  BY <1>3, ShapedFacts DEF Key, Keys
<1>5. acc = [remap |-> acc.remap, seen |-> acc.seen]
  BY DEF Merging
<1> HIDE DEF r, key
<1>6. CASE Twin(acc, r)
  <2>1. acc.seen[key] \in 1 .. n
    BY <1>2, <1>6 DEF Twin, key
  <2> DEFINE to == [acc.remap EXCEPT ![r.outs[1]] = acc.seen[key]]
  <2>2. to \in [1 .. n -> 1 .. n]
    BY <1>1, <2>1
  <2>3. MergeOne(acc, e) = [acc EXCEPT !.remap = to]
    BY <1>6 DEF MergeOne, r, key
  <2> HIDE DEF to
  <2>4. MergeOne(acc, e) = [remap |-> to, seen |-> acc.seen]
    BY <1>5, <2>3
  <2> DEFINE sets == UNION {[H -> 1 .. n] : H \in SUBSET Keys(n)}
  <2>5. acc.seen \in sets /\ Merging(n) = [remap : [1 .. n -> 1 .. n], seen : sets]
    BY DEF Merging
  <2> HIDE DEF sets
  <2> QED  BY <2>2, <2>4, <2>5
<1>7. CASE ~ Twin(acc, r) /\ Eligible(r)
  <2> DEFINE seen == With(acc.seen, key, r.outs[1])
  <2>1. seen \in [K \cup {key} -> 1 .. n]
    BY <1>2, <1>4 DEF With
  <2>2. MergeOne(acc, e) = [acc EXCEPT !.seen = seen]
    BY <1>7 DEF MergeOne, r, key
  <2> HIDE DEF seen
  <2>3. MergeOne(acc, e) = [remap |-> acc.remap, seen |-> seen]
    BY <1>5, <2>2
  <2>4. K \cup {key} \in SUBSET Keys(n)
    BY <1>4
  <2>5. seen \in UNION {[L -> 1 .. n] : L \in SUBSET Keys(n)}
    BY <2>1, <2>4
  <2> QED  BY <1>1, <2>3, <2>5 DEF Merging
<1>8. CASE ~ Twin(acc, r) /\ ~ Eligible(r)
  BY <1>8 DEF MergeOne, r
<1> QED  BY <1>6, <1>7, <1>8

\* The walk, entry by entry.
Merges(after, es, n) ==
  /\ after \in [0 .. Len(es) -> Merging(n)]
  /\ after[0] = [remap |-> [s \in 1 .. n |-> s], seen |-> <<>>]
  /\ \A i \in 1 .. Len(es) : after[i] = MergeOne(after[i - 1], es[i])

LEMMA MergeAlongIs ==
  ASSUME NEW es, NEW n, Sound(es, n)
  PROVE  Merges(MergeAlong(es, n), es, n)
<1> DEFINE N == Len(es)
           V == Merging(n)
           base == [remap |-> [s \in 1 .. n |-> s], seen |-> <<>>]
           Next1(acc, i) == MergeOne(acc, es[i])
           step == [p \in V \X (1 .. N) |-> Next1(p[1], p[2])]
           all == CHOOSE f : f = [i \in 0 .. N |-> IF i = 0 THEN base ELSE Next1(f[i - 1], i)]
<1>1. N \in Nat /\ n \in Nat /\ \A i \in 1 .. N : Shaped(es[i], n)
  BY DEF Sound
<1>2. MergeAlong(es, n) = all
  BY DEF MergeAlong
<1>3. base \in V
  <2>1. [s \in 1 .. n |-> s] \in [1 .. n -> 1 .. n]
    OBVIOUS
  <2>2. <<>> \in [{} -> 1 .. n] /\ {} \in SUBSET Keys(n)
    OBVIOUS
  <2> QED  BY <2>1, <2>2 DEF Merging
<1>4. \A acc \in V, i \in 1 .. N : Next1(acc, i) \in V
  BY <1>1, MergeOneTyped
<1> HIDE DEF Next1, V, base
<1>5. step \in [V \X (1 .. N) -> V]
  BY <1>4
<1>6. PICK f \in [0 .. N -> V] : Chained(f, base, step, N)
  <2> HIDE DEF step, N
  <2> QED  BY <1>1, <1>3, <1>5, Chain
<1>7. /\ f[0] = base
      /\ \A i \in 1 .. N : f[i] = Next1(f[i - 1], i)
  <2>1. ASSUME NEW i \in 1 .. N
        PROVE  f[i] = Next1(f[i - 1], i)
    <3>1. f[i - 1] \in V
      BY <1>1
    <3>2. <<f[i - 1], i>> \in V \X (1 .. N)
      BY <3>1
    <3> QED  BY <1>6, <3>1, <3>2 DEF Chained
  <2> HIDE DEF step
  <2> QED  BY <1>6, <2>1 DEF Chained
<1>8. f = [i \in 0 .. N |-> IF i = 0 THEN base ELSE Next1(f[i - 1], i)]
  <2>1. DOMAIN f = 0 .. N /\ f = [i \in 0 .. N |-> f[i]]
    OBVIOUS
  <2>2. \A i \in 0 .. N : i # 0 => i \in 1 .. N
    BY <1>1
  <2> QED  BY <1>7, <2>1, <2>2
<1>9. all = [i \in 0 .. N |-> IF i = 0 THEN base ELSE Next1(all[i - 1], i)]
  BY <1>8
<1> HIDE DEF all
<1>10. all = f
  <2> DEFINE T == {i \in 0 .. N : all[i] = f[i]}
  <2>1. 0 \in T
    BY <1>1, <1>7, <1>9
  <2>2. ASSUME NEW i \in 0 .. N - 1, i \in T
        PROVE  i + 1 \in T
    <3>1. i + 1 \in 0 .. N /\ i + 1 \in 1 .. N /\ i + 1 # 0 /\ (i + 1) - 1 = i
      BY <1>1
    <3>2. all[i + 1] = Next1(all[i], i + 1) /\ f[i + 1] = Next1(f[i], i + 1)
      BY <1>7, <1>9, <3>1
    <3> QED  BY <2>2, <3>1, <3>2
  <2> HIDE DEF T
  <2>3. \A i \in 0 .. N : i \in T
    <3> HIDE DEF N
    <3> QED  BY <1>1, <2>1, <2>2, InductTo, Zenon
  <2>4. DOMAIN all = 0 .. N /\ all = [i \in 0 .. N |-> all[i]] /\ f = [i \in 0 .. N |-> f[i]]
    BY <1>9
  <2> QED  BY <2>3, <2>4 DEF T
<1> QED  BY <1>2, <1>7, <1>10 DEF Next1, base, V, Merges
(* What is made among the first i entries is remapped to what stays of     *)
(* them; what is not is where it was.                                      *)
Redirected(acc, es, n, keep, i) ==
  /\ \A s \in 1 .. n : IF Has(s, es, 1 .. Len(es), i + 1) THEN Has(acc.remap[s], es, keep, i + 1)
                       ELSE acc.remap[s] = s
  /\ \A k \in DOMAIN acc.seen : Has(acc.seen[k], es, keep, i + 1)

\* One entry further.
LEMMA HasNext ==
  ASSUME NEW es, NEW n, Sound(es, n), NEW i \in 0 .. Len(es) - 1, NEW s, NEW keep \in SUBSET (1 .. Len(es))
  PROVE  /\ Has(s, es, keep, i + 1) => Has(s, es, keep, i + 2)
         /\ Has(s, es, keep, i + 2) => Has(s, es, keep, i + 1) \/ s \in ToSet(es[i + 1].outs)
         /\ s \in ToSet(es[i + 1].outs) => ~ Has(s, es, keep, i + 1)
         /\ s \in ToSet(es[i + 1].outs) /\ i + 1 \in keep => Has(s, es, keep, i + 2)
<1>1. Len(es) \in Nat /\ i \in Nat /\ i + 1 \in 1 .. Len(es)
  BY DEF Sound
<1>2. \A d \in keep : d \in Nat /\ d \in 1 .. Len(es)
  OBVIOUS
<1>3. \A d \in keep : d < i + 2 <=> d < i + 1 \/ d = i + 1
  BY <1>1, <1>2
<1>4. i + 1 < i + 2 /\ ~ (i + 1 < i + 1)
  BY <1>1
<1>5. \A d \in keep : d < i + 1 /\ s \in ToSet(es[i + 1].outs) => s \notin ToSet(es[d].outs)
  <2> SUFFICES ASSUME NEW d \in keep, d < i + 1, s \in ToSet(es[i + 1].outs)
               PROVE  s \notin ToSet(es[d].outs)
    OBVIOUS
  <2>0. i + 1 # d /\ d \in 1 .. Len(es)
    BY <1>1, <1>2
  <2>1. ToSet(es[i + 1].outs) \cap ToSet(es[d].outs) = {}
    BY <1>1, <2>0 DEF Sound
  <2> QED  BY <2>1
<1>6. s \in ToSet(es[i + 1].outs) => s \notin Args
  BY <1>1 DEF Sound
<1> QED  BY <1>3, <1>4, <1>5, <1>6 DEF Has

LEMMA MergeOneRedirects ==
  ASSUME NEW es, NEW n, Sound(es, n), NEW i \in 0 .. Len(es) - 1,
         NEW acc \in Merging(n), NEW next, next = MergeOne(acc, es[i + 1]),
         NEW keep \in SUBSET (1 .. Len(es)),
         i + 1 \in keep <=> ~ Twin(acc, Rewired(es[i + 1], acc.remap)),
         Redirected(acc, es, n, keep, i)
  PROVE  Redirected(next, es, n, keep, i + 1)
<1> DEFINE e == es[i + 1]
           r == Rewired(e, acc.remap)
           o == e.outs[1]
           key == Key(r)
           N == Len(es)
<1>1. N \in Nat /\ n \in Nat /\ i \in Nat /\ i + 1 \in 1 .. N /\ 1 .. N \in SUBSET (1 .. N) /\ (i + 1) + 1 = i + 2
  BY DEF Sound
<1>2. Shaped(e, n) /\ acc.remap \in [1 .. n -> 1 .. n]
  BY <1>1 DEF Sound, Merging
<1>3. Shaped(r, n) /\ r.outs = e.outs /\ o \in ToSet(e.outs) /\ o \in 1 .. n
  BY <1>1, <1>2, RewiredShaped, ShapedFacts
<1>4. PICK K \in SUBSET Keys(n) : acc.seen \in [K -> 1 .. n]
  BY DEF Merging
<1>5. acc = [remap |-> acc.remap, seen |-> acc.seen]
  BY DEF Merging
<1> HIDE DEF e, r, o, key
<1>6. /\ \A s \in 1 .. n : Has(s, es, keep, i + 1) => Has(s, es, keep, i + 2)
      /\ \A s \in 1 .. n : s \in ToSet(e.outs) /\ i + 1 \in keep => Has(s, es, keep, i + 2)
      /\ \A s \in 1 .. n : Has(s, es, 1 .. N, i + 1) => Has(s, es, 1 .. N, i + 2)
      /\ \A s \in 1 .. n : Has(s, es, 1 .. N, i + 2) => Has(s, es, 1 .. N, i + 1) \/ s \in ToSet(e.outs)
      /\ \A s \in 1 .. n : s \in ToSet(e.outs) => ~ Has(s, es, 1 .. N, i + 1) /\ Has(s, es, 1 .. N, i + 2)
  BY <1>1, HasNext DEF e
<1>7. \A s \in 1 .. n : acc.remap[s] \in 1 .. n
  BY <1>2
<1>8. \A s \in 1 .. n : IF Has(s, es, 1 .. N, i + 1) THEN Has(acc.remap[s], es, keep, i + 1)
                        ELSE acc.remap[s] = s
  BY DEF Redirected
<1>9. \A k \in K : Has(acc.seen[k], es, keep, i + 1) /\ acc.seen[k] \in 1 .. n
  BY <1>4 DEF Redirected
<1>10. CASE Twin(acc, r)
  <2>1. Eligible(r) /\ key \in K
    BY <1>4, <1>10 DEF Twin, key
  <2>2. ToSet(e.outs) = {o}
    BY <1>3, <2>1, EligibleOne DEF o
  <2>3. next = [acc EXCEPT !.remap = [acc.remap EXCEPT ![o] = acc.seen[key]]]
    BY <1>3, <1>10 DEF MergeOne, r, e, key, o
  <2>4. next.seen = acc.seen /\ next.remap = [acc.remap EXCEPT ![o] = acc.seen[key]]
    BY <1>5, <2>3
  <2>5. next.remap[o] = acc.seen[key] /\ \A s \in 1 .. n : s # o => next.remap[s] = acc.remap[s]
    BY <1>2, <1>3, <2>4
  <2>6. ASSUME NEW s \in 1 .. n
        PROVE  IF Has(s, es, 1 .. N, i + 2) THEN Has(next.remap[s], es, keep, i + 2)
               ELSE next.remap[s] = s
    <3>1. CASE s = o
      BY <1>6, <1>9, <2>1, <2>2, <2>5, <3>1
    <3>2. CASE s # o
      BY <1>6, <1>7, <1>8, <2>2, <2>5, <3>2
    <3> QED  BY <3>1, <3>2
  <2>7. \A k \in DOMAIN next.seen : Has(next.seen[k], es, keep, i + 2)
    BY <1>4, <1>6, <1>9, <2>4
  <2> QED  BY <1>1, <2>6, <2>7 DEF Redirected
<1>11. CASE ~ Twin(acc, r)
  <2>1. i + 1 \in keep
    BY <1>11 DEF r, e
  <2>2. /\ next.remap = acc.remap
        /\ \/ next.seen = acc.seen
           \/ next.seen = With(acc.seen, key, o)
    <3>1. CASE Eligible(r)
      <4>1. next = [acc EXCEPT !.seen = With(acc.seen, key, o)]
        BY <1>3, <1>11, <3>1 DEF MergeOne, r, e, key, o
      <4> QED  BY <1>5, <4>1
    <3>2. CASE ~ Eligible(r)
      <4>1. next = acc
        BY <1>11, <3>2 DEF MergeOne, r, e
      <4> QED  BY <4>1
    <3> QED  BY <3>1, <3>2
  <2>3. ASSUME NEW s \in 1 .. n
        PROVE  IF Has(s, es, 1 .. N, i + 2) THEN Has(next.remap[s], es, keep, i + 2)
               ELSE next.remap[s] = s
    <3>1. CASE s \in ToSet(e.outs)
      BY <1>6, <1>8, <2>1, <2>2, <3>1
    <3>2. CASE s \notin ToSet(e.outs)
      BY <1>6, <1>7, <1>8, <2>2, <3>2
    <3> QED  BY <3>1, <3>2
  <2>4. ASSUME NEW k \in DOMAIN next.seen
        PROVE  Has(next.seen[k], es, keep, i + 2)
    <3>1. (k \in K /\ next.seen[k] = acc.seen[k]) \/ next.seen[k] = o
      BY <1>4, <2>2 DEF With
    <3> QED  BY <1>3, <1>6, <1>9, <2>1, <3>1
  <2> QED  BY <1>1, <2>3, <2>4 DEF Redirected
<1> QED  BY <1>10, <1>11

\* CsePass leaves a tape.
LEMMA MergedFlows ==
  ASSUME NEW es, NEW n, NEW os, WellFormed(es, n, os),
         NEW to, to = Merged(es, n).remap
  PROVE  WellFormed(Merged(es, n).kept, n, [j \in DOMAIN os |-> to[os[j]]])
<1> DEFINE N == Len(es)
           after == MergeAlong(es, n)
           rewired == [i \in DOMAIN es |-> Rewired(es[i], after[i - 1].remap)]
           keep == {i \in DOMAIN es : ~ Twin(after[i - 1], rewired[i])}
           qs == [j \in DOMAIN os |-> to[os[j]]]
<1>1. Sound(es, n) /\ N \in Nat /\ n \in Nat /\ DOMAIN es = 1 .. N /\ os \in Seq(1 .. n)
  BY WellFormedFacts
<1>2. /\ after \in [0 .. N -> Merging(n)]
      /\ after[0] = [remap |-> [s \in 1 .. n |-> s], seen |-> <<>>]
      /\ \A i \in 1 .. N : after[i] = MergeOne(after[i - 1], es[i])
  BY <1>1, MergeAlongIs DEF Merges
<1>3. Merged(es, n).kept = Gathered(rewired, keep) /\ to = after[N].remap
  BY DEF Merged
<1> HIDE DEF after
<1>4. ASSUME NEW i \in 1 .. N
      PROVE  /\ i - 1 \in 0 .. N - 1 /\ i - 1 \in 0 .. N /\ (i - 1) + 1 = i
             /\ after[i - 1] \in Merging(n) /\ after[i - 1].remap \in [1 .. n -> 1 .. n]
             /\ rewired[i] = Rewired(es[i], after[i - 1].remap)
             /\ Shaped(rewired[i], n) /\ rewired[i].outs = es[i].outs
             /\ ReadsOf(rewired[i], es[i], after[i - 1].remap)
  <2>1. i - 1 \in 0 .. N - 1 /\ i - 1 \in 0 .. N /\ (i - 1) + 1 = i
    BY <1>1
  <2>2. after[i - 1] \in Merging(n)
    BY <1>2, <2>1
  <2>3. after[i - 1].remap \in [1 .. n -> 1 .. n]
    BY <2>2 DEF Merging
  <2>4. rewired[i] = Rewired(es[i], after[i - 1].remap) /\ Shaped(es[i], n)
    BY <1>1 DEF Sound
  <2> HIDE DEF rewired
  <2>5. /\ Shaped(rewired[i], n) /\ rewired[i].outs = es[i].outs
        /\ ReadsOf(rewired[i], es[i], after[i - 1].remap)
    <3> DEFINE m == after[i - 1].remap
    <3>1. m \in [1 .. n -> 1 .. n] /\ Shaped(es[i], n) /\ n \in Nat
      BY <1>1, <2>3, <2>4
    <3>2. rewired[i] = Rewired(es[i], m)
      BY <2>4
    <3> HIDE DEF m
    <3>3. /\ Shaped(Rewired(es[i], m), n) /\ Rewired(es[i], m).outs = es[i].outs
          /\ ReadsOf(Rewired(es[i], m), es[i], m)
      BY <3>1, RewiredShaped
    <3>4. /\ Shaped(rewired[i], n) /\ rewired[i].outs = es[i].outs
          /\ ReadsOf(rewired[i], es[i], m)
      BY <3>2, <3>3
    <3> QED  BY <3>4 DEF m
  <2> QED  BY <2>1, <2>2, <2>3, <2>4, <2>5
<1>5. Len(rewired) = N /\ rewired \in Seq(ToSet(rewired))
  <2>1. rewired \in [1 .. N -> ToSet(rewired)]
    BY <1>1 DEF ToSet
  <2>2. rewired \in Seq(ToSet(rewired)) /\ DOMAIN rewired = 1 .. N
    BY <1>1, <2>1
  <2> HIDE DEF rewired
  <2> QED  BY <1>1, <2>2
<1>6. keep \in SUBSET (1 .. N) /\ \A i \in 1 .. N : i \in keep <=> ~ Twin(after[i - 1], rewired[i])
  BY <1>1
<1> HIDE DEF rewired, keep
<1>7. Sound(rewired, n)
  BY <1>1, <1>4, <1>5 DEF Sound
<1> DEFINE T == {i \in 0 .. N : Redirected(after[i], es, n, keep, i)}
<1>8. \A i \in 0 .. N : i \in T
  <2>1. 0 \in T
    <3>1. after[0].remap = [s \in 1 .. n |-> s] /\ DOMAIN after[0].seen = {}
      BY <1>2
    <3>2. \A s : Has(s, es, 1 .. N, 1) => Has(s, es, keep, 1)
      BY DEF Has
    <3>3. Redirected(after[0], es, n, keep, 0)
      BY <3>1, <3>2 DEF Redirected
    <3> QED  BY <1>1, <3>3
  <2>2. ASSUME NEW i \in 0 .. N - 1, i \in T
        PROVE  i + 1 \in T
    <3>1. i + 1 \in 1 .. N /\ i + 1 \in 0 .. N /\ (i + 1) - 1 = i /\ i \in 0 .. N
      BY <1>1
    <3>2. after[i] \in Merging(n) /\ after[i + 1] = MergeOne(after[i], es[i + 1])
      BY <1>2, <3>1
    <3>3. i + 1 \in keep <=> ~ Twin(after[i], Rewired(es[i + 1], after[i].remap))
      BY <1>4, <1>6, <3>1
    <3>4. Redirected(after[i], es, n, keep, i)
      BY <2>2
    <3>5. Redirected(after[i + 1], es, n, keep, i + 1)
      BY <1>1, <1>6, <3>2, <3>3, <3>4, MergeOneRedirects
    <3> QED  BY <3>1, <3>5
  <2> HIDE DEF T, N
  <2> QED  BY <1>1, <2>1, <2>2, InductTo, Zenon
<1> HIDE DEF T
<1>9. ASSUME NEW i \in keep, NEW s \in ToSet(rewired[i].ins)
      PROVE  Has(s, rewired, keep, i)
  <2>1. i \in 1 .. N
    BY <1>6
  <2>2. PICK u \in ToSet(es[i].ins) : s = after[i - 1].remap[u]
    BY <1>4, <2>1 DEF ReadsOf
  <2>3. Has(u, es, 1 .. N, i) /\ u \in 1 .. n
    BY <1>1, <2>1, ShapedFacts DEF WellFormed, Flows, Sound
  <2>4. Redirected(after[i - 1], es, n, keep, i - 1) /\ (i - 1) + 1 = i
    BY <1>4, <1>8, <2>1 DEF T
  <2>5. Has(s, es, keep, i)
    BY <2>2, <2>3, <2>4 DEF Redirected
  <2> QED  BY <1>4, <1>6, <2>5 DEF Has
<1>10. qs \in Seq(1 .. n) /\ \A s \in ToSet(qs) : \E u \in ToSet(os) : u \in 1 .. n /\ s = to[u]
  <2>1. DOMAIN os = 1 .. Len(os) /\ Len(os) \in Nat /\ \A j \in 1 .. Len(os) : os[j] \in 1 .. n
    BY <1>1
  <2>2. to \in [1 .. n -> 1 .. n]
    <3>1. after[N] \in Merging(n)
      BY <1>1, <1>2
    <3> QED  BY <1>3, <3>1 DEF Merging
  <2>3. \A j \in 1 .. Len(os) : qs[j] = to[os[j]] /\ qs[j] \in 1 .. n
    BY <2>1, <2>2
  <2>4. qs \in [1 .. Len(os) -> 1 .. n]
    BY <2>1, <2>3
  <2> HIDE DEF qs
  <2>5. qs \in Seq(1 .. n) /\ DOMAIN qs = 1 .. Len(os)
    BY <2>1, <2>4, FromInterval
  <2>6. ToSet(qs) = {qs[j] : j \in 1 .. Len(os)} /\ \A j \in 1 .. Len(os) : os[j] \in ToSet(os)
    BY <2>1, <2>5 DEF ToSet
  <2> QED  BY <2>1, <2>3, <2>5, <2>6
<1> HIDE DEF qs
<1>11. ASSUME NEW s \in ToSet(qs)
       PROVE  Has(s, rewired, keep, N + 1)
  <2>1. PICK u \in ToSet(os) : u \in 1 .. n /\ s = after[N].remap[u]
    BY <1>3, <1>10
  <2>2. Has(u, es, 1 .. N, N + 1)
    BY DEF WellFormed, Flows
  <2>3. Redirected(after[N], es, n, keep, N)
    <3>1. N \in 0 .. N
      BY <1>1
    <3> QED  BY <1>8, <3>1 DEF T
  <2>4. Has(s, es, keep, N + 1)
    BY <2>1, <2>2, <2>3 DEF Redirected
  <2> QED  BY <1>4, <1>6, <2>4 DEF Has
<1>12. Flows(rewired, keep, qs)
  BY <1>5, <1>9, <1>11 DEF Flows
<1>13. WellFormed(Gathered(rewired, keep), n, qs)
  BY <1>5, <1>6, <1>7, <1>10, <1>12, GatherFlows
<1> QED  BY <1>3, <1>13 DEF qs

---------------------------------------------------------------------------
(* DcePass.  What is live before an entry is live before every earlier one *)
(* until it is made, so what an entry that stays reads stays too.          *)
LiveGrows(live, es, os) ==
  /\ live[0] = ToSet(os)
  /\ \A k \in 1 .. Len(es) :
       live[k] = IF Used(es[Len(es) + 1 - k], live[k - 1])
                 THEN live[k - 1] \cup ToSet(es[Len(es) + 1 - k].ins) ELSE live[k - 1]

LEMMA LiveBeforeIs ==
  ASSUME NEW es, NEW n, Sound(es, n), NEW os \in Seq(1 .. n)
  PROVE  LiveGrows(LiveBefore(es, os), es, os)
<1> DEFINE N == Len(es)
           V == SUBSET (1 .. n)
           Next1(l, k) == IF Used(es[N + 1 - k], l) THEN l \cup ToSet(es[N + 1 - k].ins) ELSE l
           step == [p \in V \X (1 .. N) |-> Next1(p[1], p[2])]
           base == ToSet(os)
           all == CHOOSE f : f = [k \in 0 .. N |-> IF k = 0 THEN base ELSE Next1(f[k - 1], k)]
<1>1. N \in Nat /\ n \in Nat /\ \A i \in 1 .. N : Shaped(es[i], n)
  BY OfItsOwn DEF Sound
<1>2. LiveBefore(es, os) = all
  BY DEF LiveBefore
<1>3. base \in V
  BY OfItsOwn
<1>4. \A l \in V, k \in 1 .. N : Next1(l, k) \in V
  <2> SUFFICES ASSUME NEW l \in V, NEW k \in 1 .. N
               PROVE  Next1(l, k) \in V
    OBVIOUS
  <2>1. N + 1 - k \in 1 .. N
    BY <1>1
  <2>2. ToSet(es[N + 1 - k].ins) \subseteq 1 .. n
    BY <1>1, <2>1, ShapedFacts
  <2> QED  BY <2>2
<1> HIDE DEF Next1, V, base
<1>5. step \in [V \X (1 .. N) -> V]
  BY <1>4
<1>6. PICK f \in [0 .. N -> V] : Chained(f, base, step, N)
  <2> HIDE DEF step, N
  <2> QED  BY <1>1, <1>3, <1>5, Chain
<1>7. /\ f[0] = base
      /\ \A i \in 1 .. N : f[i] = Next1(f[i - 1], i)
  <2>1. ASSUME NEW i \in 1 .. N
        PROVE  f[i] = Next1(f[i - 1], i)
    <3>1. f[i - 1] \in V
      <4>1. i - 1 \in 0 .. N
        <5> HIDE DEF N
        <5> QED  BY <1>1
      <4> QED  BY <4>1
    <3>2. <<f[i - 1], i>> \in V \X (1 .. N)
      BY <3>1
    <3> QED  BY <1>6, <3>1, <3>2 DEF Chained
  <2> HIDE DEF step
  <2> QED  BY <1>6, <2>1 DEF Chained
<1>8. f = [i \in 0 .. N |-> IF i = 0 THEN base ELSE Next1(f[i - 1], i)]
  <2>1. DOMAIN f = 0 .. N /\ f = [i \in 0 .. N |-> f[i]]
    OBVIOUS
  <2>2. \A i \in 0 .. N : i # 0 => i \in 1 .. N
    BY <1>1
  <2> QED  BY <1>7, <2>1, <2>2
<1>9. all = [i \in 0 .. N |-> IF i = 0 THEN base ELSE Next1(all[i - 1], i)]
  BY <1>8
<1> HIDE DEF all
<1>10. all[0] = base /\ \A k \in 1 .. N : all[k] = Next1(all[k - 1], k)
  <2>1. 0 \in 0 .. N /\ \A k \in 1 .. N : k \in 0 .. N /\ k # 0
    BY <1>1
  <2> QED  BY <1>9, <2>1
<1> QED  BY <1>2, <1>10 DEF Next1, base, LiveGrows

\* DcePass leaves a tape.
LEMMA NeededFlows ==
  ASSUME NEW es, NEW n, NEW os, WellFormed(es, n, os)
  PROVE  WellFormed(Needed(es, os), n, os)
<1> DEFINE N == Len(es)
           live == LiveBefore(es, os)
           keep == {i \in DOMAIN es : Used(es[i], live[N - i])}
<1>1. Sound(es, n) /\ N \in Nat /\ n \in Nat /\ DOMAIN es = 1 .. N /\ os \in Seq(1 .. n)
  BY WellFormedFacts
<1>2. Needed(es, os) = Gathered(es, keep)
  BY DEF Needed
<1>3. /\ live[0] = ToSet(os)
      /\ \A k \in 1 .. N :
           live[k] = IF Used(es[N + 1 - k], live[k - 1])
                     THEN live[k - 1] \cup ToSet(es[N + 1 - k].ins) ELSE live[k - 1]
  BY <1>1, LiveBeforeIs DEF LiveGrows
<1>4. keep \in SUBSET (1 .. N) /\ \A i \in 1 .. N : i \in keep <=> Used(es[i], live[N - i])
  BY <1>1
<1> HIDE DEF live, keep
<1>5. ASSUME NEW k \in 0 .. N, NEW m \in k .. N, NEW s \in live[k]
      PROVE  s \in live[m]
  <2> DEFINE T == {j \in 0 .. N : j >= k => s \in live[j]}
  <2>1. 0 \in T
    BY <1>1
  <2>2. ASSUME NEW j \in 0 .. N - 1, j \in T
        PROVE  j + 1 \in T
    <3>1. j + 1 \in 1 .. N /\ j + 1 \in 0 .. N /\ (j + 1) - 1 = j
      BY <1>1
    <3>2. live[j] \subseteq live[j + 1]
      BY <1>3, <3>1
    <3>3. CASE j >= k
      BY <2>2, <3>1, <3>2, <3>3
    <3>4. CASE ~ (j >= k)
      <4>1. j + 1 >= k => j + 1 = k
        BY <1>1, <3>4
      <4> QED  BY <1>5, <3>1, <4>1
    <3> QED  BY <3>3, <3>4
  <2>3. \A j \in 0 .. N : j \in T
    <3> HIDE DEF T, N
    <3> QED  BY <1>1, <2>1, <2>2, InductTo, Zenon
  <2>4. m \in 0 .. N /\ m >= k
    BY <1>1
  <2> QED  BY <2>3, <2>4
<1>6. ASSUME NEW s, NEW i \in 1 .. N + 1, Has(s, es, 1 .. N, i), s \in live[N + 1 - i]
      PROVE  Has(s, es, keep, i)
  <2>1. CASE s \in Args
    BY <2>1 DEF Has
  <2>2. CASE s \notin Args
    <3>1. PICK d \in 1 .. N : d < i /\ s \in ToSet(es[d].outs)
      BY <1>6, <2>2 DEF Has
    <3>2. N + 1 - i \in 0 .. N /\ N - d \in (N + 1 - i) .. N
      BY <1>1, <3>1
    <3>3. s \in live[N - d]
      BY <1>5, <1>6, <3>2
    <3>4. d \in keep
      BY <1>4, <3>1, <3>3 DEF Used
    <3> QED  BY <3>1, <3>4 DEF Has
  <2> QED  BY <2>1, <2>2
<1>7. ASSUME NEW i \in keep, NEW s \in ToSet(es[i].ins)
      PROVE  Has(s, es, keep, i)
  <2>1. i \in 1 .. N /\ i \in 1 .. N + 1 /\ N + 1 - i \in 1 .. N /\ N + 1 - (N + 1 - i) = i /\ (N + 1 - i) - 1 = N - i
    BY <1>1, <1>4
  <2>2. Used(es[i], live[N - i])
    BY <1>4, <2>1
  <2>3. live[N + 1 - i] = live[N - i] \cup ToSet(es[i].ins)
    BY <1>3, <2>1, <2>2
  <2>4. Has(s, es, 1 .. N, i)
    BY <2>1 DEF WellFormed, Flows
  <2> QED  BY <1>6, <2>1, <2>3, <2>4
<1>8. ASSUME NEW s \in ToSet(os)
      PROVE  Has(s, es, keep, N + 1)
  <2>1. N + 1 \in 1 .. N + 1 /\ N + 1 - (N + 1) = 0
    BY <1>1
  <2>2. Has(s, es, 1 .. N, N + 1)
    BY DEF WellFormed, Flows
  <2> QED  BY <1>3, <1>6, <2>1, <2>2
<1>9. Flows(es, keep, os)
  BY <1>7, <1>8 DEF Flows
<1> QED  BY <1>1, <1>2, <1>4, <1>9, GatherFlows

---------------------------------------------------------------------------
(* FoldConstants.  The worklist ends, and by then every entry behind a     *)
(* slot that is read across the boundary is kept or folded.                *)
Classes == {"unseen", "queued", "keep", "fold"}
Queues(N) ==
  {st \in [class : [1 .. N -> Classes], work : Seq(1 .. N), total : Nat] :
     /\ \A i, j \in 1 .. Len(st.work) : i # j => st.work[i] # st.work[j]
     /\ \A i \in 1 .. Len(st.work) : st.class[st.work[i]] = "queued"
     /\ \A d \in 1 .. N : st.class[d] = "queued" => \E i \in 1 .. Len(st.work) : st.work[i] = d}
Seen(st, es, consts, s) == \A d \in DefinedBy(es, s) \cap consts : st.class[d] # "unseen"
Later(st, nx, N) ==
  \A d \in 1 .. N : nx.class[d] = st.class[d] \/ (st.class[d] = "unseen" /\ nx.class[d] = "queued")

LEMMA QueueFacts ==
  ASSUME NEW N \in Nat, NEW st \in Queues(N)
  PROVE  /\ st.class \in [1 .. N -> Classes] /\ st.work \in Seq(1 .. N) /\ st.total \in Nat
         /\ Len(st.work) \in Nat
         /\ st = [class |-> st.class, work |-> st.work, total |-> st.total]
         /\ \A i \in 1 .. Len(st.work) : st.work[i] \in 1 .. N
         /\ \A i, j \in 1 .. Len(st.work) : i # j => st.work[i] # st.work[j]
         /\ \A i \in 1 .. Len(st.work) : st.class[st.work[i]] = "queued"
         /\ \A d \in 1 .. N : st.class[d] = "queued" => \E i \in 1 .. Len(st.work) : st.work[i] = d
<1>1. st \in [class : [1 .. N -> Classes], work : Seq(1 .. N), total : Nat]
  BY DEF Queues
<1>2. st.work \in Seq(1 .. N) /\ Len(st.work) \in Nat
  BY <1>1
<1>3. \A q \in Seq(1 .. N) : \A i \in 1 .. Len(q) : q[i] \in 1 .. N
  OBVIOUS
<1> QED  BY <1>1, <1>2, <1>3 DEF Queues

LEMMA QueueIs ==
  ASSUME NEW N \in Nat, NEW class \in [1 .. N -> Classes], NEW work \in Seq(1 .. N), NEW total \in Nat,
         \A i, j \in 1 .. Len(work) : i # j => work[i] # work[j],
         \A i \in 1 .. Len(work) : class[work[i]] = "queued",
         \A d \in 1 .. N : class[d] = "queued" => \E i \in 1 .. Len(work) : work[i] = d
  PROVE  [class |-> class, work |-> work, total |-> total] \in Queues(N)
BY DEF Queues

LEMMA DefinedOnce ==
  ASSUME NEW es, NEW n, Sound(es, n), NEW s, NEW d \in DefinedBy(es, s), NEW e \in DefinedBy(es, s)
  PROVE  d = e /\ d \in 1 .. Len(es)
<1>1. DOMAIN es = 1 .. Len(es)
  BY OfItsOwn DEF Sound
<1>2. d \in 1 .. Len(es) /\ e \in 1 .. Len(es) /\ s \in ToSet(es[d].outs) /\ s \in ToSet(es[e].outs)
  BY <1>1 DEF DefinedBy
<1>3. d # e => ToSet(es[d].outs) \cap ToSet(es[e].outs) = {}
  BY <1>2 DEF Sound
<1> QED  BY <1>2, <1>3

LEMMA ConsiderOneIs ==
  ASSUME NEW es, NEW n, Sound(es, n), NEW consts, NEW st \in Queues(Len(es)), NEW s,
         NEW nx, nx = ConsiderOne(es, consts, st, s)
  PROVE  nx \in Queues(Len(es)) /\ Later(st, nx, Len(es)) /\ Seen(nx, es, consts, s)
<1> DEFINE N == Len(es)
           unseen == {d \in DefinedBy(es, s) \cap consts : st.class[d] = "unseen"}
           d == CHOOSE d \in unseen : TRUE
<1>1. N \in Nat
  BY OfItsOwn DEF Sound
<1>2. /\ st.class \in [1 .. N -> Classes] /\ st.work \in Seq(1 .. N) /\ st.total \in Nat
      /\ Len(st.work) \in Nat
      /\ st = [class |-> st.class, work |-> st.work, total |-> st.total]
      /\ \A i \in 1 .. Len(st.work) : st.work[i] \in 1 .. N
      /\ \A i, j \in 1 .. Len(st.work) : i # j => st.work[i] # st.work[j]
      /\ \A i \in 1 .. Len(st.work) : st.class[st.work[i]] = "queued"
      /\ \A e \in 1 .. N : st.class[e] = "queued" => \E i \in 1 .. Len(st.work) : st.work[i] = e
  BY <1>1, QueueFacts
<1>3. CASE unseen = {}
  <2>1. nx = st
    BY <1>3 DEF ConsiderOne
  <2>2. Seen(st, es, consts, s)
    BY <1>3 DEF Seen
  <2> QED  BY <2>1, <2>2 DEF Later
<1>4. CASE unseen # {}
  <2> DEFINE class == [st.class EXCEPT ![d] = "queued"]
             work == Append(st.work, d)
  <2>1. d \in unseen
    BY <1>4
  <2>2. nx = [st EXCEPT !.class[d] = "queued", !.work = Append(st.work, d)]
    BY <1>4 DEF ConsiderOne
  <2>3. d \in DefinedBy(es, s) /\ d \in 1 .. N /\ st.class[d] = "unseen"
    BY <2>1, DefinedOnce
  <2> HIDE DEF d
  <2>4. nx = [class |-> class, work |-> work, total |-> st.total]
    BY <1>2, <2>2
  <2>5. class \in [1 .. N -> Classes] /\ class[d] = "queued" /\ \A e \in 1 .. N : e # d => class[e] = st.class[e]
    BY <1>2, <2>3 DEF Classes
  <2>6. /\ work \in Seq(1 .. N) /\ Len(work) = Len(st.work) + 1 /\ work[Len(st.work) + 1] = d
        /\ \A i \in 1 .. Len(st.work) : work[i] = st.work[i]
    BY <1>2, <2>3
  <2> HIDE DEF class, work
  <2>7. \A i \in 1 .. Len(work) : i = Len(st.work) + 1 \/ i \in 1 .. Len(st.work)
    BY <1>2, <2>6
  <2>8. \A i \in 1 .. Len(st.work) : work[i] # d /\ i \in 1 .. Len(work) /\ work[i] \in 1 .. N
    <3>1. \A i \in 1 .. Len(st.work) : i \in 1 .. Len(work)
      BY <1>2, <2>6
    <3>2. \A i \in 1 .. Len(st.work) : st.class[work[i]] = "queued" /\ work[i] \in 1 .. N
      BY <1>2, <2>6
    <3> QED  BY <2>3, <3>1, <3>2
  <2>9. \A i, j \in 1 .. Len(work) : i # j => work[i] # work[j]
    <3> SUFFICES ASSUME NEW i \in 1 .. Len(work), NEW j \in 1 .. Len(work), i # j
                 PROVE  work[i] # work[j]
      OBVIOUS
    <3>1. CASE i = Len(st.work) + 1
      BY <2>6, <2>7, <2>8, <3>1
    <3>2. CASE j = Len(st.work) + 1
      BY <2>6, <2>7, <2>8, <3>2
    <3>3. CASE i \in 1 .. Len(st.work) /\ j \in 1 .. Len(st.work)
      BY <1>2, <2>6, <3>3
    <3> QED  BY <2>7, <3>1, <3>2, <3>3
  <2>10. \A i \in 1 .. Len(work) : class[work[i]] = "queued"
    <3> SUFFICES ASSUME NEW i \in 1 .. Len(work) PROVE class[work[i]] = "queued"
      OBVIOUS
    <3>1. CASE i = Len(st.work) + 1
      BY <2>5, <2>6, <3>1
    <3>2. CASE i \in 1 .. Len(st.work)
      <4>1. work[i] = st.work[i] /\ work[i] # d /\ work[i] \in 1 .. N
        BY <2>6, <2>8, <3>2
      <4>2. st.class[st.work[i]] = "queued"
        BY <1>2, <3>2
      <4> QED  BY <2>5, <4>1, <4>2
    <3> QED  BY <2>7, <3>1, <3>2
  <2>11. \A e \in 1 .. N : class[e] = "queued" => \E i \in 1 .. Len(work) : work[i] = e
    <3> SUFFICES ASSUME NEW e \in 1 .. N, class[e] = "queued"
                 PROVE  \E i \in 1 .. Len(work) : work[i] = e
      OBVIOUS
    <3>1. CASE e = d
      <4>1. Len(st.work) + 1 \in 1 .. Len(work)
        BY <1>2, <2>6
      <4> QED  BY <2>6, <3>1, <4>1
    <3>2. CASE e # d
      <4>1. PICK i \in 1 .. Len(st.work) : st.work[i] = e
        BY <1>2, <2>5, <3>2
      <4> QED  BY <2>6, <2>8, <4>1
    <3> QED  BY <3>1, <3>2
  <2>12. nx \in Queues(N)
    <3>1. st.total \in Nat /\ class \in [1 .. N -> Classes] /\ work \in Seq(1 .. N)
      BY <1>2, <2>5, <2>6
    <3> HIDE DEF N
    <3>2. [class |-> class, work |-> work, total |-> st.total] \in Queues(N)
      BY <1>1, <2>9, <2>10, <2>11, <3>1, QueueIs
    <3> QED  BY <2>4, <3>2
  <2>13. nx.class = class
    BY <2>4
  <2>14. Later(st, nx, N)
    BY <2>3, <2>5, <2>13 DEF Later
  <2>15. \A e \in DefinedBy(es, s) : e = d
    BY <2>3, DefinedOnce
  <2>16. Seen(nx, es, consts, s)
    BY <2>5, <2>13, <2>15 DEF Seen
  <2> QED  BY <2>12, <2>14, <2>16
<1> QED  BY <1>3, <1>4

\* What was seen stays so.
LEMMA LaterSees ==
  ASSUME NEW es, NEW n, Sound(es, n), NEW consts, NEW st, NEW nx, NEW s,
         Later(st, nx, Len(es)), Seen(st, es, consts, s)
  PROVE  Seen(nx, es, consts, s)
<1>1. \A d \in DefinedBy(es, s) : d \in 1 .. Len(es)
  BY DefinedOnce
<1> QED  BY <1>1 DEF Later, Seen

LEMMA ConsideredIs ==
  ASSUME NEW es, NEW n, Sound(es, n), NEW consts, NEW st \in Queues(Len(es)),
         NEW slots \in Seq(1 .. n), NEW nx, nx = Considered(es, consts, st, slots)
  PROVE  /\ nx \in Queues(Len(es)) /\ Later(st, nx, Len(es))
         /\ \A s \in ToSet(slots) : Seen(nx, es, consts, s)
<1> DEFINE M == Len(slots)
           V == Queues(Len(es))
           Next1(q, k) == ConsiderOne(es, consts, q, slots[k])
           step == [p \in V \X (1 .. M) |-> Next1(p[1], p[2])]
           all == CHOOSE f : f = [k \in 0 .. M |-> IF k = 0 THEN st ELSE Next1(f[k - 1], k)]
<1>1. M \in Nat /\ ToSet(slots) = {slots[k] : k \in 1 .. M}
  BY OfItsOwn
<1>2. nx = all[M]
  BY DEF Considered
<1>3. \A q \in V, k \in 1 .. M : /\ Next1(q, k) \in V /\ Later(q, Next1(q, k), Len(es))
                                 /\ Seen(Next1(q, k), es, consts, slots[k])
  BY ConsiderOneIs
<1> HIDE DEF Next1, V
<1>4. step \in [V \X (1 .. M) -> V] /\ st \in V
  BY <1>3 DEF V
<1>5. PICK f \in [0 .. M -> V] : Chained(f, st, step, M)
  <2> HIDE DEF step, M
  <2> QED  BY <1>1, <1>4, Chain
<1>6. /\ f[0] = st
      /\ \A k \in 1 .. M : f[k] = Next1(f[k - 1], k) /\ f[k - 1] \in V
  <2>1. ASSUME NEW k \in 1 .. M
        PROVE  f[k] = Next1(f[k - 1], k) /\ f[k - 1] \in V
    <3>1. f[k - 1] \in V
      BY <1>1
    <3>2. <<f[k - 1], k>> \in V \X (1 .. M)
      BY <3>1
    <3> QED  BY <1>5, <3>1, <3>2 DEF Chained
  <2> HIDE DEF step
  <2> QED  BY <1>5, <2>1 DEF Chained
<1>7. f = [k \in 0 .. M |-> IF k = 0 THEN st ELSE Next1(f[k - 1], k)]
  <2>1. DOMAIN f = 0 .. M /\ f = [k \in 0 .. M |-> f[k]]
    OBVIOUS
  <2>2. \A k \in 0 .. M : k # 0 => k \in 1 .. M
    BY <1>1
  <2> QED  BY <1>6, <2>1, <2>2
<1>8. all = [k \in 0 .. M |-> IF k = 0 THEN st ELSE Next1(all[k - 1], k)]
  BY <1>7
<1> HIDE DEF all
<1> DEFINE T == {k \in 0 .. M : /\ all[k] \in V /\ Later(st, all[k], Len(es))
                                /\ \A j \in 1 .. k : Seen(all[k], es, consts, slots[j])}
<1>9. 0 \in T
  <2>1. all[0] = st /\ 0 \in 0 .. M
    BY <1>1, <1>8
  <2> QED  BY <1>4, <2>1 DEF Later
<1>10. ASSUME NEW k \in 0 .. M - 1, k \in T
       PROVE  k + 1 \in T
  <2>1. k + 1 \in 0 .. M /\ k + 1 \in 1 .. M /\ k + 1 # 0 /\ (k + 1) - 1 = k /\ k \in Nat
    BY <1>1
  <2>2. all[k + 1] = Next1(all[k], k + 1) /\ all[k] \in V
    BY <1>8, <1>10, <2>1
  <2>3. /\ all[k + 1] \in V /\ Later(all[k], all[k + 1], Len(es))
        /\ Seen(all[k + 1], es, consts, slots[k + 1])
    BY <1>3, <2>1, <2>2
  <2>4. Later(st, all[k + 1], Len(es))
    BY <1>10, <2>3 DEF Later
  <2>5. \A j \in 1 .. k + 1 : Seen(all[k + 1], es, consts, slots[j])
    <3>1. \A j \in 1 .. k : Seen(all[k + 1], es, consts, slots[j])
      BY <1>10, <2>3, LaterSees
    <3>2. \A j \in 1 .. k + 1 : j \in 1 .. k \/ j = k + 1
      BY <2>1
    <3> QED  BY <2>3, <3>1, <3>2
  <2> QED  BY <2>1, <2>3, <2>4, <2>5
<1> HIDE DEF T
<1>11. M \in T
  <2> HIDE DEF M
  <2>1. \A k \in 0 .. M : k \in T
    BY <1>1, <1>9, <1>10, InductTo, Zenon
  <2> QED  BY <1>1, <2>1
<1> QED  BY <1>1, <1>2, <1>11 DEF T, V

LEMMA Joined ==
  ASSUME NEW V, NEW q \in Seq(V), NEW x \in Seq(V)
  PROVE  ToSet(q) \subseteq ToSet(q \o x) /\ ToSet(x) \subseteq ToSet(q \o x)
<1> DEFINE y == q \o x
<1>1. /\ y \in Seq(V) /\ Len(y) = Len(q) + Len(x) /\ Len(q) \in Nat /\ Len(x) \in Nat
      /\ \A k \in 1 .. Len(q) : y[k] = q[k]
      /\ \A k \in 1 .. Len(x) : y[Len(q) + k] = x[k]
  OBVIOUS
<1> HIDE DEF y
<1>2. ToSet(y) = {y[k] : k \in 1 .. Len(y)}
  BY <1>1, OfItsOwn
<1>3. ToSet(q) = {q[k] : k \in 1 .. Len(q)}
  BY OfItsOwn
<1>4. ToSet(x) = {x[k] : k \in 1 .. Len(x)}
  BY OfItsOwn
<1>5. \A k \in 1 .. Len(q) : q[k] \in ToSet(y)
  <2>1. \A k \in 1 .. Len(q) : k \in 1 .. Len(y)
    BY <1>1
  <2> QED  BY <1>1, <1>2, <2>1
<1>6. \A k \in 1 .. Len(x) : x[k] \in ToSet(y)
  <2>1. \A k \in 1 .. Len(x) : Len(q) + k \in 1 .. Len(y)
    BY <1>1
  <2> QED  BY <1>1, <1>2, <2>1
<1>7. ToSet(q) \subseteq ToSet(y) /\ ToSet(x) \subseteq ToSet(y)
  BY <1>3, <1>4, <1>5, <1>6
<1> QED  BY <1>7 DEF y

LEMMA ReadAcrossReads ==
  ASSUME NEW es, NEW n, Sound(es, n), NEW consts
  PROVE  /\ ReadAcross(es, consts) \in Seq(1 .. n)
         /\ \A i \in 1 .. Len(es) : i \notin consts =>
              ToSet(es[i].ins) \subseteq ToSet(ReadAcross(es, consts))
<1> DEFINE N == Len(es)
           V == Seq(1 .. n)
           Next1(q, i) == IF i \in consts THEN q ELSE q \o es[i].ins
           step == [p \in V \X (1 .. N) |-> Next1(p[1], p[2])]
           read == CHOOSE f : f = [i \in 0 .. N |-> IF i = 0 THEN <<>> ELSE Next1(f[i - 1], i)]
<1>1. N \in Nat /\ n \in Nat /\ <<>> \in V /\ \A i \in 1 .. N : es[i].ins \in V
  <2>1. N \in Nat /\ n \in Nat /\ \A i \in 1 .. N : Shaped(es[i], n)
    BY OfItsOwn DEF Sound
  <2> HIDE DEF step, read, Next1
  <2>2. \A i \in 1 .. N : es[i].ins \in Seq(1 .. n)
    BY <2>1, ShapedFacts
  <2> QED  BY <2>1, <2>2
<1>2. ReadAcross(es, consts) = read[N]
  BY DEF ReadAcross
<1>3. \A q \in V, i \in 1 .. N : Next1(q, i) \in V
  <2>1. \A q, x \in Seq(1 .. n) : q \o x \in Seq(1 .. n)
    OBVIOUS
  <2> QED  BY <1>1, <2>1
<1>4. \A q \in V, i \in 1 .. N : /\ ToSet(q) \subseteq ToSet(Next1(q, i))
                                 /\ i \notin consts => ToSet(es[i].ins) \subseteq ToSet(Next1(q, i))
  <2> SUFFICES ASSUME NEW q \in V, NEW i \in 1 .. N, i \notin consts
               PROVE  ToSet(q) \subseteq ToSet(Next1(q, i)) /\ ToSet(es[i].ins) \subseteq ToSet(Next1(q, i))
    OBVIOUS
  <2>1. q \in Seq(1 .. n) /\ es[i].ins \in Seq(1 .. n) /\ Next1(q, i) = q \o es[i].ins
    BY <1>1
  <2> HIDE DEF V, Next1
  <2> QED  BY <2>1, Joined
<1> HIDE DEF Next1, V
<1>5. step \in [V \X (1 .. N) -> V]
  BY <1>3
<1>6. PICK f \in [0 .. N -> V] : Chained(f, <<>>, step, N)
  <2> HIDE DEF step, N
  <2> QED  BY <1>1, <1>5, Chain
<1>7. /\ f[0] = <<>>
      /\ \A i \in 1 .. N : f[i] = Next1(f[i - 1], i)
  <2>1. ASSUME NEW i \in 1 .. N
        PROVE  f[i] = Next1(f[i - 1], i)
    <3>1. f[i - 1] \in V
      BY <1>1
    <3>2. <<f[i - 1], i>> \in V \X (1 .. N)
      BY <3>1
    <3> QED  BY <1>6, <3>1, <3>2 DEF Chained
  <2> HIDE DEF step
  <2> QED  BY <1>6, <2>1 DEF Chained
<1>8. f = [i \in 0 .. N |-> IF i = 0 THEN <<>> ELSE Next1(f[i - 1], i)]
  <2>1. DOMAIN f = 0 .. N /\ f = [i \in 0 .. N |-> f[i]]
    OBVIOUS
  <2>2. \A i \in 0 .. N : i # 0 => i \in 1 .. N
    BY <1>1
  <2> QED  BY <1>7, <2>1, <2>2
<1>9. read = [i \in 0 .. N |-> IF i = 0 THEN <<>> ELSE Next1(read[i - 1], i)]
  BY <1>8
<1> HIDE DEF read
<1> DEFINE T == {i \in 0 .. N : /\ read[i] \in V
                                /\ \A j \in 1 .. i : j \notin consts => ToSet(es[j].ins) \subseteq ToSet(read[i])}
<1>10. 0 \in T
  <2>1. read[0] = <<>> /\ 0 \in 0 .. N
    BY <1>1, <1>9
  <2> QED  BY <1>1, <2>1
<1>11. ASSUME NEW i \in 0 .. N - 1, i \in T
       PROVE  i + 1 \in T
  <2>1. i + 1 \in 0 .. N /\ i + 1 \in 1 .. N /\ i + 1 # 0 /\ (i + 1) - 1 = i /\ i \in Nat
    BY <1>1
  <2>2. read[i + 1] = Next1(read[i], i + 1) /\ read[i] \in V
    BY <1>9, <1>11, <2>1
  <2>3. /\ read[i + 1] \in V /\ ToSet(read[i]) \subseteq ToSet(read[i + 1])
        /\ i + 1 \notin consts => ToSet(es[i + 1].ins) \subseteq ToSet(read[i + 1])
    BY <1>3, <1>4, <2>1, <2>2 DEF Next1
  <2>4. \A j \in 1 .. i + 1 : j \in 1 .. i \/ j = i + 1
    BY <2>1
  <2>5. \A j \in 1 .. i + 1 : j \notin consts => ToSet(es[j].ins) \subseteq ToSet(read[i + 1])
    BY <1>11, <2>3, <2>4
  <2> QED  BY <2>1, <2>3, <2>5
<1> HIDE DEF T
<1>12. N \in T
  <2> HIDE DEF N
  <2>1. \A i \in 0 .. N : i \in T
    BY <1>1, <1>10, <1>11, InductTo, Zenon
  <2> QED  BY <1>1, <2>1
<1> QED  BY <1>2, <1>12 DEF T, V

LEMMA FrontFacts ==
  ASSUME NEW V, NEW q \in Seq(V), q # <<>>
  PROVE  /\ Front(q) \in Seq(V) /\ Len(Front(q)) = Len(q) - 1
         /\ \A i \in 1 .. Len(q) - 1 : Front(q)[i] = q[i]
<1> DEFINE m == Len(q) - 1
           r == [i \in 1 .. m |-> q[i]]
<1>1. Len(q) \in Nat /\ Len(q) # 0 /\ q \in [1 .. Len(q) -> V]
  OBVIOUS
<1>2. m \in Nat /\ \A i \in 1 .. m : i \in 1 .. Len(q)
  BY <1>1
<1>3. r \in [1 .. m -> V]
  BY <1>1, <1>2
<1>4. Front(q) = r
  <2>1. Front(q) = SubSeq(q, 1, m)
    BY DEF Front
  <2>2. SubSeq(q, 1, m) = [i \in 1 .. m |-> q[i]]
    BY <1>1, <1>2
  <2> QED  BY <2>1, <2>2
<1>5. r \in Seq(V) /\ Len(r) = m
  <2> HIDE DEF r, m
  <2> QED  BY <1>2, <1>3, FromInterval
<1> QED  BY <1>4, <1>5

(* Entries the worklist is done with. *)
Settled(st, N) == {d \in 1 .. N : st.class[d] \in {"keep", "fold"}}
(* A step of the worklist. *)
Pops(st, nx, es, consts) ==
  /\ nx \in Queues(Len(es))
  /\ \A d \in 1 .. Len(es) : st.class[d] # "unseen" => nx.class[d] # "unseen"
  /\ \A d \in Settled(st, Len(es)) : nx.class[d] = st.class[d]
  /\ \A d \in 1 .. Len(es) : nx.class[d] = "keep" /\ st.class[d] # "keep" =>
       \A s \in ToSet(es[d].ins) : Seen(nx, es, consts, s)
  /\ IF st.work = <<>> THEN nx = st ELSE Settled(nx, Len(es)) \ Settled(st, Len(es)) # {}

LEMMA PoppedIs ==
  ASSUME NEW es, NEW n, Sound(es, n), NEW consts, NEW st \in Queues(Len(es)),
         NEW nx, nx = Popped(es, consts, st)
  PROVE  Pops(st, nx, es, consts)
<1> DEFINE N == Len(es)
           d == Last(st.work)
<1>1. N \in Nat /\ n \in Nat /\ \A i \in 1 .. N : Shaped(es[i], n)
  BY OfItsOwn DEF Sound
<1>2. /\ st.class \in [1 .. N -> Classes] /\ st.work \in Seq(1 .. N) /\ st.total \in Nat
      /\ Len(st.work) \in Nat
      /\ st = [class |-> st.class, work |-> st.work, total |-> st.total]
      /\ \A i \in 1 .. Len(st.work) : st.work[i] \in 1 .. N
      /\ \A i, j \in 1 .. Len(st.work) : i # j => st.work[i] # st.work[j]
      /\ \A i \in 1 .. Len(st.work) : st.class[st.work[i]] = "queued"
      /\ \A e \in 1 .. N : st.class[e] = "queued" => \E i \in 1 .. Len(st.work) : st.work[i] = e
  BY <1>1, QueueFacts
<1>3. CASE st.work = <<>>
  <2>1. nx = st
    BY <1>3 DEF Popped
  <2> QED  BY <1>3, <2>1 DEF Pops, Settled
<1>4. CASE st.work # <<>>
  <2> DEFINE M == Len(st.work)
             rest == Front(st.work)
  <2>1. M \in Nat /\ M >= 1 /\ M \in 1 .. M /\ M - 1 \in Nat
    BY <1>2, <1>4
  <2>2. d = st.work[M] /\ d \in 1 .. N /\ st.class[d] = "queued"
    BY <1>2, <2>1 DEF Last
  <2>3. /\ rest \in Seq(1 .. N) /\ Len(rest) = M - 1
        /\ \A i \in 1 .. M - 1 : rest[i] = st.work[i] /\ i \in 1 .. M /\ i # M
    <3>1. rest \in Seq(1 .. N) /\ Len(rest) = M - 1 /\ \A i \in 1 .. M - 1 : rest[i] = st.work[i]
      BY <1>2, <1>4, FrontFacts
    <3>2. \A i \in 1 .. M - 1 : i \in 1 .. M /\ i # M
      BY <2>1
    <3> QED  BY <3>1, <3>2
  <2> HIDE DEF d, rest
  <2>4. \A i \in 1 .. M - 1 : rest[i] # d /\ rest[i] \in 1 .. N /\ st.class[rest[i]] = "queued"
    <3> SUFFICES ASSUME NEW i \in 1 .. M - 1
                 PROVE  rest[i] # d /\ rest[i] \in 1 .. N /\ st.class[rest[i]] = "queued"
      OBVIOUS
    <3>1. rest[i] = st.work[i] /\ i \in 1 .. M /\ i # M /\ M \in 1 .. M
      BY <2>1, <2>3
    <3> QED  BY <1>2, <2>2, <3>1
  <2>5. \A e \in 1 .. N : st.class[e] = "queued" /\ e # d => \E i \in 1 .. Len(rest) : rest[i] = e
    <3> SUFFICES ASSUME NEW e \in 1 .. N, st.class[e] = "queued", e # d
                 PROVE  \E i \in 1 .. Len(rest) : rest[i] = e
      OBVIOUS
    <3>1. PICK i \in 1 .. M : st.work[i] = e
      BY <1>2
    <3>2. i \in 1 .. M - 1
      BY <2>1, <2>2, <3>1
    <3> QED  BY <2>3, <3>1, <3>2
  <2>6. \A i, j \in 1 .. Len(rest) : i # j => rest[i] # rest[j]
    <3> SUFFICES ASSUME NEW i \in 1 .. M - 1, NEW j \in 1 .. M - 1, i # j
                 PROVE  rest[i] # rest[j]
      BY <2>3
    <3> QED  BY <1>2, <2>3
  <2>7. ASSUME NEW c \in {"keep", "fold"}, NEW total \in Nat,
               NEW class, class = [st.class EXCEPT ![d] = c]
        PROVE  /\ [class |-> class, work |-> rest, total |-> total] \in Queues(N)
               /\ class \in [1 .. N -> Classes] /\ class[d] = c
               /\ \A e \in 1 .. N : e # d => class[e] = st.class[e]
    <3>1. /\ class \in [1 .. N -> Classes] /\ class[d] = c
          /\ \A e \in 1 .. N : e # d => class[e] = st.class[e]
      BY <1>2, <2>2, <2>7 DEF Classes
    <3>2. \A i \in 1 .. Len(rest) : class[rest[i]] = "queued"
      BY <2>3, <2>4, <3>1
    <3>3. \A e \in 1 .. N : class[e] = "queued" => \E i \in 1 .. Len(rest) : rest[i] = e
      BY <2>5, <3>1
    <3> HIDE DEF N
    <3>4. [class |-> class, work |-> rest, total |-> total] \in Queues(N)
      BY <1>1, <2>3, <2>6, <3>1, <3>2, <3>3, QueueIs
    <3> QED  BY <3>1, <3>4
  <2>8. CASE MayFold(es[d], st.total)
    <3> DEFINE class == [st.class EXCEPT ![d] = "fold"]
               total == st.total + es[d].bytes
    <3>1. total \in Nat
      <4>1. Shaped(es[d], n)
        BY <1>1, <2>2
      <4>2. es[d].bytes \in Nat
        BY <4>1 DEF Shaped
      <4> QED  BY <1>2, <4>2
    <3>2. nx = [[st EXCEPT !.work = rest] EXCEPT !.class[d] = "fold", !.total = st.total + es[d].bytes]
      BY <1>2, <1>4, <2>8 DEF Popped, d, rest
    <3>3. nx = [class |-> class, work |-> rest, total |-> total]
      BY <1>2, <3>2
    <3> HIDE DEF class, total
    <3>4. /\ nx \in Queues(N) /\ nx.class = class /\ class[d] = "fold"
          /\ \A e \in 1 .. N : e # d => class[e] = st.class[e]
      BY <2>7, <3>1, <3>3 DEF class
    <3>5. d \in Settled(nx, N) \ Settled(st, N)
      BY <2>2, <3>4 DEF Settled
    <3>6. /\ \A e \in 1 .. N : st.class[e] # "unseen" => nx.class[e] # "unseen"
          /\ \A e \in Settled(st, N) : nx.class[e] = st.class[e]
          /\ \A e \in 1 .. N : nx.class[e] = "keep" => st.class[e] = "keep"
      BY <2>2, <3>4 DEF Settled
    <3> QED  BY <1>4, <3>4, <3>5, <3>6 DEF Pops
  <2>9. CASE ~ MayFold(es[d], st.total)
    <3> DEFINE class == [st.class EXCEPT ![d] = "keep"]
               kept == [class |-> class, work |-> rest, total |-> st.total]
    <3>1. nx = Considered(es, consts, [[st EXCEPT !.work = rest] EXCEPT !.class[d] = "keep"], es[d].ins)
      BY <1>4, <2>9 DEF Popped, d, rest
    <3>2. nx = Considered(es, consts, kept, es[d].ins)
      <4>1. [[st EXCEPT !.work = rest] EXCEPT !.class[d] = "keep"] = kept
        <5>1. st = [class |-> st.class, work |-> st.work, total |-> st.total]
          BY <1>2
        <5>2. [st EXCEPT !.work = rest] = [class |-> st.class, work |-> rest, total |-> st.total]
          BY <5>1
        <5> DEFINE m == [st EXCEPT !.work = rest]
        <5>3. m = [class |-> st.class, work |-> rest, total |-> st.total]
          BY <5>2
        <5> HIDE DEF m
        <5>4. [m EXCEPT !.class[d] = "keep"] = kept
          BY <5>3
        <5> QED  BY <5>4 DEF m
      <4> QED  BY <3>1, <4>1
    <3>3. kept.class = class
      OBVIOUS
    <3> HIDE DEF class
    <3>4. /\ kept \in Queues(N) /\ class[d] = "keep"
          /\ \A e \in 1 .. N : e # d => class[e] = st.class[e]
      BY <1>2, <2>7 DEF class
    <3> HIDE DEF kept
    <3>5. es[d].ins \in Seq(1 .. n)
      BY <1>1, <2>2, ShapedFacts
    <3>6. /\ nx \in Queues(N) /\ Later(kept, nx, N)
          /\ \A s \in ToSet(es[d].ins) : Seen(nx, es, consts, s)
      BY <3>2, <3>4, <3>5, ConsideredIs
    <3>7. nx.class[d] = "keep"
      BY <2>2, <3>3, <3>4, <3>6 DEF Later
    <3>8. d \in Settled(nx, N) \ Settled(st, N)
      BY <2>2, <3>7 DEF Settled
    <3>9. /\ \A e \in 1 .. N : st.class[e] # "unseen" => nx.class[e] # "unseen"
          /\ \A e \in Settled(st, N) : nx.class[e] = st.class[e]
          /\ \A e \in 1 .. N : e # d /\ nx.class[e] = "keep" => st.class[e] = "keep"
      BY <2>2, <3>3, <3>4, <3>6, <3>7 DEF Settled, Later
    <3> QED  BY <1>4, <3>6, <3>8, <3>9 DEF Pops
  <2> QED  BY <2>8, <2>9
<1> QED  BY <1>3, <1>4

LEMMA FinitePart ==
  ASSUME NEW N \in Nat, NEW S \in SUBSET (1 .. N)
  PROVE  /\ IsFiniteSet(S) /\ Cardinality(S) \in Nat /\ Cardinality(S) <= N
         /\ Cardinality(S) = N => S = 1 .. N
<1>1. 1 \in Int /\ N \in Int
  OBVIOUS
<1>2. IsFiniteSet(1 .. N) /\ Cardinality(1 .. N) = IF 1 > N THEN 0 ELSE N - 1 + 1
  BY <1>1, FS_Interval
<1>3. Cardinality(1 .. N) = N
  BY <1>2
<1>4. IsFiniteSet(S) /\ Cardinality(S) <= N /\ (N = Cardinality(S) => 1 .. N = S)
  BY <1>2, <1>3, FS_Subset
<1>5. Cardinality(S) \in Nat
  BY <1>4, FS_CardinalityType
<1> QED  BY <1>4, <1>5

(* Every entry of the tape's constant part behind slot s is decided on. *)
Behind(class, es, consts, s) == \A d \in DefinedBy(es, s) \cap consts : class[d] \in {"keep", "fold"}
(* After k steps of the worklist. *)
Worked(st, es, consts, slots, k) ==
  /\ st \in Queues(Len(es))
  /\ \A s \in ToSet(slots) : Seen(st, es, consts, s)
  /\ \A d \in 1 .. Len(es) : st.class[d] = "keep" => \A s \in ToSet(es[d].ins) : Seen(st, es, consts, s)
  /\ st.work = <<>> \/ Cardinality(Settled(st, Len(es))) >= k

LEMMA WorksOn ==
  ASSUME NEW es, NEW n, Sound(es, n), NEW consts, NEW slots, NEW k \in Nat,
         NEW st, Worked(st, es, consts, slots, k), NEW nx, nx = Popped(es, consts, st)
  PROVE  Worked(nx, es, consts, slots, k + 1)
<1> DEFINE N == Len(es)
<1>1. N \in Nat
  BY OfItsOwn DEF Sound
<1>2. st \in Queues(N)
  BY DEF Worked
<1>3. Pops(st, nx, es, consts)
  BY <1>2, PoppedIs
<1>4. \A s : Seen(st, es, consts, s) => Seen(nx, es, consts, s)
  <2>1. \A s : \A d \in DefinedBy(es, s) : d \in 1 .. N
    BY DefinedOnce
  <2> QED  BY <1>3, <2>1 DEF Pops, Seen
<1>5. ASSUME NEW d \in 1 .. N, nx.class[d] = "keep", NEW s \in ToSet(es[d].ins)
      PROVE  Seen(nx, es, consts, s)
  <2>1. CASE st.class[d] = "keep"
    BY <1>4, <2>1 DEF Worked
  <2>2. CASE st.class[d] # "keep"
    BY <1>3, <1>5, <2>2 DEF Pops
  <2> QED  BY <2>1, <2>2
<1>6. nx.work = <<>> \/ Cardinality(Settled(nx, N)) >= k + 1
  <2>1. CASE st.work = <<>>
    BY <1>3, <2>1 DEF Pops
  <2>2. CASE st.work # <<>>
    <3> DEFINE S == Settled(st, N)
               T == Settled(nx, N)
    <3>1. S \subseteq T /\ T # S
      <4>1. T \ S # {}
        BY <1>3, <2>2 DEF Pops
      <4>2. \A d \in S : nx.class[d] = st.class[d]
        BY <1>3 DEF Pops
      <4>3. S \subseteq T
        BY <4>2 DEF Settled
      <4> QED  BY <4>1, <4>3
    <3>2. S \subseteq 1 .. N /\ T \subseteq 1 .. N
      BY DEF Settled
    <3>3. Cardinality(S) >= k
      BY <2>2 DEF Worked
    <3> HIDE DEF S, T
    <3>4. IsFiniteSet(T) /\ Cardinality(S) \in Nat /\ Cardinality(T) \in Nat
      BY <1>1, <3>2, FinitePart
    <3>5. Cardinality(S) <= Cardinality(T) /\ Cardinality(S) # Cardinality(T)
      BY <3>1, <3>4, FS_Subset
    <3> QED  BY <3>3, <3>4, <3>5 DEF T
  <2> QED  BY <2>1, <2>2
<1> QED  BY <1>3, <1>4, <1>5, <1>6 DEF Worked, Pops

LEMMA ClassifiedIs ==
  ASSUME NEW es, NEW n, Sound(es, n), NEW consts, NEW os \in Seq(1 .. n),
         NEW class, class = Classified(es, os, consts)
  PROVE  /\ class \in [1 .. Len(es) -> Classes]
         /\ \A s \in ToSet(os) : Behind(class, es, consts, s)
         /\ \A i \in 1 .. Len(es) : i \notin consts \/ class[i] = "keep" =>
              \A s \in ToSet(es[i].ins) : Behind(class, es, consts, s)
<1> DEFINE N == Len(es)
           read == ReadAcross(es, consts)
           slots == read \o os
           zero == [class |-> [i \in DOMAIN es |-> "unseen"], work |-> <<>>, total |-> 0]
           base == Considered(es, consts, zero, slots)
           V == Queues(N)
           Next1(st) == Popped(es, consts, st)
           step == [p \in V \X (1 .. N) |-> Next1(p[1])]
           all == CHOOSE f : f = [k \in 0 .. N |-> IF k = 0 THEN base ELSE Next1(f[k - 1])]
<1>1. N \in Nat /\ n \in Nat /\ DOMAIN es = 1 .. N
  BY OfItsOwn DEF Sound
<1>2. class = all[N].class
  BY DEF Classified
<1>3. /\ read \in Seq(1 .. n) /\ slots \in Seq(1 .. n)
      /\ \A s \in ToSet(os) : s \in ToSet(slots)
      /\ \A i \in 1 .. N : i \notin consts => ToSet(es[i].ins) \subseteq ToSet(slots)
  <2>1. read \in Seq(1 .. n) /\ \A i \in 1 .. N : i \notin consts => ToSet(es[i].ins) \subseteq ToSet(read)
    BY ReadAcrossReads
  <2> HIDE DEF read
  <2>2. slots \in Seq(1 .. n)
    BY <2>1
  <2>3. ToSet(read) \subseteq ToSet(slots) /\ ToSet(os) \subseteq ToSet(slots)
    BY <2>1, Joined
  <2> QED  BY <2>1, <2>2, <2>3
<1>4. zero \in V
  <2> DEFINE none == [i \in DOMAIN es |-> "unseen"]
             work == <<>>
  <2>1. none \in [1 .. N -> Classes] /\ \A d \in 1 .. N : none[d] # "queued"
    BY <1>1 DEF Classes
  <2>2. work \in Seq(1 .. N) /\ 1 .. Len(work) = {} /\ 0 \in Nat
    OBVIOUS
  <2> HIDE DEF none, work, N
  <2>3. [class |-> none, work |-> work, total |-> 0] \in Queues(N)
    BY <1>1, <2>1, <2>2, QueueIs
  <2> QED  BY <2>3 DEF none, work
<1> HIDE DEF slots, read
<1>5. Worked(base, es, consts, slots, 0)
  <2>1. base \in V /\ Later(zero, base, N) /\ \A s \in ToSet(slots) : Seen(base, es, consts, s)
    BY <1>3, <1>4, ConsideredIs
  <2>2. \A d \in 1 .. N : zero.class[d] = "unseen"
    BY <1>1
  <2> HIDE DEF base, zero
  <2>3. \A d \in 1 .. N : base.class[d] # "keep"
    BY <2>1, <2>2 DEF Later
  <2>4. Settled(base, N) \subseteq 1 .. N
    BY DEF Settled
  <2>5. Cardinality(Settled(base, N)) \in Nat
    BY <1>1, <2>4, FinitePart
  <2> QED  BY <2>1, <2>3, <2>5 DEF Worked
<1> HIDE DEF base, zero
<1>6. \A st \in V : Next1(st) \in V
  <2> SUFFICES ASSUME NEW st \in V
               PROVE  Next1(st) \in V
    OBVIOUS
  <2>1. Pops(st, Next1(st), es, consts)
    BY PoppedIs
  <2> QED  BY <2>1 DEF Pops
<1>7. \A st, k : k \in Nat /\ Worked(st, es, consts, slots, k) => Worked(Next1(st), es, consts, slots, k + 1)
  BY WorksOn
<1>8. base \in V
  BY <1>5 DEF Worked
<1> HIDE DEF Next1, V
<1>9. step \in [V \X (1 .. N) -> V]
  BY <1>6
<1>10. PICK f \in [0 .. N -> V] : Chained(f, base, step, N)
  <2> HIDE DEF step, N
  <2> QED  BY <1>1, <1>8, <1>9, Chain
<1>11. /\ f[0] = base
       /\ \A k \in 1 .. N : f[k] = Next1(f[k - 1])
  <2>1. ASSUME NEW k \in 1 .. N
        PROVE  f[k] = Next1(f[k - 1])
    <3>1. f[k - 1] \in V
      <4>1. k - 1 \in 0 .. N
        BY <1>1
      <4> HIDE DEF N
      <4> QED  BY <4>1
    <3>2. <<f[k - 1], k>> \in V \X (1 .. N)
      BY <3>1
    <3> QED  BY <1>10, <3>1, <3>2 DEF Chained
  <2> HIDE DEF step
  <2> QED  BY <1>10, <2>1 DEF Chained
<1>12. f = [k \in 0 .. N |-> IF k = 0 THEN base ELSE Next1(f[k - 1])]
  <2>1. DOMAIN f = 0 .. N /\ f = [k \in 0 .. N |-> f[k]]
    OBVIOUS
  <2>2. \A k \in 0 .. N : k # 0 => k \in 1 .. N
    BY <1>1
  <2> QED  BY <1>11, <2>1, <2>2
<1>13. all = [k \in 0 .. N |-> IF k = 0 THEN base ELSE Next1(all[k - 1])]
  BY <1>12
<1> HIDE DEF all
<1> DEFINE T == {k \in 0 .. N : Worked(all[k], es, consts, slots, k)}
<1>14. 0 \in T
  <2>1. all[0] = base /\ 0 \in 0 .. N
    BY <1>1, <1>13
  <2> QED  BY <1>5, <2>1
<1>15. ASSUME NEW k \in 0 .. N - 1, k \in T
       PROVE  k + 1 \in T
  <2>1. k + 1 \in 0 .. N /\ k + 1 # 0 /\ (k + 1) - 1 = k /\ k \in Nat
    BY <1>1
  <2>2. all[k + 1] = Next1(all[k])
    BY <1>13, <2>1
  <2> QED  BY <1>7, <1>15, <2>1, <2>2
<1> HIDE DEF T
<1>16. N \in T
  <2> HIDE DEF N
  <2>1. \A k \in 0 .. N : k \in T
    BY <1>1, <1>14, <1>15, InductTo, Zenon
  <2> QED  BY <1>1, <2>1
<1> DEFINE st == all[N]
<1>17. Worked(st, es, consts, slots, N) /\ class = st.class
  BY <1>2, <1>16 DEF T
<1> HIDE DEF st
<1>18. /\ st.class \in [1 .. N -> Classes] /\ st.work \in Seq(1 .. N)
       /\ \A i \in 1 .. Len(st.work) : st.work[i] \in 1 .. N /\ st.class[st.work[i]] = "queued"
       /\ \A d \in 1 .. N : st.class[d] = "queued" => \E i \in 1 .. Len(st.work) : st.work[i] = d
  BY <1>1, <1>17, QueueFacts DEF Worked
<1>19. st.work = <<>>
  <2> SUFFICES ASSUME st.work # <<>> PROVE FALSE
    OBVIOUS
  <2>1. 1 \in 1 .. Len(st.work)
    BY <1>18
  <2>2. st.work[1] \in (1 .. N) \ Settled(st, N)
    BY <1>18, <2>1 DEF Settled
  <2>3. Settled(st, N) \subseteq 1 .. N
    BY DEF Settled
  <2>4. Cardinality(Settled(st, N)) >= N
    BY <1>17 DEF Worked
  <2>6. /\ Cardinality(Settled(st, N)) <= N /\ Cardinality(Settled(st, N)) \in Nat
        /\ Cardinality(Settled(st, N)) = N => Settled(st, N) = 1 .. N
    BY <1>1, <2>3, FinitePart
  <2>7. Settled(st, N) = 1 .. N
    BY <1>1, <2>4, <2>6
  <2> QED  BY <2>2, <2>7
<1>20. \A d \in 1 .. N : st.class[d] # "queued"
  <2>1. Len(st.work) = 0
    BY <1>19
  <2> QED  BY <1>18, <2>1
<1>21. \A s : Seen(st, es, consts, s) => Behind(class, es, consts, s)
  <2>1. \A s : \A d \in DefinedBy(es, s) : d \in 1 .. N
    BY DefinedOnce
  <2> QED  BY <1>17, <1>18, <1>20, <2>1 DEF Seen, Behind, Classes
<1> QED  BY <1>3, <1>17, <1>18, <1>21 DEF Worked

LEMMA PayloadShaped ==
  ASSUME NEW e, NEW n, Shaped(e, n), e.op # "loop", NEW p,
         NEW r, r = ConstEntry(e.outs, p)
  PROVE  Shaped(r, n) /\ r.outs = e.outs /\ r.ins = <<>>
<1>1. r = [op |-> "const", ins |-> <<>>, outs |-> e.outs, payload |-> p,
           trip |-> 0, move |-> <<>>, bytes |-> Bytes("const")]
  BY DEF ConstEntry, Entry
<1>2. /\ r.op = "const" /\ r.ins = <<>> /\ r.outs = e.outs /\ r.payload = p
      /\ r.trip = 0 /\ r.move = <<>> /\ r.bytes = Bytes("const")
  BY <1>1
<1>3. Len(e.outs) = 1 /\ e.outs \in Seq(1 .. n)
  BY DEF Shaped, Results
<1>4. Operands(r) /\ Results(r)
  BY <1>2, <1>3 DEF Operands, Results
<1>5. <<>> \in Seq(1 .. n) /\ Bytes("const") \in Nat
  BY BytesAssumption
<1> QED  BY <1>1, <1>2, <1>3, <1>4, <1>5 DEF Shaped

\* FoldConstants leaves a tape.
LEMMA FoldedFlows ==
  ASSUME NEW es, NEW n, NEW os, WellFormed(es, n, os)
  PROVE  WellFormed(Folded(es, os).entries, n, os)
<1> DEFINE N == Len(es)
           consts == ConstEntries(es)
           class == Classified(es, os, consts)
           kept == {i \in DOMAIN es : i \notin consts \/ class[i] = "keep"}
           read == ToSet(os) \cup UNION {ToSet(es[i].ins) : i \in kept}
           needed == {i \in DOMAIN es \ kept : class[i] = "fold" /\ ToSet(es[i].outs) \cap read # {}}
           values == Evaluated(es, frame.n)
           payload(e) == ConstEntry(e.outs, values[e.outs[1]].term)
           fes == [i \in DOMAIN es |-> IF i \in kept THEN es[i] ELSE payload(es[i])]
           keep == kept \cup needed
<1>1. Folded(es, os).entries = Gathered(fes, keep)
  BY DEF Folded
<1>2. Sound(es, n) /\ N \in Nat /\ n \in Nat /\ DOMAIN es = 1 .. N /\ os \in Seq(1 .. n)
  BY WellFormedFacts
<1>3. \A i \in 1 .. N : i \in consts => es[i].op # "loop"
  BY DEF ConstEntries, IsConst, FoldableOp, PurePassOp
<1>4. /\ \A s \in ToSet(os) : Behind(class, es, consts, s)
      /\ \A i \in kept : \A s \in ToSet(es[i].ins) : Behind(class, es, consts, s)
  <2> HIDE DEF consts, class
  <2>1. /\ \A s \in ToSet(os) : Behind(class, es, consts, s)
        /\ \A i \in 1 .. N : i \notin consts \/ class[i] = "keep" =>
              \A s \in ToSet(es[i].ins) : Behind(class, es, consts, s)
    <3>1. class = Classified(es, os, consts)
      BY DEF class
    <3> QED  BY <1>2, <3>1, ClassifiedIs
  <2> QED  BY <1>2, <2>1
<1> HIDE DEF consts, class, values
<1>5. ASSUME NEW i \in 1 .. N
      PROVE  /\ Shaped(fes[i], n) /\ fes[i].outs = es[i].outs
             /\ fes[i].ins = IF i \in kept THEN es[i].ins ELSE <<>>
  <2>1. Shaped(es[i], n)
    BY <1>2 DEF Sound
  <2>2. CASE i \in kept
    BY <1>2, <2>1, <2>2
  <2>3. CASE i \notin kept
    <3>1. fes[i] = payload(es[i])
      BY <1>2, <2>3
    <3>2. es[i].op # "loop"
      BY <1>2, <1>3, <2>3
    <3> HIDE DEF fes, kept
    <3> QED  BY <2>1, <2>3, <3>1, <3>2, PayloadShaped
  <2> QED  BY <2>2, <2>3
<1>6. Len(fes) = N /\ fes \in Seq(ToSet(fes))
  <2>1. DOMAIN fes = 1 .. N
    BY <1>2
  <2> HIDE DEF payload
  <2>2. fes \in [1 .. N -> ToSet(fes)]
    BY <1>2 DEF ToSet
  <2> HIDE DEF fes
  <2> QED  BY <1>2, <2>2, FromInterval
<1>7. /\ kept \subseteq 1 .. N /\ keep \in SUBSET (1 .. N)
      /\ \A i \in 1 .. N : i \notin consts => i \in kept
      /\ \A i \in 1 .. N : class[i] = "keep" => i \in kept
  BY <1>2
<1>8. \A i \in 1 .. N : \A s \in read :
        i \in consts /\ class[i] = "fold" /\ s \in ToSet(es[i].outs) => i \in keep
  BY <1>2
<1>9. /\ \A s \in ToSet(os) : s \in read
      /\ \A i \in kept : \A s \in ToSet(es[i].ins) : s \in read
  OBVIOUS
<1>10. \A i \in keep : i \in kept \/ fes[i].ins = <<>>
  BY <1>2, <1>5
<1> HIDE DEF fes, kept, read, needed, keep
<1>11. Sound(fes, n)
  BY <1>2, <1>5, <1>6 DEF Sound
<1>12. ASSUME NEW i \in 1 .. N + 1, NEW s \in read, Has(s, es, 1 .. N, i), Behind(class, es, consts, s)
       PROVE  Has(s, fes, keep, i)
  <2>1. CASE s \in Args
    BY <2>1 DEF Has
  <2>2. CASE s \notin Args
    <3>1. PICK d \in 1 .. N : d < i /\ s \in ToSet(es[d].outs)
      BY <1>12, <2>2 DEF Has
    <3>2. d \in DefinedBy(es, s)
      BY <1>2, <3>1 DEF DefinedBy
    <3>3. d \in consts => class[d] \in {"keep", "fold"}
      BY <1>12, <3>2 DEF Behind
    <3>4. d \in keep
      BY <1>7, <1>8, <3>1, <3>3 DEF keep
    <3>5. s \in ToSet(fes[d].outs)
      BY <1>5, <3>1
    <3> QED  BY <3>1, <3>4, <3>5 DEF Has
  <2> QED  BY <2>1, <2>2
<1>13. ASSUME NEW i \in keep, NEW s \in ToSet(fes[i].ins)
       PROVE  Has(s, fes, keep, i)
  <2>1. i \in 1 .. N /\ i \in 1 .. N + 1
    BY <1>2, <1>7
  <2>2. CASE i \in kept
    <3>1. s \in ToSet(es[i].ins)
      BY <1>5, <2>1, <2>2
    <3>2. Has(s, es, 1 .. N, i)
      BY <2>1, <3>1 DEF WellFormed, Flows
    <3> QED  BY <1>4, <1>9, <1>12, <2>1, <2>2, <3>1, <3>2
  <2>3. CASE fes[i].ins = <<>>
    BY <2>3 DEF ToSet
  <2> QED  BY <1>10, <2>2, <2>3
<1>14. ASSUME NEW s \in ToSet(os)
       PROVE  Has(s, fes, keep, N + 1)
  <2>1. Has(s, es, 1 .. N, N + 1) /\ N + 1 \in 1 .. N + 1
    BY <1>2 DEF WellFormed, Flows
  <2> QED  BY <1>4, <1>9, <1>12, <2>1
<1>15. Flows(fes, keep, os)
  BY <1>6, <1>13, <1>14 DEF Flows
<1>16. WellFormed(Gathered(fes, keep), n, os)
  BY <1>2, <1>6, <1>7, <1>11, <1>15, GatherFlows
<1> QED  BY <1>1, <1>16

---------------------------------------------------------------------------
(* The lowering of a block: every slot bound so far is made by an entry or *)
(* is an argument's, and an entry reads slots bound before it.             *)
Complete(es, n) ==
  /\ Sound(es, n) /\ Args \subseteq 1 .. n
  /\ \A i \in 1 .. Len(es) : \A s \in ToSet(es[i].ins) : Has(s, es, 1 .. Len(es), i)
  /\ \A s \in 1 .. n : Has(s, es, 1 .. Len(es), Len(es) + 1)
Names(slot, values, n) == \A v \in values : v \in DOMAIN slot /\ slot[v] \in 1 .. n
IsFrame(f) == f = [slot |-> f.slot, n |-> f.n, entries |-> f.entries,
                   alias |-> f.alias, cview |-> f.cview, consts |-> f.consts]
KnownIn(q) ==
  {v \in {<<0, a>> : a \in Args} \cup {<<i, j>> : i \in DOMAIN q, j \in 1 .. 2} :
     v[1] = 0 \/ v[2] <= Arity(q[v[1]])}
(* A frame that has lowered the values of `values`. *)
LoweredTo(f, values) ==
  /\ IsFrame(f) /\ Complete(f.entries, f.n) /\ Names(f.slot, values, f.n)
  /\ \A c \in DOMAIN f.consts : f.consts[c] \in 1 .. f.n

LEMMA Wider ==
  ASSUME NEW e, NEW n \in Nat, NEW m \in Nat, Shaped(e, n)
  PROVE  Shaped(e, n + m)
<1>1. \A i \in 1 .. n : i \in 1 .. n + m
  OBVIOUS
<1>2. \A q \in Seq(1 .. n) : q \in Seq(1 .. n + m)
  <2> SUFFICES ASSUME NEW q \in Seq(1 .. n)
               PROVE  q \in Seq(1 .. n + m)
    OBVIOUS
  <2>1. Len(q) \in Nat /\ q \in [1 .. Len(q) -> 1 .. n]
    OBVIOUS
  <2>2. q \in [1 .. Len(q) -> 1 .. n + m]
    BY <1>1, <2>1
  <2> QED  BY <2>1, <2>2, FromInterval
<1> QED  BY <1>2 DEF Shaped

LEMMA Appended ==
  ASSUME NEW es, NEW n, Complete(es, n), NEW m \in Nat, NEW e, Shaped(e, n + m),
         ToSet(e.outs) = n + 1 .. n + m, ToSet(e.ins) \subseteq 1 .. n
  PROVE  Complete(Append(es, e), n + m)
<1> DEFINE N == Len(es)
           r == Append(es, e)
<1>1. Sound(es, n) /\ es \in Seq(ToSet(es)) /\ N \in Nat /\ n \in Nat /\ Args \subseteq 1 .. n
  BY OfItsOwn DEF Complete, Sound
<1>2. /\ r \in Seq(ToSet(es) \cup {e}) /\ Len(r) = N + 1 /\ r[N + 1] = e
      /\ \A i \in 1 .. N : r[i] = es[i]
  BY <1>1
<1> HIDE DEF r
<1>3. r \in Seq(ToSet(r))
  BY <1>2, OfItsOwn
<1>4. \A i \in 1 .. Len(r) : i \in 1 .. N \/ i = N + 1
  BY <1>1, <1>2
<1>5. \A i \in 1 .. N : ToSet(es[i].outs) \subseteq 1 .. n /\ ToSet(es[i].outs) \cap Args = {}
  BY <1>1, ShapedFacts DEF Sound
<1>6. (n + 1 .. n + m) \cap (1 .. n) = {}
  BY <1>1
<1>7. Sound(r, n + m)
  <2>1. \A i \in 1 .. Len(r) : Shaped(r[i], n + m) /\ ToSet(r[i].outs) \cap Args = {}
    <3>1. \A i \in 1 .. N : Shaped(es[i], n + m)
      BY <1>1, Wider DEF Sound
    <3>2. ToSet(e.outs) \cap Args = {}
      BY <1>1, <1>6
    <3> QED  BY <1>2, <1>4, <1>5, <3>1, <3>2
  <2>2. \A i, j \in 1 .. Len(r) : i # j => ToSet(r[i].outs) \cap ToSet(r[j].outs) = {}
    <3> SUFFICES ASSUME NEW i \in 1 .. Len(r), NEW j \in 1 .. Len(r), i # j
                 PROVE  ToSet(r[i].outs) \cap ToSet(r[j].outs) = {}
      OBVIOUS
    <3>1. CASE i = N + 1
      <4>1. j \in 1 .. N
        BY <1>4, <3>1
      <4> QED  BY <1>2, <1>5, <1>6, <3>1, <4>1
    <3>2. CASE j = N + 1
      <4>1. i \in 1 .. N
        BY <1>4, <3>2
      <4> QED  BY <1>2, <1>5, <1>6, <3>2, <4>1
    <3>3. CASE i \in 1 .. N /\ j \in 1 .. N
      <4>1. ToSet(es[i].outs) \cap ToSet(es[j].outs) = {}
        BY <1>1, <3>3 DEF Sound
      <4> QED  BY <1>2, <3>3, <4>1
    <3> QED  BY <1>4, <3>1, <3>2, <3>3
  <2>3. n + m \in Nat
    BY <1>1
  <2> QED  BY <1>3, <2>1, <2>2, <2>3 DEF Sound
<1>8. ASSUME NEW s, NEW i \in 1 .. N + 1, Has(s, es, 1 .. N, i)
      PROVE  Has(s, r, 1 .. Len(r), i) /\ Has(s, r, 1 .. Len(r), N + 2)
  <2>1. CASE s \in Args
    BY <2>1 DEF Has
  <2>2. CASE s \notin Args
    <3>1. PICK d \in 1 .. N : d < i /\ s \in ToSet(es[d].outs)
      BY <1>8, <2>2 DEF Has
    <3>2. d \in 1 .. Len(r) /\ d < N + 2 /\ s \in ToSet(r[d].outs)
      BY <1>1, <1>2, <3>1
    <3> QED  BY <3>1, <3>2 DEF Has
  <2> QED  BY <2>1, <2>2
<1>9. N + 1 \in 1 .. N + 1 /\ Len(r) + 1 = N + 2 /\ N + 1 \in 1 .. Len(r) /\ N + 1 < N + 2
      /\ \A i \in 1 .. N : i \in 1 .. N + 1
  BY <1>1, <1>2
<1>10. \A s \in 1 .. n : Has(s, es, 1 .. N, N + 1)
  BY DEF Complete
<1>11. \A i \in 1 .. Len(r) : \A s \in ToSet(r[i].ins) : Has(s, r, 1 .. Len(r), i)
  <2> SUFFICES ASSUME NEW i \in 1 .. Len(r), NEW s \in ToSet(r[i].ins)
               PROVE  Has(s, r, 1 .. Len(r), i)
    OBVIOUS
  <2>1. CASE i = N + 1
    BY <1>2, <1>8, <1>9, <1>10, <2>1
  <2>2. CASE i \in 1 .. N
    <3>1. Has(s, es, 1 .. N, i)
      BY <1>2, <2>2 DEF Complete
    <3> QED  BY <1>8, <1>9, <2>2, <3>1
  <2> QED  BY <1>4, <2>1, <2>2
<1>12. \A s \in 1 .. n + m : Has(s, r, 1 .. Len(r), Len(r) + 1)
  <2> SUFFICES ASSUME NEW s \in 1 .. n + m
               PROVE  Has(s, r, 1 .. Len(r), Len(r) + 1)
    OBVIOUS
  <2>1. CASE s \in 1 .. n
    BY <1>8, <1>9, <1>10, <2>1
  <2>2. CASE s \notin 1 .. n
    <3>1. s \in ToSet(e.outs)
      BY <1>1, <2>2
    <3> QED  BY <1>2, <1>9, <3>1 DEF Has
  <2> QED  BY <2>1, <2>2
<1>13. Args \subseteq 1 .. n + m
  BY <1>1
<1> QED  BY <1>7, <1>11, <1>12, <1>13 DEF Complete, r

LEMMA WithNames ==
  ASSUME NEW slot, NEW values, NEW n \in Nat, Names(slot, values, n), NEW m \in Nat, n <= m,
         NEW v, NEW s \in 1 .. m
  PROVE  Names(With(slot, v, s), values \cup {v}, m)
<1>1. \A x \in 1 .. n : x \in 1 .. m
  OBVIOUS
<1> QED  BY <1>1 DEF Names, With

(* g is f with taint t joined to slot s. *)
TaintAt(f, s, t, g) ==
  /\ g.alias = IF t.args = {} THEN f.alias ELSE With(f.alias, s, t.args)
  /\ g.cview = IF t.cv THEN f.cview \cup {s} ELSE f.cview

\* A taint touches neither the slots nor the entries.
LEMMA Tainted ==
  ASSUME NEW f, IsFrame(f), NEW s, NEW t, NEW g, g = ApplyTaint(f, s, t)
  PROVE  /\ IsFrame(g) /\ g.slot = f.slot /\ g.n = f.n /\ g.entries = f.entries /\ g.consts = f.consts
         /\ TaintAt(f, s, t, g)
<1> DEFINE al == IF t.args = {} THEN f.alias ELSE With(f.alias, s, t.args)
           cv == IF t.cv THEN f.cview \cup {s} ELSE f.cview
<1>1. f = [slot |-> f.slot, n |-> f.n, entries |-> f.entries,
           alias |-> f.alias, cview |-> f.cview, consts |-> f.consts]
  BY DEF IsFrame
<1>2. g = [f EXCEPT !.alias = al, !.cview = cv]
  BY DEF ApplyTaint
<1> HIDE DEF al, cv
<1>3. g = [slot |-> f.slot, n |-> f.n, entries |-> f.entries,
           alias |-> al, cview |-> cv, consts |-> f.consts]
  BY <1>1, <1>2
<1>4. /\ g.slot = f.slot /\ g.n = f.n /\ g.entries = f.entries
      /\ g.alias = al /\ g.cview = cv /\ g.consts = f.consts
  BY <1>3
<1>5. IsFrame(g)
  BY <1>3, <1>4 DEF IsFrame
<1>6. TaintAt(f, s, t, g)
  BY <1>4 DEF al, cv, TaintAt
<1> QED  BY <1>4, <1>5, <1>6

LEMMA Aliased ==
  ASSUME NEW f, IsFrame(f), NEW v, NEW s, NEW g, g = Alias(f, v, s)
  PROVE  IsFrame(g) /\ g.slot = With(f.slot, v, s) /\ g.n = f.n /\ g.entries = f.entries
         /\ g.consts = f.consts /\ g.alias = f.alias /\ g.cview = f.cview
<1> DEFINE sl == With(f.slot, v, s)
<1>1. f = [slot |-> f.slot, n |-> f.n, entries |-> f.entries,
           alias |-> f.alias, cview |-> f.cview, consts |-> f.consts]
  BY DEF IsFrame
<1>2. g = [f EXCEPT !.slot = sl]
  BY DEF Alias
<1> HIDE DEF sl
<1>3. g = [slot |-> sl, n |-> f.n, entries |-> f.entries,
           alias |-> f.alias, cview |-> f.cview, consts |-> f.consts]
  BY <1>1, <1>2
<1>4. /\ g.slot = sl /\ g.n = f.n /\ g.entries = f.entries
      /\ g.alias = f.alias /\ g.cview = f.cview /\ g.consts = f.consts
  BY <1>3
<1> QED  BY <1>3, <1>4 DEF IsFrame, sl

LEMMA Bound ==
  ASSUME NEW f, IsFrame(f), NEW v, NEW g, g = Bind(f, v)
  PROVE  IsFrame(g) /\ g.slot = With(f.slot, v, f.n + 1) /\ g.n = f.n + 1 /\ g.entries = f.entries
         /\ g.consts = f.consts /\ g.alias = f.alias /\ g.cview = f.cview
<1> DEFINE h == Alias(f, v, f.n + 1)
<1>1. IsFrame(h) /\ h.slot = With(f.slot, v, f.n + 1) /\ h.n = f.n /\ h.entries = f.entries
      /\ h.consts = f.consts /\ h.alias = f.alias /\ h.cview = f.cview
  BY Aliased
<1>2. g = [h EXCEPT !.n = h.n + 1]
  BY DEF Bind
<1> HIDE DEF h
<1>3. h = [slot |-> h.slot, n |-> h.n, entries |-> h.entries,
           alias |-> h.alias, cview |-> h.cview, consts |-> h.consts]
  BY <1>1 DEF IsFrame
<1>4. g = [slot |-> h.slot, n |-> h.n + 1, entries |-> h.entries,
           alias |-> h.alias, cview |-> h.cview, consts |-> h.consts]
  BY <1>2, <1>3
<1>5. /\ g.slot = h.slot /\ g.n = h.n + 1 /\ g.entries = h.entries
      /\ g.alias = h.alias /\ g.cview = h.cview /\ g.consts = h.consts
  BY <1>4
<1> QED  BY <1>1, <1>4, <1>5 DEF IsFrame

LEMMA Emitted ==
  ASSUME NEW f, IsFrame(f), NEW e, NEW g, g = Emit(f, e)
  PROVE  IsFrame(g) /\ g.slot = f.slot /\ g.n = f.n /\ g.entries = Append(f.entries, e)
         /\ g.consts = f.consts /\ g.alias = f.alias /\ g.cview = f.cview
<1> DEFINE es == Append(f.entries, e)
<1>1. f = [slot |-> f.slot, n |-> f.n, entries |-> f.entries,
           alias |-> f.alias, cview |-> f.cview, consts |-> f.consts]
  BY DEF IsFrame
<1>2. g = [f EXCEPT !.entries = es]
  BY DEF Emit
<1> HIDE DEF es
<1>3. g = [slot |-> f.slot, n |-> f.n, entries |-> es,
           alias |-> f.alias, cview |-> f.cview, consts |-> f.consts]
  BY <1>1, <1>2
<1>4. /\ g.slot = f.slot /\ g.n = f.n /\ g.entries = es
      /\ g.alias = f.alias /\ g.cview = f.cview /\ g.consts = f.consts
  BY <1>3
<1> QED  BY <1>3, <1>4 DEF IsFrame, es

(* The entries a handler of one result makes. *)
LEMMA EntryShaped ==
  ASSUME NEW n \in Nat, NEW o \in OpKinds \ {"loop"}, NEW ins \in Seq(1 .. n), NEW t,
         NEW e, e = [Entry(o, ins, <<n + 1>>) EXCEPT !.trip = t] \/ e = Entry(o, ins, <<n + 1>>),
         o \in {"bcast", "view", "ident", "print"} => Len(ins) = 1,
         o = "add" => Len(ins) = 2,
         o = "branch" => Len(ins) = 3 /\ t \in 1 .. 2 /\ e = [Entry(o, ins, <<n + 1>>) EXCEPT !.trip = t]
  PROVE  Shaped(e, n + 1) /\ ToSet(e.outs) = n + 1 .. n + 1 /\ ToSet(e.ins) \subseteq 1 .. n
<1>1. PICK u : e = [op |-> o, ins |-> ins, outs |-> <<n + 1>>, payload |-> NoPayload,
                    trip |-> u, move |-> <<>>, bytes |-> Bytes(o)]
               /\ (o = "branch" => u = t)
  BY DEF Entry
<1>2. /\ e.op = o /\ e.ins = ins /\ e.outs = <<n + 1>> /\ e.payload = NoPayload
      /\ e.trip = u /\ e.move = <<>> /\ e.bytes = Bytes(o)
  BY <1>1
<1>3. \A i \in 1 .. n : i \in 1 .. n + 1
  OBVIOUS
<1>4. ins \in Seq(1 .. n + 1)
  <2>1. Len(ins) \in Nat /\ ins \in [1 .. Len(ins) -> 1 .. n]
    OBVIOUS
  <2>2. ins \in [1 .. Len(ins) -> 1 .. n + 1]
    BY <1>3, <2>1
  <2> QED  BY <2>1, <2>2, FromInterval
<1>5. <<n + 1>> \in Seq(1 .. n + 1) /\ Len(<<n + 1>>) = 1
  <2>1. n + 1 \in 1 .. n + 1
    OBVIOUS
  <2> QED  BY <2>1
<1>6. Bytes(o) \in Nat
  BY BytesAssumption DEF OpKinds
<1>7. Operands(e) /\ Results(e)
  BY <1>1, <1>2, <1>5 DEF Operands, Results, OpKinds
<1>8. Shaped(e, n + 1)
  BY <1>1, <1>2, <1>4, <1>5, <1>6, <1>7 DEF Shaped
<1>9. ToSet(e.outs) = {n + 1} /\ ToSet(e.ins) \subseteq 1 .. n
  <2>1. ToSet(<<n + 1>>) = {n + 1}
    BY DEF ToSet
  <2> QED  BY <1>2, <2>1, OfItsOwn
<1>10. {n + 1} = n + 1 .. n + 1
  OBVIOUS
<1> QED  BY <1>8, <1>9, <1>10

(* An op over values that are known. *)
Proper(op, values) ==
  /\ op.kind \in OpKinds \cup {"barrier"} /\ op.ins \in Seq(values)
  /\ op.kind \in {"bcast", "view", "ident", "print", "barrier"} => Len(op.ins) = 1
  /\ op.kind = "add" => Len(op.ins) = 2
  /\ op.kind = "branch" => Len(op.ins) = 3 /\ op.trip \in 1 .. 2
  /\ op.kind = "loop" => Len(op.ins) = 3 /\ op.trip \in Nat /\ op.move \in Moves

LEMMA SlotsRead ==
  ASSUME NEW slot, NEW values, NEW n \in Nat, Names(slot, values, n), NEW xs \in Seq(values),
         NEW ins, ins = [k \in DOMAIN xs |-> slot[xs[k]]]
  PROVE  ins \in Seq(1 .. n) /\ Len(ins) = Len(xs)
<1>1. Len(xs) \in Nat /\ DOMAIN xs = 1 .. Len(xs) /\ \A k \in 1 .. Len(xs) : xs[k] \in values
  OBVIOUS
<1>2. \A k \in 1 .. Len(xs) : slot[xs[k]] \in 1 .. n
  BY <1>1 DEF Names
<1>3. ins \in [1 .. Len(xs) -> 1 .. n]
  BY <1>1, <1>2
<1> QED  BY <1>1, <1>3, FromInterval

LEMMA FrameFacts ==
  ASSUME NEW f, NEW values, LoweredTo(f, values)
  PROVE  /\ IsFrame(f) /\ f.n \in Nat /\ Complete(f.entries, f.n) /\ Names(f.slot, values, f.n)
         /\ \A c \in DOMAIN f.consts : f.consts[c] \in 1 .. f.n
BY DEF LoweredTo, Complete, Sound

\* An entry of one result, bound to a fresh slot.
LEMMA OneResult ==
  ASSUME NEW f, NEW values, LoweredTo(f, values), NEW v, NEW e,
         Shaped(e, f.n + 1), ToSet(e.outs) = f.n + 1 .. f.n + 1, ToSet(e.ins) \subseteq 1 .. f.n,
         NEW h, IsFrame(h), h.slot = With(f.slot, v, f.n + 1), h.n = f.n + 1, h.entries = f.entries,
         \A c \in DOMAIN h.consts : h.consts[c] \in 1 .. f.n + 1,
         NEW g, g = Emit(h, e)
  PROVE  LoweredTo(g, values \cup {v})
<1>1. f.n \in Nat /\ Complete(f.entries, f.n) /\ Names(f.slot, values, f.n)
  BY FrameFacts
<1>2. /\ IsFrame(g) /\ g.slot = With(f.slot, v, f.n + 1) /\ g.n = f.n + 1
      /\ g.entries = Append(f.entries, e) /\ g.consts = h.consts
  BY Emitted
<1>3. Complete(Append(f.entries, e), f.n + 1)
  BY <1>1, Appended
<1>4. f.n + 1 \in Nat /\ f.n <= f.n + 1 /\ f.n + 1 \in 1 .. f.n + 1
  BY <1>1
<1>5. Names(With(f.slot, v, f.n + 1), values \cup {v}, f.n + 1)
  BY <1>1, <1>4, WithNames
<1> QED  BY <1>2, <1>3, <1>5 DEF LoweredTo

LEMMA OneTainted ==
  ASSUME NEW f, NEW values, LoweredTo(f, values), NEW v, NEW t, NEW e,
         Shaped(e, f.n + 1), ToSet(e.outs) = f.n + 1 .. f.n + 1, ToSet(e.ins) \subseteq 1 .. f.n,
         NEW h, h = ApplyTaint(Bind(f, v), f.n + 1, t), NEW g, g = Emit(h, e)
  PROVE  LoweredTo(g, values \cup {v})
<1> DEFINE b == Bind(f, v)
<1>1. f.n \in Nat /\ IsFrame(f) /\ \A c \in DOMAIN f.consts : f.consts[c] \in 1 .. f.n
  BY FrameFacts
<1>2. /\ IsFrame(b) /\ b.slot = With(f.slot, v, f.n + 1) /\ b.n = f.n + 1
      /\ b.entries = f.entries /\ b.consts = f.consts
  BY <1>1, Bound
<1>3. h = ApplyTaint(b, f.n + 1, t)
  OBVIOUS
<1> HIDE DEF b
<1>4. /\ IsFrame(h) /\ h.slot = With(f.slot, v, f.n + 1) /\ h.n = f.n + 1
      /\ h.entries = f.entries /\ h.consts = f.consts
  BY <1>2, <1>3, Tainted
<1>5. \A x \in 1 .. f.n : x \in 1 .. f.n + 1
  BY <1>1
<1> QED  BY <1>1, <1>4, <1>5, OneResult

LEMMA SimpleLowers ==
  ASSUME NEW f, NEW values, LoweredTo(f, values), NEW op, Proper(op, values), NEW v,
         op.kind \in {"iota", "add", "bcast", "view", "ident", "print"}
  PROVE  LoweredTo(LowerSimple(f, op, v), values \cup {v})
<1> DEFINE ins == [i \in DOMAIN op.ins |-> f.slot[op.ins[i]]]
           b == Bind(f, v)
           e == Entry(op.kind, ins, <<f.n + 1>>)
           args == IF IsIdentity(op.kind) THEN UNION {AliasOf(b, ins[i]) : i \in DOMAIN ins} ELSE {}
           cv == IsViewOp(op.kind) /\ \E i \in DOMAIN ins : ins[i] \in b.cview
           t == [args |-> args, cv |-> cv]
           h == ApplyTaint(b, f.n + 1, t)
<1>1. f.n \in Nat /\ IsFrame(f) /\ Names(f.slot, values, f.n)
  BY FrameFacts
<1>2. b.n = f.n + 1
  BY <1>1, Bound
<1>3. TaintResults(b, op.kind, ins, f.n + 1) = h
  BY DEF TaintResults
<1>4. LowerSimple(f, op, v) = Emit(TaintResults(b, op.kind, ins, b.n), Entry(op.kind, ins, <<b.n>>))
  BY DEF LowerSimple
<1>5. LowerSimple(f, op, v) = Emit(h, e)
  BY <1>2, <1>3, <1>4
<1>6. ins \in Seq(1 .. f.n) /\ Len(ins) = Len(op.ins)
  <2>1. op.ins \in Seq(values)
    BY DEF Proper
  <2> QED  BY <1>1, <2>1, SlotsRead
<1> HIDE DEF ins, t
<1>7. Shaped(e, f.n + 1) /\ ToSet(e.outs) = f.n + 1 .. f.n + 1 /\ ToSet(e.ins) \subseteq 1 .. f.n
  <2>1. op.kind \in OpKinds \ {"loop"} /\ op.kind # "branch"
    BY DEF OpKinds
  <2>2. /\ op.kind \in {"bcast", "view", "ident", "print"} => Len(ins) = 1
        /\ op.kind = "add" => Len(ins) = 2
    BY <1>6 DEF Proper
  <2> QED  BY <1>1, <1>6, <2>1, <2>2, EntryShaped
<1> HIDE DEF e
<1> QED  BY <1>5, <1>7, OneTainted

LEMMA BranchLowers ==
  ASSUME NEW f, NEW values, LoweredTo(f, values), NEW op, Proper(op, values), NEW v,
         op.kind = "branch"
  PROVE  LoweredTo(LowerBranch(f, op, v), values \cup {v})
<1> DEFINE ins == [i \in DOMAIN op.ins |-> f.slot[op.ins[i]]]
           b == Bind(f, v)
           e == [Entry("branch", ins, <<f.n + 1>>) EXCEPT !.trip = op.trip]
           t == Join(TaintOf(f, ins[2]), TaintOf(f, ins[3]))
           h == ApplyTaint(b, f.n + 1, t)
<1>1. f.n \in Nat /\ IsFrame(f) /\ Names(f.slot, values, f.n)
  BY FrameFacts
<1>2. b.n = f.n + 1
  BY <1>1, Bound
<1>3. LowerBranch(f, op, v) = Emit(h, e)
  BY <1>2 DEF LowerBranch
<1>4. ins \in Seq(1 .. f.n) /\ Len(ins) = Len(op.ins)
  <2>1. op.ins \in Seq(values)
    BY DEF Proper
  <2> QED  BY <1>1, <2>1, SlotsRead
<1> HIDE DEF ins, t
<1>5. Shaped(e, f.n + 1) /\ ToSet(e.outs) = f.n + 1 .. f.n + 1 /\ ToSet(e.ins) \subseteq 1 .. f.n
  <2>1. "branch" \in OpKinds \ {"loop"} /\ Len(ins) = 3 /\ op.trip \in 1 .. 2
    BY <1>4 DEF OpKinds, Proper
  <2> QED  BY <1>1, <1>4, <2>1, EntryShaped
<1> HIDE DEF e
<1> QED  BY <1>3, <1>5, OneTainted

(* g is f with entry e for a payload that has no slot yet. *)
PayloadMade(f, v, payload, e, g) ==
  /\ IsFrame(g) /\ g.n = f.n + 1 /\ g.entries = Append(f.entries, e)
  /\ g.slot = With(f.slot, v, f.n + 1)
  /\ g.consts = IF CsePassOn THEN With(f.consts, payload, f.n + 1) ELSE f.consts
  /\ Shaped(e, f.n + 1) /\ e.op = "const" /\ e.payload = payload
  /\ e.outs = <<f.n + 1>> /\ e.ins = <<>>

LEMMA PayloadMakes ==
  ASSUME NEW f, IsFrame(f), f.n \in Nat, NEW v, NEW payload, ~ (CsePassOn /\ payload \in DOMAIN f.consts)
  PROVE  \E e : PayloadMade(f, v, payload, e, LowerPayload(f, v, payload))
<1> DEFINE b == Bind(f, v)
           cv == b.cview \cup {b.n}
           cs == IF CsePassOn THEN With(b.consts, payload, b.n) ELSE b.consts
           h == [b EXCEPT !.cview = cv, !.consts = cs]
           e == ConstEntry(<<b.n>>, payload)
           g == Emit(h, e)
<1>1. LowerPayload(f, v, payload) = g
  BY DEF LowerPayload
<1>2. /\ IsFrame(b) /\ b.slot = With(f.slot, v, f.n + 1) /\ b.n = f.n + 1
      /\ b.entries = f.entries /\ b.consts = f.consts
  BY Bound
<1> HIDE DEF b
<1>3. cs = IF CsePassOn THEN With(f.consts, payload, f.n + 1) ELSE f.consts
  BY <1>2
<1> HIDE DEF cs, cv
<1>4. /\ IsFrame(h) /\ h.slot = b.slot /\ h.n = b.n /\ h.entries = b.entries /\ h.consts = cs
  <2>1. b = [slot |-> b.slot, n |-> b.n, entries |-> b.entries,
             alias |-> b.alias, cview |-> b.cview, consts |-> b.consts]
    BY <1>2 DEF IsFrame
  <2>2. h = [b EXCEPT !.cview = cv, !.consts = cs]
    OBVIOUS
  <2> HIDE DEF h
  <2>3. h = [slot |-> b.slot, n |-> b.n, entries |-> b.entries,
             alias |-> b.alias, cview |-> cv, consts |-> cs]
    BY <2>1, <2>2
  <2>4. /\ h.slot = b.slot /\ h.n = b.n /\ h.entries = b.entries
        /\ h.alias = b.alias /\ h.cview = cv /\ h.consts = cs
    BY <2>3
  <2> QED  BY <2>3, <2>4 DEF IsFrame
<1>5. Shaped(e, f.n + 1) /\ e.outs = <<f.n + 1>> /\ e.ins = <<>>
  <2> DEFINE plain == Entry("const", <<>>, <<f.n + 1>>)
  <2>1. Shaped(plain, f.n + 1)
    <3>1. "const" \in OpKinds \ {"loop"} /\ <<>> \in Seq(1 .. f.n)
      BY DEF OpKinds
    <3>2. f.n \in Nat /\ plain = Entry("const", <<>>, <<f.n + 1>>)
      OBVIOUS
    <3> HIDE DEF plain
    <3> QED  BY <3>1, <3>2, EntryShaped
  <2>2. plain.outs = <<f.n + 1>> /\ plain.op # "loop"
    BY DEF Entry
  <2> HIDE DEF plain
  <2>3. e = ConstEntry(plain.outs, payload)
    BY <1>2, <2>2
  <2> HIDE DEF e
  <2> QED  BY <2>1, <2>2, <2>3, PayloadShaped
<1>6. e.op = "const" /\ e.payload = payload
  BY DEF ConstEntry, Entry
<1> HIDE DEF h, e
<1>7. IsFrame(g) /\ g.slot = h.slot /\ g.n = h.n /\ g.entries = Append(h.entries, e) /\ g.consts = h.consts
  BY <1>4, Emitted
<1> HIDE DEF g
<1>8. PayloadMade(f, v, payload, e, g)
  BY <1>2, <1>3, <1>4, <1>5, <1>6, <1>7 DEF PayloadMade
<1> QED  BY <1>1, <1>8

LEMMA PayloadLowers ==
  ASSUME NEW f, NEW values, LoweredTo(f, values), NEW v, NEW payload
  PROVE  LoweredTo(LowerPayload(f, v, payload), values \cup {v})
<1> DEFINE g == LowerPayload(f, v, payload)
<1>1. /\ f.n \in Nat /\ IsFrame(f) /\ Names(f.slot, values, f.n) /\ Complete(f.entries, f.n)
      /\ \A c \in DOMAIN f.consts : f.consts[c] \in 1 .. f.n
  BY FrameFacts
<1>2. CASE CsePassOn /\ payload \in DOMAIN f.consts
  <2> DEFINE s == f.consts[payload]
  <2>1. g = Alias(f, v, s)
    BY <1>2 DEF LowerPayload
  <2>2. s \in 1 .. f.n /\ f.n <= f.n
    BY <1>1, <1>2
  <2> HIDE DEF s, g
  <2>3. IsFrame(g) /\ g.slot = With(f.slot, v, s) /\ g.n = f.n /\ g.entries = f.entries
        /\ g.consts = f.consts
    BY <1>1, <2>1, Aliased
  <2>4. Names(With(f.slot, v, s), values \cup {v}, f.n)
    BY <1>1, <2>2, WithNames
  <2>5. LoweredTo(g, values \cup {v})
    BY <1>1, <2>3, <2>4 DEF LoweredTo
  <2> QED  BY <2>5 DEF g
<1>3. CASE ~ (CsePassOn /\ payload \in DOMAIN f.consts)
  <2>1. PICK e : PayloadMade(f, v, payload, e, g)
    BY <1>1, <1>3, PayloadMakes
  <2> HIDE DEF g
  <2>2. /\ IsFrame(g) /\ g.n = f.n + 1 /\ g.entries = Append(f.entries, e)
        /\ g.slot = With(f.slot, v, f.n + 1)
        /\ g.consts = IF CsePassOn THEN With(f.consts, payload, f.n + 1) ELSE f.consts
        /\ Shaped(e, f.n + 1) /\ e.outs = <<f.n + 1>> /\ e.ins = <<>>
    BY <2>1 DEF PayloadMade
  <2>3. f.n + 1 \in Nat /\ f.n <= f.n + 1 /\ f.n + 1 \in 1 .. f.n + 1 /\ \A x \in 1 .. f.n : x \in 1 .. f.n + 1
    BY <1>1
  <2>4. ToSet(e.outs) = f.n + 1 .. f.n + 1 /\ ToSet(e.ins) \subseteq 1 .. f.n
    <3>1. ToSet(<<f.n + 1>>) = {f.n + 1} /\ ToSet(<<>>) = {}
      BY DEF ToSet
    <3>2. f.n + 1 .. f.n + 1 = {f.n + 1}
      BY <1>1
    <3> QED  BY <2>2, <3>1, <3>2
  <2>5. Complete(Append(f.entries, e), f.n + 1)
    BY <1>1, <2>2, <2>4, Appended
  <2>6. Names(g.slot, values \cup {v}, f.n + 1)
    BY <1>1, <2>2, <2>3, WithNames
  <2>7. \A c \in DOMAIN g.consts : g.consts[c] \in 1 .. f.n + 1
    BY <1>1, <2>2, <2>3 DEF With
  <2>8. LoweredTo(g, values \cup {v})
    BY <2>2, <2>5, <2>6, <2>7 DEF LoweredTo
  <2> QED  BY <2>8 DEF g
<1> QED  BY <1>2, <1>3

(* g is f with entry e for loop i, whose two results get fresh slots. *)
WhileMade(f, op, i, e, g) ==
  /\ IsFrame(g) /\ g.n = f.n + 2 /\ g.entries = Append(f.entries, e) /\ g.consts = f.consts
  /\ g.slot = With(With(f.slot, <<i, 1>>, f.n + 1), <<i, 2>>, f.n + 2)
  /\ Shaped(e, f.n + 2) /\ ToSet(e.outs) = f.n + 1 .. f.n + 2 /\ ToSet(e.ins) \subseteq 1 .. f.n
  /\ e.op = "loop" /\ e.outs = <<f.n + 1, f.n + 2>> /\ e.trip = op.trip /\ e.move = op.move
  /\ e.ins = [k \in DOMAIN op.ins |-> f.slot[op.ins[k]]] /\ Len(e.ins) = 3

LEMMA WhileMakes ==
  ASSUME NEW f, NEW values, LoweredTo(f, values), NEW op, Proper(op, values), op.kind = "loop", NEW i
  PROVE  \E e : WhileMade(f, op, i, e, LowerWhile(f, op, i))
<1> DEFINE ins == [k \in DOMAIN op.ins |-> f.slot[op.ins[k]]]
           n == Arity(op)
           mapped(j) == CASE op.move[j][1] = "carry" -> TaintOf(f, ins[op.move[j][2]])
                          [] op.move[j][1] = "cap"   -> TaintOf(f, ins[n + 1])
                          [] OTHER -> NoTaint
           taint(j) == IF op.static
                       THEN IF op.trip = 0 THEN TaintOf(f, ins[j]) ELSE mapped(j)
                       ELSE Join(mapped(j), TaintOf(f, ins[j]))
           t1 == taint(1)
           t2 == taint(2)
           a == Bind(f, <<i, 1>>)
           b == Bind(a, <<i, 2>>)
           c == ApplyTaint(b, f.n + 1, t1)
           h == ApplyTaint(c, f.n + 2, t2)
           e == [Entry("loop", ins, <<f.n + 1, f.n + 2>>) EXCEPT !.trip = op.trip, !.move = op.move]
<1>1. /\ f.n \in Nat /\ IsFrame(f) /\ Names(f.slot, values, f.n) /\ Complete(f.entries, f.n)
      /\ \A x \in DOMAIN f.consts : f.consts[x] \in 1 .. f.n
  BY FrameFacts
<1>2. LowerWhile(f, op, i) = Emit(h, e)
  BY DEF LowerWhile
<1>3. ins \in Seq(1 .. f.n) /\ Len(ins) = 3
  <2>1. op.ins \in Seq(values) /\ Len(op.ins) = 3
    BY DEF Proper
  <2> QED  BY <1>1, <2>1, SlotsRead
<1> HIDE DEF ins, t1, t2
<1>4. /\ IsFrame(a) /\ a.slot = With(f.slot, <<i, 1>>, f.n + 1) /\ a.n = f.n + 1
      /\ a.entries = f.entries /\ a.consts = f.consts
  BY <1>1, Bound
<1> HIDE DEF a
<1>5. /\ IsFrame(b) /\ b.slot = With(a.slot, <<i, 2>>, f.n + 2) /\ b.n = f.n + 2
      /\ b.entries = f.entries /\ b.consts = f.consts
  <2>1. /\ IsFrame(b) /\ b.slot = With(a.slot, <<i, 2>>, a.n + 1) /\ b.n = a.n + 1
        /\ b.entries = a.entries /\ b.consts = a.consts
    BY <1>4, Bound
  <2>2. a.n + 1 = f.n + 2
    BY <1>1, <1>4
  <2> QED  BY <1>4, <2>1, <2>2
<1> HIDE DEF b
<1>6. /\ IsFrame(c) /\ c.slot = b.slot /\ c.n = b.n /\ c.entries = b.entries /\ c.consts = b.consts
  BY <1>5, Tainted
<1> HIDE DEF c
<1>7. /\ IsFrame(h) /\ h.slot = c.slot /\ h.n = c.n /\ h.entries = c.entries /\ h.consts = c.consts
  BY <1>6, Tainted
<1> HIDE DEF h
<1>8. e = [op |-> "loop", ins |-> ins, outs |-> <<f.n + 1, f.n + 2>>, payload |-> NoPayload,
           trip |-> op.trip, move |-> op.move, bytes |-> Bytes("loop")]
  <2> DEFINE w == Entry("loop", ins, <<f.n + 1, f.n + 2>>)
  <2>1. w = [op |-> "loop", ins |-> ins, outs |-> <<f.n + 1, f.n + 2>>, payload |-> NoPayload,
             trip |-> 0, move |-> <<>>, bytes |-> Bytes("loop")]
    BY DEF Entry
  <2>2. e = [w EXCEPT !.trip = op.trip, !.move = op.move]
    OBVIOUS
  <2> HIDE DEF w, e
  <2> QED  BY <2>1, <2>2
<1> HIDE DEF e
<1>9. /\ e.op = "loop" /\ e.ins = ins /\ e.outs = <<f.n + 1, f.n + 2>> /\ e.payload = NoPayload
      /\ e.trip = op.trip /\ e.move = op.move /\ e.bytes = Bytes("loop")
  BY <1>8
<1> DEFINE two == <<f.n + 1, f.n + 2>>
<1>10. /\ two \in Seq(1 .. f.n + 2) /\ Len(two) = 2 /\ two[1] # two[2]
       /\ ToSet(two) = f.n + 1 .. f.n + 2
  <2>1. f.n + 1 \in 1 .. f.n + 2 /\ f.n + 2 \in 1 .. f.n + 2 /\ f.n + 1 # f.n + 2
    BY <1>1
  <2>2. two \in Seq(1 .. f.n + 2) /\ Len(two) = 2 /\ two[1] = f.n + 1 /\ two[2] = f.n + 2
    BY <2>1
  <2>3. \A x \in f.n + 1 .. f.n + 2 : x = f.n + 1 \/ x = f.n + 2
    BY <1>1
  <2>4. f.n + 1 \in f.n + 1 .. f.n + 2 /\ f.n + 2 \in f.n + 1 .. f.n + 2
    BY <1>1
  <2> HIDE DEF two
  <2>5. ToSet(two) = {two[k] : k \in 1 .. 2} /\ 1 \in 1 .. 2 /\ 2 \in 1 .. 2
        /\ \A k \in 1 .. 2 : k = 1 \/ k = 2
    <3>1. ToSet(two) = {two[k] : k \in 1 .. Len(two)}
      BY <2>2, OfItsOwn
    <3> QED  BY <2>2, <3>1
  <2> QED  BY <2>1, <2>2, <2>3, <2>4, <2>5
<1> HIDE DEF two
<1>11. ins \in Seq(1 .. f.n + 2)
  <2>1. \A x \in 1 .. f.n : x \in 1 .. f.n + 2
    BY <1>1
  <2>0. \A V : \A q \in Seq(V) : Len(q) \in Nat /\ q \in [1 .. Len(q) -> V]
    OBVIOUS
  <2>2. Len(ins) \in Nat /\ ins \in [1 .. Len(ins) -> 1 .. f.n]
    BY <1>3, <2>0
  <2>3. ins \in [1 .. Len(ins) -> 1 .. f.n + 2]
    BY <2>1, <2>2
  <2> QED  BY <2>2, <2>3, FromInterval
<1>12. Shaped(e, f.n + 2) /\ ToSet(e.outs) = f.n + 1 .. f.n + 2 /\ ToSet(e.ins) \subseteq 1 .. f.n
  <2>1. op.trip \in Nat /\ op.move \in Moves
    BY DEF Proper
  <2>2. Operands(e) /\ Results(e)
    BY <1>3, <1>9, <1>10, <2>1 DEF Operands, Results, two
  <2>3. Bytes("loop") \in Nat
    BY BytesAssumption
  <2>4. e.outs \in Seq(1 .. f.n + 2) /\ e.ins \in Seq(1 .. f.n + 2)
    BY <1>9, <1>10, <1>11 DEF two
  <2>5. Shaped(e, f.n + 2)
    BY <1>8, <1>9, <2>2, <2>3, <2>4 DEF Shaped
  <2>6. ToSet(e.ins) \subseteq 1 .. f.n
    BY <1>3, <1>9, OfItsOwn
  <2> QED  BY <1>9, <1>10, <2>5, <2>6 DEF two
<1> DEFINE g == Emit(h, e)
<1>13. /\ IsFrame(g) /\ g.slot = b.slot /\ g.n = f.n + 2
       /\ g.entries = Append(f.entries, e) /\ g.consts = f.consts
  <2>1. IsFrame(g) /\ g.slot = h.slot /\ g.n = h.n /\ g.entries = Append(h.entries, e) /\ g.consts = h.consts
    BY <1>7, Emitted
  <2> HIDE DEF g
  <2> QED  BY <1>5, <1>6, <1>7, <2>1
<1> HIDE DEF g
<1>14. g.slot = With(With(f.slot, <<i, 1>>, f.n + 1), <<i, 2>>, f.n + 2)
  BY <1>4, <1>5, <1>13
<1>15. WhileMade(f, op, i, e, g)
  BY <1>3, <1>9, <1>12, <1>13, <1>14 DEF WhileMade, ins
<1> QED  BY <1>2, <1>15 DEF g

LEMMA WhileLowers ==
  ASSUME NEW f, NEW values, LoweredTo(f, values), NEW op, Proper(op, values), op.kind = "loop", NEW i
  PROVE  LoweredTo(LowerWhile(f, op, i), values \cup {<<i, 1>>, <<i, 2>>})
<1> DEFINE g == LowerWhile(f, op, i)
           sl == With(f.slot, <<i, 1>>, f.n + 1)
<1>1. /\ f.n \in Nat /\ Names(f.slot, values, f.n) /\ Complete(f.entries, f.n)
      /\ \A x \in DOMAIN f.consts : f.consts[x] \in 1 .. f.n
  BY FrameFacts
<1>2. PICK e : WhileMade(f, op, i, e, g)
  BY WhileMakes
<1> HIDE DEF g
<1>3. /\ IsFrame(g) /\ g.n = f.n + 2 /\ g.entries = Append(f.entries, e) /\ g.consts = f.consts
      /\ g.slot = With(sl, <<i, 2>>, f.n + 2)
      /\ Shaped(e, f.n + 2) /\ ToSet(e.outs) = f.n + 1 .. f.n + 2 /\ ToSet(e.ins) \subseteq 1 .. f.n
  BY <1>2 DEF WhileMade
<1>4. Complete(Append(f.entries, e), f.n + 2)
  BY <1>1, <1>3, Appended
<1>5. /\ f.n + 1 \in Nat /\ f.n + 2 \in Nat /\ f.n <= f.n + 1 /\ f.n + 1 <= f.n + 2
      /\ f.n + 1 \in 1 .. f.n + 1 /\ f.n + 2 \in 1 .. f.n + 2 /\ \A x \in 1 .. f.n : x \in 1 .. f.n + 2
  BY <1>1
<1>6. Names(g.slot, values \cup {<<i, 1>>, <<i, 2>>}, f.n + 2)
  <2>1. Names(sl, values \cup {<<i, 1>>}, f.n + 1)
    BY <1>1, <1>5, WithNames
  <2> HIDE DEF sl
  <2>2. Names(g.slot, (values \cup {<<i, 1>>}) \cup {<<i, 2>>}, f.n + 2)
    BY <1>3, <1>5, <2>1, WithNames
  <2>3. (values \cup {<<i, 1>>}) \cup {<<i, 2>>} = values \cup {<<i, 1>>, <<i, 2>>}
    OBVIOUS
  <2> QED  BY <2>2, <2>3
<1>7. LoweredTo(g, values \cup {<<i, 1>>, <<i, 2>>})
  BY <1>1, <1>3, <1>4, <1>5, <1>6 DEF LoweredTo
<1> QED  BY <1>7 DEF g

LEMMA BarrierLowers ==
  ASSUME NEW f, NEW values, LoweredTo(f, values), NEW v, NEW w \in values,
         NEW g, g = Alias(f, v, f.slot[w])
  PROVE  LoweredTo(g, values \cup {v})
<1>1. /\ f.n \in Nat /\ IsFrame(f) /\ Names(f.slot, values, f.n) /\ Complete(f.entries, f.n)
      /\ \A c \in DOMAIN f.consts : f.consts[c] \in 1 .. f.n
  BY FrameFacts
<1> DEFINE s == f.slot[w]
<1>2. s \in 1 .. f.n /\ f.n <= f.n
  BY <1>1 DEF Names
<1> HIDE DEF s
<1>3. IsFrame(g) /\ g.slot = With(f.slot, v, s) /\ g.n = f.n /\ g.entries = f.entries
      /\ g.consts = f.consts
  BY <1>1, Aliased DEF s
<1>4. Names(With(f.slot, v, s), values \cup {v}, f.n)
  BY <1>1, <1>2, WithNames
<1> QED  BY <1>1, <1>3, <1>4 DEF LoweredTo

(* What op i makes known. *)
MadeBy(op, i) == {<<i, 1>>} \cup IF op.kind = "loop" THEN {<<i, 2>>} ELSE {}

\* Lowering one op.
LEMMA OpLowers ==
  ASSUME NEW f, NEW values, LoweredTo(f, values), NEW op, Proper(op, values), NEW i
  PROVE  LoweredTo(Lowered(f, op, i), values \cup MadeBy(op, i))
<1> DEFINE v == <<i, 1>>
<1>1. op.kind \in OpKinds \cup {"barrier"}
  BY DEF Proper
<1>2. CASE op.kind = "const"
  <2>1. Lowered(f, op, i) = LowerPayload(f, v, op.const) /\ MadeBy(op, i) = {v}
    BY <1>2 DEF Lowered, MadeBy
  <2> QED  BY <2>1, PayloadLowers
<1>3. CASE op.kind = "barrier"
  <2>1. Lowered(f, op, i) = Alias(f, v, f.slot[op.ins[1]]) /\ MadeBy(op, i) = {v}
    BY <1>3 DEF Lowered, MadeBy
  <2>2. op.ins[1] \in values
    BY <1>3 DEF Proper
  <2> QED  BY <2>1, <2>2, BarrierLowers
<1>4. CASE op.kind = "bcast" /\ CsePassOn /\ SplatOf(op) # NoPayload
  <2>1. Lowered(f, op, i) = LowerPayload(f, v, <<"bcast", SplatOf(op)>>) /\ MadeBy(op, i) = {v}
    BY <1>4 DEF Lowered, MadeBy
  <2> QED  BY <2>1, PayloadLowers
<1>5. CASE op.kind = "branch"
  <2>1. Lowered(f, op, i) = LowerBranch(f, op, v) /\ MadeBy(op, i) = {v}
    BY <1>5 DEF Lowered, MadeBy
  <2> QED  BY <1>5, <2>1, BranchLowers
<1>6. CASE op.kind = "loop"
  <2>1. Lowered(f, op, i) = LowerWhile(f, op, i) /\ MadeBy(op, i) = {<<i, 1>>, <<i, 2>>}
    BY <1>6 DEF Lowered, MadeBy
  <2> QED  BY <1>6, <2>1, WhileLowers
<1>7. CASE /\ op.kind \in {"iota", "add", "bcast", "view", "ident", "print"}
           /\ ~ (op.kind = "bcast" /\ CsePassOn /\ SplatOf(op) # NoPayload)
  <2>1. Lowered(f, op, i) = LowerSimple(f, op, v) /\ MadeBy(op, i) = {v}
    BY <1>7 DEF Lowered, MadeBy
  <2> QED  BY <1>7, <2>1, SimpleLowers
<1> QED  BY <1>1, <1>2, <1>3, <1>4, <1>5, <1>6, <1>7 DEF OpKinds

---------------------------------------------------------------------------
(* The walk.  An entry hands back arrays when it is given arrays.          *)
LEMMA NotNone == \A a, b, c : <<a, b>> # <<>> /\ <<a, b, c>> # <<>>
<1> TAKE a, b, c
<1>1. Len(<<a, b>>) = 2 /\ Len(<<a, b, c>>) = 3 /\ Len(<<>>) = 0
  OBVIOUS
<1> QED  BY <1>1

LEMMA FreshMade ==
  \A term, s, t : FreshAt(term, s, t) # NoArray /\ \A b : [FreshAt(term, s, t) EXCEPT !.buf = b] # NoArray
<1> TAKE term, s, t
<1> DEFINE o == <<"new", s, t>>
<1>1. o # <<>>
  BY NotNone
<1> HIDE DEF o
<1>2. \A b : [term |-> term, obj |-> o, buf |-> b] # NoArray
  BY <1>1 DEF NoArray
<1>3. FreshAt(term, s, t) = [term |-> term, obj |-> o, buf |-> o]
  BY DEF FreshAt, o
<1> QED  BY <1>2, <1>3

(* A loop of two carries, and the carries over `vals`, trip by trip. *)
Looping(e) == Len(e.outs) = 2 /\ e.trip \in Nat /\ e.move \in Moves
Trips(e, vals, carry) ==
  /\ carry[0] = vals
  /\ \A t \in 1 .. e.trip :
       carry[t] = [k \in 1 .. 3 |-> IF k <= 2 THEN Carried(e, carry[t - 1], k, t) ELSE vals[k]]
  /\ \A j \in 1 .. 2 : SubSeq(Iterate(e, vals), 1, Len(e.outs))[j] = carry[e.trip][j]

LEMMA IterateIs ==
  ASSUME NEW e, Looping(e), NEW V, NEW vals \in [1 .. 3 -> V]
  PROVE  \E carry : Trips(e, vals, carry)
<1> DEFINE Pass(x, t) == [k \in 1 .. Len(vals) |-> IF k <= Len(e.outs) THEN Carried(e, x, k, t) ELSE vals[k]]
           Carries(g, m) == g = [t \in 0 .. m |-> IF t = 0 THEN vals ELSE Pass(g[t - 1], t)]
           carry == CHOOSE g : Carries(g, e.trip)
           T == {m \in Nat : \E g : Carries(g, m)}
<1>1. Len(vals) = 3 /\ Len(e.outs) = 2 /\ e.trip \in Nat /\ e.move \in Moves
  <2>1. Len(vals) = 3
    BY FromInterval
  <2> QED  BY <2>1 DEF Looping
<1>2. Iterate(e, vals) = carry[e.trip]
  BY DEF Iterate
<1>3. 0 \in T
  <2>1. Carries([t \in 0 .. 0 |-> vals], 0)
    OBVIOUS
  <2> QED  BY <2>1
<1> HIDE DEF Pass
<1>4. ASSUME NEW m \in Nat, m \in T
      PROVE  m + 1 \in T
  <2>1. PICK g : Carries(g, m)
    BY <1>4
  <2> DEFINE h == [t \in 0 .. m + 1 |-> IF t = m + 1 THEN Pass(g[m], m + 1) ELSE g[t]]
  <2>2. ASSUME NEW t \in 0 .. m + 1
        PROVE  h[t] = IF t = 0 THEN vals ELSE Pass(h[t - 1], t)
    <3>1. CASE t = 0
      <4>1. t # m + 1 /\ 0 \in 0 .. m
        BY <3>1
      <4>2. g[0] = vals
        BY <2>1, <4>1
      <4> QED  BY <3>1, <4>1, <4>2
    <3>2. CASE t = m + 1
      <4>1. t # 0 /\ t - 1 = m /\ m \in 0 .. m + 1 /\ m # m + 1
        BY <3>2
      <4>2. h[t] = Pass(g[m], t) /\ h[m] = g[m]
        BY <3>2, <4>1
      <4> QED  BY <4>1, <4>2
    <3>3. CASE t # 0 /\ t # m + 1
      <4>1. t \in 0 .. m /\ t - 1 \in 0 .. m + 1 /\ t - 1 # m + 1
        BY <3>3
      <4>2. g[t] = Pass(g[t - 1], t)
        BY <2>1, <3>3, <4>1
      <4>3. h[t] = g[t] /\ h[t - 1] = g[t - 1]
        BY <3>3, <4>1
      <4> QED  BY <3>3, <4>2, <4>3
    <3> QED  BY <3>1, <3>2, <3>3
  <2>3. Carries(h, m + 1)
    <3>1. h = [t \in 0 .. m + 1 |-> h[t]]
      OBVIOUS
    <3> HIDE DEF h
    <3> QED  BY <2>2, <3>1
  <2> HIDE DEF h, Carries
  <2> QED  BY <2>3
<1> HIDE DEF T
<1>5. e.trip \in T
  BY <1>1, <1>3, <1>4, Induct, Zenon
<1>6. Carries(carry, e.trip)
  <2> HIDE DEF Carries
  <2> QED  BY <1>5 DEF T
<1> HIDE DEF carry
<1>7. carry[0] = vals
  <2>1. 0 \in 0 .. e.trip
    BY <1>1
  <2> QED  BY <1>6, <2>1
<1>8. ASSUME NEW t \in 1 .. e.trip
      PROVE  carry[t] = [k \in 1 .. 3 |-> IF k <= 2 THEN Carried(e, carry[t - 1], k, t) ELSE vals[k]]
  <2>1. t \in 0 .. e.trip /\ t # 0
    BY <1>1
  <2>2. carry[t] = Pass(carry[t - 1], t)
    BY <1>6, <2>1
  <2> QED  BY <1>1, <2>2 DEF Pass
<1> DEFINE r == carry[e.trip]
<1>9. DOMAIN r = 1 .. 3 /\ r = [k \in 1 .. 3 |-> r[k]]
  <2>1. CASE e.trip = 0
    <3>1. r = vals /\ vals = [k \in 1 .. 3 |-> vals[k]] /\ DOMAIN vals = 1 .. 3
      BY <1>7, <2>1
    <3> QED  BY <3>1
  <2>2. CASE e.trip # 0
    <3>1. e.trip \in 1 .. e.trip
      BY <1>1, <2>2
    <3>2. r = [k \in 1 .. 3 |-> IF k <= 2 THEN Carried(e, carry[e.trip - 1], k, e.trip) ELSE vals[k]]
      BY <1>8, <3>1
    <3> HIDE DEF r
    <3> QED  BY <3>2
  <2> QED  BY <2>1, <2>2
<1> HIDE DEF r
<1>10. r \in Seq(ToSet(r))
  <2>1. r \in [1 .. 3 -> ToSet(r)]
    BY <1>9 DEF ToSet
  <2> QED  BY <2>1, FromInterval
<1>11. \A j \in 1 .. 2 : SubSeq(r, 1, 2)[j] = r[j]
  BY <1>10
<1>12. Trips(e, vals, carry)
  BY <1>1, <1>2, <1>7, <1>8, <1>11 DEF r, Trips
<1> QED  BY <1>12

LEMMA LoopMade ==
  ASSUME NEW e, NEW n \in Nat, Shaped(e, n), e.op = "loop", NEW V,
         NEW vals \in [1 .. 3 -> V], \A k \in 1 .. 3 : vals[k] # NoArray,
         NEW j \in 1 .. 2
  PROVE  SubSeq(Iterate(e, vals), 1, Len(e.outs))[j] # NoArray
<1>1. Len(e.outs) = 2 /\ e.trip \in Nat /\ e.move \in Moves
  BY DEF Shaped, Results, Operands
<1>2. PICK carry : Trips(e, vals, carry)
  BY <1>1, IterateIs DEF Looping
<1> DEFINE Full(x) == \A k \in 1 .. 3 : x[k] # NoArray
           U == {t \in 0 .. e.trip : Full(carry[t])}
<1>3. 0 \in U
  BY <1>1, <1>2 DEF Trips
<1>4. ASSUME NEW t \in 0 .. e.trip - 1, t \in U
      PROVE  t + 1 \in U
  <2>1. t + 1 \in 0 .. e.trip /\ t + 1 \in 1 .. e.trip /\ (t + 1) - 1 = t
    BY <1>1
  <2> DEFINE x == carry[t]
             y == carry[t + 1]
  <2>2. y = [k \in 1 .. 3 |-> IF k <= 2 THEN Carried(e, x, k, t + 1) ELSE vals[k]]
    BY <1>2, <2>1 DEF Trips
  <2>3. \A k \in 1 .. 3 : x[k] # NoArray
    BY <1>4
  <2> HIDE DEF x, y
  <2>4. ASSUME NEW k \in 1 .. 2
        PROVE  Carried(e, x, k, t + 1) # NoArray
    <3> DEFINE from == e.move[k]
    <3>1. from[1] = "cap" \/ from \in {"carry", "step"} \X (1 .. 2)
      BY <1>1, LoopsAssumption
    <3>2. CASE from[1] = "cap"
      <4>1. Carried(e, x, k, t + 1) = x[3]
        BY <1>1, <3>2 DEF Carried
      <4> QED  BY <2>3, <4>1
    <3>3. CASE from[1] = "carry" /\ from[2] \in 1 .. 2
      <4>1. Carried(e, x, k, t + 1) = x[from[2]]
        BY <3>3 DEF Carried
      <4> QED  BY <2>3, <3>3, <4>1
    <3>4. CASE from[1] = "step"
      <4>1. Carried(e, x, k, t + 1) = FreshAt(<<"step", x[from[2]].term>>, e.outs[k], t + 1)
        BY <3>4 DEF Carried
      <4> QED  BY <4>1, FreshMade
    <3> QED  BY <3>1, <3>2, <3>3, <3>4
  <2>5. \A k \in 1 .. 3 : k <= 2 => k \in 1 .. 2
    OBVIOUS
  <2>6. Full(y)
    BY <2>2, <2>4, <2>5
  <2> QED  BY <2>1, <2>6 DEF y
<1> HIDE DEF U
<1>5. e.trip \in U
  <2>1. \A t \in 0 .. e.trip : t \in U
    BY <1>1, <1>3, <1>4, InductTo, Zenon
  <2> QED  BY <1>1, <2>1
<1>6. Full(carry[e.trip])
  BY <1>5 DEF U
<1>7. SubSeq(Iterate(e, vals), 1, Len(e.outs))[j] = carry[e.trip][j]
  BY <1>2 DEF Trips
<1>8. j \in 1 .. 3
  OBVIOUS
<1> QED  BY <1>6, <1>7, <1>8

LEMMA ResultsMade ==
  ASSUME NEW e, NEW n \in Nat, Shaped(e, n), NEW V, NEW vals \in [1 .. Len(e.ins) -> V],
         \A k \in 1 .. Len(e.ins) : vals[k] # NoArray, NEW calls, NEW j \in 1 .. Len(e.outs)
  PROVE  Compute(e, vals, calls)[j] # NoArray
<1> DEFINE s == e.outs[1]
           new(term) == <<Fresh(term, s)>>
<1>1. Operands(e) /\ Results(e) /\ e.op \in OpKinds /\ Len(e.outs) \in Nat
  BY ShapedFacts, OfItsOwn DEF Shaped
<1>2. \A term : Fresh(term, s) # NoArray /\ \A b : [Fresh(term, s) EXCEPT !.buf = b] # NoArray
  BY FreshMade, Zenon DEF Fresh
<1>3. e.op # "loop" => j = 1
  <2>1. e.op # "loop" => Len(e.outs) = 1
    BY <1>1 DEF Results
  <2>2. Len(e.outs) = 1 => j = 1
    OBVIOUS
  <2> QED  BY <2>1, <2>2
<1>4. CASE e.op = "const"
  <2>1. Compute(e, vals, calls)[1] = [term |-> e.payload, obj |-> <<"const", s>>, buf |-> <<"const">>]
    BY <1>4 DEF Compute
  <2>2. [term |-> e.payload, obj |-> <<"const", s>>, buf |-> <<"const">>] # NoArray
    BY NotNone DEF NoArray
  <2> QED  BY <1>3, <1>4, <2>1, <2>2
<1>5. CASE e.op \in {"iota", "add", "print"}
  <2>1. PICK term : Compute(e, vals, calls) = new(term)
    <3>1. CASE e.op = "iota"
      <4>1. Compute(e, vals, calls) = new(<<"iota">>)
        BY <3>1 DEF Compute
      <4> QED  BY <4>1
    <3>2. CASE e.op = "add"
      <4>1. Compute(e, vals, calls) = new(<<"add", vals[1].term, vals[2].term>>)
        BY <3>2 DEF Compute
      <4> QED  BY <4>1
    <3>3. CASE e.op = "print"
      <4>1. Compute(e, vals, calls) = new(<<"call", calls + 1, vals[1].term>>)
        BY <3>3 DEF Compute
      <4> QED  BY <4>1
    <3> QED  BY <1>5, <3>1, <3>2, <3>3
  <2>2. Compute(e, vals, calls)[1] = Fresh(term, s)
    BY <2>1
  <2> QED  BY <1>2, <1>3, <1>5, <2>2
<1>6. CASE e.op \in {"bcast", "view"}
  <2>1. PICK term, b : Compute(e, vals, calls) = <<[Fresh(term, s) EXCEPT !.buf = b]>>
    <3>1. CASE e.op = "bcast"
      <4>1. Compute(e, vals, calls) = <<[Fresh(<<"bcast", vals[1].term>>, s) EXCEPT !.buf = vals[1].buf]>>
        BY <3>1 DEF Compute
      <4> QED  BY <4>1, Zenon
    <3>2. CASE e.op = "view"
      <4>1. Compute(e, vals, calls) = <<[Fresh(<<"view", vals[1].term>>, s) EXCEPT !.buf = vals[1].buf]>>
        BY <3>2 DEF Compute
      <4> QED  BY <4>1, Zenon
    <3> QED  BY <1>6, <3>1, <3>2
  <2>2. Compute(e, vals, calls)[1] = [Fresh(term, s) EXCEPT !.buf = b]
    BY <2>1
  <2> QED  BY <1>2, <1>3, <1>6, <2>2
<1>7. CASE e.op = "ident"
  <2>1. Compute(e, vals, calls) = <<vals[1]>>
    BY <1>7 DEF Compute
  <2>2. Len(e.ins) = 1
    BY <1>1, <1>7 DEF Operands
  <2>3. vals[1] # NoArray
    BY <2>2
  <2> QED  BY <1>3, <1>7, <2>1, <2>3
<1>8. CASE e.op = "branch"
  <2>1. Compute(e, vals, calls) = <<vals[1 + e.trip]>>
    BY <1>8 DEF Compute
  <2>2. Len(e.ins) = 3 /\ e.trip \in 1 .. 2
    BY <1>1, <1>8 DEF Operands
  <2>3. 1 + e.trip \in 1 .. Len(e.ins)
    BY <2>2
  <2>4. vals[1 + e.trip] # NoArray
    BY <2>3
  <2> QED  BY <1>3, <1>8, <2>1, <2>4
<1>9. CASE e.op = "loop"
  <2>1. Compute(e, vals, calls) = SubSeq(Iterate(e, vals), 1, Len(e.outs))
    BY <1>9 DEF Compute
  <2>2. Len(e.ins) = 3 /\ Len(e.outs) = 2
    BY <1>1, <1>9 DEF Operands, Results
  <2> QED  BY <1>9, <2>1, <2>2, LoopMade
<1> QED  BY <1>1, <1>4, <1>5, <1>6, <1>7, <1>8, <1>9 DEF OpKinds

LEMMA Greatest ==
  ASSUME NEW N \in Nat, NEW S \in SUBSET (1 .. N), S # {}
  PROVE  Max(S) \in S /\ \A y \in S : y <= Max(S)
<1> DEFINE T == {N - x : x \in S}
<1>1. \A x \in S : x \in Nat /\ x <= N
  OBVIOUS
<1>2. T \subseteq Nat /\ T # {}
  <2>1. \A x \in S : N - x \in Nat
    BY <1>1
  <2> QED  BY <2>1
<1> HIDE DEF T
<1>3. PICK a \in T : \A b \in T : a <= b
  BY <1>2, LeastMember
<1>4. PICK x \in S : a = N - x
  BY <1>3 DEF T
<1>5. \A y \in S : x >= y
  <2> SUFFICES ASSUME NEW y \in S
               PROVE  x >= y
    OBVIOUS
  <2>1. N - y \in T
    BY DEF T
  <2>2. N - x <= N - y
    BY <1>3, <1>4, <2>1
  <2> QED  BY <1>1, <2>2
<1>6. Max(S) \in S /\ \A y \in S : Max(S) >= y
  BY <1>5 DEF Max
<1> QED  BY <1>1, <1>6

\* A slot's last use is its last reader, or where it is made.
LEMMA LastUseIs ==
  ASSUME NEW es, NEW n, Sound(es, n), NEW s
  PROVE  /\ \A i \in 1 .. Len(es) : s \in ToSet(es[i].ins) =>
              /\ LastUse(es, s) \in 1 .. Len(es) /\ i <= LastUse(es, s)
              /\ s \in ToSet(es[LastUse(es, s)].ins)
         /\ (\A i \in 1 .. Len(es) : s \notin ToSet(es[i].ins)) =>
              \A d \in 1 .. Len(es) : s \in ToSet(es[d].outs) => LastUse(es, s) = d
<1> DEFINE readers == {i \in DOMAIN es : s \in ToSet(es[i].ins)}
<1>1. DOMAIN es = 1 .. Len(es) /\ Len(es) \in Nat
  BY OfItsOwn DEF Sound
<1>2. readers \in SUBSET (1 .. Len(es)) /\ \A i \in 1 .. Len(es) : i \in readers <=> s \in ToSet(es[i].ins)
  BY <1>1
<1>3. LastUse(es, s) = IF readers # {} THEN Max(readers) ELSE CHOOSE i \in DefinedBy(es, s) : TRUE
  BY DEF LastUse
<1> HIDE DEF readers
<1>4. CASE readers # {}
  <2>1. Max(readers) \in readers /\ \A y \in readers : y <= Max(readers)
    BY <1>1, <1>2, <1>4, Greatest
  <2> QED  BY <1>2, <1>3, <1>4, <2>1
<1>5. CASE readers = {}
  <2>1. ASSUME NEW d \in 1 .. Len(es), s \in ToSet(es[d].outs)
        PROVE  LastUse(es, s) = d
    <3>1. d \in DefinedBy(es, s)
      BY <1>1, <2>1 DEF DefinedBy
    <3>2. LastUse(es, s) \in DefinedBy(es, s)
      BY <1>3, <1>5, <3>1
    <3> QED  BY <3>1, <3>2, DefinedOnce
  <2> QED  BY <1>2, <1>5, <2>1
<1> QED  BY <1>4, <1>5

(* Slot s is read from entry p on, or by the caller, or by nobody at all.  *)
Wanted(s, es, os, p) ==
  \/ \E i \in p .. Len(es) : s \in ToSet(es[i].ins)
  \/ s \in ToSet(os)
  \/ s \in Args /\ \A i \in 1 .. Len(es) : s \notin ToSet(es[i].ins)
(* In front of entry p the environment holds what is wanted of what is made. *)
Holds(en, es, n, os, p) ==
  /\ DOMAIN en = 1 .. n
  /\ \A s \in 1 .. n : en[s] # NoArray <=> Wanted(s, es, os, p) /\ Has(s, es, 1 .. Len(es), p)

LEMMA WrittenIs ==
  ASSUME NEW es, NEW n, NEW os, WellFormed(es, n, os), NEW p \in 1 .. Len(es),
         NEW en, Holds(en, es, n, os, p), NEW calls, NEW after, after = Written(es[p], en, calls),
         NEW s \in 1 .. n
  PROVE  after[s] # NoArray <=> en[s] # NoArray \/ s \in ToSet(es[p].outs)
<1> DEFINE e == es[p]
           vals == [i \in DOMAIN e.ins |-> en[e.ins[i]]]
           new == Compute(e, vals, calls)
<1>1. n \in Nat /\ Sound(es, n) /\ Len(es) \in Nat /\ Shaped(e, n) /\ DOMAIN en = 1 .. n
  BY WellFormedFacts DEF Sound, Holds
<1>2. /\ e.ins \in Seq(1 .. n) /\ e.outs \in Seq(1 .. n)
  BY <1>1, ShapedFacts
<1>3. /\ DOMAIN e.ins = 1 .. Len(e.ins) /\ Len(e.ins) \in Nat /\ ToSet(e.ins) = {e.ins[k] : k \in 1 .. Len(e.ins)}
      /\ ToSet(e.ins) \subseteq 1 .. n
  BY <1>2, OfItsOwn
<1>4. DOMAIN e.outs = 1 .. Len(e.outs) /\ ToSet(e.outs) = {e.outs[k] : k \in 1 .. Len(e.outs)}
  BY <1>2, OfItsOwn
<1>5. after[s] = IF \E j \in DOMAIN e.outs : e.outs[j] = s
                 THEN new[CHOOSE j \in DOMAIN e.outs : e.outs[j] = s] ELSE en[s]
  BY <1>1 DEF Written
<1>6. \A k \in 1 .. Len(e.ins) : vals[k] # NoArray
  <2> SUFFICES ASSUME NEW k \in 1 .. Len(e.ins)
               PROVE  vals[k] # NoArray
    OBVIOUS
  <2>1. e.ins[k] \in ToSet(e.ins) /\ e.ins[k] \in 1 .. n
    BY <1>3
  <2>2. p \in p .. Len(es)
    BY <1>1
  <2>3. Wanted(e.ins[k], es, os, p)
    BY <2>1, <2>2 DEF Wanted
  <2>4. Has(e.ins[k], es, 1 .. Len(es), p)
    BY <2>1 DEF WellFormed, Flows
  <2>5. en[e.ins[k]] # NoArray
    BY <2>1, <2>3, <2>4 DEF Holds
  <2> QED  BY <1>3, <2>5
<1>7. vals \in [1 .. Len(e.ins) -> {en[x] : x \in 1 .. n}]
  <2>1. \A k \in 1 .. Len(e.ins) : e.ins[k] \in 1 .. n
    BY <1>3
  <2> QED  BY <1>3, <2>1
<1> HIDE DEF e, vals
<1>8. \A j \in 1 .. Len(e.outs) : new[j] # NoArray
  BY <1>1, <1>6, <1>7, ResultsMade
<1> HIDE DEF new
<1> QED  BY <1>4, <1>5, <1>8 DEF e

LEMMA DropsAre ==
  ASSUME NEW es, NEW n, NEW os, WellFormed(es, n, os), NEW p \in 1 .. Len(es), NEW s
  PROVE  s \in DropsOf(es, os)[p] <=>
           /\ s \notin ToSet(os) /\ LastUse(es, s) = p
           /\ \E i \in 1 .. Len(es) : s \in ToSet(es[i].ins) \cup ToSet(es[i].outs)
<1>1. DOMAIN es = 1 .. Len(es)
  BY WellFormedFacts
<1> QED  BY <1>1 DEF DropsOf

\* The walk of one entry and what it lets go.
LEMMA StepHolds ==
  ASSUME NEW es, NEW n, NEW os, WellFormed(es, n, os), NEW p \in 1 .. Len(es),
         NEW en, Holds(en, es, n, os, p), NEW calls, NEW after, after = Written(es[p], en, calls),
         NEW nx, nx = [s \in DOMAIN en |-> IF s \in DropsOf(es, os)[p] THEN NoArray ELSE after[s]]
  PROVE  Holds(nx, es, n, os, p + 1)
<1> DEFINE N == Len(es)
<1>1. N \in Nat /\ Sound(es, n) /\ p \in Nat /\ DOMAIN en = 1 .. n
  BY WellFormedFacts DEF Holds
<1>2. DOMAIN nx = 1 .. n
  BY <1>1
<1> SUFFICES ASSUME NEW s \in 1 .. n
             PROVE  nx[s] # NoArray <=> Wanted(s, es, os, p + 1) /\ Has(s, es, 1 .. N, p + 1)
  BY <1>2 DEF Holds
<1> DEFINE drop == s \in DropsOf(es, os)[p]
           out == s \in ToSet(es[p].outs)
           read(i) == s \in ToSet(es[i].ins)
<1>3. nx[s] # NoArray <=> ~ drop /\ (en[s] # NoArray \/ out)
  <2>1. after[s] # NoArray <=> en[s] # NoArray \/ out
    BY WrittenIs
  <2> QED  BY <1>1, <2>1
<1>4. en[s] # NoArray <=> Wanted(s, es, os, p) /\ Has(s, es, 1 .. N, p)
  BY DEF Holds
<1>5. drop <=> /\ s \notin ToSet(os) /\ LastUse(es, s) = p
               /\ \E i \in 1 .. N : read(i) \/ s \in ToSet(es[i].outs)
  BY DropsAre
<1>6. /\ Has(s, es, 1 .. N, p + 1) <=> Has(s, es, 1 .. N, p) \/ out
      /\ out => ~ Has(s, es, 1 .. N, p)
  <2>1. PICK i \in 0 .. N - 1 : i + 1 = p /\ i + 2 = p + 1
    <3>1. p - 1 \in 0 .. N - 1 /\ (p - 1) + 1 = p /\ (p - 1) + 2 = p + 1
      BY <1>1
    <3> QED  BY <3>1
  <2> DEFINE keep == 1 .. N
  <2>2. keep \in SUBSET (1 .. Len(es)) /\ p \in keep
    OBVIOUS
  <2> HIDE DEF keep
  <2>3. /\ Has(s, es, keep, i + 1) => Has(s, es, keep, i + 2)
        /\ Has(s, es, keep, i + 2) => Has(s, es, keep, i + 1) \/ s \in ToSet(es[i + 1].outs)
        /\ s \in ToSet(es[i + 1].outs) => ~ Has(s, es, keep, i + 1)
        /\ s \in ToSet(es[i + 1].outs) /\ i + 1 \in keep => Has(s, es, keep, i + 2)
    BY <1>1, <2>2, HasNext
  <2> QED  BY <2>1, <2>2, <2>3 DEF keep
<1>7. out => s \notin Args
  BY <1>1 DEF Sound
<1>8. \A i \in 1 .. N : read(i) => Has(s, es, 1 .. N, i)
  BY DEF WellFormed, Flows
<1>9. /\ \A i \in 1 .. N : read(i) => LastUse(es, s) \in 1 .. N /\ i <= LastUse(es, s) /\ read(LastUse(es, s))
      /\ (\A i \in 1 .. N : ~ read(i)) => \A d \in 1 .. N : s \in ToSet(es[d].outs) => LastUse(es, s) = d
  BY <1>1, LastUseIs
<1>10. out => \A i \in 1 .. N : read(i) => i \in p + 1 .. N
  <2> SUFFICES ASSUME out, NEW i \in 1 .. N, read(i)
               PROVE  i \in p + 1 .. N
    OBVIOUS
  <2>1. Has(s, es, 1 .. N, i) /\ s \notin Args
    BY <1>7, <1>8
  <2>2. PICK d \in 1 .. N : d < i /\ s \in ToSet(es[d].outs)
    BY <2>1 DEF Has
  <2>3. d = p
    <3>1. DOMAIN es = 1 .. N
      BY WellFormedFacts
    <3>2. d \in DefinedBy(es, s) /\ p \in DefinedBy(es, s)
      BY <2>2, <3>1 DEF DefinedBy
    <3> QED  BY <1>1, <3>2, DefinedOnce
  <2> QED  BY <1>1, <2>2, <2>3
<1>11. /\ \A i \in p .. N : i = p \/ i \in p + 1 .. N
       /\ \A i \in p + 1 .. N : i \in p .. N /\ i \in 1 .. N /\ ~ (i <= p)
       /\ p \in 1 .. N
       /\ \A i \in 1 .. N : i \in p .. N /\ i <= p => i = p
       /\ \A i \in p .. N : i \in 1 .. N /\ p <= i
  BY <1>1
<1>12. ASSUME nx[s] # NoArray
       PROVE  Wanted(s, es, os, p + 1)
  <2>1. ~ drop /\ (en[s] # NoArray \/ out)
    BY <1>3, <1>12
  <2> SUFFICES ASSUME s \notin ToSet(os), \A i \in p + 1 .. N : ~ read(i),
                      s \notin Args \/ \E i \in 1 .. N : read(i)
               PROVE  FALSE
    BY DEF Wanted
  <2>2. CASE out
    <3>1. \A i \in 1 .. N : ~ read(i)
      BY <1>10, <2>2
    <3>2. LastUse(es, s) = p
      BY <1>9, <2>2, <3>1
    <3> QED  BY <1>5, <2>1, <2>2, <3>2
  <2>3. CASE en[s] # NoArray
    <3>1. Wanted(s, es, os, p)
      BY <1>4, <2>3
    <3>2. PICK i \in p .. N : read(i)
      BY <3>1 DEF Wanted
    <3>3. i = p
      BY <1>11, <3>2
    <3>4. LastUse(es, s) \in 1 .. N /\ p <= LastUse(es, s) /\ read(LastUse(es, s))
      BY <1>9, <3>2, <3>3
    <3>5. LastUse(es, s) = p
      <4>1. LastUse(es, s) \in p .. N
        BY <1>1, <3>4
      <4> QED  BY <1>11, <3>4, <4>1
    <3> QED  BY <1>5, <2>1, <3>2, <3>3, <3>5
  <2> QED  BY <2>1, <2>2, <2>3
<1>13. ASSUME Wanted(s, es, os, p + 1), Has(s, es, 1 .. N, p + 1)
       PROVE  nx[s] # NoArray
  <2>1. ~ drop
    <3> SUFFICES ASSUME drop PROVE FALSE
      OBVIOUS
    <3>1. s \notin ToSet(os) /\ LastUse(es, s) = p /\ \E i \in 1 .. N : read(i) \/ s \in ToSet(es[i].outs)
      BY <1>5
    <3>2. CASE \E i \in p + 1 .. N : read(i)
      BY <1>9, <1>11, <3>1, <3>2
    <3>3. CASE s \in Args /\ \A i \in 1 .. N : ~ read(i)
      BY <1>1, <3>1, <3>3 DEF Sound
    <3> QED  BY <1>13, <3>1, <3>2, <3>3 DEF Wanted
  <2>2. CASE out
    BY <1>3, <2>1, <2>2
  <2>3. CASE Has(s, es, 1 .. N, p)
    <3>1. Wanted(s, es, os, p)
      BY <1>11, <1>13 DEF Wanted
    <3> QED  BY <1>3, <1>4, <2>1, <2>3, <3>1
  <2> QED  BY <1>6, <1>13, <2>2, <2>3
<1>14. ASSUME nx[s] # NoArray
       PROVE  Has(s, es, 1 .. N, p + 1)
  BY <1>3, <1>4, <1>6, <1>14
<1> QED  BY <1>12, <1>13, <1>14

\* Before the first entry the environment holds the arguments.
LEMMA StartHolds ==
  ASSUME NEW es, NEW n, NEW os, WellFormed(es, n, os), Args \subseteq 1 .. n,
         NEW en, DOMAIN en = 1 .. n, \A s \in 1 .. n : en[s] # NoArray <=> s \in Args
  PROVE  Holds(en, es, n, os, 1)
<1>1. \A d \in 1 .. Len(es) : ~ (d < 1)
  BY WellFormedFacts
<1>2. \A s : Has(s, es, 1 .. Len(es), 1) <=> s \in Args
  BY <1>1 DEF Has
<1>3. \A s \in Args : Wanted(s, es, os, 1)
  BY DEF Wanted
<1> QED  BY <1>2, <1>3 DEF Holds

---------------------------------------------------------------------------
(* The frame's life.                                                       *)
Ops(q) == q \in Seq(ToSet(q)) /\ \A i \in 1 .. Len(q) : q[i].kind = "loop" => q[i].move \in Moves
TapeInv ==
  /\ phase \in {"lower", "cse", "fold", "dce", "finish", "run", "done"}
  /\ IsFrame(frame) /\ Args \subseteq 1 .. frame.n
  /\ phase = "lower" => Ops(src) /\ LoweredTo(frame, KnownIn(src))
  /\ phase # "lower" => WellFormed(Entries, frame.n, outputs)
  /\ phase \notin {"run", "done"} => pc = 1
  /\ phase = "run" => /\ pc \in 1 .. Len(Entries) + 1 /\ drops = DropsOf(Entries, outputs)
                      /\ Holds(env, Entries, frame.n, outputs, pc)

LEMMA KnownOnes ==
  ASSUME Ops(src)
  PROVE  /\ Known = KnownIn(src) /\ <<0, 1>> \in Known
         /\ src # <<>> => <<Len(src), 1>> \in Known
<1>1. DOMAIN src = 1 .. Len(src) /\ Len(src) \in Nat
  BY OfItsOwn DEF Ops
<1>2. Known = KnownIn(src)
  BY DEF Known, KnownIn, Values
<1>3. <<0, 1>> \in Known
  <2>1. 1 \in Args
    BY ArgsAssumption
  <2> QED  BY <2>1 DEF Known, Values
<1>4. ASSUME src # <<>>
      PROVE  <<Len(src), 1>> \in Known
  <2>1. Len(src) \in 1 .. Len(src)
    <3>1. Len(src) # 0
      BY <1>1, <1>4 DEF Ops
    <3> QED  BY <1>1, <3>1
  <2>2. 1 <= Arity(src[Len(src)])
    <3> DEFINE p == src[Len(src)]
    <3>1. p.kind = "loop" => Len(p.move) = 2
      <4>1. p.kind = "loop" => p.move \in Moves
        BY <2>1 DEF Ops
      <4> HIDE DEF p
      <4> QED  BY <4>1, LoopsAssumption
    <3> HIDE DEF p
    <3>2. 1 <= Arity(p)
      <4>1. Arity(p) \in {1, 2}
        BY <3>1, Zenon DEF Arity
      <4> QED  BY <4>1
    <3> QED  BY <3>2 DEF p
  <2> QED  BY <1>1, <2>1, <2>2 DEF Known, Values
<1> QED  BY <1>2, <1>3, <1>4

\* What a program may go on with is an op over known values.
LEMMA NextOpsProper ==
  ASSUME Ops(src), NEW op \in NextOps
  PROVE  Proper(op, Known)
<1>1. <<0, 1>> \in Known
  BY KnownOnes
<1>2. \A v, w, u \in Known : <<>> \in Seq(Known) /\ <<v>> \in Seq(Known) /\ <<v, w>> \in Seq(Known)
                              /\ <<v, w, u>> \in Seq(Known)
  OBVIOUS
<1>3. \A k, ins : Op(k, ins) = [kind |-> k, ins |-> ins, const |-> NoPayload, trip |-> 0,
                                static |-> FALSE, move |-> <<>>]
  BY DEF Op
<1>4. \/ op.kind = "const" /\ op.ins = <<>>
      \/ op.kind = "iota" /\ op.ins = <<>>
      \/ op.kind = "add" /\ \E v, w \in Known : op.ins = <<v, w>>
      \/ op.kind \in {"bcast", "view", "ident", "barrier", "print"} /\ \E v \in Known : op.ins = <<v>>
      \/ op.kind = "branch" /\ op.trip \in 1 .. 2 /\ \E v, w \in Known : op.ins = <<v, v, w>>
      \/ op.kind = "loop" /\ op.trip \in 0 .. MaxTrip /\ op.move \in Moves
           /\ \E v, w \in Known : op.ins = <<v, w, <<0, 1>>>>
  <2>1. \/ \E c \in Consts : op = ConstOp(c)
        \/ op = Op("iota", <<>>)
        \/ \E v, w \in Known : op = Op("add", <<v, w>>)
        \/ \E k \in {"bcast", "view", "ident", "barrier", "print"}, v \in Known : op = Op(k, <<v>>)
        \/ \E v, w \in Known, t \in 1 .. 2 : op = BranchOp(v, w, t)
        \/ \E v, w \in Known, t \in 0 .. MaxTrip, k \in BOOLEAN, m \in Moves : op = LoopOp(v, w, t, k, m)
    <3> DEFINE B == {BranchOp(v, w, t) : v \in Known, w \in Known, t \in 1 .. 2}
               A == {Op("add", <<v, w>>) : v \in Known, w \in Known}
               U == {Op(k, <<v>>) : k \in {"bcast", "view", "ident", "barrier", "print"}, v \in Known}
               L == {LoopOp(v, w, t, k, m) :
                       v \in Known, w \in Known, t \in 0 .. MaxTrip, k \in BOOLEAN, m \in Moves}
    <3>1. op \in {ConstOp(c) : c \in Consts} \/ op = Op("iota", <<>>) \/ op \in A \/ op \in U
          \/ op \in B \/ op \in LoopOps
      <4>1. NextOps = {ConstOp(c) : c \in Consts} \cup {Op("iota", <<>>)} \cup A \cup U \cup B \cup LoopOps
        BY DEF NextOps
      <4> HIDE DEF A, B, U, L
      <4> QED  BY <4>1
    <3>2. op \in LoopOps => op \in L
      BY DEF LoopOps
    <3>3. op \in L => \E v, w \in Known, t \in 0 .. MaxTrip, k \in BOOLEAN, m \in Moves : op = LoopOp(v, w, t, k, m)
      OBVIOUS
    <3>4. op \in B => \E v, w \in Known, t \in 1 .. 2 : op = BranchOp(v, w, t)
      OBVIOUS
    <3>5. op \in U => \E k \in {"bcast", "view", "ident", "barrier", "print"}, v \in Known : op = Op(k, <<v>>)
      OBVIOUS
    <3>6. op \in A => \E v, w \in Known : op = Op("add", <<v, w>>)
      OBVIOUS
    <3> HIDE DEF A, B, U, L
    <3> QED  BY <3>1, <3>2, <3>3, <3>4, <3>5, <3>6
  <2>2. CASE \E c \in Consts : op = ConstOp(c)
    BY <1>3, <2>2 DEF ConstOp
  <2>3. CASE op = Op("iota", <<>>)
    BY <1>3, <2>3
  <2>4. CASE \E v, w \in Known : op = Op("add", <<v, w>>)
    BY <1>3, <2>4
  <2>5. CASE \E k \in {"bcast", "view", "ident", "barrier", "print"}, v \in Known : op = Op(k, <<v>>)
    <3>1. PICK k \in {"bcast", "view", "ident", "barrier", "print"}, v \in Known : op = Op(k, <<v>>)
      BY <2>5
    <3>2. op.kind = k /\ op.ins = <<v>>
      BY <1>3, <3>1
    <3> QED  BY <3>2
  <2>6. CASE \E v, w \in Known, t \in 1 .. 2 : op = BranchOp(v, w, t)
    <3>1. PICK v, w \in Known, t \in 1 .. 2 : op = BranchOp(v, w, t)
      BY <2>6
    <3>2. op = [kind |-> "branch", ins |-> <<v, v, w>>, const |-> NoPayload, trip |-> t,
                static |-> FALSE, move |-> <<>>]
      BY <1>3, <3>1 DEF BranchOp
    <3> QED  BY <3>2
  <2>7. CASE \E v, w \in Known, t \in 0 .. MaxTrip, k \in BOOLEAN, m \in Moves : op = LoopOp(v, w, t, k, m)
    <3>1. PICK v, w \in Known, t \in 0 .. MaxTrip, k \in BOOLEAN, m \in Moves : op = LoopOp(v, w, t, k, m)
      BY <2>7
    <3>2. op = [kind |-> "loop", ins |-> <<v, w, <<0, 1>>>>, const |-> NoPayload, trip |-> t,
                static |-> k, move |-> m]
      BY <1>3, <3>1 DEF LoopOp
    <3> QED  BY <3>2
  <2> QED  BY <2>1, <2>2, <2>3, <2>4, <2>5, <2>6, <2>7
<1>5. op.kind \in OpKinds \cup {"barrier"}
  BY <1>4 DEF OpKinds
<1>6. op.ins \in Seq(Known)
  BY <1>1, <1>2, <1>4
<1>7. /\ op.kind \in {"bcast", "view", "ident", "print", "barrier"} => Len(op.ins) = 1
      /\ op.kind = "add" => Len(op.ins) = 2
      /\ op.kind = "branch" => Len(op.ins) = 3 /\ op.trip \in 1 .. 2
      /\ op.kind = "loop" => Len(op.ins) = 3 /\ op.trip \in 0 .. MaxTrip /\ op.move \in Moves
  BY <1>4
<1>8. 0 .. MaxTrip \subseteq Nat
  BY LoopsAssumption
<1> QED  BY <1>5, <1>6, <1>7, <1>8 DEF Proper

LEMMA NowKnown ==
  ASSUME Ops(src), NEW op, Proper(op, Known), NEW next, next = Append(src, op)
  PROVE  Ops(next) /\ KnownIn(next) \subseteq KnownIn(src) \cup MadeBy(op, Len(src) + 1)
<1> DEFINE N == Len(src)
<1>1. src \in Seq(ToSet(src)) /\ DOMAIN src = 1 .. N /\ N \in Nat
  BY OfItsOwn DEF Ops
<1>2. /\ next \in Seq(ToSet(src) \cup {op}) /\ Len(next) = N + 1 /\ next[N + 1] = op
      /\ \A i \in 1 .. N : next[i] = src[i]
  BY <1>1
<1>3. next \in Seq(ToSet(next)) /\ DOMAIN next = 1 .. N + 1
  BY <1>2, OfItsOwn
<1>4. \A i \in 1 .. N + 1 : i \in 1 .. N \/ i = N + 1
  BY <1>1
<1>5. Ops(next)
  <2>1. op.kind = "loop" => op.move \in Moves
    BY DEF Proper
  <2> QED  BY <1>2, <1>3, <1>4, <2>1 DEF Ops
<1>6. ASSUME NEW v \in KnownIn(next), v \notin KnownIn(src)
      PROVE  v \in MadeBy(op, N + 1)
  <2>1. \/ v \in {<<0, a>> : a \in Args}
        \/ \E i \in 1 .. N + 1, j \in 1 .. 2 : v = <<i, j>>
    BY <1>3 DEF KnownIn
  <2>2. CASE v \in {<<0, a>> : a \in Args}
    BY <1>6, <2>2 DEF KnownIn
  <2>3. CASE \E i \in 1 .. N + 1, j \in 1 .. 2 : v = <<i, j>>
    <3>1. PICK i \in 1 .. N + 1, j \in 1 .. 2 : v = <<i, j>>
      BY <2>3
    <3>2. i # 0 /\ v[1] = i /\ v[2] = j
      BY <1>1, <3>1
    <3>3. j <= Arity(next[i])
      BY <3>2 DEF KnownIn
    <3>4. CASE i \in 1 .. N
      <4>1. j <= Arity(src[i])
        BY <1>2, <3>3, <3>4
      <4>2. v \in KnownIn(src)
        BY <1>1, <3>1, <3>2, <3>4, <4>1 DEF KnownIn
      <4> QED  BY <1>6, <4>2
    <3>5. CASE i = N + 1
      <4>1. j <= Arity(op)
        BY <1>2, <3>3, <3>5
      <4>2. op.kind # "loop" => j = 1
        BY <4>1 DEF Arity
      <4>3. j = 1 \/ j = 2
        OBVIOUS
      <4> QED  BY <3>1, <3>5, <4>2, <4>3 DEF MadeBy
    <3> QED  BY <1>4, <3>4, <3>5
  <2> QED  BY <2>1, <2>2, <2>3
<1> QED  BY <1>5, <1>6

LEMMA FewerNames ==
  ASSUME NEW f, NEW values, LoweredTo(f, values), NEW fewer \in SUBSET values
  PROVE  LoweredTo(f, fewer)
BY DEF LoweredTo, Names

\* Only the entries, and what may view a constant, change in a pass.
LEMMA Rewritten ==
  ASSUME NEW f, IsFrame(f), NEW es, NEW cv,
         NEW g, g = [slot |-> f.slot, n |-> f.n, entries |-> es,
                     alias |-> f.alias, cview |-> cv, consts |-> f.consts]
  PROVE  IsFrame(g) /\ g.n = f.n /\ g.entries = es /\ g.alias = f.alias /\ g.cview = cv
<1>1. /\ g.slot = f.slot /\ g.n = f.n /\ g.entries = es
      /\ g.alias = f.alias /\ g.cview = cv /\ g.consts = f.consts
  OBVIOUS
<1> QED  BY <1>1 DEF IsFrame

\* The empty frame.
LEMMA FirstFrame == IsFrame(Frame) /\ LoweredTo(Frame, KnownIn(<<>>))
<1> DEFINE sl == [v \in {<<0, a>> : a \in Args} |-> v[2]]
           al == [s \in Args |-> {s}]
<1>1. Frame = [slot |-> sl, n |-> NArgs, entries |-> <<>>, alias |-> al, cview |-> {}, consts |-> <<>>]
  BY DEF Frame
<1>2. \A v \in KnownIn(<<>>) : v \in DOMAIN sl /\ sl[v] \in Args
  <2>1. KnownIn(<<>>) \subseteq {<<0, a>> : a \in Args}
    BY DEF KnownIn
  <2>2. \A a \in Args : sl[<<0, a>>] = a
    OBVIOUS
  <2> QED  BY <2>1, <2>2
<1> HIDE DEF sl, al
<1>3. /\ Frame.slot = sl /\ Frame.n = NArgs /\ Frame.entries = <<>>
      /\ Frame.alias = al /\ Frame.cview = {} /\ Frame.consts = <<>>
  BY <1>1
<1>4. IsFrame(Frame)
  BY <1>1, <1>3 DEF IsFrame
<1>5. NArgs \in Nat /\ Args = 1 .. NArgs
  BY ArgsAssumption
<1>6. Complete(<<>>, NArgs)
  <2>1. <<>> \in Seq(ToSet(<<>>)) /\ 1 .. Len(<<>>) = {}
    OBVIOUS
  <2> QED  BY <1>5, <2>1 DEF Complete, Sound, Has
<1>7. Names(sl, KnownIn(<<>>), NArgs)
  BY <1>2, <1>5 DEF Names
<1>8. DOMAIN Frame.consts = {}
  BY <1>3
<1> QED  BY <1>3, <1>4, <1>6, <1>7, <1>8 DEF LoweredTo

\* What the block returns is made by then.
LEMMA Returns ==
  ASSUME NEW f, NEW values, LoweredTo(f, values), NEW xs \in Seq(values),
         NEW os, os = [j \in DOMAIN xs |-> f.slot[xs[j]]]
  PROVE  WellFormed(f.entries, f.n, os) /\ Args \subseteq 1 .. f.n
<1>1. f.n \in Nat /\ Complete(f.entries, f.n) /\ Names(f.slot, values, f.n)
  BY FrameFacts
<1>2. os \in Seq(1 .. f.n)
  BY <1>1, SlotsRead
<1>3. ToSet(os) \subseteq 1 .. f.n
  BY <1>2, OfItsOwn
<1>4. Flows(f.entries, 1 .. Len(f.entries), os)
  BY <1>1, <1>3 DEF Complete, Flows
<1> QED  BY <1>1, <1>2, <1>4 DEF Complete, WellFormed

LEMMA InvInit == TapeInit => TapeInv
<1> SUFFICES ASSUME TapeInit PROVE TapeInv
  OBVIOUS
<1>1. phase = "lower" /\ src = <<>> /\ frame = Frame /\ pc = 1
  BY DEF TapeInit
<1>2. IsFrame(Frame) /\ LoweredTo(Frame, KnownIn(<<>>))
  BY FirstFrame
<1>3. Ops(<<>>)
  BY DEF Ops
<1>4. Args \subseteq 1 .. Frame.n
  BY <1>2 DEF LoweredTo, Complete
<1> QED  BY <1>1, <1>2, <1>3, <1>4 DEF TapeInv

LEMMA InvNext == TapeInv /\ [TapeNext]_tapeVars => TapeInv'
<1> SUFFICES ASSUME TapeInv, [TapeNext]_tapeVars PROVE TapeInv'
  OBVIOUS
<1> DEFINE n == frame.n
<1>1. CASE LowerOp
  <2>1. /\ phase = "lower" /\ phase' = "lower" /\ pc = 1 /\ pc' = 1 /\ Ops(src)
        /\ LoweredTo(frame, KnownIn(src))
    BY <1>1 DEF LowerOp, TapeInv
  <2>2. PICK op \in NextOps : src' = Append(src, op) /\ frame' = Lowered(frame, op, Len(src) + 1)
    BY <1>1 DEF LowerOp
  <2>3. Proper(op, Known) /\ Known = KnownIn(src)
    BY <2>1, NextOpsProper, KnownOnes
  <2>4. Ops(src') /\ KnownIn(src') \subseteq KnownIn(src) \cup MadeBy(op, Len(src) + 1)
    BY <2>1, <2>2, <2>3, NowKnown
  <2>5. LoweredTo(frame', KnownIn(src) \cup MadeBy(op, Len(src) + 1))
    BY <2>1, <2>2, <2>3, OpLowers
  <2>6. LoweredTo(frame', KnownIn(src'))
    BY <2>4, <2>5, FewerNames
  <2>7. IsFrame(frame') /\ Args \subseteq 1 .. frame'.n
    BY <2>6 DEF LoweredTo, Complete
  <2> QED  BY <2>1, <2>4, <2>6, <2>7 DEF TapeInv
<1>2. CASE Terminate
  <2>1. /\ phase = "lower" /\ phase' = "cse" /\ pc = 1 /\ pc' = 1 /\ Ops(src) /\ frame' = frame
        /\ LoweredTo(frame, KnownIn(src)) /\ src # <<>> /\ IsFrame(frame)
    BY <1>2 DEF Terminate, TapeInv
  <2>2. Known = KnownIn(src) /\ <<Len(src), 1>> \in Known
    BY <2>1, KnownOnes
  <2>3. returned' \in Seq(KnownIn(src))
    <3>1. PICK v \in Known : \E w \in {v} \cup {<<Len(src), 1>>} :
            returned' = IF v = w THEN <<v>> ELSE <<v, w>>
      BY <1>2 DEF Terminate
    <3>2. PICK w \in {v} \cup {<<Len(src), 1>>} : returned' = IF v = w THEN <<v>> ELSE <<v, w>>
      BY <3>1
    <3>3. v \in KnownIn(src) /\ w \in KnownIn(src)
      BY <2>2
    <3>4. <<v>> \in Seq(KnownIn(src)) /\ <<v, w>> \in Seq(KnownIn(src))
      BY <3>3
    <3> QED  BY <3>2, <3>4
  <2>4. outputs' = [j \in DOMAIN returned' |-> frame.slot[returned'[j]]]
    BY <1>2 DEF Terminate
  <2>5. WellFormed(frame.entries, frame.n, outputs') /\ Args \subseteq 1 .. frame.n
    BY <2>1, <2>3, <2>4, Returns
  <2> QED  BY <2>1, <2>5 DEF TapeInv, Entries
<1>3. CASE CsePass
  <2>1. /\ phase = "cse" /\ phase' = "fold" /\ pc = 1 /\ pc' = 1 /\ IsFrame(frame)
        /\ Args \subseteq 1 .. n /\ WellFormed(frame.entries, n, outputs)
    BY <1>3 DEF CsePass, TapeInv, Entries
  <2>2. CASE CsePassOn
    <3> DEFINE m == Merged(frame.entries, n)
               to == m.remap
    <3>1. frame' = [frame EXCEPT !.entries = m.kept]
          /\ outputs' = [j \in DOMAIN outputs |-> to[outputs[j]]]
      BY <1>3, <2>2 DEF CsePass, Entries
    <3>2. WellFormed(m.kept, n, [j \in DOMAIN outputs |-> to[outputs[j]]])
      BY <2>1, MergedFlows
    <3>3. IsFrame(frame') /\ frame'.n = n /\ frame'.entries = m.kept
      <4> DEFINE es1 == m.kept
                 cv1 == frame.cview
      <4>1. frame = [slot |-> frame.slot, n |-> frame.n, entries |-> frame.entries,
                     alias |-> frame.alias, cview |-> frame.cview, consts |-> frame.consts]
        BY <2>1 DEF IsFrame
      <4> HIDE DEF es1, cv1
      <4>2. frame' = [slot |-> frame.slot, n |-> frame.n, entries |-> es1,
                      alias |-> frame.alias, cview |-> cv1, consts |-> frame.consts]
        BY <3>1, <4>1 DEF es1, cv1
      <4>3. IsFrame(frame') /\ frame'.n = frame.n /\ frame'.entries = es1
        BY <2>1, <4>2, Rewritten
      <4> QED  BY <4>3 DEF es1
    <3> HIDE DEF m, to
    <3> QED  BY <2>1, <3>1, <3>2, <3>3 DEF TapeInv, Entries
  <2>3. CASE ~ CsePassOn
    <3>1. frame' = frame /\ outputs' = outputs
      BY <1>3, <2>3 DEF CsePass
    <3> QED  BY <2>1, <3>1 DEF TapeInv, Entries
  <2> QED  BY <2>2, <2>3
<1>4. CASE FoldConstants
  <2>1. /\ phase = "fold" /\ phase' = "dce" /\ pc = 1 /\ pc' = 1 /\ IsFrame(frame) /\ outputs' = outputs
        /\ Args \subseteq 1 .. n /\ WellFormed(frame.entries, n, outputs)
    BY <1>4 DEF FoldConstants, TapeInv, Entries
  <2> DEFINE f == Folded(frame.entries, outputs)
             cv == Retainted(f.entries, frame.cview \cup f.payloads)
  <2>2. frame' = [frame EXCEPT !.entries = f.entries, !.cview = cv] \/ frame' = frame
    BY <1>4 DEF FoldConstants, Entries
  <2>3. CASE frame' = [frame EXCEPT !.entries = f.entries, !.cview = cv]
    <3>1. WellFormed(f.entries, n, outputs)
      BY <2>1, FoldedFlows
    <3> HIDE DEF f, cv
    <3>2. IsFrame(frame') /\ frame'.n = n /\ frame'.entries = f.entries
      <4> DEFINE es1 == f.entries
                 cv1 == cv
      <4>1. frame = [slot |-> frame.slot, n |-> frame.n, entries |-> frame.entries,
                     alias |-> frame.alias, cview |-> frame.cview, consts |-> frame.consts]
        BY <2>1 DEF IsFrame
      <4> HIDE DEF es1, cv1
      <4>2. frame' = [slot |-> frame.slot, n |-> frame.n, entries |-> es1,
                      alias |-> frame.alias, cview |-> cv1, consts |-> frame.consts]
        BY <2>3, <4>1 DEF es1, cv1
      <4>3. IsFrame(frame') /\ frame'.n = frame.n /\ frame'.entries = es1
        BY <2>1, <4>2, Rewritten
      <4> QED  BY <4>3 DEF es1
    <3> QED  BY <2>1, <3>1, <3>2 DEF TapeInv, Entries
  <2>4. CASE frame' = frame
    BY <2>1, <2>4 DEF TapeInv, Entries
  <2> QED  BY <2>2, <2>3, <2>4
<1>5. CASE DcePass
  <2>1. /\ phase = "dce" /\ phase' = "finish" /\ pc = 1 /\ pc' = 1 /\ IsFrame(frame) /\ outputs' = outputs
        /\ Args \subseteq 1 .. n /\ WellFormed(frame.entries, n, outputs)
    BY <1>5 DEF DcePass, TapeInv, Entries
  <2> DEFINE es == Needed(frame.entries, outputs)
  <2>2. frame' = [frame EXCEPT !.entries = es] \/ frame' = frame
    BY <1>5 DEF DcePass
  <2>3. CASE frame' = [frame EXCEPT !.entries = es]
    <3>1. WellFormed(es, n, outputs)
      BY <2>1, NeededFlows
    <3> HIDE DEF es
    <3>2. IsFrame(frame') /\ frame'.n = n /\ frame'.entries = es
      <4> DEFINE es1 == es
                 cv1 == frame.cview
      <4>1. frame = [slot |-> frame.slot, n |-> frame.n, entries |-> frame.entries,
                     alias |-> frame.alias, cview |-> frame.cview, consts |-> frame.consts]
        BY <2>1 DEF IsFrame
      <4> HIDE DEF es1, cv1
      <4>2. frame' = [slot |-> frame.slot, n |-> frame.n, entries |-> es1,
                      alias |-> frame.alias, cview |-> cv1, consts |-> frame.consts]
        BY <2>3, <4>1 DEF es1, cv1
      <4>3. IsFrame(frame') /\ frame'.n = frame.n /\ frame'.entries = es1
        BY <2>1, <4>2, Rewritten
      <4> QED  BY <4>3 DEF es1
    <3> QED  BY <2>1, <3>1, <3>2 DEF TapeInv, Entries
  <2>4. CASE frame' = frame
    BY <2>1, <2>4 DEF TapeInv, Entries
  <2> QED  BY <2>2, <2>3, <2>4
<1>6. CASE Finish
  <2>1. /\ phase = "finish" /\ phase' = "run" /\ pc = 1 /\ pc' = 1 /\ IsFrame(frame)
        /\ outputs' = outputs /\ frame' = frame
        /\ Args \subseteq 1 .. n /\ WellFormed(frame.entries, n, outputs)
        /\ drops' = DropsOf(frame.entries, outputs)
    BY <1>6 DEF Finish, TapeInv, Entries
  <2>2. env' = [s \in 1 .. n |->
                  IF s \in Args THEN [term |-> <<"arg", s>>, obj |-> <<"arg", s>>, buf |-> <<"arg", s>>]
                  ELSE NoArray]
    BY <1>6 DEF Finish
  <2>3. DOMAIN env' = 1 .. n /\ \A s \in 1 .. n : env'[s] # NoArray <=> s \in Args
    <3>1. \A s : [term |-> <<"arg", s>>, obj |-> <<"arg", s>>, buf |-> <<"arg", s>>] # NoArray
      BY NotNone DEF NoArray
    <3> QED  BY <2>2, <3>1
  <2>4. Holds(env', frame.entries, n, outputs, 1)
    BY <2>1, <2>3, StartHolds
  <2>5. 1 \in 1 .. Len(frame.entries) + 1
    <3>1. Len(frame.entries) \in Nat
      BY <2>1, WellFormedFacts
    <3> QED  BY <3>1
  <2> QED  BY <2>1, <2>4, <2>5 DEF TapeInv, Entries
<1>7. CASE Step
  <2>1. /\ phase = "run" /\ phase' = "run" /\ IsFrame(frame) /\ outputs' = outputs /\ frame' = frame
        /\ Args \subseteq 1 .. n /\ WellFormed(frame.entries, n, outputs)
        /\ drops' = drops /\ drops = DropsOf(frame.entries, outputs)
        /\ pc \in 1 .. Len(frame.entries) + 1 /\ pc <= Len(frame.entries) /\ pc' = pc + 1
        /\ Holds(env, frame.entries, n, outputs, pc)
    BY <1>7 DEF Step, TapeInv, Entries
  <2>2. pc \in 1 .. Len(frame.entries) /\ pc + 1 \in 1 .. Len(frame.entries) + 1
    <3>1. Len(frame.entries) \in Nat
      BY <2>1, WellFormedFacts
    <3> QED  BY <2>1, <3>1
  <2> DEFINE after == Written(frame.entries[pc], env, Len(log))
  <2>3. env' = [s \in DOMAIN env |-> IF s \in DropsOf(frame.entries, outputs)[pc] THEN NoArray ELSE after[s]]
    BY <1>7, <2>1 DEF Step, Entries
  <2>4. Holds(env', frame.entries, n, outputs, pc + 1)
    BY <2>1, <2>2, <2>3, StepHolds
  <2> HIDE DEF after
  <2> QED  BY <2>1, <2>2, <2>4 DEF TapeInv, Entries
<1>8. CASE Return
  BY <1>8 DEF Return, TapeInv, Entries
<1>9. CASE Done
  BY <1>9 DEF Done, tapeVars, TapeInv, Entries
<1>10. CASE UNCHANGED tapeVars
  BY <1>10 DEF tapeVars, TapeInv, Entries
<1> QED  BY <1>1, <1>2, <1>3, <1>4, <1>5, <1>6, <1>7, <1>8, <1>9, <1>10 DEF TapeNext

LEMMA InvHolds == TapeInv => HeldExactlyWhileNeeded
<1> SUFFICES ASSUME TapeInv, phase = "run" PROVE HeldExactlyWhileNeeded
  BY DEF HeldExactlyWhileNeeded
<1> DEFINE es == frame.entries
           n == frame.n
           N == Len(es)
           later == UNION {ToSet(es[i].ins) : i \in pc .. N}
           made == Args \cup UNION {ToSet(es[i].outs) : i \in 1 .. pc - 1}
           unread == {s \in Args : \A i \in DOMAIN es : s \notin ToSet(es[i].ins)}
<1>1. /\ Args \subseteq 1 .. n /\ WellFormed(es, n, outputs) /\ pc \in 1 .. N + 1
      /\ Holds(env, es, n, outputs, pc)
  BY DEF TapeInv, Entries
<1>2. DOMAIN es = 1 .. N /\ N \in Nat /\ Sound(es, n) /\ DOMAIN env = 1 .. n
  BY <1>1, WellFormedFacts DEF Holds
<1>3. \A s : Wanted(s, es, outputs, pc) <=> s \in later \cup ToSet(outputs) \cup unread
  BY <1>2 DEF Wanted
<1>4. \A s : Has(s, es, 1 .. N, pc) <=> s \in made
  <2>1. \A i : i \in 1 .. pc - 1 <=> i \in 1 .. N /\ i < pc
    BY <1>1, <1>2
  <2> QED  BY <2>1 DEF Has
<1>5. \A s : s \in made => s \in 1 .. n
  <2>1. \A i \in 1 .. pc - 1 : i \in 1 .. N
    BY <1>1, <1>2
  <2>2. \A i \in 1 .. N : ToSet(es[i].outs) \subseteq 1 .. n
    BY <1>2, ShapedFacts DEF Sound
  <2> QED  BY <1>1, <2>1, <2>2
<1>6. \A s \in 1 .. n : env[s] # NoArray <=> Wanted(s, es, outputs, pc) /\ Has(s, es, 1 .. N, pc)
  BY <1>1 DEF Holds
<1> HIDE DEF later, made, unread
<1>7. {s \in DOMAIN env : env[s] # NoArray} = (later \cup ToSet(outputs) \cup unread) \cap made
  BY <1>2, <1>3, <1>4, <1>5, <1>6
<1> QED  BY <1>7 DEF HeldExactlyWhileNeeded, Entries, later, made, unread

(* What a walk holds is what is still to be read: no entry of a tape reads *)
(* a slot that was let go or never written, no output is missing, and      *)
(* nothing else is kept (Finish's drop lists, Program::interpret).         *)
THEOREM SlotsHeldExactly == TapeSpec => []HeldExactlyWhileNeeded
<1>1. TapeSpec => []TapeInv
  BY InvInit, InvNext, PTL DEF TapeSpec
<1> QED  BY <1>1, InvHolds, PTL

---------------------------------------------------------------------------
(* The taints.  What the lowering says a slot may be covers what the array *)
(* in it is: every entry charges the slots it writes with what its         *)
(* operands are charged with.  A loop does so when it hands a carry on in  *)
(* its own place.                                                          *)
Agree(f, s, g, t) == AliasOf(f, s) = AliasOf(g, t) /\ (s \in f.cview <=> t \in g.cview)
Below(f, s, t) == AliasOf(f, s) \subseteq AliasOf(f, t) /\ (s \in f.cview => t \in f.cview)

(* The ops an entry of which owes its result one taint, and that taint. *)
Certain == {"const", "iota", "add", "bcast", "view", "ident"}
Due(f, o, ins, s) ==
  /\ AliasOf(f, s) = IF o = "ident" THEN AliasOf(f, ins[1]) ELSE {}
  /\ s \in f.cview <=> o = "const" \/ (o \in {"bcast", "view", "ident"} /\ ins[1] \in f.cview)
CarryCharged(e, f, j) ==
  IF e.trip = 0 THEN Below(f, e.ins[j], e.outs[j])
  ELSE /\ e.move[j][1] = "carry" => e.move[j][2] = j /\ Below(f, e.ins[j], e.outs[j])
       /\ e.move[j][1] = "cap" => Below(f, e.ins[3], e.outs[j])
Charged(e, f) ==
  /\ e.op \in Certain => Due(f, e.op, e.ins, e.outs[1])
  /\ e.op = "branch" => Below(f, e.ins[2], e.outs[1]) /\ Below(f, e.ins[3], e.outs[1])
  /\ e.op = "loop" => \A j \in 1 .. 2 : CarryCharged(e, f, j)
Within(f) == DOMAIN f.alias \subseteq 1 .. f.n /\ f.cview \subseteq 1 .. f.n
Charging(f) ==
  /\ Within(f) /\ \A a \in Args : a \in AliasOf(f, a)
  /\ \A i \in 1 .. Len(f.entries) : Charged(f.entries[i], f)

(* The array `a` in slot s is no more than s is charged with, and none of  *)
(* the copies the outputs `js` may get.                                    *)
IsArray(a) == a = [term |-> a.term, obj |-> a.obj, buf |-> a.buf]
Fits(a, f, s, js) ==
  /\ IsArray(a)
  /\ \A x \in Args : a.obj = <<"arg", x>> => x \in AliasOf(f, s)
  /\ \A j \in js : a.obj # <<"copy", j>>
  /\ a.buf = <<"const">> => s \in f.cview
FitIn(en, f, js) == \A s \in 1 .. f.n : Fits(en[s], f, s, js)

InPlaceSoFar == \A i \in DOMAIN src : src[i].kind = "loop" => InPlace(src[i])
FreshInv ==
  /\ chosen \in [kinds : SUBSET STRING, ops : Nat, region : BOOLEAN, donated : SUBSET Args]
  /\ ~ chosen.region /\ InPlaceSoFar =>
       /\ Charging(frame)
       /\ phase = "run" => /\ copies = CopiesOf(outputs, frame, chosen.donated)
                           /\ FitIn(env, frame, DOMAIN outputs)
       /\ phase = "done" => \A j \in DOMAIN outs : OutputIsFresh(j)

\* A taint joined to a slot that has none.
LEMMA TaintOne ==
  ASSUME NEW f, NEW s, s \notin DOMAIN f.alias, s \notin f.cview, NEW t, t.cv \in BOOLEAN,
         NEW g, TaintAt(f, s, t, g)
  PROVE  /\ AliasOf(g, s) = t.args /\ (s \in g.cview <=> t.cv)
         /\ \A x : x # s => Agree(f, x, g, x)
         /\ DOMAIN g.alias \subseteq DOMAIN f.alias \cup {s} /\ g.cview \subseteq f.cview \cup {s}
<1>1. /\ DOMAIN With(f.alias, s, t.args) = DOMAIN f.alias \cup {s}
      /\ \A x \in DOMAIN f.alias \cup {s} :
           With(f.alias, s, t.args)[x] = IF x = s THEN t.args ELSE f.alias[x]
  BY DEF With
<1>2. AliasOf(g, s) = t.args /\ (\A x : x # s => AliasOf(f, x) = AliasOf(g, x))
      /\ DOMAIN g.alias \subseteq DOMAIN f.alias \cup {s}
  <2>1. CASE t.args = {}
    BY <2>1 DEF TaintAt, AliasOf
  <2>2. CASE t.args # {}
    <3>1. g.alias = With(f.alias, s, t.args)
      BY <2>2 DEF TaintAt
    <3> QED  BY <1>1, <3>1 DEF AliasOf
  <2> QED  BY <2>1, <2>2
<1>3. (s \in g.cview <=> t.cv) /\ (\A x : x # s => (x \in f.cview <=> x \in g.cview))
      /\ g.cview \subseteq f.cview \cup {s}
  BY DEF TaintAt
<1> QED  BY <1>2, <1>3 DEF Agree

\* A charge moves with its slots' taints.
LEMMA ChargeMoves ==
  ASSUME NEW e, NEW n, Shaped(e, n), NEW f, Charged(e, f), NEW r, NEW g,
         r.op = e.op, r.outs = e.outs, r.trip = e.trip, r.move = e.move,
         \A k \in 1 .. Len(e.ins) : Agree(f, e.ins[k], g, r.ins[k]),
         \A k \in 1 .. Len(e.outs) : Agree(f, e.outs[k], g, e.outs[k])
  PROVE  Charged(r, g)
<1>0. 1 \in 1 .. 1 /\ 1 \in 1 .. 3 /\ 2 \in 1 .. 3 /\ 3 \in 1 .. 3
  OBVIOUS
<1> USE <1>0
<1>1. Operands(e) /\ Results(e)
  BY DEF Shaped
<1>2. e.op # "loop" => Agree(f, e.outs[1], g, e.outs[1])
  BY <1>1 DEF Results
<1>3. ASSUME e.op \in Certain
      PROVE  Due(g, e.op, r.ins, e.outs[1])
  <2>1. Due(f, e.op, e.ins, e.outs[1]) /\ e.op # "loop"
    BY <1>3 DEF Charged, Certain
  <2>2. e.op \in {"bcast", "view", "ident"} => Agree(f, e.ins[1], g, r.ins[1])
    BY <1>1 DEF Operands
  <2> QED  BY <1>2, <2>1, <2>2 DEF Due, Agree
<1>4. ASSUME e.op = "branch"
      PROVE  Below(g, r.ins[2], e.outs[1]) /\ Below(g, r.ins[3], e.outs[1])
  <2>1. Agree(f, e.ins[2], g, r.ins[2]) /\ Agree(f, e.ins[3], g, r.ins[3])
    BY <1>1, <1>4 DEF Operands
  <2> QED  BY <1>2, <1>4, <2>1 DEF Charged, Below, Agree
<1>5. ASSUME e.op = "loop", NEW j \in 1 .. 2
      PROVE  CarryCharged(r, g, j)
  <2>1. Len(e.ins) = 3 /\ Len(e.outs) = 2
    BY <1>1, <1>5 DEF Operands, Results
  <2>2. Agree(f, e.ins[j], g, r.ins[j]) /\ Agree(f, e.ins[3], g, r.ins[3])
        /\ Agree(f, e.outs[j], g, e.outs[j])
    BY <2>1
  <2>3. CarryCharged(e, f, j)
    BY <1>5 DEF Charged
  <2> QED  BY <2>2, <2>3 DEF CarryCharged, Below, Agree
<1> QED  BY <1>3, <1>4, <1>5 DEF Charged

\* What an entry reads and writes is among the frame's slots.
LEMMA SlotsOf ==
  ASSUME NEW e, NEW n, Shaped(e, n)
  PROVE  /\ \A k \in 1 .. Len(e.ins) : e.ins[k] \in 1 .. n
         /\ \A k \in 1 .. Len(e.outs) : e.outs[k] \in 1 .. n
<1>1. e.ins \in Seq(1 .. n) /\ e.outs \in Seq(1 .. n)
  BY DEF Shaped
<1> QED  BY <1>1, ElementOf

\* One entry more, charged; what was bound keeps its taints.
LEMMA ChargedNext ==
  ASSUME NEW f, Charging(f), Complete(f.entries, f.n), NEW e, NEW g,
         g.entries = Append(f.entries, e), Charged(e, g), Within(g),
         \A s \in 1 .. f.n : Agree(f, s, g, s)
  PROVE  Charging(g)
<1>1. /\ Sound(f.entries, f.n) /\ Args \subseteq 1 .. f.n /\ f.entries \in Seq(ToSet(f.entries))
  BY DEF Complete, Sound
<1> DEFINE es == f.entries
           N == Len(es)
<1>2. N \in Nat /\ Len(Append(es, e)) = N + 1 /\ Append(es, e)[N + 1] = e
      /\ \A i \in 1 .. N : Append(es, e)[i] = es[i]
  BY <1>1
<1>3. ASSUME NEW i \in 1 .. N
      PROVE  Charged(es[i], g)
  <2>1. Shaped(es[i], f.n) /\ Charged(es[i], f)
    BY <1>1 DEF Sound, Charging
  <2>2. /\ \A k \in 1 .. Len(es[i].ins) : Agree(f, es[i].ins[k], g, es[i].ins[k])
        /\ \A k \in 1 .. Len(es[i].outs) : Agree(f, es[i].outs[k], g, es[i].outs[k])
    BY <2>1, SlotsOf
  <2> HIDE DEF es
  <2> QED  BY <2>1, <2>2, ChargeMoves
<1>4. \A i \in 1 .. Len(g.entries) : Charged(g.entries[i], g)
  <2>1. \A i \in 1 .. N + 1 : i \in 1 .. N \/ i = N + 1
    BY <1>2
  <2> HIDE DEF es, N
  <2> QED  BY <1>2, <1>3, <2>1 DEF es
<1>5. \A a \in Args : a \in AliasOf(g, a)
  BY <1>1 DEF Charging, Agree
<1> QED  BY <1>4, <1>5 DEF Charging

(* g is f with a fresh slot of taint t, which entry e writes. *)
Grows(f, g, e, t) ==
  /\ g.n = f.n + 1 /\ g.entries = Append(f.entries, e) /\ Within(g)
  /\ \A s \in 1 .. f.n : Agree(f, s, g, s)
  /\ AliasOf(g, f.n + 1) = t.args /\ (f.n + 1 \in g.cview <=> t.cv)

LEMMA OneGrows ==
  ASSUME NEW f, Charging(f), NEW values, LoweredTo(f, values), NEW v, NEW t, t.cv \in BOOLEAN,
         NEW h, h = ApplyTaint(Bind(f, v), f.n + 1, t), NEW e, NEW g, g = Emit(h, e)
  PROVE  Grows(f, g, e, t)
<1> DEFINE b == Bind(f, v)
           s == f.n + 1
<1>1. f.n \in Nat /\ IsFrame(f) /\ Within(f)
  BY FrameFacts DEF Charging
<1>2. IsFrame(b) /\ b.n = s /\ b.entries = f.entries /\ b.alias = f.alias /\ b.cview = f.cview
  BY <1>1, Bound
<1>3. h = ApplyTaint(b, s, t)
  OBVIOUS
<1> HIDE DEF b
<1>4. IsFrame(h) /\ h.n = s /\ h.entries = f.entries /\ TaintAt(b, s, t, h)
  BY <1>2, <1>3, Tainted
<1>5. g.n = s /\ g.entries = Append(f.entries, e) /\ g.alias = h.alias /\ g.cview = h.cview
  BY <1>4, Emitted
<1>6. TaintAt(f, s, t, g)
  BY <1>2, <1>4, <1>5 DEF TaintAt
<1>7. s \notin 1 .. f.n /\ s \in 1 .. s /\ \A x \in 1 .. f.n : x # s /\ x \in 1 .. s
  BY <1>1
<1> HIDE DEF s
<1>8. s \notin DOMAIN f.alias /\ s \notin f.cview
  BY <1>1, <1>7 DEF Within
<1>9. /\ AliasOf(g, s) = t.args /\ (s \in g.cview <=> t.cv)
      /\ \A x : x # s => Agree(f, x, g, x)
      /\ DOMAIN g.alias \subseteq DOMAIN f.alias \cup {s} /\ g.cview \subseteq f.cview \cup {s}
  BY <1>6, <1>8, TaintOne
<1>10. Within(g)
  BY <1>1, <1>5, <1>7, <1>9 DEF Within
<1>11. \A x \in 1 .. f.n : Agree(f, x, g, x)
  BY <1>7, <1>9
<1> QED  BY <1>5, <1>9, <1>10, <1>11 DEF Grows, s

\* A fresh slot, charged: the frame goes on charging.
LEMMA GrownCharging ==
  ASSUME NEW f, Charging(f), NEW values, LoweredTo(f, values), NEW t, NEW e, NEW g,
         Grows(f, g, e, t), Charged(e, g)
  PROVE  Charging(g)
<1>1. Complete(f.entries, f.n)
  BY FrameFacts
<1>2. /\ g.entries = Append(f.entries, e) /\ Within(g)
      /\ \A s \in 1 .. f.n : Agree(f, s, g, s)
  BY DEF Grows
<1> QED  BY <1>1, <1>2, ChargedNext

LEMMA SimpleCharges ==
  ASSUME NEW f, Charging(f), NEW values, LoweredTo(f, values), NEW op, Proper(op, values), NEW v,
         op.kind \in {"iota", "add", "bcast", "view", "ident", "print"}
  PROVE  Charging(LowerSimple(f, op, v))
<1> DEFINE ins == [i \in DOMAIN op.ins |-> f.slot[op.ins[i]]]
           b == Bind(f, v)
           e == Entry(op.kind, ins, <<f.n + 1>>)
           args == IF IsIdentity(op.kind) THEN UNION {AliasOf(b, ins[i]) : i \in DOMAIN ins} ELSE {}
           cv == IsViewOp(op.kind) /\ \E i \in DOMAIN ins : ins[i] \in b.cview
           t == [args |-> args, cv |-> cv]
           h == ApplyTaint(b, f.n + 1, t)
           g == Emit(h, e)
<1>1. f.n \in Nat /\ IsFrame(f) /\ Names(f.slot, values, f.n)
  BY FrameFacts
<1>2. b.n = f.n + 1 /\ b.alias = f.alias /\ b.cview = f.cview
  BY <1>1, Bound
<1>3. TaintResults(b, op.kind, ins, f.n + 1) = h
  BY DEF TaintResults
<1>4. LowerSimple(f, op, v) = Emit(TaintResults(b, op.kind, ins, b.n), Entry(op.kind, ins, <<b.n>>))
  BY DEF LowerSimple
<1>5. LowerSimple(f, op, v) = g
  BY <1>2, <1>3, <1>4
<1>6. ins \in Seq(1 .. f.n) /\ Len(ins) = Len(op.ins) /\ DOMAIN ins = 1 .. Len(ins)
  <2>1. op.ins \in Seq(values)
    BY DEF Proper
  <2>2. ins \in Seq(1 .. f.n) /\ Len(ins) = Len(op.ins)
    BY <1>1, <2>1, SlotsRead
  <2> HIDE DEF ins
  <2> QED  BY <2>2
<1>7. e.op = op.kind /\ e.ins = ins /\ e.outs[1] = f.n + 1
  BY DEF Entry
<1>8. t.args = args /\ t.cv = cv /\ t.cv \in BOOLEAN
  OBVIOUS
<1> HIDE DEF ins, t
<1>9. ASSUME op.kind \in {"bcast", "view", "ident"}
      PROVE  DOMAIN ins = {1} /\ ins[1] \in 1 .. f.n
  <2>1. Len(ins) = 1
    BY <1>6, <1>9 DEF Proper
  <2>2. DOMAIN ins = {1}
    BY <1>6, <2>1
  <2>3. 1 \in 1 .. Len(ins)
    BY <2>1
  <2> QED  BY <1>6, <2>2, <2>3, ElementOf
<1>10. args = IF op.kind = "ident" THEN AliasOf(f, ins[1]) ELSE {}
  <2>1. CASE op.kind = "ident"
    <3>1. args = UNION {AliasOf(b, ins[i]) : i \in {1}}
      BY <1>9, <2>1 DEF IsIdentity
    <3>2. AliasOf(b, ins[1]) = AliasOf(f, ins[1])
      BY <1>2 DEF AliasOf
    <3> QED  BY <2>1, <3>1, <3>2
  <2>2. CASE op.kind # "ident"
    BY <2>2 DEF IsIdentity
  <2> QED  BY <2>1, <2>2
<1>11. cv <=> op.kind \in {"bcast", "view", "ident"} /\ ins[1] \in f.cview
  BY <1>2, <1>9 DEF IsViewOp
<1> HIDE DEF args, cv
<1>12. Grows(f, g, e, t)
  BY <1>8, OneGrows
<1> HIDE DEF g, e
<1>13. op.kind \in {"bcast", "view", "ident"} => Agree(f, ins[1], g, ins[1])
  BY <1>9, <1>12 DEF Grows
<1>14. Charged(e, g)
  <2>1. ASSUME op.kind \in Certain
        PROVE  Due(g, op.kind, ins, f.n + 1)
    <3>1. AliasOf(g, f.n + 1) = args /\ (f.n + 1 \in g.cview <=> cv)
      BY <1>8, <1>12 DEF Grows
    <3> QED  BY <1>10, <1>11, <1>13, <3>1 DEF Due, Agree
  <2> QED  BY <1>7, <2>1 DEF Charged
<1> QED  BY <1>5, <1>12, <1>14, GrownCharging

LEMMA BranchCharges ==
  ASSUME NEW f, Charging(f), NEW values, LoweredTo(f, values), NEW op, Proper(op, values), NEW v,
         op.kind = "branch"
  PROVE  Charging(LowerBranch(f, op, v))
<1> DEFINE ins == [i \in DOMAIN op.ins |-> f.slot[op.ins[i]]]
           b == Bind(f, v)
           e == [Entry("branch", ins, <<f.n + 1>>) EXCEPT !.trip = op.trip]
           t == Join(TaintOf(f, ins[2]), TaintOf(f, ins[3]))
           h == ApplyTaint(b, f.n + 1, t)
           g == Emit(h, e)
<1>1. f.n \in Nat /\ IsFrame(f) /\ Names(f.slot, values, f.n)
  BY FrameFacts
<1>2. b.n = f.n + 1
  BY <1>1, Bound
<1>3. LowerBranch(f, op, v) = g
  BY <1>2 DEF LowerBranch
<1>4. ins \in Seq(1 .. f.n) /\ Len(ins) = 3
  <2>1. op.ins \in Seq(values) /\ Len(op.ins) = 3
    BY DEF Proper
  <2> QED  BY <1>1, <2>1, SlotsRead
<1>5. e.op = "branch" /\ e.ins = ins /\ e.outs[1] = f.n + 1
  BY DEF Entry
<1>6. /\ t.cv \in BOOLEAN /\ t.args = AliasOf(f, ins[2]) \cup AliasOf(f, ins[3])
      /\ t.cv <=> ins[2] \in f.cview \/ ins[3] \in f.cview
  BY DEF Join, TaintOf
<1> HIDE DEF ins, t
<1>7. ins[2] \in 1 .. f.n /\ ins[3] \in 1 .. f.n
  <2>1. 2 \in 1 .. Len(ins) /\ 3 \in 1 .. Len(ins)
    BY <1>4
  <2> QED  BY <1>4, <2>1, ElementOf
<1>8. Grows(f, g, e, t)
  BY <1>6, OneGrows
<1> HIDE DEF g, e
<1>9. Agree(f, ins[2], g, ins[2]) /\ Agree(f, ins[3], g, ins[3])
  BY <1>7, <1>8 DEF Grows
<1>10. AliasOf(g, f.n + 1) = t.args /\ (f.n + 1 \in g.cview <=> t.cv)
  BY <1>8 DEF Grows
<1>11. Below(g, ins[2], f.n + 1) /\ Below(g, ins[3], f.n + 1)
  BY <1>6, <1>9, <1>10 DEF Below, Agree
<1>12. Charged(e, g)
  BY <1>5, <1>11 DEF Charged, Certain
<1> QED  BY <1>3, <1>8, <1>12, GrownCharging

LEMMA BarrierCharges ==
  ASSUME NEW f, Charging(f), NEW values, LoweredTo(f, values), NEW v, NEW s
  PROVE  Charging(Alias(f, v, s))
<1> DEFINE g == Alias(f, v, s)
<1>1. IsFrame(f)
  BY FrameFacts
<1>2. g.n = f.n /\ g.entries = f.entries /\ g.alias = f.alias /\ g.cview = f.cview
  BY <1>1, Aliased
<1> HIDE DEF g
<1>3. \A x : AliasOf(g, x) = AliasOf(f, x)
  BY <1>2 DEF AliasOf
<1>4. Within(g) /\ \A a \in Args : a \in AliasOf(g, a)
  BY <1>2, <1>3 DEF Charging, Within
<1>5. \A e : Charged(e, f) => Charged(e, g)
  BY <1>2, <1>3 DEF Charged, Due, CarryCharged, Below
<1> QED  BY <1>2, <1>4, <1>5 DEF Charging, g

LEMMA PayloadCharges ==
  ASSUME NEW f, Charging(f), NEW values, LoweredTo(f, values), NEW v, NEW payload
  PROVE  Charging(LowerPayload(f, v, payload))
<1>1. f.n \in Nat /\ IsFrame(f) /\ Within(f)
  BY FrameFacts DEF Charging
<1>2. CASE CsePassOn /\ payload \in DOMAIN f.consts
  BY <1>2, BarrierCharges DEF LowerPayload
<1>3. CASE ~ (CsePassOn /\ payload \in DOMAIN f.consts)
  <2> DEFINE b == Bind(f, v)
             cv == b.cview \cup {b.n}
             cs == IF CsePassOn THEN With(b.consts, payload, b.n) ELSE b.consts
             h == [b EXCEPT !.cview = cv, !.consts = cs]
             e == ConstEntry(<<b.n>>, payload)
             g == Emit(h, e)
             t == [args |-> {}, cv |-> TRUE]
             s == f.n + 1
  <2>1. LowerPayload(f, v, payload) = g
    BY <1>3 DEF LowerPayload
  <2>2. /\ IsFrame(b) /\ b.n = s /\ b.entries = f.entries /\ b.alias = f.alias /\ b.cview = f.cview
    BY <1>1, Bound
  <2> HIDE DEF b
  <2>3. e.op = "const" /\ e.outs[1] = s
    BY <2>2 DEF ConstEntry, Entry
  <2> HIDE DEF cs, cv, e
  <2>4. /\ IsFrame(h) /\ h.n = s /\ h.entries = f.entries /\ h.alias = f.alias /\ h.cview = cv
    <3>1. b = [slot |-> b.slot, n |-> b.n, entries |-> b.entries,
               alias |-> b.alias, cview |-> b.cview, consts |-> b.consts]
      BY <2>2 DEF IsFrame
    <3>0. h = [b EXCEPT !.cview = cv, !.consts = cs]
      OBVIOUS
    <3> HIDE DEF h
    <3>2. h = [slot |-> b.slot, n |-> b.n, entries |-> b.entries,
               alias |-> b.alias, cview |-> cv, consts |-> cs]
      BY <3>0, <3>1
    <3>3. /\ h.slot = b.slot /\ h.n = b.n /\ h.entries = b.entries
          /\ h.alias = b.alias /\ h.cview = cv /\ h.consts = cs
      BY <3>2
    <3> QED  BY <2>2, <3>2, <3>3 DEF IsFrame
  <2> HIDE DEF h
  <2>5. g.n = s /\ g.entries = Append(f.entries, e) /\ g.alias = f.alias /\ g.cview = f.cview \cup {s}
    <3>1. g.n = h.n /\ g.entries = Append(h.entries, e) /\ g.alias = h.alias /\ g.cview = h.cview
      BY <2>4, Emitted
    <3>2. cv = f.cview \cup {s}
      BY <2>2 DEF cv
    <3> QED  BY <2>4, <3>1, <3>2
  <2> HIDE DEF g
  <2>6. s \notin 1 .. f.n /\ s \in 1 .. s /\ \A x \in 1 .. f.n : x # s /\ x \in 1 .. s
    BY <1>1
  <2> HIDE DEF s
  <2>7. Within(g) /\ \A x \in 1 .. f.n : Agree(f, x, g, x)
    BY <1>1, <2>5, <2>6 DEF Within, Agree, AliasOf
  <2>8. AliasOf(g, s) = {} /\ s \in g.cview
    BY <1>1, <2>5, <2>6 DEF Within, AliasOf
  <2>9. Charged(e, g)
    BY <2>3, <2>8 DEF Charged, Due, Certain
  <2>10. Grows(f, g, e, t)
    BY <2>5, <2>7, <2>8 DEF Grows, s
  <2> QED  BY <2>1, <2>9, <2>10, GrownCharging
<1> QED  BY <1>2, <1>3

(* Taint t is within u. *)
Inside(t, u) == t.args \subseteq u.args /\ (t.cv => u.cv)

LEMMA JoinHolds ==
  ASSUME NEW t, NEW u, t.cv \in BOOLEAN, u.cv \in BOOLEAN
  PROVE  Join(t, u).cv \in BOOLEAN /\ Inside(t, Join(t, u)) /\ Inside(u, Join(t, u))
BY DEF Join, Inside

\* What a loop's result owes its carry is within its taint.
LEMMA InsideBelow ==
  ASSUME NEW f, NEW g, NEW x, Agree(f, x, g, x), NEW t, Inside(TaintOf(f, x), t),
         NEW s, AliasOf(g, s) = t.args, s \in g.cview <=> t.cv
  PROVE  Below(g, x, s)
BY DEF Agree, Inside, TaintOf, Below

LEMMA WhileCharges ==
  ASSUME NEW f, Charging(f), NEW values, LoweredTo(f, values), NEW op, Proper(op, values),
         op.kind = "loop", InPlace(op), NEW i
  PROVE  Charging(LowerWhile(f, op, i))
<1> DEFINE ins == [k \in DOMAIN op.ins |-> f.slot[op.ins[k]]]
           n == Arity(op)
           mapped(j) == CASE op.move[j][1] = "carry" -> TaintOf(f, ins[op.move[j][2]])
                          [] op.move[j][1] = "cap"   -> TaintOf(f, ins[n + 1])
                          [] OTHER -> NoTaint
           taint(j) == IF op.static
                       THEN IF op.trip = 0 THEN TaintOf(f, ins[j]) ELSE mapped(j)
                       ELSE Join(mapped(j), TaintOf(f, ins[j]))
           t1 == taint(1)
           t2 == taint(2)
           a == Bind(f, <<i, 1>>)
           b == Bind(a, <<i, 2>>)
           s1 == f.n + 1
           s2 == f.n + 2
           c == ApplyTaint(b, s1, t1)
           h == ApplyTaint(c, s2, t2)
           e == [Entry("loop", ins, <<s1, s2>>) EXCEPT !.trip = op.trip, !.move = op.move]
           g == Emit(h, e)
<1>1. /\ f.n \in Nat /\ IsFrame(f) /\ Names(f.slot, values, f.n) /\ Complete(f.entries, f.n)
      /\ Within(f)
  BY FrameFacts DEF Charging
<1>2. LowerWhile(f, op, i) = g
  BY DEF LowerWhile
<1>3. ins \in Seq(1 .. f.n) /\ Len(ins) = 3
  <2>1. op.ins \in Seq(values) /\ Len(op.ins) = 3
    BY DEF Proper
  <2> QED  BY <1>1, <2>1, SlotsRead
<1>4. op.move \in Moves /\ DOMAIN op.move = 1 .. 2 /\ n = 2
  <2>1. op.move \in Moves
    BY DEF Proper
  <2> DEFINE m == op.move
  <2> HIDE DEF m
  <2>2. m \in Moves => DOMAIN m = 1 .. 2 /\ Len(m) = 2
    BY LoopsAssumption
  <2> QED  BY <2>1, <2>2 DEF m, Arity
<1>5. \A j \in 1 .. 2 : op.move[j][1] = "carry" => op.move[j][2] = j
  BY <1>4 DEF InPlace
<1>6. e.op = "loop" /\ e.ins = ins /\ e.outs[1] = s1 /\ e.outs[2] = s2 /\ e.trip = op.trip /\ e.move = op.move
  <2> DEFINE w == Entry("loop", ins, <<s1, s2>>)
  <2>1. w = [op |-> "loop", ins |-> ins, outs |-> <<s1, s2>>, payload |-> NoPayload,
             trip |-> 0, move |-> <<>>, bytes |-> Bytes("loop")]
    BY DEF Entry
  <2>2. e = [w EXCEPT !.trip = op.trip, !.move = op.move]
    OBVIOUS
  <2> HIDE DEF w, e
  <2>3. e = [op |-> "loop", ins |-> ins, outs |-> <<s1, s2>>, payload |-> NoPayload,
             trip |-> op.trip, move |-> op.move, bytes |-> Bytes("loop")]
    BY <2>1, <2>2
  <2>4. <<s1, s2>>[1] = s1 /\ <<s1, s2>>[2] = s2
    OBVIOUS
  <2> HIDE DEF ins, s1, s2
  <2> QED  BY <2>3, <2>4
<1> HIDE DEF ins, n
<1>7. ASSUME NEW j \in 1 .. 2
      PROVE  /\ taint(j).cv \in BOOLEAN
             /\ op.trip = 0 => Inside(TaintOf(f, ins[j]), taint(j))
             /\ op.trip # 0 /\ op.move[j][1] = "carry" => Inside(TaintOf(f, ins[j]), taint(j))
             /\ op.trip # 0 /\ op.move[j][1] = "cap" => Inside(TaintOf(f, ins[3]), taint(j))
  <2> DEFINE own == TaintOf(f, ins[j])
             map == mapped(j)
             all == Join(map, own)
  <2>1. own.cv \in BOOLEAN /\ TaintOf(f, ins[3]).cv \in BOOLEAN /\ NoTaint.cv \in BOOLEAN
    BY DEF TaintOf, NoTaint
  <2>2. op.move[j][1] = "carry" => map = own
    BY <1>5
  <2>3. op.move[j][1] = "cap" => map = TaintOf(f, ins[3])
    BY <1>4
  <2>4. op.move[j][1] \notin {"carry", "cap"} => map = NoTaint
    OBVIOUS
  <2>5. taint(j) = IF op.static THEN IF op.trip = 0 THEN own ELSE map ELSE all
    OBVIOUS
  <2> HIDE DEF own, mapped, map, taint
  <2>6. map.cv \in BOOLEAN
    BY <2>1, <2>2, <2>3, <2>4
  <2>7. all.cv \in BOOLEAN /\ Inside(map, all) /\ Inside(own, all)
    BY <2>1, <2>6, JoinHolds
  <2>8. \A u : Inside(u, u)
    BY DEF Inside
  <2> HIDE DEF all
  <2>9. /\ taint(j).cv \in BOOLEAN
        /\ op.trip = 0 => Inside(own, taint(j))
        /\ op.trip # 0 => Inside(map, taint(j))
    BY <2>1, <2>5, <2>6, <2>7, <2>8
  <2> QED  BY <2>2, <2>3, <2>9 DEF own
<1>8. 1 \in 1 .. 2 /\ 2 \in 1 .. 2 /\ \A j \in 1 .. 2 : j = 1 \/ j = 2
  OBVIOUS
<1>9. t1.cv \in BOOLEAN /\ t2.cv \in BOOLEAN
  BY <1>7, <1>8
<1> HIDE DEF t1, t2
<1>10. IsFrame(a) /\ a.n = s1 /\ a.entries = f.entries /\ a.alias = f.alias /\ a.cview = f.cview
  BY <1>1, Bound
<1> HIDE DEF a
<1>11. IsFrame(b) /\ b.n = s2 /\ b.entries = f.entries /\ b.alias = f.alias /\ b.cview = f.cview
  <2>1. IsFrame(b) /\ b.n = a.n + 1 /\ b.entries = a.entries /\ b.alias = a.alias /\ b.cview = a.cview
    BY <1>10, Bound
  <2>2. a.n + 1 = s2
    BY <1>1, <1>10
  <2> QED  BY <1>10, <2>1, <2>2
<1> HIDE DEF b
<1>12. IsFrame(c) /\ c.n = s2 /\ c.entries = f.entries /\ TaintAt(b, s1, t1, c)
  BY <1>11, Tainted
<1> HIDE DEF c
<1>13. IsFrame(h) /\ h.n = s2 /\ h.entries = f.entries /\ TaintAt(c, s2, t2, h)
  BY <1>12, Tainted
<1> HIDE DEF h
<1>14. g.n = s2 /\ g.entries = Append(f.entries, e) /\ g.alias = h.alias /\ g.cview = h.cview
  BY <1>13, Emitted
<1>15. TaintAt(f, s1, t1, c) /\ TaintAt(c, s2, t2, g)
  BY <1>11, <1>12, <1>13, <1>14 DEF TaintAt
<1> HIDE DEF g
<1>16. /\ s1 \notin 1 .. f.n /\ s2 \notin 1 .. f.n /\ s1 # s2 /\ s1 \in 1 .. s2 /\ s2 \in 1 .. s2
       /\ \A x \in 1 .. f.n : x # s1 /\ x # s2 /\ x \in 1 .. s2
  BY <1>1
<1> HIDE DEF s1, s2, e
<1>17. /\ AliasOf(c, s1) = t1.args /\ (s1 \in c.cview <=> t1.cv)
       /\ \A x : x # s1 => Agree(f, x, c, x)
       /\ DOMAIN c.alias \subseteq DOMAIN f.alias \cup {s1} /\ c.cview \subseteq f.cview \cup {s1}
  <2>1. s1 \notin DOMAIN f.alias /\ s1 \notin f.cview
    BY <1>1, <1>16 DEF Within
  <2> QED  BY <1>9, <1>15, <2>1, TaintOne
<1>18. /\ AliasOf(g, s2) = t2.args /\ (s2 \in g.cview <=> t2.cv)
       /\ \A x : x # s2 => Agree(c, x, g, x)
       /\ DOMAIN g.alias \subseteq DOMAIN c.alias \cup {s2} /\ g.cview \subseteq c.cview \cup {s2}
  <2>1. s2 \notin DOMAIN c.alias /\ s2 \notin c.cview
    BY <1>1, <1>16, <1>17 DEF Within
  <2> QED  BY <1>9, <1>15, <2>1, TaintOne
<1>19. Within(g)
  BY <1>1, <1>14, <1>16, <1>17, <1>18 DEF Within
<1>20. \A x \in 1 .. f.n : Agree(f, x, g, x)
  BY <1>16, <1>17, <1>18 DEF Agree
<1>21. AliasOf(g, s1) = t1.args /\ (s1 \in g.cview <=> t1.cv)
  BY <1>16, <1>17, <1>18 DEF Agree
<1>22. \A j \in 1 .. 2 : AliasOf(g, e.outs[j]) = taint(j).args /\ (e.outs[j] \in g.cview <=> taint(j).cv)
  <2> HIDE DEF taint
  <2> QED  BY <1>6, <1>8, <1>18, <1>21 DEF t1, t2
<1>23. \A k \in 1 .. 3 : Agree(f, ins[k], g, ins[k])
  BY <1>3, <1>20, ElementOf
<1>24. ASSUME NEW j \in 1 .. 2
       PROVE  CarryCharged(e, g, j)
  <2> HIDE DEF taint
  <2>1. Agree(f, ins[j], g, ins[j]) /\ Agree(f, ins[3], g, ins[3])
    <3>1. j \in 1 .. 3 /\ 3 \in 1 .. 3
      OBVIOUS
    <3> QED  BY <1>23, <3>1
  <2>2. \A x : Agree(f, x, g, x) /\ Inside(TaintOf(f, x), taint(j)) => Below(g, x, e.outs[j])
    BY <1>22, InsideBelow
  <2>3. CASE op.trip = 0
    BY <1>6, <1>7, <2>1, <2>2, <2>3 DEF CarryCharged
  <2>4. CASE op.trip # 0
    <3>1. op.move[j][1] = "carry" => op.move[j][2] = j /\ Below(g, ins[j], e.outs[j])
      BY <1>5, <1>7, <2>1, <2>2, <2>4
    <3>2. op.move[j][1] = "cap" => Below(g, ins[3], e.outs[j])
      BY <1>7, <2>1, <2>2, <2>4
    <3> QED  BY <1>6, <2>4, <3>1, <3>2 DEF CarryCharged
  <2> QED  BY <2>3, <2>4
<1>25. Charged(e, g)
  BY <1>6, <1>24 DEF Charged, Certain
<1>26. Charging(g)
  BY <1>1, <1>14, <1>19, <1>20, <1>25, ChargedNext
<1> QED  BY <1>2, <1>26

\* Lowering one op, whose body hands a carry on in its own place.
LEMMA OpCharges ==
  ASSUME NEW f, Charging(f), NEW values, LoweredTo(f, values), NEW op, Proper(op, values),
         op.kind = "loop" => InPlace(op), NEW i
  PROVE  Charging(Lowered(f, op, i))
<1> DEFINE v == <<i, 1>>
<1>1. op.kind \in OpKinds \cup {"barrier"}
  BY DEF Proper
<1>2. CASE op.kind = "const"
  <2>1. Lowered(f, op, i) = LowerPayload(f, v, op.const)
    BY <1>2 DEF Lowered
  <2> QED  BY <2>1, PayloadCharges
<1>3. CASE op.kind = "barrier"
  <2>1. Lowered(f, op, i) = Alias(f, v, f.slot[op.ins[1]])
    BY <1>3 DEF Lowered
  <2> QED  BY <2>1, BarrierCharges
<1>4. CASE op.kind = "bcast" /\ CsePassOn /\ SplatOf(op) # NoPayload
  <2>1. Lowered(f, op, i) = LowerPayload(f, v, <<"bcast", SplatOf(op)>>)
    BY <1>4 DEF Lowered
  <2> QED  BY <2>1, PayloadCharges
<1>5. CASE op.kind = "branch"
  <2>1. Lowered(f, op, i) = LowerBranch(f, op, v)
    BY <1>5 DEF Lowered
  <2> QED  BY <1>5, <2>1, BranchCharges
<1>6. CASE op.kind = "loop"
  <2>1. Lowered(f, op, i) = LowerWhile(f, op, i)
    BY <1>6 DEF Lowered
  <2> QED  BY <1>6, <2>1, WhileCharges
<1>7. CASE /\ op.kind \in {"iota", "add", "bcast", "view", "ident", "print"}
           /\ ~ (op.kind = "bcast" /\ CsePassOn /\ SplatOf(op) # NoPayload)
  <2>1. Lowered(f, op, i) = LowerSimple(f, op, v)
    BY <1>7 DEF Lowered
  <2> QED  BY <1>7, <2>1, SimpleCharges
<1> QED  BY <1>1, <1>2, <1>3, <1>4, <1>5, <1>6, <1>7 DEF OpKinds

(* Merging: a slot goes over to one charged with the same, the result of   *)
(* an entry with the same op and operands.                                 *)
LEMMA RewiredIs ==
  ASSUME NEW e, NEW n, Shaped(e, n), NEW remap, NEW r, r = Rewired(e, remap)
  PROVE  /\ r.op = e.op /\ r.outs = e.outs /\ r.trip = e.trip /\ r.move = e.move
         /\ r.payload = e.payload /\ Len(r.ins) = Len(e.ins)
         /\ \A k \in 1 .. Len(e.ins) : r.ins[k] = remap[e.ins[k]]
<1> DEFINE ins == [i \in DOMAIN e.ins |-> remap[e.ins[i]]]
<1>1. DOMAIN e.ins = 1 .. Len(e.ins)
  <2>1. e.ins \in Seq(1 .. n)
    BY DEF Shaped
  <2> QED  BY <2>1
<1>2. \A k \in 1 .. Len(e.ins) : ins[k] = remap[e.ins[k]]
  BY <1>1
<1>3. r = [e EXCEPT !.ins = ins]
  BY DEF Rewired
<1> HIDE DEF ins
<1>4. r = [op |-> e.op, ins |-> ins, outs |-> e.outs, payload |-> e.payload,
           trip |-> e.trip, move |-> e.move, bytes |-> e.bytes]
  BY <1>3 DEF Shaped
<1>5. /\ r.op = e.op /\ r.outs = e.outs /\ r.trip = e.trip /\ r.move = e.move /\ r.ins = ins
      /\ r.payload = e.payload
  BY <1>4
<1>6. Len(ins) = Len(e.ins)
  <2>1. ins \in [1 .. Len(e.ins) -> {remap[e.ins[k]] : k \in 1 .. Len(e.ins)}]
    BY <1>1 DEF ins
  <2>2. Len(e.ins) \in Nat
    BY DEF Shaped
  <2> QED  BY <2>1, <2>2, FromInterval
<1> QED  BY <1>2, <1>5, <1>6

LEMMA RewiredCharged ==
  ASSUME NEW e, NEW n, Shaped(e, n), NEW f, Charged(e, f), NEW remap,
         \A s \in 1 .. n : Agree(f, s, f, remap[s])
  PROVE  Charged(Rewired(e, remap), f)
<1> DEFINE r == Rewired(e, remap)
<1>1. /\ r.op = e.op /\ r.outs = e.outs /\ r.trip = e.trip /\ r.move = e.move
      /\ \A k \in 1 .. Len(e.ins) : r.ins[k] = remap[e.ins[k]]
  BY RewiredIs
<1> HIDE DEF r
<1>2. \A k \in 1 .. Len(e.ins) : Agree(f, e.ins[k], f, r.ins[k])
  BY <1>1, SlotsOf
<1>3. \A k \in 1 .. Len(e.outs) : Agree(f, e.outs[k], f, e.outs[k])
  BY DEF Agree
<1>4. Charged(r, f)
  BY <1>1, <1>2, <1>3, ChargeMoves
<1> QED  BY <1>4 DEF r

(* A slot and its stand-in are charged alike, and what was seen to be made *)
(* of a key is charged with what the key owes.                             *)
Alike(f, acc, n) ==
  /\ \A s \in 1 .. n : Agree(f, s, f, acc.remap[s])
  /\ \A k \in DOMAIN acc.seen : Due(f, k[1], k[2], acc.seen[k])

LEMMA MergeOneAlike ==
  ASSUME NEW n \in Nat, NEW acc \in Merging(n), NEW f, Alike(f, acc, n),
         NEW e, Shaped(e, n), Charged(e, f)
  PROVE  Alike(f, MergeOne(acc, e), n)
<1> DEFINE r == Rewired(e, acc.remap)
           key == Key(r)
           o == r.outs[1]
           next == MergeOne(acc, e)
<1>1. acc.remap \in [1 .. n -> 1 .. n] /\ acc = [remap |-> acc.remap, seen |-> acc.seen]
  BY DEF Merging
<1>2. \A s \in 1 .. n : Agree(f, s, f, acc.remap[s])
  BY DEF Alike
<1>0. \A k \in DOMAIN acc.seen : Due(f, k[1], k[2], acc.seen[k])
  BY DEF Alike
<1>3. Charged(r, f)
  BY <1>2, RewiredCharged
<1>4. Shaped(r, n)
  BY <1>1, RewiredShaped
<1>5. key[1] = r.op /\ key[2] = r.ins
  BY DEF Key
<1>6. Eligible(r) => Due(f, key[1], key[2], o)
  <2> HIDE DEF r, key
  <2>1. Eligible(r) => r.op \in Certain
    <3>1. r.op \in OpKinds
      BY <1>4, ShapedFacts
    <3> QED  BY <3>1 DEF Eligible, PurePassOp, OpKinds, Certain
  <2> QED  BY <1>3, <1>5, <2>1 DEF Charged
<1>7. o \in 1 .. n
  BY <1>4, ShapedFacts
<1>8. next = IF Twin(acc, r) THEN [acc EXCEPT !.remap[o] = acc.seen[key]]
             ELSE IF Eligible(r) THEN [acc EXCEPT !.seen = With(acc.seen, key, o)] ELSE acc
  BY DEF MergeOne
<1>9. Twin(acc, r) <=> Eligible(r) /\ key \in DOMAIN acc.seen
  BY DEF Twin
<1> HIDE DEF r, key, o, next
<1>10. CASE Twin(acc, r)
  <2>1. next = [acc EXCEPT !.remap = [acc.remap EXCEPT ![o] = acc.seen[key]]]
    BY <1>8, <1>10
  <2>2. next.seen = acc.seen /\ next.remap = [acc.remap EXCEPT ![o] = acc.seen[key]]
    BY <1>1, <2>1
  <2>3. next.remap[o] = acc.seen[key] /\ \A s \in 1 .. n : s # o => next.remap[s] = acc.remap[s]
    BY <1>1, <1>7, <2>2
  <2>4. Due(f, key[1], key[2], o) /\ Due(f, key[1], key[2], acc.seen[key])
    BY <1>0, <1>6, <1>9, <1>10
  <2>5. Agree(f, o, f, acc.seen[key])
    BY <2>4 DEF Due, Agree
  <2>6. \A s \in 1 .. n : Agree(f, s, f, next.remap[s])
    BY <1>2, <2>3, <2>5
  <2>7. \A k \in DOMAIN next.seen : Due(f, k[1], k[2], next.seen[k])
    BY <1>0, <2>2
  <2> QED  BY <2>6, <2>7 DEF Alike, next
<1>11. CASE ~ Twin(acc, r) /\ Eligible(r)
  <2>1. next = [acc EXCEPT !.seen = With(acc.seen, key, o)]
    BY <1>8, <1>11
  <2>2. next.remap = acc.remap /\ next.seen = With(acc.seen, key, o)
    BY <1>1, <2>1
  <2>3. \A k \in DOMAIN next.seen : Due(f, k[1], k[2], next.seen[k])
    <3> SUFFICES ASSUME NEW k \in DOMAIN next.seen
                 PROVE  Due(f, k[1], k[2], next.seen[k])
      OBVIOUS
    <3>1. CASE k = key
      BY <1>6, <1>11, <2>2, <3>1 DEF With
    <3>2. CASE k # key
      <4>1. k \in DOMAIN acc.seen /\ next.seen[k] = acc.seen[k]
        BY <2>2, <3>2 DEF With
      <4>2. Due(f, k[1], k[2], acc.seen[k])
        BY <1>0, <4>1
      <4> QED  BY <4>1, <4>2
    <3> QED  BY <3>1, <3>2
  <2>4. \A s \in 1 .. n : Agree(f, s, f, next.remap[s])
    BY <1>2, <2>2
  <2> QED  BY <2>3, <2>4 DEF Alike, next
<1>12. CASE ~ Twin(acc, r) /\ ~ Eligible(r)
  BY <1>8, <1>12 DEF next
<1> QED  BY <1>10, <1>11, <1>12

\* What is gathered of a tape is of the tape.
LEMMA GatheredFrom ==
  ASSUME NEW es, es \in Seq(ToSet(es)), NEW keep, NEW i \in 1 .. Len(Gathered(es, keep))
  PROVE  \E d \in 1 .. Len(es) : Gathered(es, keep)[i] = es[d]
<1> DEFINE r == Gathered(es, keep)
<1>1. Picked(r, es, keep, Len(es))
  BY Gathering
<1> HIDE DEF r
<1>2. PICK at \in [1 .. Len(r) -> 1 .. Len(es)] : PickedAt(r, es, keep, Len(es), at)
  BY <1>1 DEF Picked
<1>3. i \in 1 .. Len(r)
  BY DEF r
<1>4. at[i] \in 1 .. Len(es) /\ r[i] = es[at[i]]
  BY <1>2, <1>3 DEF PickedAt
<1> QED  BY <1>4 DEF r

LEMMA MergedCharged ==
  ASSUME NEW es, NEW n, Sound(es, n), NEW f, \A i \in 1 .. Len(es) : Charged(es[i], f)
  PROVE  \A i \in 1 .. Len(Merged(es, n).kept) : Charged(Merged(es, n).kept[i], f)
<1> DEFINE N == Len(es)
           after == MergeAlong(es, n)
           rewired == [i \in DOMAIN es |-> Rewired(es[i], after[i - 1].remap)]
           keep == {i \in DOMAIN es : ~ Twin(after[i - 1], rewired[i])}
<1>1. N \in Nat /\ n \in Nat /\ DOMAIN es = 1 .. N /\ es \in Seq(ToSet(es))
      /\ \A i \in 1 .. N : Shaped(es[i], n)
  BY OfItsOwn DEF Sound
<1>2. /\ after \in [0 .. N -> Merging(n)]
      /\ after[0] = [remap |-> [s \in 1 .. n |-> s], seen |-> <<>>]
      /\ \A i \in 1 .. N : after[i] = MergeOne(after[i - 1], es[i])
  BY MergeAlongIs DEF Merges
<1>3. Merged(es, n).kept = Gathered(rewired, keep)
  BY DEF Merged
<1> HIDE DEF after
<1>4. Len(rewired) = N /\ rewired \in Seq(ToSet(rewired))
  <2>1. rewired \in [1 .. N -> ToSet(rewired)]
    BY <1>1 DEF ToSet
  <2>2. rewired \in Seq(ToSet(rewired)) /\ DOMAIN rewired = 1 .. N
    BY <1>1, <2>1
  <2> HIDE DEF rewired
  <2> QED  BY <1>1, <2>2
<1>5. \A i \in 1 .. N : rewired[i] = Rewired(es[i], after[i - 1].remap)
  BY <1>1
<1> HIDE DEF rewired, keep
<1> DEFINE T == {i \in 0 .. N : Alike(f, after[i], n)}
<1>6. \A i \in 0 .. N : i \in T
  <2>1. 0 \in T
    <3>1. after[0].remap = [s \in 1 .. n |-> s] /\ DOMAIN after[0].seen = {}
      BY <1>2
    <3>2. Alike(f, after[0], n)
      BY <3>1 DEF Alike, Agree
    <3> QED  BY <1>1, <3>2
  <2>2. ASSUME NEW i \in 0 .. N - 1, i \in T
        PROVE  i + 1 \in T
    <3>1. i + 1 \in 1 .. N /\ i + 1 \in 0 .. N /\ (i + 1) - 1 = i /\ i \in 0 .. N
      BY <1>1
    <3>2. after[i] \in Merging(n) /\ after[i + 1] = MergeOne(after[i], es[i + 1])
      BY <1>2, <3>1
    <3>3. Shaped(es[i + 1], n) /\ Charged(es[i + 1], f) /\ Alike(f, after[i], n)
      BY <1>1, <2>2, <3>1
    <3>4. Alike(f, after[i + 1], n)
      BY <1>1, <3>2, <3>3, MergeOneAlike
    <3> QED  BY <3>1, <3>4
  <2> HIDE DEF T, N
  <2> QED  BY <1>1, <2>1, <2>2, InductTo, Zenon
<1>7. ASSUME NEW d \in 1 .. N
      PROVE  Charged(rewired[d], f)
  <2>1. d - 1 \in 0 .. N
    BY <1>1
  <2>2. \A s \in 1 .. n : Agree(f, s, f, after[d - 1].remap[s])
    BY <1>6, <2>1 DEF T, Alike
  <2>3. Shaped(es[d], n) /\ Charged(es[d], f)
    BY <1>1
  <2> QED  BY <1>5, <2>2, <2>3, RewiredCharged
<1>8. ASSUME NEW i \in 1 .. Len(Gathered(rewired, keep))
      PROVE  Charged(Gathered(rewired, keep)[i], f)
  <2>1. PICK d \in 1 .. N : Gathered(rewired, keep)[i] = rewired[d]
    BY <1>4, GatheredFrom
  <2> QED  BY <1>7, <2>1
<1> QED  BY <1>3, <1>8

---------------------------------------------------------------------------
(* The walk hands back no more than the lowering charged.                  *)
LEMMA Tags ==
  /\ \A s, t, x : <<"new", s, t>> # <<"arg", x>> /\ <<"new", s, t>> # <<"copy", x>>
                  /\ <<"new", s, t>> # <<"const">>
  /\ \A s, x : <<"const", s>> # <<"arg", x>> /\ <<"const", s>> # <<"copy", x>>
  /\ \A s, x : <<"arg", s>> # <<"copy", x>> /\ <<"arg", s>> # <<"const">>
  /\ \A s : <<"copy", s>> # <<"const">>
  /\ \A s, x : <<"arg", s>> = <<"arg", x>> => s = x
  /\ \A s, x : <<"copy", s>> = <<"copy", x>> => s = x
  /\ \A x : <<>> # <<"arg", x>> /\ <<>> # <<"copy", x>>
  /\ <<>> # <<"const">>
<1>1. ASSUME NEW s, NEW t, NEW x
      PROVE  <<"new", s, t>> # <<"arg", x>> /\ <<"new", s, t>> # <<"copy", x>> /\ <<"new", s, t>> # <<"const">>
  <2>1. Len(<<"new", s, t>>) = 3 /\ Len(<<"arg", x>>) = 2 /\ Len(<<"copy", x>>) = 2 /\ Len(<<"const">>) = 1
    OBVIOUS
  <2> QED  BY <2>1
<1>2. ASSUME NEW s, NEW x
      PROVE  /\ <<"const", s>> # <<"arg", x>> /\ <<"const", s>> # <<"copy", x>>
             /\ <<"arg", s>> # <<"copy", x>>
             /\ <<"arg", s>> = <<"arg", x>> => s = x
             /\ <<"copy", s>> = <<"copy", x>> => s = x
  <2>1. /\ <<"const", s>>[1] = "const" /\ <<"arg", x>>[1] = "arg" /\ <<"copy", x>>[1] = "copy"
        /\ <<"arg", s>>[1] = "arg"
    OBVIOUS
  <2>2. /\ <<"arg", s>>[2] = s /\ <<"arg", x>>[2] = x /\ <<"copy", s>>[2] = s /\ <<"copy", x>>[2] = x
    OBVIOUS
  <2>3. "const" # "arg" /\ "const" # "copy" /\ "arg" # "copy"
    OBVIOUS
  <2> QED  BY <2>1, <2>2, <2>3
<1>3. ASSUME NEW s
      PROVE  <<"arg", s>> # <<"const">> /\ <<"copy", s>> # <<"const">>
             /\ <<>> # <<"arg", s>> /\ <<>> # <<"copy", s>> /\ <<>> # <<"const">>
  <2>1. Len(<<"arg", s>>) = 2 /\ Len(<<"copy", s>>) = 2 /\ Len(<<"const">>) = 1 /\ Len(<<>>) = 0
    OBVIOUS
  <2> QED  BY <2>1
<1> QED  BY <1>1, <1>2, <1>3

LEMMA BelowFits ==
  ASSUME NEW f, NEW r, NEW s, Below(f, r, s), NEW a, NEW js, Fits(a, f, r, js)
  PROVE  Fits(a, f, s, js)
BY DEF Below, Fits

\* An array made anew is no argument, no copy and no constant.
LEMMA FreshFits ==
  ASSUME NEW a, NEW o, NEW i, NEW t, IsArray(a), a.obj = <<"new", o, i>>,
         NEW f, NEW s, NEW js, a.buf = <<"const">> => s \in f.cview
  PROVE  Fits(a, f, s, js)
BY Tags DEF Fits

LEMMA NewFits ==
  ASSUME NEW term, NEW o, NEW t, NEW f, NEW s, NEW js
  PROVE  Fits(FreshAt(term, o, t), f, s, js)
<1> DEFINE a == FreshAt(term, o, t)
<1>1. a.obj = <<"new", o, t>> /\ a.buf = <<"new", o, t>> /\ IsArray(a)
  BY DEF FreshAt, IsArray
<1> HIDE DEF a
<1>2. Fits(a, f, s, js)
  BY <1>1, Tags DEF Fits
<1> QED  BY <1>2 DEF a

\* A loop hands back what its carries were charged with.
LEMMA LoopFits ==
  ASSUME NEW e, NEW n \in Nat, Shaped(e, n), e.op = "loop", NEW f, Charged(e, f),
         NEW V, NEW vals \in [1 .. 3 -> V], NEW js,
         \A k \in 1 .. 3 : Fits(vals[k], f, e.ins[k], js), NEW j \in 1 .. 2
  PROVE  Fits(SubSeq(Iterate(e, vals), 1, Len(e.outs))[j], f, e.outs[j], js)
<1>1. e.trip \in Nat /\ e.move \in Moves /\ Len(e.outs) = 2
  BY DEF Shaped, Operands, Results
<1>2. PICK carry : Trips(e, vals, carry)
  BY <1>1, IterateIs DEF Looping
<1>3. /\ carry[0] = vals
      /\ \A t \in 1 .. e.trip :
           carry[t] = [k \in 1 .. 3 |-> IF k <= 2 THEN Carried(e, carry[t - 1], k, t) ELSE vals[k]]
      /\ SubSeq(Iterate(e, vals), 1, Len(e.outs))[j] = carry[e.trip][j]
  BY <1>2 DEF Trips
<1> DEFINE out == carry[e.trip][j]
<1>4. CarryCharged(e, f, j)
  BY DEF Charged
<1>5. Fits(vals[j], f, e.ins[j], js) /\ Fits(vals[3], f, e.ins[3], js)
  <2>1. j \in 1 .. 3 /\ 3 \in 1 .. 3
    OBVIOUS
  <2> QED  BY <2>1
<1>6. CASE e.trip = 0
  <2>1. out = vals[j] /\ Below(f, e.ins[j], e.outs[j])
    BY <1>3, <1>4, <1>6 DEF CarryCharged
  <2> QED  BY <1>3, <1>5, <2>1, BelowFits
<1>7. CASE e.trip # 0
  <2>0. ASSUME NEW t \in 0 .. e.trip - 1
        PROVE  /\ t + 1 \in 1 .. e.trip /\ (t + 1) - 1 = t
               /\ carry[t + 1][j] = Carried(e, carry[t], j, t + 1) /\ carry[t + 1][3] = vals[3]
    <3>1. t + 1 \in 1 .. e.trip /\ (t + 1) - 1 = t
      BY <1>1
    <3>2. carry[t + 1] = [k \in 1 .. 3 |-> IF k <= 2 THEN Carried(e, carry[t], k, t + 1) ELSE vals[k]]
      BY <1>3, <3>1
    <3>3. j \in 1 .. 3 /\ j <= 2 /\ 3 \in 1 .. 3 /\ ~ (3 <= 2)
      OBVIOUS
    <3> QED  BY <3>1, <3>2, <3>3
  <2> DEFINE last == e.trip - 1
  <2>1. last \in 0 .. e.trip - 1 /\ last + 1 = e.trip
    BY <1>1, <1>7
  <2>2. out = Carried(e, carry[last], j, e.trip)
    BY <2>0, <2>1
  <2>3. e.move[j][1] = "cap" \/ e.move[j][1] \in {"carry", "step"}
    <3> DEFINE m == e.move
    <3>1. m \in Moves
      BY <1>1
    <3> HIDE DEF m
    <3>2. m[j][1] = "cap" \/ m[j] \in {"carry", "step"} \X (1 .. 2)
      BY <3>1, LoopsAssumption
    <3>3. m[j][1] = "cap" \/ m[j][1] \in {"carry", "step"}
      BY <3>2
    <3> QED  BY <3>3 DEF m
  <2>4. CASE e.move[j][1] = "carry"
    <3>1. e.move[j][2] = j /\ Below(f, e.ins[j], e.outs[j])
      BY <1>4, <1>7, <2>4 DEF CarryCharged
    <3> DEFINE T == {t \in 0 .. e.trip : carry[t][j] = vals[j]}
    <3>2. 0 \in T
      BY <1>1, <1>3
    <3>3. ASSUME NEW t \in 0 .. e.trip - 1, t \in T
          PROVE  t + 1 \in T
      <4>1. carry[t + 1][j] = carry[t][j]
        BY <2>0, <2>4, <3>1 DEF Carried
      <4>2. t + 1 \in 0 .. e.trip
        BY <1>1
      <4> QED  BY <3>3, <4>1, <4>2
    <3> HIDE DEF T
    <3>4. e.trip \in T
      <4>1. \A t \in 0 .. e.trip : t \in T
        BY <1>1, <3>2, <3>3, InductTo, Zenon
      <4> QED  BY <1>1, <4>1
    <3>5. out = vals[j]
      BY <3>4 DEF T
    <3> QED  BY <1>3, <1>5, <3>1, <3>5, BelowFits
  <2>5. CASE e.move[j][1] = "cap"
    <3>1. Below(f, e.ins[3], e.outs[j])
      BY <1>4, <1>7, <2>5 DEF CarryCharged
    <3>2. out = carry[last][3]
      BY <1>1, <2>2, <2>5 DEF Carried
    <3>3. carry[last][3] = vals[3]
      <4>1. CASE last = 0
        BY <1>3, <4>1
      <4>2. CASE last # 0
        <5>1. last - 1 \in 0 .. e.trip - 1 /\ (last - 1) + 1 = last
          BY <2>1, <4>2
        <5> QED  BY <2>0, <5>1
      <4> QED  BY <4>1, <4>2
    <3> QED  BY <1>3, <1>5, <3>1, <3>2, <3>3, BelowFits
  <2>6. CASE e.move[j][1] = "step"
    <3>1. out = FreshAt(<<"step", carry[last][e.move[j][2]].term>>, e.outs[j], e.trip)
      BY <2>2, <2>6 DEF Carried
    <3> DEFINE term == <<"step", carry[last][e.move[j][2]].term>>
               at == e.outs[j]
    <3>2. out = FreshAt(term, at, e.trip)
      BY <3>1
    <3> HIDE DEF term
    <3>3. Fits(FreshAt(term, at, e.trip), f, at, js)
      BY NewFits
    <3> QED  BY <1>3, <3>2, <3>3
  <2> QED  BY <2>3, <2>4, <2>5, <2>6
<1> QED  BY <1>6, <1>7

LEMMA ResultsFit ==
  ASSUME NEW e, NEW n \in Nat, Shaped(e, n), NEW f, Charged(e, f),
         NEW V, NEW vals \in [1 .. Len(e.ins) -> V], NEW js,
         \A k \in 1 .. Len(e.ins) : Fits(vals[k], f, e.ins[k], js),
         NEW calls, NEW j \in 1 .. Len(e.outs)
  PROVE  Fits(Compute(e, vals, calls)[j], f, e.outs[j], js)
<1> DEFINE s == e.outs[1]
           new(term) == <<Fresh(term, s)>>
           got == Compute(e, vals, calls)
<1>1. Operands(e) /\ Results(e) /\ e.op \in OpKinds /\ Len(e.outs) \in Nat
  BY ShapedFacts, OfItsOwn DEF Shaped
<1>2. e.op # "loop" => j = 1
  <2>1. e.op # "loop" => Len(e.outs) = 1
    BY <1>1 DEF Results
  <2>2. Len(e.outs) = 1 => j = 1
    OBVIOUS
  <2> QED  BY <2>1, <2>2
<1>3. e.op \in Certain => Due(f, e.op, e.ins, s)
  BY DEF Charged
<1>4. CASE e.op = "const"
  <2> DEFINE a == [term |-> e.payload, obj |-> <<"const", s>>, buf |-> <<"const">>]
  <2>1. got[1] = a
    BY <1>4 DEF Compute
  <2>2. s \in f.cview
    BY <1>3, <1>4 DEF Due, Certain
  <2>3. a.obj = <<"const", s>> /\ IsArray(a)
    BY DEF IsArray
  <2> HIDE DEF a, got, s
  <2>4. Fits(a, f, s, js)
    BY <2>2, <2>3, Tags DEF Fits
  <2> QED  BY <1>2, <1>4, <2>1, <2>4 DEF s, got
<1>5. CASE e.op \in {"iota", "add", "print"}
  <2>1. PICK term : got = new(term)
    <3>1. CASE e.op = "iota"
      <4>1. got = new(<<"iota">>)
        BY <3>1 DEF Compute
      <4> QED  BY <4>1
    <3>2. CASE e.op = "add"
      <4>1. got = new(<<"add", vals[1].term, vals[2].term>>)
        BY <3>2 DEF Compute
      <4> QED  BY <4>1
    <3>3. CASE e.op = "print"
      <4>1. got = new(<<"call", calls + 1, vals[1].term>>)
        BY <3>3 DEF Compute
      <4> QED  BY <4>1
    <3> QED  BY <1>5, <3>1, <3>2, <3>3
  <2>2. got[1] = FreshAt(term, s, 0)
    BY <2>1 DEF Fresh
  <2>3. Fits(FreshAt(term, s, 0), f, s, js)
    BY NewFits
  <2> HIDE DEF got, s
  <2> QED  BY <1>2, <1>5, <2>2, <2>3 DEF s, got
<1>6. CASE e.op \in {"bcast", "view"}
  <2>1. PICK term : got = <<[Fresh(term, s) EXCEPT !.buf = vals[1].buf]>>
    <3>1. CASE e.op = "bcast"
      <4>1. got = <<[Fresh(<<"bcast", vals[1].term>>, s) EXCEPT !.buf = vals[1].buf]>>
        BY <3>1 DEF Compute
      <4> QED  BY <4>1, Zenon
    <3>2. CASE e.op = "view"
      <4>1. got = <<[Fresh(<<"view", vals[1].term>>, s) EXCEPT !.buf = vals[1].buf]>>
        BY <3>2 DEF Compute
      <4> QED  BY <4>1, Zenon
    <3> QED  BY <1>6, <3>1, <3>2
  <2> DEFINE was == vals[1]
             a == [Fresh(term, s) EXCEPT !.buf = was.buf]
  <2>2. got[1] = a
    BY <2>1
  <2>3. a.obj = <<"new", s, 0>> /\ a.buf = was.buf /\ IsArray(a)
    <3> DEFINE o == <<"new", s, 0>>
               b == was.buf
    <3>1. Fresh(term, s) = [term |-> term, obj |-> o, buf |-> o]
      BY DEF Fresh, FreshAt
    <3> HIDE DEF o, b
    <3>2. a = [term |-> term, obj |-> o, buf |-> b]
      BY <3>1 DEF b
    <3>3. a.term = term /\ a.obj = o /\ a.buf = b
      BY <3>2
    <3> QED  BY <3>2, <3>3 DEF IsArray, o, b
  <2>4. Fits(was, f, e.ins[1], js)
    <3>1. Len(e.ins) = 1
      BY <1>1, <1>6 DEF Operands
    <3> QED  BY <3>1
  <2>5. e.ins[1] \in f.cview => s \in f.cview
    BY <1>3, <1>6 DEF Due, Certain
  <2> HIDE DEF a, got, s, was
  <2>6. a.buf = <<"const">> => s \in f.cview
    BY <2>3, <2>4, <2>5 DEF Fits
  <2>7. Fits(a, f, s, js)
    BY <2>3, <2>6, FreshFits
  <2> QED  BY <1>2, <1>6, <2>2, <2>7 DEF s, got
<1>7. CASE e.op = "ident"
  <2>1. got = <<vals[1]>>
    BY <1>7 DEF Compute
  <2>2. Len(e.ins) = 1
    BY <1>1, <1>7 DEF Operands
  <2>3. Fits(vals[1], f, e.ins[1], js)
    BY <2>2
  <2>4. Below(f, e.ins[1], s)
    BY <1>3, <1>7 DEF Due, Certain, Below
  <2>5. Fits(vals[1], f, s, js)
    BY <2>3, <2>4, BelowFits
  <2> QED  BY <1>2, <1>7, <2>1, <2>5
<1>8. CASE e.op = "branch"
  <2>1. got = <<vals[1 + e.trip]>>
    BY <1>8 DEF Compute
  <2>2. Len(e.ins) = 3 /\ e.trip \in 1 .. 2
    BY <1>1, <1>8 DEF Operands
  <2>3. Below(f, e.ins[2], s) /\ Below(f, e.ins[3], s)
    BY <1>8 DEF Charged
  <2>4. 1 + e.trip \in 1 .. Len(e.ins) /\ (1 + e.trip = 2 \/ 1 + e.trip = 3)
    BY <2>2
  <2>5. Fits(vals[1 + e.trip], f, e.ins[1 + e.trip], js) /\ Below(f, e.ins[1 + e.trip], s)
    BY <2>3, <2>4
  <2>6. Fits(vals[1 + e.trip], f, s, js)
    BY <2>5, BelowFits
  <2> QED  BY <1>2, <1>8, <2>1, <2>6
<1>9. CASE e.op = "loop"
  <2>1. got = SubSeq(Iterate(e, vals), 1, Len(e.outs))
    BY <1>9 DEF Compute
  <2>2. Len(e.ins) = 3 /\ Len(e.outs) = 2
    BY <1>1, <1>9 DEF Operands, Results
  <2> QED  BY <1>9, <2>1, <2>2, LoopFits
<1> QED  BY <1>1, <1>4, <1>5, <1>6, <1>7, <1>8, <1>9 DEF OpKinds

\* The walk of one entry: what was charged is held within its charge.
LEMMA WrittenFits ==
  ASSUME NEW f, f.n \in Nat, Sound(f.entries, f.n), NEW p \in 1 .. Len(f.entries),
         Charged(f.entries[p], f), NEW en, DOMAIN en = 1 .. f.n, NEW js, FitIn(en, f, js), NEW calls
  PROVE  FitIn(Written(f.entries[p], en, calls), f, js)
<1> DEFINE n == f.n
           e == f.entries[p]
           vals == [i \in DOMAIN e.ins |-> en[e.ins[i]]]
           new == Compute(e, vals, calls)
           after == Written(e, en, calls)
<1>1. Shaped(e, n)
  BY DEF Sound
<1>2. e.ins \in Seq(1 .. n) /\ e.outs \in Seq(1 .. n)
  BY <1>1, ShapedFacts
<1>3. DOMAIN e.ins = 1 .. Len(e.ins) /\ DOMAIN e.outs = 1 .. Len(e.outs)
      /\ \A k \in 1 .. Len(e.ins) : e.ins[k] \in 1 .. n
  BY <1>2, ElementOf
<1>4. \A s \in 1 .. n :
        after[s] = IF \E j \in DOMAIN e.outs : e.outs[j] = s
                   THEN new[CHOOSE j \in DOMAIN e.outs : e.outs[j] = s] ELSE en[s]
  BY DEF Written
<1>5. \A k \in 1 .. Len(e.ins) : Fits(vals[k], f, e.ins[k], js)
  BY <1>3 DEF FitIn
<1>6. vals \in [1 .. Len(e.ins) -> {en[x] : x \in 1 .. n}]
  BY <1>3
<1> HIDE DEF e, vals, after
<1>7. \A j \in 1 .. Len(e.outs) : Fits(new[j], f, e.outs[j], js)
  <2>1. Charged(e, f)
    BY DEF e
  <2> QED  BY <1>1, <1>5, <1>6, <2>1, ResultsFit
<1> HIDE DEF new
<1>8. ASSUME NEW s \in 1 .. n
      PROVE  Fits(after[s], f, s, js)
  <2>1. CASE \E j \in DOMAIN e.outs : e.outs[j] = s
    <3> DEFINE j == CHOOSE j \in DOMAIN e.outs : e.outs[j] = s
    <3>1. j \in DOMAIN e.outs /\ e.outs[j] = s
      BY <2>1
    <3>2. after[s] = new[j]
      BY <1>4, <2>1
    <3> HIDE DEF j
    <3>3. Fits(new[j], f, e.outs[j], js)
      BY <1>3, <1>7, <3>1
    <3> QED  BY <3>1, <3>2, <3>3
  <2>2. CASE ~ \E j \in DOMAIN e.outs : e.outs[j] = s
    <3>1. after[s] = en[s]
      BY <1>4, <2>2
    <3> QED  BY <3>1 DEF FitIn
  <2> QED  BY <2>1, <2>2
<1> QED  BY <1>8 DEF FitIn, after, e

\* A slot let go holds nothing.
LEMMA NothingFits ==
  ASSUME NEW f, NEW s, NEW js
  PROVE  Fits(NoArray, f, s, js)
<1>1. NoArray.obj = <<>> /\ NoArray.buf = <<>> /\ IsArray(NoArray)
  BY DEF NoArray, IsArray
<1> QED  BY <1>1, Tags DEF Fits

\* The arguments, before the walk.
LEMMA ArgsFit ==
  ASSUME NEW f, \A a \in Args : a \in AliasOf(f, a), NEW s \in Args, NEW js
  PROVE  Fits([term |-> <<"arg", s>>, obj |-> <<"arg", s>>, buf |-> <<"arg", s>>], f, s, js)
<1> DEFINE a == [term |-> <<"arg", s>>, obj |-> <<"arg", s>>, buf |-> <<"arg", s>>]
<1>1. a.obj = <<"arg", s>> /\ a.buf = <<"arg", s>> /\ IsArray(a)
  BY DEF IsArray
<1> HIDE DEF a
<1>2. Fits(a, f, s, js)
  BY <1>1, Tags DEF Fits
<1> QED  BY <1>2 DEF a

---------------------------------------------------------------------------
(* A pass that keeps the taints and charged entries leaves a charging      *)
(* frame.                                                                  *)
LEMMA KeptCharging ==
  ASSUME NEW f, Charging(f), NEW g, g.n = f.n, g.alias = f.alias, g.cview = f.cview,
         \A i \in 1 .. Len(g.entries) : Charged(g.entries[i], f)
  PROVE  Charging(g)
<1>1. Within(g) /\ \A s : AliasOf(g, s) = AliasOf(f, s)
  BY DEF Charging, Within, AliasOf
<1>2. \A e : Charged(e, f) => Charged(e, g)
  BY <1>1 DEF Charged, Due, CarryCharged, Below
<1>3. \A a \in Args : a \in AliasOf(g, a)
  BY <1>1 DEF Charging
<1> QED  BY <1>1, <1>2, <1>3 DEF Charging

LEMMA PassCharging ==
  ASSUME NEW f, IsFrame(f), Charging(f), NEW es, \A i \in 1 .. Len(es) : Charged(es[i], f),
         NEW g, g = [f EXCEPT !.entries = es]
  PROVE  Charging(g)
<1> DEFINE cv == f.cview
<1>1. f = [slot |-> f.slot, n |-> f.n, entries |-> f.entries,
           alias |-> f.alias, cview |-> f.cview, consts |-> f.consts]
  BY DEF IsFrame
<1>2. g = [slot |-> f.slot, n |-> f.n, entries |-> es,
           alias |-> f.alias, cview |-> cv, consts |-> f.consts]
  BY <1>1
<1> HIDE DEF cv
<1>3. g.n = f.n /\ g.entries = es /\ g.alias = f.alias /\ g.cview = cv
  BY <1>2, Rewritten
<1> QED  BY <1>3, KeptCharging DEF cv

LEMMA NeededCharged ==
  ASSUME NEW es, es \in Seq(ToSet(es)), NEW os, NEW f, \A i \in 1 .. Len(es) : Charged(es[i], f)
  PROVE  \A i \in 1 .. Len(Needed(es, os)) : Charged(Needed(es, os)[i], f)
<1> DEFINE live == LiveBefore(es, os)
           keep == {i \in DOMAIN es : Used(es[i], live[Len(es) - i])}
<1>1. Needed(es, os) = Gathered(es, keep)
  BY DEF Needed
<1> HIDE DEF keep
<1>2. ASSUME NEW i \in 1 .. Len(Gathered(es, keep))
      PROVE  Charged(Gathered(es, keep)[i], f)
  <2>1. PICK d \in 1 .. Len(es) : Gathered(es, keep)[i] = es[d]
    BY GatheredFrom
  <2> QED  BY <2>1
<1> QED  BY <1>1, <1>2

LEMMA FirstCharges == Charging(Frame)
<1> DEFINE sl == [v \in {<<0, a>> : a \in Args} |-> v[2]]
           al == [s \in Args |-> {s}]
<1>1. Frame = [slot |-> sl, n |-> NArgs, entries |-> <<>>, alias |-> al, cview |-> {}, consts |-> <<>>]
  BY DEF Frame
<1>2. DOMAIN al = Args /\ \A s \in Args : al[s] = {s}
  OBVIOUS
<1> HIDE DEF sl, al
<1>3. Frame.n = NArgs /\ Frame.entries = <<>> /\ Frame.alias = al /\ Frame.cview = {}
  BY <1>1
<1>4. Args = 1 .. NArgs /\ 1 .. Len(<<>>) = {}
  BY ArgsAssumption
<1>5. \A a \in Args : AliasOf(Frame, a) = {a}
  BY <1>2, <1>3 DEF AliasOf
<1> QED  BY <1>2, <1>3, <1>4, <1>5 DEF Charging, Within

\* Letting slots go leaves what is held within its charge.
LEMMA DroppedFits ==
  ASSUME NEW f, NEW after, NEW js, FitIn(after, f, js),
         NEW next, \A s \in 1 .. f.n : next[s] = NoArray \/ next[s] = after[s]
  PROVE  FitIn(next, f, js)
BY NothingFits DEF FitIn

\* The environment a walk starts from.
LEMMA StartFits ==
  ASSUME NEW f, Charging(f), NEW js, NEW en,
         en = [s \in 1 .. f.n |->
                 IF s \in Args THEN [term |-> <<"arg", s>>, obj |-> <<"arg", s>>, buf |-> <<"arg", s>>]
                 ELSE NoArray]
  PROVE  FitIn(en, f, js)
<1>1. ASSUME NEW s \in 1 .. f.n
      PROVE  Fits(en[s], f, s, js)
  <2>1. CASE s \in Args
    <3> DEFINE a == [term |-> <<"arg", s>>, obj |-> <<"arg", s>>, buf |-> <<"arg", s>>]
    <3>1. en[s] = a
      BY <2>1
    <3>2. \A x \in Args : x \in AliasOf(f, x)
      BY DEF Charging
    <3>3. Fits(a, f, s, js)
      BY <2>1, <3>2, ArgsFit
    <3> QED  BY <3>1, <3>3
  <2>2. CASE s \notin Args
    BY <2>2, NothingFits
  <2> QED  BY <2>1, <2>2
<1> QED  BY <1>1 DEF FitIn

---------------------------------------------------------------------------
(* The outputs a caller gets, of the walk's environment `en`, as Return    *)
(* makes them when the donations `back` are taken back.                    *)
AsCopied(os, en, c) == [j \in DOMAIN os |-> IF j \in c.copy THEN FreshCopy(en[os[j]], j) ELSE en[os[j]]]
AsDeduped(a) == [j \in DOMAIN a |-> IF \E i \in 1 .. j - 1 : a[i].obj = a[j].obj THEN FreshCopy(a[j], j) ELSE a[j]]
AsHanded(b, c, back) ==
  [j \in DOMAIN b |-> IF \E x \in c.exempt : x[1] = j /\ x[2] \cap back # {} THEN FreshCopy(b[j], j) ELSE b[j]]
Untouched(got, os, en, c, back, j) ==
  /\ got[j] = en[os[j]] /\ j \notin c.copy
  /\ \A i \in 1 .. j - 1 : AsCopied(os, en, c)[i].obj # en[os[j]].obj
  /\ ~ \E x \in c.exempt : x[1] = j /\ x[2] \cap back # {}
IsCopy(a, j) == a.obj = <<"copy", j>> /\ a.buf = <<"copy", j>>

LEMMA CopyIs ==
  ASSUME NEW a, IsArray(a), NEW j
  PROVE  IsArray(FreshCopy(a, j)) /\ IsCopy(FreshCopy(a, j), j)
<1> DEFINE o == <<"copy", j>>
           c == FreshCopy(a, j)
<1>1. c = [a EXCEPT !.obj = o, !.buf = o]
  BY DEF FreshCopy
<1> HIDE DEF o, c
<1>2. c = [term |-> a.term, obj |-> o, buf |-> o]
  BY <1>1 DEF IsArray
<1>3. c.term = a.term /\ c.obj = o /\ c.buf = o
  BY <1>2
<1> QED  BY <1>2, <1>3 DEF IsArray, IsCopy, o, c

LEMMA HandedIs ==
  ASSUME NEW os, NEW en, \A j \in DOMAIN os : IsArray(en[os[j]]), NEW c, NEW back,
         NEW got, got = AsHanded(AsDeduped(AsCopied(os, en, c)), c, back), NEW j \in DOMAIN os
  PROVE  IsCopy(got[j], j) \/ Untouched(got, os, en, c, back, j)
<1> DEFINE a == AsCopied(os, en, c)
           b == AsDeduped(a)
<1>1. DOMAIN a = DOMAIN os /\ a[j] = IF j \in c.copy THEN FreshCopy(en[os[j]], j) ELSE en[os[j]]
  BY DEF AsCopied
<1>2. IsArray(en[os[j]])
  OBVIOUS
<1>3. IsArray(a[j]) /\ (j \in c.copy => IsCopy(a[j], j))
  BY <1>1, <1>2, CopyIs
<1> HIDE DEF a
<1>4. DOMAIN b = DOMAIN os
      /\ b[j] = IF \E i \in 1 .. j - 1 : a[i].obj = a[j].obj THEN FreshCopy(a[j], j) ELSE a[j]
  BY <1>1 DEF AsDeduped
<1>5. IsArray(b[j])
      /\ ((b[j] = a[j] /\ (\A i \in 1 .. j - 1 : a[i].obj # a[j].obj)) \/ IsCopy(b[j], j))
  BY <1>3, <1>4, CopyIs
<1> HIDE DEF b
<1>6. got[j] = IF \E x \in c.exempt : x[1] = j /\ x[2] \cap back # {} THEN FreshCopy(b[j], j) ELSE b[j]
  BY <1>4 DEF AsHanded, a, b
<1>7. CASE \E x \in c.exempt : x[1] = j /\ x[2] \cap back # {}
  BY <1>5, <1>6, <1>7, CopyIs
<1>8. CASE ~ \E x \in c.exempt : x[1] = j /\ x[2] \cap back # {}
  <2>1. got[j] = b[j]
    BY <1>6, <1>8
  <2>2. CASE IsCopy(b[j], j)
    BY <2>1, <2>2
  <2>3. CASE b[j] = a[j] /\ \A i \in 1 .. j - 1 : a[i].obj # a[j].obj
    <3>1. CASE j \in c.copy
      BY <1>3, <2>1, <2>3, <3>1
    <3>2. CASE j \notin c.copy
      BY <1>1, <1>8, <2>1, <2>3, <3>2 DEF Untouched, a
    <3> QED  BY <3>1, <3>2
  <2> QED  BY <1>5, <2>2, <2>3
<1> QED  BY <1>7, <1>8

\* What is handed over is nobody else's.
LEMMA HandedFresh ==
  ASSUME NEW f, NEW n, NEW os, os \in Seq(1 .. n), f.n = n, NEW en, FitIn(en, f, DOMAIN os),
         NEW don, NEW c, c = CopiesOf(os, f, don), NEW back,
         NEW got, got = AsHanded(AsDeduped(AsCopied(os, en, c)), c, back), NEW j \in DOMAIN os
  PROVE  /\ \A a \in Args \ (don \ back) : got[j].obj # <<"arg", a>>
         /\ got[j].buf # <<"const">>
         /\ \A i \in DOMAIN os \ {j} : got[i].obj # got[j].obj
<1>1. DOMAIN os = 1 .. Len(os) /\ Len(os) \in Nat /\ \A i \in DOMAIN os : os[i] \in 1 .. n
  <2>1. DOMAIN os = 1 .. Len(os) /\ Len(os) \in Nat
    OBVIOUS
  <2> QED  BY <2>1, ElementOf
<1>2. \A i \in DOMAIN os : Fits(en[os[i]], f, os[i], DOMAIN os)
  BY <1>1 DEF FitIn
<1>3. \A i \in DOMAIN os : IsCopy(got[i], i) \/ Untouched(got, os, en, c, back, i)
  BY <1>2, HandedIs DEF Fits
<1> DEFINE args(k) == AliasOf(f, os[k])
<1>4. /\ \A k \in DOMAIN os : k \notin c.copy => os[k] \notin f.cview /\ (args(k) # {} => args(k) \subseteq don)
      /\ \A k \in DOMAIN os : k \notin c.copy /\ args(k) # {} => <<k, args(k)>> \in c.exempt
  <2> DEFINE C == {k \in DOMAIN os : os[k] \in f.cview \/ (args(k) # {} /\ ~ args(k) \subseteq don)}
             X == {<<k, args(k)>> : k \in {i \in DOMAIN os :
                     os[i] \notin f.cview /\ args(i) # {} /\ args(i) \subseteq don}}
  <2>1. c = [copy |-> C, exempt |-> X]
    BY DEF CopiesOf
  <2> HIDE DEF C, X
  <2>2. c.copy = C /\ c.exempt = X
    BY <2>1
  <2> HIDE DEF args
  <2>3. \A k \in DOMAIN os : k \notin C => os[k] \notin f.cview /\ (args(k) # {} => args(k) \subseteq don)
    BY DEF C
  <2>4. \A k \in DOMAIN os : k \notin C /\ args(k) # {} => <<k, args(k)>> \in X
    BY DEF C, X
  <2> QED  BY <2>2, <2>3, <2>4 DEF args
<1> HIDE DEF args
<1>5. CASE IsCopy(got[j], j)
  <2>1. ASSUME NEW i \in DOMAIN os \ {j}
        PROVE  got[i].obj # got[j].obj
    <3>1. CASE IsCopy(got[i], i)
      BY <1>5, <3>1, Tags DEF IsCopy
    <3>2. CASE Untouched(got, os, en, c, back, i)
      BY <1>2, <1>5, <3>2 DEF Untouched, IsCopy, Fits
    <3> QED  BY <1>3, <3>1, <3>2
  <2> QED  BY <1>5, <2>1, Tags DEF IsCopy
<1>6. CASE Untouched(got, os, en, c, back, j)
  <2>1. got[j] = en[os[j]] /\ j \notin c.copy /\ Fits(got[j], f, os[j], DOMAIN os)
    BY <1>2, <1>6 DEF Untouched
  <2>2. ASSUME NEW a \in Args \ (don \ back), got[j].obj = <<"arg", a>>
        PROVE  FALSE
    <3>1. a \in args(j)
      BY <2>1, <2>2 DEF Fits, args
    <3>2. args(j) \subseteq don /\ <<j, args(j)>> \in c.exempt
      BY <1>4, <2>1, <3>1
    <3>3. a \in back
      BY <3>1, <3>2
    <3> DEFINE x == <<j, args(j)>>
    <3>4. x[1] = j /\ x[2] = args(j)
      OBVIOUS
    <3>5. x \in c.exempt /\ x[1] = j /\ x[2] \cap back # {}
      BY <3>1, <3>2, <3>3, <3>4
    <3> HIDE DEF x
    <3> QED  BY <1>6, <3>5 DEF Untouched
  <2>3. got[j].buf # <<"const">>
    BY <1>4, <2>1 DEF Fits
  <2>4. ASSUME NEW i \in DOMAIN os \ {j}
        PROVE  got[i].obj # got[j].obj
    <3>1. CASE IsCopy(got[i], i)
      BY <2>1, <3>1 DEF IsCopy, Fits
    <3>2. CASE Untouched(got, os, en, c, back, i)
      <4> DEFINE a == AsCopied(os, en, c)
      <4>1. a[i] = en[os[i]] /\ a[j] = en[os[j]]
        BY <1>6, <3>2 DEF AsCopied, Untouched
      <4>2. i \in 1 .. j - 1 \/ j \in 1 .. i - 1
        BY <1>1
      <4>3. /\ \A k \in 1 .. j - 1 : a[k].obj # en[os[j]].obj
            /\ \A k \in 1 .. i - 1 : a[k].obj # en[os[i]].obj
        BY <1>6, <3>2 DEF Untouched
      <4>4. got[i] = en[os[i]]
        BY <3>2 DEF Untouched
      <4> HIDE DEF a
      <4> QED  BY <2>1, <4>1, <4>2, <4>3, <4>4
    <3> QED  BY <1>3, <3>1, <3>2
  <2> QED  BY <2>2, <2>3, <2>4
<1> QED  BY <1>3, <1>5, <1>6

---------------------------------------------------------------------------
(* The frame's life, charged.                                              *)
LEMMA FreshInit == TapeInit => FreshInv
<1> SUFFICES ASSUME TapeInit PROVE FreshInv
  OBVIOUS
<1>1. chosen \in Programs /\ phase = "lower" /\ frame = Frame
  BY DEF TapeInit
<1>2. chosen \in [kinds : SUBSET STRING, ops : Nat, region : BOOLEAN, donated : SUBSET Args]
  BY <1>1, ProgramsAssumption
<1> QED  BY <1>1, <1>2, FirstCharges DEF FreshInv

LEMMA FreshNext == TapeInv /\ FreshInv /\ [TapeNext]_tapeVars => FreshInv'
<1> SUFFICES ASSUME TapeInv, FreshInv, [TapeNext]_tapeVars PROVE FreshInv'
  OBVIOUS
<1> DEFINE Kinds == [kinds : SUBSET STRING, ops : Nat, region : BOOLEAN, donated : SUBSET Args]
<1>0. chosen \in Kinds
  BY DEF FreshInv
<1>1. CASE LowerOp
  <2>1. /\ phase = "lower" /\ phase' = "lower" /\ chosen' = chosen /\ Ops(src)
        /\ LoweredTo(frame, KnownIn(src))
    BY <1>1 DEF LowerOp, TapeInv
  <2>2. PICK op \in NextOps : src' = Append(src, op) /\ frame' = Lowered(frame, op, Len(src) + 1)
    BY <1>1 DEF LowerOp
  <2>3. Proper(op, Known) /\ Known = KnownIn(src)
    BY <2>1, NextOpsProper, KnownOnes
  <2>4. ASSUME ~ chosen'.region, InPlaceSoFar'
        PROVE  Charging(frame')
    <3>1. DOMAIN src = 1 .. Len(src) /\ Len(src) \in Nat /\ DOMAIN src' = 1 .. Len(src) + 1
          /\ src'[Len(src) + 1] = op /\ \A i \in 1 .. Len(src) : src'[i] = src[i]
      <4>1. src \in Seq(ToSet(src))
        BY <2>1 DEF Ops
      <4> QED  BY <2>2, <4>1
    <3>2. \A i \in 1 .. Len(src) + 1 : src'[i].kind = "loop" => InPlace(src'[i])
      BY <2>4, <3>1 DEF InPlaceSoFar, InPlace
    <3>3. Len(src) + 1 \in 1 .. Len(src) + 1 /\ \A i \in 1 .. Len(src) : i \in 1 .. Len(src) + 1
      BY <3>1
    <3>4. op.kind = "loop" => InPlace(op)
      BY <3>1, <3>2, <3>3
    <3>5. \A i \in 1 .. Len(src) : src[i].kind = "loop" => InPlace(src[i])
      BY <3>1, <3>2, <3>3
    <3>6. InPlaceSoFar
      BY <3>1, <3>5 DEF InPlaceSoFar
    <3>7. Charging(frame)
      BY <2>1, <2>4, <3>6 DEF FreshInv
    <3> QED  BY <2>1, <2>2, <2>3, <3>4, <3>7, OpCharges
  <2> QED  BY <1>0, <2>1, <2>4 DEF FreshInv
<1>2. CASE Terminate
  <2>1. phase' = "cse" /\ chosen' = chosen /\ src' = src /\ frame' = frame
    BY <1>2 DEF Terminate
  <2> QED  BY <1>0, <2>1 DEF FreshInv, InPlaceSoFar
<1>3. CASE CsePass
  <2>1. /\ phase' = "fold" /\ chosen' = chosen /\ src' = src /\ IsFrame(frame)
        /\ WellFormed(frame.entries, frame.n, outputs)
    BY <1>3 DEF CsePass, TapeInv, Entries
  <2>2. ASSUME Charging(frame)
        PROVE  Charging(frame')
    <3>1. CASE CsePassOn
      <4> DEFINE es == Merged(frame.entries, frame.n).kept
      <4>1. frame' = [frame EXCEPT !.entries = es]
        BY <1>3, <3>1 DEF CsePass, Entries
      <4>2. Sound(frame.entries, frame.n) /\ \A i \in 1 .. Len(frame.entries) : Charged(frame.entries[i], frame)
        BY <2>1, <2>2 DEF WellFormed, Charging
      <4>3. \A i \in 1 .. Len(es) : Charged(es[i], frame)
        BY <4>2, MergedCharged
      <4> HIDE DEF es
      <4> QED  BY <2>1, <2>2, <4>1, <4>3, PassCharging
    <3>2. CASE ~ CsePassOn
      BY <1>3, <2>2, <3>2 DEF CsePass
    <3> QED  BY <3>1, <3>2
  <2> QED  BY <1>0, <2>1, <2>2 DEF FreshInv, InPlaceSoFar
<1>4. CASE FoldConstants
  <2>1. phase' = "dce" /\ chosen' = chosen /\ src' = src
    BY <1>4 DEF FoldConstants
  <2>2. ~ chosen.region => frame' = frame
    BY <1>4 DEF FoldConstants
  <2> QED  BY <1>0, <2>1, <2>2 DEF FreshInv, InPlaceSoFar
<1>5. CASE DcePass
  <2>1. /\ phase' = "finish" /\ chosen' = chosen /\ src' = src /\ IsFrame(frame)
        /\ WellFormed(frame.entries, frame.n, outputs)
    BY <1>5 DEF DcePass, TapeInv, Entries
  <2>2. ASSUME Charging(frame)
        PROVE  Charging(frame')
    <3> DEFINE es == Needed(frame.entries, outputs)
    <3>1. frame' = [frame EXCEPT !.entries = es] \/ frame' = frame
      BY <1>5 DEF DcePass
    <3>2. frame.entries \in Seq(ToSet(frame.entries))
          /\ \A i \in 1 .. Len(frame.entries) : Charged(frame.entries[i], frame)
      BY <2>1, <2>2 DEF WellFormed, Sound, Charging
    <3>3. \A i \in 1 .. Len(es) : Charged(es[i], frame)
      BY <3>2, NeededCharged
    <3> HIDE DEF es
    <3> QED  BY <2>1, <2>2, <3>1, <3>3, PassCharging
  <2> QED  BY <1>0, <2>1, <2>2 DEF FreshInv, InPlaceSoFar
<1>6. CASE Finish
  <2>1. /\ phase' = "run" /\ chosen' = chosen /\ src' = src /\ frame' = frame /\ outputs' = outputs
        /\ ~ chosen.region => copies' = CopiesOf(outputs, frame, chosen.donated)
    BY <1>6 DEF Finish
  <2>2. env' = [s \in 1 .. frame.n |->
                  IF s \in Args THEN [term |-> <<"arg", s>>, obj |-> <<"arg", s>>, buf |-> <<"arg", s>>]
                  ELSE NoArray]
    BY <1>6 DEF Finish
  <2>3. Charging(frame) => FitIn(env', frame, DOMAIN outputs)
    BY <2>2, StartFits
  <2> QED  BY <1>0, <2>1, <2>3 DEF FreshInv, InPlaceSoFar
<1>7. CASE Step
  <2>1. /\ phase = "run" /\ phase' = "run" /\ chosen' = chosen /\ src' = src /\ frame' = frame
        /\ outputs' = outputs /\ copies' = copies /\ WellFormed(frame.entries, frame.n, outputs)
        /\ pc \in 1 .. Len(frame.entries) + 1 /\ pc <= Len(frame.entries)
        /\ Holds(env, frame.entries, frame.n, outputs, pc)
    BY <1>7 DEF Step, TapeInv, Entries
  <2>2. pc \in 1 .. Len(frame.entries) /\ Sound(frame.entries, frame.n) /\ frame.n \in Nat
        /\ DOMAIN env = 1 .. frame.n
    <3>1. Len(frame.entries) \in Nat
      BY <2>1, WellFormedFacts
    <3>2. pc \in 1 .. Len(frame.entries)
      BY <2>1, <3>1
    <3> QED  BY <2>1, <3>2 DEF WellFormed, Sound, Holds
  <2> DEFINE dropped == drops[pc]
             calls == Len(log)
             after == Written(frame.entries[pc], env, calls)
  <2>3. env' = [s \in DOMAIN env |-> IF s \in dropped THEN NoArray ELSE after[s]]
    BY <1>7 DEF Step, Entries
  <2>5. \A s \in 1 .. frame.n : env'[s] = NoArray \/ env'[s] = after[s]
    BY <2>2, <2>3
  <2> HIDE DEF dropped, calls
  <2> DEFINE js == DOMAIN outputs
  <2>4. ASSUME Charging(frame), FitIn(env, frame, js)
        PROVE  FitIn(env', frame, js)
    <3> HIDE DEF js
    <3>1. Charged(frame.entries[pc], frame)
      BY <2>2, <2>4 DEF Charging
    <3>2. FitIn(after, frame, js)
      BY <2>2, <2>4, <3>1, WrittenFits
    <3> HIDE DEF after
    <3> QED  BY <2>5, <3>2, DroppedFits
  <2> QED  BY <1>0, <2>1, <2>4 DEF FreshInv, InPlaceSoFar
<1>8. CASE Return
  <2>1. /\ phase = "run" /\ phase' = "done" /\ src' = src /\ frame' = frame /\ IsFrame(frame)
        /\ outputs' = outputs /\ copies' = copies /\ WellFormed(frame.entries, frame.n, outputs)
    BY <1>8 DEF Return, TapeInv, Entries
  <2>2. PICK back \in SUBSET chosen.donated :
          /\ outs' = AsHanded(AsDeduped(AsCopied(outputs, env, copies)), copies, back)
          /\ chosen' = [chosen EXCEPT !.donated = chosen.donated \ back]
    BY <1>8 DEF Return, AsHanded, AsDeduped, AsCopied
  <2>3. chosen' \in Kinds /\ chosen'.region = chosen.region /\ chosen'.donated = chosen.donated \ back
    BY <1>0, <2>2
  <2>4. DOMAIN outs' = DOMAIN outputs
    BY <2>2 DEF AsHanded, AsDeduped, AsCopied
  <2>5. ASSUME copies = CopiesOf(outputs, frame, chosen.donated), FitIn(env, frame, DOMAIN outputs),
               NEW j \in DOMAIN outs'
        PROVE  OutputIsFresh(j)'
    <3>1. /\ \A a \in Args \ (chosen.donated \ back) : outs'[j].obj # <<"arg", a>>
          /\ outs'[j].buf # <<"const">>
          /\ \A i \in DOMAIN outputs \ {j} : outs'[i].obj # outs'[j].obj
      <4>1. outputs \in Seq(1 .. frame.n)
        BY <2>1 DEF WellFormed
      <4> QED  BY <2>2, <2>4, <2>5, <4>1, HandedFresh
    <3> QED  BY <2>3, <2>4, <3>1 DEF OutputIsFresh
  <2> QED  BY <2>1, <2>3, <2>5 DEF FreshInv, InPlaceSoFar
<1>9. CASE Done
  BY <1>0, <1>9 DEF Done, tapeVars, FreshInv, InPlaceSoFar, OutputIsFresh
<1>10. CASE UNCHANGED tapeVars
  BY <1>0, <1>10 DEF tapeVars, FreshInv, InPlaceSoFar, OutputIsFresh
<1> QED  BY <1>1, <1>2, <1>3, <1>4, <1>5, <1>6, <1>7, <1>8, <1>9, <1>10 DEF TapeNext

LEMMA FreshHolds == FreshInv => OutputsAreFreshInPlace
BY DEF FreshInv, OutputsAreFreshInPlace, OutputsAreFresh, InPlaceSoFar

(* No array a caller gets is an argument it still owns, shares a constant  *)
(* the program holds, or is handed out twice: the copies Program::run      *)
(* makes on the taints' word are enough, for every program whose loops     *)
(* hand a carry on, if at all, in its own place, and whichever donations   *)
(* a call takes back (Lowering::TaintResults, LowerBranch, LowerWhile).    *)
THEOREM OutputsFresh == TapeSpec => []OutputsAreFreshInPlace
<1>1. TapeSpec => []TapeInv
  BY InvInit, InvNext, PTL DEF TapeSpec
<1>2. TapeSpec => []FreshInv
  BY <1>1, FreshInit, FreshNext, PTL DEF TapeSpec
<1> QED  BY <1>2, FreshHolds, PTL

---------------------------------------------------------------------------
(* The terms of an entry.                                                  *)
Lift(t) == [term |-> t, obj |-> <<>>, buf |-> <<>>]
(* An array that holds the term t. *)
Bears(a, t) == IsArray(a) /\ a.term = t
(* The term of carry j after a loop over the terms `ts`. *)
LoopTerm(trip, move, ts, j) ==
  SubSeq(Iterate([outs |-> <<1, 2>>, trip |-> trip, move |-> move],
                 [k \in 1 .. 3 |-> Lift(ts[k])]), 1, 2)[j]
(* The term of result j of an entry over the terms `ts`, after `calls` calls. *)
Term(e, ts, calls, j) ==
  CASE e.op = "const"  -> e.payload
    [] e.op = "iota"   -> <<"iota">>
    [] e.op = "add"    -> <<"add", ts[1], ts[2]>>
    [] e.op \in {"bcast", "view"} -> <<e.op, ts[1]>>
    [] e.op = "ident"  -> ts[1]
    [] e.op = "print"  -> <<"call", calls + 1, ts[1]>>
    [] e.op = "branch" -> ts[1 + e.trip]
    [] e.op = "loop"   -> LoopTerm(e.trip, e.move, ts, j).term

\* The terms of a loop's carries depend on the terms of what it begins with alone.
LEMMA LoopTerms ==
  ASSUME NEW e, Looping(e), NEW V, NEW vals \in [1 .. 3 -> V],
         NEW ts, \A k \in 1 .. 3 : Bears(vals[k], ts[k]), NEW j \in 1 .. 2
  PROVE  Bears(SubSeq(Iterate(e, vals), 1, 2)[j], LoopTerm(e.trip, e.move, ts, j).term)
<1> DEFINE d == [outs |-> <<1, 2>>, trip |-> e.trip, move |-> e.move]
           lifted == [k \in 1 .. 3 |-> Lift(ts[k])]
<1>1. /\ e.trip \in Nat /\ e.move \in Moves /\ Len(e.outs) = 2
      /\ d.trip = e.trip /\ d.move = e.move /\ Len(d.outs) = 2 /\ Looping(d)
  BY DEF Looping
<1>2. /\ lifted \in [1 .. 3 -> {Lift(ts[k]) : k \in 1 .. 3}]
      /\ \A k \in 1 .. 3 : Bears(vals[k], lifted[k].term)
  BY DEF Lift, Bears
<1>3. LoopTerm(e.trip, e.move, ts, j) = SubSeq(Iterate(d, lifted), 1, 2)[j]
  BY DEF LoopTerm
<1> HIDE DEF d, lifted
<1>4. PICK c : Trips(e, vals, c)
  BY IterateIs
<1>5. PICK b : Trips(d, lifted, b)
  BY <1>1, <1>2, IterateIs
<1> DEFINE Same(x, y) == \A k \in 1 .. 3 : Bears(x[k], y[k].term)
           T == {t \in 0 .. e.trip : Same(c[t], b[t])}
<1>6. 0 \in T
  BY <1>1, <1>2, <1>4, <1>5 DEF Trips
<1>7. ASSUME NEW t \in 0 .. e.trip - 1, t \in T
      PROVE  t + 1 \in T
  <2>1. t + 1 \in 0 .. e.trip /\ t + 1 \in 1 .. e.trip /\ (t + 1) - 1 = t
    BY <1>1
  <2> DEFINE x == c[t]
             y == b[t]
             u == c[t + 1]
             v == b[t + 1]
  <2>2. /\ u = [k \in 1 .. 3 |-> IF k <= 2 THEN Carried(e, x, k, t + 1) ELSE vals[k]]
        /\ v = [k \in 1 .. 3 |-> IF k <= 2 THEN Carried(d, y, k, t + 1) ELSE lifted[k]]
    BY <1>1, <1>4, <1>5, <2>1 DEF Trips
  <2>3. Same(x, y)
    BY <1>7
  <2> HIDE DEF x, y, u, v
  <2>4. ASSUME NEW k \in 1 .. 2
        PROVE  Bears(Carried(e, x, k, t + 1), Carried(d, y, k, t + 1).term)
    <3> DEFINE from == e.move[k]
    <3>1. from[1] = "cap" \/ from \in {"carry", "step"} \X (1 .. 2)
      BY <1>1, LoopsAssumption
    <3>2. CASE from[1] = "cap"
      <4>1. Carried(e, x, k, t + 1) = x[3] /\ Carried(d, y, k, t + 1) = y[3]
        BY <1>1, <3>2 DEF Carried
      <4> QED  BY <2>3, <4>1
    <3>3. CASE from[1] = "carry" /\ from[2] \in 1 .. 2
      <4>1. Carried(e, x, k, t + 1) = x[from[2]] /\ Carried(d, y, k, t + 1) = y[from[2]]
        BY <1>1, <3>3 DEF Carried
      <4> QED  BY <2>3, <3>3, <4>1
    <3>4. CASE from[1] = "step" /\ from[2] \in 1 .. 2
      <4>1. /\ Bears(Carried(e, x, k, t + 1), <<"step", x[from[2]].term>>)
            /\ Carried(d, y, k, t + 1).term = <<"step", y[from[2]].term>>
        BY <1>1, <3>4 DEF Carried, FreshAt, Bears, IsArray
      <4>2. x[from[2]].term = y[from[2]].term
        BY <2>3, <3>4 DEF Bears
      <4> QED  BY <4>1, <4>2
    <3> QED  BY <3>1, <3>2, <3>3, <3>4
  <2>5. \A k \in 1 .. 3 : k <= 2 => k \in 1 .. 2
    OBVIOUS
  <2>6. \A k \in 1 .. 3 : Bears(vals[k], lifted[k].term)
    BY <1>2
  <2>7. Same(u, v)
    BY <2>2, <2>4, <2>5, <2>6
  <2> QED  BY <2>1, <2>7 DEF u, v
<1> HIDE DEF T
<1>8. e.trip \in T
  <2>1. \A t \in 0 .. e.trip : t \in T
    BY <1>1, <1>6, <1>7, InductTo, Zenon
  <2> QED  BY <1>1, <2>1
<1>9. Same(c[e.trip], b[e.trip])
  BY <1>8 DEF T
<1>10. /\ SubSeq(Iterate(e, vals), 1, 2)[j] = c[e.trip][j]
       /\ SubSeq(Iterate(d, lifted), 1, 2)[j] = b[e.trip][j]
  BY <1>1, <1>4, <1>5 DEF Trips
<1>11. j \in 1 .. 3
  OBVIOUS
<1> QED  BY <1>3, <1>9, <1>10, <1>11

(* The number of arrays an entry computes with. *)
Takes(e, m) ==
  CASE e.op \in {"const", "iota"} -> m \in Nat
    [] e.op \in {"bcast", "view", "ident", "print"} -> m = 1
    [] e.op = "add" -> m = 2
    [] e.op = "branch" -> m = 3 /\ e.trip \in 1 .. 2
    [] e.op = "loop" -> m = 3 /\ Looping(e)
    [] OTHER -> FALSE

\* What an entry computes bears the terms the entry says.
LEMMA ResultTerms ==
  ASSUME NEW e, NEW m, Takes(e, m), NEW V, NEW vals \in [1 .. m -> V],
         NEW ts, \A k \in 1 .. m : Bears(vals[k], ts[k]), NEW calls,
         NEW j, j = 1 \/ (j = 2 /\ e.op = "loop")
  PROVE  Bears(Compute(e, vals, calls)[j], Term(e, ts, calls, j))
<1> DEFINE s == e.outs[1]
           r == Compute(e, vals, calls)
           t == Term(e, ts, calls, j)
<1> SUFFICES Bears(r[j], t)
  OBVIOUS
<1> HIDE DEF r, t
<1>1. \A x, u : Bears(Fresh(x, u), x) /\ \A b : Bears([Fresh(x, u) EXCEPT !.buf = b], x)
  BY DEF Bears, IsArray, Fresh, FreshAt
<1>2. CASE e.op = "const"
  <2>1. r = <<[term |-> e.payload, obj |-> <<"const", s>>, buf |-> <<"const">>]>> /\ t = e.payload
    BY <1>2 DEF Compute, Term, r, t
  <2> QED  BY <1>2, <2>1 DEF Bears, IsArray
<1>3. CASE e.op = "iota"
  <2>1. r = <<Fresh(<<"iota">>, s)>> /\ t = <<"iota">> /\ j = 1
    BY <1>3 DEF Compute, Term, r, t
  <2> QED  BY <1>1, <2>1
<1>4. CASE e.op = "add"
  <2>1. m = 2 /\ j = 1
    BY <1>4 DEF Takes
  <2>2. r = <<Fresh(<<"add", vals[1].term, vals[2].term>>, s)>> /\ t = <<"add", ts[1], ts[2]>>
    BY <1>4 DEF Compute, Term, r, t
  <2>3. vals[1].term = ts[1] /\ vals[2].term = ts[2]
    BY <2>1 DEF Bears
  <2> QED  BY <1>1, <2>1, <2>2, <2>3
<1>5. CASE e.op \in {"bcast", "view", "ident", "print"}
  <2>1. m = 1 /\ j = 1 /\ Bears(vals[1], ts[1]) /\ vals[1].term = ts[1]
    BY <1>5 DEF Takes, Bears
  <2>2. /\ e.op = "bcast" => r = <<[Fresh(<<"bcast", vals[1].term>>, s) EXCEPT !.buf = vals[1].buf]>>
                             /\ t = <<"bcast", ts[1]>>
        /\ e.op = "view" => r = <<[Fresh(<<"view", vals[1].term>>, s) EXCEPT !.buf = vals[1].buf]>>
                            /\ t = <<"view", ts[1]>>
        /\ e.op = "ident" => r = <<vals[1]>> /\ t = ts[1]
        /\ e.op = "print" => r = <<Fresh(<<"call", calls + 1, vals[1].term>>, s)>>
                             /\ t = <<"call", calls + 1, ts[1]>>
    BY <1>5 DEF Compute, Term, r, t
  <2>3. ASSUME NEW x, NEW b, r = <<[Fresh(x, s) EXCEPT !.buf = b]>>, t = x
        PROVE  Bears(r[j], t)
    <3>1. r[j] = [Fresh(x, s) EXCEPT !.buf = b]
      BY <2>1, <2>3
    <3> QED  BY <1>1, <2>3, <3>1
  <2>4. CASE e.op \in {"bcast", "view"}
    <3>1. r = <<[Fresh(t, s) EXCEPT !.buf = vals[1].buf]>>
      BY <2>1, <2>2, <2>4
    <3> QED  BY <2>3, <3>1
  <2>5. CASE e.op = "ident"
    BY <2>1, <2>2, <2>5
  <2>6. CASE e.op = "print"
    BY <1>1, <2>1, <2>2, <2>6
  <2> QED  BY <1>5, <2>4, <2>5, <2>6
<1>6. CASE e.op = "branch"
  <2>1. m = 3 /\ e.trip \in 1 .. 2 /\ j = 1 /\ 1 + e.trip \in 1 .. 3
    BY <1>6 DEF Takes
  <2>2. r = <<vals[1 + e.trip]>> /\ t = ts[1 + e.trip]
    BY <1>6 DEF Compute, Term, r, t
  <2> QED  BY <2>1, <2>2
<1>7. CASE e.op = "loop"
  <2>1. m = 3 /\ Looping(e) /\ Len(e.outs) = 2 /\ j \in 1 .. 2
    BY <1>7 DEF Takes, Looping
  <2>2. r = SubSeq(Iterate(e, vals), 1, 2) /\ t = LoopTerm(e.trip, e.move, ts, j).term
    BY <1>7, <2>1 DEF Compute, Term, r, t
  <2> QED  BY <2>1, <2>2, LoopTerms
<1> QED  BY <1>2, <1>3, <1>4, <1>5, <1>6, <1>7 DEF Takes

\* A tape's entry takes as many arrays as it has operands.
LEMMA ShapedTakes ==
  ASSUME NEW e, NEW n, Shaped(e, n)
  PROVE  Takes(e, Len(e.ins)) /\ Len(e.ins) \in Nat /\ DOMAIN e.ins = 1 .. Len(e.ins)
<1>1. Operands(e) /\ Results(e) /\ e.ins \in Seq(1 .. n)
  BY DEF Shaped
<1>2. Len(e.ins) \in Nat /\ DOMAIN e.ins = 1 .. Len(e.ins)
  BY <1>1
<1> QED  BY <1>1, <1>2 DEF Operands, Results, Takes, Looping

---------------------------------------------------------------------------
(* Valuations.  A tape tells the terms of its slots, and the calls made in *)
(* front of each of its entries.                                           *)
TermsOf(e, val) == [k \in 1 .. Len(e.ins) |-> val[e.ins[k]]]
Says(e, val, before, after) ==
  /\ after = IF e.op = "print" THEN Append(before, val[e.ins[1]]) ELSE before
  /\ \A j \in 1 .. Len(e.outs) : val[e.outs[j]] = Term(e, TermsOf(e, val), Len(before), j)
Tells(es, val, calls) ==
  /\ calls[0] = <<>>
  /\ \A i \in 1 .. Len(es) : Says(es[i], val, calls[i - 1], calls[i])

(* `keep` has every host call; it has none of the entries a + 1 .. b. *)
KeepsCalls(es, keep) == \A i \in 1 .. Len(es) : es[i].op = "print" => i \in keep
Still(es, keep, a, b) == \A i \in 1 .. Len(es) : a < i /\ i <= b => i \notin keep

\* Where nothing is printed, no call is made.
LEMMA Quiet ==
  ASSUME NEW es, Len(es) \in Nat, NEW val, NEW calls, Tells(es, val, calls),
         NEW keep, KeepsCalls(es, keep),
         NEW a \in 0 .. Len(es), NEW b \in 0 .. Len(es), a <= b, Still(es, keep, a, b)
  PROVE  calls[b] = calls[a]
<1> DEFINE N == Len(es)
<1> DEFINE T == {d \in 0 .. N : a <= d /\ d <= b => calls[d] = calls[a]}
<1>1. 0 \in T
  OBVIOUS
<1>2. ASSUME NEW d \in 0 .. N - 1, d \in T
      PROVE  d + 1 \in T
  <2> SUFFICES ASSUME a <= d + 1, d + 1 <= b
               PROVE  calls[d + 1] = calls[a]
    OBVIOUS
  <2>1. d + 1 \in 1 .. N /\ (d + 1) - 1 = d
    OBVIOUS
  <2>2. CASE a = d + 1
    BY <2>2
  <2>3. CASE a <= d
    <3>1. calls[d] = calls[a]
      BY <1>2, <2>3
    <3>2. es[d + 1].op # "print"
      BY <2>1, <2>3 DEF KeepsCalls, Still
    <3>3. Says(es[d + 1], val, calls[d], calls[d + 1])
      BY <2>1 DEF Tells
    <3> QED  BY <3>1, <3>2, <3>3 DEF Says
  <2> QED  BY <2>2, <2>3
<1> HIDE DEF T
<1>3. \A d \in 0 .. N : d \in T
  BY <1>1, <1>2, InductTo, Zenon
<1>4. b \in 0 .. N
  OBVIOUS
<1> QED  BY <1>3, <1>4 DEF T

\* What stays of a tape tells the same, as long as every host call stays.
LEMMA GatherTells ==
  ASSUME NEW es, es \in Seq(ToSet(es)), NEW val, NEW calls, Tells(es, val, calls),
         NEW keep, KeepsCalls(es, keep), NEW r, r = Gathered(es, keep)
  PROVE  \E made : Tells(r, val, made) /\ made[Len(r)] = calls[Len(es)]
<1> DEFINE N == Len(es)
<1>1. N \in Nat
  OBVIOUS
<1>2. Picked(r, es, keep, N)
  BY Gathering
<1>3. PICK at \in [1 .. Len(r) -> 1 .. N] : PickedAt(r, es, keep, N, at)
  BY <1>2 DEF Picked
<1>4. /\ \A i \in 1 .. Len(r) : at[i] \in 1 .. N /\ at[i] \in keep /\ r[i] = es[at[i]]
      /\ \A i, j \in 1 .. Len(r) : i < j => at[i] < at[j]
      /\ \A k \in 1 .. N : k \in keep => \E i \in 1 .. Len(r) : at[i] = k
  BY <1>3 DEF PickedAt
<1>5. Len(r) \in Nat
  BY <1>2 DEF Picked
<1> DEFINE from(i) == IF i = 0 THEN 0 ELSE at[i]
           made == [i \in 0 .. Len(r) |-> calls[from(i)]]
<1>6. \A i \in 1 .. Len(r) : from(i) = at[i] /\ i \in 0 .. Len(r)
  BY <1>5
<1>7. \A i \in 0 .. Len(r) : from(i) \in 0 .. N
  BY <1>1, <1>4, <1>5
<1>8. ASSUME NEW i \in 0 .. Len(r), NEW k \in 1 .. N, from(i) < k, k \in keep
      PROVE  \E m \in 1 .. Len(r) : i < m /\ at[m] = k
  <2>1. PICK m \in 1 .. Len(r) : at[m] = k
    BY <1>4, <1>8
  <2>2. CASE i = 0
    BY <1>5, <2>1, <2>2
  <2>3. CASE i # 0
    <3>1. i \in 1 .. Len(r) /\ from(i) = at[i] /\ at[i] < at[m]
      BY <1>5, <1>8, <2>1, <2>3
    <3>2. ~ m <= i
      <4>1. at[i] \in 1 .. N /\ at[m] \in 1 .. N
        BY <1>4, <3>1
      <4> QED  BY <1>1, <1>4, <1>5, <3>1, <4>1
    <3> QED  BY <1>5, <2>1, <3>2
  <2> QED  BY <2>2, <2>3
<1>9. ASSUME NEW i \in 1 .. Len(r)
      PROVE  Says(r[i], val, made[i - 1], made[i])
  <2>1. i - 1 \in 0 .. Len(r) /\ i \in 0 .. Len(r) /\ at[i] \in 1 .. N /\ at[i] \in keep /\ r[i] = es[at[i]]
    BY <1>4, <1>5
  <2>2. made[i] = calls[at[i]] /\ made[i - 1] = calls[from(i - 1)]
    BY <1>6, <2>1
  <2>3. from(i - 1) \in 0 .. N /\ from(i - 1) < at[i]
    <3>1. CASE i = 1
      BY <1>1, <2>1, <3>1
    <3>2. CASE i # 1
      BY <1>4, <1>5, <1>6, <1>7, <2>1, <3>2
    <3> QED  BY <3>1, <3>2
  <2>4. ASSUME NEW k \in 1 .. N, from(i - 1) < k, k <= at[i] - 1
        PROVE  k \notin keep
    <3> SUFFICES ASSUME k \in keep PROVE FALSE
      OBVIOUS
    <3>1. PICK m \in 1 .. Len(r) : i - 1 < m /\ at[m] = k
      BY <1>8, <2>1, <2>4
    <3>2. m = i \/ i < m
      BY <1>5, <3>1
    <3> QED  BY <1>1, <1>4, <2>1, <2>4, <3>1, <3>2
  <2> HIDE DEF made, from
  <2>5. calls[at[i] - 1] = calls[from(i - 1)]
    <3>1. /\ at[i] - 1 \in 0 .. Len(es) /\ from(i - 1) \in 0 .. Len(es) /\ from(i - 1) <= at[i] - 1
          /\ Still(es, keep, from(i - 1), at[i] - 1) /\ Len(es) \in Nat
      BY <1>1, <2>1, <2>3, <2>4 DEF Still
    <3> QED  BY <3>1, Quiet
  <2>6. Says(es[at[i]], val, calls[at[i] - 1], calls[at[i]])
    BY <2>1 DEF Tells
  <2> QED  BY <2>1, <2>2, <2>5, <2>6
<1>10. made[0] = <<>>
  <2>1. 0 \in 0 .. Len(r)
    BY <1>5
  <2> QED  BY <2>1 DEF Tells
<1>11. made[Len(r)] = calls[N]
  <2>1. Len(r) \in 0 .. Len(r) /\ made[Len(r)] = calls[from(Len(r))] /\ from(Len(r)) \in 0 .. N
    BY <1>5, <1>7
  <2>2. ASSUME NEW k \in 1 .. N, from(Len(r)) < k, k <= N
        PROVE  k \notin keep
    BY <1>5, <1>8, <2>1, <2>2
  <2> HIDE DEF made, from
  <2>3. calls[N] = calls[from(Len(r))]
    <3>1. /\ N \in 0 .. N /\ from(Len(r)) <= N /\ from(Len(r)) \in 0 .. N
          /\ Still(es, keep, from(Len(r)), N)
      BY <1>1, <2>1, <2>2 DEF Still
    <3> QED  BY <1>1, <3>1, Quiet
  <2> QED  BY <2>1, <2>3
<1> HIDE DEF made
<1>12. Tells(r, val, made)
  BY <1>9, <1>10 DEF Tells
<1> QED  BY <1>11, <1>12

---------------------------------------------------------------------------
(* Merging.  What an entry with no payload computes is told by its key.    *)
KeyTerm(k, val) ==
  Term([op |-> k[1], payload |-> NoPayload, trip |-> 0, move |-> <<>>],
       [i \in 1 .. Len(k[2]) |-> val[k[2][i]]], 0, 1)

LEMMA EligibleTerm ==
  ASSUME NEW e, NEW n, Shaped(e, n), Eligible(e), NEW val, NEW calls
  PROVE  Term(e, TermsOf(e, val), calls, 1) = KeyTerm(Key(e), val)
<1> DEFINE ts == TermsOf(e, val)
           k == [op |-> e.op, payload |-> NoPayload, trip |-> 0, move |-> <<>>]
<1>1. KeyTerm(Key(e), val) = Term(k, ts, 0, 1)
  BY DEF KeyTerm, Key, TermsOf
<1>2. e.op \in {"const", "iota", "add", "bcast", "view", "ident"} /\ e.payload = NoPayload
  BY ShapedFacts DEF Eligible, PurePassOp, OpKinds
<1>3. k.op = e.op /\ k.payload = e.payload
  BY <1>2
<1> HIDE DEF ts, k
<1>4. Term(e, ts, calls, 1) = Term(k, ts, 0, 1)
  BY <1>2, <1>3 DEF Term
<1> QED  BY <1>1, <1>4 DEF ts

\* An entry that reads the stand-ins of its operands says the same.
LEMMA RewiredSays ==
  ASSUME NEW e, NEW n, Shaped(e, n), NEW val, NEW remap,
         \A s \in 1 .. n : val[remap[s]] = val[s],
         NEW before, NEW calls, Says(e, val, before, calls)
  PROVE  Says(Rewired(e, remap), val, before, calls)
<1> DEFINE r == Rewired(e, remap)
<1>1. /\ r.op = e.op /\ r.outs = e.outs /\ r.trip = e.trip /\ r.move = e.move
      /\ r.payload = e.payload /\ Len(r.ins) = Len(e.ins)
      /\ \A k \in 1 .. Len(e.ins) : r.ins[k] = remap[e.ins[k]]
  BY RewiredIs
<1>2. \A k \in 1 .. Len(e.ins) : e.ins[k] \in 1 .. n
  BY ElementOf DEF Shaped
<1> HIDE DEF r
<1>3. \A k \in 1 .. Len(e.ins) : val[r.ins[k]] = val[e.ins[k]]
  BY <1>1, <1>2
<1>4. TermsOf(r, val) = TermsOf(e, val)
  BY <1>1, <1>3 DEF TermsOf
<1>5. \A ts, j : Term(r, ts, Len(before), j) = Term(e, ts, Len(before), j)
  BY <1>1 DEF Term
<1>6. e.op = "print" => val[r.ins[1]] = val[e.ins[1]]
  <2>1. e.op = "print" => Len(e.ins) = 1
    BY DEF Shaped, Operands
  <2>2. 1 \in 1 .. 1
    OBVIOUS
  <2> QED  BY <1>3, <2>1, <2>2
<1>7. Says(r, val, before, calls)
  BY <1>1, <1>4, <1>5, <1>6 DEF Says
<1> QED  BY <1>7 DEF r

(* A slot and its stand-in hold the same, and what was seen to be made of  *)
(* a key holds what the key tells.                                         *)
Faithful(acc, val, n) ==
  /\ \A s \in 1 .. n : val[acc.remap[s]] = val[s]
  /\ \A k \in DOMAIN acc.seen : val[acc.seen[k]] = KeyTerm(k, val)

LEMMA MergeOneFaithful ==
  ASSUME NEW n \in Nat, NEW acc \in Merging(n), NEW val, Faithful(acc, val, n),
         NEW e, Shaped(e, n), NEW before, NEW calls, Says(e, val, before, calls)
  PROVE  Faithful(MergeOne(acc, e), val, n)
<1> DEFINE r == Rewired(e, acc.remap)
           key == Key(r)
           o == r.outs[1]
           next == MergeOne(acc, e)
<1>1. acc.remap \in [1 .. n -> 1 .. n] /\ acc = [remap |-> acc.remap, seen |-> acc.seen]
  BY DEF Merging
<1>2. \A s \in 1 .. n : val[acc.remap[s]] = val[s]
  BY DEF Faithful
<1>0. \A k \in DOMAIN acc.seen : val[acc.seen[k]] = KeyTerm(k, val)
  BY DEF Faithful
<1>3. Says(r, val, before, calls)
  BY <1>2, RewiredSays
<1>4. Shaped(r, n)
  BY <1>1, RewiredShaped
<1>6. Eligible(r) => val[o] = KeyTerm(key, val)
  <2> SUFFICES ASSUME Eligible(r) PROVE val[o] = KeyTerm(key, val)
    OBVIOUS
  <2>1. Term(r, TermsOf(r, val), Len(before), 1) = KeyTerm(key, val)
    BY <1>4, EligibleTerm
  <2> HIDE DEF r, key
  <2>2. 1 \in 1 .. Len(r.outs)
    <3>1. Len(r.outs) = 1 \/ Len(r.outs) = 2
      BY <1>4 DEF Shaped, Results
    <3>2. 1 \in 1 .. 1 /\ 1 \in 1 .. 2
      OBVIOUS
    <3> QED  BY <3>1, <3>2
  <2>3. \A j \in 1 .. Len(r.outs) : val[r.outs[j]] = Term(r, TermsOf(r, val), Len(before), j)
    BY <1>3 DEF Says
  <2>4. val[r.outs[1]] = Term(r, TermsOf(r, val), Len(before), 1)
    BY <2>2, <2>3
  <2> QED  BY <2>1, <2>4
<1>7. o \in 1 .. n
  BY <1>4, ShapedFacts
<1>8. next = IF Twin(acc, r) THEN [acc EXCEPT !.remap[o] = acc.seen[key]]
             ELSE IF Eligible(r) THEN [acc EXCEPT !.seen = With(acc.seen, key, o)] ELSE acc
  BY DEF MergeOne
<1>9. Twin(acc, r) <=> Eligible(r) /\ key \in DOMAIN acc.seen
  BY DEF Twin
<1> HIDE DEF r, key, o, next
<1>10. CASE Twin(acc, r)
  <2>1. next = [acc EXCEPT !.remap = [acc.remap EXCEPT ![o] = acc.seen[key]]]
    BY <1>8, <1>10
  <2>2. next.seen = acc.seen /\ next.remap = [acc.remap EXCEPT ![o] = acc.seen[key]]
    BY <1>1, <2>1
  <2>3. next.remap[o] = acc.seen[key] /\ \A s \in 1 .. n : s # o => next.remap[s] = acc.remap[s]
    BY <1>1, <1>7, <2>2
  <2>4. val[acc.seen[key]] = val[o]
    BY <1>0, <1>6, <1>9, <1>10
  <2>5. \A s \in 1 .. n : val[next.remap[s]] = val[s]
    BY <1>2, <2>3, <2>4
  <2>6. \A k \in DOMAIN next.seen : val[next.seen[k]] = KeyTerm(k, val)
    BY <1>0, <2>2
  <2> QED  BY <2>5, <2>6 DEF Faithful, next
<1>11. CASE ~ Twin(acc, r) /\ Eligible(r)
  <2>1. next = [acc EXCEPT !.seen = With(acc.seen, key, o)]
    BY <1>8, <1>11
  <2>2. next.remap = acc.remap /\ next.seen = With(acc.seen, key, o)
    BY <1>1, <2>1
  <2>3. ASSUME NEW k \in DOMAIN next.seen
        PROVE  val[next.seen[k]] = KeyTerm(k, val)
    <3>1. CASE k = key
      BY <1>6, <1>11, <2>2, <3>1 DEF With
    <3>2. CASE k # key
      <4>1. k \in DOMAIN acc.seen /\ next.seen[k] = acc.seen[k]
        BY <2>2, <2>3, <3>2 DEF With
      <4> QED  BY <1>0, <4>1
    <3> QED  BY <3>1, <3>2
  <2>4. \A s \in 1 .. n : val[next.remap[s]] = val[s]
    BY <1>2, <2>2
  <2> QED  BY <2>3, <2>4 DEF Faithful, next
<1>12. CASE ~ Twin(acc, r) /\ ~ Eligible(r)
  BY <1>8, <1>12 DEF next
<1> QED  BY <1>10, <1>11, <1>12

\* Merging changes no slot's term and no host call.
LEMMA MergedTells ==
  ASSUME NEW es, NEW n, Sound(es, n), NEW val, NEW calls, Tells(es, val, calls)
  PROVE  /\ \E made : /\ Tells(Merged(es, n).kept, val, made)
                      /\ made[Len(Merged(es, n).kept)] = calls[Len(es)]
         /\ \A s \in 1 .. n : val[Merged(es, n).remap[s]] = val[s]
<1> DEFINE N == Len(es)
           after == MergeAlong(es, n)
           rewired == [i \in DOMAIN es |-> Rewired(es[i], after[i - 1].remap)]
           keep == {i \in DOMAIN es : ~ Twin(after[i - 1], rewired[i])}
<1>1. N \in Nat /\ n \in Nat /\ DOMAIN es = 1 .. N /\ es \in Seq(ToSet(es))
      /\ \A i \in 1 .. N : Shaped(es[i], n)
  BY OfItsOwn DEF Sound
<1>2. /\ after \in [0 .. N -> Merging(n)]
      /\ after[0] = [remap |-> [s \in 1 .. n |-> s], seen |-> <<>>]
      /\ \A i \in 1 .. N : after[i] = MergeOne(after[i - 1], es[i])
  BY MergeAlongIs DEF Merges
<1>3. Merged(es, n).kept = Gathered(rewired, keep) /\ Merged(es, n).remap = after[N].remap
  BY DEF Merged
<1> HIDE DEF after
<1>4. Len(rewired) = N /\ rewired \in Seq(ToSet(rewired))
  <2>1. rewired \in [1 .. N -> ToSet(rewired)]
    BY <1>1 DEF ToSet
  <2>2. rewired \in Seq(ToSet(rewired)) /\ DOMAIN rewired = 1 .. N
    BY <1>1, <2>1
  <2> HIDE DEF rewired
  <2> QED  BY <1>1, <2>2
<1>5. /\ \A i \in 1 .. N : rewired[i] = Rewired(es[i], after[i - 1].remap)
      /\ \A i \in 1 .. N : i \notin keep => Eligible(rewired[i])
  BY <1>1 DEF Twin
<1> HIDE DEF rewired, keep
<1> DEFINE T == {i \in 0 .. N : Faithful(after[i], val, n)}
<1>6. \A i \in 0 .. N : i \in T
  <2>1. 0 \in T
    <3>1. after[0].remap = [s \in 1 .. n |-> s] /\ DOMAIN after[0].seen = {}
      BY <1>2
    <3>2. Faithful(after[0], val, n)
      BY <3>1 DEF Faithful
    <3> QED  BY <1>1, <3>2
  <2>2. ASSUME NEW i \in 0 .. N - 1, i \in T
        PROVE  i + 1 \in T
    <3>1. i + 1 \in 1 .. N /\ i + 1 \in 0 .. N /\ (i + 1) - 1 = i /\ i \in 0 .. N
      BY <1>1
    <3>2. after[i] \in Merging(n) /\ after[i + 1] = MergeOne(after[i], es[i + 1])
      BY <1>2, <3>1
    <3>3. Shaped(es[i + 1], n) /\ Says(es[i + 1], val, calls[i], calls[i + 1]) /\ Faithful(after[i], val, n)
      BY <1>1, <2>2, <3>1 DEF Tells
    <3>4. Faithful(after[i + 1], val, n)
      BY <1>1, <3>2, <3>3, MergeOneFaithful
    <3> QED  BY <3>1, <3>4
  <2> HIDE DEF T, N
  <2> QED  BY <1>1, <2>1, <2>2, InductTo, Zenon
<1>7. ASSUME NEW d \in 1 .. N
      PROVE  /\ Says(rewired[d], val, calls[d - 1], calls[d])
             /\ rewired[d].op = "print" => d \in keep
  <2>1. d - 1 \in 0 .. N
    BY <1>1
  <2>2. \A s \in 1 .. n : val[after[d - 1].remap[s]] = val[s]
    BY <1>6, <2>1 DEF T, Faithful
  <2>3. Shaped(es[d], n) /\ Says(es[d], val, calls[d - 1], calls[d])
    BY <1>1 DEF Tells
  <2>4. Says(rewired[d], val, calls[d - 1], calls[d])
    <3> DEFINE m == after[d - 1].remap
    <3>1. \A s \in 1 .. n : val[m[s]] = val[s]
      BY <2>2
    <3>2. rewired[d] = Rewired(es[d], m)
      BY <1>5
    <3> HIDE DEF m
    <3>3. Says(Rewired(es[d], m), val, calls[d - 1], calls[d])
      BY <2>3, <3>1, RewiredSays
    <3> QED  BY <3>2, <3>3
  <2>5. rewired[d].op = "print" => d \in keep
    <3>1. d \notin keep => rewired[d].op # "print"
      BY <1>5 DEF Eligible, PurePassOp
    <3> QED  BY <3>1
  <2> QED  BY <2>4, <2>5
<1>8. Tells(rewired, val, calls) /\ KeepsCalls(rewired, keep)
  BY <1>4, <1>7 DEF Tells, KeepsCalls
<1>9. \E made : Tells(Gathered(rewired, keep), val, made) /\ made[Len(Gathered(rewired, keep))] = calls[N]
  <2> DEFINE r == Gathered(rewired, keep)
  <2>1. r = Gathered(rewired, keep)
    OBVIOUS
  <2> HIDE DEF r
  <2>2. \E made : Tells(r, val, made) /\ made[Len(r)] = calls[Len(rewired)]
    BY <1>4, <1>8, <2>1, GatherTells
  <2> QED  BY <1>4, <2>1, <2>2
<1>10. \A s \in 1 .. n : val[after[N].remap[s]] = val[s]
  BY <1>1, <1>6 DEF T, Faithful
<1> QED  BY <1>3, <1>9, <1>10

\* Nor does dropping what nothing reads.
LEMMA NeededTells ==
  ASSUME NEW es, es \in Seq(ToSet(es)), NEW os, NEW val, NEW calls, Tells(es, val, calls)
  PROVE  \E made : /\ Tells(Needed(es, os), val, made)
                   /\ made[Len(Needed(es, os))] = calls[Len(es)]
<1> DEFINE keep == {i \in DOMAIN es : Used(es[i], LiveBefore(es, os)[Len(es) - i])}
           r == Needed(es, os)
<1>1. r = Gathered(es, keep)
  BY DEF Needed
<1>2. KeepsCalls(es, keep)
  BY OfItsOwn DEF KeepsCalls, Used, PurePassOp
<1> HIDE DEF keep, r
<1>3. \E made : Tells(r, val, made) /\ made[Len(r)] = calls[Len(es)]
  BY <1>1, <1>2, GatherTells
<1> QED  BY <1>3 DEF r

---------------------------------------------------------------------------
(* Folding.  The argument-independent entries, run on their own.           *)
Evaluates(after, es, n) ==
  /\ after[0] = [s \in 1 .. n |-> NoArray]
  /\ \A i \in 1 .. Len(es) :
       after[i] = IF i \in ConstEntries(es) THEN Written(es[i], after[i - 1], 0) ELSE after[i - 1]
  /\ Evaluated(es, n) = after[Len(es)]

LEMMA EvaluatedIs ==
  ASSUME NEW es, Len(es) \in Nat, NEW n
  PROVE  \E after : Evaluates(after, es, n)
<1> DEFINE N == Len(es)
           consts == ConstEntries(es)
           none == [s \in 1 .. n |-> NoArray]
           Next1(x, i) == IF i \in consts THEN Written(es[i], x, 0) ELSE x
           Carries(g, m) == g = [t \in 0 .. m |-> IF t = 0 THEN none ELSE Next1(g[t - 1], t)]
           after == CHOOSE g : Carries(g, N)
           T == {m \in Nat : \E g : Carries(g, m)}
<1>1. Evaluated(es, n) = after[N]
  BY DEF Evaluated
<1> HIDE DEF consts, none
<1>2. 0 \in T
  <2>1. Carries([t \in 0 .. 0 |-> none], 0)
    OBVIOUS
  <2> QED  BY <2>1
<1> HIDE DEF Next1
<1>3. ASSUME NEW m \in Nat, m \in T
      PROVE  m + 1 \in T
  <2>1. PICK g : Carries(g, m)
    BY <1>3
  <2> DEFINE h == [t \in 0 .. m + 1 |-> IF t = m + 1 THEN Next1(g[m], m + 1) ELSE g[t]]
  <2>2. ASSUME NEW t \in 0 .. m + 1
        PROVE  h[t] = IF t = 0 THEN none ELSE Next1(h[t - 1], t)
    <3>1. CASE t = 0
      <4>1. t # m + 1 /\ 0 \in 0 .. m
        BY <3>1
      <4>2. g[0] = none
        BY <2>1, <4>1
      <4> QED  BY <3>1, <4>1, <4>2
    <3>2. CASE t = m + 1
      <4>1. t # 0 /\ t - 1 = m /\ m \in 0 .. m + 1 /\ m # m + 1
        BY <3>2
      <4>2. h[t] = Next1(g[m], t) /\ h[m] = g[m]
        BY <3>2, <4>1
      <4> QED  BY <4>1, <4>2
    <3>3. CASE t # 0 /\ t # m + 1
      <4>1. t \in 0 .. m /\ t - 1 \in 0 .. m + 1 /\ t - 1 # m + 1
        BY <3>3
      <4>2. g[t] = Next1(g[t - 1], t)
        BY <2>1, <3>3, <4>1
      <4>3. h[t] = g[t] /\ h[t - 1] = g[t - 1]
        BY <3>3, <4>1
      <4> QED  BY <3>3, <4>2, <4>3
    <3> QED  BY <3>1, <3>2, <3>3
  <2>3. Carries(h, m + 1)
    <3>1. h = [t \in 0 .. m + 1 |-> h[t]]
      OBVIOUS
    <3> HIDE DEF h
    <3> QED  BY <2>2, <3>1
  <2> HIDE DEF h, Carries
  <2> QED  BY <2>3
<1> HIDE DEF T
<1>4. N \in T
  BY <1>2, <1>3, Induct, Zenon
<1>5. Carries(after, N)
  <2> HIDE DEF Carries
  <2> QED  BY <1>4 DEF T
<1> HIDE DEF after
<1>6. after[0] = none
  <2>1. 0 \in 0 .. N
    OBVIOUS
  <2> QED  BY <1>5, <2>1
<1>7. ASSUME NEW i \in 1 .. N
      PROVE  after[i] = Next1(after[i - 1], i)
  <2>1. i \in 0 .. N /\ i # 0
    OBVIOUS
  <2> QED  BY <1>5, <2>1
<1>8. Evaluates(after, es, n)
  BY <1>1, <1>6, <1>7 DEF Evaluates, none, Next1, consts
<1> QED  BY <1>8

(* The slots that hold a constant, entry by entry. *)
Knows(known, es) ==
  /\ known[0] = {}
  /\ \A i \in 1 .. Len(es) :
       known[i] = IF IsConst(es[i], known[i - 1]) THEN known[i - 1] \cup ToSet(es[i].outs)
                  ELSE known[i - 1]

LEMMA ConstSlotsAre ==
  ASSUME NEW es, NEW n, Sound(es, n)
  PROVE  Knows(ConstSlots(es), es)
<1> DEFINE N == Len(es)
           V == SUBSET (1 .. n)
           Next1(x, i) == IF IsConst(es[i], x) THEN x \cup ToSet(es[i].outs) ELSE x
           step == [p \in V \X (1 .. N) |-> Next1(p[1], p[2])]
           all == CHOOSE f : f = [k \in 0 .. N |-> IF k = 0 THEN {} ELSE Next1(f[k - 1], k)]
<1>1. N \in Nat /\ n \in Nat /\ \A i \in 1 .. N : Shaped(es[i], n)
  BY OfItsOwn DEF Sound
<1>2. ConstSlots(es) = all
  BY DEF ConstSlots
<1>3. {} \in V
  OBVIOUS
<1>4. \A x \in V, k \in 1 .. N : Next1(x, k) \in V
  <2> SUFFICES ASSUME NEW x \in V, NEW k \in 1 .. N
               PROVE  Next1(x, k) \in V
    OBVIOUS
  <2>1. ToSet(es[k].outs) \subseteq 1 .. n
    BY <1>1, ShapedFacts
  <2> QED  BY <2>1
<1> HIDE DEF Next1, V
<1>5. step \in [V \X (1 .. N) -> V]
  BY <1>4
<1>6. PICK f \in [0 .. N -> V] : Chained(f, {}, step, N)
  <2> HIDE DEF step, N
  <2> QED  BY <1>1, <1>3, <1>5, Chain
<1>7. /\ f[0] = {}
      /\ \A i \in 1 .. N : f[i] = Next1(f[i - 1], i)
  <2>1. ASSUME NEW i \in 1 .. N
        PROVE  f[i] = Next1(f[i - 1], i)
    <3>1. f[i - 1] \in V
      BY <1>1
    <3>2. <<f[i - 1], i>> \in V \X (1 .. N)
      BY <3>1
    <3> QED  BY <1>6, <3>1, <3>2 DEF Chained
  <2> HIDE DEF step
  <2> QED  BY <1>6, <2>1 DEF Chained
<1>8. f = [i \in 0 .. N |-> IF i = 0 THEN {} ELSE Next1(f[i - 1], i)]
  <2>1. DOMAIN f = 0 .. N /\ f = [i \in 0 .. N |-> f[i]]
    OBVIOUS
  <2>2. \A i \in 0 .. N : i # 0 => i \in 1 .. N
    BY <1>1
  <2> QED  BY <1>7, <2>1, <2>2
<1>9. all = [i \in 0 .. N |-> IF i = 0 THEN {} ELSE Next1(all[i - 1], i)]
  BY <1>8
<1> HIDE DEF all
<1>10. all[0] = {} /\ \A k \in 1 .. N : all[k] = Next1(all[k - 1], k)
  <2>1. 0 \in 0 .. N /\ \A k \in 1 .. N : k \in 0 .. N /\ k # 0
    BY <1>1
  <2> QED  BY <1>9, <2>1
<1> QED  BY <1>2, <1>10 DEF Next1, Knows

\* An entry over arrays that bear their slots' terms writes arrays that do.
Ready(e, en, val) == e.op = "const" \/ \A k \in 1 .. Len(e.ins) : Bears(en[e.ins[k]], val[e.ins[k]])
(* c numbers the call an entry makes, if it makes one. *)
Numbers(c, e, before) == e.op = "print" => c = Len(before)
Writes(w, e, en, val, n) ==
  \A s \in 1 .. n : /\ s \in ToSet(e.outs) => Bears(w[s], val[s])
                    /\ s \notin ToSet(e.outs) => w[s] = en[s]
Spans(en, n) == DOMAIN en = 1 .. n
LEMMA WrittenBears ==
  ASSUME NEW e, NEW n, Shaped(e, n), NEW en, Spans(en, n), NEW val, Ready(e, en, val),
         NEW before, NEW calls, Says(e, val, before, calls), NEW c, Numbers(c, e, before)
  PROVE  Writes(Written(e, en, c), e, en, val, n)
<1> DEFINE w == Written(e, en, c)
<1> SUFFICES ASSUME NEW s \in 1 .. n
             PROVE  /\ s \in ToSet(e.outs) => Bears(w[s], val[s])
                    /\ s \notin ToSet(e.outs) => w[s] = en[s]
  BY DEF Writes
<1> DEFINE vals == [i \in DOMAIN e.ins |-> en[e.ins[i]]]
           new == Compute(e, vals, c)
           ts == TermsOf(e, val)
<1>1. w[s] = IF \E j \in DOMAIN e.outs : e.outs[j] = s
             THEN new[CHOOSE j \in DOMAIN e.outs : e.outs[j] = s] ELSE en[s]
  BY DEF Written, Spans
<1> HIDE DEF w
<1>2. DOMAIN e.outs = 1 .. Len(e.outs) /\ ToSet(e.outs) = {e.outs[j] : j \in 1 .. Len(e.outs)}
  BY OfItsOwn DEF Shaped
<1>3. /\ Takes(e, Len(e.ins)) /\ Len(e.ins) \in Nat /\ DOMAIN e.ins = 1 .. Len(e.ins)
  BY ShapedTakes
<1>4. /\ vals \in [1 .. Len(e.ins) -> ToSet(vals)]
      /\ \A k \in 1 .. Len(e.ins) : vals[k] = en[e.ins[k]] /\ ts[k] = val[e.ins[k]]
  BY <1>3 DEF ToSet, TermsOf
<1> HIDE DEF vals, new, ts
<1>5. ASSUME NEW j \in 1 .. Len(e.outs)
      PROVE  Bears(new[j], val[e.outs[j]])
  <2>1. val[e.outs[j]] = Term(e, ts, Len(before), j)
    BY DEF Says, ts
  <2>2. Term(e, ts, Len(before), j) = Term(e, ts, c, j)
    <3>1. CASE e.op = "print"
      BY <3>1 DEF Numbers
    <3>2. CASE e.op # "print"
      BY <3>2 DEF Term
    <3> QED  BY <3>1, <3>2
  <2>3. j = 1 \/ (j = 2 /\ e.op = "loop")
    <3>1. Len(e.outs) = 1 \/ (Len(e.outs) = 2 /\ e.op = "loop")
      BY DEF Shaped, Results
    <3>2. Len(e.outs) = 1 => j = 1
      OBVIOUS
    <3>3. Len(e.outs) = 2 => j = 1 \/ j = 2
      OBVIOUS
    <3> QED  BY <3>1, <3>2, <3>3
  <2>4. Bears(new[j], Term(e, ts, c, j))
    <3>1. CASE e.op = "const"
      <4>1. j = 1
        BY <2>3, <3>1
      <4>2. new = <<[term |-> e.payload, obj |-> <<"const", e.outs[1]>>, buf |-> <<"const">>]>>
        BY <3>1 DEF new, Compute
      <4>3. Term(e, ts, c, j) = e.payload
        BY <3>1 DEF Term
      <4> QED  BY <4>1, <4>2, <4>3 DEF Bears, IsArray
    <3>2. CASE e.op # "const"
      <4>1. \A k \in 1 .. Len(e.ins) : Bears(vals[k], ts[k])
        <5>1. \A k \in 1 .. Len(e.ins) : Bears(en[e.ins[k]], val[e.ins[k]])
          BY <3>2 DEF Ready
        <5>2. \A k \in 1 .. Len(e.ins) : vals[k] = en[e.ins[k]] /\ ts[k] = val[e.ins[k]]
          BY <1>4
        <5> QED  BY <5>1, <5>2
      <4>2. Bears(Compute(e, vals, c)[j], Term(e, ts, c, j))
        BY <1>3, <1>4, <2>3, <4>1, ResultTerms
      <4> QED  BY <4>2 DEF new
    <3> QED  BY <3>1, <3>2
  <2> QED  BY <2>1, <2>2, <2>4
<1>6. CASE s \in ToSet(e.outs)
  <2> DEFINE j == CHOOSE j \in DOMAIN e.outs : e.outs[j] = s
  <2>1. j \in 1 .. Len(e.outs) /\ e.outs[j] = s /\ w[s] = new[j]
    BY <1>1, <1>2, <1>6
  <2> QED  BY <1>5, <1>6, <2>1
<1>7. CASE s \notin ToSet(e.outs)
  BY <1>1, <1>2, <1>7
<1> QED  BY <1>6, <1>7

(* The slots known so far hold their terms in the folding environment. *)
Folding(known, en, val, n) ==
  known \subseteq 1 .. n /\ DOMAIN en = 1 .. n /\ \A s \in known : Bears(en[s], val[s])

LEMMA FoldsOne ==
  ASSUME NEW e, NEW n, Shaped(e, n), NEW known, NEW en, NEW val, Folding(known, en, val, n),
         IsConst(e, known), NEW before, NEW calls, Says(e, val, before, calls),
         NEW w, w = Written(e, en, 0)
  PROVE  Folding(known \cup ToSet(e.outs), w, val, n)
<1>1. e.op # "print" /\ ToSet(e.outs) \subseteq 1 .. n
  BY ShapedFacts DEF IsConst, FoldableOp, PurePassOp
<1>2. Ready(e, en, val)
  <2>1. CASE e.op = "const"
    BY <2>1 DEF Ready
  <2>2. CASE ToSet(e.ins) \subseteq known
    <3>1. ToSet(e.ins) = {e.ins[k] : k \in 1 .. Len(e.ins)}
      BY OfItsOwn DEF Shaped
    <3> QED  BY <2>2, <3>1 DEF Ready, Folding
  <2> QED  BY <2>1, <2>2 DEF IsConst
<1>3. DOMAIN w = 1 .. n /\ DOMAIN en = 1 .. n
  BY DEF Written, Folding
<1>4. Writes(w, e, en, val, n)
  <2>1. Numbers(0, e, before) /\ Spans(en, n)
    BY <1>1, <1>3 DEF Numbers, Spans
  <2> QED  BY <1>2, <2>1, WrittenBears
<1>5. known \subseteq 1 .. n /\ \A s \in known : Bears(en[s], val[s])
  BY DEF Folding
<1>6. \A s \in known \cup ToSet(e.outs) : Bears(w[s], val[s])
  BY <1>1, <1>4, <1>5 DEF Writes
<1> QED  BY <1>1, <1>3, <1>5, <1>6 DEF Folding

LEMMA FoldingHolds ==
  ASSUME NEW es, NEW n, Sound(es, n), NEW val, NEW calls, Tells(es, val, calls)
  PROVE  \A i \in ConstEntries(es) : Bears(Evaluated(es, n)[es[i].outs[1]], val[es[i].outs[1]])
<1> DEFINE N == Len(es)
           known == ConstSlots(es)
<1>1. N \in Nat /\ DOMAIN es = 1 .. N /\ \A i \in 1 .. N : Shaped(es[i], n)
  BY OfItsOwn DEF Sound
<1>2. PICK after : Evaluates(after, es, n)
  BY <1>1, EvaluatedIs
<1>3. Knows(known, es)
  BY ConstSlotsAre
<1>4. \A i \in 1 .. N : i \in ConstEntries(es) <=> IsConst(es[i], known[i - 1])
  BY <1>1 DEF ConstEntries
<1> HIDE DEF known
<1> DEFINE Past(i) == \A d \in 1 .. i : d \in ConstEntries(es) => es[d].outs[1] \in known[i]
           T == {i \in 0 .. N : Folding(known[i], after[i], val, n) /\ Past(i)}
<1>5. 0 \in T
  <2>1. known[0] = {} /\ after[0] = [s \in 1 .. n |-> NoArray] /\ 0 \in 0 .. N
    BY <1>1, <1>2, <1>3 DEF Evaluates, Knows
  <2>2. Folding(known[0], after[0], val, n)
    BY <2>1 DEF Folding
  <2>3. Past(0)
    OBVIOUS
  <2> QED  BY <2>1, <2>2, <2>3
<1>6. ASSUME NEW i \in 0 .. N - 1, i \in T
      PROVE  i + 1 \in T
  <2>1. i + 1 \in 1 .. N /\ (i + 1) - 1 = i /\ i + 1 \in 0 .. N
    BY <1>1
  <2>2. Folding(known[i], after[i], val, n) /\ Past(i)
    BY <1>6
  <2> DEFINE e == es[i + 1]
  <2>3. Shaped(e, n) /\ Says(e, val, calls[i], calls[i + 1])
    BY <1>1, <2>1 DEF Tells
  <2>4. e.outs[1] \in ToSet(e.outs)
    BY <2>3, ShapedFacts
  <2>5. \A d \in 1 .. i + 1 : d \in 1 .. i \/ d = i + 1
    BY <2>1
  <2>6. CASE i + 1 \in ConstEntries(es)
    <3>1. /\ IsConst(e, known[i]) /\ known[i + 1] = known[i] \cup ToSet(e.outs)
          /\ after[i + 1] = Written(e, after[i], 0)
      BY <1>2, <1>3, <1>4, <2>1, <2>6 DEF Evaluates, Knows
    <3> HIDE DEF e
    <3>2. Folding(known[i + 1], after[i + 1], val, n)
      BY <2>2, <2>3, <3>1, FoldsOne
    <3>3. Past(i + 1)
      BY <2>2, <2>4, <2>5, <3>1 DEF e
    <3> QED  BY <2>1, <3>2, <3>3
  <2>7. CASE i + 1 \notin ConstEntries(es)
    <3>1. known[i + 1] = known[i] /\ after[i + 1] = after[i]
      BY <1>2, <1>3, <1>4, <2>1, <2>7 DEF Evaluates, Knows
    <3>2. Past(i + 1)
      BY <2>2, <2>5, <2>7, <3>1
    <3> QED  BY <2>1, <2>2, <3>1, <3>2
  <2> QED  BY <2>6, <2>7
<1> HIDE DEF T
<1>7. \A i \in 0 .. N : i \in T
  BY <1>1, <1>5, <1>6, InductTo, Zenon
<1>8. Folding(known[N], after[N], val, n) /\ Past(N)
  <2>1. N \in 0 .. N
    BY <1>1
  <2> QED  BY <1>7, <2>1 DEF T
<1>9. Evaluated(es, n) = after[N]
  BY <1>2 DEF Evaluates
<1>10. ConstEntries(es) \subseteq 1 .. N
  BY <1>1 DEF ConstEntries
<1> QED  BY <1>8, <1>9, <1>10 DEF Folding

\* Folding changes no slot's term and no host call.
LEMMA FoldedTells ==
  ASSUME NEW es, NEW n, Sound(es, n), n = frame.n, NEW os, NEW val, NEW calls, Tells(es, val, calls)
  PROVE  \E made : /\ Tells(Folded(es, os).entries, val, made)
                   /\ made[Len(Folded(es, os).entries)] = calls[Len(es)]
<1> DEFINE N == Len(es)
           consts == ConstEntries(es)
           class == Classified(es, os, consts)
           kept == {i \in DOMAIN es : i \notin consts \/ class[i] = "keep"}
           read == ToSet(os) \cup UNION {ToSet(es[i].ins) : i \in kept}
           needed == {i \in DOMAIN es \ kept : class[i] = "fold" /\ ToSet(es[i].outs) \cap read # {}}
           values == Evaluated(es, frame.n)
           payload(e) == ConstEntry(e.outs, values[e.outs[1]].term)
           fes == [i \in DOMAIN es |-> IF i \in kept THEN es[i] ELSE payload(es[i])]
           keep == kept \cup needed
<1>1. Folded(es, os).entries = Gathered(fes, keep)
  BY DEF Folded
<1>2. N \in Nat /\ n \in Nat /\ DOMAIN es = 1 .. N /\ \A i \in 1 .. N : Shaped(es[i], n)
  BY OfItsOwn DEF Sound
<1>3. \A i \in 1 .. N : i \in consts => es[i].op \notin {"loop", "print"}
  BY DEF ConstEntries, IsConst, FoldableOp, PurePassOp
<1>4. \A i \in consts : Bears(values[es[i].outs[1]], val[es[i].outs[1]])
  BY FoldingHolds
<1> HIDE DEF consts, class, values
<1>5. \A i \in 1 .. N : i \notin kept => i \in consts
  BY <1>2
<1>6. Len(fes) = N /\ fes \in Seq(ToSet(fes))
  <2>1. DOMAIN fes = 1 .. N
    BY <1>2
  <2> HIDE DEF payload
  <2>2. fes \in [1 .. N -> ToSet(fes)]
    BY <1>2 DEF ToSet
  <2> HIDE DEF fes
  <2> QED  BY <1>2, <2>2, FromInterval
<1>7. \A i \in 1 .. N : fes[i] = IF i \in kept THEN es[i] ELSE payload(es[i])
  BY <1>2
<1>8. \A i \in 1 .. N : i \in kept => i \in keep
  OBVIOUS
<1> HIDE DEF fes, kept, needed, keep, read
<1>9. ASSUME NEW i \in 1 .. N
      PROVE  Says(fes[i], val, calls[i - 1], calls[i]) /\ (fes[i].op = "print" => i \in keep)
  <2>1. Says(es[i], val, calls[i - 1], calls[i])
    BY DEF Tells
  <2>2. CASE i \in kept
    BY <1>7, <1>8, <2>1, <2>2
  <2>3. CASE i \notin kept
    <3> DEFINE o == es[i].outs
               p == values[o[1]].term
               f == ConstEntry(o, p)
    <3>1. fes[i] = f
      BY <1>7, <2>3
    <3>2. /\ f.op = "const" /\ f.outs = o /\ f.payload = p
      BY DEF ConstEntry, Entry
    <3>3. i \in consts /\ es[i].op \notin {"loop", "print"}
      BY <1>3, <1>5, <2>3
    <3>4. p = val[o[1]]
      BY <1>4, <3>3 DEF Bears
    <3>5. calls[i] = calls[i - 1]
      BY <2>1, <3>3 DEF Says
    <3>6. Len(o) = 1
      BY <1>2, <3>3 DEF Shaped, Results
    <3> HIDE DEF f, o, p
    <3>7. \A j \in 1 .. Len(o) : val[o[j]] = Term(f, TermsOf(f, val), Len(calls[i - 1]), j)
      BY <3>2, <3>4, <3>6 DEF Term
    <3> QED  BY <3>1, <3>2, <3>5, <3>7 DEF Says
  <2> QED  BY <2>2, <2>3
<1>10. Tells(fes, val, calls) /\ KeepsCalls(fes, keep)
  BY <1>6, <1>9 DEF Tells, KeepsCalls
<1> DEFINE r == Gathered(fes, keep)
<1>11. r = Gathered(fes, keep)
  OBVIOUS
<1> HIDE DEF r
<1>12. \E made : Tells(r, val, made) /\ made[Len(r)] = calls[Len(fes)]
  BY <1>6, <1>10, <1>11, GatherTells
<1> QED  BY <1>1, <1>6, <1>11, <1>12

---------------------------------------------------------------------------
(* The source program, op by op.                                           *)
Begun == [val |-> [v \in {<<0, a>> : a \in Args} |-> Fresh(<<"arg", v[2]>>, v)], calls |-> <<>>]
Means(after, ops) ==
  /\ after[0] = Begun
  /\ \A i \in 1 .. Len(ops) : after[i] = Visited(after[i - 1], ops[i], i)
  /\ MeaningOf(ops) = after[Len(ops)]

LEMMA MeaningIs ==
  ASSUME NEW ops, Len(ops) \in Nat
  PROVE  \E after : Means(after, ops)
<1> DEFINE N == Len(ops)
           Next1(x, i) == Visited(x, ops[i], i)
           Carries(g, m) == g = [t \in 0 .. m |-> IF t = 0 THEN Begun ELSE Next1(g[t - 1], t)]
           after == CHOOSE g : Carries(g, N)
           T == {m \in Nat : \E g : Carries(g, m)}
<1>1. MeaningOf(ops) = after[N]
  BY DEF MeaningOf, Begun
<1>2. 0 \in T
  <2>1. Carries([t \in 0 .. 0 |-> Begun], 0)
    OBVIOUS
  <2> QED  BY <2>1
<1> HIDE DEF Next1
<1>3. ASSUME NEW m \in Nat, m \in T
      PROVE  m + 1 \in T
  <2>1. PICK g : Carries(g, m)
    BY <1>3
  <2> DEFINE h == [t \in 0 .. m + 1 |-> IF t = m + 1 THEN Next1(g[m], m + 1) ELSE g[t]]
  <2>2. ASSUME NEW t \in 0 .. m + 1
        PROVE  h[t] = IF t = 0 THEN Begun ELSE Next1(h[t - 1], t)
    <3>1. CASE t = 0
      <4>1. t # m + 1 /\ 0 \in 0 .. m
        BY <3>1
      <4>2. g[0] = Begun
        BY <2>1, <4>1
      <4> QED  BY <3>1, <4>1, <4>2
    <3>2. CASE t = m + 1
      <4>1. t # 0 /\ t - 1 = m /\ m \in 0 .. m + 1 /\ m # m + 1
        BY <3>2
      <4>2. h[t] = Next1(g[m], t) /\ h[m] = g[m]
        BY <3>2, <4>1
      <4> QED  BY <4>1, <4>2
    <3>3. CASE t # 0 /\ t # m + 1
      <4>1. t \in 0 .. m /\ t - 1 \in 0 .. m + 1 /\ t - 1 # m + 1
        BY <3>3
      <4>2. g[t] = Next1(g[t - 1], t)
        BY <2>1, <3>3, <4>1
      <4>3. h[t] = g[t] /\ h[t - 1] = g[t - 1]
        BY <3>3, <4>1
      <4> QED  BY <3>3, <4>2, <4>3
    <3> QED  BY <3>1, <3>2, <3>3
  <2>3. Carries(h, m + 1)
    <3>1. h = [t \in 0 .. m + 1 |-> h[t]]
      OBVIOUS
    <3> HIDE DEF h
    <3> QED  BY <2>2, <3>1
  <2> HIDE DEF h, Carries
  <2> QED  BY <2>3
<1> HIDE DEF T
<1>4. N \in T
  BY <1>2, <1>3, Induct, Zenon
<1>5. Carries(after, N)
  <2> HIDE DEF Carries
  <2> QED  BY <1>4 DEF T
<1> HIDE DEF after
<1>6. after[0] = Begun
  <2>1. 0 \in 0 .. N
    OBVIOUS
  <2> QED  BY <1>5, <2>1
<1>7. ASSUME NEW i \in 1 .. N
      PROVE  after[i] = Next1(after[i - 1], i)
  <2>1. i \in 0 .. N /\ i # 0
    OBVIOUS
  <2> QED  BY <1>5, <2>1
<1>8. Means(after, ops)
  BY <1>1, <1>6, <1>7 DEF Means, Next1
<1> QED  BY <1>8

\* An op more is visited last.
LEMMA MeaningNext ==
  ASSUME NEW V, NEW ops \in Seq(V), NEW op \in V
  PROVE  /\ MeaningOf(Append(ops, op)) = Visited(MeaningOf(ops), op, Len(ops) + 1)
         /\ MeaningOf(<<>>) = Begun
<1> DEFINE N == Len(ops)
           q == Append(ops, op)
<1>1. N \in Nat /\ Len(q) = N + 1 /\ q[N + 1] = op /\ \A i \in 1 .. N : q[i] = ops[i]
  <2>1. N \in Nat /\ Len(q) = N + 1 /\ q[N + 1] = op
    OBVIOUS
  <2>2. \A i \in 1 .. Len(ops) : q[i] = ops[i]
    OBVIOUS
  <2> QED  BY <2>1, <2>2
<1>2. PICK a : Means(a, ops)
  BY <1>1, MeaningIs
<1>3. PICK b : Means(b, q)
  <2>1. Len(q) \in Nat
    BY <1>1
  <2> HIDE DEF q
  <2> QED  BY <2>1, MeaningIs
<1> HIDE DEF q
<1> DEFINE T == {i \in 0 .. N : a[i] = b[i]}
<1>4. 0 \in T
  BY <1>1, <1>2, <1>3 DEF Means
<1>5. ASSUME NEW i \in 0 .. N - 1, i \in T
      PROVE  i + 1 \in T
  <2>1. i + 1 \in 1 .. N /\ (i + 1) - 1 = i /\ i + 1 \in 1 .. N + 1 /\ i + 1 \in 0 .. N
    BY <1>1
  <2> QED  BY <1>1, <1>2, <1>3, <1>5, <2>1 DEF Means
<1> HIDE DEF T
<1>6. \A i \in 0 .. N : i \in T
  BY <1>1, <1>4, <1>5, InductTo, Zenon
<1>7. a[N] = b[N]
  <2>1. N \in 0 .. N
    BY <1>1
  <2> QED  BY <1>6, <2>1 DEF T
<1>8. b[N + 1] = Visited(b[N], op, N + 1)
  <2>1. N + 1 \in 1 .. N + 1 /\ (N + 1) - 1 = N
    BY <1>1
  <2> QED  BY <1>1, <1>3, <2>1 DEF Means
<1>9. MeaningOf(ops) = a[N] /\ MeaningOf(q) = b[N + 1]
  BY <1>1, <1>2, <1>3 DEF Means
<1>10. MeaningOf(<<>>) = Begun
  <2>1. Len(<<>>) = 0
    OBVIOUS
  <2>2. PICK c : Means(c, <<>>)
    BY <2>1, MeaningIs
  <2> QED  BY <2>1, <2>2 DEF Means
<1> QED  BY <1>7, <1>8, <1>9, <1>10 DEF q

---------------------------------------------------------------------------
(* Lowering.  An entry more: its slots are new, and so is its call.        *)
Grown(es, n, val, calls, e, nval, ncalls) ==
  /\ Tells(Append(es, e), nval, ncalls)
  /\ ncalls[Len(es) + 1] = IF e.op = "print" THEN Append(calls[Len(es)], val[e.ins[1]]) ELSE calls[Len(es)]
  /\ \A s \in 1 .. n : nval[s] = val[s]
  /\ \A j \in 1 .. Len(e.outs) : nval[n + j] = Term(e, TermsOf(e, val), Len(calls[Len(es)]), j)
(* Where an appended entry writes and reads. *)
Follows(e, n, w) ==
  /\ w \in 1 .. 2 /\ Shaped(e, n + w) /\ Len(e.outs) = w
  /\ \A j \in 1 .. w : e.outs[j] = n + j
  /\ \A k \in 1 .. Len(e.ins) : e.ins[k] \in 1 .. n

LEMMA SaysAlike ==
  ASSUME NEW e, NEW n, Shaped(e, n), NEW val, NEW nval, \A s \in 1 .. n : nval[s] = val[s],
         NEW before, NEW after, Says(e, val, before, after)
  PROVE  Says(e, nval, before, after)
<1>1. /\ \A k \in 1 .. Len(e.ins) : e.ins[k] \in 1 .. n
      /\ \A j \in 1 .. Len(e.outs) : e.outs[j] \in 1 .. n
  BY ElementOf DEF Shaped
<1>2. TermsOf(e, nval) = TermsOf(e, val)
  BY <1>1 DEF TermsOf
<1>3. e.op = "print" => nval[e.ins[1]] = val[e.ins[1]]
  <2>1. e.op = "print" => Len(e.ins) = 1
    BY DEF Shaped, Operands
  <2>2. 1 \in 1 .. 1
    OBVIOUS
  <2> QED  BY <1>1, <2>1, <2>2
<1> QED  BY <1>1, <1>2, <1>3 DEF Says

LEMMA AppendTells ==
  ASSUME NEW es, NEW n, Sound(es, n), NEW val, NEW calls, Tells(es, val, calls),
         NEW e, NEW w, Follows(e, n, w)
  PROVE  \E nval, ncalls : Grown(es, n, val, calls, e, nval, ncalls)
<1> DEFINE N == Len(es)
           r == Append(es, e)
           nval == [s \in 1 .. n + w |-> IF s \in 1 .. n THEN val[s]
                                         ELSE Term(e, TermsOf(e, val), Len(calls[N]), s - n)]
           last == IF e.op = "print" THEN Append(calls[N], val[e.ins[1]]) ELSE calls[N]
           ncalls == [i \in 0 .. N + 1 |-> IF i = N + 1 THEN last ELSE calls[i]]
<1>1. n \in Nat /\ N \in Nat /\ \A i \in 1 .. N : Shaped(es[i], n)
  BY OfItsOwn DEF Sound
<1>2. /\ Len(r) = N + 1 /\ r[N + 1] = e /\ \A i \in 1 .. N : r[i] = es[i]
  BY OfItsOwn DEF Sound
<1>3. /\ w \in 1 .. 2 /\ Len(e.outs) = w /\ Shaped(e, n + w)
      /\ \A j \in 1 .. w : e.outs[j] = n + j
      /\ \A k \in 1 .. Len(e.ins) : e.ins[k] \in 1 .. n
  BY DEF Follows
<1>4. \A s \in 1 .. n : nval[s] = val[s]
  BY <1>1, <1>3
<1>5. \A j \in 1 .. w : nval[n + j] = Term(e, TermsOf(e, val), Len(calls[N]), j)
  <2> SUFFICES ASSUME NEW j \in 1 .. w
               PROVE  nval[n + j] = Term(e, TermsOf(e, val), Len(calls[N]), j)
    OBVIOUS
  <2>1. n + j \in 1 .. n + w /\ n + j \notin 1 .. n /\ (n + j) - n = j
    BY <1>1, <1>3
  <2> QED  BY <2>1
<1>6. ncalls[N + 1] = last /\ \A i \in 0 .. N : ncalls[i] = calls[i]
  BY <1>1
<1> HIDE DEF r, nval, ncalls
<1>7. ASSUME NEW i \in 1 .. N
      PROVE  Says(r[i], nval, ncalls[i - 1], ncalls[i])
  <2>1. i \in 0 .. N /\ i - 1 \in 0 .. N
    BY <1>1
  <2>2. Says(es[i], val, calls[i - 1], calls[i])
    BY DEF Tells
  <2>3. Says(es[i], nval, calls[i - 1], calls[i])
    BY <1>1, <1>4, <2>2, SaysAlike
  <2> QED  BY <1>2, <1>6, <2>1, <2>3
<1>8. Says(e, nval, ncalls[N], ncalls[N + 1])
  <2>1. TermsOf(e, nval) = TermsOf(e, val)
    BY <1>3, <1>4 DEF TermsOf
  <2>2. ncalls[N] = calls[N] /\ ncalls[N + 1] = last
    BY <1>1, <1>6
  <2>3. e.op = "print" => nval[e.ins[1]] = val[e.ins[1]]
    <3>1. e.op = "print" => Len(e.ins) = 1
      BY <1>3 DEF Shaped, Operands
    <3>2. 1 \in 1 .. 1
      OBVIOUS
    <3> QED  BY <1>3, <1>4, <3>1, <3>2
  <2>4. last = IF e.op = "print" THEN Append(calls[N], nval[e.ins[1]]) ELSE calls[N]
    BY <2>3
  <2> HIDE DEF last
  <2>5. \A j \in 1 .. Len(e.outs) : nval[e.outs[j]] = Term(e, TermsOf(e, nval), Len(ncalls[N]), j)
    BY <1>3, <1>5, <2>1, <2>2
  <2> QED  BY <2>2, <2>4, <2>5 DEF Says
<1>9. Tells(r, nval, ncalls)
  <2>1. ncalls[0] = <<>>
    BY <1>1, <1>6 DEF Tells
  <2>2. \A i \in 1 .. N + 1 : Says(r[i], nval, ncalls[i - 1], ncalls[i])
    <3> SUFFICES ASSUME NEW i \in 1 .. N + 1
                 PROVE  Says(r[i], nval, ncalls[i - 1], ncalls[i])
      OBVIOUS
    <3>1. CASE i = N + 1
      <4>1. i - 1 = N
        <5> HIDE DEF N
        <5> QED  BY <1>1, <3>1
      <4>2. Says(r[N + 1], nval, ncalls[i - 1], ncalls[N + 1])
        BY <1>2, <1>8, <4>1
      <4> QED  BY <3>1, <4>2
    <3>2. CASE i # N + 1
      <4>1. i \in 1 .. N
        <5> HIDE DEF N
        <5> QED  BY <1>1, <3>2
      <4> QED  BY <1>7, <4>1
    <3> QED  BY <3>1, <3>2
  <2> QED  BY <1>2, <2>1, <2>2 DEF Tells
<1>10. Grown(es, n, val, calls, e, nval, ncalls)
  BY <1>3, <1>4, <1>5, <1>6, <1>9 DEF Grown, r
<1> QED  BY <1>10

(* A frame means what the source does so far: every known value's slot     *)
(* holds its term, a payload's slot the payload, and the calls are made.   *)
Denotes(f, val, calls, m, known) ==
  /\ Tells(f.entries, val, calls) /\ calls[Len(f.entries)] = m.calls
  /\ \A a \in Args : val[a] = <<"arg", a>>
  /\ \A c \in DOMAIN f.consts : val[f.consts[c]] = c
  /\ \A v \in known : v \in DOMAIN m.val /\ Bears(m.val[v], val[f.slot[v]])

Denoted(f, m, known) == \E val, calls : Denotes(f, val, calls, m, known)
(* The values that op i of w results is known by. *)
ResultsOf(i, w) == {<<i, j>> : j \in 1 .. w}
(* i names none of the known values. *)
Fresher(known, i) == \A v \in known : v[1] # i
Given(op, m) == [k \in DOMAIN op.ins |-> m.val[op.ins[k]]]
LEMMA VisitedIs ==
  ASSUME NEW m, NEW op, NEW i, NEW r, r = Visited(m, op, i)
  PROVE  /\ r.calls = IF op.kind = "print" THEN Append(m.calls, Given(op, m)[1].term) ELSE m.calls
         /\ \A v \in DOMAIN m.val : v[1] # i => v \in DOMAIN r.val /\ r.val[v] = m.val[v]
         /\ \A j \in 1 .. Arity(op) :
              /\ <<i, j>> \in DOMAIN r.val
              /\ r.val[<<i, j>>] = OpResults(op, i, Given(op, m), Len(m.calls))[j]
<1> DEFINE new == OpResults(op, i, Given(op, m), Len(m.calls))
           V == DOMAIN m.val \cup {<<i, j>> : j \in 1 .. Arity(op)}
           rv == [v \in V |-> IF v[1] = i THEN new[v[2]] ELSE m.val[v]]
           rc == IF op.kind = "print" THEN Append(m.calls, Given(op, m)[1].term) ELSE m.calls
<1>1. r = [val |-> rv, calls |-> rc]
  BY DEF Visited, Given
<1> HIDE DEF new, rc
<1>2. \A v \in DOMAIN m.val : v[1] # i => v \in DOMAIN rv /\ rv[v] = m.val[v]
  OBVIOUS
<1>3. \A j \in 1 .. Arity(op) : <<i, j>> \in DOMAIN rv /\ rv[<<i, j>>] = new[j]
  <2> SUFFICES ASSUME NEW j \in 1 .. Arity(op)
               PROVE  <<i, j>> \in DOMAIN rv /\ rv[<<i, j>>] = new[j]
    OBVIOUS
  <2> DEFINE v == <<i, j>>
  <2>1. v \in V /\ v[1] = i /\ v[2] = j
    OBVIOUS
  <2> HIDE DEF v
  <2>2. v \in DOMAIN rv /\ rv[v] = new[j]
    BY <2>1
  <2> QED  BY <2>2 DEF v
<1> HIDE DEF rv
<1>4. r.val = rv /\ r.calls = rc
  BY <1>1
<1> QED  BY <1>2, <1>3, <1>4 DEF new, rc

\* A value whose slot is one that was made.
LEMMA AliasDenotes ==
  ASSUME NEW f, NEW known, LoweredTo(f, known), NEW val, NEW calls, NEW m,
         Denotes(f, val, calls, m, known), NEW op, NEW i, Fresher(known, i),
         op.kind # "print", 1 \in 1 .. Arity(op), NEW r, r = Visited(m, op, i),
         NEW s, Bears(r.val[<<i, 1>>], val[s]),
         NEW g, g.slot = With(f.slot, <<i, 1>>, s), g.entries = f.entries, g.consts = f.consts
  PROVE  Denotes(g, val, calls, r, known \cup {<<i, 1>>})
<1> DEFINE u == <<i, 1>>
<1>1. /\ Tells(f.entries, val, calls) /\ calls[Len(f.entries)] = m.calls
      /\ \A a \in Args : val[a] = <<"arg", a>>
      /\ \A c \in DOMAIN f.consts : val[f.consts[c]] = c
      /\ \A v \in known : v \in DOMAIN m.val /\ Bears(m.val[v], val[f.slot[v]])
  BY DEF Denotes
<1>2. /\ r.calls = m.calls /\ u \in DOMAIN r.val
      /\ \A v \in DOMAIN m.val : v[1] # i => v \in DOMAIN r.val /\ r.val[v] = m.val[v]
  BY VisitedIs
<1>3. Names(f.slot, known, f.n)
  BY FrameFacts
<1>4. ASSUME NEW v \in known \cup {u}
      PROVE  v \in DOMAIN r.val /\ Bears(r.val[v], val[g.slot[v]])
  <2>1. CASE v = u
    <3>1. g.slot[u] = s
      BY DEF With
    <3> QED  BY <1>2, <2>1, <3>1
  <2>2. CASE v # u
    <3>1. v \in known /\ v \in DOMAIN f.slot /\ v[1] # i
      BY <1>4, <1>3, <2>2 DEF Names, Fresher
    <3>2. g.slot[v] = f.slot[v]
      BY <2>2, <3>1 DEF With
    <3>3. v \in DOMAIN m.val /\ Bears(m.val[v], val[f.slot[v]])
      BY <1>1, <3>1
    <3>4. v \in DOMAIN r.val /\ r.val[v] = m.val[v]
      BY <1>2, <3>1, <3>3
    <3> QED  BY <3>2, <3>3, <3>4
  <2> QED  BY <2>1, <2>2
<1> HIDE DEF u
<1>5. Denotes(g, val, calls, r, known \cup {u})
  BY <1>1, <1>2, <1>4 DEF Denotes
<1> QED  BY <1>5 DEF u

(* g is f with entry e for op i, of w results. *)
Emits(f, g, e, w, op, i, known) ==
  /\ Follows(e, f.n, w) /\ Arity(op) = w /\ g.entries = Append(f.entries, e)
  /\ e.op = "print" <=> op.kind = "print"
  /\ op.kind = "print" => op.ins \in Seq(known) /\ Len(op.ins) = 1 /\ e.ins[1] = f.slot[op.ins[1]]
  /\ \A v \in known : g.slot[v] = f.slot[v]
  /\ \A j \in 1 .. w : g.slot[<<i, j>>] = f.n + j
  /\ \A c \in DOMAIN g.consts :
       \/ c \in DOMAIN f.consts /\ g.consts[c] = f.consts[c]
       \/ g.consts[c] = f.n + 1 /\ e.op = "const" /\ e.payload = c
Bearing(r, i, e, val, n, w) ==
  \A j \in 1 .. w : Bears(r.val[<<i, j>>], Term(e, TermsOf(e, val), n, j))

LEMMA EmitDenotes ==
  ASSUME NEW f, NEW known, LoweredTo(f, known), NEW val, NEW calls, NEW m,
         Denotes(f, val, calls, m, known), NEW op, NEW i, Fresher(known, i),
         NEW g, NEW e, NEW w, Emits(f, g, e, w, op, i, known),
         NEW r, r = Visited(m, op, i), Bearing(r, i, e, val, Len(m.calls), w)
  PROVE  Denoted(g, r, known \cup ResultsOf(i, w))
<1> DEFINE N == Len(f.entries)
           n == f.n
<1>1. /\ Tells(f.entries, val, calls) /\ calls[N] = m.calls
      /\ \A a \in Args : val[a] = <<"arg", a>>
      /\ \A c \in DOMAIN f.consts : val[f.consts[c]] = c
      /\ \A v \in known : v \in DOMAIN m.val /\ Bears(m.val[v], val[f.slot[v]])
  BY DEF Denotes
<1>2. /\ r.calls = IF op.kind = "print" THEN Append(m.calls, Given(op, m)[1].term) ELSE m.calls
      /\ \A v \in DOMAIN m.val : v[1] # i => v \in DOMAIN r.val /\ r.val[v] = m.val[v]
      /\ \A j \in 1 .. Arity(op) : <<i, j>> \in DOMAIN r.val
  BY VisitedIs
<1>3. /\ Names(f.slot, known, n) /\ n \in Nat /\ Sound(f.entries, n) /\ Args \subseteq 1 .. n
      /\ \A c \in DOMAIN f.consts : f.consts[c] \in 1 .. n
  BY FrameFacts DEF Complete
<1>4. /\ Follows(e, n, w) /\ Arity(op) = w /\ g.entries = Append(f.entries, e)
      /\ e.op = "print" <=> op.kind = "print"
      /\ op.kind = "print" => op.ins \in Seq(known) /\ Len(op.ins) = 1 /\ e.ins[1] = f.slot[op.ins[1]]
      /\ \A v \in known : g.slot[v] = f.slot[v]
      /\ \A j \in 1 .. w : g.slot[<<i, j>>] = n + j
      /\ \A c \in DOMAIN g.consts :
           \/ c \in DOMAIN f.consts /\ g.consts[c] = f.consts[c]
           \/ g.consts[c] = n + 1 /\ e.op = "const" /\ e.payload = c
  BY DEF Emits
<1>5. PICK nval, ncalls : Grown(f.entries, n, val, calls, e, nval, ncalls)
  BY <1>1, <1>3, <1>4, AppendTells
<1>6. /\ Tells(g.entries, nval, ncalls)
      /\ ncalls[N + 1] = IF e.op = "print" THEN Append(calls[N], val[e.ins[1]]) ELSE calls[N]
      /\ \A s \in 1 .. n : nval[s] = val[s]
      /\ \A j \in 1 .. w : nval[n + j] = Term(e, TermsOf(e, val), Len(calls[N]), j)
  BY <1>4, <1>5 DEF Grown, Follows
<1>7. ncalls[Len(g.entries)] = r.calls
  <2>1. Len(g.entries) = N + 1
    BY <1>3, <1>4, OfItsOwn DEF Sound
  <2>2. CASE op.kind # "print"
    BY <1>1, <1>2, <1>4, <1>6, <2>1, <2>2
  <2>3. CASE op.kind = "print"
    <3> DEFINE a == op.ins[1]
    <3>1. a \in known /\ e.ins[1] = f.slot[a] /\ DOMAIN op.ins = 1 .. 1
      <4>1. op.ins \in Seq(known) /\ Len(op.ins) = 1
        BY <1>4, <2>3
      <4>2. DOMAIN op.ins = 1 .. 1 /\ 1 \in 1 .. 1
        BY <4>1
      <4> QED  BY <1>4, <2>3, <4>1, <4>2
    <3>2. Given(op, m)[1] = m.val[a]
      <4>1. 1 \in DOMAIN op.ins
        BY <3>1
      <4> QED  BY <4>1 DEF Given
    <3>3. m.val[a].term = val[e.ins[1]]
      BY <1>1, <3>1 DEF Bears
    <3>4. r.calls = Append(m.calls, Given(op, m)[1].term)
      BY <1>2, <2>3
    <3>5. ncalls[N + 1] = Append(calls[N], val[e.ins[1]])
      BY <1>4, <1>6, <2>3
    <3> QED  BY <1>1, <2>1, <3>2, <3>3, <3>4, <3>5
  <2> QED  BY <2>2, <2>3
<1>8. \A a \in Args : nval[a] = <<"arg", a>>
  BY <1>1, <1>3, <1>6
<1>9. ASSUME NEW c \in DOMAIN g.consts
      PROVE  nval[g.consts[c]] = c
  <2>1. CASE c \in DOMAIN f.consts /\ g.consts[c] = f.consts[c]
    BY <1>1, <1>3, <1>6, <2>1
  <2>2. CASE g.consts[c] = n + 1 /\ e.op = "const" /\ e.payload = c
    <3>1. 1 \in 1 .. w
      BY <1>4 DEF Follows
    <3>2. Term(e, TermsOf(e, val), Len(calls[N]), 1) = c
      BY <2>2 DEF Term
    <3> QED  BY <1>6, <2>2, <3>1, <3>2
  <2> QED  BY <1>4, <2>1, <2>2
<1>10. ASSUME NEW v \in known
       PROVE  v \in DOMAIN r.val /\ Bears(r.val[v], nval[g.slot[v]])
  <2>1. v[1] # i /\ f.slot[v] \in 1 .. n /\ g.slot[v] = f.slot[v]
    BY <1>3, <1>4 DEF Names, Fresher
  <2>2. v \in DOMAIN m.val /\ Bears(m.val[v], val[f.slot[v]])
    BY <1>1
  <2>3. v \in DOMAIN r.val /\ r.val[v] = m.val[v]
    BY <1>2, <2>1, <2>2
  <2> QED  BY <1>6, <2>1, <2>2, <2>3
<1>11. ASSUME NEW j \in 1 .. w
       PROVE  <<i, j>> \in DOMAIN r.val /\ Bears(r.val[<<i, j>>], nval[g.slot[<<i, j>>]])
  BY <1>1, <1>2, <1>4, <1>6 DEF Bearing
<1> DEFINE all == known \cup ResultsOf(i, w)
<1>12. \A v \in all : v \in DOMAIN r.val /\ Bears(r.val[v], nval[g.slot[v]])
  BY <1>10, <1>11 DEF ResultsOf
<1> HIDE DEF all
<1>13. Denotes(g, nval, ncalls, r, all)
  BY <1>6, <1>7, <1>8, <1>9, <1>12 DEF Denotes
<1> QED  BY <1>13 DEF all, Denoted

\* An op's results bear the terms of the entry it becomes.
Becomes(op, f, e) ==
  /\ e.op = op.kind /\ Len(e.ins) = Len(op.ins)
  /\ \A k \in 1 .. Len(op.ins) : e.ins[k] = f.slot[op.ins[k]]
  /\ op.kind \in {"branch", "loop"} => e.trip = op.trip
  /\ op.kind = "loop" => e.move = op.move

LEMMA ArityIs ==
  ASSUME NEW op, NEW known, Proper(op, known)
  PROVE  Arity(op) = IF op.kind = "loop" THEN 2 ELSE 1
<1>1. op.kind = "loop" => Len(op.move) = 2
  BY LoopsAssumption DEF Proper
<1> QED  BY <1>1 DEF Arity

(* The entry a source op is taken for where it is visited. *)
SourceEntry(op, i) ==
  [Entry(op.kind, <<>>, <<<<i, 1>>, <<i, 2>>>>)
     EXCEPT !.payload = op.const, !.trip = op.trip, !.move = op.move]
LEMMA SourceEntryIs ==
  ASSUME NEW op, NEW i, NEW e, e = SourceEntry(op, i)
  PROVE  /\ e.op = op.kind /\ Len(e.outs) = 2 /\ e.payload = op.const
         /\ e.trip = op.trip /\ e.move = op.move
<1> DEFINE w == Entry(op.kind, <<>>, <<<<i, 1>>, <<i, 2>>>>)
           two == <<<<i, 1>>, <<i, 2>>>>
<1>1. w = [op |-> op.kind, ins |-> <<>>, outs |-> two, payload |-> NoPayload,
           trip |-> 0, move |-> <<>>, bytes |-> Bytes(op.kind)]
  BY DEF Entry
<1>2. Len(two) = 2
  OBVIOUS
<1>3. e = [w EXCEPT !.payload = op.const, !.trip = op.trip, !.move = op.move]
  BY DEF SourceEntry
<1> HIDE DEF w, two
<1>4. e = [op |-> op.kind, ins |-> <<>>, outs |-> two, payload |-> op.const,
           trip |-> op.trip, move |-> op.move, bytes |-> Bytes(op.kind)]
  BY <1>1, <1>3
<1> QED  BY <1>2, <1>4

LEMMA GivenBears ==
  ASSUME NEW f, NEW known, NEW val, NEW calls, NEW m, Denotes(f, val, calls, m, known),
         NEW op, Proper(op, known), NEW k \in 1 .. Len(op.ins)
  PROVE  /\ Given(op, m)[k] = m.val[op.ins[k]] /\ op.ins[k] \in known
         /\ Bears(Given(op, m)[k], val[f.slot[op.ins[k]]])
<1>1. op.ins \in Seq(known)
  BY DEF Proper
<1>2. op.ins[k] \in known /\ DOMAIN op.ins = 1 .. Len(op.ins)
  BY <1>1, ElementOf
<1>3. Given(op, m)[k] = m.val[op.ins[k]]
  BY <1>2 DEF Given
<1> QED  BY <1>2, <1>3 DEF Denotes

LEMMA OpBears ==
  ASSUME NEW f, NEW known, NEW val, NEW calls, NEW m, Denotes(f, val, calls, m, known),
         NEW op, Proper(op, known), op.kind \notin {"const", "barrier"},
         NEW i, NEW r, r = Visited(m, op, i), NEW e, Becomes(op, f, e)
  PROVE  Bearing(r, i, e, val, Len(m.calls), Arity(op))
<1> DEFINE se == SourceEntry(op, i)
           vals == Given(op, m)
           ts == TermsOf(e, val)
           n == Len(op.ins)
           c == Len(m.calls)
<1>1. n \in Nat /\ DOMAIN op.ins = 1 .. n /\ op.kind \in OpKinds \cup {"barrier"}
  BY OfItsOwn DEF Proper
<1>2. se.op = op.kind /\ Len(se.outs) = 2 /\ se.payload = op.const /\ se.trip = op.trip /\ se.move = op.move
  BY SourceEntryIs
<1>3. \A j \in 1 .. Arity(op) : r.val[<<i, j>>] = OpResults(op, i, vals, c)[j]
  BY VisitedIs
<1>4. \A v : OpResults(op, i, v, c) = Compute(se, v, c)
  BY DEF OpResults, SourceEntry
<1> HIDE DEF se, ts, c
<1>5. Takes(se, n)
  BY <1>1, <1>2 DEF Proper, Takes, Looping, OpKinds
<1>6. \A k \in 1 .. n : Bears(vals[k], ts[k])
  <2> SUFFICES ASSUME NEW k \in 1 .. n
               PROVE  Bears(vals[k], ts[k])
    OBVIOUS
  <2>1. Bears(vals[k], val[f.slot[op.ins[k]]])
    BY GivenBears
  <2>2. ts[k] = val[f.slot[op.ins[k]]]
    BY DEF ts, TermsOf, Becomes
  <2> HIDE DEF vals
  <2> QED  BY <2>1, <2>2
<1>7. vals \in [1 .. n -> ToSet(vals)]
  BY <1>1 DEF Given, ToSet
<1> HIDE DEF vals, n
<1>8. ASSUME NEW j \in 1 .. Arity(op)
      PROVE  Bears(r.val[<<i, j>>], Term(e, ts, c, j))
  <2>1. j = 1 \/ (j = 2 /\ se.op = "loop")
    <3>1. CASE op.kind = "loop"
      BY <1>2, <3>1, ArityIs
    <3>2. CASE op.kind # "loop"
      BY <3>2, ArityIs
    <3> QED  BY <3>1, <3>2
  <2>2. Bears(Compute(se, vals, c)[j], Term(se, ts, c, j))
    BY <1>5, <1>6, <1>7, <2>1, ResultTerms
  <2>3. Term(se, ts, c, j) = Term(e, ts, c, j)
    BY <1>1, <1>2 DEF Term, Becomes, OpKinds
  <2> QED  BY <1>3, <1>4, <2>2, <2>3
<1> QED  BY <1>8 DEF Bearing, ts, c

(* A step of the lowering keeps what the frame means. *)
Keeps(f, g, m, r, known, made) ==
  \A val, calls : Denotes(f, val, calls, m, known) => Denoted(g, r, known \cup made)

LEMMA OneEmits ==
  ASSUME NEW f, NEW known, LoweredTo(f, known), NEW i, Fresher(known, i),
         NEW op, Proper(op, known), op.kind \notin {"const", "barrier", "loop"},
         NEW e, Shaped(e, f.n + 1), e.outs = <<f.n + 1>>, ToSet(e.ins) \subseteq 1 .. f.n,
         Becomes(op, f, e), NEW t,
         NEW h, h = ApplyTaint(Bind(f, <<i, 1>>), f.n + 1, t), NEW g, g = Emit(h, e)
  PROVE  Emits(f, g, e, 1, op, i, known)
<1> DEFINE v == <<i, 1>>
           b == Bind(f, v)
<1>1. f.n \in Nat /\ IsFrame(f) /\ Names(f.slot, known, f.n)
  BY FrameFacts
<1>2. /\ IsFrame(b) /\ b.slot = With(f.slot, v, f.n + 1) /\ b.n = f.n + 1
      /\ b.entries = f.entries /\ b.consts = f.consts
  BY <1>1, Bound
<1>3. h = ApplyTaint(b, f.n + 1, t)
  OBVIOUS
<1> HIDE DEF b
<1>4. /\ IsFrame(h) /\ h.slot = With(f.slot, v, f.n + 1) /\ h.n = f.n + 1
      /\ h.entries = f.entries /\ h.consts = f.consts
  BY <1>2, <1>3, Tainted
<1>5. g.slot = h.slot /\ g.entries = Append(h.entries, e) /\ g.consts = h.consts
  BY <1>4, Emitted
<1>6. Follows(e, f.n, 1)
  <2>0. e.ins \in Seq(1 .. f.n + 1)
    BY ShapedFacts
  <2>1. ToSet(e.ins) = {e.ins[k] : k \in 1 .. Len(e.ins)}
    BY ONLY <2>0, OfItsOwn
  <2>2. 1 \in 1 .. 2 /\ Len(e.outs) = 1 /\ \A j \in 1 .. 1 : e.outs[j] = f.n + j
    <3>1. Len(e.outs) = 1 /\ e.outs[1] = f.n + 1
      OBVIOUS
    <3> QED  BY <3>1
  <2> QED  BY <2>1, <2>2 DEF Follows
<1>7. Arity(op) = 1
  BY ArityIs
<1>8. op.kind = "print" => op.ins \in Seq(known) /\ Len(op.ins) = 1 /\ e.ins[1] = f.slot[op.ins[1]]
  BY DEF Proper, Becomes
<1>9. \A x \in known : g.slot[x] = f.slot[x]
  <2>1. \A x \in known : x # v
    BY DEF Fresher
  <2> HIDE DEF v
  <2> QED  BY <1>1, <1>4, <1>5, <2>1 DEF Names, With
<1>10. g.slot[v] = f.n + 1
  <2> HIDE DEF v
  <2> QED  BY <1>4, <1>5 DEF With
<1>11. \A j \in 1 .. 1 : g.slot[<<i, j>>] = f.n + j
  BY <1>10
<1> HIDE DEF v
<1> QED  BY <1>4, <1>5, <1>6, <1>7, <1>8, <1>9, <1>11 DEF Emits, Becomes

LEMMA EmitKeeps ==
  ASSUME NEW f, NEW known, LoweredTo(f, known), NEW i, Fresher(known, i),
         NEW op, Proper(op, known), op.kind \notin {"const", "barrier"},
         NEW e, Becomes(op, f, e), NEW g, NEW w, Emits(f, g, e, w, op, i, known),
         NEW m, NEW r, r = Visited(m, op, i)
  PROVE  Keeps(f, g, m, r, known, ResultsOf(i, w))
<1> SUFFICES ASSUME NEW val, NEW calls, Denotes(f, val, calls, m, known)
             PROVE  Denoted(g, r, known \cup ResultsOf(i, w))
  BY DEF Keeps
<1>1. Arity(op) = w
  BY DEF Emits
<1>2. Bearing(r, i, e, val, Len(m.calls), w)
  BY <1>1, OpBears
<1> QED  BY <1>2, EmitDenotes

LEMMA SimpleKeeps ==
  ASSUME NEW f, NEW known, LoweredTo(f, known), NEW i, Fresher(known, i),
         NEW op, Proper(op, known), op.kind \in {"iota", "add", "bcast", "view", "ident", "print"},
         NEW m, NEW r, r = Visited(m, op, i)
  PROVE  Keeps(f, LowerSimple(f, op, <<i, 1>>), m, r, known, {<<i, 1>>})
<1> DEFINE v == <<i, 1>>
           ins == [k \in DOMAIN op.ins |-> f.slot[op.ins[k]]]
           b == Bind(f, v)
           e == Entry(op.kind, ins, <<f.n + 1>>)
           args == IF IsIdentity(op.kind) THEN UNION {AliasOf(b, ins[k]) : k \in DOMAIN ins} ELSE {}
           cv == IsViewOp(op.kind) /\ \E k \in DOMAIN ins : ins[k] \in b.cview
           t == [args |-> args, cv |-> cv]
           h == ApplyTaint(b, f.n + 1, t)
           g == LowerSimple(f, op, v)
<1>1. f.n \in Nat /\ IsFrame(f) /\ Names(f.slot, known, f.n)
  BY FrameFacts
<1>2. b.n = f.n + 1
  BY <1>1, Bound
<1>3. TaintResults(b, op.kind, ins, f.n + 1) = h
  BY DEF TaintResults
<1>4. g = Emit(TaintResults(b, op.kind, ins, b.n), Entry(op.kind, ins, <<b.n>>))
  BY DEF LowerSimple
<1>5. g = Emit(h, e)
  BY <1>2, <1>3, <1>4
<1>6. ins \in Seq(1 .. f.n) /\ Len(ins) = Len(op.ins) /\ \A k \in 1 .. Len(op.ins) : ins[k] = f.slot[op.ins[k]]
  <2>1. op.ins \in Seq(known)
    BY DEF Proper
  <2>2. DOMAIN op.ins = 1 .. Len(op.ins)
    BY <2>1
  <2>3. \A k \in 1 .. Len(op.ins) : ins[k] = f.slot[op.ins[k]]
    BY <2>2
  <2> HIDE DEF ins
  <2>4. ins \in Seq(1 .. f.n) /\ Len(ins) = Len(op.ins)
    BY <1>1, <2>1, SlotsRead DEF ins
  <2> QED  BY <2>3, <2>4
<1> HIDE DEF ins, t, g
<1>7. Shaped(e, f.n + 1) /\ ToSet(e.outs) = f.n + 1 .. f.n + 1 /\ ToSet(e.ins) \subseteq 1 .. f.n
  <2>1. op.kind \in OpKinds \ {"loop"} /\ op.kind # "branch"
    BY DEF OpKinds
  <2>2. /\ op.kind \in {"bcast", "view", "ident", "print"} => Len(ins) = 1
        /\ op.kind = "add" => Len(ins) = 2
    BY <1>6 DEF Proper
  <2> QED  BY <1>1, <1>6, <2>1, <2>2, EntryShaped
<1>8. Becomes(op, f, e) /\ e.outs = <<f.n + 1>>
  <2>1. e.op = op.kind /\ e.ins = ins /\ e.outs = <<f.n + 1>>
    BY DEF Entry
  <2> HIDE DEF e
  <2> QED  BY <1>6, <2>1 DEF Becomes
<1> HIDE DEF e
<1>9. Emits(f, g, e, 1, op, i, known)
  BY <1>5, <1>7, <1>8, OneEmits
<1>10. Keeps(f, g, m, r, known, ResultsOf(i, 1))
  BY <1>8, <1>9, EmitKeeps
<1>11. ResultsOf(i, 1) = {v}
  BY DEF ResultsOf
<1> QED  BY <1>10, <1>11 DEF g

LEMMA BranchKeeps ==
  ASSUME NEW f, NEW known, LoweredTo(f, known), NEW i, Fresher(known, i),
         NEW op, Proper(op, known), op.kind = "branch",
         NEW m, NEW r, r = Visited(m, op, i)
  PROVE  Keeps(f, LowerBranch(f, op, <<i, 1>>), m, r, known, {<<i, 1>>})
<1> DEFINE v == <<i, 1>>
           ins == [k \in DOMAIN op.ins |-> f.slot[op.ins[k]]]
           b == Bind(f, v)
           e == [Entry("branch", ins, <<f.n + 1>>) EXCEPT !.trip = op.trip]
           t == Join(TaintOf(f, ins[2]), TaintOf(f, ins[3]))
           h == ApplyTaint(b, f.n + 1, t)
           g == LowerBranch(f, op, v)
<1>1. f.n \in Nat /\ IsFrame(f) /\ Names(f.slot, known, f.n)
  BY FrameFacts
<1>2. b.n = f.n + 1
  BY <1>1, Bound
<1>3. g = Emit(h, e)
  BY <1>2 DEF LowerBranch
<1>4. ins \in Seq(1 .. f.n) /\ Len(ins) = Len(op.ins) /\ \A k \in 1 .. Len(op.ins) : ins[k] = f.slot[op.ins[k]]
  <2>1. op.ins \in Seq(known)
    BY DEF Proper
  <2>2. DOMAIN op.ins = 1 .. Len(op.ins)
    BY <2>1
  <2>3. \A k \in 1 .. Len(op.ins) : ins[k] = f.slot[op.ins[k]]
    BY <2>2
  <2> HIDE DEF ins
  <2>4. ins \in Seq(1 .. f.n) /\ Len(ins) = Len(op.ins)
    BY <1>1, <2>1, SlotsRead DEF ins
  <2> QED  BY <2>3, <2>4
<1> HIDE DEF ins, t, g
<1>5. Shaped(e, f.n + 1) /\ ToSet(e.outs) = f.n + 1 .. f.n + 1 /\ ToSet(e.ins) \subseteq 1 .. f.n
  <2>1. "branch" \in OpKinds \ {"loop"} /\ Len(ins) = 3 /\ op.trip \in 1 .. 2
    BY <1>4 DEF OpKinds, Proper
  <2> QED  BY <1>1, <1>4, <2>1, EntryShaped
<1>6. Becomes(op, f, e) /\ e.outs = <<f.n + 1>>
  <2>1. e.op = op.kind /\ e.ins = ins /\ e.outs = <<f.n + 1>> /\ e.trip = op.trip
    BY DEF Entry
  <2> HIDE DEF e
  <2> QED  BY <1>4, <2>1 DEF Becomes
<1> HIDE DEF e
<1>7. Emits(f, g, e, 1, op, i, known)
  BY <1>3, <1>5, <1>6, OneEmits
<1>8. Keeps(f, g, m, r, known, ResultsOf(i, 1))
  BY <1>6, <1>7, EmitKeeps
<1>9. ResultsOf(i, 1) = {v}
  BY DEF ResultsOf
<1> QED  BY <1>8, <1>9 DEF g

LEMMA WhileKeeps ==
  ASSUME NEW f, NEW known, LoweredTo(f, known), NEW i, Fresher(known, i),
         NEW op, Proper(op, known), op.kind = "loop",
         NEW m, NEW r, r = Visited(m, op, i)
  PROVE  Keeps(f, LowerWhile(f, op, i), m, r, known, {<<i, 1>>, <<i, 2>>})
<1> DEFINE g == LowerWhile(f, op, i)
           n == f.n
           x == <<i, 1>>
           y == <<i, 2>>
<1>1. f.n \in Nat /\ Names(f.slot, known, f.n)
  BY FrameFacts
<1>2. PICK e : WhileMade(f, op, i, e, g)
  BY WhileMakes
<1> HIDE DEF g
<1>3. /\ g.entries = Append(f.entries, e) /\ g.consts = f.consts
      /\ g.slot = With(With(f.slot, x, n + 1), y, n + 2)
      /\ Shaped(e, n + 2) /\ ToSet(e.ins) \subseteq 1 .. n
      /\ e.op = "loop" /\ e.outs = <<n + 1, n + 2>> /\ e.trip = op.trip /\ e.move = op.move
      /\ e.ins = [k \in DOMAIN op.ins |-> f.slot[op.ins[k]]] /\ Len(e.ins) = 3
  BY <1>2 DEF WhileMade
<1>4. Becomes(op, f, e)
  <2>1. Len(op.ins) = 3 /\ op.ins \in Seq(known)
    BY DEF Proper
  <2>2. DOMAIN op.ins = 1 .. Len(op.ins)
    BY <2>1
  <2>3. \A k \in 1 .. Len(op.ins) : e.ins[k] = f.slot[op.ins[k]]
    BY <1>3, <2>2
  <2> QED  BY <1>3, <2>1, <2>3 DEF Becomes
<1>5. Follows(e, n, 2)
  <2>0. e.ins \in Seq(1 .. n + 2)
    <3>1. Shaped(e, n + 2)
      BY <1>3
    <3> HIDE DEF n
    <3> QED  BY ONLY <3>1 DEF Shaped
  <2>1. ToSet(e.ins) = {e.ins[k] : k \in 1 .. Len(e.ins)}
    BY ONLY <2>0, OfItsOwn
  <2>2. 2 \in 1 .. 2 /\ Len(e.outs) = 2 /\ \A j \in 1 .. 2 : e.outs[j] = n + j
    BY <1>1, <1>3
  <2> QED  BY <1>3, <2>1, <2>2 DEF Follows
<1>6. Arity(op) = 2
  BY ArityIs
<1>7. x # y /\ \A v \in known : v # x /\ v # y
  BY DEF Fresher
<1>8. \A v \in known : g.slot[v] = f.slot[v]
  <2> HIDE DEF x, y
  <2> QED  BY <1>1, <1>3, <1>7 DEF Names, With
<1>9. g.slot[x] = n + 1 /\ g.slot[y] = n + 2
  <2> HIDE DEF x, y
  <2> QED  BY <1>3, <1>7 DEF With
<1>10. \A j \in 1 .. 2 : g.slot[<<i, j>>] = n + j
  BY <1>1, <1>9
<1> HIDE DEF x, y
<1>11. Emits(f, g, e, 2, op, i, known)
  BY <1>3, <1>5, <1>6, <1>8, <1>10 DEF Emits
<1>12. Keeps(f, g, m, r, known, ResultsOf(i, 2))
  BY <1>4, <1>11, EmitKeeps
<1>13. ResultsOf(i, 2) = {<<i, 1>>, <<i, 2>>}
  BY DEF ResultsOf
<1> QED  BY <1>12, <1>13 DEF g

\* A value that holds a payload.
LEMMA PayloadKeeps ==
  ASSUME NEW f, NEW known, LoweredTo(f, known), NEW i, Fresher(known, i),
         NEW op, Proper(op, known), op.kind \in {"const", "bcast"}, NEW payload,
         NEW m, NEW r, r = Visited(m, op, i), Bears(r.val[<<i, 1>>], payload)
  PROVE  Keeps(f, LowerPayload(f, <<i, 1>>, payload), m, r, known, {<<i, 1>>})
<1> DEFINE v == <<i, 1>>
           g == LowerPayload(f, v, payload)
<1>1. /\ f.n \in Nat /\ IsFrame(f) /\ Names(f.slot, known, f.n)
      /\ \A c \in DOMAIN f.consts : f.consts[c] \in 1 .. f.n
  BY FrameFacts
<1>2. Arity(op) = 1
  BY ArityIs
<1> SUFFICES ASSUME NEW val, NEW calls, Denotes(f, val, calls, m, known)
             PROVE  Denoted(g, r, known \cup {v})
  BY DEF Keeps
<1>3. CASE CsePassOn /\ payload \in DOMAIN f.consts
  <2> DEFINE s == f.consts[payload]
  <2>1. g = Alias(f, v, s)
    BY <1>3 DEF LowerPayload
  <2>2. val[s] = payload
    BY <1>3 DEF Denotes
  <2> HIDE DEF s, g
  <2>3. g.slot = With(f.slot, v, s) /\ g.entries = f.entries /\ g.consts = f.consts
    BY <1>1, <2>1, Aliased
  <2>4. Bears(r.val[v], val[s])
    BY <2>2
  <2>5. 1 \in 1 .. Arity(op) /\ op.kind # "print"
    BY <1>2
  <2>6. Denotes(g, val, calls, r, known \cup {v})
    BY <2>3, <2>4, <2>5, AliasDenotes
  <2> QED  BY <2>6 DEF Denoted
<1>4. CASE ~ (CsePassOn /\ payload \in DOMAIN f.consts)
  <2>1. PICK e : PayloadMade(f, v, payload, e, g)
    BY <1>1, <1>4, PayloadMakes
  <2> HIDE DEF g
  <2>2. /\ g.entries = Append(f.entries, e) /\ g.slot = With(f.slot, v, f.n + 1)
        /\ g.consts = IF CsePassOn THEN With(f.consts, payload, f.n + 1) ELSE f.consts
        /\ Shaped(e, f.n + 1) /\ e.op = "const" /\ e.payload = payload
        /\ e.outs = <<f.n + 1>> /\ e.ins = <<>>
    BY <2>1 DEF PayloadMade
  <2>3. Follows(e, f.n, 1)
    <3>1. Len(e.ins) = 0 /\ Len(e.outs) = 1 /\ \A j \in 1 .. 1 : e.outs[j] = f.n + j
      BY <2>2
    <3> QED  BY <2>2, <3>1 DEF Follows
  <2>4. \A x \in known : x # v
    BY DEF Fresher
  <2>5. \A x \in known : g.slot[x] = f.slot[x]
    <3> HIDE DEF v
    <3> QED  BY <1>1, <2>2, <2>4 DEF Names, With
  <2>6. g.slot[v] = f.n + 1
    <3> HIDE DEF v
    <3> QED  BY <2>2 DEF With
  <2>7. \A j \in 1 .. 1 : g.slot[<<i, j>>] = f.n + j
    BY <2>6
  <2>8. ASSUME NEW c \in DOMAIN g.consts
        PROVE  \/ c \in DOMAIN f.consts /\ g.consts[c] = f.consts[c]
               \/ g.consts[c] = f.n + 1 /\ e.op = "const" /\ e.payload = c
    <3> HIDE DEF v
    <3> QED  BY <2>2, <2>8 DEF With
  <2>9. e.op # "print" /\ op.kind # "print"
    BY <2>2
  <2> HIDE DEF v
  <2>10. Emits(f, g, e, 1, op, i, known)
    BY <1>2, <2>2, <2>3, <2>5, <2>7, <2>8, <2>9 DEF Emits
  <2>11. Bearing(r, i, e, val, Len(m.calls), 1)
    <3>1. \A n, ts : Term(e, ts, n, 1) = payload
      BY <2>2 DEF Term
    <3> QED  BY <3>1 DEF Bearing
  <2>12. Denoted(g, r, known \cup ResultsOf(i, 1))
    BY <2>10, <2>11, EmitDenotes
  <2>13. ResultsOf(i, 1) = {v}
    BY DEF ResultsOf, v
  <2> QED  BY <2>12, <2>13
<1> QED  BY <1>3, <1>4

LEMMA BarrierKeeps ==
  ASSUME NEW f, NEW known, LoweredTo(f, known), NEW i, Fresher(known, i),
         NEW op, Proper(op, known), op.kind = "barrier",
         NEW m, NEW r, r = Visited(m, op, i)
  PROVE  Keeps(f, Alias(f, <<i, 1>>, f.slot[op.ins[1]]), m, r, known, {<<i, 1>>})
<1> DEFINE v == <<i, 1>>
           s == f.slot[op.ins[1]]
           g == Alias(f, v, s)
<1> SUFFICES ASSUME NEW val, NEW calls, Denotes(f, val, calls, m, known)
             PROVE  Denoted(g, r, known \cup {v})
  BY DEF Keeps
<1>1. IsFrame(f)
  BY FrameFacts
<1>2. Arity(op) = 1 /\ Len(op.ins) = 1
  BY ArityIs DEF Proper
<1>3. 1 \in 1 .. Arity(op) /\ 1 \in 1 .. Len(op.ins) /\ op.kind # "print"
  BY <1>2
<1>4. r.val[v] = OpResults(op, i, Given(op, m), Len(m.calls))[1]
  BY <1>3, VisitedIs
<1>5. OpResults(op, i, Given(op, m), Len(m.calls)) = Given(op, m)
  BY DEF OpResults
<1>6. Bears(Given(op, m)[1], val[s])
  BY <1>3, GivenBears
<1>7. Bears(r.val[v], val[s])
  BY <1>4, <1>5, <1>6
<1> HIDE DEF s
<1>8. g.slot = With(f.slot, v, s) /\ g.entries = f.entries /\ g.consts = f.consts
  BY <1>1, Aliased
<1> HIDE DEF g
<1>9. Denotes(g, val, calls, r, known \cup {v})
  BY <1>3, <1>7, <1>8, AliasDenotes
<1> QED  BY <1>9 DEF Denoted

(* A value defined by a constant is that constant. *)
ConstsHold(q, m) == \A d \in 1 .. Len(q) : q[d].kind = "const" => Bears(m.val[<<d, 1>>], q[d].const)

LEMMA ConstBears ==
  ASSUME NEW m, NEW op, op.kind = "const", NEW i, NEW r, r = Visited(m, op, i)
  PROVE  Bears(r.val[<<i, 1>>], op.const)
<1> DEFINE se == SourceEntry(op, i)
           vals == Given(op, m)
           c == Len(m.calls)
           a == [term |-> se.payload, obj |-> <<"const", se.outs[1]>>, buf |-> <<"const">>]
<1>1. 1 \in 1 .. Arity(op)
  BY DEF Arity
<1>2. r.val[<<i, 1>>] = OpResults(op, i, vals, c)[1]
  BY <1>1, VisitedIs
<1>3. OpResults(op, i, vals, c) = Compute(se, vals, c)
  BY DEF OpResults, SourceEntry
<1>4. se.op = "const" /\ se.payload = op.const
  BY SourceEntryIs
<1> HIDE DEF se, vals, c
<1>5. Compute(se, vals, c) = <<a>>
  BY <1>4 DEF Compute
<1>6. Bears(a, op.const)
  BY <1>4 DEF Bears, IsArray
<1> HIDE DEF a
<1> QED  BY <1>2, <1>3, <1>5, <1>6

\* A splat broadcast is the broadcast of the constant behind it.
LEMMA SplatBears ==
  ASSUME NEW f, NEW val, NEW calls, NEW m, Ops(src), Denotes(f, val, calls, m, KnownIn(src)),
         ConstsHold(src, m), NEW op, Proper(op, KnownIn(src)), op.kind = "bcast",
         SplatOf(op) # NoPayload, NEW i, NEW r, r = Visited(m, op, i)
  PROVE  Bears(r.val[<<i, 1>>], <<"bcast", SplatOf(op)>>)
<1> DEFINE se == SourceEntry(op, i)
           vals == Given(op, m)
           c == Len(m.calls)
           v == op.ins[1]
<1>1. 1 \in 1 .. Arity(op) /\ Len(op.ins) = 1 /\ 1 \in 1 .. Len(op.ins)
  <2>1. Arity(op) = 1
    BY DEF Arity
  <2>2. Len(op.ins) = 1
    BY DEF Proper
  <2>3. 1 \in 1 .. 1
    OBVIOUS
  <2> QED  BY <2>1, <2>2, <2>3
<1>2. r.val[<<i, 1>>] = OpResults(op, i, vals, c)[1]
  BY <1>1, VisitedIs
<1>3. OpResults(op, i, vals, c) = Compute(se, vals, c)
  BY DEF OpResults, SourceEntry
<1>4. se.op = "bcast"
  BY SourceEntryIs
<1>5. vals[1] = m.val[v] /\ v \in KnownIn(src)
  <2>1. op.ins \in Seq(KnownIn(src)) /\ 1 \in DOMAIN op.ins
    BY <1>1 DEF Proper
  <2> QED  BY <2>1, ElementOf DEF Given
<1>6. v[1] > 0 /\ src[v[1]].kind = "const" /\ SplatOf(op) = src[v[1]].const
  <2> DEFINE d == v[1]
  <2>1. SplatOf(op) = IF d > 0 /\ src[d].kind = "const" THEN src[d].const ELSE NoPayload
    BY DEF SplatOf
  <2> HIDE DEF d
  <2>2. d > 0 /\ src[d].kind = "const" /\ SplatOf(op) = src[d].const
    BY <2>1
  <2> QED  BY <2>2 DEF d
<1> HIDE DEF v
<1>7. v[1] \in 1 .. Len(src) /\ v = <<v[1], 1>>
  <2>1. DOMAIN src = 1 .. Len(src)
    BY OfItsOwn DEF Ops
  <2>2. ASSUME v \in {<<0, a>> : a \in Args}
        PROVE  FALSE
    <3>1. v[1] = 0
      BY <2>2
    <3> QED  BY <1>6, <3>1
  <2>3. PICK d \in DOMAIN src, j \in 1 .. 2 : v = <<d, j>>
    BY <1>5, <2>2 DEF KnownIn
  <2>4. v[1] = d /\ v[2] = j
    BY <2>3
  <2>5. v[1] # 0
    BY <1>6
  <2>6. v[2] <= Arity(src[v[1]])
    BY <1>5, <2>5 DEF KnownIn
  <2>7. j <= 1
    BY <1>6, <2>4, <2>6 DEF Arity
  <2>8. j = 1
    BY <2>7
  <2> QED  BY <2>1, <2>3, <2>4, <2>8
<1>8. Bears(m.val[v], SplatOf(op))
  BY <1>6, <1>7 DEF ConstsHold
<1> HIDE DEF se, vals, c
<1> DEFINE a == [Fresh(<<"bcast", vals[1].term>>, se.outs[1]) EXCEPT !.buf = vals[1].buf]
<1>9. Compute(se, vals, c) = <<a>>
  BY <1>4 DEF Compute
<1>10. a.term = <<"bcast", vals[1].term>> /\ IsArray(a)
  BY DEF Fresh, FreshAt, IsArray
<1>11. vals[1].term = SplatOf(op)
  BY <1>5, <1>8 DEF Bears
<1> HIDE DEF a
<1> QED  BY <1>2, <1>3, <1>9, <1>10, <1>11 DEF Bears

\* Lowering one op.
LEMMA OpKeeps ==
  ASSUME Ops(src), NEW f, LoweredTo(f, KnownIn(src)), NEW op, Proper(op, KnownIn(src)),
         NEW i, Fresher(KnownIn(src), i), NEW m, ConstsHold(src, m), Denoted(f, m, KnownIn(src)),
         NEW r, r = Visited(m, op, i)
  PROVE  Denoted(Lowered(f, op, i), r, KnownIn(src) \cup MadeBy(op, i))
<1> DEFINE v == <<i, 1>>
           known == KnownIn(src)
           g == Lowered(f, op, i)
<1>0. PICK val, calls : Denotes(f, val, calls, m, known)
  BY DEF Denoted
<1> SUFFICES Keeps(f, g, m, r, known, MadeBy(op, i))
  BY <1>0 DEF Keeps
<1>1. op.kind \in OpKinds \cup {"barrier"}
  BY DEF Proper
<1>2. CASE op.kind = "const"
  <2>1. g = LowerPayload(f, v, op.const) /\ MadeBy(op, i) = {v}
    BY <1>2 DEF Lowered, MadeBy
  <2>2. Bears(r.val[v], op.const)
    BY <1>2, ConstBears
  <2>3. Keeps(f, LowerPayload(f, v, op.const), m, r, known, {v})
    BY <1>2, <2>2, PayloadKeeps
  <2> QED  BY <2>1, <2>3
<1>3. CASE op.kind = "barrier"
  <2>1. g = Alias(f, v, f.slot[op.ins[1]]) /\ MadeBy(op, i) = {v}
    BY <1>3 DEF Lowered, MadeBy
  <2>2. Keeps(f, Alias(f, v, f.slot[op.ins[1]]), m, r, known, {v})
    BY <1>3, BarrierKeeps
  <2> QED  BY <2>1, <2>2
<1>4. CASE op.kind = "bcast" /\ CsePassOn /\ SplatOf(op) # NoPayload
  <2> DEFINE p == <<"bcast", SplatOf(op)>>
  <2>1. g = LowerPayload(f, v, p) /\ MadeBy(op, i) = {v}
    BY <1>4 DEF Lowered, MadeBy
  <2>2. Bears(r.val[v], p)
    BY <1>0, <1>4, SplatBears
  <2> HIDE DEF p
  <2>3. Keeps(f, LowerPayload(f, v, p), m, r, known, {v})
    BY <1>4, <2>2, PayloadKeeps
  <2> QED  BY <2>1, <2>3
<1>5. CASE op.kind = "branch"
  <2>1. g = LowerBranch(f, op, v) /\ MadeBy(op, i) = {v}
    BY <1>5 DEF Lowered, MadeBy
  <2>2. Keeps(f, LowerBranch(f, op, v), m, r, known, {v})
    BY <1>5, BranchKeeps
  <2> QED  BY <2>1, <2>2
<1>6. CASE op.kind = "loop"
  <2>1. g = LowerWhile(f, op, i) /\ MadeBy(op, i) = {<<i, 1>>, <<i, 2>>}
    BY <1>6 DEF Lowered, MadeBy
  <2>2. Keeps(f, LowerWhile(f, op, i), m, r, known, {<<i, 1>>, <<i, 2>>})
    BY <1>6, WhileKeeps
  <2> QED  BY <2>1, <2>2
<1>7. CASE /\ op.kind \in {"iota", "add", "bcast", "view", "ident", "print"}
           /\ ~ (op.kind = "bcast" /\ CsePassOn /\ SplatOf(op) # NoPayload)
  <2>1. g = LowerSimple(f, op, v) /\ MadeBy(op, i) = {v}
    BY <1>7 DEF Lowered, MadeBy
  <2>2. Keeps(f, LowerSimple(f, op, v), m, r, known, {v})
    BY <1>7, SimpleKeeps
  <2> QED  BY <2>1, <2>2
<1> QED  BY <1>1, <1>2, <1>3, <1>4, <1>5, <1>6, <1>7 DEF OpKinds

LEMMA FewerDenoted ==
  ASSUME NEW f, NEW m, NEW known, Denoted(f, m, known), NEW fewer \in SUBSET known
  PROVE  Denoted(f, m, fewer)
BY DEF Denoted, Denotes

\* The constants of a longer program.
LEMMA ConstsNext ==
  ASSUME NEW q, Ops(q), NEW f, NEW m, Denoted(f, m, KnownIn(q)), ConstsHold(q, m),
         NEW op, NEW r, r = Visited(m, op, Len(q) + 1), NEW next, next = Append(q, op)
  PROVE  ConstsHold(next, r)
<1> DEFINE N == Len(q)
<1>1. q \in Seq(ToSet(q)) /\ DOMAIN q = 1 .. N /\ N \in Nat
  BY OfItsOwn DEF Ops
<1>2. Len(next) = N + 1 /\ next[N + 1] = op /\ \A d \in 1 .. N : next[d] = q[d]
  BY <1>1
<1> HIDE DEF N
<1>3. ASSUME NEW d \in 1 .. N, q[d].kind = "const"
      PROVE  Bears(r.val[<<d, 1>>], q[d].const)
  <2> DEFINE v == <<d, 1>>
  <2>1. v[1] = d /\ v[2] = 1 /\ v \in {<<k, j>> : k \in 1 .. N, j \in 1 .. 2}
    OBVIOUS
  <2>2. v[2] <= Arity(q[v[1]])
    BY <1>3, <2>1 DEF Arity
  <2>3. v \in KnownIn(q)
    BY <1>1, <2>1, <2>2 DEF KnownIn
  <2>4. Bears(m.val[v], q[d].const)
    BY <1>3 DEF ConstsHold, N
  <2> HIDE DEF v
  <2>5. v \in DOMAIN m.val
    BY <2>3 DEF Denoted, Denotes
  <2>6. v[1] # N + 1
    BY <1>1, <2>1
  <2>7. r.val[v] = m.val[v]
    BY <2>5, <2>6, VisitedIs DEF N
  <2> QED  BY <2>4, <2>7 DEF v
<1>4. op.kind = "const" => Bears(r.val[<<N + 1, 1>>], op.const)
  BY ConstBears DEF N
<1>5. \A d \in 1 .. N + 1 : d \in 1 .. N \/ d = N + 1
  BY <1>1
<1> QED  BY <1>2, <1>3, <1>4, <1>5 DEF ConstsHold

LEMMA NewIsFresher ==
  ASSUME NEW q, Ops(q)
  PROVE  Fresher(KnownIn(q), Len(q) + 1)
<1>1. DOMAIN q = 1 .. Len(q) /\ Len(q) \in Nat
  BY OfItsOwn DEF Ops
<1>2. ASSUME NEW v \in KnownIn(q)
      PROVE  v[1] # Len(q) + 1
  <2>1. v \in {<<0, a>> : a \in Args} \/ \E k \in 1 .. Len(q), j \in 1 .. 2 : v = <<k, j>>
    BY <1>1 DEF KnownIn
  <2>2. v[1] = 0 \/ v[1] \in 1 .. Len(q)
    BY <2>1
  <2> QED  BY <1>1, <2>2
<1> QED  BY <1>2 DEF Fresher

\* The empty frame means what it is given.
LEMMA FirstDenoted == Denoted(Frame, Begun, KnownIn(<<>>)) /\ ConstsHold(<<>>, Begun)
<1> DEFINE sl == [v \in {<<0, a>> : a \in Args} |-> v[2]]
           bv == [v \in {<<0, a>> : a \in Args} |-> Fresh(<<"arg", v[2]>>, v)]
           val == [s \in Args |-> <<"arg", s>>]
           calls == [k \in {0} |-> <<>>]
<1>1. Frame.slot = sl /\ Frame.entries = <<>> /\ Frame.consts = <<>>
  BY DEF Frame
<1>2. Begun.val = bv /\ Begun.calls = <<>>
  BY DEF Begun
<1>3. Len(<<>>) = 0 /\ 1 .. 0 = {} /\ DOMAIN <<>> = {}
  OBVIOUS
<1>4. ASSUME NEW v \in KnownIn(<<>>)
      PROVE  v \in DOMAIN bv /\ Bears(bv[v], val[sl[v]])
  <2>1. PICK a \in Args : v = <<0, a>>
    BY DEF KnownIn
  <2>2. v[2] = a /\ v \in DOMAIN bv
    BY <2>1
  <2>3. sl[v] = a /\ bv[v] = Fresh(<<"arg", a>>, v) /\ val[a] = <<"arg", a>>
    BY <2>1, <2>2
  <2>4. Bears(Fresh(<<"arg", a>>, v), <<"arg", a>>)
    BY DEF Fresh, FreshAt, Bears, IsArray
  <2> QED  BY <2>2, <2>3, <2>4
<1>5. calls[0] = <<>> /\ \A a \in Args : val[a] = <<"arg", a>>
  OBVIOUS
<1> HIDE DEF sl, bv, val, calls
<1>6. Tells(<<>>, val, calls)
  BY <1>3, <1>5 DEF Tells
<1>7. Denotes(Frame, val, calls, Begun, KnownIn(<<>>))
  BY <1>1, <1>2, <1>3, <1>4, <1>5, <1>6 DEF Denotes
<1>8. ConstsHold(<<>>, Begun)
  BY <1>3 DEF ConstsHold
<1> QED  BY <1>7, <1>8 DEF Denoted

---------------------------------------------------------------------------
(* The frame's life.  The entries `es` tell the calls of the meaning `m`,  *)
(* and the slots `os` the terms of the values `xs` that the block returns. *)
Conveys(es, os, m, xs, val, calls) ==
  /\ Tells(es, val, calls) /\ calls[Len(es)] = m.calls
  /\ \A a \in Args : val[a] = <<"arg", a>>
  /\ DOMAIN os = DOMAIN xs /\ \A j \in DOMAIN os : val[os[j]] = m.val[xs[j]].term
Conveyed(es, os, m, xs) == \E val, calls : Conveys(es, os, m, xs, val, calls)

(* What an environment holds of the slots 1 .. n is what they stand for. *)
Shows(en, val, n) == \A s \in 1 .. n : en[s] # NoArray => Bears(en[s], val[s])
(* A walk in front of entry p, of the host calls `made`. *)
Walks(es, n, os, m, xs, en, made, p) ==
  \E val, calls : Conveys(es, os, m, xs, val, calls) /\ made = calls[p - 1] /\ Shows(en, val, n)

LEMMA ReturnConveys ==
  ASSUME NEW f, NEW known, LoweredTo(f, known), NEW m, Denoted(f, m, known),
         NEW xs \in Seq(known), NEW os, os = [j \in DOMAIN xs |-> f.slot[xs[j]]]
  PROVE  Conveyed(f.entries, os, m, xs)
<1>1. PICK val, calls : Denotes(f, val, calls, m, known)
  BY DEF Denoted
<1>2. DOMAIN os = DOMAIN xs /\ DOMAIN xs = 1 .. Len(xs)
  OBVIOUS
<1>3. ASSUME NEW j \in DOMAIN os
      PROVE  val[os[j]] = m.val[xs[j]].term
  <2>1. xs[j] \in known /\ os[j] = f.slot[xs[j]]
    BY <1>2, ElementOf
  <2>2. Bears(m.val[xs[j]], val[f.slot[xs[j]]])
    BY <1>1, <2>1 DEF Denotes
  <2> QED  BY <2>1, <2>2 DEF Bears
<1>4. Conveys(f.entries, os, m, xs, val, calls)
  BY <1>1, <1>2, <1>3 DEF Denotes, Conveys
<1> QED  BY <1>4 DEF Conveyed

LEMMA MergeConveys ==
  ASSUME NEW es, NEW n, NEW os, WellFormed(es, n, os), NEW m, NEW xs, Conveyed(es, os, m, xs),
         NEW next, next = [j \in DOMAIN os |-> Merged(es, n).remap[os[j]]]
  PROVE  Conveyed(Merged(es, n).kept, next, m, xs)
<1> DEFINE to == Merged(es, n).remap
           kept == Merged(es, n).kept
<1>1. PICK val, calls : Conveys(es, os, m, xs, val, calls)
  BY DEF Conveyed
<1>2. Sound(es, n) /\ os \in Seq(1 .. n)
  BY DEF WellFormed
<1>3. Tells(es, val, calls)
  BY <1>1 DEF Conveys
<1>4. /\ \E made : Tells(kept, val, made) /\ made[Len(kept)] = calls[Len(es)]
      /\ \A s \in 1 .. n : val[to[s]] = val[s]
  BY <1>2, <1>3, MergedTells
<1>5. PICK made : Tells(kept, val, made) /\ made[Len(kept)] = calls[Len(es)]
  BY <1>4
<1>6. DOMAIN next = DOMAIN os /\ \A j \in DOMAIN os : next[j] = to[os[j]]
  OBVIOUS
<1>7. \A j \in DOMAIN os : os[j] \in 1 .. n
  <2>1. DOMAIN os = 1 .. Len(os)
    BY <1>2
  <2> QED  BY <1>2, <2>1, ElementOf
<1> HIDE DEF to, kept
<1>8. ASSUME NEW j \in DOMAIN next
      PROVE  val[next[j]] = m.val[xs[j]].term
  <2>1. j \in DOMAIN os /\ next[j] = to[os[j]] /\ os[j] \in 1 .. n
    BY <1>2, <1>6, <1>7
  <2>2. val[to[os[j]]] = val[os[j]]
    BY <1>4, <2>1
  <2>3. val[os[j]] = m.val[xs[j]].term
    BY <1>1, <2>1 DEF Conveys
  <2> QED  BY <2>1, <2>2, <2>3
<1>9. Conveys(kept, next, m, xs, val, made)
  BY <1>1, <1>5, <1>6, <1>8 DEF Conveys
<1>10. Conveyed(kept, next, m, xs)
  BY <1>9 DEF Conveyed
<1> QED  BY <1>10 DEF kept

LEMMA FoldConveys ==
  ASSUME NEW es, NEW n, n = frame.n, NEW os, WellFormed(es, n, os), NEW m, NEW xs, Conveyed(es, os, m, xs)
  PROVE  Conveyed(Folded(es, os).entries, os, m, xs)
<1> DEFINE kept == Folded(es, os).entries
<1>1. PICK val, calls : Conveys(es, os, m, xs, val, calls)
  BY DEF Conveyed
<1>2. Sound(es, n)
  BY DEF WellFormed
<1>3. Tells(es, val, calls)
  BY <1>1 DEF Conveys
<1>4. \E made : Tells(kept, val, made) /\ made[Len(kept)] = calls[Len(es)]
  BY <1>2, <1>3, FoldedTells
<1>5. PICK made : Tells(kept, val, made) /\ made[Len(kept)] = calls[Len(es)]
  BY <1>4
<1> HIDE DEF kept
<1>6. Conveys(kept, os, m, xs, val, made)
  BY <1>1, <1>5 DEF Conveys
<1>7. Conveyed(kept, os, m, xs)
  BY <1>6 DEF Conveyed
<1> QED  BY <1>7 DEF kept

LEMMA NeedConveys ==
  ASSUME NEW es, NEW n, NEW os, WellFormed(es, n, os), NEW m, NEW xs, Conveyed(es, os, m, xs)
  PROVE  Conveyed(Needed(es, os), os, m, xs)
<1> DEFINE kept == Needed(es, os)
<1>1. PICK val, calls : Conveys(es, os, m, xs, val, calls)
  BY DEF Conveyed
<1>2. es \in Seq(ToSet(es))
  BY DEF WellFormed, Sound
<1>3. Tells(es, val, calls)
  BY <1>1 DEF Conveys
<1>4. \E made : Tells(kept, val, made) /\ made[Len(kept)] = calls[Len(es)]
  BY <1>2, <1>3, NeededTells
<1>5. PICK made : Tells(kept, val, made) /\ made[Len(kept)] = calls[Len(es)]
  BY <1>4
<1> HIDE DEF kept
<1>6. Conveys(kept, os, m, xs, val, made)
  BY <1>1, <1>5 DEF Conveys
<1>7. Conveyed(kept, os, m, xs)
  BY <1>6 DEF Conveyed
<1> QED  BY <1>7 DEF kept

LEMMA StartWalks ==
  ASSUME NEW es, NEW n, NEW os, NEW m, NEW xs, Conveyed(es, os, m, xs), NEW en,
         en = [s \in 1 .. n |->
                 IF s \in Args THEN [term |-> <<"arg", s>>, obj |-> <<"arg", s>>, buf |-> <<"arg", s>>]
                 ELSE NoArray]
  PROVE  Walks(es, n, os, m, xs, en, <<>>, 1)
<1>1. PICK val, calls : Conveys(es, os, m, xs, val, calls)
  BY DEF Conveyed
<1>2. ASSUME NEW s \in 1 .. n, en[s] # NoArray
      PROVE  Bears(en[s], val[s])
  <2>1. s \in Args
    BY <1>2
  <2>2. en[s] = [term |-> <<"arg", s>>, obj |-> <<"arg", s>>, buf |-> <<"arg", s>>]
    BY <2>1
  <2>3. val[s] = <<"arg", s>>
    BY <1>1, <2>1 DEF Conveys
  <2> QED  BY <2>2, <2>3 DEF Bears, IsArray
<1>3. Shows(en, val, n)
  BY <1>2 DEF Shows
<1>4. <<>> = calls[1 - 1]
  BY <1>1 DEF Conveys, Tells
<1> QED  BY <1>1, <1>3, <1>4 DEF Walks

\* What an entry reads is held where the walk comes to it.
LEMMA ReadyAt ==
  ASSUME NEW es, NEW n, NEW os, WellFormed(es, n, os), NEW p \in 1 .. Len(es),
         NEW en, Holds(en, es, n, os, p), NEW val, Shows(en, val, n), NEW k \in 1 .. Len(es[p].ins)
  PROVE  Bears(en[es[p].ins[k]], val[es[p].ins[k]])
<1> DEFINE s == es[p].ins[k]
<1>1. Shaped(es[p], n) /\ p \in p .. Len(es)
  BY WellFormedFacts DEF Sound
<1>2. es[p].ins \in Seq(1 .. n)
  BY <1>1, ShapedFacts
<1>3. s \in ToSet(es[p].ins) /\ s \in 1 .. n
  <2>1. ToSet(es[p].ins) = {es[p].ins[i] : i \in 1 .. Len(es[p].ins)}
    BY <1>2, OfItsOwn
  <2>2. s \in 1 .. n
    BY <1>2, ElementOf
  <2> QED  BY <2>1, <2>2
<1>4. Wanted(s, es, os, p)
  BY <1>1, <1>3 DEF Wanted
<1>5. Has(s, es, 1 .. Len(es), p)
  BY <1>3 DEF WellFormed, Flows
<1> HIDE DEF s
<1>6. en[s] # NoArray
  BY <1>3, <1>4, <1>5 DEF Holds
<1>7. Bears(en[s], val[s])
  BY <1>3, <1>6 DEF Shows
<1> QED  BY <1>7 DEF s

LEMMA StepWalks ==
  ASSUME NEW es, NEW n, NEW os, WellFormed(es, n, os), NEW m, NEW xs, NEW p \in 1 .. Len(es),
         NEW en, Holds(en, es, n, os, p), NEW made, Walks(es, n, os, m, xs, en, made, p),
         NEW after, after = Written(es[p], en, Len(made)), NEW dropped,
         NEW nx, nx = [s \in DOMAIN en |-> IF s \in dropped THEN NoArray ELSE after[s]],
         NEW next, next = IF es[p].op = "print" THEN Append(made, en[es[p].ins[1]].term) ELSE made
  PROVE  Walks(es, n, os, m, xs, nx, next, p + 1)
<1> DEFINE e == es[p]
<1>1. PICK val, calls : Conveys(es, os, m, xs, val, calls) /\ made = calls[p - 1] /\ Shows(en, val, n)
  BY DEF Walks
<1>2. Shaped(e, n) /\ n \in Nat /\ DOMAIN en = 1 .. n /\ Len(es) \in Nat
  BY WellFormedFacts DEF Sound, Holds
<1>3. Says(e, val, calls[p - 1], calls[p])
  BY <1>1 DEF Conveys, Tells
<1>4. \A k \in 1 .. Len(e.ins) : Bears(en[e.ins[k]], val[e.ins[k]])
  BY <1>1, ReadyAt
<1>5. Ready(e, en, val)
  BY <1>4 DEF Ready
<1>6. Numbers(Len(made), e, calls[p - 1])
  BY <1>1 DEF Numbers
<1>7. Spans(en, n)
  BY <1>2 DEF Spans
<1> HIDE DEF e
<1>8. Writes(Written(e, en, Len(made)), e, en, val, n)
  BY <1>2, <1>3, <1>5, <1>6, <1>7, WrittenBears
<1>9. Writes(after, e, en, val, n)
  BY <1>8 DEF e
<1>10. ASSUME NEW s \in 1 .. n, nx[s] # NoArray
       PROVE  Bears(nx[s], val[s])
  <2>1. nx[s] = after[s]
    BY <1>2, <1>10
  <2>2. CASE s \in ToSet(e.outs)
    BY <1>9, <2>1, <2>2 DEF Writes
  <2>3. CASE s \notin ToSet(e.outs)
    <3>1. nx[s] = en[s]
      BY <1>9, <2>1, <2>3 DEF Writes
    <3> QED  BY <1>1, <1>10, <3>1 DEF Shows
  <2> QED  BY <2>2, <2>3
<1>11. Shows(nx, val, n)
  BY <1>10 DEF Shows
<1>12. next = calls[p]
  <2>1. CASE e.op = "print"
    <3>1. 1 \in 1 .. Len(e.ins)
      <4>1. Takes(e, Len(e.ins))
        BY <1>2, ShapedTakes
      <4>2. Len(e.ins) = 1
        BY <2>1, <4>1 DEF Takes
      <4> QED  BY <4>2
    <3>2. en[e.ins[1]].term = val[e.ins[1]]
      BY <1>4, <3>1 DEF Bears
    <3>3. calls[p] = Append(made, val[e.ins[1]])
      BY <1>1, <1>3, <2>1 DEF Says
    <3> QED  BY <2>1, <3>2, <3>3 DEF e
  <2>2. CASE e.op # "print"
    BY <1>1, <1>3, <2>2 DEF Says, e
  <2> QED  BY <2>1, <2>2
<1>13. (p + 1) - 1 = p
  OBVIOUS
<1> QED  BY <1>1, <1>11, <1>12, <1>13 DEF Walks

\* What is handed over holds what the walk left.
LEMMA HandedTerms ==
  ASSUME NEW os, NEW en, \A j \in DOMAIN os : IsArray(en[os[j]]), NEW c, NEW back,
         NEW got, got = AsHanded(AsDeduped(AsCopied(os, en, c)), c, back)
  PROVE  DOMAIN got = DOMAIN os /\ \A j \in DOMAIN os : got[j].term = en[os[j]].term
<1> DEFINE a == AsCopied(os, en, c)
           b == AsDeduped(a)
<1>1. ASSUME NEW x, IsArray(x), NEW j
      PROVE  FreshCopy(x, j).term = x.term /\ IsArray(FreshCopy(x, j))
  <2> DEFINE o == <<"copy", j>>
             y == FreshCopy(x, j)
  <2>1. y = [x EXCEPT !.obj = o, !.buf = o]
    BY DEF FreshCopy
  <2> HIDE DEF o, y
  <2>2. y = [term |-> x.term, obj |-> o, buf |-> o]
    BY <1>1, <2>1 DEF IsArray
  <2>3. y.term = x.term /\ IsArray(y)
    BY <2>2 DEF IsArray
  <2> QED  BY <2>3 DEF y
<1>2. DOMAIN a = DOMAIN os
      /\ \A j \in DOMAIN os : a[j] = IF j \in c.copy THEN FreshCopy(en[os[j]], j) ELSE en[os[j]]
  BY DEF AsCopied
<1>3. \A j \in DOMAIN os : a[j].term = en[os[j]].term /\ IsArray(a[j])
  BY <1>1, <1>2
<1> HIDE DEF a
<1>4. DOMAIN b = DOMAIN os
      /\ \A j \in DOMAIN os : b[j] = IF \E i \in 1 .. j - 1 : a[i].obj = a[j].obj THEN FreshCopy(a[j], j) ELSE a[j]
  BY <1>2 DEF AsDeduped
<1>5. \A j \in DOMAIN os : b[j].term = en[os[j]].term /\ IsArray(b[j])
  BY <1>1, <1>3, <1>4
<1> HIDE DEF b
<1>6. DOMAIN got = DOMAIN os
      /\ \A j \in DOMAIN os : got[j] = IF \E x \in c.exempt : x[1] = j /\ x[2] \cap back # {} THEN FreshCopy(b[j], j) ELSE b[j]
  BY <1>4 DEF AsHanded, a, b
<1> QED  BY <1>1, <1>5, <1>6

(* The calls made and the arrays handed over are those of the meaning. *)
Meant(made, got, m, xs) == made = m.calls /\ \A j \in DOMAIN got : got[j].term = m.val[xs[j]].term

LEMMA EndMeans ==
  ASSUME NEW es, NEW n, NEW os, WellFormed(es, n, os), NEW m, NEW xs, NEW p, p = Len(es) + 1,
         NEW en, Holds(en, es, n, os, p), NEW made, Walks(es, n, os, m, xs, en, made, p),
         NEW c, NEW back, NEW got, got = AsHanded(AsDeduped(AsCopied(os, en, c)), c, back)
  PROVE  Meant(made, got, m, xs)
<1>1. PICK val, calls : Conveys(es, os, m, xs, val, calls) /\ made = calls[p - 1] /\ Shows(en, val, n)
  BY DEF Walks
<1>2. Len(es) \in Nat /\ os \in Seq(1 .. n)
  BY WellFormedFacts
<1>3. p - 1 = Len(es)
  <2>1. \A k \in Nat : (k + 1) - 1 = k
    OBVIOUS
  <2>2. (Len(es) + 1) - 1 = Len(es)
    BY <1>2, <2>1
  <2> QED  BY <2>2
<1>4. made = m.calls
  BY <1>1, <1>3 DEF Conveys
<1>5. ASSUME NEW j \in DOMAIN os
      PROVE  Bears(en[os[j]], val[os[j]])
  <2>1. os[j] \in ToSet(os) /\ os[j] \in 1 .. n
    <3>1. ToSet(os) = {os[i] : i \in 1 .. Len(os)} /\ DOMAIN os = 1 .. Len(os)
      BY <1>2, OfItsOwn
    <3>2. os[j] \in 1 .. n
      BY <1>2, <3>1, ElementOf
    <3> QED  BY <3>1, <3>2
  <2>2. Wanted(os[j], es, os, p) /\ Has(os[j], es, 1 .. Len(es), p)
    BY <2>1 DEF Wanted, WellFormed, Flows
  <2>3. en[os[j]] # NoArray
    BY <2>1, <2>2 DEF Holds
  <2> QED  BY <1>1, <2>1, <2>3 DEF Shows
<1>6. \A j \in DOMAIN os : IsArray(en[os[j]])
  BY <1>5 DEF Bears
<1>7. DOMAIN got = DOMAIN os /\ \A j \in DOMAIN os : got[j].term = en[os[j]].term
  BY <1>6, HandedTerms
<1>8. \A j \in DOMAIN os : got[j].term = m.val[xs[j]].term
  BY <1>1, <1>5, <1>7 DEF Conveys, Bears
<1> QED  BY <1>4, <1>7, <1>8 DEF Meant

MeansInv ==
  /\ phase \notin {"run", "done"} => log = <<>>
  /\ phase = "lower" => Denoted(frame, Meaning, KnownIn(src)) /\ ConstsHold(src, Meaning)
  /\ phase \in {"cse", "fold", "dce", "finish"} => Conveyed(Entries, outputs, Meaning, returned)
  /\ phase = "run" => Walks(Entries, frame.n, outputs, Meaning, returned, env, log, pc)
  /\ MeansItsSource

LEMMA LowerMeans ==
  ASSUME Ops(src), LoweredTo(frame, KnownIn(src)), NEW m, m = MeaningOf(src),
         Denoted(frame, m, KnownIn(src)), ConstsHold(src, m), NEW op, Proper(op, KnownIn(src)),
         NEW next, next = Append(src, op), NEW g, g = Lowered(frame, op, Len(src) + 1)
  PROVE  Denoted(g, MeaningOf(next), KnownIn(next)) /\ ConstsHold(next, MeaningOf(next))
<1> DEFINE r == Visited(m, op, Len(src) + 1)
<1>1. src \in Seq(ToSet(src) \cup {op})
  BY DEF Ops
<1>2. MeaningOf(next) = r
  BY <1>1, MeaningNext
<1>3. Fresher(KnownIn(src), Len(src) + 1)
  BY NewIsFresher
<1>4. Denoted(g, r, KnownIn(src) \cup MadeBy(op, Len(src) + 1))
  BY <1>3, OpKeeps
<1>5. Known = KnownIn(src)
  BY KnownOnes
<1>6. KnownIn(next) \subseteq KnownIn(src) \cup MadeBy(op, Len(src) + 1)
  BY <1>5, NowKnown
<1>7. ConstsHold(next, r)
  BY ConstsNext
<1> HIDE DEF r
<1>8. Denoted(g, r, KnownIn(next))
  BY <1>4, <1>6, FewerDenoted
<1> QED  BY <1>2, <1>7, <1>8

LEMMA MeansInit == TapeInit => MeansInv
<1> SUFFICES ASSUME TapeInit PROVE MeansInv
  OBVIOUS
<1>1. phase = "lower" /\ src = <<>> /\ frame = Frame /\ log = <<>>
  BY DEF TapeInit
<1>2. Meaning = Begun
  <2>1. <<>> \in Seq({1}) /\ 1 \in {1}
    OBVIOUS
  <2>2. MeaningOf(<<>>) = Begun
    BY <2>1, MeaningNext
  <2> QED  BY <1>1, <2>2 DEF Meaning
<1> QED  BY <1>1, <1>2, FirstDenoted DEF MeansInv, MeansItsSource

LEMMA MeansNext == TapeInv /\ MeansInv /\ [TapeNext]_tapeVars => MeansInv'
<1> SUFFICES ASSUME TapeInv, MeansInv, [TapeNext]_tapeVars PROVE MeansInv'
  OBVIOUS
<1> DEFINE n == frame.n
           m == MeaningOf(src)
<1>0. Meaning = m /\ (src' = src => Meaning' = m)
  BY DEF Meaning
<1> HIDE DEF m
<1>1. CASE LowerOp
  <2>1. /\ phase = "lower" /\ phase' = "lower" /\ log = <<>> /\ log' = <<>> /\ Ops(src)
        /\ LoweredTo(frame, KnownIn(src)) /\ Denoted(frame, m, KnownIn(src)) /\ ConstsHold(src, m)
    BY <1>0, <1>1 DEF LowerOp, TapeInv, MeansInv
  <2>2. PICK op \in NextOps : src' = Append(src, op) /\ frame' = Lowered(frame, op, Len(src) + 1)
    BY <1>1 DEF LowerOp
  <2>3. Proper(op, KnownIn(src))
    BY <2>1, NextOpsProper, KnownOnes
  <2>4. Denoted(frame', MeaningOf(src'), KnownIn(src')) /\ ConstsHold(src', MeaningOf(src'))
    BY <2>1, <2>2, <2>3, LowerMeans DEF m
  <2>5. Meaning' = MeaningOf(src')
    BY DEF Meaning
  <2> QED  BY <2>1, <2>4, <2>5 DEF MeansInv, MeansItsSource
<1>2. CASE Terminate
  <2>1. /\ phase = "lower" /\ phase' = "cse" /\ log = <<>> /\ log' = <<>> /\ Ops(src) /\ frame' = frame
        /\ src' = src /\ LoweredTo(frame, KnownIn(src)) /\ src # <<>> /\ Denoted(frame, m, KnownIn(src))
    BY <1>0, <1>2 DEF Terminate, TapeInv, MeansInv
  <2>2. Known = KnownIn(src) /\ <<Len(src), 1>> \in Known
    BY <2>1, KnownOnes
  <2>3. returned' \in Seq(KnownIn(src))
    <3>1. PICK v \in Known : \E w \in {v} \cup {<<Len(src), 1>>} :
            returned' = IF v = w THEN <<v>> ELSE <<v, w>>
      BY <1>2 DEF Terminate
    <3>2. PICK w \in {v} \cup {<<Len(src), 1>>} : returned' = IF v = w THEN <<v>> ELSE <<v, w>>
      BY <3>1
    <3>3. v \in KnownIn(src) /\ w \in KnownIn(src)
      BY <2>2
    <3>4. <<v>> \in Seq(KnownIn(src)) /\ <<v, w>> \in Seq(KnownIn(src))
      BY <3>3
    <3> QED  BY <3>2, <3>4
  <2>4. outputs' = [j \in DOMAIN returned' |-> frame.slot[returned'[j]]]
    BY <1>2 DEF Terminate
  <2>5. Conveyed(frame.entries, outputs', m, returned')
    BY <2>1, <2>3, <2>4, ReturnConveys
  <2> QED  BY <1>0, <2>1, <2>5 DEF MeansInv, MeansItsSource, Entries
<1>3. CASE CsePass
  <2>1. /\ phase = "cse" /\ phase' = "fold" /\ log = <<>> /\ log' = <<>> /\ src' = src
        /\ returned' = returned /\ IsFrame(frame) /\ WellFormed(frame.entries, n, outputs)
        /\ Conveyed(frame.entries, outputs, m, returned)
    BY <1>0, <1>3 DEF CsePass, TapeInv, MeansInv, Entries
  <2>2. Conveyed(frame'.entries, outputs', m, returned)
    <3>1. CASE CsePassOn
      <4> DEFINE es == Merged(frame.entries, n).kept
                 to == Merged(frame.entries, n).remap
                 os == [j \in DOMAIN outputs |-> to[outputs[j]]]
      <4>1. frame' = [frame EXCEPT !.entries = es] /\ outputs' = os
        BY <1>3, <3>1 DEF CsePass, Entries
      <4>2. Conveyed(es, os, m, returned)
        BY <2>1, MergeConveys
      <4> HIDE DEF es, os
      <4>3. frame'.entries = es
        BY <2>1, <4>1 DEF IsFrame
      <4> QED  BY <4>1, <4>2, <4>3
    <3>2. CASE ~ CsePassOn
      BY <1>3, <2>1, <3>2 DEF CsePass
    <3> QED  BY <3>1, <3>2
  <2> QED  BY <1>0, <2>1, <2>2 DEF MeansInv, MeansItsSource, Entries
<1>4. CASE FoldConstants
  <2>1. /\ phase = "fold" /\ phase' = "dce" /\ log = <<>> /\ log' = <<>> /\ src' = src
        /\ returned' = returned /\ outputs' = outputs /\ IsFrame(frame)
        /\ WellFormed(frame.entries, n, outputs) /\ Conveyed(frame.entries, outputs, m, returned)
    BY <1>0, <1>4 DEF FoldConstants, TapeInv, MeansInv, Entries
  <2>2. Conveyed(frame'.entries, outputs, m, returned)
    <3> DEFINE f == Folded(frame.entries, outputs)
               es == f.entries
               cv == Retainted(es, frame.cview \cup f.payloads)
    <3>1. frame' = [frame EXCEPT !.entries = es, !.cview = cv] \/ frame' = frame
      BY <1>4 DEF FoldConstants, Entries
    <3>2. Conveyed(es, outputs, m, returned)
      BY <2>1, FoldConveys
    <3> HIDE DEF es, cv
    <3>3. frame' = [frame EXCEPT !.entries = es, !.cview = cv] => frame'.entries = es
      BY <2>1 DEF IsFrame
    <3> QED  BY <2>1, <3>1, <3>2, <3>3
  <2> QED  BY <1>0, <2>1, <2>2 DEF MeansInv, MeansItsSource, Entries
<1>5. CASE DcePass
  <2>1. /\ phase = "dce" /\ phase' = "finish" /\ log = <<>> /\ log' = <<>> /\ src' = src
        /\ returned' = returned /\ outputs' = outputs /\ IsFrame(frame)
        /\ WellFormed(frame.entries, n, outputs) /\ Conveyed(frame.entries, outputs, m, returned)
    BY <1>0, <1>5 DEF DcePass, TapeInv, MeansInv, Entries
  <2>2. Conveyed(frame'.entries, outputs, m, returned)
    <3> DEFINE es == Needed(frame.entries, outputs)
    <3>1. frame' = [frame EXCEPT !.entries = es] \/ frame' = frame
      BY <1>5 DEF DcePass
    <3>2. Conveyed(es, outputs, m, returned)
      BY <2>1, NeedConveys
    <3> HIDE DEF es
    <3>3. frame' = [frame EXCEPT !.entries = es] => frame'.entries = es
      BY <2>1 DEF IsFrame
    <3> QED  BY <2>1, <3>1, <3>2, <3>3
  <2> QED  BY <1>0, <2>1, <2>2 DEF MeansInv, MeansItsSource, Entries
<1>6. CASE Finish
  <2>1. /\ phase = "finish" /\ phase' = "run" /\ pc = 1 /\ pc' = 1 /\ log = <<>> /\ log' = <<>>
        /\ src' = src /\ returned' = returned /\ outputs' = outputs /\ frame' = frame
        /\ Conveyed(frame.entries, outputs, m, returned)
    BY <1>0, <1>6 DEF Finish, TapeInv, MeansInv, Entries
  <2>2. env' = [s \in 1 .. n |->
                  IF s \in Args THEN [term |-> <<"arg", s>>, obj |-> <<"arg", s>>, buf |-> <<"arg", s>>]
                  ELSE NoArray]
    BY <1>6 DEF Finish
  <2>3. Walks(frame.entries, n, outputs, m, returned, env', <<>>, 1)
    BY <2>1, <2>2, StartWalks
  <2> QED  BY <1>0, <2>1, <2>3 DEF MeansInv, MeansItsSource, Entries
<1>7. CASE Step
  <2>1. /\ phase = "run" /\ phase' = "run" /\ src' = src /\ returned' = returned
        /\ outputs' = outputs /\ frame' = frame /\ WellFormed(frame.entries, n, outputs)
        /\ pc \in 1 .. Len(frame.entries) + 1 /\ pc <= Len(frame.entries) /\ pc' = pc + 1
        /\ Holds(env, frame.entries, n, outputs, pc)
        /\ Walks(frame.entries, n, outputs, m, returned, env, log, pc)
    BY <1>0, <1>7 DEF Step, TapeInv, MeansInv, Entries
  <2>2. pc \in 1 .. Len(frame.entries)
    <3>1. Len(frame.entries) \in Nat
      BY <2>1, WellFormedFacts
    <3> QED  BY <2>1, <3>1
  <2> DEFINE e == frame.entries[pc]
             after == Written(e, env, Len(log))
             dropped == drops[pc]
  <2>3. /\ env' = [s \in DOMAIN env |-> IF s \in dropped THEN NoArray ELSE after[s]]
        /\ log' = IF e.op = "print" THEN Append(log, env[e.ins[1]].term) ELSE log
    BY <1>7 DEF Step, Entries
  <2> HIDE DEF dropped
  <2>4. Walks(frame.entries, n, outputs, m, returned, env', log', pc + 1)
    BY <2>1, <2>2, <2>3, StepWalks
  <2> HIDE DEF e, after
  <2> QED  BY <1>0, <2>1, <2>4 DEF MeansInv, MeansItsSource, Entries
<1>8. CASE Return
  <2>1. /\ phase = "run" /\ phase' = "done" /\ src' = src /\ returned' = returned /\ log' = log
        /\ WellFormed(frame.entries, n, outputs)
        /\ pc \in 1 .. Len(frame.entries) + 1 /\ pc > Len(frame.entries)
        /\ Holds(env, frame.entries, n, outputs, pc)
        /\ Walks(frame.entries, n, outputs, m, returned, env, log, pc)
    BY <1>0, <1>8 DEF Return, TapeInv, MeansInv, Entries
  <2>2. pc = Len(frame.entries) + 1
    <3>1. Len(frame.entries) \in Nat
      BY <2>1, WellFormedFacts
    <3> QED  BY <2>1, <3>1
  <2>3. PICK back \in SUBSET chosen.donated :
          outs' = AsHanded(AsDeduped(AsCopied(outputs, env, copies)), copies, back)
    BY <1>8 DEF Return, AsHanded, AsDeduped, AsCopied
  <2>4. Meant(log, outs', m, returned)
    BY <2>1, <2>2, <2>3, EndMeans
  <2> QED  BY <1>0, <2>1, <2>4 DEF MeansInv, MeansItsSource, Meant
<1>9. CASE Done
  BY <1>9 DEF Done, tapeVars, MeansInv, MeansItsSource, Meaning, Entries
<1>10. CASE UNCHANGED tapeVars
  BY <1>10 DEF tapeVars, MeansInv, MeansItsSource, Meaning, Entries
<1> QED  BY <1>1, <1>2, <1>3, <1>4, <1>5, <1>6, <1>7, <1>8, <1>9, <1>10 DEF TapeNext

(* The tape means what the block it was lowered from means: whatever the   *)
(* block, merging entries, folding constants and dropping what nothing     *)
(* reads change neither the arrays a program returns nor the host calls it *)
(* makes, their operands and their order (Lowering::LowerOpImpl, CsePass,  *)
(* FoldConstants, DcePass and Program::interpret).                         *)
THEOREM TapeMeansItsSource == TapeSpec => []MeansItsSource
<1>1. TapeSpec => []TapeInv
  BY InvInit, InvNext, PTL DEF TapeSpec
<1>2. TapeSpec => []MeansInv
  BY <1>1, MeansInit, MeansNext, PTL DEF TapeSpec
<1>3. MeansInv => MeansItsSource
  BY DEF MeansInv
<1> QED  BY <1>2, <1>3, PTL

=============================================================================

------------------------- MODULE ProgramLadderProofs -------------------------
(***************************************************************************)
(* Proofs about the recovery ladder, for every set of loops and plans.     *)
(*                                                                         *)
(* The argument.  Between two actions the walk owes nothing: each arm      *)
(* proves what it calls before it returns, so the only unproven values are *)
(* those of main's compiled graph while settle_msl owns them.  A launch of *)
(* a VALIDATED kernel is lazy, so this rests on validated kernels having   *)
(* been built; and since settle_msl validates all that is pending at once, *)
(* that rests on every pending kernel being retired, built, or in a loop   *)
(* the walk has still to reach.                                            *)
(*                                                                         *)
(* What is retired: a kernel dies on an eager walk, when main has no graph *)
(* and the loop it dies in either none or none that embeds it; or with all *)
(* the graphs, in settle_msl, whose third round has no kernel to blame.    *)
(***************************************************************************)
EXTENDS ProgramLadder, TLAPS

Walking == {"host", "loop", "many", "manySubmit", "one", "submit"}
InLoop == {"many", "manySubmit", "one"}
CompilesMain == compiles /\ Main \notin disabled

\* The kernels of the loops from the i-th on.
Later(i) ==
  {p \in Plans : \E j \in i .. Len(LoopSeq) :
     \/ p = Own[LoopSeq[j]]
     \/ ~Alive(Own[LoopSeq[j]]) /\ p = Inner[LoopSeq[j]]}

Loose == pending \ (dead \cup built)

\* Only a call that settle_msl has still to settle owes anything.
OwesOnlyPending == owed # {} => pc = "settle" /\ pending # {}

\* A kernel that is launched lazily has been built, and all built things can.
ProvenBuilt ==
  /\ validated \ dead \subseteq built
  /\ built \cap bad = {}

\* Where the pending kernels are.
Covered ==
  /\ pending \ dead \subseteq Later(1)
  /\ pc \in {"loop", "many", "one"} => Loose \subseteq Later(pos)
  /\ pc \in {"manySubmit", "submit"} => Loose \subseteq Later(pos + 1)
  /\ pc = "settle" => Loose \subseteq owed
  /\ pc = "host" => pos = 1

\* The attempts: the compiled main is tried first, and once.
Attempts ==
  /\ pc = "call" => CompilesMain /\ used
  /\ pc \in {"try", "call"} /\ CompilesMain => pending = {} /\ attempt = 0
  /\ pc \in Walking => ~used /\ ~CompilesMain
  /\ pc = "catch" /\ used => compiles /\ attempt = 0
  /\ pc = "catch" /\ ~used => ~CompilesMain
  /\ host => ~compiles
  /\ pc = "host" => host

\* The loop the walk is in has no kernel to stand for it.
LoopInv == pc \in InLoop => ~Alive(Own[Cur]) /\ retries <= 3

\* A body's graph embeds the kernel inside the body, while that is alive.
EmbedsLive ==
  \A l \in Loops, k \in {"one", "many", "spec"} :
    <<l, k>> \in graphs /\ Inner[l] \in Plans \ dead =>
      Inner[l] \in embeds[<<l, k>>]

\* Where host calls may stand.
Sited ==
  /\ host = (sites # {})
  /\ pc = "host" => Main \in sites
  /\ pc \in {"many", "manySubmit"} => Cur \notin sites

\* The walk of this attempt has not come to the i-th loop (or, 0, to main's
\* own call), or is redoing one of its iterations.
Ahead(i) ==
  \/ pc \in {"try", "call", "host"}
  \/ pc \in {"loop", "many", "manySubmit"} /\ pos <= i
  \/ pc \in {"one", "submit"} /\ pos < i
Within(i) == pc = "one" /\ i = pos

\* The calls this attempt may have made there: with no limit met, and at most.
Once(i) == IF Ahead(i) \/ Within(i) THEN 0 ELSE 1
Often(i) == IF Ahead(i) THEN 0 ELSE IF Within(i) THEN retries ELSE 4

\* Host calls are counted by the attempts and the redone iterations, and both
\* by the limits.
Effects ==
  /\ \A i \in Sites :
       /\ ~host => effects[i] = 0
       /\ i = 0 => effects[i] <= attempt + Once(i)
       /\ effects[i] <= 4 * attempt + Often(i)
       /\ ~exhausted => effects[i] <= Once(i)
  /\ host /\ attempt > 0 => exhausted
  /\ pc = "catch" /\ exc = "limit" => exhausted

IInv ==
  /\ TypeOK
  /\ NoWedge
  /\ OwesOnlyPending
  /\ ProvenBuilt
  /\ Covered
  /\ Attempts
  /\ LoopInv
  /\ EmbedsLive
  /\ DisabledHoldNothing
  /\ Sited
  /\ Effects

---------------------------------------------------------------------------
(* What the building blocks return. *)

LEMMA CurIsLoop ==
  ASSUME TypeOK
  PROVE  /\ Cur \in Loops /\ Len(LoopSeq) \in Nat
         /\ Own[Cur] \in Plans \cup {NoPlan} /\ Inner[Cur] \in Plans \cup {NoPlan}
         /\ \A k \in {"one", "many", "spec"} : <<Cur, k>> \in Graphs
         /\ MainGraph \in Graphs
  <1>1. Len(LoopSeq) \in Nat
    BY LadderAssumption
  <1>2. Cur \in Loops
    BY <1>1 DEF TypeOK, Cur, Loops
  <1>3. Own[Cur] \in Plans \cup {NoPlan} /\ Inner[Cur] \in Plans \cup {NoPlan}
    BY <1>2, LadderAssumption
  <1> QED
    BY <1>1, <1>2, <1>3 DEF Graphs

\* Caching a graph keeps the cache well-typed, and what it embeds are plans.
LEMMA CacheType ==
  ASSUME TypeOK, NEW g \in Graphs
  PROVE  /\ Embedded(g) \subseteq Plans
         /\ Pended(g) \subseteq Plans
         /\ Owes(g) \subseteq Plans \cup Graphs
         /\ Cache(g) => graphs' \subseteq Graphs
                        /\ embeds' \in [Graphs -> SUBSET Plans]
  <1>1. PlansIn(g) \subseteq Plans
    BY DEF PlansIn
  <1>2. embeds[g] \subseteq Plans
    BY DEF TypeOK
  <1>3. Embedded(g) \subseteq Plans /\ Pended(g) \subseteq Plans
    BY <1>1, <1>2 DEF Embedded, Pended, TypeOK
  <1> QED
    BY <1>3 DEF Owes, Cache, TypeOK

\* So does forgetting some.
LEMMA ForgetType ==
  ASSUME TypeOK, NEW gs, Forget(gs)
  PROVE  /\ graphs' \subseteq Graphs
         /\ embeds' \in [Graphs -> SUBSET Plans]
         /\ built' \subseteq Plans \cup Graphs
  BY DEF Forget, TypeOK

\* `drop_compiled` of main or of a loop.
LEMMA DropType ==
  ASSUME TypeOK, NEW n \in Programs, DropCompiled(n)
  PROVE  /\ graphs' \subseteq Graphs /\ embeds' \in [Graphs -> SUBSET Plans]
         /\ built' \subseteq Plans \cup Graphs
         /\ disabled' \subseteq Programs /\ specOff' \subseteq Loops
  BY ForgetType DEF DropCompiled, TypeOK

\* What an attempt may have called, there.
LEMMA CountsType ==
  ASSUME TypeOK, NEW i \in Sites
  PROVE  /\ i \in Nat /\ Once(i) \in 0 .. 1 /\ Often(i) \in 0 .. 4
         /\ effects[i] \in Nat /\ attempt \in 0 .. 2
         /\ 0 \in Sites /\ pos \in Sites /\ pos # 0
  <1>1. Len(LoopSeq) \in Nat /\ i \in 0 .. Len(LoopSeq)
        /\ pos \in 1 .. Len(LoopSeq)
    BY CurIsLoop DEF TypeOK, Sites
  <1>2. Once(i) \in 0 .. 1 /\ Often(i) \in 0 .. 4
    BY DEF Once, Often, TypeOK
  <1> QED
    BY <1>1, <1>2 DEF TypeOK, Sites

\* A body's host call: one more, in this iteration's place, where there is one.
LEMMA MayCall ==
  ASSUME TypeOK, BodyMayCall
  PROVE  /\ effects' \in [Sites -> Nat]
         /\ \A i \in Sites : effects'[i] =
              effects[i] \/ (i = pos /\ Cur \in sites /\ effects'[i] = effects[i] + 1)
  BY CountsType DEF BodyMayCall, BodyCalls, TypeOK

---------------------------------------------------------------------------
(* The sets the variables keep to. *)

LEMMA TypeStep ==
  ASSUME IInv, Next PROVE TypeOK'
  <1> USE DEF IInv, facts, cached, retired, counters
  <1>1. CASE Enter
    <2>1. effects' \in [Sites -> Nat] /\ runs' \in 0 .. MaxRuns
      BY <1>1, LadderAssumption DEF Enter, TypeOK
    <2> QED
      BY <1>1, <2>1, CurIsLoop DEF Enter, TypeOK, PCs, Throwables, Programs
  <1>2. CASE Try
    BY <1>2, CurIsLoop DEF Try, TypeOK, PCs, Throwables, Programs
  <1>3. CASE MainCalled
    BY <1>3, CurIsLoop, CacheType
       DEF MainCalled, Builds, TypeOK, PCs, Throwables, Programs
  <1>4. CASE MainFails
    BY <1>4, CurIsLoop, CacheType
       DEF MainFails, Throw, Note, Builds, TypeOK, PCs, Throwables, Programs
  <1>5. CASE HostCall
    <2>1. effects' \in [Sites -> Nat]
      <3>1. effects' = [effects EXCEPT ![0] = @ + 1]
        BY <1>5 DEF HostCall
      <3>2. 0 \in Sites
        BY CurIsLoop DEF Sites
      <3>3. effects \in [Sites -> Nat]
        BY DEF TypeOK
      <3> QED
        BY <3>1, <3>2, <3>3
    <2> QED
      BY <1>5, <2>1, CurIsLoop
         DEF HostCall, Throw, Note, TypeOK, PCs, Throwables, Programs
  <1>6. CASE KernelLaunch
    BY <1>6, CurIsLoop
       DEF KernelLaunch, Launch, Builds, Alive, TypeOK, PCs, Throwables,
           Programs
  <1>7. CASE KernelDies
    BY <1>7, CurIsLoop
       DEF KernelDies, Kill, Throw, Note, Alive, TypeOK, PCs, Throwables,
           Programs
  <1>8. CASE RunsNothing
    BY <1>8, CurIsLoop DEF RunsNothing, TypeOK, PCs, Throwables, Programs
  <1>9. CASE EnterLoop
    BY <1>9, CurIsLoop DEF EnterLoop, TypeOK, PCs, Throwables, Programs
  <1>10. CASE ChunkCalled
    <2>1. PICK kind \in {"many", "spec"} :
            Cache(<<Cur, kind>>) /\ pending' = Pended(<<Cur, kind>>)
            /\ Builds(Owes(<<Cur, kind>>))
      BY <1>10 DEF ChunkCalled
    <2>2. <<Cur, kind>> \in Graphs
      BY CurIsLoop
    <2> QED
      BY <1>10, <2>1, <2>2, CacheType
         DEF ChunkCalled, Builds, TypeOK, PCs, Throwables, Programs
  <1>11. CASE SpecFails
    <2>1. <<Cur, "spec">> \in Graphs
      BY CurIsLoop
    <2>2. Forget({<<Cur, "spec">>}) /\ pending' \in {pending, Pended(<<Cur, "spec">>)}
      BY <1>11 DEF SpecFails
    <2>3. pending' \subseteq Plans
      BY <2>1, <2>2, CacheType DEF TypeOK
    <2>4. graphs' \subseteq Graphs /\ embeds' \in [Graphs -> SUBSET Plans]
          /\ built' \subseteq Plans \cup Graphs
      BY <2>2, ForgetType
    <2> QED
      BY <1>11, <2>3, <2>4, CurIsLoop
         DEF SpecFails, Note, TypeOK, PCs, Throwables, Programs
  <1>12. CASE ChunkFails
    <2>1. <<Cur, "many">> \in Graphs
      BY CurIsLoop
    <2>2. /\ Cache(<<Cur, "many">>)
          /\ pending' \in {pending, Pended(<<Cur, "many">>)}
      BY <1>12 DEF ChunkFails
    <2>3. pending' \subseteq Plans
      BY <2>1, <2>2, CacheType DEF TypeOK
    <2> QED
      BY <1>12, <2>1, <2>2, <2>3, CurIsLoop, CacheType
         DEF ChunkFails, Swallow, Note, TypeOK, PCs, Throwables, Programs
  <1>13. CASE EagerBody
    <2>1. effects' \in [Sites -> Nat]
      BY <1>13, MayCall DEF EagerBody, BodyMayCall
    <2> QED
      BY <1>13, <2>1, CurIsLoop
         DEF EagerBody, Launch, Builds, Alive, TypeOK, PCs, Throwables,
             Programs
  <1>14. CASE InnerDies
    <2>1. /\ dead' \subseteq Plans
          /\ retries' \in 0 .. 4
      BY <1>14, CurIsLoop DEF InnerDies, Kill, Alive, LoopInv, InLoop, TypeOK
    <2>2. PICK e \in {"error", "limit"} :
            \/ Note(e) /\ UNCHANGED <<pc, exc, owed, noChunk>>
            \/ Swallow(e)
            \/ Throw(e) /\ UNCHANGED noChunk
      BY <1>14 DEF InnerDies
    <2>4. effects' \in [Sites -> Nat]
      BY <1>14, MayCall DEF InnerDies, TypeOK
    <2>3. /\ pc' \in PCs /\ exc' \in Throwables /\ owed' \subseteq Plans \cup Graphs
          /\ noChunk' \subseteq Loops /\ exhausted' \in BOOLEAN
      BY <2>2, CurIsLoop DEF Note, Swallow, Throw, TypeOK, PCs, Throwables
    <2> QED
      BY <1>14, <2>1, <2>3, <2>4 DEF InnerDies, TypeOK, PCs, Throwables, Programs
  <1>15. CASE BodyRefused
    <2>1. effects' \in [Sites -> Nat]
      BY <1>15, MayCall DEF BodyRefused
    <2>2. PICK e \in {"oom", "error"} :
            Swallow(e) \/ (Throw(e) /\ UNCHANGED noChunk)
      BY <1>15 DEF BodyRefused
    <2>3. /\ pc' \in PCs /\ exc' \in Throwables /\ owed' \subseteq Plans \cup Graphs
          /\ noChunk' \subseteq Loops /\ exhausted' \in BOOLEAN
      BY <2>2, CurIsLoop DEF Note, Swallow, Throw, TypeOK, PCs, Throwables
    <2> QED
      BY <1>15, <2>1, <2>3 DEF BodyRefused, TypeOK, PCs, Throwables, Programs
  <1>16. CASE OneCalled
    <2>1. <<Cur, "one">> \in Graphs
      BY CurIsLoop
    <2>2. /\ Cache(<<Cur, "one">>) /\ pending' = Pended(<<Cur, "one">>)
          /\ Builds(Owes(<<Cur, "one">>))
      BY <1>16 DEF OneCalled
    <2> QED
      BY <1>16, <2>1, <2>2, CacheType
         DEF OneCalled, Builds, TypeOK, PCs, Throwables, Programs
  <1>17. CASE OneRejected
    <2>1. <<Cur, "one">> \in Graphs /\ Cur \in Programs
      BY CurIsLoop DEF Programs
    <2>2. pending' \in {pending, Pended(<<Cur, "one">>)} /\ DropCompiled(Cur)
      BY <1>17 DEF OneRejected
    <2>3. pending' \subseteq Plans
      BY <2>1, <2>2, CacheType DEF TypeOK
    <2> QED
      BY <1>17, <2>1, <2>2, <2>3, DropType
         DEF OneRejected, TypeOK, PCs, Throwables, Programs
  <1>18. CASE OneLimited
    <2>1. <<Cur, "one">> \in Graphs /\ Cur \in Programs
      BY CurIsLoop DEF Programs
    <2>2. pending' \subseteq Plans
      BY <1>18, <2>1, CacheType DEF OneLimited, RedoAtLimit, TypeOK
    <2>3. retries' \in 0 .. 4 /\ effects' \in [Sites -> Nat]
      BY <1>18, MayCall DEF OneLimited, RedoAtLimit, LoopInv, InLoop, TypeOK
    <2>4. CASE retries' = 2 /\ ~Eager(Cur)
      BY <1>18, <2>1, <2>2, <2>3, <2>4, DropType
         DEF OneLimited, RedoAtLimit, Note, TypeOK, PCs, Throwables, Programs
    <2>5. CASE ~(retries' = 2 /\ ~Eager(Cur))
      <3>1. graphs' \subseteq Graphs /\ embeds' \in [Graphs -> SUBSET Plans]
        BY <1>18, <2>1, <2>5, CacheType DEF OneLimited, RedoAtLimit, TypeOK
      <3> QED
        BY <1>18, <2>2, <2>3, <2>5, <3>1
           DEF OneLimited, RedoAtLimit, Note, Throw, TypeOK, PCs, Throwables, Programs
    <2> QED
      BY <2>4, <2>5
  <1>19. CASE Sync
    <2>1. pos' \in 1 .. Len(LoopSeq) /\ pc' \in PCs
      BY <1>19, CurIsLoop DEF Sync, Advance, TypeOK, PCs
    <2>2. owed' \subseteq Plans \cup Graphs /\ built' \subseteq Plans \cup Graphs
      BY <1>19 DEF Sync, Builds, TypeOK
    <2>3. wedged' \in BOOLEAN
      BY <1>19 DEF Sync, TypeOK
    <2> QED
      BY <1>19, <2>1, <2>2, <2>3 DEF Sync, TypeOK, PCs, Throwables, Programs
  <1>20. CASE SyncFails
    BY <1>20, CurIsLoop
       DEF SyncFails, Swallow, Throw, Note, TypeOK, PCs, Throwables, Programs
  <1>21. CASE RetireCompiled
    <2>1. DropCompiled(Main) /\ Main \in Programs /\ attempt = 0
      BY <1>21 DEF RetireCompiled, Programs, Attempts
    <2> QED
      BY <1>21, <2>1, DropType
         DEF RetireCompiled, TypeOK, PCs, Throwables, Programs
  <1>22. CASE RetryAtLimit
    BY <1>22, CurIsLoop DEF RetryAtLimit, TypeOK, PCs, Throwables, Programs
  <1>23. CASE Leave
    BY <1>23, CurIsLoop DEF Leave, TypeOK, PCs, Throwables, Programs
  <1>24. CASE Settled
    BY <1>24, CurIsLoop DEF Settled, Builds, TypeOK, PCs, Throwables, Programs
  <1>25. CASE SettleRetires
    <2>1. Blamed \subseteq Plans
      BY DEF Blamed, TypeOK
    <2>2. CASE Stops
      BY <1>25, <2>1, <2>2
         DEF SettleRetires, Rerun, Note, TypeOK, PCs, Throwables, Programs
    <2>3. CASE ~Stops
      <3>1. Forget(Graphs) /\ round' = round + 1 /\ round < 2
        BY <1>25, <2>3 DEF SettleRetires, Rerun, Stops, TypeOK
      <3> QED
        BY <1>25, <2>1, <2>3, <3>1, ForgetType
           DEF SettleRetires, Rerun, Note, TypeOK, PCs, Throwables, Programs
    <2> QED
      BY <2>2, <2>3
  <1>26. CASE Destroy
    BY <1>26, CurIsLoop, ForgetType
       DEF Destroy, TypeOK, PCs, Throwables, Programs
  <1> QED
    BY <1>1, <1>2, <1>3, <1>4, <1>5, <1>6, <1>7, <1>8, <1>9, <1>10, <1>11,
       <1>12, <1>13, <1>14, <1>15, <1>16, <1>17, <1>18, <1>19, <1>20, <1>21,
       <1>22, <1>23, <1>24, <1>25, <1>26
       DEF Next, Step

---------------------------------------------------------------------------
(* What is owed, and what is proven. *)

\* Every arm proves what it calls; only main may owe, to settle_msl.
LEMMA OwesStep ==
  ASSUME IInv, Next PROVE OwesOnlyPending' /\ NoWedge'
  <1> USE DEF IInv, facts, cached, retired, counters
  <1>1. CASE Enter
    BY <1>1, CurIsLoop DEF Enter, OwesOnlyPending, NoWedge, ProvenBuilt, Alive
  <1>2. CASE Try
    BY <1>2, CurIsLoop DEF Try, OwesOnlyPending, NoWedge, ProvenBuilt, Alive
  <1>3. CASE MainCalled
    BY <1>3, CurIsLoop
       DEF MainCalled, Builds, OwesOnlyPending, NoWedge, ProvenBuilt, Alive
  <1>4. CASE MainFails
    BY <1>4, CurIsLoop
       DEF MainFails, Throw, Note, OwesOnlyPending, NoWedge, ProvenBuilt,
           Alive
  <1>5. CASE HostCall
    BY <1>5, CurIsLoop
       DEF HostCall, Throw, Note, OwesOnlyPending, NoWedge, ProvenBuilt, Alive
  <1>6. CASE KernelLaunch
    BY <1>6, CurIsLoop
       DEF KernelLaunch, Launch, Builds, OwesOnlyPending, NoWedge,
           ProvenBuilt,
           Alive
  <1>7. CASE KernelDies
    BY <1>7, CurIsLoop
       DEF KernelDies, Kill, Throw, Note, OwesOnlyPending, NoWedge,
           ProvenBuilt, Alive
  <1>8. CASE RunsNothing
    BY <1>8, CurIsLoop
       DEF RunsNothing, OwesOnlyPending, NoWedge, ProvenBuilt, Alive
  <1>9. CASE EnterLoop
    BY <1>9, CurIsLoop
       DEF EnterLoop, OwesOnlyPending, NoWedge, ProvenBuilt, Alive
  <1>10. CASE ChunkCalled
    BY <1>10, CurIsLoop
       DEF ChunkCalled, Builds, OwesOnlyPending, NoWedge, ProvenBuilt, Alive
  <1>11. CASE SpecFails
    BY <1>11, CurIsLoop
       DEF SpecFails, OwesOnlyPending, NoWedge, ProvenBuilt, Alive
  <1>12. CASE ChunkFails
    BY <1>12, CurIsLoop
       DEF ChunkFails, Swallow, Note, OwesOnlyPending, NoWedge, ProvenBuilt,
           Alive
  <1>13. CASE EagerBody
    BY <1>13, CurIsLoop
       DEF EagerBody, Launch, Builds, OwesOnlyPending, NoWedge, ProvenBuilt,
           Alive
  <1>14. CASE InnerDies
    BY <1>14, CurIsLoop
       DEF InnerDies, Kill, Swallow, Throw, Note, OwesOnlyPending, NoWedge,
           ProvenBuilt, Alive
  <1>15. CASE BodyRefused
    BY <1>15, CurIsLoop
       DEF BodyRefused, Swallow, Throw, Note, OwesOnlyPending, NoWedge,
           ProvenBuilt, Alive
  <1>16. CASE OneCalled
    BY <1>16, CurIsLoop
       DEF OneCalled, Builds, OwesOnlyPending, NoWedge, ProvenBuilt, Alive
  <1>17. CASE OneRejected
    BY <1>17, CurIsLoop
       DEF OneRejected, DropCompiled, OwesOnlyPending, NoWedge, ProvenBuilt,
           Alive
  <1>18. CASE OneLimited
    BY <1>18, CurIsLoop
       DEF OneLimited, RedoAtLimit, Note, DropCompiled, Throw, Cache, OwesOnlyPending,
           NoWedge, ProvenBuilt, Alive
  <1>19. CASE Sync
    <2>2. owed = {} /\ owed' = {}
      BY <1>19 DEF Sync, Builds, OwesOnlyPending
    <2>3. wedged' = wedged \/ wedged' = (wedged \/ owed # {})
      BY <1>19 DEF Sync
    <2>4. ~wedged'
      BY <2>2, <2>3 DEF NoWedge
    <2> QED
      BY <2>2, <2>4 DEF OwesOnlyPending, NoWedge
  <1>20. CASE SyncFails
    BY <1>20, CurIsLoop
       DEF SyncFails, Swallow, Throw, Note, OwesOnlyPending, NoWedge,
           ProvenBuilt, Alive
  <1>21. CASE RetireCompiled
    BY <1>21, CurIsLoop
       DEF RetireCompiled, DropCompiled, OwesOnlyPending, NoWedge,
           ProvenBuilt,
           Alive
  <1>22. CASE RetryAtLimit
    BY <1>22, CurIsLoop
       DEF RetryAtLimit, OwesOnlyPending, NoWedge, ProvenBuilt, Alive
  <1>23. CASE Leave
    BY <1>23, CurIsLoop DEF Leave, OwesOnlyPending, NoWedge, ProvenBuilt,
                            Alive
  <1>24. CASE Settled
    BY <1>24, CurIsLoop
       DEF Settled, Builds, OwesOnlyPending, NoWedge, ProvenBuilt, Alive
  <1>25. CASE SettleRetires
    BY <1>25, CurIsLoop
       DEF SettleRetires, Rerun, Stops, Blamed, OwesOnlyPending, NoWedge,
           ProvenBuilt, Alive
  <1>26. CASE Destroy
    BY <1>26, CurIsLoop
       DEF Destroy, OwesOnlyPending, NoWedge, ProvenBuilt, Alive
  <1> QED
    BY <1>1, <1>2, <1>3, <1>4, <1>5, <1>6, <1>7, <1>8, <1>9, <1>10, <1>11,
       <1>12, <1>13, <1>14, <1>15, <1>16, <1>17, <1>18, <1>19, <1>20, <1>21,
       <1>22, <1>23, <1>24, <1>25, <1>26
       DEF Next, Step

\* Erasing graphs unbuilds no kernel.
LEMMA ForgetProven ==
  ASSUME TypeOK, ProvenBuilt, NEW gs, gs \subseteq Graphs, Forget(gs)
  PROVE  validated \ dead \subseteq built' /\ built' \cap bad = {}
  BY LadderAssumption DEF TypeOK, ProvenBuilt, Forget

\* A plan is validated by an eval that built it, and built things can be.
LEMMA ProvenStep ==
  ASSUME IInv, Next PROVE ProvenBuilt'
  <1> USE DEF IInv, facts, cached, retired, counters
  <1>1. CASE Enter
    BY <1>1, CurIsLoop DEF Enter, ProvenBuilt, Forget
  <1>2. CASE Try
    BY <1>2, CurIsLoop DEF Try, ProvenBuilt, Forget
  <1>3. CASE MainCalled
    BY <1>3, CurIsLoop DEF MainCalled, Builds, ProvenBuilt, Forget
  <1>4. CASE MainFails
    BY <1>4, CurIsLoop DEF MainFails, Throw, Note, ProvenBuilt, Forget
  <1>5. CASE HostCall
    BY <1>5, CurIsLoop DEF HostCall, Throw, Note, ProvenBuilt, Forget
  <1>6. CASE KernelLaunch
    BY <1>6, CurIsLoop DEF KernelLaunch, Launch, Builds, ProvenBuilt, Forget
  <1>7. CASE KernelDies
    BY <1>7, CurIsLoop DEF KernelDies, Kill, Throw, Note, ProvenBuilt, Forget
  <1>8. CASE RunsNothing
    BY <1>8, CurIsLoop DEF RunsNothing, ProvenBuilt, Forget
  <1>9. CASE EnterLoop
    BY <1>9, CurIsLoop DEF EnterLoop, ProvenBuilt, Forget
  <1>10. CASE ChunkCalled
    BY <1>10, CurIsLoop DEF ChunkCalled, Builds, ProvenBuilt, Forget
  <1>11. CASE SpecFails
    <2>1. Forget({<<Cur, "spec">>}) /\ {<<Cur, "spec">>} \subseteq Graphs
      BY <1>11, CurIsLoop DEF SpecFails
    <2> QED
      BY <1>11, <2>1, ForgetProven DEF SpecFails, ProvenBuilt
  <1>12. CASE ChunkFails
    BY <1>12, CurIsLoop DEF ChunkFails, Swallow, Note, ProvenBuilt, Forget
  <1>13. CASE EagerBody
    BY <1>13, CurIsLoop DEF EagerBody, Launch, Builds, ProvenBuilt, Forget
  <1>14. CASE InnerDies
    BY <1>14, CurIsLoop
       DEF InnerDies, Kill, Swallow, Throw, Note, ProvenBuilt, Forget
  <1>15. CASE BodyRefused
    BY <1>15, CurIsLoop
       DEF BodyRefused, Swallow, Throw, Note, ProvenBuilt, Forget
  <1>16. CASE OneCalled
    BY <1>16, CurIsLoop DEF OneCalled, Builds, ProvenBuilt, Forget
  <1>17. CASE OneRejected
    <2>1. Forget({g \in Graphs : g[1] = Cur}) /\ {g \in Graphs : g[1] = Cur} \subseteq Graphs
      BY <1>17, CurIsLoop DEF OneRejected, DropCompiled
    <2> QED
      BY <1>17, <2>1, ForgetProven DEF OneRejected, ProvenBuilt
  <1>18. CASE OneLimited
    <2>1. CASE retries' = 2 /\ ~Eager(Cur)
      <3>1. Forget({g \in Graphs : g[1] = Cur})
        BY <1>18, <2>1 DEF OneLimited, RedoAtLimit, DropCompiled
      <3> QED
        BY <1>18, <3>1, ForgetProven DEF OneLimited, RedoAtLimit, ProvenBuilt
    <2>2. CASE ~(retries' = 2 /\ ~Eager(Cur))
      BY <1>18, <2>2 DEF OneLimited, RedoAtLimit, ProvenBuilt
    <2> QED
      BY <2>1, <2>2
  <1>19. CASE Sync
    BY <1>19, CurIsLoop DEF Sync, Builds, Advance, ProvenBuilt, Forget
  <1>20. CASE SyncFails
    BY <1>20, CurIsLoop
       DEF SyncFails, Swallow, Throw, Note, ProvenBuilt, Forget
  <1>21. CASE RetireCompiled
    <2>1. Forget({g \in Graphs : g[1] = Main}) /\ {g \in Graphs : g[1] = Main} \subseteq Graphs
      BY <1>21, CurIsLoop DEF RetireCompiled, DropCompiled
    <2> QED
      BY <1>21, <2>1, ForgetProven DEF RetireCompiled, ProvenBuilt
  <1>22. CASE RetryAtLimit
    BY <1>22, CurIsLoop DEF RetryAtLimit, ProvenBuilt, Forget
  <1>23. CASE Leave
    BY <1>23, CurIsLoop DEF Leave, ProvenBuilt, Forget
  <1>24. CASE Settled
    <2>1. pending \ dead \subseteq built \cup owed
      BY <1>24 DEF Settled, Covered, Loose
    <2>2. pending \ dead \subseteq built' /\ built \subseteq built'
      BY <1>24, <2>1 DEF Settled, Builds
    <2>3. built' \cap bad = {}
      BY <1>24 DEF Settled, Builds, ProvenBuilt
    <2> QED
      BY <1>24, <2>2, <2>3 DEF Settled, ProvenBuilt
  <1>25. CASE SettleRetires
    <2>1. dead \subseteq dead' /\ validated' = validated /\ bad' = bad
      BY <1>25 DEF SettleRetires, Rerun
    <2>2. built' = built \/ Forget(Graphs)
      BY <1>25 DEF SettleRetires, Rerun
    <2>3. validated \ dead \subseteq built' /\ built' \cap bad = {}
      BY <2>2, ForgetProven DEF ProvenBuilt
    <2> QED
      BY <2>1, <2>3 DEF ProvenBuilt
  <1>26. CASE Destroy
    <2>1. Forget({g \in Graphs : g[2] # "spec"}) /\ {g \in Graphs : g[2] # "spec"} \subseteq Graphs
      BY <1>26, CurIsLoop DEF Destroy
    <2> QED
      BY <1>26, <2>1, ForgetProven DEF Destroy, ProvenBuilt
  <1> QED
    BY <1>1, <1>2, <1>3, <1>4, <1>5, <1>6, <1>7, <1>8, <1>9, <1>10, <1>11,
       <1>12, <1>13, <1>14, <1>15, <1>16, <1>17, <1>18, <1>19, <1>20, <1>21,
       <1>22, <1>23, <1>24, <1>25, <1>26
       DEF Next, Step

---------------------------------------------------------------------------
(* The attempts of the ladder, and what they repeat. *)

\* Main's compiled graph is called by the first attempt and by no other.
LEMMA AttemptsStep ==
  ASSUME IInv, Next PROVE Attempts'
  <1> USE DEF IInv, facts, cached, retired, counters
  <1>1. CASE Enter
    BY <1>1 DEF Enter, Attempts, CompilesMain, Walking
  <1>2. CASE Try
    BY <1>2, CurIsLoop, LadderAssumption
       DEF Try, Attempts, CompilesMain, Walking, TypeOK, Sited
  <1>3. CASE MainCalled
    BY <1>3, CurIsLoop, LadderAssumption
       DEF MainCalled, Attempts, CompilesMain, Walking, TypeOK
  <1>4. CASE MainFails
    BY <1>4, CurIsLoop, LadderAssumption
       DEF MainFails, Throw, Note, Attempts, CompilesMain, Walking, TypeOK
  <1>5. CASE HostCall
    BY <1>5, CurIsLoop, LadderAssumption
       DEF HostCall, Throw, Note, Attempts, CompilesMain, Walking, TypeOK
  <1>6. CASE KernelLaunch
    BY <1>6, CurIsLoop, LadderAssumption
       DEF KernelLaunch, Launch, Builds, Attempts, CompilesMain, Walking,
           TypeOK
  <1>7. CASE KernelDies
    BY <1>7, CurIsLoop, LadderAssumption
       DEF KernelDies, Kill, Throw, Note, Attempts, CompilesMain, Walking,
           TypeOK
  <1>8. CASE RunsNothing
    BY <1>8, CurIsLoop, LadderAssumption
       DEF RunsNothing, Attempts, CompilesMain, Walking, TypeOK
  <1>9. CASE EnterLoop
    BY <1>9, CurIsLoop, LadderAssumption
       DEF EnterLoop, Attempts, CompilesMain, Walking, TypeOK
  <1>10. CASE ChunkCalled
    BY <1>10, CurIsLoop, LadderAssumption
       DEF ChunkCalled, Attempts, CompilesMain, Walking, TypeOK
  <1>11. CASE SpecFails
    BY <1>11, CurIsLoop, LadderAssumption
       DEF SpecFails, Attempts, CompilesMain, Walking, TypeOK
  <1>12. CASE ChunkFails
    BY <1>12, CurIsLoop, LadderAssumption
       DEF ChunkFails, Swallow, Note, Attempts, CompilesMain, Walking, TypeOK
  <1>13. CASE EagerBody
    BY <1>13, CurIsLoop, LadderAssumption
       DEF EagerBody, Launch, Builds, Attempts, CompilesMain, Walking, TypeOK
  <1>14. CASE InnerDies
    BY <1>14, CurIsLoop, LadderAssumption
       DEF InnerDies, Kill, Swallow, Throw, Note, Attempts, CompilesMain,
           Walking, TypeOK
  <1>15. CASE BodyRefused
    BY <1>15, CurIsLoop, LadderAssumption
       DEF BodyRefused, Swallow, Throw, Note, Attempts, CompilesMain, Walking,
           TypeOK
  <1>16. CASE OneCalled
    BY <1>16, CurIsLoop, LadderAssumption
       DEF OneCalled, Attempts, CompilesMain, Walking, TypeOK
  <1>17. CASE OneRejected
    BY <1>17, CurIsLoop, LadderAssumption
       DEF OneRejected, DropCompiled, Attempts, CompilesMain, Walking, TypeOK
  <1>18. CASE OneLimited
    BY <1>18, CurIsLoop, LadderAssumption
       DEF OneLimited, RedoAtLimit, Note, DropCompiled, Throw, Attempts, CompilesMain,
           Walking, TypeOK
  <1>19. CASE Sync
    BY <1>19, CurIsLoop, LadderAssumption
       DEF Sync, Builds, Advance, Attempts, CompilesMain, Walking, TypeOK
  <1>20. CASE SyncFails
    BY <1>20, CurIsLoop, LadderAssumption
       DEF SyncFails, Swallow, Throw, Note, Attempts, CompilesMain, Walking,
           TypeOK
  <1>21. CASE RetireCompiled
    BY <1>21, CurIsLoop, LadderAssumption
       DEF RetireCompiled, DropCompiled, Attempts, CompilesMain, Walking,
           TypeOK
  <1>22. CASE RetryAtLimit
    BY <1>22, CurIsLoop, LadderAssumption
       DEF RetryAtLimit, Attempts, CompilesMain, Walking, TypeOK
  <1>23. CASE Leave
    BY <1>23, CurIsLoop, LadderAssumption
       DEF Leave, Attempts, CompilesMain, Walking, TypeOK
  <1>24. CASE Settled
    BY <1>24, CurIsLoop, LadderAssumption
       DEF Settled, Builds, Attempts, CompilesMain, Walking, TypeOK
  <1>25. CASE SettleRetires
    <2>1. /\ compiles' = compiles /\ host' = host /\ disabled' = disabled
          /\ pending' = {} /\ pc' \in {"try", "raised"}
          /\ pc' = "try" => attempt' = 0
      BY <1>25 DEF SettleRetires, Rerun
    <2> QED
      BY <2>1 DEF Attempts, CompilesMain, Walking
  <1>26. CASE Destroy
    BY <1>26, CurIsLoop, LadderAssumption
       DEF Destroy, Attempts, CompilesMain, Walking, TypeOK
  <1> QED
    BY <1>1, <1>2, <1>3, <1>4, <1>5, <1>6, <1>7, <1>8, <1>9, <1>10, <1>11,
       <1>12, <1>13, <1>14, <1>15, <1>16, <1>17, <1>18, <1>19, <1>20, <1>21,
       <1>22, <1>23, <1>24, <1>25, <1>26
       DEF Next, Step

\* `drop_compiled` leaves none of the graphs of the program it disables.
LEMMA DropDisabled ==
  ASSUME TypeOK, DisabledHoldNothing, NEW n, DropCompiled(n)
  PROVE  DisabledHoldNothing'
  BY DEF TypeOK, DisabledHoldNothing, DropCompiled, Forget

\* No arm calls a compiled graph of a program that has been disabled.
LEMMA DisabledStep ==
  ASSUME IInv, Next PROVE DisabledHoldNothing'
  <1> USE DEF IInv, facts, cached, retired, counters
  <1>1. CASE Enter
    BY <1>1, CurIsLoop
       DEF Enter, DisabledHoldNothing, Forget, Attempts, CompilesMain
  <1>2. CASE Try
    BY <1>2, CurIsLoop
       DEF Try, DisabledHoldNothing, Forget, Attempts, CompilesMain
  <1>3. CASE MainCalled
    BY <1>3, CurIsLoop
       DEF MainCalled, Builds, Cache, MainGraph, DisabledHoldNothing, Forget,
           Attempts, CompilesMain
  <1>4. CASE MainFails
    BY <1>4, CurIsLoop
       DEF MainFails, Throw, Note, Cache, MainGraph, DisabledHoldNothing,
           Forget, Attempts, CompilesMain
  <1>5. CASE HostCall
    BY <1>5, CurIsLoop
       DEF HostCall, Throw, Note, DisabledHoldNothing, Forget, Attempts,
           CompilesMain
  <1>6. CASE KernelLaunch
    BY <1>6, CurIsLoop
       DEF KernelLaunch, Launch, Builds, DisabledHoldNothing, Forget,
           Attempts,
           CompilesMain
  <1>7. CASE KernelDies
    BY <1>7, CurIsLoop
       DEF KernelDies, Kill, Throw, Note, DisabledHoldNothing, Forget,
           Attempts, CompilesMain
  <1>8. CASE RunsNothing
    BY <1>8, CurIsLoop
       DEF RunsNothing, DisabledHoldNothing, Forget, Attempts, CompilesMain
  <1>9. CASE EnterLoop
    BY <1>9, CurIsLoop
       DEF EnterLoop, DisabledHoldNothing, Forget, Attempts, CompilesMain
  <1>10. CASE ChunkCalled
    BY <1>10, CurIsLoop
       DEF ChunkCalled, Builds, Cache, MainGraph, DisabledHoldNothing, Forget,
           Attempts, CompilesMain
  <1>11. CASE SpecFails
    BY <1>11, CurIsLoop
       DEF SpecFails, DisabledHoldNothing, Forget, Attempts, CompilesMain
  <1>12. CASE ChunkFails
    BY <1>12, CurIsLoop
       DEF ChunkFails, Swallow, Note, Cache, MainGraph, DisabledHoldNothing,
           Forget, Attempts, CompilesMain
  <1>13. CASE EagerBody
    BY <1>13, CurIsLoop
       DEF EagerBody, Launch, Builds, DisabledHoldNothing, Forget, Attempts,
           CompilesMain
  <1>14. CASE InnerDies
    BY <1>14, CurIsLoop
       DEF InnerDies, Kill, Swallow, Throw, Note, DisabledHoldNothing, Forget,
           Attempts, CompilesMain
  <1>15. CASE BodyRefused
    BY <1>15, CurIsLoop
       DEF BodyRefused, Swallow, Throw, Note, DisabledHoldNothing, Forget,
           Attempts, CompilesMain
  <1>16. CASE OneCalled
    BY <1>16, CurIsLoop
       DEF OneCalled, Eager, Builds, Cache, MainGraph, DisabledHoldNothing,
           Forget, Attempts, CompilesMain
  <1>17. CASE OneRejected
    BY <1>17, DropDisabled DEF OneRejected
  <1>18. CASE OneLimited
    <2>1. CASE retries' = 2 /\ ~Eager(Cur)
      BY <1>18, <2>1, DropDisabled DEF OneLimited, RedoAtLimit
    <2>2. CASE ~(retries' = 2 /\ ~Eager(Cur))
      <3>1. disabled' = disabled
        BY <1>18, <2>2 DEF OneLimited, RedoAtLimit
      <3>2. graphs' = graphs \/ (~Eager(Cur) /\ graphs' = graphs \cup {<<Cur, "one">>})
        BY <1>18, <2>2 DEF OneLimited, RedoAtLimit, Cache
      <3> QED
        BY <3>1, <3>2 DEF DisabledHoldNothing, Eager
    <2> QED
      BY <2>1, <2>2
  <1>19. CASE Sync
    BY <1>19, CurIsLoop
       DEF Sync, Builds, Advance, DisabledHoldNothing, Forget, Attempts,
           CompilesMain
  <1>20. CASE SyncFails
    BY <1>20, CurIsLoop
       DEF SyncFails, Swallow, Throw, Note, DisabledHoldNothing, Forget,
           Attempts, CompilesMain
  <1>21. CASE RetireCompiled
    BY <1>21, DropDisabled DEF RetireCompiled
  <1>22. CASE RetryAtLimit
    BY <1>22, CurIsLoop
       DEF RetryAtLimit, DisabledHoldNothing, Forget, Attempts, CompilesMain
  <1>23. CASE Leave
    BY <1>23, CurIsLoop
       DEF Leave, DisabledHoldNothing, Forget, Attempts, CompilesMain
  <1>24. CASE Settled
    BY <1>24, CurIsLoop
       DEF Settled, Builds, DisabledHoldNothing, Forget, Attempts,
           CompilesMain
  <1>25. CASE SettleRetires
    BY <1>25, CurIsLoop
       DEF SettleRetires, Rerun, Stops, Blamed, DisabledHoldNothing, Forget,
           Attempts, CompilesMain
  <1>26. CASE Destroy
    BY <1>26, CurIsLoop
       DEF Destroy, DisabledHoldNothing, Forget, Attempts, CompilesMain
  <1> QED
    BY <1>1, <1>2, <1>3, <1>4, <1>5, <1>6, <1>7, <1>8, <1>9, <1>10, <1>11,
       <1>12, <1>13, <1>14, <1>15, <1>16, <1>17, <1>18, <1>19, <1>20, <1>21,
       <1>22, <1>23, <1>24, <1>25, <1>26
       DEF Next, Step

---------------------------------------------------------------------------
(* The host calls. *)

\* The tapes that call the host, and where the walk may meet them.
LEMMA SitedStep ==
  ASSUME IInv, Next PROVE Sited'
  <1> USE DEF IInv, facts, cached, retired, counters
  <1>1. CASE Try
    BY <1>1 DEF Try, Sited
  <1>2. CASE EnterLoop
    BY <1>2 DEF EnterLoop, Sited, Cur
  <1>3. CASE ChunkCalled \/ SpecFails \/ EagerBody \/ InnerDies
    <2>1. UNCHANGED <<pos, host, sites>>
      BY <1>3 DEF ChunkCalled, SpecFails, EagerBody, InnerDies
    <2>2. pc' \in {"many", "manySubmit"} => pc = "many"
      BY <1>3 DEF ChunkCalled, SpecFails, EagerBody, InnerDies, Swallow, Throw
    <2>3. pc' # "host"
      BY <1>3 DEF ChunkCalled, SpecFails, EagerBody, InnerDies, Swallow, Throw
    <2> QED
      BY <2>1, <2>2, <2>3 DEF Sited, Cur
  <1>4. CASE Next /\ ~(Try \/ EnterLoop \/ ChunkCalled \/ SpecFails
                       \/ EagerBody \/ InnerDies)
    <2>1. UNCHANGED <<host, sites>>
      BY <1>4
         DEF Next, Step, Enter, MainCalled, MainFails, HostCall, KernelLaunch,
             KernelDies, RunsNothing, ChunkFails, BodyRefused, OneCalled,
             OneRejected, OneLimited, RedoAtLimit, Sync, SyncFails,
             RetireCompiled, RetryAtLimit, Leave, Settled, SettleRetires,
             Rerun, Destroy
    <2>2. pc' \notin {"host", "many", "manySubmit"}
      BY <1>4
         DEF Next, Step, Enter, MainCalled, MainFails, HostCall, KernelLaunch,
             KernelDies, RunsNothing, ChunkFails, BodyRefused, OneCalled,
             OneRejected, OneLimited, RedoAtLimit, Sync, SyncFails, Advance,
             RetireCompiled, RetryAtLimit, Leave, Settled, SettleRetires,
             Rerun, Destroy, Throw, Swallow
    <2> QED
      BY <2>1, <2>2 DEF Sited
  <1> QED
    BY <1>1, <1>2, <1>3, <1>4

\* An attempt and the walk only move on, past what they have called.
Forward ==
  \A i \in Sites : Once(i) <= Once(i)' /\ Often(i) <= Often(i)'

\* What a step that makes no host call must keep.
Kept ==
  /\ UNCHANGED <<effects, host, attempt>>
  /\ exhausted => exhausted'
  /\ pc' = "catch" /\ exc' = "limit" => exhausted'
  /\ Forward

LEMMA Onward ==
  ASSUME TypeOK, TypeOK', pos' = pos,
         \/ pc = "loop" /\ pc' \in {"loop", "many", "one", "submit", "catch"}
         \/ pc = "many" /\ pc' \in {"many", "manySubmit", "one"}
         \/ pc = "manySubmit" /\ pc' = "one"
         \/ pc = "one" /\ pc' = "one" /\ retries' = retries
         \/ pc = "one" /\ pc' = "submit"
         \/ pc = "submit" /\ pc' = "catch"
  PROVE  Forward
  <1> SUFFICES ASSUME NEW i \in Sites
               PROVE  Once(i) <= Once(i)' /\ Often(i) <= Often(i)'
    BY DEF Forward
  <1>1. /\ i \in Nat /\ pos \in Nat /\ retries \in 0 .. 4 /\ retries' \in 0 .. 4
        /\ Once(i) \in 0 .. 1 /\ Often(i) \in 0 .. 4
    BY CountsType DEF TypeOK
  <1>2. Once(i)' \in 0 .. 1 /\ Often(i)' \in 0 .. 4
    BY <1>1 DEF Once, Often
  <1>3. CASE pos < i
    <2>1. Once(i) = 0 /\ Often(i) = 0
      BY <1>1, <1>3 DEF Once, Often, Ahead
    <2> QED
      BY <1>2, <2>1
  <1>4. CASE i < pos
    <2>1. Once(i)' = 1 /\ Often(i)' = 4
      BY <1>1, <1>4 DEF Once, Often, Ahead, Within
    <2> QED
      BY <1>1, <2>1
  <1>5. CASE i = pos
    <2>1. CASE pc \in {"loop", "many", "manySubmit"}
      <3>1. Once(i) = 0 /\ Often(i) = 0
        BY <1>1, <1>5, <2>1 DEF Once, Often, Ahead
      <3> QED
        BY <1>2, <3>1
    <2>2. CASE pc = "one" /\ pc' = "one" /\ retries' = retries
      <3>1. Once(i) = Once(i)' /\ Often(i) = Often(i)'
        BY <2>2 DEF Once, Often, Ahead, Within
      <3> QED
        BY <1>1, <3>1
    <2>3. CASE pc' \in {"submit", "catch"} /\ pc \in {"one", "submit"}
      <3>1. Once(i)' = 1 /\ Often(i)' = 4
        BY <1>1, <1>5, <2>3 DEF Once, Often, Ahead, Within
      <3> QED
        BY <1>1, <3>1
    <2> QED
      BY <2>1, <2>2, <2>3
  <1> QED
    BY <1>1, <1>3, <1>4, <1>5

LEMMA KeptEffects ==
  ASSUME IInv, TypeOK', Kept PROVE Effects'
  <1> USE DEF IInv
  <1>1. ASSUME NEW i \in Sites
        PROVE  /\ ~host' => effects'[i] = 0
               /\ i = 0 => effects'[i] <= attempt' + Once(i)'
               /\ effects'[i] <= 4 * attempt' + Often(i)'
               /\ ~exhausted' => effects'[i] <= Once(i)'
    <2>1. /\ Once(i) \in 0 .. 1 /\ Often(i) \in 0 .. 4 /\ effects[i] \in Nat
          /\ attempt \in 0 .. 2
      BY CountsType
    <2>2. Once(i)' \in 0 .. 1 /\ Often(i)' \in 0 .. 4
      BY DEF Once, Often, TypeOK
    <2>3. Once(i) <= Once(i)' /\ Often(i) <= Often(i)'
      BY DEF Kept, Forward
    <2>4. /\ effects'[i] = effects[i] /\ attempt' = attempt /\ host' = host
          /\ ~exhausted' => ~exhausted
      BY DEF Kept
    <2>5. /\ ~host => effects[i] = 0
          /\ i = 0 => effects[i] <= attempt + Once(i)
          /\ effects[i] <= 4 * attempt + Often(i)
          /\ ~exhausted => effects[i] <= Once(i)
      BY DEF Effects
    <2> QED
      BY <2>1, <2>2, <2>3, <2>4, <2>5
  <1>2. host' /\ attempt' > 0 => exhausted'
    BY DEF Kept, Effects
  <1>3. pc' = "catch" /\ exc' = "limit" => exhausted'
    BY DEF Kept
  <1> QED
    BY <1>1, <1>2, <1>3 DEF Effects

\* A step of the single-step arm that makes one leaves it, or has met the limit.
LEMMA CalledEffects ==
  ASSUME IInv, TypeOK', BodyMayCall, UNCHANGED <<host, attempt, pos>>,
         pc = "one",
         exhausted => exhausted',
         pc' = "catch" /\ exc' = "limit" => exhausted',
         \/ pc' \in {"submit", "catch"}
         \/ pc' = "one" /\ retries' = retries + 1 /\ exhausted'
  PROVE  Effects'
  <1> USE DEF IInv
  <1>1. ASSUME NEW i \in Sites
        PROVE  /\ ~host' => effects'[i] = 0
               /\ i = 0 => effects'[i] <= attempt' + Once(i)'
               /\ effects'[i] <= 4 * attempt' + Often(i)'
               /\ ~exhausted' => effects'[i] <= Once(i)'
    <2>1. /\ effects[i] \in Nat /\ attempt \in 0 .. 2 /\ retries \in 0 .. 3
          /\ i \in Nat /\ pos \in Nat /\ pos # 0
      BY CountsType DEF TypeOK, LoopInv, InLoop
    <2>2. /\ ~host => effects[i] = 0
          /\ i = 0 => effects[i] <= attempt + Once(i)
          /\ effects[i] <= 4 * attempt + Often(i)
          /\ ~exhausted => effects[i] <= Once(i)
      BY DEF Effects
    <2>3. attempt' = attempt /\ host' = host /\ pos' = pos
      OBVIOUS
    <2>4. CASE i = pos
      <3>1. Once(i) = 0 /\ Often(i) = retries
        BY <2>1, <2>4 DEF Once, Often, Ahead, Within
      <3>2. effects'[i] \in Nat /\ effects'[i] <= effects[i] + 1
            /\ (~host => effects'[i] = effects[i])
        <4>1. \/ effects'[i] = effects[i]
              \/ Cur \in sites /\ effects'[i] = effects[i] + 1
          BY MayCall
        <4>2. Cur \in sites => host
          BY DEF Sited
        <4> QED
          BY <2>1, <4>1, <4>2
      <3>3. CASE pc' \in {"submit", "catch"}
        <4>1. Once(i)' = 1 /\ Often(i)' = 4
          BY <2>1, <2>3, <2>4, <3>3 DEF Once, Often, Ahead, Within
        <4> QED
          BY <2>1, <2>2, <2>3, <2>4, <3>1, <3>2, <4>1
      <3>4. CASE pc' = "one" /\ retries' = retries + 1 /\ exhausted'
        <4>1. Often(i)' = retries + 1
          BY <2>1, <2>3, <2>4, <3>4 DEF Often, Ahead, Within
        <4> QED
          BY <2>1, <2>2, <2>3, <2>4, <3>1, <3>2, <3>4, <4>1
      <3> QED
        BY <3>3, <3>4
    <2>5. CASE i # pos
      <3>1. effects'[i] = effects[i]
        BY <2>5, MayCall
      <3>2. Once(i)' \in 0 .. 1 /\ Once(i) \in 0 .. 1
            /\ Often(i)' \in 0 .. 4 /\ Often(i) \in 0 .. 4
        BY CountsType DEF Once, Often, TypeOK
      <3>3. Once(i) <= Once(i)' /\ Often(i) <= Often(i)'
        BY <2>1, <2>3, <2>5 DEF Once, Often, Ahead, Within
      <3> QED
        BY <2>1, <2>2, <2>3, <3>1, <3>2, <3>3
    <2> QED
      BY <2>4, <2>5
  <1>2. host' /\ attempt' > 0 => exhausted'
    BY DEF Effects
  <1> QED
    BY <1>1, <1>2 DEF Effects

\* Nothing is counted of a program that calls no host.
LEMMA NoHostNoEffects ==
  ASSUME IInv, TypeOK', ~host, UNCHANGED <<host, effects>>,
         pc' = "catch" /\ exc' = "limit" => exhausted'
  PROVE  Effects'
  <1> USE DEF IInv
  <1>1. ASSUME NEW i \in Sites
        PROVE  /\ effects'[i] = 0 /\ Once(i)' \in Nat /\ Often(i)' \in Nat
               /\ attempt' \in Nat
    BY DEF Effects, Once, Often, TypeOK
  <1> QED
    BY <1>1 DEF Effects

\* A second host call is the third rung's or the redo's, and they answer
\* limits only.
LEMMA EffectsStep ==
  ASSUME IInv, Next PROVE Effects'
  <1> USE DEF IInv, facts, cached, retired, counters
  <1>0. /\ TypeOK' /\ pos \in 1 .. Len(LoopSeq) /\ Len(LoopSeq) \in Nat
        /\ \A i \in Sites : i \in Nat
    BY TypeStep, CurIsLoop DEF TypeOK, Sites
  <1> DEFINE Kind == /\ UNCHANGED <<effects, host, attempt>>
                     /\ exhausted => exhausted'
                     /\ pc' = "catch" /\ exc' = "limit" => exhausted'
  <1>1. CASE Enter
    <2>1. /\ \A i \in Sites : effects'[i] = 0
          /\ attempt' = 0 /\ pc' = "try"
      BY <1>1 DEF Enter
    <2>2. \A i \in Sites : Once(i)' = 0 /\ Often(i)' = 0
      BY <2>1 DEF Once, Often, Ahead
    <2> QED
      BY <2>1, <2>2 DEF Effects
  <1>2. CASE Try
    <2>1. Kind /\ pc = "try" /\ pc' \in {"call", "host", "loop"} /\ pos' = 1
      BY <1>2 DEF Try
    <2>2. \A i \in Sites : Once(i) = 0 /\ Often(i) = 0
      BY <2>1 DEF Once, Often, Ahead
    <2>3. \A i \in Sites : Once(i)' \in Nat /\ Often(i)' \in Nat
      BY <1>0 DEF Once, Often, TypeOK
    <2> QED
      BY <1>0, <2>1, <2>2, <2>3, KeptEffects DEF Kept, Forward
  <1>3. CASE MainCalled \/ MainFails \/ RetireCompiled
    <2>1. ~host
      BY <1>3 DEF MainCalled, MainFails, RetireCompiled, Attempts, CompilesMain
    <2>2. /\ UNCHANGED <<host, effects>>
          /\ pc' = "catch" /\ exc' = "limit" => exhausted'
      BY <1>3 DEF MainCalled, MainFails, RetireCompiled, Throw, Note
    <2> QED
      BY <1>0, <2>1, <2>2, NoHostNoEffects
  <1>4. CASE HostCall
    <2>1. /\ effects' = [effects EXCEPT ![0] = @ + 1]
          /\ pc = "host" /\ pc' \in {"loop", "catch"}
          /\ UNCHANGED <<host, attempt, pos>>
          /\ pc' = "catch" => exc' \in {"error", "oom"}
      BY <1>4 DEF HostCall, Throw
    <2>2. exhausted' = exhausted /\ host
      BY <1>4 DEF HostCall, Throw, Note, Attempts, TypeOK
    <2>3. ASSUME NEW i \in Sites
          PROVE  /\ i = 0 => effects'[i] <= attempt' + Once(i)'
                 /\ effects'[i] <= 4 * attempt' + Often(i)'
                 /\ ~exhausted' => effects'[i] <= Once(i)'
      <3>1. /\ effects[i] \in Nat /\ attempt \in 0 .. 2 /\ 0 \in Sites
            /\ i = 0 => effects[i] <= attempt + Once(i)
            /\ effects[i] <= 4 * attempt + Often(i)
            /\ ~exhausted => effects[i] <= Once(i)
        BY CountsType DEF Effects
      <3>2. Once(i) = 0 /\ Often(i) = 0
        BY <2>1 DEF Once, Often, Ahead
      <3>3. CASE i = 0
        <4>1. effects'[i] = effects[i] + 1
          BY <2>1, <3>3 DEF TypeOK
        <4>2. Once(i)' = 1 /\ Often(i)' = 4
          BY <1>0, <2>1, <3>3 DEF Once, Often, Ahead, Within
        <4> QED
          BY <2>1, <2>2, <3>1, <3>2, <4>1, <4>2
      <3>4. CASE i # 0
        <4>1. effects'[i] = effects[i]
          BY <2>1, <3>4 DEF TypeOK
        <4>2. Once(i)' \in Nat /\ Often(i)' \in Nat
          BY <1>0 DEF Once, Often, TypeOK
        <4> QED
          BY <2>1, <2>2, <3>1, <3>2, <3>4, <4>1, <4>2
      <3> QED
        BY <3>3, <3>4
    <2> QED
      BY <2>1, <2>2, <2>3 DEF Effects
  <1>5. CASE KernelLaunch \/ KernelDies
    <2>1. /\ Kind /\ pos' = pos /\ pc = "loop"
          /\ pc' \in {"loop", "submit", "catch"}
      <3>1. CASE KernelLaunch
        BY <3>1 DEF KernelLaunch
      <3>2. CASE KernelDies
        BY <3>2 DEF KernelDies, Throw, Note
      <3> QED
        BY <1>5, <3>1, <3>2
    <2>2. Forward
      BY <1>0, <2>1, Onward
    <2> QED
      BY <1>0, <2>1, <2>2, KeptEffects DEF Kept
  <1>6. CASE RunsNothing \/ Settled \/ Destroy \/ Leave
    <2>1. Kind /\ pc' \in {"undefined", "done", "gone", "raised"}
      BY <1>6 DEF RunsNothing, Settled, Destroy, Leave
    <2>2. \A i \in Sites : Once(i)' = 1 /\ Often(i)' = 4
      BY <2>1 DEF Once, Often, Ahead, Within
    <2>3. Forward
      BY <2>2, CountsType DEF Forward
    <2> QED
      BY <1>0, <2>1, <2>3, KeptEffects DEF Kept
  <1>7. CASE EnterLoop
    <2>1. /\ Kind /\ pos' = pos /\ pc = "loop" /\ pc' \in {"many", "one"}
          /\ retries' = 0
      BY <1>7 DEF EnterLoop
    <2>2. Forward
      BY <1>0, <2>1, Onward
    <2> QED
      BY <1>0, <2>1, <2>2, KeptEffects DEF Kept
  <1>8. CASE ChunkCalled \/ SpecFails \/ ChunkFails
    <2>1. /\ Kind /\ pos' = pos /\ pc = "many"
          /\ pc' \in {"many", "manySubmit", "one"} /\ retries' \in Nat
      BY <1>8 DEF ChunkCalled, SpecFails, ChunkFails, Swallow, Note, TypeOK
    <2>2. Forward
      BY <1>0, <2>1, Onward
    <2> QED
      BY <1>0, <2>1, <2>2, KeptEffects DEF Kept
  <1>9. CASE (EagerBody \/ InnerDies \/ BodyRefused) /\ pc = "many"
    <2>1. effects' = effects
      <3>1. BodyMayCall => effects' = effects
        BY <1>9 DEF BodyMayCall, BodyCalls, Sited
      <3> QED
        BY <1>9, <3>1 DEF EagerBody, InnerDies, BodyRefused, BodyMayCall
    <2>2. /\ UNCHANGED <<host, attempt, pos>>
          /\ exhausted => exhausted'
          /\ pc' \in {"many", "manySubmit", "one"} /\ retries' \in Nat
      BY <1>9 DEF EagerBody, InnerDies, BodyRefused, Swallow, Note, TypeOK
    <2>3. Forward
      BY <1>0, <1>9, <2>2, Onward
    <2> QED
      BY <1>0, <2>1, <2>2, <2>3, KeptEffects DEF Kept
  <1>10. CASE (EagerBody \/ BodyRefused) /\ pc = "one"
    <2>1. BodyMayCall
      BY <1>10 DEF EagerBody, BodyRefused, BodyMayCall
    <2>2. /\ UNCHANGED <<host, attempt, pos>>
          /\ pc' \in {"submit", "catch"}
      BY <1>10 DEF EagerBody, BodyRefused, Throw
    <2>3. exhausted => exhausted'
      BY <1>10 DEF EagerBody, BodyRefused, Throw, Note
    <2>4. pc' = "catch" => exc' \in {"oom", "error"}
      BY <1>10 DEF EagerBody, BodyRefused, Throw
    <2> QED
      BY <1>0, <1>10, <2>1, <2>2, <2>3, <2>4, CalledEffects
  <1>11. CASE InnerDies /\ pc = "one"
    <2>1. /\ UNCHANGED <<host, attempt, pos>>
          /\ exhausted => exhausted'
          /\ pc' = "catch" /\ exc' = "limit" => exhausted'
      BY <1>11 DEF InnerDies, Throw, Note
    <2>2. CASE Inner[Cur] \in fallback
      <3>1. Kind /\ pc' = "one" /\ retries' = retries
        BY <1>11, <2>2 DEF InnerDies, Note
      <3>2. Forward
        BY <1>0, <1>11, <2>1, <3>1, Onward
      <3> QED
        BY <1>0, <3>1, <3>2, KeptEffects DEF Kept
    <2>3. CASE Inner[Cur] \notin fallback
      <3>1. BodyMayCall
        BY <1>11, <2>3 DEF InnerDies
      <3>2. \/ pc' = "catch"
            \/ pc' = "one" /\ retries' = retries + 1 /\ exhausted'
        BY <1>11, <2>3 DEF InnerDies, Throw, Note
      <3> QED
        BY <1>0, <1>11, <2>1, <3>1, <3>2, CalledEffects
    <2> QED
      BY <2>2, <2>3
  <1>12. CASE OneCalled \/ OneRejected
    <2>1. /\ Kind /\ pos' = pos /\ pc = "one" /\ pc' \in {"one", "submit"}
          /\ pc' = "one" => retries' = retries
      BY <1>12 DEF OneCalled, OneRejected
    <2>2. Forward
      BY <1>0, <2>1, Onward
    <2> QED
      BY <1>0, <2>1, <2>2, KeptEffects DEF Kept
  <1>13. CASE OneLimited
    <2>1. /\ UNCHANGED <<host, attempt, pos>> /\ BodyMayCall /\ exhausted'
          /\ pc = "one" /\ pc' \in {"one", "catch"} /\ retries' = retries + 1
      BY <1>13 DEF OneLimited, RedoAtLimit, Throw, Note
    <2> QED
      BY <1>0, <2>1, CalledEffects
  <1>14. CASE Sync
    <2>1. /\ Kind /\ pc \in {"manySubmit", "submit"}
          /\ \/ pc' = "loop" /\ pos' = pos + 1
             \/ pc' = "settle"
      BY <1>14 DEF Sync, Advance
    <2>2. ASSUME NEW i \in Sites, pc' = "loop", pos' = pos + 1
          PROVE  Ahead(i)' => Ahead(i)
      <3>1. i \in Nat /\ pos \in Nat
        BY <1>0
      <3> QED
        BY <2>1, <2>2, <3>1 DEF Ahead
    <2>3. Forward
      <3>1. CASE pc' = "loop" /\ pos' = pos + 1
        <4> SUFFICES ASSUME NEW i \in Sites
                     PROVE  Once(i) <= Once(i)' /\ Often(i) <= Often(i)'
          BY DEF Forward
        <4>1. Once(i) \in 0 .. 1 /\ Often(i) \in 0 .. 4
          BY CountsType
        <4>2. CASE Ahead(i)
          <5>1. Once(i) = 0 /\ Often(i) = 0
            BY <4>2 DEF Once, Often
          <5>2. Once(i)' \in 0 .. 1 /\ Often(i)' \in 0 .. 4
            BY <1>0 DEF Once, Often, TypeOK
          <5> QED
            BY <5>1, <5>2
        <4>3. CASE ~Ahead(i)
          <5>1. Once(i)' = 1 /\ Often(i)' = 4
            BY <2>2, <3>1, <4>3 DEF Once, Often, Within
          <5> QED
            BY <4>1, <5>1
        <4> QED
          BY <4>2, <4>3
      <3>2. CASE pc' = "settle"
        <4>1. \A i \in Sites : Once(i)' = 1 /\ Often(i)' = 4
          BY <3>2 DEF Once, Often, Ahead, Within
        <4> QED
          BY <4>1, CountsType DEF Forward
      <3> QED
        BY <2>1, <3>1, <3>2
    <2> QED
      BY <1>0, <2>1, <2>3, KeptEffects DEF Kept
  <1>15. CASE SyncFails
    <2>1. /\ Kind /\ pos' = pos
          /\ \/ pc = "manySubmit" /\ pc' = "one"
             \/ pc = "submit" /\ pc' = "catch"
      BY <1>15 DEF SyncFails, Swallow, Throw, Note
    <2>2. Forward
      BY <1>0, <2>1, Onward
    <2> QED
      BY <1>0, <2>1, <2>2, KeptEffects DEF Kept
  <1>16. CASE RetryAtLimit
    <2>1. /\ pc = "catch" /\ pc' = "try" /\ exhausted /\ exhausted'
          /\ attempt' = attempt + 1 /\ UNCHANGED <<effects, host>>
      BY <1>16 DEF RetryAtLimit, Effects
    <2>2. ASSUME NEW i \in Sites
          PROVE  /\ ~host' => effects'[i] = 0
                 /\ i = 0 => effects'[i] <= attempt' + Once(i)'
                 /\ effects'[i] <= 4 * attempt' + Often(i)'
      <3>1. /\ effects[i] \in Nat /\ attempt \in 0 .. 2
            /\ ~host => effects[i] = 0
            /\ i = 0 => effects[i] <= attempt + Once(i)
            /\ effects[i] <= 4 * attempt + Often(i)
        BY CountsType DEF Effects
      <3>2. Once(i) \in 0 .. 1 /\ Often(i) \in 0 .. 4
        BY CountsType
      <3>3. Once(i)' = 0 /\ Often(i)' = 0
        BY <2>1 DEF Once, Often, Ahead
      <3> QED
        BY <2>1, <3>1, <3>2, <3>3
    <2> QED
      BY <2>1, <2>2 DEF Effects
  <1>17. CASE SettleRetires
    <2>1. /\ UNCHANGED <<host, effects>> /\ pc = "settle"
          /\ pc' \in {"try", "raised"}
          /\ pc' = "try" => ~host
          /\ pc' = "raised" => attempt' = attempt
      BY <1>17 DEF SettleRetires, Rerun, Stops
    <2>2. exhausted => exhausted'
      BY <1>17 DEF SettleRetires, Rerun, Note
    <2>3. CASE pc' = "try"
      BY <1>0, <2>1, <2>3, NoHostNoEffects
    <2>4. CASE pc' = "raised"
      <3>1. \A i \in Sites : Once(i)' = 1 /\ Often(i)' = 4
        BY <2>4 DEF Once, Often, Ahead, Within
      <3>2. Forward
        BY <3>1, CountsType DEF Forward
      <3> QED
        BY <1>0, <2>1, <2>2, <2>4, <3>2, KeptEffects DEF Kept
    <2> QED
      BY <2>1, <2>3, <2>4
  <1>18. (EagerBody \/ InnerDies \/ BodyRefused) => pc \in {"many", "one"}
    BY DEF EagerBody, InnerDies, BodyRefused
  <1> QED
    BY <1>1, <1>2, <1>3, <1>4, <1>5, <1>6, <1>7, <1>8, <1>9, <1>10, <1>11,
       <1>12, <1>13, <1>14, <1>15, <1>16, <1>17, <1>18
       DEF Next, Step

---------------------------------------------------------------------------
(* The loops: which kernels their graphs embed, and where the pending are. *)

\* A loop is entered without a live kernel, and a dead one stays dead.
LEMMA LoopStep ==
  ASSUME IInv, Next PROVE LoopInv'
  <1> USE DEF IInv, facts, cached, retired, counters
  <1>1. CASE Enter
    BY <1>1, CurIsLoop DEF Enter, LoopInv, InLoop, TypeOK, Cur, Alive
  <1>2. CASE Try
    BY <1>2, CurIsLoop DEF Try, LoopInv, InLoop, TypeOK, Cur, Alive
  <1>3. CASE MainCalled
    BY <1>3, CurIsLoop DEF MainCalled, LoopInv, InLoop, TypeOK, Cur, Alive
  <1>4. CASE MainFails
    BY <1>4, CurIsLoop
       DEF MainFails, Throw, Note, LoopInv, InLoop, TypeOK, Cur, Alive
  <1>5. CASE HostCall
    BY <1>5, CurIsLoop
       DEF HostCall, Throw, Note, LoopInv, InLoop, TypeOK, Cur, Alive
  <1>6. CASE KernelLaunch
    BY <1>6, CurIsLoop
       DEF KernelLaunch, Launch, Builds, LoopInv, InLoop, TypeOK, Cur, Alive
  <1>7. CASE KernelDies
    BY <1>7, CurIsLoop
       DEF KernelDies, Kill, Throw, Note, LoopInv, InLoop, TypeOK, Cur, Alive
  <1>8. CASE RunsNothing
    BY <1>8, CurIsLoop DEF RunsNothing, LoopInv, InLoop, TypeOK, Cur, Alive
  <1>9. CASE EnterLoop
    BY <1>9, CurIsLoop DEF EnterLoop, LoopInv, InLoop, TypeOK, Cur, Alive
  <1>10. CASE ChunkCalled
    BY <1>10, CurIsLoop DEF ChunkCalled, LoopInv, InLoop, TypeOK, Cur, Alive
  <1>11. CASE SpecFails
    BY <1>11, CurIsLoop DEF SpecFails, LoopInv, InLoop, TypeOK, Cur, Alive
  <1>12. CASE ChunkFails
    BY <1>12, CurIsLoop
       DEF ChunkFails, Swallow, Note, LoopInv, InLoop, TypeOK, Cur, Alive
  <1>13. CASE EagerBody
    BY <1>13, CurIsLoop
       DEF EagerBody, Launch, Builds, LoopInv, InLoop, TypeOK, Cur, Alive
  <1>14. CASE InnerDies
    BY <1>14, CurIsLoop
       DEF InnerDies, Kill, Swallow, Throw, Note, LoopInv, InLoop, TypeOK,
           Cur,
           Alive
  <1>15. CASE BodyRefused
    BY <1>15, CurIsLoop
       DEF BodyRefused, Swallow, Throw, Note, LoopInv, InLoop, TypeOK, Cur,
           Alive
  <1>16. CASE OneCalled
    BY <1>16, CurIsLoop DEF OneCalled, LoopInv, InLoop, TypeOK, Cur, Alive
  <1>17. CASE OneRejected
    BY <1>17, CurIsLoop
       DEF OneRejected, DropCompiled, LoopInv, InLoop, TypeOK, Cur, Alive
  <1>18. CASE OneLimited
    BY <1>18, CurIsLoop
       DEF OneLimited, RedoAtLimit, Note, DropCompiled, Throw, LoopInv, InLoop, TypeOK,
           Cur,
           Alive
  <1>19. CASE Sync
    BY <1>19, CurIsLoop
       DEF Sync, Builds, Advance, LoopInv, InLoop, TypeOK, Cur, Alive
  <1>20. CASE SyncFails
    BY <1>20, CurIsLoop
       DEF SyncFails, Swallow, Throw, Note, LoopInv, InLoop, TypeOK, Cur,
           Alive
  <1>21. CASE RetireCompiled
    BY <1>21, CurIsLoop
       DEF RetireCompiled, DropCompiled, LoopInv, InLoop, TypeOK, Cur, Alive
  <1>22. CASE RetryAtLimit
    BY <1>22, CurIsLoop DEF RetryAtLimit, LoopInv, InLoop, TypeOK, Cur, Alive
  <1>23. CASE Leave
    BY <1>23, CurIsLoop DEF Leave, LoopInv, InLoop, TypeOK, Cur, Alive
  <1>24. CASE Settled
    BY <1>24, CurIsLoop
       DEF Settled, Builds, LoopInv, InLoop, TypeOK, Cur, Alive
  <1>25. CASE SettleRetires
    BY <1>25 DEF SettleRetires, Rerun, LoopInv, InLoop
  <1>26. CASE Destroy
    BY <1>26, CurIsLoop DEF Destroy, LoopInv, InLoop, TypeOK, Cur, Alive
  <1> QED
    BY <1>1, <1>2, <1>3, <1>4, <1>5, <1>6, <1>7, <1>8, <1>9, <1>10, <1>11,
       <1>12, <1>13, <1>14, <1>15, <1>16, <1>17, <1>18, <1>19, <1>20, <1>21,
       <1>22, <1>23, <1>24, <1>25, <1>26
       DEF Next, Step

LEMMA CacheEmbeds ==
  ASSUME TypeOK, EmbedsLive, NEW g \in Graphs, Cache(g), dead \subseteq dead'
  PROVE  EmbedsLive'
  <1> SUFFICES ASSUME NEW l \in Loops, NEW k \in {"one", "many", "spec"},
                      <<l, k>> \in graphs', Inner[l] \in Plans \ dead'
               PROVE  Inner[l] \in embeds'[<<l, k>>]
    BY DEF EmbedsLive
  <1>1. <<l, k>> \in Graphs /\ <<l, k>> # MainGraph
    BY LadderAssumption DEF Graphs, MainGraph
  <1>2. CASE <<l, k>> \in graphs
    <2>1. Inner[l] \in embeds[<<l, k>>]
      BY <1>2 DEF EmbedsLive
    <2>2. embeds'[<<l, k>>] = embeds[<<l, k>>]
      BY <1>1, <1>2 DEF Cache, Embedded, TypeOK
    <2> QED
      BY <2>1, <2>2
  <1>3. CASE <<l, k>> \notin graphs
    <2>1. g = <<l, k>>
      BY <1>3 DEF Cache
    <2>2. Inner[l] \in PlansIn(g)
      BY <1>1, <2>1 DEF PlansIn
    <2> QED
      BY <1>1, <1>3, <2>1, <2>2 DEF Cache, Embedded, TypeOK
  <1> QED
    BY <1>2, <1>3

LEMMA ForgetEmbeds ==
  ASSUME TypeOK, EmbedsLive, dead \subseteq dead', NEW gs,
         Forget(gs) \/ UNCHANGED cached
  PROVE  EmbedsLive'
  <1> USE DEF cached
  <1>1. CASE UNCHANGED cached
    BY <1>1 DEF EmbedsLive
  <1>2. CASE Forget(gs)
    BY <1>2 DEF EmbedsLive, Forget, TypeOK, Graphs
  <1> QED
    BY <1>1, <1>2

\* A graph embeds what it was traced with, and the dead do not return.
LEMMA EmbedsStep ==
  ASSUME IInv, Next PROVE EmbedsLive'
  <1> USE DEF IInv, facts, cached, retired, counters
  <1>1. CASE Enter
    BY <1>1, ForgetEmbeds DEF Enter
  <1>2. CASE Try
    BY <1>2, ForgetEmbeds DEF Try
  <1>3. CASE MainCalled
    <2>1. Cache(MainGraph) /\ dead' = dead /\ MainGraph \in Graphs
      BY <1>3, CurIsLoop DEF MainCalled
    <2> QED
      BY <2>1, CacheEmbeds
  <1>4. CASE MainFails
    <2>1. Cache(MainGraph) /\ dead' = dead /\ MainGraph \in Graphs
      BY <1>4, CurIsLoop DEF MainFails
    <2> QED
      BY <2>1, CacheEmbeds
  <1>5. CASE HostCall
    BY <1>5, ForgetEmbeds DEF HostCall
  <1>6. CASE KernelLaunch
    BY <1>6, ForgetEmbeds DEF KernelLaunch
  <1>7. CASE KernelDies
    <2>1. dead \subseteq dead' /\ UNCHANGED cached
      BY <1>7 DEF KernelDies, Kill
    <2> QED
      BY <2>1, ForgetEmbeds
  <1>8. CASE RunsNothing
    BY <1>8, ForgetEmbeds DEF RunsNothing
  <1>9. CASE EnterLoop
    BY <1>9, ForgetEmbeds DEF EnterLoop
  <1>10. CASE ChunkCalled
    <2>1. PICK kind \in {"many", "spec"} : Cache(<<Cur, kind>>)
      BY <1>10 DEF ChunkCalled
    <2>2. dead' = dead /\ <<Cur, kind>> \in Graphs
      BY <1>10, CurIsLoop DEF ChunkCalled
    <2> QED
      BY <2>1, <2>2, CacheEmbeds
  <1>11. CASE SpecFails
    <2>1. Forget({<<Cur, "spec">>})
      BY <1>11 DEF SpecFails, DropCompiled
    <2>2. dead \subseteq dead'
      BY <1>11 DEF SpecFails
    <2> QED
      BY <2>1, <2>2, ForgetEmbeds
  <1>12. CASE ChunkFails
    <2>1. Cache(<<Cur, "many">>) /\ dead' = dead /\ <<Cur, "many">> \in Graphs
      BY <1>12, CurIsLoop DEF ChunkFails
    <2> QED
      BY <2>1, CacheEmbeds
  <1>13. CASE EagerBody
    BY <1>13, ForgetEmbeds DEF EagerBody
  <1>14. CASE InnerDies
    <2>1. dead \subseteq dead' /\ UNCHANGED cached
      BY <1>14 DEF InnerDies, Kill
    <2> QED
      BY <2>1, ForgetEmbeds
  <1>15. CASE BodyRefused
    BY <1>15, ForgetEmbeds DEF BodyRefused
  <1>16. CASE OneCalled
    <2>1. Cache(<<Cur, "one">>) /\ dead' = dead /\ <<Cur, "one">> \in Graphs
      BY <1>16, CurIsLoop DEF OneCalled
    <2> QED
      BY <2>1, CacheEmbeds
  <1>17. CASE OneRejected
    <2>1. Forget({g \in Graphs : g[1] = Cur})
      BY <1>17 DEF OneRejected, DropCompiled
    <2>2. dead \subseteq dead'
      BY <1>17 DEF OneRejected
    <2> QED
      BY <2>1, <2>2, ForgetEmbeds
  <1>18. CASE OneLimited
    <2>1. dead' = dead /\ <<Cur, "one">> \in Graphs
      BY <1>18, CurIsLoop DEF OneLimited, RedoAtLimit
    <2>2. \/ Forget({g \in Graphs : g[1] = Cur})
          \/ Cache(<<Cur, "one">>) \/ UNCHANGED cached
      BY <1>18 DEF OneLimited, RedoAtLimit, DropCompiled
    <2> QED
      BY <2>1, <2>2, CacheEmbeds, ForgetEmbeds
  <1>19. CASE Sync
    BY <1>19, ForgetEmbeds DEF Sync
  <1>20. CASE SyncFails
    BY <1>20, ForgetEmbeds DEF SyncFails
  <1>21. CASE RetireCompiled
    <2>1. Forget({g \in Graphs : g[1] = Main})
      BY <1>21 DEF RetireCompiled, DropCompiled
    <2>2. dead \subseteq dead'
      BY <1>21 DEF RetireCompiled
    <2> QED
      BY <2>1, <2>2, ForgetEmbeds
  <1>22. CASE RetryAtLimit
    BY <1>22, ForgetEmbeds DEF RetryAtLimit
  <1>23. CASE Leave
    BY <1>23, ForgetEmbeds DEF Leave
  <1>24. CASE Settled
    BY <1>24, ForgetEmbeds DEF Settled
  <1>25. CASE SettleRetires
    <2>1. Forget(Graphs) \/ UNCHANGED cached
      BY <1>25 DEF SettleRetires, DropCompiled, Rerun
    <2>2. dead \subseteq dead'
      BY <1>25 DEF SettleRetires, Rerun
    <2> QED
      BY <2>1, <2>2, ForgetEmbeds
  <1>26. CASE Destroy
    <2>1. Forget({g \in Graphs : g[2] # "spec"})
      BY <1>26 DEF Destroy, DropCompiled
    <2>2. dead \subseteq dead'
      BY <1>26 DEF Destroy
    <2> QED
      BY <2>1, <2>2, ForgetEmbeds
  <1> QED
    BY <1>1, <1>2, <1>3, <1>4, <1>5, <1>6, <1>7, <1>8, <1>9, <1>10, <1>11,
       <1>12, <1>13, <1>14, <1>15, <1>16, <1>17, <1>18, <1>19, <1>20, <1>21,
       <1>22, <1>23, <1>24, <1>25, <1>26
       DEF Next, Step

LEMMA LaterFacts ==
  ASSUME TypeOK
  PROVE  /\ Later(pos) \subseteq Later(1) /\ Later(pos + 1) \subseteq Later(pos)
         /\ Later(Len(LoopSeq) + 1) = {}
         /\ dead \subseteq dead' => \A i \in Nat : Later(i) \subseteq Later(i)'
         /\ PlansIn(MainGraph) \ dead \subseteq Later(1)
  <1>1. Len(LoopSeq) \in Nat /\ pos \in 1 .. Len(LoopSeq)
    BY CurIsLoop DEF TypeOK
  <1>2. Later(pos) \subseteq Later(1) /\ Later(pos + 1) \subseteq Later(pos)
    BY <1>1 DEF Later
  <1>3. Later(Len(LoopSeq) + 1) = {}
    BY <1>1 DEF Later
  <1>4. ASSUME dead \subseteq dead', NEW i \in Nat PROVE Later(i) \subseteq Later(i)'
    BY <1>4 DEF Later, Alive
  <1>5. PlansIn(MainGraph) \ dead \subseteq Later(1)
    <2> SUFFICES ASSUME NEW x \in PlansIn(MainGraph) \ dead PROVE x \in Later(1)
      OBVIOUS
    <2>1. PICK l \in Loops : x = Own[l] \/ (~Alive(Own[l]) /\ x = Inner[l])
      BY DEF PlansIn
    <2>2. PICK j \in 1 .. Len(LoopSeq) : l = LoopSeq[j]
      BY DEF Loops
    <2> QED
      BY <2>1, <2>2 DEF Later, PlansIn
  <1> QED
    BY <1>2, <1>3, <1>4, <1>5

\* What a step of the loop at hand may add to the pending kernels.
Inside == IF Alive(Own[Cur]) THEN {} ELSE {Inner[Cur]} \cap Plans

LEMMA BodyPends ==
  ASSUME TypeOK, LoopInv, pc \in InLoop, NEW k \in {"one", "many", "spec"}
  PROVE  /\ Pended(<<Cur, k>>) \subseteq pending \cup Inside
         /\ Inside = {Inner[Cur]} \cap Plans
         /\ EmbedsLive => Inside \ dead \subseteq Embedded(<<Cur, k>>)
  <1>1. <<Cur, k>> # MainGraph /\ Cur \in Loops
    BY CurIsLoop, LadderAssumption DEF MainGraph
  <1>2. PlansIn(<<Cur, k>>) = {Inner[Cur]} \cap Plans
    BY <1>1 DEF PlansIn
  <1>3. Inside = {Inner[Cur]} \cap Plans
    BY DEF Inside, LoopInv
  <1>4. Pended(<<Cur, k>>) \subseteq pending \cup Inside
    BY <1>2, <1>3 DEF Pended
  <1>5. EmbedsLive => Inside \ dead \subseteq Embedded(<<Cur, k>>)
    BY <1>1, <1>2, <1>3 DEF EmbedsLive, Embedded
  <1> QED
    BY <1>3, <1>4, <1>5

\* A failing step leaves the loop at hand still to be walked.
LEMMA Stays ==
  ASSUME TypeOK, Loose \subseteq Later(pos), pending \ dead \subseteq Later(1),
         dead \subseteq dead', pos' = pos, built \cap Plans \subseteq built',
         pending' \subseteq pending \cup Inside
  PROVE  /\ Loose' \subseteq Later(pos)'
         /\ pending' \ dead' \subseteq Later(1)'
  <1>1. pos \in 1 .. Len(LoopSeq) /\ Len(LoopSeq) \in Nat
    BY CurIsLoop DEF TypeOK
  <1>2. Inside \subseteq Later(pos)
    BY <1>1 DEF Inside, Later, Cur
  <1>3. Later(pos) \subseteq Later(pos)' /\ Later(1) \subseteq Later(1)'
        /\ Later(pos) \subseteq Later(1)
    BY <1>1, LaterFacts
  <1>4. pending \subseteq Plans
    BY DEF TypeOK
  <1>5. Loose' \subseteq Loose \cup Inside
    BY <1>4 DEF Loose, Inside
  <1> QED
    BY <1>2, <1>3, <1>5

\* A step that runs the loop at hand leaves the loops after it.
LEMMA Passes ==
  ASSUME TypeOK, Loose \subseteq Later(pos), pending \ dead \subseteq Later(1),
         dead' = dead, pos' = pos, built \subseteq built',
         pending' \subseteq pending \cup Inside,
         Alive(Own[Cur]) => Own[Cur] \in built',
         ~Alive(Own[Cur]) => Inside \ dead \subseteq built'
  PROVE  /\ Loose' \subseteq Later(pos + 1)'
         /\ pending' \ dead' \subseteq Later(1)'
  <1>1. pos \in 1 .. Len(LoopSeq) /\ Len(LoopSeq) \in Nat
    BY CurIsLoop DEF TypeOK
  <1>2. pending' \ dead' \subseteq Later(1)' /\ Loose' \subseteq Later(pos)'
    BY Stays
  <1>3. Later(pos + 1)' = Later(pos + 1) /\ Later(pos)' = Later(pos)
    BY <1>1 DEF Later, Alive
  <1>4. ASSUME NEW x \in Loose' PROVE x \in Later(pos + 1)
    <2>1. x \in Later(pos) /\ x \in Plans /\ x \notin dead /\ x \notin built'
      BY <1>2, <1>3 DEF Loose, Later
    <2>2. PICK j \in pos .. Len(LoopSeq) :
            x = Own[LoopSeq[j]] \/ (~Alive(Own[LoopSeq[j]]) /\ x = Inner[LoopSeq[j]])
      BY <2>1 DEF Later
    <2>3. j # pos
      <3> SUFFICES ASSUME j = pos PROVE FALSE
        OBVIOUS
      <3>1. x # NoPlan
        BY <2>1, LadderAssumption
      <3>2. CASE x = Own[Cur]
        BY <2>1, <3>1, <3>2 DEF Alive
      <3>3. CASE ~Alive(Own[Cur]) /\ x = Inner[Cur]
        BY <2>1, <3>3 DEF Inside
      <3> QED
        BY <2>2, <3>2, <3>3 DEF Cur
    <2>4. j \in (pos + 1) .. Len(LoopSeq)
      BY <1>1, <2>3
    <2> QED
      BY <2>1, <2>2, <2>4 DEF Later
  <1> QED
    BY <1>2, <1>3, <1>4

\* A pending kernel is retired, built, or still ahead of the walk.
LEMMA CoveredStep ==
  ASSUME IInv, Next PROVE Covered'
  <1> USE DEF IInv, facts, cached, retired, counters
  <1>1. CASE Enter
    BY <1>1 DEF Enter, Covered
  <1>2. CASE Try
    <2>1. pending' = pending /\ dead' = dead /\ built' = built /\ pos' = 1
          /\ pc' \in {"call", "host", "loop"}
      BY <1>2 DEF Try
    <2>2. pending \ dead \subseteq Later(1)' /\ Loose' \subseteq pending \ dead
      BY <2>1, LaterFacts DEF Covered, Loose
    <2> QED
      BY <2>1, <2>2 DEF Covered
  <1>3. CASE MainCalled
    <2>1. /\ pending = {} /\ dead' = dead /\ pc' = "settle"
          /\ pending' = Pended(MainGraph)
          /\ pending' # {} => owed' = Owes(MainGraph) /\ built' = built
      BY <1>3 DEF MainCalled, Attempts
    <2>2. pending' \subseteq PlansIn(MainGraph) \ dead
      BY <2>1 DEF Pended
    <2>3. pending' # {} => pending' \subseteq Embedded(MainGraph)
      BY <2>1, <2>2 DEF Pended, Embedded
    <2>4. Loose' \subseteq owed'
      BY <2>1, <2>3 DEF Loose, Owes
    <2>5. pending' \ dead' \subseteq Later(1)'
      BY <2>1, <2>2, LaterFacts
    <2> QED
      BY <2>1, <2>4, <2>5 DEF Covered
  <1>4. CASE MainFails
    <2>1. /\ pending' \in {pending, Pended(MainGraph)} /\ dead' = dead
          /\ pc' = "catch"
      BY <1>4 DEF MainFails, Throw
    <2>2. pending' \ dead \subseteq (pending \ dead) \cup (PlansIn(MainGraph) \ dead)
      BY <2>1 DEF Pended
    <2>3. pending' \ dead' \subseteq Later(1)'
      BY <2>1, <2>2, LaterFacts DEF Covered
    <2> QED
      BY <2>1, <2>3 DEF Covered
  <1>5. CASE HostCall
    <2>1. pending' = pending /\ dead' = dead /\ built' = built /\ pos' = 1
          /\ pc' \in {"catch", "loop"}
      BY <1>5 DEF HostCall, Throw, Covered
    <2>2. pending \ dead \subseteq Later(1)' /\ Loose' \subseteq pending \ dead
      BY <2>1, LaterFacts DEF Covered, Loose
    <2> QED
      BY <2>1, <2>2 DEF Covered
  <1>6. CASE KernelLaunch
    <2>1. /\ pc \in {"loop"} /\ dead' = dead /\ pos' = pos /\ pc' \in {"submit"}
      BY <1>6 DEF KernelLaunch
    <2>2. Loose \subseteq Later(pos) /\ pending \ dead \subseteq Later(1)
      BY <2>1 DEF Covered
    <2>3. pending' = pending /\ Alive(Own[Cur])
      BY <1>6 DEF KernelLaunch
    <2>4. built \subseteq built'
      BY <1>6 DEF KernelLaunch, Launch, Builds
    <2>5. Own[Cur] \in built'
      BY <1>6, CurIsLoop DEF KernelLaunch, Launch, Builds, ProvenBuilt, Alive
    <2>9. Loose' \subseteq Later(pos + 1)' /\ pending' \ dead' \subseteq Later(1)'
      BY <2>1, <2>2, <2>3, <2>4, <2>5, Passes
    <2> QED
      BY <2>1, <2>9 DEF Covered
  <1>7. CASE KernelDies
    <2>1. /\ pc \in {"loop"}
          /\ dead \subseteq dead' /\ pos' = pos /\ pc' \in {"loop", "catch"}
      BY <1>7 DEF KernelDies, Kill, Throw
    <2>2. Loose \subseteq Later(pos) /\ pending \ dead \subseteq Later(1)
      BY <2>1, LaterFacts DEF Covered
    <2>3. pending' \subseteq pending \cup Inside
      BY <1>7, BodyPends DEF KernelDies, InLoop
    <2>4. built \cap Plans \subseteq built'
      BY <1>7, LadderAssumption DEF KernelDies, DropCompiled, Forget
    <2>5. Loose' \subseteq Later(pos)' /\ pending' \ dead' \subseteq Later(1)'
      BY <2>1, <2>2, <2>3, <2>4, Stays
    <2> QED
      BY <2>1, <2>5 DEF Covered
  <1>8. CASE RunsNothing
    <2>1. /\ pending' = pending /\ dead' = dead
          /\ pc' \notin {"loop", "many", "one", "manySubmit", "submit", "settle", "host"}
      BY <1>8 DEF RunsNothing
    <2> QED
      BY <2>1, LaterFacts DEF Covered
  <1>9. CASE EnterLoop
    <2>1. /\ pending' = pending /\ dead' = dead /\ built' = built /\ pos' = pos
          /\ pc = "loop" /\ pc' \in {"many", "one"}
      BY <1>9 DEF EnterLoop
    <2>2. Loose' \subseteq Later(pos)' /\ pending' \ dead' \subseteq Later(1)'
      BY <2>1, Stays DEF Covered
    <2> QED
      BY <2>1, <2>2 DEF Covered
  <1>10. CASE ChunkCalled
    <2>1. /\ pc \in {"many"} /\ dead' = dead /\ pos' = pos /\ pc' \in {"manySubmit"}
      BY <1>10 DEF ChunkCalled
    <2>2. Loose \subseteq Later(pos) /\ pending \ dead \subseteq Later(1)
      BY <2>1 DEF Covered
    <2>0. PICK kind \in {"many", "spec"} :
            pending' = Pended(<<Cur, kind>>) /\ Builds(Owes(<<Cur, kind>>))
      BY <1>10 DEF ChunkCalled
    <2>3. /\ pending' = Pended(<<Cur, kind>>) /\ Builds(Owes(<<Cur, kind>>))
          /\ pending' \subseteq pending \cup Inside
      BY <1>10, <2>0, BodyPends DEF ChunkCalled, InLoop
    <2>4. built \subseteq built' /\ Embedded(<<Cur, kind>>) \subseteq built'
      BY <2>3 DEF Builds, Owes
    <2>5. ~Alive(Own[Cur]) /\ Inside \ dead \subseteq built'
      BY <2>1, <2>4, BodyPends DEF LoopInv, InLoop
    <2>9. Loose' \subseteq Later(pos + 1)' /\ pending' \ dead' \subseteq Later(1)'
      BY <2>1, <2>2, <2>3, <2>4, <2>5, Passes
    <2> QED
      BY <2>1, <2>9 DEF Covered
  <1>11. CASE SpecFails
    <2>1. /\ pc \in {"many"}
          /\ dead \subseteq dead' /\ pos' = pos /\ pc' \in {"many"}
      BY <1>11 DEF SpecFails
    <2>2. Loose \subseteq Later(pos) /\ pending \ dead \subseteq Later(1)
      BY <2>1, LaterFacts DEF Covered
    <2>3. pending' \subseteq pending \cup Inside
      BY <1>11, BodyPends DEF SpecFails, InLoop
    <2>4. built \cap Plans \subseteq built'
      <3>1. built' = built \ {<<Cur, "spec">>}
        BY <1>11 DEF SpecFails, Forget
      <3>2. <<Cur, "spec">> \notin Plans
        BY LadderAssumption, CurIsLoop DEF Graphs
      <3> QED
        BY <3>1, <3>2
    <2>5. Loose' \subseteq Later(pos)' /\ pending' \ dead' \subseteq Later(1)'
      BY <2>1, <2>2, <2>3, <2>4, Stays
    <2> QED
      BY <2>1, <2>5 DEF Covered
  <1>12. CASE ChunkFails
    <2>1. /\ pc \in {"many"}
          /\ dead \subseteq dead' /\ pos' = pos /\ pc' \in {"one"}
      BY <1>12 DEF ChunkFails, Swallow
    <2>2. Loose \subseteq Later(pos) /\ pending \ dead \subseteq Later(1)
      BY <2>1, LaterFacts DEF Covered
    <2>3. pending' \subseteq pending \cup Inside
      BY <1>12, BodyPends DEF ChunkFails, InLoop
    <2>4. built \cap Plans \subseteq built'
      BY <1>12, LadderAssumption DEF ChunkFails, DropCompiled, Forget
    <2>5. Loose' \subseteq Later(pos)' /\ pending' \ dead' \subseteq Later(1)'
      BY <2>1, <2>2, <2>3, <2>4, Stays
    <2> QED
      BY <2>1, <2>5 DEF Covered
  <1>13. CASE EagerBody
    <2>1. /\ pc \in {"many", "one"} /\ dead' = dead /\ pos' = pos /\ pc' \in {"manySubmit", "submit"}
      BY <1>13 DEF EagerBody
    <2>2. Loose \subseteq Later(pos) /\ pending \ dead \subseteq Later(1)
      BY <2>1 DEF Covered
    <2>3. pending' = pending
      BY <1>13 DEF EagerBody
    <2>4. built \subseteq built'
      BY <1>13 DEF EagerBody, Launch, Builds
    <2>5. ~Alive(Own[Cur]) /\ Inside \ dead \subseteq built'
      <3>1. ~Alive(Own[Cur]) /\ Inside = {Inner[Cur]} \cap Plans
        BY <2>1, BodyPends DEF LoopInv, InLoop
      <3>2. Alive(Inner[Cur]) => Inner[Cur] \in built'
        BY <1>13, CurIsLoop DEF EagerBody, Launch, Builds, ProvenBuilt, Alive
      <3> QED
        BY <3>1, <3>2, LadderAssumption DEF Alive
    <2>9. Loose' \subseteq Later(pos + 1)' /\ pending' \ dead' \subseteq Later(1)'
      BY <2>1, <2>2, <2>3, <2>4, <2>5, Passes
    <2> QED
      BY <2>1, <2>9 DEF Covered
  <1>14. CASE InnerDies
    <2>1. /\ pc \in {"many", "one"}
          /\ dead \subseteq dead' /\ pos' = pos /\ pc' \in {"many", "one", "catch"}
      BY <1>14 DEF InnerDies, Kill, Swallow, Throw
    <2>2. Loose \subseteq Later(pos) /\ pending \ dead \subseteq Later(1)
      BY <2>1, LaterFacts DEF Covered
    <2>3. pending' \subseteq pending \cup Inside
      BY <1>14, BodyPends DEF InnerDies, InLoop
    <2>4. built \cap Plans \subseteq built'
      BY <1>14, LadderAssumption DEF InnerDies, DropCompiled, Forget
    <2>5. Loose' \subseteq Later(pos)' /\ pending' \ dead' \subseteq Later(1)'
      BY <2>1, <2>2, <2>3, <2>4, Stays
    <2> QED
      BY <2>1, <2>5 DEF Covered
  <1>15. CASE BodyRefused
    <2>1. /\ pc \in {"many", "one"}
          /\ dead \subseteq dead' /\ pos' = pos /\ pc' \in {"one", "catch"}
      BY <1>15 DEF BodyRefused, Swallow, Throw
    <2>2. Loose \subseteq Later(pos) /\ pending \ dead \subseteq Later(1)
      BY <2>1, LaterFacts DEF Covered
    <2>3. pending' \subseteq pending \cup Inside
      BY <1>15, BodyPends DEF BodyRefused, InLoop
    <2>4. built \cap Plans \subseteq built'
      BY <1>15, LadderAssumption DEF BodyRefused, DropCompiled, Forget
    <2>5. Loose' \subseteq Later(pos)' /\ pending' \ dead' \subseteq Later(1)'
      BY <2>1, <2>2, <2>3, <2>4, Stays
    <2> QED
      BY <2>1, <2>5 DEF Covered
  <1>16. CASE OneCalled
    <2>1. /\ pc \in {"one"} /\ dead' = dead /\ pos' = pos /\ pc' \in {"submit"}
      BY <1>16 DEF OneCalled
    <2>2. Loose \subseteq Later(pos) /\ pending \ dead \subseteq Later(1)
      BY <2>1 DEF Covered
    <2>3. /\ pending' = Pended(<<Cur, "one">>) /\ Builds(Owes(<<Cur, "one">>))
          /\ pending' \subseteq pending \cup Inside
      BY <1>16, BodyPends DEF OneCalled, InLoop
    <2>4. built \subseteq built' /\ Embedded(<<Cur, "one">>) \subseteq built'
      BY <2>3 DEF Builds, Owes
    <2>5. ~Alive(Own[Cur]) /\ Inside \ dead \subseteq built'
      BY <2>1, <2>4, BodyPends DEF LoopInv, InLoop
    <2>9. Loose' \subseteq Later(pos + 1)' /\ pending' \ dead' \subseteq Later(1)'
      BY <2>1, <2>2, <2>3, <2>4, <2>5, Passes
    <2> QED
      BY <2>1, <2>9 DEF Covered
  <1>17. CASE OneRejected
    <2>1. /\ pc \in {"one"}
          /\ dead \subseteq dead' /\ pos' = pos /\ pc' \in {"one"}
      BY <1>17 DEF OneRejected
    <2>2. Loose \subseteq Later(pos) /\ pending \ dead \subseteq Later(1)
      BY <2>1, LaterFacts DEF Covered
    <2>3. pending' \subseteq pending \cup Inside
      BY <1>17, BodyPends DEF OneRejected, InLoop
    <2>4. built \cap Plans \subseteq built'
      BY <1>17, LadderAssumption DEF OneRejected, DropCompiled, Forget
    <2>5. Loose' \subseteq Later(pos)' /\ pending' \ dead' \subseteq Later(1)'
      BY <2>1, <2>2, <2>3, <2>4, Stays
    <2> QED
      BY <2>1, <2>5 DEF Covered
  <1>18. CASE OneLimited
    <2>1. /\ pc \in {"one"}
          /\ dead \subseteq dead' /\ pos' = pos /\ pc' \in {"one", "catch"}
      BY <1>18 DEF OneLimited, RedoAtLimit, Throw
    <2>2. Loose \subseteq Later(pos) /\ pending \ dead \subseteq Later(1)
      BY <2>1, LaterFacts DEF Covered
    <2>3. pending' \subseteq pending \cup Inside
      BY <1>18, BodyPends DEF OneLimited, RedoAtLimit, InLoop
    <2>4. built \cap Plans \subseteq built'
      BY <1>18, LadderAssumption DEF OneLimited, RedoAtLimit, DropCompiled, Forget
    <2>5. Loose' \subseteq Later(pos)' /\ pending' \ dead' \subseteq Later(1)'
      BY <2>1, <2>2, <2>3, <2>4, Stays
    <2> QED
      BY <2>1, <2>5 DEF Covered
  <1>19. CASE Sync
    <2>1. /\ pending' = pending /\ dead' = dead /\ built \subseteq built'
          /\ Loose \subseteq Later(pos + 1)
      BY <1>19 DEF Sync, Builds, Covered
    <2>2. Loose' \subseteq Loose /\ pending' \ dead' \subseteq Later(1)'
      BY <2>1, LaterFacts DEF Loose, Covered
    <2>3. pos + 1 \in Nat /\ pos \in 1 .. Len(LoopSeq) /\ Len(LoopSeq) \in Nat
      BY CurIsLoop DEF TypeOK
    <2>4. CASE pos < Len(LoopSeq)
      <3>1. pc' = "loop" /\ pos' = pos + 1
        BY <1>19, <2>4 DEF Sync, Advance
      <3>2. Later(pos + 1) \subseteq Later(pos)'
        BY <2>1, <2>3, <3>1, LaterFacts DEF Later, Alive
      <3> QED
        BY <2>1, <2>2, <3>1, <3>2 DEF Covered
    <2>5. CASE ~(pos < Len(LoopSeq))
      <3>1. pc' = "settle" /\ pos = Len(LoopSeq)
        <4>1. pc' = "settle"
          BY <1>19, <2>5 DEF Sync, Advance
        <4>2. pos = Len(LoopSeq)
          <5> DEFINE N == Len(LoopSeq)
          <5>1. N \in Nat /\ pos \in 1 .. N /\ ~ (pos < N)
            BY <2>3, <2>5
          <5> HIDE DEF N
          <5>2. pos = N
            BY <5>1
          <5> QED
            BY <5>2 DEF N
        <4> QED
          BY <4>1, <4>2
      <3>2. Loose \subseteq Later(Len(LoopSeq) + 1) /\ Later(Len(LoopSeq) + 1) = {}
        BY <2>1, <3>1, LaterFacts
      <3>3. Loose' = {}
        BY <2>2, <3>2
      <3> QED
        BY <2>2, <3>1, <3>3 DEF Covered
    <2> QED
      BY <2>4, <2>5
  <1>20. CASE SyncFails
    <2>1. /\ pc \in {"manySubmit", "submit"}
          /\ dead \subseteq dead' /\ pos' = pos /\ pc' \in {"one", "catch"}
      BY <1>20 DEF SyncFails, Swallow, Throw
    <2>2. Loose \subseteq Later(pos) /\ pending \ dead \subseteq Later(1)
      BY <2>1, LaterFacts DEF Covered
    <2>3. pending' \subseteq pending \cup Inside
      BY <1>20, BodyPends DEF SyncFails, InLoop
    <2>4. built \cap Plans \subseteq built'
      BY <1>20, LadderAssumption DEF SyncFails, DropCompiled, Forget
    <2>5. Loose' \subseteq Later(pos)' /\ pending' \ dead' \subseteq Later(1)'
      BY <2>1, <2>2, <2>3, <2>4, Stays
    <2> QED
      BY <2>1, <2>5 DEF Covered
  <1>21. CASE RetireCompiled
    <2>1. /\ pending' = pending /\ dead' = dead
          /\ pc' \notin {"loop", "many", "one", "manySubmit", "submit", "settle", "host"}
      BY <1>21 DEF RetireCompiled, DropCompiled
    <2> QED
      BY <2>1, LaterFacts DEF Covered
  <1>22. CASE RetryAtLimit
    <2>1. /\ pending' = pending /\ dead' = dead
          /\ pc' \notin {"loop", "many", "one", "manySubmit", "submit", "settle", "host"}
      BY <1>22 DEF RetryAtLimit
    <2> QED
      BY <2>1, LaterFacts DEF Covered
  <1>23. CASE Leave
    <2>1. /\ pending' = pending /\ dead' = dead
          /\ pc' \notin {"loop", "many", "one", "manySubmit", "submit", "settle", "host"}
      BY <1>23 DEF Leave
    <2> QED
      BY <2>1, LaterFacts DEF Covered
  <1>24. CASE Settled
    BY <1>24 DEF Settled, Covered
  <1>25. CASE SettleRetires
    BY <1>25 DEF SettleRetires, Rerun, Covered
  <1>26. CASE Destroy
    <2>1. /\ pending' = pending /\ dead' = dead
          /\ pc' \notin {"loop", "many", "one", "manySubmit", "submit", "settle", "host"}
      BY <1>26 DEF Destroy
    <2> QED
      BY <2>1, LaterFacts DEF Covered
  <1> QED
    BY <1>1, <1>2, <1>3, <1>4, <1>5, <1>6, <1>7, <1>8, <1>9, <1>10, <1>11,
       <1>12, <1>13, <1>14, <1>15, <1>16, <1>17, <1>18, <1>19, <1>20, <1>21,
       <1>22, <1>23, <1>24, <1>25, <1>26
       DEF Next, Step

---------------------------------------------------------------------------
(* The theorems. *)

LEMMA InitIInv == Init => IInv
  <1> SUFFICES ASSUME Init PROVE IInv
    OBVIOUS
  <1>1. Len(LoopSeq) \in Nat \ {0}
    BY LadderAssumption
  <1>2. TypeOK
    <2>1. bad \subseteq Plans \cup Graphs /\ fallback \subseteq Plans
      BY LadderAssumption DEF Init
    <2>2. specOff \subseteq Loops
      BY DEF Init
    <2>3. embeds \in [Graphs -> SUBSET Plans]
      BY DEF Init
    <2>4. /\ compiles \in BOOLEAN /\ host \in BOOLEAN /\ runs \in 0 .. MaxRuns
          /\ pos \in 1 .. Len(LoopSeq)
      BY <1>1, LadderAssumption DEF Init
    <2>5. /\ pc \in PCs /\ exc \in Throwables /\ noChunk = {} /\ graphs = {}
          /\ dead = {} /\ validated = {} /\ disabled = {} /\ pending = {}
          /\ owed = {} /\ built = {}
          /\ attempt = 0 /\ round = 0 /\ retries = 0
      BY DEF Init, PCs, Throwables
    <2>7. effects \in [Sites -> Nat] /\ sites \subseteq Programs
      BY LadderAssumption DEF Init
    <2>6. used \in BOOLEAN /\ wedged \in BOOLEAN /\ exhausted \in BOOLEAN
      BY Zenon DEF Init
    <2> QED
      BY <2>1, <2>2, <2>3, <2>4, <2>5, <2>6, <2>7 DEF TypeOK
  <1>3. OwesOnlyPending /\ NoWedge /\ ProvenBuilt /\ Covered
    BY DEF Init, OwesOnlyPending, NoWedge, ProvenBuilt, Covered, Loose
  <1>5. Sited /\ Effects
    <2>1. \A i \in Sites : effects[i] = 0 /\ Once(i) = 1 /\ Often(i) = 4
      BY DEF Init, Once, Often, Ahead, Within
    <2> QED
      BY <2>1 DEF Init, Sited, Effects
  <1>4. Attempts /\ LoopInv /\ EmbedsLive /\ DisabledHoldNothing
    BY DEF Init, Attempts, Walking, LoopInv, InLoop, EmbedsLive,
           DisabledHoldNothing
  <1> QED
    BY <1>2, <1>3, <1>4, <1>5 DEF IInv

LEMMA StutterIInv == ASSUME IInv, UNCHANGED vars PROVE IInv'
  <1> USE DEF vars, facts, cached, counters
  <1>1. TypeOK'
    BY DEF IInv, TypeOK
  <1>2. OwesOnlyPending' /\ NoWedge' /\ ProvenBuilt'
    BY DEF IInv, OwesOnlyPending, NoWedge, ProvenBuilt
  <1>5. Sited' /\ Effects'
    BY DEF IInv, Sited, Cur, Effects, Once, Often, Ahead, Within
  <1>3. Covered'
    BY DEF IInv, Covered, Loose, Later, Alive
  <1>4. Attempts' /\ LoopInv' /\ EmbedsLive' /\ DisabledHoldNothing'
    BY DEF IInv, Attempts, CompilesMain, LoopInv, Cur, Alive, EmbedsLive,
           DisabledHoldNothing
  <1> QED
    BY <1>1, <1>2, <1>3, <1>4, <1>5 DEF IInv

THEOREM Invariance == Spec => []IInv
  <1>1. IInv /\ [Next]_vars => IInv'
    BY TypeStep, OwesStep, ProvenStep, CoveredStep, AttemptsStep, LoopStep,
       EmbedsStep, DisabledStep, SitedStep, EffectsStep, StutterIInv
       DEF IInv
  <1> QED
    BY InitIInv, <1>1, PTL DEF Spec

\* Every variable keeps to its set (all of the ladder's state).
THEOREM Typed == Spec => []TypeOK
  BY Invariance, PTL DEF IInv

\* Whatever the loops, the plans and the failures, nothing that can still
\* fail to build reaches an async submission (loop_submit, prove_compiled).
THEOREM NeverWedged == Spec => []NoWedge
  BY Invariance, PTL DEF IInv

\* No run hands back a value whose build can still fail (Program::run).
THEOREM ProvenOnReturn == Spec => []ReturnedProven
  <1>1. IInv => ReturnedProven
    BY DEF IInv, OwesOnlyPending, ReturnedProven
  <1> QED
    BY Invariance, <1>1, PTL

\* A validated kernel that may still be launched is one Metal can build:
\* validating all that is pending after one eval is right (settle_msl).
THEOREM ValidatedIsBuildable == Spec => []ValidatedBuilds
  <1>1. IInv => ValidatedBuilds
    BY DEF IInv, ProvenBuilt, ValidatedBuilds
  <1> QED
    BY Invariance, <1>1, PTL

\* Disabling a program's compiled path is final (drop_compiled).
THEOREM DisabledForGood == Spec => []DisabledHoldNothing
  BY Invariance, PTL DEF IInv

\* In one execution the user's function runs three times at most for main,
\* twelve times at most for one iteration of a loop, and more than once only
\* because of the buffer limit (run_recovering, BodyRunner, settle_msl).
THEOREM HostCallsBounded == Spec => []EffectsBounded
  <1>1. IInv => EffectsBounded
    <2> SUFFICES ASSUME IInv, NEW i \in Sites
                 PROVE  /\ i = 0 => effects[i] <= 3
                        /\ effects[i] <= 12 /\ (effects[i] > 1 => exhausted)
      BY CountsType DEF IInv, EffectsBounded, TypeOK, Sites
    <2>1. /\ Once(i) \in 0 .. 1 /\ Often(i) \in 0 .. 4 /\ attempt \in 0 .. 2
          /\ effects[i] \in Nat
      BY CountsType DEF IInv
    <2>2. /\ i = 0 => effects[i] <= attempt + Once(i)
          /\ effects[i] <= 4 * attempt + Often(i)
          /\ ~exhausted => effects[i] <= Once(i)
      BY DEF IInv, Effects
    <2> QED
      BY <2>1, <2>2
  <1> QED
    BY Invariance, <1>1, PTL

---------------------------------------------------------------------------
(* What a failure retires, and what it costs. *)

\* What is thrown to the ladder, and what it takes.
Thrown ==
  /\ pc = "catch" => exc \in {"error", "limit", "oom"}
  /\ pc = "catch" /\ exc = "error" /\ used => bad # {}
  /\ pc = "catch" /\ exc = "error" /\ ~used /\ fallback = Plans => host
  /\ RefusalKeepsBuilds

\* The third round has no kernel left to blame.
Rounds == round = 2 => pending = {} /\ dead = Plans

\* Only what cannot be built throws an error, and only a compiled main or a
\* kernel lowered alone lets one reach the ladder.
LEMMA ThrownStep ==
  ASSUME IInv, Thrown, Next PROVE Thrown'
  <1> USE DEF facts, cached, retired, counters
  <1>1. CASE Enter
    BY <1>1
       DEF Enter, Thrown, RefusalKeepsBuilds
  <1>2. CASE Try
    BY <1>2
       DEF Try, Thrown, RefusalKeepsBuilds
  <1>3. CASE MainCalled
    BY <1>3
       DEF MainCalled, Builds, Thrown, RefusalKeepsBuilds
  <1>4. CASE MainFails
    <2>1. used
      BY <1>4 DEF IInv, Attempts, MainFails
    <2>2. PICK e \in {"error", "limit"} :
            /\ Fails({MainGraph}, e) \/ Fails(Owes(MainGraph), e)
            /\ Throw(e)
      BY <1>4 DEF MainFails
    <2>3. e = "error" => bad # {}
      BY <2>2 DEF Fails
    <2> QED
      BY <1>4, <2>1, <2>2, <2>3
         DEF MainFails, Throw, Note, Thrown, RefusalKeepsBuilds
  <1>5. CASE HostCall
    <2>1. host /\ ~used
      BY <1>5 DEF IInv, Attempts, Walking, HostCall
    <2> QED
      BY <1>5, <2>1 DEF HostCall, Throw, Note, Thrown, RefusalKeepsBuilds
  <1>6. CASE KernelLaunch
    BY <1>6
       DEF KernelLaunch, Launch, Builds, Thrown, RefusalKeepsBuilds
  <1>7. CASE KernelDies
    <2>1. ~used /\ Own[Cur] \in Plans
      BY <1>7, CurIsLoop DEF IInv, Attempts, Walking, Alive, KernelDies
    <2>2. PICK e \in {"error", "limit"} :
            /\ Kill(Own[Cur], e)
            /\ \/ Note(e) /\ UNCHANGED pc
               \/ pc' = "one" /\ Note(e)
               \/ Own[Cur] \notin fallback /\ Throw(e)
      BY <1>7 DEF KernelDies
    <2>3. e = "error" => bad # {} /\ exhausted' = exhausted
      BY <2>2 DEF Kill, Fails, Note, Throw, IInv, TypeOK
    <2>4. e = "limit" => exhausted'
      BY <2>2 DEF Note, Throw
    <2> QED
      BY <1>7, <2>1, <2>2, <2>3, <2>4
         DEF KernelDies, Throw, Thrown, RefusalKeepsBuilds
  <1>8. CASE RunsNothing
    BY <1>8
       DEF RunsNothing, Thrown, RefusalKeepsBuilds
  <1>9. CASE EnterLoop
    BY <1>9
       DEF EnterLoop, Thrown, RefusalKeepsBuilds
  <1>10. CASE ChunkCalled
    BY <1>10
       DEF ChunkCalled, Thrown, RefusalKeepsBuilds
  <1>11. CASE SpecFails
    BY <1>11
       DEF SpecFails, Fails, Note, Thrown, RefusalKeepsBuilds
  <1>12. CASE ChunkFails
    BY <1>12
       DEF ChunkFails, Swallow, Note, Thrown, RefusalKeepsBuilds
  <1>13. CASE EagerBody
    BY <1>13
       DEF EagerBody, Launch, Builds, Thrown, RefusalKeepsBuilds
  <1>14. CASE InnerDies
    <2>1. ~used /\ Inner[Cur] \in Plans
      BY <1>14, CurIsLoop DEF IInv, Attempts, Walking, Alive, InnerDies
    <2>2. PICK e \in {"error", "limit"} :
            /\ Kill(Inner[Cur], e)
            /\ \/ Note(e) /\ UNCHANGED pc
               \/ pc' = "one" /\ Note(e)
               \/ Inner[Cur] \notin fallback /\ Throw(e)
      BY <1>14 DEF InnerDies, Swallow
    <2>3. e = "error" => bad # {} /\ exhausted' = exhausted
      BY <2>2 DEF Kill, Fails, Note, Throw, IInv, TypeOK
    <2>4. e = "limit" => exhausted'
      BY <2>2 DEF Note, Throw
    <2> QED
      BY <1>14, <2>1, <2>2, <2>3, <2>4
         DEF InnerDies, Throw, Thrown, RefusalKeepsBuilds
  <1>15. CASE BodyRefused
    <2>1. \/ pc' = "one" \/ (pc' = "catch" /\ exc' = "oom")
          \/ pc' = "catch" /\ exc' = "error" /\ host
      BY <1>15 DEF BodyRefused, Swallow, Throw, IInv, Sited
    <2>2. exhausted' = exhausted /\ ~used
      BY <1>15 DEF BodyRefused, Swallow, Throw, Note, IInv, TypeOK, Attempts,
                   Walking
    <2> QED
      BY <1>15, <2>1, <2>2 DEF BodyRefused, Thrown, RefusalKeepsBuilds
  <1>16. CASE OneCalled
    BY <1>16
       DEF OneCalled, Thrown, RefusalKeepsBuilds
  <1>17. CASE OneRejected
    <2>1. bad # {}
      BY <1>17 DEF OneRejected
    <2> QED
      BY <1>17, <2>1 DEF OneRejected, Thrown, RefusalKeepsBuilds
  <1>18. CASE OneLimited
    <2>1. ~used /\ exhausted'
      BY <1>18 DEF IInv, Attempts, Walking, OneLimited, RedoAtLimit, Note
    <2>2. pc' = "catch" => exc' = "limit"
      BY <1>18 DEF OneLimited, RedoAtLimit, Throw
    <2> QED
      BY <1>18, <2>1, <2>2 DEF OneLimited, RedoAtLimit, Thrown, RefusalKeepsBuilds
  <1>19. CASE Sync
    BY <1>19
       DEF Sync, Advance, Thrown, RefusalKeepsBuilds
  <1>20. CASE SyncFails
    <2>1. ~used /\ owed = {}
      BY <1>20 DEF IInv, Attempts, Walking, OwesOnlyPending, SyncFails
    <2>2. PICK e \in {"limit", "oom"} :
            Note(e) /\ (pc' = "one" \/ (pc' = "catch" /\ exc' = e))
      BY <1>20, <2>1 DEF SyncFails, Fails, Swallow, Throw
    <2> QED
      BY <1>20, <2>1, <2>2 DEF SyncFails, Note, Thrown, RefusalKeepsBuilds
  <1>21. CASE RetireCompiled
    <2>1. exc = "error" => bad # {}
      BY <1>21 DEF RetireCompiled, Thrown
    <2>2. exc = "limit" => exhausted
      BY <1>21 DEF RetireCompiled, IInv, Effects
    <2>3. exc \in {"error", "limit"}
      BY <1>21 DEF RetireCompiled, Thrown
    <2> QED
      BY <1>21, <2>1, <2>2, <2>3 DEF RetireCompiled, Thrown,
                                     RefusalKeepsBuilds
  <1>22. CASE RetryAtLimit
    BY <1>22
       DEF RetryAtLimit, Thrown, RefusalKeepsBuilds
  <1>23. CASE Leave
    BY <1>23
       DEF Leave, Thrown, RefusalKeepsBuilds
  <1>24. CASE Settled
    BY <1>24
       DEF Settled, Thrown, RefusalKeepsBuilds
  <1>25. CASE SettleRetires
    BY <1>25
       DEF SettleRetires, Rerun, Fails, Note, Thrown, RefusalKeepsBuilds
  <1>26. CASE Destroy
    BY <1>26
       DEF Destroy, Thrown, RefusalKeepsBuilds
  <1> QED
    BY <1>1, <1>2, <1>3, <1>4, <1>5, <1>6, <1>7, <1>8, <1>9, <1>10, <1>11,
       <1>12, <1>13, <1>14, <1>15, <1>16, <1>17, <1>18, <1>19, <1>20, <1>21,
       <1>22, <1>23, <1>24, <1>25, <1>26
       DEF Next, Step
\* With every kernel dead, no trace can make one pending again.
LEMMA RoundsStep ==
  ASSUME IInv, Rounds, Next PROVE Rounds'
  <1> USE DEF facts, cached, retired, counters
  <1>1. CASE Enter
    BY <1>1
       DEF Enter, Rounds
  <1>2. CASE Try
    BY <1>2
       DEF Try, Rounds
  <1>3. CASE MainCalled
    <2>1. pending' \in {pending, Pended(MainGraph)} /\ UNCHANGED <<dead, round>>
      BY <1>3 DEF MainCalled
    <2> QED
      BY <2>1, CurIsLoop DEF IInv, TypeOK, Rounds, Pended, PlansIn
  <1>4. CASE MainFails
    <2>1. pending' \in {pending, Pended(MainGraph)} /\ UNCHANGED <<dead, round>>
      BY <1>4 DEF MainFails
    <2> QED
      BY <2>1, CurIsLoop DEF IInv, TypeOK, Rounds, Pended, PlansIn
  <1>5. CASE HostCall
    BY <1>5
       DEF HostCall, Throw, Note, Rounds
  <1>6. CASE KernelLaunch
    BY <1>6
       DEF KernelLaunch, Launch, Builds, Rounds
  <1>7. CASE KernelDies
    <2>1. dead' = dead \cup {Own[Cur]} /\ Own[Cur] \in Plans \ dead
      BY <1>7, CurIsLoop DEF KernelDies, Kill, Alive, IInv
    <2> QED
      BY <1>7, <2>1 DEF KernelDies, Rounds
  <1>8. CASE RunsNothing
    BY <1>8
       DEF RunsNothing, Rounds
  <1>9. CASE EnterLoop
    BY <1>9
       DEF EnterLoop, Rounds
  <1>10. CASE ChunkCalled
    <2>1. PICK kind \in {"many", "spec"} : pending' = Pended(<<Cur, kind>>)
      BY <1>10 DEF ChunkCalled
    <2>2. UNCHANGED <<dead, round>>
      BY <1>10 DEF ChunkCalled
    <2> QED
      BY <2>1, <2>2 DEF IInv, TypeOK, Rounds, Pended, PlansIn
  <1>11. CASE SpecFails
    <2>1. pending' \in {pending, Pended(<<Cur, "spec">>)} /\ UNCHANGED <<dead, round>>
      BY <1>11 DEF SpecFails
    <2> QED
      BY <2>1, CurIsLoop DEF IInv, TypeOK, Rounds, Pended, PlansIn
  <1>12. CASE ChunkFails
    <2>1. pending' \in {pending, Pended(<<Cur, "many">>)} /\ UNCHANGED <<dead, round>>
      BY <1>12 DEF ChunkFails
    <2> QED
      BY <2>1, CurIsLoop DEF IInv, TypeOK, Rounds, Pended, PlansIn
  <1>13. CASE EagerBody
    BY <1>13
       DEF EagerBody, Launch, Builds, Rounds
  <1>14. CASE InnerDies
    <2>1. dead' = dead \cup {Inner[Cur]} /\ Inner[Cur] \in Plans \ dead
      BY <1>14, CurIsLoop DEF InnerDies, Kill, Alive, IInv
    <2> QED
      BY <1>14, <2>1 DEF InnerDies, Rounds
  <1>15. CASE BodyRefused
    BY <1>15
       DEF BodyRefused, Swallow, Throw, Note, Rounds
  <1>16. CASE OneCalled
    <2>1. pending' \in {pending, Pended(<<Cur, "one">>)} /\ UNCHANGED <<dead, round>>
      BY <1>16 DEF OneCalled
    <2> QED
      BY <2>1, CurIsLoop DEF IInv, TypeOK, Rounds, Pended, PlansIn
  <1>17. CASE OneRejected
    <2>1. pending' \in {pending, Pended(<<Cur, "one">>)} /\ UNCHANGED <<dead, round>>
      BY <1>17 DEF OneRejected
    <2> QED
      BY <2>1, CurIsLoop DEF IInv, TypeOK, Rounds, Pended, PlansIn
  <1>18. CASE OneLimited
    <2>1. pending' \in {pending, Pended(<<Cur, "one">>)} /\ UNCHANGED <<dead, round>>
      BY <1>18 DEF OneLimited, RedoAtLimit
    <2> QED
      BY <2>1, CurIsLoop DEF IInv, TypeOK, Rounds, Pended, PlansIn
  <1>19. CASE Sync
    BY <1>19
       DEF Sync, Advance, Rounds
  <1>20. CASE SyncFails
    BY <1>20
       DEF SyncFails, Swallow, Throw, Note, Fails, Rounds
  <1>21. CASE RetireCompiled
    BY <1>21
       DEF RetireCompiled, DropCompiled, Rounds
  <1>22. CASE RetryAtLimit
    BY <1>22
       DEF RetryAtLimit, Rounds
  <1>23. CASE Leave
    BY <1>23
       DEF Leave, Rounds
  <1>24. CASE Settled
    BY <1>24
       DEF Settled, Rounds
  <1>25. CASE SettleRetires
    <2>1. pending' = {} /\ dead' = dead \cup Blamed /\ round # 2
      BY <1>25 DEF SettleRetires, Rerun, Rounds
    <2>2. round' = 2 => round = 1 /\ ~host
      BY <1>25, <2>1 DEF SettleRetires, Rerun, Stops, IInv, TypeOK
    <2> QED
      BY <2>1, <2>2 DEF Blamed, Rounds, IInv, TypeOK
  <1>26. CASE Destroy
    BY <1>26
       DEF Destroy, Rounds
  <1> QED
    BY <1>1, <1>2, <1>3, <1>4, <1>5, <1>6, <1>7, <1>8, <1>9, <1>10, <1>11,
       <1>12, <1>13, <1>14, <1>15, <1>16, <1>17, <1>18, <1>19, <1>20, <1>21,
       <1>22, <1>23, <1>24, <1>25, <1>26
       DEF Next, Step

Kinds == {"one", "many", "spec"}

\* What a cached graph embeds: of a body, the kernel inside it; and, until a
\* host call keeps settle_msl from forgetting, no kernel that has died.  No
\* tape that calls the host is compiled.
InPlace ==
  /\ \A l \in Loops, k \in Kinds : embeds[<<l, k>>] \subseteq {Inner[l]}
  /\ MainGraph \in graphs => CompilesMain
  /\ \A g \in graphs : g[1] \notin sites
  /\ ~host => NoGraphOfDead

LEMMA CacheInPlace ==
  ASSUME TypeOK, InPlace, NEW g \in Graphs, Cache(g),
         UNCHANGED <<host, sites, compiles, dead, disabled>>,
         g = MainGraph => CompilesMain, g[1] \notin sites
  PROVE  InPlace'
  <1>1. /\ graphs' = graphs \cup {g}
        /\ embeds' = [embeds EXCEPT ![g] = Embedded(g)]
    BY DEF Cache
  <1>2. \A h \in Graphs : embeds'[h] = IF h = g THEN Embedded(g) ELSE embeds[h]
    BY <1>1 DEF TypeOK
  <1>3. ASSUME NEW l \in Loops, NEW k \in Kinds
        PROVE  embeds'[<<l, k>>] \subseteq {Inner[l]}
    <2>1. <<l, k>> \in Graphs /\ <<l, k>> # MainGraph
      BY LadderAssumption DEF Graphs, Kinds, MainGraph
    <2>2. PlansIn(<<l, k>>) \subseteq {Inner[l]}
      BY <2>1 DEF PlansIn
    <2>3. Embedded(<<l, k>>) \subseteq {Inner[l]}
      BY <2>2 DEF Embedded, InPlace
    <2> QED
      BY <1>2, <2>1, <2>3 DEF InPlace
  <1>4. ~host => Embedded(g) \cap dead = {}
    BY DEF Embedded, InPlace, NoGraphOfDead
  <1>5. ~host' => NoGraphOfDead'
    BY <1>1, <1>2, <1>4 DEF InPlace, NoGraphOfDead, TypeOK
  <1>6. MainGraph \in graphs' => CompilesMain'
    BY <1>1 DEF InPlace, CompilesMain
  <1>7. \A h \in graphs' : h[1] \notin sites'
    BY <1>1 DEF InPlace
  <1> QED
    BY <1>3, <1>5, <1>6, <1>7 DEF InPlace

LEMMA ForgetInPlace ==
  ASSUME TypeOK, InPlace, NEW gs, Forget(gs) \/ (gs = {} /\ UNCHANGED cached),
         UNCHANGED <<host, sites, compiles>>,
         Main \in disabled' => Main \in disabled \/ MainGraph \in gs,
         host \/ dead' = dead \/ Graphs \subseteq gs
  PROVE  InPlace'
  <1>1. /\ graphs' \subseteq graphs \ gs
        /\ \A h \in Graphs : embeds'[h] \subseteq embeds[h]
    BY DEF Forget, cached
  <1>2. \A l \in Loops, k \in Kinds : <<l, k>> \in Graphs
    BY DEF Graphs, Kinds
  <1>3. \A l \in Loops, k \in Kinds : embeds'[<<l, k>>] \subseteq {Inner[l]}
    BY <1>1, <1>2 DEF InPlace
  <1>4. MainGraph \in graphs' => CompilesMain'
    BY <1>1 DEF InPlace, CompilesMain
  <1>5. ~host' => NoGraphOfDead'
    BY <1>1 DEF InPlace, NoGraphOfDead, TypeOK
  <1>6. \A g \in graphs' : g[1] \notin sites'
    BY <1>1 DEF InPlace
  <1> QED
    BY <1>3, <1>4, <1>5, <1>6 DEF InPlace

LEMMA KillInPlace ==
  ASSUME InPlace, NEW p, dead' = dead \cup {p},
         UNCHANGED <<cached, host, sites, compiles, disabled>>,
         \A g \in graphs : p \notin embeds[g]
  PROVE  InPlace'
  BY DEF InPlace, NoGraphOfDead, CompilesMain, cached

\* A kernel dies where no cached graph embeds it, or with all of them.
LEMMA InPlaceStep ==
  ASSUME IInv, Rounds, InPlace, Next PROVE InPlace'
  <1> USE DEF facts, cached, retired, counters
  <1>1. CASE Enter
    <2>1. UNCHANGED <<cached, host, sites, compiles, disabled, dead>>
      BY <1>1 DEF Enter
    <2> QED
      BY <2>1, ForgetInPlace DEF IInv
  <1>2. CASE Try
    <2>1. UNCHANGED <<cached, host, sites, compiles, disabled, dead>>
      BY <1>2 DEF Try
    <2> QED
      BY <2>1, ForgetInPlace DEF IInv
  <1>3. CASE MainCalled
    <2>1. Cache(MainGraph) /\ UNCHANGED <<host, sites, compiles, dead, disabled>>
      BY <1>3 DEF MainCalled
    <2>2. MainGraph \in Graphs /\ CompilesMain
      BY <1>3, CurIsLoop DEF IInv, Attempts, MainCalled
    <2>3. MainGraph[1] \notin sites
      BY <2>2 DEF IInv, Attempts, CompilesMain, Sited
    <2> QED
      BY <2>1, <2>2, <2>3, CacheInPlace DEF IInv
  <1>4. CASE MainFails
    <2>1. Cache(MainGraph) /\ UNCHANGED <<host, sites, compiles, dead, disabled>>
      BY <1>4 DEF MainFails
    <2>2. MainGraph \in Graphs /\ CompilesMain
      BY <1>4, CurIsLoop DEF IInv, Attempts, MainFails
    <2>3. MainGraph[1] \notin sites
      BY <2>2 DEF IInv, Attempts, CompilesMain, Sited
    <2> QED
      BY <2>1, <2>2, <2>3, CacheInPlace DEF IInv
  <1>5. CASE HostCall
    <2>1. UNCHANGED <<cached, host, sites, compiles, disabled, dead>>
      BY <1>5 DEF HostCall
    <2> QED
      BY <2>1, ForgetInPlace DEF IInv
  <1>6. CASE KernelLaunch
    <2>1. UNCHANGED <<cached, host, sites, compiles, disabled, dead>>
      BY <1>6 DEF KernelLaunch
    <2> QED
      BY <2>1, ForgetInPlace DEF IInv
  <1>7. CASE KernelDies
    <2>1. /\ dead' = dead \cup {Own[Cur]} /\ Own[Cur] # NoPlan
          /\ UNCHANGED <<cached, host, sites, compiles, disabled>>
      BY <1>7 DEF KernelDies, Kill, Alive
    <2>2. MainGraph \notin graphs
      BY <1>7 DEF KernelDies, IInv, Attempts, Walking, InPlace
    <2>3. ASSUME NEW g \in graphs PROVE Own[Cur] \notin embeds[g]
      <3>1. PICK l \in Loops, k \in Kinds : g = <<l, k>>
        BY <2>2 DEF IInv, TypeOK, Graphs, Kinds
      <3> QED
        BY <2>1, <3>1, CurIsLoop, PlansAreOwned DEF InPlace, IInv
    <2> QED
      BY <2>1, <2>3, KillInPlace
  <1>8. CASE RunsNothing
    <2>1. UNCHANGED <<cached, host, sites, compiles, disabled, dead>>
      BY <1>8 DEF RunsNothing
    <2> QED
      BY <2>1, ForgetInPlace DEF IInv
  <1>9. CASE EnterLoop
    <2>1. UNCHANGED <<cached, host, sites, compiles, disabled, dead>>
      BY <1>9 DEF EnterLoop
    <2> QED
      BY <2>1, ForgetInPlace DEF IInv
  <1>10. CASE ChunkCalled
    <2>1. PICK k \in {"many", "spec"} : Cache(<<Cur, k>>)
      BY <1>10 DEF ChunkCalled
    <2>2. <<Cur, k>> \in Graphs /\ <<Cur, k>> # MainGraph
      BY CurIsLoop, LadderAssumption DEF MainGraph, IInv
    <2>3. <<Cur, k>>[1] \notin sites
      BY <1>10 DEF ChunkCalled, IInv, Sited
    <2>4. UNCHANGED <<host, sites, compiles, dead, disabled>>
      BY <1>10 DEF ChunkCalled
    <2> QED
      BY <2>1, <2>2, <2>3, <2>4, CacheInPlace DEF IInv
  <1>11. CASE SpecFails
    <2>1. Forget({<<Cur, "spec">>}) /\ UNCHANGED <<host, sites, compiles, dead>>
      BY <1>11 DEF SpecFails, DropCompiled
    <2>2. Main \in disabled' => Main \in disabled
      BY <1>11, CurIsLoop, LadderAssumption DEF SpecFails, DropCompiled, IInv
    <2> QED
      BY <2>1, <2>2, ForgetInPlace DEF IInv
  <1>12. CASE ChunkFails
    <2>1. Cache(<<Cur, "many">>) /\ UNCHANGED <<host, sites, compiles, dead, disabled>>
      BY <1>12 DEF ChunkFails
    <2>2. <<Cur, "many">> \in Graphs /\ <<Cur, "many">> # MainGraph
      BY CurIsLoop, LadderAssumption DEF MainGraph, IInv
    <2>3. <<Cur, "many">>[1] \notin sites
      BY <1>12 DEF ChunkFails, IInv, Sited
    <2> QED
      BY <2>1, <2>2, <2>3, CacheInPlace DEF IInv
  <1>13. CASE EagerBody
    <2>1. UNCHANGED <<cached, host, sites, compiles, disabled, dead>>
      BY <1>13 DEF EagerBody
    <2> QED
      BY <2>1, ForgetInPlace DEF IInv
  <1>14. CASE InnerDies
    <2>1. /\ dead' = dead \cup {Inner[Cur]} /\ Inner[Cur] # NoPlan
          /\ UNCHANGED <<cached, host, sites, compiles, disabled>> /\ Eager(Cur)
      BY <1>14 DEF InnerDies, Kill, Alive
    <2>2. MainGraph \notin graphs
      BY <1>14 DEF InnerDies, IInv, Attempts, Walking, InPlace
    <2>3. ASSUME NEW g \in graphs PROVE Inner[Cur] \notin embeds[g]
      <3>1. PICK l \in Loops, k \in Kinds : g = <<l, k>>
        BY <2>2 DEF IInv, TypeOK, Graphs, Kinds
      <3>2. l # Cur
        BY <2>1, <3>1 DEF IInv, DisabledHoldNothing, InPlace, Eager
      <3> QED
        BY <2>1, <3>1, <3>2, CurIsLoop, PlansAreOwned DEF InPlace, IInv
    <2> QED
      BY <2>1, <2>3, KillInPlace
  <1>15. CASE BodyRefused
    <2>1. UNCHANGED <<cached, host, sites, compiles, disabled, dead>>
      BY <1>15 DEF BodyRefused
    <2> QED
      BY <2>1, ForgetInPlace DEF IInv
  <1>16. CASE OneCalled
    <2>1. Cache(<<Cur, "one">>) /\ UNCHANGED <<host, sites, compiles, dead, disabled>>
      BY <1>16 DEF OneCalled
    <2>2. <<Cur, "one">> \in Graphs /\ <<Cur, "one">> # MainGraph
      BY CurIsLoop, LadderAssumption DEF MainGraph, IInv
    <2>3. <<Cur, "one">>[1] \notin sites
      BY <1>16 DEF OneCalled, Eager
    <2> QED
      BY <2>1, <2>2, <2>3, CacheInPlace DEF IInv
  <1>17. CASE OneRejected
    <2>1. Forget({g \in Graphs : g[1] = Cur}) /\ UNCHANGED <<host, sites, compiles, dead>>
      BY <1>17 DEF OneRejected, DropCompiled
    <2>2. Main \in disabled' => Main \in disabled
      BY <1>17, CurIsLoop, LadderAssumption DEF OneRejected, DropCompiled,
                                                IInv
    <2> QED
      BY <2>1, <2>2, ForgetInPlace DEF IInv
  <1>18. CASE OneLimited
    <2>1. UNCHANGED <<host, sites, compiles, dead>>
      BY <1>18 DEF OneLimited, RedoAtLimit
    <2>2. Cur # Main /\ <<Cur, "one">> \in Graphs /\ <<Cur, "one">> # MainGraph
      BY CurIsLoop, LadderAssumption DEF MainGraph, IInv
    <2>3. CASE DropCompiled(Cur)
      <3>1. Forget({g \in Graphs : g[1] = Cur})
            /\ (Main \in disabled' => Main \in disabled)
        BY <2>2, <2>3 DEF DropCompiled
      <3> QED
        BY <2>1, <3>1, ForgetInPlace DEF IInv
    <2>4. CASE UNCHANGED disabled /\ Cache(<<Cur, "one">>) /\ ~Eager(Cur)
      <3>1. <<Cur, "one">>[1] \notin sites
        BY <2>4 DEF Eager
      <3> QED
        BY <2>1, <2>2, <2>4, <3>1, CacheInPlace DEF IInv
    <2>5. CASE UNCHANGED <<disabled, cached>>
      BY <2>1, <2>5, ForgetInPlace DEF IInv
    <2> QED
      BY <1>18, <2>3, <2>4, <2>5 DEF OneLimited, RedoAtLimit
  <1>19. CASE Sync
    <2>1. UNCHANGED <<cached, host, sites, compiles, disabled, dead>>
      BY <1>19 DEF Sync
    <2> QED
      BY <2>1, ForgetInPlace DEF IInv
  <1>20. CASE SyncFails
    <2>1. UNCHANGED <<cached, host, sites, compiles, disabled, dead>>
      BY <1>20 DEF SyncFails
    <2> QED
      BY <2>1, ForgetInPlace DEF IInv
  <1>21. CASE RetireCompiled
    <2>1. Forget({g \in Graphs : g[1] = Main}) /\ UNCHANGED <<host, sites, compiles, dead>>
      BY <1>21 DEF RetireCompiled, DropCompiled
    <2>2. MainGraph \in {g \in Graphs : g[1] = Main}
      BY DEF MainGraph, Graphs
    <2> QED
      BY <2>1, <2>2, ForgetInPlace DEF IInv
  <1>22. CASE RetryAtLimit
    <2>1. UNCHANGED <<cached, host, sites, compiles, disabled, dead>>
      BY <1>22 DEF RetryAtLimit
    <2> QED
      BY <2>1, ForgetInPlace DEF IInv
  <1>23. CASE Leave
    <2>1. UNCHANGED <<cached, host, sites, compiles, disabled, dead>>
      BY <1>23 DEF Leave
    <2> QED
      BY <2>1, ForgetInPlace DEF IInv
  <1>24. CASE Settled
    <2>1. UNCHANGED <<cached, host, sites, compiles, disabled, dead>>
      BY <1>24 DEF Settled
    <2> QED
      BY <2>1, ForgetInPlace DEF IInv
  <1>25. CASE SettleRetires
    <2>1. UNCHANGED <<host, sites, compiles, disabled>>
      BY <1>25 DEF SettleRetires, Rerun
    <2>2. CASE Stops
      <3>1. host /\ UNCHANGED cached
        BY <1>25, <2>2 DEF SettleRetires, Rerun, Stops, Rounds, IInv, TypeOK
      <3> QED
        BY <2>1, <3>1, ForgetInPlace DEF IInv
    <2>3. CASE ~Stops
      <3>1. Forget(Graphs)
        BY <1>25, <2>3 DEF SettleRetires, Rerun
      <3> QED
        BY <2>1, <3>1, ForgetInPlace DEF IInv
    <2> QED
      BY <2>2, <2>3
  <1>26. CASE Destroy
    <2>1. Forget({g \in Graphs : g[2] # "spec"}) /\ UNCHANGED <<host, sites, compiles, dead>>
      BY <1>26 DEF Destroy, DropCompiled
    <2>2. Main \in disabled' => Main \in disabled
      BY <1>26, CurIsLoop, LadderAssumption DEF Destroy, DropCompiled, IInv
    <2> QED
      BY <2>1, <2>2, ForgetInPlace DEF IInv
  <1> QED
    BY <1>1, <1>2, <1>3, <1>4, <1>5, <1>6, <1>7, <1>8, <1>9, <1>10, <1>11,
       <1>12, <1>13, <1>14, <1>15, <1>16, <1>17, <1>18, <1>19, <1>20, <1>21,
       <1>22, <1>23, <1>24, <1>25, <1>26
       DEF Next, Step

Retired == Thrown /\ Rounds /\ InPlace

LEMMA RetiredInvariance == Spec => []Retired
  <1>1. Init => Retired
    BY DEF Init, Retired, Thrown, RefusalKeepsBuilds, Rounds, InPlace,
           NoGraphOfDead, Graphs, Kinds
  <1>2. IInv /\ Retired /\ [Next]_vars => Retired'
    <2> SUFFICES ASSUME IInv, Retired, [Next]_vars PROVE Retired'
      OBVIOUS
    <2>1. CASE Next
      BY <2>1, ThrownStep, RoundsStep, InPlaceStep DEF Retired
    <2>2. CASE UNCHANGED vars
      BY <2>2 DEF vars, facts, cached, counters, Retired, Thrown,
         RefusalKeepsBuilds, Rounds, InPlace, CompilesMain, NoGraphOfDead
    <2> QED
      BY <2>1, <2>2
  <1> QED
    BY Invariance, <1>1, <1>2, PTL DEF Spec

\* No graph of a dead kernel outlives it, unless a host call is in the way,
\* and none of a disabled program its disabling (drop_compiled, settle_msl).
THEOREM RetiredForGood == Spec => []RetiredStayOut
  <1>1. IInv /\ Retired => RetiredStayOut
    BY DEF IInv, Retired, InPlace, RetiredStayOut, DeadNotEmbedded
  <1> QED
    BY Invariance, RetiredInvariance, <1>1, PTL

\* A refusal of the governor and a failing host call cost no kernel and no
\* compiled path (run_recovering, run_while's catch, BodyRunner).
THEOREM RefusalsKeepBuilds == Spec => []RefusalKeepsBuilds
  <1>1. Retired => RefusalKeepsBuilds
    BY DEF Retired, Thrown
  <1> QED
    BY RetiredInvariance, <1>1, PTL

\* What Metal cannot build never costs the answer of a program whose plans
\* were all lowered with their loops (run_recovering, settle_msl).
THEOREM FailuresHeal == Spec => []Heals
  <1>1. Init => Heals
    BY DEF Init, Heals
  <1>2. IInv /\ Retired /\ Heals /\ [Next]_vars => Heals'
    <2> SUFFICES ASSUME IInv, Retired, Heals, [Next]_vars,
                        pc' = "raised", fallback' = Plans
                 PROVE  host' \/ exhausted' \/ exc' = "oom"
      BY DEF Heals
    <2>1. CASE Leave
      <3>1. exc \in {"error", "limit"} => ~used
        BY <2>1 DEF Leave
      <3> QED
        BY <2>1, <3>1 DEF Leave, facts, IInv, Effects, Retired, Thrown
    <2>2. CASE SettleRetires
      <3>1. Stops
        BY <2>2 DEF SettleRetires, Rerun
      <3> QED
        BY <2>2, <3>1 DEF SettleRetires, Rerun, Stops, facts, IInv, TypeOK,
                          Retired, Rounds
    <2>3. CASE UNCHANGED vars
      BY <2>3 DEF vars, facts, Heals
    <2> QED
      BY <2>1, <2>2, <2>3
         DEF Next, Step, Enter, Try, MainCalled, MainFails, HostCall,
             KernelLaunch, KernelDies, RunsNothing, EnterLoop, ChunkCalled,
             SpecFails, ChunkFails, EagerBody, InnerDies, BodyRefused,
             OneCalled, OneRejected, OneLimited, RedoAtLimit, Sync, SyncFails,
             RetireCompiled, RetryAtLimit, Settled, Destroy, Throw, Swallow,
             Advance
  <1> QED
    BY Invariance, RetiredInvariance, <1>1, <1>2, PTL DEF Spec
=============================================================================

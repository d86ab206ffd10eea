--------------------------- MODULE ExecutionProofs ---------------------------
(***************************************************************************)
(* Proofs about the entries under the submission lock, for any threads,    *)
(* executables, buffers and depth of nesting.  Whoever is in a section that*)
(* the lock guards owns it; what a run in progress means to consume can    *)
(* have been consumed by its own thread only.  Every step but a call       *)
(* replaces the top frame of one stack, and Moves says all the invariant   *)
(* needs to know of it.  A run keeps its tape because only the holder of   *)
(* the lock picks one, and a callback's run is of another executable.      *)
(***************************************************************************)
EXTENDS Execution, TLAPS

\* Every call but the last is in the walk that made the next one.
StackInv ==
  \A t \in Threads, i \in Levels :
    /\ i < depth[t] => frame[t][i].pc = "walk"
    /\ i > depth[t] => frame[t][i].pc = "none"

LockInv ==
  ~Concurrent => \A t \in Threads, i \in Levels : Holds(t, i) => owner = t

\* A run between its check of the arguments and its return.
Taking == {"hold", "tape", "call", "enter", "walk", "eval", "wrap", "donate"}

DonationInv ==
  ~Concurrent =>
    /\ \A b \in array : takers[b] = {}
    /\ \A b \in Bufs : \A t, u \in takers[b] : t = u
    /\ \A t \in Threads, i \in Levels :
         /\ frame[t][i].pc \in Taking =>
              \A b \in frame[t][i].give : takers[b] \subseteq {t}
         /\ frame[t][i].pc = "keep" =>
              \A b \in frame[t][i].keep : takers[b] = {}

IInv == TypeOK /\ StackInv /\ LockInv /\ DonationInv

\* The top call of t goes on as f, or returns.
MovesStack(t, f) ==
  \/ depth' = depth
  \/ f = Blank /\ depth' = [depth EXCEPT ![t] = @ - 1]

\* What becomes of the lock: it stays, is let go, or is got.
MovesLock(t, f) ==
  \/ owner' = owner /\ (f.pc \in Holding => Top(t).pc \in Holding)
  \/ f.pc \notin Holding /\ Release(t)
  \/ (~Concurrent => owner \in {Nobody, t} /\ owner' = t)

Consumes(t) ==
  /\ Top(t).pc = "donate"
  /\ array' = array \ Top(t).give
  /\ takers' = [b \in Bufs |-> IF b \in Top(t).give THEN takers[b] \cup {t}
                                ELSE takers[b]]

\* What becomes of the buffers.
MovesBuffers(t, f) ==
  \/ /\ takers' = takers
     /\ \A b \in array' : b \in array \/ (~Concurrent => takers[b] = {})
     /\ f.pc \in Taking =>
          \A b \in f.give : ~Concurrent => takers[b] \subseteq {t}
     /\ f.pc = "keep" => \A b \in f.keep : ~Concurrent => takers[b] = {}
  \/ f = Blank /\ Consumes(t)

Moves(t) ==
  /\ depth[t] \in Levels
  /\ \E f \in Frames :
       /\ Become(t, f)
       /\ MovesStack(t, f) /\ MovesLock(t, f) /\ MovesBuffers(t, f)

---------------------------------------------------------------------------
(* Frames. *)

\* An empty slot is a frame.
LEMMA BlankType == Blank \in Frames
  <1>1. (CHOOSE x \in Execs : TRUE) \in Execs
    BY ExecutionAssumption
  <1> QED
    BY <1>1, ExecutionAssumption DEF Blank, Frames, Ops, Outside

\* Replacing the top frame replaces that frame and no other.
LEMMA BecomeType ==
  ASSUME TypeOK, NEW t \in Threads, depth[t] \in Levels,
         NEW f \in Frames, Become(t, f)
  PROVE  /\ frame' \in [Threads -> [Levels -> Frames]]
         /\ frame'[t][depth[t]] = f
         /\ \A u \in Threads, i \in Levels :
              u # t \/ i # depth[t] => frame'[u][i] = frame[u][i]
  BY DEF TypeOK, Become

\* The top call of a thread that is in one.
LEMMA TopType ==
  ASSUME TypeOK, NEW t \in Threads, NEW pc, At(t, pc)
  PROVE  depth[t] \in Levels /\ Top(t) \in Frames /\ Top(t).pc = pc
         /\ depth[t] - 1 \in 0 .. MaxDepth
  <1>1. depth[t] \in Levels
    BY ExecutionAssumption DEF TypeOK, At, Levels
  <1> QED
    BY <1>1, ExecutionAssumption DEF TypeOK, At, Top, Levels

\* A frame goes on as a frame.
LEMMA GotoType ==
  ASSUME NEW f \in Frames, NEW pc \in Holding \cup Outside
  PROVE  [f EXCEPT !.pc = pc] \in Frames
  BY DEF Frames

LEMMA PopDepth ==
  ASSUME TypeOK, NEW t \in Threads, depth[t] - 1 \in 0 .. MaxDepth,
         depth' = [depth EXCEPT ![t] = @ - 1]
  PROVE  depth' \in [Threads -> 0 .. MaxDepth]
  BY DEF TypeOK

---------------------------------------------------------------------------
(* What a move preserves. *)

LEMMA MovesStackInv ==
  ASSUME TypeOK, StackInv, NEW t \in Threads, Moves(t)
  PROVE  StackInv'
  <1>1. PICK f \in Frames : Become(t, f) /\ MovesStack(t, f)
    BY DEF Moves
  <1>2. depth[t] \in Levels
    BY DEF Moves
  <1>3. CASE depth' = depth
    <2>1. \A u \in Threads, i \in Levels :
            u # t \/ i # depth[t] => frame'[u][i] = frame[u][i]
      BY <1>1, <1>2, BecomeType
    <2>2. \A u \in Threads, i \in Levels :
            i < depth[u] \/ i > depth[u] => u # t \/ i # depth[t]
      BY <1>2, ExecutionAssumption DEF Levels
    <2> QED
      BY <1>3, <2>1, <2>2 DEF StackInv
  <1>4. CASE f = Blank /\ depth' = [depth EXCEPT ![t] = @ - 1]
    <2> SUFFICES ASSUME NEW u \in Threads, NEW i \in Levels
                 PROVE  /\ i < depth'[u] => frame'[u][i].pc = "walk"
                        /\ i > depth'[u] => frame'[u][i].pc = "none"
      BY DEF StackInv, Levels
    <2>1. CASE u # t
      BY <1>1, <1>2, <1>4, <2>1, BecomeType DEF StackInv, TypeOK
    <2>2. CASE u = t
      <3>1. depth'[u] = depth[t] - 1 /\ i \in Int /\ depth[t] \in Int
        BY <1>4, <2>2, ExecutionAssumption DEF TypeOK, Levels
      <3>2. CASE i = depth[t]
        BY <1>1, <1>2, <1>4, <2>2, <3>1, <3>2, BecomeType DEF Blank
      <3>3. CASE i # depth[t]
        <4>1. frame'[u][i] = frame[u][i]
          BY <1>1, <1>2, <3>3, BecomeType
        <4> QED
          BY <4>1, <2>2, <3>1, <3>3 DEF StackInv
      <3> QED
        BY <3>2, <3>3
    <2> QED
      BY <2>1, <2>2
  <1> QED
    BY <1>1, <1>3, <1>4 DEF MovesStack

LEMMA MovesLockInv ==
  ASSUME TypeOK, StackInv, LockInv, NEW t \in Threads, Moves(t)
  PROVE  LockInv'
  <1>1. PICK f \in Frames : Become(t, f) /\ MovesLock(t, f)
    BY DEF Moves
  <1>2. depth[t] \in Levels /\ Nobody \notin Threads
    BY ExecutionAssumption DEF Moves
  <1> SUFFICES ASSUME ~Concurrent, NEW u \in Threads, NEW i \in Levels,
                      frame'[u][i].pc \in Holding
               PROVE  owner' = u
    BY DEF LockInv, Holds, Levels
  <1>3. \/ u = t /\ i = depth[t] /\ f.pc \in Holding
        \/ (u # t \/ i # depth[t]) /\ Holds(u, i) /\ owner = u
    BY <1>1, <1>2, BecomeType DEF LockInv, Holds
  <1>4. CASE owner' = owner /\ (f.pc \in Holding => Top(t).pc \in Holding)
    BY <1>2, <1>3, <1>4 DEF LockInv, Holds, Top
  <1>5. CASE f.pc \notin Holding /\ Release(t)
    <2>1. CASE u # t
      BY <1>3, <1>5, <2>1 DEF Release
    <2>2. CASE u = t
      <3>1. i # depth[t] /\ Holds(t, i) /\ owner = t
        BY <1>3, <1>5, <2>2
      <3>2. ~(i > depth[t])
        BY <3>1 DEF StackInv, Holds, Holding
      <3>3. i < depth[t]
        BY <3>1, <3>2, <1>2 DEF Levels
      <3> QED
        BY <3>1, <3>3, <1>5, <2>2 DEF Release, HoldsBelow
    <2> QED
      BY <2>1, <2>2
  <1>6. CASE owner \in {Nobody, t} /\ owner' = t
    BY <1>2, <1>3, <1>6
  <1> QED
    BY <1>1, <1>4, <1>5, <1>6 DEF MovesLock

LEMMA MovesDonationInv ==
  ASSUME IInv, NEW t \in Threads, Moves(t)
  PROVE  DonationInv'
  <1>1. PICK f \in Frames : Become(t, f) /\ MovesBuffers(t, f)
    BY DEF Moves
  <1>2. depth[t] \in Levels
    BY DEF Moves
  <1>3. /\ frame'[t][depth[t]] = f
        /\ \A u \in Threads, i \in Levels :
             u # t \/ i # depth[t] => frame'[u][i] = frame[u][i]
    BY <1>1, <1>2, BecomeType DEF IInv
  <1> SUFFICES ASSUME ~Concurrent
               PROVE  /\ \A b \in array' : takers'[b] = {}
                      /\ \A b \in Bufs : \A v, u \in takers'[b] : v = u
                      /\ \A u \in Threads, i \in Levels :
                           /\ frame'[u][i].pc \in Taking =>
                                \A b \in frame'[u][i].give :
                                  takers'[b] \subseteq {u}
                           /\ frame'[u][i].pc = "keep" =>
                                \A b \in frame'[u][i].keep : takers'[b] = {}
    BY DEF DonationInv, Levels
  <1>4. CASE /\ takers' = takers
             /\ \A b \in array' : b \in array \/ (~Concurrent => takers[b] = {})
             /\ f.pc \in Taking =>
                  \A b \in f.give : ~Concurrent => takers[b] \subseteq {t}
             /\ f.pc = "keep" => \A b \in f.keep : ~Concurrent => takers[b] = {}
    BY <1>2, <1>3, <1>4 DEF IInv, DonationInv
  <1>5. CASE f = Blank /\ Consumes(t)
    <2>1. /\ takers \in [Bufs -> SUBSET Threads] /\ array \subseteq Bufs
          /\ \A u \in Threads, i \in Levels :
               frame[u][i].give \subseteq Bufs /\ frame[u][i].keep \subseteq Bufs
      BY DEF IInv, TypeOK, Frames
    <2>2. Top(t).pc = "donate" /\ Holds(t, depth[t]) /\ owner = t
      BY <1>2, <1>5 DEF IInv, LockInv, Consumes, Holds, Top, Holding
    <2>3. \A b \in Top(t).give : takers[b] \subseteq {t}
      BY <1>2, <2>2 DEF IInv, DonationInv, Top, Taking
    <2>4. \A b \in Bufs : takers'[b] = IF b \in Top(t).give
                                         THEN takers[b] \cup {t} ELSE takers[b]
      BY <1>5 DEF Consumes
    <2>5. \A b \in array' : takers'[b] = {}
      BY <1>5, <2>1, <2>4 DEF Consumes, IInv, DonationInv
    <2>6. \A b \in Bufs : \A v, u \in takers'[b] : v = u
      <3> SUFFICES ASSUME NEW b \in Bufs, NEW v \in takers'[b],
                          NEW u \in takers'[b]
                   PROVE  v = u
        OBVIOUS
      <3>1. CASE b \in Top(t).give
        <4>1. takers'[b] = takers[b] \cup {t}
          BY <2>4, <3>1
        <4>2. takers[b] \subseteq {t}
          BY <2>3, <3>1
        <4> QED
          BY <4>1, <4>2
      <3>2. CASE b \notin Top(t).give
        BY <2>4, <3>2 DEF IInv, DonationInv
      <3> QED
        BY <3>1, <3>2
    <2> SUFFICES ASSUME NEW u \in Threads, NEW i \in Levels
                 PROVE  /\ frame'[u][i].pc \in Taking =>
                             \A b \in frame'[u][i].give :
                               takers'[b] \subseteq {u}
                        /\ frame'[u][i].pc = "keep" =>
                             \A b \in frame'[u][i].keep : takers'[b] = {}
      BY <2>5, <2>6
    <2>7. CASE u = t /\ i = depth[t]
      BY <1>3, <1>5, <2>7 DEF Blank, Taking
    <2>8. CASE u = t /\ i # depth[t]
      <3>1. frame'[u][i] = frame[u][i] /\ frame[u][i].pc # "keep"
        <4>1. i < depth[t] \/ i > depth[t]
          BY <1>2, <2>8 DEF Levels
        <4> QED
          BY <4>1, <1>3, <2>8 DEF IInv, StackInv
      <3>2. frame[u][i].pc \in Taking =>
              \A b \in frame[u][i].give : takers[b] \subseteq {t}
        BY <2>8 DEF IInv, DonationInv
      <3> QED
        BY <3>1, <3>2, <2>1, <2>4, <2>8
    <2>9. CASE u # t
      <3>1. frame'[u][i] = frame[u][i] /\ ~Holds(u, i)
        BY <1>3, <2>2, <2>9 DEF IInv, LockInv
      <3> QED
        BY <3>1 DEF Holds, Holding, Taking
    <2> QED
      BY <2>7, <2>8, <2>9
  <1> QED
    BY <1>1, <1>4, <1>5 DEF MovesBuffers

\* A call by the embedder, or by a callback, puts a frame without effects on
\* top of the stack.
LEMMA CallInv ==
  ASSUME IInv, NEW t \in Threads, Call(t)
  PROVE  IInv'
  <1>1. PICK f \in Frames :
          /\ frame' = [frame EXCEPT ![t][depth[t] + 1] = f]
          /\ f.pc \in {"check", "reset", "lock"}
    <2>1. PICK op \in Ops, x \in Execs, give \in SUBSET Bufs,
               keep \in SUBSET Bufs :
            frame' = [frame EXCEPT ![t][depth[t] + 1] = Fresh(op, x, give, keep)]
      BY DEF Call
    <2>2. Begins[op] \in {"check", "reset", "lock"}
      BY DEF Begins
    <2>3. /\ Fresh(op, x, give, keep) \in Frames
          /\ Fresh(op, x, give, keep).pc = Begins[op]
      BY <2>2, BlankType DEF Fresh, Frames, Outside
    <2> QED
      BY <2>1, <2>2, <2>3
  <1>2. /\ depth[t] + 1 \in Levels /\ depth[t] \in Nat
        /\ calls \in Nat /\ calls + 1 \in 0 .. MaxCalls
        /\ depth[t] + 1 \in 0 .. MaxDepth
    BY ExecutionAssumption DEF IInv, TypeOK, Call, Levels
  <1>3. /\ depth' = [depth EXCEPT ![t] = @ + 1] /\ calls' = calls + 1
        /\ UNCHANGED <<owner, running, pending, array, deleted, takers, asked,
                       fused, tapes, fuseDone>>
    BY DEF Call, locks, buffers, fusing
  <1>4. /\ frame' \in [Threads -> [Levels -> Frames]]
        /\ frame'[t][depth[t] + 1] = f
        /\ \A u \in Threads, i \in Levels :
             u # t \/ i # depth[t] + 1 => frame'[u][i] = frame[u][i]
    BY <1>1, <1>2 DEF IInv, TypeOK
  <1>5. TypeOK'
    BY <1>2, <1>3, <1>4 DEF IInv, TypeOK
  <1>6. StackInv'
    <2> SUFFICES ASSUME NEW u \in Threads, NEW i \in Levels
                 PROVE  /\ i < depth'[u] => frame'[u][i].pc = "walk"
                        /\ i > depth'[u] => frame'[u][i].pc = "none"
      BY DEF StackInv, Levels
    <2>1. CASE u # t
      BY <1>3, <1>4, <2>1 DEF IInv, StackInv, TypeOK
    <2>2. CASE u = t
      <3>1. depth'[u] = depth[t] + 1 /\ i \in Nat
        BY <1>3, <2>2 DEF IInv, TypeOK, Levels
      <3>2. CASE i = depth[t]
        <4>1. depth[t] > 0
          BY <3>2 DEF Levels
        <4>2. frame[t][depth[t]].pc = "walk"
          BY <4>1 DEF Call, Top
        <4>3. frame'[t][i] = frame[t][i]
          BY <1>2, <1>4, <3>2
        <4> QED
          BY <4>2, <4>3, <1>2, <2>2, <3>1, <3>2
      <3>3. CASE i # depth[t]
        <4>1. CASE i = depth[t] + 1
          BY <1>2, <2>2, <3>1, <4>1
        <4>2. CASE i # depth[t] + 1
          <5>1. frame'[t][i] = frame[t][i]
            BY <1>4, <4>2
          <5>2. /\ i < depth[t] + 1 => i < depth[t]
                /\ i > depth[t] + 1 => i > depth[t]
            BY <1>2, <3>1, <3>3
          <5>3. /\ i < depth[t] => frame[t][i].pc = "walk"
                /\ i > depth[t] => frame[t][i].pc = "none"
            BY DEF IInv, StackInv
          <5> QED
            BY <5>1, <5>2, <5>3, <2>2, <3>1
        <4> QED
          BY <4>1, <4>2
      <3> QED
        BY <3>2, <3>3
    <2> QED
      BY <2>1, <2>2
  <1>7. LockInv'
    <2> SUFFICES ASSUME ~Concurrent, NEW u \in Threads, NEW i \in Levels,
                        frame'[u][i].pc \in Holding
                 PROVE  owner' = u
      BY DEF LockInv, Holds, Levels
    <2> QED
      BY <1>1, <1>3, <1>4 DEF IInv, LockInv, Holds, Holding
  <1>8. DonationInv'
    <2>1. /\ f.pc \notin Taking /\ f.pc # "keep"
      BY <1>1 DEF Taking
    <2>2. \A u \in Threads, i \in Levels :
            \/ frame'[u][i] = frame[u][i]
            \/ frame'[u][i].pc \notin Taking /\ frame'[u][i].pc # "keep"
      BY <2>1, <1>4
    <2> QED
      BY <2>2, <1>3 DEF IInv, DonationInv, Levels
  <1> QED
    BY <1>5, <1>6, <1>7, <1>8 DEF IInv

---------------------------------------------------------------------------
(* Every step is a move. *)

Framed == frame' \in [Threads -> [Levels -> Frames]]
                /\ depth' \in [Threads -> 0 .. MaxDepth]
                /\ owner' \in Threads \cup {Nobody}

\* The top call goes on, at most letting go of what the invariant asks.
LEMMA Continues ==
  ASSUME IInv, NEW t \in Threads, NEW pc, At(t, pc),
         NEW f \in Frames, Become(t, f), f.give = Top(t).give,
         f.pc \in Holding => pc \in Holding,
         f.pc \in Taking => pc \in Taking, f.pc # "keep",
         depth' = depth, owner' = owner,
         takers' = takers, array' \subseteq array
  PROVE  Moves(t) /\ Framed
  <1>1. depth[t] \in Levels /\ Top(t) \in Frames /\ Top(t).pc = pc
    BY TopType DEF IInv
  <1>2. Framed
    BY <1>1, BecomeType DEF Framed, IInv, TypeOK
  <1>3. MovesStack(t, f) /\ MovesLock(t, f)
    BY <1>1 DEF MovesStack, MovesLock
  <1>4. MovesBuffers(t, f)
    BY <1>1 DEF MovesBuffers, IInv, DonationInv, Top
  <1> QED
    BY <1>1, <1>2, <1>3, <1>4 DEF Moves

LEMMA GoesOn ==
  ASSUME IInv, NEW t \in Threads, NEW pc, At(t, pc),
         NEW to \in Holding \cup Outside, Goto(t, to),
         to \in Holding => pc \in Holding,
         to \in Taking => pc \in Taking, to # "keep",
         depth' = depth, owner' = owner,
         takers' = takers, array' \subseteq array
  PROVE  Moves(t) /\ Framed
  <1>1. Top(t) \in Frames
    BY TopType DEF IInv
  <1> DEFINE f == [Top(t) EXCEPT !.pc = to]
  <1>2. f \in Frames /\ f.pc = to /\ f.give = Top(t).give
    BY <1>1, GotoType DEF Frames
  <1>3. Become(t, f)
    BY DEF Goto
  <1> HIDE DEF f
  <1> QED
    BY <1>2, <1>3, Continues

\* The top call returns, or throws.
LEMMA Returns ==
  ASSUME IInv, NEW t \in Threads, NEW pc, At(t, pc), Return(t),
         takers' = takers, array' \subseteq array
  PROVE  Moves(t) /\ Framed
  <1>1. /\ depth[t] \in Levels /\ Top(t) \in Frames /\ Top(t).pc = pc
        /\ depth[t] - 1 \in 0 .. MaxDepth
    BY TopType DEF IInv
  <1>2. Become(t, Blank) /\ depth' = [depth EXCEPT ![t] = @ - 1] /\ Release(t)
    BY DEF Return, Pop
  <1>3. Blank \in Frames /\ Blank.pc = "none"
    BY BlankType DEF Blank
  <1>4. frame' \in [Threads -> [Levels -> Frames]]
    BY <1>1, <1>2, <1>3, BecomeType DEF IInv
  <1>5. depth' \in [Threads -> 0 .. MaxDepth]
    BY <1>1, <1>2, PopDepth DEF IInv
  <1>6. owner' \in Threads \cup {Nobody}
    BY <1>2 DEF Release, IInv, TypeOK
  <1>7. MovesStack(t, Blank) /\ MovesLock(t, Blank)
    BY <1>2, <1>3 DEF MovesStack, MovesLock, Holding
  <1>8. MovesBuffers(t, Blank)
    BY <1>3 DEF MovesBuffers, Taking
  <1> QED
    BY <1>1, <1>2, <1>3, <1>4, <1>5, <1>6, <1>7, <1>8 DEF Moves, Framed

LEMMA LockStep ==
  ASSUME IInv, NEW t \in Threads, Lock(t)
  PROVE  TypeOK' /\ Moves(t)
  <1>1. depth[t] \in Levels /\ Top(t) \in Frames
    BY TopType DEF IInv, Lock
  <1> DEFINE to == IF Top(t).op \in {"read", "copy"} THEN "take" ELSE "admit"
             f == [Top(t) EXCEPT !.pc = to]
  <1>2. to \in {"take", "admit"}
    OBVIOUS
  <1>3. f \in Frames /\ f.pc = to
    <2> HIDE DEF to
    <2> QED
      BY <1>1, <1>2 DEF Frames, Holding
  <1>4. Become(t, f) /\ depth' = depth /\ takers' = takers /\ array' = array
    BY DEF Lock, Goto, buffers
  <1>5. MovesLock(t, f)
    <2>1. ~Concurrent => owner \in {Nobody, t} /\ owner' = t
      BY DEF Lock, Lockable
    <2> QED
      BY <2>1 DEF MovesLock
  <1> HIDE DEF f, to
  <1>6. MovesStack(t, f) /\ MovesBuffers(t, f)
    BY <1>2, <1>3, <1>4 DEF MovesStack, MovesBuffers, Taking
  <1>7. TypeOK'
    <2>1. frame' \in [Threads -> [Levels -> Frames]]
      BY <1>1, <1>3, <1>4, BecomeType DEF IInv
    <2>2. owner' \in Threads \cup {Nobody}
      BY DEF Lock, IInv, TypeOK
    <2> QED
      BY <2>1, <2>2 DEF Lock, buffers, fusing, IInv, TypeOK
  <1> QED
    BY <1>1, <1>3, <1>4, <1>5, <1>6, <1>7 DEF Moves

LEMMA AdmitStep ==
  ASSUME IInv, NEW t \in Threads, Admit(t)
  PROVE  TypeOK' /\ Moves(t)
  <1>1. /\ At(t, "admit") /\ takers' = takers /\ array' = array
        /\ UNCHANGED <<running, pending, deleted, asked, fused, tapes, fuseDone,
                       calls>>
    BY DEF Admit, buffers, fusing
  <1>2. ASSUME NEW to \in {"args", "store"}, Goto(t, to),
               depth' = depth, owner' = owner
        PROVE  Moves(t) /\ Framed
    <2>1. /\ to \in Holding \cup Outside /\ to \notin Taking /\ to # "keep"
          /\ "admit" \in Holding
      BY DEF Holding, Taking
    <2> QED
      BY <1>1, <1>2, <2>1, GoesOn
  <1>3. Moves(t) /\ Framed
    <2>1. CASE Return(t)
      BY <1>1, <2>1, Returns
    <2>2. CASE ~Return(t)
      <3>1. Goto(t, IF Top(t).op = "run" THEN "args" ELSE "store")
            /\ depth' = depth /\ owner' = owner
        BY <2>2 DEF Admit
      <3>2. CASE Top(t).op = "run"
        BY <3>1, <3>2, <1>2
      <3>3. CASE Top(t).op # "run"
        BY <3>1, <3>3, <1>2
      <3> QED
        BY <3>2, <3>3
    <2> QED
      BY <2>1, <2>2
  <1> QED
    BY <1>1, <1>3 DEF Framed, IInv, TypeOK

LEMMA StoreStep ==
  ASSUME IInv, NEW t \in Threads, Store(t)
  PROVE  TypeOK' /\ Moves(t)
  <1>1. /\ At(t, "store") /\ takers' = takers /\ array' = array
        /\ UNCHANGED <<running, pending, deleted, asked, fused, tapes, fuseDone,
                       calls>>
    BY DEF Store, buffers, fusing
  <1>2. Moves(t) /\ Framed
    BY <1>1, Returns DEF Store
  <1> QED
    BY <1>1, <1>2 DEF Framed, IInv, TypeOK

LEMMA CheckStep ==
  ASSUME IInv, NEW t \in Threads, Check(t)
  PROVE  TypeOK' /\ Moves(t)
  <1>1. /\ At(t, "check") /\ takers' = takers /\ array' = array
        /\ UNCHANGED <<running, pending, deleted, asked, fused, tapes, fuseDone,
                       calls>>
    BY DEF Check, buffers, fusing
  <1>2. Moves(t) /\ Framed
    <2>1. CASE Return(t)
      BY <1>1, <2>1, Returns
    <2>2. CASE Goto(t, "lock") /\ depth' = depth /\ owner' = owner
      <3>1. "lock" \in Outside /\ "lock" \notin Holding \cup Taking
        BY DEF Holding, Outside, Taking
      <3> QED
        BY <1>1, <2>2, <3>1, GoesOn
    <2> QED
      BY <2>1, <2>2 DEF Check
  <1> QED
    BY <1>1, <1>2 DEF Framed, IInv, TypeOK

LEMMA TakeStep ==
  ASSUME IInv, NEW t \in Threads, Take(t)
  PROVE  TypeOK' /\ Moves(t)
  <1>1. /\ At(t, "take") /\ takers' = takers /\ array' = array
        /\ UNCHANGED <<running, pending, deleted, asked, fused, tapes, fuseDone,
                       calls>>
    BY DEF Take, buffers, fusing
  <1>2. CASE Return(t)
    BY <1>1, <1>2, Returns DEF Framed, IInv, TypeOK
  <1>3. CASE Goto(t, "undefined") /\ depth' = depth /\ owner' = owner
    <2>1. "undefined" \in Holding \ Taking /\ "take" \in Holding
      BY DEF Holding, Taking
    <2> QED
      BY <1>1, <1>3, <2>1, GoesOn DEF Framed, IInv, TypeOK
  <1>4. CASE Goto(t, "keep") /\ depth' = depth /\ owner' = owner
             /\ Top(t).keep \subseteq array
    <2>1. /\ depth[t] \in Levels /\ Top(t) \in Frames /\ Top(t).pc = "take"
      BY <1>1, TopType DEF IInv
    <2> DEFINE f == [Top(t) EXCEPT !.pc = "keep"]
    <2>2. f \in Frames /\ f.pc = "keep" /\ f.keep = Top(t).keep
      BY <2>1 DEF Frames, Holding
    <2>3. Become(t, f)
      BY <1>4 DEF Goto
    <2> HIDE DEF f
    <2>4. MovesStack(t, f) /\ MovesLock(t, f)
      BY <1>4, <2>1 DEF MovesStack, MovesLock, Holding
    <2>5. MovesBuffers(t, f)
      BY <1>1, <1>4, <2>2 DEF MovesBuffers, Taking, IInv, DonationInv
    <2>6. frame' \in [Threads -> [Levels -> Frames]]
      BY <2>1, <2>2, <2>3, BecomeType DEF IInv
    <2> QED
      BY <1>1, <1>4, <2>1, <2>2, <2>3, <2>4, <2>5, <2>6 DEF Moves, IInv, TypeOK
  <1> QED
    BY <1>2, <1>3, <1>4 DEF Take

LEMMA KeepStep ==
  ASSUME IInv, NEW t \in Threads, Keep(t)
  PROVE  TypeOK' /\ Moves(t)
  <1>1. /\ At(t, "keep") /\ takers' = takers /\ Release(t)
        /\ array' \in {array, array \cup Top(t).keep}
        /\ UNCHANGED <<running, pending, deleted, asked, fused, tapes, fuseDone,
                       calls>>
    BY DEF Keep, fusing
  <1>2. /\ depth[t] \in Levels /\ Top(t) \in Frames /\ Top(t).pc = "keep"
        /\ depth[t] - 1 \in 0 .. MaxDepth
    BY <1>1, TopType DEF IInv
  <1>3. PICK f \in Frames :
          /\ Become(t, f) /\ MovesStack(t, f) /\ f.pc \in Outside
          /\ depth' \in [Threads -> 0 .. MaxDepth]
    <2>1. CASE Top(t).op = "copy"
      <3> DEFINE g == [Top(t) EXCEPT !.op = "put", !.pc = "lock"]
      <3>1. g \in Frames /\ g.pc \in Outside
        BY <1>2 DEF Frames, Ops, Outside
      <3>2. Become(t, g) /\ depth' = depth
        BY <2>1 DEF Keep
      <3> HIDE DEF g
      <3> QED
        BY <3>1, <3>2 DEF MovesStack, IInv, TypeOK
    <2>2. CASE Top(t).op # "copy"
      <3>1. Become(t, Blank) /\ depth' = [depth EXCEPT ![t] = @ - 1]
        BY <2>2 DEF Keep, Pop
      <3>2. Blank \in Frames /\ Blank.pc \in Outside
        BY BlankType DEF Blank, Outside
      <3> QED
        BY <1>2, <3>1, <3>2, PopDepth DEF MovesStack, IInv
    <2> QED
      BY <2>1, <2>2
  <1>4. f.pc \notin Holding /\ f.pc \notin Taking /\ f.pc # "keep"
    BY <1>3 DEF Outside, Holding, Taking
  <1>5. MovesLock(t, f)
    BY <1>1, <1>4 DEF MovesLock
  <1>6. MovesBuffers(t, f)
    BY <1>1, <1>2, <1>4 DEF MovesBuffers, IInv, DonationInv, Top
  <1>7. /\ frame' \in [Threads -> [Levels -> Frames]]
        /\ owner' \in Threads \cup {Nobody} /\ array' \subseteq Bufs
    BY <1>1, <1>2, <1>3, BecomeType DEF Release, IInv, TypeOK, Frames
  <1> QED
    BY <1>1, <1>2, <1>3, <1>5, <1>6, <1>7 DEF Moves, IInv, TypeOK

LEMMA DeleteResetsStep ==
  ASSUME IInv, NEW t \in Threads, DeleteResets(t)
  PROVE  TypeOK' /\ Moves(t)
  <1>1. /\ At(t, "reset") /\ takers' = takers /\ Goto(t, "flag")
        /\ array' = array \ Top(t).keep /\ asked' = asked \cup Top(t).keep
        /\ UNCHANGED <<depth, owner, running, pending, deleted, fused, tapes,
                       fuseDone, calls>>
    BY DEF DeleteResets, locks, fusing
  <1>2. "flag" \in Outside /\ "flag" \notin Holding \cup Taking
    BY DEF Outside, Holding, Taking
  <1>3. Top(t).keep \subseteq Bufs
    BY <1>1, TopType DEF IInv, Frames
  <1>4. Moves(t) /\ Framed
    BY <1>1, <1>2, GoesOn
  <1> QED
    BY <1>1, <1>3, <1>4 DEF Framed, IInv, TypeOK

LEMMA DeleteFlagsStep ==
  ASSUME IInv, NEW t \in Threads, DeleteFlags(t)
  PROVE  TypeOK' /\ Moves(t)
  <1>1. /\ At(t, "flag") /\ takers' = takers /\ Return(t) /\ array' = array
        /\ deleted' = deleted \cup Top(t).keep
        /\ UNCHANGED <<running, pending, asked, fused, tapes, fuseDone, calls>>
    BY DEF DeleteFlags, fusing
  <1>2. Top(t).keep \subseteq Bufs
    BY <1>1, TopType DEF IInv, Frames
  <1>3. Moves(t) /\ Framed
    BY <1>1, Returns
  <1> QED
    BY <1>1, <1>2, <1>3 DEF Framed, IInv, TypeOK

\* A run that finds its arguments present finds them unconsumed.
LEMMA CheckArgsStep ==
  ASSUME IInv, NEW t \in Threads, CheckArgs(t)
  PROVE  TypeOK' /\ Moves(t)
  <1>1. /\ At(t, "args") /\ takers' = takers /\ array' = array
        /\ UNCHANGED <<running, pending, deleted, asked, fused, tapes, fuseDone,
                       calls>>
    BY DEF CheckArgs, buffers, fusing
  <1>2. CASE Return(t)
    BY <1>1, <1>2, Returns DEF Framed, IInv, TypeOK
  <1>3. CASE Goto(t, "hold") /\ depth' = depth /\ owner' = owner
             /\ Args(t) \subseteq array
    <2>1. /\ depth[t] \in Levels /\ Top(t) \in Frames /\ Top(t).pc = "args"
      BY <1>1, TopType DEF IInv
    <2> DEFINE f == [Top(t) EXCEPT !.pc = "hold"]
    <2>2. f \in Frames /\ f.pc = "hold" /\ f.give = Top(t).give
      BY <2>1 DEF Frames, Holding
    <2>3. Become(t, f)
      BY <1>3 DEF Goto
    <2> HIDE DEF f
    <2>4. MovesStack(t, f) /\ MovesLock(t, f)
      BY <1>3, <2>1 DEF MovesStack, MovesLock, Holding
    <2>5. MovesBuffers(t, f)
      BY <1>1, <1>3, <2>2 DEF MovesBuffers, Args, IInv, DonationInv
    <2>6. frame' \in [Threads -> [Levels -> Frames]]
      BY <2>1, <2>2, <2>3, BecomeType DEF IInv
    <2> QED
      BY <1>1, <1>3, <2>1, <2>2, <2>3, <2>4, <2>5, <2>6 DEF Moves, IInv, TypeOK
  <1> QED
    BY <1>2, <1>3 DEF CheckArgs

LEMMA HoldStep ==
  ASSUME IInv, NEW t \in Threads, Hold(t)
  PROVE  TypeOK' /\ Moves(t)
  <1>1. /\ At(t, "hold") /\ takers' = takers /\ array' = array
        /\ UNCHANGED <<depth, owner, running, pending, deleted, asked, fused,
                       tapes, fuseDone, calls>>
    BY DEF Hold, locks, buffers, fusing
  <1>2. ASSUME NEW to \in {"tape", "undefined"}, Goto(t, to)
        PROVE  Moves(t) /\ Framed
    <2>1. to \in Holding /\ to # "keep" /\ "hold" \in Holding \cap Taking
      BY DEF Holding, Taking
    <2> QED
      BY <1>1, <1>2, <2>1, GoesOn
  <1>3. Moves(t) /\ Framed
    <2>1. CASE Args(t) \subseteq array
      BY <2>1, <1>2 DEF Hold
    <2>2. CASE ~(Args(t) \subseteq array)
      BY <2>2, <1>2 DEF Hold
    <2> QED
      BY <2>1, <2>2
  <1> QED
    BY <1>1, <1>3 DEF Framed, IInv, TypeOK

LEMMA PickTapeStep ==
  ASSUME IInv, NEW t \in Threads, PickTape(t)
  PROVE  TypeOK' /\ Moves(t)
  <1>1. /\ At(t, "tape") /\ takers' = takers /\ array' = array
        /\ UNCHANGED <<depth, owner, running, pending, deleted, asked, calls>>
    BY DEF PickTape, locks, buffers
  <1>2. Top(t) \in Frames
    BY <1>1, TopType DEF IInv
  <1>3. PICK ref \in {"plain", "fused"} :
          Become(t, [Top(t) EXCEPT !.pc = "call", !.ref = ref])
    BY DEF PickTape
  <1> DEFINE f == [Top(t) EXCEPT !.pc = "call", !.ref = ref]
  <1>4. f \in Frames /\ f.pc = "call" /\ f.give = Top(t).give
    BY <1>2 DEF Frames, Holding
  <1>5. Become(t, f)
    BY <1>3
  <1> HIDE DEF f
  <1>6. "tape" \in Holding \cap Taking
    BY DEF Holding, Taking
  <1>7. Moves(t) /\ Framed
    BY <1>1, <1>4, <1>5, <1>6, Continues
  <1>8. /\ fused' \in [Execs -> 0 .. MaxTapes]
        /\ tapes' \in [Execs -> 0 .. MaxTapes]
        /\ fuseDone' \in [Execs -> BOOLEAN]
    <2>1. Top(t).exec \in Execs
      BY <1>2 DEF Frames
    <2>2. CASE UNCHANGED fusing
      BY <2>2 DEF fusing, IInv, TypeOK
    <2>3. CASE /\ tapes[Top(t).exec] < MaxTapes
               /\ tapes' = [tapes EXCEPT ![Top(t).exec] = @ + 1]
               /\ fused' = [fused EXCEPT ![Top(t).exec] = tapes[Top(t).exec] + 1]
               /\ fuseDone' = [fuseDone EXCEPT ![Top(t).exec] = FALSE]
      <3>1. tapes[Top(t).exec] + 1 \in 0 .. MaxTapes
        BY <2>1, <2>3, ExecutionAssumption DEF IInv, TypeOK
      <3> QED
        BY <2>1, <2>3, <3>1 DEF IInv, TypeOK
    <2>4. CASE /\ fused' = [fused EXCEPT ![Top(t).exec] = 0]
               /\ fuseDone' = [fuseDone EXCEPT ![Top(t).exec] = TRUE]
               /\ UNCHANGED tapes
      <3>1. 0 \in 0 .. MaxTapes
        BY ExecutionAssumption
      <3> QED
        BY <2>1, <2>4, <3>1 DEF IInv, TypeOK
    <2> QED
      BY <2>2, <2>3, <2>4 DEF PickTape
  <1> QED
    BY <1>1, <1>7, <1>8 DEF Framed, IInv, TypeOK

LEMMA EnterStep ==
  ASSUME IInv, NEW t \in Threads, Enter(t)
  PROVE  TypeOK' /\ Moves(t)
  <1>1. /\ At(t, "call") /\ takers' = takers /\ array' = array
        /\ UNCHANGED <<depth, owner, running, pending, deleted, asked, fused,
                       tapes, fuseDone, calls>>
    BY DEF Enter, locks, buffers, fusing
  <1>2. Top(t) \in Frames
    BY <1>1, TopType DEF IInv
  <1>3. "call" \in Holding \cap Taking
    BY DEF Holding, Taking
  <1>4. CASE Goto(t, "undefined")
    <2>1. "undefined" \in Holding
      BY DEF Holding
    <2> QED
      BY <1>1, <1>3, <1>4, <2>1, GoesOn DEF Framed, IInv, TypeOK
  <1>5. CASE ~Goto(t, "undefined")
    <2> DEFINE v == IF Top(t).ref = "fused" THEN fused[Top(t).exec] ELSE 0
               f == [Top(t) EXCEPT !.pc = "enter", !.ver = v]
    <2>1. v \in 0 .. MaxTapes
      BY <1>2, ExecutionAssumption DEF IInv, TypeOK, Frames
    <2>2. f \in Frames /\ f.pc = "enter" /\ f.give = Top(t).give
      <3> HIDE DEF v
      <3> QED
        BY <1>2, <2>1 DEF Frames, Holding
    <2>3. Become(t, f)
      BY <1>5 DEF Enter
    <2> HIDE DEF f
    <2>4. Moves(t) /\ Framed
      BY <1>1, <1>3, <2>2, <2>3, Continues
    <2> QED
      BY <1>1, <2>4 DEF Framed, IInv, TypeOK
  <1> QED
    BY <1>4, <1>5

LEMMA WalkStep ==
  ASSUME IInv, NEW t \in Threads, Walk(t)
  PROVE  TypeOK' /\ Moves(t)
  <1>1. /\ At(t, "enter") /\ takers' = takers /\ array' = array
        /\ Goto(t, "walk")
        /\ running' = running \cup {<<Top(t).exec, Top(t).ver, t>>}
        /\ pending' = [pending EXCEPT ![t] = {}]
        /\ UNCHANGED <<depth, owner, deleted, asked, fused, tapes, fuseDone,
                       calls>>
    BY DEF Walk, buffers, fusing
  <1>2. "walk" \in Holding /\ "enter" \in Holding \cap Taking
    BY DEF Holding, Taking
  <1>3. Moves(t) /\ Framed
    BY <1>1, <1>2, GoesOn
  <1>4. Top(t).exec \in Execs /\ Top(t).ver \in 0 .. MaxTapes
    BY <1>1, TopType DEF IInv, Frames
  <1>5. running' \subseteq Execs \X (0 .. MaxTapes) \X Threads
    <2>1. <<Top(t).exec, Top(t).ver, t>> \in Execs \X (0 .. MaxTapes) \X Threads
      BY <1>4
    <2>2. running \subseteq Execs \X (0 .. MaxTapes) \X Threads
      BY DEF IInv, TypeOK
    <2> QED
      BY <1>1, <2>1, <2>2
  <1>6. pending' \in [Threads -> SUBSET Levels]
    BY <1>1 DEF IInv, TypeOK
  <1> QED
    BY <1>1, <1>3, <1>5, <1>6 DEF Framed, IInv, TypeOK

LEMMA LaunchStep ==
  ASSUME IInv, NEW t \in Threads, Launch(t)
  PROVE  TypeOK' /\ Moves(t)
  <1>1. /\ At(t, "walk") /\ takers' = takers /\ array' = array
        /\ pending' = [pending EXCEPT ![t] = @ \cup {depth[t]}]
        /\ UNCHANGED <<depth, owner, running, deleted, asked, fused, tapes,
                       fuseDone, calls>>
    BY DEF Launch, locks, buffers, fusing
  <1>2. depth[t] \in Levels /\ Top(t) \in Frames /\ Top(t).pc = "walk"
    BY <1>1, TopType DEF IInv
  <1> DEFINE f == [Top(t) EXCEPT !.msl = TRUE]
  <1>3. f \in Frames /\ f.pc = "walk" /\ f.give = Top(t).give
    BY <1>2 DEF Frames
  <1>4. Become(t, f)
    BY DEF Launch
  <1> HIDE DEF f
  <1>5. Moves(t) /\ Framed
    BY <1>1, <1>3, <1>4, Continues
  <1> QED
    BY <1>1, <1>2, <1>5 DEF Framed, IInv, TypeOK

LEMMA WalkEndsStep ==
  ASSUME IInv, NEW t \in Threads, WalkEnds(t)
  PROVE  TypeOK' /\ Moves(t)
  <1>1. /\ At(t, "walk") /\ takers' = takers /\ array' = array
        /\ running' = running \ {<<Top(t).exec, Top(t).ver, t>>}
        /\ pending' \in {pending, [pending EXCEPT ![t] = {}]}
        /\ UNCHANGED <<deleted, asked, fused, tapes, fuseDone, calls>>
    BY DEF WalkEnds, buffers, fusing
  <1>2. Top(t) \in Frames
    BY <1>1, TopType DEF IInv
  <1>3. Moves(t) /\ Framed
    <2>1. CASE Return(t)
      BY <1>1, <2>1, Returns
    <2>2. CASE ~Return(t)
      <3> DEFINE m == Top(t).msl /\ depth[t] \notin pending[t]
                 f == [Top(t) EXCEPT !.pc = "eval", !.msl = m]
      <3>1. f \in Frames /\ f.pc = "eval" /\ f.give = Top(t).give
        <4>1. m \in BOOLEAN
          OBVIOUS
        <4> HIDE DEF m
        <4> QED
          BY <1>2, <4>1 DEF Frames, Holding
      <3>2. Become(t, f) /\ depth' = depth /\ owner' = owner
        BY <2>2 DEF WalkEnds
      <3> HIDE DEF f
      <3>3. "walk" \in Holding \cap Taking
        BY DEF Holding, Taking
      <3> QED
        BY <1>1, <3>1, <3>2, <3>3, Continues
    <2> QED
      BY <2>1, <2>2
  <1> QED
    BY <1>1, <1>3 DEF Framed, IInv, TypeOK

LEMMA EvalStep ==
  ASSUME IInv, NEW t \in Threads, Eval(t)
  PROVE  TypeOK' /\ Moves(t)
  <1>1. /\ At(t, "eval") /\ takers' = takers /\ array' = array
        /\ UNCHANGED <<running, pending, deleted, asked, fused, tapes, fuseDone,
                       calls>>
    BY DEF Eval, buffers, fusing
  <1>2. Moves(t) /\ Framed
    <2>1. CASE Return(t)
      BY <1>1, <2>1, Returns
    <2>2. ASSUME NEW to \in {"wrap"}, Goto(t, to),
                 depth' = depth, owner' = owner
          PROVE  Moves(t) /\ Framed
      <3>1. /\ to \in Holding /\ to # "keep" /\ "eval" \in Holding
            /\ to \in Taking => "eval" \in Taking
        BY DEF Holding, Taking
      <3> QED
        BY <1>1, <2>2, <3>1, GoesOn
    <2> QED
      BY <2>1, <2>2 DEF Eval
  <1> QED
    BY <1>1, <1>2 DEF Framed, IInv, TypeOK

LEMMA WrapStep ==
  ASSUME IInv, NEW t \in Threads, Wrap(t)
  PROVE  TypeOK' /\ Moves(t)
  <1>1. /\ At(t, "wrap") /\ takers' = takers /\ array' = array
        /\ UNCHANGED <<running, pending, deleted, asked, fused, tapes, fuseDone,
                       calls>>
    BY DEF Wrap, buffers, fusing
  <1>2. Moves(t) /\ Framed
    <2>1. CASE Return(t)
      BY <1>1, <2>1, Returns
    <2>2. ASSUME NEW to \in {"undefined", "donate"}, Goto(t, to),
                 depth' = depth, owner' = owner
          PROVE  Moves(t) /\ Framed
      <3>1. /\ to \in Holding /\ to # "keep" /\ "wrap" \in Holding
            /\ to \in Taking => "wrap" \in Taking
        BY DEF Holding, Taking
      <3> QED
        BY <1>1, <2>2, <3>1, GoesOn
    <2> QED
      BY <2>1, <2>2 DEF Wrap
  <1> QED
    BY <1>1, <1>2 DEF Framed, IInv, TypeOK

LEMMA DonateStep ==
  ASSUME IInv, NEW t \in Threads, Donate(t)
  PROVE  TypeOK' /\ Moves(t)
  <1>1. /\ At(t, "donate") /\ Return(t)
        /\ array' = array \ Top(t).give /\ deleted' = deleted \cup Top(t).give
        /\ takers' = [b \in Bufs |-> IF b \in Top(t).give
                                       THEN takers[b] \cup {t} ELSE takers[b]]
        /\ UNCHANGED <<running, pending, asked, fused, tapes, fuseDone, calls>>
    BY DEF Donate, fusing
  <1>2. /\ depth[t] \in Levels /\ Top(t) \in Frames /\ Top(t).pc = "donate"
        /\ depth[t] - 1 \in 0 .. MaxDepth
    BY <1>1, TopType DEF IInv
  <1>3. Become(t, Blank) /\ depth' = [depth EXCEPT ![t] = @ - 1] /\ Release(t)
    BY <1>1 DEF Return, Pop
  <1>4. Blank \in Frames /\ Blank.pc = "none"
    BY BlankType DEF Blank
  <1>5. Moves(t)
    BY <1>1, <1>2, <1>3, <1>4
       DEF Moves, MovesStack, MovesLock, MovesBuffers, Consumes, Holding
  <1>6. /\ frame' \in [Threads -> [Levels -> Frames]]
        /\ depth' \in [Threads -> 0 .. MaxDepth]
    BY <1>2, <1>3, <1>4, BecomeType, PopDepth DEF IInv
  <1>7. owner' \in Threads \cup {Nobody}
    BY <1>3 DEF Release, IInv, TypeOK
  <1>8. /\ array' \subseteq Bufs /\ deleted' \subseteq Bufs
        /\ takers' \in [Bufs -> SUBSET Threads]
    BY <1>1, <1>2 DEF Frames, IInv, TypeOK
  <1> QED
    BY <1>1, <1>5, <1>6, <1>7, <1>8 DEF IInv, TypeOK

---------------------------------------------------------------------------
(* The theorems. *)

\* Every call and every step keeps the invariant.
LEMMA StepInv ==
  ASSUME IInv, NEW t \in Threads, Call(t) \/ Step(t)
  PROVE  IInv'
  <1>1. CASE Step(t)
    <2>1. TypeOK' /\ Moves(t)
      BY <1>1, LockStep, AdmitStep, StoreStep, CheckStep, TakeStep, KeepStep,
         DeleteResetsStep, DeleteFlagsStep, CheckArgsStep, HoldStep,
         PickTapeStep, EnterStep, WalkStep, LaunchStep, WalkEndsStep, EvalStep,
         WrapStep, DonateStep DEF Step
    <2>2. StackInv' /\ LockInv'
      BY <2>1, MovesStackInv, MovesLockInv DEF IInv
    <2> QED
      BY <2>1, <2>2, MovesDonationInv DEF IInv
  <1> QED
    BY <1>1, CallInv

LEMMA InitInv == Init => IInv
  <1> SUFFICES ASSUME Init PROVE IInv
    OBVIOUS
  <1>1. Blank \in Frames /\ Blank.pc = "none"
    BY BlankType DEF Blank
  <1>2. /\ frame = [t \in Threads |-> [i \in Levels |-> Blank]]
        /\ depth = [t \in Threads |-> 0] /\ 0 \in 0 .. MaxDepth
        /\ 0 \in 0 .. MaxTapes /\ 0 \in 0 .. MaxCalls
    BY ExecutionAssumption DEF Init
  <1>3. TypeOK
    BY <1>1, <1>2 DEF Init, TypeOK
  <1>4. StackInv
    BY <1>1, <1>2 DEF StackInv, Levels
  <1>5. LockInv
    BY <1>1, <1>2 DEF LockInv, Holds, Holding
  <1>6. DonationInv
    BY <1>1, <1>2 DEF Init, DonationInv, Taking
  <1> QED
    BY <1>3, <1>4, <1>5, <1>6 DEF IInv

THEOREM Inductive == Spec => []IInv
  <1>1. IInv /\ [Next]_vars => IInv'
    <2> SUFFICES ASSUME IInv, [Next]_vars PROVE IInv'
      OBVIOUS
    <2>1. CASE Next
      BY <2>1, StepInv DEF Next
    <2>2. CASE UNCHANGED vars
      <3>1. UNCHANGED <<frame, depth, owner, running, pending, array, deleted,
                        takers, asked, fused, tapes, fuseDone, calls>>
        BY <2>2 DEF vars, locks, buffers, fusing
      <3> QED
        BY <3>1 DEF IInv, TypeOK, StackInv, LockInv, DonationInv, Holds
    <2> QED
      BY <2>1, <2>2
  <1> QED
    BY InitInv, <1>1, PTL DEF Spec

\* Two threads are never inside MLX at once: a thread that drives it holds the
\* submission lock, in this call or in the one that made it.
THEOREM SubmitsAlone == Spec => []OneSubmitter
  <1>1. IInv => OneSubmitter
    <2>1. InMLX \subseteq Holding
      BY DEF InMLX, Holding
    <2> QED
      BY <2>1 DEF IInv, LockInv, OneSubmitter, Driving, Holds
  <1> QED
    BY <1>1, Inductive, PTL

\* A donated buffer is consumed by the runs of one thread.
THEOREM ConsumedByOne == Spec => []TakenByOne
  <1>1. IInv => TakenByOne
    BY DEF IInv, DonationInv, TakenByOne
  <1> QED
    BY <1>1, Inductive, PTL

\* No read that races a donation gives the buffer its array back.
THEOREM DonatedEmpty == Spec => []DonatedStaysEmpty
  <1>1. IInv => DonatedStaysEmpty
    BY DEF IInv, DonationInv, DonatedStaysEmpty
  <1> QED
    BY <1>1, Inductive, PTL

\* A failing run leaves its arguments, whether or not the lock is lifted.
THEOREM ArgumentsSurvive == Spec => []FailureKeepsArguments
  <1>1. Init => FailureKeepsArguments
    BY DEF Init, FailureKeepsArguments
  <1>2. FailureKeepsArguments /\ [Next]_vars /\ IInv => FailureKeepsArguments'
    <2> SUFFICES ASSUME FailureKeepsArguments, [Next]_vars, IInv
                 PROVE  FailureKeepsArguments'
      OBVIOUS
    <2>1. CASE UNCHANGED buffers
      BY <2>1 DEF buffers, FailureKeepsArguments
    <2>2. ASSUME NEW t \in Threads, Keep(t)
          PROVE  FailureKeepsArguments'
      BY <2>2 DEF Keep, FailureKeepsArguments
    <2>3. ASSUME NEW t \in Threads, DeleteResets(t)
          PROVE  FailureKeepsArguments'
      BY <2>3 DEF DeleteResets, FailureKeepsArguments
    <2>4. ASSUME NEW t \in Threads, DeleteFlags(t)
          PROVE  FailureKeepsArguments'
      BY <2>4 DEF DeleteFlags, FailureKeepsArguments
    <2>5. ASSUME NEW t \in Threads, Donate(t)
          PROVE  FailureKeepsArguments'
      <3>1. \A b \in Bufs :
              /\ b \in Top(t).give => takers'[b] = takers[b] \cup {t}
              /\ b \notin Top(t).give => takers'[b] = takers[b]
        BY <2>5 DEF Donate
      <3> QED
        BY <2>5, <3>1 DEF Donate, FailureKeepsArguments
    <2>6. CASE UNCHANGED vars
      BY <2>1, <2>6 DEF vars
    <2>7. CASE Next
      BY <2>1, <2>2, <2>3, <2>4, <2>5, <2>7
         DEF Next, Call, Step, Lock, Admit, Store, Check, Take, CheckArgs, Hold,
             PickTape, Enter, Walk, Launch, WalkEnds, Eval, Wrap
    <2> QED
      BY <2>6, <2>7
  <1> QED
    BY <1>1, <1>2, Inductive, PTL DEF Spec

\* A donation happens once, for good, and only in a run that succeeded.
THEOREM DonatedOnce == Spec => []DonationsAreFinal
  BY ConsumedByOne, DonatedEmpty, ArgumentsSurvive, PTL DEF DonationsAreFinal

---------------------------------------------------------------------------
(* The tapes that runs hold references to. *)

\* A run between getting the lock and its return.
Running == {"args", "hold", "tape", "call", "enter", "walk", "eval", "wrap",
            "donate"}

RunInv ==
  \A t \in Threads, i \in Levels :
    frame[t][i].pc \in Running => frame[t][i].op = "run"

\* A run made by a callback is of an executable lower in rank.
NestInv(rank) ==
  \A t \in Threads, i, j \in Levels :
    i < j /\ j <= depth[t] /\ frame[t][j].op = "run" =>
      rank[frame[t][j].exec] < rank[frame[t][i].exec]

\* What a step makes of the top call of t, and of the fused tapes: it goes on,
\* a run as a run; or it was a run that picks its tape.
MovesRun(t, f) ==
  /\ \/ f = Blank /\ depth' = [depth EXCEPT ![t] = @ - 1]
     \/ /\ depth' = depth /\ f.exec = Top(t).exec
        /\ f.op = "run" => Top(t).op = "run"
  /\ f.pc \in Running => f.op = "run"
  /\ \/ /\ fused' = fused
        /\ f.pc \in Reading /\ f.ref = "fused" => fused[f.exec] = f.ver
     \/ /\ Top(t).pc = "tape" /\ f.pc \notin Reading
        /\ \A x \in Execs : x # Top(t).exec => fused'[x] = fused[x]

\* The top call goes on to another point of the same entry.
LEMMA GoesRun ==
  ASSUME TypeOK, RunInv, TapeOutlivesRun, NEW t \in Threads, NEW pc, At(t, pc),
         NEW to \in Holding \cup Outside, Goto(t, to), depth' = depth,
         fused' = fused,
         to \in Running => pc \in Running \/ Top(t).op = "run",
         to \in Reading => pc \in Reading
  PROVE  \E f \in Frames : Become(t, f) /\ MovesRun(t, f)
  <1>1. depth[t] \in Levels /\ Top(t) \in Frames /\ Top(t).pc = pc
    BY TopType
  <1> DEFINE f == [Top(t) EXCEPT !.pc = to]
  <1>2. /\ f \in Frames /\ f.pc = to /\ f.op = Top(t).op
        /\ f.exec = Top(t).exec /\ f.ref = Top(t).ref /\ f.ver = Top(t).ver
    BY <1>1, GotoType DEF Frames
  <1>3. Become(t, f)
    BY DEF Goto
  <1> HIDE DEF f
  <1>4. f.pc \in Running => f.op = "run"
    BY <1>1, <1>2 DEF RunInv, Top
  <1>5. f.pc \in Reading /\ f.ref = "fused" => fused[f.exec] = f.ver
    BY <1>1, <1>2 DEF TapeOutlivesRun, Top
  <1> QED
    BY <1>2, <1>3, <1>4, <1>5 DEF MovesRun

LEMMA ReturnsRun ==
  ASSUME NEW t \in Threads, Pop(t), fused' = fused
  PROVE  \E f \in Frames : Become(t, f) /\ MovesRun(t, f)
  <1>1. Blank \in Frames /\ Blank.pc = "none"
    BY BlankType DEF Blank
  <1> QED
    BY <1>1 DEF Pop, MovesRun, Running, Reading

LEMMA StepMovesRun ==
  ASSUME TypeOK, RunInv, TapeOutlivesRun, NEW t \in Threads, Step(t)
  PROVE  depth[t] \in Levels /\ \E f \in Frames : Become(t, f) /\ MovesRun(t, f)
  <1> USE DEF fusing, locks, buffers
  <1>0. depth[t] \in Levels
    <2>1. depth[t] > 0
      BY DEF Step, Lock, Admit, Store, Check, Take, Keep, DeleteResets,
             DeleteFlags, CheckArgs, Hold, PickTape, Enter, Walk, Launch,
             WalkEnds, Eval, Wrap, Donate, At
    <2> QED
      BY <2>1, ExecutionAssumption DEF TypeOK, Levels
  <1>1. CASE Lock(t)
    <2>1. PICK to \in {"take", "admit"} : Goto(t, to)
      BY <1>1 DEF Lock
    <2> QED
      BY <1>0, <1>1, <2>1, GoesRun DEF Lock, Holding, Running, Reading
  <1>2. CASE Admit(t)
    <2>1. CASE Return(t)
      BY <1>0, <1>2, <2>1, ReturnsRun DEF Admit, Return
    <2>2. CASE Top(t).op = "run" /\ Goto(t, "args") /\ depth' = depth
      BY <1>0, <1>2, <2>2, GoesRun DEF Admit, Holding, Reading
    <2>3. CASE Goto(t, "store") /\ depth' = depth
      BY <1>0, <1>2, <2>3, GoesRun DEF Admit, Holding, Running, Reading
    <2> QED
      BY <1>2, <2>1, <2>2, <2>3 DEF Admit
  <1>3. CASE Store(t)
    BY <1>0, <1>3, ReturnsRun DEF Store, Return
  <1>4. CASE Check(t)
    <2>1. CASE Return(t)
      BY <1>0, <1>4, <2>1, ReturnsRun DEF Check, Return
    <2>2. CASE Goto(t, "lock") /\ depth' = depth
      BY <1>0, <1>4, <2>2, GoesRun DEF Check, Outside, Running, Reading
    <2> QED
      BY <1>4, <2>1, <2>2 DEF Check
  <1>5. CASE Take(t)
    <2>1. CASE Return(t)
      BY <1>0, <1>5, <2>1, ReturnsRun DEF Take, Return
    <2>2. CASE ~Return(t)
      <3>1. PICK to \in {"keep", "undefined"} : Goto(t, to) /\ depth' = depth
        BY <1>5, <2>2 DEF Take
      <3> QED
        BY <1>0, <1>5, <2>2, <3>1, GoesRun DEF Take, Holding, Running, Reading
    <2> QED
      BY <1>5, <2>1, <2>2 DEF Take
  <1>6. CASE Keep(t)
    <2>1. CASE Pop(t)
      BY <1>0, <1>6, <2>1, ReturnsRun DEF Keep
    <2>2. CASE Become(t, [Top(t) EXCEPT !.op = "put", !.pc = "lock"])
               /\ depth' = depth
      <3> DEFINE g == [Top(t) EXCEPT !.op = "put", !.pc = "lock"]
      <3>1. Top(t) \in Frames
        BY <1>6, TopType DEF Keep
      <3>2. /\ g \in Frames /\ g.pc = "lock" /\ g.op = "put"
            /\ g.exec = Top(t).exec
        BY <3>1 DEF Frames, Ops, Outside
      <3>3. Become(t, g)
        BY <2>2
      <3> HIDE DEF g
      <3> QED
        BY <1>0, <1>6, <2>2, <3>2, <3>3 DEF Keep, MovesRun, Running, Reading
    <2> QED
      BY <1>6, <2>1, <2>2 DEF Keep
  <1>7. CASE DeleteResets(t)
    BY <1>0, <1>7, GoesRun DEF DeleteResets, Outside, Running, Reading
  <1>8. CASE DeleteFlags(t)
    BY <1>0, <1>8, ReturnsRun DEF DeleteFlags, Return
  <1>9. CASE CheckArgs(t)
    <2>1. CASE Return(t)
      BY <1>0, <1>9, <2>1, ReturnsRun DEF CheckArgs, Return
    <2>2. CASE Goto(t, "hold") /\ depth' = depth
      BY <1>0, <1>9, <2>2, GoesRun DEF CheckArgs, Holding, Running, Reading
    <2> QED
      BY <1>9, <2>1, <2>2 DEF CheckArgs
  <1>10. CASE Hold(t)
    <2>1. PICK to \in {"tape", "undefined"} : Goto(t, to)
      BY <1>10 DEF Hold
    <2> QED
      BY <1>0, <1>10, <2>1, GoesRun DEF Hold, Holding, Running, Reading
  <1>11. CASE PickTape(t)
    <2>1. Top(t) \in Frames /\ Top(t).pc = "tape" /\ Top(t).op = "run"
      BY <1>0, <1>11, TopType DEF PickTape, RunInv, Running, Top
    <2>2. PICK ref \in {"plain", "fused"} :
            Become(t, [Top(t) EXCEPT !.pc = "call", !.ref = ref])
      BY <1>11 DEF PickTape
    <2> DEFINE f == [Top(t) EXCEPT !.pc = "call", !.ref = ref]
    <2>3. /\ f \in Frames /\ f.pc = "call" /\ f.op = Top(t).op
          /\ f.exec = Top(t).exec
      BY <2>1 DEF Frames, Holding
    <2>4. Become(t, f)
      BY <2>2
    <2>5. \A x \in Execs : x # Top(t).exec => fused'[x] = fused[x]
      BY <1>11 DEF PickTape, TypeOK
    <2> HIDE DEF f
    <2> QED
      BY <1>0, <1>11, <2>1, <2>3, <2>4, <2>5
         DEF PickTape, MovesRun, Running, Reading
  <1>12. CASE Enter(t)
    <2>1. CASE Goto(t, "undefined")
      BY <1>0, <1>12, <2>1, GoesRun DEF Enter, Holding, Running, Reading
    <2>2. CASE ~Goto(t, "undefined")
      <3> DEFINE v == IF Top(t).ref = "fused" THEN fused[Top(t).exec] ELSE 0
                 f == [Top(t) EXCEPT !.pc = "enter", !.ver = v]
      <3>1. Top(t) \in Frames /\ Top(t).pc = "call" /\ Top(t).op = "run"
        BY <1>0, <1>12, TopType DEF Enter, RunInv, Running, Top
      <3>2. v \in 0 .. MaxTapes
        BY <3>1, ExecutionAssumption DEF TypeOK, Frames
      <3>3. Become(t, f)
        BY <1>12, <2>2 DEF Enter
      <3>4. /\ f \in Frames /\ f.pc = "enter" /\ f.op = Top(t).op /\ f.ver = v
            /\ f.exec = Top(t).exec /\ f.ref = Top(t).ref
        <4> HIDE DEF v
        <4> QED
          BY <3>1, <3>2 DEF Frames, Holding
      <3>5. f.ref = "fused" => fused[f.exec] = f.ver
        BY <3>4
      <3> HIDE DEF f, v
      <3> QED
        BY <1>0, <1>12, <3>1, <3>3, <3>4, <3>5 DEF Enter, MovesRun, Running
    <2> QED
      BY <2>1, <2>2
  <1>13. CASE Walk(t)
    BY <1>0, <1>13, GoesRun DEF Walk, Holding, Running, Reading
  <1>14. CASE Launch(t)
    <2> DEFINE f == [Top(t) EXCEPT !.msl = TRUE]
    <2>1. Top(t) \in Frames /\ Top(t).pc = "walk" /\ Top(t).op = "run"
      BY <1>0, <1>14, TopType DEF Launch, RunInv, Running, Top
    <2>2. /\ f \in Frames /\ f.pc = Top(t).pc /\ f.op = Top(t).op
          /\ f.exec = Top(t).exec /\ f.ref = Top(t).ref /\ f.ver = Top(t).ver
      BY <2>1 DEF Frames
    <2>3. Become(t, f)
      BY <1>14 DEF Launch
    <2> HIDE DEF f
    <2>4. f.ref = "fused" => fused[f.exec] = f.ver
      BY <1>0, <2>1, <2>2 DEF TapeOutlivesRun, Reading, Top
    <2> QED
      BY <1>0, <1>14, <2>1, <2>2, <2>3, <2>4 DEF Launch, MovesRun
  <1>15. CASE WalkEnds(t)
    <2>1. CASE Return(t)
      BY <1>0, <1>15, <2>1, ReturnsRun DEF WalkEnds, Return
    <2>2. CASE ~Return(t)
      <3> DEFINE f == [Top(t) EXCEPT !.pc = "eval",
                          !.msl = @ /\ depth[t] \notin pending[t]]
      <3>1. Top(t) \in Frames /\ Top(t).pc = "walk" /\ Top(t).op = "run"
        BY <1>0, <1>15, TopType DEF WalkEnds, RunInv, Running, Top
      <3>2. /\ f.pc = "eval" /\ f.op = Top(t).op
            /\ f.exec = Top(t).exec /\ f.ref = Top(t).ref /\ f.ver = Top(t).ver
        BY <3>1 DEF Frames
      <3>3. f \in Frames
        BY <3>1 DEF Frames, Holding
      <3>4. Become(t, f) /\ depth' = depth
        BY <1>15, <2>2 DEF WalkEnds
      <3> HIDE DEF f
      <3>5. f.ref = "fused" => fused[f.exec] = f.ver
        BY <1>0, <3>1, <3>2 DEF TapeOutlivesRun, Reading, Top
      <3> QED
        BY <1>0, <1>15, <3>1, <3>2, <3>3, <3>4, <3>5 DEF WalkEnds, MovesRun
    <2> QED
      BY <2>1, <2>2
  <1>16. CASE Eval(t)
    <2>1. CASE Return(t)
      BY <1>0, <1>16, <2>1, ReturnsRun DEF Eval, Return
    <2>2. CASE Goto(t, "wrap") /\ depth' = depth
      BY <1>0, <1>16, <2>2, GoesRun DEF Eval, Holding, Running, Reading
    <2> QED
      BY <1>16, <2>1, <2>2 DEF Eval
  <1>17. CASE Wrap(t)
    <2>1. CASE Return(t)
      BY <1>0, <1>17, <2>1, ReturnsRun DEF Wrap, Return
    <2>2. CASE ~Return(t)
      <3>1. PICK to \in {"undefined", "donate"} :
              Goto(t, to) /\ depth' = depth
        BY <1>17, <2>2 DEF Wrap
      <3> QED
        BY <1>0, <1>17, <3>1, GoesRun DEF Wrap, Holding, Running, Reading
    <2> QED
      BY <2>1, <2>2
  <1>18. CASE Donate(t)
    BY <1>0, <1>18, ReturnsRun DEF Donate, Return
  <1> QED
    BY <1>1, <1>2, <1>3, <1>4, <1>5, <1>6, <1>7, <1>8, <1>9, <1>10, <1>11,
       <1>12, <1>13, <1>14, <1>15, <1>16, <1>17, <1>18 DEF Step

\* A run that picks its tape holds the lock, and has below it on its stack
\* only executables above it in rank.
LEMMA StepRuns ==
  ASSUME TypeOK, StackInv, LockInv, ~Concurrent, NEW rank \in [Execs -> Nat],
         RunInv, NestInv(rank), TapeOutlivesRun, NEW t \in Threads, Step(t)
  PROVE  RunInv' /\ NestInv(rank)' /\ TapeOutlivesRun'
  <1>1. PICK f \in Frames : Become(t, f) /\ MovesRun(t, f)
    BY StepMovesRun
  <1>2. depth[t] \in Levels /\ depth[t] \in Nat /\ Levels \subseteq Nat
    BY StepMovesRun, ExecutionAssumption DEF Levels
  <1>3. /\ frame'[t][depth[t]] = f
        /\ \A u \in Threads, i \in Levels :
             u # t \/ i # depth[t] => frame'[u][i] = frame[u][i]
    BY <1>1, <1>2, BecomeType
  <1>4. RunInv'
    <2> SUFFICES ASSUME NEW u \in Threads, NEW i \in Levels,
                        frame'[u][i].pc \in Running
                 PROVE  frame'[u][i].op = "run"
      BY DEF RunInv, Levels
    <2> QED
      BY <1>1, <1>3 DEF RunInv, MovesRun
  <1>5. NestInv(rank)'
    <2> SUFFICES ASSUME NEW u \in Threads, NEW i \in Levels, NEW j \in Levels,
                        i < j, j <= depth'[u], frame'[u][j].op = "run"
                 PROVE  rank[frame'[u][j].exec] < rank[frame'[u][i].exec]
      BY DEF NestInv, Levels
    <2>1. CASE u # t
      <3>1. depth'[u] = depth[u]
        BY <1>1, <2>1 DEF MovesRun, TypeOK
      <3> QED
        BY <1>3, <2>1, <3>1 DEF NestInv
    <2>2. CASE u = t /\ depth' = depth
      <3>1. frame'[t][i] = frame[t][i] /\ j <= depth[t]
        BY <1>2, <1>3, <2>2
      <3>2. CASE j # depth[t]
        BY <1>3, <2>2, <3>1, <3>2 DEF NestInv
      <3>3. CASE j = depth[t]
        <4>1. frame'[t][j] = f /\ f.op = "run"
          BY <1>3, <2>2, <3>3
        <4>2. f # Blank
          BY <4>1 DEF Blank
        <4>3. f.exec = Top(t).exec /\ Top(t).op = "run"
          BY <1>1, <4>1, <4>2 DEF MovesRun
        <4> QED
          BY <2>2, <3>1, <3>3, <4>1, <4>3 DEF NestInv, Top
      <3> QED
        BY <3>2, <3>3
    <2>3. CASE u = t /\ depth' = [depth EXCEPT ![t] = @ - 1]
      <3>1. depth'[t] = depth[t] - 1
        BY <2>3 DEF TypeOK
      <3>2. i # depth[t] /\ j # depth[t] /\ j <= depth[t]
        BY <1>2, <2>3, <3>1
      <3> QED
        BY <1>3, <2>3, <3>2 DEF NestInv
    <2> QED
      BY <1>1, <2>1, <2>2, <2>3 DEF MovesRun
  <1>6. TapeOutlivesRun'
    <2> SUFFICES ASSUME NEW u \in Threads, NEW i \in Levels,
                        frame'[u][i].pc \in Reading,
                        frame'[u][i].ref = "fused"
                 PROVE  fused'[frame'[u][i].exec] = frame'[u][i].ver
      BY DEF TapeOutlivesRun, Levels
    <2>1. CASE u = t /\ i = depth[t]
      BY <1>1, <1>3, <2>1 DEF MovesRun
    <2>2. CASE (u # t \/ i # depth[t]) /\ fused' = fused
      BY <1>3, <2>2 DEF TapeOutlivesRun
    <2>3. CASE /\ u # t \/ i # depth[t]
               /\ Top(t).pc = "tape"
               /\ \A x \in Execs : x # Top(t).exec => fused'[x] = fused[x]
      <3>1. frame'[u][i] = frame[u][i] /\ frame[u][i].exec \in Execs
        BY <1>3, <2>3 DEF TypeOK, Frames
      <3>2. u = t
        BY <1>2, <2>3, <3>1
           DEF LockInv, Holds, Holding, Reading, Top
      <3>3. i < depth[t]
        <4>1. i \in Nat /\ ~(i > depth[t])
          BY <1>2, <3>1, <3>2 DEF StackInv, Reading
        <4> QED
          BY <1>2, <2>3, <3>2, <4>1
      <3>4. Top(t).op = "run"
        BY <1>2, <2>3 DEF RunInv, Running, Top
      <3>5. rank[Top(t).exec] < rank[frame[t][i].exec]
        BY <1>2, <3>3, <3>4 DEF NestInv, Top
      <3>6. frame[t][i].exec # Top(t).exec
        <4>1. Top(t).exec \in Execs
          BY <1>2 DEF TypeOK, Top, Frames
        <4> QED
          BY <3>5, <4>1
      <3> QED
        BY <2>3, <3>1, <3>2, <3>6 DEF TapeOutlivesRun
    <2> QED
      BY <1>1, <2>1, <2>2, <2>3 DEF MovesRun
  <1> QED
    BY <1>4, <1>5, <1>6

LEMMA CallRuns ==
  ASSUME TypeOK, StackInv, NEW rank \in [Execs -> Nat],
         \A x \in Execs : \A y \in Calls[x] : rank[y] < rank[x],
         RunInv, NestInv(rank), TapeOutlivesRun, NEW t \in Threads, Call(t)
  PROVE  RunInv' /\ NestInv(rank)' /\ TapeOutlivesRun'
  <1>1. PICK op \in Ops, x \in Execs, give \in SUBSET Bufs,
             keep \in SUBSET Bufs :
          /\ op = "run" /\ depth[t] > 0 => x \in Calls[Top(t).exec]
          /\ frame' = [frame EXCEPT ![t][depth[t] + 1] = Fresh(op, x, give, keep)]
    BY DEF Call
  <1> DEFINE f == Fresh(op, x, give, keep)
  <1>2. f.op = op /\ f.exec = x /\ f.pc \in {"check", "reset", "lock"}
    BY DEF Fresh, Blank, Begins
  <1>3. f.pc \notin Running /\ f.pc \notin Reading
    BY <1>2 DEF Running, Reading
  <1>4. depth[t] + 1 \in Levels /\ depth[t] \in Nat /\ Levels \subseteq Nat
    <2>1. depth[t] \in 0 .. MaxDepth /\ depth[t] < MaxDepth
      BY DEF TypeOK, Call
    <2> QED  BY <2>1, ExecutionAssumption DEF Levels
  <1>5. /\ depth' = [depth EXCEPT ![t] = @ + 1] /\ fused' = fused
        /\ depth[t] > 0 => Top(t).pc = "walk"
    BY DEF Call, fusing
  <1>6. /\ frame'[t][depth[t] + 1] = f
        /\ \A u \in Threads, i \in Levels :
             u # t \/ i # depth[t] + 1 => frame'[u][i] = frame[u][i]
    BY <1>1, <1>4 DEF TypeOK
  <1> HIDE DEF f
  <1>7. RunInv'
    <2> SUFFICES ASSUME NEW u \in Threads, NEW i \in Levels,
                        frame'[u][i].pc \in Running
                 PROVE  frame'[u][i].op = "run"
      BY DEF RunInv, Levels
    <2> QED
      BY <1>3, <1>6 DEF RunInv
  <1>8. TapeOutlivesRun'
    <2> SUFFICES ASSUME NEW u \in Threads, NEW i \in Levels,
                        frame'[u][i].pc \in Reading,
                        frame'[u][i].ref = "fused"
                 PROVE  fused'[frame'[u][i].exec] = frame'[u][i].ver
      BY DEF TapeOutlivesRun, Levels
    <2> QED
      BY <1>3, <1>5, <1>6 DEF TapeOutlivesRun
  <1>9. NestInv(rank)'
    <2> SUFFICES ASSUME NEW u \in Threads, NEW i \in Levels, NEW j \in Levels,
                        i < j, j <= depth'[u], frame'[u][j].op = "run"
                 PROVE  rank[frame'[u][j].exec] < rank[frame'[u][i].exec]
      BY DEF NestInv, Levels
    <2>1. CASE u # t
      <3>1. depth'[u] = depth[u]
        BY <1>5, <2>1 DEF TypeOK
      <3> QED
        BY <1>6, <2>1, <3>1 DEF NestInv
    <2>2. CASE u = t
      <3>1. depth'[t] = depth[t] + 1 /\ j <= depth[t] + 1
        BY <1>5, <2>2 DEF TypeOK
      <3>2. frame'[t][i] = frame[t][i]
        BY <1>4, <1>6, <3>1
      <3>3. CASE j # depth[t] + 1
        <4>1. frame'[t][j] = frame[t][j] /\ j <= depth[t]
          BY <1>4, <1>6, <3>1, <3>3
        <4> QED
          BY <2>2, <3>2, <4>1 DEF NestInv
      <3>4. CASE j = depth[t] + 1
        <4>1. depth[t] \in Levels /\ depth[t] > 0 /\ i <= depth[t]
          BY <1>4, <3>4 DEF TypeOK, Levels
        <4>2. x \in Calls[Top(t).exec] /\ Top(t).exec \in Execs
          BY <1>1, <1>2, <1>6, <2>2, <3>4, <4>1 DEF TypeOK, Top, Frames
        <4>3. rank[x] < rank[Top(t).exec]
          BY <4>2
        <4>4. Top(t).op = "run"
          BY <1>5, <4>1 DEF RunInv, Running, Top
        <4>5. CASE i = depth[t]
          BY <1>2, <1>6, <2>2, <3>2, <3>4, <4>3, <4>5 DEF Top
        <4>6. CASE i # depth[t]
          <5>1. i < depth[t] /\ depth[t] <= depth[t]
            BY <1>4, <4>1, <4>6
          <5>2. rank[Top(t).exec] < rank[frame[t][i].exec]
            BY <4>1, <4>4, <5>1 DEF NestInv, Top
          <5>3. frame[t][i].exec \in Execs
            BY DEF TypeOK, Frames
          <5>4. /\ rank[x] \in Nat /\ rank[Top(t).exec] \in Nat
                /\ rank[frame[t][i].exec] \in Nat
            BY <4>2, <5>3
          <5>5. rank[x] < rank[frame[t][i].exec]
            BY <4>3, <5>2, <5>4
          <5> QED
            BY <1>2, <1>6, <2>2, <3>2, <3>4, <5>5
        <4> QED
          BY <4>5, <4>6
      <3> QED
        BY <3>3, <3>4
    <2> QED
      BY <2>1, <2>2
  <1> QED
    BY <1>7, <1>8, <1>9

\* No run loses its fused tape to another run, if no callback leads back to an
\* executable that is being run (RunOnce, Tape): the other threads wait for
\* the lock, and the runs a callback makes pick the tapes of others.
THEOREM TapeKept ==
  ASSUME ~Concurrent, NEW rank \in [Execs -> Nat],
         \A x \in Execs : \A y \in Calls[x] : rank[y] < rank[x]
  PROVE  Spec => []TapeOutlivesRun
  <1>1. Init => RunInv /\ NestInv(rank) /\ TapeOutlivesRun
    BY DEF Init, Blank, RunInv, Running, NestInv, TapeOutlivesRun, Reading,
           Levels
  <1>2. IInv /\ RunInv /\ NestInv(rank) /\ TapeOutlivesRun /\ [Next]_vars =>
          RunInv' /\ NestInv(rank)' /\ TapeOutlivesRun'
    <2> SUFFICES ASSUME IInv, RunInv, NestInv(rank), TapeOutlivesRun,
                        [Next]_vars
                 PROVE  RunInv' /\ NestInv(rank)' /\ TapeOutlivesRun'
      OBVIOUS
    <2>1. CASE Next
      BY <2>1, StepRuns, CallRuns DEF Next, IInv
    <2>2. CASE UNCHANGED vars
      BY <2>2 DEF vars, fusing, RunInv, NestInv, TapeOutlivesRun
    <2> QED
      BY <2>1, <2>2
  <1> QED
    BY Inductive, <1>1, <1>2, PTL DEF Spec
=============================================================================

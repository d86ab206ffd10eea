------------------------- MODULE DynamicWhileProofs -------------------------
(***************************************************************************)
(* Proofs about the pipelined dynamic loop, for every trip count and every *)
(* set of buffers.  The inductive invariant says which kernels can be in   *)
(* flight at each point of the host's walk, which buffers they touch, and  *)
(* what is already in those buffers; the properties follow from it.        *)
(***************************************************************************)
EXTENDS DynamicWhile, TLAPS

Building == {"ahead", "drain", "read", "commit"}

\* At most one kernel per carry, for the current carry or the one after it.
KernelsInv ==
  /\ \A k \in inflight : k.it \in {vals, vals + 1}
  /\ \A k, q \in inflight : k.it = q.it => k = q

\* The kernel of the current carry has its operand waiting for it.
CurrentInv ==
  pc # "raised" =>
    /\ \A k \in inflight : k.it = vals =>
         vals >= 1 /\ k.dst = vbuf /\ k.pinned /\ mem[k.src] = vals - 1
    /\ mem[vbuf] = vals \/ \E k \in inflight : k.it = vals
    /\ pgo = "queued" <=> \E k \in inflight : k.it = vals
    /\ pgo = "lazy" => mem[vbuf] = vals
    /\ pgo = "true" => vals < trip
    /\ pgo = "false" => vals >= trip

\* The kernel of the next carry reads the current one and writes elsewhere.
SpeculationInv ==
  /\ pc # "raised" =>
       \A k \in inflight : k.it = vals + 1 =>
         /\ k.src = vbuf /\ k.dst = nbuf
         /\ pc \in Building \cup Terminal
         /\ vals >= 2
         /\ IF k.pinned THEN submitted /\ pc # "drain" ELSE pc = "drain"
  /\ nbuf # vbuf /\ nbuf # Input

NextInv ==
  /\ pc \in Building => next = vals + 1
  /\ pc \in {"ahead", "drain"} => ~submitted
  /\ pc \in {"cond0", "first"} =>
       vals = 0 /\ vbuf = Input /\ nbuf = NoBuf /\ inflight = {}
  /\ pc \in {"build", "account"} => vals >= 1 /\ nbuf = NoBuf
  /\ pc \in Building => vals >= 1
  /\ vals >= 1 => vbuf # Input
  /\ ahead => vals >= 2
  /\ pc = "ahead" => ahead
  /\ pc \in {"ahead", "read", "commit"} /\ nbuf # NoBuf =>
       mem[nbuf] = vals + 1 \/ \E k \in inflight : k.it = vals + 1
  /\ pc \in {"read", "commit"} /\ submitted =>
       /\ nbuf # NoBuf
       /\ ngo \in {"queued", "true", "false"}
       /\ ngo = "queued" <=> \E k \in inflight : k.it = vals + 1
       /\ ngo = "true" => vals + 1 < trip
       /\ ngo = "false" => vals + 1 >= trip

ProgressInv ==
  /\ vals <= trip
  /\ pc \in {"first", "commit"} => vals < trip
  /\ pc = "commit" => mem[vbuf] = vals /\ \A k \in inflight : k.it # vals
  /\ pc = "done" => vals = trip

IInv ==
  /\ WhileTypeOK
  /\ KernelsInv
  /\ CurrentInv
  /\ SpeculationInv
  /\ NextInv
  /\ ProgressInv
  /\ InputsIntact

---------------------------------------------------------------------------
(* The initial states satisfy the invariant. *)

LEMMA InitIInv == WhileInit => IInv
  <1> SUFFICES ASSUME WhileInit PROVE IInv
    OBVIOUS
  <1> USE LoopAssumption DEF WhileInit, Running, Terminal, Conds, Building, Junk
  <1>1. mem[Input] = 0
    OBVIOUS
  <1>2. WhileTypeOK
    BY DEF WhileTypeOK
  <1>3. KernelsInv /\ CurrentInv /\ SpeculationInv /\ InputsIntact
    BY <1>1 DEF KernelsInv, CurrentInv, SpeculationInv, InputsIntact
  <1>4. NextInv /\ ProgressInv
    BY <1>1 DEF NextInv, ProgressInv
  <1>5. QED
    BY <1>2, <1>3, <1>4 DEF IInv

---------------------------------------------------------------------------
(* Every step preserves it, one lemma per part.                            *)

\* What a speculative submission does to the queue.
LEMMA KernelsGrow ==
  ASSUME NEW n \in Nat, NEW Q, NEW new,
         \A k \in Q : k.it = n, \A k, q \in Q : k.it = q.it => k = q,
         new.it = n + 1
  PROVE  /\ \A k \in Q \cup {new} : k.it \in {n, n + 1}
         /\ \A k, q \in Q \cup {new} : k.it = q.it => k = q
  OBVIOUS

LEMMA KernelType ==
  ASSUME NEW i \in Nat, NEW s \in CarryBufs, NEW d \in CarryBufs, NEW p \in BOOLEAN
  PROVE  [it |-> i, src |-> s, dst |-> d, pinned |-> p] \in Kernels
  BY DEF Kernels

\* A walk that throws leaves one kernel of the carry after the current one,
\* which writes no input, and nothing of the loop but that.
Unwound ==
  /\ pc \in Running /\ pc' = "raised"
  /\ \A k \in inflight : k.it = vals
  /\ \E b \in CarryBufs \ {Input} :
       inflight' = inflight \cup
         {[it |-> vals + 1, src |-> vbuf, dst |-> b, pinned |-> FALSE]}
  /\ UNCHANGED <<trip, hostVars, mem>>

LEMMA WalkUnwinds == IInv /\ WalkThrows => Unwound
  <1> SUFFICES ASSUME IInv, WalkThrows PROVE Unwound
    OBVIOUS
  <1>1. /\ pc \in Running /\ pc' = "raised"
        /\ UNCHANGED <<trip, hostVars, mem>>
    BY DEF WalkThrows, Unwind, Running
  <1>2. \A k \in inflight : k.it = vals
    BY DEF WalkThrows, IInv, KernelsInv, SpeculationInv, NextInv, Building,
           Terminal
  <1>3. pc \in {"drain", "ahead", "commit"} => next = vals + 1
    BY DEF IInv, NextInv, Building
  <1>4. Targets(FALSE) \subseteq CarryBufs \ {Input}
        /\ FreshBufs \subseteq CarryBufs \ {Input}
    BY DEF Targets, FreshBufs, Live, IInv, WhileTypeOK
  <1>5. \E b \in CarryBufs \ {Input} :
          inflight' = inflight \cup
            {[it |-> vals + 1, src |-> vbuf, dst |-> b, pinned |-> FALSE]}
    BY <1>3, <1>4 DEF WalkThrows, Unwind
  <1>6. QED
    BY <1>1, <1>2, <1>5 DEF Unwound

LEMMA TypeStep == IInv /\ [WhileNext]_whileVars => WhileTypeOK'
  <1> SUFFICES ASSUME IInv, [WhileNext]_whileVars PROVE WhileTypeOK'
    OBVIOUS
  <1> USE LoopAssumption DEF IInv, WhileTypeOK, Running, Terminal, Conds, Kernels,
                             Junk, Body, Cond, FreshBufs, hostVars
  <1>1. CASE FirstCond
    BY <1>1 DEF FirstCond
  <1>2. CASE FirstIteration
    BY <1>2 DEF FirstIteration
  <1>3. CASE Build
    <2>1. vals + 1 \in Nat
      OBVIOUS
    <2>2. nbuf' \in CarryBufs \cup {NoBuf} /\ mem' \in [CarryBufs -> Nat \cup {Junk}]
      BY <1>3 DEF Build, BuildNext
    <2>3. QED
      BY <1>3, <2>1, <2>2 DEF Build, BuildNext
  <1>4. CASE AheadDeclined
    BY <1>4 DEF AheadDeclined
  <1>5. CASE AheadSubmitted
    <2>1. CASE nbuf = NoBuf
      <3>1. PICK b \in CarryBufs :
              /\ nbuf' = b /\ ngo' = "queued"
              /\ inflight' = inflight \cup
                   {[it |-> next, src |-> vbuf, dst |-> b, pinned |-> TRUE]}
        BY <1>5, <2>1 DEF AheadSubmitted, Submit, Targets
      <3>2. [it |-> next, src |-> vbuf, dst |-> b, pinned |-> TRUE] \in Kernels
        BY KernelType
      <3>3. QED
        BY <1>5, <3>1, <3>2 DEF AheadSubmitted
    <2>2. CASE nbuf # NoBuf
      BY <1>5, <2>2 DEF AheadSubmitted, Submit
    <2>3. QED
      BY <2>1, <2>2
  <1>6. CASE AheadFailed
    <2>1. PICK b \in CarryBufs :
            /\ nbuf' = b
            /\ inflight' = inflight \cup
                 {[it |-> next, src |-> vbuf, dst |-> b, pinned |-> FALSE]}
      BY <1>6 DEF AheadFailed
    <2>2. [it |-> next, src |-> vbuf, dst |-> b, pinned |-> FALSE] \in Kernels
      BY KernelType
    <2>3. QED
      BY <1>6, <2>1, <2>2 DEF AheadFailed
  <1>7. CASE DrainAndRebuild
    BY <1>7 DEF DrainAndRebuild, BuildNext
  <1>8. CASE ReadCond
    BY <1>8 DEF ReadCond, CondKnown, Go
  <1>9. CASE Commit
    <2>1. CASE submitted
      BY <1>9, <2>1 DEF Commit, NextInv
    <2>2. CASE ~submitted /\ nbuf = NoBuf
      <3>1. PICK b \in CarryBufs :
              /\ vbuf' = b /\ pgo' = "queued"
              /\ inflight' = inflight \cup
                   {[it |-> next, src |-> vbuf, dst |-> b, pinned |-> TRUE]}
        BY <1>9, <2>2 DEF Commit, Targets
      <3>2. [it |-> next, src |-> vbuf, dst |-> b, pinned |-> TRUE] \in Kernels
        BY KernelType
      <3>3. QED
        BY <1>9, <2>2, <3>1, <3>2 DEF Commit
    <2>3. CASE ~submitted /\ nbuf # NoBuf
      BY <1>9, <2>3 DEF Commit
    <2>4. QED
      BY <2>1, <2>2, <2>3
  <1>10. CASE Account
    BY <1>10 DEF Account
  <1>11. CASE Device
    BY <1>11 DEF Device, Retire
  <1>12. CASE Raise
    BY <1>12 DEF Raise
  <1>13. CASE WalkThrows
    <2>1. PICK b \in CarryBufs \ {Input} :
            inflight' = inflight \cup
              {[it |-> vals + 1, src |-> vbuf, dst |-> b, pinned |-> FALSE]}
      BY <1>13, WalkUnwinds DEF Unwound
    <2>2. [it |-> vals + 1, src |-> vbuf, dst |-> b, pinned |-> FALSE]
            \in Kernels
      BY KernelType
    <2>3. inflight' \subseteq Kernels
      BY <2>1, <2>2
    <2>4. pc' = "raised" /\ UNCHANGED <<trip, hostVars, mem>>
      BY <1>13, WalkUnwinds DEF Unwound
    <2>5. QED
      BY <2>3, <2>4
  <1>14. CASE UNCHANGED whileVars
    BY <1>14 DEF whileVars
  <1>15. QED
    BY <1>1, <1>2, <1>3, <1>4, <1>5, <1>6, <1>7, <1>8, <1>9, <1>10, <1>11, <1>12, <1>13, <1>14 DEF WhileNext, Host

LEMMA KernelsStep == IInv /\ [WhileNext]_whileVars => KernelsInv'
  <1> SUFFICES ASSUME IInv, [WhileNext]_whileVars PROVE KernelsInv'
    OBVIOUS
  <1> USE LoopAssumption
      DEF IInv, WhileTypeOK, KernelsInv, CurrentInv, SpeculationInv,
          NextInv, ProgressInv, InputsIntact, Building,
          Running, Terminal, Conds, Kernels, Junk, Body, Cond, Live, FreshBufs,
          hostVars
  <1>1. CASE FirstCond
    BY <1>1 DEF FirstCond
  <1>2. CASE FirstIteration
    BY <1>2 DEF FirstIteration
  <1>3. CASE Build
    BY <1>3 DEF Build, BuildNext
  <1>4. CASE AheadDeclined
    BY <1>4 DEF AheadDeclined
  <1>5. CASE AheadSubmitted
    <2>1. \A k \in inflight : k.it = vals
      BY <1>5 DEF AheadSubmitted
    <2>2. CASE nbuf = NoBuf
      <3>1. PICK new : new.it = vals + 1 /\ inflight' = inflight \cup {new}
        BY <1>5, <2>2 DEF AheadSubmitted, Submit, Targets
      <3>2. /\ \A k \in inflight' : k.it \in {vals, vals + 1}
            /\ \A k, q \in inflight' : k.it = q.it => k = q
        BY <2>1, <3>1, KernelsGrow
      <3>3. vals' = vals
        BY <1>5 DEF AheadSubmitted
      <3>4. QED
        BY <3>2, <3>3
    <2>3. CASE nbuf # NoBuf
      BY <1>5, <2>1, <2>3 DEF AheadSubmitted, Submit
    <2>4. QED
      BY <2>2, <2>3
  <1>6. CASE AheadFailed
    <2>1. \A k \in inflight : k.it = vals
      BY <1>6 DEF AheadFailed
    <2>2. PICK new : new.it = vals + 1 /\ inflight' = inflight \cup {new}
      BY <1>6 DEF AheadFailed
    <2>3. /\ \A k \in inflight' : k.it \in {vals, vals + 1}
          /\ \A k, q \in inflight' : k.it = q.it => k = q
      BY <2>1, <2>2, KernelsGrow
    <2>4. vals' = vals
      BY <1>6 DEF AheadFailed
    <2>5. QED
      BY <2>3, <2>4
  <1>7. CASE DrainAndRebuild
    BY <1>7 DEF DrainAndRebuild, BuildNext
  <1>8. CASE ReadCond
    BY <1>8 DEF ReadCond, CondKnown, Go
  <1>9. CASE Commit
    <2>1. \A k \in inflight : k.it = vals + 1 /\ submitted
      BY <1>9 DEF Commit
    <2>2. CASE submitted
      BY <1>9, <2>1, <2>2 DEF Commit
    <2>3. CASE ~submitted /\ nbuf = NoBuf
      <3>1. PICK b \in CarryBufs :
              /\ vbuf' = b /\ pgo' = "queued"
              /\ inflight' =
                   {[it |-> next, src |-> vbuf, dst |-> b, pinned |-> TRUE]}
        BY <1>9, <2>1, <2>3 DEF Commit, Targets
      <3>2. QED
        BY <1>9, <3>1 DEF Commit
    <2>4. CASE ~submitted /\ nbuf # NoBuf
      BY <1>9, <2>1, <2>4 DEF Commit
    <2>5. QED
      BY <2>2, <2>3, <2>4
  <1>10. CASE Account
    BY <1>10 DEF Account
  <1>11. CASE Device
    BY <1>11 DEF Device, Retire
  <1>12. CASE Raise
    BY <1>12 DEF Raise
  <1>13. CASE WalkThrows
    <2>1. PICK new : new.it = vals + 1 /\ inflight' = inflight \cup {new}
      BY <1>13, WalkUnwinds DEF Unwound
    <2>2. \A k \in inflight : k.it = vals
      BY <1>13, WalkUnwinds DEF Unwound
    <2>3. /\ \A k \in inflight' : k.it \in {vals, vals + 1}
          /\ \A k, q \in inflight' : k.it = q.it => k = q
      BY <2>1, <2>2, KernelsGrow
    <2>4. vals' = vals
      BY <1>13, WalkUnwinds DEF Unwound
    <2>5. QED
      BY <2>3, <2>4
  <1>14. CASE UNCHANGED whileVars
    BY <1>14 DEF whileVars
  <1>15. QED
    BY <1>1, <1>2, <1>3, <1>4, <1>5, <1>6, <1>7, <1>8, <1>9, <1>10, <1>11, <1>12, <1>13, <1>14 DEF WhileNext, Host

LEMMA CurrentStep == IInv /\ [WhileNext]_whileVars => CurrentInv'
  <1> SUFFICES ASSUME IInv, [WhileNext]_whileVars PROVE CurrentInv'
    OBVIOUS
  <1> USE LoopAssumption
      DEF IInv, WhileTypeOK, KernelsInv, CurrentInv, SpeculationInv,
          NextInv, ProgressInv, InputsIntact, Building,
          Running, Terminal, Conds, Kernels, Junk, Body, Cond, Live, FreshBufs,
          hostVars
  <1>1. CASE FirstCond
    BY <1>1 DEF FirstCond
  <1>2. CASE FirstIteration
    BY <1>2 DEF FirstIteration
  <1>3. CASE Build
    BY <1>3 DEF Build, BuildNext
  <1>4. CASE AheadDeclined
    BY <1>4 DEF AheadDeclined
  <1>5. CASE AheadSubmitted
    BY <1>5 DEF AheadSubmitted, Submit, Targets
  <1>6. CASE AheadFailed
    BY <1>6 DEF AheadFailed
  <1>7. CASE DrainAndRebuild
    BY <1>7 DEF DrainAndRebuild, BuildNext
  <1>8. CASE ReadCond
    BY <1>8 DEF ReadCond, CondKnown, Go
  <1>9. CASE Commit
    <2>1. \A k \in inflight : k.it = vals + 1 /\ submitted
      BY <1>9 DEF Commit
    <2>2. CASE submitted
      BY <1>9, <2>1, <2>2 DEF Commit
    <2>3. CASE ~submitted /\ nbuf = NoBuf
      <3>1. PICK b \in CarryBufs :
              /\ vbuf' = b /\ pgo' = "queued"
              /\ inflight' =
                   {[it |-> next, src |-> vbuf, dst |-> b, pinned |-> TRUE]}
        BY <1>9, <2>1, <2>3 DEF Commit, Targets
      <3>2. QED
        BY <1>9, <3>1 DEF Commit
    <2>4. CASE ~submitted /\ nbuf # NoBuf
      BY <1>9, <2>1, <2>4 DEF Commit
    <2>5. QED
      BY <2>2, <2>3, <2>4
  <1>10. CASE Account
    BY <1>10 DEF Account
  <1>11. CASE Device
    BY <1>11 DEF Device, Retire
  <1>12. CASE Raise
    BY <1>12 DEF Raise
  <1>13. CASE WalkThrows
    BY <1>13, WalkUnwinds DEF Unwound
  <1>14. CASE UNCHANGED whileVars
    BY <1>14 DEF whileVars
  <1>15. QED
    BY <1>1, <1>2, <1>3, <1>4, <1>5, <1>6, <1>7, <1>8, <1>9, <1>10, <1>11, <1>12, <1>13, <1>14 DEF WhileNext, Host

LEMMA SpeculationStep == IInv /\ [WhileNext]_whileVars => SpeculationInv'
  <1> SUFFICES ASSUME IInv, [WhileNext]_whileVars PROVE SpeculationInv'
    OBVIOUS
  <1> USE LoopAssumption
      DEF IInv, WhileTypeOK, KernelsInv, CurrentInv, SpeculationInv,
          NextInv, ProgressInv, InputsIntact, Building,
          Running, Terminal, Conds, Kernels, Junk, Body, Cond, Live, FreshBufs,
          hostVars
  <1>1. CASE FirstCond
    BY <1>1 DEF FirstCond
  <1>2. CASE FirstIteration
    BY <1>2 DEF FirstIteration
  <1>3. CASE Build
    BY <1>3 DEF Build, BuildNext
  <1>4. CASE AheadDeclined
    BY <1>4 DEF AheadDeclined
  <1>5. CASE AheadSubmitted
    BY <1>5 DEF AheadSubmitted, Submit, Targets
  <1>6. CASE AheadFailed
    BY <1>6 DEF AheadFailed
  <1>7. CASE DrainAndRebuild
    BY <1>7 DEF DrainAndRebuild, BuildNext
  <1>8. CASE ReadCond
    BY <1>8 DEF ReadCond, CondKnown, Go
  <1>9. CASE Commit
    BY <1>9 DEF Commit, Targets
  <1>10. CASE Account
    BY <1>10 DEF Account
  <1>11. CASE Device
    BY <1>11 DEF Device, Retire
  <1>12. CASE Raise
    BY <1>12 DEF Raise
  <1>13. CASE WalkThrows
    BY <1>13, WalkUnwinds DEF Unwound
  <1>14. CASE UNCHANGED whileVars
    BY <1>14 DEF whileVars
  <1>15. QED
    BY <1>1, <1>2, <1>3, <1>4, <1>5, <1>6, <1>7, <1>8, <1>9, <1>10, <1>11, <1>12, <1>13, <1>14 DEF WhileNext, Host

LEMMA NextStep == IInv /\ [WhileNext]_whileVars => NextInv'
  <1> SUFFICES ASSUME IInv, [WhileNext]_whileVars PROVE NextInv'
    OBVIOUS
  <1> USE LoopAssumption
      DEF IInv, WhileTypeOK, KernelsInv, CurrentInv, SpeculationInv,
          NextInv, ProgressInv, InputsIntact, Building,
          Running, Terminal, Conds, Kernels, Junk, Body, Cond, Live, FreshBufs,
          hostVars
  <1>1. CASE FirstCond
    BY <1>1 DEF FirstCond
  <1>2. CASE FirstIteration
    BY <1>2 DEF FirstIteration
  <1>3. CASE Build
    BY <1>3 DEF Build, BuildNext
  <1>4. CASE AheadDeclined
    BY <1>4 DEF AheadDeclined
  <1>5. CASE AheadSubmitted
    <2>1. \A k \in inflight : k.it = vals
      BY <1>5 DEF AheadSubmitted
    <2>2. CASE nbuf = NoBuf
      <3>1. PICK b \in FreshBufs :
              /\ nbuf' = b /\ ngo' = "queued"
              /\ inflight' = inflight \cup
                   {[it |-> next, src |-> vbuf, dst |-> b, pinned |-> TRUE]}
        BY <1>5, <2>2 DEF AheadSubmitted, Submit, Targets
      <3>2. QED
        BY <1>5, <2>1, <3>1 DEF AheadSubmitted
    <2>3. CASE nbuf # NoBuf
      BY <1>5, <2>1, <2>3 DEF AheadSubmitted, Submit
    <2>4. QED
      BY <2>2, <2>3
  <1>6. CASE AheadFailed
    BY <1>6 DEF AheadFailed
  <1>7. CASE DrainAndRebuild
    BY <1>7 DEF DrainAndRebuild, BuildNext
  <1>8. CASE ReadCond
    BY <1>8 DEF ReadCond, CondKnown, Go
  <1>9. CASE Commit
    BY <1>9 DEF Commit, Targets
  <1>10. CASE Account
    BY <1>10 DEF Account
  <1>11. CASE Device
    BY <1>11 DEF Device, Retire
  <1>12. CASE Raise
    BY <1>12 DEF Raise
  <1>13. CASE WalkThrows
    BY <1>13, WalkUnwinds DEF Unwound
  <1>14. CASE UNCHANGED whileVars
    BY <1>14 DEF whileVars
  <1>15. QED
    BY <1>1, <1>2, <1>3, <1>4, <1>5, <1>6, <1>7, <1>8, <1>9, <1>10, <1>11, <1>12, <1>13, <1>14 DEF WhileNext, Host

LEMMA ProgressStep == IInv /\ [WhileNext]_whileVars => ProgressInv'
  <1> SUFFICES ASSUME IInv, [WhileNext]_whileVars PROVE ProgressInv'
    OBVIOUS
  <1> USE LoopAssumption
      DEF IInv, WhileTypeOK, KernelsInv, CurrentInv, SpeculationInv,
          NextInv, ProgressInv, InputsIntact, Building,
          Running, Terminal, Conds, Kernels, Junk, Body, Cond, Live, FreshBufs,
          hostVars
  <1>1. CASE FirstCond
    BY <1>1 DEF FirstCond
  <1>2. CASE FirstIteration
    BY <1>2 DEF FirstIteration
  <1>3. CASE Build
    BY <1>3 DEF Build, BuildNext
  <1>4. CASE AheadDeclined
    BY <1>4 DEF AheadDeclined
  <1>5. CASE AheadSubmitted
    BY <1>5 DEF AheadSubmitted, Submit, Targets
  <1>6. CASE AheadFailed
    BY <1>6 DEF AheadFailed
  <1>7. CASE DrainAndRebuild
    BY <1>7 DEF DrainAndRebuild, BuildNext
  <1>8. CASE ReadCond
    BY <1>8 DEF ReadCond, CondKnown, Go
  <1>9. CASE Commit
    BY <1>9 DEF Commit, Targets
  <1>10. CASE Account
    BY <1>10 DEF Account
  <1>11. CASE Device
    BY <1>11 DEF Device, Retire
  <1>12. CASE Raise
    BY <1>12 DEF Raise
  <1>13. CASE WalkThrows
    BY <1>13, WalkUnwinds DEF Unwound
  <1>14. CASE UNCHANGED whileVars
    BY <1>14 DEF whileVars
  <1>15. QED
    BY <1>1, <1>2, <1>3, <1>4, <1>5, <1>6, <1>7, <1>8, <1>9, <1>10, <1>11, <1>12, <1>13, <1>14 DEF WhileNext, Host

LEMMA InputsStep == IInv /\ [WhileNext]_whileVars => InputsIntact'
  <1> SUFFICES ASSUME IInv, [WhileNext]_whileVars PROVE InputsIntact'
    OBVIOUS
  <1> USE LoopAssumption
      DEF IInv, WhileTypeOK, KernelsInv, CurrentInv, SpeculationInv,
          NextInv, ProgressInv, InputsIntact, Building,
          Running, Terminal, Conds, Kernels, Junk, Body, Cond, Live, FreshBufs,
          hostVars
  <1>1. CASE FirstCond
    BY <1>1 DEF FirstCond
  <1>2. CASE FirstIteration
    BY <1>2 DEF FirstIteration
  <1>3. CASE Build
    BY <1>3 DEF Build, BuildNext
  <1>4. CASE AheadDeclined
    BY <1>4 DEF AheadDeclined
  <1>5. CASE AheadSubmitted
    BY <1>5 DEF AheadSubmitted, Submit, Targets
  <1>6. CASE AheadFailed
    BY <1>6 DEF AheadFailed
  <1>7. CASE DrainAndRebuild
    BY <1>7 DEF DrainAndRebuild, BuildNext
  <1>8. CASE ReadCond
    BY <1>8 DEF ReadCond, CondKnown, Go
  <1>9. CASE Commit
    BY <1>9 DEF Commit, Targets
  <1>10. CASE Account
    BY <1>10 DEF Account
  <1>11. CASE Device
    BY <1>11 DEF Device, Retire
  <1>12. CASE Raise
    BY <1>12 DEF Raise
  <1>13. CASE WalkThrows
    BY <1>13, WalkUnwinds DEF Unwound
  <1>14. CASE UNCHANGED whileVars
    BY <1>14 DEF whileVars
  <1>15. QED
    BY <1>1, <1>2, <1>3, <1>4, <1>5, <1>6, <1>7, <1>8, <1>9, <1>10, <1>11, <1>12, <1>13, <1>14 DEF WhileNext, Host

\* The inductive invariant holds in every reachable state.
THEOREM Invariant == WhileSpec => []IInv
  <1>1. IInv /\ [WhileNext]_whileVars => IInv'
    BY TypeStep, KernelsStep, CurrentStep, SpeculationStep, NextStep,
       ProgressStep, InputsStep
    DEF IInv
  <1>2. QED
    BY InitIInv, <1>1, PTL DEF WhileSpec

---------------------------------------------------------------------------
(* The properties the runs check on a small instance, for every instance.   *)

\* The variables of the pipelined loop keep their types.
THEOREM TypeCorrect == WhileSpec => []WhileTypeOK
  BY Invariant, PTL DEF IInv

\* Speculation never touches the carry a loop may return (run_while).
THEOREM CarrySafe == WhileSpec => []CarryIntact
  <1>1. IInv => CarryIntact
    BY DEF IInv, WhileTypeOK, KernelsInv, CurrentInv, SpeculationInv, CarryIntact
  <1>2. QED
    BY Invariant, <1>1, PTL

\* The loop's inputs survive it, for the rungs that run again from them.
THEOREM InputsSafe == WhileSpec => []InputsIntact
  BY Invariant, PTL DEF IInv

\* Neither the carry nor the inputs are ever written under the loop.
THEOREM BuffersSafe == WhileSpec => []BuffersIntact
  BY CarrySafe, InputsSafe, PTL DEF BuffersIntact

\* A loop that goes on has retired the kernels of the walk it abandoned, and
\* held their buffers till then.
THEOREM AbandonedSafe == WhileSpec => []AbandonedWalkRetired
  <1>1. IInv => AbandonedWalkRetired
    BY DEF IInv, WhileTypeOK, Kernels, KernelsInv, CurrentInv, SpeculationInv,
           AbandonedWalkRetired
  <1>2. QED
    BY Invariant, <1>1, PTL

\* The host runs at most one iteration ahead, from the third iteration on.
THEOREM RunAheadSafe == WhileSpec => []RunAheadBounded
  <1>1. IInv => RunAheadBounded
    BY DEF IInv, WhileTypeOK, Kernels, KernelsInv, SpeculationInv, RunAheadBounded
  <1>2. QED
    BY Invariant, <1>1, PTL

\* A pipelined loop that returns, returns the serial loop's carry.
THEOREM ResultCorrect == WhileSpec => []ResultIsSerial
  BY Invariant, PTL DEF IInv, ProgressInv, ResultIsSerial

---------------------------------------------------------------------------
(* The pipelined loop implements the serial one.                            *)

CarryAgrees == CarryValue = vals

LEMMA CarryIsVals == IInv => CarryAgrees
  <1> SUFFICES ASSUME IInv PROVE CarryValue = vals
    BY DEF CarryAgrees
  <1> DEFINE writers == {k \in inflight : k.dst = vbuf}
  <1>1. CASE pc = "raised"
    BY <1>1 DEF CarryValue
  <1>2. CASE pc # "raised" /\ writers = {}
    BY <1>2 DEF IInv, CurrentInv, CarryValue
  <1>3. CASE pc # "raised" /\ writers # {}
    <2>1. \A k \in writers : k.it = vals
      BY <1>3 DEF IInv, KernelsInv, SpeculationInv
    <2>2. \A k \in writers : \A q \in writers : q.it <= k.it
      BY <2>1 DEF IInv, WhileTypeOK
    <2>3. (CHOOSE k \in writers : \A q \in writers : q.it <= k.it) \in writers
      BY <1>3, <2>2
    <2>4. QED
      BY <1>3, <2>1, <2>3 DEF CarryValue
  <1>4. QED
    BY <1>1, <1>2, <1>3

\* Every behaviour of the pipelined loop is one of the serial loop, under
\* the mapping that reads a carry through the kernels still to retire.
THEOREM Refinement == WhileSpec => ImplementsSerial
  <1>1. WhileInit => Serial!SerialInit
    <2> SUFFICES ASSUME WhileInit PROVE Serial!SerialInit
      OBVIOUS
    <2>1. CarryValue = 0
      BY InitIInv, CarryIsVals DEF WhileInit, CarryAgrees
    <2>2. QED
      BY <2>1 DEF WhileInit, Serial!SerialInit, StatusValue
  <1>a. IInv' => CarryAgrees'
    BY CarryIsVals, PTL
  <1>2. IInv /\ IInv' /\ [WhileNext]_whileVars => [Serial!SerialNext]_Serial!serialVars
    <2> SUFFICES ASSUME IInv, IInv', [WhileNext]_whileVars
                 PROVE  [Serial!SerialNext]_Serial!serialVars
      OBVIOUS
    <2>1. CarryValue = vals /\ CarryValue' = vals'
      BY CarryIsVals, <1>a DEF CarryAgrees
    <2> USE <2>1 DEF IInv, WhileTypeOK, Running, Terminal, StatusValue, hostVars,
                     Serial!SerialNext, Serial!serialVars, Serial!Iterate,
                     Serial!Return, Serial!Raise
    <2>2. CASE FirstCond
      BY <2>2 DEF FirstCond, ProgressInv
    <2>3. CASE FirstIteration
      BY <2>3 DEF FirstIteration, ProgressInv
    <2>4. CASE Build
      BY <2>4 DEF Build, BuildNext
    <2>5. CASE AheadDeclined
      BY <2>5 DEF AheadDeclined
    <2>6. CASE AheadSubmitted
      BY <2>6 DEF AheadSubmitted
    <2>7. CASE AheadFailed
      BY <2>7 DEF AheadFailed
    <2>8. CASE DrainAndRebuild
      BY <2>8 DEF DrainAndRebuild, BuildNext
    <2>9. CASE ReadCond
      BY <2>9 DEF ReadCond, ProgressInv
    <2>10. CASE Commit
      BY <2>10 DEF Commit, ProgressInv, NextInv, Building
    <2>11. CASE Account
      BY <2>11 DEF Account
    <2>12. CASE Device
      BY <2>12 DEF Device, Retire
    <2>13. CASE Raise
      BY <2>13 DEF Raise
    <2>14. CASE WalkThrows
      BY <2>14, WalkUnwinds DEF Unwound
    <2>15. CASE UNCHANGED whileVars
      BY <2>15 DEF whileVars
    <2>16. QED
      BY <2>2, <2>3, <2>4, <2>5, <2>6, <2>7, <2>8, <2>9, <2>10, <2>11,
         <2>12, <2>13, <2>14, <2>15
      DEF WhileNext, Host
  <1>3. QED
    BY Invariant, <1>1, <1>2, PTL DEF WhileSpec, ImplementsSerial, Serial!SerialSpec
=============================================================================

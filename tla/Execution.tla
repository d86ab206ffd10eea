------------------------------ MODULE Execution ------------------------------
(***************************************************************************)
(* The plugin's entries under the submission lock (metal_stream,           *)
(* metal_buffer.cc, metal_executable.cc, metal_client.cc): executions,     *)
(* host reads, copies, transfers and deletions, called by any thread, and  *)
(* called again by a user's callback in the middle of an execution.        *)
(*                                                                         *)
(* A thread has a stack of calls in progress, `frame[t]`, `depth[t]` deep. *)
(* The lock is recursive: it is free for whoever holds it in a call further*)
(* down, and released by the last of its holders.  `array` and `deleted`   *)
(* are MetalBuffer's array_ and deleted_.  What a run computes, and when   *)
(* Tape rebuilds the fused tape, are choices; a fused tape is numbered and *)
(* dies when the executable drops it, for nothing else owns it.            *)
(***************************************************************************)
EXTENDS Integers

CONSTANTS
  Threads, Execs, Bufs,
  Nobody,      \* the owner of a free lock
  Hosts,       \* the executables whose tape makes a host call
  Calls,       \* Calls[x]: the executables the callback of x may execute
  Concurrent,  \* METALJAX_CONCURRENT_EXECUTE=1: the lock owns nothing
  MaxDepth,    \* bound: calls on one stack
  MaxCalls,    \* bound: calls altogether
  MaxTapes     \* bound: fused tapes built for one executable

ASSUME ExecutionAssumption ==
  /\ Nobody \notin Threads
  /\ Execs # {}
  /\ Hosts \subseteq Execs /\ Calls \in [Execs -> SUBSET Execs]
  /\ Concurrent \in BOOLEAN
  /\ MaxDepth \in Nat \ {0} /\ MaxCalls \in Nat /\ MaxTapes \in Nat

VARIABLES
  frame, depth,    \* the calls of each thread
  owner,           \* of the submission lock
  array, deleted,  \* buffers with a value in array_; with deleted_ set
  fused, tapes,    \* the fused tape of each executable (0: null); tapes built
  fuseDone,        \* fuse_done_
  running,         \* <<x, tape, t>>: the Program::lock_s held (tape 0: plain)
  pending,         \* t_msl_pending: the calls of a thread, by depth, whose
                   \* traced kernels are on its list
  takers, asked,   \* history: whose runs consumed a buffer; Delete was called
  calls

locks == <<owner, running>>
buffers == <<array, deleted, takers, asked>>
fusing == <<fused, tapes, fuseDone>>
vars == <<frame, depth, locks, pending, buffers, fusing, calls>>

Levels == 1 .. MaxDepth
Ops == {"run", "read", "copy", "put", "delete"}
Holding == {"admit", "args", "hold", "tape", "call", "enter", "walk", "eval",
            "wrap", "donate", "take", "keep", "store", "undefined"}
Outside == {"none", "check", "lock", "reset", "flag"}
Frames == [op : Ops, pc : Holding \cup Outside, exec : Execs,
           give : SUBSET Bufs, keep : SUBSET Bufs,
           ref : {"plain", "fused"}, ver : 0 .. MaxTapes,
           msl : BOOLEAN]   \* it traced a kernel that is not proven

\* The calls that drive MLX: they encode, evaluate or commit a stream.
InMLX == {"admit", "tape", "walk", "eval", "take", "store"}

Top(t) == frame[t][depth[t]]
At(t, point) == depth[t] > 0 /\ Top(t).pc = point
Holds(t, i) == frame[t][i].pc \in Holding
HoldsBelow(t) == \E i \in Levels : i < depth[t] /\ Holds(t, i)

Blank == [op |-> "put", pc |-> "none", exec |-> CHOOSE x \in Execs : TRUE,
          give |-> {}, keep |-> {}, ref |-> "plain", ver |-> 0, msl |-> FALSE]

Init ==
  /\ frame = [t \in Threads |-> [i \in Levels |-> Blank]]
  /\ depth = [t \in Threads |-> 0]
  /\ owner = Nobody /\ running = {}
  /\ pending = [t \in Threads |-> {}]
  /\ array = Bufs /\ deleted = {}
  /\ fused = [x \in Execs |-> 0] /\ tapes = [x \in Execs |-> 0]
  /\ fuseDone = [x \in Execs |-> FALSE]
  /\ takers = [b \in Bufs |-> {}] /\ asked = {}
  /\ calls = 0

---------------------------------------------------------------------------
(* Calls and returns. *)

Become(t, f) == frame' = [frame EXCEPT ![t][depth[t]] = f]
Goto(t, point) == Become(t, [Top(t) EXCEPT !.pc = point])

\* (mutant) A plain mutex: its holder blocks on it too.
PlainMutex(t) == owner = Nobody

\* (mutant) The lock keeps nobody out.
SharedLock(t) == TRUE

\* `std::recursive_mutex`.
Lockable(t) == owner \in {Nobody, t}

\* The unique_lock of the top call of t goes out of scope.
Release(t) == owner' = IF owner = t /\ ~HoldsBelow(t) THEN Nobody ELSE owner

\* The top call of t is over.
Pop(t) ==
  /\ Become(t, Blank)
  /\ depth' = [depth EXCEPT ![t] = @ - 1]

Return(t) == Pop(t) /\ Release(t)

\* Where an entry begins: a read has a test before the lock, a deletion takes
\* none.
Begins == [op \in Ops |->
  IF op \in {"read", "copy"} THEN "check"
  ELSE IF op = "delete" THEN "reset" ELSE "lock"]

Fresh(op, x, give, keep) ==
  [Blank EXCEPT !.op = op, !.exec = x, !.give = give, !.keep = keep,
                !.pc = Begins[op]]

\* A call from the embedder, or from the user's function inside a host call.
Call(t) ==
  /\ calls < MaxCalls /\ depth[t] < MaxDepth
  /\ depth[t] > 0 => Top(t).pc = "walk" /\ Top(t).exec \in Hosts
  /\ \E op \in Ops, x \in Execs, give, keep \in SUBSET Bufs :
       /\ op = "run" /\ depth[t] > 0 => x \in Calls[Top(t).exec]
       /\ op # "run" => (x = Blank.exec /\ give = {})
       /\ op \in {"read", "copy", "delete"} => \E b \in Bufs : keep = {b}
       /\ op = "put" => keep = {}
       /\ frame' = [frame EXCEPT ![t][depth[t] + 1] = Fresh(op, x, give, keep)]
  /\ depth' = [depth EXCEPT ![t] = @ + 1]
  /\ calls' = calls + 1
  /\ UNCHANGED <<locks, pending, buffers, fusing>>

\* (mutant) A host read goes to the array without the lock.
LockNotForReads(t) ==
  /\ At(t, "lock")
  /\ IF Top(t).op = "read"
       THEN Goto(t, "take") /\ UNCHANGED owner
       ELSE /\ Concurrent \/ Lockable(t)
            /\ owner' = IF Concurrent THEN owner ELSE t
            /\ Goto(t, IF Top(t).op = "copy" THEN "take" ELSE "admit")
  /\ UNCHANGED <<depth, running, pending, buffers, fusing, calls>>

\* `SubmissionLock()`.
Lock(t) ==
  /\ At(t, "lock")
  /\ Concurrent \/ Lockable(t)
  /\ owner' = IF Concurrent THEN owner ELSE t
  /\ Goto(t, IF Top(t).op \in {"read", "copy"} THEN "take" ELSE "admit")
  /\ UNCHANGED <<depth, running, pending, buffers, fusing, calls>>

\* `governor_admit` lets a run or a transfer in, or throws.
Admit(t) ==
  /\ At(t, "admit")
  /\ \/ /\ Goto(t, IF Top(t).op = "run" THEN "args" ELSE "store")
        /\ UNCHANGED <<depth, owner>>
     \/ Return(t)
  /\ UNCHANGED <<running, pending, buffers, fusing, calls>>

\* The eval that makes a transfer's bytes resident; it may throw.
Store(t) ==
  /\ At(t, "store")
  /\ Return(t)
  /\ UNCHANGED <<running, pending, buffers, fusing, calls>>

---------------------------------------------------------------------------
(* MetalBuffer::Settled, CopyOut, CopyToMemorySpace, Delete. *)

\* The test that comes before the lock.
Check(t) ==
  /\ At(t, "check")
  /\ IF Top(t).keep \subseteq array \ deleted
       THEN Goto(t, "lock") /\ UNCHANGED <<depth, owner>>
       ELSE Return(t)
  /\ UNCHANGED <<running, pending, buffers, fusing, calls>>

\* `mx::array c = *array_`, whatever array_ holds by now, and its eval.
Take(t) ==
  /\ At(t, "take")
  /\ \/ /\ Goto(t, IF Top(t).keep \subseteq array THEN "keep" ELSE "undefined")
        /\ UNCHANGED <<depth, owner>>
     \/ Top(t).keep \subseteq array /\ Return(t)
  /\ UNCHANGED <<running, pending, buffers, fusing, calls>>

\* `array_ = c` for a layout that had to be gathered.  A host read is then a
\* memcpy from c; a copy comes back for the lock, to allocate.
Keep(t) ==
  /\ At(t, "keep")
  /\ array' \in {array, array \cup Top(t).keep}
  /\ IF Top(t).op = "copy"
       THEN /\ Become(t, [Top(t) EXCEPT !.op = "put", !.pc = "lock"])
            /\ UNCHANGED depth
       ELSE Pop(t)
  /\ Release(t)
  /\ UNCHANGED <<running, pending, deleted, takers, asked, fusing, calls>>

\* `Delete()` of the embedder takes no lock: array_.reset(), then deleted_.
DeleteResets(t) ==
  /\ At(t, "reset")
  /\ array' = array \ Top(t).keep
  /\ asked' = asked \cup Top(t).keep
  /\ Goto(t, "flag")
  /\ UNCHANGED <<depth, locks, pending, deleted, takers, fusing, calls>>

DeleteFlags(t) ==
  /\ At(t, "flag")
  /\ deleted' = deleted \cup Top(t).keep
  /\ Return(t)
  /\ UNCHANGED <<running, pending, array, takers, asked, fusing, calls>>

---------------------------------------------------------------------------
(* MetalLoadedExecutable::RunOnce. *)

Args(t) == Top(t).give \cup Top(t).keep

\* Every argument must have a value, and none be both given and kept.
CheckArgs(t) ==
  /\ At(t, "args")
  /\ IF Args(t) \subseteq array /\ Top(t).give \cap Top(t).keep = {}
       THEN Goto(t, "hold") /\ UNCHANGED <<depth, owner>>
       ELSE Return(t)
  /\ UNCHANGED <<running, pending, buffers, fusing, calls>>

\* (mutant) The given buffers are released as they are collected.
HoldConsumes(t) ==
  /\ At(t, "hold")
  /\ Goto(t, "tape")
  /\ array' = array \ Top(t).give
  /\ deleted' = deleted \cup Top(t).give
  /\ UNCHANGED <<depth, locks, pending, takers, asked, fusing, calls>>

\* `inputs.push_back(a)`: from here on the run holds the values itself.
Hold(t) ==
  /\ At(t, "hold")
  /\ Goto(t, IF Args(t) \subseteq array THEN "tape" ELSE "undefined")
  /\ UNCHANGED <<depth, locks, pending, buffers, fusing, calls>>

\* `Tape(inputs)`, under fuse_mu_: the fused tape is kept, built, rebuilt or
\* given up, and the answer is a REFERENCE to fused_ or to lowered_.
PickTape(t) ==
  LET x == Top(t).exec IN
  /\ At(t, "tape")
  /\ \E ref \in {"plain", "fused"} :
       /\ Become(t, [Top(t) EXCEPT !.pc = "call", !.ref = ref])
       /\ IF ref = "fused"
            THEN \/ fused[x] # 0 /\ UNCHANGED fusing
                 \/ /\ fused[x] # 0 \/ ~fuseDone[x]
                    /\ tapes[x] < MaxTapes
                    /\ tapes' = [tapes EXCEPT ![x] = @ + 1]
                    /\ fused' = [fused EXCEPT ![x] = tapes[x] + 1]
                    /\ fuseDone' = [fuseDone EXCEPT ![x] = FALSE]
            ELSE /\ fused' = [fused EXCEPT ![x] = 0]
                 /\ fuseDone' = [fuseDone EXCEPT ![x] = TRUE]
                 /\ UNCHANGED tapes
  /\ UNCHANGED <<depth, locks, pending, buffers, calls>>

\* `tape->program->run`: the reference is read here.
Enter(t) ==
  LET now == fused[Top(t).exec] IN
  /\ At(t, "call")
  /\ IF Top(t).ref = "fused" /\ now = 0
       THEN Goto(t, "undefined")
       ELSE Become(t, [Top(t) EXCEPT
              !.pc = "enter",
              !.ver = IF Top(t).ref = "fused" THEN now ELSE 0])
  /\ UNCHANGED <<depth, locks, pending, buffers, fusing, calls>>

\* Program::lock_, which nobody may hold, the thread itself included; its
\* holder forgets what its thread's list held.
Busy(t) == \E u \in Threads : <<Top(t).exec, Top(t).ver, u>> \in running

Walk(t) ==
  /\ At(t, "enter") /\ ~Busy(t)
  /\ running' = running \cup {<<Top(t).exec, Top(t).ver, t>>}
  /\ pending' = [pending EXCEPT ![t] = {}]
  /\ Goto(t, "walk")
  /\ UNCHANGED <<depth, owner, buffers, fusing, calls>>

\* A generated kernel goes into a graph being traced.
Launch(t) ==
  /\ At(t, "walk")
  /\ Become(t, [Top(t) EXCEPT !.msl = TRUE])
  /\ pending' = [pending EXCEPT ![t] = @ \cup {depth[t]}]
  /\ UNCHANGED <<depth, locks, buffers, fusing, calls>>

\* Program::run settles what is on the list and returns, or throws, where the
\* list is cleared only if the kernels are what failed.
WalkEnds(t) ==
  /\ At(t, "walk")
  /\ running' = running \ {<<Top(t).exec, Top(t).ver, t>>}
  /\ \/ /\ Become(t, [Top(t) EXCEPT !.pc = "eval",
                          !.msl = @ /\ depth[t] \notin pending[t]])
        /\ pending' = [pending EXCEPT ![t] = {}]
        /\ UNCHANGED <<depth, owner>>
     \/ /\ Return(t)
        /\ pending' \in {pending, [pending EXCEPT ![t] = {}]}
  /\ UNCHANGED <<buffers, fusing, calls>>

\* `mx::eval(outs)` and the dense copies, which may throw.
Eval(t) ==
  /\ At(t, "eval")
  /\ \/ Goto(t, "wrap") /\ UNCHANGED <<depth, owner>>
     \/ Return(t)
  /\ UNCHANGED <<running, pending, buffers, fusing, calls>>

\* (mutant) The lock covers the evaluation only.
WrapUnlocked(t) ==
  /\ At(t, "wrap")
  /\ Goto(t, "donate")
  /\ Release(t)
  /\ UNCHANGED <<depth, running, pending, buffers, fusing, calls>>

\* `tape->results`, through the reference again: null is undefined, another
\* tape may disagree with the results.
Wrap(t) ==
  LET now == fused[Top(t).exec]
      other == Top(t).ref = "fused" /\ now # Top(t).ver
  IN
  /\ At(t, "wrap")
  /\ \/ /\ Goto(t, IF other /\ now = 0 THEN "undefined" ELSE "donate")
        /\ UNCHANGED <<depth, owner>>
     \/ other /\ now # 0 /\ Return(t)
  /\ UNCHANGED <<running, pending, buffers, fusing, calls>>

\* The donated arguments are deleted, and the results returned.
Donate(t) ==
  /\ At(t, "donate")
  /\ array' = array \ Top(t).give
  /\ deleted' = deleted \cup Top(t).give
  /\ takers' = [b \in Bufs |-> IF b \in Top(t).give THEN takers[b] \cup {t}
                                ELSE takers[b]]
  /\ Return(t)
  /\ UNCHANGED <<running, pending, asked, fusing, calls>>

---------------------------------------------------------------------------
Step(t) ==
  \/ Lock(t) \/ Admit(t) \/ Store(t)
  \/ Check(t) \/ Take(t) \/ Keep(t) \/ DeleteResets(t) \/ DeleteFlags(t)
  \/ CheckArgs(t) \/ Hold(t) \/ PickTape(t) \/ Enter(t) \/ Walk(t)
  \/ Launch(t) \/ WalkEnds(t) \/ Eval(t) \/ Wrap(t) \/ Donate(t)

Next == \E t \in Threads : Call(t) \/ Step(t)

Spec == Init /\ [][Next]_vars

\* A thread in a call keeps running it, and a lock that stays free is got.
\* The calls are bounded, so this says nothing of starvation by new calls.
FairSpec == Spec /\ \A t \in Threads : WF_vars(Step(t))

---------------------------------------------------------------------------
(* Properties. *)

TypeOK ==
  /\ frame \in [Threads -> [Levels -> Frames]]
  /\ depth \in [Threads -> 0 .. MaxDepth]
  /\ owner \in Threads \cup {Nobody}
  /\ running \subseteq Execs \X (0 .. MaxTapes) \X Threads
  /\ pending \in [Threads -> SUBSET Levels]
  /\ array \subseteq Bufs /\ deleted \subseteq Bufs /\ asked \subseteq Bufs
  /\ fused \in [Execs -> 0 .. MaxTapes] /\ tapes \in [Execs -> 0 .. MaxTapes]
  /\ fuseDone \in [Execs -> BOOLEAN]
  /\ takers \in [Bufs -> SUBSET Threads]
  /\ calls \in 0 .. MaxCalls

Driving(t) == \E i \in Levels : frame[t][i].pc \in InMLX

\* Two threads are never inside MLX at once, however deep their callbacks
\* nest (SubmissionLock: concurrent evals crash in get_command_encoder).
OneSubmitter ==
  ~Concurrent => \A t, u \in Threads : Driving(t) /\ Driving(u) => t = u

\* A donated buffer is consumed by the successful runs of one thread only: of
\* two that race for it, one is told it is gone (RunOnce).
TakenByOne ==
  ~Concurrent =>
    \A b \in Bufs : \A t, u \in takers[b] : t = u

\* A run that fails, wherever it fails, leaves the caller its arguments
\* ("collected only after a run that succeeded").
FailureKeepsArguments ==
  \A b \in Bufs \ array : takers[b] # {} \/ b \in asked

\* A buffer that was donated never gets an array again, though a read in
\* another thread may write one back (Settled).
DonatedStaysEmpty ==
  ~Concurrent => \A b \in array : takers[b] = {}

\* A donation happens once, for good, and only in a run that succeeded.
DonationsAreFinal == TakenByOne /\ DonatedStaysEmpty /\ FailureKeepsArguments

\* A run that has read the fused tape, and has still to read its results.
Reading == {"enter", "walk", "eval", "wrap"}

\* No fused tape is dropped under a run of it: RunOnce holds a reference into
\* fused_, which Tape resets for a call that brings other weights.
TapeOutlivesRun ==
  \A t \in Threads, i \in Levels :
    LET fr == frame[t][i] IN
      fr.pc \in Reading /\ fr.ref = "fused" => fused[fr.exec] = fr.ver

Broken == \E t \in Threads, i \in Levels : frame[t][i].pc = "undefined"

\* Every call returns, the nested ones first: no thread waits for ever on
\* the submission lock or on a program's own.
CallsReturn ==
  \A t \in Threads : depth[t] > 0 ~> (depth[t] = 0 \/ Broken)
=============================================================================

--------------------------- MODULE MCRuntimeRest ---------------------------
(* The governor, the loop window, the tape cache, the cadences and the
   specialization of a loop side by side: a behaviour is one of theirs, and the
   others stay where they begin. *)
EXTENDS Governor, LoopWindow, TapeCache, Cadences, LoopSpec

(* The machine reads no, some or plenty of free memory; the lines are such   *)
(* that each of live arrays, retained memory and other processes can cross   *)
(* them.                                                                     *)
MCFreeReads == {0, 2, 6}
MCWants == {0, 1, 2}

MCLoops ==
  [arm : {"single"}, trip : {6}, period : {1, 2, 4}, hardEvery : {8}, budget : {3, 7},
   estimate : {2, 3, 5}, unit : {1, 2, 5}, inflight : {2}, syncEvery : {4}]
  \cup
  [arm : {"chunked"}, trip : {6}, period : {1}, hardEvery : {8}, budget : {3, 6},
   estimate : {3, 5}, unit : {1, 2, 5}, inflight : {2, 4}, syncEvery : {3, 8}]
MCConfigs ==
  LET C(cap, floor, main, footprint, earn, sync) ==
        [cap |-> cap, floor |-> floor, main |-> main, footprint |-> footprint,
         earn |-> earn, syncEvery |-> sync, eager |-> 2, loop |-> 2, ingest |-> 3]
  IN {C(4, 1, 1, 4, 2, 2), C(1, 2, 0, 3, 1, 1),
      [C(-1, 1, 1, 3, 2, 1) EXCEPT !.loop = 0, !.ingest = 0],
      [C(3, 1, 1, 0, 2, 0) EXCEPT !.eager = 0]}

(* Loop bodies of a counter, a constant from outside and another input.  Start  *)
(* indices have three bits, positions go up to 3.                              *)
Entry(op, ins, val) == [op |-> op, ins |-> ins, val |-> val, bytes |-> 4, index |-> TRUE, bounds |-> <<>>]
WindowAt(ins, bounds) == [Entry("window", ins, 0) EXCEPT !.bounds = bounds]
LoopBody(fixed, ops) == [inputs |-> 3, counter |-> 1, integer |-> TRUE, fixed |-> [s \in {2} |-> fixed], ops |-> ops,
                     maxRepeat |-> 2]
MCBodies ==
  {LoopBody(f, <<Entry("const", <<>>, c), Entry("add", <<1, 4>>, 0), WindowAt(<<5, 2>>, <<2, 1>>), WindowAt(<<3>>, <<2>>)>>) :
     f \in {0, 9}, c \in {-2, 7}}
  \cup {LoopBody(0, <<Entry("other", <<3>>, 0), Entry("add", <<1, 1>>, 0), Entry("add", <<a, 5>>, 0),
                     WindowAt(<<2, w>>, <<0, 3>>)>>) : a \in {1, 4}, w \in 5 .. 6}
  \cup {[LoopBody(0, <<Entry("narrow", <<1>>, 0), WindowAt(<<1>>, <<2>>)>>) EXCEPT !.integer = FALSE],
        [LoopBody(0, <<Entry("narrow", <<1>>, 0), WindowAt(<<4, 4>>, <<2, 1>>)>>) EXCEPT !.maxRepeat = 1],
        LoopBody(0, <<[Entry("narrow", <<1>>, 0) EXCEPT !.bytes = 2048], WindowAt(<<4>>, <<2>>)>>),
        LoopBody(0, <<[Entry("narrow", <<1>>, 0) EXCEPT !.index = FALSE], WindowAt(<<4>>, <<2>>), WindowAt(<<1>>, <<2>>)>>)}
MCCalls ==
  {[start |-> s, trip |-> t, k |-> k] : s \in {-1, 0}, t \in {2, 3}, k \in {2}}
  \cup {[start |-> 2, trip |-> 2, k |-> 2], [start |-> 0, trip |-> 5, k |-> 2], [start |-> 3, trip |-> 2, k |-> 2]}
MCSlotValues == {-1, 2, 6}
SomeBody == CHOOSE b \in LoopBodies : TRUE

VARIABLE part
restVars == <<part, vars, windowVars, cacheVars, cadenceVars, specVars>>
SomeLoop == CHOOSE l \in Loops : Engaged(l)
RestInit ==
  /\ part \in {"governor", "window", "cache", "cadence", "spec"}
  /\ Init
  /\ WindowInit /\ (part # "window" => loop = SomeLoop /\ ~ proven /\ freed = 0)
  /\ CacheInit
  /\ CadenceInit /\ (part # "cadence" => cfg = CHOOSE c \in Configs : TRUE)
  /\ SpecInit /\ (part # "spec" => body = SomeBody /\ verdict = "declined")
RestNext ==
  /\ UNCHANGED part
  /\ \/ part = "governor" /\ Next /\ UNCHANGED <<windowVars, cacheVars, cadenceVars, specVars>>
     \/ part = "window" /\ WindowNext /\ UNCHANGED <<vars, cacheVars, cadenceVars, specVars>>
     \/ part = "cache" /\ CacheNext /\ UNCHANGED <<vars, windowVars, cadenceVars, specVars>>
     \/ part = "cadence" /\ CadenceNext /\ UNCHANGED <<vars, windowVars, cacheVars, specVars>>
     \/ part = "spec" /\ SpecNext /\ UNCHANGED <<vars, windowVars, cacheVars, cadenceVars>>
RestSpec == RestInit /\ [][RestNext]_restVars
\* The fairness of the governor's FairSpec.
FairRestSpec == RestSpec /\ WF_vars(part = "governor" /\ Admit) /\ WF_vars(part = "governor" /\ Finish)
=============================================================================

----------------------------- MODULE MCExecution -----------------------------
(***************************************************************************)
(* The pipelined loop and the plugin's entries, side by side: a behaviour  *)
(* is one of the loop's or one of the entries', and the other stays where  *)
(* it begins.                                                              *)
(*                                                                         *)
(* The loop's inputs, the two carries, the source of an in-flight kernel   *)
(* and one abandoned graph never need more than five buffers, so an        *)
(* allocation always finds one.  The entries are called by two threads, of *)
(* two executables: hostly makes a host call, whose user function may      *)
(* execute plain; plain makes none.                                        *)
(***************************************************************************)
EXTENDS DynamicWhile, Execution, TLC

CONSTANTS b0, b1, b2, b3, b4, t1, t2, hostly, plain, buf

MCCarryBufs == {b0, b1, b2, b3, b4}
MCTrips == 0 .. 4

MCThreads == {t1, t2}
MCExecs == {hostly, plain}
MCBufs == {buf}
MCHosts == {hostly}
CallsOther == hostly :> {plain} @@ plain :> {}

VARIABLE part
bothVars == <<part, whileVars, vars>>

BothInit ==
  /\ part \in {"while", "entries"}
  /\ WhileInit /\ (part = "entries" => trip = 0)
  /\ Init

BothNext ==
  /\ UNCHANGED part
  /\ \/ part = "while" /\ WhileNext /\ UNCHANGED vars
     \/ part = "entries" /\ Next /\ UNCHANGED whileVars

\* The fairness of FairWhileSpec and of FairSpec.
FairBothSpec ==
  /\ BothInit /\ [][BothNext]_bothVars
  /\ WF_whileVars(part = "while" /\ Host) /\ WF_whileVars(part = "while" /\ Device)
  /\ \A t \in Threads : WF_vars(part = "entries" /\ Step(t))

\* The loop that runs comes to its result.
LoopArrives == part = "while" => ResultArrives
=============================================================================

---------------------------- MODULE SerialWhile ----------------------------
(***************************************************************************)
(* What a dynamic `stablehlo.while` promises its program, whatever arm of  *)
(* `Program::run_while` runs it: the carry advances one body application   *)
(* at a time, an application happens only while the condition of the       *)
(* current carry holds, and the carry handed back is the first one whose   *)
(* condition is false.  The loop may instead raise, and a raise hands back *)
(* nothing.  It is the serial arm of run_while with the device left out.   *)
(*                                                                         *)
(* The data are abstracted to what the loop can tell apart: a carry is the *)
(* number of body applications that produced it, and the condition of      *)
(* carry c is c < trip for a trip count nobody reads in advance.           *)
(***************************************************************************)
EXTENDS Naturals

CONSTANT Trips   \* the trip counts the condition may turn out to have

VARIABLES trip, carry, status

serialVars == <<trip, carry, status>>

SerialInit ==
  /\ trip \in Trips
  /\ carry = 0
  /\ status = "running"

\* One trip round the serial loop: read the condition, run the body.
Iterate ==
  /\ status = "running"
  /\ carry < trip
  /\ carry' = carry + 1
  /\ UNCHANGED <<trip, status>>

\* The condition says stop: the carry is the result.
Return ==
  /\ status = "running"
  /\ carry >= trip
  /\ status' = "returned"
  /\ UNCHANGED <<trip, carry>>

\* Anything the body, the condition or the governor throws.
Raise ==
  /\ status = "running"
  /\ status' = "raised"
  /\ UNCHANGED <<trip, carry>>

SerialNext == Iterate \/ Return \/ Raise

SerialSpec == SerialInit /\ [][SerialNext]_serialVars
=============================================================================

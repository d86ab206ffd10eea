--------------------------- MODULE MCProgramLadder ---------------------------
(* Two loops: l1 is planned into the kernel p, l2 is not.  The body of l1    *)
(* holds the kernel q, inside the loop of p.                                 *)
EXTENDS ProgramLadder

CONSTANTS l1, l2, p, q

Loops2 == <<l1, l2>>
OwnPlan == [l \in {l1, l2} |-> IF l = l1 THEN p ELSE NoPlan]
NestedPlan == [l \in {l1, l2} |-> IF l = l1 THEN q ELSE NoPlan]
TwoPlans == {p, q}
AnyLowered == {{p, q}, {}}

\* No host call, one on the main tape, or one in the body of l2.
MCHostSites == {{}, {Main}, {l2}}

\* What Metal turns out unable to build: nothing, one thing, or two that meet
\* on the same path of the ladder.
PathsBad == {{}, {p, q}, {<<Main, "one">>}, {q, <<l1, "one">>}, {<<l2, "many">>, <<l2, "spec">>}}
=============================================================================

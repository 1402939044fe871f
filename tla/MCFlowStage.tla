----------------------------- MODULE MCFlowStage -----------------------------
(* A port of three flows, which may go wide and be narrowed, beside a port   *)
(* with a probe for one of its two.  The first flow makes two requests, and  *)
(* one of the others may not be repeated.                                    *)
EXTENDS FlowStage

MCFlowsOn == [p \in Ports |-> IF p = "wide" THEN 3 ELSE 2]
MCSteps == [p \in Ports |-> [f \in Flows(p) |-> IF f = 0 THEN 2 ELSE 1]]
MCSkipped == {<<"lone", 0>>}
MCRepeatable == {"wide"} \X {0, 2}
=============================================================================

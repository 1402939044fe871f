-------------------------- MODULE MCCursorForeign -------------------------
(***************************************************************************)
(* Cursor resumed from any file of the right shape: one an edited journal  *)
(* or another build might hold, with redundant positions, a walk counted   *)
(* past its end, or a walk shorter than the plan.  What such a file leaves *)
(* to ask is read in Remaining.                                            *)
(***************************************************************************)
EXTENDS Remaining

MCTotal == 3

(* Every order some mixer names, over the whole plan or less of it. *)
MCOrders == {o \in {walk.order : walk \in Walks} : Cardinality(DOMAIN o) > 1}

ForeignInit ==
  /\ watermark = 0 /\ above = {}
  /\ order = NoWalk /\ reached = 0 /\ ahead = 0
  /\ pc = "idle" /\ walked = FALSE
  /\ saved \in Checkpoints

(* The foreign file stays as it is: what the cursor writes itself is the   *)
(* subject of MCCursor.                                                    *)
ForeignNext ==
  \/ \E p \in Positions : Settle(p)
  \/ CatchUp
  \/ Restart

ForeignSpec == ForeignInit /\ [][ForeignNext]_vars
============================================================================

---------------------------- MODULE SettledSet ----------------------------
(***************************************************************************)
(* What a journal's cursor promises, with no data structure in it: a set   *)
(* of settled plan positions that grows one position at a time, a copy of  *)
(* it on disk, and a process that may die and start again from the copy.   *)
(* Cursor.tla is the two-watermark structure that implements it.           *)
(***************************************************************************)
CONSTANT Positions      \* the positions of the plan

VARIABLES settled,      \* what the running process has settled
          saved         \* what the cursor file says is settled

Init ==
  /\ settled = {}
  /\ saved = {}

Settle(p) ==
  /\ settled' = settled \cup {p}
  /\ UNCHANGED saved

Save ==
  /\ saved' = settled
  /\ UNCHANGED settled

Restart ==
  /\ settled' = saved
  /\ UNCHANGED saved

Next ==
  \/ \E p \in Positions : Settle(p)
  \/ Save
  \/ Restart

Spec == Init /\ [][Next]_<<settled, saved>>
============================================================================

------------------------------ MODULE Cursor ------------------------------
(***************************************************************************)
(* The journal cursor of src/journal/cursor.rs: which positions of a plan  *)
(* are settled, held as two watermarks and a set.  `watermark' counts in   *)
(* plan order; `reached' counts along the order the scan asks in (a keyed  *)
(* permutation, src/model/order.rs); `above' holds what neither has passed *)
(* and `ahead' how much of what the walk passed lies at or past the plan   *)
(* watermark.                                                              *)
(*                                                                         *)
(* The cursor is only ever touched under the mutex of                      *)
(* Settlements (src/journal/settle.rs), so an operation is atomic to its   *)
(* callers; the loop of catch_up is nevertheless written out, one action   *)
(* per branch and pass, because what it conserves at every pass is what    *)
(* makes it right.  `pc' is where that loop stands.                        *)
(*                                                                         *)
(* Positions stay far below u64::MAX, where the code's saturating          *)
(* additions would act; the saturating subtraction on `ahead' is kept.     *)
(***************************************************************************)
EXTENDS Integers, FiniteSets

CONSTANTS
  Total,    \* how many positions the plan numbers
  Orders,   \* the orders a scan may ask in
  NoWalk    \* the walk of a cursor that counts in plan order alone

Positions == 0 .. Total - 1

(* An order rearranges 0..n-1 for some n: every index names its own        *)
(* position.                                                               *)
IsOrder(o) ==
  \E n \in 0 .. Total :
    /\ o \in [0 .. n - 1 -> 0 .. n - 1]
    /\ \A i, j \in 0 .. n - 1 : o[i] = o[j] => i = j

ASSUME TotalAssumption == Total \in Nat
ASSUME OrdersAssumption == \A o \in Orders : IsOrder(o)
ASSUME NoWalkAssumption == NoWalk \notin Orders

VARIABLES
  watermark,  \* every position below it is settled
  above,      \* settled positions neither watermark has reached
  order,      \* the order walked, or NoWalk
  reached,    \* how many positions of the walk are settled
  ahead,      \* how many of those are at or past the watermark
  pc,         \* "idle", or where catch_up stands: "plan" or "walk"
  walked,     \* catch_up's local: the walk moved on this pass
  saved       \* the checkpoint on disk

cursor == <<watermark, above, order, reached, ahead>>
vars == <<watermark, above, order, reached, ahead, pc, walked, saved>>

Checkpoints ==
  [watermark : 0 .. Total, settled_above : SUBSET Positions,
   order : Orders \cup {NoWalk}, reached : 0 .. Total, ahead : 0 .. Total]

TypeOK ==
  /\ watermark \in 0 .. Total
  /\ above \subseteq Positions
  /\ order \in Orders \cup {NoWalk}
  /\ reached \in 0 .. Total
  /\ ahead \in 0 .. Total
  /\ pc \in {"idle", "plan", "walk"}
  /\ walked \in BOOLEAN
  /\ saved \in Checkpoints
----------------------------------------------------------------------------
(* The positions the first r indices of a walk along o name.               *)
Covered(o, r) ==
  IF o = NoWalk THEN {} ELSE {o[i] : i \in {j \in DOMAIN o : j < r}}

\* Cursor::is_settled, and Checkpoint::is_settled on the same three parts.
IsSettled(w, a, o, r, p) == p < w \/ p \in a \/ p \in Covered(o, r)

Settled == {p \in Positions : IsSettled(watermark, above, order, reached, p)}

SavedSettled ==
  {p \in Positions :
     IsSettled(saved.watermark, saved.settled_above, saved.order, saved.reached, p)}

\* Cursor::settled_count
SettledCount == watermark + ahead + Cardinality(above)

\* Variant for a mutation: only the watermarks are written down.
SnapshotWithoutSet ==
  [watermark |-> watermark, settled_above |-> {},
   order |-> order, reached |-> reached, ahead |-> ahead]

\* Cursor::checkpoint
Snapshot ==
  [watermark |-> watermark, settled_above |-> above,
   order |-> order, reached |-> reached, ahead |-> ahead]

Least(a, b) == IF a < b THEN a ELSE b

\* Cardinality of the order walked: Walked::len.
WalkLen(o) == IF o = NoWalk THEN 0 ELSE Cardinality(DOMAIN o)

\* Subtraction that stops at zero, u64::saturating_sub.
Minus(a, b) == IF a < b THEN 0 ELSE a - b

(* Walked::clamped, the two numbers of a walk read from a file.            *)
ClampedReached(c) == Least(c.reached, WalkLen(c.order))

ClampedAhead(c) ==
  Least(Least(c.ahead, ClampedReached(c)), Minus(WalkLen(c.order), c.watermark))
----------------------------------------------------------------------------
Fresh ==
  [watermark |-> 0, settled_above |-> {}, order |-> NoWalk,
   reached |-> 0, ahead |-> 0]

\* Cursor::new, with no cursor file yet (a missing one reads as the default).
Init ==
  /\ watermark = 0 /\ above = {}
  /\ order = NoWalk /\ reached = 0 /\ ahead = 0
  /\ pc = "idle" /\ walked = FALSE
  /\ saved = Fresh

(* Cursor::along: only a cursor not yet counting along a walk takes one.   *)
Along(o) ==
  /\ pc = "idle"
  /\ order = NoWalk
  /\ order' = o /\ reached' = 0 /\ ahead' = 0
  /\ pc' = "plan"
  /\ UNCHANGED <<watermark, above, walked, saved>>

(* Cursor::settle, from Settlements::record: idempotent.                   *)
Settle(p) ==
  /\ pc = "idle"
  /\ ~IsSettled(watermark, above, order, reached, p)
  /\ above' = above \cup {p}
  /\ pc' = "plan"
  /\ UNCHANGED <<watermark, order, reached, ahead, walked, saved>>
----------------------------------------------------------------------------
(* catch_up, inner loop: the watermark takes a position out of the set ... *)
PassListed ==
  /\ pc = "plan"
  /\ watermark \in above
  /\ above' = above \ {watermark}
  /\ watermark' = watermark + 1
  /\ UNCHANGED <<order, reached, ahead, pc, walked, saved>>

\* Variant for a mutation: a passed position goes on counting as ahead.
PassCoveredStillAhead ==
  /\ pc = "plan"
  /\ watermark \notin above
  /\ watermark \in Covered(order, reached)
  /\ watermark' = watermark + 1
  /\ UNCHANGED <<above, order, reached, ahead, pc, walked, saved>>

(* ... or one the walk has passed, which stops counting as ahead ...       *)
PassCovered ==
  /\ pc = "plan"
  /\ watermark \notin above
  /\ watermark \in Covered(order, reached)
  /\ ahead' = Minus(ahead, 1)
  /\ watermark' = watermark + 1
  /\ UNCHANGED <<above, order, reached, pc, walked, saved>>

\* Variant for a mutation: the flag of the last pass is not cleared.
PlanStopsMoved ==
  /\ pc = "plan"
  /\ watermark \notin above \cup Covered(order, reached)
  /\ pc' = IF order = NoWalk THEN "idle" ELSE "walk"
  /\ walked' = TRUE
  /\ UNCHANGED <<cursor, saved>>

\* Variant for a mutation: the walk never has its turn.
PlanStopsForGood ==
  /\ pc = "plan"
  /\ watermark \notin above \cup Covered(order, reached)
  /\ pc' = "idle"
  /\ walked' = FALSE
  /\ UNCHANGED <<cursor, saved>>

(* ... or stops, and the walk has its turn if there is one.                *)
PlanStops ==
  /\ pc = "plan"
  /\ watermark \notin above \cup Covered(order, reached)
  /\ pc' = IF order = NoWalk THEN "idle" ELSE "walk"
  /\ walked' = FALSE
  /\ UNCHANGED <<cursor, saved>>

\* Variant for a mutation: an off-by-one against the watermark.
WalkBelowOrAt ==
  /\ pc = "walk"
  /\ reached < WalkLen(order)
  /\ order[reached] <= watermark
  /\ reached' = reached + 1
  /\ walked' = TRUE
  /\ UNCHANGED <<watermark, above, order, ahead, pc, saved>>

(* catch_up, the walk: over a position the watermark already counts ...    *)
WalkBelow ==
  /\ pc = "walk"
  /\ reached < WalkLen(order)
  /\ order[reached] < watermark
  /\ reached' = reached + 1
  /\ walked' = TRUE
  /\ UNCHANGED <<watermark, above, order, ahead, pc, saved>>

\* Variant for a mutation: the position leaves the set and is not counted.
WalkListedUncounted ==
  /\ pc = "walk"
  /\ reached < WalkLen(order)
  /\ order[reached] >= watermark
  /\ order[reached] \in above
  /\ above' = above \ {order[reached]}
  /\ reached' = reached + 1
  /\ walked' = TRUE
  /\ UNCHANGED <<watermark, order, ahead, pc, saved>>

(* ... or over one in the set, which becomes one ahead ...                 *)
WalkListed ==
  /\ pc = "walk"
  /\ reached < WalkLen(order)
  /\ order[reached] >= watermark
  /\ order[reached] \in above
  /\ above' = above \ {order[reached]}
  /\ ahead' = ahead + 1
  /\ reached' = reached + 1
  /\ walked' = TRUE
  /\ UNCHANGED <<watermark, order, pc, saved>>

(* ... or stops, and the watermark goes again if the walk moved.           *)
WalkStops ==
  /\ pc = "walk"
  /\ reached < WalkLen(order) =>
       order[reached] >= watermark /\ order[reached] \notin above
  /\ pc' = IF walked THEN "plan" ELSE "idle"
  /\ UNCHANGED <<cursor, walked, saved>>

CatchUp ==
  \/ PassListed \/ PassCovered \/ PlanStops
  \/ WalkBelow \/ WalkListed \/ WalkStops
----------------------------------------------------------------------------
(* Cursor::checkpoint and Checkpoint::write_atomically: a rename, so the   *)
(* file is one whole checkpoint or the one before.                         *)
Save ==
  /\ pc = "idle"
  /\ saved' = Snapshot
  /\ UNCHANGED <<cursor, pc, walked>>

\* Variants for mutations: the file is taken as it is, without catch_up; and
\* a position listed at the watermark is dropped.
RestartUnnormalised ==
  /\ watermark' = saved.watermark
  /\ order' = saved.order
  /\ reached' = ClampedReached(saved)
  /\ ahead' = ClampedAhead(saved)
  /\ above' = saved.settled_above
  /\ pc' = "idle"
  /\ walked' = FALSE
  /\ UNCHANGED saved

RestartPastWatermark ==
  /\ watermark' = saved.watermark
  /\ order' = saved.order
  /\ reached' = ClampedReached(saved)
  /\ ahead' = ClampedAhead(saved)
  /\ above' = {p \in saved.settled_above : p > saved.watermark}
  /\ pc' = "plan"
  /\ walked' = FALSE
  /\ UNCHANGED saved

(* The process dies, wherever it stood, and the next sitting builds its    *)
(* cursor with Cursor::from_checkpoint.                                    *)
Restart ==
  /\ watermark' = saved.watermark
  /\ order' = saved.order
  /\ reached' = ClampedReached(saved)
  /\ ahead' = ClampedAhead(saved)
  /\ above' = {p \in saved.settled_above :
                 /\ p >= saved.watermark
                 /\ p \notin Covered(saved.order, ClampedReached(saved))}
  /\ pc' = "plan"
  /\ walked' = FALSE
  /\ UNCHANGED saved

Next ==
  \/ \E o \in Orders : Along(o)
  \/ \E p \in Positions : Settle(p)
  \/ CatchUp
  \/ Save
  \/ Restart

(* catch_up runs to its end once entered: it is straight-line code that    *)
(* neither waits nor yields.                                               *)
Spec == Init /\ [][Next]_vars
FairSpec == Spec /\ WF_vars(CatchUp)
----------------------------------------------------------------------------
(* What the walk has passed at or past the plan watermark.                 *)
AheadOf(o, r, w) == {p \in Covered(o, r) : p >= w}

\* Checkpoint::settled_count, as a listing reads it off the file.
SavedCount ==
  LET listed == {p \in saved.settled_above :
                   /\ p >= saved.watermark
                   /\ p \notin Covered(saved.order, ClampedReached(saved))}
  IN  saved.watermark + ClampedAhead(saved) + Cardinality(listed)

(* Cursor::settled_count, a sum of three numbers kept up one step at a     *)
(* time, is the number of settled positions: none is counted twice as a    *)
(* watermark passes it and none is lost between the set and the walk, at   *)
(* every pass of catch_up and after every resume.                          *)
CountExact == SettledCount = Cardinality(Settled)

(* The same for the file: the progress a listing reports without walking   *)
(* is the number of positions the file settles.                            *)
SavedCountExact == SavedCount = Cardinality(SavedSettled)

(* When an operation returns, both watermarks stand at their first         *)
(* unsettled position and the set holds only what neither can pass, so a   *)
(* checkpoint is as small as the module's documentation promises.          *)
CaughtUp ==
  pc = "idle" =>
    /\ watermark \notin Settled
    /\ reached < WalkLen(order) => order[reached] \notin Settled
    /\ \A p \in above : p > watermark /\ p \notin Covered(order, reached)

(* catch_up moves positions between the set and the watermarks, and        *)
(* neither settles one nor forgets one.                                    *)
CatchUpConserves == [][CatchUp => Settled' = Settled]_vars

(* A resume settles exactly what the file names, whatever the file says:   *)
(* redundant positions, a walk reached past its end, a walk shorter than   *)
(* the plan.                                                               *)
ResumeReadsTheFile == [][Restart => Settled' = SavedSettled]_vars

(* catch_up's two loops take turns and come to an end, unless the process  *)
(* keeps dying in them.                                                    *)
CatchUpReturns == []<>(pc = "idle") \/ []<><<Restart>>_vars

(* The two watermarks and the set implement a plain set of positions.      *)
Abstract == INSTANCE SettledSet WITH settled <- Settled, saved <- SavedSettled
ImplementsSettledSet == Abstract!Spec
============================================================================

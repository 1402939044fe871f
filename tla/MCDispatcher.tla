--------------------------- MODULE MCDispatcher ---------------------------
(* Five targets, one more than the channel holds, walked in an order not   *)
(* the plan's, or shuffled.  Nothing but the walk tells positions apart,   *)
(* so one order stands for all.                                            *)
EXTENDS Dispatcher

MCWalks == {<<3, 1, 2, 5, 4>>}

(* The first of the walk and its last are as they may be; those between    *)
(* are at live hosts and still to be asked.                                *)
Varied == {3, 4}

SomeVary ==
  /\ Init
  /\ earlier \subseteq Varied /\ Positions \ Varied \subseteq live

MCSpec == SomeVary /\ [][Next]_vars /\ Fairness

MCBound == barred \cup unroutable \subseteq Varied
============================================================================

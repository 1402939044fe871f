----------------------------- MODULE MCCursor -----------------------------
(* Cursor over a plan of MCTotal positions, walked in any order. *)
EXTENDS Cursor

MCTotal == 4

MCOrders ==
  {o \in [0 .. MCTotal - 1 -> 0 .. MCTotal - 1] :
     \A i, j \in 0 .. MCTotal - 1 : o[i] = o[j] => i = j}
============================================================================

------------------------------ MODULE MCLock ------------------------------
(* Three callers in three processes, or two of them threads of one. *)
EXTENDS Lock, TLC

CONSTANTS a1, a2, a3, p, q, r

MCActors == {a1, a2, a3}
Apart == (a1 :> p) @@ (a2 :> q) @@ (a3 :> r)
Threads == (a1 :> p) @@ (a2 :> p) @@ (a3 :> q)
============================================================================

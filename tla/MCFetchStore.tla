---------------------------- MODULE MCFetchStore ----------------------------
(* Three processes making four calls on one resource and the entry derived   *)
(* from it.                                                                  *)
EXTENDS FetchStore, TLC

Alike == Permutations(Processes) \cup Permutations(Versions) \cup Permutations(Keys)
=============================================================================

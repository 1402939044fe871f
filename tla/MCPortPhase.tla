---------------------------- MODULE MCPortPhase ----------------------------
(* Five targets in plan order, every host live, nothing settled before:    *)
(* two for a pool, two for a raw scanner, and one nobody claims.           *)
EXTENDS PortPhase

CONSTANTS raw, pool

MCWalks == {<<1, 2, 3, 4, 5>>}
MCRouteOf == <<pool, raw, pool, raw, None>>

FirstSitting ==
  /\ PhaseInit
  /\ ~shuffled /\ earlier = {} /\ live = Positions

MCSpec == FirstSitting /\ [][PhaseNext]_phaseVars /\ PhaseFairness

(* Unroutable addresses are met at the last target only, exclusions never. *)
MCBound == barred = {} /\ unroutable \subseteq {Total}
============================================================================

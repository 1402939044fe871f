------------------------------ MODULE MCRawScan ------------------------------
(* Two ports of one host, with room for one and for both; where the        *)
(* neighbour is asked for in frames, with room for one.                    *)
EXTENDS RawScan, TLC

MCHostOf == [p \in Probes |-> "h"]
Alike == Permutations(Probes)

MCInit == Init /\ (setup.watch = "frames" => setup.unresolved = 1)
MCSpec == MCInit /\ [][Next]_vars

(* An error that names an attempt does, when it is read, what one that     *)
(* names none does, or nothing: the ones that name none stand for all.     *)
MCBound ==
  \A i \in DOMAIN rx : rx[i].kind = "own unreachable" => rx[i].token = NoToken
=============================================================================

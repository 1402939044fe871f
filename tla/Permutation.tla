---------------------------- MODULE Permutation ----------------------------
(***************************************************************************)
(* The order a plan's targets are asked in, src/model/order.rs: a Feistel  *)
(* network over the smallest square domain that holds `len' positions,     *)
(* walked until it lands inside.  The bit mixer of a round is any          *)
(* function: `mix[r][v]' is what round r mixes into the other half, after  *)
(* its mask.                                                               *)
(***************************************************************************)
EXTENDS Integers, Bitwise, SequencesExt

ROUNDS == 4

(* Half the width of the domain, in bits: the width of len - 1 rounded up  *)
(* to even, halved.                                                        *)
half_width(len) ==
  IF len <= 1 THEN 0
  ELSE CHOOSE h \in 1 .. len :
         /\ len <= 4 ^ h
         /\ h = 1 \/ 4 ^ (h - 1) < len

\* Every way a seed may mix halves of h bits.
Mixes(h) == [0 .. ROUNDS - 1 -> [0 .. 2 ^ h - 1 -> 0 .. 2 ^ h - 1]]

Halves(h, value) == <<value \div 2 ^ h, value % 2 ^ h>>
Joined(h, lr) == lr[1] * 2 ^ h + lr[2]

\* Permutation::round_trip: each round is (l, r) -> (r, l ^ f(r)).
RoundTrip(mix, h, value) ==
  Joined(h, FoldLeft(LAMBDA lr, round : <<lr[2], lr[1] ^^ mix[round][lr[2]]>>,
                     Halves(h, value), <<0, 1, 2, 3>>))

\* Variant for a mutation: the rounds are undone in the order they were done.
RoundTripBackForwards(mix, h, value) ==
  Joined(h, FoldLeft(LAMBDA lr, round : <<lr[2] ^^ mix[round][lr[1]], lr[1]>>,
                     Halves(h, value), <<0, 1, 2, 3>>))

\* Permutation::round_trip_back: the rounds in reverse, (l, r) -> (r ^ f(l), l).
RoundTripBack(mix, h, value) ==
  Joined(h, FoldLeft(LAMBDA lr, round : <<lr[2] ^^ mix[round][lr[1]], lr[1]>>,
                     Halves(h, value), <<3, 2, 1, 0>>))

RECURSIVE Walk(_, _, _), Unwalk(_, _, _)

\* Permutation::walk: on through the network until it lands in the range.
Walk(mix, len, index) ==
  IF half_width(len) = 0 THEN index
  ELSE LET position == RoundTrip(mix, half_width(len), index)
       IN  IF position < len THEN position ELSE Walk(mix, len, position)

\* Permutation::unwalk: the same cycle traced back.
Unwalk(mix, len, position) ==
  IF half_width(len) = 0 THEN position
  ELSE LET index == RoundTripBack(mix, half_width(len), position)
       IN  IF index < len THEN index ELSE Unwalk(mix, len, index)

\* Permutation::iter, as the function from an index to the position it names.
OrderOf(mix, len) == [index \in 0 .. len - 1 |-> Walk(mix, len, index)]

\* Permutation::index_of, inside the range.
IndexOf(mix, len) == [position \in 0 .. len - 1 |-> Unwalk(mix, len, position)]
============================================================================

----------------------------- MODULE Remaining -----------------------------
(***************************************************************************)
(* What a resumed sitting still has to ask, read off the cursor file       *)
(* without walking the plan: Checkpoint::left_in of src/journal/cursor.rs  *)
(* and the two ways left_along has of finding it.                          *)
(*                                                                         *)
(* A plan numbers `total' positions host by host; a host is known by the   *)
(* first position of its run, so `starts' is the set of hosts.  A sweep,   *)
(* struct Alone, is the plan where every position starts a run.  A stretch *)
(* of positions is the pair of its first and the one past its last.        *)
(***************************************************************************)
EXTENDS Cursor, Permutation

CONSTANT MARKED_AT_MOST   \* the most hosts left_along marks in a bitmap

ASSUME MarkedAssumption == MARKED_AT_MOST \in Nat

(* What Permutation::at and Permutation::index_of answer for every seed,   *)
(* over the plan or less of it.                                            *)
Walks ==
  UNION {{[order |-> OrderOf(mix, len), index |-> IndexOf(mix, len)] :
            mix \in Mixes(half_width(len))} : len \in 0 .. Total}

Plans ==
  {plan \in [total : 0 .. Total, starts : SUBSET Positions] :
     /\ \A s \in plan.starts : s < plan.total
     /\ plan.total > 0 => 0 \in plan.starts}

\* HostRuns::host_of and HostRuns::run, of a TargetIndex and of Alone.
HostOf(plan, p) == Max({s \in plan.starts : s <= p})

RunOf(plan, host) ==
  <<host, Min({plan.total} \cup {s \in plan.starts : s > host})>>

Within(span) == span[1] .. span[2] - 1
Held(spans) == UNION {Within(span) : span \in ToSet(spans)}

Ascending(S) == SetToSortSeq(S, LAMBDA a, b : a < b)

\* Variant for a mutation: the gap after a listed position starts at it.
GapsFromListed(c, from, total) ==
  LET step(acc, settled) ==
        IF settled < acc.from THEN acc
        ELSE [spans |-> Append(acc.spans, <<acc.from, Least(settled, total)>>),
              from |-> settled]
      done == FoldLeft(step, [spans |-> <<>>, from |-> from],
                       Ascending(c.settled_above))
  IN  SelectSeq(Append(done.spans, <<done.from, total>>), LAMBDA s : s[1] < s[2])

\* Checkpoint::gaps_from: the gaps between the listed positions.
GapsFrom(c, from, total) ==
  LET step(acc, settled) ==
        IF settled < acc.from THEN acc
        ELSE [spans |-> Append(acc.spans, <<acc.from, Least(settled, total)>>),
              from |-> settled + 1]
      done == FoldLeft(step, [spans |-> <<>>, from |-> from],
                       Ascending(c.settled_above))
  IN  SelectSeq(Append(done.spans, <<done.from, total>>), LAMBDA s : s[1] < s[2])

\* fn extend, over hosts in plan order: runs that meet are joined.
Merged(plan, hosts) ==
  LET extend(spans, host) ==
        LET run == RunOf(plan, host)
        IN  IF spans # <<>> /\ Last(spans)[2] = run[1]
              THEN [spans EXCEPT ![Len(spans)][2] = run[2]]
              ELSE Append(spans, run)
  IN  FoldLeft(extend, <<>>, Ascending(hosts))

\* The hosts left_along reads: from the one the watermark stands in.
HostsPast(c, plan) == {s \in plan.starts : s >= HostOf(plan, c.watermark)}

\* Variant for a mutation: the run the watermark stands in is cut there.
HostByHostCut(c, plan) ==
  LET unsettled(p) ==
        /\ p >= c.watermark
        /\ p \notin c.settled_above
        /\ p \notin Covered(c.order, ClampedReached(c))
      spans == Merged(plan, {s \in HostsPast(c, plan) :
                               \E p \in Within(RunOf(plan, s)) : unsettled(p)})
  IN  [i \in DOMAIN spans |-> <<Max({spans[i][1], c.watermark}), spans[i][2]>>]

\* fn host_by_host, asked of each position whether the file leaves it.
HostByHost(c, plan) ==
  LET unsettled(p) ==
        /\ p >= c.watermark
        /\ p \notin c.settled_above
        /\ p \notin Covered(c.order, ClampedReached(c))
  IN  Merged(plan, {s \in HostsPast(c, plan) :
                      \E p \in Within(RunOf(plan, s)) : unsettled(p)})

\* fn marked, over the walk's tail and what the walk does not number.
AlongTheTail(c, plan) ==
  LET tail == {c.order[i] : i \in {j \in DOMAIN c.order : j >= ClampedReached(c)}}
      named == {p \in tail : /\ p >= c.watermark /\ p < plan.total
                             /\ p \notin c.settled_above}
      past == IF WalkLen(c.order) < c.watermark THEN c.watermark ELSE WalkLen(c.order)
      unwalked == Held(GapsFrom(c, past, plan.total))
  IN  Merged(plan, {HostOf(plan, p) : p \in named \cup unwalked})

\* fn reads_the_tail: the cheaper way, within the bitmap's bound.
ReadsTheTail(c, plan) ==
  LET tail == WalkLen(c.order) - ClampedReached(c)
      hosts == Cardinality(HostsPast(c, plan))
  IN  /\ tail * tail < hosts * (plan.total - c.watermark)
      /\ hosts <= MARKED_AT_MOST

\* Checkpoint::left_in, and left_along for a file counted along a walk.
LeftIn(c, plan) ==
  IF c.order = NoWalk THEN GapsFrom(c, c.watermark, plan.total)
  ELSE IF c.watermark >= plan.total THEN <<>>
  ELSE IF ReadsTheTail(c, plan) THEN AlongTheTail(c, plan)
  ELSE HostByHost(c, plan)
----------------------------------------------------------------------------
(* A resumed sitting asks again about every position the file does not     *)
(* settle and sweeps no host whose every position it settles; the          *)
(* stretches it reads ascend and hold something, for any file and any      *)
(* numbering, a walk shorter or longer than the plan included.             *)
ResumeAsksWhatIsLeft ==
  \A plan \in Plans :
    LET spans == LeftIn(saved, plan)
        left == {p \in 0 .. plan.total - 1 : p \notin SavedSettled}
    IN  /\ left \subseteq Held(spans)
        /\ \A p \in Held(spans) : \E q \in left : HostOf(plan, q) = HostOf(plan, p)
        /\ \A i \in DOMAIN spans : spans[i][1] < spans[i][2]
        /\ \A i, j \in DOMAIN spans : i < j => spans[i][2] < spans[j][1]

(* The two ways of reading a walked file find the same stretches, so which *)
(* one its size makes cheaper decides nothing else.                        *)
BothWaysAgree ==
  saved.order # NoWalk =>
    \A plan \in Plans :
      saved.watermark < plan.total =>
        AlongTheTail(saved, plan) = HostByHost(saved, plan)

(* The order a file names by its seed is read back exactly: whatever the   *)
(* mixer does, the index a position is asked at is the one that names it,  *)
(* so what the walk covers is what a position's index says it covers.      *)
IndexReadsTheOrderBack ==
  \A walk \in Walks :
    walk.order = saved.order =>
      \A i \in DOMAIN walk.order : walk.index[walk.order[i]] = i
============================================================================

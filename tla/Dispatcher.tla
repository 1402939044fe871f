---------------------------- MODULE Dispatcher ----------------------------
(***************************************************************************)
(* The walk that hands a port scan its targets, src/scanner/dispatcher.rs: *)
(* a task that passes over the targets it need not ask, settling those it  *)
(* can, and sends the rest in batches down a bounded channel, until the    *)
(* plan is walked, the scan stops or the receiver is gone.  What a stop    *)
(* leaves is counted as unreached.                                         *)
(*                                                                         *)
(* A target is its position in the plan.  Meanwhile the scan may be        *)
(* stopped, hosts found to be excluded machines, addresses filed           *)
(* unroutable, and the consumer takes targets, settles them or hangs up.   *)
(***************************************************************************)
EXTENDS Integers, Sequences, FiniteSets, Functions

CONSTANTS
  Total,       \* targets of the plan
  Walks,       \* permutations of the plan a seed may name
  BatchSize

Positions == 1 .. Total
PlanOrder == [i \in Positions |-> i]

(* A sequence with its i-th element taken out.                              *)
Without(s, i) == SubSeq(s, 1, i - 1) \o SubSeq(s, i + 1, Len(s))

ASSUME PlanAssumption ==
  /\ Total \in Nat /\ BatchSize \in Nat \ {0}
  /\ \A w \in Walks : w \in Seq(Positions) /\ Len(w) = Total /\ Range(w) = Positions

VARIABLES
  stream,      \* what the walk yields, in order
  shuffled,    \* no seed: each batch is shuffled
  earlier,     \* the checkpoint resumed from
  live,        \* targets at hosts that answered, all of them if not screened
  silent,      \* targets at hosts asked and not heard from
  barred,      \* targets that may not be asked
  wpc, at, batch,
  accounted,   \* the walk's count of targets it disposed of
  unreached,   \* ScanContext's count
  settled,     \* Settlements
  unroutable,  \* history: what record_unroutable settled
  emitted,     \* history: what reached the channel
  chan,        \* the channel
  listening,   \* whether its receiver is there
  stop         \* ScanHandle

plan == <<stream, shuffled, earlier, live, silent>>
counts == <<accounted, unreached>>
vars == <<plan, barred, wpc, at, batch, counts, settled, unroutable, emitted,
          chan, listening, stop>>

TypeOK ==
  /\ stream \in Seq(Positions) /\ shuffled \in BOOLEAN
  /\ earlier \subseteq Positions
  /\ live \subseteq Positions /\ silent \subseteq Positions
  /\ barred \subseteq Positions
  /\ wpc \in {"look", "place", "drain", "check", "ended"}
  /\ at \in 1 .. Len(stream) + 1
  /\ batch \in Seq(Positions) /\ Len(batch) <= BatchSize
  /\ accounted \in 0 .. Total /\ unreached \in 0 .. Total
  /\ settled \subseteq Positions /\ unroutable \subseteq settled
  /\ emitted \in Seq(Positions)
  /\ chan \in Seq(Positions) /\ Len(chan) <= 2 * BatchSize
  /\ listening \in BOOLEAN /\ stop \in BOOLEAN

\* Every target an earlier sitting did not settle.
Owed == Positions \ earlier

(* The permutation from as far along it as an earlier sitting's watermark  *)
(* got, everything before being settled.                                   *)
Streams ==
  {[walk |-> SubSeq(w, n + 1, Total), over |-> Range(SubSeq(w, 1, n))] :
     w \in Walks, n \in 0 .. Total}

Init ==
  /\ \E s \in Streams, hold \in SUBSET Positions :
       \/ /\ stream = s.walk /\ shuffled = FALSE
          /\ earlier = s.over \cup hold
       \/ stream = PlanOrder /\ shuffled = TRUE /\ earlier = hold
  /\ live \in SUBSET Positions
  /\ silent \in SUBSET (Positions \ live)
  /\ barred = {} /\ settled = earlier /\ unroutable = {}
  /\ wpc = "look" /\ at = 1 /\ batch = <<>>
  /\ accounted = 0 /\ unreached = 0
  /\ emitted = <<>> /\ chan = <<>> /\ listening = TRUE
  /\ stop \in BOOLEAN
----------------------------------------------------------------------------
Planned == stream[at]
PassesOver == Planned \in earlier \cup barred \cup (Positions \ live)

\* Variant for a mutation: the count of what is left is of the whole plan.
StoppedShortOfThePlan ==
  /\ unreached' = unreached + (Total - accounted)
  /\ wpc' = "ended" /\ batch' = <<>>
  /\ UNCHANGED accounted

(* What is owed and not accounted for is unreached, and the batch dropped. *)
(* (The subtraction saturates; TypeOK says it never has to.)               *)
StoppedShort ==
  /\ unreached' = unreached + (Cardinality(Owed) - accounted)
  /\ wpc' = "ended" /\ batch' = <<>>
  /\ UNCHANGED accounted

\* Variant for a mutation: a target passed over ends the walk.
LookAndLeave ==
  /\ wpc = "look" /\ at <= Len(stream)
  /\ IF PassesOver
       THEN StoppedShort
       ELSE wpc' = "place" /\ UNCHANGED <<batch, counts>>
  /\ UNCHANGED <<plan, barred, at, settled, unroutable, emitted, chan,
                 listening, stop>>

(* The stop is read on each target the walk would pass over.               *)
Look ==
  /\ wpc = "look" /\ at <= Len(stream)
  /\ IF PassesOver /\ stop
       THEN StoppedShort
       ELSE wpc' = "place" /\ UNCHANGED <<batch, counts>>
  /\ UNCHANGED <<plan, barred, at, settled, unroutable, emitted, chan,
                 listening, stop>>

Passed ==
  /\ wpc = "place"
  /\ at' = at + 1 /\ wpc' = "look"
  /\ UNCHANGED <<plan, barred, batch, unroutable, emitted, chan, listening, stop>>

PassSettled ==
  /\ Passed
  /\ Planned \in earlier
  /\ UNCHANGED <<counts, settled>>

(* may_ask, asked a second time: Outcome::Withheld.                        *)
PassWithheld ==
  /\ Passed
  /\ Planned \in barred \ earlier
  /\ settled' = settled \cup {Planned}
  /\ accounted' = accounted + 1
  /\ UNCHANGED unreached

(* Screened out: settled already, Outcome::Skipped or Outcome::Undecided.  *)
PassScreened ==
  /\ Passed
  /\ Planned \notin earlier \cup barred \cup live
  /\ accounted' = accounted + 1
  /\ IF Planned \in silent \cup settled
       THEN settled' = settled \cup {Planned} /\ UNCHANGED unreached
       ELSE unreached' = unreached + 1 /\ UNCHANGED settled

(* To be asked: the batch is sent once full.                               *)
Place ==
  /\ wpc = "place"
  /\ Planned \in live \ (earlier \cup barred)
  /\ batch' = Append(batch, Planned)
  /\ at' = at + 1
  /\ wpc' = IF Len(batch') >= BatchSize THEN "drain" ELSE "look"
  /\ UNCHANGED <<plan, barred, counts, settled, unroutable, emitted, chan,
                 listening, stop>>

(* The end of the plan: what is left of a batch is sent.                   *)
Flush ==
  /\ wpc = "look" /\ at > Len(stream)
  /\ wpc' = "drain"
  /\ UNCHANGED <<plan, barred, at, batch, counts, settled, unroutable, emitted,
                 chan, listening, stop>>

\* Variant for a mutation: a send leaves its target in the batch.
SendAgain ==
  /\ wpc = "drain" /\ batch # <<>> /\ listening
  /\ Len(chan) < 2 * BatchSize
  /\ \E i \in IF shuffled THEN DOMAIN batch ELSE {1} :
       /\ chan' = Append(chan, batch[i])
       /\ emitted' = Append(emitted, batch[i])
       /\ batch' = IF Len(emitted) = 0 THEN batch ELSE Without(batch, i)
  /\ accounted' = accounted + 1
  /\ wpc' = "check"
  /\ UNCHANGED <<plan, barred, at, unreached, settled, unroutable, listening, stop>>

(* drain waits for room in the channel, shuffling where nothing else has.  *)
Send ==
  /\ wpc = "drain" /\ batch # <<>> /\ listening
  /\ Len(chan) < 2 * BatchSize
  /\ \E i \in IF shuffled THEN DOMAIN batch ELSE {1} :
       /\ chan' = Append(chan, batch[i])
       /\ emitted' = Append(emitted, batch[i])
       /\ batch' = Without(batch, i)
  /\ accounted' = accounted + 1
  /\ wpc' = "check"
  /\ UNCHANGED <<plan, barred, at, unreached, settled, unroutable, listening, stop>>

\* Variant for a mutation: a send to a receiver that is gone is waited on.
SendWaits ==
  /\ wpc = "drain" /\ batch # <<>> /\ ~listening /\ stop
  /\ StoppedShort
  /\ UNCHANGED <<plan, barred, at, settled, unroutable, emitted, chan,
                 listening, stop>>

SendFails ==
  /\ wpc = "drain" /\ batch # <<>> /\ ~listening
  /\ StoppedShort
  /\ UNCHANGED <<plan, barred, at, settled, unroutable, emitted, chan,
                 listening, stop>>

(* The stop is read after each send.                                       *)
Check ==
  /\ wpc = "check"
  /\ IF stop THEN StoppedShort
             ELSE wpc' = "drain" /\ UNCHANGED <<batch, counts>>
  /\ UNCHANGED <<plan, barred, at, settled, unroutable, emitted, chan,
                 listening, stop>>

Drained ==
  /\ wpc = "drain" /\ batch = <<>>
  /\ wpc' = IF at > Len(stream) THEN "ended" ELSE "look"
  /\ UNCHANGED <<plan, barred, at, batch, counts, settled, unroutable, emitted,
                 chan, listening, stop>>

Walk ==
  \/ Look \/ PassSettled \/ PassWithheld \/ PassScreened \/ Place
  \/ Flush \/ Send \/ SendFails \/ Check \/ Drained
----------------------------------------------------------------------------
walk == <<plan, wpc, at, batch, counts, emitted>>

(* ScanHandle::abort, or the budget runs out.                              *)
Stop ==
  /\ ~stop /\ stop' = TRUE
  /\ UNCHANGED <<walk, barred, settled, unroutable, chan, listening>>

(* A reply or the neighbour tables tie an address to an excluded machine.  *)
Bar(p) ==
  /\ p \notin barred
  /\ barred' = barred \cup {p}
  /\ UNCHANGED <<walk, settled, unroutable, chan, listening, stop>>

(* record_unroutable settles what has no verdict of its own at an address. *)
FileUnroutable(p) ==
  /\ p \notin settled
  /\ settled' = settled \cup {p}
  /\ unroutable' = unroutable \cup {p}
  /\ UNCHANGED <<walk, barred, chan, listening, stop>>

(* The consumer receives a target.                                         *)
Take ==
  /\ listening /\ chan # <<>>
  /\ chan' = Tail(chan)
  /\ UNCHANGED <<walk, barred, settled, unroutable, listening, stop>>

(* It settles one it has received.                                         *)
Settle(p) ==
  /\ p \in Range(emitted) \ Range(chan)
  /\ settled' = settled \cup {p}
  /\ UNCHANGED <<walk, barred, unroutable, chan, listening, stop>>

(* It drops the receiver.                                                  *)
HangUp ==
  /\ listening
  /\ listening' = FALSE /\ chan' = <<>>
  /\ UNCHANGED <<walk, barred, settled, unroutable, stop>>

Next ==
  \/ Walk \/ Stop \/ Take \/ HangUp
  \/ \E p \in Positions : Bar(p) \/ FileUnroutable(p) \/ Settle(p)

Spec == Init /\ [][Next]_vars

(* The runtime polls the walk, and no consumer leaves a target waiting in  *)
(* the channel for ever: it takes it or goes.                              *)
Fairness == WF_vars(Walk) /\ WF_vars(chan # <<>> /\ (Take \/ HangUp))

FairSpec == Spec /\ Fairness
----------------------------------------------------------------------------
(* No target is asked twice in a sitting, none that an earlier sitting     *)
(* settled, and none at a host that did not answer: what is numbered is    *)
(* walked once whether permuted or shuffled, from wherever a walk resumes. *)
EmittedOnce ==
  /\ IsInjective(emitted)
  /\ Range(emitted) \cap earlier = {}
  /\ Range(emitted) \subseteq live

\* Owed targets neither emitted nor settled.
Unaccounted == Owed \ (Range(emitted) \cup settled)

(* The count of unreached targets covers everything the walk neither       *)
(* emitted nor settled, however it ended, and is exact where nothing was   *)
(* filed unroutable: the phase's tally adds up to the plan.                *)
TallyAddsUp ==
  wpc = "ended" =>
    /\ unreached >= Cardinality(Unaccounted)
    /\ unroutable = {} => unreached = Cardinality(Unaccounted)

(* Only a stop or a receiver that is gone leaves a target behind: an owed  *)
(* target is asked, settled, or at a host the liveness pass did not decide.*)
WalkedWhole ==
  wpc = "ended" /\ ~stop /\ listening =>
    \A p \in Unaccounted : p \notin live \cup silent

(* The walk ends: no full channel, receiver that is gone or stop at any    *)
(* point leaves it waiting.                                                *)
WalkEnds == <>(wpc = "ended")
============================================================================

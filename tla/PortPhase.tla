----------------------------- MODULE PortPhase -----------------------------
(***************************************************************************)
(* A port phase: the walk of Dispatcher, the router of                     *)
(* src/scanner/strategy/composite.rs that gives each target to the scanner *)
(* of its protocol, and the scanners themselves, raw ones run by `drive'   *)
(* of strategy/ports.rs and connect ones over the pool of                  *)
(* src/scanner/pool.rs.  Three bounded channels' worth of targets, any end *)
(* of which may go first.                                                  *)
(*                                                                         *)
(* A send on a bounded channel takes a permit and then pushes: a push      *)
(* whose permit was taken before the receiver closed still succeeds.  How  *)
(* a scanner reaches a verdict is left out; that it records one is not.    *)
(* So are a connect scan's slow-path askings, which revise what was        *)
(* recorded: see `again' in strategy/connect.rs.                           *)
(***************************************************************************)
EXTENDS Dispatcher

CONSTANTS
  Scanners,
  Raw,           \* the scanners run by `drive'; the others are pools
  RouteOf,       \* the scanner that claims each target, or None
  RouteDepth,
  Limit,         \* most targets a scanner has in flight
  None

ASSUME RoutingAssumption ==
  /\ Raw \subseteq Scanners /\ None \notin Scanners
  /\ RouteOf \in [Positions -> Scanners \cup {None}]
  /\ RouteDepth \in Nat \ {0} /\ Limit \in Nat \ {0}

VARIABLES
  rpc, carried,  \* the router, and the target in its hands
  route,         \* each scanner's channel
  open,          \* scanners whose channel is not closed
  spc,           \* where each scanner stands
  hand,          \* the target a pool's scanner waits to admit
  asking,        \* targets each has in flight, or held for their host
  heldBack,      \* ports of each pool a hold-down kept back
  panicked,      \* targets whose probe panicked
  recorded       \* how often an outcome was recorded for each target

router == <<rpc, carried>>
scanners == <<route, open, spc, hand, asking, heldBack, panicked, recorded>>
phaseVars == <<vars, router, scanners>>

PhaseTypeOK ==
  /\ TypeOK
  /\ rpc \in {"drop", "recv", "route", "push", "ended", "dropped"}
  /\ carried \in Positions \cup {None}
  /\ route \in [Scanners -> Seq(Positions)]
  /\ \A s \in Scanners : Len(route[s]) <= RouteDepth
  /\ open \subseteq Scanners
  /\ spc \in [Scanners -> {"refuse", "run", "admit", "interrupt", "close",
                           "drain", "pool", "again", "readmit", "done"}]
  /\ hand \in [Scanners -> Positions \cup {None}]
  /\ asking \in [Scanners -> SUBSET Positions]
  /\ \A s \in Scanners : Cardinality(asking[s]) <= Limit
  /\ heldBack \in [Scanners -> SUBSET Positions]
  /\ panicked \subseteq Positions
  /\ recorded \in [Positions -> Nat]

(* A phase stopped before it starts opens no scanner: the walk is spawned, *)
(* unscreened, and its receiver dropped.  A raw scanner whose capture      *)
(* cannot hear the answers refuses its whole plan.                         *)
PhaseInit ==
  /\ Init
  /\ stop => live = Positions
  /\ rpc = (IF stop THEN "drop" ELSE "recv") /\ carried = None
  /\ route = [s \in Scanners |-> <<>>]
  /\ open = Scanners
  /\ \E mismatched \in SUBSET Raw :
       spc = [s \in Scanners |-> IF stop THEN "done"
                ELSE IF s \in mismatched THEN "refuse" ELSE "run"]
  /\ hand = [s \in Scanners |-> None]
  /\ asking = [s \in Scanners |-> {}]
  /\ heldBack = [s \in Scanners |-> {}]
  /\ panicked = {}
  /\ recorded = [p \in Positions |-> 0]

DropReceiver ==
  /\ rpc = "drop"
  /\ HangUp
  /\ rpc' = "dropped"
  /\ UNCHANGED <<carried, scanners>>
----------------------------------------------------------------------------
Records(p) == recorded' = [recorded EXCEPT ![p] = @ + 1]

\* Variant for a mutation: all that is queued is received, and its first routed.
RouterTakesAll ==
  /\ rpc = "recv" /\ listening /\ chan # <<>>
  /\ chan' = <<>>
  /\ carried' = Head(chan) /\ rpc' = "route"
  /\ UNCHANGED <<walk, barred, settled, unroutable, listening, stop, scanners>>

RouterTakes ==
  /\ rpc = "recv"
  /\ Take
  /\ carried' = Head(chan) /\ rpc' = "route"
  /\ UNCHANGED scanners

(* Outcome::Unroutable where no scanner claims the target, and Unasked     *)
(* where the one that does has closed its channel.                         *)
Undeliverable ==
  /\ rpc = "route"
  /\ RouteOf[carried] \notin open
  /\ Records(carried)
  /\ rpc' = "recv" /\ carried' = None
  /\ UNCHANGED <<vars, route, open, spc, hand, asking, heldBack, panicked>>

(* The send waits for room, and takes a permit.                            *)
Permit ==
  /\ rpc = "route"
  /\ RouteOf[carried] \in open
  /\ Len(route[RouteOf[carried]]) < RouteDepth
  /\ rpc' = "push"
  /\ UNCHANGED <<vars, carried, scanners>>

(* Past the permit the send succeeds, whether or not anyone still reads.   *)
Push ==
  /\ rpc = "push"
  /\ route' = [route EXCEPT ![RouteOf[carried]] = Append(@, carried)]
  /\ rpc' = "recv" /\ carried' = None
  /\ UNCHANGED <<vars, open, spc, hand, asking, heldBack, panicked, recorded>>

(* The stream is over: the routes are dropped and the scanners awaited.    *)
RouterEnds ==
  /\ rpc = "recv" /\ chan = <<>> /\ wpc = "ended"
  /\ rpc' = "ended"
  /\ UNCHANGED <<vars, carried, scanners>>

Router == RouterTakes \/ Undeliverable \/ Permit \/ Push \/ RouterEnds
----------------------------------------------------------------------------
Goes(s, from, to) == spc[s] = from /\ spc' = [spc EXCEPT ![s] = to]
Pops(s) == route[s] # <<>> /\ route' = [route EXCEPT ![s] = Tail(@)]

(* A raw scanner takes a target while it has room, and asks it.            *)
Ask(s) ==
  /\ s \in Raw /\ spc[s] = "run"
  /\ Cardinality(asking[s]) < Limit
  /\ Pops(s)
  /\ asking' = [asking EXCEPT ![s] = @ \cup {Head(route[s])}]
  /\ UNCHANGED <<vars, router, open, spc, hand, heldBack, panicked, recorded>>

(* A pool's takes one, reads the stop, and waits for room.                 *)
TakeInHand(s) ==
  /\ s \notin Raw /\ ~stop
  /\ Goes(s, "run", "admit")
  /\ Pops(s)
  /\ hand' = [hand EXCEPT ![s] = Head(route[s])]
  /\ UNCHANGED <<vars, router, open, asking, heldBack, panicked, recorded>>

\* A first asking has its room in the pool, or a second one.
Admits(s) == Goes(s, "admit", "run") \/ Goes(s, "readmit", "again")

\* Variant for a mutation: a full pool admits one more.
AdmitOverLimit(s) ==
  /\ Cardinality(asking[s]) <= Limit
  /\ Admits(s)
  /\ asking' = [asking EXCEPT ![s] = @ \cup {hand[s]}]
  /\ hand' = [hand EXCEPT ![s] = None]
  /\ UNCHANGED <<vars, router, route, open, heldBack, panicked, recorded>>

\* Variant for a mutation: a pool of one has no room.
AdmitUnderLimit(s) ==
  /\ Cardinality(asking[s]) < Limit - 1
  /\ Admits(s)
  /\ asking' = [asking EXCEPT ![s] = @ \cup {hand[s]}]
  /\ hand' = [hand EXCEPT ![s] = None]
  /\ UNCHANGED <<vars, router, route, open, heldBack, panicked, recorded>>

Admit(s) ==
  /\ Cardinality(asking[s]) < Limit
  /\ Admits(s)
  /\ asking' = [asking EXCEPT ![s] = @ \cup {hand[s]}]
  /\ hand' = [hand EXCEPT ![s] = None]
  /\ UNCHANGED <<vars, router, route, open, heldBack, panicked, recorded>>

(* The target's host has spent its budget, or the scanner refuses its      *)
(* plan: recorded unasked.                                                 *)
Unasked(s) ==
  /\ \/ spc[s] = "refuse"
     \/ spc[s] = "run" /\ IF s \in Raw THEN Cardinality(asking[s]) < Limit ELSE ~stop
  /\ Pops(s)
  /\ Records(Head(route[s]))
  /\ UNCHANGED <<vars, router, open, spc, hand, asking, heldBack, panicked>>

\* `drive' reads replies and timers as it runs; a pool reaps when it is full,
\* to admit another, and when it is drained.
Reaping(s) ==
  IF s \in Raw THEN spc[s] = "run"
  ELSE \/ spc[s] = "pool"
       \/ spc[s] = "again" /\ heldBack[s] = {}
       \/ spc[s] \in {"admit", "readmit"} /\ Cardinality(asking[s]) = Limit

(* A verdict, which settles the target, or none, which leaves it owed.     *)
Resolve(s, p) ==
  /\ p \in asking[s] /\ Reaping(s)
  /\ asking' = [asking EXCEPT ![s] = @ \ {p}]
  /\ Records(p)
  /\ Settle(p) \/ UNCHANGED vars
  /\ UNCHANGED <<router, route, open, spc, hand, heldBack, panicked>>

(* The kernel refused a pool's connect for a hold-down on the host's       *)
(* neighbour: the port gives up its room and nothing is recorded yet.  At  *)
(* its second asking the host would be given up, so it is kept back once.  *)
HoldDown(s, p) ==
  /\ p \in asking[s] /\ spc[s] \in {"admit", "pool"} /\ Reaping(s)
  /\ asking' = [asking EXCEPT ![s] = @ \ {p}]
  /\ heldBack' = [heldBack EXCEPT ![s] = @ \cup {p}]
  /\ UNCHANGED <<vars, router, route, open, spc, hand, panicked, recorded>>

(* A pool's probe panicked: counted, and its target has no outcome.        *)
Panic(s, p) ==
  /\ p \in asking[s] /\ s \notin Raw /\ Reaping(s)
  /\ asking' = [asking EXCEPT ![s] = @ \ {p}]
  /\ panicked' = panicked \cup {p}
  /\ UNCHANGED <<vars, router, route, open, spc, hand, heldBack, recorded>>

(* `drive' leaves its loop: its deadline passed, its capture closed.       *)
RawStops(s) ==
  /\ s \in Raw
  /\ Goes(s, "run", "interrupt")
  /\ UNCHANGED <<vars, router, route, open, hand, asking, heldBack, panicked, recorded>>

StreamOver(s) == rpc = "ended" /\ route[s] = <<>>

(* Or the scan was stopped, or nothing is left to send or wait for.        *)
RawFinishes(s) == RawStops(s) /\ (stop \/ (StreamOver(s) /\ asking[s] = {}))

RefuseEnds(s) ==
  /\ StreamOver(s)
  /\ Goes(s, "refuse", "done")
  /\ UNCHANGED <<vars, router, route, open, hand, asking, heldBack, panicked, recorded>>

(* resolve_remaining and resolve_held: Interrupted, or Unasked.            *)
Interrupt(s) ==
  /\ Goes(s, "interrupt", "close")
  /\ recorded' = [p \in Positions |->
                    IF p \in asking[s] THEN recorded[p] + 1 ELSE recorded[p]]
  /\ asking' = [asking EXCEPT ![s] = {}]
  /\ UNCHANGED <<vars, router, route, open, hand, heldBack, panicked>>

(* A pool's scanner reads the stop once it has a target in hand, which it  *)
(* records unasked, or reaches the end of its stream.                      *)
PoolStops(s) ==
  /\ s \notin Raw
  /\ Goes(s, "run", "close")
  /\ \/ stop /\ Pops(s) /\ Records(Head(route[s]))
     \/ StreamOver(s) /\ UNCHANGED <<route, recorded>>
  /\ UNCHANGED <<vars, router, open, hand, asking, heldBack, panicked>>

Close(s) ==
  /\ Goes(s, "close", "drain")
  /\ open' = open \ {s}
  /\ UNCHANGED <<vars, router, route, hand, asking, heldBack, panicked, recorded>>

\* Variant for a mutation: what is still queued is dropped.
DrainDropping(s) ==
  /\ spc[s] = "drain"
  /\ Pops(s)
  /\ UNCHANGED <<vars, router, open, spc, hand, asking, heldBack, panicked, recorded>>

(* What is still queued is recorded unasked.                               *)
Drain(s) ==
  /\ spc[s] = "drain"
  /\ Pops(s)
  /\ Records(Head(route[s]))
  /\ UNCHANGED <<vars, router, open, spc, hand, asking, heldBack, panicked>>

(* try_recv finds nothing.                                                 *)
DrainEnds(s) ==
  /\ route[s] = <<>>
  /\ Goes(s, "drain", IF s \in Raw THEN "done" ELSE "pool")
  /\ UNCHANGED <<vars, router, route, open, hand, asking, heldBack, panicked, recorded>>

(* ProbePool::drain awaits what is in flight.                              *)
PoolDrained(s) ==
  /\ asking[s] = {}
  /\ Goes(s, "pool", "again")
  /\ UNCHANGED <<vars, router, route, open, hand, asking, heldBack, panicked, recorded>>

(* HeldPorts::ask_again: once the hold-downs have passed, each port kept   *)
(* back is asked again through the pool.                                   *)
AskAgain(s) ==
  /\ ~stop
  /\ Goes(s, "again", "readmit")
  /\ \E p \in heldBack[s] :
       /\ hand' = [hand EXCEPT ![s] = p]
       /\ heldBack' = [heldBack EXCEPT ![s] = @ \ {p}]
  /\ UNCHANGED <<vars, router, route, open, asking, panicked, recorded>>

(* Or, the scan stopped or its host past its budget, recorded unasked.     *)
HeldUnasked(s) ==
  /\ spc[s] = "again"
  /\ \E p \in heldBack[s] :
       /\ Records(p)
       /\ heldBack' = [heldBack EXCEPT ![s] = @ \ {p}]
  /\ UNCHANGED <<vars, router, route, open, spc, hand, asking, panicked>>

(* The pool is drained once more, and none is left.                        *)
AskedAgain(s) ==
  /\ heldBack[s] = {} /\ asking[s] = {}
  /\ Goes(s, "again", "done")
  /\ UNCHANGED <<vars, router, route, open, hand, asking, heldBack, panicked, recorded>>

(* What a scanner does of itself, and will.                                *)
Scanner(s) ==
  \/ Ask(s) \/ TakeInHand(s) \/ Admit(s)
  \/ (\E p \in Positions : Resolve(s, p))
  \/ (spc[s] = "refuse" /\ Unasked(s)) \/ RefuseEnds(s)
  \/ RawFinishes(s) \/ Interrupt(s) \/ PoolStops(s)
  \/ Close(s) \/ Drain(s) \/ DrainEnds(s) \/ PoolDrained(s)
  \/ AskAgain(s) \/ (stop /\ HeldUnasked(s)) \/ AskedAgain(s)

(* What may happen to it.                                                  *)
Mishap(s) ==
  \/ Unasked(s) \/ RawStops(s) \/ HeldUnasked(s)
  \/ (\E p \in Positions : Panic(s, p) \/ HoldDown(s, p))
----------------------------------------------------------------------------
Around ==
  \/ Walk \/ Stop
  \/ \E p \in Positions : Bar(p) \/ FileUnroutable(p)

PhaseNext ==
  \/ Around /\ UNCHANGED <<router, scanners>>
  \/ DropReceiver \/ Router
  \/ \E s \in Scanners : Scanner(s) \/ Mishap(s)

PhaseSpec == PhaseInit /\ [][PhaseNext]_phaseVars

(* The runtime polls every task; a probe's wait is bounded, so it resolves.*)
PhaseFairness ==
  /\ WF_phaseVars(Walk /\ UNCHANGED <<router, scanners>>)
  /\ WF_phaseVars(DropReceiver \/ Router)
  /\ \A s \in Scanners : WF_phaseVars(Scanner(s))

FairPhaseSpec == PhaseSpec /\ PhaseFairness
----------------------------------------------------------------------------
PhaseOver ==
  /\ wpc = "ended" /\ rpc \in {"ended", "dropped"}
  /\ \A s \in Scanners : spc[s] = "done"

\* Pushed behind a scanner's back, or into a channel that was dropped.
Slipped ==
  (UNION {Range(route[s]) : s \in {s \in Scanners : spc[s] = "done"}})
    \cup (IF rpc = "dropped" THEN Range(emitted) ELSE {})

(* Whoever stops first, and whatever a hold-down keeps back to be asked    *)
(* again, no target's outcome is recorded twice, and at the end every      *)
(* target the walk emitted has had one recorded, but for those whose probe *)
(* panicked and those that slipped in behind a closing receiver.           *)
RecordedOnce ==
  /\ \A p \in Positions : recorded[p] <= 1
  /\ PhaseOver =>
       \A p \in Range(emitted) \ (panicked \cup Slipped) : recorded[p] = 1

(* The phase is the consumer Dispatcher assumes: whatever its scanners do, *)
(* no target waits in the walk's channel for ever, and nothing is settled  *)
(* that was not first received.                                            *)
ImplementsDispatcher == FairSpec

(* "Closed first, so the router cannot slip a target in behind the drain": *)
(* a scanner that is done leaves nothing in its channel.                   *)
NothingSlipsBehind ==
  \A s \in Scanners : spc[s] = "done" => route[s] = <<>>

(* The phase ends: no task waits for another that waits for it, whichever  *)
(* scanner stops reading and whichever channel is full.                    *)
PhaseEnds == <>PhaseOver
============================================================================

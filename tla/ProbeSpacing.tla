--------------------------- MODULE ProbeSpacing ---------------------------
(***************************************************************************)
(* The gaps a scan keeps between the probes it sends, ProbeSpacing of      *)
(* src/scanner/session.rs: between two at one host and between any two.    *)
(* Any number of passes claim slots and give back those whose probe never  *)
(* left, concurrently.  A claim holds both clocks' locks and reads the     *)
(* time under them, so it is one step; a refund takes one lock and then    *)
(* the other, so it is two.  A claim that is told to wait changes nothing. *)
(***************************************************************************)
EXTENDS Integers

CONSTANTS
  Probes,      \* the probes of a scan, each claimed once
  Hosts,       \* the addresses they are aimed at
  per_host,    \* the gap at one host, or NoGap
  scan_wide,   \* the gap between any two, or NoGap
  NoGap,
  MaxNow       \* bound: how far the clock runs

VARIABLES
  now,             \* the clock
  last_anywhere,   \* the slot last taken on the scan's clock
  last_at_host,    \* the slot last taken on each host's
  probe            \* each probe: where it stands, and its ProbeClaim

vars == <<now, last_anywhere, last_at_host, probe>>

NoSlot == [taken |-> FALSE, at |-> 0, taken_before |-> FALSE, before |-> 0]
Slots == [taken : BOOLEAN, at : Nat, taken_before : BOOLEAN, before : Nat]

(* "held": the claim was granted; "left": it was dropped, which spends it; *)
(* "half": given back on the scan's clock; "back": given back.             *)
States == {"new", "held", "left", "half", "back"}
Claims == [state : States, address : Hosts, at_host : BOOLEAN, at : Nat]

TypeOK ==
  /\ now \in Nat
  /\ last_anywhere \in Slots
  /\ last_at_host \in [Hosts -> Slots]
  /\ probe \in [Probes -> Claims]

Unclaimed == [state |-> "new", address |-> CHOOSE h \in Hosts : TRUE,
              at_host |-> FALSE, at |-> 0]

Init ==
  /\ now = 0
  /\ last_anywhere = NoSlot
  /\ last_at_host = [h \in Hosts |-> NoSlot]
  /\ probe = [p \in Probes |-> Unclaimed]

\* Slot::after
After(slot, t) ==
  [taken |-> TRUE, at |-> t, taken_before |-> slot.taken, before |-> slot.at]

\* Slot::ready_at, where the answer is now.
ReadyNow(slot, gap) == gap # NoGap /\ slot.taken => slot.at + gap <= now

\* Slot::refunded: a slot recorded over since is kept.
Refunded(slot, t) ==
  IF ~slot.taken \/ slot.at # t THEN slot
  ELSE [taken |-> slot.taken_before, at |-> slot.before,
        taken_before |-> FALSE, before |-> 0]
----------------------------------------------------------------------------
Tick ==
  /\ now < MaxNow
  /\ now' = now + 1
  /\ UNCHANGED <<last_anywhere, last_at_host, probe>>

(* ProbeSpacing::claim_on: a probe at a host takes a slot on both clocks,  *)
(* a frame to a group on the scan's alone.                                 *)
Claim(p, h, at_host) ==
  LET on_host == per_host # NoGap /\ at_host
  IN  /\ probe[p].state = "new"
      /\ ReadyNow(last_anywhere, scan_wide)
      /\ on_host => ReadyNow(last_at_host[h], per_host)
      /\ last_anywhere' = IF scan_wide = NoGap THEN last_anywhere
                          ELSE After(last_anywhere, now)
      /\ last_at_host' =
           IF on_host THEN [last_at_host EXCEPT ![h] = After(last_at_host[h], now)]
           ELSE last_at_host
      /\ probe' = [probe EXCEPT ![p] = [state |-> "held", address |-> h,
                                       at_host |-> at_host, at |-> now]]
      /\ UNCHANGED now

(* The claim is dropped: the probe left.                                   *)
Leave(p) ==
  /\ probe[p].state = "held"
  /\ probe' = [probe EXCEPT ![p].state = "left"]
  /\ UNCHANGED <<now, last_anywhere, last_at_host>>

(* ProbeSpacing::refund, on the scan's clock ...                           *)
RefundAnywhere(p) ==
  /\ probe[p].state = "held"
  /\ last_anywhere' = IF scan_wide = NoGap THEN last_anywhere
                      ELSE Refunded(last_anywhere, probe[p].at)
  /\ probe' = [probe EXCEPT ![p].state = "half"]
  /\ UNCHANGED <<now, last_at_host>>

(* ... and then on the host's.                                             *)
RefundAtHost(p) ==
  LET h == probe[p].address
  IN  /\ probe[p].state = "half"
      /\ last_at_host' =
           IF per_host # NoGap /\ probe[p].at_host
             THEN [last_at_host EXCEPT ![h] = Refunded(last_at_host[h], probe[p].at)]
             ELSE last_at_host
      /\ probe' = [probe EXCEPT ![p].state = "back"]
      /\ UNCHANGED <<now, last_anywhere>>

Next ==
  \/ Tick
  \/ \E p \in Probes, h \in Hosts, at_host \in BOOLEAN : Claim(p, h, at_host)
  \/ \E p \in Probes : Leave(p) \/ RefundAnywhere(p) \/ RefundAtHost(p)

Spec == Init /\ [][Next]_vars
----------------------------------------------------------------------------
\* The claims a probe may still leave, or has left, under.
Live(p) == probe[p].state \in {"held", "left"}

Apart(p, q, gap) ==
  probe[p].at + gap <= probe[q].at \/ probe[q].at + gap <= probe[p].at

(* Two probes let go at one host, or anywhere in the scan, are let go at   *)
(* least the gap apart, whichever passes sent them and whichever probes in *)
(* between were refused and gave their slots back, early or late.          *)
GapKept ==
  \A p, q \in Probes :
    p # q /\ Live(p) /\ Live(q) =>
      /\ scan_wide # NoGap => Apart(p, q, scan_wide)
      /\ per_host # NoGap /\ probe[p].at_host /\ probe[q].at_host
           /\ probe[p].address = probe[q].address
           => Apart(p, q, per_host)
============================================================================

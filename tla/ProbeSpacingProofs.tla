------------------------ MODULE ProbeSpacingProofs ------------------------
(***************************************************************************)
(* The gaps hold for any number of probes, hosts and passes, any two gaps  *)
(* and any order of claims and refunds.                                    *)
(***************************************************************************)
EXTENDS ProbeSpacing, TLAPS

(* The two gaps are durations, or the scan keeps none.                     *)
Durations ==
  /\ per_host \in Nat \cup {NoGap} /\ scan_wide \in Nat \cup {NoGap}
  /\ NoGap \notin Nat
  /\ Hosts # {}

(* A refund's two halves: the host's clock still holds the slot of a probe *)
(* given back on the scan's alone.                                         *)
OnScan(p) == scan_wide # NoGap /\ probe[p].state \in {"held", "left"}

OnHost(p, h) ==
  /\ per_host # NoGap /\ probe[p].state \in {"held", "left", "half"}
  /\ probe[p].at_host /\ probe[p].address = h

(* Why the next claim is late enough: a probe's slot is on the clock, or   *)
(* under a later one, or its gap has run.                                  *)
Guarded(p, slot, gap) ==
  probe[p].at + gap <= now \/ (slot.taken /\ probe[p].at <= slot.at)

ScanKept ==
  \A p \in Probes : OnScan(p) =>
    /\ Guarded(p, last_anywhere, scan_wide)
    /\ \A q \in Probes : p # q /\ OnScan(q) => Apart(p, q, scan_wide)

HostKept ==
  \A h \in Hosts, p \in Probes : OnHost(p, h) =>
    /\ Guarded(p, last_at_host[h], per_host)
    /\ \A q \in Probes : p # q /\ OnHost(q, h) => Apart(p, q, per_host)

IInv ==
  /\ TypeOK
  /\ \A p \in Probes : probe[p].at <= now
  /\ ScanKept
  /\ HostKept

LEMMA Initially == Durations /\ Init => IInv
<1> SUFFICES ASSUME Durations, Init PROVE IInv
  OBVIOUS
<1>1. NoSlot \in Slots
  BY DEF NoSlot, Slots
<1>2. Unclaimed \in Claims
  BY DEF Durations, Unclaimed, Claims, States
<1>3. TypeOK
  BY <1>1, <1>2 DEF Init, TypeOK
<1>4. \A p \in Probes : probe[p].state = "new" /\ probe[p].at = 0
  BY DEF Init, Unclaimed
<1> QED
  BY <1>3, <1>4 DEF IInv, Init, ScanKept, HostKept, OnScan, OnHost

(* The clock running on only lets gaps run out.                            *)
LEMMA Ticking == Durations /\ IInv /\ Tick => IInv'
<1> SUFFICES ASSUME Durations, IInv, Tick PROVE IInv'
  OBVIOUS
<1>1. /\ now' = now + 1 /\ now \in Nat
      /\ last_anywhere' = last_anywhere /\ last_at_host' = last_at_host
      /\ probe' = probe
  BY DEF Tick, IInv, TypeOK
<1>2. TypeOK' /\ \A p \in Probes : probe'[p].at \in Nat /\ probe'[p].at <= now'
  BY <1>1 DEF IInv, TypeOK, Claims
<1>3. ASSUME NEW p \in Probes, NEW slot, NEW gap \in Nat, Guarded(p, slot, gap)
      PROVE  probe'[p].at + gap <= now' \/ (slot.taken /\ probe'[p].at <= slot.at)
  BY <1>1, <1>2, <1>3 DEF Guarded
<1>4. ScanKept'
  BY <1>1, <1>3 DEF IInv, ScanKept, OnScan, Durations, Apart, Guarded
<1>5. HostKept'
  BY <1>1, <1>3 DEF IInv, HostKept, OnHost, Durations, Apart, Guarded
<1> QED
  BY <1>2, <1>4, <1>5 DEF IInv

LEMMA SlotTypes ==
  /\ \A slot \in Slots, t \in Nat : After(slot, t) \in Slots
  /\ \A slot \in Slots, t \in Nat : Refunded(slot, t) \in Slots
  BY DEF Slots, After, Refunded

(* A claim is granted only once the gap of every slot it goes over has     *)
(* run, and its own slot then stands over them.                            *)
LEMMA Claiming ==
  ASSUME Durations, IInv, NEW p \in Probes, NEW h \in Hosts,
         NEW at_host \in BOOLEAN, Claim(p, h, at_host)
  PROVE  IInv'
<1> DEFINE claim == [state |-> "held", address |-> h, at_host |-> at_host, at |-> now]
<1>1. /\ now' = now /\ now \in Nat
      /\ probe[p].state = "new"
      /\ probe' = [probe EXCEPT ![p] = claim]
  BY DEF Claim, IInv, TypeOK
<1>2. claim \in Claims
  BY <1>1 DEF Claims, States
<1>3. /\ probe' \in [Probes -> Claims]
      /\ probe'[p] = claim
      /\ \A q \in Probes : q # p => probe'[q] = probe[q]
  BY <1>1, <1>2 DEF IInv, TypeOK
<1>4. last_anywhere' \in Slots /\ last_at_host' \in [Hosts -> Slots]
  BY <1>1, SlotTypes DEF Claim, IInv, TypeOK
<1>5. \A q \in Probes : probe[q].at \in Nat /\ probe[q].at <= now
  BY DEF IInv, TypeOK, Claims
<1>6. TypeOK' /\ \A q \in Probes : probe'[q].at <= now'
  BY <1>1, <1>3, <1>4, <1>5 DEF TypeOK
<1>7. ScanKept'
  <2>1. CASE scan_wide = NoGap
    BY <2>1 DEF ScanKept, OnScan
  <2>2. CASE scan_wide # NoGap
    <3>1. scan_wide \in Nat /\ last_anywhere \in Slots
      BY <2>2 DEF Durations, IInv, TypeOK
    <3>2. last_anywhere.taken => last_anywhere.at \in Nat /\ last_anywhere.at + scan_wide <= now
      BY <2>2, <3>1 DEF Claim, ReadyNow, Slots
    <3>3. last_anywhere'.taken /\ last_anywhere'.at = now
      BY <2>2 DEF Claim, After
    <3>4. ASSUME NEW q \in Probes, q # p, OnScan(q)
          PROVE  probe[q].at + scan_wide <= now
      BY <3>1, <3>2, <3>4, <1>1, <1>5 DEF IInv, ScanKept, Guarded
    <3>5. \A q \in Probes : q # p => (OnScan(q)' <=> OnScan(q))
      BY <1>3 DEF OnScan
    <3>6. ASSUME NEW q \in Probes, OnScan(q)'
          PROVE  Guarded(q, last_anywhere, scan_wide)'
      BY <3>3, <3>6, <1>1, <1>3, <1>5 DEF Guarded
    <3>7. ASSUME NEW q \in Probes, NEW r \in Probes, q # r, OnScan(q)', OnScan(r)'
          PROVE  Apart(q, r, scan_wide)'
      <4>1. CASE q # p /\ r # p
        BY <4>1, <3>5, <3>7, <1>3 DEF IInv, ScanKept, Apart
      <4>2. CASE q = p \/ r = p
        BY <4>2, <3>4, <3>5, <3>7, <1>3 DEF Apart
      <4> QED
        BY <4>1, <4>2
    <3> QED
      BY <3>6, <3>7 DEF ScanKept
  <2> QED
    BY <2>1, <2>2
<1>8. HostKept'
  <2> SUFFICES ASSUME NEW g \in Hosts, NEW q \in Probes, OnHost(q, g)'
               PROVE  /\ Guarded(q, last_at_host[g], per_host)'
                      /\ \A r \in Probes : q # r /\ OnHost(r, g)'
                                             => Apart(q, r, per_host)'
    BY DEF HostKept
  <2>1. per_host \in Nat /\ per_host # NoGap /\ last_at_host \in [Hosts -> Slots]
    BY DEF OnHost, Durations, IInv, TypeOK
  <2>2. \A r \in Probes : r # p => (OnHost(r, g)' <=> OnHost(r, g))
    BY <1>3 DEF OnHost
  <2>3. CASE g = h /\ at_host
    <3>1. last_at_host[h] \in Slots
      BY <2>1
    <3>2. last_at_host[h].taken =>
            last_at_host[h].at \in Nat /\ last_at_host[h].at + per_host <= now
      BY <2>1, <2>3, <3>1 DEF Claim, ReadyNow, Slots
    <3>3. last_at_host'[g].taken /\ last_at_host'[g].at = now
      BY <2>1, <2>3 DEF Claim, After
    <3>4. ASSUME NEW r \in Probes, r # p, OnHost(r, g)
          PROVE  probe[r].at + per_host <= now
      BY <2>1, <2>3, <3>2, <3>4, <1>1, <1>5 DEF IInv, HostKept, Guarded
    <3>5. Guarded(q, last_at_host[g], per_host)'
      BY <3>3, <1>1, <1>3, <1>5 DEF Guarded
    <3>6. ASSUME NEW r \in Probes, q # r, OnHost(r, g)'
          PROVE  Apart(q, r, per_host)'
      <4>1. CASE q # p /\ r # p
        BY <4>1, <2>2, <3>6, <1>3 DEF IInv, HostKept, Apart
      <4>2. CASE q = p \/ r = p
        BY <4>2, <2>2, <3>4, <3>6, <1>3 DEF Apart
      <4> QED
        BY <4>1, <4>2
    <3> QED
      BY <3>5, <3>6
  <2>4. CASE ~(g = h /\ at_host)
    <3>1. last_at_host'[g] = last_at_host[g]
      BY <2>1, <2>4 DEF Claim
    <3>2. ~OnHost(p, g)'
      BY <2>4, <1>3 DEF OnHost
    <3>3. q # p /\ OnHost(q, g)
      BY <2>2, <3>2
    <3>4. Guarded(q, last_at_host[g], per_host)'
      BY <3>1, <3>3, <1>1, <1>3 DEF IInv, HostKept, Guarded
    <3>5. \A r \in Probes : q # r /\ OnHost(r, g)' => Apart(q, r, per_host)'
      BY <2>2, <3>2, <3>3, <1>3 DEF IInv, HostKept, Apart
    <3> QED
      BY <3>4, <3>5
  <2> QED
    BY <2>3, <2>4
<1> QED
  BY <1>6, <1>7, <1>8 DEF IInv

(* A probe whose state alone moves keeps its claim.                        *)
LEMMA Moved ==
  ASSUME IInv, NEW p \in Probes, NEW state \in States,
         probe' = [probe EXCEPT ![p].state = state], now' = now
  PROVE  /\ probe' \in [Probes -> Claims]
         /\ \A q \in Probes :
              /\ probe'[q].at = probe[q].at
              /\ probe'[q].at_host = probe[q].at_host
              /\ probe'[q].address = probe[q].address
              /\ q # p => probe'[q].state = probe[q].state
              /\ probe[q].at \in Nat /\ probe[q].at <= now
         /\ probe'[p].state = state
<1>1. probe \in [Probes -> Claims]
  BY DEF IInv, TypeOK
<1>2. [probe[p] EXCEPT !.state = state] \in Claims
  BY <1>1 DEF Claims
<1>3. /\ probe' \in [Probes -> Claims]
      /\ probe'[p] = [probe[p] EXCEPT !.state = state]
      /\ \A q \in Probes : q # p => probe'[q] = probe[q]
  BY <1>1, <1>2
<1>4. /\ probe'[p].at = probe[p].at
      /\ probe'[p].at_host = probe[p].at_host
      /\ probe'[p].address = probe[p].address
      /\ probe'[p].state = state
  BY <1>1, <1>3 DEF Claims
<1>5. \A q \in Probes : probe[q].at \in Nat /\ probe[q].at <= now
  BY <1>1 DEF IInv, Claims
<1> QED
  BY <1>3, <1>4, <1>5

(* The scan's clock, when fewer probes hold a slot on it and none has lost *)
(* what guarded it.                                                        *)
LEMMA ScanStays ==
  ASSUME ScanKept,
         \A q \in Probes : probe'[q].at = probe[q].at,
         \A q \in Probes : OnScan(q)' => OnScan(q),
         \A q \in Probes : OnScan(q)' => Guarded(q, last_anywhere, scan_wide)'
  PROVE  ScanKept'
  BY DEF ScanKept, Apart

(* The same for the hosts' clocks.                                         *)
LEMMA HostStays ==
  ASSUME HostKept,
         \A q \in Probes : probe'[q].at = probe[q].at,
         \A h \in Hosts, q \in Probes : OnHost(q, h)' => OnHost(q, h),
         \A h \in Hosts, q \in Probes :
           OnHost(q, h)' => Guarded(q, last_at_host[h], per_host)'
  PROVE  HostKept'
  BY DEF HostKept, Apart

(* A claim dropped goes on holding its slots.                              *)
LEMMA Leaving ==
  ASSUME Durations, IInv, NEW p \in Probes, Leave(p)
  PROVE  IInv'
<1>1. /\ probe' = [probe EXCEPT ![p].state = "left"]
      /\ probe[p].state = "held"
      /\ now' = now /\ last_anywhere' = last_anywhere
      /\ last_at_host' = last_at_host
  BY DEF Leave
<1>2. "left" \in States
  BY DEF States
<1>3. \A q \in Probes : OnScan(q)' => OnScan(q)
  BY <1>1, <1>2, Moved DEF OnScan
<1>4. \A h \in Hosts, q \in Probes : OnHost(q, h)' => OnHost(q, h)
  BY <1>1, <1>2, Moved DEF OnHost
<1>5. ScanKept'
  BY <1>1, <1>2, <1>3, Moved, ScanStays DEF IInv, ScanKept, Guarded
<1>6. HostKept'
  BY <1>1, <1>2, <1>4, Moved, HostStays DEF IInv, HostKept, Guarded
<1> QED
  BY <1>1, <1>2, <1>5, <1>6, Moved DEF IInv, TypeOK

(* A slot given back uncovers none whose gap has not run: the claim that   *)
(* took it waited that gap out.                                            *)
LEMMA RefundingAnywhere ==
  ASSUME Durations, IInv, NEW p \in Probes, RefundAnywhere(p)
  PROVE  IInv'
<1>1. /\ probe' = [probe EXCEPT ![p].state = "half"]
      /\ probe[p].state = "held"
      /\ now' = now /\ now \in Nat
      /\ last_at_host' = last_at_host
  BY DEF RefundAnywhere, IInv, TypeOK
<1>2. "half" \in States
  BY DEF States
<1>3. \A q \in Probes : OnScan(q)' => OnScan(q) /\ q # p
  BY <1>1, <1>2, Moved DEF OnScan
<1>4. \A h \in Hosts, q \in Probes : OnHost(q, h)' => OnHost(q, h)
  BY <1>1, <1>2, Moved DEF OnHost
<1>5. last_anywhere' \in Slots
  BY <1>1, <1>2, Moved, SlotTypes DEF RefundAnywhere, IInv, TypeOK
<1>6. ASSUME NEW q \in Probes, OnScan(q)'
      PROVE  Guarded(q, last_anywhere, scan_wide)'
  <2>1. /\ scan_wide # NoGap /\ scan_wide \in Nat
        /\ OnScan(q) /\ q # p /\ OnScan(p)
    BY <1>1, <1>3, <1>6 DEF OnScan, Durations
  <2>2. Guarded(q, last_anywhere, scan_wide) /\ Apart(p, q, scan_wide)
    BY <2>1 DEF IInv, ScanKept
  <2>3. last_anywhere' = Refunded(last_anywhere, probe[p].at)
    BY <2>1 DEF RefundAnywhere
  <2>4. CASE ~last_anywhere.taken \/ last_anywhere.at # probe[p].at
    BY <2>2, <2>3, <2>4, <1>1, <1>2, Moved DEF Refunded, Guarded
  <2>5. CASE last_anywhere.taken /\ last_anywhere.at = probe[p].at
    <3>1. /\ probe[q].at \in Nat /\ probe[p].at \in Nat /\ probe[p].at <= now
          /\ probe'[q].at = probe[q].at
      BY <1>1, <1>2, Moved
    <3>2. probe[q].at + scan_wide <= now
      BY <2>1, <2>2, <2>5, <3>1, <1>1 DEF Guarded, Apart
    <3> QED
      BY <3>1, <3>2, <1>1 DEF Guarded
  <2> QED
    BY <2>4, <2>5
<1>7. ScanKept'
  BY <1>1, <1>2, <1>3, <1>6, Moved, ScanStays DEF IInv
<1>8. HostKept'
  BY <1>1, <1>2, <1>4, Moved, HostStays DEF IInv, HostKept, Guarded
<1> QED
  BY <1>1, <1>2, <1>5, <1>7, <1>8, Moved DEF IInv, TypeOK

(* The same on the host's clock, which another pass may have moved since.  *)
LEMMA RefundingAtHost ==
  ASSUME Durations, IInv, NEW p \in Probes, RefundAtHost(p)
  PROVE  IInv'
<1> DEFINE h == probe[p].address
<1>1. /\ probe' = [probe EXCEPT ![p].state = "back"]
      /\ probe[p].state = "half"
      /\ now' = now /\ now \in Nat
      /\ last_anywhere' = last_anywhere
      /\ last_at_host \in [Hosts -> Slots]
      /\ h \in Hosts /\ probe[p].at_host \in BOOLEAN
  BY DEF RefundAtHost, IInv, TypeOK, Claims
<1>2. "back" \in States
  BY DEF States
<1>3. \A q \in Probes : OnScan(q)' => OnScan(q)
  BY <1>1, <1>2, Moved DEF OnScan
<1>4. \A g \in Hosts, q \in Probes : OnHost(q, g)' => OnHost(q, g) /\ q # p
  BY <1>1, <1>2, Moved DEF OnHost
<1>5. last_at_host' \in [Hosts -> Slots]
  BY <1>1, <1>2, Moved, SlotTypes DEF RefundAtHost
<1>6. ASSUME NEW g \in Hosts, NEW q \in Probes, OnHost(q, g)'
      PROVE  Guarded(q, last_at_host[g], per_host)'
  <2>1. /\ per_host # NoGap /\ per_host \in Nat /\ OnHost(q, g) /\ q # p
    BY <1>4, <1>6 DEF OnHost, Durations
  <2>2. Guarded(q, last_at_host[g], per_host)
    BY <2>1 DEF IInv, HostKept
  <2>3. CASE ~probe[p].at_host \/ g # h
    <3>1. last_at_host'[g] = last_at_host[g]
      BY <2>1, <2>3, <1>1 DEF RefundAtHost
    <3> QED
      BY <2>2, <3>1, <1>1, <1>2, Moved DEF Guarded
  <2>4. CASE probe[p].at_host /\ g = h
    <3>1. last_at_host'[g] = Refunded(last_at_host[g], probe[p].at)
      BY <2>1, <2>4, <1>1 DEF RefundAtHost
    <3>2. OnHost(p, g)
      BY <2>1, <2>4, <1>1 DEF OnHost
    <3>3. Apart(p, q, per_host)
      BY <2>1, <3>2 DEF IInv, HostKept
    <3>4. /\ probe[q].at \in Nat /\ probe[p].at \in Nat /\ probe[p].at <= now
          /\ probe'[q].at = probe[q].at
      BY <1>1, <1>2, Moved
    <3>5. CASE ~last_at_host[g].taken \/ last_at_host[g].at # probe[p].at
      BY <2>2, <3>1, <3>4, <3>5, <1>1 DEF Refunded, Guarded
    <3>6. CASE last_at_host[g].taken /\ last_at_host[g].at = probe[p].at
      <4>1. probe[q].at + per_host <= now
        BY <2>1, <2>2, <3>3, <3>4, <3>6, <1>1 DEF Guarded, Apart
      <4> QED
        BY <3>4, <4>1, <1>1 DEF Guarded
    <3> QED
      BY <3>5, <3>6
  <2> QED
    BY <2>3, <2>4
<1>7. ScanKept'
  BY <1>1, <1>2, <1>3, Moved, ScanStays DEF IInv, ScanKept, Guarded
<1>8. HostKept'
  BY <1>1, <1>2, <1>4, <1>6, Moved, HostStays DEF IInv
<1> QED
  BY <1>1, <1>2, <1>5, <1>7, <1>8, Moved DEF IInv, TypeOK

LEMMA Preserved == Durations /\ IInv /\ [Next]_vars => IInv'
<1> SUFFICES ASSUME Durations, IInv, [Next]_vars PROVE IInv'
  OBVIOUS
<1>1. CASE Tick
  BY <1>1, Ticking
<1>2. CASE \E p \in Probes, h \in Hosts, at_host \in BOOLEAN : Claim(p, h, at_host)
  BY <1>2, Claiming
<1>3. CASE \E p \in Probes : Leave(p) \/ RefundAnywhere(p) \/ RefundAtHost(p)
  BY <1>3, Leaving, RefundingAnywhere, RefundingAtHost
<1>4. CASE UNCHANGED vars
  BY <1>4
  DEF vars, IInv, TypeOK, ScanKept, HostKept, OnScan, OnHost, Guarded, Apart
<1> QED
  BY <1>1, <1>2, <1>3, <1>4 DEF Next

(* Whatever gaps a scan keeps, two probes let go at one host, or anywhere, *)
(* are the gap apart: a claim checks and records under one lock, and a     *)
(* refund gives back only a slot nothing was recorded over.                *)
THEOREM GapAlwaysKept ==
  ASSUME Durations
  PROVE  Spec => []GapKept
<1>1. IInv => GapKept
  BY DEF IInv, TypeOK, Claims, ScanKept, HostKept, OnScan, OnHost, GapKept, Live
<1>2. Init => IInv
  BY Initially
<1>3. IInv /\ [Next]_vars => IInv'
  BY Preserved
<1> QED
  BY <1>1, <1>2, <1>3, PTL DEF Spec
============================================================================

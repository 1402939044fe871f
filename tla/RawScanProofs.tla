--------------------------- MODULE RawScanProofs ---------------------------
(***************************************************************************)
(* Whatever the probes, hosts, budgets and bounds, the raw scan's loop     *)
(* loses no target and settles none twice, accounts for its window's slots *)
(* exactly, leaves no outstanding probe without what moves it on, and      *)
(* reads silence only where it was earned.                                 *)
(*                                                                         *)
(* The ledger's operations come first: what each makes of a sound ledger.  *)
(* A step of the loop then is one of a few moves of one probe between the  *)
(* stream, the held, the ledger and the settled, or moves none.            *)
(***************************************************************************)
EXTENDS RawScan, FiniteSetTheorems, TLAPS

\* What the ledger knows of one probe: no timer is of a generation still to
\* come, and an outstanding probe has been charged for the sends it made and
\* the ones it missed, and for the one it waits to make when its clock is
\* stopped, which it is exactly when it has no live timer.
Sound(l, p) ==
    LET r == l.records[p]
    IN  /\ \A g \in Nat : <<p, g>> \in l.timers => g <= l.generations[p]
        /\ r.sends > 0 =>
              /\ r.recorded >= 1
              /\ r.deferred => r.sends = r.recorded + r.missed + 1
              /\ ~r.deferred => r.sends = r.recorded + r.missed
              /\ r.deferred <=> <<p, r.generation>> \notin l.timers

Ledgered(l) == l \in Ledger /\ \A p \in Probes : Sound(l, p)

\* A step of the ledger about p leaves the other probes alone.
Only(l, m, p) ==
    \A q \in Probes \ {p} :
        /\ m.records[q] = l.records[q]
        /\ m.generations[q] = l.generations[q]
        /\ \A g \in Nat : <<q, g>> \in m.timers <=> <<q, g>> \in l.timers

LEMMA OthersSound ==
    ASSUME NEW l, NEW m \in Ledger, NEW p \in Probes, Ledgered(l), Only(l, m, p), Sound(m, p)
    PROVE  Ledgered(m)
<1> SUFFICES ASSUME NEW q \in Probes, q # p
             PROVE  Sound(m, q)
  BY Zenon DEF Ledgered
<1>1. Sound(l, q)
  BY Zenon DEF Ledgered
<1>2. m.records[q] \in Record
  BY Zenon DEF Ledger
<1>3. m.records[q].generation \in Nat
  BY Zenon, <1>2 DEF Record
<1> QED
  BY Zenon, <1>1, <1>3 DEF Sound, Only

\* A ledger's fields, and an updated one's.
LEMMA Fields ==
    ASSUME NEW l \in Ledger
    PROVE  /\ l.records \in [Probes -> Record]
           /\ l.timers \in SUBSET (Probes \X Nat)
           /\ l.generations \in [Probes -> Nat]
           /\ l.wire \in [Probes -> Nat]
           /\ l.hosts \in [Hosts -> HostState]
  BY Zenon DEF Ledger

\* What Scheduled and Unscheduled make of each field.
LEMMA ScheduledFields ==
    ASSUME NEW l \in Ledger, NEW p \in Probes, NEW r \in Record
    PROVE  LET s == Scheduled(l, p, r)
               g == l.generations[p] + 1
           IN  /\ s \in Ledger
               /\ s.records = [l.records EXCEPT ![p] = [r EXCEPT !.generation = g]]
               /\ s.timers = l.timers \cup {<<p, g>>}
               /\ s.generations = [l.generations EXCEPT ![p] = g]
               /\ s.wire = l.wire /\ s.hosts = l.hosts
<1> DEFINE s == Scheduled(l, p, r)
           g == l.generations[p] + 1
<1>1. s = [l EXCEPT !.generations[p] = g,
                    !.records[p] = [r EXCEPT !.generation = g],
                    !.timers = @ \cup {<<p, g>>}]
  BY Zenon DEF Scheduled, NextGeneration
<1>2. DOMAIN l = {"records", "timers", "generations", "wire", "hosts"}
  BY Zenon DEF Ledger
<1>3. s.records = [l.records EXCEPT ![p] = [r EXCEPT !.generation = g]]
  BY <1>1, <1>2, Zenon
<1>4. s.timers = l.timers \cup {<<p, g>>}
  BY <1>1, <1>2, Zenon
<1>5. s.generations = [l.generations EXCEPT ![p] = g]
  BY <1>1, <1>2, Zenon
<1>6. s.wire = l.wire /\ s.hosts = l.hosts
  BY <1>1, <1>2, Zenon
<1>7. g \in Nat /\ [r EXCEPT !.generation = g] \in Record
  BY Fields DEF Record
<1>8. /\ [l.records EXCEPT ![p] = [r EXCEPT !.generation = g]] \in [Probes -> Record]
      /\ l.timers \cup {<<p, g>>} \in SUBSET (Probes \X Nat)
      /\ [l.generations EXCEPT ![p] = g] \in [Probes -> Nat]
  BY <1>7, Fields
<1>9. s = [records |-> s.records, timers |-> s.timers, generations |-> s.generations,
           wire |-> s.wire, hosts |-> s.hosts]
  BY Zenon, <1>1, <1>2
<1>10. s \in Ledger
  BY Zenon, <1>3, <1>4, <1>5, <1>6, <1>8, <1>9, Fields DEF Ledger
<1> QED
  BY Zenon, <1>3, <1>4, <1>5, <1>6, <1>10

LEMMA UnscheduledFields ==
    ASSUME NEW l \in Ledger, NEW p \in Probes, NEW r \in Record
    PROVE  LET s == Unscheduled(l, p, r)
               g == l.generations[p] + 1
           IN  /\ s \in Ledger
               /\ s.records = [l.records EXCEPT ![p] = [r EXCEPT !.generation = g]]
               /\ s.timers = l.timers
               /\ s.generations = [l.generations EXCEPT ![p] = g]
               /\ s.wire = l.wire /\ s.hosts = l.hosts
<1> DEFINE s == Unscheduled(l, p, r)
           g == l.generations[p] + 1
<1>1. s = [l EXCEPT !.generations[p] = g,
                    !.records[p] = [r EXCEPT !.generation = g]]
  BY Zenon DEF Unscheduled, NextGeneration
<1>2. DOMAIN l = {"records", "timers", "generations", "wire", "hosts"}
  BY Zenon DEF Ledger
<1>3. s.records = [l.records EXCEPT ![p] = [r EXCEPT !.generation = g]]
  BY <1>1, <1>2, Zenon
<1>4. s.timers = l.timers
  BY <1>1, <1>2, Zenon
<1>5. s.generations = [l.generations EXCEPT ![p] = g]
  BY <1>1, <1>2, Zenon
<1>6. s.wire = l.wire /\ s.hosts = l.hosts
  BY <1>1, <1>2, Zenon
<1>7. g \in Nat /\ [r EXCEPT !.generation = g] \in Record
  BY Fields DEF Record
<1>8. /\ [l.records EXCEPT ![p] = [r EXCEPT !.generation = g]] \in [Probes -> Record]
      /\ [l.generations EXCEPT ![p] = g] \in [Probes -> Nat]
  BY Zenon, <1>7, Fields
<1>9. s = [records |-> s.records, timers |-> s.timers, generations |-> s.generations,
           wire |-> s.wire, hosts |-> s.hosts]
  BY Zenon, <1>1, <1>2
<1>10. s \in Ledger
  BY Zenon, <1>3, <1>4, <1>5, <1>6, <1>8, <1>9, Fields DEF Ledger
<1> QED
  BY Zenon, <1>3, <1>4, <1>5, <1>6, <1>10

\* A record is a ledger when its fields are a ledger's.
LEMMA IsLedger ==
    ASSUME NEW l,
           l = [records |-> l.records, timers |-> l.timers, generations |-> l.generations,
                wire |-> l.wire, hosts |-> l.hosts],
           l.records \in [Probes -> Record], l.timers \in SUBSET (Probes \X Nat),
           l.generations \in [Probes -> Nat], l.wire \in [Probes -> Nat],
           l.hosts \in [Hosts -> HostState]
    PROVE  l \in Ledger
  BY Zenon DEF Ledger

\* What Sent, Removed and Popped make of each.
LEMMA SentFields ==
    ASSUME NEW l \in Ledger, NEW p \in Probes
    PROVE  LET s == Sent(l, p)
           IN  /\ s \in Ledger
               /\ s.records = l.records /\ s.timers = l.timers
               /\ s.generations = l.generations /\ s.hosts = l.hosts
<1> DEFINE s == Sent(l, p)
<1>1. DOMAIN l = {"records", "timers", "generations", "wire", "hosts"}
  BY Zenon DEF Ledger
<1>2. /\ s.records = l.records /\ s.timers = l.timers
      /\ s.generations = l.generations /\ s.hosts = l.hosts
      /\ s.wire = [l.wire EXCEPT ![p] = l.wire[p] + 1]
  BY <1>1, Zenon DEF Sent
<1>3. s = [records |-> s.records, timers |-> s.timers, generations |-> s.generations,
           wire |-> s.wire, hosts |-> s.hosts]
  BY <1>1 DEF Sent
<1>4. s.wire \in [Probes -> Nat]
  BY <1>2, Fields
<1> HIDE DEF s
<1>5. s \in Ledger
  BY Zenon, <1>2, <1>3, <1>4, Fields, IsLedger
<1> QED
  BY Zenon, <1>2, <1>5 DEF s

LEMMA NoRecord == NotOutstanding \in Record /\ NotOutstanding.sends = 0
  BY Zenon DEF NotOutstanding, Record

LEMMA RemovedFields ==
    ASSUME NEW l \in Ledger, NEW p \in Probes
    PROVE  LET s == Removed(l, p)
           IN  /\ s \in Ledger
               /\ s.records = [l.records EXCEPT ![p] = NotOutstanding]
               /\ s.timers = l.timers /\ s.generations = l.generations
               /\ s.hosts = l.hosts /\ s.wire = l.wire
<1> DEFINE s == Removed(l, p)
<1>1. DOMAIN l = {"records", "timers", "generations", "wire", "hosts"}
  BY Zenon DEF Ledger
<1>2. /\ s.records = [l.records EXCEPT ![p] = NotOutstanding]
      /\ s.timers = l.timers /\ s.generations = l.generations
      /\ s.hosts = l.hosts /\ s.wire = l.wire
  BY <1>1, Zenon DEF Removed
<1>3. s = [records |-> s.records, timers |-> s.timers, generations |-> s.generations,
           wire |-> s.wire, hosts |-> s.hosts]
  BY <1>1 DEF Removed
<1>4. s.records \in [Probes -> Record]
  BY <1>2, Fields, NoRecord
<1> HIDE DEF s
<1>5. s \in Ledger
  BY Zenon, <1>2, <1>3, <1>4, Fields, IsLedger
<1> QED
  BY Zenon, <1>2, <1>5 DEF s

\* An update of what is known of a host changes nothing else.
LEMMA HostField ==
    ASSUME NEW l \in Ledger, NEW h \in Hosts, NEW state \in HostState
    PROVE  LET s == [l EXCEPT !.hosts[h] = state]
           IN  /\ s \in Ledger
               /\ s.records = l.records /\ s.timers = l.timers
               /\ s.generations = l.generations
<1> DEFINE s == [l EXCEPT !.hosts[h] = state]
<1>1. DOMAIN l = {"records", "timers", "generations", "wire", "hosts"}
  BY Zenon DEF Ledger
<1>2. /\ s.records = l.records /\ s.timers = l.timers
      /\ s.generations = l.generations /\ s.wire = l.wire
      /\ s.hosts = [l.hosts EXCEPT ![h] = state]
  BY <1>1, Zenon
<1>3. s = [records |-> s.records, timers |-> s.timers, generations |-> s.generations,
           wire |-> s.wire, hosts |-> s.hosts]
  BY <1>1
<1>4. s.hosts \in [Hosts -> HostState]
  BY <1>2, Fields
<1> HIDE DEF s
<1>5. s \in Ledger
  BY Zenon, <1>2, <1>3, <1>4, Fields, IsLedger
<1> QED
  BY Zenon, <1>2, <1>5 DEF s

-----------------------------------------------------------------------------
(* The ledger's operations on a sound ledger. *)

\* The probe that an operation is about may be unsound half-way through it;
\* its timers stay of generations drawn already.
Midway(l, p) ==
    /\ l \in Ledger
    /\ \A q \in Probes \ {p} : Sound(l, q)
    /\ \A g \in Nat : <<p, g>> \in l.timers => g <= l.generations[p]

LEMMA SoundIsMidway ==
    ASSUME NEW l, Ledgered(l), NEW p \in Probes
    PROVE  Midway(l, p)
  BY Zenon DEF Ledgered, Midway, Sound

\* `s` differs from l about p alone.
LEMMA MidwayStep ==
    ASSUME NEW l, NEW s \in Ledger, NEW p \in Probes, Midway(l, p), Only(l, s, p),
           \A g \in Nat : <<p, g>> \in s.timers => g <= s.generations[p]
    PROVE  Midway(s, p)
<1> SUFFICES ASSUME NEW q \in Probes \ {p}
             PROVE  Sound(s, q)
  BY Zenon DEF Midway
<1>1. Sound(l, q)
  BY Zenon DEF Midway
<1>2. s.records[q].generation \in Nat
  BY Zenon, Fields DEF Record
<1> QED
  BY Zenon, <1>1, <1>2 DEF Sound, Only

LEMMA MidwaySound ==
    ASSUME NEW l, NEW p \in Probes, Midway(l, p), Sound(l, p)
    PROVE  Ledgered(l)
  BY Zenon DEF Midway, Ledgered

\* A started timer, its probe charged for as many attempts as it made or
\* missed.
LEMMA ScheduledSound ==
    ASSUME NEW l, NEW p \in Probes, NEW r \in Record, Midway(l, p)
    PROVE  LET s == Scheduled(l, p, r)
           IN  /\ Midway(s, p)
               /\ Only(l, s, p)
               /\ s.hosts = l.hosts
               /\ s.records[p] = [r EXCEPT !.generation = l.generations[p] + 1]
               /\ (~r.deferred /\ r.recorded >= 1 /\ r.sends = r.recorded + r.missed) =>
                     Ledgered(s)
<1> DEFINE s == Scheduled(l, p, r)
           g == l.generations[p] + 1
<1>0. l \in Ledger
  BY Zenon DEF Midway
<1>1. /\ s \in Ledger
      /\ s.records = [l.records EXCEPT ![p] = [r EXCEPT !.generation = g]]
      /\ s.timers = l.timers \cup {<<p, g>>}
      /\ s.generations = [l.generations EXCEPT ![p] = g]
      /\ s.wire = l.wire /\ s.hosts = l.hosts
  BY <1>0, ScheduledFields
<1> HIDE DEF s
<1>2. l.generations[p] \in Nat /\ l.generations \in [Probes -> Nat]
      /\ l.records \in [Probes -> Record]
  BY Zenon, <1>0, Fields
<1>3. /\ s.records[p] = [r EXCEPT !.generation = g]
      /\ s.generations[p] = g
      /\ \A q \in Probes \ {p} : s.records[q] = l.records[q]
                                 /\ s.generations[q] = l.generations[q]
  BY Zenon, <1>1, <1>2
<1>4. Only(l, s, p)
  BY Zenon, <1>1, <1>3 DEF Only
<1>5. \A k \in Nat : <<p, k>> \in s.timers => k <= s.generations[p]
  BY <1>1, <1>2, <1>3 DEF Midway
<1>6. Midway(s, p)
  BY Zenon, <1>1, <1>4, <1>5, MidwayStep
<1>7. ASSUME ~r.deferred, r.recorded >= 1, r.sends = r.recorded + r.missed
      PROVE  Ledgered(s)
  <2>1. /\ s.records[p].generation = g /\ s.records[p].deferred = r.deferred
        /\ s.records[p].recorded = r.recorded /\ s.records[p].missed = r.missed
        /\ s.records[p].sends = r.sends
    BY Zenon, <1>3 DEF Record
  <2>2. <<p, g>> \in s.timers
    BY Zenon, <1>1
  <2>3. Sound(s, p)
    BY Zenon, <1>5, <1>7, <2>1, <2>2 DEF Sound
  <2> QED
    BY Zenon, <1>6, <2>3, MidwaySound
<1> QED
  BY Zenon, <1>1, <1>3, <1>4, <1>6, <1>7 DEF s

\* A stopped clock: the timer that ran is of an older generation.
LEMMA UnscheduledSound ==
    ASSUME NEW l, NEW p \in Probes, NEW r \in Record, Midway(l, p),
           r.deferred, r.recorded >= 1, r.sends = r.recorded + r.missed + 1
    PROVE  LET s == Unscheduled(l, p, r)
           IN  /\ Ledgered(s)
               /\ Only(l, s, p)
               /\ s.hosts = l.hosts
               /\ s.records[p] = [r EXCEPT !.generation = l.generations[p] + 1]
<1> DEFINE s == Unscheduled(l, p, r)
           g == l.generations[p] + 1
<1>0. l \in Ledger
  BY Zenon DEF Midway
<1>1. /\ s \in Ledger
      /\ s.records = [l.records EXCEPT ![p] = [r EXCEPT !.generation = g]]
      /\ s.timers = l.timers
      /\ s.generations = [l.generations EXCEPT ![p] = g]
      /\ s.wire = l.wire /\ s.hosts = l.hosts
  BY Zenon, <1>0, UnscheduledFields
<1> HIDE DEF s
<1>2. l.generations[p] \in Nat /\ l.generations \in [Probes -> Nat]
      /\ l.records \in [Probes -> Record]
  BY Zenon, <1>0, Fields
<1>3. /\ s.records[p] = [r EXCEPT !.generation = g]
      /\ s.generations[p] = g
      /\ \A q \in Probes \ {p} : s.records[q] = l.records[q]
                                 /\ s.generations[q] = l.generations[q]
  BY <1>1, <1>2
<1>4. Only(l, s, p)
  BY Zenon, <1>1, <1>3 DEF Only
<1>5. \A k \in Nat : <<p, k>> \in s.timers => k <= l.generations[p]
  BY Zenon, <1>1 DEF Midway
<1>6. Midway(s, p)
  BY <1>1, <1>2, <1>3, <1>4, <1>5, MidwayStep
<1>7. /\ s.records[p].generation = g /\ s.records[p].deferred = r.deferred
      /\ s.records[p].recorded = r.recorded /\ s.records[p].missed = r.missed
      /\ s.records[p].sends = r.sends
  BY ZenonT(40), <1>3 DEF Record
<1>8. <<p, g>> \notin s.timers
  BY <1>2, <1>5
<1>9. Sound(s, p)
  BY <1>2, <1>3, <1>5, <1>7, <1>8 DEF Sound
<1> QED
  BY Zenon, <1>1, <1>3, <1>4, <1>6, <1>9, MidwaySound DEF s

\* A send changes the count of sends alone.
LEMMA SentMidway ==
    ASSUME NEW l, NEW p \in Probes, Ledgered(l)
    PROVE  /\ Midway(Sent(l, p), p) /\ Only(l, Sent(l, p), p)
           /\ Sent(l, p).generations = l.generations
<1>1. l \in Ledger
  BY Zenon DEF Ledgered
<1>2. /\ Sent(l, p) \in Ledger
      /\ Sent(l, p).records = l.records /\ Sent(l, p).timers = l.timers
      /\ Sent(l, p).generations = l.generations
  BY Zenon, <1>1, SentFields
<1> HIDE DEF Sent
<1>3. Only(l, Sent(l, p), p)
  BY Zenon, <1>2 DEF Only
<1>4. Midway(l, p)
  BY Zenon, SoundIsMidway
<1>5. Midway(Sent(l, p), p)
  BY Zenon, <1>2, <1>3, <1>4, MidwayStep DEF Midway
<1> QED
  BY Zenon, <1>2, <1>3, <1>5

LEMMA OnlyTwice ==
    ASSUME NEW l, NEW m, NEW n, NEW p \in Probes, Only(l, m, p), Only(m, n, p)
    PROVE  Only(l, n, p)
  BY Zenon DEF Only

LEMMA BudgetType ==
    ASSUME NEW l \in Ledger, NEW p \in Probes
    PROVE  BudgetFor(l.hosts[HostOf[p]]) \in Nat
  BY Zenon, LedgerAssumption DEF BudgetFor

\* arm puts a probe on the ledger with one attempt made and its timer live.
LEMMA ArmLedger ==
    ASSUME NEW l, NEW p \in Probes, Ledgered(l)
    PROVE  /\ Ledgered(Arm(l, p)) /\ Only(l, Arm(l, p), p)
           /\ Arm(l, p).records[p].sends = 1
           /\ ~Arm(l, p).records[p].deferred
<1> DEFINE r == [sends |-> 1, recorded |-> 1, base |-> l.wire[p],
                 budget |-> BudgetFor(l.hosts[HostOf[p]]), generation |-> 0,
                 deferred |-> FALSE, missed |-> 0]
           s == Sent(l, p)
<1>1. l \in Ledger
  BY Zenon DEF Ledgered
<1>2. r \in Record
  BY Zenon, <1>1, BudgetType, Fields DEF Record
<1>3. Midway(s, p) /\ Only(l, s, p)
  BY Zenon, SentMidway
<1>4. Arm(l, p) = Scheduled(s, p, r)
  BY Zenon DEF Arm
<1>5. ~r.deferred /\ r.recorded >= 1 /\ r.sends = r.recorded + r.missed /\ r.sends = 1
  OBVIOUS
<1> HIDE DEF r, s
<1>6. /\ Ledgered(Arm(l, p)) /\ Only(s, Arm(l, p), p)
      /\ Arm(l, p).records[p] = [r EXCEPT !.generation = s.generations[p] + 1]
  BY <1>2, <1>3, <1>4, <1>5, ScheduledSound
<1>7. /\ Arm(l, p).records[p].sends = r.sends
      /\ Arm(l, p).records[p].deferred = r.deferred
  BY Zenon, <1>2, <1>6 DEF Record
<1> QED
  BY Zenon, <1>3, <1>5, <1>6, <1>7, OnlyTwice

\* The updates of a record that the operations make.
LEMMA RecordUpdates ==
    ASSUME NEW r \in Record, NEW n \in Nat
    PROVE  /\ [r EXCEPT !.recorded = @ + 1, !.budget = n, !.deferred = FALSE] \in Record
           /\ [r EXCEPT !.deferred = FALSE, !.missed = @ + 1] \in Record
           /\ [r EXCEPT !.deferred = TRUE] \in Record
           /\ [r EXCEPT !.sends = @ + 1] \in Record
           /\ [r EXCEPT !.generation = n] \in Record
<1>1. /\ r.recorded + 1 \in Nat /\ r.missed + 1 \in Nat /\ r.sends + 1 \in Nat
      /\ FALSE \in BOOLEAN /\ TRUE \in BOOLEAN
  BY DEF Record
<1> QED
  BY <1>1, Zenon DEF Record

\* rearm: the attempt that was waited for is made, and its timer is live.
LEMMA RearmLedger ==
    ASSUME NEW l, NEW p \in Probes, Ledgered(l), Contains(l, p), l.records[p].deferred
    PROVE  /\ Ledgered(Rearm(l, p)) /\ Only(l, Rearm(l, p), p)
           /\ Rearm(l, p).records[p].sends = l.records[p].sends
           /\ ~Rearm(l, p).records[p].deferred
<1> DEFINE r == [l.records[p] EXCEPT !.recorded = @ + 1,
                                     !.budget = BudgetFor(l.hosts[HostOf[p]]),
                                     !.deferred = FALSE]
           s == Sent(l, p)
<1>1. l \in Ledger /\ Sound(l, p)
  BY Zenon DEF Ledgered
<1>2. l.records[p] \in Record
  BY Zenon, <1>1, Fields
<1>3. r \in Record
  BY Zenon, <1>1, <1>2, BudgetType, RecordUpdates
<1>4. Midway(s, p) /\ Only(l, s, p)
  BY Zenon, SentMidway
<1>5. Rearm(l, p) = Scheduled(s, p, r)
  BY Zenon DEF Rearm
<1>6. /\ ~r.deferred /\ r.recorded = l.records[p].recorded + 1
      /\ r.sends = l.records[p].sends /\ r.missed = l.records[p].missed
  BY Zenon, <1>2 DEF Record
<1>7. /\ l.records[p].recorded >= 1 /\ l.records[p].recorded \in Nat
      /\ l.records[p].missed \in Nat
      /\ l.records[p].sends = l.records[p].recorded + l.records[p].missed + 1
  BY Zenon, <1>1, <1>2 DEF Sound, Contains, Record
<1> HIDE DEF r, s
<1>8. r.recorded >= 1 /\ r.sends = r.recorded + r.missed
  BY <1>6, <1>7
<1>9. /\ Ledgered(Rearm(l, p)) /\ Only(s, Rearm(l, p), p)
      /\ Rearm(l, p).records[p] = [r EXCEPT !.generation = s.generations[p] + 1]
  BY <1>3, <1>4, <1>5, <1>6, <1>8, ScheduledSound
<1>10. /\ Rearm(l, p).records[p].sends = r.sends
       /\ Rearm(l, p).records[p].deferred = r.deferred
  BY Zenon, <1>3, <1>9 DEF Record
<1> QED
  BY Zenon, <1>4, <1>6, <1>9, <1>10, OnlyTwice

\* resume: it is missed, and its timer is live.
LEMMA ResumeLedger ==
    ASSUME NEW l, NEW p \in Probes, Ledgered(l), Contains(l, p), l.records[p].deferred
    PROVE  /\ Ledgered(Resume(l, p)) /\ Only(l, Resume(l, p), p)
           /\ Resume(l, p).records[p].sends = l.records[p].sends
           /\ ~Resume(l, p).records[p].deferred
<1> DEFINE r == [l.records[p] EXCEPT !.deferred = FALSE, !.missed = @ + 1]
<1>1. l \in Ledger /\ Sound(l, p)
  BY Zenon DEF Ledgered
<1>2. l.records[p] \in Record
  BY Zenon, <1>1, Fields
<1>3. r \in Record
  BY Zenon, <1>2, RecordUpdates
<1>4. Midway(l, p)
  BY Zenon, SoundIsMidway
<1>5. Resume(l, p) = Scheduled(l, p, r)
  BY Zenon DEF Resume
<1>6. /\ ~r.deferred /\ r.recorded = l.records[p].recorded
      /\ r.sends = l.records[p].sends /\ r.missed = l.records[p].missed + 1
  BY Zenon, <1>2 DEF Record
<1>7. /\ l.records[p].recorded >= 1 /\ l.records[p].recorded \in Nat
      /\ l.records[p].missed \in Nat
      /\ l.records[p].sends = l.records[p].recorded + l.records[p].missed + 1
  BY Zenon, <1>1, <1>2 DEF Sound, Contains, Record
<1> HIDE DEF r
<1>8. r.recorded >= 1 /\ r.sends = r.recorded + r.missed
  BY <1>6, <1>7
<1>9. /\ Ledgered(Resume(l, p)) /\ Only(l, Resume(l, p), p)
      /\ Resume(l, p).records[p] = [r EXCEPT !.generation = l.generations[p] + 1]
  BY <1>3, <1>4, <1>5, <1>6, <1>8, ScheduledSound
<1>10. /\ Resume(l, p).records[p].sends = r.sends
       /\ Resume(l, p).records[p].deferred = r.deferred
  BY Zenon, <1>3, <1>9 DEF Record
<1> QED
  BY Zenon, <1>6, <1>9, <1>10

LEMMA HostUpdates ==
    ASSUME NEW l \in Ledger, NEW p \in Probes, NEW n \in Nat
    PROVE  LET h == l.hosts[HostOf[p]]
           IN  /\ HostOf[p] \in Hosts
               /\ h \in HostState
               /\ h.answers \in Nat /\ h.silences \in Nat /\ h.exhaustedSilently \in Nat
               /\ [h EXCEPT !.answers = n] \in HostState
               /\ [h EXCEPT !.silences = n] \in HostState
               /\ [h EXCEPT !.exhaustedSilently = n] \in HostState
<1> DEFINE h == l.hosts[HostOf[p]]
<1>1. HostOf[p] \in Hosts /\ h \in HostState
  BY Zenon, LedgerAssumption, Fields
<1> HIDE DEF h
<1>2. /\ h.answers \in Nat /\ h.silences \in Nat /\ h.exhaustedSilently \in Nat
      /\ [h EXCEPT !.answers = n] \in HostState
      /\ [h EXCEPT !.silences = n] \in HostState
      /\ [h EXCEPT !.exhaustedSilently = n] \in HostState
  BY Zenon, <1>1 DEF HostState
<1> QED
  BY Zenon, <1>1, <1>2 DEF h

\* A popped timer is gone; the record of its probe is as it was.
LEMMA PoppedFields ==
    ASSUME NEW l \in Ledger, NEW t \in Probes \X Nat
    PROVE  LET s == Popped(l, t)
           IN  /\ s \in Ledger
               /\ s.records = l.records /\ s.timers = l.timers \ {t}
               /\ s.generations = l.generations
<1> DEFINE p == t[1]
           h == HostOf[p]
           old == l.hosts[h].silences
           first == Fires(l, t) /\ l.records[p].sends = 1
           n == IF first THEN old + 1 ELSE old
           state == [l.hosts[h] EXCEPT !.silences = n]
           m == [l EXCEPT !.timers = l.timers \ {t}]
           s == Popped(l, t)
<1>1. p \in Probes
  OBVIOUS
<1>2. n \in Nat
  <2> HIDE DEF first, p
  <2>1. l.hosts[HostOf[p]] \in HostState
    BY Zenon, <1>1, LedgerAssumption, Fields
  <2>2. old \in Nat
    BY Zenon, <2>1 DEF HostState
  <2> HIDE DEF old
  <2> QED
    BY <2>2
<1>3. h \in Hosts /\ state \in HostState
  BY Zenon, <1>1, <1>2, HostUpdates
<1>4. DOMAIN l = {"records", "timers", "generations", "wire", "hosts"}
  BY Zenon DEF Ledger
<1>5. h \in DOMAIN l.hosts
  BY Zenon, <1>3, Fields
<1>6. s = [l EXCEPT !.timers = @ \ {t}, !.hosts[h].silences = IF first THEN @ + 1 ELSE @]
  BY Zenon DEF Popped
<1> HIDE DEF first
<1>7. s.hosts = [l.hosts EXCEPT ![h] = state]
  BY <1>4, <1>5, <1>6, Zenon
<1>8. /\ s.records = l.records /\ s.timers = l.timers \ {t}
      /\ s.generations = l.generations /\ s.wire = l.wire
  BY <1>4, <1>6, Zenon
<1>9. s = [records |-> s.records, timers |-> s.timers, generations |-> s.generations,
           wire |-> s.wire, hosts |-> s.hosts]
  BY Zenon, <1>4, <1>6
<1> HIDE DEF s, state, h
<1>10. s.hosts \in [Hosts -> HostState] /\ s.timers \in SUBSET (Probes \X Nat)
  BY <1>3, <1>7, <1>8, Fields
<1>11. s \in Ledger
  BY Zenon, <1>8, <1>9, <1>10, Fields, IsLedger
<1> QED
  BY Zenon, <1>8, <1>11 DEF s

\* A timer that does not fire is dropped.
LEMMA PoppedLedger ==
    ASSUME NEW l, Ledgered(l), NEW t \in Probes \X Nat, ~Fires(l, t)
    PROVE  Ledgered(Popped(l, t)) /\ Popped(l, t).records = l.records
<1> DEFINE s == Popped(l, t)
           p == t[1]
<1>1. l \in Ledger /\ \A q \in Probes : Sound(l, q)
  BY Zenon DEF Ledgered
<1>2. /\ s \in Ledger /\ s.records = l.records /\ s.timers = l.timers \ {t}
      /\ s.generations = l.generations
  BY Zenon, <1>1, PoppedFields
<1> HIDE DEF s
<1>3. t = <<p, t[2]>> /\ p \in Probes /\ t[2] \in Nat
  OBVIOUS
<1>4. ASSUME NEW q \in Probes
      PROVE  Sound(s, q)
  <2>1. Sound(l, q)
    BY Zenon, <1>1
  <2>2. l.records[q].sends > 0 => t # <<q, l.records[q].generation>>
    BY <1>3 DEF Fires, Contains
  <2> QED
    BY Zenon, <1>2, <2>1, <2>2 DEF Sound
<1> QED
  BY Zenon, <1>2, <1>4 DEF Ledgered, s

\* A timer that fires leaves its probe half-way.
LEMMA PoppedMidway ==
    ASSUME NEW l, Ledgered(l), NEW t \in Probes \X Nat
    PROVE  /\ Midway(Popped(l, t), t[1]) /\ Only(l, Popped(l, t), t[1])
           /\ Popped(l, t).records = l.records
<1> DEFINE s == Popped(l, t)
           p == t[1]
<1>1. l \in Ledger /\ Midway(l, p)
  BY Zenon, SoundIsMidway DEF Ledgered
<1>2. /\ s \in Ledger /\ s.records = l.records /\ s.timers = l.timers \ {t}
      /\ s.generations = l.generations
  BY Zenon, <1>1, PoppedFields
<1> HIDE DEF s
<1>3. t = <<p, t[2]>> /\ p \in Probes
  OBVIOUS
<1>4. Only(l, s, p)
  BY <1>2, <1>3 DEF Only
<1>5. \A g \in Nat : <<p, g>> \in s.timers => g <= s.generations[p]
  BY Zenon, <1>1, <1>2 DEF Midway
<1> QED
  BY Zenon, <1>1, <1>2, <1>3, <1>4, <1>5, MidwayStep DEF s

\* A probe whose record is gone is sound, whatever timers it leaves.
LEMMA GoneLedger ==
    ASSUME NEW l, NEW p \in Probes, Midway(l, p), NEW s \in Ledger,
           s.records[p] = NotOutstanding,
           \A q \in Probes \ {p} : s.records[q] = l.records[q],
           s.timers = l.timers, s.generations = l.generations
    PROVE  Ledgered(s) /\ Only(l, s, p) /\ s.records[p].sends = 0
<1>3. Only(l, s, p)
  BY Zenon DEF Only
<1>4. Midway(s, p)
  BY Zenon, <1>3, MidwayStep DEF Midway
<1>5. s.records[p].sends = 0
  BY Zenon, NoRecord
<1>6. Sound(s, p)
  BY <1>4, <1>5 DEF Sound, Midway
<1> QED
  BY Zenon, <1>3, <1>4, <1>5, <1>6, MidwaySound

\* resolve and retire take a probe off the ledger.
LEMMA ResolveLedger ==
    ASSUME NEW l, NEW p \in Probes, Midway(l, p)
    PROVE  LET s == Resolve(l, p)
           IN  Ledgered(s) /\ Only(l, s, p) /\ s.records[p].sends = 0
<1> DEFINE m == Removed(l, p)
           h == HostOf[p]
           state == [m.hosts[h] EXCEPT !.answers = m.hosts[h].answers + 1]
           s == Resolve(l, p)
<1>1. l \in Ledger
  BY Zenon DEF Midway
<1>2. /\ m \in Ledger
      /\ m.records = [l.records EXCEPT ![p] = NotOutstanding]
      /\ m.timers = l.timers /\ m.generations = l.generations
  BY Zenon, <1>1, RemovedFields
<1>3. s = [m EXCEPT !.hosts[h].answers = m.hosts[h].answers + 1]
  BY Zenon DEF Resolve
<1> HIDE DEF s, m
<1>4. s = [m EXCEPT !.hosts[h] = state]
  BY <1>3, Zenon
<1>5. m.hosts[h].answers + 1 \in Nat
  <2>1. m.hosts[h] \in HostState
    BY Zenon, <1>2, LedgerAssumption, Fields
  <2> QED
    BY <2>1 DEF HostState
<1>6. h \in Hosts /\ state \in HostState
  BY Zenon, <1>2, <1>5, HostUpdates
<1> HIDE DEF state, h
<1>7. /\ s \in Ledger /\ s.records = m.records /\ s.timers = m.timers
      /\ s.generations = m.generations
  BY <1>2, <1>4, <1>6, HostField
<1>8. /\ s.records[p] = NotOutstanding
      /\ \A q \in Probes \ {p} : s.records[q] = l.records[q]
      /\ s.timers = l.timers /\ s.generations = l.generations
  BY Zenon, <1>1, <1>2, <1>7, Fields
<1>9. Ledgered(s) /\ Only(l, s, p) /\ s.records[p].sends = 0
  BY Zenon, <1>7, <1>8, GoneLedger
<1> QED
  BY Zenon, <1>9 DEF s

LEMMA RetireLedger ==
    ASSUME NEW l, NEW p \in Probes, Midway(l, p)
    PROVE  LET s == Retire(l, p)
           IN  Ledgered(s) /\ Only(l, s, p) /\ s.records[p].sends = 0
<1> DEFINE m == Removed(l, p)
           h == HostOf[p]
           old == m.hosts[h].exhaustedSilently
           n == IF l.hosts[h].answers = 0 THEN old + 1 ELSE old
           state == [m.hosts[h] EXCEPT !.exhaustedSilently = n]
           s == Retire(l, p)
<1>1. l \in Ledger
  BY Zenon DEF Midway
<1>2. /\ m \in Ledger
      /\ m.records = [l.records EXCEPT ![p] = NotOutstanding]
      /\ m.timers = l.timers /\ m.generations = l.generations
  BY Zenon, <1>1, RemovedFields
<1>3. s = [m EXCEPT !.hosts[h].exhaustedSilently = n]
  BY Zenon DEF Retire
<1> HIDE DEF s, m
<1>4. s = [m EXCEPT !.hosts[h] = state]
  BY <1>3, Zenon
<1>5. n \in Nat
  <2>1. m.hosts[h] \in HostState
    BY Zenon, <1>2, LedgerAssumption, Fields
  <2>2. old \in Nat
    BY Zenon, <2>1 DEF HostState
  <2> HIDE DEF old
  <2> QED
    BY <2>2
<1> HIDE DEF n
<1>6. h \in Hosts /\ state \in HostState
  BY Zenon, <1>2, <1>5, HostUpdates
<1> HIDE DEF state, h
<1>7. /\ s \in Ledger /\ s.records = m.records /\ s.timers = m.timers
      /\ s.generations = m.generations
  BY <1>2, <1>4, <1>6, HostField
<1>8. /\ s.records[p] = NotOutstanding
      /\ \A q \in Probes \ {p} : s.records[q] = l.records[q]
      /\ s.timers = l.timers /\ s.generations = l.generations
  BY Zenon, <1>1, <1>2, <1>7, Fields
<1>9. Ledgered(s) /\ Only(l, s, p) /\ s.records[p].sends = 0
  BY Zenon, <1>7, <1>8, GoneLedger
<1> QED
  BY Zenon, <1>9 DEF s

\* A timer that fires with attempts left: one more attempt is charged, and
\* the clock is stopped until it is made.
LEMMA DeferLedger ==
    ASSUME NEW l, Ledgered(l), NEW t \in l.timers, Fires(l, t)
    PROVE  LET p == t[1]
               s == Defer(Charge(Popped(l, t), p), p)
           IN  /\ Ledgered(s) /\ Only(l, s, p)
               /\ s.records[p].sends = l.records[p].sends + 1
               /\ s.records[p].deferred
<1> DEFINE p == t[1]
           a == Popped(l, t)
           b == Charge(a, p)
           s == Defer(b, p)
<1>0. l \in Ledger /\ t \in Probes \X Nat
  BY Zenon, Fields DEF Ledgered
<1>1. p \in Probes /\ t = <<p, t[2]>> /\ t[2] \in Nat
  BY <1>0
<1>2. Midway(a, p) /\ Only(l, a, p) /\ a.records = l.records
  BY Zenon, <1>0, PoppedMidway
<1>3. l.records[p] \in Record /\ Sound(l, p)
  BY Zenon, <1>0, <1>1, Fields DEF Ledgered
<1>4. l.records[p].sends > 0 /\ t = <<p, l.records[p].generation>>
  BY Zenon, <1>1 DEF Fires, Contains
<1>5. ~l.records[p].deferred
  BY Zenon, <1>3, <1>4 DEF Sound
<1>6. /\ l.records[p].recorded >= 1
      /\ l.records[p].sends = l.records[p].recorded + l.records[p].missed
  BY Zenon, <1>3, <1>4, <1>5 DEF Sound
<1> DEFINE r == [l.records[p] EXCEPT !.sends = @ + 1]
<1>7. r \in Record
  BY Zenon, <1>3, RecordUpdates
<1>8. /\ r.sends = l.records[p].sends + 1 /\ r.recorded = l.records[p].recorded
      /\ r.missed = l.records[p].missed
  BY Zenon, <1>3 DEF Record
<1>9. b = Scheduled(a, p, r)
  BY Zenon, <1>2 DEF Charge
<1> HIDE DEF a, r, p, b
<1>10. /\ Midway(b, p) /\ Only(a, b, p)
       /\ b.records[p] = [r EXCEPT !.generation = a.generations[p] + 1]
  BY <1>1, <1>2, <1>7, <1>9, ScheduledSound
<1>11. b.records[p] \in Record
  BY Zenon, <1>1, <1>10, Fields DEF Midway
<1>12. /\ b.records[p].sends = r.sends /\ b.records[p].recorded = r.recorded
       /\ b.records[p].missed = r.missed
  BY Zenon, <1>7, <1>10 DEF Record
<1> DEFINE d == [b.records[p] EXCEPT !.deferred = TRUE]
<1>13. d \in Record
  BY Zenon, <1>11, RecordUpdates
<1>14. /\ d.sends = r.sends /\ d.recorded = r.recorded /\ d.missed = r.missed /\ d.deferred
  BY Zenon, <1>11, <1>12 DEF Record
<1>15. s = Unscheduled(b, p, d)
  BY Zenon DEF Defer
<1>16. /\ l.records[p].recorded \in Nat /\ l.records[p].missed \in Nat
  BY Zenon, <1>3 DEF Record
<1> HIDE DEF d, s
<1>17. d.recorded >= 1 /\ d.sends = d.recorded + d.missed + 1
  BY Zenon, <1>6, <1>8, <1>14, <1>16
<1>18. /\ Ledgered(s) /\ Only(b, s, p)
       /\ s.records[p] = [d EXCEPT !.generation = b.generations[p] + 1]
  BY <1>1, <1>10, <1>13, <1>14, <1>15, <1>17, UnscheduledSound
<1>19. s.records[p].sends = d.sends /\ s.records[p].deferred = d.deferred
  BY Zenon, <1>13, <1>18 DEF Record
<1>20. Only(l, s, p)
  BY Zenon, <1>1, <1>2, <1>10, <1>18, OnlyTwice
<1> QED
  BY Zenon, <1>8, <1>14, <1>18, <1>19, <1>20 DEF s, p, b, a

\* drain_unresolved empties the ledger.
LEMMA DrainedLedger ==
    ASSUME NEW l, Ledgered(l)
    PROVE  Ledgered(Drained(l)) /\ \A p \in Probes : Drained(l).records[p].sends = 0
<1> DEFINE s == Drained(l)
<1>1. l \in Ledger
  BY Zenon DEF Ledgered
<1>2. DOMAIN l = {"records", "timers", "generations", "wire", "hosts"}
  BY Zenon, <1>1 DEF Ledger
<1>3. /\ s.records = [p \in Probes |-> NotOutstanding] /\ s.timers = {}
      /\ s.generations = l.generations /\ s.wire = l.wire /\ s.hosts = l.hosts
  BY <1>2, Zenon DEF Drained
<1>4. s = [records |-> s.records, timers |-> s.timers, generations |-> s.generations,
           wire |-> s.wire, hosts |-> s.hosts]
  <2> DEFINE none == [p \in Probes |-> NotOutstanding]
  <2>1. s = [l EXCEPT !.records = none, !.timers = {}]
    BY Zenon DEF Drained
  <2> HIDE DEF none, s
  <2> QED
    BY Zenon, <1>2, <2>1
<1> HIDE DEF s
<1>5. s.records \in [Probes -> Record] /\ s.timers \in SUBSET (Probes \X Nat)
  BY Zenon, <1>3, NoRecord
<1>6. s \in Ledger
  BY Zenon, <1>1, <1>3, <1>4, <1>5, Fields, IsLedger
<1>7. \A p \in Probes : s.records[p].sends = 0
  BY Zenon, <1>3, NoRecord
<1> QED
  BY <1>3, <1>6, <1>7 DEF Ledgered, Sound, s

-----------------------------------------------------------------------------
(* The window, the hosts and the tick. *)

Window == [inFlight : Nat, capacity : 1 .. Ceiling]

\* Growth and cuts move the capacity alone; a slot is taken or given back.
LEMMA WindowSteps ==
    ASSUME NEW w \in Window
    PROVE  /\ Take(w) \in Window /\ Take(w).inFlight = w.inFlight + 1
           /\ Release(w) \in Window
           /\ w.inFlight > 0 => Release(w).inFlight = w.inFlight - 1
           /\ \A v \in Grown(w) \cup Cut(w) : v \in Window /\ v.inFlight = w.inFlight
<1>1. w.inFlight \in Nat /\ w.capacity \in 1 .. Ceiling /\ Ceiling \in Nat
  BY Zenon, ScanAssumption DEF Window
<1>2. Take(w) \in Window /\ Take(w).inFlight = w.inFlight + 1
  BY DEF Window, Take
<1>3. /\ Release(w) \in Window
      /\ w.inFlight > 0 => Release(w).inFlight = w.inFlight - 1
  BY <1>1 DEF Window, Release
<1>4. ASSUME NEW v \in Grown(w)
      PROVE  v \in Window /\ v.inFlight = w.inFlight
  <2> DEFINE up == [w EXCEPT !.capacity = w.capacity + 1]
  <2>1. v = w \/ (v = up /\ v.capacity <= Ceiling)
    BY Zenon, <1>4 DEF Grown
  <2>2. up.inFlight = w.inFlight /\ up.capacity = w.capacity + 1
    BY Zenon DEF Window
  <2>3. v = up /\ v.capacity <= Ceiling => v \in Window
    BY <1>1, <2>2 DEF Window
  <2> QED
    BY Zenon, <2>1, <2>2, <2>3
<1>5. ASSUME NEW v \in Cut(w)
      PROVE  v \in Window /\ v.inFlight = w.inFlight
  <2> DEFINE c == IF w.capacity \div 2 > 1 THEN w.capacity \div 2 ELSE 1
             down == [w EXCEPT !.capacity = c]
  <2>1. c \in 1 .. Ceiling
    BY <1>1
  <2>2. v = w \/ v = down
    BY Zenon, <1>5 DEF Cut
  <2> HIDE DEF c
  <2>3. down.inFlight = w.inFlight /\ down \in Window
    BY Zenon, <2>1 DEF Window
  <2> QED
    BY Zenon, <2>2, <2>3
<1> QED
  BY Zenon, <1>2, <1>3, <1>4, <1>5

\* A verdict is the silence's own twin of an answer: it gives the slot back.
LEMMA JudgedSteps ==
    ASSUME NEW w \in Window, w.inFlight > 0
    PROVE  \A v \in Judged(w) : v \in Window /\ v.inFlight = w.inFlight - 1
<1>1. Release(w) \in Window /\ Release(w).inFlight = w.inFlight - 1
  BY Zenon, WindowSteps
<1> QED
  BY Zenon, <1>1, WindowSteps DEF Judged

Stages == {"top", "read", "service", "select", "tick", "ending", "done"}

LEMMA GateType ==
    ASSUME TypeOK, NEW h \in Hosts, NEW look, AdmitLooks(h, look)
    PROVE  gates' \in [Hosts -> 0 .. Open]
<1>1. gates \in [Hosts -> 0 .. Open] /\ Rounds \in Nat \ {0} /\ Open = Rounds + 1
  BY Zenon, ScanAssumption DEF TypeOK, Open
<1>2. GateAfter(h, look) \in 0 .. Open
  <2>1. gates[h] \in 0 .. Open
    BY Zenon, <1>1
  <2> QED
    BY <1>1, <2>1 DEF GateAfter
<1> QED
  BY Zenon, <1>1, <1>2 DEF AdmitLooks

\* A send takes a slot when it is a first attempt that left, and no other.
LEMMA AfterSendSteps ==
    ASSUME TypeOK, NEW h \in Hosts, NEW result \in SendResults, NEW first \in BOOLEAN,
           AfterSend(h, result, first)
    PROVE  /\ holds' \in [Hosts -> [refusals : Nat, held : BOOLEAN]]
           /\ unreachable' \subseteq Hosts
           /\ sent' \in Nat /\ stage' \in {"tick", "top"}
           /\ window' \in Window
           /\ window'.inFlight = IF Sorted(h, result) = "sent" /\ first
                                 THEN window.inFlight + 1 ELSE window.inFlight
<1>1. /\ holds \in [Hosts -> [refusals : Nat, held : BOOLEAN]]
      /\ unreachable \subseteq Hosts /\ sent \in Nat /\ window \in Window
  BY Zenon DEF TypeOK, Window
<1>2. holds' \in [Hosts -> [refusals : Nat, held : BOOLEAN]]
  <2>1. holds[h].refusals + 1 \in Nat /\ (Sorted(h, result) = "put off") \in BOOLEAN
    BY <1>1
  <2>2. [refusals |-> holds[h].refusals + 1, held |-> Sorted(h, result) = "put off"]
            \in [refusals : Nat, held : BOOLEAN]
    BY <2>1, Zenon
  <2>3. \/ holds' = holds
        \/ holds' = [holds EXCEPT ![h] = [refusals |-> holds[h].refusals + 1,
                                          held |-> Sorted(h, result) = "put off"]]
    BY Zenon DEF AfterSend
  <2> QED
    BY <1>1, <2>2, <2>3, Zenon
<1>3. unreachable' \subseteq Hosts
  BY Zenon, <1>1 DEF AfterSend
<1>4. sent' \in Nat /\ stage' \in {"tick", "top"}
  <2> DEFINE spent == IF result = "no route" THEN sent ELSE sent + 1
  <2>0. sent \in Nat
    BY Zenon, <1>1
  <2>1. spent \in Nat
    <3>1. sent + 1 \in Nat
      BY <2>0
    <3> QED
      BY <2>0, <3>1, Zenon
  <2>2. IF spent < Batch THEN sent' = spent /\ stage' = "tick"
        ELSE sent' = 0 /\ stage' = "top"
    BY Zenon DEF AfterSend
  <2> HIDE DEF spent
  <2> QED
    BY <2>1, <2>2
<1>5. window' \in Window
      /\ window'.inFlight = IF Sorted(h, result) = "sent" /\ first
                            THEN window.inFlight + 1 ELSE window.inFlight
  <2>1. CASE Sorted(h, result) = "refused"
    <3>1. window' \in Cut(window)
      BY Zenon, <2>1 DEF AfterSend
    <3> QED
      BY Zenon, <1>1, <2>1, <3>1, WindowSteps
  <2>2. CASE Sorted(h, result) = "sent" /\ first
    <3>1. window' = Take(window)
      BY Zenon, <2>2 DEF AfterSend
    <3> QED
      BY Zenon, <1>1, <2>2, <3>1, WindowSteps
  <2>3. CASE Sorted(h, result) # "refused" /\ ~(Sorted(h, result) = "sent" /\ first)
    <3>1. window' = window
      BY Zenon, <2>3 DEF AfterSend
    <3> QED
      BY Zenon, <1>1, <2>3, <3>1
  <2> QED
    BY Zenon, <2>1, <2>2, <2>3
<1> QED
  BY Zenon, <1>2, <1>3, <1>4, <1>5

-----------------------------------------------------------------------------
(* The invariant. *)

\* One probe's home, and what moves it on: a retry waits exactly while its
\* clock is stopped, and a retry left behind is of a probe already settled.
Homed(p) ==
    One(p \in coming) + One(p \in queue) + held[p] + One(Contains(led, p)) + filed[p] = 1

Moved(p) ==
    /\ retries[p] <= 1
    /\ Contains(led, p) => (led.records[p].deferred <=> retries[p] = 1)
    /\ retries[p] = 1 /\ ~Contains(led, p) => filed[p] = 1

\* Every reply that was there at the top of the loop is read before a timer
\* is served.
Reading ==
    /\ stage = "service" => waiting = 0
    /\ stage = "read" => waiting >= 1 /\ waiting <= Len(rx)

IInv ==
    /\ TypeOK
    /\ Ledgered(led)
    /\ \A p \in Probes : Homed(p) /\ Moved(p)
    /\ SlotsExact
    /\ BacklogBounded
    /\ Reading

\* Sets of probes that agree but for p.
LEMMA CountOne ==
    ASSUME NEW S \in SUBSET Probes, NEW T \in SUBSET Probes, NEW p \in Probes,
           \A q \in Probes \ {p} : q \in S <=> q \in T
    PROVE  /\ Cardinality(S) \in Nat /\ Cardinality(T) \in Nat
           /\ Cardinality(T) + One(p \in S) = Cardinality(S) + One(p \in T)
           /\ p \in S => Cardinality(S) > 0
<1> DEFINE C == S \ {p}
<1>1. IsFiniteSet(S) /\ IsFiniteSet(T) /\ IsFiniteSet(C)
  BY Zenon, LedgerAssumption, FS_Subset
<1>2. C = T \ {p}
  OBVIOUS
<1>3. Cardinality(C) \in Nat /\ Cardinality(S) \in Nat /\ Cardinality(T) \in Nat
  BY Zenon, <1>1, FS_CardinalityType
<1>4. Cardinality(C \cup {p}) = Cardinality(C) + 1
  BY Zenon, <1>1, FS_AddElement
<1>5. Cardinality(S) = Cardinality(C) + One(p \in S)
  <2>1. CASE p \in S
    <3>1. S = C \cup {p}
      BY Zenon, <2>1
    <3> QED
      BY Zenon, <1>4, <2>1, <3>1 DEF One
  <2>2. CASE p \notin S
    <3>1. S = C
      BY Zenon, <2>2
    <3> QED
      BY <1>3, <2>2, <3>1 DEF One
  <2> QED
    BY Zenon, <2>1, <2>2
<1>6. Cardinality(T) = Cardinality(C) + One(p \in T)
  <2>1. CASE p \in T
    <3>1. T = C \cup {p}
      BY Zenon, <1>2, <2>1
    <3> QED
      BY Zenon, <1>4, <2>1, <3>1 DEF One
  <2>2. CASE p \notin T
    <3>1. T = C
      BY Zenon, <1>2, <2>2
    <3> QED
      BY <1>3, <2>2, <3>1 DEF One
  <2> QED
    BY Zenon, <2>1, <2>2
<1> HIDE DEF C
<1> QED
  BY <1>3, <1>5, <1>6 DEF One

First(l) == {p \in Probes : l.records[p].sends = 1}

\* A slot is there to be given back by a probe that holds one.
LEMMA SlotHeld ==
    ASSUME IInv, NEW p \in Probes, led.records[p].sends = 1
    PROVE  window.inFlight > 0
<1>1. First(led) \in SUBSET Probes /\ p \in First(led)
  BY Zenon DEF First
<1>2. Cardinality(First(led)) > 0
  BY Zenon, <1>1, CountOne
<1> QED
  BY Zenon, <1>2 DEF IInv, SlotsExact, First

\* A step about p leaves every other probe where it is.
About(p) ==
    /\ Only(led, led', p)
    /\ \A q \in Probes \ {p} :
          /\ held'[q] = held[q] /\ retries'[q] = retries[q] /\ filed'[q] = filed[q]
          /\ q \in coming' <=> q \in coming
          /\ q \in queue' <=> q \in queue

\* What such a step has to show: the probe has a home and is moved on, its
\* slot is accounted for, and there was room for it if it adds to the backlog.
LEMMA StepAboutOne ==
    ASSUME IInv, TypeOK', Ledgered(led'), Reading', setup' = setup,
           NEW p \in Probes, About(p), Homed(p)', Moved(p)',
           window'.inFlight + One(led.records[p].sends = 1)
               = window.inFlight + One(led'.records[p].sends = 1),
           Contains(led', p) => \/ Contains(led, p)
                                \/ Cardinality(Outstanding(led)) < setup.unresolved,
           \/ One(Contains(led', p)) + One(held'[p] > 0)
                 <= One(Contains(led, p)) + One(held[p] > 0)
           \/ /\ Cardinality(Outstanding(led)) < setup.unresolved
              /\ Cardinality(HeldFirst) < setup.unresolved
              /\ One(Contains(led', p)) + One(held'[p] > 0)
                    <= One(Contains(led, p)) + One(held[p] > 0) + 1
    PROVE  IInv'
<1>1. TypeOK /\ SlotsExact /\ BacklogBounded /\ \A q \in Probes : Homed(q) /\ Moved(q)
  BY Zenon DEF IInv
<1>2. ASSUME NEW q \in Probes
      PROVE  Homed(q)' /\ Moved(q)'
  <2>1. CASE q = p
    BY Zenon, <2>1
  <2>2. CASE q # p
    <3>1. /\ led'.records[q] = led.records[q]
          /\ held'[q] = held[q] /\ retries'[q] = retries[q] /\ filed'[q] = filed[q]
          /\ q \in coming' <=> q \in coming
          /\ q \in queue' <=> q \in queue
      BY Zenon, <2>2 DEF About, Only
    <3>2. Homed(q) /\ Moved(q)
      BY Zenon, <1>1
    <3>3. Contains(led', q) <=> Contains(led, q)
      BY Zenon, <3>1 DEF Contains
    <3>4. Homed(q)'
      BY <3>1, <3>2, <3>3, Zenon DEF Homed, One
    <3>5. Moved(q)'
      BY <3>1, <3>2, <3>3, Zenon DEF Moved
    <3> QED
      BY Zenon, <3>4, <3>5
  <2> QED
    BY Zenon, <2>1, <2>2
<1>3. /\ window.inFlight \in Nat /\ window'.inFlight \in Nat
      /\ setup.unresolved \in Nat
  BY ZenonT(40), <1>1, ScanAssumption DEF TypeOK
<1>4. \A q \in Probes \ {p} : led'.records[q] = led.records[q] /\ held'[q] = held[q]
  BY Zenon DEF About, Only
<1>5. SlotsExact'
  <2>1. /\ First(led) \in SUBSET Probes /\ First(led') \in SUBSET Probes
        /\ \A q \in Probes \ {p} : q \in First(led) <=> q \in First(led')
    BY Zenon, <1>4 DEF First
  <2>2. /\ p \in First(led) <=> led.records[p].sends = 1
        /\ p \in First(led') <=> led'.records[p].sends = 1
    BY Zenon DEF First
  <2>3. /\ Cardinality(First(led)) \in Nat /\ Cardinality(First(led')) \in Nat
        /\ Cardinality(First(led')) + One(p \in First(led))
             = Cardinality(First(led)) + One(p \in First(led'))
    BY Zenon, <2>1, CountOne
  <2>4. window.inFlight = Cardinality(First(led))
    BY Zenon, <1>1 DEF SlotsExact, First
  <2>5. window'.inFlight = Cardinality(First(led'))
    BY <1>3, <2>2, <2>3, <2>4 DEF One
  <2> QED
    BY Zenon, <2>5 DEF SlotsExact, First
<1>6. BacklogBounded'
  <2> DEFINE O == Outstanding(led)
             P == Outstanding(led')
             H == HeldFirst
             J == {q \in Probes : held'[q] > 0}
             u == setup.unresolved
  <2>1. /\ O \in SUBSET Probes /\ P \in SUBSET Probes
        /\ \A q \in Probes \ {p} : q \in O <=> q \in P
    BY Zenon, <1>4 DEF Outstanding, Contains
  <2>2. /\ H \in SUBSET Probes /\ J \in SUBSET Probes
        /\ \A q \in Probes \ {p} : q \in H <=> q \in J
    BY Zenon, <1>4 DEF HeldFirst
  <2>3. /\ p \in O <=> Contains(led, p)
        /\ p \in P <=> Contains(led', p)
        /\ p \in H <=> held[p] > 0
        /\ p \in J <=> held'[p] > 0
    BY Zenon DEF Outstanding, HeldFirst
  <2>4. /\ Cardinality(O) \in Nat /\ Cardinality(P) \in Nat
        /\ Cardinality(P) + One(p \in O) = Cardinality(O) + One(p \in P)
    BY Zenon, <2>1, CountOne
  <2>5. /\ Cardinality(H) \in Nat /\ Cardinality(J) \in Nat
        /\ Cardinality(J) + One(p \in H) = Cardinality(H) + One(p \in J)
    BY Zenon, <2>2, CountOne
  <2>6. Cardinality(O) <= u /\ Cardinality(O) + Cardinality(H) < 2 * u
    BY Zenon, <1>1 DEF BacklogBounded
  <2>7. /\ p \in P => p \in O \/ Cardinality(O) < u
        /\ \/ One(p \in P) + One(p \in J) <= One(p \in O) + One(p \in H)
           \/ /\ Cardinality(O) < u
              /\ Cardinality(H) < u
              /\ One(p \in P) + One(p \in J) <= One(p \in O) + One(p \in H) + 1
    BY Zenon, <2>3 DEF One
  <2> HIDE DEF O, P, H, J
  <2>8. Cardinality(P) <= u /\ Cardinality(P) + Cardinality(J) < 2 * u
    BY <1>3, <2>4, <2>5, <2>6, <2>7 DEF One
  <2> QED
    BY Zenon, <2>8 DEF BacklogBounded, P, J, HeldFirst
<1> QED
  BY Zenon, <1>2, <1>5, <1>6 DEF IInv

\* A step that leaves every probe where it is.
LEMMA QuietStep ==
    ASSUME IInv, TypeOK', Ledgered(led'), Reading', led'.records = led.records,
           window'.inFlight = window.inFlight,
           UNCHANGED <<coming, queue, held, retries, filed, setup>>
    PROVE  IInv'
<1>1. \A q \in Probes : Contains(led', q) <=> Contains(led, q)
  BY Zenon DEF Contains
<1>2. ASSUME NEW q \in Probes
      PROVE  Homed(q)' /\ Moved(q)'
  <2>1. Homed(q) /\ Moved(q)
    BY Zenon DEF IInv
  <2>2. Homed(q)'
    BY <1>1, <2>1, Zenon DEF Homed, One
  <2>3. Moved(q)'
    BY <1>1, <2>1, Zenon DEF Moved
  <2> QED
    BY Zenon, <2>2, <2>3
<1>3. SlotsExact'
  BY Zenon DEF IInv, SlotsExact
<1>4. Outstanding(led') = Outstanding(led) /\ HeldFirst' = HeldFirst
  BY Zenon, <1>1 DEF Outstanding, HeldFirst
<1>5. BacklogBounded'
  BY Zenon, <1>4 DEF IInv, BacklogBounded
<1> QED
  BY Zenon, <1>2, <1>3, <1>5 DEF IInv

LEMMA StutterStep ==
    ASSUME IInv, UNCHANGED vars
    PROVE  IInv'
<1>1. TypeOK' /\ Reading' /\ Ledgered(led')
  BY Zenon DEF IInv, TypeOK, Reading, vars, scan, input
<1> QED
  BY Zenon, <1>1, QuietStep DEF vars, scan, input

\* The loop's turns between its reads, its timers and its sends.
LEMMA TurnStep ==
    ASSUME IInv, LoopTop \/ StopCheck \/ Tick \/ TickEnds \/ Sleep \/ CaptureClosed
    PROVE  IInv'
<1>1. UNCHANGED <<scan, input, setup>>
  BY Zenon DEF LoopTop, StopCheck, Tick, TickEnds, Sleep, CaptureClosed
<1>2. rx \in Seq(Replies) /\ waiting \in Nat /\ sent \in Nat
  BY Zenon DEF IInv, TypeOK
<1>3. Len(rx) \in Nat /\ (rx # << >> => Len(rx) >= 1) /\ (rx = << >> => Len(rx) = 0)
  BY <1>2
<1>4. /\ waiting' \in Nat /\ sent' \in Nat /\ finished' \in BOOLEAN
      /\ stage' \in Stages /\ Reading'
  <2>1. CASE LoopTop
    <3>1. /\ waiting' = Len(rx) /\ stage' = (IF rx = << >> THEN "service" ELSE "read")
          /\ sent' = sent /\ finished' = finished /\ rx' = rx
      BY Zenon, <2>1 DEF LoopTop, input
    <3>2. finished \in BOOLEAN
      BY Zenon DEF IInv, TypeOK
    <3> QED
      BY <1>2, <1>3, <3>1, <3>2 DEF Stages, Reading
  <2>2. CASE StopCheck
    BY Zenon, <1>2, <2>2 DEF StopCheck, Stages, Reading, IInv, TypeOK
  <2>3. CASE Tick
    BY Zenon, <1>2, <2>3 DEF Tick, Stages, Reading, IInv, TypeOK
  <2>4. CASE TickEnds
    BY Zenon, <1>2, <2>4 DEF TickEnds, Stages, Reading, IInv, TypeOK
  <2>5. CASE Sleep
    BY Zenon, <1>2, <2>5 DEF Sleep, Stages, Reading, IInv, TypeOK
  <2>6. CASE CaptureClosed
    BY Zenon, <1>2, <2>6 DEF CaptureClosed, Stages, Reading, IInv, TypeOK
  <2> QED
    BY Zenon, <2>1, <2>2, <2>3, <2>4, <2>5, <2>6
<1>5. TypeOK'
  BY Zenon, <1>1, <1>4 DEF IInv, TypeOK, scan, input, Stages
<1> QED
  BY Zenon, <1>1, <1>4, <1>5, QuietStep DEF IInv, scan, input

\* A reply heard, and a hold-down that ends.
LEMMA HearStep ==
    ASSUME IInv, NEW p \in Probes, Hear(p)
    PROVE  IInv'
<1>1. UNCHANGED <<scan, coming, queue, setup, waiting, stage, sent, finished>>
  BY Zenon DEF Hear
<1>2. rx \in Seq(Replies) /\ led \in Ledger
  BY Zenon DEF IInv, TypeOK
<1>3. PICK token, kind :
        /\ token \in 0 .. led.wire[p] /\ kind \in {"answer", "own unreachable"}
        /\ rx' = Append(rx, [probe |-> p, token |-> token, kind |-> kind])
  BY Zenon DEF Hear
<1> DEFINE reply == [probe |-> p, token |-> token, kind |-> kind]
<1>4. reply \in Replies
  <2>1. led.wire[p] \in Nat
    BY Zenon, <1>2, Fields
  <2>2. token \in Nat
    <3> DEFINE n == led.wire[p]
    <3>1. token \in 0 .. n /\ n \in Nat
      BY <1>3, <2>1, Zenon
    <3> HIDE DEF n
    <3> QED
      BY <3>1
  <2> QED
    BY Zenon, <1>3, <2>2 DEF Replies
<1>5. rx' = Append(rx, reply)
  BY Zenon, <1>3
<1> HIDE DEF reply
<1>8. rx' \in Seq(Replies) /\ Len(rx') = Len(rx) + 1 /\ Len(rx) \in Nat
  <2>1. /\ Append(rx, reply) \in Seq(Replies)
        /\ Len(Append(rx, reply)) = Len(rx) + 1 /\ Len(rx) \in Nat
    BY <1>2, <1>4
  <2> QED
    BY <1>5, <2>1, Zenon
<1>6. Reading'
  <2>1. Reading /\ waiting \in Nat
    BY Zenon DEF IInv, TypeOK
  <2> QED
    BY <1>1, <1>8, <2>1, SMT DEF Reading
<1>7. TypeOK'
  BY Zenon, <1>1, <1>8 DEF IInv, TypeOK, scan
<1> QED
  BY Zenon, <1>1, <1>6, <1>7, QuietStep DEF IInv, scan

LEMMA HoldDownEndsStep ==
    ASSUME IInv, NEW h \in Hosts, HoldDownEnds(h)
    PROVE  IInv'
<1>1. UNCHANGED <<held, retries, led, window, unreachable, gates, outcome, filed, input,
                  setup, waiting, stage, sent, finished>>
  BY Zenon DEF HoldDownEnds
<1>2. holds \in [Hosts -> [refusals : Nat, held : BOOLEAN]]
  BY Zenon DEF IInv, TypeOK
<1>3. holds' \in [Hosts -> [refusals : Nat, held : BOOLEAN]]
  BY Zenon, <1>2 DEF HoldDownEnds
<1>4. TypeOK'
  BY Zenon, <1>1, <1>3 DEF IInv, TypeOK, input
<1>5. Reading'
  BY Zenon, <1>1 DEF IInv, Reading, input
<1> QED
  BY Zenon, <1>1, <1>4, <1>5, QuietStep DEF IInv, input

\* The router's target is in the stream.
LEMMA DeliverStep ==
    ASSUME IInv, NEW p \in Probes, Deliver(p)
    PROVE  IInv'
<1>1. /\ p \in coming /\ coming' = coming \ {p} /\ queue' = queue \cup {p}
      /\ UNCHANGED <<scan, rx, setup, waiting, stage, sent, finished>>
  BY Zenon DEF Deliver
<1>2. TypeOK' /\ Reading' /\ Ledgered(led')
  BY Zenon, <1>1 DEF IInv, TypeOK, Reading, scan
<1>3. About(p)
  BY Zenon, <1>1 DEF About, Only, scan
<1>4. Homed(p) /\ Moved(p)
  BY Zenon DEF IInv
<1>5. held[p] \in Nat /\ filed[p] \in Nat
  BY Zenon DEF IInv, TypeOK
<1>6. /\ Contains(led', p) <=> Contains(led, p)
      /\ held' = held /\ filed' = filed /\ retries' = retries /\ led' = led
      /\ window' = window
  BY Zenon, <1>1 DEF scan
<1>7. Homed(p)'
  BY <1>1, <1>4, <1>5, <1>6 DEF Homed, One
<1>8. Moved(p)'
  BY Zenon, <1>4, <1>6 DEF Moved
<1>9. window.inFlight \in Nat
  BY Zenon DEF IInv, TypeOK
<1> QED
  BY <1>1, <1>2, <1>3, <1>6, <1>7, <1>8, <1>9, StepAboutOne DEF One

LEMMA SettleStep ==
    ASSUME TypeOK, NEW p \in Probes, NEW what \in Outcomes, Settle(p, what)
    PROVE  /\ outcome' \in [Probes -> Outcomes \cup {Unsettled}]
           /\ filed' \in [Probes -> Nat]
           /\ filed'[p] = filed[p] + 1
           /\ \A q \in Probes \ {p} : filed'[q] = filed[q]
<1>1. /\ outcome \in [Probes -> Outcomes \cup {Unsettled}] /\ filed \in [Probes -> Nat]
      /\ outcome' = [outcome EXCEPT ![p] = what]
      /\ filed' = [filed EXCEPT ![p] = filed[p] + 1]
  BY Zenon DEF TypeOK, Settle
<1>2. outcome' \in [Probes -> Outcomes \cup {Unsettled}]
  BY Zenon, <1>1
<1>3. /\ filed' \in [Probes -> Nat] /\ filed'[p] = filed[p] + 1
      /\ \A q \in Probes \ {p} : filed'[q] = filed[q]
  BY <1>1
<1> QED
  BY Zenon, <1>2, <1>3

\* A probe on the ledger is nowhere else; one that is not, but waits in the
\* stream or among the held, has no retry of its own.
LEMMA HomeIsOne ==
    ASSUME IInv, NEW p \in Probes
    PROVE  /\ held[p] \in Nat /\ filed[p] \in Nat /\ retries[p] \in Nat
           /\ led.records[p].sends \in Nat
           /\ Contains(led, p) =>
                 p \notin coming /\ p \notin queue /\ held[p] = 0 /\ filed[p] = 0
           /\ p \in queue =>
                 /\ ~Contains(led, p) /\ p \notin coming /\ held[p] = 0 /\ filed[p] = 0
                 /\ retries[p] = 0
           /\ held[p] > 0 =>
                 /\ ~Contains(led, p) /\ p \notin coming /\ p \notin queue /\ held[p] = 1
                 /\ filed[p] = 0 /\ retries[p] = 0
<1>1. Homed(p) /\ Moved(p)
  BY Zenon DEF IInv
<1>2. held[p] \in Nat /\ filed[p] \in Nat /\ retries[p] \in Nat
  BY Zenon DEF IInv, TypeOK
<1>3. led.records[p].sends \in Nat
  <2>1. led.records[p] \in Record
    BY Zenon, Fields DEF IInv, TypeOK
  <2> QED
    BY Zenon, <2>1 DEF Record
<1> QED
  BY <1>1, <1>2, <1>3 DEF Homed, Moved, One

\* A reply off the capture: it names no live attempt, or is a host's own
\* refusal, or takes its probe off the ledger and settles it.
LEMMA HeardStep ==
    ASSUME IInv, rx # << >>, Heard, waiting' \in Nat, stage' \in Stages, Reading'
    PROVE  IInv'
<1> DEFINE reply == Head(rx)
<1>1. /\ HandleReply(reply) /\ rx' = Tail(rx)
      /\ UNCHANGED <<coming, queue, held, retries, holds, gates, setup, sent, finished>>
  BY Zenon DEF Heard
<1>2. rx \in Seq(Replies) /\ TypeOK /\ Ledgered(led)
  BY Zenon DEF IInv, TypeOK
<1>3. rx' \in Seq(Replies) /\ reply \in Replies
  BY <1>1, <1>2
<1>4. PICK p \in Probes : p = reply.probe
  BY Zenon, <1>3 DEF Replies
<1> DEFINE names == NamesAttempt(led, p, reply.token)
<1>5. HostOf[p] \in Hosts
  BY Zenon, <1>4, LedgerAssumption
<1> HIDE DEF reply
<1>6. ASSUME Unfiled, led' = led, window' = window, unreachable' \subseteq Hosts
      PROVE  IInv'
  <2>1. TypeOK'
    BY Zenon, <1>1, <1>2, <1>3, <1>6 DEF TypeOK, Unfiled, Stages
  <2> QED
    BY Zenon, <1>1, <1>2, <1>6, <2>1, QuietStep DEF Unfiled
<1>7. CASE ~names /\ Unfiled /\ UNCHANGED <<led, window, unreachable>>
  BY Zenon, <1>2, <1>6, <1>7 DEF TypeOK
<1>8. CASE unreachable' = unreachable \cup {HostOf[p]} /\ Unfiled /\ UNCHANGED <<led, window>>
  BY Zenon, <1>2, <1>5, <1>6, <1>8 DEF TypeOK
<1>9. ASSUME names, led' = Resolve(led, p), Settle(p, "Answered"), UNCHANGED unreachable,
             window' \in IF led.records[p].sends = 1 THEN Grown(Release(window))
                         ELSE IF AttemptOf(led.records[p], reply.token) > 1 THEN Cut(window)
                         ELSE {window}
      PROVE  IInv'
  <2>1. Contains(led, p)
    BY ZenonT(40), <1>9 DEF NamesAttempt
  <2>2. Ledgered(led') /\ Only(led, led', p) /\ led'.records[p].sends = 0
    BY Zenon, <1>2, <1>4, <1>9, ResolveLedger, SoundIsMidway
  <2>3. /\ outcome' \in [Probes -> Outcomes \cup {Unsettled}]
        /\ filed' \in [Probes -> Nat]
        /\ filed'[p] = filed[p] + 1
        /\ \A q \in Probes \ {p} : filed'[q] = filed[q]
    BY Zenon, <1>2, <1>4, <1>9, SettleStep DEF Outcomes
  <2>4. window \in Window
    BY Zenon, <1>2 DEF TypeOK, Window
  <2>5. /\ window' \in Window
        /\ window'.inFlight + One(led.records[p].sends = 1) = window.inFlight
    <3>1. window.inFlight \in Nat
      BY Zenon, <2>4 DEF Window
    <3>2. CASE led.records[p].sends = 1
      <4>1. window' \in Grown(Release(window))
        BY Zenon, <1>9, <3>2
      <4>2. Release(window) \in Window /\ Release(window).inFlight = window.inFlight - 1
        BY Zenon, <1>4, <2>4, <3>2, SlotHeld, WindowSteps
      <4>3. window' \in Window /\ window'.inFlight = window.inFlight - 1
        BY Zenon, <4>1, <4>2, WindowSteps
      <4> QED
        BY <3>1, <3>2, <4>3 DEF One
    <3>3. CASE led.records[p].sends # 1
      <4>1. window' \in Cut(window) \/ window' = window
        BY Zenon, <1>9, <3>3
      <4>2. window' \in Window /\ window'.inFlight = window.inFlight
        BY Zenon, <2>4, <4>1, WindowSteps
      <4> QED
        BY <3>1, <3>3, <4>2 DEF One
    <3> QED
      BY Zenon, <3>2, <3>3
  <2>6. TypeOK'
    BY ZenonT(40), <1>1, <1>2, <1>3, <1>9, <2>2, <2>3, <2>5 DEF TypeOK, Stages, Window, Ledgered
  <2>7. About(p)
    BY Zenon, <1>1, <2>2, <2>3 DEF About
  <2>8. ~Contains(led', p)
    BY <2>2 DEF Contains
  <2>9. /\ held[p] = 0 /\ filed[p] = 0 /\ p \notin coming /\ p \notin queue
        /\ retries[p] \in Nat /\ held[p] \in Nat
    BY Zenon, <1>4, <2>1, HomeIsOne
  <2>10. Homed(p)'
    BY <1>1, <2>3, <2>8, <2>9 DEF Homed, One
  <2>11. Moved(p)'
    BY <1>1, <1>4, <2>3, <2>8, <2>9 DEF Moved, IInv
  <2>12. window'.inFlight + One(led.records[p].sends = 1)
           = window.inFlight + One(led'.records[p].sends = 1)
    BY <2>2, <2>4, <2>5 DEF One, Window
  <2>13. One(Contains(led', p)) + One(held'[p] > 0)
           <= One(Contains(led, p)) + One(held[p] > 0)
    BY <1>1, <2>1, <2>8 DEF One
  <2> QED
    BY ZenonT(40), <1>1, <1>4, <2>2, <2>6, <2>7, <2>8, <2>10, <2>11, <2>12, <2>13, StepAboutOne
<1> QED
  BY <1>1, <1>4, <1>7, <1>8, <1>9, Zenon DEF HandleReply

LEMMA ReplyStep ==
    ASSUME IInv, ReadWaiting \/ ReadReply
    PROVE  IInv'
<1>1. rx \in Seq(Replies) /\ waiting \in Nat /\ Reading
  BY Zenon DEF IInv, TypeOK
<1>2. CASE ReadWaiting
  <2>1. waiting >= 1 /\ waiting <= Len(rx)
    BY Zenon, <1>1, <1>2 DEF ReadWaiting, Reading
  <2>2. rx # << >>
    BY <1>1, <2>1
  <2>3. Heard /\ rx' = Tail(rx) /\ waiting' = waiting - 1
        /\ stage' = IF waiting' = 0 THEN "service" ELSE "read"
    BY Zenon, <1>2 DEF ReadWaiting, Heard
  <2>4. Len(rx') = Len(rx) - 1 /\ Len(rx) \in Nat
    BY <1>1, <2>2, <2>3
  <2>5. waiting' \in Nat /\ stage' \in Stages /\ Reading'
    BY <1>1, <2>1, <2>3, <2>4 DEF Stages, Reading
  <2> QED
    BY Zenon, <2>2, <2>3, <2>5, HeardStep
<1>3. CASE ReadReply
  BY Zenon, <1>1, <1>3, HeardStep DEF ReadReply, Stages, Reading
<1> QED
  BY Zenon, <1>2, <1>3

LEMMA SilentOutcome ==
    ASSUME NEW p, NEW gone
    PROVE  UnaskedAmong(p, gone) \in Outcomes
  BY Zenon DEF UnaskedAmong, Outcomes

\* The timer of an outstanding probe fires: its slot comes back with its
\* first timeout; it waits for one more attempt, or is done, or is held until
\* its neighbour is known.
LEMMA ServiceStep ==
    ASSUME IInv, NEW timer \in led.timers, ServiceTimer(timer)
    PROVE  IInv'
<1> DEFINE p == timer[1]
<1>1. TypeOK /\ Ledgered(led) /\ Reading
  BY Zenon DEF IInv
<1>2. timer \in Probes \X Nat
  BY Zenon, <1>1, Fields DEF TypeOK
<1>3. p \in Probes
  BY Zenon, <1>2
<1>4. /\ UNCHANGED <<unreachable, holds, gates, input, setup, waiting, stage, sent, finished>>
      /\ coming' = coming /\ queue' = queue /\ rx' = rx
  BY Zenon DEF ServiceTimer, input
<1>5. Reading'
  BY Zenon, <1>1, <1>4 DEF Reading
<1>6. CASE ~Fires(led, timer)
  <2>1. led' = Popped(led, timer) /\ Unfiled /\ UNCHANGED <<window, held, retries>>
    BY Zenon, <1>6 DEF ServiceTimer
  <2>2. Ledgered(led') /\ led'.records = led.records
    BY Zenon, <1>1, <1>2, <1>6, <2>1, PoppedLedger
  <2>3. TypeOK'
    BY Zenon, <1>1, <1>4, <2>1, <2>2 DEF TypeOK, Unfiled, Ledgered
  <2> QED
    BY Zenon, <1>4, <1>5, <2>1, <2>2, <2>3, QuietStep DEF Unfiled
<1>7. CASE Fires(led, timer)
  <2>0. Contains(led, p) /\ timer = <<p, led.records[p].generation>>
    BY <1>2, <1>7 DEF Fires
  <2>1. ~led.records[p].deferred
    BY Zenon, <1>1, <1>3, <2>0 DEF Ledgered, Sound, Contains
  <2>2. /\ held[p] = 0 /\ filed[p] = 0 /\ p \notin coming /\ p \notin queue
        /\ retries[p] \in Nat /\ held[p] \in Nat /\ led.records[p].sends \in Nat
    BY Zenon, <1>3, <2>0, HomeIsOne
  <2>3. retries[p] = 0
    BY <1>3, <2>0, <2>1, <2>2 DEF IInv, Moved
  <2>4. window \in Window /\ window.inFlight \in Nat
    BY Zenon, <1>1 DEF TypeOK, Window
  <2>5. window' \in IF FirstTimeout(p) THEN Judged(window) ELSE {window}
    BY ZenonT(40), <1>7 DEF ServiceTimer
  <2>6. /\ window' \in Window
        /\ window'.inFlight + One(led.records[p].sends = 1) = window.inFlight
    <3>1. CASE led.records[p].sends = 1
      <4>1. window' \in Judged(window)
        BY Zenon, <2>5, <3>1 DEF FirstTimeout
      <4>2. window' \in Window /\ window'.inFlight = window.inFlight - 1
        BY Zenon, <1>3, <2>4, <3>1, <4>1, SlotHeld, JudgedSteps
      <4> QED
        BY <2>4, <3>1, <4>2 DEF One
    <3>2. CASE led.records[p].sends # 1
      <4>1. window' = window
        BY Zenon, <2>5, <3>2 DEF FirstTimeout
      <4> QED
        BY <2>4, <3>2, <4>1 DEF One
    <3> QED
      BY ZenonT(40), <3>1, <3>2
  <2>7. held \in [Probes -> Nat] /\ retries \in [Probes -> Nat]
    BY Zenon, <1>1 DEF TypeOK
  <2> HIDE DEF p
  <2>8. ASSUME led' = Defer(Charge(Popped(led, timer), p), p),
               retries' = [retries EXCEPT ![p] = @ + 1], Unfiled, UNCHANGED held
        PROVE  IInv'
    <3>1. /\ Ledgered(led') /\ Only(led, led', p)
          /\ led'.records[p].sends = led.records[p].sends + 1
          /\ led'.records[p].deferred
      BY ZenonT(40), <1>1, <1>7, <2>8, DeferLedger DEF p
    <3>2. /\ retries' \in [Probes -> Nat] /\ retries'[p] = 1
          /\ \A q \in Probes \ {p} : retries'[q] = retries[q]
      BY <1>3, <2>3, <2>7, <2>8
    <3>3. TypeOK'
      BY Zenon, <1>1, <1>4, <2>6, <2>8, <3>1, <3>2 DEF TypeOK, Unfiled, Ledgered, Window
    <3>4. About(p)
      BY ZenonT(40), <1>4, <2>8, <3>1, <3>2 DEF About, Unfiled
    <3>5. Contains(led', p) /\ led'.records[p].sends # 1
      BY <2>0, <2>2, <3>1 DEF Contains
    <3>6. Homed(p)'
      BY <1>4, <2>2, <2>8, <3>5 DEF Homed, One, Unfiled
    <3>7. Moved(p)'
      BY <3>1, <3>2, <3>5 DEF Moved
    <3>8. window'.inFlight + One(led.records[p].sends = 1)
            = window.inFlight + One(led'.records[p].sends = 1)
      BY <2>4, <2>6, <3>5 DEF One
    <3>9. One(Contains(led', p)) + One(held'[p] > 0)
            <= One(Contains(led, p)) + One(held[p] > 0)
      BY <2>0, <2>8 DEF One
    <3> QED
      BY Zenon, <1>3, <1>4, <1>5, <2>0, <3>1, <3>3, <3>4, <3>6, <3>7, <3>8, <3>9, StepAboutOne
  <2>9. ASSUME led' = Retire(Popped(led, timer), p), UNCHANGED retries,
               \/ held' = [held EXCEPT ![p] = @ + 1] /\ Unfiled
               \/ \E what \in Outcomes : Settle(p, what) /\ UNCHANGED held
        PROVE  IInv'
    <3>1. /\ Midway(Popped(led, timer), p) /\ Only(led, Popped(led, timer), p)
      BY ZenonT(40), <1>1, <1>2, PoppedMidway DEF p
    <3>2. /\ Ledgered(led') /\ Only(led, led', p) /\ led'.records[p].sends = 0
      BY ZenonT(40), <1>3, <2>9, <3>1, RetireLedger, OnlyTwice
    <3>3. ~Contains(led', p)
      BY <3>2 DEF Contains
    <3>4. /\ held' \in [Probes -> Nat] /\ filed' \in [Probes -> Nat]
          /\ outcome' \in [Probes -> Outcomes \cup {Unsettled}]
          /\ \A q \in Probes \ {p} : held'[q] = held[q] /\ filed'[q] = filed[q]
          /\ \/ held'[p] = 1 /\ filed'[p] = 0
             \/ held'[p] = 0 /\ filed'[p] = 1
      <4>1. CASE held' = [held EXCEPT ![p] = @ + 1] /\ Unfiled
        <5>1. /\ held' \in [Probes -> Nat] /\ held'[p] = 1
              /\ \A q \in Probes \ {p} : held'[q] = held[q]
          BY <1>3, <2>2, <2>7, <4>1
        <5> QED
          BY Zenon, <1>1, <2>2, <4>1, <5>1 DEF TypeOK, Unfiled
      <4>2. CASE \E what \in Outcomes : Settle(p, what) /\ UNCHANGED held
        <5>1. /\ filed' \in [Probes -> Nat] /\ filed'[p] = filed[p] + 1
              /\ outcome' \in [Probes -> Outcomes \cup {Unsettled}]
              /\ \A q \in Probes \ {p} : filed'[q] = filed[q]
          BY Zenon, <1>1, <1>3, <4>2, SettleStep
        <5> QED
          BY <2>2, <2>7, <4>2, <5>1
      <4> QED
        BY ZenonT(40), <2>9, <4>1, <4>2
    <3>5. TypeOK'
      BY ZenonT(40), <1>1, <1>4, <2>6, <2>9, <3>2, <3>4 DEF TypeOK, Ledgered, Window
    <3>6. About(p)
      BY ZenonT(40), <1>4, <2>9, <3>2, <3>4 DEF About
    <3>7. Homed(p)'
      BY <1>4, <2>2, <3>3, <3>4 DEF Homed, One
    <3>8. Moved(p)'
      BY <2>3, <2>9, <3>3 DEF Moved
    <3>9. window'.inFlight + One(led.records[p].sends = 1)
            = window.inFlight + One(led'.records[p].sends = 1)
      BY <2>4, <2>6, <3>2 DEF One
    <3>10. One(Contains(led', p)) + One(held'[p] > 0)
             <= One(Contains(led, p)) + One(held[p] > 0)
      BY <2>0, <3>3, <3>4 DEF One
    <3> QED
      BY Zenon, <1>3, <1>4, <1>5, <3>2, <3>3, <3>5, <3>6, <3>7, <3>8, <3>9, <3>10, StepAboutOne
  <2>10. CASE ~Spent(led, p)
    BY <1>7, <2>8, <2>10, Zenon DEF ServiceTimer, p
  <2>11. CASE Spent(led, p)
    <3>1. /\ led' = Retire(Popped(led, timer), p) /\ UNCHANGED retries
          /\ \E look \in NeighborStates, seen \in BOOLEAN :
                IF PendingNeighbor(HostOf[p], look)
                THEN held' = [held EXCEPT ![p] = @ + 1] /\ Unfiled
                ELSE /\ Settle(p, IF IsUnreachable(HostOf[p]) \/ ~seen
                                  THEN UnaskedAmong(p, unreachable)
                                  ELSE "Exhausted")
                     /\ UNCHANGED held
      BY <1>7, <2>11, Zenon DEF ServiceTimer, p
    <3>2. \/ held' = [held EXCEPT ![p] = @ + 1] /\ Unfiled
          \/ \E what \in Outcomes : Settle(p, what) /\ UNCHANGED held
      <4>1. "Exhausted" \in Outcomes /\ UnaskedAmong(p, unreachable) \in Outcomes
        BY Zenon, SilentOutcome DEF Outcomes
      <4> QED
        BY <3>1, <4>1, Zenon
    <3> QED
      BY Zenon, <2>9, <3>1, <3>2
  <2> QED
    BY Zenon, <2>10, <2>11
<1> QED
  BY Zenon, <1>6, <1>7

\* A waiting retry: its probe is gone, is put off, or has its clock restarted.
LEMMA TakeRetryStep ==
    ASSUME IInv, NEW p \in Probes, TakeRetry(p)
    PROVE  IInv'
<1>1. TypeOK /\ Ledgered(led) /\ Homed(p) /\ Moved(p)
  BY Zenon DEF IInv
<1>2. /\ UNCHANGED <<held, coming, queue, rx, setup, waiting, finished, outcome, filed>>
      /\ stage = "tick" /\ retries[p] > 0 /\ Reprobe(p)
  BY Zenon DEF TakeRetry, Unfiled, input
<1>3. retries \in [Probes -> Nat] /\ retries[p] = 1 /\ HostOf[p] \in Hosts
  BY <1>1, <1>2, LedgerAssumption DEF TypeOK, Moved
<1>4. window \in Window /\ window.inFlight \in Nat
  BY Zenon, <1>1 DEF TypeOK, Window
<1>5. ASSUME gates' \in [Hosts -> 0 .. Open], unreachable' \subseteq Hosts,
             holds' \in [Hosts -> [refusals : Nat, held : BOOLEAN]],
             window' \in Window, window'.inFlight = window.inFlight,
             sent' \in Nat, stage' \in {"tick", "top"},
             \/ UNCHANGED <<led, retries>>
             \/ /\ retries' = [retries EXCEPT ![p] = @ - 1]
                /\ \/ led' = led /\ ~Contains(led, p)
                   \/ Contains(led, p) /\ led' \in {Rearm(led, p), Resume(led, p)}
      PROVE  IInv'
  <2>1. Reading'
    BY ZenonT(40), <1>5 DEF Reading
  <2>2. CASE UNCHANGED <<led, retries>>
    <3>1. TypeOK'
      BY Zenon, <1>1, <1>2, <1>5, <2>2 DEF TypeOK, Window
    <3> QED
      BY ZenonT(40), <1>1, <1>2, <1>5, <2>1, <2>2, <3>1, QuietStep
  <2>3. ASSUME retries' = [retries EXCEPT ![p] = @ - 1],
               Ledgered(led'), Only(led, led', p),
               led'.records[p].sends = led.records[p].sends,
               Contains(led, p) => ~led'.records[p].deferred
        PROVE  IInv'
    <3>1. /\ retries' \in [Probes -> Nat] /\ retries'[p] = 0
          /\ \A q \in Probes \ {p} : retries'[q] = retries[q]
      BY <1>3, <2>3
    <3>2. TypeOK'
      BY Zenon, <1>1, <1>2, <1>5, <2>3, <3>1 DEF TypeOK, Window, Ledgered
    <3>3. About(p)
      BY ZenonT(40), <1>2, <2>3, <3>1 DEF About
    <3>4. Contains(led', p) <=> Contains(led, p)
      BY Zenon, <2>3 DEF Contains
    <3>5. Homed(p)'
      BY ZenonT(40), <1>1, <1>2, <3>4 DEF Homed, One
    <3>6. Moved(p)'
      <4>1. Contains(led', p) => ~led'.records[p].deferred
        BY Zenon, <2>3, <3>4
      <4> QED
        BY <3>1, <4>1 DEF Moved
    <3>7. /\ window'.inFlight + One(led.records[p].sends = 1)
               = window.inFlight + One(led'.records[p].sends = 1)
          /\ One(Contains(led', p)) + One(held'[p] > 0)
               <= One(Contains(led, p)) + One(held[p] > 0)
      BY <1>2, <1>4, <1>5, <2>3, <3>4 DEF One
    <3> QED
      BY Zenon, <1>2, <2>1, <2>3, <3>2, <3>3, <3>4, <3>5, <3>6, <3>7, StepAboutOne
  <2>4. CASE retries' = [retries EXCEPT ![p] = @ - 1] /\ led' = led /\ ~Contains(led, p)
    BY Zenon, <1>1, <2>3, <2>4 DEF Only
  <2>5. CASE /\ retries' = [retries EXCEPT ![p] = @ - 1]
             /\ Contains(led, p) /\ led' \in {Rearm(led, p), Resume(led, p)}
    <3>1. led.records[p].deferred
      BY ZenonT(40), <1>1, <1>3, <2>5 DEF Moved
    <3>2. /\ Ledgered(led') /\ Only(led, led', p)
          /\ led'.records[p].sends = led.records[p].sends
          /\ ~led'.records[p].deferred
      BY Zenon, <1>1, <2>5, <3>1, RearmLedger, ResumeLedger
    <3> QED
      BY Zenon, <2>3, <2>5, <3>2
  <2> QED
    BY ZenonT(40), <1>5, <2>2, <2>4, <2>5
<1>6. CASE ~Contains(led, p) /\ retries' = [retries EXCEPT ![p] = @ - 1]
           /\ SameTick /\ UNCHANGED <<led, unreachable, gates>>
  BY Zenon, <1>1, <1>2, <1>4, <1>5, <1>6 DEF SameTick, TypeOK
<1>7. ASSUME Contains(led, p), NEW look \in NeighborStates, AdmitLooks(HostOf[p], look),
             \/ SameTick /\ UNCHANGED <<retries, led, unreachable>>
             \/ /\ retries' = [retries EXCEPT ![p] = @ - 1]
                /\ unreachable' = unreachable \cup {HostOf[p]}
                /\ led' = Resume(led, p)
                /\ SameTick
             \/ \E result \in SendResults :
                   /\ AfterSend(HostOf[p], result, FALSE)
                   /\ retries' = IF Sorted(HostOf[p], result) = "put off" THEN retries
                                 ELSE [retries EXCEPT ![p] = @ - 1]
                   /\ led' = CASE Sorted(HostOf[p], result) = "sent" -> Rearm(led, p)
                               [] Sorted(HostOf[p], result) = "put off" -> led
                               [] OTHER -> Resume(led, p)
      PROVE  IInv'
  <2>1. gates' \in [Hosts -> 0 .. Open]
    BY Zenon, <1>1, <1>3, <1>7, GateType
  <2>2. CASE SameTick /\ UNCHANGED <<retries, led, unreachable>>
    BY Zenon, <1>1, <1>2, <1>4, <1>5, <2>1, <2>2 DEF SameTick, TypeOK
  <2>3. CASE /\ retries' = [retries EXCEPT ![p] = @ - 1]
             /\ unreachable' = unreachable \cup {HostOf[p]}
             /\ led' = Resume(led, p)
             /\ SameTick
    BY Zenon, <1>1, <1>2, <1>3, <1>4, <1>5, <1>7, <2>1, <2>3 DEF SameTick, TypeOK
  <2>4. ASSUME NEW result \in SendResults, AfterSend(HostOf[p], result, FALSE),
               retries' = IF Sorted(HostOf[p], result) = "put off" THEN retries
                          ELSE [retries EXCEPT ![p] = @ - 1],
               led' = CASE Sorted(HostOf[p], result) = "sent" -> Rearm(led, p)
                        [] Sorted(HostOf[p], result) = "put off" -> led
                        [] OTHER -> Resume(led, p)
        PROVE  IInv'
    <3>1. /\ holds' \in [Hosts -> [refusals : Nat, held : BOOLEAN]]
          /\ unreachable' \subseteq Hosts
          /\ sent' \in Nat /\ stage' \in {"tick", "top"}
          /\ window' \in Window /\ window'.inFlight = window.inFlight
      BY Zenon, <1>1, <1>3, <2>4, AfterSendSteps
    <3>2. \/ UNCHANGED <<led, retries>>
          \/ /\ retries' = [retries EXCEPT ![p] = @ - 1]
             /\ Contains(led, p) /\ led' \in {Rearm(led, p), Resume(led, p)}
      <4>1. CASE Sorted(HostOf[p], result) = "put off"
        BY Zenon, <2>4, <4>1
      <4>2. CASE Sorted(HostOf[p], result) # "put off"
        <5>1. retries' = [retries EXCEPT ![p] = @ - 1]
          BY Zenon, <2>4, <4>2
        <5>2. led' \in {Rearm(led, p), Resume(led, p)}
          BY ZenonT(40), <2>4, <4>2
        <5> QED
          BY Zenon, <1>7, <5>1, <5>2
      <4> QED
        BY Zenon, <4>1, <4>2
    <3> QED
      BY Zenon, <1>5, <2>1, <3>1, <3>2
  <2> QED
    BY Zenon, <1>7, <2>2, <2>3, <2>4
<1> QED
  BY <1>2, <1>6, <1>7, Zenon DEF Reprobe

\* A first attempt, of a probe just taken off the stream or the hold queue:
\* it is held, or settled unasked, or goes out and onto the ledger.
Taken(p, rest) ==
    /\ rest \in [Probes -> Nat] /\ rest[p] = 0
    /\ \A q \in Probes \ {p} : rest[q] = held[q] /\ (q \in queue' <=> q \in queue)
    /\ coming' = coming /\ p \notin coming /\ p \notin queue' /\ queue' \subseteq Probes
    /\ ~Contains(led, p) /\ filed[p] = 0 /\ retries[p] = 0
    /\ UNCHANGED <<rx, setup, waiting, finished>>
    /\ Cardinality(Outstanding(led)) < setup.unresolved
    /\ held[p] > 0 \/ Cardinality(HeldFirst) < setup.unresolved

\* What becomes of it.
Dealt(p, rest) ==
    /\ UNCHANGED retries
    /\ gates' \in [Hosts -> 0 .. Open] /\ unreachable' \subseteq Hosts
    /\ holds' \in [Hosts -> [refusals : Nat, held : BOOLEAN]]
    /\ sent' \in Nat /\ stage' \in {"tick", "top"} /\ window' \in Window
    /\ \/ /\ held' = [rest EXCEPT ![p] = @ + 1]
          /\ led' = led /\ Unfiled /\ window'.inFlight = window.inFlight
       \/ /\ held' = rest
          /\ led' = led /\ \E what \in Outcomes : Settle(p, what)
          /\ window'.inFlight = window.inFlight
       \/ /\ held' = rest
          /\ led' = Arm(led, p) /\ Unfiled
          /\ window'.inFlight = window.inFlight + 1

LEMMA TakenStep ==
    ASSUME IInv, NEW p \in Probes, NEW rest, Taken(p, rest), Dealt(p, rest)
    PROVE  IInv'
<1>1. TypeOK /\ Ledgered(led)
  BY Zenon DEF IInv
<1>2. /\ rest \in [Probes -> Nat] /\ rest[p] = 0
      /\ \A q \in Probes \ {p} : rest[q] = held[q]
      /\ ~Contains(led, p) /\ filed[p] = 0 /\ retries[p] = 0
      /\ retries' = retries /\ stage' \in {"tick", "top"}
  BY Zenon DEF Taken, Dealt
<1>3. Reading'
  BY Zenon, <1>2 DEF Reading
<1>4. window.inFlight \in Nat /\ led.records[p].sends \in Nat
  BY ZenonT(40), <1>1, HomeIsOne DEF TypeOK
<1>5. led.records[p].sends = 0
  BY <1>2, <1>4 DEF Contains
<1>6. /\ held' \in [Probes -> Nat] /\ filed' \in [Probes -> Nat]
      /\ outcome' \in [Probes -> Outcomes \cup {Unsettled}]
      /\ \A q \in Probes \ {p} : held'[q] = held[q] /\ filed'[q] = filed[q]
      /\ Ledgered(led') /\ Only(led, led', p)
      /\ \/ /\ held'[p] = 1 /\ filed'[p] = 0 /\ led'.records[p].sends = 0
            /\ window'.inFlight = window.inFlight
         \/ /\ held'[p] = 0 /\ filed'[p] = 1 /\ led'.records[p].sends = 0
            /\ window'.inFlight = window.inFlight
         \/ /\ held'[p] = 0 /\ filed'[p] = 0 /\ led'.records[p].sends = 1
            /\ ~led'.records[p].deferred
            /\ window'.inFlight = window.inFlight + 1
  <2>1. CASE /\ held' = [rest EXCEPT ![p] = @ + 1]
             /\ led' = led /\ Unfiled /\ window'.inFlight = window.inFlight
    <3>1. /\ held' \in [Probes -> Nat] /\ held'[p] = 1
          /\ \A q \in Probes \ {p} : held'[q] = held[q]
      BY <1>2, <2>1
    <3>2. Only(led, led', p)
      BY Zenon, <2>1 DEF Only
    <3> QED
      BY ZenonT(40), <1>1, <1>2, <1>5, <2>1, <3>1, <3>2 DEF TypeOK, Unfiled
  <2>2. CASE /\ held' = rest
             /\ led' = led /\ \E what \in Outcomes : Settle(p, what)
             /\ window'.inFlight = window.inFlight
    <3>1. /\ filed' \in [Probes -> Nat] /\ filed'[p] = filed[p] + 1
          /\ outcome' \in [Probes -> Outcomes \cup {Unsettled}]
          /\ \A q \in Probes \ {p} : filed'[q] = filed[q]
      BY Zenon, <1>1, <2>2, SettleStep
    <3>2. Only(led, led', p)
      BY ZenonT(40), <2>2 DEF Only
    <3> QED
      BY <1>1, <1>2, <1>5, <2>2, <3>1, <3>2
  <2>3. CASE /\ held' = rest
             /\ led' = Arm(led, p) /\ Unfiled
             /\ window'.inFlight = window.inFlight + 1
    <3>1. /\ Ledgered(led') /\ Only(led, led', p)
          /\ led'.records[p].sends = 1 /\ ~led'.records[p].deferred
      BY ZenonT(40), <1>1, <2>3, ArmLedger
    <3> QED
      BY ZenonT(40), <1>1, <1>2, <2>3, <3>1 DEF TypeOK, Unfiled
  <2> QED
    BY Zenon, <2>1, <2>2, <2>3 DEF Dealt
<1>7. TypeOK'
  BY ZenonT(40), <1>1, <1>6 DEF TypeOK, Window, Ledgered, Taken, Dealt
<1>8. About(p)
  BY ZenonT(40), <1>2, <1>6 DEF About, Taken
<1>9. Contains(led', p) <=> led'.records[p].sends = 1
  BY <1>6 DEF Contains
<1>10. Homed(p)'
  <2>1. One(p \in coming') = 0 /\ One(p \in queue') = 0
    BY Zenon DEF One, Taken
  <2>2. One(Contains(led', p)) = IF led'.records[p].sends = 1 THEN 1 ELSE 0
    BY Zenon, <1>9 DEF One
  <2>3. One(Contains(led', p)) \in {0, 1} /\ held'[p] \in Nat /\ filed'[p] \in Nat
        /\ One(Contains(led', p)) + held'[p] + filed'[p] = 1
    BY <1>6, <2>2
  <2> QED
    BY <2>1, <2>3 DEF Homed
<1>11. Moved(p)'
  BY <1>2, <1>6, <1>9 DEF Moved
<1>12. window'.inFlight + One(led.records[p].sends = 1)
         = window.inFlight + One(led'.records[p].sends = 1)
  BY <1>4, <1>5, <1>6 DEF One
<1>13. \/ One(Contains(led', p)) + One(held'[p] > 0)
            <= One(Contains(led, p)) + One(held[p] > 0)
       \/ /\ Cardinality(Outstanding(led)) < setup.unresolved
          /\ Cardinality(HeldFirst) < setup.unresolved
          /\ One(Contains(led', p)) + One(held'[p] > 0)
               <= One(Contains(led, p)) + One(held[p] > 0) + 1
  <2>1. One(Contains(led', p)) + One(held'[p] > 0) <= 1
    BY <1>6, <1>9 DEF One
  <2>2. One(Contains(led, p)) = 0 /\ One(held[p] > 0) \in {0, 1}
    BY Zenon, <1>2 DEF One
  <2>3. One(Contains(led', p)) \in {0, 1} /\ One(held'[p] > 0) \in {0, 1}
    BY Zenon DEF One
  <2>4. CASE held[p] > 0
    <3>1. One(held[p] > 0) = 1
      BY Zenon, <2>4 DEF One
    <3> QED
      BY <2>1, <2>2, <2>3, <3>1
  <2>5. CASE ~(held[p] > 0)
    <3>1. One(held[p] > 0) = 0
      BY Zenon, <2>5 DEF One
    <3> QED
      BY <2>1, <2>2, <2>3, <2>5, <3>1 DEF Taken
  <2> QED
    BY Zenon, <2>4, <2>5
<1> QED
  BY ZenonT(40), <1>3, <1>6, <1>7, <1>8, <1>10, <1>11, <1>12, <1>13, StepAboutOne
  DEF Taken, Dealt

LEMMA ProbeStep ==
    ASSUME IInv, stage = "tick", NEW p \in Probes, NEW rest, Taken(p, rest), Probe(p, rest)
    PROVE  IInv'
<1> DEFINE h == HostOf[p]
<1>1. TypeOK /\ h \in Hosts /\ UNCHANGED retries
  BY Zenon, LedgerAssumption DEF IInv, Probe
<1>2. PICK look \in NeighborStates :
        /\ AdmitLooks(h, look)
        /\ \/ /\ held' = [rest EXCEPT ![p] = @ + 1]
              /\ SameTick /\ Unfiled
              /\ UNCHANGED <<led, unreachable>>
           \/ /\ held' = rest
              /\ unreachable' = unreachable \cup {h}
              /\ Settle(p, UnaskedAmong(p, unreachable'))
              /\ SameTick
              /\ UNCHANGED led
           \/ \E result \in SendResults :
                 /\ AfterSend(h, result, TRUE)
                 /\ held' = IF Sorted(h, result) = "put off" THEN [rest EXCEPT ![p] = @ + 1]
                            ELSE rest
                 /\ led' = IF Sorted(h, result) = "sent" THEN Arm(led, p) ELSE led
                 /\ IF Sorted(h, result) \in {"put off", "sent"} THEN Unfiled
                    ELSE Settle(p, UnaskedAmong(p, unreachable'))
  BY Zenon DEF Probe
<1>3. gates' \in [Hosts -> 0 .. Open]
  BY Zenon, <1>1, <1>2, GateType
<1>4. /\ unreachable \subseteq Hosts /\ sent \in Nat /\ window \in Window
      /\ holds \in [Hosts -> [refusals : Nat, held : BOOLEAN]]
  BY Zenon, <1>1 DEF TypeOK, Window
<1>5. UnaskedAmong(p, unreachable') \in Outcomes
  BY Zenon, SilentOutcome
<1> HIDE DEF h
<1>6. CASE held' = [rest EXCEPT ![p] = @ + 1] /\ SameTick /\ Unfiled
           /\ UNCHANGED <<led, unreachable>>
  <2>1. Dealt(p, rest)
    BY Zenon, <1>1, <1>3, <1>4, <1>6 DEF SameTick, Dealt
  <2> QED
    BY Zenon, <2>1, TakenStep
<1>7. CASE held' = rest /\ unreachable' = unreachable \cup {h}
           /\ Settle(p, UnaskedAmong(p, unreachable')) /\ SameTick /\ UNCHANGED led
  <2>1. unreachable' \subseteq Hosts
    BY Zenon, <1>1, <1>4, <1>7
  <2>2. Dealt(p, rest)
    BY Zenon, <1>1, <1>3, <1>4, <1>5, <1>7, <2>1 DEF SameTick, Dealt
  <2> QED
    BY Zenon, <2>2, TakenStep
<1>8. ASSUME NEW result \in SendResults, AfterSend(h, result, TRUE),
             held' = IF Sorted(h, result) = "put off" THEN [rest EXCEPT ![p] = @ + 1] ELSE rest,
             led' = IF Sorted(h, result) = "sent" THEN Arm(led, p) ELSE led,
             IF Sorted(h, result) \in {"put off", "sent"} THEN Unfiled
             ELSE Settle(p, UnaskedAmong(p, unreachable'))
      PROVE  IInv'
  <2>1. /\ holds' \in [Hosts -> [refusals : Nat, held : BOOLEAN]]
        /\ unreachable' \subseteq Hosts
        /\ sent' \in Nat /\ stage' \in {"tick", "top"}
        /\ window' \in Window
        /\ window'.inFlight = IF Sorted(h, result) = "sent"
                              THEN window.inFlight + 1 ELSE window.inFlight
    BY ZenonT(40), <1>1, <1>8, AfterSendSteps
  <2>2. \/ /\ held' = [rest EXCEPT ![p] = @ + 1]
           /\ led' = led /\ Unfiled /\ window'.inFlight = window.inFlight
        \/ /\ held' = rest
           /\ led' = led /\ \E what \in Outcomes : Settle(p, what)
           /\ window'.inFlight = window.inFlight
        \/ /\ held' = rest
           /\ led' = Arm(led, p) /\ Unfiled
           /\ window'.inFlight = window.inFlight + 1
    <3>1. CASE Sorted(h, result) = "put off"
      BY Zenon, <1>8, <2>1, <3>1
    <3>2. CASE Sorted(h, result) = "sent"
      BY Zenon, <1>8, <2>1, <3>2
    <3>3. CASE Sorted(h, result) \notin {"put off", "sent"}
      BY Zenon, <1>5, <1>8, <2>1, <3>3
    <3> QED
      BY ZenonT(40), <3>1, <3>2, <3>3
  <2>3. Dealt(p, rest)
    BY Zenon, <1>1, <1>3, <2>1, <2>2 DEF Dealt
  <2> QED
    BY Zenon, <2>3, TakenStep
<1> QED
  BY Zenon, <1>2, <1>6, <1>7, <1>8

LEMMA TakeHeldStep ==
    ASSUME IInv, NEW p \in Probes, TakeHeld(p)
    PROVE  IInv'
<1>1. PICK rest : rest = [held EXCEPT ![p] = held[p] - 1]
  BY ZenonT(40)
<1>2. /\ stage = "tick" /\ Admitting /\ held[p] > 0 /\ Probe(p, rest)
      /\ UNCHANGED <<coming, queue, rx, setup, waiting, finished>>
  BY Zenon, <1>1 DEF TakeHeld, input
<1>3. held \in [Probes -> Nat] /\ queue \subseteq Probes
  BY Zenon DEF IInv, TypeOK
<1>4. /\ ~Contains(led, p) /\ p \notin coming /\ p \notin queue /\ held[p] = 1
      /\ filed[p] = 0 /\ retries[p] = 0
  BY Zenon, <1>2, HomeIsOne
<1>5. rest \in [Probes -> Nat] /\ rest[p] = 0 /\ \A q \in Probes \ {p} : rest[q] = held[q]
  BY <1>1, <1>3, <1>4
<1>6. Taken(p, rest)
  BY Zenon, <1>2, <1>3, <1>4, <1>5 DEF Taken, Admitting
<1> QED
  BY Zenon, <1>2, <1>6, ProbeStep

LEMMA TakeTargetStep ==
    ASSUME IInv, NEW p \in Probes, TakeTarget(p)
    PROVE  IInv'
<1>1. PICK rest : rest = held
  OBVIOUS
<1>2. /\ stage = "tick" /\ Admitting /\ ~HeldIsFull /\ p \in queue
      /\ queue' = queue \ {p}
      /\ UNCHANGED <<coming, rx, setup, waiting, finished>>
  BY Zenon DEF TakeTarget
<1>3. held \in [Probes -> Nat] /\ queue \subseteq Probes
  BY Zenon DEF IInv, TypeOK
<1>4. /\ ~Contains(led, p) /\ p \notin coming /\ held[p] = 0 /\ filed[p] = 0
      /\ retries[p] = 0
  BY Zenon, <1>2, HomeIsOne
<1>5. Cardinality(HeldFirst) < setup.unresolved
  <2>1. HeldFirst \in SUBSET Probes
    BY Zenon DEF HeldFirst
  <2>2. Cardinality(HeldFirst) \in Nat
    BY Zenon, <2>1, CountOne
  <2>3. setup.unresolved \in Nat
    BY Zenon, ScanAssumption DEF IInv, TypeOK
  <2> QED
    BY <1>2, <2>2, <2>3 DEF HeldIsFull
<1>6. Taken(p, rest)
  BY Zenon, <1>1, <1>2, <1>3, <1>4, <1>5 DEF Taken, Admitting
<1>7. CASE Probe(p, held)
  BY Zenon, <1>1, <1>2, <1>6, <1>7, ProbeStep
<1>8. ASSUME SameTick, UNCHANGED <<retries, led, unreachable, gates>>,
             \/ /\ held' = [held EXCEPT ![p] = @ + 1] /\ Unfiled
             \/ UNCHANGED held /\ Settle(p, UnaskedAmong(p, unreachable))
      PROVE  IInv'
  <2>1. UnaskedAmong(p, unreachable) \in Outcomes
    BY Zenon, SilentOutcome
  <2>2. /\ gates' \in [Hosts -> 0 .. Open] /\ unreachable' \subseteq Hosts
        /\ holds' \in [Hosts -> [refusals : Nat, held : BOOLEAN]]
        /\ sent' \in Nat /\ stage' \in {"tick", "top"} /\ window' \in Window
        /\ window' = window
    BY Zenon, <1>2, <1>8 DEF IInv, TypeOK, SameTick, Window
  <2>3. Dealt(p, rest)
    BY Zenon, <1>1, <1>8, <2>1, <2>2 DEF Dealt
  <2> QED
    BY Zenon, <1>6, <2>3, TakenStep
<1> QED
  BY <1>7, <1>8, Zenon DEF TakeTarget

\* The end settles what is left, each once, and leaves nothing behind.
LEMMA EndStep ==
    ASSUME IInv, End
    PROVE  IInv'
<1>1. TypeOK /\ Ledgered(led) /\ stage' = "done"
  BY Zenon DEF IInv, End
<1>2. /\ led' = Drained(led) /\ window' = [window EXCEPT !.inFlight = 0]
      /\ held' = [p \in Probes |-> 0] /\ retries' = [p \in Probes |-> 0]
      /\ queue' = {}
      /\ UNCHANGED <<holds, gates, coming, rx, setup, waiting, sent, finished>>
  BY Zenon DEF End
<1>3. Ledgered(led') /\ \A p \in Probes : led'.records[p].sends = 0
  BY Zenon, <1>1, <1>2, DrainedLedger
<1>4. unreachable' \subseteq Hosts
  BY Zenon, <1>1 DEF End, TypeOK
<1>5. \A p \in Probes : /\ held[p] \in Nat /\ filed[p] \in Nat
                        /\ UnaskedAmong(p, unreachable') \in Outcomes
  BY Zenon, <1>1, SilentOutcome DEF TypeOK
<1>6. outcome' \in [Probes -> Outcomes \cup {Unsettled}]
  <2> DEFINE left == Outstanding(led) \cup HeldFirst \cup queue
             gone == unreachable'
             last(p) == IF Contains(led, p) /\ UnaskedAmong(p, gone) = "Unasked"
                        THEN "Interrupted" ELSE UnaskedAmong(p, gone)
  <2>1. outcome' = [p \in Probes |-> IF p \in left THEN last(p) ELSE outcome[p]]
    BY Zenon DEF End
  <2>2. "Interrupted" \in Outcomes
    BY Zenon DEF Outcomes
  <2>3. \A p \in Probes : last(p) \in Outcomes /\ outcome[p] \in Outcomes \cup {Unsettled}
    BY Zenon, <1>1, <1>5, <2>2 DEF TypeOK
  <2> HIDE DEF left, last
  <2> QED
    BY Zenon, <2>1, <2>3
<1>7. \A p \in Probes : filed'[p] = filed[p] + One(Contains(led, p)) + held[p]
                                      + One(p \in queue)
  <2> DEFINE times(p) == (IF Contains(led, p) THEN 1 ELSE 0) + held[p]
                           + (IF p \in queue THEN 1 ELSE 0)
  <2>1. filed' = [p \in Probes |-> filed[p] + times(p)]
    BY Zenon DEF End
  <2>2. ASSUME NEW p \in Probes
        PROVE  filed'[p] = filed[p] + One(Contains(led, p)) + held[p] + One(p \in queue)
    <3>1. filed'[p] = filed[p] + times(p)
      BY Zenon, <2>1
    <3>2. times(p) = One(Contains(led, p)) + held[p] + One(p \in queue)
      BY Zenon DEF One
    <3>3. One(Contains(led, p)) \in Nat /\ One(p \in queue) \in Nat
      BY Zenon DEF One
    <3> HIDE DEF times
    <3> QED
      BY <1>5, <3>1, <3>2, <3>3
  <2> QED
    BY Zenon, <2>2
<1>8. filed' \in [Probes -> Nat]
  <2>1. DOMAIN filed' = Probes /\ filed' = [p \in Probes |-> filed'[p]]
    BY Zenon DEF End
  <2>2. \A p \in Probes : filed'[p] \in Nat
    BY <1>5, <1>7 DEF One
  <2> QED
    BY Zenon, <2>1, <2>2
<1>9. TypeOK'
  BY Zenon, <1>1, <1>2, <1>3, <1>4, <1>6, <1>8 DEF TypeOK, Ledgered
<1>10. ASSUME NEW p \in Probes
       PROVE  Homed(p)' /\ Moved(p)'
  <2>1. ~Contains(led', p) /\ held'[p] = 0 /\ retries'[p] = 0
    BY <1>2, <1>3 DEF Contains
  <2>2. Homed(p)
    BY Zenon DEF IInv
  <2>3. Homed(p)'
    BY <1>2, <1>5, <1>7, <2>1, <2>2 DEF Homed, One
  <2> QED
    BY <2>1, <2>3 DEF Moved
<1>11. SlotsExact'
  <2>1. {p \in Probes : led'.records[p].sends = 1} = {}
    BY <1>3
  <2>2. window'.inFlight = 0
    BY Zenon, <1>1, <1>2 DEF TypeOK
  <2> QED
    BY Zenon, <2>1, <2>2, FS_EmptySet DEF SlotsExact
<1>12. BacklogBounded'
  <2>1. Outstanding(led)' = {} /\ HeldFirst' = {}
    BY <1>2, <1>3 DEF Outstanding, HeldFirst, Contains
  <2>2. setup' = setup /\ setup.unresolved \in Nat \ {0}
    BY Zenon, <1>1, <1>2, ScanAssumption DEF TypeOK
  <2> QED
    BY <2>1, <2>2, FS_EmptySet DEF BacklogBounded
<1> QED
  BY Zenon, <1>1, <1>3, <1>9, <1>10, <1>11, <1>12 DEF IInv, Reading

LEMMA InitInv == Init => IInv
<1> SUFFICES ASSUME Init PROVE IInv
  OBVIOUS
<1>1. led = EmptyLedger
  BY Zenon DEF Init
<1>2. led \in Ledger
  <2> DEFINE none == [p \in Probes |-> NotOutstanding]
             fresh == [h \in Hosts |-> [answers |-> 0, silences |-> 0, exhaustedSilently |-> 0]]
             zero == [p \in Probes |-> 0]
  <2>1. none \in [Probes -> Record] /\ zero \in [Probes -> Nat]
    BY Zenon, NoRecord
  <2>2. [answers |-> 0, silences |-> 0, exhaustedSilently |-> 0] \in HostState
    BY Zenon DEF HostState
  <2>3. fresh \in [Hosts -> HostState]
    BY Zenon, <2>2
  <2>4. led = [records |-> none, timers |-> {}, generations |-> zero, wire |-> zero,
               hosts |-> fresh]
    BY Zenon, <1>1 DEF EmptyLedger
  <2> HIDE DEF none, fresh, zero
  <2> QED
    BY Zenon, <2>1, <2>3, <2>4 DEF Ledger
<1>3. led.records = [p \in Probes |-> NotOutstanding] /\ led.timers = {}
  BY Zenon, <1>1 DEF EmptyLedger
<1>4. \A p \in Probes : led.records[p].sends = 0 /\ ~Contains(led, p)
  BY <1>3, NoRecord DEF Contains
<1>5. Ledgered(led)
  BY <1>2, <1>3, <1>4 DEF Ledgered, Sound
<1>6. window.inFlight = 0 /\ window \in Window /\ setup \in [watch : Watches, unresolved : Limits]
  BY DEF Init, Window
<1>7. TypeOK
  <2>1. [refusals |-> 0, held |-> FALSE] \in [refusals : Nat, held : BOOLEAN]
    OBVIOUS
  <2>2. holds \in [Hosts -> [refusals : Nat, held : BOOLEAN]]
    BY Zenon, <2>1 DEF Init
  <2>3. gates \in [Hosts -> 0 .. Open]
    BY ScanAssumption DEF Init, Open
  <2>4. outcome \in [Probes -> Outcomes \cup {Unsettled}]
    BY Zenon DEF Init
  <2>5. /\ held \in [Probes -> Nat] /\ retries \in [Probes -> Nat] /\ filed \in [Probes -> Nat]
    BY Zenon DEF Init
  <2>6. rx \in Seq(Replies)
    BY DEF Init
  <2> QED
    BY Zenon, <1>2, <1>6, <2>2, <2>3, <2>4, <2>5, <2>6 DEF Init, TypeOK, Window
<1>8. ASSUME NEW p \in Probes
      PROVE  Homed(p) /\ Moved(p)
  BY <1>4 DEF Init, Homed, Moved, One
<1>9. SlotsExact
  <2>1. {p \in Probes : led.records[p].sends = 1} = {}
    BY <1>4
  <2> QED
    BY Zenon, <1>6, <2>1, FS_EmptySet DEF SlotsExact
<1>10. BacklogBounded
  <2>1. Outstanding(led) = {} /\ HeldFirst = {}
    BY <1>4 DEF Outstanding, HeldFirst, Init
  <2>2. setup.unresolved \in Nat \ {0}
    BY Zenon, <1>6, ScanAssumption
  <2> QED
    BY <2>1, <2>2, FS_EmptySet DEF BacklogBounded
<1> QED
  BY Zenon, <1>5, <1>7, <1>8, <1>9, <1>10 DEF IInv, Reading, Init

LEMMA NextInv == IInv /\ [Next]_vars => IInv'
<1> SUFFICES ASSUME IInv, [Next]_vars PROVE IInv'
  OBVIOUS
<1>1. CASE LoopTop \/ StopCheck \/ Tick \/ TickEnds \/ Sleep \/ CaptureClosed
  BY Zenon, <1>1, TurnStep
<1>2. CASE ReadWaiting \/ ReadReply
  BY Zenon, <1>2, ReplyStep
<1>3. CASE End
  BY Zenon, <1>3, EndStep
<1>4. CASE \E timer \in led.timers : ServiceTimer(timer)
  BY Zenon, <1>4, ServiceStep
<1>5. CASE \E p \in Probes : TakeRetry(p)
  BY Zenon, <1>5, TakeRetryStep
<1>6. CASE \E p \in Probes : TakeHeld(p)
  BY Zenon, <1>6, TakeHeldStep
<1>7. CASE \E p \in Probes : TakeTarget(p)
  BY Zenon, <1>7, TakeTargetStep
<1>8. CASE \E p \in Probes : Deliver(p)
  BY Zenon, <1>8, DeliverStep
<1>9. CASE \E p \in Probes : Hear(p)
  BY Zenon, <1>9, HearStep
<1>10. CASE \E h \in Hosts : HoldDownEnds(h)
  BY Zenon, <1>10, HoldDownEndsStep
<1>11. CASE UNCHANGED vars
  BY Zenon, <1>11, StutterStep
<1> QED
  BY Zenon, <1>1, <1>2, <1>3, <1>4, <1>5, <1>6, <1>7, <1>8, <1>9, <1>10, <1>11
  DEF Next, Loop, Done

-----------------------------------------------------------------------------
(* Silence. *)

LEMMA SettledOtherwise ==
    ASSUME TypeOK, NEW p \in Probes, NEW q \in Probes, NEW what, what # "Exhausted",
           Settle(q, what), outcome[p] = Unsettled
    PROVE  outcome'[p] # "Exhausted"
  BY Zenon DEF Settle, TypeOK, Unsettled

LEMMA UnaskedIsNoSilence ==
    ASSUME NEW p, NEW gone
    PROVE  UnaskedAmong(p, gone) # "Exhausted"
  BY Zenon DEF UnaskedAmong

LEMMA SilenceStep ==
    ASSUME IInv, Next, NEW p \in Probes, outcome[p] = Unsettled, outcome'[p] = "Exhausted"
    PROVE  EarnedSilence(p)
<1>1. TypeOK /\ Ledgered(led) /\ Reading
  BY Zenon DEF IInv
<1>2. ~(outcome' = outcome)
  BY Zenon DEF Unsettled
<1>3. ASSUME NEW q \in Probes, NEW what, Settle(q, what)
      PROVE  what = "Exhausted"
  BY Zenon, <1>1, <1>3, SettledOtherwise
<1>4. CASE \E timer \in led.timers : ServiceTimer(timer)
  <2>1. PICK timer \in led.timers : ServiceTimer(timer)
    BY Zenon, <1>4
  <2>2. timer \in Probes \X Nat
    BY Zenon, <1>1, Fields DEF TypeOK
  <2>3. PICK q \in Probes : q = timer[1]
    BY Zenon, <2>2
  <2>4. stage = "service" /\ Fires(led, timer) /\ Spent(led, q)
    BY <1>2, <2>1, <2>3, Zenon DEF ServiceTimer, Unfiled
  <2>5. PICK seen \in BOOLEAN :
            Settle(q, IF IsUnreachable(HostOf[q]) \/ ~seen
                      THEN UnaskedAmong(q, unreachable) ELSE "Exhausted")
    BY <1>2, <2>1, <2>3, <2>4, Zenon DEF ServiceTimer, Unfiled
  <2>6. ~IsUnreachable(HostOf[q])
    BY Zenon, <1>3, <2>5, UnaskedIsNoSilence
  <2>7. q = p
    BY Zenon, <1>1, <2>5 DEF Settle, TypeOK, Unsettled
  <2> DEFINE r == led.records[p]
  <2>8. r \in Record /\ Sound(led, p)
    BY Zenon, <1>1, Fields DEF Ledgered
  <2>9. r.sends > 0 /\ timer = <<p, r.generation>> /\ r.sends >= r.budget
    <3>0. timer = <<timer[1], timer[2]>>
      BY <2>2
    <3>1. timer = <<p, timer[2]>> /\ timer[1] = p
      BY <2>3, <2>7, <3>0, Zenon
    <3>2. r.sends > 0 /\ r.generation = timer[2] /\ r.sends >= r.budget
      BY <2>4, <2>7, <3>1, Zenon DEF Fires, Contains, Spent
    <3> QED
      BY <3>1, <3>2, Zenon
  <2>10. ~r.deferred
    BY Zenon, <2>8, <2>9 DEF Sound
  <2>11. r.recorded >= 1 /\ r.sends = r.recorded + r.missed
    BY Zenon, <2>8, <2>9, <2>10 DEF Sound
  <2>12. waiting = 0
    BY Zenon, <1>1, <2>4 DEF Reading
  <2>13. 1 .. waiting = {}
    BY <2>12
  <2>14. r.recorded + r.missed >= r.budget
    BY Zenon, <2>9, <2>11
  <2> QED
    BY <2>6, <2>7, <2>11, <2>13, <2>14, Zenon DEF EarnedSilence
<1>5. CASE ReadWaiting \/ ReadReply
  <2>1. Heard /\ rx \in Seq(Replies) /\ rx # << >>
    BY <1>1, <1>5 DEF ReadWaiting, ReadReply, TypeOK, Reading
  <2>2. PICK q \in Probes : q = Head(rx).probe
    <3>1. Head(rx) \in Replies
      BY <2>1
    <3> QED
      BY Zenon, <3>1 DEF Replies
  <2>3. Unfiled \/ Settle(q, "Answered")
    BY <2>1, <2>2, Zenon DEF Heard, HandleReply
  <2> QED
    BY Zenon, <1>2, <1>3, <2>3 DEF Unfiled
<1>6. CASE \E q \in Probes : TakeHeld(q) \/ TakeTarget(q)
  <2>1. PICK q \in Probes : TakeHeld(q) \/ TakeTarget(q)
    BY Zenon, <1>6
  <2>2. \/ Unfiled
        \/ Settle(q, UnaskedAmong(q, unreachable))
        \/ Settle(q, UnaskedAmong(q, unreachable'))
    BY <2>1, Zenon DEF TakeHeld, TakeTarget, Probe
  <2> QED
    BY Zenon, <1>2, <1>3, <2>2, UnaskedIsNoSilence DEF Unfiled
<1>7. CASE End
  <2> DEFINE left == Outstanding(led) \cup HeldFirst \cup queue
             gone == unreachable'
             last(q) == IF Contains(led, q) /\ UnaskedAmong(q, gone) = "Unasked"
                        THEN "Interrupted" ELSE UnaskedAmong(q, gone)
  <2>1. outcome' = [q \in Probes |-> IF q \in left THEN last(q) ELSE outcome[q]]
    BY <1>7, Zenon DEF End
  <2>2. last(p) # "Exhausted"
    BY Zenon, UnaskedIsNoSilence
  <2> HIDE DEF left, last
  <2> QED
    BY Zenon, <2>1, <2>2 DEF Unsettled
<1>8. CASE \/ LoopTop \/ StopCheck \/ Tick \/ TickEnds \/ Sleep \/ CaptureClosed \/ Done
           \/ \E q \in Probes : TakeRetry(q) \/ Deliver(q) \/ Hear(q)
           \/ \E h \in Hosts : HoldDownEnds(h)
  BY Zenon, <1>2, <1>8
  DEF LoopTop, StopCheck, Tick, TickEnds, Sleep, CaptureClosed, Done, TakeRetry,
     Unfiled, Deliver, Hear, HoldDownEnds, scan, vars
<1> QED
  BY Zenon, <1>4, <1>5, <1>6, <1>7, <1>8 DEF Next, Loop

-----------------------------------------------------------------------------
\* Where each target is, what moves it on and what slot it holds stay settled
\* between them through every step of the loop and of its surroundings.
THEOREM Invariance == Spec => []IInv
  BY InitInv, NextInv, PTL DEF Spec

\* Every variable of the loop keeps its type.
THEOREM TypeCorrect == Spec => []TypeOK
<1>1. IInv => TypeOK
  BY Zenon DEF IInv
<1> QED
  BY <1>1, Invariance, PTL

\* However many probes there are, and however replies, timeouts, refusals and
\* neighbours come: no target is lost between the stream, the hold queue, the
\* ledger and the verdicts, and none is settled twice.
THEOREM EveryTargetHasOneHome == Spec => []OneHome
<1>1. IInv => OneHome
  BY Zenon DEF IInv, OneHome, Homed
<1> QED
  BY <1>1, Invariance, PTL

\* The window's slots are those of the first attempts still in time: release
\* is called once for each, though from two places.
THEOREM SlotsAreExact == Spec => []SlotsExact
<1>1. IInv => SlotsExact
  BY Zenon DEF IInv
<1> QED
  BY <1>1, Invariance, PTL

\* No outstanding probe is left without a live timer or a waiting retry, and
\* none has both, whatever the order of the retries, the replies and the
\* refused sends.
THEOREM EveryOutstandingProbeMoves == Spec => []EveryProbeMoves
<1>1. ASSUME IInv, NEW p \in Probes
      PROVE  /\ retries[p] <= 1
             /\ Contains(led, p) =>
                   IF led.records[p].deferred THEN retries[p] = 1 /\ ~LiveTimer(p)
                   ELSE retries[p] = 0 /\ LiveTimer(p)
  <2>1. Moved(p) /\ Sound(led, p) /\ retries[p] \in Nat
    BY Zenon, <1>1 DEF IInv, Ledgered, TypeOK
  <2> QED
    BY <2>1 DEF Moved, Sound, Contains, LiveTimer
<1>2. IInv => EveryProbeMoves
  BY Zenon, <1>1 DEF EveryProbeMoves
<1> QED
  BY <1>2, Invariance, PTL

\* The backlog stays within its bounds, whatever max_unresolved is.
THEOREM BacklogIsBounded == Spec => []BacklogBounded
<1>1. IInv => BacklogBounded
  BY Zenon DEF IInv
<1> QED
  BY <1>1, Invariance, PTL

\* A port is filed silent only when its silence was earned.
THEOREM SilenceIsEarned == Spec => SilenceEarned
<1>1. IInv /\ [Next]_vars =>
        [\A p \in Probes :
            (outcome[p] = Unsettled /\ outcome'[p] = "Exhausted") => EarnedSilence(p)]_vars
  BY Zenon, SilenceStep
<1> QED
  BY <1>1, Invariance, PTL DEF Spec, SilenceEarned
============================================================================

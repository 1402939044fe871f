----------------------------- MODULE ProbeLedger -----------------------------
(***************************************************************************)
(* The retry schedule of a raw scan: which probes are outstanding, when    *)
(* each is next due and how often it has been sent                         *)
(* (src/scanner/pacing/retry.rs).                                          *)
(*                                                                         *)
(* The ledger is one value with pure operations, because one pass of the   *)
(* scan often applies several of them.  A timer is the pair of its probe   *)
(* and the generation it was pushed with; its instant is left out, so any  *)
(* timer may be due.  The code draws every generation from one counter;    *)
(* only a timer and the record of the same probe are ever compared, so     *)
(* each probe has its own counter here.  Round trips and jitter decide     *)
(* instants alone and are left out.                                        *)
(***************************************************************************)
EXTENDS Integers, FiniteSets

CONSTANTS Probes,            \* the endpoints asked, one plan position each
          Hosts,             \* the addresses behind them
          HostOf,            \* [Probes -> Hosts]
          MaxAttempts,       \* RetryPolicy::max_attempts
          ReducedAttempts,   \* SilentHostPolicy::reduced_attempts
          SilentThreshold,   \* SilentHostPolicy::threshold
          MaxTracked         \* MAX_TRACKED_ATTEMPTS

ASSUME LedgerAssumption ==
    /\ IsFiniteSet(Probes)
    /\ HostOf \in [Probes -> Hosts]
    /\ MaxAttempts \in Nat \ {0}
    /\ ReducedAttempts \in Nat \ {0}
    /\ SilentThreshold \in Nat
    /\ MaxTracked \in Nat \ {0}

\* A record; `sends` is at least one.  Tokens name sends: the tokens of a probe number its sends from
\* one, `base` of them having been made before this record.  `missed` is
\* history: the charged retries that were not sent.
Record == [sends : Nat, recorded : Nat, base : Nat, budget : Nat,
           generation : Nat, deferred : BOOLEAN, missed : Nat]

\* The value of a probe that has no record.
NotOutstanding == [sends |-> 0, recorded |-> 0, base |-> 0, budget |-> 0,
                   generation |-> 0, deferred |-> FALSE, missed |-> 0]

HostState == [answers : Nat, silences : Nat, exhaustedSilently : Nat]

Ledger == [records : [Probes -> Record],
           timers : SUBSET (Probes \X Nat),
           generations : [Probes -> Nat],
           wire : [Probes -> Nat],          \* sends made, ever
           hosts : [Hosts -> HostState]]

EmptyLedger ==
    [records |-> [p \in Probes |-> NotOutstanding],
     timers |-> {},
     generations |-> [p \in Probes |-> 0],
     wire |-> [p \in Probes |-> 0],
     hosts |-> [h \in Hosts |-> [answers |-> 0, silences |-> 0, exhaustedSilently |-> 0]]]

Contains(l, p) == l.records[p].sends > 0

Outstanding(l) == {p \in Probes : Contains(l, p)}

HostHasAnswered(l, h) == l.hosts[h].answers > 0

BudgetFor(host) ==
    IF host.answers = 0 /\ host.exhaustedSilently >= SilentThreshold
    THEN IF ReducedAttempts < MaxAttempts THEN ReducedAttempts ELSE MaxAttempts
    ELSE MaxAttempts

\* The tokens still tracked: the newest MaxTracked of this record's.
LiveTokens(record) ==
    {t \in record.base + 1 .. record.base + record.recorded :
        t > record.base + record.recorded - MaxTracked}

AttemptOf(record, token) == token - record.base

\* The token of a quotation too short to name the attempt.
NoToken == 0

\* Variant for a mutation: a reply is believed for a probe that is gone.
NamesAnySend(l, p, token) == token \in 1 .. l.wire[p]

\* names_attempt: without a token, any probe on the ledger is named.
NamesAttempt(l, p, token) ==
    Contains(l, p) /\ (token = NoToken \/ token \in LiveTokens(l.records[p]))

\* take_generation, for the probe's record and, when armed, its timer.
NextGeneration(l, p) == l.generations[p] + 1

\* The record `r` of p under a new generation, with a timer or without.
Scheduled(l, p, r) ==
    [l EXCEPT !.generations[p] = NextGeneration(l, p),
              !.records[p] = [r EXCEPT !.generation = NextGeneration(l, p)],
              !.timers = @ \cup {<<p, NextGeneration(l, p)>>}]

Unscheduled(l, p, r) ==
    [l EXCEPT !.generations[p] = NextGeneration(l, p),
              !.records[p] = [r EXCEPT !.generation = NextGeneration(l, p)]]

Sent(l, p) == [l EXCEPT !.wire[p] = @ + 1]

\* arm: a first attempt left the wire.
Arm(l, p) ==
    Scheduled(Sent(l, p), p,
        [sends |-> 1, recorded |-> 1, base |-> l.wire[p],
         budget |-> BudgetFor(l.hosts[HostOf[p]]), generation |-> 0,
         deferred |-> FALSE, missed |-> 0])

\* rearm: a retry of an outstanding probe left the wire.
Rearm(l, p) ==
    Scheduled(Sent(l, p), p,
        [l.records[p] EXCEPT !.recorded = @ + 1,
                             !.budget = BudgetFor(l.hosts[HostOf[p]]),
                             !.deferred = FALSE])

Removed(l, p) == [l EXCEPT !.records[p] = NotOutstanding]

\* resolve, for a token that names a live attempt.
Resolve(l, p) ==
    [Removed(l, p) EXCEPT !.hosts[HostOf[p]].answers = @ + 1]

\* A popped timer that is the live one of an outstanding probe.
Fires(l, timer) ==
    /\ Contains(l, timer[1])
    /\ l.records[timer[1]].generation = timer[2]

\* The pass of drain_due over one timer, up to what it pushes to `out`.
Popped(l, timer) ==
    LET p == timer[1]
        first == Fires(l, timer) /\ l.records[p].sends = 1
    IN  [l EXCEPT !.timers = @ \ {timer},
                  !.hosts[HostOf[p]].silences = IF first THEN @ + 1 ELSE @]

Spent(l, p) == l.records[p].sends >= l.records[p].budget

\* drain_due's Exhausted branch and retire.
Retire(l, p) ==
    [Removed(l, p) EXCEPT !.hosts[HostOf[p]].exhaustedSilently =
        IF l.hosts[HostOf[p]].answers = 0 THEN @ + 1 ELSE @]

\* drain_due's Retry branch: the attempt is charged, its timer started.
Charge(l, p) ==
    Scheduled(l, p, [l.records[p] EXCEPT !.sends = @ + 1])

\* Variant for a mutation: the stopped clock's timer stays live.
DeferLeavingTheTimer(l, p) ==
    [l EXCEPT !.records[p] = [@ EXCEPT !.deferred = TRUE]]

\* defer: the timer just started is superseded by no other.
Defer(l, p) ==
    Unscheduled(l, p, [l.records[p] EXCEPT !.deferred = TRUE])

\* resume: the deferred retry was not sent, its clock restarts.
Resume(l, p) ==
    IF Contains(l, p) /\ l.records[p].deferred
    THEN Scheduled(l, p, [l.records[p] EXCEPT !.deferred = FALSE,
                                              !.missed = @ + 1])
    ELSE l

\* drain_unresolved.
Drained(l) ==
    [l EXCEPT !.records = [p \in Probes |-> NotOutstanding], !.timers = {}]
=============================================================================

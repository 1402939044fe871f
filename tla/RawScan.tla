------------------------------- MODULE RawScan -------------------------------
(***************************************************************************)
(* The loop shared by the raw TCP, UDP and SCTP port scans                 *)
(* (src/scanner/strategy/ports.rs): one task that reads targets off its    *)
(* stream and replies off the capture, keeps the retry ledger and the      *)
(* congestion window, and holds the probes whose host may not be asked     *)
(* yet.  Beside it run the router that feeds the stream, the capture       *)
(* thread that hears replies, and the network.                             *)
(*                                                                         *)
(* Instants are left out: a held probe, a waiting retry or a timer may be  *)
(* ready or not whenever it is looked at, and what a look at the           *)
(* neighbour table finds is chosen by the environment.  The window's       *)
(* adaptive capacity is any walk its growth and its cuts allow.            *)
(***************************************************************************)
EXTENDS ProbeLedger, Sequences

CONSTANTS Ceiling,         \* the window's largest capacity; its floor is one
          Limits,          \* the values of max_unresolved to consider
          Batch,           \* sends per tick
          Rounds,          \* NEIGHBOR_ROUNDS
          Refusals,        \* HELD_DOWN_REFUSALS
          Watches,         \* the kinds of neighbour resolution to consider
          RxDepth          \* bound: replies waiting in the capture's channel

ASSUME ScanAssumption ==
    /\ Ceiling \in Nat \ {0}
    /\ Limits \subseteq Nat \ {0}
    /\ Batch \in Nat \ {0}
    /\ Rounds \in Nat \ {0}
    /\ Refusals \in Nat \ {0}
    /\ Watches \subseteq {"none", "kernel", "frames"}
    /\ RxDepth \in Nat \ {0}

VARIABLES
    coming,        \* targets the router has still to send
    queue,         \* targets in the stream
    led,           \* the ProbeLedger
    window,        \* [inFlight, capacity]: the CongestionWindow
    held,          \* first attempts waiting, counted by probe
    retries,       \* retries waiting, counted by probe
    unreachable,   \* addresses filed unreachable
    holds,         \* HoldDowns: [refusals, until passed or not] by host
    setup,         \* [watch, unresolved]: the neighbour resolution the transport
                   \* can read, and max_unresolved; fixed for the scan
    gates,         \* NeighborGates: 0 unasked, 1..Rounds asked, Open
    rx,            \* replies the capture has heard
    waiting,       \* replies read_waiting_replies has still to read
    stage,         \* where the loop is
    sent,          \* sends attempted in this tick, if one is under way
    finished,      \* sending_finished
    outcome,       \* the outcome each target settled with
    filed          \* history: how often each target was settled

scan == <<held, retries, led, window, unreachable, holds, gates, outcome, filed>>
input == <<coming, queue, rx>>
vars == <<scan, input, setup, waiting, stage, sent, finished>>

Unsettled == "unsettled"
Outcomes == {"Answered", "Exhausted", "Interrupted", "Unasked", "Unroutable"}
Open == Rounds + 1
NeighborStates == {"resolving", "overdue", "failed", "resolved"}
Replies == [probe : Probes, token : Nat, kind : {"answer", "own unreachable"}]

\* A new scan: nothing sent and nothing asked.
Init ==
    /\ coming = Probes /\ queue = {}
    /\ led = EmptyLedger
    /\ window \in [inFlight : {0}, capacity : 1 .. Ceiling]
    /\ held = [p \in Probes |-> 0] /\ retries = [p \in Probes |-> 0]
    /\ unreachable = {}
    /\ holds = [h \in Hosts |-> [refusals |-> 0, held |-> FALSE]]
    /\ setup \in [watch : Watches, unresolved : Limits]
    /\ gates = [h \in Hosts |-> 0]
    /\ rx = << >> /\ waiting = 0
    /\ stage = "top" /\ sent = 0 /\ finished = FALSE
    /\ outcome = [p \in Probes |-> Unsettled] /\ filed = [p \in Probes |-> 0]

-----------------------------------------------------------------------------
(* The congestion window. *)

HasRoom(w) == w.inFlight < w.capacity

Take(w) == [w EXCEPT !.inFlight = @ + 1]

Release(w) == [w EXCEPT !.inFlight = IF @ > 0 THEN @ - 1 ELSE 0]

\* record_progress: slow start adds one, linear growth one now and then.
Grown(w) == {w} \cup {v \in {[w EXCEPT !.capacity = @ + 1]} : v.capacity <= Ceiling}

\* record_congestion: halved, unless a cut was made within the last window.
Cut(w) == {w, [w EXCEPT !.capacity = IF @ \div 2 > 1 THEN @ \div 2 ELSE 1]}

-----------------------------------------------------------------------------
(* What is known about the hosts. *)

IsUnreachable(h) == h \in unreachable /\ ~HostHasAnswered(led, h)

HeldFirst == {p \in Probes : held[p] > 0}

QuestionsLeft == ~finished \/ HeldFirst # {}

Admitting ==
    /\ QuestionsLeft
    /\ HasRoom(window)
    /\ Cardinality(Outstanding(led)) < setup.unresolved

\* held_is_full.  No probe is held twice, so the probes held are counted.
HeldIsFull == Cardinality(HeldFirst) >= setup.unresolved

Sending == Admitting \/ \E p \in Probes : retries[p] > 0

\* NeighborGates::admit, with what the look at the resolution finds.
GateVerdict(h, look) ==
    LET round == IF gates[h] = 0 THEN 1 ELSE gates[h]
    IN  IF setup.watch = "none" \/ gates[h] = Open \/ (gates[h] = 0 /\ setup.watch = "kernel")
           \/ look = "resolved" \/ (look = "failed" /\ round < Rounds /\ setup.watch = "kernel")
        THEN "send"
        ELSE IF look = "resolving" \/ (look = "failed" /\ round < Rounds) THEN "hold"
        ELSE "unreachable"

GateAfter(h, look) ==
    LET round == IF gates[h] = 0 THEN 1 ELSE gates[h]
    IN  IF setup.watch = "none" \/ gates[h] = Open THEN gates[h]
        ELSE IF gates[h] = 0 /\ setup.watch = "kernel" THEN 1
        ELSE IF look = "resolved" THEN Open
        ELSE IF look = "failed" /\ round < Rounds THEN round + 1
        ELSE round

\* Whether admit reaches the gate at all.
Gated(h) == ~IsUnreachable(h) /\ ~holds[h].held /\ ~HostHasAnswered(led, h)

\* RawProbeScan::admit.
Admission(h, look) ==
    IF Gated(h) THEN GateVerdict(h, look)
    ELSE IF IsUnreachable(h) THEN "unreachable"
    ELSE IF holds[h].held THEN "hold"
    ELSE "send"

AdmitLooks(h, look) ==
    gates' = IF Gated(h) THEN [gates EXCEPT ![h] = GateAfter(h, look)] ELSE gates

\* pending_neighbor: where a resolution still waited on stands.
PendingNeighbor(h, look) ==
    /\ ~IsUnreachable(h) /\ ~HostHasAnswered(led, h)
    /\ setup.watch # "none"
    /\ gates[h] \in 1 .. Rounds
    /\ look # "resolved"

-----------------------------------------------------------------------------
(* What becomes of a target. *)

Settle(p, what) ==
    /\ outcome' = [outcome EXCEPT ![p] = what]
    /\ filed' = [filed EXCEPT ![p] = @ + 1]

\* record_unasked_endpoint, once the unreachable addresses are `gone`.
UnaskedAmong(p, gone) ==
    IF HostOf[p] \in gone /\ ~HostHasAnswered(led, HostOf[p]) THEN "Unroutable" ELSE "Unasked"

Unfiled == UNCHANGED <<outcome, filed>>

\* What a send comes to, as source_for and record_send sort it.
SendResults == {"ok", "held down", "unroutable", "refused", "no route"}

Sorted(h, result) ==
    IF result = "held down" /\ holds[h].refusals + 1 < Refusals THEN "put off"
    ELSE IF result = "no route"
            \/ (result \in {"held down", "unroutable"} /\ ~HostHasAnswered(led, h))
         THEN "unreachable"
    ELSE IF result = "ok" THEN "sent"
    ELSE "refused"

\* The host, the window and the tick's budget after a send; the claim that
\* paced it is kept or refunded by the context, which ProbeSpacing models.
AfterSend(h, result, first) ==
    /\ holds' = IF result = "held down"
                THEN [holds EXCEPT ![h] = [refusals |-> @.refusals + 1,
                                           held |-> Sorted(h, result) = "put off"]]
                ELSE holds
    /\ unreachable' = IF Sorted(h, result) = "unreachable" THEN unreachable \cup {h}
                      ELSE unreachable
    /\ window' \in CASE Sorted(h, result) = "refused" -> Cut(window)
                     [] Sorted(h, result) = "sent" /\ first -> {Take(window)}
                     [] OTHER -> {window}
    /\ LET spent == IF result = "no route" THEN sent ELSE sent + 1
       IN  IF spent < Batch THEN sent' = spent /\ stage' = "tick"
           ELSE sent' = 0 /\ stage' = "top"

SameTick == UNCHANGED <<holds, window, sent, stage>>

\* probe: a first attempt, the probes still held being `rest`.
Probe(p, rest) ==
    \E look \in NeighborStates :
        LET h == HostOf[p]
            again == [rest EXCEPT ![p] = @ + 1]
        IN  /\ AdmitLooks(h, look)
            /\ UNCHANGED retries
            /\ \/ /\ Admission(h, look) \in {"hold", "send"}
                  /\ held' = again
                  /\ SameTick /\ Unfiled
                  /\ UNCHANGED <<led, unreachable>>
               \/ /\ Admission(h, look) = "unreachable"
                  /\ held' = rest
                  /\ unreachable' = unreachable \cup {h}
                  /\ Settle(p, UnaskedAmong(p, unreachable'))
                  /\ SameTick
                  /\ UNCHANGED led
               \/ /\ Admission(h, look) = "send"
                  /\ \E result \in SendResults :
                        /\ AfterSend(h, result, TRUE)
                        /\ held' = IF Sorted(h, result) = "put off" THEN again ELSE rest
                        /\ led' = IF Sorted(h, result) = "sent" THEN Arm(led, p) ELSE led
                        /\ IF Sorted(h, result) \in {"put off", "sent"} THEN Unfiled
                           ELSE Settle(p, UnaskedAmong(p, unreachable'))

\* reprobe: a waiting retry, whose probe may have left the ledger.
Reprobe(p) ==
    \/ /\ ~Contains(led, p)
       /\ retries' = [retries EXCEPT ![p] = @ - 1]
       /\ SameTick
       /\ UNCHANGED <<led, unreachable, gates>>
    \/ /\ Contains(led, p)
       /\ \E look \in NeighborStates :
            LET h == HostOf[p]
            IN  /\ AdmitLooks(h, look)
                /\ \/ /\ Admission(h, look) \in {"hold", "send"} \/ holds[h].held
                      /\ SameTick
                      /\ UNCHANGED <<retries, led, unreachable>>
                   \/ /\ Admission(h, look) = "unreachable" /\ ~holds[h].held
                      /\ retries' = [retries EXCEPT ![p] = @ - 1]
                      /\ unreachable' = unreachable \cup {h}
                      /\ led' = Resume(led, p)
                      /\ SameTick
                   \/ /\ Admission(h, look) = "send"
                      /\ \E result \in SendResults :
                            /\ AfterSend(h, result, FALSE)
                            /\ retries' = IF Sorted(h, result) = "put off" THEN retries
                                          ELSE [retries EXCEPT ![p] = @ - 1]
                            /\ led' = CASE Sorted(h, result) = "sent" -> Rearm(led, p)
                                        [] Sorted(h, result) = "put off" -> led
                                        [] OTHER -> Resume(led, p)

-----------------------------------------------------------------------------
(* The loop of drive. *)

\* One reply, read by handle_tcp_reply or handle_icmp_error.
HandleReply(reply) ==
    LET p == reply.probe
        h == HostOf[p]
        record == led.records[p]
        names == NamesAttempt(led, p, reply.token)
    IN  \/ /\ ~names
           /\ Unfiled
           /\ UNCHANGED <<led, window, unreachable>>
        \/ /\ names /\ reply.kind = "own unreachable"
           /\ unreachable' = unreachable \cup {h}
           /\ Unfiled
           /\ UNCHANGED <<led, window>>
        \/ /\ names /\ reply.kind = "answer"
           /\ led' = Resolve(led, p)
           /\ window' \in IF record.sends = 1 THEN Grown(Release(window))
                          ELSE IF AttemptOf(record, reply.token) > 1 THEN Cut(window)
                          ELSE {window}
           /\ Settle(p, "Answered")
           /\ UNCHANGED unreachable

Heard ==
    /\ HandleReply(Head(rx))
    /\ rx' = Tail(rx)
    /\ UNCHANGED <<coming, queue, held, retries, holds, gates, setup, sent, finished>>

\* Variant for a mutation: the timers are served before the replies are read.
LoopTopTimersFirst ==
    /\ stage = "top"
    /\ waiting' = Len(rx)
    /\ stage' = "service"
    /\ UNCHANGED <<scan, input, setup, sent, finished>>

\* The top of the loop: `now` is read, and how many replies wait.
LoopTop ==
    /\ stage = "top"
    /\ waiting' = Len(rx)
    /\ stage' = IF rx = << >> THEN "service" ELSE "read"
    /\ UNCHANGED <<scan, input, setup, sent, finished>>

\* read_waiting_replies.
ReadWaiting ==
    /\ stage = "read"
    /\ Heard
    /\ waiting' = waiting - 1
    /\ stage' = IF waiting' = 0 THEN "service" ELSE "read"

\* judge_timeout, whatever kind of silence it is.
Judged(w) == Grown(Release(w)) \cup Cut(Release(w))

\* Variant for a mutation: every timeout gives a slot back.
FirstTimeoutOrAny(p) == TRUE

\* Whether the timeout of p is its first, which carries its slot back.
FirstTimeout(p) == led.records[p].sends = 1

\* service_retries over one due timer: drain_due's pass and the event's.
ServiceTimer(timer) ==
    LET p == timer[1]
        h == HostOf[p]
        popped == Popped(led, timer)
    IN  /\ stage = "service"
        /\ timer \in led.timers
        /\ \/ /\ ~Fires(led, timer)
              /\ led' = popped
              /\ Unfiled
              /\ UNCHANGED <<window, held, retries>>
           \/ /\ Fires(led, timer)
              /\ window' \in IF FirstTimeout(p) THEN Judged(window) ELSE {window}
              /\ \/ /\ ~Spent(led, p)
                    /\ led' = Defer(Charge(popped, p), p)
                    /\ retries' = [retries EXCEPT ![p] = @ + 1]
                    /\ Unfiled
                    /\ UNCHANGED held
                 \/ /\ Spent(led, p)
                    /\ led' = Retire(popped, p)
                    /\ UNCHANGED retries
                    /\ \E look \in NeighborStates, seen \in BOOLEAN :
                          IF PendingNeighbor(h, look)
                          THEN held' = [held EXCEPT ![p] = @ + 1] /\ Unfiled
                          ELSE /\ Settle(p, IF IsUnreachable(h) \/ ~seen
                                            THEN UnaskedAmong(p, unreachable)
                                            ELSE "Exhausted")
                               /\ UNCHANGED held
        /\ UNCHANGED <<unreachable, holds, gates, input, setup, waiting, stage, sent,
                       finished>>

AttemptsSpent == finished /\ Outstanding(led) = {} /\ HeldFirst = {}

\* stop_reason, once no timer read is due any more.  The handle may have been
\* stopped, or the hard deadline have passed.
StopCheck ==
    /\ stage = "service"
    /\ stage' \in {"ending"} \cup {next \in {"select"} : ~AttemptsSpent}
    /\ UNCHANGED <<scan, input, setup, waiting, sent, finished>>

\* The send tick opens a batch.
Tick ==
    /\ stage = "select" /\ Sending
    /\ stage' = "tick"
    /\ UNCHANGED <<scan, input, setup, waiting, sent, finished>>

TakeRetry(p) ==
    /\ stage = "tick" /\ retries[p] > 0
    /\ Reprobe(p)
    /\ Unfiled
    /\ UNCHANGED <<held, input, setup, waiting, finished>>

TakeHeld(p) ==
    /\ stage = "tick" /\ Admitting /\ held[p] > 0
    /\ Probe(p, [held EXCEPT ![p] = @ - 1])
    /\ UNCHANGED <<input, setup, waiting, finished>>

\* Variant for a mutation: the stream is read though the hold queue is full.
TakeTargetThoughFull(p) ==
    /\ stage = "tick" /\ Admitting /\ p \in queue
    /\ queue' = queue \ {p}
    /\ held' = [held EXCEPT ![p] = @ + 1]
    /\ SameTick /\ Unfiled
    /\ UNCHANGED <<coming, rx, retries, led, unreachable, gates, setup, waiting, finished>>

\* A target off the stream: its host has spent its own budget, may not be
\* asked yet, or is asked.
TakeTarget(p) ==
    /\ stage = "tick" /\ Admitting /\ ~HeldIsFull /\ p \in queue
    /\ queue' = queue \ {p}
    /\ \/ /\ Settle(p, UnaskedAmong(p, unreachable))
          /\ SameTick
          /\ UNCHANGED <<held, retries, led, unreachable, gates>>
       \/ /\ held' = [held EXCEPT ![p] = @ + 1]
          /\ SameTick /\ Unfiled
          /\ UNCHANGED <<retries, led, unreachable, gates>>
       \/ Probe(p, held)
    /\ UNCHANGED <<coming, rx, setup, waiting, finished>>

\* Nothing ready to send.  The stream is found over only when it is read.
TickEnds ==
    /\ stage = "tick"
    /\ ~Admitting \/ HeldIsFull \/ queue = {}
    /\ finished' \in {finished} \cup
            {over \in {TRUE} : Admitting /\ ~HeldIsFull /\ queue = {} /\ coming = {}}
    /\ stage' = "top" /\ sent' = 0
    /\ UNCHANGED <<scan, input, setup, waiting>>

ReadReply ==
    /\ stage = "select" /\ rx # << >>
    /\ Heard
    /\ stage' = "top"
    /\ UNCHANGED waiting

Sleep ==
    /\ stage = "select"
    /\ stage' = "top"
    /\ UNCHANGED <<scan, input, setup, waiting, sent, finished>>

\* StopReason::StreamClosed: the capture is gone and its channel read out.
CaptureClosed ==
    /\ stage = "select" /\ rx = << >>
    /\ stage' = "ending"
    /\ UNCHANGED <<scan, input, setup, waiting, sent, finished>>

\* What drive does after the loop: conclude_pending_neighbors,
\* resolve_remaining, resolve_held and resolve_unasked.
End ==
    /\ stage = "ending"
    /\ \E looks \in [Hosts -> NeighborStates] :
        unreachable' = unreachable \cup {h \in Hosts : PendingNeighbor(h, looks[h])}
    /\ LET left == Outstanding(led) \cup HeldFirst \cup queue
           last(p) == IF Contains(led, p) /\ UnaskedAmong(p, unreachable') = "Unasked"
                      THEN "Interrupted" ELSE UnaskedAmong(p, unreachable')
           times(p) == (IF Contains(led, p) THEN 1 ELSE 0) + held[p]
                        + (IF p \in queue THEN 1 ELSE 0)
       IN  /\ outcome' = [p \in Probes |-> IF p \in left THEN last(p) ELSE outcome[p]]
           /\ filed' = [p \in Probes |-> filed[p] + times(p)]
    /\ led' = Drained(led)
    /\ window' = [window EXCEPT !.inFlight = 0]
    /\ held' = [p \in Probes |-> 0] /\ retries' = [p \in Probes |-> 0]
    /\ queue' = {}
    /\ stage' = "done"
    /\ UNCHANGED <<holds, gates, coming, rx, setup, waiting, sent, finished>>

-----------------------------------------------------------------------------
(* Beside the loop. *)

\* The router sends a target; it finds a finished scan's stream closed.
Deliver(p) ==
    /\ p \in coming /\ stage # "done"
    /\ coming' = coming \ {p} /\ queue' = queue \cup {p}
    /\ UNCHANGED <<scan, rx, setup, waiting, stage, sent, finished>>

\* The capture thread hears a reply to some send: late, repeated or never. Only
\* an error may quote too little to name the attempt it is about.
Hear(p) ==
    /\ Len(rx) < RxDepth /\ stage # "done"
    /\ led.wire[p] > 0
    /\ \E token \in 0 .. led.wire[p], kind \in {"answer", "own unreachable"} :
        /\ token # NoToken \/ kind = "own unreachable"
        /\ rx' = Append(rx, [probe |-> p, token |-> token, kind |-> kind])
    /\ UNCHANGED <<scan, coming, queue, setup, waiting, stage, sent, finished>>

\* A kernel hold-down on a host is over.
HoldDownEnds(h) ==
    /\ holds[h].held
    /\ holds' = [holds EXCEPT ![h].held = FALSE]
    /\ UNCHANGED <<held, retries, led, window, unreachable, gates, outcome, filed, input,
                   setup, waiting, stage, sent, finished>>

Done == stage = "done" /\ UNCHANGED vars

Loop ==
    \/ LoopTop \/ ReadWaiting \/ StopCheck \/ Tick \/ TickEnds \/ ReadReply \/ Sleep
    \/ CaptureClosed \/ End
    \/ \E timer \in led.timers : ServiceTimer(timer)
    \/ \E p \in Probes : TakeRetry(p) \/ TakeHeld(p) \/ TakeTarget(p)

Next ==
    \/ Loop
    \/ \E p \in Probes : Deliver(p) \/ Hear(p)
    \/ \E h \in Hosts : HoldDownEnds(h)
    \/ Done

Spec == Init /\ [][Next]_vars

-----------------------------------------------------------------------------
TypeOK ==
    /\ coming \subseteq Probes /\ queue \subseteq Probes
    /\ led \in Ledger
    /\ window \in [inFlight : Nat, capacity : 1 .. Ceiling]
    /\ held \in [Probes -> Nat] /\ retries \in [Probes -> Nat]
    /\ unreachable \subseteq Hosts
    /\ holds \in [Hosts -> [refusals : Nat, held : BOOLEAN]]
    /\ setup \in [watch : Watches, unresolved : Limits]
    /\ gates \in [Hosts -> 0 .. Open]
    /\ rx \in Seq(Replies) /\ waiting \in Nat
    /\ stage \in {"top", "read", "service", "select", "tick", "ending", "done"}
    /\ sent \in Nat /\ finished \in BOOLEAN
    /\ outcome \in [Probes -> Outcomes \cup {Unsettled}]
    /\ filed \in [Probes -> Nat]

One(b) == IF b THEN 1 ELSE 0

\* Every target is in exactly one place: still to come, in the stream, held,
\* on the ledger, or settled once.  No probe is dropped between the hold
\* queue, the ledger and the verdicts (probe, service_retries, resolve_held),
\* and no late answer or stale retry settles a target a second time.
OneHome ==
    \A p \in Probes :
        One(p \in coming) + One(p \in queue) + held[p] + One(Contains(led, p)) + filed[p] = 1

\* The window's slots are held by exactly the probes on the ledger whose first
\* attempt is still in time.  CongestionWindow::release asks to be called
\* "exactly once per probe"; it is called from the reply path and the timer
\* path, and its saturating subtraction would hide a slot given back twice.
SlotsExact ==
    window.inFlight = Cardinality({p \in Probes : led.records[p].sends = 1})

LiveTimer(p) == <<p, led.records[p].generation>> \in led.timers

\* Every outstanding probe is moved on by exactly one thing: its live timer,
\* or its one waiting retry while its clock is stopped (ProbeLedger::defer:
\* "A caller that defers must do one or the other, or the probe stays
\* outstanding until the scan ends").
EveryProbeMoves ==
    \A p \in Probes :
        /\ retries[p] <= 1
        /\ Contains(led, p) =>
              IF led.records[p].deferred THEN retries[p] = 1 /\ ~LiveTimer(p)
              ELSE retries[p] = 0 /\ LiveTimer(p)

\* The backlog of a scan is bounded: the ledger by max_unresolved, and the
\* ledger and the hold queue together by one less than twice that, though a
\* probe whose neighbour is unresolved is put back without held_is_full
\* being asked.
BacklogBounded ==
    /\ Cardinality(Outstanding(led)) <= setup.unresolved
    /\ Cardinality(Outstanding(led)) + Cardinality(HeldFirst) < 2 * setup.unresolved

\* A port is read as silent only once every attempt of its budget was sent, or
\* refused by this machine; while no reply that answers it, and was there to
\* be read when the loop looked at the time, is still unread; and never when
\* its address is known to be out of reach (service_retries,
\* read_waiting_replies, is_unreachable).
EarnedSilence(p) ==
    LET record == led.records[p]
    IN  /\ record.recorded >= 1
        /\ record.recorded + record.missed >= record.budget
        /\ \A i \in 1 .. waiting :
              ~(rx[i].probe = p /\ rx[i].kind = "answer" /\ rx[i].token \in LiveTokens(record))
        /\ ~IsUnreachable(HostOf[p])

SilenceEarned ==
    [][\A p \in Probes :
        (outcome[p] = Unsettled /\ outcome'[p] = "Exhausted") => EarnedSilence(p)]_vars
=============================================================================

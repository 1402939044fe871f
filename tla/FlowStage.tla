------------------------------ MODULE FlowStage ------------------------------
(***************************************************************************)
(* The detection flows run against the ports of one host                   *)
(* (src/detect/flow/stage.rs), with the host contention their exchanges    *)
(* join (src/detect/contention.rs) and the socket permits of the phase     *)
(* (Gate, src/scanner/detection.rs).                                       *)
(*                                                                         *)
(* Each port has a main thread and, while it is wide, up to Width worker   *)
(* threads.  A flow is a number of requests; what an exchange comes to is  *)
(* the network's choice, and the reply cache the flows share only spares   *)
(* some, which a step's guard may do as well.  Every atomic operation on   *)
(* shared state is a step: the permit, the strikes looked at, the visit    *)
(* begun, its end seen, its count dropped with what follows from it.       *)
(***************************************************************************)
EXTENDS Integers, FiniteSets

CONSTANTS Ports,        \* the ports of the host
          FlowsOn,      \* [Ports -> Nat]: how many flows apply to each
          Steps,        \* Steps[p][f]: how many requests flow f makes of port p
          Skipped,      \* <<p, f>>: flows probe_for makes no probe for
          Repeatable,   \* <<p, f>>: flows that leave the target as it was
          Width,        \* DETECTION_FLOW_CONCURRENCY
          MaxStrikes,   \* DEAD_PORT_STRIKES
          Permits,      \* CONNECT_CONCURRENCY, the permits of the Gate
          HalfWord      \* the values of half a contention word

ASSUME StageAssumption ==
    /\ IsFiniteSet(Ports)
    /\ FlowsOn \in [Ports -> Nat \ {0}]
    /\ \A p \in Ports : Steps[p] \in [0 .. FlowsOn[p] - 1 -> Nat \ {0}]
    /\ Width \in Nat \ {0}
    /\ MaxStrikes \in Nat \ {0}
    /\ Permits \in Nat \ {0}
    /\ HalfWord \in Nat /\ Permits < HalfWord

Flows(p) == 0 .. FlowsOn[p] - 1
Main(p) == <<p, 0>>
Workers(p) == {p} \X (1 .. Width)
Threads == Ports \X (0 .. Width)

VARIABLES
    counts,     \* [begun, inFlight]: HostContention's one word
    free,       \* Gate's permits left
    port,       \* what the threads of each port share
    thread,     \* where each thread is, and its flow's probe
    overlapped, \* history: exchanges that shared the host with another
    ledger      \* history, by port: [dead, foreign, runs]

vars == <<counts, free, port, thread, overlapped, ledger>>

\* What an exchange came to: whether it was a dead wait, and the refusal its
\* probe gave.  One of the byte or connection budget, which changes nothing
\* here, counts as "unasked".
NoResult == [dead |-> FALSE, refusal |-> "none"]

\* A thread with no flow in hand.
Idle(at) == [at |-> at, flow |-> 0, step |-> 1, stalled |-> FALSE, crowded |-> FALSE,
             refused |-> "none", company |-> 0, ticket |-> 0, alone |-> FALSE, result |-> NoResult]

Init ==
    /\ counts = [begun |-> 0, inFlight |-> 0]
    /\ free = Permits
    /\ port = [p \in Ports |-> [next |-> 1, narrowed |-> FALSE, again |-> {}, alone |-> {},
                                strikes |-> 0, filed |-> [f \in Flows(p) |-> 0]]]
    /\ thread = [t \in Threads |-> Idle(IF t[2] = 0 THEN "permit" ELSE "off")]
    /\ overlapped = {}
    /\ ledger = [p \in Ports |-> [dead |-> 0, foreign |-> FALSE, runs |-> [f \in Flows(p) |-> 0]]]

Goes(t, at) == thread' = [thread EXCEPT ![t].at = at]

-----------------------------------------------------------------------------
(* One flow: run_one and CachingProbe. *)

\* The thread's flow is over, or was never begun: a first flow decides the
\* port's width, a serial flow is followed by the next, a worker looks for
\* another flow.
AfterFlow(t) == CASE t[2] # 0 -> "check"
                  [] t[2] = 0 /\ thread[t].flow = 0 -> "widen"
                  [] OTHER -> "serial"

\* probe_for: no probe for this flow, so no run of it.
SkipFlow(t) ==
    /\ thread[t].at = "permit"
    /\ <<t[1], thread[t].flow>> \in Skipped
    /\ Goes(t, AfterFlow(t))
    /\ UNCHANGED <<counts, free, port, overlapped, ledger>>

\* Variant for a mutation: a thread woken does not look again for a permit.
AcquireOnceWoken(t) ==
    /\ thread[t].at = "permit"
    /\ <<t[1], thread[t].flow>> \notin Skipped
    /\ free' = free - 1
    /\ Goes(t, "ask")
    /\ ledger' = [ledger EXCEPT ![t[1]].runs[thread[t].flow] = @ + 1]
    /\ UNCHANGED <<counts, port, overlapped>>

\* Gate::acquire, and the flow begins.
Acquire(t) ==
    /\ thread[t].at = "permit"
    /\ <<t[1], thread[t].flow>> \notin Skipped
    /\ free > 0
    /\ free' = free - 1
    /\ Goes(t, "ask")
    /\ ledger' = [ledger EXCEPT ![t[1]].runs[thread[t].flow] = @ + 1]
    /\ UNCHANGED <<counts, port, overlapped>>

Last(t) == thread[t].step = Steps[t[1]][thread[t].flow]

\* After a request: the flow's next, or, always possible, its end, since a
\* step that did not match may halt it.
Advance(t, record) ==
    \/ ~Last(t) /\ thread' = [thread EXCEPT ![t] = [record EXCEPT !.at = "ask", !.step = @ + 1]]
    \/ thread' = [thread EXCEPT ![t] = [record EXCEPT !.at = "over"]]

\* Variant for a mutation: a port given up on is still asked.
GivenUpNever(p) == FALSE

GivenUp(p) == port[p].strikes >= MaxStrikes

\* A step of the flow, and CachingProbe::speak up to the visit.  Nothing is asked
\* if the step's guard is false, if the cache has the whole reply and it is
\* within the flow's budget, or if the port is given up on.
Speak(t) ==
    /\ thread[t].at = "ask"
    /\ \/ Advance(t, thread[t])
       \/ ~GivenUp(t[1]) /\ Goes(t, "enter")
    /\ UNCHANGED <<counts, free, port, overlapped, ledger>>

InExchange == {u \in Threads : thread[u].at = "talk"}

\* Whether the exchange t begins is one port p's shares the host with, another
\* port's being one of the two.
Met(p, t) ==
    IF t[1] = p THEN \E u \in Threads : u[1] # p /\ thread[u].at \in {"talk", "drop"}
    ELSE \E u \in InExchange : u[1] = p

\* HostContention::enter: one fetch_add of both halves.
Enter(t) ==
    /\ thread[t].at = "enter"
    /\ counts' = [begun |-> (counts.begun + 1) % HalfWord, inFlight |-> counts.inFlight + 1]
    /\ thread' = [thread EXCEPT ![t].at = "talk", ![t].company = counts.inFlight,
                                ![t].ticket = counts.begun]
    /\ overlapped' = IF InExchange = {} THEN overlapped \ {t}
                     ELSE overlapped \cup InExchange \cup {t}
    /\ ledger' = [p \in Ports |-> IF Met(p, t) THEN [ledger[p] EXCEPT !.foreign = TRUE]
                                  ELSE ledger[p]]
    /\ UNCHANGED <<free, port>>

\* Variant for a mutation: only the company at the beginning is looked at.
AloneWhenBegun(t) == thread[t].company = 0

\* Visit::leave: nobody in flight when it began, and none begun since.
Alone(t) ==
    /\ thread[t].company = 0
    /\ (counts.begun - thread[t].ticket) % HalfWord = 1

\* What an exchange can come to.  One refused a socket, or withheld by the scan,
\* is no dead wait; and a flow's clock has room for one dead wait, three
\* quarters of it.
Results(t) ==
    {r \in [dead : BOOLEAN, refusal : {"none", "deadline", "unasked"}] :
        r.dead => r.refusal # "unasked" /\ ~thread[t].stalled}

\* The inner probe returns, and leave reads what has begun.
Leave(t) ==
    /\ thread[t].at = "talk"
    /\ \E result \in Results(t) :
        thread' = [thread EXCEPT ![t].at = "drop", ![t].alone = Alone(t), ![t].result = result]
    /\ UNCHANGED <<counts, free, port, overlapped, ledger>>

\* Visit::drop, at the end of leave, and the rest of speak: a dead wait, a
\* strike, a refusal.  They are one step: only a Speak could
\* come between and tell, and it reads nothing the drop writes.
Judge(t) ==
    LET r == thread[t].result
        p == t[1]
        struck == r.dead /\ thread[t].alone
        record == [thread[t] EXCEPT !.crowded = @ \/ ~thread[t].alone,
                                    !.stalled = @ \/ r.dead,
                                    !.refused = IF @ = "none" THEN r.refusal ELSE @,
                                    !.company = 0, !.ticket = 0, !.alone = FALSE,
                                    !.result = NoResult]
    IN  /\ thread[t].at = "drop"
        /\ counts' = [counts EXCEPT !.inFlight = @ - 1]
        /\ port' = [port EXCEPT ![p].strikes = IF struck THEN @ + 1 ELSE @]
        /\ ledger' = [ledger EXCEPT ![p].dead = IF r.dead THEN @ + 1 ELSE @]
        /\ Advance(t, record)
        /\ overlapped' = overlapped \ {t}
        /\ UNCHANGED free

\* CachingProbe::slow.
Slow(t) == thread[t].stalled \/ thread[t].refused = "deadline"

Filed(p, f) == [port EXCEPT ![p].filed[f] = @ + 1]

\* Variant for a mutation: every crowded slow flow is run again.
RunAgainAny(t) == Slow(t) /\ thread[t].crowded

\* A slow flow of a wide port whose wait was partly the queue's doing.
RunAgain(t) == Slow(t) /\ thread[t].crowded /\ <<t[1], thread[t].flow>> \in Repeatable

\* The flow ends: its probe gives the permit back, and a worker narrows the
\* port if it was slow, and files the run or leaves the flow to be run again.
EndFlow(t) ==
    LET p == t[1]
        f == thread[t].flow
    IN  /\ thread[t].at = "over"
        /\ free' = free + 1
        /\ IF t[2] = 0
           THEN /\ port' = Filed(p, f)
                /\ thread' = [thread EXCEPT ![t].at = AfterFlow(t)]
           ELSE /\ port' = IF RunAgain(t)
                           THEN [port EXCEPT ![p].again = @ \cup {f}, ![p].narrowed = TRUE]
                           ELSE [Filed(p, f) EXCEPT ![p].narrowed = @ \/ Slow(t)]
                /\ thread' = [thread EXCEPT ![t] = Idle("check")]
        /\ UNCHANGED <<counts, overlapped, ledger>>

-----------------------------------------------------------------------------
(* One port: detect_port. *)

Rest(p, from) == {f \in Flows(p) : f >= from}

WidthOf(p) == IF Width < FlowsOn[p] - 1 THEN Width ELSE FlowsOn[p] - 1

\* After the first flow: serial if the port was slow to it or has at most two
\* flows, and wide otherwise.
Widen(p) ==
    LET t == Main(p)
        wide == ~Slow(t) /\ WidthOf(p) > 1
    IN  /\ thread[t].at = "widen"
        /\ thread' = [u \in Threads |->
                CASE u = t -> Idle(IF wide THEN "join" ELSE "serial")
                  [] wide /\ u[1] = p /\ u[2] \in 1 .. WidthOf(p) -> Idle("check")
                  [] OTHER -> thread[u]]
        /\ port' = IF wide THEN port ELSE [port EXCEPT ![p].alone = Rest(p, 1)]
        /\ UNCHANGED <<counts, free, overlapped, ledger>>

\* A worker starts no flow on a narrowed port.
CheckNarrowed(t) ==
    /\ thread[t].at = "check"
    /\ Goes(t, IF port[t[1]].narrowed THEN "off" ELSE "take")
    /\ UNCHANGED <<counts, free, port, overlapped, ledger>>

\* next.fetch_add.
TakeFlow(t) ==
    LET f == port[t[1]].next
    IN  /\ thread[t].at = "take"
        /\ port' = [port EXCEPT ![t[1]].next = @ + 1]
        /\ thread' = [thread EXCEPT ![t] =
                IF f \in Flows(t[1]) THEN [Idle("permit") EXCEPT !.flow = f] ELSE Idle("off")]
        /\ UNCHANGED <<counts, free, overlapped, ledger>>

\* Variant for a mutation: the flows to repeat are forgotten.
LeftToRunNoneAgain(p) == Rest(p, port[p].next)

\* What the wide run left or must repeat.
LeftToRun(p) == port[p].again \cup Rest(p, port[p].next)

\* Every worker is gone.
Join(p) ==
    /\ thread[Main(p)].at = "join"
    /\ \A w \in Workers(p) : thread[w].at = "off"
    /\ port' = [port EXCEPT ![p].alone = LeftToRun(p)]
    /\ Goes(Main(p), "serial")
    /\ UNCHANGED <<counts, free, overlapped, ledger>>

\* The next flow of the serial run, in corpus order, or the end of the port.
Serial(p) ==
    LET t == Main(p)
        left == port[p].alone
    IN  /\ thread[t].at = "serial"
        /\ IF left = {}
           THEN /\ thread' = [thread EXCEPT ![t] = Idle("done")]
                /\ UNCHANGED port
           ELSE LET f == CHOOSE g \in left : \A h \in left : g <= h
                IN  /\ port' = [port EXCEPT ![p].alone = @ \ {f}]
                    /\ thread' = [thread EXCEPT ![t] = [Idle("permit") EXCEPT !.flow = f]]
        /\ UNCHANGED <<counts, free, overlapped, ledger>>

Done ==
    /\ \A p \in Ports : thread[Main(p)].at = "done"
    /\ UNCHANGED vars

ThreadStep(t) ==
    \/ SkipFlow(t) \/ Acquire(t) \/ Speak(t) \/ Enter(t) \/ Leave(t)
    \/ Judge(t) \/ EndFlow(t) \/ CheckNarrowed(t) \/ TakeFlow(t)

Next ==
    \/ \E t \in Threads : ThreadStep(t)
    \/ \E p \in Ports : Widen(p) \/ Join(p) \/ Serial(p)
    \/ Done

Spec == Init /\ [][Next]_vars

-----------------------------------------------------------------------------
Places == {"permit", "ask", "enter", "talk", "drop", "over", "widen", "check",
           "take", "join", "serial", "done", "off"}

TypeOK ==
    /\ counts \in [begun : 0 .. HalfWord - 1, inFlight : 0 .. HalfWord - 1]
    /\ free \in 0 .. Permits
    /\ \A p \in Ports : port[p].strikes \in Nat /\ port[p].again \subseteq Flows(p)
                        /\ port[p].alone \subseteq Flows(p)
    /\ \A t \in Threads : thread[t].at \in Places /\ thread[t].flow \in Flows(t[1])
    /\ overlapped \subseteq Threads

\* An exchange is taken to have had the host to itself, the only kind that may
\* strike its port, only if no other exchange with the host was under way at
\* any moment of it: "two steps could let an overlapping conversation go
\* unseen" (HostContention), and the count in flight is dropped a step after
\* the end is judged.
AloneIsAlone ==
    \A t \in Threads : thread[t].alone => t \notin overlapped

Wanted(p) == {f \in Flows(p) : <<p, f>> \notin Skipped}

\* When a port is done every flow it has a probe for has left exactly one run,
\* however its workers met the narrowing: none is lost between `next` and the
\* flag, and none that is run again is filed twice (detect_port).
FiledOnce ==
    \A p \in Ports : thread[Main(p)].at = "done" =>
        \A f \in Flows(p) : port[p].filed[f] = IF f \in Wanted(p) THEN 1 ELSE 0

\* A flow is asked a second time only if it leaves the target as it found it,
\* and never a third (repeatable).
AskedAgainSafely ==
    \A p \in Ports : \A f \in Flows(p) :
        ledger[p].runs[f] <= IF <<p, f>> \in Repeatable THEN 2 ELSE 1

\* "A silent port costs two dead exchanges, plus at most
\* DETECTION_FLOW_CONCURRENCY already running when a wide port was narrowed"
\* (DEAD_PORT_STRIKES), for a port whose exchanges no other port's met.  A
\* port that always shares the host with another silent one is never struck,
\* and costs a dead wait for every flow.
DeadWaitsBounded ==
    \A p \in Ports : ~ledger[p].foreign =>
        ledger[p].dead <= MaxStrikes + (IF port[p].next > 1 THEN Width ELSE 0)
=============================================================================

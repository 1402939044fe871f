-------------------------- MODULE FlowStageProofs --------------------------
(***************************************************************************)
(* Proofs about FlowStage, for any ports, flows, width, strikes, permits   *)
(* and word.                                                               *)
(***************************************************************************)
EXTENDS FlowStage, FiniteSetTheorems, WellFoundedInduction, TLAPS

----------------------------------------------------------------------------
(* Types                                                                   *)

Refusals == {"none", "deadline", "unasked"}
Outcomes == [dead : BOOLEAN, refusal : Refusals]

ThreadRec ==
  [at : Places, flow : Nat, step : Nat, stalled : BOOLEAN, crowded : BOOLEAN,
   refused : Refusals, company : Nat, ticket : Nat, alone : BOOLEAN,
   result : Outcomes]

PortRec(p) ==
  [next : Nat \ {0}, narrowed : BOOLEAN, again : SUBSET Flows(p),
   alone : SUBSET Flows(p), strikes : Nat, filed : [Flows(p) -> Nat]]

LedgerRec(p) == [dead : Nat, foreign : BOOLEAN, runs : [Flows(p) -> Nat]]

Typed ==
  /\ counts \in [begun : 0 .. HalfWord - 1, inFlight : Int]
  /\ free \in Int
  /\ port = [p \in Ports |-> port[p]]
  /\ \A p \in Ports : port[p] \in PortRec(p)
  /\ thread \in [Threads -> ThreadRec]
  /\ \A t \in Threads : thread[t].flow \in Flows(t[1])
  /\ overlapped \subseteq Threads
  /\ ledger = [p \in Ports |-> ledger[p]]
  /\ \A p \in Ports : ledger[p] \in LedgerRec(p)

LEMMA ThreadOf ==
  ASSUME NEW t \in Threads
  PROVE  /\ t[1] \in Ports /\ t[2] \in 0 .. Width /\ t = <<t[1], t[2]>>
         /\ t[2] = 0 => t = Main(t[1])
         /\ t[2] # 0 => t \in Workers(t[1])
BY StageAssumption DEF Threads, Main, Workers

LEMMA ThreadsOf ==
  ASSUME NEW p \in Ports
  PROVE  /\ Main(p) \in Threads /\ Main(p)[1] = p /\ Main(p)[2] = 0
         /\ Main(p) \notin Workers(p)
         /\ Workers(p) \subseteq Threads
         /\ \A w \in Workers(p) : w[1] = p /\ w[2] \in 1 .. Width /\ w[2] # 0
         /\ \A t \in Threads : t[1] = p => t = Main(p) \/ t \in Workers(p)
BY StageAssumption DEF Threads, Main, Workers

LEMMA FlowsOf ==
  ASSUME NEW p \in Ports
  PROVE  /\ FlowsOn[p] \in Nat \ {0} /\ 0 \in Flows(p)
         /\ \A f \in Flows(p) : f \in Nat /\ f <= FlowsOn[p] - 1
         /\ \A f \in Nat : f <= FlowsOn[p] - 1 => f \in Flows(p)
BY StageAssumption DEF Flows

LEMMA IdleTyped ==
  ASSUME NEW at \in Places
  PROVE  Idle(at) \in ThreadRec /\ Idle(at).at = at /\ Idle(at).flow = 0
BY Zenon DEF Idle, ThreadRec, Refusals, Outcomes, NoResult

LEMMA InitTyped == Init => Typed
<1> SUFFICES ASSUME Init PROVE Typed  OBVIOUS
<1>1. HalfWord \in Nat /\ HalfWord > 0 /\ Permits \in Nat  BY StageAssumption
<1>2. counts \in [begun : 0 .. HalfWord - 1, inFlight : Int] /\ free \in Int
      /\ overlapped \subseteq Threads
  BY <1>1 DEF Init
<1>3. \A p \in Ports : port[p] \in PortRec(p)
  BY DEF Init, PortRec
<1>4. \A p \in Ports : ledger[p] \in LedgerRec(p)
  BY Zenon DEF Init, LedgerRec
<1>5. port = [p \in Ports |-> port[p]] /\ ledger = [p \in Ports |-> ledger[p]]
  BY Zenon DEF Init
<1>6. ASSUME NEW t \in Threads
      PROVE  thread[t] \in ThreadRec /\ thread[t].flow \in Flows(t[1])
  <2>1. PICK a \in {"permit", "off"} : thread[t] = Idle(a)  BY Zenon DEF Init
  <2>2. a \in Places  BY Zenon, <2>1 DEF Places
  <2>3. 0 \in Flows(t[1])  BY Zenon, ThreadOf, FlowsOf
  <2> QED  BY Zenon, <2>1, <2>2, <2>3, IdleTyped
<1>7. thread \in [Threads -> ThreadRec]
  BY Zenon, <1>6 DEF Init
<1> QED  BY Zenon, <1>2, <1>3, <1>4, <1>5, <1>6, <1>7 DEF Typed

(* A step of one thread.                                                   *)
OnlyThread(t, r) ==
  /\ r \in ThreadRec /\ r.flow \in Flows(t[1])
  /\ thread' \in [Threads -> ThreadRec] /\ thread'[t] = r
  /\ \A u \in Threads : u # t => thread'[u] = thread[u]
  /\ \A u \in Threads : thread'[u].flow \in Flows(u[1])

LEMMA SetThread ==
  ASSUME Typed, NEW t \in Threads, NEW r \in ThreadRec, r.flow \in Flows(t[1]),
         thread' = [thread EXCEPT ![t] = r]
  PROVE  OnlyThread(t, r)
<1>1. thread \in [Threads -> ThreadRec] /\ \A u \in Threads : thread[u].flow \in Flows(u[1])
  BY Zenon DEF Typed
<1>2. /\ thread' \in [Threads -> ThreadRec] /\ thread'[t] = r
      /\ \A u \in Threads : u # t => thread'[u] = thread[u]
  BY Zenon, <1>1
<1> QED  BY Zenon, <1>1, <1>2 DEF OnlyThread

(* What a record carries over a step that only moves it on.                *)
SameButPlace(r, s) ==
  /\ r.flow = s.flow /\ r.stalled = s.stalled /\ r.crowded = s.crowded
  /\ r.refused = s.refused /\ r.company = s.company /\ r.ticket = s.ticket
  /\ r.alone = s.alone /\ r.result = s.result

LEMMA GoesTo ==
  ASSUME Typed, NEW t \in Threads, NEW a \in Places, Goes(t, a)
  PROVE  /\ OnlyThread(t, [thread[t] EXCEPT !.at = a])
         /\ thread'[t].at = a /\ thread'[t].flow = thread[t].flow
         /\ SameButPlace(thread'[t], thread[t])
<1>1. thread[t] \in ThreadRec /\ thread \in [Threads -> ThreadRec]
      /\ thread[t].flow \in Flows(t[1])
  BY Zenon DEF Typed
<1>2. PICK r : r = [thread[t] EXCEPT !.at = a]  BY Zenon
<1>3. r \in ThreadRec /\ r.at = a /\ r.flow = thread[t].flow
  BY Zenon, <1>1, <1>2 DEF ThreadRec
<1>4. thread' = [thread EXCEPT ![t] = r]
  BY Zenon, <1>2 DEF Goes
<1>5. OnlyThread(t, r)  BY Zenon, <1>1, <1>3, <1>4, SetThread
<1>6. SameButPlace(r, thread[t])  BY Zenon, <1>1, <1>2 DEF ThreadRec, SameButPlace
<1> QED  BY Zenon, <1>2, <1>3, <1>5, <1>6 DEF OnlyThread

(* A step of one port's share.                                             *)
OnlyPort(p, r) ==
  /\ r \in PortRec(p)
  /\ port' = [q \in Ports |-> port'[q]] /\ port'[p] = r
  /\ \A q \in Ports : q # p => port'[q] = port[q]
  /\ \A q \in Ports : port'[q] \in PortRec(q)

LEMMA SetPort ==
  ASSUME Typed, NEW p \in Ports, NEW r \in PortRec(p), port' = [port EXCEPT ![p] = r]
  PROVE  OnlyPort(p, r)
<1>1. port = [q \in Ports |-> port[q]] /\ \A q \in Ports : port[q] \in PortRec(q)
  BY Zenon DEF Typed
<1>2. port' = [q \in Ports |-> IF q = p THEN r ELSE port[q]]
  BY Zenon, <1>1
<1> QED  BY Zenon, <1>1, <1>2 DEF OnlyPort

OnlyLedger(p, r) ==
  /\ r \in LedgerRec(p)
  /\ ledger' = [q \in Ports |-> ledger'[q]] /\ ledger'[p] = r
  /\ \A q \in Ports : q # p => ledger'[q] = ledger[q]
  /\ \A q \in Ports : ledger'[q] \in LedgerRec(q)

LEMMA SetLedger ==
  ASSUME Typed, NEW p \in Ports, NEW r \in LedgerRec(p), ledger' = [ledger EXCEPT ![p] = r]
  PROVE  OnlyLedger(p, r)
<1>1. ledger = [q \in Ports |-> ledger[q]] /\ \A q \in Ports : ledger[q] \in LedgerRec(q)
  BY Zenon DEF Typed
<1>2. ledger' = [q \in Ports |-> IF q = p THEN r ELSE ledger[q]]
  BY Zenon, <1>1
<1> QED  BY Zenon, <1>1, <1>2 DEF OnlyLedger

LEMMA AdvanceFacts ==
  ASSUME Typed, NEW t \in Threads, NEW r \in ThreadRec, r.flow = thread[t].flow,
         Advance(t, r)
  PROVE  /\ OnlyThread(t, thread'[t]) /\ SameButPlace(thread'[t], r)
         /\ \/ ~Last(t) /\ thread'[t].at = "ask" /\ thread'[t].step = r.step + 1
            \/ thread'[t].at = "over" /\ thread'[t].step = r.step
<1>1. thread[t].flow \in Flows(t[1])  BY Zenon DEF Typed
<1>2. CASE ~Last(t) /\ thread' = [thread EXCEPT ![t] = [r EXCEPT !.at = "ask", !.step = @ + 1]]
  <2>1. PICK s : s = [r EXCEPT !.at = "ask", !.step = @ + 1]  OBVIOUS
  <2> r.step \in Nat /\ "ask" \in Places  BY Zenon DEF ThreadRec, Places
  <2>a. s = [r EXCEPT !.at = "ask", !.step = r.step + 1]  BY Zenon, <2>1
  <2>b. s.at = "ask" /\ s.step = r.step + 1  BY Zenon, <2>a DEF ThreadRec
  <2>c. SameButPlace(s, r)  BY Zenon, <2>a DEF ThreadRec, SameButPlace
  <2>d. s \in ThreadRec
    <3>1. PICK n \in Nat : n = r.step + 1  OBVIOUS
    <3>2. PICK a \in Places : a = "ask"  OBVIOUS
    <3>3. s = [r EXCEPT !.at = a, !.step = n]  BY Zenon, <2>a, <3>1, <3>2
    <3> QED  BY Zenon, <3>3 DEF ThreadRec
  <2>2. s \in ThreadRec /\ SameButPlace(s, r) /\ s.at = "ask" /\ s.step = r.step + 1
    BY Zenon, <2>b, <2>c, <2>d
  <2>3. s.flow = r.flow  BY Zenon, <2>2 DEF SameButPlace
  <2>4. OnlyThread(t, s)  BY Zenon, <1>1, <1>2, <2>1, <2>2, <2>3, SetThread
  <2>5. thread'[t] = s  BY Zenon, <2>4 DEF OnlyThread
  <2> QED  BY Zenon, <1>2, <2>2, <2>4, <2>5
<1>3. CASE thread' = [thread EXCEPT ![t] = [r EXCEPT !.at = "over"]]
  <2>1. PICK s : s = [r EXCEPT !.at = "over"]  BY Zenon
  <2>2. s \in ThreadRec /\ SameButPlace(s, r) /\ s.at = "over" /\ s.step = r.step
    BY Zenon, <2>1 DEF ThreadRec, SameButPlace, Places
  <2>3. s.flow = r.flow  BY Zenon, <2>2 DEF SameButPlace
  <2>4. OnlyThread(t, s)  BY Zenon, <1>1, <1>3, <2>1, <2>2, <2>3, SetThread
  <2>5. thread'[t] = s  BY Zenon, <2>4 DEF OnlyThread
  <2> QED  BY Zenon, <2>2, <2>4, <2>5
<1> QED  BY Zenon, <1>2, <1>3 DEF Advance

Repeated(t) == t[2] # 0 /\ RunAgain(t)

(* The record of a thread that sets out with flow f.                       *)
LEMMA FlowInHand ==
  ASSUME NEW f \in Nat, NEW r, r = [Idle("permit") EXCEPT !.flow = f]
  PROVE  /\ r \in ThreadRec /\ r.at = "permit" /\ r.flow = f /\ r.step = 1
         /\ r.stalled = FALSE /\ r.alone = FALSE /\ r.result = NoResult
<1>1. Idle("permit") \in ThreadRec  BY Zenon, IdleTyped DEF Places
<1>2. r \in ThreadRec  BY Zenon, <1>1 DEF ThreadRec
<1>3. r = [at |-> "permit", flow |-> f, step |-> 1, stalled |-> FALSE, crowded |-> FALSE,
           refused |-> "none", company |-> 0, ticket |-> 0, alone |-> FALSE, result |-> NoResult]
  BY Zenon DEF Idle
<1> QED  BY <1>2, <1>3

LEMMA LeastOne ==
  ASSUME NEW T, T \subseteq Nat, T # {}
  PROVE  \E x \in T : \A y \in T : x <= y
<1> DEFINE R == OpToRel(<, Nat)
<1>1. IsWellFoundedOn(R, Nat)  BY Zenon, NatLessThanWellFounded
<1>2. \A x, y \in Nat : x < y => <<x, y>> \in R
  BY Zenon DEF OpToRel
<1> HIDE DEF R
<1>3. PICK x \in T : \A y \in T : ~ (<<y, x>> \in R)
  BY Zenon, <1>1, WFMin
<1>4. ASSUME NEW y \in T PROVE x <= y
  <2>1. x \in Nat /\ y \in Nat  OBVIOUS
  <2>2. ~ (y < x)  BY Zenon, <1>2, <1>3, <2>1
  <2> QED  BY <2>1, <2>2
<1> QED  BY Zenon, <1>4

----------------------------------------------------------------------------
(* The inductive invariant                                                 *)

(* A thread has a flow in hand, and holds a permit for it.                 *)
Running == {"permit", "ask", "enter", "talk", "drop", "over"}
Begun == {"ask", "enter", "talk", "drop", "over"}
Looking == {"check", "take", "off"}

(* The phases of a port: its first flow, its workers, what is left.        *)
First(p) ==
  \/ thread[Main(p)].at = "widen"
  \/ thread[Main(p)].at \in Running /\ thread[Main(p)].flow = 0
Wide(p) == thread[Main(p)].at = "join"

(* Workers run only while the main thread waits for them, each a flow of   *)
(* its own, taken from `next` and not one to be run again.                 *)
Shape(p) ==
  /\ thread[Main(p)].at \in Running \cup {"widen", "join", "serial", "done"}
  /\ \A w \in Workers(p) :
       /\ thread[w].at \in Running \cup Looking
       /\ ~Wide(p) => thread[w].at = "off"
       /\ thread[w].at \in Running =>
             /\ thread[w].flow >= 1 /\ thread[w].flow < port[p].next
             /\ thread[w].flow \notin port[p].again
             /\ \A v \in Workers(p) :
                  v # w /\ thread[v].at \in Running => thread[v].flow # thread[w].flow
  /\ First(p) => port[p].next = 1
  /\ First(p) \/ Wide(p) \/ thread[Main(p)].at = "done" => port[p].alone = {}
  /\ \A f \in port[p].again : f >= 1 /\ f < port[p].next
  /\ 0 \notin port[p].alone
  /\ thread[Main(p)].at = "widen" => thread[Main(p)].flow = 0

(* The flows nobody has set out with, or that are to be run again.         *)
Pending(p) ==
  IF First(p) THEN Flows(p) \ {0}
  ELSE IF Wide(p) THEN LeftToRun(p) ELSE port[p].alone

Holds(t, f, places) == thread[t].at \in places /\ thread[t].flow = f
Held(p, f, places) == \E t \in Threads : t[1] = p /\ Holds(t, f, places)
Before(p, f) == IF f \in port[p].again THEN 1 ELSE 0

(* Where a flow is, and what it has cost and left by then.                 *)
Once(p, f) ==
  /\ f \in port[p].again => <<p, f>> \in Repeatable
  /\ f \in Pending(p) =>
       /\ ~Held(p, f, Running)
       /\ port[p].filed[f] = 0 /\ ledger[p].runs[f] = Before(p, f)
  /\ Held(p, f, {"permit"}) =>
       port[p].filed[f] = 0 /\ ledger[p].runs[f] = Before(p, f)
  /\ Held(p, f, Begun) =>
       /\ port[p].filed[f] = 0 /\ ledger[p].runs[f] = Before(p, f) + 1
       /\ f \in Wanted(p)
  /\ f \notin Pending(p) /\ ~Held(p, f, Running) =>
       /\ port[p].filed[f] = IF f \in Wanted(p) THEN 1 ELSE 0
       /\ ledger[p].runs[f] <= Before(p, f) + 1

(* The Gate's permits and the count in flight tell what they are meant to. *)
Counting ==
  /\ free >= 0
  /\ free = Permits - Cardinality({t \in Threads : thread[t].at \in Begun})
  /\ counts.inFlight = Cardinality({t \in Threads : thread[t].at \in {"talk", "drop"}})

(* The workers that can have no further dead wait: the flow in hand had    *)
(* its own, or the port is narrowed and the worker will take no other.     *)
Spent(p) ==
  {w \in Workers(p) : \/ thread[w].stalled
                      \/ port[p].narrowed /\ thread[w].at \in {"check", "off"}}

Asking == {"enter", "talk", "drop"}
Fit(r) ==
  /\ r.stalled => r.at \in Begun
  /\ r.at = "drop" /\ r.result.dead => ~r.stalled

Narrowing(p) == port[p].narrowed => port[p].next > 1
Striking(p) == thread[Main(p)].at \in Asking => port[p].strikes < MaxStrikes

(* An exchange of the main thread that no other port's met has the host to *)
(* itself, and is taken to have had it.                                    *)
ByItself(p) ==
  ~ledger[p].foreign =>
    /\ thread[Main(p)].at = "talk" =>
         /\ thread[Main(p)].company = 0 /\ thread[Main(p)].ticket \in 0 .. HalfWord - 1
         /\ counts.begun = (thread[Main(p)].ticket + 1) % HalfWord
    /\ thread[Main(p)].at = "drop" => thread[Main(p)].alone

(* Every dead wait is a strike or was some worker's last.                  *)
Bounded(p) ==
  ~ledger[p].foreign =>
    \E k \in 0 .. MaxStrikes :
      k <= port[p].strikes /\ ledger[p].dead <= k + Cardinality(Spent(p))

Waits(p) ==
  /\ Narrowing(p) /\ Striking(p) /\ ByItself(p) /\ Bounded(p)
  /\ \A w \in Workers(p) : Fit(thread[w])

Settled(p) == Shape(p) /\ \A f \in Flows(p) : Once(p, f)

Inv ==
  /\ Typed /\ Counting
  /\ \A p \in Ports : Settled(p)
  /\ \A p \in Ports : Waits(p)

----------------------------------------------------------------------------
(* One port                                                                *)

(* No two threads of a port have the same flow in hand.                    *)
LEMMA Sole ==
  ASSUME NEW p \in Ports, Shape(p), NEW t \in Threads, NEW u \in Threads,
         t[1] = p, u[1] = p, t # u,
         thread[t].at \in Running, thread[u].at \in Running
  PROVE  thread[t].flow # thread[u].flow
<1>1. t = Main(p) \/ t \in Workers(p)  BY Zenon, ThreadsOf
<1>2. u = Main(p) \/ u \in Workers(p)  BY Zenon, ThreadsOf
<1>3. \A w \in Workers(p) : thread[w].at \in Running => thread[Main(p)].at \notin Running
  BY Zenon DEF Shape, Wide, Running
<1>4. t \in Workers(p) /\ u \in Workers(p)  BY Zenon, <1>1, <1>2, <1>3
<1> QED  BY Zenon, <1>4 DEF Shape

(* A step in which no thread of the port takes or leaves a flow.           *)
SameRole(r, s) ==
  /\ s.flow = r.flow
  /\ \/ s.at = r.at
     \/ s.at \in Begun /\ r.at \in Begun
     \/ s.at \in Looking /\ r.at \in {"check", "take"}

Alike(r, s) ==
  /\ s.flow = r.flow
  /\ \/ s.at = r.at
     \/ s.at \in Running /\ r.at \in Running
     \/ s.at \in Looking /\ r.at \in {"check", "take"}

SameShare(p) ==
  /\ port'[p].next = port[p].next /\ port'[p].again = port[p].again
  /\ port'[p].alone = port[p].alone

LEMMA AlikeShape ==
  ASSUME NEW p \in Ports, Shape(p), SameShare(p),
         \A u \in Threads : u[1] = p => Alike(thread[u], thread'[u])
  PROVE  /\ Shape(p)' /\ Pending(p)' = Pending(p)
         /\ (First(p)' <=> First(p)) /\ (Wide(p)' <=> Wide(p))
<1>1. Alike(thread[Main(p)], thread'[Main(p)])  BY Zenon, ThreadsOf
<1>2. \A w \in Workers(p) : Alike(thread[w], thread'[w])  BY Zenon, ThreadsOf
<1>3. thread'[Main(p)].flow = thread[Main(p)].flow
      /\ \/ thread'[Main(p)].at = thread[Main(p)].at
         \/ thread'[Main(p)].at \in Running /\ thread[Main(p)].at \in Running
  BY Zenon, <1>1 DEF Alike, Shape, Looking, Running
<1>4. /\ First(p)' <=> First(p)
      /\ Wide(p)' <=> Wide(p)
      /\ thread'[Main(p)].at \in Running \cup {"widen", "join", "serial", "done"}
      /\ thread'[Main(p)].at = "done" => thread[Main(p)].at = "done"
      /\ thread'[Main(p)].at = "widen" => thread[Main(p)].at = "widen"
  BY Zenon, <1>3 DEF First, Wide, Shape, Running, Begun
<1>5. \A w \in Workers(p) : /\ thread'[w].at \in Running <=> thread[w].at \in Running
                            /\ thread'[w].flow = thread[w].flow
                            /\ thread'[w].at \in Running \cup Looking
                            /\ thread[w].at = "off" => thread'[w].at = "off"
  BY Zenon, <1>2 DEF Alike, Shape, Running, Begun, Looking
<1>6. Shape(p)'
  <2>1. \A w \in Workers(p) :
       /\ thread'[w].at \in Running \cup Looking
       /\ ~Wide(p)' => thread'[w].at = "off"
       /\ thread'[w].at \in Running =>
             /\ thread'[w].flow >= 1 /\ thread'[w].flow < port'[p].next
             /\ thread'[w].flow \notin port'[p].again
             /\ \A v \in Workers(p) :
                  v # w /\ thread'[v].at \in Running => thread'[v].flow # thread'[w].flow
    BY <1>4, <1>5 DEF Shape, SameShare
  <2>2. /\ First(p)' => port'[p].next = 1
        /\ First(p)' \/ Wide(p)' \/ thread'[Main(p)].at = "done" => port'[p].alone = {}
        /\ \A f \in port'[p].again : f >= 1 /\ f < port'[p].next
        /\ 0 \notin port'[p].alone
        /\ thread'[Main(p)].at = "widen" => thread'[Main(p)].flow = 0
    BY Zenon, <1>3, <1>4 DEF Shape, SameShare
  <2> QED  BY Zenon, <1>4, <2>1, <2>2 DEF Shape
<1>7. LeftToRun(p)' = LeftToRun(p)  BY Zenon DEF LeftToRun, Rest, SameShare
<1>8. Pending(p)' = Pending(p)  BY Zenon, <1>4, <1>7 DEF Pending, SameShare
<1> QED  BY Zenon, <1>4, <1>6, <1>8

(* A flow of which nothing changes.                                        *)
LEMMA OnceKept ==
  ASSUME NEW p \in Ports, NEW f \in Flows(p), Once(p, f),
         f \in Pending(p)' <=> f \in Pending(p),
         f \in port'[p].again <=> f \in port[p].again,
         port'[p].filed[f] = port[p].filed[f], ledger'[p].runs[f] = ledger[p].runs[f],
         Held(p, f, Running)' <=> Held(p, f, Running),
         Held(p, f, Begun)' <=> Held(p, f, Begun),
         Held(p, f, {"permit"})' <=> Held(p, f, {"permit"})
  PROVE  Once(p, f)'
<1>1. Before(p, f)' = Before(p, f)  BY Zenon DEF Before
<1>2. Wanted(p)' = Wanted(p)  BY Zenon DEF Wanted
<1> QED  BY Zenon, <1>1, <1>2 DEF Once

LEMMA SameRolesSettled ==
  ASSUME NEW p \in Ports, Settled(p), SameShare(p),
         port'[p].filed = port[p].filed, ledger'[p].runs = ledger[p].runs,
         \A u \in Threads : u[1] = p => SameRole(thread[u], thread'[u])
  PROVE  Settled(p)'
<1>0. \A u \in Threads : u[1] = p => Alike(thread[u], thread'[u])
  BY Zenon DEF Alike, SameRole, Begun, Running
<1>1. Shape(p)' /\ Pending(p)' = Pending(p)  BY Zenon, <1>0, AlikeShape DEF Settled
<1>2. ASSUME NEW f \in Flows(p) PROVE Once(p, f)'
  <2>1. \A u \in Threads : u[1] = p =>
           /\ Holds(u, f, Running)' <=> Holds(u, f, Running)
           /\ Holds(u, f, Begun)' <=> Holds(u, f, Begun)
           /\ Holds(u, f, {"permit"})' <=> Holds(u, f, {"permit"})
    BY Zenon DEF Holds, SameRole, Running, Begun, Looking
  <2>2. /\ Held(p, f, Running)' <=> Held(p, f, Running)
        /\ Held(p, f, Begun)' <=> Held(p, f, Begun)
        /\ Held(p, f, {"permit"})' <=> Held(p, f, {"permit"})
    BY Zenon, <2>1 DEF Held
  <2>3. Once(p, f)  BY Zenon DEF Settled
  <2> QED  BY Zenon, <1>1, <2>2, <2>3, OnceKept DEF SameShare
<1> QED  BY Zenon, <1>1, <1>2 DEF Settled

(* A port none of whose threads moves.                                     *)
LEMMA OtherPort ==
  ASSUME NEW p \in Ports, Settled(p), port'[p] = port[p], ledger'[p].runs = ledger[p].runs,
         \A u \in Threads : u[1] = p => thread'[u] = thread[u]
  PROVE  Settled(p)'
<1>1. \A u \in Threads : u[1] = p => SameRole(thread[u], thread'[u])  BY Zenon DEF SameRole
<1>2. SameShare(p)  BY Zenon DEF SameShare
<1> QED  BY Zenon, <1>1, <1>2, SameRolesSettled

(* A thread takes or leaves a flow g: the others are as they were.         *)
LEMMA OtherFlow ==
  ASSUME NEW p \in Ports, NEW t \in Threads, t[1] = p,
         NEW f \in Flows(p), Once(p, f),
         \A u \in Threads : u # t => thread'[u] = thread[u],
         thread[t].at \in Running => thread[t].flow # f,
         thread'[t].at \in Running => thread'[t].flow # f,
         f \in Pending(p)' <=> f \in Pending(p),
         f \in port'[p].again <=> f \in port[p].again,
         port'[p].filed[f] = port[p].filed[f], ledger'[p].runs[f] = ledger[p].runs[f]
  PROVE  Once(p, f)'
<1>1. Begun \subseteq Running /\ {"permit"} \subseteq Running  BY Zenon DEF Begun, Running
<1>2. ASSUME NEW B, B \subseteq Running PROVE Held(p, f, B)' <=> Held(p, f, B)
  <2>1. ~Holds(t, f, B) /\ ~Holds(t, f, B)'  BY Zenon, <1>2 DEF Holds
  <2>2. \A u \in Threads : Holds(u, f, B)' <=> Holds(u, f, B)
    BY Zenon, <2>1 DEF Holds
  <2> QED  BY Zenon, <2>2 DEF Held
<1>3. /\ Held(p, f, Running)' <=> Held(p, f, Running)
      /\ Held(p, f, Begun)' <=> Held(p, f, Begun)
      /\ Held(p, f, {"permit"})' <=> Held(p, f, {"permit"})
  BY Zenon, <1>1, <1>2
<1> QED  BY Zenon, <1>3, OnceKept

(* The only thread with flow f in hand: where the flow is held is where    *)
(* that thread is.                                                         *)
LEMMA OwnFlow ==
  ASSUME NEW p \in Ports, Shape(p), NEW t \in Threads, t[1] = p,
         thread[t].at \in Running,
         \A u \in Threads : u # t => thread'[u] = thread[u]
  PROVE  \A B : B \subseteq Running =>
           /\ Held(p, thread[t].flow, B) <=> thread[t].at \in B
           /\ thread'[t].flow = thread[t].flow \/ thread'[t].at \notin B =>
                (\E u \in Threads : u[1] = p /\ thread'[u].at \in B
                                    /\ thread'[u].flow = thread[t].flow)
                  <=> thread'[t].at \in B
<1> SUFFICES ASSUME NEW B, B \subseteq Running
             PROVE  /\ Held(p, thread[t].flow, B) <=> thread[t].at \in B
                    /\ thread'[t].flow = thread[t].flow \/ thread'[t].at \notin B =>
                         (\E u \in Threads : u[1] = p /\ thread'[u].at \in B
                                    /\ thread'[u].flow = thread[t].flow)
                           <=> thread'[t].at \in B
  OBVIOUS
<1>1. \A u \in Threads : u # t /\ u[1] = p /\ thread[u].at \in B => thread[u].flow # thread[t].flow
  BY Zenon, Sole
<1>2. Held(p, thread[t].flow, B) <=> thread[t].at \in B
  BY Zenon, <1>1 DEF Held, Holds
<1>3. \A u \in Threads : u # t /\ u[1] = p /\ thread'[u].at \in B => thread'[u].flow # thread[t].flow
  BY Zenon, <1>1
<1> QED  BY Zenon, <1>2, <1>3

LEMMA ThreadsFinite == IsFiniteSet(Threads)
<1>1. IsFiniteSet(Ports) /\ IsFiniteSet(0 .. Width)
  BY StageAssumption, FS_Interval
<1> QED  BY Zenon, <1>1, FS_Product DEF Threads

LEMMA CountIn ==
  ASSUME NEW B
  PROVE  /\ IsFiniteSet({u \in Threads : thread[u].at \in B})
         /\ Cardinality({u \in Threads : thread[u].at \in B}) \in Nat
<1>1. {u \in Threads : thread[u].at \in B} \subseteq Threads  OBVIOUS
<1>2. IsFiniteSet({u \in Threads : thread[u].at \in B})
  BY Zenon, <1>1, ThreadsFinite, FS_Subset
<1> QED  BY Zenon, <1>2, FS_CardinalityType

(* How many threads are at some places, when one moves.                    *)
LEMMA CountStep ==
  ASSUME NEW t \in Threads, NEW B,
         \A u \in Threads : u # t => thread'[u].at = thread[u].at
  PROVE  LET now == {u \in Threads : thread[u].at \in B}
             then == {u \in Threads : thread'[u].at \in B}
         IN  /\ (thread[t].at \in B <=> thread'[t].at \in B) => then = now
             /\ thread[t].at \notin B /\ thread'[t].at \in B =>
                  Cardinality(then) = Cardinality(now) + 1
             /\ thread[t].at \in B /\ thread'[t].at \notin B =>
                  Cardinality(then) = Cardinality(now) - 1
<1> DEFINE now == {u \in Threads : thread[u].at \in B}
           then == {u \in Threads : thread'[u].at \in B}
<1>1. IsFiniteSet(now) /\ Cardinality(now) \in Nat  BY Zenon, CountIn
<1>2. (thread[t].at \in B <=> thread'[t].at \in B) => then = now  OBVIOUS
<1>3. ASSUME thread[t].at \notin B, thread'[t].at \in B
      PROVE  Cardinality(then) = Cardinality(now) + 1
  <2>1. then = now \cup {t} /\ t \notin now  BY Zenon, <1>3
  <2> QED  BY Zenon, <1>1, <2>1, FS_AddElement
<1>4. ASSUME thread[t].at \in B, thread'[t].at \notin B
      PROVE  Cardinality(then) = Cardinality(now) - 1
  <2>1. then = now \ {t} /\ t \in now  BY Zenon, <1>4
  <2> QED  BY Zenon, <1>1, <2>1, FS_RemoveElement
<1> QED  BY Zenon, <1>2, <1>3, <1>4

----------------------------------------------------------------------------
(* Dead waits                                                              *)

LEMMA SpentSize ==
  ASSUME NEW p \in Ports
  PROVE  /\ IsFiniteSet(Spent(p)) /\ Cardinality(Spent(p)) \in Nat
         /\ Cardinality(Spent(p)) <= Width
         /\ IsFiniteSet(Spent(p)') /\ Cardinality(Spent(p)') \in Nat
<1>1. Width \in Nat  BY StageAssumption
<1>2. IsFiniteSet({p}) /\ Cardinality({p}) = 1  BY FS_Singleton
<1>3. IsFiniteSet(1 .. Width) /\ Cardinality(1 .. Width) = Width  BY <1>1, FS_Interval
<1>4. IsFiniteSet(Workers(p)) /\ Cardinality(Workers(p)) = 1 * Width
  <2>1. PICK S, T : S = {p} /\ T = 1 .. Width  OBVIOUS
  <2>2. /\ IsFiniteSet(S) /\ Cardinality(S) = 1
        /\ IsFiniteSet(T) /\ Cardinality(T) = Width
        /\ Workers(p) = S \X T
    BY Zenon, <1>2, <1>3, <2>1 DEF Workers
  <2>3. IsFiniteSet(S \X T) /\ Cardinality(S \X T) = Cardinality(S) * Cardinality(T)
    BY Zenon, <2>2, FS_Product
  <2> QED  BY Zenon, <2>2, <2>3
<1>5. Spent(p) \subseteq Workers(p)  BY Zenon DEF Spent
<1>6. IsFiniteSet(Spent(p)) /\ Cardinality(Spent(p)) <= Cardinality(Workers(p))
  BY Zenon, <1>4, <1>5, FS_Subset
<1>7. Cardinality(Spent(p)) \in Nat  BY Zenon, <1>6, FS_CardinalityType
<1>8. Spent(p)' \subseteq Workers(p)  BY Zenon DEF Spent
<1>9. IsFiniteSet(Spent(p)') /\ Cardinality(Spent(p)') \in Nat
  BY Zenon, <1>4, <1>8, FS_Subset, FS_CardinalityType
<1> QED  BY <1>1, <1>4, <1>6, <1>7, <1>9

(* No dead wait, and no worker gets another chance of one.                 *)
LEMMA BoundedKept ==
  ASSUME Typed, Typed', NEW p \in Ports, Bounded(p), Spent(p) \subseteq Spent(p)',
         ledger[p].foreign => ledger'[p].foreign, ledger'[p].dead = ledger[p].dead,
         port'[p].strikes = port[p].strikes
  PROVE  Bounded(p)'
<1> SUFFICES ASSUME ~ledger'[p].foreign
             PROVE  \E k \in 0 .. MaxStrikes :
                      k <= port'[p].strikes /\ ledger'[p].dead <= k + Cardinality(Spent(p)')
  BY Zenon DEF Bounded
<1>1. PICK k \in 0 .. MaxStrikes :
        k <= port[p].strikes /\ ledger[p].dead <= k + Cardinality(Spent(p))
  BY Zenon DEF Bounded
<1>2. Cardinality(Spent(p)) \in Nat /\ Cardinality(Spent(p)') \in Nat
      /\ Cardinality(Spent(p)) <= Cardinality(Spent(p)')
  BY Zenon, SpentSize, FS_Subset
<1>3. ledger[p].dead \in Nat /\ k \in Int  BY StageAssumption DEF Typed, LedgerRec
<1>4. ledger'[p].dead <= k + Cardinality(Spent(p)')  BY <1>1, <1>2, <1>3
<1> QED  BY Zenon, <1>1, <1>4

(* A step of a thread, but for whether it is a dead wait.                  *)
LEMMA OwnWaits ==
  ASSUME NEW p \in Ports, Shape(p), Waits(p),
         NEW t \in Threads, t[1] = p, thread[t].at # "off", OnlyThread(t, thread'[t]),
         port[p].narrowed => port'[p].narrowed, Narrowing(p)',
         t[2] # 0 => Fit(thread'[t]),
         t[2] = 0 => thread'[t].at \notin Asking \/ (Striking(p)' /\ ByItself(p)'),
         t \in Spent(p) => t \in Spent(p)'
  PROVE  /\ Spent(p) \subseteq Spent(p)'
         /\ Bounded(p)' => Waits(p)'
<1>1. \A w \in Workers(p) : w \in Threads /\ w[2] # 0  BY Zenon, ThreadsOf
<1>2. \A u \in Threads : u # t => thread'[u] = thread[u]  BY Zenon DEF OnlyThread
<1>3. Spent(p) \subseteq Spent(p)'  BY Zenon, <1>1, <1>2 DEF Spent
<1>4. \A w \in Workers(p) : Fit(thread'[w])  BY Zenon, <1>1, <1>2 DEF Waits
<1>5. Striking(p)' /\ ByItself(p)'
  <2>1. CASE t[2] = 0
    <3>1. t = Main(p)  BY Zenon, <2>1, ThreadOf
    <3>2. thread'[t].at \notin Asking => Striking(p)' /\ ByItself(p)'
      BY <3>1 DEF Striking, ByItself, Asking
    <3> QED  BY Zenon, <2>1, <3>2
  <2>2. CASE t[2] # 0
    <3>1. t \in Workers(p) /\ t # Main(p) /\ Main(p) \in Threads
      BY Zenon, <2>2, ThreadOf, ThreadsOf
    <3>2. Wide(p) /\ thread'[Main(p)] = thread[Main(p)]  BY Zenon, <1>2, <3>1 DEF Shape
    <3>3. thread'[Main(p)].at = "join"  BY Zenon, <3>2 DEF Wide
    <3> QED  BY <3>3 DEF Striking, ByItself, Asking
  <2> QED  BY Zenon, <2>1, <2>2
<1> QED  BY Zenon, <1>3, <1>4, <1>5 DEF Waits

(* A port none of whose threads moves.                                     *)
LEMMA WaitsElsewhere ==
  ASSUME Typed, Typed', NEW p \in Ports, Waits(p), port'[p] = port[p],
         \A u \in Threads : u[1] = p => thread'[u] = thread[u],
         ledger'[p].dead = ledger[p].dead, ledger[p].foreign => ledger'[p].foreign,
         ~ledger'[p].foreign /\ thread[Main(p)].at = "talk" => counts'.begun = counts.begun
  PROVE  Waits(p)'
<1>1. \A w \in Workers(p) : thread'[w] = thread[w]
  <2>1. \A w \in Workers(p) : w \in Threads /\ w[1] = p  BY Zenon, ThreadsOf
  <2> QED  BY Zenon, <2>1
<1>2. thread'[Main(p)] = thread[Main(p)]  BY Zenon, ThreadsOf
<1>3. Spent(p)' = Spent(p)  BY Zenon, <1>1 DEF Spent
<1>4. Bounded(p)'  BY Zenon, <1>3, BoundedKept DEF Waits
<1>5. Narrowing(p)' /\ Striking(p)'  BY Zenon, <1>2 DEF Waits, Narrowing, Striking
<1>6. ByItself(p)'  BY Zenon, <1>2 DEF Waits, ByItself
<1>7. \A w \in Workers(p) : Fit(thread'[w])  BY Zenon, <1>1 DEF Waits
<1> QED  BY Zenon, <1>4, <1>5, <1>6, <1>7 DEF Waits

LEMMA WorkerFits ==
  ASSUME Inv, NEW t \in Threads, t[2] # 0
  PROVE  Fit(thread[t])
<1>1. t[1] \in Ports /\ t \in Workers(t[1])  BY Zenon, ThreadOf
<1> QED  BY Zenon, <1>1 DEF Inv, Waits

(* A step of a thread in which no dead wait ends and no exchange begins.   *)
LEMMA QuietWaits ==
  ASSUME Inv, Typed', NEW t \in Threads, OnlyThread(t, thread'[t]), thread[t].at # "off",
         counts'.begun = counts.begun,
         \A q \in Ports : /\ ledger'[q].dead = ledger[q].dead
                          /\ ledger'[q].foreign = ledger[q].foreign
                          /\ q # t[1] => port'[q] = port[q],
         port'[t[1]].strikes = port[t[1]].strikes,
         port'[t[1]].next \in {port[t[1]].next, port[t[1]].next + 1},
         port[t[1]].narrowed => port'[t[1]].narrowed,
         port'[t[1]].narrowed => port[t[1]].narrowed \/ port'[t[1]].next > 1,
         t[2] # 0 => Fit(thread'[t]),
         t[2] = 0 => thread'[t].at \notin Asking \/ (Striking(t[1])' /\ ByItself(t[1])'),
         t \in Spent(t[1]) => t \in Spent(t[1])'
  PROVE  \A q \in Ports : Waits(q)'
<1>1. PICK p \in Ports : p = t[1]  BY Zenon, ThreadOf
<1>2. Typed /\ Shape(p) /\ \A q \in Ports : Waits(q)  BY Zenon DEF Inv, Settled
<1>3. Narrowing(p)'
  <2>1. port[p].next \in Nat  BY <1>2 DEF Typed, PortRec
  <2>2. Narrowing(p)  BY Zenon, <1>2 DEF Waits
  <2> QED  BY <1>1, <2>1, <2>2 DEF Narrowing
<1>4. Spent(p) \subseteq Spent(p)' /\ (Bounded(p)' => Waits(p)')
  BY Zenon, <1>1, <1>2, <1>3, OwnWaits
<1>5. Bounded(p)'  BY Zenon, <1>1, <1>2, <1>4, BoundedKept DEF Waits
<1>6. ASSUME NEW q \in Ports, q # p PROVE Waits(q)'
  <2>1. \A u \in Threads : u[1] = q => thread'[u] = thread[u]
    BY Zenon, <1>1, <1>6 DEF OnlyThread
  <2> QED  BY Zenon, <1>1, <1>2, <1>6, <2>1, WaitsElsewhere
<1> QED  BY Zenon, <1>4, <1>5, <1>6

----------------------------------------------------------------------------
(* The steps of a thread that keeps its flow                               *)

LEMMA QuietStep ==
  ASSUME Inv, NEW t \in Threads, OnlyThread(t, thread'[t]),
         SameRole(thread[t], thread'[t]),
         \A p \in Ports : /\ SameShare(p) /\ port'[p].filed = port[p].filed
                          /\ ledger'[p].runs = ledger[p].runs
  PROVE  \A p \in Ports : Settled(p)'
<1> SUFFICES ASSUME NEW p \in Ports PROVE Settled(p)'  OBVIOUS
<1>1. \A u \in Threads : SameRole(thread[u], thread'[u])
  BY Zenon DEF OnlyThread, SameRole
<1>2. Settled(p)  BY Zenon DEF Inv
<1> QED  BY Zenon, <1>1, <1>2, SameRolesSettled

Talking == {"talk", "drop"}

(* Counting, from what a step does to the two counts.                      *)
LEMMA CountingKept ==
  ASSUME Inv, NEW t \in Threads, OnlyThread(t, thread'[t]),
         free' = (IF thread[t].at \in Begun
                  THEN IF thread'[t].at \in Begun THEN free ELSE free + 1
                  ELSE IF thread'[t].at \in Begun THEN free - 1 ELSE free),
         thread[t].at \notin Begun /\ thread'[t].at \in Begun => free > 0,
         counts'.inFlight =
                 (IF thread[t].at \in Talking
                  THEN IF thread'[t].at \in Talking THEN counts.inFlight ELSE counts.inFlight - 1
                  ELSE IF thread'[t].at \in Talking THEN counts.inFlight + 1 ELSE counts.inFlight)
  PROVE  Counting'
<1>1. \A u \in Threads : u # t => thread'[u].at = thread[u].at  BY Zenon DEF OnlyThread
<1> DEFINE B == {u \in Threads : thread[u].at \in Begun}
           C == {u \in Threads : thread'[u].at \in Begun}
           D == {u \in Threads : thread[u].at \in Talking}
           E == {u \in Threads : thread'[u].at \in Talking}
<1>2. Cardinality(B) \in Nat /\ Cardinality(D) \in Nat  BY Zenon, CountIn
<1>3. /\ (thread[t].at \in Begun <=> thread'[t].at \in Begun) => C = B
      /\ thread[t].at \notin Begun /\ thread'[t].at \in Begun =>
           Cardinality(C) = Cardinality(B) + 1
      /\ thread[t].at \in Begun /\ thread'[t].at \notin Begun =>
           Cardinality(C) = Cardinality(B) - 1
  BY Zenon, <1>1, CountStep
<1>4. /\ (thread[t].at \in Talking <=> thread'[t].at \in Talking) => E = D
      /\ thread[t].at \notin Talking /\ thread'[t].at \in Talking =>
           Cardinality(E) = Cardinality(D) + 1
      /\ thread[t].at \in Talking /\ thread'[t].at \notin Talking =>
           Cardinality(E) = Cardinality(D) - 1
  BY Zenon, <1>1, CountStep
<1>5. free >= 0 /\ free = Permits - Cardinality(B) /\ counts.inFlight = Cardinality(D)
  BY Zenon DEF Inv, Counting, Talking
<1>6. Permits \in Nat  BY Zenon, StageAssumption
<1> HIDE DEF B, C, D, E
<1>7. free' = Permits - Cardinality(C)
  <2>1. CASE thread[t].at \in Begun <=> thread'[t].at \in Begun  BY Zenon, <1>3, <1>5, <2>1
  <2>2. CASE thread[t].at \in Begun /\ thread'[t].at \notin Begun
    BY <1>2, <1>3, <1>5, <1>6, <2>2
  <2>3. CASE thread[t].at \notin Begun /\ thread'[t].at \in Begun
    BY <1>2, <1>3, <1>5, <1>6, <2>3
  <2> QED  BY Zenon, <2>1, <2>2, <2>3
<1>8. counts'.inFlight = Cardinality(E)
  <2>1. CASE thread[t].at \in Talking <=> thread'[t].at \in Talking  BY Zenon, <1>4, <1>5, <2>1
  <2>2. CASE thread[t].at \in Talking /\ thread'[t].at \notin Talking
    BY Zenon, <1>2, <1>4, <1>5, <2>2
  <2>3. CASE thread[t].at \notin Talking /\ thread'[t].at \in Talking
    BY Zenon, <1>2, <1>4, <1>5, <2>3
  <2> QED  BY Zenon, <2>1, <2>2, <2>3
<1>9. free' >= 0
  <2>1. free \in Int  BY Zenon DEF Inv, Typed
  <2> QED  BY <1>5, <2>1
<1> QED  BY Zenon, <1>7, <1>8, <1>9 DEF Counting, C, E, Talking

LEMMA SpeakKeeps ==
  ASSUME Inv, NEW t \in Threads, Speak(t)
  PROVE  Inv'
<1> Typed  BY Zenon DEF Inv
<1>0. /\ Typed' /\ thread[t].at = "ask" /\ OnlyThread(t, thread'[t])
      /\ SameButPlace(thread'[t], thread[t])
      /\ \/ ~Last(t) /\ thread'[t].at = "ask" /\ thread'[t].step = thread[t].step + 1
         \/ thread'[t].at = "over" /\ thread'[t].step = thread[t].step
         \/ ~GivenUp(t[1]) /\ thread'[t].at = "enter" /\ thread'[t].step = thread[t].step
      /\ UNCHANGED <<counts, free, port, overlapped, ledger>>
  <2>1. thread[t].at = "ask" /\ UNCHANGED <<counts, free, port, overlapped, ledger>>
    BY Zenon DEF Speak
  <2>2. thread[t] \in ThreadRec  BY Zenon DEF Typed
  <2>3. CASE Advance(t, thread[t])
    <3>1. OnlyThread(t, thread'[t]) /\ SameButPlace(thread'[t], thread[t])
      BY Zenon, <2>2, <2>3, AdvanceFacts
    <3>2. \/ ~Last(t) /\ thread'[t].at = "ask" /\ thread'[t].step = thread[t].step + 1
          \/ thread'[t].at = "over" /\ thread'[t].step = thread[t].step
      BY Zenon, <2>2, <2>3, AdvanceFacts
    <3>3. Typed'  BY Zenon, <2>1, <3>1 DEF Typed, OnlyThread
    <3> QED  BY Zenon, <2>1, <3>1, <3>2, <3>3
  <2>4. CASE ~GivenUp(t[1]) /\ Goes(t, "enter")
    <3>1. OnlyThread(t, [thread[t] EXCEPT !.at = "enter"])
      BY Zenon, <2>4, GoesTo DEF Places
    <3>2. PICK s : s = [thread[t] EXCEPT !.at = "enter"]  BY Zenon
    <3>3. s.at = "enter" /\ s.step = thread[t].step /\ SameButPlace(s, thread[t])
      BY Zenon, <2>2, <3>2 DEF ThreadRec, SameButPlace
    <3>4. OnlyThread(t, s) /\ thread'[t] = s  BY Zenon, <3>1, <3>2 DEF OnlyThread
    <3>5. Typed'  BY Zenon, <2>1, <3>4 DEF Typed, OnlyThread
    <3> QED  BY Zenon, <2>1, <2>4, <3>3, <3>4, <3>5
  <2> QED  BY Zenon, <2>3, <2>4 DEF Speak
<1>1. /\ Typed' /\ thread[t].at = "ask" /\ OnlyThread(t, thread'[t])
      /\ SameButPlace(thread'[t], thread[t]) /\ thread'[t].at \in {"ask", "over", "enter"}
      /\ UNCHANGED <<counts, free, port, overlapped, ledger>>
  BY Zenon, <1>0
<1>2. SameRole(thread[t], thread'[t])  BY Zenon, <1>1 DEF SameRole, SameButPlace, Begun
<1>3. \A p \in Ports : Settled(p)'  BY Zenon, <1>1, <1>2, QuietStep DEF SameShare
<1>4. thread[t].at \in Begun /\ thread'[t].at \in Begun
      /\ thread[t].at \notin Talking /\ thread'[t].at \notin Talking
  BY Zenon, <1>1 DEF Begun, Talking
<1>5. Counting'  BY Zenon, <1>1, <1>4, CountingKept
<1>6. \A q \in Ports : Waits(q)'
  <2>1. t[2] # 0 => Fit(thread[t])  BY Zenon, WorkerFits
  <2>2. t[2] # 0 => Fit(thread'[t])  BY Zenon, <1>1, <2>1 DEF Fit, SameButPlace, Begun
  <2>3. t \in Spent(t[1]) => t \in Spent(t[1])'  BY Zenon, <1>1 DEF Spent, SameButPlace
  <2>4. ASSUME t[2] = 0, thread'[t].at = "enter" PROVE Striking(t[1])' /\ ByItself(t[1])'
    <3>1. ~GivenUp(t[1]) /\ t[1] \in Ports /\ t = Main(t[1])  BY Zenon, <1>0, <2>4, ThreadOf
    <3>2. port[t[1]].strikes \in Nat /\ MaxStrikes \in Nat
      BY Zenon, <3>1, StageAssumption DEF Typed, PortRec
    <3>3. port[t[1]].strikes < MaxStrikes  BY <3>1, <3>2 DEF GivenUp
    <3>4. Striking(t[1])'  BY Zenon, <1>1, <3>3 DEF Striking
    <3> QED  BY Zenon, <2>4, <3>1, <3>4 DEF ByItself
  <2>5. t[2] = 0 => thread'[t].at \notin Asking \/ (Striking(t[1])' /\ ByItself(t[1])')
    BY Zenon, <1>1, <2>4 DEF Asking
  <2> QED  BY Zenon, <1>1, <2>2, <2>3, <2>5, QuietWaits
<1> QED  BY Zenon, <1>1, <1>3, <1>5, <1>6 DEF Inv

LEMMA InFlightNat == ASSUME Inv PROVE counts.inFlight \in Nat
BY Zenon, CountIn DEF Inv, Counting

LEMMA EnterKeeps ==
  ASSUME Inv, NEW t \in Threads, Enter(t)
  PROVE  Inv'
<1> Typed /\ counts.inFlight \in Nat  BY Zenon, InFlightNat DEF Inv
<1>0. /\ Typed' /\ thread[t].at = "enter" /\ thread'[t].at = "talk"
      /\ OnlyThread(t, thread'[t])
      /\ thread'[t].flow = thread[t].flow /\ thread'[t].step = thread[t].step
      /\ thread'[t].stalled = thread[t].stalled /\ thread'[t].crowded = thread[t].crowded
      /\ thread'[t].refused = thread[t].refused
      /\ thread'[t].alone = thread[t].alone /\ thread'[t].result = thread[t].result
      /\ counts' = [begun |-> (counts.begun + 1) % HalfWord, inFlight |-> counts.inFlight + 1]
      /\ thread'[t].company = counts.inFlight /\ thread'[t].ticket = counts.begun
      /\ \A p \in Ports : /\ ledger'[p].runs = ledger[p].runs /\ ledger'[p].dead = ledger[p].dead
                          /\ ledger'[p].foreign = (ledger[p].foreign \/ Met(p, t))
      /\ overlapped' = IF InExchange = {} THEN overlapped \ {t}
                       ELSE overlapped \cup InExchange \cup {t}
      /\ UNCHANGED <<free, port>>
  <2>1. /\ thread[t].at = "enter"
        /\ counts' = [begun |-> (counts.begun + 1) % HalfWord, inFlight |-> counts.inFlight + 1]
        /\ overlapped' = IF InExchange = {} THEN overlapped \ {t}
                         ELSE overlapped \cup InExchange \cup {t}
        /\ UNCHANGED <<free, port>>
    BY Zenon DEF Enter
  <2>2. PICK r : r = thread[t]  OBVIOUS
  <2>3. r \in ThreadRec /\ r.flow \in Flows(t[1])  BY Zenon, <2>2 DEF Typed
  <2>4. counts \in [begun : 0 .. HalfWord - 1, inFlight : Int] /\ HalfWord \in Nat
        /\ HalfWord > 0
    BY StageAssumption DEF Typed
  <2>5. PICK n \in Nat : n = counts.inFlight  OBVIOUS
  <2>6. PICK b \in Nat : b = counts.begun  BY <2>4
  <2>7. PICK s : s = [r EXCEPT !.at = "talk", !.company = n, !.ticket = b]  OBVIOUS
  <2>8. s \in ThreadRec
    BY Zenon, <2>3, <2>7 DEF ThreadRec, Places
  <2>9. /\ s.at = "talk" /\ s.flow = r.flow /\ s.step = r.step /\ s.stalled = r.stalled
        /\ s.crowded = r.crowded /\ s.refused = r.refused /\ s.alone = r.alone
        /\ s.result = r.result /\ s.company = n /\ s.ticket = b
    BY Zenon, <2>3, <2>7 DEF ThreadRec
  <2>10. thread' = [thread EXCEPT ![t] = s]
    BY Zenon, <2>2, <2>5, <2>6, <2>7 DEF Enter
  <2>11. OnlyThread(t, s)  BY Zenon, <2>3, <2>8, <2>9, <2>10, SetThread
  <2>12. thread'[t] = s  BY Zenon, <2>11 DEF OnlyThread
  <2>13. ASSUME NEW p \in Ports
         PROVE  /\ ledger'[p] \in LedgerRec(p)
                /\ ledger'[p].runs = ledger[p].runs /\ ledger'[p].dead = ledger[p].dead
                /\ ledger'[p].foreign = (ledger[p].foreign \/ Met(p, t))
    <3>1. PICK l : l = ledger[p]  OBVIOUS
    <3>2. l \in LedgerRec(p)  BY Zenon, <3>1 DEF Typed
    <3>3. ledger'[p] = IF Met(p, t) THEN [l EXCEPT !.foreign = TRUE] ELSE l
      BY Zenon, <3>1 DEF Enter
    <3>4. CASE Met(p, t)
      <4>1. ledger'[p] = [l EXCEPT !.foreign = TRUE]  BY Zenon, <3>3, <3>4
      <4>2. ledger'[p] \in LedgerRec(p) /\ ledger'[p].runs = l.runs /\ ledger'[p].dead = l.dead
            /\ ledger'[p].foreign = TRUE
        BY Zenon, <3>2, <4>1 DEF LedgerRec
      <4> QED  BY Zenon, <3>1, <3>4, <4>2
    <3>5. CASE ~Met(p, t)
      <4>1. ledger'[p] = l  BY Zenon, <3>3, <3>5
      <4>2. l.foreign \in BOOLEAN  BY Zenon, <3>2 DEF LedgerRec
      <4> QED  BY Zenon, <3>1, <3>2, <3>5, <4>1, <4>2
    <3> QED  BY Zenon, <3>4, <3>5
  <2>14. ledger' = [p \in Ports |-> ledger'[p]]  BY Zenon DEF Enter
  <2>15. overlapped' \subseteq Threads
    BY Zenon, <2>1 DEF Typed, InExchange
  <2>16. counts' \in [begun : 0 .. HalfWord - 1, inFlight : Int]
    BY <2>1, <2>4
  <2>17. Typed'
    BY Zenon, <2>1, <2>11, <2>13, <2>14, <2>15, <2>16 DEF Typed, OnlyThread
  <2> QED  BY Zenon, <2>1, <2>2, <2>5, <2>6, <2>9, <2>11, <2>12, <2>13, <2>17
<1>1. /\ Typed' /\ thread[t].at = "enter" /\ thread'[t].at = "talk" /\ OnlyThread(t, thread'[t])
      /\ thread'[t].flow = thread[t].flow /\ UNCHANGED <<free, port>>
      /\ \A p \in Ports : ledger'[p].runs = ledger[p].runs
      /\ counts' = [begun |-> (counts.begun + 1) % HalfWord, inFlight |-> counts.inFlight + 1]
  BY Zenon, <1>0
<1>2. SameRole(thread[t], thread'[t])  BY Zenon, <1>1 DEF SameRole, Begun
<1>3. \A p \in Ports : Settled(p)'  BY Zenon, <1>1, <1>2, QuietStep DEF SameShare
<1>4. thread[t].at \in Begun /\ thread'[t].at \in Begun
      /\ thread[t].at \notin Talking /\ thread'[t].at \in Talking
  BY Zenon, <1>1 DEF Begun, Talking
<1>5. counts'.inFlight = counts.inFlight + 1  BY Zenon, <1>1
<1>6. Counting'  BY Zenon, <1>1, <1>4, <1>5, CountingKept
<1>7. \A p \in Ports : Waits(p) /\ Shape(p)  BY Zenon DEF Inv, Settled
<1>8. \A p \in Ports : /\ ledger'[p].dead = ledger[p].dead
                       /\ ledger'[p].foreign = (ledger[p].foreign \/ Met(p, t))
  BY Zenon, <1>0
<1>9. ASSUME NEW p \in Ports, p # t[1] PROVE Waits(p)'
  <2>1. \A u \in Threads : u[1] = p => thread'[u] = thread[u]
    BY Zenon, <1>1, <1>9 DEF OnlyThread
  <2>2. thread[Main(p)].at = "talk" => Met(p, t)
    BY Zenon, <1>9, ThreadsOf DEF Met, InExchange
  <2> QED  BY Zenon, <1>1, <1>7, <1>8, <2>1, <2>2, WaitsElsewhere
<1>10. ASSUME NEW p \in Ports, p = t[1] PROVE Waits(p)'
  <2>1. t[2] # 0 => Fit(thread'[t])
    <3>1. t[2] # 0 => Fit(thread[t])  BY Zenon, WorkerFits
    <3>2. thread'[t].stalled = thread[t].stalled  BY Zenon, <1>0
    <3> QED  BY Zenon, <1>1, <3>1, <3>2 DEF Fit, Begun
  <2>2. t \in Spent(p) => t \in Spent(p)'
    <3>1. thread'[t].stalled = thread[t].stalled  BY Zenon, <1>0
    <3> QED  BY Zenon, <1>1, <3>1 DEF Spent
  <2>3. ASSUME t[2] = 0 PROVE Striking(p)' /\ ByItself(p)'
    <3>1. t = Main(p)  BY Zenon, <1>10, <2>3, ThreadOf
    <3>2. port[p].strikes < MaxStrikes
      BY Zenon, <1>1, <1>7, <3>1 DEF Waits, Striking, Asking
    <3>3. Striking(p)'  BY Zenon, <1>1, <3>2 DEF Striking
    <3>4. ASSUME ~Met(p, t) PROVE counts.inFlight = 0
      <4>1. ~ \E u \in Threads : u[1] # p /\ thread[u].at \in {"talk", "drop"}
        BY Zenon, <1>10, <3>4 DEF Met
      <4>2. \A w \in Workers(p) : thread[w].at = "off"
        BY Zenon, <1>1, <1>7, <3>1 DEF Shape, Wide
      <4>3. \A u \in Threads : u[1] = p => thread[u].at \in {"enter", "off"}
        BY Zenon, <1>1, <3>1, <4>2, ThreadsOf
      <4>4. {u \in Threads : thread[u].at \in {"talk", "drop"}} = {}  BY Zenon, <4>1, <4>3
      <4> QED  BY Zenon, <4>4, FS_EmptySet DEF Inv, Counting
    <3>5. /\ thread'[t].company = counts.inFlight /\ thread'[t].ticket = counts.begun
          /\ counts'.begun = (counts.begun + 1) % HalfWord
      BY Zenon, <1>0
    <3>6. counts.begun \in 0 .. HalfWord - 1  BY Zenon DEF Typed
    <3>7. ByItself(p)'
      BY Zenon, <1>1, <1>8, <3>1, <3>4, <3>5, <3>6 DEF ByItself
    <3> QED  BY Zenon, <3>3, <3>7
  <2>4. Narrowing(p)'  BY Zenon, <1>1, <1>7 DEF Waits, Narrowing
  <2>5. Spent(p) \subseteq Spent(p)' /\ (Bounded(p)' => Waits(p)')
    <3>1. t[1] = p /\ thread[t].at # "off" /\ (port[p].narrowed => port'[p].narrowed)
      BY Zenon, <1>1, <1>10
    <3> QED  BY Zenon, <1>1, <1>7, <2>1, <2>2, <2>3, <2>4, <3>1, OwnWaits
  <2>6. Bounded(p)'  BY Zenon, <1>1, <1>7, <1>8, <2>5, BoundedKept DEF Waits
  <2> QED  BY Zenon, <2>5, <2>6
<1> QED  BY Zenon, <1>1, <1>3, <1>6, <1>9, <1>10 DEF Inv

LEMMA JustBegun ==
  ASSUME NEW h \in Nat, h > 1, NEW k \in 0 .. h - 1
  PROVE  (((k + 1) % h) - k) % h = 1
<1>1. CASE k + 1 < h
  <2>1. (k + 1) % h = k + 1  BY <1>1
  <2> QED  BY <2>1
<1>2. CASE k + 1 = h
  <2>1. (k + 1) % h = 0  BY <1>2
  <2>2. ((k + 1) % h) - k = 1 - h  BY <1>2, <2>1
  <2>3. (1 - h) % h = 1  OBVIOUS
  <2> QED  BY <2>2, <2>3
<1> QED  BY <1>1, <1>2

LEMMA LeaveKeeps ==
  ASSUME Inv, NEW t \in Threads, Leave(t)
  PROVE  Inv'
<1> Typed  BY Zenon DEF Inv
<1>0. /\ Typed' /\ thread[t].at = "talk" /\ thread'[t].at = "drop"
      /\ OnlyThread(t, thread'[t])
      /\ thread'[t].flow = thread[t].flow /\ thread'[t].step = thread[t].step
      /\ thread'[t].stalled = thread[t].stalled /\ thread'[t].crowded = thread[t].crowded
      /\ thread'[t].refused = thread[t].refused
      /\ thread'[t].company = thread[t].company /\ thread'[t].ticket = thread[t].ticket
      /\ thread'[t].alone = Alone(t)
      /\ thread'[t].result.dead => ~thread[t].stalled
      /\ UNCHANGED <<counts, free, port, overlapped, ledger>>
  <2>1. PICK x \in Results(t) : /\ thread[t].at = "talk"
          /\ thread' = [thread EXCEPT ![t].at = "drop", ![t].alone = Alone(t), ![t].result = x]
          /\ UNCHANGED <<counts, free, port, overlapped, ledger>>
    BY Zenon DEF Leave
  <2>2. PICK r : r = thread[t]  OBVIOUS
  <2>3. r \in ThreadRec /\ r.flow \in Flows(t[1])  BY Zenon, <2>2 DEF Typed
  <2>4. x \in Outcomes /\ (x.dead => ~thread[t].stalled)
    BY Zenon, <2>1 DEF Results, Outcomes, Refusals
  <2>5. Alone(t) \in BOOLEAN  BY Zenon DEF Alone
  <2>6. PICK b \in BOOLEAN : b = Alone(t)  BY Zenon, <2>5
  <2>7. PICK s : s = [r EXCEPT !.at = "drop", !.alone = b, !.result = x]  OBVIOUS
  <2>8. s \in ThreadRec  BY Zenon, <2>3, <2>4, <2>6, <2>7 DEF ThreadRec, Places
  <2>9. /\ s.at = "drop" /\ s.flow = r.flow /\ s.step = r.step /\ s.stalled = r.stalled
        /\ s.crowded = r.crowded /\ s.refused = r.refused /\ s.alone = b
        /\ s.result = x /\ s.company = r.company /\ s.ticket = r.ticket
    BY Zenon, <2>3, <2>7 DEF ThreadRec
  <2>10. thread' = [thread EXCEPT ![t] = s]
    BY Zenon, <2>1, <2>2, <2>6, <2>7
  <2>11. OnlyThread(t, s)  BY Zenon, <2>3, <2>8, <2>9, <2>10, SetThread
  <2>12. thread'[t] = s  BY Zenon, <2>11 DEF OnlyThread
  <2>13. Typed'  BY Zenon, <2>1, <2>11 DEF Typed, OnlyThread
  <2> QED  BY Zenon, <2>1, <2>2, <2>4, <2>6, <2>9, <2>11, <2>12, <2>13
<1>1. /\ Typed' /\ thread[t].at = "talk" /\ thread'[t].at = "drop" /\ OnlyThread(t, thread'[t])
      /\ thread'[t].flow = thread[t].flow
      /\ UNCHANGED <<counts, free, port, overlapped, ledger>>
  BY Zenon, <1>0
<1>2. SameRole(thread[t], thread'[t])  BY Zenon, <1>1 DEF SameRole, Begun
<1>3. \A p \in Ports : Settled(p)'  BY Zenon, <1>1, <1>2, QuietStep DEF SameShare
<1>4. thread[t].at \in Begun /\ thread'[t].at \in Begun
      /\ thread[t].at \in Talking /\ thread'[t].at \in Talking
  BY Zenon, <1>1 DEF Begun, Talking
<1>5. Counting'  BY Zenon, <1>1, <1>4, CountingKept
<1>6. \A q \in Ports : Waits(q)'
  <2>1. t[2] # 0 => Fit(thread[t])  BY Zenon, WorkerFits
  <2>2. /\ thread'[t].stalled = thread[t].stalled /\ thread'[t].alone = Alone(t)
        /\ thread'[t].result.dead => ~thread[t].stalled
    BY Zenon, <1>0
  <2>3. t[2] # 0 => Fit(thread'[t])  BY Zenon, <1>1, <2>1, <2>2 DEF Fit, Begun
  <2>4. t \in Spent(t[1]) => t \in Spent(t[1])'  BY Zenon, <1>1, <2>2 DEF Spent
  <2>5. ASSUME t[2] = 0 PROVE Striking(t[1])' /\ ByItself(t[1])'
    <3>1. PICK p \in Ports : p = t[1] /\ t = Main(p)  BY Zenon, <2>5, ThreadOf
    <3>2. Striking(p) /\ ByItself(p)  BY Zenon DEF Inv, Waits
    <3>3. Striking(p)'  BY Zenon, <1>1, <3>1, <3>2 DEF Striking, Asking
    <3>4. ~ledger[p].foreign => Alone(t)
      <4>1. HalfWord \in Nat /\ HalfWord > 1  BY StageAssumption
      <4>2. SUFFICES ASSUME ~ledger[p].foreign PROVE Alone(t)  OBVIOUS
      <4>3. PICK k \in 0 .. HalfWord - 1 :
              k = thread[t].ticket /\ thread[t].company = 0 /\ counts.begun = (k + 1) % HalfWord
        BY Zenon, <1>1, <3>1, <3>2, <4>2 DEF ByItself
      <4>4. (((k + 1) % HalfWord) - k) % HalfWord = 1  BY Zenon, <4>1, JustBegun
      <4> QED  BY Zenon, <4>3, <4>4 DEF Alone
    <3>5. ByItself(p)'  BY Zenon, <1>1, <2>2, <3>1, <3>4 DEF ByItself
    <3> QED  BY Zenon, <3>1, <3>3, <3>5
  <2> QED  BY Zenon, <1>1, <2>3, <2>4, <2>5, QuietWaits
<1> QED  BY Zenon, <1>1, <1>3, <1>5, <1>6 DEF Inv

LEMMA JudgeKeeps ==
  ASSUME Inv, NEW t \in Threads, Judge(t)
  PROVE  Inv'
<1> Typed  BY Zenon DEF Inv
<1>0. /\ Typed' /\ thread[t].at = "drop" /\ OnlyThread(t, thread'[t])
      /\ \/ ~Last(t) /\ thread'[t].at = "ask" /\ thread'[t].step = thread[t].step + 1
         \/ thread'[t].at = "over" /\ thread'[t].step = thread[t].step
      /\ thread'[t].flow = thread[t].flow
      /\ thread'[t].stalled = (thread[t].stalled \/ thread[t].result.dead)
      /\ thread'[t].alone = FALSE /\ thread'[t].result = NoResult
      /\ counts'.inFlight = counts.inFlight - 1 /\ counts'.begun = counts.begun
      /\ \A p \in Ports : /\ port'[p].next = port[p].next /\ port'[p].narrowed = port[p].narrowed
                          /\ port'[p].again = port[p].again /\ port'[p].alone = port[p].alone
                          /\ port'[p].filed = port[p].filed
      /\ \A p \in Ports : /\ ledger'[p].runs = ledger[p].runs
                          /\ ledger'[p].foreign = ledger[p].foreign
      /\ \A p \in Ports : p # t[1] => port'[p] = port[p] /\ ledger'[p] = ledger[p]
      /\ port'[t[1]].strikes = IF thread[t].result.dead /\ thread[t].alone
                               THEN port[t[1]].strikes + 1 ELSE port[t[1]].strikes
      /\ ledger'[t[1]].dead = IF thread[t].result.dead
                              THEN ledger[t[1]].dead + 1 ELSE ledger[t[1]].dead
      /\ overlapped' = overlapped \ {t}
      /\ UNCHANGED free
  <2>1. PICK p \in Ports : p = t[1]  BY Zenon, ThreadOf
  <2>2. PICK r : r = thread[t]  OBVIOUS
  <2>3. r \in ThreadRec /\ r.flow \in Flows(t[1])  BY Zenon, <2>2 DEF Typed
  <2>4. PICK record : record =
            [r EXCEPT !.crowded = @ \/ ~r.alone, !.stalled = @ \/ r.result.dead,
                      !.refused = IF @ = "none" THEN r.result.refusal ELSE @,
                      !.company = 0, !.ticket = 0, !.alone = FALSE, !.result = NoResult]
    OBVIOUS
  <2>5. /\ r.at = "drop"
        /\ counts' = [counts EXCEPT !.inFlight = @ - 1]
        /\ port' = [port EXCEPT ![p].strikes = IF r.result.dead /\ r.alone THEN @ + 1 ELSE @]
        /\ ledger' = [ledger EXCEPT ![p].dead = IF r.result.dead THEN @ + 1 ELSE @]
        /\ Advance(t, record)
        /\ overlapped' = overlapped \ {t}
        /\ UNCHANGED free
    BY Zenon, <2>1, <2>2, <2>4 DEF Judge
  <2>6. record \in ThreadRec /\ record.flow = r.flow /\ record.step = r.step
        /\ record.stalled = (r.stalled \/ r.result.dead) /\ record.alone = FALSE
        /\ record.result = NoResult
    <3>1. PICK c \in BOOLEAN : c = (r.crowded \/ ~r.alone)  BY Zenon, <2>3 DEF ThreadRec
    <3>2. PICK d \in BOOLEAN : d = (r.stalled \/ r.result.dead)
      BY Zenon, <2>3 DEF ThreadRec, Outcomes
    <3>3. PICK e \in Refusals : e = IF r.refused = "none" THEN r.result.refusal ELSE r.refused
      BY Zenon, <2>3 DEF ThreadRec, Outcomes
    <3>4. NoResult \in Outcomes  BY Zenon DEF NoResult, Outcomes, Refusals
    <3>5. record = [r EXCEPT !.crowded = c, !.stalled = d, !.refused = e,
                             !.company = 0, !.ticket = 0, !.alone = FALSE, !.result = NoResult]
      BY Zenon, <2>3, <2>4, <3>1, <3>2, <3>3
    <3>6. record \in ThreadRec  BY Zenon, <2>3, <3>4, <3>5 DEF ThreadRec
    <3>7. /\ record.flow = r.flow /\ record.step = r.step /\ record.stalled = d
          /\ record.alone = FALSE /\ record.result = NoResult
      BY Zenon, <2>3, <3>5 DEF ThreadRec
    <3> QED  BY Zenon, <3>2, <3>6, <3>7
  <2>7. /\ OnlyThread(t, thread'[t]) /\ SameButPlace(thread'[t], record)
        /\ \/ ~Last(t) /\ thread'[t].at = "ask" /\ thread'[t].step = record.step + 1
           \/ thread'[t].at = "over" /\ thread'[t].step = record.step
    BY Zenon, <2>2, <2>5, <2>6, AdvanceFacts
  <2>8. /\ thread'[t].flow = r.flow /\ thread'[t].stalled = (r.stalled \/ r.result.dead)
        /\ thread'[t].alone = FALSE /\ thread'[t].result = NoResult
    BY Zenon, <2>6, <2>7 DEF SameButPlace
  <2>9. counts'.inFlight = counts.inFlight - 1 /\ counts'.begun = counts.begun
        /\ counts' \in [begun : 0 .. HalfWord - 1, inFlight : Int]
    <3>1. counts \in [begun : 0 .. HalfWord - 1, inFlight : Int]  BY Zenon DEF Typed
    <3>2. counts.inFlight \in Int  BY Zenon, <3>1
    <3>3. PICK m \in Int : m = counts.inFlight - 1  BY <3>2
    <3>4. counts' = [counts EXCEPT !.inFlight = m]  BY Zenon, <2>5, <3>3
    <3> QED  BY Zenon, <3>1, <3>3, <3>4
  <2>10. /\ OnlyPort(p, port'[p])
         /\ port'[p].next = port[p].next /\ port'[p].narrowed = port[p].narrowed
         /\ port'[p].again = port[p].again /\ port'[p].alone = port[p].alone
         /\ port'[p].filed = port[p].filed
         /\ port'[p].strikes = IF r.result.dead /\ r.alone
                               THEN port[p].strikes + 1 ELSE port[p].strikes
    <3>1. PICK o : o = port[p]  OBVIOUS
    <3>2. o \in PortRec(p)  BY Zenon, <3>1 DEF Typed
    <3>3. PICK n \in Nat : n = IF r.result.dead /\ r.alone THEN o.strikes + 1 ELSE o.strikes
      BY <3>2 DEF PortRec
    <3>4. PICK w : w = [o EXCEPT !.strikes = n]  BY Zenon
    <3>5. w \in PortRec(p) /\ w.next = o.next /\ w.narrowed = o.narrowed /\ w.again = o.again
          /\ w.alone = o.alone /\ w.filed = o.filed /\ w.strikes = n
      BY Zenon, <3>2, <3>4 DEF PortRec
    <3>6. port' = [port EXCEPT ![p] = w]
      BY Zenon, <2>5, <3>1, <3>3, <3>4
    <3>7. OnlyPort(p, w)  BY Zenon, <3>5, <3>6, SetPort
    <3>8. port'[p] = w  BY Zenon, <3>7 DEF OnlyPort
    <3> QED  BY Zenon, <3>1, <3>3, <3>5, <3>7, <3>8
  <2>11. /\ OnlyLedger(p, ledger'[p])
         /\ ledger'[p].runs = ledger[p].runs /\ ledger'[p].foreign = ledger[p].foreign
         /\ ledger'[p].dead = IF r.result.dead THEN ledger[p].dead + 1 ELSE ledger[p].dead
    <3>1. PICK o : o = ledger[p]  OBVIOUS
    <3>2. o \in LedgerRec(p)  BY Zenon, <3>1 DEF Typed
    <3>3. PICK n \in Nat : n = IF r.result.dead THEN o.dead + 1 ELSE o.dead
      BY <3>2 DEF LedgerRec
    <3>4. PICK w : w = [o EXCEPT !.dead = n]  BY Zenon
    <3>5. w \in LedgerRec(p) /\ w.runs = o.runs /\ w.foreign = o.foreign /\ w.dead = n
      BY Zenon, <3>2, <3>4 DEF LedgerRec
    <3>6. ledger' = [ledger EXCEPT ![p] = w]
      BY Zenon, <2>5, <3>1, <3>3, <3>4
    <3>7. OnlyLedger(p, w)  BY Zenon, <3>5, <3>6, SetLedger
    <3>8. ledger'[p] = w  BY Zenon, <3>7 DEF OnlyLedger
    <3> QED  BY Zenon, <3>1, <3>3, <3>5, <3>7, <3>8
  <2>12. Typed'
    BY Zenon, <2>5, <2>7, <2>9, <2>10, <2>11 DEF Typed, OnlyThread, OnlyPort, OnlyLedger
  <2>13. \A q \in Ports : q # p => port'[q] = port[q] /\ ledger'[q] = ledger[q]
    BY Zenon, <2>10, <2>11 DEF OnlyPort, OnlyLedger
  <2>14. \A q \in Ports : /\ port'[q].next = port[q].next /\ port'[q].narrowed = port[q].narrowed
                          /\ port'[q].again = port[q].again /\ port'[q].alone = port[q].alone
                          /\ port'[q].filed = port[q].filed
    BY Zenon, <2>10, <2>13
  <2>15. \A q \in Ports : ledger'[q].runs = ledger[q].runs /\ ledger'[q].foreign = ledger[q].foreign
    BY Zenon, <2>11, <2>13
  <2> QED  BY Zenon, <2>1, <2>2, <2>5, <2>6, <2>7, <2>8, <2>9, <2>10, <2>11, <2>12, <2>13,
              <2>14, <2>15
<1>1. /\ Typed' /\ thread[t].at = "drop" /\ OnlyThread(t, thread'[t])
      /\ thread'[t].at \in {"ask", "over"} /\ thread'[t].flow = thread[t].flow
      /\ counts'.inFlight = counts.inFlight - 1 /\ UNCHANGED free
      /\ \A p \in Ports : /\ port'[p].next = port[p].next
                          /\ port'[p].again = port[p].again /\ port'[p].alone = port[p].alone
                          /\ port'[p].filed = port[p].filed /\ ledger'[p].runs = ledger[p].runs
  BY Zenon, <1>0
<1>2. SameRole(thread[t], thread'[t])  BY Zenon, <1>1 DEF SameRole, Begun
<1>3. \A p \in Ports : Settled(p)'  BY Zenon, <1>1, <1>2, QuietStep DEF SameShare
<1>4. thread[t].at \in Begun /\ thread'[t].at \in Begun
      /\ thread[t].at \in Talking /\ thread'[t].at \notin Talking
  BY Zenon, <1>1 DEF Begun, Talking
<1>5. Counting'  BY Zenon, <1>1, <1>4, CountingKept
<1>6. \A p \in Ports : Waits(p) /\ Shape(p)  BY Zenon DEF Inv, Settled
<1>7. ASSUME NEW p \in Ports, p # t[1] PROVE Waits(p)'
  <2>1. \A u \in Threads : u[1] = p => thread'[u] = thread[u]
    BY Zenon, <1>1, <1>7 DEF OnlyThread
  <2>2. port'[p] = port[p] /\ ledger'[p] = ledger[p] /\ counts'.begun = counts.begun
    BY Zenon, <1>0, <1>7
  <2> QED  BY Zenon, <1>1, <1>6, <2>1, <2>2, WaitsElsewhere
<1>8. ASSUME NEW p \in Ports, p = t[1] PROVE Waits(p)'
  <2> DEFINE dead == thread[t].result.dead
  <2>1. /\ thread'[t].stalled = (thread[t].stalled \/ dead)
        /\ port'[p].narrowed = port[p].narrowed /\ ledger'[p].foreign = ledger[p].foreign
        /\ port'[p].strikes = IF dead /\ thread[t].alone
                              THEN port[p].strikes + 1 ELSE port[p].strikes
        /\ ledger'[p].dead = IF dead THEN ledger[p].dead + 1 ELSE ledger[p].dead
    BY Zenon, <1>0, <1>8
  <2>2. t[2] # 0 => Fit(thread'[t])  BY Zenon, <1>1 DEF Fit, Begun
  <2>3. t \in Spent(p) => t \in Spent(p)'  BY Zenon, <1>1, <2>1 DEF Spent
  <2>4. Narrowing(p)'  BY Zenon, <1>1, <1>6, <2>1 DEF Waits, Narrowing
  <2>5. Spent(p) \subseteq Spent(p)' /\ (Bounded(p)' => Waits(p)')
    <3>1. t[1] = p /\ thread[t].at # "off" /\ thread'[t].at \notin Asking
      BY Zenon, <1>1, <1>8 DEF Asking
    <3> QED  BY Zenon, <1>1, <1>6, <2>1, <2>2, <2>3, <2>4, <3>1, OwnWaits
  <2>6. CASE ~dead  BY Zenon, <1>1, <1>6, <2>1, <2>5, <2>6, BoundedKept DEF Waits
  <2>7. CASE dead
    <3> SUFFICES ASSUME ~ledger[p].foreign
                 PROVE  \E k \in 0 .. MaxStrikes :
                          k <= port'[p].strikes /\ ledger'[p].dead <= k + Cardinality(Spent(p)')
      BY Zenon, <2>1, <2>5 DEF Bounded
    <3>1. PICK k \in 0 .. MaxStrikes :
            k <= port[p].strikes /\ ledger[p].dead <= k + Cardinality(Spent(p))
      BY Zenon, <1>6 DEF Waits, Bounded
    <3>2. /\ IsFiniteSet(Spent(p)) /\ Cardinality(Spent(p)) \in Nat
          /\ IsFiniteSet(Spent(p)') /\ Cardinality(Spent(p)') \in Nat
      BY Zenon, SpentSize
    <3>3. port[p].strikes \in Nat /\ ledger[p].dead \in Nat /\ MaxStrikes \in Nat /\ k \in Nat
      BY StageAssumption DEF Typed, PortRec, LedgerRec
    <3>4. ledger'[p].dead = ledger[p].dead + 1  BY Zenon, <2>1, <2>7
    <3>5. CASE t[2] = 0
      <4>1. t = Main(p)  BY Zenon, <1>8, <3>5, ThreadOf
      <4>2. thread[t].alone /\ port[p].strikes < MaxStrikes
        BY Zenon, <1>1, <1>6, <4>1 DEF Waits, ByItself, Striking, Asking
      <4>3. port'[p].strikes = port[p].strikes + 1  BY Zenon, <2>1, <2>7, <4>2
      <4>4. Cardinality(Spent(p)) <= Cardinality(Spent(p)')  BY Zenon, <2>5, <3>2, FS_Subset
      <4>5. /\ k + 1 \in 0 .. MaxStrikes /\ k + 1 <= port'[p].strikes
            /\ ledger'[p].dead <= (k + 1) + Cardinality(Spent(p)')
        BY <3>1, <3>2, <3>3, <3>4, <4>2, <4>3, <4>4
      <4> QED  BY Zenon, <4>5
    <3>6. CASE t[2] # 0
      <4>1. t \in Workers(p) /\ ~thread[t].stalled
        BY Zenon, <1>1, <1>8, <2>7, <3>6, ThreadOf, WorkerFits DEF Fit
      <4>2. t \notin Spent(p) /\ t \in Spent(p)'
        BY Zenon, <1>1, <2>1, <2>7, <4>1 DEF Spent
      <4>3. /\ IsFiniteSet(Spent(p) \cup {t})
            /\ Cardinality(Spent(p) \cup {t}) = Cardinality(Spent(p)) + 1
        BY Zenon, <3>2, <4>2, FS_AddElement
      <4>4. Spent(p) \cup {t} \subseteq Spent(p)'  BY Zenon, <2>5, <4>2
      <4>5. Cardinality(Spent(p)) + 1 <= Cardinality(Spent(p)')
        BY Zenon, <3>2, <4>3, <4>4, FS_Subset
      <4>6. port[p].strikes <= port'[p].strikes
        <5>1. port'[p].strikes \in {port[p].strikes, port[p].strikes + 1}  BY Zenon, <2>1
        <5> QED  BY <3>3, <5>1
      <4>7. port'[p].strikes \in Nat  BY Zenon, <1>1 DEF Typed, PortRec
      <4>8. k <= port'[p].strikes /\ ledger'[p].dead <= k + Cardinality(Spent(p)')
        BY <3>1, <3>2, <3>3, <3>4, <4>5, <4>6, <4>7
      <4> QED  BY Zenon, <4>8
    <3> QED  BY Zenon, <3>5, <3>6
  <2> QED  BY Zenon, <2>6, <2>7
<1> QED  BY Zenon, <1>1, <1>3, <1>5, <1>7, <1>8 DEF Inv

LEMMA CheckNarrowedKeeps ==
  ASSUME Inv, NEW t \in Threads, CheckNarrowed(t)
  PROVE  Inv'
<1> Typed  BY Zenon DEF Inv
<1>0. /\ Typed' /\ thread[t].at = "check" /\ OnlyThread(t, thread'[t])
      /\ thread'[t].at = (IF port[t[1]].narrowed THEN "off" ELSE "take")
      /\ SameButPlace(thread'[t], thread[t])
      /\ UNCHANGED <<counts, free, port, overlapped, ledger>>
  <2>1. PICK a \in Places : a = IF port[t[1]].narrowed THEN "off" ELSE "take"  BY Zenon DEF Places
  <2>2. thread[t].at = "check" /\ Goes(t, a) /\ UNCHANGED <<counts, free, port, overlapped, ledger>>
    BY Zenon, <2>1 DEF CheckNarrowed
  <2>3. OnlyThread(t, [thread[t] EXCEPT !.at = a]) /\ thread'[t].at = a  BY Zenon, <2>2, GoesTo
  <2>4. thread'[t] = [thread[t] EXCEPT !.at = a] /\ OnlyThread(t, thread'[t])
    BY Zenon, <2>3 DEF OnlyThread
  <2>5. thread[t] \in ThreadRec  BY Zenon DEF Typed
  <2>6. SameButPlace(thread'[t], thread[t])  BY Zenon, <2>4, <2>5 DEF SameButPlace, ThreadRec
  <2>7. Typed'  BY Zenon, <2>2, <2>4 DEF Typed, OnlyThread
  <2> QED  BY Zenon, <2>1, <2>2, <2>3, <2>4, <2>6, <2>7
<1>1. /\ Typed' /\ thread[t].at = "check" /\ OnlyThread(t, thread'[t])
      /\ thread'[t].at \in {"off", "take"} /\ SameButPlace(thread'[t], thread[t])
      /\ UNCHANGED <<counts, free, port, overlapped, ledger>>
  BY Zenon, <1>0
<1>2. SameRole(thread[t], thread'[t])  BY Zenon, <1>1 DEF SameRole, SameButPlace, Looking
<1>3. \A p \in Ports : Settled(p)'  BY Zenon, <1>1, <1>2, QuietStep DEF SameShare
<1>4. thread[t].at \notin Begun /\ thread'[t].at \notin Begun
      /\ thread[t].at \notin Talking /\ thread'[t].at \notin Talking
  BY Zenon, <1>1 DEF Begun, Talking
<1>5. Counting'  BY Zenon, <1>1, <1>4, CountingKept
<1>6. \A q \in Ports : Waits(q)'
  <2>1. t[2] # 0 => Fit(thread[t])  BY Zenon, WorkerFits
  <2>2. t[2] # 0 => Fit(thread'[t])  BY Zenon, <1>1, <2>1 DEF Fit, SameButPlace, Begun
  <2>3. port[t[1]].narrowed => thread'[t].at = "off"  BY Zenon, <1>0
  <2>4. t \in Spent(t[1]) => t \in Spent(t[1])'  BY Zenon, <1>1, <2>3 DEF Spent, SameButPlace
  <2>5. thread'[t].at \notin Asking  BY Zenon, <1>1 DEF Asking
  <2> QED  BY Zenon, <1>1, <2>2, <2>4, <2>5, QuietWaits
<1> QED  BY Zenon, <1>1, <1>3, <1>5, <1>6 DEF Inv

----------------------------------------------------------------------------
(* The steps that take or leave a flow                                     *)

LEMMA GivesUpShape ==
  ASSUME Typed, NEW p \in Ports, Shape(p), NEW t \in Threads, t[1] = p,
         thread[t].at \in Running, OnlyThread(t, thread'[t]),
         thread'[t].at = AfterFlow(t), t[2] = 0 => thread'[t].flow = thread[t].flow,
         port'[p].next = port[p].next, port'[p].alone = port[p].alone,
         \/ port'[p].again = port[p].again
         \/ t[2] # 0 /\ port'[p].again = port[p].again \cup {thread[t].flow}
  PROVE  /\ Shape(p)' /\ (First(p)' <=> First(p)) /\ (Wide(p)' <=> Wide(p))
         /\ t[2] # 0 => Wide(p) /\ ~First(p)
         /\ thread'[t].at \notin Running
<1>1. CASE t[2] = 0
  <2>1. t = Main(p) /\ port'[p].again = port[p].again  BY Zenon, <1>1, ThreadOf
  <2>2. thread'[t].at = IF thread[t].flow = 0 THEN "widen" ELSE "serial"
    BY Zenon, <1>1 DEF AfterFlow
  <2>3. (First(p)' <=> First(p)) /\ ~Wide(p)' /\ ~Wide(p)
    BY Zenon, <1>1, <2>1, <2>2 DEF First, Wide, Running
  <2>4. \A w \in Workers(p) : thread'[w] = thread[w] /\ thread[w].at = "off"
    <3>1. \A w \in Workers(p) : w \in Threads /\ w # t  BY <2>1, ThreadsOf
    <3>2. \A w \in Workers(p) : thread[w].at = "off"  BY Zenon, <2>3 DEF Shape
    <3> QED  BY Zenon, <3>1, <3>2 DEF OnlyThread
  <2>5. Shape(p)'
    <3>1. \A w \in Workers(p) : thread'[w].at = "off" /\ thread'[w].at \notin Running
      BY Zenon, <2>4 DEF Running
    <3>2. thread'[Main(p)].at \in {"widen", "serial"}
          /\ (thread'[Main(p)].at = "widen" => thread'[Main(p)].flow = 0)
      BY Zenon, <1>1, <2>1, <2>2
    <3> QED  BY Zenon, <2>1, <2>3, <3>1, <3>2 DEF Shape, Looking
  <2>6. thread'[t].at \notin Running  BY Zenon, <2>2 DEF Running
  <2> QED  BY Zenon, <1>1, <2>3, <2>5, <2>6
<1>2. CASE t[2] # 0
  <2>1. t \in Workers(p) /\ t # Main(p) /\ Main(p) \in Threads  BY <1>2, ThreadOf, ThreadsOf
  <2>2. thread'[t].at = "check"  BY Zenon, <1>2 DEF AfterFlow
  <2>3. thread'[Main(p)] = thread[Main(p)]  BY Zenon, <2>1 DEF OnlyThread
  <2>4. (First(p)' <=> First(p)) /\ (Wide(p)' <=> Wide(p))  BY Zenon, <2>3 DEF First, Wide
  <2>5. Wide(p) /\ ~First(p)  BY Zenon, <2>1 DEF Shape, First, Wide, Running
  <2>6. /\ thread[t].flow >= 1 /\ thread[t].flow < port[p].next
        /\ \A v \in Workers(p) : v # t /\ thread[v].at \in Running => thread[v].flow # thread[t].flow
    BY Zenon, <2>1 DEF Shape
  <2>7. \A w \in Workers(p) : w # t => thread'[w] = thread[w]  BY Zenon, ThreadsOf DEF OnlyThread
  <2>8. Shape(p)'
    <3>1. \A f \in port'[p].again : f \in port[p].again \/ f = thread[t].flow  OBVIOUS
    <3>2. \A w \in Workers(p) :
            /\ thread'[w].at \in Running \cup Looking
            /\ thread'[w].at \in Running =>
                  /\ thread'[w].flow >= 1 /\ thread'[w].flow < port'[p].next
                  /\ thread'[w].flow \notin port'[p].again
                  /\ \A v \in Workers(p) :
                       v # w /\ thread'[v].at \in Running => thread'[v].flow # thread'[w].flow
      <4> SUFFICES ASSUME NEW w \in Workers(p)
                   PROVE  /\ thread'[w].at \in Running \cup Looking
                          /\ thread'[w].at \in Running =>
                               /\ thread'[w].flow >= 1 /\ thread'[w].flow < port'[p].next
                               /\ thread'[w].flow \notin port'[p].again
                               /\ \A v \in Workers(p) : v # w /\ thread'[v].at \in Running
                                                        => thread'[v].flow # thread'[w].flow
        OBVIOUS
      <4>1. CASE w = t  BY Zenon, <2>2, <4>1 DEF Running, Looking
      <4>2. CASE w # t
        <5>1. thread'[w] = thread[w]  BY Zenon, <2>7, <4>2
        <5>2. thread[w].at \in Running => thread[w].flow \notin port'[p].again
          BY Zenon, <2>6, <3>1, <4>2 DEF Shape
        <5>3. \A v \in Workers(p) : thread'[v].at \in Running => thread'[v] = thread[v]
          BY Zenon, <2>2, <2>7 DEF Running
        <5> QED  BY <5>1, <5>2, <5>3 DEF Shape
      <4> QED  BY Zenon, <4>1, <4>2
    <3>3. \A f \in port'[p].again : f >= 1 /\ f < port'[p].next
      BY Zenon, <2>6, <3>1 DEF Shape
    <3> QED  BY Zenon, <2>3, <2>4, <2>5, <3>2, <3>3 DEF Shape
  <2>9. thread'[t].at \notin Running  BY Zenon, <2>2 DEF Running
  <2> QED  BY Zenon, <2>4, <2>5, <2>8, <2>9
<1> QED  BY Zenon, <1>1, <1>2, ThreadOf

(* How a thread may be done with a flow: it was skipped, it is filed, or   *)
(* it is left to be run again.                                             *)
LeavesFlow(p, t, g) ==
  \/ /\ thread[t].at = "permit" /\ <<p, g>> \in Skipped
     /\ port'[p].again = port[p].again /\ port'[p].filed[g] = port[p].filed[g]
  \/ /\ thread[t].at \in Begun
     /\ port'[p].again = port[p].again /\ port'[p].filed[g] = port[p].filed[g] + 1
  \/ /\ thread[t].at \in Begun /\ t[2] # 0 /\ <<p, g>> \in Repeatable
     /\ port'[p].again = port[p].again \cup {g} /\ port'[p].filed[g] = port[p].filed[g]

(* A flow leaves a thread's hand: it is over for good, or left to be run   *)
(* again.                                                                  *)
LEMMA GivesUp ==
  ASSUME Typed, NEW p \in Ports, Settled(p), NEW t \in Threads, t[1] = p,
         NEW g \in Flows(p), g = thread[t].flow,
         thread[t].at \in Running, OnlyThread(t, thread'[t]),
         thread'[t].at = AfterFlow(t), t[2] = 0 => thread'[t].flow = thread[t].flow,
         port'[p].next = port[p].next, port'[p].alone = port[p].alone,
         ledger'[p].runs = ledger[p].runs,
         \A f \in Flows(p) : f # g => port'[p].filed[f] = port[p].filed[f],
         LeavesFlow(p, t, g)
  PROVE  Settled(p)'
<1> Shape(p) /\ \A f \in Flows(p) : Once(p, f)  BY Zenon DEF Settled
<1>1. \/ port'[p].again = port[p].again
      \/ t[2] # 0 /\ port'[p].again = port[p].again \cup {thread[t].flow}
  BY Zenon DEF LeavesFlow
<1>2. /\ Shape(p)' /\ (First(p)' <=> First(p)) /\ (Wide(p)' <=> Wide(p))
      /\ t[2] # 0 => Wide(p) /\ ~First(p)
      /\ thread'[t].at \notin Running
  BY Zenon, <1>1, GivesUpShape
<1>3. \A u \in Threads : u # t => thread'[u] = thread[u]  BY Zenon DEF OnlyThread
<1>4. ASSUME NEW B, B \subseteq Running
      PROVE  (Held(p, g, B) <=> thread[t].at \in B) /\ ~Held(p, g, B)'
  <2>1. thread'[t].at \notin B  BY Zenon, <1>2, <1>4
  <2>2. /\ Held(p, thread[t].flow, B) <=> thread[t].at \in B
        /\ ~\E u \in Threads : u[1] = p /\ thread'[u].at \in B /\ thread'[u].flow = thread[t].flow
    BY Zenon, <1>3, <1>4, <2>1, OwnFlow
  <2> QED  BY Zenon, <2>2 DEF Held, Holds
<1>5. /\ Held(p, g, Running) /\ ~Held(p, g, Running)' /\ ~Held(p, g, Begun)'
      /\ ~Held(p, g, {"permit"})'
      /\ thread[t].at = "permit" => Held(p, g, {"permit"})
      /\ thread[t].at \in Begun => Held(p, g, Begun)
  BY Zenon, <1>4 DEF Running, Begun
<1>6. g \notin Pending(p)  BY Zenon, <1>5 DEF Once
<1>7. \A f \in Flows(p) : /\ f # g => (f \in Pending(p)' <=> f \in Pending(p))
                          /\ f # g => (f \in port'[p].again <=> f \in port[p].again)
  BY Zenon, <1>1, <1>2 DEF Pending, LeftToRun, Rest
<1>8. port'[p].again = port[p].again => g \notin Pending(p)'
  BY Zenon, <1>2, <1>6 DEF Pending, LeftToRun, Rest
<1>9. Once(p, g)'
  <2>1. CASE /\ thread[t].at = "permit" /\ <<p, g>> \in Skipped
             /\ port'[p].again = port[p].again /\ port'[p].filed[g] = port[p].filed[g]
    <3>1. /\ port[p].filed[g] = 0 /\ ledger[p].runs[g] = Before(p, g) /\ g \notin Wanted(p)
          /\ g \in port[p].again => <<p, g>> \in Repeatable
      BY Zenon, <1>5, <2>1 DEF Once, Wanted
    <3>2. Before(p, g)' = Before(p, g) /\ Wanted(p)' = Wanted(p)  BY Zenon, <2>1 DEF Before, Wanted
    <3>3. ledger'[p].runs[g] <= Before(p, g) + 1  BY <3>1 DEF Before
    <3> QED  BY Zenon, <1>5, <1>8, <2>1, <3>1, <3>2, <3>3 DEF Once
  <2>2. CASE /\ thread[t].at \in Begun
             /\ port'[p].again = port[p].again /\ port'[p].filed[g] = port[p].filed[g] + 1
    <3>1. /\ port[p].filed[g] = 0 /\ ledger[p].runs[g] = Before(p, g) + 1 /\ g \in Wanted(p)
          /\ g \in port[p].again => <<p, g>> \in Repeatable
      BY Zenon, <1>5, <2>2 DEF Once
    <3>2. port'[p].filed[g] = 1  BY <2>2, <3>1
    <3>3. Before(p, g)' = Before(p, g) /\ Wanted(p)' = Wanted(p)  BY Zenon, <2>2 DEF Before, Wanted
    <3>4. ledger'[p].runs[g] <= Before(p, g) + 1  BY <3>1 DEF Before
    <3> QED  BY Zenon, <1>5, <1>8, <2>2, <3>1, <3>2, <3>3, <3>4 DEF Once
  <2>3. CASE /\ thread[t].at \in Begun /\ t[2] # 0 /\ <<p, g>> \in Repeatable
             /\ port'[p].again = port[p].again \cup {g} /\ port'[p].filed[g] = port[p].filed[g]
    <3>1. t \in Workers(p)  BY Zenon, <2>3, ThreadOf
    <3>2. g \notin port[p].again  BY Zenon, <3>1 DEF Shape
    <3>3. g \in Pending(p)'  BY Zenon, <1>2, <2>3 DEF Pending, LeftToRun
    <3>4. port[p].filed[g] = 0 /\ ledger[p].runs[g] = Before(p, g) + 1
      BY Zenon, <1>5, <2>3 DEF Once
    <3>5. Before(p, g) = 0 /\ Before(p, g)' = 1  BY Zenon, <2>3, <3>2 DEF Before
    <3>6. port'[p].filed[g] = 0 /\ ledger'[p].runs[g] = Before(p, g)'  BY <2>3, <3>4, <3>5
    <3> QED  BY Zenon, <1>5, <2>3, <3>3, <3>6 DEF Once
  <2> QED  BY Zenon, <2>1, <2>2, <2>3 DEF LeavesFlow
<1>10. ASSUME NEW f \in Flows(p), f # g PROVE Once(p, f)'
  BY Zenon, <1>2, <1>3, <1>7, <1>10, OtherFlow
<1> QED  BY Zenon, <1>2, <1>9, <1>10 DEF Settled

LEMMA SkipFlowKeeps ==
  ASSUME Inv, NEW t \in Threads, SkipFlow(t)
  PROVE  Inv'
<1> Typed /\ \A q \in Ports : Settled(q)  BY Zenon DEF Inv
<1>0. /\ Typed' /\ thread[t].at = "permit" /\ <<t[1], thread[t].flow>> \in Skipped
      /\ OnlyThread(t, [thread[t] EXCEPT !.at = AfterFlow(t)])
      /\ thread'[t].at = AfterFlow(t) /\ thread'[t].flow = thread[t].flow
      /\ SameButPlace(thread'[t], thread[t])
      /\ UNCHANGED <<counts, free, port, overlapped, ledger>>
  <2>1. AfterFlow(t) \in Places  BY Zenon DEF AfterFlow, Places
  <2>2. Goes(t, AfterFlow(t)) /\ UNCHANGED <<counts, free, port, overlapped, ledger>>
    BY Zenon DEF SkipFlow
  <2>3. PICK a \in Places : a = AfterFlow(t)  BY Zenon, <2>1
  <2>4. OnlyThread(t, [thread[t] EXCEPT !.at = a]) /\ thread'[t].at = a
        /\ thread'[t].flow = thread[t].flow /\ SameButPlace(thread'[t], thread[t])
    BY Zenon, <2>2, <2>3, GoesTo
  <2>5. Typed'  BY Zenon, <2>2, <2>4 DEF Typed, OnlyThread
  <2> QED  BY Zenon, <2>2, <2>3, <2>4, <2>5 DEF SkipFlow
<1>1. PICK p \in Ports : p = t[1]  BY Zenon, ThreadOf
<1>2. /\ Typed' /\ thread[t].at = "permit" /\ <<t[1], thread[t].flow>> \in Skipped
      /\ OnlyThread(t, [thread[t] EXCEPT !.at = AfterFlow(t)])
      /\ thread'[t].at = AfterFlow(t) /\ thread'[t].flow = thread[t].flow
      /\ SameButPlace(thread'[t], thread[t])
      /\ UNCHANGED <<counts, free, port, overlapped, ledger>>
  BY Zenon, <1>0
<1>3. OnlyThread(t, thread'[t])  BY Zenon, <1>2 DEF OnlyThread
<1>4. PICK g \in Flows(p) : g = thread[t].flow  BY Zenon, <1>1 DEF Typed
<1>5. thread[t].at \in Running /\ thread[t].at \notin Begun /\ thread[t].at \notin Talking
  BY Zenon, <1>2 DEF Running, Begun, Talking
<1>6. Settled(p)'
  <2>1. LeavesFlow(p, t, g) /\ t[1] = p  BY Zenon, <1>1, <1>2, <1>4 DEF LeavesFlow
  <2> QED  BY Zenon, <1>2, <1>3, <1>4, <1>5, <2>1, GivesUp
<1>7. \A q \in Ports : q # p => Settled(q)'
  BY Zenon, <1>1, <1>2, <1>3, OtherPort DEF OnlyThread
<1>8. thread'[t].at \notin Begun /\ thread'[t].at \notin Talking
  BY Zenon, <1>2 DEF AfterFlow, Begun, Talking
<1>9. Counting'  BY Zenon, <1>2, <1>3, <1>5, <1>8, CountingKept
<1>10. \A q \in Ports : Waits(q)'
  <2>1. t[2] # 0 => ~thread[t].stalled  BY Zenon, <1>5, WorkerFits DEF Fit
  <2>2. t[2] # 0 => Fit(thread'[t])
    BY Zenon, <1>2, <2>1 DEF Fit, SameButPlace, AfterFlow
  <2>3. t \notin Spent(t[1])
    <3>1. t[2] = 0 => t \notin Workers(t[1])  BY Zenon, <1>1, ThreadsOf
    <3> QED  BY Zenon, <1>2, <2>1, <3>1 DEF Spent
  <2>4. thread'[t].at \notin Asking  BY Zenon, <1>2 DEF AfterFlow, Asking
  <2> QED  BY Zenon, <1>2, <1>3, <2>2, <2>3, <2>4, QuietWaits
<1> QED  BY Zenon, <1>2, <1>6, <1>7, <1>9, <1>10 DEF Inv

LEMMA EndFlowKeeps ==
  ASSUME Inv, NEW t \in Threads, EndFlow(t)
  PROVE  Inv'
<1> Typed /\ \A q \in Ports : Settled(q)  BY Zenon DEF Inv
<1>0. /\ Typed' /\ thread[t].at = "over" /\ free' = free + 1
      /\ OnlyThread(t, thread'[t]) /\ thread'[t].at = AfterFlow(t)
      /\ t[2] = 0 => SameButPlace(thread'[t], thread[t])
      /\ t[2] # 0 => thread'[t] = Idle("check")
      /\ OnlyPort(t[1], port'[t[1]])
      /\ port'[t[1]].next = port[t[1]].next /\ port'[t[1]].alone = port[t[1]].alone
      /\ port'[t[1]].strikes = port[t[1]].strikes
      /\ t[2] = 0 => port'[t[1]].narrowed = port[t[1]].narrowed
      /\ t[2] # 0 => port'[t[1]].narrowed = (port[t[1]].narrowed \/ Slow(t))
      /\ port'[t[1]].again = IF Repeated(t) THEN port[t[1]].again \cup {thread[t].flow}
                             ELSE port[t[1]].again
      /\ \A f \in Flows(t[1]) : port'[t[1]].filed[f] =
           IF f = thread[t].flow /\ ~Repeated(t) THEN port[t[1]].filed[f] + 1
           ELSE port[t[1]].filed[f]
      /\ UNCHANGED <<counts, overlapped, ledger>>
  <2>1. PICK p \in Ports : p = t[1]  BY Zenon, ThreadOf
  <2>2. PICK r : r = thread[t]  OBVIOUS
  <2>3. r \in ThreadRec /\ r.flow \in Flows(p)  BY Zenon, <2>1, <2>2 DEF Typed
  <2>4. PICK g \in Flows(p) : g = r.flow  BY Zenon, <2>3
  <2>5. PICK o : o = port[p]  OBVIOUS
  <2>6. o \in PortRec(p)  BY Zenon, <2>5 DEF Typed
  <2>7. r.at = "over" /\ free' = free + 1 /\ UNCHANGED <<counts, overlapped, ledger>>
    BY Zenon, <2>2 DEF EndFlow
  <2>8. Slow(t) \in BOOLEAN  BY Zenon, <2>2, <2>3 DEF Slow, ThreadRec
  <2>9. PICK more : more = [o.filed EXCEPT ![g] = @ + 1]  BY Zenon
  <2>10. /\ more \in [Flows(p) -> Nat]
         /\ \A f \in Flows(p) : more[f] = IF f = g THEN o.filed[f] + 1 ELSE o.filed[f]
    BY <2>6, <2>9 DEF PortRec
  <2>11. Filed(p, g) = [port EXCEPT ![p] = [o EXCEPT !.filed = more]]
    BY Zenon, <2>5, <2>9 DEF Filed
  <2>12. CASE t[2] = 0
    <3>1. /\ port' = [port EXCEPT ![p] = [o EXCEPT !.filed = more]]
          /\ thread' = [thread EXCEPT ![t].at = AfterFlow(t)]
      BY Zenon, <2>1, <2>2, <2>4, <2>11, <2>12 DEF EndFlow
    <3>2. PICK w : w = [o EXCEPT !.filed = more]  BY Zenon
    <3>3. w \in PortRec(p) /\ w.next = o.next /\ w.again = o.again /\ w.alone = o.alone
          /\ w.strikes = o.strikes /\ w.filed = more /\ w.narrowed = o.narrowed
      BY Zenon, <2>6, <2>10, <3>2 DEF PortRec
    <3>4. OnlyPort(p, w)  BY Zenon, <3>1, <3>2, <3>3, SetPort
    <3>5. port'[p] = w  BY Zenon, <3>4 DEF OnlyPort
    <3>6. PICK a \in Places : a = AfterFlow(t)  BY Zenon DEF AfterFlow, Places
    <3>7. Goes(t, a)  BY Zenon, <3>1, <3>6 DEF Goes
    <3>8. OnlyThread(t, [thread[t] EXCEPT !.at = a]) /\ thread'[t].at = a  BY Zenon, <3>7, GoesTo
    <3>9. thread'[t] = [r EXCEPT !.at = a]  BY Zenon, <2>2, <3>8 DEF OnlyThread
    <3>10. SameButPlace(thread'[t], r)  BY Zenon, <2>3, <3>9 DEF SameButPlace, ThreadRec
    <3>11. OnlyThread(t, thread'[t])  BY Zenon, <2>2, <3>8, <3>9
    <3>12. ~Repeated(t)  BY Zenon, <2>12 DEF Repeated
    <3>13. Typed'  BY <2>7, <3>4, <3>8 DEF Typed, OnlyThread, OnlyPort
    <3>14. /\ port'[p].next = port[p].next /\ port'[p].alone = port[p].alone
           /\ port'[p].strikes = port[p].strikes /\ port'[p].again = port[p].again
           /\ port'[p].narrowed = port[p].narrowed
           /\ \A f \in Flows(p) : port'[p].filed[f] =
                IF f = r.flow THEN port[p].filed[f] + 1 ELSE port[p].filed[f]
      BY Zenon, <2>4, <2>5, <2>10, <3>3, <3>5
    <3> QED
      BY Zenon, <2>1, <2>2, <2>7, <2>12, <3>4, <3>5, <3>6, <3>8, <3>10, <3>11, <3>12, <3>13, <3>14
  <2>13. CASE t[2] # 0
    <3>1. AfterFlow(t) = "check"  BY Zenon, <2>13 DEF AfterFlow
    <3>2. thread' = [thread EXCEPT ![t] = Idle("check")]  BY Zenon, <2>13 DEF EndFlow
    <3>3. OnlyThread(t, Idle("check"))
      BY Zenon, <2>1, <3>2, IdleTyped, FlowsOf, SetThread DEF Places
    <3>4. thread'[t] = Idle("check") /\ thread'[t].at = "check"
      BY Zenon, <3>3, IdleTyped DEF OnlyThread, Places
    <3>5. CASE RunAgain(t)
      <4>1. PICK w : w = [o EXCEPT !.again = o.again \cup {g}, !.narrowed = TRUE]  OBVIOUS
      <4>2. port' = [port EXCEPT ![p].again = @ \cup {g}, ![p].narrowed = TRUE]
        BY Zenon, <2>1, <2>2, <2>4, <2>13, <3>5 DEF EndFlow
      <4>3. port' = [port EXCEPT ![p] = w]  BY Zenon, <2>5, <4>1, <4>2
      <4>4. o.again \cup {g} \in SUBSET Flows(p)  BY Zenon, <2>6 DEF PortRec
      <4>5. w \in PortRec(p) /\ w.next = o.next /\ w.again = o.again \cup {g} /\ w.alone = o.alone
            /\ w.strikes = o.strikes /\ w.filed = o.filed /\ w.narrowed = TRUE
        BY Zenon, <2>6, <4>1, <4>4 DEF PortRec
      <4>6. OnlyPort(p, w)  BY Zenon, <4>3, <4>5, SetPort
      <4>7. port'[p] = w  BY Zenon, <4>6 DEF OnlyPort
      <4>8. Repeated(t) /\ Slow(t)  BY Zenon, <2>13, <3>5 DEF Repeated, RunAgain
      <4>9. Typed'  BY <2>7, <3>3, <4>6 DEF Typed, OnlyThread, OnlyPort
      <4>10. /\ port'[p].next = port[p].next /\ port'[p].alone = port[p].alone
             /\ port'[p].strikes = port[p].strikes /\ port'[p].narrowed = TRUE
             /\ port'[p].again = port[p].again \cup {r.flow} /\ port'[p].filed = port[p].filed
        BY Zenon, <2>4, <2>5, <4>5, <4>7
      <4> QED  BY Zenon, <2>1, <2>2, <2>7, <2>13, <3>1, <3>3, <3>4, <4>6, <4>7, <4>8, <4>9, <4>10
    <3>6. CASE ~RunAgain(t)
      <4>1. PICK b \in BOOLEAN : b = (o.narrowed \/ Slow(t))  BY Zenon, <2>6, <2>8 DEF PortRec
      <4>2. PICK w : w = [o EXCEPT !.filed = more, !.narrowed = b]  OBVIOUS
      <4>3. port' = [Filed(p, g) EXCEPT ![p].narrowed = @ \/ Slow(t)]
        BY Zenon, <2>1, <2>2, <2>4, <2>13, <3>6 DEF EndFlow
      <4>4. PICK v : v = [o EXCEPT !.filed = more]  BY Zenon
      <4>5. v.narrowed = o.narrowed /\ [v EXCEPT !.narrowed = b] = w
        BY Zenon, <2>6, <4>2, <4>4 DEF PortRec
      <4>6. port' = [port EXCEPT ![p] = w]
        <5>1. port = [q \in Ports |-> port[q]]  BY Zenon DEF Typed
        <5>2. Filed(p, g) = [q \in Ports |-> IF q = p THEN v ELSE port[q]]
          BY Zenon, <2>11, <4>4, <5>1
        <5>3. port' = [q \in Ports |-> IF q = p THEN [v EXCEPT !.narrowed = v.narrowed \/ Slow(t)]
                                       ELSE port[q]]
          BY Zenon, <4>3, <5>2
        <5>4. [v EXCEPT !.narrowed = v.narrowed \/ Slow(t)] = w  BY Zenon, <4>1, <4>5
        <5> QED  BY Zenon, <5>1, <5>3, <5>4
      <4>7. w \in PortRec(p) /\ w.next = o.next /\ w.again = o.again /\ w.alone = o.alone
            /\ w.strikes = o.strikes /\ w.filed = more /\ w.narrowed = b
        BY Zenon, <2>6, <2>10, <4>2 DEF PortRec
      <4>8. OnlyPort(p, w)  BY Zenon, <4>6, <4>7, SetPort
      <4>9. port'[p] = w  BY Zenon, <4>8 DEF OnlyPort
      <4>10. ~Repeated(t)  BY Zenon, <3>6 DEF Repeated
      <4>11. Typed'  BY <2>7, <3>3, <4>8 DEF Typed, OnlyThread, OnlyPort
      <4>12. /\ port'[p].next = port[p].next /\ port'[p].alone = port[p].alone
             /\ port'[p].strikes = port[p].strikes /\ port'[p].again = port[p].again
             /\ port'[p].narrowed = (port[p].narrowed \/ Slow(t))
             /\ \A f \in Flows(p) : port'[p].filed[f] =
                  IF f = r.flow THEN port[p].filed[f] + 1 ELSE port[p].filed[f]
        BY Zenon, <2>4, <2>5, <2>10, <4>1, <4>7, <4>9
      <4> QED  BY Zenon, <2>1, <2>2, <2>7, <2>13, <3>1, <3>3, <3>4, <4>8, <4>9, <4>10, <4>11, <4>12
    <3> QED  BY Zenon, <3>5, <3>6
  <2> QED  BY Zenon, <2>12, <2>13, <2>1, ThreadOf
<1>1. PICK p \in Ports : p = t[1]  BY Zenon, ThreadOf
<1>2. PICK g \in Flows(p) : g = thread[t].flow  BY Zenon, <1>1 DEF Typed
<1>3. /\ Typed' /\ thread[t].at = "over" /\ free' = free + 1
      /\ OnlyThread(t, thread'[t]) /\ thread'[t].at = AfterFlow(t)
      /\ t[2] = 0 => SameButPlace(thread'[t], thread[t])
      /\ OnlyPort(p, port'[p])
      /\ port'[p].next = port[p].next /\ port'[p].alone = port[p].alone
      /\ port'[p].again = IF Repeated(t) THEN port[p].again \cup {g} ELSE port[p].again
      /\ \A f \in Flows(p) : port'[p].filed[f] =
           IF f = g /\ ~Repeated(t) THEN port[p].filed[f] + 1 ELSE port[p].filed[f]
      /\ UNCHANGED <<counts, overlapped, ledger>>
  BY Zenon, <1>1, <1>2, <1>0
<1>4. thread[t].at \in Running /\ thread[t].at \in Begun /\ thread[t].at \notin Talking
  BY Zenon, <1>3 DEF Running, Begun, Talking
<1>5. t[2] = 0 => thread'[t].flow = thread[t].flow  BY Zenon, <1>3 DEF SameButPlace
<1>6. Settled(p)'
  <2>1. CASE Repeated(t)
    <3>1. t[2] # 0 /\ <<p, g>> \in Repeatable  BY Zenon, <1>1, <1>2, <2>1 DEF Repeated, RunAgain
    <3>2. port'[p].again = port[p].again \cup {g}
          /\ \A f \in Flows(p) : port'[p].filed[f] = port[p].filed[f]
      BY Zenon, <1>3, <2>1
    <3>3. Settled(p) /\ t[1] = p /\ ledger'[p].runs = ledger[p].runs  BY Zenon, <1>1, <1>3
    <3>4. LeavesFlow(p, t, g)
      BY Zenon, <1>4, <3>1, <3>2 DEF LeavesFlow
    <3> QED  BY Zenon, <1>2, <1>3, <1>4, <1>5, <3>2, <3>3, <3>4, GivesUp
  <2>2. CASE ~Repeated(t)
    <3>1. /\ port'[p].again = port[p].again /\ port'[p].filed[g] = port[p].filed[g] + 1
          /\ \A f \in Flows(p) : f # g => port'[p].filed[f] = port[p].filed[f]
      BY Zenon, <1>3, <2>2
    <3>2. Settled(p) /\ t[1] = p /\ ledger'[p].runs = ledger[p].runs  BY Zenon, <1>1, <1>3
    <3>3. LeavesFlow(p, t, g)  BY Zenon, <1>4, <3>1 DEF LeavesFlow
    <3> QED  BY Zenon, <1>2, <1>3, <1>4, <1>5, <3>1, <3>2, <3>3, GivesUp
  <2> QED  BY Zenon, <2>1, <2>2
<1>7. \A q \in Ports : q # p => Settled(q)'
  BY Zenon, <1>1, <1>3, OtherPort DEF OnlyThread, OnlyPort
<1>8. thread'[t].at \notin Begun /\ thread'[t].at \notin Talking
  BY Zenon, <1>3 DEF AfterFlow, Begun, Talking
<1>9. Counting'  BY Zenon, <1>3, <1>4, <1>8, CountingKept
<1>10. \A q \in Ports : Waits(q)'
  <2>1. /\ t[2] = 0 => port'[p].narrowed = port[p].narrowed
        /\ t[2] # 0 => /\ port'[p].narrowed = (port[p].narrowed \/ Slow(t))
                       /\ thread'[t] = Idle("check")
        /\ port'[p].strikes = port[p].strikes
    BY Zenon, <1>0, <1>1
  <2>2. Idle("check").at = "check" /\ Idle("check").stalled = FALSE  BY DEF Idle
  <2>3. t[2] # 0 => Fit(thread'[t])  BY Zenon, <2>1, <2>2 DEF Fit
  <2>4. t \in Spent(p) => t \in Spent(p)'
    <3>1. ASSUME t \in Spent(p) PROVE t[2] # 0 /\ t \in Workers(p) /\ Slow(t)
      BY Zenon, <1>3, <3>1, ThreadsOf DEF Spent, Slow
    <3> QED  BY Zenon, <2>1, <2>2, <3>1 DEF Spent
  <2>5. thread'[t].at \notin Asking  BY Zenon, <1>3 DEF AfterFlow, Asking
  <2>6. t[2] # 0 => port'[p].next > 1
    <3>1. SUFFICES ASSUME t[2] # 0 PROVE port'[p].next > 1  OBVIOUS
    <3>2. t \in Workers(p) /\ Shape(p)  BY Zenon, <1>1, <3>1, ThreadOf DEF Settled
    <3>3. g >= 1 /\ g < port[p].next  BY Zenon, <1>2, <1>4, <3>2 DEF Shape
    <3>4. g \in Nat /\ port[p].next \in Nat  BY Zenon, FlowsOf DEF Typed, PortRec
    <3> QED  BY <1>3, <3>3, <3>4
  <2>7. \A q \in Ports : q # p => port'[q] = port[q]  BY Zenon, <1>3 DEF OnlyPort
  <2>8. port[p].narrowed => port'[p].narrowed  BY Zenon, <2>1
  <2>9. port'[p].narrowed => port[p].narrowed \/ port'[p].next > 1  BY Zenon, <2>1, <2>6
  <2> QED
    BY Zenon, <1>1, <1>3, <2>1, <2>3, <2>4, <2>5, <2>7, <2>8, <2>9, QuietWaits
<1> QED  BY Zenon, <1>3, <1>6, <1>7, <1>9, <1>10 DEF Inv

LEMMA AcquireKeeps ==
  ASSUME Inv, NEW t \in Threads, Acquire(t)
  PROVE  Inv'
<1> Typed /\ \A q \in Ports : Settled(q)  BY Zenon DEF Inv
<1>0. /\ Typed' /\ thread[t].at = "permit" /\ <<t[1], thread[t].flow>> \notin Skipped
      /\ free > 0 /\ free' = free - 1
      /\ OnlyThread(t, [thread[t] EXCEPT !.at = "ask"])
      /\ thread'[t].at = "ask" /\ thread'[t].flow = thread[t].flow
      /\ SameButPlace(thread'[t], thread[t])
      /\ \A q \in Ports : ledger'[q].dead = ledger[q].dead
                          /\ ledger'[q].foreign = ledger[q].foreign
      /\ \A q \in Ports : q # t[1] => ledger'[q] = ledger[q]
      /\ \A f \in Flows(t[1]) : ledger'[t[1]].runs[f] =
           IF f = thread[t].flow THEN ledger[t[1]].runs[f] + 1 ELSE ledger[t[1]].runs[f]
      /\ UNCHANGED <<counts, port, overlapped>>
  <2>1. PICK p \in Ports : p = t[1]  BY Zenon, ThreadOf
  <2>2. PICK g \in Flows(p) : g = thread[t].flow  BY Zenon, <2>1 DEF Typed
  <2>3. /\ thread[t].at = "permit" /\ <<t[1], thread[t].flow>> \notin Skipped
        /\ free > 0 /\ free' = free - 1 /\ Goes(t, "ask")
        /\ ledger' = [ledger EXCEPT ![p].runs[g] = @ + 1]
        /\ UNCHANGED <<counts, port, overlapped>>
    BY Zenon, <2>1, <2>2 DEF Acquire
  <2>4. /\ OnlyThread(t, [thread[t] EXCEPT !.at = "ask"])
        /\ thread'[t].at = "ask" /\ thread'[t].flow = thread[t].flow
        /\ SameButPlace(thread'[t], thread[t])
    BY Zenon, <2>3, GoesTo DEF Places
  <2>5. PICK l : l = ledger[p]  OBVIOUS
  <2>6. l \in LedgerRec(p)  BY Zenon, <2>5 DEF Typed
  <2>7. PICK r : r = [l EXCEPT !.runs = [l.runs EXCEPT ![g] = @ + 1]]  BY Zenon
  <2>8. /\ r \in LedgerRec(p) /\ r.dead = l.dead /\ r.foreign = l.foreign
        /\ \A f \in Flows(p) : r.runs[f] = IF f = g THEN l.runs[f] + 1 ELSE l.runs[f]
    BY <2>6, <2>7 DEF LedgerRec
  <2>9. ledger' = [ledger EXCEPT ![p] = r]
    BY Zenon, <2>3, <2>5, <2>7
  <2>10. OnlyLedger(p, r)  BY Zenon, <2>8, <2>9, SetLedger
  <2>11. /\ \A q \in Ports : ledger'[q].dead = ledger[q].dead
                            /\ ledger'[q].foreign = ledger[q].foreign
         /\ \A q \in Ports : q # p => ledger'[q] = ledger[q]
         /\ \A f \in Flows(p) : ledger'[p].runs[f] =
              IF f = g THEN ledger[p].runs[f] + 1 ELSE ledger[p].runs[f]
    BY Zenon, <2>5, <2>8, <2>10 DEF OnlyLedger
  <2>12. free' \in Int  BY <2>3 DEF Typed
  <2>13. Typed'
    BY Zenon, <2>3, <2>4, <2>10, <2>12 DEF Typed, OnlyThread, OnlyLedger
  <2> QED  BY Zenon, <2>1, <2>2, <2>3, <2>4, <2>11, <2>13
<1>1. PICK p \in Ports : p = t[1]  BY Zenon, ThreadOf
<1>2. PICK g \in Flows(p) : g = thread[t].flow  BY Zenon, <1>1 DEF Typed
<1>3. /\ Typed' /\ thread[t].at = "permit" /\ <<p, g>> \notin Skipped
      /\ free > 0 /\ free' = free - 1
      /\ OnlyThread(t, thread'[t]) /\ thread'[t].at = "ask" /\ thread'[t].flow = g
      /\ \A q \in Ports : q # p => ledger'[q] = ledger[q]
      /\ \A f \in Flows(p) : ledger'[p].runs[f] =
           IF f = g THEN ledger[p].runs[f] + 1 ELSE ledger[p].runs[f]
      /\ UNCHANGED <<counts, port, overlapped>>
  BY Zenon, <1>1, <1>2, <1>0 DEF OnlyThread
<1>4. \A u \in Threads : u # t => thread'[u] = thread[u]  BY Zenon, <1>3 DEF OnlyThread
<1>5. Alike(thread[t], thread'[t])  BY Zenon, <1>2, <1>3 DEF Alike, Running
<1>6. \A u \in Threads : u[1] = p => Alike(thread[u], thread'[u])
  BY Zenon, <1>4, <1>5 DEF Alike
<1>7. Shape(p) /\ SameShare(p) /\ \A f \in Flows(p) : Once(p, f)
  BY Zenon, <1>3 DEF Settled, SameShare
<1>8. Shape(p)' /\ Pending(p)' = Pending(p)  BY Zenon, <1>6, <1>7, AlikeShape
<1>9. thread[t].at \in Running  BY Zenon, <1>3 DEF Running
<1>10. /\ Held(p, g, Running) /\ Held(p, g, {"permit"})
       /\ Held(p, g, Begun)' /\ Held(p, g, Running)' /\ ~Held(p, g, {"permit"})'
  <2>1. {"permit"} \subseteq Running /\ Begun \subseteq Running /\ Running \subseteq Running
        /\ thread'[t].at \in Begun /\ thread'[t].at \notin {"permit"}
    BY Zenon, <1>3 DEF Running, Begun
  <2>2. \A B : B \subseteq Running =>
           /\ Held(p, g, B) <=> thread[t].at \in B
           /\ (\E u \in Threads : u[1] = p /\ thread'[u].at \in B /\ thread'[u].flow = g)
                <=> thread'[t].at \in B
    <3>1. t[1] = p /\ Shape(p) /\ thread[t].flow = g /\ thread'[t].flow = thread[t].flow
      BY Zenon, <1>1, <1>2, <1>3, <1>7
    <3>2. \A B : B \subseteq Running =>
             /\ Held(p, thread[t].flow, B) <=> thread[t].at \in B
             /\ (\E u \in Threads : u[1] = p /\ thread'[u].at \in B
                                   /\ thread'[u].flow = thread[t].flow)
                  <=> thread'[t].at \in B
      BY Zenon, <1>4, <1>9, <3>1, OwnFlow
    <3> QED  BY Zenon, <3>1, <3>2
  <2>3. /\ Held(p, g, Running) /\ Held(p, g, {"permit"})
    BY Zenon, <1>3, <1>9, <2>1, <2>2
  <2>4. Held(p, g, Begun)' /\ ~Held(p, g, {"permit"})'  BY Zenon, <2>1, <2>2 DEF Held, Holds
  <2>5. Held(p, g, Running)'  BY Zenon, <2>1, <2>4 DEF Held, Holds
  <2> QED  BY Zenon, <2>3, <2>4, <2>5
<1>11. Once(p, g)'
  <2>1. /\ port[p].filed[g] = 0 /\ ledger[p].runs[g] = Before(p, g)
        /\ g \notin Pending(p)
        /\ g \in port[p].again => <<p, g>> \in Repeatable
    BY Zenon, <1>7, <1>10 DEF Once
  <2>2. Before(p, g)' = Before(p, g) /\ Wanted(p)' = Wanted(p) /\ g \in Wanted(p)
    BY Zenon, <1>3 DEF Before, Wanted
  <2>3. ledger'[p].runs[g] = Before(p, g) + 1  BY Zenon, <1>3, <2>1
  <2>4. port' = port /\ ledger'[p].runs[g] = Before(p, g)' + 1 /\ g \notin Pending(p)'
        /\ g \in Wanted(p)'
    BY Zenon, <1>3, <1>8, <2>1, <2>2, <2>3
  <2> QED  BY Zenon, <1>10, <2>1, <2>4 DEF Once
<1>12. ASSUME NEW f \in Flows(p), f # g PROVE Once(p, f)'
  <2>1. ledger'[p].runs[f] = ledger[p].runs[f]  BY Zenon, <1>3, <1>12
  <2> QED  BY Zenon, <1>1, <1>2, <1>3, <1>4, <1>7, <1>8, <1>12, <2>1, OtherFlow
<1>13. Settled(p)'  BY Zenon, <1>8, <1>11, <1>12 DEF Settled
<1>14. \A q \in Ports : q # p => Settled(q)'
  BY Zenon, <1>1, <1>3, <1>4, OtherPort
<1>15. Counting'
  BY Zenon, <1>3, CountingKept DEF Begun, Talking
<1>16. \A q \in Ports : Waits(q)'
  <2>1. SameButPlace(thread'[t], thread[t])
        /\ \A q \in Ports : /\ ledger'[q].dead = ledger[q].dead
                             /\ ledger'[q].foreign = ledger[q].foreign
    BY Zenon, <1>0
  <2>2. t[2] # 0 => ~thread[t].stalled  BY Zenon, <1>3, WorkerFits DEF Fit, Begun
  <2>3. t[2] # 0 => Fit(thread'[t])  BY Zenon, <1>3, <2>1, <2>2 DEF Fit, SameButPlace
  <2>4. t \notin Spent(t[1])
    <3>1. t[2] = 0 => t \notin Workers(t[1])  BY Zenon, <1>1, ThreadsOf
    <3> QED  BY Zenon, <1>3, <2>2, <3>1 DEF Spent
  <2>5. thread'[t].at \notin Asking  BY Zenon, <1>3 DEF Asking
  <2> QED  BY Zenon, <1>3, <2>1, <2>3, <2>4, <2>5, QuietWaits
<1> QED  BY Zenon, <1>3, <1>13, <1>14, <1>15, <1>16 DEF Inv

(* A step in which no flow changes hands.                                  *)
LEMMA StillOnce ==
  ASSUME NEW p \in Ports, NEW f \in Flows(p), Once(p, f),
         \A u \in Threads : u[1] = p =>
           \/ thread'[u] = thread[u]
           \/ thread[u].at \notin Running /\ thread'[u].at \notin Running,
         f \in Pending(p)' <=> f \in Pending(p),
         port'[p].again = port[p].again, port'[p].filed = port[p].filed,
         ledger'[p].runs = ledger[p].runs
  PROVE  Once(p, f)'
<1>1. Begun \subseteq Running /\ {"permit"} \subseteq Running  BY Zenon DEF Begun, Running
<1>2. ASSUME NEW B, B \subseteq Running PROVE Held(p, f, B)' <=> Held(p, f, B)
  <2>1. \A u \in Threads : u[1] = p => (Holds(u, f, B)' <=> Holds(u, f, B))
    BY Zenon, <1>2 DEF Holds
  <2> QED  BY Zenon, <2>1 DEF Held
<1>3. /\ Held(p, f, Running)' <=> Held(p, f, Running)
      /\ Held(p, f, Begun)' <=> Held(p, f, Begun)
      /\ Held(p, f, {"permit"})' <=> Held(p, f, {"permit"})
  BY Zenon, <1>1, <1>2
<1> QED  BY Zenon, <1>3, OnceKept

(* A thread without a flow takes one that is pending.                      *)
LEMMA TakesFlow ==
  ASSUME NEW p \in Ports, NEW t \in Threads, t[1] = p, NEW g \in Flows(p),
         \A f \in Flows(p) : Once(p, f), g \in Pending(p),
         \A u \in Threads : u # t => thread'[u] = thread[u],
         thread[t].at \notin Running, thread'[t].at = "permit", thread'[t].flow = g,
         Pending(p)' = Pending(p) \ {g},
         port'[p].again = port[p].again, port'[p].filed = port[p].filed,
         ledger'[p].runs = ledger[p].runs
  PROVE  \A f \in Flows(p) : Once(p, f)'
<1>1. Once(p, g)'
  <2>1. /\ port[p].filed[g] = 0 /\ ledger[p].runs[g] = Before(p, g) /\ ~Held(p, g, Running)
        /\ g \in port[p].again => <<p, g>> \in Repeatable
    BY Zenon DEF Once
  <2>2. Begun \subseteq Running /\ "permit" \notin Begun /\ "permit" \in Running
    BY Zenon DEF Begun, Running
  <2>3. ~Held(p, g, Begun)'  BY Zenon, <2>1, <2>2 DEF Held, Holds
  <2>4. Held(p, g, Running)'  BY Zenon, <2>2 DEF Held, Holds
  <2>5. Before(p, g)' = Before(p, g)  BY Zenon DEF Before
  <2>6. g \notin Pending(p)'  OBVIOUS
  <2> QED  BY Zenon, <2>1, <2>3, <2>4, <2>5, <2>6 DEF Once
<1>2. ASSUME NEW f \in Flows(p), f # g PROVE Once(p, f)'
  <2>1. f \in Pending(p)' <=> f \in Pending(p)  BY Zenon, <1>2
  <2> QED  BY Zenon, <1>2, <2>1, OtherFlow
<1> QED  BY Zenon, <1>1, <1>2

LEMMA TakeFlowKeeps ==
  ASSUME Inv, NEW t \in Threads, TakeFlow(t)
  PROVE  Inv'
<1> Typed /\ \A q \in Ports : Settled(q)  BY Zenon DEF Inv
<1>0. /\ Typed' /\ thread[t].at = "take" /\ OnlyThread(t, thread'[t])
      /\ OnlyPort(t[1], port'[t[1]])
      /\ port'[t[1]].next = port[t[1]].next + 1
      /\ port'[t[1]].alone = port[t[1]].alone /\ port'[t[1]].again = port[t[1]].again
      /\ port'[t[1]].filed = port[t[1]].filed /\ port'[t[1]].narrowed = port[t[1]].narrowed
      /\ port'[t[1]].strikes = port[t[1]].strikes
      /\ thread'[t].step = 1 /\ thread'[t].stalled = FALSE
      /\ thread'[t].alone = FALSE /\ thread'[t].result = NoResult
      /\ \/ /\ port[t[1]].next \in Flows(t[1])
            /\ thread'[t].at = "permit" /\ thread'[t].flow = port[t[1]].next
         \/ /\ port[t[1]].next \notin Flows(t[1])
            /\ thread'[t].at = "off" /\ thread'[t].flow = 0
      /\ UNCHANGED <<counts, free, overlapped, ledger>>
  <2>1. PICK p \in Ports : p = t[1]  BY Zenon, ThreadOf
  <2>2. PICK o : o = port[p]  OBVIOUS
  <2>3. o \in PortRec(p)  BY Zenon, <2>2 DEF Typed
  <2>4. PICK f \in Nat : f = o.next  BY Zenon, <2>3 DEF PortRec
  <2>5. PICK r : r = IF f \in Flows(p) THEN [Idle("permit") EXCEPT !.flow = f] ELSE Idle("off")
    BY Zenon
  <2>6. /\ thread[t].at = "take" /\ port' = [port EXCEPT ![p].next = @ + 1]
        /\ thread' = [thread EXCEPT ![t] = r]
        /\ UNCHANGED <<counts, free, overlapped, ledger>>
    BY Zenon, <2>1, <2>2, <2>4, <2>5 DEF TakeFlow
  <2>7. /\ r \in ThreadRec /\ r.flow \in Flows(p) /\ r.step = 1 /\ r.stalled = FALSE
        /\ r.alone = FALSE /\ r.result = NoResult
        /\ \/ f \in Flows(p) /\ r.at = "permit" /\ r.flow = f
           \/ f \notin Flows(p) /\ r.at = "off" /\ r.flow = 0
    <3>1. CASE f \in Flows(p)  BY Zenon, <2>5, <3>1, FlowInHand
    <3>2. CASE f \notin Flows(p)
      <4>1. r = Idle("off")  BY Zenon, <2>5, <3>2
      <4>2. r \in ThreadRec  BY Zenon, <4>1, IdleTyped DEF Places
      <4> QED  BY Zenon, <3>2, <4>1, <4>2, FlowsOf DEF Idle
    <3> QED  BY Zenon, <3>1, <3>2
  <2>8. OnlyThread(t, r) /\ thread'[t] = r  BY Zenon, <2>1, <2>6, <2>7, SetThread DEF OnlyThread
  <2>9. PICK n \in Nat \ {0} : n = f + 1  OBVIOUS
  <2>10. PICK w : w = [o EXCEPT !.next = n]  BY Zenon
  <2>11. w \in PortRec(p) /\ w.next = n /\ w.narrowed = o.narrowed /\ w.again = o.again
         /\ w.alone = o.alone /\ w.filed = o.filed /\ w.strikes = o.strikes
    BY Zenon, <2>3, <2>10 DEF PortRec
  <2>12. port' = [port EXCEPT ![p] = w]  BY Zenon, <2>2, <2>4, <2>6, <2>9, <2>10
  <2>13. OnlyPort(p, w) /\ port'[p] = w  BY Zenon, <2>11, <2>12, SetPort DEF OnlyPort
  <2>14. Typed'  BY Zenon, <2>6, <2>8, <2>13 DEF Typed, OnlyThread, OnlyPort
  <2>15. OnlyThread(t, thread'[t]) /\ OnlyPort(p, port'[p])  BY Zenon, <2>8, <2>13
  <2> QED  BY Zenon, <2>1, <2>2, <2>4, <2>6, <2>7, <2>8, <2>9, <2>11, <2>13, <2>14, <2>15
<1>1. PICK p \in Ports : p = t[1]  BY Zenon, ThreadOf
<1>2. Shape(p) /\ \A f \in Flows(p) : Once(p, f)  BY Zenon DEF Settled
<1>3. /\ Typed' /\ thread[t].at = "take" /\ OnlyThread(t, thread'[t]) /\ OnlyPort(p, port'[p])
      /\ port'[p].next = port[p].next + 1
      /\ port'[p].alone = port[p].alone /\ port'[p].again = port[p].again
      /\ port'[p].filed = port[p].filed
      /\ \/ /\ port[p].next \in Flows(p)
            /\ thread'[t].at = "permit" /\ thread'[t].flow = port[p].next
         \/ port[p].next \notin Flows(p) /\ thread'[t].at = "off"
      /\ UNCHANGED <<counts, free, overlapped, ledger>>
  BY Zenon, <1>1, <1>0
<1>4. \A u \in Threads : u # t => thread'[u] = thread[u]  BY Zenon, <1>3 DEF OnlyThread
<1>5. t \in Workers(p) /\ t # Main(p) /\ Main(p) \in Threads
  <2>1. t # Main(p)  BY Zenon, <1>2, <1>3 DEF Shape, Running
  <2> QED  BY Zenon, <1>1, <2>1, ThreadsOf
<1>6. thread'[Main(p)] = thread[Main(p)]  BY Zenon, <1>4, <1>5
<1>7. Wide(p) /\ ~First(p)  BY Zenon, <1>2, <1>3, <1>5 DEF Shape, Wide, First, Running
<1>8. Wide(p)' /\ ~First(p)'  BY Zenon, <1>6, <1>7 DEF Wide, First
<1>9. PICK n \in Nat : n = port[p].next /\ n >= 1  BY DEF Typed, PortRec
<1>10. port[p].alone = {} /\ \A f \in port[p].again : f >= 1 /\ f < n
  BY Zenon, <1>2, <1>7, <1>9 DEF Shape
<1>11. \A w \in Workers(p) : w # t => thread'[w] = thread[w]  BY Zenon, <1>4, ThreadsOf
<1>12. ASSUME NEW w \in Workers(p), w # t
       PROVE  /\ thread'[w].at \in Running \cup Looking
              /\ thread'[w].at \in Running =>
                   /\ thread'[w].flow >= 1 /\ thread'[w].flow < n
                   /\ thread'[w].flow \notin port'[p].again
                   /\ \A v \in Workers(p) : v # t /\ v # w /\ thread'[v].at \in Running
                                            => thread'[v].flow # thread'[w].flow
  BY Zenon, <1>2, <1>3, <1>9, <1>11, <1>12 DEF Shape
<1>13. thread'[t].at \in Running => thread'[t].flow = n
  BY Zenon, <1>3, <1>9 DEF Running
<1>14. \A w \in Workers(p) :
         /\ thread'[w].at \in Running \cup Looking
         /\ thread'[w].at \in Running =>
              /\ thread'[w].flow >= 1 /\ thread'[w].flow < port'[p].next
              /\ thread'[w].flow \notin port'[p].again
              /\ \A v \in Workers(p) :
                   v # w /\ thread'[v].at \in Running => thread'[v].flow # thread'[w].flow
  <2> SUFFICES ASSUME NEW w \in Workers(p)
               PROVE  /\ thread'[w].at \in Running \cup Looking
                      /\ thread'[w].at \in Running =>
                           /\ thread'[w].flow >= 1 /\ thread'[w].flow < port'[p].next
                           /\ thread'[w].flow \notin port'[p].again
                           /\ \A v \in Workers(p) : v # w /\ thread'[v].at \in Running
                                                    => thread'[v].flow # thread'[w].flow
    OBVIOUS
  <2>1. port'[p].next = n + 1 /\ port'[p].again = port[p].again  BY Zenon, <1>3, <1>9
  <2>2. \A f \in Nat : f < n => f < n + 1 /\ f # n  OBVIOUS
  <2>3. \A v \in Threads : thread'[v].flow \in Nat  BY Zenon, <1>3 DEF Typed, ThreadRec
  <2>4. w \in Threads /\ \A v \in Workers(p) : v \in Threads  BY Zenon, ThreadsOf
  <2>5. CASE w = t
    <3>1. thread'[t].at \in Running \cup Looking  BY Zenon, <1>3 DEF Running, Looking
    <3>2. n < n + 1 /\ n \notin port[p].again  BY <1>9, <1>10
    <3>3. \A v \in Workers(p) : v # t /\ thread'[v].at \in Running => thread'[v].flow # n
      BY Zenon, <1>12, <2>2, <2>3, <2>4
    <3> QED  BY Zenon, <1>9, <1>13, <2>1, <2>5, <3>1, <3>2, <3>3
  <2>6. CASE w # t
    <3>1. thread'[w].at \in Running => thread'[w].flow < n + 1 /\ thread'[w].flow # n
      BY Zenon, <1>12, <2>2, <2>3, <2>4, <2>6
    <3> QED  BY Zenon, <1>12, <1>13, <2>1, <2>6, <3>1
  <2> QED  BY Zenon, <2>5, <2>6
<1>15. \A f \in port'[p].again : f >= 1 /\ f < port'[p].next
  <2>1. port[p].again \subseteq Nat  BY Zenon, FlowsOf DEF Typed, PortRec
  <2> QED  BY <1>3, <1>9, <1>10, <2>1
<1>16. Shape(p)'
  BY Zenon, <1>2, <1>3, <1>6, <1>8, <1>10, <1>14, <1>15 DEF Shape
<1>17. Pending(p) = port[p].again \cup {f \in Flows(p) : f >= n}
       /\ Pending(p)' = port[p].again \cup {f \in Flows(p) : f >= n + 1}
  BY Zenon, <1>3, <1>7, <1>8, <1>9 DEF Pending, LeftToRun, Rest
<1>18. \A f \in Flows(p) : f \in Nat /\ (f >= n /\ f # n => f >= n + 1) /\ (f >= n + 1 => f >= n /\ f # n)
  BY FlowsOf
<1>19. n >= n /\ n \notin port[p].again  BY <1>10
<1>20. \A f \in Flows(p) : Once(p, f)'
  <2>1. CASE n \in Flows(p)
    <3>1. thread'[t].at = "permit" /\ thread'[t].flow = n  BY Zenon, <1>3, <1>9, <2>1
    <3>2. n \in Pending(p) /\ Pending(p)' = Pending(p) \ {n}
      BY Zenon, <1>17, <1>18, <1>19, <2>1
    <3>3. thread[t].at \notin Running  BY Zenon, <1>3 DEF Running
    <3> QED  BY Zenon, <1>1, <1>2, <1>3, <1>4, <2>1, <3>1, <3>2, <3>3, TakesFlow
  <2>2. CASE n \notin Flows(p)
    <3>1. thread'[t].at \notin Running /\ thread[t].at \notin Running
      BY Zenon, <1>3, <1>9, <2>2 DEF Running
    <3>2. Pending(p)' = Pending(p)  BY Zenon, <1>17, <1>18, <2>2
    <3> QED  BY Zenon, <1>2, <1>3, <1>4, <3>1, <3>2, StillOnce
  <2> QED  BY Zenon, <2>1, <2>2
<1>21. Settled(p)'  BY Zenon, <1>16, <1>20 DEF Settled
<1>22. \A q \in Ports : q # p => Settled(q)'
  BY Zenon, <1>1, <1>3, <1>4, OtherPort DEF OnlyPort
<1>23. Counting'
  <2>1. /\ thread[t].at \notin Begun /\ thread'[t].at \notin Begun
        /\ thread[t].at \notin Talking /\ thread'[t].at \notin Talking
    BY Zenon, <1>3 DEF Begun, Talking
  <2> QED  BY Zenon, <1>3, <2>1, CountingKept
<1>24. \A q \in Ports : Waits(q)'
  <2>1. /\ thread'[t].stalled = FALSE /\ port'[p].narrowed = port[p].narrowed
        /\ port'[p].strikes = port[p].strikes
    BY Zenon, <1>0, <1>1
  <2>2. ~thread[t].stalled  BY Zenon, <1>3, <1>5, ThreadsOf, WorkerFits DEF Fit, Begun
  <2>3. Fit(thread'[t])  BY Zenon, <1>3, <2>1 DEF Fit
  <2>4. t \notin Spent(p)  BY Zenon, <1>3, <2>2 DEF Spent
  <2>5. thread'[t].at \notin Asking  BY Zenon, <1>3 DEF Asking
  <2>6. \A q \in Ports : q # p => port'[q] = port[q]  BY Zenon, <1>3 DEF OnlyPort
  <2> QED  BY Zenon, <1>1, <1>3, <2>1, <2>3, <2>4, <2>5, <2>6, QuietWaits
<1> QED  BY Zenon, <1>3, <1>21, <1>22, <1>23, <1>24 DEF Inv

(* No thread begins or ends anything.                                      *)
LEMMA StillCounted ==
  ASSUME Counting, free' = free, counts' = counts,
         \A u \in Threads : /\ thread'[u].at \in Begun <=> thread[u].at \in Begun
                            /\ thread'[u].at \in Talking <=> thread[u].at \in Talking
  PROVE  Counting'
<1>1. {u \in Threads : thread'[u].at \in Begun} = {u \in Threads : thread[u].at \in Begun}
  OBVIOUS
<1>2. {u \in Threads : thread'[u].at \in Talking} = {u \in Threads : thread[u].at \in Talking}
  OBVIOUS
<1> QED  BY Zenon, <1>1, <1>2 DEF Counting, Talking

LEMMA WidenKeeps ==
  ASSUME Inv, NEW p \in Ports, Widen(p)
  PROVE  Inv'
<1> Typed /\ Counting /\ \A q \in Ports : Settled(q)  BY Zenon DEF Inv
<1>0. /\ Typed' /\ thread[Main(p)].at = "widen"
      /\ \A u \in Threads : u[1] # p => thread'[u] = thread[u]
      /\ OnlyPort(p, port'[p])
      /\ port'[p].next = port[p].next /\ port'[p].again = port[p].again
      /\ port'[p].filed = port[p].filed /\ port'[p].narrowed = port[p].narrowed
      /\ port'[p].strikes = port[p].strikes
      /\ \/ /\ ~Slow(Main(p)) /\ thread'[Main(p)] = Idle("join") /\ port'[p] = port[p]
            /\ \A w \in Workers(p) : thread'[w] \in {Idle("check"), thread[w]}
         \/ /\ thread'[Main(p)] = Idle("serial") /\ port'[p].alone = Rest(p, 1)
            /\ \A w \in Workers(p) : thread'[w] = thread[w]
      /\ UNCHANGED <<counts, free, overlapped, ledger>>
  <2>1. PICK t \in Threads : t = Main(p) /\ t[1] = p  BY Zenon, ThreadsOf
  <2> DEFINE wide == ~Slow(t) /\ WidthOf(p) > 1
  <2>2. wide => ~Slow(t)  OBVIOUS
  <2>3. /\ thread[t].at = "widen"
        /\ thread' = [u \in Threads |->
                  CASE u = t -> Idle(IF wide THEN "join" ELSE "serial")
                    [] wide /\ u[1] = p /\ u[2] \in 1 .. WidthOf(p) -> Idle("check")
                    [] OTHER -> thread[u]]
        /\ port' = IF wide THEN port ELSE [port EXCEPT ![p].alone = Rest(p, 1)]
        /\ UNCHANGED <<counts, free, overlapped, ledger>>
    BY <2>1 DEF Widen
  <2> HIDE DEF wide
  <2>4. t[2] = 0 /\ t[2] \notin 1 .. WidthOf(p)  BY <2>1, ThreadsOf
  <2>5. thread'[t] = Idle(IF wide THEN "join" ELSE "serial")
    BY Zenon, <2>3, <2>4
  <2>6. ASSUME NEW u \in Threads, u # t
        PROVE  /\ thread'[u] \in {Idle("check"), thread[u]}
               /\ ~wide \/ u[1] # p => thread'[u] = thread[u]
    BY Zenon, <2>3, <2>6
  <2>7. ASSUME NEW u \in Threads
        PROVE  thread'[u] \in ThreadRec /\ thread'[u].flow \in Flows(u[1])
    <3>1. thread[u] \in ThreadRec /\ thread[u].flow \in Flows(u[1])  BY Zenon DEF Typed
    <3>2. PICK r \in {Idle("join"), Idle("serial"), Idle("check"), thread[u]} : thread'[u] = r
      BY Zenon, <2>5, <2>6
    <3>3. 0 \in Flows(u[1])  BY Zenon, ThreadOf, FlowsOf
    <3> QED  BY Zenon, <3>1, <3>2, <3>3, IdleTyped DEF Places
  <2>8. thread' \in [Threads -> ThreadRec]  BY Zenon, <2>3, <2>7
  <2>9. \A w \in Workers(p) : w \in Threads /\ w # t  BY Zenon, <2>1, ThreadsOf
  <2>10. \A u \in Threads : u[1] # p => thread'[u] = thread[u]  BY Zenon, <2>1, <2>6
  <2>11. PICK o : o = port[p]  OBVIOUS
  <2>12. o \in PortRec(p)  BY Zenon, <2>11 DEF Typed
  <2>13. CASE wide
    <3>1. port' = port  BY Zenon, <2>3, <2>13
    <3>2. OnlyPort(p, port'[p])  BY Zenon, <3>1 DEF Typed, OnlyPort
    <3>3. Typed'  BY Zenon, <2>3, <2>7, <2>8, <3>1 DEF Typed
    <3>4. ~Slow(t) /\ thread'[t] = Idle("join")  BY Zenon, <2>2, <2>5, <2>13
    <3> QED  BY Zenon, <2>1, <2>3, <2>6, <2>9, <2>10, <3>1, <3>2, <3>3, <3>4
  <2>14. CASE ~wide
    <3>1. port' = [port EXCEPT ![p].alone = Rest(p, 1)]  BY Zenon, <2>3, <2>14
    <3>2. PICK left \in SUBSET Flows(p) : left = Rest(p, 1)  BY Zenon DEF Rest
    <3>3. PICK w : w = [o EXCEPT !.alone = left]  BY Zenon
    <3>4. w \in PortRec(p) /\ w.next = o.next /\ w.narrowed = o.narrowed /\ w.again = o.again
          /\ w.alone = left /\ w.filed = o.filed /\ w.strikes = o.strikes
      BY Zenon, <2>12, <3>3 DEF PortRec
    <3>5. port' = [port EXCEPT ![p] = w]  BY Zenon, <2>11, <3>1, <3>2, <3>3
    <3>6. OnlyPort(p, w) /\ port'[p] = w  BY Zenon, <3>4, <3>5, SetPort DEF OnlyPort
    <3>7. Typed'  BY Zenon, <2>3, <2>7, <2>8, <3>6 DEF Typed, OnlyPort
    <3>8. thread'[t] = Idle("serial") /\ \A u \in Threads : u # t => thread'[u] = thread[u]
      BY Zenon, <2>5, <2>6, <2>14
    <3> QED  BY Zenon, <2>1, <2>3, <2>9, <2>10, <2>11, <3>2, <3>4, <3>6, <3>7, <3>8
  <2> QED  BY Zenon, <2>13, <2>14
<1> DEFINE m == Main(p)
<1>1. Shape(p) /\ \A f \in Flows(p) : Once(p, f)  BY Zenon DEF Settled
<1>2. m \in Threads /\ m[1] = p  BY Zenon, ThreadsOf
<1> HIDE DEF m
<1>3. /\ Typed' /\ thread[m].at = "widen"
      /\ \A u \in Threads : u[1] # p => thread'[u] = thread[u]
      /\ OnlyPort(p, port'[p])
      /\ port'[p].next = port[p].next /\ port'[p].again = port[p].again
      /\ port'[p].filed = port[p].filed
      /\ \/ /\ thread'[m] = Idle("join") /\ port'[p].alone = port[p].alone
            /\ \A w \in Workers(p) : thread'[w] \in {Idle("check"), thread[w]}
         \/ /\ thread'[m] = Idle("serial") /\ port'[p].alone = Rest(p, 1)
            /\ \A w \in Workers(p) : thread'[w] = thread[w]
      /\ UNCHANGED <<counts, free, overlapped, ledger>>
  BY Zenon, <1>0 DEF m
<1>4. First(p) /\ ~Wide(p)  BY Zenon, <1>3 DEF First, Wide, m
<1>5. /\ port[p].next = 1 /\ port[p].alone = {} /\ \A w \in Workers(p) : thread[w].at = "off"
      /\ \A f \in port[p].again : f >= 1 /\ f < port[p].next
  BY Zenon, <1>1, <1>4 DEF Shape
<1>6. port[p].again = {}
  <2>1. port[p].again \subseteq Nat  BY Zenon, FlowsOf DEF Typed, PortRec
  <2> QED  BY <1>5, <2>1
<1>7. Idle("join").at = "join" /\ Idle("serial").at = "serial" /\ Idle("check").at = "check"
  BY Zenon, IdleTyped DEF Places
<1>8. ~First(p)' /\ thread'[m].at \in {"join", "serial"}
      /\ (thread'[m].at = "serial" => ~Wide(p)') /\ (thread'[m].at = "join" => Wide(p)')
  BY Zenon, <1>3, <1>7 DEF First, Wide, Running, m
<1>9. \A w \in Workers(p) : /\ thread'[w].at \in {"check", "off"}
                            /\ ~Wide(p)' => thread'[w].at = "off"
  <2>1. CASE thread'[m] = Idle("join") /\ \A w \in Workers(p) : thread'[w] \in {Idle("check"), thread[w]}
    BY Zenon, <1>5, <1>7, <1>8, <2>1
  <2>2. CASE \A w \in Workers(p) : thread'[w] = thread[w]
    BY Zenon, <1>5, <2>2
  <2> QED  BY Zenon, <1>3, <2>1, <2>2
<1>10. Rest(p, 1) = Flows(p) \ {0} /\ 0 \notin Rest(p, 1)
  BY FlowsOf DEF Rest
<1>11. Shape(p)'
  <2>1. \A w \in Workers(p) : thread'[w].at \in Running \cup Looking /\ thread'[w].at \notin Running
    BY Zenon, <1>9 DEF Running, Looking
  <2>2. First(p)' \/ Wide(p)' \/ thread'[m].at = "done" => port'[p].alone = {}
    BY Zenon, <1>3, <1>5, <1>7, <1>8
  <2>3. 0 \notin port'[p].alone  BY Zenon, <1>3, <1>5, <1>10
  <2>4. thread'[m].at \in Running \cup {"widen", "join", "serial", "done"} /\ thread'[m].at # "widen"
    BY Zenon, <1>8
  <2> QED  BY Zenon, <1>3, <1>5, <1>6, <1>8, <1>9, <2>1, <2>2, <2>3, <2>4 DEF Shape, m
<1>12. Pending(p)' = Pending(p)
  <2>1. Pending(p) = Flows(p) \ {0}  BY Zenon, <1>4 DEF Pending
  <2>2. CASE Wide(p)'
    <3>1. LeftToRun(p)' = Rest(p, 1)
      <4>1. port'[p].again = {} /\ port'[p].next = 1  BY Zenon, <1>3, <1>5, <1>6
      <4> QED  BY Zenon, <4>1 DEF LeftToRun, Rest
    <3> QED  BY Zenon, <1>8, <1>10, <2>1, <2>2, <3>1 DEF Pending
  <2>3. CASE ~Wide(p)'
    <3>1. port'[p].alone = Rest(p, 1)  BY Zenon, <1>3, <1>7, <1>8, <2>3
    <3> QED  BY Zenon, <1>8, <1>10, <2>1, <2>3, <3>1 DEF Pending
  <2> QED  BY Zenon, <2>2, <2>3
<1>13. \A u \in Threads : u[1] = p => thread[u].at \notin Running /\ thread'[u].at \notin Running
  <2>1. \A w \in Workers(p) : thread[w].at \notin Running /\ thread'[w].at \notin Running
    BY Zenon, <1>5, <1>9 DEF Running
  <2>2. thread[m].at \notin Running /\ thread'[m].at \notin Running  BY Zenon, <1>3, <1>8
                                                                     DEF Running
  <2> QED  BY Zenon, <2>1, <2>2, ThreadsOf DEF m
<1>14. ASSUME NEW f \in Flows(p) PROVE Once(p, f)'
  BY Zenon, <1>1, <1>3, <1>12, <1>13, StillOnce
<1>15. Settled(p)'  BY Zenon, <1>11, <1>14 DEF Settled
<1>16. \A q \in Ports : q # p => Settled(q)'  BY Zenon, <1>3, OtherPort DEF OnlyPort
<1>17. \A u \in Threads : /\ thread'[u].at \in Begun <=> thread[u].at \in Begun
                          /\ thread'[u].at \in Talking <=> thread[u].at \in Talking
  <2>1. Begun \subseteq Running /\ Talking \subseteq Running  BY Zenon DEF Begun, Running, Talking
  <2> QED  BY Zenon, <1>3, <1>13, <2>1
<1>18. Counting'  BY Zenon, <1>3, <1>17, StillCounted
<1>19. Waits(p)'
  <2>1. Waits(p)  BY Zenon DEF Inv
  <2>2. port'[p].narrowed = port[p].narrowed /\ port'[p].strikes = port[p].strikes
    BY Zenon, <1>0
  <2>3. ~port[p].narrowed  BY <1>5, <2>1 DEF Waits, Narrowing
  <2>4. \A w \in Workers(p) : Fit(thread[w]) /\ ~thread[w].stalled
    BY Zenon, <1>5, <2>1 DEF Waits, Fit, Begun
  <2>5. Spent(p) \subseteq Spent(p)'  BY Zenon, <2>3, <2>4 DEF Spent
  <2>6. \A w \in Workers(p) : Fit(thread'[w])
    <3>1. Fit(Idle("check"))  BY DEF Fit, Idle
    <3> QED  BY Zenon, <1>3, <2>4, <3>1
  <2>7. Striking(p)' /\ ByItself(p)'  BY Zenon, <1>8 DEF Striking, ByItself, Asking, m
  <2>8. Bounded(p)'  BY Zenon, <1>3, <2>1, <2>2, <2>5, BoundedKept DEF Waits
  <2> QED  BY Zenon, <2>2, <2>3, <2>6, <2>7, <2>8 DEF Waits, Narrowing
<1>20. \A q \in Ports : q # p => Waits(q)'
  BY Zenon, <1>3, WaitsElsewhere DEF OnlyPort, Inv
<1> QED  BY Zenon, <1>3, <1>15, <1>16, <1>18, <1>19, <1>20 DEF Inv

LEMMA JoinKeeps ==
  ASSUME Inv, NEW p \in Ports, Join(p)
  PROVE  Inv'
<1> Typed /\ Counting /\ \A q \in Ports : Settled(q)  BY Zenon DEF Inv
<1>0. /\ Typed' /\ thread[Main(p)].at = "join" /\ thread'[Main(p)].at = "serial"
      /\ \A w \in Workers(p) : thread[w].at = "off"
      /\ OnlyThread(Main(p), thread'[Main(p)])
      /\ SameButPlace(thread'[Main(p)], thread[Main(p)])
      /\ OnlyPort(p, port'[p]) /\ port'[p].alone = LeftToRun(p)
      /\ port'[p].next = port[p].next /\ port'[p].again = port[p].again
      /\ port'[p].filed = port[p].filed /\ port'[p].narrowed = port[p].narrowed
      /\ port'[p].strikes = port[p].strikes
      /\ UNCHANGED <<counts, free, overlapped, ledger>>
  <2>1. PICK t \in Threads : t = Main(p) /\ t[1] = p  BY Zenon, ThreadsOf
  <2>2. /\ thread[t].at = "join" /\ \A w \in Workers(p) : thread[w].at = "off"
        /\ port' = [port EXCEPT ![p].alone = LeftToRun(p)] /\ Goes(t, "serial")
        /\ UNCHANGED <<counts, free, overlapped, ledger>>
    BY Zenon, <2>1 DEF Join
  <2>3. OnlyThread(t, [thread[t] EXCEPT !.at = "serial"]) /\ thread'[t].at = "serial"
    BY Zenon, <2>2, GoesTo DEF Places
  <2>4. thread'[t] = [thread[t] EXCEPT !.at = "serial"] /\ OnlyThread(t, thread'[t])
    BY Zenon, <2>3 DEF OnlyThread
  <2>5. thread[t] \in ThreadRec  BY Zenon DEF Typed
  <2>6. SameButPlace(thread'[t], thread[t])  BY Zenon, <2>4, <2>5 DEF SameButPlace, ThreadRec
  <2>7. PICK o : o = port[p]  OBVIOUS
  <2>8. o \in PortRec(p)  BY Zenon, <2>7 DEF Typed
  <2>9. PICK left \in SUBSET Flows(p) : left = LeftToRun(p)
    BY Zenon, <2>7, <2>8 DEF LeftToRun, Rest, PortRec
  <2>10. PICK w : w = [o EXCEPT !.alone = left]  BY Zenon
  <2>11. w \in PortRec(p) /\ w.next = o.next /\ w.narrowed = o.narrowed /\ w.again = o.again
         /\ w.alone = left /\ w.filed = o.filed /\ w.strikes = o.strikes
    BY Zenon, <2>8, <2>10 DEF PortRec
  <2>12. port' = [port EXCEPT ![p] = w]  BY Zenon, <2>2, <2>7, <2>9, <2>10
  <2>13. OnlyPort(p, w) /\ port'[p] = w  BY Zenon, <2>11, <2>12, SetPort DEF OnlyPort
  <2>14. Typed'  BY Zenon, <2>2, <2>4, <2>13 DEF Typed, OnlyThread, OnlyPort
  <2> QED  BY Zenon, <2>1, <2>2, <2>3, <2>4, <2>6, <2>7, <2>9, <2>11, <2>13, <2>14
<1> DEFINE m == Main(p)
<1>1. Shape(p) /\ \A f \in Flows(p) : Once(p, f)  BY Zenon DEF Settled
<1>2. m \in Threads /\ m[1] = p  BY Zenon, ThreadsOf
<1>3. /\ Typed' /\ thread[m].at = "join" /\ thread'[m].at = "serial"
      /\ \A w \in Workers(p) : thread[w].at = "off"
      /\ OnlyThread(m, thread'[m]) /\ OnlyPort(p, port'[p])
      /\ port'[p].alone = LeftToRun(p)
      /\ port'[p].next = port[p].next /\ port'[p].again = port[p].again
      /\ port'[p].filed = port[p].filed
      /\ UNCHANGED <<counts, free, overlapped, ledger>>
  BY Zenon, <1>0
<1> HIDE DEF m
<1>4. \A u \in Threads : u # m => thread'[u] = thread[u]  BY Zenon, <1>3 DEF OnlyThread
<1>5. \A w \in Workers(p) : w \in Threads /\ w # m  BY Zenon, ThreadsOf DEF m
<1>6. Wide(p) /\ ~First(p) /\ ~Wide(p)' /\ ~First(p)'
  BY Zenon, <1>3 DEF Wide, First, Running, m
<1>7. \A w \in Workers(p) : thread'[w].at = "off"  BY Zenon, <1>3, <1>4, <1>5
<1>8. \A f \in port[p].again : f >= 1 /\ f < port[p].next  BY Zenon, <1>1 DEF Shape
<1>9. 0 \notin LeftToRun(p)
  <2>1. port[p].next \in Nat \ {0}  BY Zenon DEF Typed, PortRec
  <2>2. 0 \notin port[p].again  BY <1>8
  <2> QED  BY <2>1, <2>2 DEF LeftToRun, Rest
<1>10. Shape(p)'
  <2>1. \A w \in Workers(p) : thread'[w].at \in Running \cup Looking /\ thread'[w].at \notin Running
    BY Zenon, <1>7 DEF Running, Looking
  <2>2. /\ thread'[m].at \in Running \cup {"widen", "join", "serial", "done"}
        /\ thread'[m].at # "widen" /\ thread'[m].at # "done"
    BY Zenon, <1>3
  <2> QED  BY Zenon, <1>3, <1>6, <1>7, <1>8, <1>9, <2>1, <2>2 DEF Shape, m
<1>11. Pending(p)' = Pending(p)  BY Zenon, <1>3, <1>6 DEF Pending
<1>12. thread[m].at \notin Running /\ thread'[m].at \notin Running  BY Zenon, <1>3 DEF Running
<1>13. ASSUME NEW f \in Flows(p) PROVE Once(p, f)'
  BY Zenon, <1>1, <1>3, <1>4, <1>11, <1>12, StillOnce
<1>14. Settled(p)'  BY Zenon, <1>10, <1>13 DEF Settled
<1>15. \A q \in Ports : q # p => Settled(q)'  BY Zenon, <1>2, <1>3, <1>4, OtherPort DEF OnlyPort
<1>16. \A u \in Threads : /\ thread'[u].at \in Begun <=> thread[u].at \in Begun
                          /\ thread'[u].at \in Talking <=> thread[u].at \in Talking
  <2>1. Begun \subseteq Running /\ Talking \subseteq Running  BY Zenon DEF Begun, Running, Talking
  <2> QED  BY Zenon, <1>4, <1>12, <2>1
<1>17. Counting'  BY Zenon, <1>3, <1>16, StillCounted
<1>18. \A q \in Ports : Waits(q)'
  <2>1. port'[p].narrowed = port[p].narrowed /\ port'[p].strikes = port[p].strikes
    BY Zenon, <1>0
  <2>2. m[2] = 0 /\ m \notin Spent(p)  BY Zenon, ThreadsOf DEF Spent, m
  <2>3. thread'[m].at \notin Asking /\ thread[m].at # "off"  BY Zenon, <1>3 DEF Asking
  <2>4. \A q \in Ports : q # p => port'[q] = port[q]  BY Zenon, <1>3 DEF OnlyPort
  <2> QED  BY Zenon, <1>2, <1>3, <2>1, <2>2, <2>3, <2>4, QuietWaits
<1> QED  BY Zenon, <1>3, <1>14, <1>15, <1>17, <1>18 DEF Inv

LEMMA SerialKeeps ==
  ASSUME Inv, NEW p \in Ports, Serial(p)
  PROVE  Inv'
<1> Typed /\ Counting /\ \A q \in Ports : Settled(q)  BY Zenon DEF Inv
<1>0. /\ Typed' /\ thread[Main(p)].at = "serial"
      /\ OnlyThread(Main(p), thread'[Main(p)])
      /\ thread'[Main(p)].step = 1 /\ thread'[Main(p)].stalled = FALSE
      /\ thread'[Main(p)].alone = FALSE /\ thread'[Main(p)].result = NoResult
      /\ OnlyPort(p, port'[p])
      /\ port'[p].next = port[p].next /\ port'[p].again = port[p].again
      /\ port'[p].filed = port[p].filed /\ port'[p].narrowed = port[p].narrowed
      /\ port'[p].strikes = port[p].strikes
      /\ \/ /\ port[p].alone = {} /\ port'[p].alone = {}
            /\ thread'[Main(p)].at = "done" /\ thread'[Main(p)].flow = 0
         \/ /\ thread'[Main(p)].at = "permit" /\ thread'[Main(p)].flow \in port[p].alone
            /\ port'[p].alone = port[p].alone \ {thread'[Main(p)].flow}
      /\ UNCHANGED <<counts, free, overlapped, ledger>>
  <2>1. PICK t \in Threads : t = Main(p) /\ t[1] = p  BY Zenon, ThreadsOf
  <2>2. thread[t].at = "serial" /\ UNCHANGED <<counts, free, overlapped, ledger>>
    BY Zenon, <2>1 DEF Serial
  <2>3. PICK o : o = port[p]  OBVIOUS
  <2>4. o \in PortRec(p)  BY Zenon, <2>3 DEF Typed
  <2>5. o.alone \subseteq Flows(p) /\ o.alone \subseteq Nat
    BY Zenon, <2>4, FlowsOf DEF PortRec
  <2>6. CASE o.alone = {}
    <3>1. thread' = [thread EXCEPT ![t] = Idle("done")] /\ port' = port
      BY Zenon, <2>1, <2>3, <2>6 DEF Serial
    <3>2. OnlyThread(t, Idle("done")) /\ thread'[t] = Idle("done")
      BY Zenon, <2>1, <3>1, IdleTyped, FlowsOf, SetThread DEF Places, OnlyThread
    <3>3. OnlyPort(p, port'[p])  BY Zenon, <3>1 DEF Typed, OnlyPort
    <3>4. Typed'  BY Zenon, <2>2, <3>1, <3>2 DEF Typed, OnlyThread
    <3>5. /\ thread'[t].at = "done" /\ thread'[t].flow = 0 /\ thread'[t].step = 1
          /\ thread'[t].stalled = FALSE /\ thread'[t].alone = FALSE /\ thread'[t].result = NoResult
      BY <3>2 DEF Idle
    <3> QED  BY Zenon, <2>1, <2>2, <2>3, <2>6, <3>1, <3>2, <3>3, <3>4, <3>5
  <2>7. CASE o.alone # {}
    <3>1. PICK f : f = CHOOSE g \in o.alone : \A h \in o.alone : g <= h  OBVIOUS
    <3>2. f \in o.alone  BY Zenon, <2>5, <2>7, <3>1, LeastOne
    <3>3. f \in Flows(p) /\ f \in Nat  BY Zenon, <2>5, <3>2
    <3>4. /\ port' = [port EXCEPT ![p].alone = @ \ {f}]
          /\ thread' = [thread EXCEPT ![t] = [Idle("permit") EXCEPT !.flow = f]]
      BY Zenon, <2>1, <2>3, <2>7, <3>1 DEF Serial
    <3>5. PICK r : r = [Idle("permit") EXCEPT !.flow = f]  BY Zenon
    <3>6. /\ r \in ThreadRec /\ r.at = "permit" /\ r.flow = f /\ r.step = 1
          /\ r.stalled = FALSE /\ r.alone = FALSE /\ r.result = NoResult
      BY Zenon, <3>3, <3>5, FlowInHand
    <3>7. OnlyThread(t, r) /\ thread'[t] = r
      BY Zenon, <2>1, <3>3, <3>4, <3>5, <3>6, SetThread DEF OnlyThread
    <3>8. PICK left \in SUBSET Flows(p) : left = o.alone \ {f}  BY Zenon, <2>5
    <3>9. PICK w : w = [o EXCEPT !.alone = left]  BY Zenon
    <3>10. w \in PortRec(p) /\ w.next = o.next /\ w.narrowed = o.narrowed /\ w.again = o.again
           /\ w.alone = left /\ w.filed = o.filed /\ w.strikes = o.strikes
      BY Zenon, <2>4, <3>9 DEF PortRec
    <3>11. port' = [port EXCEPT ![p] = w]  BY Zenon, <2>3, <3>4, <3>8, <3>9
    <3>12. OnlyPort(p, w) /\ port'[p] = w  BY Zenon, <3>10, <3>11, SetPort DEF OnlyPort
    <3>13. Typed'  BY Zenon, <2>2, <3>7, <3>12 DEF Typed, OnlyThread, OnlyPort
    <3> QED  BY Zenon, <2>1, <2>2, <2>3, <3>2, <3>6, <3>7, <3>8, <3>10, <3>12, <3>13
  <2> QED  BY Zenon, <2>6, <2>7
<1> DEFINE m == Main(p)
<1>1. Shape(p) /\ \A f \in Flows(p) : Once(p, f)  BY Zenon DEF Settled
<1>2. m \in Threads /\ m[1] = p  BY Zenon, ThreadsOf
<1>3. /\ Typed' /\ thread[m].at = "serial"
      /\ OnlyThread(m, thread'[m]) /\ OnlyPort(p, port'[p])
      /\ port'[p].next = port[p].next /\ port'[p].again = port[p].again
      /\ port'[p].filed = port[p].filed
      /\ \/ /\ port[p].alone = {} /\ port'[p].alone = {} /\ thread'[m].at = "done"
         \/ /\ thread'[m].at = "permit" /\ thread'[m].flow \in port[p].alone
            /\ port'[p].alone = port[p].alone \ {thread'[m].flow}
      /\ UNCHANGED <<counts, free, overlapped, ledger>>
  BY Zenon, <1>0
<1> HIDE DEF m
<1>4. \A u \in Threads : u # m => thread'[u] = thread[u]  BY Zenon, <1>3 DEF OnlyThread
<1>5. \A w \in Workers(p) : w \in Threads /\ w # m  BY Zenon, ThreadsOf DEF m
<1>6. ~Wide(p) /\ ~First(p) /\ ~Wide(p)'  BY Zenon, <1>3 DEF Wide, First, Running, m
<1>7. 0 \notin port[p].alone /\ \A f \in port[p].again : f >= 1 /\ f < port[p].next
  BY Zenon, <1>1 DEF Shape
<1>8. ~First(p)'  BY Zenon, <1>3, <1>7 DEF First, Running, m
<1>9. \A w \in Workers(p) : thread'[w].at = "off"
  BY Zenon, <1>1, <1>4, <1>5, <1>6 DEF Shape
<1>10. Shape(p)'
  <2>1. \A w \in Workers(p) : thread'[w].at \in Running \cup Looking /\ thread'[w].at \notin Running
    BY Zenon, <1>9 DEF Running, Looking
  <2>2. /\ thread'[m].at \in Running \cup {"widen", "join", "serial", "done"}
        /\ thread'[m].at # "widen" /\ (thread'[m].at = "done" => port'[p].alone = {})
    BY Zenon, <1>3 DEF Running
  <2>3. 0 \notin port'[p].alone  BY Zenon, <1>3, <1>7
  <2> QED  BY Zenon, <1>3, <1>6, <1>7, <1>8, <1>9, <2>1, <2>2, <2>3 DEF Shape, m
<1>11. Pending(p) = port[p].alone /\ Pending(p)' = port'[p].alone  BY Zenon, <1>6, <1>8 DEF Pending
<1>12. thread[m].at \notin Running  BY Zenon, <1>3 DEF Running
<1>13. \A f \in Flows(p) : Once(p, f)'
  <2>1. CASE port[p].alone = {} /\ port'[p].alone = {} /\ thread'[m].at = "done"
    <3>1. thread'[m].at \notin Running  BY Zenon, <2>1 DEF Running
    <3> QED  BY Zenon, <1>1, <1>3, <1>4, <1>11, <1>12, <2>1, <3>1, StillOnce
  <2>2. CASE /\ thread'[m].at = "permit" /\ thread'[m].flow \in port[p].alone
             /\ port'[p].alone = port[p].alone \ {thread'[m].flow}
    <3>1. PICK g \in Flows(p) : g = thread'[m].flow  BY Zenon, <2>2 DEF Typed, PortRec
    <3>2. /\ thread'[m].flow = g /\ g \in Pending(p) /\ Pending(p)' = Pending(p) \ {g}
          /\ ledger'[p].runs = ledger[p].runs
      BY Zenon, <1>3, <1>11, <2>2, <3>1
    <3> QED  BY Zenon, <1>1, <1>2, <1>3, <1>4, <1>12, <2>2, <3>2, TakesFlow
  <2> QED  BY Zenon, <1>3, <2>1, <2>2
<1>14. Settled(p)'  BY Zenon, <1>10, <1>13 DEF Settled
<1>15. \A q \in Ports : q # p => Settled(q)'  BY Zenon, <1>2, <1>3, <1>4, OtherPort DEF OnlyPort
<1>16. \A u \in Threads : /\ thread'[u].at \in Begun <=> thread[u].at \in Begun
                          /\ thread'[u].at \in Talking <=> thread[u].at \in Talking
  <2>1. /\ thread[m].at \notin Begun /\ thread[m].at \notin Talking
        /\ thread'[m].at \notin Begun /\ thread'[m].at \notin Talking
    BY Zenon, <1>3 DEF Begun, Talking
  <2> QED  BY Zenon, <1>4, <2>1
<1>17. Counting'  BY Zenon, <1>3, <1>16, StillCounted
<1>18. \A q \in Ports : Waits(q)'
  <2>1. port'[p].narrowed = port[p].narrowed /\ port'[p].strikes = port[p].strikes
    BY Zenon, <1>0
  <2>2. m[2] = 0 /\ m \notin Spent(p)  BY Zenon, ThreadsOf DEF Spent, m
  <2>3. thread'[m].at \notin Asking /\ thread[m].at # "off"  BY Zenon, <1>3 DEF Asking
  <2>4. \A q \in Ports : q # p => port'[q] = port[q]  BY Zenon, <1>3 DEF OnlyPort
  <2> QED  BY Zenon, <1>2, <1>3, <2>1, <2>2, <2>3, <2>4, QuietWaits
<1> QED  BY Zenon, <1>3, <1>14, <1>15, <1>17, <1>18 DEF Inv

----------------------------------------------------------------------------
(* The invariant holds                                                     *)

LEMMA InitInv == Init => Inv
<1> SUFFICES ASSUME Init PROVE Inv  OBVIOUS
<1>1. Typed  BY Zenon, InitTyped
<1>2. \A t \in Threads : thread[t] = Idle(IF t[2] = 0 THEN "permit" ELSE "off")
  BY Zenon DEF Init
<1>3. Idle("permit").at = "permit" /\ Idle("permit").flow = 0 /\ Idle("off").at = "off"
  BY Zenon, IdleTyped DEF Places
<1>4. \A t \in Threads : /\ t[2] = 0 => thread[t].at = "permit" /\ thread[t].flow = 0
                         /\ t[2] # 0 => thread[t].at = "off"
  BY Zenon, <1>2, <1>3
<1>5. Counting
  <2>1. \A t \in Threads : thread[t].at \in {"permit", "off"}  BY Zenon, <1>4, ThreadOf
  <2>2. /\ {t \in Threads : thread[t].at \in Begun} = {}
        /\ {t \in Threads : thread[t].at \in {"talk", "drop"}} = {}
    BY Zenon, <2>1 DEF Begun
  <2>3. free = Permits /\ counts.inFlight = 0  BY Zenon DEF Init
  <2>4. Cardinality({}) = 0  BY Zenon, FS_EmptySet
  <2>5. Permits >= 0 /\ Permits = Permits - 0  BY StageAssumption
  <2> QED  BY Zenon, <2>2, <2>3, <2>4, <2>5 DEF Counting
<1>6. ASSUME NEW p \in Ports PROVE Settled(p)
  <2> DEFINE m == Main(p)
  <2>1. m \in Threads /\ m[1] = p /\ m[2] = 0  BY Zenon, ThreadsOf
  <2>2. thread[m].at = "permit" /\ thread[m].flow = 0  BY Zenon, <1>4, <2>1
  <2>3. \A w \in Workers(p) : w \in Threads /\ thread[w].at = "off"  BY Zenon, <1>4, ThreadsOf
  <2>4. /\ port[p].next = 1 /\ port[p].again = {} /\ port[p].alone = {}
        /\ \A f \in Flows(p) : port[p].filed[f] = 0 /\ ledger[p].runs[f] = 0
    BY Zenon DEF Init
  <2> HIDE DEF m
  <2>5. First(p) /\ ~Wide(p)  BY Zenon, <2>2 DEF First, Wide, Running, m
  <2>6. Shape(p)
    <3>1. \A w \in Workers(p) : thread[w].at \in Running \cup Looking /\ thread[w].at \notin Running
      BY Zenon, <2>3 DEF Running, Looking
    <3>2. thread[m].at \in Running \cup {"widen", "join", "serial", "done"} /\ thread[m].at # "widen"
      BY Zenon, <2>2 DEF Running
    <3> QED  BY Zenon, <2>2, <2>3, <2>4, <2>5, <3>1, <3>2 DEF Shape, m
  <2>7. Pending(p) = Flows(p) \ {0}  BY Zenon, <2>5 DEF Pending
  <2>8. \A u \in Threads : u[1] = p /\ thread[u].at \in Running => u = m
    <3>1. \A w \in Workers(p) : thread[w].at \notin Running  BY Zenon, <2>3 DEF Running
    <3> QED  BY Zenon, <3>1, ThreadsOf DEF m
  <2>9. "permit" \in Running /\ "permit" \notin Begun /\ Begun \subseteq Running
    BY Zenon DEF Running, Begun
  <2>10. ASSUME NEW f \in Flows(p) PROVE Once(p, f)
    <3>1. Before(p, f) = 0  BY Zenon, <2>4 DEF Before
    <3>2. ~Held(p, f, Begun)  BY Zenon, <2>2, <2>8, <2>9 DEF Held, Holds
    <3>3. f = 0 => Held(p, f, Running)  BY Zenon, <2>1, <2>2, <2>9 DEF Held, Holds
    <3>4. f # 0 => ~Held(p, f, Running)  BY Zenon, <2>2, <2>8 DEF Held, Holds
    <3> QED  BY Zenon, <2>4, <2>7, <3>1, <3>2, <3>3, <3>4 DEF Once
  <2> QED  BY Zenon, <2>6, <2>10 DEF Settled
<1>7. ASSUME NEW p \in Ports PROVE Waits(p)
  <2>1. /\ ~port[p].narrowed /\ port[p].strikes = 0 /\ ledger[p].dead = 0
    BY Zenon DEF Init
  <2>2. thread[Main(p)].at = "permit"  BY Zenon, <1>4, ThreadsOf
  <2>3. \A w \in Workers(p) : Fit(thread[w])
    <3>1. \A w \in Workers(p) : w \in Threads /\ w[2] # 0  BY Zenon, ThreadsOf
    <3>2. Fit(Idle("off"))  BY DEF Fit, Idle
    <3> QED  BY Zenon, <1>2, <3>1, <3>2
  <2>4. Narrowing(p) /\ Striking(p) /\ ByItself(p)
    BY Zenon, <2>1, <2>2 DEF Narrowing, Striking, ByItself, Asking
  <2>5. Cardinality(Spent(p)) \in Nat  BY Zenon, SpentSize
  <2>6. 0 \in 0 .. MaxStrikes /\ 0 <= 0 /\ 0 <= 0 + Cardinality(Spent(p))
    BY <2>5, StageAssumption
  <2>7. Bounded(p)  BY Zenon, <2>1, <2>6 DEF Bounded
  <2> QED  BY Zenon, <2>3, <2>4, <2>7 DEF Waits
<1> QED  BY Zenon, <1>1, <1>5, <1>6, <1>7 DEF Inv

LEMMA NextKeeps == Inv /\ [Next]_vars => Inv'
<1> SUFFICES ASSUME Inv, [Next]_vars PROVE Inv'  OBVIOUS
<1>1. ASSUME NEW t \in Threads, ThreadStep(t) PROVE Inv'
  BY Zenon, <1>1, SkipFlowKeeps, AcquireKeeps, SpeakKeeps, EnterKeeps, LeaveKeeps, JudgeKeeps,
     EndFlowKeeps, CheckNarrowedKeeps, TakeFlowKeeps DEF ThreadStep
<1>2. ASSUME NEW p \in Ports, Widen(p) \/ Join(p) \/ Serial(p) PROVE Inv'
  BY Zenon, <1>2, WidenKeeps, JoinKeeps, SerialKeeps
<1>3. CASE UNCHANGED vars
  <2>1. /\ counts' = counts /\ free' = free /\ port' = port /\ thread' = thread
        /\ overlapped' = overlapped /\ ledger' = ledger
    BY Zenon, <1>3 DEF vars
  <2>2. Typed' /\ Counting'  BY Zenon, <2>1 DEF Inv, Typed, Counting
  <2>3. \A q \in Ports : Settled(q)'  BY Zenon, <2>1, OtherPort DEF Inv
  <2>4. \A q \in Ports : Waits(q)'  BY Zenon, <2>1, <2>2, WaitsElsewhere DEF Inv
  <2> QED  BY Zenon, <2>2, <2>3, <2>4 DEF Inv
<1> QED  BY Zenon, <1>1, <1>2, <1>3 DEF Next, Done

(* What the threads of a port hold between them accounts, at any moment,   *)
(* for every flow of the port, every permit of the Gate and every visit of *)
(* the HostContention.                                                     *)
THEOREM FlowsAccountedFor == Spec => []Inv
<1>1. Init => Inv  BY Zenon, InitInv
<1>2. Inv /\ [Next]_vars => Inv'  BY Zenon, NextKeeps
<1> QED  BY <1>1, <1>2, PTL DEF Spec

(* The counts fit their half of HostContention's word, the permits free    *)
(* are never negative nor more than the Gate was made with, and what the   *)
(* threads of a port share speaks only of its own flows.                   *)
THEOREM StageTypeCorrect == Spec => []TypeOK
<1>1. ASSUME Inv PROVE TypeOK
  <2> DEFINE B == {t \in Threads : thread[t].at \in Begun}
             D == {t \in Threads : thread[t].at \in {"talk", "drop"}}
  <2>1. IsFiniteSet(B) /\ Cardinality(B) \in Nat /\ Cardinality(D) \in Nat  BY Zenon, CountIn
  <2>2. D \subseteq B  BY Zenon DEF Begun
  <2>3. free >= 0 /\ free = Permits - Cardinality(B) /\ counts.inFlight = Cardinality(D)
    BY Zenon, <1>1 DEF Inv, Counting
  <2> HIDE DEF B, D
  <2>4. Cardinality(D) <= Cardinality(B)  BY Zenon, <2>1, <2>2, FS_Subset
  <2>5. Permits \in Nat /\ HalfWord \in Nat /\ Permits < HalfWord  BY Zenon, StageAssumption
  <2>6. free \in 0 .. Permits /\ counts.inFlight \in 0 .. HalfWord - 1
    BY <2>1, <2>3, <2>4, <2>5
  <2>7. counts \in [begun : 0 .. HalfWord - 1, inFlight : Int]  BY Zenon, <1>1 DEF Inv, Typed
  <2>8. counts \in [begun : 0 .. HalfWord - 1, inFlight : 0 .. HalfWord - 1]  BY Zenon, <2>6, <2>7
  <2>9. \A p \in Ports : port[p].strikes \in Nat /\ port[p].again \subseteq Flows(p)
                        /\ port[p].alone \subseteq Flows(p)
    BY Zenon, <1>1 DEF Inv, Typed, PortRec
  <2>10. \A t \in Threads : thread[t].at \in Places /\ thread[t].flow \in Flows(t[1])
    BY Zenon, <1>1 DEF Inv, Typed, ThreadRec
  <2>11. overlapped \subseteq Threads  BY Zenon, <1>1 DEF Inv, Typed
  <2> QED  BY Zenon, <2>6, <2>8, <2>9, <2>10, <2>11 DEF TypeOK
<1> QED  BY <1>1, FlowsAccountedFor, PTL

(* detect_port's accounting: when a port is done each flow it has a probe  *)
(* for has left exactly one run, whatever its workers did between taking a *)
(* flow from `next`, narrowing the port and leaving a flow to be repeated. *)
THEOREM EveryFlowFiledOnce == Spec => []FiledOnce
<1>1. ASSUME Inv PROVE FiledOnce
  <2> SUFFICES ASSUME NEW p \in Ports, thread[Main(p)].at = "done", NEW f \in Flows(p)
               PROVE  port[p].filed[f] = IF f \in Wanted(p) THEN 1 ELSE 0
    BY Zenon DEF FiledOnce
  <2>1. Shape(p) /\ Once(p, f)  BY Zenon, <1>1 DEF Inv, Settled
  <2>2. ~First(p) /\ ~Wide(p)  BY Zenon DEF First, Wide, Running
  <2>3. f \notin Pending(p)
    <3>1. port[p].alone = {}  BY Zenon, <2>1 DEF Shape
    <3> QED  BY Zenon, <2>2, <3>1 DEF Pending
  <2>4. ~Held(p, f, Running)
    <3>1. \A w \in Workers(p) : thread[w].at \notin Running
      <4>1. \A w \in Workers(p) : thread[w].at = "off"  BY Zenon, <2>1, <2>2 DEF Shape
      <4> QED  BY Zenon, <4>1 DEF Running
    <3>2. thread[Main(p)].at \notin Running  BY Zenon DEF Running
    <3> QED  BY Zenon, <3>1, <3>2, ThreadsOf DEF Held, Holds
  <2> QED  BY Zenon, <2>1, <2>3, <2>4 DEF Once
<1> QED  BY <1>1, FlowsAccountedFor, PTL

(* repeatable's promise: no flow is run twice against a target unless it   *)
(* leaves the target as it found it, and none is ever run a third time.    *)
THEOREM FlowsRepeatedSafely == Spec => []AskedAgainSafely
<1>1. ASSUME Inv PROVE AskedAgainSafely
  <2> SUFFICES ASSUME NEW p \in Ports, NEW f \in Flows(p)
               PROVE  ledger[p].runs[f] <= IF <<p, f>> \in Repeatable THEN 2 ELSE 1
    BY Zenon DEF AskedAgainSafely
  <2>1. Once(p, f)  BY Zenon, <1>1 DEF Inv, Settled
  <2>2. ledger[p].runs[f] \in Nat  BY Zenon, <1>1 DEF Inv, Typed, LedgerRec
  <2>3. Before(p, f) \in {0, 1} /\ (Before(p, f) = 1 => <<p, f>> \in Repeatable)
    BY <2>1 DEF Once, Before
  <2>4. Held(p, f, Running) => Held(p, f, {"permit"}) \/ Held(p, f, Begun)
    BY Zenon DEF Held, Holds, Running, Begun
  <2>5. \/ ledger[p].runs[f] = Before(p, f)
        \/ ledger[p].runs[f] = Before(p, f) + 1
        \/ ledger[p].runs[f] <= Before(p, f) + 1
    BY Zenon, <2>1, <2>4 DEF Once
  <2> QED  BY <2>2, <2>3, <2>5
<1> QED  BY <1>1, FlowsAccountedFor, PTL

(* DEAD_PORT_STRIKES and DETECTION_FLOW_CONCURRENCY: what a silent port    *)
(* whose exchanges no other port's meets can cost.  Every dead wait is a   *)
(* strike of an exchange that had the host to itself, or the last a worker *)
(* could have before the port was narrowed.                                *)
THEOREM DeadWaitsAreBounded == Spec => []DeadWaitsBounded
<1>1. ASSUME Inv PROVE DeadWaitsBounded
  <2> SUFFICES ASSUME NEW p \in Ports, ~ledger[p].foreign
               PROVE  ledger[p].dead <= MaxStrikes + (IF port[p].next > 1 THEN Width ELSE 0)
    BY Zenon DEF DeadWaitsBounded
  <2>1. Waits(p) /\ Shape(p) /\ Typed  BY Zenon, <1>1 DEF Inv, Settled
  <2>2. PICK k \in 0 .. MaxStrikes : ledger[p].dead <= k + Cardinality(Spent(p))
    BY Zenon, <2>1 DEF Waits, Bounded
  <2>3. Cardinality(Spent(p)) \in Nat /\ Cardinality(Spent(p)) <= Width  BY Zenon, SpentSize
  <2>4. port[p].next \in Nat \ {0} /\ ledger[p].dead \in Nat
    BY Zenon, <2>1 DEF Typed, PortRec, LedgerRec
  <2>5. Width \in Nat /\ MaxStrikes \in Nat  BY StageAssumption
  <2>6. CASE port[p].next > 1  BY <2>2, <2>3, <2>4, <2>5, <2>6
  <2>7. CASE ~(port[p].next > 1)
    <3>1. port[p].next = 1  BY <2>4, <2>7
    <3>2. ~port[p].narrowed  BY Zenon, <2>1, <2>7 DEF Waits, Narrowing
    <3>3. ASSUME NEW w \in Workers(p), thread[w].stalled PROVE FALSE
      <4>1. thread[w].at \in Running  BY Zenon, <2>1, <3>3 DEF Waits, Fit, Begun, Running
      <4>2. thread[w].flow >= 1 /\ thread[w].flow < 1  BY Zenon, <2>1, <3>1, <4>1 DEF Shape
      <4>3. w \in Threads  BY Zenon, ThreadsOf
      <4>4. thread[w].flow \in Nat  BY Zenon, <2>1, <4>3 DEF Typed, ThreadRec
      <4> QED  BY <4>2, <4>4
    <3>4. Spent(p) = {}  BY Zenon, <3>2, <3>3 DEF Spent
    <3>5. Cardinality(Spent(p)) = 0  BY Zenon, <3>4, FS_EmptySet
    <3> QED  BY <2>2, <2>4, <2>5, <2>7, <3>5
  <2> QED  BY Zenon, <2>6, <2>7
<1> QED  BY <1>1, FlowsAccountedFor, PTL
============================================================================

----------------------------- MODULE LockProofs -----------------------------
(***************************************************************************)
(* While callers break only dead locks, the lock on a journal has one      *)
(* holder as long as its name is never left empty under a caller refused   *)
(* there and no holder's lock is unreadable: for any number of callers,    *)
(* processes, threads, boots and reissued process numbers.                 *)
(***************************************************************************)
EXTENDS Lock, TLAPS

(* The guard belongs to the one caller past TakeGuard.                     *)
Guarded ==
  \A a \in Actors :
    pc[a] \in {"inspect", "classify", "remove", "recreate"} => guard = a

(* Whoever is at work has its process number in use.                       *)
Numbered ==
  \A a \in Actors : pc[a] \in Running \cup Ended => PidOf[a] \in alive

(* The file is the holder's, with what judging it takes.                   *)
Named ==
  \A a \in Actors : pc[a] = "held" =>
    /\ lock # None
    /\ lock.by = a /\ lock.pid = PidOf[a] /\ lock.boot = BootId(boot)

(* The name stays taken from a caller's refusal to its removal, but for    *)
(* the gap of another's replacement.                                       *)
Occupied ==
  \A a \in Actors :
    /\ pc[a] \in {"inspect", "classify", "remove"} => lock # None
    /\ pc[a] = "guard" =>
         lock # None \/ \E b \in Actors : pc[b] = "recreate"

(* What was read is still what is there, its beat aside; what could not be *)
(* read is nobody's.                                                       *)
UpToDate ==
  \A a \in Actors : pc[a] = "classify" =>
    \/ read[a] = None /\ \A b \in Actors : pc[b] # "held"
    \/ /\ read[a] # None
       /\ read[a].by = lock.by
       /\ read[a].pid = lock.pid
       /\ read[a].boot = lock.boot

(* What is about to be removed is nobody's.                                *)
Deserted ==
  \A a, b \in Actors : pc[a] = "remove" => pc[b] # "held"

IInv ==
  /\ TypeOK
  /\ \A a \in Actors : mode[a] = "Dead"
  /\ Guarded
  /\ Numbered
  /\ ~mistaken => Named /\ Occupied /\ UpToDate /\ Deserted

LEMMA InitIInv == Init => IInv
<1> SUFFICES ASSUME Init PROVE IInv
  OBVIOUS
<1>1. TypeOK
  <2>1. boot \in 0 .. MaxBoot
    BY BootAssumption DEF Init
  <2>2. round \in [Actors -> 0 .. BreakAttempts]
    BY DEF Init, BreakAttempts
  <2>3. mistaken \in BOOLEAN
    BY DEF Init
  <2>4. pc \in [Actors -> Running \cup Ended \cup {"new", "dead"}]
    BY DEF Init
  <2>5. /\ mode \in [Actors -> {"Dead", "Stale", "Anything"}]
        /\ read \in [Actors -> Records \cup {None}]
    BY DEF Init
  <2> QED
    BY <2>1, <2>2, <2>3, <2>4, <2>5 DEF Init, TypeOK
<1>2. \A a \in Actors : mode[a] = "Dead" /\ pc[a] = "new"
  BY DEF Init
<1> QED
  BY <1>1, <1>2
  DEF IInv, Guarded, Numbered, Named, Occupied, UpToDate, Deserted, Running,
      Ended, Breakers

LEMMA CurrentType ==
  ASSUME TypeOK, NEW a \in Actors
  PROVE  Current(a) \in Records /\ Current(a) # None
<1>1. PidOf[a] \in Pids
  BY DEF Pids
<1>2. BootId(boot) \in 0 .. MaxBoot
  BY BootAssumption DEF BootId, TypeOK
<1>3. Current(a) \in Records
  BY <1>1, <1>2 DEF Current, Records
<1> QED
  BY <1>3, NoneAssumption

LEMMA AskIInv ==
  ASSUME IInv, NEW a \in Actors, Ask(a, "Dead")
  PROVE  IInv'
  BY DEF IInv, Ask, TypeOK, Guarded, Numbered, Named, Occupied, UpToDate,
      Deserted, Running, Ended, Breakers, BreakAttempts, Pids

LEMMA CreateIInv ==
  ASSUME IInv, NEW a \in Actors, Create(a)
  PROVE  IInv'
  BY CurrentType
  DEF IInv, Create, TypeOK, Guarded, Numbered, Named, Occupied, UpToDate,
      Deserted, Running, Ended, Breakers, BreakAttempts, Pids, Current

LEMMA TakeGuardIInv ==
  ASSUME IInv, NEW a \in Actors, TakeGuard(a)
  PROVE  IInv'
  BY ActorsAssumption
  DEF IInv, TakeGuard, TypeOK, Guarded, Numbered, Named, Occupied, UpToDate,
      Deserted, Running, Ended, Breakers, BreakAttempts, Pids

LEMMA InspectIInv ==
  ASSUME IInv, NEW a \in Actors, Inspect(a)
  PROVE  IInv'
<1>1. /\ pc[a] = "inspect" /\ pc' = [pc EXCEPT ![a] = "classify"]
      /\ UNCHANGED <<lock, guard, mode, round, alive, boot>>
  BY DEF Inspect
<1>2. /\ \A b \in Actors : b # a => pc'[b] = pc[b] /\ read'[b] = read[b]
      /\ pc'[a] = "classify"
      /\ read'[a] \in {lock, None}
      /\ read' \in [Actors -> Records \cup {None}]
      /\ mistaken' \in BOOLEAN
      /\ ~mistaken' => ~mistaken
  BY <1>1 DEF IInv, TypeOK, Inspect
<1>3. TypeOK'
  BY <1>1, <1>2 DEF IInv, TypeOK, Running, Ended, Breakers
<1>4. /\ \A b \in Actors : mode'[b] = "Dead"
      /\ Guarded' /\ Numbered'
  BY <1>1, <1>2 DEF IInv, Guarded, Numbered, Running, Ended, Breakers
<1>5. ASSUME ~mistaken'
      PROVE  Named' /\ Occupied' /\ UpToDate' /\ Deserted'
  <2>1. Named /\ Occupied /\ UpToDate /\ Deserted
    BY <1>2, <1>5 DEF IInv
  <2>2. Named' /\ Occupied' /\ Deserted'
    BY <1>1, <1>2, <2>1 DEF Named, Occupied, Deserted, BootId
  <2>3. lock # None
    BY <1>1, <2>1 DEF Occupied
  <2>4. read'[a] = None => \A b \in Actors : pc[b] # "held"
    BY <1>2, <1>5, <2>3 DEF IInv, TypeOK, Inspect, Holders
  <2>5. UpToDate'
    BY <1>1, <1>2, <2>1, <2>3, <2>4 DEF UpToDate
  <2> QED
    BY <2>2, <2>5
<1> QED
  BY <1>3, <1>4, <1>5 DEF IInv

LEMMA JudgeIInv ==
  ASSUME IInv, NEW a \in Actors, Judge(a)
  PROVE  IInv'
<1>1. TypeOK'
  BY DEF IInv, TypeOK, Judge, Running, Ended, Breakers
<1>2. /\ \A b \in Actors : mode'[b] = "Dead"
      /\ Guarded' /\ Numbered'
  BY ActorsAssumption
  DEF IInv, TypeOK, Guarded, Numbered, Judge, Running, Ended, Breakers
<1>3. ASSUME ~mistaken'
      PROVE  Named' /\ Occupied' /\ UpToDate' /\ Deserted'
  <2>1. Named /\ Occupied /\ UpToDate /\ Deserted
    BY <1>3 DEF IInv, Judge
  <2>2. Named' /\ Occupied'
    BY <2>1 DEF IInv, TypeOK, Named, Occupied, Judge, Running, Ended, Breakers
  <2>3. UpToDate'
    BY <2>1 DEF IInv, TypeOK, UpToDate, Judge, Running, Ended, Breakers
  <2>4. ASSUME NEW b \in Actors, pc'[a] = "remove", pc[b] = "held"
        PROVE  FALSE
    <3>1. Classify(read[a]) \in Resumable
      BY <2>4 DEF IInv, TypeOK, Judge, Permits
    <3>2. /\ read[a] # None
          /\ read[a].pid = PidOf[b] /\ read[a].boot = BootId(boot)
      BY <2>1, <2>4 DEF Named, UpToDate, Judge
    <3>3. PidOf[b] \in alive
      BY <2>4 DEF IInv, Numbered, Running, Ended
    <3> QED
      BY <3>1, <3>2, <3>3 DEF Classify, Resumable
  <2>5. Deserted'
    BY <2>1, <2>4 DEF IInv, TypeOK, Deserted, Judge
  <2> QED
    BY <2>2, <2>3, <2>5
<1> QED
  BY <1>1, <1>2, <1>3 DEF IInv

LEMMA RemoveIInv ==
  ASSUME IInv, NEW a \in Actors, Remove(a)
  PROVE  IInv'
  BY ActorsAssumption
  DEF IInv, Remove, TypeOK, Guarded, Numbered, Named, Occupied, UpToDate,
      Deserted, Running, Ended, Breakers, BreakAttempts, Pids

LEMMA RecreateIInv ==
  ASSUME IInv, NEW a \in Actors, Recreate(a)
  PROVE  IInv'
  BY CurrentType
  DEF IInv, Recreate, TypeOK, Guarded, Numbered, Named, Occupied, UpToDate,
      Deserted, Running, Ended, Breakers, BreakAttempts, Pids, Current

LEMMA IoErrorIInv ==
  ASSUME IInv, NEW a \in Actors, IoError(a)
  PROVE  IInv'
<1>1. mistaken' \in BOOLEAN
  BY DEF IInv, TypeOK, IoError
<1>2. mistaken => mistaken'
  BY DEF IoError
<1>3. TypeOK'
  BY <1>1 DEF IInv, TypeOK, IoError, Running, Ended, Breakers
<1>4. /\ \A b \in Actors : mode'[b] = "Dead"
      /\ Guarded' /\ Numbered'
  BY ActorsAssumption
  DEF IInv, TypeOK, Guarded, Numbered, IoError, Running, Ended, Breakers
<1>5. ASSUME ~mistaken'
      PROVE  Named' /\ Occupied' /\ UpToDate' /\ Deserted'
  <2>1. ~mistaken
    BY <1>2, <1>5
  <2>2. pc[a] = "recreate" =>
          \A b \in Actors : b # a => pc[b] \notin Breakers
    BY <1>5 DEF IoError, Waiting, Vacates
  <2>3. Named /\ Occupied /\ UpToDate /\ Deserted
    BY <2>1 DEF IInv
  <2> QED
    BY <2>2, <2>3, ActorsAssumption
    DEF IInv, TypeOK, Guarded, Numbered, Named, Occupied, UpToDate, Deserted,
        IoError, Running, Ended, Breakers
<1> QED
  BY <1>3, <1>4, <1>5 DEF IInv

LEMMA BeatIInv ==
  ASSUME IInv, NEW a \in Actors, Beat(a)
  PROVE  IInv'
<1>1. /\ pc[a] = "held"
      /\ lock' = Current(a)
      /\ UNCHANGED <<guard, pc, mode, round, alive, boot, read, mistaken>>
  BY DEF Beat, Current
<1>2. /\ lock' \in Records /\ lock' # None
      /\ lock'.by = a /\ lock'.pid = PidOf[a] /\ lock'.boot = BootId(boot)
  <2>1. Current(a) \in Records /\ Current(a) # None
    BY CurrentType DEF IInv
  <2> QED
    BY <1>1, <2>1 DEF Current
<1>3. TypeOK'
  BY <1>1, <1>2 DEF IInv, TypeOK
<1>4. Guarded' /\ Numbered'
  BY <1>1 DEF IInv, Guarded, Numbered
<1>5. ASSUME ~mistaken'
      PROVE  Named' /\ Occupied' /\ UpToDate' /\ Deserted'
  <2>1. Named /\ Occupied /\ UpToDate /\ Deserted
    BY <1>1, <1>5 DEF IInv
  <2>2. lock.by = a /\ lock.pid = PidOf[a] /\ lock.boot = BootId(boot)
    BY <1>1, <2>1 DEF Named
  <2>3. ASSUME NEW b \in Actors, pc[b] = "held"
        PROVE  b = a
    BY <2>1, <2>2, <2>3 DEF Named
  <2>4. Named' /\ Deserted'
    BY <1>1, <1>2, <2>1, <2>3 DEF Named, Deserted, BootId
  <2>5. Occupied' /\ UpToDate'
    BY <1>1, <1>2, <2>1, <2>2 DEF Occupied, UpToDate
  <2> QED
    BY <2>4, <2>5
<1> QED
  BY <1>1, <1>3, <1>4, <1>5 DEF IInv

LEMMA ReleaseIInv ==
  ASSUME IInv, NEW a \in Actors, Release(a)
  PROVE  IInv'
<1>1. mistaken' \in BOOLEAN
  BY DEF IInv, TypeOK, Release
<1>2. mistaken => mistaken'
  BY DEF Release
<1>3. TypeOK'
  BY <1>1 DEF IInv, TypeOK, Release, Running, Ended, Breakers
<1>4. /\ \A b \in Actors : mode'[b] = "Dead"
      /\ Guarded' /\ Numbered'
  BY ActorsAssumption
  DEF IInv, TypeOK, Guarded, Numbered, Release, Running, Ended, Breakers
<1>5. ASSUME ~mistaken'
      PROVE  Named' /\ Occupied' /\ UpToDate' /\ Deserted'
  <2>1. ~mistaken
    BY <1>2, <1>5
  <2>2. lock' = lock \/ \A b \in Actors : b # a => pc[b] \notin Breakers
    BY <1>5 DEF Release, Waiting
  <2>3. Named /\ Occupied /\ UpToDate /\ Deserted
    BY <2>1 DEF IInv
  <2> QED
    BY <2>2, <2>3, ActorsAssumption
    DEF IInv, TypeOK, Guarded, Numbered, Named, Occupied, UpToDate, Deserted,
        Release, Running, Ended, Breakers
<1> QED
  BY <1>3, <1>4, <1>5 DEF IInv

LEMMA AgeIInv ==
  ASSUME IInv, Age
  PROVE  IInv'
<1>1. /\ lock' \in Records /\ lock' # None
      /\ lock'.by = lock.by /\ lock'.pid = lock.pid /\ lock'.boot = lock.boot
  <2>1. lock \in Records /\ lock' = [lock EXCEPT !.young = FALSE]
    BY DEF IInv, TypeOK, Age
  <2>2. lock' \in Records
    BY <2>1 DEF Records
  <2>3. lock'.by = lock.by /\ lock'.pid = lock.pid /\ lock'.boot = lock.boot
    BY <2>1 DEF Records
  <2> QED
    BY <2>2, <2>3, NoneAssumption
<1>2. /\ lock # None
      /\ UNCHANGED <<guard, pc, mode, round, alive, boot, read, mistaken>>
  BY DEF Age
<1>3. TypeOK'
  BY <1>1, <1>2 DEF IInv, TypeOK
<1>4. Guarded' /\ Numbered'
  BY <1>2 DEF IInv, Guarded, Numbered
<1>5. ASSUME ~mistaken'
      PROVE  Named' /\ Occupied' /\ UpToDate' /\ Deserted'
  <2>1. Named /\ Occupied /\ UpToDate /\ Deserted
    BY <1>2, <1>5 DEF IInv
  <2>2. Named' /\ Deserted'
    BY <1>1, <1>2, <2>1 DEF Named, Deserted, BootId
  <2>3. Occupied' /\ UpToDate'
    BY <1>1, <1>2, <2>1 DEF Occupied, UpToDate
  <2> QED
    BY <2>2, <2>3
<1> QED
  BY <1>2, <1>3, <1>4, <1>5 DEF IInv

LEMMA CrashIInv ==
  ASSUME IInv, NEW n \in Pids, Crash(n)
  PROVE  IInv'
<1>1. mistaken' \in BOOLEAN
  BY DEF IInv, TypeOK, Crash
<1>2. mistaken => mistaken'
  BY DEF Crash
<1>3. TypeOK'
  BY <1>1 DEF IInv, TypeOK, Crash, Running, Ended, Breakers, ActorsOf
<1>4. /\ \A b \in Actors : mode'[b] = "Dead"
      /\ Guarded' /\ Numbered'
  BY ActorsAssumption
  DEF IInv, TypeOK, Guarded, Numbered, Crash, Running, Ended, Breakers, ActorsOf
<1>5. ASSUME ~mistaken'
      PROVE  Named' /\ Occupied' /\ UpToDate' /\ Deserted'
  <2>1. ~mistaken
    BY <1>2, <1>5
  <2>2. (\E a \in ActorsOf(n) : pc[a] = "recreate") =>
          \A b \in Actors \ ActorsOf(n) : pc[b] \notin Breakers
    BY <1>5 DEF Crash, Waiting, Vacates
  <2>3. Named /\ Occupied /\ UpToDate /\ Deserted
    BY <2>1 DEF IInv
  <2>4. /\ lock' = lock /\ boot' = boot
        /\ \A b \in ActorsOf(n) : pc'[b] = "dead"
        /\ \A b \in Actors \ ActorsOf(n) : pc'[b] = pc[b] /\ read'[b] = read[b]
    BY DEF Crash, ActorsOf
  <2>5. Named' /\ UpToDate' /\ Deserted'
    BY <2>3, <2>4 DEF Named, UpToDate, Deserted, BootId
  <2>6. Occupied'
    BY <2>2, <2>3, <2>4 DEF Occupied, Breakers
  <2> QED
    BY <2>5, <2>6
<1> QED
  BY <1>3, <1>4, <1>5 DEF IInv

LEMMA ReissueIInv ==
  ASSUME IInv, NEW n \in Pids, Reissue(n)
  PROVE  IInv'
  BY ActorsAssumption
  DEF IInv, Reissue, TypeOK, Guarded, Numbered, Named, Occupied, UpToDate,
      Deserted, Running, Ended, Breakers, BreakAttempts, Pids, ActorsOf, Unused

LEMMA RebootIInv ==
  ASSUME IInv, Reboot
  PROVE  IInv'
  BY BootAssumption
  DEF IInv, Reboot, TypeOK, Guarded, Numbered, Named, Occupied, UpToDate,
      Deserted, Running, Ended, Breakers, BreakAttempts, Pids, BootId

(* What every step keeps, given that no caller may break a beating lock.   *)
LEMMA NextIInv ==
  ASSUME Modes \subseteq {"Dead"}, IInv, [Next]_vars
  PROVE  IInv'
<1>1. CASE \E a \in Actors : \E m \in Modes : Ask(a, m)
  BY <1>1, AskIInv
<1>2. ASSUME NEW a \in Actors, Step(a)
      PROVE  IInv'
  BY <1>2, CreateIInv, TakeGuardIInv, InspectIInv, JudgeIInv, RemoveIInv,
     RecreateIInv
  DEF Step
<1>3. ASSUME NEW a \in Actors, IoError(a) \/ Beat(a) \/ Release(a)
      PROVE  IInv'
  BY <1>3, IoErrorIInv, BeatIInv, ReleaseIInv
<1>4. ASSUME NEW n \in Pids, Crash(n) \/ Reissue(n)
      PROVE  IInv'
  BY <1>4, CrashIInv, ReissueIInv
<1>5. CASE Age
  BY <1>5, AgeIInv
<1>6. CASE Reboot
  BY <1>6, RebootIInv
<1>7. CASE UNCHANGED vars
  BY <1>7
  DEF IInv, vars, TypeOK, Guarded, Numbered, Named, Occupied, UpToDate,
      Deserted
<1> QED
  BY <1>1, <1>2, <1>3, <1>4, <1>5, <1>6, <1>7 DEF Next

(* Of acquire alone, without take_over or force: at most one caller holds  *)
(* a journal's lock and the file is its own, for any callers and any       *)
(* schedule of their system calls, crashes, reboots and failing reads,     *)
(* until the name is left empty under a caller that had been refused there *)
(* or inspect takes for Free a holder's lock that it cannot read.          *)
THEOREM OneHolder ==
  ASSUME Modes \subseteq {"Dead"}
  PROVE  Spec => []ExclusiveUnlessMistaken
<1>1. IInv => ExclusiveUnlessMistaken
  BY DEF IInv, Named, ExclusiveUnlessMistaken, MutualExclusion, Holders
<1>2. IInv /\ [Next]_vars => IInv'
  BY NextIInv
<1> QED
  BY InitIInv, <1>1, <1>2, PTL DEF Spec

(* The lock's state keeps its type: in particular the rounds of            *)
(* acquire_inner never pass BREAK_ATTEMPTS.                                *)
THEOREM LockTypeCorrect ==
  ASSUME Modes \subseteq {"Dead"}
  PROVE  Spec => []TypeOK
<1>1. IInv => TypeOK
  BY DEF IInv
<1>2. IInv /\ [Next]_vars => IInv'
  BY NextIInv
<1> QED
  BY InitIInv, <1>1, <1>2, PTL DEF Spec
============================================================================

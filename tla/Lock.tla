------------------------------- MODULE Lock -------------------------------
(***************************************************************************)
(* The lock on a journal, src/journal/lock.rs: a file naming the process,  *)
(* the boot and the last heartbeat of whoever writes the journal, taken by *)
(* linking a staged file into place and broken, under an advisory lock on  *)
(* a sibling file, when its writer is dead.                                *)
(*                                                                         *)
(* An actor is one caller of Lock::acquire, take_over or force: a thread   *)
(* of a process, since the engine is a library.  Every system call on the  *)
(* lock file is an action.  A process may die anywhere, the kernel then    *)
(* dropping its advisory lock; its number may be reissued to a program     *)
(* that is not a scan; the machine may reboot.                             *)
(***************************************************************************)
EXTENDS Integers, FiniteSets

CONSTANTS
  Actors,         \* callers
  PidOf,          \* the process each runs in
  Modes,          \* which of Breaks callers ask with: "Dead", "Stale", "Anything"
  HasBootId,      \* whether the platform names its boots
  ReadsFail,      \* whether a lock file may be unreadable, or hold no record
  MaxBoot,        \* bound: boots counted
  None            \* no lock file, or nobody holding the advisory lock

Pids == {PidOf[a] : a \in Actors}

\* Lock::BREAK_ATTEMPTS
BreakAttempts == 3

ASSUME ActorsAssumption == None \notin Actors /\ PidOf \in [Actors -> Pids]
ASSUME ModesAssumption == Modes \subseteq {"Dead", "Stale", "Anything"}
ASSUME BootAssumption == HasBootId \in BOOLEAN /\ MaxBoot \in Nat
ASSUME ReadsAssumption == ReadsFail \in BOOLEAN

VARIABLES
  lock,        \* the lock file
  guard,       \* who holds the advisory lock of Breaking
  pc,          \* where each actor stands
  mode,        \* what it may break
  round,       \* its rounds of acquire_inner so far
  alive,       \* process numbers in use, by scans or by anything else
  boot,        \* boots so far
  read,        \* the record inspect has read and not yet judged
  mistaken     \* history: the name was left empty under a refused caller,
               \* or inspect could not read a holder's lock

vars == <<lock, guard, pc, mode, round, alive, boot, read, mistaken>>

\* Past a create that was refused, and on the way to removing what refused it.
Breakers == {"guard", "inspect", "classify", "remove"}
Running == {"create", "recreate", "held"} \cup Breakers
Ended == {"refused", "released"}

Holders == {a \in Actors : pc[a] = "held"}

\* boot_identity: empty, so always the same, where the platform has none.
BootId(b) == IF HasBootId THEN b ELSE 0

(* LockRecord, with the heartbeat's age as young or past                   *)
(* HEARTBEAT_STALE_AFTER.  `by' is history, in no file: which caller wrote *)
(* the record, where two threads share a pid.                              *)
Records ==
  [by : Actors, pid : Pids, boot : 0 .. MaxBoot, young : BOOLEAN]

ASSUME NoneAssumption == None \notin Records

TypeOK ==
  /\ lock \in Records \cup {None}
  /\ guard \in Actors \cup {None}
  /\ pc \in [Actors -> Running \cup Ended \cup {"new", "dead"}]
  /\ mode \in [Actors -> {"Dead", "Stale", "Anything"}]
  /\ round \in [Actors -> 0 .. BreakAttempts]
  /\ alive \subseteq Pids
  /\ boot \in 0 .. MaxBoot
  /\ read \in [Actors -> Records \cup {None}]
  /\ mistaken \in BOOLEAN

\* LockRecord::current
Current(a) ==
  [by |-> a, pid |-> PidOf[a], boot |-> BootId(boot), young |-> TRUE]

\* inspect and classify: the boot before the pid, the pid before the beat.
Classify(l) ==
  CASE l = None -> "Free"
    [] l # None /\ l.boot # BootId(boot) -> "RebootedUnder"
    [] l # None /\ l.boot = BootId(boot) /\ l.pid \notin alive -> "Crashed"
    [] OTHER -> IF l.young THEN "Held" ELSE "Stale"

\* LockState::is_resumable
Resumable == {"Free", "Crashed", "RebootedUnder"}

\* Breaks::permits
Permits(m, state) ==
  \/ state \in Resumable
  \/ m = "Stale" /\ state = "Stale"
  \/ m = "Anything"
----------------------------------------------------------------------------
Init ==
  /\ lock = None /\ guard = None
  /\ pc = [a \in Actors |-> "new"]
  /\ mode = [a \in Actors |-> "Dead"]
  /\ round = [a \in Actors |-> 0]
  /\ alive = {} /\ boot = 0
  /\ read = [a \in Actors |-> None]
  /\ mistaken = FALSE

(* A caller asks for the journal, for the first time or again.             *)
Ask(a, m) ==
  /\ pc[a] \in {"new"} \cup Ended
  /\ pc' = [pc EXCEPT ![a] = "create"]
  /\ mode' = [mode EXCEPT ![a] = m]
  /\ round' = [round EXCEPT ![a] = 1]
  /\ alive' = alive \cup {PidOf[a]}
  /\ UNCHANGED <<lock, guard, boot, read, mistaken>>

(* create_exclusively at the top of a round: the link refuses a name that  *)
(* is taken.                                                               *)
Create(a) ==
  /\ pc[a] = "create"
  /\ IF lock = None
       THEN lock' = Current(a) /\ pc' = [pc EXCEPT ![a] = "held"]
       ELSE UNCHANGED lock /\ pc' = [pc EXCEPT ![a] = "guard"]
  /\ UNCHANGED <<guard, mode, round, alive, boot, read, mistaken>>

\* Variant for a mutation: the advisory lock is taken shared.
TakeGuardShared(a) ==
  /\ pc[a] = "guard"
  /\ guard' = a
  /\ pc' = [pc EXCEPT ![a] = "inspect"]
  /\ UNCHANGED <<lock, mode, round, alive, boot, read, mistaken>>

(* Breaking::take waits for the advisory lock.                             *)
TakeGuard(a) ==
  /\ pc[a] = "guard"
  /\ guard = None
  /\ guard' = a
  /\ pc' = [pc EXCEPT ![a] = "inspect"]
  /\ UNCHANGED <<lock, mode, round, alive, boot, read, mistaken>>

(* The lock is asked about again, under the guard.  A file that cannot be  *)
(* opened, read or parsed is taken for none, so judged Free.               *)
Inspect(a) ==
  /\ pc[a] = "inspect"
  /\ \/ read' = [read EXCEPT ![a] = lock] /\ UNCHANGED mistaken
     \/ /\ ReadsFail /\ lock # None
        /\ read' = [read EXCEPT ![a] = None]
        /\ mistaken' = (mistaken \/ Holders # {})
  /\ pc' = [pc EXCEPT ![a] = "classify"]
  /\ UNCHANGED <<lock, guard, mode, round, alive, boot>>

\* Variant for a mutation: a refusal returns with the advisory lock held.
JudgeKeepsGuard(a) ==
  /\ pc[a] = "classify"
  /\ pc' = [pc EXCEPT ![a] = IF Permits(mode[a], Classify(read[a]))
                                THEN "remove" ELSE "refused"]
  /\ read' = [read EXCEPT ![a] = None]
  /\ UNCHANGED <<lock, guard, mode, round, alive, boot, mistaken>>

(* What was read is judged by the processes there are now, and refused if  *)
(* it may not be broken.                                                   *)
Judge(a) ==
  /\ pc[a] = "classify"
  /\ IF Permits(mode[a], Classify(read[a]))
       THEN pc' = [pc EXCEPT ![a] = "remove"] /\ UNCHANGED guard
       ELSE pc' = [pc EXCEPT ![a] = "refused"] /\ guard' = None
  /\ read' = [read EXCEPT ![a] = None]
  /\ UNCHANGED <<lock, mode, round, alive, boot, mistaken>>

(* Whatever is at the name by now is removed.                              *)
Remove(a) ==
  /\ pc[a] = "remove"
  /\ lock' = None
  /\ pc' = [pc EXCEPT ![a] = "recreate"]
  /\ UNCHANGED <<guard, mode, round, alive, boot, read, mistaken>>

(* The second create_exclusively, and the end of the round: the guard goes *)
(* either way.                                                             *)
Recreate(a) ==
  /\ pc[a] = "recreate"
  /\ guard' = None
  /\ IF lock = None
       THEN /\ lock' = Current(a)
            /\ pc' = [pc EXCEPT ![a] = "held"]
            /\ UNCHANGED round
       ELSE /\ UNCHANGED lock
            /\ IF round[a] = BreakAttempts
                 THEN pc' = [pc EXCEPT ![a] = "refused"] /\ UNCHANGED round
                 ELSE /\ pc' = [pc EXCEPT ![a] = "create"]
                      /\ round' = [round EXCEPT ![a] = @ + 1]
  /\ UNCHANGED <<mode, alive, boot, read, mistaken>>

(* History: someone refused at the name has yet to look at it again.       *)
Waiting(gone) == \E b \in Actors \ gone : pc[b] \in Breakers

(* History: one of `gone' stood between the removal and the create.        *)
Vacates(gone) == (\E a \in gone : pc[a] = "recreate") /\ Waiting(gone)

(* An error other than the expected one ends the attempt as LockRefused::Io.*)
IoError(a) ==
  /\ pc[a] \in {"create", "guard", "remove", "recreate"}
  /\ pc' = [pc EXCEPT ![a] = "refused"]
  /\ guard' = IF guard = a THEN None ELSE guard
  /\ mistaken' = (mistaken \/ Vacates({a}))
  /\ UNCHANGED <<lock, mode, round, alive, boot, read>>

(* Lock::beat, once a checkpoint: renamed over whatever is there.          *)
Beat(a) ==
  /\ pc[a] = "held"
  /\ lock' = [by |-> a, pid |-> PidOf[a], boot |-> BootId(boot), young |-> TRUE]
  /\ UNCHANGED <<guard, pc, mode, round, alive, boot, read, mistaken>>

(* Lock::release, and Drop: whatever is at the name is removed, or the     *)
(* removal fails and the file stays.                                       *)
Release(a) ==
  /\ pc[a] = "held"
  /\ \/ lock' = None /\ mistaken' = (mistaken \/ Waiting({a}))
     \/ UNCHANGED <<lock, mistaken>>
  /\ pc' = [pc EXCEPT ![a] = "released"]
  /\ UNCHANGED <<guard, mode, round, alive, boot, read>>
----------------------------------------------------------------------------
(* A minute passes with no checkpoint.                                     *)
Age ==
  /\ lock # None
  /\ lock.young
  /\ lock' = [lock EXCEPT !.young = FALSE]
  /\ UNCHANGED <<guard, pc, mode, round, alive, boot, read, mistaken>>

ActorsOf(n) == {a \in Actors : PidOf[a] = n}

(* A process dies, or ends: no Drop runs, and the kernel drops its         *)
(* advisory lock.                                                          *)
Crash(n) ==
  /\ \E a \in ActorsOf(n) : pc[a] \in Running \cup Ended
  /\ pc' = [a \in Actors |-> IF a \in ActorsOf(n) THEN "dead" ELSE pc[a]]
  /\ read' = [a \in Actors |-> IF a \in ActorsOf(n) THEN None ELSE read[a]]
  /\ alive' = alive \ {n}
  /\ guard' = IF guard \in ActorsOf(n) THEN None ELSE guard
  /\ mistaken' = (mistaken \/ Vacates(ActorsOf(n)))
  /\ UNCHANGED <<lock, mode, round, boot>>

Unused(n) == \A a \in ActorsOf(n) : pc[a] = "dead"

(* The number of a dead scan is reissued to something else, which ends.    *)
Reissue(n) ==
  /\ Unused(n)
  /\ alive' = IF n \in alive THEN alive \ {n} ELSE alive \cup {n}
  /\ UNCHANGED <<lock, guard, pc, mode, round, boot, read, mistaken>>

(* The machine reboots under every process.                                *)
Reboot ==
  /\ boot < MaxBoot
  /\ boot' = boot + 1
  /\ pc' = [a \in Actors |-> IF PidOf[a] \in alive THEN "dead" ELSE pc[a]]
  /\ alive' = {}
  /\ guard' = None
  /\ read' = [a \in Actors |-> None]
  /\ UNCHANGED <<lock, mode, round, mistaken>>

Step(a) ==
  \/ Create(a) \/ TakeGuard(a) \/ Inspect(a) \/ Judge(a)
  \/ Remove(a) \/ Recreate(a)

Next ==
  \/ \E a \in Actors : \E m \in Modes : Ask(a, m)
  \/ \E a \in Actors : Step(a) \/ IoError(a) \/ Beat(a) \/ Release(a)
  \/ \E n \in Pids : Crash(n) \/ Reissue(n)
  \/ Age
  \/ Reboot

Spec == Init /\ [][Next]_vars

(* An attempt runs on until it ends: nothing in acquire_inner waits but    *)
(* for the advisory lock, which is held for three system calls.            *)
FairSpec == Spec /\ \A a \in Actors : WF_vars(Step(a))
----------------------------------------------------------------------------
(* At most one caller holds the journal: lock.rs says of the create that   *)
(* "two processes racing for one journal cannot both succeed".             *)
MutualExclusion == \A a, b \in Holders : a = b

(* Breaking only dead locks, no two callers hold the journal and the file  *)
(* names the one who does, through crashes, reboots, reissued pids and     *)
(* unreadable locks of the dead: inspect, removal and create under the     *)
(* guard replace only a lock whose writer is dead.  Two mistakes undo it,  *)
(* and no other: the name left empty under a caller that was refused       *)
(* there, and a holder's own lock that inspect could not read.             *)
ExclusiveUnlessMistaken ==
  ~mistaken =>
    /\ MutualExclusion
    /\ \A a \in Holders : lock # None /\ lock.by = a

(* Once callers stop coming back for more, every attempt ends, in a lock,  *)
(* a refusal or the caller's death: the guard is given up on every path    *)
(* out of a round, and the rounds are bounded.  (Under callers that never  *)
(* stop asking, an advisory lock that is not first come first served may   *)
(* pass one of them over for ever.)                                        *)
AttemptsEnd ==
  (<>[][\A a \in Actors : \A m \in Modes : ~Ask(a, m)]_vars) =>
    \A a \in Actors :
      pc[a] = "create" ~> pc[a] \in {"held", "dead"} \cup Ended
============================================================================

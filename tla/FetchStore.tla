----------------------------- MODULE FetchStore -----------------------------
(***************************************************************************)
(* The store of fetched data (src/fetch/store.rs), the fetch that updates  *)
(* it (src/fetch/client.rs) and the data derived from it                   *)
(* (src/fetch/store/derived.rs): processes that fetch, derive and read the *)
(* same entries, each dying or meeting an error at any step.               *)
(*                                                                         *)
(* Bytes are known by what they hash to: a version for a resource, and for *)
(* the derived entry the versions it was made from.  All have one size, so *)
(* the size the metadata records never tells two copies apart.  An action  *)
(* is one call on the file system or on a lock.  A death is a process's,   *)
(* so the files keep every rename made; times and validators are left out. *)
(***************************************************************************)
EXTENDS Integers, FiniteSets

CONSTANTS Resources,    \* the resources of the store
          Made,         \* the entry derived from all of them
          Processes,
          Versions,     \* what a resource's bytes can be
          Keys,         \* keys a resource may be checked by
          None,         \* no file, no value; as a check, the transport alone
          Torn,         \* a partial file being written
          Calls         \* how many calls are made in all

Entries == Resources \cup {Made}
Checks == {None} \cup Keys \cup Versions

ASSUME StoreAssumption ==
    /\ Made \notin Resources
    /\ Calls \in Nat
    /\ None \notin Entries \cup Versions \cup Keys \cup Processes
    /\ Versions \cap Keys = {}

VARIABLES
    disk,       \* by entry: the files of its directory
    updating,   \* by entry: the process holding update.lock
    swapping,   \* by entry: the process holding read.lock exclusively
    reading,    \* by entry: the processes holding read.lock shared
    proc,       \* by process: where it is in its call, and what it knows
    left        \* calls still to be made

vars == <<disk, updating, swapping, reading, proc, left>>

\* An entry never written: no read.lock, no file.
Empty == [readLock |-> "none", data |-> None, sig |-> None, meta |-> None,
          staged |-> None, stagedSig |-> None, stagedMeta |-> None]

Idle == [at |-> "idle", on |-> None, verify |-> None, current |-> None, copy |-> None,
         doc |-> None, meta |-> None, how |-> "confirm", from |-> None, read |-> None,
         data |-> None, sig |-> None, sources |-> [r \in Resources |-> None],
         before |-> None]

Init ==
    /\ disk = [e \in Entries |-> Empty]
    /\ updating = [e \in Entries |-> None]
    /\ swapping = [e \in Entries |-> None]
    /\ reading = [e \in Entries |-> {}]
    /\ proc = [p \in Processes |-> Idle]
    /\ left = Calls

At(p, place) == proc[p].at = place
Goes(p, place) == proc' = [proc EXCEPT ![p].at = place]
On(p) == disk[proc[p].on]

\* Variant for a mutation: a call that ends in the swap leaves the read lock held.
EndsSwapping(p) ==
    /\ proc' = [proc EXCEPT ![p] = Idle]
    /\ updating' = [e \in Entries |-> IF updating[e] = p THEN None ELSE updating[e]]
    /\ reading' = [e \in Entries |-> reading[e] \ {p}]
    /\ UNCHANGED <<swapping, left>>

\* The call returns, or its process dies: every lock it held is released.
Ends(p) ==
    /\ proc' = [proc EXCEPT ![p] = Idle]
    /\ updating' = [e \in Entries |-> IF updating[e] = p THEN None ELSE updating[e]]
    /\ swapping' = [e \in Entries |-> IF swapping[e] = p THEN None ELSE swapping[e]]
    /\ reading' = [e \in Entries |-> reading[e] \ {p}]
    /\ UNCHANGED left

Locks == <<updating, swapping, reading>>

\* Update::discard.
Discarded(e) == [disk EXCEPT ![e].staged = None, ![e].stagedSig = None]

-----------------------------------------------------------------------------
(* The calls: Client::fetch, Store::derive, Store::open. *)

Begins(p, record) ==
    /\ At(p, "idle")
    /\ left > 0
    /\ left' = left - 1
    /\ proc' = [proc EXCEPT ![p] = record]
    /\ UNCHANGED <<disk, updating, swapping, reading>>

Fetch(p) == \E r \in Resources, verify \in Checks :
    Begins(p, [Idle EXCEPT !.at = "lock", !.on = r, !.verify = verify])

Derive(p) == Begins(p, [Idle EXCEPT !.at = "lock", !.on = Made])

Open(p) == \E e \in Entries : Begins(p, [Idle EXCEPT !.at = "readlock", !.from = e])

\* The copy an entry holds (kept from the update's beginning as history).
Copy(e) == [meta |-> disk[e].meta, data |-> disk[e].data, sig |-> disk[e].sig]

\* Variant for a mutation: an update does not wait for another.
LockForUpdateAnyTime(p) ==
    /\ At(p, "lock")
    /\ updating' = [updating EXCEPT ![proc[p].on] = p]
    /\ proc' = [proc EXCEPT ![p].at = IF proc[p].on = Made THEN "sources" ELSE "ask",
                            ![p].before = Copy(proc[p].on)]
    /\ UNCHANGED <<disk, swapping, reading, left>>

\* lock_directory: waits for no other update to hold the entry.
LockForUpdate(p) ==
    /\ At(p, "lock")
    /\ updating[proc[p].on] = None
    /\ updating' = [updating EXCEPT ![proc[p].on] = p]
    /\ proc' = [proc EXCEPT ![p].at = IF proc[p].on = Made THEN "sources" ELSE "ask",
                            ![p].before = Copy(proc[p].on)]
    /\ UNCHANGED <<disk, swapping, reading, left>>

-----------------------------------------------------------------------------
(* A fetch up to the swap. *)

\* Metadata::satisfies.
Satisfies(meta, verify) ==
    \/ verify = None
    \/ verify \in Versions /\ meta.sha = verify
    \/ verify \in Keys /\ meta.verified = verify

\* Variant for a mutation: a copy checked otherwise is kept as current.
CurrentHowever(p) == IF On(p).data = None THEN None ELSE On(p).meta

\* Update::current, kept only while it satisfies the present checks.
Current(p) ==
    IF On(p).meta # None /\ On(p).data # None /\ Satisfies(On(p).meta, proc[p].verify)
    THEN On(p).meta ELSE None

\* The request, conditional on the current copy, and its response: nothing
\* newer, which only confirms a copy there is, or the bytes to come.
Ask(p) ==
    /\ At(p, "ask")
    /\ \/ /\ Current(p) # None
          /\ proc' = [proc EXCEPT ![p].at = "stagemeta", ![p].meta = Current(p)]
       \/ \E v \in Versions :
            proc' = [proc EXCEPT ![p].at = "stage", ![p].copy = v, ![p].current = Current(p)]
    /\ UNCHANGED <<disk, left, Locks>>

\* Update::stage: the partial file of an earlier update is discarded.
Stage(p) ==
    /\ At(p, "stage")
    /\ disk' = [disk EXCEPT ![proc[p].on].staged = Torn]
    /\ Goes(p, "write")
    /\ UNCHANGED <<left, Locks>>

\* The bytes are all written and synced.
Write(p) ==
    /\ At(p, "write")
    /\ disk' = [disk EXCEPT ![proc[p].on].staged = proc[p].copy]
    /\ IF proc[p].on = Made
       THEN proc' = [proc EXCEPT ![p].at = "stagemeta", ![p].how = "replace"]
       ELSE Goes(p, "check")
    /\ UNCHANGED <<left, Locks>>

Verified(p) == IF proc[p].verify \in Keys THEN proc[p].verify ELSE None

\* Client::check: a pinned digest is the bytes', and a signature fetched after
\* them, so perhaps of a later version, is of them and by the key.
Passes(p, doc) ==
    /\ proc[p].verify \in Versions => proc[p].copy = proc[p].verify
    /\ doc = IF proc[p].verify \in Keys THEN <<proc[p].copy, proc[p].verify>> ELSE None

\* The check passed.  Bytes the store has already are discarded and their
\* metadata confirmed; others are to replace the copy.
Check(p) ==
    LET meta == [sha |-> proc[p].copy, verified |-> Verified(p), sources |-> None]
        same == proc[p].current # None /\ proc[p].current.sha = proc[p].copy
    IN  /\ At(p, "check")
        /\ \E doc \in {None} \cup (Versions \X Keys) :
            /\ Passes(p, doc)
            /\ proc' = [proc EXCEPT ![p].at = IF same \/ doc = None THEN "stagemeta" ELSE "stagesig",
                                    ![p].meta = meta,
                                    ![p].doc = IF same THEN None ELSE doc,
                                    ![p].how = IF same THEN "confirm" ELSE "replace"]
        /\ disk' = IF same THEN Discarded(proc[p].on) ELSE disk
        /\ UNCHANGED <<left, Locks>>

-----------------------------------------------------------------------------
(* The swap: Update::replace and Update::confirm. *)

StageSig(p) ==
    /\ At(p, "stagesig")
    /\ disk' = [disk EXCEPT ![proc[p].on].stagedSig = proc[p].doc]
    /\ Goes(p, "stagemeta")
    /\ UNCHANGED <<left, Locks>>

StageMeta(p) ==
    /\ At(p, "stagemeta")
    /\ disk' = [disk EXCEPT ![proc[p].on].stagedMeta = proc[p].meta]
    /\ Goes(p, "swap")
    /\ UNCHANGED <<left, Locks>>

\* Variant for a mutation: the pair is replaced under the eyes of readers.
LockForSwapAnyTime(p) ==
    /\ At(p, "swap")
    /\ swapping' = [swapping EXCEPT ![proc[p].on] = p]
    /\ disk' = [disk EXCEPT ![proc[p].on].readLock = "there"]
    /\ Goes(p, IF proc[p].how = "replace" THEN "remove" ELSE "meta")
    /\ UNCHANGED <<updating, reading, left>>

\* Update::swapping: the read lock, made if it is not there, held exclusively.
LockForSwap(p) ==
    /\ At(p, "swap")
    /\ reading[proc[p].on] = {}
    /\ swapping[proc[p].on] = None
    /\ swapping' = [swapping EXCEPT ![proc[p].on] = p]
    /\ disk' = [disk EXCEPT ![proc[p].on].readLock = "there"]
    /\ Goes(p, IF proc[p].how = "replace" THEN "remove" ELSE "meta")
    /\ UNCHANGED <<updating, reading, left>>

\* Variant for a mutation: the metadata of the old copy is left to be replaced.
RemoveMetaLater(p) ==
    /\ At(p, "remove")
    /\ Goes(p, "data")
    /\ UNCHANGED <<disk, left, Locks>>

RemoveMeta(p) ==
    /\ At(p, "remove")
    /\ disk' = [disk EXCEPT ![proc[p].on].meta = None]
    /\ Goes(p, "data")
    /\ UNCHANGED <<left, Locks>>

RenameData(p) ==
    /\ At(p, "data")
    /\ disk' = [disk EXCEPT ![proc[p].on].data = On(p).staged, ![proc[p].on].staged = None]
    /\ Goes(p, "sig")
    /\ UNCHANGED <<left, Locks>>

\* The signature staged, or none: one of an earlier check is stale.
PlaceSig(p) ==
    /\ At(p, "sig")
    /\ disk' = IF proc[p].doc = None THEN [disk EXCEPT ![proc[p].on].sig = None]
               ELSE [disk EXCEPT ![proc[p].on].sig = On(p).stagedSig,
                                 ![proc[p].on].stagedSig = None]
    /\ Goes(p, "meta")
    /\ UNCHANGED <<left, Locks>>

\* The last rename, after which the update returns what it stored.
RenameMeta(p) ==
    /\ At(p, "meta")
    /\ disk' = [disk EXCEPT ![proc[p].on].meta = On(p).stagedMeta,
                            ![proc[p].on].stagedMeta = None]
    /\ Ends(p)

-----------------------------------------------------------------------------
(* Reading: Store::open, and the sources of a derivation. *)

\* read_locked: nothing was ever stored, or the lock is shared once no swap
\* holds it.
ReadLocked(p) ==
    LET e == proc[p].from
    IN  /\ At(p, "readlock")
        /\ disk[e].readLock = "there"
        /\ swapping[e] = None
        /\ reading' = [reading EXCEPT ![e] = @ \cup {p}]
        /\ Goes(p, "readmeta")
        /\ UNCHANGED <<disk, updating, swapping, left>>

ReadMeta(p) ==
    /\ At(p, "readmeta")
    /\ disk[proc[p].from].meta # None
    /\ proc' = [proc EXCEPT ![p].at = "readdata", ![p].read = disk[proc[p].from].meta]
    /\ UNCHANGED <<disk, left, Locks>>

OpenData(p) ==
    /\ At(p, "readdata")
    /\ disk[proc[p].from].data # None
    /\ proc' = [proc EXCEPT ![p].at = IF proc[p].read.verified = None THEN "opened" ELSE "readsig",
                            ![p].data = disk[proc[p].from].data]
    /\ UNCHANGED <<disk, left, Locks>>

ReadSig(p) ==
    /\ At(p, "readsig")
    /\ disk[proc[p].from].sig # None
    /\ proc' = [proc EXCEPT ![p].at = "opened", ![p].sig = disk[proc[p].from].sig]
    /\ UNCHANGED <<disk, left, Locks>>

\* Nothing stored: None for a reader, NotStored for a derivation.
NothingStored(p) ==
    /\ \/ At(p, "readlock") /\ disk[proc[p].from].readLock = "none"
       \/ At(p, "readmeta") /\ disk[proc[p].from].meta = None
    /\ Ends(p)
    /\ UNCHANGED disk

\* A reader has its copy, open, and the lock is released.
Opened(p) ==
    /\ At(p, "opened")
    /\ proc[p].on = None
    /\ Ends(p)
    /\ UNCHANGED disk

\* A source of the derivation is open; the lock is released.
SourceOpened(p) ==
    /\ At(p, "opened")
    /\ proc[p].on = Made
    /\ reading' = [reading EXCEPT ![proc[p].from] = @ \ {p}]
    /\ proc' = [proc EXCEPT ![p] = [Idle EXCEPT !.at = "sources", !.on = Made,
                !.before = proc[p].before,
                !.sources = [proc[p].sources EXCEPT ![proc[p].from] =
                                [sha |-> proc[p].read.sha, bytes |-> proc[p].data]]]]
    /\ UNCHANGED <<disk, updating, swapping, left>>

\* The next source of the derivation.
NextSource(p) ==
    /\ At(p, "sources")
    /\ \E r \in Resources :
        /\ proc[p].sources[r] = None
        /\ proc' = [proc EXCEPT ![p].at = "readlock", ![p].from = r]
    /\ UNCHANGED <<disk, left, Locks>>

SourceShas(p) == [r \in Resources |-> proc[p].sources[r].sha]
SourceBytes(p) == [r \in Resources |-> proc[p].sources[r].bytes]

\* DerivedMetadata::made_from, with the data there.
MadeFrom(p) ==
    /\ On(p).meta # None
    /\ On(p).meta.sources = SourceShas(p)
    /\ On(p).data # None

\* Every source is open: the derived copy is current, or it is converted anew.
Convert(p) ==
    /\ At(p, "sources")
    /\ \A r \in Resources : proc[p].sources[r] # None
    /\ IF MadeFrom(p) THEN Ends(p)
       ELSE /\ proc' = [proc EXCEPT ![p].at = "stage", ![p].copy = SourceBytes(p),
                        ![p].meta = [sha |-> SourceBytes(p), verified |-> None,
                                     sources |-> SourceShas(p)]]
            /\ UNCHANGED <<left, Locks>>
    /\ UNCHANGED disk

-----------------------------------------------------------------------------
(* Errors, and deaths. *)

\* Where an update that fails has something staged to discard.
Discards(p) ==
    \/ proc[p].at \in {"stage", "write", "check", "stagesig"}
    \/ proc[p].how = "replace" /\ proc[p].at \in {"stagemeta", "swap", "remove", "data", "sig", "meta"}

\* The network, the server, a check, the conversion or the disk fails the step
\* the process is at, and its call returns the error.  stage_file removes the
\* metadata it could not write whole, also when nothing else is discarded.  A
\* removal that fails too leaves the files as a death does.
Fails(p) ==
    /\ proc[p].at \notin {"idle", "opened"}
    /\ LET kept == IF Discards(p) THEN Discarded(proc[p].on) ELSE disk
       IN  disk' = IF At(p, "stagemeta") THEN [kept EXCEPT ![proc[p].on].stagedMeta = None]
                   ELSE kept
    /\ Ends(p)

\* The process dies, or the future of its call is dropped.
Dies(p) ==
    /\ ~At(p, "idle")
    /\ Ends(p)
    /\ UNCHANGED disk

Done ==
    /\ left = 0
    /\ \A p \in Processes : At(p, "idle")
    /\ UNCHANGED vars

Step(p) ==
    \/ Fetch(p) \/ Derive(p) \/ Open(p) \/ LockForUpdate(p)
    \/ Ask(p) \/ Stage(p) \/ Write(p) \/ Check(p)
    \/ StageSig(p) \/ StageMeta(p) \/ LockForSwap(p) \/ RemoveMeta(p) \/ RenameData(p)
    \/ PlaceSig(p) \/ RenameMeta(p)
    \/ ReadLocked(p) \/ ReadMeta(p) \/ OpenData(p) \/ ReadSig(p) \/ NothingStored(p)
    \/ Opened(p) \/ NextSource(p) \/ SourceOpened(p) \/ Convert(p)
    \/ Fails(p) \/ Dies(p)

Next == Done \/ \E p \in Processes : Step(p)

Spec == Init /\ [][Next]_vars
-----------------------------------------------------------------------------
Places == {"idle", "lock", "ask", "stage", "write", "check", "stagesig", "stagemeta", "swap",
           "remove", "data", "sig", "meta", "sources", "readlock", "readmeta", "readdata",
           "readsig", "opened"}

Mades == [Resources -> Versions]
BytesOf(e) == IF e = Made THEN Mades ELSE Versions
MetasOf(e) == [sha : BytesOf(e), verified : {None} \cup Keys, sources : {None} \cup Mades]
Sigs == Versions \X Keys

\* What the files of an entry can hold: never a part of a download under the
\* name of the data.
FilesOf(e) == [readLock : {"none", "there"}, data : {None} \cup BytesOf(e), sig : {None} \cup Sigs,
               meta : {None} \cup MetasOf(e), staged : {None, Torn} \cup BytesOf(e),
               stagedSig : {None} \cup Sigs, stagedMeta : {None} \cup MetasOf(e)]

TypeOK ==
    /\ DOMAIN disk = Entries /\ \A e \in Entries : disk[e] \in FilesOf(e)
    /\ updating \in [Entries -> {None} \cup Processes]
    /\ swapping \in [Entries -> {None} \cup Processes]
    /\ reading \in [Entries -> SUBSET Processes]
    /\ left \in 0 .. Calls
    /\ \A p \in Processes : proc[p].at \in Places

\* What metadata says of the files beside it: the bytes it records, signed by
\* the key it names; of a derived copy, made from the versions it lists.
Describes(meta, data, sig) ==
    /\ data = meta.sha
    /\ meta.verified # None => sig = <<meta.sha, meta.verified>>
    /\ meta.sources # None => meta.sources = meta.sha

\* "whenever metadata.toml exists it describes the data and signature beside
\* it" (store.rs): between any two renames of any update, whichever processes
\* died in whichever step before.
MetadataDescribes ==
    \A e \in Entries : disk[e].meta # None => Describes(disk[e].meta, disk[e].data, disk[e].sig)

\* "a reader never pairs one copy's metadata with another's data" (store.rs):
\* what Store::open returns is one copy, although it reads three files and
\* updates come and go.
OneCopyRead ==
    \A p \in Processes : At(p, "opened") => Describes(proc[p].read, proc[p].data, proc[p].sig)

\* Until an update's last rename the entry holds the copy the update found, or
\* from the removal of its metadata on, nothing.  So an update that fails or
\* dies leaves that copy or nothing, and never another's half.
OldCopyUntilSwapped ==
    \A p \in Processes : proc[p].on # None /\ ~At(p, "lock") =>
        \/ Copy(proc[p].on) = proc[p].before
        \/ On(p).meta = None /\ proc[p].how = "replace" /\ proc[p].at \in {"data", "sig", "meta"}

\* What an update is about to store, new bytes or a copy confirmed, satisfies
\* the check it was called with: "a newly pinned digest or a rotated key forces
\* a fresh fetch and check" (Metadata::satisfies).
StoredAsAsked ==
    \A p \in Processes : proc[p].at \in {"swap", "remove", "data", "sig", "meta"} =>
        Satisfies(On(p).stagedMeta, proc[p].verify)

\* Whether the process waits for a lock another holds.
Waits(p) ==
    \/ At(p, "lock") /\ updating[proc[p].on] # None
    \/ At(p, "swap") /\ (reading[proc[p].on] # {} \/ swapping[proc[p].on] # None)
    \/ At(p, "readlock") /\ disk[proc[p].from].readLock = "there" /\ swapping[proc[p].from] # None

\* Updates, derivations and readers hold locks of several entries, and never
\* all wait for each other.
NeverAllWaiting ==
    (\E p \in Processes : ~At(p, "idle")) => \E p \in Processes : ~At(p, "idle") /\ ~Waits(p)
=============================================================================

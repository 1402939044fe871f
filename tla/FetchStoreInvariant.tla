------------------------ MODULE FetchStoreInvariant -------------------------
(***************************************************************************)
(* The inductive invariant of FetchStore: what a process at each place of  *)
(* a call knows and holds.                                                 *)
(***************************************************************************)
EXTENDS FetchStore

\* What a process knows, by name.
Sources == [Resources -> {None} \cup [sha : Versions, bytes : Versions]]
Copies == Versions \cup Mades
Metas == [sha : Copies, verified : {None} \cup Keys, sources : {None} \cup Mades]
Found == {None} \cup [meta : {None} \cup Metas, data : {None} \cup Copies, sig : {None} \cup Sigs]
Hows == {"confirm", "replace"}
Records == [at : Places, on : {None} \cup Entries, verify : Checks, current : {None} \cup Metas,
            copy : {None} \cup Copies, doc : {None} \cup Sigs, meta : {None} \cup Metas,
            how : Hows, from : {None} \cup Entries, read : {None} \cup Metas,
            data : {None} \cup Copies, sig : {None} \cup Sigs, sources : Sources,
            before : Found]

Swaps == {"remove", "data", "sig", "meta"}
Commits == {"stagesig", "stagemeta", "swap"} \cup Swaps
Reads == {"readmeta", "readdata", "readsig", "opened"}

\* Which entries a process is busy with.
Placed(p) ==
    /\ At(p, "idle") => proc[p].on = None
    /\ proc[p].at \in {"lock", "stage", "write"} \cup Commits => proc[p].on \in Entries
    /\ proc[p].at \in {"ask", "check", "stagesig"} => proc[p].on \in Resources
    /\ At(p, "sources") => proc[p].on = Made
    /\ proc[p].on = Made => proc[p].verify = None /\ proc[p].current = None
    /\ proc[p].at \in {"readlock"} \cup Reads =>
        /\ proc[p].from \in Entries
        /\ proc[p].on \in {None, Made}
        /\ proc[p].on = Made => proc[p].from \in Resources

InUpdate(p) == proc[p].on # None /\ ~At(p, "lock")

\* The locks a process holds.
Holds(p) ==
    /\ InUpdate(p) => updating[proc[p].on] = p
    /\ proc[p].at \in Swaps => swapping[proc[p].on] = p
    /\ proc[p].at \in Reads => p \in reading[proc[p].from]

\* An update's own: what it will store, and what of it is on the disk.
Fetched(p) ==
    /\ proc[p].at \in {"stage", "write", "check"} \/ proc[p].how = "replace" =>
        proc[p].copy \in BytesOf(proc[p].on)
    /\ proc[p].at \notin Commits => proc[p].doc = None /\ proc[p].how = "confirm"
    /\ At(p, "stagesig") => proc[p].how = "replace"
    /\ proc[p].at \in {"stage", "write"} /\ proc[p].on = Made =>
        proc[p].meta \in MetasOf(Made) /\ Describes(proc[p].meta, proc[p].copy, None)
    /\ proc[p].at \in {"stage", "write", "check"} /\ proc[p].current # None =>
        /\ proc[p].current = On(p).meta
        /\ Satisfies(proc[p].current, proc[p].verify)
    /\ proc[p].at \in Commits =>
        proc[p].meta \in MetasOf(proc[p].on) /\ Satisfies(proc[p].meta, proc[p].verify)

Staged(p) ==
    /\ At(p, "check") => On(p).staged = proc[p].copy
    /\ proc[p].how = "replace" /\ proc[p].at \in Commits =>
        Describes(proc[p].meta, proc[p].copy, proc[p].doc)
    /\ proc[p].how = "replace" /\ proc[p].at \in Commits \ {"sig", "meta"} =>
        On(p).staged = proc[p].copy
    /\ proc[p].how = "replace" /\ proc[p].at \in Commits \ {"stagesig", "meta"} /\ proc[p].doc # None =>
        On(p).stagedSig = proc[p].doc
    /\ proc[p].at \in {"swap"} \cup Swaps => On(p).stagedMeta = proc[p].meta
    /\ proc[p].how = "replace" /\ proc[p].at \in {"sig", "meta"} => On(p).data = proc[p].copy
    /\ proc[p].how = "replace" /\ At(p, "meta") => On(p).sig = proc[p].doc
    /\ proc[p].how = "replace" /\ proc[p].at \in {"data", "sig", "meta"} => On(p).meta = None
    /\ proc[p].how = "confirm" /\ proc[p].at \in Commits =>
        Describes(proc[p].meta, On(p).data, On(p).sig)
    /\ proc[p].at \in {"remove", "data", "sig"} => proc[p].how = "replace"

\* The copy found is there until the swap removes its metadata.
Kept(p) ==
    InUpdate(p) => \/ Copy(proc[p].on) = proc[p].before
                   \/ /\ On(p).meta = None /\ proc[p].how = "replace"
                      /\ proc[p].at \in {"data", "sig", "meta"}

\* A reader's own.
Reader(p) ==
    /\ proc[p].at \in {"readdata", "readsig"} =>
        Describes(proc[p].read, disk[proc[p].from].data, disk[proc[p].from].sig)
    /\ proc[p].at \in {"readdata", "readsig", "opened"} => proc[p].read \in MetasOf(proc[p].from)
    /\ At(p, "readsig") => proc[p].data = disk[proc[p].from].data
    /\ proc[p].at \in {"readsig", "opened"} => proc[p].data \in BytesOf(proc[p].from)
    /\ At(p, "opened") => Describes(proc[p].read, proc[p].data, proc[p].sig)
    /\ \A r \in Resources : proc[p].sources[r] # None =>
        proc[p].sources[r].sha = proc[p].sources[r].bytes

Process(p) ==
    Placed(p) /\ Holds(p) /\ Fetched(p) /\ Staged(p) /\ Kept(p) /\ Reader(p)

\* No one reads what is being swapped.
Exclusive == \A e \in Entries : swapping[e] # None => reading[e] = {}

IInv ==
    /\ TypeOK
    /\ proc \in [Processes -> Records]
    /\ Exclusive
    /\ MetadataDescribes
    /\ \A p \in Processes : Process(p)

\* Who holds a lock is at a place of a call where it is held.
LocksHeld ==
    \A e \in Entries, q \in Processes :
        /\ updating[e] = q => proc[q].on = e /\ InUpdate(q)
        /\ swapping[e] = q => proc[q].on = e /\ proc[q].at \in Swaps
        /\ q \in reading[e] => proc[q].from = e /\ proc[q].at \in Reads

\* A process's own part of the invariant.
Mine(p) == proc[p] \in Records /\ Process(p)

\* What a step of p leaves alone of the others': their records, every file but
\* those of the entry p updates, every copy but one p swaps, their locks.
Others(p) ==
    /\ proc' = [proc EXCEPT ![p] = proc'[p]]
    /\ \A e \in Entries : disk'[e] = disk[e] \/ (InUpdate(p) /\ e = proc[p].on)
    /\ \A e \in Entries : Copy(e)' = Copy(e) \/ swapping[e] = p
    /\ \A e \in Entries : \A q \in Processes \ {p} :
        /\ updating[e] = q => updating'[e] = q
        /\ swapping[e] = q => swapping'[e] = q
        /\ q \in reading[e] => q \in reading'[e]
=============================================================================

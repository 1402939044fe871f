-------------------------- MODULE FetchStoreProofs --------------------------
(***************************************************************************)
(* Whatever the resources, versions, keys, processes and the number of     *)
(* calls, the store's metadata describes the files beside it, and a reader *)
(* pairs the files of one copy.                                            *)
(***************************************************************************)
EXTENDS FetchStoreInvariant, TLAPS

\* The places of a call, and the two ways of a swap, by name.
LEMMA Names ==
    /\ "idle" \in Places /\ "lock" \in Places /\ "ask" \in Places /\ "stage" \in Places
    /\ "write" \in Places /\ "check" \in Places /\ "stagesig" \in Places
    /\ "stagemeta" \in Places /\ "swap" \in Places /\ "remove" \in Places
    /\ "data" \in Places /\ "sig" \in Places /\ "meta" \in Places /\ "sources" \in Places
    /\ "readlock" \in Places /\ "readmeta" \in Places /\ "readdata" \in Places
    /\ "readsig" \in Places /\ "opened" \in Places
    /\ "confirm" \in Hows /\ "replace" \in Hows
  BY Zenon DEF Places, Hows

\* The record of a process with no call.
LEMMA IdleRecord ==
    /\ Idle \in Records
    /\ Idle.at = "idle" /\ Idle.on = None /\ Idle.verify = None /\ Idle.current = None
    /\ Idle.doc = None /\ Idle.how = "confirm" /\ Idle.sources = [r \in Resources |-> None]
<1>1. Idle.sources \in Sources
  BY Zenon DEF Idle, Sources
<1>2. Idle \in Records
  BY Zenon, <1>1, Names DEF Idle, Records, Checks, Found
<1> QED
  BY Zenon, <1>2 DEF Idle

\* Two updates are of two entries, and what is read is not swapped, so a step
\* that leaves the others' alone keeps their part of the invariant.
LEMMA OthersKept ==
    ASSUME IInv, NEW p \in Processes, Others(p), NEW q \in Processes, q # p
    PROVE  Mine(q)'
<1> USE StoreAssumption
<1>1. proc'[q] = proc[q] /\ proc[q] \in Records /\ Process(q)
  BY Zenon DEF IInv, Others
<1>2. InUpdate(q) => /\ proc[q].on \in Entries
                     /\ disk'[proc[q].on] = disk[proc[q].on]
                     /\ updating'[proc[q].on] = q
  <2> SUFFICES ASSUME InUpdate(q)
               PROVE  /\ proc[q].on \in Entries
                      /\ disk'[proc[q].on] = disk[proc[q].on]
                      /\ updating'[proc[q].on] = q
    OBVIOUS
  <2>1. proc[q].on \in Entries /\ updating[proc[q].on] = q
    BY Zenon, <1>1 DEF InUpdate, Records, Process, Holds
  <2>2. ~(InUpdate(p) /\ proc[q].on = proc[p].on)
    BY Zenon, <2>1 DEF IInv, Process, Holds
  <2> QED
    BY Zenon, <2>1, <2>2 DEF Others
<1>0. proc[q].at \in {"stage", "write", "check"} \cup Commits => InUpdate(q)
  BY Zenon, <1>1 DEF Process, Placed, InUpdate, At, Entries, Commits, Swaps
<1>3. proc[q].at \in Swaps => swapping'[proc[q].on] = q
  <2>1. proc[q].at \in Swaps => proc[q].on \in Entries /\ swapping[proc[q].on] = q
    BY Zenon, <1>1 DEF Process, Placed, Holds, Commits
  <2> QED
    BY Zenon, <2>1 DEF Others
<1>4. proc[q].at \in Reads => /\ proc[q].from \in Entries
                              /\ q \in reading'[proc[q].from]
                              /\ Copy(proc[q].from)' = Copy(proc[q].from)
  <2> SUFFICES ASSUME proc[q].at \in Reads
               PROVE  /\ proc[q].from \in Entries
                      /\ q \in reading'[proc[q].from]
                      /\ Copy(proc[q].from)' = Copy(proc[q].from)
    OBVIOUS
  <2>1. proc[q].from \in Entries /\ q \in reading[proc[q].from]
    BY Zenon, <1>1 DEF Process, Placed, Holds
  <2>2. swapping[proc[q].from] # p
    BY Zenon, <2>1 DEF IInv, Exclusive
  <2> QED
    BY Zenon, <2>1, <2>2, <1>1 DEF Others
<1>5. Placed(q)'
  BY Zenon, <1>1 DEF Process, Placed, At
<1>6. Holds(q)'
  BY Zenon, <1>1, <1>2, <1>3, <1>4 DEF Process, Holds, InUpdate, At
<1>7. Fetched(q)'
  <2>1. Fetched(q)
    BY Zenon, <1>1 DEF Process
  <2>2. proc[q].at \in {"stage", "write", "check"} => On(q)' = On(q)
    BY Zenon, <1>0, <1>1, <1>2 DEF On
  <2> QED
    BY <1>1, <2>1, <2>2 DEF Fetched, At, BytesOf, MetasOf, Describes, Satisfies
<1>8. Staged(q)'
  <2>1. Staged(q)
    BY Zenon, <1>1 DEF Process
  <2>2. proc[q].at \in {"check"} \cup Commits => On(q)' = On(q)
    BY Zenon, <1>0, <1>1, <1>2 DEF On
  <2> QED
    BY <1>1, <2>1, <2>2 DEF Staged, At, Commits, Swaps, Describes
<1>9. Kept(q)'
  BY Zenon, <1>1, <1>2 DEF Process, Kept, InUpdate, At, On, Copy
<1>10. Reader(q)'
  BY Zenon, <1>1, <1>4 DEF Process, Reader, At, Copy, Reads, Describes, BytesOf, MetasOf
<1> QED
  BY Zenon, <1>1, <1>5, <1>6, <1>7, <1>8, <1>9, <1>10 DEF Mine, Process

\* A step is judged by what it does to its own process and to the whole.
LEMMA Combine ==
    ASSUME IInv, NEW p \in Processes, Others(p), Mine(p)',
           TypeOK', Exclusive', MetadataDescribes'
    PROVE  IInv'
<1>1. \A q \in Processes : Mine(q)'
  BY Zenon, OthersKept
<1>2. proc' \in [Processes -> Records]
  <2>1. proc' = [proc EXCEPT ![p] = proc'[p]] /\ proc \in [Processes -> Records]
    BY Zenon DEF Others, IInv
  <2>2. proc'[p] \in Records
    BY Zenon DEF Mine
  <2> QED
    BY Zenon, <2>1, <2>2
<1> QED
  BY Zenon, <1>1, <1>2 DEF IInv, Mine

\* A step that changes nothing but what its process knows.
LEMMA Thinking ==
    ASSUME IInv, NEW p \in Processes, proc' = [proc EXCEPT ![p] = proc'[p]], Mine(p)',
           left' \in 0 .. Calls, UNCHANGED <<disk, updating, swapping, reading>>
    PROVE  IInv'
<1>1. Others(p)
  BY Zenon DEF Others, Copy
<1>2. \A q \in Processes : proc'[q].at \in Places
  BY Zenon DEF IInv, Mine, Records
<1>3. TypeOK' /\ Exclusive' /\ MetadataDescribes'
  BY Zenon, <1>2 DEF IInv, TypeOK, Exclusive, MetadataDescribes, Describes
<1> QED
  BY Zenon, <1>1, <1>3, Combine

\* A step of an update that leaves the entry's copy as it was.
LEMMA Staging ==
    ASSUME IInv, NEW p \in Processes, proc' = [proc EXCEPT ![p] = proc'[p]], Mine(p)',
           InUpdate(p), proc[p].on \in Entries,
           disk' = [disk EXCEPT ![proc[p].on] = disk'[proc[p].on]],
           disk'[proc[p].on] \in FilesOf(proc[p].on),
           \A e \in Entries : Copy(e)' = Copy(e),
           UNCHANGED <<left, updating, swapping, reading>>
    PROVE  IInv'
<1>1. \A e \in Entries : disk'[e] = disk[e] \/ e = proc[p].on
  BY Zenon DEF IInv, TypeOK
<1>3. Others(p)
  BY Zenon, <1>1 DEF Others
<1>4. \A q \in Processes : proc'[q].at \in Places
  BY Zenon DEF IInv, Mine, Records
<1>5. TypeOK'
  BY Zenon, <1>1, <1>4 DEF IInv, TypeOK
<1>6. MetadataDescribes'
  BY ZenonT(40) DEF IInv, MetadataDescribes, Describes, Copy
<1>7. Exclusive'
  BY Zenon DEF IInv, Exclusive
<1> QED
  BY Zenon, <1>3, <1>5, <1>6, <1>7, Combine

\* A rename of the swap, with the old copy's metadata gone.
LEMMA Swapping ==
    ASSUME IInv, NEW p \in Processes, proc' = [proc EXCEPT ![p] = proc'[p]], Mine(p)',
           InUpdate(p), proc[p].on \in Entries, swapping[proc[p].on] = p,
           disk' = [disk EXCEPT ![proc[p].on] = disk'[proc[p].on]],
           disk'[proc[p].on] \in FilesOf(proc[p].on), disk'[proc[p].on].meta = None,
           UNCHANGED <<left, updating, swapping, reading>>
    PROVE  IInv'
<1>1. \A e \in Entries : disk'[e] = disk[e] \/ e = proc[p].on
  BY Zenon DEF IInv, TypeOK
<1>2. Others(p)
  BY Zenon, <1>1 DEF Others, Copy
<1>3. \A q \in Processes : proc'[q].at \in Places
  BY Zenon DEF IInv, Mine, Records
<1>4. TypeOK'
  BY Zenon, <1>1, <1>3 DEF IInv, TypeOK
<1>5. MetadataDescribes'
  BY Zenon, <1>1 DEF IInv, MetadataDescribes, Describes
<1>6. Exclusive'
  BY Zenon DEF IInv, Exclusive
<1> QED
  BY Zenon, <1>2, <1>4, <1>5, <1>6, Combine

\* The end of a call, whatever it leaves staged or swapped, so long as the
\* metadata describes what is there.
LEMMA Ending ==
    ASSUME IInv, NEW p \in Processes, Ends(p),
           DOMAIN disk' = Entries, \A e \in Entries : disk'[e] \in FilesOf(e),
           \A e \in Entries : disk'[e] = disk[e] \/ (InUpdate(p) /\ e = proc[p].on),
           \A e \in Entries : Copy(e)' = Copy(e) \/ swapping[e] = p,
           MetadataDescribes'
    PROVE  IInv'
<1> USE StoreAssumption
<1>1. proc \in [Processes -> Records] /\ TypeOK /\ Exclusive
  BY Zenon DEF IInv
<1>2. proc'[p] = Idle /\ proc' = [proc EXCEPT ![p] = proc'[p]]
  BY Zenon, <1>1 DEF Ends
<1>3. Idle \in Records
  BY Zenon, IdleRecord
<1>4. Mine(p)'
  <2>1. Placed(p)' /\ Holds(p)' /\ Kept(p)'
    BY Zenon, <1>2, IdleRecord DEF Placed, Holds, Kept, InUpdate, At, Commits, Swaps, Reads, Entries
  <2>2. Fetched(p)' /\ Staged(p)'
    BY Zenon, <1>2, IdleRecord DEF Fetched, Staged, At, Commits, Swaps
  <2>3. Reader(p)'
    BY Zenon, <1>2, IdleRecord DEF Reader, At
  <2> QED
    BY Zenon, <1>2, <1>3, <2>1, <2>2, <2>3 DEF Mine, Process
<1>5. Others(p)
  BY <1>1, <1>2 DEF Others, Ends, TypeOK
<1>6. TypeOK'
  <2>1. \A q \in Processes : proc'[q].at \in Places
    BY Zenon, <1>1, <1>2, <1>3 DEF Records
  <2> QED
    BY Zenon, <2>1, <1>1 DEF TypeOK, Ends
<1>7. Exclusive'
  BY Zenon, <1>1 DEF Exclusive, Ends, TypeOK
<1> QED
  BY Zenon, <1>4, <1>5, <1>6, <1>7, Combine

\* A call ends, or its process dies, with the files as they are.
LEMMA EndingAsItIs ==
    ASSUME IInv, NEW p \in Processes, Ends(p), disk' = disk
    PROVE  IInv'
<1>1. DOMAIN disk' = Entries /\ \A e \in Entries : disk'[e] \in FilesOf(e)
  BY Zenon DEF IInv, TypeOK
<1>2. MetadataDescribes' /\ \A e \in Entries : Copy(e)' = Copy(e)
  BY Zenon DEF IInv, MetadataDescribes, Describes, Copy
<1> QED
  BY Zenon, <1>1, <1>2, Ending

\* What is staged is no part of an entry's copy.
LEMMA CopyKept ==
    ASSUME DOMAIN disk = Entries, NEW e \in Entries,
           disk' = [disk EXCEPT ![e] = disk'[e]],
           disk'[e].data = disk[e].data, disk'[e].sig = disk[e].sig, disk'[e].meta = disk[e].meta
    PROVE  \A f \in Entries : Copy(f)' = Copy(f)
  BY Zenon DEF Copy

\* Discarding what is staged leaves the copy as it was.
LEMMA Discarding ==
    ASSUME TypeOK, NEW e \in Entries, disk' = Discarded(e)
    PROVE  /\ disk' = [disk EXCEPT ![e] = disk'[e]]
           /\ disk'[e] \in FilesOf(e)
           /\ \A f \in Entries : Copy(f)' = Copy(f)
<1>1. DOMAIN disk = Entries /\ disk[e] \in FilesOf(e)
  BY Zenon DEF TypeOK
<1>2. /\ disk' = [disk EXCEPT ![e] = disk'[e]]
      /\ disk'[e] = [disk[e] EXCEPT !.staged = None, !.stagedSig = None]
  BY <1>1, Zenon DEF Discarded
<1>3. disk'[e] \in FilesOf(e)
  BY <1>1, <1>2, Zenon DEF FilesOf
<1>4. disk'[e].data = disk[e].data /\ disk'[e].sig = disk[e].sig /\ disk'[e].meta = disk[e].meta
  BY Zenon, <1>1, <1>2 DEF FilesOf
<1> QED
  BY <1>1, <1>2, <1>3, <1>4, CopyKept, Zenon

\* Nor is the metadata a part of it that stage_file could not write whole.
LEMMA Unwriting ==
    ASSUME TypeOK, NEW e \in Entries, NEW kept, kept = disk \/ kept = Discarded(e),
           disk' = [kept EXCEPT ![e].stagedMeta = None]
    PROVE  /\ disk' = [disk EXCEPT ![e] = disk'[e]]
           /\ disk'[e] \in FilesOf(e)
           /\ \A f \in Entries : Copy(f)' = Copy(f)
<1>1. DOMAIN disk = Entries /\ disk[e] \in FilesOf(e)
  BY Zenon DEF TypeOK
<1>2. \/ kept[e] = disk[e]
      \/ kept[e] = [disk[e] EXCEPT !.staged = None, !.stagedSig = None]
  BY <1>1, Zenon DEF Discarded
<1>4. /\ disk' = [disk EXCEPT ![e] = disk'[e]]
      /\ disk'[e] = [kept[e] EXCEPT !.stagedMeta = None]
  <2>1. CASE kept = disk
    BY <1>1, <2>1, Zenon
  <2>2. CASE kept = Discarded(e)
    BY <1>1, <2>2, Zenon DEF Discarded
  <2> QED
    BY <2>1, <2>2
<1>5. /\ kept[e] \in FilesOf(e)
      /\ kept[e].data = disk[e].data /\ kept[e].sig = disk[e].sig /\ kept[e].meta = disk[e].meta
  BY <1>1, <1>2, Zenon DEF FilesOf
<1>3. \A r \in FilesOf(e) :
        LET s == [r EXCEPT !.stagedMeta = None]
        IN  s \in FilesOf(e) /\ s.data = r.data /\ s.sig = r.sig /\ s.meta = r.meta
  BY SMT DEF FilesOf
<1>6. /\ disk'[e] \in FilesOf(e)
      /\ disk'[e].data = disk[e].data /\ disk'[e].sig = disk[e].sig /\ disk'[e].meta = disk[e].meta
  BY Zenon, <1>3, <1>4, <1>5
<1> QED
  BY <1>1, <1>4, <1>6, CopyKept, Zenon
-----------------------------------------------------------------------------
(* From a call's beginning to the check of what was fetched.               *)

\* A call begins.
LEMMA Beginning ==
    ASSUME IInv, NEW p \in Processes, NEW r \in Records, Begins(p, r),
           r.at \in {"lock", "readlock"}, r.doc = None, r.how = "confirm",
           r.sources = [s \in Resources |-> None],
           r.at = "lock" => r.on \in Entries /\ (r.on = Made => r.verify = None /\ r.current = None),
           r.at = "readlock" => r.on = None /\ r.from \in Entries
    PROVE  IInv'
<1> USE StoreAssumption
<1>1. proc \in [Processes -> Records]
  BY Zenon DEF IInv
<1>2. proc'[p] = r /\ proc' = [proc EXCEPT ![p] = proc'[p]]
  BY Zenon, <1>1 DEF Begins
<1>3. Mine(p)'
  <2>1. Placed(p)' /\ Holds(p)' /\ Kept(p)'
    BY Zenon, <1>2 DEF Placed, Holds, Kept, InUpdate, At, Commits, Swaps, Reads, Entries
  <2>2. Fetched(p)' /\ Staged(p)'
    BY Zenon, <1>2 DEF Fetched, Staged, At, Commits, Swaps
  <2>3. Reader(p)'
    BY Zenon, <1>2 DEF Reader, At
  <2> QED
    BY Zenon, <1>2, <2>1, <2>2, <2>3 DEF Mine, Process
<1>4. left' \in 0 .. Calls
  BY DEF IInv, TypeOK, Begins
<1> QED
  BY <1>2, <1>3, <1>4, Thinking, Zenon DEF Begins

\* A fetch, a derivation or a read begins.
LEMMA Calling ==
    ASSUME IInv, NEW p \in Processes, Fetch(p) \/ Derive(p) \/ Open(p)
    PROVE  IInv'
<1> USE StoreAssumption
<1>1. Idle \in Records
  BY Zenon, IdleRecord
<1>2. ASSUME NEW e \in Resources, NEW verify \in Checks,
             Begins(p, [Idle EXCEPT !.at = "lock", !.on = e, !.verify = verify])
      PROVE  IInv'
  <2> DEFINE r == [Idle EXCEPT !.at = "lock", !.on = e, !.verify = verify]
  <2>1. r \in Records
    BY <1>1, Names, Zenon DEF Records, Entries
  <2>2. /\ r.at = "lock" /\ r.on = e /\ r.doc = None /\ r.how = "confirm" /\ r.on # Made
        /\ r.sources = [s \in Resources |-> None]
    BY Zenon DEF Idle
  <2> HIDE DEF r
  <2> QED
    BY <1>2, <2>1, <2>2, Beginning, Zenon DEF Entries, r
<1>3. ASSUME Derive(p) PROVE IInv'
  <2> DEFINE r == [Idle EXCEPT !.at = "lock", !.on = Made]
  <2>1. r \in Records
    BY <1>1, Names, Zenon DEF Records, Entries
  <2>2. /\ r.at = "lock" /\ r.on = Made /\ r.doc = None /\ r.how = "confirm"
        /\ r.verify = None /\ r.current = None
        /\ r.sources = [s \in Resources |-> None]
    BY Zenon DEF Idle
  <2>3. Begins(p, r)
    BY Zenon, <1>3 DEF Derive
  <2> HIDE DEF r
  <2> QED
    BY Zenon, <2>1, <2>2, <2>3, Beginning DEF Entries
<1>4. ASSUME NEW e \in Entries, Begins(p, [Idle EXCEPT !.at = "readlock", !.from = e])
      PROVE  IInv'
  <2> DEFINE r == [Idle EXCEPT !.at = "readlock", !.from = e]
  <2>1. r \in Records
    BY <1>1, Names, Zenon DEF Records
  <2>2. /\ r.at = "readlock" /\ r.on = None /\ r.from = e /\ r.doc = None /\ r.how = "confirm"
        /\ r.sources = [s \in Resources |-> None]
    BY Zenon DEF Idle
  <2> HIDE DEF r
  <2> QED
    BY <1>4, <2>1, <2>2, Beginning, Zenon DEF r
<1> QED
  BY <1>2, <1>3, <1>4, Zenon DEF Fetch, Open

\* The update lock is taken.
LEMMA LockingForUpdate ==
    ASSUME IInv, NEW p \in Processes, LockForUpdate(p)
    PROVE  IInv'
<1> USE StoreAssumption
<1>1. proc \in [Processes -> Records] /\ TypeOK /\ Process(p)
  BY Zenon DEF IInv
<1>2. proc[p].on \in Entries /\ proc[p].doc = None /\ proc[p].how = "confirm"
  BY Zenon, <1>1 DEF LockForUpdate, Process, Placed, Fetched, At, Commits, Swaps
<1>3. /\ proc'[p] = [proc[p] EXCEPT !.at = IF proc[p].on = Made THEN "sources" ELSE "ask",
                                    !.before = Copy(proc[p].on)]
      /\ proc' = [proc EXCEPT ![p] = proc'[p]]
  BY <1>1, Zenon DEF LockForUpdate
<1>4. Copy(proc[p].on) \in Found
  BY <1>1, <1>2 DEF TypeOK, FilesOf, MetasOf, BytesOf, Copy, Found, Metas, Copies
<1>5. proc'[p] \in Records
  <2> DEFINE a == IF proc[p].on = Made THEN "sources" ELSE "ask"
             c == Copy(proc[p].on)
  <2>1. ASSUME NEW s \in Records, NEW b \in Places PROVE [s EXCEPT !.at = b] \in Records
    BY Zenon DEF Records
  <2>2. ASSUME NEW s \in Records, NEW d \in Found PROVE [s EXCEPT !.before = d] \in Records
    BY Zenon DEF Records
  <2>3. a \in Places /\ c \in Found /\ proc[p] \in Records
    BY Zenon, <1>1, <1>4, Names
  <2>4. [[proc[p] EXCEPT !.at = a] EXCEPT !.before = c] \in Records
    BY <2>1, <2>2, <2>3, Zenon
  <2>5. [[proc[p] EXCEPT !.at = a] EXCEPT !.before = c] = [proc[p] EXCEPT !.at = a, !.before = c]
    OBVIOUS
  <2>6. proc'[p] = [proc[p] EXCEPT !.at = a, !.before = c]
    BY Zenon, <1>3
  <2> QED
    BY <2>4, <2>5, <2>6, Zenon
<1>6. /\ proc'[p].at = IF proc[p].on = Made THEN "sources" ELSE "ask"
      /\ proc'[p].on = proc[p].on /\ proc'[p].doc = None /\ proc'[p].how = "confirm"
      /\ proc'[p].verify = proc[p].verify /\ proc'[p].current = proc[p].current
      /\ proc'[p].sources = proc[p].sources /\ proc'[p].before = Copy(proc[p].on)
  BY <1>1, <1>2, <1>3 DEF Records
<1>7. updating'[proc[p].on] = p /\ disk' = disk
  BY Zenon, <1>1, <1>2 DEF LockForUpdate, TypeOK
<1>8. Mine(p)'
  <2>1. Placed(p)' /\ Holds(p)'
    BY Zenon, <1>1, <1>2, <1>6, <1>7
    DEF Process, Placed, Holds, InUpdate, At, Commits, Swaps, Reads, Entries
  <2>2. Kept(p)'
    BY Zenon, <1>6, <1>7 DEF Kept, Copy
  <2>3. Fetched(p)' /\ Staged(p)'
    BY Zenon, <1>6 DEF Fetched, Staged, At, Commits, Swaps
  <2>4. Reader(p)'
    BY Zenon, <1>1, <1>6 DEF Process, Reader, At
  <2> QED
    BY Zenon, <1>5, <2>1, <2>2, <2>3, <2>4 DEF Mine, Process
<1>9. Others(p)
  BY <1>1, <1>3, <1>7 DEF Others, LockForUpdate, Copy, TypeOK
<1>10. \A q \in Processes : proc'[q].at \in Places
  BY <1>1, <1>3, <1>5, Zenon DEF Records
<1>11. TypeOK' /\ Exclusive' /\ MetadataDescribes'
  BY Zenon, <1>1, <1>2, <1>10
  DEF IInv, TypeOK, Exclusive, MetadataDescribes, Describes, LockForUpdate
<1> QED
  BY Zenon, <1>8, <1>9, <1>11, Combine

\* The server is asked: the copy there is stays, or other bytes come.
LEMMA Asking ==
    ASSUME IInv, NEW p \in Processes, Ask(p)
    PROVE  IInv'
<1> USE StoreAssumption
<1>1. proc \in [Processes -> Records] /\ TypeOK /\ Process(p) /\ MetadataDescribes
  BY Zenon DEF IInv
<1>2. /\ proc[p].on \in Resources /\ proc[p].on \in Entries /\ InUpdate(p)
      /\ proc[p].doc = None /\ proc[p].how = "confirm" /\ proc[p].on # Made
  BY <1>1, Zenon DEF Ask, Process, Placed, Fetched, InUpdate, At, Commits, Swaps, Entries
<1>3. /\ Current(p) \in {None} \cup MetasOf(proc[p].on)
      /\ Current(p) \in {None} \cup Metas
      /\ Current(p) # None => /\ Current(p) = On(p).meta
                              /\ Satisfies(Current(p), proc[p].verify)
                              /\ Describes(Current(p), On(p).data, On(p).sig)
  <2>1. On(p).meta \in {None} \cup MetasOf(proc[p].on)
    BY Zenon, <1>1, <1>2 DEF TypeOK, FilesOf, On
  <2>2. MetasOf(proc[p].on) \subseteq Metas
    BY Zenon, <1>2 DEF MetasOf, BytesOf, Metas, Copies
  <2>3. On(p).meta # None => Describes(On(p).meta, On(p).data, On(p).sig)
    BY Zenon, <1>1, <1>2 DEF MetadataDescribes, On
  <2> QED
    BY Zenon, <2>1, <2>2, <2>3 DEF Current
<1>4. UNCHANGED <<disk, updating, swapping, reading, left>>
  BY Zenon DEF Ask, Locks
<1>5. ASSUME Current(p) # None,
             proc' = [proc EXCEPT ![p].at = "stagemeta", ![p].meta = Current(p)]
      PROVE  IInv'
  <2>1. /\ proc'[p] = [proc[p] EXCEPT !.at = "stagemeta", !.meta = Current(p)]
        /\ proc' = [proc EXCEPT ![p] = proc'[p]]
    BY <1>1, <1>5, Zenon
  <2>2. proc'[p] \in Records
    BY <1>1, <1>3, <2>1, Names, Zenon DEF Records
  <2>3. /\ proc'[p].at = "stagemeta" /\ proc'[p].on = proc[p].on /\ proc'[p].meta = Current(p)
        /\ proc'[p].doc = None /\ proc'[p].how = "confirm" /\ proc'[p].verify = proc[p].verify
        /\ proc'[p].sources = proc[p].sources /\ proc'[p].before = proc[p].before
    BY <1>1, <1>2, <2>1 DEF Records
  <2>4. Placed(p)' /\ Holds(p)' /\ Kept(p)'
    BY Zenon, <1>1, <1>2, <1>4, <2>3
       DEF Process, Placed, Holds, Kept, InUpdate, At, On, Copy, Commits, Swaps, Reads, Entries
  <2>5. Fetched(p)' /\ Staged(p)'
    BY <1>2, <1>3, <1>4, <1>5, <2>3, Zenon
    DEF Fetched, Staged, At, On, Commits, Swaps, Describes, Satisfies, MetasOf, BytesOf
  <2>6. Reader(p)'
    BY Zenon, <1>1, <2>3 DEF Process, Reader, At
  <2> QED
    BY Zenon, <1>1, <1>4, <2>1, <2>2, <2>4, <2>5, <2>6, Thinking DEF Mine, Process, TypeOK
<1>6. ASSUME NEW v \in Versions,
             proc' = [proc EXCEPT ![p].at = "stage", ![p].copy = v, ![p].current = Current(p)]
      PROVE  IInv'
  <2>1. /\ proc'[p] = [proc[p] EXCEPT !.at = "stage", !.copy = v, !.current = Current(p)]
        /\ proc' = [proc EXCEPT ![p] = proc'[p]]
    BY <1>1, <1>6, Zenon
  <2>2. proc'[p] \in Records
    BY <1>1, <1>3, <2>1, Names, Zenon DEF Records, Copies
  <2>3. /\ proc'[p].at = "stage" /\ proc'[p].on = proc[p].on /\ proc'[p].copy = v
        /\ proc'[p].current = Current(p)
        /\ proc'[p].doc = None /\ proc'[p].how = "confirm" /\ proc'[p].verify = proc[p].verify
        /\ proc'[p].sources = proc[p].sources /\ proc'[p].before = proc[p].before
    BY <1>1, <1>2, <2>1 DEF Records
  <2>4. Placed(p)' /\ Holds(p)' /\ Kept(p)'
    BY Zenon, <1>1, <1>2, <1>4, <2>3
       DEF Process, Placed, Holds, Kept, InUpdate, At, On, Copy, Commits, Swaps, Reads, Entries
  <2>5. Fetched(p)' /\ Staged(p)'
    BY Zenon, <1>2, <1>3, <1>4, <2>3 DEF Fetched, Staged, At, On, Commits, Swaps, Satisfies, BytesOf
  <2>6. Reader(p)'
    BY Zenon, <1>1, <2>3 DEF Process, Reader, At
  <2> QED
    BY Zenon, <1>1, <1>4, <2>1, <2>2, <2>4, <2>5, <2>6, Thinking DEF Mine, Process, TypeOK
<1> QED
  BY <1>5, <1>6, Zenon DEF Ask

\* A partial file is opened.
LEMMA StagingData ==
    ASSUME IInv, NEW p \in Processes, Stage(p)
    PROVE  IInv'
<1> USE StoreAssumption
<1>1. proc \in [Processes -> Records] /\ TypeOK /\ Process(p)
  BY Zenon DEF IInv
<1>2. proc[p].at = "stage" /\ proc[p].on \in Entries /\ InUpdate(p)
  BY Zenon, <1>1 DEF Stage, Process, Placed, InUpdate, At
<1>3. proc'[p] = [proc[p] EXCEPT !.at = "write"] /\ proc' = [proc EXCEPT ![p] = proc'[p]]
  BY Zenon, <1>1 DEF Stage, Goes
<1>4. proc'[p] \in Records /\ proc'[p].at = "write"
  BY <1>1, <1>3, Names DEF Records
<1>5. /\ proc'[p].on = proc[p].on /\ proc'[p].verify = proc[p].verify
      /\ proc'[p].current = proc[p].current /\ proc'[p].copy = proc[p].copy
      /\ proc'[p].doc = proc[p].doc /\ proc'[p].meta = proc[p].meta
      /\ proc'[p].how = proc[p].how /\ proc'[p].sources = proc[p].sources
      /\ proc'[p].before = proc[p].before
  BY <1>1, <1>3 DEF Records
<1>6. /\ disk' = [disk EXCEPT ![proc[p].on] = disk'[proc[p].on]]
      /\ disk'[proc[p].on] = [disk[proc[p].on] EXCEPT !.staged = Torn]
  BY <1>1, <1>2, Zenon DEF Stage, TypeOK
<1>7. /\ disk'[proc[p].on] \in FilesOf(proc[p].on)
      /\ \A e \in Entries : Copy(e)' = Copy(e)
  <2>1. disk[proc[p].on] \in FilesOf(proc[p].on)
    BY Zenon, <1>1, <1>2 DEF TypeOK
  <2>2. disk'[proc[p].on] \in FilesOf(proc[p].on)
    BY Zenon, <1>6, <2>1 DEF FilesOf
  <2>3. /\ disk'[proc[p].on].data = disk[proc[p].on].data
        /\ disk'[proc[p].on].sig = disk[proc[p].on].sig
        /\ disk'[proc[p].on].meta = disk[proc[p].on].meta
    BY Zenon, <1>6, <2>1 DEF FilesOf
  <2> QED
    BY <1>1, <1>2, <1>6, <2>2, <2>3, CopyKept, Zenon DEF TypeOK
<1>8. UNCHANGED <<left, updating, swapping, reading>>
  BY Zenon DEF Stage, Locks
<1>9. Mine(p)'
  <2>1. Placed(p)' /\ Holds(p)'
    BY Zenon, <1>1, <1>2, <1>4, <1>5, <1>8
       DEF Process, Placed, Holds, InUpdate, At, Commits, Swaps, Reads
  <2>2. Kept(p)'
    BY Zenon, <1>1, <1>2, <1>4, <1>5, <1>7 DEF Process, Kept, InUpdate, At
  <2>3. On(p)'.meta = On(p).meta
    BY <1>2, <1>5, <1>7, Zenon DEF On, Copy
  <2>4. Fetched(p)' /\ Staged(p)'
    BY ZenonT(40), <1>1, <1>2, <1>4, <1>5, <2>3
       DEF Process, Fetched, Staged, At, Commits, Swaps, BytesOf, MetasOf, Describes, Satisfies
  <2>5. Reader(p)'
    BY Zenon, <1>1, <1>4, <1>5 DEF Process, Reader, At
  <2> QED
    BY Zenon, <1>4, <2>1, <2>2, <2>4, <2>5 DEF Mine, Process
<1> QED
  BY Zenon, <1>2, <1>3, <1>6, <1>7, <1>8, <1>9, Staging

\* The bytes are written.
LEMMA Writing ==
    ASSUME IInv, NEW p \in Processes, Write(p)
    PROVE  IInv'
<1> USE StoreAssumption
<1>1. proc \in [Processes -> Records] /\ TypeOK /\ Process(p)
  BY Zenon DEF IInv
<1>2. /\ proc[p].at = "write" /\ proc[p].on \in Entries /\ InUpdate(p)
      /\ proc[p].copy \in BytesOf(proc[p].on) /\ proc[p].doc = None /\ proc[p].how = "confirm"
  BY Zenon, <1>1 DEF Write, Process, Placed, Fetched, InUpdate, At, Commits, Swaps
<1>3. /\ disk' = [disk EXCEPT ![proc[p].on] = disk'[proc[p].on]]
      /\ disk'[proc[p].on] = [disk[proc[p].on] EXCEPT !.staged = proc[p].copy]
  BY <1>1, <1>2, Zenon DEF Write, TypeOK
<1>4. /\ disk'[proc[p].on] \in FilesOf(proc[p].on)
      /\ disk'[proc[p].on].staged = proc[p].copy
      /\ \A e \in Entries : Copy(e)' = Copy(e)
  <2>1. disk[proc[p].on] \in FilesOf(proc[p].on)
    BY Zenon, <1>1, <1>2 DEF TypeOK
  <2>2. disk'[proc[p].on] \in FilesOf(proc[p].on) /\ disk'[proc[p].on].staged = proc[p].copy
    BY Zenon, <1>2, <1>3, <2>1 DEF FilesOf
  <2>3. /\ disk'[proc[p].on].data = disk[proc[p].on].data
        /\ disk'[proc[p].on].sig = disk[proc[p].on].sig
        /\ disk'[proc[p].on].meta = disk[proc[p].on].meta
    BY Zenon, <1>3, <2>1 DEF FilesOf
  <2> QED
    BY <1>1, <1>2, <1>3, <2>2, <2>3, CopyKept, Zenon DEF TypeOK
<1>5. UNCHANGED <<left, updating, swapping, reading>>
  BY Zenon DEF Write, Locks
<1>6. CASE proc[p].on = Made
  <2>1. /\ proc'[p] = [proc[p] EXCEPT !.at = "stagemeta", !.how = "replace"]
        /\ proc' = [proc EXCEPT ![p] = proc'[p]]
    BY <1>1, <1>6, Zenon DEF Write
  <2>2. proc'[p] \in Records
    <3>1. ASSUME NEW r \in Records, NEW a \in Places, NEW h \in Hows
          PROVE  [r EXCEPT !.at = a, !.how = h] \in Records
      BY Zenon DEF Records
    <3>2. proc[p] \in Records
      BY Zenon, <1>1
    <3>3. [proc[p] EXCEPT !.at = "stagemeta", !.how = "replace"] \in Records
      BY <3>1, <3>2, Names, Zenon
    <3> QED
      BY <2>1, <3>3, Zenon
  <2>8. proc'[p].at = "stagemeta" /\ proc'[p].how = "replace"
    BY <1>1, <2>1 DEF Records
  <2>3. /\ proc'[p].on = proc[p].on /\ proc'[p].verify = proc[p].verify
        /\ proc'[p].current = proc[p].current /\ proc'[p].copy = proc[p].copy
        /\ proc'[p].doc = proc[p].doc /\ proc'[p].meta = proc[p].meta
        /\ proc'[p].sources = proc[p].sources /\ proc'[p].before = proc[p].before
    BY <1>1, <2>1 DEF Records
  <2>4. Placed(p)' /\ Holds(p)'
    BY Zenon, <1>1, <1>2, <1>5, <1>6, <2>2, <2>3, <2>8
       DEF Process, Placed, Holds, InUpdate, At, Commits, Swaps, Reads
  <2>5. Kept(p)'
    BY Zenon, <1>1, <1>2, <1>4, <2>2, <2>3, <2>8 DEF Process, Kept, InUpdate, At
  <2>6. Fetched(p)' /\ Staged(p)'
    BY <1>1, <1>2, <1>4, <1>6, <2>2, <2>3, <2>8, Zenon
       DEF Process, Placed, Fetched, Staged, At, On, Commits, Swaps, BytesOf, MetasOf, Describes, Satisfies
  <2>7. Reader(p)'
    BY <1>1, <2>2, <2>3, <2>8, Zenon DEF Process, Reader, At
  <2> QED
    BY Zenon, <1>2, <1>3, <1>4, <1>5, <2>1, <2>2, <2>4, <2>5, <2>6, <2>7, Staging DEF Mine, Process
<1>7. CASE proc[p].on # Made
  <2>1. proc'[p] = [proc[p] EXCEPT !.at = "check"] /\ proc' = [proc EXCEPT ![p] = proc'[p]]
    BY Zenon, <1>1, <1>7 DEF Write, Goes
  <2>2. proc'[p] \in Records /\ proc'[p].at = "check"
    BY <1>1, <2>1, Names DEF Records
  <2>3. /\ proc'[p].on = proc[p].on /\ proc'[p].verify = proc[p].verify
        /\ proc'[p].current = proc[p].current /\ proc'[p].copy = proc[p].copy
        /\ proc'[p].doc = proc[p].doc /\ proc'[p].how = proc[p].how
        /\ proc'[p].sources = proc[p].sources /\ proc'[p].before = proc[p].before
    BY <1>1, <2>1 DEF Records
  <2>4. Placed(p)' /\ Holds(p)'
    BY Zenon, <1>1, <1>2, <1>5, <1>7, <2>2, <2>3
       DEF Process, Placed, Holds, InUpdate, At, Commits, Swaps, Reads, Entries
  <2>5. Kept(p)'
    BY Zenon, <1>1, <1>2, <1>4, <2>2, <2>3 DEF Process, Kept, InUpdate, At
  <2>6. On(p)'.meta = On(p).meta
    BY <1>2, <1>4, <2>3, Zenon DEF On, Copy
  <2>7. Fetched(p)' /\ Staged(p)'
    BY <1>1, <1>2, <1>4, <2>2, <2>3, <2>6, Zenon
       DEF Process, Fetched, Staged, At, On, Commits, Swaps, BytesOf, Satisfies
  <2>8. Reader(p)'
    BY Zenon, <1>1, <2>2, <2>3 DEF Process, Reader, At
  <2> QED
    BY Zenon, <1>2, <1>3, <1>4, <1>5, <2>1, <2>2, <2>4, <2>5, <2>7, <2>8, Staging DEF Mine, Process
<1> QED
  BY Zenon, <1>6, <1>7

\* A record stays one when a check decides what is to be stored.
LEMMA Rewritten ==
    ASSUME NEW r \in Records, NEW a \in Places, NEW x \in {None} \cup Metas,
           NEW d \in {None} \cup Sigs, NEW h \in Hows
    PROVE  [r EXCEPT !.at = a, !.meta = x, !.doc = d, !.how = h] \in Records
<1>1. [r EXCEPT !.at = a, !.meta = x] \in Records
  BY Zenon DEF Records
<1>2. ASSUME NEW s \in Records PROVE [s EXCEPT !.doc = d] \in Records
  BY DEF Records
<1>3. ASSUME NEW s \in Records PROVE [s EXCEPT !.how = h] \in Records
  BY DEF Records
<1>4. [[[r EXCEPT !.at = a, !.meta = x] EXCEPT !.doc = d] EXCEPT !.how = h] \in Records
  BY <1>1, <1>2, <1>3, Zenon
<1>5. [[[r EXCEPT !.at = a, !.meta = x] EXCEPT !.doc = d] EXCEPT !.how = h] =
        [r EXCEPT !.at = a, !.meta = x, !.doc = d, !.how = h]
  OBVIOUS
<1> QED
  BY <1>4, <1>5, Zenon

\* A check passed.
LEMMA Checking ==
    ASSUME IInv, NEW p \in Processes, Check(p)
    PROVE  IInv'
<1> USE StoreAssumption
<1> DEFINE m == [sha |-> proc[p].copy, verified |-> Verified(p), sources |-> None]
           same == proc[p].current # None /\ proc[p].current.sha = proc[p].copy
<1>1. proc \in [Processes -> Records] /\ TypeOK /\ Process(p) /\ MetadataDescribes
  BY Zenon DEF IInv
<1>2. /\ proc[p].at = "check" /\ proc[p].on \in Resources /\ proc[p].on \in Entries
      /\ proc[p].on # Made /\ InUpdate(p) /\ proc[p].copy \in Versions
      /\ proc[p].verify \in Checks
  BY Zenon, <1>1
  DEF Check, Process, Placed, Fetched, InUpdate, At, Commits, Swaps, BytesOf, Entries, Records
<1>3. PICK doc \in {None} \cup (Versions \X Keys) :
        /\ Passes(p, doc)
        /\ proc' = [proc EXCEPT ![p].at = IF same \/ doc = None THEN "stagemeta" ELSE "stagesig",
                                ![p].meta = m,
                                ![p].doc = IF same THEN None ELSE doc,
                                ![p].how = IF same THEN "confirm" ELSE "replace"]
  BY Zenon DEF Check
<1>4. UNCHANGED <<left, updating, swapping, reading>>
  BY Zenon DEF Check, Locks
<1>5. /\ m \in MetasOf(proc[p].on) /\ m \in {None} \cup Metas
      /\ m.sha = proc[p].copy /\ m.verified = Verified(p) /\ m.sources = None
  BY Zenon, <1>2 DEF MetasOf, Metas, BytesOf, Copies, Verified
<1>6. Satisfies(m, proc[p].verify)
  BY Zenon, <1>2, <1>3, <1>5 DEF Satisfies, Passes, Verified, Checks
<1>7. ASSUME NEW a \in Places, NEW d \in {None} \cup Sigs, NEW h \in Hows
      PROVE  [proc[p] EXCEPT !.at = a, !.meta = m, !.doc = d, !.how = h] \in Records
  <2>1. proc[p] \in Records
    BY Zenon, <1>1
  <2> QED
    BY <1>5, <2>1, Rewritten, Zenon
<1> HIDE DEF m
<1>8. CASE same
  <2>1. disk' = Discarded(proc[p].on)
    BY Zenon, <1>8 DEF Check
  <2>2. /\ disk' = [disk EXCEPT ![proc[p].on] = disk'[proc[p].on]]
        /\ disk'[proc[p].on] \in FilesOf(proc[p].on)
        /\ \A e \in Entries : Copy(e)' = Copy(e)
    BY Zenon, <1>1, <1>2, <2>1, Discarding
  <2>3. /\ proc'[p] = [proc[p] EXCEPT !.at = "stagemeta", !.meta = m, !.doc = None, !.how = "confirm"]
        /\ proc' = [proc EXCEPT ![p] = proc'[p]]
    BY <1>1, <1>3, <1>8, Zenon
  <2>4. proc'[p] \in Records
    <3>1. [proc[p] EXCEPT !.at = "stagemeta", !.meta = m, !.doc = None, !.how = "confirm"] \in Records
      BY <1>5, <1>7, Names, Zenon
    <3> QED
      BY <2>3, <3>1, Zenon
  <2>5. /\ proc'[p].at = "stagemeta" /\ proc'[p].meta = m /\ proc'[p].doc = None
        /\ proc'[p].how = "confirm" /\ proc'[p].on = proc[p].on
        /\ proc'[p].verify = proc[p].verify /\ proc'[p].current = proc[p].current
        /\ proc'[p].sources = proc[p].sources /\ proc'[p].before = proc[p].before
    BY <1>1, <2>3 DEF Records
  <2>6. Describes(m, On(p).data, On(p).sig)
    <3>1. proc[p].current = On(p).meta /\ Satisfies(proc[p].current, proc[p].verify)
      BY Zenon, <1>1, <1>2, <1>8 DEF Process, Fetched
    <3>2. Describes(proc[p].current, On(p).data, On(p).sig)
      BY Zenon, <1>1, <1>2, <1>8, <3>1 DEF MetadataDescribes, On
    <3>3. proc[p].verify \in Keys => proc[p].current.verified = proc[p].verify
      BY Zenon, <3>1 DEF Satisfies
    <3> QED
      BY Zenon, <1>5, <1>8, <3>2, <3>3 DEF Describes, Verified
  <2>7. On(p)'.data = On(p).data /\ On(p)'.sig = On(p).sig
    <3>1. disk'[proc[p].on].data = disk[proc[p].on].data /\ disk'[proc[p].on].sig = disk[proc[p].on].sig
      BY <1>2, <2>2, Zenon DEF Copy
    <3> QED
      BY Zenon, <2>5, <3>1 DEF On
  <2>8. Placed(p)' /\ Holds(p)'
    BY Zenon, <1>1, <1>2, <1>4, <2>5
       DEF Process, Placed, Holds, InUpdate, At, Commits, Swaps, Reads
  <2>9. Kept(p)'
    BY Zenon, <1>1, <1>2, <2>2, <2>5 DEF Process, Kept, InUpdate, At
  <2>10. Fetched(p)' /\ Staged(p)'
    BY Zenon, <1>2, <1>5, <1>6, <2>5, <2>6, <2>7
       DEF Fetched, Staged, At, Commits, Swaps, BytesOf, MetasOf, Describes, Satisfies
  <2>11. Reader(p)'
    BY Zenon, <1>1, <2>5 DEF Process, Reader, At
  <2> QED
    BY Zenon, <1>2, <1>4, <2>2, <2>3, <2>4, <2>8, <2>9, <2>10, <2>11, Staging DEF Mine, Process
<1>9. CASE ~same
  <2> DEFINE a == IF doc = None THEN "stagemeta" ELSE "stagesig"
  <2>1. disk' = disk
    BY Zenon, <1>9 DEF Check
  <2>2. /\ proc'[p] = [proc[p] EXCEPT !.at = a, !.meta = m, !.doc = doc, !.how = "replace"]
        /\ proc' = [proc EXCEPT ![p] = proc'[p]]
    BY <1>1, <1>3, <1>9, Zenon
  <2>3. a \in Places /\ (a = "stagesig" \/ (a = "stagemeta" /\ doc = None))
    BY Zenon, Names
  <2> HIDE DEF a
  <2>4. proc'[p] \in Records
    <3>1. doc \in {None} \cup Sigs
      BY Zenon DEF Sigs
    <3>2. [proc[p] EXCEPT !.at = a, !.meta = m, !.doc = doc, !.how = "replace"] \in Records
      BY <1>5, <1>7, <2>3, <3>1, Names, Zenon
    <3> QED
      BY <2>2, <3>2, Zenon
  <2>5. /\ proc'[p].at = a /\ proc'[p].meta = m /\ proc'[p].doc = doc
        /\ proc'[p].how = "replace" /\ proc'[p].on = proc[p].on /\ proc'[p].copy = proc[p].copy
        /\ proc'[p].verify = proc[p].verify /\ proc'[p].current = proc[p].current
        /\ proc'[p].sources = proc[p].sources /\ proc'[p].before = proc[p].before
    BY <1>1, <2>2 DEF Records
  <2>6. Describes(m, proc[p].copy, doc)
    BY Zenon, <1>3, <1>5 DEF Describes, Passes, Verified
  <2>7. Placed(p)' /\ Holds(p)' /\ Kept(p)'
    BY Zenon, <1>1, <1>2, <1>4, <2>1, <2>3, <2>5
       DEF Process, Placed, Holds, Kept, InUpdate, At, On, Copy, Commits, Swaps, Reads
  <2>8. Fetched(p)'
    BY Zenon, <1>2, <1>5, <1>6, <2>3, <2>5
       DEF Fetched, At, Commits, Swaps, BytesOf, MetasOf, Satisfies
  <2>9. Staged(p)'
    <3>1. On(p).staged = proc[p].copy
      BY Zenon, <1>1, <1>2 DEF Process, Staged, At
    <3> QED
      BY ZenonT(40), <2>1, <2>3, <2>5, <2>6, <3>1 DEF Staged, At, On, Commits, Swaps, Describes
  <2>10. Reader(p)'
    BY Zenon, <1>1, <2>3, <2>5 DEF Process, Reader, At
  <2> QED
    BY Zenon, <1>1, <1>4, <2>1, <2>2, <2>4, <2>7, <2>8, <2>9, <2>10, Thinking
    DEF Mine, Process, TypeOK
<1> QED
  BY Zenon, <1>8, <1>9
-----------------------------------------------------------------------------
(* What stages and swaps a copy, and failures on the way.                  *)

\* The signature is staged.
LEMMA StagingSig ==
    ASSUME IInv, NEW p \in Processes, StageSig(p)
    PROVE  IInv'
<1> USE StoreAssumption
<1>1. proc \in [Processes -> Records] /\ TypeOK /\ Process(p)
  BY Zenon DEF IInv
<1>2. /\ proc[p].at = "stagesig" /\ proc[p].on \in Resources /\ proc[p].on \in Entries
      /\ proc[p].on # Made /\ InUpdate(p) /\ proc[p].how = "replace"
  BY Zenon, <1>1 DEF StageSig, Process, Placed, Fetched, InUpdate, At, Commits, Swaps, Entries
<1>3. proc'[p] = [proc[p] EXCEPT !.at = "stagemeta"] /\ proc' = [proc EXCEPT ![p] = proc'[p]]
  BY Zenon, <1>1 DEF StageSig, Goes
<1>4. /\ proc'[p] \in Records /\ proc'[p].at = "stagemeta"
      /\ proc'[p].on = proc[p].on /\ proc'[p].verify = proc[p].verify
      /\ proc'[p].current = proc[p].current /\ proc'[p].copy = proc[p].copy
      /\ proc'[p].doc = proc[p].doc /\ proc'[p].meta = proc[p].meta
      /\ proc'[p].how = proc[p].how /\ proc'[p].sources = proc[p].sources
      /\ proc'[p].before = proc[p].before
  BY <1>1, <1>3, Names DEF Records
<1>5. /\ disk' = [disk EXCEPT ![proc[p].on] = disk'[proc[p].on]]
      /\ disk'[proc[p].on] = [disk[proc[p].on] EXCEPT !.stagedSig = proc[p].doc]
      /\ UNCHANGED <<left, updating, swapping, reading>>
  BY <1>1, <1>2, Zenon DEF StageSig, Locks, TypeOK
<1>6. disk[proc[p].on] \in FilesOf(proc[p].on)
  BY Zenon, <1>1, <1>2 DEF TypeOK
<1>7. /\ disk'[proc[p].on] \in FilesOf(proc[p].on)
      /\ disk'[proc[p].on].staged = disk[proc[p].on].staged
      /\ disk'[proc[p].on].stagedSig = proc[p].doc
  <2>1. proc[p].doc \in {None} \cup Sigs
    BY Zenon, <1>1 DEF Records
  <2> QED
    BY Zenon, <1>5, <1>6, <2>1 DEF FilesOf
<1>8. \A e \in Entries : Copy(e)' = Copy(e)
  <2>1. /\ disk'[proc[p].on].data = disk[proc[p].on].data
        /\ disk'[proc[p].on].sig = disk[proc[p].on].sig
        /\ disk'[proc[p].on].meta = disk[proc[p].on].meta
    BY Zenon, <1>5, <1>6 DEF FilesOf
  <2> QED
    BY <1>1, <1>2, <1>5, <2>1, CopyKept, Zenon DEF TypeOK
<1>9. Placed(p)' /\ Holds(p)'
  BY Zenon, <1>1, <1>2, <1>4, <1>5 DEF Process, Placed, Holds, InUpdate, At, Commits, Swaps, Reads
<1>10. Kept(p)'
  BY Zenon, <1>1, <1>2, <1>4, <1>8 DEF Process, Kept, InUpdate, At
<1>11. Fetched(p)'
  BY ZenonT(40), <1>1, <1>2, <1>4
  DEF Process, Fetched, At, Commits, Swaps, BytesOf, MetasOf, Satisfies
<1>12. Staged(p)'
  BY ZenonT(40), <1>1, <1>2, <1>4, <1>7 DEF Process, Staged, At, On, Commits, Swaps, Describes
<1>13. Reader(p)'
  BY Zenon, <1>1, <1>4 DEF Process, Reader, At
<1> QED
  BY Zenon, <1>2, <1>3, <1>4, <1>5, <1>7, <1>8, <1>9, <1>10, <1>11, <1>12, <1>13, Staging
  DEF Mine, Process

\* The metadata is staged.
LEMMA StagingMeta ==
    ASSUME IInv, NEW p \in Processes, StageMeta(p)
    PROVE  IInv'
<1> USE StoreAssumption
<1>1. proc \in [Processes -> Records] /\ TypeOK /\ Process(p)
  BY Zenon DEF IInv
<1>2. /\ proc[p].at = "stagemeta" /\ proc[p].on \in Entries /\ InUpdate(p)
      /\ proc[p].meta \in MetasOf(proc[p].on)
  BY Zenon, <1>1 DEF StageMeta, Process, Placed, Fetched, InUpdate, At, Commits, Swaps
<1>3. proc'[p] = [proc[p] EXCEPT !.at = "swap"] /\ proc' = [proc EXCEPT ![p] = proc'[p]]
  BY Zenon, <1>1 DEF StageMeta, Goes
<1>4. /\ proc'[p] \in Records /\ proc'[p].at = "swap"
      /\ proc'[p].on = proc[p].on /\ proc'[p].verify = proc[p].verify
      /\ proc'[p].current = proc[p].current /\ proc'[p].copy = proc[p].copy
      /\ proc'[p].doc = proc[p].doc /\ proc'[p].meta = proc[p].meta
      /\ proc'[p].how = proc[p].how /\ proc'[p].sources = proc[p].sources
      /\ proc'[p].before = proc[p].before
  BY <1>1, <1>3, Names DEF Records
<1>5. /\ disk' = [disk EXCEPT ![proc[p].on] = disk'[proc[p].on]]
      /\ disk'[proc[p].on] = [disk[proc[p].on] EXCEPT !.stagedMeta = proc[p].meta]
      /\ UNCHANGED <<left, updating, swapping, reading>>
  BY <1>1, <1>2, Zenon DEF StageMeta, Locks, TypeOK
<1>6. disk[proc[p].on] \in FilesOf(proc[p].on)
  BY Zenon, <1>1, <1>2 DEF TypeOK
<1>7. /\ disk'[proc[p].on] \in FilesOf(proc[p].on)
      /\ disk'[proc[p].on].staged = disk[proc[p].on].staged
      /\ disk'[proc[p].on].stagedSig = disk[proc[p].on].stagedSig
      /\ disk'[proc[p].on].stagedMeta = proc[p].meta
  BY Zenon, <1>2, <1>5, <1>6 DEF FilesOf
<1>8. /\ disk'[proc[p].on].data = disk[proc[p].on].data
      /\ disk'[proc[p].on].sig = disk[proc[p].on].sig
      /\ disk'[proc[p].on].meta = disk[proc[p].on].meta
  BY Zenon, <1>5, <1>6 DEF FilesOf
<1>9. \A e \in Entries : Copy(e)' = Copy(e)
  BY <1>1, <1>2, <1>5, <1>8, CopyKept, Zenon DEF TypeOK
<1>10. Placed(p)' /\ Holds(p)'
  BY Zenon, <1>1, <1>2, <1>4, <1>5 DEF Process, Placed, Holds, InUpdate, At, Commits, Swaps, Reads
<1>11. Kept(p)'
  BY Zenon, <1>1, <1>2, <1>4, <1>9 DEF Process, Kept, InUpdate, At
<1>12. Fetched(p)'
  BY ZenonT(40), <1>1, <1>2, <1>4
  DEF Process, Fetched, At, Commits, Swaps, BytesOf, MetasOf, Satisfies
<1>13. Staged(p)'
  BY ZenonT(40), <1>1, <1>2, <1>4, <1>7, <1>8 DEF Process, Staged, At, On, Commits, Swaps, Describes
<1>14. Reader(p)'
  BY Zenon, <1>1, <1>4 DEF Process, Reader, At
<1> QED
  BY Zenon, <1>2, <1>3, <1>4, <1>5, <1>7, <1>9, <1>10, <1>11, <1>12, <1>13, <1>14, Staging
  DEF Mine, Process

\* The read lock is taken for the swap.
LEMMA LockingForSwap ==
    ASSUME IInv, NEW p \in Processes, LockForSwap(p)
    PROVE  IInv'
<1> USE StoreAssumption
<1> DEFINE a == IF proc[p].how = "replace" THEN "remove" ELSE "meta"
<1>1. proc \in [Processes -> Records] /\ TypeOK /\ Process(p)
  BY Zenon DEF IInv
<1>2. proc[p].at = "swap" /\ proc[p].on \in Entries /\ InUpdate(p)
  BY Zenon, <1>1 DEF LockForSwap, Process, Placed, InUpdate, At, Commits, Swaps
<1>3. proc'[p] = [proc[p] EXCEPT !.at = a] /\ proc' = [proc EXCEPT ![p] = proc'[p]]
  BY Zenon, <1>1 DEF LockForSwap, Goes
<1>4. /\ a \in Places
      /\ (a = "remove" /\ proc[p].how = "replace") \/ (a = "meta" /\ proc[p].how = "confirm")
  BY Zenon, <1>1, Names DEF Records, Hows
<1> HIDE DEF a
<1>5. /\ proc'[p] \in Records /\ proc'[p].at = a
      /\ proc'[p].on = proc[p].on /\ proc'[p].verify = proc[p].verify
      /\ proc'[p].current = proc[p].current /\ proc'[p].copy = proc[p].copy
      /\ proc'[p].doc = proc[p].doc /\ proc'[p].meta = proc[p].meta
      /\ proc'[p].how = proc[p].how /\ proc'[p].sources = proc[p].sources
      /\ proc'[p].before = proc[p].before
  BY <1>1, <1>3, <1>4 DEF Records
<1>6. /\ disk' = [disk EXCEPT ![proc[p].on] = disk'[proc[p].on]]
      /\ disk'[proc[p].on] = [disk[proc[p].on] EXCEPT !.readLock = "there"]
  BY <1>1, <1>2, Zenon DEF LockForSwap, TypeOK
<1>7. disk[proc[p].on] \in FilesOf(proc[p].on)
  BY Zenon, <1>1, <1>2 DEF TypeOK
<1>8. /\ disk'[proc[p].on] \in FilesOf(proc[p].on)
      /\ disk'[proc[p].on].staged = disk[proc[p].on].staged
      /\ disk'[proc[p].on].stagedSig = disk[proc[p].on].stagedSig
      /\ disk'[proc[p].on].stagedMeta = disk[proc[p].on].stagedMeta
  BY Zenon, <1>6, <1>7 DEF FilesOf
<1>9. /\ disk'[proc[p].on].data = disk[proc[p].on].data
      /\ disk'[proc[p].on].sig = disk[proc[p].on].sig
      /\ disk'[proc[p].on].meta = disk[proc[p].on].meta
  BY Zenon, <1>6, <1>7 DEF FilesOf
<1>10. \A e \in Entries : Copy(e)' = Copy(e)
  BY <1>1, <1>2, <1>6, <1>9, CopyKept, Zenon DEF TypeOK
<1>11. /\ swapping' = [swapping EXCEPT ![proc[p].on] = p]
       /\ swapping[proc[p].on] = None /\ reading[proc[p].on] = {}
       /\ UNCHANGED <<updating, reading, left>>
  BY Zenon DEF LockForSwap
<1>12. swapping'[proc[p].on] = p
  BY Zenon, <1>1, <1>2, <1>11 DEF TypeOK
<1>13. Mine(p)'
  <2>1. Placed(p)' /\ Holds(p)'
    BY ZenonT(40), <1>1, <1>2, <1>4, <1>5, <1>11, <1>12
       DEF Process, Placed, Holds, InUpdate, At, Commits, Swaps, Reads
  <2>2. Kept(p)'
    BY Zenon, <1>1, <1>2, <1>4, <1>5, <1>10 DEF Process, Kept, InUpdate, At
  <2>3. Fetched(p)'
    BY ZenonT(40), <1>1, <1>2, <1>4, <1>5
    DEF Process, Fetched, At, Commits, Swaps, BytesOf, MetasOf, Satisfies
  <2>4. Staged(p)'
    BY ZenonT(40), <1>1, <1>2, <1>4, <1>5, <1>8, <1>9
    DEF Process, Staged, At, On, Commits, Swaps, Describes
  <2>5. Reader(p)'
    BY Zenon, <1>1, <1>4, <1>5 DEF Process, Reader, At
  <2> QED
    BY Zenon, <1>5, <2>1, <2>2, <2>3, <2>4, <2>5 DEF Mine, Process
<1>14. \A e \in Entries : disk'[e] = disk[e] \/ e = proc[p].on
  BY Zenon, <1>1, <1>6 DEF TypeOK
<1>15. Others(p)
  BY Zenon, <1>1, <1>2, <1>3, <1>10, <1>11, <1>14 DEF Others, TypeOK
<1>16. \A q \in Processes : proc'[q].at \in Places
  BY Zenon, <1>1, <1>3, <1>5 DEF Records
<1>17. TypeOK'
  BY Zenon, <1>1, <1>2, <1>6, <1>8, <1>11, <1>14, <1>16 DEF TypeOK
<1>18. Exclusive'
  BY Zenon, <1>1, <1>2, <1>11 DEF IInv, Exclusive, TypeOK
<1>19. MetadataDescribes'
  BY <1>10, Zenon DEF IInv, MetadataDescribes, Describes, Copy
<1> QED
  BY Zenon, <1>13, <1>15, <1>17, <1>18, <1>19, Combine

\* The old copy's metadata goes first.
LEMMA RemovingMeta ==
    ASSUME IInv, NEW p \in Processes, RemoveMeta(p)
    PROVE  IInv'
<1> USE StoreAssumption
<1>1. proc \in [Processes -> Records] /\ TypeOK /\ Process(p)
  BY Zenon DEF IInv
<1>2. /\ proc[p].at = "remove" /\ proc[p].on \in Entries /\ InUpdate(p)
      /\ swapping[proc[p].on] = p /\ proc[p].how = "replace"
  BY Zenon, <1>1
  DEF RemoveMeta, Process, Placed, Holds, Fetched, Staged, InUpdate, At, Commits, Swaps
<1>3. proc'[p] = [proc[p] EXCEPT !.at = "data"] /\ proc' = [proc EXCEPT ![p] = proc'[p]]
  BY Zenon, <1>1 DEF RemoveMeta, Goes
<1>4. /\ proc'[p] \in Records /\ proc'[p].at = "data"
      /\ proc'[p].on = proc[p].on /\ proc'[p].verify = proc[p].verify
      /\ proc'[p].current = proc[p].current /\ proc'[p].copy = proc[p].copy
      /\ proc'[p].doc = proc[p].doc /\ proc'[p].meta = proc[p].meta
      /\ proc'[p].how = proc[p].how /\ proc'[p].sources = proc[p].sources
      /\ proc'[p].before = proc[p].before
  BY <1>1, <1>3, Names DEF Records
<1>5. disk[proc[p].on] \in FilesOf(proc[p].on) /\ DOMAIN disk = Entries
  BY Zenon, <1>1, <1>2 DEF TypeOK
<1>6. UNCHANGED <<left, updating, swapping, reading>>
  BY Zenon DEF RemoveMeta, Locks
<1>7. /\ disk' = [disk EXCEPT ![proc[p].on] = disk'[proc[p].on]]
      /\ disk'[proc[p].on] = [disk[proc[p].on] EXCEPT !.meta = None]
  BY <1>2, <1>5, Zenon DEF RemoveMeta
<1>8. /\ disk'[proc[p].on] \in FilesOf(proc[p].on) /\ disk'[proc[p].on].meta = None
      /\ disk'[proc[p].on].staged = disk[proc[p].on].staged
      /\ disk'[proc[p].on].stagedSig = disk[proc[p].on].stagedSig
      /\ disk'[proc[p].on].stagedMeta = disk[proc[p].on].stagedMeta
  BY Zenon, <1>5, <1>7 DEF FilesOf
<1>9. Placed(p)' /\ Holds(p)' /\ Kept(p)'
  BY ZenonT(40), <1>1, <1>2, <1>4, <1>6, <1>8
  DEF Process, Placed, Holds, Kept, InUpdate, At, On, Commits, Swaps, Reads
<1>10. Fetched(p)'
  BY ZenonT(40), <1>1, <1>2, <1>4
  DEF Process, Fetched, At, Commits, Swaps, BytesOf, MetasOf, Satisfies
<1>11. Staged(p)'
  BY ZenonT(40), <1>1, <1>2, <1>4, <1>8 DEF Process, Staged, At, On, Commits, Swaps, Describes
<1>12. Reader(p)'
  BY Zenon, <1>1, <1>4 DEF Process, Reader, At
<1> QED
  BY <1>2, <1>3, <1>4, <1>6, <1>7, <1>8, <1>9, <1>10, <1>11, <1>12, Swapping, Zenon
  DEF Mine, Process

\* The new bytes are put in place.
LEMMA RenamingData ==
    ASSUME IInv, NEW p \in Processes, RenameData(p)
    PROVE  IInv'
<1> USE StoreAssumption
<1>1. proc \in [Processes -> Records] /\ TypeOK /\ Process(p)
  BY Zenon DEF IInv
<1>2. /\ proc[p].at = "data" /\ proc[p].on \in Entries /\ InUpdate(p)
      /\ swapping[proc[p].on] = p /\ proc[p].how = "replace"
      /\ On(p).staged = proc[p].copy /\ On(p).meta = None /\ proc[p].copy \in BytesOf(proc[p].on)
  BY Zenon, <1>1
  DEF RenameData, Process, Placed, Holds, Fetched, Staged, InUpdate, At, Commits, Swaps
<1>3. proc'[p] = [proc[p] EXCEPT !.at = "sig"] /\ proc' = [proc EXCEPT ![p] = proc'[p]]
  BY Zenon, <1>1 DEF RenameData, Goes
<1>4. /\ proc'[p] \in Records /\ proc'[p].at = "sig"
      /\ proc'[p].on = proc[p].on /\ proc'[p].verify = proc[p].verify
      /\ proc'[p].current = proc[p].current /\ proc'[p].copy = proc[p].copy
      /\ proc'[p].doc = proc[p].doc /\ proc'[p].meta = proc[p].meta
      /\ proc'[p].how = proc[p].how /\ proc'[p].sources = proc[p].sources
      /\ proc'[p].before = proc[p].before
  BY <1>1, <1>3, Names DEF Records
<1>5. disk[proc[p].on] \in FilesOf(proc[p].on) /\ DOMAIN disk = Entries
  BY Zenon, <1>1, <1>2 DEF TypeOK
<1>6. UNCHANGED <<left, updating, swapping, reading>>
  BY Zenon DEF RenameData, Locks
<1>7. /\ disk' = [disk EXCEPT ![proc[p].on] = disk'[proc[p].on]]
      /\ disk'[proc[p].on] = [disk[proc[p].on] EXCEPT !.data = proc[p].copy, !.staged = None]
  BY <1>2, <1>5, Zenon DEF RenameData, On
<1>8. /\ disk'[proc[p].on] \in FilesOf(proc[p].on) /\ disk'[proc[p].on].meta = None
      /\ disk'[proc[p].on].data = proc[p].copy
      /\ disk'[proc[p].on].stagedSig = disk[proc[p].on].stagedSig
      /\ disk'[proc[p].on].stagedMeta = disk[proc[p].on].stagedMeta
  BY <1>2, <1>5, <1>7, Zenon DEF FilesOf, On
<1>9. Placed(p)' /\ Holds(p)' /\ Kept(p)'
  BY ZenonT(40), <1>1, <1>2, <1>4, <1>6, <1>8
  DEF Process, Placed, Holds, Kept, InUpdate, At, On, Commits, Swaps, Reads
<1>10. Fetched(p)'
  BY ZenonT(40), <1>1, <1>2, <1>4
  DEF Process, Fetched, At, Commits, Swaps, BytesOf, MetasOf, Satisfies
<1>11. Staged(p)'
  BY ZenonT(40), <1>1, <1>2, <1>4, <1>8 DEF Process, Staged, At, On, Commits, Swaps, Describes
<1>12. Reader(p)'
  BY Zenon, <1>1, <1>4 DEF Process, Reader, At
<1> QED
  BY <1>2, <1>3, <1>4, <1>6, <1>7, <1>8, <1>9, <1>10, <1>11, <1>12, Swapping, Zenon
  DEF Mine, Process

\* The signature is put in place, or a stale one removed.
LEMMA PlacingSig ==
    ASSUME IInv, NEW p \in Processes, PlaceSig(p)
    PROVE  IInv'
<1> USE StoreAssumption
<1>1. proc \in [Processes -> Records] /\ TypeOK /\ Process(p)
  BY Zenon DEF IInv
<1>2. /\ proc[p].at = "sig" /\ proc[p].on \in Entries /\ InUpdate(p)
      /\ swapping[proc[p].on] = p /\ proc[p].how = "replace"
      /\ (proc[p].doc # None => On(p).stagedSig = proc[p].doc) /\ On(p).meta = None
      /\ On(p).data = proc[p].copy
  BY Zenon, <1>1 DEF PlaceSig, Process, Placed, Holds, Fetched, Staged, InUpdate, At, Commits, Swaps
<1>3. proc'[p] = [proc[p] EXCEPT !.at = "meta"] /\ proc' = [proc EXCEPT ![p] = proc'[p]]
  BY Zenon, <1>1 DEF PlaceSig, Goes
<1>4. /\ proc'[p] \in Records /\ proc'[p].at = "meta"
      /\ proc'[p].on = proc[p].on /\ proc'[p].verify = proc[p].verify
      /\ proc'[p].current = proc[p].current /\ proc'[p].copy = proc[p].copy
      /\ proc'[p].doc = proc[p].doc /\ proc'[p].meta = proc[p].meta
      /\ proc'[p].how = proc[p].how /\ proc'[p].sources = proc[p].sources
      /\ proc'[p].before = proc[p].before
  BY <1>1, <1>3, Names DEF Records
<1>5. disk[proc[p].on] \in FilesOf(proc[p].on) /\ DOMAIN disk = Entries
  BY Zenon, <1>1, <1>2 DEF TypeOK
<1>6. UNCHANGED <<left, updating, swapping, reading>>
  BY Zenon DEF PlaceSig, Locks
<1>7. disk' = [disk EXCEPT ![proc[p].on] = disk'[proc[p].on]]
  BY <1>2, <1>5, Zenon DEF PlaceSig
<1>8. /\ disk'[proc[p].on] \in FilesOf(proc[p].on) /\ disk'[proc[p].on].meta = None
      /\ disk'[proc[p].on].data = disk[proc[p].on].data
      /\ disk'[proc[p].on].sig = proc[p].doc
      /\ disk'[proc[p].on].stagedMeta = disk[proc[p].on].stagedMeta
  <2>1. CASE proc[p].doc = None
    <3>1. disk'[proc[p].on] = [disk[proc[p].on] EXCEPT !.sig = None]
      BY Zenon, <1>2, <1>5, <2>1 DEF PlaceSig
    <3> QED
      BY Zenon, <1>2, <1>5, <2>1, <3>1 DEF FilesOf, On
  <2>2. CASE proc[p].doc # None
    <3>1. disk'[proc[p].on] = [disk[proc[p].on] EXCEPT !.sig = proc[p].doc, !.stagedSig = None]
      BY <1>2, <1>5, <2>2, Zenon DEF PlaceSig, On
    <3>2. proc[p].doc \in {None} \cup Sigs
      BY Zenon, <1>1 DEF Records
    <3> QED
      BY <1>2, <1>5, <3>1, <3>2, Zenon DEF FilesOf, On
  <2> QED
    BY Zenon, <2>1, <2>2
<1>9. Placed(p)' /\ Holds(p)' /\ Kept(p)'
  BY ZenonT(40), <1>1, <1>2, <1>4, <1>6, <1>8
  DEF Process, Placed, Holds, Kept, InUpdate, At, On, Commits, Swaps, Reads
<1>10. Fetched(p)'
  BY ZenonT(40), <1>1, <1>2, <1>4
  DEF Process, Fetched, At, Commits, Swaps, BytesOf, MetasOf, Satisfies
<1>11. Staged(p)'
  BY ZenonT(40), <1>1, <1>2, <1>4, <1>8 DEF Process, Staged, At, On, Commits, Swaps, Describes
<1>12. Reader(p)'
  BY ZenonT(40), <1>1, <1>4 DEF Process, Reader, At
<1> QED
  BY Zenon, <1>2, <1>3, <1>4, <1>6, <1>7, <1>8, <1>9, <1>10, <1>11, <1>12, Swapping
  DEF Mine, Process

\* The last rename, with the files it describes in place.
LEMMA RenamingMeta ==
    ASSUME IInv, NEW p \in Processes, RenameMeta(p)
    PROVE  IInv'
<1> USE StoreAssumption
<1>1. proc \in [Processes -> Records] /\ TypeOK /\ Process(p) /\ MetadataDescribes
  BY Zenon DEF IInv
<1>2. /\ proc[p].at = "meta" /\ proc[p].on \in Entries /\ InUpdate(p)
      /\ swapping[proc[p].on] = p
      /\ On(p).stagedMeta = proc[p].meta /\ proc[p].meta \in MetasOf(proc[p].on)
  BY Zenon, <1>1
  DEF RenameMeta, Process, Placed, Holds, Fetched, Staged, InUpdate, At, Commits, Swaps
<1>3. Describes(proc[p].meta, On(p).data, On(p).sig)
  <2>1. proc[p].how = "replace" \/ proc[p].how = "confirm"
    BY Zenon, <1>1 DEF Records, Hows
  <2>2. CASE proc[p].how = "replace"
    BY ZenonT(40), <1>1, <1>2, <2>2 DEF Process, Staged, At, Commits, Swaps
  <2>3. CASE proc[p].how = "confirm"
    BY Zenon, <1>1, <1>2, <2>3 DEF Process, Staged, At, Commits, Swaps
  <2> QED
    BY Zenon, <2>1, <2>2, <2>3
<1>4. disk[proc[p].on] \in FilesOf(proc[p].on) /\ DOMAIN disk = Entries
  BY Zenon, <1>1, <1>2 DEF TypeOK
<1>5. /\ disk' = [disk EXCEPT ![proc[p].on] = disk'[proc[p].on]]
      /\ disk'[proc[p].on] = [disk[proc[p].on] EXCEPT !.meta = proc[p].meta, !.stagedMeta = None]
  BY <1>2, <1>4, Zenon DEF RenameMeta, On
<1>6. /\ disk'[proc[p].on] \in FilesOf(proc[p].on) /\ disk'[proc[p].on].meta = proc[p].meta
      /\ disk'[proc[p].on].data = On(p).data /\ disk'[proc[p].on].sig = On(p).sig
  BY <1>2, <1>4, <1>5, Zenon DEF FilesOf, On
<1>7. \A e \in Entries : disk'[e] = disk[e] \/ e = proc[p].on
  BY Zenon, <1>4, <1>5
<1>8. DOMAIN disk' = Entries /\ \A e \in Entries : disk'[e] \in FilesOf(e)
  BY Zenon, <1>1, <1>4, <1>5, <1>6, <1>7 DEF TypeOK
<1>9. MetadataDescribes'
  BY Zenon, <1>1, <1>3, <1>6, <1>7 DEF MetadataDescribes, Describes
<1>10. \A e \in Entries : Copy(e)' = Copy(e) \/ swapping[e] = p
  BY Zenon, <1>2, <1>7 DEF Copy
<1>11. Ends(p)
  BY Zenon DEF RenameMeta
<1> QED
  BY Zenon, <1>2, <1>7, <1>8, <1>9, <1>10, <1>11, Ending

\* A call fails: what it staged is discarded, and nothing else.
LEMMA Failing ==
    ASSUME IInv, NEW p \in Processes, Fails(p)
    PROVE  IInv'
<1> USE StoreAssumption
<1>1. Ends(p)
  BY Zenon DEF Fails
<1>2. CASE Discards(p) \/ At(p, "stagemeta")
  <2>1. TypeOK /\ Process(p) /\ proc \in [Processes -> Records]
    BY Zenon DEF IInv
  <2>2. proc[p].on \in Entries /\ InUpdate(p)
    BY Zenon, <1>2, <2>1 DEF Discards, Process, Placed, InUpdate, At, Commits, Swaps, Entries
  <2>3. PICK kept : /\ kept = disk \/ kept = Discarded(proc[p].on)
                    /\ \/ disk' = [kept EXCEPT ![proc[p].on].stagedMeta = None]
                       \/ disk' = Discarded(proc[p].on)
    BY Zenon, <1>2 DEF Fails
  <2>4. /\ disk' = [disk EXCEPT ![proc[p].on] = disk'[proc[p].on]]
        /\ disk'[proc[p].on] \in FilesOf(proc[p].on)
        /\ \A e \in Entries : Copy(e)' = Copy(e)
    BY Zenon, <2>1, <2>2, <2>3, Discarding, Unwriting
  <2>5. \A e \in Entries : disk'[e] = disk[e] \/ e = proc[p].on
    BY Zenon, <2>1, <2>4 DEF TypeOK
  <2>6. DOMAIN disk' = Entries /\ \A e \in Entries : disk'[e] \in FilesOf(e)
    BY Zenon, <2>1, <2>4, <2>5 DEF TypeOK
  <2>7. MetadataDescribes'
    BY <2>4, Zenon DEF IInv, MetadataDescribes, Describes, Copy
  <2> QED
    BY Zenon, <1>1, <2>2, <2>4, <2>5, <2>6, <2>7, Ending
<1>3. CASE ~Discards(p) /\ ~At(p, "stagemeta")
  BY Zenon, <1>1, <1>3, EndingAsItIs DEF Fails
<1> QED
  BY Zenon, <1>2, <1>3
-----------------------------------------------------------------------------
(* Readers and derivations, and the whole.                                 *)

\* A record stays one when a reader learns of another file.
LEMMA Learned ==
    ASSUME NEW r \in Records, NEW a \in Places
    PROVE  /\ \A m \in Metas : [r EXCEPT !.at = a, !.read = m] \in Records
           /\ \A c \in Copies : [r EXCEPT !.at = a, !.data = c] \in Records
           /\ \A s \in {None} \cup Sigs : [r EXCEPT !.at = a, !.sig = s] \in Records
<1>1. \A m \in Metas : [r EXCEPT !.at = a, !.read = m] \in Records
  BY Zenon DEF Records
<1>2. \A c \in Copies : [r EXCEPT !.at = a, !.data = c] \in Records
  BY Zenon DEF Records
<1>3. \A s \in {None} \cup Sigs : [r EXCEPT !.at = a, !.sig = s] \in Records
  BY Zenon DEF Records
<1> QED
  BY <1>1, <1>2, <1>3, Zenon

\* The metadata is read.
LEMMA ReadingMeta ==
    ASSUME IInv, NEW p \in Processes, ReadMeta(p)
    PROVE  IInv'
<1> USE StoreAssumption
<1>1. proc \in [Processes -> Records] /\ TypeOK /\ Process(p) /\ MetadataDescribes
  BY Zenon DEF IInv
<1>2. /\ proc[p].at = "readmeta" /\ proc[p].from \in Entries
      /\ proc[p].doc = None /\ proc[p].how = "confirm"
  BY Zenon, <1>1 DEF ReadMeta, Process, Placed, Fetched, At, Reads, Commits, Swaps
<1>3. disk[proc[p].from] \in FilesOf(proc[p].from) /\ UNCHANGED <<disk, updating, swapping, reading, left>>
  BY Zenon, <1>1, <1>2 DEF ReadMeta, Locks, TypeOK
<1>4. /\ proc'[p] = [proc[p] EXCEPT !.at = "readdata", !.read = disk[proc[p].from].meta]
      /\ proc' = [proc EXCEPT ![p] = proc'[p]]
  BY <1>1, Zenon DEF ReadMeta
<1>5. disk[proc[p].from].meta \in MetasOf(proc[p].from)
  BY Zenon, <1>3 DEF FilesOf, ReadMeta
<1>6. disk[proc[p].from].meta \in Metas
  BY Zenon, <1>5 DEF MetasOf, BytesOf, Metas, Copies
<1>7. /\ proc'[p].at = "readdata"
      /\ proc'[p].read = disk[proc[p].from].meta
      /\ proc'[p].on = proc[p].on /\ proc'[p].from = proc[p].from
      /\ proc'[p].verify = proc[p].verify /\ proc'[p].current = proc[p].current
      /\ proc'[p].copy = proc[p].copy /\ proc'[p].doc = None /\ proc'[p].how = "confirm"
      /\ proc'[p].sources = proc[p].sources /\ proc'[p].before = proc[p].before
  BY <1>1, <1>2, <1>4 DEF Records
<1>12. proc'[p] \in Records
  <2>1. proc[p] \in Records
    BY Zenon, <1>1
  <2>2. [proc[p] EXCEPT !.at = "readdata", !.read = disk[proc[p].from].meta] \in Records
    BY <2>1, <1>6, Learned, Names, Zenon
  <2> QED
    BY <1>4, <2>2, Zenon
<1>8. Describes(disk[proc[p].from].meta, disk[proc[p].from].data, disk[proc[p].from].sig)
  BY Zenon, <1>1, <1>2 DEF MetadataDescribes, ReadMeta
<1>9. Placed(p)' /\ Holds(p)' /\ Kept(p)'
  BY ZenonT(40), <1>1, <1>2, <1>3, <1>7
     DEF Process, Placed, Holds, Kept, InUpdate, At, On, Copy, Commits, Swaps, Reads
<1>10. Fetched(p)' /\ Staged(p)'
  BY ZenonT(40), <1>1, <1>2, <1>7 DEF Process, Fetched, Staged, At, Commits, Swaps
<1>11. Reader(p)'
  BY ZenonT(40), <1>1, <1>2, <1>3, <1>5, <1>8, <1>7
  DEF Process, Reader, At, Describes, MetasOf, BytesOf
<1> QED
  BY Zenon, <1>1, <1>3, <1>4, <1>7, <1>12, <1>9, <1>10, <1>11, Thinking DEF Mine, Process, TypeOK

\* The signature is read.
LEMMA ReadingSig ==
    ASSUME IInv, NEW p \in Processes, ReadSig(p)
    PROVE  IInv'
<1> USE StoreAssumption
<1>1. proc \in [Processes -> Records] /\ TypeOK /\ Process(p) /\ MetadataDescribes
  BY Zenon DEF IInv
<1>2. /\ proc[p].at = "readsig" /\ proc[p].from \in Entries
      /\ proc[p].doc = None /\ proc[p].how = "confirm"
  BY Zenon, <1>1 DEF ReadSig, Process, Placed, Fetched, At, Reads, Commits, Swaps
<1>3. disk[proc[p].from] \in FilesOf(proc[p].from) /\ UNCHANGED <<disk, updating, swapping, reading, left>>
  BY Zenon, <1>1, <1>2 DEF ReadSig, Locks, TypeOK
<1>4. /\ proc'[p] = [proc[p] EXCEPT !.at = "opened", !.sig = disk[proc[p].from].sig]
      /\ proc' = [proc EXCEPT ![p] = proc'[p]]
  BY <1>1, Zenon DEF ReadSig
<1>5. disk[proc[p].from].sig \in {None} \cup Sigs
  BY Zenon, <1>3 DEF FilesOf
<1>6. /\ proc'[p].at = "opened"
      /\ proc'[p].sig = disk[proc[p].from].sig
      /\ proc'[p].read = proc[p].read /\ proc'[p].data = proc[p].data
      /\ proc'[p].on = proc[p].on /\ proc'[p].from = proc[p].from
      /\ proc'[p].verify = proc[p].verify /\ proc'[p].current = proc[p].current
      /\ proc'[p].copy = proc[p].copy /\ proc'[p].doc = None /\ proc'[p].how = "confirm"
      /\ proc'[p].sources = proc[p].sources /\ proc'[p].before = proc[p].before
  BY <1>1, <1>2, <1>4 DEF Records
<1>10. proc'[p] \in Records
  <2>1. proc[p] \in Records
    BY Zenon, <1>1
  <2>2. [proc[p] EXCEPT !.at = "opened", !.sig = disk[proc[p].from].sig] \in Records
    BY <2>1, <1>5, Learned, Names, Zenon
  <2> QED
    BY <1>4, <2>2, Zenon
<1>7. Placed(p)' /\ Holds(p)' /\ Kept(p)'
  BY ZenonT(40), <1>1, <1>2, <1>3, <1>6
     DEF Process, Placed, Holds, Kept, InUpdate, At, On, Copy, Commits, Swaps, Reads
<1>8. Fetched(p)' /\ Staged(p)'
  BY ZenonT(40), <1>1, <1>2, <1>6 DEF Process, Fetched, Staged, At, Commits, Swaps
<1>9. Reader(p)'
  BY Zenon, <1>1, <1>2, <1>3, <1>6 DEF Process, Reader, At, Describes, MetasOf, BytesOf
<1> QED
  BY Zenon, <1>1, <1>3, <1>4, <1>6, <1>10, <1>7, <1>8, <1>9, Thinking DEF Mine, Process, TypeOK

\* The data is opened.
LEMMA OpeningData ==
    ASSUME IInv, NEW p \in Processes, OpenData(p)
    PROVE  IInv'
<1> USE StoreAssumption
<1>1. proc \in [Processes -> Records] /\ TypeOK /\ Process(p) /\ MetadataDescribes
  BY Zenon DEF IInv
<1>2. /\ proc[p].at = "readdata" /\ proc[p].from \in Entries
      /\ proc[p].doc = None /\ proc[p].how = "confirm"
  BY Zenon, <1>1 DEF OpenData, Process, Placed, Fetched, At, Reads, Commits, Swaps
<1>3. disk[proc[p].from] \in FilesOf(proc[p].from) /\ UNCHANGED <<disk, updating, swapping, reading, left>>
  BY Zenon, <1>1, <1>2 DEF OpenData, Locks, TypeOK
<1> DEFINE a == IF proc[p].read.verified = None THEN "opened" ELSE "readsig"
<1>4. /\ proc'[p] = [proc[p] EXCEPT !.at = a, !.data = disk[proc[p].from].data]
      /\ proc' = [proc EXCEPT ![p] = proc'[p]]
  BY <1>1, Zenon DEF OpenData
<1>5. a \in Places /\ ((a = "opened" /\ proc[p].read.verified = None) \/ a = "readsig")
  BY Zenon, Names
<1> HIDE DEF a
<1>6. disk[proc[p].from].data \in BytesOf(proc[p].from)
  BY Zenon, <1>3 DEF FilesOf, OpenData
<1>7. disk[proc[p].from].data \in Copies
  BY Zenon, <1>6 DEF BytesOf, Copies
<1>8. /\ proc'[p].at = a
      /\ proc'[p].data = disk[proc[p].from].data /\ proc'[p].read = proc[p].read
      /\ proc'[p].on = proc[p].on /\ proc'[p].from = proc[p].from
      /\ proc'[p].verify = proc[p].verify /\ proc'[p].current = proc[p].current
      /\ proc'[p].copy = proc[p].copy /\ proc'[p].doc = None /\ proc'[p].how = "confirm"
      /\ proc'[p].sources = proc[p].sources /\ proc'[p].before = proc[p].before
  BY <1>1, <1>2, <1>4 DEF Records
<1>12. proc'[p] \in Records
  <2>1. proc[p] \in Records
    BY Zenon, <1>1
  <2>2. [proc[p] EXCEPT !.at = a, !.data = disk[proc[p].from].data] \in Records
    BY <2>1, <1>5, <1>7, Learned, Names, Zenon
  <2> QED
    BY <1>4, <2>2, Zenon
<1>9. Placed(p)' /\ Holds(p)' /\ Kept(p)'
  BY ZenonT(40), <1>1, <1>2, <1>3, <1>5, <1>8
     DEF Process, Placed, Holds, Kept, InUpdate, At, On, Copy, Commits, Swaps, Reads
<1>10. Fetched(p)' /\ Staged(p)'
  BY ZenonT(40), <1>1, <1>2, <1>5, <1>8 DEF Process, Fetched, Staged, At, Commits, Swaps
<1>11. Reader(p)'
  BY ZenonT(40), <1>1, <1>2, <1>3, <1>5, <1>6, <1>8
  DEF Process, Reader, At, Describes, MetasOf, BytesOf
<1> QED
  BY Zenon, <1>1, <1>3, <1>4, <1>8, <1>12, <1>9, <1>10, <1>11, Thinking DEF Mine, Process, TypeOK

\* The read lock is shared.
LEMMA LockingToRead ==
    ASSUME IInv, NEW p \in Processes, ReadLocked(p)
    PROVE  IInv'
<1> USE StoreAssumption
<1>1. proc \in [Processes -> Records] /\ TypeOK /\ Process(p)
  BY Zenon DEF IInv
<1>2. /\ proc[p].at = "readlock" /\ proc[p].from \in Entries
      /\ proc[p].doc = None /\ proc[p].how = "confirm"
  BY Zenon, <1>1 DEF ReadLocked, Process, Placed, Fetched, At, Reads, Commits, Swaps
<1>3. /\ swapping[proc[p].from] = None
      /\ reading' = [reading EXCEPT ![proc[p].from] = reading[proc[p].from] \cup {p}]
      /\ UNCHANGED <<disk, updating, swapping, left>>
  BY Zenon DEF ReadLocked
<1>4. proc'[p] = [proc[p] EXCEPT !.at = "readmeta"] /\ proc' = [proc EXCEPT ![p] = proc'[p]]
  BY Zenon, <1>1 DEF ReadLocked, Goes
<1>5. /\ proc'[p] \in Records /\ proc'[p].at = "readmeta"
      /\ proc'[p].on = proc[p].on /\ proc'[p].from = proc[p].from
      /\ proc'[p].verify = proc[p].verify /\ proc'[p].current = proc[p].current
      /\ proc'[p].doc = None /\ proc'[p].how = "confirm"
      /\ proc'[p].sources = proc[p].sources /\ proc'[p].before = proc[p].before
  BY <1>1, <1>2, <1>4, Names DEF Records
<1>6. p \in reading'[proc[p].from] /\ reading' \in [Entries -> SUBSET Processes]
  BY Zenon, <1>1, <1>2, <1>3 DEF TypeOK
<1>7. Mine(p)'
  <2>1. Placed(p)' /\ Holds(p)' /\ Kept(p)'
    BY ZenonT(40), <1>1, <1>2, <1>3, <1>5, <1>6
       DEF Process, Placed, Holds, Kept, InUpdate, At, On, Copy, Commits, Swaps, Reads
  <2>2. Fetched(p)' /\ Staged(p)'
    BY ZenonT(40), <1>1, <1>2, <1>5 DEF Process, Fetched, Staged, At, Commits, Swaps
  <2>3. Reader(p)'
    BY Zenon, <1>1, <1>5 DEF Process, Reader, At
  <2> QED
    BY Zenon, <1>5, <2>1, <2>2, <2>3 DEF Mine, Process
<1>8. Others(p)
  BY Zenon, <1>1, <1>2, <1>3, <1>4 DEF Others, Copy, TypeOK
<1>9. \A q \in Processes : proc'[q].at \in Places
  BY <1>1, <1>4, <1>5 DEF Records
<1>10. TypeOK' /\ MetadataDescribes'
  BY Zenon, <1>1, <1>3, <1>6, <1>9 DEF IInv, TypeOK, MetadataDescribes, Describes
<1>11. Exclusive'
  BY Zenon, <1>1, <1>2, <1>3 DEF IInv, Exclusive, TypeOK
<1> QED
  BY Zenon, <1>7, <1>8, <1>10, <1>11, Combine

\* The next source is to be opened.
LEMMA TurningToSource ==
    ASSUME IInv, NEW p \in Processes, NextSource(p)
    PROVE  IInv'
<1> USE StoreAssumption
<1>1. proc \in [Processes -> Records] /\ TypeOK /\ Process(p)
  BY Zenon DEF IInv
<1>2. /\ proc[p].at = "sources" /\ proc[p].on = Made
      /\ proc[p].doc = None /\ proc[p].how = "confirm"
  BY Zenon, <1>1 DEF NextSource, Process, Placed, Fetched, At, Commits, Swaps
<1>3. UNCHANGED <<disk, updating, swapping, reading, left>>
  BY Zenon DEF NextSource, Locks
<1>4. PICK r \in Resources : proc' = [proc EXCEPT ![p].at = "readlock", ![p].from = r]
  BY Zenon DEF NextSource
<1>5. /\ proc'[p] = [proc[p] EXCEPT !.at = "readlock", !.from = r]
      /\ proc' = [proc EXCEPT ![p] = proc'[p]]
  BY <1>1, <1>4, Zenon
<1>6. /\ proc'[p].at = "readlock" /\ proc'[p].from = r /\ proc'[p].on = Made
      /\ proc'[p].verify = proc[p].verify /\ proc'[p].current = proc[p].current
      /\ proc'[p].doc = None /\ proc'[p].how = "confirm"
      /\ proc'[p].sources = proc[p].sources /\ proc'[p].before = proc[p].before
  BY <1>1, <1>2, <1>5 DEF Records
<1>7. proc'[p] \in Records
  <2>1. ASSUME NEW s \in Records, NEW a \in Places, NEW e \in {None} \cup Entries
        PROVE  [s EXCEPT !.at = a, !.from = e] \in Records
    BY ZenonT(40) DEF Records
  <2>2. proc[p] \in Records /\ r \in {None} \cup Entries
    BY Zenon, <1>1 DEF Entries
  <2>3. [proc[p] EXCEPT !.at = "readlock", !.from = r] \in Records
    BY <2>1, <2>2, Names, Zenon
  <2> QED
    BY <1>5, <2>3, Zenon
<1>8. Placed(p)' /\ Holds(p)' /\ Kept(p)'
  BY ZenonT(40), <1>1, <1>2, <1>3, <1>6
     DEF Process, Placed, Holds, Kept, InUpdate, At, On, Copy, Commits, Swaps, Reads, Entries
<1>9. Fetched(p)' /\ Staged(p)'
  BY ZenonT(40), <1>6 DEF Fetched, Staged, At, Commits, Swaps
<1>10. Reader(p)'
  BY Zenon, <1>1, <1>6 DEF Process, Reader, At
<1> QED
  BY Zenon, <1>1, <1>3, <1>5, <1>7, <1>8, <1>9, <1>10, Thinking DEF Mine, Process, TypeOK

\* A source is open: the bytes read are those its metadata names.
LEMMA OpeningSource ==
    ASSUME IInv, NEW p \in Processes, SourceOpened(p)
    PROVE  IInv'
<1> USE StoreAssumption
<1> DEFINE pair == [sha |-> proc[p].read.sha, bytes |-> proc[p].data]
           sources == [proc[p].sources EXCEPT ![proc[p].from] = pair]
           r == [Idle EXCEPT !.at = "sources", !.on = Made, !.before = proc[p].before,
                             !.sources = sources]
<1>1. proc \in [Processes -> Records] /\ TypeOK /\ Process(p)
  BY Zenon DEF IInv
<1>2. /\ proc[p].at = "opened" /\ proc[p].on = Made /\ proc[p].from \in Resources
      /\ proc[p].from # Made /\ proc[p].before \in Found /\ proc[p].sources \in Sources
  BY Zenon, <1>1 DEF SourceOpened, Process, Placed, At, Reads, Records
<1>3. proc[p].read.sha = proc[p].data /\ proc[p].data \in Versions
  BY Zenon, <1>1, <1>2 DEF Process, Reader, At, Describes, BytesOf
<1>4. sources \in Sources /\ \A s \in Resources : sources[s] # None => sources[s].sha = sources[s].bytes
  <2>1. pair \in [sha : Versions, bytes : Versions] /\ pair.sha = pair.bytes
    BY Zenon, <1>3
  <2>2. sources \in Sources
    BY Zenon, <1>2, <2>1 DEF Sources
  <2> HIDE DEF pair
  <2>3. \A s \in Resources : proc[p].sources[s] # None =>
            proc[p].sources[s].sha = proc[p].sources[s].bytes
    BY Zenon, <1>1 DEF Process, Reader
  <2> QED
    BY Zenon, <1>2, <2>1, <2>2, <2>3 DEF Sources
<1> HIDE DEF sources
<1>5. proc'[p] = r /\ proc' = [proc EXCEPT ![p] = proc'[p]]
  BY Zenon, <1>1 DEF SourceOpened, sources
<1>6. /\ r.at = "sources" /\ r.on = Made /\ r.before = proc[p].before /\ r.sources = sources
      /\ r.verify = None /\ r.current = None /\ r.doc = None /\ r.how = "confirm"
  BY Zenon DEF Idle
<1>7. r \in Records
  <2>1. Idle \in Records
    BY Zenon, IdleRecord
  <2>2. ASSUME NEW s \in Records, NEW a \in Places
        PROVE  [s EXCEPT !.at = a, !.on = Made] \in Records
    BY ZenonT(40) DEF Records, Entries
  <2>3. ASSUME NEW s \in Records
        PROVE  [s EXCEPT !.before = proc[p].before] \in Records
    BY Zenon, <1>2 DEF Records
  <2>4. ASSUME NEW s \in Records
        PROVE  [s EXCEPT !.sources = sources] \in Records
    BY Zenon, <1>4 DEF Records
  <2>5. [[[Idle EXCEPT !.at = "sources", !.on = Made] EXCEPT !.before = proc[p].before]
            EXCEPT !.sources = sources] \in Records
    BY <2>1, <2>2, <2>3, <2>4, Names, Zenon
  <2>6. [[[Idle EXCEPT !.at = "sources", !.on = Made] EXCEPT !.before = proc[p].before]
            EXCEPT !.sources = sources] = r
    OBVIOUS
  <2> QED
    BY <2>5, <2>6, Zenon
<1> HIDE DEF r
<1>8. /\ reading' = [reading EXCEPT ![proc[p].from] = reading[proc[p].from] \ {p}]
      /\ UNCHANGED <<disk, updating, swapping, left>>
  BY Zenon DEF SourceOpened
<1>9. Mine(p)'
  <2>1. Placed(p)' /\ Holds(p)' /\ Kept(p)'
    BY ZenonT(40), <1>1, <1>2, <1>5, <1>6, <1>8
       DEF Process, Placed, Holds, Kept, InUpdate, At, On, Copy, Commits, Swaps, Reads
  <2>2. Fetched(p)' /\ Staged(p)'
    BY Zenon, <1>5, <1>6 DEF Fetched, Staged, At, Commits, Swaps
  <2>3. Reader(p)'
    BY Zenon, <1>4, <1>5, <1>6 DEF Reader, At
  <2> QED
    BY Zenon, <1>5, <1>7, <2>1, <2>2, <2>3 DEF Mine, Process
<1>10. Others(p)
  BY Zenon, <1>1, <1>5, <1>8 DEF Others, Copy, TypeOK
<1>11. \A q \in Processes : proc'[q].at \in Places
  BY Zenon, <1>1, <1>5, <1>7 DEF Records
<1>12. TypeOK' /\ MetadataDescribes'
  BY <1>1, <1>8, <1>11, Zenon DEF IInv, TypeOK, MetadataDescribes, Describes
<1>13. Exclusive'
  BY Zenon, <1>1, <1>8 DEF IInv, Exclusive, TypeOK
<1> QED
  BY Zenon, <1>9, <1>10, <1>12, <1>13, Combine

\* Every source is open.
LEMMA Converting ==
    ASSUME IInv, NEW p \in Processes, Convert(p)
    PROVE  IInv'
<1> USE StoreAssumption
<1> DEFINE c == SourceBytes(p)
           m == [sha |-> c, verified |-> None, sources |-> SourceShas(p)]
<1>1. proc \in [Processes -> Records] /\ TypeOK /\ Process(p)
  BY Zenon DEF IInv
<1>2. CASE MadeFrom(p)
  BY Zenon, <1>2, EndingAsItIs DEF Convert
<1>3. CASE ~MadeFrom(p)
  <2>1. /\ proc[p].at = "sources" /\ proc[p].on = Made /\ proc[p].sources \in Sources
        /\ proc[p].doc = None /\ proc[p].how = "confirm"
        /\ proc[p].verify = None /\ proc[p].current = None
    BY Zenon, <1>1 DEF Convert, Process, Placed, Fetched, At, Commits, Swaps, Records
  <2>2. \A r \in Resources : /\ proc[p].sources[r] \in [sha : Versions, bytes : Versions]
                             /\ proc[p].sources[r].sha = proc[p].sources[r].bytes
    BY Zenon, <1>1, <2>1 DEF Convert, Process, Reader, Sources
  <2>3. c \in Mades /\ SourceShas(p) = c
    BY Zenon, <2>2 DEF SourceBytes, SourceShas, Mades
  <2>4. proc' = [proc EXCEPT ![p].at = "stage", ![p].copy = c, ![p].meta = m]
    BY Zenon, <1>3 DEF Convert
  <2> HIDE DEF c
  <2>5. m \in MetasOf(Made) /\ m \in {None} \cup Metas /\ Describes(m, c, None)
    BY Zenon, <2>3 DEF MetasOf, BytesOf, Metas, Copies, Describes
  <2> HIDE DEF m
  <2>6. /\ proc'[p] = [proc[p] EXCEPT !.at = "stage", !.copy = c, !.meta = m]
        /\ proc' = [proc EXCEPT ![p] = proc'[p]]
    BY <1>1, <2>4, Zenon
  <2>7. /\ proc'[p].at = "stage" /\ proc'[p].copy = c /\ proc'[p].meta = m
        /\ proc'[p].on = Made /\ proc'[p].doc = None /\ proc'[p].how = "confirm"
        /\ proc'[p].verify = None /\ proc'[p].current = None
        /\ proc'[p].sources = proc[p].sources /\ proc'[p].before = proc[p].before
    BY <1>1, <2>1, <2>6 DEF Records
  <2>8. proc'[p] \in Records
    <3>1. ASSUME NEW s \in Records, NEW a \in Places, NEW x \in {None} \cup Copies
          PROVE  [s EXCEPT !.at = a, !.copy = x] \in Records
      BY ZenonT(40) DEF Records
    <3>2. ASSUME NEW s \in Records
          PROVE  [s EXCEPT !.meta = m] \in Records
      BY Zenon, <2>5 DEF Records
    <3>3. proc[p] \in Records /\ c \in {None} \cup Copies
      BY Zenon, <1>1, <2>3 DEF Copies
    <3>4. [[proc[p] EXCEPT !.at = "stage", !.copy = c] EXCEPT !.meta = m] \in Records
      BY <3>1, <3>2, <3>3, Names, Zenon
    <3>5. [[proc[p] EXCEPT !.at = "stage", !.copy = c] EXCEPT !.meta = m] =
            [proc[p] EXCEPT !.at = "stage", !.copy = c, !.meta = m]
      OBVIOUS
    <3> QED
      BY <2>6, <3>4, <3>5, Zenon
  <2>9. UNCHANGED <<disk, updating, swapping, reading, left>>
    BY Zenon, <1>3 DEF Convert, Locks
  <2>10. Placed(p)' /\ Holds(p)' /\ Kept(p)'
    BY ZenonT(40), <1>1, <2>1, <2>7, <2>9
       DEF Process, Placed, Holds, Kept, InUpdate, At, On, Copy, Commits, Swaps, Reads, Entries
  <2>11. Fetched(p)' /\ Staged(p)'
    BY Zenon, <2>3, <2>5, <2>7 DEF Fetched, Staged, At, Commits, Swaps, BytesOf, MetasOf, Describes
  <2>12. Reader(p)'
    BY Zenon, <1>1, <2>7 DEF Process, Reader, At
  <2> QED
    BY Zenon, <1>1, <2>6, <2>8, <2>9, <2>10, <2>11, <2>12, Thinking DEF Mine, Process, TypeOK
<1> QED
  BY Zenon, <1>2, <1>3

\* Nothing done.
LEMMA Stuttering ==
    ASSUME IInv, UNCHANGED vars
    PROVE  IInv'
<1>1. UNCHANGED <<disk, updating, swapping, reading, proc, left>>
  BY Zenon DEF vars
<1>2. TypeOK' /\ Exclusive' /\ MetadataDescribes' /\ proc' \in [Processes -> Records]
  BY Zenon, <1>1 DEF IInv, TypeOK, Exclusive, MetadataDescribes, Describes
<1>3. ASSUME NEW p \in Processes PROVE Process(p)'
  <2>1. Process(p)
    BY Zenon DEF IInv
  <2>2. Placed(p)' /\ Holds(p)' /\ Kept(p)'
    BY ZenonT(40), <1>1, <2>1 DEF Process, Placed, Holds, Kept, InUpdate, At, On, Copy
  <2>3. proc'[p] = proc[p] /\ On(p)' = On(p)
    BY Zenon, <1>1 DEF On
  <2>4. Fetched(p)'
    BY ZenonT(40), <2>1, <2>3 DEF Process, Fetched, At, BytesOf, MetasOf, Describes, Satisfies
  <2>5. Staged(p)'
    BY ZenonT(40), <2>1, <2>3 DEF Process, Staged, At, Describes
  <2>6. Reader(p)'
    BY Zenon, <1>1, <2>1 DEF Process, Reader, At, Describes, MetasOf, BytesOf
  <2> QED
    BY Zenon, <2>2, <2>4, <2>5, <2>6 DEF Process
<1> QED
  BY Zenon, <1>2, <1>3 DEF IInv

\* A store never used, and no call begun.
LEMMA Initially == Init => IInv
<1> USE StoreAssumption
<1> SUFFICES ASSUME Init PROVE IInv
  OBVIOUS
<1>1. Idle \in Records
  BY Zenon, IdleRecord
<1>2. \A e \in Entries : Empty \in FilesOf(e)
  BY Zenon DEF Empty, FilesOf
<1>3. proc \in [Processes -> Records] /\ \A p \in Processes : proc[p] = Idle
  BY Zenon, <1>1 DEF Init
<1>4. TypeOK
  BY <1>2, <1>3, IdleRecord, Names DEF Init, TypeOK
<1>5. Exclusive /\ MetadataDescribes
  BY Zenon DEF Init, Exclusive, MetadataDescribes, Empty
<1>6. ASSUME NEW p \in Processes PROVE Process(p)
  <2>0. /\ proc[p].at = "idle" /\ proc[p].on = None /\ proc[p].doc = None
        /\ proc[p].how = "confirm" /\ proc[p].sources = [r \in Resources |-> None]
    BY Zenon, <1>3, IdleRecord
  <2>1. Placed(p) /\ Holds(p) /\ Kept(p)
    BY Zenon, <2>0 DEF Placed, Holds, Kept, InUpdate, At, Commits, Swaps, Reads, Entries
  <2>2. Fetched(p) /\ Staged(p)
    BY Zenon, <2>0 DEF Fetched, Staged, At, Commits, Swaps
  <2>3. Reader(p)
    BY Zenon, <2>0 DEF Reader, At
  <2> QED
    BY Zenon, <2>1, <2>2, <2>3 DEF Process
<1> QED
  BY Zenon, <1>3, <1>4, <1>5, <1>6 DEF IInv

\* Every step keeps the invariant.
LEMMA Preserved == IInv /\ [Next]_vars => IInv'
<1> SUFFICES ASSUME IInv, [Next]_vars PROVE IInv'
  OBVIOUS
<1>1. CASE UNCHANGED vars
  BY Zenon, <1>1, Stuttering
<1>2. CASE Done
  BY Zenon, <1>2, Stuttering DEF Done
<1>3. ASSUME NEW p \in Processes, Step(p) PROVE IInv'
  <2>1. CASE Fetch(p) \/ Derive(p) \/ Open(p)
    BY Zenon, <2>1, Calling
  <2>2. CASE LockForUpdate(p)
    BY Zenon, <2>2, LockingForUpdate
  <2>3. CASE Ask(p)
    BY Zenon, <2>3, Asking
  <2>4. CASE Stage(p)
    BY Zenon, <2>4, StagingData
  <2>5. CASE Write(p)
    BY Zenon, <2>5, Writing
  <2>6. CASE Check(p)
    BY Zenon, <2>6, Checking
  <2>7. CASE StageSig(p)
    BY Zenon, <2>7, StagingSig
  <2>8. CASE StageMeta(p)
    BY Zenon, <2>8, StagingMeta
  <2>9. CASE LockForSwap(p)
    BY Zenon, <2>9, LockingForSwap
  <2>10. CASE RemoveMeta(p)
    BY Zenon, <2>10, RemovingMeta
  <2>11. CASE RenameData(p)
    BY Zenon, <2>11, RenamingData
  <2>12. CASE PlaceSig(p)
    BY Zenon, <2>12, PlacingSig
  <2>13. CASE RenameMeta(p)
    BY Zenon, <2>13, RenamingMeta
  <2>14. CASE ReadLocked(p)
    BY Zenon, <2>14, LockingToRead
  <2>15. CASE ReadMeta(p)
    BY Zenon, <2>15, ReadingMeta
  <2>16. CASE OpenData(p)
    BY Zenon, <2>16, OpeningData
  <2>17. CASE ReadSig(p)
    BY Zenon, <2>17, ReadingSig
  <2>18. CASE NothingStored(p) \/ Opened(p) \/ Dies(p)
    BY Zenon, <2>18, EndingAsItIs DEF NothingStored, Opened, Dies
  <2>19. CASE NextSource(p)
    BY Zenon, <2>19, TurningToSource
  <2>20. CASE SourceOpened(p)
    BY Zenon, <2>20, OpeningSource
  <2>21. CASE Convert(p)
    BY Zenon, <2>21, Converting
  <2>22. CASE Fails(p)
    BY Zenon, <2>22, Failing
  <2> QED
    BY Zenon, <1>3, <2>1, <2>2, <2>3, <2>4, <2>5, <2>6, <2>7, <2>8, <2>9, <2>10, <2>11, <2>12,
       <2>13, <2>14, <2>15, <2>16, <2>17, <2>18, <2>19, <2>20, <2>21, <2>22 DEF Step
<1> QED
  BY Zenon, <1>1, <1>2, <1>3 DEF Next

\* So it holds throughout.
LEMMA Invariance == Spec => []IInv
  BY Initially, Preserved, PTL DEF Spec

\* The files and locks keep their types: no part of a download is ever under
\* the name of the data, for any resources, processes and number of calls.
THEOREM TypesHold == Spec => []TypeOK
<1>1. IInv => TypeOK
  BY Zenon DEF IInv
<1> QED
  BY <1>1, Invariance, PTL

\* store.rs's promise of Update::replace, for every store and any deaths: the
\* metadata there is describes the data and the signature beside it.
THEOREM MetadataAlwaysDescribes == Spec => []MetadataDescribes
<1>1. IInv => MetadataDescribes
  BY Zenon DEF IInv
<1> QED
  BY <1>1, Invariance, PTL

\* store.rs's promise of Store::open: what a reader opened is of one copy.
THEOREM ReadersPairOneCopy == Spec => []OneCopyRead
<1>1. IInv => OneCopyRead
  BY Zenon DEF IInv, Process, Reader, OneCopyRead
<1> QED
  BY <1>1, Invariance, PTL

\* An update leaves the copy it found, or nothing, until its last rename.
THEOREM CopyKeptUntilSwapped == Spec => []OldCopyUntilSwapped
<1>1. IInv => OldCopyUntilSwapped
  BY Zenon DEF IInv, Process, Kept, InUpdate, OldCopyUntilSwapped
<1> QED
  BY <1>1, Invariance, PTL

\* Metadata::satisfies: what is stored satisfies the check asked for.
THEOREM AlwaysStoredAsAsked == Spec => []StoredAsAsked
<1>1. IInv => StoredAsAsked
  BY ZenonT(40) DEF IInv, Process, Fetched, Staged, Commits, Swaps, StoredAsAsked
<1> QED
  BY <1>1, Invariance, PTL

-----------------------------------------------------------------------------
(* Waiting. *)

\* A step of p that leaves the others and their locks alone.
Apart(p) ==
    /\ \A q \in Processes \ {p} : proc'[q] = proc[q]
    /\ \A e \in Entries : \A q \in Processes \ {p} :
        /\ updating'[e] = q => updating[e] = q
        /\ swapping'[e] = q => swapping[e] = q
        /\ q \in reading'[e] => q \in reading[e]

LEMMA HoldersApart ==
    ASSUME LocksHeld, NEW p \in Processes, Apart(p),
           \A e \in Entries :
              /\ updating'[e] = p => proc'[p].on = e /\ InUpdate(p)'
              /\ swapping'[e] = p => proc'[p].on = e /\ proc'[p].at \in Swaps
              /\ p \in reading'[e] => proc'[p].from = e /\ proc'[p].at \in Reads
    PROVE  LocksHeld'
  BY DEF LocksHeld, Apart, InUpdate, At

\* A step that takes and releases no lock: what p holds, it may hold after.
LEMMA HoldersStep ==
    ASSUME LocksHeld, NEW p \in Processes, UNCHANGED <<updating, swapping, reading>>,
           \A q \in Processes \ {p} : proc'[q] = proc[q],
           proc[p].on = None \/ ~InUpdate(p) \/ (proc'[p].on = proc[p].on /\ proc'[p].at # "lock"),
           proc[p].at \in Swaps => proc'[p].at \in Swaps /\ proc'[p].on = proc[p].on,
           proc[p].at \in Reads => proc'[p].at \in Reads /\ proc'[p].from = proc[p].from
    PROVE  LocksHeld'
<1>1. Apart(p)
  BY Zenon DEF Apart
<1> QED
  BY <1>1, HoldersApart DEF LocksHeld, InUpdate, At

LEMMA HoldersEnd ==
    ASSUME IInv, LocksHeld, NEW p \in Processes, Ends(p)
    PROVE  LocksHeld'
<1>1. /\ proc' = [proc EXCEPT ![p] = Idle]
      /\ updating' = [e \in Entries |-> IF updating[e] = p THEN None ELSE updating[e]]
      /\ swapping' = [e \in Entries |-> IF swapping[e] = p THEN None ELSE swapping[e]]
      /\ reading' = [e \in Entries |-> reading[e] \ {p}]
  BY Zenon DEF Ends
<1>2. proc \in [Processes -> Records] /\ None \notin Processes
  BY Zenon, StoreAssumption DEF IInv
<1>3. Apart(p)
  BY Zenon, <1>1, <1>2 DEF Apart
<1>4. \A e \in Entries : updating'[e] # p /\ swapping'[e] # p /\ p \notin reading'[e]
  BY Zenon, <1>1, <1>2
<1> QED
  BY Zenon, <1>3, <1>4, HoldersApart

\* What a step that goes on to a place leaves of a process's record.
LEMMA GoneTo ==
    ASSUME IInv, NEW p \in Processes, NEW place, Goes(p, place)
    PROVE  /\ \A q \in Processes \ {p} : proc'[q] = proc[q]
           /\ proc'[p].at = place
           /\ proc'[p].on = proc[p].on /\ proc'[p].from = proc[p].from
<1>1. proc \in [Processes -> Records]
  BY Zenon DEF IInv
<1>2. proc'[p] = [proc[p] EXCEPT !.at = place] /\ \A q \in Processes \ {p} : proc'[q] = proc[q]
  BY Zenon, <1>1 DEF Goes
<1> QED
  BY <1>1, <1>2 DEF Records

\* Every step takes and releases the locks its place asks for.
LEMMA HoldersPreserved ==
    ASSUME IInv, LocksHeld, [Next]_vars
    PROVE  LocksHeld'
<1> USE StoreAssumption
<1>1. CASE UNCHANGED vars
  BY <1>1 DEF vars, LocksHeld, InUpdate, At
<1>2. ASSUME NEW p \in Processes, Step(p) PROVE LocksHeld'
  <2>0. /\ proc \in [Processes -> Records] /\ proc[p] \in Records /\ Placed(p)
        /\ TypeOK /\ None \notin Processes
    BY Zenon DEF IInv, Process
  <2>1. CASE \E record : Begins(p, record)
    <3>1. /\ proc[p].at = "idle" /\ proc[p].on = None
          /\ UNCHANGED <<updating, swapping, reading>>
          /\ \A q \in Processes \ {p} : proc'[q] = proc[q]
      BY Zenon, <2>0, <2>1 DEF Begins, Placed, At
    <3> QED
      BY Zenon, <3>1, HoldersStep DEF Swaps, Reads
  <2>2. CASE LockForUpdate(p)
    <3>1. /\ proc[p].at = "lock" /\ proc[p].on \in Entries
          /\ updating' = [updating EXCEPT ![proc[p].on] = p]
          /\ UNCHANGED <<swapping, reading>>
      BY Zenon, <2>0, <2>2 DEF LockForUpdate, Placed, At
    <3>2. /\ \A q \in Processes \ {p} : proc'[q] = proc[q]
          /\ proc'[p] = [proc[p] EXCEPT
                !.at = IF proc[p].on = Made THEN "sources" ELSE "ask",
                !.before = Copy(proc[p].on)]
      BY <2>0, <2>2, Zenon DEF LockForUpdate
    <3>3. proc'[p].on = proc[p].on /\ proc'[p].at \in {"sources", "ask"}
      BY Zenon, <2>0, <3>2 DEF Records
    <3>4. Apart(p)
      BY Zenon, <2>0, <3>1, <3>2 DEF Apart, TypeOK
    <3>5. \A e \in Entries : swapping[e] # p /\ p \notin reading[e] /\ updating[e] # p
      BY Zenon, <3>1 DEF LocksHeld, InUpdate, At, Swaps, Reads
    <3>6. InUpdate(p)'
      BY Zenon, <2>0, <3>1, <3>3 DEF InUpdate, At, Entries
    <3> QED
      BY Zenon, <2>0, <3>1, <3>3, <3>4, <3>5, <3>6, HoldersApart DEF TypeOK
  <2>3. CASE Ask(p) \/ Write(p) \/ Check(p) \/ NextSource(p)
             \/ Stage(p) \/ StageSig(p) \/ StageMeta(p)
    <3>1. /\ proc[p].at \in {"ask", "write", "check", "sources", "stage", "stagesig", "stagemeta"}
          /\ UNCHANGED <<updating, swapping, reading>>
      BY Zenon, <2>3 DEF Ask, Write, Check, NextSource, Stage, StageSig, StageMeta, Locks, At
    <3>2. /\ \A q \in Processes \ {p} : proc'[q] = proc[q]
          /\ proc'[p].on = proc[p].on /\ proc'[p].at # "lock"
      <4>1. CASE Ask(p)
        <5>1. CASE proc' = [proc EXCEPT ![p].at = "stagemeta", ![p].meta = Current(p)]
          BY Zenon, <2>0, <5>1 DEF Records
        <5>2. ASSUME NEW v \in Versions,
                     proc' = [proc EXCEPT ![p].at = "stage", ![p].copy = v,
                                          ![p].current = Current(p)]
              PROVE  /\ \A q \in Processes \ {p} : proc'[q] = proc[q]
                     /\ proc'[p].on = proc[p].on /\ proc'[p].at # "lock"
          BY Zenon, <2>0, <5>2 DEF Records
        <5> QED
          BY Zenon, <4>1, <5>1, <5>2 DEF Ask
      <4>2. CASE Write(p)
        BY <2>0, <4>2 DEF Write, Goes, Records
      <4>3. CASE Check(p)
        BY <2>0, <4>3 DEF Check, Records
      <4>4. CASE NextSource(p)
        BY <2>0, <4>4 DEF NextSource, Records
      <4>5. CASE Stage(p) \/ StageSig(p) \/ StageMeta(p)
        BY <4>5, GoneTo DEF Stage, StageSig, StageMeta
      <4> QED
        BY Zenon, <2>3, <4>1, <4>2, <4>3, <4>4, <4>5
    <3> QED
      BY Zenon, <3>1, <3>2, HoldersStep DEF Swaps, Reads
  <2>4. CASE LockForSwap(p)
    <3>1. /\ proc[p].at = "swap" /\ proc[p].on \in Entries
          /\ swapping' = [swapping EXCEPT ![proc[p].on] = p]
          /\ UNCHANGED <<updating, reading>>
          /\ Goes(p, IF proc[p].how = "replace" THEN "remove" ELSE "meta")
      BY Zenon, <2>0, <2>4 DEF LockForSwap, Placed, At, Commits
    <3>2. /\ \A q \in Processes \ {p} : proc'[q] = proc[q]
          /\ proc'[p].at \in {"remove", "meta"} /\ proc'[p].on = proc[p].on
      BY Zenon, <3>1, GoneTo
    <3>3. Apart(p)
      BY Zenon, <2>0, <3>1, <3>2 DEF Apart, TypeOK
    <3>4. \A e \in Entries : /\ p \notin reading[e] /\ swapping[e] # p
                             /\ updating[e] = p => proc[p].on = e
      BY Zenon, <3>1 DEF LocksHeld, Swaps, Reads
    <3>5. InUpdate(p)' /\ proc'[p].at \in Swaps
      BY Zenon, <2>0, <3>1, <3>2 DEF InUpdate, At, Swaps, Entries
    <3> QED
      BY Zenon, <2>0, <3>1, <3>2, <3>3, <3>4, <3>5, HoldersApart DEF TypeOK
  <2>5. CASE RemoveMeta(p) \/ RenameData(p) \/ PlaceSig(p)
    <3>1. /\ proc[p].at \in Swaps /\ UNCHANGED <<updating, swapping, reading>>
          /\ \E place \in Swaps : Goes(p, place)
      BY Zenon, <2>5 DEF RemoveMeta, RenameData, PlaceSig, Locks, At, Swaps
    <3>2. /\ \A q \in Processes \ {p} : proc'[q] = proc[q]
          /\ proc'[p].at \in Swaps /\ proc'[p].on = proc[p].on
      BY Zenon, <3>1, GoneTo
    <3> QED
      BY Zenon, <3>1, <3>2, HoldersStep DEF Swaps, Reads
  <2>6. CASE ReadLocked(p)
    <3>1. /\ proc[p].at = "readlock" /\ proc[p].from \in Entries
          /\ reading' = [reading EXCEPT ![proc[p].from] = @ \cup {p}]
          /\ UNCHANGED <<updating, swapping>> /\ Goes(p, "readmeta")
      BY Zenon, <2>0, <2>6 DEF ReadLocked, Placed, At
    <3>2. /\ \A q \in Processes \ {p} : proc'[q] = proc[q]
          /\ proc'[p].at = "readmeta" /\ proc'[p].on = proc[p].on
          /\ proc'[p].from = proc[p].from
      BY Zenon, <3>1, GoneTo
    <3>3. Apart(p)
      BY Zenon, <2>0, <3>1, <3>2 DEF Apart, TypeOK
    <3>4. \A e \in Entries : /\ swapping[e] # p /\ p \notin reading[e]
                             /\ updating[e] = p => proc[p].on = e /\ InUpdate(p)
      BY Zenon, <3>1 DEF LocksHeld, Swaps, Reads
    <3>5. InUpdate(p) => InUpdate(p)'
      BY Zenon, <3>2 DEF InUpdate, At
    <3> QED
      BY ZenonT(40), <2>0, <3>1, <3>2, <3>3, <3>4, <3>5, HoldersApart DEF TypeOK, Reads
  <2>7. CASE ReadMeta(p) \/ OpenData(p) \/ ReadSig(p)
    <3>1. /\ proc[p].at \in Reads /\ UNCHANGED <<updating, swapping, reading>>
      BY Zenon, <2>7 DEF ReadMeta, OpenData, ReadSig, Locks, At, Reads
    <3>2. /\ \A q \in Processes \ {p} : proc'[q] = proc[q]
          /\ proc'[p].at \in Reads /\ proc'[p].on = proc[p].on
          /\ proc'[p].from = proc[p].from
      <4>1. CASE ReadMeta(p)
        BY Zenon, <2>0, <4>1 DEF ReadMeta, Records, Reads
      <4>2. CASE OpenData(p)
        BY Zenon, <2>0, <4>2 DEF OpenData, Records, Reads
      <4>3. CASE ReadSig(p)
        BY Zenon, <2>0, <4>3 DEF ReadSig, Records, Reads
      <4> QED
        BY Zenon, <2>7, <4>1, <4>2, <4>3
    <3> QED
      BY Zenon, <3>1, <3>2, HoldersStep DEF Swaps, Reads
  <2>8. CASE SourceOpened(p)
    <3>1. /\ proc[p].at = "opened" /\ proc[p].on = Made /\ proc[p].from \in Entries
          /\ reading' = [reading EXCEPT ![proc[p].from] = @ \ {p}]
          /\ UNCHANGED <<updating, swapping>>
      BY Zenon, <2>0, <2>8 DEF SourceOpened, Placed, At, Reads
    <3>2. /\ \A q \in Processes \ {p} : proc'[q] = proc[q]
          /\ proc'[p].at = "sources" /\ proc'[p].on = Made
      BY Zenon, <2>0, <2>8 DEF SourceOpened, Idle
    <3>3. Apart(p)
      BY Zenon, <2>0, <3>1, <3>2 DEF Apart, TypeOK
    <3>4. \A e \in Entries : /\ swapping[e] # p
                             /\ p \in reading[e] => e = proc[p].from
                             /\ updating[e] = p => e = Made
      BY Zenon, <3>1 DEF LocksHeld, Swaps
    <3>5. InUpdate(p)' /\ \A e \in Entries : p \notin reading'[e]
      BY Zenon, <2>0, <3>1, <3>2, <3>4 DEF InUpdate, At, Entries, TypeOK
    <3> QED
      BY Zenon, <3>1, <3>2, <3>3, <3>4, <3>5, HoldersApart
  <2>9. CASE Convert(p) /\ ~Ends(p)
    <3>1. /\ proc[p].at = "sources" /\ UNCHANGED <<updating, swapping, reading>>
          /\ \A q \in Processes \ {p} : proc'[q] = proc[q]
          /\ proc'[p].on = proc[p].on /\ proc'[p].at # "lock"
      BY <2>0, <2>9 DEF Convert, Locks, At, Records
    <3> QED
      BY Zenon, <3>1, HoldersStep DEF Swaps, Reads
  <2>10. CASE Ends(p)
    BY Zenon, <2>10, HoldersEnd
  <2> QED
    BY <1>2, <2>1, <2>2, <2>3, <2>4, <2>5, <2>6, <2>7, <2>8, <2>9, <2>10, Zenon
    DEF Step, Fetch, Derive, Open, RenameMeta, NothingStored, Opened, Fails, Dies
<1> QED
  BY Zenon, <1>1, <1>2 DEF Next, Done

\* Who waits for a swap or its readers waits for one who goes on: a swap or
\* a read under way asks for no lock.
LEMMA LastInLineGoesOn ==
    ASSUME IInv, LocksHeld, NEW p \in Processes, Waits(p), ~At(p, "lock")
    PROVE  \E q \in Processes : ~At(q, "idle") /\ ~Waits(q)
<1>1. \A q \in Processes : proc[q].at \in Swaps \cup Reads => ~At(q, "idle") /\ ~Waits(q)
  BY Zenon DEF Waits, At, Swaps, Reads
<1>2. Placed(p) /\ TypeOK
  BY Zenon DEF IInv, Process
<1>3. PICK e \in Entries : reading[e] # {} \/ swapping[e] # None
  BY Zenon, <1>2 DEF Waits, Placed, At, Commits
<1>4. PICK q \in Processes : q \in reading[e] \/ swapping[e] = q
  BY Zenon, <1>2, <1>3 DEF TypeOK
<1>5. proc[q].at \in Swaps \cup Reads
  BY Zenon, <1>4 DEF LocksHeld
<1> QED
  BY Zenon, <1>1, <1>5

LEMMA SomeoneGoesOn ==
    ASSUME IInv, LocksHeld
    PROVE  NeverAllWaiting
<1> USE StoreAssumption
<1> SUFFICES ASSUME NEW p \in Processes, ~At(p, "idle"), Waits(p)
             PROVE  \E q \in Processes : ~At(q, "idle") /\ ~Waits(q)
  BY Zenon DEF NeverAllWaiting
<1>1. CASE At(p, "lock")
  <2>1. Placed(p) /\ TypeOK
    BY Zenon DEF IInv, Process
  <2>2. proc[p].on \in Entries /\ updating[proc[p].on] # None
    BY Zenon, <1>1, <2>1 DEF Waits, Placed, At
  <2>3. PICK q \in Processes : updating[proc[p].on] = q
    BY Zenon, <2>1, <2>2 DEF TypeOK
  <2>4. InUpdate(q) /\ Placed(q)
    BY Zenon, <2>2, <2>3 DEF LocksHeld, IInv, Process
  <2>5. ~At(q, "idle") /\ ~At(q, "lock")
    BY Zenon, <2>4 DEF InUpdate, Placed
  <2> QED
    BY Zenon, <2>5, LastInLineGoesOn
<1>2. CASE ~At(p, "lock")
  BY Zenon, <1>2, LastInLineGoesOn
<1> QED
  BY Zenon, <1>1, <1>2

\* Fetches, derivations and readers never all wait for each other, however
\* many there are and whatever they fetch, derive and read (lock_directory,
\* Update::swapping, read_locked).
THEOREM SomeoneAlwaysGoesOn == Spec => []NeverAllWaiting
<1>1. Init => LocksHeld
  BY Zenon, StoreAssumption DEF Init, LocksHeld
<1>2. IInv /\ LocksHeld /\ [Next]_vars => LocksHeld'
  BY Zenon, HoldersPreserved
<1>3. IInv /\ LocksHeld => NeverAllWaiting
  BY Zenon, SomeoneGoesOn
<1> QED
  BY <1>1, <1>2, <1>3, Invariance, PTL DEF Spec
=============================================================================

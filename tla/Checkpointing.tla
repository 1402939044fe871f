--------------------------- MODULE Checkpointing ---------------------------
(***************************************************************************)
(* Writing a running scan down as it runs: src/scanner/checkpoint.rs over  *)
(* the findings file and the cursor of src/journal/store.rs.  Strategies   *)
(* store findings, mark them changed and settle their targets while the    *)
(* writer cuts, appends or compacts, and writes the cursor; writes fail or *)
(* are torn, the process dies anywhere, and a later sitting resumes.       *)
(*                                                                         *)
(* A position stands for the target and for the record of its finding.  A  *)
(* record's contents are a version number: an edit leaves them as they are *)
(* or moves them on, and never returns them to what they were.  A findings *)
(* file is what its whole lines fold to, the last record of a position     *)
(* standing, and its tail: a last line that lost its newline.              *)
(***************************************************************************)
EXTENDS Integers, FiniteSets

CONSTANTS
  Positions,       \* targets
  MaxVersion,      \* bound: edits of one record that change it
  TearsAtNewline   \* whether a write may stop between a record and its newline

ASSUME VersionAssumption == MaxVersion \in Nat
ASSUME TearAssumption == TearsAtNewline \in BOOLEAN

VARIABLES
  \* the scan
  store,      \* HostStore: the version held of each record, 0 for none
  edited,     \* records written to the store and not yet marked
  changed,    \* ChangedHosts
  asked,      \* positions this sitting asked itself
  settled,    \* Settlements
  \* the writer
  pc,
  closing,    \* whether this is the sitting's last checkpoint
  failing,    \* whether the last checkpoint failed
  cut,        \* Cut: the cursor read, the keys drained, the versions copied
  written,    \* Written: what the file is remembered to hold
  \* the disk
  file,       \* the findings: the version the whole lines fold to
  tail,       \* the line after the last newline
  cursor      \* the cursor file

scan == <<store, edited, changed, asked, settled>>
disk == <<file, tail, cursor>>
vars == <<scan, pc, closing, failing, cut, written, disk>>

Versions == 0 .. MaxVersion
Holdings == [Positions -> Versions]

\* No tail, one the reader cannot parse, or a whole record with no newline.
Whole(p, v) == [kind |-> "whole", at |-> p, version |-> v]
NoTail == [kind |-> "none"]
Torn == [kind |-> "torn"]
Tails == {NoTail, Torn} \cup {Whole(p, v) : p \in Positions, v \in Versions}

NoCut == [cursor |-> {}, keys |-> {}, copy |-> [p \in Positions |-> 0]]
Cuts == [cursor : SUBSET Positions, keys : SUBSET Positions, copy : Holdings]

Up == {"idle", "cursor", "drained", "copied", "compact", "append", "save"}
Down == {"closed", "closedShort", "dead"}

TypeOK ==
  /\ store \in Holdings /\ written \in Holdings /\ file \in Holdings
  /\ edited \subseteq Positions /\ changed \subseteq Positions
  /\ asked \subseteq Positions /\ settled \subseteq Positions
  /\ cursor \subseteq Positions
  /\ pc \in Up \cup Down
  /\ closing \in BOOLEAN /\ failing \in BOOLEAN
  /\ cut \in Cuts
  /\ tail \in Tails

Nothing == [p \in Positions |-> 0]

Init ==
  /\ store = Nothing /\ edited = {} /\ changed = {} /\ asked = {} /\ settled = {}
  /\ pc = "idle" /\ closing = FALSE /\ failing = FALSE /\ cut = NoCut
  /\ written = Nothing
  /\ file = Nothing /\ tail = NoTail /\ cursor = {}
----------------------------------------------------------------------------
(* ScanContext::write_host, under the store's guard: an answer, a later    *)
(* pass over the host, or the same answer again.                           *)
Edit(p) ==
  /\ pc \in Up /\ ~closing
  /\ p \notin edited
  /\ \E v \in {store[p], store[p] + 1} \cap (1 .. MaxVersion) :
       store' = [store EXCEPT ![p] = v]
  /\ edited' = edited \cup {p}
  /\ UNCHANGED <<changed, asked, settled, pc, closing, failing, cut, written, disk>>

(* The end of write_host, past the guard: the host is marked changed.      *)
Mark(p) ==
  /\ pc \in Up
  /\ p \in edited
  /\ edited' = edited \ {p}
  /\ changed' = changed \cup {p}
  /\ asked' = asked \cup {p}
  /\ UNCHANGED <<store, settled, pc, closing, failing, cut, written, disk>>

(* ScanContext::record_outcome, once the finding is stored.                *)
Settle(p) ==
  /\ pc \in Up /\ ~closing
  /\ p \in asked \ settled
  /\ settled' = settled \cup {p}
  /\ UNCHANGED <<store, edited, changed, asked, pc, closing, failing, cut, written, disk>>
----------------------------------------------------------------------------
(* Cut::take begins: the cursor is read.  A sitting that is over takes its *)
(* last cut once every strategy has reported.                              *)
ReadCursor(last) ==
  /\ pc = "idle"
  /\ last => edited = {}
  /\ closing' = last
  /\ cut' = [cut EXCEPT !.cursor = settled]
  /\ pc' = "cursor"
  /\ UNCHANGED <<scan, failing, written, disk>>

(* ChangedHosts::drain                                                     *)
Drain ==
  /\ pc = "cursor"
  /\ cut' = [cut EXCEPT !.keys = changed]
  /\ changed' = {}
  /\ pc' = "drained"
  /\ UNCHANGED <<store, edited, asked, settled, closing, failing, written, disk>>

\* Variant for a mutation: the cursor is read after the hosts are taken.
CopyThenCursor ==
  /\ pc = "drained"
  /\ cut' = [cut EXCEPT !.cursor = settled,
                        !.copy = [p \in Positions |->
                                    IF p \in cut.keys THEN store[p] ELSE 0]]
  /\ pc' = "copied"
  /\ UNCHANGED <<scan, closing, failing, written, disk>>

(* changes_since: what the store holds by now of the keys drained.         *)
Copy ==
  /\ pc = "drained"
  /\ cut' = [cut EXCEPT !.copy = [p \in Positions |->
                                    IF p \in cut.keys THEN store[p] ELSE 0]]
  /\ pc' = "copied"
  /\ UNCHANGED <<scan, closing, failing, written, disk>>

(* Journal::should_compact goes by bytes superseded: either way is open.   *)
Choose ==
  /\ pc = "copied"
  /\ pc' \in {"compact", "append"}
  /\ UNCHANGED <<scan, closing, failing, cut, written, disk>>

(* Journal::compact of a snapshot of the store, renamed over the file.     *)
Compact ==
  /\ pc = "compact"
  /\ file' = store /\ tail' = NoTail /\ written' = store
  /\ pc' = "save"
  /\ UNCHANGED <<scan, closing, failing, cut, cursor>>

(* A compaction that fails leaves the file, and is followed by an append;  *)
(* a sitting's last one is not.                                            *)
CompactFails ==
  /\ pc = "compact"
  /\ pc' = IF closing THEN "closedShort" ELSE "append"
  /\ UNCHANGED <<scan, closing, failing, cut, written, disk>>

(* Written::delta: the records that differ from what the file holds.       *)
Delta == {p \in cut.keys : cut.copy[p] # written[p]}

(* `some' of the records appended over `holding'.                          *)
Appended(holding, some) ==
  [p \in Positions |-> IF p \in some THEN cut.copy[p] ELSE holding[p]]

(* Journal::record_hosts: the tail is mended, the records appended, and    *)
(* what was written remembered; with no record the file is not opened.     *)
RecordHosts ==
  /\ pc = "append"
  /\ file' = Appended(file, Delta)
  /\ written' = Appended(written, Delta)
  /\ tail' = IF Delta = {} THEN tail ELSE NoTail
  /\ pc' = "save"
  /\ UNCHANGED <<scan, closing, failing, cut, cursor>>

(* An append stops part way: some records are whole, and the next may be   *)
(* torn, or whole but for its newline.                                     *)
StopsPartWay ==
  /\ pc = "append"
  /\ \E some \in SUBSET Delta :
       /\ file' = Appended(file, some)
       /\ \/ tail' = NoTail
          \/ some # Delta /\ tail' = Torn
          \/ /\ TearsAtNewline
             /\ \E p \in Delta \ some : tail' = Whole(p, cut.copy[p])
  /\ UNCHANGED cursor

\* Variant for a mutation: what a failed write carried is not marked again.
HandBackNothing == changed' = changed

(* ScanProgress::hand_back                                                 *)
HandBack == changed' = changed \cup cut.keys

(* Writer::write when the outcome is an error: the scan goes on, with what *)
(* was taken marked again.  Writer::close gives up instead.                *)
GiveUp ==
  /\ IF closing THEN pc' = "closedShort" /\ UNCHANGED <<changed, failing>>
                ELSE pc' = "idle" /\ HandBack /\ failing' = TRUE
  /\ cut' = NoCut
  /\ UNCHANGED <<store, edited, asked, settled, closing>>

\* Variant for a mutation: what a failed write carried is remembered as written.
RecordHostsFailsRemembering ==
  /\ pc = "append"
  /\ Delta # {}
  /\ StopsPartWay \/ UNCHANGED disk
  /\ written' = Appended(written, Delta)
  /\ GiveUp

(* Opening the file fails, or writing to it.                               *)
RecordHostsFails ==
  /\ pc = "append"
  /\ Delta # {}
  /\ StopsPartWay \/ UNCHANGED disk
  /\ GiveUp
  /\ UNCHANGED written

\* Variant for a mutation: an interval with no new finding writes no cursor.
WriteCursorIfChanged ==
  /\ pc = "save"
  /\ cursor' = IF cut.keys = {} /\ ~closing THEN cursor ELSE cut.cursor
  /\ IF closing THEN pc' = "closed" /\ UNCHANGED failing
                ELSE pc' = "idle" /\ failing' = FALSE
  /\ cut' = NoCut
  /\ UNCHANGED <<scan, closing, written, file, tail>>

(* Checkpoint::write_atomically, then the heartbeat.                       *)
WriteCursor ==
  /\ pc = "save"
  /\ cursor' = cut.cursor
  /\ IF closing THEN pc' = "closed" /\ UNCHANGED failing
                ELSE pc' = "idle" /\ failing' = FALSE
  /\ cut' = NoCut
  /\ UNCHANGED <<scan, closing, written, file, tail>>

(* The cursor is not written, or it is and the heartbeat fails.            *)
WriteCursorFails ==
  /\ pc = "save"
  /\ cursor' \in {cursor, cut.cursor}
  /\ GiveUp
  /\ UNCHANGED <<written, file, tail>>
----------------------------------------------------------------------------
Dies ==
  /\ pc' = "dead"
  /\ closing' = FALSE /\ failing' = FALSE /\ cut' = NoCut
  /\ store' = Nothing /\ written' = Nothing
  /\ edited' = {} /\ changed' = {} /\ asked' = {} /\ settled' = {}

(* The process is killed, perhaps while it appends.  What it wrote stays:  *)
(* the page cache outlives it.                                             *)
Crash ==
  /\ pc \in Up
  /\ StopsPartWay \/ UNCHANGED disk
  /\ Dies

(* read_findings: a parsable last line counts, newline or not.             *)
ReadFindings ==
  IF tail.kind = "whole" THEN [file EXCEPT ![tail.at] = tail.version] ELSE file

(* Journal::resume, into Settlements::resuming and restore_hosts.          *)
Resume ==
  /\ pc \in Down
  /\ pc' = "idle" /\ closing' = FALSE /\ failing' = FALSE /\ cut' = NoCut
  /\ store' = ReadFindings
  /\ written' = ReadFindings
  /\ settled' = cursor
  /\ edited' = {} /\ changed' = {} /\ asked' = {}
  /\ UNCHANGED disk

WriterSucceeds ==
  \/ ReadCursor(FALSE) \/ Drain \/ Copy \/ Choose \/ Compact \/ RecordHosts
  \/ WriteCursor

WriterFails == CompactFails \/ RecordHostsFails \/ WriteCursorFails

Next ==
  \/ \E p \in Positions : Edit(p) \/ Mark(p) \/ Settle(p)
  \/ WriterSucceeds \/ ReadCursor(TRUE) \/ WriterFails
  \/ Crash \/ Resume

Spec == Init /\ [][Next]_vars

(* The timer and the blocking pool keep the writer going.                  *)
FairSpec == Spec /\ WF_vars(WriterSucceeds \/ WriterFails)
----------------------------------------------------------------------------
(* "A settled position whose finding is missing from the file is lost":    *)
(* whatever the cursor on disk settles, a resume can restore, at every     *)
(* instant a crash may strike and whichever writes failed before it.       *)
SettledIsOnFile == \A p \in cursor : ReadFindings[p] # 0

(* A running scan knows what the file lacks: a record the store holds and  *)
(* the file does not is marked, about to be, or in the writer's hands, so  *)
(* a failed checkpoint forgets nothing.                                    *)
NothingForgotten ==
  pc \in Up =>
    \A p \in Positions :
      store[p] # file[p] => p \in edited \cup changed \cup cut.keys

(* A sitting closed without a failure leaves all it found on file, and all *)
(* it settled in the cursor.                                               *)
ClosedWhole == pc = "closed" => file = store /\ cursor = settled

(* Once checkpoints stop failing, what is settled reaches the cursor on    *)
(* disk if the process lives: no failure leaves the writer stopped, and a  *)
(* compaction that goes on failing is made up for by appending.            *)
EventuallySaved ==
  <>[]~failing =>
    \A p \in Positions : p \in settled ~> (p \in cursor \/ pc \in Down)
============================================================================

------------------------ MODULE CheckpointingProofs ------------------------
(***************************************************************************)
(* Where no write stops between a record and its newline, a cursor on disk *)
(* never settles a position whose finding is not on file, for any plan,    *)
(* any interleaving of strategies and writer, and any failures and deaths. *)
(***************************************************************************)
EXTENDS Checkpointing, TLAPS

(* What is remembered as written trails the file, which trails the store:  *)
(* a write that failed part way leaves the file ahead of the memory of it. *)
Trailing ==
  pc \in Up =>
    \A p \in Positions : written[p] <= file[p] /\ file[p] <= store[p]

(* Whatever a strategy has touched is in the store.                        *)
Stored ==
  pc \in Up =>
    \A p \in edited \cup changed \cup asked \cup settled \cup cut.keys :
      store[p] >= 1

(* A record asked for, and so one settled, is on file, marked or taken.    *)
Tracked ==
  pc \in Up =>
    \A p \in asked \cup settled :
      file[p] >= 1 \/ p \in changed \cup cut.keys

(* The keys are empty until drained, and the cursor is of what was settled.*)
CutEarly ==
  /\ pc \in {"idle", "cursor"} => cut.keys = {}
  /\ pc = "cursor" => cut.cursor \subseteq settled

(* Past the drain the findings of the cursor are on file or taken.         *)
CutTaken ==
  pc \in {"drained", "copied", "compact", "append"} =>
    \A p \in cut.cursor : file[p] >= 1 \/ p \in cut.keys

(* What was copied lies between the file and the store, and what changed   *)
(* since is marked or about to be.                                         *)
CutCopied ==
  pc \in {"copied", "compact", "append"} =>
    \A p \in cut.keys :
      /\ file[p] <= cut.copy[p] /\ cut.copy[p] <= store[p]
      /\ 1 <= cut.copy[p]
      /\ cut.copy[p] # store[p] => p \in edited \cup changed

(* With the findings written, the file holds all but what changed since.   *)
CutWritten ==
  pc = "save" =>
    /\ \A p \in cut.cursor \cup cut.keys : file[p] >= 1
    /\ \A p \in Positions : store[p] # file[p] => p \in edited \cup changed

(* The last checkpoint of a sitting has the scan to itself.                *)
Alone ==
  closing /\ pc \in Up =>
    /\ pc # "idle"
    /\ edited = {}
    /\ cut.cursor = settled
    /\ pc # "cursor" => changed = {}

IInv ==
  /\ TypeOK
  /\ tail.kind # "whole"
  /\ \A p \in cursor : file[p] >= 1
  /\ Trailing /\ Stored /\ Tracked
  /\ CutEarly /\ CutTaken /\ CutCopied /\ CutWritten
  /\ Alone
  /\ NothingForgotten
  /\ ClosedWhole

LEMMA InitIInv == Init => IInv
<1> SUFFICES ASSUME Init PROVE IInv
  OBVIOUS
<1>1. Nothing \in Holdings
  BY VersionAssumption DEF Nothing, Holdings, Versions
<1>2. NoCut \in Cuts
  BY <1>1 DEF NoCut, Cuts, Nothing
<1>3. tail \in Tails /\ tail.kind # "whole"
  BY DEF Init, Tails, NoTail
<1>4. closing \in BOOLEAN /\ failing \in BOOLEAN
  BY DEF Init
<1>5. TypeOK
  BY <1>1, <1>2, <1>3, <1>4 DEF Init, TypeOK, Up
<1>6. \A p \in Positions : store[p] = 0 /\ file[p] = 0 /\ written[p] = 0
  BY DEF Init, Nothing
<1>7. Trailing /\ Stored /\ Tracked /\ CutEarly /\ NothingForgotten
  BY <1>6
  DEF Init, Trailing, Stored, Tracked, CutEarly, NothingForgotten, NoCut
<1>8. CutTaken /\ CutCopied /\ CutWritten /\ Alone /\ ClosedWhole
  BY DEF Init, CutTaken, CutCopied, CutWritten, Alone, ClosedWhole
<1> QED
  BY <1>3, <1>5, <1>7, <1>8 DEF IInv, Init

LEMMA EditIInv ==
  ASSUME IInv, NEW p \in Positions, Edit(p)
  PROVE  IInv'
  BY VersionAssumption
  DEF IInv, Edit, TypeOK, Holdings, Versions, Cuts, Up, Down, disk,
      Trailing, Stored, Tracked, CutEarly, CutTaken, CutCopied, CutWritten,
      Alone, NothingForgotten, ClosedWhole

LEMMA MarkIInv ==
  ASSUME IInv, NEW p \in Positions, Mark(p)
  PROVE  IInv'
  BY DEF IInv, Mark, TypeOK, Holdings, Versions, Cuts, Up, Down, disk,
      Trailing, Stored, Tracked, CutEarly, CutTaken, CutCopied, CutWritten,
      Alone, NothingForgotten, ClosedWhole

LEMMA SettleIInv ==
  ASSUME IInv, NEW p \in Positions, Settle(p)
  PROVE  IInv'
  BY DEF IInv, Settle, TypeOK, Holdings, Versions, Cuts, Up, Down, disk,
      Trailing, Stored, Tracked, CutEarly, CutTaken, CutCopied, CutWritten,
      Alone, NothingForgotten, ClosedWhole

LEMMA ReadCursorIInv ==
  ASSUME IInv, NEW last \in BOOLEAN, ReadCursor(last)
  PROVE  IInv'
  BY DEF IInv, ReadCursor, TypeOK, Holdings, Versions, Cuts, Up, Down, disk, scan,
      Trailing, Stored, Tracked, CutEarly, CutTaken, CutCopied, CutWritten,
      Alone, NothingForgotten, ClosedWhole

LEMMA DrainIInv ==
  ASSUME IInv, Drain
  PROVE  IInv'
  BY DEF IInv, Drain, TypeOK, Holdings, Versions, Cuts, Up, Down, disk, scan,
      Trailing, Stored, Tracked, CutEarly, CutTaken, CutCopied, CutWritten,
      Alone, NothingForgotten, ClosedWhole

LEMMA CopyIInv ==
  ASSUME IInv, Copy
  PROVE  IInv'
<1>1. /\ cut' \in Cuts
      /\ cut'.cursor = cut.cursor /\ cut'.keys = cut.keys
      /\ \A p \in cut.keys : cut'.copy[p] = store[p]
  BY VersionAssumption DEF IInv, Copy, TypeOK, Cuts, Holdings, Versions
<1>2. cut.keys \subseteq Positions /\ cut.cursor \subseteq Positions
  BY DEF IInv, TypeOK, Cuts
<1>3. \A p \in cut.keys : store[p] >= 1 /\ file[p] <= store[p]
  BY <1>2 DEF IInv, Copy, Stored, Trailing, Up
<1>4. CutCopied'
  BY <1>1, <1>2, <1>3 DEF IInv, TypeOK, Copy, CutCopied, Holdings, Versions, disk, scan
<1>5. TypeOK'
  BY <1>1 DEF IInv, TypeOK, Copy, Up, Down, disk, scan
<1> QED
  BY <1>1, <1>4, <1>5
  DEF IInv, Copy, Up, Down, disk, scan, Trailing, Stored, Tracked, CutEarly,
      CutTaken, CutWritten, Alone, NothingForgotten, ClosedWhole

LEMMA ChooseIInv ==
  ASSUME IInv, Choose
  PROVE  IInv'
  BY DEF IInv, Choose, TypeOK, Holdings, Versions, Cuts, Up, Down, disk, scan,
      Trailing, Stored, Tracked, CutEarly, CutTaken, CutCopied, CutWritten,
      Alone, NothingForgotten, ClosedWhole

LEMMA CompactIInv ==
  ASSUME IInv, Compact
  PROVE  IInv'
  BY DEF IInv, Compact, TypeOK, Holdings, Versions, Cuts, Up, Down, disk, scan,
      Trailing, Stored, Tracked, CutEarly, CutTaken, CutCopied, CutWritten,
      Alone, NothingForgotten, ClosedWhole, Tails, NoTail

LEMMA CompactFailsIInv ==
  ASSUME IInv, CompactFails
  PROVE  IInv'
  BY DEF IInv, CompactFails, TypeOK, Holdings, Versions, Cuts, Up, Down, disk, scan,
      Trailing, Stored, Tracked, CutEarly, CutTaken, CutCopied, CutWritten,
      Alone, NothingForgotten, ClosedWhole

LEMMA RecordHostsIInv ==
  ASSUME IInv, RecordHosts
  PROVE  IInv'
  BY DEF IInv, RecordHosts, TypeOK, Holdings, Versions, Cuts, Up, Down, disk, scan,
      Trailing, Stored, Tracked, CutEarly, CutTaken, CutCopied, CutWritten,
      Alone, NothingForgotten, ClosedWhole, Tails, NoTail, Delta, Appended

LEMMA NoCutFacts ==
  NoCut \in Cuts /\ NoCut.keys = {} /\ NoCut.cursor = {}
<1>1. [p \in Positions |-> 0] \in Holdings
  BY VersionAssumption DEF Holdings, Versions
<1> QED
  BY <1>1 DEF NoCut, Cuts

(* What an append may leave of the file, wherever it stops.                *)
LEMMA FileGrows ==
  ASSUME IInv, ~TearsAtNewline, pc \in Up, StopsPartWay \/ UNCHANGED disk
  PROVE  /\ file' \in Holdings
         /\ \A p \in Positions : file[p] <= file'[p] /\ file'[p] <= store[p]
         /\ \A p \in Positions : file'[p] = file[p] \/ p \in cut.keys
         /\ tail' \in Tails /\ tail'.kind # "whole"
         /\ cursor' = cursor
<1>1. CASE UNCHANGED disk
  BY <1>1 DEF IInv, TypeOK, disk, Trailing, Holdings, Versions
<1>2. ASSUME StopsPartWay
      PROVE  /\ tail' \in Tails /\ tail'.kind # "whole"
             /\ cursor' = cursor
  BY <1>2 DEF StopsPartWay, Tails, NoTail, Torn
<1>3. ASSUME StopsPartWay
      PROVE  /\ file' \in Holdings
             /\ \A p \in Positions : file[p] <= file'[p] /\ file'[p] <= store[p]
             /\ \A p \in Positions : file'[p] = file[p] \/ p \in cut.keys
  <2>1. PICK some \in SUBSET Delta : file' = Appended(file, some)
    BY <1>3 DEF StopsPartWay
  <2>2. pc = "append"
    BY <1>3 DEF StopsPartWay
  <2> QED
    BY <2>1, <2>2
    DEF IInv, TypeOK, Cuts, Holdings, Versions, Trailing, CutCopied, Appended,
        Delta
<1> QED
  BY <1>1, <1>2, <1>3

(* GiveUp, whatever came of the disk: the file only grew, and the cursor   *)
(* is one the file bears out.                                              *)
LEMMA GiveUpIInv ==
  ASSUME IInv, pc \in {"append", "save"}, GiveUp,
         written' = written,
         file' \in Holdings,
         \A p \in Positions : file[p] <= file'[p] /\ file'[p] <= store[p],
         \A p \in Positions : file'[p] = file[p] \/ p \in cut.keys,
         tail' \in Tails, tail'.kind # "whole",
         cursor' \subseteq Positions,
         \A p \in cursor' : file'[p] >= 1
  PROVE  IInv'
<1>1. /\ cut' \in Cuts /\ cut'.keys = {} /\ cut'.cursor = {}
  BY NoCutFacts DEF GiveUp
<1>2. \A p \in cut.keys : p \in Positions
  BY DEF IInv, TypeOK, Cuts
<1>3. CASE closing
  <2>1. pc' = "closedShort" /\ changed' = changed
    BY <1>3 DEF GiveUp
  <2> QED
    BY <1>1, <2>1
    DEF GiveUp, IInv, TypeOK, Up, Down, Trailing, Stored, Tracked, CutEarly,
        CutTaken, CutCopied, CutWritten, Alone, NothingForgotten, ClosedWhole
<1>4. CASE ~closing
  <2>1. pc' = "idle" /\ changed' = changed \cup cut.keys
    BY <1>4 DEF GiveUp, HandBack
  <2> QED
    BY <1>1, <1>2, <1>4, <2>1
    DEF GiveUp, IInv, TypeOK, Holdings, Versions, Up, Down, Trailing, Stored,
        Tracked, CutEarly, CutTaken, CutCopied, CutWritten, Alone,
        NothingForgotten, ClosedWhole
<1> QED
  BY <1>3, <1>4

LEMMA RecordHostsFailsIInv ==
  ASSUME IInv, ~TearsAtNewline, RecordHostsFails
  PROVE  IInv'
<1>1. /\ pc = "append" /\ GiveUp /\ written' = written
      /\ StopsPartWay \/ UNCHANGED disk
  BY DEF RecordHostsFails
<1>2. pc \in Up
  BY <1>1 DEF Up
<1>3. cursor' \subseteq Positions /\ \A p \in cursor' : file'[p] >= 1
  BY <1>1, <1>2, FileGrows DEF IInv, TypeOK, Holdings, Versions
<1> QED
  BY <1>1, <1>2, <1>3, FileGrows, GiveUpIInv

LEMMA WriteCursorIInv ==
  ASSUME IInv, WriteCursor
  PROVE  IInv'
<1>1. /\ cut' \in Cuts /\ cut'.keys = {} /\ cut'.cursor = {}
  BY NoCutFacts DEF WriteCursor
<1>2. ASSUME closing
      PROVE  file = store /\ cut.cursor = settled
  <2>1. \A p \in Positions : file[p] = store[p]
    BY <1>2 DEF IInv, WriteCursor, CutWritten, Alone, Up
  <2> QED
    BY <1>2, <2>1 DEF IInv, WriteCursor, TypeOK, Holdings, Alone, Up
<1>3. TypeOK'
  BY <1>1 DEF IInv, WriteCursor, TypeOK, Cuts, Up, Down, scan
<1>4. \A p \in cursor' : file'[p] >= 1
  BY DEF IInv, WriteCursor, CutWritten
<1>5. CASE closing
  BY <1>1, <1>2, <1>3, <1>4, <1>5
  DEF IInv, WriteCursor, Up, Down, scan, Trailing, Stored, Tracked, CutEarly,
      CutTaken, CutCopied, CutWritten, Alone, NothingForgotten, ClosedWhole
<1>6. CASE ~closing
  <2>1. \A p \in asked \cup settled : file[p] >= 1 \/ p \in changed
    BY DEF IInv, WriteCursor, Tracked, CutWritten, Up
  <2> QED
    BY <1>1, <1>3, <1>4, <1>6, <2>1
    DEF IInv, WriteCursor, Up, Down, scan, Trailing, Stored, Tracked, CutEarly,
        CutTaken, CutCopied, CutWritten, Alone, NothingForgotten, ClosedWhole
<1> QED
  BY <1>5, <1>6

LEMMA WriteCursorFailsIInv ==
  ASSUME IInv, WriteCursorFails
  PROVE  IInv'
<1>1. /\ pc = "save" /\ GiveUp
      /\ written' = written /\ file' = file /\ tail' = tail
      /\ cursor' \in {cursor, cut.cursor}
  BY DEF WriteCursorFails
<1>2. cursor' \subseteq Positions /\ \A p \in cursor' : file'[p] >= 1
  BY <1>1 DEF IInv, TypeOK, Cuts, CutWritten
<1>3. /\ file' \in Holdings /\ tail' \in Tails /\ tail'.kind # "whole"
      /\ \A p \in Positions : file[p] <= file'[p] /\ file'[p] <= store[p]
  BY <1>1 DEF IInv, TypeOK, Trailing, Holdings, Versions, Up
<1> QED
  BY <1>1, <1>2, <1>3, GiveUpIInv

LEMMA CrashIInv ==
  ASSUME IInv, ~TearsAtNewline, Crash
  PROVE  IInv'
<1>1. pc \in Up /\ (StopsPartWay \/ UNCHANGED disk) /\ Dies
  BY DEF Crash
<1>2. Nothing \in Holdings
  BY VersionAssumption DEF Nothing, Holdings, Versions
<1>3. closing' \in BOOLEAN /\ failing' \in BOOLEAN
  BY <1>1 DEF Dies
<1>4. TypeOK'
  BY <1>1, <1>2, <1>3, FileGrows, NoCutFacts DEF Dies, IInv, TypeOK, Down
<1>5. \A p \in cursor' : file'[p] >= 1
  BY <1>1, FileGrows DEF IInv, TypeOK, Holdings, Versions
<1> QED
  BY <1>1, <1>4, <1>5, FileGrows
  DEF Dies, IInv, Up, Trailing, Stored, Tracked, CutEarly, CutTaken, CutCopied,
      CutWritten, Alone, NothingForgotten, ClosedWhole

LEMMA ResumeIInv ==
  ASSUME IInv, Resume
  PROVE  IInv'
<1>1. /\ store' = file /\ written' = file /\ settled' = cursor
      /\ file' = file /\ tail' = tail /\ cursor' = cursor
  BY DEF IInv, Resume, ReadFindings, disk
<1>2. closing' \in BOOLEAN /\ ~closing' /\ failing' \in BOOLEAN
  BY DEF Resume
<1>3. cut' \in Cuts /\ cut'.keys = {}
  BY NoCutFacts DEF Resume
<1> QED
  BY <1>1, <1>2, <1>3
  DEF IInv, Resume, TypeOK, Holdings, Versions, Up, Down,
      Trailing, Stored, Tracked, CutEarly, CutTaken, CutCopied, CutWritten,
      Alone, NothingForgotten, ClosedWhole

LEMMA NextIInv ==
  ASSUME ~TearsAtNewline, IInv, [Next]_vars
  PROVE  IInv'
<1>1. ASSUME NEW p \in Positions, Edit(p) \/ Mark(p) \/ Settle(p)
      PROVE  IInv'
  BY <1>1, EditIInv, MarkIInv, SettleIInv
<1>2. CASE WriterSucceeds \/ ReadCursor(TRUE)
  BY <1>2, ReadCursorIInv, DrainIInv, CopyIInv, ChooseIInv, CompactIInv,
     RecordHostsIInv, WriteCursorIInv
  DEF WriterSucceeds
<1>3. CASE WriterFails
  BY <1>3, CompactFailsIInv, RecordHostsFailsIInv, WriteCursorFailsIInv
  DEF WriterFails
<1>4. CASE Crash
  BY <1>4, CrashIInv
<1>5. CASE Resume
  BY <1>5, ResumeIInv
<1>6. CASE UNCHANGED vars
  <2>1. /\ UNCHANGED <<store, edited, changed, asked, settled>>
        /\ UNCHANGED <<pc, closing, failing, cut, written, file, tail, cursor>>
    BY <1>6 DEF vars, scan, disk
  <2>2. TypeOK'
    BY <2>1 DEF IInv, TypeOK
  <2>3. Trailing' /\ Stored' /\ Tracked'
    BY <2>1 DEF IInv, Trailing, Stored, Tracked
  <2>4. CutEarly' /\ CutTaken'
    BY <2>1 DEF IInv, CutEarly, CutTaken
  <2>5. CutCopied' /\ CutWritten'
    BY <2>1 DEF IInv, CutCopied, CutWritten
  <2>6. Alone' /\ NothingForgotten' /\ ClosedWhole'
    BY <2>1 DEF IInv, Alone, NothingForgotten, ClosedWhole
  <2> QED
    BY <2>1, <2>2, <2>3, <2>4, <2>5, <2>6 DEF IInv
<1> QED
  BY <1>1, <1>2, <1>3, <1>4, <1>5, <1>6 DEF Next

(* The cursor on disk never settles a position whose finding a resume      *)
(* could not restore: findings are stored before their targets are         *)
(* settled, the cursor is read before the findings are taken, and written  *)
(* after them.                                                             *)
THEOREM NoFindingLost ==
  ASSUME ~TearsAtNewline
  PROVE  Spec => []SettledIsOnFile
<1>1. IInv => SettledIsOnFile
  BY DEF IInv, TypeOK, Holdings, Versions, SettledIsOnFile, ReadFindings
<1>2. IInv /\ [Next]_vars => IInv'
  BY NextIInv
<1> QED
  BY InitIInv, <1>1, <1>2, PTL DEF Spec

(* No failed or torn write makes a running scan forget what it has yet to  *)
(* write.                                                                  *)
THEOREM NothingIsForgotten ==
  ASSUME ~TearsAtNewline
  PROVE  Spec => []NothingForgotten
<1>1. IInv => NothingForgotten
  BY DEF IInv
<1>2. IInv /\ [Next]_vars => IInv'
  BY NextIInv
<1> QED
  BY InitIInv, <1>1, <1>2, PTL DEF Spec

(* A sitting closed without a failure is on disk whole.                    *)
THEOREM ClosesWhole ==
  ASSUME ~TearsAtNewline
  PROVE  Spec => [](TypeOK /\ ClosedWhole)
<1>1. IInv => TypeOK /\ ClosedWhole
  BY DEF IInv
<1>2. IInv /\ [Next]_vars => IInv'
  BY NextIInv
<1> QED
  BY InitIInv, <1>1, <1>2, PTL DEF Spec

============================================================================

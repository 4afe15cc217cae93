------------------------- MODULE SegmentFileProofs -------------------------
(***************************************************************************)
(* Crash safety of one Segment file, for every capacity, every number of   *)
(* mutations and every number of crashes, in durable_sync and in           *)
(* durable_periodic.  The hypothesis SealsAreImmediate is about owners     *)
(* that seal the file: they commit immediately, and their crashes lose the *)
(* page cache.  Owners that do not seal may defer the synchronisation of   *)
(* commits and may also be killed: a Segment of durable_periodic is        *)
(* covered up to its seal.                                                 *)
(***************************************************************************)
EXTENDS SegmentFile, TLAPS

ImmediateOnly == Syncs \subseteq {"immediate"} /\ "kill" \notin CrashKinds

SealsAreImmediate == Seals => ImmediateOnly

IInv == DataOK /\ CrashSafe /\ (Seals => SyncedBetweenCommits)

----------------------------------------------------------------------------
(* Facts about extents.                                                    *)

\* Every Record of an extent is at most the last one.
LEMMA ExtentBound ==
    ASSUME DataOK, NEW n \in 0..Capacity, NEW last \in Nat, Extent(n, last)
    PROVE  \A i \in 1..n : cells[i] <= last
<1> SUFFICES ASSUME NEW i \in 1..n PROVE cells[i] <= last
  BY Zenon
<1>1. cells[i] \in Nat /\ cells[n] \in Nat /\ n \in 1..n /\ last = cells[n]
  BY SegmentFileAssumption DEF DataOK, Cells, Extent
<1>2. CASE i = n
  BY <1>1, <1>2
<1>3. CASE i < n
  BY <1>1, <1>3 DEF Extent
<1> QED
  BY <1>2, <1>3, SegmentFileAssumption

\* An extent is kept by a step that leaves its cells alone, acknowledges
\* nothing new and rejects no Record of it.
LEMMA ExtentFrame ==
    ASSUME DataOK, NEW n \in 0..Capacity, NEW last \in Nat, Extent(n, last),
           \A i \in 1..n : cells'[i] = cells[i],
           nextSeq' \in Nat, nextSeq <= nextSeq', acked' = acked,
           \A i \in 1..n : cells[i] \notin rejected' \ rejected
    PROVE  Extent(n, last)'
<1>1. Covered(cells, n)' = Covered(cells, n)
  BY Zenon DEF Covered
<1>2. rejected' \cap Covered(cells, n) = {}
  BY Zenon DEF Extent, Covered
<1>3. last < nextSeq'
  BY DEF Extent, DataOK
<1>4. (\A i \in 1..n : cells[i] # 0)' /\ (\A i, j \in 1..n : i < j => cells[i] < cells[j])'
  BY Zenon DEF Extent
<1>5. (last = IF n = 0 THEN 0 ELSE cells[n])'
  BY DEF Extent
<1> QED
  BY <1>1, <1>2, <1>3, <1>4, <1>5, Zenon DEF Extent

\* Appending the next sequence number extends an extent by one cell.
LEMMA ExtentGrow ==
    ASSUME DataOK, NEW n \in 0..Capacity, NEW last \in Nat, Extent(n, last),
           n + 1 \in Cells, NEW v \in Nat, v = nextSeq, v \notin rejected,
           cells' = [cells EXCEPT ![n + 1] = v],
           nextSeq' = v + 1, acked' = acked, rejected' = rejected
    PROVE  Extent(n + 1, v)'
<1>1. /\ \A i \in 1..n : i \in Cells /\ cells'[i] = cells[i]
      /\ \A i \in 1..n : cells'[i] \in Nat /\ cells'[i] < v
  <2>1. \A i \in 1..n : i \in Cells /\ cells[i] \in Nat /\ cells'[i] = cells[i]
    BY SegmentFileAssumption DEF DataOK, Cells
  <2> QED
    BY <2>1, ExtentBound DEF Extent
<1>2. cells'[n + 1] = v
  BY Zenon DEF DataOK
<1>3. \A i \in 1..(n + 1) : i \in 1..n \/ i = n + 1
  OBVIOUS
<1>4. \A i \in 1..(n + 1) : cells'[i] # 0
  BY <1>1, <1>2, <1>3 DEF Extent
<1>5. \A i, j \in 1..(n + 1) : i < j => cells'[i] < cells'[j]
  <2> SUFFICES ASSUME NEW i \in 1..(n + 1), NEW j \in 1..(n + 1), i < j
               PROVE  cells'[i] < cells'[j]
    BY Zenon
  <2>1. i \in 1..n
    OBVIOUS
  <2>2. CASE j = n + 1
    BY <1>1, <1>2, <2>1, <2>2, Zenon
  <2>3. CASE j \in 1..n
    BY <1>1, <2>1, <2>3, Zenon DEF Extent
  <2> QED
    BY <1>3, <2>2, <2>3, Zenon
<1>6. /\ acked \subseteq {cells'[i] : i \in 1..(n + 1)}
      /\ rejected \cap {cells'[i] : i \in 1..(n + 1)} = {}
  BY <1>1, <1>2, <1>3 DEF Extent, Covered
<1> QED
  BY <1>2, <1>4, <1>5, <1>6 DEF Extent, Covered

\* A sound commit stays sound under the same conditions, if its cells stay on
\* stable storage.
LEMMA SoundFrame ==
    ASSUME DataOK, NEW c \in Commit, Sound(c),
           \A i \in 1..c.count : cells'[i] = cells[i],
           \A i \in 1..c.count : fcells'[i] = {} /\ dcells'[i] = cells[i],
           nextSeq' \in Nat, nextSeq <= nextSeq', acked' = acked,
           \A i \in 1..c.count : cells[i] \notin rejected' \ rejected
    PROVE  Sound(c)'
<1>1. c.count \in 0..Capacity /\ c.last \in Nat
  BY Zenon DEF Commit
<1>2. Extent(c.count, c.last)
  BY Zenon DEF Sound
<1>3. Extent(c.count, c.last)'
  BY <1>1, <1>2, ExtentFrame, Zenon
<1>4. OnDisk(c.count)'
  BY Zenon DEF OnDisk, Sound
<1> QED
  BY <1>3, <1>4, Zenon DEF Sound

\* Facts about the next state, restated for the expressions that occur in it.
LEMMA ExtentSelected ==
    ASSUME NEW n, NEW l, n = selected'.count, l = selected'.last, Extent(n, l)'
    PROVE  Extent(selected.count, selected.last)'
BY Zenon DEF Extent, Covered

LEMMA SoundPersisted ==
    ASSUME NEW c, c = persisted'.commit, Sound(c)'
    PROVE  Sound(persisted.commit)'
BY Zenon DEF Sound, OnDisk, Extent, Covered

LEMMA SoundSlot ==
    ASSUME NEW c, NEW b, c = dslots'[b], Sound(c)'
    PROVE  Sound(dslots[b])'
BY Zenon DEF Sound, OnDisk, Extent, Covered

LEMMA ExtentSame ==
    ASSUME NEW n, NEW l, Extent(n, l), UNCHANGED <<cells, nextSeq, acked, rejected>>
    PROVE  Extent(n, l)'
BY Zenon DEF Extent, Covered

\* A step that leaves the Record area and the outcomes alone keeps sound
\* commits sound.
LEMMA SoundSame ==
    ASSUME NEW c, Sound(c), UNCHANGED <<cells, dcells, fcells, nextSeq, acked, rejected>>
    PROVE  Sound(c)'
BY DEF Sound, OnDisk, Extent, Covered

\* How Boundary is established in the next state.
LEMMA BoundaryIntro ==
    ASSUME NEW b, NEW o, o = Other(b), NEW d, d = dslots'[b], slots'[b] = d,
           fslots'[b] = {}, Sound(d)', Superseded(dslots'[o], d), NEW c, c = slots'[o],
           fslots'[o] \subseteq {c},
           Superseded(c, d) \/ (c.gen = d.gen + 1 /\ Sound(c)' /\ d.count <= c.count)
    PROVE  Boundary(b)'
<1>1. Sound(dslots[b])'
  BY SoundSlot, Zenon
<1>2. Other(b)' = o
  BY Zenon DEF Other
<1>3. Sound(c)' => Sound(slots[o])'
  BY Zenon DEF Sound, OnDisk, Extent, Covered
<1>4. Sound(slots[o])' => Sound(slots[Other(b)])'
  BY <1>2, Zenon DEF Sound, OnDisk, Extent, Covered
<1> QED
  BY <1>1, <1>2, <1>3, <1>4, Zenon DEF Boundary, Superseded

\* A step that leaves the file and the outcomes alone keeps the boundary.
LEMMA BoundarySame ==
    ASSUME NEW b, Boundary(b),
           UNCHANGED <<cells, slots, dcells, dslots, fcells, fslots, nextSeq, acked, rejected>>
    PROVE  Boundary(b)'
<1>1. PICK o, c, d : o = Other(b) /\ c = slots[o] /\ d = dslots[b]
  BY Zenon
<1>2. Sound(d)' /\ (Sound(c) => Sound(c)')
  BY <1>1, SoundSame, Zenon DEF Boundary
<1> QED
  BY <1>1, <1>2, BoundaryIntro, Zenon DEF Boundary

\* What a power loss leaves of a cell or slot with nothing in flight.
LEMMA LandedQuiet ==
    ASSUME NEW old, NEW torn, NEW x \in Landed(old, {}, torn)
    PROVE  x = old
BY Zenon DEF Landed

----------------------------------------------------------------------------
(* Types.                                                                  *)

LEMMA RecordTypes ==
    /\ FirstCommit \in Commit /\ BadSlot \in Commit
    /\ Idle \in [sync : {"immediate", "deferred"}, seal : BOOLEAN]
BY SegmentFileAssumption DEF FirstCommit, BadSlot, Commit, Idle

LEMMA InitType == Init => DataOK
BY RecordTypes, SegmentFileAssumption DEF Init, DataOK, SlotIds

\* The numbers of a well-typed state.
LEMMA Numbers ==
    ASSUME DataOK
    PROVE  /\ selected.count \in 0..Capacity /\ selected.last \in Nat
           /\ persisted.commit \in Commit /\ persisted.slot \in SlotIds
           /\ persisted.commit.count \in 0..Capacity
           /\ persisted.commit.last \in Nat /\ persisted.commit.gen \in Nat
           /\ \A i \in 1..selected.count : i \in Cells
           /\ \A i \in 1..persisted.commit.count : i \in Cells
<1>1. /\ selected.count \in 0..Capacity /\ selected.last \in Nat
      /\ persisted.commit \in Commit /\ persisted.slot \in SlotIds
  BY Zenon DEF DataOK, Commit
<1>2. /\ persisted.commit.count \in 0..Capacity
      /\ persisted.commit.last \in Nat /\ persisted.commit.gen \in Nat
  BY <1>1, Zenon DEF Commit
<1> QED
  BY <1>1, <1>2, SegmentFileAssumption DEF Cells

\* The commit a publication encodes is well formed.
LEMMA NextCommitType == DataOK => NextCommit \in Commit /\ NextSlot \in SlotIds
BY DEF DataOK, NextCommit, NextSlot, Other, Commit, SlotIds

LEMMA PutCellType ==
    ASSUME DataOK, NEW i, NEW v \in Nat, PutCell(i, v)
    PROVE  cells' \in [Cells -> Nat] /\ fcells' \in [Cells -> SUBSET Nat]
BY Zenon DEF PutCell, DataOK

LEMMA TypeStep == ASSUME IInv, [Next]_vars PROVE DataOK'
<1> USE SegmentFileAssumption, RecordTypes DEF IInv
<1>1. CASE AppendRecord
  <2>1. selected.count + 1 \in Cells /\ selected.count + 1 \in 0..Capacity
    BY <1>1, Numbers DEF AppendRecord, Cells
  <2>2. pending + 1 \in 0..Capacity
    <3>1. selected.count = persisted.commit.count + pending
      BY <1>1, Zenon DEF AppendRecord, Appendable, Quiet, CrashSafe, Closed, Running, Poisoned
    <3> QED
      BY <2>1, <3>1, Numbers DEF DataOK
  <2>3. selected' \in Commit
    <3>1. selected' = WithExtent(selected, selected.count + 1, nextSeq)
      BY <1>1, Zenon DEF AppendRecord
    <3> QED
      BY <2>1, <3>1, Zenon DEF WithExtent, DataOK, Commit
  <2> QED
    BY <1>1, <2>1, <2>2, <2>3 DEF AppendRecord, PutCell, DataOK
<1>2. CASE AppendRefused
  BY <1>2 DEF AppendRefused, DataOK, fileVars, handleVars
<1>14. CASE AppendPacingFails
  <2>1. /\ PutCell(selected.count + 1, 0) /\ rejected' = rejected \cup {nextSeq}
        /\ nextSeq' = nextSeq + 1
    BY <1>14, Zenon DEF AppendPacingFails
  <2>2. cells' \in [Cells -> Nat] /\ fcells' \in [Cells -> SUBSET Nat]
    BY <2>1, PutCellType, 0 \in Nat, Zenon
  <2> QED
    BY <1>14, <2>1, <2>2 DEF AppendPacingFails, PutCell, DataOK, handleVars
<1>15. CASE AppendWriteFails
  <2>1. PICK v \in {0, nextSeq} : PutCell(selected.count + 1, v)
    BY <1>15, Zenon DEF AppendWriteFails
  <2>2. v \in Nat
    BY <2>1 DEF DataOK
  <2>3. cells' \in [Cells -> Nat] /\ fcells' \in [Cells -> SUBSET Nat]
    BY <2>1, <2>2, PutCellType, Zenon
  <2> QED
    BY <1>15, <2>1, <2>2, <2>3 DEF AppendWriteFails, PutCell, DataOK
<1>3. ASSUME NEW sync \in Syncs, FlushPendingCommit(sync) PROVE DataOK'
  BY <1>3, Zenon DEF FlushPendingCommit, DataOK, fileVars, handleVars, ghostVars
<1>16. CASE Seal
  BY <1>16, Zenon DEF Seal, DataOK, fileVars, handleVars, ghostVars
<1>17. CASE SyncFile
  BY <1>17, Zenon DEF SyncFile, DataOK, fileVars, handleVars, ghostVars
<1>4. CASE SyncRecord
  BY <1>4, Zenon DEF SyncRecord, SyncOk, DataOK, handleVars, ghostVars
<1>5. ASSUME NotCommitted, UNCHANGED fileVars \/ SyncFails
      PROVE  DataOK'
  <2>1. PendingSeqs \subseteq Nat
    <3>1. \A i \in (persisted.commit.count + 1)..selected.count : i \in Cells
      BY Numbers DEF Cells
    <3> QED
      BY <3>1 DEF PendingSeqs, DataOK
  <2>2. selected' \in Commit
    BY <1>5, Zenon DEF NotCommitted, RollbackPendingMetadata, WithExtent, DataOK, Commit
  <2> QED
    BY <1>5, <2>1, <2>2
       DEF NotCommitted, RollbackPendingMetadata, Finish, SyncFails, DataOK, fileVars
<1>6. CASE SyncRecordRefused \/ SyncRecordFails \/ WriteCommitSlotRefused
  BY <1>5, <1>6, Zenon DEF SyncRecordRefused, SyncRecordFails, WriteCommitSlotRefused, DataOK
<1>7. CASE WriteCommitSlot
  <2>1. PutSlot(NextSlot, NextCommit)
    BY <1>7, Zenon DEF WriteCommitSlot
  <2> QED
    BY <1>7, <2>1, NextCommitType
       DEF WriteCommitSlot, PutSlot, Finish, DataOK, ghostVars
<1>8. CASE WriteCommitSlotFails
  <2>1. PICK v \in {slots[NextSlot], BadSlot, NextCommit} : PutSlot(NextSlot, v)
    BY <1>8, Zenon DEF WriteCommitSlotFails
  <2>2. v \in Commit
    BY <2>1, NextCommitType DEF DataOK
  <2>3. selected' \in Commit
    BY <1>8, Zenon DEF WriteCommitSlotFails, RollbackPendingMetadata, WithExtent, DataOK, Commit
  <2> QED
    BY <1>8, <2>1, <2>2, <2>3, NextCommitType
       DEF WriteCommitSlotFails, RollbackPendingMetadata, Indeterminate, PutSlot,
           Finish, DataOK, ghostVars
<1>9. CASE SyncCommitSlot
  <2>1. Covered(cells, persisted.commit.count) \subseteq Nat
    BY Numbers DEF Covered, DataOK
  <2> QED
    BY <1>9, <2>1, Zenon DEF SyncCommitSlot, SyncOk, Finish, DataOK
<1>10. CASE SyncCommitSlotRefused \/ SyncCommitSlotFails
  BY <1>10, Zenon DEF SyncCommitSlotRefused, SyncCommitSlotFails, SyncFails, Indeterminate,
               Finish, DataOK, fileVars, ghostVars
<1>11. CASE PowerLoss
  <2>1. \A i \in Cells : Landed(dcells[i], fcells[i], 0) \subseteq Nat
    BY DEF Landed, DataOK
  <2>2. cells' \in [Cells -> Nat]
    BY <1>11, <2>1, Zenon DEF PowerLoss
  <2>3. \A s \in SlotIds : Landed(dslots[s], fslots[s], BadSlot) \subseteq Commit
    BY DEF Landed, DataOK
  <2>4. slots' \in [SlotIds -> Commit]
    BY <1>11, <2>3 DEF PowerLoss, SlotIds
  <2> QED
    BY <1>11, <2>2, <2>4 DEF PowerLoss, Gone, DataOK
<1>12. CASE Kill
  BY <1>12 DEF Kill, Gone, DataOK, fileVars
<1>18. CASE Open
  <2>1. PICK s \in SlotIds : persisted' = [slot |-> s, commit |-> slots[s]] /\ selected' = slots[s]
    BY <1>18, Zenon DEF Open
  <2> QED
    BY <1>18, <2>1 DEF Open, DataOK, fileVars, ghostVars
<1>13. CASE UNCHANGED vars
  BY <1>13, Zenon DEF vars, fileVars, handleVars, ghostVars, DataOK
<1> QED
  BY <1>1, <1>2, <1>3, <1>4, <1>6, <1>7, <1>8, <1>9, <1>10, <1>11, <1>12, <1>13,
     <1>14, <1>15, <1>16, <1>17, <1>18, Zenon DEF Next

----------------------------------------------------------------------------
(* The phases of the handle.                                               *)

\* A commit of fewer Records than an extent is that extent cut short.
LEMMA RunningFacts ==
    ASSUME DataOK, Running
    PROVE  /\ persisted.commit.count <= selected.count
           /\ \A i \in 1..selected.count : i \in Cells /\ cells[i] \in Nat /\ cells[i] < nextSeq
           /\ \A i \in 1..persisted.commit.count : i \in 1..selected.count
<1>1. persisted.commit.count <= selected.count
  BY Numbers, SegmentFileAssumption DEF Running, DataOK
<1>2. \A i \in 1..selected.count : cells[i] <= selected.last
  BY Numbers, ExtentBound, Zenon DEF Running
<1>3. \A i \in 1..selected.count : i \in Cells /\ cells[i] \in Nat
  BY Numbers, Zenon DEF DataOK
<1>4. \A i \in 1..selected.count : cells[i] < nextSeq
  BY <1>2, <1>3, Numbers DEF Running, Extent, DataOK
<1> QED
  BY <1>1, <1>3, <1>4, Numbers

\* Every phase has a boundary.
LEMMA SomeBoundary ==
    ASSUME CrashSafe
    PROVE  \E b \in SlotIds : Boundary(b)
BY Zenon DEF CrashSafe, Closed, Running, Poisoned

LEMMA HealthyRuns ==
    ASSUME CrashSafe, (open /\ healthy) \/ pc # "idle"
    PROVE  Running /\ open /\ healthy /\ ~lost
BY Zenon DEF CrashSafe, Closed, Poisoned, Running

\* The persisted commit and the boundary survive a step that leaves the slots
\* and the Records of the commit alone and rejects none of these.
LEMMA CommitFrame ==
    ASSUME DataOK, Running, UNCHANGED <<slots, dslots, fslots, persisted>>,
           \A i \in 1..persisted.commit.count :
               /\ cells'[i] = cells[i] /\ fcells'[i] = fcells[i] /\ dcells'[i] = dcells[i]
               /\ cells[i] \notin rejected' \ rejected,
           nextSeq' \in Nat, nextSeq <= nextSeq', acked' = acked
    PROVE  Sound(persisted.commit)' /\ \E b \in SlotIds : Boundary(b)'
<1>1. PICK p \in Commit : p = persisted.commit /\ Sound(p)
  BY Numbers, Zenon DEF Running
<1>2. ASSUME NEW c \in Commit, Sound(c), c.count <= p.count
      PROVE  Sound(c)'
  <2>1. \A i \in 1..c.count : i \in 1..p.count
    BY <1>1, <1>2, SegmentFileAssumption DEF Commit
  <2>2. \A i \in 1..c.count : fcells[i] = {} /\ dcells[i] = cells[i]
    BY <1>2, Zenon DEF Sound, OnDisk
  <2>3. /\ \A i \in 1..c.count : cells'[i] = cells[i]
        /\ \A i \in 1..c.count : fcells'[i] = {} /\ dcells'[i] = cells[i]
        /\ \A i \in 1..c.count : cells[i] \notin rejected' \ rejected
    BY <1>1, <2>1, <2>2, Zenon
  <2> QED
    BY <1>2, <2>3, SoundFrame, Zenon
<1>3. Sound(p)'
  <2>1. p.count <= p.count
    BY SegmentFileAssumption DEF Commit
  <2> QED
    BY <1>1, <1>2, <2>1, Zenon
<1>4. Sound(persisted.commit)'
  BY <1>1, <1>3, SoundPersisted, Zenon
<1>5. PICK b \in SlotIds : Boundary(b)
  BY Zenon DEF Running
<1>6. PICK o \in SlotIds : o = Other(b) /\ Other(o) = b /\ SlotIds = {b, o}
  BY DEF Other, SlotIds
<1>7. PICK c \in Commit, d \in Commit : c = slots[o] /\ d = dslots[b] /\ d = slots[b] /\ Sound(d)
  BY <1>5, <1>6, Zenon DEF DataOK, Boundary
<1>8. CASE persisted.slot = b
  <2>1. p = d /\ Superseded(c, d)
    BY <1>1, <1>6, <1>7, <1>8, Zenon DEF Running
  <2> QED
    BY <1>3, <1>4, <1>5, <1>6, <1>7, <2>1, BoundaryIntro, Zenon DEF Boundary
<1>9. CASE persisted.slot = o
  <2>1. p = c /\ Superseded(d, p)
    BY <1>1, <1>6, <1>7, <1>9, Zenon DEF Running
  <2>2. Sound(d)'
    BY <1>2, <1>7, <2>1, Zenon DEF Superseded, Sound
  <2> QED
    BY <1>3, <1>4, <1>5, <1>6, <1>7, <2>1, <2>2, BoundaryIntro, Zenon DEF Boundary
<1> QED
  BY <1>6, <1>8, <1>9, Numbers, Zenon

\* After an fdatasync the persisted commit is the boundary.
LEMMA SyncedFrame ==
    ASSUME DataOK, Running, SyncOk, UNCHANGED <<persisted, nextSeq, rejected>>,
           acked' = acked \/ acked' = acked \cup Covered(cells, persisted.commit.count)
    PROVE  /\ dcells' = cells /\ UNCHANGED <<cells, slots, lost>> /\ SlotsSynced'
           /\ \A n \in 0..Capacity : OnDisk(n)'
           /\ Sound(persisted.commit)' /\ \E b \in SlotIds : Boundary(b)'
<1>1. /\ dcells' = cells /\ dslots' = slots /\ UNCHANGED <<cells, slots, lost>>
      /\ \A i \in Cells : fcells'[i] = {}
      /\ \A s \in SlotIds : fslots'[s] = {}
  BY Zenon DEF SyncOk, Running
<1>2. SlotsSynced'
  BY <1>1, Zenon DEF SlotsSynced
<1>3. ASSUME NEW n \in 0..Capacity PROVE OnDisk(n)'
  <2>1. \A i \in 1..n : i \in Cells
    BY SegmentFileAssumption DEF Cells
  <2> QED
    BY <1>1, <2>1, Zenon DEF OnDisk
<1>4. PICK p \in Commit : p = persisted.commit /\ p.ok /\ Extent(p.count, p.last)
  BY Numbers, Zenon DEF Running, Sound
<1>5. Sound(p)'
  <2>1. Extent(p.count, p.last)'
    BY <1>1, <1>4 DEF Extent, Covered
  <2>2. OnDisk(p.count)'
    BY <1>3, <1>4, Numbers, Zenon
  <2> QED
    BY <1>4, <2>1, <2>2, Zenon DEF Sound
<1>6. Sound(persisted.commit)'
  BY <1>4, <1>5, SoundPersisted, Zenon
<1>7. PICK b \in SlotIds, o \in SlotIds : b = persisted.slot /\ o = Other(b)
  BY Numbers DEF Other, SlotIds
<1>8. Boundary(b)'
  <2>1. p = slots[b] /\ Superseded(slots[o], p)
    BY <1>4, <1>7, Zenon DEF Running
  <2> QED
    BY <1>1, <1>5, <1>7, <2>1, BoundaryIntro, Zenon
<1> QED
  BY <1>1, <1>2, <1>3, <1>6, <1>8, Zenon

----------------------------------------------------------------------------
(* append_record and the first half of a flush: one lemma per action.      *)

LEMMA AppendRecordSafe == ASSUME IInv, AppendRecord PROVE CrashSafe'
<1> USE SegmentFileAssumption DEF IInv
<1>1. Running /\ pc = "idle"
  BY HealthyRuns, Zenon DEF AppendRecord, Appendable, Quiet
<1> DEFINE n == selected.count
<1>2. n \in 0..Capacity /\ n + 1 \in Cells /\ n + 1 \in 0..Capacity /\ nextSeq \in Nat
  BY Numbers, SMTT(40) DEF AppendRecord, Cells, DataOK
<1>3. /\ cells' = [cells EXCEPT ![n + 1] = nextSeq] /\ cells \in [Cells -> Nat]
      /\ \A i \in 1..n : fcells'[i] = fcells[i]
      /\ UNCHANGED <<slots, dcells, dslots, fslots, lost>>
  BY <1>2, Numbers DEF AppendRecord, PutCell, DataOK
<1>4. \A i \in 1..n : cells'[i] = cells[i]
  BY <1>1, <1>2, <1>3, RunningFacts
<1>5. Sound(persisted.commit)' /\ \E b \in SlotIds : Boundary(b)'
  <2>1. UNCHANGED <<persisted, acked, rejected>> /\ nextSeq' = nextSeq + 1
    BY Zenon DEF AppendRecord
  <2>2. nextSeq' \in Nat /\ nextSeq <= nextSeq'
    BY <1>2, <2>1
  <2>3. \A i \in 1..persisted.commit.count :
            /\ cells'[i] = cells[i] /\ fcells'[i] = fcells[i] /\ dcells'[i] = dcells[i]
            /\ cells[i] \notin rejected' \ rejected
    BY <1>1, <1>3, <1>4, <2>1, RunningFacts, Zenon
  <2> QED
    BY <1>1, <1>3, <2>1, <2>2, <2>3, CommitFrame, Zenon
<1>7. Extent(selected.count, selected.last)'
  <2>1. /\ selected' = WithExtent(selected, n + 1, nextSeq)
        /\ nextSeq' = nextSeq + 1 /\ acked' = acked /\ rejected' = rejected
    BY Zenon DEF AppendRecord
  <2>2. selected'.count = n + 1 /\ selected'.last = nextSeq
    BY <2>1, Zenon DEF WithExtent
  <2>3. nextSeq \notin rejected
    BY <1>2 DEF CrashSafe
  <2>4. PICK v \in Nat : v = nextSeq
    BY <1>2, Zenon
  <2>5. PICK m \in 0..Capacity : m = n
    BY <1>2, Zenon
  <2>6. Extent(m + 1, v)'
    BY <1>1, <1>2, <1>3, <2>1, <2>3, <2>4, <2>5, Numbers, ExtentGrow, Zenon DEF Running
  <2> QED
    BY <2>2, <2>4, <2>5, <2>6, Zenon DEF Extent, Covered
<1>8. selected' = WithExtent(persisted.commit, selected.count, selected.last)'
  BY <1>1 DEF AppendRecord, Running, WithExtent
<1>9. (selected.count = persisted.commit.count + pending)'
  BY <1>1, Numbers DEF AppendRecord, Running, WithExtent, DataOK
<1>10. Running'
  <2>1. UNCHANGED <<open, persisted, healthy, pc>>
    BY Zenon DEF AppendRecord
  <2> QED
    BY <1>1, <1>3, <1>5, <1>7, <1>8, <1>9, <2>1, Zenon DEF Running, Superseded, Other
<1>11. (\A r \in rejected : r < nextSeq)'
  BY <1>2 DEF AppendRecord, CrashSafe, DataOK
<1> QED
  BY <1>10, <1>11, Zenon DEF CrashSafe

\* A Record that is refused or torn: what it leaves alone.
LEMMA RejectedFrame ==
    ASSUME IInv, AppendRefused \/ AppendPacingFails \/ AppendWriteFails
    PROVE  /\ Running /\ pc = "idle"
           /\ UNCHANGED <<slots, dslots, fslots, lost, open, persisted, selected, pending, pc, op,
                          acked>>
           /\ Extent(selected.count, selected.last)' /\ Sound(persisted.commit)'
           /\ \E b \in SlotIds : Boundary(b)'
           /\ (\A r \in rejected : r < nextSeq)'
<1> USE SegmentFileAssumption DEF IInv
<1>1. Running /\ pc = "idle"
  BY HealthyRuns, Zenon DEF AppendRefused, AppendPacingFails, AppendWriteFails, Appendable, Quiet
<1>2. /\ UNCHANGED <<slots, dcells, dslots, fslots, lost, open, persisted, selected, pending, pc,
                     op, acked>>
      /\ rejected' = rejected \cup {nextSeq} /\ nextSeq' = nextSeq + 1
      /\ \A i \in 1..selected.count : cells'[i] = cells[i] /\ fcells'[i] = fcells[i]
  BY Numbers
  DEF AppendRefused, AppendPacingFails, AppendWriteFails, PutCell, fileVars, handleVars, DataOK
<1>3. /\ nextSeq \in Nat /\ nextSeq' \in Nat /\ nextSeq <= nextSeq'
      /\ \A i \in 1..selected.count : cells[i] \notin rejected' \ rejected
  BY <1>1, <1>2, RunningFacts DEF DataOK
<1>4. Extent(selected.count, selected.last)'
  <2>1. PICK n \in 0..Capacity, l \in Nat : n = selected.count /\ l = selected.last
    BY Numbers, Zenon
  <2>2. Extent(n, l)'
    BY <1>1, <1>2, <1>3, <2>1, ExtentFrame, Zenon DEF Running
  <2> QED
    BY <1>2, <2>1, <2>2, Zenon DEF Extent, Covered
<1>5. Sound(persisted.commit)' /\ \E b \in SlotIds : Boundary(b)'
  <2>1. \A i \in 1..persisted.commit.count :
            /\ cells'[i] = cells[i] /\ fcells'[i] = fcells[i] /\ dcells'[i] = dcells[i]
            /\ cells[i] \notin rejected' \ rejected
    BY <1>1, <1>2, <1>3, RunningFacts, Zenon
  <2> QED
    BY <1>1, <1>2, <1>3, <2>1, CommitFrame, Zenon
<1>6. (\A r \in rejected : r < nextSeq)'
  <2>1. \A r \in rejected : r < nextSeq /\ r \in Nat
    BY Zenon DEF CrashSafe, DataOK
  <2> QED
    BY <1>2, <1>3, <2>1
<1> QED
  BY <1>1, <1>2, <1>4, <1>5, <1>6, Zenon

\* A Record that is refused, or torn by the pacer, leaves the phase as it is.
LEMMA AppendRejectedSafe ==
    ASSUME IInv, AppendRefused \/ AppendPacingFails
    PROVE  CrashSafe'
<1>1. healthy' = healthy
  BY Zenon DEF AppendRefused, AppendPacingFails, handleVars
<1>2. /\ Running /\ pc' # "write_slot"
      /\ UNCHANGED <<slots, lost, open, persisted, selected, pending>>
      /\ Extent(selected.count, selected.last)' /\ Sound(persisted.commit)'
      /\ \E b \in SlotIds : Boundary(b)'
  BY RejectedFrame
<1>3. Running'
  BY <1>1, <1>2, Zenon DEF Running, Superseded, Other, WithExtent
<1> QED
  BY <1>3, RejectedFrame, Zenon DEF CrashSafe

LEMMA AppendWriteFailsSafe == ASSUME IInv, AppendWriteFails PROVE CrashSafe'
<1>1. ~healthy'
  BY Zenon DEF AppendWriteFails
<1>2. /\ open' /\ pc' = "idle" /\ Sound(persisted.commit)'
      /\ \E b \in SlotIds : Boundary(b)'
  BY RejectedFrame DEF Running
<1>3. Poisoned'
  BY <1>1, <1>2, Zenon DEF Poisoned, Sound, Extent
<1> QED
  BY <1>3, RejectedFrame, Zenon DEF CrashSafe

\* Entering flush_pending_commit, seal or sync_file only moves the program
\* counter; a seal with nothing pending finds its Records and both slots on
\* stable storage.
LEMMA EntrySafe ==
    ASSUME IInv, (\E sync \in Syncs : FlushPendingCommit(sync)) \/ Seal \/ SyncFile
    PROVE  CrashSafe'
<1> USE DEF IInv
<1>1. /\ open /\ healthy /\ pc = "idle" /\ UNCHANGED <<fileVars, handleVars, ghostVars>>
      /\ pc' = "write_slot" => pending = 0 /\ SlotsSynced
  <2>1. ASSUME NEW sync \in Syncs, FlushPendingCommit(sync)
        PROVE  <1>1!1 /\ <1>1!2
    BY <2>1, Zenon DEF FlushPendingCommit, Quiet
  <2>2. CASE Seal
    <3>1. pending \in Nat
      BY SegmentFileAssumption DEF DataOK
    <3>2. pc' = "write_slot" => pending = 0
      BY <2>2, <3>1 DEF Seal
    <3> QED
      BY <2>2, <3>2, Zenon DEF Seal, Quiet, SyncedBetweenCommits
  <2>3. CASE SyncFile
    BY <2>3, Zenon DEF SyncFile, Quiet
  <2> QED
    BY <2>1, <2>2, <2>3, Zenon
<1>2. Running
  BY <1>1, HealthyRuns, Zenon
<1>3. pc' = "write_slot" => OnDisk(selected.count)
  BY <1>1, <1>2, Numbers DEF Running, Sound, DataOK
<1>4. UNCHANGED <<cells, slots, dcells, dslots, fcells, fslots, lost, open, healthy, selected,
                  persisted, pending, nextSeq, acked, rejected>>
  BY <1>1, Zenon DEF fileVars, handleVars, ghostVars
<1>5. (OnDisk(selected.count) => OnDisk(selected.count)') /\ (SlotsSynced => SlotsSynced')
  BY <1>4, Zenon DEF OnDisk, SlotsSynced
<1>6. Extent(selected.count, selected.last)' /\ Sound(persisted.commit)'
  <2>1. Extent(selected.count, selected.last) /\ Sound(persisted.commit)
    BY <1>2, Zenon DEF Running
  <2> QED
    BY <1>4, <2>1 DEF Sound, OnDisk, Extent, Covered
<1>7. \E b \in SlotIds : Boundary(b)'
  BY <1>2, <1>4, BoundarySame, Zenon DEF Running
<1>8. Running'
  BY <1>1, <1>2, <1>3, <1>4, <1>5, <1>6, <1>7, Zenon DEF Running, Superseded, WithExtent, Other
<1> QED
  BY <1>4, <1>8, Zenon DEF CrashSafe

LEMMA SyncRecordSafe == ASSUME IInv, SyncRecord PROVE CrashSafe'
<1> USE DEF IInv
<1>1. Running
  BY HealthyRuns, Zenon DEF SyncRecord
<1>2. SyncOk /\ pc' = "write_slot"
      /\ UNCHANGED <<open, healthy, selected, persisted, pending, nextSeq, acked, rejected>>
  BY Zenon DEF SyncRecord, handleVars, ghostVars
<1>3. /\ UNCHANGED <<cells, slots, lost>> /\ SlotsSynced' /\ Sound(persisted.commit)'
      /\ \A n \in 0..Capacity : OnDisk(n)'
      /\ \E b \in SlotIds : Boundary(b)'
  BY <1>1, <1>2, SyncedFrame, Zenon
<1>4. OnDisk(selected.count)'
  BY <1>2, <1>3, Numbers, Zenon DEF OnDisk
<1>5. Extent(selected.count, selected.last)'
  BY <1>1, <1>2, <1>3, ExtentSame, ExtentSelected, Zenon DEF Running
<1>6. Running'
  BY <1>1, <1>2, <1>3, <1>4, <1>5, Zenon DEF Running, Superseded, WithExtent, Other
<1> QED
  BY <1>2, <1>6, Zenon DEF CrashSafe

\* The rollback of a flush that was refused or failed before its slot was
\* written: the pending Records are rejected, none of them is in the commit.
LEMMA NotCommittedSafe ==
    ASSUME IInv, Running, NotCommitted,
           UNCHANGED <<cells, slots, dcells, dslots, fcells, fslots>>,
           (~lost' /\ healthy') \/ ~healthy'
    PROVE  CrashSafe'
<1> USE SegmentFileAssumption DEF IInv
<1>1. /\ UNCHANGED <<open, persisted, nextSeq, acked>> /\ pc' = "idle" /\ op' = Idle
      /\ rejected' = rejected \cup PendingSeqs /\ pending' = 0
      /\ selected' = WithExtent(selected, persisted.commit.count, persisted.commit.last)
  BY Zenon DEF NotCommitted, Finish, RollbackPendingMetadata
<1>2. \A r \in PendingSeqs : r < nextSeq
  BY Numbers, RunningFacts DEF PendingSeqs
<1>3. \A i \in 1..persisted.commit.count : cells[i] \notin PendingSeqs
  <2> SUFFICES ASSUME NEW i \in 1..persisted.commit.count,
                      NEW j \in (persisted.commit.count + 1)..selected.count
               PROVE  cells[i] # cells[j]
    BY Zenon DEF PendingSeqs
  <2>1. i \in 1..selected.count /\ j \in 1..selected.count /\ i < j
    BY Numbers, RunningFacts
  <2>2. cells[i] < cells[j] /\ cells[i] \in Nat /\ cells[j] \in Nat
    BY <2>1, RunningFacts, Zenon DEF Running, Extent
  <2> QED
    BY <2>2
<1>4. Sound(persisted.commit)' /\ \E b \in SlotIds : Boundary(b)'
  <2>1. nextSeq' \in Nat /\ nextSeq <= nextSeq'
    BY <1>1 DEF DataOK
  <2> QED
    BY <1>1, <1>3, <2>1, CommitFrame, Zenon
<1>5. Extent(selected.count, selected.last)'
  BY <1>1, <1>4, SMTT(40) DEF Sound, WithExtent, Extent, Covered
<1>6. ~lost' /\ healthy' => Running'
  <2>1. selected' = WithExtent(persisted.commit, selected.count, selected.last)'
    BY <1>1 DEF Running, WithExtent
  <2>2. (selected.count = persisted.commit.count + pending)'
    <3>1. selected'.count = persisted.commit.count /\ pending' = 0 /\ persisted' = persisted
      BY <1>1, Zenon DEF WithExtent
    <3>2. persisted.commit.count \in Nat
      BY Numbers
    <3> QED
      BY <3>1, <3>2
  <2> QED
    BY <1>1, <1>4, <1>5, <2>1, <2>2, Zenon DEF Running, Superseded, Other
<1>7. ~healthy' => Poisoned'
  BY <1>1, <1>4, Zenon DEF Running, Poisoned, Sound, Extent
<1>8. (\A r \in rejected : r < nextSeq)'
  BY <1>1, <1>2, Zenon DEF CrashSafe
<1> QED
  BY <1>6, <1>7, <1>8, Zenon DEF CrashSafe

LEMMA RefusedSafe ==
    ASSUME IInv, SyncRecordRefused \/ SyncRecordFails \/ WriteCommitSlotRefused
    PROVE  CrashSafe'
<1>1. Running /\ healthy /\ ~lost
  BY HealthyRuns, Zenon DEF SyncRecordRefused, SyncRecordFails, WriteCommitSlotRefused, IInv
<1>2. NotCommitted /\ UNCHANGED <<cells, slots, dcells, dslots, fcells, fslots>>
  BY Zenon DEF SyncRecordRefused, SyncRecordFails, WriteCommitSlotRefused, SyncFails, fileVars
<1>3. (~lost' /\ healthy') \/ ~healthy'
  BY <1>1, Zenon DEF SyncRecordRefused, SyncRecordFails, WriteCommitSlotRefused, fileVars
<1> QED
  BY <1>1, <1>2, <1>3, NotCommittedSafe, Zenon

----------------------------------------------------------------------------
(* publish_commit, sync_file, a crash and open: one lemma per action.      *)

\* The commit that publish_commit writes is sound and newer than every other.
LEMMA NextCommitSound ==
    ASSUME IInv, Running, pc = "write_slot"
    PROVE  /\ NextCommit \in Commit /\ Sound(NextCommit)
           /\ NextCommit.gen = persisted.commit.gen + 1
           /\ NextCommit.count = selected.count /\ NextCommit.last = selected.last
           /\ persisted.commit.count <= NextCommit.count
           /\ NextSlot \in SlotIds /\ Other(NextSlot) = persisted.slot
<1>1. NextCommit \in Commit /\ NextSlot \in SlotIds
  BY NextCommitType, Zenon DEF IInv
<1>2. /\ NextCommit.ok /\ NextCommit.gen = persisted.commit.gen + 1
      /\ NextCommit.count = selected.count /\ NextCommit.last = selected.last
  BY Zenon DEF NextCommit
<1>3. Sound(NextCommit)
  BY <1>2, Zenon DEF Sound, Running
<1>4. Other(NextSlot) = persisted.slot
  BY Numbers DEF NextSlot, Other, SlotIds, IInv
<1> QED
  BY <1>1, <1>2, <1>3, <1>4, RunningFacts, Zenon DEF IInv

\* A write of the next slot, complete or not.
LEMMA SlotWrite ==
    ASSUME IInv, Running, pc = "write_slot", NEW v \in {slots[NextSlot], BadSlot, NextCommit},
           PutSlot(NextSlot, v), UNCHANGED <<nextSeq, acked, rejected>>
    PROVE  /\ UNCHANGED <<cells, dcells, dslots, fcells, lost>>
           /\ slots'[NextSlot] = v /\ slots'[persisted.slot] = persisted.commit
           /\ \A c : Sound(c) => Sound(c)'
           /\ \E b \in SlotIds : Boundary(b)'
<1>1. /\ UNCHANGED <<cells, dcells, dslots, fcells, lost>>
      /\ slots' = [slots EXCEPT ![NextSlot] = v]
      /\ fslots' = [fslots EXCEPT ![NextSlot] = @ \cup {v}]
  BY Zenon DEF PutSlot
<1>2. PICK old \in SlotIds, new \in SlotIds :
        old = persisted.slot /\ new = NextSlot /\ Other(old) = new /\ Other(new) = old
  BY NextCommitSound, Numbers, Zenon DEF NextSlot, IInv
<1>3. /\ slots'[old] = slots[old] /\ fslots'[old] = {} /\ dslots'[old] = slots[old]
      /\ slots'[new] = v /\ fslots'[new] = {v} /\ dslots'[new] = slots[new]
      /\ slots[old] = persisted.commit
  <2>1. old # new
    BY <1>2 DEF Other, SlotIds
  <2>2. slots \in [SlotIds -> Commit] /\ fslots \in [SlotIds -> SUBSET Commit]
    BY Zenon DEF IInv, DataOK
  <2> QED
    BY <1>1, <1>2, <2>1, <2>2, Zenon DEF Running, SlotsSynced
<1>4. PICK d \in Commit : d = slots[old] /\ Sound(d)
  BY <1>2, <1>3, Zenon DEF IInv, DataOK, Running
<1>5. \A c : Sound(c) => Sound(c)'
  BY <1>1, SoundSame, Zenon
<1>6. Superseded(slots[new], d)
  BY <1>2, <1>3, <1>4, Zenon DEF Running
<1>7. Superseded(v, d) \/ (v.gen = d.gen + 1 /\ Sound(v)' /\ d.count <= v.count)
  <2>1. CASE v = slots[new]
    BY <1>6, <2>1, Zenon
  <2>2. CASE v = BadSlot
    BY <2>2, Zenon DEF BadSlot, Superseded
  <2>3. CASE v = NextCommit
    BY <1>3, <1>4, <1>5, <2>3, NextCommitSound, Zenon
  <2> QED
    BY <1>2, <2>1, <2>2, <2>3, Zenon
<1>8. Boundary(old)'
  BY <1>2, <1>3, <1>4, <1>5, <1>6, <1>7, BoundaryIntro, Zenon
<1> QED
  BY <1>1, <1>2, <1>3, <1>5, <1>8, Zenon

LEMMA WriteCommitSlotSafe == ASSUME IInv, WriteCommitSlot PROVE CrashSafe'
<1>1. Running
  BY HealthyRuns, Zenon DEF WriteCommitSlot, IInv
<1>2. /\ PutSlot(NextSlot, NextCommit) /\ pc = "write_slot" /\ pc' # "write_slot" /\ pending' = 0
      /\ selected' = NextCommit /\ persisted' = [slot |-> NextSlot, commit |-> NextCommit]
      /\ UNCHANGED <<open, healthy, nextSeq, acked, rejected>>
  BY <1>1, Zenon DEF WriteCommitSlot, Finish, ghostVars
<1>3. /\ UNCHANGED <<cells, dcells, dslots, fcells, lost>>
      /\ slots'[NextSlot] = NextCommit /\ slots'[persisted.slot] = persisted.commit
      /\ \A c : Sound(c) => Sound(c)'
      /\ \E b \in SlotIds : Boundary(b)'
  BY <1>1, <1>2, SlotWrite, Zenon
<1>4. PICK c \in Commit, new \in SlotIds :
        /\ c = NextCommit /\ new = NextSlot /\ Other(new) = persisted.slot
        /\ Sound(c) /\ Sound(c)' /\ c = persisted'.commit /\ c = selected' /\ new = persisted'.slot
        /\ c.gen = persisted.commit.gen + 1 /\ persisted.commit.count <= c.count
  BY <1>1, <1>2, <1>3, NextCommitSound, Zenon
<1>5. Sound(persisted.commit)' /\ Extent(selected.count, selected.last)'
  BY <1>4, SoundPersisted, ExtentSelected, Zenon DEF Sound
<1>6. Superseded(slots[Other(persisted.slot)], persisted.commit)'
  <2>1. slots'[Other(new)] = persisted.commit /\ Other(persisted.slot)' = Other(new)
    BY <1>3, <1>4, Zenon DEF Other
  <2>2. persisted.commit.gen < c.gen
    BY <1>4, Numbers DEF IInv
  <2> QED
    BY <1>4, <2>1, <2>2, Zenon DEF Superseded
<1>7. selected' = WithExtent(persisted.commit, selected.count, selected.last)'
  BY <1>4, Zenon DEF WithExtent, Commit
<1>8. (selected.count = persisted.commit.count + pending)'
  <2>1. c.count \in Nat
    BY SegmentFileAssumption DEF Commit
  <2> QED
    BY <1>2, <1>4, <2>1
<1>9. Running'
  BY <1>1, <1>2, <1>3, <1>4, <1>5, <1>6, <1>7, <1>8, Zenon DEF Running
<1> QED
  BY <1>2, <1>9, Zenon DEF CrashSafe, IInv

LEMMA WriteCommitSlotFailsSafe == ASSUME IInv, WriteCommitSlotFails PROVE CrashSafe'
<1>1. Running /\ pc = "write_slot"
  BY HealthyRuns, Zenon DEF WriteCommitSlotFails, IInv
<1>2. PICK v \in {slots[NextSlot], BadSlot, NextCommit} : PutSlot(NextSlot, v)
  BY Zenon DEF WriteCommitSlotFails
<1>3. pc' = "idle" /\ ~healthy' /\ UNCHANGED <<open, persisted, nextSeq, acked, rejected>>
  BY Zenon DEF WriteCommitSlotFails, Indeterminate, Finish, ghostVars
<1>4. cells' = cells /\ \E b \in SlotIds : Boundary(b)'
  BY <1>1, <1>2, <1>3, SlotWrite, Zenon
<1>5. Poisoned'
  BY <1>1, <1>3, <1>4, Zenon DEF Poisoned, Running, Sound, Extent
<1> QED
  BY <1>3, <1>5, Zenon DEF CrashSafe, IInv

\* The commit point: after the fdatasync the persisted commit is durable and
\* acknowledging its Records keeps it sound.
LEMMA SyncCommitSlotSafe == ASSUME IInv, SyncCommitSlot PROVE CrashSafe'
<1>1. Running
  BY HealthyRuns, Zenon DEF SyncCommitSlot, IInv
<1>2. /\ SyncOk /\ acked' = acked \cup Covered(cells, persisted.commit.count)
      /\ UNCHANGED <<open, persisted, selected, pending, healthy, nextSeq, rejected>>
  BY Zenon DEF SyncCommitSlot
<1>3. /\ UNCHANGED <<cells, slots, lost>> /\ SlotsSynced' /\ Sound(persisted.commit)'
      /\ \A n \in 0..Capacity : OnDisk(n)'
      /\ \E b \in SlotIds : Boundary(b)'
  BY <1>1, <1>2, SyncedFrame, Zenon DEF IInv
<1>4. OnDisk(selected.count)'
  BY <1>2, <1>3, Numbers, Zenon DEF OnDisk, IInv
<1>5. Extent(selected.count, selected.last)'
  <2>1. Covered(cells, persisted.commit.count) \subseteq Covered(cells, selected.count)
    BY <1>1, RunningFacts, Zenon DEF Covered, IInv
  <2>2. PICK n, l : n = selected.count /\ l = selected.last
    BY Zenon
  <2>3. Extent(n, l) /\ Covered(cells, persisted.commit.count) \subseteq Covered(cells, n)
    BY <1>1, <2>1, <2>2, Zenon DEF Running
  <2>4. Extent(n, l)'
    BY <1>2, <1>3, <2>3 DEF Extent, Covered
  <2> QED
    BY <1>2, <2>2, <2>4, ExtentSelected, Zenon
<1>6. Running'
  BY <1>1, <1>2, <1>3, <1>4, <1>5, Zenon DEF Running, Superseded, WithExtent, Other
<1> QED
  BY <1>2, <1>6, Zenon DEF CrashSafe, IInv

LEMMA SyncCommitSlotFailsSafe ==
    ASSUME IInv, SyncCommitSlotRefused \/ SyncCommitSlotFails
    PROVE  CrashSafe'
<1>1. Running
  BY HealthyRuns, Zenon DEF SyncCommitSlotRefused, SyncCommitSlotFails, IInv
<1>2. /\ UNCHANGED <<cells, slots, dcells, dslots, fcells, fslots>>
      /\ UNCHANGED <<open, persisted, nextSeq, acked, rejected>>
      /\ ~healthy' /\ pc' = "idle"
  BY Zenon DEF SyncCommitSlotRefused, SyncCommitSlotFails, SyncFails, Indeterminate, Finish,
         fileVars, ghostVars
<1>3. \E b \in SlotIds : Boundary(b)'
  BY <1>1, <1>2, BoundarySame, Zenon DEF Running
<1>4. Poisoned'
  BY <1>1, <1>2, <1>3, Zenon DEF Poisoned, Running, Sound, Extent
<1> QED
  BY <1>2, <1>4, Zenon DEF CrashSafe, IInv

\* A power loss, wherever it falls: the boundary slot and the cells below it
\* come back as they were, and so does the other slot, or it becomes invalid or
\* the new boundary.
LEMMA PowerLossSafe == ASSUME IInv, PowerLoss PROVE CrashSafe'
<1>1. PICK b \in SlotIds : Boundary(b)
  BY SomeBoundary, Zenon DEF IInv
<1>2. PICK o \in SlotIds : o = Other(b) /\ o # b /\ Other(o) = b
  BY DEF Other, SlotIds
<1>3. /\ dcells' = cells' /\ dslots' = slots' /\ ~lost' /\ ~open' /\ pc' = "idle"
      /\ \A i \in Cells : fcells'[i] = {}
      /\ \A s \in SlotIds : fslots'[s] = {}
      /\ UNCHANGED <<nextSeq, acked, rejected>>
  BY Zenon DEF PowerLoss, Gone
<1>4. \A i \in Cells : fcells[i] = {} /\ dcells[i] = cells[i] => cells'[i] = cells[i]
  BY LandedQuiet, Zenon DEF PowerLoss
<1>5. /\ slots'[b] = dslots[b]
      /\ slots'[o] \in {dslots[o], slots[o], BadSlot}
  <2>1. \A s \in SlotIds : slots'[s] \in Landed(dslots[s], fslots[s], BadSlot)
    BY DEF PowerLoss, SlotIds
  <2>2. slots'[b] = dslots[b]
    BY <1>1, <2>1, LandedQuiet, Zenon DEF Boundary
  <2>3. fslots[o] \subseteq {slots[o]}
    BY <1>1, <1>2, Zenon DEF Boundary
  <2> QED
    BY <2>1, <2>2, <2>3, Zenon DEF Landed
<1>6. ASSUME NEW c \in Commit, Sound(c) PROVE Sound(c)'
  <2>1. \A i \in 1..c.count : i \in Cells
    BY SegmentFileAssumption DEF Commit, Cells
  <2>2. \A i \in 1..c.count : cells'[i] = cells[i]
    BY <1>4, <1>6, <2>1, Zenon DEF Sound, OnDisk
  <2>3. \A i \in 1..c.count : fcells'[i] = {} /\ dcells'[i] = cells[i]
    BY <1>3, <2>1, <2>2, Zenon
  <2>4. nextSeq \in Nat
    BY Zenon DEF IInv, DataOK
  <2> QED
    BY <1>3, <1>6, <2>2, <2>3, <2>4, SoundFrame DEF IInv
<1>7. slots[o] \in Commit /\ dslots[o] \in Commit /\ dslots[b] \in Commit /\ Sound(dslots[b])
  BY <1>1, Zenon DEF IInv, DataOK, Boundary
<1>8. PICK d \in Commit : d = dslots[b] /\ Sound(d)'
  BY <1>6, <1>7, Zenon
<1>9. PICK c \in Commit :
        /\ c = slots'[o]
        /\ Superseded(c, d) \/ (c.gen = d.gen + 1 /\ Sound(c)' /\ d.count <= c.count)
  <2>1. PICK c \in Commit : c = slots'[o] /\ c \in {dslots[o], slots[o], BadSlot}
    BY <1>5, <1>7, RecordTypes, Zenon
  <2>2. CASE c = BadSlot
    <3>1. ~c.ok
      BY <2>2, Zenon DEF BadSlot
    <3> QED
      BY <2>1, <3>1, Zenon DEF Superseded
  <2>3. CASE c = dslots[o]
    BY <1>1, <1>2, <1>8, <2>1, <2>3, Zenon DEF Boundary
  <2>4. CASE c = slots[o]
    BY <1>1, <1>2, <1>6, <1>8, <2>1, <2>4, Zenon DEF Boundary
  <2> QED
    BY <2>1, <2>2, <2>3, <2>4, Zenon
<1>10. CASE Superseded(c, d)
  <2>1. Boundary(b)'
    BY <1>2, <1>3, <1>5, <1>8, <1>9, <1>10, BoundaryIntro, Zenon
  <2> QED
    BY <1>3, <2>1, Zenon DEF CrashSafe, Closed, IInv
<1>11. CASE c.gen = d.gen + 1 /\ Sound(c)' /\ d.count <= c.count
  <2>1. Superseded(d, c)
    <3>1. d.gen \in Nat
      BY Zenon DEF Commit
    <3>2. d.gen < c.gen
      BY <1>11, <3>1
    <3> QED
      BY <1>11, <3>2, Zenon DEF Superseded
  <2>2. Boundary(o)'
    BY <1>2, <1>3, <1>5, <1>8, <1>9, <1>11, <2>1, BoundaryIntro, Zenon
  <2> QED
    BY <1>3, <2>2, Zenon DEF CrashSafe, Closed, IInv
<1> QED
  BY <1>9, <1>10, <1>11, Zenon

\* The end of the process: the file stays as it is.
LEMMA KillSafe == ASSUME IInv, Kill PROVE CrashSafe'
<1>1. /\ UNCHANGED <<cells, slots, dcells, dslots, fcells, fslots, nextSeq, acked, rejected>>
      /\ ~lost' /\ ~open' /\ pc' = "idle"
  BY Zenon DEF Kill, Gone, fileVars
<1>2. \E b \in SlotIds : Boundary(b)'
  BY <1>1, SomeBoundary, BoundarySame, Zenon DEF IInv
<1> QED
  BY <1>1, <1>2, Zenon DEF CrashSafe, Closed, IInv

\* In every state a crash leaves, the slot that open selects is sound.
LEMMA NewestSound ==
    ASSUME IInv, Closed
    PROVE  /\ \E s \in SlotIds : Newest(s) /\ Scans(slots[s])
           /\ \A s \in SlotIds : Newest(s) =>
                 Sound(slots[s]) /\ Superseded(slots[Other(s)], slots[s])
<1>1. PICK b \in SlotIds : Boundary(b)
  BY Zenon DEF Closed
<1>2. PICK o \in SlotIds : o = Other(b) /\ o # b /\ Other(o) = b /\ SlotIds = {b, o}
  BY DEF Other, SlotIds
<1>3. slots[b] \in Commit /\ slots[o] \in Commit /\ Sound(slots[b])
  BY <1>1, Zenon DEF IInv, DataOK, Boundary
<1>4. /\ slots[b].gen \in Nat /\ slots[o].gen \in Nat /\ slots[b].count \in Nat
      /\ slots[o].count \in Nat /\ slots[b].ok
  BY <1>3, SegmentFileAssumption DEF Commit, Sound
<1>5. ASSUME NEW c \in Commit, Sound(c) PROVE Scans(c)
  <2>1. c.count \in 0..Capacity /\ \A i \in 1..c.count : i > 1 => i - 1 \in 1..c.count /\ i - 1 < i
    BY SegmentFileAssumption DEF Commit
  <2> QED
    BY <1>5, <2>1 DEF Sound, Extent, Scans
<1>6. CASE Superseded(slots[o], slots[b])
  <2>1. Newest(b) /\ Scans(slots[b])
    BY <1>2, <1>3, <1>4, <1>5, <1>6, Zenon DEF Newest, Superseded
  <2>2. ~Newest(o)
    BY <1>2, <1>4, <1>6 DEF Newest, Superseded
  <2> QED
    BY <1>2, <1>3, <1>6, <2>1, <2>2, Zenon
<1>7. CASE slots[o].gen = slots[b].gen + 1 /\ Sound(slots[o]) /\ slots[b].count <= slots[o].count
  <2>1. Newest(o) /\ Scans(slots[o])
    BY <1>2, <1>3, <1>4, <1>5, <1>7 DEF Newest, Sound
  <2>2. ~Newest(b)
    BY <1>2, <1>4, <1>7 DEF Newest, Sound
  <2>3. Superseded(slots[b], slots[o])
    BY <1>4, <1>7 DEF Superseded
  <2> QED
    BY <1>2, <1>7, <2>1, <2>2, <2>3, Zenon
<1> QED
  BY <1>1, <1>2, <1>6, <1>7, Zenon DEF Boundary

LEMMA OpenSafe == ASSUME IInv, Open PROVE CrashSafe'
<1>1. Closed
  BY Zenon DEF Open, IInv, CrashSafe, Running, Poisoned
<1>2. PICK s \in SlotIds : /\ Newest(s) /\ persisted' = [slot |-> s, commit |-> slots[s]]
                           /\ selected' = slots[s]
  BY Zenon DEF Open
<1>3. Sound(slots[s]) /\ Superseded(slots[Other(s)], slots[s]) /\ slots[s] \in Commit
  BY <1>1, <1>2, NewestSound, Zenon DEF IInv, DataOK
<1>4. /\ UNCHANGED <<cells, slots, dcells, dslots, fcells, fslots, lost>>
      /\ UNCHANGED <<pc, op, nextSeq, acked, rejected>>
      /\ open' /\ healthy' /\ pending' = 0
  BY Zenon DEF Open, fileVars, ghostVars
<1>5. PICK c \in Commit : c = slots[s] /\ Sound(c)
  BY <1>3, Zenon
<1>6. Sound(c)'
  BY <1>4, <1>5, SoundSame, Zenon
<1>7. Sound(persisted.commit)' /\ Extent(selected.count, selected.last)'
  BY <1>2, <1>5, <1>6, Zenon DEF Sound, OnDisk, Extent, Covered
<1>8. selected' = WithExtent(persisted.commit, selected.count, selected.last)'
  BY <1>2, <1>5, Zenon DEF WithExtent, Commit
<1>9. (selected.count = persisted.commit.count + pending)'
  <2>1. slots[s].count \in Nat
    BY <1>3, SegmentFileAssumption, SMTT(40) DEF Commit
  <2> QED
    BY <1>2, <1>4, <2>1
<1>10. \E b \in SlotIds : Boundary(b)'
  BY <1>1, <1>4, BoundarySame, Zenon DEF Closed
<1>11. persisted'.slot = s /\ persisted'.commit = slots'[s] /\ pc' # "write_slot"
  BY <1>1, <1>2, <1>4, Zenon DEF Closed
<1>12. Superseded(slots[Other(persisted.slot)], persisted.commit)'
  BY <1>3, <1>4, <1>11, Zenon DEF Superseded, Other
<1>13. Running'
  BY <1>1, <1>4, <1>7, <1>8, <1>9, <1>10, <1>11, <1>12, Zenon DEF Running, Closed
<1> QED
  BY <1>4, <1>13, Zenon DEF CrashSafe, IInv

----------------------------------------------------------------------------
(* Between two commits.                                                    *)

LEMMA SyncedStep ==
    ASSUME ImmediateOnly, DataOK, CrashSafe, SyncedBetweenCommits, [Next]_vars
    PROVE  SyncedBetweenCommits'
<1>1. ASSUME UNCHANGED <<slots, dslots, fslots>>, SlotsSynced PROVE SlotsSynced'
  BY <1>1, Zenon DEF SlotsSynced
<1>2. ASSUME SyncOk, ~lost PROVE SlotsSynced'
  BY <1>2, Zenon DEF SyncOk, SlotsSynced
<1>3. Idle.sync = "immediate"
  BY Zenon DEF Idle
<1>4. CASE UNCHANGED vars
  BY <1>1, <1>4, Zenon DEF SyncedBetweenCommits, vars, fileVars, handleVars
<1>5. CASE AppendRecord \/ AppendRefused \/ AppendPacingFails \/ AppendWriteFails
  <2>1. SlotsSynced /\ UNCHANGED <<slots, dslots, fslots, op>>
    BY <1>5, Zenon DEF SyncedBetweenCommits, AppendRecord, AppendRefused, AppendPacingFails,
                       AppendWriteFails, Appendable, Quiet, PutCell, fileVars, handleVars
  <2> QED
    BY <1>1, <2>1, Zenon DEF SyncedBetweenCommits
<1>6. ASSUME NEW sync \in Syncs, FlushPendingCommit(sync) PROVE SyncedBetweenCommits'
  <2>1. SlotsSynced /\ UNCHANGED <<slots, dslots, fslots>> /\ op' = [sync |-> sync, seal |-> FALSE]
    BY <1>6, Zenon DEF SyncedBetweenCommits, FlushPendingCommit, Quiet, fileVars
  <2>2. op'.sync = "immediate"
    BY <2>1, Zenon DEF ImmediateOnly
  <2> QED
    BY <1>1, <2>1, <2>2, Zenon DEF SyncedBetweenCommits
<1>7. CASE Seal \/ SyncFile
  <2>1. SlotsSynced /\ UNCHANGED <<slots, dslots, fslots>>
    BY <1>7 DEF SyncedBetweenCommits, Seal, SyncFile, Quiet, fileVars
  <2>2. op'.sync = "immediate"
    BY <1>7 DEF Seal, SyncFile, Idle
  <2> QED
    BY <1>1, <2>1, <2>2, Zenon DEF SyncedBetweenCommits
<1>8. CASE SyncRecord
  <2>1. ~lost
    BY <1>8, HealthyRuns, Zenon DEF SyncRecord
  <2> QED
    BY <1>2, <1>8, <2>1, Zenon DEF SyncRecord, SyncedBetweenCommits
<1>9. CASE SyncRecordRefused \/ SyncRecordFails \/ WriteCommitSlotRefused
  <2>1. healthy
    BY <1>9, HealthyRuns, Zenon DEF SyncRecordRefused, SyncRecordFails, WriteCommitSlotRefused
  <2>2. SlotsSynced /\ UNCHANGED <<slots, dslots, fslots>> /\ op' = Idle
    BY <1>9, <2>1, Zenon DEF SyncedBetweenCommits, SyncRecordRefused, SyncRecordFails,
                             WriteCommitSlotRefused, NotCommitted, Finish, SyncFails, fileVars
  <2> QED
    BY <1>1, <1>3, <2>2, Zenon DEF SyncedBetweenCommits
<1>10. CASE WriteCommitSlot
  BY <1>10, Zenon DEF WriteCommitSlot, SyncedBetweenCommits
<1>11. CASE WriteCommitSlotFails \/ SyncCommitSlotRefused \/ SyncCommitSlotFails
  <2>1. open
    BY <1>11, HealthyRuns, Zenon
       DEF WriteCommitSlotFails, SyncCommitSlotRefused, SyncCommitSlotFails
  <2> QED
    BY <1>3, <1>11, <2>1, Zenon DEF WriteCommitSlotFails, SyncCommitSlotRefused,
                                    SyncCommitSlotFails, Indeterminate, Finish, SyncedBetweenCommits
<1>12. CASE SyncCommitSlot
  <2>1. ~lost
    BY <1>12, HealthyRuns, Zenon DEF SyncCommitSlot
  <2> QED
    BY <1>2, <1>3, <1>12, <2>1, Zenon DEF SyncCommitSlot, Finish, SyncedBetweenCommits
<1>13. CASE PowerLoss
  BY <1>3, <1>13, Zenon DEF PowerLoss, Gone, SlotsSynced, SyncedBetweenCommits
<1>14. CASE Kill
  BY <1>14, Zenon DEF Kill, ImmediateOnly
<1>15. CASE Open
  <2>1. pc = "idle" /\ UNCHANGED <<slots, dslots, fslots, op>> /\ ~open
    BY <1>15, Zenon DEF Open, CrashSafe, Closed, Running, Poisoned, fileVars
  <2> QED
    BY <1>1, <2>1, Zenon DEF SyncedBetweenCommits
<1> QED
  BY <1>4, <1>5, <1>6, <1>7, <1>8, <1>9, <1>10, <1>11, <1>12, <1>13, <1>14, <1>15, Zenon DEF Next

----------------------------------------------------------------------------
(* The theorems.                                                           *)

LEMMA InitSafe == Init => CrashSafe /\ SyncedBetweenCommits
<1> SUFFICES ASSUME Init PROVE CrashSafe /\ SyncedBetweenCommits
  BY Zenon
<1>1. /\ persisted.commit = FirstCommit /\ selected = FirstCommit /\ persisted.slot = 0
      /\ slots[0] = FirstCommit /\ slots[1] = BadSlot /\ dslots = slots
      /\ fslots[0] = {} /\ fslots[1] = {} /\ Other(0) = 1
  BY DEF Init, SlotIds, Other
<1>2. FirstCommit.count = 0 /\ FirstCommit.last = 0 /\ FirstCommit.ok /\ ~BadSlot.ok
  BY Zenon DEF FirstCommit, BadSlot
<1>3. Extent(0, 0) /\ OnDisk(0)
  BY DEF Init, Extent, OnDisk, Covered
<1>4. Sound(FirstCommit)
  BY <1>2, <1>3, Zenon DEF Sound
<1>5. selected = WithExtent(persisted.commit, selected.count, selected.last)
  BY <1>1, Zenon DEF FirstCommit, WithExtent
<1>6. Boundary(0) /\ 0 \in SlotIds
  BY <1>1, <1>2, <1>4 DEF Boundary, Superseded, SlotIds
<1>7. selected.count = persisted.commit.count + pending
  BY <1>1, <1>2 DEF Init
<1>8. Running
  BY <1>1, <1>2, <1>3, <1>4, <1>5, <1>6, <1>7, Zenon DEF Init, Running, Superseded
<1>9. SyncedBetweenCommits
  BY Zenon DEF Init, SlotsSynced, SyncedBetweenCommits, Idle
<1> QED
  BY <1>8, <1>9, Zenon DEF Init, CrashSafe

LEMMA IInvStep == ASSUME SealsAreImmediate, IInv, [Next]_vars PROVE IInv'
<1>1. DataOK'
  BY TypeStep, Zenon
<1>2. Seals => SyncedBetweenCommits'
  BY SyncedStep, Zenon DEF IInv, SealsAreImmediate
<1>3. CASE UNCHANGED vars
  <2>1. /\ UNCHANGED <<cells, slots, dcells, dslots, fcells, fslots, lost>>
        /\ UNCHANGED <<open, persisted, selected, pending, healthy, pc, nextSeq, acked, rejected>>
    BY <1>3, Zenon DEF vars, fileVars, handleVars, ghostVars
  <2>2. \E b \in SlotIds : Boundary(b)'
    BY <2>1, SomeBoundary, BoundarySame, Zenon DEF IInv
  <2>3. Closed => Closed'
    BY <2>1, <2>2, Zenon DEF Closed
  <2>4. Running => Running'
    <3> SUFFICES ASSUME Running PROVE Running'
      BY Zenon
    <3>1. Sound(persisted.commit)'
      BY <2>1, SoundSame, SoundPersisted, Zenon DEF Running
    <3>2. Extent(selected.count, selected.last)'
      BY <2>1, ExtentSame, ExtentSelected, Zenon DEF Running
    <3>3. (OnDisk(selected.count) => OnDisk(selected.count)') /\ (SlotsSynced => SlotsSynced')
      BY <2>1, Zenon DEF OnDisk, SlotsSynced
    <3> QED
      BY <2>1, <2>2, <3>1, <3>2, <3>3, Zenon DEF Running, Superseded, WithExtent, Other
  <2>5. Poisoned => Poisoned'
    BY <2>1, <2>2, Zenon DEF Poisoned
  <2> QED
    BY <1>1, <1>2, <2>1, <2>3, <2>4, <2>5, Zenon DEF IInv, CrashSafe
<1>4. CASE Next
  <2>1. CrashSafe'
    BY <1>4, AppendRecordSafe, AppendRejectedSafe, AppendWriteFailsSafe, EntrySafe,
       SyncRecordSafe, RefusedSafe, WriteCommitSlotSafe, WriteCommitSlotFailsSafe,
       SyncCommitSlotSafe, SyncCommitSlotFailsSafe, PowerLossSafe, KillSafe, OpenSafe, Zenon
       DEF Next
  <2> QED
    BY <1>1, <1>2, <2>1, Zenon DEF IInv
<1> QED
  BY <1>3, <1>4, Zenon

\* The inductive invariant implies what the file promises its owner.
LEMMA IInvImplies ==
    ASSUME IInv
    PROVE  /\ AcknowledgedSurvive /\ AlwaysRecoverable /\ RejectedNeverRecovered
           /\ KnownValidSlot
<1>1. AcknowledgedSurvive /\ RejectedNeverRecovered
  <2>1. CASE Closed
    BY <2>1, Zenon DEF Closed, AcknowledgedSurvive, RejectedNeverRecovered
  <2>2. CASE Running
    <3>1. Sound(persisted.commit)
      BY <2>2, Zenon DEF Running
    <3> QED
      BY <3>1, SMTT(40) DEF Sound, Extent, AcknowledgedSurvive, RejectedNeverRecovered
  <2>3. CASE Poisoned
    BY <2>3, Zenon DEF Poisoned, AcknowledgedSurvive, RejectedNeverRecovered
  <2> QED
    BY <2>1, <2>2, <2>3, Zenon DEF IInv, CrashSafe
<1>2. PICK b \in SlotIds : Boundary(b)
  BY SomeBoundary, Zenon DEF IInv
<1>3. KnownValidSlot
  BY <1>2, Zenon DEF KnownValidSlot, Boundary, Sound
<1>4. AlwaysRecoverable
  BY NewestSound, Zenon DEF IInv, CrashSafe, Running, Poisoned, AlwaysRecoverable
<1> QED
  BY <1>1, <1>3, <1>4, Zenon

\* Every reachable state of a Segment file is crash safe, with immediate and with
\* deferred commits: append_record, flush_pending_commit, publish_commit, seal
\* and open keep a durable boundary.
THEOREM CrashSafety ==
    ASSUME SealsAreImmediate
    PROVE  Spec => []CrashSafe
<1>1. Init => IInv
  BY InitType, InitSafe, Zenon DEF IInv
<1>2. IInv /\ [Next]_vars => IInv'
  BY IInvStep, Zenon
<1>3. IInv => CrashSafe
  BY Zenon DEF IInv
<1> QED
  BY <1>1, <1>2, <1>3, PTL DEF Spec

\* No acknowledged Record is lost by any number of crashes of both kinds: neither
\* one committed with an immediate sync, nor a deferred one that sync_file or a
\* later commit has synchronised.
THEOREM AcknowledgedSurvival ==
    ASSUME SealsAreImmediate
    PROVE  Spec => []AcknowledgedSurvive
<1>1. Init => IInv
  BY InitType, InitSafe, Zenon DEF IInv
<1>2. IInv /\ [Next]_vars => IInv'
  BY IInvStep, Zenon
<1>3. IInv => AcknowledgedSurvive
  BY IInvImplies, Zenon
<1> QED
  BY <1>1, <1>2, <1>3, PTL DEF Spec

\* A Record reported not_committed is never recovered.
THEOREM RejectionIsFinal ==
    ASSUME SealsAreImmediate
    PROVE  Spec => []RejectedNeverRecovered
<1>1. Init => IInv
  BY InitType, InitSafe, Zenon DEF IInv
<1>2. IInv /\ [Next]_vars => IInv'
  BY IInvStep, Zenon
<1>3. IInv => RejectedNeverRecovered
  BY IInvImplies, Zenon
<1> QED
  BY <1>1, <1>2, <1>3, PTL DEF Spec

\* open always finds a slot whose committed extent scans, and publish_commit
\* never has the only durable slot in flight.
THEOREM Recoverability ==
    ASSUME SealsAreImmediate
    PROVE  Spec => [](AlwaysRecoverable /\ KnownValidSlot)
<1>1. Init => IInv
  BY InitType, InitSafe, Zenon DEF IInv
<1>2. IInv /\ [Next]_vars => IInv'
  BY IInvStep, Zenon
<1>3. IInv => AlwaysRecoverable /\ KnownValidSlot
  BY IInvImplies, Zenon
<1> QED
  BY <1>1, <1>2, <1>3, PTL DEF Spec

\* A slot that recovery might accept names Records that are all on disk.
LEMMA AuthorityIsSynced == ASSUME IInv PROVE SlotsAuthoriseOnlySyncedRecords
<1>1. PICK b \in SlotIds : Boundary(b)
  BY SomeBoundary, Zenon DEF IInv
<1>2. \A i \in 1..dslots[b].count : fcells[i] = {} /\ dcells[i] # 0
  BY <1>1, Zenon DEF Boundary, Sound, OnDisk, Extent
<1>3. ASSUME NEW c \in {slots[Other(b)], dslots[Other(b)]}, c.ok
      PROVE  \A i \in 1..c.count : fcells[i] = {} /\ dcells[i] # 0
  <2>1. CASE Superseded(c, dslots[b])
    <3>1. c.count \in Nat /\ dslots[b].count \in Nat
      BY DEF IInv, DataOK, Commit, Other, SlotIds
    <3>2. c.count <= dslots[b].count
      BY <1>3, <2>1, Zenon DEF Superseded
    <3> QED
      BY <1>2, <3>1, <3>2
  <2>2. CASE Sound(c)
    BY <2>2, Zenon DEF Sound, OnDisk, Extent
  <2> QED
    BY <1>1, <2>1, <2>2, Zenon DEF Boundary
<1>4. \A s \in SlotIds : s = b \/ s = Other(b)
  BY DEF SlotIds, Other
<1>5. fslots[b] = {} /\ fslots[Other(b)] \subseteq {slots[Other(b)]}
  BY <1>1, Zenon DEF Boundary
<1>6. ASSUME NEW s \in SlotIds, NEW c \in fslots[s] \cup {dslots[s]}
      PROVE  c = dslots[b] \/ c \in {slots[Other(b)], dslots[Other(b)]}
  BY <1>4, <1>5, <1>6, Zenon
<1> QED
  BY <1>2, <1>3, <1>6, Zenon DEF SlotsAuthoriseOnlySyncedRecords

\* Wherever power fails in publish_commit or flush_pending_commit, a slot that
\* is left valid authorises only Records on stable storage, and one slot is
\* durable with no write in flight.
THEOREM SlotSafety ==
    ASSUME SealsAreImmediate
    PROVE  Spec => [](SlotsAuthoriseOnlySyncedRecords /\ KnownValidSlot)
<1>1. Init => IInv
  BY InitType, InitSafe, Zenon DEF IInv
<1>2. IInv /\ [Next]_vars => IInv'
  BY IInvStep, Zenon
<1>3. IInv => SlotsAuthoriseOnlySyncedRecords /\ KnownValidSlot
  BY IInvImplies, AuthorityIsSynced, Zenon
<1> QED
  BY <1>1, <1>2, <1>3, PTL DEF Spec

LEMMA FlagsStep == FlagsOK /\ [Next]_vars => FlagsOK'
<1> SUFFICES ASSUME FlagsOK, [Next]_vars PROVE FlagsOK'
  BY Zenon
<1>1. CASE AppendRecord \/ AppendRefused \/ AppendPacingFails \/ AppendWriteFails
  BY <1>1, Zenon DEF AppendRecord, AppendRefused, AppendPacingFails, AppendWriteFails, PutCell,
                     FlagsOK, fileVars, handleVars
<1>2. CASE (\E sync \in Syncs : FlushPendingCommit(sync)) \/ Seal \/ SyncFile
  BY <1>2, Zenon DEF FlushPendingCommit, Seal, SyncFile, FlagsOK, fileVars, handleVars
<1>3. CASE SyncRecord \/ SyncRecordRefused \/ SyncRecordFails
  BY <1>3, Zenon DEF SyncRecord, SyncRecordRefused, SyncRecordFails, SyncOk, SyncFails,
                     NotCommitted, FlagsOK, fileVars, handleVars
<1>4. CASE WriteCommitSlot \/ WriteCommitSlotRefused \/ WriteCommitSlotFails
  BY <1>4, Zenon DEF WriteCommitSlot, WriteCommitSlotRefused, WriteCommitSlotFails, PutSlot,
                     NotCommitted, Indeterminate, FlagsOK, fileVars
<1>5. CASE SyncCommitSlot \/ SyncCommitSlotRefused \/ SyncCommitSlotFails
  BY <1>5, Zenon DEF SyncCommitSlot, SyncCommitSlotRefused, SyncCommitSlotFails, SyncOk,
                     SyncFails, Indeterminate, FlagsOK, fileVars
<1>6. CASE PowerLoss \/ Kill
  BY <1>6, Zenon DEF PowerLoss, Kill, Gone, FlagsOK, fileVars
<1>7. CASE Open
  BY <1>7, Zenon DEF Open, FlagsOK, fileVars
<1>8. CASE UNCHANGED vars
  BY <1>8, Zenon DEF vars, fileVars, handleVars, FlagsOK
<1> QED
  BY <1>1, <1>2, <1>3, <1>4, <1>5, <1>6, <1>7, <1>8, Zenon DEF Next

\* Every variable keeps its type; in particular no append leaves the Segment.
THEOREM TypeCorrect ==
    ASSUME SealsAreImmediate
    PROVE  Spec => []TypeOK
<1>1. Init => IInv
  BY InitType, InitSafe, Zenon DEF IInv
<1>2. Init => FlagsOK
  BY Zenon DEF Init, FlagsOK
<1>3. IInv /\ [Next]_vars => IInv'
  BY IInvStep, Zenon
<1>4. IInv /\ FlagsOK => TypeOK
  BY Zenon DEF IInv, TypeOK
<1> QED
  BY <1>1, <1>2, <1>3, <1>4, FlagsStep, PTL DEF Spec

----------------------------------------------------------------------------
(* A seal is final.                                                        *)

\* A sealed Segment has nothing pending: seal flushes first.
SealedIsFlushed == selected.sealed => pending = 0

\* A sealed commit of n Records is durable and the newest, no slot is being
\* written, and the handle, if there is one, has it.
Latched(n) ==
    /\ slots = dslots /\ \A s \in SlotIds : fslots[s] = {}
    /\ pc \in {"idle", "sync_file"} /\ (pc = "sync_file" => open)
    /\ \E b \in SlotIds :
          /\ slots[b].ok /\ slots[b].sealed /\ slots[b].count = n
          /\ slots[Other(b)].ok => slots[Other(b)].gen < slots[b].gen
          /\ open => persisted.commit = slots[b] /\ selected.sealed /\ pending = 0

LEMMA SealedStep == SealedIsFlushed /\ [Next]_vars => SealedIsFlushed'
<1> SUFFICES ASSUME SealedIsFlushed, [Next]_vars PROVE SealedIsFlushed'
  BY Zenon
<1>1. CASE AppendRecord
  BY <1>1, Zenon DEF AppendRecord, Appendable, WithExtent, SealedIsFlushed
<1>2. CASE \/ AppendRefused \/ AppendPacingFails \/ AppendWriteFails \/ Seal \/ SyncFile
           \/ \E sync \in Syncs : FlushPendingCommit(sync)
  BY <1>2, Zenon
     DEF AppendRefused, AppendPacingFails, AppendWriteFails, Seal, SyncFile, FlushPendingCommit,
                     SealedIsFlushed, handleVars
<1>3. CASE SyncRecordRefused \/ SyncRecordFails \/ WriteCommitSlotRefused \/ WriteCommitSlotFails
  BY <1>3, Zenon
     DEF SyncRecordRefused, SyncRecordFails, WriteCommitSlotRefused, WriteCommitSlotFails,
                     NotCommitted, RollbackPendingMetadata, SealedIsFlushed
<1>4. CASE WriteCommitSlot \/ Open
  BY <1>4, Zenon DEF WriteCommitSlot, Open, SealedIsFlushed
<1>5. CASE \/ SyncRecord \/ SyncCommitSlot \/ SyncCommitSlotRefused \/ SyncCommitSlotFails
           \/ PowerLoss \/ Kill
  BY <1>5, Zenon
     DEF SyncRecord, SyncCommitSlot, SyncCommitSlotRefused, SyncCommitSlotFails, PowerLoss, Kill,
                     Gone, SealedIsFlushed, handleVars
<1>6. CASE UNCHANGED vars
  BY <1>6, Zenon DEF vars, handleVars, SealedIsFlushed
<1> QED
  BY <1>1, <1>2, <1>3, <1>4, <1>5, <1>6, Zenon DEF Next

\* When seal returns, its commit is latched ...
LEMMA SealLatches ==
    ASSUME IInv, SyncedBetweenCommits, SealedIsFlushed, SealReturned,
           NEW n, persisted.commit.count = n
    PROVE  Latched(n)
<1>1. Running /\ SlotsSynced
  BY HealthyRuns, Zenon DEF SealReturned, IInv, SyncedBetweenCommits
<1>2. selected.sealed
  BY <1>1 DEF Running, SealReturned, WithExtent
<1>3. pending = 0
  BY <1>2, Zenon DEF SealedIsFlushed
<1>4. PICK b \in SlotIds : b = persisted.slot
  BY Zenon DEF IInv, DataOK
<1>5. /\ slots[b].ok /\ slots[b].sealed /\ slots[b].count = n /\ persisted.commit = slots[b]
      /\ slots[Other(b)].ok => slots[Other(b)].gen < slots[b].gen
  BY <1>1, <1>4, Zenon DEF Running, Sound, Superseded, SealReturned
<1> QED
  BY <1>1, <1>2, <1>3, <1>5, Zenon DEF SlotsSynced, SealReturned, Latched

\* ... and stays so through every later call and crash.
LEMMA LatchedStep ==
    ASSUME IInv, NEW n, Latched(n), [Next]_vars
    PROVE  Latched(n)'
<1>1. PICK b \in SlotIds :
          /\ slots[b].ok /\ slots[b].sealed /\ slots[b].count = n
          /\ slots[Other(b)].ok => slots[Other(b)].gen < slots[b].gen
          /\ open => persisted.commit = slots[b] /\ selected.sealed /\ pending = 0
  BY Zenon DEF Latched
<1>2. /\ slots = dslots /\ (\A s \in SlotIds : fslots[s] = {})
      /\ pc \in {"idle", "sync_file"} /\ (pc = "sync_file" => open)
  BY Zenon DEF Latched
<1>3. CASE \/ UNCHANGED vars \/ AppendRefused \/ SyncFile \/ Kill
           \/ \E sync \in Syncs : FlushPendingCommit(sync)
  <2>1. /\ UNCHANGED <<slots, dslots, fslots, persisted, selected, pending>> /\ (open' => open)
        /\ pc' \in {"idle", "sync_file"} /\ (pc' = "sync_file" => open')
    <3>1. CASE UNCHANGED vars
      BY <1>2, <3>1, Zenon DEF vars, fileVars, handleVars
    <3>2. CASE AppendRefused
      BY <1>2, <3>2, Zenon DEF AppendRefused, fileVars, handleVars
    <3>3. CASE SyncFile
      BY <3>3, Zenon DEF SyncFile, Quiet, fileVars, handleVars
    <3>4. CASE Kill
      BY <3>4, Zenon DEF Kill, Gone, fileVars
    <3>5. CASE \E sync \in Syncs : FlushPendingCommit(sync)
      <4>1. open /\ ~(pending > 0)
        BY <1>1, <3>5 DEF FlushPendingCommit, Quiet
      <4> QED
        BY <3>5, <4>1 DEF FlushPendingCommit, fileVars, handleVars
    <3> QED
      BY <1>3, <3>1, <3>2, <3>3, <3>4, <3>5, Zenon
  <2> QED
    BY <1>1, <1>2, <2>1, Zenon DEF Latched
<1>4. CASE AppendRecord \/ AppendPacingFails \/ AppendWriteFails \/ Seal
  BY <1>1, <1>4, Zenon
     DEF AppendRecord, AppendPacingFails, AppendWriteFails, Appendable, Seal, Quiet
<1>5. CASE \/ SyncRecord \/ SyncRecordRefused \/ SyncRecordFails \/ WriteCommitSlot
           \/ WriteCommitSlotRefused \/ WriteCommitSlotFails
  BY <1>2, <1>5, Zenon
     DEF SyncRecord, SyncRecordRefused, SyncRecordFails, WriteCommitSlot, WriteCommitSlotRefused,
                    WriteCommitSlotFails
<1>6. CASE SyncCommitSlot \/ SyncCommitSlotRefused \/ SyncCommitSlotFails
  <2>1. /\ UNCHANGED <<slots, persisted, selected, pending, open>> /\ dslots' = slots
        /\ \A s \in SlotIds : fslots'[s] = {}
    BY <1>2, <1>6, Zenon
       DEF SyncCommitSlot, SyncCommitSlotRefused, SyncCommitSlotFails, SyncOk, SyncFails,
                      Indeterminate, fileVars
  <2>2. pc' \in {"idle", "write_slot"} /\ (pc' = "write_slot" => ~persisted.commit.sealed)
    BY <1>6, Zenon
       DEF SyncCommitSlot, SyncCommitSlotRefused, SyncCommitSlotFails, Indeterminate, Finish
  <2>3. open
    BY <1>2, <1>6, Zenon DEF SyncCommitSlot, SyncCommitSlotRefused, SyncCommitSlotFails
  <2> QED
    BY <1>1, <2>1, <2>2, <2>3, Zenon DEF Latched
<1>7. CASE PowerLoss
  <2>4. \A s \in SlotIds : slots'[s] \in Landed(dslots[s], fslots[s], BadSlot)
    BY <1>7 DEF PowerLoss, SlotIds
  <2>1. \A s \in SlotIds : slots'[s] = dslots[s]
    BY <1>2, <2>4, LandedQuiet, Zenon
  <2>2. /\ slots' = dslots' /\ (\A s \in SlotIds : fslots'[s] = {}) /\ ~open' /\ pc' = "idle"
    BY <1>7, Zenon DEF PowerLoss, Gone
  <2>3. Other(b) \in SlotIds
    BY DEF Other, SlotIds
  <2> QED
    BY <1>1, <1>2, <2>1, <2>2, <2>3 DEF Latched
<1>8. CASE Open
  <2>1. PICK s \in SlotIds :
          Newest(s) /\ persisted' = [slot |-> s, commit |-> slots[s]] /\ selected' = slots[s]
    BY <1>8, Zenon DEF Open
  <2>4. \A t \in SlotIds : slots[t].gen \in Nat
    BY Zenon DEF IInv, DataOK, Commit
  <2>2. s = b
    BY <1>1, <2>1, <2>4 DEF Newest, Other, SlotIds
  <2>3. /\ UNCHANGED <<slots, dslots, fslots, pc>> /\ pending' = 0 /\ open'
        /\ persisted'.commit = slots[b] /\ selected'.sealed
    BY <1>1, <1>8, <2>1, <2>2, Zenon DEF Open, fileVars
  <2> QED
    BY <1>1, <1>2, <2>3, Zenon DEF Latched
<1> QED
  BY <1>3, <1>4, <1>5, <1>6, <1>7, <1>8, Zenon DEF Next

\* Once seal has returned, no call, power loss or open makes the Segment
\* active again or changes its extent; rotation and recovery rely on it.
THEOREM SealFinality ==
    ASSUME ImmediateOnly
    PROVE  Spec => SealIsFinal
<1> SUFFICES ASSUME NEW n \in 0..Capacity
             PROVE  Spec => [](SealReturned /\ persisted.commit.count = n =>
                               [](open => persisted.commit.sealed /\ persisted.commit.count = n))
  BY Zenon DEF SealIsFinal
<1>1. Init => IInv /\ SyncedBetweenCommits /\ SealedIsFlushed
  BY InitType, InitSafe, Zenon DEF IInv, Init, SealedIsFlushed
<1>2. IInv /\ SyncedBetweenCommits /\ SealedIsFlushed /\ [Next]_vars =>
        IInv' /\ SyncedBetweenCommits' /\ SealedIsFlushed'
  BY IInvStep, SyncedStep, SealedStep, Zenon DEF IInv, SealsAreImmediate
<1>3. IInv /\ SyncedBetweenCommits /\ SealedIsFlushed /\ SealReturned /\ persisted.commit.count = n
        => Latched(n)
  BY SealLatches, Zenon
<1>4. IInv /\ Latched(n) /\ [Next]_vars => Latched(n)'
  BY LatchedStep, Zenon
<1>5. Latched(n) => (open => persisted.commit.sealed /\ persisted.commit.count = n)
  BY Zenon DEF Latched
<1> QED
  BY <1>1, <1>2, <1>3, <1>4, <1>5, PTL DEF Spec
=============================================================================

---------------------------- MODULE SegmentFile ----------------------------
(***************************************************************************)
(* DurableSegmentFile: one 64 MiB Segment file with an append-only Record  *)
(* area and two alternating commit slots, written through a page cache and *)
(* synchronised with fdatasync.  Every operation of the class is split at  *)
(* its system calls, so a crash can fall between any two of them.          *)
(*                                                                         *)
(* A Record occupies one cell and is its sequence number; cell content 0   *)
(* is anything decode_record refuses (never written, or torn).  A commit   *)
(* slot is [ok, gen, count, last, sealed]; ok = FALSE stands for an empty, *)
(* torn or checksum-invalid slot.  committed_end is the count of cells.    *)
(***************************************************************************)
EXTENDS Naturals

CONSTANTS
    Capacity,   \* Records that fit in the Segment
    MaxSeq,     \* bound on the sequence numbers offered to append_record
    MaxCrashes, \* bound on crashes
    Syncs,      \* SegmentCommitSync values the owner of the file passes
    Seals,      \* whether the owner ever seals the file (rotation, compaction)
    CrashKinds  \* "power": unsynchronised writes may be lost or torn;
                \* "kill": the process dies and the page cache survives

ASSUME SegmentFileAssumption ==
    /\ Capacity \in Nat \ {0}
    /\ MaxSeq \in Nat
    /\ MaxCrashes \in Nat
    /\ Syncs \subseteq {"immediate", "deferred"}
    /\ Seals \in BOOLEAN
    /\ CrashKinds \subseteq {"power", "kill"}

VARIABLES
    cells,     \* Record area as the page cache shows it
    slots,     \* commit slots as the page cache shows them
    dcells,    \* Record area on stable storage
    dslots,    \* commit slots on stable storage
    fcells,    \* per cell, contents written since the last successful sync
    fslots,    \* per slot, contents written since the last successful sync
    lost,      \* a sync failed: later syncs prove nothing about those writes
    open,      \* a writable handle exists
    persisted, \* persisted_: [slot, commit]
    selected,  \* selected_.commit
    pending,   \* pending_record_count_
    dirty,     \* dirty_
    healthy,   \* the directory-wide health flag
    pc,        \* the system call the running operation makes next
    op,        \* [sync, seal]: arguments of the running operation
    nextSeq,   \* next sequence number offered
    acked,     \* sequences whose outcome was committed and synchronised
    rejected,  \* sequences whose outcome was not_committed
    crashes

fileVars == <<cells, slots, dcells, dslots, fcells, fslots, lost>>
handleVars == <<open, persisted, selected, pending, dirty, healthy>>
ghostVars == <<nextSeq, acked, rejected, crashes>>
vars == <<fileVars, handleVars, pc, op, ghostVars>>

Cells == 1..Capacity
SlotIds == 0..1
Other(s) == 1 - s
Commit == [ok : BOOLEAN, gen : Nat, count : 0..Capacity, last : Nat,
           sealed : BOOLEAN]
BadSlot == [ok |-> FALSE, gen |-> 0, count |-> 0, last |-> 0, sealed |-> FALSE]
FirstCommit == [ok |-> TRUE, gen |-> 1, count |-> 0, last |-> 0, sealed |-> FALSE]
Idle == [sync |-> "immediate", seal |-> FALSE]

\* The commit c with another committed_end, record_count and last sequence.
WithExtent(c, n, l) ==
    [ok |-> c.ok, gen |-> c.gen, count |-> n, last |-> l, sealed |-> c.sealed]

\* The Records a commit with n Records authorises, in the area cs.
Covered(cs, n) == {cs[i] : i \in 1..n}
PendingSeqs == {cells[i] : i \in (persisted.commit.count + 1)..selected.count}

----------------------------------------------------------------------------
(* The file system under the handle.                                       *)

PutCell(i, v) ==
    /\ cells' = [cells EXCEPT ![i] = v]
    /\ fcells' = [fcells EXCEPT ![i] = @ \cup {v}]
    /\ UNCHANGED <<slots, dcells, dslots, fslots, lost>>

PutSlot(s, v) ==
    /\ slots' = [slots EXCEPT ![s] = v]
    /\ fslots' = [fslots EXCEPT ![s] = @ \cup {v}]
    /\ UNCHANGED <<cells, dcells, dslots, fcells, lost>>

\* fdatasync returned 0.  After an earlier failure the kernel may have marked
\* the pages clean, so success then says nothing about the earlier writes.
SyncOk ==
    /\ IF lost THEN UNCHANGED <<dcells, dslots, fcells, fslots>>
       ELSE /\ dcells' = cells
            /\ dslots' = slots
            /\ fcells' = [i \in Cells |-> {}]
            /\ fslots' = [s \in SlotIds |-> {}]
    /\ UNCHANGED <<cells, slots, lost>>

SyncFails ==
    /\ lost' = TRUE
    /\ UNCHANGED <<cells, slots, dcells, dslots, fcells, fslots>>

----------------------------------------------------------------------------
(* Handle helpers.                                                         *)

RollbackPendingMetadata ==
    /\ selected' = WithExtent(selected, persisted.commit.count, persisted.commit.last)
    /\ pending' = 0

Quiet == open /\ pc = "idle"
Finish == pc' = "idle" /\ op' = Idle

\* The operation ends with outcome not_committed for every pending Record.
NotCommitted ==
    /\ Finish
    /\ rejected' = rejected \cup PendingSeqs
    /\ RollbackPendingMetadata
    /\ UNCHANGED <<open, persisted, dirty, nextSeq, acked, crashes>>

\* The operation ends with outcome indeterminate and a poisoned directory.
Indeterminate ==
    /\ Finish
    /\ healthy' = FALSE
    /\ UNCHANGED <<open, persisted, dirty, ghostVars>>

----------------------------------------------------------------------------
(* append_record                                                           *)

\* Mutants: the sealed check, then the capacity check, is dropped.
AppendableWhenSealed ==
    Quiet /\ healthy /\ nextSeq <= MaxSeq /\ nextSeq > selected.last

Appendable ==
    /\ Quiet /\ healthy /\ ~selected.sealed
    /\ nextSeq <= MaxSeq /\ nextSeq > selected.last

AppendRecord ==
    /\ Appendable
    /\ selected.count < Capacity
    /\ PutCell(selected.count + 1, nextSeq)
    /\ selected' = WithExtent(selected, selected.count + 1, nextSeq)
    /\ pending' = pending + 1
    /\ dirty' = TRUE
    /\ nextSeq' = nextSeq + 1
    /\ UNCHANGED <<open, persisted, healthy, pc, op, acked, rejected, crashes>>

\* A full or sealed Segment or a refused hook: nothing is written.
AppendRefused ==
    /\ Quiet /\ healthy /\ nextSeq <= MaxSeq
    /\ rejected' = rejected \cup {nextSeq}
    /\ nextSeq' = nextSeq + 1
    /\ UNCHANGED <<fileVars, handleVars, pc, op, acked, crashes>>

\* The write pacer failed between two chunks: a prefix is in the file, the
\* directory is not poisoned and the next Record overwrites it.
AppendPacingFails ==
    /\ Appendable
    /\ selected.count < Capacity
    /\ PutCell(selected.count + 1, 0)
    /\ rejected' = rejected \cup {nextSeq}
    /\ nextSeq' = nextSeq + 1
    /\ UNCHANGED <<handleVars, pc, op, acked, crashes>>

\* pwrite failed part way: any prefix of the Record may be in the file.
AppendWriteFails ==
    /\ Appendable
    /\ selected.count < Capacity
    /\ \E v \in {0, nextSeq} : PutCell(selected.count + 1, v)
    /\ healthy' = FALSE
    /\ rejected' = rejected \cup {nextSeq}
    /\ nextSeq' = nextSeq + 1
    /\ UNCHANGED <<open, persisted, selected, pending, dirty, pc, op, acked, crashes>>

----------------------------------------------------------------------------
(* flush_pending_commit, seal and sync_file: their entry checks.           *)

\* flush_pending_commit does not test the health flag; its callers do
\* (append and seal after their own check, flush_pending_batches through the
\* runtime's sticky healthy_), so a poisoned handle is never flushed.
FlushPendingCommit(sync) ==
    /\ Quiet /\ healthy
    /\ \/ /\ pending > 0
          /\ pc' = "sync_record"
       \/ /\ pending = 0 /\ dirty /\ sync = "immediate"
          /\ pc' = "sync_file"
    /\ op' = [sync |-> sync, seal |-> FALSE]
    /\ UNCHANGED <<fileVars, handleVars, ghostVars>>

Seal ==
    /\ Seals /\ Quiet /\ healthy /\ ~selected.sealed
    /\ pc' = IF pending > 0 THEN "sync_record" ELSE "write_slot"
    /\ op' = [sync |-> "immediate", seal |-> TRUE]
    /\ UNCHANGED <<fileVars, handleVars, ghostVars>>

SyncFile ==
    /\ Quiet /\ healthy /\ dirty
    /\ pc' = "sync_file"
    /\ op' = Idle
    /\ UNCHANGED <<fileVars, handleVars, ghostVars>>

----------------------------------------------------------------------------
(* Their system calls.                                                     *)

\* Mutant: the slot is written without the ordering sync.
SyncRecordSkipped ==
    /\ pc = "sync_record"
    /\ pc' = "write_slot"
    /\ UNCHANGED <<fileVars, handleVars, op, ghostVars>>

SyncRecord ==
    /\ pc = "sync_record"
    /\ SyncOk
    /\ pc' = "write_slot"
    /\ UNCHANGED <<handleVars, op, ghostVars>>

SyncRecordRefused ==
    /\ pc = "sync_record"
    /\ NotCommitted
    /\ UNCHANGED <<fileVars, healthy>>

SyncRecordFails ==
    /\ pc = "sync_record"
    /\ NotCommitted
    /\ healthy' = FALSE
    /\ SyncFails

\* The commit publish_commit encodes: the pending Records first, the sealed
\* state only once nothing is pending.
NextCommit ==
    [ok |-> TRUE, gen |-> persisted.commit.gen + 1, count |-> selected.count,
     last |-> selected.last, sealed |-> op.seal /\ pending = 0]

\* Mutant: the slot index is not advanced.
NextSlotSame == persisted.slot
NextSlot == Other(persisted.slot)

WriteCommitSlot ==
    /\ pc = "write_slot"
    /\ PutSlot(NextSlot, NextCommit)
    /\ selected' = NextCommit
    /\ persisted' = [slot |-> NextSlot, commit |-> NextCommit]
    /\ pending' = 0
    /\ IF op.sync = "deferred"
       THEN dirty' = TRUE /\ Finish
       ELSE pc' = "sync_slot" /\ UNCHANGED <<dirty, op>>
    /\ UNCHANGED <<open, healthy, ghostVars>>

WriteCommitSlotRefused ==
    /\ pc = "write_slot"
    /\ NotCommitted
    /\ UNCHANGED <<fileVars, healthy>>

\* Mutant: a failed slot write is reported as not_committed.
WriteCommitSlotFailsQuietly ==
    /\ pc = "write_slot"
    /\ \E v \in {slots[NextSlot], BadSlot, NextCommit} : PutSlot(NextSlot, v)
    /\ NotCommitted
    /\ UNCHANGED healthy

WriteCommitSlotFails ==
    /\ pc = "write_slot"
    /\ \E v \in {slots[NextSlot], BadSlot, NextCommit} : PutSlot(NextSlot, v)
    /\ RollbackPendingMetadata
    /\ Indeterminate

\* fdatasync of the slot: the durable commit point.  A seal that had pending
\* Records goes on to publish the sealed commit.
SyncCommitSlot ==
    /\ pc \in {"sync_slot", "sync_file"}
    /\ SyncOk
    /\ dirty' = FALSE
    /\ acked' = acked \cup Covered(cells, persisted.commit.count)
    /\ IF op.seal /\ ~persisted.commit.sealed
       THEN pc' = "write_slot" /\ UNCHANGED op
       ELSE Finish
    /\ UNCHANGED <<open, persisted, selected, pending, healthy,
                   nextSeq, rejected, crashes>>

SyncCommitSlotRefused ==
    /\ pc \in {"sync_slot", "sync_file"}
    /\ Indeterminate
    /\ UNCHANGED <<fileVars, selected, pending>>

SyncCommitSlotFails ==
    /\ pc \in {"sync_slot", "sync_file"}
    /\ SyncFails
    /\ Indeterminate
    /\ UNCHANGED <<selected, pending>>

----------------------------------------------------------------------------
(* Crash and reopen.                                                       *)

Gone ==
    /\ open' = FALSE
    /\ pc' = "idle" /\ op' = Idle
    /\ crashes' = crashes + 1
    /\ UNCHANGED <<persisted, selected, pending, dirty, healthy,
                   nextSeq, acked, rejected>>

\* What one cell or slot may hold after power loss.
Landed(old, written, torn) ==
    {old} \cup written \cup (IF written = {} THEN {} ELSE {torn})

PowerLoss ==
    /\ "power" \in CrashKinds /\ open /\ crashes < MaxCrashes
    /\ cells' \in [Cells -> UNION {Landed(dcells[i], fcells[i], 0) : i \in Cells}]
    /\ \A i \in Cells : cells'[i] \in Landed(dcells[i], fcells[i], 0)
    /\ \E a \in Landed(dslots[0], fslots[0], BadSlot),
          b \in Landed(dslots[1], fslots[1], BadSlot) :
          slots' = [s \in SlotIds |-> IF s = 0 THEN a ELSE b]
    /\ dcells' = cells' /\ dslots' = slots'
    /\ fcells' = [i \in Cells |-> {}]
    /\ fslots' = [s \in SlotIds |-> {}]
    /\ lost' = FALSE
    /\ Gone

\* A restart on the same kernel after a failed fdatasync is left out: what the
\* page cache then holds, and what a later fdatasync proves, is kernel-specific.
Kill ==
    /\ "kill" \in CrashKinds /\ open /\ crashes < MaxCrashes /\ ~lost
    /\ UNCHANGED fileVars
    /\ Gone

\* Mutant: the first valid slot wins, whatever its generation.
NewestFirst(s) == slots[s].ok /\ (s = 1 => ~slots[0].ok)

\* select_newest_segment_commit: the valid slot of greatest generation; two
\* different slots of one generation are corruption.
Newest(s) ==
    /\ slots[s].ok
    /\ slots[Other(s)].ok =>
         \/ slots[s].gen > slots[Other(s)].gen
         \/ slots[s] = slots[Other(s)] /\ s = 0

\* visit_committed_records: every Record of the extent decodes, sequences
\* strictly increase and the commit metadata matches.
Scans(c) ==
    /\ \A i \in 1..c.count : cells[i] # 0
    /\ \A i \in 1..c.count : i > 1 => cells[i - 1] < cells[i]
    /\ c.count > 0 => cells[c.count] = c.last

Open ==
    /\ ~open
    /\ \E s \in SlotIds :
         /\ Newest(s)
         /\ Scans(slots[s])
         /\ persisted' = [slot |-> s, commit |-> slots[s]]
         /\ selected' = slots[s]
    /\ open' = TRUE
    /\ pending' = 0 /\ dirty' = FALSE /\ healthy' = TRUE
    /\ UNCHANGED <<fileVars, pc, op, ghostVars>>

----------------------------------------------------------------------------
\* create: the header is written, synchronised and renamed into place with
\* one valid slot of generation 1 before any handle is returned.
Init ==
    /\ cells = [i \in Cells |-> 0]
    /\ slots = [s \in SlotIds |-> IF s = 0 THEN FirstCommit ELSE BadSlot]
    /\ dcells = cells /\ dslots = slots
    /\ fcells = [i \in Cells |-> {}]
    /\ fslots = [s \in SlotIds |-> {}]
    /\ lost = FALSE
    /\ open = TRUE
    /\ persisted = [slot |-> 0, commit |-> FirstCommit]
    /\ selected = FirstCommit
    /\ pending = 0 /\ dirty = FALSE /\ healthy = TRUE
    /\ pc = "idle" /\ op = Idle
    /\ nextSeq = 1 /\ acked = {} /\ rejected = {} /\ crashes = 0

Next ==
    \/ AppendRecord \/ AppendRefused \/ AppendPacingFails \/ AppendWriteFails
    \/ \E sync \in Syncs : FlushPendingCommit(sync)
    \/ Seal \/ SyncFile
    \/ SyncRecord \/ SyncRecordRefused \/ SyncRecordFails
    \/ WriteCommitSlot \/ WriteCommitSlotRefused \/ WriteCommitSlotFails
    \/ SyncCommitSlot \/ SyncCommitSlotRefused \/ SyncCommitSlotFails
    \/ PowerLoss \/ Kill
    \/ Open

Spec == Init /\ [][Next]_vars

----------------------------------------------------------------------------
(* Properties.                                                             *)

FlagsOK ==
    /\ lost \in BOOLEAN /\ open \in BOOLEAN
    /\ dirty \in BOOLEAN /\ healthy \in BOOLEAN
DataOK ==
    /\ cells \in [Cells -> Nat] /\ dcells \in [Cells -> Nat]
    /\ slots \in [SlotIds -> Commit] /\ dslots \in [SlotIds -> Commit]
    /\ fcells \in [Cells -> SUBSET Nat] /\ fslots \in [SlotIds -> SUBSET Commit]
    /\ persisted \in [slot : SlotIds, commit : Commit]
    /\ selected \in Commit
    /\ pending \in 0..Capacity
    /\ pc \in {"idle", "sync_record", "write_slot", "sync_slot", "sync_file"}
    /\ op \in [sync : {"immediate", "deferred"}, seal : BOOLEAN]
    /\ nextSeq \in Nat /\ crashes \in Nat
    /\ acked \in SUBSET Nat /\ rejected \in SUBSET Nat

\* Types of the whole state; in particular append_record never moves the extent
\* beyond the capacity of the Segment.
TypeOK == FlagsOK /\ DataOK

\* An acknowledged mutation survives: whatever crashes happened, the reopened
\* handle authorises every Record whose commit slot was synchronised before
\* publish_commit or sync_file returned committed.
AcknowledgedSurvive == open => acked \subseteq Covered(cells, persisted.commit.count)

\* A crash never leaves a file that open and the committed-extent scan refuse:
\* select_newest_segment_commit always finds a slot whose Records decode.
AlwaysRecoverable == ~open => \E s \in SlotIds : Newest(s) /\ Scans(slots[s])

\* not_committed is a promise: a Record whose append or flush returned it is
\* never inside a commit boundary, before or after any crash, even when its
\* bytes reached the file or were rolled back and overwritten.
RejectedNeverRecovered ==
    open => rejected \cap Covered(cells, persisted.commit.count) = {}

\* Record-before-slot ordering of flush_pending_commit: no slot that a crash
\* could leave valid authorises a cell that is not on stable storage.
SlotsAuthoriseOnlySyncedRecords ==
    \A s \in SlotIds : \A c \in fslots[s] \cup {dslots[s]} :
        c.ok => \A i \in 1..c.count : fcells[i] = {} /\ dcells[i] # 0

\* publish_commit alternates slots and never overwrites the only commit known
\* to be on stable storage: some slot is valid there with no write in flight.
KnownValidSlot == \E s \in SlotIds : dslots[s].ok /\ fslots[s] = {}

\* Rotation relies on seal being final: once seal has returned committed, no
\* later step or crash makes the Segment active again or changes its extent.
SealReturned == open /\ healthy /\ pc = "idle" /\ persisted.commit.sealed
SealIsFinal ==
    \A n \in 0..Capacity :
      [](SealReturned /\ persisted.commit.count = n =>
         [](open => persisted.commit.sealed /\ persisted.commit.count = n))

----------------------------------------------------------------------------
(* The inductive invariant: wherever a crash falls, one slot names a sound *)
(* boundary.                                                               *)

\* The first n cells are distinct Records in sequence order, ending with last,
\* that keep every acknowledged Record and hold no rejected one.
Extent(n, last) ==
    /\ \A i \in 1..n : cells[i] # 0
    /\ \A i, j \in 1..n : i < j => cells[i] < cells[j]
    /\ last = IF n = 0 THEN 0 ELSE cells[n]
    /\ last < nextSeq
    /\ acked \subseteq Covered(cells, n)
    /\ rejected \cap Covered(cells, n) = {}

OnDisk(n) == \A i \in 1..n : fcells[i] = {} /\ dcells[i] = cells[i]

Sound(c) == c.ok /\ OnDisk(c.count) /\ Extent(c.count, c.last)

Superseded(c, by) == c.ok => c.gen < by.gen /\ c.count <= by.count

\* Slot b is the recovery boundary: durable and untouched since.  The other slot
\* is invalid or older on stable storage, and at most one write to it is in
\* flight: of nothing better, or of the next sound commit.
Boundary(b) ==
    /\ fslots[b] = {} /\ slots[b] = dslots[b] /\ Sound(dslots[b])
    /\ Superseded(dslots[Other(b)], dslots[b])
    /\ fslots[Other(b)] \subseteq {slots[Other(b)]}
    /\ \/ Superseded(slots[Other(b)], dslots[b])
       \/ /\ slots[Other(b)].gen = dslots[b].gen + 1 /\ Sound(slots[Other(b)])
          /\ dslots[b].count <= slots[Other(b)].count

\* No slot write is in flight.
SlotsSynced == slots = dslots /\ \A s \in SlotIds : fslots[s] = {}

\* No handle: the file is what the last crash left.
Closed == ~open /\ pc = "idle" /\ ~lost /\ \E b \in SlotIds : Boundary(b)

\* The handle: its persisted commit is the newest and sound, durable or not,
\* and the pending Records follow it.  A slot is only written when the Records
\* of the new commit and both slots are on stable storage.
Running ==
    /\ open /\ healthy /\ ~lost
    /\ \E b \in SlotIds : Boundary(b)
    /\ persisted.commit = slots[persisted.slot] /\ Sound(persisted.commit)
    /\ Superseded(slots[Other(persisted.slot)], persisted.commit)
    /\ selected = WithExtent(persisted.commit, selected.count, selected.last)
    /\ selected.count = persisted.commit.count + pending
    /\ Extent(selected.count, selected.last)
    /\ pc = "write_slot" => OnDisk(selected.count) /\ SlotsSynced

\* The directory is poisoned: nothing is written before the next crash.
Poisoned ==
    /\ open /\ ~healthy /\ pc = "idle"
    /\ acked \subseteq Covered(cells, persisted.commit.count)
    /\ rejected \cap Covered(cells, persisted.commit.count) = {}
    /\ \E b \in SlotIds : Boundary(b)

CrashSafe ==
    /\ \A r \in rejected : r < nextSeq
    /\ Closed \/ Running \/ Poisoned

\* An owner that only commits immediately, and is never killed, leaves no slot
\* write in flight between two commits: seal relies on it.
SyncedBetweenCommits ==
    /\ op.sync = "immediate"
    /\ SlotsSynced \/ pc = "sync_slot" \/ (open /\ ~healthy)

=============================================================================

----------------------------- MODULE SwissTable -----------------------------
(***************************************************************************)
(* The Index partition of one Worker (src/index): an open-addressing table *)
(* of control bytes and slots, probed group by group, whose long keys live *)
(* in a bump arena (KeyArena).  A table is a record; the operations of     *)
(* SwissTableIndex are functions from tables to results.                   *)
(*                                                                         *)
(* The arena is the sequence of its bytes, a byte being the key it belongs *)
(* to; room is the capacity of the vector that holds it.  An operation     *)
(* that must allocate is given oom, whether the allocation throws.         *)
(***************************************************************************)
EXTENDS Integers, Sequences, FiniteSets, SequencesExt, FiniteSetsExt

CONSTANTS
    Keys,            \* complete keys
    KeySize,         \* [Keys -> Nat], bytes of a key
    Hash,            \* [Keys -> [group, fp, tag]]: hash >> 7, h2, low hash word
    GroupSize,       \* kSwissGroupSize, a power of two
    LoadDivisor,     \* the 8 of "capacity - capacity / 8"
    RebuildDivisor,  \* the 4 of "capacity / 4"
    InlineBytes,     \* kSwissInlineKeyBytes
    CompactDead,     \* kHeapArenaCompactDeadThreshold
    MaxCapacity,     \* largest power of two the capacity can take
    ArenaLimit       \* largest arena offset

\* The load limit leaves a group-sized table with an empty slot.
ASSUME TableAssumption ==
    /\ GroupSize \in Nat \ {0} /\ LoadDivisor \in 2 .. GroupSize
    /\ RebuildDivisor \in Nat \ {0} /\ MaxCapacity \in Nat
    /\ KeySize \in [Keys -> Nat]
    /\ \A k \in Keys : Hash[k].fp \in 1 .. 127

Empty == 128
Deleted == 254
NoSlot == -1
NoRef == "NoRef"

KeyBytes(k) == [i \in 1 .. KeySize[k] |-> k]
IsInline(k) == KeySize[k] <= InlineBytes
Occupied(c) == c \notin {Empty, Deleted}

\* A default-constructed Slot.
BlankSlot == [ref |-> NoRef, size |-> 0, inline |-> FALSE, tag |-> 0, bytes |-> <<>>, off |-> 0]

EmptyTable(capacity) ==
    [cap |-> capacity, ctrl |-> [i \in 0 .. capacity - 1 |-> Empty],
     slots |-> [i \in 0 .. capacity - 1 |-> BlankSlot],
     size |-> 0, deleted |-> 0, live |-> 0, dead |-> 0, arena |-> <<>>, room |-> 0]

----------------------------------------------------------------------------
(* The arena. *)

Data(t, off, size) ==
    IF off + size > Len(t.arena) THEN <<>> ELSE SubSeq(t.arena, off + 1, off + size)

MaxOf(a, b) == IF a > b THEN a ELSE b

\* KeyArena::reserve: the vector's capacity never shrinks.
ArenaReserve(t, bytes) ==
    IF bytes > Len(t.arena) THEN [t EXCEPT !.room = MaxOf(@, bytes)] ELSE t

----------------------------------------------------------------------------
(* Lookup. *)

SlotKey(t, s) == IF s.inline THEN s.bytes ELSE Data(t, s.off, s.size)

KeyEquals(t, s, k) ==
    /\ s.size = KeySize[k] /\ s.tag = Hash[k].tag
    /\ SlotKey(t, s) = KeyBytes(k)

ProbeStart(t, k) == (Hash[k].group % (t.cap \div GroupSize)) * GroupSize

\* The n-th slot a probe visits: groups are visited whole and in order.
Probe(t, k, n) == (ProbeStart(t, k) + n) % t.cap

Matches(t, k, i) == t.ctrl[i] = Hash[k].fp /\ KeyEquals(t, t.slots[i], k)

\* The steps at which a probe for k stops.
Stops(t, k) ==
    {n \in 0 .. t.cap - 1 : LET i == Probe(t, k, n) IN t.ctrl[i] = Empty \/ Matches(t, k, i)}

StopSlot(t, k, stops) == IF stops = {} THEN NoSlot ELSE Probe(t, k, Min(stops))

\* Mutant: the first deleted slot is taken without looking for the key behind it.
EagerInsertSlot(t, k, i) ==
    LET reusable == {n \in 0 .. t.cap - 1 :
                        /\ t.ctrl[Probe(t, k, n)] = Deleted
                        /\ \A m \in 0 .. n : Probe(t, k, m) # i}
    IN  IF i = NoSlot THEN NoSlot
        ELSE IF reusable # {} THEN Probe(t, k, Min(reusable)) ELSE i

\* The slot an insertion of k uses when its probe ends at slot i: the one that
\* holds k, else the first deleted one of the probe, else the empty one.
InsertSlot(t, k, i) ==
    LET reusable == {n \in 0 .. t.cap - 1 :
                        /\ t.ctrl[Probe(t, k, n)] = Deleted
                        /\ \A m \in 0 .. n : Probe(t, k, m) # i}
    IN  IF i = NoSlot THEN NoSlot
        ELSE IF t.ctrl[i] = Empty /\ reusable # {} THEN Probe(t, k, Min(reusable)) ELSE i

IfOccupied(t, i) == IF i = NoSlot THEN NoSlot ELSE IF t.ctrl[i] = Empty THEN NoSlot ELSE i

FindSlotIndex(t, k) == IfOccupied(t, StopSlot(t, k, Stops(t, k)))
FindInsertIndex(t, k) == InsertSlot(t, k, StopSlot(t, k, Stops(t, k)))

RefAt(t, i) == IF i = NoSlot THEN NoRef ELSE t.slots[i].ref
Find(t, k) == RefAt(t, FindSlotIndex(t, k))

----------------------------------------------------------------------------
(* Occupancy. *)

Occupancy(t) == t.size + t.deleted
MaximumOccupancy(capacity) == capacity - capacity \div LoadDivisor

TombstoneRebuildBeneficial(t) ==
    /\ t.deleted >= MaxOf(GroupSize, t.cap \div RebuildDivisor)
    /\ t.deleted > t.size

\* normalize_capacity, 0 on overflow.
NormalizeCapacity(slots) ==
    LET enough == {c \in {GroupSize * 2 ^ e : e \in 0 .. MaxCapacity} : slots <= c /\ c <= MaxCapacity}
    IN  IF enough = {} THEN 0 ELSE Min(enough)

----------------------------------------------------------------------------
(* Insertion into a table that has room, and rehash, which builds a new     *)
(* table with it and installs it only when it is complete.                  *)

Result(code, t) == [code |-> code, t |-> t]

\* set_key and the publication of the slot.  An arena allocation that throws
\* leaves the metadata of a slot that is not occupied.
SetNewKey(t, i, k, ref, oom) ==
    LET meta == [BlankSlot EXCEPT !.size = KeySize[k], !.tag = Hash[k].tag,
                                  !.inline = IsInline(k)]
        off == Len(t.arena)
        needed == off + KeySize[k]
        filled == [t EXCEPT !.ctrl[i] = Hash[k].fp, !.size = @ + 1,
                            !.deleted = IF t.ctrl[i] = Deleted THEN @ - 1 ELSE @]
    IN  CASE IsInline(k) ->
               Result("ok", [filled EXCEPT
                   !.slots[i] = [meta EXCEPT !.ref = ref, !.bytes = KeyBytes(k)]])
          [] ~IsInline(k) /\ needed > ArenaLimit ->
               Result("failed", [t EXCEPT !.slots[i] = BlankSlot])
          [] ~IsInline(k) /\ needed <= ArenaLimit /\ needed > t.room /\ oom ->
               Result("raised", [t EXCEPT !.slots[i] =
                   [@ EXCEPT !.size = meta.size, !.tag = meta.tag, !.inline = FALSE]])
          [] OTHER ->
               Result("ok", [filled EXCEPT
                   !.slots[i] = [meta EXCEPT !.ref = ref, !.off = off],
                   !.arena = @ \o KeyBytes(k), !.room = MaxOf(@, needed),
                   !.live = @ + KeySize[k]])

PlaceAt(t, i, k, ref, oom) ==
    IF i = NoSlot THEN Result("failed", t)
    ELSE IF Occupied(t.ctrl[i]) THEN Result("ok", [t EXCEPT !.slots[i].ref = ref])
    ELSE SetNewKey(t, i, k, ref, oom)

Place(t, k, ref, oom) == PlaceAt(t, FindInsertIndex(t, k), k, ref, oom)

\* The key whose bytes a slot holds.
KeyOf(t, i) == CHOOSE k \in Keys : SlotKey(t, t.slots[i]) = KeyBytes(k)

\* The occupied slots in the order entries() lists them.
EntrySlots(t) == SelectSeq([n \in 1 .. t.cap |-> n - 1], LAMBDA i : Occupied(t.ctrl[i]))

Rehash(t, capacity, oom) ==
    LET entries == EntrySlots(t)
        rebuilt[n \in 0 .. Len(entries)] ==
            IF n = 0 THEN ArenaReserve(EmptyTable(capacity), t.live)
            ELSE Place(rebuilt[n - 1], KeyOf(t, entries[n]), t.slots[entries[n]].ref, FALSE).t
    IN  IF t.size > MaximumOccupancy(capacity) THEN Result("failed", t)
        ELSE IF oom THEN Result("raised", t)
        ELSE Result("ok", rebuilt[Len(entries)])

\* The capacity grow_if_needed rebuilds at: 0 for none, -1 for an overflow.
GrowthCapacity(t) ==
    IF TombstoneRebuildBeneficial(t) THEN t.cap
    ELSE IF Occupancy(t) < MaximumOccupancy(t.cap) THEN 0
    ELSE IF t.size < MaximumOccupancy(t.cap) /\ t.deleted # 0 THEN t.cap
    ELSE IF t.cap > MaxCapacity \div 2 THEN -1
    ELSE 2 * t.cap

Rebuild(t, capacity, oom) ==
    IF capacity = 0 THEN Result("ok", t)
    ELSE IF capacity = -1 THEN Result("failed", t)
    ELSE Rehash(t, capacity, oom)

GrowIfNeeded(t, oom) == Rebuild(t, GrowthCapacity(t), oom)

----------------------------------------------------------------------------
(* The operations. *)

InsertGrown(grown, k, ref, oom) ==
    IF grown.code # "ok" THEN grown ELSE Place(grown.t, k, ref, oom)

InsertOrAssign(t, k, ref, oom) == InsertGrown(GrowIfNeeded(t, oom), k, ref, oom)

\* Whether the insertion has to allocate: a rehash, or an arena past its room.
InsertAllocates(t, k) ==
    \/ GrowthCapacity(t) > 0
    \/ /\ ~IsInline(k) /\ FindSlotIndex(t, k) = NoSlot
       /\ Len(t.arena) + KeySize[k] > t.room

ClearSlot(t, i) ==
    LET s == t.slots[i]
        heap == IF s.inline THEN 0 ELSE s.size
    IN  [t EXCEPT !.ctrl[i] = Deleted, !.slots[i] = BlankSlot, !.deleted = @ + 1,
                  !.live = IF @ >= heap THEN @ - heap ELSE 0, !.dead = @ + heap]

EraseAt(t, i) == IF i = NoSlot THEN t ELSE [ClearSlot(t, i) EXCEPT !.size = @ - 1]

EraseNoCompact(t, k) == EraseAt(t, FindSlotIndex(t, k))

\* The arena with only the keys of occupied slots, in slot order.
CompactHeapKeys(t) ==
    LET heap == SelectSeq(EntrySlots(t), LAMBDA i : ~t.slots[i].inline)
        copied[n \in 0 .. Len(heap)] ==
            IF n = 0 THEN [t EXCEPT !.arena = <<>>, !.room = t.live, !.dead = 0]
            ELSE LET before == copied[n - 1]
                 IN  [before EXCEPT !.slots[heap[n]].off = Len(before.arena),
                                    !.arena = @ \o SlotKey(t, t.slots[heap[n]])]
        compacted == copied[Len(heap)]
    IN  [compacted EXCEPT !.live = Len(compacted.arena)]

MaybeCompactHeapKeys(t, oom) ==
    CASE t.dead = 0 -> t
      [] t.dead # 0 /\ t.live = 0 -> [t EXCEPT !.arena = <<>>, !.dead = 0]
      [] t.dead # 0 /\ t.live # 0 /\ (t.dead < CompactDead \/ t.dead < t.live \/ oom) -> t
      [] OTHER -> CompactHeapKeys(t)

Erase(t, k, oom) ==
    IF FindSlotIndex(t, k) = NoSlot THEN t
    ELSE MaybeCompactHeapKeys(EraseNoCompact(t, k), oom)

\* Mutant: a table with enough slots is taken as it is, tombstones and all.
ReserveLiveOnly(t, count, needed) ==
    IF needed = 0 THEN -1 ELSE IF needed > t.cap THEN needed ELSE 0

\* The capacity reserve rebuilds at so that count entries stay within the load
\* limit and meet an empty slot: 0 for none, -1 for an overflow.
ReserveCapacity(t, count, needed) ==
    LET exhausts == count - t.size > MaximumOccupancy(t.cap) - Occupancy(t)
    IN  IF needed = 0 THEN -1
        ELSE IF needed > t.cap THEN needed
        ELSE IF count > t.size /\ (exhausts \/ TombstoneRebuildBeneficial(t)) THEN t.cap
        ELSE 0

Reserve(t, count, oom) ==
    LET extra == (count + LoadDivisor - 2) \div (LoadDivisor - 1)
    IN  Rebuild(t, ReserveCapacity(t, count, NormalizeCapacity(count + extra)), oom)

\* KeyArena::prepare_allocate.
PrepareAllocate(t, bytes, oom) ==
    LET needed == Len(t.arena) + bytes
    IN  CASE needed > ArenaLimit -> Result("failed", t)
          [] needed \in (t.room + 1) .. ArenaLimit /\ oom -> Result("raised", t)
          [] OTHER -> Result("ok", ArenaReserve(t, needed))

PrepareKey(grown, k, oom) ==
    IF grown.code # "ok" \/ IsInline(k) THEN grown ELSE PrepareAllocate(grown.t, KeySize[k], oom)

PrepareInsert(t, k, oom) ==
    IF FindSlotIndex(t, k) # NoSlot THEN Result("ok", t)
    ELSE PrepareKey(GrowIfNeeded(t, oom), k, oom)

PrepareArena(reserved, bytes, oom) ==
    IF reserved.code # "ok" THEN reserved ELSE PrepareAllocate(reserved.t, bytes, oom)

PrepareBatchInsert(t, entries, bytes, oom) ==
    PrepareArena(Reserve(t, t.size + entries, oom), bytes, oom)
=============================================================================

--------------------------- MODULE IndexPartition ---------------------------
(***************************************************************************)
(* A Worker's Index in use.  The volatile Worker and the rebuilds insert   *)
(* and erase directly; the durable catalog prepares the capacity of a      *)
(* mutation before its Record is written and publishes it after the        *)
(* commit, one mutation at a time or a strict group at once, while expired *)
(* keys are removed in between.  The owner serialises all of it.           *)
(***************************************************************************)
EXTENDS SwissTable

CONSTANTS
    Refs,          \* RecordRefs a put may carry
    MaxStaged,     \* bound: mutations of one group
    Environments   \* sets of circumstances, one of which holds: see Init

VARIABLES
    env,      \* [durable, group, oom: BOOLEAN, keys, refs: those used, init: keys inserted
              \* at the start]
    t,        \* the table
    latest,   \* what the owner last stored for each key, NoRef if it erased it
    staged,   \* pending_group_mutations: committed or about to be, not published
    pure,     \* the group holds only insertions of keys that were absent, and
              \* nothing was refused or expired since it began
    growth,   \* whether a publication allocated: "none", "pure" or "mixed"
    healthy

vars == <<env, t, latest, staged, pure, growth, healthy>>

\* The table after insertions of the keys of a sequence.
Loaded(keys, ref) ==
    LET filled[n \in 0 .. Len(keys)] ==
            IF n = 0 THEN EmptyTable(GroupSize)
            ELSE InsertOrAssign(filled[n - 1], keys[n], ref, FALSE).t
    IN  filled[Len(keys)]

Init ==
    /\ env \in Environments
    /\ \E ref \in env.refs :
          /\ t = Loaded(env.init, ref)
          /\ latest = [k \in Keys |-> IF k \in ToSet(env.init) THEN ref ELSE NoRef]
    /\ staged = <<>> /\ pure = TRUE /\ growth = "none" /\ healthy = TRUE

Oom == IF env.oom THEN BOOLEAN ELSE {FALSE}

----------------------------------------------------------------------------
(* The volatile Worker, recovery and vacuum. *)

Put(k, ref, oom) ==
    \E inserted \in {InsertOrAssign(t, k, ref, oom)} :
        /\ ~env.durable
        /\ t' = inserted.t
        /\ latest' = IF inserted.code = "ok" THEN [latest EXCEPT ![k] = ref] ELSE latest
        /\ UNCHANGED <<env, staged, pure, growth, healthy>>

EraseKey(k, oom) ==
    /\ ~env.durable
    /\ t' = Erase(t, k, oom)
    /\ latest' = [latest EXCEPT ![k] = NoRef]
    /\ UNCHANGED <<env, staged, pure, growth, healthy>>

ReserveMore(count, oom) ==
    /\ ~env.durable
    /\ t' = Reserve(t, count, oom).t
    /\ UNCHANGED <<env, latest, staged, pure, growth, healthy>>

----------------------------------------------------------------------------
(* The durable catalog. *)

\* key_present: the last pending mutation of the key decides, then the Index.
Present(k) ==
    LET pending == {i \in 1 .. Len(staged) : staged[i].key = k}
    IN  IF pending = {} THEN Find(t, k) # NoRef ELSE staged[Max(pending)].op = "put"

HeapBytes(m) == IF IsInline(m.key) THEN 0 ELSE KeySize[m.key]

\* A strict group reserves for all its insertions, m included.
PrepareGroup(prepared, m, oom) ==
    LET insertions == Append(SelectSeq(staged, LAMBDA x : x.fresh), m)
        bytes == FoldLeft(LAMBDA n, x : n + HeapBytes(x), 0, insertions)
    IN  IF ~env.group \/ ~m.fresh \/ prepared.code # "ok" THEN prepared
        ELSE PrepareBatchInsert(prepared.t, Len(insertions), bytes, oom)

Prepare(m, oom) ==
    IF m.op = "put" THEN PrepareGroup(PrepareInsert(t, m.key, oom), m, oom) ELSE Result("ok", t)

\* mutate up to the write of the Record: a put reserves the capacity of its
\* publication.
Stage(op, k, ref, oom) ==
    \E present \in {Present(k)} :
    \E m \in {[op |-> op, key |-> k, ref |-> ref, fresh |-> op = "put" /\ ~present]} :
        /\ env.durable /\ healthy
        /\ Len(staged) < IF env.group THEN MaxStaged ELSE 1
        /\ op = "erase" => present
        /\ \E prepared \in {Prepare(m, oom)} :
              /\ t' = prepared.t
              /\ staged' = IF prepared.code = "ok" THEN Append(staged, m) ELSE staged
              /\ pure' = (pure /\ (IF prepared.code = "ok" THEN m.fresh ELSE staged = <<>>))
        /\ UNCHANGED <<env, latest, growth, healthy>>

\* Index removal of an expired key, by a later mutation or a read.
Expire(k) ==
    /\ env.durable /\ healthy /\ Find(t, k) # NoRef
    /\ t' = EraseNoCompact(t, k)
    /\ latest' = [latest EXCEPT ![k] = NoRef]
    /\ pure' = (pure /\ staged = <<>>)
    /\ UNCHANGED <<env, staged, growth, healthy>>

\* One published mutation; a failure ends the publication and the runtime.
Published(p, m, done) ==
    [code |-> done.code, t |-> done.t,
     latest |-> IF done.code # "ok" THEN p.latest
                ELSE [p.latest EXCEPT ![m.key] = IF m.op = "put" THEN m.ref ELSE NoRef],
     grew |-> p.grew \/ (m.op = "put" /\ InsertAllocates(p.t, m.key))]

PublishOne(p, m, oom) ==
    IF p.code # "ok" THEN p
    ELSE Published(p, m, IF m.op = "put" THEN InsertOrAssign(p.t, m.key, m.ref, oom)
                         ELSE Result("ok", EraseNoCompact(p.t, m.key)))

Publish(oom) ==
    LET published[n \in 0 .. Len(staged)] ==
            IF n = 0 THEN [code |-> "ok", t |-> t, latest |-> latest, grew |-> FALSE]
            ELSE PublishOne(published[n - 1], staged[n], oom)
    IN  \E done \in {published[Len(staged)]} :
            /\ healthy /\ staged # <<>>
            /\ t' = done.t /\ latest' = done.latest
            /\ healthy' = (done.code = "ok")
            /\ growth' = IF ~done.grew THEN growth ELSE IF pure THEN "pure" ELSE "mixed"
            /\ staged' = <<>> /\ pure' = TRUE
            /\ UNCHANGED env

Next ==
    \/ \E k \in env.keys, ref \in env.refs, oom \in Oom : Put(k, ref, oom)
    \/ \E k \in env.keys, oom \in Oom : EraseKey(k, oom)
    \/ \E count \in 1 .. Cardinality(env.keys), oom \in Oom : ReserveMore(count, oom)
    \/ \E k \in env.keys, ref \in env.refs, oom \in Oom : Stage("put", k, ref, oom)
    \/ \E k \in env.keys : Stage("erase", k, NoRef, FALSE)
    \/ \E k \in env.keys : Expire(k)
    \/ \E oom \in Oom : Publish(oom)

Spec == Init /\ [][Next]_vars

----------------------------------------------------------------------------

\* A lookup finds exactly what was last stored under the complete key, through
\* tombstones, fingerprint and hash-tag collisions, rehashes, arena compaction
\* and operations that failed or ran out of memory (find, find_insert_index,
\* rehash, compact_heap_keys); entries() lists no key twice.
FindsLatest ==
    /\ \A k \in Keys : Find(t, k) = latest[k]
    /\ Len(EntrySlots(t)) = Cardinality({k \in Keys : latest[k] # NoRef})

\* The counters that decide when to rebuild agree with the control bytes, and
\* the load limit leaves the empty slot that ends every probe (grow_if_needed,
\* clear_slot, insert_or_assign).
ProbesEnd ==
    /\ t.size = Cardinality({i \in 0 .. t.cap - 1 : Occupied(t.ctrl[i])})
    /\ t.deleted = Cardinality({i \in 0 .. t.cap - 1 : t.ctrl[i] = Deleted})
    /\ \E i \in 0 .. t.cap - 1 : t.ctrl[i] = Empty
    /\ t.live + t.dead = Len(t.arena) /\ Len(t.arena) <= t.room

\* Lookups are right, and every probe of the table ends.
TableIsSound == FindsLatest /\ ProbesEnd

\* Publishing a group of insertions of keys that were absent when they were
\* prepared neither rehashes nor enlarges the arena: prepare_insert and
\* prepare_batch_insert reserved for the whole group before its commit.
PreparedInsertsFit == growth # "pure"

\* No publication after the commit allocates, whatever the group holds.
PublicationNeverAllocates == growth = "none"
=============================================================================

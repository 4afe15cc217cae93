--------------------------- MODULE VolatileWorker ---------------------------
(***************************************************************************)
(* A volatile Worker: in-memory Segments (segment.cpp) that it owns and    *)
(* the GlobalSegmentManager catalogues, its Index, whose entries count as  *)
(* the live records of their Segments, and the vacuum that copies the live *)
(* records of sparse sealed Segments and replaces them (vacuum.cpp).       *)
(*                                                                         *)
(* Callers hold the Worker mutex, except the exclusive Writer of a paired  *)
(* Store: it only counts itself in hot_path_depth and looks at the quiesce *)
(* gate, which compaction and verification arm before they wait for the    *)
(* depth to reach zero and take the mutex.                                 *)
(*                                                                         *)
(* A Record takes one unit of a Segment; the Index is the map its table    *)
(* implements (module IndexPartition).                                     *)
(***************************************************************************)
EXTENDS Integers, Sequences, FiniteSets, FiniteSetsExt

CONSTANTS
    Keys,
    Controls,       \* threads that compact or verify
    SegmentRecords, \* records that fit in a Segment
    LiveRatio,      \* maximum_live_ratio, in percent
    VacuumLimit,    \* maximum_segments_per_run
    LastSegment,    \* the last Segment identity
    MaxSequence,    \* bound: sequences a mutation may take
    NoRef,
    Environments    \* sets of circumstances, one of which holds: see Init

ASSUME VolatileAssumption ==
    /\ SegmentRecords \in Nat \ {0} /\ VacuumLimit \in Nat \ {0}
    /\ LiveRatio \in 0 .. 99 /\ LastSegment \in Nat \ {0, 1} /\ MaxSequence \in Nat
    /\ IsFiniteSet(Keys) /\ NoRef \notin [segment : Nat, offset : Nat] \cup Controls

VARIABLES
    env,      \* [exclusive, ttl : BOOLEAN, controls : SUBSET Controls]
    st,       \* the Worker and the catalog: see Fresh
    latest,   \* each key's acknowledged put, or Nothing
    expired,  \* the clock has passed the expiration of the Records that have one
    lock,     \* the thread that holds mutex_, or NoRef
    writer,   \* the exclusive Writer: "idle", "entered" or "mutating"
    holders,  \* index_quiesce_holders_
    gate,     \* index_quiesce_active_
    pc,       \* [Controls -> step]
    compacting, \* the thread that holds compaction_mutex, or NoRef
    vacuum,   \* what the running compaction has built
    accepted  \* no verification has reported corrupted_data

gateVars == <<writer, holders, gate>>
workVars == <<st, latest, expired>>
controlVars == <<lock, pc, compacting, vacuum, accepted>>
vars == <<env, workVars, gateVars, controlVars>>

Ref(id, n) == [segment |-> id, offset |-> n]
Record(op, key, seq, ttl) == [op |-> op, key |-> key, seq |-> seq, ttl |-> ttl]
NewSegment == [state |-> "active", records |-> <<>>, live |-> 0]

\* Two maps as one, f where both are defined.
Joined(f, g) == [x \in DOMAIN f \cup DOMAIN g |-> IF x \in DOMAIN f THEN f[x] ELSE g[x]]

\* segments: the manager's catalog; owned: the Segments the Worker resolves
\* references in; next: the next identity.
Fresh ==
    [segments |-> [id \in {1} |-> NewSegment], owned |-> {1}, active |-> 1,
     next |-> 2, seq |-> 1, index |-> [k \in Keys |-> NoRef]]

NoVacuum == [built |-> FALSE]
Nothing == [seq |-> 0, ttl |-> FALSE]

Init ==
    /\ env \in Environments
    /\ st = Fresh /\ latest = [k \in Keys |-> Nothing] /\ expired = FALSE
    /\ writer = "idle" /\ holders = 0 /\ gate = FALSE
    /\ lock = NoRef /\ pc = [c \in Controls |-> "idle"] /\ compacting = NoRef
    /\ vacuum = NoVacuum /\ accepted = TRUE

----------------------------------------------------------------------------
(* Segments. *)

RecordAt(s, ref) == s.segments[ref.segment].records[ref.offset]

MarkLive(s, ref) == [s EXCEPT !.segments[ref.segment].live = @ + 1]
MarkDead(s, ref) == [s EXCEPT !.segments[ref.segment].live = @ - 1]

Full(segment) == Len(segment.records) = SegmentRecords

AppendTo(s, id, record) == [s EXCEPT !.segments[id].records = Append(@, record)]
LastRef(s, id) == Ref(id, Len(s.segments[id].records))

\* A sealed Segment without live records leaves the catalog and the Worker.
MaybeRetire(s, id) ==
    IF s.segments[id].state # "sealed" \/ s.segments[id].live # 0 THEN s
    ELSE [s EXCEPT !.segments = Restrict(@, DOMAIN @ \ {id}), !.owned = @ \ {id}]

\* prepare_rotation and commit_rotation: the replacement is registered before
\* the active Segment is sealed.
Rotate(s) ==
    [s EXCEPT !.segments = Joined([@ EXCEPT ![s.active].state = "sealed"],
                                  [id \in {s.next} |-> NewSegment]),
              !.owned = @ \cup {s.next},
              !.active = s.next, !.next = @ + 1]

\* append_record: rotate when the active Segment is full; s unchanged but for
\* the sequence when there is no identity left.
CanAppend(s) == ~Full(s.segments[s.active]) \/ s.next < LastSegment

Prepared(s) ==
    IF Full(s.segments[s.active]) THEN MaybeRetire(Rotate(s), s.active) ELSE s

AppendRecord(s, record) == LET r == Prepared(s) IN AppendTo(r, r.active, record)

----------------------------------------------------------------------------
(* Mutations, as they run under the mutex or on the hot path. *)

\* Mutant: the replaced Record stays counted as live.
PublishKeepingLive(s, key, ref, previous) == MarkLive([s EXCEPT !.index[key] = ref], ref)

\* publish: the Index entry moves, liveness follows it, and the Segment that
\* lost its last live record is retired.
Publish(s, key, ref, previous) ==
    LET indexed == MarkLive([s EXCEPT !.index[key] = ref], ref)
    IN  IF previous = NoRef THEN indexed
        ELSE MaybeRetire(MarkDead(indexed, previous), previous.segment)

PutRecord(s, key, ttl) ==
    LET appended == AppendRecord([s EXCEPT !.seq = @ + 1], Record("put", key, s.seq, ttl))
    IN  Publish(appended, key, LastRef(appended, appended.active), s.index[key])

EraseRecord(s, key) ==
    LET appended == AppendRecord([s EXCEPT !.seq = @ + 1], Record("erase", key, s.seq, FALSE))
    IN  MaybeRetire(MarkDead([appended EXCEPT !.index[key] = NoRef], s.index[key]),
                    s.index[key].segment)

\* A put, an erase, or the erase by which a read removes an expired key.  An
\* erase of an absent key takes no sequence; a failed rotation refuses.
Mutation(key) ==
    /\ st.seq <= MaxSequence
    /\ \/ \E ttl \in IF env.ttl THEN BOOLEAN ELSE {FALSE} :
             IF CanAppend(st)
             THEN /\ st' = PutRecord(st, key, ttl)
                  /\ latest' = [latest EXCEPT ![key] = [seq |-> st.seq, ttl |-> ttl]]
             ELSE st' = [st EXCEPT !.seq = @ + 1] /\ UNCHANGED latest
       \/ /\ st.index[key] # NoRef
          /\ IF CanAppend(st)
             THEN st' = EraseRecord(st, key) /\ latest' = [latest EXCEPT ![key] = Nothing]
             ELSE st' = [st EXCEPT !.seq = @ + 1] /\ UNCHANGED latest

\* Store::put / erase / get of a Store without pairs: one critical section.
Locked(key) ==
    /\ ~env.exclusive /\ lock = NoRef
    /\ Mutation(key)
    /\ UNCHANGED <<env, expired, gateVars, controlVars>>

----------------------------------------------------------------------------
(* The exclusive Writer. *)

\* ExclusiveHotPathGuard.
Enter ==
    /\ env.exclusive /\ writer = "idle" /\ st.seq <= MaxSequence
    /\ writer' = "entered"
    /\ UNCHANGED <<env, workVars, holders, gate, controlVars>>

\* A closed gate refuses the mutation with sequence_conflict.
CheckGate ==
    /\ writer = "entered"
    /\ writer' = IF gate THEN "idle" ELSE "mutating"
    /\ UNCHANGED <<env, workVars, holders, gate, controlVars>>

Mutate(key) ==
    /\ writer = "mutating"
    /\ Mutation(key)
    /\ writer' = "idle"
    /\ UNCHANGED <<env, expired, holders, gate, controlVars>>

Depth == IF writer = "idle" THEN 0 ELSE 1

----------------------------------------------------------------------------
(* Compaction and verification. *)

Go(c, step) == pc' = [pc EXCEPT ![c] = step]

\* A compaction, unless one runs, or a verification begins.  In exclusive mode
\* it arms the gate: the count first, then the flag if the count was zero.
Arm(c) ==
    /\ c \in env.controls /\ pc[c] = "idle"
    /\ \/ compacting = NoRef /\ compacting' = c
       \/ UNCHANGED compacting
    /\ IF env.exclusive
       THEN /\ holders' = holders + 1
            /\ Go(c, IF holders = 0 THEN "close" ELSE "drain")
       ELSE Go(c, "lock") /\ UNCHANGED holders
    /\ UNCHANGED <<env, workVars, writer, gate, lock, vacuum, accepted>>

CloseGate(c) ==
    /\ pc[c] = "close" /\ gate' = TRUE /\ Go(c, "drain")
    /\ UNCHANGED <<env, workVars, writer, holders, lock, compacting, vacuum, accepted>>

\* A release store is not ordered before a later acquire load: the depth may
\* be read while the store of the flag is still buffered.
DrainEarly(c) ==
    /\ pc[c] = "close" /\ Depth = 0 /\ Go(c, "late")
    /\ UNCHANGED <<env, workVars, gateVars, lock, compacting, vacuum, accepted>>

CloseLate(c) ==
    /\ pc[c] = "late" /\ gate' = TRUE /\ Go(c, "lock")
    /\ UNCHANGED <<env, workVars, writer, holders, lock, compacting, vacuum, accepted>>

Drain(c) ==
    /\ pc[c] = "drain" /\ Depth = 0 /\ Go(c, "lock")
    /\ UNCHANGED <<env, workVars, gateVars, lock, compacting, vacuum, accepted>>

Lock(c) ==
    /\ pc[c] = "lock" /\ lock = NoRef
    /\ lock' = c
    /\ Go(c, IF compacting = c THEN "plan" ELSE "verify")
    /\ UNCHANGED <<env, workVars, gateVars, compacting, vacuum, accepted>>

\* verify_index: the newest Record of each key in the catalog, if it is a put,
\* must be exactly what the Index holds.
Newest(key) ==
    LET refs == {ref \in [segment : DOMAIN st.segments, offset : 1 .. SegmentRecords] :
                    /\ ref.offset <= Len(st.segments[ref.segment].records)
                    /\ RecordAt(st, ref).key = key}
    IN  IF refs = {} THEN NoRef
        ELSE CHOOSE ref \in refs : \A o \in refs : RecordAt(st, o).seq <= RecordAt(st, ref).seq

Rebuilt(key) ==
    IF Newest(key) = NoRef \/ RecordAt(st, Newest(key)).op = "erase" THEN NoRef ELSE Newest(key)

Verify(c) ==
    /\ pc[c] = "verify" /\ Go(c, "release")
    /\ accepted' = (accepted /\ \A k \in Keys : st.index[k] = Rebuilt(k))
    /\ UNCHANGED <<env, workVars, gateVars, lock, compacting, vacuum>>

Ratio(id) == (st.segments[id].live * 100) \div Len(st.segments[id].records)

Sparse == {id \in st.owned : st.segments[id].state = "sealed" /\ Ratio(id) <= LiveRatio}

\* candidates: the sparsest Segments, at most VacuumLimit.
Candidates ==
    {S \in SUBSET Sparse :
        /\ Cardinality(S) = Min({VacuumLimit, Cardinality(Sparse)})
        /\ \A id \in S, other \in Sparse \ S : Ratio(id) <= Ratio(other)}

\* rebuild: copies of the candidates' indexed Records, in the Index's order,
\* packed into new Segments; expired ones are dropped.
Copied(S) ==
    LET kept == {k \in Keys : /\ st.index[k] # NoRef /\ st.index[k].segment \in S
                              /\ ~(expired /\ RecordAt(st, st.index[k]).ttl)}
    IN  CHOOSE copied \in Bijection(1 .. Cardinality(kept), kept) : TRUE

Outputs(copied) == (Len(copied) + SegmentRecords - 1) \div SegmentRecords

CopyRef(copied, i) ==
    Ref(st.next + (i - 1) \div SegmentRecords, ((i - 1) % SegmentRecords) + 1)

CopySegments(copied) ==
    [id \in st.next .. st.next + Outputs(copied) - 1 |->
        LET first == (id - st.next) * SegmentRecords
            last == Min({first + SegmentRecords, Len(copied)})
        IN  [state |-> "sealed", live |-> last - first,
             records |-> [n \in 1 .. last - first |->
                             RecordAt(st, st.index[copied[first + n]])]]]

\* Mutant: the new Index holds the copied Records only.
CopyIndexOfSources(S, copied) ==
    [k \in Keys |->
        IF k \notin Range(copied) THEN NoRef
        ELSE CopyRef(copied, CHOOSE i \in 1 .. Len(copied) : copied[i] = k)]

CopyIndex(S, copied) ==
    [k \in Keys |->
        IF st.index[k] = NoRef \/ (st.index[k].segment \in S /\ k \notin Range(copied)) THEN NoRef
        ELSE IF st.index[k].segment \notin S THEN st.index[k]
        ELSE CopyRef(copied, CHOOSE i \in 1 .. Len(copied) : copied[i] = k)]

Entries(id) == Cardinality({k \in Keys : st.index[k] # NoRef /\ st.index[k].segment = id})

\* The planner and the builder.  The identities the builder takes are spent
\* even when the result saves no Segment and is dropped, or when they run out;
\* the candidates' live counts must be those of the Index.
Build(c) ==
    /\ pc[c] = "plan"
    /\ \E S \in Candidates : \E copied \in {Copied(S)} :
         /\ st' = [st EXCEPT !.next = Min({@ + Outputs(copied), LastSegment})]
         /\ IF \/ S = {}
               \/ st.next + Outputs(copied) > LastSegment
               \/ \E id \in S : Entries(id) # st.segments[id].live
               \/ Outputs(copied) >= Cardinality(S)
            THEN Go(c, "release") /\ UNCHANGED vacuum
            ELSE /\ vacuum' = [built |-> TRUE, sources |-> S, segments |-> CopySegments(copied),
                               index |-> CopyIndex(S, copied)]
                 /\ Go(c, "install")
    /\ UNCHANGED <<env, latest, expired, gateVars, lock, compacting, accepted>>

\* The Worker and the catalog with the sources replaced.
Installed(s, v) ==
    [s EXCEPT !.segments = Joined(Restrict(@, DOMAIN @ \ v.sources), v.segments),
              !.owned = (@ \ v.sources) \cup DOMAIN v.segments,
              !.index = v.index]

\* The sources' entries are marked dead, the manager replaces the sources,
\* which it requires to be sealed and without live records, and the Worker
\* adopts the new Index and Segments.
Install(c) ==
    /\ pc[c] = "install"
    /\ IF \A id \in vacuum.sources :
            id \in DOMAIN st.segments /\ st.segments[id].live = Entries(id)
       THEN st' = Installed(st, vacuum)
       ELSE UNCHANGED st
    /\ vacuum' = NoVacuum /\ Go(c, "release")
    /\ UNCHANGED <<env, latest, expired, gateVars, lock, compacting, accepted>>

\* compaction_mutex is the last thing the thread releases.
Leave(c) ==
    /\ Go(c, "idle")
    /\ compacting' = IF compacting = c THEN NoRef ELSE compacting

\* The Worker mutex is released before the gate is disarmed.
Release(c) ==
    /\ pc[c] = "release" /\ lock' = NoRef
    /\ IF env.exclusive THEN Go(c, "disarm") /\ UNCHANGED compacting ELSE Leave(c)
    /\ UNCHANGED <<env, workVars, gateVars, vacuum, accepted>>

\* disarm_index_quiesce_gate: the count, then the flag if it was the last.
Disarm(c) ==
    /\ pc[c] = "disarm" /\ holders' = holders - 1
    /\ IF holders = 1 THEN Go(c, "open") /\ UNCHANGED compacting ELSE Leave(c)
    /\ UNCHANGED <<env, workVars, writer, gate, lock, vacuum, accepted>>

OpenGate(c) ==
    /\ pc[c] = "open" /\ gate' = FALSE /\ Leave(c)
    /\ UNCHANGED <<env, workVars, writer, holders, lock, vacuum, accepted>>

Tick ==
    /\ env.ttl /\ ~expired /\ expired' = TRUE
    /\ UNCHANGED <<env, st, latest, gateVars, controlVars>>

ControlStep(c) ==
    \/ Arm(c) \/ CloseGate(c) \/ Drain(c) \/ Lock(c) \/ Build(c) \/ Install(c)
    \/ Verify(c) \/ Release(c) \/ Disarm(c) \/ OpenGate(c)

Next ==
    \/ \E key \in Keys : Locked(key)
    \/ Enter \/ CheckGate
    \/ \E key \in Keys : Mutate(key)
    \/ \E c \in Controls : ControlStep(c)
    \/ Tick

Spec == Init /\ [][Next]_vars

\* The same with the store buffer of the thread that closes the gate.
BufferedNext == Next \/ \E c \in Controls : DrainEarly(c) \/ CloseLate(c)

BufferedSpec == Init /\ [][BufferedNext]_vars

----------------------------------------------------------------------------

\* What get returns for a key: the sequence of the Record its Index entry
\* resolves to in an owned Segment, 0 for a miss, -1 for a read error.
Got(key) ==
    LET ref == st.index[key]
    IN  IF ref = NoRef THEN 0
        ELSE IF ref.segment \notin st.owned \cap DOMAIN st.segments THEN -1
        ELSE IF ref.offset > Len(st.segments[ref.segment].records) THEN -1
        ELSE IF expired /\ RecordAt(st, ref).ttl THEN 0
        ELSE RecordAt(st, ref).seq

\* Every get returns the last acknowledged put that no acknowledged erase
\* followed and that has not expired (Worker::get_locked): neither a rotation,
\* a retirement, a refused mutation nor a compaction, which replaces the whole
\* Index, hides it, brings back an older one or leaves an entry pointing into
\* a Segment that is gone.
ReadsAreLatest ==
    \A k \in Keys : Got(k) = IF expired /\ latest[k].ttl THEN 0 ELSE latest[k].seq

\* A Segment's live count is the number of Index entries that point into it,
\* the Worker owns exactly the catalogued Segments, and no sealed Segment
\* without a live Record stays (Worker::publish, maybe_retire, compact): a
\* count too low would retire a Segment that readers need, one too high would
\* keep it for ever and make the vacuum refuse it.
LivenessIsExact ==
    /\ st.owned = DOMAIN st.segments
    /\ \A id \in st.owned :
          /\ st.segments[id].live = Entries(id)
          /\ (st.segments[id].state = "sealed") => st.segments[id].live > 0

\* The exclusive Writer changes the Index only while no compaction or
\* verification is past its drain (ExclusiveIndexQuiesce): the mutex says
\* nothing about it, so this is all that keeps a compaction from replacing the
\* Index with one built before an acknowledged put.
IndexHasOneOwner ==
    (writer = "mutating")
        => \A c \in Controls : pc[c] \notin {"lock", "plan", "install", "verify", "release"}

\* No acknowledged mutation is lost to a compaction, and none runs beside one.
IndexIsLatest == ReadsAreLatest /\ IndexHasOneOwner

\* verify_index accepts every Store no mutation of which failed: an Index is
\* what a scan of the Segments gives, a tombstone hiding every older Record.
VerifyAccepts == accepted
=============================================================================

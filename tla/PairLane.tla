------------------------------ MODULE PairLane ------------------------------
(***************************************************************************)
(* One lane of the paired Reader-Writer runtime of an embedded Store       *)
(* (ShardPairRuntime without dedicated Writer threads): callers push       *)
(* mutations and the one that gets the execution token combines them;      *)
(* Readers take leases on the published generation; the Store's owner may  *)
(* back it up and close it.                                                *)
(*                                                                         *)
(* Only the holder of the token touches the pool, the merge and the        *)
(* Store's shard.  A step of it ends where another thread can see what it  *)
(* did or change what it reads next: the lane's mutex, the count of        *)
(* leases, the Store's admission, the published token, the health flag.    *)
(* log is the order in which the Store applied the shard's mutations.      *)
(***************************************************************************)
EXTENDS ReadGeneration

CONSTANTS
    Callers,     \* threads in Store::put, erase and put_batch
    Readers,     \* threads in Store::get_copy
    Nobody,
    MaxSpins,    \* refreshes while admission waits (4096)
    Environments \* see PairLaneAssumption

\* An environment: whether the Store is durable; the callers, how many calls
\* they make and the batches of mutations a call may bring; whether Readers
\* run, whether the owner backs the Store up or closes it; the faults that may
\* happen and how many of them.
ASSUME PairLaneAssumption ==
    /\ MaxSpins \in Nat /\ Nobody \notin Callers /\ IsFiniteSet(Readers)
    /\ \A e \in Environments :
        /\ {e.durable, e.reads, e.backup, e.close} \subseteq BOOLEAN
        /\ e.callers \subseteq Callers /\ {e.calls, e.faults} \subseteq Nat
        /\ \A items \in e.batches : items \in Seq({"put", "erase"} \X Keys) /\ items # <<>>
        /\ e.kinds \subseteq {"admission", "refused", "sticky", "thrown", "late_error", "indeterminate",
                              "capture", "publish", "published", "snapshot", "merge", "other_lane"}

VARIABLES
    env,
    calls,    \* calls that may still be made
    faults,   \* faults that may still happen
    req,      \* the SyncMutation nodes, in the order they were pushed
    log,      \* mutations in the shard, in the order the Store applied them
    lane,     \* the list of sync_head, newest first
    token,    \* who holds the execution token
    ex,       \* local state of the token's holder
    call,     \* per caller: where it is and which nodes it waits for
    read,     \* per Reader: where it is and the generation it holds
    pool,     \* the read generations
    reclaim,  \* reclaim_requested
    healthy,  \* healthy_ of the paired runtime
    operational, \* health of the durable Store
    owner,    \* "open", "closing", "drained", "finalized", "incomplete"
    backup    \* "idle", "fenced" or "copying"

vars == <<env, calls, faults, req, log, lane, token, ex, call, read, pool, reclaim, healthy,
          operational, owner, backup>>

IdleEx == [pc |-> "idle", chunk |-> <<>>, rest |-> <<>>, applied |-> 0, staged |-> <<>>,
           spins |-> 0, records |-> 0, quiescent |-> 0, then |-> "idle", ret |-> "idle",
           published |-> FALSE, committed |-> FALSE, final |-> FALSE, pending |-> FALSE]
IdleRead == [pc |-> "idle", slot |-> 0, epoch |-> 0]

Init ==
    /\ env \in Environments /\ calls = env.calls /\ faults = env.faults
    /\ req = <<>> /\ log = <<>> /\ lane = <<>> /\ token = Nobody /\ ex = IdleEx
    /\ call = [c \in Callers |-> [pc |-> "idle", nodes |-> {}]]
    /\ read = [r \in Readers |-> IdleRead]
    /\ pool = EmptyPool /\ reclaim = FALSE
    /\ healthy = TRUE /\ operational = TRUE /\ owner = "open" /\ backup = "idle"

\* What the shard holds after the first n mutations of log l.
Contents(l, n) ==
    [k \in Keys |-> LET at == Max({0} \cup {i \in 1..n : l[i].key = k})
                    IN  IF at > 0 /\ l[at].op = "put" THEN at ELSE 0]
Present(l, k) == Contents(l, Len(l))[k] > 0

\* A lane is a stack: what is pushed, or taken off it, is in reverse order.
Reverse(nodes) == [i \in 1..Len(nodes) |-> nodes[(Len(nodes) - i) + 1]]

Fault(kind) == kind \in env.kinds /\ faults > 0 /\ faults' = faults - 1
NoFault == UNCHANGED faults

\* FailClosedState::arm.  While admissions are fenced the Store refuses the
\* operation that would mark it.
FailClosed ==
    /\ healthy' = FALSE
    /\ operational' = (operational /\ (backup # "idle" \/ ~env.durable))

\* The nodes of a sequence get a status; done() also releases their callers.
Decide(nodes, status) ==
    req' = [i \in DOMAIN req |-> IF i \in Range(nodes) THEN [req[i] EXCEPT !.status = status] ELSE req[i]]
Answer(nodes, status) ==
    req' = [i \in DOMAIN req |-> IF i \in Range(nodes)
                                 THEN [req[i] EXCEPT !.status = status, !.done = TRUE] ELSE req[i]]

Leases == Quantify(Readers, LAMBDA r : read[r].pc # "idle")

\* The epoch reclaim_quiescent_generations may reclaim up to.
QuiescentEpochUncounted(p) == Epoch(p)
QuiescentEpoch(p) == IF Leases = 0 THEN Epoch(p) ELSE 0
(***************************************************************************)
(* Callers: ShardPairRuntime::mutate and mutate_batch, inside the          *)
(* OperationGuard of Store::put, erase and put_batch.                      *)
(***************************************************************************)
Enter(c) ==
    /\ call[c].pc = "idle" /\ c \in env.callers /\ calls > 0
    /\ owner = "open" /\ backup = "idle"
    /\ calls' = calls - 1 /\ call' = [call EXCEPT ![c].pc = "admitted"]
    /\ UNCHANGED <<env, faults, req, log, lane, token, ex, read, pool, reclaim, healthy, operational,
                   owner, backup>>

Push(c) ==
    /\ call[c].pc = "admitted" /\ healthy /\ owner = "open"
    /\ \E items \in env.batches :
        LET ids == [i \in DOMAIN items |-> Len(req) + i]
        IN  /\ req' = req \o [i \in DOMAIN items |-> [key |-> items[i][2], op |-> items[i][1],
                                                     status |-> "pending", done |-> FALSE]]
            /\ lane' = Reverse(ids) \o lane
            /\ call' = [call EXCEPT ![c] = [pc |-> "combine", nodes |-> Range(ids)]]
    /\ UNCHANGED <<env, calls, faults, log, token, ex, read, pool, reclaim, healthy, operational,
                   owner, backup>>

Refused(c) ==
    /\ call[c].pc = "admitted" /\ ~(healthy /\ owner = "open")
    /\ call' = [call EXCEPT ![c].pc = "idle"]
    /\ UNCHANGED <<env, calls, faults, req, log, lane, token, ex, read, pool, reclaim, healthy,
                   operational, owner, backup>>

\* combine_sync_lane: the caller that finds the token free becomes the
\* executor; another one waits for its nodes.
Acquire(c) ==
    /\ call[c].pc = "combine" /\ token = Nobody
    /\ token' = c /\ ex' = [IdleEx EXCEPT !.pc = "take"]
    /\ call' = [call EXCEPT ![c].pc = "executing"]
    /\ UNCHANGED <<env, calls, faults, req, log, lane, read, pool, reclaim, healthy, operational,
                   owner, backup>>

Miss(c) ==
    /\ call[c].pc = "combine" /\ token # Nobody
    /\ call' = [call EXCEPT ![c].pc = "waiting"]
    /\ UNCHANGED <<env, calls, faults, req, log, lane, token, ex, read, pool, reclaim, healthy,
                   operational, owner, backup>>

Return(c) ==
    /\ call[c].pc = "waiting" /\ \A i \in call[c].nodes : req[i].done
    /\ call' = [call EXCEPT ![c] = [pc |-> "idle", nodes |-> {}]]
    /\ UNCHANGED <<env, calls, faults, req, log, lane, token, ex, read, pool, reclaim, healthy,
                   operational, owner, backup>>

\* Whether nodes are pending is read before the token is released.
PeekThenRelease ==
    /\ ex.pc = "peek" /\ ex' = [ex EXCEPT !.pc = "release", !.pending = (lane # <<>>)]
    /\ UNCHANGED <<env, calls, faults, req, log, lane, token, call, read, pool, reclaim, healthy,
                   operational, owner, backup>>

Release ==
    /\ ex.pc = "release" /\ token' = Nobody /\ ex' = IdleEx
    /\ call' = [call EXCEPT ![token].pc = IF ex.pending THEN "combine" ELSE "waiting"]
    /\ UNCHANGED <<env, calls, faults, req, log, lane, read, pool, reclaim, healthy, operational,
                   owner, backup>>
(***************************************************************************)
(* The executor: process_sync_lane.                                        *)
(***************************************************************************)
Elsewhere == <<env, calls, token, call, read, owner, backup>>

\* The whole list is taken under the lane's mutex and reversed.
TakeBatch ==
    /\ ex.pc = "take" /\ lane' = <<>>
    /\ \/ lane = <<>> /\ ex' = [ex EXCEPT !.pc = "peek"] /\ UNCHANGED req
       \/ lane # <<>> /\ healthy /\ ex' = [ex EXCEPT !.pc = "next", !.rest = Reverse(lane)] /\ UNCHANGED req
       \/ lane # <<>> /\ ~healthy /\ Answer(lane, "rejected") /\ UNCHANGED ex
    /\ UNCHANGED <<faults, log, pool, reclaim, healthy, operational>> /\ UNCHANGED Elsewhere

\* A volatile chunk holds up to PublicationBatch nodes, a durable one a node.
ChunkSize(rest) == IF env.durable THEN 1 ELSE Min({PublicationBatch, Len(rest)})
NextChunk ==
    /\ ex.pc = "next"
    /\ \/ /\ ex.rest = <<>> /\ ex' = [ex EXCEPT !.pc = "take"] /\ UNCHANGED <<req, reclaim>>
       \/ /\ ex.rest # <<>> /\ ~healthy /\ Answer(ex.rest, "rejected")
          /\ ex' = [ex EXCEPT !.pc = "take", !.rest = <<>>] /\ UNCHANGED reclaim
       \/ /\ ex.rest # <<>> /\ healthy
          /\ LET n == ChunkSize(ex.rest)
             IN  ex' = [IdleEx EXCEPT !.pc = "house", !.ret = "admit", !.records = n,
                                      !.chunk = SubSeq(ex.rest, 1, n),
                                      !.rest = SubSeq(ex.rest, n + 1, Len(ex.rest))]
          /\ reclaim' = TRUE /\ UNCHANGED req
    /\ UNCHANGED <<faults, log, lane, pool, healthy, operational>> /\ UNCHANGED Elsewhere

\* combiner_housekeeping: reclaim what was asked for, ...
Housekeep ==
    /\ ex.pc = "house" /\ reclaim' = FALSE
    /\ ex' = IF reclaim THEN [ex EXCEPT !.pc = "sweep", !.quiescent = QuiescentEpoch(pool), !.then = "merge"]
                         ELSE [ex EXCEPT !.pc = "merge"]
    /\ UNCHANGED <<faults, req, log, lane, pool, healthy, operational>> /\ UNCHANGED Elsewhere

Sweep ==
    /\ ex.pc = "sweep" /\ pool' = Reclaim(pool, ex.quiescent) /\ ex' = [ex EXCEPT !.pc = ex.then]
    /\ UNCHANGED <<faults, req, log, lane, reclaim, healthy, operational>> /\ UNCHANGED Elsewhere

\* ... start a merge that is due and advance it, ...
MergeStep ==
    /\ ex.pc = "merge"
    /\ LET started == IF MergeDue(pool) THEN StartMerge(pool) ELSE pool
           moved   == IF MergeReady(started) THEN started ELSE Advance(started, ex.records)
       IN  \/ /\ ~healthy \/ ~Merging(started)
              /\ ex' = [ex EXCEPT !.pc = ex.ret] /\ NoFault /\ UNCHANGED pool
           \/ /\ healthy /\ Merging(started) /\ ~MergeReady(started) /\ Fault("merge")
              /\ pool' = EndMerge(started)
              /\ ex' = [ex EXCEPT !.pc = ex.ret]
           \/ /\ healthy /\ Merging(started) /\ NoFault /\ pool' = moved
              /\ ex' = IF MergeReady(moved)
                       THEN [ex EXCEPT !.pc = "sweep", !.quiescent = QuiescentEpoch(moved), !.then = "finish"]
                       ELSE [ex EXCEPT !.pc = ex.ret]
    /\ UNCHANGED <<req, log, lane, reclaim, healthy, operational>> /\ UNCHANGED Elsewhere

\* ... and publish the merged generation once a slot may be taken.
MergeFinish ==
    /\ ex.pc = "finish"
    /\ \/ /\ Retired(pool) >= MaxRetired /\ NoFault
          /\ ex' = [ex EXCEPT !.pc = ex.ret] /\ UNCHANGED pool
       \/ /\ Retired(pool) < MaxRetired /\ Fault("merge")
          /\ pool' = EndMerge(pool) /\ ex' = [ex EXCEPT !.pc = ex.ret]
       \/ /\ Retired(pool) < MaxRetired /\ NoFault
          /\ pool' = EndMerge(FinishMerge(pool, TryReserve(pool)))
          /\ ex' = [ex EXCEPT !.pc = "sweep", !.quiescent = QuiescentEpoch(pool'), !.then = ex.ret]
    /\ UNCHANGED <<req, log, lane, reclaim, healthy, operational>> /\ UNCHANGED Elsewhere

\* Housekeeping again once enough generations are retired (reclaim_proportional).
ReclaimDue(p) == Retired(p) >= ReclaimQuantum \/ Retired(p) + 1 >= MaxRetired
Proportional(e, p, pc) ==
    /\ ex' = IF ReclaimDue(p) THEN [e EXCEPT !.pc = "house", !.records = 0, !.ret = pc] ELSE [e EXCEPT !.pc = pc]
    /\ reclaim' = (reclaim \/ ReclaimDue(p))

\* wait_generation_admission.
Admit ==
    /\ ex.pc = "admit"
    /\ LET refuse == ~env.durable /\ ex.spins = 0 /\ ~healthy
           n      == Len(ex.chunk)
       IN  \/ /\ refuse /\ Answer(ex.chunk \o ex.rest, "rejected")
              /\ ex' = [ex EXCEPT !.pc = "take", !.rest = <<>>]
           \/ /\ ~refuse /\ Admitted(pool, n) /\ UNCHANGED req
              /\ ex' = [ex EXCEPT !.pc = IF env.durable THEN "execute" ELSE "apply"]
           \/ /\ ~refuse /\ ~Admitted(pool, n) /\ ex.spins < MaxSpins /\ UNCHANGED req
              /\ ex' = [ex EXCEPT !.pc = "house", !.spins = @ + 1]
           \/ /\ ~refuse /\ ~Admitted(pool, n) /\ ex.spins = MaxSpins
              /\ Answer(ex.chunk, "rejected") /\ ex' = [ex EXCEPT !.pc = "next"]
    /\ UNCHANGED <<faults, log, lane, pool, reclaim, healthy, operational>> /\ UNCHANGED Elsewhere

\* Admission itself may throw; the volatile lane catches that.
AdmitFails ==
    /\ ex.pc = "admit" /\ ~env.durable /\ Fault("admission") /\ FailClosed
    /\ Answer(ex.chunk \o ex.rest, "rejected") /\ ex' = [ex EXCEPT !.pc = "take", !.rest = <<>>]
    /\ UNCHANGED <<log, lane, pool, reclaim>> /\ UNCHANGED Elsewhere
(***************************************************************************)
(* A volatile chunk: apply_volatile_sync_publication_chunk.                *)
(***************************************************************************)
Staged(id, l) == [id |-> id, key |-> req[id].key, op |-> req[id].op, pos |-> Len(l) + 1]

\* What the handler of an exception does to a chunk's statuses.
Unwound ==
    req' = [i \in DOMAIN req |-> IF i \in Range(ex.chunk) /\ req[i].status = "pending"
                                 THEN [req[i] EXCEPT !.status = "rejected"] ELSE req[i]]

\* After the last node the staged mutations are published, if there are any.
AfterNode(e) ==
    [e EXCEPT !.applied = e.applied + 1,
              !.pc = IF e.applied + 1 < Len(e.chunk) THEN "apply"
                     ELSE IF e.staged = <<>> THEN "reply" ELSE "publish"]

\* The Store applies the nodes in turn; a slot is reserved before the first.
\* It erases a key that is absent as a no-op, refuses a node, fails after
\* appending its Record (sticky), or throws, which ends the chunk.
Apply ==
    LET id     == ex.chunk[ex.applied + 1]
        absent == req[id].op = "erase" /\ ~Present(log, req[id].key)
        slot   == ex.applied > 0 \/ FreeSlots(pool) # {}
    IN  /\ ex.pc = "apply"
        /\ \/ /\ ~slot /\ NoFault /\ Answer(ex.chunk, "rejected") /\ ex' = [ex EXCEPT !.pc = "next"]
              /\ UNCHANGED <<log, healthy, operational>>
           \/ /\ slot /\ absent /\ NoFault /\ Decide(<<id>>, "absent") /\ ex' = AfterNode(ex)
              /\ UNCHANGED <<log, healthy, operational>>
           \/ /\ slot /\ ~absent /\ NoFault
              /\ log' = Append(log, [id |-> id, key |-> req[id].key, op |-> req[id].op])
              /\ ex' = AfterNode([ex EXCEPT !.staged = Append(ex.staged, Staged(id, log))])
              /\ UNCHANGED <<req, healthy, operational>>
           \/ /\ slot /\ Fault("refused") /\ Decide(<<id>>, "rejected") /\ ex' = AfterNode(ex)
              /\ UNCHANGED <<log, healthy, operational>>
           \/ /\ slot /\ Fault("sticky") /\ Decide(<<id>>, "unavailable") /\ ex' = AfterNode(ex)
              /\ FailClosed /\ UNCHANGED log
           \/ /\ slot /\ Fault("thrown") /\ Unwound /\ ex' = [ex EXCEPT !.pc = "reply"]
              /\ UNCHANGED <<log, healthy, operational>>
        /\ UNCHANGED <<lane, pool, reclaim>> /\ UNCHANGED Elsewhere

StagedIds == [i \in DOMAIN ex.staged |-> ex.staged[i].id]

\* publish_incremental_read_mutations.  A reservation whose mutation is in the
\* Store and that is not published fails the runtime closed.
Publish ==
    /\ ex.pc = "publish"
    /\ LET broken == Refuses(pool, Len(ex.staged))
           next   == IF env.durable THEN "check" ELSE "reply"
       IN  \/ /\ env.durable /\ FreeSlots(pool) = {} /\ NoFault
              /\ Decide(StagedIds, "rejected") /\ ex' = [ex EXCEPT !.pc = next]
              /\ UNCHANGED <<pool, reclaim, healthy, operational>>
           \/ /\ FreeSlots(pool) # {} /\ IF broken THEN NoFault ELSE Fault("publish")
              /\ FailClosed
              /\ IF env.durable THEN ex' = [ex EXCEPT !.pc = "drain"] /\ UNCHANGED req
                                ELSE ex' = [ex EXCEPT !.pc = "reply"] /\ Decide(StagedIds, "unavailable")
              /\ UNCHANGED <<pool, reclaim>>
           \/ /\ FreeSlots(pool) # {} /\ ~broken /\ NoFault
              /\ pool' = PublishIncremental(pool, TryReserve(pool), ex.staged)
              /\ Decide(StagedIds, "success")
              /\ Proportional([ex EXCEPT !.published = TRUE], pool', next)
              /\ UNCHANGED <<healthy, operational>>
           \/ /\ FreeSlots(pool) # {} /\ ~broken /\ Fault("published")
              /\ pool' = PublishIncremental(pool, TryReserve(pool), ex.staged)
              /\ Decide(StagedIds, "success") /\ FailClosed
              /\ ex' = [ex EXCEPT !.pc = next, !.published = TRUE] /\ UNCHANGED reclaim
    /\ UNCHANGED <<log, lane>> /\ UNCHANGED Elsewhere

Reply ==
    /\ ex.pc = "reply" /\ ex' = [ex EXCEPT !.pc = "next"]
    /\ req' = [i \in DOMAIN req |-> IF i \in Range(ex.chunk) THEN [req[i] EXCEPT !.done = TRUE] ELSE req[i]]
    /\ UNCHANGED <<faults, log, lane, pool, reclaim, healthy, operational>> /\ UNCHANGED Elsewhere
(***************************************************************************)
(* A durable node: durable_sync under the token.                           *)
(***************************************************************************)
Node == ex.chunk[1]

\* execute_durable_single.  While admissions are fenced, or once the Store has
\* failed closed, it refuses; otherwise it commits the mutation, refuses it,
\* commits it and reports an error, does not know, or throws.
Execute ==
    LET r         == req[Node]
        committed == Append(log, [id |-> Node, key |-> r.key, op |-> r.op])
        closed    == backup # "idle" \/ ~operational
        absent    == r.op = "erase" /\ ~Present(log, r.key)
    IN  /\ ex.pc = "execute"
        /\ \/ /\ closed \/ absent \/ "refused" \in env.kinds
              /\ IF closed \/ absent THEN NoFault ELSE Fault("refused")
              /\ Decide(ex.chunk, IF absent /\ ~closed THEN "absent" ELSE "rejected")
              /\ ex' = [ex EXCEPT !.pc = "check"] /\ UNCHANGED <<log, operational>>
           \/ /\ ~closed /\ ~absent /\ NoFault /\ log' = committed
              /\ ex' = [ex EXCEPT !.pc = IF r.op = "put" THEN "capture" ELSE "publish",
                                  !.staged = <<Staged(Node, log)>>, !.committed = TRUE]
              /\ UNCHANGED <<req, operational>>
           \/ /\ ~closed /\ ~absent /\ Fault("late_error") /\ log' = committed /\ operational' = FALSE
              /\ ex' = [ex EXCEPT !.pc = "drain", !.committed = TRUE] /\ UNCHANGED req
           \/ /\ ~closed /\ ~absent /\ Fault("indeterminate") /\ operational' = FALSE
              /\ ex' = [ex EXCEPT !.pc = "drain"] /\ UNCHANGED <<log, req>>
           \/ /\ ~closed /\ ~absent /\ Fault("thrown") /\ log' \in {log, committed}
              /\ ex' = [ex EXCEPT !.pc = "drain"] /\ UNCHANGED <<req, operational>>
        /\ UNCHANGED <<lane, pool, reclaim, healthy>> /\ UNCHANGED Elsewhere

\* capture_durable_read: an operation of the Store like any other.
Capture ==
    /\ ex.pc = "capture"
    /\ \/ /\ ~(backup = "idle" /\ operational) /\ NoFault
          /\ ex' = [ex EXCEPT !.pc = "drain"]
       \/ /\ backup = "idle" /\ operational /\ NoFault /\ ex' = [ex EXCEPT !.pc = "publish"]
       \/ /\ backup = "idle" /\ operational /\ Fault("capture") /\ ex' = [ex EXCEPT !.pc = "drain"]
    /\ UNCHANGED <<req, log, lane, pool, reclaim, healthy, operational>> /\ UNCHANGED Elsewhere

\* ack_after_published_visibility.
Visible(id) ==
    LET at == Lookup(Writer(pool).view, req[id].key)
    IN  IF req[id].op = "put" THEN at > 0 ELSE at = 0

\* A node that has no status yet: committed and published, it succeeds.
ResolveCommitted(id) ==
    IF req[id].status # "pending" THEN req[id].status
    ELSE IF ex.committed THEN "success" ELSE "unavailable"
Resolve(id) ==
    IF req[id].status # "pending" THEN req[id].status
    ELSE IF ex.published /\ ex.committed /\ Visible(id) THEN "success" ELSE "unavailable"

\* try_drain_durable_snapshot, before the runtime fails closed: when it works
\* the published generation holds everything the Store committed.
Drain ==
    /\ ex.pc = "drain"
    /\ LET refused == backup # "idle" \/ FreeSlots(pool) = {}
       IN  \/ /\ IF refused THEN NoFault ELSE Fault("snapshot")
              /\ ex' = [ex EXCEPT !.pc = "closed"] /\ UNCHANGED <<pool, reclaim>>
           \/ /\ ~refused /\ NoFault
              /\ pool' = EndMerge(PublishSnapshot(pool, TryReserve(pool), Contents(log, Len(log)), Len(log)))
              /\ Proportional([ex EXCEPT !.published = TRUE], pool', "closed")
    /\ UNCHANGED <<req, log, lane, healthy, operational>> /\ UNCHANGED Elsewhere

Closed ==
    /\ ex.pc = "closed" /\ FailClosed
    /\ Decide(ex.chunk, Resolve(Node))
    /\ ex' = [ex EXCEPT !.pc = IF ex.final THEN "reply" ELSE "check"]
    /\ UNCHANGED <<faults, log, lane, pool, reclaim>> /\ UNCHANGED Elsewhere

\* Store::operational, asked after every durable mutation.  A Store that is
\* not takes the runtime with it: one that has failed, and one that is closing.
StoreOperational == operational /\ owner = "open"
Check ==
    /\ ex.pc = "check"
    /\ IF StoreOperational THEN ex' = [ex EXCEPT !.pc = "reply"] /\ UNCHANGED <<healthy, operational>>
       ELSE IF ex.published THEN FailClosed /\ ex' = [ex EXCEPT !.pc = "reply"]
       ELSE ex' = [ex EXCEPT !.pc = "drain", !.final = TRUE] /\ UNCHANGED <<healthy, operational>>
    /\ UNCHANGED <<faults, req, log, lane, pool, reclaim>> /\ UNCHANGED Elsewhere
(***************************************************************************)
(* Readers: ReadLease.  The lease is counted before the published          *)
(* generation is loaded; dropping the last one asks for reclamation.       *)
(***************************************************************************)
Lease(r) ==
    /\ env.reads /\ read[r].pc = "idle" /\ backup = "idle" /\ owner \in {"open", "closing"}
    /\ read' = [read EXCEPT ![r].pc = "leased"]
    /\ UNCHANGED <<env, calls, faults, req, log, lane, token, ex, call, pool, reclaim, healthy,
                   operational, owner, backup>>

Adopt(r) ==
    /\ read[r].pc = "leased"
    /\ read' = [read EXCEPT ![r] = [pc |-> "holding", slot |-> pool.token, epoch |-> pool.slot[pool.token].epoch]]
    /\ UNCHANGED <<env, calls, faults, req, log, lane, token, ex, call, pool, reclaim, healthy,
                   operational, owner, backup>>

Drop(r) ==
    /\ read[r].pc = "holding" /\ read' = [read EXCEPT ![r] = IdleRead]
    /\ reclaim' = (reclaim \/ Leases = 1)
    /\ UNCHANGED <<env, calls, faults, req, log, lane, token, ex, call, pool, healthy, operational,
                   owner, backup>>

(***************************************************************************)
(* The owner: Store::backup_to and Store::close.                           *)
(***************************************************************************)
Quiet == \A c \in Callers : call[c].pc = "idle"
Operating == ~Quiet \/ Leases > 0

Backup ==
    /\ \/ env.backup /\ backup = "idle" /\ owner = "open" /\ backup' = "fenced"
       \/ backup = "fenced" /\ ~Operating /\ backup' = "copying"
       \/ backup = "copying" /\ backup' = "idle"
    /\ UNCHANGED <<env, calls, faults, req, log, lane, token, ex, call, read, pool, reclaim, healthy,
                   operational, owner>>

Close ==
    /\ env.close /\ owner = "open" /\ backup = "idle" /\ owner' = "closing"
    /\ UNCHANGED <<env, calls, faults, req, log, lane, token, ex, call, read, pool, reclaim, healthy,
                   operational, backup>>

\* stop_and_drain waits for the callers; then the Store's admission is closed.
StopAndDrain ==
    /\ owner = "closing" /\ Quiet /\ owner' = "drained"
    /\ UNCHANGED <<env, calls, faults, req, log, lane, token, ex, call, read, pool, reclaim, healthy,
                   operational, backup>>

\* finalize_reader_shutdown discards the merge, revokes the publication and
\* reclaims every retired generation.
ShutdownKeepsMerge(p) == Reclaim([p EXCEPT !.token = 0], Epoch(p) + 1)
Shutdown(p) == Reclaim([EndMerge(p) EXCEPT !.token = 0], Epoch(p) + 1)
FinalizeReaderShutdown ==
    /\ owner = "drained" /\ ~Operating
    /\ pool' = Shutdown(pool)
    /\ owner' = IF Cardinality(FreeSlots(pool')) = MaxRetired THEN "finalized" ELSE "incomplete"
    /\ UNCHANGED <<env, calls, faults, req, log, lane, token, ex, call, read, reclaim, healthy,
                   operational, backup>>

\* Another lane of the runtime fails closed.
OtherLane ==
    /\ healthy /\ Fault("other_lane") /\ FailClosed
    /\ UNCHANGED <<env, calls, req, log, lane, token, ex, call, read, pool, reclaim, owner, backup>>

Executor ==
    \/ TakeBatch \/ NextChunk \/ Housekeep \/ Sweep \/ MergeStep \/ MergeFinish \/ Admit \/ AdmitFails
    \/ Apply \/ Publish \/ Reply \/ Execute \/ Capture \/ Drain \/ Closed \/ Check \/ PeekThenRelease \/ Release
Caller(c) == Push(c) \/ Refused(c) \/ Acquire(c) \/ Miss(c) \/ Return(c)
Owner == StopAndDrain \/ FinalizeReaderShutdown

Next ==
    \/ Executor \/ Owner \/ Close \/ Backup \/ OtherLane
    \/ \E c \in Callers : Enter(c) \/ Caller(c)
    \/ \E r \in Readers : Lease(r) \/ Adopt(r) \/ Drop(r)

Spec == Init /\ [][Next]_vars

\* The threads run: a caller inside a call, the executor, a Reader inside a
\* read and the owner inside close go on.  Nobody has to call anything.
Fairness ==
    /\ WF_vars(Executor) /\ WF_vars(Owner)
    /\ \A c \in Callers : WF_vars(Caller(c))
    /\ \A r \in Readers : WF_vars(Adopt(r) \/ Drop(r))
FairSpec == Spec /\ Fairness
-----------------------------------------------------------------------------
\* The variables of ShardPairRuntime's lane, its callers and the slot pool stay
\* in their domains.
TypeOK ==
    /\ env \in Environments /\ calls \in 0..env.calls /\ faults \in 0..env.faults
    /\ \A i \in DOMAIN req :
        /\ req[i].key \in Keys /\ req[i].op \in {"put", "erase"} /\ req[i].done \in BOOLEAN
        /\ req[i].status \in {"pending", "success", "rejected", "absent", "unavailable"}
    /\ \A i \in DOMAIN log : log[i].id \in DOMAIN req /\ log[i].key \in Keys
    /\ Range(lane) \subseteq DOMAIN req /\ token \in Callers \cup {Nobody}
    /\ ex.pc \in {"idle", "take", "next", "house", "sweep", "merge", "finish", "admit", "apply", "publish",
                  "reply", "execute", "capture", "drain", "closed", "check", "peek", "release"}
    /\ \A c \in Callers : /\ call[c].pc \in {"idle", "admitted", "combine", "executing", "waiting"}
                          /\ call[c].nodes \subseteq DOMAIN req
    /\ \A r \in Readers : read[r].pc \in {"idle", "leased", "holding"} /\ read[r].slot \in 0..Max(Slots)
    /\ pool.writer \in Slots /\ pool.token \in 0..Max(Slots) /\ {pool.first, pool.second} \subseteq 0..MaxDelta
    /\ \A s \in Slots : pool.slot[s].state \in {"free", "published", "retired"} /\ pool.slot[s].pins \in 0..1
    /\ {reclaim, healthy, operational} \subseteq BOOLEAN
    /\ owner \in {"open", "closing", "drained", "finalized", "incomplete"}
    /\ backup \in {"idle", "fenced", "copying"}

\* Every generation that exists, published or retired, shows a Reader exactly
\* what the shard held at one point of its history, whatever was merged,
\* rebuilt, refused or aborted on the way (publish_incremental_construct,
\* finish_incremental_merge_direct, replace_durable_snapshot_direct).
GenerationsAreHistory ==
    \A s \in Slots \ FreeSlots(pool) :
        LET view == pool.slot[s].view
        IN  /\ view.upto <= Len(log)
            /\ \A k \in Keys : Lookup(view, k) = Contents(log, view.upto)[k]

\* A mutation answered with success is in the generation that Readers adopt
\* (ack_after_published_visibility, and the order of publication and done in
\* the volatile chunk).
AcknowledgedVisible ==
    \A i \in DOMAIN req : req[i].done /\ req[i].status = "success" =>
        \E at \in 1..Writer(pool).view.upto : log[at].id = i

\* A mutation answered with an error that promises it was not committed is
\* not in the shard and will not be: only "unavailable" leaves that open
\* (rewrite_known_not_committed_wire_error).
RefusedNeverApplied ==
    \A i \in DOMAIN req : req[i].done /\ req[i].status \in {"rejected", "absent"} =>
        \A at \in DOMAIN log : log[at].id # i

\* Mutations reach the shard once each and in the order they were pushed, a
\* batch's in the order of its items (sync_head is a stack that
\* process_sync_lane reverses).
AppliedInOrder == \A i, j \in DOMAIN log : i < j => log[i].id < log[j].id

\* What a caller of the lane is told is so: success is visible, a refusal was
\* and will not be applied, and nothing is applied twice or out of order.
AnswersAreTrue == AcknowledgedVisible /\ RefusedNeverApplied /\ AppliedInOrder

\* The generation under a Reader's lease and the cut of a merge are not
\* destroyed, nor is their slot given to another generation
\* (reclaim_quiescent_generations, GenerationSlotPool::reclaim).
HeldGenerationsStay ==
    /\ \A r \in Readers : read[r].pc = "holding" =>
        pool.slot[read[r].slot].state # "free" /\ pool.slot[read[r].slot].epoch = read[r].epoch
    /\ Merging(pool) => pool.slot[pool.merge.cut].state # "free"

\* Once a mutation may enter the Store there is a slot for its generation:
\* try_reserve after execute_durable_single cannot refuse a mutation that is
\* already committed (decide_generation_admission).
AdmittedFindsSlot == ex.pc \in {"apply", "execute", "capture", "publish"} => FreeSlots(pool) # {}

\* Slots are neither reclaimed too early, under a Reader or a merge, nor too
\* late for a mutation that was admitted (GenerationSlotPool).
SlotsAreKept == HeldGenerationsStay /\ AdmittedFindsSlot

\* Without a fault, a backup's fence or a durable Store's close, the runtime
\* never fails closed: what admission lets through can always be published
\* (can_publish_incremental and prepare agree on capacity and arenas).
StaysHealthy ==
    faults = env.faults /\ ~env.backup /\ (env.durable => owner = "open") => healthy

\* Without a fault the merge keeps pace with the writes: the runtime stays
\* healthy, and a mutation is turned away only because Readers hold generations
\* back, never for want of space in a delta or in an arena
\* (merge_advance_budget, wait_generation_admission). Beside it, the types.
MergeKeepsPace ==
    /\ TypeOK /\ StaysHealthy
    /\ ex.pc = "admit" /\ ex.spins = MaxSpins /\ faults = env.faults =>
          Admitted(pool, Len(ex.chunk)) \/ Retired(pool) >= MaxRetired

\* A Store that one thread uses closes: its last call returns, the lane's
\* executor gives up the token, and every generation but the last is reclaimed
\* (stop_and_drain, finalize_reader_shutdown).
StoreCloses ==
    (owner = "closing" /\ Cardinality(env.callers) = 1) ~> (owner = "finalized")

\* Without a fault and without Readers every mutation that was admitted is
\* carried out, though the Store is closing (Store::close, stop_and_drain).
AdmittedComplete ==
    \A i \in DOMAIN req : req[i].done /\ faults = env.faults => req[i].status \in {"success", "absent"}

\* Every call returns (combine_sync_lane).
CallsReturn == \A c \in Callers : (call[c].pc # "idle") ~> (call[c].pc = "idle")
=============================================================================

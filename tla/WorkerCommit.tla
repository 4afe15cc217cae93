---------------------------- MODULE WorkerCommit ----------------------------
(***************************************************************************)
(* DurableRuntimeCatalog::mutate as threads run it: several producers per  *)
(* Worker, the Worker mutex given up around every I/O, the reservation     *)
(* mutation_io_active that stands in for it, group commit with its batch   *)
(* and its flush coordinator, the Manifest publication lease of rotation,  *)
(* and the paired Writer's batches.                                        *)
(*                                                                         *)
(* A step is what a thread does between two acquisitions of the Worker     *)
(* mutex, or one I/O made without it.  A thread that waits on a condition  *)
(* variable is asleep until another thread notifies that variable.         *)
(*                                                                         *)
(* A Segment holds Records [id, seq, key, op, size]; its commit slot says  *)
(* how many are committed and whether it is sealed (module SegmentFile     *)
(* shows that a crash leaves the old or the new slot).  Two handles on one *)
(* Segment start from the same commit and write the same alternate slot,   *)
(* so the last one to write it wins.                                       *)
(***************************************************************************)
EXTENDS Naturals, Sequences, FiniteSets, SequencesExt

CONSTANTS
    WorkerCount,
    Clients,      \* threads that call the Store
    Flusher,      \* the DurableFlushCoordinator's thread
    Nobody,
    Keys,
    MinRecords, MaxRecords, MaxBytes,  \* DurableGroupConfig
    Environments  \* see WorkerCommitAssumption

\* An environment: the durability mode; how many Workers the Store has; the
\* Workers each client's keys route to; the bytes a Segment holds; the sizes
\* and operations of mutations; whether the clients are paired Writers,
\* whether they call flush, whether the owner closes the Store; the steps that
\* may fail and how often; the bound on the calls of clients.
ASSUME WorkerCommitAssumption ==
    /\ {WorkerCount, MinRecords, MaxRecords, MaxBytes} \subseteq Nat \ {0}
    /\ MinRecords <= MaxRecords
    /\ Flusher \notin Clients /\ Nobody \notin Clients \cup {Flusher}
    /\ \A e \in Environments :
        /\ e.mode \in {"sync", "group"} /\ e.workers \in 1..WorkerCount
        /\ e.route \in [Clients -> SUBSET (1..WorkerCount)]
        /\ {e.cap, e.calls, e.faults} \subseteq Nat /\ e.sizes \subseteq Nat \ {0}
        /\ e.ops \subseteq {"put", "erase"}
        /\ {e.writer, e.flush, e.close} \subseteq BOOLEAN

Workers == 1..WorkerCount
Threads == Clients \cup {Flusher}

VARIABLES
    seg,      \* per Worker, its Segments on disk: [recs, count, sealed, role]
    file,     \* per Worker, cached_file: a handle, or NoFile
    selected, \* per Worker, segments_[active].selected: [count, sealed]
    active,   \* per Worker, active_segment
    io,       \* per Worker, mutation_io_active
    closing,  \* per Worker, batch_closing
    queue,    \* per Worker, pending_group_mutations
    started,  \* per Worker, batch_started: "no", "yes", or "due" after max_wait_ms
    target,   \* per Worker, batch_sizer.target()
    next,     \* per Worker, next_sequence
    through,  \* per Worker, durable_through
    live,     \* per Worker, the keys its Index holds
    mutex,    \* per Worker, a thread that keeps the mutex over its next step
    lease,    \* holder of the Manifest publication lease
    healthy,  \* healthy_
    dirHealthy,
    co,       \* the coordinator's flags
    pc, loc,  \* per thread, where it is and its local variables
    sleep,    \* per thread, the condition variable it is asleep on
    life,     \* Store lifecycle: "open", "closing", "flushing", "joining", "closed"
    issued, acked, refused, flushed, \* ghosts: calls made, ids by outcome
    faults, env

diskVars == <<seg>>
indexVars == <<through, live>>
batchVars == <<closing, queue, started>>
fileVars == <<file, io>>
catalogVars == <<selected, active>>
threadVars == <<pc, loc, sleep>>
healthVars == <<healthy, dirHealthy>>
ghostVars == <<acked, refused, flushed>>
callVars == <<issued, life, env>>
vars == <<diskVars, fileVars, catalogVars, batchVars, target, next, indexVars, mutex, lease,
          healthVars, co, threadVars, callVars, ghostVars, faults>>

NoFile == [seg |-> 0, sel |-> 0, per |-> 0, sealed |-> FALSE]
NoRec == [id |-> 0, seq |-> 0, key |-> Nobody, op |-> "put", size |-> 0]
Idle == [w |-> 1, rec |-> NoRec, file |-> NoFile, seg |-> 0, expect |-> <<>>, first |-> TRUE,
         retry |-> TRUE, seen |-> <<>>, result |-> "none", then |-> "none", all |-> FALSE,
         gen |-> 0, staged |-> {}, snap |-> {}]
EmptySegment == [recs |-> <<>>, count |-> 0, sealed |-> FALSE, role |-> "active"]

Init ==
    /\ env \in Environments
    /\ seg = [w \in Workers |-> <<EmptySegment>>]
    /\ file = [w \in Workers |-> NoFile]
    /\ selected = [w \in Workers |-> <<0, FALSE>>] /\ active = [w \in Workers |-> 1]
    /\ io = [w \in Workers |-> FALSE] /\ closing = [w \in Workers |-> FALSE]
    /\ queue = [w \in Workers |-> <<>>] /\ started = [w \in Workers |-> "no"]
    /\ target = [w \in Workers |-> MaxRecords]
    /\ next = [w \in Workers |-> 1] /\ through = [w \in Workers |-> 0]
    /\ live = [w \in Workers |-> {}]
    /\ mutex = [w \in Workers |-> Nobody] /\ lease = Nobody
    /\ healthy = TRUE /\ dirHealthy = TRUE
    /\ co = [req |-> FALSE, all |-> FALSE, deadline |-> FALSE, changed |-> FALSE,
             stopped |-> FALSE, failed |-> FALSE, gen |-> 0, done |-> 0]
    /\ pc = [t \in Threads |-> "idle"] /\ loc = [t \in Threads |-> Idle]
    /\ sleep = [t \in Threads |-> "none"]
    /\ life = "open" /\ issued = 0
    /\ acked = {} /\ refused = {} /\ flushed = {} /\ faults = 0

----------------------------------------------------------------------------
(* Locks, condition variables and returns.                                  *)

Healthy == healthy /\ dirHealthy
Group == env.mode = "group"
Dedicated == Group /\ env.workers = 1

\* t is awake at p and holds, or can take, the mutex of its Worker.
At(t, p) == pc[t] = p /\ sleep[t] = "none"
Locked(t, p) == At(t, p) /\ mutex[loc[t].w] \in {Nobody, t}
Release(w) == mutex' = [mutex EXCEPT ![w] = Nobody]
Keep(t) == mutex' = [mutex EXCEPT ![loc[t].w] = t]

\* Every thread asleep on one of the variables in S, pairs of name and Worker.
Woken(S) == [t \in Threads |-> IF <<sleep[t], loc[t].w>> \in S THEN "none" ELSE sleep[t]]
NotifyAll(S) == sleep' = Woken(S)
SleepOn(t, cv) == sleep' = [sleep EXCEPT ![t] = cv]
LeaseWaiters == {"lease"} \X Workers

Goto(t, p) == pc' = [pc EXCEPT ![t] = p]
GotoWith(t, p, l) == pc' = [pc EXCEPT ![t] = p] /\ loc' = [loc EXCEPT ![t] = l]

\* Mutant: every failure is taken for a refusal.
FinishAnyFailure(t, outcome) ==
    /\ GotoWith(t, "idle", Idle)
    /\ acked' = IF outcome = "committed" THEN acked \cup {loc[t].rec.id} ELSE acked
    /\ refused' = IF outcome # "committed" THEN refused \cup {loc[t].rec.id} ELSE refused
    /\ UNCHANGED flushed

\* mutate returns: a client has its answer, a paired Writer looks at it.
Finish(t, outcome) ==
    IF env.writer
    THEN /\ GotoWith(t, "returned", [loc[t] EXCEPT !.result = outcome])
         /\ UNCHANGED ghostVars
    ELSE /\ GotoWith(t, "idle", Idle)
         /\ acked' = IF outcome = "committed" THEN acked \cup {loc[t].rec.id} ELSE acked
         /\ refused' = IF outcome \in {"not_committed", "conflict"}
                       THEN refused \cup {loc[t].rec.id} ELSE refused
         /\ UNCHANGED flushed

Fault(step) ==
    /\ step \in env.steps /\ faults < env.faults
    /\ faults' = faults + 1

----------------------------------------------------------------------------
(* Segment handles: [seg, sel, per, sealed] counts the Records selected and *)
(* persisted; those between are pending.                                    *)

Present(h) == h.seg # 0
Pending(h) == h.sel - h.per
Opened(w, s) == [seg |-> s, sel |-> seg[w][s].count, per |-> seg[w][s].count,
                 sealed |-> seg[w][s].sealed]
Bytes(recs) == FoldLeft(LAMBDA n, r : n + r.size, 0, recs)
Written(w, h) == SubSeq(seg[w][h.seg].recs, 1, h.sel)
PendingBytes(w, h) == Bytes(SubSeq(seg[w][h.seg].recs, h.per + 1, h.sel))
Full(w, h, r) == h.sealed \/ Bytes(Written(w, h)) + r.size > env.cap
Stale(w, h, r) == h.sel > 0 /\ seg[w][h.seg].recs[h.sel].seq >= r.seq
Slot(s, count, sealed) == [s EXCEPT !.count = count, !.sealed = sealed]
\* Mutant: the slot counts what was already persisted.
WriteSlotPersisted(w, h, sealed) == seg' = [seg EXCEPT ![w][h.seg] = Slot(@, h.per, sealed)]
WriteSlot(w, h, sealed) == seg' = [seg EXCEPT ![w][h.seg] = Slot(@, h.sel, sealed)]

\* AdaptiveBatchSizer, and the closing conditions of should_flush_batch, with
\* handle h cached.
Clamp(n) == IF n < MinRecords THEN MinRecords ELSE IF n > MaxRecords THEN MaxRecords ELSE n
LimitReached(w, h) ==
    closing[w] \/ Pending(h) >= MaxRecords \/ PendingBytes(w, h) >= MaxBytes
\* Mutant: a batch older than max_wait_ms stays open.
ShouldFlushNever(w, h) ==
    /\ Present(h) /\ Pending(h) > 0
    /\ LimitReached(w, h) \/ Pending(h) >= target[w]
ShouldFlush(w, h) ==
    /\ Present(h) /\ Pending(h) > 0
    /\ LimitReached(w, h) \/ Pending(h) >= target[w] \/ started[w] = "due"
Admissions(w) == Cardinality({c \in Clients : pc[c] \notin {"idle", "staged"} /\ loc[c].w = w})
Target(w, h) ==
    IF ~ShouldFlush(w, h) \/ LimitReached(w, h) THEN target[w]
    ELSE IF Pending(h) >= target[w]
    THEN IF Admissions(w) <= Pending(h) THEN target[w] ELSE Clamp(Admissions(w))
    ELSE Clamp(Pending(h))
Retarget(w, h) == target' = [target EXCEPT ![w] = Target(w, h)]

----------------------------------------------------------------------------
(* mutate: the gate, the append and its return.                             *)

\* A client calls put or erase.  The test of healthy() on entry is the gate's.
Call(c) ==
    /\ At(c, "idle") /\ life = "open" /\ issued < env.calls
    /\ \E w \in env.route[c], k \in Keys, op \in env.ops, n \in env.sizes :
        GotoWith(c, "gate", [Idle EXCEPT !.w = w,
            !.rec = [id |-> issued + 1, seq |-> 0, key |-> k, op |-> op, size |-> n]])
    /\ issued' = issued + 1
    /\ UNCHANGED <<diskVars, fileVars, catalogVars, batchVars, target, next, indexVars, mutex,
                   lease, healthVars, co, sleep, life, env, ghostVars, faults>>

\* The newest pending mutation of the key decides before the Index does.
KeyPresent(w, k) ==
    LET of == {i \in DOMAIN queue[w] : queue[w][i].key = k}
    IN  IF Group /\ of # {} THEN queue[w][Max(of)].op = "put" ELSE k \in live[w]

Gated(w) == io[w] \/ (Dedicated /\ closing[w])

\* Take the cached handle, if there is one, and the I/O reservation.
Reserve(t, rec, first) ==
    LET w == loc[t].w
    IN  /\ GotoWith(t, "append", [loc[t] EXCEPT !.rec = rec, !.first = first, !.file = file[w],
                                   !.seg = active[w], !.expect = selected[w]])
        /\ file' = [file EXCEPT ![w] = NoFile]
        /\ io' = [io EXCEPT ![w] = TRUE]
        /\ Release(w)
        /\ UNCHANGED <<diskVars, catalogVars, batchVars, target, next, indexVars, healthVars, co,
                       callVars, ghostVars, faults>>

gateRest == <<diskVars, fileVars, catalogVars, batchVars, target, next, indexVars, lease,
              healthVars, co, callVars, faults>>

GateRefuses(t) ==
    /\ Locked(t, "gate")
    /\ LET w == loc[t].w
       IN  \/ ~Healthy
           \/ ~Gated(w) /\ loc[t].rec.op = "erase" /\ ~KeyPresent(w, loc[t].rec.key)
    /\ Finish(t, "not_committed") /\ Release(loc[t].w)
    /\ UNCHANGED <<gateRest, sleep>>

GateWaits(t) ==
    /\ Locked(t, "gate") /\ Healthy /\ Gated(loc[t].w)
    /\ SleepOn(t, IF Dedicated /\ closing[loc[t].w] THEN "batch" ELSE "io")
    /\ Release(loc[t].w)
    /\ UNCHANGED <<gateRest, pc, loc, ghostVars>>

GateAdmits(t) ==
    LET w == loc[t].w
    IN  /\ Locked(t, "gate") /\ Healthy /\ ~Gated(w)
        /\ loc[t].rec.op = "erase" => KeyPresent(w, loc[t].rec.key)
        /\ Reserve(t, [loc[t].rec EXCEPT !.seq = next[w]], TRUE)
        /\ UNCHANGED <<lease, sleep>>

\* append_record, and in "sync" mode the commit, without the mutex.
ioRest == <<fileVars, catalogVars, batchVars, target, next, indexVars, mutex, lease, healthy, co,
            sleep, callVars, ghostVars>>
AppendHandle(t) == IF Present(loc[t].file) THEN loc[t].file ELSE Opened(loc[t].w, loc[t].seg)
Mismatch(t) == ~Present(loc[t].file)
               /\ loc[t].expect # <<AppendHandle(t).sel, AppendHandle(t).sealed>>
Appended(t, h, result) ==
    GotoWith(t, "relock", [loc[t] EXCEPT !.file = h, !.result = result])

AppendRefused(t) ==
    LET h == AppendHandle(t) r == loc[t].rec w == loc[t].w
    IN  /\ At(t, "append")
        /\ \/ Mismatch(t) /\ Appended(t, NoFile, "not_committed")
           \/ ~Mismatch(t) /\ Stale(w, h, r) /\ ~h.sealed /\ Appended(t, h, "not_committed")
           \/ /\ ~Mismatch(t) /\ (h.sealed \/ ~Stale(w, h, r)) /\ Full(w, h, r)
              /\ Appended(t, h, "full")
        /\ UNCHANGED <<ioRest, diskVars, dirHealthy, faults>>

AppendWrites(t) ==
    LET h == AppendHandle(t) r == loc[t].rec w == loc[t].w
        grown == [h EXCEPT !.sel = @ + 1]
    IN  /\ At(t, "append") /\ ~Mismatch(t) /\ ~Full(w, h, r) /\ ~Stale(w, h, r)
        /\ LET wrote == [seg[w][h.seg] EXCEPT !.recs = Append(Written(w, h), r)]
           IN  IF Group
               THEN /\ seg' = [seg EXCEPT ![w][h.seg] = wrote]
                    /\ Appended(t, grown, "committed")
               ELSE /\ seg' = [seg EXCEPT ![w][h.seg] = Slot(wrote, grown.sel, FALSE)]
                    /\ Appended(t, [grown EXCEPT !.per = grown.sel], "committed")
        /\ UNCHANGED <<ioRest, dirHealthy, faults>>

\* The hook before the write refuses; the write fails and poisons the
\* directory; in "sync" mode the commit fails with its slot written or not.
AppendFails(t) ==
    LET h == AppendHandle(t) r == loc[t].rec w == loc[t].w
    IN  /\ At(t, "append") /\ ~Mismatch(t) /\ ~Full(w, h, r) /\ ~Stale(w, h, r)
        /\ \/ /\ Fault("hook") /\ Appended(t, h, "not_committed")
              /\ UNCHANGED <<diskVars, dirHealthy>>
           \/ /\ Fault("write") /\ Appended(t, h, "not_committed")
              /\ dirHealthy' = FALSE /\ UNCHANGED diskVars
           \/ /\ ~Group /\ Fault("commit") /\ Appended(t, h, "indeterminate")
              /\ dirHealthy' = FALSE
              /\ \/ UNCHANGED diskVars
                 \/ seg' = [seg EXCEPT ![w][h.seg] =
                        Slot([@ EXCEPT !.recs = Append(Written(w, h), r)], h.sel + 1, FALSE)]
        /\ UNCHANGED ioRest

\* Relinearization after an I/O: the reservation must still be this thread's.
Valid(t) == active[loc[t].w] = loc[t].seg /\ io[loc[t].w]
Unreserve(t, h) ==
    /\ file' = IF Present(h) THEN [file EXCEPT ![loc[t].w] = h] ELSE file
    /\ io' = [io EXCEPT ![loc[t].w] = FALSE]
IoDone(t) == {<<"io", loc[t].w>>}
IoAndBatchDone(t) == {<<"io", loc[t].w>>, <<"batch", loc[t].w>>}
DropBatch(w) ==
    /\ queue' = [queue EXCEPT ![w] = <<>>]
    /\ closing' = [closing EXCEPT ![w] = FALSE]

\* flush_worker_batch up to its I/O, with handle h cached: take the handle and
\* the reservation, continue at then.
BeginFlush(t, l, h, then) ==
    /\ GotoWith(t, "flush", [l EXCEPT !.file = h, !.seg = h.seg, !.expect = <<h.sel, h.sealed>>,
                                      !.then = then])
    /\ file' = [file EXCEPT ![l.w] = NoFile]
    /\ io' = [io EXCEPT ![l.w] = TRUE]
    /\ Release(l.w)

relockRest == <<diskVars, active, indexVars, lease, dirHealthy, callVars, faults>>

\* The reservation was lost, or the append did not commit and no rotation can
\* help.  A lost reservation leaves the batch and those waiting for it alone.
RelockFailed(t) ==
    LET w == loc[t].w
        lost == ~Valid(t)
        full == loc[t].result = "full"
        sticky == loc[t].result = "indeterminate" \/ ~dirHealthy
    IN  /\ Locked(t, "relock")
        /\ \/ lost
           \/ loc[t].result \in {"not_committed", "indeterminate"} \/ (full /\ ~loc[t].first)
        /\ Unreserve(t, loc[t].file)
        /\ healthy' = (healthy /\ ~lost /\ ~sticky)
        /\ IF sticky /\ ~lost THEN DropBatch(w) /\ NotifyAll(IoAndBatchDone(t))
                             ELSE NotifyAll(IoDone(t)) /\ UNCHANGED <<queue, closing>>
        /\ Finish(t, CASE lost -> "indeterminate"
                       [] ~lost /\ full -> "not_committed"
                       [] OTHER -> loc[t].result)
        /\ Release(w)
        /\ UNCHANGED <<relockRest, selected, started, target, next, co>>

\* The Segment is full: a staged batch is closed first, by the coordinator or
\* by this thread; then the Segment is rotated.
RelockFull(t) ==
    LET w == loc[t].w
        h == loc[t].file
        staged == Group /\ queue[w] # <<>>
        woken == Woken(IoDone(t))
        l == [loc[t] EXCEPT !.file = NoFile, !.seen = <<next[w], active[w]>>]
    IN  /\ Locked(t, "relock") /\ Valid(t) /\ loc[t].result = "full" /\ loc[t].first
        /\ \/ /\ staged /\ Dedicated
              /\ Unreserve(t, h)
              /\ closing' = [closing EXCEPT ![w] = TRUE]
              /\ co' = [co EXCEPT !.req = @ \/ ~co.stopped]
              /\ GotoWith(t, "drain", l) /\ Release(w)
              /\ sleep' = [woken EXCEPT ![t] = IF Healthy THEN "batch" ELSE "none"]
           \/ /\ staged /\ ~Dedicated /\ Pending(h) > 0
              /\ BeginFlush(t, l, h, "rotate")
              /\ sleep' = woken /\ UNCHANGED <<closing, co>>
           \/ /\ ~staged \/ (~Dedicated /\ Pending(h) = 0)
              /\ Unreserve(t, h)
              /\ GotoWith(t, "rotate", l) /\ Keep(t)
              /\ sleep' = woken /\ UNCHANGED <<closing, co>>
        /\ UNCHANGED <<relockRest, selected, queue, started, target, next, healthy, ghostVars>>

\* Wait until the staged batch is published, then rotate.
Drain(t) ==
    LET w == loc[t].w
    IN  /\ Locked(t, "drain")
        /\ \/ /\ queue[w] # <<>> /\ Healthy
              /\ SleepOn(t, "batch") /\ Release(w) /\ UNCHANGED <<pc, loc, ghostVars>>
           \/ /\ ~Healthy
              /\ Finish(t, "indeterminate") /\ Release(w) /\ UNCHANGED sleep
           \/ /\ queue[w] = <<>> /\ Healthy
              /\ GotoWith(t, "rotate", [loc[t] EXCEPT !.seen = <<next[w], active[w]>>])
              /\ Keep(t) /\ UNCHANGED <<sleep, ghostVars>>
        /\ UNCHANGED gateRest

\* The append committed, in "sync" mode: publish the Index.
RelockSync(t) ==
    LET w == loc[t].w r == loc[t].rec
    IN  /\ Locked(t, "relock") /\ Valid(t) /\ loc[t].result = "committed" /\ ~Group
        /\ Unreserve(t, loc[t].file) /\ NotifyAll(IoDone(t))
        /\ selected' = [selected EXCEPT ![w] = <<loc[t].file.sel, FALSE>>]
        /\ next' = [next EXCEPT ![w] = @ + 1]
        /\ through' = [through EXCEPT ![w] = r.seq]
        /\ live' = [live EXCEPT ![w] = IF r.op = "put" THEN @ \cup {r.key} ELSE @ \ {r.key}]
        /\ Finish(t, "committed") /\ Release(w)
        /\ UNCHANGED <<diskVars, active, lease, healthVars, callVars, faults, batchVars, target, co>>

\* The append committed, in "group" mode: stage the mutation; close the batch
\* if it should be, else wait for it.
RelockStaged(t) ==
    LET w == loc[t].w
        h == loc[t].file
        close == ShouldFlush(w, h)
        armed == IF started[w] = "no" /\ Dedicated /\ ~co.stopped /\ ~co.deadline
                 THEN [co EXCEPT !.deadline = TRUE, !.changed = TRUE] ELSE co
        woken == Woken(IoDone(t))
        late == ~Healthy \/ through[w] >= loc[t].rec.seq
    IN  /\ Locked(t, "relock") /\ Valid(t) /\ loc[t].result = "committed" /\ Group
        /\ selected' = [selected EXCEPT ![w] = <<h.sel, FALSE>>]
        /\ next' = [next EXCEPT ![w] = @ + 1]
        /\ queue' = [queue EXCEPT ![w] = Append(@, loc[t].rec)]
        /\ started' = [started EXCEPT ![w] = IF @ = "no" THEN "yes" ELSE @]
        /\ Retarget(w, h)
        /\ \/ /\ close /\ (env.writer \/ ~Dedicated)
              /\ BeginFlush(t, loc[t], h, IF env.writer THEN "staged" ELSE "ack")
              /\ sleep' = woken /\ co' = armed /\ UNCHANGED <<closing, ghostVars>>
           \/ /\ close /\ ~env.writer /\ Dedicated
              /\ closing' = [closing EXCEPT ![w] = TRUE]
              /\ co' = [armed EXCEPT !.req = @ \/ ~co.stopped]
              /\ Unreserve(t, h) /\ Goto(t, "wait") /\ Release(w)
              /\ sleep' = [woken EXCEPT ![t] = IF late THEN "none" ELSE "batch"]
              /\ UNCHANGED <<loc, ghostVars>>
           \/ /\ ~close /\ ~env.writer
              /\ Unreserve(t, h) /\ Goto(t, "wait") /\ Release(w)
              /\ sleep' = [woken EXCEPT ![t] = IF late THEN "none" ELSE "batch"]
              /\ co' = armed /\ UNCHANGED <<closing, loc, ghostVars>>
           \/ /\ ~close /\ env.writer
              /\ Unreserve(t, h) /\ Finish(t, "committed") /\ Release(w)
              /\ sleep' = woken /\ co' = armed /\ UNCHANGED closing
        /\ UNCHANGED <<relockRest, healthy>>

\* wait_for_batch_close
Wait(t) ==
    LET w == loc[t].w
        covered == through[w] >= loc[t].rec.seq
    IN  /\ Locked(t, "wait")
        /\ \/ /\ ~covered /\ Healthy
              /\ SleepOn(t, "batch") /\ UNCHANGED <<pc, loc, ghostVars>>
           \/ /\ covered \/ ~Healthy
              /\ Finish(t, IF covered THEN "committed" ELSE "indeterminate")
              /\ UNCHANGED sleep
        /\ Release(w)
        /\ UNCHANGED gateRest

----------------------------------------------------------------------------
(* flush_worker_batch: commit without the mutex, then publish the batch.    *)

FlushIO(t) ==
    LET w == loc[t].w h == loc[t].file
        Done(r) == GotoWith(t, "publish_batch", [loc[t] EXCEPT !.result = r,
                       !.file.per = IF r = "committed" THEN h.sel ELSE h.per])
    IN  /\ At(t, "flush")
        /\ \/ /\ WriteSlot(w, h, FALSE) /\ Done("committed") /\ UNCHANGED faults
           \/ /\ Fault("flush") /\ Done("indeterminate")
              /\ WriteSlot(w, h, FALSE) \/ UNCHANGED diskVars
        /\ UNCHANGED <<ioRest, dirHealthy>>

\* Where the flushing thread continues; keys and through are already primed.
AfterFlush(t, ok) ==
    LET w == loc[t].w
        covered == ok \/ through'[w] >= loc[t].rec.seq
        outcome == IF covered THEN "committed" ELSE "indeterminate"
        back == [loc[t] EXCEPT !.file = NoFile, !.result = IF ok THEN "ok" ELSE "failed"]
    IN  CASE loc[t].then \in {"ack", "staged"} -> Finish(t, outcome) /\ Release(w)
          [] loc[t].then = "rotate" /\ ok ->
                /\ GotoWith(t, "rotate", [back EXCEPT !.seen = <<next[w], active[w]>>])
                /\ Keep(t) /\ UNCHANGED ghostVars
          [] loc[t].then = "rotate" /\ ~ok -> Finish(t, "indeterminate") /\ Release(w)
          [] OTHER -> /\ GotoWith(t, loc[t].then, back)
                      /\ Release(w) /\ UNCHANGED ghostVars

flushRest == <<diskVars, active, target, next, lease, dirHealthy, co, callVars>>
FlushValid(t) == Valid(t) /\ selected[loc[t].w] = loc[t].expect

\* The commit failed, or the reservation was lost; in the latter case nobody
\* waiting for the batch is notified.
FlushFailed(t) ==
    LET lost == ~FlushValid(t)
    IN  /\ Locked(t, "publish_batch") /\ (lost \/ loc[t].result # "committed")
        /\ Unreserve(t, loc[t].file)
        /\ healthy' = FALSE
        /\ IF lost THEN NotifyAll(IoDone(t)) /\ UNCHANGED <<queue, closing>>
                   ELSE NotifyAll(IoAndBatchDone(t)) /\ DropBatch(loc[t].w)
        /\ UNCHANGED <<indexVars, started, selected>>
        /\ AfterFlush(t, FALSE)
        /\ UNCHANGED <<flushRest, faults>>

\* The first n mutations of the batch reach the Index; publication of all of
\* them, or a failure after the n-th ("account").
Apply(keys, q) ==
    FoldLeft(LAMBDA ks, r : IF r.op = "put" THEN ks \cup {r.key} ELSE ks \ {r.key}, keys, q)

\* Mutant: durable_through runs ahead of a publication that stopped.
PublishBatchAhead(t, n) ==
    LET w == loc[t].w q == SubSeq(queue[w], 1, n)
    IN  /\ Locked(t, "publish_batch") /\ FlushValid(t) /\ loc[t].result = "committed"
        /\ Unreserve(t, loc[t].file) /\ NotifyAll(IoAndBatchDone(t))
        /\ selected' = [selected EXCEPT ![w] = <<loc[t].file.sel, FALSE>>]
        /\ through' = [through EXCEPT ![w] = IF n = 0 THEN @ ELSE Last(queue[w]).seq]
        /\ live' = [live EXCEPT ![w] = Apply(@, q)]
        /\ DropBatch(w) /\ started' = [started EXCEPT ![w] = "no"]
PublishBatch(t, n) ==
    LET w == loc[t].w q == SubSeq(queue[w], 1, n)
    IN  /\ Locked(t, "publish_batch") /\ FlushValid(t) /\ loc[t].result = "committed"
        /\ Unreserve(t, loc[t].file) /\ NotifyAll(IoAndBatchDone(t))
        /\ selected' = [selected EXCEPT ![w] = <<loc[t].file.sel, FALSE>>]
        /\ through' = [through EXCEPT ![w] = IF n = 0 THEN @ ELSE q[n].seq]
        /\ live' = [live EXCEPT ![w] = Apply(@, q)]
        /\ DropBatch(w) /\ started' = [started EXCEPT ![w] = "no"]

FlushPublishes(t) ==
    /\ PublishBatch(t, Len(queue[loc[t].w]))
    /\ AfterFlush(t, TRUE)
    /\ UNCHANGED <<flushRest, healthy, faults>>

FlushPublishesPart(t) ==
    /\ \E n \in DOMAIN queue[loc[t].w] : PublishBatch(t, n)
    /\ Fault("account") /\ healthy' = FALSE
    /\ AfterFlush(t, FALSE)
    /\ UNCHANGED flushRest

----------------------------------------------------------------------------
(* rotate_active                                                            *)

\* Take the publication lease and the reservation, whoever holds the latter.
Rotate(t) ==
    LET w == loc[t].w
    IN  /\ Locked(t, "rotate") /\ lease = Nobody
        /\ lease' = t
        /\ GotoWith(t, "open", [loc[t] EXCEPT !.file = file[w], !.seg = active[w],
                                              !.expect = selected[w]])
        /\ file' = [file EXCEPT ![w] = NoFile] /\ io' = [io EXCEPT ![w] = TRUE]
        /\ Release(w)
        /\ UNCHANGED <<diskVars, catalogVars, batchVars, target, next, indexVars, healthVars, co,
                       sleep, callVars, ghostVars, faults>>

RotateWaits(t) ==
    /\ Locked(t, "rotate") /\ lease # Nobody
    /\ SleepOn(t, "lease") /\ Goto(t, "lease") /\ Release(loc[t].w)
    /\ UNCHANGED <<gateRest, loc, ghostVars>>

LeaseWake(t) ==
    /\ At(t, "lease")
    /\ IF lease # Nobody /\ Healthy
       THEN SleepOn(t, "lease") /\ UNCHANGED pc
       ELSE Goto(t, "recheck") /\ UNCHANGED sleep
    /\ UNCHANGED <<gateRest, loc, mutex, ghostVars>>

\* The Worker may have advanced, or another thread may have rotated.
Recheck(t) ==
    LET w == loc[t].w
    IN  /\ Locked(t, "recheck")
        /\ \/ /\ ~Healthy \/ next[w] # loc[t].seen[1]
              /\ Finish(t, IF Healthy THEN "conflict" ELSE "not_committed") /\ Release(w)
              /\ UNCHANGED gateRest
           \/ /\ Healthy /\ next[w] = loc[t].seen[1] /\ active[w] # loc[t].seen[2]
              /\ Reserve(t, loc[t].rec, FALSE) /\ UNCHANGED lease
           \/ /\ Healthy /\ loc[t].seen = <<next[w], active[w]>>
              /\ Goto(t, "rotate") /\ Keep(t) /\ UNCHANGED <<gateRest, loc, ghostVars>>
        /\ UNCHANGED sleep

\* The space check and, when the handle is not cached, opening the Segment.
RotateOpen(t) ==
    LET w == loc[t].w
        h == IF Present(loc[t].file) THEN loc[t].file ELSE Opened(w, loc[t].seg)
        Fails == GotoWith(t, "finish", [loc[t] EXCEPT !.result = "not_committed"])
    IN  /\ At(t, "open")
        /\ \/ /\ Mismatch(t) /\ Fails /\ UNCHANGED faults
           \/ /\ ~Mismatch(t) /\ UNCHANGED faults
              /\ GotoWith(t, "seal", [loc[t] EXCEPT !.file = h])
           \/ /\ Fault("space") /\ Fails
        /\ UNCHANGED <<ioRest, diskVars, dirHealthy>>

\* seal: commits what is pending too.
Seal(t) ==
    LET w == loc[t].w h == loc[t].file
    IN  /\ At(t, "seal")
        /\ \/ /\ IF h.sealed THEN UNCHANGED diskVars ELSE WriteSlot(w, h, TRUE)
              /\ GotoWith(t, "verify", [loc[t] EXCEPT !.file.sealed = TRUE, !.file.per = h.sel])
              /\ UNCHANGED faults
           \/ /\ Fault("seal")
              /\ WriteSlot(w, h, TRUE) \/ UNCHANGED diskVars
              /\ GotoWith(t, "finish", [loc[t] EXCEPT !.result = "indeterminate"])
        /\ UNCHANGED <<ioRest, dirHealthy>>

\* A second, read-only handle must see the seal.
Verify(t) ==
    LET w == loc[t].w h == loc[t].file
    IN  /\ At(t, "verify")
        /\ IF seg[w][h.seg].sealed /\ seg[w][h.seg].count = h.sel
           THEN Goto(t, "manifest") /\ UNCHANGED loc
           ELSE GotoWith(t, "finish", [loc[t] EXCEPT !.result = "indeterminate"])
        /\ UNCHANGED <<ioRest, diskVars, dirHealthy, faults>>

\* Create the replacement and publish the Manifest that names it; a failed
\* publication may have reached the disk.
PublishManifest(t) ==
    LET w == loc[t].w
        published == seg' = [seg EXCEPT ![w] =
                         Append([@ EXCEPT ![loc[t].seg].role = "sealed"], EmptySegment)]
        Done(r) == GotoWith(t, "finish", [loc[t] EXCEPT !.result = r])
    IN  /\ At(t, "manifest")
        /\ \/ published /\ Done("committed") /\ UNCHANGED faults
           \/ Fault("manifest") /\ Done("indeterminate") /\ (published \/ UNCHANGED diskVars)
        /\ UNCHANGED <<ioRest, dirHealthy>>

rotateRest == <<diskVars, batchVars, target, next, indexVars, dirHealthy, co, callVars, faults>>
EndLease(t) == lease' = Nobody /\ NotifyAll(IoDone(t) \cup LeaseWaiters)

\* No thread waiting on batch_closed is notified of the failure.
RotateFails(t) ==
    LET w == loc[t].w
        cached == Present(file[w])
        committed == loc[t].result = "committed"
        lost == ~Healthy \/ active[w] # loc[t].seg \/ cached \/ ~io[w]
    IN  /\ Locked(t, "finish") /\ (committed => lost)
        /\ EndLease(t)
        /\ Unreserve(t, IF committed \/ cached THEN NoFile ELSE loc[t].file)
        /\ healthy' = (healthy /\ loc[t].result = "not_committed" /\ dirHealthy)
        /\ Finish(t, IF committed THEN "indeterminate" ELSE loc[t].result) /\ Release(w)
        /\ UNCHANGED <<rotateRest, catalogVars>>

\* Install the replacement; the mutation appends again, under the same lock.
RotateInstalls(t) ==
    LET w == loc[t].w
    IN  /\ Locked(t, "finish") /\ loc[t].result = "committed"
        /\ Healthy /\ active[w] = loc[t].seg /\ ~Present(file[w]) /\ io[w]
        /\ EndLease(t)
        /\ active' = [active EXCEPT ![w] = @ + 1]
        /\ selected' = [selected EXCEPT ![w] = <<0, FALSE>>]
        /\ Unreserve(t, [NoFile EXCEPT !.seg = active[w] + 1])
        /\ Goto(t, "again") /\ Keep(t)
        /\ UNCHANGED <<rotateRest, healthy, loc, ghostVars>>

Again(t) ==
    /\ Locked(t, "again") /\ Reserve(t, loc[t].rec, FALSE)
    /\ UNCHANGED <<lease, sleep>>

----------------------------------------------------------------------------
(* DurableFlushCoordinator and flush()                                      *)

coRest == <<diskVars, fileVars, catalogVars, batchVars, target, next, indexVars, mutex, lease,
            healthVars, faults, env>>

\* max_wait_ms passes since the batch was started.
Elapse(w) ==
    /\ started[w] = "yes"
    /\ started' = [started EXCEPT ![w] = "due"]
    /\ UNCHANGED <<diskVars, fileVars, catalogVars, closing, queue, target, next, indexVars, mutex,
                   lease, healthVars, co, threadVars, callVars, ghostVars, faults>>

\* request_flush_at moved the deadline: wait again with the new one.
DeadlineChanged ==
    /\ At(Flusher, "idle") /\ Group /\ ~co.stopped /\ co.changed
    /\ co' = [co EXCEPT !.changed = FALSE]
    /\ UNCHANGED <<coRest, threadVars, issued, life, ghostVars>>

\* The coordinator takes its requests and runs the flush callback.  tick: the
\* periodic timer expired (left out while no batch is started, when the callback
\* finds nothing to do); reached: the requested deadline did.
Wake(tick, reached) ==
    /\ At(Flusher, "idle") /\ Group /\ ~co.stopped /\ ~co.changed
    /\ reached => co.deadline
    /\ tick => \E w \in Workers : started[w] # "no"
    /\ tick \/ reached \/ co.req \/ co.all
    /\ co' = [co EXCEPT !.req = FALSE, !.all = FALSE,
                        !.deadline = @ /\ ~reached /\ ~co.req /\ ~co.all]
    /\ GotoWith(Flusher, "visit", [Idle EXCEPT !.all = co.all, !.gen = co.gen])
    /\ UNCHANGED <<coRest, sleep, issued, life, ghostVars>>

\* flush_pending_batches and flush_due_batches, Worker by Worker.
Leaves(t) == loc[t].w = env.workers \/ ~healthy
VisitDone(t) == GotoWith(t, "visited", [loc[t] EXCEPT !.result = "ok"])
VisitNext(t) ==
    IF Leaves(t) THEN VisitDone(t)
    ELSE GotoWith(t, "visit", [loc[t] EXCEPT !.w = @ + 1])
Visit(t) ==
    LET w == loc[t].w
        wanted == IF loc[t].all THEN Present(file[w]) /\ Pending(file[w]) > 0
                                ELSE ShouldFlush(w, file[w])
    IN  /\ Locked(t, "visit")
        /\ \/ /\ io[w] /\ healthy
              /\ SleepOn(t, "io") /\ Release(w)
              /\ UNCHANGED <<pc, loc, fileVars, target>>
           \/ /\ ~healthy \/ (~io[w] /\ ~wanted)
              /\ VisitNext(t) /\ Release(w) /\ UNCHANGED <<sleep, fileVars, target>>
           \/ /\ healthy /\ ~io[w] /\ wanted
              /\ BeginFlush(t, loc[t], file[w], "visiting")
              /\ IF loc[t].all THEN UNCHANGED target ELSE Retarget(w, file[w])
              /\ UNCHANGED sleep
        /\ UNCHANGED <<diskVars, catalogVars, batchVars, next, indexVars, lease, healthVars, co,
                       callVars, ghostVars, faults>>

\* The flush of one Worker returned: stop on an error, else go on.
Visiting(t) ==
    /\ At(t, "visiting")
    /\ IF loc[t].result = "failed" THEN Goto(t, "visited") /\ UNCHANGED loc ELSE VisitNext(t)
    /\ UNCHANGED <<coRest, co, sleep, issued, life, ghostVars>>

\* The callback returned.  An error stops the coordinator for good.
CallbackReturns ==
    LET l == loc[Flusher]
        failed == l.result = "failed"
    IN  /\ At(Flusher, "visited")
        /\ co' = [co EXCEPT !.stopped = @ \/ failed, !.failed = @ \/ failed,
                            !.done = IF l.all THEN l.gen ELSE @]
        /\ GotoWith(Flusher, "idle", Idle)
        /\ NotifyAll({"done"} \X (IF failed \/ l.all THEN Workers ELSE {}))
        /\ UNCHANGED <<coRest, issued, life, ghostVars>>

\* A client calls flush; with the dedicated coordinator it asks that one and
\* waits, else it flushes itself.  snap: the mutations staged at the call.
CallFlush(c) ==
    LET snap == {r.id : r \in UNION {ToSet(queue[w]) : w \in Workers}}
    IN  /\ At(c, "idle") /\ life = "open" /\ issued < env.calls /\ env.flush /\ Group /\ Healthy
        /\ \A d \in Clients : pc[d] # "flushing"
        /\ IF ~Dedicated
           THEN /\ GotoWith(c, "visit", [Idle EXCEPT !.all = TRUE, !.snap = snap])
                /\ UNCHANGED <<co, sleep>>
           ELSE /\ ~co.stopped
                /\ co' = [co EXCEPT !.gen = @ + 1, !.all = TRUE]
                /\ GotoWith(c, "flushing", [Idle EXCEPT !.gen = co.gen + 1, !.snap = snap])
                /\ SleepOn(c, "done")
        /\ issued' = issued + 1
        /\ UNCHANGED <<coRest, life, ghostVars>>

FlushReturns(c) ==
    /\ \/ At(c, "visited") /\ flushed' = IF loc[c].result = "ok" THEN flushed \cup loc[c].snap
                                                                 ELSE flushed
       \/ /\ At(c, "flushing") /\ (co.done >= loc[c].gen \/ co.stopped)
          /\ flushed' = IF co.done >= loc[c].gen /\ ~co.failed THEN flushed \cup loc[c].snap
                                                               ELSE flushed
    /\ GotoWith(c, "idle", Idle)
    /\ UNCHANGED <<coRest, co, sleep, issued, life, acked, refused>>

----------------------------------------------------------------------------
(* mutate_durable_batch: the paired Writer's batches                        *)

\* Store-wide fail-closed: every staged batch is dropped, every waiter woken.
Abandon ==
    /\ healthy' = FALSE
    /\ queue' = [w \in Workers |-> <<>>]
    /\ closing' = [w \in Workers |-> FALSE]
    /\ started' = [w \in Workers |-> "no"]
    /\ NotifyAll({"batch"} \X Workers)

\* The result of one mutation of the batch.  A rejection with an unflushed
\* prefix before it, or an indeterminate result, fails the Store closed.
WriterResult(t) ==
    LET w == loc[t].w
        outcome == loc[t].result
        refusal == outcome \in {"not_committed", "conflict"}
        prefix == \E m \in loc[t].staged : m.seq > through[w]
        sticky == outcome = "indeterminate" \/ (refusal /\ prefix) \/ ~Healthy
    IN  /\ Locked(t, "returned")
        /\ \/ /\ outcome = "conflict" /\ loc[t].retry
              /\ GotoWith(t, "gate", [loc[t] EXCEPT !.retry = FALSE])
              /\ UNCHANGED <<sleep, batchVars, healthy, refused>>
           \/ /\ ~(outcome = "conflict" /\ loc[t].retry)
              /\ refused' = IF refusal THEN refused \cup {loc[t].rec.id} ELSE refused
              /\ GotoWith(t, IF sticky THEN "commit" ELSE "staged",
                          [Idle EXCEPT !.w = w, !.staged =
                             IF outcome = "committed" THEN loc[t].staged \cup {loc[t].rec}
                             ELSE loc[t].staged])
              /\ IF sticky /\ Healthy THEN Abandon ELSE UNCHANGED <<sleep, batchVars, healthy>>
        /\ UNCHANGED <<diskVars, fileVars, catalogVars, target, next, indexVars, mutex, lease,
                       dirHealthy, co, callVars, acked, flushed, faults>>

\* The next mutation of the batch, or its end.
WriterNext(t) ==
    /\ At(t, "staged")
    /\ \/ /\ issued < env.calls /\ Healthy
          /\ \E k \in Keys, op \in env.ops, n \in env.sizes :
              GotoWith(t, "gate", [loc[t] EXCEPT !.retry = TRUE,
                  !.rec = [id |-> issued + 1, seq |-> 0, key |-> k, op |-> op, size |-> n]])
          /\ issued' = issued + 1
       \/ Goto(t, "commit") /\ UNCHANGED <<loc, issued>>
    /\ UNCHANGED <<coRest, co, sleep, life, ghostVars>>

\* commit_writer_batch
WriterCommit(t) ==
    LET w == loc[t].w
    IN  /\ Locked(t, "commit")
        /\ \/ /\ Healthy /\ Gated(w)
              /\ SleepOn(t, IF io[w] THEN "io" ELSE "batch") /\ Release(w)
              /\ UNCHANGED <<pc, loc, fileVars>>
           \/ /\ ~Healthy \/ (~Gated(w) /\ queue[w] = <<>>)
              /\ GotoWith(t, "finalize", [loc[t] EXCEPT !.result =
                    IF queue[w] # <<>> \/ Pending(file[w]) > 0 THEN "failed" ELSE "ok"])
              /\ Release(w) /\ UNCHANGED <<sleep, fileVars>>
           \/ /\ Healthy /\ ~Gated(w) /\ queue[w] # <<>>
              /\ BeginFlush(t, loc[t], file[w], "finalize") /\ UNCHANGED sleep
        /\ UNCHANGED <<diskVars, catalogVars, batchVars, target, next, indexVars, lease, healthVars,
                       co, callVars, ghostVars, faults>>

\* After a failed commit only what durable_through covers is a success.
WriterFinalize(t) ==
    LET w == loc[t].w
        clean == loc[t].result = "ok" /\ Healthy
    IN  /\ Locked(t, "finalize")
        /\ acked' = acked \cup {m.id : m \in {m \in loc[t].staged : clean \/ m.seq <= through[w]}}
        /\ GotoWith(t, "idle", Idle)
        /\ UNCHANGED <<coRest, co, sleep, issued, life, refused, flushed>>

----------------------------------------------------------------------------
(* Store::close: stop admission and ask for a flush; when the last call has *)
(* returned, flush for good and stop the coordinator.                       *)

closeRest == <<coRest, issued, threadVars, ghostVars>>
Close ==
    /\ env.close /\ life = "open" /\ life' = "closing"
    /\ co' = [co EXCEPT !.all = @ \/ (Group /\ ~co.stopped)]
    /\ UNCHANGED closeRest
CloseFlush ==
    /\ life = "closing" /\ \A c \in Clients : pc[c] = "idle"
    /\ life' = "flushing"
    /\ co' = IF Group /\ ~co.stopped THEN [co EXCEPT !.gen = @ + 1, !.all = TRUE] ELSE co
    /\ UNCHANGED closeRest
CloseStop ==
    /\ life = "flushing" /\ (~Group \/ co.done >= co.gen \/ co.stopped)
    /\ life' = "joining" /\ co' = [co EXCEPT !.stopped = TRUE]
    /\ UNCHANGED closeRest
CloseEnd ==
    /\ life = "joining" /\ At(Flusher, "idle") /\ life' = "closed"
    /\ UNCHANGED <<closeRest, co>>

----------------------------------------------------------------------------
MutateSteps(t) ==
    \/ GateRefuses(t) \/ GateWaits(t) \/ GateAdmits(t)
    \/ AppendRefused(t) \/ AppendWrites(t)
    \/ RelockFailed(t) \/ RelockFull(t) \/ RelockSync(t) \/ RelockStaged(t)
    \/ Drain(t) \/ Wait(t)
RotateSteps(t) ==
    \/ Rotate(t) \/ RotateWaits(t) \/ LeaseWake(t) \/ Recheck(t) \/ RotateOpen(t) \/ Seal(t)
    \/ Verify(t) \/ PublishManifest(t) \/ RotateFails(t) \/ RotateInstalls(t) \/ Again(t)
FlushSteps(t) ==
    \/ FlushIO(t) \/ FlushFailed(t) \/ FlushPublishes(t)
    \/ Visit(t) \/ Visiting(t)
WriterSteps(t) == WriterResult(t) \/ WriterNext(t) \/ WriterCommit(t) \/ WriterFinalize(t)
Steps(t) == MutateSteps(t) \/ RotateSteps(t) \/ FlushSteps(t) \/ WriterSteps(t)
ClientSteps(c) == Steps(c) \/ FlushReturns(c)
FlusherSteps == FlushSteps(Flusher) \/ CallbackReturns \/ DeadlineChanged
CloseSteps == CloseFlush \/ CloseStop \/ CloseEnd

\* Everything has been called and has returned, or the Store is closed.
Terminated ==
    /\ \A c \in Clients : pc[c] = "idle"
    /\ issued = env.calls \/ life = "closed"
    /\ UNCHANGED vars

Next ==
    \/ \E c \in Clients : Call(c) \/ CallFlush(c) \/ ClientSteps(c)
    \/ \E t \in Threads : AppendFails(t) \/ FlushPublishesPart(t)
    \/ \E w \in Workers : Elapse(w)
    \/ \E tick, reached \in BOOLEAN : Wake(tick, reached)
    \/ FlusherSteps \/ Close \/ CloseSteps \/ Terminated

Spec == Init /\ [][Next]_vars

\* Threads run, the timers expire, the owner's close goes on; a thread that
\* contends for the mutex gets it in the end.
Fairness ==
    /\ \A c \in Clients : SF_vars(ClientSteps(c))
    /\ SF_vars(FlusherSteps)
    /\ WF_vars(\E reached \in BOOLEAN : Wake(TRUE, reached))
    /\ WF_vars(\E reached \in BOOLEAN : Wake(FALSE, reached))
    /\ \A w \in Workers : WF_vars(Elapse(w))
    /\ WF_vars(CloseSteps)
FairSpec == Spec /\ Fairness

----------------------------------------------------------------------------
(* Properties                                                               *)

Outcomes == {"none", "committed", "not_committed", "conflict", "indeterminate", "full", "ok", "failed"}
Handles == [seg : Nat, sel : Nat, per : Nat, sealed : BOOLEAN]

\* The shape of the state: batches hold Records that have a sequence number, a
\* handle never has more persisted than selected Records, and only the
\* coordinator or a client of the Store is asleep, keeps a mutex or the lease.
TypeOK ==
    /\ \A w \in Workers :
        /\ file[w] \in Handles /\ file[w].per <= file[w].sel
        /\ \A i \in DOMAIN queue[w] : queue[w][i].seq < next[w]
        /\ target[w] \in MinRecords..MaxRecords
        /\ active[w] \in DOMAIN seg[w] /\ through[w] < next[w]
        /\ mutex[w] \in Threads \cup {Nobody}
    /\ lease \in Clients \cup {Nobody}
    /\ \A t \in Threads : loc[t].result \in Outcomes /\ loc[t].file \in Handles
    /\ co.done <= co.gen
    /\ acked \cup refused \cup flushed \subseteq 1..issued

CommittedRecords(w) ==
    FlattenSeq([s \in DOMAIN seg[w] |-> SubSeq(seg[w][s].recs, 1, seg[w][s].count)])
CommittedIds == {r.id : r \in UNION {ToSet(CommittedRecords(w)) : w \in Workers}}

\* What recovery accepts: a Segment the Manifest calls sealed is sealed, and the
\* committed sequence numbers of a Worker increase strictly.
Recoverable(w) ==
    /\ \A s \in DOMAIN seg[w] : seg[w][s].role = "sealed" => seg[w][s].sealed
    /\ LET rs == CommittedRecords(w)
       IN  \A i, j \in DOMAIN rs : i < j => rs[i].seq < rs[j].seq

\* Whenever the process dies, recovery accepts what is on disk and finds every
\* mutation mutate has reported as committed (durable_sync and durable_group;
\* runtime_catalog_mutate_ops.cpp and runtime_catalog_batch.cpp).
AcknowledgedSurvive ==
    /\ \A w \in Workers : Recoverable(w)
    /\ acked \subseteq CommittedIds

\* A mutation reported as not_committed is never recovered, whatever its
\* siblings in the batch, the rotation it waited for or the flush after it do.
RefusedStayOut == refused \cap CommittedIds = {}

\* The Index holds exactly the effect of the committed Records up to
\* durable_through: nothing is visible before its commit slot, nothing that
\* durable_through covers is missing, even when publication stops half-way.
IndexIsCommitted ==
    \A w \in Workers :
        live[w] = Apply({}, SelectSeq(CommittedRecords(w), LAMBDA r : r.seq <= through[w]))

IoPoints == {"append", "relock", "flush", "publish_batch", "open", "seal", "verify", "manifest", "finish"}

\* mutation_io_active serialises writers: while the Worker mutex is given up, at
\* most one thread works on the Worker's active Segment.
OneReservation ==
    \A t, u \in Threads :
        t # u /\ {pc[t], pc[u]} \subseteq IoPoints => loc[t].w # loc[u].w

\* When flush reports success, every mutation that was staged when it was
\* called is on disk (flush, flush_all_blocking and the coordinator's
\* generations).
FlushCovers == flushed \subseteq CommittedIds

\* What mutate and flush report is on disk, whenever the process dies.
PromisesKept == AcknowledgedSurvive /\ FlushCovers

\* The Worker's memory agrees with its committed Records, and one thread at a
\* time works on its active Segment (publish_group_batch, mutation_io_active).
WorkerIsConsistent == TypeOK /\ IndexIsCommitted /\ OneReservation

\* Every put, erase and flush returns: no wake-up of a batch, an I/O
\* reservation or the publication lease is lost.
CallsReturn == \A c \in Clients : pc[c] # "idle" ~> pc[c] = "idle"

\* Store::close ends: the coordinator serves its last flush and stops.
StoreCloses == life = "closing" ~> life = "closed"

\* Nobody waits for ever, neither a client of mutate or flush nor the thread
\* that closes the Store.
EverybodyReturns == CallsReturn /\ StoreCloses
=============================================================================

------------------------------ MODULE WriterLane ------------------------------
(***************************************************************************)
(* One lane of the paired runtime of a server: a Reactor submits           *)
(* mutations to the lane's bounded queue, threads of the embedding process *)
(* push synchronous ones, and the lane's dedicated Writer executes both,   *)
(* publishes a read generation and answers.  A drain deadline may expire   *)
(* what is still queued, and the owner stops the lane.                     *)
(*                                                                         *)
(* log is the order in which the Store's index applied the mutations,      *)
(* published the generation Readers see: for each key the last mutation it *)
(* shows.  Generations, slots and merges are ReadGeneration's subject:     *)
(* here a generation is admitted, published or not.  The lane's sync list  *)
(* is not combined by its callers, as async_lane_enabled decides.          *)
(***************************************************************************)
EXTENDS SequencesExt, MutationLifecycle

CONSTANTS
    Mutations, Keys,
    Key, Op,       \* mutation -> key, mutation -> "put" or "erase"
    None,
    Capacity,      \* cells of the queue and payload slots
    MaxBatch,      \* records of an asynchronous batch
    MaxTurn,       \* records of a synchronous turn, and of a volatile publication (32)
    Environments   \* see WriterLaneAssumption

FaultKinds == {"pressure", "refused", "broken", "sticky", "unindexed", "indeterminate", "thrown", "capture",
               "publish", "published", "snapshot", "merge"}

\* An environment: the durability mode; the mutations that come through the
\* Reactor and through the synchronous calls; the faults that may happen and
\* how many; whether a task may expire in the queue, a batch may be cut by its
\* bytes, a refresh is requested, a drain deadline may pass; when the owner
\* stops the lane: "never", "served" (once the Reactor has its answers, as
\* Server::join does) or "any".
ASSUME WriterLaneAssumption ==
    /\ Key \in [Mutations -> Keys] /\ Op \in [Mutations -> {"put", "erase"}] /\ None \notin Mutations
    /\ {Capacity, MaxBatch, MaxTurn} \subseteq Nat \ {0}
    /\ \A e \in Environments :
        /\ e.mode \in {"volatile", "single", "group"} /\ e.stop \in {"never", "served", "any"}
        /\ e.async \cup e.sync \subseteq Mutations /\ e.async \cap e.sync = {}
        /\ e.faults \in Nat /\ e.kinds \subseteq FaultKinds
        /\ {e.expiry, e.bytes, e.refresh, e.deadline} \subseteq BOOLEAN

VARIABLES
    env, faults,
    client,      \* per mutation: "idle", "begun", "admitted", "answered", "refused"
    closed,      \* kAdmissionClosed and stopping_
    stopping,    \* the lane's stopping
    stopped,     \* stop_and_drain has returned
    healthy,     \* healthy_ of the paired runtime
    operational, \* health of the durable Store
    expire,      \* expire_remaining_
    queue,       \* the lane's SPSC queue
    carried,     \* carried_task
    sync,        \* the list of sync_head, newest first
    carriedSync, \* carried_sync, oldest first
    awake,       \* the signal has changed since the Writer last loaded it
    refresh,     \* refresh_requested
    pc, work,    \* the Writer
    log, published,
    result,      \* what the Store did with a mutation
    status,      \* "none", "ok", "exhausted" (resource_exhausted) or "unavailable"
    done,        \* mutations whose answer has been given
    missed,      \* those whose publication the Writer recorded as failed although Readers see it
    completions, \* the Reactor's completion queue
    pool,        \* occupied payload slots, oldest first
    deferred,    \* payloads the Reactor cannot release yet
    reactor,     \* "ok", or "corrupted" once it has given up
    abandoning   \* a thread is in abandon_queued_mutations

flags == <<closed, stopping, stopped, healthy, operational, expire>>
queues == <<queue, carried, sync, carriedSync>>
readerVars == <<client, completions, pool, deferred, reactor>>
writerVars == <<pc, work, log, published, result, status, missed>>
vars == <<env, faults, flags, queues, readerVars, writerVars, awake, refresh, done, abandoning>>

NoWork == [lane |-> "none", items |-> <<>>, todo |-> <<>>, staged |-> {}, clean |-> {}, sticky |-> {},
           failed |-> FALSE, observed |-> FALSE]

Init ==
    /\ env \in Environments /\ faults = env.faults
    /\ client = [m \in Mutations |-> "idle"]
    /\ closed = FALSE /\ stopping = FALSE /\ stopped = FALSE /\ abandoning = FALSE
    /\ healthy = TRUE /\ operational = TRUE /\ expire = FALSE /\ awake = FALSE /\ refresh = FALSE
    /\ queue = <<>> /\ carried = <<>> /\ sync = <<>> /\ carriedSync = <<>>
    /\ pc = "top" /\ work = NoWork /\ log = <<>> /\ published = [k \in Keys |-> None]
    /\ result = [m \in Mutations |-> "none"] /\ status = [m \in Mutations |-> "none"] /\ done = {} /\ missed = {}
    /\ completions = <<>> /\ pool = <<>> /\ deferred = {} /\ reactor = "ok"

Durable == env.mode # "volatile"
Fault(kind) == kind \in env.kinds /\ faults > 0 /\ faults' = faults - 1
NoFault == UNCHANGED faults

\* The index after the mutations of log l.
Contents(l) ==
    [k \in Keys |-> LET at == {i \in 1..Len(l) : Key[l[i]] = k}
                    IN  IF at = {} THEN None ELSE l[Max(at)]]
Holds(generation, k) == generation[k] # None /\ Op[generation[k]] = "put"
\* ack_after_published_visibility: a put finds its key, an erase does not.
Visible(generation, m) == Holds(generation, Key[m]) <=> Op[m] = "put"

Position(m) == Max({0} \cup {i \in 1..Len(log) : log[i] = m})
\* The published generation shows m or what replaced it.
Shown(m) ==
    /\ Position(m) > 0
    /\ published[Key[m]] # None /\ Position(published[Key[m]]) >= Position(m)

FailClosed == healthy' = FALSE /\ operational' = FALSE /\ expire' = TRUE /\ awake' = TRUE
StickyPair == healthy' = FALSE /\ expire' = TRUE /\ awake' = TRUE /\ UNCHANGED operational
SameHealth == UNCHANGED <<healthy, operational, expire, awake>>

Answer(ms, code) == [m \in Mutations |-> IF m \in ms /\ status[m] = "none" THEN code ELSE status[m]]

-----------------------------------------------------------------------------
(* The Reactor and the synchronous callers.                                *)

\* begin_submission; the Reactor submits one request at a time.
Begin(m) ==
    /\ client[m] = "idle" /\ m \in env.async \cup env.sync
    /\ m \in env.async => reactor = "ok" /\ \A n \in env.async : client[n] # "begun"
    /\ client' = [client EXCEPT ![m] = IF closed THEN "refused" ELSE "begun"]
    /\ UNCHANGED <<env, faults, flags, queues, writerVars, completions, pool, deferred, reactor, awake,
                   refresh, done, abandoning>>

\* The slot of a payload in the Reactor's ring, and the queue of as many
\* entries; slots are released oldest first.
SlotFree == Len(pool) < Capacity
Acquire(m) == pool' = Append(pool, m)
Push(m) == queue' = Append(queue, m)
ReleaseSlots(n) == pool' = SubSeq(pool, n + 1, Len(pool))

\* try_submit.
TrySubmit(m) ==
    /\ m \in env.async /\ client[m] = "begun"
    /\ IF healthy /\ ~closed /\ ~stopping /\ ~expire /\ SlotFree
       THEN /\ client' = [client EXCEPT ![m] = "admitted"]
            /\ Acquire(m) /\ Push(m) /\ awake' = TRUE
       ELSE client' = [client EXCEPT ![m] = "refused"] /\ UNCHANGED <<pool, queue, awake>>
    /\ UNCHANGED <<env, faults, flags, carried, sync, carriedSync, writerVars, completions, deferred,
                   reactor, refresh, done, abandoning>>

\* mutate and mutate_batch, up to the wait for the node.
Mutate(m) ==
    /\ m \in env.sync /\ client[m] = "begun"
    /\ IF healthy /\ ~closed /\ ~stopping
       THEN client' = [client EXCEPT ![m] = "admitted"] /\ sync' = <<m>> \o sync /\ awake' = TRUE
       ELSE client' = [client EXCEPT ![m] = "refused"] /\ UNCHANGED <<sync, awake>>
    /\ UNCHANGED <<env, faults, flags, queue, carried, carriedSync, writerVars, completions, pool, deferred,
                   reactor, refresh, done, abandoning>>

\* wait_sync_done.
Return(m) ==
    /\ m \in env.sync /\ client[m] = "admitted" /\ m \in done
    /\ client' = [client EXCEPT ![m] = "answered"]
    /\ UNCHANGED <<env, faults, flags, queues, writerVars, completions, pool, deferred, reactor, awake,
                   refresh, done, abandoning>>

\* Slots leave the pool oldest first: what flush_deferred_mutation_payloads
\* leaves of pool p when the slots of d wait.
Flushed(p, d) == Max({n \in 0..Len(p) : \A i \in 1..n : p[i] \in d})

\* process_mutation_completions, for one completion.
TakeCompletion ==
    /\ reactor = "ok" /\ completions # <<>> /\ \A n \in env.async : client[n] # "begun"
    /\ LET m == Head(completions)
           waiting == deferred \cup {m}
           n == Flushed(pool, waiting)
       IN  /\ completions' = Tail(completions)
           /\ client' = [client EXCEPT ![m] = "answered"]
           /\ IF Head(pool) = m \/ expire
              THEN /\ ReleaseSlots(n)
                   /\ deferred' = waiting \ {pool[i] : i \in 1..n}
                   /\ UNCHANGED reactor
              ELSE reactor' = "corrupted" /\ UNCHANGED <<pool, deferred>>
    /\ UNCHANGED <<env, faults, flags, queues, writerVars, awake, refresh, done, abandoning>>

\* request_read_refresh.
RequestRefresh ==
    /\ env.refresh /\ Durable /\ ~refresh
    /\ refresh' = TRUE /\ awake' = TRUE
    /\ UNCHANGED <<env, faults, flags, queues, readerVars, writerVars, done, abandoning>>

-----------------------------------------------------------------------------
(* The owner.                                                              *)

InSubmission == {m \in Mutations : client[m] = "begun" \/ (m \in env.sync /\ client[m] = "admitted")}
Served == \A m \in env.async : client[m] \in {"idle", "refused", "answered"}

CloseAdmission ==
    /\ ~closed /\ env.stop # "never" /\ (env.stop = "served" => Served)
    /\ closed' = TRUE
    /\ UNCHANGED <<env, faults, stopping, stopped, healthy, operational, expire, queues, readerVars,
                   writerVars, awake, refresh, done, abandoning>>
StopLane ==
    /\ closed /\ ~stopping /\ InSubmission = {}
    /\ stopping' = TRUE /\ awake' = TRUE
    /\ UNCHANGED <<env, faults, closed, stopped, healthy, operational, expire, queues, readerVars,
                   writerVars, refresh, done, abandoning>>
Join ==
    /\ stopping /\ ~stopped /\ pc = "exit" /\ ~abandoning
    /\ stopped' = TRUE
    /\ UNCHANGED <<env, faults, closed, stopping, healthy, operational, expire, queues, readerVars,
                   writerVars, awake, refresh, done, abandoning>>

\* abandon_queued_mutations: by an executor of the server after its drain
\* deadline, or by stop_and_drain.
Abandon ==
    /\ env.deadline /\ ~abandoning /\ ~stopped /\ (expire => stopping /\ pc # "exit")
    /\ abandoning' = TRUE /\ expire' = TRUE /\ awake' = TRUE
    /\ UNCHANGED <<env, faults, closed, stopping, stopped, healthy, operational, queues, readerVars,
                   writerVars, refresh, done>>
AbandonNext ==
    /\ abandoning
    /\ IF queue = <<>> THEN abandoning' = FALSE /\ UNCHANGED <<queue, status, done, completions>>
       ELSE /\ queue' = Tail(queue) /\ status' = Answer({Head(queue)}, "exhausted")
            /\ completions' = Append(completions, Head(queue)) /\ done' = done \cup {Head(queue)}
            /\ UNCHANGED abandoning
    /\ UNCHANGED <<env, faults, flags, carried, sync, carriedSync, client, pool, deferred, reactor, pc,
                   work, log, published, result, missed, awake, refresh>>
-----------------------------------------------------------------------------
(* The Writer.                                                             *)

Goto(at) == pc' = at
SameStore == UNCHANGED <<log, published, result, missed>>

\* process_merge: a merge that fails otherwise than for want of memory closes
\* the lane.
MergeFails == Fault("merge") /\ FailClosed
MergeTurn == MergeFails \/ (NoFault /\ SameHealth)

\* The top of the loop: reclamation, and a refresh if one was requested.
Refresh ==
    /\ pc = "top" /\ Goto("sync")
    /\ IF refresh /\ healthy /\ ~stopping
       THEN /\ refresh' = FALSE
            /\ \/ NoFault /\ published' = Contents(log) /\ SameHealth
               \/ Fault("snapshot") /\ FailClosed /\ UNCHANGED published
               \/ Fault("pressure") /\ SameHealth /\ UNCHANGED published
       ELSE NoFault /\ SameHealth /\ UNCHANGED <<refresh, published>>
    /\ UNCHANGED <<env, closed, stopping, stopped, queues, readerVars, work, log, result, status, missed,
                   done, abandoning>>

\* run_writer_sync_drain takes one turn: the continuation of an earlier turn,
\* or the whole list, oldest first.
SyncTurn ==
    /\ pc = "sync"
    /\ LET pending == IF carriedSync # <<>> THEN carriedSync ELSE Reverse(sync)
           n == Min({MaxTurn, Len(pending)})
           turn == SubSeq(pending, 1, n)
       IN  /\ carriedSync' = SubSeq(pending, n + 1, Len(pending))
           /\ sync' = IF carriedSync # <<>> THEN sync ELSE <<>>
           /\ \/ turn = <<>> /\ Goto("pop") /\ NoFault /\ UNCHANGED <<work, status, done>>
              \/ /\ turn # <<>> /\ (IF healthy THEN Fault("pressure") ELSE NoFault)
                 /\ status' = Answer(Range(turn), "exhausted") /\ done' = done \cup Range(turn)
                 /\ Goto("pop") /\ UNCHANGED work
              \/ /\ turn # <<>> /\ healthy /\ NoFault
                 /\ work' = [NoWork EXCEPT !.lane = "sync", !.items = turn, !.todo = turn]
                 /\ Goto("apply") /\ UNCHANGED <<status, done>>
    /\ SameStore
    /\ UNCHANGED <<env, flags, queue, carried, readerVars, awake, refresh, abandoning>>

\* The carried task, or the oldest of the queue.
Pop ==
    /\ pc = "pop"
    /\ LET task == IF carried # <<>> THEN carried ELSE SubSeq(queue, 1, Min({1, Len(queue)}))
       IN  /\ carried' = <<>>
           /\ queue' = IF carried # <<>> \/ queue = <<>> THEN queue ELSE Tail(queue)
           /\ IF task = <<>> THEN Goto("empty") /\ UNCHANGED work
              ELSE Goto("collect") /\ work' = [NoWork EXCEPT !.lane = "async", !.items = task]
    /\ SameStore
    /\ UNCHANGED <<env, faults, flags, sync, carriedSync, readerVars, status, awake, refresh, done,
                   abandoning>>

\* Nothing to do: leave if the lane stops, else load the signal ...
Empty ==
    /\ pc = "empty"
    /\ IF stopping /\ carriedSync = <<>> THEN Goto("exit") /\ UNCHANGED awake
       ELSE Goto("idle") /\ awake' = FALSE
    /\ UNCHANGED <<env, faults, flags, queues, readerVars, work, log, published, result, status, missed,
                   refresh, done, abandoning>>
\* Without the second look at sync_head.
IdleUnchecked ==
    /\ pc = "idle"
    /\ IF queue # <<>>
       THEN /\ queue' = Tail(queue) /\ Goto("collect")
            /\ work' = [NoWork EXCEPT !.lane = "async", !.items = <<Head(queue)>>]
       ELSE Goto(IF carriedSync # <<>> \/ stopping \/ refresh THEN "top" ELSE "parked")
            /\ UNCHANGED <<queue, work>>
    /\ SameStore
    /\ UNCHANGED <<env, faults, flags, carried, sync, carriedSync, readerVars, status, awake, refresh, done,
                   abandoning>>
\* ... look again, and give an idle lane's merge a turn before parking.
Idle ==
    /\ pc = "idle"
    /\ IF queue # <<>>
       THEN /\ queue' = Tail(queue) /\ Goto("collect") /\ NoFault /\ SameHealth
            /\ work' = [NoWork EXCEPT !.lane = "async", !.items = <<Head(queue)>>]
       ELSE /\ UNCHANGED <<queue, work>>
            /\ LET pending == carriedSync # <<>> \/ sync # <<>> \/ stopping
               IN  /\ IF ~pending /\ healthy THEN MergeTurn ELSE NoFault /\ SameHealth
                   /\ Goto(IF pending \/ refresh THEN "top" ELSE "parked")
    /\ SameStore
    /\ UNCHANGED <<env, closed, stopping, stopped, carried, sync, carriedSync, readerVars, status, refresh,
                   done, abandoning>>
Wake ==
    /\ pc = "parked" /\ awake /\ Goto("top")
    /\ UNCHANGED <<env, faults, flags, queues, readerVars, work, log, published, result, status, missed,
                   awake, refresh, done, abandoning>>

\* run_writer_async_batch coalesces what is queued; a task that does not fit
\* is carried to the next batch.
Collect ==
    /\ pc = "collect"
    /\ \/ /\ Len(work.items) < MaxBatch /\ queue # <<>> /\ queue' = Tail(queue)
          /\ \/ work' = [work EXCEPT !.items = Append(@, Head(queue))] /\ UNCHANGED <<pc, carried>>
             \/ env.bytes /\ carried' = <<Head(queue)>> /\ Goto("admit") /\ UNCHANGED work
       \/ /\ Len(work.items) = MaxBatch \/ queue = <<>>
          /\ Goto("admit") /\ UNCHANGED <<queue, carried, work>>
    /\ SameStore
    /\ UNCHANGED <<env, faults, flags, sync, carriedSync, readerVars, status, awake, refresh, done,
                   abandoning>>
\* Generation admission, then expiry of each task before it enters the Store.
AdmitBatch ==
    /\ pc = "admit" /\ Goto("apply")
    /\ \E expired \in SUBSET Range(work.items), pressure \in BOOLEAN :
        /\ IF pressure THEN Fault("pressure") /\ SameHealth ELSE MergeTurn
        /\ expire' \/ pressure => expired = Range(work.items)
        /\ env.expiry \/ expire' \/ pressure \/ expired = {}
        /\ status' = Answer(expired, "exhausted")
        /\ work' = [work EXCEPT !.todo = SelectSeq(work.items, LAMBDA m : m \notin expired)]
    /\ SameStore
    /\ UNCHANGED <<env, closed, stopping, stopped, queues, readerVars, refresh, done, abandoning>>

InAsync == work.lane = "async"
InGroupTurn == work.lane = "sync" /\ env.mode = "group"
InNode == work.lane = "sync" /\ env.mode = "single"
InVolatileTurn == work.lane = "sync" /\ ~Durable

\* What one call of the Store takes: a group batch's prefix of distinct keys,
\* or one mutation.
Call ==
    LET distinct(n) == \A i, j \in 1..n : i # j => Key[work.todo[i]] # Key[work.todo[j]]
    IN  SubSeq(work.todo, 1, IF env.mode = "group" THEN Max({n \in 1..Len(work.todo) : distinct(n)}) ELSE 1)
Rest == SubSeq(work.todo, Len(Call) + 1, Len(work.todo))

\* What is left of the batch when the lane has failed closed or expires never
\* enters the Store.
AsyncBarred == expire \/ work.failed \/ ~healthy \/ (Durable /\ ~operational)
SyncBarred == ~healthy \/ (InGroupTurn /\ ~operational)
Barred == IF InAsync THEN AsyncBarred ELSE SyncBarred
\* A batch that meets a lane failed closed, rather than an expiry, fails too.
MeetsFailure ==
    IF InAsync THEN (work.failed \/ ~healthy \/ (Durable /\ ~operational)) /\ (env.mode = "group" => ~expire)
    ELSE InGroupTurn
Bar ==
    /\ pc = "apply" /\ work.todo # <<>> /\ Barred /\ Goto("publish")
    /\ status' = Answer(Range(work.todo), "exhausted")
    /\ work' = [work EXCEPT !.todo = <<>>, !.failed = @ \/ MeetsFailure]
    /\ IF InGroupTurn THEN StickyPair ELSE SameHealth
    /\ SameStore
    /\ UNCHANGED <<env, faults, closed, stopping, stopped, queues, readerVars, refresh, done, abandoning>>

\* The admission of a synchronous volatile turn or durable node is refused,
\* the merge it pays for fails, or, of a volatile turn, it throws.
TurnAway ==
    /\ pc = "apply" /\ (InNode \/ InVolatileTurn) /\ ~Barred
    /\ work.todo # <<>> /\ (Durable \/ work.todo = work.items)
    /\ LET away == IF Durable THEN Call ELSE work.todo
       IN  /\ status' = Answer(Range(away), "exhausted") /\ Goto("publish")
           /\ work' = [work EXCEPT !.todo = IF Durable THEN Rest ELSE <<>>]
    /\ \/ Fault("pressure") /\ SameHealth
       \/ MergeFails
       \/ ~Durable /\ Fault("thrown") /\ FailClosed
    /\ SameStore
    /\ UNCHANGED <<env, closed, stopping, stopped, queues, readerVars, refresh, done, abandoning>>

\* The results of one call: all clean, or one kind of trouble for some.
Results(call) ==
    {[m \in Range(call) |-> IF m \in ms THEN kind ELSE "clean"] :
        ms \in (SUBSET Range(call)) \ {{}},
        kind \in env.kinds \cap (IF Durable THEN {"refused", "broken", "sticky", "unindexed", "indeterminate"}
                                 ELSE {"refused", "indeterminate"})}
\* The index refuses only a key it does not hold.
Possible(r) ==
    \A m \in DOMAIN r : r[m] = "unindexed" => Op[m] = "put" /\ ~Holds(Contents(log), Key[m])

Classify(call, r, captured) ==
    LET of(kinds) == {m \in Range(call) : r[m] \in kinds}
        lost == of({"clean"}) \ captured
        bad == of({"sticky", "unindexed", "indeterminate"})
    IN  /\ result' = [m \in Mutations |-> IF m \in Range(call) THEN r[m] ELSE result[m]]
        /\ log' = log \o SelectSeq(call, LAMBDA m : r[m] \in {"clean", "sticky"})
        /\ status' = [m \in Mutations |-> CASE m \in of({"refused", "broken"}) -> "exhausted"
                                            [] m \in bad \cup lost -> "unavailable"
                                            [] OTHER -> status[m]]
        /\ work' = [work EXCEPT
                     !.todo = Rest, !.staged = @ \cup captured, !.clean = @ \cup of({"clean"}),
                     !.sticky = @ \cup of({"sticky", "unindexed"}),
                     !.observed = @ \/ of({"clean", "sticky", "unindexed"}) # {},
                     !.failed = @ \/ bad \cup lost \cup of({"broken"}) # {}]
        /\ operational' = (operational /\ bad \cup of({"broken"}) = {})

\* What follows a call: an asynchronous batch goes on, and so do a synchronous
\* group batch and a volatile turn, which mark the pair first; a durable node
\* is published by itself.
AsyncCalled == InAsync /\ UNCHANGED <<healthy, expire, awake, pc>>
MarkPair == IF work'.failed THEN healthy' = FALSE /\ expire' = TRUE /\ awake' = TRUE
            ELSE UNCHANGED <<healthy, expire, awake>>
GroupCalled == InGroupTurn /\ MarkPair /\ UNCHANGED pc
VolatileCalled == InVolatileTurn /\ MarkPair /\ UNCHANGED pc
NodeCalled == InNode /\ Goto("publish") /\ UNCHANGED <<healthy, expire, awake>>

\* A call of the Store and the classification of its results.
Apply ==
    /\ pc = "apply" /\ work.todo # <<>> /\ ~Barred
    /\ \/ NoFault /\ Classify(Call, [m \in Range(Call) |-> "clean"], Range(Call))
       \/ faults > 0 /\ faults' = faults - 1 /\ \E r \in Results(Call) :
            /\ Possible(r)
            /\ Classify(Call, r, {m \in Range(Call) : r[m] = "clean"})
       \/ Durable /\ ~InGroupTurn /\ Fault("capture") /\ \E lost \in (SUBSET Range(Call)) \ {{}} :
            /\ \A m \in lost : Op[m] = "put"
            /\ Classify(Call, [m \in Range(Call) |-> "clean"], Range(Call) \ lost)
    /\ AsyncCalled \/ GroupCalled \/ VolatileCalled \/ NodeCalled
    /\ UNCHANGED <<env, closed, stopping, stopped, queues, readerVars, published, missed, refresh, done,
                   abandoning>>

\* Everything without a classified result is called never started.
UnprocessedRefused(call, rest) ==
    [m \in Mutations |-> IF m \in call \cup rest THEN "exhausted" ELSE status[m]]

\* upgrade_unprocessed, upgrade_placeholder: the mutations of the call in
\* flight may be in the Store, the later ones are not.
Unprocessed(call, rest) ==
    [m \in Mutations |-> CASE m \in call -> "unavailable"
                           [] m \in rest -> "exhausted"
                           [] OTHER -> status[m]]

\* An exception between a durable call and the classification of its results:
\* what the Store did is not known.  A batch ends there; a synchronous one, and
\* a node, drain the index.
Lost ==
    /\ pc = "apply" /\ work.todo # <<>> /\ ~Barred /\ Durable /\ Fault("thrown") /\ Goto("publish")
    /\ \E applied \in {Call, <<>>} : log' = log \o applied
    /\ result' = [m \in Mutations |-> IF m \in Range(Call) THEN "lost" ELSE result[m]]
    /\ SameHealth
    /\ UNCHANGED <<env, closed, stopping, stopped, queues, readerVars, published, missed, refresh, done,
                   abandoning>>
ThrowBatch ==
    /\ Lost /\ (InAsync \/ InGroupTurn)
    /\ status' = Unprocessed(Range(Call), Range(Rest))
    /\ work' = [work EXCEPT !.todo = <<>>, !.failed = TRUE, !.observed = @ \/ InGroupTurn]
ThrowNode ==
    /\ Lost /\ InNode
    /\ status' = Unprocessed(Range(Call), {})
    /\ work' = [work EXCEPT !.todo = Rest, !.failed = TRUE, !.observed = TRUE]

\* An exception before a volatile call: an asynchronous mutation is refused, a
\* synchronous turn is given up and what it staged is not published.
ThrowVolatile ==
    /\ pc = "apply" /\ work.todo # <<>> /\ ~Barred /\ ~Durable /\ Fault("thrown")
    /\ IF InAsync
       THEN /\ status' = Answer(Range(Call), "exhausted") /\ work' = [work EXCEPT !.todo = Rest]
       ELSE /\ status' = Unprocessed(work.staged, Range(work.todo))
            /\ work' = [work EXCEPT !.todo = <<>>, !.staged = {}, !.clean = {},
                                    !.failed = @ \/ \E m \in Range(work.items) : status'[m] = "unavailable"]
    /\ SameHealth /\ SameStore
    /\ UNCHANGED <<env, closed, stopping, stopped, queues, readerVars, pc, refresh, done, abandoning>>

\* How a batch may become visible, the intended way first.  A batch with a
\* failed commit is drained from the index, or, if volatile, published as far
\* as it is staged.
AsyncAttempts ==
    CASE work.failed /\ Durable -> IF work.observed \/ work.staged # {} THEN <<"snapshot">> ELSE <<>>
      [] work.staged = {} -> <<>>
      [] OTHER -> IF Durable THEN <<"incremental", "snapshot">> ELSE <<"incremental">>
GroupTurnAttempts == IF work.observed THEN <<"snapshot">> ELSE <<>>
VolatileTurnAttempts == IF work.staged # {} THEN <<"incremental">> ELSE <<>>
NodeAttempts ==
    CASE work.failed -> <<"snapshot">>
      [] work.staged # {} -> <<"incremental", "snapshot">>
      [] OTHER -> <<>>
Attempts ==
    CASE InAsync -> AsyncAttempts
      [] InGroupTurn -> GroupTurnAttempts
      [] InVolatileTurn -> VolatileTurnAttempts
      [] InNode -> NodeAttempts

\* Every committed mutation is acknowledged after a drain, found or not.
AcknowledgedUnseen(how, generation) ==
    CASE how = "incremental" -> work.staged
      [] how = "snapshot" -> work.clean \cup work.sticky
      [] OTHER -> {}

\* ack_staged_after_publish, ack_clean_durable_after_drain and
\* ack_sticky_after_visibility.
Acknowledged(how, generation) ==
    CASE how = "incremental" -> work.staged
      [] how = "snapshot" -> work.clean \cup {m \in work.sticky : Visible(generation, m)}
      [] OTHER -> {}

\* The last drain may contradict what Readers see.  A durable node whose drain
\* has failed is answered unavailable; then the Store is drained once more, and
\* that may work.  A group turn that throws after its publication drains again
\* too; when that fails its successes are taken back.
MayMiss(how, thrown) ==
    \/ InNode /\ how = "none" /\ Attempts # <<>> /\ result[Head(work.items)] # "broken"
    \/ InGroupTurn /\ how = "snapshot" /\ thrown /\ \A m \in Range(work.items) : result[m] # "lost"

\* Publication, fail-closed, and the answers.
Publish ==
    /\ pc = "publish" \/ (pc = "apply" /\ work.todo = <<>>)
    /\ \E how \in Range(Attempts) \cup {"none"}, thrown, miss \in BOOLEAN :
        /\ miss => MayMiss(how, thrown)
        /\ missed' = missed \cup (IF miss THEN Range(work.items) \ Range(work.todo) ELSE {})
        /\ CASE thrown -> Attempts # <<>> /\ how = Head(Attempts) /\ Fault("published")
             [] ~thrown /\ (Attempts = <<>> \/ how = Head(Attempts)) -> NoFault
             [] OTHER -> Fault(IF Head(Attempts) = "incremental" THEN "publish" ELSE "snapshot")
        /\ published' = CASE how = "incremental" ->
                                [k \in Keys |-> LET at == {m \in work.staged : Key[m] = k}
                                                IN  IF at = {} THEN published[k]
                                                    ELSE CHOOSE m \in at : \A n \in at : Position(n) <= Position(m)]
                          [] how = "snapshot" \/ miss -> Contents(log)
                          [] OTHER -> published
        /\ LET acked == IF miss THEN {} ELSE Acknowledged(how, published')
               unseen == (work.staged \cup work.clean) \ acked
           IN  status' = [m \in Mutations |-> CASE m \in acked -> "ok"
                                                [] m \in unseen -> "unavailable"
                                                [] OTHER -> status[m]]
        /\ IF \/ work.failed \/ thrown \/ (how = "none" /\ Attempts # <<>>)
              \/ how = "snapshot" /\ ~InGroupTurn
           THEN FailClosed ELSE SameHealth
    /\ IF InAsync THEN Goto("deliver") /\ UNCHANGED <<work, done>>
       ELSE /\ done' = done \cup (Range(work.items) \ Range(work.todo))
            /\ Goto(IF work.todo = <<>> THEN "pop" ELSE "apply")
            /\ work' = IF work.todo = <<>> THEN NoWork
                       ELSE [NoWork EXCEPT !.lane = "sync", !.items = work.todo, !.todo = work.todo]
    /\ UNCHANGED <<env, closed, stopping, stopped, queues, readerVars, log, result, refresh, abandoning>>

\* Every completion goes to the Reactor's queue in the order of the batch.
Deliver ==
    /\ pc = "deliver"
    /\ LET m == Head(work.items)
       IN  completions' = Append(completions, m) /\ done' = done \cup {m}
    /\ IF Len(work.items) = 1 THEN work' = NoWork /\ Goto("top")
       ELSE work' = [work EXCEPT !.items = Tail(@)] /\ UNCHANGED pc
    /\ SameStore
    /\ UNCHANGED <<env, faults, flags, queues, client, pool, deferred, reactor, status, awake, refresh,
                   abandoning>>

Writer ==
    Refresh \/ SyncTurn \/ Pop \/ Empty \/ Idle \/ Wake \/ Collect \/ AdmitBatch \/ Bar \/ TurnAway \/ Apply
    \/ ThrowBatch \/ ThrowNode \/ ThrowVolatile \/ Publish \/ Deliver
Reader == TakeCompletion \/ \E m \in Mutations : Begin(m) \/ TrySubmit(m) \/ Mutate(m) \/ Return(m)
Owner == CloseAdmission \/ StopLane \/ Join

Next == Writer \/ Reader \/ RequestRefresh \/ Owner \/ Abandon \/ AbandonNext

Spec == Init /\ [][Next]_vars

\* The threads run: the Writer, the callers in a call, the Reactor that polls
\* its completions, the owner that has begun to stop.  No call has to be made
\* and nobody has to stop the lane.
FairSpec ==
    /\ Spec /\ WF_vars(Writer) /\ WF_vars(TakeCompletion) /\ WF_vars(StopLane) /\ WF_vars(Join)
    /\ WF_vars(AbandonNext)
    /\ \A m \in Mutations : WF_vars(TrySubmit(m)) /\ WF_vars(Mutate(m)) /\ WF_vars(Return(m))

-----------------------------------------------------------------------------
(* What the lane promises: every mutation goes through its lifecycle.      *)

Knowledge(m) ==
    CASE result[m] \in {"clean", "sticky", "unindexed"} -> "committed"
      [] result[m] \in {"indeterminate", "lost"} -> "indeterminate"
      [] OTHER -> "known_not_committed"
Completion(m) ==
    CASE status[m] = "ok" -> "success"
      [] status[m] = "exhausted" -> "known_not_committed"
      [] OTHER -> "indeterminate"

\* The lifecycle of a mutation, read off the lane's state.
Life(m) ==
    LET k == Knowledge(m)
        seen == CASE k = "known_not_committed" -> "not_required"
                  [] k # "known_not_committed" /\ Shown(m) /\ m \notin missed -> "published"
                  [] OTHER -> IF m \in done THEN "failed" ELSE "required"
    IN  [stage |-> CASE m \in done -> "completed"
                     [] client[m] \notin {"admitted", "answered"} -> "not_admitted"
                     [] result[m] = "none" -> "admitted"
                     [] k = "known_not_committed" -> "completion_decided"
                     [] seen = "published" -> "published"
                     [] k = "committed" -> "publication_required"
                     [] OTHER -> "indeterminate",
         knowledge |-> k, error |-> result[m] \notin {"none", "clean"}, publication |-> seen,
         completion |-> IF m \in done \/ result[m] \in {"refused", "broken"} THEN Completion(m)
                        ELSE "undecided"]

Promise == INSTANCE MutationPromise WITH NewMutation <- NewLife, Legal <- Advance,
                                         life <- [m \in Mutations |-> Life(m)]

\* decide_completion: every mutation advances only by legal calls of
\* MutationLifecycle and is answered with the polarity its commit and its
\* publication justify; publication counts as the Writer recorded it, which is
\* what Readers see except for the mutations in missed.
LifecycleHolds == Promise!Spec

-----------------------------------------------------------------------------
(* Properties.                                                             *)

\* Read your writes: a mutation answered with success is shown by the
\* published generation, unless a later one replaced it; one refused as
\* resource_exhausted (OVERLOADED on the wire) has not touched the index; one
\* whose outcome is left open comes from a lane that has failed closed
\* (shard_pair_runtime_writer_async.cpp:597-611).
AnswersMatchReads ==
    \A m \in done : /\ status[m] = "ok" => Shown(m)
                    /\ status[m] = "exhausted" => Position(m) = 0
                    /\ status[m] = "unavailable" => ~healthy

\* The completion queue never overflows (the Writer would terminate), the
\* Reactor never sees completions out of the order of its payload slots except
\* after an expiry, and when it has all its answers every slot is free again
\* (mutation_slot_pool.cpp, reactor_execute.cpp: process_mutation_completions).
PayloadsReturn ==
    /\ Len(completions) <= Capacity /\ reactor = "ok"
    /\ Served => pool = <<>> /\ deferred = {}

\* Each answer is what Readers see, and brings its payload slot back.
AnswersAreTrue == AnswersMatchReads /\ PayloadsReturn

\* Every mutation the lane admits is answered, and a lane told to stop stops:
\* a mutation is submitted once, so in the end none waits (the Writer's sleep
\* on its signal, its turns between the two queues, the drain deadline).
EveryMutationAnswered ==
    <>[]((\A m \in Mutations : client[m] # "admitted") /\ (closed => stopped))

\* shard_pair_runtime.hpp:194: stop_and_drain "Stops admission and drains every
\* admitted mutation before returning".
DrainedWhenStopped == stopped => \A m \in Mutations : client[m] = "admitted" => m \in done
=============================================================================

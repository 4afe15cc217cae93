------------------------------- MODULE Service -------------------------------
(***************************************************************************)
(* Clients and server together: every step of a client thread, of a        *)
(* Reactor, a Writer or a disk-read thread, of the network, and of the     *)
(* shutdown, in any order.                                                 *)
(***************************************************************************)
EXTENDS Reactor, Client

serverVars == <<conn, at, lane, reads, log, backups, mesh, life, server>>
clientVars == <<pos, job, cc, healthy, results>>
vars == <<env, faults, sock, serverVars, clientVars>>

\* The scenarios: how many Reactors there are, how many connections one has and
\* how many frames a connection buffers; the calls of each thread and
\* whether the threads share a Client; whether the Store is durable (GETs may
\* go to disk) and its values large; whether stop is requested and its drain
\* deadline passes; which faults may happen, and how many.
ServiceAssumption ==
    \A e \in Environments :
        /\ e.reactors \in 1 .. MaxReactors /\ {e.count, e.slots, e.input} \subseteq Nat
        /\ {e.shared, e.durable, e.large, e.stop, e.deadline} \subseteq BOOLEAN
        /\ \A t \in Threads : \A call \in Range(e.script[t]) : \A q \in Range(call.reqs) :
             q.w \in Workers /\ q.w <= e.reactors
ASSUME ServiceAssumption

Init ==
    /\ env \in Environments
    /\ faults = env.count
    /\ sock = [i \in Sockets |-> FreeSocket]
    /\ ReactorInit /\ ClientInit

\* A log entry, or a backup, is the request id; its first four parts say which
\* request of which call it is.
RequestOf(id) == SubSeq(id, 1, 4)
IsOf(res, id) == RequestOf(id) = <<res.t, res.pos, res.w, res.k>>
Committed == {res \in results : res.op = "put" /\ res.out = "committed"}
CommittedUpTo(w) == Max({i \in DOMAIN log[w] : \E res \in Committed : IsOf(res, log[w][i].id)} \cup {0})

\* A listener is open until its Reactor drains, or the server is torn down.
Listening == {r \in Reactors : life[r] \in {"run", "failed"} /\ ~server.gone}

ClientThread(t) ==
    /\ \/ Begin(t, [w \in Workers |-> CommittedUpTo(w)])
       \/ \E w \in Workers : JobStep(t, w, Listening)
    /\ UNCHANGED serverVars

Next ==
    /\ UNCHANGED env
    /\ \/ ServerStep /\ UNCHANGED clientVars
       \/ \E t \in Threads : ClientThread(t)
       \/ \E i \in Sockets : Cut(i) /\ UNCHANGED <<serverVars, clientVars>>

\* Threads are scheduled; the poller and the completion wakeups report what is
\* ready.  Faults, the stop request and the drain deadline need not happen.
Fairness ==
    /\ \A r \in 1 .. MaxReactors :
         /\ WF_vars(r \in Reactors /\ ReactorStep(r) /\ UNCHANGED <<env, clientVars>>)
         /\ WF_vars(r \in Reactors /\ WriterThread(r) /\ UNCHANGED <<env, clientVars>>)
         /\ WF_vars(r \in Reactors /\ DiskReadThread(r) /\ UNCHANGED <<env, clientVars>>)
    /\ WF_vars((StopDiskReads \/ Teardown) /\ UNCHANGED <<env, clientVars>>)
    /\ \A t \in Threads : WF_vars(UNCHANGED env /\ ClientThread(t))

Spec == Init /\ [][Next]_vars /\ Fairness

\* With allocation failures of a client.
AllocNext == \/ Next
             \/ /\ \E t \in Threads, w \in Workers : AllocationFails(t, w)
                /\ UNCHANGED <<env, serverVars>>
AllocSpec == Init /\ [][AllocNext]_vars

------------------------------------------------------------------------------
Times(res) == Cardinality({i \in DOMAIN log[res.w] : IsOf(res, log[res.w][i].id)})

\* A mutation that the client reports rejected was not applied: its request
\* never left the client, or the server refused it.
RejectedWasNotApplied == \A res \in results : res.op = "put" /\ res.out = "rejected" => Times(res) = 0

\* What a call reports is so, whatever was lost, cut, retried, refused or
\* abandoned in between: a mutation reported committed was applied exactly
\* once; one reported rejected was not applied, and never will be; a backup
\* that is not reported indeterminate was made if it succeeded and only then;
\* nothing is applied twice.
OutcomesAreTrue ==
    /\ RejectedWasNotApplied
    /\ \A res \in results :
         /\ res.op = "put" /\ res.out = "committed" => Times(res) = 1
         /\ res.op = "backup" /\ res.out # "indeterminate" =>
              (res.out = "ok" <=> \E id \in backups : IsOf(res, id))
    /\ \A w \in Workers : \A i, j \in DOMAIN log[w] :
         RequestOf(log[w][i].id) = RequestOf(log[w][j].id) => i = j

\* A GET returns nothing older than any mutation of its key that was reported
\* committed, to whichever client, before the GET was called, nor than the
\* committed mutations before it in its own pipeline.
ReadsAreCurrent ==
    \A res \in results : res.op = "get" /\ res.out = "ok" =>
        /\ res.at >= ValueAt(res.w, res.key, res.floor)
        /\ \A i \in DOMAIN log[res.w] :
             /\ log[res.w][i].key = res.key
             /\ \E own \in Committed : /\ IsOf(own, log[res.w][i].id)
                                       /\ own.t = res.t /\ own.pos = res.pos /\ own.k < res.k
             => res.at >= i

\* A connection that no call holds carries nothing: no request or response of
\* an earlier call is under way on it, so the next call meets only its own.
NoLeftover ==
    \A c \in Threads, w \in Workers :
        LET i == cc[c][w].sock IN
        i # NoSocket /\ cc[c][w].holder = 0 =>
            /\ sock[i].up = <<>> /\ sock[i].down = <<>>
            /\ \A r \in 1 .. MaxReactors :
                 /\ \A s \in Slots : conn[r][s].sock = i =>
                      conn[r][s].in = <<>> /\ conn[r][s].out = <<>> /\ ~InFlight(conn[r][s])
                 /\ \A h \in Range(mesh[r]) : h.sock # i

\* A client is told the outcome of its own requests and of no other call's.
ClientsAreTold == OutcomesAreTrue /\ NoLeftover

\* The cold read that the disk-read thread has taken and not completed.
Running(r) == {d \in Range(reads[r].task) : reads[r].pc = "read"}

\* The epoch a Reactor reports as safe to reclaim below never passes the
\* generation it reads from, nor the epoch of a cold read that is queued,
\* running, or waiting to be collected.
PinsHold ==
    \A r \in 1 .. MaxReactors :
        /\ lane[r].safe <= lane[r].local
        /\ \A d \in Range(reads[r].queue) \cup Running(r) \cup Range(reads[r].done) : lane[r].safe <= d.epoch

\* A socket that is open on the server's side belongs to exactly one
\* connection slot or handoff; through handoffs, refusals and shutdown none is
\* lost or shared.  A Reactor that leaves has no connection left, and its
\* thread has served or rejected every handoff but one pushed late, after the
\* mesh stopped accepting (try_handoff, reject_pending_handoffs).
SocketsAreOwned ==
    \A i \in Sockets :
        LET slots == {<<r, s>> \in (1 .. MaxReactors) \X Slots : conn[r][s].sock = i}
            handoffs == {<<r, n>> \in (1 .. MaxReactors) \X (1 .. MeshCap) :
                           n <= Len(mesh[r]) /\ mesh[r][n].sock = i}
        IN /\ sock[i].server = "open" => Cardinality(slots) + Cardinality(handoffs) = 1
           /\ sock[i].server # "open" => slots = {} /\ handoffs = {}
           /\ \A o \in slots : life[o[1]] \notin {"leave", "exit"}
           /\ \A o \in handoffs : life[o[1]] = "exit" => mesh[o[1]][o[2]].late

\* server_lifecycle.cpp:41-42 has the mesh refuse transfers before a stop is
\* seen, since "otherwise a destination can exit idle_for_shutdown while a
\* handoff cell still holds BIND OK".
NoHandoffIsLeft == \A r \in Reactors : life[r] = "exit" => mesh[r] = <<>>

\* Every call returns, and a server that is asked to stop, or whose executor
\* fails, is torn down: no thread waits for ever on another.
Quiesces ==
    <>[](/\ \A t \in Threads : pos[t] = Len(env.script[t]) /\ \A w \in Workers : job[t][w].pc = "idle"
         /\ server.stop => server.gone)
=============================================================================

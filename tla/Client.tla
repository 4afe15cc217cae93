------------------------------- MODULE Client -------------------------------
(***************************************************************************)
(* The C++ client: threads that share a Client or own one, one connection  *)
(* per Worker behind a mutex, and the three ways a call is carried out:    *)
(* "mutate" (put and erase), "read" (get, the probes and backup) and       *)
(* "pipe" (execute_pipeline, and execute_batch, which runs one pipeline    *)
(* per Worker at the same time); "close" closes the Client.                *)
(*                                                                         *)
(* A thread makes the calls of env.script in order; a call holds requests  *)
(* [op, w, key].  A request id is <<thread, call, Worker, place, attempt>>:*)
(* next_request_id never repeats one.  Places 0 and -1 are INIT and BIND.  *)
(***************************************************************************)
EXTENDS Wire, SequencesExt

CONSTANTS Threads, Workers

VARIABLES
    pos,      \* per thread: calls begun
    job,      \* per thread and Worker: the part of the call that is under way
    cc,       \* per Client and Worker: socket and holder of the mutex
    healthy,  \* per Client
    results   \* what the calls returned

ClientOf(t) == IF env.shared THEN 1 ELSE t
Call(t) == env.script[t][pos[t]]
Mode(t) == Call(t).mode
Requests(t, w) == SelectSeq(Call(t).reqs, LAMBDA q : q.w = w)
Mutation(q) == q.op = "put"
JobsOf(call) == {q.w : q \in Range(call.reqs)}

Idle == [pc |-> "idle", try |-> 0, sent |-> 0, got |-> 0, floor |-> 0]
RequestId(t, w, k) == <<t, pos[t], w, k, job[t][w].try>>
Connection(t, w) == cc[ClientOf(t)][w]
SocketOf(t, w) == sock[Connection(t, w).sock]

ClientInit ==
    /\ pos = [t \in Threads |-> 0]
    /\ job = [t \in Threads |-> [w \in Workers |-> Idle]]
    /\ cc = [c \in Threads |-> [w \in Workers |-> [sock |-> NoSocket, holder |-> 0]]]
    /\ healthy = [c \in Threads |-> TRUE]
    /\ results = {}

\* What a call reports of its request at place k: committed, rejected and
\* indeterminate of a mutation (for a pipeline succeeded, failed and
\* indeterminate), ok and failed of a read, with what it read.
Result(t, w, k, out, index) ==
    [t |-> t, pos |-> pos[t], w |-> w, k |-> k, op |-> Requests(t, w)[k].op, key |-> Requests(t, w)[k].key,
     out |-> out, at |-> index, floor |-> job[t][w].floor]
Refused(q) == IF Mutation(q) THEN "rejected" ELSE "failed"
AllRefused(t, w, first) ==
    {Result(t, w, k, Refused(Requests(t, w)[k]), 0) : k \in first .. Len(Requests(t, w))}

\* mark_unresolved: of the requests from first on, those of which a byte was
\* sent may have arrived.
Unresolved(t, w, first, bytesUpTo) ==
    {LET q == Requests(t, w)[k] IN
     Result(t, w, k, IF q.op \in {"put", "backup"} /\ k <= bytesUpTo THEN "indeterminate" ELSE Refused(q), 0)
     : k \in first .. Len(Requests(t, w))}

Moves(t, w, pc) == job' = [job EXCEPT ![t][w].pc = pc]
Retries(t, w) == job' = [job EXCEPT ![t][w] = [@ EXCEPT !.pc = "link", !.try = 1, !.sent = 0]]

\* The lock_guard is released; reset also closes the socket.
Unlocked(t, w) == [cc EXCEPT ![ClientOf(t)][w].holder = 0]
Without(ccs, t, w) == [ccs EXCEPT ![ClientOf(t)][w].sock = NoSocket]
Reset(ss, t, w) == IF Connection(t, w).sock = NoSocket THEN ss ELSE ClientClosed(ss, Connection(t, w).sock)
ResetKeepLock(t, w) == cc' = Without(cc, t, w) /\ sock' = Reset(sock, t, w)

Returns(t, w, report) ==
    /\ results' = results \cup report
    /\ job' = [job EXCEPT ![t][w] = Idle]
ResetAndReturn(t, w, report) ==
    /\ Returns(t, w, report)
    /\ cc' = Without(Unlocked(t, w), t, w) /\ sock' = Reset(sock, t, w)

------------------------------------------------------------------------------
(* Beginning a call. *)

\* The first look at healthy_; execute_batch splits the requests into one job
\* per Worker.  committed[w] is, of the mutations reported committed so far,
\* the newest in Worker w's log: what a read that begins now must see.
Begin(t, committed) ==
    /\ pos[t] < Len(env.script[t]) /\ \A w \in Workers : job[t][w].pc = "idle"
    /\ pos' = [pos EXCEPT ![t] = @ + 1]
    /\ LET call == env.script[t][pos[t] + 1]
           used == JobsOf(call)
       IN \/ /\ call.mode = "close"
             /\ healthy' = [healthy EXCEPT ![ClientOf(t)] = FALSE]
             /\ job' = [job EXCEPT ![t] = [w \in Workers |-> [Idle EXCEPT !.pc = "close"]]]
             /\ UNCHANGED results
          \/ /\ call.mode # "close" /\ healthy[ClientOf(t)]
             /\ job' = [job EXCEPT ![t] = [w \in Workers |->
                           IF w \in used THEN [Idle EXCEPT !.pc = "lock", !.floor = committed[w]] ELSE Idle]]
             /\ UNCHANGED <<healthy, results>>
          \/ /\ call.mode # "close" /\ ~healthy[ClientOf(t)]
             /\ UNCHANGED <<healthy, job>>
             /\ results' = results \cup UNION {AllRefused(t, w, 1)' : w \in used}
    /\ NoFault /\ UNCHANGED <<cc, sock>>

\* The mutex, and the second look at healthy_.
Lock(t, w) ==
    /\ job[t][w].pc = "lock" /\ Connection(t, w).holder = 0
    /\ \/ /\ healthy[ClientOf(t)]
          /\ cc' = [cc EXCEPT ![ClientOf(t)][w].holder = t]
          /\ Moves(t, w, "link")
          /\ UNCHANGED results
       \/ ~healthy[ClientOf(t)] /\ Returns(t, w, AllRefused(t, w, 1)) /\ UNCHANGED cc
    /\ NoFault /\ UNCHANGED <<pos, healthy, sock>>

\* close: connection after connection, under its mutex.
Close(t, w) ==
    /\ job[t][w].pc = "close" /\ Connection(t, w).holder = 0
    /\ \A v \in Workers : v < w => job[t][v].pc = "idle"
    /\ ResetKeepLock(t, w)
    /\ job' = [job EXCEPT ![t][w] = Idle]
    /\ NoFault /\ UNCHANGED <<pos, healthy, results>>

------------------------------------------------------------------------------
(* ensure_connected and bootstrap. *)

\* What a call does when it cannot connect: a read tries once more.
LinkFails(t, w) ==
    \/ Mode(t) = "read" /\ job[t][w].try = 0 /\ Retries(t, w) /\ ResetKeepLock(t, w) /\ UNCHANGED results
    \/ (Mode(t) # "read" \/ job[t][w].try = 1) /\ ResetAndReturn(t, w, AllRefused(t, w, 1))

\* What the client sends is in the socket, unless the other end is gone.
Sent(ss, i, frames) ==
    IF ss[i].server = "closed" \/ ss[i].cut THEN ss ELSE [ss EXCEPT ![i].up = @ \o frames]

Link(t, w, listening) ==
    /\ job[t][w].pc = "link"
    /\ \/ /\ Connection(t, w).sock # NoSocket /\ NoFault
          /\ Moves(t, w, "send") /\ UNCHANGED <<cc, sock, results>>
       \/ /\ Connection(t, w).sock = NoSocket /\ NoFault
          /\ \E r \in listening, i \in Sockets :
               /\ Fresh(i)
               /\ sock' = Connected(i, r, Frame(RequestId(t, w, 0), "init", 0, 0))
               /\ cc' = [cc EXCEPT ![ClientOf(t)][w].sock = i]
          /\ Moves(t, w, "init") /\ UNCHANGED results
       \/ /\ Connection(t, w).sock = NoSocket
          /\ (listening = {} /\ NoFault) \/ Fault("connect")
          /\ LinkFails(t, w)
    /\ UNCHANGED <<pos, healthy>>

\* The stream ends before the awaited response, or the deadline passes.
Ends(t, w) == \/ SocketOf(t, w).down = <<>> /\ (SocketOf(t, w).server = "closed" \/ SocketOf(t, w).cut) /\ NoFault
              \/ Fault("deadline")

\* INIT was sent, then BIND_WORKER.
Linking(t, w) ==
    LET s == SocketOf(t, w)
        i == Connection(t, w).sock
        place == IF job[t][w].pc = "init" THEN 0 ELSE -1
        accepted(a) == /\ a.status = "ok" /\ a.id = RequestId(t, w, place)
                       /\ place = -1 => a.owner = w
        popped == [sock EXCEPT ![i].down = Tail(@)]
    IN /\ job[t][w].pc \in {"init", "bind"}
       /\ \/ Ends(t, w) /\ LinkFails(t, w)
          \/ s.down # <<>> /\ ~accepted(Head(s.down)) /\ NoFault /\ LinkFails(t, w)
          \/ /\ s.down # <<>> /\ accepted(Head(s.down)) /\ NoFault
             /\ \/ /\ place = 0 /\ Moves(t, w, "bind")
                   /\ sock' = Sent(popped, i, <<Frame(RequestId(t, w, -1), "bind", w, 0)>>)
                \/ place = -1 /\ Moves(t, w, "send") /\ sock' = popped
             /\ UNCHANGED <<cc, results>>
       /\ UNCHANGED <<pos, healthy>>

------------------------------------------------------------------------------
(* The exchange of requests and responses. *)

\* The bytes already sent do not matter.
FailsAndRetries(t, w, ss, n, part) ==
    /\ sock' = Reset(ss, t, w)
    /\ \/ job[t][w].try = 0 /\ Retries(t, w) /\ cc' = Without(cc, t, w) /\ UNCHANGED results
       \/ /\ job[t][w].try = 1
          /\ Returns(t, w, Unresolved(t, w, job[t][w].got + 1, IF part THEN n + 1 ELSE n))
          /\ cc' = Without(Unlocked(t, w), t, w)

\* exchange or send_frame failed after the frames up to n were sent and, if
\* part, some bytes of the next; ss are the sockets then.
ExchangeFails(t, w, ss, n, part) ==
    LET none == n = 0 /\ ~part
        again == /\ job[t][w].try = 0
                 /\ \/ Mode(t) = "mutate" /\ none
                    \/ Mode(t) = "read" /\ (Requests(t, w)[1].op = "backup" => none)
    IN /\ sock' = Reset(ss, t, w)
       /\ \/ again /\ Retries(t, w) /\ cc' = Without(cc, t, w) /\ UNCHANGED results
          \/ /\ ~again
             /\ Returns(t, w, Unresolved(t, w, job[t][w].got + 1, IF part THEN n + 1 ELSE n))
             /\ cc' = Without(Unlocked(t, w), t, w)

\* send_frame: all requests of the job in one buffer.  Owner is the Worker to
\* which the server routes the key: another one, if the two disagree.
Send(t, w) ==
    LET i == Connection(t, w).sock
        reqs == Requests(t, w)
        frames(owner) == [k \in DOMAIN reqs |-> Frame(RequestId(t, w, k), reqs[k].op, owner, reqs[k].key)]
        gone == sock[i].server = "closed" \/ sock[i].cut
    IN /\ job[t][w].pc = "send"
       /\ \/ /\ \/ NoFault /\ sock' = Sent(sock, i, frames(w))
                \/ Fault("route") /\ \E v \in Workers \ {w} : sock' = Sent(sock, i, frames(v))
             /\ job' = [job EXCEPT ![t][w].pc = "await", ![t][w].sent = Len(reqs)]
             /\ UNCHANGED <<cc, results>>
          \/ gone /\ NoFault /\ ExchangeFails(t, w, sock, 0, FALSE)
          \/ /\ ~gone /\ Fault("send")
             /\ \E n \in 0 .. Len(reqs) - 1, part \in BOOLEAN :
                  ExchangeFails(t, w, Sent(sock, i, SubSeq(frames(w), 1, n)), n, part)
       /\ UNCHANGED <<pos, healthy>>

\* validate_response.
Valid(t, w, k, a) == a.id = RequestId(t, w, k) /\ (a.owner = w \/ a.status = "wrong_owner")
WrongWorker(t, w, k, a) == a.id = RequestId(t, w, k) /\ a.owner # w /\ a.status # "wrong_owner"
Outcome(q, status) ==
    IF status = "ok" THEN (IF Mutation(q) THEN "committed" ELSE "ok")
    ELSE IF status = "internal_error" /\ q.op \in {"put", "backup"} THEN "indeterminate"
    ELSE Refused(q)

\* The next response, in the order of the requests.
Await(t, w) ==
    LET s == SocketOf(t, w)
        k == job[t][w].got + 1
        q == Requests(t, w)[k]
        a == Head(s.down)
    IN /\ job[t][w].pc = "await" /\ s.down # <<>> /\ NoFault
       /\ \/ /\ ~Valid(t, w, k, a)
             /\ healthy' = [healthy EXCEPT ![ClientOf(t)] = @ /\ ~WrongWorker(t, w, k, a)]
             /\ ResetAndReturn(t, w, Unresolved(t, w, k, Len(Requests(t, w))))
          \/ /\ Valid(t, w, k, a)
             /\ healthy' = [healthy EXCEPT ![ClientOf(t)] = @ /\ a.status \notin {"wrong_owner", "not_bound"}]
             /\ results' = results \cup {Result(t, w, k, Outcome(q, a.status), a.at)}
             /\ sock' = [sock EXCEPT ![Connection(t, w).sock].down = Tail(@)]
             /\ \/ k < Len(Requests(t, w)) /\ job' = [job EXCEPT ![t][w].got = k] /\ UNCHANGED cc
                \/ k = Len(Requests(t, w)) /\ job' = [job EXCEPT ![t][w] = Idle] /\ cc' = Unlocked(t, w)
       /\ UNCHANGED pos

AwaitFails(t, w) ==
    /\ job[t][w].pc = "await" /\ Ends(t, w)
    /\ ExchangeFails(t, w, sock, job[t][w].sent, FALSE)
    /\ UNCHANGED <<pos, healthy>>

\* std::bad_alloc leaves exchange: put and erase catch it outside mutate, when
\* the lock is released and the connection is still open.
AllocationFails(t, w) ==
    /\ job[t][w].pc = "await" /\ Mode(t) # "pipe" /\ Fault("alloc")
    /\ Returns(t, w, AllRefused(t, w, 1))
    /\ cc' = Unlocked(t, w)
    /\ UNCHANGED <<pos, healthy, sock>>

JobStep(t, w, listening) ==
    \/ Lock(t, w) \/ Close(t, w) \/ Link(t, w, listening) \/ Linking(t, w)
    \/ Send(t, w) \/ Await(t, w) \/ AwaitFails(t, w)
=============================================================================

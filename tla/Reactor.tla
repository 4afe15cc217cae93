------------------------------- MODULE Reactor -------------------------------
(***************************************************************************)
(* The server: one Reactor thread per Worker with its connections, the     *)
(* lane to the Worker's Writer, the lane to its disk-read thread, the mesh *)
(* that hands a connection to the Reactor it binds to, and the shutdown.   *)
(*                                                                         *)
(* A Reactor is one thread: at says which connection it is working on, and *)
(* whether it is decoding frames or flushing output.  Writer, disk-read    *)
(* threads, other Reactors and clients run between its steps.  log[r] is   *)
(* the order in which Worker r applied mutations; a read generation is a   *)
(* prefix of it, named by its length.  WriterLane details the Writer and   *)
(* its failures; here it keeps that module's promise: it publishes before  *)
(* it answers, and OVERLOADED means that nothing was applied.              *)
(***************************************************************************)
EXTENDS Wire, FiniteSetsExt

CONSTANTS
    MaxReactors,
    Slots,        \* connection slots of a Reactor
    MaxGeneration,\* last generation of a slot
    Window,       \* kMaximumMutationWindow
    MaxOutput,    \* responses a connection buffers
    QueueCap,     \* mutations of a lane
    ReadCap,      \* cold reads of a Reactor; a power of two, so that its lane has as many slots
    MeshCap,      \* handoffs a Reactor's endpoint holds
    MaxEpoch      \* longest log

VARIABLES
    conn,     \* per Reactor and slot: the connection
    at,       \* per Reactor: what the thread is doing
    lane,     \* per Worker: the mutation lane and the Reactor's read generation
    reads,    \* per Worker: the disk-read lane and the epochs it pins
    log,      \* per Worker: the mutations applied
    backups,  \* the BACKUP requests whose copy was made
    mesh,     \* per Reactor: handoffs to it
    life,     \* per Reactor: "run", "drain", "flush", "leave", "exit", "failed"
    server    \* the mesh accepts; stop is requested; lanes are expired; teardown is done

Reactors == 1 .. env.reactors

NewConnection(i, gen) ==
    [sock |-> i, gen |-> gen, bound |-> 0, init |-> FALSE, in |-> <<>>, out |-> <<>>, lease |-> FALSE,
     eof |-> FALSE, closing |-> FALSE, muts |-> 0, cold |-> FALSE, need |-> 0]
NewLane == [queue |-> <<>>, busy |-> <<>>, done |-> <<>>, local |-> 0, safe |-> 0, published |-> 0,
            failed |-> FALSE, outstanding |-> 0]
\* The lane's thread: its place, the task whose slot it holds, whether the
\* signal has changed since it last loaded it, and the lane's stopping.
NewReads == [queue |-> <<>>, done |-> <<>>, outstanding |-> 0, uses |-> [e \in 0 .. MaxEpoch |-> 0],
             pc |-> "parked", task |-> <<>>, awake |-> FALSE, stopping |-> FALSE]
Loop == [pc |-> "loop", slot |-> 0, budget |-> 0]

ReactorInit ==
    /\ conn = [r \in 1 .. MaxReactors |-> [s \in Slots |-> NewConnection(NoSocket, 1)]]
    /\ at = [r \in 1 .. MaxReactors |-> Loop]
    /\ lane = [r \in 1 .. MaxReactors |-> NewLane]
    /\ reads = [r \in 1 .. MaxReactors |-> NewReads]
    /\ log = [r \in 1 .. MaxReactors |-> <<>>]
    /\ backups = {}
    /\ mesh = [r \in 1 .. MaxReactors |-> <<>>]
    /\ life = [r \in 1 .. MaxReactors |-> "run"]
    /\ server = [accepting |-> TRUE, stop |-> FALSE, expired |-> FALSE, gone |-> FALSE]

------------------------------------------------------------------------------
(* Connections. *)

Live(r, s) == conn[r][s].sock # NoSocket
FreeSlots(r) == {s \in Slots : ~Live(r, s) /\ s <= env.slots /\ conn[r][s].gen <= MaxGeneration}
InFlight(c) == c.muts > 0 \/ c.cold
Full(c) == c.lease \/ Len(c.out) >= MaxOutput
CurrentSlot(r) == at[r].slot
Current(r) == conn[r][CurrentSlot(r)]

\* A token names a slot and its generation: it finds the connection it was
\* made for, or none.
Finds(r, token) == Live(r, token[1]) /\ conn[r][token[1]].gen = token[2]

AtLoop(r) == at[r].pc = "loop" /\ life[r] \in {"run", "drain", "flush"}
Decodes(s, budget) == [pc |-> "frames", slot |-> s, budget |-> budget]
Flushes(s) == [pc |-> "write", slot |-> s, budget |-> 0]
GoesTo(r, place) == at' = [at EXCEPT ![r] = place]

\* close_connection: the slot gets its next generation.
Cleared(cs, r, s) == [cs EXCEPT ![r][s] = NewConnection(NoSocket, cs[r][s].gen + 1)]
Closes(r, s) ==
    /\ conn' = Cleared(conn, r, s)
    /\ sock' = ServerClosed(sock, conn[r][s].sock)
    /\ GoesTo(r, Loop)

\* A connection whose input cannot be handled any more: what is decided is
\* still flushed.
IsolateInputFailure(r, s) ==
    IF conn[r][s].out = <<>> THEN Closes(r, s)
    ELSE /\ conn' = [conn EXCEPT ![r][s].closing = TRUE, ![r][s].in = <<>>]
         /\ GoesTo(r, Flushes(s))
         /\ UNCHANGED sock

\* decide_connection_action: close_now.
CloseNow(c) == /\ c.out = <<>> /\ ~InFlight(c)
               /\ c.closing \/ (c.eof /\ c.in = <<>>)

\* Without the pins of the cold reads.
AdoptIgnoringColdReads(l, uses) ==
    [l EXCEPT !.local = l.published, !.safe = l.published]

\* The Reactor pins the newest published generation, and reports to the Writer
\* the oldest epoch it still uses: of this generation and of its cold reads.
MinimumColdReadEpoch(uses) == Min({e \in 0 .. MaxEpoch : uses[e] > 0} \cup {MaxEpoch})
AdoptReadGeneration(l, uses) ==
    [l EXCEPT !.local = l.published, !.safe = Min({l.published, MinimumColdReadEpoch(uses)})]

\* run_once adopts before it polls; the events of one poll all see what it
\* adopted, so a late one may see an older generation than is published.
Polls(r) ==
    \/ lane' = [lane EXCEPT ![r] = AdoptReadGeneration(@, reads[r].uses)]
    \/ UNCHANGED lane

------------------------------------------------------------------------------
(* Events of the poller. *)

\* accept_ready and adopt_connection of a fresh socket: without a free slot, or
\* over the accept limit, it is dropped.
Accept(r, i) ==
    /\ AtLoop(r) /\ life[r] = "run"
    /\ sock[i].server = "backlog" /\ sock[i].listener = r
    /\ \/ /\ FreeSlots(r) # {} /\ NoFault
          /\ LET s == Min(FreeSlots(r)) IN conn' = [conn EXCEPT ![r][s] = NewConnection(i, @.gen)]
          /\ sock' = [sock EXCEPT ![i].server = "open"]
       \/ /\ (FreeSlots(r) = {} /\ NoFault) \/ Fault("accept")
          /\ sock' = ServerClosed(sock, i)
          /\ UNCHANGED conn
    /\ UNCHANGED <<at, lane, reads, log, backups, mesh, life, server>>

\* read_ready: received bytes go to the input buffer and are decoded.
ReadInput(r, s) ==
    LET c == conn[r][s]
        received == sock[c.sock].up
    IN /\ AtLoop(r) /\ Live(r, s) /\ ~c.eof /\ ~c.lease
       /\ received # <<>>
       /\ Polls(r)
       /\ \/ /\ Len(c.in) + Len(received) <= env.input
             /\ conn' = [conn EXCEPT ![r][s].in = @ \o received]
             /\ sock' = [sock EXCEPT ![c.sock].up = <<>>]
             /\ GoesTo(r, Decodes(s, Window))
          \/ /\ Len(c.in) + Len(received) > env.input
             /\ IsolateInputFailure(r, s)
       /\ NoFault
       /\ UNCHANGED <<reads, log, backups, mesh, life, server>>

\* recv returns 0, or an error.
ReadEnd(r, s) ==
    LET c == conn[r][s] IN
    /\ AtLoop(r) /\ Live(r, s) /\ ~c.eof /\ ~c.lease
    /\ sock[c.sock].up = <<>>
    /\ \/ /\ ~sock[c.sock].client /\ ~sock[c.sock].cut
          /\ \/ CloseNow([c EXCEPT !.eof = TRUE]) /\ Closes(r, s)
             \/ /\ ~CloseNow([c EXCEPT !.eof = TRUE])
                /\ conn' = [conn EXCEPT ![r][s].eof = TRUE]
                /\ GoesTo(r, Flushes(s))
                /\ UNCHANGED sock
       \/ sock[c.sock].cut /\ Closes(r, s)
    /\ NoFault
    /\ UNCHANGED <<lane, reads, log, backups, mesh, life, server>>

\* The poller reports the socket writable, or broken.
WriteReady(r, s) ==
    LET c == conn[r][s] IN
    /\ AtLoop(r) /\ Live(r, s) /\ c.out # <<>>
    /\ Len(sock[c.sock].down) < Room \/ sock[c.sock].cut \/ ~sock[c.sock].client
    /\ Polls(r)
    /\ GoesTo(r, Flushes(s))
    /\ NoFault
    /\ UNCHANGED <<conn, sock, reads, log, backups, mesh, life, server>>

\* send, sendmsg or the TLS write fails.
Broken(i) == sock[i].cut \/ ~sock[i].client

\* The socket takes what its buffers hold; then it would block.
Takes(c) == IF Broken(c.sock) THEN 0 ELSE Min({Len(c.out), Room - Len(sock[c.sock].down)})
Flushed(ss, c) == [ss EXCEPT ![c.sock].down = @ \o SubSeq(c.out, 1, Takes(c))]
Unsent(c) == [c EXCEPT !.out = SubSeq(@, Takes(c) + 1, Len(@)), !.lease = @ /\ Takes(c) < Len(c.out)]

\* What is still buffered is not decoded.
WriteThenReturn(r) ==
    LET s == CurrentSlot(r)
        c == Current(r)
    IN /\ at[r].pc = "write" /\ ~Broken(c.sock)
       /\ conn' = [conn EXCEPT ![r][s] = Unsent(c)]
       /\ sock' = Flushed(sock, c)
       /\ GoesTo(r, Loop)
       /\ NoFault
       /\ UNCHANGED <<lane, reads, log, backups, mesh, life, server>>

\* write_ready: flush as much as the socket takes; then close, decode what is
\* still buffered, or return.
Write(r) ==
    LET s == CurrentSlot(r)
        c == Current(r)
        rest == Unsent(c)
        sent == Flushed(sock, c)
    IN /\ at[r].pc = "write"
       /\ \/ c.out # <<>> /\ Broken(c.sock) /\ Closes(r, s)
          \/ /\ c.out = <<>> \/ ~Broken(c.sock)
             /\ \/ CloseNow(rest) /\ conn' = Cleared(conn, r, s) /\ sock' = ServerClosed(sent, c.sock)
                   /\ GoesTo(r, Loop)
                \/ /\ ~CloseNow(rest)
                   /\ conn' = [conn EXCEPT ![r][s] = rest] /\ sock' = sent
                   /\ GoesTo(r, IF rest.out = <<>> /\ ~InFlight(rest) /\ rest.in # <<>>
                                THEN Decodes(s, Window) ELSE Loop)
       /\ NoFault
       /\ UNCHANGED <<lane, reads, log, backups, mesh, life, server>>

\* enforce_timeouts: an idle connection, or one whose request takes too long;
\* the latter flushes what the socket takes.
Timeout(r, s) ==
    LET c == conn[r][s] IN
    /\ AtLoop(r) /\ Live(r, s)
    /\ \/ ~InFlight(c) /\ c.out = <<>> /\ c.in = <<>> /\ Fault("idle")
       \/ InFlight(c) /\ Fault("slow")
    /\ conn' = Cleared(conn, r, s)
    /\ sock' = ServerClosed(Flushed(sock, c), c.sock)
    /\ UNCHANGED <<at, lane, reads, log, backups, mesh, life, server>>

------------------------------------------------------------------------------
(* process_frames: one frame a step. *)

\* A read may pass the mutations in flight.
HaltsOnFullWindow(r) ==
    LET c == Current(r) IN
    c.closing \/ c.in = <<>> \/ c.lease \/ c.cold \/ c.muts >= Window \/ at[r].budget = 0

\* Decoding stops: nothing is left, a scatter lease or a cold read is pending,
\* the mutation window is full or meets another operation, or the turn has
\* admitted as many mutations as it may.
Halts(r) ==
    LET c == Current(r) IN
    \/ c.closing \/ c.in = <<>> \/ c.lease \/ c.cold \/ c.muts >= Window \/ at[r].budget = 0
    \/ c.muts > 0 /\ c.in # <<>> /\ Head(c.in).op # "put"

FramesEnd(r) ==
    LET s == CurrentSlot(r) IN
    /\ at[r].pc = "frames" /\ Halts(r)
    /\ conn' = [conn EXCEPT ![r][s].in = IF conn[r][s].closing THEN <<>> ELSE @]
    /\ GoesTo(r, Flushes(s))
    /\ NoFault
    /\ UNCHANGED <<sock, lane, reads, log, backups, mesh, life, server>>

Decoding(r) == at[r].pc = "frames" /\ ~Halts(r)
Decoded(r) == Head(Current(r).in)

\* queue_response of the decoded frame; changed is the connection otherwise.
Answered(r, changed, status, index) ==
    conn' = [conn EXCEPT ![r][CurrentSlot(r)] =
                [changed EXCEPT !.in = Tail(@),
                                !.out = Append(@, Response(Decoded(r).id, status, r, index))]]

\* The drain refuses new work; authorization, the rate limits, the fence of a
\* backup and maintenance pressure refuse a request now and then.  Probes are
\* exempt.
ShuttingDown(r) == life[r] # "run"
RefuseFrame(r) ==
    /\ Decoding(r) /\ Decoded(r).op # "probe" /\ ~Full(Current(r))
    /\ \/ ShuttingDown(r) /\ Answered(r, Current(r), "overloaded", 0) /\ NoFault
       \/ /\ Fault("refuse")
          /\ \E status \in {"overloaded", "permission_denied"} : Answered(r, Current(r), status, 0)
    /\ UNCHANGED <<sock, at, lane, reads, log, backups, mesh, life, server>>

ProcessInit(r) ==
    /\ Decoding(r) /\ Decoded(r).op = "init" /\ ~Full(Current(r)) /\ ~ShuttingDown(r)
    /\ \/ Answered(r, [Current(r) EXCEPT !.init = TRUE], "ok", 0) /\ NoFault
       \/ Answered(r, Current(r), "overloaded", 0) /\ Fault("init")
    /\ UNCHANGED <<sock, at, lane, reads, log, backups, mesh, life, server>>

\* HEALTH, READY and STATS are answered during the drain too.
ProcessProbe(r) ==
    /\ Decoding(r) /\ Decoded(r).op = "probe" /\ ~Full(Current(r))
    /\ Answered(r, Current(r), IF ShuttingDown(r) THEN "internal_error" ELSE "ok", 0)
    /\ NoFault
    /\ UNCHANGED <<sock, at, lane, reads, log, backups, mesh, life, server>>

\* BACKUP runs in the Reactor.  A report that cannot fit is refused before the
\* copy; a failure after it began answers INTERNAL_ERROR.
ProcessBackup(r) ==
    LET c == Current(r)
        id == Decoded(r).id
    IN /\ Decoding(r) /\ Decoded(r).op = "backup" /\ ~Full(c) /\ ~ShuttingDown(r)
       /\ c.bound # 0
       /\ \/ Answered(r, c, "ok", 0) /\ backups' = backups \cup {id} /\ NoFault
          \/ Answered(r, c, "overloaded", 0) /\ UNCHANGED backups /\ Fault("report")
          \/ /\ Answered(r, c, "internal_error", 0) /\ Fault("backup")
             /\ backups' \in {backups, backups \cup {id}}
       /\ UNCHANGED <<sock, at, lane, reads, log, mesh, life, server>>

------------------------------------------------------------------------------
(* GET, PUT and ERASE: dispatch_request and execute_local. *)

\* The index of the mutation that decides key in generation epoch of Worker r.
ValueAt(r, key, epoch) == Max({i \in 1 .. epoch : log[r][i].key = key} \cup {0})

NotOwned(r) == Current(r).bound = 0 \/ Decoded(r).w # r

\* What the state of the connection does not allow: BIND twice or before INIT,
\* an operation before BIND, a key of another Worker.
Disallowed(r) ==
    LET op == Decoded(r).op IN
    \/ op = "bind" /\ (~Current(r).init \/ Current(r).bound # 0)
    \/ op = "backup" /\ Current(r).bound = 0
    \/ op \in {"get", "put"} /\ NotOwned(r)
RefuseDisallowed(r) ==
    /\ Decoding(r) /\ ~Full(Current(r)) /\ ~ShuttingDown(r) /\ Disallowed(r)
    /\ Answered(r, Current(r), IF Decoded(r).op = "bind" THEN "invalid_request"
                               ELSE IF Current(r).bound = 0 THEN "not_bound" ELSE "wrong_owner", 0)
    /\ NoFault
    /\ UNCHANGED <<sock, at, lane, reads, log, backups, mesh, life, server>>

\* A GET waits until its generation covers the connection's own mutations: it
\* adopts a newer one if there is one, and is refused otherwise.
Refreshed(r) == IF Current(r).need <= lane[r].local THEN lane[r] ELSE AdoptReadGeneration(lane[r], reads[r].uses)

Serving(r) == /\ Decoding(r) /\ Decoded(r).op = "get" /\ ~ShuttingDown(r) /\ ~NotOwned(r)

\* A read whose completion the Reactor has collected may still hold its slot.
AdmitsRead(r) ==
    /\ reads[r].outstanding < ReadCap
    /\ Len(reads[r].queue) + Len(reads[r].task) < ReadCap

\* A GET of a volatile Store, or of a value found in memory, or refused
\* because the generation, the disk-read lane or the lease table cannot serve
\* it.  A large value is sent from where it lies: the lease.
GetNow(r) ==
    LET c == Current(r)
        l == Refreshed(r)
        value == ValueAt(r, Decoded(r).key, l.local)
        served == [c EXCEPT !.need = 0]
    IN /\ Serving(r) /\ ~Full(c)
       /\ \/ Answered(r, IF c.need > l.local THEN c ELSE served,
                       IF c.need > l.local THEN "overloaded" ELSE "ok", value)
          \/ /\ c.need <= l.local /\ value # 0
             /\ \/ env.large /\ Answered(r, [served EXCEPT !.lease = TRUE], "ok", value)
                \/ env.durable /\ ~AdmitsRead(r) /\ Answered(r, served, "overloaded", 0)
       /\ lane' = [lane EXCEPT ![r] = l]
       /\ NoFault
       /\ UNCHANGED <<sock, at, reads, log, backups, mesh, life, server>>

\* A cold GET goes to the disk-read thread and pins its epoch meanwhile.
GetCold(r) ==
    LET s == CurrentSlot(r)
        l == Refreshed(r)
        value == ValueAt(r, Decoded(r).key, l.local)
    IN /\ Serving(r) /\ env.durable
       /\ Current(r).need <= l.local /\ value # 0
       /\ AdmitsRead(r)
       /\ reads' = [reads EXCEPT ![r].outstanding = @ + 1, ![r].uses[l.local] = @ + 1, ![r].awake = TRUE,
                     ![r].queue = Append(@, [token |-> <<s, Current(r).gen>>, id |-> Decoded(r).id,
                                             epoch |-> l.local, value |-> value])]
       /\ conn' = [conn EXCEPT ![r][s].in = Tail(@), ![r][s].cold = TRUE, ![r][s].need = 0]
       /\ lane' = [lane EXCEPT ![r] = l]
       /\ NoFault
       /\ UNCHANGED <<sock, at, log, backups, mesh, life, server>>

\* A mutation enters the lane, or is refused at once.
Admits(r) == ~lane[r].failed /\ lane[r].outstanding < QueueCap
ProcessMutation(r) ==
    LET s == CurrentSlot(r) IN
    /\ Decoding(r) /\ Decoded(r).op = "put" /\ ~ShuttingDown(r) /\ ~NotOwned(r)
    /\ \/ /\ Admits(r)
          /\ lane' = [lane EXCEPT ![r].outstanding = @ + 1,
                      ![r].queue = Append(@, [token |-> <<s, Current(r).gen>>, id |-> Decoded(r).id,
                                              key |-> Decoded(r).key])]
          /\ conn' = [conn EXCEPT ![r][s].in = Tail(@), ![r][s].muts = @ + 1]
          /\ GoesTo(r, Decodes(s, at[r].budget - 1))
       \/ /\ ~Admits(r) /\ ~Full(Current(r))
          /\ Answered(r, Current(r), "overloaded", 0)
          /\ UNCHANGED <<lane, at>>
    /\ NoFault
    /\ UNCHANGED <<sock, reads, log, backups, mesh, life, server>>

\* A response that is due at once does not fit under the high watermark, or
\* cannot be allocated.
QueueFails(r) ==
    LET c == Current(r)
        h == Decoded(r)
    IN /\ Decoding(r)
       /\ h.op = "put" => ShuttingDown(r) \/ NotOwned(r) \/ ~Admits(r)
       /\ (Full(c) /\ NoFault) \/ Fault("queue")
       /\ IsolateInputFailure(r, CurrentSlot(r))
       /\ backups' \in {backups, IF h.op = "backup" /\ c.bound # 0 /\ ~ShuttingDown(r)
                                 THEN backups \cup {h.id} ELSE backups}
       /\ UNCHANGED <<lane, reads, log, mesh, life, server>>

------------------------------------------------------------------------------
(* BIND_WORKER: bind_connection, transfer_connection and the mesh. *)

Binding(r) == /\ Decoding(r) /\ Decoded(r).op = "bind" /\ ~Full(Current(r)) /\ ~ShuttingDown(r)
              /\ Current(r).init /\ Current(r).bound = 0

BindHere(r) ==
    /\ Binding(r) /\ Decoded(r).w = r
    /\ Answered(r, [Current(r) EXCEPT !.bound = r], "ok", 0)
    /\ GoesTo(r, Flushes(CurrentSlot(r)))
    /\ NoFault
    /\ UNCHANGED <<sock, lane, reads, log, backups, mesh, life, server>>

\* The connection with its buffered OK, as it is handed over; late if the mesh
\* has stopped accepting since try_handoff looked.
Handoff(r) ==
    LET c == Current(r)
        h == Decoded(r)
    IN [sock |-> c.sock, in |-> Tail(c.in), out |-> Append(c.out, Response(h.id, "ok", h.w, 0)),
        bound |-> h.w, eof |-> c.eof, id |-> h.id, late |-> ~server.accepting]

\* try_handoff: the cell is taken, and the slot is free again.
HandsOver(r) ==
    /\ Len(mesh[Decoded(r).w]) < MeshCap
    /\ mesh' = [mesh EXCEPT ![Decoded(r).w] = Append(@, Handoff(r))]
    /\ conn' = Cleared(conn, r, CurrentSlot(r))
    /\ GoesTo(r, Loop)
    /\ UNCHANGED sock

\* No handoff: OVERLOADED takes the place of the buffered OK, and the
\* connection is closed once it is flushed.
KeepsAndRefuses(r) ==
    LET s == CurrentSlot(r) IN
    /\ conn' = [conn EXCEPT ![r][s].in = <<>>, ![r][s].closing = TRUE,
                            ![r][s].out = <<Response(Decoded(r).id, "overloaded", Decoded(r).w, 0)>>]
    /\ GoesTo(r, Flushes(s))
    /\ UNCHANGED <<sock, mesh>>

\* reject_orphaned_handoff: OVERLOADED if the socket takes it, then the socket
\* is closed.
RejectOrphan(ss, i, w, id) ==
    LET told == IF ~ss[i].cut /\ ss[i].client /\ Len(ss[i].down) < Room
                THEN [ss EXCEPT ![i].down = Append(@, Response(id, "overloaded", w, 0))] ELSE ss
    IN ServerClosed(told, i)

\* try_handoff has failed: the socket goes back to the poller, or is rejected.
HandoffFails(r) ==
    \/ NoFault /\ KeepsAndRefuses(r)
    \/ /\ Fault("poller")
       /\ conn' = Cleared(conn, r, CurrentSlot(r))
       /\ sock' = RejectOrphan(sock, Current(r).sock, Decoded(r).w, Decoded(r).id)
       /\ GoesTo(r, Loop)
       /\ UNCHANGED mesh

\* transfer_connection: the socket leaves the poller.  try_handoff looks at
\* accepting ...
BindAway(r) ==
    /\ Binding(r) /\ Decoded(r).w # r
    /\ \/ server.accepting /\ NoFault /\ GoesTo(r, [at[r] EXCEPT !.pc = "push"]) /\ UNCHANGED <<conn, sock, mesh>>
       \/ ~server.accepting /\ HandoffFails(r)
       \/ Fault("poller") /\ KeepsAndRefuses(r)
    /\ UNCHANGED <<lane, reads, log, backups, life, server>>

\* ... and pushes, whatever has happened in between.
PushHandoff(r) ==
    /\ at[r].pc = "push"
    /\ (HandsOver(r) /\ NoFault) \/ (Len(mesh[Decoded(r).w]) >= MeshCap /\ HandoffFails(r))
    /\ UNCHANGED <<lane, reads, log, backups, life, server>>

\* process_handoffs and adopt_connection.
AdoptHandoff(r) ==
    /\ AtLoop(r) /\ mesh[r] # <<>>
    /\ LET h == Head(mesh[r]) IN
       \/ /\ FreeSlots(r) # {} /\ NoFault
          /\ LET s == Min(FreeSlots(r)) IN
             /\ conn' = [conn EXCEPT ![r][s] =
                            [NewConnection(h.sock, @.gen) EXCEPT !.in = h.in, !.out = h.out, !.init = TRUE,
                                                                 !.bound = h.bound, !.eof = h.eof]]
             /\ GoesTo(r, Flushes(s))
          /\ UNCHANGED sock
       \/ /\ (FreeSlots(r) = {} /\ NoFault) \/ Fault("poller")
          /\ sock' = RejectOrphan(sock, h.sock, h.bound, h.id)
          /\ UNCHANGED <<conn, at>>
    /\ mesh' = [mesh EXCEPT ![r] = Tail(@)]
    /\ UNCHANGED <<lane, reads, log, backups, life, server>>

------------------------------------------------------------------------------
(* The Writer and the disk-read thread of a Worker, and their completions. *)

Completion(m, status, epoch) == [token |-> m.token, id |-> m.id, status |-> status, epoch |-> epoch]

\* The Writer takes a mutation into the Store; after the drain deadline it
\* refuses it instead.
WriterTakes(r) ==
    /\ lane[r].busy = <<>> /\ lane[r].queue # <<>>
    /\ LET m == Head(lane[r].queue) IN
       lane' = [lane EXCEPT ![r].queue = Tail(@),
                ![r].busy = IF server.expired THEN @ ELSE <<Completion(m, "entered", 0), m.key>>,
                ![r].done = IF server.expired THEN Append(@, Completion(m, "overloaded", 0)) ELSE @]
    /\ NoFault
    /\ UNCHANGED <<conn, at, reads, log, backups, mesh, life, server, sock>>

\* The Store applies it and the Writer publishes; or the Store refuses it; or
\* fails, and nobody knows whether it was applied.
WriterExecutes(r) ==
    LET m == lane[r].busy[1]
        applied == [log EXCEPT ![r] = Append(@, [id |-> m.id, key |-> lane[r].busy[2]])]
        size == Len(log[r]) + 1
        decided(status, epoch) == [lane[r] EXCEPT !.busy[1].status = status, !.busy[1].epoch = epoch]
    IN /\ lane[r].busy # <<>> /\ m.status = "entered"
       /\ \/ /\ NoFault /\ log' = applied
             /\ lane' = [lane EXCEPT ![r] = [decided("ok", size) EXCEPT !.published = size]]
          \/ /\ Fault("store")
             /\ \/ log' = log /\ lane' = [lane EXCEPT ![r] = decided("overloaded", 0)]
                \/ /\ log' \in {log, applied}
                   /\ lane' = [lane EXCEPT ![r] = [decided("internal_error", 0) EXCEPT !.failed = TRUE,
                                                   !.published = Len(log'[r])]]
       /\ UNCHANGED <<conn, at, reads, backups, mesh, life, server, sock>>

WriterCompletes(r) ==
    /\ lane[r].busy # <<>> /\ lane[r].busy[1].status # "entered"
    /\ lane' = [lane EXCEPT ![r].busy = <<>>, ![r].done = Append(@, lane[r].busy[1])]
    /\ NoFault
    /\ UNCHANGED <<conn, at, reads, log, backups, mesh, life, server, sock>>

\* DiskReadExecutor::run.  Without a task the thread leaves if the lane stops,
\* else loads the signal, looks again and sleeps until the signal changes.
TakesRead(r) == [reads[r] EXCEPT !.queue = Tail(@), !.task = <<Head(reads[r].queue)>>, !.pc = "read"]
ReadsAt(r, pc) == [reads[r] EXCEPT !.pc = pc]
DiskWait(r) ==
    /\ \/ /\ reads[r].pc \in {"pop", "look"} /\ reads[r].queue # <<>>
          /\ reads' = [reads EXCEPT ![r] = TakesRead(r)]
       \/ /\ reads[r].pc = "pop" /\ reads[r].queue = <<>>
          /\ reads' = [reads EXCEPT ![r] = ReadsAt(r, "empty")]
       \/ /\ reads[r].pc = "empty"
          /\ reads' = [reads EXCEPT ![r] = IF reads[r].stopping THEN ReadsAt(r, "exit")
                                           ELSE [ReadsAt(r, "look") EXCEPT !.awake = FALSE]]
       \/ /\ reads[r].pc = "look" /\ reads[r].queue = <<>>
          /\ reads' = [reads EXCEPT ![r] = ReadsAt(r, IF reads[r].stopping THEN "pop" ELSE "parked")]
       \/ /\ reads[r].pc = "parked" /\ reads[r].awake
          /\ reads' = [reads EXCEPT ![r] = ReadsAt(r, "pop")]
    /\ NoFault
    /\ UNCHANGED <<conn, at, lane, log, backups, mesh, life, server, sock>>

\* The read and its completion.
DiskRead(r) ==
    /\ reads[r].pc = "read"
    /\ LET task == reads[r].task[1]
           finished(status) == [token |-> task.token, id |-> task.id, epoch |-> task.epoch,
                                status |-> status, value |-> IF status = "ok" THEN task.value ELSE 0]
       IN \E status \in {"ok", "internal_error"} :
          /\ IF status = "ok" THEN NoFault ELSE Fault("disk")
          /\ reads' = [reads EXCEPT ![r].pc = "recycle", ![r].done = Append(@, finished(status))]
    /\ UNCHANGED <<conn, at, lane, log, backups, mesh, life, server, sock>>

\* The slot comes back after the completion.
Recycle(r) ==
    /\ reads[r].pc = "recycle"
    /\ reads' = [reads EXCEPT ![r] = [ReadsAt(r, "pop") EXCEPT !.task = <<>>]]
    /\ NoFault
    /\ UNCHANGED <<conn, at, lane, log, backups, mesh, life, server, sock>>

\* process_disk_read_completions: the pin is released, then the connection, if
\* it is still the same one, gets its answer.
DiskReadCompletes(r) ==
    LET done == Head(reads[r].done)
        s == done.token[1]
        c == conn[r][s]
        released == [reads[r] EXCEPT !.done = Tail(@), !.outstanding = @ - 1, !.uses[done.epoch] = @ - 1]
    IN /\ AtLoop(r) /\ reads[r].done # <<>>
       /\ reads' = [reads EXCEPT ![r] = released]
       /\ lane' = [lane EXCEPT ![r] = AdoptReadGeneration(@, released.uses)]
       /\ \/ ~Finds(r, done.token) /\ NoFault /\ UNCHANGED <<conn, sock, at>>
          \/ /\ Finds(r, done.token)
             /\ \/ (IF Full(c) THEN NoFault ELSE Fault("queue")) /\ Closes(r, s)
                \/ /\ ~Full(c) /\ NoFault
                   /\ conn' = [conn EXCEPT ![r][s].cold = FALSE,
                               ![r][s].out = Append(@, Response(done.id, done.status, r, done.value))]
                   /\ GoesTo(r, Flushes(s))
                   /\ UNCHANGED sock
       /\ UNCHANGED <<log, backups, mesh, life, server>>

\* process_mutation_completions: adopt, then answer; what is buffered behind
\* the mutation is decoded before the answer is flushed.
MutationCompletes(r) ==
    LET done == Head(lane[r].done)
        s == done.token[1]
        c == conn[r][s]
        accounted == [lane[r] EXCEPT !.done = Tail(@), !.outstanding = @ - 1]
    IN /\ AtLoop(r) /\ lane[r].done # <<>>
       /\ lane' = [lane EXCEPT ![r] = AdoptReadGeneration(accounted, reads[r].uses)]
       /\ \/ ~Finds(r, done.token) /\ NoFault /\ UNCHANGED <<conn, sock, at>>
          \/ /\ Finds(r, done.token)
             /\ \/ (IF Full(c) THEN NoFault ELSE Fault("queue")) /\ Closes(r, s)
                \/ /\ ~Full(c) /\ NoFault
                   /\ conn' = [conn EXCEPT ![r][s].muts = @ - 1,
                               ![r][s].need = IF done.status = "ok" THEN Max({@, done.epoch}) ELSE @,
                               ![r][s].out = Append(@, Response(done.id, done.status, r, 0))]
                   /\ GoesTo(r, IF c.out = <<>> /\ c.in # <<>> THEN Decodes(s, 1) ELSE Flushes(s))
                   /\ UNCHANGED sock
       /\ UNCHANGED <<reads, log, backups, mesh, life, server>>

------------------------------------------------------------------------------
(* Shutdown. *)

\* The mesh goes on accepting.
RequestStopOnly ==
    /\ env.stop /\ ~server.stop
    /\ server' = [server EXCEPT !.stop = TRUE]
    /\ NoFault
    /\ UNCHANGED <<conn, at, lane, reads, log, backups, mesh, life, sock>>

\* The mesh refuses handoffs before any executor observes the stop.
RequestStop ==
    /\ env.stop /\ ~server.stop
    /\ server' = [server EXCEPT !.accepting = FALSE, !.stop = TRUE]
    /\ NoFault
    /\ UNCHANGED <<conn, at, lane, reads, log, backups, mesh, life, sock>>

\* run_once fails: the executor leaves everything as it is and stops the server.
ExecutorFails(r) ==
    /\ AtLoop(r) /\ Fault("executor")
    /\ life' = [life EXCEPT ![r] = "failed"]
    /\ server' = [server EXCEPT !.accepting = FALSE, !.stop = TRUE]
    /\ UNCHANGED <<conn, at, lane, reads, log, backups, mesh, sock>>

\* stop_accepting: listeners close, and with them what waits to be accepted.
BeginDrain(r) ==
    /\ AtLoop(r) /\ life[r] = "run" /\ server.stop
    /\ life' = [life EXCEPT ![r] = "drain"]
    /\ sock' = AllServerClosed(sock, {i \in Sockets : sock[i].server = "backlog" /\ sock[i].listener = r})
    /\ NoFault
    /\ UNCHANGED <<conn, at, lane, reads, log, backups, mesh, server>>

IdleSlots(r) == {s \in Slots : /\ Live(r, s) /\ ~InFlight(conn[r][s])
                               /\ conn[r][s].out = <<>> /\ conn[r][s].in = <<>>}
WithoutSlots(r, S) == [conn EXCEPT ![r] = [s \in Slots |-> IF s \in S THEN NewConnection(NoSocket, @[s].gen + 1)
                                                           ELSE @[s]]]

\* close_idle_connections; the thread leaves its loop once nothing is left.
IdleForShutdown(r, cs) ==
    /\ \A s \in Slots : cs[r][s].sock = NoSocket
    /\ reads[r].outstanding = 0 /\ lane[r].outstanding = 0 /\ mesh[r] = <<>>
DrainTurn(r) ==
    /\ AtLoop(r) /\ life[r] = "drain"
    /\ IdleSlots(r) # {} \/ IdleForShutdown(r, conn)
    /\ conn' = WithoutSlots(r, IdleSlots(r))
    /\ sock' = AllServerClosed(sock, {conn[r][s].sock : s \in IdleSlots(r)})
    /\ life' = [life EXCEPT ![r] = IF IdleForShutdown(r, conn') THEN "leave" ELSE @]
    /\ NoFault
    /\ UNCHANGED <<at, lane, reads, log, backups, mesh, server>>

\* The drain deadline: what no Writer has taken is answered OVERLOADED.
DrainDeadline(r) ==
    /\ env.deadline /\ AtLoop(r) /\ life[r] = "drain"
    /\ life' = [life EXCEPT ![r] = "flush"]
    /\ server' = [server EXCEPT !.expired = TRUE]
    /\ lane' = [q \in DOMAIN lane |->
                  [lane[q] EXCEPT !.queue = <<>>,
                                  !.done = @ \o [n \in DOMAIN lane[q].queue |->
                                                   Completion(lane[q].queue[n], "overloaded", 0)]]]
    /\ NoFault
    /\ UNCHANGED <<conn, at, reads, log, backups, mesh, sock>>

\* close_all_connections after a bounded flush: each socket gets what it takes.
CloseAllConnections(r) ==
    LET live == {s \in Slots : Live(r, s)}
        flushed == FoldSet(LAMBDA s, ss : Flushed(ss, conn[r][s]), sock, live)
    IN /\ AtLoop(r) /\ life[r] = "flush"
       /\ conn' = WithoutSlots(r, live)
       /\ sock' = AllServerClosed(flushed, {conn[r][s].sock : s \in live})
       /\ life' = [life EXCEPT ![r] = "leave"]
       /\ NoFault
       /\ UNCHANGED <<at, lane, reads, log, backups, mesh, server>>

\* reject_pending_handoffs: what came after the last look at the mesh; then the
\* thread ends.
RejectPendingHandoffs(r) ==
    /\ life[r] = "leave"
    /\ \/ /\ mesh[r] = <<>> /\ life' = [life EXCEPT ![r] = "exit"]
          /\ UNCHANGED <<sock, mesh>>
       \/ /\ mesh[r] # <<>> /\ mesh' = [mesh EXCEPT ![r] = Tail(@)]
          /\ LET h == Head(mesh[r]) IN sock' = RejectOrphan(sock, h.sock, h.bound, h.id)
          /\ UNCHANGED life
    /\ NoFault
    /\ UNCHANGED <<conn, at, lane, reads, log, backups, server>>

\* join: the executors have ended and the Writers are drained; then the
\* disk-read threads are stopped ...
Joined ==
    /\ \A r \in Reactors : life[r] \in {"exit", "failed"}
    /\ \A r \in Reactors : lane[r].queue = <<>> /\ lane[r].busy = <<>>
StopDiskReads ==
    /\ Joined /\ \E r \in Reactors : ~reads[r].stopping
    /\ reads' = [r \in DOMAIN reads |-> [reads[r] EXCEPT !.stopping = TRUE, !.awake = TRUE]]
    /\ NoFault
    /\ UNCHANGED <<conn, at, lane, log, backups, mesh, life, server, sock>>

\* ... and joined; the destructor closes every socket the server still owns.
Teardown ==
    /\ ~server.gone /\ Joined /\ \A r \in Reactors : reads[r].pc = "exit"
    /\ server' = [server EXCEPT !.gone = TRUE]
    /\ sock' = AllServerClosed(sock, {i \in Sockets : sock[i].server \in {"open", "backlog"}})
    /\ conn' = [r \in DOMAIN conn |-> [s \in Slots |-> IF Live(r, s) THEN NewConnection(NoSocket, conn[r][s].gen + 1)
                                                        ELSE conn[r][s]]]
    /\ mesh' = [r \in DOMAIN mesh |-> <<>>]
    /\ NoFault
    /\ UNCHANGED <<at, lane, reads, log, backups, life>>

------------------------------------------------------------------------------
ReactorStep(r) ==
    \/ FramesEnd(r) \/ RefuseFrame(r) \/ ProcessInit(r) \/ ProcessProbe(r) \/ ProcessBackup(r) \/ RefuseDisallowed(r)
    \/ GetNow(r) \/ GetCold(r) \/ ProcessMutation(r) \/ QueueFails(r)
    \/ BindHere(r) \/ BindAway(r) \/ PushHandoff(r) \/ AdoptHandoff(r)
    \/ Write(r) \/ DiskReadCompletes(r) \/ MutationCompletes(r)
    \/ BeginDrain(r) \/ DrainTurn(r) \/ CloseAllConnections(r) \/ RejectPendingHandoffs(r)
    \/ \E i \in Sockets : Accept(r, i)
    \/ \E s \in Slots : ReadInput(r, s) \/ ReadEnd(r, s) \/ WriteReady(r, s)

WriterThread(r) == WriterTakes(r) \/ WriterExecutes(r) \/ WriterCompletes(r)
DiskReadThread(r) == DiskWait(r) \/ DiskRead(r) \/ Recycle(r)

ServerStep ==
    \/ \E r \in Reactors :
        \/ ReactorStep(r) \/ WriterThread(r) \/ DiskReadThread(r) \/ ExecutorFails(r) \/ DrainDeadline(r)
        \/ \E s \in Slots : Timeout(r, s)
    \/ RequestStop \/ StopDiskReads \/ Teardown
=============================================================================

-------------------------------- MODULE Wire --------------------------------
(***************************************************************************)
(* What clients and Reactors share: the stream sockets of the operating    *)
(* system and the frames of the wire protocol.  A socket carries whole     *)
(* frames: the bytes of a frame that arrives only in part are never acted  *)
(* on, so they are left out.                                               *)
(***************************************************************************)
EXTENDS Integers, Sequences, FiniteSets

CONSTANTS
    MaxSockets,   \* stream sockets that exist at one time
    Room,         \* responses the buffers of a socket hold
    Environments  \* see ServiceAssumption

VARIABLES
    env,     \* the scenario
    faults,  \* faults that may still happen
    sock     \* the sockets

Sockets == 1 .. MaxSockets
NoSocket == 0

\* An event the environment may cause, a bounded number of times.
Fault(kind) == kind \in env.faults /\ faults > 0 /\ faults' = faults - 1
NoFault == UNCHANGED faults

\* Frames.  id is the request id; op one of init, bind, get, put (a PUT or an
\* ERASE), probe (HEALTH, READY, STATS) and backup; w the Worker that
\* owns the key, or that BIND_WORKER names.
Frame(id, op, w, key) == [id |-> id, op |-> op, w |-> w, key |-> key]

\* A response: its status and, for a GET, the index in the Worker's log of the
\* mutation whose value it carries (0: not found).
Response(id, status, owner, at) == [id |-> id, status |-> status, owner |-> owner, at |-> at]

\* Both ends of a socket: unread frames and responses, whether the client's
\* end is open, the state of the server's end, the Reactor whose listener it
\* reached, and whether the network has cut it.
FreeSocket == [up |-> <<>>, down |-> <<>>, client |-> FALSE, server |-> "free", listener |-> 0, cut |-> FALSE]

\* A socket both ends of which are closed is gone.
Settled(s) == IF ~s.client /\ s.server = "closed" THEN FreeSocket ELSE s

Fresh(i) == /\ sock[i].server = "free" /\ \A j \in 1 .. i - 1 : sock[j].server # "free"

\* connect(): the socket waits in the backlog of Reactor r's listener; frame is
\* what the client sends first.
Connected(i, r, frame) ==
    [sock EXCEPT ![i] = [FreeSocket EXCEPT !.up = <<frame>>, !.client = TRUE, !.server = "backlog",
                                           !.listener = r]]

ClientClosed(ss, i) == [ss EXCEPT ![i] = Settled([ss[i] EXCEPT !.client = FALSE, !.down = <<>>])]
AllServerClosed(ss, I) ==
    [i \in Sockets |-> IF i \in I THEN Settled([ss[i] EXCEPT !.server = "closed", !.up = <<>>]) ELSE ss[i]]
ServerClosed(ss, i) == AllServerClosed(ss, {i})

\* The network cuts a connection: what is in flight is lost, both ends learn it
\* when they next use it.
Cut(i) ==
    /\ sock[i].client /\ sock[i].server = "open" /\ ~sock[i].cut
    /\ Fault("cut")
    /\ sock' = [sock EXCEPT ![i].up = <<>>, ![i].down = <<>>, ![i].cut = TRUE]
=============================================================================

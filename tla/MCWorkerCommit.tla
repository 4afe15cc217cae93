--------------------------- MODULE MCWorkerCommit ---------------------------
(***************************************************************************)
(* Instances of WorkerCommit for TLC.                                      *)
(***************************************************************************)
EXTENDS WorkerCommit, TLC

Env(mode, n, route, calls, cap, sizes, ops) ==
    [mode |-> mode, calls |-> calls, workers |-> n, route |-> route, cap |-> cap, sizes |-> sizes, ops |-> ops,
     writer |-> FALSE, flush |-> FALSE, close |-> FALSE, steps |-> {}, faults |-> 0]
All == {"hook", "write", "commit", "flush", "account", "space", "seal", "manifest"}

\* The clients, in an order fixed by the model values.
First == CHOOSE c \in Clients : TRUE
One == [c \in Clients |-> {1}]
Solo == [c \in Clients |-> IF c = First THEN {1} ELSE {}]
Each == [c \in Clients |-> IF c = First THEN {1} ELSE {2}]

\* One Worker: producers share batches that the coordinator commits.
Shared == [Env("group", 1, One, 3, 8, {1}, {"put"})
           EXCEPT !.steps = {"write", "flush", "account"}, !.faults = 1]
\* One Worker, one producer, Segments that fill up.
Rotating == [Env("group", 1, Solo, 3, 2, {1, 2}, {"put"})
             EXCEPT !.steps = All, !.faults = 1, !.close = TRUE]
\* flush and close beside the producers.
Flushing == [Env("group", 1, One, 3, 8, {1}, {"put"}) EXCEPT !.flush = TRUE, !.close = TRUE]
\* The paired Writer's batches.
Writing == [Env("group", 1, Solo, 3, 2, {1}, {"put", "erase"})
            EXCEPT !.writer = TRUE, !.steps = {"hook", "flush", "account", "seal"}, !.faults = 1]
\* Two Workers contend for the publication lease.
Contending == [Env("sync", 2, Each, 4, 1, {1}, {"put"}) EXCEPT !.steps = All, !.faults = 1]
\* Two Workers, each producer commits its own batches.
Closing == [Env("group", 2, Each, 3, 1, {1}, {"put"}) EXCEPT !.flush = TRUE]
MCEnvironments == {Shared, Rotating, Flushing, Writing, Contending, Closing}

\* Producers of one Worker meet the end of a Segment together.
MCBoundary == {Env("group", 1, One, 3, 2, {1, 2}, {"put"})}
\* A flush fails while a producer of another Worker waits for its batch.
MCOtherWorker == {[Env("group", 2, Each, 2, 8, {1}, {"put"})
                   EXCEPT !.steps = {"flush"}, !.faults = 1]}
=============================================================================

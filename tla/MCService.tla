------------------------------ MODULE MCService ------------------------------
(***************************************************************************)
(* Instances of Service: one scenario for each way its parts interact.     *)
(***************************************************************************)
EXTENDS Service

Put(w, key) == [op |-> "put", w |-> w, key |-> key]
Get(w, key) == [op |-> "get", w |-> w, key |-> key]
Other(op) == [op |-> op, w |-> 1, key |-> 0]
Mutate(q) == [mode |-> "mutate", reqs |-> <<q>>]
Read(q) == [mode |-> "read", reqs |-> <<q>>]
Pipe(qs) == [mode |-> "pipe", reqs |-> qs]
CloseClient == [mode |-> "close", reqs |-> <<>>]

Calm == [reactors |-> 1, slots |-> 2, input |-> 3, script |-> <<<<>>, <<>>>>, shared |-> FALSE,
         durable |-> FALSE, large |-> FALSE, stop |-> FALSE, deadline |-> FALSE, faults |-> {}, count |-> 0]

\* A pipeline in the mutation window, and another connection's mutation.
PipelineScenario == [Calm EXCEPT !.script = <<<<Pipe(<<Put(1, 1), Put(1, 1), Get(1, 1)>>)>>,
                                             <<Mutate(Put(1, 1)), Read(Get(1, 1))>>>>]

\* Cold reads: their pins, their timeouts, and the connection gone meanwhile.
ColdScenario == [Calm EXCEPT !.durable = TRUE, !.faults = {"disk", "slow", "queue"}, !.count = 1,
                 !.script = <<<<Pipe(<<Put(1, 1), Get(1, 1)>>)>>, <<Mutate(Put(1, 1))>>>>]
\* Two of them, for one slot of the lane.
ColdReadsScenario == [ColdScenario EXCEPT !.script[2] = <<Read(Get(1, 1))>>]

\* Values sent from where they lie, to a slow reader.
LargeScenario == [Calm EXCEPT !.large = TRUE, !.faults = {"queue"}, !.count = 1,
                  !.script = <<<<Pipe(<<Put(1, 1), Get(1, 1), Get(1, 1)>>)>>, <<Mutate(Put(1, 1))>>>>]

\* Whatever can fail between a call and its outcome, twice.
RetryScenario == [Calm EXCEPT !.count = 2,
                  !.faults = {"cut", "send", "deadline", "connect", "accept", "idle", "slow", "refuse",
                              "init", "store", "queue", "route"},
                  !.script = <<<<Mutate(Put(1, 1)), Read(Get(1, 1))>>, <<>>>>]
WindowFaultScenario == [Calm EXCEPT !.count = 1,
                        !.faults = {"send", "slow", "store"},
                        !.script = <<<<Pipe(<<Put(1, 1), Put(1, 1), Get(1, 1)>>)>>, <<Mutate(Put(1, 1))>>>>]

\* Connections are handed over: two to one Worker, and those of a batch.
HandoffScenario == [Calm EXCEPT !.reactors = 2, !.slots = 1, !.faults = {"poller"}, !.count = 1,
                    !.script = <<<<Mutate(Put(2, 1))>>, <<Mutate(Put(2, 1))>>>>]
BatchScenario == [Calm EXCEPT !.reactors = 2, !.faults = {"poller", "accept"}, !.count = 1,
                  !.script = <<<<Pipe(<<Put(1, 1), Put(2, 1), Get(2, 1)>>)>>, <<>>>>]

\* Shutdown: while mutations are queued, and while a connection is handed over.
StopScenario == [Calm EXCEPT !.stop = TRUE, !.deadline = TRUE, !.faults = {"executor"}, !.count = 1,
                 !.script = <<<<Pipe(<<Put(1, 1), Put(1, 1)>>)>>, <<Mutate(Put(1, 1))>>>>]
StopHandoffScenario == [Calm EXCEPT !.reactors = 2, !.stop = TRUE, !.deadline = TRUE, !.faults = {"executor", "poller"},
                        !.count = 1, !.script = <<<<Mutate(Put(2, 1))>>, <<>>>>]

\* Shutdown while a cold read is under way.
ColdStopScenario == [Calm EXCEPT !.durable = TRUE, !.stop = TRUE, !.deadline = TRUE, !.faults = {"executor", "slow"},
                     !.count = 1, !.script = <<<<Pipe(<<Put(1, 1), Get(1, 1)>>)>>, <<>>>>]

\* A handoff beside a stop, for NoHandoffIsLeft.
LateEnvironments == {StopHandoffScenario}

\* A pipeline that does not fit in the input buffer.
InputScenario == [Calm EXCEPT !.input = 2, !.script = <<<<Pipe(<<Put(1, 1), Put(1, 1), Get(1, 1)>>)>>, <<>>>>]

BackupScenario == [Calm EXCEPT !.faults = {"report", "backup", "cut", "queue", "refuse", "deadline"}, !.count = 2,
                   !.script = <<<<Read(Other("backup")), Read(Other("probe"))>>, <<>>>>]

\* Two threads share a Client that one of them closes.
SharedScenario == [Calm EXCEPT !.shared = TRUE,
                   !.script = <<<<Mutate(Put(1, 1)), Mutate(Put(1, 1))>>, <<Mutate(Put(1, 1)), CloseClient, Read(Get(1, 1))>>>>]

\* The client runs out of memory while it waits for the answer.
AllocScenario == [Calm EXCEPT !.faults = {"alloc"}, !.count = 1, !.script = <<<<Mutate(Put(1, 1))>>, <<>>>>]
AllocEnvironments == {AllocScenario}

MCEnvironments ==
    {PipelineScenario, ColdScenario, ColdReadsScenario, LargeScenario, RetryScenario, WindowFaultScenario, HandoffScenario,
     BatchScenario, StopScenario, StopHandoffScenario, ColdStopScenario, InputScenario,
     BackupScenario, SharedScenario}
=============================================================================

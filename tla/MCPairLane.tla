----------------------------- MODULE MCPairLane -----------------------------
(***************************************************************************)
(* PairLane for TLC.                                                       *)
(***************************************************************************)
EXTENDS PairLane

CONSTANTS a, b, r1, k1, k2, nobody

Put(k) == <<"put", k>>
Erase(k) == <<"erase", k>>

\* A volatile Store that one thread uses, while another reads, and closes.
Alone == [durable |-> FALSE, reads |-> TRUE, backup |-> FALSE, close |-> TRUE, callers |-> {a},
          batches |-> {<<Put(k1)>>, <<Erase(k1)>>, <<Put(k2), Put(k1)>>}, calls |-> 3,
          faults |-> 0, kinds |-> {}]

\* Two threads whose calls the lane combines.
Combined == [Alone EXCEPT !.reads = FALSE, !.close = FALSE, !.callers = {a, b}]

\* One fault anywhere in a volatile lane.
Faulty == [Alone EXCEPT !.reads = FALSE, !.faults = 1,
                        !.kinds = {"admission", "refused", "sticky", "publish", "published", "merge",
                                   "other_lane"}]

\* A Store call that throws, alone in its chunk.
Throwing == [Alone EXCEPT !.batches = {<<Put(k1)>>, <<Erase(k1)>>}, !.faults = 1, !.kinds = {"thrown"}]

\* A durable_sync Store: read and closed, ...
Durable == [Alone EXCEPT !.durable = TRUE]

\* ... with up to two faults, ...
DurableFaulty == [Faulty EXCEPT !.durable = TRUE, !.faults = 2,
                  !.kinds = {"refused", "thrown", "late_error", "indeterminate", "capture", "publish",
                             "published", "snapshot", "merge", "other_lane"}]

\* ... and backed up while it is used.
BackedUp == [Combined EXCEPT !.durable = TRUE, !.backup = TRUE]

\* Two threads, one call each.
TwoCalls == [Combined EXCEPT !.batches = {<<Put(k1)>>}, !.calls = 2]

\* One call of two mutations to a durable Store that is then closed.
Closing == [Durable EXCEPT !.reads = FALSE, !.batches = {<<Put(k1), Put(k2)>>}, !.calls = 2]

CloseEnvironments == {Closing}
WakeupEnvironments == {TwoCalls}

PassEnvironments == {Alone, Combined, Faulty, Throwing, Durable, DurableFaulty, BackedUp}
=============================================================================

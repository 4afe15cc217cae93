----------------------------- MODULE MCWriterLane -----------------------------
(***************************************************************************)
(* WriterLane for TLC.                                                     *)
(***************************************************************************)
EXTENDS WriterLane

CONSTANTS a1, a2, a3, s1, s2, k1, k2

KeyOf == a1 :> k1 @@ a2 :> k1 @@ a3 :> k2 @@ s1 :> k1 @@ s2 :> k2
OpOf == a1 :> "put" @@ a2 :> "erase" @@ a3 :> "put" @@ s1 :> "put" @@ s2 :> "erase"

\* Three submissions into two slots, beside a synchronous call, while a drain
\* deadline may pass and the server stops.
Busy == [mode |-> "group", async |-> {a1, a2, a3}, sync |-> {s1}, faults |-> 0, kinds |-> {},
         expiry |-> FALSE, bytes |-> FALSE, refresh |-> FALSE, deadline |-> TRUE, stop |-> "served"]

\* Tasks that expire in the queue or do not fit in a batch, and refreshes.
Choosy == [Busy EXCEPT !.expiry = TRUE, !.bytes = TRUE, !.sync = {}, !.deadline = FALSE, !.refresh = TRUE]

\* Two synchronous calls that share a turn or follow each other.
Turns(mode) == [Busy EXCEPT !.mode = mode, !.async = {a1}, !.sync = {s1, s2}, !.deadline = FALSE]

\* Up to two faults anywhere, per mode.
Faulty(mode) == [Busy EXCEPT !.mode = mode, !.async = {a1, a2}, !.sync = {s1}, !.faults = 2,
                             !.kinds = FaultKinds, !.deadline = FALSE, !.stop = "never"]
FaultyTurns(mode) == [Faulty(mode) EXCEPT !.async = {}, !.sync = {s1, s2}]

\* A turn with two mutations of one key, and refreshes, that meet a fault.
OneKey == [FaultyTurns("group") EXCEPT !.sync = {s1, a2}]
Refreshing == [Faulty("group") EXCEPT !.async = {a1}, !.sync = {}, !.faults = 1, !.refresh = TRUE]

PassEnvironments ==
    {Busy, Choosy, OneKey, Refreshing} \cup UNION {{Turns(mode), Faulty(mode), FaultyTurns(mode)} : mode \in {"volatile", "single", "group"}}

\* The owner stops the lane while the Reactor still waits for an answer.
DrainEnvironments == {[Busy EXCEPT !.async = {a1}, !.sync = {}, !.deadline = FALSE, !.stop = "any"]}
=============================================================================

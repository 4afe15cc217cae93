-------------------------- MODULE MCSegmentFile --------------------------
(* Small instances of SegmentFile for TLC.  A behaviour lives in one      *)
(* scenario: what its owner asks of the file and how it may crash.        *)
EXTENDS SegmentFile

CONSTANT Scenarios
VARIABLE scenario

MCSyncs == {"immediate", "deferred"}
MCKinds == {"power", "kill"}

\* durable_sync with rotation: every commit is synchronised, power is lost.
Immediate == [syncs |-> {"immediate"}, seals |-> TRUE, kinds |-> {"power"}]

\* durable_periodic: commits may be deferred, and the process may also be
\* killed while the page cache survives.
Deferred == [syncs |-> MCSyncs, seals |-> FALSE, kinds |-> MCKinds]

\* durable_sync with rotation, killed and then cut off from power.
RestartSeal == [Immediate EXCEPT !.kinds = MCKinds]

MCPass == {Immediate, Deferred}
MCRestartSeal == {RestartSeal}

MCInit == Init /\ scenario \in Scenarios
MCNext ==
    /\ Next
    /\ op'.sync \in scenario.syncs /\ (op'.seal => scenario.seals)
    /\ Kill => "kill" \in scenario.kinds \/ PowerLoss
    /\ UNCHANGED scenario
MCSpec == MCInit /\ [][MCNext]_<<vars, scenario>>

\* The two commit slots are sound at every step of publish_commit and
\* flush_pending_commit: a slot a crash could leave valid authorises only
\* Records on stable storage, the only known commit is never overwritten, one
\* slot names a sound boundary wherever the crash falls, and, while every commit
\* is synchronised and only power is lost, no slot write stays in flight.
SlotsAreSound ==
    /\ TypeOK
    /\ SlotsAuthoriseOnlySyncedRecords /\ KnownValidSlot
    /\ CrashSafe
    /\ scenario = Immediate => SyncedBetweenCommits
=============================================================================

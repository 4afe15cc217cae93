--------------------------- MODULE MCMaintenance ---------------------------
EXTENDS Maintenance, TLC

\* Two Workers; the first has two sealed Segments, one and a half dead.
Base ==
    [sealed |-> 0 :> 2 @@ 1 :> 1, live |-> 0 :> 1 @@ 1 :> 2, writers |-> Workers,
     ttl |-> FALSE, latencies |-> {"few"}, faults |-> 0, manual |-> FALSE,
     tenants |-> FALSE, closes |-> FALSE, brisk |-> FALSE, changes |-> 3]

\* Callbacks fail, the Store is closed.
Failing == [Base EXCEPT !.faults = 2, !.closes = TRUE, !.changes = 2]

\* The filesystem fills up and the application compacts.
Crowded == [Base EXCEPT !.tenants = TRUE, !.manual = TRUE]

\* Only one Worker has sealed Segments.
OneWorker ==
    [Base EXCEPT !.sealed = 0 :> 2 @@ 1 :> 0, !.live = 0 :> 4 @@ 1 :> 0, !.writers = {0}]

\* Foreground mutations are slow, and need not become faster.
Latencies == {"few", "low", "mid", "high"}
Slow == [OneWorker EXCEPT !.latencies = Latencies, !.changes = 4]

\* Unread expired Records count, and evaluations share a window.
Expiring == [OneWorker EXCEPT !.ttl = TRUE, !.brisk = TRUE, !.changes = 4]

PassEnvironments == {Failing, Crowded, Slow, Expiring}

\* Unread expired Records count, and two Workers have sealed Segments.
TwoExpiring ==
    {[Base EXCEPT !.live = 0 :> 4 @@ 1 :> 2, !.ttl = TRUE]}

\* Foreground mutations are slow, and two Workers have sealed Segments.
TwoSlow == {[Base EXCEPT !.latencies = {"high"}, !.changes = 0]}

\* Two Workers, evaluated more than once within a window.
Brisk == {[Base EXCEPT !.brisk = TRUE]}
=============================================================================

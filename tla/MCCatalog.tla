----------------------------- MODULE MCCatalog -----------------------------
(***************************************************************************)
(* Instances of Catalog for TLC.                                           *)
(***************************************************************************)
EXTENDS Catalog, TLC

Symmetry == Permutations(Keys)

Environment(m, ops, kinds, c, S, f, n) ==
    [mode |-> m, ops |-> ops, crash |-> kinds, crashes |-> c, steps |-> S, faults |-> f,
     compactions |-> n]

FileSteps == Steps \ {"none", "segments", "resolve", "scan", "publish", "audit", "quiesce",
                      "install", "retire"}

Erasing == {"put", "erase"}
Expiring == {"put", "ttl"}

\* Power losses; kills with I/O errors in rotations; kills with an I/O error
\* in a compaction, other than the two clean failures after the intent;
\* periodic durability without compaction.
MCEnvironments ==
    {Environment("sync", Erasing, {"power"}, 2, {}, 0, 1),
     Environment("sync", Expiring, {"power"}, 2, {}, 0, 1),
     Environment("sync", {"put"}, {"kill"}, 1, FileSteps \cup {"append"}, 2, 0),
     Environment("sync", Erasing, {"kill"}, 1,
                 (FileSteps \cup {"append"}) \ {"man_rename", "promote"}, 1, 1),
     Environment("periodic", Erasing, {"power"}, 2, {}, 0, 0)}

\* Rotations of two Workers and a compaction compete, with a power loss or an
\* I/O error that poisons the directory.
MCWorkersEnvironments ==
    {Environment("sync", {"put"}, {"power"}, 1, {}, 0, 1),
     Environment("sync", {"put"}, {}, 0, {"append", "seg_sync", "man_sync", "intent_sync"}, 1, 1)}

\* A compaction meets one of the two clean failures after its intent.
MCThirdAuthorityEnvironments ==
    {Environment("sync", {"put"}, {"power"}, 0, {"man_rename", "promote"}, 1, 1)}

\* Compaction with periodic durability.
MCPeriodicEnvironments == {Environment("periodic", {"put"}, {"power"}, 1, {}, 0, 1)}
============================================================================

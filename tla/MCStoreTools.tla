---------------------------- MODULE MCStoreTools ----------------------------
EXTENDS StoreTools

CONSTANTS t1, t2

\* A source after a rotation.
Rotation ==
    LockName :> Bytes @@ ManifestName :> Whole(<<<<1, 1>>, <<2, 1>>>>)
    @@ SegmentName(<<1, 1>>) :> Whole(<<1, 1>>) @@ SegmentName(<<2, 1>>) :> Whole(<<0, 2>>)

Online ==
    [kind |-> t1 :> "online" @@ t2 :> "online", source |-> Rotation,
     writes |-> {<<1, 2>>}, debris |-> {}, loss |-> FALSE, power |-> FALSE,
     clock |-> FALSE, frozen |-> FALSE, attempts |-> 2]

Offline ==
    [Online EXCEPT !.kind[t1] = "offline", !.source = EmptyStore, !.power = TRUE,
                   !.debris = {<<"unlisted", 9>>}]

Repairing ==
    [Online EXCEPT !.kind = t1 :> "repair" @@ t2 :> "none", !.loss = TRUE,
                   !.debris = {<<"unlisted", 9>>, <<"temporary", 1>>,
                               <<"unknown", 1>>, <<"unsafe", 1>>}]

\* A migration beside a source that changes between its invocations.
Migrating ==
    [Online EXCEPT !.kind = t1 :> "migrate" @@ t2 :> "none", !.power = TRUE,
                   !.attempts = 3, !.writes = Keys \X (Values \union {Erased})]

\* A migration of Records that expire meanwhile, and are not replaced.
MigratingExpiring == [Migrating EXCEPT !.clock = TRUE, !.frozen = TRUE]

PassEnvironments ==
    {Online, Offline, Repairing, Migrating, MigratingExpiring}

\* A migration of a source that changes and of Records that expire.
ExpiryEnvironments == {[Migrating EXCEPT !.clock = TRUE, !.power = FALSE]}

\* A repair of a Store in whose directory a file `audit.txt` was left.
AuditEnvironments == {[Repairing EXCEPT !.debris = {AuditName}]}
=============================================================================

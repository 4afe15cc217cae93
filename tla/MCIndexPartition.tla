-------------------------- MODULE MCIndexPartition --------------------------
(***************************************************************************)
(* Instances of IndexPartition for TLC: groups of two slots, half of which *)
(* may be occupied, so that few keys grow the table to several groups.     *)
(***************************************************************************)
EXTENDS IndexPartition, TLC

CONSTANTS k1, k2, k3, k4, k5

\* k1 and k2 share group, fingerprint and tag; k3 shares their fingerprint and
\* probes from the last group; k3 and k4 are long;
\* k5 is the empty key.
MCKeySize == k1 :> 1 @@ k2 :> 1 @@ k3 :> 2 @@ k4 :> 3 @@ k5 :> 0
MCHash == k1 :> [group |-> 1, fp |-> 1, tag |-> 1] @@ k2 :> [group |-> 1, fp |-> 1, tag |-> 1]
       @@ k3 :> [group |-> 3, fp |-> 1, tag |-> 2] @@ k4 :> [group |-> 2, fp |-> 3, tag |-> 3]
       @@ k5 :> [group |-> 0, fp |-> 3, tag |-> 4]

CONSTANTS r1, r2

Environment(durable, group, oom, keys, refs, init) ==
    [durable |-> durable, group |-> group, oom |-> oom, keys |-> keys, refs |-> refs, init |-> init]

MCEnvironments ==
    {Environment(FALSE, FALSE, TRUE, Keys, {r1}, <<>>),
     Environment(FALSE, FALSE, FALSE, Keys, {r1, r2}, <<k1, k2>>),
     Environment(TRUE, FALSE, TRUE, {k1, k2, k3, k4}, {r1}, <<>>),
     Environment(TRUE, TRUE, TRUE, {k1, k4, k5}, {r1}, <<k1, k2, k3>>)}

\* A strict group that overwrites keys of a table at its load limit.
MCOverwriteEnvironments == {Environment(TRUE, TRUE, FALSE, {k1}, {r1}, <<k1>>)}
=============================================================================

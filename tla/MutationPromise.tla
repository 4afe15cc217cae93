--------------------------- MODULE MutationPromise ---------------------------
(***************************************************************************)
(* What the paired runtime promises about the mutations it is given: each  *)
(* of them advances along its lifecycle by legal calls only, whatever the  *)
(* others do, so that it completes at most once, with an answer that its   *)
(* commit and its publication justify and that never changes.  WriterLane  *)
(* implements it with the lifecycles of MutationLifecycle.                 *)
(***************************************************************************)
CONSTANTS
    Mutations,
    NewMutation, \* the lifecycle of a mutation nobody has submitted
    Legal        \* lifecycle -> the lifecycles that legal calls lead to

VARIABLE life \* mutation -> lifecycle

Init == life = [m \in Mutations |-> NewMutation]

Next ==
    /\ DOMAIN life' = Mutations
    /\ \A m \in Mutations : life'[m] = life[m] \/ life'[m] \in Legal[life[m]]

Spec == Init /\ [][Next]_life
=============================================================================

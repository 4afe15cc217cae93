--------------------------- MODULE ReadGeneration ---------------------------
(***************************************************************************)
(* The immutable read generations of one shard pair (PairReadGeneration),  *)
(* the slots that own them (GenerationSlotPool) and the incremental merge  *)
(* that folds a delta back into its base (PairReadMerge).                  *)
(*                                                                         *)
(* Every operator is what one call of the executing thread does to the     *)
(* pool, a record:                                                         *)
(*   slot    what each slot holds: [state, epoch, pins, view]              *)
(*   writer  the slot of writer_generation                                 *)
(*   token   the published slot, 0 once publication is revoked             *)
(*   first, second  record versions in the primary and secondary arena of  *)
(*           the writer's delta; second = 0 when it owns no second arena   *)
(*   merge   the merge in progress, or NoMerge                             *)
(* A view is a base and a delta over it, both from keys to log positions   *)
(* (0: the key is absent or erased); upto, a history field, is the log     *)
(* position the view stands for.                                           *)
(***************************************************************************)
EXTENDS Naturals, Sequences, FiniteSets, FiniteSetsExt

CONSTANTS
    Keys,
    MaxRetired,       \* kMaximumRetiredReadGenerations (64)
    MaxDelta,         \* maximum_entries of a delta and of its arenas
    MergeDelta,       \* config_.merge_delta_entries
    MaxPost,          \* config_.merge_maximum_post_entries
    MergeQuantum,     \* config_.merge_quantum_slots
    MergeSlots,       \* table slots a merge has to visit
    PublicationBatch, \* kMaximumPublicationBatch (32)
    ReclaimQuantum    \* kReclaimPublishQuantum (8)

ASSUME ReadGenerationAssumption ==
    /\ {MaxRetired, MaxDelta, MergeDelta, MaxPost, MergeQuantum, MergeSlots,
        PublicationBatch, ReclaimQuantum} \subseteq Nat \ {0}
    /\ MergeDelta + MaxPost <= MaxDelta

Slots == 1..(MaxRetired + 1)
Nothing == [k \in {} |-> 0]
EmptyView == [base |-> [k \in Keys |-> 0], delta |-> Nothing, upto |-> 0]
NoMerge == [cut |-> 0]
FreedSlot == [state |-> "free", epoch |-> 0, pins |-> 0, view |-> EmptyView]

EmptyPool ==
    [slot |-> [s \in Slots |-> [FreedSlot EXCEPT !.state = IF s = 1 THEN "published" ELSE @]],
     writer |-> 1, token |-> 1, first |-> 0, second |-> 0, merge |-> NoMerge]

Lookup(view, k) == IF k \in DOMAIN view.delta THEN view.delta[k] ELSE view.base[k]
Size(delta) == Cardinality(DOMAIN delta)

Writer(p) == p.slot[p.writer]
Epoch(p) == Writer(p).epoch
Merging(p) == p.merge # NoMerge
MergeReady(p) == Merging(p) /\ p.merge.left = 0
Retired(p) == Quantify(Slots, LAMBDA s : p.slot[s].state = "retired")
FreeSlots(p) == {s \in Slots : p.slot[s].state = "free"}
TryReserve(p) == Min(FreeSlots(p))

\* The generation in slot s becomes the writer's and the published one; the
\* one before it is retired.
Commit(p, s, view) ==
    [p EXCEPT !.slot = [@ EXCEPT ![p.writer].state = "retired",
                                 ![s] = [state |-> "published", epoch |-> Epoch(p) + 1,
                                         pins |-> 0, view |-> view]],
              !.writer = s, !.token = s]

\* Retired generations older than the quiescent epoch that no merge pins are
\* destroyed.  Epoch 0 says that no epoch is known to be quiescent.
Reclaim(p, epoch) ==
    [p EXCEPT !.slot = [s \in Slots |->
        IF @[s].state = "retired" /\ @[s].epoch < epoch /\ @[s].pins = 0 THEN FreedSlot ELSE @[s]]]

(***************************************************************************)
(* Publication of a batch of mutations [key, op, pos].                     *)
(***************************************************************************)
Value(m) == IF m.op = "put" THEN m.pos ELSE 0
LastOf(batch, k) == Max({0} \cup {i \in DOMAIN batch : batch[i].key = k})
Written(delta, batch) ==
    [k \in DOMAIN delta \cup {batch[i].key : i \in DOMAIN batch} |->
        IF LastOf(batch, k) > 0 THEN Value(batch[LastOf(batch, k)]) ELSE delta[k]]

\* available_record_versions of the arena new versions are allocated from.
Available(p) == MaxDelta - (IF p.second > 0 THEN p.second ELSE p.first)
PostCapacity(p) == Min({p.merge.limit - Size(p.merge.post), MaxDelta - p.merge.versions})
CanPublish(p, n) ==
    /\ n <= MaxDelta - Size(Writer(p).view.delta) /\ n <= Available(p)
    /\ Merging(p) => n <= PostCapacity(p)

\* A delta owns at most the arena of its merge's cut and the merge's own.
ThirdArena(p) == Merging(p) /\ p.second > 0 /\ ~p.merge.joined
Refuses(p, n) ==
    \/ n > PublicationBatch \/ ~CanPublish(p, n) \/ ThirdArena(p)
    \/ Merging(p) /\ p.merge.current # p.writer

\* The next generation keeps the base and adds the batch to the delta, and to
\* the post delta of a merge in progress.
PublishBesideMerge(p, s, batch) ==
    LET view == Writer(p).view
    IN  [Commit(p, s, [view EXCEPT !.delta = Written(@, batch), !.upto = batch[Len(batch)].pos])
         EXCEPT !.first = @ + Len(batch), !.merge = IF Merging(p) THEN [@ EXCEPT !.current = s] ELSE @]
PublishIncremental(p, s, batch) ==
    LET view == Writer(p).view
        next == Commit(p, s, [base |-> view.base, delta |-> Written(view.delta, batch),
                              upto |-> batch[Len(batch)].pos])
        n    == Len(batch)
    IN  IF Merging(p)
        THEN [next EXCEPT !.second = p.merge.versions + n,
                          !.merge = [p.merge EXCEPT !.post = Written(p.merge.post, batch),
                                                    !.versions = p.merge.versions + n,
                                                    !.current = s, !.joined = TRUE]]
        ELSE [next EXCEPT !.first = @ + (IF p.second > 0 THEN 0 ELSE n),
                          !.second = @ + (IF p.second > 0 THEN n ELSE 0)]

\* A generation rebuilt from a snapshot of the Store's index.
PublishSnapshot(p, s, contents, upto) ==
    [Commit(p, s, [base |-> contents, delta |-> Nothing, upto |-> upto])
     EXCEPT !.first = 0, !.second = 0]

(***************************************************************************)
(* The incremental merge.                                                  *)
(***************************************************************************)
MergeDue(p) ==
    /\ ~Merging(p)
    /\ \/ Size(Writer(p).view.delta) >= MergeDelta
       \/ (IF p.second > 0 THEN p.second ELSE p.first) >= MergeDelta

\* The cut is the writer's generation, pinned until the merge ends.
StartMerge(p) ==
    [p EXCEPT !.slot[p.writer].pins = @ + 1,
              !.merge = [cut |-> p.writer, current |-> p.writer, left |-> MergeSlots, post |-> Nothing,
                         versions |-> 0, joined |-> FALSE,
                         limit |-> Min({MaxPost, MaxDelta - Size(Writer(p).view.delta)})]]

\* The merge is given up or done; its cut loses the pin.
EndMerge(p) ==
    IF Merging(p) THEN [p EXCEPT !.slot[p.merge.cut].pins = @ - 1, !.merge = NoMerge] ELSE p

MinimumSlots(n) == IF n <= 1 THEN MergeQuantum ELSE 2 * MergeQuantum

\* Slots to visit before n new records enter the post delta: enough for the
\* merge to end before that delta is full.
QuantumBudget(p, n) == Min({p.merge.left, MinimumSlots(n)})
AdvanceBudget(p, n) ==
    LET capacity == PostCapacity(p)
    IN  CASE n = 0         -> Min({p.merge.left, MinimumSlots(n)})
          [] n >= capacity -> p.merge.left
          [] OTHER         -> Min({p.merge.left, Max({MinimumSlots(n),
                                   (p.merge.left * n + capacity - 1) \div capacity})})

Advance(p, n) == [p EXCEPT !.merge.left = @ - AdvanceBudget(p, n)]

\* The base is the cut with its delta folded in; what was published during
\* the merge is the new delta.
FinishMerge(p, s) ==
    LET cut  == p.slot[p.merge.cut].view
        view == [base  |-> [k \in Keys |-> Lookup(cut, k)],
                 delta |-> p.merge.post, upto |-> Writer(p).view.upto]
    IN  [Commit(p, s, view) EXCEPT !.first = p.merge.versions, !.second = 0]

\* decide_generation_admission.
Admitted(p, n) == Retired(p) < MaxRetired /\ CanPublish(p, n)
=============================================================================

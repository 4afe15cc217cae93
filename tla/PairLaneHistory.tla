--------------------------- MODULE PairLaneHistory --------------------------
(***************************************************************************)
(* First the slots.  GenerationsAreKept: in PairLane no generation is      *)
(* reclaimed under a Reader or a merge, and an admitted mutation finds a   *)
(* slot, for every number of callers, Readers, keys and slots.  PoolOK is  *)
(* what the operators of ReadGeneration keep of the pool; SlotInv is the   *)
(* inductive invariant.                                                    *)
(*                                                                         *)
(* Then the views of the generations and the log (Historic), the invariant *)
(* of the work of a lane (WorkInv), and the steps of the executor that     *)
(* answer nothing.                                                         *)
(***************************************************************************)
EXTENDS PairLane, FiniteSetTheorems, WellFoundedInduction, TLAPS

(***************************************************************************)
(* Records: what the operators on the pool do to its fields.               *)
(***************************************************************************)
Fields == {"slot", "writer", "token", "first", "second", "merge"}
SlotFields == {"state", "epoch", "pins", "view"}
MergeFields == {"cut", "current", "left", "post", "versions", "joined", "limit"}

SlotOK(p, s) ==
    /\ DOMAIN p.slot[s] = SlotFields
    /\ p.slot[s].state \in {"free", "published", "retired"}
    /\ p.slot[s].epoch \in Nat
    /\ (p.slot[s].state = "published") <=> (s = p.writer)
    /\ p.slot[s].state = "retired" => p.slot[s].epoch < Epoch(p)
    /\ p.slot[s].pins = IF Merging(p) /\ s = p.merge.cut THEN 1 ELSE 0

MergeOK(p) ==
    Merging(p) => /\ DOMAIN p.merge = MergeFields
                  /\ p.merge.cut \in Slots /\ p.slot[p.merge.cut].state # "free"

PoolOK(p) ==
    /\ DOMAIN p = Fields /\ DOMAIN p.slot = Slots /\ p.writer \in Slots
    /\ \A s \in Slots : SlotOK(p, s)
    /\ MergeOK(p)

\* The fields of a pool after Commit.
LEMMA CommitFields ==
    ASSUME NEW p, DOMAIN p = Fields, DOMAIN p.slot = Slots, p.writer \in Slots,
           \A t \in Slots : DOMAIN p.slot[t] = SlotFields,
           NEW s \in Slots, s # p.writer, NEW view,
           NEW q, q = Commit(p, s, view)
    PROVE  /\ DOMAIN q = Fields /\ DOMAIN q.slot = Slots
           /\ q.writer = s /\ q.token = s /\ q.merge = p.merge
           /\ q.first = p.first /\ q.second = p.second
           /\ q.slot[s] = [state |-> "published", epoch |-> Epoch(p) + 1, pins |-> 0, view |-> view]
           /\ q.slot[p.writer] = [p.slot[p.writer] EXCEPT !.state = "retired"]
           /\ \A t \in Slots \ {s, p.writer} : q.slot[t] = p.slot[t]
  BY Zenon DEF Commit, Fields

\* The fields of a slot whose generation is retired, ...
LEMMA RetiredFields ==
    ASSUME NEW x, DOMAIN x = SlotFields, NEW y, y = [x EXCEPT !.state = "retired"]
    PROVE  /\ DOMAIN y = SlotFields /\ y.state = "retired" /\ y.epoch = x.epoch
           /\ y.pins = x.pins /\ y.view = x.view
  BY Zenon DEF SlotFields

\* ... and of one that is taken.
LEMMA NewFields ==
    ASSUME NEW e, NEW v, NEW y, y = [state |-> "published", epoch |-> e, pins |-> 0, view |-> v]
    PROVE  /\ DOMAIN y = SlotFields /\ y.state = "published" /\ y.epoch = e
           /\ y.pins = 0 /\ y.view = v
  BY Zenon DEF SlotFields

\* The fields of a pool after Reclaim, ...
LEMMA ReclaimFields ==
    ASSUME NEW p, DOMAIN p = Fields, DOMAIN p.slot = Slots, NEW e,
           NEW q, q = Reclaim(p, e)
    PROVE  /\ DOMAIN q = Fields /\ DOMAIN q.slot = Slots
           /\ q.writer = p.writer /\ q.token = p.token /\ q.merge = p.merge
           /\ q.first = p.first /\ q.second = p.second
           /\ \A t \in Slots : q.slot[t] = IF p.slot[t].state = "retired" /\ p.slot[t].epoch < e
                                               /\ p.slot[t].pins = 0 THEN FreedSlot ELSE p.slot[t]
  BY Zenon DEF Reclaim, Fields

\* ... after StartMerge, ...
LEMMA StartFields ==
    ASSUME NEW p, DOMAIN p = Fields, DOMAIN p.slot = Slots, p.writer \in Slots,
           NEW q, q = StartMerge(p)
    PROVE  /\ DOMAIN q = Fields /\ DOMAIN q.slot = Slots
           /\ q.writer = p.writer /\ q.token = p.token
           /\ q.first = p.first /\ q.second = p.second
           /\ DOMAIN q.merge = MergeFields /\ q.merge.cut = p.writer /\ q.merge.post = Nothing
           /\ q.slot[p.writer] = [p.slot[p.writer] EXCEPT !.pins = p.slot[p.writer].pins + 1]
           /\ \A t \in Slots \ {p.writer} : q.slot[t] = p.slot[t]
  BY Zenon DEF StartMerge, Fields, MergeFields

\* ... and after EndMerge.
LEMMA EndFields ==
    ASSUME NEW p, DOMAIN p = Fields, DOMAIN p.slot = Slots, Merging(p), p.merge.cut \in Slots,
           NEW q, q = EndMerge(p)
    PROVE  /\ DOMAIN q = Fields /\ DOMAIN q.slot = Slots
           /\ q.writer = p.writer /\ q.token = p.token
           /\ q.first = p.first /\ q.second = p.second /\ q.merge = NoMerge
           /\ q.slot[p.merge.cut] = [p.slot[p.merge.cut] EXCEPT !.pins = p.slot[p.merge.cut].pins - 1]
           /\ \A t \in Slots \ {p.merge.cut} : q.slot[t] = p.slot[t]
  BY Zenon DEF EndMerge, Fields

\* The fields of a slot whose pins change.
LEMMA PinFields ==
    ASSUME NEW x, DOMAIN x = SlotFields, NEW n, NEW y, y = [x EXCEPT !.pins = n]
    PROVE  /\ DOMAIN y = SlotFields /\ y.state = x.state /\ y.epoch = x.epoch
           /\ y.pins = n /\ y.view = x.view
  BY Zenon DEF SlotFields

\* The fields of a pool after Advance.
LEMMA AdvanceFields ==
    ASSUME NEW p, DOMAIN p = Fields, DOMAIN p.merge = MergeFields, NEW n,
           NEW q, q = Advance(p, n)
    PROVE  /\ DOMAIN q = Fields /\ q.slot = p.slot
           /\ q.writer = p.writer /\ q.token = p.token
           /\ q.first = p.first /\ q.second = p.second
           /\ DOMAIN q.merge = MergeFields /\ q.merge.cut = p.merge.cut
           /\ q.merge.post = p.merge.post
  BY Zenon DEF Advance, Fields, MergeFields

(***************************************************************************)
(* The pool of slots stays sound.                                          *)
(***************************************************************************)
\* Min of a set of naturals is its least element, ...
LEMMA LeastOf ==
    ASSUME NEW S, S \subseteq Nat, S # {}
    PROVE  Min(S) \in S /\ \A y \in S : Min(S) <= y
<1>1. PICK x \in S : \A y \in S : ~(<<y, x>> \in OpToRel(<, Nat))
  BY NatLessThanWellFounded, WFMin, Zenon
<1>2. \A y \in S : ~(y < x) BY <1>1, Zenon DEF OpToRel
<1>3. \A y \in S : x <= y BY <1>2
<1> QED BY <1>3, Zenon DEF Min

\* ... and Max of a bounded one its greatest.
LEMMA GreatestOf ==
    ASSUME NEW n \in Nat, NEW S, S \subseteq 0 .. n, S # {}
    PROVE  Max(S) \in S /\ \A y \in S : y <= Max(S)
<1> DEFINE T == {n - x : x \in S}
<1>1. T \subseteq Nat /\ T # {}
  <2>1. \A x \in S : n - x \in Nat OBVIOUS
  <2> QED BY <2>1, Zenon
<1>2. PICK m \in T : \A y \in T : m <= y BY <1>1, LeastOf, Zenon
<1>3. PICK x \in S : m = n - x BY <1>2, Zenon
<1>4. ASSUME NEW y \in S PROVE x >= y
  <2>1. n - y \in T BY Zenon
  <2>2. n - x <= n - y BY <1>2, <1>3, <2>1, Zenon
  <2> QED BY <2>2
<1> QED BY <1>4, Zenon DEF Max

\* There are MaxRetired + 1 slots.
LEMMA SlotsFinite ==
    /\ MaxRetired \in Nat \ {0} /\ Slots \subseteq Nat \ {0} /\ Slots # {} /\ 1 \in Slots
    /\ IsFiniteSet(Slots) /\ Cardinality(Slots) = MaxRetired + 1
<1>1. MaxRetired \in Nat \ {0} BY ReadGenerationAssumption, Zenon
<1>2. IsFiniteSet(Slots) /\ Cardinality(Slots) = MaxRetired + 1
  BY <1>1, FS_Interval DEF Slots
<1> QED BY <1>1, <1>2 DEF Slots

\* TryReserve finds a free slot when there is one.
LEMMA Reserved ==
    ASSUME NEW p, FreeSlots(p) # {}
    PROVE  TryReserve(p) \in Slots /\ p.slot[TryReserve(p)].state = "free"
<1>1. FreeSlots(p) \subseteq Nat BY SlotsFinite, Zenon DEF FreeSlots
<1>2. TryReserve(p) \in FreeSlots(p) BY <1>1, LeastOf, Zenon DEF TryReserve
<1> QED BY <1>2, Zenon DEF FreeSlots

\* Commit keeps the pool sound: the next epoch is published, the one before it retired.
LEMMA CommitOK ==
    ASSUME NEW p, PoolOK(p), NEW s \in Slots, p.slot[s].state = "free", NEW view,
           NEW q, q = Commit(p, s, view)
    PROVE  /\ PoolOK(q) /\ Epoch(q) = Epoch(p) + 1
           /\ q.writer = s /\ q.token = s /\ q.merge = p.merge
           /\ q.first = p.first /\ q.second = p.second
           /\ q.slot[s].view = view
           /\ \A t \in Slots \ {s} : /\ (q.slot[t].state = "free") <=> (p.slot[t].state = "free")
                                     /\ q.slot[t].epoch = p.slot[t].epoch
                                     /\ q.slot[t].view = p.slot[t].view
<1>0. s # p.writer /\ \A t \in Slots : DOMAIN p.slot[t] = SlotFields BY Zenon DEF PoolOK, SlotOK
<1>1. /\ DOMAIN q = Fields /\ DOMAIN q.slot = Slots
      /\ q.writer = s /\ q.token = s /\ q.merge = p.merge
      /\ q.first = p.first /\ q.second = p.second
      /\ q.slot[s] = [state |-> "published", epoch |-> Epoch(p) + 1, pins |-> 0, view |-> view]
      /\ q.slot[p.writer] = [p.slot[p.writer] EXCEPT !.state = "retired"]
      /\ \A t \in Slots \ {s, p.writer} : q.slot[t] = p.slot[t]
  BY <1>0, CommitFields DEF PoolOK
<1>2. /\ DOMAIN q.slot[s] = SlotFields /\ q.slot[s].state = "published"
      /\ q.slot[s].epoch = Epoch(p) + 1 /\ q.slot[s].pins = 0 /\ q.slot[s].view = view
  BY <1>1, NewFields
<1>3. LET w == p.writer
      IN  /\ DOMAIN q.slot[w] = SlotFields /\ q.slot[w].state = "retired"
          /\ q.slot[w].epoch = p.slot[w].epoch /\ q.slot[w].pins = p.slot[w].pins
          /\ q.slot[w].view = p.slot[w].view
  BY <1>0, <1>1, RetiredFields DEF PoolOK
<1>4. Epoch(q) = Epoch(p) + 1 /\ Epoch(p) \in Nat /\ Epoch(p) = p.slot[p.writer].epoch
  BY <1>1, <1>2, Zenon DEF Epoch, Writer, PoolOK, SlotOK
<1>10. /\ DOMAIN q = Fields /\ DOMAIN q.slot = Slots
       /\ q.writer = s /\ q.token = s /\ q.merge = p.merge
       /\ q.first = p.first /\ q.second = p.second
       /\ \A t \in Slots \ {s, p.writer} : q.slot[t] = p.slot[t]
  BY <1>1, Zenon
<1>5. Merging(q) <=> Merging(p) BY <1>10, Zenon DEF Merging
<1>9. Merging(p) => p.merge.cut # s BY Zenon DEF PoolOK, MergeOK
<1>6. ASSUME NEW t \in Slots PROVE SlotOK(q, t)
  <2>1. SlotOK(p, t) BY Zenon DEF PoolOK
  <2>2. CASE t = s BY <1>10, <1>2, <1>4, <1>5, <1>9, <2>2 DEF SlotOK
  <2>3. CASE t = p.writer /\ t # s
    BY <1>10, <1>3, <1>4, <1>5, <2>1, <2>3 DEF SlotOK
  <2>4. CASE t # p.writer /\ t # s
    <3>1. q.slot[t] = p.slot[t] BY <1>10, <2>4, Zenon
    <3> QED BY <1>10, <1>4, <1>5, <2>1, <2>4, <3>1 DEF SlotOK
  <2> QED BY <2>2, <2>3, <2>4, Zenon
<1>7. MergeOK(q) BY <1>10, <1>2, <1>3, <1>5 DEF MergeOK, PoolOK
<1>8. ASSUME NEW t \in Slots \ {s}
      PROVE /\ (q.slot[t].state = "free") <=> (p.slot[t].state = "free")
            /\ q.slot[t].epoch = p.slot[t].epoch
            /\ q.slot[t].view = p.slot[t].view
  BY <1>10, <1>3 DEF PoolOK, SlotOK
<1> QED BY <1>10, <1>2, <1>4, <1>6, <1>7, <1>8, Zenon DEF PoolOK

\* Reclaim keeps the pool sound and frees only old retired slots that nothing pins.
LEMMA ReclaimOK ==
    ASSUME NEW p, PoolOK(p), NEW e \in Nat, NEW q, q = Reclaim(p, e)
    PROVE  /\ PoolOK(q) /\ Epoch(q) = Epoch(p)
           /\ q.writer = p.writer /\ q.token = p.token /\ q.merge = p.merge
           /\ \A t \in Slots : \/ p.slot[t].state = "retired" /\ p.slot[t].epoch < e
                                    /\ q.slot[t].state = "free"
                               \/ q.slot[t] = p.slot[t]
           /\ Writer(q) = Writer(p)
<1>1. /\ DOMAIN q = Fields /\ DOMAIN q.slot = Slots
      /\ q.writer = p.writer /\ q.token = p.token /\ q.merge = p.merge
      /\ \A t \in Slots : q.slot[t] = IF p.slot[t].state = "retired" /\ p.slot[t].epoch < e
                                           /\ p.slot[t].pins = 0 THEN FreedSlot ELSE p.slot[t]
  BY ReclaimFields DEF PoolOK
<1>2. /\ DOMAIN FreedSlot = SlotFields /\ FreedSlot.state = "free" /\ FreedSlot.epoch = 0
      /\ FreedSlot.pins = 0
  BY Zenon DEF FreedSlot, SlotFields
<1>3. /\ p.writer \in Slots /\ p.slot[p.writer].state = "published" BY Zenon DEF PoolOK, SlotOK
<1>4. Writer(q) = Writer(p) /\ Epoch(q) = Epoch(p) BY <1>1, <1>3, Zenon DEF Writer, Epoch
<1>5. Merging(q) <=> Merging(p) BY <1>1, Zenon DEF Merging
<1>6. ASSUME NEW t \in Slots PROVE SlotOK(q, t)
  <2>1. SlotOK(p, t) BY Zenon DEF PoolOK
  <2>2. CASE p.slot[t].state = "retired" /\ p.slot[t].epoch < e /\ p.slot[t].pins = 0
    <3>1. q.slot[t] = FreedSlot BY <1>1, <2>2, Zenon
    <3> QED BY <1>1, <1>2, <1>5, <2>1, <2>2, <3>1 DEF SlotOK
  <2>3. CASE ~(p.slot[t].state = "retired" /\ p.slot[t].epoch < e /\ p.slot[t].pins = 0)
    <3>1. q.slot[t] = p.slot[t] BY <1>1, <2>3, Zenon
    <3> QED BY <1>1, <1>4, <1>5, <2>1, <3>1, Zenon DEF SlotOK
  <2> QED BY <2>2, <2>3, Zenon
<1>7. MergeOK(q)
  <2>1. Merging(p) => p.slot[p.merge.cut].pins = 1 /\ p.merge.cut \in Slots
    BY Zenon DEF PoolOK, SlotOK, MergeOK
  <2>2. Merging(p) => q.slot[p.merge.cut] = p.slot[p.merge.cut] BY <1>1, <2>1
  <2> QED BY <1>1, <1>5, <2>1, <2>2, Zenon DEF MergeOK, PoolOK
<1>8. \A t \in Slots : \/ p.slot[t].state = "retired" /\ p.slot[t].epoch < e
                                    /\ q.slot[t].state = "free"
                       \/ q.slot[t] = p.slot[t]
  BY <1>1, <1>2, Zenon
<1> QED BY <1>1, <1>3, <1>4, <1>6, <1>7, <1>8, Zenon DEF PoolOK

\* The pool with another merge over the same cut, or other counts of records.
LEMMA SameSlots ==
    ASSUME NEW p, PoolOK(p), NEW q, DOMAIN q = Fields, q.slot = p.slot, q.writer = p.writer,
           \/ q.merge = p.merge
           \/ Merging(p) /\ DOMAIN q.merge = MergeFields /\ q.merge.cut = p.merge.cut
    PROVE  PoolOK(q) /\ Epoch(q) = Epoch(p) /\ Writer(q) = Writer(p) /\ (Merging(q) <=> Merging(p))
<1>1. NoMerge.cut = 0 BY Zenon DEF NoMerge
<1>2. Merging(p) => p.merge.cut \in Slots /\ p.merge.cut # 0
  BY SlotsFinite, Zenon DEF PoolOK, MergeOK
<1>3. Merging(q) <=> Merging(p) BY <1>1, <1>2, Zenon DEF Merging
<1>4. Merging(p) => q.merge.cut = p.merge.cut BY Zenon
<1>5. Epoch(q) = Epoch(p) /\ Writer(q) = Writer(p) BY Zenon DEF Epoch, Writer
<1>6. ASSUME NEW t \in Slots PROVE SlotOK(q, t)
  <2>1. SlotOK(p, t) BY Zenon DEF PoolOK
  <2> QED BY <1>3, <1>4, <1>5, <2>1, Zenon DEF SlotOK
<1>7. MergeOK(q) BY <1>3, <1>4, Zenon DEF MergeOK, PoolOK
<1> QED BY <1>3, <1>5, <1>6, <1>7, Zenon DEF PoolOK

\* StartMerge keeps the pool sound and pins its cut, ...
LEMMA StartOK ==
    ASSUME NEW p, PoolOK(p), ~Merging(p), NEW q, q = StartMerge(p)
    PROVE  /\ PoolOK(q) /\ Epoch(q) = Epoch(p) /\ Merging(q)
           /\ q.writer = p.writer /\ q.token = p.token
           /\ q.merge.cut = p.writer /\ q.merge.post = Nothing
           /\ \A t \in Slots : /\ q.slot[t].state = p.slot[t].state
                               /\ q.slot[t].epoch = p.slot[t].epoch
                               /\ q.slot[t].view = p.slot[t].view
<1>0. p.writer \in Slots /\ p.slot[p.writer].pins = 0 /\ DOMAIN p.slot[p.writer] = SlotFields
      /\ p.slot[p.writer].state = "published"
  BY Zenon DEF PoolOK, SlotOK
<1>1. /\ DOMAIN q = Fields /\ DOMAIN q.slot = Slots
      /\ q.writer = p.writer /\ q.token = p.token
      /\ DOMAIN q.merge = MergeFields /\ q.merge.cut = p.writer /\ q.merge.post = Nothing
      /\ q.slot[p.writer] = [p.slot[p.writer] EXCEPT !.pins = p.slot[p.writer].pins + 1]
      /\ \A t \in Slots \ {p.writer} : q.slot[t] = p.slot[t]
  BY <1>0, StartFields DEF PoolOK
<1>2. LET w == p.writer
      IN  /\ DOMAIN q.slot[w] = SlotFields /\ q.slot[w].state = p.slot[w].state
          /\ q.slot[w].epoch = p.slot[w].epoch /\ q.slot[w].pins = p.slot[w].pins + 1
          /\ q.slot[w].view = p.slot[w].view
  BY <1>0, <1>1, PinFields
<1>9. /\ DOMAIN q = Fields /\ DOMAIN q.slot = Slots
      /\ q.writer = p.writer /\ q.token = p.token
      /\ DOMAIN q.merge = MergeFields /\ q.merge.cut = p.writer /\ q.merge.post = Nothing
      /\ \A t \in Slots \ {p.writer} : q.slot[t] = p.slot[t]
  BY <1>1, Zenon
<1>3. NoMerge.cut = 0 BY Zenon DEF NoMerge
<1>4. Merging(q) BY <1>0, <1>9, <1>3, SlotsFinite, Zenon DEF Merging
<1>5. Epoch(q) = Epoch(p) BY <1>9, <1>2, Zenon DEF Epoch, Writer
<1>6. ASSUME NEW t \in Slots PROVE SlotOK(q, t)
  <2>1. SlotOK(p, t) BY Zenon DEF PoolOK
  <2>2. CASE t = p.writer BY <1>0, <1>9, <1>2, <1>4, <1>5, <2>1, <2>2 DEF SlotOK
  <2>3. CASE t # p.writer
    <3>1. q.slot[t] = p.slot[t] BY <1>9, <2>3, Zenon
    <3> QED BY <1>9, <1>4, <1>5, <2>1, <2>3, <3>1, Zenon DEF SlotOK
  <2> QED BY <2>2, <2>3, Zenon
<1>7. MergeOK(q) BY <1>0, <1>9, <1>2, Zenon DEF MergeOK
<1>8. \A t \in Slots : /\ q.slot[t].state = p.slot[t].state
                       /\ q.slot[t].epoch = p.slot[t].epoch
                       /\ q.slot[t].view = p.slot[t].view
  BY <1>9, <1>2, Zenon
<1> QED BY <1>0, <1>9, <1>4, <1>5, <1>6, <1>7, <1>8, Zenon DEF PoolOK

\* ... and EndMerge keeps it sound and unpins it.
LEMMA EndOK ==
    ASSUME NEW p, PoolOK(p), NEW q, q = EndMerge(p)
    PROVE  /\ PoolOK(q) /\ Epoch(q) = Epoch(p) /\ ~Merging(q)
           /\ q.writer = p.writer /\ q.token = p.token
           /\ \A t \in Slots : /\ q.slot[t].state = p.slot[t].state
                               /\ q.slot[t].epoch = p.slot[t].epoch
                               /\ q.slot[t].view = p.slot[t].view
<1>0. CASE ~Merging(p) BY <1>0, Zenon DEF EndMerge, PoolOK
<1>1. CASE Merging(p)
  <2> DEFINE c == p.merge.cut
  <2>0. c \in Slots /\ p.slot[c].pins = 1 /\ DOMAIN p.slot[c] = SlotFields /\ p.writer \in Slots
    BY <1>1, Zenon DEF PoolOK, SlotOK, MergeOK
  <2>1. /\ DOMAIN q = Fields /\ DOMAIN q.slot = Slots
        /\ q.writer = p.writer /\ q.token = p.token /\ q.merge = NoMerge
        /\ q.slot[c] = [p.slot[c] EXCEPT !.pins = p.slot[c].pins - 1]
        /\ \A t \in Slots \ {c} : q.slot[t] = p.slot[t]
    BY <1>1, <2>0, EndFields DEF PoolOK
  <2>2. /\ DOMAIN q.slot[c] = SlotFields /\ q.slot[c].state = p.slot[c].state
        /\ q.slot[c].epoch = p.slot[c].epoch /\ q.slot[c].pins = p.slot[c].pins - 1
        /\ q.slot[c].view = p.slot[c].view
    BY <2>0, <2>1, PinFields
  <2>9. /\ DOMAIN q = Fields /\ DOMAIN q.slot = Slots
        /\ q.writer = p.writer /\ q.token = p.token /\ q.merge = NoMerge
        /\ \A t \in Slots \ {c} : q.slot[t] = p.slot[t]
    BY <2>1, Zenon
  <2>4. ~Merging(q) BY <2>9, Zenon DEF Merging
  <2> HIDE DEF c
  <2>5. Epoch(q) = Epoch(p) BY <2>0, <2>9, <2>2, Zenon DEF Epoch, Writer
  <2>6. ASSUME NEW t \in Slots PROVE SlotOK(q, t)
    <3>1. SlotOK(p, t) BY Zenon DEF PoolOK
    <3>2. CASE t = c BY <2>0, <2>9, <2>2, <2>4, <2>5, <3>1, <3>2 DEF SlotOK
    <3>3. CASE t # c
      <4>1. q.slot[t] = p.slot[t] BY <2>9, <3>3, Zenon
      <4> QED BY <1>1, <2>9, <2>4, <2>5, <3>1, <3>3, <4>1, Zenon DEF SlotOK, c
    <3> QED BY <3>2, <3>3, Zenon
  <2>7. MergeOK(q) BY <2>4, Zenon DEF MergeOK
  <2>8. \A t \in Slots : /\ q.slot[t].state = p.slot[t].state
                         /\ q.slot[t].epoch = p.slot[t].epoch
                         /\ q.slot[t].view = p.slot[t].view
    BY <2>9, <2>2, Zenon
  <2> QED BY <2>0, <2>9, <2>4, <2>5, <2>6, <2>7, <2>8, Zenon DEF PoolOK
<1> QED BY <1>0, <1>1, Zenon

\* With fewer than MaxRetired generations retired a slot is free: admission is enough.
LEMMA Pigeonhole ==
    ASSUME NEW p, PoolOK(p), Retired(p) < MaxRetired
    PROVE  FreeSlots(p) # {}
<1> DEFINE R == {s \in Slots : p.slot[s].state = "retired"}
<1>1. Retired(p) = Cardinality(R) BY Zenon DEF Retired, Quantify
<1>2. SUFFICES ASSUME FreeSlots(p) = {} PROVE FALSE BY Zenon
<1>3. R = Slots \ {p.writer} BY <1>2 DEF FreeSlots, PoolOK, SlotOK
<1>4. p.writer \in Slots BY Zenon DEF PoolOK
<1>5. Cardinality(Slots \ {p.writer}) = Cardinality(Slots) - 1
  BY <1>4, SlotsFinite, FS_RemoveElement, Zenon
<1>6. Cardinality(Slots) = MaxRetired + 1 /\ MaxRetired \in Nat BY SlotsFinite, Zenon
<1> HIDE DEF R
<1> QED BY <1>1, <1>3, <1>5, <1>6

(***************************************************************************)
(* Publication, merge and shutdown as steps of the pool.                   *)
(***************************************************************************)
SameSlot(p, q, t) ==
    /\ (q.slot[t].state = "free") <=> (p.slot[t].state = "free")
    /\ q.slot[t].epoch = p.slot[t].epoch /\ q.slot[t].view = p.slot[t].view

\* q is p with other pins and another merge.
Same(p, q) ==
    /\ PoolOK(q) /\ q.writer = p.writer /\ q.token = p.token
    /\ \A t \in Slots : SameSlot(p, q, t)

\* q is p with a generation of this view published from a free slot.
NextGeneration(p, q, view) ==
    /\ PoolOK(q) /\ p.slot[q.writer].state = "free" /\ q.token = q.writer
    /\ Epoch(q) = Epoch(p) + 1 /\ Writer(q).view = view
    /\ \A t \in Slots \ {q.writer} : SameSlot(p, q, t)

\* A pool that is Commit but for its arenas and its merge has a next generation.
LEMMA CommitNext ==
    ASSUME NEW p, PoolOK(p), NEW s \in Slots, p.slot[s].state = "free", NEW view,
           NEW c, c = Commit(p, s, view),
           NEW q, DOMAIN q = Fields, q.slot = c.slot, q.writer = c.writer, q.token = c.token,
           \/ q.merge = c.merge
           \/ Merging(p) /\ DOMAIN q.merge = MergeFields /\ q.merge.cut = p.merge.cut
    PROVE  NextGeneration(p, q, view) /\ (Merging(q) <=> Merging(p))
<1>1. /\ PoolOK(c) /\ Epoch(c) = Epoch(p) + 1
      /\ c.writer = s /\ c.token = s /\ c.merge = p.merge
      /\ c.slot[s].view = view
      /\ \A t \in Slots \ {s} : SameSlot(p, c, t)
  BY CommitOK DEF SameSlot
<1>2. Merging(c) <=> Merging(p) BY <1>1, Zenon DEF Merging
<1>3. PoolOK(q) /\ Epoch(q) = Epoch(c) /\ Writer(q) = Writer(c) /\ (Merging(q) <=> Merging(c))
  BY <1>1, <1>2, SameSlots, Zenon
<1>4. Writer(q).view = view BY <1>1, <1>3, Zenon DEF Writer
<1>5. \A t \in Slots \ {s} : SameSlot(p, q, t) BY <1>1, Zenon DEF SameSlot
<1> QED BY <1>1, <1>2, <1>3, <1>4, <1>5, Zenon DEF NextGeneration

\* PublishIncremental makes the batch, over the view of the writer, the next generation.
LEMMA PublishOK ==
    ASSUME NEW p, PoolOK(p), NEW s \in Slots, p.slot[s].state = "free", NEW batch,
           NEW q, q = PublishIncremental(p, s, batch)
    PROVE  /\ NextGeneration(p, q, [base |-> Writer(p).view.base,
                                    delta |-> Written(Writer(p).view.delta, batch),
                                    upto |-> batch[Len(batch)].pos])
           /\ Merging(q) <=> Merging(p)
           /\ Merging(p) => q.merge.cut = p.merge.cut /\ q.merge.post = Written(p.merge.post, batch)
<1> DEFINE v == Writer(p).view
           view == [base |-> v.base, delta |-> Written(v.delta, batch), upto |-> batch[Len(batch)].pos]
           c == Commit(p, s, view)
           n == Len(batch)
           m == [p.merge EXCEPT !.post = Written(p.merge.post, batch),
                                !.versions = p.merge.versions + n,
                                !.current = s, !.joined = TRUE]
<1>1. DOMAIN c = Fields /\ c.merge = p.merge BY CommitOK DEF PoolOK
<1>2. CASE Merging(p)
  <2>1. q = [c EXCEPT !.second = p.merge.versions + n, !.merge = m]
    BY <1>2, Zenon DEF PublishIncremental
  <2>2. DOMAIN m = MergeFields /\ m.cut = p.merge.cut /\ m.post = Written(p.merge.post, batch)
    <3>1. DOMAIN p.merge = MergeFields BY <1>2, Zenon DEF PoolOK, MergeOK
    <3> QED BY <3>1, Zenon DEF MergeFields
  <2> HIDE DEF c, m, view, v, n
  <2>3. /\ DOMAIN q = Fields /\ q.slot = c.slot /\ q.writer = c.writer /\ q.token = c.token
        /\ q.merge = m
    BY <1>1, <2>1, Zenon DEF Fields
  <2>4. NextGeneration(p, q, view) /\ (Merging(q) <=> Merging(p))
    BY <1>2, <2>2, <2>3, CommitNext, Zenon DEF c
  <2> QED BY <1>2, <2>2, <2>3, <2>4, Zenon DEF view, v
<1>3. CASE ~Merging(p)
  <2>1. q = [c EXCEPT !.first = c.first + (IF p.second > 0 THEN 0 ELSE n),
                      !.second = c.second + (IF p.second > 0 THEN n ELSE 0)]
    BY <1>3, Zenon DEF PublishIncremental
  <2> HIDE DEF c, m, view, v, n
  <2>3. DOMAIN q = Fields /\ q.slot = c.slot /\ q.writer = c.writer /\ q.token = c.token
        /\ q.merge = c.merge
    BY <1>1, <2>1, Zenon DEF Fields
  <2>4. NextGeneration(p, q, view) /\ (Merging(q) <=> Merging(p))
    BY <1>3, <2>3, CommitNext, Zenon DEF c
  <2> QED BY <1>3, <2>4, Zenon DEF view, v
<1> QED BY <1>2, <1>3, Zenon

\* Ending a merge does not touch the next generation.
LEMMA EndNext ==
    ASSUME NEW p, NEW c, NEW view, NextGeneration(p, c, view), NEW q, q = EndMerge(c)
    PROVE  NextGeneration(p, q, view) /\ ~Merging(q)
<1>1. /\ PoolOK(q) /\ Epoch(q) = Epoch(c) /\ ~Merging(q)
      /\ q.writer = c.writer /\ q.token = c.token
      /\ \A t \in Slots : /\ q.slot[t].state = c.slot[t].state
                          /\ q.slot[t].epoch = c.slot[t].epoch
                          /\ q.slot[t].view = c.slot[t].view
  BY EndOK DEF NextGeneration
<1>2. c.writer \in Slots BY Zenon DEF NextGeneration, PoolOK
<1>3. Writer(q).view = view BY <1>1, <1>2, Zenon DEF NextGeneration, Writer
<1>4. \A t \in Slots \ {q.writer} : SameSlot(p, q, t) BY <1>1 DEF NextGeneration, SameSlot
<1> QED BY <1>1, <1>3, <1>4, Zenon DEF NextGeneration

\* A snapshot of the Store becomes the next generation, ...
LEMMA SnapshotOK ==
    ASSUME NEW p, PoolOK(p), NEW s \in Slots, p.slot[s].state = "free", NEW contents, NEW upto,
           NEW q, q = EndMerge(PublishSnapshot(p, s, contents, upto))
    PROVE  /\ NextGeneration(p, q, [base |-> contents, delta |-> Nothing, upto |-> upto])
           /\ ~Merging(q)
<1> DEFINE view == [base |-> contents, delta |-> Nothing, upto |-> upto]
           c == Commit(p, s, view)
           d == PublishSnapshot(p, s, contents, upto)
<1>1. DOMAIN c = Fields BY CommitOK DEF PoolOK
<1>2. d = [c EXCEPT !.first = 0, !.second = 0] BY Zenon DEF PublishSnapshot
<1> HIDE DEF c, d, view
<1>3. DOMAIN d = Fields /\ d.slot = c.slot /\ d.writer = c.writer /\ d.token = c.token
      /\ d.merge = c.merge
  BY <1>1, <1>2, Zenon DEF Fields
<1>4. NextGeneration(p, d, view) BY <1>3, CommitNext, Zenon DEF c
<1>5. q = EndMerge(d) BY Zenon DEF d
<1> QED BY <1>4, <1>5, EndNext, Zenon DEF view

\* ... and so does what a merge made.
LEMMA FinishOK ==
    ASSUME NEW p, PoolOK(p), NEW s \in Slots, p.slot[s].state = "free",
           NEW q, q = EndMerge(FinishMerge(p, s))
    PROVE  /\ NextGeneration(p, q, [base |-> [k \in Keys |-> Lookup(p.slot[p.merge.cut].view, k)],
                                    delta |-> p.merge.post, upto |-> Writer(p).view.upto])
           /\ ~Merging(q)
<1> DEFINE cut == p.slot[p.merge.cut].view
           view == [base |-> [k \in Keys |-> Lookup(cut, k)],
                    delta |-> p.merge.post, upto |-> Writer(p).view.upto]
           c == Commit(p, s, view)
           d == FinishMerge(p, s)
<1>1. DOMAIN c = Fields BY CommitOK DEF PoolOK
<1>2. d = [c EXCEPT !.first = p.merge.versions, !.second = 0] BY Zenon DEF FinishMerge
<1>5. q = EndMerge(d) BY Zenon
<1> HIDE DEF c, d, view
<1>3. DOMAIN d = Fields /\ d.slot = c.slot /\ d.writer = c.writer /\ d.token = c.token
      /\ d.merge = c.merge
  BY <1>1, <1>2, Zenon DEF Fields
<1>4. NextGeneration(p, d, view) BY <1>3, CommitNext, Zenon DEF c
<1>6. NextGeneration(p, q, view) /\ ~Merging(q) BY <1>4, <1>5, EndNext, Zenon
<1> QED BY <1>6, Zenon DEF view

\* Slots are only freed: the retired ones before epoch e.
Swept(p, q, e) ==
    /\ PoolOK(q) /\ q.writer = p.writer /\ q.merge = p.merge /\ Writer(q) = Writer(p)
    /\ \A t \in Slots : \/ p.slot[t].state = "retired" /\ p.slot[t].epoch < e
                             /\ q.slot[t].state = "free"
                        \/ q.slot[t] = p.slot[t]

\* Shutdown ends the merge, revokes the publication and sweeps.
LEMMA ShutdownOK ==
    ASSUME NEW p, PoolOK(p), NEW q, q = Shutdown(p)
    PROVE  \E c : /\ PoolOK(c) /\ ~Merging(c) /\ c.writer = p.writer
                  /\ \A t \in Slots : SameSlot(p, c, t)
                  /\ Swept(c, q, Epoch(p) + 1)
<1> DEFINE d == EndMerge(p)
           c == [d EXCEPT !.token = 0]
<1>1. /\ PoolOK(d) /\ Epoch(d) = Epoch(p) /\ ~Merging(d) /\ d.writer = p.writer
      /\ \A t \in Slots : SameSlot(p, d, t)
  BY EndOK DEF SameSlot
<1>2. q = Reclaim(c, Epoch(p) + 1) BY Zenon DEF Shutdown
<1> HIDE DEF d
<1>3. /\ DOMAIN c = Fields /\ c.slot = d.slot /\ c.writer = d.writer /\ c.merge = d.merge
  <2>1. DOMAIN d = Fields BY <1>1, Zenon DEF PoolOK
  <2> QED BY <2>1, Zenon DEF Fields
<1> HIDE DEF c
<1>4. PoolOK(c) /\ ~Merging(c) BY <1>1, <1>3, SameSlots, Zenon
<1>5. \A t \in Slots : SameSlot(p, c, t) BY <1>1, <1>3, Zenon DEF SameSlot
<1>6. Epoch(p) \in Nat BY Zenon DEF Epoch, Writer, PoolOK, SlotOK
<1>7. Swept(c, q, Epoch(p) + 1)
  <2>1. Epoch(p) + 1 \in Nat BY <1>6
  <2> QED BY <1>2, <1>4, <2>1, ReclaimOK, Zenon DEF Swept
<1> QED BY <1>1, <1>3, <1>4, <1>5, <1>7, Zenon

\* Advance only counts down what the merge has left.
LEMMA AdvanceOK ==
    ASSUME NEW p, PoolOK(p), Merging(p), NEW n, NEW q, q = Advance(p, n)
    PROVE  Same(p, q) /\ Merging(q) /\ q.merge.cut = p.merge.cut /\ q.merge.post = p.merge.post
<1>1. DOMAIN p = Fields /\ DOMAIN p.merge = MergeFields BY Zenon DEF PoolOK, MergeOK
<1>2. /\ DOMAIN q = Fields /\ q.slot = p.slot
      /\ q.writer = p.writer /\ q.token = p.token
      /\ DOMAIN q.merge = MergeFields /\ q.merge.cut = p.merge.cut /\ q.merge.post = p.merge.post
  BY <1>1, AdvanceFields
<1>3. PoolOK(q) /\ Merging(q) BY <1>2, SameSlots, Zenon
<1> QED BY <1>2, <1>3, Zenon DEF Same, SameSlot

(***************************************************************************)
(* What a step of the executor does to the pool.                           *)
(***************************************************************************)
ExFields == {"pc", "chunk", "rest", "applied", "staged", "spins", "records", "quiescent", "then", "ret",
             "published", "committed", "final", "pending"}
Returns == {"idle", "admit", "check", "reply", "closed"}
Admissions == {"apply", "execute", "capture", "publish"}

ExOK(e) == DOMAIN e = ExFields /\ e.ret \in Returns /\ e.then \in Returns \cup {"merge", "finish"}

\* What a step of the executor may do to the pool.
PoolStep ==
    \/ pool' = pool
    \/ Same(pool, pool')
    \/ \E view : NextGeneration(pool, pool', view)
    \/ ex.pc = "sweep" /\ pool' = Reclaim(pool, ex.quiescent)

ExecutorStep ==
    /\ read' = read /\ owner' = owner /\ ExOK(ex')
    /\ ex'.pc = "sweep" => ex'.quiescent = QuiescentEpoch(pool')
    /\ ex'.pc \in Admissions =>
        pool' = pool /\ (ex.pc \in Admissions \/ Retired(pool) < MaxRetired)
    /\ PoolStep

\* The executor before it has the token.
LEMMA IdleOK ==
    /\ DOMAIN IdleEx = ExFields /\ ExOK(IdleEx) /\ IdleEx.pc = "idle"
<1>1. DOMAIN IdleEx = ExFields BY Zenon DEF IdleEx, ExFields
<1>2. IdleEx.ret = "idle" /\ IdleEx.then = "idle" /\ IdleEx.pc = "idle" BY Zenon DEF IdleEx
<1> QED BY <1>1, <1>2, Zenon DEF ExOK, Returns

\* Only the program counter and other fields that the pool does not depend on.
LEMMA TakeBatchStep == ASSUME ExOK(ex), TakeBatch PROVE ExecutorStep
<1>1. ex' = [ex EXCEPT !.pc = "peek"] \/ ex' = [ex EXCEPT !.pc = "next", !.rest = Reverse(lane)]
      \/ (ex' = ex /\ ex.pc = "take")
  BY Zenon DEF TakeBatch
<1>2. ex'.pc \in {"peek", "next", "take"} /\ ExOK(ex')
  BY <1>1, Zenon DEF TakeBatch, ExOK, ExFields
<1> QED BY <1>2, Zenon DEF TakeBatch, Elsewhere, ExecutorStep, PoolStep, Admissions

\* NextChunk leaves the pool alone.
LEMMA NextChunkStep == ASSUME ExOK(ex), NextChunk PROVE ExecutorStep
<1> DEFINE n == ChunkSize(ex.rest)
<1>1. \/ ex' = [ex EXCEPT !.pc = "take"] \/ ex' = [ex EXCEPT !.pc = "take", !.rest = <<>>]
      \/ ex' = [IdleEx EXCEPT !.pc = "house", !.ret = "admit", !.records = n,
                              !.chunk = SubSeq(ex.rest, 1, n),
                              !.rest = SubSeq(ex.rest, n + 1, Len(ex.rest))]
  BY Zenon DEF NextChunk
<1> HIDE DEF n
<1>2. ex'.pc \in {"take", "house"} /\ ExOK(ex')
  BY <1>1, IdleOK, Zenon DEF ExOK, ExFields, Returns
<1> QED BY <1>2, Zenon DEF NextChunk, Elsewhere, ExecutorStep, PoolStep, Admissions

\* Housekeep leaves the pool alone; the epoch it sweeps to is quiescent.
LEMMA HousekeepStep == ASSUME ExOK(ex), Housekeep PROVE ExecutorStep
<1>1. \/ ex' = [ex EXCEPT !.pc = "sweep", !.quiescent = QuiescentEpoch(pool), !.then = "merge"]
      \/ ex' = [ex EXCEPT !.pc = "merge"]
  BY Zenon DEF Housekeep
<1>2. /\ ex'.pc \in {"sweep", "merge"} /\ ExOK(ex')
      /\ ex'.pc = "sweep" => ex'.quiescent = QuiescentEpoch(pool)
  BY <1>1, Zenon DEF ExOK, ExFields
<1> QED BY <1>2, Zenon DEF Housekeep, Elsewhere, ExecutorStep, PoolStep, Admissions, QuiescentEpoch

\* Sweep reclaims to the epoch that was found quiescent.
LEMMA SweepStep == ASSUME ExOK(ex), Sweep PROVE ExecutorStep
<1>1. ex' = [ex EXCEPT !.pc = ex.then] BY Zenon DEF Sweep
<1>2. ex'.pc = ex.then /\ ExOK(ex') BY <1>1, Zenon DEF ExOK, ExFields
<1>3. ex'.pc \notin Admissions \cup {"sweep"} BY <1>2, Zenon DEF ExOK, Returns, Admissions
<1> QED BY <1>2, <1>3, Zenon DEF Sweep, Elsewhere, ExecutorStep, PoolStep

\* MergeStep starts, advances or ends a merge.
LEMMA MergeStepStep == ASSUME ExOK(ex), PoolOK(pool), MergeStep PROVE ExecutorStep
<1> DEFINE started == IF MergeDue(pool) THEN StartMerge(pool) ELSE pool
           moved   == IF MergeReady(started) THEN started ELSE Advance(started, ex.records)
<1>1. \/ pool' = pool /\ ex' = [ex EXCEPT !.pc = ex.ret]
      \/ pool' = EndMerge(started) /\ ex' = [ex EXCEPT !.pc = ex.ret]
      \/ /\ Merging(started) /\ pool' = moved
         /\ \/ ex' = [ex EXCEPT !.pc = "sweep", !.quiescent = QuiescentEpoch(moved), !.then = "finish"]
            \/ ex' = [ex EXCEPT !.pc = ex.ret]
  BY Zenon DEF MergeStep
<1>2. Same(pool, started)
  <2>1. CASE MergeDue(pool) BY <2>1, StartOK DEF MergeDue, Same, SameSlot
  <2>2. CASE ~MergeDue(pool) BY <2>2, Zenon DEF Same, SameSlot
  <2> QED BY <2>1, <2>2, Zenon
<1> HIDE DEF started
<1>3. PoolOK(started) BY <1>2, Zenon DEF Same
<1>4. Merging(started) => Same(started, moved)
  <2>1. CASE MergeReady(started) BY <1>3, <2>1, Zenon DEF Same, SameSlot
  <2>2. CASE ~MergeReady(started) BY <1>3, <2>2, AdvanceOK, Zenon
  <2> QED BY <2>1, <2>2, Zenon
<1>5. Same(started, EndMerge(started)) BY <1>3, EndOK DEF Same, SameSlot
<1> HIDE DEF moved
<1>6. Same(pool, pool') \/ pool' = pool BY <1>1, <1>2, <1>4, <1>5 DEF Same, SameSlot
<1>7. /\ ex'.pc \in {"sweep", ex.ret} /\ ExOK(ex')
      /\ ex'.pc = "sweep" /\ ex.ret # "sweep" => ex'.quiescent = QuiescentEpoch(pool')
  BY <1>1, Zenon DEF ExOK, ExFields
<1>8. ex.ret \notin Admissions \cup {"sweep"} BY Zenon DEF ExOK, Returns, Admissions
<1> QED BY <1>6, <1>7, <1>8, Zenon DEF MergeStep, Elsewhere, ExecutorStep, PoolStep, Admissions

\* MergeFinish publishes what the merge made, or gives it up.
LEMMA MergeFinishStep == ASSUME ExOK(ex), PoolOK(pool), MergeFinish PROVE ExecutorStep
<1>1. \/ pool' = pool /\ ex' = [ex EXCEPT !.pc = ex.ret]
      \/ pool' = EndMerge(pool) /\ ex' = [ex EXCEPT !.pc = ex.ret]
      \/ /\ Retired(pool) < MaxRetired
         /\ pool' = EndMerge(FinishMerge(pool, TryReserve(pool)))
         /\ ex' = [ex EXCEPT !.pc = "sweep", !.quiescent = QuiescentEpoch(pool'), !.then = ex.ret]
  BY Zenon DEF MergeFinish
<1>2. Same(pool, EndMerge(pool)) BY EndOK DEF Same, SameSlot
<1>3. Retired(pool) < MaxRetired => TryReserve(pool) \in Slots /\ pool.slot[TryReserve(pool)].state = "free"
  BY Pigeonhole, Reserved, Zenon
<1>4. Retired(pool) < MaxRetired =>
        \E view : NextGeneration(pool, EndMerge(FinishMerge(pool, TryReserve(pool))), view)
  BY <1>3, FinishOK, Zenon
<1>5. PoolStep BY <1>1, <1>2, <1>4, Zenon DEF PoolStep
<1>7. /\ ex'.pc \in {"sweep", ex.ret} /\ ExOK(ex')
      /\ ex'.pc = "sweep" /\ ex.ret # "sweep" => ex'.quiescent = QuiescentEpoch(pool')
  BY <1>1, Zenon DEF ExOK, ExFields
<1>8. ex.ret \notin Admissions \cup {"sweep"} BY Zenon DEF ExOK, Returns, Admissions
<1> QED BY <1>5, <1>7, <1>8, Zenon DEF MergeFinish, Elsewhere, ExecutorStep, Admissions

\* What Proportional leaves of the executor.
LEMMA ProportionalOK ==
    ASSUME NEW e, ExOK(e), NEW p, NEW pc \in Returns, Proportional(e, p, pc)
    PROVE  ExOK(ex') /\ ex'.pc \in {"house", pc}
<1>1. \/ ex' = [e EXCEPT !.pc = "house", !.records = 0, !.ret = pc] \/ ex' = [e EXCEPT !.pc = pc]
  BY Zenon DEF Proportional
<1> QED BY <1>1, Zenon DEF ExOK, ExFields

\* Admit lets a chunk through only while a slot is free.
LEMMA AdmitStep == ASSUME ExOK(ex), Admit PROVE ExecutorStep
<1>1. \/ ex' = [ex EXCEPT !.pc = "take", !.rest = <<>>]
      \/ /\ Retired(pool) < MaxRetired
         /\ ex' = [ex EXCEPT !.pc = IF env.durable THEN "execute" ELSE "apply"]
      \/ ex' = [ex EXCEPT !.pc = "house", !.spins = ex.spins + 1]
      \/ ex' = [ex EXCEPT !.pc = "next"]
  BY Zenon DEF Admit, Admitted
<1>2. /\ ex'.pc \in {"take", "execute", "apply", "house", "next"} /\ ExOK(ex')
      /\ ex'.pc \in {"execute", "apply"} => Retired(pool) < MaxRetired
  BY <1>1, Zenon DEF ExOK, ExFields
<1> QED BY <1>2, Zenon DEF Admit, Elsewhere, ExecutorStep, PoolStep, Admissions

\* AdmitFails leaves the pool alone.
LEMMA AdmitFailsStep == ASSUME ExOK(ex), AdmitFails PROVE ExecutorStep
<1>1. ex' = [ex EXCEPT !.pc = "take", !.rest = <<>>] BY Zenon DEF AdmitFails
<1>2. ex'.pc = "take" /\ ExOK(ex') BY <1>1, Zenon DEF ExOK, ExFields
<1> QED BY <1>2, Zenon DEF AdmitFails, Elsewhere, ExecutorStep, PoolStep, Admissions

\* What AfterNode leaves of the executor.
LEMMA AfterNodeOK ==
    ASSUME NEW e, ExOK(e), NEW f, f = AfterNode(e)
    PROVE  ExOK(f) /\ f.pc \in {"apply", "reply", "publish"}
  BY Zenon DEF AfterNode, ExOK, ExFields

\* Apply leaves the pool alone.
LEMMA ApplyStep == ASSUME ExOK(ex), Apply PROVE ExecutorStep
<1> DEFINE id == ex.chunk[ex.applied + 1]
           more == [ex EXCEPT !.staged = Append(ex.staged, Staged(id, log))]
<1>1. /\ ex.pc = "apply"
      /\ \/ ex' = [ex EXCEPT !.pc = "next"] \/ ex' = AfterNode(ex) \/ ex' = AfterNode(more)
         \/ ex' = [ex EXCEPT !.pc = "reply"]
  BY Zenon DEF Apply
<1>2. ExOK(more) BY Zenon DEF ExOK, ExFields
<1> HIDE DEF more
<1>3. ex'.pc \in {"next", "apply", "reply", "publish"} /\ ExOK(ex')
  <2>1. CASE ex' = [ex EXCEPT !.pc = "next"] \/ ex' = [ex EXCEPT !.pc = "reply"]
    BY <2>1, Zenon DEF ExOK, ExFields
  <2>2. CASE ex' = AfterNode(ex) BY <2>2, AfterNodeOK, Zenon
  <2>3. CASE ex' = AfterNode(more) BY <1>2, <2>3, AfterNodeOK, Zenon
  <2> QED BY <1>1, <2>1, <2>2, <2>3, Zenon
<1> QED BY <1>1, <1>3, Zenon DEF Apply, Elsewhere, ExecutorStep, PoolStep, Admissions

\* Publish makes a next generation, or leaves the pool alone.
LEMMA PublishStep == ASSUME ExOK(ex), PoolOK(pool), Publish PROVE ExecutorStep
<1> DEFINE next == IF env.durable THEN "check" ELSE "reply"
           done == [ex EXCEPT !.published = TRUE]
<1>1. next \in Returns BY Zenon DEF Returns
<1>2. ExOK(done) BY Zenon DEF ExOK, ExFields
<1>3. \/ pool' = pool /\ (ex' = [ex EXCEPT !.pc = next] \/ ex' = [ex EXCEPT !.pc = "drain"]
                           \/ ex' = [ex EXCEPT !.pc = "reply"])
      \/ /\ FreeSlots(pool) # {} /\ pool' = PublishIncremental(pool, TryReserve(pool), ex.staged)
         /\ \/ Proportional(done, pool', next)
            \/ ex' = [ex EXCEPT !.pc = next, !.published = TRUE]
  BY Zenon DEF Publish
<1> HIDE DEF next, done
<1>4. PoolStep
  <2>1. FreeSlots(pool) # {} =>
           \E view : NextGeneration(pool, PublishIncremental(pool, TryReserve(pool), ex.staged), view)
    BY Reserved, PublishOK, Zenon
  <2> QED BY <1>3, <2>1, Zenon DEF PoolStep
<1>5. ExOK(ex') /\ ex'.pc \in {"house", "drain", "reply", next}
  <2>1. CASE Proportional(done, pool', next) BY <1>1, <1>2, <2>1, ProportionalOK, Zenon
  <2>2. CASE ~Proportional(done, pool', next)
    BY <1>3, <2>2, Zenon DEF ExOK, ExFields
  <2> QED BY <2>1, <2>2, Zenon
<1>6. ex'.pc \in {"house", "drain", "reply", "check"} BY <1>5, Zenon DEF next
<1> QED BY <1>4, <1>5, <1>6, Zenon DEF Publish, Elsewhere, ExecutorStep, Admissions

\* Reply leaves the pool alone, ...
LEMMA ReplyStep == ASSUME ExOK(ex), Reply PROVE ExecutorStep
<1>1. ex' = [ex EXCEPT !.pc = "next"] BY Zenon DEF Reply
<1>2. ex'.pc = "next" /\ ExOK(ex') BY <1>1, Zenon DEF ExOK, ExFields
<1> QED BY <1>2, Zenon DEF Reply, Elsewhere, ExecutorStep, PoolStep, Admissions

\* ... and so does Execute, ...
LEMMA ExecuteStep == ASSUME ExOK(ex), Execute PROVE ExecutorStep
<1>1. /\ ex.pc = "execute"
      /\ \/ ex' = [ex EXCEPT !.pc = "check"]
         \/ ex' = [ex EXCEPT !.pc = IF req[Node].op = "put" THEN "capture" ELSE "publish",
                                  !.staged = <<Staged(Node, log)>>, !.committed = TRUE]
         \/ ex' = [ex EXCEPT !.pc = "drain", !.committed = TRUE]
         \/ ex' = [ex EXCEPT !.pc = "drain"]
  BY Zenon DEF Execute
<1>2. ex'.pc \in {"check", "capture", "publish", "drain"} /\ ExOK(ex')
  BY <1>1, Zenon DEF ExOK, ExFields
<1> QED BY <1>1, <1>2, Zenon DEF Execute, Elsewhere, ExecutorStep, PoolStep, Admissions

\* ... and Capture.
LEMMA CaptureStep == ASSUME ExOK(ex), Capture PROVE ExecutorStep
<1>1. ex.pc = "capture" /\ (ex' = [ex EXCEPT !.pc = "drain"] \/ ex' = [ex EXCEPT !.pc = "publish"])
  BY Zenon DEF Capture
<1>2. ex'.pc \in {"drain", "publish"} /\ ExOK(ex') BY <1>1, Zenon DEF ExOK, ExFields
<1> QED BY <1>1, <1>2, Zenon DEF Capture, Elsewhere, ExecutorStep, PoolStep, Admissions

\* Drain makes a next generation, or leaves the pool alone.
LEMMA DrainStep == ASSUME ExOK(ex), PoolOK(pool), Drain PROVE ExecutorStep
<1> DEFINE done == [ex EXCEPT !.published = TRUE]
           q == EndMerge(PublishSnapshot(pool, TryReserve(pool), Contents(log, Len(log)), Len(log)))
<1>2. ExOK(done) BY Zenon DEF ExOK, ExFields
<1>3. \/ pool' = pool /\ ex' = [ex EXCEPT !.pc = "closed"]
      \/ FreeSlots(pool) # {} /\ pool' = q /\ Proportional(done, pool', "closed")
  BY Zenon DEF Drain
<1> HIDE DEF done
<1>4. PoolStep
  <2>1. FreeSlots(pool) # {} => \E view : NextGeneration(pool, q, view)
    BY Reserved, SnapshotOK, Zenon
  <2> QED BY <1>3, <2>1, Zenon DEF PoolStep
<1> HIDE DEF q
<1>5. ExOK(ex') /\ ex'.pc \in {"house", "closed"}
  <2>1. CASE Proportional(done, pool', "closed")
    <3>1. "closed" \in Returns BY Zenon DEF Returns
    <3> QED BY <1>2, <2>1, <3>1, ProportionalOK, Zenon
  <2>2. CASE ~Proportional(done, pool', "closed")
    BY <1>3, <2>2, Zenon DEF ExOK, ExFields
  <2> QED BY <2>1, <2>2, Zenon
<1> QED BY <1>4, <1>5, Zenon DEF Drain, Elsewhere, ExecutorStep, Admissions

\* Closed leaves the pool alone, ...
LEMMA ClosedStep == ASSUME ExOK(ex), Closed PROVE ExecutorStep
<1>1. ex' = [ex EXCEPT !.pc = IF ex.final THEN "reply" ELSE "check"] BY Zenon DEF Closed
<1>2. ex'.pc \in {"reply", "check"} /\ ExOK(ex') BY <1>1, Zenon DEF ExOK, ExFields
<1> QED BY <1>2, Zenon DEF Closed, Elsewhere, ExecutorStep, PoolStep, Admissions

\* ... and so do Check, ...
LEMMA CheckStep == ASSUME ExOK(ex), Check PROVE ExecutorStep
<1>1. ex' = [ex EXCEPT !.pc = "reply"] \/ ex' = [ex EXCEPT !.pc = "drain", !.final = TRUE]
  BY Zenon DEF Check
<1>2. ex'.pc \in {"reply", "drain"} /\ ExOK(ex') BY <1>1, Zenon DEF ExOK, ExFields
<1> QED BY <1>2, Zenon DEF Check, Elsewhere, ExecutorStep, PoolStep, Admissions

\* ... PeekThenRelease ...
LEMMA PeekStep == ASSUME ExOK(ex), PeekThenRelease PROVE ExecutorStep
<1>1. ex' = [ex EXCEPT !.pc = "release", !.pending = (lane # <<>>)] BY Zenon DEF PeekThenRelease
<1>2. ex'.pc = "release" /\ ExOK(ex') BY <1>1, Zenon DEF ExOK, ExFields
<1> QED BY <1>2, Zenon DEF PeekThenRelease, ExecutorStep, PoolStep, Admissions

\* ... and Release.
LEMMA ReleaseStep == ASSUME Release PROVE ExecutorStep
  BY IdleOK, Zenon DEF Release, ExecutorStep, PoolStep, Admissions

\* Every step of the executor is one of those.
LEMMA ExecutorSteps == ASSUME ExOK(ex), PoolOK(pool), Executor PROVE ExecutorStep
  BY TakeBatchStep, NextChunkStep, HousekeepStep, SweepStep, MergeStepStep, MergeFinishStep,
     AdmitStep, AdmitFailsStep, ApplyStep, PublishStep, ReplyStep, ExecuteStep, CaptureStep,
     DrainStep,
     ClosedStep, CheckStep, PeekStep, ReleaseStep, Zenon DEF Executor

(***************************************************************************)
(* No generation is reclaimed under a Reader or a merge.                   *)
(***************************************************************************)
Gone == {"finalized", "incomplete"}

ReaderOK(r) ==
    /\ DOMAIN read[r] = {"pc", "slot", "epoch"}
    /\ read[r].pc # "idle" => owner \notin Gone
    /\ read[r].pc = "holding" =>
        /\ read[r].slot \in Slots /\ pool.slot[read[r].slot].state # "free"
        /\ read[r].epoch = pool.slot[read[r].slot].epoch

SweepOK ==
    ex.pc = "sweep" =>
        /\ ex.quiescent \in Nat /\ ex.quiescent <= Epoch(pool)
        /\ \A r \in Readers : read[r].pc = "holding" => ex.quiescent <= read[r].epoch

SlotInv ==
    /\ PoolOK(pool) /\ ExOK(ex)
    /\ DOMAIN read = Readers /\ \A r \in Readers : ReaderOK(r)
    /\ owner \notin Gone => pool.token = pool.writer
    /\ SweepOK /\ AdmittedFindsSlot

\* An epoch is a natural number.
LEMMA EpochNat == ASSUME NEW p, PoolOK(p) PROVE Epoch(p) \in Nat
  BY Zenon DEF Epoch, Writer, PoolOK, SlotOK

\* Without leases no Reader holds a generation.
LEMMA NoLeases == ASSUME Leases = 0 PROVE \A r \in Readers : read[r].pc = "idle"
<1> DEFINE S == {r \in Readers : read[r].pc # "idle"}
<1>1. Leases = Cardinality(S) BY Zenon DEF Leases, Quantify
<1>2. IsFiniteSet(S) BY PairLaneAssumption, FS_Subset, Zenon
<1>3. S = {} BY <1>1, <1>2, FS_EmptySet, Zenon
<1> QED BY <1>3, Zenon

\* The pool of a Store that opens is sound.
LEMMA SlotInit == ASSUME Init PROVE SlotInv
<1>1. /\ DOMAIN pool = Fields /\ pool.writer = 1 /\ pool.token = 1 /\ pool.merge = NoMerge
      /\ pool.slot = [s \in Slots |-> [FreedSlot EXCEPT !.state = IF s = 1 THEN "published" ELSE "free"]]
  <2>1. FreedSlot.state = "free" BY Zenon DEF FreedSlot
  <2> QED BY <2>1, Zenon DEF Init, EmptyPool, Fields
<1>2. /\ DOMAIN FreedSlot = SlotFields /\ FreedSlot.epoch = 0 /\ FreedSlot.pins = 0
  BY Zenon DEF FreedSlot, SlotFields
<1>3. ASSUME NEW s \in Slots
      PROVE  /\ DOMAIN pool.slot[s] = SlotFields
             /\ pool.slot[s].state = IF s = 1 THEN "published" ELSE "free"
             /\ pool.slot[s].epoch = 0 /\ pool.slot[s].pins = 0
  <2>1. pool.slot[s] = [FreedSlot EXCEPT !.state = IF s = 1 THEN "published" ELSE "free"]
    BY <1>1, Zenon
  <2> QED BY <1>2, <2>1, Zenon DEF SlotFields
<1>4. ~Merging(pool) BY <1>1, Zenon DEF Merging
<1>5. DOMAIN pool.slot = Slots BY <1>1, Zenon
<1>9. pool.writer \in Slots BY <1>1, SlotsFinite, Zenon
<1>8. Epoch(pool) = 0 BY <1>3, <1>9, Zenon DEF Epoch, Writer
<1>10. pool.writer = 1 /\ DOMAIN pool = Fields /\ pool.token = 1 BY <1>1, Zenon
<1>6. \A s \in Slots : SlotOK(pool, s) BY <1>3, <1>4, <1>8, <1>10 DEF SlotOK
<1>7. PoolOK(pool) BY <1>10, <1>4, <1>5, <1>6, <1>9, Zenon DEF PoolOK, MergeOK
<1>11. ExOK(ex) /\ ex.pc = "idle" BY IdleOK, Zenon DEF Init
<1>12. DOMAIN read = Readers /\ \A r \in Readers : read[r] = IdleRead BY Zenon DEF Init
<1>13. DOMAIN IdleRead = {"pc", "slot", "epoch"} /\ IdleRead.pc = "idle" BY Zenon DEF IdleRead
<1>14. \A r \in Readers : ReaderOK(r) BY <1>12, <1>13, Zenon DEF ReaderOK
<1> QED BY <1>7, <1>10, <1>11, <1>12, <1>14, Zenon DEF SlotInv, SweepOK, AdmittedFindsSlot

\* The readers' side of a step that keeps every generation in use.
LEMMA ReadersKept ==
    ASSUME read' = read, \A r \in Readers : ReaderOK(r), owner' = owner \/ \A r \in Readers : read[r].pc = "idle",
           \A r \in Readers : read[r].pc = "holding" =>
               /\ (pool.slot[read[r].slot].state = "free") <=> (pool'.slot[read[r].slot].state = "free")
               /\ pool.slot[read[r].slot].epoch = pool'.slot[read[r].slot].epoch
    PROVE  \A r \in Readers : ReaderOK(r)'
  BY Zenon DEF ReaderOK

\* The steps of the executor keep the slots, ...
LEMMA ExecutorKeeps == ASSUME SlotInv, ExecutorStep PROVE SlotInv'
<1> USE DEF SlotInv
<1>1. read' = read /\ owner' = owner /\ ExOK(ex') BY Zenon DEF ExecutorStep
<1>2. /\ PoolOK(pool')
      /\ owner \notin Gone => pool'.token = pool'.writer
      /\ \A r \in Readers : read[r].pc = "holding" =>
               /\ (pool.slot[read[r].slot].state = "free") <=> (pool'.slot[read[r].slot].state = "free")
               /\ pool.slot[read[r].slot].epoch = pool'.slot[read[r].slot].epoch
  <2>1. CASE pool' = pool BY <2>1, Zenon
  <2>2. CASE Same(pool, pool') BY <2>2, Zenon DEF Same, SameSlot, ReaderOK
  <2>3. ASSUME NEW view, NextGeneration(pool, pool', view) PROVE <1>2!:
    BY <2>3, Zenon DEF NextGeneration, SameSlot, ReaderOK
  <2>4. CASE ex.pc = "sweep" /\ pool' = Reclaim(pool, ex.quiescent)
    <3>1. ex.quiescent \in Nat /\ \A r \in Readers : read[r].pc = "holding" => ex.quiescent <= read[r].epoch
      BY <2>4, Zenon DEF SweepOK
    <3>2. /\ PoolOK(pool') /\ pool'.writer = pool.writer /\ pool'.token = pool.token
          /\ \A t \in Slots : \/ pool.slot[t].state = "retired" /\ pool.slot[t].epoch < ex.quiescent
                                    /\ pool'.slot[t].state = "free"
                              \/ pool'.slot[t] = pool.slot[t]
      BY <2>4, <3>1, ReclaimOK, Zenon
    <3>3. ASSUME NEW r \in Readers, read[r].pc = "holding"
          PROVE pool'.slot[read[r].slot] = pool.slot[read[r].slot]
      <4>1. /\ read[r].slot \in Slots /\ read[r].epoch = pool.slot[read[r].slot].epoch
            /\ pool.slot[read[r].slot].epoch \in Nat
        BY <3>3, Zenon DEF ReaderOK, PoolOK, SlotOK
      <4> QED BY <3>1, <3>2, <3>3, <4>1
    <3> QED BY <3>2, <3>3, Zenon
  <2> QED BY <2>1, <2>2, <2>3, <2>4, Zenon DEF ExecutorStep, PoolStep
<1>3. \A r \in Readers : ReaderOK(r)' BY <1>1, <1>2, ReadersKept, Zenon
<1>4. SweepOK'
  <2>1. ex'.pc = "sweep" => ex'.quiescent = QuiescentEpoch(pool') BY Zenon DEF ExecutorStep
  <2>2. \A r \in Readers : read'[r].pc = "holding" => read'[r].epoch \in Nat
    BY <1>2, <1>3 DEF ReaderOK, PoolOK, SlotOK
  <2>3. QuiescentEpoch(pool') = IF Leases = 0 THEN Epoch(pool') ELSE 0 BY Zenon DEF QuiescentEpoch
  <2>4. Epoch(pool') \in Nat BY <1>2, EpochNat, Zenon
  <2>5. CASE Leases = 0
    <3>1. \A r \in Readers : read'[r].pc = "idle" BY <1>1, <2>5, NoLeases, Zenon
    <3> QED BY <2>1, <2>3, <2>4, <2>5, <3>1 DEF SweepOK
  <2>6. CASE Leases # 0
    <3>1. ex'.pc = "sweep" => ex'.quiescent = 0 BY <2>1, <2>3, <2>6, Zenon
    <3> QED BY <2>2, <2>4, <3>1 DEF SweepOK
  <2> QED BY <2>5, <2>6, Zenon
<1>5. AdmittedFindsSlot'
  <2>1. ASSUME ex'.pc \in Admissions PROVE FreeSlots(pool') # {}
    <3>1. pool' = pool /\ (ex.pc \in Admissions \/ Retired(pool) < MaxRetired)
      BY <2>1, Zenon DEF ExecutorStep
    <3> QED BY <3>1, Pigeonhole, Zenon DEF AdmittedFindsSlot, Admissions
  <2> QED BY <2>1, Zenon DEF AdmittedFindsSlot, Admissions
<1> QED BY <1>1, <1>2, <1>3, <1>4, <1>5, Zenon

\* ... so does the shutdown, after which nobody reads, ...
LEMMA FinalizeKeeps == ASSUME SlotInv, FinalizeReaderShutdown PROVE SlotInv'
<1> USE DEF SlotInv
<1>2. /\ pool' = Shutdown(pool) /\ read' = read /\ ex' = ex /\ owner' \in Gone
      /\ \A r \in Readers : read[r].pc = "idle"
  <2>1. Leases \in Nat
    <3> DEFINE S == {r \in Readers : read[r].pc # "idle"}
    <3>1. Leases = Cardinality(S) BY Zenon DEF Leases, Quantify
    <3>2. IsFiniteSet(S) BY PairLaneAssumption, FS_Subset, Zenon
    <3> QED BY <3>1, <3>2, FS_CardinalityType, Zenon
  <2>2. Leases = 0 BY <2>1 DEF FinalizeReaderShutdown, Operating
  <2>3. \A r \in Readers : read[r].pc = "idle" BY <2>2, NoLeases, Zenon
  <2> QED BY <2>3, Zenon DEF FinalizeReaderShutdown, Gone
<1>3. PICK c : /\ PoolOK(c) /\ ~Merging(c) /\ c.writer = pool.writer
               /\ \A t \in Slots : SameSlot(pool, c, t)
               /\ Swept(c, pool', Epoch(pool) + 1)
  BY <1>2, ShutdownOK, Zenon
<1>4. PoolOK(pool') /\ Epoch(pool') = Epoch(pool)
  <2>1. PoolOK(pool') /\ Writer(pool') = Writer(c) BY <1>3, Zenon DEF Swept
  <2>2. Writer(c).epoch = Writer(pool).epoch BY <1>3, Zenon DEF Writer, SameSlot, PoolOK
  <2> QED BY <2>1, <2>2, Zenon DEF Epoch
<1>5. FreeSlots(pool) \subseteq FreeSlots(pool') BY <1>3, Zenon DEF Swept, SameSlot, FreeSlots
<1>6. \A r \in Readers : ReaderOK(r)' BY <1>2, Zenon DEF ReaderOK
<1>7. SweepOK' BY <1>2, <1>4, Zenon DEF SweepOK
<1>8. AdmittedFindsSlot' BY <1>2, <1>5, Zenon DEF AdmittedFindsSlot
<1> QED BY <1>2, <1>4, <1>6, <1>7, <1>8, Zenon

\* ... so do the Readers, ...
LEMMA ReaderKeeps ==
    ASSUME SlotInv, NEW r \in Readers, Lease(r) \/ Adopt(r) \/ Drop(r)
    PROVE  SlotInv'
<1> USE DEF SlotInv
<1>1. pool' = pool /\ ex' = ex /\ owner' = owner BY Zenon DEF Lease, Adopt, Drop
<1>2. /\ DOMAIN read' = Readers /\ \A s \in Readers \ {r} : read'[s] = read[s]
      /\ \/ /\ owner \in {"open", "closing"} /\ read'[r] = [read[r] EXCEPT !.pc = "leased"]
         \/ /\ read[r].pc = "leased"
            /\ read'[r] = [pc |-> "holding", slot |-> pool.token, epoch |-> pool.slot[pool.token].epoch]
         \/ read'[r] = IdleRead
  BY Zenon DEF Lease, Adopt, Drop
<1>3. DOMAIN IdleRead = {"pc", "slot", "epoch"} /\ IdleRead.pc = "idle" BY Zenon DEF IdleRead
<1>4. /\ DOMAIN read'[r] = {"pc", "slot", "epoch"}
      /\ \/ owner \in {"open", "closing"} /\ read'[r].pc = "leased"
         \/ /\ read[r].pc = "leased" /\ read'[r].pc = "holding" /\ read'[r].slot = pool.token
            /\ read'[r].epoch = pool.slot[pool.token].epoch
         \/ read'[r].pc = "idle"
  <2>1. DOMAIN read[r] = {"pc", "slot", "epoch"} BY Zenon DEF ReaderOK
  <2>2. CASE owner \in {"open", "closing"} /\ read'[r] = [read[r] EXCEPT !.pc = "leased"]
    BY <2>1, <2>2, Zenon
  <2>3. CASE /\ read[r].pc = "leased"
             /\ read'[r] = [pc |-> "holding", slot |-> pool.token, epoch |-> pool.slot[pool.token].epoch]
    BY <2>3
  <2>4. CASE read'[r] = IdleRead BY <1>3, <2>4, Zenon
  <2> QED BY <1>2, <2>2, <2>3, <2>4, Zenon
<1>5. /\ pool.writer \in Slots /\ pool.slot[pool.writer].state = "published"
      /\ Epoch(pool) = pool.slot[pool.writer].epoch
  BY Zenon DEF PoolOK, SlotOK, Epoch, Writer
<1>6. owner \in {"open", "closing"} => owner \notin Gone BY Zenon DEF Gone
<1>11. \A s \in Readers \ {r} : read'[s] = read[s] BY <1>2, Zenon
<1>7. ReaderOK(r)' BY <1>1, <1>4, <1>5, <1>6, Zenon DEF ReaderOK
<1>8. \A s \in Readers : ReaderOK(s)' BY <1>1, <1>11, <1>7, Zenon DEF ReaderOK
<1>9. SweepOK'
  <2>1. ASSUME ex.pc = "sweep", NEW s \in Readers, read'[s].pc = "holding" PROVE ex.quiescent <= read'[s].epoch
    <3>1. CASE s # r BY <1>11, <2>1, <3>1, Zenon DEF SweepOK
    <3>2. CASE s = r
      <4>1. read[r].pc = "leased" /\ read'[r].epoch = pool.slot[pool.token].epoch
        BY <1>4, <2>1, <3>2, Zenon
      <4>2. pool.token = pool.writer BY <4>1, Zenon DEF ReaderOK
      <4> QED BY <1>5, <2>1, <3>2, <4>1, <4>2, Zenon DEF SweepOK
    <3> QED BY <3>1, <3>2, Zenon
  <2> QED BY <1>1, <2>1, Zenon DEF SweepOK
<1>10. AdmittedFindsSlot' BY <1>1, Zenon DEF AdmittedFindsSlot
<1>12. DOMAIN read' = Readers BY <1>2, Zenon
<1> QED BY <1>1, <1>12, <1>8, <1>9, <1>10, Zenon

\* ... and so do the other threads.
LEMMA OthersKeep ==
    ASSUME SlotInv, pool' = pool, read' = read, owner' = owner \/ (owner' \notin Gone /\ owner \notin Gone),
           ex' = ex \/ (ExOK(ex') /\ ex'.pc = "take")
    PROVE  SlotInv'
<1> USE DEF SlotInv
<1>1. ex' = ex \/ (ExOK(ex') /\ ex'.pc = "take") BY Zenon
<1>2. SweepOK' /\ AdmittedFindsSlot' BY <1>1, Zenon DEF SweepOK, AdmittedFindsSlot
<1>3. \A r \in Readers : ReaderOK(r)' BY Zenon DEF ReaderOK
<1>4. ExOK(ex') BY <1>1, Zenon
<1>5. PoolOK(pool') BY Zenon
<1>6. DOMAIN read' = Readers /\ (owner' \notin Gone => pool'.token = pool'.writer) BY Zenon
<1> QED BY <1>2, <1>3, <1>4, <1>5, <1>6, Zenon

\* SlotInv is inductive, ...
LEMMA SlotStep == ASSUME SlotInv, [Next]_vars PROVE SlotInv'
<1>1. CASE Executor BY <1>1, ExecutorSteps, ExecutorKeeps, Zenon DEF SlotInv
<1>2. CASE FinalizeReaderShutdown BY <1>2, FinalizeKeeps, Zenon
<1>3. CASE \E r \in Readers : Lease(r) \/ Adopt(r) \/ Drop(r) BY <1>3, ReaderKeeps, Zenon
<1>4. CASE StopAndDrain \/ Close \/ Backup \/ OtherLane \/ UNCHANGED vars
  <2>1. pool' = pool /\ read' = read /\ ex' = ex /\ (owner' = owner \/ (owner' \notin Gone /\ owner \notin Gone))
    <3>1. CASE StopAndDrain BY <3>1, Zenon DEF StopAndDrain, Gone
    <3>2. CASE Close BY <3>2, Zenon DEF Close, Gone
    <3>3. CASE Backup BY <3>3, Zenon DEF Backup
    <3>4. CASE OtherLane BY <3>4, Zenon DEF OtherLane
    <3>5. CASE UNCHANGED vars BY <3>5, Zenon DEF vars
    <3> QED BY <1>4, <3>1, <3>2, <3>3, <3>4, <3>5, Zenon
  <2> QED BY <2>1, OthersKeep, Zenon
<1>5. CASE \E c \in Callers : Enter(c) \/ Caller(c)
  <2>1. pool' = pool /\ read' = read /\ owner' = owner /\ (ex' = ex \/ ex' = [IdleEx EXCEPT !.pc = "take"])
    BY <1>5, Zenon DEF Enter, Caller, Push, Refused, Acquire, Miss, Return
  <2>2. LET e == [IdleEx EXCEPT !.pc = "take"] IN ExOK(e) /\ e.pc = "take"
    BY IdleOK, Zenon DEF ExOK, ExFields
  <2>3. ex' = ex \/ (ExOK(ex') /\ ex'.pc = "take") BY <2>1, <2>2, Zenon
  <2>4. pool' = pool /\ read' = read /\ owner' = owner BY <2>1, Zenon
  <2> QED BY <2>3, <2>4, OthersKeep, Zenon
<1> QED BY <1>1, <1>2, <1>3, <1>4, <1>5, Zenon DEF Next, Owner

\* ... and implies SlotsAreKept.
LEMMA SlotsKept == SlotInv => SlotsAreKept
  BY Zenon DEF SlotInv, SlotsAreKept, HeldGenerationsStay, ReaderOK, PoolOK, MergeOK

\* The generation under a Reader's lease and the cut of a merge are never reclaimed
\* (reclaim_quiescent_generations, GenerationSlotPool::reclaim), and a mutation that admission let
\* through finds a slot (decide_generation_admission, try_reserve).
THEOREM GenerationsAreKept == Spec => []SlotsAreKept
<1>1. Init => SlotInv BY SlotInit, Zenon
<1>2. SlotInv /\ [Next]_vars => SlotInv' BY SlotStep, Zenon
<1> QED BY <1>1, <1>2, SlotsKept, PTL DEF Spec

(***************************************************************************)
(* Views and the log.                                                      *)
(***************************************************************************)
Statuses == {"pending", "success", "rejected", "absent", "unavailable"}
Pos == Nat \ {0}
Nodes == [key : Keys, op : {"put", "erase"}, status : Statuses, done : BOOLEAN]
Entries == [id : Pos, key : Keys, op : {"put", "erase"}]
Marks == [id : Pos, key : Keys, op : {"put", "erase"}, pos : Pos]

\* The view of a generation is what log l held at upto.
ViewOK(v, l) ==
    /\ DOMAIN v.base = Keys /\ DOMAIN v.delta \subseteq Keys /\ v.upto \in 0 .. Len(l)
    /\ \A k \in Keys : Lookup(v, k) = Contents(l, v.upto)[k]

Over(post, v, k) == IF k \in DOMAIN post THEN post[k] ELSE Lookup(v, k)

\* Post over the view c is the view v.
Splits(v, post, c) ==
    DOMAIN post \subseteq Keys /\ \A k \in Keys : Lookup(v, k) = Over(post, c, k)

\* Batch b over the view v is the view w.
Overwrites(w, v, b) ==
    \A k \in Keys : Lookup(w, k) = IF LastOf(b, k) > 0 THEN Value(b[LastOf(b, k)]) ELSE Lookup(v, k)

\* What was published since the cut is what tells the writer's view from it.
MergedOK(p) ==
    Merging(p) => Splits(Writer(p).view, p.merge.post, p.slot[p.merge.cut].view)

Views(p, l) == \A s \in Slots : p.slot[s].state # "free" => ViewOK(p.slot[s].view, l)

\* The staged mutations are the last of the log.
StagedTail(staged, l, upto) ==
    /\ staged \in Seq(Marks) /\ upto \in Nat /\ Len(l) = upto + Len(staged)
    /\ \A i \in 1 .. Len(staged) :
        /\ staged[i].pos = upto + i /\ staged[i].id = l[upto + i].id
        /\ staged[i].key = l[upto + i].key /\ staged[i].op = l[upto + i].op

At(l, n, k) == Max({0} \cup {i \in 1 .. n : l[i].key = k})

\* The last of the first n mutations of a key, ...
LEMMA AtFacts ==
    ASSUME NEW l, NEW n \in Nat, NEW k
    PROVE  /\ At(l, n, k) \in 0 .. n
           /\ At(l, n, k) > 0 => l[At(l, n, k)].key = k
           /\ \A i \in 1 .. n : l[i].key = k => i <= At(l, n, k)
<1> DEFINE S == {0} \cup {i \in 1 .. n : l[i].key = k}
<1>1. S \subseteq 0 .. n /\ S # {} OBVIOUS
<1>2. Max(S) \in S /\ \A y \in S : y <= Max(S) BY <1>1, GreatestOf, Zenon
<1>3. At(l, n, k) = Max(S) BY Zenon DEF At
<1> HIDE DEF S
<1>4. At(l, n, k) \in S /\ \A y \in S : y <= At(l, n, k) BY <1>2, <1>3, Zenon
<1> QED BY <1>4 DEF S

\* ... and there is one.
LEMMA AtUnique ==
    ASSUME NEW l, NEW n \in Nat, NEW k, NEW m \in 0 .. n,
           m > 0 => l[m].key = k, \A i \in 1 .. n : l[i].key = k => i <= m
    PROVE  At(l, n, k) = m
<1>1. /\ At(l, n, k) \in 0 .. n
      /\ At(l, n, k) > 0 => l[At(l, n, k)].key = k
      /\ \A i \in 1 .. n : l[i].key = k => i <= At(l, n, k)
  BY AtFacts, Zenon
<1> HIDE DEF At
<1>2. m <= At(l, n, k) BY <1>1
<1>3. At(l, n, k) <= m BY <1>1
<1> QED BY <1>1, <1>2, <1>3

\* Contents is decided by that mutation.
LEMMA ContentsAt ==
    ASSUME NEW l, NEW n, NEW k \in Keys
    PROVE  Contents(l, n)[k] = IF At(l, n, k) > 0 /\ l[At(l, n, k)].op = "put" THEN At(l, n, k) ELSE 0
  BY Zenon DEF Contents, At

\* A log that grows keeps its past.
LEMMA ContentsStable ==
    ASSUME NEW l, NEW m, NEW n \in Nat, \A i \in 1 .. n : m[i] = l[i]
    PROVE  Contents(m, n) = Contents(l, n)
<1>1. ASSUME NEW k \in Keys PROVE At(m, n, k) = At(l, n, k)
  <2>1. {i \in 1 .. n : m[i].key = k} = {i \in 1 .. n : l[i].key = k} BY Zenon
  <2> QED BY <2>1, Zenon DEF At
<1>2. ASSUME NEW k \in Keys PROVE Contents(m, n)[k] = Contents(l, n)[k]
  <2>1. At(l, n, k) \in 0 .. n BY AtFacts, Zenon
  <2>2. At(l, n, k) > 0 => m[At(l, n, k)] = l[At(l, n, k)] BY <2>1
  <2>3. At(m, n, k) = At(l, n, k) BY <1>1, Zenon
  <2> QED BY <2>2, <2>3, ContentsAt
<1>3. Contents(m, n) = [k \in Keys |-> Contents(m, n)[k]] BY Zenon DEF Contents
<1>4. Contents(l, n) = [k \in Keys |-> Contents(l, n)[k]] BY Zenon DEF Contents
<1> QED BY <1>2, <1>3, <1>4, Zenon

\* The last mutation of a key in a batch.
LEMMA LastOfFacts ==
    ASSUME NEW b \in Seq(Marks), NEW k
    PROVE  /\ LastOf(b, k) \in 0 .. Len(b)
           /\ LastOf(b, k) > 0 => b[LastOf(b, k)].key = k
           /\ \A i \in 1 .. Len(b) : b[i].key = k => i <= LastOf(b, k)
<1>1. DOMAIN b = 1 .. Len(b) /\ Len(b) \in Nat OBVIOUS
<1>2. LastOf(b, k) = At(b, Len(b), k) BY <1>1, Zenon DEF LastOf, At
<1> QED BY <1>1, <1>2, AtFacts

\* The log with the batch is the log before it, overwritten by the batch.
LEMMA ContentsWritten ==
    ASSUME NEW l \in Seq(Entries), NEW b, NEW u, StagedTail(b, l, u), NEW k \in Keys
    PROVE  Contents(l, Len(l))[k] = IF LastOf(b, k) > 0 THEN Value(b[LastOf(b, k)]) ELSE Contents(l, u)[k]
<1> DEFINE n == Len(b)
           j == LastOf(b, k)
<1>1. b \in Seq(Marks) /\ u \in Nat /\ Len(l) = u + n /\ n \in Nat BY DEF StagedTail
<1>2. \A i \in 1 .. n : b[i].pos = u + i /\ b[i].key = l[u + i].key /\ b[i].op = l[u + i].op
  BY Zenon DEF StagedTail
<1>3. j \in 0 .. n /\ (j > 0 => b[j].key = k) /\ \A i \in 1 .. n : b[i].key = k => i <= j
  BY <1>1, LastOfFacts, Zenon
<1> HIDE DEF j, n
<1>4. CASE j > 0
  <2>1. j \in 1 .. n BY <1>3, <1>4
  <2>2. u + j \in 0 .. u + n /\ u + j > 0 /\ l[u + j].key = k BY <1>1, <1>2, <1>3, <1>4, <2>1
  <2>3. ASSUME NEW i \in 1 .. u + n, l[i].key = k PROVE i <= u + j
    <3>1. CASE i <= u BY <1>1, <2>1, <3>1
    <3>2. CASE i > u
      <4>1. i - u \in 1 .. n /\ u + (i - u) = i BY <1>1, <3>2
      <4>2. b[i - u].key = k BY <1>2, <2>3, <4>1, Zenon
      <4>3. i - u <= j BY <1>3, <4>1, <4>2, Zenon
      <4> QED BY <1>1, <1>3, <4>3
    <3> QED BY <1>1, <3>1, <3>2
  <2>4. At(l, u + n, k) = u + j
    <3>1. u + n \in Nat BY <1>1
    <3> QED BY <2>2, <2>3, <3>1, AtUnique, Zenon
  <2>5. Contents(l, u + n)[k] = IF l[u + j].op = "put" THEN u + j ELSE 0
    BY <2>2, <2>4, ContentsAt, Zenon
  <2>6. Value(b[j]) = IF l[u + j].op = "put" THEN u + j ELSE 0 BY <1>2, <2>1, Zenon DEF Value
  <2> QED BY <1>1, <1>4, <2>5, <2>6, Zenon DEF j
<1>5. CASE ~(j > 0)
  <2>1. \A i \in 1 .. n : b[i].key # k BY <1>3, <1>5
  <2>2. /\ At(l, u, k) \in 0 .. u /\ (At(l, u, k) > 0 => l[At(l, u, k)].key = k)
        /\ \A i \in 1 .. u : l[i].key = k => i <= At(l, u, k)
    BY <1>1, AtFacts, Zenon
  <2>3. PICK m \in 0 .. u : m = At(l, u, k) BY <2>2, Zenon
  <2>4. ASSUME NEW i \in 1 .. u + n, l[i].key = k PROVE i <= m
    <3>1. CASE i <= u BY <1>1, <2>2, <2>3, <2>4, <3>1
    <3>2. CASE i > u
      <4>1. i - u \in 1 .. n /\ u + (i - u) = i BY <1>1, <3>2
      <4> QED BY <1>2, <2>1, <2>4, <4>1, Zenon
    <3> QED BY <1>1, <3>1, <3>2
  <2>5. At(l, u + n, k) = m
    <3>1. u + n \in Nat /\ m \in 0 .. u + n BY <1>1
    <3> QED BY <2>2, <2>3, <2>4, <3>1, AtUnique, Zenon
  <2>6. Contents(l, u + n)[k] = Contents(l, u)[k] BY <2>3, <2>5, ContentsAt
  <2> QED BY <1>1, <1>5, <2>6, Zenon DEF j
<1> QED BY <1>4, <1>5, Zenon

\* What Written makes of a delta.
LEMMA WrittenFacts ==
    ASSUME NEW d, DOMAIN d \subseteq Keys, NEW b \in Seq(Marks), NEW w, w = Written(d, b)
    PROVE  /\ DOMAIN w \subseteq Keys
           /\ \A k \in Keys : /\ k \in DOMAIN w <=> k \in DOMAIN d \/ LastOf(b, k) > 0
                              /\ k \in DOMAIN w => w[k] = IF LastOf(b, k) > 0 THEN Value(b[LastOf(b, k)]) ELSE d[k]
<1>1. DOMAIN b = 1 .. Len(b) /\ Len(b) \in Nat OBVIOUS
<1>2. \A i \in DOMAIN b : b[i].key \in Keys
  <2>1. \A i \in DOMAIN b : b[i] \in Marks OBVIOUS
  <2>2. \A x \in Marks : x.key \in Keys BY Zenon DEF Marks
  <2> QED BY <2>1, <2>2, Zenon
<1>3. DOMAIN w = DOMAIN d \cup {b[i].key : i \in DOMAIN b} BY Zenon DEF Written
<1>4. ASSUME NEW k PROVE k \in {b[i].key : i \in DOMAIN b} <=> LastOf(b, k) > 0
  <2>1. /\ LastOf(b, k) \in 0 .. Len(b)
        /\ LastOf(b, k) > 0 => b[LastOf(b, k)].key = k
        /\ \A i \in 1 .. Len(b) : b[i].key = k => i <= LastOf(b, k)
    BY LastOfFacts, Zenon
  <2> HIDE DEF LastOf
  <2>2. ASSUME NEW i \in DOMAIN b, k = b[i].key PROVE LastOf(b, k) > 0 BY <1>1, <2>1, <2>2
  <2>3. ASSUME LastOf(b, k) > 0 PROVE LastOf(b, k) \in DOMAIN b BY <1>1, <2>1, <2>3
  <2> QED BY <2>1, <2>2, <2>3, Zenon
<1>5. ASSUME NEW k \in DOMAIN w PROVE w[k] = IF LastOf(b, k) > 0 THEN Value(b[LastOf(b, k)]) ELSE d[k]
  BY <1>3, Zenon DEF Written
<1> QED BY <1>2, <1>3, <1>4, <1>5

\* The next generation's view, and what a merge keeps of it.
LEMMA PublishedView ==
    ASSUME NEW l \in Seq(Entries), NEW v, ViewOK(v, l), NEW b, StagedTail(b, l, v.upto), b # <<>>,
           NEW w, w = [base |-> v.base, delta |-> Written(v.delta, b), upto |-> b[Len(b)].pos]
    PROVE  ViewOK(w, l) /\ w.upto = Len(l) /\ Overwrites(w, v, b)
<1>1. b \in Seq(Marks) /\ Len(b) \in Nat /\ Len(b) > 0 BY DEF StagedTail
<1>2. b[Len(b)].pos = Len(l) BY <1>1 DEF StagedTail
<1>3. w.base = v.base /\ w.delta = Written(v.delta, b) /\ w.upto = Len(l) BY <1>2, Zenon
<1>4. DOMAIN v.base = Keys /\ DOMAIN v.delta \subseteq Keys BY Zenon DEF ViewOK
<1>5. /\ DOMAIN w.delta \subseteq Keys
      /\ \A k \in Keys : /\ k \in DOMAIN w.delta <=> k \in DOMAIN v.delta \/ LastOf(b, k) > 0
                         /\ k \in DOMAIN w.delta =>
                              w.delta[k] = IF LastOf(b, k) > 0 THEN Value(b[LastOf(b, k)]) ELSE v.delta[k]
  BY <1>1, <1>3, <1>4, WrittenFacts
<1>6. ASSUME NEW k \in Keys
      PROVE Lookup(w, k) = IF LastOf(b, k) > 0 THEN Value(b[LastOf(b, k)]) ELSE Lookup(v, k)
  BY <1>3, <1>5, Zenon DEF Lookup
<1>7. ASSUME NEW k \in Keys PROVE Lookup(w, k) = Contents(l, Len(l))[k]
  <2>1. Lookup(v, k) = Contents(l, v.upto)[k] BY Zenon DEF ViewOK
  <2> QED BY <1>6, <2>1, ContentsWritten, Zenon
<1> QED BY <1>3, <1>4, <1>5, <1>6, <1>7 DEF ViewOK, Overwrites

\* What is published during a merge goes to its post delta too.
LEMMA PublishedPost ==
    ASSUME NEW b \in Seq(Marks), NEW post, NEW v, NEW c, NEW w, Splits(v, post, c), Overwrites(w, v, b)
    PROVE  Splits(w, Written(post, b), c)
<1> DEFINE d == Written(post, b)
<1>1. /\ DOMAIN d \subseteq Keys
      /\ \A k \in Keys : /\ k \in DOMAIN d <=> k \in DOMAIN post \/ LastOf(b, k) > 0
                         /\ k \in DOMAIN d => d[k] = IF LastOf(b, k) > 0 THEN Value(b[LastOf(b, k)]) ELSE post[k]
  BY WrittenFacts, Zenon DEF Splits
<1> HIDE DEF d
<1>2. ASSUME NEW k \in Keys PROVE Lookup(w, k) = Over(d, c, k)
  <2>1. Lookup(w, k) = IF LastOf(b, k) > 0 THEN Value(b[LastOf(b, k)]) ELSE Over(post, c, k)
    BY Zenon DEF Splits, Overwrites
  <2> QED BY <1>1, <2>1, Zenon DEF Over
<1> QED BY <1>1, <1>2, Zenon DEF d, Splits

\* Views stay true while the log grows.
LEMMA ViewsGrow ==
    ASSUME NEW p, NEW l \in Seq(Entries), NEW x \in Entries, Views(p, l)
    PROVE  Views(p, Append(l, x))
<1> DEFINE m == Append(l, x)
<1>1. Len(m) = Len(l) + 1 /\ \A i \in 1 .. Len(l) : m[i] = l[i] OBVIOUS
<1> HIDE DEF m
<1>2. ASSUME NEW v, ViewOK(v, l) PROVE ViewOK(v, m)
  <2>1. v.upto \in 0 .. Len(l) /\ Len(l) \in Nat BY <1>2 DEF ViewOK
  <2>2. Contents(m, v.upto) = Contents(l, v.upto) BY <1>1, <2>1, ContentsStable
  <2> QED BY <1>1, <1>2, <2>1, <2>2 DEF ViewOK
<1> QED BY <1>2, Zenon DEF Views, m

(***************************************************************************)
(* The operators on the pool keep its history.                             *)
(***************************************************************************)
\* The views of a pool are history, and its merge is between two of them.
Historic(p, l) == PoolOK(p) /\ Views(p, l) /\ MergedOK(p)
Upto(p) == Writer(p).view.upto

\* The generation of the writer is one of the pool.
LEMMA WriterView == ASSUME NEW p, NEW l, Historic(p, l) PROVE ViewOK(Writer(p).view, l)
<1>1. p.writer \in Slots /\ p.slot[p.writer].state = "published"
  BY Zenon DEF Historic, PoolOK, SlotOK
<1> QED BY <1>1, Zenon DEF Historic, Views, Writer

\* A pool with the same generations shows the same history.
LEMMA SameHistory ==
    ASSUME NEW p, NEW l, Historic(p, l), NEW q, Same(p, q), MergedOK(q)
    PROVE  Historic(q, l) /\ Upto(q) = Upto(p)
<1>1. p.writer \in Slots BY Zenon DEF Historic, PoolOK
<1> QED BY <1>1, Zenon DEF Historic, Same, SameSlot, Views, Upto, Writer

\* A merge starts with an empty post delta over its cut, ...
LEMMA StartHistory ==
    ASSUME NEW p, NEW l, Historic(p, l), ~Merging(p), NEW q, q = StartMerge(p)
    PROVE  Historic(q, l) /\ Upto(q) = Upto(p) /\ Merging(q)
<1>0. PoolOK(p) /\ p.writer \in Slots BY Zenon DEF Historic, PoolOK
<1>1. /\ PoolOK(q) /\ Merging(q)
      /\ q.writer = p.writer /\ q.token = p.token
      /\ q.merge.cut = p.writer /\ q.merge.post = Nothing
      /\ \A t \in Slots : /\ q.slot[t].state = p.slot[t].state
                          /\ q.slot[t].epoch = p.slot[t].epoch
                          /\ q.slot[t].view = p.slot[t].view
  BY <1>0, StartOK
<1>2. Same(p, q) BY <1>1, Zenon DEF Same, SameSlot
<1>3. DOMAIN Nothing = {} BY Zenon DEF Nothing
<1>4. MergedOK(q) BY <1>1, <1>3, Zenon DEF MergedOK, Splits, Over, Writer
<1> QED BY <1>1, <1>2, <1>4, SameHistory, Zenon

\* ... its advance changes no view, ...
LEMMA AdvanceHistory ==
    ASSUME NEW p, NEW l, Historic(p, l), Merging(p), NEW n, NEW q, q = Advance(p, n)
    PROVE  Historic(q, l) /\ Upto(q) = Upto(p) /\ Merging(q)
<1>0. PoolOK(p) /\ p.writer \in Slots /\ p.merge.cut \in Slots
  BY Zenon DEF Historic, PoolOK, MergeOK
<1>1. Same(p, q) /\ Merging(q) /\ q.merge.cut = p.merge.cut /\ q.merge.post = p.merge.post
  BY <1>0, AdvanceOK, Zenon
<1>2. Writer(q).view = Writer(p).view /\ q.slot[p.merge.cut].view = p.slot[p.merge.cut].view
  BY <1>0, <1>1, Zenon DEF Same, SameSlot, Writer
<1>3. MergedOK(q) BY <1>1, <1>2, Zenon DEF MergedOK, Historic
<1> QED BY <1>1, <1>3, SameHistory, Zenon

\* ... and neither does its end.
LEMMA EndHistory ==
    ASSUME NEW p, NEW l, Historic(p, l), NEW q, q = EndMerge(p)
    PROVE  Historic(q, l) /\ Upto(q) = Upto(p) /\ ~Merging(q)
<1>1. Same(p, q) /\ ~Merging(q) BY EndOK DEF Historic, Same, SameSlot
<1>2. MergedOK(q) BY <1>1, Zenon DEF MergedOK
<1> QED BY <1>1, <1>2, SameHistory, Zenon

\* A next generation with a true view keeps the history.
LEMMA NextHistory ==
    ASSUME NEW p, NEW l, Historic(p, l), NEW q, NEW view, NextGeneration(p, q, view),
           ViewOK(view, l), MergedOK(q)
    PROVE  Historic(q, l) /\ Upto(q) = view.upto
<1>1. PoolOK(q) /\ q.writer \in Slots /\ Writer(q).view = view BY Zenon DEF NextGeneration, PoolOK
<1>2. ASSUME NEW t \in Slots, q.slot[t].state # "free" PROVE ViewOK(q.slot[t].view, l)
  <2>1. CASE t = q.writer BY <1>1, <2>1, Zenon DEF Writer
  <2>2. CASE t # q.writer BY <1>2, <2>2, Zenon DEF NextGeneration, SameSlot, Historic, Views
  <2> QED BY <2>1, <2>2, Zenon
<1> QED BY <1>1, <1>2, Zenon DEF Historic, Views, Upto

\* A batch that is the tail of the log brings the writer in step with it.
LEMMA PublishHistory ==
    ASSUME NEW p, NEW l \in Seq(Entries), Historic(p, l), NEW s \in Slots, p.slot[s].state = "free",
           NEW b, StagedTail(b, l, Upto(p)), b # <<>>,
           NEW q, q = PublishIncremental(p, s, b)
    PROVE  Historic(q, l) /\ Upto(q) = Len(l)
<1> DEFINE v == Writer(p).view
           w == [base |-> v.base, delta |-> Written(v.delta, b), upto |-> b[Len(b)].pos]
<1>0. PoolOK(p) BY Zenon DEF Historic
<1>1. /\ NextGeneration(p, q, w) /\ (Merging(q) <=> Merging(p))
      /\ Merging(p) => q.merge.cut = p.merge.cut /\ q.merge.post = Written(p.merge.post, b)
  BY <1>0, PublishOK
<1>2. ViewOK(v, l) BY WriterView, Zenon
<1>3. ViewOK(w, l) /\ w.upto = Len(l) /\ Overwrites(w, v, b) BY <1>2, PublishedView, Zenon DEF Upto
<1>4. b \in Seq(Marks) BY Zenon DEF StagedTail
<1> HIDE DEF w, v
<1>5. ASSUME Merging(p) PROVE MergedOK(q)
  <2> DEFINE c == p.slot[p.merge.cut].view
             post == p.merge.post
  <2>1. Splits(v, post, c) BY <1>5, Zenon DEF Historic, MergedOK, v
  <2> HIDE DEF c, post
  <2>2. Splits(w, Written(post, b), c) BY <1>3, <1>4, <2>1, PublishedPost, Zenon
  <2>3. /\ p.merge.cut \in Slots /\ p.slot[p.merge.cut].state # "free"
        /\ p.slot[q.writer].state = "free"
    BY <1>0, <1>1, <1>5, Zenon DEF PoolOK, MergeOK, NextGeneration
  <2>4. q.slot[q.merge.cut].view = c BY <1>1, <1>5, <2>3, Zenon DEF NextGeneration, SameSlot, c
  <2>5. Writer(q).view = w BY <1>1, Zenon DEF NextGeneration
  <2> QED BY <1>1, <1>5, <2>2, <2>4, <2>5, Zenon DEF MergedOK, post
<1>6. MergedOK(q) BY <1>1, <1>5, Zenon DEF MergedOK
<1> QED BY <1>1, <1>3, <1>6, NextHistory, Zenon

\* So does a snapshot.
LEMMA SnapshotHistory ==
    ASSUME NEW p, NEW l \in Seq(Entries), Historic(p, l), NEW s \in Slots, p.slot[s].state = "free",
           NEW q, q = EndMerge(PublishSnapshot(p, s, Contents(l, Len(l)), Len(l)))
    PROVE  Historic(q, l) /\ Upto(q) = Len(l) /\ ~Merging(q)
<1> DEFINE w == [base |-> Contents(l, Len(l)), delta |-> Nothing, upto |-> Len(l)]
<1>1. NextGeneration(p, q, w) /\ ~Merging(q) BY SnapshotOK, Zenon DEF Historic
<1>2. w.base = Contents(l, Len(l)) /\ w.delta = Nothing /\ w.upto = Len(l) BY Zenon
<1>3. DOMAIN Nothing = {} BY Zenon DEF Nothing
<1>4. DOMAIN Contents(l, Len(l)) = Keys BY Zenon DEF Contents
<1>5. Len(l) \in Nat OBVIOUS
<1> HIDE DEF w
<1>6. ViewOK(w, l) BY <1>2, <1>3, <1>4, <1>5 DEF ViewOK, Lookup
<1>7. MergedOK(q) BY <1>1, Zenon DEF MergedOK
<1> QED BY <1>1, <1>2, <1>6, <1>7, NextHistory, Zenon

\* A merge that is finished shows what the writer showed.
LEMMA FinishHistory ==
    ASSUME NEW p, NEW l, Historic(p, l), Merging(p), NEW s \in Slots, p.slot[s].state = "free",
           NEW q, q = EndMerge(FinishMerge(p, s))
    PROVE  Historic(q, l) /\ Upto(q) = Upto(p) /\ ~Merging(q)
<1> DEFINE c == p.slot[p.merge.cut].view
           v == Writer(p).view
           w == [base |-> [k \in Keys |-> Lookup(c, k)], delta |-> p.merge.post, upto |-> v.upto]
<1>1. NextGeneration(p, q, w) /\ ~Merging(q) BY FinishOK, Zenon DEF Historic
<1>2. /\ w.delta = p.merge.post /\ w.upto = v.upto /\ DOMAIN w.base = Keys
      /\ \A k \in Keys : w.base[k] = Lookup(c, k)
  BY Zenon
<1>3. /\ DOMAIN p.merge.post \subseteq Keys
      /\ \A k \in Keys : Lookup(v, k) = Over(p.merge.post, c, k)
  BY Zenon DEF Historic, MergedOK, Splits
<1>4. ViewOK(v, l) BY WriterView, Zenon
<1> HIDE DEF w, v, c
<1>5. \A k \in Keys : Lookup(w, k) = Lookup(v, k) BY <1>2, <1>3, Zenon DEF Lookup, Over
<1>6. ViewOK(w, l) BY <1>2, <1>3, <1>4, <1>5, Zenon DEF ViewOK
<1>7. MergedOK(q) BY <1>1, Zenon DEF MergedOK
<1> QED BY <1>1, <1>2, <1>6, <1>7, NextHistory DEF v, Upto

\* A sweep keeps the history, ...
LEMMA SweptHistory ==
    ASSUME NEW p, NEW l, Historic(p, l), NEW e, NEW q, Swept(p, q, e)
    PROVE  Historic(q, l) /\ Upto(q) = Upto(p) /\ (Merging(q) <=> Merging(p))
<1>1. PoolOK(q) /\ q.merge = p.merge /\ Writer(q) = Writer(p) BY Zenon DEF Swept
<1>2. Merging(q) <=> Merging(p) BY <1>1, Zenon DEF Merging
<1>3. Views(q, l) BY Zenon DEF Swept, Views, Historic
<1>4. ASSUME Merging(p) PROVE q.slot[p.merge.cut] = p.slot[p.merge.cut]
  <2>1. /\ p.merge.cut \in Slots /\ q.slot[p.merge.cut].state # "free"
    BY <1>1, <1>2, <1>4, Zenon DEF PoolOK, MergeOK
  <2> QED BY <2>1, Zenon DEF Swept
<1>5. MergedOK(q) BY <1>1, <1>2, <1>4, Zenon DEF MergedOK, Historic
<1> QED BY <1>1, <1>2, <1>3, <1>5, Zenon DEF Historic, Upto

\* ... so does Reclaim ...
LEMMA ReclaimHistory ==
    ASSUME NEW p, NEW l, Historic(p, l), NEW e \in Nat, NEW q, q = Reclaim(p, e)
    PROVE  Historic(q, l) /\ Upto(q) = Upto(p) /\ (Merging(q) <=> Merging(p))
<1>1. Swept(p, q, e) BY ReclaimOK DEF Swept, Historic
<1> QED BY <1>1, SweptHistory, Zenon

\* ... and Shutdown.
LEMMA ShutdownHistory ==
    ASSUME NEW p, NEW l, Historic(p, l), NEW q, q = Shutdown(p)
    PROVE  Historic(q, l) /\ Upto(q) = Upto(p)
<1>1. PICK c : /\ PoolOK(c) /\ ~Merging(c) /\ c.writer = p.writer
               /\ \A t \in Slots : SameSlot(p, c, t)
               /\ Swept(c, q, Epoch(p) + 1)
  BY ShutdownOK, Zenon DEF Historic
<1>2. MergedOK(c) BY <1>1, Zenon DEF MergedOK
<1>3. Views(c, l) BY <1>1, Zenon DEF Views, SameSlot, Historic
<1>4. Upto(c) = Upto(p) BY <1>1, Zenon DEF Upto, Writer, SameSlot, PoolOK
<1> QED BY <1>1, <1>2, <1>3, <1>4, SweptHistory, Zenon DEF Historic

(***************************************************************************)
(* The invariant of the lane.                                              *)
(***************************************************************************)
\* A Store that is not durable does not throw.
NoVolatileThrow == \A e \in Environments : e.durable \/ "thrown" \notin e.kinds

Busy == {"house", "sweep", "merge", "finish"}
Resting == {"check", "reply", "next", "take", "peek", "release", "idle"}
Durable == {"execute", "capture", "drain", "closed", "check"}
Idle == {"next", "take", "peek", "release", "idle"}
Pcs == Busy \cup Resting \cup Durable \cup {"admit", "apply", "publish"}

Before == ex.pc \in {"admit", "execute"} \/ (ex.pc \in Busy /\ ex.ret = "admit")
InStep == Writer(pool).view.upto = Len(log)

\* Node id has not reached the Store: nothing that has was pushed after it.
Fresh(id) ==
    /\ id <= Len(req) /\ req[id].status = "pending"
    /\ \A at \in 1 .. Len(log) : log[at].id < id

Sorted(q) == \A i, j \in 1 .. Len(q) : i < j => q[i] < q[j]
Below(p, q) == \A i \in 1 .. Len(p), j \in 1 .. Len(q) : p[i] < q[j]

QueueInv ==
    /\ req \in Seq(Nodes) /\ log \in Seq(Entries)
    /\ lane \in Seq(Pos) /\ ex.rest \in Seq(Pos) /\ ex.chunk \in Seq(Pos)
    /\ \A i \in 1 .. Len(log) : log[i].id <= Len(req)
    /\ \A i \in 1 .. Len(ex.chunk) : ex.chunk[i] <= Len(req)
    /\ \A i \in 1 .. Len(lane) : Fresh(lane[i])
    /\ \A i \in 1 .. Len(ex.rest) : Fresh(ex.rest[i])
    /\ \A i, j \in 1 .. Len(lane) : i < j => lane[j] < lane[i]
    /\ Sorted(ex.chunk) /\ Sorted(ex.rest)
    /\ Below(ex.chunk, ex.rest) /\ Below(ex.chunk, lane) /\ Below(ex.rest, lane)
    /\ \A i, j \in 1 .. Len(log) : i < j => log[i].id < log[j].id
    /\ \A i \in 1 .. Len(req) : req[i].status \in {"rejected", "absent"} =>
            \A at \in 1 .. Len(log) : log[at].id # i

\* Where the executor may be, and with what.
FlowInv ==
    /\ env \in Environments /\ ex.pc \in Pcs
    /\ ex.pc \in Busy => ex.ret # "idle"
    /\ ex.pc = "admit" => ex.ret = "admit"
    /\ ex.pc = "sweep" => ex.then \in {"merge", "finish", ex.ret}
    /\ ex.pc \in Durable => env.durable
    /\ ex.pc \in Busy /\ ex.ret \in {"check", "closed"} => env.durable
    /\ ex.pc = "apply" => ~env.durable
    /\ ex.pc \notin Idle => Len(ex.chunk) >= 1 /\ (env.durable => Len(ex.chunk) = 1)
    /\ ex.pc \in {"capture", "publish"} => ex.staged # <<>>
    /\ ex.pc = "finish" => Merging(pool)
    /\ ex.pc = "sweep" /\ ex.then = "finish" => Merging(pool)
    /\ Before \/ ex.pc \in Admissions \cup {"drain"} => ~ex.published

\* The nodes of the chunk that the Store has not seen.
FreshInv ==
    /\ Before => ex.applied = 0 /\ ex.staged = <<>> /\ \A i \in 1 .. Len(ex.chunk) : Fresh(ex.chunk[i])
    /\ ex.pc = "apply" => /\ ex.applied \in Nat /\ ex.applied < Len(ex.chunk)
                          /\ \A i \in ex.applied + 1 .. Len(ex.chunk) : Fresh(ex.chunk[i])

CommitInv ==
    ex.committed => /\ Len(ex.chunk) >= 1
                    /\ \E at \in 1 .. Len(log) : log[at].id = ex.chunk[1]

\* How far the writer's generation is behind the log.
StepInv ==
    /\ ex.pc \in Busy \cup {"admit", "execute"} => InStep
    /\ ex.pc = "closed" /\ ex.published => InStep
    /\ ex.pc \in Resting /\ healthy => InStep
    /\ ex.pc \in {"apply", "capture", "publish"} => StagedTail(ex.staged, log, Writer(pool).view.upto)

SuccessInv ==
    \A i \in 1 .. Len(req) : req[i].status = "success" =>
        \E at \in 1 .. Writer(pool).view.upto : log[at].id = i

CallerInv ==
    /\ DOMAIN call = Callers /\ \A c \in Callers : DOMAIN call[c] = {"pc", "nodes"}
    /\ ex.pc # "idle" => token \in Callers /\ call[token].pc = "executing"
    /\ ex.pc = "idle" => token = Nobody

WorkInv ==
    /\ QueueInv /\ FlowInv /\ FreshInv /\ CommitInv
    /\ Views(pool, log) /\ MergedOK(pool) /\ StepInv /\ SuccessInv

LaneInv == SlotInv /\ CallerInv /\ WorkInv

(***************************************************************************)
(* Answers and the queues of nodes.                                        *)
(***************************************************************************)
\* The nodes of ids get status st; nothing else that matters of a node changes.
Restated(ids, st) ==
    /\ req' \in Seq(Nodes) /\ Len(req') = Len(req)
    /\ \A i \in 1 .. Len(req) :
        /\ req'[i].key = req[i].key /\ req'[i].op = req[i].op
        /\ req'[i].status = IF i \in ids THEN st ELSE req[i].status

\* The fields of a node that gets a status, ...
LEMMA StatusFields ==
    ASSUME NEW x \in Nodes, NEW st \in Statuses, NEW y, y = [x EXCEPT !.status = st]
    PROVE  y \in Nodes /\ y.key = x.key /\ y.op = x.op /\ y.status = st
  BY Zenon DEF Nodes

\* ... and of one that is done.
LEMMA DoneFields ==
    ASSUME NEW x \in Nodes, NEW y, y = [x EXCEPT !.done = TRUE]
    PROVE  y \in Nodes /\ y.key = x.key /\ y.op = x.op /\ y.status = x.status
  BY Zenon DEF Nodes

\* Decide gives its nodes the status, and so does ...
LEMMA DecideOK ==
    ASSUME req \in Seq(Nodes), NEW nodes, NEW st \in Statuses, Decide(nodes, st)
    PROVE  Restated(Range(nodes), st)
<1> DEFINE ids == Range(nodes)
<1>0. DOMAIN req = 1 .. Len(req) /\ Len(req) \in Nat OBVIOUS
<1>1. req' = [i \in 1 .. Len(req) |-> IF i \in ids THEN [req[i] EXCEPT !.status = st] ELSE req[i]]
  BY <1>0, Zenon DEF Decide
<1> HIDE DEF ids
<1>2. ASSUME NEW i \in 1 .. Len(req)
      PROVE  /\ req'[i] \in Nodes /\ req'[i].key = req[i].key /\ req'[i].op = req[i].op
             /\ req'[i].status = IF i \in ids THEN st ELSE req[i].status
  <2>1. req[i] \in Nodes OBVIOUS
  <2>2. CASE i \in ids
    <3>1. req'[i] = [req[i] EXCEPT !.status = st] BY <1>1, <2>2, Zenon
    <3> QED BY <2>1, <2>2, <3>1, StatusFields
  <2>3. CASE i \notin ids BY <1>1, <2>1, <2>3, Zenon
  <2> QED BY <2>2, <2>3, Zenon
<1>3. req' \in Seq(Nodes) /\ Len(req') = Len(req) BY <1>0, <1>1, <1>2
<1> QED BY <1>2, <1>3, Zenon DEF Restated, ids

\* ... Answer.
LEMMA AnswerOK ==
    ASSUME req \in Seq(Nodes), NEW nodes, NEW st \in Statuses, Answer(nodes, st)
    PROVE  Restated(Range(nodes), st)
<1> DEFINE ids == Range(nodes)
<1>0. DOMAIN req = 1 .. Len(req) /\ Len(req) \in Nat OBVIOUS
<1>1. req' = [i \in 1 .. Len(req) |-> IF i \in ids THEN [req[i] EXCEPT !.status = st, !.done = TRUE] ELSE req[i]]
  BY <1>0, Zenon DEF Answer
<1> HIDE DEF ids
<1>2. ASSUME NEW i \in 1 .. Len(req)
      PROVE  /\ req'[i] \in Nodes /\ req'[i].key = req[i].key /\ req'[i].op = req[i].op
             /\ req'[i].status = IF i \in ids THEN st ELSE req[i].status
  <2>1. req[i] \in Nodes OBVIOUS
  <2>2. CASE i \in ids
    <3>1. req'[i] = [[req[i] EXCEPT !.status = st] EXCEPT !.done = TRUE] BY <1>1, <2>2, Zenon
    <3>2. PICK z : z = [req[i] EXCEPT !.status = st] BY Zenon
    <3>3. z \in Nodes /\ z.key = req[i].key /\ z.op = req[i].op /\ z.status = st
      BY <2>1, <3>2, StatusFields
    <3>4. req'[i] = [z EXCEPT !.done = TRUE] BY <3>1, <3>2, Zenon
    <3> QED BY <2>2, <3>3, <3>4, DoneFields, Zenon
  <2>3. CASE i \notin ids BY <1>1, <2>1, <2>3, Zenon
  <2> QED BY <2>2, <2>3, Zenon
<1>3. DOMAIN req' = 1 .. Len(req) BY <1>1, Zenon
<1>5. req' = [i \in 1 .. Len(req) |-> req'[i]] BY <1>1, <1>3, Zenon
<1>4. req' \in Seq(Nodes) /\ Len(req') = Len(req) BY <1>0, <1>2, <1>5
<1> QED BY <1>2, <1>4, Zenon DEF Restated, ids

\* Reply changes no status.
LEMMA ReplyOK ==
    ASSUME req \in Seq(Nodes), Reply PROVE Restated({}, "pending")
<1> DEFINE ids == Range(ex.chunk)
<1>0. DOMAIN req = 1 .. Len(req) /\ Len(req) \in Nat OBVIOUS
<1>1. req' = [i \in 1 .. Len(req) |-> IF i \in ids THEN [req[i] EXCEPT !.done = TRUE] ELSE req[i]]
  BY <1>0, Zenon DEF Reply
<1> HIDE DEF ids
<1>2. ASSUME NEW i \in 1 .. Len(req)
      PROVE  /\ req'[i] \in Nodes /\ req'[i].key = req[i].key /\ req'[i].op = req[i].op
             /\ req'[i].status = req[i].status
  <2>1. req[i] \in Nodes OBVIOUS
  <2>2. CASE i \in ids
    <3>1. req'[i] = [req[i] EXCEPT !.done = TRUE] BY <1>1, <2>2, Zenon
    <3> QED BY <2>1, <2>2, <3>1, DoneFields, Zenon
  <2>3. CASE i \notin ids BY <1>1, <2>1, <2>3, Zenon
  <2> QED BY <2>2, <2>3, Zenon
<1>3. req' \in Seq(Nodes) /\ Len(req') = Len(req) BY <1>0, <1>1, <1>2
<1> QED BY <1>2, <1>3, Zenon DEF Restated

\* Nodes that are left alone keep their status.
LEMMA SameReq == ASSUME req \in Seq(Nodes), req' = req PROVE Restated({}, "pending")
  BY Zenon DEF Restated

\* A step that answers nodes, and takes none of those that are left.
LEMMA QueueAnswers ==
    ASSUME QueueInv, NEW ids, NEW st, Restated(ids, st), log' = log,
           lane' = <<>> \/ (lane' = lane /\ \A i \in 1 .. Len(lane) : lane[i] \notin ids),
           ex'.chunk = ex.chunk,
           ex'.rest = <<>> \/ (ex'.rest = ex.rest /\ \A i \in 1 .. Len(ex.rest) : ex.rest[i] \notin ids),
           st \in {"rejected", "absent"} => \A i \in ids, at \in 1 .. Len(log) : log[at].id # i
    PROVE  QueueInv'
<1>1. /\ req' \in Seq(Nodes) /\ log' \in Seq(Entries) /\ lane' \in Seq(Pos) /\ ex'.rest \in Seq(Pos)
      /\ ex'.chunk \in Seq(Pos)
  <2>1. req' \in Seq(Nodes) BY Zenon DEF Restated
  <2>2. log \in Seq(Entries) /\ lane \in Seq(Pos) /\ ex.rest \in Seq(Pos) /\ ex.chunk \in Seq(Pos)
    BY Zenon DEF QueueInv
  <2>3. <<>> \in Seq(Pos) OBVIOUS
  <2> QED BY <2>1, <2>2, <2>3, Zenon
<1>2. /\ \A i \in 1 .. Len(log') : log'[i].id <= Len(req')
      /\ \A i \in 1 .. Len(ex'.chunk) : ex'.chunk[i] <= Len(req')
  <2>1. Len(req') = Len(req) BY Zenon DEF Restated
  <2>2. /\ \A i \in 1 .. Len(log) : log[i].id <= Len(req)
        /\ \A i \in 1 .. Len(ex.chunk) : ex.chunk[i] <= Len(req)
    BY Zenon DEF QueueInv
  <2> QED BY <2>1, <2>2, Zenon
<1>3. ASSUME NEW id \in Pos, Fresh(id), id \notin ids PROVE Fresh(id)'
  <2>1. id \in 1 .. Len(req) BY <1>3 DEF Fresh, Pos, QueueInv
  <2> QED BY <1>3, <2>1, Zenon DEF Fresh, Restated
<1>4. (\A i \in 1 .. Len(lane) : Fresh(lane[i]))'
  <2>1. CASE lane' = <<>> BY <2>1
  <2>2. CASE lane' = lane /\ \A i \in 1 .. Len(lane) : lane[i] \notin ids
    <3>1. ASSUME NEW i \in 1 .. Len(lane) PROVE Fresh(lane[i])'
      <4>1. lane[i] \in Pos /\ Fresh(lane[i]) BY DEF QueueInv
      <4>2. PICK id \in Pos : id = lane[i] BY <4>1, Zenon
      <4>3. Fresh(id)' BY <1>3, <2>2, <4>1, <4>2, Zenon
      <4> QED BY <2>2, <4>2, <4>3, Zenon DEF Fresh
    <3> QED BY <2>2, <3>1, Zenon DEF Fresh
  <2> QED BY <2>1, <2>2, Zenon
<1>5. (\A i \in 1 .. Len(ex.rest) : Fresh(ex.rest[i]))'
  <2>1. CASE ex'.rest = <<>> BY <2>1
  <2>2. CASE ex'.rest = ex.rest /\ \A i \in 1 .. Len(ex.rest) : ex.rest[i] \notin ids
    <3>1. ASSUME NEW i \in 1 .. Len(ex.rest) PROVE Fresh(ex.rest[i])'
      <4>1. ex.rest[i] \in Pos /\ Fresh(ex.rest[i]) BY DEF QueueInv
      <4>2. PICK id \in Pos : id = ex.rest[i] BY <4>1, Zenon
      <4>3. Fresh(id)' BY <1>3, <2>2, <4>1, <4>2, Zenon
      <4> QED BY <2>2, <4>2, <4>3, Zenon DEF Fresh
    <3> QED BY <2>2, <3>1, Zenon DEF Fresh
  <2> QED BY <2>1, <2>2, Zenon
<1>6. /\ \A i, j \in 1 .. Len(lane') : i < j => lane'[j] < lane'[i]
      /\ Sorted(ex'.chunk) /\ Sorted(ex'.rest)
      /\ Below(ex'.chunk, ex'.rest) /\ Below(ex'.chunk, lane') /\ Below(ex'.rest, lane')
  BY DEF QueueInv, Sorted, Below
<1>7. \A i, j \in 1 .. Len(log') : i < j => log'[i].id < log'[j].id BY Zenon DEF QueueInv
<1>8. \A i \in 1 .. Len(req') : req'[i].status \in {"rejected", "absent"} =>
            \A at \in 1 .. Len(log') : log'[at].id # i
  BY Zenon DEF QueueInv, Restated
<1> QED BY <1>1, <1>2, <1>4, <1>5, <1>6, <1>7, <1>8, Zenon DEF QueueInv

\* Node id, below everything that is left, reaches the Store.
LEMMA QueueApplies ==
    ASSUME QueueInv, NEW id \in Pos, Fresh(id), req' = req, lane' = lane,
           ex'.chunk = ex.chunk, ex'.rest = ex.rest,
           \A i \in 1 .. Len(lane) : id < lane[i], \A i \in 1 .. Len(ex.rest) : id < ex.rest[i],
           NEW x \in Entries, x.id = id, log' = Append(log, x)
    PROVE  /\ QueueInv' /\ \A i \in Pos : Fresh(i) /\ id < i => Fresh(i)'
           /\ Len(log') = Len(log) + 1 /\ log'[Len(log) + 1] = x
           /\ \A i \in 1 .. Len(log) : log'[i] = log[i]
<1>0. log \in Seq(Entries) /\ Len(log) \in Nat BY DEF QueueInv
<1>1. /\ log' \in Seq(Entries) /\ Len(log') = Len(log) + 1 /\ log'[Len(log) + 1] = x
      /\ \A i \in 1 .. Len(log) : log'[i] = log[i]
  BY <1>0
<1>2. ASSUME NEW i \in Pos, Fresh(i), id < i PROVE Fresh(i)'
  <2>1. ASSUME NEW at \in 1 .. Len(log') PROVE log'[at].id < i
    <3>1. CASE at = Len(log) + 1 BY <1>1, <1>2, <3>1, Zenon
    <3>2. CASE at # Len(log) + 1
      <4>1. at \in 1 .. Len(log) BY <1>0, <1>1, <3>2
      <4> QED BY <1>1, <1>2, <4>1, Zenon DEF Fresh
    <3> QED BY <3>1, <3>2, Zenon
  <2> QED BY <1>2, <2>1, Zenon DEF Fresh
<1>3. \A at \in 1 .. Len(log) : log[at].id < id BY Zenon DEF Fresh
<1>4. ASSUME NEW i \in 1 .. Len(log'), NEW j \in 1 .. Len(log'), i < j PROVE log'[i].id < log'[j].id
  <2>1. i \in 1 .. Len(log) BY <1>0, <1>1, <1>4
  <2>2. CASE j = Len(log) + 1 BY <1>1, <1>3, <2>1, <2>2, Zenon
  <2>3. CASE j # Len(log) + 1
    <3>1. j \in 1 .. Len(log) BY <1>0, <1>1, <2>3
    <3> QED BY <1>1, <1>4, <2>1, <3>1, Zenon DEF QueueInv
  <2> QED BY <2>2, <2>3, Zenon
<1>5. \A i \in 1 .. Len(log') : log'[i].id <= Len(req')
  <2>1. id <= Len(req) BY Zenon DEF Fresh
  <2>2. ASSUME NEW i \in 1 .. Len(log') PROVE log'[i].id <= Len(req)
    <3>1. CASE i = Len(log) + 1 BY <1>1, <2>1, <3>1, Zenon
    <3>2. CASE i # Len(log) + 1
      <4>1. i \in 1 .. Len(log) BY <1>0, <1>1, <3>2
      <4> QED BY <1>1, <4>1, Zenon DEF QueueInv
    <3> QED BY <3>1, <3>2, Zenon
  <2> QED BY <2>2, Zenon
<1>6. (\A i \in 1 .. Len(lane) : Fresh(lane[i]))'
  <2>1. ASSUME NEW i \in 1 .. Len(lane) PROVE Fresh(lane[i])'
    <3>1. lane[i] \in Pos /\ Fresh(lane[i]) /\ id < lane[i] BY DEF QueueInv
    <3>2. PICK n \in Pos : n = lane[i] BY <3>1, Zenon
    <3>3. Fresh(n)' BY <1>2, <3>1, <3>2, Zenon
    <3> QED BY <3>2, <3>3, Zenon DEF Fresh
  <2> QED BY <2>1, Zenon DEF Fresh
<1>7. (\A i \in 1 .. Len(ex.rest) : Fresh(ex.rest[i]))'
  <2>1. ASSUME NEW i \in 1 .. Len(ex.rest) PROVE Fresh(ex.rest[i])'
    <3>1. ex.rest[i] \in Pos /\ Fresh(ex.rest[i]) /\ id < ex.rest[i] BY DEF QueueInv
    <3>2. PICK n \in Pos : n = ex.rest[i] BY <3>1, Zenon
    <3>3. Fresh(n)' BY <1>2, <3>1, <3>2, Zenon
    <3> QED BY <3>2, <3>3, Zenon DEF Fresh
  <2> QED BY <2>1, Zenon DEF Fresh
<1>8. \A i \in 1 .. Len(req') : req'[i].status \in {"rejected", "absent"} =>
            \A at \in 1 .. Len(log') : log'[at].id # i
  <2>1. ASSUME NEW i \in 1 .. Len(req), req[i].status \in {"rejected", "absent"}, NEW at \in 1 .. Len(log')
        PROVE log'[at].id # i
    <3>1. CASE at = Len(log) + 1
      <4>1. req[id].status = "pending" BY Zenon DEF Fresh
      <4> QED BY <1>1, <2>1, <3>1, <4>1, Zenon
    <3>2. CASE at # Len(log) + 1
      <4>1. at \in 1 .. Len(log) BY <1>0, <1>1, <3>2
      <4> QED BY <1>1, <2>1, <4>1, Zenon DEF QueueInv
    <3> QED BY <3>1, <3>2, Zenon
  <2> QED BY <2>1, Zenon
<1>9. /\ \A i \in 1 .. Len(ex'.chunk) : ex'.chunk[i] <= Len(req')
      /\ \A i, j \in 1 .. Len(lane') : i < j => lane'[j] < lane'[i]
      /\ Sorted(ex'.chunk) /\ Sorted(ex'.rest)
      /\ Below(ex'.chunk, ex'.rest) /\ Below(ex'.chunk, lane') /\ Below(ex'.rest, lane')
      /\ req' \in Seq(Nodes) /\ lane' \in Seq(Pos) /\ ex'.rest \in Seq(Pos)
      /\ ex'.chunk \in Seq(Pos)
  BY Zenon DEF QueueInv, Sorted, Below
<1> QED BY <1>1, <1>2, <1>4, <1>5, <1>6, <1>7, <1>8, <1>9, Zenon DEF QueueInv

(***************************************************************************)
(* What quiet steps keep.                                                  *)
(***************************************************************************)
\* What the executor works on stays.
SameWork ==
    /\ ex'.chunk = ex.chunk /\ ex'.rest = ex.rest /\ ex'.applied = ex.applied
    /\ ex'.staged = ex.staged /\ ex'.committed = ex.committed

\* A step that neither answers nor applies a node.
QuietStep ==
    /\ Restated({}, "pending") /\ log' = log /\ lane' = lane /\ env' = env
    /\ SameWork /\ Historic(pool', log) /\ Upto(pool) <= Upto(pool')

\* The invariants say that the pool shows the history of the log.
LEMMA PoolHistoric == ASSUME SlotInv, WorkInv PROVE Historic(pool, log) /\ Upto(pool) \in 0 .. Len(log)
<1>1. Historic(pool, log) BY Zenon DEF SlotInv, WorkInv, Historic
<1>2. ViewOK(Writer(pool).view, log) BY <1>1, WriterView, Zenon
<1> QED BY <1>1, <1>2, Zenon DEF ViewOK, Upto

\* A fresh node that is not answered stays fresh.
LEMMA FreshKept ==
    ASSUME QueueInv, NEW ids, NEW st, Restated(ids, st), log' = log, NEW id \in Pos, Fresh(id), id \notin ids
    PROVE  Fresh(id)'
<1>1. id \in 1 .. Len(req) BY DEF Fresh, Pos, QueueInv
<1> QED BY <1>1, Zenon DEF Fresh, Restated

\* What a quiet step keeps.
LEMMA QuietKeeps ==
    ASSUME SlotInv, WorkInv, QuietStep, Before' => Before, ex'.pc = "apply" => Before
    PROVE  /\ QueueInv' /\ FreshInv' /\ CommitInv' /\ Views(pool', log') /\ MergedOK(pool')
           /\ SuccessInv'
<1>0. QueueInv /\ Restated({}, "pending") /\ log' = log BY Zenon DEF WorkInv, QuietStep
<1>1. QueueInv' BY <1>0, QueueAnswers, Zenon DEF QuietStep, SameWork
<1>2. ex.chunk \in Seq(Pos) /\ ex'.chunk = ex.chunk BY <1>0, Zenon DEF QueueInv, QuietStep, SameWork
<1>3. ASSUME NEW i \in 1 .. Len(ex.chunk), Fresh(ex.chunk[i]) PROVE Fresh(ex.chunk[i])'
  <2>1. PICK id \in Pos : id = ex.chunk[i] BY <1>2
  <2>2. Fresh(id)' BY <1>0, <1>3, <2>1, FreshKept
  <2> QED BY <1>2, <2>1, <2>2, Zenon DEF Fresh
<1>4. FreshInv'
  <2>1. Before => ex.applied = 0 /\ ex.staged = <<>> /\ \A i \in 1 .. Len(ex.chunk) : Fresh(ex.chunk[i])'
    BY <1>3, Zenon DEF WorkInv, FreshInv
  <2>2. ASSUME Before' PROVE (ex.applied = 0 /\ ex.staged = <<>> /\ \A i \in 1 .. Len(ex.chunk) : Fresh(ex.chunk[i]))'
    BY <1>2, <2>1, <2>2, Zenon DEF QuietStep, SameWork, Fresh
  <2>3. ASSUME ex'.pc = "apply"
        PROVE (/\ ex.applied \in Nat /\ ex.applied < Len(ex.chunk)
               /\ \A i \in ex.applied + 1 .. Len(ex.chunk) : Fresh(ex.chunk[i]))'
    <3>1. Len(ex.chunk) >= 1 BY <2>3, Zenon DEF WorkInv, FlowInv, Before, Idle, Busy
    <3>2. ex'.applied = 0 /\ \A i \in 1 .. Len(ex.chunk) : Fresh(ex.chunk[i])'
      BY <2>1, <2>3, Zenon DEF QuietStep, SameWork
    <3> QED BY <1>2, <3>1, <3>2 DEF Fresh
  <2> QED BY <2>2, <2>3, Zenon DEF FreshInv
<1>5. CommitInv' BY <1>0, <1>2, Zenon DEF WorkInv, CommitInv, QuietStep, SameWork
<1>6. SuccessInv'
  <2>1. Upto(pool) <= Upto(pool') /\ Upto(pool) \in Nat /\ Upto(pool') \in Nat
    <3>1. ViewOK(Writer(pool').view, log) BY WriterView, Zenon DEF QuietStep
    <3>2. Upto(pool') \in Nat BY <3>1 DEF ViewOK, Upto
    <3>3. Upto(pool) \in Nat BY PoolHistoric
    <3> QED BY <3>2, <3>3, Zenon DEF QuietStep
  <2>2. ASSUME NEW i \in 1 .. Len(req'), req'[i].status = "success"
        PROVE \E at \in 1 .. Upto(pool') : log'[at].id = i
    <3>1. i \in 1 .. Len(req) /\ req[i].status = "success" BY <1>0, <2>2, Zenon DEF Restated
    <3>2. PICK at \in 1 .. Upto(pool) : log[at].id = i BY <3>1, Zenon DEF WorkInv, SuccessInv, Upto
    <3>3. at \in 1 .. Upto(pool') BY <2>1
    <3> QED BY <1>0, <3>2, <3>3, Zenon
  <2> QED BY <2>2, Zenon DEF SuccessInv, Upto
<1> QED BY <1>0, <1>1, <1>4, <1>5, <1>6, Zenon DEF QuietStep, Historic

(***************************************************************************)
(* Steps of the executor that answer nothing: housekeeping, merges, capture. *)
(***************************************************************************)
\* A step that keeps the queues and what the writer's generation shows is quiet.
LEMMA KeepsQuiet ==
    ASSUME SlotInv, WorkInv, req' = req, log' = log, lane' = lane, env' = env, SameWork,
           Historic(pool', log), Upto(pool') = Upto(pool)
    PROVE  QuietStep
<1>1. req \in Seq(Nodes) BY Zenon DEF WorkInv, QueueInv
<1>2. Restated({}, "pending") BY <1>1, SameReq, Zenon
<1>3. Upto(pool) \in 0 .. Len(log) BY PoolHistoric, Zenon
<1>4. Upto(pool) <= Upto(pool') BY <1>3
<1> QED BY <1>2, <1>4, Zenon DEF QuietStep

\* So is one that keeps the queues and the pool.
LEMMA StaysQuiet ==
    ASSUME SlotInv, WorkInv, req' = req, log' = log, lane' = lane, env' = env, pool' = pool, SameWork
    PROVE  QuietStep
<1>1. Historic(pool', log) /\ Upto(pool') = Upto(pool) BY PoolHistoric, Zenon
<1> QED BY <1>1, KeepsQuiet, Zenon

\* Housekeep, ...
LEMMA HousekeepInv == ASSUME SlotInv, WorkInv, Housekeep PROVE WorkInv' /\ ex'.pc # "idle"
<1>0. ExOK(ex) BY Zenon DEF SlotInv
<1>1. \/ ex' = [ex EXCEPT !.pc = "sweep", !.quiescent = QuiescentEpoch(pool), !.then = "merge"]
      \/ ex' = [ex EXCEPT !.pc = "merge"]
  BY Zenon DEF Housekeep
<1>2. /\ ex'.pc \in {"sweep", "merge"} /\ (ex'.pc = "sweep" => ex'.then = "merge")
      /\ SameWork /\ ex'.ret = ex.ret /\ ex'.published = ex.published
  BY <1>0, <1>1, Zenon DEF ExOK, ExFields, SameWork
<1>3. /\ ex.pc = "house" /\ req' = req /\ log' = log /\ lane' = lane /\ env' = env /\ pool' = pool
      /\ healthy' = healthy
  BY Zenon DEF Housekeep, Elsewhere
<1>4. QuietStep BY <1>2, <1>3, StaysQuiet, Zenon
<1>5. (Before' => Before) /\ ex'.pc # "apply" BY <1>2, <1>3, Zenon DEF Before, Busy
<1>6. FlowInv'
  BY <1>2, <1>3, Zenon DEF WorkInv, FlowInv, SameWork, Before, Admissions, Busy, Durable, Idle, Pcs
<1>7. StepInv' BY <1>2, <1>3, Zenon DEF WorkInv, StepInv, SameWork, InStep, Busy, Resting
<1> QED BY <1>2, <1>4, <1>5, <1>6, <1>7, QuietKeeps, Zenon DEF WorkInv

\* ... Sweep, ...
LEMMA SweepInv == ASSUME SlotInv, WorkInv, Sweep PROVE WorkInv' /\ ex'.pc # "idle"
<1>0. ExOK(ex) BY Zenon DEF SlotInv
<1>1. ex' = [ex EXCEPT !.pc = ex.then] BY Zenon DEF Sweep
<1>2. /\ ex'.pc = ex.then /\ SameWork /\ ex'.ret = ex.ret /\ ex'.then = ex.then
      /\ ex'.published = ex.published
  BY <1>0, <1>1, Zenon DEF ExOK, ExFields, SameWork
<1>3. /\ ex.pc = "sweep" /\ req' = req /\ log' = log /\ lane' = lane /\ env' = env
      /\ healthy' = healthy
      /\ pool' = Reclaim(pool, ex.quiescent)
  BY Zenon DEF Sweep, Elsewhere
<1>4. Historic(pool', log) /\ Upto(pool') = Upto(pool) /\ (Merging(pool') <=> Merging(pool))
  <2>1. ex.quiescent \in Nat BY <1>3, Zenon DEF SlotInv, SweepOK
  <2> QED BY <1>3, <2>1, PoolHistoric, ReclaimHistory, Zenon
<1>5. QuietStep BY <1>2, <1>3, <1>4, KeepsQuiet, Zenon
<1>9. ex'.pc \in {"merge", "finish", "admit", "check", "reply", "closed"} /\ ex.ret \in Returns
      /\ (ex'.pc \in {"merge", "finish"} \/ ex'.pc = ex.ret)
  BY <1>0, <1>2, <1>3, Zenon DEF WorkInv, FlowInv, ExOK, Returns, Busy
<1>6. (Before' => Before) /\ ex'.pc # "apply" BY <1>2, <1>3, <1>9, Zenon DEF Before, Busy
<1>7. FlowInv'
  BY <1>2, <1>3, <1>4, <1>9, Zenon
     DEF WorkInv, FlowInv, SameWork, Before, Admissions, Busy, Durable, Idle, Pcs, Resting
<1>8. StepInv'
  BY <1>2, <1>3, <1>4, <1>9, Zenon DEF WorkInv, StepInv, SameWork, InStep, Upto, Busy, Resting
<1> QED BY <1>9, <1>5, <1>6, <1>7, <1>8, QuietKeeps, Zenon DEF WorkInv

\* ... MergeStep, ...
LEMMA MergeStepInv == ASSUME SlotInv, WorkInv, MergeStep PROVE WorkInv' /\ ex'.pc # "idle"
<1>0. ExOK(ex) /\ Historic(pool, log) /\ Upto(pool) \in 0 .. Len(log)
  BY PoolHistoric, Zenon DEF SlotInv
<1> DEFINE started == IF MergeDue(pool) THEN StartMerge(pool) ELSE pool
           moved   == IF MergeReady(started) THEN started ELSE Advance(started, ex.records)
<1>1. \/ pool' = pool /\ ex' = [ex EXCEPT !.pc = ex.ret]
      \/ pool' = EndMerge(started) /\ ex' = [ex EXCEPT !.pc = ex.ret]
      \/ /\ Merging(started) /\ pool' = moved
         /\ \/ ex' = [ex EXCEPT !.pc = "sweep", !.quiescent = QuiescentEpoch(moved), !.then = "finish"]
            \/ ex' = [ex EXCEPT !.pc = ex.ret]
  BY Zenon DEF MergeStep
<1>2. Historic(started, log) /\ Upto(started) = Upto(pool)
  <2>1. CASE MergeDue(pool) BY <1>0, <2>1, StartHistory, Zenon DEF MergeDue
  <2>2. CASE ~MergeDue(pool) BY <1>0, <2>2, Zenon
  <2> QED BY <2>1, <2>2, Zenon
<1> HIDE DEF started
<1>3. Merging(started) => Historic(moved, log) /\ Upto(moved) = Upto(pool) /\ Merging(moved)
  <2>1. CASE MergeReady(started) BY <1>2, <2>1, Zenon
  <2>2. CASE ~MergeReady(started) BY <1>2, <2>2, AdvanceHistory, Zenon
  <2> QED BY <2>1, <2>2, Zenon
<1>4. Historic(EndMerge(started), log) /\ Upto(EndMerge(started)) = Upto(pool)
  BY <1>2, EndHistory, Zenon
<1> HIDE DEF moved
<1>5. /\ ex'.pc \in {"sweep", ex.ret} /\ SameWork /\ ex'.ret = ex.ret
      /\ ex'.published = ex.published
      /\ ex'.pc = "sweep" /\ ex.ret # "sweep" => ex'.then = "finish" /\ Merging(started) /\ pool' = moved
  BY <1>0, <1>1, Zenon DEF ExOK, ExFields, SameWork
<1>6. Historic(pool', log) /\ Upto(pool') = Upto(pool) BY <1>0, <1>1, <1>3, <1>4, Zenon
<1>7. /\ ex.pc = "merge" /\ req' = req /\ log' = log /\ lane' = lane /\ env' = env
      /\ healthy' = healthy
  BY Zenon DEF MergeStep, Elsewhere
<1>8. /\ ex'.pc \in {"sweep", "admit", "check", "reply", "closed"} /\ (ex'.pc # "sweep" => ex'.pc = ex.ret)
      /\ ex'.pc = "sweep" => ex'.then = "finish" /\ Merging(pool')
  BY <1>0, <1>3, <1>5, <1>7, Zenon DEF WorkInv, FlowInv, ExOK, Returns, Busy
<1>9. QuietStep BY <1>5, <1>6, <1>7, KeepsQuiet, Zenon
<1>10. (Before' => Before) /\ ex'.pc # "apply" BY <1>5, <1>7, <1>8, Zenon DEF Before, Busy
<1>11. FlowInv'
  BY <1>5, <1>7, <1>8, Zenon
     DEF WorkInv, FlowInv, SameWork, Before, Admissions, Busy, Durable, Idle, Pcs, Resting
<1>12. StepInv'
  BY <1>5, <1>6, <1>7, <1>8, Zenon DEF WorkInv, StepInv, SameWork, InStep, Upto, Busy, Resting
<1> QED BY <1>8, <1>9, <1>10, <1>11, <1>12, QuietKeeps, Zenon DEF WorkInv

\* ... MergeFinish ...
LEMMA MergeFinishInv == ASSUME SlotInv, WorkInv, MergeFinish PROVE WorkInv' /\ ex'.pc # "idle"
<1>0. ExOK(ex) /\ PoolOK(pool) /\ Historic(pool, log) /\ Upto(pool) \in 0 .. Len(log)
  BY PoolHistoric, Zenon DEF SlotInv
<1> DEFINE q == EndMerge(FinishMerge(pool, TryReserve(pool)))
<1>1. \/ pool' = pool /\ ex' = [ex EXCEPT !.pc = ex.ret]
      \/ pool' = EndMerge(pool) /\ ex' = [ex EXCEPT !.pc = ex.ret]
      \/ /\ Retired(pool) < MaxRetired /\ pool' = q
         /\ ex' = [ex EXCEPT !.pc = "sweep", !.quiescent = QuiescentEpoch(pool'), !.then = ex.ret]
  BY Zenon DEF MergeFinish
<1>2. /\ ex.pc = "finish" /\ req' = req /\ log' = log /\ lane' = lane /\ env' = env
      /\ healthy' = healthy
  BY Zenon DEF MergeFinish, Elsewhere
<1>3. Merging(pool) BY <1>2, Zenon DEF WorkInv, FlowInv
<1>4. Historic(EndMerge(pool), log) /\ Upto(EndMerge(pool)) = Upto(pool) BY <1>0, EndHistory, Zenon
<1>5. Retired(pool) < MaxRetired => Historic(q, log) /\ Upto(q) = Upto(pool)
  BY <1>0, <1>3, Pigeonhole, Reserved, FinishHistory, Zenon
<1> HIDE DEF q
<1>6. Historic(pool', log) /\ Upto(pool') = Upto(pool) BY <1>0, <1>1, <1>4, <1>5, Zenon
<1>7. /\ ex'.pc \in {"sweep", ex.ret} /\ SameWork /\ ex'.ret = ex.ret
      /\ ex'.published = ex.published
      /\ ex'.pc = "sweep" /\ ex.ret # "sweep" => ex'.then = ex.ret
  BY <1>0, <1>1, Zenon DEF ExOK, ExFields, SameWork
<1>8. /\ ex'.pc \in {"sweep", "admit", "check", "reply", "closed"} /\ (ex'.pc # "sweep" => ex'.pc = ex.ret)
      /\ ex'.pc = "sweep" => ex'.then = ex.ret /\ ex'.then # "finish"
  BY <1>0, <1>2, <1>7, Zenon DEF WorkInv, FlowInv, ExOK, Returns, Busy
<1>9. QuietStep BY <1>2, <1>6, <1>7, KeepsQuiet, Zenon
<1>10. (Before' => Before) /\ ex'.pc # "apply" BY <1>2, <1>7, <1>8, Zenon DEF Before, Busy
<1>11. FlowInv'
  BY <1>2, <1>7, <1>8, Zenon
     DEF WorkInv, FlowInv, SameWork, Before, Admissions, Busy, Durable, Idle, Pcs, Resting
<1>12. StepInv'
  BY <1>2, <1>6, <1>7, <1>8, Zenon DEF WorkInv, StepInv, SameWork, InStep, Upto, Busy, Resting
<1> QED BY <1>8, <1>9, <1>10, <1>11, <1>12, QuietKeeps, Zenon DEF WorkInv

\* ... and Capture are quiet and keep the work in order.
LEMMA CaptureInv == ASSUME SlotInv, WorkInv, Capture PROVE WorkInv' /\ ex'.pc # "idle"
<1>0. ExOK(ex) BY Zenon DEF SlotInv
<1>1. ex' = [ex EXCEPT !.pc = "drain"] \/ ex' = [ex EXCEPT !.pc = "publish"]
  BY Zenon DEF Capture
<1>2. /\ ex'.pc \in {"drain", "publish"} /\ SameWork /\ ex'.ret = ex.ret
      /\ ex'.published = ex.published
  BY <1>0, <1>1, Zenon DEF ExOK, ExFields, SameWork
<1>3. /\ ex.pc = "capture" /\ req' = req /\ log' = log /\ lane' = lane /\ env' = env /\ pool' = pool
      /\ healthy' = healthy
  BY Zenon DEF Capture, Elsewhere
<1>4. QuietStep BY <1>2, <1>3, StaysQuiet, Zenon
<1>5. ~Before' /\ ex'.pc # "apply" BY <1>2, Zenon DEF Before, Busy
<1>6. FlowInv'
  BY <1>2, <1>3, Zenon DEF WorkInv, FlowInv, SameWork, Before, Admissions, Busy, Durable, Idle, Pcs
<1>7. StepInv' BY <1>2, <1>3, Zenon DEF WorkInv, StepInv, SameWork, InStep, Busy, Resting
<1> QED BY <1>2, <1>4, <1>5, <1>6, <1>7, QuietKeeps, Zenon DEF WorkInv
=============================================================================

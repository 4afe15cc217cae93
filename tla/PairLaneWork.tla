---------------------------- MODULE PairLaneWork ----------------------------
(***************************************************************************)
(* The steps of PairLane that push, take, split, admit and answer nodes keep *)
(* WorkInv.                                                                *)
(***************************************************************************)
EXTENDS PairLaneHistory

(***************************************************************************)
(* Admission.                                                              *)
(***************************************************************************)
\* A step that gives the nodes in ids status st, and applies none.
AnswerStep(ids, st) ==
    /\ Restated(ids, st) /\ log' = log /\ env' = env
    /\ ex'.chunk = ex.chunk /\ ex'.committed = ex.committed
    /\ lane' = <<>> \/ (lane' = lane /\ \A i \in 1 .. Len(lane) : lane[i] \notin ids)
    /\ ex'.rest = <<>> \/ (ex'.rest = ex.rest /\ \A i \in 1 .. Len(ex.rest) : ex.rest[i] \notin ids)
    /\ st \in {"rejected", "absent"} => \A i \in ids, at \in 1 .. Len(log) : log[at].id # i
    /\ st = "success" => \A i \in ids : \E at \in 1 .. Upto(pool') : log[at].id = i
    /\ Historic(pool', log) /\ Upto(pool) <= Upto(pool')

\* What a step that answers nodes keeps.
LEMMA AnswerKeeps ==
    ASSUME SlotInv, WorkInv, NEW ids, NEW st, AnswerStep(ids, st)
    PROVE  QueueInv' /\ CommitInv' /\ Views(pool', log') /\ MergedOK(pool') /\ SuccessInv'
<1>0. QueueInv /\ Restated(ids, st) /\ log' = log BY Zenon DEF WorkInv, AnswerStep
<1>1. QueueInv' BY <1>0, QueueAnswers, Zenon DEF AnswerStep
<1>2. CommitInv' BY <1>0, Zenon DEF WorkInv, CommitInv, AnswerStep
<1>3. Upto(pool) <= Upto(pool') /\ Upto(pool) \in Nat /\ Upto(pool') \in Nat
  <2>1. ViewOK(Writer(pool').view, log) BY WriterView, Zenon DEF AnswerStep
  <2>2. Upto(pool') \in Nat BY <2>1 DEF ViewOK, Upto
  <2>3. Upto(pool) \in Nat BY PoolHistoric
  <2> QED BY <2>2, <2>3, Zenon DEF AnswerStep
<1>4. ASSUME NEW i \in 1 .. Len(req'), req'[i].status = "success"
      PROVE  \E at \in 1 .. Upto(pool') : log'[at].id = i
  <2>1. CASE i \in ids BY <1>0, <1>4, <2>1, Zenon DEF Restated, AnswerStep
  <2>2. CASE i \notin ids
    <3>1. i \in 1 .. Len(req) /\ req[i].status = "success" BY <1>0, <1>4, <2>2, Zenon DEF Restated
    <3>2. PICK at \in 1 .. Upto(pool) : log[at].id = i BY <3>1, Zenon DEF WorkInv, SuccessInv, Upto
    <3>3. at \in 1 .. Upto(pool') BY <1>3
    <3> QED BY <1>0, <3>2, <3>3, Zenon
  <2> QED BY <2>1, <2>2, Zenon
<1>5. SuccessInv' BY <1>4, Zenon DEF SuccessInv, Upto
<1> QED BY <1>0, <1>1, <1>2, <1>5, Zenon DEF AnswerStep, Historic

\* The nodes of the chunk are neither in the lane nor among the rest.
LEMMA InChunk ==
    ASSUME QueueInv, NEW ids \in SUBSET Range(ex.chunk)
    PROVE  /\ \A i \in 1 .. Len(lane) : lane[i] \notin ids
           /\ \A i \in 1 .. Len(ex.rest) : ex.rest[i] \notin ids
<1>1. /\ ex.chunk \in Seq(Pos) /\ lane \in Seq(Pos) /\ ex.rest \in Seq(Pos)
      /\ Below(ex.chunk, ex.rest) /\ Below(ex.chunk, lane)
  BY Zenon DEF QueueInv
<1>2. \A x \in ids : \E i \in 1 .. Len(ex.chunk) : x = ex.chunk[i] BY <1>1 DEF Range
<1>3. \A i \in 1 .. Len(ex.chunk) : ex.chunk[i] \in Nat BY <1>1 DEF Pos
<1> QED BY <1>1, <1>2, <1>3 DEF Below

\* Fresh nodes are not in the log.
LEMMA FreshUnlogged ==
    ASSUME QueueInv, NEW q \in Seq(Pos), \A i \in 1 .. Len(q) : Fresh(q[i])
    PROVE  \A i \in Range(q), at \in 1 .. Len(log) : log[at].id # i
<1>1. SUFFICES ASSUME NEW i \in 1 .. Len(q), NEW at \in 1 .. Len(log) PROVE log[at].id # q[i]
  BY DEF Range
<1>2. log[at].id < q[i] BY Zenon DEF Fresh
<1>3. q[i] \in Nat BY DEF Pos
<1> QED BY <1>2, <1>3

\* When the writer is in step with the log nothing is staged.
LEMMA TailEmpty ==
    ASSUME SlotInv, WorkInv, InStep PROVE StagedTail(<<>>, log, Writer(pool).view.upto)
<1>1. Upto(pool) \in Nat BY PoolHistoric
<1> QED BY <1>1 DEF StagedTail, InStep, Upto

\* Sequence all has the elements of p and those of q.
Joins(all, p, q) ==
    /\ all \in Seq(Pos)
    /\ \A i \in 1 .. Len(all) : (\E j \in 1 .. Len(p) : all[i] = p[j]) \/ (\E j \in 1 .. Len(q) : all[i] = q[j])
    /\ \A x \in Range(all) : (\E j \in 1 .. Len(p) : x = p[j]) \/ (\E j \in 1 .. Len(q) : x = q[j])

\* Joins describes concatenation.
LEMMA Concatenated ==
    ASSUME NEW p \in Seq(Pos), NEW q \in Seq(Pos), NEW all, all = p \o q
    PROVE  Joins(all, p, q)
<1>1. all \in Seq(Pos) /\ Len(all) = Len(p) + Len(q) OBVIOUS
<1>2. \A i \in 1 .. Len(p) + Len(q) : all[i] = IF i <= Len(p) THEN p[i] ELSE q[i - Len(p)] OBVIOUS
<1>3. Len(p) \in Nat /\ Len(q) \in Nat OBVIOUS
<1>4. ASSUME NEW i \in 1 .. Len(all)
      PROVE  (\E j \in 1 .. Len(p) : all[i] = p[j]) \/ (\E j \in 1 .. Len(q) : all[i] = q[j])
  <2>1. CASE i <= Len(p) BY <1>1, <1>2, <1>3, <2>1
  <2>2. CASE ~(i <= Len(p))
    <3>1. i - Len(p) \in 1 .. Len(q) BY <1>1, <1>3, <2>2
    <3> QED BY <1>1, <1>2, <2>2, <3>1, Zenon
  <2> QED BY <2>1, <2>2, Zenon
<1>5. DOMAIN all = 1 .. Len(all) BY <1>1
<1>6. \A x \in Range(all) : \E i \in 1 .. Len(all) : x = all[i] BY <1>5, Zenon DEF Range
<1>7. ASSUME NEW x \in Range(all) PROVE (\E j \in 1 .. Len(p) : x = p[j]) \/ (\E j \in 1 .. Len(q) : x = q[j])
  <2>1. PICK i \in 1 .. Len(all) : x = all[i] BY <1>6, Zenon
  <2> QED BY <1>4, <2>1, Zenon
<1> QED BY <1>1, <1>4, <1>7, Zenon DEF Joins

\* A chunk and the rest may be refused before the Store saw them: when admission ...
LEMMA RefuseAllInv ==
    ASSUME SlotInv, WorkInv, ex.pc = "admit", log' = log, lane' = lane, env' = env, pool' = pool,
           healthy' => healthy, Answer(ex.chunk \o ex.rest, "rejected"), ex' = [ex EXCEPT !.pc = "take", !.rest = <<>>]
    PROVE  WorkInv' /\ ex'.pc # "idle"
<1>0. /\ ExOK(ex) /\ Historic(pool, log) /\ Upto(pool) \in 0 .. Len(log) /\ QueueInv
      /\ env \in Environments
  BY PoolHistoric, Zenon DEF SlotInv, WorkInv, FlowInv
<1>1. Before /\ InStep /\ \A i \in 1 .. Len(ex.chunk) : Fresh(ex.chunk[i])
  BY Zenon DEF WorkInv, FreshInv, StepInv, Before
<1>2. /\ ex'.pc = "take" /\ ex'.rest = <<>> /\ ex'.chunk = ex.chunk /\ ex'.committed = ex.committed
      /\ ex'.published = ex.published /\ ex'.staged = ex.staged
  BY <1>0, Zenon DEF ExOK, ExFields
<1> DEFINE all == ex.chunk \o ex.rest
<1>3. /\ ex.chunk \in Seq(Pos) /\ ex.rest \in Seq(Pos) /\ lane \in Seq(Pos)
      /\ \A i \in 1 .. Len(ex.rest) : Fresh(ex.rest[i])
  BY <1>0, Zenon DEF QueueInv
<1>4. /\ all \in Seq(Pos) /\ \A i \in 1 .. Len(all) : Fresh(all[i])
      /\ \A i \in Range(all) : (\E j \in 1 .. Len(ex.chunk) : i = ex.chunk[j]) \/ (\E j \in 1 .. Len(ex.rest) : i = ex.rest[j])
  <2> HIDE DEF all
  <2>1. all = ex.chunk \o ex.rest BY Zenon DEF all
  <2>2. Joins(all, ex.chunk, ex.rest) BY <1>3, <2>1, Concatenated, Zenon
  <2> QED BY <1>1, <1>3, <2>2, Zenon DEF Joins
<1> HIDE DEF all
<1>5. \A i \in Range(all), at \in 1 .. Len(log) : log[at].id # i BY <1>0, <1>4, FreshUnlogged, Zenon
<1>6. \A i \in 1 .. Len(lane) : lane[i] \notin Range(all)
  <2>1. \A i \in 1 .. Len(lane), j \in 1 .. Len(ex.chunk) : ex.chunk[j] \in Nat /\ ex.chunk[j] < lane[i]
    BY <1>0, <1>3 DEF QueueInv, Below, Pos
  <2>2. \A i \in 1 .. Len(lane), j \in 1 .. Len(ex.rest) : ex.rest[j] \in Nat /\ ex.rest[j] < lane[i]
    BY <1>0, <1>3 DEF QueueInv, Below, Pos
  <2> QED BY <1>4, <2>1, <2>2
<1>7. AnswerStep(Range(all), "rejected")
  <2>1. Restated(Range(all), "rejected") BY <1>0, AnswerOK, Zenon DEF QueueInv, Statuses, all
  <2> QED BY <1>0, <1>2, <1>5, <1>6, <2>1 DEF AnswerStep
<1>8. FreshInv' BY <1>2, Zenon DEF FreshInv, Before, Busy
<1>9. FlowInv'
  BY <1>0, <1>2, Zenon DEF FlowInv, Before, Admissions, Busy, Durable, Idle, Pcs, Resting
<1>10. StepInv' BY <1>1, <1>2, Zenon DEF StepInv, InStep, Busy, Resting
<1> QED BY <1>2, <1>7, <1>8, <1>9, <1>10, AnswerKeeps, Zenon DEF WorkInv

\* ... throws, ...
LEMMA AdmitFailsInv == ASSUME SlotInv, WorkInv, AdmitFails PROVE WorkInv' /\ ex'.pc # "idle"
  BY RefuseAllInv, Zenon DEF AdmitFails, FailClosed, Elsewhere

\* ... and when the runtime has failed.  Admit keeps the work in order.
LEMMA AdmitInv == ASSUME SlotInv, WorkInv, Admit PROVE WorkInv' /\ ex'.pc # "idle"
<1>0. /\ ExOK(ex) /\ Historic(pool, log) /\ Upto(pool) \in 0 .. Len(log) /\ QueueInv
      /\ env \in Environments
  BY PoolHistoric, Zenon DEF SlotInv, WorkInv, FlowInv
<1>1. /\ ex.pc = "admit" /\ log' = log /\ lane' = lane /\ env' = env /\ pool' = pool
      /\ healthy' = healthy
  BY Zenon DEF Admit, Elsewhere
<1>2. /\ Before /\ InStep /\ ex.applied = 0 /\ ex.staged = <<>> /\ \A i \in 1 .. Len(ex.chunk) : Fresh(ex.chunk[i])
      /\ ex.ret = "admit" /\ ~ex.published /\ Len(ex.chunk) >= 1 /\ (env.durable => Len(ex.chunk) = 1)
  BY <1>1, Zenon DEF WorkInv, FreshInv, StepInv, FlowInv, Before, Idle
<1>3. CASE Answer(ex.chunk \o ex.rest, "rejected") /\ ex' = [ex EXCEPT !.pc = "take", !.rest = <<>>]
  BY <1>1, <1>3, RefuseAllInv, Zenon
<1>4. CASE Answer(ex.chunk, "rejected") /\ ex' = [ex EXCEPT !.pc = "next"]
  <2>1. /\ ex'.pc = "next" /\ ex'.rest = ex.rest /\ ex'.chunk = ex.chunk
        /\ ex'.committed = ex.committed
        /\ ex'.published = ex.published /\ ex'.staged = ex.staged
    BY <1>0, <1>4, Zenon DEF ExOK, ExFields
  <2>2. \A i \in Range(ex.chunk), at \in 1 .. Len(log) : log[at].id # i
    <3>1. ex.chunk \in Seq(Pos) BY <1>0, Zenon DEF QueueInv
    <3> QED BY <1>0, <1>2, <3>1, FreshUnlogged, Zenon
  <2>3. AnswerStep(Range(ex.chunk), "rejected")
    <3>1. Restated(Range(ex.chunk), "rejected")
      BY <1>0, <1>4, AnswerOK, Zenon DEF QueueInv, Statuses
    <3>2. /\ \A i \in 1 .. Len(lane) : lane[i] \notin Range(ex.chunk)
          /\ \A i \in 1 .. Len(ex.rest) : ex.rest[i] \notin Range(ex.chunk)
      BY <1>0, InChunk, Zenon
    <3> QED BY <1>0, <1>1, <2>1, <2>2, <3>1, <3>2 DEF AnswerStep
  <2>6. FreshInv' BY <2>1, Zenon DEF FreshInv, Before, Busy
  <2>7. FlowInv'
    BY <1>0, <1>1, <2>1, Zenon DEF FlowInv, Before, Admissions, Busy, Durable, Idle, Pcs, Resting
  <2>8. StepInv' BY <1>1, <1>2, <2>1, Zenon DEF StepInv, InStep, Busy, Resting
  <2> QED BY <2>1, <2>3, <2>6, <2>7, <2>8, AnswerKeeps, Zenon DEF WorkInv
<1>5. CASE /\ req' = req
           /\ \/ ex' = [ex EXCEPT !.pc = IF env.durable THEN "execute" ELSE "apply"]
              \/ ex' = [ex EXCEPT !.pc = "house", !.spins = ex.spins + 1]
  <2>1. /\ \/ ex'.pc = "execute" /\ env.durable
           \/ ex'.pc = "apply" /\ ~env.durable
           \/ ex'.pc = "house"
        /\ SameWork /\ ex'.ret = ex.ret /\ ex'.published = ex.published
    BY <1>0, <1>5, Zenon DEF ExOK, ExFields, SameWork
  <2>2. QuietStep BY <1>1, <1>5, <2>1, StaysQuiet, Zenon
  <2>3. FlowInv'
    BY <1>0, <1>1, <1>2, <2>1, Zenon
       DEF FlowInv, SameWork, Before, Admissions, Busy, Durable, Idle, Pcs, Resting
  <2>4. StepInv'
    <3>1. StagedTail(<<>>, log, Writer(pool).view.upto) BY <1>2, TailEmpty, Zenon
    <3> QED BY <1>1, <1>2, <2>1, <3>1, Zenon DEF StepInv, SameWork, InStep, Busy, Resting
  <2> QED BY <1>2, <2>1, <2>2, <2>3, <2>4, QuietKeeps, Zenon DEF WorkInv
<1> QED
  <2>1. \/ Answer(ex.chunk \o ex.rest, "rejected") /\ ex' = [ex EXCEPT !.pc = "take", !.rest = <<>>]
        \/ Answer(ex.chunk, "rejected") /\ ex' = [ex EXCEPT !.pc = "next"]
        \/ /\ req' = req
           /\ \/ ex' = [ex EXCEPT !.pc = IF env.durable THEN "execute" ELSE "apply"]
              \/ ex' = [ex EXCEPT !.pc = "house", !.spins = ex.spins + 1]
    BY Zenon DEF Admit
  <2> QED BY <1>3, <1>4, <1>5, <2>1, Zenon

(***************************************************************************)
(* Chunks.                                                                 *)
(***************************************************************************)
\* The elements of a reversed sequence.
LEMMA Reversed ==
    ASSUME NEW q \in Seq(Pos), NEW r, r = Reverse(q)
    PROVE  /\ r \in Seq(Pos) /\ Len(r) = Len(q)
           /\ \A i \in 1 .. Len(q) : r[i] = q[Len(q) - i + 1] /\ Len(q) - i + 1 \in 1 .. Len(q)
<1>1. r = [i \in 1 .. Len(q) |-> q[(Len(q) - i) + 1]] BY Zenon DEF Reverse
<1>2. Len(q) \in Nat OBVIOUS
<1>3. \A i \in 1 .. Len(q) : Len(q) - i + 1 \in 1 .. Len(q) BY <1>2
<1>4. \A i \in 1 .. Len(q) : q[Len(q) - i + 1] \in Pos BY <1>3
<1> QED BY <1>1, <1>2, <1>3, <1>4

\* A sequence cut in two.
LEMMA SplitAt ==
    ASSUME NEW q \in Seq(Pos), NEW n \in 1 .. Len(q), NEW p, p = SubSeq(q, 1, n),
           NEW r, r = SubSeq(q, n + 1, Len(q))
    PROVE  /\ p \in Seq(Pos) /\ Len(p) = n /\ \A i \in 1 .. n : p[i] = q[i]
           /\ r \in Seq(Pos) /\ Len(r) = Len(q) - n /\ \A i \in 1 .. Len(r) : r[i] = q[n + i] /\ n + i \in 1 .. Len(q)
  OBVIOUS

\* A chunk has a node at least, and one of a durable lane has just one.
LEMMA ChunkSizeOK ==
    ASSUME NEW q \in Seq(Pos), q # <<>> PROVE ChunkSize(q) \in 1 .. Len(q) /\ (env.durable => ChunkSize(q) = 1)
<1>1. Len(q) \in Nat /\ Len(q) >= 1 OBVIOUS
<1>2. PublicationBatch \in Nat \ {0} BY ReadGenerationAssumption, Zenon
<1>3. /\ Min({PublicationBatch, Len(q)}) \in {PublicationBatch, Len(q)}
      /\ Min({PublicationBatch, Len(q)}) <= Len(q)
  BY <1>1, <1>2, LeastOf, Zenon
<1> QED BY <1>1, <1>2, <1>3 DEF ChunkSize

\* TakeBatch keeps the work in order: the rest is in the order of the pushes.
LEMMA TakeBatchInv == ASSUME SlotInv, WorkInv, TakeBatch PROVE WorkInv' /\ ex'.pc # "idle"
<1>0. /\ ExOK(ex) /\ Historic(pool, log) /\ Upto(pool) \in 0 .. Len(log) /\ QueueInv
      /\ env \in Environments
  BY PoolHistoric, Zenon DEF SlotInv, WorkInv, FlowInv
<1>1. /\ ex.pc = "take" /\ log' = log /\ lane' = <<>> /\ env' = env /\ pool' = pool
      /\ healthy' = healthy
  BY Zenon DEF TakeBatch, Elsewhere
<1>2. healthy => InStep BY <1>1, Zenon DEF WorkInv, StepInv, Resting
<1>3. CASE lane = <<>> /\ ex' = [ex EXCEPT !.pc = "peek"] /\ req' = req
  <2>1. ex'.pc = "peek" /\ SameWork /\ ex'.published = ex.published
    BY <1>0, <1>3, Zenon DEF ExOK, ExFields, SameWork
  <2>2. QuietStep BY <1>1, <1>3, <2>1, StaysQuiet, Zenon
  <2>3. ~Before' BY <2>1, Zenon DEF Before, Busy
  <2>4. FlowInv'
    BY <1>0, <1>1, <2>1, Zenon DEF FlowInv, Before, Admissions, Busy, Durable, Idle, Pcs, Resting
  <2>5. StepInv' BY <1>1, <1>2, <2>1, Zenon DEF StepInv, InStep, Busy, Resting
  <2> QED BY <2>1, <2>2, <2>3, <2>4, <2>5, QuietKeeps, Zenon DEF WorkInv
<1>4. CASE healthy /\ ex' = [ex EXCEPT !.pc = "next", !.rest = Reverse(lane)] /\ req' = req
  <2>1. /\ ex'.pc = "next" /\ ex'.rest = Reverse(lane) /\ ex'.chunk = ex.chunk
        /\ ex'.committed = ex.committed
    BY <1>0, <1>4, Zenon DEF ExOK, ExFields
  <2>2. lane \in Seq(Pos) BY <1>0, Zenon DEF QueueInv
  <2>3. PICK r : r = ex'.rest BY Zenon
  <2>4. /\ r \in Seq(Pos) /\ Len(r) = Len(lane)
        /\ \A i \in 1 .. Len(lane) : r[i] = lane[Len(lane) - i + 1] /\ Len(lane) - i + 1 \in 1 .. Len(lane)
    BY <2>1, <2>2, <2>3, Reversed, Zenon
  <2>5. Sorted(r) /\ Below(ex.chunk, r)
    <3>1. \A i, j \in 1 .. Len(lane) : i < j => lane[j] < lane[i] BY <1>0, Zenon DEF QueueInv
    <3>2. Sorted(r)
      <4>1. SUFFICES ASSUME NEW i \in 1 .. Len(lane), NEW j \in 1 .. Len(lane), i < j PROVE r[i] < r[j]
        BY <2>4, Zenon DEF Sorted
      <4>2. Len(lane) - j + 1 < Len(lane) - i + 1 BY <2>2, <4>1
      <4> QED BY <2>4, <3>1, <4>2, Zenon
    <3>3. Below(ex.chunk, r) BY <1>0, <2>4, Zenon DEF QueueInv, Below
    <3> QED BY <3>2, <3>3, Zenon
  <2>6. \A i \in 1 .. Len(r) : Fresh(r[i]) BY <1>0, <2>4, Zenon DEF QueueInv
  <2>7. QueueInv'
    <3>1. \A i \in 1 .. Len(r) : Fresh(r[i])' BY <1>1, <1>4, <2>6, Zenon DEF Fresh
    <3>2. Below(ex.chunk, <<>>) /\ Below(r, <<>>) BY DEF Below
    <3> QED BY <1>0, <1>1, <1>4, <2>1, <2>3, <2>4, <2>5, <3>1, <3>2 DEF QueueInv, Fresh
  <2>8. FreshInv' BY <2>1, Zenon DEF FreshInv, Before, Busy
  <2>9. CommitInv' BY <1>1, <2>1, Zenon DEF WorkInv, CommitInv
  <2>10. SuccessInv' BY <1>1, <1>4, Zenon DEF WorkInv, SuccessInv
  <2>11. FlowInv'
    BY <1>0, <1>1, <2>1, Zenon DEF FlowInv, Before, Admissions, Busy, Durable, Idle, Pcs, Resting
  <2>12. StepInv' BY <1>1, <1>2, <2>1, Zenon DEF StepInv, InStep, Busy, Resting
  <2> QED BY <1>0, <1>1, <2>1, <2>7, <2>8, <2>9, <2>10, <2>11, <2>12, Zenon DEF WorkInv, Historic
<1>5. CASE ~healthy /\ Answer(lane, "rejected") /\ ex' = ex
  <2>1. lane \in Seq(Pos) /\ ex.rest \in Seq(Pos) /\ (\A i \in 1 .. Len(lane) : Fresh(lane[i])) /\ Below(ex.rest, lane)
    BY <1>0, Zenon DEF QueueInv
  <2>2. \A i \in Range(lane), at \in 1 .. Len(log) : log[at].id # i
    BY <1>0, <2>1, FreshUnlogged, Zenon
  <2>3. \A i \in 1 .. Len(ex.rest) : ex.rest[i] \notin Range(lane)
    <3>1. \A i \in 1 .. Len(ex.rest), j \in 1 .. Len(lane) : ex.rest[i] \in Nat /\ ex.rest[i] < lane[j]
      BY <2>1 DEF Below, Pos
    <3> QED BY <2>1, <3>1 DEF Range
  <2>4. AnswerStep(Range(lane), "rejected")
    <3>1. Restated(Range(lane), "rejected") BY <1>0, <1>5, AnswerOK, Zenon DEF QueueInv, Statuses
    <3> QED BY <1>0, <1>1, <1>5, <2>2, <2>3, <3>1 DEF AnswerStep
  <2>5. FreshInv' BY <1>1, <1>5, Zenon DEF FreshInv, Before, Busy
  <2>6. FlowInv'
    BY <1>0, <1>1, <1>5, Zenon
       DEF WorkInv, FlowInv, Before, Admissions, Busy, Durable, Idle, Pcs, Resting
  <2>7. StepInv' BY <1>1, <1>2, <1>5, Zenon DEF StepInv, InStep, Busy, Resting
  <2> QED BY <1>1, <1>5, <2>4, <2>5, <2>6, <2>7, AnswerKeeps, Zenon DEF WorkInv
<1> QED BY <1>3, <1>4, <1>5, Zenon DEF TakeBatch

\* NextChunk keeps the work in order: chunk and rest stay sorted.
LEMMA NextChunkInv == ASSUME SlotInv, WorkInv, NextChunk PROVE WorkInv' /\ ex'.pc # "idle"
<1>0. /\ ExOK(ex) /\ Historic(pool, log) /\ Upto(pool) \in 0 .. Len(log) /\ QueueInv
      /\ env \in Environments
  BY PoolHistoric, Zenon DEF SlotInv, WorkInv, FlowInv
<1>1. /\ ex.pc = "next" /\ log' = log /\ lane' = lane /\ env' = env /\ pool' = pool
      /\ healthy' = healthy
  BY Zenon DEF NextChunk, Elsewhere
<1>2. healthy => InStep BY <1>1, Zenon DEF WorkInv, StepInv, Resting
<1>3. CASE ex' = [ex EXCEPT !.pc = "take"] /\ req' = req
  <2>1. ex'.pc = "take" /\ SameWork /\ ex'.published = ex.published
    BY <1>0, <1>3, Zenon DEF ExOK, ExFields, SameWork
  <2>2. QuietStep BY <1>1, <1>3, <2>1, StaysQuiet, Zenon
  <2>3. ~Before' BY <2>1, Zenon DEF Before, Busy
  <2>4. FlowInv'
    BY <1>0, <1>1, <2>1, Zenon DEF FlowInv, Before, Admissions, Busy, Durable, Idle, Pcs, Resting
  <2>5. StepInv' BY <1>1, <1>2, <2>1, Zenon DEF StepInv, InStep, Busy, Resting
  <2> QED BY <2>1, <2>2, <2>3, <2>4, <2>5, QuietKeeps, Zenon DEF WorkInv
<1>4. CASE Answer(ex.rest, "rejected") /\ ex' = [ex EXCEPT !.pc = "take", !.rest = <<>>]
  <2>1. /\ ex'.pc = "take" /\ ex'.rest = <<>> /\ ex'.chunk = ex.chunk
        /\ ex'.committed = ex.committed
    BY <1>0, <1>4, Zenon DEF ExOK, ExFields
  <2>2. lane \in Seq(Pos) /\ ex.rest \in Seq(Pos) /\ (\A i \in 1 .. Len(ex.rest) : Fresh(ex.rest[i])) /\ Below(ex.rest, lane)
    BY <1>0, Zenon DEF QueueInv
  <2>3. \A i \in Range(ex.rest), at \in 1 .. Len(log) : log[at].id # i
    BY <1>0, <2>2, FreshUnlogged, Zenon
  <2>4. \A i \in 1 .. Len(lane) : lane[i] \notin Range(ex.rest)
    <3>1. \A i \in 1 .. Len(ex.rest), j \in 1 .. Len(lane) : ex.rest[i] \in Nat /\ ex.rest[i] < lane[j]
      BY <2>2 DEF Below, Pos
    <3> QED BY <2>2, <3>1 DEF Range
  <2>5. AnswerStep(Range(ex.rest), "rejected")
    <3>1. Restated(Range(ex.rest), "rejected") BY <1>0, <1>4, AnswerOK, Zenon DEF QueueInv, Statuses
    <3> QED BY <1>0, <1>1, <2>1, <2>3, <2>4, <3>1 DEF AnswerStep
  <2>6. FreshInv' BY <2>1, Zenon DEF FreshInv, Before, Busy
  <2>7. FlowInv'
    BY <1>0, <1>1, <2>1, Zenon DEF FlowInv, Before, Admissions, Busy, Durable, Idle, Pcs, Resting
  <2>8. StepInv' BY <1>1, <1>2, <2>1, Zenon DEF StepInv, InStep, Busy, Resting
  <2> QED BY <2>1, <2>5, <2>6, <2>7, <2>8, AnswerKeeps, Zenon DEF WorkInv
<1>5. CASE /\ ex.rest # <<>> /\ healthy /\ req' = req
           /\ ex' = [IdleEx EXCEPT !.pc = "house", !.ret = "admit", !.records = ChunkSize(ex.rest),
                                   !.chunk = SubSeq(ex.rest, 1, ChunkSize(ex.rest)),
                                   !.rest = SubSeq(ex.rest, ChunkSize(ex.rest) + 1, Len(ex.rest))]
  <2>1. PICK n : n = ChunkSize(ex.rest) BY Zenon
  <2>2. /\ ex'.pc = "house" /\ ex'.ret = "admit" /\ ex'.chunk = SubSeq(ex.rest, 1, n)
        /\ ex'.rest = SubSeq(ex.rest, n + 1, Len(ex.rest)) /\ ex'.applied = 0 /\ ex'.staged = <<>>
        /\ ex'.published = FALSE /\ ex'.committed = FALSE
    BY <1>5, <2>1, Zenon DEF IdleEx
  <2>3. ex.rest \in Seq(Pos) BY <1>0, Zenon DEF QueueInv
  <2>4. n \in 1 .. Len(ex.rest) /\ (env.durable => n = 1) BY <1>5, <2>1, <2>3, ChunkSizeOK, Zenon
  <2>5. PICK c, r : c = ex'.chunk /\ r = ex'.rest BY Zenon
  <2>6. /\ c \in Seq(Pos) /\ Len(c) = n /\ \A i \in 1 .. n : c[i] = ex.rest[i]
        /\ r \in Seq(Pos) /\ Len(r) = Len(ex.rest) - n /\ \A i \in 1 .. Len(r) : r[i] = ex.rest[n + i] /\ n + i \in 1 .. Len(ex.rest)
    BY <2>2, <2>3, <2>4, <2>5, SplitAt
  <2>7. Sorted(c) /\ Sorted(r) /\ Below(c, r) /\ Below(c, lane) /\ Below(r, lane)
    <3>1. Sorted(ex.rest) /\ Below(ex.rest, lane) BY <1>0, Zenon DEF QueueInv
    <3>2. \A i \in 1 .. n : i \in 1 .. Len(ex.rest) BY <2>3, <2>4
    <3>3. Sorted(c) BY <2>6, <3>1, <3>2, Zenon DEF Sorted
    <3>4. Sorted(r) BY <2>4, <2>6, <3>1 DEF Sorted
    <3>5. Below(c, r)
      <4>1. SUFFICES ASSUME NEW i \in 1 .. n, NEW j \in 1 .. Len(r) PROVE c[i] < r[j]
        BY <2>6, Zenon DEF Below
      <4>2. i < n + j /\ i \in 1 .. Len(ex.rest) /\ n + j \in 1 .. Len(ex.rest) BY <2>4, <2>6, <3>2
      <4>3. ex.rest[i] < ex.rest[n + j] BY <3>1, <4>2, Zenon DEF Sorted
      <4> QED BY <2>6, <4>3, Zenon
    <3> QED BY <2>6, <3>1, <3>2, <3>3, <3>4, <3>5, Zenon DEF Below
  <2>8. /\ \A i \in 1 .. Len(c) : Fresh(c[i])' /\ c[i] <= Len(req)
        /\ \A i \in 1 .. Len(r) : Fresh(r[i])'
    <3>1. \A i \in 1 .. Len(ex.rest) : Fresh(ex.rest[i]) BY <1>0, Zenon DEF QueueInv
    <3>2. \A i \in 1 .. n : i \in 1 .. Len(ex.rest) BY <2>3, <2>4
    <3>3. \A i \in 1 .. Len(c) : Fresh(c[i]) BY <2>6, <3>1, <3>2, Zenon
    <3>4. \A i \in 1 .. Len(r) : Fresh(r[i]) BY <2>6, <3>1, Zenon
    <3> QED BY <1>1, <1>5, <3>3, <3>4, Zenon DEF Fresh
  <2>9. QueueInv'
    <3>1. \A i \in 1 .. Len(lane) : Fresh(lane[i])' BY <1>0, <1>1, <1>5, Zenon DEF Fresh, QueueInv
    <3> QED BY <1>0, <1>1, <1>5, <2>5, <2>6, <2>7, <2>8, <3>1, Zenon DEF QueueInv, Fresh
  <2>10. FreshInv' BY <2>2, <2>5, <2>8, Zenon DEF FreshInv, Fresh
  <2>11. CommitInv' BY <2>2, Zenon DEF CommitInv
  <2>12. SuccessInv' BY <1>1, <1>5, Zenon DEF WorkInv, SuccessInv
  <2>13. FlowInv'
    BY <1>0, <1>1, <2>2, <2>4, <2>5, <2>6
       DEF FlowInv, Before, Admissions, Busy, Durable, Idle, Pcs, Resting
  <2>14. StepInv' BY <1>1, <1>2, <1>5, <2>2, Zenon DEF StepInv, InStep, Busy, Resting
  <2> QED BY <1>0, <1>1, <2>2, <2>9, <2>10, <2>11, <2>12, <2>13, <2>14, Zenon DEF WorkInv, Historic
<1> QED BY <1>3, <1>4, <1>5, Zenon DEF NextChunk

(***************************************************************************)
(* Callers.                                                                *)
(***************************************************************************)
\* The elements of a concatenation.
LEMMA ConcatAt ==
    ASSUME NEW S, NEW p \in Seq(S), NEW q \in Seq(S), NEW r, r = p \o q
    PROVE  /\ r \in Seq(S) /\ Len(r) = Len(p) + Len(q)
           /\ \A i \in 1 .. Len(p) : r[i] = p[i]
           /\ \A i \in 1 .. Len(q) : r[Len(p) + i] = q[i]
<1>1. r \in Seq(S) /\ Len(r) = Len(p) + Len(q) OBVIOUS
<1>2. \A i \in 1 .. Len(p) + Len(q) : r[i] = IF i <= Len(p) THEN p[i] ELSE q[i - Len(p)] OBVIOUS
<1>3. Len(p) \in Nat /\ Len(q) \in Nat OBVIOUS
<1>4. \A i \in 1 .. Len(p) : r[i] = p[i] BY <1>2, <1>3
<1>5. ASSUME NEW i \in 1 .. Len(q) PROVE r[Len(p) + i] = q[i]
  <2>1. Len(p) + i \in 1 .. Len(p) + Len(q) /\ ~(Len(p) + i <= Len(p)) /\ (Len(p) + i) - Len(p) = i
    BY <1>3
  <2> QED BY <1>2, <2>1, Zenon
<1> QED BY <1>1, <1>4, <1>5, Zenon

\* Lane r is lane q after n nodes were pushed, numbered from m + 1: newest first.
Pushed(r, q, n, m) ==
    /\ r \in Seq(Pos) /\ Len(r) = n + Len(q)
    /\ \A i \in 1 .. n : r[i] = m + n - i + 1
    /\ \A i \in 1 .. Len(q) : r[n + i] = q[i]

\* Push puts the nodes of a call in front of the lane, the last one first.
LEMMA PushedLane ==
    ASSUME NEW q \in Seq(Pos), NEW n \in Nat, NEW m \in Nat
    PROVE  Pushed(Reverse([i \in 1 .. n |-> m + i]) \o q, q, n, m)
<1>0. PICK ids : ids = [i \in 1 .. n |-> m + i] BY Zenon
<1>1. ids \in Seq(Pos) /\ Len(ids) = n /\ \A i \in 1 .. n : ids[i] = m + i BY <1>0 DEF Pos
<1>2. PICK v : v = Reverse(ids) BY Zenon
<1>3. /\ v \in Seq(Pos) /\ Len(v) = Len(ids)
      /\ \A i \in 1 .. Len(ids) : v[i] = ids[Len(ids) - i + 1] /\ Len(ids) - i + 1 \in 1 .. Len(ids)
  <2>1. ids \in Seq(Pos) BY <1>1, Zenon
  <2> QED BY <1>2, <2>1, Reversed, Zenon
<1>4. ASSUME NEW i \in 1 .. n PROVE v[i] = m + n - i + 1
  <2>1. v[i] = ids[n - i + 1] /\ n - i + 1 \in 1 .. n BY <1>1, <1>3, Zenon
  <2>2. v[i] = m + (n - i + 1) BY <1>1, <2>1, Zenon
  <2> QED BY <2>2
<1>5. PICK r : r = v \o q BY Zenon
<1>6. /\ r \in Seq(Pos) /\ Len(r) = Len(v) + Len(q)
      /\ \A i \in 1 .. Len(v) : r[i] = v[i]
      /\ \A i \in 1 .. Len(q) : r[Len(v) + i] = q[i]
  <2>1. v \in Seq(Pos) BY <1>3, Zenon
  <2> QED BY <1>5, <2>1, ConcatAt
<1>7. Len(v) = n BY <1>1, <1>3, Zenon
<1>8. Pushed(r, q, n, m) BY <1>4, <1>6, <1>7, Zenon DEF Pushed
<1> QED BY <1>0, <1>2, <1>5, <1>8, Zenon

\* Push keeps the work in order: new nodes are fresh and come last.
LEMMA PushInv == ASSUME SlotInv, WorkInv, NEW c, Push(c) PROVE WorkInv'
<1>0. /\ Historic(pool, log) /\ QueueInv /\ env \in Environments
      /\ req \in Seq(Nodes) /\ log \in Seq(Entries) /\ lane \in Seq(Pos)
  BY PoolHistoric, Zenon DEF SlotInv, WorkInv, FlowInv, QueueInv
<1>1. log' = log /\ ex' = ex /\ env' = env /\ pool' = pool /\ healthy' = healthy BY Zenon DEF Push
<1>2. PICK items \in env.batches :
        /\ req' = req \o [i \in DOMAIN items |-> [key |-> items[i][2], op |-> items[i][1],
                                                  status |-> "pending", done |-> FALSE]]
        /\ lane' = Reverse([i \in DOMAIN items |-> Len(req) + i]) \o lane
  BY Zenon DEF Push
<1>3. items \in Seq({"put", "erase"} \X Keys) BY <1>0, PairLaneAssumption, Zenon
<1>4. PICK n, m : n = Len(items) /\ m = Len(req) BY Zenon
<1>5. n \in Nat /\ m \in Nat /\ DOMAIN items = 1 .. n BY <1>0, <1>3, <1>4
<1>6. PICK new : new = [i \in 1 .. n |-> [key |-> items[i][2], op |-> items[i][1], status |-> "pending", done |-> FALSE]]
  BY Zenon
<1>7. req' = req \o new BY <1>2, <1>5, <1>6, Zenon
<1>8. new \in Seq(Nodes) /\ Len(new) = n /\ \A i \in 1 .. n : new[i].status = "pending"
  <2>1. ASSUME NEW i \in 1 .. n
        PROVE  /\ [key |-> items[i][2], op |-> items[i][1], status |-> "pending", done |-> FALSE] \in Nodes
    <3>1. items[i] \in {"put", "erase"} \X Keys BY <1>3, <1>4
    <3>2. items[i][1] \in {"put", "erase"} /\ items[i][2] \in Keys BY <3>1, Zenon
    <3> QED BY <3>2, Zenon DEF Nodes, Statuses
  <2> QED BY <1>5, <1>6, <2>1
<1>9. /\ lane' \in Seq(Pos) /\ Len(lane') = n + Len(lane)
      /\ \A i \in 1 .. n : lane'[i] = m + n - i + 1
      /\ \A i \in 1 .. Len(lane) : lane'[n + i] = lane[i]
  <2>1. lane' = Reverse([i \in 1 .. n |-> m + i]) \o lane BY <1>2, <1>4, <1>5, Zenon
  <2>2. Pushed(lane', lane, n, m) BY <1>0, <1>5, <2>1, PushedLane, Zenon
  <2> QED BY <2>2, Zenon DEF Pushed
<1> HIDE <1>6
<1>10. /\ req' \in Seq(Nodes) /\ Len(req') = m + n /\ (\A i \in 1 .. m : req'[i] = req[i])
       /\ \A i \in 1 .. n : req'[m + i] = new[i]
  <2>1. /\ req' \in Seq(Nodes) /\ Len(req') = Len(req) + Len(new)
        /\ (\A i \in 1 .. Len(req) : req'[i] = req[i])
        /\ \A i \in 1 .. Len(new) : req'[Len(req) + i] = new[i]
    <3>1. new \in Seq(Nodes) /\ req \in Seq(Nodes) BY <1>0, <1>8, Zenon
    <3> QED BY <1>7, <3>1, ConcatAt
  <2> QED BY <1>4, <1>8, <2>1, Zenon
<1>11. \A i \in m + 1 .. m + n : req'[i].status = "pending"
  <2>1. ASSUME NEW i \in m + 1 .. m + n PROVE req'[i].status = "pending"
    <3>1. i - m \in 1 .. n /\ m + (i - m) = i BY <1>5
    <3> QED BY <1>8, <1>10, <3>1, Zenon
  <2> QED BY <2>1, Zenon
<1>12. \A i \in 1 .. Len(log) : log[i].id \in Nat /\ log[i].id <= m
  <2>1. ASSUME NEW i \in 1 .. Len(log) PROVE log[i].id \in Nat
    <3>1. log[i] \in Entries BY <1>0
    <3> QED BY <3>1, Zenon DEF Entries, Pos
  <2> QED BY <1>0, <1>4, <2>1, Zenon DEF QueueInv
<1>13. ASSUME NEW id \in Pos, Fresh(id) PROVE id <= m /\ Fresh(id)'
  <2>1. id \in 1 .. m BY <1>4, <1>5, <1>13 DEF Fresh, Pos
  <2> QED BY <1>1, <1>4, <1>5, <1>10, <1>13, <2>1 DEF Fresh
<1>14. ASSUME NEW id \in m + 1 .. m + n PROVE Fresh(id)'
  BY <1>1, <1>5, <1>10, <1>11, <1>12 DEF Fresh
<1>15. ASSUME NEW i \in 1 .. Len(lane')
       PROVE  \/ i \in 1 .. n /\ lane'[i] = m + n - i + 1 /\ lane'[i] \in m + 1 .. m + n
              \/ i - n \in 1 .. Len(lane) /\ i > n /\ lane'[i] = lane[i - n]
  <2>1. Len(lane) \in Nat BY <1>0
  <2>2. CASE i <= n BY <1>5, <1>9, <2>1, <2>2
  <2>3. CASE i > n
    <3>1. i - n \in 1 .. Len(lane) /\ n + (i - n) = i BY <1>5, <1>9, <2>1, <2>3
    <3> QED BY <1>9, <2>3, <3>1, Zenon
  <2> QED BY <1>5, <1>9, <2>1, <2>2, <2>3
<1>16. QueueInv'
  <2>1. \A i \in 1 .. Len(lane) : lane[i] \in Pos /\ Fresh(lane[i]) /\ lane[i] <= m
    <3>1. \A i \in 1 .. Len(lane) : lane[i] \in Pos /\ Fresh(lane[i]) BY <1>0 DEF QueueInv
    <3> QED BY <1>13, <3>1, Zenon
  <2>2. ex.rest \in Seq(Pos) /\ \A i \in 1 .. Len(ex.rest) : ex.rest[i] \in Pos /\ Fresh(ex.rest[i]) /\ ex.rest[i] <= m
    <3>1. ex.rest \in Seq(Pos) BY <1>0, Zenon DEF QueueInv
    <3>2. \A i \in 1 .. Len(ex.rest) : ex.rest[i] \in Pos /\ Fresh(ex.rest[i])
      BY <1>0, <3>1 DEF QueueInv
    <3> QED BY <1>13, <3>1, <3>2, Zenon
  <2>3. ex.chunk \in Seq(Pos) /\ \A i \in 1 .. Len(ex.chunk) : ex.chunk[i] \in Pos /\ ex.chunk[i] <= m
    BY <1>0, <1>4 DEF QueueInv
  <2>4. (\A i \in 1 .. Len(lane) : Fresh(lane[i]))'
    <3>1. ASSUME NEW i \in 1 .. Len(lane') PROVE \E y \in Pos : y = lane'[i] /\ Fresh(y)'
      <4>1. CASE lane'[i] \in m + 1 .. m + n
        <5>1. PICK y \in m + 1 .. m + n : y = lane'[i] BY <4>1, Zenon
        <5>2. y \in Pos BY <1>5 DEF Pos
        <5> QED BY <1>14, <5>1, <5>2, Zenon
      <4>2. CASE i - n \in 1 .. Len(lane) /\ lane'[i] = lane[i - n] BY <1>13, <2>1, <4>2, Zenon
      <4> QED BY <1>15, <4>1, <4>2, Zenon
    <3> QED BY <3>1, Zenon DEF Fresh
  <2>5. (\A i \in 1 .. Len(ex.rest) : Fresh(ex.rest[i]))'
    <3>1. \A i \in 1 .. Len(ex.rest) : \E y \in Pos : y = ex.rest[i] /\ Fresh(y)'
      BY <1>13, <2>2, Zenon
    <3> QED BY <1>1, <3>1, Zenon DEF Fresh
  <2>6. \A i, j \in 1 .. Len(lane') : i < j => lane'[j] < lane'[i]
    <3>1. SUFFICES ASSUME NEW i \in 1 .. Len(lane'), NEW j \in 1 .. Len(lane'), i < j PROVE lane'[j] < lane'[i]
      BY Zenon
    <3>2. CASE i \in 1 .. n /\ lane'[i] = m + n - i + 1 /\ lane'[i] \in m + 1 .. m + n
      <4>1. CASE lane'[j] = m + n - j + 1 /\ j \in 1 .. n BY <1>5, <3>1, <3>2, <4>1
      <4>2. CASE j - n \in 1 .. Len(lane) /\ lane'[j] = lane[j - n]
        <5>1. lane'[j] \in Nat /\ lane'[j] <= m BY <2>1, <4>2, Zenon DEF Pos
        <5> QED BY <1>5, <3>2, <5>1
      <4> QED BY <1>15, <4>1, <4>2, Zenon
    <3>3. CASE i - n \in 1 .. Len(lane) /\ i > n /\ lane'[i] = lane[i - n]
      <4>1. ~(j \in 1 .. n) BY <1>5, <3>1, <3>3
      <4>2. j - n \in 1 .. Len(lane) /\ lane'[j] = lane[j - n] BY <1>15, <4>1, Zenon
      <4>3. i - n < j - n BY <1>5, <3>1
      <4> QED BY <1>0, <3>3, <4>2, <4>3, Zenon DEF QueueInv
    <3> QED BY <1>15, <3>2, <3>3, Zenon
  <2>7. ASSUME NEW p \in Seq(Pos), \A i \in 1 .. Len(p) : p[i] <= m, Below(p, lane) PROVE Below(p, lane')
    <3>1. SUFFICES ASSUME NEW i \in 1 .. Len(p), NEW j \in 1 .. Len(lane') PROVE p[i] < lane'[j]
      BY Zenon DEF Below
    <3>2. p[i] \in Nat /\ p[i] <= m BY <2>7 DEF Pos
    <3>3. CASE lane'[j] \in m + 1 .. m + n BY <1>5, <3>2, <3>3
    <3>4. CASE j - n \in 1 .. Len(lane) /\ lane'[j] = lane[j - n] BY <2>7, <3>4, Zenon DEF Below
    <3> QED BY <1>15, <3>3, <3>4, Zenon
  <2>8. Below(ex.chunk, lane') /\ Below(ex.rest, lane')
    BY <1>0, <2>2, <2>3, <2>7, Zenon DEF QueueInv
  <2>9. /\ \A i \in 1 .. Len(log) : log[i].id <= Len(req')
        /\ \A i \in 1 .. Len(ex.chunk) : ex.chunk[i] <= Len(req')
    <3>1. \A i \in 1 .. Len(ex.chunk) : ex.chunk[i] \in Nat /\ ex.chunk[i] <= m
      BY <2>3, Zenon DEF Pos
    <3> QED BY <1>5, <1>10, <1>12, <3>1
  <2>10. \A i \in 1 .. Len(req') : req'[i].status \in {"rejected", "absent"} => \A at \in 1 .. Len(log) : log[at].id # i
    <3>1. \A i \in 1 .. Len(req') : i \in 1 .. m \/ i \in m + 1 .. m + n BY <1>5, <1>10
    <3>2. \A i \in 1 .. m : req[i].status \in {"rejected", "absent"} => \A at \in 1 .. Len(log) : log[at].id # i
      BY <1>0, <1>4, Zenon DEF QueueInv
    <3> QED BY <1>10, <1>11, <3>1, <3>2, Zenon
  <2>11. /\ Sorted(ex.chunk) /\ Sorted(ex.rest) /\ Below(ex.chunk, ex.rest)
         /\ \A i, j \in 1 .. Len(log) : i < j => log[i].id < log[j].id
    BY <1>0, Zenon DEF QueueInv
  <2> QED
    BY <1>0, <1>1, <1>9, <1>10, <2>2, <2>3, <2>4, <2>5, <2>6, <2>8, <2>9, <2>10, <2>11, Zenon
       DEF QueueInv
<1>17. FreshInv'
  <2>1. ASSUME NEW i \in 1 .. Len(ex.chunk), Fresh(ex.chunk[i]) PROVE Fresh(ex.chunk[i])'
    <3>1. PICK y \in Pos : y = ex.chunk[i] BY <1>0 DEF QueueInv
    <3>2. Fresh(y)' BY <1>13, <2>1, <3>1, Zenon
    <3> QED BY <1>1, <3>1, <3>2, Zenon DEF Fresh
  <2>2. Before => ex.applied = 0 /\ ex.staged = <<>> /\ \A i \in 1 .. Len(ex.chunk) : Fresh(ex.chunk[i])'
    BY <2>1, Zenon DEF WorkInv, FreshInv
  <2>3. ex.pc = "apply" => /\ ex.applied \in Nat /\ ex.applied < Len(ex.chunk)
                           /\ \A i \in ex.applied + 1 .. Len(ex.chunk) : Fresh(ex.chunk[i])'
    <3>1. ex.applied \in Nat => \A i \in ex.applied + 1 .. Len(ex.chunk) : i \in 1 .. Len(ex.chunk)
      OBVIOUS
    <3> QED BY <2>1, <3>1, Zenon DEF WorkInv, FreshInv
  <2> QED BY <1>1, <2>2, <2>3, Zenon DEF FreshInv, Before, Fresh
<1>18. SuccessInv'
  <2>1. \A i \in 1 .. Len(req') : req'[i].status = "success" => i \in 1 .. m /\ req[i].status = "success"
    <3>1. \A i \in 1 .. Len(req') : i \in 1 .. m \/ i \in m + 1 .. m + n BY <1>5, <1>10
    <3> QED BY <1>10, <1>11, <3>1, Zenon
  <2> QED BY <1>1, <1>4, <2>1, Zenon DEF WorkInv, SuccessInv
<1>19. CommitInv' BY <1>1, Zenon DEF WorkInv, CommitInv
<1>20. FlowInv' BY <1>1, Zenon DEF WorkInv, FlowInv, Before
<1>21. StepInv' BY <1>1, Zenon DEF WorkInv, StepInv, InStep, Before
<1> QED BY <1>0, <1>1, <1>16, <1>17, <1>18, <1>19, <1>20, <1>21, Zenon DEF WorkInv, Historic

(***************************************************************************)
(* Answers, and the failure path of a durable node.                        *)
(***************************************************************************)
\* Reply, ...
LEMMA ReplyInv == ASSUME SlotInv, WorkInv, Reply PROVE WorkInv' /\ ex'.pc # "idle"
<1>0. /\ ExOK(ex) /\ Historic(pool, log) /\ Upto(pool) \in 0 .. Len(log) /\ QueueInv
      /\ env \in Environments
  BY PoolHistoric, Zenon DEF SlotInv, WorkInv, FlowInv
<1>1. ex' = [ex EXCEPT !.pc = "next"] BY Zenon DEF Reply
<1>2. ex'.pc = "next" /\ SameWork /\ ex'.published = ex.published
  BY <1>0, <1>1, Zenon DEF ExOK, ExFields, SameWork
<1>3. /\ ex.pc = "reply" /\ log' = log /\ lane' = lane /\ env' = env /\ pool' = pool
      /\ healthy' = healthy
  BY Zenon DEF Reply, Elsewhere
<1>4. QuietStep BY <1>0, <1>2, <1>3, ReplyOK DEF QuietStep, QueueInv
<1>5. ~Before' BY <1>2, Zenon DEF Before, Busy
<1>6. FlowInv'
  BY <1>0, <1>2, <1>3, Zenon DEF FlowInv, Before, Admissions, Busy, Durable, Idle, Pcs, Resting
<1>7. StepInv' BY <1>2, <1>3, Zenon DEF WorkInv, StepInv, InStep, Busy, Resting
<1> QED BY <1>2, <1>4, <1>5, <1>6, <1>7, QuietKeeps, Zenon DEF WorkInv

\* ... Check ...
LEMMA CheckInv == ASSUME SlotInv, WorkInv, Check PROVE WorkInv' /\ ex'.pc # "idle"
<1>0. /\ ExOK(ex) /\ Historic(pool, log) /\ Upto(pool) \in 0 .. Len(log) /\ QueueInv
      /\ env \in Environments
  BY PoolHistoric, Zenon DEF SlotInv, WorkInv, FlowInv
<1>1. \/ ex' = [ex EXCEPT !.pc = "reply"]
      \/ ex' = [ex EXCEPT !.pc = "drain", !.final = TRUE] /\ ~ex.published
  BY Zenon DEF Check
<1>2. \/ ex'.pc = "reply" /\ SameWork /\ ex'.published = ex.published
      \/ ex'.pc = "drain" /\ SameWork /\ ex'.published = ex.published /\ ~ex.published
  BY <1>0, <1>1, Zenon DEF ExOK, ExFields, SameWork
<1>3. /\ ex.pc = "check" /\ req' = req /\ log' = log /\ lane' = lane /\ env' = env /\ pool' = pool
      /\ (healthy' => healthy)
  BY Zenon DEF Check, FailClosed, Elsewhere
<1>4. QuietStep BY <1>2, <1>3, StaysQuiet, Zenon
<1>5. ~Before' /\ ex'.pc # "apply" BY <1>2, Zenon DEF Before, Busy
<1>6. FlowInv'
  BY <1>0, <1>2, <1>3, Zenon
     DEF WorkInv, FlowInv, SameWork, Before, Admissions, Busy, Durable, Idle, Pcs, Resting
<1>7. StepInv' BY <1>2, <1>3, Zenon DEF WorkInv, StepInv, InStep, Busy, Resting
<1> QED BY <1>2, <1>4, <1>5, <1>6, <1>7, QuietKeeps, Zenon DEF WorkInv

\* ... and PeekThenRelease are quiet.
LEMMA PeekInv == ASSUME SlotInv, WorkInv, PeekThenRelease PROVE WorkInv' /\ ex'.pc # "idle"
<1>0. /\ ExOK(ex) /\ Historic(pool, log) /\ Upto(pool) \in 0 .. Len(log) /\ QueueInv
      /\ env \in Environments
  BY PoolHistoric, Zenon DEF SlotInv, WorkInv, FlowInv
<1>1. ex' = [ex EXCEPT !.pc = "release", !.pending = (lane # <<>>)] BY Zenon DEF PeekThenRelease
<1>2. ex'.pc = "release" /\ SameWork /\ ex'.published = ex.published
  BY <1>0, <1>1, Zenon DEF ExOK, ExFields, SameWork
<1>3. /\ ex.pc = "peek" /\ req' = req /\ log' = log /\ lane' = lane /\ env' = env /\ pool' = pool
      /\ healthy' = healthy
  BY Zenon DEF PeekThenRelease
<1>4. QuietStep BY <1>2, <1>3, StaysQuiet, Zenon
<1>5. ~Before' BY <1>2, Zenon DEF Before, Busy
<1>6. FlowInv'
  BY <1>0, <1>2, <1>3, Zenon DEF FlowInv, Before, Admissions, Busy, Durable, Idle, Pcs, Resting
<1>7. StepInv' BY <1>2, <1>3, Zenon DEF WorkInv, StepInv, InStep, Busy, Resting
<1> QED BY <1>2, <1>4, <1>5, <1>6, <1>7, QuietKeeps, Zenon DEF WorkInv

\* The token is taken and given up with nothing at hand.
LEMMA EmptyHanded ==
    ASSUME SlotInv, WorkInv, ex.pc \in {"release", "idle"}, req' = req, log' = log, lane' = lane, env' = env,
           pool' = pool, healthy' = healthy,
           ex'.pc \in {"take", "idle"}, ex'.chunk = <<>>, ex'.rest = <<>>, ex'.committed = FALSE
    PROVE  WorkInv'
<1>0. Historic(pool, log) /\ QueueInv /\ env \in Environments
  BY PoolHistoric, Zenon DEF SlotInv, WorkInv, FlowInv
<1>1. QueueInv'
  <2>1. \A i \in 1 .. Len(lane) : Fresh(lane[i])' BY <1>0, Zenon DEF Fresh, QueueInv
  <2>2. Below(<<>>, lane) /\ Below(<<>>, <<>>) /\ Sorted(<<>>) BY DEF Below, Sorted
  <2> QED BY <1>0, <2>1, <2>2 DEF QueueInv, Fresh
<1>2. FreshInv' BY Zenon DEF FreshInv, Before, Busy
<1>3. CommitInv' BY Zenon DEF CommitInv
<1>4. SuccessInv' BY Zenon DEF WorkInv, SuccessInv
<1>5. FlowInv' BY <1>0, Zenon DEF FlowInv, Before, Admissions, Busy, Durable, Idle, Pcs, Resting
<1>6. StepInv' BY Zenon DEF WorkInv, StepInv, InStep, Busy, Resting
<1> QED BY <1>0, <1>1, <1>2, <1>3, <1>4, <1>5, <1>6, Zenon DEF WorkInv, Historic

\* Release, ...
LEMMA ReleaseInv == ASSUME SlotInv, WorkInv, Release PROVE WorkInv'
<1>1. ex'.pc = "idle" /\ ex'.chunk = <<>> /\ ex'.rest = <<>> /\ ex'.committed = FALSE
  BY Zenon DEF Release, IdleEx
<1> QED BY <1>1, EmptyHanded, Zenon DEF Release

\* ... and the next Acquire.
LEMMA AcquireInv == ASSUME SlotInv, WorkInv, ex.pc = "idle", NEW c, Acquire(c) PROVE WorkInv' /\ ex'.pc = "take"
<1>1. ex'.pc = "take" /\ ex'.chunk = <<>> /\ ex'.rest = <<>> /\ ex'.committed = FALSE
  BY Zenon DEF Acquire, IdleEx
<1> QED BY <1>1, EmptyHanded, Zenon DEF Acquire

\* Drain brings the writer in step with the log, or leaves it.
LEMMA DrainInv == ASSUME SlotInv, WorkInv, Drain PROVE WorkInv' /\ ex'.pc # "idle"
<1>0. /\ ExOK(ex) /\ PoolOK(pool) /\ Historic(pool, log) /\ Upto(pool) \in 0 .. Len(log) /\ QueueInv
      /\ env \in Environments
      /\ log \in Seq(Entries)
  BY PoolHistoric, Zenon DEF SlotInv, WorkInv, FlowInv, QueueInv
<1> DEFINE q == EndMerge(PublishSnapshot(pool, TryReserve(pool), Contents(log, Len(log)), Len(log)))
<1>1. /\ ex.pc = "drain" /\ req' = req /\ log' = log /\ lane' = lane /\ env' = env
      /\ healthy' = healthy
  BY Zenon DEF Drain, Elsewhere
<1>2. \/ ex' = [ex EXCEPT !.pc = "closed"] /\ pool' = pool
      \/ FreeSlots(pool) # {} /\ pool' = q /\ Proportional([ex EXCEPT !.published = TRUE], pool', "closed")
  BY Zenon DEF Drain
<1>3. FreeSlots(pool) # {} => Historic(q, log) /\ Upto(q) = Len(log)
  BY <1>0, Reserved, SnapshotHistory, Zenon
<1> HIDE DEF q
<1>4. env.durable /\ ~ex.published /\ Len(ex.chunk) = 1 /\ Len(ex.chunk) >= 1
  BY <1>1, Zenon DEF WorkInv, FlowInv, Durable, Idle
<1>5. CASE ex' = [ex EXCEPT !.pc = "closed"] /\ pool' = pool
  <2>1. ex'.pc = "closed" /\ SameWork /\ ex'.published = ex.published
    BY <1>0, <1>5, Zenon DEF ExOK, ExFields, SameWork
  <2>2. QuietStep BY <1>1, <1>5, <2>1, StaysQuiet, Zenon
  <2>3. ~Before' BY <2>1, Zenon DEF Before, Busy
  <2>4. FlowInv'
    BY <1>0, <1>1, <1>4, <2>1, Zenon
       DEF FlowInv, SameWork, Before, Admissions, Busy, Durable, Idle, Pcs, Resting
  <2>5. StepInv' BY <1>4, <2>1, Zenon DEF StepInv, InStep, Busy, Resting
  <2> QED BY <2>1, <2>2, <2>3, <2>4, <2>5, QuietKeeps, Zenon DEF WorkInv
<1>6. CASE FreeSlots(pool) # {} /\ pool' = q /\ Proportional([ex EXCEPT !.published = TRUE], pool', "closed")
  <2>1. /\ \/ ex'.pc = "house" /\ ex'.ret = "closed"
           \/ ex'.pc = "closed"
        /\ SameWork
    BY <1>0, <1>6, Zenon DEF Proportional, ExOK, ExFields, SameWork
  <2>2. QuietStep BY <1>0, <1>1, <1>3, <1>6, <2>1, SameReq DEF QuietStep, QueueInv
  <2>3. ~Before' /\ ex'.pc # "apply" BY <2>1, Zenon DEF Before, Busy
  <2>4. FlowInv'
    BY <1>0, <1>1, <1>4, <2>1, Zenon
       DEF FlowInv, SameWork, Before, Admissions, Busy, Durable, Idle, Pcs, Resting
  <2>5. InStep' BY <1>1, <1>3, <1>6, Zenon DEF InStep, Upto
  <2>6. StepInv' BY <2>1, <2>5, Zenon DEF StepInv, Busy, Resting
  <2> QED BY <2>1, <2>2, <2>3, <2>4, <2>6, QuietKeeps, Zenon DEF WorkInv
<1> QED BY <1>2, <1>5, <1>6, Zenon

\* A sequence of one.
LEMMA Single ==
    ASSUME NEW S, NEW q \in Seq(S), Len(q) = 1
    PROVE  1 \in 1 .. Len(q) /\ q[1] \in S /\ DOMAIN q = {1}
OBVIOUS

\* Closed answers success only for a node that is committed and published.
LEMMA ClosedInv == ASSUME SlotInv, WorkInv, Closed PROVE WorkInv' /\ ex'.pc # "idle"
<1>0. /\ ExOK(ex) /\ Historic(pool, log) /\ Upto(pool) \in 0 .. Len(log) /\ QueueInv
      /\ env \in Environments
      /\ req \in Seq(Nodes) /\ ex.chunk \in Seq(Pos)
  BY PoolHistoric, Zenon DEF SlotInv, WorkInv, FlowInv, QueueInv
<1>1. ex' = [ex EXCEPT !.pc = IF ex.final THEN "reply" ELSE "check"] BY Zenon DEF Closed
<1>2. /\ ex'.pc \in {"reply", "check"} /\ ex'.rest = ex.rest /\ ex'.chunk = ex.chunk
      /\ ex'.committed = ex.committed
      /\ ex'.published = ex.published
  BY <1>0, <1>1, Zenon DEF ExOK, ExFields
<1>3. /\ ex.pc = "closed" /\ log' = log /\ lane' = lane /\ env' = env /\ pool' = pool
      /\ healthy' = FALSE
      /\ Decide(ex.chunk, Resolve(Node))
  BY Zenon DEF Closed, FailClosed, Elsewhere
<1>4. env.durable /\ Len(ex.chunk) = 1 /\ Len(ex.chunk) >= 1 /\ (ex.published => InStep)
  BY <1>3, Zenon DEF WorkInv, FlowInv, StepInv, Durable, Idle
<1>5. Range(ex.chunk) = {Node} /\ Node \in 1 .. Len(req) /\ req[Node] \in Nodes
  <2>2. /\ 1 \in 1 .. Len(ex.chunk) /\ ex.chunk[1] \in Pos /\ DOMAIN ex.chunk = {1}
    BY <1>0, <1>4, Single, Zenon
  <2>1. ex.chunk[1] \in Pos /\ ex.chunk[1] <= Len(req) BY <1>0, <2>2, Zenon DEF QueueInv
  <2> QED BY <1>0, <2>1, <2>2 DEF Node, Range, Pos
<1>6. PICK st : st = Resolve(Node) BY Zenon
<1>7. \/ st = req[Node].status
      \/ st = "success" /\ ex.published /\ ex.committed
      \/ st = "unavailable"
  BY <1>6, Zenon DEF Resolve
<1>8. st \in Statuses BY <1>5, <1>7, Zenon DEF Nodes, Statuses
<1>9. st \in {"rejected", "absent"} => \A at \in 1 .. Len(log) : log[at].id # Node
  BY <1>0, <1>5, <1>7, Zenon DEF QueueInv
<1>10. st = "success" => \E at \in 1 .. Upto(pool) : log[at].id = Node
  <2>1. CASE req[Node].status = "success" BY <1>5, <2>1, Zenon DEF WorkInv, SuccessInv, Upto
  <2>2. CASE ex.published /\ ex.committed
    BY <1>4, <2>2, Zenon DEF WorkInv, CommitInv, InStep, Upto, Node
  <2> QED BY <1>7, <2>1, <2>2, Zenon
<1>11. AnswerStep(Range(ex.chunk), st)
  <2>1. Restated(Range(ex.chunk), st) BY <1>0, <1>3, <1>6, <1>8, DecideOK, Zenon
  <2>2. /\ \A i \in 1 .. Len(lane) : lane[i] \notin Range(ex.chunk)
        /\ \A i \in 1 .. Len(ex.rest) : ex.rest[i] \notin Range(ex.chunk)
    BY <1>0, InChunk, Zenon
  <2> QED BY <1>0, <1>2, <1>3, <1>5, <1>9, <1>10, <2>1, <2>2 DEF AnswerStep
<1>12. FreshInv' BY <1>2, Zenon DEF FreshInv, Before, Busy
<1>13. FlowInv'
  BY <1>0, <1>2, <1>3, <1>4, Zenon
     DEF FlowInv, Before, Admissions, Busy, Durable, Idle, Pcs, Resting
<1>14. StepInv' BY <1>2, <1>3, Zenon DEF StepInv, InStep, Busy, Resting
<1> QED BY <1>2, <1>11, <1>12, <1>13, <1>14, AnswerKeeps, Zenon DEF WorkInv
=============================================================================

--------------------------- MODULE PairLaneProofs ---------------------------
(***************************************************************************)
(* The theorems about the log, the generations and the answers of PairLane, *)
(* for every number of callers, Readers, keys and slots:                   *)
(*   ReadersSeeHistory       every generation is a state of the shard      *)
(*   CallersAreToldTheTruth  answers are true, mutations apply in order    *)
(* Both suppose that the calls of a volatile Store do not throw: the handler *)
(* of an exception refuses nodes that the Store has applied.               *)
(***************************************************************************)
EXTENDS PairLaneWork

(***************************************************************************)
(* A volatile chunk.                                                       *)
(***************************************************************************)
\* What AfterNode leaves.
NodeDone ==
    /\ ex'.applied = ex.applied + 1 /\ ex'.chunk = ex.chunk /\ ex'.rest = ex.rest
    /\ ex'.committed = ex.committed /\ ex'.published = ex.published
    /\ ex'.pc = IF ex.applied + 1 < Len(ex.chunk) THEN "apply"
                ELSE IF ex'.staged = <<>> THEN "reply" ELSE "publish"

\* AfterNode, without ...
LEMMA AfterNodeDone ==
    ASSUME ExOK(ex), ex' = AfterNode(ex) PROVE NodeDone /\ ex'.staged = ex.staged
<1>1. DOMAIN ex = ExFields BY Zenon DEF ExOK
<1>2. /\ ex'.applied = ex.applied + 1 /\ ex'.chunk = ex.chunk /\ ex'.rest = ex.rest
      /\ ex'.committed = ex.committed /\ ex'.published = ex.published /\ ex'.staged = ex.staged
      /\ ex'.pc = IF ex.applied + 1 < Len(ex.chunk) THEN "apply"
                  ELSE IF ex.staged = <<>> THEN "reply" ELSE "publish"
  BY <1>1, Zenon DEF AfterNode, ExFields
<1> QED BY <1>2, Zenon DEF NodeDone

\* ... and with a mutation staged.
LEMMA AfterStagedDone ==
    ASSUME ExOK(ex), NEW s, NEW e, e = [ex EXCEPT !.staged = s], ex' = AfterNode(e) PROVE NodeDone /\ ex'.staged = s
<1>1. DOMAIN ex = ExFields BY Zenon DEF ExOK
<1>2. /\ DOMAIN e = ExFields /\ e.staged = s /\ e.applied = ex.applied /\ e.chunk = ex.chunk
      /\ e.rest = ex.rest
      /\ e.committed = ex.committed /\ e.published = ex.published
  BY <1>1, Zenon DEF ExFields
<1>3. /\ ex'.applied = e.applied + 1 /\ ex'.chunk = e.chunk /\ ex'.rest = e.rest
      /\ ex'.committed = e.committed /\ ex'.published = e.published /\ ex'.staged = e.staged
      /\ ex'.pc = IF e.applied + 1 < Len(e.chunk) THEN "apply"
                  ELSE IF e.staged = <<>> THEN "reply" ELSE "publish"
  <2>1. DOMAIN e = ExFields BY <1>2, Zenon
  <2> QED BY <2>1, Zenon DEF AfterNode, ExFields
<1> QED BY <1>2, <1>3, Zenon DEF NodeDone

\* The node that is applied next.
LEMMA NextNode ==
    ASSUME WorkInv, ex.pc = "apply", NEW id, id = ex.chunk[ex.applied + 1]
    PROVE  /\ id \in Pos /\ Fresh(id) /\ id \in Range(ex.chunk) /\ id \in 1 .. Len(req)
           /\ req[id] \in Nodes
           /\ ex.applied \in Nat /\ ex.applied + 1 \in 1 .. Len(ex.chunk) /\ ex.chunk \in Seq(Pos)
           /\ \A i \in ex.applied + 2 .. Len(ex.chunk) : Fresh(ex.chunk[i]) /\ id < ex.chunk[i]
           /\ \A i \in 1 .. Len(lane) : id < lane[i]
           /\ \A i \in 1 .. Len(ex.rest) : id < ex.rest[i]
           /\ StagedTail(ex.staged, log, Upto(pool)) /\ ~env.durable /\ ~ex.published
<1>1. /\ ex.chunk \in Seq(Pos) /\ ex.applied \in Nat /\ ex.applied < Len(ex.chunk)
      /\ req \in Seq(Nodes)
      /\ \A i \in ex.applied + 1 .. Len(ex.chunk) : Fresh(ex.chunk[i])
  BY Zenon DEF WorkInv, QueueInv, FreshInv
<1>2. ex.applied + 1 \in 1 .. Len(ex.chunk) /\ ex.applied + 1 \in ex.applied + 1 .. Len(ex.chunk)
  BY <1>1
<1>3. id \in Pos /\ Fresh(id) /\ id \in Range(ex.chunk) BY <1>1, <1>2 DEF Range
<1>4. id \in 1 .. Len(req) /\ req[id] \in Nodes BY <1>1, <1>3 DEF Fresh, Pos
<1>5. ASSUME NEW i \in ex.applied + 2 .. Len(ex.chunk) PROVE Fresh(ex.chunk[i]) /\ id < ex.chunk[i]
  <2>1. i \in ex.applied + 1 .. Len(ex.chunk) /\ i \in 1 .. Len(ex.chunk) /\ ex.applied + 1 < i
    BY <1>1
  <2>2. Sorted(ex.chunk) BY Zenon DEF WorkInv, QueueInv
  <2> QED BY <1>1, <1>2, <2>1, <2>2, Zenon DEF Sorted
<1>6. /\ \A i \in 1 .. Len(lane) : id < lane[i]
      /\ \A i \in 1 .. Len(ex.rest) : id < ex.rest[i]
  <2>1. Below(ex.chunk, lane) /\ Below(ex.chunk, ex.rest) BY Zenon DEF WorkInv, QueueInv
  <2> QED BY <1>2, <2>1, Zenon DEF Below
<1>7. StagedTail(ex.staged, log, Upto(pool)) /\ ~env.durable /\ ~ex.published
  BY Zenon DEF WorkInv, StepInv, FlowInv, Admissions, Upto
<1> QED BY <1>1, <1>2, <1>3, <1>4, <1>5, <1>6, <1>7, Zenon

\* What holds after a node, whatever its outcome.
LEMMA NodeKeeps ==
    ASSUME SlotInv, WorkInv, ex.pc = "apply", NodeDone, env' = env, pool' = pool, healthy' => healthy,
           StagedTail(ex'.staged, log', Upto(pool)),
           \A i \in ex.applied + 2 .. Len(ex.chunk) : Fresh(ex.chunk[i])'
    PROVE  FreshInv' /\ FlowInv' /\ StepInv' /\ ex'.pc # "idle"
<1>0. /\ ex.applied \in Nat /\ ex.applied < Len(ex.chunk) /\ ex.chunk \in Seq(Pos)
      /\ env \in Environments /\ ~env.durable /\ ~ex.published
  BY Zenon DEF WorkInv, QueueInv, FlowInv, FreshInv, Admissions
<1>1. /\ ex'.pc \in {"apply", "reply", "publish"} /\ ex'.published = ex.published
      /\ ex'.applied = ex.applied + 1 /\ ex'.chunk = ex.chunk
      /\ (ex'.pc = "reply" => ex'.staged = <<>>) /\ (ex'.pc = "publish" => ex'.staged # <<>>)
      /\ (ex'.pc = "apply" => ex.applied + 1 < Len(ex.chunk))
  BY Zenon DEF NodeDone
<1>2. ASSUME ex'.pc = "apply"
      PROVE  (/\ ex.applied \in Nat /\ ex.applied < Len(ex.chunk)
              /\ \A i \in ex.applied + 1 .. Len(ex.chunk) : Fresh(ex.chunk[i]))'
  <2>1. ex.applied + 1 \in Nat /\ ex.applied + 1 < Len(ex.chunk) BY <1>0, <1>1, <1>2
  <2>2. ex.applied + 2 = (ex.applied + 1) + 1 BY <1>0
  <2> QED BY <1>1, <2>1, <2>2, Zenon DEF Fresh
<1>3. FreshInv' BY <1>1, <1>2, Zenon DEF FreshInv, Before, Busy
<1>4. FlowInv'
  <2>1. Len(ex.chunk) >= 1 BY <1>0
  <2> QED
    BY <1>0, <1>1, <2>1, Zenon DEF FlowInv, Before, Admissions, Busy, Durable, Idle, Pcs, Resting
<1>5. ex'.pc = "reply" => Upto(pool) = Len(log') BY <1>1 DEF StagedTail
<1>6. StepInv' BY <1>1, <1>5, Zenon DEF StepInv, InStep, Upto, Busy, Resting
<1> QED BY <1>1, <1>3, <1>4, <1>6, Zenon

\* Apply keeps the work in order: what it stages is the tail of the log.
LEMMA ApplyInv == ASSUME NoVolatileThrow, SlotInv, WorkInv, Apply PROVE WorkInv' /\ ex'.pc # "idle"
<1>0. /\ ExOK(ex) /\ Historic(pool, log) /\ Upto(pool) \in 0 .. Len(log) /\ QueueInv
      /\ env \in Environments
      /\ req \in Seq(Nodes) /\ log \in Seq(Entries)
  BY PoolHistoric, Zenon DEF SlotInv, WorkInv, FlowInv, QueueInv
<1>1. PICK id : id = ex.chunk[ex.applied + 1] BY Zenon
<1>2. ex.pc = "apply" /\ lane' = lane /\ env' = env /\ pool' = pool
  BY Zenon DEF Apply, Elsewhere
<1>3. /\ id \in Pos /\ Fresh(id) /\ id \in Range(ex.chunk) /\ id \in 1 .. Len(req)
      /\ req[id] \in Nodes
      /\ ex.applied \in Nat /\ ex.applied + 1 \in 1 .. Len(ex.chunk) /\ ex.chunk \in Seq(Pos)
      /\ \A i \in ex.applied + 2 .. Len(ex.chunk) : Fresh(ex.chunk[i]) /\ id < ex.chunk[i]
      /\ \A i \in 1 .. Len(lane) : id < lane[i]
      /\ \A i \in 1 .. Len(ex.rest) : id < ex.rest[i]
      /\ StagedTail(ex.staged, log, Upto(pool)) /\ ~env.durable /\ ~ex.published
  BY <1>1, <1>2, NextNode, Zenon
<1>4. ASSUME NEW st \in {"absent", "rejected", "unavailable"}, Decide(<<id>>, st), ex' = AfterNode(ex), log' = log, healthy' => healthy
      PROVE  WorkInv' /\ ex'.pc # "idle"
  <2>1. NodeDone /\ ex'.staged = ex.staged BY <1>0, <1>4, AfterNodeDone, Zenon
  <2>2. Range(<<id>>) = {id} BY DEF Range
  <2>3. Restated({id}, st) BY <1>0, <1>4, <2>2, DecideOK, Zenon DEF Statuses
  <2>4. AnswerStep({id}, st)
    <3>1. \A at \in 1 .. Len(log) : log[at].id # id
      <4>1. id \in Nat /\ \A at \in 1 .. Len(log) : log[at].id < id BY <1>3, Zenon DEF Fresh, Pos
      <4> QED BY <4>1
    <3>2. /\ \A i \in 1 .. Len(lane) : lane[i] \notin {id}
          /\ \A i \in 1 .. Len(ex.rest) : ex.rest[i] \notin {id}
      BY <1>3 DEF Pos
    <3>3. ex'.chunk = ex.chunk /\ ex'.rest = ex.rest /\ ex'.committed = ex.committed
      BY <2>1, Zenon DEF NodeDone
    <3>4. st # "success" /\ Upto(pool) <= Upto(pool') BY <1>0, <1>2
    <3> QED BY <1>0, <1>2, <1>4, <2>3, <3>1, <3>2, <3>3, <3>4, Zenon DEF AnswerStep
  <2>5. ASSUME NEW i \in ex.applied + 2 .. Len(ex.chunk) PROVE Fresh(ex.chunk[i])'
    <3>1. ex.chunk[i] \in Pos /\ Fresh(ex.chunk[i]) /\ ex.chunk[i] \notin {id}
      <4>1. i \in 1 .. Len(ex.chunk) BY <1>3
      <4> QED BY <1>3, <4>1 DEF Pos
    <3>2. PICK x \in Pos : x = ex.chunk[i] BY <3>1, Zenon
    <3>3. Fresh(x)' BY <1>0, <1>4, <2>3, <3>1, <3>2, FreshKept, Zenon
    <3>4. ex'.chunk = ex.chunk BY <2>1, Zenon DEF NodeDone
    <3> QED BY <3>2, <3>3, <3>4, Zenon DEF Fresh
  <2>6. FreshInv' /\ FlowInv' /\ StepInv' /\ ex'.pc # "idle"
    BY <1>2, <1>3, <1>4, <2>1, <2>5, NodeKeeps, Zenon
  <2> QED BY <2>4, <2>6, AnswerKeeps, Zenon DEF WorkInv
<1>5. ASSUME log' = Append(log, [id |-> id, key |-> req[id].key, op |-> req[id].op]), req' = req, healthy' = healthy,
             ex' = AfterNode([ex EXCEPT !.staged = Append(ex.staged, Staged(id, log))])
      PROVE  WorkInv' /\ ex'.pc # "idle"
  <2>1. PICK x : x = [id |-> id, key |-> req[id].key, op |-> req[id].op] BY Zenon
  <2>2. PICK m : m = Staged(id, log) BY Zenon
  <2>3. x \in Entries /\ x.id = id /\ log' = Append(log, x)
    BY <1>3, <1>5, <2>1, Zenon DEF Entries, Nodes
  <2>4. m \in Marks /\ m.id = id /\ m.key = x.key /\ m.op = x.op /\ m.pos = Len(log) + 1
    BY <1>0, <1>3, <2>1, <2>2 DEF Marks, Staged, Nodes, Pos
  <2>5. NodeDone /\ ex'.staged = Append(ex.staged, m)
    <3>1. PICK e : e = [ex EXCEPT !.staged = Append(ex.staged, m)] BY Zenon
    <3>2. ex' = AfterNode(e) BY <1>5, <2>2, <3>1, Zenon
    <3> QED BY <1>0, <3>1, <3>2, AfterStagedDone, Zenon
  <2>6. ex'.chunk = ex.chunk /\ ex'.rest = ex.rest /\ ex'.committed = ex.committed
    BY <2>5, Zenon DEF NodeDone
  <2>7. /\ QueueInv' /\ \A i \in Pos : Fresh(i) /\ id < i => Fresh(i)'
        /\ Len(log') = Len(log) + 1 /\ log'[Len(log) + 1] = x
        /\ \A i \in 1 .. Len(log) : log'[i] = log[i]
    <3> HIDE <1>5
    <3>1. req' = req /\ id \in Pos /\ Fresh(id) BY <1>3, <1>5, Zenon
    <3> QED BY <1>0, <1>2, <1>3, <2>3, <2>6, <3>1, QueueApplies, Zenon
  <2>8. StagedTail(ex'.staged, log', Upto(pool))
    <3>1. /\ ex.staged \in Seq(Marks) /\ Upto(pool) \in Nat
          /\ Len(log) = Upto(pool) + Len(ex.staged)
          /\ \A i \in 1 .. Len(ex.staged) :
              /\ ex.staged[i].pos = Upto(pool) + i /\ ex.staged[i].id = log[Upto(pool) + i].id
              /\ ex.staged[i].key = log[Upto(pool) + i].key
              /\ ex.staged[i].op = log[Upto(pool) + i].op
      BY <1>3, Zenon DEF StagedTail
    <3>2. PICK s : s = Append(ex.staged, m) BY Zenon
    <3>3. /\ s \in Seq(Marks) /\ Len(s) = Len(ex.staged) + 1 /\ s[Len(ex.staged) + 1] = m
          /\ \A i \in 1 .. Len(ex.staged) : s[i] = ex.staged[i]
      BY <2>4, <3>1, <3>2
    <3>4. Len(ex.staged) \in Nat BY <3>1
    <3>5. ASSUME NEW i \in 1 .. Len(s)
          PROVE  /\ s[i].pos = Upto(pool) + i /\ s[i].id = log'[Upto(pool) + i].id
                 /\ s[i].key = log'[Upto(pool) + i].key /\ s[i].op = log'[Upto(pool) + i].op
      <4>1. CASE i \in 1 .. Len(ex.staged)
        <5>1. Upto(pool) + i \in 1 .. Len(log) BY <3>1, <3>4, <4>1
        <5> QED BY <2>7, <3>1, <3>3, <4>1, <5>1, Zenon
      <4>2. CASE i = Len(ex.staged) + 1
        <5>1. Upto(pool) + i = Len(log) + 1 BY <3>1, <3>4, <4>2
        <5> QED BY <2>3, <2>4, <2>7, <3>3, <4>2, <5>1, Zenon
      <4> QED BY <3>3, <3>4, <4>1, <4>2
    <3>6. Len(log') = Upto(pool) + Len(s) BY <2>7, <3>1, <3>3, <3>4
    <3> QED BY <2>5, <3>1, <3>2, <3>3, <3>5, <3>6, Zenon DEF StagedTail
  <2>9. ASSUME NEW i \in ex.applied + 2 .. Len(ex.chunk) PROVE Fresh(ex.chunk[i])'
    <3>1. i \in 1 .. Len(ex.chunk) BY <1>3
    <3>2. PICK y \in Pos : y = ex.chunk[i]
      <4>1. ex.chunk \in Seq(Pos) BY <1>3, Zenon
      <4> QED BY <3>1, <4>1
    <3>3. Fresh(y)' BY <1>3, <2>7, <3>2, Zenon
    <3> QED BY <2>6, <3>2, <3>3, Zenon DEF Fresh
  <2>10. FreshInv' /\ FlowInv' /\ StepInv' /\ ex'.pc # "idle"
    <3>1. healthy' => healthy BY <1>5, Zenon
    <3> HIDE <1>5
    <3> QED BY <1>2, <2>5, <2>8, <2>9, <3>1, NodeKeeps, Zenon
  <2>11. CommitInv'
    <3>1. ASSUME NEW at \in 1 .. Len(log) PROVE at \in 1 .. Len(log') /\ log'[at] = log[at]
      BY <1>0, <2>7
    <3> QED BY <2>6, <3>1, Zenon DEF WorkInv, CommitInv
  <2>12. SuccessInv'
    <3>1. ASSUME NEW at \in 1 .. Upto(pool) PROVE log'[at] = log[at] BY <1>0, <2>7
    <3> QED BY <1>2, <1>5, <3>1, Zenon DEF WorkInv, SuccessInv, Upto
  <2>13. Views(pool', log') /\ MergedOK(pool') BY <1>0, <1>2, <2>3, ViewsGrow, Zenon DEF Historic
  <2> QED BY <2>7, <2>10, <2>11, <2>12, <2>13, Zenon DEF WorkInv
<1>6. ex.applied > 0 \/ FreeSlots(pool) # {} BY <1>2, Zenon DEF SlotInv, AdmittedFindsSlot
<1>7. ~Fault("thrown") BY <1>0, <1>3, Zenon DEF Fault, NoVolatileThrow
<1>8. \/ Decide(<<id>>, "absent") /\ ex' = AfterNode(ex) /\ log' = log /\ healthy' = healthy
      \/ /\ log' = Append(log, [id |-> id, key |-> req[id].key, op |-> req[id].op]) /\ req' = req /\ healthy' = healthy
         /\ ex' = AfterNode([ex EXCEPT !.staged = Append(ex.staged, Staged(id, log))])
      \/ Decide(<<id>>, "rejected") /\ ex' = AfterNode(ex) /\ log' = log /\ healthy' = healthy
      \/ Decide(<<id>>, "unavailable") /\ ex' = AfterNode(ex) /\ log' = log /\ healthy' = FALSE
  BY <1>1, <1>6, <1>7, Zenon DEF Apply, FailClosed
<1> QED BY <1>4, <1>5, <1>8

(***************************************************************************)
(* A durable node, and publication.                                        *)
(***************************************************************************)
\* A durable node is about to be executed.
LEMMA DurableNode ==
    ASSUME WorkInv, ex.pc = "execute", NEW id, id = Node
    PROVE  /\ env.durable /\ Len(ex.chunk) = 1 /\ Len(ex.chunk) >= 1 /\ ex.chunk \in Seq(Pos)
           /\ ~ex.published /\ InStep /\ ex.staged = <<>>
           /\ id \in Pos /\ Fresh(id) /\ Range(ex.chunk) = {id} /\ id \in 1 .. Len(req)
           /\ req[id] \in Nodes
           /\ \A i \in 1 .. Len(lane) : id < lane[i]
           /\ \A i \in 1 .. Len(ex.rest) : id < ex.rest[i]
<1>1. /\ env.durable /\ Len(ex.chunk) = 1 /\ Len(ex.chunk) >= 1 /\ ~ex.published
  BY Zenon DEF WorkInv, FlowInv, Durable, Idle, Admissions
<1>2. InStep /\ ex.staged = <<>> /\ \A i \in 1 .. Len(ex.chunk) : Fresh(ex.chunk[i])
  BY Zenon DEF WorkInv, StepInv, FreshInv, Before
<1>3. /\ ex.chunk \in Seq(Pos) /\ req \in Seq(Nodes) /\ Below(ex.chunk, lane)
      /\ Below(ex.chunk, ex.rest)
  BY Zenon DEF WorkInv, QueueInv
<1>4. id \in Pos /\ Fresh(id) /\ id = ex.chunk[1] BY <1>1, <1>2, <1>3 DEF Node
<1>5. Range(ex.chunk) = {id}
  <2>1. DOMAIN ex.chunk = {1} BY <1>1, <1>3
  <2> QED BY <1>4, <2>1, Zenon DEF Range
<1>6. id \in 1 .. Len(req) /\ req[id] \in Nodes BY <1>3, <1>4 DEF Fresh, Pos
<1>7. /\ \A i \in 1 .. Len(lane) : id < lane[i]
      /\ \A i \in 1 .. Len(ex.rest) : id < ex.rest[i]
  BY <1>1, <1>3, <1>4 DEF Below
<1> QED BY <1>1, <1>2, <1>3, <1>4, <1>5, <1>6, <1>7, Zenon

\* The Store commits the node: the executor records that, or does not know.
LEMMA CommittedInv ==
    ASSUME SlotInv, WorkInv, ex.pc = "execute", req' = req, lane' = lane, env' = env, pool' = pool, healthy' = healthy,
           log' = Append(log, [id |-> Node, key |-> req[Node].key, op |-> req[Node].op]),
           ex'.pc \in {"capture", "publish", "drain"}, ex'.chunk = ex.chunk, ex'.rest = ex.rest,
           ex'.published = ex.published, ex'.committed \in {TRUE, ex.committed},
           ex'.pc = "drain" \/ ex'.staged = <<Staged(Node, log)>>
    PROVE  WorkInv'
<1>0. /\ ExOK(ex) /\ Historic(pool, log) /\ Upto(pool) \in 0 .. Len(log) /\ QueueInv
      /\ env \in Environments
      /\ req \in Seq(Nodes) /\ log \in Seq(Entries)
  BY PoolHistoric, Zenon DEF SlotInv, WorkInv, FlowInv, QueueInv
<1>1. PICK id : id = Node BY Zenon
<1>2. /\ env.durable /\ Len(ex.chunk) = 1 /\ Len(ex.chunk) >= 1 /\ ex.chunk \in Seq(Pos)
      /\ ~ex.published /\ InStep /\ ex.staged = <<>>
      /\ id \in Pos /\ Fresh(id) /\ Range(ex.chunk) = {id} /\ id \in 1 .. Len(req)
      /\ req[id] \in Nodes
      /\ \A i \in 1 .. Len(lane) : id < lane[i]
      /\ \A i \in 1 .. Len(ex.rest) : id < ex.rest[i]
  BY <1>1, DurableNode, Zenon
<1>3. PICK x : x = [id |-> id, key |-> req[id].key, op |-> req[id].op] BY Zenon
<1>4. PICK m : m = Staged(id, log) BY Zenon
<1>5. x \in Entries /\ x.id = id /\ log' = Append(log, x)
  BY <1>1, <1>2, <1>3, Zenon DEF Entries, Nodes
<1>6. m \in Marks /\ m.id = id /\ m.key = x.key /\ m.op = x.op /\ m.pos = Len(log) + 1
  BY <1>0, <1>2, <1>3, <1>4 DEF Marks, Staged, Nodes, Pos
<1>7. /\ QueueInv' /\ Len(log') = Len(log) + 1 /\ log'[Len(log) + 1] = x
      /\ \A i \in 1 .. Len(log) : log'[i] = log[i]
  BY <1>0, <1>2, <1>5, QueueApplies, Zenon
<1>8. Len(log) \in Nat /\ Upto(pool) = Len(log) BY <1>0, <1>2 DEF InStep, Upto
<1>9. CommitInv'
  <2>1. Len(log) + 1 \in 1 .. Len(log') /\ log'[Len(log) + 1].id = ex.chunk[1]
    BY <1>1, <1>5, <1>7, <1>8 DEF Node
  <2> QED BY <1>2, <2>1, Zenon DEF CommitInv
<1>10. SuccessInv'
  <2>1. \A at \in 1 .. Upto(pool) : log'[at] = log[at] BY <1>7, <1>8, Zenon
  <2> QED BY <2>1, Zenon DEF WorkInv, SuccessInv, Upto
<1>11. Views(pool', log') /\ MergedOK(pool') BY <1>0, <1>5, ViewsGrow, Zenon DEF Historic
<1>12. FreshInv' BY Zenon DEF FreshInv, Before, Busy
<1>13. FlowInv'
  <2>1. <<m>> # <<>> BY Zenon
  <2>3. ex'.pc # "drain" => ex'.staged # <<>> BY <1>1, <1>4, <2>1, Zenon
  <2> QED
    BY <1>0, <1>2, <2>3, Zenon DEF FlowInv, Before, Admissions, Busy, Durable, Idle, Pcs, Resting
<1>14. ex'.pc # "drain" => StagedTail(ex'.staged, log', Upto(pool))
  <2>1. PICK s : s = <<m>> BY Zenon
  <2>2. s \in Seq(Marks) /\ Len(s) = 1 /\ s[1] = m BY <1>6, <2>1
  <2>3. StagedTail(s, log', Upto(pool)) BY <1>5, <1>6, <1>7, <1>8, <2>2 DEF StagedTail
  <2> QED BY <1>1, <1>4, <2>1, <2>3, Zenon
<1>15. StepInv' BY <1>14, Zenon DEF StepInv, Upto, Busy, Resting
<1> QED BY <1>7, <1>9, <1>10, <1>11, <1>12, <1>13, <1>15, Zenon DEF WorkInv

\* Execute keeps the work in order, whatever the Store reports.
LEMMA ExecuteInv == ASSUME SlotInv, WorkInv, Execute PROVE WorkInv' /\ ex'.pc # "idle"
<1> DEFINE r == req[Node]
           committed == Append(log, [id |-> Node, key |-> req[Node].key, op |-> req[Node].op])
<1>0. /\ ExOK(ex) /\ Historic(pool, log) /\ Upto(pool) \in 0 .. Len(log) /\ QueueInv
      /\ env \in Environments
      /\ req \in Seq(Nodes) /\ log \in Seq(Entries)
  BY PoolHistoric, Zenon DEF SlotInv, WorkInv, FlowInv, QueueInv
<1>1. ex.pc = "execute" /\ lane' = lane /\ env' = env /\ pool' = pool /\ healthy' = healthy
  BY Zenon DEF Execute, Elsewhere
<1>2. \/ /\ \E st \in {"absent", "rejected"} : Decide(ex.chunk, st)
         /\ ex' = [ex EXCEPT !.pc = "check"] /\ log' = log
      \/ /\ log' = committed /\ req' = req
         /\ ex' = [ex EXCEPT !.pc = IF r.op = "put" THEN "capture" ELSE "publish",
                             !.staged = <<Staged(Node, log)>>, !.committed = TRUE]
      \/ log' = committed /\ req' = req /\ ex' = [ex EXCEPT !.pc = "drain", !.committed = TRUE]
      \/ log' = log /\ req' = req /\ ex' = [ex EXCEPT !.pc = "drain"]
      \/ log' = committed /\ req' = req /\ ex' = [ex EXCEPT !.pc = "drain"]
  BY Zenon DEF Execute
<1>3. PICK id : id = Node BY Zenon
<1>4. /\ env.durable /\ Len(ex.chunk) = 1 /\ Len(ex.chunk) >= 1 /\ ex.chunk \in Seq(Pos)
      /\ ~ex.published /\ InStep /\ ex.staged = <<>>
      /\ id \in Pos /\ Fresh(id) /\ Range(ex.chunk) = {id} /\ id \in 1 .. Len(req)
      /\ req[id] \in Nodes
      /\ \A i \in 1 .. Len(lane) : id < lane[i]
      /\ \A i \in 1 .. Len(ex.rest) : id < ex.rest[i]
  BY <1>1, <1>3, DurableNode, Zenon
<1>5. ASSUME NEW st \in {"absent", "rejected"}, Decide(ex.chunk, st), ex' = [ex EXCEPT !.pc = "check"], log' = log
      PROVE  WorkInv' /\ ex'.pc # "idle"
  <2>1. /\ ex'.pc = "check" /\ ex'.rest = ex.rest /\ ex'.chunk = ex.chunk
        /\ ex'.committed = ex.committed
        /\ ex'.published = ex.published
    BY <1>0, <1>5, Zenon DEF ExOK, ExFields
  <2>2. AnswerStep(Range(ex.chunk), st)
    <3>1. Restated(Range(ex.chunk), st) BY <1>0, <1>5, DecideOK, Zenon DEF Statuses
    <3>2. /\ \A i \in 1 .. Len(lane) : lane[i] \notin Range(ex.chunk)
          /\ \A i \in 1 .. Len(ex.rest) : ex.rest[i] \notin Range(ex.chunk)
      BY <1>0, InChunk, Zenon
    <3>3. \A i \in Range(ex.chunk), at \in 1 .. Len(log) : log[at].id # i
      <4>1. \A i \in 1 .. Len(ex.chunk) : Fresh(ex.chunk[i])
        BY <1>1, Zenon DEF WorkInv, FreshInv, Before
      <4> QED BY <1>0, <1>4, <4>1, FreshUnlogged, Zenon
    <3>4. st # "success" /\ Upto(pool) <= Upto(pool') BY <1>0, <1>1
    <3> QED BY <1>0, <1>1, <1>5, <2>1, <3>1, <3>2, <3>3, <3>4, Zenon DEF AnswerStep
  <2>3. FreshInv' BY <2>1, Zenon DEF FreshInv, Before, Busy
  <2>4. FlowInv'
    BY <1>0, <1>1, <1>4, <2>1, Zenon
       DEF FlowInv, Before, Admissions, Busy, Durable, Idle, Pcs, Resting
  <2>5. StepInv' BY <1>1, <1>4, <1>5, <2>1, Zenon DEF StepInv, InStep, Busy, Resting
  <2> QED BY <2>1, <2>2, <2>3, <2>4, <2>5, AnswerKeeps, Zenon DEF WorkInv
<1>6. ASSUME log' = log, req' = req, ex' = [ex EXCEPT !.pc = "drain"]
      PROVE  WorkInv' /\ ex'.pc # "idle"
  <2>1. ex'.pc = "drain" /\ SameWork /\ ex'.published = ex.published
    BY <1>0, <1>6, Zenon DEF ExOK, ExFields, SameWork
  <2>2. QuietStep
    <3>1. Restated({}, "pending") BY <1>0, <1>6, SameReq, Zenon
    <3> QED BY <1>0, <1>1, <1>6, <2>1, <3>1 DEF QuietStep
  <2>3. ~Before' BY <2>1, Zenon DEF Before, Busy
  <2>4. FlowInv'
    BY <1>0, <1>1, <1>4, <2>1, Zenon
       DEF FlowInv, SameWork, Before, Admissions, Busy, Durable, Idle, Pcs, Resting
  <2>5. StepInv' BY <2>1, Zenon DEF StepInv, InStep, Busy, Resting
  <2> QED BY <2>1, <2>2, <2>3, <2>4, <2>5, QuietKeeps, Zenon DEF WorkInv
<1>7. ASSUME log' = committed, req' = req,
             \/ ex' = [ex EXCEPT !.pc = IF r.op = "put" THEN "capture" ELSE "publish",
                                 !.staged = <<Staged(Node, log)>>, !.committed = TRUE]
             \/ ex' = [ex EXCEPT !.pc = "drain", !.committed = TRUE]
             \/ ex' = [ex EXCEPT !.pc = "drain"]
      PROVE  WorkInv' /\ ex'.pc # "idle"
  <2>1. /\ ex'.pc \in {"capture", "publish", "drain"} /\ ex'.chunk = ex.chunk /\ ex'.rest = ex.rest
        /\ ex'.published = ex.published /\ ex'.committed \in {TRUE, ex.committed}
        /\ (ex'.pc = "drain" \/ ex'.staged = <<Staged(Node, log)>>)
    BY <1>0, <1>7, Zenon DEF ExOK, ExFields
  <2>2. log' = Append(log, [id |-> Node, key |-> req[Node].key, op |-> req[Node].op]) BY <1>7, Zenon
  <2>3. req' = req BY <1>7, Zenon
  <2> HIDE <1>7
  <2> QED BY <1>1, <2>1, <2>2, <2>3, CommittedInv, Zenon
<1> HIDE DEF r, committed
<1> QED BY <1>2, <1>5, <1>6, <1>7, Zenon

\* The nodes that are staged are in the log.
LEMMA StagedFacts ==
    ASSUME QueueInv, NEW u, StagedTail(ex.staged, log, u), NEW ids, ids = Range(StagedIds)
    PROVE  /\ \A i \in ids : \E at \in 1 .. Len(log) : log[at].id = i
           /\ \A i \in 1 .. Len(lane) : lane[i] \notin ids
           /\ \A i \in 1 .. Len(ex.rest) : ex.rest[i] \notin ids
<1>0. /\ lane \in Seq(Pos) /\ ex.rest \in Seq(Pos)
      /\ \A i \in 1 .. Len(lane) : Fresh(lane[i])
      /\ \A i \in 1 .. Len(ex.rest) : Fresh(ex.rest[i])
  BY Zenon DEF QueueInv
<1>1. ex.staged \in Seq(Marks) /\ u \in Nat /\ Len(log) = u + Len(ex.staged) BY Zenon DEF StagedTail
<1>2. DOMAIN StagedIds = 1 .. Len(ex.staged) /\ \A i \in 1 .. Len(ex.staged) : StagedIds[i] = ex.staged[i].id
  BY <1>1 DEF StagedIds
<1>3. \A x \in ids : \E i \in 1 .. Len(ex.staged) : x = ex.staged[i].id BY <1>2, Zenon DEF Range
<1>4. ASSUME NEW x \in ids PROVE \E at \in 1 .. Len(log) : log[at].id = x
  <2>1. PICK i \in 1 .. Len(ex.staged) : x = ex.staged[i].id BY <1>3, Zenon
  <2>2. Len(ex.staged) \in Nat BY <1>1
  <2>3. u + i \in 1 .. Len(log) BY <1>1, <2>2
  <2>4. ex.staged[i].id = log[u + i].id BY Zenon DEF StagedTail
  <2> QED BY <2>1, <2>3, <2>4, Zenon
<1>5. ASSUME NEW y \in Pos, Fresh(y) PROVE y \notin ids
  <2>1. \A at \in 1 .. Len(log) : log[at].id < y BY <1>5, Zenon DEF Fresh
  <2>2. y \in Nat BY Zenon DEF Pos
  <2> QED BY <1>4, <2>1, <2>2
<1>6. \A i \in 1 .. Len(lane) : lane[i] \in Pos BY <1>0
<1>7. \A i \in 1 .. Len(ex.rest) : ex.rest[i] \in Pos BY <1>0
<1> QED BY <1>0, <1>4, <1>5, <1>6, <1>7, Zenon

\* Publish answers success once the generation has the mutations.
LEMMA PublishInv == ASSUME SlotInv, WorkInv, Publish PROVE WorkInv' /\ ex'.pc # "idle"
<1> DEFINE next == IF env.durable THEN "check" ELSE "reply"
           q == PublishIncremental(pool, TryReserve(pool), ex.staged)
<1>0. /\ ExOK(ex) /\ PoolOK(pool) /\ Historic(pool, log) /\ Upto(pool) \in 0 .. Len(log) /\ QueueInv
      /\ env \in Environments
      /\ req \in Seq(Nodes) /\ log \in Seq(Entries)
  BY PoolHistoric, Zenon DEF SlotInv, WorkInv, FlowInv, QueueInv
<1>1. ex.pc = "publish" /\ log' = log /\ lane' = lane /\ env' = env /\ (healthy' => healthy)
  BY DEF Publish, FailClosed, Elsewhere
<1>2. FreeSlots(pool) # {} BY <1>1, Zenon DEF SlotInv, AdmittedFindsSlot
<1>3. /\ ex.staged # <<>> /\ ~ex.published /\ Len(ex.chunk) >= 1 /\ (env.durable => Len(ex.chunk) = 1)
      /\ StagedTail(ex.staged, log, Upto(pool))
  BY <1>1, Zenon DEF WorkInv, FlowInv, StepInv, Idle, Admissions, Upto
<1>4. \/ env.durable /\ ex' = [ex EXCEPT !.pc = "drain"] /\ req' = req /\ pool' = pool
      \/ ~env.durable /\ ex' = [ex EXCEPT !.pc = "reply"] /\ Decide(StagedIds, "unavailable") /\ pool' = pool /\ healthy' = FALSE
      \/ /\ pool' = q /\ Decide(StagedIds, "success")
         /\ \/ Proportional([ex EXCEPT !.published = TRUE], pool', next)
            \/ ex' = [ex EXCEPT !.pc = next, !.published = TRUE]
  BY <1>2, Zenon DEF Publish, FailClosed
<1>11. TryReserve(pool) \in Slots /\ pool.slot[TryReserve(pool)].state = "free"
  BY <1>0, <1>2, Reserved, Zenon DEF Historic
<1>5. Historic(q, log) /\ Upto(q) = Len(log) BY <1>0, <1>3, <1>11, PublishHistory
<1> HIDE DEF q
<1>6. PICK ids : ids = Range(StagedIds) BY Zenon
<1>7. /\ \A i \in ids : \E at \in 1 .. Len(log) : log[at].id = i
      /\ \A i \in 1 .. Len(lane) : lane[i] \notin ids
      /\ \A i \in 1 .. Len(ex.rest) : ex.rest[i] \notin ids
  BY <1>0, <1>3, <1>6, StagedFacts, Zenon
<1>8. CASE env.durable /\ ex' = [ex EXCEPT !.pc = "drain"] /\ req' = req /\ pool' = pool
  <2>1. ex'.pc = "drain" /\ SameWork /\ ex'.published = ex.published
    BY <1>0, <1>8, Zenon DEF ExOK, ExFields, SameWork
  <2>2. QuietStep
    <3>1. Restated({}, "pending") BY <1>0, <1>8, SameReq, Zenon
    <3> QED BY <1>0, <1>1, <1>8, <2>1, <3>1 DEF QuietStep
  <2>3. ~Before' BY <2>1, Zenon DEF Before, Busy
  <2>4. FlowInv'
    BY <1>0, <1>1, <1>3, <1>8, <2>1, Zenon
       DEF FlowInv, SameWork, Before, Admissions, Busy, Durable, Idle, Pcs, Resting
  <2>5. StepInv' BY <2>1, Zenon DEF StepInv, InStep, Busy, Resting
  <2> QED BY <2>1, <2>2, <2>3, <2>4, <2>5, QuietKeeps, Zenon DEF WorkInv
<1>9. CASE ~env.durable /\ ex' = [ex EXCEPT !.pc = "reply"] /\ Decide(StagedIds, "unavailable") /\ pool' = pool /\ healthy' = FALSE
  <2>1. /\ ex'.pc = "reply" /\ ex'.rest = ex.rest /\ ex'.chunk = ex.chunk
        /\ ex'.committed = ex.committed
    BY <1>0, <1>9, Zenon DEF ExOK, ExFields
  <2>2. AnswerStep(ids, "unavailable")
    <3>1. Restated(ids, "unavailable") BY <1>0, <1>6, <1>9, DecideOK, Zenon DEF Statuses
    <3>2. Upto(pool) <= Upto(pool') BY <1>0, <1>9
    <3> QED BY <1>0, <1>1, <1>7, <1>9, <2>1, <3>1, <3>2, Zenon DEF AnswerStep
  <2>3. FreshInv' BY <2>1, Zenon DEF FreshInv, Before, Busy
  <2>4. FlowInv'
    BY <1>0, <1>1, <1>3, <2>1, Zenon
       DEF FlowInv, Before, Admissions, Busy, Durable, Idle, Pcs, Resting
  <2>5. StepInv' BY <1>9, <2>1, Zenon DEF StepInv, Busy, Resting
  <2> QED BY <2>1, <2>2, <2>3, <2>4, <2>5, AnswerKeeps, Zenon DEF WorkInv
<1>10. CASE /\ pool' = q /\ Decide(StagedIds, "success")
            /\ \/ Proportional([ex EXCEPT !.published = TRUE], pool', next)
               \/ ex' = [ex EXCEPT !.pc = next, !.published = TRUE]
  <2>1. /\ \/ ex'.pc = "house" /\ ex'.ret = next
           \/ ex'.pc = next
        /\ ex'.rest = ex.rest /\ ex'.chunk = ex.chunk /\ ex'.committed = ex.committed
    <3> HIDE DEF next
    <3> QED BY <1>0, <1>10, Zenon DEF Proportional, ExOK, ExFields
  <2>2. AnswerStep(ids, "success")
    <3>1. Restated(ids, "success") BY <1>0, <1>6, <1>10, DecideOK, Zenon DEF Statuses
    <3>2. Upto(pool') = Len(log) /\ Historic(pool', log) /\ Upto(pool) <= Upto(pool')
      BY <1>0, <1>5, <1>10
    <3> QED BY <1>1, <1>7, <2>1, <3>1, <3>2, Zenon DEF AnswerStep
  <2>3. FreshInv' BY <2>1, Zenon DEF FreshInv, Before, Busy
  <2>4. FlowInv'
    BY <1>0, <1>1, <1>3, <2>1, Zenon
       DEF FlowInv, Before, Admissions, Busy, Durable, Idle, Pcs, Resting
  <2>5. InStep' BY <1>1, <1>5, <1>10, Zenon DEF InStep, Upto
  <2>6. StepInv' BY <2>1, <2>5, Zenon DEF StepInv, Busy, Resting
  <2> QED BY <2>1, <2>2, <2>3, <2>4, <2>6, AnswerKeeps, Zenon DEF WorkInv
<1> HIDE DEF next
<1> QED BY <1>4, <1>8, <1>9, <1>10, Zenon

(***************************************************************************)
(* The theorems.                                                           *)
(***************************************************************************)
\* Steps of threads that do not touch the lane.
LEMMA AsideInv ==
    ASSUME SlotInv, WorkInv, req' = req, log' = log, lane' = lane, ex' = ex, env' = env, healthy' => healthy,
           Historic(pool', log), Upto(pool') = Upto(pool), ex.pc = "idle" \/ (Merging(pool) => Merging(pool'))
    PROVE  WorkInv'
<1>1. QueueInv' BY Zenon DEF WorkInv, QueueInv, Fresh
<1>2. FreshInv' BY Zenon DEF WorkInv, FreshInv, Before, Fresh
<1>3. CommitInv' BY Zenon DEF WorkInv, CommitInv
<1>4. FlowInv' BY Zenon DEF WorkInv, FlowInv, Before
<1>5. StepInv' BY Zenon DEF WorkInv, StepInv, InStep, Upto
<1>6. SuccessInv' BY Zenon DEF WorkInv, SuccessInv, Upto
<1> QED BY <1>1, <1>2, <1>3, <1>4, <1>5, <1>6, Zenon DEF WorkInv, Historic

\* Who executes does not change, ...
LEMMA CallerKept == ASSUME CallerInv, call' = call, token' = token, ex'.pc = ex.pc \/ (ex.pc # "idle" /\ ex'.pc # "idle") PROVE CallerInv'
  BY Zenon DEF CallerInv

\* A caller that is not the executor goes from pc to pc.
LEMMA CallerMoves ==
    ASSUME CallerInv, NEW c \in Callers, call[c].pc # "executing", ex' = ex, token' = token,
           NEW x, DOMAIN x = {"pc", "nodes"}, call' = [call EXCEPT ![c] = x]
    PROVE  CallerInv'
<1>1. DOMAIN call = Callers BY Zenon DEF CallerInv
<1>2. DOMAIN call' = Callers /\ call'[c] = x /\ \A d \in Callers : d # c => call'[d] = call[d]
  BY <1>1, Zenon
<1>3. \A d \in Callers : DOMAIN call'[d] = {"pc", "nodes"} BY <1>2, Zenon DEF CallerInv
<1>4. ex.pc # "idle" => token \in Callers /\ token # c /\ call[token].pc = "executing"
  BY Zenon DEF CallerInv
<1> QED BY <1>2, <1>3, <1>4, Zenon DEF CallerInv

\* The record of a caller that moves.
LEMMA MovePc ==
    ASSUME CallerInv, NEW c \in Callers, NEW pc, call' = [call EXCEPT ![c].pc = pc]
    PROVE  \E x : DOMAIN x = {"pc", "nodes"} /\ x.pc = pc /\ call' = [call EXCEPT ![c] = x]
<1>1. PICK x : x = [call[c] EXCEPT !.pc = pc] BY Zenon
<1>2. DOMAIN call = Callers /\ DOMAIN call[c] = {"pc", "nodes"} BY Zenon DEF CallerInv
<1>3. DOMAIN x = {"pc", "nodes"} /\ x.pc = pc BY <1>1, <1>2, Zenon
<1>4. call' = [call EXCEPT ![c] = x] BY <1>1, Zenon
<1> QED BY <1>3, <1>4, Zenon

\* The steps of the executor keep the invariant, ...
LEMMA ExecutorInv ==
    ASSUME NoVolatileThrow, SlotInv, CallerInv, WorkInv, Executor PROVE CallerInv' /\ WorkInv'
<1>1. CASE Release
  <2>1. WorkInv' BY <1>1, ReleaseInv, Zenon
  <2>2. ex.pc = "release" /\ token' = Nobody /\ ex'.pc = "idle" BY <1>1, Zenon DEF Release, IdleEx
  <2>3. token \in Callers BY <2>2, Zenon DEF CallerInv
  <2>4. PICK pc : call' = [call EXCEPT ![token].pc = pc] BY <1>1, Zenon DEF Release
  <2>5. \E x : DOMAIN x = {"pc", "nodes"} /\ x.pc = pc /\ call' = [call EXCEPT ![token] = x]
    <3>1. PICK c \in Callers : c = token BY <2>3, Zenon
    <3> QED BY <2>4, <3>1, MovePc, Zenon
  <2>6. PICK x : DOMAIN x = {"pc", "nodes"} /\ call' = [call EXCEPT ![token] = x] BY <2>5, Zenon
  <2>7. DOMAIN call = Callers /\ \A c \in Callers : DOMAIN call[c] = {"pc", "nodes"}
    BY Zenon DEF CallerInv
  <2>8. DOMAIN call' = Callers /\ \A c \in Callers : DOMAIN call'[c] = {"pc", "nodes"}
    BY <2>3, <2>6, <2>7, Zenon
  <2> QED BY <2>1, <2>2, <2>8, Zenon DEF CallerInv
<1>2. CASE ~Release
  <2>1. WorkInv' /\ ex'.pc # "idle"
    BY <1>2, TakeBatchInv, NextChunkInv, HousekeepInv, SweepInv, MergeStepInv, MergeFinishInv,
       AdmitInv, AdmitFailsInv,
       ApplyInv, PublishInv, ReplyInv, ExecuteInv, CaptureInv, DrainInv, ClosedInv, CheckInv,
       PeekInv, Zenon DEF Executor
  <2>2. ex.pc # "idle"
    BY <1>2, Zenon
       DEF Executor, TakeBatch, NextChunk, Housekeep, Sweep, MergeStep, MergeFinish, Admit,
           AdmitFails,
       Apply, Publish, Reply, Execute, Capture, Drain, Closed, Check, PeekThenRelease
  <2>3. token' = token /\ call' = call
    BY <1>2, Zenon
       DEF Executor, TakeBatch, NextChunk, Housekeep, Sweep, MergeStep, MergeFinish, Admit,
           AdmitFails,
       Apply, Publish, Reply, Execute, Capture, Drain, Closed, Check, PeekThenRelease, Elsewhere
  <2> QED BY <2>1, <2>2, <2>3, CallerKept, Zenon
<1> QED BY <1>1, <1>2, Zenon

\* ... those of the callers do, ...
LEMMA CallersInv ==
    ASSUME SlotInv, CallerInv, WorkInv, NEW c \in Callers, Enter(c) \/ Caller(c) PROVE CallerInv' /\ WorkInv'
<1>0. Historic(pool, log) BY PoolHistoric, Zenon
<1>1. CASE Enter(c) \/ Refused(c) \/ Miss(c)
  <2>1. /\ req' = req /\ log' = log /\ lane' = lane /\ ex' = ex /\ env' = env /\ healthy' = healthy
        /\ pool' = pool
        /\ token' = token /\ call[c].pc # "executing"
    BY <1>1, Zenon DEF Enter, Refused, Miss
  <2>2. PICK pc : call' = [call EXCEPT ![c].pc = pc] BY <1>1, Zenon DEF Enter, Refused, Miss
  <2>3. PICK x : DOMAIN x = {"pc", "nodes"} /\ call' = [call EXCEPT ![c] = x] BY <2>2, MovePc, Zenon
  <2>4. CallerInv' BY <2>1, <2>3, CallerMoves, Zenon
  <2> QED BY <1>0, <2>1, <2>4, AsideInv, Zenon
<1>2. CASE Return(c)
  <2>1. /\ req' = req /\ log' = log /\ lane' = lane /\ ex' = ex /\ env' = env /\ healthy' = healthy
        /\ pool' = pool
        /\ token' = token /\ call[c].pc # "executing"
        /\ call' = [call EXCEPT ![c] = [pc |-> "idle", nodes |-> {}]]
    BY <1>2, Zenon DEF Return
  <2>2. PICK x : DOMAIN x = {"pc", "nodes"} /\ call' = [call EXCEPT ![c] = x] BY <2>1, Zenon
  <2>3. CallerInv' BY <2>1, <2>2, CallerMoves, Zenon
  <2> QED BY <1>0, <2>1, <2>3, AsideInv, Zenon
<1>3. CASE Push(c)
  <2>1. WorkInv' BY <1>3, PushInv, Zenon
  <2>2. ex' = ex /\ token' = token /\ call[c].pc # "executing" BY <1>3, Zenon DEF Push
  <2>3. PICK x : DOMAIN x = {"pc", "nodes"} /\ call' = [call EXCEPT ![c] = x]
    <3>1. PICK s : call' = [call EXCEPT ![c] = [pc |-> "combine", nodes |-> s]]
      BY <1>3, Zenon DEF Push
    <3> QED BY <3>1, Zenon
  <2> QED BY <2>1, <2>2, <2>3, CallerMoves, Zenon
<1>4. CASE Acquire(c)
  <2>1. ex.pc = "idle" BY <1>4, PairLaneAssumption, Zenon DEF Acquire, CallerInv
  <2>2. WorkInv' /\ ex'.pc = "take" BY <1>4, <2>1, AcquireInv, Zenon
  <2>3. token' = c /\ call' = [call EXCEPT ![c].pc = "executing"] BY <1>4, Zenon DEF Acquire
  <2>4. PICK x : DOMAIN x = {"pc", "nodes"} /\ x.pc = "executing" /\ call' = [call EXCEPT ![c] = x]
    BY <2>3, MovePc, Zenon
  <2>5. DOMAIN call = Callers /\ \A d \in Callers : DOMAIN call[d] = {"pc", "nodes"}
    BY Zenon DEF CallerInv
  <2>6. DOMAIN call' = Callers /\ call'[c] = x /\ \A d \in Callers : DOMAIN call'[d] = {"pc", "nodes"}
    BY <2>4, <2>5, Zenon
  <2>7. ex'.pc # "idle" BY <2>2, Zenon
  <2> QED BY <2>2, <2>3, <2>4, <2>6, <2>7, Zenon DEF CallerInv
<1> QED BY <1>1, <1>2, <1>3, <1>4, Zenon DEF Caller

\* ... and those of Readers, owner and other lanes.
LEMMA OthersInv ==
    ASSUME SlotInv, CallerInv, WorkInv,
           \/ Owner \/ Close \/ Backup \/ OtherLane \/ UNCHANGED vars
           \/ \E r \in Readers : Lease(r) \/ Adopt(r) \/ Drop(r)
    PROVE  CallerInv' /\ WorkInv'
<1>0. Historic(pool, log) BY PoolHistoric, Zenon
<1>1. /\ req' = req /\ log' = log /\ lane' = lane /\ ex' = ex /\ env' = env /\ (healthy' => healthy)
      /\ token' = token /\ call' = call /\ (pool' = pool \/ FinalizeReaderShutdown)
  BY DEF Owner, StopAndDrain, FinalizeReaderShutdown, Close, Backup, OtherLane, FailClosed, Lease,
     Adopt, Drop, vars
<1>2. CASE pool' = pool BY <1>0, <1>1, <1>2, AsideInv, CallerKept, Zenon
<1>3. CASE FinalizeReaderShutdown
  <2>1. ex.pc = "idle" BY <1>3, Zenon DEF FinalizeReaderShutdown, Operating, Quiet, CallerInv
  <2>2. Historic(pool', log) /\ Upto(pool') = Upto(pool)
    BY <1>0, <1>3, ShutdownHistory, Zenon DEF FinalizeReaderShutdown
  <2> QED BY <1>1, <2>1, <2>2, AsideInv, CallerKept, Zenon
<1> QED BY <1>1, <1>2, <1>3, Zenon

\* LaneInv is inductive, ...
LEMMA LaneStep == ASSUME NoVolatileThrow, LaneInv, [Next]_vars PROVE LaneInv'
<1>1. SlotInv /\ CallerInv /\ WorkInv BY Zenon DEF LaneInv
<1>2. SlotInv' BY <1>1, SlotStep, Zenon
<1>3. CallerInv' /\ WorkInv'
  <2>1. CASE Executor BY <1>1, <2>1, ExecutorInv, Zenon
  <2>2. CASE \E c \in Callers : Enter(c) \/ Caller(c) BY <1>1, <2>2, CallersInv, Zenon
  <2>3. CASE \/ Owner \/ Close \/ Backup \/ OtherLane \/ UNCHANGED vars
             \/ \E r \in Readers : Lease(r) \/ Adopt(r) \/ Drop(r)
    BY <1>1, <2>3, OthersInv, Zenon
  <2> QED BY <2>1, <2>2, <2>3, Zenon DEF Next
<1> QED BY <1>2, <1>3, Zenon DEF LaneInv

\* ... holds initially ...
LEMMA LaneInit == ASSUME Init PROVE LaneInv
<1>1. SlotInv BY SlotInit, Zenon
<1>2. /\ env \in Environments /\ req = <<>> /\ log = <<>> /\ lane = <<>> /\ token = Nobody
      /\ healthy = TRUE
      /\ call = [c \in Callers |-> [pc |-> "idle", nodes |-> {}]]
  BY Zenon DEF Init
<1>3. /\ ex.pc = "idle" /\ ex.chunk = <<>> /\ ex.rest = <<>> /\ ex.committed = FALSE
  BY Zenon DEF Init, IdleEx
<1>4. CallerInv BY <1>2, <1>3, Zenon DEF CallerInv
<1>5. QueueInv
  <2>1. Below(<<>>, <<>>) /\ Sorted(<<>>) BY DEF Below, Sorted
  <2> QED BY <1>2, <1>3, <2>1 DEF QueueInv
<1>6. FlowInv
  BY <1>2, <1>3, Zenon DEF FlowInv, Before, Admissions, Busy, Durable, Idle, Pcs, Resting
<1>7. FreshInv /\ CommitInv BY <1>3, Zenon DEF FreshInv, CommitInv, Before, Busy
<1>8. /\ pool.merge = NoMerge /\ pool.writer = 1 /\ 1 \in Slots
      /\ \A s \in Slots : pool.slot[s].view = EmptyView
  <2>1. /\ pool.merge = NoMerge /\ pool.writer = 1
        /\ pool.slot = [s \in Slots |-> [FreedSlot EXCEPT !.state = IF s = 1 THEN "published" ELSE "free"]]
    <3>1. FreedSlot.state = "free" BY Zenon DEF FreedSlot
    <3> QED BY <3>1, Zenon DEF Init, EmptyPool
  <2>2. ASSUME NEW s \in Slots PROVE pool.slot[s].view = EmptyView
    <3>1. pool.slot[s] = [FreedSlot EXCEPT !.state = IF s = 1 THEN "published" ELSE "free"]
      BY <2>1, Zenon
    <3> QED BY <3>1, Zenon DEF FreedSlot
  <2>3. 1 \in Slots BY ReadGenerationAssumption DEF Slots
  <2> QED BY <2>1, <2>2, <2>3, Zenon
<1>9. EmptyView.upto = 0 /\ DOMAIN EmptyView.base = Keys /\ DOMAIN EmptyView.delta = {} /\ \A k \in Keys : EmptyView.base[k] = 0
  BY Zenon DEF EmptyView, Nothing
<1>10. ViewOK(EmptyView, <<>>)
  <2>1. ASSUME NEW k \in Keys PROVE Lookup(EmptyView, k) = Contents(<<>>, 0)[k]
    <3>1. At(<<>>, 0, k) = 0
      <4>1. At(<<>>, 0, k) \in 0 .. 0 BY AtFacts, Zenon
      <4> QED BY <4>1
    <3>2. Contents(<<>>, 0)[k] = 0 BY <3>1, ContentsAt, Zenon
    <3> QED BY <1>9, <3>2, Zenon DEF Lookup
  <2>2. EmptyView.upto \in 0 .. Len(<<>>) BY <1>9
  <2> QED BY <1>9, <2>1, <2>2, Zenon DEF ViewOK
<1>11. Views(pool, log) /\ MergedOK(pool) BY <1>2, <1>8, <1>10, Zenon DEF Views, MergedOK, Merging
<1>12. Writer(pool).view.upto = 0 BY <1>8, <1>9, Zenon DEF Writer
<1>13. StepInv /\ SuccessInv BY <1>2, <1>3, <1>12 DEF StepInv, SuccessInv, InStep, Busy, Resting
<1> QED BY <1>1, <1>4, <1>5, <1>6, <1>7, <1>11, <1>13, Zenon DEF LaneInv, WorkInv

\* ... and implies that generations are history ...
LEMMA LaneHistory == ASSUME LaneInv PROVE GenerationsAreHistory
<1>1. Views(pool, log) BY Zenon DEF LaneInv, WorkInv
<1> QED BY <1>1 DEF Views, GenerationsAreHistory, FreeSlots, ViewOK

\* ... and that answers are true.
LEMMA LaneAnswers == ASSUME LaneInv PROVE AnswersAreTrue
<1>1. QueueInv /\ SuccessInv BY Zenon DEF LaneInv, WorkInv
<1>2. DOMAIN req = 1 .. Len(req) /\ DOMAIN log = 1 .. Len(log) BY <1>1 DEF QueueInv
<1>3. AcknowledgedVisible BY <1>1, <1>2, Zenon DEF SuccessInv, AcknowledgedVisible
<1>4. RefusedNeverApplied /\ AppliedInOrder
  BY <1>1, <1>2, Zenon DEF QueueInv, RefusedNeverApplied, AppliedInOrder
<1> QED BY <1>3, <1>4, Zenon DEF AnswersAreTrue

\* Every generation a Reader may hold shows exactly what the shard held at one point of its history:
\* batches, merges, snapshots and shutdown included (publish_incremental_construct,
\* finish_incremental_merge_direct, replace_durable_snapshot_direct).
THEOREM ReadersSeeHistory == ASSUME NoVolatileThrow PROVE Spec => []GenerationsAreHistory
<1>1. Init => LaneInv BY LaneInit, Zenon
<1>2. LaneInv /\ [Next]_vars => LaneInv' BY LaneStep, Zenon
<1>3. LaneInv => GenerationsAreHistory BY LaneHistory, Zenon
<1> QED BY <1>1, <1>2, <1>3, PTL DEF Spec

\* A mutation answered with success is in the generation that Readers adopt, a refused one is not in
\* the shard and never will be, and mutations reach the shard once and in the order they were pushed
\* (process_sync_lane, ack_after_published_visibility, rewrite_known_not_committed_wire_error).
THEOREM CallersAreToldTheTruth == ASSUME NoVolatileThrow PROVE Spec => []AnswersAreTrue
<1>1. Init => LaneInv BY LaneInit, Zenon
<1>2. LaneInv /\ [Next]_vars => LaneInv' BY LaneStep, Zenon
<1>3. LaneInv => AnswersAreTrue BY LaneAnswers, Zenon
<1> QED BY <1>1, <1>2, <1>3, PTL DEF Spec
=============================================================================

--------------------------- MODULE VolatileProofs ---------------------------
(***************************************************************************)
(* Proofs about a volatile Worker, for every number of keys, Segments and  *)
(* mutations, as long as one thread at a time arms the quiesce gate: the   *)
(* gate keeps the exclusive Writer and a compaction or verification apart, *)
(* every get is the last acknowledged put, and the live counts are exact.  *)
(***************************************************************************)
EXTENDS VolatileWorker, TLAPS, FiniteSetTheorems

\* No two control threads meet an exclusive Writer: with two, the count and
\* the flag of the gate get out of step.
OneControl ==
    \A e \in Environments : e.exclusive => \A c, d \in e.controls : c = d

Owning == {"lock", "plan", "install", "verify", "release"}
Steps == {"idle", "close", "drain", "disarm", "open"} \cup Owning

\* The inductive invariant: the count is one exactly while a thread is between
\* Arm and Disarm, the gate is closed from CloseGate to OpenGate, and the
\* Writer does not mutate from Drain to Release.
GateInv ==
    /\ env \in Environments /\ pc \in [Controls -> Steps]
    /\ writer \in {"idle", "entered", "mutating"}
    /\ ~env.exclusive => writer = "idle"
    /\ env.exclusive =>
         /\ \A c \in Controls : pc[c] # "idle" => c \in env.controls
         /\ holders \in {0, 1}
         /\ holders = 1 <=> \E c \in Controls : pc[c] \notin {"idle", "open"}
         /\ \A c \in Controls :
              /\ pc[c] \in {"drain", "disarm", "open"} \cup Owning => gate
              /\ pc[c] \in Owning => writer # "mutating"

\* The gate starts open and unused.
LEMMA InitGate == Init => GateInv
BY DEF Init, GateInv, Steps, Owning

\* Steps of mutations, of the exclusive Writer and of the clock.
LEMMA WriterGate ==
    ASSUME GateInv,
           \/ \E key \in Keys : Locked(key) \/ Mutate(key)
           \/ Enter \/ CheckGate \/ Tick
    PROVE  GateInv'
<1>1. UNCHANGED <<env, pc, holders, gate>>
  BY Zenon DEF Locked, Mutate, Enter, CheckGate, Tick, gateVars, controlVars
<1>2. CASE writer' \in {"idle", "entered"} /\ (env.exclusive \/ writer' = writer)
  BY <1>1, <1>2, Zenon DEF GateInv, Owning
<1>3. CASE writer' = writer BY <1>1, <1>3, Zenon DEF GateInv
<1>4. CASE CheckGate /\ ~gate
  <2>1. env.exclusive BY <1>4, Zenon DEF GateInv, CheckGate
  <2>2. \A c \in Controls : pc[c] \notin Owning BY <1>4, <2>1, Zenon DEF GateInv
  <2>3. writer' = "mutating" BY <1>4, Zenon DEF CheckGate
  <2> QED BY <1>1, <2>1, <2>2, <2>3, Zenon DEF GateInv
<1>5. CASE CheckGate /\ gate
  <2>1. env.exclusive /\ writer' = "idle" BY <1>5, Zenon DEF GateInv, CheckGate
  <2> QED BY <1>2, <2>1, Zenon
<1>6. CASE Enter BY <1>2, <1>6, Zenon DEF Enter
<1>7. ASSUME NEW key \in Keys, Mutate(key) PROVE GateInv'
  <2>1. env.exclusive /\ writer' = "idle" BY <1>7, Zenon DEF GateInv, Mutate
  <2> QED BY <1>2, <2>1, Zenon
<1>8. ASSUME NEW key \in Keys, Locked(key) PROVE GateInv'
  BY <1>3, <1>8, Zenon DEF Locked, gateVars
<1>9. CASE Tick BY <1>3, <1>9, Zenon DEF Tick, gateVars
<1> QED BY <1>4, <1>5, <1>6, <1>7, <1>8, <1>9, Zenon

\* In a Store without exclusive Writer the gate is not used.
LEMMA SharedGate ==
    ASSUME GateInv, NEW c \in Controls, ControlStep(c), ~env.exclusive
    PROVE  GateInv'
<1>1. UNCHANGED <<env, writer>>
  BY Zenon DEF ControlStep, Arm, CloseGate, Drain, Lock, Build, Install, Verify, Release, Disarm,
         OpenGate, gateVars
<1>2. pc' \in [Controls -> Steps]
  <2>1. \E step \in Steps : pc' = [pc EXCEPT ![c] = step]
    BY Zenon DEF ControlStep, Arm, CloseGate, Drain, Lock, Build, Install, Verify, Release, Disarm,
           OpenGate, Leave, Go, Steps, Owning
  <2> QED BY <2>1, Zenon DEF GateInv
<1> QED BY <1>1, <1>2, Zenon DEF GateInv

\* The gate beside its only user.
AloneAt(c, step, count, closed, w) ==
    /\ c \in env.controls /\ \A d \in Controls : d # c => pc[d] = "idle"
    /\ pc[c] = step
    /\ count = IF step \in {"idle", "open"} THEN 0 ELSE 1
    /\ step \in {"drain", "disarm", "open"} \cup Owning => closed
    /\ step \in Owning => w # "mutating"

\* With one control thread, the one that steps is the only user.
LEMMA Alone ==
    ASSUME OneControl, GateInv, env.exclusive, NEW c \in Controls, ControlStep(c)
    PROVE  AloneAt(c, pc[c], holders, gate, writer)
<1>1. c \in env.controls
  BY Zenon DEF GateInv, ControlStep, Arm, CloseGate, Drain, Lock, Build, Install, Verify, Release,
         Disarm, OpenGate
<1>2. \A d \in Controls : d # c => pc[d] = "idle" BY <1>1, Zenon DEF OneControl, GateInv
<1>3. holders = IF pc[c] \in {"idle", "open"} THEN 0 ELSE 1 BY <1>2, Zenon DEF GateInv
<1> QED BY <1>1, <1>2, <1>3, Zenon DEF AloneAt, GateInv

\* A step of the only user to a place that fits the gate keeps the invariant.
LEMMA AloneSteps ==
    ASSUME GateInv, env.exclusive, NEW c \in Controls, AloneAt(c, pc[c], holders, gate, writer),
           NEW step \in Steps, pc' = [pc EXCEPT ![c] = step], UNCHANGED <<env, writer>>,
           holders' = IF step \in {"idle", "open"} THEN 0 ELSE 1,
           step \in {"drain", "disarm", "open"} \cup Owning => gate',
           step \in Owning => writer # "mutating"
    PROVE  GateInv'
<1>1. pc' \in [Controls -> Steps] /\ pc'[c] = step /\ \A d \in Controls : d # c => pc'[d] = "idle"
  BY Zenon DEF GateInv, AloneAt
<1>2. (\E d \in Controls : pc'[d] \notin {"idle", "open"}) <=> step \notin {"idle", "open"}
  BY <1>1, Zenon
<1>3. c \in env.controls BY Zenon DEF AloneAt
<1> QED BY <1>1, <1>2, <1>3 DEF GateInv, Owning

\* With an exclusive Writer each step of the only user fits the gate.
LEMMA ExclusiveGate ==
    ASSUME OneControl, GateInv, env.exclusive, NEW c \in Controls, ControlStep(c)
    PROVE  GateInv'
<1>1. AloneAt(c, pc[c], holders, gate, writer) BY Alone, Zenon
<1>2. UNCHANGED <<env, writer>>
  BY Zenon DEF ControlStep, Arm, CloseGate, Drain, Lock, Build, Install, Verify, Release, Disarm,
         OpenGate, gateVars
<1> USE DEF AloneAt, Go
<1>3. CASE Arm(c)
  <2>1. pc' = [pc EXCEPT ![c] = "close"] /\ holders' = 1 /\ "close" \in Steps
    BY <1>1, <1>3 DEF Arm, Steps
  <2> QED BY <1>1, <1>2, <2>1, AloneSteps, Zenon DEF Owning
<1>4. CASE CloseGate(c)
  <2>1. pc' = [pc EXCEPT ![c] = "drain"] /\ holders' = 1 /\ gate' /\ "drain" \in Steps
    BY <1>1, <1>4, Zenon DEF CloseGate, Steps
  <2> QED BY <1>1, <1>2, <2>1, AloneSteps, Zenon DEF Owning
<1>5. CASE Drain(c)
  <2>1. pc' = [pc EXCEPT ![c] = "lock"] /\ holders' = 1 /\ gate' /\ "lock" \in Steps
    BY <1>1, <1>5, Zenon DEF Drain, Steps, Owning, gateVars
  <2>2. writer # "mutating" BY <1>5 DEF Drain, Depth
  <2> QED BY <1>1, <1>2, <2>1, <2>2, AloneSteps, Zenon
<1>6. CASE Lock(c) \/ Build(c) \/ Install(c) \/ Verify(c)
  <2>1. PICK step \in Owning : pc' = [pc EXCEPT ![c] = step]
    BY <1>6, Zenon DEF Lock, Build, Install, Verify, Owning
  <2>2. pc[c] \in Owning /\ UNCHANGED <<holders, gate>>
    BY <1>6, Zenon DEF Lock, Build, Install, Verify, Owning, gateVars
  <2>3. holders' = 1 /\ gate' /\ writer # "mutating" BY <1>1, <2>2, Zenon DEF Owning
  <2> QED BY <1>1, <1>2, <2>1, <2>3, AloneSteps, Zenon DEF Steps, Owning
<1>7. CASE Release(c)
  <2>1. pc' = [pc EXCEPT ![c] = "disarm"] /\ holders' = 1 /\ gate' /\ "disarm" \in Steps
    BY <1>1, <1>7, Zenon DEF Release, Steps, Owning, gateVars
  <2> QED BY <1>1, <1>2, <2>1, AloneSteps, Zenon DEF Owning
<1>8. CASE Disarm(c)
  <2>1. pc' = [pc EXCEPT ![c] = "open"] /\ holders' = 0 /\ gate' /\ "open" \in Steps
    BY <1>1, <1>8 DEF Disarm, Steps
  <2> QED BY <1>1, <1>2, <2>1, AloneSteps, Zenon DEF Owning
<1>9. CASE OpenGate(c)
  <2>1. pc' = [pc EXCEPT ![c] = "idle"] /\ holders' = 0 /\ "idle" \in Steps
    BY <1>1, <1>9, Zenon DEF OpenGate, Leave, Steps
  <2> QED BY <1>1, <1>2, <2>1, AloneSteps, Zenon DEF Owning
<1> QED BY <1>3, <1>4, <1>5, <1>6, <1>7, <1>8, <1>9, Zenon DEF ControlStep

\* The gate in every step.
LEMMA GateSteps == ASSUME OneControl PROVE GateInv /\ [Next]_vars => GateInv'
<1> SUFFICES ASSUME GateInv, [Next]_vars PROVE GateInv' BY Zenon
<1>1. ASSUME NEW c \in Controls, ControlStep(c) PROVE GateInv'
  BY <1>1, SharedGate, ExclusiveGate, Zenon
<1>2. CASE Next BY <1>1, <1>2, WriterGate, Zenon DEF Next
<1>3. CASE UNCHANGED vars BY <1>3, Zenon DEF vars, gateVars, controlVars, GateInv
<1> QED BY <1>2, <1>3, Zenon

\* ExclusiveIndexQuiesce does its work when one thread at a time arms it: the
\* exclusive Writer changes the Index only while no compaction and no
\* verification is past its drain, for any number of keys, Segments and
\* mutations.
THEOREM QuiesceExcludes == ASSUME OneControl PROVE Spec => []IndexHasOneOwner
<1>1. GateInv /\ [Next]_vars => GateInv' BY GateSteps, Zenon
<1>2. GateInv => IndexHasOneOwner BY Zenon DEF GateInv, IndexHasOneOwner, Owning
<1> QED BY <1>1, <1>2, InitGate, PTL DEF Spec

----------------------------------------------------------------------------
(* The Worker: what makes its Segments and its Index fit each other. *)

\* What the proofs use of the constants.
LEMMA KeysAssumption == IsFiniteSet(Keys) /\ NoRef \notin [segment : Nat, offset : Nat]
BY VolatileAssumption, Zenon

\* Sound Workers.  but: the Segment whose retirement is still to be tried.
Recs == [op : {"put", "erase"}, key : Keys, seq : Nat, ttl : BOOLEAN]
Shape(s) == DOMAIN s = {"segments", "owned", "active", "next", "seq", "index"}
Into(index, id) == {k \in Keys : index[k] # NoRef /\ index[k].segment = id}

SegmentOK(segment) ==
    /\ DOMAIN segment = {"state", "records", "live"}
    /\ segment.records \in Seq(Recs)

\* The entry of a key whose last acknowledged put is l.
EntryOK(segments, ref, l, late) ==
    IF ref = NoRef THEN l = Nothing \/ (late /\ l.ttl)
    ELSE /\ ref.segment \in DOMAIN segments
         /\ ref.offset \in 1 .. Len(segments[ref.segment].records)
         /\ segments[ref.segment].records[ref.offset].seq = l.seq
         /\ segments[ref.segment].records[ref.offset].ttl = l.ttl

\* The live count of a Segment.
CountOK(segments, index, id, but) ==
    /\ segments[id].live = Cardinality(Into(index, id))
    /\ segments[id].state = "sealed" /\ id # but => segments[id].live > 0

\* s is sound for the acknowledged puts l; late: the clock has passed.
Sound(s, l, late, but) ==
    /\ Shape(s) /\ s.seq \in Nat /\ s.next \in Nat /\ s.next <= LastSegment
    /\ s.owned = DOMAIN s.segments
    /\ DOMAIN s.segments \subseteq 1 .. s.next - 1
    /\ s.active \in DOMAIN s.segments /\ s.segments[s.active].state = "active"
    /\ \A id \in DOMAIN s.segments : SegmentOK(s.segments[id]) /\ CountOK(s.segments, s.index, id, but)
    /\ DOMAIN s.index = Keys
    /\ \A k \in Keys : EntryOK(s.segments, s.index[k], l[k], late)

\* MarkLive, MarkDead and AppendTo field by field.
LEMMA MarkLiveFields ==
    ASSUME NEW s, NEW ref, Shape(s), NEW r, r = MarkLive(s, ref)
    PROVE  /\ Shape(r) /\ r.owned = s.owned /\ r.active = s.active /\ r.next = s.next
           /\ r.seq = s.seq /\ r.index = s.index
           /\ DOMAIN r.segments = DOMAIN s.segments
           /\ \A d \in DOMAIN s.segments :
                 /\ d # ref.segment => r.segments[d] = s.segments[d]
                 /\ d = ref.segment /\ DOMAIN s.segments[d] = {"state", "records", "live"} =>
                       /\ DOMAIN r.segments[d] = DOMAIN s.segments[d]
                       /\ r.segments[d].state = s.segments[d].state
                       /\ r.segments[d].records = s.segments[d].records
                       /\ r.segments[d].live = s.segments[d].live + 1
<1>1. /\ Shape(r) /\ r.owned = s.owned /\ r.active = s.active /\ r.next = s.next
      /\ r.seq = s.seq /\ r.index = s.index
      /\ r.segments = [s.segments EXCEPT ![ref.segment].live = s.segments[ref.segment].live + 1]
  BY Zenon DEF Shape, MarkLive
<1>2. \A d \in DOMAIN s.segments :
         r.segments[d] = IF d = ref.segment THEN [s.segments[d] EXCEPT !.live = s.segments[d].live + 1]
                         ELSE s.segments[d]
  BY <1>1, Zenon
<1> QED BY <1>1, <1>2, Zenon

LEMMA MarkDeadFields ==
    ASSUME NEW s, NEW ref, Shape(s), NEW r, r = MarkDead(s, ref)
    PROVE  /\ Shape(r) /\ r.owned = s.owned /\ r.active = s.active /\ r.next = s.next
           /\ r.seq = s.seq /\ r.index = s.index
           /\ DOMAIN r.segments = DOMAIN s.segments
           /\ \A d \in DOMAIN s.segments :
                 /\ d # ref.segment => r.segments[d] = s.segments[d]
                 /\ d = ref.segment /\ DOMAIN s.segments[d] = {"state", "records", "live"} =>
                       /\ DOMAIN r.segments[d] = DOMAIN s.segments[d]
                       /\ r.segments[d].state = s.segments[d].state
                       /\ r.segments[d].records = s.segments[d].records
                       /\ r.segments[d].live = s.segments[d].live - 1
<1>1. /\ Shape(r) /\ r.owned = s.owned /\ r.active = s.active /\ r.next = s.next
      /\ r.seq = s.seq /\ r.index = s.index
      /\ r.segments = [s.segments EXCEPT ![ref.segment].live = s.segments[ref.segment].live - 1]
  BY Zenon DEF Shape, MarkDead
<1>2. \A d \in DOMAIN s.segments :
         r.segments[d] = IF d = ref.segment THEN [s.segments[d] EXCEPT !.live = s.segments[d].live - 1]
                         ELSE s.segments[d]
  BY <1>1, Zenon
<1> QED BY <1>1, <1>2, Zenon

LEMMA AppendToFields ==
    ASSUME NEW s, NEW id, NEW record, Shape(s), NEW r, r = AppendTo(s, id, record)
    PROVE  /\ Shape(r) /\ r.owned = s.owned /\ r.active = s.active /\ r.next = s.next
           /\ r.seq = s.seq /\ r.index = s.index
           /\ DOMAIN r.segments = DOMAIN s.segments
           /\ \A d \in DOMAIN s.segments :
                 /\ d # id => r.segments[d] = s.segments[d]
                 /\ d = id /\ DOMAIN s.segments[d] = {"state", "records", "live"} =>
                       /\ DOMAIN r.segments[d] = DOMAIN s.segments[d]
                       /\ r.segments[d].state = s.segments[d].state
                       /\ r.segments[d].live = s.segments[d].live
                       /\ r.segments[d].records = Append(s.segments[d].records, record)
<1>1. /\ Shape(r) /\ r.owned = s.owned /\ r.active = s.active /\ r.next = s.next
      /\ r.seq = s.seq /\ r.index = s.index
      /\ r.segments = [s.segments EXCEPT ![id].records = Append(s.segments[id].records, record)]
  BY Zenon DEF Shape, AppendTo
<1>2. \A d \in DOMAIN s.segments :
         r.segments[d] = IF d = id THEN [s.segments[d] EXCEPT !.records = Append(s.segments[d].records, record)]
                         ELSE s.segments[d]
  BY <1>1, Zenon
<1> QED BY <1>1, <1>2, Zenon

\* Moving one entry changes the count of its old and of its new Segment.
LEMMA IntoCount ==
    ASSUME NEW index, DOMAIN index = Keys, NEW key \in Keys, NEW ref, NEW id
    PROVE  /\ Cardinality(Into(index, id)) \in Nat
           /\ Cardinality(Into([index EXCEPT ![key] = ref], id))
                = (Cardinality(Into(index, id))
                   - (IF index[key] # NoRef /\ index[key].segment = id THEN 1 ELSE 0))
                  + (IF ref # NoRef /\ ref.segment = id THEN 1 ELSE 0)
<1> DEFINE I == Into(index, id)
           J == Into([index EXCEPT ![key] = ref], id)
<1>1. IsFiniteSet(I) /\ Cardinality(I) \in Nat
  BY KeysAssumption, FS_Subset, FS_CardinalityType, Zenon DEF Into
<1>2. IsFiniteSet(I \ {key}) /\ Cardinality(I \ {key}) = IF key \in I THEN Cardinality(I) - 1 ELSE Cardinality(I)
  BY <1>1, FS_RemoveElement, Zenon
<1>5. key \in I <=> index[key] # NoRef /\ index[key].segment = id BY Zenon DEF Into
<1>3. CASE ref # NoRef /\ ref.segment = id
  <2>1. J = (I \ {key}) \cup {key} BY <1>3, Zenon DEF Into
  <2>2. Cardinality(J) = Cardinality(I \ {key}) + 1 BY <1>2, <2>1, FS_AddElement, Zenon
  <2> QED BY <1>1, <1>2, <1>3, <1>5, <2>2
<1>4. CASE ~(ref # NoRef /\ ref.segment = id)
  <2>1. J = I \ {key} BY <1>4, Zenon DEF Into
  <2>2. (IF ref # NoRef /\ ref.segment = id THEN 1 ELSE 0) = 0 BY <1>4, Zenon
  <2> HIDE DEF I, J
  <2>3. Cardinality(J) = (Cardinality(I) - (IF index[key] # NoRef /\ index[key].segment = id THEN 1 ELSE 0)) + 0
    BY <1>1, <1>2, <1>5, <2>1
  <2> QED BY <1>1, <2>2, <2>3, Zenon DEF I, J
<1> QED BY <1>3, <1>4, Zenon

\* An entry stays right where its Record does.
LEMMA EntryMoves ==
    ASSUME NEW f, NEW g, NEW ref, NEW l, NEW late, EntryOK(f, ref, l, late),
           ref # NoRef => /\ ref.segment \in DOMAIN g
                          /\ ref.offset \in 1 .. Len(g[ref.segment].records)
                          /\ g[ref.segment].records[ref.offset] = f[ref.segment].records[ref.offset]
    PROVE  EntryOK(g, ref, l, late)
BY Zenon DEF EntryOK

\* A sound entry resolves.
LEMMA EntryInside ==
    ASSUME NEW s, NEW l, NEW late, NEW but, Sound(s, l, late, but), NEW k \in Keys, s.index[k] # NoRef
    PROVE  /\ s.index[k].segment \in DOMAIN s.segments
           /\ s.index[k].offset \in 1 .. Len(s.segments[s.index[k].segment].records)
BY Zenon DEF Sound, EntryOK

\* maybe_retire drops a Segment no entry points into.
LEMMA RetireSound ==
    ASSUME NEW s, NEW l, NEW late, NEW id \in DOMAIN s.segments, Sound(s, l, late, id)
    PROVE  Sound(MaybeRetire(s, id), l, late, 0)
<1> DEFINE r == MaybeRetire(s, id)
<1>1. Shape(s) BY Zenon DEF Sound
<1>2. CASE s.segments[id].state # "sealed" \/ s.segments[id].live # 0
  <2>1. r = s BY <1>2, Zenon DEF MaybeRetire
  <2>2. Cardinality(Into(s.index, id)) \in Nat
    BY KeysAssumption, FS_Subset, FS_CardinalityType, Zenon DEF Into
  <2> QED BY <1>2, <2>1, <2>2 DEF Sound, CountOK
<1>3. CASE s.segments[id].state = "sealed" /\ s.segments[id].live = 0
  <2>1. /\ Shape(r) /\ r.segments = Restrict(s.segments, DOMAIN s.segments \ {id})
        /\ r.owned = s.owned \ {id} /\ r.active = s.active /\ r.next = s.next /\ r.seq = s.seq
        /\ r.index = s.index
    BY <1>1, <1>3, Zenon DEF MaybeRetire, Shape
  <2>2. Into(s.index, id) = {}
    BY <1>3, KeysAssumption, FS_Subset, FS_EmptySet, Zenon DEF Into, Sound, CountOK
  <2>3. DOMAIN r.segments = DOMAIN s.segments \ {id} /\ \A d \in DOMAIN r.segments : r.segments[d] = s.segments[d]
    BY <2>1, Zenon DEF Restrict
  <2>4. \A k \in Keys : EntryOK(r.segments, r.index[k], l[k], late)
    <3> TAKE k \in Keys
    <3>1. EntryOK(s.segments, s.index[k], l[k], late) BY Zenon DEF Sound
    <3>2. s.index[k] # NoRef => s.index[k].segment # id BY <2>2, Zenon DEF Into
    <3> QED BY <3>1, <3>2, <2>1, <2>3, Zenon DEF EntryOK
  <2>5. \A d \in DOMAIN r.segments : SegmentOK(r.segments[d]) /\ CountOK(r.segments, r.index, d, 0)
    BY <2>1, <2>3, Zenon DEF Sound, CountOK
  <2>6. s.active # id /\ s.active \in DOMAIN s.segments BY <1>3, Zenon DEF Sound
  <2>7. r.active \in DOMAIN r.segments /\ r.segments[r.active].state = "active"
    BY <2>1, <2>3, <2>6, Zenon DEF Sound
  <2> QED BY <2>1, <2>3, <2>4, <2>5, <2>7, Zenon DEF Sound
<1> QED BY <1>2, <1>3, Zenon

\* Rotation: the sealed Segment alone may be without live Records.
LEMMA RotateSound ==
    ASSUME NEW s, NEW l, NEW late, Sound(s, l, late, 0), s.next < LastSegment
    PROVE  /\ Sound(Rotate(s), l, late, s.active) /\ s.active \in DOMAIN Rotate(s).segments
           /\ Rotate(s).index = s.index /\ Rotate(s).seq = s.seq
<1> DEFINE r == Rotate(s)
<1>1. Shape(s) BY Zenon DEF Sound
<1>2. /\ Shape(r)
      /\ r.segments = Joined([s.segments EXCEPT ![s.active].state = "sealed"], [id \in {s.next} |-> NewSegment])
      /\ r.owned = s.owned \cup {s.next} /\ r.active = s.next /\ r.next = s.next + 1
      /\ r.seq = s.seq /\ r.index = s.index
  BY <1>1, Zenon DEF Shape, Rotate
<1>3. /\ DOMAIN r.segments = DOMAIN s.segments \cup {s.next}
      /\ s.next \notin DOMAIN s.segments /\ s.next \in Nat
      /\ r.segments[s.next] = NewSegment
      /\ \A d \in DOMAIN s.segments : r.segments[d] = [s.segments EXCEPT ![s.active].state = "sealed"][d]
  <2>1. s.next \notin DOMAIN s.segments /\ s.next \in Nat BY DEF Sound
  <2> DEFINE g == [s.segments EXCEPT ![s.active].state = "sealed"]
  <2>2. DOMAIN g = DOMAIN s.segments BY Zenon
  <2>3. r.segments = Joined(g, [id \in {s.next} |-> NewSegment]) BY <1>2, Zenon
  <2> HIDE DEF g, r
  <2>4. DOMAIN r.segments = DOMAIN s.segments \cup {s.next} BY <2>2, <2>3, Zenon DEF Joined
  <2>5. r.segments[s.next] = NewSegment BY <2>1, <2>2, <2>3, Zenon DEF Joined
  <2>6. \A d \in DOMAIN s.segments : r.segments[d] = g[d] BY <2>1, <2>2, <2>3, Zenon DEF Joined
  <2> QED BY <2>1, <2>4, <2>5, <2>6, Zenon DEF g
<1>4. \A d \in DOMAIN s.segments :
         /\ r.segments[d].records = s.segments[d].records /\ r.segments[d].live = s.segments[d].live
         /\ DOMAIN r.segments[d] = DOMAIN s.segments[d]
         /\ d # s.active => r.segments[d] = s.segments[d]
  <2> TAKE d \in DOMAIN s.segments
  <2>1. DOMAIN s.segments[d] = {"state", "records", "live"} BY Zenon DEF Sound, SegmentOK
  <2>2. r.segments[d] = IF d = s.active THEN [s.segments[d] EXCEPT !.state = "sealed"] ELSE s.segments[d]
    BY <1>3, Zenon
  <2> HIDE DEF r
  <2> QED BY <2>1, <2>2, Zenon
<1>5. \A k \in Keys : EntryOK(r.segments, r.index[k], l[k], late)
  <2> TAKE k \in Keys
  <2>1. EntryOK(s.segments, s.index[k], l[k], late) BY Zenon DEF Sound
  <2> HIDE DEF r
  <2>2. r.index[k] = s.index[k] BY <1>2, Zenon
  <2>3. s.index[k] # NoRef =>
            /\ s.index[k].segment \in DOMAIN s.segments
            /\ s.index[k].offset \in 1 .. Len(s.segments[s.index[k].segment].records)
    BY EntryInside, Zenon
  <2> QED BY <1>3, <1>4, <2>1, <2>2, <2>3, EntryMoves, Zenon
<1>6. Into(s.index, s.next) = {}
  BY <1>3, EntryInside, Zenon DEF Into
<1>7. ASSUME NEW d \in DOMAIN r.segments
      PROVE  SegmentOK(r.segments[d]) /\ CountOK(r.segments, r.index, d, s.active)
  <2>1. CASE d = s.next
    <3>1. <<>> \in Seq(Recs) OBVIOUS
    <3>2. SegmentOK(NewSegment) /\ NewSegment.live = 0 /\ NewSegment.state = "active"
      BY <3>1, Zenon DEF SegmentOK, NewSegment
    <3> QED BY <1>2, <1>3, <1>6, <2>1, <3>2, FS_EmptySet, Zenon DEF CountOK
  <2>2. CASE d \in DOMAIN s.segments
    <3>1. SegmentOK(s.segments[d]) /\ CountOK(s.segments, s.index, d, 0) BY <2>2, Zenon DEF Sound
    <3>2. d # 0 BY <2>2 DEF Sound
    <3> HIDE DEF r
    <3> QED BY <1>2, <1>4, <2>2, <3>1, <3>2, Zenon DEF SegmentOK, CountOK
  <2> QED BY <1>3, <2>1, <2>2, Zenon
<1>8. r.owned = DOMAIN r.segments /\ DOMAIN r.segments \subseteq 1 .. r.next - 1 /\ r.next \in Nat
      /\ r.next <= LastSegment
  BY <1>2, <1>3, VolatileAssumption DEF Sound
<1>9. r.active \in DOMAIN r.segments /\ r.segments[r.active].state = "active"
  BY <1>2, <1>3 DEF NewSegment
<1> QED BY <1>2, <1>3, <1>5, <1>7, <1>8, <1>9, Zenon DEF Sound

\* Rotation with the retirement that follows.
LEMMA PreparedSound ==
    ASSUME NEW s, NEW l, NEW late, Sound(s, l, late, 0), CanAppend(s)
    PROVE  /\ Sound(Prepared(s), l, late, 0)
           /\ Prepared(s).index = s.index /\ Prepared(s).seq = s.seq
<1>1. CASE Full(s.segments[s.active])
  <2> DEFINE r == Rotate(s)
  <2>0. s.next < LastSegment BY <1>1, Zenon DEF CanAppend
  <2>1. /\ Sound(r, l, late, s.active) /\ s.active \in DOMAIN r.segments
        /\ r.index = s.index /\ r.seq = s.seq
    BY <2>0, RotateSound, Zenon
  <2>2. Prepared(s) = MaybeRetire(r, s.active) BY <1>1, Zenon DEF Prepared
  <2> HIDE DEF r
  <2>3. Sound(MaybeRetire(r, s.active), l, late, 0) BY <2>1, RetireSound, Zenon
  <2>4. Shape(r) BY <2>1, Zenon DEF Sound
  <2>5. MaybeRetire(r, s.active).index = r.index /\ MaybeRetire(r, s.active).seq = r.seq
    BY <2>4, Zenon DEF MaybeRetire, Shape
  <2> QED BY <2>1, <2>2, <2>3, <2>5, Zenon
<1>2. CASE ~Full(s.segments[s.active]) BY <1>2, Zenon DEF Prepared
<1> QED BY <1>1, <1>2, Zenon

\* Append, for Records.
LEMMA AppendFacts ==
    ASSUME NEW q \in Seq(Recs), NEW record \in Recs
    PROVE  /\ Append(q, record) \in Seq(Recs) /\ Len(q) \in Nat
           /\ Len(Append(q, record)) = Len(q) + 1 /\ Append(q, record)[Len(q) + 1] = record
           /\ \A i \in 1 .. Len(q) : Append(q, record)[i] = q[i]
OBVIOUS

\* The reference last names a stored copy of record.
Stored(s, last, record) ==
    /\ last # NoRef /\ last.segment \in DOMAIN s.segments
    /\ last.offset \in 1 .. Len(s.segments[last.segment].records)
    /\ s.segments[last.segment].records[last.offset] = record

\* An appended Record is there to be pointed at; no entry moves.
LEMMA AppendSound ==
    ASSUME NEW s, NEW l, NEW late, Sound(s, l, late, 0), NEW record \in Recs,
           NEW r, r = AppendTo(s, s.active, record), NEW last, last = LastRef(r, r.active)
    PROVE  /\ Sound(r, l, late, 0) /\ r.index = s.index /\ r.seq = s.seq
           /\ Stored(r, last, record)
<1> DEFINE n == Len(s.segments[s.active].records) + 1
<1>0. Shape(s) BY Zenon DEF Sound
<1>1. /\ Shape(r) /\ r.owned = s.owned /\ r.active = s.active /\ r.next = s.next
      /\ r.seq = s.seq /\ r.index = s.index /\ DOMAIN r.segments = DOMAIN s.segments
  BY <1>0, AppendToFields
<1>2. s.active \in DOMAIN s.segments /\ s.segments[s.active].records \in Seq(Recs)
  BY Zenon DEF Sound, SegmentOK
<1>3. DOMAIN r.segments = DOMAIN s.segments BY <1>1, Zenon
<1>4. ASSUME NEW d \in DOMAIN s.segments
      PROVE  /\ d # s.active => r.segments[d] = s.segments[d]
             /\ DOMAIN r.segments[d] = DOMAIN s.segments[d]
             /\ r.segments[d].live = s.segments[d].live /\ r.segments[d].state = s.segments[d].state
             /\ d = s.active => r.segments[d].records = Append(s.segments[d].records, record)
  <2>1. DOMAIN s.segments[d] = {"state", "records", "live"} BY Zenon DEF Sound, SegmentOK
  <2> QED BY <1>0, <2>1, AppendToFields
<1>5. /\ r.segments[s.active].records \in Seq(Recs) /\ n \in Nat
      /\ Len(r.segments[s.active].records) = n /\ r.segments[s.active].records[n] = record
      /\ \A i \in 1 .. n - 1 : r.segments[s.active].records[i] = s.segments[s.active].records[i]
  <2> DEFINE q == s.segments[s.active].records
  <2>1. /\ Append(q, record) \in Seq(Recs) /\ Len(q) \in Nat
        /\ Len(Append(q, record)) = Len(q) + 1 /\ Append(q, record)[Len(q) + 1] = record
        /\ \A i \in 1 .. Len(q) : Append(q, record)[i] = q[i]
    BY <1>2, AppendFacts, Zenon
  <2>2. r.segments[s.active].records = Append(q, record) BY <1>2, <1>4, Zenon
  <2>3. n \in Nat /\ n - 1 = Len(q) /\ n = Len(q) + 1 BY <2>1
  <2> HIDE DEF q, n
  <2>4. \A i \in 1 .. n - 1 : r.segments[s.active].records[i] = q[i] BY <2>1, <2>2, <2>3, Zenon
  <2> QED BY <2>1, <2>2, <2>3, <2>4, Zenon DEF q
<1>6. LastRef(r, r.active) = Ref(s.active, n) BY <1>1, <1>5, Zenon DEF LastRef
<1>7. s.active \in Nat BY <1>2 DEF Sound
<1>8. Ref(s.active, n) # NoRef /\ Ref(s.active, n).segment = s.active /\ Ref(s.active, n).offset = n
  BY <1>5, <1>7, KeysAssumption DEF Ref
<1>9. \A k \in Keys : EntryOK(r.segments, r.index[k], l[k], late)
  <2> TAKE k \in Keys
  <2>1. EntryOK(s.segments, s.index[k], l[k], late) BY Zenon DEF Sound
  <2>2. r.index[k] = s.index[k] BY <1>1, Zenon
  <2>3. s.index[k] # NoRef =>
            /\ s.index[k].segment \in DOMAIN s.segments
            /\ s.index[k].offset \in 1 .. Len(s.segments[s.index[k].segment].records)
    BY EntryInside, Zenon
  <2>4. s.index[k] # NoRef =>
            /\ s.index[k].segment \in DOMAIN r.segments
            /\ s.index[k].offset \in 1 .. Len(r.segments[s.index[k].segment].records)
            /\ r.segments[s.index[k].segment].records[s.index[k].offset]
                 = s.segments[s.index[k].segment].records[s.index[k].offset]
    <3>1. CASE s.index[k].segment = s.active
      <4>1. s.index[k] # NoRef => s.index[k].offset \in 1 .. n - 1
        BY <1>2, <2>3, <3>1
      <4> HIDE DEF n
      <4>2. \A i \in 1 .. n - 1 : i \in 1 .. n BY <1>5
      <4>3. s.index[k] # NoRef => s.index[k].offset \in 1 .. Len(r.segments[s.active].records)
        BY <1>5, <4>1, <4>2, Zenon
      <4>4. s.index[k] # NoRef => r.segments[s.active].records[s.index[k].offset]
                                   = s.segments[s.active].records[s.index[k].offset]
        BY <1>5, <4>1, Zenon
      <4> QED BY <1>2, <1>3, <3>1, <4>3, <4>4, Zenon
    <3>2. CASE s.index[k].segment # s.active BY <1>3, <1>4, <2>3, <3>2, Zenon
    <3> QED BY <3>1, <3>2, Zenon
  <2> QED BY <2>1, <2>2, <2>4, EntryMoves, Zenon
<1>10. \A d \in DOMAIN r.segments : SegmentOK(r.segments[d]) /\ CountOK(r.segments, r.index, d, 0)
  <2> TAKE d \in DOMAIN r.segments
  <2>1. SegmentOK(s.segments[d]) /\ CountOK(s.segments, s.index, d, 0) BY <1>3, Zenon DEF Sound
  <2>2. r.segments[d].records \in Seq(Recs) BY <1>3, <1>4, <1>5, <2>1, Zenon DEF SegmentOK
  <2> QED BY <1>1, <1>3, <1>4, <2>1, <2>2, Zenon DEF SegmentOK, CountOK
<1>11. r.segments[r.active].state = "active" BY <1>1, <1>2, <1>4, Zenon DEF Sound
<1>12. Sound(r, l, late, 0) BY <1>1, <1>2, <1>3, <1>9, <1>10, <1>11, Zenon DEF Sound
<1>13. last # NoRef /\ last.segment = s.active /\ last.offset = n BY <1>6, <1>8, Zenon
<1>14. n \in 1 .. n BY <1>2
<1> HIDE DEF n
<1> QED BY <1>1, <1>2, <1>3, <1>5, <1>12, <1>13, <1>14, Zenon DEF Stored

\* r is s with the entry of key moved to ref and the live counts adjusted.
Moves(s, r, key, ref) ==
    /\ Shape(r) /\ r.seq = s.seq /\ r.next = s.next /\ r.owned = s.owned /\ r.active = s.active
    /\ r.index = [s.index EXCEPT ![key] = ref]
    /\ DOMAIN r.segments = DOMAIN s.segments
    /\ \A id \in DOMAIN s.segments :
          /\ DOMAIN r.segments[id] = DOMAIN s.segments[id]
          /\ r.segments[id].records = s.segments[id].records
          /\ r.segments[id].state = s.segments[id].state
          /\ r.segments[id].live
               = (s.segments[id].live
                  - (IF s.index[key] # NoRef /\ s.index[key].segment = id THEN 1 ELSE 0))
                 + (IF ref # NoRef /\ ref.segment = id THEN 1 ELSE 0)

\* Moving an entry with the counts is sound, but for the Segment it left.
LEMMA MoveSound ==
    ASSUME NEW s, NEW l, NEW late, Sound(s, l, late, 0), DOMAIN l = Keys, NEW key \in Keys,
           NEW ref, NEW x, EntryOK(s.segments, ref, x, late),
           NEW r, Moves(s, r, key, ref),
           NEW but, but = IF s.index[key] = NoRef THEN 0 ELSE s.index[key].segment
    PROVE  Sound(r, [l EXCEPT ![key] = x], late, but)
<1> USE DEF Moves
<1>1. DOMAIN s.index = Keys BY Zenon DEF Sound
<1>2. \A k \in Keys : EntryOK(r.segments, r.index[k], [l EXCEPT ![key] = x][k], late)
  <2> TAKE k \in Keys
  <2>1. CASE k = key
    <3>1. r.index[k] = ref /\ [l EXCEPT ![key] = x][k] = x BY <1>1, <2>1, Zenon
    <3>2. EntryOK(r.segments, ref, x, late) BY Zenon DEF EntryOK
    <3> QED BY <3>1, <3>2, Zenon
  <2>2. CASE k # key
    <3>1. r.index[k] = s.index[k] /\ [l EXCEPT ![key] = x][k] = l[k] BY <1>1, <2>2, Zenon
    <3>2. EntryOK(s.segments, s.index[k], l[k], late) BY Zenon DEF Sound
    <3>3. EntryOK(r.segments, s.index[k], l[k], late) BY <3>2, Zenon DEF EntryOK
    <3> QED BY <3>1, <3>3, Zenon
  <2> QED BY <2>1, <2>2, Zenon
<1>3. \A d \in DOMAIN r.segments : SegmentOK(r.segments[d]) /\ CountOK(r.segments, r.index, d, but)
  <2> TAKE d \in DOMAIN r.segments
  <2>1. SegmentOK(s.segments[d]) /\ CountOK(s.segments, s.index, d, 0) /\ d # 0 BY DEF Sound
  <2>2. SegmentOK(r.segments[d]) BY <2>1, Zenon DEF SegmentOK
  <2>3. /\ Cardinality(Into(s.index, d)) \in Nat
        /\ Cardinality(Into(r.index, d))
                = (Cardinality(Into(s.index, d))
                   - (IF s.index[key] # NoRef /\ s.index[key].segment = d THEN 1 ELSE 0))
                  + (IF ref # NoRef /\ ref.segment = d THEN 1 ELSE 0)
    BY <1>1, IntoCount
  <2>4. s.segments[d].live = Cardinality(Into(s.index, d)) BY <2>1, Zenon DEF CountOK
  <2>5. r.segments[d].live = Cardinality(Into(r.index, d)) BY <2>3, <2>4
  <2>6. ASSUME r.segments[d].state = "sealed", d # but PROVE r.segments[d].live > 0
    <3>1. s.segments[d].live > 0 BY <2>1, <2>6, Zenon DEF CountOK
    <3>2. ~(s.index[key] # NoRef /\ s.index[key].segment = d) BY <2>6, Zenon
    <3>3. (IF s.index[key] # NoRef /\ s.index[key].segment = d THEN 1 ELSE 0) = 0 BY <3>2, Zenon
    <3>4. (IF ref # NoRef /\ ref.segment = d THEN 1 ELSE 0) \in {0, 1} BY Zenon
    <3> QED BY <2>3, <2>4, <2>5, <3>1, <3>3, <3>4
  <2> QED BY <2>2, <2>5, <2>6, Zenon DEF CountOK
<1> QED BY <1>1, <1>2, <1>3 DEF Sound

\* publish leaves a sound Worker.
LEMMA PublishSound ==
    ASSUME NEW s, NEW l, NEW late, Sound(s, l, late, 0), DOMAIN l = Keys, NEW key \in Keys,
           NEW ref, NEW x, EntryOK(s.segments, ref, x, late), ref # NoRef
    PROVE  Sound(Publish(s, key, ref, s.index[key]), [l EXCEPT ![key] = x], late, 0)
<1> DEFINE moved == [s EXCEPT !.index[key] = ref]
           a == MarkLive(moved, ref)
           d == MarkDead(a, s.index[key])
           p == s.index[key]
<1>1. /\ Shape(moved) /\ moved.owned = s.owned /\ moved.active = s.active
      /\ moved.next = s.next /\ moved.seq = s.seq /\ moved.segments = s.segments
      /\ moved.index = [s.index EXCEPT ![key] = ref]
  BY Zenon DEF Sound, Shape
<1> HIDE DEF moved
<1>2. /\ Shape(a) /\ a.owned = s.owned /\ a.active = s.active /\ a.next = s.next
      /\ a.seq = s.seq /\ a.index = [s.index EXCEPT ![key] = ref]
      /\ DOMAIN a.segments = DOMAIN s.segments
  BY <1>1, MarkLiveFields
<1>3. ASSUME NEW id \in DOMAIN s.segments
      PROVE  /\ DOMAIN a.segments[id] = {"state", "records", "live"}
             /\ DOMAIN a.segments[id] = DOMAIN s.segments[id]
             /\ a.segments[id].state = s.segments[id].state
             /\ a.segments[id].records = s.segments[id].records
             /\ a.segments[id].live = s.segments[id].live + (IF ref.segment = id THEN 1 ELSE 0)
             /\ s.segments[id].live \in Nat
  <2>1. DOMAIN s.segments[id] = {"state", "records", "live"} BY Zenon DEF Sound, SegmentOK
  <2>2. s.segments[id].live = Cardinality(Into(s.index, id)) BY Zenon DEF Sound, CountOK
  <2>3. s.segments[id].live \in Nat
    BY <2>2, KeysAssumption, FS_Subset, FS_CardinalityType, Zenon DEF Into
  <2>4. CASE ref.segment = id BY <1>1, <2>1, <2>3, <2>4, MarkLiveFields
  <2>5. CASE ref.segment # id
    <3>1. a.segments[id] = s.segments[id] BY <1>1, <2>5, MarkLiveFields
    <3> QED BY <2>1, <2>3, <2>5, <3>1
  <2> QED BY <2>4, <2>5, Zenon
<1>4. CASE p = NoRef
  <2>1. Publish(s, key, ref, p) = a BY <1>4, Zenon DEF Publish, moved
  <2> HIDE DEF a
  <2>2. ASSUME NEW id \in DOMAIN s.segments
        PROVE  a.segments[id].live
                   = (s.segments[id].live - (IF p # NoRef /\ p.segment = id THEN 1 ELSE 0))
                     + (IF ref # NoRef /\ ref.segment = id THEN 1 ELSE 0)
    BY <1>3, <1>4
  <2>3. Moves(s, a, key, ref) BY <1>2, <1>3, <2>2, Zenon DEF Moves
  <2>4. 0 = IF s.index[key] = NoRef THEN 0 ELSE s.index[key].segment BY <1>4, Zenon
  <2>5. Sound(a, [l EXCEPT ![key] = x], late, 0) BY <2>3, <2>4, MoveSound, Zenon
  <2> QED BY <2>1, <2>5, Zenon
<1>5. CASE p # NoRef
  <2>1. Publish(s, key, ref, p) = MaybeRetire(d, p.segment) BY <1>5, Zenon DEF Publish, moved
  <2> HIDE DEF a
  <2>2. /\ Shape(d) /\ d.owned = s.owned /\ d.active = s.active /\ d.next = s.next
        /\ d.seq = s.seq /\ d.index = [s.index EXCEPT ![key] = ref]
        /\ DOMAIN d.segments = DOMAIN s.segments
    BY <1>2, MarkDeadFields
  <2>3. ASSUME NEW id \in DOMAIN s.segments
        PROVE  /\ DOMAIN d.segments[id] = DOMAIN s.segments[id]
               /\ d.segments[id].state = s.segments[id].state
               /\ d.segments[id].records = s.segments[id].records
               /\ d.segments[id].live
                   = (s.segments[id].live - (IF p # NoRef /\ p.segment = id THEN 1 ELSE 0))
                     + (IF ref # NoRef /\ ref.segment = id THEN 1 ELSE 0)
    <3>1. CASE p.segment = id
      <4>1. /\ DOMAIN d.segments[id] = DOMAIN a.segments[id]
            /\ d.segments[id].state = a.segments[id].state
            /\ d.segments[id].records = a.segments[id].records
            /\ d.segments[id].live = a.segments[id].live - 1
        BY <1>2, <1>3, <3>1, MarkDeadFields
      <4> HIDE DEF d, p
      <4> QED BY <1>3, <1>5, <3>1, <4>1
    <3>2. CASE p.segment # id
      <4>1. d.segments[id] = a.segments[id] BY <1>2, <3>2, MarkDeadFields
      <4> HIDE DEF d, p
      <4> QED BY <1>3, <1>5, <3>2, <4>1
    <3> QED BY <3>1, <3>2, Zenon
  <2> HIDE DEF d
  <2>7. Moves(s, d, key, ref) BY <2>2, <2>3, Zenon DEF Moves
  <2>8. p.segment = IF s.index[key] = NoRef THEN 0 ELSE s.index[key].segment BY <1>5, Zenon
  <2>4. Sound(d, [l EXCEPT ![key] = x], late, p.segment) BY <2>7, <2>8, MoveSound, Zenon
  <2>5. p.segment \in DOMAIN d.segments BY <1>5, <2>2, EntryInside, Zenon
  <2>6. Sound(MaybeRetire(d, p.segment), [l EXCEPT ![key] = x], late, 0)
    BY <2>4, <2>5, RetireSound, Zenon
  <2> QED BY <2>1, <2>6, Zenon
<1> QED BY <1>4, <1>5, Zenon

----------------------------------------------------------------------------
(* Mutations. *)

\* A sequence is taken, by a refused mutation too.
LEMMA SequenceSound ==
    ASSUME NEW s, NEW l, NEW late, Sound(s, l, late, 0), NEW r, r = [s EXCEPT !.seq = @ + 1]
    PROVE  /\ Sound(r, l, late, 0) /\ r.index = s.index /\ r.segments = s.segments
           /\ r.active = s.active /\ r.next = s.next
<1>1. Shape(s) BY Zenon DEF Sound
<1>2. /\ Shape(r) /\ r.owned = s.owned /\ r.active = s.active /\ r.next = s.next
      /\ r.seq = s.seq + 1 /\ r.index = s.index /\ r.segments = s.segments
  BY <1>1, Zenon DEF Shape
<1>3. r.seq \in Nat BY <1>2 DEF Sound
<1> QED BY <1>2, <1>3, Zenon DEF Sound

\* append_record.
LEMMA AppendRecordSound ==
    ASSUME NEW s, NEW l, NEW late, Sound(s, l, late, 0), CanAppend(s), NEW record \in Recs,
           NEW r, r = AppendRecord(s, record),
           NEW last, last = LastRef(r, r.active)
    PROVE  /\ Sound(r, l, late, 0) /\ r.index = s.index
           /\ Stored(r, last, record)
<1> DEFINE p == Prepared(s)
<1>1. r = AppendTo(p, p.active, record) BY Zenon DEF AppendRecord
<1>2. Sound(p, l, late, 0) /\ p.index = s.index BY PreparedSound, Zenon
<1> HIDE DEF p
<1>3. Sound(r, l, late, 0) /\ r.index = p.index /\ Stored(r, last, record)
  BY <1>1, <1>2, AppendSound
<1> QED BY <1>2, <1>3, Zenon

\* put: what was acknowledged is what the entry resolves to.
LEMMA PutSound ==
    ASSUME NEW s, NEW l, NEW late, Sound(s, l, late, 0), DOMAIN l = Keys, CanAppend(s),
           NEW key \in Keys, NEW ttl \in BOOLEAN
    PROVE  Sound(PutRecord(s, key, ttl), [l EXCEPT ![key] = [seq |-> s.seq, ttl |-> ttl]], late, 0)
<1> DEFINE rec == Record("put", key, s.seq, ttl)
           q == [s EXCEPT !.seq = @ + 1]
           r == AppendRecord(q, rec)
           last == LastRef(r, r.active)
           x == [seq |-> s.seq, ttl |-> ttl]
<1>1. rec \in Recs /\ rec.seq = x.seq /\ rec.ttl = x.ttl
  <2>1. s.seq \in Nat BY Zenon DEF Sound
  <2> QED BY <2>1, Zenon DEF Recs, Record
<1>2. PutRecord(s, key, ttl) = Publish(r, key, last, s.index[key]) BY Zenon DEF PutRecord
<1> HIDE DEF rec
<1>6. /\ Sound(q, l, late, 0) /\ q.index = s.index /\ q.segments = s.segments
      /\ q.active = s.active /\ q.next = s.next
  BY SequenceSound, Zenon
<1> HIDE DEF q
<1>7. CanAppend(q) BY <1>6, Zenon DEF CanAppend
<1>3. Sound(r, l, late, 0) /\ r.index = s.index /\ Stored(r, last, rec)
  BY <1>1, <1>6, <1>7, AppendRecordSound
<1> HIDE DEF r, last, x
<1>4. EntryOK(r.segments, last, x, late) BY <1>1, <1>3, Zenon DEF EntryOK, Stored
<1>8. last # NoRef BY <1>3, Zenon DEF Stored
<1>5. Sound(Publish(r, key, last, r.index[key]), [l EXCEPT ![key] = x], late, 0)
  BY <1>3, <1>4, <1>8, PublishSound, Zenon
<1> QED BY <1>2, <1>3, <1>5, Zenon DEF x

\* erase: the entry goes.
LEMMA EraseSound ==
    ASSUME NEW s, NEW l, NEW late, Sound(s, l, late, 0), DOMAIN l = Keys, CanAppend(s),
           NEW key \in Keys, s.index[key] # NoRef
    PROVE  Sound(EraseRecord(s, key), [l EXCEPT ![key] = Nothing], late, 0)
<1> DEFINE rec == Record("erase", key, s.seq, FALSE)
           q == [s EXCEPT !.seq = @ + 1]
           r == AppendRecord(q, rec)
           moved == [r EXCEPT !.index[key] = NoRef]
           p == s.index[key]
           d == MarkDead(moved, p)
<1>1. rec \in Recs
  <2>1. s.seq \in Nat BY Zenon DEF Sound
  <2> QED BY <2>1, Zenon DEF Recs, Record
<1>2. EraseRecord(s, key) = MaybeRetire(d, p.segment) BY Zenon DEF EraseRecord
<1> HIDE DEF rec
<1>13. /\ Sound(q, l, late, 0) /\ q.index = s.index /\ q.segments = s.segments
       /\ q.active = s.active /\ q.next = s.next
  BY SequenceSound, Zenon
<1> HIDE DEF q
<1>14. CanAppend(q) BY <1>13, Zenon DEF CanAppend
<1>3. Sound(r, l, late, 0) /\ r.index = s.index BY <1>1, <1>13, <1>14, AppendRecordSound
<1> HIDE DEF r
<1>4. /\ Shape(moved) /\ moved.owned = r.owned /\ moved.active = r.active
      /\ moved.next = r.next /\ moved.seq = r.seq /\ moved.segments = r.segments
      /\ moved.index = [r.index EXCEPT ![key] = NoRef]
  BY <1>3, Zenon DEF Sound, Shape
<1> HIDE DEF moved
<1>5. /\ Shape(d) /\ d.owned = r.owned /\ d.active = r.active /\ d.next = r.next
      /\ d.seq = r.seq /\ d.index = [r.index EXCEPT ![key] = NoRef]
      /\ DOMAIN d.segments = DOMAIN r.segments
  BY <1>4, MarkDeadFields
<1>6. ASSUME NEW id \in DOMAIN r.segments
      PROVE  /\ DOMAIN d.segments[id] = DOMAIN r.segments[id]
             /\ d.segments[id].state = r.segments[id].state
             /\ d.segments[id].records = r.segments[id].records
             /\ d.segments[id].live
                   = (r.segments[id].live
                      - (IF r.index[key] # NoRef /\ r.index[key].segment = id THEN 1 ELSE 0))
                     + (IF NoRef # NoRef /\ NoRef.segment = id THEN 1 ELSE 0)
  <2>1. DOMAIN r.segments[id] = {"state", "records", "live"} BY <1>3, Zenon DEF Sound, SegmentOK
  <2>2. r.segments[id].live = Cardinality(Into(r.index, id)) BY <1>3, Zenon DEF Sound, CountOK
  <2>3. r.segments[id].live \in Nat
    BY <2>2, KeysAssumption, FS_Subset, FS_CardinalityType, Zenon DEF Into
  <2>4. (IF NoRef # NoRef /\ NoRef.segment = id THEN 1 ELSE 0) = 0 BY Zenon
  <2>5. CASE p.segment = id
    <3>1. /\ DOMAIN d.segments[id] = DOMAIN r.segments[id]
          /\ d.segments[id].state = r.segments[id].state
          /\ d.segments[id].records = r.segments[id].records
          /\ d.segments[id].live = r.segments[id].live - 1
      BY <1>4, <2>1, <2>5, MarkDeadFields
    <3>2. (IF r.index[key] # NoRef /\ r.index[key].segment = id THEN 1 ELSE 0) = 1
      BY <1>3, <2>5, Zenon
    <3> HIDE DEF d, p
    <3> QED BY <2>3, <2>4, <3>1, <3>2
  <2>6. CASE p.segment # id
    <3>1. d.segments[id] = r.segments[id] BY <1>4, <2>6, MarkDeadFields
    <3>2. (IF r.index[key] # NoRef /\ r.index[key].segment = id THEN 1 ELSE 0) = 0
      BY <1>3, <2>6, Zenon
    <3> HIDE DEF d, p
    <3> QED BY <2>3, <2>4, <3>1, <3>2
  <2> QED BY <2>5, <2>6, Zenon
<1> HIDE DEF d
<1>7. Moves(r, d, key, NoRef) BY <1>5, <1>6, Zenon DEF Moves
<1>8. EntryOK(r.segments, NoRef, Nothing, late) BY Zenon DEF EntryOK
<1>9. p.segment = IF r.index[key] = NoRef THEN 0 ELSE r.index[key].segment BY <1>3, Zenon
<1>10. Sound(d, [l EXCEPT ![key] = Nothing], late, p.segment)
  BY <1>3, <1>7, <1>8, <1>9, MoveSound, Zenon
<1>11. p.segment \in DOMAIN d.segments BY <1>3, <1>5, EntryInside, Zenon
<1>12. Sound(MaybeRetire(d, p.segment), [l EXCEPT ![key] = Nothing], late, 0)
  BY <1>10, <1>11, RetireSound, Zenon
<1> QED BY <1>2, <1>12, Zenon

----------------------------------------------------------------------------
(* The vacuum: numbering the copies. *)

\* A bijection from 1 .. n enumerates a finite set without repetition.
LEMMA Enumeration ==
    ASSUME NEW S, IsFiniteSet(S),
           NEW q, q = CHOOSE f \in Bijection(1 .. Cardinality(S), S) : TRUE
    PROVE  /\ Len(q) = Cardinality(S) /\ Len(q) \in Nat /\ q \in [1 .. Len(q) -> S]
           /\ \A i, j \in 1 .. Len(q) : q[i] = q[j] => i = j
           /\ \A x \in S : \E i \in 1 .. Len(q) : q[i] = x
           /\ Range(q) = S
<1> DEFINE n == Cardinality(S)
<1>1. n \in Nat /\ ExistsBijection(1 .. n, S) BY FS_CardinalityType, Zenon
<1>2. q \in Bijection(1 .. n, S) BY <1>1, Zenon DEF ExistsBijection
<1>3. q \in [1 .. n -> S] /\ IsInjective(q) BY <1>2, Zenon DEF Bijection, Injection
<1>5. q \in Surjection(1 .. n, S) BY <1>2, Zenon DEF Bijection
<1>6. Len(q) = n BY <1>1, <1>3
<1>7. \A i, j \in 1 .. Len(q) : q[i] = q[j] => i = j BY <1>3, <1>6, Zenon DEF IsInjective
<1>8. \A x \in S : \E i \in 1 .. Len(q) : q[i] = x BY <1>5, <1>6, Zenon DEF Surjection
<1>9. Range(q) = S BY <1>3, <1>6, <1>8, Zenon DEF Range
<1> QED BY <1>1, <1>3, <1>6, <1>7, <1>8, <1>9, Zenon

\* Dividing the copies among Segments of r Records.
LEMMA DivMod ==
    ASSUME NEW r \in Nat \ {0}, NEW i \in Nat
    PROVE  /\ i \div r \in Nat /\ i % r \in 0 .. r - 1 /\ i = (i \div r) * r + (i % r)
OBVIOUS

\* Quotient and remainder determine each other.
LEMMA Unique ==
    ASSUME NEW r \in Nat \ {0}, NEW a \in Nat, NEW x \in 0 .. r - 1, NEW b \in Nat, NEW y \in 0 .. r - 1,
           a * r + x = b * r + y
    PROVE  a = b
<1>1. CASE a < b
  <2>1. b * r >= (a + 1) * r BY <1>1
  <2> QED BY <2>1
<1>2. CASE a > b
  <2>1. a * r >= (b + 1) * r BY <1>2
  <2> QED BY <2>1
<1> QED BY <1>1, <1>2

\* The number of output Segments: none is empty and every copy has one.
LEMMA Ceiling ==
    ASSUME NEW r \in Nat \ {0}, NEW n \in Nat, NEW o, o = (n + r - 1) \div r
    PROVE  /\ o \in Nat
           /\ \A j \in 0 .. o - 1 : j * r < n
           /\ \A i \in 0 .. n - 1 : i \div r \in 0 .. o - 1
<1>1. n + r - 1 \in Nat OBVIOUS
<1>2. o \in Nat /\ (n + r - 1) % r \in 0 .. r - 1 /\ n + r - 1 = o * r + ((n + r - 1) % r)
  BY <1>1, DivMod, Zenon
<1>3. o * r \in Nat /\ o * r <= n + r - 1 /\ n <= o * r BY <1>2
<1>4. ASSUME NEW j \in 0 .. o - 1 PROVE j * r < n
  <2>1. (o - 1 - j) * r >= 0 BY <1>2
  <2>2. (o - 1 - j) * r = o * r - r - j * r BY <1>2
  <2> QED BY <1>2, <1>3, <2>1, <2>2
<1>5. ASSUME NEW i \in 0 .. n - 1 PROVE i \div r \in 0 .. o - 1
  <2>0. i \in Nat OBVIOUS
  <2>1. i \div r \in Nat /\ i % r \in 0 .. r - 1 /\ i = (i \div r) * r + (i % r)
    BY <2>0, DivMod, Zenon
  <2> DEFINE d == i \div r
  <2>2. d \in Nat /\ d * r <= i BY <2>1
  <2> HIDE DEF d
  <2>3. CASE d >= o
    <3>1. d * r >= o * r BY <1>2, <2>2, <2>3
    <3> QED BY <1>2, <1>3, <2>2, <3>1
  <2> QED BY <1>2, <2>2, <2>3 DEF d
<1> QED BY <1>2, <1>4, <1>5, Zenon

\* The smaller of two numbers.
LEMMA MinOfTwo ==
    ASSUME NEW a \in Int, NEW b \in Int
    PROVE  Min({a, b}) = IF a <= b THEN a ELSE b
<1> DEFINE m == IF a <= b THEN a ELSE b
<1>1. m \in {a, b} /\ \A y \in {a, b} : m <= y OBVIOUS
<1>2. \A x \in {a, b} : (\A y \in {a, b} : x <= y) => x = m OBVIOUS
<1> HIDE DEF m
<1> QED BY <1>1, <1>2, Zenon DEF Min, m

\* The copies of output Segment j: numbers j * r + 1 to Upto(j, r, n).
Upto(j, r, n) == Min({j * r + r, n})

\* The copies of one output Segment, by number and by place.
LEMMA Slice ==
    ASSUME NEW r \in Nat \ {0}, NEW n \in Nat, NEW j \in Nat, j * r < n
    PROVE  /\ j * r \in Nat /\ Upto(j, r, n) \in Nat
           /\ j * r < Upto(j, r, n) /\ Upto(j, r, n) <= n
           /\ \A i \in 1 .. n : (i - 1) \div r = j <=> i \in j * r + 1 .. Upto(j, r, n)
           /\ \A i \in 1 .. n : (i - 1) \div r = j =>
                 /\ ((i - 1) % r) + 1 \in 1 .. Upto(j, r, n) - j * r
                 /\ j * r + (((i - 1) % r) + 1) = i
<1> DEFINE f == j * r
           z == Upto(j, r, n)
<1>1. f \in Nat OBVIOUS
<1>2. z = IF f + r <= n THEN f + r ELSE n BY <1>1, MinOfTwo DEF Upto
<1>3. z \in Nat /\ f < z /\ z <= n BY <1>1, <1>2
<1>4. ASSUME NEW i \in 1 .. n
      PROVE  /\ (i - 1) \div r = j <=> i \in f + 1 .. z
             /\ (i - 1) \div r = j => ((i - 1) % r) + 1 \in 1 .. z - f /\ f + (((i - 1) % r) + 1) = i
  <2> DEFINE d == (i - 1) \div r
             m == (i - 1) % r
  <2>1. i - 1 \in Nat OBVIOUS
  <2>2. d \in Nat /\ m \in 0 .. r - 1 /\ i - 1 = d * r + m BY <2>1, DivMod, Zenon
  <2> HIDE DEF d, m, z
  <2>3. ASSUME d = j PROVE i \in f + 1 .. z /\ m + 1 \in 1 .. z - f /\ f + (m + 1) = i
    <3>1. i = f + m + 1 BY <2>2, <2>3
    <3> HIDE DEF f
    <3> QED BY <1>1, <1>2, <2>2, <3>1
  <2>4. ASSUME i \in f + 1 .. z PROVE d = j
    <3>1. i - 1 - f \in 0 .. r - 1 BY <1>1, <1>2, <2>4
    <3>2. d * r + m = j * r + (i - 1 - f) BY <2>2
    <3> QED BY <2>2, <3>1, <3>2, Unique, Zenon
  <2> QED BY <2>3, <2>4, Zenon DEF d, m
<1> QED BY <1>1, <1>3, <1>4, Zenon

\* Element i of n is the m-th of slice j, and so the element j * r + m.
InSlice(i, j, m, r, n) ==
    /\ r \in Nat \ {0} /\ n \in Nat /\ j \in Nat /\ j * r < n /\ i \in 1 .. n
    /\ (i - 1) \div r = j /\ m = ((i - 1) % r) + 1

LEMMA SlicePlace ==
    ASSUME NEW i, NEW j, NEW m, NEW r, NEW n, InSlice(i, j, m, r, n)
    PROVE  m \in 1 .. Upto(j, r, n) - j * r /\ j * r + m = i
<1>1. r \in Nat \ {0} /\ n \in Nat /\ j \in Nat /\ j * r < n /\ i \in 1 .. n
  BY Zenon DEF InSlice
<1>2. (i - 1) \div r = j /\ m = ((i - 1) % r) + 1 BY Zenon DEF InSlice
<1>3. \A x \in 1 .. n : (x - 1) \div r = j =>
         /\ ((x - 1) % r) + 1 \in 1 .. Upto(j, r, n) - j * r
         /\ j * r + (((x - 1) % r) + 1) = x
  BY <1>1, Slice, Zenon
<1> QED BY <1>1, <1>2, <1>3

\* The copied keys, and the place of each among the copies.
Kept(S) ==
    {k \in Keys : /\ st.index[k] # NoRef /\ st.index[k].segment \in S
                  /\ ~(expired /\ RecordAt(st, st.index[k]).ttl)}
Place(copied, k) == CHOOSE i \in 1 .. Len(copied) : copied[i] = k

\* The copies are the kept keys, each once.
LEMMA CopiedFacts ==
    ASSUME NEW S, NEW q, q = Copied(S)
    PROVE  /\ Len(q) \in Nat /\ q \in [1 .. Len(q) -> Kept(S)] /\ Range(q) = Kept(S)
           /\ \A i, j \in 1 .. Len(q) : q[i] = q[j] => i = j
           /\ \A k \in Kept(S) : Place(q, k) \in 1 .. Len(q) /\ q[Place(q, k)] = k
<1>1. IsFiniteSet(Kept(S)) BY KeysAssumption, FS_Subset, Zenon DEF Kept
<1>2. q = CHOOSE f \in Bijection(1 .. Cardinality(Kept(S)), Kept(S)) : TRUE
  BY Zenon DEF Copied, Kept
<1>3. /\ Len(q) \in Nat /\ q \in [1 .. Len(q) -> Kept(S)]
      /\ \A i, j \in 1 .. Len(q) : q[i] = q[j] => i = j
      /\ \A x \in Kept(S) : \E i \in 1 .. Len(q) : q[i] = x
      /\ Range(q) = Kept(S)
  BY <1>1, <1>2, Enumeration, Zenon
<1>4. \A k \in Kept(S) : Place(q, k) \in 1 .. Len(q) /\ q[Place(q, k)] = k BY <1>3, Zenon DEF Place
<1> QED BY <1>3, <1>4, Zenon

\* I are the elements a + 1 to z of a sequence q of n different ones.
Stretch(n, K, q, a, z, I) ==
    /\ n \in Nat /\ q \in [1 .. n -> K] /\ \A i, j \in 1 .. n : q[i] = q[j] => i = j
    /\ a \in Nat /\ z \in Nat /\ a < z /\ z <= n
    /\ I = {q[i] : i \in a + 1 .. z}

\* Such a stretch has z - a elements.
LEMMA CopyCount ==
    ASSUME NEW n, NEW K, NEW q, NEW a, NEW z, NEW I, Stretch(n, K, q, a, z, I)
    PROVE  Cardinality(I) = z - a
<1> USE DEF Stretch
<1> DEFINE f == [i \in a + 1 .. z |-> q[i]]
<1>1. a + 1 .. z \subseteq 1 .. n OBVIOUS
<1>2. f \in Bijection(a + 1 .. z, I)
  BY <1>1, Zenon DEF Bijection, Injection, Surjection, IsInjective
<1>3. ExistsBijection(a + 1 .. z, I) BY <1>2, Zenon DEF ExistsBijection
<1>4. IsFiniteSet(a + 1 .. z) /\ Cardinality(a + 1 .. z) = z - a BY FS_Interval
<1> QED BY <1>3, <1>4, FS_Bijection, Zenon

\* A function on 1 .. n is a sequence.
LEMMA Counted ==
    ASSUME NEW n \in Nat, NEW T, NEW w \in [1 .. n -> T]
    PROVE  w \in Seq(T) /\ Len(w) = n
OBVIOUS

\* One output Segment.
LEMMA CopySegment ==
    ASSUME NEW S, Sound(st, latest, expired, 0), NEW q, q = Copied(S),
           NEW id \in st.next .. st.next + Outputs(q) - 1,
           NEW j, j = id - st.next, NEW g, g = CopySegments(q)[id]
    PROVE  /\ j \in Nat /\ j * SegmentRecords < Len(q)
           /\ DOMAIN g = {"state", "records", "live"} /\ g.state = "sealed"
           /\ g.live = Upto(j, SegmentRecords, Len(q)) - j * SegmentRecords
           /\ g.records \in Seq(Recs) /\ Len(g.records) = g.live
           /\ \A m \in 1 .. g.live : g.records[m] = RecordAt(st, st.index[q[j * SegmentRecords + m]])
<1> DEFINE n == Len(q)
           R == SegmentRecords
           a == j * R
           z == Upto(j, R, n)
<1>1. /\ n \in Nat /\ q \in [1 .. n -> Kept(S)] BY CopiedFacts, Zenon
<1>2. R \in Nat \ {0} BY VolatileAssumption, Zenon
<1>3. st.next \in Nat BY Zenon DEF Sound
<1>4. /\ Outputs(q) \in Nat /\ \A i \in 0 .. Outputs(q) - 1 : i * R < n
  BY <1>1, <1>2, Ceiling, Zenon DEF Outputs
<1>5. j \in Nat /\ a < n BY <1>3, <1>4
<1> HIDE DEF n, R
<1>6. a \in Nat /\ z \in Nat /\ a < z /\ z <= n BY <1>1, <1>2, <1>5, Slice, Zenon
<1>7. g = [state |-> "sealed", live |-> z - a,
           records |-> [m \in 1 .. z - a |-> RecordAt(st, st.index[q[a + m]])]]
  BY Zenon DEF CopySegments, Upto, n, R
<1> HIDE DEF n, R, a, z
<1>8. ASSUME NEW m \in 1 .. z - a PROVE RecordAt(st, st.index[q[a + m]]) \in Recs
  <2>1. a + m \in 1 .. n BY <1>1, <1>6
  <2>2. q[a + m] \in Kept(S) BY <1>1, <2>1, Zenon
  <2> DEFINE k == q[a + m]
  <2>3. k \in Keys /\ st.index[k] # NoRef BY <2>2, Zenon DEF Kept
  <2> HIDE DEF k
  <2>4. /\ st.index[k].segment \in DOMAIN st.segments
        /\ st.index[k].offset \in 1 .. Len(st.segments[st.index[k].segment].records)
    BY <2>3, EntryInside, Zenon
  <2>5. st.segments[st.index[k].segment].records \in Seq(Recs) BY <2>4, Zenon DEF Sound, SegmentOK
  <2>6. RecordAt(st, st.index[k]) \in Recs BY <2>4, <2>5 DEF RecordAt
  <2> QED BY <2>6, Zenon DEF k
<1> DEFINE w == [m \in 1 .. z - a |-> RecordAt(st, st.index[q[a + m]])]
<1>9. w \in Seq(Recs) /\ Len(w) = z - a
  <2>1. w \in [1 .. z - a -> Recs] BY <1>8, Zenon
  <2>2. z - a \in Nat BY <1>6
  <2> HIDE DEF w
  <2> QED BY <2>1, <2>2, Counted, Zenon
<1>10. \A m \in 1 .. z - a : w[m] = RecordAt(st, st.index[q[a + m]]) BY Zenon
<1>11. /\ DOMAIN g = {"state", "records", "live"} /\ g.state = "sealed"
       /\ g.live = z - a /\ g.records = w
  BY <1>7
<1> HIDE DEF w
<1> QED BY <1>5, <1>9, <1>10, <1>11, Zenon DEF n, R, a, z

\* Where the new Index sends each key.
LEMMA CopyEntry ==
    ASSUME NEW S, Sound(st, latest, expired, 0), NEW q, q = Copied(S), NEW k \in Keys,
           NEW ref, ref = CopyIndex(S, q)[k]
    PROVE  /\ st.index[k] = NoRef => ref = NoRef
           /\ st.index[k] # NoRef /\ st.index[k].segment \notin S => ref = st.index[k]
           /\ st.index[k] # NoRef /\ st.index[k].segment \in S /\ k \notin Kept(S) => ref = NoRef
           /\ k \in Kept(S) =>
                /\ ref # NoRef /\ ref.segment \in st.next .. st.next + Outputs(q) - 1
                /\ ref.segment = st.next + (Place(q, k) - 1) \div SegmentRecords
                /\ ref.offset = ((Place(q, k) - 1) % SegmentRecords) + 1
<1>1. /\ Len(q) \in Nat /\ Range(q) = Kept(S)
      /\ k \in Kept(S) => Place(q, k) \in 1 .. Len(q)
  BY CopiedFacts, Zenon
<1>2. ref = IF st.index[k] = NoRef \/ (st.index[k].segment \in S /\ k \notin Kept(S)) THEN NoRef
            ELSE IF st.index[k].segment \notin S THEN st.index[k]
            ELSE CopyRef(q, Place(q, k))
  BY <1>1 DEF CopyIndex, Place
<1>3. k \in Kept(S) => st.index[k] # NoRef /\ st.index[k].segment \in S BY Zenon DEF Kept
<1>4. ASSUME k \in Kept(S)
      PROVE  /\ ref # NoRef /\ ref.segment \in st.next .. st.next + Outputs(q) - 1
             /\ ref.segment = st.next + (Place(q, k) - 1) \div SegmentRecords
             /\ ref.offset = ((Place(q, k) - 1) % SegmentRecords) + 1
  <2> DEFINE i == Place(q, k) - 1
             d == i \div SegmentRecords
             m == i % SegmentRecords
  <2>1. i \in 0 .. Len(q) - 1 /\ i \in Nat BY <1>1, <1>4
  <2> HIDE DEF i
  <2>2. SegmentRecords \in Nat \ {0} BY VolatileAssumption, Zenon
  <2>9. d \in Nat /\ m \in 0 .. SegmentRecords - 1 BY <2>1, <2>2, DivMod, Zenon
  <2>3. d \in Nat /\ m \in Nat BY <2>2, <2>9
  <2>4. Outputs(q) \in Nat /\ d \in 0 .. Outputs(q) - 1
    BY <1>1, <2>1, <2>2, Ceiling, Zenon DEF Outputs
  <2>5. st.next \in Nat BY Zenon DEF Sound
  <2>6. ref = Ref(st.next + d, m + 1) BY <1>2, <1>3, <1>4, Zenon DEF CopyRef, i
  <2> HIDE DEF d, m
  <2>7. ref.segment = st.next + d /\ ref.offset = m + 1 /\ ref # NoRef
    BY <2>3, <2>5, <2>6, KeysAssumption DEF Ref
  <2>8. st.next + d \in st.next .. st.next + Outputs(q) - 1 BY <2>3, <2>4, <2>5
  <2> QED BY <2>7, <2>8, Zenon DEF d, m, i
<1> QED BY <1>2, <1>3, <1>4, Zenon

\* What replace_segments leaves, field by field.
LEMMA InstallFields ==
    ASSUME NEW t, Shape(t), NEW v, NEW p, p = Installed(t, v),
           DOMAIN t.segments \cap DOMAIN v.segments = {}
    PROVE  /\ Shape(p) /\ p.seq = t.seq /\ p.next = t.next /\ p.active = t.active
           /\ p.index = v.index /\ p.owned = (t.owned \ v.sources) \cup DOMAIN v.segments
           /\ DOMAIN p.segments = (DOMAIN t.segments \ v.sources) \cup DOMAIN v.segments
           /\ \A d \in DOMAIN t.segments \ v.sources : p.segments[d] = t.segments[d]
           /\ \A d \in DOMAIN v.segments : p.segments[d] = v.segments[d]
<1> DEFINE old == Restrict(t.segments, DOMAIN t.segments \ v.sources)
<1>1. /\ Shape(p) /\ p.seq = t.seq /\ p.next = t.next /\ p.active = t.active
      /\ p.index = v.index /\ p.owned = (t.owned \ v.sources) \cup DOMAIN v.segments
      /\ p.segments = Joined(old, v.segments)
  BY Zenon DEF Shape, Installed
<1>2. DOMAIN old = DOMAIN t.segments \ v.sources /\ \A d \in DOMAIN old : old[d] = t.segments[d]
  BY Zenon DEF Restrict
<1> HIDE DEF old
<1> DEFINE new == v.segments
<1> HIDE DEF new
<1>3. p.segments = Joined(old, new) BY <1>1, Zenon DEF new
<1>5. DOMAIN old \cap DOMAIN new = {} BY <1>2, Zenon DEF new
<1>4. /\ DOMAIN p.segments = DOMAIN old \cup DOMAIN new
      /\ \A d \in DOMAIN old : p.segments[d] = old[d]
      /\ \A d \in DOMAIN new : p.segments[d] = new[d]
  BY <1>3, <1>5, Zenon DEF Joined
<1> QED BY <1>1, <1>2, <1>4, Zenon DEF new

\* What the builder made replaces the sources of a sound Worker by a sound one.
LEMMA BuildSound ==
    ASSUME Sound(st, latest, expired, 0), NEW S \in SUBSET Sparse, NEW q, q = Copied(S),
           st.next + Outputs(q) <= LastSegment,
           NEW t, Shape(t), t.segments = st.segments, t.owned = st.owned, t.active = st.active,
           t.seq = st.seq, t.index = st.index, t.next = st.next + Outputs(q),
           NEW v, v.sources = S, v.segments = CopySegments(q), v.index = CopyIndex(S, q)
    PROVE  Sound(Installed(t, v), latest, expired, 0)
<1> DEFINE p == Installed(t, v)
           b == st.next
           o == Outputs(q)
           R == SegmentRecords
           n == Len(q)
<1>1. b \in Nat /\ DOMAIN st.segments \subseteq 1 .. b - 1 BY Zenon DEF Sound
<1>2. R \in Nat \ {0} BY VolatileAssumption, Zenon
<1>3. /\ n \in Nat /\ q \in [1 .. n -> Kept(S)] /\ Range(q) = Kept(S)
      /\ \A i, j \in 1 .. n : q[i] = q[j] => i = j
      /\ \A k \in Kept(S) : Place(q, k) \in 1 .. n /\ q[Place(q, k)] = k
  BY CopiedFacts
<1>4. o \in Nat /\ \A j \in 0 .. o - 1 : j * R < n BY <1>2, <1>3, Ceiling, Zenon DEF Outputs
<1>5. DOMAIN v.segments = b .. b + o - 1 BY Zenon DEF CopySegments
<1>6. DOMAIN t.segments \cap DOMAIN v.segments = {} BY <1>1, <1>5
<1>7. /\ Shape(p) /\ p.seq = st.seq /\ p.next = b + o /\ p.active = st.active
      /\ p.index = CopyIndex(S, q) /\ p.owned = (st.owned \ S) \cup DOMAIN v.segments
      /\ DOMAIN p.segments = (DOMAIN st.segments \ S) \cup DOMAIN v.segments
      /\ \A d \in DOMAIN st.segments \ S : p.segments[d] = st.segments[d]
      /\ \A d \in DOMAIN v.segments : p.segments[d] = v.segments[d]
  BY <1>6, InstallFields
<1> HIDE DEF p
<1>8. S \subseteq DOMAIN st.segments /\ \A d \in S : st.segments[d].state = "sealed"
  BY Zenon DEF Sparse, Sound
<1>9. DOMAIN p.index = Keys BY <1>7, Zenon DEF CopyIndex
<1>10. p.owned = DOMAIN p.segments BY <1>7, Zenon DEF Sound
<1>11. DOMAIN p.segments \subseteq 1 .. p.next - 1 /\ p.next \in Nat /\ p.next <= LastSegment
  <2> HIDE DEF b, o
  <2>1. \A d \in 1 .. b - 1 : d \in 1 .. b + o - 1 BY <1>1, <1>4
  <2>2. b >= 1 BY <1>1 DEF Sound, b
  <2>3. \A d \in b .. b + o - 1 : d \in 1 .. b + o - 1 BY <1>1, <1>4, <2>2
  <2>4. b + o \in Nat /\ b + o <= LastSegment BY <1>1, <1>4 DEF b, o
  <2>5. DOMAIN p.segments \subseteq 1 .. b + o - 1 BY <1>1, <1>5, <1>7, <2>1, <2>3, Zenon
  <2>6. p.next = b + o BY <1>7, Zenon
  <2>7. p.next \in Nat /\ p.next <= LastSegment BY <2>4, <2>6, Zenon
  <2>8. 1 .. p.next - 1 = 1 .. b + o - 1 BY <1>1, <1>4, <2>6
  <2> QED BY <2>5, <2>7, <2>8, Zenon
<1>12. p.active \in DOMAIN p.segments /\ p.segments[p.active].state = "active"
  BY <1>7, <1>8 DEF Sound
<1> DEFINE e(k) == CopyIndex(S, q)[k]
<1>13. ASSUME NEW k \in Keys
       PROVE  /\ st.index[k] = NoRef => e(k) = NoRef
              /\ st.index[k] # NoRef /\ st.index[k].segment \notin S => e(k) = st.index[k]
              /\ st.index[k] # NoRef /\ st.index[k].segment \in S /\ k \notin Kept(S) => e(k) = NoRef
              /\ k \in Kept(S) =>
                   /\ e(k) # NoRef /\ e(k).segment \in b .. b + o - 1
                   /\ e(k).segment = b + (Place(q, k) - 1) \div R
                   /\ e(k).offset = ((Place(q, k) - 1) % R) + 1
  BY CopyEntry
<1>14. \A k \in Keys : p.index[k] = e(k) BY <1>7, Zenon
<1> HIDE DEF e
<1>19. ASSUME NEW d \in b .. b + o - 1
       PROVE  /\ d - b \in Nat /\ (d - b) * R < n
              /\ DOMAIN p.segments[d] = {"state", "records", "live"}
              /\ p.segments[d].state = "sealed"
              /\ p.segments[d].live = Upto(d - b, R, n) - (d - b) * R
              /\ p.segments[d].records \in Seq(Recs)
              /\ Len(p.segments[d].records) = p.segments[d].live
              /\ \A m \in 1 .. p.segments[d].live :
                    p.segments[d].records[m] = RecordAt(st, st.index[q[(d - b) * R + m]])
  <2>1. p.segments[d] = CopySegments(q)[d] BY <1>5, <1>7, Zenon
  <2> QED BY <2>1, CopySegment
<1>15. ASSUME NEW k \in Keys PROVE EntryOK(p.segments, p.index[k], latest[k], expired)
  <2>1. EntryOK(st.segments, st.index[k], latest[k], expired) BY Zenon DEF Sound
  <2>2. p.index[k] = e(k) BY <1>14, Zenon
  <2>3. CASE st.index[k] = NoRef BY <1>13, <2>1, <2>2, <2>3, Zenon DEF EntryOK
  <2>4. CASE st.index[k] # NoRef /\ st.index[k].segment \notin S
    <3>1. st.index[k].segment \in DOMAIN st.segments \ S
      BY <2>1, <2>4, Zenon DEF EntryOK
    <3>2. p.segments[st.index[k].segment] = st.segments[st.index[k].segment] BY <1>7, <3>1, Zenon
    <3>3. st.index[k].segment \in DOMAIN p.segments BY <1>7, <3>1, Zenon
    <3> QED BY <1>13, <2>1, <2>2, <2>4, <3>2, <3>3, Zenon DEF EntryOK
  <2>5. CASE st.index[k] # NoRef /\ st.index[k].segment \in S /\ k \notin Kept(S)
    <3>1. e(k) = NoRef BY <1>13, <2>5, Zenon
    <3>2. expired /\ RecordAt(st, st.index[k]).ttl BY <2>5, Zenon DEF Kept
    <3>3. RecordAt(st, st.index[k]).ttl = latest[k].ttl BY <2>1, <2>5, Zenon DEF EntryOK, RecordAt
    <3> QED BY <2>2, <3>1, <3>2, <3>3, Zenon DEF EntryOK
  <2>6. CASE k \in Kept(S)
    <3> DEFINE i == Place(q, k)
               d == e(k).segment
               j == d - b
               m == e(k).offset
    <3>1. i \in 1 .. n /\ q[i] = k BY <1>3, <2>6, Zenon
    <3>2. e(k) # NoRef /\ d \in b .. b + o - 1 /\ d = b + (i - 1) \div R /\ m = ((i - 1) % R) + 1
      BY <1>13, <2>6, Zenon
    <3> HIDE DEF i, d, m, o, n, R
    <3>11. i - 1 \in Nat BY <1>3, <3>1
    <3>3. (i - 1) \div R \in Nat BY <1>2, <3>11, DivMod, Zenon
    <3>4. (i - 1) \div R = j BY <1>1, <3>2, <3>3
    <3>5. j \in Nat /\ j * R < n BY <1>19, <3>2, Zenon
    <3>6. m \in 1 .. Upto(j, R, n) - j * R /\ j * R + m = i
      <4>1. n \in Nat /\ i \in 1 .. n /\ m = ((i - 1) % R) + 1
        BY <1>3, <3>1, <3>2, Zenon
      <4> HIDE DEF j
      <4>2. InSlice(i, j, m, R, n) BY <1>2, <3>4, <3>5, <4>1, Zenon DEF InSlice
      <4> QED BY <4>2, SlicePlace
    <3>7. /\ p.segments[d].live = Upto(j, R, n) - j * R
          /\ Len(p.segments[d].records) = p.segments[d].live
          /\ \A x \in 1 .. p.segments[d].live :
                p.segments[d].records[x] = RecordAt(st, st.index[q[j * R + x]])
      BY <1>19, <3>2, Zenon
    <3>8. /\ m \in 1 .. Len(p.segments[d].records)
          /\ p.segments[d].records[m] = RecordAt(st, st.index[k])
      BY <3>1, <3>6, <3>7, Zenon
    <3>9. d \in DOMAIN p.segments BY <1>5, <1>7, <3>2, Zenon
    <3>10. st.index[k] # NoRef BY <2>6, Zenon DEF Kept
    <3> QED BY <2>1, <2>2, <3>2, <3>8, <3>9, <3>10, Zenon DEF EntryOK, RecordAt, d, m
  <2> QED BY <2>3, <2>4, <2>5, <2>6, Zenon
<1>16. ASSUME NEW d \in DOMAIN st.segments \ S
       PROVE  SegmentOK(p.segments[d]) /\ CountOK(p.segments, p.index, d, 0)
  <2>1. p.segments[d] = st.segments[d] BY <1>7, Zenon
  <2>2. SegmentOK(st.segments[d]) /\ CountOK(st.segments, st.index, d, 0) BY Zenon DEF Sound
  <2>3. d \notin b .. b + o - 1 BY <1>5, <1>6, Zenon
  <2>4. ASSUME NEW k \in Keys
        PROVE  p.index[k] # NoRef /\ p.index[k].segment = d
                 <=> st.index[k] # NoRef /\ st.index[k].segment = d
    <3>1. p.index[k] = e(k) BY <1>14, Zenon
    <3>2. CASE k \in Kept(S)
      <4>1. st.index[k].segment \in S BY <3>2, Zenon DEF Kept
      <4>2. e(k).segment # d BY <1>13, <2>3, <3>2, Zenon
      <4> QED BY <3>1, <4>1, <4>2, Zenon
    <3>3. CASE k \notin Kept(S) BY <1>13, <3>1, <3>3, Zenon
    <3> QED BY <3>2, <3>3, Zenon
  <2>5. Into(p.index, d) = Into(st.index, d) BY <2>4, Zenon DEF Into
  <2> QED BY <2>1, <2>2, <2>5, Zenon DEF CountOK
<1>17. ASSUME NEW d \in b .. b + o - 1
       PROVE  SegmentOK(p.segments[d]) /\ CountOK(p.segments, p.index, d, 0)
  <2> DEFINE j == d - b
             a == j * R
             z == Upto(j, R, n)
             I == {q[i] : i \in a + 1 .. z}
  <2>1. /\ j \in Nat /\ a < n
        /\ DOMAIN p.segments[d] = {"state", "records", "live"} /\ p.segments[d].state = "sealed"
        /\ p.segments[d].live = z - a /\ p.segments[d].records \in Seq(Recs)
    BY <1>19, Zenon
  <2> HIDE DEF j, R, n, o
  <2>2. /\ a \in Nat /\ z \in Nat /\ a < z /\ z <= n
        /\ \A i \in 1 .. n : (i - 1) \div R = j <=> i \in a + 1 .. z
    BY <1>2, <1>3, <2>1, Slice, Zenon
  <2> HIDE DEF a, z
  <2>3. ASSUME NEW k \in Kept(S) PROVE e(k).segment = d <=> k \in I
    <3> DEFINE x == Place(q, k)
    <3>1. x \in 1 .. n /\ q[x] = k /\ k \in Keys BY <1>3, Zenon DEF Kept
    <3>2. e(k).segment = b + (x - 1) \div R BY <1>13, <3>1, Zenon
    <3> HIDE DEF x
    <3>11. x - 1 \in Nat BY <1>3, <3>1
    <3>3. (x - 1) \div R \in Nat BY <1>2, <3>11, DivMod, Zenon
    <3>4. e(k).segment = d <=> (x - 1) \div R = j BY <1>1, <3>2, <3>3 DEF j
    <3>5. (x - 1) \div R = j <=> x \in a + 1 .. z BY <2>2, <3>1, Zenon
    <3>6. \A i \in a + 1 .. z : i \in 1 .. n BY <1>3, <2>2
    <3>7. x \in a + 1 .. z <=> k \in I BY <1>3, <3>1, <3>6
    <3> QED BY <3>4, <3>5, <3>7, Zenon
  <2>4. I \subseteq Kept(S)
    <3>1. \A i \in a + 1 .. z : i \in 1 .. n BY <1>3, <2>2
    <3> QED BY <1>3, <3>1
  <2>5. ASSUME NEW k \in Keys
        PROVE  p.index[k] # NoRef /\ p.index[k].segment = d <=> k \in I
    <3>1. p.index[k] = e(k) BY <1>14, Zenon
    <3>2. CASE k \in Kept(S) BY <1>13, <2>3, <3>1, <3>2, Zenon
    <3>3. CASE k \notin Kept(S)
      <4>1. d \notin DOMAIN st.segments BY <1>5, <1>6, Zenon
      <4>2. st.index[k] # NoRef => st.index[k].segment \in DOMAIN st.segments BY EntryInside, Zenon
      <4>3. k \notin I BY <2>4, <3>3, Zenon
      <4> QED BY <1>13, <3>1, <3>3, <4>1, <4>2, <4>3, Zenon
    <3> QED BY <3>2, <3>3, Zenon
  <2>6. Into(p.index, d) = I BY <2>4, <2>5, Zenon DEF Into, Kept
  <2>9. I = {q[i] : i \in a + 1 .. z} BY Zenon
  <2> HIDE DEF I
  <2>7. Cardinality(I) = z - a
    <3>1. n \in Nat /\ q \in [1 .. n -> Kept(S)] BY <1>3, Zenon
    <3>2. \A x, y \in 1 .. n : q[x] = q[y] => x = y BY <1>3, Zenon
    <3>3. a \in Nat /\ z \in Nat /\ a < z /\ z <= n BY <2>2, Zenon
    <3>4. Stretch(n, Kept(S), q, a, z, I) BY <2>9, <3>1, <3>2, <3>3, Zenon DEF Stretch
    <3> QED BY <3>4, CopyCount
  <2>8. SegmentOK(p.segments[d]) BY <2>1, Zenon DEF SegmentOK
  <2> QED BY <2>1, <2>2, <2>6, <2>7, <2>8 DEF CountOK
<1>18. p.seq \in Nat BY <1>7, Zenon DEF Sound
<1>20. \A d \in DOMAIN p.segments : SegmentOK(p.segments[d]) /\ CountOK(p.segments, p.index, d, 0)
  BY <1>5, <1>7, <1>16, <1>17, Zenon
<1>21. \A k \in Keys : EntryOK(p.segments, p.index[k], latest[k], expired) BY <1>15, Zenon
<1>22. Shape(p) BY <1>7, Zenon
<1>23. Sound(p, latest, expired, 0)
  BY <1>9, <1>10, <1>11, <1>12, <1>18, <1>20, <1>21, <1>22, Zenon DEF Sound
<1> QED BY <1>23, Zenon DEF p

----------------------------------------------------------------------------
(* Every step. *)

Critical == {"plan", "install", "verify", "release"}

\* The inductive invariant of the Worker: it is sound; and so is, between the
\* builder and the manager, what the compaction would install, for no mutation
\* comes between them.
WorkInv ==
    /\ DOMAIN latest = Keys /\ Sound(st, latest, expired, 0)
    /\ \A c \in Controls : pc[c] \in Critical => lock = c
    /\ \A c \in Controls : pc[c] = "install" => Sound(Installed(st, vacuum), latest, expired, 0)

\* A new Worker is sound.
LEMMA InitWork == Init => WorkInv
<1> SUFFICES ASSUME Init PROVE WorkInv BY Zenon
<1>1. DOMAIN latest = Keys /\ \A c \in Controls : pc[c] = "idle" BY Zenon DEF Init
<1>2. st = Fresh /\ \A k \in Keys : latest[k] = Nothing BY Zenon DEF Init
<1>3. Shape(Fresh) BY Zenon DEF Shape, Fresh
<1>4. /\ Fresh.segments = [id \in {1} |-> NewSegment] /\ Fresh.owned = {1} /\ Fresh.active = 1
      /\ Fresh.next = 2 /\ Fresh.seq = 1 /\ Fresh.index = [k \in Keys |-> NoRef]
  BY Zenon DEF Fresh
<1>5. Into(Fresh.index, 1) = {} BY <1>4, Zenon DEF Into
<1>6. DOMAIN Fresh.segments = {1} /\ Fresh.segments[1] = NewSegment BY <1>4, Zenon
<1>7. SegmentOK(NewSegment) /\ NewSegment.live = 0 /\ NewSegment.state = "active"
  <2>1. <<>> \in Seq(Recs) OBVIOUS
  <2> QED BY <2>1, Zenon DEF SegmentOK, NewSegment
<1>8. CountOK(Fresh.segments, Fresh.index, 1, 0) BY <1>5, <1>6, <1>7, FS_EmptySet, Zenon DEF CountOK
<1>9. \A k \in Keys : EntryOK(Fresh.segments, Fresh.index[k], latest[k], expired)
  BY <1>2, <1>4, Zenon DEF EntryOK
<1>10. 2 <= LastSegment BY VolatileAssumption
<1>11. Sound(Fresh, latest, expired, 0)
  BY <1>3, <1>4, <1>6, <1>7, <1>8, <1>9, <1>10 DEF Sound
<1> QED BY <1>1, <1>2, <1>11, Zenon DEF WorkInv, Critical

\* A put or an erase, acknowledged or refused.
LEMMA MutationSound ==
    ASSUME WorkInv, NEW key \in Keys, Mutation(key)
    PROVE  DOMAIN latest' = Keys /\ Sound(st', latest', expired, 0)
<1>1. DOMAIN latest = Keys /\ Sound(st, latest, expired, 0) BY Zenon DEF WorkInv
<1>2. ASSUME st' = [st EXCEPT !.seq = @ + 1], latest' = latest
      PROVE  DOMAIN latest' = Keys /\ Sound(st', latest', expired, 0)
  BY <1>1, <1>2, SequenceSound, Zenon
<1>3. ASSUME NEW ttl \in BOOLEAN, CanAppend(st), st' = PutRecord(st, key, ttl),
             latest' = [latest EXCEPT ![key] = [seq |-> st.seq, ttl |-> ttl]]
      PROVE  DOMAIN latest' = Keys /\ Sound(st', latest', expired, 0)
  <2>1. DOMAIN latest' = Keys BY <1>1, <1>3, Zenon
  <2>2. /\ Sound(PutRecord(st, key, ttl), [latest EXCEPT ![key] = [seq |-> st.seq, ttl |-> ttl]], expired, 0)
    BY <1>1, <1>3, PutSound, Zenon
  <2> QED BY <1>3, <2>1, <2>2, Zenon
<1>4. ASSUME st.index[key] # NoRef, CanAppend(st), st' = EraseRecord(st, key),
             latest' = [latest EXCEPT ![key] = Nothing]
      PROVE  DOMAIN latest' = Keys /\ Sound(st', latest', expired, 0)
  <2>1. DOMAIN latest' = Keys BY <1>1, <1>4, Zenon
  <2>2. Sound(EraseRecord(st, key), [latest EXCEPT ![key] = Nothing], expired, 0)
    BY <1>1, <1>4, EraseSound, Zenon
  <2> QED BY <1>4, <2>1, <2>2, Zenon
<1> QED BY <1>2, <1>3, <1>4, Zenon DEF Mutation

\* Mutations, while no compaction is about to install.
LEMMA MutationWork ==
    ASSUME WorkInv, NEW key \in Keys, Mutation(key), \A c \in Controls : pc[c] # "install",
           UNCHANGED <<expired, lock, pc>>
    PROVE  WorkInv'
BY MutationSound, Zenon DEF WorkInv

\* An expiration hides Records, and drops none.
LEMMA LateSound ==
    ASSUME NEW s, NEW l, NEW late, NEW but, Sound(s, l, late, but)
    PROVE  Sound(s, l, TRUE, but)
<1>1. ASSUME NEW k \in Keys PROVE EntryOK(s.segments, s.index[k], l[k], TRUE)
  <2>1. EntryOK(s.segments, s.index[k], l[k], late) BY Zenon DEF Sound
  <2> QED BY <2>1, Zenon DEF EntryOK
<1> QED BY <1>1, Zenon DEF Sound

\* The planner and the builder.
LEMMA BuildWork ==
    ASSUME WorkInv, NEW c \in Controls, Build(c), pc \in [Controls -> Steps]
    PROVE  WorkInv'
<1>1. DOMAIN latest = Keys /\ Sound(st, latest, expired, 0) BY Zenon DEF WorkInv
<1>2. lock = c /\ \A d \in Controls : d # c => pc[d] \notin Critical
  BY Zenon DEF WorkInv, Build, Critical
<1>3. UNCHANGED <<latest, expired, lock>> BY Zenon DEF Build
<1>4. PICK S \in Candidates : \E copied \in {Copied(S)} :
         /\ st' = [st EXCEPT !.next = Min({@ + Outputs(copied), LastSegment})]
         /\ IF \/ S = {}
               \/ st.next + Outputs(copied) > LastSegment
               \/ \E id \in S : Entries(id) # st.segments[id].live
               \/ Outputs(copied) >= Cardinality(S)
            THEN Go(c, "release") /\ UNCHANGED vacuum
            ELSE /\ vacuum' = [built |-> TRUE, sources |-> S, segments |-> CopySegments(copied),
                               index |-> CopyIndex(S, copied)]
                 /\ Go(c, "install")
  BY Zenon DEF Build
<1> DEFINE q == Copied(S)
           m == Min({st.next + Outputs(q), LastSegment})
<1>5. st' = [st EXCEPT !.next = m] BY <1>4, Zenon
<1>6. S \in SUBSET Sparse BY Zenon DEF Candidates
<1>7. Outputs(q) \in Nat /\ st.next \in Nat /\ st.next <= LastSegment /\ LastSegment \in Nat
  <2>1. Len(q) \in Nat BY CopiedFacts, Zenon
  <2>2. SegmentRecords \in Nat \ {0} BY VolatileAssumption, Zenon
  <2>3. Outputs(q) \in Nat BY <2>1, <2>2, Ceiling, Zenon DEF Outputs
  <2> QED BY <1>1, <2>3, VolatileAssumption, Zenon DEF Sound
<1>8. m = IF st.next + Outputs(q) <= LastSegment THEN st.next + Outputs(q) ELSE LastSegment
  BY <1>7, MinOfTwo
<1>9. m \in Nat /\ st.next <= m /\ m <= LastSegment BY <1>7, <1>8
<1> HIDE DEF m
<1>10. /\ Shape(st') /\ st'.next = m /\ st'.seq = st.seq /\ st'.segments = st.segments
       /\ st'.owned = st.owned /\ st'.active = st.active /\ st'.index = st.index
  BY <1>1, <1>5, Zenon DEF Sound, Shape
<1>11. Sound(st', latest, expired, 0)
  <2>1. \A d \in 1 .. st.next - 1 : d \in 1 .. m - 1 BY <1>7, <1>9
  <2>2. DOMAIN st'.segments \subseteq 1 .. m - 1 BY <1>1, <1>10, <2>1, Zenon DEF Sound
  <2> QED BY <1>1, <1>9, <1>10, <2>2, Zenon DEF Sound
<1>12. CASE Go(c, "release")
  <2>1. pc' \in [Controls -> Steps] /\ \A d \in Controls : pc'[d] \in Critical => d = c
    BY <1>2, <1>12, Zenon DEF Go, Steps, Owning
  <2>2. pc'[c] = "release" BY <1>12, Zenon DEF Go
  <2> QED BY <1>1, <1>2, <1>3, <1>11, <2>1, <2>2, Zenon DEF WorkInv, Critical
<1>13. CASE /\ vacuum' = [built |-> TRUE, sources |-> S, segments |-> CopySegments(q),
                          index |-> CopyIndex(S, q)]
            /\ Go(c, "install") /\ ~(st.next + Outputs(q) > LastSegment)
  <2>1. \A d \in Controls : pc'[d] \in Critical => d = c
    BY <1>2, <1>13, Zenon DEF Go
  <2>2. /\ vacuum'.sources = S /\ vacuum'.segments = CopySegments(q)
        /\ vacuum'.index = CopyIndex(S, q)
    BY <1>13, Zenon
  <2> HIDE DEF q
  <2>3. st.next + Outputs(q) <= LastSegment /\ st'.next = st.next + Outputs(q)
    BY <1>7, <1>8, <1>10, <1>13
  <2>4. q = Copied(S) BY Zenon DEF q
  <2>5. Sound(Installed(st', vacuum'), latest, expired, 0)
    BY <1>1, <1>6, <1>10, <2>2, <2>3, <2>4, BuildSound, Zenon
  <2> QED BY <1>1, <1>2, <1>3, <1>11, <2>1, <2>5, Zenon DEF WorkInv
<1> QED BY <1>4, <1>12, <1>13, Zenon

\* Steps of a compaction or verification that leave the Worker as it is.
LEMMA ControlWork ==
    ASSUME WorkInv, pc \in [Controls -> Steps], NEW c \in Controls,
           \/ Arm(c) \/ CloseGate(c) \/ Drain(c) \/ Lock(c) \/ Verify(c)
           \/ Release(c) \/ Disarm(c) \/ OpenGate(c)
    PROVE  WorkInv'
<1>1. UNCHANGED <<st, latest, expired, vacuum>>
  BY Zenon DEF Arm, CloseGate, Drain, Lock, Verify, Release, Disarm, OpenGate, workVars
<1>2. PICK step \in Steps : pc' = [pc EXCEPT ![c] = step]
  BY Zenon
     DEF Arm, CloseGate, Drain, Lock, Verify, Release, Disarm, OpenGate, Leave, Go, Steps, Owning
<1>3. step # "install" /\ \A d \in Controls : pc'[d] = "install" => pc[d] = "install"
  <2>1. step # "install"
    BY <1>2, Zenon DEF Arm, CloseGate, Drain, Lock, Verify, Release, Disarm, OpenGate, Leave, Go
  <2> QED BY <1>2, <2>1, Zenon
<1>4. \A d \in Controls : pc'[d] \in Critical => lock' = d
  <2>1. CASE Lock(c)
    <3>1. lock = NoRef /\ lock' = c BY <2>1, Zenon DEF Lock
    <3>2. \A d \in Controls : pc[d] \notin Critical BY <3>1, VolatileAssumption, Zenon DEF WorkInv
    <3> QED BY <1>2, <3>1, <3>2, Zenon
  <2>2. CASE Release(c)
    <3>1. pc[c] = "release" /\ step \notin Critical
      BY <1>2, <2>2, Zenon DEF Release, Leave, Go, Critical
    <3>2. \A d \in Controls : d # c => pc[d] \notin Critical BY <3>1, Zenon DEF WorkInv, Critical
    <3> QED BY <1>2, <3>1, <3>2, Zenon
  <2>3. CASE Verify(c)
    <3>1. pc[c] = "verify" /\ lock' = lock BY <2>3, Zenon DEF Verify
    <3> QED BY <1>2, <3>1, Zenon DEF WorkInv, Critical
  <2>4. CASE Arm(c) \/ CloseGate(c) \/ Drain(c) \/ Disarm(c) \/ OpenGate(c)
    <3>1. step \notin Critical /\ lock' = lock
      BY <1>2, <2>4, Zenon DEF Arm, CloseGate, Drain, Disarm, OpenGate, Leave, Go, Critical
    <3> QED BY <1>2, <3>1, Zenon DEF WorkInv
  <2> QED BY <2>1, <2>2, <2>3, <2>4, Zenon
<1> QED BY <1>1, <1>3, <1>4, Zenon DEF WorkInv

\* The manager and the Worker adopt what was built.
LEMMA InstallWork ==
    ASSUME WorkInv, pc \in [Controls -> Steps], NEW c \in Controls, Install(c)
    PROVE  WorkInv'
<1>1. pc[c] = "install" /\ UNCHANGED <<latest, expired, lock>> BY Zenon DEF Install
<1>2. pc' = [pc EXCEPT ![c] = "release"] BY Zenon DEF Install, Go
<1>3. Sound(st', latest, expired, 0) BY <1>1, Zenon DEF WorkInv, Install
<1>4. lock = c /\ \A d \in Controls : d # c => pc[d] \notin Critical
  BY <1>1, Zenon DEF WorkInv, Critical
<1>5. \A d \in Controls : pc'[d] # "install" BY <1>2, <1>4, Zenon DEF Critical
<1>6. \A d \in Controls : pc'[d] \in Critical => lock' = d BY <1>1, <1>2, <1>4, Zenon
<1> QED BY <1>1, <1>3, <1>5, <1>6, Zenon DEF WorkInv

\* Bounds.
LEMMA WithinBound == \A n \in Nat : \A i \in 1 .. n : ~(i > n)
OBVIOUS

LEMMA LenIsNat == ASSUME NEW S, NEW q \in Seq(S) PROVE Len(q) \in Nat
OBVIOUS

\* A key's get, from its entry.
LEMMA SoundReads == Sound(st, latest, expired, 0) => ReadsAreLatest
<1> SUFFICES ASSUME Sound(st, latest, expired, 0), NEW k \in Keys
             PROVE  Got(k) = IF expired /\ latest[k].ttl THEN 0 ELSE latest[k].seq
  BY Zenon DEF ReadsAreLatest
<1>1. EntryOK(st.segments, st.index[k], latest[k], expired) BY Zenon DEF Sound
<1>2. CASE st.index[k] = NoRef
  <2>1. Got(k) = 0 BY <1>2, Zenon DEF Got
  <2>2. latest[k] = Nothing \/ (expired /\ latest[k].ttl) BY <1>1, <1>2, Zenon DEF EntryOK
  <2>3. Nothing.seq = 0 BY Zenon DEF Nothing
  <2> QED BY <2>1, <2>2, <2>3, Zenon
<1>3. CASE st.index[k] # NoRef
  <2> DEFINE ref == st.index[k]
  <2>1. /\ ref.segment \in DOMAIN st.segments
        /\ ref.offset \in 1 .. Len(st.segments[ref.segment].records)
        /\ RecordAt(st, ref).seq = latest[k].seq /\ RecordAt(st, ref).ttl = latest[k].ttl
    BY <1>1, <1>3, Zenon DEF EntryOK, RecordAt
  <2>2. ref.segment \in st.owned \cap DOMAIN st.segments BY <2>1, Zenon DEF Sound
  <2>3. st.segments[ref.segment].records \in Seq(Recs) BY <2>1, Zenon DEF Sound, SegmentOK
  <2>6. Len(st.segments[ref.segment].records) \in Nat BY <2>3, LenIsNat, Zenon
  <2>4. ~(ref.offset > Len(st.segments[ref.segment].records)) BY <2>1, <2>6, WithinBound, Zenon
  <2>5. Got(k) = IF expired /\ RecordAt(st, ref).ttl THEN 0 ELSE RecordAt(st, ref).seq
    BY <1>3, <2>2, <2>4, Zenon DEF Got
  <2> QED BY <2>1, <2>5, Zenon
<1> QED BY <1>2, <1>3, Zenon

\* Live counts, from the entries.
LEMMA SoundLiveness == Sound(st, latest, expired, 0) => LivenessIsExact
<1> SUFFICES ASSUME Sound(st, latest, expired, 0) PROVE LivenessIsExact BY Zenon
<1>1. \A id : Entries(id) = Cardinality(Into(st.index, id)) BY Zenon DEF Entries, Into
<1>2. \A id \in DOMAIN st.segments : CountOK(st.segments, st.index, id, 0) /\ id # 0 BY DEF Sound
<1>3. st.owned = DOMAIN st.segments BY Zenon DEF Sound
<1> QED BY <1>1, <1>2, <1>3, Zenon DEF LivenessIsExact, CountOK

\* The Worker stays sound in every step, given the gate.
LEMMA WorkSteps == GateInv /\ WorkInv /\ [Next]_vars => WorkInv'
<1> SUFFICES ASSUME GateInv, WorkInv, [Next]_vars PROVE WorkInv' BY Zenon
<1>1. pc \in [Controls -> Steps] BY Zenon DEF GateInv
<1>2. ASSUME NEW key \in Keys, Locked(key) PROVE WorkInv'
  <2>1. \A c \in Controls : pc[c] # "install"
    BY <1>2, VolatileAssumption, Zenon DEF Locked, WorkInv, Critical
  <2> QED BY <1>2, <2>1, MutationWork, Zenon DEF Locked, controlVars
<1>3. ASSUME NEW key \in Keys, Mutate(key) PROVE WorkInv'
  <2>1. env.exclusive BY <1>3, Zenon DEF GateInv, Mutate
  <2>2. \A c \in Controls : pc[c] # "install" BY <1>3, <2>1, Zenon DEF GateInv, Mutate, Owning
  <2> QED BY <1>3, <2>2, MutationWork, Zenon DEF Mutate, controlVars
<1>4. CASE Enter \/ CheckGate BY <1>4, Zenon DEF Enter, CheckGate, workVars, controlVars, WorkInv
<1>5. CASE Tick
  <2>1. expired' = TRUE /\ UNCHANGED <<st, latest, lock, pc, vacuum>>
    BY <1>5, Zenon DEF Tick, controlVars
  <2>2. Sound(st, latest, TRUE, 0) BY LateSound, Zenon DEF WorkInv
  <2>3. \A c \in Controls : pc[c] = "install" => Sound(Installed(st, vacuum), latest, TRUE, 0)
    BY LateSound, Zenon DEF WorkInv
  <2> QED BY <2>1, <2>2, <2>3, Zenon DEF WorkInv
<1>6. ASSUME NEW c \in Controls, ControlStep(c) PROVE WorkInv'
  BY <1>1, <1>6, ControlWork, BuildWork, InstallWork, Zenon DEF ControlStep
<1>7. CASE UNCHANGED vars BY <1>7, Zenon DEF vars, workVars, controlVars, WorkInv
<1> QED BY <1>2, <1>3, <1>4, <1>5, <1>6, <1>7, Zenon DEF Next

\* Every get of a volatile Worker answers with the last acknowledged put of its
\* key, unless an acknowledged erase followed or it has expired, and no
\* compaction runs beside the exclusive Writer: for every number of keys,
\* mutations, Segments and Records per Segment, across rotation, retirement,
\* refused mutations and the vacuum, which replaces the whole Index
\* (Worker::get_locked, publish, maybe_retire, compact).
THEOREM GetsAreLatest == ASSUME OneControl PROVE Spec => []IndexIsLatest
<1>1. GateInv /\ [Next]_vars => GateInv' BY GateSteps, Zenon
<1>2. GateInv /\ WorkInv => IndexIsLatest
  BY SoundReads, Zenon DEF WorkInv, GateInv, IndexIsLatest, IndexHasOneOwner, Owning
<1> QED BY <1>1, <1>2, InitGate, InitWork, WorkSteps, PTL DEF Spec

\* In the same behaviours the live count of every Segment is the number of
\* Index entries into it, the Worker owns what the manager catalogues, and no
\* sealed Segment without a live Record stays, neither after a publication nor
\* after a compaction that packs copies into new Segments.
THEOREM LiveCountsAreExact == ASSUME OneControl PROVE Spec => []LivenessIsExact
<1>1. GateInv /\ [Next]_vars => GateInv' BY GateSteps, Zenon
<1>2. WorkInv => LivenessIsExact BY SoundLiveness, Zenon DEF WorkInv
<1> QED BY <1>1, <1>2, InitGate, InitWork, WorkSteps, PTL DEF Spec
=============================================================================

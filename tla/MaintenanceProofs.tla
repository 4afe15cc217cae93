------------------------- MODULE MaintenanceProofs -------------------------
(***************************************************************************)
(* Proofs that stopping the maintenance controller is final, for every     *)
(* number of Workers, policy and environment. The arithmetic of capacity   *)
(* and budgets plays no part: what matters is which fields of the          *)
(* controller and of the Store a step writes, under which guard.           *)
(***************************************************************************)
EXTENDS Maintenance, TLAPS

\* The fields of the controller that stop is about exist, and after stop the
\* gate is open.
Final(c) == {"stop", "rejected", "state"} \subseteq DOMAIN c /\ (c.stop => ~c.rejected)

\* The fields of the Store that close waits for.
HasLock(s) == {"open", "lock"} \subseteq DOMAIN s

\* What a compaction may answer, and the thread that holds such an answer.
Verdicts == {"unavailable", "conflict", "error", "nogain", "gain"}
HasVerdict(th) == {"pc", "result"} \subseteq DOMAIN th /\ (th.pc = "result" => th.result \in Verdicts)

\* What the step from s to t may do to the Store's lock and admission.
Leaves(s, t) ==
    /\ HasLock(t) /\ t.open = s.open
    /\ t.lock = s.lock \/ t.lock = "free" \/ s.open

\* The inductive invariant. StopIsFinal alone is not inductive: that nothing
\* takes the lock or the gate again after the drain rests on admission, which
\* is closed before.
StopInv ==
    /\ Final(ctl) /\ HasLock(store) /\ HasVerdict(thread)
    /\ closer # "open" => ~store.open
    /\ StopIsFinal

------------------------------------------------------------------------------
(* The operators on the controller's fields. *)

LEMMA SkipFinal == ASSUME NEW c, Final(c), NEW next PROVE Final(Skip(c, next))
BY Zenon DEF Final, Skip

LEMMA ClearBackoffFinal == ASSUME NEW c, Final(c) PROVE Final(ClearBackoff(c))
BY Zenon DEF Final, ClearBackoff

\* Publish opens the gate of a stopped controller, whatever it is told.
LEMMA PublishFinal ==
    ASSUME NEW c, {"stop", "rejected", "state"} \subseteq DOMAIN c, NEW rejected
    PROVE  Final(Publish(c, rejected))
BY Zenon DEF Final, Publish

LEMMA FaultFinal == ASSUME NEW c, Final(c), NEW armed PROVE Final(Fault(c, armed))
BY Zenon DEF Final, Fault

LEMMA StateFinal == ASSUME NEW c, Final(c), NEW v PROVE Final([c EXCEPT !.state = v])
BY Zenon DEF Final

LEMMA GuardFinal == ASSUME NEW c, Final(c), NEW v PROVE Final([c EXCEPT !.guard = v])
BY Zenon DEF Final

LEMMA StoreClosedFinal == ASSUME NEW c, Final(c) PROVE Final(StoreClosed(c))
BY SkipFinal, PublishFinal, Zenon DEF StoreClosed, Final

LEMMA StoppedFinal == ASSUME NEW c, Final(c) PROVE Final(Stopped(c))
<1>1. Final(Publish(c, FALSE)) BY PublishFinal, Zenon DEF Final
<1> QED BY <1>1, StateFinal, Zenon DEF Stopped

LEMMA RecalledFinal == ASSUME Final(ctl) PROVE Final(Unguarded) /\ Final(Recalled)
<1>1. Final(Unguarded) BY GuardFinal, Zenon DEF Unguarded
<1> QED BY <1>1, ClearBackoffFinal, Zenon DEF Recalled

LEMMA NoGainFinal == ASSUME NEW c, Final(c) PROVE Final(AfterNoGain(c))
<1> DEFINE n == Min({c.noGain + 1, MaxNoGain})
           d == [c EXCEPT !.noGain = n]
           e == [d EXCEPT !.memo = IF MaxNoGain > 0 /\ n >= MaxNoGain THEN Footprint(thread.obs) ELSE @]
<1>1. Final(d) BY Zenon DEF Final
<1>2. Final(e) BY <1>1, Zenon DEF Final
<1> QED BY <1>2, SkipFinal, Zenon DEF AfterNoGain

LEMMA AfterCompactionFinal ==
    ASSUME Final(ctl), NEW r \in Verdicts
    PROVE  Final(AfterCompaction(r))
<1>1. Final(ClearBackoff(ctl)) BY ClearBackoffFinal, Zenon
<1> QED
  BY <1>1, StoreClosedFinal, SkipFinal, FaultFinal, NoGainFinal, Zenon DEF AfterCompaction, Verdicts

------------------------------------------------------------------------------
(* The operators on the Store. *)

LEMMA CompactedLeaves == ASSUME NEW s, HasLock(s), NEW w PROVE Leaves(s, Compacted(s, w))
BY Zenon DEF HasLock, Leaves, Compacted

LEMMA ReleasedLeaves == ASSUME NEW s, HasLock(s) PROVE Leaves(s, Released(s))
BY Zenon DEF HasLock, Leaves, Released

LEMMA CursorLeaves == ASSUME NEW s, HasLock(s), NEW v PROVE Leaves(s, [s EXCEPT !.cursor = v])
BY Zenon DEF HasLock, Leaves

LEMMA LeavesTransitive ==
    ASSUME NEW s, NEW t, NEW u, Leaves(s, t), Leaves(t, u) PROVE Leaves(s, u)
BY Zenon DEF Leaves

LEMMA AdvancedLeaves == ASSUME NEW s, HasLock(s), NEW probe PROVE Leaves(s, Advanced(s, probe))
BY CursorLeaves, Zenon DEF Advanced, Leaves, HasLock

LEMMA ManualLeaves == ASSUME NEW s, HasLock(s) PROVE Leaves(s, ManualCompaction(s))
<1> DEFINE moved(w) == [s EXCEPT !.cursor = NextWorker(w)]
<1>1. ASSUME NEW w PROVE Leaves(s, moved(w)) /\ Leaves(s, Compacted(moved(w), w))
  <2>1. Leaves(s, moved(w)) BY CursorLeaves, Zenon
  <2>2. Leaves(moved(w), Compacted(moved(w), w)) BY <2>1, CompactedLeaves, Zenon DEF Leaves
  <2> QED BY <2>1, <2>2, LeavesTransitive, Zenon
<1>2. Leaves(s, s) BY Zenon DEF Leaves
<1> QED BY <1>1, <1>2, Zenon DEF ManualCompaction

------------------------------------------------------------------------------
(* Steps. *)

\* A step that only changes the controller's fields, and moves the thread of a
\* controller that has not exited.
LEMMA ControlStep ==
    ASSUME StopInv, Final(ctl'), HasVerdict(thread'), ~At("exited"),
           UNCHANGED <<store, mutator, closer>>
    PROVE  StopInv'
BY Zenon DEF StopInv, StopIsFinal, Final, HasLock, At

\* A step of the Store that leaves controller and close alone.
LEMMA StoreStep ==
    ASSUME StopInv, Leaves(store, store'), mutator' = mutator \/ mutator' = None \/ store.open,
           UNCHANGED <<ctl, closer>>,
           UNCHANGED thread \/ (~At("exited") /\ HasVerdict(thread'))
    PROVE  StopInv'
<1> QED BY Zenon DEF StopInv, StopIsFinal, Final, HasLock, Leaves, At

LEMMA QuietHasVerdict == HasVerdict(Quiet)
BY Zenon DEF Quiet, HasVerdict

\* The thread goes to another place than "result".
LEMMA GoesOn ==
    ASSUME NEW th, HasVerdict(th), NEW pc, pc # "result" PROVE HasVerdict([th EXCEPT !.pc = pc])
BY Zenon DEF HasVerdict

LEMMA FinishStep ==
    ASSUME StopInv, ~At("exited"), NEW c, Final(c), Finish(c) PROVE StopInv'
BY ControlStep, QuietHasVerdict, Zenon DEF Finish, evaluation

LEMMA IdleStep == ASSUME StopInv, Idle PROVE StopInv'
<1>1. Final(ctl') BY StateFinal, Zenon DEF Idle, StopInv
<1>2. HasVerdict(thread') BY GoesOn, Zenon DEF Idle, StopInv
<1> QED BY <1>1, <1>2, ControlStep, Zenon DEF Idle, At, evaluation

LEMMA BeginStep == ASSUME StopInv, Begin PROVE StopInv'
<1>1. Final(ctl') BY StateFinal, Zenon DEF Begin, StopInv
<1>2. HasVerdict(thread') BY Zenon DEF Begin, StopInv, HasVerdict
<1> QED BY <1>1, <1>2, ControlStep, Zenon DEF Begin, At, evaluation

LEMMA ExitStep == ASSUME StopInv, Exit PROVE StopInv'
<1>1. Final(ctl') BY StoppedFinal, Zenon DEF Exit, StopInv
<1>2. HasVerdict(thread') BY GoesOn, Zenon DEF Exit, StopInv
<1> QED BY <1>1, <1>2, ControlStep, Zenon DEF Exit, At, evaluation

LEMMA ObservedVerdict ==
    ASSUME NEW th, HasVerdict(th), NEW v
    PROVE  /\ HasVerdict([th EXCEPT !.pc = "classify", !.obs = v])
           /\ HasVerdict([th EXCEPT !.pc = "decide", !.obs.unread = v])
           /\ HasVerdict([th EXCEPT !.pc = "failed", !.result = v])
<1>1. HasVerdict([th EXCEPT !.pc = "classify", !.obs = v]) BY Zenon DEF HasVerdict
<1>2. HasVerdict([th EXCEPT !.pc = "decide", !.obs.unread = v]) BY Zenon DEF HasVerdict
<1>3. HasVerdict([th EXCEPT !.pc = "failed", !.result = v]) BY Zenon DEF HasVerdict
<1> QED BY <1>1, <1>2, <1>3, Zenon

LEMMA CallFailsVerdict == ASSUME StopInv, CallFails PROVE HasVerdict(thread')
<1>1. HasVerdict(thread) BY Zenon DEF StopInv
<1>2. ASSUME NEW v PROVE HasVerdict([thread EXCEPT !.pc = "failed", !.result = v])
  BY <1>1, ObservedVerdict, Zenon
<1>3. \E v : thread' = [thread EXCEPT !.pc = "failed", !.result = v] BY Zenon DEF CallFails
<1> QED BY <1>2, <1>3, Zenon

LEMMA ObserveStep == ASSUME StopInv, Observe PROVE StopInv'
<1>1. HasLock(store) /\ HasVerdict(thread) BY Zenon DEF StopInv
<1>2. Leaves(store, store')
  <2>1. Leaves(store, Advanced(store, FALSE)) /\ Leaves(store, store)
    BY <1>1, AdvancedLeaves, Zenon DEF Leaves
  <2>2. store' = Advanced(store, FALSE) \/ store' = store BY Zenon DEF Observe
  <2> QED BY <2>1, <2>2, Zenon
<1>3. HasVerdict(thread')
  <2>1. HasVerdict([thread EXCEPT !.pc = "classify", !.obs = Observation(store, FALSE)])
    BY <1>1, ObservedVerdict, Zenon
  <2> QED BY <2>1, CallFailsVerdict, Zenon DEF Observe
<1> QED BY <1>2, <1>3, StoreStep, Zenon DEF Observe, At

LEMMA ClassifyStep == ASSUME StopInv, ClassifyPressure PROVE StopInv'
<1> DEFINE level == Classify(thread.obs)
           c == Publish([ctl EXCEPT !.pressure = level], level = "emergency")
           probe == thread.obs.candidate # None /\ (level # "normal" \/ env.ttl)
<1>1. Final(c) BY PublishFinal, Zenon DEF StopInv, Final
<1>2. CASE ctl.stop BY <1>1, <1>2, FinishStep, Zenon DEF ClassifyPressure, At
<1>3. CASE ~ctl.stop
  <2>1. ctl' = c /\ UNCHANGED <<store, mutator, closer>> /\ ~At("exited")
    BY <1>3, Zenon DEF ClassifyPressure, evaluation, At
  <2>2. HasVerdict(thread') BY <1>3, GoesOn DEF ClassifyPressure, StopInv
  <2> QED BY <1>1, <2>1, <2>2, ControlStep, Zenon
<1> QED BY <1>2, <1>3, Zenon

LEMMA ProbeStep == ASSUME StopInv, Probe PROVE StopInv'
<1>1. HasLock(store) /\ HasVerdict(thread) BY Zenon DEF StopInv
<1>2. Leaves(store, store')
  <2>1. Leaves(store, Advanced(store, TRUE)) /\ Leaves(store, store)
    BY <1>1, AdvancedLeaves, Zenon DEF Leaves
  <2>2. store' = Advanced(store, TRUE) \/ store' = store BY Zenon DEF Probe
  <2> QED BY <2>1, <2>2, Zenon
<1>3. HasVerdict(thread')
  <2>1. HasVerdict([thread EXCEPT !.pc = "decide", !.obs.unread = Observation(store, TRUE).unread])
    BY <1>1, ObservedVerdict, Zenon
  <2> QED BY <2>1, CallFailsVerdict, Zenon DEF Probe
<1> QED BY <1>2, <1>3, StoreStep, Zenon DEF Probe, At

LEMMA ObservationFailedStep == ASSUME StopInv, ObservationFailed PROVE StopInv'
BY FinishStep, StoreClosedFinal, FaultFinal, Zenon DEF ObservationFailed, At, StopInv

LEMMA DecideStep == ASSUME StopInv, Decide PROVE StopInv'
<1>1. Final(ctl) /\ HasVerdict(thread) /\ ~At("exited") BY Zenon DEF StopInv, Decide, At
<1>2. Final(Unguarded) /\ Final(Recalled) BY <1>1, RecalledFinal, Zenon
<1>3. ASSUME NEW next PROVE /\ Final(Skip(ctl, next)) /\ Final(Skip(Unguarded, next))
                            /\ Final(Skip(Recalled, next))
                            /\ Final(Skip(ClearBackoff(Unguarded), next))
  BY <1>1, <1>2, SkipFinal, ClearBackoffFinal, Zenon
<1>4. Final(Skip([ctl EXCEPT !.guard = TRUE], "suspended")) BY <1>1, GuardFinal, SkipFinal, Zenon
<1>5. HasVerdict(Quiet) /\ HasVerdict([thread EXCEPT !.pc = "start"])
  BY <1>1, QuietHasVerdict, GoesOn, Zenon
<1>6. CASE \E c : Final(c) /\ Finish(c) BY <1>1, <1>6, FinishStep, Zenon
<1>7. CASE /\ ctl' \in {Skip(Recalled, "suspended"), Recalled}
           /\ thread' \in {Quiet, [thread EXCEPT !.pc = "start"]}
           /\ UNCHANGED evaluation
  BY <1>1, <1>2, <1>3, <1>5, <1>7, ControlStep, Zenon DEF evaluation
<1> QED
  <2>1. PICK latency \in env.latencies : Decide!2!(latency) BY Zenon DEF Decide
  <2> QED BY <1>2, <1>3, <1>4, <1>6, <1>7, <2>1, Zenon

LEMMA StartStep == ASSUME StopInv, Start PROVE StopInv'
<1>1. Final(ctl) /\ HasVerdict(thread) /\ ~At("exited") BY Zenon DEF StopInv, Start, At
<1>2. Final([ctl EXCEPT !.state = "compacting"]) BY <1>1, StateFinal, Zenon
<1>3. HasVerdict([thread EXCEPT !.pc = "compact"]) BY <1>1, GoesOn, Zenon
<1>4. CASE Finish(ctl) BY <1>1, <1>4, FinishStep, Zenon
<1>5. CASE ~Finish(ctl) BY <1>1, <1>2, <1>3, <1>5, ControlStep, Zenon DEF Start, evaluation
<1> QED BY <1>4, <1>5, Zenon

LEMMA CompactBeginStep == ASSUME StopInv, CompactBegin PROVE StopInv'
<1>1. HasLock(store) /\ HasVerdict(thread) /\ ~At("exited") BY Zenon DEF StopInv, CompactBegin, At
<1>2. Leaves(store, store)  BY <1>1, Zenon DEF Leaves
<1>3. CASE store.open /\ store.lock = "free"
  <2>1. Leaves(store, [store EXCEPT !.lock = "maintenance"])
    BY <1>1, <1>3, Zenon DEF Leaves, HasLock
  <2>2. HasVerdict([thread EXCEPT !.pc = "compacting", !.before = <<store.sealed, store.live>>])
    BY <1>1, Zenon DEF HasVerdict
  <2> QED BY <1>1, <1>3, <2>1, <2>2, StoreStep, Zenon DEF CompactBegin
<1>4. CASE ~(store.open /\ store.lock = "free")
  <2>1. ASSUME NEW r \in Verdicts PROVE HasVerdict([thread EXCEPT !.pc = "result", !.result = r])
    BY <1>1, Zenon DEF HasVerdict
  <2>2. HasVerdict(thread') BY <1>4, <2>1, Zenon DEF CompactBegin, Verdicts
  <2> QED BY <1>1, <1>2, <1>4, <2>2, StoreStep, Zenon DEF CompactBegin
<1> QED BY <1>3, <1>4, Zenon

LEMMA CompactEndStep == ASSUME StopInv, CompactEnd PROVE StopInv'
<1> DEFINE w == thread.obs.candidate
           moved == [Released(store) EXCEPT !.cursor = NextWorker(w)]
<1>1. HasLock(store) /\ HasVerdict(thread) /\ ~At("exited") BY Zenon DEF StopInv, CompactEnd, At
<1>2. Leaves(store, moved)
  <2>1. Leaves(store, Released(store)) BY <1>1, ReleasedLeaves, Zenon
  <2>2. Leaves(Released(store), moved) BY <2>1, CursorLeaves, Zenon DEF Leaves
  <2> QED BY <2>1, <2>2, LeavesTransitive, Zenon
<1>3. Leaves(store, Compacted(moved, w))
  <2>1. Leaves(moved, Compacted(moved, w)) BY <1>2, CompactedLeaves, Zenon DEF Leaves
  <2> QED BY <1>2, <2>1, LeavesTransitive, Zenon
<1>4. ASSUME NEW closed PROVE Leaves(store, [moved EXCEPT !.healthy = ~closed])
  <2>1. Leaves(moved, [moved EXCEPT !.healthy = ~closed]) BY <1>2, Zenon DEF Leaves, HasLock
  <2> QED BY <1>2, <2>1, LeavesTransitive, Zenon
<1>5. Outcomes(w) \subseteq Verdicts BY Zenon DEF Outcomes, Verdicts
<1>6. CASE \E r \in Outcomes(w) :
             /\ thread' = [thread EXCEPT !.pc = "result", !.result = r,
                               !.copied = IF r = "gain" THEN Kept(store, w) ELSE 0]
             /\ store' = IF r = "gain" THEN Compacted(moved, w) ELSE moved
  <2>1. PICK r \in Outcomes(w) :
             /\ thread' = [thread EXCEPT !.pc = "result", !.result = r,
                               !.copied = IF r = "gain" THEN Kept(store, w) ELSE 0]
             /\ store' = IF r = "gain" THEN Compacted(moved, w) ELSE moved
    BY <1>6, Zenon
  <2>2. r \in Verdicts BY <1>5, Zenon
  <2>3. HasVerdict(thread') BY <1>1, <2>1, <2>2, Zenon DEF HasVerdict
  <2>4. Leaves(store, store') BY <1>2, <1>3, <2>1, Zenon
  <2> QED BY <1>1, <2>3, <2>4, StoreStep, Zenon DEF CompactEnd
<1>7. CASE \E closed \in BOOLEAN :
             /\ thread' = [thread EXCEPT !.pc = "result",
                               !.result = IF closed THEN "unavailable" ELSE "error"]
             /\ store' = [moved EXCEPT !.healthy = ~closed]
  <2>1. PICK closed \in BOOLEAN :
             /\ thread' = [thread EXCEPT !.pc = "result",
                               !.result = IF closed THEN "unavailable" ELSE "error"]
             /\ store' = [moved EXCEPT !.healthy = ~closed]
    BY <1>7, Zenon
  <2>2. HasVerdict(thread') BY <1>1, <2>1, Zenon DEF HasVerdict, Verdicts
  <2>3. Leaves(store, store') BY <1>4, <2>1, Zenon
  <2> QED BY <1>1, <2>2, <2>3, StoreStep, Zenon DEF CompactEnd
<1> QED BY <1>6, <1>7, Zenon DEF CompactEnd

LEMMA ResultStep == ASSUME StopInv, Result PROVE StopInv'
<1>1. Final(ctl) /\ thread.result \in Verdicts /\ ~At("exited")
  BY Zenon DEF StopInv, Result, At, HasVerdict
<1>2. Final(ctl') BY <1>1, AfterCompactionFinal, Zenon DEF Result
<1> QED BY <1>1, <1>2, QuietHasVerdict, ControlStep, Zenon DEF Result, evaluation

LEMMA ThreadSteps == ASSUME StopInv, ThreadStep PROVE StopInv'
BY IdleStep, BeginStep, ExitStep, ObserveStep, ClassifyStep, ProbeStep, ObservationFailedStep,
   DecideStep, StartStep, CompactBeginStep, CompactEndStep, ResultStep, Zenon DEF ThreadStep

\* Mutations, expiries, other tenants and manual compactions.
LEMMA StoreSteps ==
    ASSUME StopInv,
           \/ \E w \in env.writers : Admit(w) \/ Expire(w)
           \/ Rotate \/ Overwrite \/ FailClosed \/ OthersUse \/ ManualBegin \/ ManualEnd
    PROVE  StopInv'
<1>1. HasLock(store) BY Zenon DEF StopInv
<1>2. Leaves(store, store) BY <1>1, Zenon DEF Leaves
<1>3. UNCHANGED <<ctl, closer, thread>>
  BY Zenon
     DEF Admit, Expire, Rotate, Overwrite, FailClosed, OthersUse, ManualBegin, ManualEnd, storeSide
<1>4. CASE \E w \in env.writers : Admit(w) BY <1>2, <1>3, <1>4, StoreStep, Zenon DEF Admit
<1>5. ASSUME NEW w, Expire(w) PROVE StopInv'
  <2>1. Leaves(store, store') BY <1>1, <1>5, Zenon DEF Expire, Leaves, HasLock
  <2> QED BY <1>3, <1>5, <2>1, StoreStep, Zenon DEF Expire
<1>6. CASE Rotate
  <2>1. Leaves(store, [store EXCEPT !.sealed[mutator] = @ + 1, !.live[mutator] = @ + SegmentUnits])
    BY <1>1, Zenon DEF Leaves, HasLock
  <2> QED BY <1>2, <1>3, <1>6, <2>1, StoreStep, Zenon DEF Rotate
<1>7. CASE Overwrite
  <2>1. Leaves(store, [store EXCEPT !.live[mutator] = @ - 1,
                              !.expired[mutator] = Min({@, store.live[mutator] - 1})])
    BY <1>1, Zenon DEF Leaves, HasLock
  <2> QED BY <1>3, <1>7, <2>1, StoreStep, Zenon DEF Overwrite
<1>8. CASE FailClosed
  <2>1. Leaves(store, [store EXCEPT !.healthy = FALSE]) BY <1>1, Zenon DEF Leaves, HasLock
  <2> QED BY <1>3, <1>8, <2>1, StoreStep, Zenon DEF FailClosed
<1>9. CASE OthersUse
  <2>1. Leaves(store, [store EXCEPT !.other = 1 - @]) BY <1>1, Zenon DEF Leaves, HasLock
  <2> QED BY <1>3, <1>9, <2>1, StoreStep, Zenon DEF OthersUse
<1>10. CASE ManualBegin
  <2>1. Leaves(store, store') BY <1>1, <1>10, Zenon DEF ManualBegin, Leaves, HasLock
  <2> QED BY <1>3, <1>10, <2>1, StoreStep, Zenon DEF ManualBegin
<1>11. CASE ManualEnd
  <2>1. Leaves(store, Released(store)) BY <1>1, ReleasedLeaves, Zenon
  <2>2. HasLock(Released(store)) BY <2>1, Zenon DEF Leaves
  <2>3. Leaves(store, ManualCompaction(Released(store)))
    BY <2>1, <2>2, ManualLeaves, LeavesTransitive, Zenon
  <2>4. Leaves(store, [Released(store) EXCEPT !.cursor = NextWorker(Candidate(store))])
    BY <2>1, <2>2, CursorLeaves, LeavesTransitive, Zenon
  <2>5. Leaves(store, store') BY <1>11, <2>1, <2>3, <2>4, Zenon DEF ManualEnd
  <2> QED BY <1>3, <1>11, <2>5, StoreStep, Zenon DEF ManualEnd
<1> QED BY <1>4, <1>5, <1>6, <1>7, <1>8, <1>9, <1>10, <1>11, Zenon

\* close: each of its steps relies on what the one before has shut.
LEMMA CloseSteps ==
    ASSUME StopInv, CloseAdmission \/ CloseStep \/ \E clock \in Clocks : Elapse(clock)
    PROVE  StopInv'
<1>1. CASE CloseAdmission
  <2>1. HasLock(store') /\ ~store'.open BY <1>1, Zenon DEF CloseAdmission, StopInv, HasLock
  <2> QED BY <1>1, <2>1, Zenon DEF CloseAdmission, StopInv, StopIsFinal, storeSide, At
<1>2. CASE RequestStop
  <2> DEFINE c == [ctl EXCEPT !.stop = TRUE, !.bound = FALSE, !.guard = FALSE,
                       !.state = IF @ = "compacting" THEN "draining"
                                 ELSE IF @ \in {"faulted", "draining"} THEN @ ELSE "stopped"]
  <2>1. {"stop", "rejected", "state"} \subseteq DOMAIN ClearBackoff(c)
    BY Zenon DEF StopInv, Final, ClearBackoff
  <2>2. Final(ctl') BY <1>2, <2>1, PublishFinal, Zenon DEF RequestStop
  <2> QED BY <1>2, <2>2, Zenon DEF RequestStop, StopInv, StopIsFinal, At, Final
<1>3. CASE Drained BY <1>3, Zenon DEF Drained, StopInv, StopIsFinal, storeSide, At
<1>4. CASE Join
  <2>1. Final(ctl') BY <1>4, StoppedFinal, Zenon DEF Join, StopInv
  <2> QED BY <1>4, <2>1, Zenon DEF Join, StopInv, StopIsFinal, At, Final
<1>5. CASE \E clock \in Clocks : Elapse(clock) BY <1>5, Zenon DEF Elapse, StopInv, StopIsFinal, At
<1> QED BY <1>1, <1>2, <1>3, <1>4, <1>5, Zenon DEF CloseStep

------------------------------------------------------------------------------

\* Stop is final, for every number of Workers, every policy and every
\* environment: after request_stop no evaluation in flight closes the gate
\* again, and Store::close goes on only when no operation and no compaction is
\* left, and ends only after the thread.
THEOREM StopSafety == Spec => []StopIsFinal
<1>1. Init => StopInv
  <2> SUFFICES ASSUME Init PROVE StopInv BY Zenon
  <2>1. Final(ctl) /\ ~ctl.stop BY Zenon DEF Init, Final
  <2>2. HasLock(store) BY Zenon DEF Init, HasLock
  <2>3. HasVerdict(thread) BY QuietHasVerdict, Zenon DEF Init
  <2>4. closer = "open" BY Zenon DEF Init
  <2> QED BY <2>1, <2>2, <2>3, <2>4, Zenon DEF StopInv, StopIsFinal
<1>2. StopInv /\ [Next]_vars => StopInv'
  <2> SUFFICES ASSUME StopInv, [Next]_vars PROVE StopInv' BY Zenon
  <2>1. CASE Next BY <2>1, ThreadSteps, StoreSteps, CloseSteps, Zenon DEF Next
  <2>2. CASE UNCHANGED vars
    BY <2>2, Zenon DEF vars, StopInv, StopIsFinal, At
  <2> QED BY <2>1, <2>2, Zenon
<1>3. StopInv => StopIsFinal BY Zenon DEF StopInv
<1> QED BY <1>1, <1>2, <1>3, PTL DEF Spec
=============================================================================

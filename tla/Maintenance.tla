---------------------------- MODULE Maintenance ----------------------------
(***************************************************************************)
(* The maintenance controller (maintenance.cpp, maintenance_evaluate.cpp): *)
(* a background thread that observes the Store's capacity, opens and       *)
(* closes the emergency gate in front of mutations, and compacts one       *)
(* Worker at a time within the normal policy's budgets.                    *)
(*                                                                         *)
(* Record bytes are counted in units, Segments and the filesystem in       *)
(* Segments. An evaluation may begin at any time: the intervals of the     *)
(* loop, and request_evaluate, only choose when. What a compaction does to *)
(* the files is module Catalog; here it is one step.                       *)
(***************************************************************************)
EXTENDS Integers, FiniteSets, FiniteSetsExt, Functions

CONSTANTS
    WorkerCount,
    SegmentUnits,    \* what a Segment holds
    MaxSegments,     \* limits.max_segment_count
    PressurePct,     \* segment_count_pressure_pct
    Disk,            \* Segments the filesystem could hold
    Margin,          \* free_bytes_pressure_margin; nothing is reserved
    DeadBp,          \* dead_byte_ratio_bp_normal
    CopyLimit,       \* max_copy_bytes_per_cycle, 0 for none
    RateLimit,       \* max_copy_bytes_per_sec
    MaxNoGain,       \* max_no_gain_attempts
    None,
    Environments     \* where the Store starts and what happens to it: see Init

Workers == 0 .. WorkerCount - 1

ASSUME MaintenanceAssumption ==
    /\ WorkerCount \in Nat \ {0} /\ SegmentUnits \in Nat \ {0}
    /\ PressurePct \in 1 .. 100 /\ DeadBp \in 0 .. 10000
    /\ MaxNoGain \in Nat /\ None \notin Workers

VARIABLES
    env,      \* [sealed, live : what the Store starts with,
              \*  writers : Workers that are written to,
              \*  ttl : unread_ttl_normal_scheduling,
              \*  brisk : evaluations may follow each other within a window,
              \*  latencies : what foreground windows show,
              \*  manual, tenants, closes : BOOLEAN,
              \*  faults, changes : bounds on failed callbacks and on
              \*  mutations, expiries and other changes]
    store,    \* [sealed, live, expired : [Workers -> Nat], cursor, other,
              \*  healthy, open, lock]; `expired` of the live units are
              \*  expired Records nobody has read, `lock` holds
              \*  compaction_mutex
    ctl,      \* the controller's fields under mutex_
    thread,   \* [pc, obs, auto, before, result, copied]: evaluate_once and
              \*  its locals; `before` is what a compaction's snapshot sees
    window,   \* the one-second budget: [copied, cpu]
    due,      \* which of "deferral", "retry" and "window" have elapsed
    mutator,  \* the Worker a mutation past the gate will write to, or None
    closer,   \* where Store::close is
    changes,
    faults

vars == <<env, store, ctl, thread, window, due, mutator, closer, changes, faults>>
evaluation == <<env, store, mutator, closer, changes, faults>>
storeSide == <<ctl, thread, window, due>>

------------------------------------------------------------------------------
(* Capacity *)

SegmentCount(s) == WorkerCount + SumFunction(s.sealed)
FreeSegments(s) == Disk - SegmentCount(s) - s.other

\* What compaction would leave of a Worker's sealed Segments, and whether it
\* would remove one and find room for its replacements meanwhile.
Kept(s, w) == s.live[w] - s.expired[w]
Replacements(s, w) == (Kept(s, w) + SegmentUnits - 1) \div SegmentUnits
Gains(s, w) == Replacements(s, w) < s.sealed[w]
Fits(s, w) == Replacements(s, w) <= FreeSegments(s)

\* The first Worker with sealed Segments at or after the cursor.
Distance(from, w) == IF w >= from THEN w - from ELSE WorkerCount - from + w
Candidate(s) ==
    LET having == {w \in Workers : s.sealed[w] > 0}
    IN  IF having = {} THEN None
        ELSE CHOOSE w \in having :
                 \A v \in having : Distance(s.cursor, w) <= Distance(s.cursor, v)

\* DurableRuntimeCatalog::maintenance_observation. Only a probe reads the
\* Records, for those that are expired.
Observation(s, probe) ==
    LET w == Candidate(s)
    IN  [count |-> SegmentCount(s), sealed |-> SumFunction(s.sealed),
         free |-> FreeSegments(s), candidate |-> w,
         bytes |-> IF w = None THEN 0 ELSE s.sealed[w] * SegmentUnits,
         live |-> IF w = None THEN 0 ELSE s.live[w],
         unread |-> IF probe /\ w # None THEN s.expired[w] ELSE 0]

NextWorker(w) == (w + 1) % WorkerCount

\* A mutation of Advanced: only a compaction moves the cursor.
AdvancedNever(s, probe) == s

\* The observe callback of Store::open: an observation that is not a probe
\* moves the cursor past its candidate.
Advanced(s, probe) ==
    IF probe \/ Candidate(s) = None THEN s
    ELSE [s EXCEPT !.cursor = NextWorker(Candidate(s))]

CeilPercentage(total, pct) ==
    (total \div 100) * pct + ((total % 100) * pct + 99) \div 100

\* classify_maintenance_pressure. A rotation needs one Segment.
Classify(obs) ==
    IF obs.count >= MaxSegments \/ obs.free < 1 THEN "emergency"
    ELSE IF \/ obs.count >= CeilPercentage(MaxSegments, PressurePct)
            \/ obs.free <= Margin
         THEN "pressure" ELSE "normal"

\* scheduling_dead_byte_ratio_bp.
SchedulingRatio(obs) ==
    LET dead == obs.bytes - obs.live + obs.unread
    IN  IF obs.bytes = 0 \/ dead >= obs.bytes THEN 10000
        ELSE (dead * 10000) \div obs.bytes

\* same_no_gain_candidate: the fields it compares.
Footprint(obs) == [f \in {"sealed", "candidate", "bytes", "live", "unread"} |-> obs[f]]

------------------------------------------------------------------------------
(* The controller's fields *)

\* A mutation of Publish: it does not look at stop_.
PublishAfterStop(c, rejected) == [c EXCEPT !.rejected = rejected]

\* publish_mutations_rejected_locked: after stop the gate stays open.
Publish(c, rejected) == [c EXCEPT !.rejected = rejected /\ ~c.stop]

\* record_skip.
Skip(c, next) == [c EXCEPT !.state = IF c.stop THEN "stopped" ELSE next]

ClearBackoff(c) == [c EXCEPT !.noGain = 0, !.memo = None]

\* A mutation of Fault: any failure turns compaction off.
FaultAlwaysLatches(c, armed) == [c EXCEPT !.state = "faulted", !.auto = FALSE]

\* A failure that is neither unavailable nor a conflict. Under the gate the
\* controller goes on trying, otherwise it compacts no more.
Fault(c, armed) == [c EXCEPT !.state = "faulted", !.auto = c.auto /\ armed]

\* The Store has gone: the gate opens.
StoreClosed(c) == Skip(Publish(c, FALSE), "idle")

\* Which clocks still run: those whose deadline the fields hold.
Due(c, d) == d \ ((IF c.guard THEN {} ELSE {"deferral"})
                  \union (IF c.memo = None THEN {"retry"} ELSE {}))

NoWindow == [copied |-> 0, cpu |-> FALSE]
Refresh(win, d) == IF "window" \in d THEN NoWindow ELSE win

Quiet == [pc |-> "top", obs |-> None, auto |-> FALSE, before |-> None,
          result |-> "none", copied |-> 0]

Init ==
    /\ env \in Environments
    /\ store = [sealed |-> env.sealed, live |-> env.live,
                expired |-> [w \in Workers |-> 0], cursor |-> 0, other |-> 0,
                healthy |-> TRUE, open |-> TRUE, lock |-> "free"]
    /\ ctl = [stop |-> FALSE, state |-> "idle", pressure |-> "none", rejected |-> FALSE,
              auto |-> TRUE, bound |-> TRUE, guard |-> FALSE, noGain |-> 0, memo |-> None]
    /\ thread = Quiet
    /\ window = NoWindow
    /\ due = {}
    /\ mutator = None
    /\ closer = "open"
    /\ changes = 0
    /\ faults = 0

At(pc) == thread.pc = pc

\* An evaluation ends and leaves the fields as `c`.
Finish(c) ==
    /\ ctl' = c
    /\ due' = Due(c, due)
    /\ thread' = Quiet
    /\ UNCHANGED <<window, evaluation>>

------------------------------------------------------------------------------
(* The thread: MaintenanceController::run and evaluate_once *)

\* The top of the loop.
Idle ==
    /\ At("top") /\ ~ctl.stop
    /\ ctl' = IF ctl.state \in {"suspended", "faulted"} THEN ctl
              ELSE [ctl EXCEPT !.state = "idle"]
    /\ thread' = [thread EXCEPT !.pc = "wait"]
    /\ UNCHANGED <<window, due, evaluation>>

\* The wait ends and evaluate_once copies what it needs. Unless the intervals
\* are set below a second, the last evaluation's window has elapsed.
Begin ==
    /\ At("wait") /\ ~ctl.stop
    /\ ctl' = [ctl EXCEPT !.state = "evaluating"]
    /\ thread' = [thread EXCEPT !.pc = "observe", !.auto = ctl.auto]
    /\ due' = IF env.brisk \/ window = NoWindow THEN due ELSE due \union {"window"}
    /\ UNCHANGED <<window, evaluation>>

Stopped(c) ==
    [Publish(c, FALSE) EXCEPT !.state = IF c.state = "faulted" THEN @ ELSE "stopped"]

Exit ==
    /\ (At("top") \/ At("wait")) /\ ctl.stop
    /\ ctl' = Stopped(ctl)
    /\ thread' = [thread EXCEPT !.pc = "exited"]
    /\ UNCHANGED <<window, due, evaluation>>

\* The observe callback fails: the Store is fail-closed, or reading it fails.
CallFails ==
    \/ /\ ~store.healthy
       /\ thread' = [thread EXCEPT !.pc = "failed", !.result = "unavailable"]
       /\ UNCHANGED faults
    \/ /\ store.healthy /\ faults < env.faults
       /\ faults' = faults + 1
       /\ thread' = [thread EXCEPT !.pc = "failed", !.result = "error"]

Observe ==
    /\ At("observe")
    /\ \/ /\ store.healthy
          /\ thread' = [thread EXCEPT !.pc = "classify", !.obs = Observation(store, FALSE)]
          /\ store' = Advanced(store, FALSE)
          /\ UNCHANGED faults
       \/ CallFails /\ UNCHANGED store
    /\ UNCHANGED <<env, ctl, window, due, mutator, closer, changes>>

\* The pressure is published with what may by now be an old observation. The
\* probe reads the Records of sealed Segments that the Index still refers to.
ClassifyPressure ==
    /\ At("classify")
    /\ LET level == Classify(thread.obs)
           c == Publish([ctl EXCEPT !.pressure = level], level = "emergency")
           probe == thread.obs.candidate # None /\ (level # "normal" \/ env.ttl)
       IN  IF ctl.stop THEN Finish(c)
           ELSE /\ ctl' = c
                /\ thread' = [thread EXCEPT !.pc = IF probe THEN "probe" ELSE "decide"]
                /\ UNCHANGED <<window, due, evaluation>>

Probe ==
    /\ At("probe")
    /\ \/ /\ store.healthy
          /\ thread' = [thread EXCEPT !.pc = "decide",
                                      !.obs.unread = Observation(store, TRUE).unread]
          /\ store' = Advanced(store, TRUE)
          /\ UNCHANGED faults
       \/ CallFails /\ UNCHANGED store
    /\ UNCHANGED <<env, ctl, window, due, mutator, closer, changes>>

\* The error paths of the two callbacks.
ObservationFailed ==
    /\ At("failed")
    /\ Finish(IF thread.result = "unavailable" THEN StoreClosed(ctl)
              ELSE Fault(ctl, ctl.rejected
                              \/ (thread.obs # None /\ ctl.pressure = "emergency")))

UnderPressure == ctl.pressure \in {"pressure", "emergency"}

\* The latency guard after a window whose p99 was "low", below the resume
\* bound, "mid", "high", at the suspend bound, or had too "few" samples.
Guarded(latency) ==
    /\ ~UnderPressure
    /\ \/ latency = "high"
       \/ latency = "mid" /\ ctl.guard

Unguarded == [ctl EXCEPT !.guard = FALSE]

\* The fields after the no-gain memo is compared with the observation.
Recalled ==
    IF ctl.memo # None /\ (ctl.memo # Footprint(thread.obs) \/ "retry" \in due)
    THEN ClearBackoff(Unguarded) ELSE Unguarded

RateSpent(win) ==
    \/ win.cpu
    \/ /\ RateLimit > 0
       /\ \/ win.copied >= RateLimit
          \/ win.copied > 0 /\ thread.obs.live > RateLimit - win.copied

\* The decisions of evaluate_once, in their order: the first that applies
\* ends the evaluation.
PolicyDeferred == ~thread.auto
NoCandidate == thread.obs.sealed = 0
BelowThreshold == ~UnderPressure /\ SchedulingRatio(thread.obs) < DeadBp
LatencyDeferred(latency) == Guarded(latency) /\ "deferral" \notin due
NoGainBackoff ==
    ~UnderPressure /\ MaxNoGain > 0 /\ Recalled.memo # None /\ Recalled.noGain >= MaxNoGain
OverCopyBudget == ~UnderPressure /\ CopyLimit > 0 /\ thread.obs.live > CopyLimit

Decide ==
    /\ At("decide")
    /\ \E latency \in env.latencies :
         IF PolicyDeferred THEN Finish(Skip(ctl, "idle"))
         ELSE IF NoCandidate THEN Finish(Skip(ClearBackoff(Unguarded), "idle"))
         ELSE IF BelowThreshold THEN Finish(Skip(Unguarded, "idle"))
         ELSE IF LatencyDeferred(latency)
         THEN Finish(Skip([ctl EXCEPT !.guard = TRUE], "suspended"))
         ELSE IF NoGainBackoff \/ OverCopyBudget THEN Finish(Skip(Recalled, "suspended"))
         ELSE LET win == IF UnderPressure THEN window ELSE Refresh(window, due)
                  spent == ~UnderPressure /\ RateSpent(win)
                  c == IF spent THEN Skip(Recalled, "suspended") ELSE Recalled
              IN  /\ ctl' = c
                  /\ window' = win
                  /\ due' = Due(c, due) \ (IF UnderPressure THEN {} ELSE {"window"})
                  /\ thread' = IF spent THEN Quiet ELSE [thread EXCEPT !.pc = "start"]
                  /\ UNCHANGED evaluation

Start ==
    /\ At("start")
    /\ IF ctl.stop \/ ~ctl.bound THEN Finish(ctl)
       ELSE /\ ctl' = [ctl EXCEPT !.state = "compacting"]
            /\ thread' = [thread EXCEPT !.pc = "compact"]
            /\ UNCHANGED <<window, due, evaluation>>

\* Store::compact_for_maintenance takes its admission and compaction_mutex.
CompactBegin ==
    /\ At("compact")
    /\ IF store.open /\ store.lock = "free"
       THEN /\ store' = [store EXCEPT !.lock = "maintenance"]
            /\ thread' = [thread EXCEPT !.pc = "compacting",
                              !.before = <<store.sealed, store.live>>]
       ELSE /\ thread' = [thread EXCEPT !.pc = "result",
                              !.result = IF store.open THEN "conflict" ELSE "unavailable"]
            /\ UNCHANGED store
    /\ UNCHANGED <<env, ctl, window, due, mutator, closer, changes, faults>>

\* What a compaction leaves of the sealed Segments of `w`.
Compacted(s, w) ==
    [s EXCEPT !.sealed[w] = Replacements(s, w), !.live[w] = Kept(s, w), !.expired[w] = 0]

Released(s) == [s EXCEPT !.lock = "free"]

\* The outcomes of DurableRuntimeCatalog::compact_worker for the candidate:
\* a mutation at work, a change since the snapshot or a sealed set that has
\* grown past the budget conflicts, one that would remove no Segment is left alone, one whose
\* replacements do not fit fails, and any may fail on the files, before its
\* intent is durable or, the Store then fail-closed, after.
Outcomes(w) ==
    (IF ~store.healthy THEN {"unavailable"}
     ELSE IF store.sealed[w] = 0 THEN {"nogain"}
     ELSE IF ~UnderPressure /\ CopyLimit > 0 /\ store.live[w] > CopyLimit THEN {"conflict"}
     ELSE IF ~Gains(store, w) THEN {"nogain"}
     ELSE IF ~Fits(store, w) THEN {"error"} ELSE {"gain"})
    \union (IF /\ store.healthy
               /\ mutator # None \/ thread.before # <<store.sealed, store.live>>
            THEN {"conflict"} ELSE {})

CompactEnd ==
    /\ At("compacting")
    /\ LET w == thread.obs.candidate
           moved == [Released(store) EXCEPT !.cursor = NextWorker(w)]
       IN  \/ \E r \in Outcomes(w) :
                /\ thread' = [thread EXCEPT !.pc = "result", !.result = r,
                                  !.copied = IF r = "gain" THEN Kept(store, w) ELSE 0]
                /\ store' = IF r = "gain" THEN Compacted(moved, w) ELSE moved
                /\ UNCHANGED faults
           \/ /\ faults < env.faults /\ store.healthy
              /\ faults' = faults + 1
              /\ \E closed \in BOOLEAN :
                   /\ thread' = [thread EXCEPT !.pc = "result",
                                     !.result = IF closed THEN "unavailable" ELSE "error"]
                   /\ store' = [moved EXCEPT !.healthy = ~closed]
    /\ UNCHANGED <<env, ctl, window, due, mutator, closer, changes>>

\* The last section of evaluate_once. `slow` says that the compaction used up
\* the processor budget of its window.
AfterNoGain(c) ==
    LET n == Min({c.noGain + 1, MaxNoGain})
    IN  Skip([c EXCEPT !.noGain = n,
                       !.memo = IF MaxNoGain > 0 /\ n >= MaxNoGain
                                THEN Footprint(thread.obs) ELSE @], "idle")

AfterCompaction(r) ==
    CASE r = "unavailable" -> StoreClosed(ctl)
      [] r = "conflict"    -> Skip(ctl, "idle")
      [] r = "error"       -> Fault(ctl, ctl.rejected \/ ctl.pressure = "emergency")
      [] r = "nogain"      -> AfterNoGain(ctl)
      [] r = "gain"        -> Skip(ClearBackoff(ctl), "idle")

Result ==
    /\ At("result")
    /\ \E slow \in (IF UnderPressure THEN {FALSE} ELSE BOOLEAN) :
         LET win == Refresh(window, due)
         IN  window' = IF UnderPressure THEN win
                       ELSE [copied |-> win.copied + thread.copied, cpu |-> win.cpu \/ slow]
    /\ ctl' = AfterCompaction(thread.result)
    /\ due' = Due(ctl', due) \ ({"window"} \union IF thread.result = "nogain" THEN {"retry"} ELSE {})
    /\ thread' = Quiet
    /\ UNCHANGED evaluation

------------------------------------------------------------------------------
(* The Store around the controller *)

\* A mutation passes the gate.
Admit(w) ==
    /\ mutator = None /\ store.open /\ ~ctl.rejected /\ changes < env.changes
    /\ mutator' = w
    /\ changes' = changes + 1
    /\ UNCHANGED <<env, store, storeSide, closer, faults>>

\* It seals the active Segment and opens another.
Rotate ==
    /\ mutator # None
    /\ IF store.healthy /\ SegmentCount(store) < MaxSegments /\ FreeSegments(store) >= 1
       THEN store' = [store EXCEPT !.sealed[mutator] = @ + 1,
                                   !.live[mutator] = @ + SegmentUnits]
       ELSE UNCHANGED store
    /\ mutator' = None
    /\ UNCHANGED <<env, storeSide, closer, changes, faults>>

\* It fails on the files and the durable runtime is fail-closed from then on.
FailClosed ==
    /\ mutator # None /\ store.healthy /\ faults < env.faults
    /\ store' = [store EXCEPT !.healthy = FALSE]
    /\ mutator' = None
    /\ faults' = faults + 1
    /\ UNCHANGED <<env, storeSide, closer, changes>>

\* It replaces or erases a Record of a sealed Segment, which dies.
Overwrite ==
    /\ mutator # None /\ store.healthy /\ store.live[mutator] > 0
    /\ store' = [store EXCEPT !.live[mutator] = @ - 1,
                              !.expired[mutator] = Min({@, store.live[mutator] - 1})]
    /\ mutator' = None
    /\ UNCHANGED <<env, storeSide, closer, changes, faults>>

\* The clock passes the expiry of a Record nobody reads.
Expire(w) ==
    /\ changes < env.changes /\ store.expired[w] < store.live[w]
    /\ store' = [store EXCEPT !.expired[w] = @ + 1]
    /\ changes' = changes + 1
    /\ UNCHANGED <<env, storeSide, mutator, closer, faults>>

\* Others use the filesystem, or free it again.
OthersUse ==
    /\ env.tenants /\ changes < env.changes
    /\ store' = [store EXCEPT !.other = 1 - @]
    /\ changes' = changes + 1
    /\ UNCHANGED <<env, storeSide, mutator, closer, faults>>

\* Store::compact, called by the application: Workers are tried from the
\* cursor on until one gains, or conflicts with a mutation at work.
ManualBegin ==
    /\ env.manual /\ store.open /\ store.lock = "free" /\ changes < env.changes
    /\ store' = [store EXCEPT !.lock = "manual"]
    /\ changes' = changes + 1
    /\ UNCHANGED <<env, storeSide, mutator, closer, faults>>

ManualCompaction(s) ==
    LET having == {w \in Workers : s.sealed[w] > 0}
        gaining == {w \in having : Gains(s, w)}
        nearer(v, w) == Distance(s.cursor, v) <= Distance(s.cursor, w)
        first == CHOOSE w \in gaining : \A v \in gaining : nearer(w, v)
        last == CHOOSE w \in having : \A v \in having : nearer(v, w)
        moved(w) == [s EXCEPT !.cursor = NextWorker(w)]
    IN  IF having = {} THEN s
        ELSE IF gaining = {} THEN moved(last)
        ELSE IF Fits(s, first) THEN Compacted(moved(first), first) ELSE moved(first)

ManualEnd ==
    /\ store.lock = "manual"
    /\ \/ store' = IF store.healthy THEN ManualCompaction(Released(store)) ELSE Released(store)
       \/ /\ store.healthy /\ mutator # None /\ Candidate(store) # None
          /\ store' = [Released(store) EXCEPT !.cursor = NextWorker(Candidate(store))]
    /\ UNCHANGED <<env, storeSide, mutator, closer, changes, faults>>

\* Store::close: admission, request_stop, the drain of admitted operations,
\* join.
CloseAdmission ==
    /\ env.closes /\ closer = "open"
    /\ closer' = "admission"
    /\ store' = [store EXCEPT !.open = FALSE]
    /\ UNCHANGED <<env, storeSide, mutator, changes, faults>>

RequestStop ==
    /\ closer = "admission"
    /\ closer' = "draining"
    /\ ctl' = LET c == [ctl EXCEPT !.stop = TRUE, !.bound = FALSE, !.guard = FALSE,
                            !.state = IF @ = "compacting" THEN "draining"
                                      ELSE IF @ \in {"faulted", "draining"} THEN @
                                      ELSE "stopped"]
              IN  Publish(ClearBackoff(c), FALSE)
    /\ due' = Due(ctl', due)
    /\ UNCHANGED <<env, store, thread, window, mutator, changes, faults>>

\* wait_for_active_operations without a deadline, the default.
Drained ==
    /\ closer = "draining" /\ mutator = None /\ store.lock = "free"
    /\ closer' = "joining"
    /\ UNCHANGED <<env, store, storeSide, mutator, changes, faults>>

Join ==
    /\ closer = "joining" /\ At("exited")
    /\ closer' = "closed"
    /\ ctl' = Stopped(ctl)
    /\ UNCHANGED <<env, store, thread, window, due, mutator, changes, faults>>

\* Time passes one of the deadlines the controller keeps.
Running(clock) ==
    CASE clock = "deferral" -> ctl.guard
      [] clock = "retry"    -> ctl.memo # None
      [] clock = "window"   -> window # NoWindow

Clocks == {"deferral", "retry", "window"}

Elapse(clock) ==
    /\ Running(clock) /\ clock \notin due
    /\ due' = due \union {clock}
    /\ UNCHANGED <<env, store, ctl, thread, window, mutator, closer, changes, faults>>

ThreadStep ==
    \/ Idle \/ Begin \/ Exit \/ Observe \/ ClassifyPressure \/ Probe \/ ObservationFailed
    \/ Decide \/ Start \/ CompactBegin \/ CompactEnd \/ Result

CloseStep == RequestStop \/ Drained \/ Join

Next ==
    \/ ThreadStep
    \/ \E w \in env.writers : Admit(w) \/ Expire(w)
    \/ Rotate \/ Overwrite \/ FailClosed
    \/ OthersUse
    \/ ManualBegin \/ ManualEnd
    \/ CloseAdmission \/ CloseStep
    \/ \E clock \in Clocks : Elapse(clock)

\* Threads run, an admitted operation ends and time passes. Nobody must
\* write, close the Store or free the filesystem.
Fairness ==
    /\ WF_vars(ThreadStep)
    /\ WF_vars(CloseStep)
    /\ WF_vars(Rotate \/ Overwrite \/ FailClosed)
    /\ WF_vars(ManualEnd)
    /\ \A clock \in Clocks : WF_vars(Elapse(clock))

Spec == Init /\ [][Next]_vars /\ Fairness

------------------------------------------------------------------------------
(* Properties *)

\* Stop is final: once request_stop has opened the gate no evaluation in
\* flight closes it again, and when Store::close goes on to free the runtime
\* the thread is in neither of its callbacks and no compaction runs (without
\* close_drain_deadline_ms, whose end lets close go on beside operations).
StopIsFinal ==
    /\ ctl.stop => ~ctl.rejected
    /\ closer \in {"joining", "closed"} => store.lock = "free" /\ mutator = None
    /\ closer = "closed" => At("exited")

Reclaimable(w) == Gains(store, w) /\ Fits(store, w)

\* A Store is not wedged: while mutations are refused for capacity, automatic
\* compaction is on and some Worker's compaction would remove a Segment, the
\* controller keeps trying, whatever its observations, probes and compactions
\* answer from then on, until one does and the gate opens.  A fault outside an
\* emergency has turned automatic compaction off for good.
NotWedged ==
    ctl.rejected /\ ctl.auto ~> (~ctl.rejected \/ \A w \in Workers : ~Reclaimable(w))

\* The dead share of a Worker's sealed Segments that the normal policy is to
\* see: unread expired Records count when it is told to schedule for them.
Worthwhile(w) ==
    /\ ctl.auto /\ ~ctl.stop /\ store.open /\ store.healthy
    /\ Reclaimable(w)
    /\ CopyLimit > 0 => store.live[w] <= CopyLimit
    /\ LET bytes == store.sealed[w] * SegmentUnits
           dead == bytes - store.live[w] + (IF env.ttl THEN store.expired[w] ELSE 0)
       IN  dead * 10000 >= DeadBp * bytes

\* Reclaim happens: a Worker whose sealed Segments reach the dead-byte
\* threshold and fit the copy budget is compacted, however slow foreground
\* mutations stay, whatever other Workers' compactions gain, and whatever was
\* copied in earlier windows.
ReclaimHappens == \A w \in Workers : Worthwhile(w) ~> ~Worthwhile(w)
=============================================================================

------------------------------ MODULE Catalog ------------------------------
(***************************************************************************)
(* DurableRuntimeCatalog: the life of a durable Store on one data          *)
(* directory.  Creation, recovery, mutation, rotation of a full active     *)
(* Segment and whole-Worker compaction, with every change of a name in the *)
(* directory and every directory synchronisation a step of its own, so a   *)
(* crash or an I/O error can fall between any two.                         *)
(*                                                                         *)
(* A Segment holds SegCap Records [seq, key, op].  Appending a Record and  *)
(* sealing are single steps here (module SegmentFile shows that a crash    *)
(* leaves either the old or the new commit); in "periodic" mode the commit *)
(* of an append may be lost until a flush or a seal.                       *)
(*                                                                         *)
(* The thread that holds the Manifest publication lease, or that opens the *)
(* Store, runs a program of file-system steps: task is its program counter *)
(* and arguments.                                                          *)
(***************************************************************************)
EXTENDS DataDirectory

CONSTANTS
    Keys,
    Clients,        \* threads that mutate the Store
    SegCap,         \* Records a Segment holds
    MaxSeq,         \* bound on sequence numbers
    Environments    \* what may happen to the Store; see CatalogAssumption

\* An environment: the durability mode, the mutations of clients, the kinds of crash ("power" loss or
\* process "kill") and how many, the steps at which an I/O error may occur and
\* how many, and how many compactions are started.
ASSUME CatalogAssumption ==
    /\ SegCap \in Nat \ {0} /\ MaxSeq \in Nat
    /\ \A e \in Environments :
        /\ e.mode \in {"sync", "periodic"}
        /\ e.ops \subseteq {"put", "ttl", "erase"}
        /\ e.crash \subseteq {"power", "kill"}
        /\ {e.crashes, e.faults, e.compactions} \subseteq Nat

VARIABLES
    proc,       \* "down", "opening", "open" or "refused" (open reported corruption)
    task,       \* the running file-system program
    lease,      \* holder of the publication lease: "none", "rotation", "compaction"
    healthy,    \* healthy_ of the runtime
    dirHealthy, \* health_ of the DataDirectory
    manifest,   \* manifest_
    index,      \* per Worker and key, the indexed Record or Absent
    nextSeq,    \* per Worker, next_sequence
    synced,     \* per Worker, Records of the active Segment known to be durable
    mut,        \* per client, a mutation that met a full Segment
    job,        \* the compaction being built
    late,       \* the clock is past the expiry of "ttl" Records
    hist,       \* ghost: per Worker, the committed mutations in order
    crashes, faults, compactions,
    env         \* the environment of this behaviour, fixed

memVars == <<manifest, index, nextSeq, synced>>
ghostVars == <<hist, late, env, crashes, faults, compactions>>
restVars == <<proc, lease, healthy, dirHealthy, memVars, mut, job, ghostVars>>
vars == <<dirVars, task, restVars>>

NoTask == [who |-> "none", step |-> "none", worker |-> 0, client |-> Absent,
           next |-> Absent, left |-> {}]
NoJob == [pc |-> "none", worker |-> 0, base |-> Absent, seq |-> 0, live |-> <<>>,
          index |-> [k \in Keys |-> Absent], left |-> {}]
NoMut == [pc |-> "none", worker |-> 0, key |-> Absent, op |-> "put", seq |-> 0, active |-> 0]
EmptyIndex == [w \in Workers |-> [k \in Keys |-> Absent]]

Init ==
    /\ dir = EmptyDirectory /\ may = {EmptyDirectory}
    /\ data = [i \in {} |-> Pristine]
    /\ proc = "down" /\ task = NoTask /\ lease = "none"
    /\ healthy = TRUE /\ dirHealthy = TRUE
    /\ manifest = InitialManifest /\ index = EmptyIndex
    /\ nextSeq = [w \in Workers |-> 1] /\ synced = [w \in Workers |-> 0]
    /\ mut = [c \in Clients |-> NoMut] /\ job = NoJob
    /\ hist = [w \in Workers |-> <<>>]
    /\ late = FALSE /\ crashes = 0 /\ faults = 0 /\ compactions = 0
    /\ env \in Environments

----------------------------------------------------------------------------
(* File-system steps shared by the programs.                                *)

Healthy == healthy /\ dirHealthy
Goto(step) == task' = [task EXCEPT !.step = step]

\* The steps whose functions begin by testing the health of the directory.
EntrySteps == {"boot_tmp", "man_tmp", "seg_tmp", "seal", "intent_tmp", "promote", "retire",
               "intent_unlink"}

\* At step from, change a name; then go to step to.
NameStep(from, F(_), to) ==
    /\ task.step = from /\ (from \in EntrySteps => dirHealthy)
    /\ Rename(F)
    /\ Goto(to)
    /\ UNCHANGED <<data, restVars>>

SyncStep(from, to) ==
    /\ task.step = from
    /\ SyncDirectory
    /\ Goto(to)
    /\ UNCHANGED <<data, restVars>>

Lowest(S) == CHOOSE i \in S : \A j \in S : i.id <= j.id

\* Where publish_manifest and DurableSegmentFile::create return to.
AfterManifest == [bootstrap |-> "segments", rotation |-> "install",
                  resume |-> "scan", compaction |-> "install"]
AfterSegment == [bootstrap |-> "segments", rotation |-> "man_tmp", resume |-> "man_tmp"]

ManifestTmp == NameStep("man_tmp", LAMBDA n : AddTmp(n, "manifest"), "man_rename")
ManifestRename ==
    NameStep("man_rename", LAMBDA n : PutManifest(n, task.next), "man_sync")
\* Mutant: the directory is not synchronised after the rename.
ManifestSyncSkipped ==
    /\ task.step = "man_sync"
    /\ Goto(AfterManifest[task.who])
    /\ UNCHANGED <<dirVars, restVars>>

ManifestSync == /\ task.step = "man_sync"
                /\ SyncStep("man_sync", AfterManifest[task.who])

\* The Segment being created: the lowest missing one, or the replacement.
Created ==
    IF task.who = "bootstrap"
    THEN Lowest(MissingSegments(dir, task.next))
    ELSE Identity(ActiveEntry(task.next, task.worker))

SegmentTmp ==
    /\ task.step = "seg_tmp" /\ dirHealthy
    /\ Created \notin dir.segs
    /\ data' = [i \in DOMAIN data \cup {Created} |-> IF i = Created THEN Pristine ELSE data[i]]
    /\ Rename(LAMBDA n : AddSegmentTmp(n, Created))
    /\ Goto("seg_rename")
    /\ UNCHANGED restVars
SegmentRename == /\ task.step = "seg_rename"
                 /\ NameStep("seg_rename", LAMBDA n : PutSegment(n, Created), "seg_sync")
SegmentSync == /\ task.step = "seg_sync"
               /\ SyncStep("seg_sync", AfterSegment[task.who])

\* retire_compaction_segments: unlink each name, then one synchronisation.
Retire ==
    /\ task.step = "retire" /\ dirHealthy
    /\ Goto("unlink")
    /\ UNCHANGED <<dirVars, restVars>>
RetireOne ==
    /\ task.step = "unlink" /\ task.left # {}
    /\ LET i == Lowest(task.left)
       IN  /\ Rename(LAMBDA n : DropSegment(n, i))
           /\ task' = [task EXCEPT !.left = @ \ {i}]
    /\ UNCHANGED <<data, restVars>>
RetireSync == task.left = {} /\ SyncStep("unlink", "intent_unlink")
IntentUnlink == NameStep("intent_unlink", DropIntent, "intent_unlink_sync")
IntentUnlinkSync == SyncStep("intent_unlink_sync", "audit")

----------------------------------------------------------------------------
(* Opening: prepare_durable_store, then open_locked.                        *)

Refuse == proc' = "refused" /\ task' = NoTask
Program(who, step, next) ==
    task' = [NoTask EXCEPT !.who = who, !.step = step, !.next = next]
openingUnchanged == <<dirVars, lease, memVars, mut, job, ghostVars>>

\* An intent is only resumed over the initial Manifest and pristine Segments.
BootstrapConsistent ==
    /\ dir.manifest \in {Absent, InitialManifest}
    /\ \A i \in dir.segs \cap Identities(InitialManifest) : data[i] = Pristine

OpenStore ==
    /\ proc = "down"
    /\ healthy' = TRUE /\ dirHealthy' = TRUE
    /\ \/ /\ dir.boot /\ BootstrapConsistent
          /\ proc' = "opening"
          /\ Program("bootstrap", IF dir.manifest = Absent THEN "man_tmp" ELSE "segments",
                     InitialManifest)
       \/ /\ ~dir.boot /\ dir.manifest # Absent
          /\ proc' = "opening"
          /\ Program("recovery", "resolve", Absent)
       \/ /\ ~dir.boot /\ PristineForBootstrap(dir)
          /\ proc' = "opening"
          /\ Program("bootstrap", "boot_tmp", InitialManifest)
       \/ /\ \/ dir.boot /\ ~BootstrapConsistent
             \/ ~dir.boot /\ dir.manifest = Absent /\ ~PristineForBootstrap(dir)
          /\ Refuse
    /\ UNCHANGED openingUnchanged

BootTmp == NameStep("boot_tmp", LAMBDA n : AddTmp(n, "boot"), "boot_rename")
BootRename == NameStep("boot_rename", PutBootIntent, "boot_sync")
BootSync == SyncStep("boot_sync", "man_tmp")

\* complete_bootstrap creates the missing Segments, then finish_bootstrap.
BootSegments ==
    /\ task.step = "segments"
    /\ Goto(IF MissingSegments(dir, task.next) = {} THEN "boot_unlink" ELSE "seg_tmp")
    /\ UNCHANGED <<dirVars, restVars>>
BootUnlink == NameStep("boot_unlink", DropBootIntent, "boot_unlink_sync")
BootUnlinkSync == SyncStep("boot_unlink_sync", "resolve")

recoveryUnchanged == <<dirVars, lease, healthy, dirHealthy, memVars, mut, job, ghostVars>>

\* resolve_interrupted_compaction with an intent on disk: the Manifest decides
\* which side is obsolete.
ResolveCompaction ==
    /\ task.step = "resolve" /\ dir.intent # Absent
    /\ LET i == dir.intent
           n == OutputCount(i.old, i.next, i.worker)
           obsolete == IF dir.manifest = i.old THEN Replacements(i.old, i.worker, n)
                       ELSE Sources(i.old, i.worker)
       IN  IF /\ SafeForCompactionRecovery(dir, i)
              /\ ScanAccepts(dir.manifest)
              /\ ValidCompactionTransition(i.old, i.next, i.worker)
           THEN /\ task' = [NoTask EXCEPT !.who = "resolve", !.step = "retire",
                                          !.left = {Identity(e) : e \in obsolete}]
                /\ UNCHANGED proc
           ELSE Refuse
    /\ UNCHANGED recoveryUnchanged

\* Mutant: an interrupted rotation is left to the scan.
CompleteRotationSkipped ==
    /\ task.step = "resolve" /\ dir.intent = Absent
    /\ Goto("scan")
    /\ UNCHANGED <<proc, recoveryUnchanged>>

\* complete_interrupted_rotation.
CompleteRotation ==
    /\ task.step = "resolve" /\ dir.intent = Absent
    /\ LET m == dir.manifest
           prepared == [id |-> m.nextId, gen |-> 1]
           orphans == UnlistedSegments(dir, m)
           stuck == SealedActives(m)
       IN  \/ /\ \/ "intent" \in dir.tmps    \* not one of the two temporaries it skips
                 \/ MissingSegments(dir, m) # {} \/ ~(orphans \subseteq {prepared})
              /\ IF SafeForRecovery(dir, m) THEN UNCHANGED proc /\ Goto("scan") ELSE Refuse
           \/ /\ "intent" \notin dir.tmps
              /\ MissingSegments(dir, m) = {} /\ orphans \subseteq {prepared}
              /\ IF \/ Cardinality(stuck) > 1
                    \/ stuck = {} /\ orphans # {}
                    \/ stuck # {} /\ ~CanRotate(m)
                    \/ stuck # {} /\ orphans # {} /\ data[prepared] # Pristine
                 THEN Refuse
                 ELSE /\ UNCHANGED proc
                      /\ IF stuck = {} THEN Goto("scan")
                         ELSE LET e == CHOOSE x \in stuck : TRUE
                              IN  task' = [NoTask EXCEPT
                                      !.who = "resume", !.worker = e.owner,
                                      !.next = RotationManifest(m, e),
                                      !.step = IF orphans = {} THEN "seg_tmp" ELSE "man_tmp"]
    /\ UNCHANGED recoveryUnchanged

\* recover_durable_state without an intent.
Scan ==
    /\ task.step = "scan"
    /\ IF SafeForRecovery(dir, dir.manifest) /\ ScanAccepts(dir.manifest)
       THEN /\ Goto(IF dir.tmps = {} /\ dir.stmps = {} THEN "publish" ELSE "clean")
            /\ UNCHANGED proc
       ELSE Refuse
    /\ UNCHANGED recoveryUnchanged

\* cleanup_recovery_temporaries: unlink every stale temporary, then synchronise.
CleanOne ==
    /\ task.step = "clean"
    /\ \/ \E t \in dir.tmps : Rename(LAMBDA n : DropTmp(n, t))
       \/ dir.tmps = {} /\ \E i \in dir.stmps : Rename(LAMBDA n : DropSegmentTmps(n, {i}))
    /\ UNCHANGED <<data, task, restVars>>
CleanSync == dir.tmps = {} /\ dir.stmps = {} /\ SyncStep("clean", "publish")

Expired(r) == r.op = "ttl" /\ late
Active(w) == Identity(ActiveEntry(manifest, w))

\* Mutant: an expired Record does not hide the older ones.
RecoveredIndexOlder ==
    [w \in Workers |-> [k \in Keys |->
        LET R == {r \in WorkerRecords(dir.manifest, w) : r.key = k /\ ~Expired(r)}
        IN  IF R = {} THEN Absent ELSE IF Highest(R).op = "erase" THEN Absent ELSE Highest(R)]]

RecoveredIndex ==
    [w \in Workers |-> [k \in Keys |->
        LET r == Latest(dir.manifest, w, k)
        IN  IF r = Absent THEN Absent
            ELSE IF r.op = "erase" \/ Expired(r) THEN Absent ELSE r]]

\* The runtime is constructed unless an active Segment is still sealed, in
\* which case this open fails and the next one completes the rotation.
PublishRuntime ==
    /\ task.step = "publish" \/ (task.who = "resolve" /\ task.step = "audit")
    /\ task' = NoTask
    /\ LET m == dir.manifest
       IN  IF SafeForRecovery(dir, m) /\ SealedActives(m) = {}
           THEN /\ proc' = "open"
                /\ manifest' = m
                /\ index' = RecoveredIndex
                /\ nextSeq' = [w \in Workers |-> MaxSequence(m, w) + 1]
                /\ synced' = [w \in Workers |->
                                 LET n == Len(LogOf(ActiveEntry(m, w)))
                                 IN  IF synced[w] < n THEN synced[w] ELSE n]
           ELSE /\ proc' = IF SafeForRecovery(dir, m) THEN "down" ELSE "refused"
                /\ UNCHANGED memVars
    /\ UNCHANGED <<dirVars, lease, healthy, dirHealthy, mut, job, ghostVars>>

----------------------------------------------------------------------------
(* Mutations.                                                               *)

\* A mutation owns the Worker: it holds the Worker mutex or has set
\* mutation_io_active, around its append or its rotation.
Busy(w) ==
    \/ task.who = "rotation" /\ task.worker = w
    \/ \E c \in Clients : mut[c].worker = w /\ mut[c].pc \in {"full", "retry"}

\* compaction_commit_active: between arming the commit gate and the install.
Gated(w) == /\ task.who = "compaction" /\ task.worker = w
            /\ task.step \in {"man_tmp", "man_rename", "man_sync", "install"}

HasRoom(w) ==
    /\ data[Active(w)].state = "active"
    /\ Len(data[Active(w)].log) < SegCap

\* Append, publish the Index entry and advance the Worker sequence.
AppendRecord(w, k, op) ==
    LET r == [seq |-> nextSeq[w], key |-> k, op |-> op]
    IN  /\ data' = [data EXCEPT ![Active(w)].log = Append(@, r)]
        /\ nextSeq' = [nextSeq EXCEPT ![w] = @ + 1]
        /\ index' = [index EXCEPT ![w][k] = IF op = "erase" THEN Absent ELSE r]
        /\ hist' = [hist EXCEPT ![w] = Append(@, r)]
        /\ synced' = [synced EXCEPT ![w] = IF env.mode = "sync" THEN @ + 1 ELSE @]

Admissible(w, k, op) ==
    /\ proc = "open" /\ Healthy
    /\ ~Busy(w) /\ ~Gated(w)
    /\ nextSeq[w] <= MaxSeq
    /\ op = "erase" => index[w][k] # Absent /\ ~Expired(index[w][k])

Mutate(w, k, op) ==
    /\ Admissible(w, k, op) /\ HasRoom(w)
    /\ AppendRecord(w, k, op)
    /\ UNCHANGED <<dir, may, task, proc, lease, healthy, dirHealthy, manifest, mut, job,
                   late, env, crashes, faults, compactions>>

\* The append returned segment_full: the client goes for the lease.
MutateFull(c, w, k, op) ==
    /\ mut[c].pc = "none"
    /\ Admissible(w, k, op) /\ ~HasRoom(w)
    /\ mut' = [mut EXCEPT ![c] = [pc |-> "full", worker |-> w, key |-> k, op |-> op,
                                  seq |-> nextSeq[w], active |-> Active(w).id]]
    /\ UNCHANGED <<dirVars, task, proc, lease, healthy, dirHealthy, memVars, job, ghostVars>>

\* The second attempt of the mutation: one append to the current active
\* Segment, or not_committed.
MutateRetry(c) ==
    /\ mut[c].pc = "retry"
    /\ mut' = [mut EXCEPT ![c] = NoMut]
    /\ IF dirHealthy /\ HasRoom(mut[c].worker)
       THEN /\ AppendRecord(mut[c].worker, mut[c].key, mut[c].op)
            /\ UNCHANGED manifest
       ELSE UNCHANGED <<data, memVars, hist>>
    /\ UNCHANGED <<dir, may, task, proc, lease, healthy, dirHealthy, job,
                   late, env, crashes, faults, compactions>>

\* flush(), or the periodic flusher: the commit slots reach stable storage.
Flush ==
    /\ env.mode = "periodic" /\ proc = "open" /\ Healthy
    /\ \A w \in Workers : ~Busy(w)
    /\ synced' = [w \in Workers |-> Len(LogOf(ActiveEntry(manifest, w)))]
    /\ synced' # synced
    /\ UNCHANGED <<dirVars, task, proc, lease, healthy, dirHealthy, manifest, index, nextSeq,
                   mut, job, ghostVars>>

Tick ==
    /\ "ttl" \in env.ops /\ ~late
    /\ late' = TRUE
    /\ UNCHANGED <<dirVars, task, proc, lease, healthy, dirHealthy, memVars, mut, job,
                   hist, env, crashes, faults, compactions>>

----------------------------------------------------------------------------
(* Rotation of a full active Segment.                                       *)

Lock(c) == ~Busy(mut[c].worker)
leaseUnchanged == <<dirVars, proc, healthy, dirHealthy, memVars, job, ghostVars>>
MutGoto(c, pc) == mut' = [mut EXCEPT ![c].pc = pc]
MutDone(c) == mut' = [mut EXCEPT ![c] = NoMut]

\* A free lease is taken without looking at the health of the runtime.
TakeLease(c) ==
    /\ mut[c].pc = "full" /\ lease = "none"
    /\ LET w == mut[c].worker
       IN  IF CanRotate(manifest)
           THEN /\ lease' = "rotation"
                /\ task' = [NoTask EXCEPT !.who = "rotation", !.step = "seal", !.worker = w,
                                !.client = c,
                                !.next = RotationManifest(manifest, ActiveEntry(manifest, w))]
                /\ MutGoto(c, "rotating")
           ELSE MutDone(c) /\ UNCHANGED <<lease, task>>
    /\ UNCHANGED leaseUnchanged

WaitLease(c) ==
    /\ mut[c].pc = "full" /\ lease # "none"
    /\ MutGoto(c, "waiting")
    /\ UNCHANGED <<task, lease, leaseUnchanged>>

\* Mutant: a waiter is not woken by the failure of the runtime.
WakeLeaseHealthy(c) ==
    /\ mut[c].pc = "waiting" /\ lease = "none" /\ Healthy
    /\ MutGoto(c, "woken")
    /\ UNCHANGED <<task, lease, leaseUnchanged>>

\* The condition variable's predicate held; the Worker mutex is not yet taken.
WakeLease(c) ==
    /\ mut[c].pc = "waiting" /\ (lease = "none" \/ ~Healthy)
    /\ MutGoto(c, "woken")
    /\ UNCHANGED <<task, lease, leaseUnchanged>>

Recheck(c) ==
    /\ mut[c].pc = "woken" /\ Lock(c)
    /\ IF ~Healthy \/ nextSeq[mut[c].worker] # mut[c].seq THEN MutDone(c)
       ELSE MutGoto(c, IF Active(mut[c].worker).id # mut[c].active THEN "retry" ELSE "full")
    /\ UNCHANGED <<task, lease, leaseUnchanged>>

SealActive ==
    /\ task.step = "seal" /\ dirHealthy
    /\ data' = [data EXCEPT ![Active(task.worker)].state = "sealed"]
    /\ synced' = [synced EXCEPT ![task.worker] = Len(data[Active(task.worker)].log)]
    /\ Goto("seg_tmp")
    /\ UNCHANGED <<dir, may, proc, lease, healthy, dirHealthy, manifest, index, nextSeq, mut, job,
                   ghostVars>>

InstallRotation ==
    /\ task.who = "rotation" /\ task.step = "install"
    /\ lease' = "none" /\ task' = NoTask
    /\ IF Healthy
       THEN /\ manifest' = task.next
            /\ synced' = [synced EXCEPT ![task.worker] = 0]
            /\ MutGoto(task.client, "retry")
            /\ UNCHANGED healthy
       ELSE /\ healthy' = FALSE
            /\ MutDone(task.client)
            /\ UNCHANGED <<manifest, synced>>
    /\ UNCHANGED <<dirVars, proc, dirHealthy, index, nextSeq, job, ghostVars>>

----------------------------------------------------------------------------
(* Compaction of every sealed Segment of a Worker.                          *)

\* The indexed Records that live in the sealed Segments and have not expired.
LiveSealed(w) ==
    {r \in {index[w][k] : k \in Keys} \ {Absent} :
        ~Expired(r) /\ \E e \in Sources(manifest, w) : r \in Records(e)}

\* The Index of the Worker without the sealed Records that are not copied.
PreparedIndex(w) ==
    LET kept == LiveSealed(w) \cup Records(ActiveEntry(manifest, w))
    IN  [k \in Keys |-> IF index[w][k] \in kept THEN index[w][k] ELSE Absent]

\* R in sequence order; the layout fills one output after the other.
InOrder(R) == CHOOSE s \in [1..Cardinality(R) -> R] :
                  \A i, j \in 1..Cardinality(R) : i < j => s[i].seq < s[j].seq
Outputs(live) == (Len(live) + SegCap - 1) \div SegCap
\* Mutant: an output misses the last Record of its share.
OutputLogShort(live, j) ==
    SubSeq(live, (j - 1) * SegCap + 1, IF j * SegCap < Len(live) THEN j * SegCap ELSE Len(live) - 1)

OutputLog(live, j) ==
    SubSeq(live, (j - 1) * SegCap + 1, IF j * SegCap < Len(live) THEN j * SegCap ELSE Len(live))

JobOutputs == {Identity(e) : e \in Replacements(job.base, job.worker, Outputs(job.live))}

StartCompaction(w) ==
    /\ proc = "open" /\ Healthy /\ job.pc = "none"
    /\ compactions < env.compactions
    /\ ~Busy(w)
    /\ Sources(manifest, w) # {}
    /\ LET live == InOrder(LiveSealed(w))
       IN  /\ Outputs(live) < Cardinality(Sources(manifest, w))
           /\ job' = [pc |-> "stage", worker |-> w, base |-> manifest, seq |-> nextSeq[w],
                      live |-> live, index |-> PreparedIndex(w),
                      left |-> {Identity(e) : e \in Replacements(manifest, w, Outputs(live))}]
    /\ compactions' = compactions + 1
    /\ UNCHANGED <<dirVars, task, proc, lease, healthy, dirHealthy, memVars, mut,
                   hist, late, env, crashes, faults>>

\* A verified, sealed output under its temporary name.
StageOutput ==
    /\ job.pc = "stage" /\ job.left # {}
    /\ LET i == Lowest(job.left)
           j == Cardinality(JobOutputs \ job.left) + 1
       IN  /\ dirHealthy /\ i \notin dir.segs /\ i \notin dir.stmps
           /\ data' = [h \in DOMAIN data \cup {i} |->
                          IF h = i THEN [state |-> "sealed", log |-> OutputLog(job.live, j)]
                          ELSE data[h]]
           /\ Rename(LAMBDA n : AddSegmentTmp(n, i))
           /\ job' = [job EXCEPT !.left = @ \ {i}]
    /\ UNCHANGED <<task, proc, lease, healthy, dirHealthy, memVars, mut, ghostVars>>

GateOpen == lease = "none" /\ Healthy /\ manifest = job.base

\* The staged outputs are complete: take the lease for the publication.
OpenGate ==
    /\ job.pc = "stage" /\ job.left = {} /\ GateOpen
    /\ lease' = "compaction"
    /\ job' = [job EXCEPT !.pc = "publish"]
    /\ task' = [NoTask EXCEPT !.who = "compaction", !.step = "intent_tmp", !.worker = job.worker,
                    !.next = CompactionManifest(job.base, job.worker, Outputs(job.live))]
    /\ UNCHANGED <<dirVars, proc, healthy, dirHealthy, memVars, mut, ghostVars>>

\* Staging failed or the gate is closed: the staged temporaries are discarded.
DropJob ==
    /\ job.pc = "stage"
    /\ IF job.left = {} THEN ~GateOpen
       ELSE \/ ~dirHealthy
            \/ Lowest(job.left) \in dir.segs \cup dir.stmps
    /\ Rename(LAMBDA n : DropSegmentTmps(n, JobOutputs \ job.left))
    /\ job' = NoJob
    /\ UNCHANGED <<data, task, proc, lease, healthy, dirHealthy, memVars, mut, ghostVars>>

IntentTmp == NameStep("intent_tmp", LAMBDA n : AddTmp(n, "intent"), "intent_rename")
IntentRename ==
    NameStep("intent_rename",
             LAMBDA n : PutIntent(n, [worker |-> job.worker, old |-> job.base, next |-> task.next]),
             "intent_sync")
\* Mutant: the outputs get their names before the intent is durable.
IntentSyncSkipped ==
    /\ task.step = "intent_sync"
    /\ Goto("promote")
    /\ UNCHANGED <<dirVars, restVars>>

IntentSync == SyncStep("intent_sync", "promote")

\* promote_staged checks every output, renames them, then synchronises; an
\* empty plan does nothing.
Promote ==
    /\ task.step = "promote" /\ dirHealthy
    /\ JobOutputs \cap dir.segs = {}
    /\ task' = [task EXCEPT !.step = IF JobOutputs = {} THEN "quiesce" ELSE "rename",
                            !.left = JobOutputs]
    /\ UNCHANGED <<dirVars, restVars>>
PromoteOne ==
    /\ task.step = "rename" /\ task.left # {}
    /\ LET i == Lowest(task.left)
       IN  /\ Rename(LAMBDA n : PutSegment(n, i))
           /\ task' = [task EXCEPT !.left = @ \ {i}]
    /\ UNCHANGED <<data, restVars>>
PromoteSync == task.left = {} /\ SyncStep("rename", "quiesce")

\* Mutant: the final validation does not compare the Worker sequence.
CommitUnvalidated ==
    /\ task.step = "quiesce" /\ ~Busy(job.worker)
    /\ Healthy /\ manifest = job.base
    /\ Goto("man_tmp")
    /\ UNCHANGED <<dirVars, restVars>>

\* Arm the commit gate, wait for the Worker to be quiet, validate again.
Commit ==
    /\ task.step = "quiesce" /\ ~Busy(job.worker)
    /\ Healthy /\ manifest = job.base /\ nextSeq[job.worker] = job.seq
    /\ Goto("man_tmp")
    /\ UNCHANGED <<dirVars, restVars>>

\* abort_prepared: the validation failed, or the Worker mutex was taken.
Abort ==
    /\ task.step = "quiesce"
    /\ task' = [task EXCEPT !.who = "rollback", !.step = "retire", !.left = JobOutputs]
    /\ UNCHANGED <<dirVars, restVars>>

\* The prepared Index replaces the Worker's.
InstallCompaction ==
    /\ task.who = "compaction" /\ task.step = "install"
    /\ manifest' = task.next
    /\ index' = [index EXCEPT ![job.worker] = job.index]
    /\ task' = [task EXCEPT !.step = "retire",
                            !.left = {Identity(e) : e \in Sources(job.base, job.worker)}]
    /\ UNCHANGED <<dirVars, proc, lease, healthy, dirHealthy, nextSeq, synced, mut, job, ghostVars>>

\* The last audit of a compaction or of its rollback; the lease is released.
FinishCompaction ==
    /\ task.who \in {"compaction", "rollback"} /\ task.step = "audit"
    /\ task' = NoTask /\ job' = NoJob /\ lease' = "none"
    /\ healthy' = (healthy /\ SafeForRecovery(dir, IF task.who = "rollback" THEN job.base
                                                   ELSE task.next))
    /\ UNCHANGED <<dirVars, proc, dirHealthy, memVars, mut, ghostVars>>

----------------------------------------------------------------------------
(* I/O errors and crashes.                                                  *)

Opening == {"bootstrap", "recovery", "resolve", "resume"}

\* A temporary could not be written or synchronised: it is removed.  The two
\* intents synchronise the directory after that.
RemoveTemporary ==
    CASE task.step = "seg_rename" -> Rename(LAMBDA n : DropSegmentTmps(n, {Created}))
      [] task.step = "promote" -> Rename(LAMBDA n : DropSegmentTmps(n, JobOutputs))
      [] task.step = "man_rename" -> Rename(LAMBDA n : DropTmp(n, "manifest"))
      [] task.step = "boot_rename" -> dir' = DropTmp(dir, "boot") /\ may' = {dir'}
      [] task.step = "intent_rename" ->
             /\ dir' = DropSegmentTmps(DropTmp(dir, "intent"), JobOutputs)
             /\ may' = {DropTmp(dir, "intent"), dir'}
      [] OTHER -> UNCHANGED <<dir, may>>

\* The staged outputs are discarded until all of them have their names.
DiscardStaged ==
    IF task.who = "compaction" /\ task.step \in {"intent_tmp", "intent_rename", "intent_sync",
                                                  "promote", "rename"}
    THEN Rename(LAMBDA n : DropSegmentTmps(n, JobOutputs))
    ELSE UNCHANGED <<dir, may>>

\* How the failing function's caller ends.  stillHealthy: the runtime goes on.
Fail(stillHealthy) ==
    /\ task' = NoTask
    /\ IF task.who \in Opening THEN proc' = "down" /\ UNCHANGED <<lease, healthy>>
       ELSE lease' = "none" /\ healthy' = (healthy /\ stillHealthy) /\ UNCHANGED proc
    /\ mut' = IF task.who = "rotation" THEN [mut EXCEPT ![task.client] = NoMut] ELSE mut
    /\ job' = IF task.who \in {"compaction", "rollback"} THEN NoJob ELSE job
    /\ UNCHANGED <<manifest, index, nextSeq, hist, late, env, crashes, compactions>>

Fault == faults < env.faults /\ task.step \in env.steps /\ faults' = faults + 1

\* An error before anything was renamed, or an occupied Segment name.
CleanFailure ==
    /\ \/ task.step \in {"seal", "seg_rename", "man_rename", "boot_rename", "intent_rename",
                         "promote"} /\ Fault
       \/ task.step = "seg_tmp" /\ dirHealthy /\ Created \in dir.segs /\ UNCHANGED faults
    /\ RemoveTemporary
    /\ Fail(task.step \in {"seal", "intent_rename"})
    /\ UNCHANGED <<data, dirHealthy, synced>>

\* An error whose effect on the files is unknown, or a directory another
\* thread has already poisoned.
PoisonedFailure ==
    /\ \/ task.step # "seg_tmp" /\ task.step # "none" /\ dirHealthy /\ Fault
       \/ task.step \in EntrySteps /\ ~dirHealthy /\ UNCHANGED faults
    /\ dirHealthy' = FALSE
    /\ DiscardStaged
    /\ \/ UNCHANGED <<data, synced>>
       \/ /\ task.step = "seal" /\ dirHealthy
          /\ data' = [data EXCEPT ![Active(task.worker)].state = "sealed"]
          /\ synced' = [synced EXCEPT ![task.worker] = Len(data[Active(task.worker)].log)]
    /\ Fail(FALSE)

\* An append fails: its commit may or may not have reached the file.
AppendFails(w, k, op) ==
    /\ "append" \in env.steps /\ faults < env.faults
    /\ Admissible(w, k, op) /\ HasRoom(w)
    /\ faults' = faults + 1
    /\ dirHealthy' = FALSE /\ healthy' = FALSE
    /\ LET r == [seq |-> nextSeq[w], key |-> k, op |-> op]
       IN  \/ /\ data' = [data EXCEPT ![Active(w)].log = Append(@, r)]
              /\ hist' = [hist EXCEPT ![w] = Append(@, r)]
              /\ synced' = [synced EXCEPT ![w] = IF env.mode = "sync" THEN @ + 1 ELSE @]
           \/ UNCHANGED <<data, hist, synced>>
    /\ UNCHANGED <<dir, may, task, proc, lease, manifest, index, nextSeq, mut, job,
                   late, env, crashes, compactions>>

\* What Worker w's unsynchronised commits come down to.
Unsynced(w) ==
    IF Active(w) \in DOMAIN data /\ data[Active(w)].state = "active"
    THEN Len(data[Active(w)].log) - synced[w] ELSE 0
Lose(s, n) == SubSeq(s, 1, Len(s) - n)

\* The process ends.  A power loss takes any of the pending directory changes
\* and any suffix of the unsynchronised commits with it.
Crash(kind) ==
    /\ crashes < env.crashes /\ proc # "refused"
    /\ crashes' = crashes + 1
    /\ IF kind = "power"
       THEN /\ \E n \in may : dir' = n /\ may' = {n}
            /\ \E lost \in [Workers -> 0..SegCap] :
                 /\ \A w \in Workers : lost[w] <= Unsynced(w)
                 /\ hist' = [w \in Workers |-> Lose(hist[w], lost[w])]
                 /\ data' = [i \in DOMAIN data |->
                      IF \E w \in Workers : i = Active(w)
                      THEN [data[i] EXCEPT !.log =
                                Lose(@, lost[CHOOSE w \in Workers : i = Active(w)])]
                      ELSE data[i]]
                 /\ synced' = [w \in Workers |-> synced[w] + Unsynced(w) - lost[w]]
       ELSE UNCHANGED <<dirVars, hist, synced>>
    /\ proc' = "down" /\ task' = NoTask /\ lease' = "none" /\ job' = NoJob
    /\ mut' = [c \in Clients |-> NoMut]
    /\ index' = EmptyIndex /\ nextSeq' = [w \in Workers |-> 1]
    /\ healthy' = TRUE /\ dirHealthy' = TRUE
    /\ UNCHANGED <<manifest, late, env, faults, compactions>>

\* Dropping the Store ends the process with nothing in flight.
Close ==
    /\ proc = "open" /\ task = NoTask /\ job = NoJob /\ \A c \in Clients : mut[c] = NoMut
    /\ ~Healthy
    /\ proc' = "down" /\ index' = EmptyIndex /\ nextSeq' = [w \in Workers |-> 1]
    /\ healthy' = TRUE /\ dirHealthy' = TRUE
    /\ UNCHANGED <<dirVars, task, lease, manifest, synced, mut, job, ghostVars>>

----------------------------------------------------------------------------
OpenSteps ==
    \/ BootTmp \/ BootRename \/ BootSync \/ BootSegments \/ BootUnlink \/ BootUnlinkSync
    \/ ResolveCompaction \/ CompleteRotation \/ Scan \/ CleanOne \/ CleanSync \/ PublishRuntime

SharedSteps ==
    \/ ManifestTmp \/ ManifestRename \/ ManifestSync
    \/ SegmentTmp \/ SegmentRename \/ SegmentSync
    \/ Retire \/ RetireOne \/ RetireSync \/ IntentUnlink \/ IntentUnlinkSync

LeaseSteps ==
    \/ SealActive \/ InstallRotation
    \/ IntentTmp \/ IntentRename \/ IntentSync \/ Promote \/ PromoteOne \/ PromoteSync
    \/ Commit \/ Abort \/ InstallCompaction \/ FinishCompaction

Failures == CleanFailure \/ PoisonedFailure

ClientSteps(c) ==
    \/ TakeLease(c) \/ WaitLease(c) \/ WakeLease(c) \/ Recheck(c) \/ MutateRetry(c)

JobSteps == StageOutput \/ OpenGate \/ DropJob

Requests ==
    \/ \E w \in Workers, k \in Keys, op \in env.ops :
           \/ Mutate(w, k, op)
           \/ AppendFails(w, k, op)
           \/ \E c \in Clients : MutateFull(c, w, k, op)
    \/ \E w \in Workers : StartCompaction(w)
    \/ Flush

Next ==
    \/ OpenStore \/ OpenSteps \/ SharedSteps \/ LeaseSteps \/ Failures
    \/ \E c \in Clients : ClientSteps(c)
    \/ JobSteps \/ Requests \/ Tick \/ Close
    \/ \E kind \in env.crash : Crash(kind)

\* Every thread inside the Store runs on, the operator restarts it, and a
\* fail-closed Store is closed; a thread gets a mutex that keeps being
\* released.  Clients, maintenance and time need not act.
Fairness ==
    /\ WF_vars(OpenStore) /\ WF_vars(OpenSteps \/ SharedSteps \/ LeaseSteps \/ Failures)
    /\ WF_vars(JobSteps) /\ WF_vars(Close)
    /\ \A c \in Clients : WF_vars(ClientSteps(c)) /\ SF_vars(Recheck(c))

Spec == Init /\ [][Next]_vars
FairSpec == Spec /\ Fairness

----------------------------------------------------------------------------
(* Properties.                                                              *)

Steps == {"none", "boot_tmp", "boot_rename", "boot_sync", "segments", "boot_unlink",
          "boot_unlink_sync", "resolve", "scan", "clean", "publish", "man_tmp", "man_rename",
          "man_sync", "seg_tmp", "seg_rename", "seg_sync", "seal", "install", "intent_tmp",
          "intent_rename", "intent_sync", "promote", "rename", "quiesce", "retire", "unlink",
          "intent_unlink", "intent_unlink_sync", "audit"}

\* The variables of the runtime (DurableRuntimeCatalog and DataDirectory) stay
\* in their domains, and the lease has an owner program exactly while held.
TypeOK ==
    /\ proc \in {"down", "opening", "open", "refused"}
    /\ lease \in {"none", "rotation", "compaction"}
    /\ task.step \in Steps
    /\ (lease = "rotation") <=> (task.who = "rotation")
    /\ (lease = "compaction") <=> (task.who \in {"compaction", "rollback"})
    /\ (proc = "opening") <=> (task.who \in Opening)
    /\ healthy \in BOOLEAN /\ dirHealthy \in BOOLEAN
    /\ dir \in may
    /\ ValidManifest(manifest)
    /\ \A w \in Workers : synced[w] \in 0..SegCap /\ nextSeq[w] \in 1..(MaxSeq + 1)

\* What the committed mutations of Worker w leave under key k.
Outcome(w, k) ==
    LET about == {j \in 1..Len(hist[w]) : hist[w][j].key = k}
    IN  IF about = {} THEN Absent
        ELSE LET r == hist[w][CHOOSE j \in about : \A i \in about : i <= j]
             IN  IF r.op = "erase" \/ Expired(r) THEN Absent ELSE r

Visible(w, k) == IF index[w][k] = Absent THEN Absent
                 ELSE IF Expired(index[w][k]) THEN Absent ELSE index[w][k]

\* The namespaces the next process may find.
Survivors == IF "power" \in env.crash THEN may ELSE {dir}

\* An open, healthy Store shows exactly the committed mutations: whatever
\* crashes, rotations, compactions and recoveries came before, the Index has
\* for each key its last committed value, no erased or expired one, no older
\* one (recover_index, compact_worker, rotate_active).
RecoveredState ==
    proc = "open" /\ Healthy =>
        \A w \in Workers, k \in Keys : Visible(w, k) = Outcome(w, k)

\* Every Record the Index of an open Store refers to is in a Segment of the
\* in-memory Manifest whose name exists: a read never misses its file
\* (retire_compaction_segments against manifest_ and index).
IndexResolves ==
    proc = "open" =>
        \A w \in Workers, k \in Keys :
            index[w][k] # Absent =>
                \E e \in WorkerEntries(manifest, w) :
                    index[w][k] \in Records(e) /\ Identity(e) \in dir.segs

\* No crash, at any step of creation, rotation, compaction or recovery itself,
\* leaves a directory the next open refuses (prepare_durable_store,
\* open_locked).
AlwaysOpens == proc # "refused"

\* While a compaction intent can be found after a crash, the Manifest found
\* with it is one of the intent's two (publish_compaction_intent, the lease).
NoThirdAuthority ==
    \A n \in Survivors : n.intent # Absent => n.manifest \in {n.intent.old, n.intent.next}

\* Whatever a power loss keeps of the pending changes, an intent is found only
\* with one of its two Manifests and each Segment a visible Manifest lists is
\* there: names are removed only after the Manifest that
\* still lists them is durably superseded (retire_compaction_segments after
\* publish_manifest, create before publish_manifest).
AuthorityIsComplete ==
    /\ NoThirdAuthority
    /\ \A n \in Survivors : n.manifest # Absent /\ ~n.boot => MissingSegments(n, n.manifest) = {}

\* An open Store stays open or is opened again: each recovery terminates
\* (open_locked), also the one that first has to finish a rotation.
Reopens == (proc = "down") ~> (proc = "open")

\* The publication lease is given back (ScopeExit of rotate_active and
\* compact_worker) and a client that met a full Segment gets an answer: no
\* waiter is forgotten when the lease is released or the Store fails
\* (manifest_publication_changed_).
MutationsEnd ==
    /\ (lease # "none") ~> (lease = "none")
    /\ \A c \in Clients : (mut[c].pc # "none") ~> (mut[c].pc = "none")

\* However two Workers' rotations and a compaction compete for the lease, the
\* Store shows exactly the committed mutations, opens again, and leaves an
\* intent only with its two Manifests (manifest_publication_mutex_).
StoreIsSound == TypeOK /\ RecoveredState /\ AlwaysOpens /\ NoThirdAuthority
============================================================================

----------------------------- MODULE StoreTools -----------------------------
(***************************************************************************)
(* The tools that copy a durable Store: backup of a stopped Store and of   *)
(* an open one (store_backup.cpp, Store::backup_to), repair into a         *)
(* workspace (store_repair.cpp) and migration to another Worker count      *)
(* (store_migrate.cpp), beside the daemon that serves the source.          *)
(*                                                                         *)
(* A directory maps file names to contents. A Segment holds the last       *)
(* Record of each key, 0 for none; the Manifest lists the Segments of the  *)
(* one Worker, <<id, generation>>, from the oldest to the active one. How  *)
(* the daemon commits, rotates and compacts is module Catalog; here each   *)
(* is one durable step.                                                    *)
(***************************************************************************)
EXTENDS Integers, Sequences, FiniteSets, SequencesExt, FiniteSetsExt, TLC

CONSTANTS
    Keys,           \* integers: their order is that of the key bytes
    Values,         \* integers above 0
    Expiring,       \* the values written with an expiry
    Tools,          \* invocations that may overlap
    Parallelism,    \* kBackupSegmentCopyParallelism
    MaxChanges,     \* bound: mutations of the source
    MaxCatalog,     \* bound: Segments in the source's catalog
    NoTool,
    Environments    \* which tools run and what may go wrong: see Init

ASSUME ToolsAssumption ==
    /\ Keys \subseteq Nat \ {0} /\ Values \subseteq Nat \ {0}
    /\ Expiring \subseteq Values /\ Parallelism \in Nat \ {0}
    /\ NoTool \notin Tools /\ MaxChanges \in Nat

VARIABLES
    env,      \* [kind : [Tools -> kind of tool], source : a directory,
              \*  writes : SUBSET (Keys \X values), debris : SUBSET names,
              \*  loss, power, clock, frozen : BOOLEAN,
              \*  attempts : the bound on invocations]
    src,      \* the source directory
    holder,   \* who holds the source's lock: a tool, "daemon" or "none"
    gate,     \* admission: [closed, fence, mutex]
    op,       \* the daemon's admitted operation: "none", "put", "compact"
              \* or "locked", a compaction that holds compaction_mutex
    late,     \* the clock has passed the expiries
    changes,
    attempts,
    job,      \* [Tools -> a tool's progress]
    dst,      \* [Tools -> destination directory, empty before it exists]
    safe,     \* [Tools -> names whose directory entry is synchronised]
    shot,     \* [Tools -> what the source held when the tool fixed it]
    result,   \* [Tools -> "none", "ok" or "error"]
    quarantine, evidence, \* the workspace's second directory, and what it owes
    ckpt,     \* the migration's checkpoint: a key, NoCheckpoint or Torn
    older     \* what a power loss may bring back instead of it

daemonVars == <<src, op, changes>>
copyVars == <<dst, safe>>
migrateVars == <<ckpt, older>>
repairVars == <<quarantine, evidence>>
vars == <<env, holder, gate, late, attempts, job, shot, result,
          daemonVars, copyVars, migrateVars, repairVars>>

Erased == -1
NoCheckpoint == 0
Torn == -1

ManifestName == <<"manifest", 0>>
LockName == <<"lock", 0>>
SegmentName(e) == <<"segment", e>>
AuditName == <<"unknown", 0>>
Whole(data) == [whole |-> TRUE, data |-> data]
Partial == [whole |-> FALSE]
Bytes == Whole("bytes")

EmptySegment == [k \in Keys |-> 0]
EmptyStore ==
    LockName :> Bytes @@ ManifestName :> Whole(<<<<1, 1>>>>)
    @@ SegmentName(<<1, 1>>) :> Whole(EmptySegment)

Catalog(dir) == dir[ManifestName].data
CatalogNames(dir) == {SegmentName(e) : e \in ToSet(Catalog(dir))}

\* The value of k in the Segments `ids` of dir: that of the newest with one.
Newest(dir, ids, k) ==
    LET with == {n \in DOMAIN ids : dir[SegmentName(ids[n])].data[k] # 0}
        last == dir[SegmentName(ids[Max(with)])].data[k]
    IN  IF with = {} \/ last = Erased THEN 0 ELSE last

Contents(dir) == [k \in Keys |-> Newest(dir, Catalog(dir), k)]
Visible(v) == IF late /\ v \in Expiring THEN 0 ELSE v

\* audit_data_directory: every entry the catalog does not account for.
Issues(dir) == DOMAIN dir \ (CatalogNames(dir) \union {ManifestName, LockName})
Missing(dir) == CatalogNames(dir) \ DOMAIN dir
BlockingForRecovery(name) == name[1] # "temporary"
Quarantinable(name) == name[1] # "unsafe"

ToQuarantine(dir) == {f \in Issues(dir) : Quarantinable(f)}

HasManifest(dir) == ManifestName \in DOMAIN dir /\ dir[ManifestName].whole
CatalogIsWhole(dir) ==
    /\ HasManifest(dir)
    /\ Missing(dir) = {}
    /\ \A f \in CatalogNames(dir) : dir[f].whole

\* verify_durable_store, and what Store::open demands of a directory.
Verifies(dir) ==
    /\ CatalogIsWhole(dir)
    /\ \A f \in Issues(dir) : ~BlockingForRecovery(f)

Idle == [pc |-> "idle", todo |-> {}, busy |-> {}, failed |-> FALSE,
         keys |-> {}, last |-> NoCheckpoint]
OpenGate == [closed |-> FALSE, fence |-> 0, mutex |-> NoTool]
Running(t) == job[t].pc # "idle"
Kind(t) == env.kind[t]
At(t, pc) == job[t].pc = pc
Goto(t, pc) == job' = [job EXCEPT ![t].pc = pc]

Init ==
    /\ env \in Environments
    /\ src = env.source /\ holder = "none" /\ gate = OpenGate /\ op = "none"
    /\ late = FALSE /\ changes = 0 /\ attempts = 0
    /\ job = [t \in Tools |-> Idle]
    /\ dst = [t \in Tools |-> <<>>]
    /\ safe = [t \in Tools |-> {}]
    /\ shot = [t \in Tools |-> EmptySegment]
    /\ result = [t \in Tools |-> "none"]
    /\ quarantine = <<>> /\ evidence = {}
    /\ ckpt = NoCheckpoint /\ older = {}
-----------------------------------------------------------------------------
(***************************************************************************)
(* The daemon. An operation counts itself unless admission is closed; a    *)
(* compaction also takes compaction_mutex, if it is free.                  *)
(***************************************************************************)
DaemonStart ==
    /\ holder = "none" /\ Verifies(src)
    /\ holder' = "daemon" /\ gate' = OpenGate
    /\ UNCHANGED <<env, late, attempts, job, shot, result,
                   daemonVars, copyVars, migrateVars, repairVars>>

BeginOperation ==
    /\ holder = "daemon" /\ op = "none" /\ ~gate.closed
    /\ changes < MaxChanges /\ (env.frozen => attempts = 0)
    /\ changes' = changes + 1
    /\ op' \in {"put", "compact"}
    /\ UNCHANGED <<env, holder, gate, late, attempts, job, shot, result, src,
                   copyVars, migrateVars, repairVars>>

\* A Record in the active Segment.
WithRecord(dir, k, v) == [dir EXCEPT ![SegmentName(Last(Catalog(dir)))].data[k] = v]

\* A rotation lists a new active Segment before the Record is written. The
\* last id given out is the active Segment's.
Rotated(dir) ==
    LET new == <<Last(Catalog(dir))[1] + 1, 1>>
    IN  [dir EXCEPT ![ManifestName].data = Append(@, new)]
        @@ SegmentName(new) :> Whole(EmptySegment)

\* The sealed Segments replaced by one that holds their live Records, if there
\* are any: the earliest id, one generation up.
Compacted(dir) ==
    LET sealed == Front(Catalog(dir))
        active == Last(Catalog(dir))
        live == [k \in Keys |->
                   IF dir[SegmentName(active)].data[k] = 0
                   THEN Newest(dir, sealed, k) ELSE 0]
        output == [sealed[1] EXCEPT ![2] = @ + 1]
        kept == [f \in DOMAIN dir \ {SegmentName(e) : e \in ToSet(sealed)} |->
                   dir[f]]
    IN  IF live = EmptySegment
        THEN [kept EXCEPT ![ManifestName].data = <<active>>]
        ELSE [kept EXCEPT ![ManifestName].data = <<output, active>>]
             @@ SegmentName(output) :> Whole(live)

Mutate ==
    /\ op = "put" /\ op' = "none"
    /\ \E w \in env.writes :
          \/ src' = WithRecord(src, w[1], w[2])
          \/ /\ Len(Catalog(src)) < MaxCatalog
             /\ src' = WithRecord(Rotated(src), w[1], w[2])
    /\ UNCHANGED <<env, holder, gate, late, changes, attempts, job, shot,
                   result, copyVars, migrateVars, repairVars>>

CompactionLock ==
    /\ op = "compact"
    /\ IF gate.mutex = NoTool /\ Len(Catalog(src)) > 1
       THEN op' = "locked" /\ gate' = [gate EXCEPT !.mutex = "compaction"]
       ELSE op' = "none" /\ UNCHANGED gate
    /\ UNCHANGED <<env, holder, late, changes, attempts, job, shot, result, src,
                   copyVars, migrateVars, repairVars>>

Compact ==
    /\ op = "locked" /\ op' = "none"
    /\ src' = Compacted(src)
    /\ gate' = [gate EXCEPT !.mutex = NoTool]
    /\ UNCHANGED <<env, holder, late, changes, attempts, job, shot, result,
                   copyVars, migrateVars, repairVars>>

DaemonStop ==
    /\ holder = "daemon" /\ op = "none"
    /\ \A t \in Tools : Kind(t) = "online" => ~Running(t)
    /\ holder' = "none"
    /\ UNCHANGED <<env, gate, late, attempts, job, shot, result,
                   daemonVars, copyVars, migrateVars, repairVars>>

\* The process dies with the backups that run in it, and may leave an entry
\* no Manifest accounts for.
Stopped(victims) == job' = [t \in Tools |-> IF t \in victims THEN Idle ELSE job[t]]

DaemonCrash ==
    /\ holder = "daemon" /\ holder' = "none" /\ op' = "none" /\ gate' = OpenGate
    /\ \E left \in {{}} \union {{f} : f \in env.debris} :
          src' = src @@ [f \in left |-> Bytes]
    /\ Stopped({t \in Tools : Kind(t) = "online"})
    /\ UNCHANGED <<env, late, changes, attempts, shot, result,
                   copyVars, migrateVars, repairVars>>

\* A catalog Segment is lost, as after a media fault.
LoseSegment ==
    /\ env.loss /\ holder = "none" /\ Missing(src) = {}
    /\ \E i \in ToSet(Catalog(src)) :
          src' = [f \in DOMAIN src \ {SegmentName(i)} |-> src[f]]
    /\ UNCHANGED <<env, holder, gate, op, late, changes, attempts, job, shot,
                   result, copyVars, migrateVars, repairVars>>

Expire ==
    /\ env.clock /\ ~late /\ late' = TRUE
    /\ UNCHANGED <<env, holder, gate, attempts, job, shot, result,
                   daemonVars, copyVars, migrateVars, repairVars>>

\* Files are synchronised before they are closed; entries that no directory
\* synchronisation covers may be gone, and the checkpoint, which is never
\* synchronised, may be an older one, torn, or back after its removal.
PowerLoss ==
    /\ env.power
    /\ \E t \in Tools : Running(t) \/ DOMAIN dst[t] # safe[t] \/ older # {}
    /\ holder' = "none" /\ op' = "none" /\ gate' = OpenGate
    /\ Stopped(Tools)
    /\ \E keep \in SUBSET UNION {DOMAIN dst[t] \ safe[t] : t \in Tools} :
          dst' = [t \in Tools |->
                    [f \in DOMAIN dst[t] \intersect (keep \union safe[t]) |-> dst[t][f]]]
    /\ safe' = [t \in Tools |-> DOMAIN dst'[t]]
    /\ ckpt' \in {ckpt} \union older
                 \union (IF ckpt = NoCheckpoint THEN {} ELSE {Torn})
    /\ older' = {}
    /\ UNCHANGED <<env, src, late, changes, attempts, shot, result, repairVars>>
-----------------------------------------------------------------------------
(***************************************************************************)
(* What the tools share: the admission fence, the source's lock, the copy  *)
(* of files and the return.                                                *)
(***************************************************************************)
CloseAdmission(g) == [g EXCEPT !.closed = TRUE, !.fence = @ + 1]
ResumeUncounted(g) == [g EXCEPT !.closed = FALSE, !.fence = @ - 1]
ResumeAdmission(g) == [g EXCEPT !.closed = g.fence # 1, !.fence = @ - 1]

Fenced(t) == Kind(t) = "online" /\ Running(t) /\ ~At(t, "verify")

\* Every return path: the lock, the mutex and the fence have owners whose
\* destructors release them.
Released(t) ==
    [ResumeAdmission(gate) EXCEPT !.mutex = IF @ = t THEN NoTool ELSE @]

ReturnWithoutResume(t, outcome) ==
    /\ job' = [job EXCEPT ![t] = Idle]
    /\ result' = [result EXCEPT ![t] = outcome]
    /\ holder' = IF holder = t THEN "none" ELSE holder
    /\ UNCHANGED gate

Return(t, outcome) ==
    /\ job' = [job EXCEPT ![t] = Idle]
    /\ result' = [result EXCEPT ![t] = outcome]
    /\ holder' = IF holder = t THEN "none" ELSE holder
    /\ gate' = IF Fenced(t) THEN Released(t) ELSE gate

Fails(t) ==
    /\ Running(t) /\ ~At(t, "wait") /\ job[t].busy = {}
    /\ Return(t, "error")
    /\ UNCHANGED <<env, late, attempts, shot, daemonVars, copyVars,
                   migrateVars, repairVars>>

Invoke(t) ==
    /\ ~Running(t) /\ attempts < env.attempts
    /\ attempts' = attempts + 1

Refused(t) ==
    /\ result' = [result EXCEPT ![t] = "error"]
    /\ UNCHANGED <<job, holder, gate, shot, evidence>>

\* The operator removes what an earlier invocation left.
Clear(t) ==
    /\ ~Running(t) /\ DOMAIN dst[t] # {}
    /\ dst' = [dst EXCEPT ![t] = <<>>] /\ safe' = [safe EXCEPT ![t] = {}]
    /\ result' = [result EXCEPT ![t] = "none"]
    /\ IF Kind(t) = "migrate" THEN ckpt' = NoCheckpoint /\ older' = {}
       ELSE UNCHANGED migrateVars
    /\ IF Kind(t) = "repair" THEN quarantine' = <<>> ELSE UNCHANGED quarantine
    /\ UNCHANGED <<env, holder, gate, late, attempts, job, shot, evidence,
                   daemonVars>>

\* A tool with a process of its own is killed.
Kill(t) ==
    /\ Running(t) /\ Kind(t) # "online"
    /\ Stopped({t})
    /\ holder' = IF holder = t THEN "none" ELSE holder
    /\ UNCHANGED <<env, gate, late, attempts, shot, result, daemonVars,
                   copyVars, migrateVars, repairVars>>

Stage(t, pc, names) == job' = [job EXCEPT ![t].pc = pc, ![t].todo = names]

\* open_and_lock(create_new): an existing destination is refused.
CreateDestination(t) ==
    /\ At(t, "create")
    /\ IF DOMAIN dst[t] = {}
       THEN /\ dst' = [dst EXCEPT ![t] = LockName :> Bytes]
            /\ safe' = [safe EXCEPT ![t] = {LockName}]
            /\ IF Kind(t) = "repair"
               THEN Stage(t, "quarantine", ToQuarantine(src))
               ELSE Stage(t, "segments", CatalogNames(src))
            /\ UNCHANGED <<holder, gate, result>>
       ELSE Return(t, "error") /\ UNCHANGED copyVars
    /\ UNCHANGED <<env, late, attempts, shot, daemonVars, migrateVars, repairVars>>

Copying(t) == job[t].pc \in {"quarantine", "segments", "manifest"}

Width(t) ==
    IF At(t, "segments") /\ Kind(t) # "repair" THEN Parallelism ELSE 1

\* Where a copied file goes.
Into(t, f, content) ==
    IF At(t, "quarantine")
    THEN /\ quarantine' = (f :> content) @@ quarantine
         /\ UNCHANGED dst
    ELSE /\ dst' = [dst EXCEPT ![t] = (f :> content) @@ @]
         /\ UNCHANGED quarantine

CopyBegins(t) ==
    /\ Copying(t) /\ ~job[t].failed /\ Cardinality(job[t].busy) < Width(t)
    /\ \E f \in job[t].todo :
          /\ job' = [job EXCEPT ![t].todo = @ \ {f}, ![t].busy = @ \union {f}]
          /\ Into(t, f, Partial)
    /\ UNCHANGED <<env, holder, gate, late, attempts, shot, result, safe,
                   daemonVars, migrateVars, evidence>>

CopyEnds(t) ==
    /\ \E f \in job[t].busy \intersect DOMAIN src :
          /\ job' = [job EXCEPT ![t].busy = @ \ {f}]
          /\ Into(t, f, src[f])
    /\ UNCHANGED <<env, holder, gate, late, attempts, shot, result, safe,
                   daemonVars, migrateVars, evidence>>

\* The first failure keeps the other copiers from taking another file.
CopyFails(t) ==
    /\ \E f \in job[t].busy :
          job' = [job EXCEPT ![t].busy = @ \ {f}, ![t].failed = TRUE]
    /\ UNCHANGED <<env, holder, gate, late, attempts, shot, result,
                   daemonVars, copyVars, migrateVars, repairVars>>

\* The copiers are joined: the next stage, or the return of the failure.
CopyJoins(t) ==
    /\ Copying(t) /\ job[t].busy = {}
    /\ \/ /\ job[t].failed /\ Return(t, "error")
       \/ /\ job[t].todo = {} /\ ~job[t].failed
          /\ CASE At(t, "quarantine") -> Stage(t, "segments", CatalogNames(src))
               [] At(t, "segments") -> Stage(t, "manifest", {ManifestName})
               [] At(t, "manifest") -> Goto(t, "sync")
          /\ UNCHANGED <<holder, gate, result>>
    /\ UNCHANGED <<env, late, attempts, shot, daemonVars, copyVars,
                   migrateVars, repairVars>>

AfterSync(t) ==
    CASE Kind(t) = "online" -> "release"
      [] Kind(t) = "repair" -> "audit"
      [] Kind(t) = "offline" -> "verify"

NotSynced(t) == Goto(t, AfterSync(t)) /\ UNCHANGED safe

DirectorySynced(t) ==
    /\ Goto(t, AfterSync(t))
    /\ safe' = [safe EXCEPT ![t] = DOMAIN dst[t]]

SyncDestination(t) ==
    /\ At(t, "sync") /\ DirectorySynced(t)
    /\ UNCHANGED <<env, holder, gate, late, attempts, shot, result, dst,
                   daemonVars, migrateVars, repairVars>>

\* verify_durable_store_path of the copy decides what is reported.
VerifyDestination(t) ==
    /\ At(t, "verify") /\ Kind(t) # "migrate"
    /\ Return(t, IF Verifies(dst[t]) THEN "ok" ELSE "error")
    /\ UNCHANGED <<env, late, attempts, shot, daemonVars, copyVars,
                   migrateVars, repairVars>>
-----------------------------------------------------------------------------
(***************************************************************************)
(* The backup of a stopped Store holds its lock throughout. That of an     *)
(* open one closes admission, waits for the operations in flight, takes    *)
(* compaction_mutex and waits again; it lets mutations in before it        *)
(* verifies the copy.                                                      *)
(***************************************************************************)
Backup(t) ==
    /\ Kind(t) = "offline" /\ Invoke(t)
    /\ IF holder = "none" /\ Verifies(src)
       THEN /\ holder' = t /\ Goto(t, "create")
            /\ shot' = [shot EXCEPT ![t] = IF DOMAIN dst[t] = {} THEN Contents(src) ELSE @]
            /\ result' = [result EXCEPT ![t] = "none"]
            /\ UNCHANGED <<gate, evidence>>
       ELSE Refused(t)
    /\ UNCHANGED <<env, late, daemonVars, copyVars, migrateVars, quarantine>>

BackupOpenStore(t) ==
    /\ Kind(t) = "online" /\ holder = "daemon" /\ Invoke(t)
    /\ gate' = CloseAdmission(gate) /\ Goto(t, "wait")
    /\ result' = [result EXCEPT ![t] = "none"]
    /\ UNCHANGED <<env, holder, late, shot, daemonVars, copyVars, migrateVars,
                   repairVars>>

OperationsDrained(t) ==
    /\ At(t, "wait") /\ op = "none" /\ Goto(t, "mutex")
    /\ UNCHANGED <<env, holder, gate, late, attempts, shot, result, daemonVars,
                   copyVars, migrateVars, repairVars>>

TakeCompactionMutex(t) ==
    /\ At(t, "mutex") /\ gate.mutex = NoTool
    /\ gate' = [gate EXCEPT !.mutex = t] /\ Goto(t, "drain")
    /\ UNCHANGED <<env, holder, late, attempts, shot, result, daemonVars,
                   copyVars, migrateVars, repairVars>>

\* The second wait, the flush and the structural check of the source.
FixCatalog(t) ==
    /\ At(t, "drain") /\ op = "none"
    /\ IF Verifies(src)
       THEN /\ Goto(t, "create")
            /\ shot' = [shot EXCEPT ![t] = IF DOMAIN dst[t] = {} THEN Contents(src) ELSE @]
            /\ UNCHANGED <<holder, gate, result>>
       ELSE Return(t, "error") /\ UNCHANGED shot
    /\ UNCHANGED <<env, late, attempts, daemonVars, copyVars, migrateVars,
                   repairVars>>

ResumeBeforeVerify(t) ==
    /\ At(t, "release")
    /\ gate' = Released(t) /\ Goto(t, "verify")
    /\ UNCHANGED <<env, holder, late, attempts, shot, result, daemonVars,
                   copyVars, migrateVars, repairVars>>
-----------------------------------------------------------------------------
(***************************************************************************)
(* Repair copies what the catalog does not account for into quarantine,    *)
(* then the catalog, and refuses a source whose catalog is damaged.        *)
(***************************************************************************)
Repair(t) ==
    /\ Kind(t) = "repair" /\ Invoke(t)
    /\ IF /\ holder = "none" /\ CatalogIsWhole(src)
          /\ \A f \in Issues(src) : Quarantinable(f)
          /\ DOMAIN dst[t] = {} /\ DOMAIN quarantine = {}
       THEN /\ holder' = t /\ Goto(t, "create")
            /\ shot' = [shot EXCEPT ![t] = Contents(src)]
            /\ evidence' = Issues(src)
            /\ result' = [result EXCEPT ![t] = "none"]
            /\ UNCHANGED gate
       ELSE Refused(t)
    /\ UNCHANGED <<env, late, daemonVars, copyVars, migrateVars, quarantine>>

\* The audit trail is written with truncation; then the locks are dropped.
WriteAudit(t) ==
    /\ At(t, "audit")
    /\ quarantine' = (AuditName :> Whole("report")) @@ quarantine
    /\ holder' = "none" /\ Goto(t, "verify")
    /\ UNCHANGED <<env, gate, late, attempts, shot, result, daemonVars,
                   copyVars, migrateVars, evidence>>
-----------------------------------------------------------------------------
(***************************************************************************)
(* Migration copies the live keys in order and writes a checkpoint after   *)
(* each. It verifies the source, releases it and opens it again. A later   *)
(* invocation resumes from the checkpoint once the keys before it prove to *)
(* be the source's.                                                        *)
(***************************************************************************)
LiveKeys(dir) == {k \in Keys : Visible(Contents(dir)[k]) # 0}

\* The checkpoint parses, and exists just when the destination does.
Resumable(t) ==
    IF ckpt = NoCheckpoint THEN DOMAIN dst[t] = {}
    ELSE ckpt # Torn /\ DOMAIN dst[t] # {}

Migrate(t) ==
    /\ Kind(t) = "migrate" /\ Invoke(t)
    /\ IF holder = "none" /\ Verifies(src) /\ Resumable(t)
       THEN /\ job' = [job EXCEPT ![t].pc = "open", ![t].last = ckpt]
            /\ result' = [result EXCEPT ![t] = "none"]
            /\ UNCHANGED <<holder, gate, shot, evidence>>
       ELSE Refused(t)
    /\ UNCHANGED <<env, late, daemonVars, copyVars, migrateVars, quarantine>>

OpenSource(t) ==
    /\ At(t, "open")
    /\ IF holder = "none" /\ Verifies(src)
       THEN /\ holder' = t
            /\ job' = [job EXCEPT ![t].pc = "destination", ![t].keys = LiveKeys(src)]
            /\ shot' = [shot EXCEPT ![t] = Contents(src)]
            /\ UNCHANGED <<gate, result>>
       ELSE Return(t, "error") /\ UNCHANGED shot
    /\ UNCHANGED <<env, late, attempts, daemonVars, copyVars, migrateVars,
                   repairVars>>

\* validate_resume_prefix, first half: the destination, whose keys are those
\* its recovery found alive, has none of its own.
DestinationIsSubset(t) == LiveKeys(dst[t]) \subseteq job[t].keys

\* Store::open of the destination: create_new makes the directory, then
\* bootstraps the Store in it; open_existing wants a whole one.
OpenDestination(t) ==
    /\ At(t, "destination")
    /\ \/ /\ job[t].last = NoCheckpoint
          /\ dst' = [dst EXCEPT ![t] = LockName :> Bytes] /\ Goto(t, "bootstrap")
          /\ safe' = [safe EXCEPT ![t] = {LockName}]
          /\ UNCHANGED <<holder, gate, result>>
       \/ /\ job[t].last # NoCheckpoint
          /\ IF Verifies(dst[t]) /\ DestinationIsSubset(t)
             THEN Goto(t, "validate") /\ UNCHANGED <<holder, gate, result>>
             ELSE Return(t, "error")
          /\ UNCHANGED copyVars
    /\ UNCHANGED <<env, late, attempts, shot, daemonVars, migrateVars,
                   repairVars>>

Bootstrap(t) ==
    /\ At(t, "bootstrap") /\ Goto(t, "copy")
    /\ dst' = [dst EXCEPT ![t] = EmptyStore]
    /\ safe' = [safe EXCEPT ![t] = DOMAIN EmptyStore]
    /\ UNCHANGED <<env, holder, gate, late, attempts, shot, result, daemonVars,
                   migrateVars, repairVars>>

\* validate_resume_prefix, second half: a key that will be skipped has the
\* source's value, unless the source does not find it (any more). A key whose
\* expiry passes between the two reads is read again and passes, as it would
\* have after the expiry.
PrefixAgrees(t) ==
    \A k \in {n \in job[t].keys : n < job[t].last} :
        LET value == Visible(Contents(src)[k])
        IN  value # 0 => Visible(Contents(dst[t])[k]) = value

ValidateResumePrefix(t) ==
    /\ At(t, "validate")
    /\ IF PrefixAgrees(t)
       THEN Goto(t, "copy") /\ UNCHANGED <<holder, gate, result>>
       ELSE Return(t, "error")
    /\ UNCHANGED <<env, late, attempts, shot, daemonVars, copyVars, migrateVars,
                   repairVars>>

SkipsLast(k, last) == k <= last
Skips(k, last) == k < last

\* get and put of the next key; a key before the checkpoint and one that
\* has expired meanwhile are passed over.
CopyKey(t) ==
    /\ At(t, "copy") /\ job[t].keys # {}
    /\ LET k == Min(job[t].keys)
           v == Visible(Contents(src)[k])
       IN  IF Skips(k, job[t].last) \/ v = 0
           THEN /\ job' = [job EXCEPT ![t].keys = @ \ {k}]
                /\ UNCHANGED dst
           ELSE /\ Goto(t, "checkpoint")
                /\ dst' = [dst EXCEPT ![t] = WithRecord(@, k, v)]
    /\ UNCHANGED <<env, holder, gate, late, attempts, shot, result, safe,
                   daemonVars, migrateVars, repairVars>>

WriteCheckpoint(t) ==
    /\ At(t, "checkpoint")
    /\ LET k == Min(job[t].keys)
       IN  /\ ckpt' = k
           /\ job' = [job EXCEPT ![t].pc = "copy", ![t].keys = @ \ {k},
                                 ![t].last = NoCheckpoint]
    /\ older' = older \union {ckpt}
    /\ UNCHANGED <<env, holder, gate, late, attempts, shot, result, daemonVars,
                   copyVars, repairVars>>

\* Flush and close both Stores.
CloseStores(t) ==
    /\ At(t, "copy") /\ job[t].keys = {}
    /\ holder' = "none" /\ Goto(t, "verify")
    /\ UNCHANGED <<env, gate, late, attempts, shot, result, daemonVars,
                   copyVars, migrateVars, repairVars>>

RemoveCheckpoint(t) ==
    /\ At(t, "verify") /\ Kind(t) = "migrate"
    /\ IF Verifies(dst[t])
       THEN /\ ckpt' = NoCheckpoint /\ older' = older \union {ckpt}
            /\ Return(t, "ok")
       ELSE Return(t, "error") /\ UNCHANGED migrateVars
    /\ UNCHANGED <<env, late, attempts, shot, daemonVars, copyVars, repairVars>>
-----------------------------------------------------------------------------
Tool(t) ==
    \/ CreateDestination(t) \/ CopyBegins(t) \/ CopyEnds(t) \/ CopyFails(t)
    \/ CopyJoins(t) \/ SyncDestination(t) \/ VerifyDestination(t)
    \/ OperationsDrained(t) \/ TakeCompactionMutex(t) \/ FixCatalog(t)
    \/ ResumeBeforeVerify(t) \/ WriteAudit(t)
    \/ OpenSource(t) \/ OpenDestination(t) \/ Bootstrap(t)
    \/ ValidateResumePrefix(t) \/ CopyKey(t) \/ WriteCheckpoint(t)
    \/ CloseStores(t) \/ RemoveCheckpoint(t)

Operator(t) ==
    \/ Backup(t) \/ BackupOpenStore(t) \/ Repair(t) \/ Migrate(t) \/ Clear(t)

Next ==
    \/ DaemonStart \/ BeginOperation \/ Mutate \/ CompactionLock \/ Compact
    \/ DaemonStop \/ DaemonCrash \/ LoseSegment \/ Expire \/ PowerLoss
    \/ \E t \in Tools : Tool(t) \/ Operator(t) \/ Fails(t) \/ Kill(t)

\* The threads of a tool and of the daemon are scheduled; operators, faults
\* and the arrival of operations are not.
Spec ==
    /\ Init /\ [][Next]_vars
    /\ \A t \in Tools : WF_vars(Tool(t))
    /\ WF_vars(Mutate \/ CompactionLock \/ Compact)
-----------------------------------------------------------------------------
\* A copy that verifies is the source as it was at one moment, the one at
\* which the tool had locked it or drained its operations, whatever was
\* admitted, compacted, killed or lost while the files were copied
\* (Store::backup_to, backup_durable_store, repair_durable_store).
CopyIsSnapshot ==
    \A t \in Tools :
        Kind(t) \in {"offline", "online", "repair"} /\ Verifies(dst[t])
        => Contents(dst[t]) = shot[t]

\* A backup that reported success still verifies after a power loss, so what
\* verify_durable_store_path saw was durable; and a repair that reported
\* success, and meets no power loss, left a Store that verifies and every
\* file the catalog did not account for in quarantine, with its bytes
\* (store_backup.cpp, store_repair.cpp).
ReportedCopyLasts ==
    \A t \in Tools :
        Kind(t) \in {"offline", "online", "repair"} /\ result[t] = "ok"
        => /\ Verifies(dst[t])
           /\ Kind(t) = "repair" =>
                 \A f \in evidence :
                     f \in DOMAIN quarantine /\ quarantine[f] = Bytes

\* migrate_durable_store reports success only when the destination shows
\* what the source showed when it was last opened, however often the
\* migration was interrupted and resumed and whichever checkpoint was left,
\* if between the invocations the source changed or Records expired, not both.
MigrationComplete ==
    \A t \in Tools :
        Kind(t) = "migrate" /\ result[t] = "ok"
        => \A k \in Keys :
              Visible(Contents(dst[t])[k]) = Visible(shot[t][k])

\* Every invocation returns, and admission that an online backup closed is
\* open again, on each of its return paths.
ToolsReturn ==
    /\ \A t \in Tools : Running(t) ~> ~Running(t)
    /\ gate.closed ~> ~gate.closed
=============================================================================

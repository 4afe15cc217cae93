---------------------------- MODULE CatalogProofs ---------------------------
(***************************************************************************)
(* The theorems about the names on disk, for every number of Workers,      *)
(* clients, Segments, crashes, compactions and I/O errors:                 *)
(*   AuthorityHolds     what a crash leaves is complete                    *)
(*   DirectoryIsExact   an open, healthy Store and its directory agree     *)
(* Both suppose TameOnly: crashes are of one kind, I/O errors do not occur *)
(* beside power losses, and none of them is a clean failure of a           *)
(* compaction that has its intent on disk.                                 *)
(***************************************************************************)
EXTENDS CatalogNames

------------------------------------------------------------------------------
(* Opening a Store. *)

\* A program that is not running.
NoProgram(t) ==
    /\ {"who", "step", "worker", "next", "left"} \subseteq DOMAIN t
    /\ t.who = "none" /\ t.step = "none" /\ t.left = {}

LEMMA NoTaskRuns == NoProgram(NoTask) /\ Orderly({})
<1>1. NoProgram(NoTask) BY Zenon DEF NoTask, NoProgram
<1>2. Orderly({}) BY FS_EmptySet, Zenon DEF Orderly, Distinct
<1> QED BY <1>1, <1>2, Zenon

\* What the steps of the opening thread leave alone.
Kernel ==
    /\ UNCHANGED <<lease, mut, job, env, faults, compactions>>
    /\ \/ healthy' = healthy /\ dirHealthy' = dirHealthy
       \/ healthy' = TRUE /\ dirHealthy' = TRUE

\* A Store that is not open has no client in it and no compaction.
LEMMA Quiescent ==
    ASSUME Control, proc # "open"
    PROVE  /\ job.pc = "none" /\ \A c \in Clients : mut[c].pc = "none"
           /\ lease = "none" /\ task.who \in Opening \cup {"none"}
           /\ task.who \notin {"rotation", "compaction", "rollback"}
BY Zenon DEF Control, Runs, Opening

\* The program ends and the Store is down, refused or open.
LEMMA ProgramEnds ==
    ASSUME AuthorityInv, proc # "open", Settled(task.step), UNCHANGED <<dir, may>>, Kernel,
           task' = NoTask, proc' \in {"down", "refused", "open"}, IdleAt'
    PROVE  AuthorityInv'
<1>1. Shapes /\ Disk /\ Control /\ Places BY Zenon DEF AuthorityInv
<1>2. NoProgram(task') /\ Orderly({}) BY NoTaskRuns, Zenon
<1>3. Shapes' BY <1>1, <1>2, Zenon DEF Shapes, Kernel, NoProgram
<1>4. Disk'
  <2>1. UNCHANGED <<dir, may, env>> BY Zenon DEF Kernel
  <2> QED BY <1>1, <2>1, StillDisk, Zenon
<1>5. Control'
  <2>1. /\ job.pc = "none" /\ \A c \in Clients : mut[c].pc = "none"
        /\ lease = "none"
    BY <1>1, Quiescent, Zenon
  <2> QED BY <1>2, <2>1, Zenon DEF Control, Kernel, NoProgram, Runs, Opening
<1>6. Places'
  BY <1>2, Zenon
  DEF Places, BootAt, ScanAt, ResumeAt, RotationAt, DropAt, CompactionAt, NoProgram, ScanSteps,
  DropSteps
<1> QED BY <1>3, <1>4, <1>5, <1>6, Zenon DEF AuthorityInv

\* The opening thread starts another program.
LEMMA ProgramStarts ==
    ASSUME AuthorityInv, proc # "open", proc' = "opening", Settled(task.step),
           UNCHANGED <<dir, may>>, Kernel,
           {"who", "step", "worker", "next", "left"} \subseteq DOMAIN task',
           Orderly(task'.left), Runs(task'.who, task'.step), task'.who \in Opening,
           BootAt', ScanAt', ResumeAt', DropAt'
    PROVE  AuthorityInv'
<1>1. Shapes /\ Disk /\ Control /\ Places BY Zenon DEF AuthorityInv
<1>2. Shapes' BY <1>1, Zenon DEF Shapes, Kernel
<1>3. Disk'
  <2>1. UNCHANGED <<dir, may, env>> BY Zenon DEF Kernel
  <2> QED BY <1>1, <2>1, StillDisk, Zenon
<1>4. Control'
  <2>1. /\ job.pc = "none" /\ \A c \in Clients : mut[c].pc = "none"
        /\ lease = "none"
    BY <1>1, Quiescent, Zenon
  <2> QED BY <2>1, Zenon DEF Control, Kernel, Opening
<1>5. Places' BY Zenon DEF Places, IdleAt, RotationAt, CompactionAt, Opening
<1> QED BY <1>2, <1>3, <1>4, <1>5, Zenon DEF AuthorityInv

LEMMA OpenStoreStep ==
    ASSUME AuthorityInv, OpenStore
    PROVE  AuthorityInv'
<1>1. Shapes /\ Disk /\ Control /\ Places BY Zenon DEF AuthorityInv
<1>2. proc = "down" /\ UNCHANGED <<dir, may>> BY Zenon DEF OpenStore, openingUnchanged, dirVars
<1>3. Kernel BY Zenon DEF OpenStore, openingUnchanged, ghostVars, Kernel
<1>4. task.step = "none" BY <1>1, <1>2, Quiescent, Runners, Zenon DEF Opening, Control
<1>5. Settled(task.step) BY <1>4, Zenon DEF Settled
<1>6. Complete(dir) BY <1>1, Zenon DEF Disk
<1>7. CASE /\ dir.boot /\ BootstrapConsistent /\ proc' = "opening"
           /\ Program("bootstrap", IF dir.manifest = Absent THEN "man_tmp" ELSE "segments",
                      InitialManifest)
  <2> DEFINE s == IF dir.manifest = Absent THEN "man_tmp" ELSE "segments"
  <2>1. /\ {"who", "step", "worker", "next", "left"} \subseteq DOMAIN task'
        /\ task'.who = "bootstrap" /\ task'.step = s /\ task'.next = InitialManifest
        /\ task'.left = {}
    BY <1>7, Zenon DEF Program, NoTask
  <2>2. s \in {"man_tmp", "segments"} BY Zenon
  <2>3. Runs(task'.who, task'.step) /\ task'.who \in Opening /\ task'.step \notin ScanSteps
        /\ task'.step \notin DropSteps
    BY <2>1, <2>2, Zenon DEF Runs, ManSteps, BootSteps, Opening, ScanSteps, DropSteps
  <2>4. Orderly(task'.left) BY <2>1, NoTaskRuns, Zenon
  <2>5. dir.intent = Absent /\ dir.manifest \in {Absent, InitialManifest}
    BY <1>6, <1>7, Zenon DEF Complete
  <2>6. BootAt' BY <1>2, <1>7, <2>1, <2>5, Zenon DEF BootAt, SegSteps
  <2>7. ScanAt' /\ ResumeAt' /\ DropAt' BY <2>1, <2>3, Zenon DEF ScanAt, ResumeAt, DropAt
  <2> HIDE DEF s
  <2> QED BY <1>2, <1>3, <1>5, <1>7, <2>1, <2>3, <2>4, <2>6, <2>7, ProgramStarts, Zenon
<1>8. CASE /\ ~dir.boot /\ dir.manifest # Absent /\ proc' = "opening"
           /\ Program("recovery", "resolve", Absent)
  <2>1. /\ {"who", "step", "worker", "next", "left"} \subseteq DOMAIN task'
        /\ task'.who = "recovery" /\ task'.step = "resolve" /\ task'.left = {}
    BY <1>8, Zenon DEF Program, NoTask
  <2>2. Runs(task'.who, task'.step) /\ task'.who \in Opening
    BY <2>1, Zenon DEF Runs, ScanSteps, Opening
  <2>3. Orderly(task'.left) BY <2>1, NoTaskRuns, Zenon
  <2>4. Live(dir.manifest)' BY <1>2, <1>6, <1>8, Zenon DEF Live, Complete
  <2>5. BootAt' /\ ScanAt' /\ ResumeAt' /\ DropAt'
    BY <2>1, <2>4, Zenon DEF BootAt, ScanAt, ResumeAt, DropAt, DropSteps
  <2> QED BY <1>2, <1>3, <1>5, <1>8, <2>1, <2>2, <2>3, <2>5, ProgramStarts, Zenon
<1>9. CASE /\ ~dir.boot /\ PristineForBootstrap(dir) /\ proc' = "opening"
           /\ Program("bootstrap", "boot_tmp", InitialManifest)
  <2>1. /\ {"who", "step", "worker", "next", "left"} \subseteq DOMAIN task'
        /\ task'.who = "bootstrap" /\ task'.step = "boot_tmp" /\ task'.next = InitialManifest
        /\ task'.left = {}
    BY <1>9, Zenon DEF Program, NoTask
  <2>2. Runs(task'.who, task'.step) /\ task'.who \in Opening
    BY <2>1, Zenon DEF Runs, BootSteps, Opening
  <2>3. Orderly(task'.left) BY <2>1, NoTaskRuns, Zenon
  <2>4. BootAt' BY <1>2, <1>9, <2>1, Zenon DEF BootAt, SegSteps, PristineForBootstrap
  <2>5. ScanAt' /\ ResumeAt' /\ DropAt'
    BY <2>1, Zenon DEF ScanAt, ResumeAt, DropAt, ScanSteps, DropSteps
  <2> QED BY <1>2, <1>3, <1>5, <1>9, <2>1, <2>2, <2>3, <2>4, <2>5, ProgramStarts, Zenon
<1>10. CASE Refuse
  <2>1. task' = NoTask /\ proc' = "refused" BY <1>10, Zenon DEF Refuse
  <2>2. IdleAt' BY <2>1, Zenon DEF IdleAt
  <2> QED BY <1>2, <1>3, <1>5, <2>1, <2>2, ProgramEnds, Zenon
<1> QED BY <1>7, <1>8, <1>9, <1>10, Zenon DEF OpenStore

LEMMA RefuseStep ==
    ASSUME AuthorityInv, task.step \in ScanSteps, Refuse, UNCHANGED recoveryUnchanged
    PROVE  AuthorityInv'
<1>1. Control BY Zenon DEF AuthorityInv
<1>2. UNCHANGED <<dir, may>> /\ Kernel BY Zenon DEF recoveryUnchanged, dirVars, ghostVars, Kernel
<1>3. proc # "open" BY <1>1, Runners, Zenon DEF Control, Opening
<1>4. Settled(task.step) BY Zenon DEF Settled, ScanSteps
<1>5. task' = NoTask /\ proc' = "refused" BY Zenon DEF Refuse
<1>6. IdleAt' BY <1>5, Zenon DEF IdleAt
<1> QED BY <1>2, <1>3, <1>4, <1>5, <1>6, ProgramEnds, Zenon

\* A step of recovery that changes nothing.
LEMMA RecoveryGoto ==
    ASSUME AuthorityInv, NEW s \in ScanSteps, task.step \in ScanSteps, Goto(s), UNCHANGED proc,
           UNCHANGED recoveryUnchanged
    PROVE  AuthorityInv'
<1>1. Control /\ Places BY Zenon DEF AuthorityInv
<1>2. UNCHANGED <<dir, may>> /\ UNCHANGED restVars BY Zenon DEF recoveryUnchanged, restVars, dirVars
<1>3. task.who \in {"bootstrap", "recovery", "resume"} BY <1>1, Runners, Zenon
<1>4. Runs(task.who, s) BY <1>3, Zenon DEF Runs
<1>5. Settled(task.step) BY Zenon DEF Settled, ScanSteps
<1>6. Shapes' /\ Disk' /\ Control' /\ Moved(s) /\ Kept /\ dir' = dir
  BY <1>2, <1>4, <1>5, GotoKeeps, Zenon
<1>7. task'.step \in ScanSteps /\ task'.who = task.who BY <1>6, Zenon DEF Moved
<1>8. ScanAt' BY <1>1, <1>6, Zenon DEF ScanAt, Places, Live
<1>9. Places'
  BY <1>3, <1>7, <1>8, Zenon
  DEF Places, IdleAt, BootAt, ResumeAt, RotationAt, DropAt, CompactionAt, ScanSteps, DropSteps
<1> QED BY <1>6, <1>9, Zenon DEF AuthorityInv

LEMMA ResolveCompactionStep ==
    ASSUME AuthorityInv, ResolveCompaction
    PROVE  AuthorityInv'
<1> DEFINE i == dir.intent
           n == OutputCount(i.old, i.next, i.worker)
           obsolete == IF dir.manifest = i.old THEN Replacements(i.old, i.worker, n)
                       ELSE Sources(i.old, i.worker)
           left == {Identity(e) : e \in obsolete}
<1>1. Disk /\ Control /\ Places BY Zenon DEF AuthorityInv
<1>2. task.step = "resolve" /\ i # Absent /\ UNCHANGED recoveryUnchanged
  BY Zenon DEF ResolveCompaction
<1>3. task.step \in ScanSteps BY <1>2, Zenon DEF ScanSteps
<1>4. CASE Refuse BY <1>2, <1>3, <1>4, RefuseStep, Zenon
<1>5. CASE /\ SafeForCompactionRecovery(dir, i)
           /\ ValidCompactionTransition(i.old, i.next, i.worker)
           /\ task' = [NoTask EXCEPT !.who = "resolve", !.step = "retire", !.left = left]
           /\ UNCHANGED proc
  <2>1. SoundManifest(i.old) /\ i.worker \in Workers BY <1>1, <1>2, Zenon DEF Disk, Complete
  <2>2. /\ dir.manifest \in {i.old, i.next} /\ ~dir.boot
        /\ i.next = CompactionManifest(i.old, i.worker, n)
    BY <1>5, Zenon DEF SafeForCompactionRecovery, ValidCompactionTransition
  <2>3. LET m == i.old
            w == i.worker
            next == CompactionManifest(m, w, n)
            sources == {Identity(e) : e \in Sources(m, w)}
            outputs == {Identity(e) : e \in Replacements(m, w, n)}
        IN  /\ SoundManifest(next)
            /\ sources \subseteq Identities(m) /\ sources \cap Identities(next) = {}
            /\ outputs \subseteq Identities(next) /\ outputs \cap Identities(m) = {}
            /\ Identities(next) \subseteq Identities(m) \cup outputs
            /\ Identities(m) \subseteq Identities(next) \cup sources
    <3> HIDE DEF n, i
    <3> QED BY <2>1, CompactionNames, Zenon
  <2>4. /\ left \cap Identities(dir.manifest) = {}
        /\ left \subseteq Identities(i.old) \/ left \subseteq Identities(i.next)
        /\ SoundManifest(i.next) /\ SoundManifest(dir.manifest)
    <3>1. CASE dir.manifest = i.old
      <4>1. left = {Identity(e) : e \in Replacements(i.old, i.worker, n)} BY <3>1, Zenon
      <4> HIDE DEF left, n, i
      <4> QED BY <2>1, <2>2, <2>3, <3>1, <4>1, Zenon
    <3>2. CASE dir.manifest # i.old
      <4>1. left = {Identity(e) : e \in Sources(i.old, i.worker)} BY <3>2, Zenon
      <4>2. dir.manifest = i.next BY <2>2, <3>2, Zenon
      <4> HIDE DEF left, n, i
      <4> QED BY <2>1, <2>2, <2>3, <4>1, <4>2, Zenon
    <3> QED BY <3>1, <3>2, Zenon
  <2>5. Orderly(left)
    <3> HIDE DEF left, i
    <3>1. left \in SUBSET Identities(i.old) \/ left \in SUBSET Identities(i.next) BY <2>4, Zenon
    <3>2. Orderly(Identities(i.old)) /\ Orderly(Identities(i.next))
      BY <2>1, <2>4, OrderlyIdentities, Zenon
    <3> QED BY <3>1, <3>2, OrderlyPart, Zenon
  <2> HIDE DEF left, i
  <2>6. /\ {"who", "step", "worker", "next", "left"} \subseteq DOMAIN task'
        /\ task'.who = "resolve" /\ task'.step = "retire" /\ task'.left = left
    BY <1>5, Zenon DEF NoTask
  <2>7. UNCHANGED <<dir, may>> /\ Kernel
    BY <1>2, Zenon DEF recoveryUnchanged, dirVars, ghostVars, Kernel
  <2>8. task.who \in Opening /\ proc = "opening" BY <1>1, <1>3, Runners, Zenon DEF Opening, Control
  <2>9. proc # "open" /\ proc' = "opening" BY <1>5, <2>8, Zenon
  <2>10. Settled(task.step) BY <1>2, Zenon DEF Settled
  <2>11. Runs(task'.who, task'.step) /\ task'.who \in Opening /\ task'.step \notin ScanSteps
    BY <2>6, Zenon DEF Runs, DropSteps, Opening, ScanSteps
  <2>12. DropAt' BY <2>2, <2>4, <2>6, <2>7, Zenon DEF DropAt, Live
  <2>13. BootAt' /\ ScanAt' /\ ResumeAt' BY <2>6, <2>11, Zenon DEF BootAt, ScanAt, ResumeAt
  <2>14. Orderly(task'.left) BY <2>5, <2>6, Zenon
  <2> QED BY <2>6, <2>7, <2>9, <2>10, <2>11, <2>12, <2>13, <2>14, ProgramStarts, Zenon
<1> QED BY <1>4, <1>5, Zenon DEF ResolveCompaction

LEMMA CompleteRotationStep ==
    ASSUME AuthorityInv, CompleteRotation
    PROVE  AuthorityInv'
<1> DEFINE m == dir.manifest
           prepared == [id |-> m.nextId, gen |-> 1]
           orphans == UnlistedSegments(dir, m)
           stuck == SealedActives(m)
           e == CHOOSE x \in stuck : TRUE
           s == IF orphans = {} THEN "seg_tmp" ELSE "man_tmp"
<1>1. Disk /\ Control /\ Places BY Zenon DEF AuthorityInv
<1>2. task.step = "resolve" /\ dir.intent = Absent /\ UNCHANGED recoveryUnchanged
  BY Zenon DEF CompleteRotation
<1>3. task.step \in ScanSteps /\ "scan" \in ScanSteps BY <1>2, Zenon DEF ScanSteps
<1>4. CASE Refuse BY <1>2, <1>3, <1>4, RefuseStep, Zenon
<1>5. CASE Goto("scan") /\ UNCHANGED proc BY <1>2, <1>3, <1>5, RecoveryGoto, Zenon
<1>6. CASE /\ MissingSegments(dir, m) = {} /\ orphans \subseteq {prepared} /\ stuck # {}
           /\ task' = [NoTask EXCEPT !.who = "resume", !.worker = e.owner,
                           !.next = RotationManifest(m, e), !.step = s]
           /\ UNCHANGED proc
  <2>1. Live(m) BY <1>1, <1>3, Zenon DEF Places, ScanAt
  <2>2. SoundManifest(m) BY <2>1, Zenon DEF Live
  <2>3. e \in m.entries /\ e.role = "active"
    <3>1. e \in stuck BY <1>6, Zenon
    <3> QED BY <3>1, Zenon DEF SealedActives
  <2>4. orphans = {} \/ prepared \in dir.segs
    <3>1. orphans \subseteq dir.segs BY Zenon DEF UnlistedSegments
    <3> QED BY <1>6, <3>1, Zenon
  <2>5. Identities(m) \subseteq dir.segs BY <1>6, Zenon DEF MissingSegments
  <2>6. s \in {"seg_tmp", "man_tmp"} /\ (s = "man_tmp" => prepared \in dir.segs) BY <2>4, Zenon
  <2> HIDE DEF e, s
  <2>7. LET next == RotationManifest(m, e)
            i == Identity(ActiveEntry(next, e.owner))
        IN  /\ e.owner \in Workers /\ SoundManifest(next)
            /\ Identities(next) = Identities(m) \cup {i}
            /\ i \notin Identities(m) /\ i = [id |-> m.nextId, gen |-> 1]
    <3> HIDE DEF m
    <3> QED BY <2>2, <2>3, RotationNames, Zenon
  <2>8. /\ {"who", "step", "worker", "next", "left"} \subseteq DOMAIN task'
        /\ task'.who = "resume" /\ task'.step = s /\ task'.left = {}
        /\ task'.next = RotationManifest(m, e) /\ task'.worker = e.owner
    BY <1>6, Zenon DEF NoTask
  <2>9. NewSegment' = prepared BY <2>7, <2>8, Zenon DEF NewSegment
  <2>10. UNCHANGED <<dir, may>> /\ Kernel
    BY <1>2, Zenon DEF recoveryUnchanged, dirVars, ghostVars, Kernel
  <2>11. task.who \in Opening /\ proc = "opening" BY <1>1, <1>3, Runners, Zenon DEF Opening, Control
  <2>12. proc # "open" /\ proc' = "opening" BY <1>6, <2>11, Zenon
  <2>13. Settled(task.step) BY <1>2, Zenon DEF Settled
  <2>14. Runs(task'.who, task'.step) /\ task'.who \in Opening /\ task'.step \notin ScanSteps
         /\ task'.step \notin DropSteps
    BY <2>6, <2>8, Zenon DEF Runs, DropSteps, Opening, ScanSteps, SegSteps, ManSteps
  <2>15. ResumeAt'
    <3>1. /\ SoundManifest(task'.next)
          /\ Identities(task'.next) \subseteq Identities(m) \cup {NewSegment'}
      BY <2>7, <2>8, <2>9, Zenon
    <3>2. Live(m)' /\ m' = m BY <2>1, <2>10, Zenon DEF Live
    <3>3. dir' = dir BY <2>10, Zenon
    <3>4. task'.step # "man_sync" /\ task'.step # "seg_sync" /\ task'.step # "man_rename"
      BY <2>6, <2>8, Zenon
    <3>5. task'.step = "man_tmp" => NewSegment' \in dir'.segs BY <2>6, <2>8, <2>9, <3>3, Zenon
    <3> QED BY <1>2, <2>5, <3>1, <3>2, <3>3, <3>4, <3>5, Zenon DEF ResumeAt
  <2>16. BootAt' /\ ScanAt' /\ DropAt' BY <2>8, <2>14, Zenon DEF BootAt, ScanAt, DropAt
  <2>17. Orderly(task'.left) BY <2>8, NoTaskRuns, Zenon
  <2> QED BY <2>8, <2>10, <2>12, <2>13, <2>14, <2>15, <2>16, <2>17, ProgramStarts, Zenon
<1> QED BY <1>4, <1>5, <1>6, Zenon DEF CompleteRotation

LEMMA ScanStep ==
    ASSUME AuthorityInv, Scan
    PROVE  AuthorityInv'
<1> DEFINE s == IF dir.tmps = {} /\ dir.stmps = {} THEN "publish" ELSE "clean"
<1>1. task.step = "scan" /\ UNCHANGED recoveryUnchanged BY Zenon DEF Scan
<1>2. task.step \in ScanSteps /\ s \in ScanSteps BY <1>1, Zenon DEF ScanSteps
<1>3. CASE Refuse BY <1>1, <1>2, <1>3, RefuseStep, Zenon
<1>4. CASE Goto(s) /\ UNCHANGED proc
  <2> HIDE DEF s
  <2> QED BY <1>1, <1>2, <1>4, RecoveryGoto, Zenon
<1> QED BY <1>3, <1>4, Zenon DEF Scan

\* A change of temporary names outside of the programs.
LEMMA QuietStep ==
    ASSUME AuthorityInv, task' = task, Shapes', Control', proc' = proc,
           env' = env, manifest' = manifest, healthy' => healthy, dirHealthy' => dirHealthy,
           task.who \in {"compaction", "rollback"} => UNCHANGED <<job.base, job.worker, job.live>>,
           Named(dir'), SameNames(dir', dir), dir \in may => dir' \in may',
           \A n \in may' : n \in may \/ \E k \in may : Named(k) => Named(n) /\ SameNames(n, k)
    PROVE  AuthorityInv'
<1>1. Disk /\ Control /\ Places BY Zenon DEF AuthorityInv
<1>4. Disk' BY <1>1, QuietRename, Zenon
<1>5. /\ dir'.manifest = dir.manifest /\ dir'.boot = dir.boot
      /\ dir'.intent = dir.intent /\ dir'.segs = dir.segs
  BY Zenon DEF SameNames
<1>6. NewSegment' = NewSegment BY Zenon DEF NewSegment
<1>7. IdleAt' /\ BootAt' /\ ScanAt' /\ ResumeAt' /\ RotationAt' /\ DropAt'
  BY <1>1, <1>5, <1>6, Zenon
  DEF Places, IdleAt, BootAt, ScanAt, ResumeAt, RotationAt, DropAt, Live, Exact, Failed
<1>8. CompactionAt'
  <2> SUFFICES ASSUME task.who \in {"compaction", "rollback"} PROVE CompactionAt'
    BY Zenon DEF CompactionAt
  <2>1. UNCHANGED <<job.base, job.worker, job.live>> BY Zenon
  <2>2. JobOutputs' = JobOutputs /\ Intent' = Intent BY <2>1, Zenon DEF JobOutputs, Intent
  <2> QED BY <1>1, <1>5, <2>1, <2>2, Zenon DEF Places, CompactionAt
<1> QED BY <1>4, <1>7, <1>8, Zenon DEF AuthorityInv, Places

LEMMA CleanOneStep ==
    ASSUME AuthorityInv, CleanOne
    PROVE  AuthorityInv'
<1>1. Shapes /\ Disk /\ Control /\ Places BY Zenon DEF AuthorityInv
<1>2. task' = task /\ Frame BY Zenon DEF CleanOne, restVars, memVars, ghostVars, Frame
<1>3. Shapes' /\ Control' BY <1>1, <1>2, Zenon DEF Shapes, Control, Frame
<1>4. Named(dir) BY <1>1, Zenon DEF Disk
<1>5. UNCHANGED <<job.base, job.worker, job.live>> BY <1>2, Zenon DEF Frame
<1>6. ASSUME NEW t, dir' = DropTmp(dir, t), may' = may \cup {DropTmp(n, t) : n \in may}
      PROVE  AuthorityInv'
  <2>1. dir' = DropTmp(dir, t) /\ may' = may \cup {DropTmp(n, t) : n \in may} BY <1>6, Zenon
  <2>2. \A n : Named(n) => Named(DropTmp(n, t)) /\ SameNames(DropTmp(n, t), n)
    BY TemporaryNames, Zenon
  <2>3. Named(dir') /\ SameNames(dir', dir) /\ (dir \in may => dir' \in may')
    BY <1>4, <2>1, <2>2, Zenon
  <2>4. \A n \in may' : n \in may \/ \E k \in may : Named(k) => Named(n) /\ SameNames(n, k)
    BY <2>1, <2>2, Zenon
  <2> QED BY <1>2, <1>3, <1>5, <2>3, <2>4, QuietStep, Zenon DEF Frame
<1>7. ASSUME NEW i, dir' = DropSegmentTmps(dir, {i}),
             may' = may \cup {DropSegmentTmps(n, {i}) : n \in may}
      PROVE  AuthorityInv'
  <2>1. dir' = DropSegmentTmps(dir, {i}) /\ may' = may \cup {DropSegmentTmps(n, {i}) : n \in may}
    BY <1>7, Zenon
  <2>2. \A n : Named(n) => Named(DropSegmentTmps(n, {i})) /\ SameNames(DropSegmentTmps(n, {i}), n)
    BY TemporaryNames, Zenon
  <2>3. Named(dir') /\ SameNames(dir', dir) /\ (dir \in may => dir' \in may')
    BY <1>4, <2>1, <2>2, Zenon
  <2>4. \A n \in may' : n \in may \/ \E k \in may : Named(k) => Named(n) /\ SameNames(n, k)
    BY <2>1, <2>2, Zenon
  <2> QED BY <1>2, <1>3, <1>5, <2>3, <2>4, QuietStep, Zenon DEF Frame
<1>8. \/ \E t \in dir.tmps : /\ dir' = DropTmp(dir, t)
                             /\ may' = may \cup {DropTmp(n, t) : n \in may}
      \/ \E i \in dir.stmps : /\ dir' = DropSegmentTmps(dir, {i})
                              /\ may' = may \cup {DropSegmentTmps(n, {i}) : n \in may}
  BY Zenon DEF CleanOne, Rename
<1> QED BY <1>6, <1>7, <1>8, Zenon

LEMMA CleanSyncStep ==
    ASSUME AuthorityInv, CleanSync
    PROVE  AuthorityInv'
<1>1. Control /\ Places BY Zenon DEF AuthorityInv
<1>2. task.step = "clean" /\ SyncDirectory /\ Goto("publish") /\ UNCHANGED restVars
  BY Zenon DEF CleanSync, SyncStep
<1>3. task.who \in {"bootstrap", "recovery", "resume"} BY <1>1, <1>2, Runners, Zenon DEF ScanSteps
<1>4. Runs(task.who, "publish") BY <1>3, Zenon DEF Runs, ScanSteps
<1>5. Shapes' /\ Disk' /\ Control' /\ Moved("publish") /\ Kept /\ dir' = dir
  BY <1>2, <1>4, SyncMoves, Zenon
<1>6. task'.step = "publish" /\ task'.who = task.who BY <1>5, Zenon DEF Moved
<1>7. ScanAt' BY <1>1, <1>2, <1>5, Zenon DEF ScanAt, Places, Live, ScanSteps
<1>8. Places'
  BY <1>3, <1>6, <1>7, Zenon
  DEF Places, IdleAt, BootAt, ResumeAt, RotationAt, DropAt, CompactionAt, ScanSteps, DropSteps
<1> QED BY <1>5, <1>8, Zenon DEF AuthorityInv

LEMMA PublishRuntimeStep ==
    ASSUME AuthorityInv, PublishRuntime
    PROVE  AuthorityInv'
<1>1. Control /\ Places BY Zenon DEF AuthorityInv
<1>2. /\ task.step = "publish" \/ (task.who = "resolve" /\ task.step = "audit")
      /\ task' = NoTask /\ UNCHANGED <<dir, may>> /\ Kernel
  BY Zenon DEF PublishRuntime, dirVars, ghostVars, Kernel
<1>3. task.step \in {"publish", "audit"} BY <1>2, Zenon
<1>4. Settled(task.step) /\ task.step \in ScanSteps \cup DropSteps
  BY <1>3, Zenon DEF Settled, ScanSteps, DropSteps
<1>5. task.who \in Opening BY <1>1, <1>2, Runners, Zenon DEF Opening, ScanSteps
<1>6. proc # "open" BY <1>1, <1>5, Zenon DEF Control
<1>7. Live(dir.manifest) BY <1>1, <1>4, Zenon DEF Places, ScanAt, DropAt
<1>8. CASE /\ SafeForRecovery(dir, dir.manifest) /\ proc' = "open" /\ manifest' = dir.manifest
  <2>1. dir.segs = Identities(dir.manifest) /\ dir.intent = Absent
    BY <1>8, Zenon DEF SafeForRecovery, MissingSegments, UnlistedSegments
  <2>2. IdleAt' BY <1>2, <1>7, <1>8, <2>1, Zenon DEF IdleAt, Live, Exact
  <2> QED BY <1>2, <1>4, <1>6, <1>8, <2>2, ProgramEnds, Zenon
<1>9. CASE proc' \in {"down", "refused"}
  <2>1. IdleAt' BY <1>9, Zenon DEF IdleAt
  <2> QED BY <1>2, <1>4, <1>6, <1>9, <2>1, ProgramEnds, Zenon
<1>10. \/ SafeForRecovery(dir, dir.manifest) /\ proc' = "open" /\ manifest' = dir.manifest
       \/ proc' = IF SafeForRecovery(dir, dir.manifest) THEN "down" ELSE "refused"
  BY Zenon DEF PublishRuntime
<1> QED BY <1>8, <1>9, <1>10, Zenon

------------------------------------------------------------------------------
(* Rotation and compaction. *)

\* The mutations of the clients have a Worker.
MutsOK ==
    /\ DOMAIN mut = Clients
    /\ \A c \in Clients : {"pc", "worker"} \subseteq DOMAIN mut[c] /\ mut[c].worker \in Workers

\* The lease is released with the program.
LEMMA LeaseEnds ==
    ASSUME AuthorityInv, proc = "open", proc' = proc, Settled(task.step),
           UNCHANGED <<dir, may, env, faults, compactions>>,
           task' = NoTask, lease' = "none", env.faults = 0 => healthy' /\ dirHealthy', MutsOK',
           job'.pc # "publish", job' = job \/ job' = NoJob, IdleAt'
    PROVE  AuthorityInv'
<1>1. Shapes /\ Disk /\ Control /\ Places BY Zenon DEF AuthorityInv
<1>2. NoProgram(task') /\ Orderly({}) BY NoTaskRuns, Zenon
<1>3. {"pc", "worker", "base", "live"} \subseteq DOMAIN job' /\ (job'.pc # "none" => job' = job)
  <2>1. {"pc", "worker", "base", "live"} \subseteq DOMAIN NoJob /\ NoJob.pc = "none"
    BY Zenon DEF NoJob
  <2> QED BY <1>1, <2>1, Zenon DEF Shapes
<1>4. Shapes' BY <1>1, <1>2, <1>3, Zenon DEF Shapes, NoProgram, MutsOK
<1>5. Disk' BY <1>1, StillDisk, Zenon
<1>6. Control' BY <1>1, <1>2, <1>3, Zenon DEF Control, NoProgram, Runs, Opening
<1>7. Places'
  BY <1>2, Zenon
  DEF Places, BootAt, ScanAt, ResumeAt, RotationAt, DropAt, CompactionAt, NoProgram, ScanSteps,
  DropSteps
<1> QED BY <1>4, <1>5, <1>6, <1>7, Zenon DEF AuthorityInv

LEMMA MutShape ==
    /\ 0 \in Workers
    /\ {"pc", "worker"} \subseteq DOMAIN NoMut /\ NoMut.worker = 0 /\ NoMut.pc = "none"
<1>1. 0 \in Workers BY ManifestAssumption DEF Workers
<1>2. {"pc", "worker"} \subseteq DOMAIN NoMut /\ NoMut.worker = 0 /\ NoMut.pc = "none"
  BY Zenon DEF NoMut
<1> QED BY <1>1, <1>2, Zenon

\* How a client's mutation changes.
LEMMA MutChange ==
    ASSUME Shapes, NEW c, NEW pc, MutGoto(c, pc) \/ MutDone(c)
    PROVE  MutsOK'
<1>1. /\ DOMAIN mut = Clients
      /\ \A d \in Clients : {"pc", "worker"} \subseteq DOMAIN mut[d] /\ mut[d].worker \in Workers
  BY Zenon DEF Shapes
<1>2. CASE MutGoto(c, pc)
  <2>1. mut' = [mut EXCEPT ![c] = [mut[c] EXCEPT !.pc = pc]] BY <1>2, Zenon DEF MutGoto
  <2>2. DOMAIN mut' = Clients BY <1>1, <2>1, Zenon
  <2>3. \A d \in Clients : mut'[d] = IF d = c THEN [mut[c] EXCEPT !.pc = pc] ELSE mut[d]
    BY <1>1, <2>1, Zenon
  <2> SUFFICES ASSUME NEW d \in Clients
               PROVE  {"pc", "worker"} \subseteq DOMAIN mut'[d] /\ mut'[d].worker \in Workers
    BY <2>2, Zenon DEF MutsOK
  <2>4. CASE d = c
    <3>1. mut'[d] = [mut[c] EXCEPT !.pc = pc] BY <2>3, <2>4, Zenon
    <3> QED BY <1>1, <2>4, <3>1, Zenon
  <2>5. CASE d # c BY <1>1, <2>3, <2>5, Zenon
  <2> QED BY <2>4, <2>5, Zenon
<1>3. CASE MutDone(c)
  <2>1. mut' = [mut EXCEPT ![c] = NoMut] BY <1>3, Zenon DEF MutDone
  <2>2. DOMAIN mut' = Clients BY <1>1, <2>1, Zenon
  <2>3. \A d \in Clients : mut'[d] = IF d = c THEN NoMut ELSE mut[d] BY <1>1, <2>1, Zenon
  <2> QED BY <1>1, <2>2, <2>3, MutShape, Zenon DEF MutsOK
<1> QED BY <1>2, <1>3, Zenon

LEMMA SealActiveStep ==
    ASSUME AuthorityInv, SealActive
    PROVE  AuthorityInv'
<1>1. Shapes /\ Disk /\ Control /\ Places BY Zenon DEF AuthorityInv
<1>2. task.step = "seal" /\ Goto("seg_tmp") /\ UNCHANGED <<dir, may>> /\ Frame
  BY Zenon DEF SealActive, ghostVars, Frame
<1>3. Moved("seg_tmp") BY <1>1, <1>2, Zenon DEF Moved, Goto, Shapes
<1>4. task.who = "rotation" BY <1>1, <1>2, Runners, Zenon
<1>5. Runs(task.who, "seg_tmp") BY <1>4, Zenon DEF Runs, SegSteps
<1>6. Shapes' /\ Control' /\ Kept BY <1>1, <1>3, <1>5, MovedKeeps, Zenon DEF Kept
<1>7. UNCHANGED <<dir, may, env>> /\ Settled(task.step) BY <1>2, Zenon DEF Frame, Settled
<1>8. Disk' BY <1>1, <1>7, StillDisk, Zenon
<1>9. RotationAt'
  <2>1. /\ SoundManifest(manifest) /\ SoundManifest(task.next) /\ ~dir.boot
        /\ Identities(task.next) = Identities(manifest) \cup {NewSegment}
        /\ NewSegment \notin Identities(manifest) /\ NewSegment = Prepared(manifest)
        /\ Exact(manifest) \/ Failed(manifest)
    BY <1>1, <1>2, <1>4, Zenon DEF Places, RotationAt
  <2>2. /\ task'.step = "seg_tmp" /\ task'.next = task.next /\ NewSegment' = NewSegment
        /\ UNCHANGED <<manifest, dir, healthy, dirHealthy>>
    BY <1>2, <1>3, <1>6, Zenon DEF Moved, Frame, Kept
  <2>3. (Exact(manifest) \/ Failed(manifest))' BY <2>1, <2>2, Zenon DEF Exact, Failed, Prepared
  <2> QED BY <2>1, <2>2, <2>3, Zenon DEF RotationAt, Prepared
<1>10. Places'
  BY <1>3, <1>4, <1>9, Zenon
  DEF Places, IdleAt, BootAt, ScanAt, ResumeAt, DropAt, CompactionAt, Moved, ScanSteps, DropSteps
<1> QED BY <1>6, <1>8, <1>10, Zenon DEF AuthorityInv

LEMMA InstallRotationStep ==
    ASSUME AuthorityInv, InstallRotation
    PROVE  AuthorityInv'
<1>1. Shapes /\ Disk /\ Control /\ Places BY Zenon DEF AuthorityInv
<1>2. /\ task.who = "rotation" /\ task.step = "install" /\ lease' = "none" /\ task' = NoTask
      /\ UNCHANGED <<dir, may, env, faults, compactions>> /\ proc' = proc
      /\ dirHealthy' = dirHealthy /\ job' = job
  BY Zenon DEF InstallRotation, dirVars, ghostVars
<1>3. \/ /\ manifest' = task.next /\ MutGoto(task.client, "retry") /\ healthy' = healthy
      \/ /\ ~Healthy /\ healthy' = FALSE /\ manifest' = manifest /\ MutDone(task.client)
  BY Zenon DEF InstallRotation
<1>4. proc = "open" /\ job'.pc # "publish" BY <1>1, <1>2, Zenon DEF Control
<1>5. MutsOK' BY <1>1, <1>3, MutChange, Zenon
<1>6. /\ SoundManifest(manifest) /\ SoundManifest(task.next) /\ ~dir.boot /\ dir.intent = Absent
      /\ dir.manifest = task.next /\ dir.segs = Identities(task.next)
      /\ Prepared(manifest) \in dir.segs
  BY <1>1, <1>2, Zenon DEF Places, RotationAt
<1>7. IdleAt' BY <1>2, <1>3, <1>6, Zenon DEF IdleAt, Exact, Failed, Prepared
<1>8. Settled(task.step) BY <1>2, Zenon DEF Settled
<1>9. env.faults = 0 => healthy' /\ dirHealthy' BY <1>1, <1>2, <1>3, Zenon DEF Shapes, Healthy
<1> QED BY <1>2, <1>3, <1>4, <1>5, <1>7, <1>8, <1>9, LeaseEnds, Zenon

LEMMA IntentTmpStep ==
    ASSUME AuthorityInv, IntentTmp
    PROVE  AuthorityInv'
<1>1. Shapes /\ Disk /\ Control /\ Places BY Zenon DEF AuthorityInv
<1>2. /\ task.step = "intent_tmp" /\ dir' = AddTmp(dir, "intent")
      /\ may' = may \cup {AddTmp(n, "intent") : n \in may}
      /\ Goto("intent_rename") /\ UNCHANGED restVars
  BY Zenon DEF IntentTmp, NameStep, Rename
<1>3. Moved("intent_rename") BY <1>1, <1>2, GotoMoves, Zenon
<1>4. task.who = "compaction" BY <1>1, <1>2, Runners, Zenon DEF StageSteps
<1>5. Runs(task.who, "intent_rename") BY <1>4, Zenon DEF Runs, StageSteps
<1>6. Shapes' /\ Control' /\ Kept BY <1>1, <1>3, <1>5, MovedKeeps, Zenon DEF Kept
<1>7. Named(dir') /\ SameNames(dir', dir) BY <1>1, <1>2, TemporaryNames, Zenon DEF Disk
<1>8. Disk'
  <2>1. env' = env BY <1>3, Zenon DEF Moved, Frame
  <2>2. Settled(task.step) BY <1>2, Zenon DEF Settled
  <2>3. dir \in may => dir' \in may' BY <1>2, Zenon
  <2>4. \A n \in may' : n \in may \/ \E k \in may : Named(k) => Named(n) /\ SameNames(n, k)
    BY <1>2, TemporaryNames, Zenon
  <2> QED BY <1>1, <1>7, <2>1, <2>2, <2>3, <2>4, QuietRename, Zenon
<1>9. CompactionAt'
  BY <1>1, <1>2, <1>3, <1>4, <1>6, <1>7, Zenon
  DEF CompactionAt, StageSteps, ManSteps, DropSteps, Moved, Frame, Kept, Places, SameNames
<1>10. Places'
  BY <1>3, <1>4, <1>9, Zenon
  DEF Places, IdleAt, BootAt, ScanAt, ResumeAt, RotationAt, DropAt, Moved, ScanSteps, DropSteps
<1> QED BY <1>6, <1>8, <1>10, Zenon DEF AuthorityInv

LEMMA IntentRenameStep ==
    ASSUME AuthorityInv, IntentRename
    PROVE  AuthorityInv'
<1>1. Shapes /\ Disk /\ Control /\ Places BY Zenon DEF AuthorityInv
<1>2. /\ task.step = "intent_rename" /\ dir' = PutIntent(dir, Intent)
      /\ may' = may \cup {PutIntent(n, Intent) : n \in may}
      /\ Goto("intent_sync") /\ UNCHANGED restVars
  BY Zenon DEF IntentRename, NameStep, Rename, Intent
<1>3. Moved("intent_sync") BY <1>1, <1>2, GotoMoves, Zenon
<1>4. task.who = "compaction" BY <1>1, <1>2, Runners, Zenon DEF StageSteps
<1>5. Runs(task.who, "intent_sync") BY <1>4, Zenon DEF Runs, StageSteps
<1>6. Shapes' /\ Control' /\ Kept BY <1>1, <1>3, <1>5, MovedKeeps, Zenon DEF Kept
<1>7. /\ Named(dir') /\ dir'.intent = Intent
      /\ dir'.manifest = dir.manifest /\ dir'.boot = dir.boot /\ dir'.segs = dir.segs
  BY <1>1, <1>2, IntentNames, Zenon DEF Disk
<1>8. Complete(dir')
  <2>1. Complete(dir) BY <1>1, Zenon DEF Disk
  <2>2. SoundManifest(job.base) /\ job.worker \in Workers BY <1>1, <1>4, Zenon DEF Control
  <2>3. ~dir.boot /\ dir.manifest = job.base
    BY <1>1, <1>2, <1>4, Zenon DEF Places, CompactionAt, StageSteps
  <2>4. Intent.old = job.base /\ Intent.worker = job.worker BY Zenon DEF Intent
  <2> QED BY <1>7, <2>1, <2>2, <2>3, <2>4, Zenon DEF Complete
<1>9. Disk'
  <2>1. env' = env BY <1>3, Zenon DEF Moved, Frame
  <2>2. Settled(task.step) BY <1>2, Zenon DEF Settled
  <2>3. dir \in may => dir' \in may' BY <1>2, Zenon
  <2>4. \A n \in may' : \/ n \in may
                        \/ \E k \in may : Named(k) /\ SameNames(k, dir) =>
                                             Named(n) /\ SameNames(n, dir')
    <3> DEFINE p(k) == PutIntent(k, Intent)
    <3> SUFFICES ASSUME NEW k \in may, Named(k), SameNames(k, dir)
                 PROVE  Named(p(k)) /\ SameNames(p(k), dir')
      BY <1>2, Zenon
    <3>1. /\ Named(p(k)) /\ p(k).intent = Intent
          /\ p(k).manifest = k.manifest /\ p(k).boot = k.boot /\ p(k).segs = k.segs
      BY IntentNames, Zenon
    <3> HIDE DEF p
    <3> QED BY <1>7, <3>1, Zenon DEF SameNames
  <2>5. Pending(dir, dir', task'.step) BY <1>3, <1>7, Zenon DEF Pending, Moved
  <2> QED BY <1>1, <1>7, <1>8, <2>1, <2>2, <2>3, <2>4, <2>5, NameChange, Zenon
<1>10. CompactionAt'
  BY <1>1, <1>2, <1>3, <1>4, <1>6, <1>7, Zenon
  DEF CompactionAt, StageSteps, ManSteps, DropSteps, Moved, Frame, Kept, Places
<1>11. Places'
  BY <1>3, <1>4, <1>10, Zenon
  DEF Places, IdleAt, BootAt, ScanAt, ResumeAt, RotationAt, DropAt, Moved, ScanSteps, DropSteps
<1> QED BY <1>6, <1>9, <1>11, Zenon DEF AuthorityInv

LEMMA IntentSyncStep ==
    ASSUME AuthorityInv, IntentSync
    PROVE  AuthorityInv'
<1>1. Control /\ Places BY Zenon DEF AuthorityInv
<1>2. task.step = "intent_sync" /\ SyncDirectory /\ Goto("promote") /\ UNCHANGED restVars
  BY Zenon DEF IntentSync, SyncStep
<1>3. task.who = "compaction" BY <1>1, <1>2, Runners, Zenon DEF StageSteps
<1>4. Runs(task.who, "promote") BY <1>3, Zenon DEF Runs, StageSteps
<1>5. Shapes' /\ Disk' /\ Control' /\ Moved("promote") /\ Kept /\ dir' = dir
  BY <1>2, <1>4, SyncMoves, Zenon
<1>6. CompactionAt'
  BY <1>1, <1>2, <1>3, <1>5, Zenon
  DEF CompactionAt, StageSteps, ManSteps, DropSteps, Moved, Frame, Kept, Places
<1>7. Places'
  BY <1>3, <1>5, <1>6, Zenon
  DEF Places, IdleAt, BootAt, ScanAt, ResumeAt, RotationAt, DropAt, Moved, ScanSteps, DropSteps
<1> QED BY <1>5, <1>7, Zenon DEF AuthorityInv

\* The program changes its phase and the Segments it has left.
Turned(who, step, left) ==
    /\ {"who", "step", "worker", "next", "left"} \subseteq DOMAIN task'
    /\ task'.who = who /\ task'.step = step /\ task'.left = left
    /\ task'.worker = task.worker /\ task'.next = task.next

\* What the compaction's publication relies on.
LEMMA Publishing ==
    ASSUME AuthorityInv, task.who \in {"compaction", "rollback"}
    PROVE  /\ proc = "open" /\ SoundManifest(job.base) /\ job.worker \in Workers
           /\ SoundManifest(task.next)
           /\ JobSources \subseteq Identities(job.base)
           /\ JobSources \cap Identities(task.next) = {}
           /\ JobOutputs \subseteq Identities(task.next)
           /\ JobOutputs \cap Identities(job.base) = {}
           /\ Identities(task.next) \subseteq Identities(job.base) \cup JobOutputs
           /\ Identities(job.base) \subseteq Identities(task.next) \cup JobSources
           /\ Orderly(JobSources) /\ Orderly(JobOutputs)
<1>1. Control /\ Places BY Zenon DEF AuthorityInv
<1>2. proc = "open" /\ SoundManifest(job.base) /\ job.worker \in Workers BY <1>1, Zenon DEF Control
<1>3. task.next = CompactionManifest(job.base, job.worker, Outputs(job.live))
  BY <1>1, Zenon DEF Places, CompactionAt
<1>4. /\ SoundManifest(task.next)
      /\ JobSources \subseteq Identities(job.base)
      /\ JobSources \cap Identities(task.next) = {}
      /\ JobOutputs \subseteq Identities(task.next)
      /\ JobOutputs \cap Identities(job.base) = {}
      /\ Identities(task.next) \subseteq Identities(job.base) \cup JobOutputs
      /\ Identities(job.base) \subseteq Identities(task.next) \cup JobSources
  BY <1>2, <1>3, JobNames, Zenon
<1>5. Orderly(Identities(job.base)) /\ Orderly(Identities(task.next))
  BY <1>2, <1>4, OrderlyIdentities, Zenon
<1>6. JobSources \in SUBSET Identities(job.base) /\ JobOutputs \in SUBSET Identities(task.next)
  BY <1>4, Zenon
<1>7. Orderly(JobSources) /\ Orderly(JobOutputs) BY <1>5, <1>6, OrderlyPart, Zenon
<1> QED BY <1>2, <1>4, <1>7, Zenon

LEMMA TurnedKeeps ==
    ASSUME AuthorityInv, NEW who, NEW step, NEW left, Turned(who, step, left), Orderly(left),
           Runs(who, step), task.who = "compaction", who \in {"compaction", "rollback"},
           UNCHANGED <<proc, lease, mut, job, env, healthy, dirHealthy, faults, compactions>>
    PROVE  /\ Shapes' /\ Control'
           /\ NewSegment' = NewSegment /\ JobOutputs' = JobOutputs /\ Intent' = Intent
<1>1. Shapes /\ Control BY Zenon DEF AuthorityInv
<1>2. Shapes' BY <1>1, Zenon DEF Shapes, Turned
<1>3. Control' BY <1>1, Zenon DEF Control, Turned, Opening
<1>4. /\ NewSegment' = NewSegment /\ JobOutputs' = JobOutputs /\ Intent' = Intent
  BY Zenon DEF Turned, NewSegment, JobOutputs, Intent
<1> QED BY <1>2, <1>3, <1>4, Zenon

LEMMA PromoteStep ==
    ASSUME AuthorityInv, Promote
    PROVE  AuthorityInv'
<1> DEFINE s == IF JobOutputs = {} THEN "quiesce" ELSE "rename"
<1>1. Shapes /\ Disk /\ Control /\ Places BY Zenon DEF AuthorityInv
<1>2. /\ task.step = "promote" /\ task' = [task EXCEPT !.step = s, !.left = JobOutputs]
      /\ UNCHANGED <<dir, may>> /\ Frame
  BY Zenon DEF Promote, restVars, dirVars, memVars, ghostVars, Frame
<1>3. task.who = "compaction" BY <1>1, <1>2, Runners, Zenon DEF StageSteps
<1>4. s \in {"quiesce", "rename"} /\ (s = "quiesce" => JobOutputs = {}) BY Zenon
<1> HIDE DEF s
<1>5. Turned("compaction", s, JobOutputs) BY <1>1, <1>2, <1>3, Zenon DEF Shapes, Turned
<1>6. Orderly(JobOutputs) BY <1>3, Publishing, Zenon
<1>7. Runs("compaction", s) BY <1>4, Zenon DEF Runs, StageSteps
<1>8. Shapes' /\ Control' /\ Kept
  BY <1>2, <1>3, <1>5, <1>6, <1>7, TurnedKeeps, Zenon DEF Frame, Kept
<1>9. Disk'
  <2>1. UNCHANGED <<dir, may, env>> /\ Settled(task.step) BY <1>2, Zenon DEF Frame, Settled
  <2> QED BY <1>1, <2>1, StillDisk, Zenon
<1>10. CompactionAt'
  BY <1>1, <1>2, <1>3, <1>4, <1>5, <1>8, Zenon
  DEF CompactionAt, StageSteps, ManSteps, DropSteps, Turned, Frame, Kept, Places
<1>11. Places'
  BY <1>4, <1>5, <1>10, Zenon
  DEF Places, IdleAt, BootAt, ScanAt, ResumeAt, RotationAt, DropAt, Turned, ScanSteps, DropSteps
<1> QED BY <1>8, <1>9, <1>11, Zenon DEF AuthorityInv

LEMMA PromoteOneStep ==
    ASSUME AuthorityInv, PromoteOne
    PROVE  AuthorityInv'
<1> DEFINE i == Lowest(task.left)
<1>1. Shapes /\ Disk /\ Control /\ Places BY Zenon DEF AuthorityInv
<1>2. /\ task.step = "rename" /\ task.left # {} /\ dir' = PutSegment(dir, i)
      /\ may' = may \cup {PutSegment(n, i) : n \in may}
      /\ task' = [task EXCEPT !.left = @ \ {i}] /\ Frame
  BY Zenon DEF PromoteOne, Rename, restVars, memVars, ghostVars, Frame
<1>3. i \in task.left
  <2>1. Orderly(task.left) BY <1>1, Zenon DEF Shapes
  <2> QED BY <1>2, <2>1, LowestIn, Zenon
<1> HIDE DEF i
<1>4. task.who = "compaction" BY <1>1, <1>2, Runners, Zenon DEF StageSteps
<1>5. Turned("compaction", "rename", task.left \ {i}) BY <1>1, <1>2, <1>4, Zenon DEF Shapes, Turned
<1>6. Orderly(task.left \ {i})
  <2>1. task.left \ {i} \in SUBSET task.left BY Zenon
  <2> QED BY <1>1, <2>1, OrderlyPart, Zenon DEF Shapes
<1>7. Runs("compaction", "rename") BY Zenon DEF Runs, StageSteps
<1>8. Shapes' /\ Control' /\ Kept
  BY <1>2, <1>4, <1>5, <1>6, <1>7, TurnedKeeps, Zenon DEF Frame, Kept
<1>9. /\ Named(dir') /\ dir'.segs = dir.segs \cup {i}
      /\ dir'.manifest = dir.manifest /\ dir'.boot = dir.boot /\ dir'.intent = dir.intent
  BY <1>1, <1>2, SegmentNames, Zenon DEF Disk
<1>10. Disk'
  <2>1. env' = env BY <1>2, Zenon DEF Frame
  <2>2. dir \in may => dir' \in may' BY <1>2, Zenon
  <2>3. ASSUME NEW k, Named(k), Complete(k)
        PROVE  LET p == PutSegment(k, i)
               IN  /\ Named(p) /\ Complete(p) /\ p.manifest = k.manifest
                   /\ p.boot = k.boot /\ p.intent = k.intent
    <3> DEFINE p == PutSegment(k, i)
    <3>1. /\ Named(p) /\ p.segs = k.segs \cup {i}
          /\ p.manifest = k.manifest /\ p.boot = k.boot /\ p.intent = k.intent
      BY <2>3, SegmentNames, Zenon
    <3> HIDE DEF p
    <3>2. Complete(p) BY <2>3, <3>1, Zenon DEF Complete
    <3> QED BY <3>1, <3>2, Zenon DEF p
  <2>4. \A n \in may' : \/ n \in may
                        \/ \E k \in may :
                             Named(k) /\ Complete(k) /\ k.manifest = dir.manifest =>
                                 /\ Named(n) /\ Complete(n) /\ n.manifest = k.manifest
                                 /\ n.boot = k.boot /\ n.intent = k.intent
    <3> SUFFICES ASSUME NEW k \in may, Named(k), Complete(k)
                 PROVE  LET n == PutSegment(k, i)
                        IN  /\ Named(n) /\ Complete(n) /\ n.manifest = k.manifest
                            /\ n.boot = k.boot /\ n.intent = k.intent
      BY <1>2, Zenon
    <3> QED BY <2>3, Zenon
  <2>5. Complete(dir') BY <1>1, <1>2, <2>3, Zenon DEF Disk
  <2>6. task.step \in {"rename", "unlink"} /\ task'.step = task.step BY <1>2, <1>5, Zenon DEF Turned
  <2> QED BY <1>1, <1>9, <2>1, <2>2, <2>4, <2>5, <2>6, SegmentChange, Zenon
<1>11. CompactionAt'
  BY <1>1, <1>2, <1>3, <1>4, <1>5, <1>8, <1>9
  DEF CompactionAt, StageSteps, ManSteps, DropSteps, Turned, Frame, Kept, Places
<1>12. Places'
  BY <1>5, <1>11, Zenon
  DEF Places, IdleAt, BootAt, ScanAt, ResumeAt, RotationAt, DropAt, Turned, ScanSteps, DropSteps
<1> QED BY <1>8, <1>10, <1>12, Zenon DEF AuthorityInv

LEMMA PromoteSyncStep ==
    ASSUME AuthorityInv, PromoteSync
    PROVE  AuthorityInv'
<1>1. Control /\ Places BY Zenon DEF AuthorityInv
<1>2. /\ task.left = {} /\ task.step = "rename" /\ SyncDirectory /\ Goto("quiesce")
      /\ UNCHANGED restVars
  BY Zenon DEF PromoteSync, SyncStep
<1>3. task.who = "compaction" BY <1>1, <1>2, Runners, Zenon DEF StageSteps
<1>4. Runs(task.who, "quiesce") BY <1>3, Zenon DEF Runs, StageSteps
<1>5. Shapes' /\ Disk' /\ Control' /\ Moved("quiesce") /\ Kept /\ dir' = dir
  BY <1>2, <1>4, SyncMoves, Zenon
<1>6. CompactionAt'
  BY <1>1, <1>2, <1>3, <1>5, Zenon
  DEF CompactionAt, StageSteps, ManSteps, DropSteps, Moved, Frame, Kept, Places
<1>7. Places'
  BY <1>3, <1>5, <1>6, Zenon
  DEF Places, IdleAt, BootAt, ScanAt, ResumeAt, RotationAt, DropAt, Moved, ScanSteps, DropSteps
<1> QED BY <1>5, <1>7, Zenon DEF AuthorityInv

LEMMA CommitStep ==
    ASSUME AuthorityInv, Commit
    PROVE  AuthorityInv'
<1>1. Control /\ Places BY Zenon DEF AuthorityInv
<1>2. task.step = "quiesce" /\ Goto("man_tmp") /\ UNCHANGED <<dir, may>> /\ UNCHANGED restVars
  BY Zenon DEF Commit, dirVars
<1>3. task.who = "compaction" BY <1>1, <1>2, Runners, Zenon DEF StageSteps
<1>4. Runs(task.who, "man_tmp") BY <1>3, Zenon DEF Runs, ManSteps
<1>5. Settled(task.step) BY <1>2, Zenon DEF Settled
<1>6. Shapes' /\ Disk' /\ Control' /\ Moved("man_tmp") /\ Kept /\ dir' = dir
  BY <1>2, <1>4, <1>5, GotoKeeps, Zenon
<1>7. CompactionAt'
  BY <1>1, <1>2, <1>3, <1>6, Zenon
  DEF CompactionAt, StageSteps, ManSteps, DropSteps, Moved, Frame, Kept, Places
<1>8. Places'
  BY <1>3, <1>6, <1>7, Zenon
  DEF Places, IdleAt, BootAt, ScanAt, ResumeAt, RotationAt, DropAt, Moved, ScanSteps, DropSteps
<1> QED BY <1>6, <1>8, Zenon DEF AuthorityInv

LEMMA AbortStep ==
    ASSUME AuthorityInv, Abort
    PROVE  AuthorityInv'
<1>1. Shapes /\ Disk /\ Control /\ Places BY Zenon DEF AuthorityInv
<1>2. /\ task.step = "quiesce" /\ UNCHANGED <<dir, may>> /\ Frame
      /\ task' = [task EXCEPT !.who = "rollback", !.step = "retire", !.left = JobOutputs]
  BY Zenon DEF Abort, restVars, dirVars, memVars, ghostVars, Frame
<1>3. task.who = "compaction" BY <1>1, <1>2, Runners, Zenon DEF StageSteps
<1>4. Turned("rollback", "retire", JobOutputs) BY <1>1, <1>2, Zenon DEF Shapes, Turned
<1>5. /\ Orderly(JobOutputs) /\ JobOutputs \cap Identities(job.base) = {} /\ SoundManifest(job.base)
  BY <1>3, Publishing, Zenon
<1>6. Runs("rollback", "retire") BY Zenon DEF Runs, DropSteps
<1>7. Shapes' /\ Control' /\ Kept
  BY <1>2, <1>3, <1>4, <1>5, <1>6, TurnedKeeps, Zenon DEF Frame, Kept
<1>8. Disk'
  <2>1. UNCHANGED <<dir, may, env>> /\ Settled(task.step) BY <1>2, Zenon DEF Frame, Settled
  <2> QED BY <1>1, <2>1, StillDisk, Zenon
<1>9. /\ dir.manifest = job.base /\ manifest = job.base /\ ~dir.boot
      /\ dir.segs = Identities(job.base) \cup JobOutputs
      /\ task.next = CompactionManifest(job.base, job.worker, Outputs(job.live))
  BY <1>1, <1>2, <1>3, Zenon DEF Places, CompactionAt, StageSteps
<1>10. DropAt' BY <1>2, <1>4, <1>5, <1>9, Zenon DEF DropAt, Live, Turned
<1>11. CompactionAt'
  BY <1>2, <1>4, <1>7, <1>9, Zenon
  DEF CompactionAt, StageSteps, ManSteps, DropSteps, Turned, Frame, Kept
<1>12. Places'
  BY <1>4, <1>10, <1>11, Zenon
  DEF Places, IdleAt, BootAt, ScanAt, ResumeAt, RotationAt, Turned, ScanSteps
<1> QED BY <1>7, <1>8, <1>12, Zenon DEF AuthorityInv

LEMMA InstallCompactionStep ==
    ASSUME AuthorityInv, InstallCompaction
    PROVE  AuthorityInv'
<1>1. Shapes /\ Disk /\ Control /\ Places BY Zenon DEF AuthorityInv
<1>2. /\ task.who = "compaction" /\ task.step = "install" /\ manifest' = task.next
      /\ task' = [task EXCEPT !.step = "retire", !.left = JobSources]
      /\ UNCHANGED <<dir, may>>
      /\ UNCHANGED <<proc, lease, mut, job, env, healthy, dirHealthy, faults, compactions>>
  BY Zenon DEF InstallCompaction, JobSources, dirVars, ghostVars
<1>3. Turned("compaction", "retire", JobSources) BY <1>1, <1>2, Zenon DEF Shapes, Turned
<1>4. /\ Orderly(JobSources) /\ JobSources \cap Identities(task.next) = {}
      /\ SoundManifest(task.next)
      /\ Identities(task.next) \subseteq Identities(job.base) \cup JobOutputs
      /\ Identities(job.base) \subseteq Identities(task.next) \cup JobSources
      /\ JobSources \subseteq Identities(job.base) /\ JobOutputs \subseteq Identities(task.next)
  BY <1>2, Publishing, Zenon
<1>5. Runs("compaction", "retire") BY Zenon DEF Runs, DropSteps
<1>6. Shapes' /\ Control' /\ Kept BY <1>2, <1>3, <1>4, <1>5, TurnedKeeps, Zenon DEF Kept
<1>7. Disk'
  <2>1. UNCHANGED <<dir, may, env>> /\ Settled(task.step) BY <1>2, Zenon DEF Settled
  <2> QED BY <1>1, <2>1, StillDisk, Zenon
<1>8. /\ dir.manifest = task.next /\ ~dir.boot
      /\ dir.segs = Identities(job.base) \cup JobOutputs
      /\ task.next = CompactionManifest(job.base, job.worker, Outputs(job.live))
  BY <1>1, <1>2, Zenon DEF Places, CompactionAt, StageSteps
<1>9. dir.segs = Identities(task.next) \cup JobSources BY <1>4, <1>8, Zenon
<1>10. DropAt' BY <1>2, <1>3, <1>4, <1>8, Zenon DEF DropAt, Live, Turned
<1>11. CompactionAt'
  BY <1>2, <1>3, <1>6, <1>8, <1>9, Zenon
  DEF CompactionAt, StageSteps, ManSteps, DropSteps, Turned, Kept
<1>12. Places'
  BY <1>3, <1>10, <1>11, Zenon
  DEF Places, IdleAt, BootAt, ScanAt, ResumeAt, RotationAt, Turned, ScanSteps
<1> QED BY <1>6, <1>7, <1>12, Zenon DEF AuthorityInv

LEMMA FinishCompactionStep ==
    ASSUME AuthorityInv, FinishCompaction
    PROVE  AuthorityInv'
<1>1. Shapes /\ Disk /\ Control /\ Places BY Zenon DEF AuthorityInv
<1>2. /\ task.who \in {"compaction", "rollback"} /\ task.step = "audit"
      /\ task' = NoTask /\ job' = NoJob /\ lease' = "none"
      /\ healthy' = (healthy /\ SafeForRecovery(dir, IF task.who = "rollback" THEN job.base
                                                     ELSE task.next))
      /\ UNCHANGED <<dir, may, env, faults,
                     compactions>> /\ proc' = proc /\ dirHealthy' = dirHealthy
      /\ mut' = mut /\ manifest' = manifest
  BY Zenon DEF FinishCompaction, dirVars, ghostVars, memVars
<1>3. /\ dir.manifest = manifest /\ manifest = IF task.who = "rollback" THEN job.base ELSE task.next
      /\ dir.segs = Identities(manifest)
  BY <1>1, <1>2, Zenon DEF Places, CompactionAt, DropSteps
<1>4. dir.intent = Absent /\ Live(manifest) BY <1>1, <1>2, <1>3, Zenon DEF Places, DropAt, DropSteps
<1>5. SafeForRecovery(dir, manifest)
  BY <1>3, <1>4, Zenon DEF SafeForRecovery, MissingSegments, UnlistedSegments, Live
<1>6. env.faults = 0 => healthy' /\ dirHealthy' BY <1>1, <1>2, <1>3, <1>5, Zenon DEF Shapes
<1>7. IdleAt' BY <1>2, <1>3, <1>4, Zenon DEF IdleAt, Live, Exact
<1>8. proc = "open" BY <1>1, <1>2, Zenon DEF Control
<1>9. job'.pc # "publish" BY <1>2, Zenon DEF NoJob
<1>10. MutsOK' BY <1>1, <1>2, Zenon DEF Shapes, MutsOK
<1>11. Settled(task.step) BY <1>2, Zenon DEF Settled
<1> QED BY <1>2, <1>6, <1>7, <1>8, <1>9, <1>10, <1>11, LeaseEnds, Zenon

------------------------------------------------------------------------------
(* Clients, the building of a compaction, failures and crashes. *)

\* A step beside the program: no name changes.
LEMMA BesideStep ==
    ASSUME AuthorityInv, UNCHANGED <<dir, may, task, proc, manifest, env>>, Shapes', Control',
           healthy' => healthy, dirHealthy' => dirHealthy,
           task.who \in {"compaction", "rollback"} => UNCHANGED <<job.base, job.worker, job.live>>
    PROVE  AuthorityInv'
<1>1. Named(dir) BY Zenon DEF AuthorityInv, Disk
<1>2. Named(dir') /\ SameNames(dir', dir) /\ (dir \in may => dir' \in may')
  BY <1>1, Zenon DEF SameNames
<1>3. \A n \in may' : n \in may \/ \E k \in may : Named(k) => Named(n) /\ SameNames(n, k) BY Zenon
<1> QED BY <1>2, <1>3, QuietStep, Zenon

\* Only the mutation of a client changes.
LEMMA ClientStep ==
    ASSUME AuthorityInv, proc = "open",
           UNCHANGED <<dir, may, task, proc, lease, healthy, dirHealthy, manifest, job, env,
                       faults, compactions>>,
           MutsOK'
    PROVE  AuthorityInv'
<1>1. Shapes /\ Control BY Zenon DEF AuthorityInv
<1>2. Shapes' BY <1>1, Zenon DEF Shapes, MutsOK
<1>3. Control' BY <1>1, Zenon DEF Control
<1> QED BY <1>2, <1>3, BesideStep, Zenon

\* Nothing but Records, the clock or counters change.
Untouched ==
    UNCHANGED <<dir, may, task, proc, lease, healthy, dirHealthy, manifest, mut, job, env, faults,
                compactions>>

LEMMA RecordStep ==
    ASSUME AuthorityInv, Untouched
    PROVE  AuthorityInv'
<1>1. Shapes /\ Control BY Zenon DEF AuthorityInv
<1>2. Shapes' BY <1>1, Zenon DEF Shapes, Untouched
<1>3. Control' BY <1>1, Zenon DEF Control, Untouched
<1> QED BY <1>2, <1>3, BesideStep, Zenon DEF Untouched

\* With a free lease, an open Store runs no program.
LEMMA FreeLease ==
    ASSUME AuthorityInv, proc = "open", lease = "none"
    PROVE  /\ task.who = "none" /\ task.step = "none" /\ job.pc # "publish"
           /\ SoundManifest(manifest) /\ ~dir.boot /\ (Exact(manifest) \/ Failed(manifest))
<1>1. Control /\ Places BY Zenon DEF AuthorityInv
<1>2. task.who = "none" /\ task.step = "none" /\ job.pc # "publish"
  BY <1>1, Zenon DEF Control, Runs, Opening
<1> QED BY <1>1, <1>2, Zenon DEF Places, IdleAt

LEMMA TakeLeaseStep ==
    ASSUME AuthorityInv, NEW c \in Clients, TakeLease(c)
    PROVE  AuthorityInv'
<1> DEFINE w == mut[c].worker
           e == ActiveEntry(manifest, w)
<1>1. Shapes /\ Disk /\ Control /\ Places BY Zenon DEF AuthorityInv
<1>2. /\ mut[c].pc = "full" /\ lease = "none"
      /\ UNCHANGED <<dir, may, proc, healthy, dirHealthy, manifest, job, env, faults, compactions>>
  BY Zenon DEF TakeLease, leaseUnchanged, dirVars, memVars, ghostVars
<1>3. proc = "open" /\ w \in Workers BY <1>1, <1>2, Zenon DEF Control, Shapes
<1>4. CASE MutDone(c) /\ UNCHANGED <<lease, task>>
  <2>1. MutsOK' BY <1>1, <1>4, MutChange, Zenon
  <2> QED BY <1>2, <1>3, <1>4, <2>1, ClientStep, Zenon
<1>5. CASE /\ lease' = "rotation" /\ MutGoto(c, "rotating")
           /\ task' = [NoTask EXCEPT !.who = "rotation", !.step = "seal", !.worker = w,
                           !.client = c, !.next = RotationManifest(manifest, e)]
  <2>1. MutsOK' BY <1>1, <1>5, MutChange, Zenon
  <2>2. /\ task.who = "none" /\ task.step = "none" /\ job.pc # "publish"
        /\ SoundManifest(manifest) /\ ~dir.boot /\ (Exact(manifest) \/ Failed(manifest))
    BY <1>2, <1>3, FreeLease, Zenon
  <2>3. SoundManifest(manifest) BY <2>2, Zenon
  <2>4. e \in manifest.entries /\ e.owner = w /\ e.role = "active"
    <3> HIDE DEF w
    <3> QED BY <1>3, <2>3, ActiveIn, Zenon
  <2> HIDE DEF e, w
  <2>5. LET next == RotationManifest(manifest, e)
            i == Identity(ActiveEntry(next, e.owner))
        IN  /\ e.owner \in Workers /\ SoundManifest(next)
            /\ Identities(next) = Identities(manifest) \cup {i}
            /\ i \notin Identities(manifest) /\ i = [id |-> manifest.nextId, gen |-> 1]
    BY <2>3, <2>4, RotationNames, Zenon
  <2>6. /\ {"who", "step", "worker", "next", "left"} \subseteq DOMAIN task'
        /\ task'.who = "rotation" /\ task'.step = "seal" /\ task'.worker = w
        /\ task'.next = RotationManifest(manifest, e) /\ task'.left = {}
    BY <1>5, Zenon DEF NoTask
  <2>7. Shapes'
    <3>1. Orderly(task'.left) BY <2>6, NoTaskRuns, Zenon
    <3> QED BY <1>1, <1>2, <2>1, <2>6, <3>1, Zenon DEF Shapes, MutsOK
  <2>8. Disk'
    <3>1. UNCHANGED <<dir, may, env>> /\ Settled(task.step) BY <1>2, <2>2, Zenon DEF Settled
    <3> QED BY <1>1, <3>1, StillDisk, Zenon
  <2>9. Control' BY <1>1, <1>2, <1>3, <1>5, <2>2, <2>6, Zenon DEF Control, Runs, Opening
  <2>10. RotationAt'
    <3>1. NewSegment' = Identity(ActiveEntry(RotationManifest(manifest, e), e.owner))
      BY <2>4, <2>6, Zenon DEF NewSegment
    <3>2. /\ SoundManifest(task'.next)
          /\ Identities(task'.next) = Identities(manifest) \cup {NewSegment'}
          /\ NewSegment' \notin Identities(manifest) /\ NewSegment' = Prepared(manifest)
      BY <2>5, <2>6, <3>1, Zenon DEF Prepared
    <3> QED BY <1>2, <2>2, <2>3, <2>6, <3>2, Zenon DEF RotationAt, Exact, Failed, Prepared
  <2>11. Places'
    BY <2>6, <2>10, Zenon
    DEF Places, IdleAt, BootAt, ScanAt, ResumeAt, DropAt, CompactionAt, ScanSteps, DropSteps
  <2> QED BY <2>7, <2>8, <2>9, <2>11, Zenon DEF AuthorityInv
<1> QED BY <1>4, <1>5, Zenon DEF TakeLease

LEMMA OtherClientSteps ==
    ASSUME AuthorityInv, NEW c \in Clients,
           WaitLease(c) \/ WakeLease(c) \/ Recheck(c) \/ MutateRetry(c)
    PROVE  AuthorityInv'
<1>1. Shapes /\ Control BY Zenon DEF AuthorityInv
<1>2. mut[c].pc # "none"
  BY Zenon DEF WaitLease, WakeLease, Recheck, MutateRetry
<1>3. proc = "open" BY <1>1, <1>2, Zenon DEF Control
<1>4. UNCHANGED <<dir, may, task, proc, lease, healthy, dirHealthy, manifest, job, env, faults,
                  compactions>>
  BY Zenon
     DEF WaitLease, WakeLease, Recheck, MutateRetry, leaseUnchanged, dirVars, memVars, ghostVars
<1>5. \E pc : MutGoto(c, pc) \/ MutDone(c)
  BY Zenon DEF WaitLease, WakeLease, Recheck, MutateRetry, MutDone
<1>6. MutsOK' BY <1>1, <1>5, MutChange, Zenon
<1> QED BY <1>3, <1>4, <1>6, ClientStep, Zenon

LEMMA MutateFullStep ==
    ASSUME AuthorityInv, NEW c \in Clients, NEW w \in Workers, NEW k, NEW op,
           MutateFull(c, w, k, op)
    PROVE  AuthorityInv'
<1> DEFINE r == [pc |-> "full", worker |-> w, key |-> k, op |-> op,
                 seq |-> nextSeq[w], active |-> Active(w).id]
<1>1. Shapes BY Zenon DEF AuthorityInv
<1>2. /\ proc = "open" /\ mut' = [mut EXCEPT ![c] = r]
      /\ UNCHANGED <<dir, may, task, proc, lease, healthy, dirHealthy, manifest, job, env, faults,
                     compactions>>
  BY Zenon DEF MutateFull, Admissible, dirVars, memVars, ghostVars
<1>3. {"pc", "worker"} \subseteq DOMAIN r /\ r.worker = w BY Zenon
<1> HIDE DEF r
<1>4. /\ DOMAIN mut = Clients
      /\ \A d \in Clients : {"pc", "worker"} \subseteq DOMAIN mut[d] /\ mut[d].worker \in Workers
  BY <1>1, Zenon DEF Shapes
<1>5. DOMAIN mut' = Clients /\ \A d \in Clients : mut'[d] = IF d = c THEN r ELSE mut[d]
  BY <1>2, <1>4, Zenon
<1>6. \A d \in Clients : {"pc", "worker"} \subseteq DOMAIN mut'[d] /\ mut'[d].worker \in Workers
  BY <1>3, <1>4, <1>5, Zenon
<1> QED BY <1>2, <1>5, <1>6, ClientStep, Zenon DEF MutsOK

LEMMA StartCompactionStep ==
    ASSUME AuthorityInv, NEW w \in Workers, StartCompaction(w)
    PROVE  AuthorityInv'
<1>1. Shapes /\ Control /\ Places BY Zenon DEF AuthorityInv
<1>2. /\ proc = "open" /\ job.pc = "none" /\ compactions < env.compactions
      /\ compactions' = compactions + 1
      /\ UNCHANGED <<dir, may, task, proc, lease, healthy, dirHealthy, manifest, mut, env, faults>>
  BY Zenon DEF StartCompaction, dirVars, memVars
<1>3. /\ {"pc", "worker", "base", "live"} \subseteq DOMAIN job'
      /\ job'.pc = "stage" /\ job'.worker = w /\ job'.base = manifest
  <2>1. PICK j1, j2, j3, j4 :
          job' = [pc |-> "stage", worker |-> w, base |-> manifest, seq |-> j1,
                  live |-> j2, index |-> j3, left |-> j4]
    BY Zenon DEF StartCompaction
  <2> QED BY <2>1, Zenon
<1>4. task.who \in {"none", "rotation"} BY <1>1, <1>2, Zenon DEF Control, Runs, Opening
<1>5. SoundManifest(manifest) BY <1>1, <1>2, <1>4, Zenon DEF Places, IdleAt, RotationAt
<1>6. compactions' \in Nat /\ env.compactions # 0
  <2>1. compactions \in Nat BY <1>1, Zenon DEF Shapes
  <2> QED BY <1>2, <2>1
<1>7. Shapes' BY <1>1, <1>2, <1>3, <1>6, Zenon DEF Shapes
<1>8. Control' BY <1>1, <1>2, <1>3, <1>4, <1>5, <1>6, Zenon DEF Control
<1>9. task.who \notin {"compaction", "rollback"} BY <1>4, Zenon
<1> QED BY <1>2, <1>7, <1>8, <1>9, BesideStep, Zenon

LEMMA StageOutputStep ==
    ASSUME AuthorityInv, StageOutput
    PROVE  AuthorityInv'
<1> DEFINE i == Lowest(job.left)
<1>1. Shapes /\ Disk /\ Control BY Zenon DEF AuthorityInv
<1>2. /\ job.pc = "stage" /\ dir' = AddSegmentTmp(dir, i)
      /\ may' = may \cup {AddSegmentTmp(n, i) : n \in may} /\ job' = [job EXCEPT !.left = @ \ {i}]
      /\ UNCHANGED <<task, proc, lease, healthy, dirHealthy, manifest, mut, env, faults,
                     compactions>>
  BY Zenon DEF StageOutput, Rename, memVars, ghostVars
<1> HIDE DEF i
<1>3. /\ {"pc", "worker", "base", "live"} \subseteq DOMAIN job'
      /\ job'.pc = job.pc /\ job'.worker = job.worker /\ job'.base = job.base
      /\ job'.live = job.live
  BY <1>1, <1>2, Zenon DEF Shapes
<1>4. Shapes' BY <1>1, <1>2, <1>3, Zenon DEF Shapes
<1>5. Control' BY <1>1, <1>2, <1>3, Zenon DEF Control
<1>6. \A n : Named(n) => Named(AddSegmentTmp(n, i)) /\ SameNames(AddSegmentTmp(n, i), n)
  BY TemporaryNames, Zenon
<1>7. Named(dir') /\ SameNames(dir', dir) /\ (dir \in may => dir' \in may')
  BY <1>1, <1>2, <1>6, Zenon DEF Disk
<1>8. \A n \in may' : n \in may \/ \E k \in may : Named(k) => Named(n) /\ SameNames(n, k)
  BY <1>2, <1>6, Zenon
<1> QED BY <1>2, <1>3, <1>4, <1>5, <1>7, <1>8, QuietStep, Zenon

LEMMA DropJobStep ==
    ASSUME AuthorityInv, DropJob
    PROVE  AuthorityInv'
<1> DEFINE T == JobOutputs \ job.left
<1>1. Shapes /\ Disk /\ Control BY Zenon DEF AuthorityInv
<1>2. /\ job.pc = "stage" /\ dir' = DropSegmentTmps(dir, T)
      /\ may' = may \cup {DropSegmentTmps(n, T) : n \in may} /\ job' = NoJob
      /\ UNCHANGED <<task, proc, lease, healthy, dirHealthy, manifest, mut, env, faults,
                     compactions>>
  BY Zenon DEF DropJob, Rename, memVars, ghostVars
<1> HIDE DEF T
<1>3. {"pc", "worker", "base", "live"} \subseteq DOMAIN job' /\ job'.pc = "none"
  BY <1>2, Zenon DEF NoJob
<1>4. Shapes' BY <1>1, <1>2, <1>3, Zenon DEF Shapes
<1>5. Control' /\ task.who \notin {"compaction", "rollback"} BY <1>1, <1>2, <1>3, Zenon DEF Control
<1>6. \A n : Named(n) => Named(DropSegmentTmps(n, T)) /\ SameNames(DropSegmentTmps(n, T), n)
  BY TemporaryNames, Zenon
<1>7. Named(dir') /\ SameNames(dir', dir) /\ (dir \in may => dir' \in may')
  BY <1>1, <1>2, <1>6, Zenon DEF Disk
<1>8. \A n \in may' : n \in may \/ \E k \in may : Named(k) => Named(n) /\ SameNames(n, k)
  BY <1>2, <1>6, Zenon
<1> QED BY <1>2, <1>4, <1>5, <1>7, <1>8, QuietStep, Zenon

LEMMA OpenGateStep ==
    ASSUME AuthorityInv, OpenGate
    PROVE  AuthorityInv'
<1>1. Shapes /\ Disk /\ Control /\ Places BY Zenon DEF AuthorityInv
<1>2. /\ job.pc = "stage" /\ lease = "none" /\ manifest = job.base /\ lease' = "compaction"
      /\ Healthy
      /\ job' = [job EXCEPT !.pc = "publish"]
      /\ task' = [NoTask EXCEPT !.who = "compaction", !.step = "intent_tmp", !.worker = job.worker,
                      !.next = CompactionManifest(job.base, job.worker, Outputs(job.live))]
      /\ UNCHANGED <<dir, may, proc, healthy, dirHealthy, manifest, mut, env, faults, compactions>>
  BY Zenon DEF OpenGate, GateOpen, dirVars, memVars, ghostVars
<1>3. proc = "open" /\ SoundManifest(job.base) /\ job.worker \in Workers
  BY <1>1, <1>2, Zenon DEF Control
<1>4. /\ task.who = "none" /\ task.step = "none"
      /\ Live(manifest) /\ dir.intent = Absent /\ dir.segs = Identities(manifest)
  BY <1>2, <1>3, FreeLease, Zenon DEF Healthy, Exact, Failed, Live
<1>5. /\ {"pc", "worker", "base", "live"} \subseteq DOMAIN job'
      /\ job'.pc = "publish" /\ job'.worker = job.worker /\ job'.base = job.base
      /\ job'.live = job.live
  BY <1>1, <1>2, Zenon DEF Shapes
<1>6. /\ {"who", "step", "worker", "next", "left"} \subseteq DOMAIN task'
      /\ task'.who = "compaction" /\ task'.step = "intent_tmp" /\ task'.left = {}
      /\ task'.next = CompactionManifest(job.base, job.worker, Outputs(job.live))
  BY <1>2, Zenon DEF NoTask
<1>7. Shapes'
  <2>1. Orderly(task'.left) BY <1>6, NoTaskRuns, Zenon
  <2> QED BY <1>1, <1>2, <1>5, <1>6, <2>1, Zenon DEF Shapes
<1>8. Disk'
  <2>1. UNCHANGED <<dir, may, env>> /\ Settled(task.step) BY <1>2, <1>4, Zenon DEF Settled
  <2> QED BY <1>1, <2>1, StillDisk, Zenon
<1>9. Control' BY <1>1, <1>2, <1>3, <1>5, <1>6, Zenon DEF Control, Runs, Opening, StageSteps
<1>10. CompactionAt'
  <2>1. task'.next = CompactionManifest(job'.base, job'.worker, Outputs(job'.live))
    BY <1>5, <1>6, Zenon
  <2>2. task'.next = CompactionManifest(job.base, job.worker, Outputs(job.live))'
    BY <2>1, Zenon DEF Outputs
  <2> QED
    BY <1>2, <1>4, <1>5, <1>6, <2>2, Zenon DEF CompactionAt, StageSteps, ManSteps, DropSteps, Live
<1>11. Places'
  BY <1>6, <1>10, Zenon
  DEF Places, IdleAt, BootAt, ScanAt, ResumeAt, RotationAt, DropAt, ScanSteps, DropSteps
<1> QED BY <1>7, <1>8, <1>9, <1>11, Zenon DEF AuthorityInv

\* A program ends with an error.
LEMMA FailStep ==
    ASSUME AuthorityInv, Disk', IdleAt', NEW h, Fail(h), task.who # "none",
           faults' \in Nat, env.faults = 0 => healthy' /\ dirHealthy'
    PROVE  AuthorityInv'
<1>1. Shapes /\ Control BY Zenon DEF AuthorityInv
<1>2. task' = NoTask /\ env' = env /\ compactions' = compactions BY Zenon DEF Fail
<1>3. NoProgram(task') /\ Orderly({}) BY <1>2, NoTaskRuns, Zenon
<1>4. MutsOK'
  <2>1. CASE task.who = "rotation"
    <3>1. MutDone(task.client) BY <2>1, Zenon DEF Fail, MutDone
    <3> QED BY <1>1, <3>1, MutChange, Zenon
  <2>2. CASE task.who # "rotation"
    <3>1. mut' = mut BY <2>2, Zenon DEF Fail
    <3> QED BY <1>1, <3>1, Zenon DEF Shapes, MutsOK
  <2> QED BY <2>1, <2>2, Zenon
<1>5. /\ {"pc", "worker", "base", "live"} \subseteq DOMAIN job'
      /\ (task.who \in {"compaction", "rollback"} => job'.pc = "none")
      /\ (task.who \notin {"compaction", "rollback"} => job' = job)
  <2>1. {"pc", "worker", "base", "live"} \subseteq DOMAIN NoJob /\ NoJob.pc = "none"
    BY Zenon DEF NoJob
  <2> QED BY <1>1, <2>1, Zenon DEF Fail, Shapes
<1>6. Shapes' BY <1>1, <1>2, <1>3, <1>4, <1>5, Zenon DEF Shapes, NoProgram, MutsOK
<1>7. Control'
  <2>1. CASE task.who \in Opening
    <3>1. proc = "opening" /\ task.who \notin {"rotation", "compaction", "rollback"}
      BY <1>1, <2>1, Zenon DEF Control, Opening
    <3>2. job.pc = "none" /\ (\A c \in Clients : mut[c].pc = "none") /\ lease = "none"
      BY <1>1, <3>1, Quiescent, Zenon
    <3>3. proc' = "down" /\ lease' = lease /\ mut' = mut /\ job' = job
      BY <2>1, <3>1, Zenon DEF Fail
    <3> QED BY <1>3, <3>2, <3>3, Zenon DEF Control, NoProgram, Runs, Opening
  <2>2. CASE task.who \notin Opening
    <3>1. task.who \in {"rotation", "compaction", "rollback"} /\ proc = "open"
      BY <1>1, <2>2, Zenon DEF Control, Runs, Opening
    <3>2. proc' = proc /\ lease' = "none" BY <2>2, Zenon DEF Fail
    <3> QED BY <1>1, <1>2, <1>3, <1>5, <3>1, <3>2, Zenon DEF Control, NoProgram, Runs, Opening
  <2> QED BY <2>1, <2>2, Zenon
<1>8. Places'
  BY <1>3, Zenon
  DEF Places, BootAt, ScanAt, ResumeAt, RotationAt, DropAt, CompactionAt, NoProgram, ScanSteps,
  DropSteps
<1> QED BY <1>6, <1>7, <1>8, Zenon DEF AuthorityInv

\* Where an I/O error may have happened, the next process finds the names as
\* they are.
LEMMA Faulty ==
    ASSUME TameOnly, Shapes, faults < env.faults \/ ~healthy \/ ~dirHealthy
    PROVE  /\ env.faults # 0 /\ "power" \notin env.crash
           /\ env.compactions = 0 \/ env.steps \cap {"man_rename", "promote"} = {}
<1>1. env \in Environments /\ faults \in Nat BY Zenon DEF Shapes
<1>2. faults < env.faults => env.faults # 0 BY <1>1
<1>3. env.faults # 0 BY <1>2, Zenon DEF Shapes
<1> QED BY <1>1, <1>3, Zenon DEF TameOnly, Tame

LEMMA FaultyDisk ==
    ASSUME Disk, "power" \notin env.crash, env' = env, Named(dir'), SameNames(dir', dir)
    PROVE  Disk'
<1>1. Survivors = {dir} /\ Survivors' = {dir'} BY Zenon DEF Survivors
<1>2. Complete(dir') BY <1>1, SameComplete, Zenon DEF Disk
<1>3. SameNames(dir', dir') BY Zenon DEF SameNames
<1> QED BY <1>1, <1>2, <1>3, SamePending, Zenon DEF Disk

\* An open Store knows a sound Manifest, and its directory has one.
LEMMA OpenManifest ==
    ASSUME AuthorityInv, proc = "open"
    PROVE  SoundManifest(manifest) /\ ~dir.boot
<1>1. Shapes /\ Control /\ Places BY Zenon DEF AuthorityInv
<1>2. CASE task.who = "none" BY <1>1, <1>2, Zenon DEF Places, IdleAt
<1>3. CASE task.who = "rotation" BY <1>1, <1>3, Zenon DEF Places, RotationAt
<1>4. CASE task.who \in {"compaction", "rollback"}
  <2>1. ~dir.boot BY <1>1, <1>4, Zenon DEF Places, CompactionAt
  <2>2. SoundManifest(job.base) /\ job.worker \in Workers BY <1>1, <1>4, Zenon DEF Control
  <2>3. task.next = CompactionManifest(job.base, job.worker, Outputs(job.live))
    BY <1>1, <1>4, Zenon DEF Places, CompactionAt
  <2>4. SoundManifest(task.next) BY <2>2, <2>3, JobNames, Zenon
  <2>5. CASE task.step \in StageSteps \cup ManSteps \cup {"install"}
    BY <1>1, <1>4, <2>1, <2>2, <2>5, Zenon DEF Places, CompactionAt
  <2>6. CASE task.step \in DropSteps
    BY <1>1, <1>4, <2>1, <2>2, <2>4, <2>6, Zenon DEF Places, CompactionAt
  <2> QED BY <1>1, <1>4, <2>5, <2>6, Zenon DEF Control, Runs
<1> QED BY <1>1, <1>2, <1>3, <1>4, Zenon DEF Control, Runs, Opening

LEMMA PoisonedFailureStep ==
    ASSUME TameOnly, AuthorityInv, PoisonedFailure
    PROVE  AuthorityInv'
<1>1. Shapes /\ Disk /\ Control BY Zenon DEF AuthorityInv
<1>2. /\ Fault \/ (~dirHealthy /\ faults' = faults)
      /\ task.step # "none" /\ dirHealthy' = FALSE /\ DiscardStaged /\ Fail(FALSE)
  BY Zenon DEF PoisonedFailure, EntrySteps
<1>3. "power" \notin env.crash /\ env.faults # 0 BY <1>1, <1>2, Faulty, Zenon DEF Fault
<1>4. Named(dir') /\ SameNames(dir', dir)
  <2>1. Named(dir) BY <1>1, Zenon DEF Disk
  <2>2. dir' = DropSegmentTmps(dir, JobOutputs) \/ dir' = dir
    <3>1. CASE /\ task.who = "compaction"
               /\ task.step \in {"intent_tmp", "intent_rename", "intent_sync", "promote", "rename"}
      BY <1>2, <3>1, Zenon DEF DiscardStaged, Rename
    <3>2. CASE ~(/\ task.who = "compaction"
                 /\ task.step \in {"intent_tmp", "intent_rename", "intent_sync", "promote",
                                   "rename"})
      BY <1>2, <3>2, Zenon DEF DiscardStaged
    <3> QED BY <3>1, <3>2, Zenon
  <2>3. Named(DropSegmentTmps(dir, JobOutputs)) /\ SameNames(DropSegmentTmps(dir, JobOutputs), dir)
    BY <2>1, TemporaryNames, Zenon
  <2>4. SameNames(dir, dir) BY Zenon DEF SameNames
  <2>5. CASE dir' = dir BY <2>1, <2>4, <2>5, Zenon
  <2>6. CASE dir' = DropSegmentTmps(dir, JobOutputs) BY <2>3, <2>6, Zenon
  <2> QED BY <2>2, <2>5, <2>6, Zenon
<1>5. env' = env /\ manifest' = manifest /\ (proc' = "open" => proc = "open")
  BY <1>2, Zenon DEF Fail
<1>6. Disk' BY <1>1, <1>3, <1>4, <1>5, FaultyDisk, Zenon
<1>7. IdleAt' BY <1>2, <1>4, <1>5, OpenManifest, Zenon DEF IdleAt, Failed, SameNames
<1>8. faults' \in Nat
  <2>1. faults \in Nat /\ (faults' = faults + 1 \/ faults' = faults)
    BY <1>1, <1>2, Zenon DEF Shapes, Fault
  <2> QED BY <2>1
<1>9. task.who # "none" BY <1>1, <1>2, Runners, Zenon
<1> QED BY <1>2, <1>3, <1>6, <1>7, <1>8, <1>9, FailStep, Zenon

\* An error before anything was renamed.
LEMMA CleanFaultStep ==
    ASSUME TameOnly, AuthorityInv, CleanFailure, Fault,
           task.step \in {"seal", "seg_rename", "man_rename", "boot_rename", "intent_rename",
                          "promote"}
    PROVE  AuthorityInv'
<1> DEFINE still == task.step \in {"seal", "intent_rename"}
<1>1. Shapes /\ Disk /\ Control /\ Places BY Zenon DEF AuthorityInv
<1>2. RemoveTemporary /\ Fail(still) /\ dirHealthy' = dirHealthy BY Zenon DEF CleanFailure
<1>3. /\ "power" \notin env.crash /\ env.faults # 0
      /\ env.compactions = 0 \/ task.step \notin {"man_rename", "promote"}
  BY <1>1, Faulty, Zenon DEF Fault
<1>4. Named(dir') /\ SameNames(dir', dir)
  <2>1. Named(dir) BY <1>1, Zenon DEF Disk
  <2>2. \/ \E T : dir' = DropSegmentTmps(dir, T)
        \/ \E u : dir' = DropTmp(dir, u)
        \/ dir' = DropSegmentTmps(DropTmp(dir, "intent"), JobOutputs)
        \/ dir' = dir
    <3>1. CASE task.step = "seal" BY <1>2, <3>1, Zenon DEF RemoveTemporary
    <3>2. CASE task.step = "seg_rename" BY <1>2, <3>2, Zenon DEF RemoveTemporary, Rename
    <3>3. CASE task.step = "man_rename" BY <1>2, <3>3, Zenon DEF RemoveTemporary, Rename
    <3>4. CASE task.step = "boot_rename" BY <1>2, <3>4, Zenon DEF RemoveTemporary
    <3>5. CASE task.step = "intent_rename" BY <1>2, <3>5, Zenon DEF RemoveTemporary
    <3>6. CASE task.step = "promote" BY <1>2, <3>6, Zenon DEF RemoveTemporary, Rename
    <3> QED BY <3>1, <3>2, <3>3, <3>4, <3>5, <3>6, Zenon
  <2>3. ASSUME NEW T, NEW u
        PROVE  /\ Named(DropTmp(dir, u)) /\ SameNames(DropTmp(dir, u), dir)
               /\ Named(DropSegmentTmps(dir, T)) /\ SameNames(DropSegmentTmps(dir, T), dir)
    BY <2>1, TemporaryNames, Zenon
  <2>4. LET n == DropTmp(dir, "intent")
        IN  Named(DropSegmentTmps(n, JobOutputs)) /\ SameNames(DropSegmentTmps(n, JobOutputs), n)
    BY <2>3, TemporaryNames, Zenon
  <2> QED BY <2>1, <2>2, <2>3, <2>4, Zenon DEF SameNames
<1>5. env' = env /\ manifest' = manifest /\ task' = NoTask /\ faults' = faults + 1
  BY <1>2, Zenon DEF Fail, Fault
<1>6. Disk' BY <1>1, <1>3, <1>4, <1>5, FaultyDisk, Zenon
<1>7. IdleAt'
  <2> SUFFICES ASSUME proc' = "open" PROVE IdleAt'
    BY Zenon DEF IdleAt
  <2>1. task.who \notin Opening /\ proc = "open" /\ healthy' = (healthy /\ still)
    BY <1>2, Zenon DEF Fail
  <2>2. SoundManifest(manifest) /\ ~dir.boot BY <2>1, OpenManifest, Zenon
  <2>3. /\ dir'.manifest = dir.manifest /\ dir'.segs = dir.segs /\ dir'.intent = dir.intent
        /\ dir'.boot = dir.boot
    BY <1>4, Zenon DEF SameNames
  <2>4. Exact(manifest) \/ Failed(manifest) \/ (~still /\ Prepared(manifest) \in dir.segs)
    <3>1. CASE task.who = "rotation"
      <4>1. task.step \in {"seal", "seg_rename", "man_rename"}
        BY <1>1, <3>1, Zenon DEF Control, Runs, ManSteps, SegSteps
      <4>2. CASE task.step = "seal" BY <1>1, <3>1, <4>2, Zenon DEF Places, RotationAt
      <4>3. CASE task.step = "seg_rename" BY <1>1, <3>1, <4>3, Zenon DEF Places, RotationAt, Exact
      <4>4. CASE task.step = "man_rename" BY <1>1, <3>1, <4>4, Zenon DEF Places, RotationAt
      <4> QED BY <4>1, <4>2, <4>3, <4>4, Zenon
    <3>2. CASE task.who = "compaction"
      <4>1. env.compactions # 0 BY <1>1, <3>2, Zenon DEF Control
      <4>2. task.step = "intent_rename"
        BY <1>1, <1>3, <3>2, <4>1, Zenon DEF Control, Runs, StageSteps, ManSteps, DropSteps
      <4> QED BY <1>1, <3>2, <4>2, Zenon DEF Places, CompactionAt, StageSteps, Exact
    <3>3. task.who # "rollback" BY <1>1, Zenon DEF Control, Runs, DropSteps
    <3> QED BY <1>1, <2>1, <3>1, <3>2, <3>3, Zenon DEF Control, Runs, Opening
  <2> HIDE DEF still
  <2> QED
    BY <1>2, <1>5, <2>1, <2>2, <2>3, <2>4, Zenon DEF IdleAt, Exact, Failed, Prepared
<1>8. faults' \in Nat
  <2>1. faults \in Nat BY <1>1, Zenon DEF Shapes
  <2> QED BY <1>5, <2>1
<1>9. task.who # "none" BY <1>1, Runners, Zenon
<1> HIDE DEF still
<1> QED BY <1>2, <1>3, <1>6, <1>7, <1>8, <1>9, FailStep, Zenon

\* The name of the new Segment is taken: a Store that is being opened, or one
\* that has failed.
LEMMA OccupiedStep ==
    ASSUME AuthorityInv, CleanFailure, task.step = "seg_tmp"
    PROVE  AuthorityInv'
<1>1. Shapes /\ Disk /\ Control /\ Places BY Zenon DEF AuthorityInv
<1>2. /\ Created \in dir.segs /\ faults' = faults /\ dirHealthy' = dirHealthy
      /\ RemoveTemporary /\ Fail(FALSE)
  <2>1. (task.step \in {"seal", "intent_rename"}) = FALSE OBVIOUS
  <2>2. Fail(task.step \in {"seal", "intent_rename"}) BY Zenon DEF CleanFailure
  <2>3. Fail(FALSE) BY <2>1, <2>2, Zenon
  <2> QED BY <2>3, Zenon DEF CleanFailure
<1>3. UNCHANGED <<dir, may, env>> /\ manifest' = manifest /\ task' = NoTask
  BY <1>2, Zenon DEF RemoveTemporary, Fail
<1>4. Disk'
  <2>1. Settled(task.step) BY Zenon DEF Settled
  <2> QED BY <1>1, <1>3, <2>1, StillDisk, Zenon
<1>5. task.who # "rotation" => task.who \in Opening
  BY <1>1, Runners, Zenon DEF SegSteps, Opening
<1>6. CASE task.who \in Opening
  <2>1. proc' = "down" /\ healthy' = healthy BY <1>2, <1>6, Zenon DEF Fail
  <2>2. IdleAt' BY <2>1, Zenon DEF IdleAt
  <2>3. faults' \in Nat /\ (env.faults = 0 => healthy' /\ dirHealthy') /\ task.who # "none"
    BY <1>1, <1>2, <1>6, <2>1, Zenon DEF Shapes, Opening
  <2> QED BY <1>2, <1>4, <2>2, <2>3, FailStep, Zenon
<1>7. CASE task.who = "rotation"
  <2>1. proc' = proc /\ healthy' = FALSE BY <1>2, <1>7, Zenon DEF Fail, Opening
  <2>2. /\ SoundManifest(manifest) /\ ~dir.boot /\ Created = Prepared(manifest)
        /\ Created \notin Identities(manifest) /\ (Exact(manifest) \/ Failed(manifest))
    <3>1. Created = NewSegment BY <1>7, Zenon DEF Created, NewSegment
    <3> QED BY <1>1, <1>7, <3>1, Zenon DEF Places, RotationAt
  <2>3. IdleAt' BY <1>2, <1>3, <2>1, <2>2, Zenon DEF IdleAt, Failed, Prepared
  <2>4. faults' \in Nat /\ (env.faults = 0 => healthy' /\ dirHealthy') /\ task.who # "none"
    BY <1>1, <1>2, <1>7, <2>2, Zenon DEF Shapes, Exact, Failed
  <2> QED BY <1>2, <1>4, <2>3, <2>4, FailStep, Zenon
<1> QED BY <1>5, <1>6, <1>7, Zenon

LEMMA AppendFailsStep ==
    ASSUME TameOnly, AuthorityInv, NEW w, NEW k, NEW op, AppendFails(w, k, op)
    PROVE  AuthorityInv'
<1>1. Shapes /\ Control BY Zenon DEF AuthorityInv
<1>2. /\ faults < env.faults /\ faults' = faults + 1 /\ dirHealthy' = FALSE /\ healthy' = FALSE
      /\ UNCHANGED <<dir, may, task, proc, lease, manifest, mut, job, env, compactions>>
  BY Zenon DEF AppendFails
<1>3. env.faults # 0 BY <1>1, <1>2, Faulty, Zenon
<1>4. faults' \in Nat
  <2>1. faults \in Nat BY <1>1, Zenon DEF Shapes
  <2> QED BY <1>2, <2>1
<1>5. Shapes' BY <1>1, <1>2, <1>3, <1>4, Zenon DEF Shapes
<1>6. Control' BY <1>1, <1>2, Zenon DEF Control
<1> QED BY <1>2, <1>5, <1>6, BesideStep, Zenon

\* A Store that has failed is closed.
LEMMA CloseStep ==
    ASSUME AuthorityInv, Close
    PROVE  AuthorityInv'
<1>1. Shapes /\ Disk /\ Control BY Zenon DEF AuthorityInv
<1>2. /\ task = NoTask /\ job = NoJob /\ \A c \in Clients : mut[c] = NoMut
      /\ proc' = "down" /\ healthy' = TRUE /\ dirHealthy' = TRUE
      /\ UNCHANGED <<dir, may, task, lease, mut, job, env, faults, compactions>>
  BY Zenon DEF Close, dirVars, ghostVars
<1>3. NoProgram(task) /\ NoProgram(task') BY <1>2, NoTaskRuns, Zenon
<1>4. job.pc = "none" BY <1>2, Zenon DEF NoJob
<1>5. Shapes' BY <1>1, <1>2, Zenon DEF Shapes
<1>6. Disk'
  <2>1. Settled(task.step) /\ UNCHANGED <<dir, may, env>>
    BY <1>2, <1>3, Zenon DEF Settled, NoProgram
  <2> QED BY <1>1, <2>1, StillDisk, Zenon
<1>7. Control'
  <2>1. \A c \in Clients : mut[c].pc = "none" BY <1>2, MutShape, Zenon
  <2>2. lease = "none" BY <1>1, <1>3, Zenon DEF Control, NoProgram
  <2> QED BY <1>2, <1>3, <1>4, <2>1, <2>2, Zenon DEF Control, NoProgram, Runs, Opening
<1>8. Places'
  BY <1>2, <1>3, Zenon
  DEF Places, IdleAt, BootAt, ScanAt, ResumeAt, RotationAt, DropAt, CompactionAt, NoProgram,
  ScanSteps, DropSteps
<1> QED BY <1>5, <1>6, <1>7, <1>8, Zenon DEF AuthorityInv

LEMMA CrashStep ==
    ASSUME TameOnly, AuthorityInv, NEW kind \in env.crash, Crash(kind)
    PROVE  AuthorityInv'
<1>1. Shapes /\ Disk BY Zenon DEF AuthorityInv
<1>2. /\ proc' = "down" /\ task' = NoTask /\ lease' = "none" /\ job' = NoJob
      /\ mut' = [c \in Clients |-> NoMut] /\ healthy' = TRUE /\ dirHealthy' = TRUE
      /\ env' = env /\ faults' = faults /\ compactions' = compactions
  BY Zenon DEF Crash
<1>3. NoProgram(task') /\ Orderly({}) BY <1>2, NoTaskRuns, Zenon
<1>4. {"pc", "worker", "base", "live"} \subseteq DOMAIN job' /\ job'.pc = "none"
  BY <1>2, Zenon DEF NoJob
<1>5. DOMAIN mut' = Clients /\ \A c \in Clients : mut'[c] = NoMut BY <1>2, Zenon
<1>6. Shapes' BY <1>1, <1>2, <1>3, <1>4, <1>5, MutShape, Zenon DEF Shapes, NoProgram
<1>7. Control' BY <1>2, <1>3, <1>4, <1>5, MutShape, Zenon DEF Control, NoProgram, Runs, Opening
<1>8. Survivors' = {dir'} /\ dir' \in Survivors
  <2>1. CASE kind = "power"
    <3>1. PICK n \in may : dir' = n /\ may' = {n} BY <2>1, Zenon DEF Crash
    <3>2. Survivors = may BY <2>1, Zenon DEF Survivors
    <3> QED BY <3>1, <3>2, Zenon DEF Survivors
  <2>2. CASE kind # "power"
    <3>1. dir' = dir BY <2>2, Zenon DEF Crash, dirVars
    <3>2. env \in Environments BY <1>1, Zenon DEF Shapes
    <3>3. env.crash \subseteq {"power", "kill"} BY <3>2, CatalogAssumption, Zenon
    <3>4. "power" \notin env.crash
      <4>1. "kill" \in env.crash BY <2>2, <3>3, Zenon
      <4>2. "power" \notin env.crash \/ ~({"power", "kill"} \subseteq env.crash)
        BY <3>2, Zenon DEF TameOnly, Tame
      <4> QED BY <4>1, <4>2, Zenon
    <3> QED BY <1>1, <1>2, <3>1, <3>4, Zenon DEF Survivors, Disk
  <2> QED BY <2>1, <2>2, Zenon
<1>9. Disk'
  <2>1. Named(dir') /\ Complete(dir') /\ SameNames(dir', dir')
    BY <1>1, <1>8, Zenon DEF Disk, SameNames
  <2> QED BY <1>8, <2>1, SamePending, Zenon DEF Disk
<1>10. Places'
  BY <1>2, <1>3, Zenon
  DEF Places, IdleAt, BootAt, ScanAt, ResumeAt, RotationAt, DropAt, CompactionAt, NoProgram,
  ScanSteps, DropSteps
<1> QED BY <1>6, <1>7, <1>9, <1>10, Zenon DEF AuthorityInv

------------------------------------------------------------------------------
(* The invariant holds at the start and is kept by every step. *)

LEMMA AuthorityInit == Init => AuthorityInv
<1> SUFFICES ASSUME Init PROVE AuthorityInv
  BY Zenon
<1>1. /\ dir = EmptyDirectory /\ may = {EmptyDirectory} /\ proc = "down" /\ task = NoTask
      /\ lease = "none" /\ healthy = TRUE /\ dirHealthy = TRUE /\ job = NoJob
      /\ mut = [c \in Clients |-> NoMut] /\ faults = 0 /\ compactions = 0
      /\ env \in Environments
  BY Zenon DEF Init
<1>2. NoProgram(task) /\ Orderly({}) BY <1>1, NoTaskRuns, Zenon
<1>3. {"pc", "worker", "base", "live"} \subseteq DOMAIN job /\ job.pc = "none"
  BY <1>1, Zenon DEF NoJob
<1>4. DOMAIN mut = Clients /\ \A c \in Clients : mut[c] = NoMut BY <1>1, Zenon
<1>5. Shapes
  <2>1. faults \in Nat /\ compactions \in Nat BY <1>1
  <2> QED BY <1>1, <1>2, <1>3, <1>4, <2>1, MutShape, Zenon DEF Shapes, NoProgram
<1>6. Control BY <1>1, <1>2, <1>3, <1>4, MutShape, Zenon DEF Control, NoProgram, Runs, Opening
<1>7. Survivors = {dir} BY <1>1, Zenon DEF Survivors
<1>8. Named(dir) /\ dir.manifest = Absent /\ dir.boot = FALSE /\ dir.intent = Absent
  BY <1>1, Zenon DEF EmptyDirectory, Named
<1>9. Disk
  <2>1. Complete(dir) /\ SameNames(dir, dir) BY <1>8, Zenon DEF Complete, SameNames
  <2> QED BY <1>7, <1>8, <2>1, SamePending, Zenon DEF Disk
<1>10. Places
  BY <1>1, <1>2, Zenon
  DEF Places, IdleAt, BootAt, ScanAt, ResumeAt, RotationAt, DropAt, CompactionAt, NoProgram,
  ScanSteps, DropSteps
<1> QED BY <1>5, <1>6, <1>9, <1>10, Zenon DEF AuthorityInv

LEMMA AuthorityNext ==
    ASSUME TameOnly, AuthorityInv, [Next]_vars
    PROVE  AuthorityInv'
<1>1. CASE OpenStore BY <1>1, OpenStoreStep, Zenon
<1>2. CASE OpenSteps
  BY <1>2, BootTmpStep, BootRenameStep, BootSyncStep, BootSegmentsStep, BootUnlinkStep,
     BootUnlinkSyncStep, ResolveCompactionStep, CompleteRotationStep, ScanStep, CleanOneStep,
     CleanSyncStep, PublishRuntimeStep, Zenon
  DEF OpenSteps
<1>3. CASE SharedSteps
  BY <1>3, ManifestTmpStep, ManifestRenameStep, ManifestSyncStep, SegmentTmpStep, SegmentRenameStep,
     SegmentSyncStep, RetireStep, RetireOneStep, RetireSyncStep, IntentUnlinkStep,
     IntentUnlinkSyncStep, Zenon
  DEF SharedSteps
<1>4. CASE LeaseSteps
  BY <1>4, SealActiveStep, InstallRotationStep, IntentTmpStep, IntentRenameStep, IntentSyncStep,
     PromoteStep, PromoteOneStep, PromoteSyncStep, CommitStep, AbortStep, InstallCompactionStep,
     FinishCompactionStep, Zenon
  DEF LeaseSteps
<1>5. CASE Failures
  BY <1>5, PoisonedFailureStep, CleanFaultStep, OccupiedStep, Zenon DEF Failures, CleanFailure
<1>6. ASSUME NEW c \in Clients, ClientSteps(c) PROVE AuthorityInv'
  BY <1>6, TakeLeaseStep, OtherClientSteps, Zenon DEF ClientSteps
<1>7. CASE JobSteps BY <1>7, StageOutputStep, OpenGateStep, DropJobStep, Zenon DEF JobSteps
<1>8. CASE Requests
  <2>1. ASSUME NEW w \in Workers, NEW k \in Keys, NEW op \in env.ops, Mutate(w, k, op)
        PROVE  AuthorityInv'
    <3>1. Untouched BY <2>1, Zenon DEF Mutate, Untouched
    <3> QED BY <3>1, RecordStep, Zenon
  <2>2. ASSUME NEW w \in Workers, NEW k \in Keys, NEW op \in env.ops, AppendFails(w, k, op)
        PROVE  AuthorityInv'
    BY <2>2, AppendFailsStep, Zenon
  <2>3. CASE Flush
    <3>1. Untouched BY <2>3, Zenon DEF Flush, dirVars, ghostVars, Untouched
    <3> QED BY <3>1, RecordStep, Zenon
  <2> QED BY <1>8, <2>1, <2>2, <2>3, MutateFullStep, StartCompactionStep, Zenon DEF Requests
<1>9. CASE Tick
  <2>1. Untouched BY <1>9, Zenon DEF Tick, dirVars, memVars, Untouched
  <2> QED BY <2>1, RecordStep, Zenon
<1>10. CASE Close BY <1>10, CloseStep, Zenon
<1>11. ASSUME NEW kind \in env.crash, Crash(kind) PROVE AuthorityInv'
  BY <1>11, CrashStep, Zenon
<1>12. CASE UNCHANGED vars
  <2>1. Untouched BY <1>12, Zenon DEF vars, restVars, dirVars, memVars, ghostVars, Untouched
  <2> QED BY <2>1, RecordStep, Zenon
<1> QED
  BY <1>1, <1>2, <1>3, <1>4, <1>5, <1>6, <1>7, <1>8, <1>9, <1>10, <1>11, <1>12, Zenon DEF Next

LEMMA AuthoritySafe == AuthorityInv => AuthorityIsComplete
<1> SUFFICES ASSUME AuthorityInv PROVE AuthorityIsComplete
  BY Zenon
<1>1. \A n \in Survivors : Complete(n) BY Zenon DEF AuthorityInv, Disk
<1> QED BY <1>1, Zenon DEF AuthorityIsComplete, NoThirdAuthority, Complete, MissingSegments

\* Without I/O errors the Store never fails, and a healthy Store whose lease is
\* free and its directory agree.
ExactDirectory ==
    /\ env.faults = 0 => Healthy
    /\ proc = "open" /\ lease = "none" /\ Healthy =>
          /\ dir.manifest = manifest /\ dir.segs = Identities(manifest)
          /\ dir.intent = Absent /\ ~dir.boot

\* The inductive invariant, from which the theorems below follow.
LEMMA AuthorityAlways ==
    ASSUME TameOnly
    PROVE  Spec => []AuthorityInv
<1>1. Init => AuthorityInv BY AuthorityInit, Zenon
<1>2. AuthorityInv /\ [Next]_vars => AuthorityInv' BY AuthorityNext, Zenon
<1> QED BY <1>1, <1>2, PTL DEF Spec

\* Whatever a power loss, or the end of the process, keeps of the pending changes
\* of names, at any step of creation, rotation, compaction, after a failed I/O
\* call or in a recovery from an earlier crash: an intent is found only with one
\* of its two Manifests and each Segment a visible Manifest lists is there
\* (publish_manifest, publish_compaction_intent, retire_compaction_segments).
THEOREM AuthorityHolds ==
    ASSUME TameOnly
    PROVE  Spec => []AuthorityIsComplete
BY AuthorityAlways, AuthoritySafe, PTL

\* While nobody publishes a Manifest, the directory of a healthy Store holds the
\* Segments of the Manifest in memory and no others, and no intent: recovery,
\* rotations and compactions, committed or rolled back, leave nothing behind, so
\* the audit at the end of a compaction never fails a healthy Store
\* (compact_worker, rotate_active, open_locked).
THEOREM DirectoryIsExact ==
    ASSUME TameOnly
    PROVE  Spec => []ExactDirectory
<1>1. AuthorityInv => ExactDirectory
  <2> SUFFICES ASSUME AuthorityInv PROVE ExactDirectory
    BY Zenon
  <2>1. env.faults = 0 => Healthy BY Zenon DEF AuthorityInv, Shapes, Healthy
  <2>2. ASSUME proc = "open", lease = "none", Healthy
        PROVE  /\ dir.manifest = manifest /\ dir.segs = Identities(manifest)
               /\ dir.intent = Absent /\ ~dir.boot
    BY <2>2, FreeLease, Zenon DEF Exact, Failed, Healthy
  <2> QED BY <2>1, <2>2, Zenon DEF ExactDirectory
<1> QED BY <1>1, AuthorityAlways, PTL
==============================================================================

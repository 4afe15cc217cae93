---------------------------- MODULE DataDirectory ----------------------------
(***************************************************************************)
(* DataDirectory: the names in the data directory, and what a power loss   *)
(* may do to them.  A namespace n is a record of                           *)
(*   manifest   the catalog file, or Absent                                *)
(*   boot       the bootstrap intent file exists                           *)
(*   intent     the compaction intent [worker, old, next], or Absent       *)
(*   segs       identities whose final Segment name exists                 *)
(*   stmps      identities whose Segment temporary name exists             *)
(*   tmps       the other temporary names ("manifest", "boot", "intent")   *)
(* Writing and synchronising a temporary file precedes its rename, so a    *)
(* name always leads to complete contents.  data maps an identity to the   *)
(* selected commit of its file: its state and its committed Records.       *)
(***************************************************************************)
EXTENDS Manifest, Sequences

CONSTANT Absent

VARIABLES
    dir,   \* the namespace as running processes see it
    may,   \* the namespaces a power loss may leave behind
    data   \* contents of the Segment files, by identity

dirVars == <<dir, may, data>>

EmptyDirectory ==
    [manifest |-> Absent, boot |-> FALSE, intent |-> Absent,
     segs |-> {}, stmps |-> {}, tmps |-> {}]

Pristine == [state |-> "active", log |-> <<>>]

\* One unsynchronised change of a name: a power loss may keep or lose it,
\* independently of the other pending changes.
Rename(F(_)) ==
    /\ dir' = F(dir)
    /\ may' = may \cup {F(n) : n \in may}

SyncDirectory ==
    /\ may' = {dir}
    /\ UNCHANGED dir

\* The changes of names the Store makes.
AddTmp(n, t) == [n EXCEPT !.tmps = @ \cup {t}]
DropTmp(n, t) == [n EXCEPT !.tmps = @ \ {t}]
AddSegmentTmp(n, i) == [n EXCEPT !.stmps = @ \cup {i}]
DropSegmentTmps(n, S) == [n EXCEPT !.stmps = @ \ S]
PutManifest(n, m) == [n EXCEPT !.manifest = m, !.tmps = @ \ {"manifest"}]
PutBootIntent(n) == [n EXCEPT !.boot = TRUE, !.tmps = @ \ {"boot"}]
DropBootIntent(n) == [n EXCEPT !.boot = FALSE]
PutIntent(n, i) == [n EXCEPT !.intent = i, !.tmps = @ \ {"intent"}]
DropIntent(n) == [n EXCEPT !.intent = Absent, !.tmps = @ \ {"intent"}]
PutSegment(n, i) == [n EXCEPT !.segs = @ \cup {i}, !.stmps = @ \ {i}]
DropSegment(n, i) == [n EXCEPT !.segs = @ \ {i}, !.stmps = @ \ {i}]

----------------------------------------------------------------------------
(* audit_data_directory: how the namespace n differs from the Manifest m.   *)

MissingSegments(n, m) == Identities(m) \ n.segs
UnlistedSegments(n, m) == n.segs \ Identities(m)

\* Only temporaries may be left over.
SafeForRecovery(n, m) ==
    /\ MissingSegments(n, m) = {}
    /\ UnlistedSegments(n, m) = {}
    /\ n.intent = Absent
    /\ ~n.boot

\* With a compaction intent, the files of the side that is not the authority
\* may also be there.
SafeForCompactionRecovery(n, i) ==
    /\ n.manifest \in {i.old, i.next}
    /\ MissingSegments(n, n.manifest) = {}
    /\ UnlistedSegments(n, n.manifest) \subseteq Identities(i.old) \cup Identities(i.next)
    /\ ~n.boot

\* Nothing but the bootstrap temporary: a Store may be created here.
PristineForBootstrap(n) ==
    /\ n.segs = {} /\ n.stmps = {} /\ n.tmps \subseteq {"boot"}
    /\ n.intent = Absent /\ n.manifest = Absent

----------------------------------------------------------------------------
(* The recovery scan of the Segments of a Manifest.                         *)

LogOf(e) == data[Identity(e)].log
Records(e) == {LogOf(e)[j] : j \in 1..Len(LogOf(e))}
WorkerEntries(m, w) == {e \in m.entries : e.owner = w}
WorkerRecords(m, w) == UNION {Records(e) : e \in WorkerEntries(m, w)}

\* Lifecycle agrees with the role, and each Segment starts above the Records
\* of the Worker's earlier Segments.
ScanAccepts(m) ==
    \A e \in m.entries :
        /\ e.role = "sealed" => data[Identity(e)].state = "sealed"
        /\ \A f \in WorkerEntries(m, e.owner) :
               f.id < e.id => \A r \in Records(f), s \in Records(e) : r.seq < s.seq

Highest(R) == CHOOSE r \in R : \A s \in R : s.seq <= r.seq
MaxSequence(m, w) ==
    IF WorkerRecords(m, w) = {} THEN 0 ELSE Highest(WorkerRecords(m, w)).seq

Latest(m, w, k) ==
    LET R == {r \in WorkerRecords(m, w) : r.key = k}
    IN  IF R = {} THEN Absent ELSE Highest(R)

SealedActives(m) == {e \in m.entries : e.role = "active" /\ data[Identity(e)].state = "sealed"}
=============================================================================

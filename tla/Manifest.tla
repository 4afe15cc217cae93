------------------------------ MODULE Manifest ------------------------------
(***************************************************************************)
(* The durable Manifest: the one file that says which Segments belong to   *)
(* the Store.  A Manifest is [generation, nextId, entries]; an entry is    *)
(* [id, gen, owner, role].  The encoded form, Store id and routing fields  *)
(* never change after creation and are left out, so the set of entries     *)
(* stands for the ordered array (ids are distinct).                        *)
(***************************************************************************)
EXTENDS Naturals, FiniteSets

CONSTANTS
    WorkerCount,  \* Workers of the Store
    MaxSegments   \* DurableResourceLimits::max_segments

ASSUME ManifestAssumption ==
    /\ WorkerCount \in Nat \ {0}
    /\ MaxSegments \in Nat

Workers == 0..(WorkerCount - 1)

Identity(e) == [id |-> e.id, gen |-> e.gen]
Identities(m) == {Identity(e) : e \in m.entries}
ActiveEntry(m, w) == CHOOSE e \in m.entries : e.owner = w /\ e.role = "active"
Sources(m, w) == {e \in m.entries : e.owner = w /\ e.role = "sealed"}

\* What encode_manifest and decode_manifest require.
ValidManifest(m) ==
    /\ m.generation > 0
    /\ \A e \in m.entries : /\ e.id > 0 /\ e.gen > 0 /\ e.id < m.nextId
                            /\ e.owner \in Workers
                            /\ e.role \in {"active", "sealed"}
    /\ \A e, f \in m.entries : e.id = f.id => e = f
    /\ \A w \in Workers :
        Cardinality({e \in m.entries : e.owner = w /\ e.role = "active"}) = 1

\* Worker w starts with Segment w + 1 as its active Segment.
InitialManifest ==
    [generation |-> 1, nextId |-> WorkerCount + 1,
     entries |-> {[id |-> w + 1, gen |-> 1, owner |-> w, role |-> "active"] : w \in Workers}]

CanRotate(m) == Cardinality(m.entries) < MaxSegments

\* The active entry e becomes sealed and its owner gets the next Segment id.
RotationManifest(m, e) ==
    [generation |-> m.generation + 1, nextId |-> m.nextId + 1,
     entries |-> (m.entries \ {e})
                   \cup {[e EXCEPT !.role = "sealed"],
                         [id |-> m.nextId, gen |-> 1, owner |-> e.owner, role |-> "active"]}]

\* The n entries of S with the smallest ids.
Earliest(S, n) == {e \in S : Cardinality({f \in S : f.id < e.id}) < n}

\* n outputs take over the ids of the n earliest sources, one generation up.
Replacements(m, w, n) == {[e EXCEPT !.gen = @ + 1] : e \in Earliest(Sources(m, w), n)}

CompactionManifest(m, w, n) ==
    [generation |-> m.generation + 1, nextId |-> m.nextId,
     entries |-> (m.entries \ Sources(m, w)) \cup Replacements(m, w, n)]

\* How many outputs the transition from old to next has.
OutputCount(old, next, w) ==
    Cardinality(next.entries) + Cardinality(Sources(old, w)) - Cardinality(old.entries)

ValidCompactionTransition(old, next, w) ==
    /\ ValidManifest(old) /\ ValidManifest(next)
    /\ Sources(old, w) # {}
    /\ Cardinality(next.entries) <= Cardinality(old.entries)
    /\ Cardinality(next.entries) + Cardinality(Sources(old, w)) >= Cardinality(old.entries)
    /\ next = CompactionManifest(old, w, OutputCount(old, next, w))
=============================================================================

---------------------------- MODULE CatalogNames ----------------------------
(***************************************************************************)
(* Manifests and the names on disk, for every number of Workers and        *)
(* Segments.  First the transitions: creation, rotation and compaction     *)
(* take a Manifest that encode and decode accept to another one, the       *)
(* Segments they introduce have identities, and so file names, that no     *)
(* Segment of the Manifest they replace has, and recovery accepts what the *)
(* planner wrote into the intent.                                          *)
(*                                                                         *)
(* Then AuthorityInv, the inductive invariant of the names in the data     *)
(* directory, and the proof that the file-system steps keep it; module     *)
(* CatalogProofs has the other steps and the theorems.                     *)
(***************************************************************************)
EXTENDS Catalog, FiniteSetTheorems, TLAPS

Entry == [id : Nat, gen : Nat, owner : Workers, role : {"active", "sealed"}]

\* A Manifest the code can hold in memory, and that it accepts.
SoundManifest(m) ==
    /\ m \in [generation : Nat, nextId : Nat, entries : SUBSET Entry]
    /\ IsFiniteSet(m.entries)
    /\ ValidManifest(m)

ActivesOf(entries, w) == {e \in entries : e.owner = w /\ e.role = "active"}
Distinct(entries) == \A e, f \in entries : e.id = f.id => e = f

------------------------------------------------------------------------------
(* Entries and sets of entries. *)

LEMMA SealedEntry ==
    ASSUME NEW e \in Entry
    PROVE  LET s == [e EXCEPT !.role = "sealed"]
           IN  s \in Entry /\ s.id = e.id /\ s.gen = e.gen /\ s.owner = e.owner /\ s.role = "sealed"
BY Zenon DEF Entry

LEMMA ReplacementEntry ==
    ASSUME NEW e \in Entry
    PROVE  LET r == [e EXCEPT !.gen = @ + 1]
           IN  /\ r \in Entry /\ r.id = e.id /\ r.gen = e.gen + 1
               /\ r.owner = e.owner /\ r.role = e.role
BY DEF Entry

LEMMA OneActive ==
    ASSUME NEW entries, IsFiniteSet(entries), NEW w
    PROVE  Cardinality(ActivesOf(entries, w)) = 1 <=> \E a : ActivesOf(entries, w) = {a}
<1>1. IsFiniteSet(ActivesOf(entries, w)) BY FS_Subset, Zenon DEF ActivesOf
<1> QED BY <1>1, FS_Singleton, Zenon

\* What a sound Manifest says, without cardinalities.
LEMMA Reading ==
    ASSUME NEW m, SoundManifest(m)
    PROVE  /\ m.generation \in Nat \ {0} /\ m.nextId \in Nat
           /\ m.entries \subseteq Entry /\ IsFiniteSet(m.entries) /\ Distinct(m.entries)
           /\ \A e \in m.entries : e.id > 0 /\ e.gen > 0 /\ e.id < m.nextId
           /\ \A w \in Workers : \E a : ActivesOf(m.entries, w) = {a}
<1>1. /\ m.generation \in Nat /\ m.nextId \in Nat /\ m.entries \subseteq Entry
      /\ IsFiniteSet(m.entries)
  BY Zenon DEF SoundManifest
<1>2. ValidManifest(m) BY Zenon DEF SoundManifest
<1>3. \A w \in Workers : Cardinality(ActivesOf(m.entries, w)) = 1
  BY <1>2, Zenon DEF ValidManifest, ActivesOf
<1>4. \A w \in Workers : \E a : ActivesOf(m.entries, w) = {a} BY <1>1, <1>3, OneActive, Zenon
<1>5. Distinct(m.entries) BY <1>2, Zenon DEF ValidManifest, Distinct
<1>6. \A e \in m.entries : e.id > 0 /\ e.gen > 0 /\ e.id < m.nextId BY <1>2, Zenon DEF ValidManifest
<1>7. m.generation > 0 BY <1>2, Zenon DEF ValidManifest
<1>8. m.generation \in Nat \ {0} BY <1>1, <1>7
<1> QED BY <1>1, <1>4, <1>5, <1>6, <1>8, Zenon

\* And what shows that a Manifest is sound.
LEMMA Writing ==
    ASSUME NEW g \in Nat \ {0}, NEW next \in Nat, NEW entries \in SUBSET Entry,
           IsFiniteSet(entries), Distinct(entries),
           \A e \in entries : e.id > 0 /\ e.gen > 0 /\ e.id < next,
           \A w \in Workers : \E a : ActivesOf(entries, w) = {a}
    PROVE  SoundManifest([generation |-> g, nextId |-> next, entries |-> entries])
<1>1. \A w \in Workers : Cardinality(ActivesOf(entries, w)) = 1 BY OneActive, Zenon
<1>2. \A e \in entries : e.owner \in Workers /\ e.role \in {"active", "sealed"} BY Zenon DEF Entry
<1> QED BY <1>1, <1>2 DEF SoundManifest, ValidManifest, Distinct, ActivesOf

------------------------------------------------------------------------------
(* Transitions. *)

\* The Manifest of a new Store is sound: each Worker starts with one Segment.
THEOREM InitialIsSound == SoundManifest(InitialManifest)
<1> DEFINE first(w) == [id |-> w + 1, gen |-> 1, owner |-> w, role |-> "active"]
           entries == {first(w) : w \in Workers}
<1>1. WorkerCount \in Nat \ {0} /\ \A w \in Workers : w \in Nat /\ w < WorkerCount
  BY ManifestAssumption DEF Workers
<1>2. \A w \in Workers : /\ first(w) \in Entry /\ first(w).id = w + 1 /\ first(w).gen = 1
                         /\ first(w).owner = w /\ first(w).role = "active"
  BY <1>1 DEF Entry
<1>3. Distinct(entries)
  <2> SUFFICES ASSUME NEW v \in Workers, NEW w \in Workers, first(v).id = first(w).id
               PROVE  first(v) = first(w)
    BY DEF Distinct
  <2>1. v = w BY <1>1, <1>2
  <2> QED BY <2>1, Zenon
<1>4. \A w \in Workers : ActivesOf(entries, w) = {first(w)} BY <1>2 DEF ActivesOf
<1>5. IsFiniteSet(entries)
  <2> DEFINE f == [w \in Workers |-> first(w)]
  <2>1. IsFiniteSet(Workers) BY <1>1, FS_Interval DEF Workers
  <2>2. f \in Surjection(Workers, entries) BY Zenon DEF Surjection
  <2> QED BY <2>1, <2>2, FS_Surjection, Zenon
<1>6. \A e \in entries : e \in Entry /\ e.id > 0 /\ e.gen > 0 /\ e.id < WorkerCount + 1
  BY <1>1, <1>2
<1>7. InitialManifest = [generation |-> 1, nextId |-> WorkerCount + 1, entries |-> entries]
  BY Zenon DEF InitialManifest
<1>8. \A w \in Workers : \E a : ActivesOf(entries, w) = {a} BY <1>4, Zenon
<1>9. entries \in SUBSET Entry /\ 1 \in Nat \ {0} /\ WorkerCount + 1 \in Nat BY <1>1, <1>6
<1> HIDE DEF entries
<1> QED BY <1>3, <1>5, <1>6, <1>7, <1>8, <1>9, Writing, Zenon

\* rotation_manifest: the Worker's active Segment is sealed and a Segment
\* with a fresh id takes its place, so every Worker still has exactly one
\* active Segment, ids stay distinct, and the new file's name was not in use.
THEOREM RotationIsSound ==
    ASSUME NEW m, SoundManifest(m), NEW e \in m.entries, e.role = "active"
    PROVE  /\ SoundManifest(RotationManifest(m, e))
           /\ \A f \in RotationManifest(m, e).entries :
                f.role = "active" /\ f.owner = e.owner => Identity(f) \notin Identities(m)
<1> DEFINE s == [e EXCEPT !.role = "sealed"]
           a == [id |-> m.nextId, gen |-> 1, owner |-> e.owner, role |-> "active"]
           entries == (m.entries \ {e}) \cup {s, a}
<1>1. /\ m.generation \in Nat \ {0} /\ m.nextId \in Nat /\ m.entries \subseteq Entry
      /\ IsFiniteSet(m.entries) /\ Distinct(m.entries)
      /\ \A f \in m.entries : f.id > 0 /\ f.gen > 0 /\ f.id < m.nextId
      /\ \A w \in Workers : \E x : ActivesOf(m.entries, w) = {x}
  BY Reading, Zenon
<1>2. s \in Entry /\ s.id = e.id /\ s.gen = e.gen /\ s.owner = e.owner /\ s.role = "sealed"
  BY <1>1, SealedEntry, Zenon
<1>3. a \in Entry /\ a.id = m.nextId /\ a.gen = 1 /\ a.owner = e.owner /\ a.role = "active"
  BY <1>1, Zenon DEF Entry
<1> HIDE DEF s, a
<1>4. \A f \in m.entries : f # e => f.id # e.id BY <1>1, Zenon DEF Distinct
<1>5. \A f \in entries : f.id \in Nat /\ f.id > 0 /\ f.gen > 0 /\ f.id < m.nextId + 1
  <2>1. \A f \in m.entries : f.id \in Nat BY <1>1, Zenon DEF Entry
  <2> QED BY <1>1, <1>2, <1>3, <2>1
<1>6. Distinct(entries)
  <2>1. \A f \in m.entries : f.id \in Nat /\ f.id # m.nextId
    <3>1. \A f \in m.entries : f.id \in Nat BY <1>1, Zenon DEF Entry
    <3> QED BY <1>1, <3>1
  <2> QED BY <1>1, <1>2, <1>3, <1>4, <2>1 DEF Distinct
<1>7. ActivesOf(m.entries, e.owner) = {e}
  <2>1. e.owner \in Workers /\ e \in ActivesOf(m.entries, e.owner)
    BY <1>1, Zenon DEF ActivesOf, Entry
  <2> QED BY <1>1, <2>1, Zenon
<1>8. ActivesOf(entries, e.owner) = {a} BY <1>2, <1>3, <1>7, Zenon DEF ActivesOf
<1>9. \A w \in Workers : w # e.owner => ActivesOf(entries, w) = ActivesOf(m.entries, w)
  BY <1>2, <1>3, Zenon DEF ActivesOf
<1>10. IsFiniteSet(entries)
  <2>1. IsFiniteSet(m.entries \ {e}) BY <1>1, FS_RemoveElement, Zenon
  <2>2. IsFiniteSet((m.entries \ {e}) \cup {s}) BY <2>1, FS_AddElement, Zenon
  <2>3. IsFiniteSet(((m.entries \ {e}) \cup {s}) \cup {a}) BY <2>2, FS_AddElement, Zenon
  <2>4. ((m.entries \ {e}) \cup {s}) \cup {a} = entries BY Zenon
  <2> QED BY <2>3, <2>4, Zenon
<1>11. /\ SoundManifest([generation |-> m.generation + 1, nextId |-> m.nextId + 1,
                         entries |-> entries])
  <2>1. \A w \in Workers : \E x : ActivesOf(entries, w) = {x} BY <1>1, <1>8, <1>9, Zenon
  <2>2. entries \in SUBSET Entry BY <1>1, <1>2, <1>3, Zenon
  <2>3. \A f \in entries : f.id > 0 /\ f.gen > 0 /\ f.id < m.nextId + 1 BY <1>5, Zenon
  <2>4. m.generation + 1 \in Nat \ {0} /\ m.nextId + 1 \in Nat BY <1>1
  <2> HIDE DEF entries
  <2> QED BY <1>6, <1>10, <2>1, <2>2, <2>3, <2>4, Writing, Zenon
<1>12. RotationManifest(m, e)
        = [generation |-> m.generation + 1, nextId |-> m.nextId + 1, entries |-> entries]
  BY Zenon DEF RotationManifest, s, a
<1>13. Identity(a) \notin Identities(m)
  <2>1. \A f \in m.entries : Identity(f).id # Identity(a).id
    <3>1. \A f \in m.entries : f.id \in Nat BY <1>1, Zenon DEF Entry
    <3> QED BY <1>1, <1>3, <3>1 DEF Identity
  <2> QED BY <2>1, Zenon DEF Identities
<1>14. \A f \in entries : f.role = "active" /\ f.owner = e.owner => f = a
  BY <1>8, Zenon DEF ActivesOf
<1> QED BY <1>11, <1>12, <1>13, <1>14

\* plan_durable_worker_compaction: the outputs take over ids of sealed Segments of the
\* compacted Worker, one generation up. Active Segments and other Workers'
\* entries are untouched, so the Manifest stays sound, and no output has the
\* file name of a Segment that the old Manifest still lists.
THEOREM CompactionIsSound ==
    ASSUME NEW m, SoundManifest(m), NEW w \in Workers, NEW n
    PROVE  /\ SoundManifest(CompactionManifest(m, w, n))
           /\ \A r \in Replacements(m, w, n) : Identity(r) \notin Identities(m)
           /\ \A e \in m.entries : e.owner # w \/ e.role = "active" =>
                e \in CompactionManifest(m, w, n).entries
<1> DEFINE kept == m.entries \ Sources(m, w)
           chosen == Earliest(Sources(m, w), n)
           entries == kept \cup Replacements(m, w, n)
<1>1. /\ m.generation \in Nat \ {0} /\ m.nextId \in Nat /\ m.entries \subseteq Entry
      /\ IsFiniteSet(m.entries) /\ Distinct(m.entries)
      /\ \A f \in m.entries : f.id > 0 /\ f.gen > 0 /\ f.id < m.nextId
      /\ \A v \in Workers : \E x : ActivesOf(m.entries, v) = {x}
  BY Reading, Zenon
<1>2. chosen \subseteq Sources(m, w) /\ Sources(m, w) \subseteq m.entries
  BY Zenon DEF Earliest, Sources
<1>3. \A r \in Replacements(m, w, n) :
        \E e \in chosen : /\ r \in Entry /\ r.id = e.id /\ r.gen = e.gen + 1
                          /\ r.owner = w /\ r.role = "sealed"
  <2>1. \A e \in chosen : e \in Entry /\ e.owner = w /\ e.role = "sealed"
    BY <1>1, <1>2, Zenon DEF Sources
  <2> QED BY <2>1, ReplacementEntry, Zenon DEF Replacements
<1>4. \A e \in m.entries : e.id \in Nat /\ e.gen \in Nat BY <1>1, Zenon DEF Entry
<1>5. \A e \in entries : e \in Entry /\ e.id > 0 /\ e.gen > 0 /\ e.id < m.nextId
  <2>1. \A r \in Replacements(m, w, n) : r \in Entry /\ r.id > 0 /\ r.gen > 0 /\ r.id < m.nextId
    BY <1>1, <1>2, <1>3, <1>4
  <2> QED BY <1>1, <2>1, Zenon
<1>6. Distinct(entries)
  <2> SUFFICES ASSUME NEW e \in entries, NEW f \in entries, e.id = f.id PROVE e = f
    BY Zenon DEF Distinct
  <2>1. CASE e \in kept /\ f \in kept BY <1>1, <2>1, Zenon DEF Distinct
  <2>2. ASSUME NEW r \in Replacements(m, w, n), NEW k \in kept PROVE r.id # k.id
    BY <1>1, <1>2, <1>3 DEF Distinct
  <2>3. CASE e \in Replacements(m, w, n) /\ f \in Replacements(m, w, n)
    <3>1. PICK x \in chosen : e = [x EXCEPT !.gen = @ + 1] BY <2>3, Zenon DEF Replacements
    <3>2. PICK y \in chosen : f = [y EXCEPT !.gen = @ + 1] BY <2>3, Zenon DEF Replacements
    <3>3. x \in Entry /\ y \in Entry /\ x \in m.entries /\ y \in m.entries BY <1>1, <1>2, Zenon
    <3>4. e.id = x.id /\ f.id = y.id BY <3>1, <3>2, <3>3, ReplacementEntry, Zenon
    <3>5. x = y BY <1>1, <3>3, <3>4, Zenon DEF Distinct
    <3> QED BY <3>1, <3>2, <3>5, Zenon
  <2> QED BY <2>1, <2>2, <2>3, Zenon
<1>7. \A v \in Workers : ActivesOf(entries, v) = ActivesOf(m.entries, v)
  <2>1. \A r \in Replacements(m, w, n) : r.role # "active" BY <1>3, Zenon
  <2> QED BY <2>1, Zenon DEF ActivesOf, Sources
<1>8. IsFiniteSet(entries)
  <2> DEFINE f == [e \in chosen |-> [e EXCEPT !.gen = @ + 1]]
  <2>1. IsFiniteSet(chosen) BY <1>1, <1>2, FS_Subset, Zenon
  <2>2. f \in Surjection(chosen, Replacements(m, w, n)) BY Zenon DEF Surjection, Replacements
  <2>3. IsFiniteSet(Replacements(m, w, n)) BY <2>1, <2>2, FS_Surjection, Zenon
  <2>4. IsFiniteSet(kept) BY <1>1, FS_Subset, Zenon
  <2> QED BY <2>3, <2>4, FS_Union, Zenon
<1>9. SoundManifest([generation |-> m.generation + 1, nextId |-> m.nextId, entries |-> entries])
  <2>1. \A v \in Workers : \E x : ActivesOf(entries, v) = {x} BY <1>1, <1>7, Zenon
  <2>2. entries \in SUBSET Entry BY <1>5, Zenon
  <2>3. \A f \in entries : f.id > 0 /\ f.gen > 0 /\ f.id < m.nextId BY <1>5, Zenon
  <2>4. m.generation + 1 \in Nat \ {0} BY <1>1
  <2> HIDE DEF entries
  <2> QED BY <1>1, <1>6, <1>8, <2>1, <2>2, <2>3, <2>4, Writing, Zenon
<1>10. CompactionManifest(m, w, n)
        = [generation |-> m.generation + 1, nextId |-> m.nextId, entries |-> entries]
  BY Zenon DEF CompactionManifest
<1>11. \A r \in Replacements(m, w, n) : Identity(r) \notin Identities(m)
  <2> SUFFICES ASSUME NEW r \in Replacements(m, w, n), NEW f \in m.entries,
                      Identity(r) = Identity(f)
               PROVE  FALSE
    BY Zenon DEF Identities
  <2>1. PICK e \in chosen : r.id = e.id /\ r.gen = e.gen + 1 BY <1>3, Zenon
  <2>2. r.id = f.id /\ r.gen = f.gen BY Zenon DEF Identity
  <2>3. e \in m.entries /\ e.gen \in Nat BY <1>2, <1>4, Zenon
  <2>4. e = f BY <1>1, <2>1, <2>2, <2>3, Zenon DEF Distinct
  <2> QED BY <2>1, <2>2, <2>3, <2>4
<1>12. \A e \in m.entries : e.owner # w \/ e.role = "active" => e \in entries BY Zenon DEF Sources
<1> QED BY <1>9, <1>10, <1>11, <1>12

------------------------------------------------------------------------------
(* Recovery accepts what the planner wrote into the intent. *)

Below(S, e) == {f \in S : f.id < e.id}

\* The number of entries below it tells the entries of a set apart, so the
\* n earliest entries are n entries.
LEMMA EarliestCount ==
    ASSUME NEW S, IsFiniteSet(S), \A e \in S : e.id \in Nat, Distinct(S),
           NEW n \in 0..Cardinality(S)
    PROVE  Cardinality(Earliest(S, n)) = n
<1> DEFINE size == Cardinality(S)
           rank(e) == Cardinality(Below(S, e))
           f == [e \in S |-> rank(e)]
           g == [e \in Earliest(S, n) |-> rank(e)]
<1>1. size \in Nat BY FS_CardinalityType, Zenon
<1>2. \A e \in S : Below(S, e) \in SUBSET S /\ e \notin Below(S, e) BY DEF Below
<1>3. \A e \in S : IsFiniteSet(Below(S, e)) /\ rank(e) \in Nat /\ rank(e) < size
  <2> SUFFICES ASSUME NEW e \in S
               PROVE  IsFiniteSet(Below(S, e)) /\ rank(e) \in Nat /\ rank(e) < size
    BY Zenon
  <2>1. IsFiniteSet(Below(S, e)) /\ rank(e) <= size /\ rank(e) # size BY <1>2, FS_Subset, Zenon
  <2>2. rank(e) \in Nat BY <2>1, FS_CardinalityType, Zenon
  <2> HIDE DEF size, rank
  <2> QED BY <1>1, <2>1, <2>2
<1>4. ASSUME NEW e \in S, NEW h \in S, e.id < h.id PROVE rank(e) < rank(h)
  <2>1. Below(S, e) \in SUBSET Below(S, h) /\ e \in Below(S, h) BY <1>4 DEF Below
  <2>2. Below(S, e) # Below(S, h) BY <1>2, <2>1, Zenon
  <2>3. rank(e) <= rank(h) /\ rank(e) # rank(h) BY <1>3, <2>1, <2>2, FS_Subset, Zenon
  <2>4. rank(e) \in Nat /\ rank(h) \in Nat BY <1>3, Zenon
  <2> HIDE DEF rank
  <2> QED BY <2>3, <2>4
<1>5. ASSUME NEW e \in S, NEW h \in S, rank(e) = rank(h) PROVE e = h
  <2>1. rank(e) \in Nat /\ rank(h) \in Nat BY <1>3, Zenon
  <2>2. ~(e.id < h.id) /\ ~(h.id < e.id)
    <3> HIDE DEF rank
    <3> QED BY <1>4, <1>5, <2>1
  <2>3. e.id = h.id BY <2>2
  <2> QED BY <2>3, Zenon DEF Distinct
<1>6. IsFiniteSet(0..(size - 1)) /\ Cardinality(0..(size - 1)) = size
  <2> HIDE DEF size
  <2> QED BY <1>1, FS_Interval
<1>7. f \in Injection(S, 0..(size - 1))
  <2>1. \A e \in S : rank(e) \in 0..(size - 1)
    <3> HIDE DEF size, rank
    <3> QED BY <1>1, <1>3
  <2> HIDE DEF rank
  <2> QED BY <1>5, <2>1, Zenon DEF Injection, IsInjective
<1>8. f \in Surjection(S, 0..(size - 1)) BY <1>6, <1>7, FS_Injection, Zenon
<1>9. \A r \in 0..(size - 1) : \E e \in S : rank(e) = r
  <2> HIDE DEF rank
  <2> QED BY <1>8, Zenon DEF Surjection
<1>10. \A e \in S : e \in Earliest(S, n) <=> rank(e) \in 0..(n - 1)
  <2>1. \A e \in S : e \in Earliest(S, n) <=> rank(e) < n BY Zenon DEF Earliest, Below
  <2> HIDE DEF rank
  <2> QED BY <1>3, <2>1
<1>11. Earliest(S, n) \subseteq S BY Zenon DEF Earliest
<1>12. 0..(n - 1) \subseteq 0..(size - 1)
  <2>1. n \in 0..size BY Zenon
  <2> HIDE DEF size
  <2> QED BY <1>1, <2>1
<1>13. g \in Bijection(Earliest(S, n), 0..(n - 1))
  <2> HIDE DEF rank, size
  <2>1. \A e \in Earliest(S, n) : rank(e) \in 0..(n - 1) BY <1>10, <1>11, Zenon
  <2>2. \A r \in 0..(n - 1) : \E e \in Earliest(S, n) : rank(e) = r BY <1>9, <1>10, <1>12, Zenon
  <2>3. g \in Injection(Earliest(S, n), 0..(n - 1))
    BY <1>5, <1>11, <2>1, Zenon DEF Injection, IsInjective
  <2>4. g \in Surjection(Earliest(S, n), 0..(n - 1)) BY <2>1, <2>2, Zenon DEF Surjection
  <2> QED BY <2>3, <2>4, Zenon DEF Bijection
<1>14. IsFiniteSet(Earliest(S, n)) BY <1>11, FS_Subset, Zenon
<1>15. Cardinality(0..(n - 1)) = Cardinality(Earliest(S, n))
  BY <1>13, <1>14, FS_Bijection, Zenon DEF ExistsBijection
<1>16. Cardinality(0..(n - 1)) = n
  <2>1. n \in Nat BY <1>1
  <2> QED BY <2>1, FS_Interval
<1> QED BY <1>15, <1>16, Zenon

\* validate_compaction_transition, which recovery applies to the intent it
\* finds, accepts the Manifest plan_durable_worker_compaction computed, and
\* reads from it the number of outputs that was planned: an interrupted
\* compaction never leaves an intent that the next open refuses as corrupt.
THEOREM CompactionIsAccepted ==
    ASSUME NEW m, SoundManifest(m), NEW w \in Workers, Sources(m, w) # {},
           NEW n \in 0..Cardinality(Sources(m, w))
    PROVE  /\ ValidCompactionTransition(m, CompactionManifest(m, w, n), w)
           /\ OutputCount(m, CompactionManifest(m, w, n), w) = n
<1> DEFINE S == Sources(m, w)
           next == CompactionManifest(m, w, n)
           kept == m.entries \ S
           R == Replacements(m, w, n)
           f == [e \in Earliest(S, n) |-> [e EXCEPT !.gen = @ + 1]]
<1>1. m.entries \subseteq Entry /\ IsFiniteSet(m.entries) /\ Distinct(m.entries) BY Reading, Zenon
<1>2. S \subseteq m.entries /\ IsFiniteSet(S)
  <2>1. S \in SUBSET m.entries BY Zenon DEF Sources
  <2> QED BY <1>1, <2>1, FS_Subset, Zenon
<1>3. Cardinality(S) \in Nat /\ Cardinality(m.entries) \in Nat
  BY <1>1, <1>2, FS_CardinalityType, Zenon
<1>4. n \in Nat /\ n <= Cardinality(S) BY <1>3
<1>5. Cardinality(Earliest(S, n)) = n
  <2>1. \A e \in S : e.id \in Nat BY <1>1, <1>2, Zenon DEF Entry
  <2>2. Distinct(S) BY <1>1, <1>2, Zenon DEF Distinct
  <2> QED BY <1>2, <2>1, <2>2, EarliestCount, Zenon
<1>6. Earliest(S, n) \subseteq S /\ IsFiniteSet(Earliest(S, n))
  <2>1. Earliest(S, n) \in SUBSET S BY Zenon DEF Earliest
  <2> QED BY <1>2, <2>1, FS_Subset, Zenon
<1>7. IsFiniteSet(R) /\ Cardinality(R) = n
  <2>1. \A e \in Earliest(S, n) : e \in Entry /\ e \in m.entries BY <1>1, <1>2, <1>6, Zenon
  <2>2. ASSUME NEW e \in Earliest(S, n), NEW h \in Earliest(S, n), f[e] = f[h] PROVE e = h
    <3>1. f[e].id = e.id /\ f[h].id = h.id BY <2>1, ReplacementEntry, Zenon
    <3>2. e.id = h.id BY <2>2, <3>1, Zenon
    <3> QED BY <1>1, <2>1, <3>2, Zenon DEF Distinct
  <2>3. f \in Surjection(Earliest(S, n), R) BY Zenon DEF Surjection, Replacements
  <2>4. f \in Injection(Earliest(S, n), R)
    <3>1. f \in [Earliest(S, n) -> R] BY Zenon DEF Replacements
    <3> HIDE DEF f
    <3> QED BY <2>2, <3>1, Zenon DEF Injection, IsInjective
  <2>5. ExistsBijection(Earliest(S, n), R) BY <2>3, <2>4, Zenon DEF ExistsBijection, Bijection
  <2> QED BY <1>5, <1>6, <2>5, FS_Bijection, Zenon
<1>8. IsFiniteSet(kept) /\ Cardinality(kept) = Cardinality(m.entries) - Cardinality(S)
  <2>1. m.entries \cap S = S BY <1>2, Zenon
  <2> QED BY <1>1, <2>1, FS_Difference, Zenon
<1>9. kept \cap R = {}
  <2>1. \A r \in R : Identity(r) \notin Identities(m) BY <1>4, CompactionIsSound, Zenon
  <2>2. \A e \in kept : Identity(e) \in Identities(m) BY Zenon DEF Identities
  <2> QED BY <2>1, <2>2, Zenon
<1>10. next.entries = kept \cup R BY Zenon DEF CompactionManifest
<1>11. Cardinality(next.entries) = Cardinality(m.entries) - Cardinality(S) + n
  <2>1. Cardinality(kept \cup R) = Cardinality(kept) + Cardinality(R) - Cardinality(kept \cap R)
    BY <1>7, <1>8, FS_Union, Zenon
  <2>2. Cardinality(kept \cap R) = 0 BY <1>9, FS_EmptySet, Zenon
  <2> HIDE DEF S, R, kept, next
  <2> QED BY <1>3, <1>4, <1>7, <1>8, <1>10, <2>1, <2>2
<1>12. OutputCount(m, next, w) = n
  <2> HIDE DEF next
  <2> QED BY <1>3, <1>4, <1>11 DEF OutputCount
<1>13. /\ Cardinality(next.entries) <= Cardinality(m.entries)
       /\ Cardinality(next.entries) + Cardinality(S) >= Cardinality(m.entries)
  <2> HIDE DEF next, S
  <2> QED BY <1>3, <1>4, <1>11
<1>14. ValidManifest(m) /\ ValidManifest(next)
  BY <1>4, CompactionIsSound, Zenon DEF SoundManifest
<1> QED BY <1>12, <1>13, <1>14, Zenon DEF ValidCompactionTransition

------------------------------------------------------------------------------
(* The names on disk. *)

\* Either nothing but crashes of one kind, or kills and I/O errors, of which none
\* is one of the two clean failures of a compaction after its intent.
Tame(e) ==
    \/ e.faults = 0 /\ ~({"power", "kill"} \subseteq e.crash)
    \/ /\ "power" \notin e.crash
       /\ e.compactions = 0 \/ e.steps \cap {"man_rename", "promote"} = {}
TameOnly == \A e \in Environments : Tame(e)

Named(n) == {"manifest", "boot", "intent", "segs"} \subseteq DOMAIN n
SameNames(n, d) ==
    n.manifest = d.manifest /\ n.boot = d.boot /\ n.intent = d.intent /\ n.segs = d.segs

\* What the next process can start from.
Complete(n) ==
    /\ n.manifest # Absent => SoundManifest(n.manifest)
    /\ n.boot => n.intent = Absent /\ n.manifest \in {Absent, InitialManifest}
    /\ n.intent # Absent => /\ SoundManifest(n.intent.old) /\ n.intent.worker \in Workers
                            /\ n.manifest \in {n.intent.old, n.intent.next}
    /\ n.manifest # Absent /\ ~n.boot => Identities(n.manifest) \subseteq n.segs

\* At step s the namespaces n and d differ at most in the name whose change
\* waits for the directory to be synchronised.
Pending(n, d, s) ==
    /\ s # "man_sync" => n.manifest = d.manifest
    /\ s \notin {"boot_sync", "boot_unlink_sync"} => n.boot = d.boot
    /\ s \notin {"intent_sync", "intent_unlink_sync"} => n.intent = d.intent
    /\ s \notin {"seg_sync", "rename", "unlink"} => n.segs = d.segs
Settled(s) == s \notin {"man_sync", "boot_sync", "boot_unlink_sync", "intent_sync",
                        "intent_unlink_sync", "seg_sync", "rename", "unlink"}

Disk ==
    /\ dir \in Survivors
    /\ \A n \in Survivors : Named(n) /\ Complete(n) /\ Pending(n, dir, task.step)

SegSteps == {"seg_tmp", "seg_rename", "seg_sync"}
ManSteps == {"man_tmp", "man_rename", "man_sync"}
ScanSteps == {"resolve", "scan", "clean", "publish"}
BootSteps == {"boot_tmp", "boot_rename", "boot_sync", "segments", "boot_unlink", "boot_unlink_sync"}
StageSteps == {"intent_tmp", "intent_rename", "intent_sync", "promote", "rename", "quiesce"}
DropSteps == {"retire", "unlink", "intent_unlink", "intent_unlink_sync", "audit"}

\* A set of identities with a lowest one in each part.
Orderly(T) == IsFiniteSet(T) /\ (\A i \in T : i.id \in Nat) /\ Distinct(T)

Shapes ==
    /\ {"who", "step", "worker", "next", "left"} \subseteq DOMAIN task
    /\ {"pc", "worker", "base", "live"} \subseteq DOMAIN job
    /\ DOMAIN mut = Clients
    /\ \A c \in Clients : {"pc", "worker"} \subseteq DOMAIN mut[c] /\ mut[c].worker \in Workers
    /\ Orderly(task.left)
    /\ env \in Environments /\ faults \in Nat /\ compactions \in Nat
    /\ env.faults = 0 => healthy /\ dirHealthy

\* The steps of each program.
Runs(who, step) ==
    \/ who = "none" /\ step = "none"
    \/ who = "bootstrap" /\ step \in BootSteps \cup ManSteps \cup SegSteps \cup ScanSteps
    \/ who = "recovery" /\ step \in ScanSteps
    \/ who = "resume" /\ step \in ManSteps \cup SegSteps \cup ScanSteps
    \/ who = "resolve" /\ step \in DropSteps
    \/ who = "rotation" /\ step \in ManSteps \cup SegSteps \cup {"seal", "install"}
    \/ who = "compaction" /\ step \in StageSteps \cup ManSteps \cup {"install"} \cup DropSteps
    \/ who = "rollback" /\ step \in DropSteps

\* Who runs a program, and where it may be in it.
Control ==
    /\ lease \in {"none", "rotation", "compaction"}
    /\ (lease = "rotation") <=> (task.who = "rotation")
    /\ (lease = "compaction") <=> (task.who \in {"compaction", "rollback"})
    /\ (proc = "opening") <=> (task.who \in Opening)
    /\ task.who \in {"rotation", "compaction", "rollback"} => proc = "open"
    /\ (job.pc = "publish") <=> (task.who \in {"compaction", "rollback"})
    /\ job.pc # "none" => /\ proc = "open" /\ env.compactions # 0
                          /\ SoundManifest(job.base) /\ job.worker \in Workers
    /\ \A c \in Clients : mut[c].pc # "none" => proc = "open"
    /\ Runs(task.who, task.step)

Live(m) == dir.manifest = m /\ SoundManifest(m) /\ ~dir.boot

\* The open Store and its directory agree on the Segments, or the Store has
\* failed: then the directory refuses every change, or at least the name of the
\* Segment that a rotation would create is taken.
Exact(m) == dir.manifest = m /\ dir.segs = Identities(m) /\ dir.intent = Absent
Prepared(m) == [id |-> m.nextId, gen |-> 1]
Failed(m) == ~dirHealthy \/ (~healthy /\ Prepared(m) \in dir.segs)
IdleAt ==
    task.who = "none" /\ proc = "open" =>
        SoundManifest(manifest) /\ ~dir.boot /\ (Exact(manifest) \/ Failed(manifest))

BootAt ==
    task.who = "bootstrap" /\ task.step \notin ScanSteps =>
        /\ dir.intent = Absent /\ task.next = InitialManifest
        /\ task.step \in {"boot_tmp", "boot_rename", "boot_sync", "man_tmp", "man_rename"} =>
              dir.manifest = Absent
        /\ task.step \notin {"boot_tmp", "boot_rename", "boot_unlink_sync"} => dir.boot
        /\ task.step \in SegSteps \cup
                          {"man_sync", "segments", "boot_unlink", "boot_unlink_sync"} =>
              dir.manifest = InitialManifest
        /\ task.step \in {"boot_unlink", "boot_unlink_sync"} =>
              Identities(InitialManifest) \subseteq dir.segs
        /\ task.step = "boot_unlink_sync" => ~dir.boot

ScanAt == task.step \in ScanSteps => Live(dir.manifest)

NewSegment == Identity(ActiveEntry(task.next, task.worker))

ResumeAt ==
    task.who = "resume" /\ task.step \notin ScanSteps =>
        /\ Live(dir.manifest) /\ dir.intent = Absent /\ SoundManifest(task.next)
        /\ Identities(dir.manifest) \subseteq dir.segs
        /\ Identities(task.next) \subseteq Identities(dir.manifest) \cup {NewSegment}
        /\ task.step \in {"seg_sync", "man_tmp", "man_rename"} => NewSegment \in dir.segs
        /\ task.step = "man_sync" => dir.manifest = task.next

RotationAt ==
    task.who = "rotation" =>
        /\ SoundManifest(manifest) /\ SoundManifest(task.next) /\ ~dir.boot
        /\ Identities(task.next) = Identities(manifest) \cup {NewSegment}
        /\ NewSegment \notin Identities(manifest) /\ NewSegment = Prepared(manifest)
        /\ task.step \in {"seal", "seg_tmp"} => Exact(manifest) \/ Failed(manifest)
        /\ task.step \notin {"seal", "seg_tmp"} =>
              /\ dir.intent = Absent
              /\ dir.manifest =
                    IF task.step \in {"man_sync", "install"} THEN task.next ELSE manifest
              /\ dir.segs = Identities(IF task.step = "seg_rename" THEN manifest ELSE task.next)

DropAt ==
    task.step \in DropSteps =>
        /\ Live(dir.manifest)
        /\ task.left \cap Identities(dir.manifest) = {}
        /\ task.step \in {"intent_unlink_sync", "audit"} => dir.intent = Absent

Intent == [worker |-> job.worker, old |-> job.base, next |-> task.next]

CompactionAt ==
    task.who \in {"compaction", "rollback"} =>
        /\ ~dir.boot
        /\ task.next = CompactionManifest(job.base, job.worker, Outputs(job.live))
        /\ task.step \in StageSteps \cup {"man_tmp", "man_rename"} => dir.manifest = job.base
        /\ task.step \in StageSteps \cup ManSteps \cup {"install"} => manifest = job.base
        /\ task.step \in {"intent_tmp", "intent_rename"} => dir.intent = Absent
        /\ task.step \in {"intent_sync", "promote", "rename", "quiesce", "install"} \cup ManSteps =>
              dir.intent = Intent
        /\ task.step \in {"intent_tmp", "intent_rename", "intent_sync", "promote"} =>
              dir.segs = Identities(job.base)
        /\ task.step = "rename" =>
              /\ task.left \subseteq JobOutputs
              /\ dir.segs = Identities(job.base) \cup (JobOutputs \ task.left)
        /\ task.step \in {"quiesce", "install"} \cup ManSteps =>
              dir.segs = Identities(job.base) \cup JobOutputs
        /\ task.step \in {"man_sync", "install"} => dir.manifest = task.next
        /\ task.step \in DropSteps =>
              /\ dir.manifest = manifest
              /\ manifest = IF task.who = "rollback" THEN job.base ELSE task.next
              /\ task.step \in {"retire", "unlink"} =>
                    dir.segs = Identities(manifest) \cup task.left
              /\ task.step \notin {"retire", "unlink"} => dir.segs = Identities(manifest)

Places == IdleAt /\ BootAt /\ ScanAt /\ ResumeAt /\ RotationAt /\ DropAt /\ CompactionAt
AuthorityInv == Shapes /\ Disk /\ Control /\ Places
------------------------------------------------------------------------------
(* Names of Segments. *)

LEMMA OrderlyPart ==
    ASSUME NEW T, Orderly(T), NEW U \in SUBSET T
    PROVE  Orderly(U)
<1>1. IsFiniteSet(U) BY FS_Subset, Zenon DEF Orderly
<1> QED BY <1>1, Zenon DEF Orderly, Distinct

LEMMA OrderlyIdentities ==
    ASSUME NEW m, SoundManifest(m)
    PROVE  Orderly(Identities(m))
<1> DEFINE f == [e \in m.entries |-> Identity(e)]
<1>1. m.entries \subseteq Entry /\ IsFiniteSet(m.entries) /\ Distinct(m.entries) BY Reading, Zenon
<1>2. f \in Surjection(m.entries, Identities(m)) BY Zenon DEF Surjection, Identities
<1>3. IsFiniteSet(Identities(m)) BY <1>1, <1>2, FS_Surjection, Zenon
<1>4. \A e \in m.entries : Identity(e).id = e.id /\ e.id \in Nat BY <1>1, Zenon DEF Identity, Entry
<1>5. \A i \in Identities(m) : i.id \in Nat BY <1>4, Zenon DEF Identities
<1>6. Distinct(Identities(m)) BY <1>1, <1>4, Zenon DEF Distinct, Identities
<1> QED BY <1>3, <1>5, <1>6, Zenon DEF Orderly

LEMMA LowestIn ==
    ASSUME NEW T, Orderly(T), T # {}
    PROVE  Lowest(T) \in T
<1>1. IsFiniteSet(T) /\ (\A i \in T : i.id \in Nat) /\ Distinct(T) BY Zenon DEF Orderly
<1>2. Cardinality(T) \in Nat /\ Cardinality(T) # 0 BY <1>1, FS_CardinalityType, FS_EmptySet, Zenon
<1>3. 1 \in 0..Cardinality(T) BY <1>2
<1>4. Cardinality(Earliest(T, 1)) = 1 BY <1>1, <1>3, EarliestCount, Zenon
<1>5. Earliest(T, 1) # {} BY <1>4, FS_EmptySet
<1>6. PICK i \in T : Cardinality(Below(T, i)) < 1 BY <1>5, Zenon DEF Earliest, Below
<1>7. Below(T, i) \in SUBSET T BY Zenon DEF Below
<1>8. IsFiniteSet(Below(T, i)) BY <1>1, <1>7, FS_Subset, Zenon
<1>9. Cardinality(Below(T, i)) \in Nat BY <1>8, FS_CardinalityType, Zenon
<1>10. Cardinality(Below(T, i)) = 0 BY <1>6, <1>9
<1>11. Below(T, i) = {} BY <1>8, <1>10, FS_EmptySet, Zenon
<1>12. \A j \in T : i.id <= j.id BY <1>1, <1>11 DEF Below
<1> QED BY <1>12, Zenon DEF Lowest

LEMMA ActiveIn ==
    ASSUME NEW m, SoundManifest(m), NEW w \in Workers
    PROVE  LET e == ActiveEntry(m, w)
           IN  e \in m.entries /\ e.owner = w /\ e.role = "active"
<1>1. PICK a : ActivesOf(m.entries, w) = {a} BY Reading, Zenon
<1>2. a \in m.entries /\ a.owner = w /\ a.role = "active" BY <1>1, Zenon DEF ActivesOf
<1> QED BY <1>2, Zenon DEF ActiveEntry

LEMMA RotationNames ==
    ASSUME NEW m, SoundManifest(m), NEW e \in m.entries, e.role = "active"
    PROVE  LET next == RotationManifest(m, e)
               i == Identity(ActiveEntry(next, e.owner))
           IN  /\ e.owner \in Workers /\ SoundManifest(next)
               /\ Identities(next) = Identities(m) \cup {i}
               /\ i \notin Identities(m) /\ i = [id |-> m.nextId, gen |-> 1]
<1> DEFINE next == RotationManifest(m, e)
           s == [e EXCEPT !.role = "sealed"]
           a == [id |-> m.nextId, gen |-> 1, owner |-> e.owner, role |-> "active"]
           b == ActiveEntry(next, e.owner)
<1>1. e \in Entry /\ e.owner \in Workers
  <2>1. m.entries \subseteq Entry BY Reading, Zenon
  <2> QED BY <2>1, Zenon DEF Entry
<1>2. /\ SoundManifest(next)
      /\ \A f \in next.entries :
            f.role = "active" /\ f.owner = e.owner => Identity(f) \notin Identities(m)
  BY RotationIsSound, Zenon
<1>3. b \in next.entries /\ b.owner = e.owner /\ b.role = "active" BY <1>1, <1>2, ActiveIn, Zenon
<1>4. next.entries = (m.entries \ {e}) \cup {s, a} BY Zenon DEF RotationManifest
<1>5. s.role = "sealed" /\ Identity(s) = Identity(e)
  <2>1. s.id = e.id /\ s.gen = e.gen /\ s.role = "sealed" BY <1>1, SealedEntry, Zenon
  <2> QED BY <2>1, Zenon DEF Identity
<1> HIDE DEF next, s, a, b
<1>6. Identity(b) \notin Identities(m) BY <1>2, <1>3, Zenon
<1>7. b = a
  <2>1. b \notin m.entries BY <1>6, Zenon DEF Identities
  <2> QED BY <1>3, <1>4, <1>5, <2>1, Zenon
<1>8. Identities(next) = Identities(m) \cup {Identity(b)} BY <1>4, <1>5, <1>7, Zenon DEF Identities
<1>9. Identity(b) = [id |-> m.nextId, gen |-> 1] BY <1>7, Zenon DEF Identity, a
<1> QED BY <1>1, <1>2, <1>6, <1>8, <1>9, Zenon DEF next, b

LEMMA CompactionNames ==
    ASSUME NEW m, SoundManifest(m), NEW w \in Workers, NEW n
    PROVE  LET next == CompactionManifest(m, w, n)
               sources == {Identity(e) : e \in Sources(m, w)}
               outputs == {Identity(e) : e \in Replacements(m, w, n)}
           IN  /\ SoundManifest(next)
               /\ sources \subseteq Identities(m) /\ sources \cap Identities(next) = {}
               /\ outputs \subseteq Identities(next) /\ outputs \cap Identities(m) = {}
               /\ Identities(next) \subseteq Identities(m) \cup outputs
               /\ Identities(m) \subseteq Identities(next) \cup sources
<1> DEFINE next == CompactionManifest(m, w, n)
           sources == {Identity(e) : e \in Sources(m, w)}
           outputs == {Identity(e) : e \in Replacements(m, w, n)}
<1>1. SoundManifest(next) /\ \A r \in Replacements(m, w, n) : Identity(r) \notin Identities(m)
  BY CompactionIsSound, Zenon
<1>2. next.entries = (m.entries \ Sources(m, w)) \cup Replacements(m, w, n)
  BY Zenon DEF CompactionManifest
<1>3. Sources(m, w) \subseteq m.entries BY Zenon DEF Sources
<1>4. \A e, f \in m.entries : Identity(e) = Identity(f) => e = f
  <2>1. Distinct(m.entries) BY Reading, Zenon
  <2> QED BY <2>1, Zenon DEF Distinct, Identity
<1> HIDE DEF next
<1>5. sources \cap Identities(next) = {}
  BY <1>1, <1>2, <1>3, <1>4, Zenon DEF Identities
<1>6. outputs \cap Identities(m) = {} BY <1>1, Zenon
<1>7. /\ sources \subseteq Identities(m) /\ outputs \subseteq Identities(next)
      /\ Identities(next) \subseteq Identities(m) \cup outputs
      /\ Identities(m) \subseteq Identities(next) \cup sources
  BY <1>2, <1>3, Zenon DEF Identities
<1> QED BY <1>1, <1>5, <1>6, <1>7, Zenon DEF next
------------------------------------------------------------------------------
(* Changes of names. *)

LEMMA TemporaryNames ==
    ASSUME NEW n, Named(n)
    PROVE  /\ \A t : Named(AddTmp(n, t)) /\ SameNames(AddTmp(n, t), n)
           /\ \A t : Named(DropTmp(n, t)) /\ SameNames(DropTmp(n, t), n)
           /\ \A i : Named(AddSegmentTmp(n, i)) /\ SameNames(AddSegmentTmp(n, i), n)
           /\ \A T : Named(DropSegmentTmps(n, T)) /\ SameNames(DropSegmentTmps(n, T), n)
BY Zenon DEF Named, SameNames, AddTmp, DropTmp, AddSegmentTmp, DropSegmentTmps

LEMMA PutManifestNames ==
    ASSUME NEW n, Named(n), NEW m
    PROVE  LET p == PutManifest(n, m)
           IN  /\ Named(p) /\ p.manifest = m
               /\ p.boot = n.boot /\ p.intent = n.intent /\ p.segs = n.segs
BY Zenon DEF Named, PutManifest

LEMMA BootNames ==
    ASSUME NEW n, Named(n)
    PROVE  /\ LET p == PutBootIntent(n)
              IN  /\ Named(p) /\ p.boot = TRUE
                  /\ p.manifest = n.manifest /\ p.intent = n.intent /\ p.segs = n.segs
           /\ LET p == DropBootIntent(n)
              IN  /\ Named(p) /\ p.boot = FALSE
                  /\ p.manifest = n.manifest /\ p.intent = n.intent /\ p.segs = n.segs
BY Zenon DEF Named, PutBootIntent, DropBootIntent

LEMMA IntentNames ==
    ASSUME NEW n, Named(n), NEW i
    PROVE  /\ LET p == PutIntent(n, i)
              IN  /\ Named(p) /\ p.intent = i
                  /\ p.manifest = n.manifest /\ p.boot = n.boot /\ p.segs = n.segs
           /\ LET p == DropIntent(n)
              IN  /\ Named(p) /\ p.intent = Absent
                  /\ p.manifest = n.manifest /\ p.boot = n.boot /\ p.segs = n.segs
BY Zenon DEF Named, PutIntent, DropIntent

LEMMA SegmentNames ==
    ASSUME NEW n, Named(n), NEW i
    PROVE  /\ LET p == PutSegment(n, i)
              IN  /\ Named(p) /\ p.segs = n.segs \cup {i}
                  /\ p.manifest = n.manifest /\ p.boot = n.boot /\ p.intent = n.intent
           /\ LET p == DropSegment(n, i)
              IN  /\ Named(p) /\ p.segs = n.segs \ {i}
                  /\ p.manifest = n.manifest /\ p.boot = n.boot /\ p.intent = n.intent
BY Zenon DEF Named, PutSegment, DropSegment

LEMMA SameComplete ==
    ASSUME NEW n, NEW d, SameNames(n, d), Complete(d)
    PROVE  Complete(n)
BY Zenon DEF SameNames, Complete

LEMMA SettledSame ==
    ASSUME NEW n, NEW d, NEW s, Settled(s), Pending(n, d, s)
    PROVE  SameNames(n, d)
BY Zenon DEF Settled, Pending, SameNames

LEMMA SamePending ==
    ASSUME NEW n, NEW d, SameNames(n, d), NEW s
    PROVE  Pending(n, d, s)
BY Zenon DEF Pending, SameNames

LEMMA PendingSame ==
    ASSUME NEW n, NEW d, NEW p, NEW q, NEW s, Pending(n, d, s), SameNames(p, n), SameNames(q, d)
    PROVE  Pending(p, q, s)
BY Zenon DEF Pending, SameNames

LEMMA PendingRename ==
    ASSUME NEW n, NEW d, NEW q, NEW s, SameNames(n, d), Pending(d, q, s)
    PROVE  Pending(n, q, s)
BY Zenon DEF Pending, SameNames

\* A step that changes no name.
LEMMA QuietDisk ==
    ASSUME Disk, dir' \in Survivors', SameNames(dir', dir),
           \A n \in Survivors' : Named(n) /\ \E k \in Survivors : SameNames(n, k),
           Settled(task.step) \/ task'.step = task.step
    PROVE  Disk'
<1> SUFFICES ASSUME NEW n \in Survivors'
             PROVE  Complete(n) /\ Pending(n, dir', task'.step)
  BY Zenon DEF Disk
<1>1. PICK k \in Survivors : SameNames(n, k) BY Zenon
<1>2. Complete(k) /\ Pending(k, dir, task.step) BY Zenon DEF Disk
<1>3. Complete(n) BY <1>1, <1>2, SameComplete, Zenon
<1>4. Pending(n, dir', task.step) BY <1>1, <1>2, PendingSame, Zenon
<1>5. CASE Settled(task.step)
  <2>1. SameNames(n, dir') BY <1>4, <1>5, SettledSame, Zenon
  <2> QED BY <1>3, <2>1, SamePending, Zenon
<1>6. CASE task'.step = task.step BY <1>3, <1>4, <1>6, Zenon
<1> QED BY <1>5, <1>6, Zenon

LEMMA StillDisk ==
    ASSUME Disk, UNCHANGED <<dir, may, env>>, Settled(task.step) \/ task'.step = task.step
    PROVE  Disk'
<1>1. Survivors' = Survivors /\ dir' = dir BY Zenon DEF Survivors
<1>2. \A n \in Survivors' : Named(n) /\ SameNames(n, n) BY <1>1, Zenon DEF Disk, SameNames
<1>3. dir' \in Survivors' BY <1>1, Zenon DEF Disk
<1> QED BY <1>1, <1>2, <1>3, QuietDisk, Zenon

\* A change of names waits until the directory is synchronised.
LEMMA RenameDisk ==
    ASSUME Disk, Settled(task.step), dir' \in Survivors', Complete(dir'),
           \A n \in Survivors' : n \in Survivors \/ (Named(n) /\ SameNames(n, dir')),
           Pending(dir, dir', task'.step)
    PROVE  Disk'
<1> SUFFICES ASSUME NEW n \in Survivors'
             PROVE  Named(n) /\ Complete(n) /\ Pending(n, dir', task'.step)
  BY Zenon DEF Disk
<1>1. CASE n \in Survivors
  <2>1. Named(n) /\ Complete(n) /\ SameNames(n, dir) BY <1>1, SettledSame, Zenon DEF Disk
  <2> QED BY <2>1, PendingRename, Zenon
<1>2. CASE Named(n) /\ SameNames(n, dir') BY <1>2, SameComplete, SamePending, Zenon
<1> QED BY <1>1, <1>2, Zenon

LEMMA SyncDisk ==
    ASSUME Disk, SyncDirectory, env' = env
    PROVE  Disk' /\ Survivors' = {dir} /\ dir' = dir
<1>1. Survivors' = {dir} /\ dir' = dir BY Zenon DEF SyncDirectory, Survivors
<1>2. Named(dir) /\ Complete(dir) /\ SameNames(dir, dir) BY Zenon DEF Disk, SameNames
<1> QED BY <1>1, <1>2, SamePending, Zenon DEF Disk
------------------------------------------------------------------------------
(* One step of a program. *)

Frame == UNCHANGED <<proc, lease, manifest, mut, job, env, healthy, dirHealthy, faults,
                     compactions>>

\* The program goes on to step s.
Moved(s) ==
    /\ {"who", "step", "worker", "next", "left"} \subseteq DOMAIN task'
    /\ task'.step = s
    /\ task'.who = task.who /\ task'.worker = task.worker
    /\ task'.next = task.next /\ task'.left = task.left
    /\ Frame

LEMMA GotoMoves ==
    ASSUME Shapes, NEW s, Goto(s), UNCHANGED restVars
    PROVE  Moved(s)
<1>1. Frame BY Zenon DEF restVars, memVars, ghostVars, Frame
<1> QED BY <1>1, Zenon DEF Moved, Goto, Shapes

LEMMA MovedKeeps ==
    ASSUME Shapes, Control, NEW s, Moved(s), Runs(task.who, s)
    PROVE  /\ Shapes' /\ Control'
           /\ NewSegment' = NewSegment /\ JobOutputs' = JobOutputs /\ Intent' = Intent
<1>1. Shapes' BY Zenon DEF Shapes, Moved, Frame
<1>2. Control' BY Zenon DEF Control, Moved, Frame
<1>3. /\ NewSegment' = NewSegment /\ JobOutputs' = JobOutputs /\ Intent' = Intent
  BY Zenon DEF Moved, Frame, NewSegment, JobOutputs, Intent
<1> QED BY <1>1, <1>2, <1>3, Zenon

LEMMA Runners ==
    ASSUME Control
    PROVE  /\ task.step \in ManSteps =>
                 task.who \in {"bootstrap", "resume", "rotation", "compaction"}
           /\ task.step \in SegSteps => task.who \in {"bootstrap", "resume", "rotation"}
           /\ task.step \in BootSteps => task.who = "bootstrap"
           /\ task.step \in ScanSteps => task.who \in {"bootstrap", "recovery", "resume"}
           /\ task.step \in DropSteps => task.who \in {"resolve", "compaction", "rollback"}
           /\ task.step \in StageSteps => task.who = "compaction"
           /\ task.step = "seal" => task.who = "rotation"
           /\ task.step = "install" => task.who \in {"rotation", "compaction"}
           /\ task.step = "none" <=> task.who = "none"
BY Zenon DEF Control, Runs, BootSteps, ManSteps, SegSteps, ScanSteps, StageSteps, DropSteps

\* A change of temporary names.
LEMMA QuietRename ==
    ASSUME Disk, env' = env, SameNames(dir', dir), Named(dir'),
           dir \in may => dir' \in may',
           \A n \in may' : n \in may \/ \E k \in may : Named(k) => Named(n) /\ SameNames(n, k),
           Settled(task.step) \/ task'.step = task.step
    PROVE  Disk'
<1>1. dir' \in Survivors' BY Zenon DEF Survivors, Disk
<1>2. \A n \in Survivors : Named(n) /\ SameNames(n, n) BY Zenon DEF Disk, SameNames
<1>3. \A n \in Survivors' : Named(n) /\ \E k \in Survivors : SameNames(n, k)
  <2>1. CASE "power" \in env.crash
    <3>1. Survivors = may /\ Survivors' = may' BY <2>1, Zenon DEF Survivors
    <3> QED BY <1>2, <3>1, Zenon
  <2>2. CASE "power" \notin env.crash
    <3>1. Survivors = {dir} /\ Survivors' = {dir'} BY <2>2, Zenon DEF Survivors
    <3> QED BY <3>1, Zenon
  <2> QED BY <2>1, <2>2, Zenon
<1> QED BY <1>1, <1>3, QuietDisk, Zenon

\* A change of the Manifest, of an intent or of a Segment's name.
LEMMA NameChange ==
    ASSUME Disk, env' = env, Settled(task.step), Named(dir'), Complete(dir'),
           dir \in may => dir' \in may',
           \A n \in may' : \/ n \in may
                           \/ \E k \in may : Named(k) /\ SameNames(k, dir) =>
                                                Named(n) /\ SameNames(n, dir'),
           Pending(dir, dir', task'.step)
    PROVE  Disk'
<1>1. dir' \in Survivors' BY Zenon DEF Survivors, Disk
<1>2. \A n \in Survivors : Named(n) /\ SameNames(n, dir) BY SettledSame, Zenon DEF Disk
<1>3. \A n \in Survivors' : n \in Survivors \/ (Named(n) /\ SameNames(n, dir'))
  <2>1. CASE "power" \in env.crash
    <3>1. Survivors = may /\ Survivors' = may' BY <2>1, Zenon DEF Survivors
    <3> QED BY <1>2, <3>1, Zenon
  <2>2. CASE "power" \notin env.crash
    <3>1. Survivors' = {dir'} BY <2>2, Zenon DEF Survivors
    <3> QED BY <3>1, Zenon DEF SameNames
  <2> QED BY <2>1, <2>2, Zenon
<1> QED BY <1>1, <1>3, RenameDisk, Zenon

\* The Segments of the two sides of a compaction.
JobSources == {Identity(e) : e \in Sources(job.base, job.worker)}

LEMMA JobNames ==
    ASSUME SoundManifest(job.base), job.worker \in Workers,
           task.next = CompactionManifest(job.base, job.worker, Outputs(job.live))
    PROVE  /\ SoundManifest(task.next)
           /\ JobSources \subseteq Identities(job.base)
           /\ JobSources \cap Identities(task.next) = {}
           /\ JobOutputs \subseteq Identities(task.next)
           /\ JobOutputs \cap Identities(job.base) = {}
           /\ Identities(task.next) \subseteq Identities(job.base) \cup JobOutputs
           /\ Identities(job.base) \subseteq Identities(task.next) \cup JobSources
<1> DEFINE m == job.base
           w == job.worker
           n == Outputs(job.live)
<1>1. LET next == CompactionManifest(m, w, n)
          sources == {Identity(e) : e \in Sources(m, w)}
          outputs == {Identity(e) : e \in Replacements(m, w, n)}
      IN  /\ SoundManifest(next)
          /\ sources \subseteq Identities(m) /\ sources \cap Identities(next) = {}
          /\ outputs \subseteq Identities(next) /\ outputs \cap Identities(m) = {}
          /\ Identities(next) \subseteq Identities(m) \cup outputs
          /\ Identities(m) \subseteq Identities(next) \cup sources
  <2> HIDE DEF n
  <2> QED BY CompactionNames, Zenon
<1> QED BY <1>1, Zenon DEF JobSources, JobOutputs

\* What a step of a program leaves alone.
Kept == NewSegment' = NewSegment /\ JobOutputs' = JobOutputs /\ Intent' = Intent

LEMMA SyncMoves ==
    ASSUME AuthorityInv, NEW s, SyncDirectory, Goto(s), UNCHANGED restVars, Runs(task.who, s)
    PROVE  Shapes' /\ Disk' /\ Control' /\ Moved(s) /\ Kept /\ dir' = dir
<1>1. Shapes /\ Disk /\ Control BY Zenon DEF AuthorityInv
<1>2. Moved(s) BY <1>1, GotoMoves, Zenon
<1>3. Shapes' /\ Control' /\ Kept BY <1>1, <1>2, MovedKeeps, Zenon DEF Kept
<1>4. env' = env BY <1>2, Zenon DEF Moved, Frame
<1> QED BY <1>1, <1>2, <1>3, <1>4, SyncDisk, Zenon

LEMMA GotoKeeps ==
    ASSUME AuthorityInv, NEW s, Settled(task.step), UNCHANGED <<dir, may>>, Goto(s),
           UNCHANGED restVars, Runs(task.who, s)
    PROVE  Shapes' /\ Disk' /\ Control' /\ Moved(s) /\ Kept /\ dir' = dir
<1>1. Shapes /\ Disk /\ Control BY Zenon DEF AuthorityInv
<1>2. Moved(s) BY <1>1, GotoMoves, Zenon
<1>3. Shapes' /\ Control' /\ Kept BY <1>1, <1>2, MovedKeeps, Zenon DEF Kept
<1>4. UNCHANGED <<dir, may, env>> BY <1>2, Zenon DEF Moved, Frame
<1>5. Disk' BY <1>1, <1>4, StillDisk, Zenon
<1> QED BY <1>2, <1>3, <1>4, <1>5, Zenon

\* One of several changes of Segment names before a synchronisation.
LEMMA SegmentChange ==
    ASSUME Disk, env' = env, task.step \in {"rename", "unlink"}, task'.step = task.step,
           Named(dir'), Complete(dir'), dir'.manifest = dir.manifest,
           dir'.boot = dir.boot, dir'.intent = dir.intent,
           dir \in may => dir' \in may',
           \A n \in may' : \/ n \in may
                           \/ \E k \in may :
                                Named(k) /\ Complete(k) /\ k.manifest = dir.manifest =>
                                    /\ Named(n) /\ Complete(n) /\ n.manifest = k.manifest
                                    /\ n.boot = k.boot /\ n.intent = k.intent
    PROVE  Disk'
<1>1. dir' \in Survivors' BY Zenon DEF Survivors, Disk
<1>2. \A n \in Survivors : /\ Named(n) /\ Complete(n) /\ n.manifest = dir.manifest
                           /\ n.boot = dir.boot /\ n.intent = dir.intent
  <2>1. task.step # "man_sync" /\ task.step \notin {"boot_sync", "boot_unlink_sync"}
        /\ task.step \notin {"intent_sync", "intent_unlink_sync"}
    BY Zenon
  <2> QED BY <2>1, Zenon DEF Disk, Pending
<1>3. \A n \in Survivors' : /\ Named(n) /\ Complete(n) /\ n.manifest = dir.manifest
                            /\ n.boot = dir.boot /\ n.intent = dir.intent
  <2>1. CASE "power" \in env.crash
    <3>1. Survivors = may /\ Survivors' = may' BY <2>1, Zenon DEF Survivors
    <3> QED BY <1>2, <3>1, Zenon
  <2>2. CASE "power" \notin env.crash
    <3>1. Survivors' = {dir'} BY <2>2, Zenon DEF Survivors
    <3> QED BY <3>1, Zenon
  <2> QED BY <2>1, <2>2, Zenon
<1>4. \A n \in Survivors' : Pending(n, dir', task'.step)
  <2>1. task'.step \in {"seg_sync", "rename", "unlink"} BY Zenon
  <2> QED BY <1>3, <2>1, Zenon DEF Pending
<1> QED BY <1>1, <1>3, <1>4, Zenon DEF Disk
------------------------------------------------------------------------------
(* publish_manifest and DurableSegmentFile::create. *)

LEMMA ManifestTmpStep ==
    ASSUME AuthorityInv, ManifestTmp
    PROVE  AuthorityInv'
<1>1. Shapes /\ Disk /\ Control /\ Places BY Zenon DEF AuthorityInv
<1>2. /\ task.step = "man_tmp" /\ dir' = AddTmp(dir, "manifest")
      /\ may' = may \cup {AddTmp(n, "manifest") : n \in may}
      /\ Goto("man_rename") /\ UNCHANGED restVars
  BY Zenon DEF ManifestTmp, NameStep, Rename
<1>3. Moved("man_rename") BY <1>1, <1>2, GotoMoves, Zenon
<1>4. task.who \in {"bootstrap", "resume", "rotation", "compaction"}
  BY <1>1, <1>2, Runners, Zenon DEF ManSteps
<1>5. Runs(task.who, "man_rename") BY <1>4, Zenon DEF Runs, ManSteps
<1>6. /\ Shapes' /\ Control' /\ NewSegment' = NewSegment /\ JobOutputs' = JobOutputs
      /\ Intent' = Intent
  BY <1>1, <1>3, <1>5, MovedKeeps, Zenon
<1>7. Named(dir') /\ SameNames(dir', dir) BY <1>1, <1>2, TemporaryNames, Zenon DEF Disk
<1>8. Disk'
  <2>1. env' = env BY <1>3, Zenon DEF Moved, Frame
  <2>2. Settled(task.step) BY <1>2, Zenon DEF Settled
  <2>3. dir \in may => dir' \in may' BY <1>2, Zenon
  <2>4. \A n \in may' : n \in may \/ \E k \in may : Named(k) => Named(n) /\ SameNames(n, k)
    BY <1>2, TemporaryNames, Zenon
  <2> QED BY <1>1, <1>7, <2>1, <2>2, <2>3, <2>4, QuietRename, Zenon
<1>9. Places'
  <2>1. IdleAt' /\ ScanAt' /\ DropAt'
    BY <1>3, <1>4, Zenon DEF IdleAt, ScanAt, DropAt, Moved, ScanSteps, DropSteps
  <2>2. BootAt'
    BY <1>1, <1>2, <1>3, <1>7, Zenon DEF BootAt, Moved, ScanSteps, SegSteps, SameNames, Places
  <2>3. ResumeAt'
    BY <1>1, <1>2, <1>3, <1>6, <1>7, Zenon DEF ResumeAt, Live, Moved, ScanSteps, SameNames, Places
  <2>4. RotationAt'
    BY <1>1, <1>2, <1>3, <1>6, <1>7, Zenon DEF RotationAt, Moved, Frame, SameNames, Places
  <2>5. CompactionAt'
    BY <1>1, <1>2, <1>3, <1>6, <1>7, Zenon
    DEF CompactionAt, StageSteps, ManSteps, DropSteps, Moved, Frame, SameNames, Places
  <2> QED BY <2>1, <2>2, <2>3, <2>4, <2>5, Zenon DEF Places
<1> QED BY <1>6, <1>8, <1>9, Zenon DEF AuthorityInv

LEMMA ManifestRenameStep ==
    ASSUME AuthorityInv, ManifestRename
    PROVE  AuthorityInv'
<1>1. Shapes /\ Disk /\ Control /\ Places BY Zenon DEF AuthorityInv
<1>2. /\ task.step = "man_rename" /\ dir' = PutManifest(dir, task.next)
      /\ may' = may \cup {PutManifest(n, task.next) : n \in may}
      /\ Goto("man_sync") /\ UNCHANGED restVars
  BY Zenon DEF ManifestRename, NameStep, Rename
<1>3. Moved("man_sync") BY <1>1, <1>2, GotoMoves, Zenon
<1>4. task.who \in {"bootstrap", "resume", "rotation", "compaction"}
  BY <1>1, <1>2, Runners, Zenon DEF ManSteps
<1>5. Runs(task.who, "man_sync") BY <1>4, Zenon DEF Runs, ManSteps
<1>6. /\ Shapes' /\ Control' /\ NewSegment' = NewSegment /\ JobOutputs' = JobOutputs
      /\ Intent' = Intent
  BY <1>1, <1>3, <1>5, MovedKeeps, Zenon
<1>7. /\ Named(dir') /\ dir'.manifest = task.next
      /\ dir'.boot = dir.boot /\ dir'.intent = dir.intent /\ dir'.segs = dir.segs
  BY <1>1, <1>2, PutManifestNames, Zenon DEF Disk
<1>8. Complete(dir')
  <2>2. CASE task.who = "bootstrap"
    <3>1. task.next = InitialManifest /\ dir.boot /\ dir.intent = Absent
      BY <1>1, <1>2, <2>2, Zenon DEF Places, BootAt, ScanSteps
    <3> QED BY <1>7, <3>1, InitialIsSound, Zenon DEF Complete
  <2>3. CASE task.who = "resume"
    <3>1. /\ ~dir.boot /\ dir.intent = Absent /\ SoundManifest(task.next)
          /\ SoundManifest(dir.manifest)
          /\ Identities(task.next) \subseteq Identities(dir.manifest) \cup {NewSegment}
          /\ Identities(dir.manifest) \subseteq dir.segs /\ NewSegment \in dir.segs
      BY <1>1, <1>2, <2>3, Zenon DEF Places, ResumeAt, Live, ScanSteps
    <3>2. Identities(task.next) \subseteq dir.segs BY <3>1, Zenon
    <3> QED BY <1>7, <3>1, <3>2, Zenon DEF Complete
  <2>4. CASE task.who = "rotation"
    <3>1. /\ ~dir.boot /\ dir.intent = Absent /\ SoundManifest(task.next)
          /\ dir.segs = Identities(task.next)
      BY <1>1, <1>2, <2>4, Zenon DEF Places, RotationAt
    <3> QED BY <1>7, <3>1, Zenon DEF Complete
  <2>5. CASE task.who = "compaction"
    <3>1. /\ ~dir.boot /\ dir.intent = Intent /\ dir.segs = Identities(job.base) \cup JobOutputs
          /\ task.next = CompactionManifest(job.base, job.worker, Outputs(job.live))
      BY <1>1, <1>2, <2>5, Zenon DEF Places, CompactionAt, ManSteps
    <3>2. SoundManifest(job.base) /\ job.worker \in Workers
      BY <1>1, <2>5, Zenon DEF Control
    <3>3. SoundManifest(task.next) /\ Identities(task.next) \subseteq dir.segs
      BY <3>1, <3>2, JobNames, Zenon
    <3>4. Intent.old = job.base /\ Intent.worker = job.worker /\ Intent.next = task.next
      BY Zenon DEF Intent
    <3> QED BY <1>7, <3>1, <3>2, <3>3, <3>4, Zenon DEF Complete
  <2> QED BY <1>4, <2>2, <2>3, <2>4, <2>5, Zenon
<1>9. Disk'
  <2>1. env' = env BY <1>3, Zenon DEF Moved, Frame
  <2>2. Settled(task.step) BY <1>2, Zenon DEF Settled
  <2>3. dir \in may => dir' \in may' BY <1>2, Zenon
  <2>4. \A n \in may' : \/ n \in may
                        \/ \E k \in may : Named(k) /\ SameNames(k, dir) =>
                                             Named(n) /\ SameNames(n, dir')
    <3> DEFINE p(k) == PutManifest(k, task.next)
    <3> SUFFICES ASSUME NEW k \in may, Named(k), SameNames(k, dir)
                 PROVE  Named(p(k)) /\ SameNames(p(k), dir')
      BY <1>2, Zenon
    <3>1. /\ Named(p(k)) /\ p(k).manifest = task.next
          /\ p(k).boot = k.boot /\ p(k).intent = k.intent /\ p(k).segs = k.segs
      BY PutManifestNames, Zenon
    <3> HIDE DEF p
    <3> QED BY <1>7, <3>1, Zenon DEF SameNames
  <2>5. Pending(dir, dir', task'.step) BY <1>3, <1>7, Zenon DEF Pending, Moved
  <2> QED BY <1>1, <1>7, <1>8, <2>1, <2>2, <2>3, <2>4, <2>5, NameChange, Zenon
<1>10. Places'
  <2>1. IdleAt' /\ ScanAt' /\ DropAt'
    BY <1>3, <1>4, Zenon DEF IdleAt, ScanAt, DropAt, Moved, ScanSteps, DropSteps
  <2>2. BootAt' BY <1>1, <1>2, <1>3, <1>7, Zenon DEF BootAt, Moved, ScanSteps, SegSteps, Places
  <2>3. ResumeAt'
    BY <1>1, <1>2, <1>3, <1>6, <1>7, Zenon DEF ResumeAt, Live, Moved, ScanSteps, Places
  <2>4. RotationAt'
    BY <1>1, <1>2, <1>3, <1>6, <1>7, Zenon DEF RotationAt, Moved, Frame, Places
  <2>5. CompactionAt'
    BY <1>1, <1>2, <1>3, <1>6, <1>7, Zenon
    DEF CompactionAt, StageSteps, ManSteps, DropSteps, Moved, Frame, Places
  <2> QED BY <2>1, <2>2, <2>3, <2>4, <2>5, Zenon DEF Places
<1> QED BY <1>6, <1>9, <1>10, Zenon DEF AuthorityInv

LEMMA ManifestSyncStep ==
    ASSUME AuthorityInv, ManifestSync
    PROVE  AuthorityInv'
<1>1. Control /\ Places BY Zenon DEF AuthorityInv
<1>2. /\ task.step = "man_sync" /\ SyncDirectory
      /\ Goto(AfterManifest[task.who]) /\ UNCHANGED restVars
  BY Zenon DEF ManifestSync, SyncStep
<1>3. task.who \in {"bootstrap", "resume", "rotation", "compaction"}
  BY <1>1, <1>2, Runners, Zenon DEF ManSteps
<1>4. CASE task.who = "bootstrap"
  <2>1. Goto("segments") BY <1>2, <1>4 DEF AfterManifest
  <2>2. Runs(task.who, "segments") BY <1>4, Zenon DEF Runs, BootSteps
  <2>3. Shapes' /\ Disk' /\ Control' /\ Moved("segments") /\ dir' = dir
    BY <1>2, <2>1, <2>2, SyncMoves, Zenon
  <2>4. BootAt' BY <1>1, <1>2, <1>4, <2>3, Zenon DEF BootAt, Moved, ScanSteps, SegSteps, Places
  <2>5. Places'
    BY <1>4, <2>3, <2>4, Zenon
    DEF Places, IdleAt, ScanAt, ResumeAt, RotationAt, DropAt, CompactionAt, Moved, ScanSteps,
    DropSteps
  <2> QED BY <2>3, <2>5, Zenon DEF AuthorityInv
<1>5. CASE task.who = "resume"
  <2>1. Goto("scan") BY <1>2, <1>5 DEF AfterManifest
  <2>2. Runs(task.who, "scan") BY <1>5, Zenon DEF Runs, ScanSteps
  <2>3. Shapes' /\ Disk' /\ Control' /\ Moved("scan") /\ dir' = dir
    BY <1>2, <2>1, <2>2, SyncMoves, Zenon
  <2>4. ScanAt' BY <1>1, <1>2, <1>5, <2>3, Zenon DEF ScanAt, ResumeAt, Live, ScanSteps, Places
  <2>5. Places'
    BY <1>5, <2>3, <2>4, Zenon
    DEF Places, IdleAt, BootAt, ResumeAt, RotationAt, DropAt, CompactionAt, Moved, ScanSteps,
    DropSteps
  <2> QED BY <2>3, <2>5, Zenon DEF AuthorityInv
<1>6. CASE task.who = "rotation"
  <2>1. Goto("install") BY <1>2, <1>6 DEF AfterManifest
  <2>2. Runs(task.who, "install") BY <1>6, Zenon DEF Runs
  <2>3. Shapes' /\ Disk' /\ Control' /\ Moved("install") /\ Kept /\ dir' = dir
    BY <1>2, <2>1, <2>2, SyncMoves, Zenon
  <2>4. RotationAt' BY <1>1, <1>2, <1>6, <2>3, Zenon DEF RotationAt, Moved, Frame, Kept, Places
  <2>5. Places'
    BY <1>6, <2>3, <2>4, Zenon
    DEF Places, IdleAt, BootAt, ScanAt, ResumeAt, DropAt, CompactionAt, Moved, ScanSteps, DropSteps
  <2> QED BY <2>3, <2>5, Zenon DEF AuthorityInv
<1>7. CASE task.who = "compaction"
  <2>1. Goto("install") BY <1>2, <1>7 DEF AfterManifest
  <2>2. Runs(task.who, "install") BY <1>7, Zenon DEF Runs
  <2>3. Shapes' /\ Disk' /\ Control' /\ Moved("install") /\ Kept /\ dir' = dir
    BY <1>2, <2>1, <2>2, SyncMoves, Zenon
  <2>4. CompactionAt'
    BY <1>1, <1>2, <1>7, <2>3, Zenon
    DEF CompactionAt, StageSteps, ManSteps, DropSteps, Moved, Frame, Kept, Places
  <2>5. Places'
    BY <1>7, <2>3, <2>4, Zenon
    DEF Places, IdleAt, BootAt, ScanAt, ResumeAt, RotationAt, DropAt, Moved, ScanSteps, DropSteps
  <2> QED BY <2>3, <2>5, Zenon DEF AuthorityInv
<1> QED BY <1>3, <1>4, <1>5, <1>6, <1>7, Zenon

LEMMA SegmentTmpStep ==
    ASSUME AuthorityInv, SegmentTmp
    PROVE  AuthorityInv'
<1>1. Shapes /\ Disk /\ Control /\ Places BY Zenon DEF AuthorityInv
<1>2. /\ task.step = "seg_tmp" /\ dirHealthy /\ Created \notin dir.segs
      /\ dir' = AddSegmentTmp(dir, Created)
      /\ may' = may \cup {AddSegmentTmp(n, Created) : n \in may}
      /\ Goto("seg_rename") /\ UNCHANGED restVars
  BY Zenon DEF SegmentTmp, Rename
<1>3. Moved("seg_rename") BY <1>1, <1>2, GotoMoves, Zenon
<1>4. task.who \in {"bootstrap", "resume", "rotation"} BY <1>1, <1>2, Runners, Zenon DEF SegSteps
<1>5. Runs(task.who, "seg_rename") BY <1>4, Zenon DEF Runs, SegSteps
<1>6. Shapes' /\ Control' /\ Kept BY <1>1, <1>3, <1>5, MovedKeeps, Zenon DEF Kept
<1>7. Named(dir') /\ SameNames(dir', dir) BY <1>1, <1>2, TemporaryNames, Zenon DEF Disk
<1>8. Disk'
  <2>1. env' = env BY <1>3, Zenon DEF Moved, Frame
  <2>2. Settled(task.step) BY <1>2, Zenon DEF Settled
  <2>3. dir \in may => dir' \in may' BY <1>2, Zenon
  <2>4. \A n \in may' : n \in may \/ \E k \in may : Named(k) => Named(n) /\ SameNames(n, k)
    <3>1. may' = may \cup {AddSegmentTmp(n, Created) : n \in may} BY <1>2, Zenon
    <3> QED BY <3>1, TemporaryNames, Zenon
  <2> QED BY <1>1, <1>7, <2>1, <2>2, <2>3, <2>4, QuietRename, Zenon
<1>9. Places'
  <2>1. IdleAt' /\ ScanAt' /\ DropAt' /\ CompactionAt'
    BY <1>3, <1>4, Zenon DEF IdleAt, ScanAt, DropAt, CompactionAt, Moved, ScanSteps, DropSteps
  <2>2. BootAt'
    BY <1>1, <1>2, <1>3, <1>7, Zenon DEF BootAt, Moved, ScanSteps, SegSteps, SameNames, Places
  <2>3. ResumeAt'
    BY <1>1, <1>2, <1>3, <1>6, <1>7, Zenon
       DEF ResumeAt, Live, Moved, Kept, ScanSteps, SameNames, Places
  <2>4. RotationAt'
    <3> SUFFICES ASSUME task.who = "rotation" PROVE RotationAt'
      BY <1>3, Zenon DEF RotationAt, Moved
    <3>1. Created = NewSegment BY Zenon DEF Created, NewSegment
    <3>2. Exact(manifest) BY <1>1, <1>2, <3>1, Zenon DEF Places, RotationAt, Failed
    <3> QED
      BY <1>1, <1>2, <1>3, <1>6, <1>7, <3>2, Zenon
      DEF RotationAt, Exact, Prepared, Moved, Frame, Kept, SameNames, Places
  <2> QED BY <2>1, <2>2, <2>3, <2>4, Zenon DEF Places
<1> QED BY <1>6, <1>8, <1>9, Zenon DEF AuthorityInv

LEMMA SegmentRenameStep ==
    ASSUME AuthorityInv, SegmentRename
    PROVE  AuthorityInv'
<1>1. Shapes /\ Disk /\ Control /\ Places BY Zenon DEF AuthorityInv
<1>2. /\ task.step = "seg_rename" /\ dir' = PutSegment(dir, Created)
      /\ may' = may \cup {PutSegment(n, Created) : n \in may}
      /\ Goto("seg_sync") /\ UNCHANGED restVars
  BY Zenon DEF SegmentRename, NameStep, Rename
<1>3. Moved("seg_sync") BY <1>1, <1>2, GotoMoves, Zenon
<1>4. task.who \in {"bootstrap", "resume", "rotation"} BY <1>1, <1>2, Runners, Zenon DEF SegSteps
<1>5. Runs(task.who, "seg_sync") BY <1>4, Zenon DEF Runs, SegSteps
<1>6. Shapes' /\ Control' /\ Kept BY <1>1, <1>3, <1>5, MovedKeeps, Zenon DEF Kept
<1>7. /\ Named(dir') /\ dir'.segs = dir.segs \cup {Created}
      /\ dir'.manifest = dir.manifest /\ dir'.boot = dir.boot /\ dir'.intent = dir.intent
  BY <1>1, <1>2, SegmentNames, Zenon DEF Disk
<1>8. Complete(dir')
  <2>1. Complete(dir) BY <1>1, Zenon DEF Disk
  <2> QED BY <1>7, <2>1, Zenon DEF Complete
<1>9. Disk'
  <2>1. env' = env BY <1>3, Zenon DEF Moved, Frame
  <2>2. Settled(task.step) BY <1>2, Zenon DEF Settled
  <2>3. dir \in may => dir' \in may' BY <1>2, Zenon
  <2>4. \A n \in may' : \/ n \in may
                        \/ \E k \in may : Named(k) /\ SameNames(k, dir) =>
                                             Named(n) /\ SameNames(n, dir')
    <3> DEFINE p(k) == PutSegment(k, Created)
    <3> SUFFICES ASSUME NEW k \in may, Named(k), SameNames(k, dir)
                 PROVE  Named(p(k)) /\ SameNames(p(k), dir')
      BY <1>2, Zenon
    <3>1. /\ Named(p(k)) /\ p(k).segs = k.segs \cup {Created}
          /\ p(k).manifest = k.manifest /\ p(k).boot = k.boot /\ p(k).intent = k.intent
      BY SegmentNames, Zenon
    <3> HIDE DEF p
    <3> QED BY <1>7, <3>1, Zenon DEF SameNames
  <2>5. Pending(dir, dir', task'.step) BY <1>3, <1>7, Zenon DEF Pending, Moved
  <2> QED BY <1>1, <1>7, <1>8, <2>1, <2>2, <2>3, <2>4, <2>5, NameChange, Zenon
<1>10. task.who # "bootstrap" => Created = NewSegment BY Zenon DEF Created, NewSegment
<1>11. Places'
  <2>1. IdleAt' /\ ScanAt' /\ DropAt' /\ CompactionAt'
    BY <1>3, <1>4, Zenon DEF IdleAt, ScanAt, DropAt, CompactionAt, Moved, ScanSteps, DropSteps
  <2>2. BootAt' BY <1>1, <1>2, <1>3, <1>7, Zenon DEF BootAt, Moved, ScanSteps, SegSteps, Places
  <2>3. ResumeAt'
    BY <1>1, <1>2, <1>3, <1>6, <1>7, <1>10, Zenon DEF ResumeAt, Live, Moved, Kept, ScanSteps, Places
  <2>4. RotationAt'
    BY <1>1, <1>2, <1>3, <1>6, <1>7, <1>10, Zenon DEF RotationAt, Moved, Frame, Kept, Places
  <2> QED BY <2>1, <2>2, <2>3, <2>4, Zenon DEF Places
<1> QED BY <1>6, <1>9, <1>11, Zenon DEF AuthorityInv

LEMMA SegmentSyncStep ==
    ASSUME AuthorityInv, SegmentSync
    PROVE  AuthorityInv'
<1>1. Control /\ Places BY Zenon DEF AuthorityInv
<1>2. /\ task.step = "seg_sync" /\ SyncDirectory
      /\ Goto(AfterSegment[task.who]) /\ UNCHANGED restVars
  BY Zenon DEF SegmentSync, SyncStep
<1>3. task.who \in {"bootstrap", "resume", "rotation"} BY <1>1, <1>2, Runners, Zenon DEF SegSteps
<1>4. CASE task.who = "bootstrap"
  <2>1. Goto("segments") BY <1>2, <1>4 DEF AfterSegment
  <2>2. Runs(task.who, "segments") BY <1>4, Zenon DEF Runs, BootSteps
  <2>3. Shapes' /\ Disk' /\ Control' /\ Moved("segments") /\ dir' = dir
    BY <1>2, <2>1, <2>2, SyncMoves, Zenon
  <2>4. BootAt' BY <1>1, <1>2, <1>4, <2>3, Zenon DEF BootAt, Moved, ScanSteps, SegSteps, Places
  <2>5. Places'
    BY <1>4, <2>3, <2>4, Zenon
    DEF Places, IdleAt, ScanAt, ResumeAt, RotationAt, DropAt, CompactionAt, Moved, ScanSteps,
    DropSteps
  <2> QED BY <2>3, <2>5, Zenon DEF AuthorityInv
<1>5. CASE task.who \in {"resume", "rotation"}
  <2>1. Goto("man_tmp") BY <1>2, <1>5 DEF AfterSegment
  <2>2. Runs(task.who, "man_tmp") BY <1>5, Zenon DEF Runs, ManSteps
  <2>3. Shapes' /\ Disk' /\ Control' /\ Moved("man_tmp") /\ Kept /\ dir' = dir
    BY <1>2, <2>1, <2>2, SyncMoves, Zenon
  <2>4. ResumeAt' BY <1>1, <1>2, <2>3, Zenon DEF ResumeAt, Live, Moved, Kept, ScanSteps, Places
  <2>5. RotationAt' BY <1>1, <1>2, <2>3, Zenon DEF RotationAt, Moved, Frame, Kept, Places
  <2>6. Places'
    BY <1>5, <2>3, <2>4, <2>5, Zenon
    DEF Places, IdleAt, BootAt, ScanAt, DropAt, CompactionAt, Moved, ScanSteps, DropSteps
  <2> QED BY <2>3, <2>6, Zenon DEF AuthorityInv
<1> QED BY <1>3, <1>4, <1>5, Zenon

------------------------------------------------------------------------------
(* retire_compaction_segments and the removal of an intent. *)

LEMMA RetireStep ==
    ASSUME AuthorityInv, Retire
    PROVE  AuthorityInv'
<1>1. Control /\ Places BY Zenon DEF AuthorityInv
<1>2. /\ task.step = "retire" /\ UNCHANGED <<dir, may>> /\ Goto("unlink") /\ UNCHANGED restVars
  BY Zenon DEF Retire, dirVars
<1>3. task.who \in {"resolve", "compaction", "rollback"} BY <1>1, <1>2, Runners, Zenon DEF DropSteps
<1>4. Runs(task.who, "unlink") BY <1>3, Zenon DEF Runs, DropSteps
<1>5. Settled(task.step) BY <1>2, Zenon DEF Settled
<1>6. Shapes' /\ Disk' /\ Control' /\ Moved("unlink") /\ Kept /\ dir' = dir
  BY <1>2, <1>4, <1>5, GotoKeeps, Zenon
<1>7. DropAt' BY <1>1, <1>2, <1>6, Zenon DEF DropAt, Live, DropSteps, Moved, Places
<1>8. CompactionAt'
  BY <1>1, <1>2, <1>3, <1>6, Zenon
  DEF CompactionAt, StageSteps, ManSteps, DropSteps, Moved, Frame, Kept, Places
<1>9. Places'
  BY <1>3, <1>6, <1>7, <1>8, Zenon
  DEF Places, IdleAt, BootAt, ScanAt, ResumeAt, RotationAt, Moved, ScanSteps
<1> QED BY <1>6, <1>9, Zenon DEF AuthorityInv

LEMMA RetireOneStep ==
    ASSUME AuthorityInv, RetireOne
    PROVE  AuthorityInv'
<1> DEFINE i == Lowest(task.left)
<1>1. Shapes /\ Disk /\ Control /\ Places BY Zenon DEF AuthorityInv
<1>2. /\ task.step = "unlink" /\ task.left # {} /\ dir' = DropSegment(dir, i)
      /\ may' = may \cup {DropSegment(n, i) : n \in may}
      /\ task' = [task EXCEPT !.left = @ \ {i}] /\ UNCHANGED restVars
  BY Zenon DEF RetireOne, Rename
<1>3. i \in task.left
  <2>1. Orderly(task.left) BY <1>1, Zenon DEF Shapes
  <2> QED BY <1>2, <2>1, LowestIn, Zenon
<1> HIDE DEF i
<1>4. Frame BY <1>2, Zenon DEF restVars, memVars, ghostVars, Frame
<1>5. /\ {"who", "step", "worker", "next", "left"} \subseteq DOMAIN task'
      /\ task'.step = "unlink" /\ task'.who = task.who /\ task'.worker = task.worker
      /\ task'.next = task.next /\ task'.left = task.left \ {i}
  BY <1>1, <1>2, Zenon DEF Shapes
<1>6. task.who \in {"resolve", "compaction", "rollback"} BY <1>1, <1>2, Runners, Zenon DEF DropSteps
<1>7. Shapes'
  <2>1. Orderly(task'.left) BY <1>1, <1>5, OrderlyPart, Zenon DEF Shapes
  <2> QED BY <1>1, <1>4, <1>5, <2>1, Zenon DEF Shapes, Frame
<1>8. Control' BY <1>1, <1>2, <1>4, <1>5, Zenon DEF Control, Frame
<1>9. /\ Named(dir') /\ dir'.segs = dir.segs \ {i}
      /\ dir'.manifest = dir.manifest /\ dir'.boot = dir.boot /\ dir'.intent = dir.intent
  BY <1>1, <1>2, SegmentNames, Zenon DEF Disk
<1>10. Live(dir.manifest) /\ i \notin Identities(dir.manifest)
  BY <1>1, <1>2, <1>3, Zenon DEF Places, DropAt, DropSteps
<1>11. Disk'
  <2>1. env' = env BY <1>4, Zenon DEF Frame
  <2>2. dir \in may => dir' \in may' BY <1>2, Zenon
  <2>3. ASSUME NEW k, Named(k), Complete(k), k.manifest = dir.manifest
        PROVE  LET p == DropSegment(k, i)
               IN  /\ Named(p) /\ Complete(p) /\ p.manifest = k.manifest
                   /\ p.boot = k.boot /\ p.intent = k.intent
    <3> DEFINE p == DropSegment(k, i)
    <3>1. /\ Named(p) /\ p.segs = k.segs \ {i}
          /\ p.manifest = k.manifest /\ p.boot = k.boot /\ p.intent = k.intent
      BY <2>3, SegmentNames, Zenon
    <3> HIDE DEF p
    <3>2. Complete(p) BY <1>10, <2>3, <3>1, Zenon DEF Complete
    <3> QED BY <3>1, <3>2, Zenon DEF p
  <2>4. \A n \in may' : \/ n \in may
                        \/ \E k \in may :
                             Named(k) /\ Complete(k) /\ k.manifest = dir.manifest =>
                                 /\ Named(n) /\ Complete(n) /\ n.manifest = k.manifest
                                 /\ n.boot = k.boot /\ n.intent = k.intent
    <3> SUFFICES ASSUME NEW k \in may, Named(k), Complete(k), k.manifest = dir.manifest
                 PROVE  LET n == DropSegment(k, i)
                        IN  /\ Named(n) /\ Complete(n) /\ n.manifest = k.manifest
                            /\ n.boot = k.boot /\ n.intent = k.intent
      BY <1>2, Zenon
    <3> QED BY <2>3, Zenon
  <2>5. Complete(dir') BY <1>1, <1>2, <2>3, Zenon DEF Disk
  <2>6. task.step \in {"rename", "unlink"} /\ task'.step = task.step BY <1>2, <1>5, Zenon
  <2> QED BY <1>1, <1>9, <2>1, <2>2, <2>4, <2>5, <2>6, SegmentChange, Zenon
<1>12. DropAt' BY <1>1, <1>2, <1>5, <1>9, Zenon DEF DropAt, Live, DropSteps, Places
<1>13. CompactionAt'
  <2>1. NewSegment' = NewSegment /\ JobOutputs' = JobOutputs /\ Intent' = Intent
    BY <1>4, <1>5, Zenon DEF Frame, NewSegment, JobOutputs, Intent
  <2> QED BY <1>1, <1>2, <1>4, <1>5, <1>9, <1>10, <2>1
      DEF CompactionAt, StageSteps, ManSteps, DropSteps, Frame, Places
<1>14. Places'
  BY <1>5, <1>6, <1>12, <1>13, Zenon
  DEF Places, IdleAt, BootAt, ScanAt, ResumeAt, RotationAt, ScanSteps
<1> QED BY <1>7, <1>8, <1>11, <1>14, Zenon DEF AuthorityInv

LEMMA RetireSyncStep ==
    ASSUME AuthorityInv, RetireSync
    PROVE  AuthorityInv'
<1>1. Control /\ Places BY Zenon DEF AuthorityInv
<1>2. /\ task.left = {} /\ task.step = "unlink" /\ SyncDirectory /\ Goto("intent_unlink")
      /\ UNCHANGED restVars
  BY Zenon DEF RetireSync, SyncStep
<1>3. task.who \in {"resolve", "compaction", "rollback"} BY <1>1, <1>2, Runners, Zenon DEF DropSteps
<1>4. Runs(task.who, "intent_unlink") BY <1>3, Zenon DEF Runs, DropSteps
<1>5. Shapes' /\ Disk' /\ Control' /\ Moved("intent_unlink") /\ Kept /\ dir' = dir
  BY <1>2, <1>4, SyncMoves, Zenon
<1>6. DropAt' BY <1>1, <1>2, <1>5, Zenon DEF DropAt, Live, DropSteps, Moved, Places
<1>7. CompactionAt'
  BY <1>1, <1>2, <1>3, <1>5, Zenon
  DEF CompactionAt, StageSteps, ManSteps, DropSteps, Moved, Frame, Kept, Places
<1>8. Places'
  BY <1>3, <1>5, <1>6, <1>7, Zenon
  DEF Places, IdleAt, BootAt, ScanAt, ResumeAt, RotationAt, Moved, ScanSteps
<1> QED BY <1>5, <1>8, Zenon DEF AuthorityInv

LEMMA IntentUnlinkStep ==
    ASSUME AuthorityInv, IntentUnlink
    PROVE  AuthorityInv'
<1>1. Shapes /\ Disk /\ Control /\ Places BY Zenon DEF AuthorityInv
<1>2. /\ task.step = "intent_unlink" /\ dir' = DropIntent(dir)
      /\ may' = may \cup {DropIntent(n) : n \in may}
      /\ Goto("intent_unlink_sync") /\ UNCHANGED restVars
  BY Zenon DEF IntentUnlink, NameStep, Rename
<1>3. Moved("intent_unlink_sync") BY <1>1, <1>2, GotoMoves, Zenon
<1>4. task.who \in {"resolve", "compaction", "rollback"} BY <1>1, <1>2, Runners, Zenon DEF DropSteps
<1>5. Runs(task.who, "intent_unlink_sync") BY <1>4, Zenon DEF Runs, DropSteps
<1>6. Shapes' /\ Control' /\ Kept BY <1>1, <1>3, <1>5, MovedKeeps, Zenon DEF Kept
<1>7. /\ Named(dir') /\ dir'.intent = Absent
      /\ dir'.manifest = dir.manifest /\ dir'.boot = dir.boot /\ dir'.segs = dir.segs
  BY <1>1, <1>2, IntentNames, Zenon DEF Disk
<1>8. Complete(dir')
  <2>1. Complete(dir) BY <1>1, Zenon DEF Disk
  <2> QED BY <1>7, <2>1, Zenon DEF Complete
<1>9. Disk'
  <2>1. env' = env BY <1>3, Zenon DEF Moved, Frame
  <2>2. Settled(task.step) BY <1>2, Zenon DEF Settled
  <2>3. dir \in may => dir' \in may' BY <1>2, Zenon
  <2>4. \A n \in may' : \/ n \in may
                        \/ \E k \in may : Named(k) /\ SameNames(k, dir) =>
                                             Named(n) /\ SameNames(n, dir')
    <3> SUFFICES ASSUME NEW k \in may, Named(k), SameNames(k, dir)
                 PROVE  Named(DropIntent(k)) /\ SameNames(DropIntent(k), dir')
      BY <1>2, Zenon
    <3>1. /\ Named(DropIntent(k)) /\ DropIntent(k).intent = Absent
          /\ DropIntent(k).manifest = k.manifest /\ DropIntent(k).boot = k.boot
          /\ DropIntent(k).segs = k.segs
      BY IntentNames, Zenon
    <3> QED BY <1>7, <3>1, Zenon DEF SameNames
  <2>5. Pending(dir, dir', task'.step) BY <1>3, <1>7, Zenon DEF Pending, Moved
  <2> QED BY <1>1, <1>7, <1>8, <2>1, <2>2, <2>3, <2>4, <2>5, NameChange, Zenon
<1>10. DropAt' BY <1>1, <1>2, <1>3, <1>7, Zenon DEF DropAt, Live, DropSteps, Moved, Places
<1>11. CompactionAt'
  BY <1>1, <1>2, <1>3, <1>6, <1>7, Zenon
  DEF CompactionAt, StageSteps, ManSteps, DropSteps, Moved, Frame, Kept, Places
<1>12. Places'
  BY <1>3, <1>4, <1>10, <1>11, Zenon
  DEF Places, IdleAt, BootAt, ScanAt, ResumeAt, RotationAt, Moved, ScanSteps
<1> QED BY <1>6, <1>9, <1>12, Zenon DEF AuthorityInv

LEMMA IntentUnlinkSyncStep ==
    ASSUME AuthorityInv, IntentUnlinkSync
    PROVE  AuthorityInv'
<1>1. Control /\ Places BY Zenon DEF AuthorityInv
<1>2. task.step = "intent_unlink_sync" /\ SyncDirectory /\ Goto("audit") /\ UNCHANGED restVars
  BY Zenon DEF IntentUnlinkSync, SyncStep
<1>3. task.who \in {"resolve", "compaction", "rollback"} BY <1>1, <1>2, Runners, Zenon DEF DropSteps
<1>4. Runs(task.who, "audit") BY <1>3, Zenon DEF Runs, DropSteps
<1>5. Shapes' /\ Disk' /\ Control' /\ Moved("audit") /\ Kept /\ dir' = dir
  BY <1>2, <1>4, SyncMoves, Zenon
<1>6. DropAt' BY <1>1, <1>2, <1>5, Zenon DEF DropAt, Live, DropSteps, Moved, Places
<1>7. CompactionAt'
  BY <1>1, <1>2, <1>3, <1>5, Zenon
  DEF CompactionAt, StageSteps, ManSteps, DropSteps, Moved, Frame, Kept, Places
<1>8. Places'
  BY <1>3, <1>5, <1>6, <1>7, Zenon
  DEF Places, IdleAt, BootAt, ScanAt, ResumeAt, RotationAt, Moved, ScanSteps
<1> QED BY <1>5, <1>8, Zenon DEF AuthorityInv

------------------------------------------------------------------------------
(* Creation of a Store. *)

LEMMA BootTmpStep ==
    ASSUME AuthorityInv, BootTmp
    PROVE  AuthorityInv'
<1>1. Shapes /\ Disk /\ Control /\ Places BY Zenon DEF AuthorityInv
<1>2. /\ task.step = "boot_tmp" /\ dir' = AddTmp(dir, "boot")
      /\ may' = may \cup {AddTmp(n, "boot") : n \in may}
      /\ Goto("boot_rename") /\ UNCHANGED restVars
  BY Zenon DEF BootTmp, NameStep, Rename
<1>3. Moved("boot_rename") BY <1>1, <1>2, GotoMoves, Zenon
<1>4. task.who = "bootstrap" BY <1>1, <1>2, Runners, Zenon DEF BootSteps
<1>5. Runs(task.who, "boot_rename") BY <1>4, Zenon DEF Runs, BootSteps
<1>6. Shapes' /\ Control' BY <1>1, <1>3, <1>5, MovedKeeps, Zenon
<1>7. Named(dir') /\ SameNames(dir', dir) BY <1>1, <1>2, TemporaryNames, Zenon DEF Disk
<1>8. Disk'
  <2>1. env' = env BY <1>3, Zenon DEF Moved, Frame
  <2>2. Settled(task.step) BY <1>2, Zenon DEF Settled
  <2>3. dir \in may => dir' \in may' BY <1>2, Zenon
  <2>4. \A n \in may' : n \in may \/ \E k \in may : Named(k) => Named(n) /\ SameNames(n, k)
    BY <1>2, TemporaryNames, Zenon
  <2> QED BY <1>1, <1>7, <2>1, <2>2, <2>3, <2>4, QuietRename, Zenon
<1>9. BootAt'
  BY <1>1, <1>2, <1>3, <1>4, <1>7, Zenon DEF BootAt, Moved, ScanSteps, SegSteps, SameNames, Places
<1>10. Places'
  BY <1>3, <1>4, <1>9, Zenon
  DEF Places, IdleAt, ScanAt, ResumeAt, RotationAt, DropAt, CompactionAt, Moved, ScanSteps,
  DropSteps
<1> QED BY <1>6, <1>8, <1>10, Zenon DEF AuthorityInv

LEMMA BootRenameStep ==
    ASSUME AuthorityInv, BootRename
    PROVE  AuthorityInv'
<1>1. Shapes /\ Disk /\ Control /\ Places BY Zenon DEF AuthorityInv
<1>2. /\ task.step = "boot_rename" /\ dir' = PutBootIntent(dir)
      /\ may' = may \cup {PutBootIntent(n) : n \in may}
      /\ Goto("boot_sync") /\ UNCHANGED restVars
  BY Zenon DEF BootRename, NameStep, Rename
<1>3. Moved("boot_sync") BY <1>1, <1>2, GotoMoves, Zenon
<1>4. task.who = "bootstrap" BY <1>1, <1>2, Runners, Zenon DEF BootSteps
<1>5. Runs(task.who, "boot_sync") BY <1>4, Zenon DEF Runs, BootSteps
<1>6. Shapes' /\ Control' BY <1>1, <1>3, <1>5, MovedKeeps, Zenon
<1>7. /\ Named(dir') /\ dir'.boot = TRUE
      /\ dir'.manifest = dir.manifest /\ dir'.intent = dir.intent /\ dir'.segs = dir.segs
  BY <1>1, <1>2, BootNames, Zenon DEF Disk
<1>8. dir.manifest = Absent /\ dir.intent = Absent
  BY <1>1, <1>2, <1>4, Zenon DEF Places, BootAt, ScanSteps
<1>9. Complete(dir') BY <1>7, <1>8, Zenon DEF Complete
<1>10. Disk'
  <2>1. env' = env BY <1>3, Zenon DEF Moved, Frame
  <2>2. Settled(task.step) BY <1>2, Zenon DEF Settled
  <2>3. dir \in may => dir' \in may' BY <1>2, Zenon
  <2>4. \A n \in may' : \/ n \in may
                        \/ \E k \in may : Named(k) /\ SameNames(k, dir) =>
                                             Named(n) /\ SameNames(n, dir')
    <3> SUFFICES ASSUME NEW k \in may, Named(k), SameNames(k, dir)
                 PROVE  Named(PutBootIntent(k)) /\ SameNames(PutBootIntent(k), dir')
      BY <1>2, Zenon
    <3>1. /\ Named(PutBootIntent(k)) /\ PutBootIntent(k).boot = TRUE
          /\ PutBootIntent(k).manifest = k.manifest /\ PutBootIntent(k).intent = k.intent
          /\ PutBootIntent(k).segs = k.segs
      BY BootNames, Zenon
    <3> QED BY <1>7, <3>1, Zenon DEF SameNames
  <2>5. Pending(dir, dir', task'.step) BY <1>3, <1>7, Zenon DEF Pending, Moved
  <2> QED BY <1>1, <1>7, <1>9, <2>1, <2>2, <2>3, <2>4, <2>5, NameChange, Zenon
<1>11. BootAt'
  BY <1>1, <1>2, <1>3, <1>4, <1>7, <1>8, Zenon DEF BootAt, Moved, ScanSteps, SegSteps, Places
<1>12. Places'
  BY <1>3, <1>4, <1>11, Zenon
  DEF Places, IdleAt, ScanAt, ResumeAt, RotationAt, DropAt, CompactionAt, Moved, ScanSteps,
  DropSteps
<1> QED BY <1>6, <1>10, <1>12, Zenon DEF AuthorityInv

LEMMA BootSyncStep ==
    ASSUME AuthorityInv, BootSync
    PROVE  AuthorityInv'
<1>1. Control /\ Places BY Zenon DEF AuthorityInv
<1>2. task.step = "boot_sync" /\ SyncDirectory /\ Goto("man_tmp") /\ UNCHANGED restVars
  BY Zenon DEF BootSync, SyncStep
<1>3. task.who = "bootstrap" BY <1>1, <1>2, Runners, Zenon DEF BootSteps
<1>4. Runs(task.who, "man_tmp") BY <1>3, Zenon DEF Runs, ManSteps
<1>5. Shapes' /\ Disk' /\ Control' /\ Moved("man_tmp") /\ dir' = dir
  BY <1>2, <1>4, SyncMoves, Zenon
<1>6. BootAt' BY <1>1, <1>2, <1>3, <1>5, Zenon DEF BootAt, Moved, ScanSteps, SegSteps, Places
<1>7. Places'
  BY <1>3, <1>5, <1>6, Zenon
  DEF Places, IdleAt, ScanAt, ResumeAt, RotationAt, DropAt, CompactionAt, Moved, ScanSteps,
  DropSteps
<1> QED BY <1>5, <1>7, Zenon DEF AuthorityInv

LEMMA BootSegmentsStep ==
    ASSUME AuthorityInv, BootSegments
    PROVE  AuthorityInv'
<1>1. Control /\ Places BY Zenon DEF AuthorityInv
<1>2. /\ task.step = "segments" /\ UNCHANGED <<dir, may>> /\ UNCHANGED restVars
      /\ \/ MissingSegments(dir, task.next) = {} /\ Goto("boot_unlink")
         \/ Goto("seg_tmp")
  BY Zenon DEF BootSegments, dirVars
<1>3. task.who = "bootstrap" BY <1>1, <1>2, Runners, Zenon DEF BootSteps
<1>4. Settled(task.step) BY <1>2, Zenon DEF Settled
<1>5. CASE MissingSegments(dir, task.next) = {} /\ Goto("boot_unlink")
  <2>1. Runs(task.who, "boot_unlink") BY <1>3, Zenon DEF Runs, BootSteps
  <2>2. Shapes' /\ Disk' /\ Control' /\ Moved("boot_unlink") /\ dir' = dir
    BY <1>2, <1>4, <1>5, <2>1, GotoKeeps, Zenon
  <2>3. Identities(task.next) \subseteq dir.segs BY <1>5, Zenon DEF MissingSegments
  <2>4. BootAt'
    BY <1>1, <1>2, <1>3, <2>2, <2>3, Zenon DEF BootAt, Moved, ScanSteps, SegSteps, Places
  <2>5. Places'
    BY <1>3, <2>2, <2>4, Zenon
    DEF Places, IdleAt, ScanAt, ResumeAt, RotationAt, DropAt, CompactionAt, Moved, ScanSteps,
    DropSteps
  <2> QED BY <2>2, <2>5, Zenon DEF AuthorityInv
<1>6. CASE Goto("seg_tmp")
  <2>1. Runs(task.who, "seg_tmp") BY <1>3, Zenon DEF Runs, SegSteps
  <2>2. Shapes' /\ Disk' /\ Control' /\ Moved("seg_tmp") /\ dir' = dir
    BY <1>2, <1>4, <1>6, <2>1, GotoKeeps, Zenon
  <2>3. BootAt' BY <1>1, <1>2, <1>3, <2>2, Zenon DEF BootAt, Moved, ScanSteps, SegSteps, Places
  <2>4. Places'
    BY <1>3, <2>2, <2>3, Zenon
    DEF Places, IdleAt, ScanAt, ResumeAt, RotationAt, DropAt, CompactionAt, Moved, ScanSteps,
    DropSteps
  <2> QED BY <2>2, <2>4, Zenon DEF AuthorityInv
<1> QED BY <1>2, <1>5, <1>6, Zenon

LEMMA BootUnlinkStep ==
    ASSUME AuthorityInv, BootUnlink
    PROVE  AuthorityInv'
<1>1. Shapes /\ Disk /\ Control /\ Places BY Zenon DEF AuthorityInv
<1>2. /\ task.step = "boot_unlink" /\ dir' = DropBootIntent(dir)
      /\ may' = may \cup {DropBootIntent(n) : n \in may}
      /\ Goto("boot_unlink_sync") /\ UNCHANGED restVars
  BY Zenon DEF BootUnlink, NameStep, Rename
<1>3. Moved("boot_unlink_sync") BY <1>1, <1>2, GotoMoves, Zenon
<1>4. task.who = "bootstrap" BY <1>1, <1>2, Runners, Zenon DEF BootSteps
<1>5. Runs(task.who, "boot_unlink_sync") BY <1>4, Zenon DEF Runs, BootSteps
<1>6. Shapes' /\ Control' BY <1>1, <1>3, <1>5, MovedKeeps, Zenon
<1>7. /\ Named(dir') /\ dir'.boot = FALSE
      /\ dir'.manifest = dir.manifest /\ dir'.intent = dir.intent /\ dir'.segs = dir.segs
  BY <1>1, <1>2, BootNames, Zenon DEF Disk
<1>8. /\ dir.manifest = InitialManifest /\ dir.intent = Absent
      /\ Identities(InitialManifest) \subseteq dir.segs
  BY <1>1, <1>2, <1>4, Zenon DEF Places, BootAt, ScanSteps
<1>9. Complete(dir') BY <1>7, <1>8, InitialIsSound, Zenon DEF Complete
<1>10. Disk'
  <2>1. env' = env BY <1>3, Zenon DEF Moved, Frame
  <2>2. Settled(task.step) BY <1>2, Zenon DEF Settled
  <2>3. dir \in may => dir' \in may' BY <1>2, Zenon
  <2>4. \A n \in may' : \/ n \in may
                        \/ \E k \in may : Named(k) /\ SameNames(k, dir) =>
                                             Named(n) /\ SameNames(n, dir')
    <3> SUFFICES ASSUME NEW k \in may, Named(k), SameNames(k, dir)
                 PROVE  Named(DropBootIntent(k)) /\ SameNames(DropBootIntent(k), dir')
      BY <1>2, Zenon
    <3>1. /\ Named(DropBootIntent(k)) /\ DropBootIntent(k).boot = FALSE
          /\ DropBootIntent(k).manifest = k.manifest /\ DropBootIntent(k).intent = k.intent
          /\ DropBootIntent(k).segs = k.segs
      BY BootNames, Zenon
    <3> QED BY <1>7, <3>1, Zenon DEF SameNames
  <2>5. Pending(dir, dir', task'.step) BY <1>3, <1>7, Zenon DEF Pending, Moved
  <2> QED BY <1>1, <1>7, <1>9, <2>1, <2>2, <2>3, <2>4, <2>5, NameChange, Zenon
<1>11. BootAt'
  BY <1>1, <1>2, <1>3, <1>4, <1>7, <1>8, Zenon DEF BootAt, Moved, ScanSteps, SegSteps, Places
<1>12. Places'
  BY <1>3, <1>4, <1>11, Zenon
  DEF Places, IdleAt, ScanAt, ResumeAt, RotationAt, DropAt, CompactionAt, Moved, ScanSteps,
  DropSteps
<1> QED BY <1>6, <1>10, <1>12, Zenon DEF AuthorityInv

LEMMA BootUnlinkSyncStep ==
    ASSUME AuthorityInv, BootUnlinkSync
    PROVE  AuthorityInv'
<1>1. Control /\ Places BY Zenon DEF AuthorityInv
<1>2. task.step = "boot_unlink_sync" /\ SyncDirectory /\ Goto("resolve") /\ UNCHANGED restVars
  BY Zenon DEF BootUnlinkSync, SyncStep
<1>3. task.who = "bootstrap" BY <1>1, <1>2, Runners, Zenon DEF BootSteps
<1>4. Runs(task.who, "resolve") BY <1>3, Zenon DEF Runs, ScanSteps
<1>5. Shapes' /\ Disk' /\ Control' /\ Moved("resolve") /\ dir' = dir
  BY <1>2, <1>4, SyncMoves, Zenon
<1>6. ~dir.boot /\ dir.manifest = InitialManifest
  BY <1>1, <1>2, <1>3, Zenon DEF Places, BootAt, ScanSteps
<1>7. ScanAt' BY <1>5, <1>6, InitialIsSound, Zenon DEF ScanAt, Live
<1>8. Places'
  BY <1>3, <1>5, <1>7, Zenon
  DEF Places, IdleAt, BootAt, ResumeAt, RotationAt, DropAt, CompactionAt, Moved, ScanSteps,
  DropSteps
<1> QED BY <1>5, <1>8, Zenon DEF AuthorityInv
==============================================================================

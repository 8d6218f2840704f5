------------------------------ MODULE Knowledge ------------------------------
(***************************************************************************)
(* Local confirmation of business knowledge, for one data source:          *)
(* crates/snapshot-store/src/knowledge.rs, the store operations of lib.rs  *)
(* that touch the same tables, semantic-model/src/knowledge.rs and the     *)
(* draft commands of apps/desktop/src-tauri/src/knowledge.rs.              *)
(*                                                                         *)
(* `store` is the part of the SQLite database the component reads and      *)
(* writes.  Every store operation is one SQLite transaction, so every      *)
(* action replaces `store` by the result of a function on stores; a        *)
(* rejected operation rolls back and is no step.  SHA-256 digests are      *)
(* modelled by the value they digest.                                      *)
(***************************************************************************)
EXTENDS Integers, FiniteSets

CONSTANTS
  Table, Definition, Absent,  \* tables; their definitions; "not observed"
  Catalog,         \* the structures the database can have when inspected
  Object,          \* annotated objects (tables, columns, keys, indexes)
  Owner,           \* the table an object belongs to
  Exposing,        \* the definitions of that table in which it exists
  Relation, Ends,  \* logical relationship ids; the tables each connects
  Meaning,         \* cardinality and columns of a relationship
  RelationshipStatus, \* Active, Disabled, Orphaned, Conflicted, ...
  Text, NoText,    \* descriptions; "no description"
  Identity,        \* connection identities
  NoProfile, Unbound, \* identity with no profile; with an imported profile
  FileBased,       \* whether the source is a SQLite file
  Bundle,          \* the portable backups that may be imported
  Id,              \* ids of drafts (and of the confirmations they become)
  None,            \* "no row"
  MaxDrafts,       \* drafts kept open in memory (16 in the code)
  MaxClock         \* bound on the number of timestamped writes

Snapshot     == [id : Nat, structure : Catalog]
Relationship == [meaning : Meaning, status : RelationshipStatus, at : Nat]
Annotation   == [text : Text \cup {NoText}, at : Nat]

\* relationship_digest leaves the timestamp and free text out.
RelationshipDigest(r) == <<r.meaning, r.status>>

KnowledgeBasis ==
  [identity  : Identity,
   tables    : SUBSET (Table \X Definition),
   relations : SUBSET (Relation \X (Meaning \X RelationshipStatus)),
   notes     : SUBSET (Object \X Id \X Text)]

KnowledgeConfirmation ==
  [id : Id, text : Text, snapshot : Nat, basis : KnowledgeBasis,
   invalid : BOOLEAN]

Draft ==
  [object : Object, version : Annotation \cup {None},
   basis : KnowledgeBasis, saved : Annotation \cup {None}]

Store ==
  [snapshots     : SUBSET Snapshot,
   baseline      : SUBSET Nat,       \* snapshot of the change review baseline
   identity      : Identity,
   relations     : [Relation -> Relationship \cup {None}],
   annotations   : [Object -> Annotation \cup {None}],
   confirmations : [Object -> KnowledgeConfirmation \cup {None}],
   clock         : Nat]

ASSUME StructureAssumption ==
  /\ Absent \notin Definition
  /\ Catalog \subseteq [Table -> Definition \cup {Absent}]
  /\ Owner \in [Object -> Table]
  /\ Exposing \in [Object -> SUBSET Definition]
  /\ Ends \in [Relation -> SUBSET Table]
ASSUME ValueAssumption ==
  /\ NoText \notin Text
  /\ {NoProfile, Unbound} \subseteq Identity
  /\ FileBased \in BOOLEAN
  /\ Bundle \subseteq [structure : Catalog \cup {None}, profile : BOOLEAN,
                       annotations : [Object -> Annotation \cup {None}],
                       relations : [Relation -> Relationship \cup {None}]]
ASSUME NoneAssumption ==
  /\ None \notin Catalog
  /\ None \notin Id
  /\ None \notin Relationship
  /\ None \notin Annotation
  /\ None \notin KnowledgeConfirmation
  /\ None \notin Draft

VARIABLES
  store,   \* the SQLite database
  drafts,  \* KnowledgeDrafts: the open drafts, in memory
  used     \* ids already given to a draft (Uuid::new_v4 never repeats)

vars == <<store, drafts, used>>

-----------------------------------------------------------------------------
(* What a transaction reads.                                               *)

\* snapshot_in: the snapshot with the latest captured_at.
Latest(s) == CHOOSE x \in s.snapshots : \A y \in s.snapshots : y.id <= x.id

\* owning_table(snapshot, o).is_some()
Available(s, o) ==
  /\ s.snapshots # {}
  /\ Latest(s).structure[Owner[o]] \in Exposing[o]

\* KnowledgeBasis::structure_matches
StructureMatches(s, b) ==
  /\ s.snapshots # {}
  /\ b.tables # {}
  /\ \A p \in b.tables : Latest(s).structure[p[1]] = p[2]
  /\ \A p \in b.relations : /\ s.relations[p[1]] # None
                            /\ RelationshipDigest(s.relations[p[1]]) = p[2]

\* The conjunction `valid` of states_in, before supporting notes are looked at.
LocallyValid(s, o) ==
  /\ s.annotations[o] # None
  /\ s.confirmations[o] # None
  /\ Available(s, o)
  /\ ~ s.confirmations[o].invalid
  /\ s.confirmations[o].basis.identity = s.identity
  /\ s.confirmations[o].text = s.annotations[o].text
  /\ StructureMatches(s, s.confirmations[o].basis)

\* notes_match, against the set of objects that count as confirmed.
NotesMatch(s, notes, confirmed) ==
  \A n \in notes : /\ n[1] \in confirmed
                   /\ s.confirmations[n[1]].id = n[2]
                   /\ s.confirmations[n[1]].text = n[3]

\* A set of valid objects whose notes are all in the set.
SelfSupporting(s, S) ==
  \A o \in S : /\ LocallyValid(s, o)
               /\ NotesMatch(s, s.confirmations[o].basis.notes, S)

\* The loop of states_in demotes until nothing changes: what it leaves is the
\* largest self-supporting set.
Confirmed(s) == UNION {S \in SUBSET Object : SelfSupporting(s, S)}

Status(s, o) ==
  IF ~ Available(s, o) THEN "Unavailable"
  ELSE IF o \in Confirmed(s) THEN "Confirmed" ELSE "PendingReview"

\* The objects whose notes the record of o cites.
Supports(s, o) ==
  IF s.confirmations[o] = None THEN {}
  ELSE {n[1] : n \in s.confirmations[o].basis.notes}

\* depends_on: target is reached from o along recorded notes.
DependsOn(s, o, target) ==
  \A X \in SUBSET Object :
    (Supports(s, o) \subseteq X /\ \A x \in X : Supports(s, x) \subseteq X)
      => target \in X

-----------------------------------------------------------------------------
(* What a transaction writes.                                              *)

Mark(s, S) ==
  [s EXCEPT !.confirmations =
     [o \in Object |-> IF o \in S /\ s.confirmations[o] # None
                         THEN [s.confirmations[o] EXCEPT !.invalid = TRUE]
                         ELSE s.confirmations[o]]]

\* states_in: every record that is not confirmed is durably downgraded.
SettledInMemory(s) == s  \* mutant
Settled(s) == Mark(s, {o \in Object : s.annotations[o] # None} \ Confirmed(s))

\* Trigger annotation_text_changed.
WriteAnnotation(s, o, a) ==
  Mark([s EXCEPT !.annotations[o] = a],
       IF s.annotations[o] # None /\ s.annotations[o].text # a.text
         THEN {o} ELSE {})

\* Triggers knowledge_relation_changed and knowledge_relation_removed.
RelyingAll(s, r) == {o \in Object : s.confirmations[o] # None}  \* mutant
Relying(s, r) ==
  {o \in Object : /\ s.confirmations[o] # None
                  /\ \E p \in s.confirmations[o].basis.relations : p[1] = r}

WriteRelationIgnoringRemoval(s, r, v) ==  \* mutant
  Mark([s EXCEPT !.relations[r] = v],
       IF /\ s.relations[r] # None
          /\ v # None
          /\ RelationshipDigest(v) # RelationshipDigest(s.relations[r])
         THEN Relying(s, r) ELSE {})
WriteRelation(s, r, v) ==
  Mark([s EXCEPT !.relations[r] = v],
       IF /\ s.relations[r] # None
          /\ v = None \/ RelationshipDigest(v) # RelationshipDigest(s.relations[r])
         THEN Relying(s, r) ELSE {})

Tick(s) == [s EXCEPT !.clock = @ + 1]

\* save_snapshot_in: the id stands for captured_at, taken from the clock.
AddSnapshot(s, c) ==
  [s EXCEPT !.snapshots = @ \cup {[id |-> s.clock, structure |-> c]}]

\* prune_snapshots_in: `keep` is what the count, the cutoff and the high-risk
\* rule retain; the latest snapshot, the review baseline and the evidence of
\* confirmations are retained besides.
Cited(s) == {s.confirmations[o].snapshot :
               o \in {o \in Object : s.confirmations[o] # None}}
ProtectedWithoutCited(s) == {Latest(s).id} \cup s.baseline  \* mutant
ProtectedWithoutBaseline(s) == {Latest(s).id} \cup Cited(s)  \* mutant
Protected(s) == {Latest(s).id} \cup s.baseline \cup Cited(s)
Pruned(s, keep) ==
  IF s.snapshots = {} THEN s
  ELSE [s EXCEPT !.snapshots =
          {x \in s.snapshots : x.id \in keep \cup Protected(s)}]

-----------------------------------------------------------------------------
Init ==
  /\ store = [snapshots     |-> {},
              baseline      |-> {},
              identity      |-> NoProfile,
              relations     |-> [r \in Relation |-> None],
              annotations   |-> [o \in Object |-> None],
              confirmations |-> [o \in Object |-> None],
              clock         |-> 0]
  /\ drafts = [d \in Id |-> None]
  /\ used = {}

\* save_data_source
SaveDataSource(i) ==
  /\ store' = Settled([store EXCEPT !.identity = i])
  /\ UNCHANGED <<drafts, used>>

\* save_captured_snapshot and, with another identity, save_verified_source: an
\* unchanged structure reuses the persisted snapshot; a new one is stored and
\* the retention policy applied, all in one transaction.
Stored(s, c, keep) ==
  IF s.snapshots # {} /\ Latest(s).structure = c THEN s
  ELSE Settled(Pruned(AddSnapshot(Tick(s), c), keep))

SaveCapture(i, c, keep) ==
  /\ store.clock < MaxClock
  /\ store' = Settled(Stored([store EXCEPT !.identity = i], c, keep))
  /\ UNCHANGED <<drafts, used>>

\* prune_snapshots
PruneSnapshots(keep) ==
  /\ store' = Settled(Pruned(store, keep))
  /\ UNCHANGED <<drafts, used>>

\* save_annotation: an upsert; only the trigger looks at confirmations.
SaveAnnotation(o, x) ==
  /\ store.clock < MaxClock
  /\ store' = LET s == Tick(store)
              IN  WriteAnnotation(s, o, [text |-> x, at |-> s.clock])
  /\ UNCHANGED <<drafts, used>>

\* save_logical_relationship and delete_logical_relationship
SaveRelationship(r, m, st) ==
  /\ store.clock < MaxClock
  /\ store' = LET s == Tick(store)
              IN  WriteRelation(s, r, [meaning |-> m, status |-> st,
                                       at |-> s.clock])
  /\ UNCHANGED <<drafts, used>>

DeleteRelationship(r) ==
  /\ store.relations[r] # None
  /\ store' = WriteRelation(store, r, None)
  /\ UNCHANGED <<drafts, used>>

\* delete_source_data
Erased(s, history, semantics, connection) ==
  [s EXCEPT
     !.baseline = {},
     !.snapshots = IF history THEN {} ELSE @,
     !.annotations = IF semantics THEN [o \in Object |-> None] ELSE @,
     !.confirmations = IF semantics THEN [o \in Object |-> None] ELSE @,
     !.relations = IF semantics THEN [r \in Relation |-> None] ELSE @,
     !.identity = IF connection THEN NoProfile ELSE @]

DeleteSourceData(history, semantics, connection) ==
  /\ history \/ semantics \/ connection
  /\ store' = Settled(Erased(store, history, semantics, connection))
  /\ UNCHANGED <<drafts, used>>

\* import_portable_model: a local profile is never retargeted, except that a
\* file binding is dropped; every record of the bundle is upserted.
Imported(s, b) ==
  LET bound == [s EXCEPT !.identity =
                  IF b.profile /\ (FileBased \/ @ = NoProfile)
                    THEN Unbound ELSE @]
      dated == IF b.structure = None THEN bound
               ELSE AddSnapshot(Tick(bound), b.structure)
      texts == {o \in Object : b.annotations[o] # None}
      links == {r \in Relation : b.relations[r] # None}
  IN  Mark([dated EXCEPT
              !.annotations = [o \in Object |-> IF o \in texts
                                 THEN b.annotations[o] ELSE s.annotations[o]],
              !.relations = [r \in Relation |-> IF r \in links
                               THEN b.relations[r] ELSE s.relations[r]]],
           {o \in texts : /\ s.annotations[o] # None
                          /\ s.annotations[o].text # b.annotations[o].text}
           \cup UNION {Relying(s, r) : r \in
                  {q \in links : /\ s.relations[q] # None
                                 /\ RelationshipDigest(s.relations[q])
                                      # RelationshipDigest(b.relations[q])}})

ImportPortableModel(b) ==
  /\ store.clock < MaxClock
  /\ store' = Settled(Imported(store, b))
  /\ UNCHANGED <<drafts, used>>

\* knowledge_states, annotation_knowledge: reads that persist downgrades.
ReadStates ==
  /\ store' = Settled(store)
  /\ UNCHANGED <<drafts, used>>

-----------------------------------------------------------------------------
(* Drafts.                                                                 *)

\* KnowledgeBasis::from_tables
BasisOfAll(s, tables, notes) ==  \* mutant
  [identity  |-> s.identity,
   tables    |-> {<<t, Latest(s).structure[t]>> : t \in tables},
   relations |-> {},
   notes     |-> {}]
BasisFrom(s, tables, notes) ==
  [identity  |-> s.identity,
   tables    |-> {<<t, Latest(s).structure[t]>> :
                    t \in {u \in tables : Latest(s).structure[u] # Absent}},
   relations |-> {<<r, RelationshipDigest(s.relations[r])>> :
                    r \in {q \in Relation : /\ s.relations[q] # None
                                            /\ Ends[q] \subseteq tables}},
   notes     |-> {<<o, s.confirmations[o].id, s.confirmations[o].text>> :
                    o \in notes}]

OpenDrafts == {d \in Id : drafts[d] # None}

\* prepare_knowledge_draft: a manual review takes the owning table and no notes,
\* a draft made from an AI answer the tables and confirmed notes of that answer.
PrepareDraft(d, o, tables, notes) ==
  /\ d \notin used
  /\ Cardinality(OpenDrafts) < MaxDrafts
  /\ Available(store, o)
  /\ notes \subseteq Confirmed(store) \ {o}
  /\ drafts' = [drafts EXCEPT ![d] =
                  [object |-> o, version |-> store.annotations[o],
                   basis |-> BasisFrom(store, tables, notes), saved |-> None]]
  /\ used' = used \cup {d}
  /\ UNCHANGED store

\* cancel_knowledge_draft; a draft older than five minutes is refused as well.
CancelDraft(d) ==
  /\ drafts[d] # None
  /\ drafts' = [drafts EXCEPT ![d] = None]
  /\ UNCHANGED <<store, used>>

\* mutant: the structure is not compared again
MayConfirmUnchecked(s, o, version, basis) ==
  /\ basis.identity = s.identity
  /\ s.annotations[o] = version
  /\ Available(s, o)
  /\ NotesMatch(s, basis.notes, Confirmed(s))
  /\ \A p \in basis.tables : p[1] = Owner[o]
  /\ \A n \in basis.notes : n[1] # o /\ ~ DependsOn(s, n[1], o)
\* confirm_in, up to its writes.
MayConfirm(s, o, version, basis) ==
  /\ basis.identity = s.identity
  /\ s.annotations[o] = version
  /\ Available(s, o)
  /\ StructureMatches(s, basis)
  /\ NotesMatch(s, basis.notes, Confirmed(s))
  /\ \E p \in basis.tables : p[1] = Owner[o]
  /\ \A n \in basis.notes : n[1] # o /\ ~ DependsOn(s, n[1], o)

\* The writes of confirm_in: the description, and a fresh record for it.
WithConfirmation(s, o, id, x, basis) ==
  [WriteAnnotation(s, o, [text |-> x, at |-> s.clock]) EXCEPT
     !.confirmations[o] = [id |-> id, text |-> x, snapshot |-> Latest(s).id,
                           basis |-> basis, invalid |-> FALSE]]

ConfirmedBy(s, o, id, x, basis) ==
  Settled(WithConfirmation(Tick(Settled(s)), o, id, x, basis))

\* confirm_knowledge_draft: the text saved is the one on screen.
ConfirmDraft(d, x) ==
  /\ drafts[d] # None
  /\ drafts[d].saved = None
  /\ store.clock < MaxClock
  /\ MayConfirm(store, drafts[d].object, drafts[d].version, drafts[d].basis)
  /\ store' = ConfirmedBy(store, drafts[d].object, d, x, drafts[d].basis)
  /\ drafts' = [drafts EXCEPT ![d].saved = store'.annotations[drafts[d].object]]
  /\ UNCHANGED used

\* A repeated confirm_knowledge_draft answers from the saved annotation, if it
\* is still the stored one and still confirmed by this draft.
RetryDraft(d) ==
  /\ drafts[d] # None
  /\ drafts[d].saved # None
  /\ store.annotations[drafts[d].object] = drafts[d].saved
  /\ drafts[d].object \in Confirmed(store)
  /\ store.confirmations[drafts[d].object].id = d
  /\ store' = Settled(store)
  /\ UNCHANGED <<drafts, used>>

\* Every operation but the captures and the deletion, which the change review
\* extends.
LocalStep ==
  \/ \E i \in Identity \ {NoProfile} : SaveDataSource(i)
  \/ \E keep \in SUBSET {x.id : x \in store.snapshots} : PruneSnapshots(keep)
  \/ \E o \in Object, x \in Text \cup {NoText} : SaveAnnotation(o, x)
  \/ \E r \in Relation, m \in Meaning, st \in RelationshipStatus :
       SaveRelationship(r, m, st)
  \/ \E r \in Relation : DeleteRelationship(r)
  \/ \E b \in Bundle : ImportPortableModel(b)
  \/ ReadStates
  \/ \E d \in Id, o \in Object, tables \in SUBSET Table, notes \in SUBSET Object :
       PrepareDraft(d, o, tables, notes)
  \/ \E d \in Id : CancelDraft(d)
  \/ \E d \in Id, x \in Text : ConfirmDraft(d, x)
  \/ \E d \in Id : RetryDraft(d)

\* A capture that ends after the profile was deleted is saved all the same.
Next ==
  \/ LocalStep
  \/ \E i \in (Identity \ {NoProfile}) \cup {store.identity}, c \in Catalog,
        keep \in SUBSET {x.id : x \in store.snapshots} : SaveCapture(i, c, keep)
  \/ \E h, sem, con \in BOOLEAN : DeleteSourceData(h, sem, con)

Spec == Init /\ [][Next]_vars

-----------------------------------------------------------------------------
(* Properties.                                                             *)

\* Every row has the shape the code deserializes.
TypeOK ==
  /\ store \in Store
  /\ drafts \in [Id -> Draft \cup {None}]
  /\ used \subseteq Id

\* A record not yet downgraded agrees with everything it was confirmed against:
\* no write path leaves stale evidence behind that a later write could make
\* current again (knowledge.rs:1, "All mutation paths share database triggers").
DowngradesAreDurable ==
  \A o \in Object :
    store.confirmations[o] # None /\ ~ store.confirmations[o].invalid
      => LocallyValid(store, o)

\* Retention never deletes the snapshot a live confirmation was made against.
EvidenceRetained ==
  \A o \in Object :
    store.confirmations[o] # None /\ ~ store.confirmations[o].invalid
      => \E x \in store.snapshots : x.id = store.confirmations[o].snapshot

\* The id of the record of o, if it has one.
RecordId(s, o) == IF s.confirmations[o] = None THEN None ELSE s.confirmations[o].id

\* Once lost, a confirmation is lost for good: whatever structure, connection,
\* relationship, note or text comes back, an object becomes confirmed only
\* with a record of an id it did not have.
NoRevivalStep ==
  \A o \in Confirmed(store)' \ Confirmed(store) :
    RecordId(store', o) # RecordId(store, o)
NoRevival == [][NoRevivalStep]_vars

\* A confirmation that was accepted is in force when its transaction commits:
\* writing it does not pull down one of the notes it rests on.
AcceptedIsInForceStep ==
  \A o \in Object :
    store'.confirmations[o] # None /\ RecordId(store', o) # RecordId(store, o)
      => o \in Confirmed(store)'
AcceptedIsInForce == [][AcceptedIsInForceStep]_vars

\* The evidence of o is the same before and after a step.
EvidenceKept(o) ==
  /\ RecordId(store', o) = RecordId(store, o)
  /\ store'.annotations[o] # None
  /\ store'.annotations[o].text = store.annotations[o].text
  /\ store'.identity = store.identity
  /\ Available(store, o)'
  /\ StructureMatches(store', store.confirmations[o].basis)

\* Unrelated changes stay unrelated (knowledge.rs:25): what rests on evidence
\* that did not change, directly or through notes, stays confirmed.
UnrelatedStayConfirmedStep ==
  \A S \in SUBSET Confirmed(store) :
    /\ \A o \in S : EvidenceKept(o) /\ Supports(store, o) \subseteq S
    => S \subseteq Confirmed(store)'
UnrelatedStayConfirmed == [][UnrelatedStayConfirmedStep]_vars

=============================================================================

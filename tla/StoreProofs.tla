---------------------------- MODULE StoreProofs ----------------------------
(***************************************************************************)
(* Proofs about what the store keeps, for every value of the constants.    *)
(*                                                                         *)
(* First about Knowledge: a confirmation whose evidence changed is         *)
(* downgraded for good, what is in force is supported, and what a change   *)
(* does not touch stays confirmed.                                         *)
(*                                                                         *)
(* Then about ChangeReview, which extends it: however captures, imports    *)
(* and writes interleave with the requests of a client, decisions are      *)
(* taken on the evidence that was shown, a completed round has earned it,  *)
(* its baseline is kept, and nothing a review does brings a lost           *)
(* confirmation back.                                                      *)
(***************************************************************************)
EXTENDS ChangeReview, TLAPS, WellFoundedInduction

-----------------------------------------------------------------------------
(* The shape of a store.                                                   *)

\* The snapshots are dated by past clock values and one is the latest.
Dated(s) ==
  /\ \A x \in s.snapshots : x.id <= s.clock
  /\ s.snapshots # {} => \E x \in s.snapshots : \A y \in s.snapshots : y.id <= x.id

\* A confirmation never outlives its annotation (trigger annotation_removed).
Annotated(s) ==
  \A o \in Object : s.confirmations[o] # None => s.annotations[o] # None

WellFormed(s) == s \in Store /\ Dated(s) /\ Annotated(s)

\* Every record still unmarked is valid; its snapshot is still stored.
Live(s, o) == s.confirmations[o] # None /\ ~ s.confirmations[o].invalid
Downgraded(s) == \A o \in Object : Live(s, o) => LocallyValid(s, o)
Retained(s) ==
  \A o \in Object : Live(s, o) =>
    \E x \in s.snapshots : x.id = s.confirmations[o].snapshot

\* t holds no record that s does not, and revalidates none.
Follows(s, t) ==
  \A o \in Object : t.confirmations[o] # None =>
    /\ s.confirmations[o] # None
    /\ t.confirmations[o].id = s.confirmations[o].id
    /\ t.confirmations[o].text = s.confirmations[o].text
    /\ t.confirmations[o].snapshot = s.confirmations[o].snapshot
    /\ t.confirmations[o].basis = s.confirmations[o].basis
    /\ s.confirmations[o].invalid => t.confirmations[o].invalid

\* s and t hold the same evidence.
SameEvidence(s, t) ==
  /\ t.snapshots = s.snapshots
  /\ t.identity = s.identity
  /\ t.relations = s.relations

-----------------------------------------------------------------------------
(* Marking and settling.                                                   *)

LEMMA RecordsReplaced ==
  ASSUME NEW s \in Store, NEW f \in [Object -> KnowledgeConfirmation \cup {None}]
  PROVE  [s EXCEPT !.confirmations = f] \in Store
BY DEF Store

\* Marking touches nothing but the flags of the marked records.
LEMMA MarkFacts ==
  ASSUME NEW s \in Store, NEW S
  PROVE  /\ Mark(s, S) \in Store
         /\ Mark(s, S).baseline = s.baseline
         /\ Mark(s, S).annotations = s.annotations
         /\ Mark(s, S).clock = s.clock
         /\ SameEvidence(s, Mark(s, S))
         /\ \A o \in Object :
              /\ (Mark(s, S).confirmations[o] = None) <=> (s.confirmations[o] = None)
              /\ o \notin S => Mark(s, S).confirmations[o] = s.confirmations[o]
              /\ s.confirmations[o] # None =>
                   Mark(s, S).confirmations[o].invalid
                     = (o \in S \/ s.confirmations[o].invalid)
         /\ Follows(s, Mark(s, S))
<1> DEFINE t == Mark(s, S)
           c(o) == IF o \in S /\ s.confirmations[o] # None
                     THEN [s.confirmations[o] EXCEPT !.invalid = TRUE]
                     ELSE s.confirmations[o]
<1>1. t = [s EXCEPT !.confirmations = [o \in Object |-> c(o)]]
  BY DEF Mark
<1>2. /\ t.confirmations = [o \in Object |-> c(o)]
      /\ t.snapshots = s.snapshots
      /\ t.baseline = s.baseline
      /\ t.identity = s.identity
      /\ t.relations = s.relations
      /\ t.annotations = s.annotations
      /\ t.clock = s.clock
  BY <1>1 DEF Store
<1>3. ASSUME NEW o \in Object, s.confirmations[o] # None
      PROVE  s.confirmations[o] \in KnowledgeConfirmation
  BY <1>3 DEF Store
<1>4. ASSUME NEW o \in Object, o \in S, s.confirmations[o] # None
      PROVE  /\ c(o) \in KnowledgeConfirmation
             /\ c(o).id = s.confirmations[o].id
             /\ c(o).text = s.confirmations[o].text
             /\ c(o).snapshot = s.confirmations[o].snapshot
             /\ c(o).basis = s.confirmations[o].basis
             /\ c(o).invalid = TRUE
  BY <1>3, <1>4 DEF KnowledgeConfirmation
<1>5. \A o \in Object : c(o) \in KnowledgeConfirmation \cup {None}
  BY <1>3, <1>4
<1>6. t \in Store
  <2>1. t.confirmations \in [Object -> KnowledgeConfirmation \cup {None}]
    BY <1>2, <1>5
  <2>2. t = [s EXCEPT !.confirmations = t.confirmations]
    BY <1>1, <1>2
  <2> HIDE DEF t
  <2>3. QED
    BY <2>1, <2>2, RecordsReplaced
<1>7. \A o \in Object :
        /\ (t.confirmations[o] = None) <=> (s.confirmations[o] = None)
        /\ o \notin S => t.confirmations[o] = s.confirmations[o]
        /\ s.confirmations[o] # None =>
             t.confirmations[o].invalid = (o \in S \/ s.confirmations[o].invalid)
  <2> SUFFICES ASSUME NEW o \in Object
               PROVE  /\ (t.confirmations[o] = None) <=> (s.confirmations[o] = None)
                      /\ o \notin S => t.confirmations[o] = s.confirmations[o]
                      /\ s.confirmations[o] # None =>
                           t.confirmations[o].invalid
                             = (o \in S \/ s.confirmations[o].invalid)
    OBVIOUS
  <2>1. t.confirmations[o] = c(o)
    BY <1>2
  <2>2. CASE o \in S /\ s.confirmations[o] # None
    BY <2>1, <2>2, <1>4, NoneAssumption
  <2>3. CASE ~ (o \in S /\ s.confirmations[o] # None)
    <3>1. c(o) = s.confirmations[o]
      BY <2>3
    <3>2. s.confirmations[o] # None => s.confirmations[o].invalid \in BOOLEAN
      BY <1>3 DEF KnowledgeConfirmation
    <3>3. QED
      BY <2>1, <2>3, <3>1, <3>2
  <2>4. QED
    BY <2>2, <2>3
<1>8. Follows(s, t)
  BY <1>2, <1>4, <1>7 DEF Follows
<1>9. QED
  BY <1>2, <1>6, <1>7, <1>8 DEF SameEvidence

-----------------------------------------------------------------------------
(* The confirmed objects are the largest self-supporting set.              *)

LEMMA ConfirmedIsLargest ==
  ASSUME NEW s
  PROVE  /\ Confirmed(s) \subseteq Object
         /\ SelfSupporting(s, Confirmed(s))
         /\ \A S \in SUBSET Object : SelfSupporting(s, S) => S \subseteq Confirmed(s)
<1>1. Confirmed(s) \subseteq Object
  BY DEF Confirmed
<1>2. ASSUME NEW o \in Confirmed(s)
      PROVE  /\ LocallyValid(s, o)
             /\ NotesMatch(s, s.confirmations[o].basis.notes, Confirmed(s))
  <2>1. PICK S \in SUBSET Object : SelfSupporting(s, S) /\ o \in S
    BY DEF Confirmed
  <2>2. S \subseteq Confirmed(s)
    BY <2>1 DEF Confirmed
  <2>3. QED
    BY <2>1, <2>2 DEF SelfSupporting, NotesMatch
<1>3. QED
  BY <1>1, <1>2 DEF SelfSupporting, Confirmed

\* What is self-supporting later was so before, unless a record came in between:
\* evidence that returns revives nothing.
LEMMA NothingRevived ==
  ASSUME NEW s, NEW t, NEW S \in SUBSET Object,
         Downgraded(s), SelfSupporting(t, S),
         \A o \in S : /\ s.confirmations[o] # None
                      /\ t.confirmations[o].id = s.confirmations[o].id
                      /\ t.confirmations[o].text = s.confirmations[o].text
                      /\ t.confirmations[o].basis = s.confirmations[o].basis
                      /\ s.confirmations[o].invalid => t.confirmations[o].invalid
  PROVE  SelfSupporting(s, S)
<1> SUFFICES ASSUME NEW o \in S
             PROVE  /\ LocallyValid(s, o)
                    /\ NotesMatch(s, s.confirmations[o].basis.notes, S)
  BY DEF SelfSupporting
<1>1. LocallyValid(t, o) /\ NotesMatch(t, t.confirmations[o].basis.notes, S)
  BY DEF SelfSupporting
<1>2. LocallyValid(s, o)
  BY <1>1 DEF LocallyValid, Downgraded, Live
<1>3. NotesMatch(s, s.confirmations[o].basis.notes, S)
  BY <1>1 DEF NotesMatch
<1>4. QED
  BY <1>2, <1>3

\* The same for a transaction that issues no record at all.
LEMMA NoRecordNoRevival ==
  ASSUME NEW s, NEW t, Downgraded(s), Follows(s, t)
  PROVE  Confirmed(t) \subseteq Confirmed(s)
<1>1. SelfSupporting(t, Confirmed(t)) /\ Confirmed(t) \in SUBSET Object
  BY ConfirmedIsLargest
<1>2. \A o \in Confirmed(t) : t.confirmations[o] # None
  BY <1>1 DEF SelfSupporting, LocallyValid
<1>3. \A o \in Confirmed(t) :
         /\ s.confirmations[o] # None
         /\ t.confirmations[o].id = s.confirmations[o].id
         /\ t.confirmations[o].text = s.confirmations[o].text
         /\ t.confirmations[o].basis = s.confirmations[o].basis
         /\ s.confirmations[o].invalid => t.confirmations[o].invalid
  BY <1>1, <1>2 DEF Follows
<1>4. SelfSupporting(s, Confirmed(t))
  BY <1>1, <1>3, NothingRevived
<1>5. QED
  BY <1>1, <1>4, ConfirmedIsLargest

LEMMA FollowsTransitive ==
  ASSUME NEW s, NEW t, NEW u, Follows(s, t), Follows(t, u)
  PROVE  Follows(s, u)
BY DEF Follows

\* Validity of an unmarked record depends on the evidence and the text only.
LEMMA SameEvidenceSameValidity ==
  ASSUME NEW s, NEW t, NEW o, SameEvidence(s, t), LocallyValid(s, o),
         t.annotations[o] # None, t.annotations[o].text = s.annotations[o].text,
         t.confirmations[o] # None, ~ t.confirmations[o].invalid,
         t.confirmations[o].text = s.confirmations[o].text,
         t.confirmations[o].basis = s.confirmations[o].basis
  PROVE  LocallyValid(t, o)
<1>1. Available(t, o)
  BY DEF SameEvidence, LocallyValid, Available, Latest
<1>2. StructureMatches(t, t.confirmations[o].basis)
  BY DEF SameEvidence, LocallyValid, StructureMatches, Latest
<1>3. QED
  BY <1>1, <1>2 DEF SameEvidence, LocallyValid

\* states_in leaves no stale record unmarked.
LEMMA SettledFacts ==
  ASSUME NEW s, WellFormed(s)
  PROVE  /\ WellFormed(Settled(s))
         /\ Follows(s, Settled(s))
         /\ SameEvidence(s, Settled(s))
         /\ Settled(s).annotations = s.annotations
         /\ Settled(s).clock = s.clock
         /\ Settled(s).baseline = s.baseline
         /\ Downgraded(Settled(s))
         /\ \A o \in Object : Live(Settled(s), o) => o \in Confirmed(s)
<1> DEFINE S == {o \in Object : s.annotations[o] # None} \ Confirmed(s)
           t == Mark(s, S)
<1>1. Settled(s) = t
  BY DEF Settled
<1>2. s \in Store
  BY DEF WellFormed
<1>3. /\ t \in Store
      /\ t.baseline = s.baseline
      /\ t.annotations = s.annotations
      /\ t.clock = s.clock
      /\ SameEvidence(s, t)
      /\ \A o \in Object :
           /\ (t.confirmations[o] = None) <=> (s.confirmations[o] = None)
           /\ o \notin S => t.confirmations[o] = s.confirmations[o]
           /\ s.confirmations[o] # None =>
                t.confirmations[o].invalid = (o \in S \/ s.confirmations[o].invalid)
      /\ Follows(s, t)
  BY <1>2, MarkFacts
<1> HIDE DEF t
<1>4. WellFormed(t)
  BY <1>3 DEF WellFormed, Dated, Annotated, SameEvidence
<1>5. ASSUME NEW o \in Object, Live(t, o)
      PROVE  o \in Confirmed(s) /\ LocallyValid(t, o)
  <2>1. s.confirmations[o] # None /\ s.annotations[o] # None
    BY <1>3, <1>5 DEF Live, WellFormed, Annotated
  <2>2. o \notin S
    BY <1>3, <1>5, <2>1 DEF Live
  <2>3. o \in Confirmed(s)
    BY <2>1, <2>2
  <2>4. LocallyValid(s, o)
    BY <2>3, ConfirmedIsLargest DEF SelfSupporting
  <2>5. t.confirmations[o] = s.confirmations[o]
    BY <1>3, <2>2
  <2>6. LocallyValid(t, o)
    BY <1>3, <1>5, <2>1, <2>4, <2>5, SameEvidenceSameValidity DEF Live
  <2>7. QED
    BY <2>3, <2>6
<1>6. QED
  BY <1>1, <1>3, <1>4, <1>5 DEF Downgraded

-----------------------------------------------------------------------------
(* Each write of a transaction keeps the store well formed.                *)

LEMMA TickFacts ==
  ASSUME NEW s, WellFormed(s)
  PROVE  /\ WellFormed(Tick(s))
         /\ Follows(s, Tick(s))
         /\ SameEvidence(s, Tick(s))
         /\ Tick(s).confirmations = s.confirmations
         /\ Tick(s).annotations = s.annotations
         /\ Tick(s).clock = s.clock + 1
         /\ Tick(s).baseline = s.baseline
<1>1. s \in Store
  BY DEF WellFormed
<1>2. /\ Tick(s) \in Store
      /\ Tick(s).snapshots = s.snapshots
      /\ Tick(s).identity = s.identity
      /\ Tick(s).relations = s.relations
      /\ Tick(s).confirmations = s.confirmations
      /\ Tick(s).annotations = s.annotations
      /\ Tick(s).clock = s.clock + 1
      /\ Tick(s).baseline = s.baseline
  BY <1>1 DEF Tick, Store
<1>3. s.clock \in Nat /\ \A x \in s.snapshots : x.id \in Nat
  BY <1>1 DEF Store, Snapshot
<1>4. Dated(Tick(s))
  BY <1>2, <1>3 DEF Dated, WellFormed
<1>5. QED
  BY <1>2, <1>4 DEF WellFormed, Annotated, Follows, SameEvidence

LEMMA LatestIsStored ==
  ASSUME NEW s, Dated(s), s.snapshots # {}
  PROVE  Latest(s) \in s.snapshots /\ \A y \in s.snapshots : y.id <= Latest(s).id
BY DEF Dated, Latest

\* A new version of a description: its record is marked unless the text is kept.
LEMMA WriteAnnotationFacts ==
  ASSUME NEW s, WellFormed(s), NEW o \in Object, NEW a \in Annotation
  PROVE  /\ WellFormed(WriteAnnotation(s, o, a))
         /\ Follows(s, WriteAnnotation(s, o, a))
         /\ SameEvidence(s, WriteAnnotation(s, o, a))
         /\ WriteAnnotation(s, o, a).clock = s.clock
         /\ WriteAnnotation(s, o, a).annotations = [s.annotations EXCEPT ![o] = a]
         /\ \A p \in Object \ {o} :
              WriteAnnotation(s, o, a).confirmations[p] = s.confirmations[p]
         /\ Downgraded(s) => Downgraded(WriteAnnotation(s, o, a))
         /\ Retained(s) => Retained(WriteAnnotation(s, o, a))
<1> DEFINE m == [s EXCEPT !.annotations[o] = a]
           S == IF s.annotations[o] # None /\ s.annotations[o].text # a.text
                  THEN {o} ELSE {}
           t == Mark(m, S)
<1>1. WriteAnnotation(s, o, a) = t
  BY DEF WriteAnnotation
<1>2. s \in Store
  BY DEF WellFormed
<1>3. /\ m \in Store
      /\ m.snapshots = s.snapshots
      /\ m.identity = s.identity
      /\ m.relations = s.relations
      /\ m.confirmations = s.confirmations
      /\ m.annotations = [s.annotations EXCEPT ![o] = a]
      /\ m.clock = s.clock
      /\ m.baseline = s.baseline
  BY <1>2 DEF Store
<1> HIDE DEF m
<1>4. /\ t \in Store
      /\ t.annotations = m.annotations
      /\ t.clock = m.clock
      /\ SameEvidence(m, t)
      /\ \A p \in Object :
           /\ (t.confirmations[p] = None) <=> (m.confirmations[p] = None)
           /\ p \notin S => t.confirmations[p] = m.confirmations[p]
           /\ m.confirmations[p] # None =>
                t.confirmations[p].invalid = (p \in S \/ m.confirmations[p].invalid)
      /\ Follows(m, t)
  BY <1>3, MarkFacts
<1> HIDE DEF t
<1>5. SameEvidence(s, t) /\ Follows(s, t)
  BY <1>3, <1>4 DEF SameEvidence, Follows
<1>6. \A p \in Object : t.annotations[p] = IF p = o THEN a ELSE s.annotations[p]
  BY <1>2, <1>3, <1>4 DEF Store
<1>7. a # None
  BY NoneAssumption
<1>8. WellFormed(t)
  BY <1>3, <1>4, <1>5, <1>6, <1>7 DEF WellFormed, Dated, Annotated, SameEvidence
<1>9. \A p \in Object \ {o} : t.confirmations[p] = s.confirmations[p]
  BY <1>3, <1>4
<1>10. ASSUME Downgraded(s), NEW p \in Object, Live(t, p)
       PROVE  LocallyValid(t, p)
  <2>1. p \notin S /\ t.confirmations[p] = s.confirmations[p] /\ Live(s, p)
    BY <1>3, <1>4, <1>10 DEF Live
  <2>2. LocallyValid(s, p)
    BY <1>10, <2>1 DEF Downgraded
  <2>3. t.annotations[p] # None /\ t.annotations[p].text = s.annotations[p].text
    BY <1>6, <1>7, <2>1, <2>2 DEF LocallyValid
  <2>4. QED
    BY <1>5, <2>1, <2>2, <2>3, SameEvidenceSameValidity DEF Live
<1>11. Retained(s) => Retained(t)
  BY <1>3, <1>4, <1>5 DEF Retained, Live, Follows, SameEvidence
<1>12. QED
  BY <1>1, <1>3, <1>4, <1>5, <1>8, <1>9, <1>10, <1>11 DEF Downgraded

\* A relationship change marks every record that relies on the old meaning.
LEMMA WriteRelationFacts ==
  ASSUME NEW s, WellFormed(s), NEW r \in Relation, NEW v \in Relationship \cup {None}
  PROVE  /\ WellFormed(WriteRelation(s, r, v))
         /\ Follows(s, WriteRelation(s, r, v))
         /\ Downgraded(s) => Downgraded(WriteRelation(s, r, v))
         /\ Retained(s) => Retained(WriteRelation(s, r, v))
<1> DEFINE m == [s EXCEPT !.relations[r] = v]
           changed == /\ s.relations[r] # None
                      /\ v = None \/ RelationshipDigest(v) # RelationshipDigest(s.relations[r])
           S == IF changed THEN Relying(s, r) ELSE {}
           t == Mark(m, S)
<1>1. WriteRelation(s, r, v) = t
  BY DEF WriteRelation
<1>2. s \in Store
  BY DEF WellFormed
<1>3. /\ m \in Store
      /\ m.snapshots = s.snapshots
      /\ m.identity = s.identity
      /\ m.relations = [s.relations EXCEPT ![r] = v]
      /\ m.confirmations = s.confirmations
      /\ m.annotations = s.annotations
      /\ m.clock = s.clock
  BY <1>2 DEF Store
<1> HIDE DEF m
<1>4. /\ t \in Store
      /\ t.annotations = m.annotations
      /\ t.clock = m.clock
      /\ SameEvidence(m, t)
      /\ \A p \in Object :
           /\ (t.confirmations[p] = None) <=> (m.confirmations[p] = None)
           /\ p \notin S => t.confirmations[p] = m.confirmations[p]
           /\ m.confirmations[p] # None =>
                t.confirmations[p].invalid = (p \in S \/ m.confirmations[p].invalid)
      /\ Follows(m, t)
  BY <1>3, MarkFacts
<1> HIDE DEF t
<1>5. /\ t.snapshots = s.snapshots
      /\ t.identity = s.identity
      /\ t.annotations = s.annotations
      /\ \A q \in Relation : t.relations[q] = IF q = r THEN v ELSE s.relations[q]
      /\ Follows(s, t)
  BY <1>2, <1>3, <1>4 DEF SameEvidence, Follows, Store
<1>6. WellFormed(t)
  BY <1>3, <1>4, <1>5 DEF WellFormed, Dated, Annotated
<1>7. ASSUME Downgraded(s), NEW p \in Object, Live(t, p)
      PROVE  LocallyValid(t, p)
  <2>1. p \notin S /\ t.confirmations[p] = s.confirmations[p] /\ Live(s, p)
    BY <1>3, <1>4, <1>7 DEF Live
  <2>2. LocallyValid(s, p)
    BY <1>7, <2>1 DEF Downgraded
  <2>3. ASSUME NEW e \in s.confirmations[p].basis.relations
        PROVE  t.relations[e[1]] # None /\ RelationshipDigest(t.relations[e[1]]) = e[2]
    <3>1. e[1] \in Relation
      BY <1>2, <2>1 DEF Live, Store, KnowledgeConfirmation, KnowledgeBasis
    <3>2. /\ s.relations[e[1]] # None
          /\ RelationshipDigest(s.relations[e[1]]) = e[2]
      BY <2>2 DEF LocallyValid, StructureMatches
    <3>3. CASE e[1] # r
      BY <1>5, <3>1, <3>2, <3>3
    <3>4. CASE e[1] = r
      <4>1. p \in Relying(s, r)
        BY <2>1, <3>4 DEF Relying, Live
      <4>2. ~ changed
        BY <2>1, <4>1
      <4>3. v # None /\ RelationshipDigest(v) = RelationshipDigest(s.relations[r])
        BY <4>2, <3>2, <3>4
      <4>4. QED
        BY <1>5, <3>1, <3>2, <3>4, <4>3
    <3>5. QED
      BY <3>3, <3>4
  <2>4. StructureMatches(t, t.confirmations[p].basis)
    BY <1>5, <2>1, <2>2, <2>3 DEF StructureMatches, LocallyValid, Latest
  <2>5. Available(t, p)
    BY <1>5, <2>2 DEF Available, LocallyValid, Latest
  <2>6. QED
    BY <1>5, <1>7, <2>1, <2>2, <2>4, <2>5 DEF LocallyValid, Live
<1>8. Retained(s) => Retained(t)
  BY <1>3, <1>4, <1>5 DEF Retained, Live, Follows
<1>9. QED
  BY <1>1, <1>5, <1>6, <1>7, <1>8 DEF Downgraded

\* A new snapshot is the latest one.
LEMMA AddSnapshotFacts ==
  ASSUME NEW s, WellFormed(s), NEW c \in Catalog
  PROVE  /\ WellFormed(AddSnapshot(s, c))
         /\ Follows(s, AddSnapshot(s, c))
         /\ AddSnapshot(s, c).snapshots # {}
         /\ s.snapshots \subseteq AddSnapshot(s, c).snapshots
         /\ AddSnapshot(s, c).confirmations = s.confirmations
<1> DEFINE t == AddSnapshot(s, c)
           new == [id |-> s.clock, structure |-> c]
<1>1. s \in Store
  BY DEF WellFormed
<1>2. new \in Snapshot /\ new.id = s.clock /\ s.clock \in Nat
  BY <1>1 DEF Snapshot, Store
<1> HIDE DEF new
<1>3. t = [s EXCEPT !.snapshots = @ \cup {new}]
  BY DEF AddSnapshot, new
<1>4. /\ t \in Store
      /\ t.snapshots = s.snapshots \cup {new}
      /\ t.confirmations = s.confirmations
      /\ t.annotations = s.annotations
      /\ t.clock = s.clock
  BY <1>1, <1>2, <1>3 DEF Store
<1> HIDE DEF t
<1>5. \A y \in t.snapshots : y.id <= new.id
  BY <1>2, <1>4 DEF WellFormed, Dated
<1>6. Dated(t)
  BY <1>2, <1>4, <1>5 DEF Dated
<1>7. WellFormed(t) /\ Follows(s, t) /\ t.snapshots # {} /\ s.snapshots \subseteq t.snapshots
  BY <1>4, <1>6 DEF WellFormed, Annotated, Follows
<1>8. QED
  BY <1>4, <1>7 DEF t

\* Pruning keeps the latest snapshot and the cited ones.
LEMMA PrunedFacts ==
  ASSUME NEW s, WellFormed(s), NEW keep
  PROVE  /\ WellFormed(Pruned(s, keep))
         /\ Follows(s, Pruned(s, keep))
         /\ Retained(s) => Retained(Pruned(s, keep))
<1>1. CASE s.snapshots = {}
  BY <1>1 DEF Pruned, Follows
<1>2. CASE s.snapshots # {}
  <2> DEFINE kept == {x \in s.snapshots : x.id \in keep \cup Protected(s)}
             t == Pruned(s, keep)
  <2>1. s \in Store
    BY DEF WellFormed
  <2>2. t = [s EXCEPT !.snapshots = kept]
    BY <1>2 DEF Pruned
  <2>3. /\ t \in Store
        /\ t.snapshots = kept
        /\ t.confirmations = s.confirmations
        /\ t.annotations = s.annotations
        /\ t.clock = s.clock
    BY <2>1, <2>2 DEF Store
  <2> HIDE DEF t
  <2>4. Latest(s) \in kept /\ \A y \in kept : y.id <= Latest(s).id
    BY <1>2, LatestIsStored DEF WellFormed, Protected
  <2>5. WellFormed(t)
    BY <2>3, <2>4 DEF WellFormed, Dated, Annotated
  <2>6. Follows(s, t)
    BY <2>3 DEF Follows
  <2>7. ASSUME Retained(s), NEW o \in Object, Live(t, o)
        PROVE  \E x \in t.snapshots : x.id = t.confirmations[o].snapshot
    <3>1. Live(s, o)
      BY <2>3, <2>7 DEF Live
    <3>2. PICK x \in s.snapshots : x.id = s.confirmations[o].snapshot
      BY <2>7, <3>1 DEF Retained
    <3>3. x.id \in Protected(s)
      BY <3>1, <3>2 DEF Protected, Cited, Live
    <3>4. QED
      BY <2>3, <3>2, <3>3
  <2>8. QED
    BY <2>5, <2>6, <2>7 DEF t, Retained
<1>3. QED
  BY <1>1, <1>2

LEMMA ErasedFacts ==
  ASSUME NEW s, WellFormed(s), NEW h \in BOOLEAN, NEW m \in BOOLEAN, NEW c \in BOOLEAN
  PROVE  /\ WellFormed(Erased(s, h, m, c))
         /\ Follows(s, Erased(s, h, m, c))
         /\ Erased(s, h, m, c).snapshots = IF h THEN {} ELSE s.snapshots
<1> DEFINE t == Erased(s, h, m, c)
<1>1. s \in Store
  BY DEF WellFormed
<1>2. /\ t \in Store
      /\ t.snapshots = IF h THEN {} ELSE s.snapshots
      /\ t.annotations = IF m THEN [o \in Object |-> None] ELSE s.annotations
      /\ t.confirmations = IF m THEN [o \in Object |-> None] ELSE s.confirmations
      /\ t.clock = s.clock
  BY <1>1, ValueAssumption DEF Erased, Store
<1> HIDE DEF t
<1>3. WellFormed(t) /\ Follows(s, t)
  BY <1>2 DEF WellFormed, Dated, Annotated, Follows
<1>4. QED
  BY <1>2, <1>3 DEF t

\* Settling also drops what lost its snapshot together with all the others.
LEMMA SettledRetained ==
  ASSUME NEW s, WellFormed(s), s.snapshots # {} => Retained(s)
  PROVE  Retained(Settled(s))
<1> SUFFICES ASSUME NEW o \in Object, Live(Settled(s), o)
             PROVE  \E x \in Settled(s).snapshots :
                      x.id = Settled(s).confirmations[o].snapshot
  BY DEF Retained
<1>1. o \in Confirmed(s)
  BY SettledFacts
<1>2. LocallyValid(s, o)
  BY <1>1, ConfirmedIsLargest DEF SelfSupporting
<1>3. s.snapshots # {} /\ Live(s, o)
  BY <1>2 DEF LocallyValid, Available, Live
<1>4. \E x \in s.snapshots : x.id = s.confirmations[o].snapshot
  BY <1>3 DEF Retained
<1>5. /\ Settled(s).snapshots = s.snapshots
      /\ Settled(s).confirmations[o].snapshot = s.confirmations[o].snapshot
  BY SettledFacts DEF SameEvidence, Follows, Live
<1>6. QED
  BY <1>4, <1>5

\* An import marks like the writes it is made of; settling does the rest.
LEMMA ImportedFacts ==
  ASSUME NEW s, WellFormed(s), NEW b \in Bundle
  PROVE  /\ WellFormed(Imported(s, b))
         /\ Follows(s, Imported(s, b))
         /\ Retained(s) => Retained(Imported(s, b))
         /\ \A o \in Object :
              b.annotations[o] # None => Imported(s, b).annotations[o] = b.annotations[o]
         /\ \A r \in Relation :
              b.relations[r] # None => Imported(s, b).relations[r] = b.relations[r]
         /\ \A o \in Object :
              \/ Imported(s, b).confirmations[o] = s.confirmations[o]
              \/ /\ b.annotations[o] # None /\ s.annotations[o] # None
                 /\ s.annotations[o].text # b.annotations[o].text
              \/ \E r \in Relation :
                   /\ b.relations[r] # None /\ s.relations[r] # None /\ o \in Relying(s, r)
                   /\ RelationshipDigest(s.relations[r]) # RelationshipDigest(b.relations[r])
<1> DEFINE bound == [s EXCEPT !.identity =
                       IF b.profile /\ (FileBased \/ @ = NoProfile) THEN Unbound ELSE @]
           dated == IF b.structure = None THEN bound
                    ELSE AddSnapshot(Tick(bound), b.structure)
           texts == {o \in Object : b.annotations[o] # None}
           links == {r \in Relation : b.relations[r] # None}
           A == [o \in Object |-> IF o \in texts THEN b.annotations[o] ELSE s.annotations[o]]
           R == [r \in Relation |-> IF r \in links THEN b.relations[r] ELSE s.relations[r]]
           m == [dated EXCEPT !.annotations = A, !.relations = R]
           S == {o \in texts : /\ s.annotations[o] # None
                               /\ s.annotations[o].text # b.annotations[o].text}
                \cup UNION {Relying(s, r) : r \in
                       {q \in links : /\ s.relations[q] # None
                                      /\ RelationshipDigest(s.relations[q])
                                           # RelationshipDigest(b.relations[q])}}
           t == Mark(m, S)
<1>1. Imported(s, b) = t
  BY DEF Imported
<1>2. /\ s \in Store
      /\ b \in [structure : Catalog \cup {None}, profile : BOOLEAN,
                annotations : [Object -> Annotation \cup {None}],
                relations : [Relation -> Relationship \cup {None}]]
  BY ValueAssumption DEF WellFormed
<1>3. /\ bound \in Store
      /\ bound.snapshots = s.snapshots
      /\ bound.confirmations = s.confirmations
      /\ bound.annotations = s.annotations
      /\ bound.clock = s.clock
  BY <1>2, ValueAssumption DEF Store
<1> HIDE DEF bound
<1>4. WellFormed(bound)
  BY <1>3 DEF WellFormed, Dated, Annotated
<1>5. /\ WellFormed(dated)
      /\ s.snapshots \subseteq dated.snapshots
      /\ dated.confirmations = s.confirmations
  <2>1. CASE b.structure = None
    BY <1>3, <1>4, <2>1
  <2>2. CASE b.structure # None
    <3>1. b.structure \in Catalog
      BY <1>2, <2>2
    <3>2. /\ WellFormed(Tick(bound))
          /\ Tick(bound).snapshots = s.snapshots
          /\ Tick(bound).confirmations = s.confirmations
      BY <1>3, <1>4, TickFacts DEF SameEvidence
    <3>3. QED
      BY <2>2, <3>1, <3>2, AddSnapshotFacts
  <2>3. QED
    BY <2>1, <2>2
<1> HIDE DEF dated
<1>6. A \in [Object -> Annotation \cup {None}] /\ R \in [Relation -> Relationship \cup {None}]
  BY <1>2 DEF Store
<1> HIDE DEF A, R
<1>7. /\ m \in Store
      /\ m.snapshots = dated.snapshots
      /\ m.confirmations = s.confirmations
      /\ m.annotations = A
      /\ m.clock = dated.clock
  BY <1>5, <1>6 DEF WellFormed, Store
<1>8. \A o \in Object : s.confirmations[o] # None => A[o] # None
  BY DEF A, WellFormed, Annotated
<1>14. m.relations = R
  BY <1>5, <1>6 DEF WellFormed, Store
<1>15. /\ \A o \in Object : b.annotations[o] # None => A[o] = b.annotations[o]
       /\ \A r \in Relation : b.relations[r] # None => R[r] = b.relations[r]
  BY DEF A, R
<1>16. \A o \in Object : o \in S =>
         \/ /\ b.annotations[o] # None /\ s.annotations[o] # None
            /\ s.annotations[o].text # b.annotations[o].text
         \/ \E r \in Relation :
              /\ b.relations[r] # None /\ s.relations[r] # None /\ o \in Relying(s, r)
              /\ RelationshipDigest(s.relations[r]) # RelationshipDigest(b.relations[r])
  OBVIOUS
<1> HIDE DEF m, S
<1>9. /\ t \in Store
      /\ t.annotations = m.annotations
      /\ t.clock = m.clock
      /\ SameEvidence(m, t)
      /\ \A p \in Object : (t.confirmations[p] = None) <=> (m.confirmations[p] = None)
      /\ \A p \in Object : p \notin S => t.confirmations[p] = m.confirmations[p]
      /\ Follows(m, t)
  BY <1>7, MarkFacts
<1> HIDE DEF t
<1>10. WellFormed(t)
  BY <1>5, <1>7, <1>8, <1>9 DEF WellFormed, Dated, Annotated, SameEvidence
<1>11. Follows(s, t)
  BY <1>7, <1>9 DEF Follows
<1>12. Retained(s) => Retained(t)
  <2> SUFFICES ASSUME Retained(s), NEW o \in Object, Live(t, o)
               PROVE  \E x \in t.snapshots : x.id = t.confirmations[o].snapshot
    BY DEF Retained
  <2>1. Live(s, o) /\ t.confirmations[o].snapshot = s.confirmations[o].snapshot
    BY <1>11 DEF Follows, Live
  <2>2. s.snapshots \subseteq t.snapshots
    BY <1>5, <1>7, <1>9 DEF SameEvidence
  <2>3. QED
    BY <2>1, <2>2 DEF Retained
<1>17. /\ \A o \in Object : b.annotations[o] # None => t.annotations[o] = b.annotations[o]
       /\ \A r \in Relation : b.relations[r] # None => t.relations[r] = b.relations[r]
  BY <1>7, <1>9, <1>14, <1>15 DEF SameEvidence
<1>18. \A o \in Object :
         \/ t.confirmations[o] = s.confirmations[o]
         \/ /\ b.annotations[o] # None /\ s.annotations[o] # None
            /\ s.annotations[o].text # b.annotations[o].text
         \/ \E r \in Relation :
              /\ b.relations[r] # None /\ s.relations[r] # None /\ o \in Relying(s, r)
              /\ RelationshipDigest(s.relations[r]) # RelationshipDigest(b.relations[r])
  BY <1>7, <1>9, <1>16
<1>13. QED
  BY <1>1, <1>10, <1>11, <1>12, <1>17, <1>18

\* The writes of a confirmation replace one record and one description.
LEMMA WithConfirmationFacts ==
  ASSUME NEW s, WellFormed(s), s.snapshots # {}, NEW o \in Object, NEW id \in Id,
         NEW x \in Text, NEW basis \in KnowledgeBasis
  PROVE  /\ WellFormed(WithConfirmation(s, o, id, x, basis))
         /\ SameEvidence(s, WithConfirmation(s, o, id, x, basis))
         /\ WithConfirmation(s, o, id, x, basis).annotations
              = [s.annotations EXCEPT ![o] = [text |-> x, at |-> s.clock]]
         /\ WithConfirmation(s, o, id, x, basis).confirmations[o]
              = [id |-> id, text |-> x, snapshot |-> Latest(s).id,
                 basis |-> basis, invalid |-> FALSE]
         /\ \A p \in Object \ {o} :
              WithConfirmation(s, o, id, x, basis).confirmations[p] = s.confirmations[p]
         /\ Retained(s) => Retained(WithConfirmation(s, o, id, x, basis))
<1> DEFINE a == [text |-> x, at |-> s.clock]
           w == WriteAnnotation(s, o, a)
           rec == [id |-> id, text |-> x, snapshot |-> Latest(s).id,
                   basis |-> basis, invalid |-> FALSE]
           t == WithConfirmation(s, o, id, x, basis)
<1>1. a \in Annotation
  BY DEF Annotation, WellFormed, Store
<1>2. Latest(s) \in s.snapshots /\ Latest(s).id \in Nat
  BY LatestIsStored DEF WellFormed, Store, Snapshot
<1>3. rec \in KnowledgeConfirmation /\ rec # None /\ rec.snapshot = Latest(s).id
  <2>1. rec \in KnowledgeConfirmation /\ rec.snapshot = Latest(s).id
    BY <1>2 DEF KnowledgeConfirmation
  <2> HIDE DEF rec
  <2>2. QED
    BY <2>1, NoneAssumption
<1>4. /\ WellFormed(w)
      /\ SameEvidence(s, w)
      /\ w.clock = s.clock
      /\ w.annotations = [s.annotations EXCEPT ![o] = a]
      /\ \A p \in Object \ {o} : w.confirmations[p] = s.confirmations[p]
  BY <1>1, WriteAnnotationFacts
<1> HIDE DEF rec, w
<1>5. t = [w EXCEPT !.confirmations[o] = rec]
  BY DEF WithConfirmation, rec, w
<1>6. /\ t \in Store
      /\ t.snapshots = w.snapshots
      /\ t.identity = w.identity
      /\ t.relations = w.relations
      /\ t.annotations = w.annotations
      /\ t.clock = w.clock
      /\ t.confirmations = [w.confirmations EXCEPT ![o] = rec]
  BY <1>3, <1>4, <1>5 DEF WellFormed, Store
<1>7. \A p \in Object : t.confirmations[p] = IF p = o THEN rec ELSE s.confirmations[p]
  BY <1>4, <1>6 DEF WellFormed, Store
<1> HIDE DEF t
<1>8. \A p \in Object : w.annotations[p] = IF p = o THEN a ELSE s.annotations[p]
  BY <1>4 DEF WellFormed, Store
<1>9. a # None
  BY <1>1, NoneAssumption
<1>10. WellFormed(t)
  BY <1>4, <1>6, <1>7, <1>8, <1>9 DEF WellFormed, Dated, Annotated
<1>11. SameEvidence(s, t)
  BY <1>4, <1>6 DEF SameEvidence
<1>12. Retained(s) => Retained(t)
  BY <1>2, <1>3, <1>7, <1>11 DEF Retained, Live, SameEvidence
<1>13. t.confirmations[o] = rec
  BY <1>7
<1>14. \A p \in Object \ {o} : t.confirmations[p] = s.confirmations[p]
  BY <1>7
<1>15. t.annotations = [s.annotations EXCEPT ![o] = a]
  BY <1>4, <1>6
<1>16. QED
  BY <1>10, <1>11, <1>12, <1>13, <1>14, <1>15 DEF t, rec

LEMMA IdentityFacts ==
  ASSUME NEW s, WellFormed(s), NEW i \in Identity
  PROVE  /\ WellFormed([s EXCEPT !.identity = i])
         /\ Follows(s, [s EXCEPT !.identity = i])
         /\ Retained(s) => Retained([s EXCEPT !.identity = i])
<1> DEFINE t == [s EXCEPT !.identity = i]
<1>1. /\ t \in Store
      /\ t.snapshots = s.snapshots
      /\ t.confirmations = s.confirmations
      /\ t.annotations = s.annotations
      /\ t.clock = s.clock
  BY DEF WellFormed, Store
<1> HIDE DEF t
<1>2. WellFormed(t) /\ Follows(s, t) /\ (Retained(s) => Retained(t))
  BY <1>1 DEF WellFormed, Dated, Annotated, Follows, Retained, Live
<1>3. QED
  BY <1>2 DEF t

LEMMA StoredFacts ==
  ASSUME NEW s, WellFormed(s), Retained(s), NEW c \in Catalog, NEW keep
  PROVE  /\ WellFormed(Stored(s, c, keep))
         /\ Follows(s, Stored(s, c, keep))
         /\ Retained(Stored(s, c, keep))
<1>1. CASE s.snapshots # {} /\ Latest(s).structure = c
  BY <1>1 DEF Stored, Follows
<1>2. CASE ~ (s.snapshots # {} /\ Latest(s).structure = c)
  <2> DEFINE u == AddSnapshot(Tick(s), c)
             v == Pruned(u, keep)
  <2>1. /\ WellFormed(Tick(s))
        /\ Follows(s, Tick(s))
        /\ Tick(s).confirmations = s.confirmations
        /\ Tick(s).snapshots = s.snapshots
    BY TickFacts DEF SameEvidence
  <2>2. /\ WellFormed(u)
        /\ Follows(Tick(s), u)
        /\ Tick(s).snapshots \subseteq u.snapshots
        /\ u.confirmations = Tick(s).confirmations
    BY <2>1, AddSnapshotFacts
  <2>3. Retained(u)
    BY <2>1, <2>2 DEF Retained, Live
  <2> HIDE DEF u
  <2>4. WellFormed(v) /\ Follows(u, v) /\ Retained(v)
    BY <2>2, <2>3, PrunedFacts
  <2>5. Follows(s, v)
    BY <2>1, <2>2, <2>4, FollowsTransitive
  <2> HIDE DEF v
  <2>6. WellFormed(Settled(v)) /\ Follows(v, Settled(v)) /\ Retained(Settled(v))
    BY <2>4, SettledFacts, SettledRetained
  <2>7. Follows(s, Settled(v))
    BY <2>5, <2>6, FollowsTransitive
  <2>8. Stored(s, c, keep) = Settled(v)
    BY <1>2 DEF Stored, v, u
  <2>9. QED
    BY <2>6, <2>7, <2>8
<1>3. QED
  BY <1>1, <1>2

\* A confirmation of one object writes no other object's.
LEMMA WithConfirmationLeaves ==
  ASSUME NEW s, WellFormed(s), s.snapshots # {}, NEW o \in Object, NEW id \in Id,
         NEW x \in Text, NEW basis \in KnowledgeBasis, NEW t,
         t = WithConfirmation(s, o, id, x, basis), NEW p \in Object \ {o}
  PROVE  WellFormed(t) /\ t.confirmations[p] = s.confirmations[p]
<1>1. WellFormed(t)
  BY WithConfirmationFacts
<1>2. t.confirmations[p] = s.confirmations[p]
  <2>1. /\ WellFormed(WithConfirmation(s, o, id, x, basis))
        /\ SameEvidence(s, WithConfirmation(s, o, id, x, basis))
        /\ WithConfirmation(s, o, id, x, basis).annotations
             = [s.annotations EXCEPT ![o] = [text |-> x, at |-> s.clock]]
        /\ WithConfirmation(s, o, id, x, basis).confirmations[o]
             = [id |-> id, text |-> x, snapshot |-> Latest(s).id,
                basis |-> basis, invalid |-> FALSE]
        /\ \A q \in Object \ {o} :
             WithConfirmation(s, o, id, x, basis).confirmations[q] = s.confirmations[q]
        /\ Retained(s) => Retained(WithConfirmation(s, o, id, x, basis))
    BY WithConfirmationFacts, Zenon
  <2> QED BY <2>1
<1> QED BY <1>1, <1>2

\* Settling demotes no confirmed object.
LEMMA SettledKeepsConfirmed ==
  ASSUME NEW s, WellFormed(s)
  PROVE  Confirmed(s) \subseteq Confirmed(Settled(s))
<1> DEFINE C == Confirmed(s)
           t == Settled(s)
<1>1. C \in SUBSET Object /\ SelfSupporting(s, C)
  BY ConfirmedIsLargest
<1>2. s \in Store
  BY DEF WellFormed
<1>3. \A o \in C : t.confirmations[o] = s.confirmations[o]
  BY <1>1, <1>2, MarkFacts DEF Settled
<1>4. SameEvidence(s, t) /\ t.annotations = s.annotations
  BY SettledFacts
<1> HIDE DEF t
<1>5. ASSUME NEW o \in C
      PROVE  LocallyValid(t, o) /\ NotesMatch(t, t.confirmations[o].basis.notes, C)
  <2>1. LocallyValid(s, o) /\ NotesMatch(s, s.confirmations[o].basis.notes, C)
    BY <1>1 DEF SelfSupporting
  <2>2. LocallyValid(t, o)
    BY <1>3, <1>4, <2>1, SameEvidenceSameValidity DEF LocallyValid
  <2>3. NotesMatch(t, t.confirmations[o].basis.notes, C)
    BY <1>3, <2>1 DEF NotesMatch
  <2>4. QED
    BY <2>2, <2>3
<1>6. SelfSupporting(t, C)
  BY <1>5 DEF SelfSupporting
<1>7. QED
  BY <1>1, <1>6, ConfirmedIsLargest DEF t

-----------------------------------------------------------------------------
(* The inductive invariant.                                                *)

\* The id of d may still become the id of a record.
Unspent(d) == d \notin used \/ (drafts[d] # None /\ drafts[d].saved = None)
Cites(basis, d) == \E n \in basis.notes : n[2] = d

\* An open draft has used its id.
DraftsUsed == \A d \in Id : drafts[d] # None => d \in used

\* No record, and no note on which a record or draft rests, has such an id.
FreshIds ==
  \A d \in Id : Unspent(d) =>
    /\ \A o \in Object : store.confirmations[o] # None =>
         store.confirmations[o].id # d /\ ~ Cites(store.confirmations[o].basis, d)
    /\ \A e \in Id : drafts[e] # None => ~ Cites(drafts[e].basis, d)

IInv ==
  /\ TypeOK
  /\ WellFormed(store)
  /\ Downgraded(store)
  /\ Retained(store)
  /\ DraftsUsed
  /\ FreshIds

LEMMA InitIInv == Init => IInv
<1> SUFFICES ASSUME Init PROVE IInv
  OBVIOUS
<1> DEFINE s0 == [snapshots     |-> {},
                  baseline      |-> {},
                  identity      |-> NoProfile,
                  relations     |-> [r \in Relation |-> None],
                  annotations   |-> [o \in Object |-> None],
                  confirmations |-> [o \in Object |-> None],
                  clock         |-> 0]
<1>1. store = s0 /\ drafts = [d \in Id |-> None] /\ used = {}
  BY DEF Init
<1>2. s0 \in Store
  BY ValueAssumption DEF Store
<1>3. TypeOK
  BY <1>1, <1>2 DEF TypeOK
<1>4. /\ store.snapshots = {}
      /\ \A o \in Object : store.confirmations[o] = None
  BY <1>1
<1>5. WellFormed(store) /\ Downgraded(store) /\ Retained(store)
  BY <1>1, <1>2, <1>4 DEF WellFormed, Dated, Annotated, Downgraded, Retained, Live
<1>6. FreshIds
  BY <1>1, <1>4 DEF FreshIds
<1>7. DraftsUsed
  BY <1>1 DEF DraftsUsed
<1>8. QED
  BY <1>3, <1>5, <1>6, <1>7 DEF IInv

\* Any transaction that issues no record and leaves no stale one unmarked.
LEMMA QuietStep ==
  ASSUME IInv, UNCHANGED <<drafts, used>>, WellFormed(store'), Follows(store, store'),
         Downgraded(store'), Retained(store')
  PROVE  IInv' /\ NoRevivalStep /\ AcceptedIsInForceStep
<1>1. TypeOK'
  BY DEF IInv, TypeOK, WellFormed
<1>2. FreshIds'
  BY DEF IInv, FreshIds, Unspent, Cites, Follows
<1>3. Confirmed(store)' \subseteq Confirmed(store)
  BY NoRecordNoRevival DEF IInv
<1>4. NoRevivalStep
  BY <1>3 DEF NoRevivalStep
<1>5. AcceptedIsInForceStep
  BY DEF AcceptedIsInForceStep, RecordId, Follows
<1>6. DraftsUsed'
  BY DEF IInv, DraftsUsed
<1>7. QED
  BY <1>1, <1>2, <1>4, <1>5, <1>6 DEF IInv

-----------------------------------------------------------------------------
(* Drafts and confirmations.                                               *)

LEMMA BasisFromFacts ==
  ASSUME NEW s, WellFormed(s), s.snapshots # {}, NEW tables \in SUBSET Table,
         NEW notes \in SUBSET Confirmed(s)
  PROVE  /\ BasisFrom(s, tables, notes) \in KnowledgeBasis
         /\ \A d : Cites(BasisFrom(s, tables, notes), d) =>
              \E o \in Object : s.confirmations[o] # None /\ s.confirmations[o].id = d
<1> DEFINE b == BasisFrom(s, tables, notes)
<1>1. s \in Store /\ Latest(s) \in s.snapshots
  BY LatestIsStored DEF WellFormed
<1>2. Latest(s).structure \in [Table -> Definition \cup {Absent}]
  BY <1>1, StructureAssumption DEF Store, Snapshot
<1>3. \A o \in notes : /\ o \in Object
                       /\ s.confirmations[o] # None
                       /\ s.confirmations[o] \in KnowledgeConfirmation
  BY <1>1, ConfirmedIsLargest DEF SelfSupporting, LocallyValid, Store
<1>4. s.identity \in Identity
  BY <1>1 DEF Store
<1>5. \A t \in tables : Latest(s).structure[t] # Absent =>
        <<t, Latest(s).structure[t]>> \in Table \X Definition
  BY <1>2
<1>6. \A r \in Relation : s.relations[r] # None =>
        <<r, RelationshipDigest(s.relations[r])>>
          \in Relation \X (Meaning \X RelationshipStatus)
  BY <1>1 DEF Store, Relationship, RelationshipDigest
<1>7. \A o \in notes :
        <<o, s.confirmations[o].id, s.confirmations[o].text>> \in Object \X Id \X Text
  BY <1>3 DEF KnowledgeConfirmation
<1>8. b \in KnowledgeBasis
  BY <1>4, <1>5, <1>6, <1>7 DEF BasisFrom, KnowledgeBasis
<1>9. b.notes = {<<o, s.confirmations[o].id, s.confirmations[o].text>> : o \in notes}
  BY DEF BasisFrom
<1>10. \A d : Cites(b, d) =>
         \E o \in Object : s.confirmations[o] # None /\ s.confirmations[o].id = d
  BY <1>3, <1>9 DEF Cites
<1>11. QED
  BY <1>8, <1>10

LEMMA PrepareDraftStep ==
  ASSUME IInv, NEW d \in Id, NEW o \in Object, NEW tables \in SUBSET Table,
         NEW notes \in SUBSET Object, PrepareDraft(d, o, tables, notes)
  PROVE  IInv' /\ NoRevivalStep /\ AcceptedIsInForceStep
<1> DEFINE b == BasisFrom(store, tables, notes)
           e == [object |-> o, version |-> store.annotations[o], basis |-> b, saved |-> None]
<1>1. store' = store /\ drafts' = [drafts EXCEPT ![d] = e] /\ used' = used \cup {d}
  BY DEF PrepareDraft
<1>2. /\ b \in KnowledgeBasis
      /\ \A i : Cites(b, i) =>
           \E p \in Object : store.confirmations[p] # None /\ store.confirmations[p].id = i
  BY BasisFromFacts DEF PrepareDraft, Available, IInv
<1> HIDE DEF b
<1>3. e \in Draft /\ e.basis = b /\ e.saved = None
  BY <1>2 DEF Draft, IInv, TypeOK, Store
<1>4. e # None
  <2> HIDE DEF e
  <2> QED BY <1>3, NoneAssumption
<1> HIDE DEF e
<1>5. \A i \in Id : drafts'[i] = IF i = d THEN e ELSE drafts[i]
  BY <1>1 DEF IInv, TypeOK
<1>6. TypeOK'
  BY <1>1, <1>3 DEF IInv, TypeOK
<1>7. FreshIds'
  <2> SUFFICES ASSUME NEW i \in Id, Unspent(i)'
               PROVE  /\ \A p \in Object : store.confirmations[p] # None =>
                           /\ store.confirmations[p].id # i
                           /\ ~ Cites(store.confirmations[p].basis, i)
                      /\ \A j \in Id : drafts'[j] # None => ~ Cites(drafts'[j].basis, i)
    BY <1>1 DEF FreshIds, Cites
  <2>1. Unspent(i)
    BY <1>1, <1>5 DEF Unspent, PrepareDraft
  <2>2. /\ \A p \in Object : store.confirmations[p] # None =>
             store.confirmations[p].id # i /\ ~ Cites(store.confirmations[p].basis, i)
        /\ \A j \in Id : drafts[j] # None => ~ Cites(drafts[j].basis, i)
    BY <2>1 DEF IInv, FreshIds
  <2>3. ~ Cites(b, i)
    BY <1>2, <2>2
  <2>4. QED
    BY <1>3, <1>5, <2>2, <2>3
<1>8. WellFormed(store)' /\ Downgraded(store)' /\ Retained(store)'
  BY <1>1 DEF IInv
<1>9. NoRevivalStep /\ AcceptedIsInForceStep
  BY <1>1 DEF NoRevivalStep, AcceptedIsInForceStep
<1>10. DraftsUsed'
  BY <1>1, <1>5 DEF IInv, DraftsUsed
<1>11. QED
  BY <1>6, <1>7, <1>8, <1>9, <1>10 DEF IInv

LEMMA CancelDraftStep ==
  ASSUME IInv, NEW d \in Id, CancelDraft(d)
  PROVE  IInv' /\ NoRevivalStep /\ AcceptedIsInForceStep
<1>1. store' = store /\ drafts' = [drafts EXCEPT ![d] = None] /\ used' = used
  BY DEF CancelDraft
<1>2. \A i \in Id : drafts'[i] = IF i = d THEN None ELSE drafts[i]
  BY <1>1 DEF IInv, TypeOK
<1>3. TypeOK'
  BY <1>1 DEF IInv, TypeOK
<1>4. FreshIds'
  BY <1>1, <1>2 DEF IInv, FreshIds, Unspent, Cites
<1>5. WellFormed(store)' /\ Downgraded(store)' /\ Retained(store)'
  BY <1>1 DEF IInv
<1>6. NoRevivalStep /\ AcceptedIsInForceStep
  BY <1>1 DEF NoRevivalStep, AcceptedIsInForceStep
<1>7. DraftsUsed'
  BY <1>1, <1>2 DEF IInv, DraftsUsed
<1>8. QED
  BY <1>3, <1>4, <1>5, <1>6, <1>7 DEF IInv

\* A confirmation is in force once written: the notes it rests on do not rest
\* on its target, so replacing the record of the target leaves them standing.
LEMMA AcceptedIsConfirmed ==
  ASSUME NEW s, NEW t, NEW o \in Object, NEW b \in KnowledgeBasis,
         MayConfirm(s, o, s.annotations[o], b), SameEvidence(s, t),
         \A p \in Object \ {o} : t.annotations[p] = s.annotations[p],
         t.annotations[o] # None,
         t.confirmations[o] # None, ~ t.confirmations[o].invalid,
         t.confirmations[o].basis = b, t.confirmations[o].text = t.annotations[o].text,
         \A p \in Confirmed(s) \ {o} : t.confirmations[p] = s.confirmations[p]
  PROVE  o \in Confirmed(t)
<1> DEFINE C == {p \in Confirmed(s) : p # o /\ ~ DependsOn(s, p, o)}
           S == C \cup {o}
<1>1. Confirmed(s) \subseteq Object /\ SelfSupporting(s, Confirmed(s))
  BY ConfirmedIsLargest
<1>2. \A p \in C : t.confirmations[p] = s.confirmations[p]
  OBVIOUS
<1>3. ASSUME NEW p \in C
      PROVE  LocallyValid(t, p) /\ NotesMatch(t, t.confirmations[p].basis.notes, S)
  <2>1. LocallyValid(s, p) /\ NotesMatch(s, s.confirmations[p].basis.notes, Confirmed(s))
    BY <1>1 DEF SelfSupporting
  <2>2. t.confirmations[p] = s.confirmations[p] /\ t.annotations[p] = s.annotations[p]
    BY <1>1, <1>2
  <2>3. LocallyValid(t, p)
    BY <2>1, <2>2, SameEvidenceSameValidity DEF LocallyValid
  <2>4. ASSUME NEW n \in s.confirmations[p].basis.notes
        PROVE  n[1] \in C
    <3>1. n[1] \in Supports(s, p)
      BY <2>1 DEF Supports, LocallyValid
    <3>2. n[1] # o
      BY <3>1 DEF DependsOn
    <3>3. ~ DependsOn(s, n[1], o)
      BY <3>1 DEF DependsOn
    <3>4. n[1] \in Confirmed(s)
      BY <2>1 DEF NotesMatch
    <3>5. QED
      BY <3>2, <3>3, <3>4
  <2>5. NotesMatch(t, t.confirmations[p].basis.notes, S)
    BY <1>2, <2>1, <2>2, <2>4 DEF NotesMatch
  <2>6. QED
    BY <2>3, <2>5
<1>4. LocallyValid(t, o)
  <2>1. Available(t, o)
    BY DEF MayConfirm, Available, SameEvidence, Latest
  <2>2. StructureMatches(t, b)
    BY DEF MayConfirm, StructureMatches, SameEvidence, Latest
  <2>3. b.identity = t.identity
    BY DEF MayConfirm, SameEvidence
  <2>4. QED
    BY <2>1, <2>2, <2>3 DEF LocallyValid
<1>5. NotesMatch(t, b.notes, S)
  <2>1. \A n \in b.notes : n[1] \in C
    BY DEF MayConfirm, NotesMatch
  <2>2. QED
    BY <1>2, <2>1 DEF MayConfirm, NotesMatch
<1>6. SelfSupporting(t, S)
  BY <1>3, <1>4, <1>5 DEF SelfSupporting
<1>7. S \in SUBSET Object
  BY <1>1
<1>8. QED
  BY <1>6, <1>7, ConfirmedIsLargest

\* t is s with the accepted record of o, whose id is d and whose basis is b.
Accepts(s, t, o, d, b) ==
  /\ o \in Confirmed(t)
  /\ t.confirmations[o] # None => t.confirmations[o].id = d /\ t.confirmations[o].basis = b
  /\ \A p \in Object \ {o} : t.confirmations[p] # None =>
       /\ s.confirmations[p] # None
       /\ t.confirmations[p].id = s.confirmations[p].id
       /\ t.confirmations[p].text = s.confirmations[p].text
       /\ t.confirmations[p].basis = s.confirmations[p].basis
       /\ s.confirmations[p].invalid => t.confirmations[p].invalid

\* What confirm_in leaves: the record is accepted, the description is the one
\* on screen, everything else is as it was.
LEMMA ConfirmedByFacts ==
  ASSUME NEW s, WellFormed(s), Retained(s), NEW o \in Object, NEW d \in Id, NEW x \in Text,
         NEW b \in KnowledgeBasis, MayConfirm(s, o, s.annotations[o], b)
  PROVE  /\ WellFormed(ConfirmedBy(s, o, d, x, b))
         /\ Downgraded(ConfirmedBy(s, o, d, x, b))
         /\ Retained(ConfirmedBy(s, o, d, x, b))
         /\ SameEvidence(s, ConfirmedBy(s, o, d, x, b))
         /\ Accepts(s, ConfirmedBy(s, o, d, x, b), o, d, b)
         /\ ConfirmedBy(s, o, d, x, b).annotations[o] \in Annotation
         /\ ConfirmedBy(s, o, d, x, b).clock = s.clock + 1
<1> DEFINE s1 == Settled(s)
           s2 == Tick(s1)
           s3 == WithConfirmation(s2, o, d, x, b)
           s4 == Settled(s3)
<1>1. s \in Store /\ s.snapshots # {} /\ ConfirmedBy(s, o, d, x, b) = s4
  BY DEF WellFormed, MayConfirm, Available, ConfirmedBy
<1>3. /\ WellFormed(s1)
      /\ Follows(s, s1)
      /\ SameEvidence(s, s1)
      /\ s1.annotations = s.annotations
      /\ s1.clock = s.clock
      /\ Retained(s1)
      /\ \A p \in Confirmed(s) : s1.confirmations[p] = s.confirmations[p]
  <2>1. \A p \in Confirmed(s) : s1.confirmations[p] = s.confirmations[p]
    BY <1>1, ConfirmedIsLargest, MarkFacts DEF Settled
  <2>2. QED
    BY <1>1, <2>1, SettledFacts, SettledRetained
<1> HIDE DEF s1
<1>4. /\ WellFormed(s2)
      /\ SameEvidence(s1, s2)
      /\ s2.confirmations = s1.confirmations
      /\ s2.annotations = s1.annotations
      /\ s2.clock = s.clock + 1
      /\ s2.snapshots # {}
      /\ Retained(s2)
  <2>1. /\ WellFormed(s2)
        /\ SameEvidence(s1, s2)
        /\ s2.confirmations = s1.confirmations
        /\ s2.annotations = s1.annotations
        /\ s2.clock = s.clock + 1
    BY <1>3, TickFacts
  <2>2. QED
    BY <1>1, <1>3, <2>1 DEF SameEvidence, Retained, Live
<1> HIDE DEF s2
<1> DEFINE a == [text |-> x, at |-> s2.clock]
           rec == [id |-> d, text |-> x, snapshot |-> Latest(s2).id,
                   basis |-> b, invalid |-> FALSE]
<1>5. /\ WellFormed(s3)
      /\ SameEvidence(s2, s3)
      /\ s3.annotations = [s2.annotations EXCEPT ![o] = a]
      /\ s3.confirmations[o] = rec
      /\ s3.clock = s2.clock
      /\ \A p \in Object \ {o} : s3.confirmations[p] = s2.confirmations[p]
      /\ Retained(s3)
  <2>1. s3.clock = s2.clock
    BY DEF WithConfirmation, WriteAnnotation, Mark
  <2> QED BY <1>4, <2>1, WithConfirmationFacts
<1> HIDE DEF s3
<1>6. \A p \in Object : s3.annotations[p] = IF p = o THEN a ELSE s.annotations[p]
  BY <1>1, <1>3, <1>4, <1>5 DEF WellFormed, Store
<1>7. a \in Annotation /\ a # None /\ a.text = x
  <2>1. a \in Annotation /\ a.text = x
    BY <1>4 DEF Annotation, WellFormed, Store
  <2> HIDE DEF a
  <2>2. QED
    BY <2>1, NoneAssumption
<1>8. /\ rec.id = d /\ rec.text = x /\ rec.basis = b /\ ~ rec.invalid
      /\ rec # None
  <2>1. Latest(s2).id \in Nat
    BY <1>4, LatestIsStored DEF WellFormed, Store, Snapshot
  <2>2. rec \in KnowledgeConfirmation
    BY <2>1 DEF KnowledgeConfirmation
  <2>3. rec.id = d /\ rec.text = x /\ rec.basis = b /\ ~ rec.invalid
    OBVIOUS
  <2> HIDE DEF rec
  <2>4. QED
    BY <2>2, <2>3, NoneAssumption
<1> HIDE DEF a, rec
<1>9. /\ WellFormed(s4)
      /\ Follows(s3, s4)
      /\ SameEvidence(s3, s4)
      /\ Downgraded(s4)
      /\ Retained(s4)
      /\ s4.annotations = s3.annotations
      /\ s4.clock = s3.clock
  BY <1>5, SettledFacts, SettledRetained
<1>12. o \in Confirmed(s4)
  <2>1. SameEvidence(s, s3)
    BY <1>3, <1>4, <1>5 DEF SameEvidence
  <2>2. \A p \in Confirmed(s) \ {o} : s3.confirmations[p] = s.confirmations[p]
    BY <1>3, <1>4, <1>5, ConfirmedIsLargest
  <2>3. o \in Confirmed(s3)
    BY <1>1, <1>5, <1>6, <1>7, <1>8, <2>1, <2>2, AcceptedIsConfirmed
  <2>4. QED
    BY <1>5, <2>3, SettledKeepsConfirmed
<1> HIDE DEF s4
<1>10. ASSUME NEW p \in Object \ {o}, s4.confirmations[p] # None
       PROVE  /\ s.confirmations[p] # None
              /\ s4.confirmations[p].id = s.confirmations[p].id
              /\ s4.confirmations[p].text = s.confirmations[p].text
              /\ s4.confirmations[p].basis = s.confirmations[p].basis
              /\ s.confirmations[p].invalid => s4.confirmations[p].invalid
  BY <1>3, <1>4, <1>5, <1>9, <1>10 DEF Follows
<1>11. ASSUME s4.confirmations[o] # None
       PROVE  s4.confirmations[o].id = d /\ s4.confirmations[o].basis = b
  BY <1>5, <1>8, <1>9, <1>11 DEF Follows
<1>13. Accepts(s, s4, o, d, b)
  BY <1>10, <1>11, <1>12 DEF Accepts
<1>14. SameEvidence(s, s4) /\ s4.clock = s.clock + 1 /\ s4.annotations[o] \in Annotation
  BY <1>3, <1>4, <1>5, <1>6, <1>7, <1>9 DEF SameEvidence
<1>15. QED
  BY <1>1, <1>9, <1>13, <1>14

\* An accepted record with an id that nothing cites revives nothing.
LEMMA AcceptingStep ==
  ASSUME IInv, NEW o \in Object, NEW d \in Id, NEW b, Unspent(d), Accepts(store, store', o, d, b)
  PROVE  NoRevivalStep /\ AcceptedIsInForceStep
<1>1. AcceptedIsInForceStep
  BY DEF AcceptedIsInForceStep, RecordId, Accepts
<1>2. FreshIds
  BY DEF IInv
<1> DEFINE S == Confirmed(store') \ {o}
<1>3. Confirmed(store') \subseteq Object /\ SelfSupporting(store', Confirmed(store'))
  BY ConfirmedIsLargest
<1>4. \A p \in S : /\ store.confirmations[p] # None
                   /\ store'.confirmations[p].id = store.confirmations[p].id
                   /\ store'.confirmations[p].text = store.confirmations[p].text
                   /\ store'.confirmations[p].basis = store.confirmations[p].basis
                   /\ store.confirmations[p].invalid => store'.confirmations[p].invalid
  BY <1>3 DEF SelfSupporting, LocallyValid, Accepts
<1>5. store'.confirmations[o] # None /\ store'.confirmations[o].id = d
  BY <1>3 DEF SelfSupporting, LocallyValid, Accepts
<1>6. ASSUME NEW p \in S, NEW n \in store'.confirmations[p].basis.notes
      PROVE  n[1] \in S
  <2>1. n[1] \in Confirmed(store') /\ store'.confirmations[n[1]].id = n[2]
    BY <1>3 DEF SelfSupporting, NotesMatch
  <2>2. ~ Cites(store.confirmations[p].basis, d)
    BY <1>2, <1>3, <1>4 DEF FreshIds
  <2>3. n[2] # d
    BY <1>4, <2>2 DEF Cites
  <2>4. QED
    BY <1>5, <2>1, <2>3
<1>7. SelfSupporting(store', S)
  BY <1>3, <1>6 DEF SelfSupporting, NotesMatch
<1>8. SelfSupporting(store, S)
  BY <1>3, <1>4, <1>7, NothingRevived DEF IInv
<1>9. S \subseteq Confirmed(store)
  BY <1>3, <1>8, ConfirmedIsLargest
<1>10. RecordId(store', o) # RecordId(store, o)
  <2>1. RecordId(store', o) = d
    BY <1>5 DEF RecordId
  <2>2. CASE store.confirmations[o] # None
    BY <1>2, <2>1, <2>2 DEF RecordId, FreshIds
  <2>3. CASE store.confirmations[o] = None
    BY <2>1, <2>3, NoneAssumption DEF RecordId
  <2>4. QED
    BY <2>2, <2>3
<1>11. NoRevivalStep
  BY <1>9, <1>10 DEF NoRevivalStep
<1>12. QED
  BY <1>1, <1>11

LEMMA ConfirmDraftStep ==
  ASSUME IInv, NEW d \in Id, NEW x \in Text, ConfirmDraft(d, x)
  PROVE  IInv' /\ NoRevivalStep /\ AcceptedIsInForceStep
<1> DEFINE o == drafts[d].object
           b == drafts[d].basis
<1>1. /\ drafts[d] \in Draft
      /\ o \in Object
      /\ b \in KnowledgeBasis
  BY DEF ConfirmDraft, IInv, TypeOK, Draft
<1>2. /\ store' = ConfirmedBy(store, o, d, x, b)
      /\ MayConfirm(store, o, store.annotations[o], b)
      /\ drafts[d].saved = None
      /\ drafts[d] # None
      /\ used' = used
      /\ drafts' = [drafts EXCEPT ![d].saved = store'.annotations[o]]
  BY DEF ConfirmDraft, MayConfirm
<1> HIDE DEF o, b
<1>3. /\ WellFormed(store')
      /\ Downgraded(store')
      /\ Retained(store')
      /\ Accepts(store, store', o, d, b)
      /\ store'.annotations[o] \in Annotation
  BY <1>1, <1>2, ConfirmedByFacts DEF IInv
<1>14. FreshIds /\ Unspent(d)
  BY <1>2 DEF IInv, Unspent
<1>15. NoRevivalStep /\ AcceptedIsInForceStep
  BY <1>1, <1>3, <1>14, AcceptingStep
<1>16. TypeOK'
  <2>1. store'.annotations[o] \in Annotation
    BY <1>3
  <2>2. drafts' = [drafts EXCEPT ![d] = [drafts[d] EXCEPT !.saved = store'.annotations[o]]]
    BY <1>2
  <2>3. [drafts[d] EXCEPT !.saved = store'.annotations[o]] \in Draft
    BY <1>1, <2>1 DEF Draft
  <2>4. drafts' \in [Id -> Draft \cup {None}]
    BY <2>2, <2>3 DEF IInv, TypeOK
  <2>5. QED
    BY <1>2, <1>3, <2>4 DEF IInv, TypeOK, WellFormed
<1>17. FreshIds'
  <2>1. /\ \A i \in Id \ {d} : drafts'[i] = drafts[i]
        /\ drafts'[d].basis = b
        /\ drafts'[d].saved # None
        /\ drafts'[d] # None
    <3>1. store'.annotations[o] # None
      BY <1>3, NoneAssumption
    <3>2. drafts'[d] = [drafts[d] EXCEPT !.saved = store'.annotations[o]]
      BY <1>2 DEF IInv, TypeOK
    <3>3. /\ drafts'[d] \in Draft \cup {None}
          /\ drafts'[d].saved = store'.annotations[o]
          /\ drafts'[d].basis = b
      BY <1>1, <1>16, <3>2 DEF TypeOK, Draft, b
    <3>4. [drafts[d] EXCEPT !.saved = store'.annotations[o]] \in Draft
      BY <1>1, <1>3 DEF Draft
    <3>5. drafts'[d] # None
      BY <3>2, <3>4, NoneAssumption
    <3>6. \A i \in Id \ {d} : drafts'[i] = drafts[i]
      BY <1>2 DEF IInv, TypeOK
    <3>7. QED
      BY <3>1, <3>3, <3>5, <3>6
  <2> SUFFICES ASSUME NEW i \in Id, Unspent(i)'
               PROVE  /\ \A p \in Object : store'.confirmations[p] # None =>
                           /\ store'.confirmations[p].id # i
                           /\ ~ Cites(store'.confirmations[p].basis, i)
                      /\ \A e \in Id : drafts'[e] # None => ~ Cites(drafts'[e].basis, i)
    BY DEF FreshIds, Cites
  <2>2. d \in used
    BY <1>2 DEF IInv, DraftsUsed
  <2>3. i # d
    BY <1>2, <2>1, <2>2 DEF Unspent
  <2>4. Unspent(i)
    BY <1>2, <2>1, <2>3 DEF Unspent
  <2>5. ~ Cites(b, i)
    BY <1>2, <1>14, <2>4 DEF FreshIds, b
  <2>6. \A p \in Object : store'.confirmations[p] # None =>
          /\ store'.confirmations[p].id # i
          /\ ~ Cites(store'.confirmations[p].basis, i)
    BY <1>3, <1>14, <2>3, <2>4, <2>5 DEF FreshIds, Accepts
  <2>7. QED
    BY <1>14, <2>1, <2>4, <2>5, <2>6 DEF FreshIds
<1>18. DraftsUsed'
  <2>1. \A i \in Id \ {d} : drafts'[i] = drafts[i]
    BY <1>2 DEF IInv, TypeOK
  <2>2. d \in used
    BY <1>2 DEF IInv, DraftsUsed
  <2>3. QED
    BY <1>2, <2>1, <2>2 DEF IInv, DraftsUsed
<1>19. QED
  BY <1>3, <1>15, <1>16, <1>17, <1>18 DEF IInv

-----------------------------------------------------------------------------
(* Every transaction keeps the invariant.                                  *)

\* A transaction that ends by settling a store that holds no new record.
LEMMA SettlingStep ==
  ASSUME IInv, UNCHANGED <<drafts, used>>,
         NEW s, WellFormed(s), Follows(store, s), s.snapshots # {} => Retained(s),
         store' = Settled(s)
  PROVE  IInv' /\ NoRevivalStep /\ AcceptedIsInForceStep
<1>1. /\ WellFormed(store')
      /\ Follows(s, store')
      /\ Downgraded(store')
      /\ Retained(store')
  BY SettledFacts, SettledRetained
<1>2. Follows(store, store')
  BY <1>1, FollowsTransitive
<1>3. QED
  BY <1>1, <1>2, QuietStep

LEMMA SaveDataSourceStep ==
  ASSUME IInv, NEW i \in Identity, SaveDataSource(i)
  PROVE  IInv' /\ NoRevivalStep /\ AcceptedIsInForceStep
<1> DEFINE s == [store EXCEPT !.identity = i]
<1>1. WellFormed(s) /\ Follows(store, s) /\ Retained(s)
  BY IdentityFacts DEF IInv
<1>2. store' = Settled(s) /\ UNCHANGED <<drafts, used>>
  BY DEF SaveDataSource
<1> HIDE DEF s
<1>3. QED
  BY <1>1, <1>2, SettlingStep

LEMMA SaveCaptureStep ==
  ASSUME IInv, NEW i \in Identity, NEW c \in Catalog, NEW keep, SaveCapture(i, c, keep)
  PROVE  IInv' /\ NoRevivalStep /\ AcceptedIsInForceStep
<1> DEFINE s == [store EXCEPT !.identity = i]
           t == Stored(s, c, keep)
<1>1. WellFormed(s) /\ Follows(store, s) /\ Retained(s)
  BY IdentityFacts DEF IInv
<1>2. store' = Settled(t) /\ UNCHANGED <<drafts, used>>
  BY DEF SaveCapture
<1> HIDE DEF s
<1>3. WellFormed(t) /\ Follows(s, t) /\ Retained(t)
  BY <1>1, StoredFacts
<1> HIDE DEF t
<1>4. Follows(store, t)
  BY <1>1, <1>3, FollowsTransitive
<1>5. QED
  BY <1>2, <1>3, <1>4, SettlingStep

LEMMA PruneSnapshotsStep ==
  ASSUME IInv, NEW keep, PruneSnapshots(keep)
  PROVE  IInv' /\ NoRevivalStep /\ AcceptedIsInForceStep
<1> DEFINE s == Pruned(store, keep)
<1>1. WellFormed(s) /\ Follows(store, s) /\ Retained(s)
  BY PrunedFacts DEF IInv
<1>2. store' = Settled(s) /\ UNCHANGED <<drafts, used>>
  BY DEF PruneSnapshots
<1> HIDE DEF s
<1>3. QED
  BY <1>1, <1>2, SettlingStep

\* Ticking the clock leaves every record as good as it was.
LEMMA TickKeeps ==
  ASSUME IInv
  PROVE  /\ WellFormed(Tick(store))
         /\ Follows(store, Tick(store))
         /\ Downgraded(Tick(store))
         /\ Retained(Tick(store))
         /\ Tick(store).clock \in Nat
<1> DEFINE t == Tick(store)
<1>1. /\ WellFormed(t)
      /\ Follows(store, t)
      /\ SameEvidence(store, t)
      /\ t.confirmations = store.confirmations
      /\ t.annotations = store.annotations
  BY TickFacts DEF IInv
<1> HIDE DEF t
<1>2. \A o \in Object : LocallyValid(store, o) => LocallyValid(t, o)
  BY <1>1, SameEvidenceSameValidity DEF LocallyValid
<1>3. Downgraded(t) /\ Retained(t)
  BY <1>1, <1>2 DEF IInv, Downgraded, Retained, Live, SameEvidence
<1>4. t.clock \in Nat
  BY <1>1 DEF WellFormed, Store
<1>5. QED
  BY <1>1, <1>3, <1>4 DEF t

LEMMA SaveAnnotationStep ==
  ASSUME IInv, NEW o \in Object, NEW x \in Text \cup {NoText}, SaveAnnotation(o, x)
  PROVE  IInv' /\ NoRevivalStep /\ AcceptedIsInForceStep
<1> DEFINE s == Tick(store)
           a == [text |-> x, at |-> s.clock]
<1>1. store' = WriteAnnotation(s, o, a) /\ UNCHANGED <<drafts, used>>
  BY DEF SaveAnnotation
<1>2. /\ WellFormed(s)
      /\ Follows(store, s)
      /\ Downgraded(s)
      /\ Retained(s)
      /\ s.clock \in Nat
  BY TickKeeps
<1> HIDE DEF s
<1>3. a \in Annotation
  BY <1>2 DEF Annotation
<1> HIDE DEF a
<1>4. /\ WellFormed(store')
      /\ Follows(s, store')
      /\ Downgraded(store')
      /\ Retained(store')
  BY <1>1, <1>2, <1>3, WriteAnnotationFacts
<1>5. Follows(store, store')
  BY <1>2, <1>4, FollowsTransitive
<1>6. QED
  BY <1>1, <1>4, <1>5, QuietStep

LEMMA SaveRelationshipStep ==
  ASSUME IInv, NEW r \in Relation, NEW m \in Meaning, NEW st \in RelationshipStatus,
         SaveRelationship(r, m, st)
  PROVE  IInv' /\ NoRevivalStep /\ AcceptedIsInForceStep
<1> DEFINE s == Tick(store)
           v == [meaning |-> m, status |-> st, at |-> s.clock]
<1>1. store' = WriteRelation(s, r, v) /\ UNCHANGED <<drafts, used>>
  BY DEF SaveRelationship
<1>2. /\ WellFormed(s)
      /\ Follows(store, s)
      /\ Downgraded(s)
      /\ Retained(s)
      /\ s.clock \in Nat
  BY TickKeeps
<1> HIDE DEF s
<1>3. v \in Relationship
  BY <1>2 DEF Relationship
<1> HIDE DEF v
<1>4. /\ WellFormed(store')
      /\ Follows(s, store')
      /\ Downgraded(store')
      /\ Retained(store')
  BY <1>1, <1>2, <1>3, WriteRelationFacts
<1>5. Follows(store, store')
  BY <1>2, <1>4, FollowsTransitive
<1>6. QED
  BY <1>1, <1>4, <1>5, QuietStep

LEMMA DeleteRelationshipStep ==
  ASSUME IInv, NEW r \in Relation, DeleteRelationship(r)
  PROVE  IInv' /\ NoRevivalStep /\ AcceptedIsInForceStep
<1>1. store' = WriteRelation(store, r, None) /\ UNCHANGED <<drafts, used>>
  BY DEF DeleteRelationship
<1>2. /\ WellFormed(store')
      /\ Follows(store, store')
      /\ Downgraded(store')
      /\ Retained(store')
  BY <1>1, WriteRelationFacts DEF IInv
<1>3. QED
  BY <1>1, <1>2, QuietStep

LEMMA DeleteSourceDataStep ==
  ASSUME IInv, NEW h \in BOOLEAN, NEW m \in BOOLEAN, NEW c \in BOOLEAN,
         DeleteSourceData(h, m, c)
  PROVE  IInv' /\ NoRevivalStep /\ AcceptedIsInForceStep
<1> DEFINE s == Erased(store, h, m, c)
<1>1. store' = Settled(s) /\ UNCHANGED <<drafts, used>>
  BY DEF DeleteSourceData
<1>2. /\ WellFormed(s)
      /\ Follows(store, s)
      /\ s.snapshots = IF h THEN {} ELSE store.snapshots
  BY ErasedFacts DEF IInv
<1> HIDE DEF s
<1>3. s.snapshots # {} => Retained(s)
  BY <1>2 DEF IInv, Retained, Live, Follows
<1>4. QED
  BY <1>1, <1>2, <1>3, SettlingStep

LEMMA ImportPortableModelStep ==
  ASSUME IInv, NEW b \in Bundle, ImportPortableModel(b)
  PROVE  IInv' /\ NoRevivalStep /\ AcceptedIsInForceStep
<1>1. store' = Settled(Imported(store, b)) /\ UNCHANGED <<drafts, used>>
  BY DEF ImportPortableModel
<1>2. /\ WellFormed(Imported(store, b))
      /\ Follows(store, Imported(store, b))
      /\ Retained(Imported(store, b))
  BY ImportedFacts DEF IInv
<1>3. QED
  BY <1>1, <1>2, SettlingStep

\* Reading the states, and repeating a confirmation, only settle the store.
LEMMA SettleOnlyStep ==
  ASSUME IInv, store' = Settled(store), UNCHANGED <<drafts, used>>
  PROVE  IInv' /\ NoRevivalStep /\ AcceptedIsInForceStep
<1>1. WellFormed(store) /\ Follows(store, store) /\ Retained(store)
  BY DEF IInv, Follows
<1>2. QED
  BY <1>1, SettlingStep

LEMMA NextStep ==
  ASSUME IInv, [Next]_vars
  PROVE  IInv' /\ NoRevivalStep /\ AcceptedIsInForceStep
<1>1. CASE UNCHANGED vars
  <2>1. store' = store /\ drafts' = drafts /\ used' = used
    BY <1>1 DEF vars
  <2>2. WellFormed(store)' /\ Downgraded(store)' /\ Retained(store)' /\ Follows(store, store')
    BY <2>1 DEF IInv, Follows
  <2>3. QED
    BY <2>1, <2>2, QuietStep
<1>2. ASSUME NEW i \in Identity \ {NoProfile}, SaveDataSource(i)
      PROVE  IInv' /\ NoRevivalStep /\ AcceptedIsInForceStep
  BY <1>2, SaveDataSourceStep
<1>3. ASSUME NEW i \in Identity, NEW c \in Catalog,
             NEW keep \in SUBSET {x.id : x \in store.snapshots}, SaveCapture(i, c, keep)
      PROVE  IInv' /\ NoRevivalStep /\ AcceptedIsInForceStep
  BY <1>3, SaveCaptureStep
<1>4. ASSUME NEW keep \in SUBSET {x.id : x \in store.snapshots}, PruneSnapshots(keep)
      PROVE  IInv' /\ NoRevivalStep /\ AcceptedIsInForceStep
  BY <1>4, PruneSnapshotsStep
<1>5. ASSUME NEW o \in Object, NEW x \in Text \cup {NoText}, SaveAnnotation(o, x)
      PROVE  IInv' /\ NoRevivalStep /\ AcceptedIsInForceStep
  BY <1>5, SaveAnnotationStep
<1>6. ASSUME NEW r \in Relation, NEW m \in Meaning, NEW st \in RelationshipStatus,
             SaveRelationship(r, m, st)
      PROVE  IInv' /\ NoRevivalStep /\ AcceptedIsInForceStep
  BY <1>6, SaveRelationshipStep
<1>7. ASSUME NEW r \in Relation, DeleteRelationship(r)
      PROVE  IInv' /\ NoRevivalStep /\ AcceptedIsInForceStep
  BY <1>7, DeleteRelationshipStep
<1>8. ASSUME NEW h \in BOOLEAN, NEW m \in BOOLEAN, NEW c \in BOOLEAN,
             DeleteSourceData(h, m, c)
      PROVE  IInv' /\ NoRevivalStep /\ AcceptedIsInForceStep
  BY <1>8, DeleteSourceDataStep
<1>9. ASSUME NEW b \in Bundle, ImportPortableModel(b)
      PROVE  IInv' /\ NoRevivalStep /\ AcceptedIsInForceStep
  BY <1>9, ImportPortableModelStep
<1>10. CASE ReadStates
  BY <1>10, SettleOnlyStep DEF ReadStates
<1>11. ASSUME NEW d \in Id, NEW o \in Object, NEW tables \in SUBSET Table,
              NEW notes \in SUBSET Object, PrepareDraft(d, o, tables, notes)
       PROVE  IInv' /\ NoRevivalStep /\ AcceptedIsInForceStep
  BY <1>11, PrepareDraftStep
<1>12. ASSUME NEW d \in Id, CancelDraft(d)
       PROVE  IInv' /\ NoRevivalStep /\ AcceptedIsInForceStep
  BY <1>12, CancelDraftStep
<1>13. ASSUME NEW d \in Id, NEW x \in Text, ConfirmDraft(d, x)
       PROVE  IInv' /\ NoRevivalStep /\ AcceptedIsInForceStep
  BY <1>13, ConfirmDraftStep
<1>14. ASSUME NEW d \in Id, RetryDraft(d)
       PROVE  IInv' /\ NoRevivalStep /\ AcceptedIsInForceStep
  BY <1>14, SettleOnlyStep DEF RetryDraft
<1>15. store.identity \in Identity
  BY DEF IInv, TypeOK, Store
<1>16. QED
  BY <1>1, <1>2, <1>3, <1>4, <1>5, <1>6, <1>7, <1>8, <1>9, <1>10, <1>11, <1>12,
     <1>13, <1>14, <1>15 DEF Next, LocalStep

-----------------------------------------------------------------------------
(* Unrelated changes.                                                      *)

\* The records of S are the same in s and t, and so is what they rest on.
KeptFrom(s, t, S) ==
  \A o \in S :
    /\ t.confirmations[o] = s.confirmations[o]
    /\ t.annotations[o] # None
    /\ t.annotations[o].text = s.annotations[o].text
    /\ t.identity = s.identity
    /\ Available(t, o)
    /\ StructureMatches(t, s.confirmations[o].basis)

\* A set of confirmed objects, closed under the notes they cite.
Closed(s, S) == S \subseteq Confirmed(s) /\ \A o \in S : Supports(s, o) \subseteq S

LEMMA KeptStaysConfirmed ==
  ASSUME NEW s, NEW t, NEW S, Closed(s, S), KeptFrom(s, t, S)
  PROVE  S \subseteq Confirmed(t)
<1>1. S \in SUBSET Object /\ SelfSupporting(s, Confirmed(s))
  BY ConfirmedIsLargest DEF Closed
<1>2. ASSUME NEW o \in S
      PROVE  LocallyValid(t, o) /\ NotesMatch(t, t.confirmations[o].basis.notes, S)
  <2>1. /\ LocallyValid(s, o) /\ NotesMatch(s, s.confirmations[o].basis.notes, Confirmed(s))
    BY <1>1, <1>2 DEF SelfSupporting, Closed
  <2>2. LocallyValid(t, o)
    BY <1>2, <2>1 DEF LocallyValid, KeptFrom
  <2>3. \A n \in s.confirmations[o].basis.notes : n[1] \in S
    BY <1>2, <2>1 DEF Closed, Supports, LocallyValid
  <2>4. \A n \in s.confirmations[o].basis.notes : t.confirmations[n[1]] = s.confirmations[n[1]]
    BY <2>3 DEF KeptFrom
  <2>5. NotesMatch(t, s.confirmations[o].basis.notes, S)
    BY <2>1, <2>3, <2>4 DEF NotesMatch
  <2> QED BY <1>2, <2>2, <2>5 DEF KeptFrom
<1>3. SelfSupporting(t, S)
  BY <1>2 DEF SelfSupporting
<1> QED BY <1>1, <1>3, ConfirmedIsLargest

\* What the property supposes of a set S.
Undisturbed(S) ==
  /\ Closed(store, S)
  /\ \A o \in S : EvidenceKept(o)

\* The records of S still there after a step that issues none for them.
LEMMA UndisturbedIsKept ==
  ASSUME NEW S, Undisturbed(S), \A o \in S : store'.confirmations[o] = store.confirmations[o]
  PROVE  S \subseteq Confirmed(store')
<1>1. KeptFrom(store, store', S)
  BY DEF Undisturbed, EvidenceKept, KeptFrom, Available
<1> QED BY <1>1, KeptStaysConfirmed DEF Undisturbed

LEMMA UndisturbedSettles ==
  ASSUME NEW S, Undisturbed(S), NEW t, WellFormed(t), store' = Settled(t),
         \A o \in S : t.confirmations[o] = store.confirmations[o]
  PROVE  S \subseteq Confirmed(store')
<1>1. Closed(store, S) /\ \A o \in S : EvidenceKept(o)
  BY DEF Undisturbed
<1>2. \A o \in S : /\ store'.annotations[o] # None
                   /\ store'.annotations[o].text = store.annotations[o].text
                   /\ store'.identity = store.identity
                   /\ Available(store', o)
                   /\ StructureMatches(store', store.confirmations[o].basis)
  BY <1>1 DEF EvidenceKept, Available
<1>3. SameEvidence(t, store') /\ store'.annotations = t.annotations
      /\ Confirmed(t) \subseteq Confirmed(store')
  BY SettledFacts, SettledKeepsConfirmed
<1>4. Latest(store') = Latest(t) /\ store'.snapshots = t.snapshots /\ store'.relations = t.relations
      /\ store'.identity = t.identity
  BY <1>3 DEF SameEvidence, Latest
<1>5. \A o : Available(store', o) <=> Available(t, o)
  BY <1>4 DEF Available
<1>6. \A b : StructureMatches(store', b) <=> StructureMatches(t, b)
  BY <1>4 DEF StructureMatches
<1>7. KeptFrom(store, t, S)
  BY <1>2, <1>3, <1>4, <1>5, <1>6 DEF KeptFrom
<1> QED BY <1>1, <1>3, <1>7, KeptStaysConfirmed

\* An undisturbed object has a record, and still the same one.
LEMMA UndisturbedFacts ==
  ASSUME IInv, NEW S, Undisturbed(S), NEW o \in S
  PROVE  /\ o \in Object /\ LocallyValid(store, o)
         /\ store.confirmations[o] # None /\ store.confirmations[o] \in KnowledgeConfirmation
         /\ store'.confirmations[o] # None /\ store'.confirmations[o].id = store.confirmations[o].id
<1>1. o \in Object /\ LocallyValid(store, o)
  BY ConfirmedIsLargest DEF Undisturbed, Closed, SelfSupporting
<1>2. store.confirmations[o] # None /\ store.confirmations[o] \in KnowledgeConfirmation
  BY <1>1 DEF LocallyValid, IInv, TypeOK, Store
<1>3. store.confirmations[o].id \in Id
  BY <1>2 DEF KnowledgeConfirmation
<1>4. RecordId(store', o) = RecordId(store, o)
  BY DEF Undisturbed, EvidenceKept
<1> QED BY <1>1, <1>2, <1>3, <1>4, NoneAssumption DEF RecordId

LEMMA SaveAnnotationKeeps ==
  ASSUME IInv, NEW S, Undisturbed(S), NEW o \in Object, NEW x \in Text \cup {NoText},
         SaveAnnotation(o, x)
  PROVE  S \subseteq Confirmed(store')
<1> DEFINE s == Tick(store)
           a == [text |-> x, at |-> s.clock]
<1>1. store' = WriteAnnotation(s, o, a)
  BY DEF SaveAnnotation
<1>2. /\ WellFormed(s) /\ s.confirmations = store.confirmations /\ s.annotations = store.annotations
      /\ s.clock \in Nat
  BY TickFacts DEF IInv, WellFormed, Store
<1>3. a \in Annotation
  BY <1>2 DEF Annotation
<1> DEFINE m == [s EXCEPT !.annotations[o] = a]
           T == IF s.annotations[o] # None /\ s.annotations[o].text # a.text THEN {o} ELSE {}
<1>4. store' = Mark(m, T)
  BY <1>1 DEF WriteAnnotation
<1>5. m \in Store /\ m.confirmations = s.confirmations /\ m.annotations = [s.annotations EXCEPT ![o] = a]
  <2>1. s \in Store
    BY <1>2 DEF WellFormed
  <2> HIDE DEF s, a
  <2> QED BY <1>3, <2>1 DEF Store
<1> HIDE DEF s, a, m
<1>6. store'.annotations[o] = a
  <2>1. store'.annotations = m.annotations
    BY <1>4, <1>5, MarkFacts
  <2>2. o \in DOMAIN s.annotations
    BY <1>2 DEF WellFormed, Store
  <2> QED BY <1>5, <2>1, <2>2
<1>7. ASSUME NEW p \in S PROVE store'.confirmations[p] = store.confirmations[p]
  <2>1. p \in Object /\ LocallyValid(store, p)
    BY UndisturbedFacts
  <2>2. p \notin T
    BY <1>2, <1>6, <1>7, <2>1 DEF Undisturbed, EvidenceKept, LocallyValid
  <2> HIDE DEF T
  <2> QED BY <1>2, <1>4, <1>5, <2>1, <2>2, MarkFacts
<1> QED BY <1>7, UndisturbedIsKept

\* Changing a relationship so that nothing which relies on it is undisturbed.
LEMMA WriteRelationKeeps ==
  ASSUME IInv, NEW S, Undisturbed(S), NEW s, WellFormed(s),
         s.confirmations = store.confirmations, s.relations = store.relations,
         NEW r \in Relation, NEW v \in Relationship \cup {None}, store' = WriteRelation(s, r, v)
  PROVE  S \subseteq Confirmed(store')
<1> DEFINE m == [s EXCEPT !.relations[r] = v]
           T == IF /\ s.relations[r] # None
                   /\ v = None \/ RelationshipDigest(v) # RelationshipDigest(s.relations[r])
                  THEN Relying(s, r) ELSE {}
<1>1. store' = Mark(m, T)
  BY DEF WriteRelation
<1>2. s \in Store
  BY DEF WellFormed
<1>3. m \in Store /\ m.confirmations = s.confirmations /\ m.relations = [s.relations EXCEPT ![r] = v]
  BY <1>2 DEF Store
<1> HIDE DEF m
<1>4. store'.relations[r] = v
  <2>1. store'.relations = m.relations
    BY <1>1, <1>3, MarkFacts DEF SameEvidence
  <2>2. r \in DOMAIN s.relations
    BY <1>2 DEF Store
  <2> QED BY <1>3, <2>1, <2>2
<1>5. ASSUME NEW p \in S PROVE store'.confirmations[p] = store.confirmations[p]
  <2>1. p \in Object /\ LocallyValid(store, p)
    BY UndisturbedFacts
  <2>2. StructureMatches(store, store.confirmations[p].basis)
        /\ StructureMatches(store', store.confirmations[p].basis)
    BY <1>5, <2>1 DEF LocallyValid, Undisturbed, EvidenceKept
  <2>3. ASSUME p \in T PROVE FALSE
    <3>1. PICK q \in store.confirmations[p].basis.relations : q[1] = r
      BY <2>3 DEF Relying
    <3>2. v # None /\ RelationshipDigest(v) = q[2] /\ RelationshipDigest(store.relations[r]) = q[2]
      BY <1>4, <2>2, <3>1 DEF StructureMatches
    <3> QED BY <2>3, <3>2
  <2> HIDE DEF T
  <2> QED BY <1>1, <1>3, <2>1, <2>3, MarkFacts
<1> QED BY <1>5, UndisturbedIsKept

LEMMA ImportKeeps ==
  ASSUME IInv, NEW S, Undisturbed(S), NEW b \in Bundle, ImportPortableModel(b)
  PROVE  S \subseteq Confirmed(store')
<1> DEFINE t == Imported(store, b)
<1>1. /\ WellFormed(t)
      /\ \A o \in Object : b.annotations[o] # None => t.annotations[o] = b.annotations[o]
      /\ \A r \in Relation : b.relations[r] # None => t.relations[r] = b.relations[r]
      /\ \A o \in Object :
           \/ t.confirmations[o] = store.confirmations[o]
           \/ /\ b.annotations[o] # None /\ store.annotations[o] # None
              /\ store.annotations[o].text # b.annotations[o].text
           \/ \E r \in Relation :
                /\ b.relations[r] # None /\ store.relations[r] # None /\ o \in Relying(store, r)
                /\ RelationshipDigest(store.relations[r]) # RelationshipDigest(b.relations[r])
  BY ImportedFacts DEF IInv
<1>2. store' = Settled(t)
  BY DEF ImportPortableModel
<1> HIDE DEF t
<1>3. store'.annotations = t.annotations /\ store'.relations = t.relations
  BY <1>1, <1>2, SettledFacts DEF SameEvidence
<1>4. ASSUME NEW o \in S PROVE t.confirmations[o] = store.confirmations[o]
  <2>1. o \in Object /\ LocallyValid(store, o)
    BY UndisturbedFacts
  <2>2. /\ store'.annotations[o].text = store.annotations[o].text
        /\ StructureMatches(store, store.confirmations[o].basis)
        /\ StructureMatches(store', store.confirmations[o].basis)
    BY <1>4, <2>1 DEF LocallyValid, Undisturbed, EvidenceKept
  <2>3. b.annotations[o] # None => store.annotations[o].text = b.annotations[o].text
    BY <1>1, <1>3, <2>1, <2>2
  <2>4. ASSUME NEW r \in Relation, b.relations[r] # None, store.relations[r] # None,
               o \in Relying(store, r)
        PROVE  RelationshipDigest(store.relations[r]) = RelationshipDigest(b.relations[r])
    <3>1. PICK q \in store.confirmations[o].basis.relations : q[1] = r
      BY <2>4 DEF Relying
    <3>2. RelationshipDigest(store'.relations[r]) = q[2] /\ RelationshipDigest(store.relations[r]) = q[2]
      BY <2>2, <3>1 DEF StructureMatches
    <3>3. store'.relations[r] = b.relations[r]
      BY <1>1, <1>3, <2>4
    <3> QED BY <3>2, <3>3
  <2> QED BY <1>1, <2>1, <2>3, <2>4
<1> QED BY <1>1, <1>2, <1>4, UndisturbedSettles

\* A deletion takes records along or leaves them alone.
LEMMA DeletionKeeps ==
  ASSUME IInv, NEW S, Undisturbed(S), NEW h \in BOOLEAN, NEW m \in BOOLEAN, NEW c \in BOOLEAN,
         DeleteSourceData(h, m, c)
  PROVE  S \subseteq Confirmed(store')
<1> DEFINE t == Erased(store, h, m, c)
<1>1. WellFormed(t) /\ Follows(store, t) /\ store' = Settled(t)
  BY ErasedFacts DEF IInv, DeleteSourceData
<1>2. t.confirmations = IF m THEN [o \in Object |-> None] ELSE store.confirmations
  <2>1. store \in Store
    BY DEF IInv, WellFormed
  <2> QED BY <2>1 DEF Erased, Store
<1> HIDE DEF t
<1>3. Follows(t, store')
  BY <1>1, SettledFacts
<1>4. ASSUME NEW o \in S PROVE t.confirmations[o] = store.confirmations[o]
  <2>1. o \in Object /\ store'.confirmations[o] # None
    BY UndisturbedFacts
  <2>2. t.confirmations[o] # None
    BY <1>3, <2>1 DEF Follows
  <2> QED BY <1>2, <2>1, <2>2
<1> QED BY <1>1, <1>4, UndisturbedSettles

\* A capture settles at most twice.
LEMMA CaptureKeeps ==
  ASSUME IInv, NEW S, Undisturbed(S), NEW i \in Identity, NEW c \in Catalog, NEW keep,
         SaveCapture(i, c, keep)
  PROVE  S \subseteq Confirmed(store')
<1> DEFINE s == [store EXCEPT !.identity = i]
<1>1. WellFormed(s) /\ s.confirmations = store.confirmations
  <2>1. store \in Store
    BY DEF IInv, WellFormed
  <2> QED BY <2>1, IdentityFacts DEF IInv, Store
<1>2. store' = Settled(Stored(s, c, keep))
  BY DEF SaveCapture
<1> HIDE DEF s
<1>3. CASE s.snapshots # {} /\ Latest(s).structure = c
  <2>1. Stored(s, c, keep) = s
    BY <1>3 DEF Stored
  <2> QED BY <1>1, <1>2, <2>1, UndisturbedSettles
<1>4. CASE ~ (s.snapshots # {} /\ Latest(s).structure = c)
  <2> DEFINE t == AddSnapshot(Tick(s), c)
             u == Pruned(t, keep)
             v == Settled(u)
  <2>1. store' = Settled(v)
    BY <1>2, <1>4 DEF Stored
  <2>2. WellFormed(t) /\ t.confirmations = s.confirmations
    BY <1>1, TickFacts, AddSnapshotFacts
  <2> HIDE DEF t
  <2>3. WellFormed(u) /\ u.confirmations = t.confirmations
    <3>1. WellFormed(u)
      BY <2>2, PrunedFacts
    <3>2. u.confirmations = t.confirmations
      BY <2>2 DEF Pruned, WellFormed, Store
    <3> QED BY <3>1, <3>2
  <2> HIDE DEF u
  <2>4. /\ WellFormed(v) /\ SameEvidence(u, v) /\ v.annotations = u.annotations
        /\ Confirmed(u) \subseteq Confirmed(v)
    BY <2>3, SettledFacts, SettledKeepsConfirmed
  <2> HIDE DEF v
  <2>5. /\ SameEvidence(v, store') /\ store'.annotations = v.annotations
        /\ Confirmed(v) \subseteq Confirmed(store')
    BY <2>1, <2>4, SettledFacts, SettledKeepsConfirmed
  <2>6. KeptFrom(store, u, S)
    <3>1. \A o \in S : /\ store'.annotations[o] # None
                       /\ store'.annotations[o].text = store.annotations[o].text
                       /\ store'.identity = store.identity
                       /\ Available(store', o)
                       /\ StructureMatches(store', store.confirmations[o].basis)
      BY DEF Undisturbed, EvidenceKept, Available
    <3>2. /\ Latest(store') = Latest(u) /\ store'.snapshots = u.snapshots
          /\ store'.relations = u.relations /\ store'.identity = u.identity
          /\ store'.annotations = u.annotations
      BY <2>4, <2>5 DEF SameEvidence, Latest
    <3>3. \A o : Available(store', o) <=> Available(u, o)
      BY <3>2 DEF Available
    <3>4. \A b : StructureMatches(store', b) <=> StructureMatches(u, b)
      BY <3>2 DEF StructureMatches
    <3> QED BY <1>1, <2>2, <2>3, <3>1, <3>2, <3>3, <3>4 DEF KeptFrom
  <2>7. S \subseteq Confirmed(u)
    BY <2>6, KeptStaysConfirmed DEF Undisturbed
  <2> QED BY <2>4, <2>5, <2>7
<1> QED BY <1>3, <1>4

\* A confirmation replaces one record, by one with an id of its own.
LEMMA ConfirmationKeeps ==
  ASSUME IInv, NEW S, Undisturbed(S), NEW d \in Id, NEW x \in Text, ConfirmDraft(d, x)
  PROVE  S \subseteq Confirmed(store')
<1> DEFINE o == drafts[d].object
           b == drafts[d].basis
           s1 == Settled(store)
           s2 == Tick(s1)
           s3 == WithConfirmation(s2, o, d, x, b)
<1>1. /\ drafts[d] # None /\ drafts[d].saved = None
      /\ MayConfirm(store, o, drafts[d].version, b) /\ store' = Settled(s3)
  BY DEF ConfirmDraft, ConfirmedBy
<1>2. o \in Object /\ b \in KnowledgeBasis /\ store.annotations[o] = drafts[d].version
  BY <1>1 DEF IInv, TypeOK, Draft, MayConfirm
<1>3. \A p \in Object : store.confirmations[p] # None => store.confirmations[p].id # d
  BY <1>1 DEF IInv, FreshIds, Unspent
<1>4. Accepts(store, store', o, d, b)
  <2>1. store' = ConfirmedBy(store, o, d, x, b) /\ WellFormed(store) /\ Retained(store)
    BY DEF ConfirmDraft, IInv
  <2> HIDE DEF o, b
  <2> QED BY <1>1, <1>2, <2>1, ConfirmedByFacts
<1> HIDE DEF o, b
<1>5. o \notin S
  <2> SUFFICES ASSUME o \in S PROVE FALSE
    OBVIOUS
  <2>1. store.confirmations[o] # None /\ store'.confirmations[o] # None
        /\ store'.confirmations[o].id = store.confirmations[o].id
    BY UndisturbedFacts
  <2> QED BY <1>2, <1>3, <1>4, <2>1 DEF Accepts
<1>6. WellFormed(store) /\ store.snapshots # {}
  BY <1>1 DEF IInv, MayConfirm, Available
<1>7. /\ WellFormed(s1) /\ s1.snapshots = store.snapshots
      /\ \A p \in Confirmed(store) : s1.confirmations[p] = store.confirmations[p]
  <2>1. /\ WellFormed(s1) /\ s1.snapshots = store.snapshots
    BY <1>6, SettledFacts DEF SameEvidence
  <2>2. store \in Store /\ Confirmed(store) \subseteq Object
    BY <1>6, ConfirmedIsLargest DEF WellFormed
  <2>3. \A p \in Confirmed(store) : s1.confirmations[p] = store.confirmations[p]
    BY <2>2, MarkFacts DEF Settled
  <2> QED BY <2>1, <2>3
<1> HIDE DEF s1
<1>8. WellFormed(s2) /\ s2.snapshots = s1.snapshots /\ s2.confirmations = s1.confirmations
  BY <1>7, TickFacts DEF SameEvidence
<1> HIDE DEF s2
<1>9. WellFormed(s3) /\ \A p \in Object \ {o} : s3.confirmations[p] = s2.confirmations[p]
  <2>1. WellFormed(s2) /\ s2.snapshots # {} /\ o \in Object /\ b \in KnowledgeBasis
    BY <1>2, <1>6, <1>7, <1>8
  <2>2. WellFormed(WithConfirmation(s2, o, d, x, b))
    BY <2>1, WithConfirmationFacts
  <2>3. ASSUME NEW p \in Object \ {o} PROVE s3.confirmations[p] = s2.confirmations[p]
    <3> HIDE DEF s3
    <3>1. s3 = WithConfirmation(s2, o, d, x, b)
      BY DEF s3
    <3> QED BY <2>1, <3>1, WithConfirmationLeaves
  <2> QED BY <2>2, <2>3
<1> HIDE DEF s3
<1>10. ASSUME NEW p \in S PROVE s3.confirmations[p] = store.confirmations[p]
  <2>1. p \in Object \ {o} /\ p \in Confirmed(store)
    BY <1>5, UndisturbedFacts DEF Undisturbed, Closed
  <2> QED BY <1>7, <1>8, <1>9, <2>1
<1> QED BY <1>1, <1>9, <1>10, UndisturbedSettles

LEMMA UnrelatedStep ==
  ASSUME IInv, [Next]_vars
  PROVE  UnrelatedStayConfirmedStep
<1> SUFFICES ASSUME NEW S, Undisturbed(S) PROVE S \subseteq Confirmed(store')
  BY DEF UnrelatedStayConfirmedStep, Undisturbed, Closed
<1>1. WellFormed(store) /\ store \in Store
  BY DEF IInv, WellFormed
<1>2. CASE store' = store
  BY <1>2 DEF Undisturbed, Closed
<1>3. CASE store' = Settled(store)
  BY <1>1, <1>3, UndisturbedSettles
<1>4. ASSUME NEW i \in Identity, SaveDataSource(i) PROVE S \subseteq Confirmed(store')
  <2> DEFINE t == [store EXCEPT !.identity = i]
  <2>1. WellFormed(t) /\ t.confirmations = store.confirmations /\ store' = Settled(t)
    BY <1>1, <1>4, IdentityFacts DEF Store, SaveDataSource
  <2> HIDE DEF t
  <2> QED BY <2>1, UndisturbedSettles
<1>5. ASSUME NEW keep, PruneSnapshots(keep) PROVE S \subseteq Confirmed(store')
  <2> DEFINE t == Pruned(store, keep)
  <2>1. WellFormed(t) /\ store' = Settled(t)
    BY <1>1, <1>5, PrunedFacts DEF PruneSnapshots
  <2>2. t.confirmations = store.confirmations
    BY <1>1 DEF Pruned, Store
  <2> HIDE DEF t
  <2> QED BY <2>1, <2>2, UndisturbedSettles
<1>6. ASSUME NEW r \in Relation, NEW m \in Meaning, NEW st \in RelationshipStatus,
             SaveRelationship(r, m, st)
      PROVE  S \subseteq Confirmed(store')
  <2> DEFINE s == Tick(store)
             v == [meaning |-> m, status |-> st, at |-> s.clock]
  <2>1. store' = WriteRelation(s, r, v)
    BY <1>6 DEF SaveRelationship
  <2>2. /\ WellFormed(s) /\ s.confirmations = store.confirmations /\ s.relations = store.relations
        /\ s.clock \in Nat
    BY <1>1, TickFacts DEF SameEvidence, WellFormed, Store
  <2>3. v \in Relationship
    BY <2>2 DEF Relationship
  <2> HIDE DEF s, v
  <2> QED BY <2>1, <2>2, <2>3, WriteRelationKeeps
<1>7. ASSUME NEW r \in Relation, DeleteRelationship(r) PROVE S \subseteq Confirmed(store')
  BY <1>1, <1>7, WriteRelationKeeps DEF DeleteRelationship
<1>8. store.identity \in Identity
  BY <1>1 DEF Store
<1>9. LocalStep => S \subseteq Confirmed(store')
  BY <1>2, <1>3, <1>4, <1>5, <1>6, <1>7, SaveAnnotationKeeps, ImportKeeps, ConfirmationKeeps
     DEF LocalStep, ReadStates, PrepareDraft, CancelDraft, RetryDraft
<1> QED BY <1>2, <1>8, <1>9, CaptureKeeps, DeletionKeeps DEF Next, vars

-----------------------------------------------------------------------------
(* The theorems.                                                           *)

\* The inductive invariant holds: besides the invariants below it says that the
\* id of a draft not yet spent occurs in no record and in no note cited, which
\* is what keeps a confirmation from being mistaken for an earlier one.
THEOREM Inductive == Spec => []IInv
<1>1. Init => IInv
  BY InitIInv
<1>2. IInv /\ [Next]_vars => IInv'
  BY NextStep
<1>3. QED
  BY <1>1, <1>2, PTL DEF Spec

\* Every row keeps the shape the code deserializes.
THEOREM TypeCorrect == Spec => []TypeOK
<1>1. IInv => TypeOK
  BY DEF IInv
<1>2. QED
  BY <1>1, Inductive, PTL

\* No write path leaves a stale record unmarked: save_data_source, captures,
\* pruning, imports and deletions settle, the triggers mark for the rest.
THEOREM DowngradesDurable == Spec => []DowngradesAreDurable
<1>1. IInv => DowngradesAreDurable
  BY DEF IInv, Downgraded, Live, DowngradesAreDurable
<1>2. QED
  BY <1>1, Inductive, PTL

\* prune_snapshots_in keeps the snapshot of every live confirmation.
THEOREM EvidenceIsRetained == Spec => []EvidenceRetained
<1>1. IInv => EvidenceRetained
  BY DEF IInv, Retained, Live, EvidenceRetained
<1>2. QED
  BY <1>1, Inductive, PTL

\* No operation revives a confirmation; only confirm_in issues one.
THEOREM ConfirmationsNeverRevive == Spec => NoRevival
<1>1. IInv /\ [Next]_vars => NoRevivalStep
  BY NextStep
<1>2. QED
  BY <1>1, Inductive, PTL DEF Spec, NoRevival

\* The check of depends_on is enough: an accepted record is in force at commit.
THEOREM AcceptedConfirmationsHold == Spec => AcceptedIsInForce
<1>1. IInv /\ [Next]_vars => AcceptedIsInForceStep
  BY NextStep
<1>2. QED
  BY <1>1, Inductive, PTL DEF Spec, AcceptedIsInForce

\* Unrelated changes stay unrelated: what rests, directly or through notes, on
\* evidence that a step leaves as it was stays confirmed.
THEOREM UnrelatedConfirmationsStay == Spec => UnrelatedStayConfirmed
<1>1. IInv /\ [Next]_vars => UnrelatedStayConfirmedStep
  BY UnrelatedStep
<1>2. QED
  BY <1>1, Inductive, PTL DEF Spec, UnrelatedStayConfirmed

-----------------------------------------------------------------------------
(* Change review                                                           *)

-----------------------------------------------------------------------------
(* How the snapshots of a store may change.                                *)

Unique(s) == \A x, y \in s.snapshots : x.id = y.id => x = y

\* New snapshots are dated after every earlier one, and at most one is added.
Grows(s, t) ==
  /\ t.clock >= s.clock
  /\ \A y \in t.snapshots : y \in s.snapshots \/ y.id > s.clock
  /\ Unique(s) => Unique(t)

\* The snapshot of the review's baseline stays.
Pins(s, t) ==
  /\ t.baseline = s.baseline
  /\ \A x \in s.snapshots : x.id \in s.baseline => x \in t.snapshots

LEMMA GrowsTransitive ==
  ASSUME NEW s, NEW t, NEW u, s.clock \in Nat, t.clock \in Nat, u.clock \in Nat,
         t.snapshots \subseteq Snapshot, u.snapshots \subseteq Snapshot,
         Grows(s, t), Grows(t, u)
  PROVE  Grows(s, u)
  BY DEF Grows, Snapshot

LEMMA PinsTransitive ==
  ASSUME NEW s, NEW t, NEW u, Pins(s, t), Pins(t, u)
  PROVE  Pins(s, u)
  BY DEF Pins

\* A store whose snapshots, clock and baseline are those of another one.
LEMMA SameSnapshots ==
  ASSUME NEW s, NEW t, s.clock \in Nat, t.snapshots = s.snapshots, t.clock \in Nat, t.clock >= s.clock
  PROVE  Grows(s, t) /\ (t.baseline = s.baseline => Pins(s, t))
  BY DEF Grows, Pins, Unique

\* What a step of Knowledge other than a deletion does to the snapshots.
Evolves(s, t) == WellFormed(t) /\ Grows(s, t) /\ Pins(s, t)

LEMMA EvolvesTransitive ==
  ASSUME NEW s, NEW t, NEW u, WellFormed(s), Evolves(s, t), Evolves(t, u)
  PROVE  Evolves(s, u)
<1>1. s.clock \in Nat /\ t.clock \in Nat /\ u.clock \in Nat
      /\ t.snapshots \subseteq Snapshot /\ u.snapshots \subseteq Snapshot
  BY DEF Evolves, WellFormed, Store
<1> QED BY <1>1, GrowsTransitive, PinsTransitive DEF Evolves

LEMMA SameEvolves ==
  ASSUME NEW s, WellFormed(s), NEW t, WellFormed(t), t.snapshots = s.snapshots,
         t.clock >= s.clock, t.baseline = s.baseline
  PROVE  Evolves(s, t)
<1>1. s.clock \in Nat /\ t.clock \in Nat
  BY DEF WellFormed, Store
<1> QED BY <1>1, SameSnapshots DEF Evolves

LEMMA SettledEvolves ==
  ASSUME NEW s, WellFormed(s)
  PROVE  Evolves(s, Settled(s))
<1>1. s.clock \in Nat
  BY DEF WellFormed, Store
<1> QED BY <1>1, SettledFacts, SameEvolves DEF SameEvidence

LEMMA TickEvolves ==
  ASSUME NEW s, WellFormed(s)
  PROVE  Evolves(s, Tick(s))
<1>1. s.clock \in Nat
  BY DEF WellFormed, Store
<1>2. Tick(s).clock >= s.clock
  BY <1>1, TickFacts
<1> QED BY <1>2, TickFacts, SameEvolves DEF SameEvidence

LEMMA MarkEvolves ==
  ASSUME NEW s, WellFormed(s), NEW S
  PROVE  Evolves(s, Mark(s, S)) /\ Follows(s, Mark(s, S))
<1>1. s \in Store /\ s.clock \in Nat
  BY DEF WellFormed, Store
<1>2. /\ Mark(s, S) \in Store
      /\ Mark(s, S).baseline = s.baseline
      /\ Mark(s, S).annotations = s.annotations
      /\ Mark(s, S).clock = s.clock
      /\ Mark(s, S).snapshots = s.snapshots
      /\ \A o \in Object : (Mark(s, S).confirmations[o] = None) <=> (s.confirmations[o] = None)
      /\ Follows(s, Mark(s, S))
  BY <1>1, MarkFacts DEF SameEvidence
<1>3. WellFormed(Mark(s, S))
  BY <1>2 DEF WellFormed, Dated, Annotated
<1> QED BY <1>1, <1>2, <1>3, SameEvolves

LEMMA WriteAnnotationEvolves ==
  ASSUME NEW s, WellFormed(s), NEW o \in Object, NEW a \in Annotation
  PROVE  Evolves(s, WriteAnnotation(s, o, a))
<1>1. s.clock \in Nat
  BY DEF WellFormed, Store
<1> DEFINE t == WriteAnnotation(s, o, a)
<1>2. t.baseline = s.baseline
  BY DEF WriteAnnotation, Mark
<1>3. WellFormed(t) /\ t.snapshots = s.snapshots /\ t.clock = s.clock
  BY ZenonT(60), WriteAnnotationFacts DEF SameEvidence
<1> HIDE DEF t
<1>4. Evolves(s, t)
  BY <1>1, <1>2, <1>3, SameEvolves
<1> QED BY <1>4 DEF t

LEMMA WriteRelationEvolves ==
  ASSUME NEW s, WellFormed(s), NEW r \in Relation, NEW v \in Relationship \cup {None}
  PROVE  Evolves(s, WriteRelation(s, r, v))
<1>1. s.clock \in Nat
  BY DEF WellFormed, Store
<1>2. /\ WriteRelation(s, r, v).baseline = s.baseline
      /\ WriteRelation(s, r, v).snapshots = s.snapshots
      /\ WriteRelation(s, r, v).clock = s.clock
  BY DEF WriteRelation, Mark
<1> QED BY <1>1, <1>2, WriteRelationFacts, SameEvolves

LEMMA IdentityEvolves ==
  ASSUME NEW s, WellFormed(s), NEW i \in Identity
  PROVE  Evolves(s, [s EXCEPT !.identity = i])
<1>1. s.clock \in Nat /\ s \in Store
  BY DEF WellFormed, Store
<1> DEFINE t == [s EXCEPT !.identity = i]
<1>2. t.baseline = s.baseline /\ t.snapshots = s.snapshots /\ t.clock = s.clock
  BY <1>1 DEF Store
<1>3. WellFormed(t)
  BY IdentityFacts
<1> HIDE DEF t
<1>4. Evolves(s, t)
  BY <1>1, <1>2, <1>3, SameEvolves
<1> QED BY <1>4 DEF t

\* A capture is dated after every snapshot there is.
LEMMA CaptureEvolves ==
  ASSUME NEW s, WellFormed(s), NEW c \in Catalog
  PROVE  Evolves(s, AddSnapshot(Tick(s), c))
<1> DEFINE t == AddSnapshot(Tick(s), c)
           new == [id |-> s.clock + 1, structure |-> c]
<1>1. s \in Store /\ s.clock \in Nat /\ s.snapshots \subseteq Snapshot /\ Dated(s)
  BY DEF WellFormed, Store
<1>2. /\ t.snapshots = s.snapshots \cup {new}
      /\ t.clock = s.clock + 1
      /\ t.baseline = s.baseline
  BY <1>1 DEF AddSnapshot, Tick, Store
<1>3. new.id > s.clock /\ \A x \in s.snapshots : x.id \in Nat /\ x.id <= s.clock
  BY <1>1 DEF Dated, Snapshot
<1>4. Grows(s, t)
  <2> HIDE DEF t, new
  <2>1. Unique(s) => Unique(t)
    BY <1>1, <1>2, <1>3 DEF Unique
  <2> QED BY <1>1, <1>2, <1>3, <2>1 DEF Grows
<1>5. Pins(s, t)
  BY <1>2 DEF Pins
<1>6. WellFormed(t)
  BY TickFacts, AddSnapshotFacts
<1> QED BY <1>4, <1>5, <1>6 DEF Evolves

\* Pruning keeps the baseline.
LEMMA PrunedEvolves ==
  ASSUME NEW s, WellFormed(s), NEW keep
  PROVE  Evolves(s, Pruned(s, keep))
<1> DEFINE t == Pruned(s, keep)
<1>1. s \in Store /\ s.clock \in Nat
  BY DEF WellFormed, Store
<1>2. /\ t.clock = s.clock /\ t.baseline = s.baseline /\ t.snapshots \subseteq s.snapshots
      /\ \A x \in s.snapshots : x.id \in s.baseline => x \in t.snapshots
  BY <1>1 DEF Pruned, Protected, Store
<1>3. WellFormed(t)
  BY PrunedFacts
<1> HIDE DEF t
<1>4. Unique(s) => Unique(t)
  BY <1>2 DEF Unique
<1>5. Grows(s, t) /\ Pins(s, t)
  BY <1>1, <1>2, <1>4 DEF Grows, Pins
<1>6. Evolves(s, t)
  BY <1>3, <1>5 DEF Evolves
<1> QED BY <1>6 DEF t

LEMMA StoredEvolves ==
  ASSUME NEW s, WellFormed(s), NEW c \in Catalog, NEW keep
  PROVE  Evolves(s, Stored(s, c, keep))
<1>1. CASE s.snapshots # {} /\ Latest(s).structure = c
  <2>1. Stored(s, c, keep) = s
    BY <1>1 DEF Stored
  <2>2. s.clock \in Nat
    BY DEF WellFormed, Store
  <2> QED BY <2>1, <2>2, SameEvolves
<1>2. CASE ~ (s.snapshots # {} /\ Latest(s).structure = c)
  <2> DEFINE t == AddSnapshot(Tick(s), c)
             u == Pruned(t, keep)
  <2>1. Stored(s, c, keep) = Settled(u)
    BY <1>2 DEF Stored
  <2>2. Evolves(s, t) /\ WellFormed(t)
    BY CaptureEvolves DEF Evolves
  <2> HIDE DEF t
  <2>3. Evolves(t, u) /\ WellFormed(u)
    BY <2>2, PrunedEvolves DEF Evolves
  <2> HIDE DEF u
  <2>4. Evolves(u, Settled(u))
    BY <2>3, SettledEvolves
  <2>5. Evolves(s, u)
    BY <2>2, <2>3, EvolvesTransitive
  <2> QED BY <2>1, <2>4, <2>5, EvolvesTransitive
<1> QED BY <1>1, <1>2

LEMMA ImportedEvolves ==
  ASSUME NEW s, WellFormed(s), NEW b \in Bundle
  PROVE  Evolves(s, Imported(s, b))
<1> DEFINE i == IF b.profile /\ (FileBased \/ s.identity = NoProfile) THEN Unbound ELSE s.identity
           s1 == [s EXCEPT !.identity = i]
           s2 == IF b.structure = None THEN s1 ELSE AddSnapshot(Tick(s1), b.structure)
           t == Imported(s, b)
<1>1. s \in Store /\ i \in Identity
  BY ValueAssumption DEF WellFormed, Store
<1>2. /\ t.snapshots = s2.snapshots
      /\ t.clock = s2.clock
      /\ t.baseline = s2.baseline
  BY DEF Imported, Mark
<1> HIDE DEF i
<1>3. Evolves(s, s1) /\ WellFormed(s1)
  BY <1>1, IdentityEvolves DEF Evolves
<1> HIDE DEF s1
<1>4. Evolves(s1, s2) /\ WellFormed(s2)
  <2>1. CASE b.structure = None
    <3>1. s1.clock \in Nat
      BY <1>3 DEF WellFormed, Store
    <3> QED BY <1>3, <2>1, <3>1, SameEvolves
  <2>2. CASE b.structure # None
    <3>1. b.structure \in Catalog
      BY <2>2, ValueAssumption
    <3> QED BY <1>3, <2>2, <3>1, CaptureEvolves DEF Evolves
  <2> QED BY <2>1, <2>2
<1> HIDE DEF s2
<1>5. WellFormed(t)
  BY ImportedFacts
<1> HIDE DEF t
<1>6. Evolves(s2, t)
  <2>1. s2.clock \in Nat
    BY <1>4 DEF WellFormed, Store
  <2> QED BY <1>2, <1>4, <1>5, <2>1, SameEvolves
<1>7. Evolves(s, s2)
  BY <1>3, <1>4, EvolvesTransitive
<1> QED BY <1>6, <1>7, EvolvesTransitive DEF t

-----------------------------------------------------------------------------
(* A step of Knowledge.                                                    *)

\* Confirming changes neither snapshots nor baseline.
LEMMA ConfirmedByEvolves ==
  ASSUME NEW s, WellFormed(s), Retained(s), NEW o \in Object, NEW d \in Id, NEW x \in Text,
         NEW b \in KnowledgeBasis, MayConfirm(s, o, s.annotations[o], b)
  PROVE  Evolves(s, ConfirmedBy(s, o, d, x, b))
<1> DEFINE t == ConfirmedBy(s, o, d, x, b)
<1>1. s.clock \in Nat
  BY DEF WellFormed, Store
<1>2. t.baseline = s.baseline
  BY DEF ConfirmedBy, Settled, WithConfirmation, WriteAnnotation, Mark, Tick
<1>3. WellFormed(t) /\ t.snapshots = s.snapshots /\ t.clock = s.clock + 1
  BY ConfirmedByFacts DEF SameEvidence
<1> HIDE DEF t
<1>4. Evolves(s, t)
  BY <1>1, <1>2, <1>3, SameEvolves
<1> QED BY <1>4 DEF t

LEMMA EvolvesSettled ==
  ASSUME NEW s, WellFormed(s), NEW t, Evolves(s, t)
  PROVE  Evolves(s, Settled(t))
<1>1. WellFormed(t)
  BY DEF Evolves
<1> QED BY <1>1, SettledEvolves, EvolvesTransitive

LEMMA LocalEvolves ==
  ASSUME IInv, LocalStep
  PROVE  Evolves(store, store')
<1> USE DEF IInv
<1>1. WellFormed(store) /\ store \in Store /\ Retained(store)
  BY DEF WellFormed
<1>2. ASSUME NEW i \in Identity, SaveDataSource(i) PROVE Evolves(store, store')
  BY <1>1, <1>2, IdentityEvolves, EvolvesSettled DEF SaveDataSource
<1>3. ASSUME NEW keep, PruneSnapshots(keep) PROVE Evolves(store, store')
  BY <1>1, <1>3, PrunedEvolves, EvolvesSettled DEF PruneSnapshots
<1>4. WellFormed(Tick(store)) /\ Evolves(store, Tick(store)) /\ Tick(store).clock \in Nat
  BY <1>1, TickEvolves, TickFacts DEF WellFormed, Store
<1>5. ASSUME NEW o \in Object, NEW x \in Text \cup {NoText}, SaveAnnotation(o, x)
      PROVE  Evolves(store, store')
  <2> DEFINE a == [text |-> x, at |-> Tick(store).clock]
  <2>1. a \in Annotation
    BY <1>4 DEF Annotation
  <2>2. store' = WriteAnnotation(Tick(store), o, a)
    BY <1>5 DEF SaveAnnotation
  <2> HIDE DEF a
  <2> QED BY <1>1, <1>4, <2>1, <2>2, WriteAnnotationEvolves, EvolvesTransitive
<1>6. ASSUME NEW r \in Relation, NEW m \in Meaning, NEW st \in RelationshipStatus,
             SaveRelationship(r, m, st)
      PROVE  Evolves(store, store')
  <2> DEFINE v == [meaning |-> m, status |-> st, at |-> Tick(store).clock]
  <2>1. v \in Relationship
    BY <1>4 DEF Relationship
  <2>2. store' = WriteRelation(Tick(store), r, v)
    BY <1>6 DEF SaveRelationship
  <2> HIDE DEF v
  <2> QED BY <1>1, <1>4, <2>1, <2>2, WriteRelationEvolves, EvolvesTransitive
<1>7. ASSUME NEW r \in Relation, DeleteRelationship(r) PROVE Evolves(store, store')
  BY <1>1, <1>7, WriteRelationEvolves DEF DeleteRelationship
<1>8. ASSUME NEW b \in Bundle, ImportPortableModel(b) PROVE Evolves(store, store')
  BY <1>1, <1>8, ImportedEvolves, EvolvesSettled DEF ImportPortableModel
<1>9. CASE store' = Settled(store)
  BY <1>1, <1>9, SettledEvolves
<1>10. CASE store' = store
  BY <1>1, <1>4, <1>10, SameEvolves DEF Store
<1>11. ASSUME NEW d \in Id, NEW x \in Text, ConfirmDraft(d, x) PROVE Evolves(store, store')
  <2>1. drafts[d].object \in Object /\ drafts[d].basis \in KnowledgeBasis
    BY <1>11 DEF ConfirmDraft, TypeOK, Draft
  <2> QED BY <1>1, <1>11, <2>1, ConfirmedByEvolves DEF ConfirmDraft, MayConfirm
<1> QED BY <1>2, <1>3, <1>5, <1>6, <1>7, <1>8, <1>9, <1>10, <1>11
     DEF LocalStep, ReadStates, PrepareDraft, CancelDraft, RetryDraft

LEMMA CaptureStepEvolves ==
  ASSUME IInv, NEW i \in Identity, NEW c \in Catalog, NEW keep, SaveCapture(i, c, keep)
  PROVE  Evolves(store, store')
<1> DEFINE s == [store EXCEPT !.identity = i]
<1>1. WellFormed(store)
  BY DEF IInv
<1>2. Evolves(store, s) /\ WellFormed(s)
  BY <1>1, IdentityEvolves DEF Evolves
<1>3. store' = Settled(Stored(s, c, keep))
  BY DEF SaveCapture
<1> HIDE DEF s
<1>4. Evolves(store, Stored(s, c, keep))
  BY <1>1, <1>2, StoredEvolves, EvolvesTransitive
<1> QED BY <1>1, <1>3, <1>4, EvolvesSettled

-----------------------------------------------------------------------------
(* The rows of a review.                                                   *)

BaselineRow == [snapshot : Nat, identity : Identity, round : Nat, completed : BOOLEAN]
ReceiptRow  == [status : {"failed"}] \cup [status : {"success"}, snapshot : Nat, identity : Identity]
GroupRow    == [tables : SUBSET Table, at : Nat]
ReviewRows(E) ==
  [baseline : BaselineRow \cup {None}, rounds : Nat, events : Seq(E),
   receipt : ReceiptRow \cup {None}, groups : [Group -> GroupRow \cup {None}]]

\* What makes an item settled is never said of an item that can only be
\* deferred: a gap in the coverage, a relationship that cannot be used.
Settling == {"seen", "seenBatch", "acceptLimitation"}
Legitimate(e) ==
  e.action \in Settling =>
    \A p \in e.items : /\ p[1][1] # "coverage"
                       /\ p[1][1] = "relationship" => p[2][2][1] = FALSE

\* An event names a round that was begun and, when it archives, an object and its text.
EventOK(rounds, e) ==
  /\ e.round \in 1 .. rounds
  /\ e.action = "archive" => e.object \in Object /\ e.text \in Text \cup {NoText}
  /\ Legitimate(e)

RowsOK(rv) ==
  /\ \E E : rv \in ReviewRows(E)
  /\ HasBaseline(rv) => rv.baseline.round \in 1 .. rv.rounds
  /\ \A n \in DOMAIN rv.events : EventOK(rv.rounds, rv.events[n])

\* rw has the decisions, receipt, groups and baseline snapshot of rv; only its
\* round may be another one, and it is completed only if rv was.
Continues(rv, rw) ==
  /\ HasBaseline(rw) <=> HasBaseline(rv)
  /\ HasBaseline(rv) => /\ rw.baseline.snapshot = rv.baseline.snapshot
                        /\ rw.baseline.identity = rv.baseline.identity
  /\ rw.events = rv.events /\ rw.receipt = rv.receipt /\ rw.groups = rv.groups
  /\ Completed(rw) => Completed(rv)

LEMMA AppendFacts ==
  ASSUME NEW E, NEW es \in Seq(E), NEW e
  PROVE  /\ Append(es, e) \in Seq(E \cup {e})
         /\ Len(es) \in Nat /\ DOMAIN es = 1 .. Len(es)
         /\ Len(Append(es, e)) = Len(es) + 1
         /\ DOMAIN Append(es, e) = 1 .. Len(es) + 1
         /\ \A n \in DOMAIN es : Append(es, e)[n] = es[n]
         /\ Append(es, e)[Len(es) + 1] = e
<1>1. es \in Seq(E \cup {e})
  OBVIOUS
<1>2. e \in E \cup {e}
  OBVIOUS
<1> DEFINE F == E \cup {e}
<1> HIDE DEF F
<1>3. es \in Seq(F) /\ e \in F
  BY <1>1, <1>2 DEF F
<1>4. Append(es, e) \in Seq(F) /\ Len(es) \in Nat /\ DOMAIN es = 1 .. Len(es)
      /\ Len(Append(es, e)) = Len(es) + 1
  BY <1>3
<1>5. DOMAIN Append(es, e) = 1 .. Len(es) + 1
  BY <1>4
<1>6. /\ \A n \in DOMAIN es : Append(es, e)[n] = es[n]
      /\ Append(es, e)[Len(es) + 1] = e
  BY <1>3, <1>4
<1> QED BY <1>4, <1>5, <1>6 DEF F

LEMMA ContinuesTransitive ==
  ASSUME NEW rv, NEW rw, NEW rx, Continues(rv, rw), Continues(rw, rx)
  PROVE  Continues(rv, rx)
  BY DEF Continues

LEMMA NewRoundFacts ==
  ASSUME NEW rv, RowsOK(rv), HasBaseline(rv)
  PROVE  RowsOK(NewRound(rv)) /\ Continues(rv, NewRound(rv)) /\ ~ Completed(NewRound(rv))
<1>1. PICK E : rv \in ReviewRows(E)
  BY DEF RowsOK
<1> DEFINE b == [rv.baseline EXCEPT !.round = rv.rounds + 1, !.completed = FALSE]
           rw == NewRound(rv)
<1>2. rv.baseline \in BaselineRow /\ rv.rounds \in Nat
  BY <1>1 DEF HasBaseline, ReviewRows
<1>3. /\ b \in BaselineRow /\ b.snapshot = rv.baseline.snapshot /\ b.identity = rv.baseline.identity
      /\ b.round = rv.rounds + 1 /\ b.completed = FALSE
  <2>1. b.snapshot = rv.baseline.snapshot /\ b.identity = rv.baseline.identity
    BY <1>2 DEF BaselineRow
  <2>2. b.round = rv.rounds + 1
    BY <1>2 DEF BaselineRow
  <2>3. b.completed = FALSE
    BY <1>2 DEF BaselineRow
  <2>4. b \in BaselineRow
    <3> DEFINE b1 == [rv.baseline EXCEPT !.round = rv.rounds + 1]
    <3>1. b1 \in BaselineRow
      BY <1>2 DEF BaselineRow
    <3>2. b = [b1 EXCEPT !.completed = FALSE]
      OBVIOUS
    <3> HIDE DEF b1, b
    <3>3. [b1 EXCEPT !.completed = FALSE] \in BaselineRow
      BY <3>1 DEF BaselineRow
    <3> QED BY <3>2, <3>3
  <2> QED BY <2>1, <2>2, <2>3, <2>4
<1>4. b # None
  BY <1>3, ReviewNoneAssumption DEF BaselineRow
<1>5. /\ rw \in ReviewRows(E) /\ rw.rounds = rv.rounds + 1 /\ rw.events = rv.events
      /\ rw.receipt = rv.receipt /\ rw.groups = rv.groups /\ rw.baseline = b
  <2>1. rw = [rv EXCEPT !.rounds = rv.rounds + 1, !.baseline = b]
    BY <1>1 DEF NewRound, ReviewRows
  <2> HIDE DEF b
  <2>2. rw \in ReviewRows(E)
    <3> DEFINE n == rv.rounds + 1
               rv1 == [rv EXCEPT !.rounds = n]
    <3>0. n \in Nat
      BY <1>2
    <3> HIDE DEF n
    <3>1. rv1 \in ReviewRows(E)
      BY <1>1, <3>0 DEF ReviewRows
    <3>2. rw = [rv1 EXCEPT !.baseline = b]
      BY <2>1 DEF n
    <3> HIDE DEF rv1
    <3>3. [rv1 EXCEPT !.baseline = b] \in ReviewRows(E)
      BY <1>3, <3>1 DEF ReviewRows
    <3> QED BY <3>2, <3>3
  <2>3. rw.rounds = rv.rounds + 1 /\ rw.baseline = b
    BY <1>1, <2>1 DEF ReviewRows
  <2>4. rw.events = rv.events /\ rw.receipt = rv.receipt /\ rw.groups = rv.groups
    BY <1>1, <2>1 DEF ReviewRows
  <2> QED BY <2>2, <2>3, <2>4
<1> HIDE DEF rw, b
<1>6. \A n \in DOMAIN rw.events : EventOK(rw.rounds, rw.events[n])
  BY <1>2, <1>5 DEF RowsOK, EventOK
<1>7. RowsOK(rw)
  BY <1>2, <1>3, <1>5, <1>6 DEF RowsOK
<1>8. Continues(rv, rw) /\ ~ Completed(rw)
  BY <1>3, <1>4, <1>5 DEF Continues, HasBaseline, Completed
<1> QED BY <1>7, <1>8 DEF rw

LEMMA ReopenedFacts ==
  ASSUME NEW rv, RowsOK(rv), NEW s, NEW items
  PROVE  /\ RowsOK(ReopenedByCapture(s, rv)) /\ Continues(rv, ReopenedByCapture(s, rv))
         /\ RowsOK(ReopenedByItems(rv, items)) /\ Continues(rv, ReopenedByItems(rv, items))
         /\ Completed(ReopenedByItems(rv, items)) => Unresolved(rv, items) = {}
<1>1. Continues(rv, rv)
  BY DEF Continues
<1>2. Completed(rv) => HasBaseline(rv)
  BY DEF Completed
<1> QED BY <1>1, <1>2, NewRoundFacts DEF ReopenedByCapture, ReopenedByItems

\* Appending an event that is in order.
LEMMA RecordedFacts ==
  ASSUME NEW rv, RowsOK(rv), NEW action, NEW items, NEW object, NEW text,
         Legitimate(Event(rv, action, items, object, text)),
         HasBaseline(rv), action = "archive" => object \in Object /\ text \in Text \cup {NoText}
  PROVE  LET rw == Recorded(rv, action, items, object, text)
         IN  /\ RowsOK(rw)
             /\ rw.baseline = rv.baseline /\ rw.receipt = rv.receipt /\ rw.groups = rv.groups
             /\ rw.events = Append(rv.events, Event(rv, action, items, object, text))
<1>1. PICK E : rv \in ReviewRows(E)
  BY DEF RowsOK
<1> DEFINE e == Event(rv, action, items, object, text)
           rw == Recorded(rv, action, items, object, text)
<1>2. rv.events \in Seq(E) /\ rv.rounds \in Nat
  BY <1>1 DEF ReviewRows
<1>3. rw = [rv EXCEPT !.events = Append(rv.events, e)]
  BY <1>1 DEF Recorded, ReviewRows
<1>4. e.action = action /\ e.object = object /\ e.text = text /\ e.round = rv.baseline.round
  BY DEF Event, Round
<1>5. EventOK(rv.rounds, e)
  BY <1>4 DEF EventOK, RowsOK
<1> HIDE DEF e
<1>6. Append(rv.events, e) \in Seq(E \cup {e})
  BY <1>2, AppendFacts
<1> DEFINE es == Append(rv.events, e)
<1>7. DOMAIN es = 1 .. Len(rv.events) + 1 /\ \A n \in DOMAIN es : EventOK(rv.rounds, es[n])
  <2>1. /\ Len(rv.events) \in Nat /\ DOMAIN rv.events = 1 .. Len(rv.events)
        /\ DOMAIN es = 1 .. Len(rv.events) + 1
        /\ \A n \in DOMAIN rv.events : es[n] = rv.events[n]
        /\ es[Len(rv.events) + 1] = e
    BY <1>2, AppendFacts
  <2> HIDE DEF es
  <2>2. ASSUME NEW n \in DOMAIN es PROVE EventOK(rv.rounds, es[n])
    <3>1. CASE n \in DOMAIN rv.events
      BY <2>1, <3>1 DEF RowsOK
    <3>2. CASE n = Len(rv.events) + 1
      BY <1>5, <2>1, <3>2
    <3> QED BY <2>1, <3>1, <3>2
  <2> QED BY <2>1, <2>2
<1> HIDE DEF es
<1>8. /\ rw \in ReviewRows(E \cup {e}) /\ rw.events = es /\ rw.rounds = rv.rounds
      /\ rw.baseline = rv.baseline /\ rw.receipt = rv.receipt /\ rw.groups = rv.groups
  BY <1>1, <1>3, <1>6 DEF ReviewRows, es
<1>9. RowsOK(rw)
  BY <1>7, <1>8 DEF RowsOK, HasBaseline
<1> QED BY <1>8, <1>9 DEF es, e

\* rw are the rows of rv with the event e besides.
Appends(rv, rw, e) ==
  /\ RowsOK(rw) /\ rw.baseline = rv.baseline /\ rw.events = Append(rv.events, e)
  /\ rw.receipt = rv.receipt /\ rw.groups = rv.groups

LEMMA Recording ==
  ASSUME NEW rv, RowsOK(rv), HasBaseline(rv),
         NEW action, NEW items, NEW object, NEW text,
         NEW e, e = Event(rv, action, items, object, text), Legitimate(e),
         NEW rw, rw = Recorded(rv, action, items, object, text),
         \/ action # "archive"
         \/ object \in Object /\ text \in Text \cup {NoText}
  PROVE  Appends(rv, rw, e)
  BY RecordedFacts DEF Appends

-----------------------------------------------------------------------------
(* What a request is answered with.                                        *)

\* What change_review pins.
Pin(rv) == IF HasBaseline(rv) THEN {rv.baseline.snapshot} ELSE {}

\* Two stores that differ in the pinned baseline alone.
AllButBaseline(s, t) ==
  /\ t.snapshots = s.snapshots /\ t.identity = s.identity /\ t.relations = s.relations
  /\ t.annotations = s.annotations /\ t.confirmations = s.confirmations /\ t.clock = s.clock

LEMMA SameConfirmed ==
  ASSUME NEW s, NEW t, AllButBaseline(s, t)
  PROVE  /\ Confirmed(t) = Confirmed(s)
         /\ \A o : LocallyValid(t, o) <=> LocallyValid(s, o)
<1>1. \A o : LocallyValid(t, o) <=> LocallyValid(s, o)
  BY DEF AllButBaseline, LocallyValid, Available, Latest, StructureMatches
<1>2. \A S : SelfSupporting(t, S) <=> SelfSupporting(s, S)
  BY <1>1 DEF AllButBaseline, SelfSupporting, NotesMatch
<1> QED BY <1>1, <1>2 DEF Confirmed

LEMMA PinnedFacts ==
  ASSUME NEW s, WellFormed(s), NEW rv, RowsOK(rv)
  PROVE  /\ WellFormed(Pinned(s, rv)) /\ Pinned(s, rv).baseline = Pin(rv)
         /\ AllButBaseline(s, Pinned(s, rv))
         /\ Downgraded(s) => Downgraded(Pinned(s, rv))
         /\ Retained(s) => Retained(Pinned(s, rv))
         /\ Confirmed(Pinned(s, rv)) = Confirmed(s)
<1> DEFINE t == Pinned(s, rv)
<1>1. s \in Store
  BY DEF WellFormed
<1>2. Pin(rv) \in SUBSET Nat
  BY DEF Pin, RowsOK, ReviewRows, HasBaseline, BaselineRow
<1>3. t = [s EXCEPT !.baseline = Pin(rv)]
  BY DEF Pinned, Pin
<1>4. t \in Store /\ t.baseline = Pin(rv) /\ AllButBaseline(s, t)
  BY <1>1, <1>2, <1>3 DEF Store, AllButBaseline
<1> HIDE DEF t
<1>5. WellFormed(t)
  BY <1>4 DEF WellFormed, Dated, Annotated, AllButBaseline
<1>6. Confirmed(t) = Confirmed(s) /\ (Downgraded(s) => Downgraded(t))
  BY <1>4, SameConfirmed DEF Downgraded, Live, AllButBaseline
<1>7. Retained(s) => Retained(t)
  BY <1>4 DEF Retained, Live, AllButBaseline
<1> QED BY <1>4, <1>5, <1>6, <1>7 DEF t

\* The items depend on the review's rows only through the baseline snapshot,
\* the receipt and the groups.
LEMMA ItemsOfContinued ==
  ASSUME NEW s, NEW rv, NEW rw, Continues(rv, rw)
  PROVE  Items(s, rw) = Items(s, rv) /\ Before(s, rw) = Before(s, rv)
<1>1. Before(s, rw) = Before(s, rv)
  BY DEF Before, Continues
<1>2. HasBaseline(rw) <=> HasBaseline(rv)
  BY DEF Continues
<1>3. CoverageItems(s, rw) = CoverageItems(s, rv)
  BY <1>1, <1>2 DEF CoverageItems, Continues
<1>4. StructureItems(s, rw) = StructureItems(s, rv)
  BY <1>1 DEF StructureItems
<1>5. RelationshipItems(s, rw) = RelationshipItems(s, rv)
  <2>1. \A r : NeedsReview(s, rw, r) <=> NeedsReview(s, rv, r)
    BY <1>1 DEF NeedsReview
  <2> QED BY <2>1 DEF RelationshipItems
<1>6. GroupItems(s, rw) = GroupItems(s, rv)
  BY DEF GroupItems, Missing, Continues
<1> QED BY <1>1, <1>3, <1>4, <1>5, <1>6 DEF Items

\* An answer: the confirmations are settled, the round reopened if need be.
LEMMA WorkspaceFacts ==
  ASSUME NEW s, WellFormed(s), NEW rv, RowsOK(rv)
  PROVE  LET w == Workspace(s, rv)
             before == ReopenedByCapture(Settled(s), rv)
         IN  /\ w.store = Pinned(Settled(s), w.review)
             /\ w.revision = Revision(Settled(s), w.review)
             /\ w.items = Items(Settled(s), w.review)
             /\ w.open = Unresolved(before, w.items)
             /\ w.completed = Completed(w.review)
             /\ w.completed => w.open = {}
             /\ RowsOK(w.review) /\ Continues(rv, w.review)
             /\ RowsOK(before) /\ Continues(rv, before)
             /\ Completed(w.review) => Completed(before)
<1> DEFINE t == Settled(s)
           before == ReopenedByCapture(t, rv)
           items == Items(t, rv)
           after == ReopenedByItems(before, items)
           w == Workspace(s, rv)
<1>1. /\ w.store = Pinned(t, after) /\ w.review = after /\ w.revision = Revision(t, after)
      /\ w.items = items /\ w.open = Unresolved(before, items) /\ w.completed = Completed(after)
  <2>1. w = Listed(t, before, items)
    BY DEF Workspace, ReviewOf
  <2> HIDE DEF w, t, before, items
  <2>2. w = Projection(t, after, items, Unresolved(before, items))
    BY <2>1 DEF Listed
  <2> HIDE DEF after
  <2> QED BY <2>2 DEF Projection
<1> HIDE DEF w, t
<1>2. RowsOK(before) /\ Continues(rv, before)
  BY ReopenedFacts
<1> HIDE DEF before
<1>3. /\ RowsOK(after) /\ Continues(before, after)
      /\ Completed(after) => Unresolved(before, items) = {}
  BY <1>2, ReopenedFacts
<1> HIDE DEF after
<1>4. Continues(rv, after) /\ (Completed(after) => Completed(before))
  BY <1>2, <1>3, ContinuesTransitive DEF Continues
<1>5. items = Items(t, after)
  BY <1>4, ItemsOfContinued
<1> HIDE DEF items
<1> QED BY <1>1, <1>2, <1>3, <1>4, <1>5 DEF w, before, t

-----------------------------------------------------------------------------
(* What an item offers.                                                    *)

\* The item j as it is listed: its evidence is digested with the identity.
Digested(s, j) == [j EXCEPT !.evidence = <<s.identity, @>>]

LEMMA DigestedFields ==
  ASSUME NEW s, NEW kind, NEW key, NEW subject, NEW reason, NEW evidence, NEW actions
  PROVE  LET i == Digested(s, Item(kind, key, subject, reason, evidence, actions))
         IN  /\ i.kind = kind /\ i.key = <<kind, key>> /\ i.subject = subject
             /\ i.evidence = <<s.identity, <<reason, evidence>>>> /\ i.actions = actions
  BY DEF Digested, Item

\* Gaps in the coverage and relationships that cannot be used are not settled
\* by looking at them; what an item acts on exists.
Offers(s, i) ==
  /\ i.kind \in {"coverage", "structure", "annotation", "relationship", "group"}
  /\ i.key[1] = i.kind
  /\ i.kind = "coverage" => i.actions = {"defer"}
  /\ i.kind = "relationship" =>
       /\ i.actions \cap Settling # {} => i.evidence[2][1] = FALSE
  /\ {"archive", "confirm"} \cap i.actions # {} =>
       i.subject \in Object /\ s.annotations[i.subject] # None
  /\ "confirm" \in i.actions => Available(s, i.subject)
  /\ "disable" \in i.actions => i.subject \in Relation /\ s.relations[i.subject] # None

LEMMA ItemsOffer ==
  ASSUME NEW s, NEW rv, NEW i \in Items(s, rv)
  PROVE  Offers(s, i)
<1>1. PICK j \in CoverageItems(s, rv) \cup StructureItems(s, rv) \cup AnnotationItems(s)
                  \cup RelationshipItems(s, rv) \cup GroupItems(s, rv) : i = Digested(s, j)
  BY DEF Items, Digested
<1>2. CASE j \in CoverageItems(s, rv)
  <2>1. \E key, reason, evidence : j = Item("coverage", key, None, reason, evidence, {"defer"})
    BY <1>2 DEF CoverageItems
  <2> QED BY <1>1, <2>1, DigestedFields DEF Offers, Settling
<1>3. CASE j \in StructureItems(s, rv)
  <2>1. \E key, t, reason, evidence : j = Item("structure", key, t, reason, evidence, {"seen", "defer"})
    BY <1>3 DEF StructureItems
  <2> QED BY <1>1, <2>1, DigestedFields DEF Offers, Settling
<1>4. CASE j \in AnnotationItems(s)
  <2>1. PICK o \in Object : /\ s.annotations[o] # None
                            /\ j = Item("annotation", o, o, Status(s, o), AnnotationEvidence(s, o),
                                        IF Available(s, o) THEN {"confirm", "defer", "archive"}
                                                           ELSE {"defer", "archive"})
    BY <1>4 DEF AnnotationItems
  <2> DEFINE actions == IF Available(s, o) THEN {"confirm", "defer", "archive"} ELSE {"defer", "archive"}
  <2>2. /\ i.kind = "annotation" /\ i.key = <<"annotation", o>> /\ i.subject = o
        /\ i.actions = actions
    BY <1>1, <2>1, DigestedFields
  <2>3. /\ "disable" \notin actions
        /\ "confirm" \in actions => Available(s, o)
    OBVIOUS
  <2> HIDE DEF actions
  <2> QED BY <2>1, <2>2, <2>3 DEF Offers
<1>5. CASE j \in RelationshipItems(s, rv)
  <2>1. PICK r \in Relation : /\ s.relations[r] # None
                              /\ j = Item("relationship", r, r, Unusable(s, r),
                                          <<s.relations[r], {<<t, Latest(s).structure[t]>> : t \in Ends[r]}>>,
                                          IF Unusable(s, r) THEN {"disable", "defer"}
                                                            ELSE {"seen", "disable", "defer"})
    BY <1>5 DEF RelationshipItems, NeedsReview
  <2> DEFINE actions == IF Unusable(s, r) THEN {"disable", "defer"} ELSE {"seen", "disable", "defer"}
  <2>2. /\ i.kind = "relationship" /\ i.key = <<"relationship", r>> /\ i.subject = r
        /\ i.actions = actions
        /\ i.evidence = <<s.identity, <<Unusable(s, r),
             <<s.relations[r], {<<t, Latest(s).structure[t]>> : t \in Ends[r]}>> >> >>
    BY <1>1, <2>1, DigestedFields
  <2>3. /\ "archive" \notin actions /\ "confirm" \notin actions
        /\ actions \cap Settling # {} => ~ Unusable(s, r)
    BY DEF Settling
  <2>4. i.evidence[2][1] = Unusable(s, r)
    BY <2>2
  <2>5. ~ Unusable(s, r) => i.evidence[2][1] = FALSE
    BY <2>4
  <2> HIDE DEF actions
  <2> QED BY <2>1, <2>2, <2>3, <2>5 DEF Offers
<1>6. CASE j \in GroupItems(s, rv)
  <2>1. \E g, evidence : j = Item("group", g, g, "missingReferences", evidence, {"acceptLimitation", "defer"})
    BY <1>6 DEF GroupItems
  <2> QED BY <1>1, <2>1, DigestedFields DEF Offers
<1> QED BY <1>1, <1>2, <1>3, <1>4, <1>5, <1>6

\* What a decision on one item records is legitimate.
LEMMA DecisionLegitimate ==
  ASSUME NEW s, NEW rv, NEW i \in Items(s, rv), NEW action \in i.actions, NEW rw, NEW object, NEW text
  PROVE  Legitimate(Event(rw, action, {i}, object, text))
<1>1. Offers(s, i)
  BY ItemsOffer
<1> DEFINE e == Event(rw, action, {i}, object, text)
<1>2. e.action = action /\ e.items = {<<i.key, i.evidence>>}
  BY DEF Event
<1> HIDE DEF e
<1>3. action \in Settling => /\ i.kind # "coverage"
                             /\ i.kind = "relationship" => i.evidence[2][1] = FALSE
  BY <1>1 DEF Offers, Settling
<1>4. \A p \in e.items : p[1][1] = i.kind /\ p[2][2][1] = i.evidence[2][1]
  BY <1>1, <1>2 DEF Offers
<1>5. Legitimate(e)
  BY <1>2, <1>3, <1>4 DEF Legitimate
<1> QED BY <1>5 DEF e

-----------------------------------------------------------------------------
(* One revision, one list of items.                                        *)

\* Snapshots of one id are one snapshot, in a store and in an earlier one.
Agrees(s, t) == \A x \in s.snapshots, y \in t.snapshots : x.id = y.id => x = y

\* The baseline of rv is a snapshot of s.
Known(s, rv) == HasBaseline(rv) => \E x \in s.snapshots : x.id = rv.baseline.snapshot

LEMMA SameRevisionSameItems ==
  ASSUME NEW s, WellFormed(s), Unique(s), s.snapshots # {}, NEW rv, Known(s, rv),
         NEW t, WellFormed(t), Unique(t), t.snapshots # {}, NEW rw, Known(t, rw),
         Agrees(s, t), Revision(s, rv) = Revision(t, rw)
  PROVE  Items(s, rv) = Items(t, rw)
<1>1. /\ Latest(s).id = Latest(t).id /\ s.identity = t.identity /\ s.annotations = t.annotations
      /\ s.confirmations = t.confirmations /\ Confirmed(s) = Confirmed(t) /\ s.relations = t.relations
      /\ rv.baseline = rw.baseline /\ rv.receipt = rw.receipt /\ rv.groups = rw.groups
  BY DEF Revision
<1>2. Latest(s) = Latest(t)
  BY <1>1, LatestIsStored DEF WellFormed, Agrees
<1>3. HasBaseline(rv) <=> HasBaseline(rw)
  BY <1>1 DEF HasBaseline
<1>4. Before(s, rv) = Before(t, rw)
  <2>1. CASE ~ HasBaseline(rv)
    BY <1>3, <2>1 DEF Before
  <2>2. CASE HasBaseline(rv)
    <3>1. PICK x \in s.snapshots : x.id = rv.baseline.snapshot
      BY <2>2 DEF Known
    <3>2. PICK y \in t.snapshots : y.id = rw.baseline.snapshot
      BY <1>3, <2>2 DEF Known
    <3>3. x = y
      BY <1>1, <3>1, <3>2 DEF Agrees
    <3>4. Before(s, rv) = {x}
      BY <2>2, <3>1 DEF Before, Unique
    <3>5. Before(t, rw) = {y}
      BY <1>3, <2>2, <3>2 DEF Before, Unique
    <3> QED BY <3>3, <3>4, <3>5
  <2> QED BY <2>1, <2>2
<1>5. CoverageItems(s, rv) = CoverageItems(t, rw)
  BY <1>1, <1>2, <1>3, <1>4 DEF CoverageItems
<1>6. StructureItems(s, rv) = StructureItems(t, rw)
  BY <1>2, <1>4 DEF StructureItems
<1>7. AnnotationItems(s) = AnnotationItems(t)
  <2>1. \A o : Available(s, o) <=> Available(t, o)
    BY <1>2 DEF Available
  <2>2. \A o : Status(s, o) = Status(t, o)
    BY <1>1, <2>1 DEF Status
  <2>3. \A o : Supports(s, o) = Supports(t, o) /\ SupportingTables(s, o) = SupportingTables(t, o)
    BY <1>1, <2>1 DEF Supports, SupportingTables
  <2>4. \A r : Relying(s, r) = Relying(t, r)
    BY <1>1 DEF Relying
  <2>5. \A o : AnnotationEvidence(s, o) = AnnotationEvidence(t, o)
    <3> TAKE o
    <3>1. {<<u, Latest(s).structure[u]>> : u \in SupportingTables(s, o)}
            = {<<u, Latest(t).structure[u]>> : u \in SupportingTables(t, o)}
      BY <1>2, <2>3
    <3>2. {<<r, s.relations[r]>> : r \in {q \in Relation : o \in Relying(s, q)}}
            = {<<r, t.relations[r]>> : r \in {q \in Relation : o \in Relying(t, q)}}
      BY <1>1, <2>4
    <3>3. {<<p, Status(s, p), s.confirmations[p]>> : p \in Supports(s, o)}
            = {<<p, Status(t, p), t.confirmations[p]>> : p \in Supports(t, o)}
      BY <1>1, <2>2, <2>3
    <3> QED BY <1>1, <3>1, <3>2, <3>3 DEF AnnotationEvidence
  <2> QED BY <1>1, <2>1, <2>2, <2>5 DEF AnnotationItems
<1>8. RelationshipItems(s, rv) = RelationshipItems(t, rw)
  <2>1. \A r : EndpointsMissing(s, r) <=> EndpointsMissing(t, r)
    BY <1>2 DEF EndpointsMissing
  <2>2. \A r : Unusable(s, r) = Unusable(t, r)
    BY <1>1, <2>1 DEF Unusable
  <2>3. \A r : NeedsReview(s, rv, r) <=> NeedsReview(t, rw, r)
    BY <1>1, <1>2, <1>4, <2>1 DEF NeedsReview
  <2> QED BY <1>1, <1>2, <2>2, <2>3 DEF RelationshipItems
<1>9. GroupItems(s, rv) = GroupItems(t, rw)
  BY <1>1, <1>2 DEF GroupItems, Missing
<1> QED BY <1>1, <1>5, <1>6, <1>7, <1>8, <1>9 DEF Items

-----------------------------------------------------------------------------
(* The inductive invariant.                                                *)

\* The page shows the items of an earlier state, whose snapshots are still the
\* same ones where they still exist.
Shows(page, s, rv, t) ==
  /\ WellFormed(s) /\ Unique(s) /\ s.snapshots # {} /\ Known(s, rv)
  /\ page.revision = Revision(s, rv) /\ page.items = Items(s, rv)
  /\ s.clock <= t.clock /\ Agrees(s, t)

PageOK(page, t) ==
  page # None => /\ page.completed => page.open = {}
                 /\ \E s, rv : Shows(page, s, rv, t)

RowsInv ==
  /\ RowsOK(review)
  /\ Unique(store)
  /\ store.baseline = Pin(review)
  /\ Known(store, review)
  /\ PageOK(screen, store)

ReviewInv == IInv /\ RowsInv /\ capturing \in Identity \cup {None}

LEMMA PageStays ==
  ASSUME NEW page, NEW s, WellFormed(s), NEW t, WellFormed(t), Grows(s, t), PageOK(page, s)
  PROVE  PageOK(page, t)
<1>1. ASSUME NEW s0, NEW rv, Shows(page, s0, rv, s) PROVE Shows(page, s0, rv, t)
  <2>1. s0.clock \in Nat /\ s.clock \in Nat /\ t.clock \in Nat
        /\ s0.snapshots \subseteq Snapshot /\ t.snapshots \subseteq Snapshot
    BY <1>1 DEF Shows, WellFormed, Store
  <2>2. s0.clock <= t.clock
    BY <1>1, <2>1 DEF Shows, Grows
  <2>3. ASSUME NEW x \in s0.snapshots, NEW y \in t.snapshots, x.id = y.id PROVE x = y
    <3>1. CASE y \in s.snapshots
      BY <1>1, <2>3, <3>1 DEF Shows, Agrees
    <3>2. CASE y.id > s.clock
      <4>1. x.id <= s0.clock /\ s0.clock <= s.clock
        BY <1>1 DEF Shows, WellFormed, Dated
      <4>2. x.id \in Nat /\ y.id \in Nat
        BY <2>1 DEF Snapshot
      <4> QED BY <2>1, <2>3, <3>2, <4>1, <4>2
    <3> QED BY <3>1, <3>2 DEF Grows
  <2> QED BY <1>1, <2>2, <2>3 DEF Shows, Agrees
<1> QED BY <1>1 DEF PageOK

LEMMA PageKeptFacts ==
  ASSUME PageOK(screen, store), PageKept, WellFormed(store), WellFormed(store'), Grows(store, store')
  PROVE  PageOK(screen, store)'
<1>1. screen' = screen \/ screen' = None
  BY DEF PageKept
<1>2. PageOK(screen, store')
  BY PageStays
<1> QED BY <1>1, <1>2 DEF PageOK

\* What an answer leaves behind.
LEMMA RespondFacts ==
  ASSUME NEW t, WellFormed(t), Unique(t), t.snapshots # {}, NEW rv, RowsOK(rv), Known(t, rv),
         Respond(t, rv)
  PROVE  /\ WellFormed(store') /\ Downgraded(store') /\ Follows(t, store')
         /\ Retained(t) => Retained(store')
         /\ store'.snapshots = t.snapshots /\ store'.clock = t.clock
         /\ store'.annotations = t.annotations /\ store'.relations = t.relations
         /\ store'.identity = t.identity
         /\ store'.confirmations = Settled(t).confirmations
         /\ Confirmed(t) \subseteq Confirmed(store')
         /\ RowsInv' /\ Continues(rv, review')
<1> DEFINE w == Workspace(t, rv)
           u == Settled(t)
<1>1. store' = w.store /\ review' = w.review /\ screen' = Sent(w)
  BY DEF Respond
<1>2. /\ w.store = Pinned(u, w.review) /\ w.revision = Revision(u, w.review)
      /\ w.items = Items(u, w.review) /\ (w.completed => w.open = {})
      /\ RowsOK(w.review) /\ Continues(rv, w.review)
  BY WorkspaceFacts
<1>3. /\ screen'.revision = w.revision /\ screen'.items = w.items
      /\ screen'.open = w.open /\ screen'.completed = w.completed
  BY <1>1 DEF Sent
<1>4. /\ WellFormed(u) /\ Follows(t, u) /\ SameEvidence(t, u) /\ u.annotations = t.annotations
      /\ u.clock = t.clock /\ Downgraded(u)
      /\ Confirmed(t) \subseteq Confirmed(u)
      /\ Retained(t) => Retained(u)
  BY SettledFacts, SettledKeepsConfirmed, SettledRetained
<1> HIDE DEF w, u
<1>5. /\ WellFormed(store') /\ store'.baseline = Pin(review') /\ AllButBaseline(u, store')
      /\ Downgraded(store') /\ (Retained(u) => Retained(store')) /\ Confirmed(store') = Confirmed(u)
  BY <1>1, <1>2, <1>4, PinnedFacts
<1>6. Follows(t, store')
  BY <1>4, <1>5 DEF Follows, AllButBaseline
<1>7. /\ store'.snapshots = t.snapshots /\ store'.clock = t.clock
      /\ store'.annotations = t.annotations /\ store'.relations = t.relations
      /\ store'.identity = t.identity /\ store'.confirmations = u.confirmations
  BY <1>4, <1>5 DEF AllButBaseline, SameEvidence
<1>8. Known(u, w.review) /\ Known(store', review') /\ Unique(u) /\ Unique(store')
  BY <1>1, <1>2, <1>4, <1>7 DEF Known, Continues, Unique, SameEvidence
<1>9. PageOK(screen', store')
  <2>1. u.clock <= store'.clock
    BY <1>4, <1>7 DEF WellFormed, Store
  <2>2. Agrees(u, store')
    BY <1>4, <1>7, <1>8 DEF Agrees, Unique, SameEvidence
  <2>3. Shows(screen', u, w.review, store')
    BY <1>2, <1>3, <1>4, <1>8, <2>1, <2>2 DEF Shows, SameEvidence
  <2> QED BY <1>2, <1>3, <2>3 DEF PageOK
<1>10. RowsInv'
  BY <1>1, <1>2, <1>5, <1>8, <1>9 DEF RowsInv
<1> QED BY <1>1, <1>2, <1>4, <1>5, <1>6, <1>7, <1>10 DEF u

-----------------------------------------------------------------------------
(* Requests.                                                               *)

\* What every step must do besides keeping the invariant.
StepOK ==
  /\ NoRevivalStep /\ AcceptedIsInForceStep
  /\ DecidedAsShownStep /\ CompletionIsEarnedStep /\ RestoredOnceStep

\* What a request works on.
Served(w) ==
  /\ w = Workspace(store, review)
  /\ store.snapshots # {}

LEMMA ServedFacts ==
  ASSUME ReviewInv, NEW w, Served(w)
  PROVE  /\ WellFormed(w.store) /\ Downgraded(w.store) /\ Retained(w.store)
         /\ Follows(store, w.store)
         /\ w.store.snapshots = store.snapshots /\ w.store.clock = store.clock
         /\ w.store.annotations = store.annotations /\ w.store.relations = store.relations
         /\ w.store.identity = store.identity
         /\ w.store.confirmations = Settled(store).confirmations
         /\ Unique(w.store) /\ Known(w.store, w.review)
         /\ RowsOK(w.review) /\ Continues(review, w.review)
         /\ w.items = Items(Settled(store), w.review)
         /\ w.items = Items(w.store, w.review)
         /\ w.revision = Revision(Settled(store), w.review)
         /\ AllButBaseline(Settled(store), w.store)
<1> DEFINE u == Settled(store)
<1>1. /\ w.store = Pinned(u, w.review) /\ w.revision = Revision(u, w.review)
      /\ w.items = Items(u, w.review)
      /\ RowsOK(w.review) /\ Continues(review, w.review)
  BY WorkspaceFacts DEF Served, ReviewInv, IInv, RowsInv
<1>2. /\ WellFormed(u) /\ Follows(store, u) /\ SameEvidence(store, u)
      /\ u.annotations = store.annotations
      /\ u.clock = store.clock /\ Downgraded(u) /\ Retained(u)
  BY SettledFacts, SettledRetained DEF ReviewInv, IInv
<1> HIDE DEF u
<1>3. /\ WellFormed(w.store) /\ AllButBaseline(u, w.store)
      /\ Downgraded(w.store) /\ Retained(w.store) /\ Confirmed(w.store) = Confirmed(u)
  BY <1>1, <1>2, PinnedFacts
<1>4. Follows(store, w.store)
  BY <1>2, <1>3 DEF Follows, AllButBaseline
<1>5. Unique(w.store) /\ Known(w.store, w.review)
  BY <1>1, <1>2, <1>3 DEF ReviewInv, RowsInv, Unique, Known, Continues, AllButBaseline, SameEvidence
<1>6. Items(w.store, w.review) = Items(u, w.review)
  <2>1. Known(u, w.review) /\ Unique(u) /\ Agrees(w.store, u) /\ u.snapshots # {}
    BY <1>2, <1>3, <1>5 DEF AllButBaseline, SameEvidence, Known, Unique, Agrees, Served
  <2>2. Revision(w.store, w.review) = Revision(u, w.review)
    BY <1>3 DEF Revision, AllButBaseline, Latest
  <2>3. w.store.snapshots # {}
    BY <2>1, <1>3 DEF AllButBaseline
  <2> QED BY <1>2, <1>3, <1>5, <2>1, <2>2, <2>3, SameRevisionSameItems
<1> QED BY <1>1, <1>2, <1>3, <1>4, <1>5, <1>6 DEF u, AllButBaseline, SameEvidence

\* The client was shown the items the request is served with.
LEMMA ItemsAsShown ==
  ASSUME ReviewInv, NEW w, Served(w), screen # None, screen.revision = w.revision
  PROVE  w.items = screen.items
<1> DEFINE u == Settled(store)
<1>1. PICK s, rv : Shows(screen, s, rv, store)
  BY DEF ReviewInv, RowsInv, PageOK
<1>2. /\ w.items = Items(u, w.review) /\ w.revision = Revision(u, w.review)
      /\ Known(w.store, w.review) /\ Unique(w.store) /\ AllButBaseline(u, w.store)
      /\ w.store.snapshots = store.snapshots
  BY ServedFacts
<1>3. WellFormed(u)
  BY SettledFacts DEF ReviewInv, IInv
<1> HIDE DEF u
<1>4. Known(u, w.review) /\ Unique(u) /\ u.snapshots = store.snapshots /\ u.snapshots # {}
  BY <1>2 DEF AllButBaseline, Known, Unique, Served
<1>5. Agrees(s, u)
  BY <1>1, <1>4 DEF Shows, Agrees
<1>6. /\ WellFormed(s) /\ Unique(s) /\ s.snapshots # {} /\ Known(s, rv)
      /\ screen.items = Items(s, rv) /\ Revision(s, rv) = Revision(u, w.review)
  BY <1>1, <1>2 DEF Shows
<1>7. Items(s, rv) = Items(u, w.review)
  BY <1>3, <1>4, <1>5, <1>6, SameRevisionSameItems
<1> QED BY <1>2, <1>6, <1>7

\* One event is recorded: it is about items that were shown.
LEMMA EventStep ==
  ASSUME ReviewInv, NEW w, Served(w), Prepared(w), NEW rv, Continues(rv, review'), NEW e,
         rv.events = Append(w.review.events, e),
         e.items \subseteq {<<i.key, i.evidence>> : i \in w.items}
  PROVE  /\ DecidedAsShownStep
         /\ e.action # "restore" => RestoredOnceStep
         /\ \E E : review.events \in Seq(E)
         /\ review'.events = Append(review.events, e)
<1>1. Continues(review, w.review)
  BY ServedFacts
<1>2. review'.events = Append(review.events, e)
  BY <1>1 DEF Continues
<1>3. PICK E : review.events \in Seq(E)
  BY DEF ReviewInv, RowsInv, RowsOK, ReviewRows
<1>4. /\ Len(review'.events) = Len(review.events) + 1 /\ Len(review.events) \in Nat
      /\ review'.events[Len(review'.events)] = e
  BY <1>2, <1>3, AppendFacts
<1>5. w.items = screen.items
  BY ItemsAsShown DEF Prepared
<1>6. DecidedAsShownStep
  BY <1>4, <1>5 DEF DecidedAsShownStep
<1>7. e.action # "restore" => RestoredOnceStep
  BY <1>4 DEF RestoredOnceStep
<1> QED BY <1>2, <1>3, <1>6, <1>7

\* No event is recorded.
LEMMA NoEventStep ==
  ASSUME RowsOK(review), review'.events = review.events
  PROVE  DecidedAsShownStep /\ RestoredOnceStep
<1>1. PICK E : review.events \in Seq(E)
  BY DEF RowsOK, ReviewRows
<1>2. Len(review.events) \in Nat
  BY <1>1
<1> QED BY <1>2 DEF DecidedAsShownStep, RestoredOnceStep

LEMMA NotCompleting ==
  ASSUME Completed(review') => Completed(review)
  PROVE  CompletionIsEarnedStep
  BY DEF CompletionIsEarnedStep, Completes

\* A request that issues no record.
LEMMA QuietAnswer ==
  ASSUME ReviewInv, NEW w, Served(w),
         NEW t, WellFormed(t), Retained(t), Follows(w.store, t), t.snapshots = w.store.snapshots,
         NEW rv, RowsOK(rv), Known(t, rv), Respond(t, rv), UNCHANGED <<drafts, used, capturing>>
  PROVE  ReviewInv' /\ NoRevivalStep /\ AcceptedIsInForceStep
<1>1. /\ Follows(store, w.store) /\ Unique(w.store) /\ w.store.snapshots # {}
  BY ServedFacts DEF Served
<1>2. Unique(t) /\ t.snapshots # {}
  BY <1>1 DEF Unique
<1>3. WellFormed(store') /\ Downgraded(store') /\ Retained(store') /\ Follows(t, store') /\ RowsInv'
  BY <1>2, RespondFacts
<1>4. Follows(store, store')
  BY <1>1, <1>3, FollowsTransitive
<1>5. IInv' /\ NoRevivalStep /\ AcceptedIsInForceStep
  BY <1>3, <1>4, QuietStep DEF ReviewInv
<1> QED BY <1>3, <1>5 DEF ReviewInv

\* An event that is no decision.
LEMMA OtherLegitimate ==
  ASSUME NEW rv, NEW action, action \notin Settling, NEW items, NEW object, NEW text
  PROVE  Legitimate(Event(rv, action, items, object, text))
  BY DEF Legitimate, Event

LEMMA RebasedFacts ==
  ASSUME NEW s, WellFormed(s), s.snapshots # {}, NEW rv, RowsOK(rv)
  PROVE  LET rw == Rebased(s, rv)
         IN  /\ RowsOK(rw) /\ HasBaseline(rw) /\ ~ Completed(rw) /\ Known(s, rw)
             /\ rw.baseline.snapshot = Latest(s).id
             /\ rw.events = rv.events /\ rw.receipt = rv.receipt /\ rw.groups = rv.groups
<1>1. PICK E : rv \in ReviewRows(E)
  BY DEF RowsOK
<1> DEFINE n == rv.rounds + 1
           b == [snapshot |-> Latest(s).id, identity |-> s.identity, round |-> n, completed |-> FALSE]
           rw == Rebased(s, rv)
           rv1 == [rv EXCEPT !.rounds = n]
<1>2. rv.rounds \in Nat /\ n \in Nat
  BY <1>1 DEF ReviewRows
<1>3. Latest(s) \in s.snapshots /\ Latest(s).id \in Nat /\ s.identity \in Identity
  BY LatestIsStored DEF WellFormed, Store, Snapshot
<1>4. b \in BaselineRow /\ b.snapshot = Latest(s).id /\ b.round = n /\ b.completed = FALSE
  <2> HIDE DEF n
  <2> QED BY <1>2, <1>3 DEF BaselineRow
<1>5. b # None
  <2> HIDE DEF b
  <2> QED BY <1>4, ReviewNoneAssumption DEF BaselineRow
<1>6. rw = [rv1 EXCEPT !.baseline = b]
  BY DEF Rebased
<1> HIDE DEF b, rw
<1>7. /\ rv1 \in ReviewRows(E) /\ rv1.rounds = n /\ rv1.events = rv.events
      /\ rv1.receipt = rv.receipt /\ rv1.groups = rv.groups
  <2> HIDE DEF n
  <2>1. rv1 \in ReviewRows(E)
    BY <1>1, <1>2 DEF ReviewRows
  <2> QED BY <1>1, <2>1 DEF ReviewRows
<1> HIDE DEF n, rv1
<1>8. rw \in ReviewRows(E) /\ rw.baseline = b /\ rw.rounds = n /\ rw.events = rv.events
      /\ rw.receipt = rv.receipt /\ rw.groups = rv.groups
  <2>1. rw \in ReviewRows(E)
    BY <1>4, <1>6, <1>7 DEF ReviewRows
  <2> QED BY <1>6, <1>7, <2>1 DEF ReviewRows
<1>9. \A k \in DOMAIN rw.events : EventOK(rw.rounds, rw.events[k])
  BY <1>2, <1>8 DEF RowsOK, EventOK, n
<1>10. b.round \in 1 .. n
  BY <1>2, <1>4 DEF n
<1>11. RowsOK(rw)
  BY <1>8, <1>9, <1>10 DEF RowsOK
<1>12. HasBaseline(rw) /\ ~ Completed(rw) /\ rw.baseline.snapshot = Latest(s).id
  BY <1>4, <1>5, <1>8 DEF HasBaseline, Completed
<1>13. Known(s, rw)
  BY <1>3, <1>12 DEF Known
<1> QED BY <1>8, <1>11, <1>12, <1>13 DEF rw

\* A request that records an event about items that were shown, issues no
\* record, completes nothing and restores nothing.
LEMMA PlainRequest ==
  ASSUME ReviewInv, NEW w, Served(w), Prepared(w),
         NEW t, WellFormed(t), Retained(t), Follows(w.store, t), t.snapshots = w.store.snapshots,
         NEW rv, RowsOK(rv), HasBaseline(rv), Known(t, rv), rv.events = w.review.events,
         Completed(rv) => Completed(review),
         NEW action, action \notin {"archive", "restore"}, NEW items \in SUBSET w.items, NEW text, NEW object,
         Legitimate(Event(rv, action, items, object, text)),
         Respond(t, Recorded(rv, action, items, object, text)), UNCHANGED <<drafts, used, capturing>>
  PROVE  ReviewInv' /\ StepOK
<1> DEFINE e == Event(rv, action, items, object, text)
           rw == Recorded(rv, action, items, object, text)
<1>1. /\ RowsOK(rw) /\ rw.baseline = rv.baseline /\ rw.events = Append(rv.events, e)
  BY RecordedFacts
<1>2. e.action = action /\ e.items \subseteq {<<i.key, i.evidence>> : i \in w.items}
  BY DEF Event
<1> HIDE DEF rw, e
<1>3. Known(t, rw) /\ (Completed(rw) => Completed(rv))
  BY <1>1 DEF Known, HasBaseline, Completed
<1>4. ReviewInv' /\ NoRevivalStep /\ AcceptedIsInForceStep
  BY <1>1, <1>3, QuietAnswer DEF rw
<1>5. Continues(rw, review')
  <2>1. /\ Unique(t) /\ t.snapshots # {}
    BY ServedFacts DEF Served, Unique
  <2> QED BY <1>1, <1>3, <2>1, RespondFacts DEF rw
<1>6. DecidedAsShownStep /\ RestoredOnceStep
  BY <1>1, <1>2, <1>5, EventStep
<1>7. CompletionIsEarnedStep
  BY <1>3, <1>5, NotCompleting DEF Continues
<1> QED BY <1>4, <1>6, <1>7 DEF StepOK

\* The requests.
LEMMA StartStep ==
  ASSUME ReviewInv, NEW w, Served(w), StartReview(w)
  PROVE  ReviewInv' /\ StepOK
<1> DEFINE rv == Rebased(store, w.review)
<1>1. /\ WellFormed(w.store) /\ Retained(w.store) /\ w.store.snapshots = store.snapshots
      /\ RowsOK(w.review) /\ Follows(w.store, w.store)
  BY ServedFacts DEF Follows
<1>2. /\ RowsOK(rv) /\ HasBaseline(rv) /\ ~ Completed(rv) /\ Known(store, rv) /\ rv.events = w.review.events
  BY <1>1, RebasedFacts DEF ReviewInv, IInv, Served
<1>3. Legitimate(Event(rv, "start", {}, None, NoText))
  BY OtherLegitimate DEF Settling
<1>4. /\ Prepared(w) /\ UNCHANGED <<drafts, used, capturing>>
      /\ Respond(w.store, Recorded(rv, "start", {}, None, NoText))
  BY DEF StartReview
<1> HIDE DEF rv
<1>5. Known(w.store, rv)
  BY <1>1, <1>2 DEF Known
<1> QED BY <1>1, <1>2, <1>3, <1>4, <1>5, PlainRequest

LEMMA RestartStep ==
  ASSUME ReviewInv, NEW w, Served(w), RestartReview(w)
  PROVE  ReviewInv' /\ StepOK
<1> DEFINE rv == Rebased(store, w.review)
           t == Mark(w.store, Object)
<1>1. /\ WellFormed(w.store) /\ Retained(w.store) /\ w.store.snapshots = store.snapshots
      /\ RowsOK(w.review)
  BY ServedFacts
<1>2. /\ WellFormed(t) /\ Follows(w.store, t) /\ t.snapshots = w.store.snapshots /\ Retained(t)
  <2>1. Follows(w.store, t) /\ WellFormed(t)
    BY <1>1, MarkEvolves DEF Evolves
  <2>2. t.snapshots = w.store.snapshots
    BY DEF Mark
  <2> HIDE DEF t
  <2> QED BY <1>1, <2>1, <2>2 DEF Retained, Live, Follows
<1>3. /\ RowsOK(rv) /\ HasBaseline(rv) /\ ~ Completed(rv) /\ Known(store, rv) /\ rv.events = w.review.events
  BY <1>1, RebasedFacts DEF ReviewInv, IInv, Served
<1>4. Legitimate(Event(rv, "restart", {}, None, NoText))
  BY OtherLegitimate DEF Settling
<1>5. /\ Prepared(w) /\ UNCHANGED <<drafts, used, capturing>>
      /\ Respond(t, Recorded(rv, "restart", {}, None, NoText))
  BY DEF RestartReview
<1> HIDE DEF rv, t
<1>6. Known(t, rv)
  BY <1>1, <1>2, <1>3 DEF Known
<1> QED BY <1>1, <1>2, <1>3, <1>4, <1>5, <1>6, PlainRequest

LEMMA UnderReviewFacts ==
  ASSUME ReviewInv, NEW w, Served(w), UnderReview(w)
  PROVE  /\ Prepared(w) /\ RowsOK(w.review) /\ HasBaseline(w.review) /\ Known(w.store, w.review)
         /\ Completed(w.review) => Completed(review)
         /\ WellFormed(w.store) /\ Retained(w.store) /\ Follows(w.store, w.store)
         /\ w.review.events = review.events
  BY ServedFacts DEF UnderReview, Continues, Follows

LEMMA DecideStep ==
  ASSUME ReviewInv, NEW w, Served(w), NEW i \in w.items, NEW action, Decide(w, i, action)
  PROVE  ReviewInv' /\ StepOK
<1>1. /\ UnderReview(w) /\ action \in i.actions /\ action \notin {"archive", "restore"}
      /\ Respond(w.store, Recorded(w.review, action, {i}, None, NoText))
      /\ UNCHANGED <<drafts, used, capturing>>
  BY DEF Decide
<1>2. w.items = Items(Settled(store), w.review)
  BY ServedFacts
<1>3. Legitimate(Event(w.review, action, {i}, None, NoText))
  BY <1>1, <1>2, DecisionLegitimate
<1>4. {i} \in SUBSET w.items
  OBVIOUS
<1> QED BY <1>1, <1>3, <1>4, UnderReviewFacts, PlainRequest

LEMMA SeeBatchStep ==
  ASSUME ReviewInv, NEW w, Served(w), NEW batch \in SUBSET w.items, SeeBatch(w, batch)
  PROVE  ReviewInv' /\ StepOK
<1>1. /\ UnderReview(w) /\ \A i \in batch : i.kind = "structure"
      /\ Respond(w.store, Recorded(w.review, "seenBatch", batch, None, NoText))
      /\ UNCHANGED <<drafts, used, capturing>>
  BY DEF SeeBatch
<1>2. \A i \in batch : i.key[1] = "structure"
  <2>1. w.items = Items(w.store, w.review)
    BY ServedFacts
  <2>2. \A i \in batch : Offers(w.store, i)
    BY <2>1, ItemsOffer
  <2> QED BY <1>1, <2>2 DEF Offers
<1>3. Legitimate(Event(w.review, "seenBatch", batch, None, NoText))
  BY <1>2 DEF Legitimate, Event
<1> QED BY <1>1, <1>3, UnderReviewFacts, PlainRequest

LEMMA DisableStep ==
  ASSUME ReviewInv, NEW w, Served(w), NEW i \in w.items, DisableItem(w, i)
  PROVE  ReviewInv' /\ StepOK
<1> DEFINE r == i.subject
           v == [w.store.relations[r] EXCEPT !.status = "Disabled"]
           t == WriteRelation(w.store, r, v)
<1>1. /\ UnderReview(w) /\ "disable" \in i.actions
      /\ Respond(t, Recorded(w.review, "disable", {i}, None, NoText))
      /\ UNCHANGED <<drafts, used, capturing>>
  BY DEF DisableItem
<1>2. r \in Relation /\ w.store.relations[r] # None
  <2>1. w.items = Items(w.store, w.review)
    BY ServedFacts
  <2>2. Offers(w.store, i)
    BY <2>1, ItemsOffer
  <2> QED BY <1>1, <2>2 DEF Offers
<1>3. WellFormed(w.store) /\ Retained(w.store) /\ Known(w.store, w.review)
  BY ServedFacts
<1>4. w.store.relations[r] \in Relationship
  BY <1>2, <1>3 DEF WellFormed, Store
<1>5. v \in Relationship
  BY <1>2, <1>4, StatusAssumption DEF Relationship
<1>6. WellFormed(t) /\ Follows(w.store, t) /\ Retained(t)
  BY <1>2, <1>3, <1>5, WriteRelationFacts
<1>7. t.snapshots = w.store.snapshots
  BY DEF WriteRelation, Mark
<1>8. Legitimate(Event(w.review, "disable", {i}, None, NoText))
  BY OtherLegitimate DEF Settling
<1> HIDE DEF t
<1>9. Known(t, w.review)
  BY <1>3, <1>7 DEF Known
<1>10. {i} \in SUBSET w.items
  OBVIOUS
<1> QED BY <1>1, <1>6, <1>7, <1>8, <1>9, <1>10, UnderReviewFacts, PlainRequest

\* archive: the event keeps the text.
LEMMA ArchiveStep ==
  ASSUME ReviewInv, NEW w, Served(w), NEW i \in w.items, ArchiveItem(w, i)
  PROVE  ReviewInv' /\ StepOK
<1> DEFINE s == Tick(w.store)
           o == i.subject
           a == [text |-> NoText, at |-> s.clock]
           t == WriteAnnotation(s, o, a)
           text == s.annotations[o].text
           rv == w.review
           e == Event(rv, "archive", {i}, o, text)
           rw == Recorded(rv, "archive", {i}, o, text)
<1>1. /\ UnderReview(w) /\ "archive" \in i.actions /\ Respond(t, rw)
      /\ UNCHANGED <<drafts, used, capturing>>
  BY DEF ArchiveItem
<1>2. o \in Object /\ w.store.annotations[o] # None
  <2>1. w.items = Items(w.store, w.review)
    BY ServedFacts
  <2>2. Offers(w.store, i)
    BY <2>1, ItemsOffer
  <2> QED BY <1>1, <2>2 DEF Offers
<1>3. WellFormed(w.store) /\ Retained(w.store) /\ Known(w.store, rv) /\ RowsOK(rv) /\ HasBaseline(rv)
  BY <1>1, ServedFacts, UnderReviewFacts
<1>4. /\ WellFormed(s) /\ Follows(w.store, s) /\ s.snapshots = w.store.snapshots
      /\ s.annotations = w.store.annotations /\ s.confirmations = w.store.confirmations
  BY <1>3, TickFacts DEF SameEvidence
<1>5. Retained(s) /\ s.clock \in Nat /\ s.annotations[o] \in Annotation
  BY <1>2, <1>3, <1>4 DEF Retained, Live, WellFormed, Store
<1>6. a \in Annotation /\ text \in Text \cup {NoText}
  BY <1>5 DEF Annotation
<1> HIDE DEF s, a, text, o
<1>7. WellFormed(t) /\ Follows(s, t) /\ Retained(t) /\ t.snapshots = s.snapshots
  BY ZenonT(60), <1>2, <1>4, <1>5, <1>6, WriteAnnotationFacts DEF SameEvidence
<1>8. Follows(w.store, t)
  BY <1>4, <1>7, FollowsTransitive
<1>9. Legitimate(e)
  BY OtherLegitimate DEF Settling
<1>10. RowsOK(rw) /\ rw.baseline = rv.baseline /\ rw.events = Append(rv.events, e)
  <2>1. o \in Object
    BY <1>2 DEF o
  <2>2. e = Event(rv, "archive", {i}, o, text) /\ rw = Recorded(rv, "archive", {i}, o, text)
    OBVIOUS
  <2> HIDE DEF rv, e, rw
  <2>3. Appends(rv, rw, e)
    BY <1>3, <1>6, <1>9, <2>1, <2>2, Recording
  <2> QED BY <2>3 DEF Appends
<1>11. e.action = "archive" /\ e.items = {<<i.key, i.evidence>>}
  BY DEF Event
<1> HIDE DEF t, e, rw
<1>12. Known(t, rw) /\ (Completed(rw) => Completed(rv))
  BY <1>3, <1>4, <1>7, <1>10 DEF Known, HasBaseline, Completed
<1>13. ReviewInv' /\ NoRevivalStep /\ AcceptedIsInForceStep
  BY <1>1, <1>4, <1>7, <1>8, <1>10, <1>12, QuietAnswer
<1>14. Continues(rw, review')
  <2>1. /\ Unique(t) /\ t.snapshots # {}
    BY <1>4, <1>7, ServedFacts DEF Served, Unique
  <2> QED BY <1>1, <1>7, <1>10, <1>12, <2>1, RespondFacts
<1>15. DecidedAsShownStep /\ RestoredOnceStep
  BY <1>1, <1>10, <1>11, <1>14, UnderReviewFacts, EventStep
<1>16. CompletionIsEarnedStep
  BY <1>1, <1>12, <1>14, UnderReviewFacts, NotCompleting DEF Continues
<1> QED BY <1>13, <1>15, <1>16 DEF StepOK

\* The basis of a confirmation is one, and cites notes there are.
LEMMA ReviewBasisFacts ==
  ASSUME NEW s, WellFormed(s), s.snapshots # {}, NEW o \in Object, SupportIntact(s, o)
  PROVE  /\ ReviewBasis(s, o) \in KnowledgeBasis
         /\ \A f : Cites(ReviewBasis(s, o), f) =>
              \E p \in Object : s.confirmations[p] # None /\ s.confirmations[p].id = f
<1> DEFINE base == BasisFrom(s, SupportingTables(s, o), Supports(s, o))
           old == s.confirmations[o]
           more == IF old = None THEN {}
                   ELSE {<<p[1], RelationshipDigest(s.relations[p[1]])>> : p \in old.basis.relations}
           b == ReviewBasis(s, o)
<1>1. s \in Store /\ old \in KnowledgeConfirmation \cup {None}
  BY DEF WellFormed, Store
<1>2. SupportingTables(s, o) \in SUBSET Table /\ Supports(s, o) \in SUBSET Confirmed(s)
  <2>1. SupportingTables(s, o) \subseteq Table
    <3>1. CASE old = None
      BY <3>1, StructureAssumption DEF SupportingTables
    <3>2. CASE old # None
      BY <1>1, <3>2 DEF SupportingTables, KnowledgeConfirmation, KnowledgeBasis
    <3> QED BY <3>1, <3>2
  <2> QED BY <2>1 DEF SupportIntact
<1>3. /\ base \in KnowledgeBasis
      /\ \A f : Cites(base, f) => \E p \in Object : s.confirmations[p] # None /\ s.confirmations[p].id = f
  BY <1>2, BasisFromFacts
<1>4. more \subseteq Relation \X (Meaning \X RelationshipStatus)
  <2>1. CASE old = None
    BY <2>1
  <2>2. CASE old # None
    <3>1. old.basis.relations \in SUBSET (Relation \X (Meaning \X RelationshipStatus))
      BY <1>1, <2>2 DEF KnowledgeConfirmation, KnowledgeBasis
    <3>2. \A p \in old.basis.relations : p[1] \in Relation /\ s.relations[p[1]] # None
      BY <2>2, <3>1 DEF SupportIntact
    <3>3. \A p \in old.basis.relations : s.relations[p[1]] \in Relationship
      BY <1>1, <3>2 DEF Store
    <3>4. \A p \in old.basis.relations : RelationshipDigest(s.relations[p[1]]) \in Meaning \X RelationshipStatus
      BY <3>3 DEF Relationship, RelationshipDigest
    <3> QED BY <2>2, <3>2, <3>4
  <2> QED BY <2>1, <2>2
<1>5. b = [base EXCEPT !.relations = @ \cup more]
  BY DEF ReviewBasis
<1> HIDE DEF base, more, b
<1>6. b \in KnowledgeBasis /\ b.notes = base.notes
  BY <1>3, <1>4, <1>5 DEF KnowledgeBasis
<1> QED BY <1>3, <1>6 DEF b, Cites

\* confirm: the record is new and the statement is confirmed by the rules of Knowledge.
LEMMA ConfirmStep ==
  ASSUME ReviewInv, NEW w, Served(w), NEW i \in w.items, NEW d \in Id, NEW x \in Text,
         ConfirmItem(w, i, d, x)
  PROVE  ReviewInv' /\ StepOK
<1> DEFINE s == w.store
           o == i.subject
           b == ReviewBasis(s, o)
           t == ConfirmedBy(s, o, d, x, b)
           rv == w.review
           e == Event(rv, "confirm", {i}, o, NoText)
           rw == Recorded(rv, "confirm", {i}, o, NoText)
<1>1. /\ UnderReview(w) /\ "confirm" \in i.actions /\ d \notin used
      /\ SupportIntact(s, o) /\ MayConfirm(s, o, s.annotations[o], b)
      /\ Respond(t, rw) /\ used' = used \cup {d} /\ UNCHANGED <<drafts, capturing>>
  BY DEF ConfirmItem
<1>2. o \in Object /\ s.annotations[o] # None
  <2>1. w.items = Items(w.store, w.review)
    BY ServedFacts
  <2>2. Offers(w.store, i)
    BY <2>1, ItemsOffer
  <2> QED BY <1>1, <2>2 DEF Offers
<1>3. /\ WellFormed(s) /\ Retained(s) /\ Known(s, rv) /\ RowsOK(rv) /\ HasBaseline(rv)
      /\ Follows(store, s) /\ s.snapshots = store.snapshots /\ s.snapshots # {} /\ Unique(s)
  BY <1>1, ServedFacts, UnderReviewFacts DEF Served
<1> HIDE DEF s, o
<1>4. b \in KnowledgeBasis /\ \A f : Cites(b, f) =>
        \E p \in Object : s.confirmations[p] # None /\ s.confirmations[p].id = f
  BY <1>1, <1>2, <1>3, ReviewBasisFacts
<1> HIDE DEF b
<1>5. /\ WellFormed(t) /\ Retained(t) /\ SameEvidence(s, t) /\ Accepts(s, t, o, d, b)
  BY <1>1, <1>2, <1>3, <1>4, ConfirmedByFacts
<1>6. Legitimate(e)
  BY OtherLegitimate DEF Settling
<1>7. RowsOK(rw) /\ rw.baseline = rv.baseline /\ rw.events = Append(rv.events, e)
  <2>1. e = Event(rv, "confirm", {i}, o, NoText) /\ rw = Recorded(rv, "confirm", {i}, o, NoText)
    OBVIOUS
  <2>2. "confirm" # "archive"
    OBVIOUS
  <2> HIDE DEF rv, e, rw
  <2>3. Appends(rv, rw, e)
    BY <1>3, <1>6, <2>1, <2>2, Recording
  <2> QED BY <2>3 DEF Appends
<1>8. e.action = "confirm" /\ e.items = {<<i.key, i.evidence>>}
  BY DEF Event
<1> HIDE DEF t, e, rw
<1>9. /\ Known(t, rw) /\ (Completed(rw) => Completed(rv)) /\ Unique(t) /\ t.snapshots # {}
  BY <1>3, <1>5, <1>7 DEF Known, HasBaseline, Completed, Unique, SameEvidence
<1>10. /\ WellFormed(store') /\ Downgraded(store') /\ Retained(store') /\ Follows(t, store')
       /\ Confirmed(t) \subseteq Confirmed(store') /\ RowsInv' /\ Continues(rw, review')
  BY <1>1, <1>5, <1>7, <1>9, RespondFacts
<1>11. Accepts(store, store', o, d, b)
  <2>1. o \in Confirmed(store') /\ (store'.confirmations[o] # None =>
          store'.confirmations[o].id = d /\ store'.confirmations[o].basis = b)
    BY <1>2, <1>5, <1>10 DEF Accepts, Follows
  <2>2. ASSUME NEW p \in Object \ {o}, store'.confirmations[p] # None
        PROVE  /\ store.confirmations[p] # None
               /\ store'.confirmations[p].id = store.confirmations[p].id
               /\ store'.confirmations[p].text = store.confirmations[p].text
               /\ store'.confirmations[p].basis = store.confirmations[p].basis
               /\ store.confirmations[p].invalid => store'.confirmations[p].invalid
    BY <1>3, <1>5, <1>10, <2>2 DEF Accepts, Follows
  <2> QED BY <2>1, <2>2 DEF Accepts
<1>12. Unspent(d) /\ FreshIds /\ DraftsUsed
  BY <1>1 DEF ReviewInv, IInv, Unspent
<1>13. NoRevivalStep /\ AcceptedIsInForceStep
  BY <1>2, <1>11, <1>12, AcceptingStep DEF ReviewInv
<1>14. FreshIds'
  <2> SUFFICES ASSUME NEW f \in Id, Unspent(f)'
               PROVE  /\ \A p \in Object : store'.confirmations[p] # None =>
                           /\ store'.confirmations[p].id # f
                           /\ ~ Cites(store'.confirmations[p].basis, f)
                      /\ \A g \in Id : drafts'[g] # None => ~ Cites(drafts'[g].basis, f)
    BY DEF FreshIds, Cites
  <2>1. f # d /\ Unspent(f)
    BY <1>1, <1>12 DEF Unspent, DraftsUsed
  <2>2. /\ \A p \in Object : store.confirmations[p] # None =>
            store.confirmations[p].id # f /\ ~ Cites(store.confirmations[p].basis, f)
        /\ \A g \in Id : drafts[g] # None => ~ Cites(drafts[g].basis, f)
    BY <1>12, <2>1 DEF FreshIds
  <2>3. ~ Cites(b, f)
    BY <1>3, <1>4, <2>2 DEF Follows
  <2>4. ASSUME NEW p \in Object, store'.confirmations[p] # None
        PROVE  store'.confirmations[p].id # f /\ ~ Cites(store'.confirmations[p].basis, f)
    <3>1. CASE p = o
      BY <1>11, <2>1, <2>3, <2>4, <3>1 DEF Accepts
    <3>2. CASE p # o
      BY <1>11, <2>2, <2>4, <3>2 DEF Accepts
    <3> QED BY <3>1, <3>2
  <2> QED BY <1>1, <2>2, <2>4 DEF Cites
<1>15. DraftsUsed' /\ TypeOK'
  BY <1>1, <1>10, <1>12 DEF ReviewInv, IInv, TypeOK, DraftsUsed, WellFormed
<1>16. ReviewInv'
  BY <1>1, <1>10, <1>14, <1>15 DEF ReviewInv, IInv
<1>17. DecidedAsShownStep /\ RestoredOnceStep
  BY <1>1, <1>7, <1>8, <1>10, UnderReviewFacts, EventStep
<1>18. CompletionIsEarnedStep
  BY <1>1, <1>9, <1>10, UnderReviewFacts, NotCompleting DEF Continues
<1> QED BY <1>13, <1>16, <1>17, <1>18 DEF StepOK

\* What restoring writes: the archived text is back, and its record is marked.
LEMMA RestoredFacts ==
  ASSUME NEW s, WellFormed(s), Retained(s), NEW e, e.object \in Object,
         e.text \in Text \cup {NoText}
  PROVE  LET t == Restored(s, e)
         IN  /\ WellFormed(t) /\ Follows(s, t) /\ Retained(t) /\ t.snapshots = s.snapshots
             /\ t.annotations[e.object].text = e.text
             /\ t.confirmations[e.object] # None => t.confirmations[e.object].invalid
<1> DEFINE o == e.object
           a == [text |-> e.text, at |-> s.clock]
           u == WriteAnnotation(s, o, a)
           t == Mark(u, {o})
<1>1. t = Restored(s, e)
  BY DEF Restored
<1>2. s.clock \in Nat /\ s \in Store
  BY DEF WellFormed, Store
<1>3. a \in Annotation /\ a.text = e.text
  BY <1>2 DEF Annotation
<1>4. o \in Object
  OBVIOUS
<1>5. o \in DOMAIN s.annotations
  BY <1>2, <1>4 DEF Store
<1> HIDE DEF a, o
<1>6. /\ WellFormed(u) /\ Follows(s, u) /\ SameEvidence(s, u) /\ Retained(u)
      /\ u.annotations = [s.annotations EXCEPT ![o] = a]
  BY <1>3, <1>4, WriteAnnotationFacts
<1>7. u.annotations[o].text = e.text
  BY <1>3, <1>5, <1>6
<1> HIDE DEF u
<1>8. /\ WellFormed(t) /\ Follows(u, t) /\ t.snapshots = u.snapshots /\ t.annotations = u.annotations
      /\ t.confirmations[o] # None => t.confirmations[o].invalid
  <2>1. u \in Store
    BY <1>6 DEF WellFormed
  <2>2. WellFormed(t) /\ Follows(u, t)
    BY <1>6, MarkEvolves DEF Evolves
  <2>3. /\ SameEvidence(u, t) /\ t.annotations = u.annotations
        /\ (t.confirmations[o] = None) <=> (u.confirmations[o] = None)
        /\ u.confirmations[o] # None => t.confirmations[o].invalid = (o \in {o} \/ u.confirmations[o].invalid)
    BY <1>4, <2>1, MarkFacts
  <2> HIDE DEF t
  <2> QED BY <2>2, <2>3 DEF SameEvidence
<1> HIDE DEF t
<1>9. Follows(s, t) /\ Retained(t) /\ t.snapshots = s.snapshots
  <2>1. t.snapshots = s.snapshots
    BY <1>6, <1>8 DEF SameEvidence
  <2>2. Follows(s, t)
    BY <1>6, <1>8, FollowsTransitive
  <2> QED BY <2>1, <2>2 DEF Retained, Live, Follows
<1>10. t.annotations[o].text = e.text
  BY <1>7, <1>8
<1> QED BY <1>1, <1>8, <1>9, <1>10 DEF o

LEMMA RestoreStep ==
  ASSUME ReviewInv, NEW w, Served(w), NEW n \in DOMAIN review.events, RestoreItem(w, n)
  PROVE  ReviewInv' /\ StepOK
<1> DEFINE s == Tick(w.store)
           e == review.events[n]
           o == e.object
           t == Restored(s, e)
           rv == IF Completed(w.review) THEN NewRound(w.review) ELSE w.review
           ev == Event(rv, "restore", {}, o, e.text)
           rw == Recorded(rv, "restore", {}, o, e.text)
<1>1. /\ UnderReview(w) /\ Restorable(s, w.review, n) /\ Respond(t, rw)
      /\ UNCHANGED <<drafts, used, capturing>>
  BY DEF RestoreItem
<1>2. /\ WellFormed(w.store) /\ Retained(w.store) /\ RowsOK(w.review) /\ HasBaseline(w.review)
      /\ Known(w.store, w.review) /\ w.review.events = review.events
      /\ w.store.annotations = store.annotations /\ w.store.snapshots = store.snapshots
      /\ w.store.snapshots # {} /\ Unique(w.store) /\ (Completed(w.review) => Completed(review))
  BY <1>1, ServedFacts, UnderReviewFacts DEF Served
<1>3. /\ WellFormed(s) /\ Follows(w.store, s) /\ s.snapshots = w.store.snapshots
      /\ s.annotations = w.store.annotations /\ Retained(s)
  <2>1. /\ WellFormed(s) /\ Follows(w.store, s) /\ s.snapshots = w.store.snapshots
        /\ s.annotations = w.store.annotations /\ s.confirmations = w.store.confirmations
    BY <1>2, TickFacts DEF SameEvidence
  <2> HIDE DEF s
  <2> QED BY <1>2, <2>1 DEF Retained, Live
<1>4. /\ e.action = "archive" /\ s.annotations[o].text = NoText
      /\ \A m \in DOMAIN review.events : review.events[m].object = o /\ m > n
           => review.events[m].action \notin {"archive", "restore", "confirm"}
  BY <1>1, <1>2 DEF Restorable
<1>5. e.object \in Object /\ e.text \in Text \cup {NoText}
  BY <1>4 DEF ReviewInv, RowsInv, RowsOK, EventOK
<1>6. RowsOK(rv) /\ HasBaseline(rv) /\ Continues(w.review, rv)
  <2>1. CASE Completed(w.review)
    BY <1>2, <2>1, NewRoundFacts DEF Continues
  <2>2. CASE ~ Completed(w.review)
    BY <1>2, <2>2 DEF Continues
  <2> QED BY <2>1, <2>2
<1> HIDE DEF s, e, rv
<1>7. /\ WellFormed(t) /\ Follows(s, t) /\ Retained(t) /\ t.snapshots = s.snapshots
      /\ t.annotations[o].text = e.text
      /\ t.confirmations[o] # None => t.confirmations[o].invalid
  BY <1>3, <1>5, RestoredFacts
<1>8. Legitimate(ev) /\ ev.action = "restore" /\ ev.object = o /\ ev.text = e.text /\ ev.items = {}
  BY OtherLegitimate DEF Settling, Event
<1>9. Appends(rv, rw, ev)
  <2>1. ev = Event(rv, "restore", {}, o, e.text) /\ rw = Recorded(rv, "restore", {}, o, e.text)
    OBVIOUS
  <2>2. "restore" # "archive"
    OBVIOUS
  <2> HIDE DEF ev, rw
  <2> QED BY <1>6, <1>8, <2>1, <2>2, Recording
<1> HIDE DEF t, ev, rw, o
<1>10. /\ RowsOK(rw) /\ Known(t, rw) /\ (Completed(rw) => Completed(review))
       /\ rw.events = Append(w.review.events, ev)
  BY <1>2, <1>3, <1>6, <1>7, <1>9 DEF Appends, Known, Continues, HasBaseline, Completed
<1>11. Follows(w.store, t) /\ t.snapshots = w.store.snapshots /\ Unique(t) /\ t.snapshots # {}
  <2>1. Follows(w.store, t)
    BY <1>3, <1>7, FollowsTransitive
  <2> QED BY <1>2, <1>3, <1>7, <2>1 DEF Unique
<1>12. ReviewInv' /\ NoRevivalStep /\ AcceptedIsInForceStep
  BY <1>1, <1>7, <1>10, <1>11, QuietAnswer
<1>13. /\ Continues(rw, review') /\ Follows(t, store') /\ store'.annotations = t.annotations
  BY <1>1, <1>7, <1>10, <1>11, RespondFacts
<1>14. /\ DecidedAsShownStep /\ review'.events = Append(review.events, ev)
       /\ \E E : review.events \in Seq(E)
  BY <1>1, <1>2, <1>8, <1>10, <1>13, EventStep DEF UnderReview
<1>15. o \notin Confirmed(store')
  <2> SUFFICES ASSUME o \in Confirmed(store') PROVE FALSE
    OBVIOUS
  <2>1. o \in Object /\ LocallyValid(store', o)
    BY ConfirmedIsLargest DEF SelfSupporting
  <2>2. store'.confirmations[o] # None /\ ~ store'.confirmations[o].invalid
    BY <2>1 DEF LocallyValid
  <2>3. t.confirmations[o] # None /\ (t.confirmations[o].invalid => store'.confirmations[o].invalid)
    BY <1>13, <2>1, <2>2 DEF Follows
  <2> QED BY <1>7, <2>2, <2>3
<1>16. RestoredOnceStep
  <2>1. review'.events[Len(review'.events)] = ev
    BY <1>14, AppendFacts
  <2>2. /\ review.events[n] = e /\ e.object = o
        /\ \A k \in DOMAIN review.events : k > n /\ review.events[k].object = o
             => review.events[k].action \notin {"archive", "restore"}
    BY <1>4 DEF e, o
  <2>3. /\ store.annotations[o].text = NoText /\ store'.annotations[o].text = e.text
    BY <1>2, <1>3, <1>4, <1>7, <1>13
  <2> QED BY <1>4, <1>8, <1>15, <2>1, <2>2, <2>3 DEF RestoredOnceStep
<1>17. CompletionIsEarnedStep
  BY <1>10, <1>13, NotCompleting DEF Continues
<1> QED BY <1>12, <1>14, <1>16, <1>17 DEF StepOK

-----------------------------------------------------------------------------
(* Completing a round.                                                     *)

\* Of some positions of a list, one is the last.
LEMMA LastThereIs ==
  ASSUME NEW m \in Nat, NEW T \in SUBSET (1 .. m), T # {}
  PROVE  \E x \in T : \A y \in T : y <= x
<1> DEFINE R == {p \in Nat \X Nat : p[1] < p[2]}
           U == {m - x : x \in T}
<1>1. IsWellFoundedOn(R, Nat)
  BY NatLessThanWellFounded DEF OpToRel
<1>2. U \subseteq Nat /\ U # {}
  <2>1. \A x \in T : x \in Nat /\ x <= m
    OBVIOUS
  <2>2. \A x \in T : m - x \in Nat
    BY <2>1
  <2> QED BY <2>2
<1> HIDE DEF R
<1>3. PICK u \in U : \A v \in U : ~ (<<v, u>> \in R)
  <2> HIDE DEF U
  <2> QED BY <1>1, <1>2, WFMin
<1>4. PICK x \in T : u = m - x
  OBVIOUS
<1>5. ASSUME NEW y \in T PROVE y <= x
  <2>1. m - y \in U /\ m - y \in Nat /\ u \in Nat
    BY <1>2
  <2>2. ~ (m - y < u)
    <3>1. ~ (<<m - y, u>> \in R)
      BY <2>1, <1>3
    <3> QED BY <2>1, <3>1 DEF R
  <2> QED BY <1>4, <2>2
<1> QED BY <1>5

\* What is resolved was settled by a decision, and what can only be deferred was not.
LEMMA ResolvedBySettling ==
  ASSUME NEW rv, RowsOK(rv), NEW i, ItemStatus(rv, i) = "resolved", i.key[1] = i.kind
  PROVE  /\ i.kind \notin {"coverage", "annotation"}
         /\ i.kind = "relationship" => i.evidence[2][1] = FALSE
<1> DEFINE deciding == {n \in DOMAIN rv.events : Decides(rv, rv.events[n], i)}
           last == CHOOSE n \in deciding : \A m \in deciding : m <= n
<1>1. deciding # {} /\ rv.events[last].action # "defer"
  <2>1. ItemStatus(rv, i) = IF deciding = {} THEN "open"
                            ELSE IF rv.events[last].action = "defer" THEN "deferred" ELSE "resolved"
    BY DEF ItemStatus
  <2> HIDE DEF deciding, last
  <2> QED BY <2>1
<1>2. last \in deciding
  <2>1. PICK E : rv.events \in Seq(E)
    BY DEF RowsOK, ReviewRows
  <2>2. Len(rv.events) \in Nat /\ deciding \in SUBSET (1 .. Len(rv.events))
    BY <2>1
  <2> HIDE DEF deciding
  <2>3. \E n \in deciding : \A m \in deciding : m <= n
    BY <1>1, <2>2, LastThereIs
  <2> QED BY <2>3
<1> DEFINE e == rv.events[last]
<1>3. Decides(rv, e, i) /\ last \in DOMAIN rv.events
  <2> HIDE DEF last
  <2> QED BY <1>2
<1>4. e.action \in Settling /\ <<i.key, i.evidence>> \in e.items /\ i.kind # "annotation"
  <2> HIDE DEF last
  <2> QED BY <1>1, <1>3 DEF Decides, Settling
<1>5. Legitimate(e)
  <2> HIDE DEF last
  <2> QED BY <1>3 DEF RowsOK, EventOK
<1> HIDE DEF e
<1>6. LET p == <<i.key, i.evidence>>
      IN  p[1][1] # "coverage" /\ (p[1][1] = "relationship" => p[2][2][1] = FALSE)
  BY <1>4, <1>5 DEF Legitimate
<1> QED BY <1>4, <1>6

\* No gap in the coverage, no statement to review, no relationship out of use.
Clear(s, rv) ==
  /\ rv.receipt # None => rv.receipt.status # "failed"
  /\ \A x \in Before(s, rv) : Scope[x.structure] = Scope[Latest(s).structure]
  /\ \A o \in Object :
       s.annotations[o] # None /\ s.annotations[o].text # NoText => o \in Confirmed(s)
  /\ \A r \in Relation :
       s.relations[r] # None /\ s.relations[r].status # "Disabled" => ~ Unusable(s, r)

LEMMA NothingOpen ==
  ASSUME NEW s, NEW rv, NEW before, RowsOK(before), Unresolved(before, Items(s, rv)) = {}
  PROVE  Clear(s, rv)
<1>1. ASSUME NEW i \in Items(s, rv)
      PROVE  /\ i.kind \notin {"coverage", "annotation"}
             /\ i.kind = "relationship" => i.evidence[2][1] = FALSE
  <2>1. ItemStatus(before, i) = "resolved"
    BY <1>1 DEF Unresolved
  <2>2. i.key[1] = i.kind
    BY <1>1, ItemsOffer DEF Offers
  <2> QED BY <2>1, <2>2, ResolvedBySettling
<1>2. ASSUME NEW j \in CoverageItems(s, rv) \cup AnnotationItems(s) \cup RelationshipItems(s, rv)
      PROVE  Digested(s, j) \in Items(s, rv)
  BY <1>2 DEF Items, Digested
<1>3. CoverageItems(s, rv) = {}
  <2> SUFFICES ASSUME NEW j \in CoverageItems(s, rv) PROVE FALSE
    OBVIOUS
  <2>1. \E key, reason, evidence : j = Item("coverage", key, None, reason, evidence, {"defer"})
    BY DEF CoverageItems
  <2>2. Digested(s, j).kind = "coverage"
    BY <2>1, DigestedFields
  <2> QED BY <1>1, <1>2, <2>2
<1>4. rv.receipt # None => rv.receipt.status # "failed"
  BY <1>3 DEF CoverageItems
<1>5. \A x \in Before(s, rv) : Scope[x.structure] = Scope[Latest(s).structure]
  BY <1>3 DEF CoverageItems
<1>6. ASSUME NEW o \in Object, s.annotations[o] # None, s.annotations[o].text # NoText,
             o \notin Confirmed(s)
      PROVE  FALSE
  <2> DEFINE actions == IF Available(s, o) THEN {"confirm", "defer", "archive"} ELSE {"defer", "archive"}
             j == Item("annotation", o, o, Status(s, o), AnnotationEvidence(s, o), actions)
  <2>1. Status(s, o) # "Confirmed"
    BY <1>6 DEF Status
  <2>2. j \in AnnotationItems(s)
    BY <1>6, <2>1 DEF AnnotationItems
  <2>3. Digested(s, j).kind = "annotation"
    BY DigestedFields
  <2> HIDE DEF j
  <2> QED BY <1>1, <1>2, <2>2, <2>3
<1>7. ASSUME NEW r \in Relation, s.relations[r] # None, s.relations[r].status # "Disabled",
             Unusable(s, r)
      PROVE  FALSE
  <2> DEFINE actions == IF Unusable(s, r) THEN {"disable", "defer"} ELSE {"seen", "disable", "defer"}
             evidence == <<s.relations[r], {<<t, Latest(s).structure[t]>> : t \in Ends[r]}>>
             j == Item("relationship", r, r, Unusable(s, r), evidence, actions)
             i == Digested(s, j)
  <2>1. NeedsReview(s, rv, r)
    BY <1>7 DEF NeedsReview, Unusable
  <2>2. j \in RelationshipItems(s, rv)
    BY <2>1 DEF RelationshipItems
  <2>3. i.kind = "relationship" /\ i.evidence = <<s.identity, <<Unusable(s, r), evidence>>>>
    <3> HIDE DEF evidence, actions
    <3> QED BY DigestedFields
  <2>4. i.evidence[2][1] = Unusable(s, r)
    <3> HIDE DEF evidence, i
    <3> QED BY <2>3
  <2> HIDE DEF j
  <2>5. i \in Items(s, rv)
    BY <1>2, <2>2
  <2> HIDE DEF i
  <2>6. i.evidence[2][1] = FALSE
    BY <1>1, <2>3, <2>5
  <2> QED BY <1>7, <2>4, <2>6
<1> QED BY <1>4, <1>5, <1>6, <1>7 DEF Clear

\* The rows of a completed round.
CompletedRows(s, rv) ==
  [rv EXCEPT !.baseline.snapshot = Latest(s).id, !.baseline.completed = TRUE]

LEMMA CompletedRowsFacts ==
  ASSUME NEW s, WellFormed(s), s.snapshots # {}, NEW rv, RowsOK(rv), HasBaseline(rv)
  PROVE  LET rw == CompletedRows(s, rv)
         IN  /\ RowsOK(rw) /\ HasBaseline(rw) /\ Known(s, rw)
             /\ rw.baseline.snapshot = Latest(s).id
             /\ rw.events = rv.events
<1>1. PICK E : rv \in ReviewRows(E)
  BY DEF RowsOK
<1> DEFINE b1 == [rv.baseline EXCEPT !.snapshot = Latest(s).id]
           b  == [b1 EXCEPT !.completed = TRUE]
           rw == CompletedRows(s, rv)
<1>2. rv.baseline \in BaselineRow
  BY <1>1 DEF HasBaseline, ReviewRows
<1>3. Latest(s) \in s.snapshots /\ Latest(s).id \in Nat
  BY LatestIsStored DEF WellFormed, Store, Snapshot
<1>4. b1 \in BaselineRow /\ b1.snapshot = Latest(s).id /\ b1.round = rv.baseline.round
  <2>1. b1 \in BaselineRow
    BY <1>2, <1>3 DEF BaselineRow
  <2>2. b1.snapshot = Latest(s).id
    BY <1>2 DEF BaselineRow
  <2>3. b1.round = rv.baseline.round
    BY <1>2 DEF BaselineRow
  <2> QED BY <2>1, <2>2, <2>3
<1>5. b \in BaselineRow /\ b.snapshot = Latest(s).id /\ b.round = rv.baseline.round
  <2> HIDE DEF b1
  <2>1. b \in BaselineRow
    BY <1>4 DEF BaselineRow
  <2>2. b.snapshot = Latest(s).id
    BY <1>4 DEF BaselineRow
  <2>3. b.round = rv.baseline.round
    BY <1>4 DEF BaselineRow
  <2> QED BY <2>1, <2>2, <2>3
<1>6. b # None
  <2> HIDE DEF b
  <2> QED BY <1>5, ReviewNoneAssumption DEF BaselineRow
<1>7. rw = [rv EXCEPT !.baseline = b]
  BY <1>1 DEF CompletedRows, ReviewRows
<1> HIDE DEF b, rw
<1>8. rw \in ReviewRows(E) /\ rw.baseline = b /\ rw.rounds = rv.rounds /\ rw.events = rv.events
  BY <1>1, <1>5, <1>7 DEF ReviewRows
<1>9. RowsOK(rw)
  BY <1>5, <1>8 DEF RowsOK, HasBaseline
<1>10. HasBaseline(rw) /\ Known(s, rw)
  BY <1>3, <1>5, <1>6, <1>8 DEF HasBaseline, Known
<1> QED BY <1>5, <1>8, <1>9, <1>10 DEF rw

LEMMA ClearStays ==
  ASSUME NEW s, NEW t, NEW rv, Clear(s, rv), t.snapshots = s.snapshots,
         t.annotations = s.annotations, t.relations = s.relations, Confirmed(s) \subseteq Confirmed(t)
  PROVE  Clear(t, rv)
<1>1. Before(t, rv) = Before(s, rv) /\ Latest(t) = Latest(s)
  BY DEF Before, Latest
<1>2. \A r : Unusable(t, r) <=> Unusable(s, r)
  BY <1>1 DEF Unusable, EndpointsMissing
<1> QED BY <1>1, <1>2 DEF Clear

LEMMA CompleteStep ==
  ASSUME ReviewInv, NEW w, Served(w), CompleteReview(w)
  PROVE  ReviewInv' /\ StepOK
<1> DEFINE u == Settled(store)
           rv == CompletedRows(store, w.review)
           e == Event(rv, "complete", {}, None, NoText)
           rw == Recorded(rv, "complete", {}, None, NoText)
           before == ReopenedByCapture(u, review)
<1>1. /\ UnderReview(w) /\ w.open = {} /\ Respond(w.store, rw) /\ UNCHANGED <<drafts, used, capturing>>
  BY DEF CompleteReview, CompletedRows
<1>2. /\ WellFormed(w.store) /\ Retained(w.store) /\ Follows(w.store, w.store)
      /\ RowsOK(w.review) /\ HasBaseline(w.review) /\ w.review.events = review.events
      /\ w.store.snapshots = store.snapshots /\ w.store.snapshots # {} /\ Unique(w.store)
      /\ w.store.annotations = store.annotations /\ w.store.relations = store.relations
      /\ Continues(review, w.review)
  BY <1>1, ServedFacts, UnderReviewFacts DEF Served
<1>3. /\ RowsOK(rv) /\ HasBaseline(rv) /\ Known(store, rv) /\ rv.events = w.review.events
      /\ rv.baseline.snapshot = Latest(store).id
  BY <1>2, CompletedRowsFacts DEF ReviewInv, IInv
<1>4. Legitimate(e) /\ e.action = "complete" /\ e.items = {}
  BY OtherLegitimate DEF Settling, Event
<1>5. Appends(rv, rw, e)
  <2>1. e = Event(rv, "complete", {}, None, NoText) /\ rw = Recorded(rv, "complete", {}, None, NoText)
    OBVIOUS
  <2>2. "complete" # "archive"
    OBVIOUS
  <2> HIDE DEF rv, e, rw
  <2> QED BY <1>3, <1>4, <2>1, <2>2, Recording
<1> HIDE DEF rv, e, rw
<1>6. RowsOK(rw) /\ Known(w.store, rw) /\ rw.events = Append(w.review.events, e) /\ HasBaseline(rw)
      /\ rw.baseline.snapshot = Latest(store).id
  BY <1>2, <1>3, <1>5 DEF Appends, Known, HasBaseline
<1>7. ReviewInv' /\ NoRevivalStep /\ AcceptedIsInForceStep
  BY <1>1, <1>2, <1>6, QuietAnswer
<1>8. /\ Continues(rw, review') /\ store'.snapshots = w.store.snapshots
      /\ store'.annotations = w.store.annotations /\ store'.relations = w.store.relations
      /\ Confirmed(w.store) \subseteq Confirmed(store')
  BY <1>1, <1>2, <1>6, RespondFacts
<1>9. DecidedAsShownStep /\ RestoredOnceStep
  BY <1>1, <1>4, <1>6, <1>8, EventStep DEF UnderReview
<1>10. Clear(u, w.review)
  <2>1. RowsOK(before) /\ w.open = Unresolved(before, w.items) /\ w.items = Items(u, w.review)
    BY WorkspaceFacts DEF Served, ReviewInv, IInv, RowsInv
  <2> HIDE DEF before, u
  <2> QED BY <1>1, <2>1, NothingOpen
<1>11. /\ Confirmed(u) = Confirmed(w.store) /\ u.snapshots = w.store.snapshots
       /\ u.annotations = w.store.annotations /\ u.relations = w.store.relations
  BY ServedFacts, SameConfirmed DEF AllButBaseline
<1> HIDE DEF u
<1>12. Clear(store', w.review)
  BY <1>8, <1>10, <1>11, ClearStays
<1>13. CompletionIsEarnedStep
  <2>1. /\ review.receipt = w.review.receipt /\ Before(store, review) = Before(store', w.review)
        /\ Latest(store') = Latest(store)
    <3>1. store'.snapshots = store.snapshots
      BY <1>2, <1>8
    <3>2. Before(store, w.review) = Before(store, review)
      BY <1>2, ItemsOfContinued
    <3> QED BY <1>2, <3>1, <3>2 DEF Continues, Before, Latest
  <2>2. review.receipt = None \/ review.receipt.status = "success"
    <3>1. review.receipt \in ReceiptRow \cup {None}
      BY DEF ReviewInv, RowsInv, RowsOK, ReviewRows
    <3>2. review.receipt # None => review.receipt.status # "failed"
      BY <1>12, <2>1 DEF Clear
    <3> QED BY <3>1, <3>2 DEF ReceiptRow
  <2>3. review'.baseline.snapshot = Latest(store').id
    BY <1>6, <1>8, <2>1 DEF Continues
  <2>4. \A x \in Before(store, review) : Scope[x.structure] = Scope[Latest(store).structure]
    BY <1>12, <2>1 DEF Clear
  <2> QED BY <1>12, <2>2, <2>3, <2>4 DEF Clear, CompletionIsEarnedStep
<1> QED BY <1>7, <1>9, <1>13 DEF StepOK

-----------------------------------------------------------------------------
(* The steps that answer no request.                                       *)

\* A row may get another receipt or group.
LEMMA ReceiptReplaced ==
  ASSUME NEW rv, RowsOK(rv), NEW receipt \in ReceiptRow \cup {None}
  PROVE  LET rw == [rv EXCEPT !.receipt = receipt]
         IN  RowsOK(rw) /\ rw.baseline = rv.baseline /\ rw.events = rv.events
<1> DEFINE rw == [rv EXCEPT !.receipt = receipt]
<1>1. PICK E : rv \in ReviewRows(E)
  BY DEF RowsOK
<1>2. /\ rw \in ReviewRows(E) /\ rw.baseline = rv.baseline /\ rw.events = rv.events
      /\ rw.rounds = rv.rounds
  BY <1>1 DEF ReviewRows
<1> HIDE DEF rw
<1>3. RowsOK(rw)
  BY <1>2 DEF RowsOK, HasBaseline
<1> QED BY <1>2, <1>3 DEF rw

LEMMA GroupReplaced ==
  ASSUME NEW rv, RowsOK(rv), NEW g \in Group, NEW row \in GroupRow \cup {None}
  PROVE  LET rw == [rv EXCEPT !.groups[g] = row]
         IN  RowsOK(rw) /\ rw.baseline = rv.baseline /\ rw.events = rv.events
<1> DEFINE gs == [rv.groups EXCEPT ![g] = row]
           rw == [rv EXCEPT !.groups = gs]
<1>1. PICK E : rv \in ReviewRows(E)
  BY DEF RowsOK
<1>2. gs \in [Group -> GroupRow \cup {None}]
  BY <1>1 DEF ReviewRows
<1>3. rw = [rv EXCEPT !.groups[g] = row]
  BY <1>1 DEF ReviewRows
<1> HIDE DEF gs
<1>4. /\ rw \in ReviewRows(E) /\ rw.baseline = rv.baseline /\ rw.events = rv.events
      /\ rw.rounds = rv.rounds
  BY <1>1, <1>2 DEF ReviewRows
<1> HIDE DEF rw
<1>5. RowsOK(rw)
  BY <1>4 DEF RowsOK, HasBaseline
<1> QED BY <1>3, <1>4, <1>5

\* Steps that leave the decisions and the baseline alone.
LEMMA AroundTheReview ==
  ASSUME ReviewInv, IInv', NoRevivalStep, AcceptedIsInForceStep, Evolves(store, store'),
         RowsOK(review'), review'.baseline = review.baseline, review'.events = review.events,
         PageKept, capturing' \in Identity \cup {None}
  PROVE  ReviewInv' /\ StepOK
<1>1. Unique(store') /\ store'.baseline = Pin(review')
  BY DEF ReviewInv, RowsInv, Evolves, Grows, Pins, Pin, HasBaseline
<1>2. Known(store', review')
  BY DEF ReviewInv, RowsInv, Evolves, Pins, Pin, Known, HasBaseline
<1>3. PageOK(screen, store)'
  BY PageKeptFacts DEF ReviewInv, RowsInv, IInv, Evolves
<1>4. ReviewInv'
  BY <1>1, <1>2, <1>3 DEF ReviewInv, RowsInv
<1>5. DecidedAsShownStep /\ RestoredOnceStep
  BY NoEventStep DEF ReviewInv, RowsInv
<1>6. CompletionIsEarnedStep
  BY NotCompleting DEF Completed, HasBaseline
<1> QED BY <1>4, <1>5, <1>6 DEF StepOK

LEMMA LocalReviewStep ==
  ASSUME ReviewInv, LocalStep, UNCHANGED <<review, capturing>>, PageKept
  PROVE  ReviewInv' /\ StepOK
<1>1. IInv' /\ NoRevivalStep /\ AcceptedIsInForceStep
  BY NextStep DEF ReviewInv, Next
<1>2. Evolves(store, store')
  BY LocalEvolves DEF ReviewInv
<1> QED BY <1>1, <1>2, AroundTheReview DEF ReviewInv, RowsInv

\* The store itself does not change.
LEMMA SameStoreStep ==
  ASSUME ReviewInv, UNCHANGED <<store, drafts, used>>
  PROVE  IInv' /\ NoRevivalStep /\ AcceptedIsInForceStep /\ Evolves(store, store')
<1>1. IInv' /\ NoRevivalStep /\ AcceptedIsInForceStep
  BY NextStep DEF ReviewInv, vars
<1>2. WellFormed(store) /\ store.clock \in Nat
  BY DEF ReviewInv, IInv, WellFormed, Store
<1> QED BY <1>1, <1>2, SameEvolves

\* A capture leaves a snapshot.
LEMMA StoredHasSnapshot ==
  ASSUME NEW s, WellFormed(s), NEW c \in Catalog, NEW keep
  PROVE  Stored(s, c, keep).snapshots # {}
<1>1. CASE s.snapshots # {} /\ Latest(s).structure = c
  BY <1>1 DEF Stored
<1>2. CASE ~ (s.snapshots # {} /\ Latest(s).structure = c)
  <2> DEFINE t == AddSnapshot(Tick(s), c)
             u == Pruned(t, keep)
  <2>1. Stored(s, c, keep) = Settled(u)
    BY <1>2 DEF Stored
  <2>2. WellFormed(t) /\ t.snapshots # {}
    BY TickFacts, AddSnapshotFacts
  <2> HIDE DEF t
  <2>3. WellFormed(u)
    BY <2>2, PrunedFacts
  <2>4. Latest(t) \in t.snapshots
    BY <2>2, LatestIsStored DEF WellFormed
  <2>5. Latest(t) \in u.snapshots
    BY <2>2, <2>4 DEF Pruned, Protected, WellFormed, Store
  <2> HIDE DEF u
  <2> QED BY <2>1, <2>3, <2>5, SettledFacts DEF SameEvidence
<1> QED BY <1>1, <1>2

LEMMA ReceiveStep ==
  ASSUME ReviewInv, NEW i \in Identity, NEW c \in Catalog, NEW keep, Receive(i, c, keep),
         capturing' \in {capturing, None}
  PROVE  ReviewInv' /\ StepOK
<1>1. SaveCapture(i, c, keep) /\ review' = [review EXCEPT !.receipt = Receipt(store')] /\ PageKept
  BY DEF Receive
<1>2. IInv' /\ NoRevivalStep /\ AcceptedIsInForceStep
  BY <1>1, SaveCaptureStep DEF ReviewInv
<1>3. Evolves(store, store')
  BY <1>1, CaptureStepEvolves DEF ReviewInv
<1>4. store'.snapshots # {}
  <2> DEFINE s == [store EXCEPT !.identity = i]
  <2>1. WellFormed(s)
    BY IdentityFacts DEF ReviewInv, IInv
  <2>2. store' = Settled(Stored(s, c, keep))
    BY <1>1 DEF SaveCapture
  <2> HIDE DEF s
  <2>3. WellFormed(Stored(s, c, keep))
    BY <2>1, StoredEvolves DEF Evolves
  <2>4. Stored(s, c, keep).snapshots # {}
    BY <2>1, StoredHasSnapshot
  <2> QED BY <2>2, <2>3, <2>4, SettledFacts DEF SameEvidence
<1>5. Receipt(store') \in ReceiptRow
  <2>1. WellFormed(store')
    BY <1>3 DEF Evolves
  <2>2. Latest(store').id \in Nat /\ store'.identity \in Identity
    BY <1>4, <2>1, LatestIsStored DEF WellFormed, Store, Snapshot
  <2> QED BY <2>2 DEF Receipt, ReceiptRow
<1>6. RowsOK(review') /\ review'.baseline = review.baseline /\ review'.events = review.events
  BY <1>1, <1>5, ReceiptReplaced DEF ReviewInv, RowsInv
<1> QED BY <1>1, <1>2, <1>3, <1>6, AroundTheReview DEF ReviewInv

LEMMA CaptureStep ==
  ASSUME ReviewInv, Capture
  PROVE  ReviewInv' /\ StepOK
<1>1. store.identity \in Identity
  BY DEF ReviewInv, IInv, WellFormed, Store
<1>2. CASE BeginCapture
  <2>1. /\ UNCHANGED <<store, drafts, used>> /\ review' = review /\ screen' = screen
        /\ capturing' \in Identity
    BY <1>1, <1>2 DEF BeginCapture
  <2>2. IInv' /\ NoRevivalStep /\ AcceptedIsInForceStep
    BY <2>1, SameStoreStep
  <2>3. ReviewInv'
    BY <2>1, <2>2 DEF ReviewInv, RowsInv
  <2>4. DecidedAsShownStep /\ RestoredOnceStep
    BY <2>1, NoEventStep DEF ReviewInv, RowsInv
  <2>5. CompletionIsEarnedStep
    BY <2>1, NotCompleting
  <2> QED BY <2>2, <2>3, <2>4, <2>5 DEF StepOK
<1>3. ASSUME NEW c \in Catalog, NEW keep, EndCapture(c, keep)
      PROVE  ReviewInv' /\ StepOK
  BY <1>1, <1>3, ReceiveStep DEF EndCapture
<1>4. CASE FailCapture
  <2>1. /\ review' = [review EXCEPT !.receipt = [status |-> "failed"]]
        /\ capturing' \in {capturing, None} /\ UNCHANGED <<store, drafts, used>> /\ PageKept
    BY <1>4 DEF FailCapture
  <2>2. [status |-> "failed"] \in ReceiptRow
    BY DEF ReceiptRow
  <2>3. RowsOK(review') /\ review'.baseline = review.baseline /\ review'.events = review.events
    BY <2>1, <2>2, ReceiptReplaced DEF ReviewInv, RowsInv
  <2>4. IInv' /\ NoRevivalStep /\ AcceptedIsInForceStep /\ Evolves(store, store')
    BY <2>1, SameStoreStep
  <2> QED BY <2>1, <2>3, <2>4, AroundTheReview DEF ReviewInv
<1>5. ASSUME NEW i \in Identity, NEW c \in Catalog, NEW keep, VerifiedCapture(i, c, keep)
      PROVE  ReviewInv' /\ StepOK
  BY <1>5, ReceiveStep DEF VerifiedCapture
<1> QED BY <1>2, <1>3, <1>4, <1>5 DEF Capture

LEMMA ReadReviewStep ==
  ASSUME ReviewInv, ReadReview
  PROVE  ReviewInv' /\ StepOK
<1>1. /\ store.snapshots # {} /\ Respond(store, review) /\ UNCHANGED <<drafts, used, capturing>>
  BY DEF ReadReview
<1>2. /\ WellFormed(store') /\ Downgraded(store') /\ Retained(store') /\ Follows(store, store')
      /\ RowsInv' /\ Continues(review, review')
  BY <1>1, RespondFacts DEF ReviewInv, RowsInv, IInv
<1>3. IInv' /\ NoRevivalStep /\ AcceptedIsInForceStep
  BY <1>1, <1>2, QuietStep DEF ReviewInv
<1>4. DecidedAsShownStep /\ RestoredOnceStep
  BY <1>2, NoEventStep DEF ReviewInv, RowsInv, Continues
<1>5. CompletionIsEarnedStep
  BY <1>2, NotCompleting DEF Continues
<1> QED BY <1>1, <1>2, <1>3, <1>4, <1>5 DEF ReviewInv, StepOK

LEMMA GroupStep ==
  ASSUME ReviewInv, NEW g \in Group, NEW tables \in SUBSET Table,
         SaveGroup(g, tables) \/ DeleteGroup(g)
  PROVE  ReviewInv' /\ StepOK
<1>1. CASE SaveGroup(g, tables)
  <2> DEFINE row == [tables |-> tables, at |-> store'.clock]
  <2>1. /\ store' = Tick(store) /\ review' = [review EXCEPT !.groups[g] = row]
        /\ UNCHANGED <<drafts, used, capturing>> /\ PageKept
    BY <1>1 DEF SaveGroup
  <2>2. IInv' /\ NoRevivalStep /\ AcceptedIsInForceStep /\ Evolves(store, store') /\ store'.clock \in Nat
    BY <2>1, TickKeeps, QuietStep, TickEvolves DEF ReviewInv, IInv
  <2>3. row \in GroupRow
    BY <2>2 DEF GroupRow
  <2> HIDE DEF row
  <2>4. RowsOK(review') /\ review'.baseline = review.baseline /\ review'.events = review.events
    BY <2>1, <2>3, GroupReplaced DEF ReviewInv, RowsInv
  <2> QED BY <2>1, <2>2, <2>4, AroundTheReview DEF ReviewInv
<1>2. CASE DeleteGroup(g)
  <2>1. /\ review' = [review EXCEPT !.groups[g] = None]
        /\ UNCHANGED <<store, drafts, used, capturing>> /\ PageKept
    BY <1>2 DEF DeleteGroup
  <2>2. IInv' /\ NoRevivalStep /\ AcceptedIsInForceStep /\ Evolves(store, store')
    BY <2>1, SameStoreStep
  <2>3. RowsOK(review') /\ review'.baseline = review.baseline /\ review'.events = review.events
    BY <2>1, GroupReplaced DEF ReviewInv, RowsInv
  <2> QED BY <2>1, <2>2, <2>3, AroundTheReview DEF ReviewInv
<1> QED BY <1>1, <1>2

\* delete_source_data takes the review's rows along.
LEMMA DeleteReviewStep ==
  ASSUME ReviewInv, NEW h \in BOOLEAN, NEW m \in BOOLEAN, NEW c \in BOOLEAN, DeleteReview(h, m, c)
  PROVE  ReviewInv' /\ StepOK
<1> DEFINE s == Erased(store, h, m, c)
<1>1. /\ DeleteSourceData(h, m, c) /\ PageKept /\ capturing' = capturing
      /\ review' = [NoReview EXCEPT !.groups = IF m THEN @ ELSE review.groups]
  BY DEF DeleteReview
<1>2. IInv' /\ NoRevivalStep /\ AcceptedIsInForceStep
  BY <1>1, DeleteSourceDataStep DEF ReviewInv
<1>3. /\ review'.baseline = None /\ review'.events = <<>> /\ review' \in ReviewRows({})
      /\ RowsOK(review')
  <2> DEFINE gs == IF m THEN [g \in Group |-> None] ELSE review.groups
  <2>1. review.groups \in [Group -> GroupRow \cup {None}]
    BY DEF ReviewInv, RowsInv, RowsOK, ReviewRows
  <2>2. gs \in [Group -> GroupRow \cup {None}]
    BY <2>1
  <2>3. review' = [baseline |-> None, rounds |-> 0, events |-> <<>>, receipt |-> None, groups |-> gs]
    BY <1>1 DEF NoReview
  <2> HIDE DEF gs
  <2>4. /\ review'.baseline = None /\ review'.events = <<>> /\ review' \in ReviewRows({})
    BY <2>2, <2>3 DEF ReviewRows
  <2>5. RowsOK(review')
    BY <2>4 DEF RowsOK, HasBaseline
  <2> QED BY <2>4, <2>5
<1>4. store' = Settled(s)
  BY <1>1 DEF DeleteSourceData
<1>5. /\ WellFormed(s) /\ s.snapshots \subseteq store.snapshots /\ s.baseline = {}
      /\ s.clock = store.clock /\ store.clock \in Nat
  <2>1. store \in Store
    BY DEF ReviewInv, IInv, WellFormed
  <2>2. WellFormed(s) /\ s.snapshots = (IF h THEN {} ELSE store.snapshots)
    BY ErasedFacts DEF ReviewInv, IInv
  <2>3. s.baseline = {} /\ s.clock = store.clock /\ store.clock \in Nat
    BY <2>1 DEF Erased, Store
  <2> HIDE DEF s
  <2> QED BY <2>2, <2>3
<1> HIDE DEF s
<1>6. /\ WellFormed(store') /\ store'.snapshots \subseteq store.snapshots /\ store'.baseline = {}
      /\ store'.clock = store.clock
  BY <1>4, <1>5, SettledFacts DEF SameEvidence
<1>7. Unique(store') /\ Grows(store, store')
  BY <1>5, <1>6 DEF ReviewInv, RowsInv, Unique, Grows
<1>8. PageOK(screen, store)'
  BY <1>1, <1>6, <1>7, PageKeptFacts DEF ReviewInv, RowsInv, IInv
<1>9. RowsInv'
  BY <1>3, <1>6, <1>7, <1>8 DEF RowsInv, Pin, Known, HasBaseline
<1>10. DecidedAsShownStep /\ RestoredOnceStep
  <2>1. PICK E : review.events \in Seq(E)
    BY DEF ReviewInv, RowsInv, RowsOK, ReviewRows
  <2>2. Len(review.events) \in Nat /\ Len(review'.events) = 0
    BY <1>3, <2>1
  <2> QED BY <2>2 DEF DecidedAsShownStep, RestoredOnceStep
<1>11. CompletionIsEarnedStep
  BY <1>3, NotCompleting DEF Completed, HasBaseline
<1> QED BY <1>1, <1>2, <1>9, <1>10, <1>11 DEF ReviewInv, StepOK

-----------------------------------------------------------------------------
(* The theorems.                                                           *)

LEMMA InitReviewInv == ReviewInit => ReviewInv
<1> SUFFICES ASSUME ReviewInit PROVE ReviewInv
  OBVIOUS
<1>1. IInv /\ store.snapshots = {} /\ store.baseline = {}
  BY InitIInv DEF ReviewInit, Init
<1>2. /\ review = NoReview /\ capturing = None /\ screen = None
  BY DEF ReviewInit
<1>3. /\ review.baseline = None /\ review.events = <<>> /\ review \in ReviewRows({})
  BY <1>2 DEF NoReview, ReviewRows
<1>4. RowsOK(review)
  BY <1>3 DEF RowsOK, HasBaseline
<1> QED BY <1>1, <1>2, <1>3, <1>4 DEF ReviewInv, RowsInv, Unique, Pin, Known, HasBaseline, PageOK

LEMMA RequestStep ==
  ASSUME ReviewInv, Request
  PROVE  ReviewInv' /\ StepOK
<1> DEFINE w == Workspace(store, review)
<1>1. Served(w)
  BY DEF Request, Served
<1>2. \/ StartReview(w)
      \/ RestartReview(w)
      \/ CompleteReview(w)
      \/ \E i \in w.items, a \in ItemAction : Decide(w, i, a)
      \/ \E batch \in SUBSET {i \in w.items : i.kind = "structure"} : SeeBatch(w, batch)
      \/ \E i \in w.items, d \in Id, x \in Text : ConfirmItem(w, i, d, x)
      \/ \E i \in w.items : ArchiveItem(w, i)
      \/ \E i \in w.items : DisableItem(w, i)
      \/ \E n \in DOMAIN review.events : RestoreItem(w, n)
  BY DEF Request
<1> HIDE DEF w
<1>3. ASSUME NEW batch \in SUBSET {i \in w.items : i.kind = "structure"}, SeeBatch(w, batch)
      PROVE  ReviewInv' /\ StepOK
  <2>1. batch \in SUBSET w.items
    OBVIOUS
  <2> QED BY <1>1, <1>3, <2>1, SeeBatchStep
<1>4. ASSUME NEW i \in w.items, NEW d \in Id, NEW x \in Text, ConfirmItem(w, i, d, x)
      PROVE  ReviewInv' /\ StepOK
  BY <1>1, <1>4, ConfirmStep
<1>5. ASSUME NEW n \in DOMAIN review.events, RestoreItem(w, n)
      PROVE  ReviewInv' /\ StepOK
  BY <1>1, <1>5, RestoreStep
<1>6. ASSUME NEW i \in w.items, NEW a, Decide(w, i, a)
      PROVE  ReviewInv' /\ StepOK
  BY <1>1, <1>6, DecideStep
<1>7. ASSUME NEW i \in w.items, ArchiveItem(w, i) \/ DisableItem(w, i)
      PROVE  ReviewInv' /\ StepOK
  BY <1>1, <1>7, ArchiveStep, DisableStep
<1>8. ASSUME StartReview(w) \/ RestartReview(w) \/ CompleteReview(w)
      PROVE  ReviewInv' /\ StepOK
  BY <1>1, <1>8, StartStep, RestartStep, CompleteStep
<1> QED BY <1>2, <1>3, <1>4, <1>5, <1>6, <1>7, <1>8

\* What every step of the review keeps and does.
LEMMA ReviewNextStep ==
  ASSUME ReviewInv, [ReviewNext]_reviewVars
  PROVE  ReviewInv' /\ StepOK
<1>1. CASE UNCHANGED reviewVars
  <2>1. UNCHANGED <<store, drafts, used, review, capturing, screen>>
    BY <1>1 DEF reviewVars
  <2>2. IInv' /\ NoRevivalStep /\ AcceptedIsInForceStep
    BY <2>1, SameStoreStep
  <2>3. ReviewInv'
    BY <2>1, <2>2 DEF ReviewInv, RowsInv
  <2>4. DecidedAsShownStep /\ RestoredOnceStep /\ CompletionIsEarnedStep
    BY <2>1, NoEventStep, NotCompleting DEF ReviewInv, RowsInv
  <2> QED BY <2>2, <2>3, <2>4 DEF StepOK
<1>2. ASSUME NEW g \in Group, NEW tables \in SUBSET Table, SaveGroup(g, tables)
      PROVE  ReviewInv' /\ StepOK
  BY <1>2, GroupStep
<1>3. ASSUME NEW g \in Group, DeleteGroup(g)
      PROVE  ReviewInv' /\ StepOK
  <2>1. {} \in SUBSET Table
    OBVIOUS
  <2> QED BY <1>3, <2>1, GroupStep
<1>4. ASSUME NEW h \in BOOLEAN, NEW m \in BOOLEAN, NEW c \in BOOLEAN, DeleteReview(h, m, c)
      PROVE  ReviewInv' /\ StepOK
  BY <1>4, DeleteReviewStep
<1> QED BY <1>1, <1>2, <1>3, <1>4, LocalReviewStep, CaptureStep, ReadReviewStep, RequestStep
     DEF ReviewNext

\* The inductive invariant of the review.  Besides Knowledge's it says that no two
\* snapshots share an id, that the baseline names a stored one, that the recorded
\* decisions are ones an item offered, and that the page of the client shows the
\* items of an earlier state whose snapshots are still the same: this is what makes
\* an equal revision mean equal evidence.
THEOREM ReviewInductive == ReviewSpec => []ReviewInv
<1>1. ReviewInit => ReviewInv
  BY InitReviewInv
<1>2. ReviewInv /\ [ReviewNext]_reviewVars => ReviewInv'
  BY ReviewNextStep
<1> QED BY <1>1, <1>2, PTL DEF ReviewSpec

\* The rows keep the shape the code deserializes, and retention pins the snapshot
\* of the current baseline and nothing else, after restarts and deletions too.
THEOREM ReviewTypeCorrect == ReviewSpec => []ReviewTypeOK
<1>1. ASSUME ReviewInv PROVE ReviewTypeOK
  <2>1. PICK E : review \in ReviewRows(E)
    BY <1>1 DEF ReviewInv, RowsInv, RowsOK
  <2>2. HasBaseline(review) =>
          review.baseline \in [snapshot : Nat, identity : Identity,
                               round : 1 .. review.rounds, completed : BOOLEAN]
    <3> SUFFICES ASSUME HasBaseline(review)
                 PROVE  review.baseline \in [snapshot : Nat, identity : Identity,
                                             round : 1 .. review.rounds, completed : BOOLEAN]
      OBVIOUS
    <3>1. review.baseline \in BaselineRow
      BY <2>1 DEF ReviewRows, HasBaseline
    <3>2. review.baseline.round \in 1 .. review.rounds
      BY <1>1 DEF ReviewInv, RowsInv, RowsOK
    <3> DEFINE R == 1 .. review.rounds
    <3> HIDE DEF R
    <3>3. review.baseline.round \in R
      BY <3>2 DEF R
    <3>4. review.baseline \in [snapshot : Nat, identity : Identity, round : R, completed : BOOLEAN]
      BY <3>1, <3>3 DEF BaselineRow
    <3> QED BY <3>4 DEF R
  <2>3. store = Pinned(store, review)
    <3>1. store \in Store /\ store.baseline = Pin(review)
      BY <1>1 DEF ReviewInv, RowsInv, IInv, WellFormed
    <3>2. Pinned(store, review) = [store EXCEPT !.baseline = Pin(review)]
      BY DEF Pinned, Pin
    <3> QED BY <3>1, <3>2 DEF Store
  <2>4. \A n \in DOMAIN review.events : review.events[n].round \in 1 .. review.rounds
    BY <1>1 DEF ReviewInv, RowsInv, RowsOK, EventOK
  <2>5. review.receipt # None /\ review.receipt.status = "success" =>
          review.receipt \in [status : {"success"}, snapshot : Nat, identity : Identity]
    <3>1. review.receipt \in ReceiptRow \cup {None}
      BY <2>1 DEF ReviewRows
    <3> QED BY <3>1 DEF ReceiptRow
  <2> QED BY <1>1, <2>2, <2>3, <2>4, <2>5 DEF ReviewTypeOK, ReviewInv, IInv
<1> QED BY <1>1, ReviewInductive, PTL

\* prune_snapshots_in never deletes the snapshot a review is compared with.
THEOREM BaselineIsRetained == ReviewSpec => []BaselineRetained
<1>1. ReviewInv => BaselineRetained
  BY DEF ReviewInv, RowsInv, Known, BaselineRetained, Before
<1> QED BY <1>1, ReviewInductive, PTL

\* change_review sends no workspace as completed that has an unresolved item.
THEOREM CompletedWorkspaceIsResolved == ReviewSpec => []CompletedIsResolved
<1>1. ReviewInv => CompletedIsResolved
  BY DEF ReviewInv, RowsInv, PageOK, CompletedIsResolved
<1> QED BY <1>1, ReviewInductive, PTL

\* apply_change_review compares revisions only, and that is enough: a decision is
\* recorded for evidence that was on the client's page.
THEOREM DecisionsAreAsShown == ReviewSpec => DecidedAsShown
<1>1. ReviewInv /\ [ReviewNext]_reviewVars => DecidedAsShownStep
  BY ReviewNextStep DEF StepOK
<1> QED BY <1>1, ReviewInductive, PTL DEF ReviewSpec, DecidedAsShown

\* No sequence of decisions completes a round whose statements are not confirmed,
\* whose capture failed or whose relationships cannot be used.
THEOREM CompletionsAreEarned == ReviewSpec => CompletionIsEarned
<1>1. ReviewInv /\ [ReviewNext]_reviewVars => CompletionIsEarnedStep
  BY ReviewNextStep DEF StepOK
<1> QED BY <1>1, ReviewInductive, PTL DEF ReviewSpec, CompletionIsEarned

\* An archived text is restored once, where there is none, unconfirmed.
THEOREM RestoresOnce == ReviewSpec => RestoredOnce
<1>1. ReviewInv /\ [ReviewNext]_reviewVars => RestoredOnceStep
  BY ReviewNextStep DEF StepOK
<1> QED BY <1>1, ReviewInductive, PTL DEF ReviewSpec, RestoredOnce

\* The review confirms, archives, restores and disables on its own; stale records
\* are still all downgraded and the evidence of the live ones is kept.
THEOREM ReviewKeepsKnowledge == ReviewSpec => [](DowngradesAreDurable /\ EvidenceRetained)
<1>1. ReviewInv => DowngradesAreDurable /\ EvidenceRetained
  BY DEF ReviewInv, IInv, Downgraded, Retained, Live, DowngradesAreDurable, EvidenceRetained
<1> QED BY <1>1, ReviewInductive, PTL

\* Nothing a review does revives a confirmation, and one it accepts is in force.
THEOREM ReviewRevivesNothing == ReviewSpec => [][NoRevivalStep /\ AcceptedIsInForceStep]_reviewVars
<1>1. ReviewInv /\ [ReviewNext]_reviewVars => NoRevivalStep /\ AcceptedIsInForceStep
  BY ReviewNextStep DEF StepOK
<1> QED BY <1>1, ReviewInductive, PTL DEF ReviewSpec
=============================================================================

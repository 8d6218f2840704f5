----------------------- MODULE RelationshipBatchesProofs -----------------------
(***************************************************************************)
(* Proofs about RelationshipBatches, for every value of its constants.     *)
(***************************************************************************)
EXTENDS RelationshipBatches, TLAPS

-----------------------------------------------------------------------------
(* The shape of the tables.                                                *)

Action == {"confirm", "ignore", "restore"}
AnyRow == LinkRow \cup IgnoredRow \cup {Nothing}

StoredChange ==
  [key : Key, item : Item, before : AnyRow, after : AnyRow, version : Nat]
BatchRow ==
  [action : Action, changes : SUBSET StoredChange, undone : BOOLEAN, skipped : SUBSET Key]
Model ==
  [snapshot : {Nothing} \cup [id : Nat, structure : Structure],
   profile  : Profile,
   rows     : [Item -> AnyRow],
   versions : [Item -> Nat],
   batches  : [Batch -> {Nothing} \cup BatchRow],
   clock    : Nat]

\* Rows that a table can hold, by item.
RowsFit(rows) == \A i \in DOMAIN rows : rows[i] \in RowOf(i)

\* A batch is the last writer of a row exactly if the row has the version the
\* batch knows, and then the row is as the batch left it.
Tracked(m, w, b, c) ==
  /\ c.before \in RowOf(c.item)
  /\ c.after \in RowOf(c.item)
  /\ c.version \in 1 .. m.versions[c.item]
  /\ w[c.item] = b <=> m.versions[c.item] = c.version
  /\ w[c.item] = b => m.rows[c.item] = c.after

Distinct(changes) ==
  \A c, d \in changes : c.key = d.key \/ c.item = d.item => c = d

Sound(m, w) ==
  /\ m \in Model
  /\ RowsFit(m.rows)
  /\ w \in [Item -> Batch \cup {Other}]
  /\ \A b \in Batch : m.batches[b] # Nothing =>
       /\ Distinct(m.batches[b].changes)
       /\ \A c \in m.batches[b].changes : Tracked(m, w, b, c)

\* What the clients hold is well formed, however stale.
Clients ==
  /\ attempt # Nothing => /\ attempt.batch \in Batch
                       /\ attempt.approved \subseteq Key
                       /\ attempt.request.action \in Action
  /\ listing \subseteq Link \X LinkRow
  /\ editing # Nothing => editing \in [link : Link, key : Candidate, status : LinkStatus]

Inv == Sound(model, writer) /\ Clients

\* A step stores no batch and changes none that stays.
BatchesKept ==
  \A b \in Batch : model'.batches[b] = model.batches[b] \/ model'.batches[b] = Nothing

\* A step stores the submitted batch.
BatchStored ==
  /\ model.batches[attempt.batch] = Nothing
  /\ \A b \in Batch \ {attempt.batch} : model'.batches[b] = model.batches[b]

\* The promise of LinkedOnce for one batch.
LinkedBy(b) ==
  model'.batches[b].action = "confirm" =>
    \A c \in model'.batches[b].changes :
      /\ model'.rows[c.item] = c.after
      /\ StatusIn[model'.snapshot.structure][c.key] = "Active"
      /\ model'.rows[c.key] = Nothing /\ model'.rows[RuleOf[c.key]] = Nothing
      /\ \A l \in Links(model') \ {c.item} :
           FieldOf[model'.rows[l].key] = FieldOf[c.key]
             => model'.rows[l].status = "Orphaned"

-----------------------------------------------------------------------------
(* Writing rows.                                                           *)

LEMMA RowOfFacts ==
  ASSUME NEW i \in Item
  PROVE  /\ RowOf(i) \subseteq AnyRow
         /\ Nothing \in RowOf(i)
         /\ i \in Link => LinkRow \subseteq RowOf(i)
         /\ i \in Key => IgnoredRow \subseteq RowOf(i)
BY DistinctAssumption DEF RowOf, AnyRow

LEMMA TickFacts ==
  ASSUME NEW m \in Model
  PROVE  /\ Later(m) \in Model
         /\ Later(m).rows = m.rows
         /\ Later(m).versions = m.versions
         /\ Later(m).batches = m.batches
         /\ Later(m).snapshot = m.snapshot
         /\ Later(m).clock = m.clock + 1
BY DEF Model, Later

LEMMA WrittenFacts ==
  ASSUME NEW m \in Model, NEW rows, DOMAIN rows \subseteq Item, RowsFit(rows)
  PROVE  /\ Written(m, rows) \in Model
         /\ \A i \in Item :
              /\ Written(m, rows).rows[i] = IF i \in DOMAIN rows THEN rows[i] ELSE m.rows[i]
              /\ Written(m, rows).versions[i]
                   = IF i \in DOMAIN rows THEN m.versions[i] + 1 ELSE m.versions[i]
         /\ Written(m, rows).batches = m.batches
         /\ Written(m, rows).snapshot = m.snapshot
<1> DEFINE newRows     == [i \in Item |-> IF i \in DOMAIN rows THEN rows[i] ELSE m.rows[i]]
           newVersions == [i \in Item |-> IF i \in DOMAIN rows THEN m.versions[i] + 1
                                                                ELSE m.versions[i]]
<1>1. newRows \in [Item -> AnyRow]
  BY RowOfFacts DEF RowsFit, Model
<1>2. newVersions \in [Item -> Nat]
  BY DEF Model
<1>3. Written(m, rows) = [m EXCEPT !.rows = newRows, !.versions = newVersions]
  BY DEF Written, Model
<1> HIDE DEF newRows, newVersions
<1>4. /\ Written(m, rows) \in Model
      /\ Written(m, rows).rows = newRows
      /\ Written(m, rows).versions = newVersions
      /\ Written(m, rows).batches = m.batches
      /\ Written(m, rows).snapshot = m.snapshot
  BY <1>1, <1>2, <1>3 DEF Model
<1>5. QED
  BY <1>4 DEF newRows, newVersions

\* Nothing is lost when only the other fields change.
LEMMA SameRows ==
  ASSUME NEW m, NEW w, NEW t \in Model, Sound(m, w),
         t.rows = m.rows, t.versions = m.versions,
         \A b \in Batch : t.batches[b] # Nothing =>
           m.batches[b] # Nothing /\ t.batches[b].changes = m.batches[b].changes
  PROVE  Sound(t, w)
BY DEF Sound, Tracked

LEMMA BatchShape ==
  ASSUME NEW m \in Model, NEW b \in Batch, m.batches[b] # Nothing
  PROVE  /\ m.batches[b] \in BatchRow
         /\ m.batches[b].changes \subseteq StoredChange
BY DEF Model, BatchRow

LEMMA WriteSound ==
  ASSUME NEW m, Sound(m, writer), NEW rows, DOMAIN rows \subseteq Item, RowsFit(rows),
         Write(m, rows)
  PROVE  Sound(model', writer') /\ model'.batches = m.batches
<1>1. m \in Model /\ model' = Written(m, rows)
  BY DEF Sound, Write
<1>2. /\ model' \in Model
      /\ \A i \in Item :
           /\ model'.rows[i] = IF i \in DOMAIN rows THEN rows[i] ELSE m.rows[i]
           /\ model'.versions[i]
                = IF i \in DOMAIN rows THEN m.versions[i] + 1 ELSE m.versions[i]
      /\ model'.batches = m.batches
  BY <1>1, WrittenFacts
<1>3. RowsFit(model'.rows)
  BY <1>1, <1>2 DEF RowsFit, Sound, Model
<1>4. writer' \in [Item -> Batch \cup {Other}]
  BY DEF Write, Sound
<1>5. ASSUME NEW b \in Batch, model'.batches[b] # Nothing
      PROVE  /\ Distinct(model'.batches[b].changes)
             /\ \A c \in model'.batches[b].changes : Tracked(model', writer', b, c)
  <2>1. /\ Distinct(m.batches[b].changes)
        /\ \A c \in m.batches[b].changes : Tracked(m, writer, b, c)
    BY <1>2, <1>5 DEF Sound
  <2>2. m.batches[b].changes \subseteq StoredChange
    BY <1>1, <1>2, <1>5, BatchShape
  <2>3. m.versions \in [Item -> Nat]
    BY <1>1 DEF Model
  <2>4. \A i \in Item : writer'[i] = IF i \in DOMAIN rows THEN Other ELSE writer[i]
    BY DEF Write
  <2>5. Other # b
    BY DistinctAssumption
  <2>6. ASSUME NEW c \in m.batches[b].changes
        PROVE  Tracked(model', writer', b, c)
    <3>1. Tracked(m, writer, b, c) /\ c \in StoredChange
      BY <2>1, <2>2
    <3>2. c.item \in Item /\ c.version \in Nat /\ m.versions[c.item] \in Nat
      BY <2>3, <3>1 DEF StoredChange
    <3>3. CASE c.item \in DOMAIN rows
      <4>1. model'.versions[c.item] = m.versions[c.item] + 1 /\ writer'[c.item] = Other
        BY <1>2, <2>4, <3>2, <3>3
      <4>2. QED
        BY <2>5, <3>1, <3>2, <4>1 DEF Tracked
    <3>4. CASE c.item \notin DOMAIN rows
      <4>1. /\ model'.versions[c.item] = m.versions[c.item]
            /\ model'.rows[c.item] = m.rows[c.item]
            /\ writer'[c.item] = writer[c.item]
        BY <1>2, <2>4, <3>2, <3>4
      <4>2. QED
        BY <3>1, <4>1 DEF Tracked
    <3>5. QED
      BY <3>3, <3>4
  <2>7. QED
    BY <1>2, <2>1, <2>6
<1>6. QED
  BY <1>2, <1>3, <1>4, <1>5 DEF Sound

-----------------------------------------------------------------------------
(* Applying and undoing.                                                   *)

\* The change a batch plans for one of its keys writes a row of its item.
LEMMA PlannedFacts ==
  ASSUME NEW m, NEW w, Sound(m, w), NEW a, NEW link, NEW k \in Key,
         a.request.action \in Action,
         a.request.action = "confirm" => k \in Candidate /\ link[k] \in Link
  PROVE  LET c == Planned(m, a, link, k) IN
         /\ c \in [key : Key, item : Item, before : AnyRow, after : AnyRow]
         /\ c.key = k
         /\ c.item = IF a.request.action = "confirm" THEN link[k] ELSE k
         /\ c.before \in RowOf(c.item)
         /\ c.after \in RowOf(c.item)
<1> DEFINE c == Planned(m, a, link, k)
<1>1. /\ m.clock \in Nat
      /\ m.rows[k] \in RowOf(k)
  BY DEF Sound, Model, RowsFit, Item
<1>2. k \in Item /\ RowOf(k) \subseteq AnyRow /\ Nothing \in RowOf(k)
      /\ IgnoredRow \subseteq RowOf(k)
  BY RowOfFacts DEF Item
<1>3. CASE a.request.action = "confirm"
  <2>1. c = [key |-> k, item |-> link[k], before |-> Nothing,
             after |-> [key |-> k, status |-> "Active", at |-> m.clock]]
    BY <1>3 DEF Planned
  <2>2. link[k] \in Item /\ link[k] \in Link /\ k \in Candidate
    BY <1>3 DEF Item
  <2>3. [key |-> k, status |-> "Active", at |-> m.clock] \in LinkRow
    BY <1>1, <2>2 DEF LinkRow, LinkStatus
  <2>4. /\ Nothing \in RowOf(link[k])
        /\ LinkRow \subseteq RowOf(link[k])
        /\ RowOf(link[k]) \subseteq AnyRow
    BY <2>2, RowOfFacts
  <2>5. QED
    BY <1>3, <2>1, <2>2, <2>3, <2>4
<1>4. CASE a.request.action = "ignore"
  <2>1. c = [key |-> k, item |-> k, before |-> Nothing, after |-> [ignored |-> m.clock]]
    BY <1>4 DEF Planned
  <2>2. [ignored |-> m.clock] \in IgnoredRow
    BY <1>1 DEF IgnoredRow
  <2>3. QED
    BY <1>2, <1>4, <2>1, <2>2
<1>5. CASE a.request.action = "restore"
  <2>1. c = [key |-> k, item |-> k, before |-> m.rows[k], after |-> Nothing]
    BY <1>5 DEF Planned
  <2>2. QED
    BY <1>1, <1>2, <1>5, <2>1
<1>6. QED
  BY <1>3, <1>4, <1>5 DEF Action

\* A set of changes with one change per item leaves and puts back their rows.
LEMMA RowsOfChanges ==
  ASSUME NEW changes,
         \A c, d \in changes : c.item = d.item => c = d
  PROVE  /\ DOMAIN After(changes) = {c.item : c \in changes}
         /\ DOMAIN Before(changes) = {c.item : c \in changes}
         /\ \A c \in changes : /\ After(changes)[c.item] = c.after
                               /\ Before(changes)[c.item] = c.before
<1>1. ASSUME NEW c \in changes
      PROVE  (CHOOSE d \in changes : d.item = c.item) = c
  OBVIOUS
<1>2. QED
  BY <1>1 DEF After, Before

LEMMA ClockFact ==
  ASSUME Inv
  PROVE  model \in Model /\ model.clock \in Nat
BY DEF Inv, Sound, Model

LEMMA ApplySound ==
  ASSUME Inv, NEW link, Apply(link), attempt # Nothing,
         attempt.request.action = "confirm" =>
           /\ \A k \in attempt.approved : link[k] \in Link
           /\ \A j, k \in attempt.approved : link[j] = link[k] => j = k
  PROVE  Inv' /\ BatchStored /\ LinkedBy(attempt.batch)
<1> DEFINE a       == attempt
           m       == Later(model)
           plan    == {Planned(m, a, link, k) : k \in a.approved}
           written == Written(m, After(plan))
           new     == [action  |-> a.request.action,
                       changes |-> {Change(written, c) : c \in plan},
                       undone  |-> FALSE, skipped |-> {}]
<1>1. /\ model' = [written EXCEPT !.batches[a.batch] = new]
      /\ writer' = [i \in Item |-> IF i \in {c.item : c \in plan}
                                     THEN a.batch ELSE writer[i]]
      /\ model.batches[a.batch] = Nothing
      /\ a.approved \subseteq Passing(model, a.request)
      /\ model.snapshot # Nothing
      /\ UNCHANGED <<attempt, listing, editing>>
  BY DEF Apply
<1>2. /\ a.batch \in Batch
      /\ a.approved \subseteq Key
      /\ a.request.action \in Action
  BY DEF Inv, Clients
<1>3. /\ m \in Model
      /\ m.rows = model.rows
      /\ m.versions = model.versions
      /\ m.batches = model.batches
      /\ m.snapshot = model.snapshot
      /\ Sound(m, writer)
  <2>1. model \in Model /\ Sound(model, writer)
    BY DEF Inv, Sound
  <2>2. QED
    BY <2>1, TickFacts, SameRows
<1>4. a.request.action = "confirm" => a.approved \subseteq Candidate
  BY <1>1 DEF Passing
<1> HIDE DEF m
<1>5. ASSUME NEW k \in a.approved
      PROVE  LET c == Planned(m, a, link, k) IN
             /\ c \in [key : Key, item : Item, before : AnyRow, after : AnyRow]
             /\ c.key = k
             /\ c.item = IF a.request.action = "confirm" THEN link[k] ELSE k
             /\ c.before \in RowOf(c.item)
             /\ c.after \in RowOf(c.item)
  <2>1. k \in Key /\ (a.request.action = "confirm" => k \in Candidate /\ link[k] \in Link)
    BY <1>2, <1>4
  <2>2. QED
    BY <1>2, <1>3, <2>1, PlannedFacts
<1>6. \A c \in plan : /\ c \in [key : Key, item : Item, before : AnyRow, after : AnyRow]
                      /\ c.before \in RowOf(c.item)
                      /\ c.after \in RowOf(c.item)
  BY <1>5
<1>7. \A c, d \in plan : c.key = d.key \/ c.item = d.item => c = d
  <2> SUFFICES ASSUME NEW j \in a.approved, NEW k \in a.approved,
                      \/ Planned(m, a, link, j).key = Planned(m, a, link, k).key
                      \/ Planned(m, a, link, j).item = Planned(m, a, link, k).item
               PROVE  j = k
    OBVIOUS
  <2>1. CASE a.request.action = "confirm"
    BY <1>5, <2>1
  <2>2. CASE a.request.action # "confirm"
    BY <1>5, <2>2
  <2>3. QED
    BY <2>1, <2>2
<1> DEFINE row(k) == [key |-> k, status |-> "Active", at |-> m.clock]
<1>8. ASSUME a.request.action = "confirm"
       PROVE  \A c \in plan : /\ c.key \in a.approved
                              /\ c.item \in Link
                              /\ c.after = row(c.key)
  BY <1>2, <1>5, <1>8 DEF Planned
<1> HIDE DEF plan
<1>9. /\ DOMAIN After(plan) = {c.item : c \in plan}
      /\ \A c \in plan : After(plan)[c.item] = c.after
  BY <1>7, RowsOfChanges
<1>10. DOMAIN After(plan) \subseteq Item /\ RowsFit(After(plan))
  BY <1>6, <1>9 DEF RowsFit
<1>11. /\ written \in Model
       /\ \A i \in Item :
            /\ written.rows[i] = IF i \in DOMAIN After(plan) THEN After(plan)[i] ELSE m.rows[i]
            /\ written.versions[i]
                 = IF i \in DOMAIN After(plan) THEN m.versions[i] + 1 ELSE m.versions[i]
       /\ written.batches = m.batches
       /\ written.snapshot = m.snapshot
  BY <1>3, <1>10, WrittenFacts
<1> HIDE DEF written
<1>12. \A i \in Item : written.versions[i] \in Nat
  BY <1>11 DEF Model
<1>13. ASSUME NEW c \in plan
       PROVE  /\ Change(written, c) \in StoredChange
              /\ Change(written, c).key = c.key
              /\ Change(written, c).item = c.item
              /\ Change(written, c).before = c.before
              /\ Change(written, c).after = c.after
              /\ Change(written, c).version = written.versions[c.item]
  BY <1>6, <1>12 DEF Change, StoredChange
<1>14. new \in BatchRow
  BY <1>2, <1>13 DEF BatchRow
<1>15. /\ new.changes = {Change(written, c) : c \in plan}
       /\ new.action = a.request.action
  OBVIOUS
<1> HIDE DEF new
<1>16. /\ model' \in Model
       /\ model'.rows = written.rows
       /\ model'.versions = written.versions
       /\ model'.snapshot = model.snapshot
       /\ model'.batches = [model.batches EXCEPT ![a.batch] = new]
       /\ model'.batches[a.batch] = new
       /\ \A b \in Batch \ {a.batch} : model'.batches[b] = model.batches[b]
  BY <1>1, <1>2, <1>3, <1>11, <1>14 DEF Model
<1>17. RowsFit(model'.rows)
  BY <1>3, <1>10, <1>11, <1>16 DEF RowsFit, Sound, Model
<1>18. /\ writer' \in [Item -> Batch \cup {Other}]
       /\ \A i \in Item : writer'[i] = IF i \in DOMAIN After(plan) THEN a.batch
                                                                   ELSE writer[i]
  BY <1>1, <1>2, <1>9 DEF Inv, Sound
<1>19. /\ Distinct(new.changes)
       /\ \A c \in new.changes : Tracked(model', writer', a.batch, c)
  <2>1. Distinct(new.changes)
    <3> SUFFICES ASSUME NEW c \in plan, NEW d \in plan,
                        \/ Change(written, c).key = Change(written, d).key
                        \/ Change(written, c).item = Change(written, d).item
                 PROVE  c = d
      BY <1>15 DEF Distinct
    <3> QED
      BY <1>7, <1>13
  <2>2. ASSUME NEW c \in plan
        PROVE  Tracked(model', writer', a.batch, Change(written, c))
    <3>1. c.item \in Item /\ c.item \in DOMAIN After(plan) /\ m.versions[c.item] \in Nat
      BY <1>3, <1>6, <1>9 DEF Model
    <3>2. /\ written.rows[c.item] = c.after
          /\ written.versions[c.item] = m.versions[c.item] + 1
          /\ writer'[c.item] = a.batch
      BY <1>9, <1>11, <1>18, <3>1
    <3>3. QED
      BY <1>6, <1>13, <1>16, <3>1, <3>2 DEF Tracked
  <2>3. QED
    BY <1>15, <2>1, <2>2
<1>20. ASSUME NEW b \in Batch, b # a.batch, model.batches[b] # Nothing
       PROVE  /\ Distinct(model.batches[b].changes)
              /\ \A c \in model.batches[b].changes : Tracked(model', writer', b, c)
  <2>1. /\ Distinct(m.batches[b].changes)
        /\ \A c \in m.batches[b].changes : Tracked(m, writer, b, c)
        /\ m.batches[b].changes \subseteq StoredChange
    BY <1>3, <1>20, BatchShape DEF Sound
  <2>2. ASSUME NEW c \in m.batches[b].changes
        PROVE  Tracked(model', writer', b, c)
    <3>1. Tracked(m, writer, b, c) /\ c \in StoredChange
      BY <2>1
    <3>2. c.item \in Item /\ c.version \in Nat /\ m.versions[c.item] \in Nat
      BY <1>3, <3>1 DEF StoredChange, Model
    <3>3. CASE c.item \in DOMAIN After(plan)
      <4>1. /\ model'.versions[c.item] = m.versions[c.item] + 1
            /\ writer'[c.item] = a.batch
        BY <1>11, <1>16, <1>18, <3>2, <3>3
      <4>2. QED
        BY <1>20, <3>1, <3>2, <4>1 DEF Tracked
    <3>4. CASE c.item \notin DOMAIN After(plan)
      <4>1. /\ model'.versions[c.item] = m.versions[c.item]
            /\ model'.rows[c.item] = m.rows[c.item]
            /\ writer'[c.item] = writer[c.item]
        BY <1>11, <1>16, <1>18, <3>2, <3>4
      <4>2. QED
        BY <3>1, <4>1 DEF Tracked
    <3>5. QED
      BY <3>3, <3>4
  <2>3. QED
    BY <1>3, <2>1, <2>2
<1>21. Sound(model', writer')
  BY <1>16, <1>17, <1>18, <1>19, <1>20 DEF Sound
<1>22. Clients'
  BY <1>1 DEF Inv, Clients
<1>23. BatchStored
  BY <1>1, <1>16 DEF BatchStored
<1>24. ASSUME a.request.action = "confirm", NEW c \in plan
       PROVE  /\ model'.rows[c.item] = c.after
              /\ StatusIn[model'.snapshot.structure][c.key] = "Active"
              /\ model'.rows[c.key] = Nothing /\ model'.rows[RuleOf[c.key]] = Nothing
              /\ \A l \in Links(model') \ {c.item} :
                   FieldOf[model'.rows[l].key] = FieldOf[c.key]
                     => model'.rows[l].status = "Orphaned"
  <2>1. /\ \A k \in a.approved : /\ k \in a.request.entries \cap Candidate
                                 /\ Confirmable(model, a.request.entries, k)
        /\ c.key \in a.approved
    BY <1>1, <1>8, <1>24 DEF Passing
  <2>2. /\ c.key \in Fits[model.snapshot.structure]
        /\ ~ RelatedField(model, c.key)
        /\ model.rows[c.key] = Nothing /\ model.rows[RuleOf[c.key]] = Nothing
        /\ \A other \in (a.request.entries \cap Candidate) \ {c.key} :
             FieldOf[other] # FieldOf[c.key]
    BY <2>1 DEF Confirmable
  <2>3. c.item \in Item /\ c.item \in DOMAIN After(plan)
    BY <1>6, <1>9
  <2>4. model'.rows[c.item] = c.after
    BY <1>9, <1>11, <1>16, <2>3
  <2>5. StatusIn[model'.snapshot.structure][c.key] = "Active"
    <3>1. model.snapshot.structure \in Structure
      BY <1>1, ClockFact DEF Model
    <3>2. QED
      BY <1>16, <2>2, <3>1, CandidateAssumption
  <2>6. \A k \in Key : model'.rows[k] = model.rows[k]
    <3>1. DOMAIN After(plan) \subseteq Link
      <4>1. \A d \in plan : d.item \in Link
        BY <1>8, <1>24
      <4>2. QED
        BY <1>9, <4>1
    <3>2. \A k \in Key : k \in Item /\ k \notin DOMAIN After(plan)
      BY <3>1, DistinctAssumption DEF Item
    <3>3. QED
      BY <1>3, <1>11, <1>16, <3>2
  <2>7. c.key \in Key /\ RuleOf[c.key] \in Key
    BY <2>1, CandidateAssumption DEF Key
  <2>8. ASSUME NEW l \in Links(model') \ {c.item},
               FieldOf[model'.rows[l].key] = FieldOf[c.key]
        PROVE  model'.rows[l].status = "Orphaned"
    <3>1. l \in Link /\ l \in Item
      BY DEF Links, Item
    <3>2. CASE l \in DOMAIN After(plan)
      <4>1. PICK d \in plan : d.item = l
        BY <1>9, <3>2
      <4>2. model'.rows[l] = d.after
        BY <1>9, <1>11, <1>16, <3>1, <3>2, <4>1
      <4>3. model'.rows[l].key = d.key
        <5>1. d.after = row(d.key)
          BY <1>8, <1>24
        <5>2. QED
          BY <4>2, <5>1
      <4>4. d.key \in a.request.entries \cap Candidate
        BY <1>8, <1>24, <2>1
      <4>5. d.key # c.key
        BY <1>7, <2>8, <4>1
      <4>6. QED
        BY <2>2, <2>8, <4>3, <4>4, <4>5
    <3>3. CASE l \notin DOMAIN After(plan)
      <4>1. model'.rows[l] = model.rows[l]
        BY <1>3, <1>11, <1>16, <3>1, <3>3
      <4>2. l \in Links(model)
        BY <3>1, <4>1 DEF Links
      <4>3. QED
        BY <2>2, <2>8, <4>1, <4>2 DEF RelatedField
    <3>4. QED
      BY <3>2, <3>3
  <2>9. QED
    BY <2>2, <2>4, <2>5, <2>6, <2>7, <2>8
<1>25. LinkedBy(a.batch)
  <2> SUFFICES ASSUME a.request.action = "confirm", NEW c \in plan
               PROVE  LET d == Change(written, c) IN
                      /\ model'.rows[d.item] = d.after
                      /\ StatusIn[model'.snapshot.structure][d.key] = "Active"
                      /\ model'.rows[d.key] = Nothing /\ model'.rows[RuleOf[d.key]] = Nothing
                      /\ \A l \in Links(model') \ {d.item} :
                           FieldOf[model'.rows[l].key] = FieldOf[d.key]
                             => model'.rows[l].status = "Orphaned"
    BY <1>15, <1>16 DEF LinkedBy
  <2>1. QED
    BY <1>13, <1>24
<1>26. QED
  BY <1>21, <1>22, <1>23, <1>25 DEF Inv

LEMMA ApplyStep ==
  ASSUME Inv, ApplyBatch
  PROVE  Inv' /\ BatchStored /\ LinkedBy(attempt.batch)
<1>1. CASE attempt.request.action = "confirm"
  <2>1. PICK link \in [attempt.approved -> Link \ issued] :
          /\ \A j, k \in attempt.approved : link[j] = link[k] => j = k
          /\ Apply(link)
    BY <1>1 DEF ApplyBatch
  <2>2. \A k \in attempt.approved : link[k] \in Link
    OBVIOUS
  <2>3. attempt # Nothing
    BY DEF ApplyBatch
  <2>4. QED
    BY <2>1, <2>2, <2>3, ApplySound
<1>2. CASE attempt.request.action # "confirm"
  BY <1>2, ApplySound DEF ApplyBatch
<1>3. QED
  BY <1>1, <1>2

\* Undoing finds exactly the changes whose rows the batch wrote last.
LEMMA UndoStep ==
  ASSUME Inv, NEW b \in Batch, Undo(b)
  PROVE  /\ Inv'
         /\ \A d \in Batch \ {b} : model'.batches[d] = model.batches[d]
         /\ \A c \in model.batches[b].changes :
              IF writer[c.item] = b
                THEN model'.rows[c.item] = c.before /\ c.key \notin model'.batches[b].skipped
                ELSE /\ model'.rows[c.item] = model.rows[c.item]
                     /\ c.key \in model'.batches[b].skipped
<1> DEFINE changes == model.batches[b].changes
           undone  == {c \in changes : Unchanged(model, c)}
           skipped == {c.key : c \in changes \ undone}
           m       == [model EXCEPT !.batches[b].undone = TRUE,
                                    !.batches[b].skipped = skipped]
<1>1. /\ model.batches[b] # Nothing
      /\ Write(m, Before(undone))
      /\ UNCHANGED <<issued, attempt, listing, editing>>
  BY DEF Undo
<1>2. /\ model \in Model
      /\ Sound(model, writer)
      /\ model.batches[b] \in BatchRow
      /\ changes \subseteq StoredChange
      /\ Distinct(changes)
      /\ \A c \in changes : Tracked(model, writer, b, c)
  BY <1>1, BatchShape DEF Inv, Sound
<1> HIDE DEF changes
<1>3. \A c \in changes : c \in undone <=> writer[c.item] = b
  BY <1>2 DEF Tracked, Unchanged
<1> HIDE DEF undone
<1>4. undone \subseteq changes
  BY DEF undone
<1>5. skipped \subseteq Key
  BY <1>2 DEF StoredChange
<1>6. \A c \in changes : c.key \in skipped <=> c \notin undone
  BY <1>2, <1>4 DEF Distinct
<1> HIDE DEF skipped
<1>7. /\ m \in Model
      /\ m.rows = model.rows
      /\ m.versions = model.versions
      /\ m.batches[b].changes = changes
      /\ m.batches[b].skipped = skipped
      /\ \A d \in Batch \ {b} : m.batches[d] = model.batches[d]
  <2> DEFINE new == [model.batches[b] EXCEPT !.undone = TRUE, !.skipped = skipped]
  <2> DEFINE now == [model.batches EXCEPT ![b] = new]
  <2>1. m = [model EXCEPT !.batches = now]
    BY <1>2 DEF Model
  <2>2. new \in BatchRow /\ new.changes = changes /\ new.skipped = skipped
    BY <1>2, <1>5 DEF BatchRow, changes
  <2> HIDE DEF m, new
  <2>3. /\ now \in [Batch -> {Nothing} \cup BatchRow] /\ now[b] = new
        /\ \A d \in Batch \ {b} : now[d] = model.batches[d]
    BY <1>2, <2>2 DEF Model
  <2> HIDE DEF now
  <2>4. m \in Model /\ m.rows = model.rows /\ m.versions = model.versions /\ m.batches = now
    BY <1>2, <2>1, <2>3 DEF Model
  <2> QED BY <2>2, <2>3, <2>4
<1> HIDE DEF m
<1>8. Sound(m, writer)
  BY <1>1, <1>2, <1>7, SameRows DEF changes
<1>9. \A c, d \in undone : c.item = d.item => c = d
  BY <1>2, <1>4 DEF Distinct
<1>10. /\ DOMAIN Before(undone) = {c.item : c \in undone}
       /\ \A c \in undone : Before(undone)[c.item] = c.before
  BY <1>9, RowsOfChanges
<1>11. DOMAIN Before(undone) \subseteq Item /\ RowsFit(Before(undone))
  <2>1. \A c \in undone : c.item \in Item /\ c.before \in RowOf(c.item)
    BY <1>2, <1>4 DEF StoredChange, Tracked
  <2>2. QED
    BY <1>10, <2>1 DEF RowsFit
<1>12. Sound(model', writer') /\ model'.batches = m.batches
  BY <1>1, <1>8, <1>11, WriteSound
<1>13. \A i \in Item : model'.rows[i] = IF i \in DOMAIN Before(undone)
                                          THEN Before(undone)[i] ELSE model.rows[i]
  BY <1>1, <1>7, <1>11, WrittenFacts DEF Write
<1>14. Inv'
  BY <1>1, <1>12 DEF Inv, Clients
<1>15. ASSUME NEW c \in changes
       PROVE  IF writer[c.item] = b
                THEN model'.rows[c.item] = c.before /\ c.key \notin model'.batches[b].skipped
                ELSE /\ model'.rows[c.item] = model.rows[c.item]
                     /\ c.key \in model'.batches[b].skipped
  <2>1. c.item \in Item
    BY <1>2 DEF StoredChange
  <2>2. CASE c \in undone
    BY <1>3, <1>6, <1>7, <1>10, <1>12, <1>13, <2>1, <2>2
  <2>3. CASE c \notin undone
    <3>1. c.item \notin DOMAIN Before(undone)
      BY <1>2, <1>4, <1>10, <2>3 DEF Distinct
    <3>2. QED
      BY <1>3, <1>6, <1>7, <1>12, <1>13, <2>1, <2>3, <3>1
  <2>4. QED
    BY <2>2, <2>3
<1>16. QED
  BY <1>7, <1>12, <1>14, <1>15 DEF changes

-----------------------------------------------------------------------------
(* The other steps.                                                        *)

\* A step that writes rows of its own and leaves the batches alone.
LEMMA OtherWrite ==
  ASSUME Inv, NEW m, m \in {model, Later(model)}, NEW rows,
         DOMAIN rows \subseteq Item, RowsFit(rows), Write(m, rows)
  PROVE  Sound(model', writer') /\ BatchesKept
<1>1. model \in Model /\ Sound(model, writer)
  BY DEF Inv, Sound
<1>2. Sound(m, writer) /\ m.batches = model.batches
  BY <1>1, TickFacts, SameRows
<1>3. QED
  BY <1>2, WriteSound DEF BatchesKept

LEMMA OnlyFacts ==
  ASSUME NEW i \in Item, NEW row \in RowOf(i)
  PROVE  DOMAIN Only(i, row) \subseteq Item /\ RowsFit(Only(i, row))
BY DEF Only, RowsFit

\* The rows a link can have.
LEMMA LinkFacts ==
  ASSUME Inv, NEW l \in Link, model.rows[l] # Nothing
  PROVE  l \in Item /\ model.rows[l] \in LinkRow
BY DEF Inv, Sound, Model, RowsFit, RowOf, Item

LEMMA InferenceStep ==
  ASSUME Inv, NEW k \in Key, IgnoreInference(k) \/ RestoreInference(k)
  PROVE  Inv' /\ BatchesKept
<1>1. /\ k \in Item
      /\ Nothing \in RowOf(k)
      /\ [ignored |-> model.clock + 1] \in RowOf(k)
  BY ClockFact, RowOfFacts DEF Item, IgnoredRow
<1>2. Sound(model', writer') /\ BatchesKept
  <2>1. CASE IgnoreInference(k)
    BY <1>1, <2>1, OnlyFacts, OtherWrite DEF IgnoreInference
  <2>2. CASE RestoreInference(k)
    BY <1>1, <2>2, OnlyFacts, OtherWrite DEF RestoreInference
  <2>3. QED
    BY <2>1, <2>2
<1>3. QED
  BY <1>2 DEF Inv, Clients, IgnoreInference, RestoreInference

LEMMA LinkStep ==
  ASSUME Inv, NEW l \in Link, DeleteLink(l) \/ DisableLink(l)
  PROVE  Inv' /\ BatchesKept
<1>1. l \in Item /\ Nothing \in RowOf(l) /\ LinkRow \subseteq RowOf(l)
  BY RowOfFacts DEF Item
<1>2. [model.rows[l] EXCEPT !.status = "Disabled"] \in LinkRow
  <2>1. model.rows[l] \in LinkRow
    BY LinkFacts DEF DeleteLink, DisableLink
  <2>2. QED
    BY <2>1 DEF LinkRow, LinkStatus
<1>3. Sound(model', writer') /\ BatchesKept
  <2>1. CASE DeleteLink(l)
    BY <1>1, <2>1, OnlyFacts, OtherWrite DEF DeleteLink
  <2>2. CASE DisableLink(l)
    BY <1>1, <1>2, <2>2, OnlyFacts, OtherWrite DEF DisableLink
  <2>3. QED
    BY <2>1, <2>2
<1>4. QED
  BY <1>3 DEF Inv, Clients, DeleteLink, DisableLink

LEMMA EndEditStep ==
  ASSUME Inv, EndEdit
  PROVE  Inv' /\ BatchesKept
<1>1. /\ editing \in [link : Link, key : Candidate, status : LinkStatus]
      /\ editing.link \in Item
      /\ LinkRow \subseteq RowOf(editing.link)
  BY RowOfFacts DEF EndEdit, Inv, Clients, Item
<1>2. [key |-> editing.key, status |-> editing.status, at |-> model.clock + 1] \in LinkRow
  BY <1>1, ClockFact DEF LinkRow
<1>3. Sound(model', writer') /\ BatchesKept
  BY <1>1, <1>2, OnlyFacts, OtherWrite DEF EndEdit
<1>4. QED
  BY <1>3 DEF Inv, Clients, EndEdit

LEMMA ListingStep ==
  ASSUME Inv, BeginListing
  PROVE  Inv' /\ BatchesKept
<1>1. model.snapshot.structure \in Structure
  BY ClockFact DEF BeginListing, Model
<1>2. ASSUME NEW l \in Links(model)
      PROVE  Revalidated(model.rows[l]) \in LinkRow
  <2>1. model.rows[l] \in LinkRow
    BY LinkFacts DEF Links
  <2>2. StatusIn[model.snapshot.structure][model.rows[l].key] \in LinkStatus
    BY <1>1, <2>1, CandidateAssumption DEF LinkRow
  <2>3. QED
    BY <2>1, <2>2 DEF Revalidated, LinkRow
<1>3. listing' \subseteq Link \X LinkRow
  BY <1>2 DEF BeginListing, Links
<1>4. UNCHANGED <<model, attempt, editing, writer>>
  BY DEF BeginListing
<1>5. QED
  BY <1>3, <1>4 DEF Inv, Clients, Sound, BatchesKept

LEMMA RevalidateStep ==
  ASSUME Inv, NEW x \in listing, Revalidate(x)
  PROVE  Inv' /\ BatchesKept
<1>1. x[1] \in Item /\ x[2] \in RowOf(x[1])
  BY RowOfFacts DEF Inv, Clients, Item
<1>2. Sound(model', writer') /\ BatchesKept
  BY <1>1, OnlyFacts, OtherWrite DEF Revalidate
<1>3. QED
  BY <1>2 DEF Inv, Clients, Revalidate

LEMMA ImportStep ==
  ASSUME Inv, NEW rows \in Backup, ImportModel(rows)
  PROVE  Inv' /\ BatchesKept
<1>1. DOMAIN rows \subseteq Item /\ RowsFit(rows)
  BY BackupAssumption DEF RowsFit
<1>2. Sound(model', writer') /\ BatchesKept
  BY <1>1, OtherWrite DEF ImportModel
<1>3. QED
  BY <1>2 DEF Inv, Clients, ImportModel

LEMMA CaptureStep ==
  ASSUME Inv, NEW s \in Structure, Capture(s)
  PROVE  Inv' /\ BatchesKept
<1>1. /\ Later(model) \in Model
      /\ Later(model).rows = model.rows
      /\ Later(model).versions = model.versions
      /\ Later(model).batches = model.batches
      /\ [id |-> model.clock + 1, structure |-> s] \in [id : Nat, structure : Structure]
  BY ClockFact, TickFacts
<1>2. /\ model' \in Model
      /\ model'.rows = model.rows
      /\ model'.versions = model.versions
      /\ model'.batches = model.batches
  BY <1>1 DEF Capture, Model
<1>3. Sound(model', writer)
  BY <1>2, SameRows DEF Inv
<1>4. QED
  BY <1>2, <1>3 DEF Inv, Clients, BatchesKept, Capture, Sound

LEMMA ProfileStep ==
  ASSUME Inv, NEW p \in Profile, SaveSource(p)
  PROVE  Inv' /\ BatchesKept
<1>1. /\ model' \in Model
      /\ model'.rows = model.rows
      /\ model'.versions = model.versions
      /\ model'.batches = model.batches
  BY ClockFact DEF SaveSource, Model
<1>2. Sound(model', writer)
  BY <1>1, SameRows DEF Inv
<1>3. QED
  BY <1>1, <1>2 DEF Inv, Clients, BatchesKept, SaveSource, Sound

LEMMA DeleteStep ==
  ASSUME Inv, NEW h \in BOOLEAN, NEW sem \in BOOLEAN, DeleteSource(h, sem)
  PROVE  Inv' /\ BatchesKept
<1> DEFINE m == IF sem THEN Deleted(model) ELSE model
<1>1. model \in Model /\ Sound(model, writer)
  BY ClockFact DEF Inv
<1>2. /\ Deleted(model) \in Model
      /\ Deleted(model).rows = [i \in Item |-> Nothing]
      /\ Deleted(model).batches = [b \in Batch |-> Nothing]
  BY <1>1 DEF Deleted, Model, AnyRow
<1>3. RowsFit([i \in Item |-> Nothing])
  BY RowOfFacts DEF RowsFit
<1>4. /\ m \in Model
      /\ Sound(m, writer')
      /\ \A b \in Batch : m.batches[b] = model.batches[b] \/ m.batches[b] = Nothing
  <2>1. CASE sem
    <3>1. writer' = [i \in Item |-> Other]
      BY <2>1 DEF DeleteSource
    <3>2. QED
      BY <1>2, <1>3, <2>1, <3>1 DEF Sound
  <2>2. CASE ~ sem
    BY <1>1, <2>2 DEF DeleteSource
  <2>3. QED
    BY <2>1, <2>2
<1>5. model' = IF h THEN [m EXCEPT !.snapshot = Nothing] ELSE m
  BY DEF DeleteSource
<1> HIDE DEF m
<1>6. /\ model' \in Model
      /\ model'.rows = m.rows
      /\ model'.versions = m.versions
      /\ model'.batches = m.batches
  BY <1>4, <1>5 DEF Model
<1>7. Sound(model', writer')
  BY <1>4, <1>6 DEF Sound, Tracked
<1>8. QED
  BY <1>4, <1>6, <1>7 DEF Inv, Clients, BatchesKept, DeleteSource

LEMMA PreviewStep ==
  ASSUME Inv, NEW b \in Batch, NEW action \in Action, NEW entries \in SUBSET Key,
         NEW approved \in SUBSET Key, Preview(b, action, entries, approved)
  PROVE  Inv' /\ BatchesKept
<1>1. /\ attempt'.batch = b
      /\ attempt'.approved = approved
      /\ attempt'.request.action = action
      /\ UNCHANGED <<model, listing, editing, writer>>
  BY DEF Preview
<1>2. QED
  BY <1>1 DEF Inv, Clients, BatchesKept, Sound

LEMMA BeginEditStep ==
  ASSUME Inv, NEW l \in Link, NEW k \in Candidate, NEW disabled \in BOOLEAN,
         BeginEdit(l, k, disabled)
  PROVE  Inv' /\ BatchesKept
<1>1. /\ editing' \in [link : Link, key : Candidate, status : LinkStatus]
      /\ UNCHANGED <<model, attempt, listing, writer>>
  BY DEF BeginEdit, LinkStatus
<1>2. QED
  BY <1>1 DEF Inv, Clients, BatchesKept, Sound

-----------------------------------------------------------------------------
(* The theorems.                                                           *)

LEMMA InitInv ==
  ASSUME BatchInit
  PROVE  Inv
<1>1. PICK p \in Profile :
        model = [snapshot |-> Nothing, profile |-> p, rows |-> [i \in Item |-> Nothing],
                 versions |-> [i \in Item |-> 0], batches |-> [b \in Batch |-> Nothing],
                 clock |-> 0]
  BY DEF BatchInit
<1>2. model \in Model
  BY <1>1 DEF Model, AnyRow
<1>3. RowsFit(model.rows)
  BY <1>1, RowOfFacts DEF RowsFit
<1>4. \A b \in Batch : model.batches[b] = Nothing
  BY <1>1
<1>5. writer \in [Item -> Batch \cup {Other}]
  BY DEF BatchInit
<1>6. QED
  BY <1>2, <1>3, <1>4, <1>5 DEF Inv, Sound, Clients, BatchInit

LEMMA NextInv ==
  ASSUME Inv, BatchNext
  PROVE  /\ Inv'
         /\ \/ BatchesKept
            \/ ApplyBatch
            \/ \E b \in Batch : Undo(b)
<1>1. CASE \E b \in Batch, action \in {"confirm", "ignore", "restore"},
              entries \in SUBSET Key, approved \in SUBSET Key :
             Preview(b, action, entries, approved)
  BY <1>1, PreviewStep DEF Action
<1>2. CASE ApplyBatch
  BY <1>2, ApplyStep
<1>3. CASE \E b \in Batch : Undo(b)
  BY <1>3, UndoStep
<1>4. CASE \E s \in Structure : Capture(s)
  BY <1>4, CaptureStep
<1>5. CASE \E p \in Profile : SaveSource(p)
  BY <1>5, ProfileStep
<1>6. CASE \E k \in Key : IgnoreInference(k) \/ RestoreInference(k)
  BY <1>6, InferenceStep
<1>7. CASE \E l \in Link : DeleteLink(l) \/ DisableLink(l)
  BY <1>7, LinkStep
<1>8. CASE \E l \in Link, k \in Candidate, disabled \in BOOLEAN : BeginEdit(l, k, disabled)
  BY <1>8, BeginEditStep
<1>9. CASE EndEdit
  BY <1>9, EndEditStep
<1>10. CASE BeginListing
  BY <1>10, ListingStep
<1>11. CASE \E x \in listing : Revalidate(x)
  BY <1>11, RevalidateStep
<1>12. CASE \E rows \in Backup : ImportModel(rows)
  BY <1>12, ImportStep
<1>13. CASE \E h, sem \in BOOLEAN : DeleteSource(h, sem)
  BY <1>13, DeleteStep
<1>14. QED
  BY <1>1, <1>2, <1>3, <1>4, <1>5, <1>6, <1>7, <1>8, <1>9, <1>10, <1>11, <1>12, <1>13
     DEF BatchNext

\* The ownership of rows is an invariant: in every reachable state a batch is the
\* last writer of a row exactly if the row still has the version it recorded.
THEOREM Ownership == BatchSpec => []Inv
<1>1. ASSUME Inv, UNCHANGED batchVars
      PROVE  Inv'
  BY <1>1 DEF Inv, Clients, Sound, batchVars
<1>2. Inv /\ [BatchNext]_batchVars => Inv'
  BY <1>1, NextInv
<1>3. QED
  BY <1>2, InitInv, PTL DEF BatchSpec

\* The tables stay well formed for any number of batches and links: in particular
\* no batch knows a version that its row has not reached.
THEOREM BatchTypeCorrect == BatchSpec => []BatchTypeOK
<1>1. ASSUME Inv
      PROVE  BatchTypeOK
  <2>1. /\ model \in Model
        /\ RowsFit(model.rows)
        /\ writer \in [Item -> Batch \cup {Other}]
    BY <1>1 DEF Inv, Sound
  <2>2. /\ model.snapshot = Nothing \/ model.snapshot \in [id : Nat, structure : Structure]
        /\ DOMAIN model.rows = Item
        /\ \A i \in Item : model.rows[i] \in RowOf(i)
        /\ model.versions \in [Item -> Nat]
    BY <2>1 DEF Model, RowsFit
  <2>3. ASSUME NEW b \in Batch, model.batches[b] # Nothing, NEW c \in model.batches[b].changes
        PROVE  /\ c.item \in Item /\ c.key \in Key
               /\ c.before \in RowOf(c.item) /\ c.after \in RowOf(c.item)
               /\ c.version \in 1 .. model.versions[c.item]
    <3>1. c \in StoredChange
      BY <2>1, <2>3, BatchShape
    <3>2. Tracked(model, writer, b, c)
      BY <1>1, <2>3 DEF Inv, Sound
    <3>3. QED
      BY <3>1, <3>2 DEF StoredChange, Tracked
  <2>4. QED
    BY <2>1, <2>2, <2>3 DEF BatchTypeOK
<1>2. QED
  BY <1>1, Ownership, PTL

\* Undoing a batch takes back exactly the rows that nobody has written since the
\* batch wrote them, and reports the others as skipped, whatever was deleted,
\* recreated, imported, ignored or restored in between.
THEOREM UndoIsExact == BatchSpec => UndoKeepsLaterWork
<1>1. ASSUME Inv, BatchNext
      PROVE  UndoKeepsLaterWorkStep
  <2> SUFFICES ASSUME NEW b \in Batch,
                      model.batches[b] # Nothing,
                      model'.batches[b] # Nothing,
                      model'.batches[b].undone,
                      ~ model.batches[b].undone
               PROVE  \A c \in model.batches[b].changes :
                        IF writer[c.item] = b
                          THEN /\ model'.rows[c.item] = c.before
                               /\ c.key \notin model'.batches[b].skipped
                          ELSE /\ model'.rows[c.item] = model.rows[c.item]
                               /\ c.key \in model'.batches[b].skipped
    BY DEF UndoKeepsLaterWorkStep
  <2>1. ~ BatchesKept /\ ~ ApplyBatch
    BY <1>1, ApplyStep DEF BatchesKept, BatchStored
  <2>2. PICK d \in Batch : Undo(d)
    BY <1>1, <2>1, NextInv
  <2>3. d = b
    BY <1>1, <2>2, UndoStep
  <2>4. QED
    BY <1>1, <2>2, <2>3, UndoStep
<1>2. ASSUME UNCHANGED batchVars
      PROVE  UndoKeepsLaterWorkStep
  BY <1>2 DEF UndoKeepsLaterWorkStep, batchVars
<1>3. Inv /\ [BatchNext]_batchVars => [UndoKeepsLaterWorkStep]_batchVars
  BY <1>1
<1>4. QED
  BY <1>3, Ownership, PTL DEF BatchSpec, UndoKeepsLaterWork

\* Applying a confirmed batch links every chosen field once, whatever happened to
\* the tables and the structure since the preview: the candidates are checked
\* against the tables of the apply and against each other.
THEOREM LinkingIsUnique == BatchSpec => LinkedOnce
<1>1. ASSUME Inv, BatchNext
      PROVE  LinkedOnceStep
  <2> SUFFICES ASSUME NEW b \in Batch,
                      model.batches[b] = Nothing,
                      model'.batches[b] # Nothing
               PROVE  LinkedBy(b)
    BY SMTT(60) DEF LinkedOnceStep, LinkedBy
  <2>1. ~ BatchesKept /\ ~ \E d \in Batch : Undo(d)
    <3>1. ASSUME NEW d \in Batch, Undo(d)
          PROVE  FALSE
      BY <1>1, <3>1, UndoStep DEF Undo
    <3>2. QED
      BY <3>1 DEF BatchesKept
  <2>2. ApplyBatch
    BY <1>1, <2>1, NextInv
  <2>3. BatchStored /\ LinkedBy(attempt.batch)
    BY <1>1, <2>2, ApplyStep
  <2>4. QED
    BY <2>3 DEF BatchStored
<1>2. ASSUME UNCHANGED batchVars
      PROVE  LinkedOnceStep
  BY <1>2 DEF LinkedOnceStep, batchVars
<1>3. Inv /\ [BatchNext]_batchVars => [LinkedOnceStep]_batchVars
  BY <1>1
<1>4. QED
  BY <1>3, Ownership, PTL DEF BatchSpec, LinkedOnce

=============================================================================

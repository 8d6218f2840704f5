------------------------- MODULE RelationshipBatches -------------------------
(***************************************************************************)
(* Batches of decisions about inferred relationships, and their undo, for  *)
(* one data source: crates/snapshot-store/src/relationship_batches.rs, with *)
(* the other writers of the same tables: the relationship commands of      *)
(* apps/desktop/src-tauri/src/lib.rs, imports, deletion, and the change    *)
(* review.  The store's operations are transactions; the commands          *)
(* persist_logical_relationship and validated_logical_relationships read   *)
(* in one transaction and write in later ones.                             *)
(***************************************************************************)
EXTENDS Integers, FiniteSets

CONSTANTS
  Candidate, Rule,  \* keys of candidates, and of the naming rules they follow
  FieldOf, RuleOf,  \* the source field and the naming rule of a candidate
  Link,             \* ids of logical relationships
  Batch,            \* ids of batches
  Structure,        \* what a capture can find
  Fits,             \* the candidates that pass every structural check in it
  StatusIn,         \* the status revalidation gives a relationship in it
  Profile,          \* connection profiles
  Backup,           \* rows of portable backups, by item
  Nothing, Other,   \* "no row"; "written by something else than a batch"
  MaxWrites         \* bound on the number of captures, edits, ignores and imports

Key    == Candidate \cup Rule
Item   == Link \cup Key  \* a row of logical_relationships or of ignored inferences
LinkStatus == {"Active", "Disabled", "Orphaned", "Conflicted", "SupersededByPhysical"}

LinkRow    == [key : Candidate, status : LinkStatus, at : Nat]
IgnoredRow == [ignored : Nat]
RowOf(i)   == {Nothing} \cup IF i \in Link THEN LinkRow ELSE IgnoredRow

ASSUME CandidateAssumption ==
  /\ RuleOf \in [Candidate -> Rule]
  /\ DOMAIN FieldOf = Candidate
  /\ StatusIn \in [Structure -> [Candidate -> LinkStatus \ {"Disabled"}]]
  /\ Fits \in [Structure -> SUBSET Candidate]
  /\ \A s \in Structure : \A c \in Fits[s] : StatusIn[s][c] = "Active"
ASSUME BackupAssumption ==
  \A rows \in Backup :
    /\ DOMAIN rows \subseteq Item
    /\ \A i \in DOMAIN rows : rows[i] \in RowOf(i) \ {Nothing}
ASSUME DistinctAssumption ==
  /\ Link \cap Key = {}
  /\ Candidate \cap Rule = {}
  /\ Nothing \notin LinkRow \cup IgnoredRow
  /\ Other \notin Batch

VARIABLES
  model,    \* the tables, and the latest snapshot
  issued,   \* ids drawn so far (Uuid::new_v4, crypto.randomUUID)
  attempt,  \* the approved preview a client submits, and submits again
  listing,  \* relationships listed and being revalidated
  editing,  \* a relationship validated and about to be saved
  writer    \* history: the batch that wrote a row last, or Other

batchVars == <<model, issued, attempt, listing, editing, writer>>

-----------------------------------------------------------------------------
Links(m) == {l \in Link : m.rows[l] # Nothing}

\* Every INSERT, UPDATE or DELETE of a row fires a trigger that raises its
\* version, which outlives the row.
Written(m, rows) ==
  [m EXCEPT
     !.rows     = [i \in Item |-> IF i \in DOMAIN rows THEN rows[i] ELSE @[i]],
     !.versions = [i \in Item |-> IF i \in DOMAIN rows THEN @[i] + 1 ELSE @[i]]]

Later(m) == [m EXCEPT !.clock = @ + 1]

\* One write by something else than a batch.
Write(m, rows) ==
  /\ model' = Written(m, rows)
  /\ writer' = [i \in Item |-> IF i \in DOMAIN rows THEN Other ELSE writer[i]]

Only(i, row) == [j \in {i} |-> row]

-----------------------------------------------------------------------------
(* Previewing, applying and undoing a batch.                               *)

\* Revision: everything the checks read, and the versions.
Revision(m, request) == <<request, m.snapshot, m.profile, m.rows, m.versions>>

\* confirmation_check and the rule of preview() that a field is linked once.
RelatedField(m, k) ==
  \E l \in Links(m) : \/ m.rows[l].key = k
                      \/ /\ FieldOf[m.rows[l].key] = FieldOf[k]
                         /\ m.rows[l].status # "Orphaned"

ConfirmableApart(m, entries, k) ==  \* mutant
  /\ k \in Fits[m.snapshot.structure]
  /\ ~ RelatedField(m, k)
  /\ m.rows[k] = Nothing /\ m.rows[RuleOf[k]] = Nothing
Confirmable(m, entries, k) ==
  /\ k \in Fits[m.snapshot.structure]
  /\ ~ RelatedField(m, k)
  /\ m.rows[k] = Nothing /\ m.rows[RuleOf[k]] = Nothing
  /\ \A other \in (entries \cap Candidate) \ {k} : FieldOf[other] # FieldOf[k]

\* The entries of a request whose check gives no reason against them.
Passing(m, request) ==
  CASE request.action = "confirm" ->
         {k \in request.entries \cap Candidate : Confirmable(m, request.entries, k)}
    [] request.action = "ignore"  -> {k \in request.entries \ Rule : m.rows[k] = Nothing}
    [] request.action = "restore" -> {k \in request.entries : m.rows[k] # Nothing}

\* preview_relationship_batch, and the choice the client makes of its result.
Preview(b, action, entries, approved) ==
  LET request == [action |-> action, snapshot |-> model.snapshot.id, entries |-> entries]
  IN  /\ model.snapshot # Nothing
      /\ b \notin issued
      /\ approved # {}
      /\ approved \subseteq Passing(model, request)
      /\ attempt' = [batch |-> b, request |-> request, approved |-> approved,
                     revision |-> Revision(model, request)]
      /\ issued' = issued \cup {b}
      /\ UNCHANGED <<model, listing, editing, writer>>

\* plan_change: a new relationship per candidate, an ignore entry, or its removal.
Planned(m, a, link, k) ==
  CASE a.request.action = "confirm" ->
         [key |-> k, item |-> link[k], before |-> Nothing,
          after |-> [key |-> k, status |-> "Active", at |-> m.clock]]
    [] a.request.action = "ignore"  ->
         [key |-> k, item |-> k, before |-> Nothing, after |-> [ignored |-> m.clock]]
    [] a.request.action = "restore" ->
         [key |-> k, item |-> k, before |-> m.rows[k], after |-> Nothing]

\* A change as stored, with the version its row has once written.
Change(m, c) ==
  [key |-> c.key, item |-> c.item, before |-> c.before, after |-> c.after,
   version |-> m.versions[c.item]]

\* The rows a set of changes leaves behind, and the rows it puts back.
After(changes) ==
  [i \in {c.item : c \in changes} |-> (CHOOSE c \in changes : c.item = i).after]
Before(changes) ==
  [i \in {c.item : c \in changes} |-> (CHOOSE c \in changes : c.item = i).before]

\* apply_relationship_batch; submitted again after it committed, it answers with
\* the stored batch.
Apply(link) ==
  LET a       == attempt
      m       == Later(model)
      plan    == {Planned(m, a, link, k) : k \in a.approved}
      written == Written(m, After(plan))
  IN  /\ model.batches[a.batch] = Nothing
      /\ model.clock < MaxWrites
      /\ model.snapshot # Nothing /\ model.snapshot.id = a.request.snapshot
      /\ Revision(model, a.request) = a.revision
      /\ a.approved \subseteq Passing(model, a.request)
      /\ model' = [written EXCEPT
                     !.batches[a.batch] = [action  |-> a.request.action,
                                           changes |-> {Change(written, c) : c \in plan},
                                           undone  |-> FALSE, skipped |-> {}]]
      /\ issued' = issued \cup {link[k] : k \in DOMAIN link}
      /\ writer' = [i \in Item |-> IF i \in {c.item : c \in plan}
                                     THEN a.batch ELSE writer[i]]
      /\ UNCHANGED <<attempt, listing, editing>>

ApplyBatch ==
  /\ attempt # Nothing
  /\ IF attempt.request.action = "confirm"
       THEN \E link \in [attempt.approved -> Link \ issued] :
              /\ \A j, k \in attempt.approved : link[j] = link[k] => j = k
              /\ Apply(link)
       ELSE Apply(<<>>)

\* undo_relationship_batch: a change is taken back if its row is as the batch
\* left it, and skipped otherwise.
UnchangedIfThere(m, c) == (m.rows[c.item] = Nothing) = (c.after = Nothing)  \* mutant
Unchanged(m, c) ==
  /\ m.rows[c.item] = c.after
  /\ m.versions[c.item] = c.version

Undo(b) ==
  LET changes == model.batches[b].changes
      undone  == {c \in changes : Unchanged(model, c)}
  IN  /\ model.batches[b] # Nothing
      /\ ~ model.batches[b].undone
      /\ Write([model EXCEPT !.batches[b].undone = TRUE,
                             !.batches[b].skipped = {c.key : c \in changes \ undone}],
               Before(undone))
      /\ UNCHANGED <<issued, attempt, listing, editing>>

-----------------------------------------------------------------------------
(* The other writers.                                                      *)

\* save_captured_snapshot: an unchanged structure reuses the snapshot.
Capture(s) ==
  /\ model.snapshot # Nothing => model.snapshot.structure # s
  /\ model.clock < MaxWrites
  /\ model' = [Later(model) EXCEPT !.snapshot = [id |-> model.clock + 1, structure |-> s]]
  /\ UNCHANGED <<issued, attempt, listing, editing, writer>>

\* save_data_source
SaveSource(p) ==
  /\ model' = [model EXCEPT !.profile = p]
  /\ UNCHANGED <<issued, attempt, listing, editing, writer>>

\* ignore_relationship_inference and restore_relationship_inference
IgnoreInference(k) ==
  /\ model.clock < MaxWrites
  /\ Write(Later(model), Only(k, [ignored |-> model.clock + 1]))
  /\ UNCHANGED <<issued, attempt, listing, editing>>

RestoreInference(k) ==
  /\ model.rows[k] # Nothing
  /\ Write(model, Only(k, Nothing))
  /\ UNCHANGED <<issued, attempt, listing, editing>>

\* delete_logical_relationship
DeleteLink(l) ==
  /\ model.rows[l] # Nothing
  /\ Write(model, Only(l, Nothing))
  /\ UNCHANGED <<issued, attempt, listing, editing>>

\* The disable action of the change review keeps updated_at.
DisableLink(l) ==
  /\ model.rows[l] # Nothing
  /\ model.rows[l].status # "Disabled"
  /\ Write(model, Only(l, [model.rows[l] EXCEPT !.status = "Disabled"]))
  /\ UNCHANGED <<issued, attempt, listing, editing>>

\* persist_logical_relationship validates against what it reads, and saves later.
\* A mismatch of types may be allowed; a duplicate, a physical key or a missing
\* field may not.
BeginEdit(l, k, disabled) ==
  LET status == StatusIn[model.snapshot.structure][k]
  IN  /\ editing = Nothing
      /\ model.snapshot # Nothing
      /\ l \notin issued \/ l \in Links(model)
      /\ \A j \in Links(model) \ {l} : model.rows[j].key # k
      /\ status \in {"Active", "Conflicted"}
      /\ editing' = [link |-> l, key |-> k,
                     status |-> IF disabled THEN "Disabled" ELSE status]
      /\ issued' = issued \cup {l}
      /\ UNCHANGED <<model, attempt, listing, writer>>

EndEdit ==
  /\ editing # Nothing
  /\ model.clock < MaxWrites
  /\ Write(Later(model), Only(editing.link, [key |-> editing.key, status |-> editing.status,
                                            at |-> model.clock + 1]))
  /\ editing' = Nothing
  /\ UNCHANGED <<issued, attempt, listing>>

\* validated_logical_relationships lists the rows, computes the status of those
\* not disabled, and then saves, one by one, the listed rows whose status differs.
Revalidated(r) == [r EXCEPT !.status = StatusIn[model.snapshot.structure][r.key]]
BeginListing ==
  /\ listing = {}
  /\ model.snapshot # Nothing
  /\ listing' = {<<l, Revalidated(model.rows[l])>> :
                   l \in {j \in Links(model) :
                            /\ model.rows[j].status # "Disabled"
                            /\ Revalidated(model.rows[j]) # model.rows[j]}}
  /\ UNCHANGED <<model, issued, attempt, editing, writer>>

Revalidate(x) ==
  /\ x \in listing
  /\ Write(model, Only(x[1], x[2]))
  /\ listing' = listing \ {x}
  /\ UNCHANGED <<issued, attempt, editing>>

\* import_portable_model: the rows of the backup are upserted.
ImportModel(rows) ==
  /\ model.clock < MaxWrites
  /\ Write(Later(model), rows)
  /\ UNCHANGED <<issued, attempt, listing, editing>>

\* delete_source_data: with the semantics go the batches and the versions.
DeletedKeepingBatches(m) ==  \* mutant
  [m EXCEPT !.rows     = [i \in Item |-> Nothing],
            !.versions = [i \in Item |-> 0]]
Deleted(m) ==
  [m EXCEPT !.rows     = [i \in Item |-> Nothing],
            !.versions = [i \in Item |-> 0],
            !.batches  = [b \in Batch |-> Nothing]]

DeleteSource(history, semantics) ==
  LET m == IF semantics THEN Deleted(model) ELSE model
  IN  /\ history \/ semantics
      /\ model' = IF history THEN [m EXCEPT !.snapshot = Nothing] ELSE m
      /\ writer' = IF semantics THEN [i \in Item |-> Other] ELSE writer
      /\ UNCHANGED <<issued, attempt, listing, editing>>

-----------------------------------------------------------------------------
BatchInit ==
  /\ \E p \in Profile :
       model = [snapshot |-> Nothing, profile |-> p, rows |-> [i \in Item |-> Nothing],
                versions |-> [i \in Item |-> 0], batches |-> [b \in Batch |-> Nothing],
                clock |-> 0]
  /\ issued = Link \cap UNION {DOMAIN rows : rows \in Backup}
  /\ attempt = Nothing
  /\ listing = {}
  /\ editing = Nothing
  /\ writer = [i \in Item |-> Other]

BatchNext ==
  \/ \E b \in Batch, action \in {"confirm", "ignore", "restore"},
        entries \in SUBSET Key, approved \in SUBSET Key :
       Preview(b, action, entries, approved)
  \/ ApplyBatch
  \/ \E b \in Batch : Undo(b)
  \/ \E s \in Structure : Capture(s)
  \/ \E p \in Profile : SaveSource(p)
  \/ \E k \in Key : IgnoreInference(k) \/ RestoreInference(k)
  \/ \E l \in Link : DeleteLink(l) \/ DisableLink(l)
  \/ \E l \in Link, k \in Candidate, disabled \in BOOLEAN : BeginEdit(l, k, disabled)
  \/ EndEdit
  \/ BeginListing
  \/ \E x \in listing : Revalidate(x)
  \/ \E rows \in Backup : ImportModel(rows)
  \/ \E h, sem \in BOOLEAN : DeleteSource(h, sem)

BatchSpec == BatchInit /\ [][BatchNext]_batchVars

-----------------------------------------------------------------------------
(* Properties.                                                             *)

\* Undo takes back exactly the rows nobody has written since the batch wrote
\* them, and says which it skipped (relationship_batches.rs:229, "A later edit
\* or delete/recreate is never overwritten").
UndoKeepsLaterWorkStep ==
  \A b \in Batch :
    /\ model.batches[b] # Nothing
    /\ model'.batches[b] # Nothing
    /\ model'.batches[b].undone
    /\ ~ model.batches[b].undone
    => \A c \in model.batches[b].changes :
         IF writer[c.item] = b
           THEN model'.rows[c.item] = c.before /\ c.key \notin model'.batches[b].skipped
           ELSE /\ model'.rows[c.item] = model.rows[c.item]
                /\ c.key \in model'.batches[b].skipped
UndoKeepsLaterWork == [][UndoKeepsLaterWorkStep]_batchVars

\* A confirmed batch leaves each field it links with one relationship in use,
\* active in the current structure, for a candidate nobody asked to ignore,
\* whatever was imported, captured or edited since the preview.
LinkedOnceStep ==
  \A b \in Batch :
    /\ model.batches[b] = Nothing
    /\ model'.batches[b] # Nothing
    /\ model'.batches[b].action = "confirm"
    => \A c \in model'.batches[b].changes :
         /\ model'.rows[c.item] = c.after
         /\ StatusIn[model'.snapshot.structure][c.key] = "Active"
         /\ model'.rows[c.key] = Nothing /\ model'.rows[RuleOf[c.key]] = Nothing
         /\ \A l \in Links(model') \ {c.item} :
              FieldOf[model'.rows[l].key] = FieldOf[c.key]
                => model'.rows[l].status = "Orphaned"
LinkedOnce == [][LinkedOnceStep]_batchVars

\* Rows, batches and counters are well formed, and no batch knows a version that
\* its row has not reached.
BatchTypeOK ==
  /\ model.snapshot = Nothing \/ model.snapshot \in [id : Nat, structure : Structure]
  /\ DOMAIN model.rows = Item
  /\ \A i \in Item : model.rows[i] \in RowOf(i)
  /\ model.versions \in [Item -> Nat]
  /\ \A b \in Batch : model.batches[b] # Nothing =>
       \A c \in model.batches[b].changes :
         /\ c.item \in Item /\ c.key \in Key
         /\ c.before \in RowOf(c.item) /\ c.after \in RowOf(c.item)
         /\ c.version \in 1 .. model.versions[c.item]
  /\ writer \in [Item -> Batch \cup {Other}]

\* docs/research/NODAL_STUDIO_PRODUCT_OPTIMIZATION_PLAN_2026-10-23.md:35: the
\* recomputation of statuses leaves disabled relationships alone.
DisabledIsKeptStep ==
  listing # {} /\ listing' # listing =>
    \A l \in Links(model) : model.rows[l].status = "Disabled" =>
      model'.rows[l] = model.rows[l]
DisabledIsKept == [][DisabledIsKeptStep]_batchVars

=============================================================================

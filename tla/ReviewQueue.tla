----------------------------- MODULE ReviewQueue -----------------------------
(***************************************************************************)
(* The review of suggested relationships: InferredRelationshipReview.tsx,  *)
(* its batch panel and batch history.  Candidates are ignored, restored    *)
(* and confirmed singly or in batches; a batch whose answer is lost is     *)
(* sent again under the same id.  What the backend does with a batch is    *)
(* RelationshipBatches; here it keeps to what the page can tell.           *)
(***************************************************************************)
EXTENDS Naturals, FiniteSets

CONSTANTS Candidate,
          Twins,       \* candidates of one mapping group
          None,
          MaxBatches,  \* batch ids made
          MaxSteps,    \* actions of the user
          MaxOthers    \* changes made elsewhere

VARIABLES server,  \* ignored candidates, confirmed ones, batches applied
          known,   \* what the page has loaded of it
          tab,     \* "inferred" or "ignored"
          queue,   \* selection, attempt of the last quick action, last batch, what is busy
          panel,   \* the batch panel, or None
          form,    \* the confirmation of one candidate
          sent,    \* the call on its way, or None
          ids, spent

vars == <<server, known, tab, queue, panel, form, sent, ids, spent>>

Id == 1..MaxBatches
Revision == [ignored |-> server.ignored, links |-> server.links]
Group(c) == IF c \in Twins THEN Twins ELSE {c}

\* pendingCandidates and the ignored entries, as last loaded.
Rows == IF tab = "inferred" THEN Candidate \ (known.ignored \cup known.links) ELSE known.ignored
Selected == queue.checked \cap Rows

FreshQueue == [checked |-> {}, attempt |-> None, last |-> None, busy |-> FALSE, history |-> FALSE]
FreshForm == [dirty |-> FALSE, saving |-> FALSE, of |-> None]

BlankPanel(keys) ==
  [request |-> keys, preview |-> None, included |-> {}, reviewed |-> {}, seen |-> {}, attempt |-> None, saving |-> FALSE]

\* A model some of whose suggestions were dealt with before; the page just
\* opened, or the panel just opened on all that can be confirmed.
Init ==
  /\ \E i \in SUBSET Candidate : server = [ignored |-> i, links |-> {}, batches |-> [x \in Id |-> None]]
  /\ known = Revision /\ tab \in {"inferred", "ignored"}
  /\ \/ queue = FreshQueue /\ panel = None
     \/ /\ tab = "inferred" /\ Rows # {}
        /\ queue = [FreshQueue EXCEPT !.checked = Rows] /\ panel = BlankPanel(Rows)
  /\ form = FreshForm /\ sent = None
  /\ ids = 0 /\ spent = [steps |-> 0, others |-> 0]

Saving == panel # None /\ panel.saving
Locked == queue.busy \/ form.saving \/ Saving
Dirty == form.dirty \/ (panel # None /\ panel.reviewed # {})
User == spent.steps < MaxSteps /\ spent' = [spent EXCEPT !.steps = @ + 1]

-----------------------------------------------------------------------------
(* The selection                                                           *)

\* A row's box, and the menu that selects all: the earlier attempt is over.
Check ==
  /\ ~Locked /\ ~Dirty /\ User
  /\ \E s \in {Rows} \cup {(queue.checked \cup {c}) : c \in Rows} \cup {queue.checked \ {c} : c \in Rows} :
       queue' = [queue EXCEPT !.checked = s, !.attempt = None, !.history = FALSE]
  /\ panel' = None
  /\ UNCHANGED <<server, known, tab, form, sent, ids>>

\* clearSelection, also after a change of the filters.
ClearSelection ==
  /\ ~Locked /\ ~Dirty /\ User
  /\ queue' = [queue EXCEPT !.checked = {}, !.attempt = None, !.history = FALSE]
  /\ panel' = None
  /\ UNCHANGED <<server, known, tab, form, sent, ids>>

\* Another tab, or another request to review: the review is mounted anew.
SwitchTab ==
  /\ ~Locked /\ User
  /\ tab' = IF tab = "inferred" THEN "ignored" ELSE "inferred"
  /\ queue' = FreshQueue /\ panel' = None /\ form' = FreshForm
  /\ UNCHANGED <<server, known, sent, ids>>

OpenHistory ==
  /\ ~Locked /\ User
  /\ queue' = [queue EXCEPT !.history = TRUE] /\ panel' = None /\ form' = FreshForm
  /\ UNCHANGED <<server, known, tab, sent, ids>>

\* navigate leaves the batch and drops the confirmation's draft.
Navigate ==
  /\ ~Locked /\ User
  /\ queue' = [queue EXCEPT !.history = FALSE] /\ panel' = None /\ form' = FreshForm
  /\ UNCHANGED <<server, known, tab, sent, ids>>

-----------------------------------------------------------------------------
(* The backend                                                             *)

Reason(action, c, now) ==
  CASE action = "ignore"  -> c \in now.ignored \cup now.links
    [] action = "restore" -> c \notin now.ignored
    [] action = "confirm" -> c \in now.ignored \cup now.links

Preview(action, keys) == [revision |-> Revision, blocked |-> {c \in keys : Reason(action, c, Revision)}]

\* apply_relationship_batch: the same request under the same id is answered
\* again, another one under it is refused.
Repeats(b) == server.batches[b.id] # None
SameRequest(b) == server.batches[b.id].request = [b EXCEPT !.id = 0]
Applies(b) ==
  /\ ~Repeats(b) /\ b.revision = Revision /\ b.approved # {}
  /\ \A c \in b.approved : ~Reason(b.action, c, Revision)
Applied(b) ==
  [ignored |-> CASE b.action = "ignore" -> server.ignored \cup b.approved
                 [] b.action = "restore" -> server.ignored \ b.approved
                 [] b.action = "confirm" -> server.ignored,
   links |-> IF b.action = "confirm" THEN server.links \cup b.approved ELSE server.links,
   batches |-> [server.batches EXCEPT ![b.id] = [request |-> [b EXCEPT !.id = 0], undone |-> FALSE]]]

\* undo_relationship_batch: what was changed since stays.
Undone(id) ==
  LET r == server.batches[id].request IN
  IF server.batches[id].undone THEN server
  ELSE [ignored |-> CASE r.action = "ignore" -> server.ignored \ r.approved
                      [] r.action = "restore" -> server.ignored \cup r.approved
                      [] r.action = "confirm" -> server.ignored,
        links |-> IF r.action = "confirm" THEN server.links \ r.approved ELSE server.links,
        batches |-> [server.batches EXCEPT ![id].undone = TRUE]]

\* One call is served; its answer may be lost after it was.
Serve ==
  /\ sent # None /\ sent.at = "sent"
  /\ LET b == sent.batch IN
       \/ /\ sent.kind \in {"quick", "confirm"} /\ Applies(b)
          /\ server' = Applied(b) /\ \E r \in {"done", "lost"} : sent' = [sent EXCEPT !.at = r]
       \/ /\ sent.kind \in {"quick", "confirm"} /\ ~Applies(b) /\ server' = server
          /\ sent' = [sent EXCEPT !.at = IF Repeats(b) /\ SameRequest(b) THEN "done" ELSE "refused"]
       \/ /\ sent.kind = "undo" /\ server' = Undone(b)
          /\ \E r \in {"done", "lost"} : sent' = [sent EXCEPT !.at = r]
       \/ /\ sent.kind = "ignore" /\ server' = [server EXCEPT !.ignored = @ \cup {b}] /\ sent' = [sent EXCEPT !.at = "done"]
       \/ /\ sent.kind = "restore" /\ server' = [server EXCEPT !.ignored = @ \ {b}] /\ sent' = [sent EXCEPT !.at = "done"]
       \/ /\ sent.kind = "save" /\ b \notin server.links
          /\ server' = [server EXCEPT !.links = @ \cup {b}] /\ sent' = [sent EXCEPT !.at = "done"]
       \/ server' = server /\ sent' = [sent EXCEPT !.at = "failed"]
  /\ UNCHANGED <<known, tab, queue, panel, form, ids, spent>>

\* Another window, or the canvas, deals with a candidate; the page loads it or not.
Elsewhere ==
  /\ spent.others < MaxOthers /\ spent' = [spent EXCEPT !.others = @ + 1]
  /\ \E c \in Candidate : \/ server' = [server EXCEPT !.ignored = IF c \in @ THEN @ \ {c} ELSE @ \cup {c}]
                          \/ c \notin server.links /\ server' = [server EXCEPT !.links = @ \cup {c}]
  /\ UNCHANGED <<known, tab, queue, panel, form, sent, ids>>

Reload ==
  /\ known # Revision /\ known' = Revision
  /\ UNCHANGED <<server, tab, queue, panel, form, sent, ids, spent>>

-----------------------------------------------------------------------------
(* Quick batches: ignore and restore                                       *)

NewBatch(action, keys, revision, approved) ==
  [id |-> ids + 1, action |-> action, keys |-> keys, revision |-> revision, approved |-> approved]
SameAs(b, action, keys) == b # None /\ b.action = action /\ b.keys = keys

\* quickAttempt: the same request is sent again as it was.
Again(b, action, keys) == SameAs(b, action, keys)

\* quickBatch: the preview of a new attempt must have no reason to stop.
QuickBatch ==
  /\ ~Locked /\ ~Dirty /\ Selected # {} /\ sent = None /\ User
  /\ LET action == IF tab = "inferred" THEN "ignore" ELSE "restore"
         preview == Preview(action, Selected)
         b == IF Again(queue.attempt, action, Selected) THEN queue.attempt
              ELSE NewBatch(action, Selected, preview.revision, Selected)
     IN /\ \/ Again(queue.attempt, action, Selected) /\ ids' = ids
           \/ /\ ~Again(queue.attempt, action, Selected) /\ preview.blocked = {}
              /\ ids < MaxBatches /\ ids' = ids + 1
        /\ sent' = [kind |-> "quick", batch |-> b, at |-> "sent"]
        /\ queue' = [queue EXCEPT !.attempt = b, !.busy = TRUE]
  /\ UNCHANGED <<server, known, tab, panel, form>>

\* batchDone
Done(b) == [queue EXCEPT !.checked = @ \ b.approved, !.attempt = None, !.last = b.id, !.busy = FALSE, !.history = FALSE]

\* A batch that ends is loaded and told; one that fails keeps its attempt.
QuickAnswered ==
  /\ sent # None /\ sent.kind = "quick" /\ sent.at # "sent" /\ sent' = None
  /\ \/ sent.at = "done" /\ queue' = Done(sent.batch) /\ known' = Revision
     \/ sent.at # "done" /\ queue' = [queue EXCEPT !.busy = FALSE] /\ known' = known
  /\ UNCHANGED <<server, tab, panel, form, ids, spent>>

\* undoLast, and "Undo" in the history.
Undo ==
  /\ ~Locked /\ sent = None /\ User
  /\ \E id \in IF queue.history THEN {i \in Id : server.batches[i] # None /\ ~server.batches[i].undone}
               ELSE {queue.last} \ {None} :
       sent' = [kind |-> "undo", batch |-> id, at |-> "sent"]
  /\ queue' = [queue EXCEPT !.busy = TRUE]
  /\ UNCHANGED <<server, known, tab, panel, form, ids>>

\* undone clears the selection and shows the history.
UndoAnswered ==
  /\ sent # None /\ sent.kind = "undo" /\ sent.at # "sent" /\ sent' = None
  /\ \/ /\ sent.at = "done" /\ known' = Revision /\ panel' = None
        /\ queue' = [queue EXCEPT !.checked = {}, !.attempt = None, !.busy = FALSE, !.history = TRUE, !.last = None]
     \/ sent.at # "done" /\ queue' = [queue EXCEPT !.busy = FALSE] /\ UNCHANGED <<known, panel>>
  /\ UNCHANGED <<server, tab, form, ids, spent>>

-----------------------------------------------------------------------------
(* The batch panel                                                         *)

Active(p) == {Group(c) : c \in p.included}
Ready(p) == p.preview # None /\ p.included # {} /\ Active(p) \subseteq p.reviewed

OpenPanel ==
  /\ tab = "inferred" /\ ~Locked /\ ~Dirty /\ Selected # {} /\ User
  /\ panel' = BlankPanel(Selected)
  /\ queue' = [queue EXCEPT !.history = FALSE]
  /\ UNCHANGED <<server, known, tab, form, sent, ids>>

\* mutant: candidates the store would refuse are included too
OfferedAll(keys, p) == keys

\* What a new preview includes: every candidate that is not blocked.
Offered(keys, p) == keys \ p.blocked

\* The effect that asks for the preview, first and after "Refresh preview".
Previewed ==
  /\ panel # None /\ panel.preview = None
  /\ LET p == Preview("confirm", panel.request) IN
       panel' = [panel EXCEPT !.preview = p, !.included = Offered(panel.request, p), !.reviewed = {}, !.attempt = None]
  /\ UNCHANGED <<server, known, tab, queue, form, sent, ids, spent>>

RefreshPreview ==
  /\ panel # None /\ panel.preview # None /\ ~panel.saving /\ panel.attempt # None /\ User
  /\ panel' = [panel EXCEPT !.preview = None, !.included = {}, !.reviewed = {}]
  /\ UNCHANGED <<server, known, tab, queue, form, sent, ids>>

\* mutant: a change of what is included keeps the group's review
WithoutKeepingReview(p, cs, included) == [p EXCEPT !.included = included, !.attempt = None]

\* toggleIncluded and "Exclude group": the group is to be reviewed again.
Changed(p, cs, included) ==
  [p EXCEPT !.included = included, !.reviewed = @ \ {Group(c) : c \in cs}, !.attempt = None]

ToggleIncluded ==
  /\ panel # None /\ panel.preview # None /\ ~panel.saving /\ User
  /\ \E c \in panel.request \ panel.preview.blocked :
       \/ panel' = Changed(panel, {c}, IF c \in panel.included THEN panel.included \ {c} ELSE panel.included \cup {c})
       \/ panel' = Changed(panel, Group(c), panel.included \ Group(c))
  /\ UNCHANGED <<server, known, tab, queue, form, sent, ids>>

\* A group's box; seen notes the members that were included when it was ticked.
ReviewGroup ==
  /\ panel # None /\ panel.preview # None /\ ~panel.saving /\ User
  /\ \E g \in Active(panel) :
       panel' = IF g \in panel.reviewed THEN [panel EXCEPT !.reviewed = @ \ {g}]
                ELSE [panel EXCEPT !.reviewed = @ \cup {g}, !.seen = @ \cup {g \cap panel.included}]
  /\ UNCHANGED <<server, known, tab, queue, form, sent, ids>>

\* confirm
ConfirmBatch ==
  /\ panel # None /\ ~panel.saving /\ Ready(panel) /\ sent = None /\ User
  /\ LET repeat == Again(panel.attempt, "confirm", panel.request)
         b == IF repeat THEN panel.attempt ELSE NewBatch("confirm", panel.request, panel.preview.revision, panel.included)
     IN /\ IF repeat THEN ids' = ids ELSE ids < MaxBatches /\ ids' = ids + 1
        /\ sent' = [kind |-> "confirm", batch |-> b, at |-> "sent"]
        /\ panel' = [panel EXCEPT !.attempt = b, !.saving = TRUE]
  /\ UNCHANGED <<server, known, tab, queue, form>>

BatchAnswered ==
  /\ sent # None /\ sent.kind = "confirm" /\ sent.at # "sent" /\ sent' = None
  /\ \/ sent.at = "done" /\ panel' = None /\ queue' = Done(sent.batch) /\ known' = Revision
     \/ sent.at # "done" /\ panel' = [panel EXCEPT !.saving = FALSE] /\ UNCHANGED <<queue, known>>
  /\ UNCHANGED <<server, tab, form, ids, spent>>

-----------------------------------------------------------------------------
(* One candidate                                                           *)

\* The confirmation's note, cardinality and consent.
EditForm ==
  /\ tab = "inferred" /\ panel = None /\ ~queue.history /\ ~Locked /\ ~form.dirty /\ User
  /\ \E c \in Rows : form' = [form EXCEPT !.dirty = TRUE, !.of = c]
  /\ UNCHANGED <<server, known, tab, queue, panel, sent, ids>>

\* submit, after a validation that allows it.
ConfirmOne ==
  /\ tab = "inferred" /\ panel = None /\ ~queue.history /\ ~Locked /\ sent = None /\ User
  /\ \E c \in Rows : /\ form.dirty => c = form.of
                     /\ sent' = [kind |-> "save", batch |-> c, at |-> "sent"]
                     /\ form' = [form EXCEPT !.saving = TRUE, !.of = c]
  /\ UNCHANGED <<server, known, tab, queue, panel, ids>>

\* mutate: ignore from the confirmation, restore from the ignored entry.
Mutate ==
  /\ panel = None /\ ~queue.history /\ ~Locked /\ ~form.dirty /\ sent = None /\ User
  /\ \E c \in Rows : sent' = [kind |-> IF tab = "inferred" THEN "ignore" ELSE "restore", batch |-> c, at |-> "sent"]
  /\ queue' = [queue EXCEPT !.busy = TRUE]
  /\ UNCHANGED <<server, known, tab, panel, form, ids>>

\* onSaved and advance: the next candidate, its form empty.
OneAnswered ==
  /\ sent # None /\ sent.kind \in {"save", "ignore", "restore"} /\ sent.at # "sent" /\ sent' = None
  /\ queue' = [queue EXCEPT !.busy = FALSE]
  /\ IF sent.at = "done" THEN known' = Revision /\ form' = FreshForm
     ELSE known' = known /\ form' = [form EXCEPT !.saving = FALSE]
  /\ UNCHANGED <<server, tab, panel, ids, spent>>

Next ==
  \/ Check \/ ClearSelection \/ SwitchTab \/ OpenHistory \/ Navigate
  \/ Serve \/ Elsewhere \/ Reload
  \/ QuickBatch \/ QuickAnswered \/ Undo \/ UndoAnswered
  \/ OpenPanel \/ Previewed \/ RefreshPreview \/ ToggleIncluded \/ ReviewGroup \/ ConfirmBatch \/ BatchAnswered
  \/ EditForm \/ ConfirmOne \/ Mutate \/ OneAnswered

Spec == Init /\ [][Next]_vars

-----------------------------------------------------------------------------
(* Properties                                                              *)

\* The state has the shape the components declare.
TypeOK ==
  /\ server.ignored \subseteq Candidate /\ server.links \subseteq Candidate
  /\ queue.checked \subseteq Candidate /\ queue.last \in Id \cup {None}
  /\ panel # None => panel.included \subseteq panel.request \ (IF panel.preview = None THEN {} ELSE panel.preview.blocked)
  /\ ids \in 0..MaxBatches

\* A batch of confirmations asks for exactly what is included now, in groups
\* that were reviewed with these very members, and for the revision that the
\* panel shows (RelationshipBatchPanel.tsx, toggleIncluded and confirm).
AsReviewed ==
  sent' # None /\ sent = None /\ sent'.kind = "confirm" =>
    /\ sent'.batch.approved = panel.included
    /\ sent'.batch.revision = panel.preview.revision
    /\ \A c \in sent'.batch.approved : Group(c) \cap panel.included \in panel.seen
ApprovedIsReviewed == [][AsReviewed]_vars
=============================================================================

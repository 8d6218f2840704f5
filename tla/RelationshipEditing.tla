------------------------ MODULE RelationshipEditing ------------------------
(***************************************************************************)
(* Drawing, editing and deleting logical relationships: the canvas         *)
(* gestures of SchemaCanvas.tsx, the popover they open, the manager with   *)
(* its editor, the inspector and the deletion dialog.  A validation and a  *)
(* save are calls whose answers arrive later; the popover stays open over  *)
(* a change of source, the manager and the deletion dialog do not.         *)
(***************************************************************************)
EXTENDS Naturals, FiniteSets

CONSTANTS Source, Field, None,
          MaxRels,    \* relationships created
          MaxForms,   \* forms opened
          MaxCalls,   \* writes sent
          MaxMoves,   \* changes of source and of model
          MaxEdits    \* changes made in forms

VARIABLES shown,   \* source and snapshot on the canvas
          server,  \* stored relationships, how many were made, and the mappings whose types differ
          canvas,  \* selected edge, gesture under way
          draft,   \* the popover, or None
          manager, \* the dialog: open, its editor, an action waiting for "discard?"
          doomed,  \* the deletion dialog, or None
          calls,   \* writes on their way
          spent

vars == <<shown, server, canvas, draft, manager, doomed, calls, spent>>

Rel == 1..MaxRels
Mapping == {m \in Field \X Field : m[1] # m[2]}
Stored == {r \in Rel : server.rels[r] # None}
Known == {r \in Stored : server.rels[r].source = shown.source}

\* current_relationship_validation; id is the relationship being edited.
Verdict(source, map, id) ==
  IF \E r \in Stored \ {id} : server.rels[r].source = source /\ server.rels[r].map = map THEN "duplicate"
  ELSE IF <<source, map>> \in server.unlike THEN "conflicted" ELSE "valid"
Allows(verdict, allow) == verdict = "valid" \/ (verdict = "conflicted" /\ allow)

Form(rel, map, allow) == [rel |-> rel, map |-> map, allow |-> allow, was |-> <<map, allow>>,
  checked |-> None, asking |-> map # None, status |-> "idle", inst |-> spent.forms + 1]
Conflicted(r) == <<server.rels[r].source, server.rels[r].map>> \in server.unlike
FormOf(r) == Form(r, server.rels[r].map, Conflicted(r))
OpensForm == spent.forms < MaxForms /\ spent' = [spent EXCEPT !.forms = @ + 1]
Edits == spent.edits < MaxEdits /\ spent' = [spent EXCEPT !.edits = @ + 1]

NoEdge == [rel |-> None, map |-> None]
NoGesture == [at |-> "none", from |-> None, rel |-> None]
Gesture(at, from, rel) == [at |-> at, from |-> from, rel |-> rel]
ClosedManager == [open |-> FALSE, editor |-> None, asked |-> None, busy |-> FALSE]

\* A model of two stored relationships at most, seen from one source.
Init ==
  /\ \E s \in Source : shown = [source |-> s, snap |-> 0]
  /\ \E map \in Mapping : \E unlike \in {{}, {shown.source} \X Mapping} :
       server = [rels |-> [r \in Rel |-> IF r = 1 THEN [source |-> shown.source, map |-> map, on |-> TRUE] ELSE None],
                 made |-> 1, unlike |-> unlike]
  /\ canvas = [edge |-> NoEdge, gesture |-> NoGesture] /\ draft = None
  /\ manager = ClosedManager /\ doomed = None /\ calls = {}
  /\ spent = [forms |-> 0, moves |-> 0, edits |-> 0, calls |-> 0]

-----------------------------------------------------------------------------
(* The canvas                                                              *)

\* The dialogs are modal over the window; the popover covers the canvas only.
CanvasFree == draft = None /\ ~manager.open /\ doomed = None

\* onEdgeClick: a stored relationship, or a suggested one.
SelectEdge ==
  /\ CanvasFree
  /\ \E e \in {[rel |-> r, map |-> None] : r \in Known} \cup {[rel |-> None, map |-> m] : m \in Mapping} :
       canvas' = [canvas EXCEPT !.edge = e]
  /\ UNCHANGED <<shown, server, draft, manager, doomed, calls, spent>>

Popover(form) == [form EXCEPT !.status = "validating"]

\* onEdgeDoubleClick and startEditingSelectedRelationship.
EditEdge ==
  /\ CanvasFree
  /\ \E r \in Known : draft' = Popover(FormOf(r)) /\ canvas' = [canvas EXCEPT !.edge = [rel |-> r, map |-> None]]
  /\ OpensForm
  /\ UNCHANGED <<shown, server, manager, doomed, calls>>

\* onNodeContextMenu and useFieldRowConnection's mousedown: a drag starts
\* only where no pick is under way.
BeginGesture ==
  /\ CanvasFree
  /\ \E f \in Field : \E at \in {"menu", "drag"} :
       /\ at = "drag" => canvas.gesture.at \in {"none", "menu"}
       /\ canvas' = [canvas EXCEPT !.gesture = Gesture(at, f, None)]
  /\ UNCHANGED <<shown, server, draft, manager, doomed, calls, spent>>

\* "Create logical relationship" in a field's menu.
PickFromMenu ==
  /\ CanvasFree /\ canvas.gesture.at = "menu"
  /\ canvas' = [canvas EXCEPT !.gesture = [@ EXCEPT !.at = "pick"]]
  /\ UNCHANGED <<shown, server, draft, manager, doomed, calls, spent>>

\* onComplete, onConnect and chooseRelationshipTarget, from a click or from
\* the RelationshipTargetPicker: endpoints that differ open the popover.
ChooseTarget ==
  /\ CanvasFree /\ canvas.gesture.at \in {"drag", "pick"}
  /\ \E f \in Field \ {canvas.gesture.from} : draft' = Popover(Form(None, <<canvas.gesture.from, f>>, FALSE))
  /\ canvas' = [canvas EXCEPT !.gesture = NoGesture]
  /\ OpensForm
  /\ UNCHANGED <<shown, server, manager, doomed, calls>>

\* onPaneClick, the pickers' Cancel, and finish of a drag: Escape, lost focus,
\* a changed scope, or released over no field.
EndGesture ==
  /\ CanvasFree /\ (canvas.gesture # NoGesture \/ canvas.edge # NoEdge)
  /\ canvas' = [edge |-> NoEdge, gesture |-> NoGesture]
  /\ UNCHANGED <<shown, server, draft, manager, doomed, calls, spent>>

\* clearRelationship: Escape also closes the popover, a save under way or not.
Escape ==
  /\ draft # None
  /\ draft' = None /\ canvas' = [edge |-> NoEdge, gesture |-> NoGesture]
  /\ UNCHANGED <<shown, server, manager, doomed, calls, spent>>

-----------------------------------------------------------------------------
(* Calls                                                                   *)

Send(kind, by, rel, map, allow) ==
  calls' = calls \cup {[kind |-> kind, by |-> by, source |-> shown.source, rel |-> rel, map |-> map,
                        allow |-> allow, at |-> "sent", id |-> spent.calls]}
Counts == spent.calls < MaxCalls /\ spent' = [spent EXCEPT !.calls = @ + 1]
Fresh == server.made + 1

\* persist_logical_relationship validates again before it stores.
Stores(c) ==
  /\ Allows(Verdict(c.source, c.map, c.rel), c.allow)
  /\ IF c.rel = None THEN server.made < MaxRels ELSE c.rel \in Stored /\ server.rels[c.rel].source = c.source
  /\ server' = [server EXCEPT !.made = IF c.rel = None THEN Fresh ELSE @,
       !.rels[IF c.rel = None THEN Fresh ELSE c.rel] =
         [source |-> c.source, map |-> c.map,
          on |-> IF c.rel = None THEN TRUE ELSE IF c.kind = "toggle" THEN ~@.on ELSE @.on]]
Removes(c) ==
  /\ server' = IF c.rel \in Stored /\ server.rels[c.rel].source = c.source
               THEN [server EXCEPT !.rels[c.rel] = None] ELSE server

\* The backend serves one write, or refuses it.
Serve ==
  /\ \E c \in calls :
       /\ c.at = "sent"
       /\ \/ /\ IF c.kind = "delete" THEN Removes(c) ELSE Stores(c)
             /\ calls' = (calls \ {c}) \cup {[c EXCEPT !.at = "done"]}
          \/ server' = server /\ calls' = (calls \ {c}) \cup {[c EXCEPT !.at = "failed"]}
  /\ UNCHANGED <<shown, canvas, draft, manager, doomed, spent>>

-----------------------------------------------------------------------------
(* The popover                                                             *)

\* RelationshipCreatePopover's effect: the last validation asked is answered.
PopoverChecked ==
  /\ draft # None /\ draft.asking
  /\ \/ draft' = [draft EXCEPT !.asking = FALSE, !.status = "idle",
                    !.checked = [source |-> shown.source, map |-> draft.map, verdict |-> Verdict(shown.source, draft.map, draft.rel)]]
     \/ draft' = [draft EXCEPT !.asking = FALSE, !.status = "error"]
  /\ UNCHANGED <<shown, server, canvas, manager, doomed, calls, spent>>

AllowMismatch ==
  /\ draft # None /\ draft.checked # None /\ draft.checked.verdict = "conflicted"
  /\ draft' = [draft EXCEPT !.allow = ~@] /\ Edits
  /\ UNCHANGED <<shown, server, canvas, manager, doomed, calls>>

\* submit: the button asks for some validation that allows it.
PopoverSubmit ==
  /\ draft # None /\ draft.status \notin {"validating", "saving"}
  /\ draft.checked # None /\ Allows(draft.checked.verdict, draft.allow)
  /\ draft' = [draft EXCEPT !.status = "saving"]
  /\ Send("popover", draft.inst, draft.rel, draft.map, draft.allow) /\ Counts
  /\ UNCHANGED <<shown, server, canvas, manager, doomed>>

\* saveRelationshipDraft: a save that succeeded clears whatever draft and pick
\* is there; one that failed is told by its own popover.
PopoverAnswered ==
  /\ \E c \in calls :
       /\ c.kind = "popover" /\ c.at # "sent" /\ calls' = calls \ {c}
       /\ \/ c.at = "done" /\ draft' = None /\ canvas' = [canvas EXCEPT !.gesture = IF @.at = "pick" THEN NoGesture ELSE @]
          \/ /\ c.at = "failed" /\ canvas' = canvas
             /\ draft' = IF draft # None /\ draft.inst = c.by THEN [draft EXCEPT !.status = "error"] ELSE draft
  /\ UNCHANGED <<shown, server, manager, doomed, spent>>

PopoverCancel ==
  /\ draft # None /\ draft' = None
  /\ UNCHANGED <<shown, server, canvas, manager, doomed, calls, spent>>

-----------------------------------------------------------------------------
(* The manager                                                             *)

Editor == manager.editor
Saving == Editor # None /\ Editor.status = "saving"
Locked == manager.busy \/ Saving
Dirty == Editor # None /\ <<Editor.map, Editor.allow>> # Editor.was

\* The toolbar, or openInferenceReview from a suggested edge's inspector.
OpenManager ==
  /\ CanvasFree /\ manager' = [manager EXCEPT !.open = TRUE]
  /\ canvas' = [canvas EXCEPT !.edge = IF @.map # None THEN NoEdge ELSE @]
  /\ UNCHANGED <<shown, server, draft, doomed, calls, spent>>

\* What the user may ask of the manager: a form, another row, to leave.
Asks == {[to |-> "edit", rel |-> r] : r \in Known \cup {None}}
        \cup {[to |-> t, rel |-> None] : t \in {"select", "close"}}
Performed(a) ==
  /\ manager' = [manager EXCEPT !.asked = None, !.open = a.to # "close",
       !.editor = IF a.to # "edit" THEN None ELSE IF a.rel \in Stored THEN FormOf(a.rel) ELSE Form(None, None, FALSE)]
  /\ IF a.to = "edit" THEN OpensForm ELSE spent' = spent

\* mutant: an action replaces an edited form without asking
RequestActionAtOnce(a) == Performed(a)

\* requestAction
RequestAction(a) ==
  \/ Dirty /\ manager' = [manager EXCEPT !.asked = a] /\ spent' = spent
  \/ ~Dirty /\ Performed(a)

AskManager ==
  /\ manager.open /\ doomed = None /\ ~Locked /\ \E a \in Asks : RequestAction(a)
  /\ UNCHANGED <<shown, server, canvas, draft, doomed, calls>>

\* "Discard" and "Keep editing".
AnswerDiscard ==
  /\ manager.open /\ doomed = None /\ manager.asked # None
  /\ \/ Performed(manager.asked)
     \/ manager' = [manager EXCEPT !.asked = None] /\ spent' = spent
  /\ UNCHANGED <<shown, server, canvas, draft, doomed, calls>>

\* changeTable, changeColumn, and pairs added and removed.
Mapped(form, map) == [form EXCEPT !.map = map, !.allow = FALSE, !.asking = map # None]

\* The editor's fields, its consent, and "Retry validation".
EditForm ==
  /\ manager.open /\ doomed = None /\ Editor # None /\ ~Saving /\ Edits
  /\ \/ \E map \in (Mapping \cup {None}) \ {Editor.map} : manager' = [manager EXCEPT !.editor = Mapped(@, map)]
     \/ /\ Editor.checked # None /\ Editor.checked.map = Editor.map /\ Editor.checked.verdict = "conflicted"
        /\ manager' = [manager EXCEPT !.editor.allow = ~@]
     \/ /\ Editor.map # None /\ Editor.checked = None /\ ~Editor.asking
        /\ manager' = [manager EXCEPT !.editor.asking = TRUE]
  /\ UNCHANGED <<shown, server, canvas, draft, doomed, calls>>

EditorChecked ==
  /\ Editor # None /\ Editor.asking
  /\ \/ manager' = [manager EXCEPT !.editor.asking = FALSE,
          !.editor.checked = [source |-> shown.source, map |-> Editor.map, verdict |-> Verdict(shown.source, Editor.map, Editor.rel)]]
     \/ manager' = [manager EXCEPT !.editor.asking = FALSE, !.editor.checked = None]
  /\ UNCHANGED <<shown, server, canvas, draft, doomed, calls, spent>>

\* mutant: the last validation counts, whatever mapping it was asked for
CheckedAnyMapping(form) == form.checked # None

\* validationKey: only the validation of these very endpoints counts.
CheckedNow(form) == form.checked # None /\ form.checked.map = form.map

EditorSubmit ==
  /\ manager.open /\ doomed = None /\ Editor # None /\ Editor.map # None /\ ~Saving
  /\ CheckedNow(Editor) /\ Allows(Editor.checked.verdict, Editor.allow)
  /\ manager' = [manager EXCEPT !.editor.status = "saving"]
  /\ Send("editor", Editor.inst, Editor.rel, Editor.map, Editor.allow) /\ Counts
  /\ UNCHANGED <<shown, server, canvas, draft, doomed>>

\* onSaved closes the editor; a failure keeps it with its error.
EditorAnswered ==
  /\ \E c \in calls :
       /\ c.kind = "editor" /\ c.at # "sent" /\ calls' = calls \ {c}
       /\ manager' = IF Editor = None \/ Editor.inst # c.by THEN manager
                     ELSE IF c.at = "done" THEN [manager EXCEPT !.editor = None, !.asked = None]
                     ELSE [manager EXCEPT !.editor.status = "idle"]
  /\ UNCHANGED <<shown, server, canvas, draft, doomed, spent>>

\* toggle, from the manager or from the inspector.
Toggle ==
  /\ doomed = None /\ draft = None
  /\ \E r \in Known :
       /\ IF manager.open THEN ~Locked /\ Editor = None ELSE canvas.edge.rel = r
       /\ manager' = [manager EXCEPT !.busy = manager.open]
       /\ Send("toggle", IF manager.open THEN "manager" ELSE "inspector", r, server.rels[r].map, Conflicted(r))
  /\ Counts
  /\ UNCHANGED <<shown, server, canvas, draft, doomed>>

\* The inspector's selection is dropped when its change is stored.
ToggleAnswered ==
  /\ \E c \in calls :
       /\ c.kind = "toggle" /\ c.at # "sent" /\ calls' = calls \ {c}
       /\ manager' = IF c.by = "manager" /\ c.source = shown.source THEN [manager EXCEPT !.busy = FALSE] ELSE manager
       /\ canvas' = IF c.by = "inspector" /\ c.at = "done" THEN [canvas EXCEPT !.edge = NoEdge] ELSE canvas
  /\ UNCHANGED <<shown, server, draft, doomed, spent>>

-----------------------------------------------------------------------------
(* Deletion                                                                *)

\* requestRelationshipDeletion: the Delete key, the inspector and the manager.
AskDeletion ==
  /\ doomed = None /\ draft = None
  /\ \E r \in Known :
       /\ IF manager.open THEN ~Locked /\ Editor = None ELSE canvas.edge.rel = r
       /\ doomed' = [rel |-> r, source |-> shown.source, snap |-> shown.snap, busy |-> FALSE]
  /\ UNCHANGED <<shown, server, canvas, draft, manager, calls, spent>>

ConfirmDeletion ==
  /\ doomed # None /\ ~doomed.busy
  /\ doomed' = [doomed EXCEPT !.busy = TRUE]
  /\ Send("delete", doomed.snap, doomed.rel, None, FALSE) /\ Counts
  /\ UNCHANGED <<shown, server, canvas, draft, manager>>

\* remove: only the dialog that asked is told.
DeletionAnswered ==
  /\ \E c \in calls :
       /\ c.kind = "delete" /\ c.at # "sent" /\ calls' = calls \ {c}
       /\ IF doomed # None /\ doomed.busy /\ <<doomed.rel, doomed.snap>> = <<c.rel, c.by>>
          THEN IF c.at = "done" THEN doomed' = None /\ canvas' = [canvas EXCEPT !.edge = NoEdge]
               ELSE doomed' = [doomed EXCEPT !.busy = FALSE] /\ canvas' = canvas
          ELSE UNCHANGED <<doomed, canvas>>
  /\ UNCHANGED <<shown, server, draft, manager, spent>>

CancelDeletion ==
  /\ doomed # None /\ ~doomed.busy /\ doomed' = None
  /\ UNCHANGED <<shown, server, canvas, draft, manager, calls, spent>>

-----------------------------------------------------------------------------
(* A change of source or of model under the canvas                         *)

\* mutant: a deletion that was asked in another model stays on the screen
StillDoomedKept(next) == doomed

\* relationshipToDelete is dropped with the model it was asked in.
StillDoomed(next) ==
  IF doomed # None /\ <<doomed.source, doomed.snap>> # <<next.source, next.snap>> THEN None ELSE doomed

\* The manager is keyed by its source; the popover asks for a new validation
\* and keeps the earlier one meanwhile.
Show(next) ==
  /\ spent.moves < MaxMoves /\ spent' = [spent EXCEPT !.moves = @ + 1]
  /\ shown' = next /\ doomed' = StillDoomed(next)
  /\ manager' = IF next.source # shown.source THEN ClosedManager ELSE manager
  /\ draft' = IF draft # None /\ next.source # shown.source THEN [draft EXCEPT !.asking = TRUE] ELSE draft
  /\ canvas' = [edge |-> IF canvas.edge.rel # None /\ next.source # shown.source THEN NoEdge ELSE canvas.edge,
                gesture |-> IF canvas.gesture.at = "drag" THEN NoGesture ELSE canvas.gesture]

SwitchSource ==
  /\ \E s \in Source \ {shown.source} : Show([source |-> s, snap |-> spent.moves + 1])
  /\ UNCHANGED <<server, calls>>

\* A capture: types may differ from what they were.
NewModel ==
  /\ Show([shown EXCEPT !.snap = spent.moves + 1])
  /\ \E m \in Mapping : server' = [server EXCEPT !.unlike =
       IF <<shown.source, m>> \in @ THEN @ \ {<<shown.source, m>>} ELSE @ \cup {<<shown.source, m>>}]
  /\ UNCHANGED calls

Next ==
  \/ SelectEdge \/ EditEdge \/ BeginGesture \/ PickFromMenu \/ ChooseTarget \/ EndGesture \/ Escape
  \/ Serve \/ PopoverChecked \/ AllowMismatch \/ PopoverSubmit \/ PopoverAnswered \/ PopoverCancel
  \/ OpenManager \/ AskManager \/ AnswerDiscard \/ EditForm \/ EditorChecked \/ EditorSubmit \/ EditorAnswered
  \/ Toggle \/ ToggleAnswered \/ AskDeletion \/ ConfirmDeletion \/ DeletionAnswered \/ CancelDeletion
  \/ SwitchSource \/ NewModel

Spec == Init /\ [][Next]_vars

-----------------------------------------------------------------------------
(* Properties                                                              *)

FormType == [rel : Rel \cup {None}, map : Mapping \cup {None}, allow : BOOLEAN,
             was : (Mapping \cup {None}) \X BOOLEAN,
             checked : {None} \cup [source : Source, map : Mapping, verdict : {"duplicate", "conflicted", "valid"}],
             asking : BOOLEAN, status : {"validating", "idle", "saving", "error"}, inst : 1..MaxForms]

\* The state has the shape the components declare.
TypeOK ==
  /\ shown \in [source : Source, snap : 0..MaxMoves]
  /\ server.rels \in [Rel -> {None} \cup [source : Source, map : Mapping, on : BOOLEAN]]
  /\ server.unlike \subseteq Source \X Mapping /\ server.made \in 0..MaxRels
  /\ draft \in FormType \cup {None} /\ Editor \in FormType \cup {None}
  /\ doomed \in {None} \cup [rel : Rel, source : Source, snap : 0..MaxMoves, busy : BOOLEAN]

\* What the editor sends was validated with these endpoints in this source,
\* however late the answers came (RelationshipEditor.tsx, validationKey).
ValidatedHere ==
  \A c \in calls' \ calls : c.kind = "editor" /\ c.at = "sent" =>
    Editor.checked.source = c.source /\ Editor.checked.map = c.map
SentAsReviewed == [][ValidatedHere]_vars

\* A stored relationship is removed only by a deletion asked while its own
\* source was shown (SchemaCanvas.tsx, relationshipToDelete).
AskedHere ==
  \A c \in calls' \ calls : c.kind = "delete" /\ c.at = "sent" =>
    c.source = doomed.source /\ (c.rel \in Stored => server.rels[c.rel].source = c.source)
DeletedWhereAsked == [][AskedHere]_vars

\* An edited form leaves the manager only saved, discarded by its user, or
\* with its source (RelationshipManager.tsx, requestAction).
KeptUntilDecided ==
  Dirty /\ (manager'.editor = None \/ manager'.editor.inst # Editor.inst) =>
    \/ manager.asked # None \/ shown'.source # shown.source
    \/ \E c \in calls \ calls' : c.by = Editor.inst /\ c.at = "done"
EditsAreKept == [][KeptUntilDecided]_vars
=============================================================================

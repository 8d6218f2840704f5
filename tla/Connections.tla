---------------------------- MODULE Connections ----------------------------
(***************************************************************************)
(* The database connections of the sidebar: ConnectionPanel.tsx with its   *)
(* dialog, its picker and its manager.  One operation is under way at a    *)
(* time (`pending`), made of several awaited calls; a file chooser of the  *)
(* security fields is not one of them, and may bring a new value while an  *)
(* operation is still under way.                                           *)
(*                                                                         *)
(* The details of a connection (engine, host, TLS, tunnel) are one of      *)
(* Details; whether a database answers to them is decided by each test.    *)
(***************************************************************************)
EXTENDS Naturals, FiniteSets

CONSTANTS Profile, Details, None,
          MaxForms,  \* changes of the form
          MaxOps,    \* operations
          MaxLists   \* readings of the profiles that something else asks for

VARIABLES store,   \* saved profiles: details, and which details were seen to work for it (observed, not
                   \* read by the code); a deleted one has no details and its id is not used again
          page,    \* the source in the workspace
          panel,   \* the panel's list, dialog, form, result of the test
          op,      \* the operation under way
          listing, \* a reading of the profiles under way
          chooser, \* a file chooser is open
          spent

vars == <<store, page, panel, op, listing, chooser, spent>>

Unused == [details |-> None, verified |-> {}]
Saved == {p \in Profile : store[p].details # None}
Phases == 0..4   \* configuration, ssh, handshake, metadata, tls
Idle == [status |-> "idle", phase |-> 0, ssh |-> FALSE, of |-> None]
NewForm(d) == [id |-> None, details |-> d]
NoOp == [kind |-> "none", step |-> 0, form |-> None, aborted |-> FALSE, passed |-> FALSE]
Pending == op.kind # "none"
Copy(s) == [p \in Profile |-> s[p].details]

Init ==
  /\ \E first \in SUBSET Profile, d \in Details :
       store = [p \in Profile |-> IF p \in first THEN [details |-> d, verified |-> {d}] ELSE Unused]
  /\ page = None
  /\ panel = [list |-> [p \in Profile |-> None], dialog |-> FALSE, editing |-> None,
              form |-> NewForm(CHOOSE d \in Details : TRUE), test |-> Idle]
  /\ op = NoOp
  /\ listing = [asked |-> TRUE, answer |-> None]
  /\ chooser = FALSE
  /\ spent = [forms |-> 0, ops |-> 0, lists |-> 0]

-----------------------------------------------------------------------------
(* The list and the dialog                                                 *)

ListRead ==
  /\ listing.asked /\ listing.answer = None
  /\ listing' = [listing EXCEPT !.answer = Copy(store)]
  /\ UNCHANGED <<store, page, panel, op, chooser, spent>>

ListDelivered ==
  /\ listing.answer # None
  /\ panel' = [panel EXCEPT !.list = listing.answer]
  /\ listing' = [asked |-> FALSE, answer |-> None]
  /\ UNCHANGED <<store, page, op, chooser, spent>>

\* The settings changed the profiles: they are read again, and a reading under way no longer counts.
ListAskedAgain ==
  /\ spent.lists < MaxLists /\ spent' = [spent EXCEPT !.lists = @ + 1]
  /\ listing' = [asked |-> TRUE, answer |-> None]
  /\ UNCHANGED <<store, page, panel, op, chooser>>

Offered == {p \in Profile : panel.list[p] # None}

OpenCreate(d) ==
  /\ ~ panel.dialog /\ ~ Pending
  /\ panel' = [panel EXCEPT !.dialog = TRUE, !.editing = None, !.form = NewForm(d), !.test = Idle]
  /\ UNCHANGED <<store, page, op, listing, chooser, spent>>

OpenEdit(p) ==
  /\ ~ panel.dialog /\ ~ Pending /\ p \in Offered
  /\ panel' = [panel EXCEPT !.dialog = TRUE, !.editing = [id |-> p, details |-> panel.list[p]],
                            !.form = [id |-> p, details |-> panel.list[p]], !.test = Idle]
  /\ UNCHANGED <<store, page, op, listing, chooser, spent>>

CloseDialog ==
  /\ panel.dialog /\ ~ Pending
  /\ panel' = [panel EXCEPT !.dialog = FALSE]
  /\ UNCHANGED <<store, page, op, listing, chooser, spent>>

\* updateField: a changed form was not tested.
Changed(d) == panel' = [panel EXCEPT !.form.details = d, !.test = Idle]

\* The fields, disabled while an operation is under way.
EditForm(d) ==
  /\ panel.dialog /\ ~ Pending /\ d # panel.form.details
  /\ spent.forms < MaxForms /\ spent' = [spent EXCEPT !.forms = @ + 1]
  /\ Changed(d)
  /\ UNCHANGED <<store, page, op, listing, chooser>>

ChooseFile ==
  /\ panel.dialog /\ ~ Pending /\ ~ chooser
  /\ chooser' = TRUE
  /\ UNCHANGED <<store, page, panel, op, listing, spent>>

FileChosen(d) ==
  /\ chooser /\ chooser' = FALSE
  /\ spent.forms < MaxForms /\ spent' = [spent EXCEPT !.forms = @ + 1]
  /\ Changed(d)
  /\ UNCHANGED <<store, page, op, listing>>

-----------------------------------------------------------------------------
(* Operations                                                              *)

Begin(kind, target) ==
  /\ ~ Pending
  /\ spent.ops < MaxOps /\ spent' = [spent EXCEPT !.ops = @ + 1]
  /\ op' = [NoOp EXCEPT !.kind = kind, !.form = target]
  /\ UNCHANGED <<store, page, listing, chooser>>

\* mutant: a cancelled test never frees the panel
EndsUnlessAborted == IF op.aborted THEN op' = [op EXCEPT !.step = 9] ELSE op' = NoOp
\* The finally of every handler.
Ends == op' = NoOp

BeginTest ==
  /\ panel.dialog /\ Begin("test", panel.form)
  /\ panel' = [panel EXCEPT !.test = [Idle EXCEPT !.status = "testing", !.of = panel.form.details]]

TestProgress ==
  /\ op.kind = "test" /\ ~ op.aborted /\ panel.test.status = "testing" /\ panel.test.phase < 4
  /\ panel' = [panel EXCEPT !.test.phase = @ + 1, !.test.ssh = panel.test.phase >= 1]
  /\ UNCHANGED <<store, page, op, listing, chooser, spent>>

CancelTest ==
  /\ op.kind = "test" /\ ~ op.aborted
  /\ op' = [op EXCEPT !.aborted = TRUE]
  /\ UNCHANGED <<store, page, panel, listing, chooser, spent>>

\* mutant: a failure forgets how far the test had come
OutcomeForgetful(status) == [Idle EXCEPT !.status = status, !.of = panel.test.of]
\* The result replaces the state; a failure and a cancellation keep the progress of a test still shown.
Outcome(status) ==
  IF panel.test.status = "testing" THEN [panel.test EXCEPT !.status = status]
  ELSE [Idle EXCEPT !.status = status, !.of = op.form.details]

TestAnswered(passed) ==
  /\ op.kind = "test"
  /\ panel' = [panel EXCEPT !.test = IF op.aborted THEN Outcome("cancelled")
                                     ELSE IF passed THEN [Idle EXCEPT !.status = "success", !.of = op.form.details]
                                     ELSE Outcome("error")]
  /\ Ends
  /\ UNCHANGED <<store, page, listing, chooser, spent>>

LiveChange == panel.editing # None /\ panel.editing.details # panel.form.details

\* mutant: changed details are saved like a changed name
BeginSubmitUntested ==
  /\ panel.dialog
  /\ panel.editing = None => panel.test.status = "success"
  /\ Begin(IF panel.editing = None THEN "create" ELSE "rename", panel.form)
  /\ UNCHANGED panel

\* handleSubmit: a new source, changed details, or a name only.
BeginSubmit ==
  /\ panel.dialog
  /\ (panel.editing = None \/ LiveChange) => panel.test.status = "success"
  /\ Begin(IF panel.editing = None THEN "create" ELSE IF LiveChange THEN "verify" ELSE "rename", panel.form)
  /\ UNCHANGED panel

\* Verify & Refresh, offered for a form that is as it was saved.
BeginVerify ==
  /\ panel.dialog /\ panel.editing # None /\ ~ LiveChange /\ panel.test.status = "idle"
  /\ Begin("verify", panel.form)
  /\ UNCHANGED panel

\* pickSqlite: the chooser of a database file holds the panel until it is closed.
BeginPick ==
  /\ panel.dialog /\ Begin("pick", panel.form)
  /\ UNCHANGED panel

Picked(d) ==
  /\ op.kind = "pick" /\ (Changed(d) \/ UNCHANGED panel)
  /\ Ends
  /\ UNCHANGED <<store, page, listing, chooser, spent>>

\* An error ends the operation, and with it what the test had shown.  What was done before it stays done:
\* a new source that could not be captured is saved and listed, and the dialog still has the form of a new one.
OpFails ==
  /\ op.kind \in {"create", "verify", "rename", "delete", "open"}
  /\ op.step = 0 \/ (op.kind = "create" /\ op.step # 2)
  /\ \E status \in {"idle", "error"} :
       panel' = IF op.kind \in {"delete", "open"} THEN panel ELSE [panel EXCEPT !.test = [Idle EXCEPT !.status = status]]
  /\ Ends
  /\ UNCHANGED <<store, page, listing, chooser, spent>>

Close(p, d) == [panel EXCEPT !.list[p] = d, !.dialog = FALSE, !.form.id = p]

\* mutant: a new source is saved on the strength of the test that was shown
CreateTestedBefore(passed) ==
  /\ op.kind = "create" /\ op.step = 0
  /\ passed \in BOOLEAN
  /\ op' = [op EXCEPT !.step = 1, !.passed = panel.test.of = op.form.details]
  /\ UNCHANGED <<store, page, panel, listing, chooser, spent>>

\* The new source is tested once more, with the form that will be saved ...
CreateTested(passed) ==
  /\ op.kind = "create" /\ op.step = 0 /\ passed
  /\ op' = [op EXCEPT !.step = 1, !.passed = TRUE]
  /\ UNCHANGED <<store, page, panel, listing, chooser, spent>>

\* ... saved under a new id, and listed ...
CreateSaved(p) ==
  /\ op.kind = "create" /\ op.step = 1 /\ store[p] = Unused
  /\ store' = [store EXCEPT ![p] = [details |-> op.form.details,
                                    verified |-> IF op.passed THEN {op.form.details} ELSE {}]]
  /\ op' = [op EXCEPT !.step = 2, !.form.id = p]
  /\ UNCHANGED <<page, panel, listing, chooser, spent>>

CreateListed ==
  /\ op.kind = "create" /\ op.step = 2
  /\ panel' = [panel EXCEPT !.list[op.form.id] = op.form.details]
  /\ op' = [op EXCEPT !.step = 3]
  /\ UNCHANGED <<store, page, listing, chooser, spent>>

\* ... and captured, which closes the dialog.
CreateCaptured ==
  /\ op.kind = "create" /\ op.step = 3
  /\ page' = op.form.id
  /\ panel' = Close(op.form.id, op.form.details)
  /\ Ends
  /\ UNCHANGED <<store, listing, chooser, spent>>

\* The backend tests, captures and saves as one; a name is saved with the details the form was opened
\* with, which may be earlier ones when the list was read before they changed.
EditSaved ==
  /\ op.kind \in {"verify", "rename"} /\ op.step = 0 /\ op.form.id \in Saved
  /\ store' = [store EXCEPT ![op.form.id] =
                 [details |-> op.form.details,
                  verified |-> @.verified \cup IF op.kind = "verify" THEN {op.form.details} ELSE {}]]
  /\ op' = [op EXCEPT !.step = 1]
  /\ UNCHANGED <<page, panel, listing, chooser, spent>>

EditDelivered ==
  /\ op.kind \in {"verify", "rename"} /\ op.step = 1
  /\ panel' = Close(op.form.id, op.form.details)
  /\ page' = IF op.kind = "verify" THEN op.form.id ELSE page
  /\ Ends
  /\ UNCHANGED <<store, listing, chooser, spent>>

BeginOpen(p) ==
  /\ ~ panel.dialog /\ p \in Offered /\ p # page
  /\ Begin("open", [id |-> p, details |-> panel.list[p]])
  /\ UNCHANGED panel

Opened ==
  /\ op.kind = "open" /\ op.form.id \in Saved
  /\ page' = op.form.id
  /\ Ends
  /\ UNCHANGED <<store, panel, listing, chooser, spent>>

BeginDelete ==
  /\ panel.dialog /\ panel.editing # None
  /\ Begin("delete", panel.editing)
  /\ UNCHANGED panel

\* Credentials and data go first, then the list, the dialog and the workspace follow, and the next
\* source of the list is opened in place of one that was in use.
Deleted ==
  /\ op.kind = "delete" /\ op.step = 0
  /\ store' = [store EXCEPT ![op.form.id].details = None]
  /\ op' = [op EXCEPT !.step = 1]
  /\ UNCHANGED <<page, panel, listing, chooser, spent>>

\* mutant: the workspace keeps the deleted source
DeleteDeliveredKeeping ==
  /\ op.kind = "delete" /\ op.step = 1
  /\ panel' = [panel EXCEPT !.list[op.form.id] = None, !.dialog = FALSE, !.editing = None]
  /\ Ends
  /\ UNCHANGED <<store, page, listing, chooser, spent>>

DeleteDelivered ==
  /\ op.kind = "delete" /\ op.step = 1
  /\ panel' = [panel EXCEPT !.list[op.form.id] = None, !.dialog = FALSE, !.editing = None]
  /\ page' = IF page = op.form.id THEN None ELSE page
  /\ LET rest == Offered \ {op.form.id}
     IN  IF page = op.form.id /\ rest # {}
         THEN \E p \in rest : op' = [NoOp EXCEPT !.kind = "open", !.form = [id |-> p, details |-> panel.list[p]]]
         ELSE Ends
  /\ UNCHANGED <<store, listing, chooser, spent>>

-----------------------------------------------------------------------------
User ==
  \/ \E d \in Details : OpenCreate(d) \/ EditForm(d) \/ FileChosen(d)
  \/ \E p \in Profile : OpenEdit(p) \/ BeginOpen(p)
  \/ CloseDialog \/ ChooseFile \/ BeginTest \/ CancelTest \/ BeginSubmit \/ BeginVerify \/ BeginDelete \/ BeginPick

Answer ==
  \/ \E passed \in BOOLEAN : TestAnswered(passed) \/ CreateTested(passed)
  \/ \E p \in Profile : CreateSaved(p)
  \/ \E d \in Details : Picked(d)
  \/ CreateListed \/ CreateCaptured \/ EditSaved \/ EditDelivered \/ Opened \/ Deleted \/ DeleteDelivered \/ OpFails

Next == User \/ Answer \/ TestProgress \/ ListRead \/ ListDelivered \/ ListAskedAgain

Spec == Init /\ [][Next]_vars

-----------------------------------------------------------------------------
(* Properties                                                              *)

Form == [id : Profile \cup {None}, details : Details]

TypeOK ==
  /\ store \in [Profile -> [details : Details \cup {None}, verified : SUBSET Details]]
  /\ page \in Profile \cup {None} /\ panel.list \in [Profile -> Details \cup {None}]
  /\ panel.form \in Form /\ panel.editing \in Form \cup {None} /\ op.form \in Form \cup {None}
  /\ panel.test.phase \in Phases /\ panel.test.of \in Details \cup {None} /\ chooser \in BOOLEAN

\* No saved connection has details that a database did not answer to under its own id, although a file
\* chooser may change the form after it was tested, and a list read before a change may arrive after it
\* (ConnectionPanel.tsx 107-118, 177-262).
SavedIsVerified == \A p \in Saved : store[p].details \in store[p].verified

\* What a running test has shown as passed (tunnel, database) is not taken back by its failure or its
\* cancellation; only a change of the form or another test clears it (ConnectionTestStatus.tsx 29-60).
Passed(t) == (IF t.status = "success" \/ t.ssh THEN {"ssh"} ELSE {})
             \cup (IF t.status = "success" \/ t.phase = 4 THEN {"database"} ELSE {})
PassedIsKept ==
  [][(panel.test.status = "testing" /\ panel'.test.status \in {"testing", "error", "cancelled", "success"}
        /\ op.kind = "test") => Passed(panel.test) \subseteq Passed(panel'.test)]_vars

\* The workspace shows a saved source, or none, or the one being deleted.
PageIsSaved == page \in Saved \cup {None} \/ (op.kind = "delete" /\ op.form.id = page)

\* What the panel comes back to: every operation ends, and frees it for the next one.
Settled == ~ Pending
=============================================================================

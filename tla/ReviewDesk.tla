------------------------------ MODULE ReviewDesk ------------------------------
(***************************************************************************)
(* The page of the change review: ChangeReviewWorkspace.tsx.  It shows one *)
(* page of the items of a revision, asks again every ten seconds and after *)
(* every change of the view, and applies one decision at a time, which may *)
(* be sent again when its answer is lost.  What the backend decides is     *)
(* ChangeReview; here a revision is a number, and each revision has its    *)
(* open items and, in the history of the decisions, the archived ones that *)
(* can be restored.                                                        *)
(***************************************************************************)
EXTENDS Naturals, FiniteSets

CONSTANTS Page,      \* pages: the first of a view, and those behind a cursor
          Home,      \* the first page of the view of a page
          Batched,   \* pages of the structure changes, which are marked in batches
          OpenItems,    \* the open items of a page in a revision
          Archived,     \* the items whose archive a page of the history shows as restorable
          None,
          MaxRevision, MaxSteps, MaxCalls

VARIABLES server,   \* the revision in force
          view,     \* the page asked for
          shown,    \* revision and page of the data, or None
          checked, drafts,
          preview,  \* the decision prepared, or None; saved: the revision the backend last answered
                    \* it with, or Nobody
          calls,    \* reloads on their way: page, revision read, whether a later epoch began
          working,  \* "no", "sent", "decided" until the answer, "tell" while the model is refreshed
          steps

vars == <<server, view, shown, checked, drafts, preview, calls, working, steps>>

Nobody == 0
CurrentPage == shown # None /\ shown.page = view
Visible == IF CurrentPage THEN OpenItems[<<shown.revision, shown.page>>] ELSE {}
\* Descriptions, relationships, domains and views are on the pages that are not marked in batches.
Described == IF view \in Batched THEN {} ELSE Visible
Restorable == IF CurrentPage THEN Archived[<<shown.revision, shown.page>>] ELSE {}
Items == UNION {OpenItems[<<r, p>>] \cup Archived[<<r, p>>] : r \in 1..MaxRevision, p \in Page}

User == steps < MaxSteps /\ steps' = steps + 1
Free == preview = None  \* the dialog of a decision is modal
Busy == working # "no"
First == {p \in Page : Home[p] = p}

Init ==
  /\ server = 1 /\ view \in First /\ shown = None
  /\ checked = {} /\ drafts = {} /\ preview = None
  /\ calls = {} /\ working = "no" /\ steps = 0

-----------------------------------------------------------------------------
(* Reading                                                                 *)

\* mutant
EpochKept == calls
\* ++requestEpoch: what is on its way is out of date.
Outdated == {[c EXCEPT !.old = TRUE] : c \in calls}

\* reload: asked by the user, by the timer, by a change of the view or of the snapshot; not while a
\* decision is being applied.
Asked(p) == Outdated \cup {[page |-> p, revision |-> Nobody, old |-> FALSE]}
ReloadPage ==
  /\ working = "no" /\ Cardinality(calls) < MaxCalls
  /\ calls' = Asked(view)
  /\ UNCHANGED <<server, view, shown, checked, drafts, preview, working, steps>>

\* page_workspace: a cursor holds for the revision it was given in, which is the one shown.
Expired(c) == c.page \notin First /\ server # shown.revision

\* The backend reads the review.  What it finds for a call that is out of date makes no difference.
Read(c) ==
  /\ c \in calls /\ c.revision = Nobody /\ (c.old \/ ~Expired(c))
  /\ calls' = (calls \ {c}) \cup {[c EXCEPT !.revision = server]}
  /\ UNCHANGED <<server, view, shown, checked, drafts, preview, working, steps>>

\* mutant
Anyone(c) == TRUE
IsLast(c) == ~c.old

\* mutant
SelectionKept(revision) == checked
\* A selection does not outlive its revision.
SelectionOf(revision) == IF shown # None /\ shown.revision = revision THEN checked ELSE {}

Arrives ==
  /\ \E c \in {c \in calls : c.revision # Nobody /\ IsLast(c)} :
       /\ calls' = calls \ {c}
       /\ shown' = [revision |-> c.revision, page |-> c.page]
       /\ checked' = SelectionOf(c.revision)
  /\ UNCHANGED <<server, view, drafts, preview, working, steps>>

Ignored ==
  /\ \E c \in {c \in calls : c.revision # Nobody /\ ~IsLast(c)} : calls' = calls \ {c}
  /\ UNCHANGED <<server, view, shown, checked, drafts, preview, working, steps>>

\* The read fails.
Fails ==
  /\ \E c \in calls : calls' = calls \ {c}
  /\ UNCHANGED <<server, view, shown, checked, drafts, preview, working, steps>>

\* A page of a revision that is gone leads back to the first one, which is asked for.
Expires ==
  /\ \E c \in {c \in calls : c.revision = Nobody /\ IsLast(c) /\ Expired(c)} :
       /\ view' = Home[view] /\ checked' = {}
       /\ calls' = (Asked(view') \ {[c EXCEPT !.old = TRUE]})
  /\ UNCHANGED <<server, shown, drafts, preview, working, steps>>

-----------------------------------------------------------------------------
(* The page                                                                *)

\* changeTab, the search, the next and the previous page: the page is asked for, unless the answer to
\* a decision is being told.
Turn ==
  /\ Free /\ User
  /\ \E p \in Page \ {view} :
       /\ p \notin First => ~Busy /\ CurrentPage /\ Home[p] = Home[view]
       /\ view' = p /\ checked' = {}
       /\ IF Busy THEN calls' = calls ELSE Cardinality(calls) < MaxCalls /\ calls' = Asked(p)
  /\ UNCHANGED <<server, shown, drafts, preview, working>>

Check ==
  /\ Free /\ ~Busy /\ view \in Batched /\ User
  /\ \E i \in Visible : checked' \in {checked \cup {i}, checked \ {i}, Visible, {}}
  /\ UNCHANGED <<server, view, shown, drafts, preview, calls, working>>

Draft ==
  /\ Free /\ User
  /\ \E i \in Described : drafts' = drafts \cup {i}
  /\ UNCHANGED <<server, view, shown, checked, preview, calls, working>>

\* prepare: the revision and the items as they are now, with the titles of those on the page.  What is
\* said of defer holds of seen, disable and acceptLimitation, of restart also of start and complete.
Decision(a, items, named) == [action |-> a, revision |-> shown.revision, items |-> items, named |-> named, saved |-> Nobody]
Prepare ==
  /\ Free /\ ~Busy /\ shown # None /\ User
  /\ \/ /\ view \in Batched /\ CurrentPage /\ checked # {}
        /\ preview' = Decision("seenBatch", checked, Visible \cap checked)
     \/ \E i \in Described, a \in {"archive", "confirm"} : preview' = Decision(a, {i}, {i})
     \/ \E i \in Visible : preview' = Decision("defer", {i}, {i})
     \/ preview' = Decision("restart", {}, {})
  /\ UNCHANGED <<server, view, shown, checked, drafts, calls, working>>

\* restore: an archive of the history shown.
Restore ==
  /\ Free /\ ~Busy /\ User
  /\ \E i \in Restorable : preview' = Decision("restore", {i}, {i})
  /\ UNCHANGED <<server, view, shown, checked, drafts, calls, working>>

Cancel ==
  /\ preview # None /\ ~Busy /\ User /\ preview' = None
  /\ UNCHANGED <<server, view, shown, checked, drafts, calls, working>>

\* apply: refused in the dialog once the data shown is of another revision.
Apply ==
  /\ preview # None /\ working = "no" /\ preview.revision = shown.revision /\ User
  /\ working' = "sent" /\ calls' = Outdated
  /\ UNCHANGED <<server, view, shown, checked, drafts, preview>>

\* mutant: a decision of the earlier revision is carried out.
Due == preview.saved = Nobody /\ server < MaxRevision
Fitting == preview.saved = Nobody /\ server = preview.revision /\ server < MaxRevision

\* apply_change_review: a decision of the revision in force is carried out; one already carried out is
\* answered with the review as it is, and nothing more is done.
Decide ==
  /\ working = "sent"
  /\ \/ Fitting /\ server' = server + 1
     \/ preview.saved # Nobody /\ server' = server
  /\ preview' = [preview EXCEPT !.saved = server'] /\ working' = "decided"
  /\ UNCHANGED <<view, shown, checked, drafts, calls, steps>>

\* mutant: as before archives could be restored.
TakenBefore == IF preview.action \in {"archive", "confirm"} THEN preview.items ELSE {}
\* The items whose text is settled: their drafts go.  An archive is looked up in the history shown.
Taken ==
  IF preview.action \in {"archive", "confirm"} THEN preview.items
  ELSE IF preview.action = "restore" THEN preview.items \cap Archived[<<shown.revision, shown.page>>] ELSE {}

\* The answer holds the revision it was given in.
Applied ==
  /\ working = "decided" /\ working' = "tell"
  /\ shown' = [revision |-> preview.saved, page |-> Home[view]] /\ view' = Home[view] /\ checked' = {}
  /\ drafts' = drafts \ Taken
  /\ preview' = None /\ calls' = Outdated
  /\ UNCHANGED <<server, steps>>

\* mutant
ToldFails ==
  /\ working = "tell" /\ UNCHANGED vars

\* onChanged has told the model, or could not.
Told ==
  /\ working = "tell" /\ working' = "no"
  /\ UNCHANGED <<server, view, shown, checked, drafts, preview, calls, steps>>

\* The decision is refused, or its answer is lost: the dialog stays, and may send it again.
Refused ==
  /\ working \in {"sent", "decided"} /\ working' = "no"
  /\ UNCHANGED <<server, view, shown, checked, drafts, preview, calls, steps>>

\* A capture, or another window.
Elsewhere ==
  /\ server < MaxRevision /\ server' = server + 1
  /\ UNCHANGED <<view, shown, checked, drafts, preview, calls, working, steps>>

Next ==
  \/ ReloadPage \/ (\E c \in calls : Read(c)) \/ Arrives \/ Ignored \/ Fails \/ Expires \/ Turn \/ Check \/ Draft \/ Prepare \/ Restore
  \/ Cancel \/ Apply \/ Decide \/ Applied \/ Told \/ Refused \/ Elsewhere

Spec == Init /\ [][Next]_vars

-----------------------------------------------------------------------------
TypeOK ==
  /\ server \in 1..MaxRevision /\ view \in Page
  /\ shown # None => shown \in [revision : 1..server, page : Page]
  /\ checked \subseteq Items /\ drafts \subseteq Items
  /\ working \in {"no", "sent", "decided", "tell"}
  /\ \A c \in calls : c.old \in BOOLEAN /\ c.page \in Page /\ c.revision \in {Nobody} \cup (1..server)
  /\ preview # None => preview.revision \in 1..server /\ preview.items \subseteq Items /\ preview.saved \in {Nobody} \cup (1..server)

\* A batch marks as seen what its dialog names: items of one page, as that revision shows them.
BatchIsNamed ==
  /\ preview # None => preview.named = preview.items
  /\ CurrentPage => checked \subseteq Visible

\* A decision is carried out once, in the revision its dialog showed, however often it is sent.  The page
\* never goes back to an older revision.  A draft goes only when its own item was confirmed, archived or
\* restored, the backend has saved it and its answer has come; and with that answer it does go.
DeskGoesForward ==
  [][/\ working = "sent" /\ working' = "decided" =>
          IF preview.saved = Nobody THEN preview.revision = server /\ server' = server + 1 ELSE server' = server
     /\ shown # None => shown'.revision >= shown.revision
     /\ drafts \ drafts' # {} => drafts \ drafts' = preview.items
     /\ drafts \ drafts' # {} \/ (working = "decided" /\ preview' = None /\ preview.action \in {"archive", "confirm", "restore"}) =>
          /\ working = "decided" /\ preview.saved # Nobody /\ preview.action \in {"archive", "confirm", "restore"}
          /\ drafts' \cap preview.items = {}]_vars

\* The page asked for is the page shown, and no decision is under way.
Settled == CurrentPage /\ working = "no"
=============================================================================

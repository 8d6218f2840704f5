------------------------------ MODULE Workspace ------------------------------
(***************************************************************************)
(* The workspace of App.tsx: which snapshot is on the page, which          *)
(* statements about its source are shown beside it, and which saved view   *)
(* narrows it.  A handler runs to its next await in one step, with the     *)
(* rendering and the effects that its state changes cause; between two     *)
(* steps of one handler anything else may happen.  A handler goes on with  *)
(* the values of the rendering it was created in (its closure), which the  *)
(* record of the request keeps.                                            *)
(*                                                                         *)
(* Statements are of two sorts.  `notes` are written and then read again   *)
(* with the whole bundle (annotations, relationships, batches, reviews);   *)
(* `views` stand for the lists that a handler patches from the answer to   *)
(* its own write (views, groups, ignored inferences, layouts).             *)
(***************************************************************************)
EXTENDS Naturals, FiniteSets

CONSTANTS Source,      \* data sources
          View,        \* ids of saved views
          None, Domain,\* nothing; the view derived from a group
          MaxCaptures, \* snapshots of one source
          MaxSessions, \* snapshots put on the page
          MaxWrites,   \* writes sent
          MaxReads,    \* readings of the bundle
          MaxFetches,  \* snapshots on their way to the page at once
          Reload, Patch\* which of the two sorts of write the instance sends

ASSUME NothingIsApart == None \notin Source \cup View \cup {Domain} /\ Domain \notin View
ASSUME NothingIsNoRecord ==
  /\ None \notin [source : Source, id : Nat] /\ None \notin [notes : Nat, latest : Nat]
  /\ None \notin [source : Source, name : View \cup {Domain}]
  /\ None \notin [source : Source, view : {None} \cup [source : Source, name : View \cup {Domain}]]
  /\ None \notin [source : Source \cup {None}, notes : Nat, views : SUBSET View,
                  knowledge : {None} \cup [notes : Nat, latest : Nat]]
  /\ None \notin [from : Source \cup {None}, preview : BOOLEAN,
                  view : {None} \cup [source : Source, name : View \cup {Domain}]]
ASSUME SortsAreChosen == Reload \in BOOLEAN /\ Patch \in BOOLEAN

VARIABLES store,   \* the backend: for each source its newest snapshot, its notes and its views
          page,    \* what App holds: snapshot, preview, view, remembered, preferred, shown
          session, \* number of the snapshot object on the page; 0 before the first
          request, \* semanticRequest.current
          reads,   \* readings of the bundle under way
          writes,  \* writes under way
          fetches, \* whatever will put another snapshot on the page
          acked,   \* the newest write to the notes of each source of whose success the page knows
          spent    \* writes sent so far

vars == <<store, page, session, request, reads, writes, fetches, acked, spent>>

Nothing == [source |-> None, notes |-> 0, views |-> {}, knowledge |-> None]

\* The bundle getSemantics answers with, and the statuses it derives from the newest structure.
Bundle(s) == [source |-> s, notes |-> store[s].notes, views |-> store[s].views,
              knowledge |-> [notes |-> store[s].notes, latest |-> store[s].latest]]

SourceOf(p) == IF p.snapshot = None THEN None ELSE p.snapshot.source
Closure == [from |-> SourceOf(page), preview |-> page.preview, view |-> page.view]

ViewName(w) == IF w = None THEN None ELSE w.name

Fetch(kind, s, id) ==
  [kind |-> kind, source |-> s, id |-> id, current |-> TRUE,
   closure |-> IF kind = "return" THEN None ELSE Closure, session |-> IF kind = "return" THEN session ELSE 0]

Init ==
  /\ store = [s \in Source |-> [latest |-> 1, notes |-> 0, views |-> {}]]
  /\ page = [snapshot |-> None, preview |-> FALSE, view |-> None, remembered |-> None,
             left |-> None, preferred |-> [s \in Source |-> None], shown |-> Nothing, shownFor |-> 0, settled |-> 0]
  /\ session = 0 /\ request = 0 /\ reads = {} /\ writes = {}
  /\ fetches \in {{}} \cup {{Fetch("startup", s, 0)} : s \in Source}  \* the last workspace, if any, is reopened
  /\ acked = [s \in Source |-> 0] /\ spent = 0

-----------------------------------------------------------------------------
(* Putting a snapshot on the page                                          *)

Reading(n, r, s) == [session |-> n, request |-> r, source |-> s, preview |-> page.preview, answer |-> None]

\* setSnapshot and the effects of a new snapshot object: a new session, and the reading of its bundle.
Show(p) ==
  /\ session < MaxSessions
  /\ request < MaxReads
  /\ session' = session + 1
  /\ page' = p
  /\ request' = request + 1
  /\ reads' = reads \cup {[Reading(session + 1, request + 1, SourceOf(p)) EXCEPT !.preview = p.preview]}

\* A refresh belongs to its source and a reading of the history to the snapshot it was begun on:
\* leaving them makes it somebody else's, for good.
Scoped(fs, s, id) ==
  {[f EXCEPT !.current = @ /\ (f.kind = "refresh" => s = SourceOf(page))
                           /\ (f.kind = "history" => [source |-> s, id |-> id] = page.snapshot)] : f \in fs}

\* mutant: the view is kept whatever source is opened
CapturedWithView(c, s, id) ==
  [page EXCEPT !.snapshot = [source |-> s, id |-> id], !.preview = FALSE,
               !.remembered = [source |-> s, view |-> IF c.from = s THEN c.view ELSE None]]

\* handleCapture with the values of the rendering it was created in.
Captured(c, s, id) ==
  LET same == c.from = s
      view == IF ~ same THEN None
              ELSE IF c.preview THEN (IF page.remembered = None THEN None ELSE page.remembered.view)
              ELSE page.view
      keep == IF ~ same THEN None
              ELSE IF c.preview THEN (IF page.remembered = None THEN None ELSE page.remembered.view)
              ELSE c.view
  IN  [page EXCEPT !.snapshot = [source |-> s, id |-> id], !.preview = FALSE, !.view = view,
                   !.remembered = [source |-> s, view |-> keep]]

\* rememberLatestWorkspace of that rendering.
Remembered(c) ==
  IF c.from # None /\ ~ c.preview THEN [source |-> c.from, view |-> c.view] ELSE page.remembered

\* The panel's `pending` allows one opening at a time; it begins by listing the snapshots.
Opening == {f \in fetches : f.kind \in {"open", "startup"}}
Room == Cardinality(fetches) < MaxFetches

BeginOpen(s) ==
  /\ Opening \cap {f \in fetches : f.kind = "open"} = {}
  /\ s # SourceOf(page)
  /\ Room
  /\ fetches' = {f \in fetches : f.kind # "startup"} \cup {Fetch("open", s, 0)}
  /\ UNCHANGED <<store, page, session, request, reads, writes, acked, spent>>

\* The listing answers; a source without snapshots ends the attempt with an error.
Listed(f) ==
  /\ f.kind \in {"open", "startup", "return"} /\ f.id = 0
  /\ fetches' = (fetches \ {f}) \cup
       (IF store[f.source].latest = 0 THEN {} ELSE {[f EXCEPT !.id = store[f.source].latest]})
  /\ UNCHANGED <<store, page, session, request, reads, writes, acked, spent>>

\* Begin to read an older snapshot, on its own or as the target of a comparison.
BeginHistory(id) ==
  /\ page.snapshot # None
  /\ ~ \E f \in fetches : f.kind = "history" /\ f.current
  /\ id \in 1..store[SourceOf(page)].latest
  /\ Room
  /\ fetches' = fetches \cup {Fetch("history", SourceOf(page), id)}
  /\ UNCHANGED <<store, page, session, request, reads, writes, acked, spent>>

BeginReturn ==
  /\ page.snapshot # None /\ page.preview
  /\ ~ \E f \in fetches : f.kind = "return"
  /\ Room
  /\ fetches' = fetches \cup {Fetch("return", SourceOf(page), 0)}
  /\ UNCHANGED <<store, page, session, request, reads, writes, acked, spent>>

\* refreshActive, by hand or by the timer; one at a time in a scope.
BeginRefresh ==
  /\ page.snapshot # None
  /\ ~ \E f \in fetches : f.kind = "refresh" /\ f.current
  /\ Room
  /\ fetches' = fetches \cup {Fetch("refresh", SourceOf(page), 0)}
  /\ UNCHANGED <<store, page, session, request, reads, writes, acked, spent>>

\* The backend stores a snapshot, or finds the structure unchanged and stores none.  The reopening
\* of a source that connects by itself is such a capture too.
RefreshCaptured(f) ==
  /\ f.kind \in {"refresh", "startup"} /\ f.id = 0
  /\ \/ /\ store[f.source].latest \in 1..(MaxCaptures - 1)
        /\ store' = [store EXCEPT ![f.source].latest = @ + 1]
        /\ fetches' = (fetches \ {f}) \cup {[f EXCEPT !.id = store'[f.source].latest]}
     \/ f.kind = "refresh" /\ fetches' = fetches \ {f} /\ UNCHANGED store
  /\ UNCHANGED <<page, session, request, reads, writes, acked, spent>>

\* The answer arrives.  Each kind has its own test for being out of date, an opening has none.
Current(f) ==
  CASE f.kind \in {"open", "startup"} -> TRUE
    [] f.kind \in {"refresh", "history"} -> f.current
    [] OTHER -> f.session = session

Shown(f) ==
  CASE f.kind \in {"open", "startup", "refresh"} -> Captured(f.closure, f.source, f.id)
    [] f.kind = "history" ->
         [page EXCEPT !.snapshot = [source |-> f.source, id |-> f.id], !.preview = TRUE,
                      !.left = IF page.preview THEN @ ELSE page.view,
                      !.view = None, !.remembered = Remembered(f.closure)]
    [] OTHER ->
         [page EXCEPT !.snapshot = [source |-> f.source, id |-> f.id], !.preview = FALSE,
                      !.view = IF page.remembered # None /\ page.remembered.source = f.source
                               THEN page.remembered.view ELSE None]

Arrive(f) ==
  /\ f.id # 0
  /\ IF Current(f)
     THEN /\ Show(Shown(f))
          /\ fetches' = Scoped({g \in fetches \ {f} : g.kind # "startup"}, f.source, f.id)
     ELSE fetches' = fetches \ {f} /\ UNCHANGED <<page, session, request, reads>>
  /\ UNCHANGED <<store, writes, acked, spent>>

\* Any of them may fail, which leaves the page as it is.
FetchFails(f) ==
  /\ fetches' = fetches \ {f}
  /\ UNCHANGED <<store, page, session, request, reads, writes, acked, spent>>

\* Deleting the source on the page empties the workspace; the panel then opens another source.
DeleteSource(s) ==
  /\ store[s].latest # 0 /\ Opening = {}
  /\ ~ \E w \in writes : w.source = s
  /\ store' = [store EXCEPT ![s] = [latest |-> 0, notes |-> @.notes, views |-> {}]]
  /\ IF SourceOf(page) # s THEN UNCHANGED <<page, session, fetches>>
     ELSE /\ session < MaxSessions
          /\ session' = session + 1
          /\ page' = [page EXCEPT !.snapshot = None, !.view = None, !.shown = Nothing]
          /\ \E t \in Source \ {s} : fetches' = Scoped(fetches, None, 0) \cup {Fetch("open", t, 0)}
  /\ UNCHANGED <<request, reads, writes, acked, spent>>

-----------------------------------------------------------------------------
(* Reading and writing what is known about the source                      *)

\* loadSemantics: the bundle is read when the backend answers.
Answered(r) ==
  /\ r.answer = None
  /\ reads' = (reads \ {r}) \cup {[r EXCEPT !.answer = Bundle(r.source)]}
  /\ UNCHANGED <<store, page, session, request, writes, fetches, acked, spent>>

\* mutant: every answer is taken
AnyAnswer(r) == r.answer # None \/ r.session > 0
\* mutant: answers of one session are not ordered
OfSession(r) == r.session = session
IsCurrent(r) == r.session = session /\ r.request = request

\* The view that fits the bundle: a group's view stays, else the view in use or the last one chosen.
Preferred(bundle) ==
  IF page.view # None /\ page.view = [source |-> bundle.source, name |-> Domain] THEN page.view
  ELSE LET wanted == IF page.view # None /\ page.view.source = bundle.source THEN page.view.name
                     ELSE page.preferred[bundle.source]
       IN  IF wanted \in bundle.views THEN [source |-> bundle.source, name |-> wanted] ELSE None

Loaded(r) ==
  /\ r.answer # None
  /\ reads' = reads \ {r}
  /\ page' = IF ~ IsCurrent(r) THEN page
             ELSE [page EXCEPT !.shown = r.answer, !.shownFor = session, !.settled = session,
                               !.view = IF r.preview THEN @ ELSE Preferred(r.answer)]
  /\ UNCHANGED <<store, session, request, writes, fetches, acked, spent>>

\* mutant: the failure is not noticed by what waits for the statements
LoadFailsSilently(r) ==
  /\ reads' = reads \ {r}
  /\ page' = IF ~ IsCurrent(r) THEN page ELSE [page EXCEPT !.shown = Nothing, !.shownFor = 0]
  /\ UNCHANGED <<store, session, request, writes, fetches, acked, spent>>

\* A failed reading leaves nothing that could pass for the statements of this source.
LoadFails(r) ==
  /\ reads' = reads \ {r}
  /\ page' = IF ~ IsCurrent(r) THEN page
             ELSE [page EXCEPT !.shown = Nothing, !.shownFor = 0, !.settled = session]
  /\ UNCHANGED <<store, session, request, writes, fetches, acked, spent>>

\* mutant: the statuses stay until the new ones are read
ReloadingKept(s) ==
  IF SourceOf(page) # s THEN UNCHANGED <<page, request, reads>>
  ELSE /\ request < MaxReads
       /\ request' = request + 1
       /\ reads' = reads \cup {Reading(session, request + 1, s)}
       /\ UNCHANGED page

\* refreshSemantics in the rendering of source s: statuses are withdrawn, then the bundle is read again.
Reloading(s) ==
  IF SourceOf(page) # s THEN UNCHANGED <<page, request, reads>>
  ELSE /\ request < MaxReads
       /\ page' = [page EXCEPT !.shown.knowledge = None]
       /\ request' = request + 1
       /\ reads' = reads \cup {Reading(session, request + 1, s)}

Write(kind, name) ==
  [kind |-> kind, name |-> name, source |-> SourceOf(page), id |-> page.snapshot.id, session |-> session,
   view |-> page.view, listed |-> IF page.shownFor = session THEN page.shown.views ELSE {}, done |-> 0]

Send(w) ==
  /\ page.snapshot # None
  /\ spent < MaxWrites
  /\ spent' = spent + 1
  /\ writes' = writes \cup {w}
  /\ UNCHANGED <<store, page, session, request, reads, fetches, acked>>

SaveNote == page.snapshot # None /\ Reload /\ Send(Write("note", spent))

\* The toolbar of the canvas waits for its own write as long as snapshot and view stay, and for the
\* list to be loaded; the inspector waits for its own write only.
Latest == Patch /\ page.snapshot # None /\ ~ page.preview
ToolbarIdle == /\ Latest /\ page.shownFor = session
               /\ ~ \E w \in writes : w.kind \in {"save", "delete"} /\ w.session = session /\ w.view = page.view
SaveView(v) == ToolbarIdle /\ v \notin page.shown.views /\ Send(Write("save", v))
DeleteView(v) == ToolbarIdle /\ page.view = [source |-> SourceOf(page), name |-> v] /\ v \in page.shown.views
                 /\ Send(Write("delete", v))
CreateView(v) ==
  /\ Latest /\ ~ \E w \in writes : w.kind = "create"
  /\ v \notin page.shown.views
  /\ Send(Write("create", v))

\* What a write leaves of its source.
Written(old, w) ==
  CASE w.kind = "note" -> [old EXCEPT !.notes = @ + 1]
    [] w.kind = "delete" -> [old EXCEPT !.views = @ \ {w.name}]
    [] OTHER -> [old EXCEPT !.views = @ \cup {w.name}]

\* The backend commits; views are refused when the page's snapshot is no longer the newest.
Committed(w) ==
  /\ w.done = 0 /\ store[w.source].latest # 0
  /\ w.kind # "note" => w.id = store[w.source].latest
  /\ store' = [store EXCEPT ![w.source] = Written(@, w)]
  /\ writes' = (writes \ {w}) \cup
               {[w EXCEPT !.done = IF w.kind = "note" THEN store'[w.source].notes ELSE 1]}
  /\ UNCHANGED <<page, session, request, reads, fetches, acked, spent>>

WriteFails(w) ==
  /\ w.done = 0
  /\ writes' = writes \ {w}
  /\ UNCHANGED <<store, page, session, request, reads, fetches, acked, spent>>

NoteSaved(w) ==
  /\ w.done # 0 /\ w.kind = "note"
  /\ writes' = writes \ {w}
  /\ Reloading(w.source)
  /\ acked' = [acked EXCEPT ![w.source] = IF w.done > @ THEN w.done ELSE @]
  /\ UNCHANGED <<store, session, fetches, spent>>

\* The list a handler leaves: the canvas edits the list on the page, the inspector (changeSemantics)
\* replaces it by the list of its own rendering.
Patched(w) ==
  CASE w.kind = "save" -> page.shown.views \cup {w.name}
    [] w.kind = "create" -> w.listed \cup {w.name}
    [] OTHER -> page.shown.views \ {w.name}

ListPatched(w) ==
  /\ w.done # 0 /\ w.kind # "note"
  /\ writes' = writes \ {w}
  /\ page' = IF w.session # session THEN page
             ELSE [page EXCEPT !.shown.views = Patched(w),
                               !.view = IF w.kind = "delete" THEN None
                                        ELSE [source |-> w.source, name |-> w.name],
                               !.preferred[w.source] = IF w.kind = "delete" THEN None ELSE w.name]
  /\ UNCHANGED <<store, session, request, reads, fetches, acked, spent>>

\* mutant: a group is remembered like a saved view
ApplyAnyView(w) ==
  /\ page.snapshot # None /\ w # page.view
  /\ w # None => page.shownFor = session
  /\ page' = [page EXCEPT !.view = w, !.preferred[SourceOf(page)] = IF w # None THEN w.name ELSE None]
  /\ UNCHANGED <<store, session, request, reads, writes, fetches, acked, spent>>

\* applyView, from the sidebar, the canvas or a group; the inspector offers it in a preview too.
ApplyView(w) ==
  /\ page.snapshot # None /\ w # page.view
  /\ w # None => page.shownFor = session
  /\ page' = [page EXCEPT !.view = w,
                          !.preferred[SourceOf(page)] =
                             IF w # None /\ w.name # Domain THEN w.name ELSE None]
  /\ UNCHANGED <<store, session, request, reads, writes, fetches, acked, spent>>

Views == {None} \cup [source : {SourceOf(page)}, name : page.shown.views \cup {Domain}]

-----------------------------------------------------------------------------
Navigate ==
  \/ \E s \in Source : BeginOpen(s) \/ DeleteSource(s)
  \/ \E id \in 1..MaxCaptures : BeginHistory(id)
  \/ BeginReturn
  \/ BeginRefresh

Edit ==
  \/ SaveNote
  \/ \E v \in View : SaveView(v) \/ CreateView(v) \/ DeleteView(v)
  \/ Patch /\ \E w \in Views : ApplyView(w)

\* Answers of the backend, and their arrival on the page.
Answer ==
  \/ \E f \in fetches : Listed(f) \/ RefreshCaptured(f) \/ Arrive(f)
  \/ \E r \in reads : Answered(r) \/ Loaded(r)
  \/ \E w \in writes : Committed(w) \/ NoteSaved(w) \/ ListPatched(w)

Failure ==
  \/ \E f \in fetches : FetchFails(f)
  \/ \E r \in reads : LoadFails(r)
  \/ \E w \in writes : WriteFails(w)

Next == Navigate \/ Edit \/ Answer \/ Failure

Spec == Init /\ [][Next]_vars

\* A reading is answered, and its answer delivered, as long as the program runs.
Deliver == \E r \in reads : Answered(r) \/ Loaded(r)

-----------------------------------------------------------------------------
(* Properties                                                              *)

Position == [source : Source, id : 1..MaxCaptures]
ViewOf == [source : Source, name : View \cup {Domain}]
BundleType == [source : Source \cup {None}, notes : Nat, views : SUBSET View,
               knowledge : {None} \cup [notes : Nat, latest : Nat]]

TypeOK ==
  /\ store \in [Source -> [latest : 0..MaxCaptures, notes : 0..MaxWrites, views : SUBSET View]]
  /\ page.snapshot \in Position \cup {None} /\ page.preview \in BOOLEAN
  /\ {page.view, page.left} \subseteq ViewOf \cup {None} /\ page.preferred \in [Source -> View \cup {None}]
  /\ page.remembered \in {None} \cup [source : Source, view : ViewOf \cup {None}]
  /\ page.shown \in BundleType /\ {page.shownFor, page.settled} \subseteq 0..session
  /\ session \in 0..MaxSessions /\ request \in 0..MaxReads
  /\ acked \in [Source -> 0..MaxWrites] /\ spent \in 0..MaxWrites

\* What the page presents as the statements of its snapshot (semanticsSnapshot === snapshot) was read
\* for that snapshot's source, and the view that narrows it is one of that source, whatever answers of
\* earlier sources arrive in whatever order (App.tsx 299-327, 343-371, 837-847).
ShownBelongs ==
  page.snapshot # None =>
    /\ page.shownFor = session => page.shown.source = SourceOf(page)
    /\ page.view # None => page.view.source = SourceOf(page)

\* A status of understanding is presented only if it was derived after every note of whose success the
\* page knows, and from a structure at least as new as the snapshot on the page: committed writes
\* withdraw the statuses until a later reading brings new ones (App.tsx 333-340).
KnowledgeIsCurrent ==
  (page.snapshot # None /\ page.shownFor = session /\ page.shown.knowledge # None) =>
    /\ page.shown.knowledge.notes >= acked[SourceOf(page)]
    /\ page.shown.knowledge.latest >= page.snapshot.id

\* Once nothing is under way, the notes on the page are those of the store: no answer that was
\* overtaken by a later one is left standing.
NotesConverge ==
  (reads = {} /\ writes = {} /\ page.snapshot # None /\ page.shownFor = session) =>
    page.shown.notes = store[SourceOf(page)].notes

\* The page ends on the newest of what was read and written: neither an overtaken answer nor one read
\* before the last write is left standing (App.tsx 333-340).
AnswersConverge == KnowledgeIsCurrent /\ NotesConverge

\* What the page comes back to: every snapshot put on it gets the statements of its source, or the news that they are
\* unavailable, unless another one takes its place: the canvas waits for semanticsSettledSnapshot.
Settled == page.snapshot = None \/ page.settled = session
=============================================================================

----------------------------- MODULE Navigation -----------------------------
(***************************************************************************)
(* Where the user is in the model (App.tsx): the mode of the page and what *)
(* covers its diagram, the table the inspector shows, the filters of the   *)
(* diagram, and the jump to a table, which waits until the diagram shows   *)
(* it (SchemaCanvas.tsx).  The answers that bring snapshots and readings   *)
(* are single steps here; their order and closures are in Workspace.       *)
(***************************************************************************)
EXTENDS Naturals

CONSTANTS Source, Snapshot, Table, None,
          Home, Tables,  \* the source and the tables of a snapshot
          MaxActs        \* what the user does

VARIABLES page,    \* the state of App
          canvas,  \* the state of the mounted SchemaCanvas
          latest,  \* the newest snapshot of each source
          last,    \* localStorage: a saved view of the source is remembered
          acts

vars == <<page, canvas, latest, last, acts>>

Untouched == [focus |-> None, seen |-> 0, handled |-> 0, laid |-> FALSE]

Init ==
  /\ page = [snap |-> None, session |-> 0, preview |-> FALSE, before |-> None, mode |-> "explore",
             review |-> TRUE, list |-> TRUE, preflight |-> FALSE, document |-> 0, discovery |-> 0,
             search |-> FALSE, view |-> "none", selected |-> None, column |-> FALSE, jump |-> None, jumps |-> 0,
             read |-> "no", kept |-> [snap |-> None, view |-> "none"]]
  /\ canvas = Untouched /\ latest = [s \in Source |-> None] /\ last = [s \in Source |-> FALSE] /\ acts = 0

\* The branch of the main area: no diagram, that of the model, or that of a comparison.
Diagram(p) ==
  IF \/ p.snap = None \/ p.mode = "query"
     \/ p.mode = "changes" /\ (p.review \/ p.before = None \/ p.list) THEN "none"
  ELSE IF p.mode = "changes" THEN "changes" ELSE "explore"

\* documentVisible, and everything else that lies over the diagram or pauses it.
Reading(p) == p.document # 0 /\ p.document = p.session /\ p.mode = "explore" /\ ~p.preflight
Asking(p) == p.discovery # 0 /\ p.discovery = p.session /\ p.mode = "explore" /\ ~p.preflight
Covered(p) == p.preflight \/ Reading(p) \/ Asking(p)

\* What the graph is built from; a change of it waits for a new layout.
Filter(p, c) == <<p.session, Diagram(p), p.search, p.view, c.focus>>

\* Mutated: the focus stays when a jump arrives.
SeenOnly(p, c) ==
  IF Diagram(p) = "explore" /\ p.jump # None /\ c.seen # p.jump.number THEN [c EXCEPT !.seen = p.jump.number] ELSE c

\* A jump the canvas has not seen takes the focus off, while rendering.
Seen(p, c) ==
  IF Diagram(p) = "explore" /\ p.jump # None /\ c.seen # p.jump.number
  THEN [c EXCEPT !.seen = p.jump.number, !.focus = None] ELSE c

\* Another kind of diagram is another component; none keeps nothing.
Mounted(p, c) == IF Diagram(p) = Diagram(page) THEN c ELSE Untouched

Render(p, c) ==
  LET d == Seen(p, Mounted(p, c)) IN
  /\ page' = p
  /\ canvas' = [d EXCEPT !.laid = @ /\ Filter(p, d) = Filter(page, canvas)]

Act == acts < MaxActs /\ acts' = acts + 1
Does(p) == Act /\ Render(p, canvas) /\ UNCHANGED <<latest, last>>

-----------------------------------------------------------------------------
(* Another snapshot on the page: nothing that names the old one stays      *)

\* Mutated: the jump is kept for the next snapshot.
ShownKeepingJump(n, preview, before, mode, view) ==
  [page EXCEPT !.snap = n, !.session = @ + 1, !.preview = preview, !.before = before, !.mode = mode, !.view = view,
               !.selected = None, !.read = "no"]

Shown(n, preview, before, mode, view) ==
  [page EXCEPT !.snap = n, !.session = @ + 1, !.preview = preview, !.before = before, !.mode = mode, !.view = view,
               !.selected = None, !.jump = None, !.read = "no"]

Kept == IF page.snap # None /\ ~page.preview THEN [snap |-> page.snap, view |-> page.view] ELSE page.kept
IsSource(n, s) == n # None /\ Home[n] = s
Back(s) == IF IsSource(page.kept.snap, s) THEN page.kept.view ELSE "none"

\* handleCapture, with the changes since the capture before, if there are any.
Capture(n, before) ==
  LET same == IsSource(page.snap, Home[n])
      view == IF ~same THEN "none" ELSE IF page.preview THEN page.kept.view ELSE page.view IN
  /\ Act /\ (before # None => before # n /\ Home[before] = Home[n])
  /\ Render([Shown(n, FALSE, before, IF ~same /\ before # None THEN "changes" ELSE "explore", view)
               EXCEPT !.list = TRUE, !.kept = [snap |-> n, view |-> view]], canvas)
  /\ latest' = [latest EXCEPT ![Home[n]] = n] /\ UNCHANGED last

\* handleHistorySnapshot and handleComparison, from the history of the source.
History(n) ==
  /\ page.snap # None /\ Home[n] = Home[page.snap]
  /\ Does([Shown(n, TRUE, None, "explore", "none") EXCEPT !.kept = Kept])
Compare(n, before) ==
  /\ page.snap # None /\ Home[n] = Home[page.snap] /\ Home[before] = Home[n] /\ before # n
  /\ Does([Shown(n, TRUE, before, "changes", "none") EXCEPT !.kept = Kept, !.list = TRUE, !.review = FALSE])

\* returnToLatestModel.
ReturnToLatest ==
  /\ page.snap # None /\ page.preview /\ latest[Home[page.snap]] # None
  /\ Does([Shown(latest[Home[page.snap]], FALSE, None, "explore", Back(Home[page.snap])) EXCEPT !.search = FALSE])

\* onSourceDeleted, of the source on the page; onFactoryReset leaves the mode, and forgets no view.
Forget(reset) ==
  /\ page.snap # None
  /\ Does(IF reset THEN Shown(None, page.preview, None, "explore", page.view)
          ELSE Shown(None, page.preview, None, page.mode, "none"))

\* loadSemantics, and refreshSemantics after it: a domain stays; the view in use, or the one
\* remembered, is shown if the source still has it (there).
Preferred(there) ==
  IF page.preview \/ page.view = "domain" THEN page.view
  ELSE IF there /\ (page.view = "saved" \/ last[Home[page.snap]]) THEN "saved" ELSE "none"
Answered == page.snap # None /\ (IF page.read = "no" THEN UNCHANGED acts ELSE Act) /\ UNCHANGED <<latest, last>>
Read(there) == Answered /\ Render([page EXCEPT !.read = "read", !.view = Preferred(there)], canvas)
ReadFails == Answered /\ Render([page EXCEPT !.read = "failed"], canvas)

-----------------------------------------------------------------------------
(* Jumps, filters and the diagram                                          *)

\* locateTable, from the tree, a search, a document, a finding, the review or the explorer.
Locate(t) ==
  /\ page.snap # None /\ t \in Tables[page.snap]
  /\ Does([page EXCEPT !.mode = "explore", !.preflight = FALSE, !.document = 0, !.discovery = 0, !.search = FALSE,
                       !.view = "none", !.selected = t, !.column = FALSE, !.jumps = @ + 1,
                       !.jump = [snap |-> page.snap, table |-> t, number |-> page.jumps + 1]])

\* applyView: from the sidebar, from the diagram's own list, or from the panel of domains.
Applied(p, v) == [p EXCEPT !.view = v, !.search = FALSE, !.jump = None]
Remember(v) == last' = [last EXCEPT ![Home[page.snap]] = (v = "saved")]
ApplyFromSidebar(v) ==
  /\ page.snap # None /\ ~page.preview /\ page.read = "read" /\ v # "domain"
  /\ Act /\ Remember(v) /\ UNCHANGED latest
  /\ Render(Applied([page EXCEPT !.document = 0, !.mode = "explore", !.preflight = FALSE, !.discovery = 0], v), canvas)
ApplyFromDiagram(v) ==
  /\ Diagram(page) = "explore" /\ ~Covered(page) /\ ~page.preview /\ page.read = "read" /\ canvas.laid
  /\ Act /\ Remember(v) /\ UNCHANGED latest
  /\ Render(Applied(page, v), [canvas EXCEPT !.focus = None])
ApplyFromPanel ==
  /\ page.snap # None /\ ~Reading(page) /\ ~page.preflight /\ page.read = "read"
  /\ Act /\ Remember("domain") /\ UNCHANGED latest
  /\ Render(Applied(page, "domain"), canvas)

\* Mutated: what is chosen on the diagram does not end the jump.
Chosen(t, field) == [page EXCEPT !.selected = t, !.column = field /\ t # None]

\* inspectTable: a table of the diagram, a field of it, or none of them.
Inspected(t, field) == [page EXCEPT !.selected = t, !.jump = None, !.column = field /\ t # None]

OnDiagram == Tables[page.snap] \cup (IF Diagram(page) = "changes" THEN Tables[page.before] ELSE {})
Usable == Diagram(page) # "none" /\ ~Covered(page)
Inspect(t, field) ==
  /\ Usable /\ (t # None => t \in OnDiagram)
  /\ Does(Inspected(t, field))
\* A double click, the command to focus what is selected, and the ways back.
Isolate(t) ==
  /\ Usable /\ t \in OnDiagram /\ Act /\ UNCHANGED <<latest, last>>
  /\ Render(Inspected(t, FALSE), [canvas EXCEPT !.focus = IF @ = t THEN None ELSE t])
FocusSelected ==
  /\ Usable /\ page.selected # None /\ Act /\ UNCHANGED <<latest, last>>
  /\ Render(page, [canvas EXCEPT !.focus = page.selected])
ViewAll ==
  /\ Usable /\ Act /\ UNCHANGED <<latest, last>>
  /\ Render(Inspected(None, FALSE), [canvas EXCEPT !.focus = None])
ShowRelations ==
  /\ Usable /\ canvas.focus # None /\ Act /\ UNCHANGED <<latest, last>>
  /\ \E clear \in BOOLEAN :
       Render([page EXCEPT !.search = @ /\ ~clear], [canvas EXCEPT !.focus = None])

\* The layout of the graph as it is now.
Layout ==
  /\ Diagram(page) # "none" /\ ~canvas.laid
  /\ canvas' = [canvas EXCEPT !.laid = TRUE] /\ UNCHANGED <<page, latest, last, acts>>

\* The diagram shows every table, is laid out, and what was read has settled.
Ready == canvas.laid /\ canvas.focus = None /\ page.read # "no" /\ ~page.search /\ page.view = "none"

\* The frame in which the diagram turns to the table, and finishLocate.
Arrive ==
  /\ Diagram(page) = "explore" /\ page.jump # None /\ page.jump.snap = page.snap
  /\ canvas.handled # page.jump.number /\ page.jump.table \in Tables[page.snap]
  /\ Ready
  /\ Render([page EXCEPT !.jump = None], [canvas EXCEPT !.handled = page.jump.number])
  /\ UNCHANGED <<latest, last, acts>>

-----------------------------------------------------------------------------
(* Modes and covers                                                        *)

\* The switch in the header.
SetMode(m) ==
  /\ m = "query" => page.snap # None
  /\ Does([page EXCEPT !.preflight = FALSE, !.jump = None, !.mode = m])
\* A review is asked for: the change-review event, and the changes of the inspector.
OpenReview == page.snap # None /\ ~page.preview /\ Does([page EXCEPT !.review = TRUE, !.mode = "changes", !.preflight = FALSE])
ReviewChanges ==
  /\ page.before # None /\ ~Reading(page) /\ ~page.preflight
  /\ Does([page EXCEPT !.review = FALSE, !.mode = "changes", !.list = TRUE])
\* The two switches of the changes.
SetReview(r) == page.mode = "changes" /\ Does([page EXCEPT !.review = r])
SetList(l) ==
  /\ page.mode = "changes" /\ ~page.preflight /\ ~page.review /\ page.before # None
  /\ Does([page EXCEPT !.list = l])
\* The search field; openSchemaSearch only opens it.
Search == page.snap # None /\ Does([page EXCEPT !.preflight = FALSE, !.search = TRUE, !.mode = "explore"])
OpenSearch == Does([page EXCEPT !.preflight = FALSE, !.mode = "explore"])
ClearSearch == page.search /\ Does([page EXCEPT !.search = FALSE])
Preflight(open) ==
  /\ page.snap # None
  /\ Does([page EXCEPT !.preflight = open, !.mode = IF open THEN "explore" ELSE @])
OpenDocument ==
  /\ page.snap # None
  /\ Does([page EXCEPT !.document = page.session, !.mode = "explore", !.preflight = FALSE, !.discovery = 0])
CloseDocument == page.document # 0 /\ Does([page EXCEPT !.document = 0])
\* A business question, and the query drafted from it.
OpenDiscovery ==
  /\ page.snap # None /\ latest[Home[page.snap]] = page.snap /\ page.mode = "explore" /\ ~page.preflight /\ page.read # "no"
  /\ Does([page EXCEPT !.discovery = page.session])
CloseDiscovery(draft) == Asking(page) /\ Does([page EXCEPT !.discovery = 0, !.mode = IF draft THEN "query" ELSE @])
\* openTableInQuery.
OpenInQuery == page.snap # None /\ Does([page EXCEPT !.preflight = FALSE, !.jump = None, !.mode = "query"])

Shows ==
  \/ \E n \in Snapshot : History(n) \/ \E b \in Snapshot \cup {None} : Capture(n, b) \/ (b # None /\ Compare(n, b))
  \/ ReturnToLatest \/ \E reset \in BOOLEAN : Forget(reset)
  \/ ReadFails \/ \E there \in BOOLEAN : Read(there)
Looks ==
  \/ \E t \in Table : Locate(t) \/ Isolate(t)
  \/ \E t \in Table \cup {None}, field \in BOOLEAN : Inspect(t, field)
  \/ \E v \in {"none", "saved"} : ApplyFromSidebar(v) \/ ApplyFromDiagram(v)
  \/ ApplyFromPanel \/ FocusSelected \/ ViewAll \/ ShowRelations \/ Layout \/ Arrive
Goes ==
  \/ \E m \in {"explore", "query", "changes"} : SetMode(m)
  \/ \E b \in BOOLEAN : SetReview(b) \/ SetList(b) \/ Preflight(b) \/ CloseDiscovery(b)
  \/ OpenReview \/ ReviewChanges \/ Search \/ OpenSearch \/ ClearSearch
  \/ OpenDocument \/ CloseDocument \/ OpenDiscovery \/ OpenInQuery

Next == Shows \/ Looks \/ Goes
Spec == Init /\ [][Next]_vars

-----------------------------------------------------------------------------
(* Properties                                                              *)

Snap == Snapshot \cup {None}
Mode == {"explore", "query", "changes"}
ViewKind == {"none", "saved", "domain"}

TypeOK ==
  /\ page.snap \in Snap /\ page.before \in Snap /\ page.mode \in Mode /\ page.view \in ViewKind
  /\ page.selected \in Table \cup {None} /\ page.read \in {"no", "read", "failed"}
  /\ page.jump \in {None} \cup [snap : Snapshot, table : Table, number : 1..page.jumps]
  /\ page.document \in 0..page.session /\ page.discovery \in 0..page.session
  /\ canvas.focus \in Table \cup {None} /\ canvas.seen \in 0..page.jumps /\ canvas.handled \in 0..page.jumps
  /\ latest \in [Source -> Snap] /\ last \in [Source -> BOOLEAN]

\* What the inspector shows is a table of the snapshot on the page, or of the one it is compared with.
SelectionIsShown ==
  page.selected # None =>
    page.snap # None /\ page.selected \in Tables[page.snap] \cup (IF page.before = None THEN {} ELSE Tables[page.before])

\* A jump that waits is to the table the inspector shows, of the snapshot on the page; and a focus
\* that holds it back is one the user has put on that table since.
JumpIsCurrent ==
  page.jump # None =>
    /\ page.jump.snap = page.snap /\ page.jump.table \in Tables[page.snap] /\ page.selected = page.jump.table
    /\ canvas.focus # None /\ Diagram(page) = "explore" => canvas.focus = page.jump.table
=============================================================================

------------------------------ MODULE Delivery ------------------------------
(***************************************************************************)
(* What leaves the program as a file: the diagram as SVG or PNG            *)
(* (DiagramExportActions.tsx, SchemaCanvas.tsx, graph/diagram-export.ts),  *)
(* the dictionary and the offline viewer (SchemaReportExportAction.tsx,    *)
(* reports/).  An export is a job that waits for frames, for labels, for   *)
(* an encoder and for the device, while the page goes on: another view is  *)
(* shown, and shown back, a relation is stated, the canvas is unmounted.    *)
(* All diagram exports draw on one hidden surface.                         *)
(***************************************************************************)
EXTENDS Naturals, FiniteSets, Sequences, SequencesExt

CONSTANTS Table, Rel, Model, None,
          Ends,         \* relation -> its two tables
          Stateable,    \* the sets of relations that may be stated about a model
          Has,          \* model -> its tables
          Found,        \* the tables the search finds
          Focus,        \* the table whose neighbours the diagram may be narrowed to
          DenseAt,      \* 100: from here on the canvas mounts only what is visible
          EdgeBatch, TableBatch, \* 64 and 16: what the surface holds at once
          ViewerTables, ViewerRels, \* 500 and 5000: what an offline viewer may hold
          MaxJobs, MaxMoves

VARIABLES scope,     \* layoutScope: model, focus and search shown; and the mounted canvas
          gens,      \* useOperation's generation of the canvas's actions and of the header's
          links,     \* the relations stated about the model, None until they are read
          ready,     \* layoutReady and no gesture
          rendering, \* exportRendering
          surface,   \* what the hidden surface of this canvas holds
          jobs,      \* the exports under way, None when one is over
          sent,      \* the file being handed to the device
          moves

canvas == <<scope, gens, links, ready, moves>>
vars == <<canvas, rendering, surface, jobs, sent>>

Report == {"report", "viewer"}
Empty == [tables |-> {}, rels |-> {}]
GenOf(kind) == IF kind = "diagram" THEN gens.canvas ELSE gens.header
Current(j) == j.gen = GenOf(j.kind)

Stated == IF links = None THEN {} ELSE links
Within(r, T) == Ends[r][1] \in T /\ Ends[r][2] \in T
Neighbour(t) == t = Focus \/ \E r \in Stated : {Ends[r][1], Ends[r][2]} = {Focus, t}
Shown == {t \in Has[scope.model] : (scope.query => t \in Found)
                                   /\ (scope.focus /\ Focus \in Has[scope.model] => Neighbour(t))}
Drawing == [tables |-> Shown, rels |-> {r \in Stated : Within(r, Shown)}]
Dense(T) == Cardinality(T) >= DenseAt

Init ==
  /\ \E m \in Model : scope = [model |-> m, focus |-> FALSE, query |-> FALSE, mount |-> 0]
  /\ gens = [canvas |-> 0, header |-> 0]
  /\ links = None /\ ready = FALSE
  /\ rendering = FALSE /\ surface = Empty /\ jobs = <<>> /\ sent = None /\ moves = 0

-----------------------------------------------------------------------------
(* The page                                                                *)

Moved == moves < MaxMoves /\ moves' = moves + 1
NewCanvas == gens' = [gens EXCEPT !.canvas = @ + 1]

\* The diagram is narrowed to the neighbours of a table, or no longer (a key, or a button).
Narrow ==
  /\ Moved /\ scope' = [scope EXCEPT !.focus = ~@] /\ NewCanvas /\ ready' = FALSE
  /\ UNCHANGED <<links, rendering, surface, jobs, sent>>

\* The search in the page's header.
Search ==
  /\ Moved /\ scope' = [scope EXCEPT !.query = ~@] /\ NewCanvas /\ ready' = FALSE
  /\ UNCHANGED <<links, rendering, surface, jobs, sent>>

\* Another model is loaded, or an earlier one again; what is said about it is read anew.
LoadModel(m) ==
  /\ Moved /\ m # scope.model
  /\ scope' = [scope EXCEPT !.model = m] /\ links' = None /\ ready' = FALSE
  /\ gens' = [canvas |-> gens.canvas + 1, header |-> gens.header + 1]
  /\ UNCHANGED <<rendering, surface, jobs, sent>>

\* Statements are read, or changed by an answer: the graph is drawn anew in the same scope.
ReadLinks ==
  /\ (IF links = None THEN UNCHANGED moves ELSE Moved)
  /\ \E S \in Stateable \ {links} : links' = S
  /\ ready' = FALSE
  /\ UNCHANGED <<scope, gens, rendering, surface, jobs, sent>>

LayOut == ~ready /\ ready' = TRUE /\ UNCHANGED <<scope, gens, links, moves, rendering, surface, jobs, sent>>

\* The page shows something else and the diagram again: a new canvas with its own surface.
Remount ==
  /\ Moved /\ scope' = [scope EXCEPT !.mount = @ + 1] /\ NewCanvas
  /\ ready' = FALSE /\ rendering' = FALSE /\ surface' = Empty
  /\ UNCHANGED <<links, jobs, sent>>

-----------------------------------------------------------------------------
(* An export                                                               *)

Phases == {"paint", "mount", "edges", "labels", "tables", "settle", "quit", "encode", "saving"}
At(i, phases) == jobs[i] # None /\ jobs[i].phase \in phases
Set(i, j) == jobs' = [jobs EXCEPT ![i] = j]
To(i, phase) == Set(i, [jobs[i] EXCEPT !.phase = phase])
End(i) == Set(i, None)
Busy(kinds) == \E i \in DOMAIN jobs : At(i, Phases) /\ jobs[i].kind \in kinds /\ Current(jobs[i])

\* exportDiagram: what the canvas drew when the button was pressed, in the order it stacks.
ClickDiagram ==
  /\ Len(jobs) < MaxJobs /\ ready /\ Shown # {} /\ ~Busy({"diagram"})
  /\ jobs' = Append(jobs, [kind |-> "diagram", gen |-> gens.canvas, scope |-> scope, phase |-> "paint",
                           asked |-> Drawing, dense |-> Dense(Shown), todo |-> Drawing,
                           tables |-> <<>>, rels |-> <<>>, culled |-> FALSE])
  /\ UNCHANGED <<canvas, rendering, surface, sent>>

\* exportReport: the snapshot and the statements of the click.
ClickReport(kind) ==
  /\ Len(jobs) < MaxJobs /\ links # None /\ ~Busy(Report)
  /\ jobs' = Append(jobs, [kind |-> kind, gen |-> gens.header, scope |-> scope, phase |-> "paint",
                           asked |-> [tables |-> Has[scope.model], rels |-> links], dense |-> FALSE,
                           todo |-> Empty, tables |-> <<>>, rels |-> <<>>, culled |-> FALSE])
  /\ UNCHANGED <<canvas, rendering, surface, sent>>

\* createSchemaReport: every table and every statement, an end that is gone said to be gone.
Dictionary(j) == [j EXCEPT !.tables = SetToSeq(j.asked.tables), !.rels = SetToSeq(j.asked.rels)]
\* offlineViewerModel: what has both ends is a line, the rest a number; too much is refused.
ViewerModel(j) ==
  [j EXCEPT !.tables = SetToSeq(j.asked.tables),
            !.rels = SetToSeq({r \in j.asked.rels : Within(r, j.asked.tables)})]
TooLarge(j) == Cardinality(j.asked.tables) > ViewerTables \/ Cardinality(j.asked.rels) > ViewerRels

-----------------------------------------------------------------------------
(* What an export does between two waits                                   *)

\* assertCurrent compares the name of the scope, which an earlier scope shown again also has.
StillOpen(j) == j.scope = scope

\* The canvas is opened again and the last batch left on the surface.
RestoreInput(i, j, phase) ==
  /\ Set(i, [j EXCEPT !.phase = phase]) /\ UNCHANGED surface
  /\ IF j.scope.mount = scope.mount THEN rendering' = FALSE ELSE UNCHANGED rendering

\* The export's finally: whatever the surface of this canvas holds, it is cleared.
Restore(i, j, phase) ==
  /\ Set(i, [j EXCEPT !.phase = phase])
  /\ IF j.scope.mount = scope.mount THEN rendering' = FALSE /\ surface' = Empty
     ELSE UNCHANGED <<rendering, surface>>
Quit(i) == Restore(i, jobs[i], "quit")

\* saveDiagramExport and saveSchemaReport: handed to the device, or to the browser's downloads.
Send(i, j) ==
  /\ Set(i, [j EXCEPT !.phase = "saving", !.tables = <<>>, !.rels = <<>>, !.asked = Empty])
  /\ sent' = [kind |-> j.kind, tables |-> j.tables, rels |-> j.rels, asked |-> j.asked,
              culled |-> j.culled, scope |-> j.scope, shown |-> scope]

\* Two frames after the click: nothing, when the page has moved on.
Superseded(i) ==
  /\ At(i, {"paint"}) /\ ~Current(jobs[i]) /\ End(i)
  /\ UNCHANGED <<canvas, rendering, surface, sent>>
Begins(i, kind) == At(i, {"paint"}) /\ Current(jobs[i]) /\ jobs[i].kind = kind

\* The canvas is asked to draw, and closed to input.
BeginDrawing(i) ==
  /\ Begins(i, "diagram") /\ rendering' = TRUE /\ To(i, "mount") /\ UNCHANGED <<canvas, surface, sent>>

\* More than 32 MiB: counted while it is written.
Overlong(i) == End(i) /\ UNCHANGED sent

MakeReport(i) ==
  /\ Begins(i, "report") /\ (Send(i, Dictionary(jobs[i])) \/ Overlong(i))
  /\ UNCHANGED <<canvas, rendering, surface>>

\* The viewer is the dictionary with the model beside it; its script is hashed meanwhile.
MakeViewer(i) ==
  /\ Begins(i, "viewer") /\ UNCHANGED <<canvas, rendering, surface, sent>>
  /\ IF TooLarge(jobs[i]) THEN End(i) ELSE Set(i, [ViewerModel(jobs[i]) EXCEPT !.phase = "encode"])

\* A small diagram is read from the page at once: all of it, unless the canvas has grown since
\* the click to where it mounts only what is visible.
ReadInPlace(i) ==
  LET j == jobs[i] IN
  /\ At(i, {"mount"}) /\ ~j.dense /\ StillOpen(j)
  /\ \/ /\ Shown # {}
        /\ \E T \in IF Dense(Shown) THEN (SUBSET Shown) \ {{}} ELSE {Shown} :
             LET R == {r \in Drawing.rels : Within(r, T)} IN
             Restore(i, [j EXCEPT !.tables = SetToSeq(T), !.rels = SetToSeq(R), !.asked = Drawing,
                                  !.culled = Dense(Shown)], "settle")
     \/ (Shown = {} \/ ~ready) /\ Quit(i)   \* nothing to draw, or nothing measured yet
  /\ UNCHANGED <<canvas, sent>>

StartSurface(i) ==
  /\ At(i, {"mount"}) /\ jobs[i].dense /\ StillOpen(jobs[i]) /\ To(i, "edges")
  /\ UNCHANGED <<canvas, rendering, surface, sent>>

\* assertCurrent, after every wait and before every batch.
Abandon(i) ==
  /\ At(i, {"mount", "edges", "labels", "tables"}) /\ ~StillOpen(jobs[i])
  /\ Quit(i) /\ UNCHANGED <<canvas, sent>>

\* appendEdges: what the surface holds now, each of it expected and not read before.
AppendEdges(i, j, S) ==
  IF S \subseteq j.asked.rels /\ S \cap ToSet(j.rels) = {}
  THEN Set(i, [j EXCEPT !.rels = @ \o SetToSeq(S), !.phase = "edges"]) /\ UNCHANGED rendering
  ELSE Quit(i)

\* A batch of edges is put on the surface; its labels may take a frame to be measured.
DrawEdges(i) ==
  LET j == jobs[i] IN
  /\ At(i, {"edges"}) /\ StillOpen(j) /\ j.todo.rels # {}
  /\ \E S \in (SUBSET j.todo.rels) \ {{}} :
       LET k == [j EXCEPT !.todo.rels = @ \ S] IN
       /\ Cardinality(S) <= EdgeBatch
       /\ IF \A r \in S : Within(r, Shown)
          THEN \/ /\ AppendEdges(i, k, S)
                  /\ (jobs'[i].phase = "edges" => surface' = [tables |-> {}, rels |-> S])
               \/ /\ Set(i, [k EXCEPT !.phase = "labels"])
                  /\ surface' = [tables |-> {}, rels |-> S] /\ UNCHANGED rendering
          ELSE Quit(i)
  /\ UNCHANGED <<canvas, sent>>

\* The frame later: whatever another export has put on the surface meanwhile.
LabelsMeasured(i) ==
  LET j == jobs[i] IN
  /\ At(i, {"labels"}) /\ StillOpen(j)
  /\ \/ AppendEdges(i, j, surface.rels) /\ (jobs'[i].phase = "edges" => UNCHANGED surface)
     \/ Quit(i)   \* still not measured
  /\ UNCHANGED <<canvas, sent>>

EdgesDone(i) ==
  /\ At(i, {"edges"}) /\ StillOpen(jobs[i]) /\ jobs[i].todo.rels = {} /\ To(i, "tables")
  /\ UNCHANGED <<canvas, rendering, surface, sent>>

\* A batch of tables: put on the surface and read at once.
DrawTables(i) ==
  LET j == jobs[i] IN
  /\ At(i, {"tables"}) /\ StillOpen(j) /\ j.todo.tables # {}
  /\ \E T \in (SUBSET j.todo.tables) \ {{}} :
       /\ Cardinality(T) <= TableBatch
       /\ IF T \subseteq Shown
          THEN /\ Set(i, [j EXCEPT !.todo.tables = @ \ T, !.tables = @ \o SetToSeq(T)])
               /\ surface' = [tables |-> T, rels |-> {}] /\ UNCHANGED rendering
          ELSE Quit(i)
  /\ UNCHANGED <<canvas, sent>>

\* serializeWithSize: the fragments together are larger than 32 MiB.
Oversize(i) == Quit(i)

\* finish: everything expected was read.
Finish(i) ==
  LET j == jobs[i] IN
  /\ At(i, {"tables"}) /\ StillOpen(j) /\ j.todo.tables = {}
  /\ \/ /\ Len(j.tables) = Cardinality(j.asked.tables) /\ Len(j.rels) = Cardinality(j.asked.rels)
        /\ Restore(i, j, "settle")
     \/ Len(j.tables) # Cardinality(j.asked.tables) /\ Quit(i)
     \/ Len(j.rels) # Cardinality(j.asked.rels) /\ Quit(i)
     \/ Oversize(i)
  /\ UNCHANGED <<canvas, sent>>

\* The two frames after the canvas is given back.
Settled(i) ==
  /\ \/ At(i, {"settle"}) /\ To(i, "encode")
     \/ At(i, {"quit"}) /\ End(i)
  /\ UNCHANGED <<canvas, rendering, surface, sent>>

\* diagramPng: the browser has no canvas, no image or no encoder for it, or it is too large.
NoImage(i) == End(i) /\ UNCHANGED sent

\* The scope is not compared again once the file is ready.
EncodedAnyway(i) ==
  /\ At(i, {"encode"}) /\ UNCHANGED <<canvas, rendering, surface>>
  /\ Send(i, jobs[i]) \/ NoImage(i)

\* prepareSvgBytes, an image or the digest of the viewer's script; then the last isCurrent.
Encoded(i) ==
  LET j == jobs[i] IN
  /\ At(i, {"encode"}) /\ UNCHANGED <<canvas, rendering, surface>>
  /\ \/ Current(j) /\ Send(i, j)
     \/ ~Current(j) /\ End(i) /\ UNCHANGED sent
     \/ NoImage(i)

Receipt(i) ==
  /\ At(i, {"saving"}) /\ End(i) /\ sent' = None
  /\ UNCHANGED <<canvas, rendering, surface>>

Next ==
  \/ Narrow \/ Search \/ ReadLinks \/ LayOut \/ Remount
  \/ \E m \in Model : LoadModel(m)
  \/ ClickDiagram
  \/ \E kind \in Report : ClickReport(kind)
  \/ \E i \in DOMAIN jobs :
       \/ Superseded(i) \/ BeginDrawing(i) \/ MakeReport(i) \/ MakeViewer(i)
       \/ ReadInPlace(i) \/ StartSurface(i) \/ Abandon(i) \/ DrawEdges(i) \/ LabelsMeasured(i)
       \/ EdgesDone(i) \/ DrawTables(i) \/ Finish(i) \/ Settled(i) \/ Encoded(i) \/ Receipt(i)

Spec == Init /\ [][Next]_vars

-----------------------------------------------------------------------------
(* Properties                                                              *)

TypeOK ==
  /\ scope \in [model : Model, focus : BOOLEAN, query : BOOLEAN, mount : Nat]
  /\ links = None \/ links \subseteq Rel
  /\ ready \in BOOLEAN /\ rendering \in BOOLEAN
  /\ surface \in [tables : SUBSET Table, rels : SUBSET Rel]
  /\ \A i \in DOMAIN jobs : jobs[i] # None =>
       /\ jobs[i].phase \in Phases /\ jobs[i].gen <= GenOf(jobs[i].kind)
       /\ ToSet(jobs[i].tables) \subseteq jobs[i].asked.tables

\* A file that leaves the program is of the scope on the page and holds every table and every
\* relation it is about once: of a large diagram what was drawn at the click, of a small one what
\* was drawn at the read, of a model what was loaded and stated at the click.
DeliveredIsWhole ==
  sent # None =>
    LET file == sent IN
    /\ file.kind = "viewer" => /\ Cardinality(file.asked.tables) <= ViewerTables
                               /\ Cardinality(file.asked.rels) <= ViewerRels
    /\ IF file.kind = "diagram" THEN file.scope = file.shown ELSE file.scope.model = file.shown.model
    /\ IsInjective(file.tables) /\ IsInjective(file.rels)
    /\ file.culled \/ /\ ToSet(file.tables) = file.asked.tables
                      /\ ToSet(file.rels) = {r \in file.asked.rels :
                                               file.kind = "viewer" => Within(r, file.asked.tables)}

\* When no export draws on this canvas, its surface is empty and the canvas takes input again.
CanvasIsGivenBack ==
  (\A i \in DOMAIN jobs :
     At(i, {"mount", "edges", "labels", "tables"}) => jobs[i].scope.mount # scope.mount)
  => ~rendering /\ surface = Empty
=============================================================================

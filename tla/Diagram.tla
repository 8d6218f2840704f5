------------------------------ MODULE Diagram ------------------------------
(***************************************************************************)
(* The diagram's layout: SchemaCanvas.tsx with elk-layout.ts and           *)
(* layout-history.ts.  The canvas shows the full model or a saved view, or *)
(* a temporary part of it (search, focus, domain, comparison, ...); it     *)
(* restores or computes a layout when the view changes, lets the user      *)
(* edit it, keeps a history, and saves permanent layouts through a queue.  *)
(* A place is a name: "grid" is where buildSchemaGraph puts a table that   *)
(* no layout has placed, "auto" where the worker puts it.                  *)
(***************************************************************************)
EXTENDS Naturals, FiniteSets, Sequences, SequencesExt

CONSTANTS Table, View, All, None,
          Focus,        \* the tables a temporary view shows
          HistoryLimit, \* undo steps kept
          MaxEdits,     \* edits by the user
          MaxMoves,     \* changes of view and refreshes of the model
          SavesFail     \* the device may refuse a layout

VARIABLES scope,    \* view shown, and whether temporarily reduced
          members,  \* the tables of each view
          loaded,   \* the stored layouts have been read
          nodes,    \* table -> place and pin, of the tables on the canvas
          ready,    \* the canvas has been laid out: readyGraph = graph
          prior,    \* the layout effect's memory: scope of its last run, first fit done
          initial,  \* the initial layout in the worker
          fitting,  \* the two frames after which the diagram is ready
          auto,     \* the layout the user asked the worker for
          drag,     \* tables under the pointer
          gesture,  \* the frame a gesture began with
          history,  \* past and future edits; and observed, not read by the code: the frames before
                    \* the past ones and after the future ones, and whether an initial layout
                    \* that came late replaced what they arranged
          cache,    \* fullLayouts
          queue,    \* saves, the first one in execution
          stored,   \* the layouts on the device
          failed,   \* the views whose last write failed (observed, not read by the code)
          feedback, spent

view == <<scope, members, loaded, ready, prior, fitting, failed>>
vars == <<scope, members, loaded, nodes, ready, prior, initial, fitting, auto, drag, gesture,
          history, cache, queue, stored, failed, feedback, spent>>

Key == View \cup {All}
Place == {"grid", "auto", "left", "right"}
Chosen == {"left", "right"}
Unplaced == [at |-> "grid", pinned |-> FALSE]
Frames(S) == [S -> [at : Place, pinned : BOOLEAN]]
Layouts == UNION {Frames(S) : S \in SUBSET Table}

ASSUME NoneIsNoLayout == None \notin Layouts
ASSUME SomethingIsUndone == HistoryLimit \in Nat \ {0}

Shown(s, m) == IF s.temporary THEN m[s.key] \cap Focus ELSE m[s.key]
Persistent == ~scope.temporary /\ loaded
Emptied == [past |-> <<>>, future |-> <<>>, frames |-> <<>>, ahead |-> <<>>, replaced |-> FALSE]
NothingDone == history.past = <<>> /\ history.future = <<>>
Quiet == [scope |-> None, phase |-> "idle", retry |-> "none"]
Edited == spent.edits < MaxEdits /\ spent' = [spent EXCEPT !.edits = @ + 1]
Moved == spent.moves < MaxMoves /\ spent' = [spent EXCEPT !.moves = @ + 1]

\* The canvas of the full model, its stored layouts not read yet; any of them may exist.
Init ==
  /\ scope = [key |-> All, temporary |-> FALSE] /\ loaded = FALSE
  /\ members = [k \in Key |-> Table]
  /\ \E whole \in {None, [t \in Table |-> [at |-> "left", pinned |-> FALSE]]} :
       stored = [k \in Key |-> IF k = All THEN whole ELSE None]
  /\ nodes = [t \in Table |-> Unplaced] /\ ready = FALSE /\ fitting = FALSE
  /\ prior = [scope |-> None, fitted |-> FALSE]
  /\ initial = None /\ auto = None /\ drag = {} /\ gesture = None
  /\ history = Emptied /\ cache = [k \in Key |-> None] /\ queue = <<>>
  /\ failed = {} /\ feedback = Quiet /\ spent = [edits |-> 0, moves |-> 0]

-----------------------------------------------------------------------------
(* Saving                                                                  *)

\* mutant: a temporary arrangement of the whole model is saved too
SaveAnything(next) ==
  IF loaded
  THEN /\ cache' = [cache EXCEPT ![scope.key] = next]
       /\ queue' = Append([i \in DOMAIN queue |-> [queue[i] EXCEPT !.latest = FALSE]],
                          [key |-> scope.key, layout |-> next, scope |-> scope, latest |-> TRUE])
       /\ feedback' = [scope |-> scope, phase |-> "running", retry |-> "none"]
  ELSE UNCHANGED <<cache, queue, feedback>>

\* saveLayout: permanent views only, and only the complete graph.
Save(next) ==
  IF Persistent /\ DOMAIN next = Shown(scope, members)
  THEN /\ cache' = [cache EXCEPT ![scope.key] = next]
       /\ queue' = Append([i \in DOMAIN queue |-> [queue[i] EXCEPT !.latest = FALSE]],
                          [key |-> scope.key, layout |-> next, scope |-> scope, latest |-> TRUE])
       /\ feedback' = [scope |-> scope, phase |-> "running", retry |-> "none"]
  ELSE UNCHANGED <<cache, queue, feedback>>

\* A user's edit: saved, or said to hold in this view only.
Keep(next) ==
  IF scope.temporary
  THEN feedback' = [scope |-> scope, phase |-> "success", retry |-> "none"] /\ UNCHANGED <<cache, queue>>
  ELSE Save(next)

\* layoutRevision: whatever changes it makes a layout in the worker stale.
Revise == auto' = IF auto = None THEN None ELSE [auto EXCEPT !.fresh = FALSE]
Say(phase, retry) == feedback' = [scope |-> scope, phase |-> phase, retry |-> retry]

-----------------------------------------------------------------------------
(* The layout effect                                                       *)

Known(k, l) == IF l THEN stored[k] ELSE None
Stored(k, l) == IF cache[k] # None THEN cache[k] ELSE Known(k, l)
Complete(layout, S) == layout # None /\ S \subseteq DOMAIN layout

\* restoreOrExtendLayout and layoutSchemaGraph, as a function of what the effect saw.
Arranged(job) ==
  [t \in DOMAIN job.nodes |->
     IF ~job.nodes[t].pinned /\ t \notin job.kept THEN [job.nodes[t] EXCEPT !.at = "auto"] ELSE job.nodes[t]]

\* The effect, run for view s with members m (again: the same scope as its last run): the
\* layout in the worker is abandoned; live positions are kept within one scope that has been
\* fitted, a complete stored layout is restored, and anything else goes to the worker.
Effect(s, m, l, again, from) ==
  LET T == Shown(s, m)
      key == s.key
      positions == Stored(key, l)
      inherited == IF positions # None THEN positions ELSE Known(All, l)
      placed == [t \in T |-> IF inherited # None /\ t \in DOMAIN inherited
                                /\ (s.temporary => inherited[t].pinned)
                             THEN inherited[t] ELSE Unplaced]
  IN IF ~s.temporary /\ ~l
     THEN UNCHANGED <<nodes, prior>> /\ initial' = None /\ fitting' = FALSE
     ELSE /\ prior' = [prior EXCEPT !.scope = <<s, l>>]
          /\ IF again /\ prior.fitted /\ T \subseteq DOMAIN from
             THEN /\ nodes' = [t \in T |-> from[t]]
                  /\ initial' = None /\ fitting' = TRUE
             ELSE IF ~s.temporary /\ Complete(positions, T)
             THEN /\ nodes' = [t \in T |-> positions[t]]
                  /\ initial' = None /\ fitting' = TRUE
             ELSE /\ nodes' = placed
                  /\ initial' = [nodes |-> placed,
                                 kept |-> IF s.temporary \/ positions = None THEN {}
                                          ELSE T \cap DOMAIN positions]
                  /\ fitting' = FALSE

\* A change of the model or the view: the graph is new, so nothing is ready; a change of the
\* scope or of its tables ends history and gesture.
Present(s, m, l) ==
  /\ scope' = s /\ members' = m /\ loaded' = l /\ ready' = FALSE
  /\ Effect(s, m, l, prior.scope = <<s, l>>, nodes)
  /\ Revise
  /\ IF s = scope /\ Shown(s, m) = Shown(scope, members) /\ l = loaded
     THEN UNCHANGED <<history, gesture>> ELSE history' = Emptied /\ gesture' = None
  /\ UNCHANGED <<drag, cache, queue, stored, failed, feedback>>

LayoutsLoad == ~loaded /\ Present(scope, members, TRUE) /\ UNCHANGED spent

\* Saved view, search, focus and their end.
ShowView(k) == scope.key # k /\ loaded /\ Moved /\ Present([key |-> k, temporary |-> FALSE], members, loaded)
Reduce == ~scope.temporary /\ Moved /\ Present([scope EXCEPT !.temporary = TRUE], members, loaded)
Restore == scope.temporary /\ Moved /\ Present([scope EXCEPT !.temporary = FALSE], members, loaded)

\* The members of a saved view are edited; the layout is not sent along.
EditView(k, S) ==
  /\ k # All /\ S # members[k] /\ loaded /\ Moved
  /\ Present(scope, [members EXCEPT ![k] = S], loaded)

\* Annotations, relationships or settings change: a new graph of the same tables.
RefreshModel == Moved /\ Present(scope, members, loaded)

-----------------------------------------------------------------------------
(* The worker and the frames                                               *)

\* The initial layout, at once shown and saved.
InitialAnswers ==
  /\ initial # None
  /\ nodes' = Arranged(initial) /\ initial' = None /\ fitting' = TRUE
  /\ Save(Arranged(initial))
  /\ history' = [history EXCEPT !.replaced = @ \/ ~NothingDone]
  /\ UNCHANGED <<scope, members, loaded, failed, ready, prior, auto, drag, gesture, stored, spent>>

\* mutant: a failed initial layout leaves the diagram waiting
InitialFailsSilently ==
  /\ initial # None /\ initial' = None /\ Say("error", "restore")
  /\ UNCHANGED <<scope, members, loaded, failed, nodes, ready, prior, fitting, auto, drag, gesture, history,
                 cache, queue, stored, spent>>

\* The worker fails or times out: existing positions stay, the diagram becomes usable.
InitialFails ==
  /\ initial # None /\ initial' = None /\ fitting' = TRUE /\ Say("error", "restore")
  /\ UNCHANGED <<scope, members, loaded, failed, nodes, ready, prior, auto, drag, gesture, history,
                 cache, queue, stored, spent>>

Fitted ==
  /\ fitting /\ fitting' = FALSE /\ ready' = TRUE /\ prior' = [prior EXCEPT !.fitted = TRUE]
  /\ UNCHANGED <<scope, members, loaded, failed, nodes, initial, auto, drag, gesture, history,
                 cache, queue, stored, feedback, spent>>

Editable == ready /\ (~scope.temporary => loaded)
Free == Editable /\ gesture = None

-----------------------------------------------------------------------------
(* History                                                                 *)

Changed(before, after) == {t \in DOMAIN before : before[t] # after[t]}
Latest(s) == IF Len(s) > HistoryLimit THEN Tail(s) ELSE s

\* DiagramLayoutHistory.record: nothing for an edit without effect, else the changed
\* properties of the changed tables, and redo is gone.
Record(before, after) ==
  IF Changed(before, after) = {} THEN UNCHANGED history
  ELSE history' = [past |-> Latest(Append(history.past,
                              [t \in Changed(before, after) |->
                                 [before |-> before[t], after |-> after[t],
                                  moved |-> before[t].at # after[t].at,
                                  fixed |-> before[t].pinned # after[t].pinned]])),
                   future |-> <<>>,
                   frames |-> Latest(Append(history.frames, before)),
                   ahead |-> <<>>, replaced |-> history.replaced]

\* mutant: places are restored, pins are forgotten
PatchedPlaces(edit, side) ==
  [t \in DOMAIN nodes |->
     IF t \notin DOMAIN edit THEN nodes[t]
     ELSE [nodes[t] EXCEPT !.at = IF edit[t].moved THEN edit[t][side].at ELSE @]]

\* restore: only the properties the edit changed.
Patched(edit, side) ==
  [t \in DOMAIN nodes |->
     IF t \notin DOMAIN edit THEN nodes[t]
     ELSE [at |-> IF edit[t].moved THEN edit[t][side].at ELSE nodes[t].at,
           pinned |-> IF edit[t].fixed THEN edit[t][side].pinned ELSE nodes[t].pinned]]

\* An edit changes tables only, never their number, and a change of the tables ends the
\* history: the clearing of a history whose tables are gone does not come about.
Undo ==
  /\ Free /\ history.past # <<>> /\ Edited /\ Revise
  /\ LET next == Patched(Last(history.past), "before")
     IN nodes' = next /\ Keep(next)
  /\ history' = [past |-> Front(history.past), future |-> Append(history.future, Last(history.past)),
                 frames |-> Front(history.frames), ahead |-> Append(history.ahead, nodes),
                 replaced |-> history.replaced]
  /\ UNCHANGED <<view, initial, drag, gesture, stored>>

Redo ==
  /\ Free /\ history.future # <<>> /\ Edited /\ Revise
  /\ LET next == Patched(Last(history.future), "after")
     IN nodes' = next /\ Keep(next)
  /\ history' = [past |-> Append(history.past, Last(history.future)), future |-> Front(history.future),
                 frames |-> Append(history.frames, nodes), ahead |-> Front(history.ahead),
                 replaced |-> history.replaced]
  /\ UNCHANGED <<view, initial, drag, gesture, stored>>

-----------------------------------------------------------------------------
(* Edits                                                                   *)

Movable(S) == {t \in S \cap DOMAIN nodes : ~nodes[t].pinned}
Placed(S, p) == [t \in DOMAIN nodes |-> IF t \in Movable(S) THEN [nodes[t] EXCEPT !.at = p] ELSE nodes[t]]

\* A drag: the pointer takes unpinned tables, moves them and lets them go.
BeginDrag(S) ==
  /\ Editable /\ drag = {} /\ S # {} /\ S = Movable(S) /\ Edited
  /\ drag' = S /\ gesture' = (IF gesture = None THEN nodes ELSE gesture) /\ Revise
  /\ UNCHANGED <<view, nodes, initial, history, cache, queue, stored, feedback>>

Drag(p) ==
  /\ Movable(drag) # {} /\ Placed(drag, p) # nodes
  /\ nodes' = Placed(drag, p) /\ Revise
  /\ gesture' = IF gesture = None THEN nodes ELSE gesture
  /\ UNCHANGED <<view, initial, drag, history, cache, queue, stored, feedback, spent>>

\* finishNodeDrag
Drop ==
  /\ drag # {} /\ drag' = {} /\ Revise /\ gesture' = None
  /\ IF gesture = None THEN UNCHANGED history ELSE Record(gesture, nodes)
  /\ Save(nodes)
  /\ UNCHANGED <<view, nodes, initial, stored, spent>>

\* One step of the keyboard or of a resize: begun and committed in one render.
Nudge(S, p) ==
  /\ Free /\ drag = {} /\ S = Movable(S) /\ Placed(S, p) # nodes /\ Edited /\ Revise
  /\ nodes' = Placed(S, p) /\ Record(nodes, nodes') /\ Save(nodes')
  /\ UNCHANGED <<view, initial, drag, gesture, stored>>

\* arrangeSelectedTables: two tables or more, aligned to one place; the pinned ones stay.
Arrange(S, p) ==
  /\ Free /\ S \subseteq DOMAIN nodes /\ Cardinality(Movable(S)) >= 2
  /\ Placed(S, p) # nodes /\ Edited /\ Revise
  /\ nodes' = Placed(S, p) /\ Record(nodes, nodes') /\ Keep(nodes')
  /\ UNCHANGED <<view, initial, drag, gesture, stored>>

\* Not enough room: told, and the outcome of a running save no longer is.
ArrangeFails ==
  /\ Free /\ Edited /\ Say("error", "arrange")
  /\ queue' = [i \in DOMAIN queue |-> [queue[i] EXCEPT !.latest = FALSE]]
  /\ UNCHANGED <<view, nodes, initial, auto, drag, gesture, history, cache, stored>>

\* fixSelectedTables
Fix(S, on) ==
  /\ Free /\ S \subseteq DOMAIN nodes /\ (\E t \in S : nodes[t].pinned # on) /\ Edited /\ Revise
  /\ nodes' = [t \in DOMAIN nodes |-> IF t \in S THEN [nodes[t] EXCEPT !.pinned = on] ELSE nodes[t]]
  /\ Record(nodes, nodes') /\ Keep(nodes')
  /\ UNCHANGED <<view, initial, drag, gesture, stored>>

\* Panning or zooming ends: the view is saved with the positions of the moment.
MoveViewport ==
  /\ ready /\ Edited /\ Save(nodes)
  /\ UNCHANGED <<view, nodes, initial, auto, drag, gesture, history, stored>>

-----------------------------------------------------------------------------
(* Automatic layout on request                                             *)

RequestLayout(S) ==
  /\ Free /\ Movable(S) # {} /\ Edited
  /\ auto' = [targets |-> Movable(S), before |-> nodes, fresh |-> TRUE]
  /\ Say("running", "none")
  /\ UNCHANGED <<view, nodes, initial, drag, gesture, history, cache, queue, stored>>

\* mutant: an answer is applied although the layout has been edited since the request
AutoAnswersLate ==
  /\ auto # None /\ auto' = None
  /\ IF DOMAIN auto.before = DOMAIN nodes
     THEN LET next == [t \in DOMAIN nodes |->
                         IF t \in auto.targets THEN [nodes[t] EXCEPT !.at = "auto"] ELSE nodes[t]]
          IN nodes' = next /\ Keep(next) /\ Record(auto.before, next)
     ELSE UNCHANGED <<nodes, history, cache, queue, feedback>>
  /\ UNCHANGED <<view, initial, drag, gesture, stored, spent>>

\* The answer: dropped unless scope and revision are those of the request.
AutoAnswers ==
  /\ auto # None /\ auto' = None
  /\ IF auto.fresh
     THEN LET next == [t \in DOMAIN nodes |->
                         IF t \in auto.targets THEN [nodes[t] EXCEPT !.at = "auto"] ELSE nodes[t]]
          IN nodes' = next /\ Keep(next) /\ Record(auto.before, next)
     ELSE UNCHANGED <<nodes, history, cache, queue, feedback>>
  /\ UNCHANGED <<view, initial, drag, gesture, stored, spent>>

AutoFails ==
  /\ auto # None /\ auto' = None
  /\ IF auto.fresh THEN Say("error", "auto") ELSE UNCHANGED feedback
  /\ UNCHANGED <<view, nodes, initial, drag, gesture, history, cache, queue, stored, spent>>

-----------------------------------------------------------------------------
(* The device, and retries                                                 *)

\* mutant: saves run side by side, and any of them may finish first
SavedInAnyOrder(ok) ==
  /\ queue # <<>> /\ ok
  /\ \E i \in DOMAIN queue :
       stored' = [stored EXCEPT ![queue[i].key] = queue[i].layout] /\ queue' = RemoveAt(queue, i)
  /\ UNCHANGED <<scope, members, loaded, failed, nodes, ready, prior, initial, fitting, auto, drag, gesture,
                 history, cache, feedback, spent>>

\* The first save ends.  Only the latest one, in its own view, is reported; a layout taken
\* over runs the layout effect again.
Saved(ok) ==
  /\ queue # <<>> /\ queue' = Tail(queue) /\ (ok \/ SavesFail)
  /\ feedback' = IF Head(queue).latest /\ Head(queue).scope = scope
                 THEN [scope |-> scope, phase |-> IF ok THEN "success" ELSE "error",
                       retry |-> IF ok THEN "none" ELSE "save"]
                 ELSE feedback
  /\ stored' = IF ok THEN [stored EXCEPT ![Head(queue).key] = Head(queue).layout] ELSE stored
  /\ failed' = IF ok THEN failed \ {Head(queue).key} ELSE failed \cup {Head(queue).key}
  /\ IF ok /\ Head(queue).key \in {scope.key, All}
     THEN Effect(scope, members, loaded, prior.scope = <<scope, loaded>>, nodes)
     ELSE UNCHANGED <<nodes, prior, initial, fitting>>
  /\ UNCHANGED <<scope, members, loaded, ready, auto, drag, gesture, history, cache, spent>>

Offered(retry) == feedback.scope = scope /\ feedback.phase = "error" /\ feedback.retry = retry /\ Editable
RetrySave ==
  /\ Offered("save") /\ gesture = None /\ Edited /\ Save(nodes)
  /\ UNCHANGED <<view, nodes, initial, auto, drag, gesture, history, stored>>

RetryRestore ==
  /\ Offered("restore") /\ gesture = None /\ Edited /\ feedback' = Quiet
  /\ Effect(scope, members, loaded, FALSE, nodes)
  /\ history' = [history EXCEPT !.replaced = @ \/ nodes' # nodes]
  /\ UNCHANGED <<scope, members, loaded, failed, ready, auto, drag, gesture, cache, queue, stored>>

-----------------------------------------------------------------------------

\* The pointer is not held while the user turns to another view; the model may be refreshed.
Navigate ==
  \/ drag = {} /\ \E k \in Key : ShowView(k)
  \/ drag = {} /\ \E k \in View, S \in (SUBSET Table) \ {{}} : EditView(k, S)
  \/ drag = {} /\ (Reduce \/ Restore)
  \/ RefreshModel
Edit ==
  \/ \E S \in SUBSET Table, p \in Chosen : Nudge(S, p) \/ Arrange(S, p)
  \/ \E S \in SUBSET Table : BeginDrag(S) \/ RequestLayout(S)
  \/ \E S \in SUBSET Table, on \in BOOLEAN : Fix(S, on)
  \/ \E p \in Chosen : Drag(p)
  \/ ArrangeFails \/ MoveViewport \/ Undo \/ Redo \/ RetrySave \/ RetryRestore
Progress ==
  \/ LayoutsLoad \/ InitialAnswers \/ InitialFails \/ Fitted \/ AutoAnswers \/ AutoFails
  \/ Drop \/ \E ok \in BOOLEAN : Saved(ok)

Next == Navigate \/ Edit \/ Progress
Spec == Init /\ [][Next]_vars

-----------------------------------------------------------------------------

TypeOK ==
  /\ scope \in [key : Key, temporary : BOOLEAN] /\ loaded \in BOOLEAN /\ ready \in BOOLEAN /\ fitting \in BOOLEAN
  /\ nodes \in Layouts /\ drag \subseteq Table /\ (gesture = None \/ gesture \in Layouts)
  /\ \A k \in Key : (cache[k] = None \/ cache[k] \in Layouts) /\ (stored[k] = None \/ stored[k] \in Layouts)
  /\ Len(history.past) = Len(history.frames) /\ Len(history.future) = Len(history.ahead)
  /\ Len(history.past) + Len(history.future) <= HistoryLimit
  /\ feedback.phase \in {"idle", "running", "success", "error"}

\* Writes keep the order of the edits that caused them: once nothing is queued, what the user
\* last arranged in a permanent view is what the device holds, unless its last write failed.
EditsAreSaved ==
  Persistent /\ gesture = None /\ queue = <<>> /\ ~NothingDone
    /\ scope.key \notin failed => stored[scope.key] = nodes

\* A table fixed in a view is not moved by anything that happens in that view: not by a
\* layout asked for before it was fixed, not by undo, redo, a drag or a refresh of the model,
\* until an initial layout that the user repeated has replaced what was arranged.
PinnedStay ==
  [][<<scope, loaded>>' = <<scope, loaded>> /\ DOMAIN nodes' = DOMAIN nodes /\ ~history'.replaced =>
       \A t \in DOMAIN nodes : nodes[t].pinned /\ nodes'[t].pinned => nodes'[t].at = nodes[t].at]_vars

\* Undo returns the diagram as it was before the last edit, and redo as it was after it, whatever
\* was refreshed, saved or answered in between, a repeated initial layout excepted.
UndoReturns ==
  [][~history.replaced => /\ Undo => nodes' = Last(history.frames)
                          /\ Redo => nodes' = Last(history.ahead)]_vars

\* What is arranged in a search, a focus or a domain never reaches a stored layout: whatever is
\* written was shown in the permanent view it is written for.
TemporaryStaysAside ==
  [][Len(queue') > Len(queue) => ~scope'.temporary /\ DOMAIN Last(queue').layout = members'[scope'.key]]_vars

ArrangementStays == PinnedStay /\ UndoReturns /\ TemporaryStaysAside

\* What the diagram comes back to again and again: it is usable, and every write is answered.
Settled == ready /\ initial = None /\ auto = None /\ drag = {} /\ queue = <<>>

=============================================================================

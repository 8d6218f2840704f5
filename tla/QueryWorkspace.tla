--------------------------- MODULE QueryWorkspace ---------------------------
(***************************************************************************)
(* The query workspace: QueryPage.tsx with the session that outlives it    *)
(* (query-state.ts) and the backend's register of running queries.  The    *)
(* page is mounted in query mode only; the session, shared by all sources, *)
(* keeps draft, result and message while it is not.  A change of source,   *)
(* or leaving the page, makes the running query stale and asks for its     *)
(* cancellation; its answer still arrives.                                 *)
(***************************************************************************)
EXTENDS Naturals, FiniteSets

CONSTANTS Source, Sql, None,
          MaxRuns,      \* queries run
          MaxMoves,     \* changes of source, model and page
          MaxEdits,     \* changes of the draft
          StorageFails  \* local storage may refuse a write

VARIABLES app,     \* source, its model (snapshot and confirmed knowledge), page shown, table asked to be previewed
          session, \* draft, result, outcome, message
          page,    \* what one mounted page holds
          disk,    \* the draft in local storage, and whether a restart is blocked
          runs,    \* the queries, in the order they were started
          cancels, \* cancellations on their way
          log,     \* the backend's history
          spent

vars == <<app, session, page, disk, runs, cancels, log, spent>>

Run == 1..MaxRuns
Started == {r \in Run : runs[r] # None}
Active == {r \in Started : runs[r].at = "active"}

BlankPage == [drafting |-> FALSE, generated |-> None, applied |-> None, execution |-> None,
              active |-> None, history |-> [of |-> None, entries |-> {}], reading |-> None]
Restored == [draft |-> disk.draft, result |-> None, outcome |-> None, message |-> "ready"]
Mounted == app.mode = "query"

\* The page, opened on the draft that an earlier session left.
Init ==
  /\ \E s \in Source : app = [source |-> s, model |-> 0, mode |-> "query", open |-> None]
  /\ \E q \in Sql \cup {None} : disk = [draft |-> q, blocked |-> FALSE]
  /\ session = Restored
  /\ page = [BlankPage EXCEPT !.reading = app.source] /\ runs = [r \in Run |-> None]
  /\ cancels = {} /\ log = {} /\ spent = [moves |-> 0, edits |-> 0]

-----------------------------------------------------------------------------
(* The session and the draft on disk                                       *)

\* mutant: a draft that could not be stored does not hold up a restart
SaveSessionSilently(next) ==
  /\ session' = next
  /\ \/ disk' = [draft |-> next.draft, blocked |-> FALSE]
     \/ StorageFails /\ disk' = [disk EXCEPT !.blocked = FALSE]

\* saveQuerySession, after every change of the session.
SaveSession(next) ==
  /\ session' = next
  /\ \/ disk' = [draft |-> next.draft, blocked |-> FALSE]
     \/ StorageFails /\ disk' = [disk EXCEPT !.blocked = TRUE]

Move(n) == spent.moves < MaxMoves /\ spent' = [spent EXCEPT !.moves = @ + 1] /\ app' = n
Edit == spent.edits < MaxEdits /\ spent' = [spent EXCEPT !.edits = @ + 1]

\* The cleanup of the page: the revision moves on, and what runs is asked to stop.
Superseded == [r \in Run |-> IF runs[r] = None THEN None ELSE [runs[r] EXCEPT !.stale = TRUE]]
Abandon ==
  /\ runs' = Superseded
  /\ cancels' = cancels \cup (IF page.active = None THEN {} ELSE {page.active})

\* A page reads the history of the source it is mounted for.
Listing == app'.source

OpenPage ==
  /\ ~ Mounted /\ Move([app EXCEPT !.mode = "query"])
  /\ page' = [BlankPage EXCEPT !.reading = Listing]
  /\ SaveSession(session)
  /\ UNCHANGED <<runs, cancels, log>>

LeavePage ==
  /\ Mounted /\ Move([app EXCEPT !.mode = "explore"])
  /\ Abandon /\ page' = BlankPage
  /\ UNCHANGED <<session, disk, log>>

\* openTableInQuery: from the tree or the diagram, whatever page is shown.
OpenTable(q) ==
  /\ Move([app EXCEPT !.mode = "query", !.open = q])
  /\ IF Mounted THEN UNCHANGED <<page, session, disk>>
     ELSE page' = [BlankPage EXCEPT !.reading = Listing] /\ SaveSession(session)
  /\ UNCHANGED <<runs, cancels, log>>

\* Another source: a mounted page drops the result, and says that the draft was preserved.
SwitchSource(s) ==
  /\ s # app.source /\ Move([app EXCEPT !.source = s])
  /\ IF Mounted
     THEN /\ Abandon
          /\ page' = [page EXCEPT !.drafting = FALSE, !.reading = Listing]
          /\ SaveSession([session EXCEPT !.result = None, !.outcome = None, !.message = "changed"])
     ELSE UNCHANGED <<page, session, disk, runs, cancels>>
  /\ UNCHANGED log

\* A refreshed schema, or changed knowledge or policy, of the same source.
NewModel ==
  /\ Move([app EXCEPT !.model = @ + 1])
  /\ page' = IF Mounted THEN [page EXCEPT !.reading = Listing] ELSE page
  /\ UNCHANGED <<session, disk, runs, cancels, log>>

\* The update is installed and the program started again: only the draft on disk is left.
Restart ==
  /\ ~ disk.blocked /\ Move([app EXCEPT !.mode = "explore", !.open = None])
  /\ session' = Restored /\ page' = BlankPage
  /\ runs' = [r \in Run |-> IF runs[r] = None THEN None ELSE [runs[r] EXCEPT !.at = "over", !.stale = TRUE]]
  /\ cancels' = {}
  /\ UNCHANGED <<disk, log>>

\* clearQuerySessions, from the settings.
FactoryReset ==
  /\ ~ Mounted /\ Move([app EXCEPT !.open = None])
  /\ session' = [draft |-> None, result |-> None, outcome |-> None, message |-> "ready"]
  /\ disk' = [draft |-> None, blocked |-> FALSE]
  /\ UNCHANGED <<page, runs, cancels, log>>

-----------------------------------------------------------------------------
(* The editor and generated SQL                                            *)

\* SQL drafted for an earlier model is not offered.
PendingGenerated ==
  IF page.generated # None /\ page.generated.source = app.source /\ page.generated.model = app.model
  THEN page.generated ELSE None
PendingOpen == IF PendingGenerated # None THEN PendingGenerated.sql ELSE app.open
Asking == PendingOpen # None

EditDraft(q) ==
  /\ Mounted /\ ~ page.drafting /\ ~ Asking /\ q # session.draft /\ Edit
  /\ SaveSession([session EXCEPT !.draft = q])
  /\ UNCHANGED <<app, page, runs, cancels, log>>

ShowDrafting(on) ==
  /\ Mounted /\ page.drafting # on /\ page' = [page EXCEPT !.drafting = on]
  /\ UNCHANGED <<app, session, disk, runs, cancels, log, spent>>

\* An answer of the assistant is chosen for the editor.
UseSql(q) ==
  /\ Mounted /\ page.drafting /\ ~ Asking /\ Edit
  /\ page' = [page EXCEPT !.generated = [source |-> app.source, model |-> app.model, sql |-> q]]
  /\ UNCHANGED <<app, session, disk, runs, cancels, log>>

CloseOpen(p) ==
  IF PendingGenerated # None THEN page' = [p EXCEPT !.generated = None] /\ UNCHANGED app
  ELSE page' = p /\ app' = [app EXCEPT !.open = None]

Replace ==
  /\ Mounted /\ Asking
  /\ CloseOpen([page EXCEPT !.drafting = FALSE,
                            !.applied = IF PendingGenerated = None THEN @
                                        ELSE [source |-> app.source, model |-> app.model,
                                              previous |-> session.draft, sql |-> PendingGenerated.sql]])
  /\ SaveSession([session EXCEPT !.draft = PendingOpen])
  /\ UNCHANGED <<runs, cancels, log, spent>>

CancelOpen ==
  /\ Mounted /\ Asking /\ CloseOpen(page)
  /\ UNCHANGED <<session, disk, runs, cancels, log, spent>>

\* The notice of a replacement, shown while the editor still holds it.
CanUndo ==
  /\ page.applied # None /\ page.applied.source = app.source /\ page.applied.model = app.model
  /\ session.draft = page.applied.sql

UndoReplacement ==
  /\ Mounted /\ ~ page.drafting /\ CanUndo
  /\ SaveSession([session EXCEPT !.draft = page.applied.previous])
  /\ page' = [page EXCEPT !.applied = None]
  /\ UNCHANGED <<app, runs, cancels, log, spent>>

-----------------------------------------------------------------------------
(* Running a query                                                         *)

RunQuery(r) ==
  /\ Mounted /\ page.active = None /\ ~ page.drafting /\ ~ Asking /\ session.draft # None
  /\ r \notin Started /\ 1..(r - 1) \subseteq Started
  /\ runs' = [runs EXCEPT ![r] = [source |-> app.source, model |-> app.model, sql |-> session.draft, at |-> "sent",
                                  answer |-> None, stale |-> FALSE]]
  /\ page' = [page EXCEPT !.active = r, !.applied = None, !.execution = None]
  /\ SaveSession([session EXCEPT !.message = "running"])
  /\ UNCHANGED <<app, cancels, log, spent>>

StopQuery ==
  /\ Mounted /\ page.active # None /\ page.active \notin cancels
  /\ cancels' = cancels \cup {page.active}
  /\ UNCHANGED <<app, session, page, disk, runs, log, spent>>

\* execute_readonly_query, once the tunnel is open: one query of a source at a time.
Register(r) ==
  /\ r \in Started /\ runs[r].at = "sent"
  /\ runs' = [runs EXCEPT ![r] = IF \E o \in Active : runs[o].source = runs[r].source
                                 THEN [@ EXCEPT !.at = "answered", !.answer = "failed"]
                                 ELSE [@ EXCEPT !.at = "active"]]
  /\ UNCHANGED <<app, session, page, disk, cancels, log, spent>>

\* cancel_query finds a registered query, or does nothing.
CancelArrives(r) ==
  /\ r \in cancels /\ cancels' = cancels \ {r}
  /\ runs' = IF runs[r].at = "active" THEN [runs EXCEPT ![r].answer = "cancelled"] ELSE runs
  /\ UNCHANGED <<app, session, page, disk, log, spent>>

Finish(r, answer) ==
  /\ r \in Active /\ (runs[r].answer = "cancelled" => answer = "failed")
  /\ runs' = [runs EXCEPT ![r].at = "answered", ![r].answer = answer]
  /\ log' = log \cup {r}
  /\ UNCHANGED <<app, session, page, disk, cancels, spent>>

\* mutant: an answer is shown whatever the page has come to
DeliverAnyway(r) ==
  /\ r \in Started /\ runs[r].at = "answered"
  /\ runs' = [runs EXCEPT ![r].at = "over"]
  /\ page' = IF Mounted /\ page.active = r THEN [page EXCEPT !.active = None] ELSE page
  /\ IF Mounted /\ runs[r].answer = "succeeded"
     THEN SaveSession([session EXCEPT !.result = r, !.outcome = "succeeded", !.message = "done"])
     ELSE UNCHANGED <<session, disk>>
  /\ UNCHANGED <<app, cancels, log, spent>>

\* The answer is shown unless the source or the page changed since; the page is free in any case, and
\* reads the history again.
Deliver(r) ==
  /\ r \in Started /\ runs[r].at = "answered"
  /\ runs' = [runs EXCEPT ![r].at = "over"]
  /\ LET freed == IF Mounted /\ page.active = r THEN [page EXCEPT !.active = None] ELSE page
     IN  IF runs[r].stale THEN page' = freed /\ UNCHANGED <<session, disk>>
         ELSE IF runs[r].answer = "succeeded"
         THEN /\ page' = [freed EXCEPT !.execution = [source |-> runs[r].source, model |-> runs[r].model, run |-> r],
                                       !.reading = app.source]
              /\ SaveSession([session EXCEPT !.result = r, !.outcome = "succeeded", !.message = "done"])
         ELSE /\ page' = [freed EXCEPT !.reading = app.source]
              /\ SaveSession([session EXCEPT !.outcome = "failed", !.message = "failed"])
  /\ UNCHANGED <<app, cancels, log, spent>>

-----------------------------------------------------------------------------
(* History                                                                 *)

HistoryDelivered ==
  /\ page.reading # None
  /\ page' = [page EXCEPT !.history = [of |-> page.reading, entries |-> {r \in log : runs[r].source = page.reading}],
                          !.reading = None]
  /\ UNCHANGED <<app, session, disk, runs, cancels, log, spent>>

ShownHistory == IF page.history.of = app.source THEN page.history.entries ELSE {}

RestoreHistory(r) ==
  /\ Mounted /\ ~ Asking /\ r \in ShownHistory /\ Edit
  /\ SaveSession([session EXCEPT !.draft = runs[r].sql])
  /\ page' = [page EXCEPT !.drafting = FALSE]
  /\ UNCHANGED <<app, runs, cancels, log>>

\* One entry, or all of them.
DeleteHistory(entries) ==
  /\ Mounted /\ ~ Asking /\ entries # {} /\ entries \subseteq ShownHistory /\ Edit
  /\ log' = log \ entries
  /\ page' = [page EXCEPT !.history.entries = @ \ entries]
  /\ UNCHANGED <<app, session, disk, runs, cancels>>

-----------------------------------------------------------------------------
Navigate ==
  \/ OpenPage \/ LeavePage \/ NewModel \/ Restart \/ FactoryReset
  \/ \E s \in Source : SwitchSource(s)
  \/ \E q \in Sql : OpenTable(q)

Author ==
  \/ \E q \in Sql \cup {None} : EditDraft(q)
  \/ \E q \in Sql : UseSql(q)
  \/ \E on \in BOOLEAN : ShowDrafting(on)
  \/ Replace \/ CancelOpen \/ UndoReplacement \/ StopQuery
  \/ \E r \in Run : RunQuery(r) \/ RestoreHistory(r)
  \/ \E entries \in {{r} : r \in Run} \cup {ShownHistory} : DeleteHistory(entries)

Answer ==
  \/ \E r \in Run : Register(r) \/ Deliver(r) \/ (\E a \in {"succeeded", "failed"} : Finish(r, a))
  \/ HistoryDelivered

Next == Navigate \/ Author \/ Answer \/ \E r \in Run : CancelArrives(r)

Spec == Init /\ [][Next]_vars

-----------------------------------------------------------------------------
(* Properties                                                              *)

TypeOK ==
  /\ app.source \in Source /\ app.mode \in {"query", "explore"} /\ app.open \in Sql \cup {None}
  /\ session.draft \in Sql \cup {None} /\ session.result \in Run \cup {None}
  /\ session.outcome \in {None, "succeeded", "failed"}
  /\ page.active \in Run \cup {None} /\ page.drafting \in BOOLEAN /\ log \subseteq Started /\ cancels \subseteq Started

\* A result that arrives is the one of the last query that was started, and of the source in the
\* workspace, although an earlier query may still be answered after the page was left (QueryPage.tsx 110-144).
AnswersInOrder ==
  [][session'.result \notin {session.result, None} =>
       /\ Started = 1..session'.result
       /\ runs[session'.result].source = app.source]_vars

\* A restart for an update finds the draft as it was left (query-state.ts, update-guard.ts).
DraftSurvives == [][Restart => session'.draft = session.draft]_vars

\* The page comes to be free again after every query, stopped or not: checked as []<>Settled, like the
\* Settled of the other pages.
Settled == page.active = None

=============================================================================

---------------------------- MODULE PagesProofs ----------------------------
(***************************************************************************)
(* The parts of the pages keep what they promise, for any sources,         *)
(* snapshots, tables, statements, questions and limits that suit the part. *)
(*                                                                         *)
(* Each part has its section, its names beginning with the part's: what    *)
(* suits it (Suitable), the types of its state, the invariant and what it  *)
(* is made of, one lemma for the steps that keep it in the same way, and   *)
(* at the end the theorems.  The invariants say of every answer that is    *)
(* under way what the page will find when it comes in:                     *)
(*   - at most one query is current, and the page waits for it;            *)
(*   - a message of the assistant in force is one of the request in force, *)
(*     and the turn that asked is still there;                             *)
(*   - what is checked on the desk is on the page it shows, at the         *)
(*     revision it was read at;                                            *)
(*   - a jump that waits names a table of the snapshot that will show it;  *)
(*   - the panel beside waits only while the page that asked is mounted;   *)
(*   - every row of the tree is of the snapshot it was built from.         *)
(***************************************************************************)
EXTENDS Pages, Sequences, FiniteSetTheorems, SequenceTheorems, TLAPS

-----------------------------------------------------------------------------
(* The query page                                                          *)


QueryApplications == [source : QuerySource, model : Nat, mode : {"query", "explore"}, open : QuerySql \cup {Nothing}]
QuerySessions ==
  [draft : QuerySql \cup {Nothing}, result : Query!Run \cup {Nothing}, outcome : {Nothing, "succeeded", "failed"},
   message : {"ready", "changed", "running", "done", "failed"}]
QueryDisks == [draft : QuerySql \cup {Nothing}, blocked : BOOLEAN]
QueryOffers == [source : QuerySource, model : Nat, sql : QuerySql]
QueryApplieds == [source : QuerySource, model : Nat, previous : QuerySql \cup {Nothing}, sql : QuerySql]
QueryExecutions == [source : QuerySource, model : Nat, run : Query!Run]
QueryHistories == [of : QuerySource \cup {Nothing}, entries : SUBSET Query!Run]
QueryPagesHeld ==
  [drafting : BOOLEAN, generated : QueryOffers \cup {Nothing}, applied : QueryApplieds \cup {Nothing},
   execution : QueryExecutions \cup {Nothing}, active : Query!Run \cup {Nothing}, history : QueryHistories,
   reading : QuerySource \cup {Nothing}]

\* "Nothing" is neither a query nor its number, and the number of queries is one.

QueryShapes ==
  /\ wApp \in QueryApplications /\ wSession \in QuerySessions /\ wDisk \in QueryDisks /\ wPage \in QueryPagesHeld
  /\ wRuns \in [Query!Run -> QueryQueries \cup {Nothing}]
  /\ wSpent \in [moves : Nat, edits : Nat]

\* What is named was started, and queries are started one after the other.
QueryNamed ==
  /\ wPage.active \in Query!Started \cup {Nothing} /\ wPage.history.entries \subseteq Query!Started
  /\ wCancels \subseteq Query!Started /\ wLog \subseteq Query!Started
QueryOrdered == \A r \in Query!Started : 1..r \subseteq Query!Started

\* The answer of r would be shown.
QueryCurrent(r) == wRuns[r] # Nothing /\ wRuns[r].at # "over" /\ ~ wRuns[r].stale
QueryAwaited ==
  \A r \in Query!Run : QueryCurrent(r) =>
    Query!Mounted /\ wPage.active = r /\ wRuns[r].source = wApp.source /\ Query!Started = 1..r

QueryKept == ~ wDisk.blocked => wDisk.draft = wSession.draft

QueryInv == QueryShapes /\ QueryNamed /\ QueryOrdered /\ QueryAwaited /\ QueryKept

-----------------------------------------------------------------------------
(* What the steps have in common.                                          *)

LEMMA QueryInitEstablishes == QuerySuitable /\ Query!Init => QueryInv
<1> SUFFICES ASSUME QuerySuitable, Query!Init PROVE QueryInv
  OBVIOUS
<1>1. PICK s \in QuerySource : wApp = [source |-> s, model |-> 0, mode |-> "query", open |-> Nothing]
  BY DEF Query!Init
<1>2. wApp \in QueryApplications
  BY <1>1 DEF QueryApplications
<1>3. wDisk \in QueryDisks
  BY DEF Query!Init, QueryDisks
<1>4. wSession = [draft |-> wDisk.draft, result |-> Nothing, outcome |-> Nothing, message |-> "ready"]
  BY DEF Query!Init, Query!Restored
<1>5. wSession \in QuerySessions /\ QueryKept
  BY <1>3, <1>4 DEF QuerySessions, QueryDisks, QueryKept
<1>6. wPage = [Query!BlankPage EXCEPT !.reading = wApp.source]
  BY DEF Query!Init
<1>7. wPage \in QueryPagesHeld /\ wPage.active = Nothing /\ wPage.history.entries = {}
  BY <1>1, <1>6 DEF Query!BlankPage, QueryPagesHeld, QueryHistories
<1>8. wRuns = [r \in Query!Run |-> Nothing] /\ wCancels = {} /\ wLog = {} /\ wSpent = [moves |-> 0, edits |-> 0]
  BY DEF Query!Init
<1>9. Query!Started = {}
  BY <1>8 DEF Query!Started
<1>10. QueryShapes
  BY <1>2, <1>3, <1>5, <1>7, <1>8 DEF QueryShapes
<1>11. QueryNamed /\ QueryOrdered
  BY <1>7, <1>8, <1>9 DEF QueryNamed, QueryOrdered
<1>12. QueryAwaited
  BY <1>8 DEF QueryAwaited, QueryCurrent
<1> QED
  BY <1>5, <1>10, <1>11, <1>12 DEF QueryInv

LEMMA QuerySavingKeeps ==
  ASSUME QueryShapes, NEW next \in QuerySessions, Query!SaveSession(next)
  PROVE  wSession' = next /\ wSession' \in QuerySessions /\ wDisk' \in QueryDisks /\ QueryKept'
<1>1. wSession' = next
  BY DEF Query!SaveSession
<1>2. next.draft \in QuerySql \cup {Nothing}
  BY DEF QuerySessions
<1>3. CASE wDisk' = [draft |-> next.draft, blocked |-> FALSE]
  BY <1>1, <1>2, <1>3 DEF QueryDisks, QueryKept
<1>4. CASE wDisk' = [wDisk EXCEPT !.blocked = TRUE]
  BY <1>1, <1>4 DEF QueryShapes, QueryDisks, QueryKept
<1> QED
  BY <1>1, <1>3, <1>4 DEF Query!SaveSession

\* A step that starts and answers nothing, and stays with the query the page waits for.
LEMMA QueryQuietStep ==
  ASSUME QueryInv, wRuns' = wRuns,
         Query!Mounted => wApp'.mode = "query" /\ wApp'.source = wApp.source /\ wPage'.active = wPage.active
  PROVE  Query!Started' = Query!Started /\ QueryOrdered' /\ QueryAwaited'
<1>1. Query!Started' = Query!Started
  BY DEF Query!Started
<1>2. QueryOrdered'
  BY <1>1 DEF QueryInv, QueryOrdered
<1>3. ASSUME NEW r \in Query!Run, QueryCurrent(r)'
      PROVE  Query!Mounted' /\ wPage'.active = r /\ wRuns'[r].source = wApp'.source /\ Query!Started' = 1..r
  <2>1. QueryCurrent(r)
    BY <1>3 DEF QueryCurrent
  <2>2. Query!Mounted /\ wPage.active = r /\ wRuns[r].source = wApp.source /\ Query!Started = 1..r
    BY <2>1 DEF QueryInv, QueryAwaited
  <2> QED
    BY <2>2, <1>1 DEF Query!Mounted
<1> QED
  BY <1>1, <1>2, <1>3 DEF QueryAwaited

\* A step that gives up whatever runs.
LEMMA QueryGivenUp ==
  ASSUME QuerySuitable, QueryInv, wRuns' \in [Query!Run -> QueryQueries \cup {Nothing}],
         \A r \in Query!Run : (wRuns'[r] = Nothing <=> wRuns[r] = Nothing) /\ (wRuns'[r] # Nothing => wRuns'[r].stale)
  PROVE  Query!Started' = Query!Started /\ QueryOrdered' /\ QueryAwaited'
<1>1. Query!Started' = Query!Started
  BY DEF Query!Started
<1>2. QueryOrdered'
  BY <1>1 DEF QueryInv, QueryOrdered
<1> QED
  BY <1>1, <1>2 DEF QueryAwaited, QueryCurrent

LEMMA QuerySupersedingKeeps ==
  ASSUME QuerySuitable, QueryInv, wRuns' = Query!Superseded
  PROVE  /\ wRuns' \in [Query!Run -> QueryQueries \cup {Nothing}]
         /\ Query!Started' = Query!Started /\ QueryOrdered' /\ QueryAwaited'
<1>1. ASSUME NEW r \in Query!Run
      PROVE  /\ wRuns'[r] \in QueryQueries \cup {Nothing} /\ (wRuns'[r] = Nothing <=> wRuns[r] = Nothing)
             /\ wRuns'[r] # Nothing => wRuns'[r].stale
  <2>1. wRuns[r] \in QueryQueries \cup {Nothing}
    BY DEF QueryInv, QueryShapes
  <2>2. CASE wRuns[r] = Nothing
    BY <2>2 DEF Query!Superseded
  <2>3. CASE wRuns[r] # Nothing
    <3>1. wRuns'[r] = [wRuns[r] EXCEPT !.stale = TRUE] /\ wRuns[r] \in QueryQueries
      BY <2>1, <2>3 DEF Query!Superseded
    <3>2. wRuns'[r] \in QueryQueries /\ wRuns'[r].stale
      BY <3>1 DEF QueryQueries
    <3> QED
      BY <3>2, <2>3 DEF QuerySuitable
  <2> QED
    BY <2>2, <2>3
<1>2. wRuns' \in [Query!Run -> QueryQueries \cup {Nothing}]
  BY <1>1 DEF Query!Superseded
<1> QED
  BY <1>1, <1>2, QueryGivenUp

\* The acts of the user keep the count.
LEMMA QueryCounting ==
  ASSUME QueryShapes, NEW n, Query!Move(n) \/ Query!Edit
  PROVE  wSpent' \in [moves : Nat, edits : Nat]
<1>1. CASE Query!Move(n)
  BY <1>1 DEF Query!Move, QueryShapes
<1>2. CASE Query!Edit
  BY <1>2 DEF Query!Edit, QueryShapes
<1> QED
  BY <1>1, <1>2

LEMMA QueryOpenIsSql == QueryShapes => Query!PendingOpen \in QuerySql \cup {Nothing}
<1> SUFFICES ASSUME QueryShapes PROVE Query!PendingOpen \in QuerySql \cup {Nothing}
  OBVIOUS
<1>1. wApp.open \in QuerySql \cup {Nothing}
  BY DEF QueryShapes, QueryApplications
<1>2. wPage.generated \in QueryOffers \cup {Nothing}
  BY DEF QueryShapes, QueryPagesHeld
<1>3. wPage.generated # Nothing => wPage.generated.sql \in QuerySql
  BY <1>2 DEF QueryOffers
<1> QED
  BY <1>1, <1>3 DEF Query!PendingOpen, Query!PendingGenerated

LEMMA QueryBlankIsHeld ==
  ASSUME NEW s \in QuerySource
  PROVE  /\ Query!BlankPage \in QueryPagesHeld /\ Query!BlankPage.active = Nothing /\ Query!BlankPage.history.entries = {}
         /\ [Query!BlankPage EXCEPT !.reading = s] \in QueryPagesHeld
         /\ [Query!BlankPage EXCEPT !.reading = s].active = Nothing
         /\ [Query!BlankPage EXCEPT !.reading = s].history.entries = {}
BY DEF Query!BlankPage, QueryPagesHeld, QueryHistories

\* What holds for the page is a matter of its query and its history.
LEMMA QueryPageKeeps ==
  ASSUME QueryInv, Query!Started' = Query!Started, wCancels' \subseteq Query!Started, wLog' \subseteq Query!Started,
         wPage'.active \in {wPage.active, Nothing}, wPage'.history.entries \subseteq wPage.history.entries
  PROVE  QueryNamed'
BY DEF QueryInv, QueryNamed

-----------------------------------------------------------------------------
(* Moving about                                                            *)

LEMMA QueryOpenPageKeeps == QuerySuitable /\ QueryInv /\ Query!OpenPage => QueryInv'
<1> SUFFICES ASSUME QuerySuitable, QueryInv, Query!OpenPage PROVE QueryInv'
  OBVIOUS
<1>1. wApp' = [wApp EXCEPT !.mode = "query"] /\ wApp \in QueryApplications /\ ~ Query!Mounted
  BY DEF Query!OpenPage, Query!Move, QueryInv, QueryShapes
<1>2. wApp' \in QueryApplications /\ wApp'.source = wApp.source /\ wApp.source \in QuerySource
  BY <1>1 DEF QueryApplications
<1>3. wPage' = [Query!BlankPage EXCEPT !.reading = wApp.source]
  BY <1>2 DEF Query!OpenPage, Query!Listing
<1>4. wPage' \in QueryPagesHeld /\ wPage'.active = Nothing /\ wPage'.history.entries = {}
  BY <1>2, <1>3, QueryBlankIsHeld
<1>5. wSession \in QuerySessions /\ Query!SaveSession(wSession) /\ QueryShapes
  BY DEF Query!OpenPage, QueryInv, QueryShapes
<1>6. wSession' \in QuerySessions /\ wDisk' \in QueryDisks /\ QueryKept'
  BY <1>5, QuerySavingKeeps
<1>7. wRuns' = wRuns /\ wCancels' = wCancels /\ wLog' = wLog
  BY DEF Query!OpenPage
<1>8. Query!Started' = Query!Started /\ QueryOrdered' /\ QueryAwaited'
  BY <1>1, <1>7, QueryQuietStep
<1>9. QueryNamed'
  BY <1>4, <1>7, <1>8 DEF QueryInv, QueryNamed
<1>10. wSpent' \in [moves : Nat, edits : Nat]
  BY <1>5, QueryCounting DEF Query!OpenPage
<1>11. QueryShapes'
  BY <1>2, <1>4, <1>6, <1>7, <1>10 DEF QueryShapes, QueryInv
<1> QED
  BY <1>6, <1>8, <1>9, <1>11 DEF QueryInv

LEMMA QueryLeavePageKeeps == QuerySuitable /\ QueryInv /\ Query!LeavePage => QueryInv'
<1> SUFFICES ASSUME QuerySuitable, QueryInv, Query!LeavePage PROVE QueryInv'
  OBVIOUS
<1>1. wApp' = [wApp EXCEPT !.mode = "explore"] /\ wApp \in QueryApplications /\ QueryShapes
  BY DEF Query!LeavePage, Query!Move, QueryInv, QueryShapes
<1>2. wApp' \in QueryApplications /\ wApp.source \in QuerySource
  BY <1>1 DEF QueryApplications
<1>3. wPage' \in QueryPagesHeld /\ wPage'.active = Nothing /\ wPage'.history.entries = {}
  BY <1>2, QueryBlankIsHeld DEF Query!LeavePage
<1>4. wSession' = wSession /\ wDisk' = wDisk /\ wLog' = wLog
  BY DEF Query!LeavePage
<1>5. /\ wRuns' \in [Query!Run -> QueryQueries \cup {Nothing}]
      /\ Query!Started' = Query!Started /\ QueryOrdered' /\ QueryAwaited'
  BY QuerySupersedingKeeps DEF Query!LeavePage, Query!Abandon
<1>6. wCancels' \subseteq Query!Started
  BY DEF Query!LeavePage, Query!Abandon, QueryInv, QueryNamed
<1>7. QueryNamed'
  BY <1>3, <1>4, <1>5, <1>6 DEF QueryInv, QueryNamed
<1>8. wSpent' \in [moves : Nat, edits : Nat]
  BY <1>1, QueryCounting DEF Query!LeavePage
<1>9. QueryShapes' /\ QueryKept'
  BY <1>2, <1>3, <1>4, <1>5, <1>8 DEF QueryShapes, QueryInv, QueryKept
<1> QED
  BY <1>5, <1>7, <1>9 DEF QueryInv

LEMMA QueryOpenTableKeeps ==
  ASSUME QuerySuitable, QueryInv, NEW q \in QuerySql, Query!OpenTable(q)
  PROVE  QueryInv'
<1>1. wApp' = [wApp EXCEPT !.mode = "query", !.open = q] /\ wApp \in QueryApplications /\ QueryShapes
  BY DEF Query!OpenTable, Query!Move, QueryInv, QueryShapes
<1>2. wApp' \in QueryApplications /\ wApp'.source = wApp.source /\ wApp'.mode = "query" /\ wApp.source \in QuerySource
  BY <1>1 DEF QueryApplications
<1>3. wRuns' = wRuns /\ wCancels' = wCancels /\ wLog' = wLog
  BY DEF Query!OpenTable
<1>4. /\ wPage' \in QueryPagesHeld /\ (Query!Mounted => wPage' = wPage)
      /\ wPage'.active \in {wPage.active, Nothing} /\ wPage'.history.entries \subseteq wPage.history.entries
      /\ wSession' \in QuerySessions /\ wDisk' \in QueryDisks /\ QueryKept'
  <2>1. CASE Query!Mounted
    BY <2>1, <1>1 DEF Query!OpenTable, QueryShapes, QueryInv, QueryKept
  <2>2. CASE ~ Query!Mounted
    <3>1. wPage' = [Query!BlankPage EXCEPT !.reading = wApp.source] /\ Query!SaveSession(wSession) /\ wSession \in QuerySessions
      BY <2>2, <1>1, <1>2 DEF Query!OpenTable, Query!Listing, QueryShapes
    <3>2. wPage' \in QueryPagesHeld /\ wPage'.active = Nothing /\ wPage'.history.entries = {}
      BY <1>2, <3>1, QueryBlankIsHeld
    <3> QED
      BY <2>2, <1>1, <3>1, <3>2, QuerySavingKeeps
  <2> QED
    BY <2>1, <2>2
<1>5. Query!Started' = Query!Started /\ QueryOrdered' /\ QueryAwaited'
  BY <1>2, <1>3, <1>4, QueryQuietStep
<1>6. QueryNamed'
  BY <1>3, <1>4, <1>5, QueryPageKeeps DEF QueryInv, QueryNamed
<1>7. wSpent' \in [moves : Nat, edits : Nat]
  BY <1>1, QueryCounting DEF Query!OpenTable
<1>8. QueryShapes'
  BY <1>2, <1>3, <1>4, <1>7 DEF QueryShapes, QueryInv
<1> QED
  BY <1>4, <1>5, <1>6, <1>8 DEF QueryInv

LEMMA QuerySwitchSourceKeeps ==
  ASSUME QuerySuitable, QueryInv, NEW s \in QuerySource, Query!SwitchSource(s)
  PROVE  QueryInv'
<1>1. wApp' = [wApp EXCEPT !.source = s] /\ wApp \in QueryApplications /\ QueryShapes /\ wLog' = wLog
  BY DEF Query!SwitchSource, Query!Move, QueryInv, QueryShapes
<1>2. wApp' \in QueryApplications /\ wApp'.source = s
  BY <1>1 DEF QueryApplications
<1>3. wSpent' \in [moves : Nat, edits : Nat]
  BY <1>1, QueryCounting DEF Query!SwitchSource
<1>4. CASE Query!Mounted
  <2>1. wPage' = [wPage EXCEPT !.drafting = FALSE, !.reading = s] /\ wPage \in QueryPagesHeld
    BY <1>1, <1>2, <1>4 DEF Query!SwitchSource, Query!Listing, QueryShapes
  <2>2. wPage' \in QueryPagesHeld /\ wPage'.active = wPage.active /\ wPage'.history = wPage.history
    BY <2>1 DEF QueryPagesHeld
  <2>3. PICK next : next = [wSession EXCEPT !.result = Nothing, !.outcome = Nothing, !.message = "changed"]
    OBVIOUS
  <2>4. next \in QuerySessions
    BY <1>1, <2>3 DEF QueryShapes, QuerySessions
  <2>5. wSession' \in QuerySessions /\ wDisk' \in QueryDisks /\ QueryKept'
    BY <1>1, <1>4, <2>3, <2>4, QuerySavingKeeps DEF Query!SwitchSource
  <2>6. /\ wRuns' \in [Query!Run -> QueryQueries \cup {Nothing}]
        /\ Query!Started' = Query!Started /\ QueryOrdered' /\ QueryAwaited'
    BY <1>4, QuerySupersedingKeeps DEF Query!SwitchSource, Query!Abandon
  <2>7. wCancels' \subseteq Query!Started /\ wLog' \subseteq Query!Started
    BY <1>1, <1>4 DEF Query!SwitchSource, Query!Abandon, QueryInv, QueryNamed
  <2>8. QueryNamed'
    BY <2>2, <2>6, <2>7, QueryPageKeeps
  <2>9. QueryShapes'
    BY <1>2, <1>3, <2>2, <2>5, <2>6 DEF QueryShapes
  <2> QED
    BY <2>5, <2>6, <2>8, <2>9 DEF QueryInv
<1>5. CASE ~ Query!Mounted
  <2>1. wPage' = wPage /\ wSession' = wSession /\ wDisk' = wDisk /\ wRuns' = wRuns /\ wCancels' = wCancels
    BY <1>5 DEF Query!SwitchSource
  <2>2. Query!Started' = Query!Started /\ QueryOrdered' /\ QueryAwaited'
    BY <1>5, <2>1, QueryQuietStep
  <2>3. QueryNamed' /\ QueryKept'
    BY <1>1, <2>1, <2>2 DEF QueryInv, QueryNamed, QueryKept
  <2>4. QueryShapes'
    BY <1>1, <1>2, <1>3, <2>1 DEF QueryShapes
  <2> QED
    BY <2>2, <2>3, <2>4 DEF QueryInv
<1> QED
  BY <1>4, <1>5

LEMMA QueryNewModelKeeps == QuerySuitable /\ QueryInv /\ Query!NewModel => QueryInv'
<1> SUFFICES ASSUME QuerySuitable, QueryInv, Query!NewModel PROVE QueryInv'
  OBVIOUS
<1>1. /\ wApp' = [wApp EXCEPT !.model = @ + 1] /\ wApp \in QueryApplications /\ QueryShapes /\ wPage \in QueryPagesHeld
      /\ wSession' = wSession /\ wDisk' = wDisk /\ wRuns' = wRuns /\ wCancels' = wCancels /\ wLog' = wLog
  BY DEF Query!NewModel, Query!Move, QueryInv, QueryShapes
<1>2. wApp' \in QueryApplications /\ wApp'.source = wApp.source /\ wApp'.mode = wApp.mode /\ wApp.source \in QuerySource
  BY <1>1 DEF QueryApplications
<1>3. wPage' = [wPage EXCEPT !.reading = wApp.source] \/ wPage' = wPage
  BY <1>2 DEF Query!NewModel, Query!Listing
<1>4. wPage' \in QueryPagesHeld /\ wPage'.active = wPage.active /\ wPage'.history = wPage.history
  BY <1>1, <1>2, <1>3 DEF QueryPagesHeld
<1>5. Query!Started' = Query!Started /\ QueryOrdered' /\ QueryAwaited'
  BY <1>1, <1>2, <1>4, QueryQuietStep DEF Query!Mounted
<1>6. QueryNamed' /\ QueryKept'
  BY <1>1, <1>4, <1>5 DEF QueryInv, QueryNamed, QueryKept
<1>7. wSpent' \in [moves : Nat, edits : Nat]
  BY <1>1, QueryCounting DEF Query!NewModel
<1>8. QueryShapes'
  BY <1>1, <1>2, <1>4, <1>7 DEF QueryShapes
<1> QED
  BY <1>5, <1>6, <1>8 DEF QueryInv

LEMMA QueryRestartKeeps == QuerySuitable /\ QueryInv /\ Query!Restart => QueryInv'
<1> SUFFICES ASSUME QuerySuitable, QueryInv, Query!Restart PROVE QueryInv'
  OBVIOUS
<1>1. /\ wApp' = [wApp EXCEPT !.mode = "explore", !.open = Nothing] /\ wApp \in QueryApplications /\ QueryShapes
      /\ wDisk' = wDisk /\ wDisk \in QueryDisks /\ wPage' = Query!BlankPage /\ wCancels' = {} /\ wLog' = wLog
  BY DEF Query!Restart, Query!Move, QueryInv, QueryShapes
<1>2. wApp' \in QueryApplications /\ wApp.source \in QuerySource
  BY <1>1 DEF QueryApplications
<1>3. wPage' \in QueryPagesHeld /\ wPage'.active = Nothing /\ wPage'.history.entries = {}
  BY <1>1, <1>2, QueryBlankIsHeld
<1>4. wSession' = [draft |-> wDisk.draft, result |-> Nothing, outcome |-> Nothing, message |-> "ready"]
  BY DEF Query!Restart, Query!Restored
<1>5. wSession' \in QuerySessions /\ QueryKept'
  BY <1>1, <1>4 DEF QuerySessions, QueryDisks, QueryKept
<1>6. ASSUME NEW r \in Query!Run
      PROVE  /\ wRuns'[r] \in QueryQueries \cup {Nothing} /\ (wRuns'[r] = Nothing <=> wRuns[r] = Nothing)
             /\ wRuns'[r] # Nothing => wRuns'[r].stale
  <2>1. wRuns[r] \in QueryQueries \cup {Nothing}
    BY <1>1 DEF QueryShapes
  <2>2. CASE wRuns[r] = Nothing
    BY <2>2 DEF Query!Restart
  <2>3. CASE wRuns[r] # Nothing
    <3>1. wRuns'[r] = [wRuns[r] EXCEPT !.at = "over", !.stale = TRUE] /\ wRuns[r] \in QueryQueries
      BY <2>1, <2>3 DEF Query!Restart
    <3>2. wRuns'[r] \in QueryQueries /\ wRuns'[r].stale
      BY <3>1 DEF QueryQueries
    <3> QED
      BY <3>2, <2>3 DEF QuerySuitable
  <2> QED
    BY <2>2, <2>3
<1>7. wRuns' \in [Query!Run -> QueryQueries \cup {Nothing}]
  BY <1>6 DEF Query!Restart
<1>8. Query!Started' = Query!Started /\ QueryOrdered' /\ QueryAwaited'
  BY <1>6, <1>7, QueryGivenUp
<1>9. QueryNamed'
  BY <1>1, <1>3, <1>8 DEF QueryInv, QueryNamed
<1>10. wSpent' \in [moves : Nat, edits : Nat]
  BY <1>1, QueryCounting DEF Query!Restart
<1>11. QueryShapes'
  BY <1>1, <1>2, <1>3, <1>5, <1>7, <1>10 DEF QueryShapes
<1> QED
  BY <1>5, <1>8, <1>9, <1>11 DEF QueryInv

LEMMA QueryFactoryResetKeeps == QuerySuitable /\ QueryInv /\ Query!FactoryReset => QueryInv'
<1> SUFFICES ASSUME QuerySuitable, QueryInv, Query!FactoryReset PROVE QueryInv'
  OBVIOUS
<1>1. /\ wApp' = [wApp EXCEPT !.open = Nothing] /\ wApp \in QueryApplications /\ QueryShapes /\ ~ Query!Mounted
      /\ wPage' = wPage /\ wRuns' = wRuns /\ wCancels' = wCancels /\ wLog' = wLog
  BY DEF Query!FactoryReset, Query!Move, QueryInv, QueryShapes
<1>2. wApp' \in QueryApplications
  BY <1>1 DEF QueryApplications
<1>3. wSession' \in QuerySessions /\ wDisk' \in QueryDisks /\ QueryKept'
  BY DEF Query!FactoryReset, QuerySessions, QueryDisks, QueryKept
<1>4. Query!Started' = Query!Started /\ QueryOrdered' /\ QueryAwaited'
  BY <1>1, QueryQuietStep
<1>5. QueryNamed'
  BY <1>1, <1>4 DEF QueryInv, QueryNamed
<1>6. wSpent' \in [moves : Nat, edits : Nat]
  BY <1>1, QueryCounting DEF Query!FactoryReset
<1>7. QueryShapes'
  BY <1>1, <1>2, <1>3, <1>6 DEF QueryShapes
<1> QED
  BY <1>3, <1>4, <1>5, <1>7 DEF QueryInv

-----------------------------------------------------------------------------
(* The editor                                                              *)

\* A step of the editor: the page stays, and the query it waits for.
LEMMA QueryEditorStep ==
  ASSUME QuerySuitable, QueryInv, wApp' \in QueryApplications, wApp'.source = wApp.source, wApp'.mode = wApp.mode,
         wPage' \in QueryPagesHeld, wPage'.active = wPage.active,
         wPage'.history.entries \subseteq wPage.history.entries,
         wSession' \in QuerySessions, wDisk' \in QueryDisks, QueryKept',
         wRuns' = wRuns, wCancels' = wCancels, wLog' \subseteq wLog, wSpent' \in [moves : Nat, edits : Nat]
  PROVE  QueryInv'
<1>1. Query!Started' = Query!Started /\ QueryOrdered' /\ QueryAwaited'
  BY QueryQuietStep DEF Query!Mounted
<1>2. QueryNamed'
  BY <1>1, QueryPageKeeps DEF QueryInv, QueryNamed
<1>3. QueryShapes'
  BY DEF QueryInv, QueryShapes
<1> QED
  BY <1>1, <1>2, <1>3 DEF QueryInv

LEMMA QueryDraftedKeeps ==
  ASSUME QueryShapes, NEW q \in QuerySql \cup {Nothing}, Query!SaveSession([wSession EXCEPT !.draft = q])
  PROVE  wSession' \in QuerySessions /\ wDisk' \in QueryDisks /\ QueryKept'
<1>1. PICK next : next = [wSession EXCEPT !.draft = q]
  OBVIOUS
<1>2. next \in QuerySessions
  BY <1>1 DEF QueryShapes, QuerySessions
<1> QED
  BY <1>1, <1>2, QuerySavingKeeps

LEMMA QueryHeld == QueryInv => /\ QueryShapes /\ QueryKept /\ wApp \in QueryApplications /\ wSession \in QuerySessions /\ wDisk \in QueryDisks
                          /\ wPage \in QueryPagesHeld /\ wSpent \in [moves : Nat, edits : Nat]
                          /\ wApp.source \in QuerySource /\ wApp.model \in Nat
BY DEF QueryInv, QueryShapes, QueryApplications

LEMMA QueryEditDraftKeeps ==
  ASSUME QuerySuitable, QueryInv, NEW q \in QuerySql \cup {Nothing}, Query!EditDraft(q)
  PROVE  QueryInv'
<1>1. wApp' = wApp /\ wPage' = wPage /\ wRuns' = wRuns /\ wCancels' = wCancels /\ wLog' = wLog
  BY DEF Query!EditDraft
<1>2. wSession' \in QuerySessions /\ wDisk' \in QueryDisks /\ QueryKept'
  BY QueryHeld, QueryDraftedKeeps DEF Query!EditDraft
<1>3. wSpent' \in [moves : Nat, edits : Nat]
  BY QueryHeld, QueryCounting DEF Query!EditDraft
<1> QED
  BY <1>1, <1>2, <1>3, QueryHeld, QueryEditorStep

LEMMA QueryShowDraftingKeeps ==
  ASSUME QuerySuitable, QueryInv, NEW on \in BOOLEAN, Query!ShowDrafting(on)
  PROVE  QueryInv'
<1>1. /\ wApp' = wApp /\ wSession' = wSession /\ wDisk' = wDisk /\ wRuns' = wRuns /\ wCancels' = wCancels
      /\ wLog' = wLog /\ wSpent' = wSpent
  BY DEF Query!ShowDrafting
<1>2. wPage' = [wPage EXCEPT !.drafting = on] /\ wPage \in QueryPagesHeld
  BY QueryHeld DEF Query!ShowDrafting
<1>3. wPage' \in QueryPagesHeld /\ wPage'.active = wPage.active /\ wPage'.history = wPage.history
  BY <1>2 DEF QueryPagesHeld
<1>4. QueryKept'
  BY <1>1, QueryHeld DEF QueryKept
<1> QED
  BY <1>1, <1>3, <1>4, QueryHeld, QueryEditorStep

LEMMA QueryUseSqlKeeps ==
  ASSUME QuerySuitable, QueryInv, NEW q \in QuerySql, Query!UseSql(q)
  PROVE  QueryInv'
<1>1. wApp' = wApp /\ wSession' = wSession /\ wDisk' = wDisk /\ wRuns' = wRuns /\ wCancels' = wCancels /\ wLog' = wLog
  BY DEF Query!UseSql
<1>2. PICK offer : offer = [source |-> wApp.source, model |-> wApp.model, sql |-> q]
  OBVIOUS
<1>3. offer \in QueryOffers
  BY <1>2, QueryHeld DEF QueryOffers
<1>4. wPage' = [wPage EXCEPT !.generated = offer] /\ wPage \in QueryPagesHeld
  BY <1>2, QueryHeld DEF Query!UseSql
<1>5. wPage' \in QueryPagesHeld /\ wPage'.active = wPage.active /\ wPage'.history = wPage.history
  BY <1>3, <1>4 DEF QueryPagesHeld
<1>6. QueryKept'
  BY <1>1, QueryHeld DEF QueryKept
<1>7. wSpent' \in [moves : Nat, edits : Nat]
  BY QueryHeld, QueryCounting DEF Query!UseSql
<1> QED
  BY <1>1, <1>5, <1>6, <1>7, QueryHeld, QueryEditorStep

\* What was asked about is settled.
LEMMA QueryClosingKeeps ==
  ASSUME wApp \in QueryApplications, NEW p \in QueryPagesHeld, Query!CloseOpen(p)
  PROVE  /\ wApp' \in QueryApplications /\ wApp'.source = wApp.source /\ wApp'.mode = wApp.mode
         /\ wPage' \in QueryPagesHeld /\ wPage'.active = p.active /\ wPage'.history = p.history
<1>1. CASE wPage' = [p EXCEPT !.generated = Nothing] /\ wApp' = wApp
  BY <1>1 DEF QueryPagesHeld
<1>2. CASE wPage' = p /\ wApp' = [wApp EXCEPT !.open = Nothing]
  BY <1>2 DEF QueryApplications
<1> QED
  BY <1>1, <1>2 DEF Query!CloseOpen

LEMMA QueryReplaceKeeps == QuerySuitable /\ QueryInv /\ Query!Replace => QueryInv'
<1> SUFFICES ASSUME QuerySuitable, QueryInv, Query!Replace PROVE QueryInv'
  OBVIOUS
<1>1. wRuns' = wRuns /\ wCancels' = wCancels /\ wLog' = wLog /\ wSpent' = wSpent
  BY DEF Query!Replace
<1>2. Query!PendingGenerated # Nothing => Query!PendingGenerated.sql \in QuerySql
  BY QueryHeld DEF Query!PendingGenerated, QueryPagesHeld, QueryOffers
<1>3. PICK a : a = IF Query!PendingGenerated = Nothing THEN wPage.applied
                   ELSE [source |-> wApp.source, model |-> wApp.model,
                         previous |-> wSession.draft, sql |-> Query!PendingGenerated.sql]
  OBVIOUS
<1>4. a \in QueryApplieds \cup {Nothing}
  <2>1. wSession.draft \in QuerySql \cup {Nothing} /\ wPage.applied \in QueryApplieds \cup {Nothing}
    BY QueryHeld DEF QuerySessions, QueryPagesHeld
  <2> QED
    BY <1>2, <1>3, <2>1, QueryHeld DEF QueryApplieds
<1>5. PICK p : p = [wPage EXCEPT !.drafting = FALSE, !.applied = a]
  OBVIOUS
<1>6. p \in QueryPagesHeld /\ p.active = wPage.active /\ p.history = wPage.history
  BY <1>4, <1>5, QueryHeld DEF QueryPagesHeld
<1>7. Query!CloseOpen(p)
  <2>1. p = [wPage EXCEPT !.drafting = FALSE,
                         !.applied = IF Query!PendingGenerated = Nothing THEN @
                                     ELSE [source |-> wApp.source, model |-> wApp.model,
                                           previous |-> wSession.draft, sql |-> Query!PendingGenerated.sql]]
    BY <1>3, <1>5
  <2> QED
    BY <2>1 DEF Query!Replace
<1>8. /\ wApp' \in QueryApplications /\ wApp'.source = wApp.source /\ wApp'.mode = wApp.mode
      /\ wPage' \in QueryPagesHeld /\ wPage'.active = p.active /\ wPage'.history = p.history
  BY <1>6, <1>7, QueryHeld, QueryClosingKeeps
<1>9. PICK q : q = Query!PendingOpen
  OBVIOUS
<1>10. q \in QuerySql \cup {Nothing}
  BY <1>9, QueryHeld, QueryOpenIsSql
<1>11. Query!SaveSession([wSession EXCEPT !.draft = q])
  BY <1>9 DEF Query!Replace
<1>12. wSession' \in QuerySessions /\ wDisk' \in QueryDisks /\ QueryKept'
  BY <1>10, <1>11, QueryHeld, QueryDraftedKeeps
<1> QED
  BY <1>1, <1>6, <1>8, <1>12, QueryHeld, QueryEditorStep

LEMMA QueryCancelOpenKeeps == QuerySuitable /\ QueryInv /\ Query!CancelOpen => QueryInv'
<1> SUFFICES ASSUME QuerySuitable, QueryInv, Query!CancelOpen PROVE QueryInv'
  OBVIOUS
<1>1. /\ wSession' = wSession /\ wDisk' = wDisk /\ wRuns' = wRuns /\ wCancels' = wCancels /\ wLog' = wLog
      /\ wSpent' = wSpent
  BY DEF Query!CancelOpen
<1>2. PICK p : p = wPage
  OBVIOUS
<1>3. /\ wApp' \in QueryApplications /\ wApp'.source = wApp.source /\ wApp'.mode = wApp.mode
      /\ wPage' \in QueryPagesHeld /\ wPage'.active = p.active /\ wPage'.history = p.history
  BY <1>2, QueryHeld, QueryClosingKeeps DEF Query!CancelOpen
<1>4. QueryKept'
  BY <1>1, QueryHeld DEF QueryKept
<1> QED
  BY <1>1, <1>2, <1>3, <1>4, QueryHeld, QueryEditorStep

LEMMA QueryUndoReplacementKeeps == QuerySuitable /\ QueryInv /\ Query!UndoReplacement => QueryInv'
<1> SUFFICES ASSUME QuerySuitable, QueryInv, Query!UndoReplacement PROVE QueryInv'
  OBVIOUS
<1>1. wApp' = wApp /\ wRuns' = wRuns /\ wCancels' = wCancels /\ wLog' = wLog /\ wSpent' = wSpent
  BY DEF Query!UndoReplacement
<1>2. wPage' = [wPage EXCEPT !.applied = Nothing] /\ wPage \in QueryPagesHeld /\ wPage.applied # Nothing
  BY QueryHeld DEF Query!UndoReplacement, Query!CanUndo
<1>3. wPage' \in QueryPagesHeld /\ wPage'.active = wPage.active /\ wPage'.history = wPage.history
  BY <1>2 DEF QueryPagesHeld
<1>4. PICK q : q = wPage.applied.previous
  OBVIOUS
<1>5. q \in QuerySql \cup {Nothing}
  BY <1>2, <1>4 DEF QueryPagesHeld, QueryApplieds
<1>6. Query!SaveSession([wSession EXCEPT !.draft = q])
  BY <1>4 DEF Query!UndoReplacement
<1>7. wSession' \in QuerySessions /\ wDisk' \in QueryDisks /\ QueryKept'
  BY <1>5, <1>6, QueryHeld, QueryDraftedKeeps
<1> QED
  BY <1>1, <1>3, <1>7, QueryHeld, QueryEditorStep

LEMMA QueryRestoreHistoryKeeps ==
  ASSUME QuerySuitable, QueryInv, NEW r \in Query!Run, Query!RestoreHistory(r)
  PROVE  QueryInv'
<1>1. wApp' = wApp /\ wRuns' = wRuns /\ wCancels' = wCancels /\ wLog' = wLog
  BY DEF Query!RestoreHistory
<1>2. wPage' = [wPage EXCEPT !.drafting = FALSE] /\ wPage \in QueryPagesHeld
  BY QueryHeld DEF Query!RestoreHistory
<1>3. wPage' \in QueryPagesHeld /\ wPage'.active = wPage.active /\ wPage'.history = wPage.history
  BY <1>2 DEF QueryPagesHeld
<1>4. r \in Query!Started
  BY DEF Query!RestoreHistory, Query!ShownHistory, QueryInv, QueryNamed
<1>5. wRuns[r] \in QueryQueries
  BY <1>4 DEF Query!Started, QueryInv, QueryShapes
<1>6. PICK q : q = wRuns[r].sql
  OBVIOUS
<1>7. q \in QuerySql \cup {Nothing}
  BY <1>5, <1>6 DEF QueryQueries
<1>8. Query!SaveSession([wSession EXCEPT !.draft = q])
  BY <1>6 DEF Query!RestoreHistory
<1>9. wSession' \in QuerySessions /\ wDisk' \in QueryDisks /\ QueryKept'
  BY <1>7, <1>8, QueryHeld, QueryDraftedKeeps
<1>10. wSpent' \in [moves : Nat, edits : Nat]
  BY QueryHeld, QueryCounting DEF Query!RestoreHistory
<1> QED
  BY <1>1, <1>3, <1>9, <1>10, QueryHeld, QueryEditorStep

LEMMA QueryDeleteHistoryKeeps ==
  ASSUME QuerySuitable, QueryInv, NEW entries, Query!DeleteHistory(entries)
  PROVE  QueryInv'
<1>1. /\ wApp' = wApp /\ wSession' = wSession /\ wDisk' = wDisk /\ wRuns' = wRuns /\ wCancels' = wCancels
      /\ wLog' \subseteq wLog
  BY DEF Query!DeleteHistory
<1>2. PICK h : h = [wPage.history EXCEPT !.entries = @ \ entries]
  OBVIOUS
<1>3. wPage.history \in QueryHistories
  BY QueryHeld DEF QueryPagesHeld
<1>4. h \in QueryHistories /\ h.entries \subseteq wPage.history.entries
  BY <1>2, <1>3 DEF QueryHistories
<1>5. wPage' = [wPage EXCEPT !.history = h]
  BY <1>2, QueryHeld DEF Query!DeleteHistory, QueryPagesHeld
<1>6. wPage' \in QueryPagesHeld /\ wPage'.active = wPage.active /\ wPage'.history = h
  BY <1>4, <1>5, QueryHeld DEF QueryPagesHeld
<1>7. wSpent' \in [moves : Nat, edits : Nat]
  BY QueryHeld, QueryCounting DEF Query!DeleteHistory
<1>8. QueryKept'
  BY <1>1, QueryHeld DEF QueryKept
<1> QED
  BY <1>1, <1>4, <1>6, <1>7, <1>8, QueryHeld, QueryEditorStep

LEMMA QueryStopQueryKeeps == QuerySuitable /\ QueryInv /\ Query!StopQuery => QueryInv'
<1> SUFFICES ASSUME QuerySuitable, QueryInv, Query!StopQuery PROVE QueryInv'
  OBVIOUS
<1>1. /\ wApp' = wApp /\ wSession' = wSession /\ wPage' = wPage /\ wDisk' = wDisk /\ wRuns' = wRuns /\ wLog' = wLog
      /\ wSpent' = wSpent
  BY DEF Query!StopQuery
<1>2. wCancels' \subseteq Query!Started
  BY DEF Query!StopQuery, QueryInv, QueryNamed
<1>3. Query!Started' = Query!Started /\ QueryOrdered' /\ QueryAwaited'
  BY <1>1, QueryQuietStep DEF Query!Mounted
<1>4. QueryNamed'
  BY <1>1, <1>2, <1>3 DEF QueryInv, QueryNamed
<1>5. QueryShapes' /\ QueryKept'
  BY <1>1 DEF QueryInv, QueryShapes, QueryKept
<1> QED
  BY <1>3, <1>4, <1>5 DEF QueryInv

-----------------------------------------------------------------------------
(* The queries                                                             *)

LEMMA QueryRunQueryKeeps ==
  ASSUME QuerySuitable, QueryInv, NEW r \in Query!Run, Query!RunQuery(r)
  PROVE  QueryInv'
<1>1. /\ wApp' = wApp /\ wCancels' = wCancels /\ wLog' = wLog /\ wSpent' = wSpent
      /\ Query!Mounted /\ wPage.active = Nothing /\ wSession.draft # Nothing
      /\ r \notin Query!Started /\ 1..(r - 1) \subseteq Query!Started
  BY DEF Query!RunQuery
<1>2. PICK new : new = [source |-> wApp.source, model |-> wApp.model, sql |-> wSession.draft, at |-> "sent",
                        answer |-> Nothing, stale |-> FALSE]
  OBVIOUS
<1>3. wSession.draft \in QuerySql
  BY <1>1, QueryHeld DEF QuerySessions
<1>4. new \in QueryQueries /\ new # Nothing /\ new.source = wApp.source
  <2>1. new \in QueryQueries
    BY <1>2, <1>3, QueryHeld DEF QueryQueries
  <2> QED
    BY <1>2, <2>1 DEF QuerySuitable
<1>5. wRuns' = [wRuns EXCEPT ![r] = new]
  BY <1>2 DEF Query!RunQuery
<1>6. wRuns' \in [Query!Run -> QueryQueries \cup {Nothing}]
  BY <1>4, <1>5, QueryHeld DEF QueryShapes
<1>7. wRuns'[r] = new /\ \A o \in Query!Run \ {r} : wRuns'[o] = wRuns[o]
  BY <1>5, QueryHeld DEF QueryShapes
<1>8. Query!Started' = Query!Started \cup {r}
  BY <1>4, <1>7 DEF Query!Started
<1>9. Query!Started' = 1..r
  <2>1. \A o \in Query!Started : o < r
    <3>1. SUFFICES ASSUME NEW o \in Query!Started, ~ (o < r) PROVE FALSE
      OBVIOUS
    <3>2. o \in 1..QueryMaxRuns /\ r \in 1..QueryMaxRuns /\ 1..o \subseteq Query!Started
      BY DEF Query!Started, Query!Run, QueryInv, QueryOrdered
    <3>3. r \in 1..o
      BY <3>1, <3>2 DEF QuerySuitable
    <3> QED
      BY <1>1, <3>2, <3>3
  <2>2. Query!Started \subseteq 1..QueryMaxRuns /\ r \in 1..QueryMaxRuns
    BY DEF Query!Started, Query!Run
  <2>3. Query!Started \subseteq 1..(r - 1)
    BY <2>1, <2>2 DEF QuerySuitable
  <2>4. 1..(r - 1) \cup {r} = 1..r
    BY <2>2 DEF QuerySuitable
  <2> QED
    BY <1>1, <1>8, <2>3, <2>4
<1>10. QueryOrdered'
  <2>1. ASSUME NEW o \in 1..r PROVE 1..o \subseteq 1..r
    BY <2>1 DEF Query!Run, QuerySuitable
  <2> QED
    BY <1>9, <2>1 DEF QueryOrdered
<1>11. PICK next : next = [wSession EXCEPT !.message = "running"]
  OBVIOUS
<1>12. next \in QuerySessions
  BY <1>11, QueryHeld DEF QuerySessions
<1>13. wSession' \in QuerySessions /\ wDisk' \in QueryDisks /\ QueryKept'
  BY <1>11, <1>12, QueryHeld, QuerySavingKeeps DEF Query!RunQuery
<1>14. wPage' = [wPage EXCEPT !.active = r, !.applied = Nothing, !.execution = Nothing] /\ wPage \in QueryPagesHeld
  BY QueryHeld DEF Query!RunQuery
<1>15. wPage' \in QueryPagesHeld /\ wPage'.active = r /\ wPage'.history = wPage.history
  BY <1>14 DEF QueryPagesHeld
<1>16. QueryAwaited'
  <2>1. ASSUME NEW o \in Query!Run, QueryCurrent(o)'
        PROVE  Query!Mounted' /\ wPage'.active = o /\ wRuns'[o].source = wApp'.source /\ Query!Started' = 1..o
    <3>1. CASE o = r
      BY <1>1, <1>4, <1>7, <1>9, <1>15, <3>1 DEF Query!Mounted
    <3>2. CASE o # r
      <4>1. QueryCurrent(o)
        BY <1>7, <2>1, <3>2 DEF QueryCurrent
      <4>2. wPage.active = o
        BY <4>1 DEF QueryInv, QueryAwaited
      <4> QED
        BY <1>1, <4>2 DEF QuerySuitable
    <3> QED
      BY <3>1, <3>2
  <2> QED
    BY <2>1 DEF QueryAwaited
<1>17. QueryNamed'
  BY <1>1, <1>8, <1>15 DEF QueryInv, QueryNamed
<1>18. QueryShapes'
  BY <1>1, <1>6, <1>13, <1>15, QueryHeld DEF QueryShapes
<1> QED
  BY <1>10, <1>13, <1>16, <1>17, <1>18 DEF QueryInv

\* A query that goes on keeps its place in the order.
LEMMA QueryGoingOn ==
  ASSUME QuerySuitable, QueryInv, NEW r \in Query!Started, NEW q \in QueryQueries,
         wRuns' = [wRuns EXCEPT ![r] = q], q.source = wRuns[r].source, q.stale = wRuns[r].stale,
         q.at # "over" => wRuns[r].at # "over",
         wApp' = wApp, wPage'.active \in {wPage.active, Nothing},
         wPage'.active # wPage.active => wPage.active = r /\ q.at = "over"
  PROVE  /\ wRuns' \in [Query!Run -> QueryQueries \cup {Nothing}]
         /\ Query!Started' = Query!Started /\ QueryOrdered' /\ QueryAwaited'
<1>1. r \in Query!Run /\ wRuns[r] # Nothing /\ wRuns \in [Query!Run -> QueryQueries \cup {Nothing}]
  BY DEF Query!Started, QueryInv, QueryShapes
<1>2. wRuns' \in [Query!Run -> QueryQueries \cup {Nothing}]
  BY <1>1
<1>3. wRuns'[r] = q /\ \A o \in Query!Run \ {r} : wRuns'[o] = wRuns[o]
  BY <1>1
<1>4. Query!Started' = Query!Started
  BY <1>1, <1>3 DEF Query!Started, QuerySuitable
<1>5. QueryOrdered'
  BY <1>4 DEF QueryInv, QueryOrdered
<1>6. ASSUME NEW o \in Query!Run, QueryCurrent(o)'
      PROVE  Query!Mounted' /\ wPage'.active = o /\ wRuns'[o].source = wApp'.source /\ Query!Started' = 1..o
  <2>1. QueryCurrent(o) /\ wRuns'[o].source = wRuns[o].source
    BY <1>1, <1>3, <1>6 DEF QueryCurrent
  <2>2. Query!Mounted /\ wPage.active = o /\ wRuns[o].source = wApp.source /\ Query!Started = 1..o
    BY <2>1 DEF QueryInv, QueryAwaited
  <2>3. wPage'.active = wPage.active
    BY <1>3, <1>6, <2>2 DEF QueryCurrent
  <2> QED
    BY <1>4, <2>1, <2>2, <2>3 DEF Query!Mounted
<1> QED
  BY <1>2, <1>4, <1>5, <1>6 DEF QueryAwaited

LEMMA QueryRegisterKeeps ==
  ASSUME QuerySuitable, QueryInv, NEW r \in Query!Run, Query!Register(r)
  PROVE  QueryInv'
<1>1. /\ wApp' = wApp /\ wSession' = wSession /\ wPage' = wPage /\ wDisk' = wDisk /\ wCancels' = wCancels
      /\ wLog' = wLog /\ wSpent' = wSpent /\ r \in Query!Started /\ wRuns[r].at = "sent"
  BY DEF Query!Register
<1>2. wRuns[r] \in QueryQueries /\ wRuns \in [Query!Run -> QueryQueries \cup {Nothing}]
  BY <1>1 DEF Query!Started, QueryInv, QueryShapes
<1>3. PICK q : /\ wRuns' = [wRuns EXCEPT ![r] = q]
               /\ q = [wRuns[r] EXCEPT !.at = "answered", !.answer = "failed"] \/ q = [wRuns[r] EXCEPT !.at = "active"]
  BY DEF Query!Register
<1>4. q \in QueryQueries /\ q.source = wRuns[r].source /\ q.stale = wRuns[r].stale
  BY <1>2, <1>3 DEF QueryQueries
<1>5. /\ wRuns' \in [Query!Run -> QueryQueries \cup {Nothing}]
      /\ Query!Started' = Query!Started /\ QueryOrdered' /\ QueryAwaited'
  BY <1>1, <1>3, <1>4, QueryGoingOn
<1>6. QueryNamed' /\ QueryKept'
  BY <1>1, <1>5 DEF QueryInv, QueryNamed, QueryKept
<1>7. QueryShapes'
  BY <1>1, <1>5, QueryHeld DEF QueryShapes
<1> QED
  BY <1>5, <1>6, <1>7 DEF QueryInv

LEMMA QueryCancelArrivesKeeps ==
  ASSUME QuerySuitable, QueryInv, NEW r \in Query!Run, Query!CancelArrives(r)
  PROVE  QueryInv'
<1>1. /\ wApp' = wApp /\ wSession' = wSession /\ wPage' = wPage /\ wDisk' = wDisk /\ wCancels' \subseteq wCancels
      /\ wLog' = wLog /\ wSpent' = wSpent /\ r \in Query!Started
  BY DEF Query!CancelArrives, QueryInv, QueryNamed
<1>2. wRuns[r] \in QueryQueries /\ wRuns \in [Query!Run -> QueryQueries \cup {Nothing}]
  BY <1>1 DEF Query!Started, QueryInv, QueryShapes
<1>3. PICK q : wRuns' = [wRuns EXCEPT ![r] = q] /\ (q = wRuns[r] \/ q = [wRuns[r] EXCEPT !.answer = "cancelled"])
  <2>1. CASE wRuns[r].at = "active"
    <3>1. wRuns' = [wRuns EXCEPT ![r] = [wRuns[r] EXCEPT !.answer = "cancelled"]]
      BY <2>1, <1>2 DEF Query!CancelArrives
    <3> QED
      BY <3>1
  <2>2. CASE wRuns[r].at # "active"
    <3>1. wRuns' = [wRuns EXCEPT ![r] = wRuns[r]]
      BY <2>2, <1>2 DEF Query!CancelArrives
    <3> QED
      BY <3>1
  <2> QED
    BY <2>1, <2>2
<1>4. q \in QueryQueries /\ q.source = wRuns[r].source /\ q.stale = wRuns[r].stale /\ q.at = wRuns[r].at
  BY <1>2, <1>3 DEF QueryQueries
<1>5. /\ wRuns' \in [Query!Run -> QueryQueries \cup {Nothing}]
      /\ Query!Started' = Query!Started /\ QueryOrdered' /\ QueryAwaited'
  BY <1>1, <1>3, <1>4, QueryGoingOn
<1>6. QueryNamed' /\ QueryKept'
  BY <1>1, <1>5 DEF QueryInv, QueryNamed, QueryKept
<1>7. QueryShapes'
  BY <1>1, <1>5, QueryHeld DEF QueryShapes
<1> QED
  BY <1>5, <1>6, <1>7 DEF QueryInv

LEMMA QueryFinishKeeps ==
  ASSUME QuerySuitable, QueryInv, NEW r \in Query!Run, NEW a \in {"succeeded", "failed"}, Query!Finish(r, a)
  PROVE  QueryInv'
<1>1. /\ wApp' = wApp /\ wSession' = wSession /\ wPage' = wPage /\ wDisk' = wDisk /\ wCancels' = wCancels
      /\ wSpent' = wSpent /\ r \in Query!Started /\ wRuns[r].at = "active" /\ wLog' = wLog \cup {r}
  BY DEF Query!Finish, Query!Active
<1>2. wRuns[r] \in QueryQueries /\ wRuns \in [Query!Run -> QueryQueries \cup {Nothing}]
  BY <1>1 DEF Query!Started, QueryInv, QueryShapes
<1>3. PICK q : q = [wRuns[r] EXCEPT !.at = "answered", !.answer = a]
  OBVIOUS
<1>4. wRuns' = [wRuns EXCEPT ![r] = q]
  BY <1>2, <1>3 DEF Query!Finish
<1>5. q \in QueryQueries /\ q.source = wRuns[r].source /\ q.stale = wRuns[r].stale
  BY <1>2, <1>3 DEF QueryQueries
<1>6. /\ wRuns' \in [Query!Run -> QueryQueries \cup {Nothing}]
      /\ Query!Started' = Query!Started /\ QueryOrdered' /\ QueryAwaited'
  BY <1>1, <1>4, <1>5, QueryGoingOn
<1>7. QueryNamed' /\ QueryKept'
  BY <1>1, <1>6 DEF QueryInv, QueryNamed, QueryKept
<1>8. QueryShapes'
  BY <1>1, <1>6, QueryHeld DEF QueryShapes
<1> QED
  BY <1>6, <1>7, <1>8 DEF QueryInv

LEMMA QueryDeliverKeeps ==
  ASSUME QuerySuitable, QueryInv, NEW r \in Query!Run, Query!Deliver(r)
  PROVE  QueryInv'
<1>1. /\ wApp' = wApp /\ wCancels' = wCancels /\ wLog' = wLog /\ wSpent' = wSpent
      /\ r \in Query!Started /\ wRuns[r].at = "answered"
  BY DEF Query!Deliver
<1>2. wRuns[r] \in QueryQueries /\ wRuns \in [Query!Run -> QueryQueries \cup {Nothing}]
  BY <1>1 DEF Query!Started, QueryInv, QueryShapes
<1>3. PICK q : q = [wRuns[r] EXCEPT !.at = "over"]
  OBVIOUS
<1>4. wRuns' = [wRuns EXCEPT ![r] = q]
  BY <1>2, <1>3 DEF Query!Deliver
<1>5. q \in QueryQueries /\ q.source = wRuns[r].source /\ q.stale = wRuns[r].stale /\ q.at = "over"
  BY <1>2, <1>3 DEF QueryQueries
<1>6. PICK freed : freed = IF Query!Mounted /\ wPage.active = r THEN [wPage EXCEPT !.active = Nothing] ELSE wPage
  OBVIOUS
<1>7. /\ freed \in QueryPagesHeld /\ freed.history = wPage.history
      /\ freed.active = wPage.active \/ (freed.active = Nothing /\ wPage.active = r)
  BY <1>6, QueryHeld DEF QueryPagesHeld
<1>8. /\ wPage' \in QueryPagesHeld /\ wPage'.history = wPage.history /\ wPage'.active = freed.active
      /\ wSession' \in QuerySessions /\ wDisk' \in QueryDisks /\ QueryKept'
  <2>1. CASE wRuns[r].stale
    <3>1. wPage' = freed /\ wSession' = wSession /\ wDisk' = wDisk
      BY <1>6, <2>1 DEF Query!Deliver
    <3> QED
      BY <1>7, <3>1, QueryHeld DEF QueryKept
  <2>2. CASE ~ wRuns[r].stale /\ wRuns[r].answer = "succeeded"
    <3>1. PICK e : e = [source |-> wRuns[r].source, model |-> wRuns[r].model, run |-> r]
      OBVIOUS
    <3>2. e \in QueryExecutions
      BY <1>2, <3>1 DEF QueryQueries, QueryExecutions
    <3>3. wPage' = [freed EXCEPT !.execution = e, !.reading = wApp.source]
      BY <1>6, <2>2, <3>1 DEF Query!Deliver
    <3>4. wPage' \in QueryPagesHeld /\ wPage'.history = freed.history /\ wPage'.active = freed.active
      BY <1>7, <3>2, <3>3, QueryHeld DEF QueryPagesHeld
    <3>5. PICK next : next = [wSession EXCEPT !.result = r, !.outcome = "succeeded", !.message = "done"]
      OBVIOUS
    <3>6. next \in QuerySessions
      BY <3>5, QueryHeld DEF QuerySessions
    <3>7. Query!SaveSession(next)
      BY <2>2, <3>5 DEF Query!Deliver
    <3> QED
      BY <1>7, <3>4, <3>6, <3>7, QueryHeld, QuerySavingKeeps
  <2>3. CASE ~ wRuns[r].stale /\ wRuns[r].answer # "succeeded"
    <3>1. wPage' = [freed EXCEPT !.reading = wApp.source]
      BY <1>6, <2>3 DEF Query!Deliver
    <3>2. wPage' \in QueryPagesHeld /\ wPage'.history = freed.history /\ wPage'.active = freed.active
      BY <1>7, <3>1, QueryHeld DEF QueryPagesHeld
    <3>3. PICK next : next = [wSession EXCEPT !.outcome = "failed", !.message = "failed"]
      OBVIOUS
    <3>4. next \in QuerySessions
      BY <3>3, QueryHeld DEF QuerySessions
    <3>5. Query!SaveSession(next)
      BY <2>3, <3>3 DEF Query!Deliver
    <3> QED
      BY <1>7, <3>2, <3>4, <3>5, QueryHeld, QuerySavingKeeps
  <2> QED
    BY <2>1, <2>2, <2>3
<1>9. /\ wRuns' \in [Query!Run -> QueryQueries \cup {Nothing}]
      /\ Query!Started' = Query!Started /\ QueryOrdered' /\ QueryAwaited'
  BY <1>1, <1>4, <1>5, <1>7, <1>8, QueryGoingOn
<1>10. QueryNamed'
  BY <1>1, <1>7, <1>8, <1>9, QueryPageKeeps DEF QueryInv, QueryNamed
<1>11. QueryShapes'
  BY <1>1, <1>8, <1>9, QueryHeld DEF QueryShapes
<1> QED
  BY <1>8, <1>9, <1>10, <1>11 DEF QueryInv

LEMMA QueryHistoryDeliveredKeeps == QuerySuitable /\ QueryInv /\ Query!HistoryDelivered => QueryInv'
<1> SUFFICES ASSUME QuerySuitable, QueryInv, Query!HistoryDelivered PROVE QueryInv'
  OBVIOUS
<1>1. /\ wApp' = wApp /\ wSession' = wSession /\ wDisk' = wDisk /\ wRuns' = wRuns /\ wCancels' = wCancels
      /\ wLog' = wLog /\ wSpent' = wSpent
  BY DEF Query!HistoryDelivered
<1>2. PICK h : h = [of |-> wPage.reading, entries |-> {r \in wLog : wRuns[r].source = wPage.reading}]
  OBVIOUS
<1>3. h \in QueryHistories /\ h.entries \subseteq Query!Started
  <2>1. wLog \subseteq Query!Started /\ Query!Started \subseteq Query!Run
    BY DEF QueryInv, QueryNamed, Query!Started
  <2>2. wPage.reading \in QuerySource \cup {Nothing}
    BY QueryHeld DEF QueryPagesHeld
  <2> QED
    BY <1>2, <2>1, <2>2 DEF QueryHistories
<1>4. wPage' = [wPage EXCEPT !.history = h, !.reading = Nothing] /\ wPage \in QueryPagesHeld
  BY <1>2, QueryHeld DEF Query!HistoryDelivered
<1>5. wPage' \in QueryPagesHeld /\ wPage'.active = wPage.active /\ wPage'.history = h
  BY <1>3, <1>4 DEF QueryPagesHeld
<1>6. Query!Started' = Query!Started /\ QueryOrdered' /\ QueryAwaited'
  BY <1>1, <1>5, QueryQuietStep DEF Query!Mounted
<1>7. QueryNamed' /\ QueryKept'
  BY <1>1, <1>3, <1>5, <1>6 DEF QueryInv, QueryNamed, QueryKept
<1>8. QueryShapes'
  BY <1>1, <1>5, QueryHeld DEF QueryShapes, QueryInv
<1> QED
  BY <1>6, <1>7, <1>8 DEF QueryInv

-----------------------------------------------------------------------------
(* The results                                                             *)

LEMMA QueryStepKeeps == QuerySuitable /\ QueryInv /\ [Query!Next]_Query!vars => QueryInv'
<1> SUFFICES ASSUME QuerySuitable, QueryInv, [Query!Next]_Query!vars PROVE QueryInv'
  OBVIOUS
<1>1. CASE UNCHANGED Query!vars
  <2>1. Query!Started' = Query!Started /\ QueryOrdered' /\ QueryAwaited'
    BY <1>1, QueryQuietStep DEF Query!vars, Query!Mounted
  <2>2. QueryShapes' /\ QueryNamed' /\ QueryKept'
    BY <1>1, <2>1 DEF Query!vars, QueryInv, QueryShapes, QueryNamed, QueryKept
  <2> QED
    BY <2>1, <2>2 DEF QueryInv
<1>2. CASE Query!Navigate
  BY <1>2, QueryOpenPageKeeps, QueryLeavePageKeeps, QueryNewModelKeeps, QueryRestartKeeps, QueryFactoryResetKeeps,
     QuerySwitchSourceKeeps, QueryOpenTableKeeps DEF Query!Navigate
<1>3. CASE Query!Author
  BY <1>3, QueryEditDraftKeeps, QueryUseSqlKeeps, QueryShowDraftingKeeps, QueryReplaceKeeps, QueryCancelOpenKeeps,
     QueryUndoReplacementKeeps, QueryStopQueryKeeps, QueryRunQueryKeeps, QueryRestoreHistoryKeeps, QueryDeleteHistoryKeeps
     DEF Query!Author
<1>4. CASE Query!Answer
  BY <1>4, QueryRegisterKeeps, QueryDeliverKeeps, QueryFinishKeeps, QueryHistoryDeliveredKeeps DEF Query!Answer
<1>5. CASE \E r \in Query!Run : Query!CancelArrives(r)
  BY <1>5, QueryCancelArrivesKeeps
<1> QED
  BY <1>1, <1>2, <1>3, <1>4, <1>5 DEF Query!Next

\* Whatever the user, the desktop and the storage do, the invariant holds.
THEOREM QueryInductive == Query!Spec => []QueryInv
<1> QuerySuitable
  BY PartsAreSuited
<1>1. Query!Init => QueryInv
  BY QueryInitEstablishes
<1>2. QueryInv /\ [Query!Next]_Query!vars => QueryInv'
  BY QueryStepKeeps
<1> QED
  BY <1>1, <1>2, PTL DEF Query!Spec

\* Every part of the workspace keeps its type; in particular the page waits for a query that was started.
THEOREM QueryTypeCorrect == Query!Spec => []Query!TypeOK
<1>1. QueryInv => Query!TypeOK
  <2> SUFFICES ASSUME QueryInv PROVE Query!TypeOK
    OBVIOUS
  <2>1. wApp.source \in QuerySource /\ wApp.mode \in {"query", "explore"} /\ wApp.open \in QuerySql \cup {Nothing}
    BY QueryHeld DEF QueryApplications
  <2>2. /\ wSession.draft \in QuerySql \cup {Nothing} /\ wSession.result \in Query!Run \cup {Nothing}
        /\ wSession.outcome \in {Nothing, "succeeded", "failed"}
    BY QueryHeld DEF QuerySessions
  <2>3. wPage.active \in Query!Run \cup {Nothing} /\ wPage.drafting \in BOOLEAN
    BY QueryHeld DEF QueryPagesHeld
  <2> QED
    BY <2>1, <2>2, <2>3 DEF Query!TypeOK, QueryInv, QueryNamed
<1> QED
  BY <1>1, QueryInductive, PTL

\* The result shown changes in one step only: the delivery of an answer that is not stale.
LEMMA QueryResultIsDelivered ==
  ASSUME QueryInv, Query!Next, wSession'.result \notin {wSession.result, Nothing}
  PROVE  \E r \in Query!Started : Query!Deliver(r) /\ ~ wRuns[r].stale /\ wSession'.result = r
<1>1. wSession \in QuerySessions /\ wApp \in QueryApplications
  BY QueryHeld
<1>2. ASSUME NEW next, next.result \in {wSession.result, Nothing}, Query!SaveSession(next) PROVE FALSE
  BY <1>2 DEF Query!SaveSession
<1>3. ASSUME wSession' = wSession PROVE FALSE
  BY <1>3
<1>4. ASSUME NEW q, Query!SaveSession([wSession EXCEPT !.draft = q]) PROVE FALSE
  <2>1. PICK next : next = [wSession EXCEPT !.draft = q]
    OBVIOUS
  <2>2. next.result = wSession.result
    BY <1>1, <2>1 DEF QuerySessions
  <2>3. Query!SaveSession(next)
    BY <1>4, <2>1
  <2> QED
    BY <1>2, <2>2, <2>3
<1>5. ~ Query!Navigate
  <2>1. ~ Query!OpenPage /\ ~ Query!LeavePage /\ ~ Query!NewModel /\ ~ \E q \in QuerySql : Query!OpenTable(q)
    <3>1. ~ Query!SaveSession(wSession)
      BY <1>2
    <3> QED
      BY <1>3, <3>1 DEF Query!OpenPage, Query!LeavePage, Query!NewModel, Query!OpenTable
  <2>2. ~ Query!Restart /\ ~ Query!FactoryReset
    <3>1. Query!Restart => wSession'.result = Nothing
      <4>1. Query!Restart => wSession' = Query!Restored
        BY DEF Query!Restart
      <4>2. Query!Restored.result = Nothing
        BY DEF Query!Restored
      <4> QED
        BY <4>1, <4>2
    <3>2. Query!FactoryReset => wSession'.result = Nothing
      BY DEF Query!FactoryReset
    <3> QED
      BY <3>1, <3>2
  <2>3. ASSUME NEW s \in QuerySource, Query!SwitchSource(s) PROVE FALSE
    <3>1. PICK next : next = [wSession EXCEPT !.result = Nothing, !.outcome = Nothing, !.message = "changed"]
      OBVIOUS
    <3>2. next.result = Nothing
      BY <1>1, <3>1 DEF QuerySessions
    <3>3. ~ Query!SaveSession(next)
      BY <1>2, <3>2
    <3> QED
      BY <1>3, <2>3, <3>1, <3>3 DEF Query!SwitchSource
  <2> QED
    BY <2>1, <2>2, <2>3 DEF Query!Navigate
<1>6. ~ Query!Author
  <2>1. ~ \E q \in QuerySql \cup {Nothing} : Query!EditDraft(q)
    BY <1>4 DEF Query!EditDraft
  <2>2. /\ ~ (\E q \in QuerySql : Query!UseSql(q)) /\ ~ (\E on \in BOOLEAN : Query!ShowDrafting(on))
        /\ ~ Query!CancelOpen /\ ~ Query!StopQuery /\ \A entries : ~ Query!DeleteHistory(entries)
    BY <1>3 DEF Query!UseSql, Query!ShowDrafting, Query!CancelOpen, Query!StopQuery, Query!DeleteHistory
  <2>3. ~ Query!Replace /\ ~ Query!UndoReplacement /\ \A r \in Query!Run : ~ Query!RestoreHistory(r)
    BY <1>4 DEF Query!Replace, Query!UndoReplacement, Query!RestoreHistory
  <2>4. ASSUME NEW r \in Query!Run, Query!RunQuery(r) PROVE FALSE
    <3>1. PICK next : next = [wSession EXCEPT !.message = "running"]
      OBVIOUS
    <3>2. next.result = wSession.result
      BY <1>1, <3>1 DEF QuerySessions
    <3>3. ~ Query!SaveSession(next)
      BY <1>2, <3>2
    <3> QED
      BY <2>4, <3>1, <3>3 DEF Query!RunQuery
  <2> QED
    BY <2>1, <2>2, <2>3, <2>4 DEF Query!Author
<1>7. ~ \E r \in Query!Run : Query!CancelArrives(r)
  BY <1>3 DEF Query!CancelArrives
<1>8. ~ Query!HistoryDelivered /\ \A r \in Query!Run : ~ Query!Register(r) /\ \A a : ~ Query!Finish(r, a)
  BY <1>3 DEF Query!HistoryDelivered, Query!Register, Query!Finish
<1>9. PICK r \in Query!Run : Query!Deliver(r)
  BY <1>5, <1>6, <1>7, <1>8 DEF Query!Next, Query!Answer
<1>10. r \in Query!Started
  BY <1>9 DEF Query!Deliver
<1>11. ~ wRuns[r].stale
  BY <1>3, <1>9 DEF Query!Deliver
<1>12. CASE wRuns[r].answer = "succeeded"
  <2>1. Query!SaveSession([wSession EXCEPT !.result = r, !.outcome = "succeeded", !.message = "done"])
    BY <1>9, <1>11, <1>12 DEF Query!Deliver
  <2>2. [wSession EXCEPT !.result = r, !.outcome = "succeeded", !.message = "done"].result = r
    BY <1>1 DEF QuerySessions
  <2>3. wSession'.result = r
    BY <2>1, <2>2 DEF Query!SaveSession
  <2> QED
    BY <1>9, <1>10, <1>11, <2>3
<1>13. CASE wRuns[r].answer # "succeeded"
  <2>1. PICK next : next = [wSession EXCEPT !.outcome = "failed", !.message = "failed"]
    OBVIOUS
  <2>2. next.result = wSession.result
    BY <1>1, <2>1 DEF QuerySessions
  <2>3. Query!SaveSession(next)
    BY <1>9, <1>11, <1>13, <2>1 DEF Query!Deliver
  <2> QED
    BY <1>2, <2>2, <2>3
<1> QED
  BY <1>12, <1>13

\* A result that arrives is the one of the last query that was started, and of the source in the
\* workspace (QueryPage.tsx, the revision a run compares before it shows its answer).
THEOREM QueryAnswersAreInOrder == Query!Spec => AnswersInOrder
<1>1. ASSUME QueryInv, [Query!Next]_Query!vars
      PROVE  [wSession'.result \notin {wSession.result, Nothing} =>
                /\ Query!Started = 1..wSession'.result
                /\ wRuns[wSession'.result].source = wApp.source]_Query!vars
  <2> SUFFICES ASSUME Query!Next, wSession'.result \notin {wSession.result, Nothing}
               PROVE  Query!Started = 1..wSession'.result /\ wRuns[wSession'.result].source = wApp.source
    BY <1>1 DEF Query!vars
  <2>1. PICK r \in Query!Started : Query!Deliver(r) /\ ~ wRuns[r].stale /\ wSession'.result = r
    BY <1>1, QueryResultIsDelivered
  <2>2. r \in Query!Run /\ QueryCurrent(r)
    BY <2>1 DEF Query!Deliver, QueryCurrent, Query!Started
  <2> QED
    BY <1>1, <2>1, <2>2 DEF QueryInv, QueryAwaited
<1> QED
  BY <1>1, QueryInductive, PTL DEF Query!Spec, AnswersInOrder, Query!AnswersInOrder

\* A restart for an update finds the draft as it was left: it waits while the device refuses to keep it
\* (query-state.ts, update-guard.ts).
THEOREM QueryDraftsSurvive == Query!Spec => DraftSurvives
<1>1. ASSUME QueryInv, [Query!Next]_Query!vars
      PROVE  [Query!Restart => wSession'.draft = wSession.draft]_Query!vars
  <2> SUFFICES ASSUME Query!Restart PROVE wSession'.draft = wSession.draft
    BY DEF Query!vars
  <2> QED
    BY <1>1 DEF Query!Restart, Query!Restored, QueryInv, QueryKept
<1> QED
  BY <1>1, QueryInductive, PTL DEF Query!Spec, DraftSurvives, Query!DraftSurvives

-----------------------------------------------------------------------------
(* The query assistant                                                     *)

ConverseKnown == Nat \cup {Nothing}
ConverseTurns == [id : Nat, auto : BOOLEAN, answer : ConverseKnown, note : ConverseNote]
ConverseCancels == [op : {"cancel"}, request : ConverseKnown]
ConverseAsked == [op : {"prepare"}, generation : Nat, turn : Nat]
ConversePreviews == [op : {"prepared"}, generation : Nat, turn : Nat, request : ConverseKnown]
ConverseSendings == [op : {"run", "running", "answered", "failed"}, generation : Nat, turn : Nat, request : Nat]
ConverseCalls == ConverseCancels \cup ConverseAsked \cup ConversePreviews \cup ConverseSendings

\* There are settings to ask with, and "nothing" is no request.

\* The requests are numbered, and a call for one is for the question it was prepared for.
ConverseNumbered == \E n \in Nat : Converse!Request = 1..n
ConverseFaithful(c) ==
  c \in ConversePreviews \cup ConverseSendings /\ c.request # Nothing =>
    c.request \in Converse!Request /\ cPrepared[c.request].question = c.turn

ConverseShapes ==
  /\ cTurns \in Seq(ConverseTurns) /\ cNextId \in Nat
  /\ cShown \in Converse!Policies(ConverseModel, ConverseNote) /\ cPolicy \in Converse!Policies(ConverseModel, ConverseNote)
  /\ cGeneration \in Nat /\ cRequest \in ConverseKnown /\ cCalls \subseteq ConverseCalls
  /\ cMounted => cTurns # << >>
  /\ cDue => cMounted

\* One call at most is of the request in force, and it is for that request.
ConverseInForce(c) == c \notin ConverseCancels /\ c.generation = cGeneration
ConverseOneInForce ==
  /\ \A c \in cCalls : c \notin ConverseCancels => c.generation <= cGeneration
  /\ \A c, d \in cCalls : ConverseInForce(c) /\ ConverseInForce(d) => c = d
  /\ \A c \in cCalls : ConverseInForce(c) /\ c \in ConverseSendings => cRequest = c.request

ConverseInv == ConverseShapes /\ ConverseNumbered /\ (\A c \in cCalls : ConverseFaithful(c)) /\ ConverseOneInForce

\* What the property says of a step.
ConverseCurrent ==
  \A i \in DOMAIN cTurns \cap DOMAIN cTurns' :
    cTurns'[i].answer # cTurns[i].answer /\ cTurns'[i].answer # Nothing
      => /\ cRequest = cTurns'[i].answer /\ cRequest \notin cLapsed
         /\ cPrepared[cRequest].question = cTurns[i].id

\* What is prepared stays as it is.
ConverseOnward == Converse!Request \subseteq DOMAIN cPrepared' /\ \A r \in Converse!Request : cPrepared'[r] = cPrepared[r]

\* The calls by what they ask.
LEMMA ConverseCallsAreOf ==
  ASSUME NEW c \in ConverseCalls
  PROVE  /\ (c.op = "cancel" <=> c \in ConverseCancels) /\ (c.op = "prepare" <=> c \in ConverseAsked)
         /\ (c.op = "prepared" <=> c \in ConversePreviews)
         /\ (c.op \in {"run", "running", "answered", "failed"} <=> c \in ConverseSendings)
<1>1. c \in ConverseCancels => c.op = "cancel"
  BY DEF ConverseCancels
<1>2. c \in ConverseAsked => c.op = "prepare"
  BY DEF ConverseAsked
<1>3. c \in ConversePreviews => c.op = "prepared"
  BY DEF ConversePreviews
<1>4. c \in ConverseSendings => c.op \in {"run", "running", "answered", "failed"}
  BY DEF ConverseSendings
<1> QED BY <1>1, <1>2, <1>3, <1>4 DEF ConverseCalls

LEMMA ConverseCancelsAre == \A r \in ConverseKnown : Converse!CancelCalls(Converse!Ids(r)) \subseteq ConverseCancels /\ Converse!CancelCalls({r}) \subseteq ConverseCancels
BY DEF Converse!CancelCalls, Converse!Ids, ConverseCancels

LEMMA ConverseStaysFaithful ==
  ASSUME ConverseOnward, NEW c, ConverseFaithful(c) PROVE ConverseFaithful(c)'
BY DEF ConverseOnward, ConverseFaithful, Converse!Request

\* Another generation has none of the calls before it.
LEMMA ConverseOlderAreOver ==
  ASSUME ConverseInv, cGeneration' = cGeneration + 1, cCalls' \subseteq cCalls \cup ConverseCancels
  PROVE  ConverseOneInForce'
<1>1. \A c \in cCalls' : c \notin ConverseCancels => c.generation \in Nat /\ c.generation < cGeneration'
  <2>1. ASSUME NEW c \in cCalls, c \notin ConverseCancels PROVE c.generation \in Nat /\ c.generation <= cGeneration
    BY <2>1 DEF ConverseInv, ConverseShapes, ConverseCalls, ConverseAsked, ConversePreviews, ConverseSendings, ConverseOneInForce
  <2> QED BY <2>1 DEF ConverseInv, ConverseShapes
<1>2. cGeneration' \in Nat
  BY DEF ConverseInv, ConverseShapes
<1> QED BY <1>1, <1>2 DEF ConverseOneInForce, ConverseInForce

LEMMA ConverseFewerInForce ==
  ASSUME ConverseInv, cGeneration' = cGeneration, NEW S, S \subseteq ConverseCancels, NEW c, cCalls' = (cCalls \ {c}) \cup S,
         cRequest' = cRequest \/ (c \in cCalls /\ ConverseInForce(c))
  PROVE  ConverseOneInForce'
BY DEF ConverseInv, ConverseOneInForce, ConverseInForce

\* A call that goes on is the one in force if it was before.
LEMMA ConverseGoesOn ==
  ASSUME ConverseInv, NEW c \in cCalls, c \notin ConverseCancels, NEW d, d \notin ConverseCancels, d.generation = c.generation,
         cCalls' = (cCalls \ {c}) \cup {d}, cGeneration' = cGeneration,
         cRequest' = cRequest \/ c.generation = cGeneration,
         d \in ConverseSendings /\ d.generation = cGeneration => cRequest' = d.request
  PROVE  ConverseOneInForce'
<1>1. d.generation <= cGeneration
  BY DEF ConverseInv, ConverseOneInForce
<1> QED BY <1>1 DEF ConverseInv, ConverseOneInForce, ConverseInForce

\* A step of the page alone that begins another generation.
LEMMA ConverseBeginsAgain ==
  ASSUME ConverseInv, UNCHANGED cPrepared, cGeneration' = cGeneration + 1, cCalls' = cCalls \cup Converse!CancelCalls(Converse!Ids(cRequest)),
         cRequest' \in ConverseKnown, cPolicy' = cPolicy, cShown' \in Converse!Policies(ConverseModel, ConverseNote),
         cTurns' \in Seq(ConverseTurns), cNextId' \in Nat, cMounted' => cTurns' # << >>, cDue' => cMounted'
  PROVE  ConverseInv'
<1>1. Converse!CancelCalls(Converse!Ids(cRequest)) \subseteq ConverseCancels
  BY ConverseCancelsAre DEF ConverseInv, ConverseShapes
<1>2. ConverseOneInForce'
  BY <1>1, ConverseOlderAreOver
<1>3. ConverseShapes'
  BY <1>1 DEF ConverseInv, ConverseShapes, ConverseCalls
<1>4. ConverseNumbered' /\ ConverseOnward
  BY DEF ConverseInv, ConverseNumbered, ConverseOnward, Converse!Request
<1>5. \A c \in cCalls' : ConverseFaithful(c)'
  <2>1. ASSUME NEW c \in cCalls PROVE ConverseFaithful(c)'
    BY <1>4, ConverseStaysFaithful DEF ConverseInv
  <2>2. ASSUME NEW c \in ConverseCancels PROVE ConverseFaithful(c)'
    <3>1. c \in ConverseCalls
      BY DEF ConverseCalls
    <3> QED BY <3>1, ConverseCallsAreOf DEF ConverseFaithful
  <2> QED BY <1>1, <2>1, <2>2
<1> QED BY <1>2, <1>3, <1>4, <1>5 DEF ConverseInv

LEMMA ConverseInitHolds == ASSUME ConverseSuitable, Converse!Init PROVE ConverseInv
<1>1. cPolicy \in Converse!Policies(ConverseModel, ConverseNote)
  <2>1. Converse!Policies(ConverseModel, ConverseNote) # {}
    <3>1. PICK m \in ConverseModel, n \in ConverseNote : TRUE
      BY DEF ConverseSuitable
    <3>2. [model |-> m, note |-> n] \in Converse!Policies(ConverseModel, ConverseNote)
      BY DEF Converse!Policies
    <3> QED BY <3>2
  <2> QED BY <2>1 DEF Converse!Init, Converse!TasksInit
<1>2. ConverseNumbered
  <2>1. Converse!Request = 1..0
    BY DEF Converse!Init, Converse!TasksInit, Converse!Request
  <2> QED BY <2>1 DEF ConverseNumbered
<1> QED BY <1>1, <1>2 DEF Converse!Init, ConverseInv, ConverseShapes, ConverseOneInForce, ConverseKnown

LEMMA ConverseTypesAre == ASSUME ConverseInv PROVE /\ cShown.note \in ConverseNote /\ cPolicy.note \in ConverseNote /\ cPolicy.model \in ConverseModel
                                   /\ Nothing \in ConverseKnown /\ cTurns \in Seq(ConverseTurns) /\ << >> \in Seq(ConverseTurns)
BY DEF ConverseInv, ConverseShapes, Converse!Policies, ConverseKnown

\* The page turns to another question, or to none; or it reads what changed.
LEMMA ConversePageKeeps ==
  ASSUME ConverseSuitable, ConverseInv, Converse!KnowLatest \/ Converse!Submit \/ Converse!PinContext \/ Converse!StartNew \/ Converse!LoadSettings \/ Converse!LoadRelationships
  PROVE  ConverseInv' /\ ConverseCurrent
<1>1. /\ cShown.note \in ConverseNote /\ cPolicy.note \in ConverseNote /\ cPolicy.model \in ConverseModel /\ Nothing \in ConverseKnown
      /\ cTurns \in Seq(ConverseTurns) /\ << >> \in Seq(ConverseTurns)
  BY ConverseTypesAre
<1>2. cShown \in Converse!Policies(ConverseModel, ConverseNote) /\ cNextId \in Nat /\ (cMounted => cTurns # << >>) /\ (cDue => cMounted)
  BY DEF ConverseInv, ConverseShapes
<1>3. CASE Converse!KnowLatest
  <2>1. cPolicy' = cPolicy /\ cPrepared' = cPrepared /\ cShown' = cShown /\ cTurns' = cTurns /\ cNextId' = cNextId /\ cMounted' = cMounted
    BY <1>3 DEF Converse!KnowLatest, Converse!taskVars, Converse!panel
  <2>2. ConverseCurrent
    BY <2>1 DEF ConverseCurrent
  <2>3. CASE cMounted
    <3>1. cGeneration' = cGeneration + 1 /\ cCalls' = cCalls \cup Converse!CancelCalls(Converse!Ids(cRequest)) /\ cRequest' = Nothing
      BY <1>3, <2>3 DEF Converse!KnowLatest, Converse!FreshRequest
    <3> QED BY <1>1, <1>2, <2>1, <2>2, <2>3, <3>1, ConverseBeginsAgain
  <2>4. CASE ~cMounted
    <3>1. cGeneration' = cGeneration /\ cCalls' = cCalls /\ cRequest' = cRequest /\ cDue' = cDue
      BY <1>3, <2>4 DEF Converse!KnowLatest, Converse!assistant
    <3> QED BY <2>1, <2>2, <3>1 DEF ConverseInv, ConverseShapes, ConverseNumbered, ConverseFaithful, ConverseOneInForce, ConverseInForce, Converse!Request
  <2> QED BY <2>3, <2>4
<1>4. CASE Converse!Submit
  <2>1. PICK turn : turn = [id |-> cNextId, auto |-> TRUE, answer |-> Nothing, note |-> cShown.note]
    OBVIOUS
  <2>2. turn \in ConverseTurns /\ turn.answer = Nothing
    BY <1>1, <1>2, <2>1 DEF ConverseTurns
  <2>3. /\ cTurns' = Append(cTurns, turn) /\ cNextId' = cNextId + 1
        /\ cPolicy' = cPolicy /\ cPrepared' = cPrepared /\ cShown' = cShown
        /\ cGeneration' = cGeneration + 1 /\ cCalls' = cCalls \cup Converse!CancelCalls(Converse!Ids(cRequest)) /\ cRequest' = Nothing
        /\ cDue' => cMounted'
    BY <1>4, <2>1 DEF Converse!Submit, Converse!FreshRequest, Converse!taskVars
  <2>4. cTurns' \in Seq(ConverseTurns) /\ cTurns' # << >> /\ \A i \in DOMAIN cTurns : cTurns'[i] = cTurns[i]
    BY <1>1, <2>2, <2>3
  <2>5. ConverseInv'
    BY <1>1, <1>2, <2>3, <2>4, ConverseBeginsAgain
  <2> QED BY <2>4, <2>5 DEF ConverseCurrent
<1>5. CASE Converse!PinContext
  <2>1. PICK turn : turn = [id |-> cNextId, auto |-> FALSE, answer |-> Nothing, note |-> cShown.note]
    OBVIOUS
  <2>2. turn \in ConverseTurns /\ turn.answer = Nothing
    BY <1>1, <1>2, <2>1 DEF ConverseTurns
  <2>3. /\ cTurns # << >> /\ cTurns' = [cTurns EXCEPT ![Len(cTurns)] = turn] /\ cNextId' = cNextId + 1
        /\ cPolicy' = cPolicy /\ cPrepared' = cPrepared /\ cShown' = cShown
        /\ cGeneration' = cGeneration + 1 /\ cCalls' = cCalls \cup Converse!CancelCalls(Converse!Ids(cRequest)) /\ cRequest' = Nothing
        /\ cDue' => cMounted'
    BY <1>5, <2>1 DEF Converse!PinContext, Converse!FreshRequest, Converse!taskVars
  <2>4. Len(cTurns) \in 1..Len(cTurns)
    BY <1>1, <2>3
  <2>5. cTurns' \in Seq(ConverseTurns) /\ Len(cTurns') = Len(cTurns)
    BY <1>1, <2>2, <2>3, <2>4, ExceptSeq
  <2>6. cTurns' # << >> /\ \A i \in DOMAIN cTurns : cTurns'[i] \in {cTurns[i], turn}
    BY <1>1, <2>3, <2>4, <2>5
  <2>7. ConverseInv'
    BY <1>1, <1>2, <2>3, <2>5, <2>6, ConverseBeginsAgain
  <2> QED BY <2>2, <2>6, <2>7 DEF ConverseCurrent
<1>6. CASE Converse!StartNew
  <2>1. /\ cTurns' = << >> /\ cNextId' = cNextId /\ cPolicy' = cPolicy /\ cPrepared' = cPrepared /\ cShown' = cShown
        /\ cGeneration' = cGeneration + 1 /\ cCalls' = cCalls \cup Converse!CancelCalls(Converse!Ids(cRequest)) /\ cRequest' = Nothing
        /\ ~cDue' /\ ~cMounted'
    BY <1>6 DEF Converse!StartNew, Converse!Gone, Converse!FreshRequest, Converse!taskVars
  <2>2. ConverseInv'
    BY <1>1, <1>2, <2>1, ConverseBeginsAgain
  <2> QED BY <2>1, <2>2 DEF ConverseCurrent
<1>7. CASE Converse!LoadSettings
  <2>1. /\ cTurns' = << >> /\ cNextId' = cNextId /\ cPolicy' = cPolicy /\ cPrepared' = cPrepared
        /\ cShown' = [cShown EXCEPT !.model = cPolicy.model]
        /\ cGeneration' = cGeneration + 1 /\ cCalls' = cCalls \cup Converse!CancelCalls(Converse!Ids(cRequest)) /\ cRequest' = Nothing
        /\ ~cDue' /\ ~cMounted'
    BY <1>7 DEF Converse!LoadSettings, Converse!Gone, Converse!FreshRequest, Converse!taskVars
  <2>2. cShown' \in Converse!Policies(ConverseModel, ConverseNote)
    BY <1>1, <1>2, <2>1 DEF Converse!Policies
  <2>3. ConverseInv'
    BY <1>1, <1>2, <2>1, <2>2, ConverseBeginsAgain
  <2> QED BY <2>1, <2>3 DEF ConverseCurrent
<1>8. CASE Converse!LoadRelationships
  <2>1. /\ cTurns' = cTurns /\ cNextId' = cNextId /\ cPolicy' = cPolicy /\ cPrepared' = cPrepared
        /\ cShown' = [cShown EXCEPT !.note = cPolicy.note]
    BY <1>8 DEF Converse!LoadRelationships, Converse!taskVars, Converse!panel
  <2>2. cShown' \in Converse!Policies(ConverseModel, ConverseNote) /\ ConverseCurrent
    BY <1>1, <1>2, <2>1 DEF Converse!Policies, ConverseCurrent
  <2>3. CASE cTurns = << >>
    <3>1. cGeneration' = cGeneration /\ cCalls' = cCalls /\ cRequest' = cRequest /\ cDue' = cDue /\ cMounted' = cMounted
      BY <1>8, <2>3 DEF Converse!LoadRelationships, Converse!assistant, Converse!place
    <3> QED BY <2>1, <2>2, <3>1 DEF ConverseInv, ConverseShapes, ConverseNumbered, ConverseFaithful, ConverseOneInForce, ConverseInForce, Converse!Request
  <2>4. CASE cTurns # << >>
    <3>1. /\ cGeneration' = cGeneration + 1 /\ cCalls' = cCalls \cup Converse!CancelCalls(Converse!Ids(cRequest)) /\ cRequest' = Nothing
          /\ cDue' => cMounted'
      BY <1>8, <2>4 DEF Converse!LoadRelationships, Converse!FreshRequest
    <3> QED BY <1>1, <1>2, <2>1, <2>2, <2>4, <3>1, ConverseBeginsAgain
  <2> QED BY <2>3, <2>4
<1> QED BY <1>3, <1>4, <1>5, <1>6, <1>7, <1>8

\* A request is prepared for the last question: its call is the only one in force.
LEMMA ConversePreparingKeeps ==
  ASSUME ConverseSuitable, ConverseInv, cMounted, Converse!Preparing, UNCHANGED <<cPrepared, cPolicy, cShown, cTurns, cNextId, cMounted>>, cDue' => cDue
  PROVE  ConverseInv' /\ ConverseCurrent
<1>1. cTurns \in Seq(ConverseTurns) /\ cTurns # << >> /\ cGeneration \in Nat /\ cCalls \subseteq ConverseCalls
  BY DEF ConverseInv, ConverseShapes
<1>2. Converse!Active.id \in Nat
  <2>1. Len(cTurns) \in 1..Len(cTurns)
    BY <1>1
  <2>2. cTurns[Len(cTurns)] \in ConverseTurns
    BY <1>1, <2>1
  <2> QED BY <2>2 DEF Converse!Active, Converse!Last, ConverseTurns
<1>3. PICK a : a = [op |-> "prepare", generation |-> cGeneration + 1, turn |-> Converse!Active.id]
  OBVIOUS
<1>4. a \in ConverseAsked /\ a.generation = cGeneration + 1
  BY <1>1, <1>2, <1>3 DEF ConverseAsked
<1>5. a \notin ConverseCancels /\ a \notin ConversePreviews /\ a \notin ConverseSendings
  BY <1>4, ConverseCallsAreOf DEF ConverseCalls
<1>6. PICK cs : cs \subseteq ConverseCancels /\ cs = Converse!CancelCalls(Converse!Ids(cRequest))
  BY ConverseCancelsAre DEF ConverseInv, ConverseShapes
<1>7. cGeneration' = cGeneration + 1 /\ cRequest' = Nothing /\ cCalls' = cCalls \cup cs \cup {a}
  BY <1>3, <1>6 DEF Converse!Preparing
<1>8. \A c \in cCalls : c \notin ConverseCancels => c.generation \in Nat /\ c.generation <= cGeneration
  <2>1. ASSUME NEW c \in cCalls, c \notin ConverseCancels PROVE c.generation \in Nat /\ c.generation <= cGeneration
    BY <2>1 DEF ConverseInv, ConverseShapes, ConverseCalls, ConverseAsked, ConversePreviews, ConverseSendings, ConverseOneInForce
  <2> QED BY <2>1
<1>9. ConverseOneInForce'
  <2>1. \A c \in cCalls' : c \notin ConverseCancels => c = a \/ c.generation < cGeneration'
    BY <1>1, <1>6, <1>7, <1>8
  <2>2. a.generation = cGeneration' /\ cGeneration' \in Nat
    BY <1>1, <1>4, <1>7
  <2>3. \A c \in cCalls' : ConverseInForce(c)' => c = a
    <3>1. ASSUME NEW c \in cCalls', c \notin ConverseCancels, c.generation = cGeneration' PROVE c = a
      <4>1. CASE c \in cCalls
        BY <1>1, <1>7, <1>8, <3>1, <4>1
      <4> QED BY <1>6, <1>7, <3>1, <4>1
    <3> QED BY <3>1 DEF ConverseInForce
  <2>4. \A c \in cCalls' : c \notin ConverseCancels => c.generation <= cGeneration'
    BY <1>1, <1>6, <1>7, <1>8, <2>2
  <2> QED BY <1>5, <2>3, <2>4 DEF ConverseOneInForce
<1>10. ConverseShapes'
  BY <1>1, <1>4, <1>6, <1>7 DEF ConverseInv, ConverseShapes, ConverseCalls, ConverseKnown
<1>11. ConverseNumbered' /\ ConverseOnward
  BY DEF ConverseInv, ConverseNumbered, ConverseOnward, Converse!Request
<1>12. \A c \in cCalls' : ConverseFaithful(c)'
  <2>1. ASSUME NEW c \in cCalls PROVE ConverseFaithful(c)'
    BY <1>11, ConverseStaysFaithful DEF ConverseInv
  <2>2. ASSUME NEW c \in ConverseCancels PROVE ConverseFaithful(c)'
    <3>1. c \in ConverseCalls
      BY DEF ConverseCalls
    <3> QED BY <3>1, ConverseCallsAreOf DEF ConverseFaithful
  <2>3. ConverseFaithful(a)'
    BY <1>5 DEF ConverseFaithful
  <2> QED BY <1>6, <1>7, <2>1, <2>2, <2>3
<1> QED BY <1>9, <1>10, <1>11, <1>12 DEF ConverseInv, ConverseCurrent

\* What the user asks of the request, and what ends it.
LEMMA ConverseRequestKeeps ==
  ASSUME ConverseSuitable, ConverseInv, Converse!Automatic \/ Converse!Ask \/ Converse!Cancel \/ Converse!Expire
  PROVE  ConverseInv' /\ ConverseCurrent
<1>1. CASE Converse!Automatic
  <2>1. /\ cDue /\ ~cDue' /\ UNCHANGED <<cPrepared, cPolicy, cShown, cTurns, cNextId, cMounted>>
    BY <1>1 DEF Converse!Automatic, Converse!taskVars, Converse!panel
  <2>2. CASE cClaimed \/ cBusy
    <3>1. cGeneration' = cGeneration /\ cCalls' = cCalls /\ cRequest' = cRequest
      BY <1>1, <2>2 DEF Converse!Automatic, Converse!assistant
    <3> QED BY <2>1, <3>1 DEF ConverseInv, ConverseShapes, ConverseNumbered, ConverseFaithful, ConverseOneInForce, ConverseInForce, Converse!Request, ConverseCurrent
  <2>3. CASE ~(cClaimed \/ cBusy)
    <3>1. Converse!Preparing /\ cMounted
      BY <1>1, <2>1, <2>3 DEF Converse!Automatic, ConverseInv, ConverseShapes
    <3> QED BY <2>1, <3>1, ConversePreparingKeeps
  <2> QED BY <2>2, <2>3
<1>2. CASE Converse!Ask
  <2>1. Converse!Preparing /\ cMounted /\ UNCHANGED <<cPrepared, cPolicy, cShown, cTurns, cNextId, cMounted, cDue>>
    BY <1>2 DEF Converse!Ask, Converse!taskVars, Converse!place
  <2> QED BY <2>1, ConversePreparingKeeps
<1>3. ASSUME NEW p, Converse!Invalidate(p), UNCHANGED <<cPrepared, cPolicy, cShown, cTurns, cNextId, cMounted, cDue>>
      PROVE  ConverseInv' /\ ConverseCurrent
  <2>1. cGeneration' = cGeneration + 1 /\ cCalls' = cCalls \cup Converse!CancelCalls(Converse!Ids(cRequest)) /\ cRequest' = Nothing
    BY <1>3 DEF Converse!Invalidate
  <2>2. /\ Nothing \in ConverseKnown /\ cTurns \in Seq(ConverseTurns) /\ cShown \in Converse!Policies(ConverseModel, ConverseNote) /\ cNextId \in Nat
        /\ (cMounted => cTurns # << >>) /\ (cDue => cMounted)
    BY ConverseTypesAre DEF ConverseInv, ConverseShapes
  <2>3. ConverseInv'
    BY <1>3, <2>1, <2>2, ConverseBeginsAgain
  <2> QED BY <1>3, <2>3 DEF ConverseCurrent
<1>4. CASE Converse!Cancel
  BY <1>3, <1>4 DEF Converse!Cancel, Converse!taskVars, Converse!panel, Converse!place
<1>5. CASE Converse!Expire
  BY <1>3, <1>5 DEF Converse!Expire, Converse!taskVars, Converse!panel, Converse!place
<1> QED BY <1>1, <1>2, <1>4, <1>5

\* A step that leaves the requests, the place and the settings alone.
LEMMA ConverseCallsKeep ==
  ASSUME ConverseInv, ConverseOneInForce', UNCHANGED <<cPrepared, cPolicy, cShown, cNextId, cMounted, cDue>>,
         cTurns' \in Seq(ConverseTurns), cTurns # << >> => cTurns' # << >>, cGeneration' \in Nat, cRequest' \in ConverseKnown, cCalls' \subseteq ConverseCalls,
         \A c \in cCalls' : c \in cCalls \/ ConverseFaithful(c)
  PROVE  ConverseInv'
<1>1. ConverseShapes'
  BY DEF ConverseInv, ConverseShapes
<1>2. ConverseNumbered' /\ ConverseOnward
  BY DEF ConverseInv, ConverseNumbered, ConverseOnward, Converse!Request
<1>3. \A c \in cCalls' : ConverseFaithful(c)'
  <2>1. ASSUME NEW c \in cCalls' PROVE ConverseFaithful(c)'
    BY <1>2, ConverseStaysFaithful DEF ConverseInv
  <2> QED BY <2>1
<1> QED BY <1>1, <1>2, <1>3 DEF ConverseInv

LEMMA ConverseCancelsAreFaithful == \A c \in ConverseCancels : c \in ConverseCalls /\ ConverseFaithful(c)
<1>1. ASSUME NEW c \in ConverseCancels PROVE c \in ConverseCalls /\ ConverseFaithful(c)
  <2>1. c \in ConverseCalls
    BY DEF ConverseCalls
  <2> QED BY <2>1, ConverseCallsAreOf DEF ConverseFaithful
<1> QED BY <1>1

\* The preview arrives: of an older generation, none, out of date, too old, or run at once.
LEMMA ConversePreparedKeeps ==
  ASSUME ConverseSuitable, ConverseInv, Converse!Prepared
  PROVE  ConverseInv' /\ ConverseCurrent
<1>1. PICK c \in cCalls :
        /\ c.op = "prepared" /\ UNCHANGED <<cPrepared, cPolicy, cShown, cNextId, cMounted, cDue, cTurns>>
        /\ \/ cCalls' = (cCalls \ {c}) \cup Converse!CancelCalls(Converse!Ids(c.request)) /\ cGeneration' = cGeneration /\ cRequest' = cRequest
           \/ cCalls' = cCalls \ {c} /\ cGeneration' = cGeneration /\ cRequest' = cRequest
           \/ cCalls' = (cCalls \ {c}) \cup Converse!CancelCalls({c.request}) /\ cGeneration' = cGeneration /\ cRequest' = cRequest
           \/ cCalls' = (cCalls \ {c}) \cup Converse!CancelCalls({c.request}) /\ cGeneration' = cGeneration + 1 /\ cRequest' = cRequest
           \/ /\ c.request # Nothing /\ c.generation = cGeneration
              /\ cCalls' = (cCalls \ {c}) \cup {[c EXCEPT !.op = "run"]} /\ cGeneration' = cGeneration
              /\ cRequest' = c.request
  BY DEF Converse!Prepared, Converse!taskVars, Converse!panel, Converse!place, Converse!assistant
<1>2. cCalls \subseteq ConverseCalls /\ cTurns \in Seq(ConverseTurns) /\ cGeneration \in Nat /\ cRequest \in ConverseKnown
  BY DEF ConverseInv, ConverseShapes
<1>3. c \in ConversePreviews /\ c.request \in ConverseKnown
  BY <1>1, <1>2, ConverseCallsAreOf DEF ConversePreviews
<1>4. CASE /\ cCalls' = (cCalls \ {c}) \cup {[c EXCEPT !.op = "run"]} /\ cGeneration' = cGeneration
           /\ cRequest' = c.request /\ c.request # Nothing /\ c.generation = cGeneration
  <2>1. PICK d : d = [c EXCEPT !.op = "run"]
    OBVIOUS
  <2>2. d \in ConverseSendings /\ d.request = c.request /\ d.generation = c.generation /\ d.turn = c.turn
    BY <1>3, <1>4, <2>1 DEF ConversePreviews, ConverseSendings, ConverseKnown
  <2>3. d \in ConverseCalls /\ d \notin ConverseCancels /\ d \notin ConversePreviews /\ c \notin ConverseCancels
    BY <1>1, <1>2, <2>2, ConverseCallsAreOf DEF ConverseCalls
  <2>4. cCalls' = (cCalls \ {c}) \cup {d} /\ cRequest' = d.request
    BY <1>4, <2>1, <2>2
  <2>5. ConverseOneInForce'
    BY <1>4, <2>2, <2>3, <2>4, ConverseGoesOn
  <2>6. ConverseFaithful(d)
    BY <1>3, <2>2 DEF ConverseInv, ConverseFaithful
  <2>7. ConverseInv'
    BY <1>1, <1>2, <1>3, <1>4, <2>3, <2>4, <2>5, <2>6, ConverseCallsKeep
  <2> QED BY <1>1, <2>7 DEF ConverseCurrent
<1>5. CASE ~(/\ cCalls' = (cCalls \ {c}) \cup {[c EXCEPT !.op = "run"]} /\ cGeneration' = cGeneration
             /\ cRequest' = c.request /\ c.request # Nothing /\ c.generation = cGeneration)
  <2>1. PICK S : S \subseteq ConverseCancels /\ cCalls' = (cCalls \ {c}) \cup S
    <3>1. CASE cCalls' = cCalls \ {c}
      <4>1. cCalls' = (cCalls \ {c}) \cup {}
        BY <3>1
      <4> QED BY <4>1
    <3>2. Converse!CancelCalls(Converse!Ids(c.request)) \subseteq ConverseCancels /\ Converse!CancelCalls({c.request}) \subseteq ConverseCancels
      BY <1>3, ConverseCancelsAre
    <3> QED BY <1>1, <1>5, <3>1, <3>2
  <2>2. cRequest' = cRequest /\ cGeneration' \in {cGeneration, cGeneration + 1}
    BY <1>1, <1>5
  <2>3. ConverseOneInForce'
    <3>1. CASE cGeneration' = cGeneration
      BY <2>1, <2>2, <3>1, ConverseFewerInForce
    <3>2. CASE cGeneration' = cGeneration + 1
      <4>1. cCalls' \subseteq cCalls \cup ConverseCancels
        BY <2>1
      <4> QED BY <3>2, <4>1, ConverseOlderAreOver
    <3> QED BY <2>2, <3>1, <3>2
  <2>4. ConverseInv'
    BY <1>1, <1>2, <2>1, <2>2, <2>3, ConverseCancelsAreFaithful, ConverseCallsKeep
  <2> QED BY <1>1, <2>4 DEF ConverseCurrent
<1> QED BY <1>4, <1>5

\* An answer in force is written under the question it was prepared for.
LEMMA ConverseDeliveredKeeps ==
  ASSUME ConverseSuitable, ConverseInv, Converse!Delivered
  PROVE  ConverseInv' /\ ConverseCurrent
<1>1. PICK c \in cCalls :
        /\ c.op \in {"answered", "failed"} /\ UNCHANGED <<cPrepared, cPolicy, cShown, cNextId, cMounted, cDue>>
        /\ \/ cCalls' = cCalls \ {c} /\ cGeneration' = cGeneration /\ cRequest' = cRequest /\ cTurns' = cTurns
           \/ /\ c.generation = cGeneration /\ cCalls' = cCalls \ {c} /\ cGeneration' = cGeneration /\ cRequest' = Nothing
              /\ cTurns' = cTurns
           \/ /\ c.generation = cGeneration /\ cCalls' = (cCalls \ {c}) \cup Converse!CancelCalls({c.request})
              /\ cGeneration' = cGeneration + 1 /\ cRequest' = Nothing /\ cTurns' = cTurns
           \/ /\ c.generation = cGeneration /\ cCalls' = cCalls \ {c} /\ cGeneration' = cGeneration /\ cRequest' = Nothing
              /\ c.request \notin cLapsed /\ cTurns' = Converse!Answered(cTurns, c.turn, c.request)
  BY DEF Converse!Delivered, Converse!Stale, Converse!taskVars, Converse!place, Converse!assistant
<1>2. cCalls \subseteq ConverseCalls /\ cTurns \in Seq(ConverseTurns) /\ cGeneration \in Nat /\ cRequest \in ConverseKnown /\ cShown.note \in ConverseNote
  BY ConverseTypesAre DEF ConverseInv, ConverseShapes
<1>3. c \in ConverseSendings /\ c \notin ConverseCancels
  BY <1>1, <1>2, ConverseCallsAreOf DEF ConverseCalls
<1>4. c.request \in Nat
  BY <1>3 DEF ConverseSendings
<1>5. PICK S : S \subseteq ConverseCancels /\ cCalls' = (cCalls \ {c}) \cup S
  <2>1. CASE cCalls' = cCalls \ {c}
    <3>1. cCalls' = (cCalls \ {c}) \cup {}
      BY <2>1
    <3> QED BY <3>1
  <2>2. Converse!CancelCalls({c.request}) \subseteq ConverseCancels
    BY <1>4, ConverseCancelsAre DEF ConverseKnown
  <2> QED BY <1>1, <2>1, <2>2
<1>6. ConverseOneInForce'
  <2>1. CASE cGeneration' = cGeneration
    <3>1. cRequest' = cRequest \/ (c \in cCalls /\ ConverseInForce(c))
      BY <1>1, <1>2, <1>3, <2>1 DEF ConverseInForce
    <3> QED BY <1>5, <2>1, <3>1, ConverseFewerInForce
  <2>2. CASE cGeneration' = cGeneration + 1
    <3>1. cCalls' \subseteq cCalls \cup ConverseCancels
      BY <1>5
    <3> QED BY <2>2, <3>1, ConverseOlderAreOver
  <2> QED BY <1>1, <2>1, <2>2
<1>7. cGeneration' \in Nat /\ cRequest' \in ConverseKnown
  BY <1>1, <1>2 DEF ConverseKnown
<1>8. CASE cTurns' = cTurns
  <2>1. ConverseInv'
    BY <1>1, <1>2, <1>5, <1>6, <1>7, <1>8, ConverseCancelsAreFaithful, ConverseCallsKeep
  <2> QED BY <1>8, <2>1 DEF ConverseCurrent
<1>9. CASE c.generation = cGeneration /\ c.request \notin cLapsed /\ cTurns' = Converse!Answered(cTurns, c.turn, c.request)
  <2>1. cTurns' = [i \in DOMAIN cTurns |->
                   IF cTurns[i].id = c.turn THEN [cTurns[i] EXCEPT !.answer = c.request, !.note = cShown.note]
                   ELSE cTurns[i]]
    BY <1>9 DEF Converse!Answered
  <2>2. DOMAIN cTurns' = 1..Len(cTurns) /\ Len(cTurns) \in Nat
    <3>1. DOMAIN cTurns' = DOMAIN cTurns
      BY <2>1, Zenon
    <3>2. DOMAIN cTurns = 1..Len(cTurns) /\ Len(cTurns) \in Nat
      BY <1>2
    <3> QED BY <3>1, <3>2
  <2>3. ASSUME NEW i \in 1..Len(cTurns)
        PROVE  cTurns'[i] \in ConverseTurns /\ (cTurns'[i].answer # cTurns[i].answer => cTurns[i].id = c.turn /\ cTurns'[i].answer = c.request)
    <3>1. cTurns[i] \in ConverseTurns /\ i \in DOMAIN cTurns
      BY <1>2, <2>3
    <3>2. CASE cTurns[i].id = c.turn
      <4>1. cTurns'[i] = [cTurns[i] EXCEPT !.answer = c.request, !.note = cShown.note]
        BY <2>1, <3>1, <3>2
      <4>2. cTurns'[i] \in ConverseTurns /\ cTurns'[i].answer = c.request
        BY <1>2, <1>4, <3>1, <4>1 DEF ConverseTurns, ConverseKnown
      <4> QED BY <3>2, <4>2
    <3>3. CASE cTurns[i].id # c.turn
      BY <2>1, <3>1, <3>3
    <3> QED BY <3>2, <3>3
  <2>4. cTurns' \in Seq(ConverseTurns) /\ Len(cTurns') = Len(cTurns)
    <3>1. cTurns' \in [1..Len(cTurns) -> ConverseTurns]
      BY <2>1, <2>2, <2>3
    <3> QED BY <2>2, <3>1
  <2>5. cTurns # << >> => cTurns' # << >>
    BY <1>2, <2>4
  <2>6. ConverseInv'
    BY <1>1, <1>2, <1>5, <1>6, <1>7, <2>4, <2>5, ConverseCancelsAreFaithful, ConverseCallsKeep
  <2>7. cRequest = c.request /\ cPrepared[c.request].question = c.turn
    BY <1>3, <1>4, <1>9 DEF ConverseInv, ConverseOneInForce, ConverseInForce, ConverseFaithful, ConverseSuitable
  <2>8. ConverseCurrent
    <3>1. DOMAIN cTurns = 1..Len(cTurns)
      BY <1>2
    <3> QED BY <1>9, <2>3, <2>7, <3>1 DEF ConverseCurrent
  <2> QED BY <2>6, <2>8
<1> QED BY <1>1, <1>8, <1>9

\* The conversation counts as everyone does.
LEMMA ConverseCounts == ASSUME NEW S PROVE Converse!Cardinality(S) = Cardinality(S)
  BY Zenon DEF Cardinality, Converse!Cardinality

LEMMA ConverseNextIsNew ==
  ASSUME ConverseNumbered
  PROVE  /\ Converse!NextRequest \in Nat \ {0} /\ Converse!NextRequest \notin Converse!Request
         /\ \E n \in Nat : Converse!Request \cup {Converse!NextRequest} = 1..n
<1>1. PICK n \in Nat : Converse!Request = 1..n
  BY DEF ConverseNumbered
<1>2. Cardinality(1..n) = n
  <2>1. n \in Int /\ 1 \in Int
    OBVIOUS
  <2>2. Cardinality(1..n) = IF 1 > n THEN 0 ELSE n - 1 + 1
    BY <2>1, FS_Interval
  <2> QED BY <2>2
<1>3. Converse!NextRequest = n + 1
  <2>1. Converse!Cardinality(1..n) = n
    BY <1>2, ConverseCounts
  <2> QED BY <1>1, <2>1 DEF Converse!NextRequest
<1>4. Converse!Request \cup {Converse!NextRequest} = 1..(n + 1) /\ n + 1 \in Nat
  BY <1>1, <1>3
<1> QED BY <1>1, <1>3, <1>4

\* A request that is prepared is numbered after the others, which stay.
LEMMA ConverseRegisterKeeps ==
  ASSUME ConverseInv, NEW q, Converse!Register(q)
  PROVE  /\ ConverseNumbered' /\ ConverseOnward /\ cPolicy' = cPolicy
         /\ Converse!HasRoom => Converse!NextRequest \in Nat /\ Converse!NextRequest \in DOMAIN cPrepared' /\ cPrepared'[Converse!NextRequest].question = q
<1>1. Converse!NextRequest \in Nat /\ Converse!NextRequest \notin Converse!Request
  BY ConverseNextIsNew DEF ConverseInv
<1>2. PICK m \in Nat : Converse!Request \cup {Converse!NextRequest} = 1..m
  BY ConverseNextIsNew DEF ConverseInv
<1>3. CASE Converse!HasRoom
  <2>1. PICK n : n = Converse!NextRequest
    OBVIOUS
  <2>2. cPrepared' = [r \in Converse!Request \cup {n} |-> IF r = n THEN [policy |-> cPolicy, question |-> q] ELSE cPrepared[r]]
    BY <1>3, <2>1 DEF Converse!Register
  <2>3. DOMAIN cPrepared' = Converse!Request \cup {n} /\ cPrepared'[n].question = q
        /\ \A r \in Converse!Request : cPrepared'[r] = cPrepared[r]
    BY <1>1, <2>1, <2>2
  <2>4. ConverseNumbered'
    BY <1>2, <2>1, <2>3 DEF ConverseNumbered, Converse!Request
  <2> QED BY <1>1, <2>1, <2>3, <2>4 DEF Converse!Register, ConverseOnward
<1>4. CASE ~Converse!HasRoom
  <2>1. cPrepared' = cPrepared
    BY <1>4 DEF Converse!Register
  <2> QED BY <1>4, <2>1 DEF Converse!Register, ConverseOnward, ConverseInv, ConverseNumbered, Converse!Request
<1> QED BY <1>3, <1>4

\* The desktop serves a call; the page does not notice.
LEMMA ConverseServedKeeps ==
  ASSUME ConverseSuitable, ConverseInv, NEW c \in cCalls, c \notin ConverseCancels, NEW d, d \in ConverseAsked \cup ConversePreviews \cup ConverseSendings,
         d.generation = c.generation, cCalls' = (cCalls \ {c}) \cup {d},
         d \in ConverseSendings => c \in ConverseSendings /\ d.request = c.request,
         ConverseFaithful(d)', ConverseNumbered', ConverseOnward, cPolicy' = cPolicy,
         UNCHANGED <<cShown, cTurns, cNextId, cMounted, cDue, cRequest, cGeneration>>
  PROVE  ConverseInv' /\ ConverseCurrent
<1>1. d \in ConverseCalls /\ d \notin ConverseCancels
  <2>1. d \in ConverseCalls
    BY DEF ConverseCalls
  <2> QED BY <2>1, ConverseCallsAreOf
<1>2. ConverseOneInForce'
  <2>1. d \in ConverseSendings /\ d.generation = cGeneration => cRequest' = d.request
    BY DEF ConverseInv, ConverseOneInForce, ConverseInForce
  <2> QED BY <1>1, <2>1, ConverseGoesOn
<1>3. ConverseShapes'
  BY <1>1 DEF ConverseInv, ConverseShapes
<1>4. \A b \in cCalls' : ConverseFaithful(b)'
  <2>1. ASSUME NEW b \in cCalls PROVE ConverseFaithful(b)'
    BY ConverseStaysFaithful DEF ConverseInv
  <2> QED BY <2>1
<1> QED BY <1>2, <1>3, <1>4 DEF ConverseInv, ConverseCurrent

LEMMA ConverseServeKeeps ==
  ASSUME ConverseSuitable, ConverseInv, Converse!Serve
  PROVE  ConverseInv' /\ ConverseCurrent
<1>1. UNCHANGED <<cShown, cTurns, cNextId, cMounted, cDue, cRequest, cGeneration>> /\ cCalls \subseteq ConverseCalls
  BY DEF Converse!Serve, Converse!panel, Converse!place, Converse!assistant, ConverseInv, ConverseShapes
<1>2. ASSUME cPrepared' = cPrepared PROVE ConverseNumbered' /\ ConverseOnward
  BY <1>2 DEF ConverseInv, ConverseNumbered, ConverseOnward, Converse!Request
<1>3. ASSUME NEW c \in cCalls, c.op = "prepare", Converse!Register(c.turn),
             cCalls' = (cCalls \ {c}) \cup
               {[op |-> "prepared", generation |-> c.generation, turn |-> c.turn,
                 request |-> IF Converse!HasRoom THEN Converse!NextRequest ELSE Nothing]}
      PROVE  ConverseInv' /\ ConverseCurrent
  <2>1. c \in ConverseAsked /\ c \notin ConverseCancels
    BY <1>1, <1>3, ConverseCallsAreOf
  <2>2. /\ ConverseNumbered' /\ ConverseOnward /\ cPolicy' = cPolicy
        /\ Converse!HasRoom => Converse!NextRequest \in Nat /\ Converse!NextRequest \in DOMAIN cPrepared' /\ cPrepared'[Converse!NextRequest].question = c.turn
    BY <1>3, ConverseRegisterKeeps
  <2>3. PICK r : r = IF Converse!HasRoom THEN Converse!NextRequest ELSE Nothing
    OBVIOUS
  <2>4. PICK d : d = [op |-> "prepared", generation |-> c.generation, turn |-> c.turn, request |-> r]
    OBVIOUS
  <2>5. d \in ConversePreviews /\ d.generation = c.generation /\ d.request = r /\ d.turn = c.turn
    BY <2>1, <2>2, <2>3, <2>4 DEF ConverseAsked, ConversePreviews, ConverseKnown
  <2>6. d \in ConverseCalls
    BY <2>5 DEF ConverseCalls
  <2>7. d \notin ConverseSendings
    BY <2>5, <2>6, ConverseCallsAreOf
  <2>8. ConverseFaithful(d)'
    BY <2>2, <2>3, <2>5 DEF ConverseFaithful, Converse!Request
  <2>9. cCalls' = (cCalls \ {c}) \cup {d}
    BY <1>3, <2>3, <2>4
  <2> QED BY <1>1, <2>1, <2>2, <2>5, <2>7, <2>8, <2>9, ConverseServedKeeps
<1>4. ASSUME NEW c \in cCalls, c.op = "cancel", Converse!CancelTask(c.request), cCalls' = cCalls \ {c}
      PROVE  ConverseInv' /\ ConverseCurrent
  <2>1. cPrepared' = cPrepared /\ cPolicy' = cPolicy
    BY <1>4 DEF Converse!CancelTask
  <2>2. cCalls' = (cCalls \ {c}) \cup {}
    BY <1>4
  <2>3. PICK S : S \subseteq ConverseCancels /\ cCalls' = (cCalls \ {c}) \cup S
    BY <2>2
  <2>4. ConverseOneInForce'
    BY <1>1, <2>3, ConverseFewerInForce
  <2>5. ConverseInv'
    <3>1. /\ cTurns \in Seq(ConverseTurns) /\ cGeneration \in Nat /\ cRequest \in ConverseKnown
      BY DEF ConverseInv, ConverseShapes
    <3> QED BY <1>1, <1>4, <2>1, <2>4, <3>1, ConverseCallsKeep
  <2> QED BY <1>1, <2>5 DEF ConverseCurrent
<1>5. ASSUME NEW c \in cCalls, c.op \in {"run", "running"}, NEW where \in {"running", "answered", "failed"},
             cCalls' = (cCalls \ {c}) \cup {[c EXCEPT !.op = where]}, cPrepared' = cPrepared, cPolicy' = cPolicy
      PROVE  ConverseInv' /\ ConverseCurrent
  <2>1. c \in ConverseSendings /\ c \notin ConverseCancels
    BY <1>1, <1>5, ConverseCallsAreOf
  <2>2. PICK d : d = [c EXCEPT !.op = where]
    OBVIOUS
  <2>3. d \in ConverseSendings /\ d.generation = c.generation /\ d.request = c.request /\ d.turn = c.turn
    BY <2>1, <2>2 DEF ConverseSendings
  <2>4. ConverseFaithful(d)'
    BY <1>5, <2>1, <2>3 DEF ConverseInv, ConverseFaithful, Converse!Request
  <2>5. cCalls' = (cCalls \ {c}) \cup {d}
    BY <1>5, <2>2
  <2> QED BY <1>1, <1>2, <1>5, <2>1, <2>3, <2>4, <2>5, ConverseServedKeeps
<1>6. ASSUME NEW c \in cCalls, c.op = "run",
             IF Converse!MayBegin(c.request)
             THEN Converse!Begin(c.request) /\ cCalls' = (cCalls \ {c}) \cup {[c EXCEPT !.op = "running"]}
             ELSE cCalls' = (cCalls \ {c}) \cup {[c EXCEPT !.op = "failed"]} /\ UNCHANGED Converse!taskVars
      PROVE  ConverseInv' /\ ConverseCurrent
  <2>1. cPrepared' = cPrepared /\ cPolicy' = cPolicy
    BY <1>6 DEF Converse!Begin, Converse!taskVars
  <2>2. PICK where \in {"running", "answered", "failed"} : cCalls' = (cCalls \ {c}) \cup {[c EXCEPT !.op = where]}
    BY <1>6
  <2> QED BY <1>5, <1>6, <2>1, <2>2
<1>7. ASSUME NEW c \in cCalls, c.op = "running", Converse!Over(c.request), Converse!End(c.request),
             cCalls' = (cCalls \ {c}) \cup {[c EXCEPT !.op = cStage[c.request]]}
      PROVE  ConverseInv' /\ ConverseCurrent
  <2>1. cPrepared' = cPrepared /\ cPolicy' = cPolicy
    BY <1>7 DEF Converse!End
  <2>2. PICK where \in {"running", "answered", "failed"} : cCalls' = (cCalls \ {c}) \cup {[c EXCEPT !.op = where]}
    BY <1>7 DEF Converse!Over
  <2> QED BY <1>5, <1>7, <2>1, <2>2
<1> QED BY <1>3, <1>4, <1>6, <1>7 DEF Converse!Serve

\* A run goes on, a request grows old, or the settings change.
LEMMA ConverseElsewhereKeeps ==
  ASSUME ConverseSuitable, ConverseInv, Converse!Work \/ Converse!Elsewhere
  PROVE  ConverseInv' /\ ConverseCurrent
<1>1. UNCHANGED <<cShown, cTurns, cNextId, cMounted, cDue, cRequest, cGeneration, cCalls>>
  BY DEF Converse!Work, Converse!Elsewhere, Converse!panel, Converse!place, Converse!assistant
<1>2. cPrepared' = cPrepared /\ cPolicy' \in Converse!Policies(ConverseModel, ConverseNote)
  <2>1. cPolicy \in Converse!Policies(ConverseModel, ConverseNote)
    BY DEF ConverseInv, ConverseShapes
  <2>2. CASE Converse!Work
    BY <2>1, <2>2 DEF Converse!Work, Converse!Running, Converse!Check, Converse!Send, Converse!Recheck
  <2>3. CASE Converse!Elsewhere
    <3>1. CASE Converse!Lapse
      BY <2>1, <3>1 DEF Converse!Lapse
    <3>2. CASE Converse!Change
      BY <2>1, <3>2 DEF Converse!Change, Converse!Policies
    <3> QED BY <2>3, <3>1, <3>2 DEF Converse!Elsewhere
  <2> QED BY <2>2, <2>3
<1>3. ConverseInv'
  BY <1>1, <1>2 DEF ConverseInv, ConverseShapes, ConverseNumbered, ConverseFaithful, ConverseOneInForce, ConverseInForce, Converse!Request
<1> QED BY <1>1, <1>3 DEF ConverseCurrent

LEMMA ConverseStepKeeps == ASSUME ConverseSuitable, ConverseInv, [Converse!Next]_Converse!vars PROVE ConverseInv' /\ [ConverseCurrent]_Converse!vars
<1>1. CASE UNCHANGED Converse!vars
  BY <1>1 DEF Converse!vars, Converse!taskVars, Converse!panel, Converse!place, Converse!assistant, ConverseInv, ConverseShapes, ConverseNumbered, ConverseFaithful, ConverseOneInForce, ConverseInForce, Converse!Request
<1>2. CASE Converse!Next
  BY <1>2, ConversePageKeeps, ConverseRequestKeeps, ConversePreparedKeeps, ConverseDeliveredKeeps, ConverseServeKeeps, ConverseElsewhereKeeps DEF Converse!Next
<1> QED BY <1>1, <1>2

\* An answer of the assistant is written under the turn that asked for it, and comes from the request
\* that is in force (QueryPage.tsx, the generation a message is compared with).
THEOREM ConverseCorrect == Converse!Spec => AnswerIsCurrent
<1> ConverseSuitable
  BY PartsAreSuited
<1>1. Converse!Init => ConverseInv
  BY ConverseInitHolds
<1>2. ConverseInv /\ [Converse!Next]_Converse!vars => ConverseInv' /\ [ConverseCurrent]_Converse!vars
  BY ConverseStepKeeps
<1> QED BY <1>1, <1>2, PTL DEF Converse!Spec, AnswerIsCurrent, Converse!AnswerIsCurrent, ConverseCurrent

-----------------------------------------------------------------------------
(* The desk of the change review                                           *)

DeskReloads == [page : DeskPage, revision : Nat, old : BOOLEAN]
DeskEnding == {"archive", "confirm", "restore"}  \* the decisions that end a draft

DeskShapes ==
  /\ vServer \in 1..DeskMaxRevision /\ vView \in DeskPage
  /\ vShown \in DeskShownPages \cup {Nothing} /\ vPreview \in DeskDecisions \cup {Nothing}
  /\ vChecked \subseteq Desk!Items /\ vDrafts \subseteq Desk!Items
  /\ vWorking \in {"no", "sent", "decided", "tell"} /\ vCalls \subseteq DeskReloads

\* What was read of the review is of a revision it had, and what was decided is later than its dialog.
DeskPast ==
  /\ vShown # Nothing => vShown.revision \in 1..vServer
  /\ vPreview # Nothing =>
       /\ vShown # Nothing /\ 1 <= vPreview.revision /\ vPreview.revision <= vShown.revision
       /\ vPreview.saved <= vServer /\ (vPreview.saved # Desk!Nobody => vPreview.revision < vPreview.saved)
  /\ \A c \in vCalls : c.revision <= vServer

\* One reload at most is not out of date; it asks for the page that is wanted, and brings no older
\* revision than the one shown.
DeskOneInForce ==
  /\ \A c, d \in vCalls : ~c.old /\ ~d.old => c = d
  /\ \A c \in vCalls : ~c.old => c.page = vView
  /\ \A c \in vCalls : ~c.old /\ c.revision # Desk!Nobody /\ vShown # Nothing => vShown.revision <= c.revision

\* While a decision is sent nothing else is on its way, and the page stays at its revision.
DeskUnderWay ==
  /\ vWorking # "no" => \A c \in vCalls : c.old
  /\ vWorking \in {"sent", "decided"} => vPreview # Nothing /\ vPreview.revision = vShown.revision
  /\ vWorking = "decided" => vPreview.saved # Desk!Nobody

\* What is checked is on the page asked for, in the revision shown.
DeskCheckedOnPage == vChecked # {} => vShown # Nothing /\ vChecked \subseteq DeskOpenItems[<<vShown.revision, vView>>]

\* A decision names its items, and one that ends drafts has one item.
DeskNamed ==
  vPreview # Nothing =>
    /\ vPreview.named = vPreview.items
    /\ vPreview.action \in DeskEnding => \E i \in Desk!Items : vPreview.items = {i}

\* While the page is at the revision of a restoration, the archive is on it: it was opened there, and a
\* page behind a cursor is left only when its revision is gone.
DeskRestoring ==
  vPreview # Nothing /\ vPreview.action = "restore" /\ vPreview.revision = vShown.revision =>
    /\ vPreview.items \subseteq DeskArchived[<<vShown.revision, vShown.page>>]
    /\ vView = vShown.page \/ vServer # vShown.revision
    /\ \A c \in vCalls : ~c.old /\ c.revision = vShown.revision => c.page = vShown.page

DeskInv ==
  DeskShapes /\ DeskPast /\ DeskOneInForce /\ DeskUnderWay /\ DeskCheckedOnPage /\ DeskNamed /\ DeskRestoring

\* What a step may do, and what all steps but those of an answer do.
DeskShownForward == vShown # Nothing => vShown'.revision >= vShown.revision
DeskForward ==
  /\ vWorking = "sent" /\ vWorking' = "decided" =>
       IF vPreview.saved = Desk!Nobody THEN vPreview.revision = vServer /\ vServer' = vServer + 1 ELSE vServer' = vServer
  /\ DeskShownForward
  /\ vDrafts \ vDrafts' # {} => vDrafts \ vDrafts' = vPreview.items
  /\ vDrafts \ vDrafts' # {} \/ (vWorking = "decided" /\ vPreview' = Nothing /\ vPreview.action \in {"archive", "confirm", "restore"}) =>
       /\ vWorking = "decided" /\ vPreview.saved # Desk!Nobody /\ vPreview.action \in {"archive", "confirm", "restore"}
       /\ vDrafts' \cap vPreview.items = {}
DeskQuiet ==
  /\ DeskShownForward /\ vDrafts \subseteq vDrafts'
  /\ ~ (vWorking = "sent" /\ vWorking' = "decided") /\ ~ (vWorking = "decided" /\ vPreview' = Nothing)

LEMMA DeskQuietIsForward == DeskQuiet => DeskForward
BY DEF DeskQuiet, DeskForward

LEMMA DeskInitHolds == DeskSuitable /\ Desk!Init => DeskInv
BY DEF DeskSuitable, Desk!Init, DeskInv, DeskShapes, DeskPast, DeskOneInForce, DeskUnderWay, DeskCheckedOnPage, DeskNamed,
       DeskRestoring, Desk!First

\* The page shown does not change: it does not go back.
LEMMA DeskShownStays == DeskInv /\ UNCHANGED vShown => DeskShownForward
BY DEF DeskInv, DeskShapes, DeskPast, DeskShownForward

\* The calls that are given up keep their shapes and what they read.
LEMMA DeskOutdatedCalls ==
  ASSUME DeskInv
  PROVE  \A c \in Desk!Outdated : c \in DeskReloads /\ c.old /\ c.revision <= vServer
<1>1. SUFFICES ASSUME NEW c \in vCalls
               PROVE  LET d == [c EXCEPT !.old = TRUE] IN d \in DeskReloads /\ d.old /\ d.revision <= vServer
  BY DEF Desk!Outdated
<1>2. c \in DeskReloads /\ c.revision <= vServer
  BY DEF DeskInv, DeskShapes, DeskPast
<1> QED BY <1>2 DEF DeskReloads

\* A page is asked for, and what was asked before is given up.
LEMMA DeskAskedCalls ==
  ASSUME DeskSuitable, DeskInv, NEW p \in DeskPage
  PROVE  /\ \A c \in Desk!Asked(p) : c \in DeskReloads /\ c.revision <= vServer
         /\ \A c \in Desk!Asked(p) : ~c.old => c.page = p /\ c.revision = Desk!Nobody
         /\ \A c, d \in Desk!Asked(p) : ~c.old /\ ~d.old => c = d
<1>1. PICK new : new = [page |-> p, revision |-> Desk!Nobody, old |-> FALSE]
  OBVIOUS
<1>2. Desk!Asked(p) = Desk!Outdated \cup {new}
  BY <1>1 DEF Desk!Asked
<1>3. new \in DeskReloads /\ new.revision = Desk!Nobody /\ new.page = p /\ Desk!Nobody <= vServer
  BY <1>1 DEF DeskReloads, Desk!Nobody, DeskInv, DeskShapes
<1> QED BY <1>2, <1>3, DeskOutdatedCalls

\* What the page asks for changes, and nothing else does.
LEMMA DeskAskingKeeps ==
  ASSUME DeskSuitable, DeskInv, vWorking = "no", vView' \in DeskPage, vCalls' \subseteq Desk!Asked(vView'),
         vView' # vView => vChecked' = {} /\ (vPreview = Nothing \/ vServer # vShown.revision), vChecked' \subseteq vChecked,
         UNCHANGED <<vServer, vShown, vDrafts, vPreview, vWorking>>
  PROVE  DeskInv' /\ DeskQuiet
<1>1. /\ \A c \in vCalls' : c \in DeskReloads /\ c.revision <= vServer
      /\ \A c \in vCalls' : ~c.old => c.page = vView' /\ c.revision = Desk!Nobody
      /\ \A c, d \in vCalls' : ~c.old /\ ~d.old => c = d
  BY DeskAskedCalls
<1>2. DeskShapes' /\ DeskPast' /\ DeskOneInForce'
  BY <1>1 DEF DeskInv, DeskShapes, DeskPast, DeskOneInForce
<1>3. DeskUnderWay' /\ DeskNamed'
  BY DEF DeskInv, DeskUnderWay, DeskNamed
<1>4. DeskCheckedOnPage'
  BY DEF DeskInv, DeskCheckedOnPage
<1>5. vShown # Nothing => vShown.revision # Desk!Nobody
  BY DEF DeskInv, DeskPast, DeskShapes, Desk!Nobody
<1>6. DeskRestoring'
  BY <1>1, <1>5 DEF DeskInv, DeskRestoring, DeskPast
<1>7. DeskQuiet
  BY DeskShownStays DEF DeskQuiet
<1> QED BY <1>2, <1>3, <1>4, <1>6, <1>7 DEF DeskInv

LEMMA DeskReloadKeeps == DeskSuitable /\ DeskInv /\ Desk!ReloadPage => DeskInv' /\ DeskQuiet
<1> SUFFICES ASSUME DeskSuitable, DeskInv, Desk!ReloadPage PROVE DeskInv' /\ DeskQuiet
  OBVIOUS
<1>1. /\ vCalls' = Desk!Asked(vView) /\ vWorking = "no"
      /\ UNCHANGED <<vServer, vView, vShown, vChecked, vDrafts, vPreview, vWorking>>
  BY DEF Desk!ReloadPage
<1>2. vView' \in DeskPage
  BY <1>1 DEF DeskInv, DeskShapes
<1> QED BY <1>1, <1>2, DeskAskingKeeps

LEMMA DeskExpiresKeeps == DeskSuitable /\ DeskInv /\ Desk!Expires => DeskInv' /\ DeskQuiet
<1> SUFFICES ASSUME DeskSuitable, DeskInv, Desk!Expires PROVE DeskInv' /\ DeskQuiet
  OBVIOUS
<1>1. PICK c \in vCalls : ~c.old /\ c.page \notin Desk!First /\ vServer # vShown.revision
  BY DEF Desk!Expires, Desk!IsLast, Desk!Expired
<1>2. /\ vView' = DeskHome[vView] /\ vChecked' = {} /\ vCalls' \subseteq Desk!Asked(vView')
      /\ UNCHANGED <<vServer, vShown, vDrafts, vPreview, vWorking>>
  BY DEF Desk!Expires
<1>3. vView' \in DeskPage
  BY <1>2 DEF DeskInv, DeskShapes, DeskSuitable
<1>4. vWorking = "no"
  BY <1>1 DEF DeskInv, DeskUnderWay
<1> QED BY <1>1, <1>2, <1>3, <1>4, DeskAskingKeeps

LEMMA DeskTurnKeeps == DeskSuitable /\ DeskInv /\ Desk!Turn => DeskInv' /\ DeskQuiet
<1> SUFFICES ASSUME DeskSuitable, DeskInv, Desk!Turn PROVE DeskInv' /\ DeskQuiet
  OBVIOUS
<1>1. /\ UNCHANGED <<vServer, vShown, vDrafts, vPreview, vWorking>> /\ vPreview = Nothing
      /\ vView' \in DeskPage /\ vChecked' = {}
      /\ IF vWorking # "no" THEN vCalls' = vCalls ELSE vCalls' = Desk!Asked(vView')
  BY DEF Desk!Turn, Desk!Free, Desk!Busy
<1>2. CASE vWorking = "no"
  BY <1>1, <1>2, DeskAskingKeeps
<1>3. CASE vWorking # "no"
  <2>1. \A c \in vCalls : c.old
    BY <1>3 DEF DeskInv, DeskUnderWay
  <2>2. DeskShapes' /\ DeskPast' /\ DeskOneInForce'
    BY <1>1, <1>3, <2>1 DEF DeskInv, DeskShapes, DeskPast, DeskOneInForce
  <2>3. DeskUnderWay' /\ DeskNamed' /\ DeskCheckedOnPage' /\ DeskRestoring'
    BY <1>1, <1>3, <2>1 DEF DeskInv, DeskUnderWay, DeskNamed, DeskCheckedOnPage, DeskRestoring
  <2>4. vWorking # "decided"
    BY <1>1 DEF DeskInv, DeskUnderWay
  <2>5. DeskQuiet
    BY <1>1, <2>4, DeskShownStays DEF DeskQuiet
  <2> QED BY <2>2, <2>3, <2>5 DEF DeskInv
<1> QED BY <1>2, <1>3

LEMMA DeskReadKeeps == DeskSuitable /\ DeskInv /\ (\E c \in vCalls : Desk!Read(c)) => DeskInv' /\ DeskQuiet
<1> SUFFICES ASSUME DeskSuitable, DeskInv, NEW c \in vCalls, Desk!Read(c) PROVE DeskInv' /\ DeskQuiet
  OBVIOUS
<1>1. PICK new : new = [c EXCEPT !.revision = vServer]
  OBVIOUS
<1>2. /\ vCalls' = (vCalls \ {c}) \cup {new}
      /\ UNCHANGED <<vServer, vView, vShown, vChecked, vDrafts, vPreview, vWorking>>
  BY <1>1 DEF Desk!Read
<1>3. c \in DeskReloads /\ vServer \in Nat
  BY DEF DeskInv, DeskShapes
<1>4. new \in DeskReloads /\ new.revision = vServer /\ new.old = c.old /\ new.page = c.page
  BY <1>1, <1>3 DEF DeskReloads
<1>5. DeskShapes' /\ DeskPast'
  BY <1>2, <1>3, <1>4 DEF DeskInv, DeskShapes, DeskPast
<1>6. DeskOneInForce'
  BY <1>2, <1>4 DEF DeskInv, DeskPast, DeskOneInForce
<1>7. DeskCheckedOnPage' /\ DeskNamed' /\ DeskUnderWay'
  BY <1>2, <1>4 DEF DeskInv, DeskCheckedOnPage, DeskNamed, DeskUnderWay
<1>8. ~c.old => c.page = vView
  BY DEF DeskInv, DeskOneInForce
<1>9. DeskRestoring'
  BY <1>2, <1>4, <1>8 DEF DeskInv, DeskRestoring
<1>10. DeskQuiet
  BY <1>2, DeskShownStays DEF DeskQuiet, DeskInv, DeskUnderWay
<1> QED BY <1>5, <1>6, <1>7, <1>9, <1>10 DEF DeskInv

LEMMA DeskArrivesKeeps == DeskSuitable /\ DeskInv /\ Desk!Arrives => DeskInv' /\ DeskQuiet
<1> SUFFICES ASSUME DeskSuitable, DeskInv, Desk!Arrives PROVE DeskInv' /\ DeskQuiet
  OBVIOUS
<1>1. PICK c \in vCalls : /\ c.revision # Desk!Nobody /\ ~c.old /\ vCalls' = vCalls \ {c}
                         /\ vShown' = [revision |-> c.revision, page |-> c.page]
                         /\ vChecked' = Desk!SelectionOf(c.revision)
  BY DEF Desk!Arrives, Desk!IsLast
<1>2. UNCHANGED <<vServer, vView, vDrafts, vPreview, vWorking>>
  BY DEF Desk!Arrives
<1>3. c \in DeskReloads /\ c.revision <= vServer /\ vServer \in Nat
  BY DEF DeskInv, DeskShapes, DeskPast
<1>4. /\ vShown' \in DeskShownPages /\ vShown'.revision = c.revision /\ vShown'.page = c.page /\ vShown' # Nothing
      /\ c.revision \in Nat
  BY <1>1, <1>3 DEF DeskShownPages, DeskReloads, DeskSuitable
<1>5. vShown # Nothing => vShown.revision <= c.revision
  BY <1>1 DEF DeskInv, DeskOneInForce
<1>6. vChecked' \subseteq vChecked /\ (vChecked' # {} => vShown # Nothing /\ vShown.revision = c.revision)
  BY <1>1 DEF Desk!SelectionOf
<1>7. DeskShapes'
  BY <1>1, <1>2, <1>4, <1>6 DEF DeskInv, DeskShapes
<1>8. vShown # Nothing => vShown.revision \in Nat
  BY DEF DeskInv, DeskShapes, DeskShownPages
<1>9. vPreview # Nothing => vShown # Nothing /\ vPreview.revision \in Nat /\ vPreview.revision <= vShown.revision /\ 1 <= vPreview.revision
  BY DEF DeskInv, DeskShapes, DeskPast, DeskDecisions
<1>10. DeskPast'
  BY <1>1, <1>2, <1>3, <1>4, <1>5, <1>8, <1>9 DEF DeskInv, DeskPast, Desk!Nobody
<1>11. \A d \in vCalls' : d.old
  BY <1>1 DEF DeskInv, DeskOneInForce
<1>12. DeskOneInForce'
  BY <1>11 DEF DeskOneInForce
<1>13. vWorking = "no" /\ c.page = vView
  BY <1>1 DEF DeskInv, DeskUnderWay, DeskOneInForce
<1>14. DeskUnderWay' /\ DeskNamed'
  BY <1>2, <1>13 DEF DeskInv, DeskUnderWay, DeskNamed
<1>15. DeskCheckedOnPage'
  BY <1>2, <1>4, <1>6 DEF DeskInv, DeskCheckedOnPage
<1>16. ASSUME vPreview # Nothing, vPreview.action = "restore", vPreview.revision = c.revision
       PROVE  vPreview.items \subseteq DeskArchived[<<c.revision, c.page>>]
  <2>1. vShown.revision = c.revision
    BY <1>16, <1>5, <1>8, <1>9, <1>4
  <2> QED BY <2>1, <1>16, <1>1 DEF DeskInv, DeskRestoring
<1>17. DeskRestoring'
  BY <1>2, <1>4, <1>11, <1>13, <1>16 DEF DeskRestoring
<1>18. DeskQuiet
  BY <1>2, <1>4, <1>5, <1>8, <1>13 DEF DeskQuiet, DeskShownForward
<1> QED BY <1>7, <1>10, <1>12, <1>14, <1>15, <1>17, <1>18 DEF DeskInv

LEMMA DeskFewerCallsKeep == DeskSuitable /\ DeskInv /\ (Desk!Ignored \/ Desk!Fails) => DeskInv' /\ DeskQuiet
<1> SUFFICES ASSUME DeskSuitable, DeskInv, Desk!Ignored \/ Desk!Fails PROVE DeskInv' /\ DeskQuiet
  OBVIOUS
<1>1. vCalls' \subseteq vCalls /\ UNCHANGED <<vServer, vView, vShown, vChecked, vDrafts, vPreview, vWorking>>
  BY DEF Desk!Ignored, Desk!Fails
<1>2. DeskShapes' /\ DeskPast' /\ DeskOneInForce'
  BY <1>1 DEF DeskInv, DeskShapes, DeskPast, DeskOneInForce
<1>3. DeskCheckedOnPage' /\ DeskNamed' /\ DeskUnderWay' /\ DeskRestoring'
  BY <1>1 DEF DeskInv, DeskCheckedOnPage, DeskNamed, DeskUnderWay, DeskRestoring
<1>4. DeskQuiet
  BY <1>1, DeskShownStays DEF DeskQuiet, DeskInv, DeskUnderWay
<1> QED BY <1>2, <1>3, <1>4 DEF DeskInv

\* What the page lists are items of the review.
LEMMA DeskVisibleItems ==
  ASSUME DeskSuitable, DeskInv
  PROVE  /\ Desk!Visible \subseteq Desk!Items /\ Desk!Restorable \subseteq Desk!Items
         /\ Desk!Described \subseteq Desk!Visible
<1>1. CASE Desk!CurrentPage
  <2>1. vShown.revision \in 1..DeskMaxRevision /\ vShown.page \in DeskPage
    BY <1>1 DEF Desk!CurrentPage, DeskInv, DeskShapes, DeskPast, DeskShownPages, DeskSuitable
  <2>2. ASSUME NEW r \in 1..DeskMaxRevision, NEW p \in DeskPage
        PROVE  DeskOpenItems[<<r, p>>] \cup DeskArchived[<<r, p>>] \subseteq Desk!Items
    <3>1. PICK X : X = DeskOpenItems[<<r, p>>] \cup DeskArchived[<<r, p>>]
      OBVIOUS
    <3>2. X \in {DeskOpenItems[<<s, q>>] \cup DeskArchived[<<s, q>>] : s \in 1..DeskMaxRevision, q \in DeskPage}
      BY <3>1
    <3>3. ASSUME NEW i \in X PROVE i \in Desk!Items
      BY <3>2, <3>3, SMTT(60) DEF Desk!Items
    <3> QED BY <3>1, <3>3
  <2>3. DeskOpenItems[<<vShown.revision, vShown.page>>] \cup DeskArchived[<<vShown.revision, vShown.page>>] \subseteq Desk!Items
    BY <2>1, <2>2
  <2> QED BY <1>1, <2>3 DEF Desk!Visible, Desk!Restorable, Desk!Described
<1>2. CASE ~Desk!CurrentPage
  BY <1>2 DEF Desk!Visible, Desk!Restorable, Desk!Described
<1> QED BY <1>1, <1>2

LEMMA DeskPageKeeps ==
  DeskSuitable /\ DeskInv /\ (Desk!Check \/ Desk!Draft \/ Desk!Cancel \/ Desk!Told) => DeskInv' /\ DeskQuiet
<1> SUFFICES ASSUME DeskSuitable, DeskInv, Desk!Check \/ Desk!Draft \/ Desk!Cancel \/ Desk!Told
             PROVE  DeskInv' /\ DeskQuiet
  OBVIOUS
<1>1. UNCHANGED <<vServer, vView, vShown, vCalls>>
  BY DEF Desk!Check, Desk!Draft, Desk!Cancel, Desk!Told
<1>2. Desk!Visible \subseteq Desk!Items /\ Desk!Described \subseteq Desk!Visible
  BY DeskVisibleItems
<1>3. /\ vDrafts \subseteq vDrafts' /\ vDrafts' \subseteq vDrafts \cup Desk!Visible
      /\ vChecked' \subseteq vChecked \cup Desk!Visible
      /\ vPreview' \in {vPreview, Nothing} /\ vWorking' \in {vWorking, "no"}
      /\ vPreview' # vPreview => vWorking' = "no" /\ vWorking = "no"
      /\ vWorking' # vWorking => vWorking = "tell"
  BY <1>2 DEF Desk!Check, Desk!Draft, Desk!Cancel, Desk!Told, Desk!Busy
<1>4. DeskShapes'
  BY <1>1, <1>2, <1>3 DEF DeskInv, DeskShapes
<1>5. DeskPast' /\ DeskOneInForce'
  BY <1>1, <1>3 DEF DeskInv, DeskPast, DeskOneInForce
<1>6. DeskCheckedOnPage'
  BY <1>1, <1>3 DEF DeskInv, DeskCheckedOnPage, Desk!Visible, Desk!CurrentPage
<1>7. DeskNamed' /\ DeskUnderWay' /\ DeskRestoring'
  BY <1>1, <1>3 DEF DeskInv, DeskNamed, DeskUnderWay, DeskRestoring
<1>8. ~ (vWorking = "decided" /\ vPreview' = Nothing) /\ ~ (vWorking = "sent" /\ vWorking' = "decided")
  BY <1>3 DEF DeskInv, DeskUnderWay
<1>9. DeskQuiet
  BY <1>1, <1>3, <1>8, DeskShownStays DEF DeskQuiet
<1> QED BY <1>4, <1>5, <1>6, <1>7, <1>9 DEF DeskInv

\* A dialog is opened with a decision of the revision shown.
LEMMA DeskDialogKeeps ==
  ASSUME DeskSuitable, DeskInv, vShown # Nothing, vWorking = "no",
         UNCHANGED <<vServer, vView, vShown, vChecked, vDrafts, vCalls, vWorking>>,
         NEW a \in {"seenBatch", "archive", "confirm", "defer", "restart", "restore"}, NEW S \in SUBSET Desk!Items,
         vPreview' = Desk!Decision(a, S, S),
         a \in DeskEnding => \E i \in Desk!Items : S = {i},
         a = "restore" => S \subseteq Desk!Restorable /\ Desk!CurrentPage
  PROVE  DeskInv' /\ DeskQuiet
<1>1. PICK new : new = vPreview' OBVIOUS
<1>2. vShown \in DeskShownPages /\ vShown.revision \in 1..vServer /\ vServer \in 1..DeskMaxRevision
  BY DEF DeskInv, DeskShapes, DeskPast
<1>3. new = [action |-> a, revision |-> vShown.revision, items |-> S, named |-> S, saved |-> Desk!Nobody]
  BY <1>1 DEF Desk!Decision
<1>4. /\ new \in DeskDecisions /\ new.revision = vShown.revision /\ new.named = S /\ new.items = S
      /\ new.action = a /\ new.saved = 0 /\ new # Nothing
  BY <1>2, <1>3 DEF DeskDecisions, Desk!Nobody, DeskShownPages, DeskSuitable
<1>5. DeskShapes'
  BY <1>1, <1>4 DEF DeskInv, DeskShapes
<1>6. DeskPast' /\ DeskOneInForce'
  BY <1>1, <1>2, <1>4 DEF DeskInv, DeskPast, DeskOneInForce, Desk!Nobody
<1>7. DeskCheckedOnPage' /\ DeskUnderWay'
  BY DEF DeskInv, DeskCheckedOnPage, DeskUnderWay
<1>8. DeskNamed'
  BY <1>1, <1>4 DEF DeskNamed
<1>9. DeskRestoring'
  <2>1. CASE a = "restore"
    <3>1. S \subseteq DeskArchived[<<vShown.revision, vShown.page>>] /\ vView = vShown.page
      BY <2>1 DEF Desk!Restorable, Desk!CurrentPage
    <3>2. \A c \in vCalls : ~c.old => c.page = vShown.page
      BY <3>1 DEF DeskInv, DeskOneInForce
    <3> QED BY <1>1, <1>4, <3>1, <3>2 DEF DeskRestoring
  <2>2. CASE a # "restore"
    BY <1>1, <1>4, <2>2 DEF DeskRestoring
  <2> QED BY <2>1, <2>2
<1>10. DeskQuiet
  BY DeskShownStays DEF DeskQuiet
<1> QED BY <1>5, <1>6, <1>7, <1>8, <1>9, <1>10 DEF DeskInv

LEMMA DeskPrepareKeeps == DeskSuitable /\ DeskInv /\ Desk!Prepare => DeskInv' /\ DeskQuiet
<1> SUFFICES ASSUME DeskSuitable, DeskInv, Desk!Prepare PROVE DeskInv' /\ DeskQuiet
  OBVIOUS
<1>1. UNCHANGED <<vServer, vView, vShown, vChecked, vDrafts, vCalls, vWorking>> /\ vShown # Nothing /\ vWorking = "no"
  BY DEF Desk!Prepare, Desk!Busy
<1>2. /\ Desk!Visible \subseteq Desk!Items /\ Desk!Described \subseteq Desk!Visible
      /\ Desk!CurrentPage => vChecked \subseteq Desk!Visible
  BY DeskVisibleItems DEF Desk!Visible, Desk!CurrentPage, DeskInv, DeskCheckedOnPage
<1>3. \/ Desk!CurrentPage /\ vPreview' = Desk!Decision("seenBatch", vChecked, Desk!Visible \cap vChecked)
      \/ \E i \in Desk!Described, a \in {"archive", "confirm"} : vPreview' = Desk!Decision(a, {i}, {i})
      \/ \E i \in Desk!Visible : vPreview' = Desk!Decision("defer", {i}, {i})
      \/ vPreview' = Desk!Decision("restart", {}, {})
  BY DEF Desk!Prepare
<1>4. CASE Desk!CurrentPage /\ vPreview' = Desk!Decision("seenBatch", vChecked, Desk!Visible \cap vChecked)
  <2>1. Desk!Visible \cap vChecked = vChecked /\ vChecked \in SUBSET Desk!Items
    BY <1>2, <1>4
  <2>2. vPreview' = Desk!Decision("seenBatch", vChecked, vChecked)
    BY <1>4, <2>1
  <2> QED BY <1>1, <2>1, <2>2, DeskDialogKeeps DEF DeskEnding
<1>5. ASSUME NEW i \in Desk!Visible, NEW a \in {"archive", "confirm", "defer"}, vPreview' = Desk!Decision(a, {i}, {i})
      PROVE  DeskInv' /\ DeskQuiet
  <2>1. {i} \in SUBSET Desk!Items /\ i \in Desk!Items
    BY <1>2
  <2> QED BY <1>1, <1>5, <2>1, DeskDialogKeeps
<1>6. CASE vPreview' = Desk!Decision("restart", {}, {})
  BY <1>1, <1>6, DeskDialogKeeps DEF DeskEnding
<1> QED BY <1>2, <1>3, <1>4, <1>5, <1>6

LEMMA DeskRestoreKeeps == DeskSuitable /\ DeskInv /\ Desk!Restore => DeskInv' /\ DeskQuiet
<1> SUFFICES ASSUME DeskSuitable, DeskInv, Desk!Restore PROVE DeskInv' /\ DeskQuiet
  OBVIOUS
<1>1. PICK i \in Desk!Restorable : vPreview' = Desk!Decision("restore", {i}, {i})
  BY DEF Desk!Restore
<1>2. UNCHANGED <<vServer, vView, vShown, vChecked, vDrafts, vCalls, vWorking>> /\ vWorking = "no"
  BY DEF Desk!Restore, Desk!Busy
<1>3. Desk!CurrentPage /\ vShown # Nothing
  BY <1>1 DEF Desk!Restorable, Desk!CurrentPage
<1>4. i \in Desk!Items /\ {i} \in SUBSET Desk!Items
  BY <1>1, DeskVisibleItems
<1> QED BY <1>1, <1>2, <1>3, <1>4, DeskDialogKeeps

LEMMA DeskApplyKeeps == DeskSuitable /\ DeskInv /\ Desk!Apply => DeskInv' /\ DeskQuiet
<1> SUFFICES ASSUME DeskSuitable, DeskInv, Desk!Apply PROVE DeskInv' /\ DeskQuiet
  OBVIOUS
<1>1. /\ UNCHANGED <<vServer, vView, vShown, vChecked, vDrafts, vPreview>>
      /\ vCalls' = Desk!Outdated /\ vWorking = "no" /\ vWorking' = "sent"
      /\ vPreview # Nothing /\ vPreview.revision = vShown.revision
  BY DEF Desk!Apply
<1>2. \A c \in vCalls' : c \in DeskReloads /\ c.old /\ c.revision <= vServer
  BY <1>1, DeskOutdatedCalls
<1>3. DeskShapes' /\ DeskPast' /\ DeskOneInForce'
  BY <1>1, <1>2 DEF DeskInv, DeskShapes, DeskPast, DeskOneInForce
<1>4. DeskCheckedOnPage' /\ DeskNamed' /\ DeskUnderWay' /\ DeskRestoring'
  BY <1>1, <1>2 DEF DeskInv, DeskCheckedOnPage, DeskNamed, DeskUnderWay, DeskRestoring
<1>5. DeskQuiet
  BY <1>1, DeskShownStays DEF DeskQuiet
<1> QED BY <1>3, <1>4, <1>5 DEF DeskInv

\* The review goes on to a later revision, or not at all.
LEMMA DeskLaterKeeps ==
  ASSUME DeskSuitable, DeskInv, vServer' \in 1..DeskMaxRevision, vServer <= vServer'
  PROVE  /\ vShown # Nothing => vShown.revision \in 1..vServer'
         /\ \A c \in vCalls : c.revision <= vServer'
         /\ vServer \in 1..DeskMaxRevision
         /\ vShown # Nothing /\ vServer # vShown.revision => vServer' # vShown.revision
BY DEF DeskInv, DeskShapes, DeskPast, DeskReloads, DeskSuitable

LEMMA DeskServerKeeps == DeskSuitable /\ DeskInv /\ (Desk!Refused \/ Desk!Elsewhere) => DeskInv' /\ DeskQuiet
<1> SUFFICES ASSUME DeskSuitable, DeskInv, Desk!Refused \/ Desk!Elsewhere PROVE DeskInv' /\ DeskQuiet
  OBVIOUS
<1>1. /\ UNCHANGED <<vView, vShown, vChecked, vDrafts, vPreview, vCalls>>
      /\ vServer' \in 1..DeskMaxRevision /\ vServer <= vServer'
      /\ vWorking' = vWorking \/ (vWorking \in {"sent", "decided"} /\ vWorking' = "no")
  BY DEF Desk!Refused, Desk!Elsewhere, DeskInv, DeskShapes, DeskSuitable
<1>2. /\ vShown # Nothing => vShown.revision \in 1..vServer'
      /\ \A c \in vCalls : c.revision <= vServer'
      /\ vShown # Nothing /\ vServer # vShown.revision => vServer' # vShown.revision
  BY <1>1, DeskLaterKeeps
<1>3. DeskShapes' /\ DeskOneInForce'
  BY <1>1 DEF DeskInv, DeskShapes, DeskOneInForce
<1>4. vPreview # Nothing => vPreview.saved \in Nat /\ vPreview.saved <= vServer'
  BY <1>1 DEF DeskInv, DeskShapes, DeskPast, DeskDecisions, DeskSuitable
<1>5. DeskPast'
  BY <1>1, <1>2, <1>4 DEF DeskInv, DeskPast
<1>6. DeskCheckedOnPage' /\ DeskNamed' /\ DeskUnderWay'
  BY <1>1 DEF DeskInv, DeskCheckedOnPage, DeskNamed, DeskUnderWay
<1>7. DeskRestoring'
  BY <1>1, <1>2 DEF DeskInv, DeskRestoring, DeskPast
<1>8. DeskQuiet
  BY <1>1, DeskShownStays DEF DeskQuiet, DeskInv, DeskUnderWay
<1> QED BY <1>3, <1>5, <1>6, <1>7, <1>8 DEF DeskInv

LEMMA DeskDecideKeeps == DeskSuitable /\ DeskInv /\ Desk!Decide => DeskInv' /\ DeskForward
<1> SUFFICES ASSUME DeskSuitable, DeskInv, Desk!Decide PROVE DeskInv' /\ DeskForward
  OBVIOUS
<1>1. /\ vWorking = "sent" /\ vWorking' = "decided" /\ UNCHANGED <<vView, vShown, vChecked, vDrafts, vCalls>>
      /\ vPreview' = [vPreview EXCEPT !.saved = vServer']
      /\ \/ vPreview.saved = Desk!Nobody /\ vServer = vPreview.revision /\ vServer < DeskMaxRevision /\ vServer' = vServer + 1
         \/ vPreview.saved # Desk!Nobody /\ vServer' = vServer
  BY DEF Desk!Decide, Desk!Fitting
<1>2. /\ vPreview \in DeskDecisions /\ vPreview # Nothing /\ vPreview.revision = vShown.revision /\ \A c \in vCalls : c.old
      /\ vServer \in Nat /\ vServer >= 1
  BY <1>1 DEF DeskInv, DeskShapes, DeskUnderWay, DeskSuitable
<1>3. vServer' \in 1..DeskMaxRevision /\ vServer <= vServer' /\ vServer' \in Nat /\ vServer' # Desk!Nobody
  BY <1>1, <1>2 DEF DeskInv, DeskShapes, DeskSuitable, Desk!Nobody
<1>4. PICK new : new = [vPreview EXCEPT !.saved = vServer'] OBVIOUS
<1>5. /\ new \in DeskDecisions /\ new # Nothing /\ new.saved = vServer' /\ new.revision = vPreview.revision
      /\ new.action = vPreview.action /\ new.items = vPreview.items /\ new.named = vPreview.named
  BY <1>2, <1>3, <1>4 DEF DeskDecisions, DeskSuitable
<1>6. vPreview' = new
  BY <1>1, <1>4
<1>7. /\ vShown # Nothing => vShown.revision \in 1..vServer'
      /\ \A c \in vCalls : c.revision <= vServer'
      /\ vShown # Nothing /\ vServer # vShown.revision => vServer' # vShown.revision
  BY <1>3, DeskLaterKeeps
<1>8. DeskShapes' /\ DeskOneInForce'
  BY <1>1, <1>3, <1>5, <1>6 DEF DeskInv, DeskShapes, DeskOneInForce
<1>9. vPreview.revision \in Nat /\ vPreview.saved \in Nat /\ vPreview.saved <= vServer /\ (vPreview.saved # Desk!Nobody => vPreview.revision < vPreview.saved)
  BY <1>2 DEF DeskInv, DeskPast, DeskDecisions
<1>10. vPreview.revision < vServer'
  BY <1>1, <1>2, <1>9
<1>11. vShown # Nothing /\ 1 <= vPreview.revision /\ vPreview.revision <= vShown.revision
  BY <1>2 DEF DeskInv, DeskPast
<1>12. DeskPast'
  BY <1>1, <1>3, <1>5, <1>6, <1>7, <1>10, <1>11 DEF DeskPast
<1>13. DeskCheckedOnPage' /\ DeskNamed' /\ DeskUnderWay'
  BY <1>1, <1>2, <1>3, <1>5, <1>6 DEF DeskInv, DeskCheckedOnPage, DeskNamed, DeskUnderWay
<1>14. DeskRestoring'
  BY <1>1, <1>2, <1>5, <1>6, <1>7, <1>11 DEF DeskInv, DeskRestoring
<1>15. DeskForward
  BY <1>1, <1>2, DeskShownStays DEF DeskForward
<1> QED BY <1>8, <1>12, <1>13, <1>14, <1>15 DEF DeskInv

LEMMA DeskAppliedKeeps == DeskSuitable /\ DeskInv /\ Desk!Applied => DeskInv' /\ DeskForward
<1> SUFFICES ASSUME DeskSuitable, DeskInv, Desk!Applied PROVE DeskInv' /\ DeskForward
  OBVIOUS
<1>1. /\ vWorking = "decided" /\ vWorking' = "tell" /\ vServer' = vServer
      /\ vShown' = [revision |-> vPreview.saved, page |-> DeskHome[vView]] /\ vView' = DeskHome[vView] /\ vChecked' = {}
      /\ vDrafts' = vDrafts \ Desk!Taken
      /\ vPreview' = Nothing /\ vCalls' = Desk!Outdated
  BY DEF Desk!Applied
<1>2. /\ vPreview # Nothing /\ vPreview \in DeskDecisions /\ vPreview.revision = vShown.revision /\ vPreview.saved # Desk!Nobody
  BY <1>1 DEF DeskInv, DeskShapes, DeskUnderWay
<1>3. /\ vPreview.saved \in Nat /\ vPreview.saved <= vServer /\ vPreview.revision < vPreview.saved
      /\ vPreview.revision \in Nat /\ vServer \in Nat
  BY <1>2 DEF DeskInv, DeskPast, DeskShapes, DeskDecisions
<1>4. vShown' \in DeskShownPages /\ vShown'.revision = vPreview.saved /\ vView' \in DeskPage /\ vShown' # Nothing
  BY <1>1, <1>3 DEF DeskShownPages, DeskSuitable, DeskInv, DeskShapes
<1>5. DeskShapes'
  BY <1>1, <1>4, DeskOutdatedCalls DEF DeskInv, DeskShapes
<1>6. \A c \in vCalls' : c \in DeskReloads /\ c.old /\ c.revision <= vServer
  BY <1>1, DeskOutdatedCalls
<1>7. DeskPast' /\ DeskOneInForce'
  BY <1>1, <1>3, <1>4, <1>6 DEF DeskPast, DeskOneInForce, Desk!Nobody
<1>8. DeskCheckedOnPage' /\ DeskNamed' /\ DeskUnderWay' /\ DeskRestoring'
  BY <1>1, <1>6 DEF DeskCheckedOnPage, DeskNamed, DeskUnderWay, DeskRestoring
<1>9. vPreview.action \in DeskEnding => \E i \in Desk!Items : vPreview.items = {i}
  BY <1>2 DEF DeskInv, DeskNamed
<1>10. vPreview.action = "restore" => vPreview.items \subseteq DeskArchived[<<vShown.revision, vShown.page>>]
  BY <1>2 DEF DeskInv, DeskRestoring
<1>11. /\ vPreview.action \in DeskEnding => Desk!Taken = vPreview.items
       /\ vPreview.action \notin DeskEnding => Desk!Taken = {}
  BY <1>10 DEF Desk!Taken, DeskEnding
<1>12. vDrafts \ vDrafts' # {} => vPreview.action \in DeskEnding /\ vDrafts \ vDrafts' = vPreview.items
  BY <1>1, <1>9, <1>11
<1>13. vPreview.action \in DeskEnding => vDrafts' \cap vPreview.items = {}
  BY <1>1, <1>11
<1>14. DeskShownForward
  BY <1>2, <1>3, <1>4 DEF DeskShownForward
<1>15. DeskForward
  BY <1>1, <1>2, <1>12, <1>13, <1>14 DEF DeskForward, DeskEnding
<1> QED BY <1>5, <1>7, <1>8, <1>15 DEF DeskInv

LEMMA DeskStepKeeps == DeskSuitable /\ DeskInv /\ [Desk!Next]_Desk!vars => DeskInv' /\ [DeskForward]_Desk!vars
<1> SUFFICES ASSUME DeskSuitable, DeskInv, [Desk!Next]_Desk!vars PROVE DeskInv' /\ [DeskForward]_Desk!vars
  OBVIOUS
<1>1. CASE \/ Desk!ReloadPage \/ (\E c \in vCalls : Desk!Read(c)) \/ Desk!Arrives \/ Desk!Ignored \/ Desk!Fails \/ Desk!Expires
           \/ Desk!Turn \/ Desk!Check \/ Desk!Draft \/ Desk!Cancel \/ Desk!Told \/ Desk!Prepare \/ Desk!Restore
           \/ Desk!Apply \/ Desk!Refused \/ Desk!Elsewhere
  <2>1. DeskInv' /\ DeskQuiet
    BY <1>1, DeskReloadKeeps, DeskReadKeeps, DeskArrivesKeeps, DeskFewerCallsKeep, DeskExpiresKeeps, DeskTurnKeeps,
       DeskPageKeeps, DeskPrepareKeeps, DeskRestoreKeeps, DeskApplyKeeps, DeskServerKeeps
  <2> QED BY <2>1, DeskQuietIsForward
<1>2. CASE Desk!Decide \/ Desk!Applied
  BY <1>2, DeskDecideKeeps, DeskAppliedKeeps
<1>3. CASE UNCHANGED Desk!vars
  <2>1. UNCHANGED <<vServer, vView, vShown, vChecked, vDrafts, vPreview, vCalls, vWorking>>
    BY <1>3 DEF Desk!vars
  <2> QED BY <1>3, <2>1 DEF DeskInv, DeskShapes, DeskPast, DeskOneInForce, DeskUnderWay, DeskCheckedOnPage, DeskNamed, DeskRestoring
<1> QED BY <1>1, <1>2, <1>3 DEF Desk!Next

LEMMA DeskInvGives == DeskSuitable /\ DeskInv => Desk!TypeOK /\ Desk!BatchIsNamed
<1> SUFFICES ASSUME DeskSuitable, DeskInv PROVE Desk!TypeOK /\ Desk!BatchIsNamed
  OBVIOUS
<1>1. vPreview # Nothing =>
        /\ vPreview.revision \in 1..vServer /\ vPreview.items \subseteq Desk!Items
        /\ vPreview.saved \in {Desk!Nobody} \cup (1..vServer)
  BY DEF DeskInv, DeskShapes, DeskPast, DeskDecisions, DeskShownPages, Desk!Nobody
<1>2. Desk!TypeOK
  BY <1>1 DEF DeskInv, DeskShapes, DeskPast, Desk!TypeOK, DeskShownPages, DeskReloads, Desk!Nobody
<1>3. Desk!BatchIsNamed
  BY DEF DeskInv, DeskShapes, Desk!BatchIsNamed, Desk!CurrentPage, Desk!Visible, DeskCheckedOnPage, DeskNamed
<1> QED BY <1>2, <1>3

\* A decision is of what its dialog names and is carried out once, in the revision the dialog shows,
\* however often its answer is lost and it is sent again; no late answer takes the page back to an older
\* revision; and a draft goes with the answer to its own item's confirmation, archive or restoration, and
\* with nothing else (ChangeReviewWorkspace.tsx 77-93).
THEOREM DeskCorrect == Desk!Spec => []Desk!TypeOK /\ DeskIsCurrent
<1> DeskSuitable
  BY PartsAreSuited
<1>1. Desk!Init => DeskInv
  BY DeskInitHolds
<1>2. DeskInv /\ [Desk!Next]_Desk!vars => DeskInv' /\ [DeskForward]_Desk!vars
  BY DeskStepKeeps
<1>3. DeskInv => Desk!TypeOK /\ Desk!BatchIsNamed
  BY DeskInvGives
<1> QED BY <1>1, <1>2, <1>3, PTL DEF Desk!Spec, DeskIsCurrent, Desk!DeskGoesForward, DeskForward, DeskShownForward

-----------------------------------------------------------------------------
(* The places of the page                                                  *)

PlacesReturns == [snap : Places!Snap, view : Places!ViewKind]
PlacesChoices == PlaceTable \cup {Nothing}
PlacesWaiting == PlacesJumps \cup {Nothing}
PlacesReadState == {"no", "read", "failed"}
PlacesPageStates ==
  [snap : Places!Snap, session : Nat, preview : BOOLEAN, before : Places!Snap, mode : Places!Mode, review : BOOLEAN,
   list : BOOLEAN, preflight : BOOLEAN, document : Nat, discovery : Nat, search : BOOLEAN,
   view : Places!ViewKind, selected : PlacesChoices, column : BOOLEAN, jump : PlacesWaiting,
   jumps : Nat, read : PlacesReadState, kept : PlacesReturns]
PlacesCanvases == [focus : PlaceTable \cup {Nothing}, seen : Nat, handled : Nat, laid : BOOLEAN]

\* Every snapshot has a source and tables, and "nothing" is no snapshot, table or jump.

\* What a page names is on it: its own session or an earlier one, a table of what is shown, a jump
\* to the table selected.
PlacesPointing(p) ==
  /\ p.selected # Nothing =>
       p.snap # Nothing /\ p.selected \in PlaceTables[p.snap] \cup (IF p.before = Nothing THEN {} ELSE PlaceTables[p.before])
  /\ p.jump # Nothing => p.jump.snap = p.snap /\ p.jump.table \in PlaceTables[p.snap] /\ p.selected = p.jump.table
PlacesGood(p) ==
  /\ p \in PlacesPageStates /\ p.document <= p.session /\ p.discovery <= p.session
  /\ p.jump # Nothing => p.jump.number <= p.jumps
  /\ PlacesPointing(p)

\* A jump seen by the diagram left it without a focus, or with one on its own table.
PlacesUnheld(p, c) == p.jump # Nothing /\ c.seen = p.jump.number => c.focus \in {Nothing, p.jump.table}
PlacesMountable(p, c) == c \in PlacesCanvases /\ c.seen <= p.jumps /\ c.handled <= p.jumps

PlacesInv ==
  /\ PlacesGood(nPage) /\ PlacesMountable(nPage, nCanvas)
  /\ Places!Diagram(nPage) = "explore" /\ nPage.jump # Nothing => nCanvas.seen = nPage.jump.number /\ PlacesUnheld(nPage, nCanvas)
  /\ nLatest \in [PlaceSource -> Places!Snap] /\ nLast \in [PlaceSource -> BOOLEAN]

\* Inv of the parts an action of the page changes.
PlacesPlaced == PlacesGood(nPage) /\ PlacesMountable(nPage, nCanvas) /\ (Places!Diagram(nPage) = "explore" /\ nPage.jump # Nothing => nCanvas.seen = nPage.jump.number /\ PlacesUnheld(nPage, nCanvas))

LEMMA PlacesRenderKeeps ==
  ASSUME PlacesSuitable, NEW p, PlacesGood(p), NEW c, PlacesMountable(p, c), Places!Render(p, c),
         Places!Diagram(p) = Places!Diagram(nPage) /\ Places!Diagram(p) = "explore" => PlacesUnheld(p, c)
  PROVE  PlacesPlaced'
<1>1. PICK m : m = Places!Mounted(p, c)
  OBVIOUS
<1>2. /\ PlacesMountable(p, m)
      /\ Places!Diagram(p) = "explore" => PlacesUnheld(p, m)
  <2>1. CASE Places!Diagram(p) = Places!Diagram(nPage)
    BY <1>1, <2>1 DEF Places!Mounted
  <2>2. CASE Places!Diagram(p) # Places!Diagram(nPage)
    <3>1. m = Places!Untouched
      BY <1>1, <2>2 DEF Places!Mounted
    <3>2. m \in PlacesCanvases /\ m.seen = 0 /\ m.handled = 0 /\ m.focus = Nothing
      BY <3>1 DEF Places!Untouched, PlacesCanvases
    <3> QED BY <3>2 DEF PlacesMountable, PlacesUnheld, PlacesGood, PlacesPageStates
  <2> QED BY <2>1, <2>2
<1>3. PICK d : d = Places!Seen(p, m)
  OBVIOUS
<1>4. /\ PlacesMountable(p, d)
      /\ Places!Diagram(p) = "explore" /\ p.jump # Nothing => d.seen = p.jump.number /\ d.focus \in {Nothing, p.jump.table}
  <2>1. CASE Places!Diagram(p) = "explore" /\ p.jump # Nothing /\ m.seen # p.jump.number
    <3>1. PICK n \in Nat : n = p.jump.number /\ n <= p.jumps
      BY <2>1 DEF PlacesGood, PlacesPageStates, PlacesWaiting, PlacesJumps
    <3>2. d = [m EXCEPT !.seen = n, !.focus = Nothing]
      BY <1>3, <2>1, <3>1 DEF Places!Seen
    <3>3. d \in PlacesCanvases /\ d.seen = n /\ d.handled = m.handled /\ d.focus = Nothing
      BY <1>2, <3>2 DEF PlacesMountable, PlacesCanvases
    <3> QED BY <1>2, <3>1, <3>3 DEF PlacesMountable
  <2>2. CASE ~(Places!Diagram(p) = "explore" /\ p.jump # Nothing /\ m.seen # p.jump.number)
    <3>1. d = m
      BY <1>3, <2>2 DEF Places!Seen
    <3> QED BY <1>2, <2>2, <3>1 DEF PlacesUnheld
  <2> QED BY <2>1, <2>2
<1>5. PICK l \in BOOLEAN : nCanvas' = [d EXCEPT !.laid = l]
  <2>1. PICK f : f = (Places!Filter(p, d) = Places!Filter(nPage, nCanvas))
    OBVIOUS
  <2>2. nCanvas' = [d EXCEPT !.laid = d.laid /\ f]
    BY <1>1, <1>3, <2>1 DEF Places!Render
  <2>3. (d.laid /\ f) \in BOOLEAN
    BY Zenon
  <2> QED BY <2>2, <2>3
<1>6. nPage' = p
  BY DEF Places!Render
<1>7. nCanvas' \in PlacesCanvases /\ nCanvas'.seen = d.seen /\ nCanvas'.handled = d.handled /\ nCanvas'.focus = d.focus
  BY <1>4, <1>5 DEF PlacesMountable, PlacesCanvases
<1>8. PlacesGood(nPage') /\ PlacesMountable(nPage', nCanvas')
  BY <1>4, <1>6, <1>7 DEF PlacesMountable
<1>9. Places!Diagram(nPage') = "explore" /\ nPage'.jump # Nothing => nCanvas'.seen = nPage'.jump.number /\ PlacesUnheld(nPage', nCanvas')
  BY <1>4, <1>6, <1>7 DEF PlacesUnheld
<1> QED BY <1>8, <1>9 DEF PlacesPlaced, PlacesGood, PlacesMountable, PlacesPointing, PlacesUnheld, Places!Diagram

\* The same for a page that keeps the jump or drops it, with the canvas as it is or another focus.
LEMMA PlacesPageKeeps ==
  ASSUME PlacesSuitable, PlacesPlaced, NEW p, PlacesGood(p), p.jump \in {nPage.jump, Nothing}, p.jumps = nPage.jumps,
         NEW c, PlacesMountable(nPage, c), Places!Render(p, c), c.seen = nCanvas.seen,
         c.focus \in {nCanvas.focus, Nothing} \/ p.jump = Nothing \/ c.focus = p.selected
  PROVE  PlacesPlaced'
<1>1. PlacesMountable(p, c)
  BY DEF PlacesMountable
<1>2. ASSUME Places!Diagram(p) = Places!Diagram(nPage), Places!Diagram(p) = "explore", p.jump # Nothing, c.seen = p.jump.number
      PROVE  c.focus \in {Nothing, p.jump.table}
  BY <1>2 DEF PlacesPlaced, PlacesUnheld, PlacesGood, PlacesPointing
<1> QED BY <1>1, <1>2, PlacesRenderKeeps DEF PlacesUnheld

\* What an action that leaves the canvas alone does to the page.
LEMMA PlacesDoesKeeps ==
  ASSUME PlacesSuitable, PlacesInv, NEW p, PlacesGood(p), p.jump \in {nPage.jump, Nothing}, p.jumps = nPage.jumps,
         Places!Render(p, nCanvas), UNCHANGED <<nLatest, nLast>>
  PROVE  PlacesInv'
<1>1. PlacesPlaced /\ PlacesMountable(nPage, nCanvas)
  BY DEF PlacesInv, PlacesPlaced
<1>2. PlacesPlaced'
  BY <1>1, PlacesPageKeeps
<1> QED BY <1>2 DEF PlacesPlaced, PlacesInv

\* Another snapshot: nothing that names the old one stays.
LEMMA PlacesShownGood ==
  ASSUME PlacesSuitable, PlacesGood(nPage), NEW n \in Places!Snap, NEW preview \in BOOLEAN, NEW before \in Places!Snap,
         NEW mode \in Places!Mode, NEW view \in Places!ViewKind, NEW p, p = Places!Shown(n, preview, before, mode, view)
  PROVE  /\ PlacesGood(p) /\ p.jump = Nothing /\ p.jumps = nPage.jumps /\ p.selected = Nothing
<1>1. nPage \in PlacesPageStates
  BY DEF PlacesGood
<1>2. p = [nPage EXCEPT !.snap = n, !.session = nPage.session + 1, !.preview = preview, !.before = before, !.mode = mode,
                       !.view = view, !.selected = Nothing, !.jump = Nothing, !.read = "no"]
  BY DEF Places!Shown
<1>3. p \in PlacesPageStates
  <2>1. PICK s \in Nat : s = nPage.session + 1
    BY <1>1 DEF PlacesPageStates
  <2>2. Nothing \in PlacesChoices /\ Nothing \in PlacesWaiting /\ "no" \in PlacesReadState
    BY DEF PlacesChoices, PlacesWaiting, PlacesReadState
  <2>3. p = [nPage EXCEPT !.snap = n, !.session = s, !.preview = preview, !.before = before, !.mode = mode,
                         !.view = view, !.selected = Nothing, !.jump = Nothing, !.read = "no"]
    BY <1>2, <2>1
  <2>4. PICK a : a = [nPage EXCEPT !.snap = n, !.session = s, !.before = before, !.mode = mode]
    OBVIOUS
  <2>5. PICK b : b = [a EXCEPT !.view = view, !.selected = Nothing, !.jump = Nothing, !.read = "no"]
    OBVIOUS
  <2>6. a \in PlacesPageStates
    BY <1>1, <2>1, <2>4 DEF PlacesPageStates
  <2>7. b \in PlacesPageStates
    BY <2>2, <2>5, <2>6 DEF PlacesPageStates
  <2>8. p = [b EXCEPT !.preview = preview]
    BY <2>3, <2>4, <2>5, <1>1
  <2>9. p \in PlacesPageStates
    BY <2>7, <2>8 DEF PlacesPageStates
  <2> QED BY <2>9
<1>4. /\ p.jump = Nothing /\ p.jumps = nPage.jumps /\ p.selected = Nothing
      /\ p.session = nPage.session + 1 /\ p.document = nPage.document /\ p.discovery = nPage.discovery
  BY <1>1, <1>2 DEF PlacesPageStates
<1>5. p.document <= p.session /\ p.discovery <= p.session
  BY <1>1, <1>4 DEF PlacesGood, PlacesPageStates
<1> QED BY <1>3, <1>4, <1>5 DEF PlacesGood, PlacesPointing

\* What changes beside the snapshot, the selection and the jump.
LEMMA PlacesBesideGood ==
  ASSUME NEW p, PlacesGood(p), NEW q, q \in PlacesPageStates,
         q.snap = p.snap, q.before = p.before, q.selected = p.selected, q.jumps = p.jumps,
         q.jump \in {p.jump, Nothing}, q.session = p.session,
         q.document \in {p.document, 0, p.session}, q.discovery \in {p.discovery, 0, p.session}
  PROVE  PlacesGood(q)
BY DEF PlacesGood, PlacesPageStates, PlacesPointing

LEMMA PlacesKeptIsReturn == ASSUME PlacesGood(nPage) PROVE Places!Kept \in PlacesReturns
<1>1. nPage \in PlacesPageStates
  BY DEF PlacesGood
<1>2. nPage.snap \in Places!Snap /\ nPage.view \in Places!ViewKind /\ nPage.kept \in PlacesReturns
  BY <1>1 DEF PlacesPageStates
<1> QED BY <1>2 DEF Places!Kept, PlacesReturns

LEMMA PlacesBackIsView == ASSUME PlacesGood(nPage), NEW s PROVE Places!Back(s) \in Places!ViewKind
<1>1. nPage \in PlacesPageStates
  BY DEF PlacesGood
<1>2. nPage.kept \in PlacesReturns
  BY <1>1 DEF PlacesPageStates
<1> QED BY <1>2 DEF Places!Back, PlacesReturns, Places!ViewKind

LEMMA PlacesCaptureKeeps ==
  ASSUME PlacesSuitable, PlacesInv, NEW n \in PlaceSnapshot, NEW before \in Places!Snap, Places!Capture(n, before)
  PROVE  PlacesInv'
<1>0. PlacesGood(nPage) /\ nPage \in PlacesPageStates
  BY DEF PlacesInv, PlacesGood
<1>1. PICK same \in BOOLEAN : same = Places!IsSource(nPage.snap, PlaceHome[n])
  BY DEF Places!IsSource
<1>2. PICK view :
        /\ view = (IF ~same THEN "none" ELSE IF nPage.preview THEN nPage.kept.view ELSE nPage.view)
        /\ Places!Render([Places!Shown(n, FALSE, before, IF ~same /\ before # Nothing THEN "changes" ELSE "explore", view)
                     EXCEPT !.list = TRUE, !.kept = [snap |-> n, view |-> view]], nCanvas)
  BY <1>1 DEF Places!Capture
<1>3. view \in Places!ViewKind
  <2>1. nPage.view \in Places!ViewKind /\ nPage.kept \in PlacesReturns
    BY <1>0 DEF PlacesPageStates
  <2>2. nPage.kept.view \in Places!ViewKind
    BY <2>1 DEF PlacesReturns
  <2> QED BY <1>2, <2>1, <2>2 DEF Places!ViewKind
<1>4. PICK mode \in Places!Mode : mode = IF ~same /\ before # Nothing THEN "changes" ELSE "explore"
  BY DEF Places!Mode
<1>5. PICK preview, p : preview \in BOOLEAN /\ preview = FALSE /\ p = Places!Shown(n, preview, before, mode, view)
  OBVIOUS
<1>6. PlacesGood(p) /\ p.jump = Nothing /\ p.jumps = nPage.jumps
  <2>1. n \in Places!Snap /\ before \in Places!Snap
    BY DEF Places!Snap
  <2> QED BY <1>0, <1>3, <1>4, <1>5, <2>1, PlacesShownGood
<1>7. PICK k \in PlacesReturns : k = [snap |-> n, view |-> view]
  BY <1>3 DEF PlacesReturns, Places!Snap
<1>8. PICK q : q = [p EXCEPT !.list = TRUE, !.kept = k]
  OBVIOUS
<1>9. /\ q \in PlacesPageStates
      /\ q.snap = p.snap /\ q.before = p.before /\ q.selected = p.selected /\ q.jumps = p.jumps
      /\ q.jump = p.jump /\ q.session = p.session /\ q.document = p.document /\ q.discovery = p.discovery
  <2>1. p \in PlacesPageStates
    BY <1>6 DEF PlacesGood
  <2> QED BY <2>1, <1>8 DEF PlacesPageStates
<1>10. PlacesGood(q)
  BY <1>6, <1>9, PlacesBesideGood
<1>11. Places!Render(q, nCanvas)
  BY <1>2, <1>4, <1>5, <1>7, <1>8
<1>12. PlacesPlaced'
  <2>1. PlacesPlaced /\ PlacesMountable(nPage, nCanvas)
    BY DEF PlacesInv, PlacesPlaced
  <2> QED BY <1>6, <1>9, <1>10, <1>11, <2>1, PlacesPageKeeps
<1>13. nLatest' \in [PlaceSource -> Places!Snap] /\ nLast' \in [PlaceSource -> BOOLEAN]
  BY DEF Places!Capture, PlacesInv, PlacesSuitable, Places!Snap
<1> QED BY <1>12, <1>13 DEF PlacesPlaced, PlacesInv

LEMMA PlacesShownThen ==
  ASSUME PlacesSuitable, PlacesInv, NEW n \in Places!Snap, NEW preview \in BOOLEAN, NEW before \in Places!Snap,
         NEW mode \in Places!Mode, NEW view \in Places!ViewKind, NEW p, p = Places!Shown(n, preview, before, mode, view),
         NEW k \in PlacesReturns, NEW q, Places!Does(q),
         \/ q = [p EXCEPT !.kept = k]
         \/ q = [p EXCEPT !.kept = k, !.list = TRUE, !.review = FALSE]
         \/ q = [p EXCEPT !.search = FALSE]
         \/ q = p
  PROVE  PlacesInv'
<1>1. PlacesGood(nPage)
  BY DEF PlacesInv
<1>2. PlacesGood(p) /\ p.jump = Nothing /\ p.jumps = nPage.jumps
  BY <1>1, PlacesShownGood
<1>3. p \in PlacesPageStates
  BY <1>2 DEF PlacesGood
<1>4. /\ q \in PlacesPageStates
      /\ q.snap = p.snap /\ q.before = p.before /\ q.selected = p.selected /\ q.jumps = p.jumps
      /\ q.jump = p.jump /\ q.session = p.session /\ q.document = p.document /\ q.discovery = p.discovery
  BY ZenonT(60), <1>3 DEF PlacesPageStates
<1>5. PlacesGood(q)
  BY <1>2, <1>4, PlacesBesideGood
<1> QED BY <1>2, <1>4, <1>5, PlacesDoesKeeps DEF Places!Does

\* A snapshot that only the page shows: of the history, of a comparison, or the newest again.
LEMMA PlacesHistoryKeeps ==
  ASSUME PlacesSuitable, PlacesInv, NEW n \in PlaceSnapshot, Places!History(n)
  PROVE  PlacesInv'
<1>1. PICK p, k, q : p = Places!Shown(n, TRUE, Nothing, "explore", "none") /\ k = Places!Kept /\ q = [p EXCEPT !.kept = k]
  OBVIOUS
<1>2. k \in PlacesReturns /\ Places!Does(q)
  BY <1>1, PlacesKeptIsReturn DEF Places!History, PlacesInv
<1>3. n \in Places!Snap /\ Nothing \in Places!Snap /\ "explore" \in Places!Mode /\ "none" \in Places!ViewKind
  BY DEF Places!Snap, Places!Mode, Places!ViewKind
<1> QED BY <1>1, <1>2, <1>3, PlacesShownThen

LEMMA PlacesCompareKeeps ==
  ASSUME PlacesSuitable, PlacesInv, NEW n \in PlaceSnapshot, NEW b \in PlaceSnapshot, Places!Compare(n, b)
  PROVE  PlacesInv'
<1>1. PICK p, k, q : /\ p = Places!Shown(n, TRUE, b, "changes", "none") /\ k = Places!Kept
                     /\ q = [p EXCEPT !.kept = k, !.list = TRUE, !.review = FALSE]
  OBVIOUS
<1>2. k \in PlacesReturns /\ Places!Does(q)
  BY <1>1, PlacesKeptIsReturn DEF Places!Compare, PlacesInv
<1>3. n \in Places!Snap /\ b \in Places!Snap /\ "changes" \in Places!Mode /\ "none" \in Places!ViewKind
  BY SMTT(60) DEF Places!Snap, Places!Mode, Places!ViewKind
<1> QED BY <1>1, <1>2, <1>3, PlacesShownThen

LEMMA PlacesReturnKeeps ==
  ASSUME PlacesSuitable, PlacesInv, Places!ReturnToLatest
  PROVE  PlacesInv'
<1>1. PlacesGood(nPage) /\ nPage \in PlacesPageStates /\ nLatest \in [PlaceSource -> Places!Snap]
  BY DEF PlacesInv, PlacesGood
<1>2. PICK n, view, p, q :
        /\ n = nLatest[PlaceHome[nPage.snap]] /\ view = Places!Back(PlaceHome[nPage.snap])
        /\ p = Places!Shown(n, FALSE, Nothing, "explore", view) /\ q = [p EXCEPT !.search = FALSE]
  OBVIOUS
<1>3. Places!Does(q) /\ nPage.snap \in PlaceSnapshot
  BY <1>1, <1>2 DEF Places!ReturnToLatest, PlacesPageStates, Places!Snap
<1>4. n \in Places!Snap /\ view \in Places!ViewKind
  BY <1>1, <1>2, <1>3, PlacesBackIsView DEF PlacesSuitable
<1>5. Nothing \in Places!Snap /\ "explore" \in Places!Mode
  BY DEF Places!Snap, Places!Mode
<1>6. PICK k : k \in PlacesReturns
  BY <1>1, PlacesKeptIsReturn
<1> QED BY <1>2, <1>3, <1>4, <1>5, <1>6, PlacesShownThen

LEMMA PlacesForgetKeeps ==
  ASSUME PlacesSuitable, PlacesInv, NEW reset \in BOOLEAN, Places!Forget(reset)
  PROVE  PlacesInv'
<1>1. PlacesGood(nPage) /\ nPage \in PlacesPageStates
  BY DEF PlacesInv, PlacesGood
<1>2. nPage.preview \in BOOLEAN /\ nPage.view \in Places!ViewKind /\ nPage.mode \in Places!Mode
  BY <1>1 DEF PlacesPageStates
<1>3. PICK mode, view, p : mode \in Places!Mode /\ view \in Places!ViewKind /\ p = Places!Shown(Nothing, nPage.preview, Nothing, mode, view) /\ Places!Does(p)
  <2>1. CASE reset
    BY <1>2, <2>1 DEF Places!Forget, Places!Mode
  <2>2. CASE ~reset
    BY <1>2, <2>2 DEF Places!Forget, Places!ViewKind
  <2> QED BY <2>1, <2>2
<1>4. Nothing \in Places!Snap
  BY DEF Places!Snap
<1>5. PICK k : k \in PlacesReturns
  BY <1>1, PlacesKeptIsReturn
<1> QED BY <1>2, <1>3, <1>4, <1>5, PlacesShownThen

\* An action that changes what lies beside the snapshot, the selection and the jump.
LEMMA PlacesBesideKeeps ==
  ASSUME PlacesSuitable, PlacesInv, NEW q, q \in PlacesPageStates, Places!Render(q, nCanvas), UNCHANGED <<nLatest, nLast>>,
         q.snap = nPage.snap, q.before = nPage.before, q.selected = nPage.selected, q.jumps = nPage.jumps,
         q.jump \in {nPage.jump, Nothing}, q.session = nPage.session,
         q.document \in {nPage.document, 0, nPage.session}, q.discovery \in {nPage.discovery, 0, nPage.session}
  PROVE  PlacesInv'
<1>1. PlacesGood(q)
  BY PlacesBesideGood DEF PlacesInv
<1> QED BY <1>1, PlacesDoesKeeps

LEMMA PlacesPreferredIsView == ASSUME PlacesGood(nPage), NEW there PROVE Places!Preferred(there) \in Places!ViewKind
<1>1. nPage.view \in Places!ViewKind
  BY DEF PlacesGood, PlacesPageStates
<1> QED BY <1>1 DEF Places!Preferred, Places!ViewKind

LEMMA PlacesAnswersKeep ==
  ASSUME PlacesSuitable, PlacesInv, Places!ReadFails \/ (\E there \in BOOLEAN : Places!Read(there))
  PROVE  PlacesInv'
<1>1. nPage \in PlacesPageStates /\ PlacesGood(nPage)
  BY DEF PlacesInv, PlacesGood
<1>2. ASSUME NEW v \in Places!ViewKind, NEW r \in PlacesReadState, NEW q,
             q = [nPage EXCEPT !.read = r, !.view = v] \/ q = [nPage EXCEPT !.read = r],
             Places!Render(q, nCanvas), UNCHANGED <<nLatest, nLast>>
      PROVE  PlacesInv'
  <2>1. /\ q \in PlacesPageStates
        /\ q.snap = nPage.snap /\ q.before = nPage.before /\ q.selected = nPage.selected /\ q.jumps = nPage.jumps
        /\ q.jump = nPage.jump /\ q.session = nPage.session /\ q.document = nPage.document
        /\ q.discovery = nPage.discovery
    BY <1>1, <1>2 DEF PlacesPageStates
  <2> QED BY <1>2, <2>1, PlacesBesideKeeps
<1>3. CASE Places!ReadFails
  <2>1. PICK r, q : r = "failed" /\ q = [nPage EXCEPT !.read = r]
    OBVIOUS
  <2>2. Places!Render(q, nCanvas) /\ UNCHANGED <<nLatest, nLast>> /\ r \in PlacesReadState
    BY <1>3, <2>1 DEF Places!ReadFails, Places!Answered, PlacesReadState
  <2>3. PICK v \in Places!ViewKind : TRUE
    BY DEF Places!ViewKind
  <2> QED BY <1>2, <2>1, <2>2, <2>3
<1>4. ASSUME NEW there \in BOOLEAN, Places!Read(there) PROVE PlacesInv'
  <2>1. PICK r, v, q : r = "read" /\ v = Places!Preferred(there) /\ q = [nPage EXCEPT !.read = r, !.view = v]
    OBVIOUS
  <2>2. v \in Places!ViewKind
    BY <1>1, <2>1, PlacesPreferredIsView
  <2>3. Places!Render(q, nCanvas) /\ UNCHANGED <<nLatest, nLast>> /\ r \in PlacesReadState
    BY <1>4, <2>1 DEF Places!Read, Places!Answered, PlacesReadState
  <2> QED BY <1>2, <2>1, <2>2, <2>3
<1> QED BY <1>3, <1>4

\* The jump asked for is newer than every one the diagram has seen.
LEMMA PlacesLocateKeeps ==
  ASSUME PlacesSuitable, PlacesInv, NEW t \in PlaceTable, Places!Locate(t)
  PROVE  PlacesInv'
<1>1. nPage \in PlacesPageStates /\ PlacesGood(nPage) /\ nPage.snap \in PlaceSnapshot /\ t \in PlaceTables[nPage.snap]
  BY DEF Places!Locate, PlacesInv, PlacesGood, PlacesPageStates, Places!Snap
<1>2. PICK n \in Nat \ {0} : n = nPage.jumps + 1
  BY <1>1 DEF PlacesPageStates
<1>3. PICK j : j = [snap |-> nPage.snap, table |-> t, number |-> n]
  OBVIOUS
<1>4. j \in PlacesJumps /\ j \in PlacesWaiting /\ j.snap = nPage.snap /\ j.table = t /\ j.number = n /\ j # Nothing
  BY <1>1, <1>2, <1>3 DEF PlacesJumps, PlacesWaiting, PlacesSuitable
<1>5. PICK a : a = [nPage EXCEPT !.mode = "explore", !.preflight = FALSE, !.document = 0, !.discovery = 0, !.search = FALSE]
  OBVIOUS
<1>6. PICK q : q = [a EXCEPT !.view = "none", !.selected = t, !.column = FALSE, !.jumps = n, !.jump = j]
  OBVIOUS
<1>7. a \in PlacesPageStates
  BY <1>1, <1>5 DEF PlacesPageStates, Places!Mode
<1>8. t \in PlacesChoices /\ "none" \in Places!ViewKind
  BY DEF PlacesChoices, Places!ViewKind
<1>9. q \in PlacesPageStates
  BY <1>2, <1>4, <1>6, <1>7, <1>8 DEF PlacesPageStates
<1>10. /\ q.snap = nPage.snap /\ q.before = nPage.before /\ q.selected = t /\ q.jumps = n /\ q.jump = j
       /\ q.session = nPage.session /\ q.document = 0 /\ q.discovery = 0
  BY <1>1, <1>5, <1>6 DEF PlacesPageStates
<1>11. PlacesGood(q)
  <2>1. q.document <= q.session /\ q.discovery <= q.session /\ q.jump.number <= q.jumps
    BY <1>1, <1>2, <1>4, <1>10 DEF PlacesPageStates
  <2>2. PlacesPointing(q)
    BY <1>1, <1>4, <1>10, t # Nothing DEF PlacesPointing, Places!Snap, PlacesSuitable
  <2> QED BY <1>9, <2>1, <2>2 DEF PlacesGood
<1>12. nCanvas.seen < n /\ PlacesMountable(q, nCanvas)
  BY <1>1, <1>2, <1>10 DEF PlacesInv, PlacesMountable, PlacesCanvases, PlacesPageStates
<1>13. PlacesUnheld(q, nCanvas)
  BY <1>4, <1>10, <1>12 DEF PlacesUnheld, PlacesInv, PlacesMountable, PlacesCanvases
<1>14. Places!Render(q, nCanvas) /\ UNCHANGED <<nLatest, nLast>>
  <2>1. q = [nPage EXCEPT !.mode = "explore", !.preflight = FALSE, !.document = 0, !.discovery = 0, !.search = FALSE,
                         !.view = "none", !.selected = t, !.column = FALSE, !.jumps = n, !.jump = j]
    BY <1>5, <1>6, <1>1
  <2> QED BY <2>1, <1>2, <1>3 DEF Places!Locate, Places!Does
<1> QED BY <1>11, <1>12, <1>13, <1>14, PlacesRenderKeeps DEF PlacesPlaced, PlacesInv

\* A view is applied: no jump waits, and the focus may go.
LEMMA PlacesAppliedKeeps ==
  ASSUME PlacesSuitable, PlacesInv, NEW p, p \in PlacesPageStates,
         p.snap = nPage.snap, p.before = nPage.before, p.selected = nPage.selected, p.jumps = nPage.jumps,
         p.session = nPage.session, p.document \in {nPage.document, 0}, p.discovery \in {nPage.discovery, 0},
         NEW v \in Places!ViewKind, NEW c, c = nCanvas \/ c = [nCanvas EXCEPT !.focus = Nothing],
         Places!Render(Places!Applied(p, v), c), Places!Remember(v), UNCHANGED nLatest
  PROVE  PlacesInv'
<1>1. PlacesGood(nPage) /\ PlacesPlaced /\ nCanvas \in PlacesCanvases
  BY DEF PlacesInv, PlacesPlaced, PlacesMountable
<1>2. PICK q : q = Places!Applied(p, v)
  OBVIOUS
<1>3. q = [p EXCEPT !.view = v, !.search = FALSE, !.jump = Nothing]
  BY <1>2 DEF Places!Applied
<1>4. q \in PlacesPageStates
  BY <1>3 DEF PlacesPageStates, PlacesWaiting
<1>5. /\ q.snap = nPage.snap /\ q.before = nPage.before /\ q.selected = nPage.selected /\ q.jumps = nPage.jumps
      /\ q.jump = Nothing /\ q.session = nPage.session /\ q.document \in {nPage.document, 0}
      /\ q.discovery \in {nPage.discovery, 0}
  BY <1>3 DEF PlacesPageStates
<1>6. PlacesGood(q)
  BY <1>1, <1>4, <1>5, PlacesBesideGood
<1>7. c \in PlacesCanvases /\ c.seen = nCanvas.seen /\ c.handled = nCanvas.handled
  BY <1>1 DEF PlacesCanvases
<1>8. PlacesMountable(nPage, c)
  BY <1>7 DEF PlacesInv, PlacesMountable
<1>9. PlacesPlaced'
  BY <1>1, <1>2, <1>5, <1>6, <1>7, <1>8, PlacesPageKeeps
<1>10. nLast' \in [PlaceSource -> BOOLEAN]
  <2>1. PICK b \in BOOLEAN : b = (v = "saved")
    BY Zenon
  <2>2. nLast' = [nLast EXCEPT ![PlaceHome[nPage.snap]] = b]
    BY <2>1 DEF Places!Remember
  <2> QED BY <2>1, <2>2 DEF PlacesInv
<1> QED BY <1>9, <1>10 DEF PlacesPlaced, PlacesInv

LEMMA PlacesApplyKeeps ==
  ASSUME PlacesSuitable, PlacesInv,
         (\E v \in {"none", "saved"} : Places!ApplyFromSidebar(v) \/ Places!ApplyFromDiagram(v)) \/ Places!ApplyFromPanel
  PROVE  PlacesInv'
<1>1. nPage \in PlacesPageStates
  BY DEF PlacesInv, PlacesGood
<1>2. ASSUME NEW v \in {"none", "saved"}, Places!ApplyFromSidebar(v) PROVE PlacesInv'
  <2>1. PICK p : p = [nPage EXCEPT !.document = 0, !.mode = "explore", !.preflight = FALSE, !.discovery = 0]
    OBVIOUS
  <2>2. Places!Render(Places!Applied(p, v), nCanvas) /\ Places!Remember(v) /\ UNCHANGED nLatest
    BY <1>2, <2>1 DEF Places!ApplyFromSidebar
  <2>3. /\ p \in PlacesPageStates
        /\ p.snap = nPage.snap /\ p.before = nPage.before /\ p.selected = nPage.selected /\ p.jumps = nPage.jumps
        /\ p.session = nPage.session /\ p.document = 0 /\ p.discovery = 0
    BY <1>1, <2>1 DEF PlacesPageStates, Places!Mode
  <2>4. v \in Places!ViewKind
    BY DEF Places!ViewKind
  <2> QED BY <2>2, <2>3, <2>4, PlacesAppliedKeeps
<1>3. ASSUME NEW v \in {"none", "saved"}, Places!ApplyFromDiagram(v) PROVE PlacesInv'
  <2>1. PICK c : c = [nCanvas EXCEPT !.focus = Nothing]
    OBVIOUS
  <2>2. Places!Render(Places!Applied(nPage, v), c) /\ Places!Remember(v) /\ UNCHANGED nLatest
    BY <1>3, <2>1 DEF Places!ApplyFromDiagram
  <2>3. v \in Places!ViewKind
    BY DEF Places!ViewKind
  <2> QED BY <1>1, <2>1, <2>2, <2>3, PlacesAppliedKeeps
<1>4. ASSUME Places!ApplyFromPanel PROVE PlacesInv'
  <2>1. Places!Render(Places!Applied(nPage, "domain"), nCanvas) /\ Places!Remember("domain") /\ UNCHANGED nLatest
    BY <1>4 DEF Places!ApplyFromPanel
  <2>2. "domain" \in Places!ViewKind
    BY DEF Places!ViewKind
  <2> QED BY <1>1, <2>1, <2>2, PlacesAppliedKeeps
<1> QED BY <1>2, <1>3, <1>4

\* What is chosen on a diagram is a table of what it shows, and no jump waits then.
LEMMA PlacesInspectedGood ==
  ASSUME PlacesSuitable, PlacesGood(nPage), Places!Usable, NEW t \in PlacesChoices, NEW field \in BOOLEAN, t # Nothing => t \in Places!OnDiagram,
         NEW q, q = Places!Inspected(t, field)
  PROVE  PlacesGood(q) /\ q.jump = Nothing /\ q.jumps = nPage.jumps /\ q.selected = t
<1>1. nPage \in PlacesPageStates
  BY DEF PlacesGood
<1>2. PICK b \in BOOLEAN : b = (field /\ t # Nothing)
  BY Zenon
<1>3. q = [nPage EXCEPT !.selected = t, !.jump = Nothing, !.column = b]
  BY <1>2 DEF Places!Inspected
<1>4. q \in PlacesPageStates
  BY <1>1, <1>2, <1>3 DEF PlacesPageStates, PlacesWaiting
<1>5. /\ q.selected = t /\ q.jump = Nothing /\ q.jumps = nPage.jumps /\ q.snap = nPage.snap /\ q.before = nPage.before
      /\ q.session = nPage.session /\ q.document = nPage.document /\ q.discovery = nPage.discovery
  BY <1>1, <1>3 DEF PlacesPageStates
<1>6. nPage.snap # Nothing /\ (Places!Diagram(nPage) = "changes" => nPage.before # Nothing)
  BY DEF Places!Usable, Places!Diagram
<1>7. t # Nothing => t \in PlaceTables[nPage.snap] \cup (IF nPage.before = Nothing THEN {} ELSE PlaceTables[nPage.before])
  BY <1>6 DEF Places!OnDiagram
<1>8. PlacesPointing(q)
  BY <1>5, <1>6, <1>7 DEF PlacesPointing
<1>9. q.document <= q.session /\ q.discovery <= q.session
  BY <1>5 DEF PlacesGood
<1> QED BY <1>4, <1>5, <1>8, <1>9 DEF PlacesGood

\* A canvas with another focus, or that has handled the jump, is still one the page can mount.
LEMMA PlacesFocusMounts ==
  ASSUME PlacesMountable(nPage, nCanvas), NEW f \in PlacesChoices
  PROVE  /\ PlacesMountable(nPage, [nCanvas EXCEPT !.focus = f])
         /\ [nCanvas EXCEPT !.focus = f].seen = nCanvas.seen
         /\ [nCanvas EXCEPT !.focus = f].focus = f
BY DEF PlacesMountable, PlacesCanvases, PlacesChoices

LEMMA PlacesInspectKeeps ==
  ASSUME PlacesSuitable, PlacesInv, NEW t \in PlacesChoices, NEW field \in BOOLEAN, Places!Inspect(t, field)
  PROVE  PlacesInv'
<1>1. PICK q : q = Places!Inspected(t, field)
  OBVIOUS
<1>2. PlacesGood(q) /\ q.jump = Nothing /\ q.jumps = nPage.jumps
  BY <1>1, PlacesInspectedGood DEF Places!Inspect, PlacesInv
<1>3. Places!Render(q, nCanvas) /\ UNCHANGED <<nLatest, nLast>>
  BY <1>1 DEF Places!Inspect, Places!Does
<1> QED BY <1>2, <1>3, PlacesDoesKeeps

\* The focus of the diagram changes, with the choice or alone.
LEMMA PlacesFocusKeeps ==
  ASSUME PlacesSuitable, PlacesInv, NEW q, PlacesGood(q), q.jump \in {nPage.jump, Nothing}, q.jumps = nPage.jumps,
         NEW f \in PlacesChoices, f \in {nCanvas.focus, Nothing} \/ q.jump = Nothing \/ f = q.selected,
         Places!Render(q, [nCanvas EXCEPT !.focus = f]), UNCHANGED <<nLatest, nLast>>
  PROVE  PlacesInv'
<1>1. PICK c : c = [nCanvas EXCEPT !.focus = f]
  OBVIOUS
<1>2. PlacesPlaced /\ PlacesMountable(nPage, c) /\ c.seen = nCanvas.seen /\ c.focus = f
  BY <1>1, PlacesFocusMounts DEF PlacesInv, PlacesPlaced
<1>3. PlacesPlaced'
  BY <1>1, <1>2, PlacesPageKeeps
<1> QED BY <1>3 DEF PlacesPlaced, PlacesInv

LEMMA PlacesIsolateKeeps ==
  ASSUME PlacesSuitable, PlacesInv, NEW t \in PlaceTable, Places!Isolate(t)
  PROVE  PlacesInv'
<1>1. PICK field, q : field \in BOOLEAN /\ field = FALSE /\ q = Places!Inspected(t, field)
  OBVIOUS
<1>2. t \in PlacesChoices /\ Nothing \in PlacesChoices
  BY DEF PlacesChoices
<1>3. PlacesGood(q) /\ q.jump = Nothing /\ q.jumps = nPage.jumps
  BY <1>1, <1>2, PlacesInspectedGood DEF Places!Isolate, PlacesInv
<1>4. PICK f \in PlacesChoices : f = IF nCanvas.focus = t THEN Nothing ELSE t
  BY <1>2
<1>5. Places!Render(q, [nCanvas EXCEPT !.focus = f]) /\ UNCHANGED <<nLatest, nLast>>
  BY <1>1, <1>4 DEF Places!Isolate
<1> QED BY <1>3, <1>4, <1>5, PlacesFocusKeeps

LEMMA PlacesFocusSelectedKeeps ==
  ASSUME PlacesSuitable, PlacesInv, Places!FocusSelected
  PROVE  PlacesInv'
<1>1. PlacesGood(nPage) /\ nPage.selected \in PlacesChoices
  BY DEF PlacesInv, PlacesGood, PlacesPageStates
<1>2. Places!Render(nPage, [nCanvas EXCEPT !.focus = nPage.selected]) /\ UNCHANGED <<nLatest, nLast>>
  BY DEF Places!FocusSelected
<1> QED BY <1>1, <1>2, PlacesFocusKeeps

LEMMA PlacesViewAllKeeps ==
  ASSUME PlacesSuitable, PlacesInv, Places!ViewAll
  PROVE  PlacesInv'
<1>1. PICK field, n, q : field \in BOOLEAN /\ n \in PlacesChoices /\ field = FALSE /\ n = Nothing /\ q = Places!Inspected(n, field)
  BY DEF PlacesChoices
<1>2. PlacesGood(q) /\ q.jump = Nothing /\ q.jumps = nPage.jumps
  BY <1>1, PlacesInspectedGood DEF Places!ViewAll, PlacesInv
<1>3. Places!Render(q, [nCanvas EXCEPT !.focus = n]) /\ UNCHANGED <<nLatest, nLast>>
  BY <1>1 DEF Places!ViewAll
<1> QED BY <1>1, <1>2, <1>3, PlacesFocusKeeps

LEMMA PlacesShowRelationsKeeps ==
  ASSUME PlacesSuitable, PlacesInv, Places!ShowRelations
  PROVE  PlacesInv'
<1>1. PICK clear \in BOOLEAN : Places!Render([nPage EXCEPT !.search = @ /\ ~clear], [nCanvas EXCEPT !.focus = Nothing])
  BY DEF Places!ShowRelations
<1>2. nPage \in PlacesPageStates /\ PlacesGood(nPage)
  BY DEF PlacesInv, PlacesGood
<1>3. PICK b \in BOOLEAN : b = (nPage.search /\ ~clear)
  BY Zenon
<1>4. PICK q : q = [nPage EXCEPT !.search = b]
  OBVIOUS
<1>5. /\ q \in PlacesPageStates
      /\ q.snap = nPage.snap /\ q.before = nPage.before /\ q.selected = nPage.selected /\ q.jumps = nPage.jumps
      /\ q.jump = nPage.jump /\ q.session = nPage.session /\ q.document = nPage.document /\ q.discovery = nPage.discovery
  BY <1>2, <1>4 DEF PlacesPageStates
<1>6. PlacesGood(q)
  BY <1>2, <1>5, PlacesBesideGood
<1>7. PICK f \in PlacesChoices : f = Nothing
  BY DEF PlacesChoices
<1>8. Places!Render(q, [nCanvas EXCEPT !.focus = f]) /\ UNCHANGED <<nLatest, nLast>>
  BY <1>1, <1>3, <1>4, <1>7 DEF Places!ShowRelations
<1> QED BY <1>5, <1>6, <1>7, <1>8, PlacesFocusKeeps

LEMMA PlacesLayoutKeeps ==
  ASSUME PlacesSuitable, PlacesInv, Places!Layout
  PROVE  PlacesInv'
<1>1. nPage' = nPage /\ nLatest' = nLatest /\ nLast' = nLast /\ nCanvas' = [nCanvas EXCEPT !.laid = TRUE]
  BY DEF Places!Layout
<1>2. nCanvas' \in PlacesCanvases /\ nCanvas'.seen = nCanvas.seen /\ nCanvas'.handled = nCanvas.handled /\ nCanvas'.focus = nCanvas.focus
  BY <1>1 DEF PlacesInv, PlacesMountable, PlacesCanvases
<1> QED BY <1>1, <1>2 DEF PlacesInv, PlacesGood, PlacesMountable, PlacesPointing, PlacesUnheld, Places!Diagram

\* finishLocate: the jump has arrived and waits no more.
LEMMA PlacesArriveKeeps ==
  ASSUME PlacesSuitable, PlacesInv, Places!Arrive
  PROVE  PlacesInv'
<1>1. nPage \in PlacesPageStates /\ PlacesGood(nPage) /\ PlacesMountable(nPage, nCanvas) /\ PlacesPlaced
  BY DEF PlacesInv, PlacesGood, PlacesPlaced
<1>2. PICK n \in Nat : n = nPage.jump.number /\ n <= nPage.jumps
  BY <1>1 DEF Places!Arrive, PlacesGood, PlacesPageStates, PlacesWaiting, PlacesJumps
<1>3. PICK q, c : q = [nPage EXCEPT !.jump = Nothing] /\ c = [nCanvas EXCEPT !.handled = n]
  OBVIOUS
<1>4. /\ q \in PlacesPageStates
      /\ q.snap = nPage.snap /\ q.before = nPage.before /\ q.selected = nPage.selected /\ q.jumps = nPage.jumps
      /\ q.jump = Nothing /\ q.session = nPage.session /\ q.document = nPage.document /\ q.discovery = nPage.discovery
  BY <1>1, <1>3 DEF PlacesPageStates, PlacesWaiting
<1>5. PlacesGood(q)
  BY <1>1, <1>4, PlacesBesideGood
<1>6. c.seen = nCanvas.seen /\ PlacesMountable(nPage, c)
  BY <1>1, <1>2, <1>3 DEF PlacesMountable, PlacesCanvases
<1>7. Places!Render(q, c) /\ UNCHANGED <<nLatest, nLast>>
  BY <1>2, <1>3 DEF Places!Arrive
<1>8. PlacesPlaced'
  BY <1>1, <1>4, <1>5, <1>6, <1>7, PlacesPageKeeps
<1> QED BY <1>7, <1>8 DEF PlacesPlaced, PlacesInv

\* The page stays on its snapshot, its selection and its jump, which may end.
PlacesBeside(q) ==
  /\ q \in PlacesPageStates /\ q.snap = nPage.snap /\ q.before = nPage.before /\ q.selected = nPage.selected
  /\ q.jumps = nPage.jumps /\ q.jump \in {nPage.jump, Nothing} /\ q.session = nPage.session
  /\ q.document \in {nPage.document, 0, nPage.session} /\ q.discovery \in {nPage.discovery, 0, nPage.session}

\* The modes and the covers of the page, and the jumps they end.
LEMMA PlacesGoesKeeps ==
  ASSUME PlacesSuitable, PlacesInv, Places!Goes
  PROVE  PlacesInv'
<1>1. nPage \in PlacesPageStates
  BY DEF PlacesInv, PlacesGood
<1>2. ASSUME NEW q, Places!Does(q), PlacesBeside(q) PROVE PlacesInv'
  <2>1. Places!Render(q, nCanvas) /\ UNCHANGED <<nLatest, nLast>>
    BY <1>2 DEF Places!Does
  <2> QED BY <1>2, <2>1, PlacesBesideKeeps DEF PlacesBeside
<1>3. ASSUME NEW m \in Places!Mode, Places!SetMode(m) PROVE PlacesInv'
  <2>1. PICK q : q = [nPage EXCEPT !.preflight = FALSE, !.jump = Nothing, !.mode = m]
    OBVIOUS
  <2>2. PlacesBeside(q)
    BY <1>1, <2>1 DEF PlacesBeside, PlacesPageStates, PlacesWaiting
  <2> QED BY <1>2, <1>3, <2>1, <2>2 DEF Places!SetMode
<1>4. ASSUME NEW b \in BOOLEAN, Places!SetReview(b) PROVE PlacesInv'
  <2>1. PICK q : q = [nPage EXCEPT !.review = b]
    OBVIOUS
  <2>2. PlacesBeside(q)
    BY <1>1, <2>1 DEF PlacesBeside, PlacesPageStates
  <2> QED BY <1>2, <1>4, <2>1, <2>2 DEF Places!SetReview
<1>5. ASSUME NEW b \in BOOLEAN, Places!SetList(b) PROVE PlacesInv'
  <2>1. PICK q : q = [nPage EXCEPT !.list = b]
    OBVIOUS
  <2>2. PlacesBeside(q)
    BY <1>1, <2>1 DEF PlacesBeside, PlacesPageStates
  <2> QED BY <1>2, <1>5, <2>1, <2>2 DEF Places!SetList
<1>6. ASSUME NEW b \in BOOLEAN, Places!Preflight(b) PROVE PlacesInv'
  <2>1. PICK q : q = [nPage EXCEPT !.preflight = b, !.mode = IF b THEN "explore" ELSE @]
    OBVIOUS
  <2>2. PlacesBeside(q)
    BY <1>1, <2>1 DEF PlacesBeside, PlacesPageStates, Places!Mode
  <2> QED BY <1>2, <1>6, <2>1, <2>2 DEF Places!Preflight
<1>7. ASSUME NEW b \in BOOLEAN, Places!CloseDiscovery(b) PROVE PlacesInv'
  <2>1. PICK q : q = [nPage EXCEPT !.discovery = 0, !.mode = IF b THEN "query" ELSE @]
    OBVIOUS
  <2>2. PlacesBeside(q)
    BY <1>1, <2>1 DEF PlacesBeside, PlacesPageStates, Places!Mode
  <2> QED BY <1>2, <1>7, <2>1, <2>2 DEF Places!CloseDiscovery
<1>8. ASSUME Places!OpenReview PROVE PlacesInv'
  <2>1. PICK q : q = [nPage EXCEPT !.review = TRUE, !.mode = "changes", !.preflight = FALSE]
    OBVIOUS
  <2>2. PlacesBeside(q)
    BY <1>1, <2>1 DEF PlacesBeside, PlacesPageStates, Places!Mode
  <2> QED BY <1>2, <1>8, <2>1, <2>2 DEF Places!OpenReview
<1>9. ASSUME Places!ReviewChanges PROVE PlacesInv'
  <2>1. PICK q : q = [nPage EXCEPT !.review = FALSE, !.mode = "changes", !.list = TRUE]
    OBVIOUS
  <2>2. PlacesBeside(q)
    BY <1>1, <2>1 DEF PlacesBeside, PlacesPageStates, Places!Mode
  <2> QED BY <1>2, <1>9, <2>1, <2>2 DEF Places!ReviewChanges
<1>10. ASSUME Places!Search PROVE PlacesInv'
  <2>1. PICK q : q = [nPage EXCEPT !.preflight = FALSE, !.search = TRUE, !.mode = "explore"]
    OBVIOUS
  <2>2. PlacesBeside(q)
    BY <1>1, <2>1 DEF PlacesBeside, PlacesPageStates, Places!Mode
  <2> QED BY <1>2, <1>10, <2>1, <2>2 DEF Places!Search
<1>11. ASSUME Places!OpenSearch PROVE PlacesInv'
  <2>1. PICK q : q = [nPage EXCEPT !.preflight = FALSE, !.mode = "explore"]
    OBVIOUS
  <2>2. PlacesBeside(q)
    BY <1>1, <2>1 DEF PlacesBeside, PlacesPageStates, Places!Mode
  <2> QED BY <1>2, <1>11, <2>1, <2>2 DEF Places!OpenSearch
<1>12. ASSUME Places!ClearSearch PROVE PlacesInv'
  <2>1. PICK q : q = [nPage EXCEPT !.search = FALSE]
    OBVIOUS
  <2>2. PlacesBeside(q)
    BY <1>1, <2>1 DEF PlacesBeside, PlacesPageStates
  <2> QED BY <1>2, <1>12, <2>1, <2>2 DEF Places!ClearSearch
<1>13. ASSUME Places!OpenDocument PROVE PlacesInv'
  <2>1. PICK q : q = [nPage EXCEPT !.document = nPage.session, !.mode = "explore", !.preflight = FALSE, !.discovery = 0]
    OBVIOUS
  <2>2. PlacesBeside(q)
    BY <1>1, <2>1 DEF PlacesBeside, PlacesPageStates, Places!Mode
  <2> QED BY <1>2, <1>13, <2>1, <2>2 DEF Places!OpenDocument
<1>14. ASSUME Places!CloseDocument PROVE PlacesInv'
  <2>1. PICK q : q = [nPage EXCEPT !.document = 0]
    OBVIOUS
  <2>2. PlacesBeside(q)
    BY <1>1, <2>1 DEF PlacesBeside, PlacesPageStates
  <2> QED BY <1>2, <1>14, <2>1, <2>2 DEF Places!CloseDocument
<1>15. ASSUME Places!OpenDiscovery PROVE PlacesInv'
  <2>1. PICK q : q = [nPage EXCEPT !.discovery = nPage.session]
    OBVIOUS
  <2>2. PlacesBeside(q)
    BY <1>1, <2>1 DEF PlacesBeside, PlacesPageStates
  <2> QED BY <1>2, <1>15, <2>1, <2>2 DEF Places!OpenDiscovery
<1>16. ASSUME Places!OpenInQuery PROVE PlacesInv'
  <2>1. PICK q : q = [nPage EXCEPT !.preflight = FALSE, !.jump = Nothing, !.mode = "query"]
    OBVIOUS
  <2>2. PlacesBeside(q)
    BY <1>1, <2>1 DEF PlacesBeside, PlacesPageStates, Places!Mode, PlacesWaiting
  <2> QED BY <1>2, <1>16, <2>1, <2>2 DEF Places!OpenInQuery
<1> QED BY <1>3, <1>4, <1>5, <1>6, <1>7, <1>8, <1>9, <1>10, <1>11, <1>12, <1>13, <1>14, <1>15, <1>16 DEF Places!Goes, Places!Mode

LEMMA PlacesStepKeeps == ASSUME PlacesSuitable, PlacesInv, [Places!Next]_Places!vars PROVE PlacesInv'
<1>1. CASE Places!Shows
  BY <1>1, PlacesCaptureKeeps, PlacesHistoryKeeps, PlacesCompareKeeps, PlacesReturnKeeps, PlacesForgetKeeps, PlacesAnswersKeep DEF Places!Shows, Places!Snap
<1>2. CASE Places!Looks
  BY <1>2, PlacesLocateKeeps, PlacesIsolateKeeps, PlacesInspectKeeps, PlacesApplyKeeps, PlacesFocusSelectedKeeps, PlacesViewAllKeeps, PlacesShowRelationsKeeps,
     PlacesLayoutKeeps, PlacesArriveKeeps DEF Places!Looks, PlacesChoices
<1>3. CASE Places!Goes
  BY <1>3, PlacesGoesKeeps
<1>4. CASE UNCHANGED Places!vars
  BY <1>4 DEF Places!vars, PlacesInv, PlacesGood, PlacesMountable, PlacesPointing, PlacesUnheld, Places!Diagram
<1> QED BY <1>1, <1>2, <1>3, <1>4 DEF Places!Next

LEMMA PlacesInitHolds == ASSUME PlacesSuitable, Places!Init PROVE PlacesInv
<1>1. nPage \in PlacesPageStates
  <2>1. [snap |-> Nothing, view |-> "none"] \in PlacesReturns
    BY DEF PlacesReturns, Places!Snap, Places!ViewKind
  <2>2. Nothing \in Places!Snap /\ Nothing \in PlacesChoices /\ Nothing \in PlacesWaiting /\ "explore" \in Places!Mode /\ "none" \in Places!ViewKind /\ "no" \in PlacesReadState
    BY DEF Places!Snap, PlacesChoices, PlacesWaiting, Places!Mode, Places!ViewKind, PlacesReadState
  <2> QED BY <2>1, <2>2 DEF Places!Init, PlacesPageStates
<1>2. PlacesGood(nPage) /\ nPage.jump = Nothing
  BY <1>1 DEF Places!Init, PlacesGood, PlacesPointing
<1>3. PlacesMountable(nPage, nCanvas)
  BY DEF Places!Init, PlacesMountable, Places!Untouched, PlacesCanvases
<1>4. nLatest \in [PlaceSource -> Places!Snap] /\ nLast \in [PlaceSource -> BOOLEAN]
  BY DEF Places!Init, Places!Snap
<1> QED BY <1>2, <1>3, <1>4 DEF PlacesInv

LEMMA PlacesInvGives == ASSUME PlacesSuitable, PlacesInv PROVE Places!TypeOK /\ Places!SelectionIsShown /\ Places!JumpIsCurrent
<1>1. nPage \in PlacesPageStates /\ PlacesGood(nPage) /\ PlacesPointing(nPage)
  BY DEF PlacesInv, PlacesGood
<1>2. nPage.jump \in {Nothing} \cup [snap : PlaceSnapshot, table : PlaceTable, number : 1..nPage.jumps]
  BY <1>1 DEF PlacesGood, PlacesPageStates, PlacesWaiting, PlacesJumps
<1>3. /\ nPage.snap \in Places!Snap /\ nPage.before \in Places!Snap /\ nPage.mode \in Places!Mode /\ nPage.view \in Places!ViewKind
      /\ nPage.selected \in PlaceTable \cup {Nothing} /\ nPage.read \in {"no", "read", "failed"}
      /\ nPage.document \in 0..nPage.session /\ nPage.discovery \in 0..nPage.session
  BY <1>1 DEF PlacesGood, PlacesPageStates, PlacesChoices, PlacesReadState
<1>4. /\ nCanvas.focus \in PlaceTable \cup {Nothing} /\ nCanvas.seen \in 0..nPage.jumps /\ nCanvas.handled \in 0..nPage.jumps
  BY <1>1 DEF PlacesInv, PlacesMountable, PlacesCanvases, PlacesPageStates
<1>5. Places!TypeOK
  BY <1>2, <1>3, <1>4 DEF Places!TypeOK, PlacesInv
<1>6. Places!SelectionIsShown
  BY <1>1 DEF PlacesPointing, Places!SelectionIsShown
<1>7. Places!JumpIsCurrent
  <2>1. ASSUME nPage.jump # Nothing, nCanvas.focus # Nothing, Places!Diagram(nPage) = "explore" PROVE nCanvas.focus = nPage.jump.table
    BY <2>1 DEF PlacesInv, PlacesUnheld
  <2> QED BY <1>1, <2>1 DEF PlacesPointing, Places!JumpIsCurrent
<1> QED BY <1>5, <1>6, <1>7

\* The table the page points at is one of the snapshot shown, and a jump that waits is of it
\* (App.tsx, what a change of the source or of the snapshot clears).
THEOREM PlacesCorrect ==
  Places!Spec => []Places!TypeOK /\ []Places!SelectionIsShown /\ []Places!JumpIsCurrent
<1> PlacesSuitable
  BY PartsAreSuited
<1>1. Places!Init => PlacesInv
  BY PlacesInitHolds
<1>2. PlacesInv /\ [Places!Next]_Places!vars => PlacesInv'
  BY PlacesStepKeeps
<1>3. PlacesInv => Places!TypeOK /\ Places!SelectionIsShown /\ Places!JumpIsCurrent
  BY PlacesInvGives
<1> QED BY <1>1, <1>2, <1>3, PTL DEF Places!Spec

-----------------------------------------------------------------------------
(* The inspector beside the page                                           *)

BesidePlaces == [snap : BesideSnapshot \cup {Nothing}, table : BesideTable \cup {Nothing}, policy : BesidePolicy, changes : BOOLEAN]
BesidePhases == {"idle", "ready", "running", "error"}
BesidePanels == [asked : BOOLEAN, preview : BesideKnown, phase : BesidePhases, completed : BesideKnown]
BesideTexts == BesideQuestion \cup {""}
BesideStatuses == {"idle", "loading", "error"}
BesideExplanations ==
  [question : BesideTexts, preview : BesideTexts \cup {Nothing}, status : BesideStatuses, asked : BesideTexts \cup {Nothing},
   result : BesideTexts \cup {Nothing}]

\* Every snapshot has tables, requests are numbered, and "nothing" is none of them.

BesideShapes ==
  /\ iAt \in BesidePlaces /\ iSegment \in Beside!Segment /\ iColumn \in BOOLEAN /\ iPicked \in BesidePicks \cup {Nothing}
  /\ iRequest \in BesideKnown /\ iPanel \in BesidePanels /\ iExplain \in BesideExplanations
  /\ iPrepared \in 0..BesideMaxRequests

\* The steps of the panel, and the requests it numbers.
BesideStepwise(p, n) ==
  /\ p.asked => p.preview = Nothing
  /\ p.phase \in {"ready", "running"} => p.preview # Nothing
  /\ p.phase = "running" => p.completed = Nothing
  /\ p.preview # Nothing => p.preview <= n
  /\ p.completed # Nothing => p.completed <= n

\* The request in force is the one on the panel; without an assistant there is none; and what
\* is looked up is of the request in force, at the place where it was looked up.
BesideCurrent(a, p, r) == IF Beside!Mounted(a) THEN r = (IF p.completed # Nothing THEN p.completed ELSE p.preview)
                    ELSE p = Beside!NoPanel /\ r = Nothing
BesideLooked(a, k, r) == k # Nothing =>
  Beside!Mounted(a) /\ r # Nothing /\ k.request = r /\ k.scope = Beside!Scope(a) /\ k.table \in BesideTables[a.snap]

BesideInv == BesideShapes /\ BesideStepwise(iPanel, iPrepared) /\ BesideCurrent(iAt, iPanel, iRequest) /\ BesideLooked(iAt, iPicked, iRequest)

LEMMA BesideInitHolds == ASSUME BesideSuitable, Beside!Init PROVE BesideInv
<1>1. iAt \in BesidePlaces /\ ~Beside!Mounted(iAt)
  BY DEF Beside!Init, BesidePlaces, Beside!Mounted
<1>2. iPanel \in BesidePanels /\ iExplain \in BesideExplanations
  BY DEF Beside!Init, Beside!NoPanel, Beside!NoExplanation, BesidePanels, BesideExplanations, BesideKnown, BesidePhases, BesideTexts, BesideStatuses
<1>3. BesideStepwise(iPanel, iPrepared)
  BY DEF Beside!Init, Beside!NoPanel, BesideStepwise
<1>4. iPanel = Beside!NoPanel /\ iRequest = Nothing /\ iPicked = Nothing
  BY DEF Beside!Init
<1>5. BesideCurrent(iAt, iPanel, iRequest) /\ BesideLooked(iAt, iPicked, iRequest)
  BY <1>1, <1>4 DEF BesideCurrent, BesideLooked
<1>6. BesideShapes
  <2>1. iPrepared = 0 /\ 0 \in 0..BesideMaxRequests
    BY DEF Beside!Init, BesideSuitable
  <2>2. iRequest \in BesideKnown /\ iPicked \in BesidePicks \cup {Nothing} /\ iSegment \in Beside!Segment /\ iColumn \in BOOLEAN
    BY <1>4 DEF Beside!Init, BesideKnown, Beside!Segment
  <2> QED BY <1>1, <1>2, <2>1, <2>2 DEF BesideShapes
<1> QED BY <1>3, <1>5, <1>6 DEF BesideInv

LEMMA BesideNothingShown == Beside!NoPanel \in BesidePanels /\ (\A n : BesideStepwise(Beside!NoPanel, n))
BY DEF Beside!NoPanel, BesidePanels, BesideKnown, BesidePhases, BesideStepwise

\* Another session of the explanation starts with nothing but the question.
LEMMA BesideExplainShaped ==
  ASSUME iExplain \in BesideExplanations, NEW a, NEW s
  PROVE  /\ Beside!ExplainAt(a, s) \in BesideExplanations
         /\ Beside!ExplainAt(a, s).status = "loading" => iExplain.status = "loading"
<1>1. Beside!NoExplanation \in BesideExplanations /\ Beside!NoExplanation.status = "idle"
  BY DEF Beside!NoExplanation, BesideExplanations, BesideTexts, BesideStatuses
<1>2. PICK t \in BesideTexts : t = iExplain.question
  BY DEF BesideExplanations
<1>3. PICK e : e = [Beside!NoExplanation EXCEPT !.question = t]
  OBVIOUS
<1>4. e \in BesideExplanations /\ e.status = "idle"
  BY <1>1, <1>3 DEF BesideExplanations
<1>5. Beside!ExplainAt(a, s) \in {Beside!NoExplanation, iExplain, e}
  BY <1>2, <1>3 DEF Beside!ExplainAt
<1> QED BY <1>1, <1>4, <1>5

\* Other properties of the inspector: the assistant stays at its scope, or goes with all it had.
LEMMA BesideShowKeeps ==
  ASSUME BesideSuitable, BesideInv, NEW a \in BesidePlaces, NEW s \in Beside!Segment, NEW unpick \in BOOLEAN,
         Beside!Show(a, s, unpick), iColumn' \in BOOLEAN, UNCHANGED iPrepared
  PROVE  BesideInv' /\ (iExplain'.status = "loading" => iExplain.status = "loading")
<1>1. iAt' = a /\ iSegment' = s /\ iExplain' = Beside!ExplainAt(a, s)
  BY DEF Beside!Show
<1>2. iExplain' \in BesideExplanations /\ (iExplain'.status = "loading" => iExplain.status = "loading")
  BY <1>1, BesideExplainShaped DEF BesideInv, BesideShapes
<1>3. PICK gone \in BOOLEAN : gone = (Beside!Mounted(iAt) /\ (~Beside!Mounted(a) \/ Beside!Scope(a) # Beside!Scope(iAt)))
  BY Zenon
<1>4. /\ iPanel' = IF gone THEN Beside!NoPanel ELSE iPanel
      /\ iRequest' = IF gone THEN Nothing ELSE iRequest
      /\ iPicked' = IF gone \/ unpick THEN Nothing ELSE iPicked
  BY <1>3 DEF Beside!Show
<1>5. CASE gone
  <2>1. iPanel' = Beside!NoPanel /\ iRequest' = Nothing /\ iPicked' = Nothing
    BY <1>4, <1>5
  <2>2. iPanel' \in BesidePanels /\ BesideStepwise(iPanel', iPrepared')
    BY <2>1, BesideNothingShown
  <2>3. BesideCurrent(a, iPanel', iRequest')
    BY <2>1 DEF BesideCurrent, Beside!NoPanel
  <2>4. BesideShapes'
    BY <1>1, <1>2, <2>1, <2>2 DEF BesideInv, BesideShapes, BesideKnown
  <2>5. BesideCurrent(iAt', iPanel', iRequest') /\ BesideLooked(iAt', iPicked', iRequest')
    BY <1>1, <2>1, <2>3 DEF BesideLooked
  <2> QED BY <1>2, <2>2, <2>4, <2>5 DEF BesideInv, BesideCurrent, BesideLooked, Beside!Mounted, Beside!Scope, BesideStepwise
<1>6. CASE ~gone
  <2>1. iPanel' = iPanel /\ iRequest' = iRequest /\ iPicked' \in {iPicked, Nothing}
    BY <1>4, <1>6
  <2>2. BesideShapes'
    BY <1>1, <1>2, <2>1 DEF BesideInv, BesideShapes
  <2>3. CASE Beside!Mounted(iAt)
    <3>1. Beside!Mounted(a) /\ Beside!Scope(a) = Beside!Scope(iAt)
      BY <1>3, <1>6, <2>3
    <3>2. a.snap = iAt.snap
      BY <3>1 DEF Beside!Scope
    <3>3. BesideCurrent(iAt', iPanel', iRequest') /\ BesideLooked(iAt', iPicked', iRequest')
      BY <1>1, <2>1, <2>3, <3>1, <3>2 DEF BesideInv, BesideCurrent, BesideLooked
    <3> QED BY <1>2, <2>1, <2>2, <3>3 DEF BesideInv, BesideCurrent, BesideLooked, Beside!Mounted, Beside!Scope, BesideStepwise
  <2>4. CASE ~Beside!Mounted(iAt)
    <3>1. iPanel = Beside!NoPanel /\ iRequest = Nothing /\ iPicked = Nothing
      BY <2>4 DEF BesideInv, BesideCurrent, BesideLooked
    <3>2. BesideCurrent(iAt', iPanel', iRequest') /\ BesideLooked(iAt', iPicked', iRequest')
      BY <1>1, <2>1, <3>1 DEF BesideCurrent, BesideLooked, Beside!NoPanel
    <3> QED BY <1>2, <2>1, <2>2, <3>2 DEF BesideInv, BesideCurrent, BesideLooked, Beside!Mounted, Beside!Scope, BesideStepwise
  <2> QED BY <2>3, <2>4
<1> QED BY <1>5, <1>6

LEMMA BesidePagesKeep ==
  ASSUME BesideSuitable, BesideInv, Beside!Pages
  PROVE  BesideInv' /\ (iExplain'.status = "loading" => iExplain.status = "loading")
<1>1. iAt \in BesidePlaces /\ iSegment \in Beside!Segment /\ iColumn \in BOOLEAN
  BY DEF BesideInv, BesideShapes
<1>2. ASSUME NEW n \in BesideSnapshot \cup {Nothing}, NEW c \in BOOLEAN, Beside!NewSnapshot(n, c)
      PROVE  BesideInv' /\ (iExplain'.status = "loading" => iExplain.status = "loading")
  <2>1. PICK a : a = [iAt EXCEPT !.snap = n, !.table = Nothing, !.changes = c]
    OBVIOUS
  <2>2. PICK u \in BOOLEAN : u = FALSE
    OBVIOUS
  <2>3. a \in BesidePlaces
    BY <1>1, <2>1 DEF BesidePlaces
  <2>4. Beside!Show(a, iSegment, u) /\ iColumn' \in BOOLEAN /\ UNCHANGED iPrepared
    BY <1>2, <2>1, <2>2 DEF Beside!NewSnapshot
  <2> QED BY <1>1, <2>2, <2>3, <2>4, BesideShowKeeps
<1>3. ASSUME NEW t \in BesideTable \cup {Nothing}, NEW f \in BOOLEAN, Beside!Select(t, f)
      PROVE  BesideInv' /\ (iExplain'.status = "loading" => iExplain.status = "loading")
  <2>1. PICK a : a = [iAt EXCEPT !.table = t]
    OBVIOUS
  <2>2. PICK s \in Beside!Segment : s = IF f THEN "structure" ELSE iSegment
    BY <1>1 DEF Beside!Segment
  <2>3. a \in BesidePlaces
    BY <1>1, <2>1 DEF BesidePlaces
  <2>4. Beside!Show(a, s, f) /\ iColumn' \in BOOLEAN /\ UNCHANGED iPrepared
    BY <1>3, <2>1, <2>2 DEF Beside!Select
  <2> QED BY <2>2, <2>3, <2>4, BesideShowKeeps
<1>4. ASSUME NEW t \in BesideTable, Beside!Explain(t)
      PROVE  BesideInv' /\ (iExplain'.status = "loading" => iExplain.status = "loading")
  <2>1. PICK a : a = [iAt EXCEPT !.table = t]
    OBVIOUS
  <2>2. PICK s \in Beside!Segment, u \in BOOLEAN : s = "ai" /\ u = FALSE
    BY DEF Beside!Segment
  <2>3. a \in BesidePlaces
    BY <1>1, <2>1 DEF BesidePlaces
  <2>4. Beside!Show(a, s, u) /\ iColumn' \in BOOLEAN /\ UNCHANGED iPrepared
    BY <1>4, <2>1, <2>2 DEF Beside!Explain
  <2> QED BY <2>2, <2>3, <2>4, BesideShowKeeps
<1>5. ASSUME NEW p \in BesidePolicy, Beside!NewPolicy(p)
      PROVE  BesideInv' /\ (iExplain'.status = "loading" => iExplain.status = "loading")
  <2>1. PICK a : a = [iAt EXCEPT !.policy = p]
    OBVIOUS
  <2>2. PICK u \in BOOLEAN : u = FALSE
    OBVIOUS
  <2>3. a \in BesidePlaces
    BY <1>1, <2>1 DEF BesidePlaces
  <2>4. Beside!Show(a, iSegment, u) /\ iColumn' \in BOOLEAN /\ UNCHANGED iPrepared
    BY <1>1, <1>5, <2>1, <2>2 DEF Beside!NewPolicy
  <2> QED BY <1>1, <2>2, <2>3, <2>4, BesideShowKeeps
<1>6. ASSUME NEW s \in Beside!Segment, Beside!Choose(s)
      PROVE  BesideInv' /\ (iExplain'.status = "loading" => iExplain.status = "loading")
  <2>1. PICK u \in BOOLEAN : u = FALSE
    OBVIOUS
  <2>2. Beside!Show(iAt, s, u) /\ iColumn' \in BOOLEAN /\ UNCHANGED iPrepared
    BY <1>1, <1>6, <2>1 DEF Beside!Choose
  <2> QED BY <1>1, <2>2, BesideShowKeeps
<1> QED BY <1>2, <1>3, <1>4, <1>5, <1>6 DEF Beside!Pages

\* A step of the panel at the same place: the request in force is that of the panel it leads to.
LEMMA BesidePanelKeeps ==
  ASSUME BesideSuitable, BesideInv, NEW p, p \in BesidePanels, Beside!InPanel(p), BesideStepwise(p, iPrepared'), iPrepared' \in 0..BesideMaxRequests,
         iRequest' = IF p.completed # Nothing THEN p.completed ELSE p.preview,
         iPicked' = Nothing \/ (iPicked' = iPicked /\ iRequest' = iRequest)
  PROVE  BesideInv' /\ iExplain' = iExplain
<1>1. iAt' = iAt /\ iSegment' = iSegment /\ iColumn' = iColumn /\ iExplain' = iExplain /\ iPanel' = p /\ Beside!Mounted(iAt)
  BY DEF Beside!InPanel
<1>2. iRequest' \in BesideKnown
  BY DEF BesidePanels
<1>3. BesideShapes'
  BY <1>1, <1>2 DEF BesideInv, BesideShapes
<1>4. BesideCurrent(iAt', iPanel', iRequest') /\ BesideLooked(iAt', iPicked', iRequest') /\ BesideStepwise(iPanel', iPrepared')
  BY <1>1 DEF BesideInv, BesideCurrent, BesideLooked
<1> QED BY <1>1, <1>3, <1>4 DEF BesideInv, BesideCurrent, BesideLooked, Beside!Mounted, Beside!Scope, BesideStepwise

LEMMA BesideAssistsKeep ==
  ASSUME BesideSuitable, BesideInv, Beside!Assists
  PROVE  BesideInv' /\ iExplain' = iExplain
<1>1. iPanel \in BesidePanels /\ BesideStepwise(iPanel, iPrepared) /\ iPrepared \in 0..BesideMaxRequests /\ BesideMaxRequests \in Nat
  BY DEF BesideInv, BesideShapes, BesideSuitable
<1>2. Beside!Mounted(iAt) => iRequest = IF iPanel.completed # Nothing THEN iPanel.completed ELSE iPanel.preview
  BY DEF BesideInv, BesideCurrent
<1>3. CASE Beside!Prepare
  <2>1. PICK p : p = [iPanel EXCEPT !.asked = TRUE]
    OBVIOUS
  <2>2. p \in BesidePanels /\ p.asked = TRUE /\ p.preview = iPanel.preview /\ p.phase = iPanel.phase /\ p.completed = iPanel.completed
    BY <1>1, <2>1 DEF BesidePanels
  <2>3. Beside!InPanel(p) /\ Beside!Mounted(iAt) /\ UNCHANGED <<iRequest, iPicked, iPrepared>> /\ iPanel.preview = Nothing
    BY <1>3, <2>1 DEF Beside!Prepare, Beside!InPanel
  <2>4. BesideStepwise(p, iPrepared')
    BY <1>1, <2>2, <2>3 DEF BesideStepwise
  <2> QED BY <1>1, <1>2, <2>2, <2>3, <2>4, BesidePanelKeeps
<1>4. CASE Beside!Prepared
  <2>1. PICK n \in BesideRequests : n = iPrepared + 1 /\ n <= BesideMaxRequests
    BY <1>1, <1>4 DEF Beside!Prepared, BesideRequests
  <2>2. PICK p : p = [iPanel EXCEPT !.asked = FALSE, !.preview = n, !.phase = "ready"]
    OBVIOUS
  <2>3. /\ p \in BesidePanels /\ p.asked = FALSE /\ p.preview = n /\ p.phase = "ready" /\ p.completed = iPanel.completed
    BY <1>1, <2>1, <2>2 DEF BesidePanels, BesideKnown, BesidePhases
  <2>4. Beside!InPanel(p) /\ Beside!Mounted(iAt) /\ iPrepared' = n /\ Beside!Unless(iPanel.completed, n)
    BY <1>4, <2>1, <2>2 DEF Beside!Prepared, Beside!InPanel
  <2>5. n # Nothing /\ n \in 0..BesideMaxRequests
    BY <1>1, <2>1 DEF BesideRequests, BesideSuitable
  <2>6. iPanel.completed # Nothing => iPanel.completed \in Nat /\ iPanel.completed <= n
    BY <1>1, <2>1 DEF BesideStepwise, BesidePanels, BesideKnown, BesideRequests
  <2>7. BesideStepwise(p, iPrepared')
    BY <2>1, <2>3, <2>4, <2>5, <2>6 DEF BesideStepwise, BesideRequests
  <2>8. /\ iRequest' = IF p.completed # Nothing THEN p.completed ELSE p.preview
        /\ iPicked' = Nothing \/ (iPicked' = iPicked /\ iRequest' = iRequest)
    BY <1>2, <2>3, <2>4 DEF Beside!Unless, Beside!TaskChange
  <2> QED BY <2>3, <2>4, <2>5, <2>7, <2>8, BesidePanelKeeps
<1>5. CASE Beside!NotPrepared
  <2>1. PICK p : p = [iPanel EXCEPT !.asked = FALSE, !.phase = "error"]
    OBVIOUS
  <2>2. p \in BesidePanels /\ p.asked = FALSE /\ p.preview = iPanel.preview /\ p.phase = "error" /\ p.completed = iPanel.completed
    BY <1>1, <2>1 DEF BesidePanels, BesidePhases
  <2>3. Beside!InPanel(p) /\ Beside!Mounted(iAt) /\ UNCHANGED <<iRequest, iPicked, iPrepared>>
    BY <1>5, <2>1 DEF Beside!NotPrepared, Beside!InPanel
  <2>4. BesideStepwise(p, iPrepared')
    BY <1>1, <2>2, <2>3 DEF BesideStepwise
  <2> QED BY <1>1, <1>2, <2>2, <2>3, <2>4, BesidePanelKeeps
<1>6. CASE Beside!Run
  <2>1. PICK p : p = [iPanel EXCEPT !.phase = "running", !.completed = Nothing]
    OBVIOUS
  <2>2. p \in BesidePanels /\ p.asked = iPanel.asked /\ p.preview = iPanel.preview /\ p.phase = "running" /\ p.completed = Nothing
    BY <1>1, <2>1 DEF BesidePanels, BesidePhases, BesideKnown
  <2>3. /\ Beside!InPanel(p) /\ iPrepared' = iPrepared /\ iRequest' = iPanel.preview /\ iPicked' = Nothing
        /\ iPanel.phase = "ready"
    BY <1>6, <2>1 DEF Beside!Run, Beside!TaskChange
  <2>4. BesideStepwise(p, iPrepared')
    BY <1>1, <2>2, <2>3 DEF BesideStepwise
  <2> QED BY <1>1, <2>2, <2>3, <2>4, BesidePanelKeeps
<1>7. CASE Beside!Answered
  <2>1. PICK p : p = [iPanel EXCEPT !.phase = "idle", !.preview = Nothing, !.completed = iPanel.preview]
    OBVIOUS
  <2>2. p \in BesidePanels /\ p.asked = iPanel.asked /\ p.preview = Nothing /\ p.phase = "idle" /\ p.completed = iPanel.preview
    BY <1>1, <2>1 DEF BesidePanels, BesidePhases, BesideKnown
  <2>3. Beside!InPanel(p) /\ Beside!Mounted(iAt) /\ UNCHANGED <<iRequest, iPicked, iPrepared>> /\ iPanel.phase = "running"
    BY <1>7, <2>1 DEF Beside!Answered, Beside!InPanel
  <2>4. BesideStepwise(p, iPrepared')
    BY <1>1, <2>2, <2>3 DEF BesideStepwise
  <2>5. iRequest' = iPanel.preview /\ iPanel.preview # Nothing
    BY <1>1, <1>2, <2>3 DEF BesideStepwise
  <2> QED BY <1>1, <2>2, <2>3, <2>4, <2>5, BesidePanelKeeps
<1>8. CASE Beside!Fails
  <2>1. PICK p : p = [iPanel EXCEPT !.phase = "error"]
    OBVIOUS
  <2>2. p \in BesidePanels /\ p.asked = iPanel.asked /\ p.preview = iPanel.preview /\ p.phase = "error" /\ p.completed = iPanel.completed
    BY <1>1, <2>1 DEF BesidePanels, BesidePhases
  <2>3. Beside!InPanel(p) /\ Beside!Mounted(iAt) /\ UNCHANGED <<iRequest, iPicked, iPrepared>>
    BY <1>8, <2>1 DEF Beside!Fails, Beside!InPanel
  <2>4. BesideStepwise(p, iPrepared')
    BY <1>1, <2>2, <2>3 DEF BesideStepwise
  <2> QED BY <1>1, <1>2, <2>2, <2>3, <2>4, BesidePanelKeeps
<1>9. CASE Beside!Invalidate
  <2>1. PICK p : p = [iPanel EXCEPT !.asked = FALSE, !.preview = Nothing, !.phase = "idle"]
    OBVIOUS
  <2>2. p \in BesidePanels /\ p.asked = FALSE /\ p.preview = Nothing /\ p.phase = "idle" /\ p.completed = iPanel.completed
    BY <1>1, <2>1 DEF BesidePanels, BesidePhases, BesideKnown
  <2>3. Beside!InPanel(p) /\ Beside!Mounted(iAt) /\ iPrepared' = iPrepared /\ Beside!Unless(iPanel.completed, Nothing)
    BY <1>9, <2>1 DEF Beside!Invalidate, Beside!InPanel
  <2>4. BesideStepwise(p, iPrepared')
    BY <1>1, <2>2, <2>3 DEF BesideStepwise
  <2>5. /\ iRequest' = IF p.completed # Nothing THEN p.completed ELSE p.preview
        /\ iPicked' = Nothing \/ (iPicked' = iPicked /\ iRequest' = iRequest)
    BY <1>2, <2>2, <2>3 DEF Beside!Unless, Beside!TaskChange
  <2> QED BY <1>1, <2>2, <2>3, <2>4, <2>5, BesidePanelKeeps
<1>10. ASSUME NEW r \in 1..BesideMaxRequests, NEW t \in BesideTable, Beside!Locate(r, t)
       PROVE  BesideInv' /\ iExplain' = iExplain
  <2>1. /\ iAt' = iAt /\ iColumn' = iColumn /\ iRequest' = iRequest /\ iPanel' = iPanel /\ iExplain' = iExplain
        /\ iPrepared' = iPrepared /\ Beside!Mounted(iAt) /\ t \in BesideTables[iAt.snap]
    BY <1>10 DEF Beside!Locate
  <2>2. CASE r = iRequest
    <3>1. iSegment' = "structure" /\ iPicked' = [scope |-> Beside!Scope(iAt), request |-> r, table |-> t]
      BY <1>10, <2>2 DEF Beside!Locate
    <3>2. PICK sc \in BesideScopes : sc = Beside!Scope(iAt)
      BY DEF Beside!Scope, BesideScopes, BesideInv, BesideShapes, BesidePlaces
    <3>3. r \in BesideKnown /\ r # Nothing
      BY DEF BesideKnown, BesideRequests, BesideSuitable
    <3>4. iPicked' \in BesidePicks /\ iPicked'.scope = Beside!Scope(iAt) /\ iPicked'.request = r /\ iPicked'.table = t
      BY <3>1, <3>2, <3>3 DEF BesidePicks
    <3>5. BesideLooked(iAt', iPicked', iRequest')
      BY <2>1, <2>2, <3>3, <3>4 DEF BesideLooked
    <3>6. BesideShapes'
      BY <2>1, <3>1, <3>4 DEF BesideInv, BesideShapes, Beside!Segment
    <3> QED BY <2>1, <3>5, <3>6 DEF BesideInv, BesideCurrent, BesideLooked, Beside!Mounted, Beside!Scope, BesideStepwise
  <2>3. CASE r # iRequest
    <3>1. iSegment' = iSegment /\ iPicked' = iPicked
      BY <1>10, <2>3 DEF Beside!Locate
    <3> QED BY <2>1, <3>1 DEF BesideInv, BesideShapes, BesideCurrent, BesideLooked, Beside!Mounted, Beside!Scope, BesideStepwise
  <2> QED BY <2>1, <2>2, <2>3
<1> QED BY <1>3, <1>4, <1>5, <1>6, <1>7, <1>8, <1>9, <1>10 DEF Beside!Assists

\* What is sent, of what a preview has just shown if it goes elsewhere.
BesidePreviewed == iExplain'.status = "loading" /\ iExplain.status # "loading" /\ iAt.policy \in BesideRemote
               => iExplain.preview = iExplain'.asked

LEMMA BesideExplainsKeep ==
  ASSUME BesideSuitable, BesideInv, Beside!Explains
  PROVE  BesideInv' /\ BesidePreviewed
<1>1. iExplain \in BesideExplanations
  BY DEF BesideInv, BesideShapes
<1>2. ASSUME NEW e \in BesideExplanations, Beside!InExplanation(e)
      PROVE  BesideInv' /\ iExplain' = e
  BY <1>2 DEF Beside!InExplanation, BesideInv, BesideShapes, BesideCurrent, BesideLooked, Beside!Mounted, Beside!Scope, BesideStepwise
<1>3. ASSUME NEW q \in BesideQuestion, Beside!Ask(q) PROVE BesideInv' /\ BesidePreviewed
  <2>1. PICK e : e = [iExplain EXCEPT !.question = q]
    OBVIOUS
  <2>2. e \in BesideExplanations /\ e.status = iExplain.status
    BY <1>1, <2>1 DEF BesideExplanations, BesideTexts
  <2> QED BY <1>2, <1>3, <2>1, <2>2 DEF Beside!Ask, BesidePreviewed
<1>4. CASE Beside!Preview
  <2>1. PICK e : e = [iExplain EXCEPT !.preview = iExplain.question]
    OBVIOUS
  <2>2. e \in BesideExplanations /\ e.status = iExplain.status
    BY <1>1, <2>1 DEF BesideExplanations, BesideTexts
  <2> QED BY <1>2, <1>4, <2>1, <2>2 DEF Beside!Preview, BesidePreviewed
<1>5. CASE Beside!Send
  <2>1. PICK e : e = [iExplain EXCEPT !.preview = Nothing, !.status = "loading", !.asked = iExplain.question]
    OBVIOUS
  <2>2. e \in BesideExplanations /\ e.asked = iExplain.question
    BY <1>1, <2>1 DEF BesideExplanations, BesideStatuses
  <2>3. BesideInv' /\ iExplain' = e
    BY <1>2, <1>5, <2>1, <2>2 DEF Beside!Send
  <2> QED BY <1>5, <2>2, <2>3 DEF Beside!Send, Beside!PreviewVisible, BesidePreviewed
<1>6. CASE Beside!Dismiss
  <2>1. PICK e : e = [iExplain EXCEPT !.preview = Nothing]
    OBVIOUS
  <2>2. e \in BesideExplanations /\ e.status = iExplain.status
    BY <1>1, <2>1 DEF BesideExplanations
  <2> QED BY <1>2, <1>6, <2>1, <2>2 DEF Beside!Dismiss, BesidePreviewed
<1>7. CASE Beside!Explained
  <2>1. PICK e : Beside!InExplanation(e) /\ e \in {[iExplain EXCEPT !.status = "idle", !.result = iExplain.asked], [iExplain EXCEPT !.status = "error"]}
    BY <1>7 DEF Beside!Explained
  <2>2. e \in BesideExplanations /\ e.status # "loading"
    BY <1>1, <2>1 DEF BesideExplanations, BesideStatuses
  <2> QED BY <1>2, <2>1, <2>2 DEF BesidePreviewed
<1> QED BY <1>3, <1>4, <1>5, <1>6, <1>7 DEF Beside!Explains

LEMMA BesideStepKeeps == ASSUME BesideSuitable, BesideInv, [Beside!Next]_Beside!vars PROVE BesideInv' /\ [BesidePreviewed]_Beside!vars
<1>1. CASE Beside!Pages
  BY <1>1, BesidePagesKeep DEF BesidePreviewed
<1>2. CASE Beside!Assists
  BY <1>2, BesideAssistsKeep DEF BesidePreviewed
<1>3. CASE Beside!Explains
  BY <1>3, BesideExplainsKeep
<1>4. CASE UNCHANGED Beside!vars
  BY <1>4 DEF Beside!vars, BesideInv, BesideShapes, BesideCurrent, BesideLooked, Beside!Mounted, Beside!Scope, BesideStepwise
<1> QED BY <1>1, <1>2, <1>3, <1>4 DEF Beside!Next

\* The ids TLC counts, of the requests the desktop has prepared.
LEMMA BesideInvGives == ASSUME BesideSuitable, BesideInv PROVE Beside!TypeOK /\ Beside!EvidenceIsAnswered
<1>1. /\ iPanel.preview \in Beside!Ids /\ iPanel.completed \in Beside!Ids /\ iRequest \in Beside!Ids
      /\ iPanel.phase \in BesidePhases
  <2>1. iPanel.preview \in BesideKnown /\ iPanel.completed \in BesideKnown /\ iPanel.phase \in BesidePhases
    BY DEF BesideInv, BesideShapes, BesidePanels
  <2>2. iPanel.preview \in Beside!Ids /\ iPanel.completed \in Beside!Ids
    BY <2>1 DEF BesideInv, BesideShapes, BesideStepwise, BesideKnown, BesideRequests, Beside!Ids, BesideSuitable
  <2>3. iRequest \in Beside!Ids
    BY <2>2 DEF BesideInv, BesideCurrent, Beside!Ids
  <2> QED BY <2>1, <2>2, <2>3
<1>2. iPicked # Nothing => iPicked.table \in BesideTable /\ iPicked.request \in Beside!Ids
  BY <1>1 DEF BesideInv, BesideShapes, BesideLooked, BesidePicks
<1>3. iExplain.question \in BesideTexts /\ iExplain.status \in BesideStatuses
  BY DEF BesideInv, BesideShapes, BesideExplanations
<1>4. Beside!TypeOK
  BY <1>1, <1>2, <1>3 DEF BesideInv, BesideShapes, Beside!TypeOK, BesidePhases, BesideTexts, BesideStatuses, BesidePlaces
<1>5. Beside!Mounted(iAt) => Beside!Listed \subseteq {iRequest}
  BY DEF BesideInv, BesideCurrent, Beside!Listed
<1>6. Beside!Focused # Nothing => Beside!Mounted(iAt) /\ Beside!Focused.request \in Beside!Listed /\ Beside!Focused.table \in BesideTables[iAt.snap]
  BY DEF BesideInv, BesideLooked, Beside!Focused, BesideCurrent, Beside!Listed
<1>7. ~Beside!Mounted(iAt) => iRequest = Nothing
  BY DEF BesideInv, BesideCurrent
<1> QED BY <1>4, <1>5, <1>6, <1>7 DEF Beside!EvidenceIsAnswered

\* Evidence is looked up for the request in force, and only what was previewed is sent
\* (InspectorPanel.tsx, the request a late answer is compared with).
THEOREM BesideCorrect ==
  Beside!Spec => []Beside!TypeOK /\ []Beside!EvidenceIsAnswered /\ Beside!SentAsPreviewed
<1> BesideSuitable
  BY PartsAreSuited
<1>1. Beside!Init => BesideInv
  BY BesideInitHolds
<1>2. BesideInv /\ [Beside!Next]_Beside!vars => BesideInv' /\ [BesidePreviewed]_Beside!vars
  BY BesideStepKeeps
<1>3. BesideInv => Beside!TypeOK /\ Beside!EvidenceIsAnswered
  BY BesideInvGives
<1> QED BY <1>1, <1>2, <1>3, PTL DEF Beside!Spec, Beside!SentAsPreviewed, BesidePreviewed

-----------------------------------------------------------------------------
(* The tree of the snapshot                                                *)

TreeFolds == [TreeBranch -> BOOLEAN]
TreeTrees ==
  [snap : TreeSnapshot, open : TreeFolds, search : TreeFilter \cup {Nothing}, unfolded : TreeFolds,
   menu : TreeMenus \cup {Nothing}, preview : TreeObject \cup {Nothing}]
TreePlaces == [table : TreeObject \cup {Nothing}, document : TreeObject \cup {Nothing}, of : TreeSnapshot \cup {Nothing}]

\* Every snapshot has objects of one of the kinds, and "nothing" is no object, filter or menu.

\* A tree and a page are whole: a menu is of an object listed when it was opened, the details below
\* the tree are those of an enum, a document is not of a table, and the table is in the snapshot.
TreeWhole(t, p) ==
  /\ t \in TreeTrees /\ p \in TreePlaces
  /\ t.menu # Nothing => t.menu.object \in TreeObjects[t.menu.scope[2]] \cap TreeHits[t.menu.scope[3]]
  /\ t.preview # Nothing => TreeKind[t.preview] = "enum"
  /\ p.document # Nothing => TreeKind[p.document] # "table"
  /\ p.table # Nothing => p.table \in TreeObjects[t.snap]

LEMMA TreeFoldsOf == /\ \A S : [b \in TreeBranch |-> b \in S] \in TreeFolds
                 /\ [b \in TreeBranch |-> TRUE] \in TreeFolds
<1>1. ASSUME NEW S PROVE [b \in TreeBranch |-> b \in S] \in TreeFolds
  BY SMT DEF TreeFolds
<1>2. [b \in TreeBranch |-> TRUE] \in TreeFolds
  BY Zenon DEF TreeFolds
<1> QED BY <1>1, <1>2

LEMMA TreeMenuMayClose ==
  ASSUME NEW t, NEW p, TreeWhole(t, p), NEW u, u = [t EXCEPT !.menu = Nothing]
  PROVE  TreeWhole(u, p) /\ u.open = t.open /\ u.search = t.search /\ u.snap = t.snap /\ u.unfolded = t.unfolded
BY DEF TreeWhole, TreeTrees

LEMMA TreePreviewMayClose ==
  ASSUME NEW t, NEW p, TreeWhole(t, p), NEW u, u = [t EXCEPT !.preview = Nothing]
  PROVE  TreeWhole(u, p) /\ u.open = t.open /\ u.search = t.search /\ u.snap = t.snap /\ u.menu = t.menu
BY DEF TreeWhole, TreeTrees

LEMMA TreeRenderKeeps ==
  ASSUME NEW t, NEW p, TreeWhole(t, p), TreeOf!Render(t, p)
  PROVE  TreeWhole(tTree, tPage)' /\ tTree'.open = t.open /\ tTree'.snap = t.snap
<1>1. CASE TreeOf!Preview(t, p) = Nothing
  <2>1. tTree' = [t EXCEPT !.preview = Nothing] /\ tPage' = p
    BY <1>1 DEF TreeOf!Render
  <2>2. TreeWhole(tTree', tPage') /\ tTree'.open = t.open /\ tTree'.snap = t.snap
    BY <2>1, TreePreviewMayClose
  <2> QED BY <2>2 DEF TreeWhole
<1>2. CASE TreeOf!Preview(t, p) # Nothing
  BY <1>2 DEF TreeOf!Render, TreeWhole
<1> QED BY <1>1, <1>2

LEMMA TreePressedWhole ==
  ASSUME TreeWhole(tTree, tPage)
  PROVE  /\ TreeWhole(TreeOf!Pressed, tPage) /\ TreeOf!Pressed.open = tTree.open /\ TreeOf!Pressed.search = tTree.search
         /\ TreeOf!Pressed.snap = tTree.snap
<1>1. CASE TreeOf!Menu(tTree) # Nothing
  <2>1. TreeOf!Pressed = [tTree EXCEPT !.menu = Nothing]
    BY <1>1 DEF TreeOf!Pressed
  <2> QED BY <2>1, TreeMenuMayClose
<1>2. CASE TreeOf!Menu(tTree) = Nothing
  BY <1>2 DEF TreeOf!Pressed
<1> QED BY <1>1, <1>2

LEMMA TreeMenuIsListed ==
  ASSUME TreeSuitable, TreeWhole(tTree, tPage), TreeOf!Menu(tTree) # Nothing
  PROVE  TreeOf!Menu(tTree) \in TreeOf!Visible(tTree) /\ TreeOf!Menu(tTree) \in TreeObject
<1>1. /\ tTree.menu # Nothing /\ tTree.menu.scope = <<TreeHome[tTree.snap], tTree.snap, tTree.search>>
      /\ TreeOf!Menu(tTree) = tTree.menu.object
  BY DEF TreeOf!Menu
<1>2. tTree.menu.scope[2] = tTree.snap /\ tTree.menu.scope[3] = tTree.search
  BY <1>1
<1> QED BY <1>1, <1>2 DEF TreeWhole, TreeOf!Visible, TreeTrees, TreeMenus

LEMMA TreeChosenKeeps ==
  ASSUME TreeSuitable, NEW t, TreeWhole(t, tPage), NEW o \in TreeObject, o \in TreeObjects[t.snap], TreeOf!Chosen(t, o)
  PROVE  TreeWhole(tTree, tPage)' /\ tTree'.open = t.open /\ tTree'.snap = t.snap
<1>1. CASE TreeKind[o] = "table"
  <2>1. PICK u, p : u = [t EXCEPT !.preview = Nothing] /\ p = [tPage EXCEPT !.table = o, !.document = Nothing]
    OBVIOUS
  <2>2. TreeWhole(u, p) /\ u.open = t.open /\ u.snap = t.snap
    BY <2>1 DEF TreeWhole, TreeTrees, TreePlaces
  <2>3. TreeOf!Render(u, p)
    BY <1>1, <2>1 DEF TreeOf!Chosen
  <2> QED BY <2>2, <2>3, TreeRenderKeeps
<1>2. CASE TreeKind[o] = "enum"
  <2>1. PICK u, p : u = [t EXCEPT !.preview = o] /\ p = [tPage EXCEPT !.document = Nothing]
    OBVIOUS
  <2>2. TreeWhole(u, p) /\ u.open = t.open /\ u.snap = t.snap
    BY <1>2, <2>1 DEF TreeWhole, TreeTrees, TreePlaces
  <2>3. TreeOf!Render(u, p)
    BY <1>2, <2>1 DEF TreeOf!Chosen
  <2> QED BY <2>2, <2>3, TreeRenderKeeps
<1>3. CASE TreeKind[o] \notin {"table", "enum"}
  <2>1. PICK u, p : u = [t EXCEPT !.preview = Nothing] /\ p = [tPage EXCEPT !.document = o, !.of = t.snap]
    OBVIOUS
  <2>2. TreeWhole(u, p) /\ u.open = t.open /\ u.snap = t.snap
    BY <1>3, <2>1 DEF TreeWhole, TreeTrees, TreePlaces
  <2>3. TreeOf!Render(u, p)
    BY <1>3, <2>1 DEF TreeOf!Chosen
  <2> QED BY <2>2, <2>3, TreeRenderKeeps
<1> QED BY <1>1, <1>2, <1>3

\* While a filter is set, nothing but another source changes what is unfolded.
TreeKept == tTree.search # Nothing /\ TreeHome[tTree'.snap] = TreeHome[tTree.snap] => tTree'.open = tTree.open

LEMMA TreeReplaceKeeps ==
  ASSUME TreeSuitable, TreeWhole(tTree, tPage), NEW n \in TreeSnapshot, NEW pressed \in BOOLEAN, TreeOf!Replace(n, pressed)
  PROVE  TreeWhole(tTree, tPage)' /\ TreeKept
<1>1. PICK s : s = IF pressed THEN TreeOf!Pressed ELSE tTree
  OBVIOUS
<1>2. TreeWhole(s, tPage) /\ s.open = tTree.open /\ s.snap = tTree.snap
  BY <1>1, TreePressedWhole
<1>3. PICK p : p = [tPage EXCEPT !.table = Nothing]
  OBVIOUS
<1>4. PICK t : t = [s EXCEPT !.snap = n]
  OBVIOUS
<1>5. /\ TreeWhole(t, p) /\ t.open = tTree.open /\ t.snap = n
  BY <1>2, <1>3, <1>4 DEF TreeWhole, TreeTrees, TreePlaces
<1>6. CASE TreeHome[n] = TreeHome[tTree.snap]
  <2>1. TreeOf!Render(t, p)
    BY <1>6, <1>1, <1>3, <1>4 DEF TreeOf!Replace
  <2> QED BY <2>1, <1>5, TreeRenderKeeps DEF TreeKept
<1>7. CASE TreeHome[n] # TreeHome[tTree.snap]
  <2>1. PICK open, unfolded : open = [b \in TreeBranch |-> b \in TreeDefaults[n]] /\ unfolded = [b \in TreeBranch |-> TRUE]
    OBVIOUS
  <2>2. open \in TreeFolds /\ unfolded \in TreeFolds
    BY <2>1, TreeFoldsOf, Zenon
  <2>3. PICK u : u = [t EXCEPT !.open = open, !.search = Nothing, !.unfolded = unfolded, !.menu = Nothing, !.preview = Nothing]
    OBVIOUS
  <2>4. TreeWhole(u, p) /\ u.snap = n
    BY <1>5, <2>2, <2>3 DEF TreeWhole, TreeTrees
  <2>5. TreeOf!Fresh.search = Nothing /\ TreeOf!Fresh.unfolded = unfolded /\ TreeOf!Fresh.menu = Nothing /\ TreeOf!Fresh.preview = Nothing
    BY <2>1 DEF TreeOf!Fresh
  <2>6. TreeOf!Render(u, p)
    BY <1>7, <1>1, <1>3, <1>4, <2>1, <2>3, <2>5 DEF TreeOf!Replace
  <2> QED BY <1>7, <2>4, <2>6, TreeRenderKeeps DEF TreeKept
<1> QED BY <1>6, <1>7

LEMMA TreeToggleKeeps ==
  ASSUME TreeSuitable, TreeWhole(tTree, tPage), NEW b \in TreeBranch, TreeOf!Toggle(b)
  PROVE  TreeWhole(tTree, tPage)' /\ TreeKept
<1>1. PICK s : s = TreeOf!Pressed
  OBVIOUS
<1>2. TreeWhole(s, tPage) /\ s.open = tTree.open /\ s.search = tTree.search /\ s.snap = tTree.snap
  BY <1>1, TreePressedWhole
<1>3. s \in TreeTrees /\ s.unfolded \in TreeFolds /\ s.open \in TreeFolds
  BY <1>2 DEF TreeWhole, TreeTrees
<1>4. CASE tTree.search # Nothing
  <2>1. PICK x : x = [s.unfolded EXCEPT ![b] = ~s.unfolded[b]]
    OBVIOUS
  <2>2. x \in TreeFolds
    BY <2>1, <1>3, Zenon DEF TreeFolds
  <2>3. PICK u : u = [s EXCEPT !.unfolded = x]
    OBVIOUS
  <2>4. TreeWhole(u, tPage) /\ u.open = tTree.open
    BY <1>2, <1>3, <2>2, <2>3 DEF TreeWhole, TreeTrees
  <2>5. TreeOf!Render(u, tPage)
    BY <1>4, <1>1, <2>1, <2>3 DEF TreeOf!Toggle
  <2> QED BY <2>4, <2>5, TreeRenderKeeps DEF TreeKept
<1>5. CASE tTree.search = Nothing
  <2>1. PICK x : x = [s.open EXCEPT ![b] = ~s.open[b]]
    OBVIOUS
  <2>2. x \in TreeFolds
    BY <2>1, <1>3, Zenon DEF TreeFolds
  <2>3. PICK u : u = [s EXCEPT !.open = x]
    OBVIOUS
  <2>4. TreeWhole(u, tPage)
    BY <1>2, <1>3, <2>2, <2>3 DEF TreeWhole, TreeTrees
  <2>5. TreeOf!Render(u, tPage)
    BY <1>5, <1>1, <2>1, <2>3 DEF TreeOf!Toggle
  <2> QED BY <1>5, <2>4, <2>5, TreeRenderKeeps DEF TreeKept
<1> QED BY <1>4, <1>5

LEMMA TreeSearchKeeps ==
  ASSUME TreeSuitable, TreeWhole(tTree, tPage), (\E f \in TreeFilter : TreeOf!Search(f)) \/ TreeOf!ClearSearch
  PROVE  TreeWhole(tTree, tPage)' /\ TreeKept
<1>1. PICK all : all = TreeOf!Fresh.unfolded
  OBVIOUS
<1>2. all \in TreeFolds
  BY <1>1, Zenon DEF TreeOf!Fresh, TreeFolds
<1>3. ASSUME NEW f \in TreeFilter, TreeOf!Search(f) PROVE TreeWhole(tTree, tPage)' /\ TreeKept
  <2>1. PICK t, u : t = [tTree EXCEPT !.search = f, !.unfolded = all] /\ u = [t EXCEPT !.menu = Nothing]
    OBVIOUS
  <2>2. TreeWhole(t, tPage) /\ t.open = tTree.open
    BY <1>2, <2>1 DEF TreeWhole, TreeTrees
  <2>4. TreeWhole(u, tPage) /\ u.open = tTree.open
    BY <2>1, <2>2, TreeMenuMayClose
  <2>3. TreeOf!Render(u, tPage)
    BY <1>1, <1>3, <2>1 DEF TreeOf!Search
  <2> QED BY <2>4, <2>3, TreeRenderKeeps DEF TreeKept
<1>4. ASSUME TreeOf!ClearSearch PROVE TreeWhole(tTree, tPage)' /\ TreeKept
  <2>1. PICK t \in {tTree, TreeOf!Pressed} : TreeOf!Render([t EXCEPT !.search = Nothing, !.unfolded = TreeOf!Fresh.unfolded], tPage)
    BY <1>4 DEF TreeOf!ClearSearch
  <2>2. TreeWhole(t, tPage) /\ t.open = tTree.open
    BY TreePressedWhole
  <2>3. PICK u : u = [t EXCEPT !.search = Nothing, !.unfolded = all]
    OBVIOUS
  <2>4. u \in TreeTrees
    BY <1>2, <2>2, <2>3 DEF TreeWhole, TreeTrees
  <2>5. TreeWhole(u, tPage) /\ u.open = tTree.open
    BY <1>2, <2>2, <2>3, <2>4 DEF TreeWhole, TreeTrees
  <2> QED BY <2>1, <2>3, <2>5, <1>1, TreeRenderKeeps DEF TreeKept
<1> QED BY <1>3, <1>4

LEMMA TreeMenuKeeps ==
  ASSUME TreeSuitable, TreeWhole(tTree, tPage),
         (\E o \in TreeObject : TreeOf!OpenMenu(o) \/ TreeOf!Choose(o)) \/ TreeOf!ChooseInMenu \/ TreeOf!CloseMenu \/ TreeOf!ClosePreview
  PROVE  TreeWhole(tTree, tPage)' /\ TreeKept
<1>1. ASSUME NEW o \in TreeObject, TreeOf!OpenMenu(o) PROVE TreeWhole(tTree, tPage)' /\ TreeKept
  <2>1. PICK m : m = [object |-> o, scope |-> <<TreeHome[tTree.snap], tTree.snap, tTree.search>>]
    OBVIOUS
  <2>2. tTree.snap \in TreeSnapshot /\ tTree.search \in TreeFilter \cup {Nothing}
    BY DEF TreeWhole, TreeTrees
  <2>3. m.scope \in TreeScopes /\ m.scope[2] = tTree.snap /\ m.scope[3] = tTree.search
    BY <2>1, <2>2 DEF TreeScopes
  <2>4. m \in TreeMenus /\ m.object = o
    BY <2>1, <2>3 DEF TreeMenus
  <2>5. PICK u : u = [tTree EXCEPT !.menu = m]
    OBVIOUS
  <2>6. o \in TreeObjects[tTree.snap] \cap TreeHits[tTree.search]
    BY <1>1 DEF TreeOf!OpenMenu, TreeOf!Visible
  <2>7. TreeWhole(u, tPage) /\ u.open = tTree.open
    BY <2>3, <2>4, <2>5, <2>6 DEF TreeWhole, TreeTrees
  <2>8. TreeOf!Render(u, tPage)
    BY <1>1, <2>1, <2>5 DEF TreeOf!OpenMenu
  <2> QED BY <2>7, <2>8, TreeRenderKeeps DEF TreeKept
<1>2. ASSUME NEW o \in TreeObject, TreeOf!Choose(o) PROVE TreeWhole(tTree, tPage)' /\ TreeKept
  <2>1. o \in TreeObjects[tTree.snap] /\ TreeOf!Chosen(TreeOf!Pressed, o)
    BY <1>2 DEF TreeOf!Choose, TreeOf!Visible
  <2> QED BY <2>1, TreePressedWhole, TreeChosenKeeps DEF TreeKept
<1>3. ASSUME TreeOf!ChooseInMenu PROVE TreeWhole(tTree, tPage)' /\ TreeKept
  <2>1. PICK o, u : o = TreeOf!Menu(tTree) /\ u = [tTree EXCEPT !.menu = Nothing]
    OBVIOUS
  <2>2. o \in TreeObject /\ o \in TreeObjects[tTree.snap]
    BY <1>3, <2>1, TreeMenuIsListed DEF TreeOf!ChooseInMenu, TreeOf!Visible
  <2>3. TreeWhole(u, tPage) /\ u.open = tTree.open /\ u.snap = tTree.snap
    BY <2>1, TreeMenuMayClose
  <2>4. TreeOf!Chosen(u, o)
    BY <1>3, <2>1 DEF TreeOf!ChooseInMenu
  <2> QED BY <2>2, <2>3, <2>4, TreeChosenKeeps DEF TreeKept
<1>4. ASSUME TreeOf!CloseMenu PROVE TreeWhole(tTree, tPage)' /\ TreeKept
  BY <1>4, TreePressedWhole, TreeRenderKeeps DEF TreeOf!CloseMenu, TreeKept
<1>5. ASSUME TreeOf!ClosePreview PROVE TreeWhole(tTree, tPage)' /\ TreeKept
  <2>1. PICK u : u = [TreeOf!Pressed EXCEPT !.preview = Nothing]
    OBVIOUS
  <2>2. TreeWhole(u, tPage) /\ u.open = tTree.open
    BY <2>1, TreePressedWhole, TreePreviewMayClose
  <2> QED BY <1>5, <2>1, <2>2, TreeRenderKeeps DEF TreeOf!ClosePreview, TreeKept
<1> QED BY <1>1, <1>2, <1>3, <1>4, <1>5

LEMMA TreeElsewhereKeeps ==
  ASSUME TreeSuitable, TreeWhole(tTree, tPage), TreeOf!Elsewhere
  PROVE  TreeWhole(tTree, tPage)' /\ TreeKept
<1>1. PICK p : /\ TreeOf!Render(TreeOf!Pressed, p)
               /\ \/ \E o \in TreeObjects[tTree.snap] : p = [tPage EXCEPT !.table = o]
                  \/ \E o \in TreeObjects[tTree.snap] :
                       TreeKind[o] \in {"view", "program"} /\ p = [tPage EXCEPT !.document = o, !.of = tTree.snap]
                  \/ p = [tPage EXCEPT !.document = Nothing]
  BY DEF TreeOf!Elsewhere
<1>2. tTree.snap \in TreeSnapshot /\ TreeObjects[tTree.snap] \subseteq TreeObject
  BY SMTT(60) DEF TreeSuitable, TreeWhole, TreeTrees
<1>3. TreeWhole(TreeOf!Pressed, p)
  BY <1>1, <1>2, TreePressedWhole DEF TreeWhole, TreePlaces
<1> QED BY <1>1, <1>3, TreePressedWhole, TreeRenderKeeps DEF TreeKept

LEMMA TreeStepKeeps == TreeSuitable /\ TreeWhole(tTree, tPage) /\ [TreeOf!Next]_TreeOf!vars => TreeWhole(tTree, tPage)' /\ [TreeKept]_TreeOf!vars
<1> SUFFICES ASSUME TreeSuitable, TreeWhole(tTree, tPage), [TreeOf!Next]_TreeOf!vars PROVE TreeWhole(tTree, tPage)' /\ [TreeKept]_TreeOf!vars
  OBVIOUS
<1>1. CASE UNCHANGED TreeOf!vars
  BY <1>1 DEF TreeOf!vars, TreeWhole
<1>2. CASE TreeOf!Next
  BY <1>2, TreeReplaceKeeps, TreeToggleKeeps, TreeSearchKeeps, TreeMenuKeeps, TreeElsewhereKeeps DEF TreeOf!Next
<1> QED BY <1>1, <1>2

LEMMA TreeInitHolds == TreeSuitable /\ TreeOf!Init => TreeWhole(tTree, tPage)
<1> SUFFICES ASSUME TreeSuitable, TreeOf!Init PROVE TreeWhole(tTree, tPage)
  OBVIOUS
<1>1. PICK n, open, unfolded :
        /\ n \in TreeSnapshot
        /\ tTree = [snap |-> n, open |-> open, search |-> Nothing, unfolded |-> unfolded, menu |-> Nothing, preview |-> Nothing]
        /\ open = [b \in TreeBranch |-> b \in TreeDefaults[n]] /\ unfolded = [b \in TreeBranch |-> TRUE]
  BY DEF TreeOf!Init
<1>2. open \in TreeFolds /\ unfolded \in TreeFolds
  BY <1>1, TreeFoldsOf, Zenon
<1> QED BY <1>1, <1>2 DEF TreeOf!Init, TreeWhole, TreeTrees, TreePlaces

LEMMA TreeWholeGives == TreeSuitable /\ TreeWhole(tTree, tPage) => TreeOf!TypeOK /\ TreeOf!TreeIsOfSnapshot
<1> SUFFICES ASSUME TreeSuitable, TreeWhole(tTree, tPage) PROVE TreeOf!TypeOK /\ TreeOf!TreeIsOfSnapshot
  OBVIOUS
<1>1. TreeOf!TypeOK
  BY DEF TreeWhole, TreeTrees, TreePlaces, TreeMenus, TreeFolds, TreeOf!TypeOK
<1>2. TreeOf!Preview(tTree, tPage) # Nothing => TreeKind[TreeOf!Preview(tTree, tPage)] # "table"
  BY DEF TreeOf!Preview, TreeOf!Active, TreeOf!Document, TreeWhole
<1> QED BY <1>1, <1>2, TreeMenuIsListed DEF TreeWhole, TreeOf!TreeIsOfSnapshot

\* The menu and the details of the tree are of objects the snapshot has, and a filter leaves what is
\* unfolded (SchemaTree.tsx).
THEOREM TreeCorrect ==
  TreeOf!Spec => []TreeOf!TypeOK /\ []TreeOf!TreeIsOfSnapshot /\ TreeOf!DisclosureIsKept
<1> TreeSuitable
  BY PartsAreSuited
<1>1. TreeOf!Init => TreeWhole(tTree, tPage)
  BY TreeInitHolds
<1>2. TreeWhole(tTree, tPage) /\ [TreeOf!Next]_TreeOf!vars => TreeWhole(tTree, tPage)' /\ [TreeKept]_TreeOf!vars
  BY TreeStepKeeps
<1>3. TreeWhole(tTree, tPage) => TreeOf!TypeOK /\ TreeOf!TreeIsOfSnapshot
  BY TreeWholeGives
<1> QED BY <1>1, <1>2, <1>3, PTL DEF TreeOf!Spec, TreeOf!DisclosureIsKept, TreeKept

-----------------------------------------------------------------------------
(* The page as a whole                                                     *)

\* Side by side the three keep the page at objects it shows, and nothing is sent that was not previewed.
THEOREM PageCorrect ==
  Places!Spec /\ Beside!Spec /\ TreeOf!Spec => PlacesAreCurrent
BY PlacesCorrect, BesideCorrect, TreeCorrect, PTL DEF PlacesAreCurrent
=============================================================================

------------------------------ MODULE MCSettles ------------------------------
(* Liveness of the pages, on smaller instances than those of MCShell and      *)
(* MCPages: "part" is chosen at the start and says which page takes the steps *)
(* of a behaviour (the viewer of Shell takes none).  What is owed is owed by  *)
(* the program, never by its user: calls are answered (with a result or a     *)
(* failure), answers are delivered, timers fire.                              *)
EXTENDS Shell, TLC

CONSTANTS None, s1, s2, d1, d2, f1, All, Domain, v1, ta, tb, v, Blank, q1, m1, n1

VARIABLES part,
          bStore, bPage, bSession, bRequest, bReads, bWrites, bFetches, bAcked, bSpent,
          dScope, dMembers, dLoaded, dNodes, dReady, dPrior, dInitial, dFitting, dAuto,
          dDrag, dGesture, dHistory, dCache, dQueue, dStored, dFailed, dFeedback, dSpent,
          wApp, wSession, wPage, wDisk, wRuns, wCancels, wLog, wSpent,
          aPolicy, aPrepared, aTasks, aStarted, aCancelled, aLapsed, aStage, aTries, aSent,
          aChanges, aShown, aPhase, aPreview, aCompleted, aPending, aBusy, aEpoch,
          aQuestion, aActive, aTimer, aCalls, aPressed, aActs,
          tPolicy, tPrepared, tTasks, tStarted, tCancelled, tLapsed, tStage, tTries, tSent,
          tChanges, tShown, tTurns, tLatest, tMounted, tClaimed, tDue, tPhase, tPreview,
          tRequest, tBusy, tGeneration, tCalls, tAsks, tRuns, tNextId, tActs,
          vServer, vView, vShown, vChecked, vDrafts, vPreview, vCalls, vWorking, vSteps

bVars == <<bStore, bPage, bSession, bRequest, bReads, bWrites, bFetches, bAcked, bSpent>>
sVars == <<sStore, sLegacy, sPage, sDue, sDraft, sCalls, sSpent>>
cVars == <<cStore, cPage, cPanel, cOp, cListing, cChooser, cSpent>>
zVars == <<zCurrent, zLegacy, zLayouts, zServer, zTabs, zActs>>
uVars == <<uCall, uInstalling, uUnsaved, uSession, uOperation, uRefusing, uChosen,
           uOffline, uPublished, uData, uBackup, uDisk, uKept, uExited, uPage, uPoll,
           uStartup, uRuns, uChanges>>
dVars == <<dScope, dMembers, dLoaded, dNodes, dReady, dPrior, dInitial, dFitting, dAuto,
           dDrag, dGesture, dHistory, dCache, dQueue, dStored, dFailed, dFeedback, dSpent>>
wVars == <<wApp, wSession, wPage, wDisk, wRuns, wCancels, wLog, wSpent>>
aVars == <<aPolicy, aPrepared, aTasks, aStarted, aCancelled, aLapsed, aStage, aTries,
           aSent, aChanges, aShown, aPhase, aPreview, aCompleted, aPending, aBusy, aEpoch,
           aQuestion, aActive, aTimer, aCalls, aPressed, aActs>>
tVars == <<tPolicy, tPrepared, tTasks, tStarted, tCancelled, tLapsed, tStage, tTries,
           tSent, tChanges, tShown, tTurns, tLatest, tMounted, tClaimed, tDue, tPhase,
           tPreview, tRequest, tBusy, tGeneration, tCalls, tAsks, tRuns, tNextId, tActs>>
vVars == <<vServer, vView, vShown, vChecked, vDrafts, vPreview, vCalls, vWorking, vSteps>>

Browse == INSTANCE Workspace WITH
  Source <- {s1, s2}, View <- {v1}, MaxCaptures <- 2, MaxSessions <- 2, MaxWrites <- 1,
  MaxReads <- 3, MaxFetches <- 1, Reload <- TRUE, Patch <- FALSE,
  store <- bStore, page <- bPage, session <- bSession, request <- bRequest, reads <- bReads,
  writes <- bWrites, fetches <- bFetches, acked <- bAcked, spent <- bSpent

\* What a browser has stored that never opened the viewer.
NothingStored == {[current |-> None, legacy |-> None]}

Canvas == INSTANCE Diagram WITH
  Table <- {ta, tb}, View <- {v}, Focus <- {ta}, HistoryLimit <- 2,
  MaxEdits <- 1, MaxMoves <- 1, SavesFail <- TRUE,
  scope <- dScope, members <- dMembers, loaded <- dLoaded, nodes <- dNodes,
  ready <- dReady, prior <- dPrior, initial <- dInitial, fitting <- dFitting,
  auto <- dAuto, drag <- dDrag, gesture <- dGesture, history <- dHistory, cache <- dCache,
  queue <- dQueue, stored <- dStored, failed <- dFailed, feedback <- dFeedback,
  spent <- dSpent

Query == INSTANCE QueryWorkspace WITH
  Source <- {s1, s2}, Sql <- {q1}, MaxRuns <- 2, MaxMoves <- 1, MaxEdits <- 0,
  StorageFails <- FALSE,
  app <- wApp, session <- wSession, page <- wPage, disk <- wDisk, runs <- wRuns,
  cancels <- wCancels, log <- wLog, spent <- wSpent

Assist == INSTANCE TableAssistant WITH
  Model <- {m1}, Note <- {n1}, Question <- {q1}, MaxRequests <- 3, MaxPrepared <- 2,
  MaxRetries <- 0, MaxChanges <- 0, MaxActs <- 1,
  policy <- aPolicy, prepared <- aPrepared, tasks <- aTasks, started <- aStarted,
  cancelled <- aCancelled, lapsed <- aLapsed, stage <- aStage, tries <- aTries,
  sent <- aSent, changes <- aChanges, shown <- aShown, phase <- aPhase,
  preview <- aPreview, completed <- aCompleted, pending <- aPending, busy <- aBusy,
  epoch <- aEpoch, question <- aQuestion, active <- aActive, timer <- aTimer,
  calls <- aCalls, pressed <- aPressed, acts <- aActs

Converse == INSTANCE DraftConversation WITH
  Model <- {m1}, Note <- {n1}, Broken <- {}, MaxRequests <- 3, MaxPrepared <- 2,
  MaxRetries <- 0, MaxChanges <- 0, MaxTurns <- 1, MaxActs <- 2,
  policy <- tPolicy, prepared <- tPrepared, tasks <- tTasks, started <- tStarted,
  cancelled <- tCancelled, lapsed <- tLapsed, stage <- tStage, tries <- tTries,
  sent <- tSent, changes <- tChanges, shown <- tShown, turns <- tTurns, latest <- tLatest,
  mounted <- tMounted, claimed <- tClaimed, due <- tDue, phase <- tPhase,
  preview <- tPreview, request <- tRequest, busy <- tBusy, generation <- tGeneration,
  calls <- tCalls, asks <- tAsks, runs <- tRuns, nextId <- tNextId, acts <- tActs

Desk == INSTANCE ReviewDesk WITH
  Page <- {"impact", "structure", "more"},
  Home <- ("impact" :> "impact" @@ "structure" :> "structure" @@ "more" :> "structure"),
  Batched <- {"structure", "more"},
  OpenItems <- [x \in (1..2) \X {"impact", "structure", "more"} |-> {x[2]}],
  Archived <- [x \in (1..2) \X {"impact", "structure", "more"} |-> {}],
  MaxRevision <- 2, MaxSteps <- 3, MaxCalls <- 2,
  server <- vServer, view <- vView, shown <- vShown, checked <- vChecked, drafts <- vDrafts,
  preview <- vPreview, calls <- vCalls, working <- vWorking, steps <- vSteps

MCInit ==
  /\ part \in {"workspace", "settings", "connect", "updates", "diagram", "query", "assistant", "conversation", "desk"}
  /\ Browse!Init /\ (part # "workspace" => bFetches = {})
  /\ Settings!Init /\ Upgrade!Init /\ Assist!Init
  /\ Connect!Init /\ (part # "connect" => Connect!Saved = {})
  /\ Viewer!Init
  /\ Canvas!Init /\ (part # "diagram" => dStored[All] = None)
  /\ Query!Init /\ (part # "query" => wApp.source = s1 /\ wDisk.draft = None)
  /\ Converse!Init /\ (part # "conversation" => tLatest)
  /\ Desk!Init /\ (part # "desk" => vView = "impact")

MCNext ==
  \/ /\ part = "workspace" /\ Browse!Next
     /\ UNCHANGED <<part, sVars, cVars, uVars, dVars, wVars, aVars, tVars, vVars, zVars>>
  \/ /\ part = "settings" /\ Settings!Next
     /\ UNCHANGED <<part, bVars, cVars, uVars, dVars, wVars, aVars, tVars, vVars, zVars>>
  \/ /\ part = "connect" /\ Connect!Next
     /\ UNCHANGED <<part, bVars, sVars, uVars, dVars, wVars, aVars, tVars, vVars, zVars>>
  \/ /\ part = "updates" /\ Upgrade!Next
     /\ UNCHANGED <<part, bVars, sVars, cVars, dVars, wVars, aVars, tVars, vVars, zVars>>
  \/ /\ part = "diagram" /\ Canvas!Next
     /\ UNCHANGED <<part, bVars, sVars, cVars, uVars, wVars, aVars, tVars, vVars, zVars>>
  \/ /\ part = "query" /\ Query!Next
     /\ UNCHANGED <<part, bVars, sVars, cVars, uVars, dVars, aVars, tVars, vVars, zVars>>
  \/ /\ part = "assistant" /\ Assist!Next
     /\ UNCHANGED <<part, bVars, sVars, cVars, uVars, dVars, wVars, tVars, vVars, zVars>>
  \/ /\ part = "conversation" /\ Converse!Next
     /\ UNCHANGED <<part, bVars, sVars, cVars, uVars, dVars, wVars, aVars, vVars, zVars>>
  \/ /\ part = "desk" /\ Desk!Next
     /\ UNCHANGED <<part, bVars, sVars, cVars, uVars, dVars, wVars, aVars, tVars, zVars>>

\* Workspace: a reading is answered, and its answer delivered.
PageFairness == WF_bVars(part = "workspace" /\ Browse!Deliver)

\* AppSettings: the savers' timers fire, the backend answers and its answers are delivered.
SettingsFairness == WF_sVars(part = "settings" /\ Settings!Progress)

\* Connections: every call to the backend is answered.
ConnectionFairness == WF_cVars(part = "connect" /\ Connect!Answer)

\* Updates: transfers have deadlines, so that every handler ends; answers are delivered, and the page
\* keeps polling.
UpdateFairness ==
  /\ \A c \in Upgrade!Command : /\ WF_uVars(part = "updates" /\ Upgrade!Handler(c))
                                /\ WF_uVars(part = "updates" /\ Upgrade!Deliver(c))
  /\ WF_uVars(part = "updates" /\ Upgrade!StartPoll)
  /\ \A k \in {"timer", "run"} : /\ WF_uVars(part = "updates" /\ Upgrade!StatusAnswers(k))
                                 /\ WF_uVars(part = "updates" /\ Upgrade!StatusArrives(k))

\* Diagram: layouts are read, the worker answers or times out, frames are drawn, the pointer is
\* released, and writes end.
DiagramFairness ==
  /\ WF_dVars(part = "diagram" /\ Canvas!LayoutsLoad)
  /\ WF_dVars(part = "diagram" /\ (Canvas!InitialAnswers \/ Canvas!InitialFails))
  /\ WF_dVars(part = "diagram" /\ Canvas!Fitted)
  /\ WF_dVars(part = "diagram" /\ (Canvas!AutoAnswers \/ Canvas!AutoFails))
  /\ WF_dVars(part = "diagram" /\ Canvas!Drop)
  /\ WF_dVars(part = "diagram" /\ \E ok \in BOOLEAN : Canvas!Saved(ok))

\* QueryWorkspace: a query has a time limit of its own, so that it ends whether it is stopped or not.
QueryFairness ==
  \A r \in Query!Run :
    /\ WF_wVars(part = "query" /\ Query!Register(r))
    /\ WF_wVars(part = "query" /\ \E o \in {"succeeded", "failed"} : Query!Finish(r, o))
    /\ WF_wVars(part = "query" /\ Query!Deliver(r))

\* TableAssistant and DraftConversation: timers fire, the desktop answers every command, and an attempt
\* to reach the provider ends.
AssistantFairness ==
  /\ WF_aVars(part = "assistant" /\ Assist!Prepare)
  /\ WF_aVars(part = "assistant" /\ Assist!ServeCalls)
  /\ WF_aVars(part = "assistant" /\ Assist!Work)
  /\ WF_aVars(part = "assistant" /\ Assist!Prepared)
  /\ WF_aVars(part = "assistant" /\ Assist!Delivered)
  /\ WF_aVars(part = "assistant" /\ Assist!Expire)
  /\ WF_aVars(part = "assistant" /\ Assist!LoadSettings)
ConversationFairness ==
  /\ WF_tVars(part = "conversation" /\ Converse!KnowLatest)
  /\ WF_tVars(part = "conversation" /\ Converse!Automatic)
  /\ WF_tVars(part = "conversation" /\ Converse!Prepared)
  /\ WF_tVars(part = "conversation" /\ Converse!Delivered)
  /\ WF_tVars(part = "conversation" /\ Converse!Serve)
  /\ WF_tVars(part = "conversation" /\ Converse!Work)
  /\ WF_tVars(part = "conversation" /\ Converse!Expire)

\* ReviewDesk: the timer goes on asking and the backend answers.  An answer that takes more than the
\* ten seconds is overtaken by the next question; again and again one is in time.
DeskFairness ==
  /\ WF_vVars(part = "desk" /\ Desk!ReloadPage)
  /\ WF_vVars(part = "desk" /\ \E c \in vCalls : Desk!Read(c))
  /\ SF_vVars(part = "desk" /\ ((\E c \in vCalls : Desk!IsLast(c) /\ Desk!Read(c)) \/ Desk!Expires))
  /\ WF_vVars(part = "desk" /\ Desk!Ignored)
  /\ SF_vVars(part = "desk" /\ Desk!Arrives)
  /\ WF_vVars(part = "desk" /\ (Desk!Decide \/ Desk!Applied \/ Desk!Refused))
  /\ WF_vVars(part = "desk" /\ Desk!Told)

FairSpec ==
  /\ MCInit /\ [][MCNext]_<<part, cVars, bVars, sVars, uVars, dVars, wVars, aVars, tVars, vVars, zVars>>
  /\ PageFairness /\ SettingsFairness /\ ConnectionFairness /\ UpdateFairness
  /\ DiagramFairness /\ QueryFairness /\ AssistantFairness /\ ConversationFairness
  /\ DeskFairness

\* What each page comes back to: its statements are loaded or known to be unavailable; its savers are
\* quiet; its operation has ended; it shows the true state of the update; the diagram is usable; the
\* query is over; the question has its preview, its answer, or the reason why not; the review shows the
\* page asked for.
AllSettled ==
  CASE part = "workspace" -> Browse!Settled
    [] part = "settings" -> Settings!Settled
    [] part = "connect" -> Connect!Settled
    [] part = "updates" -> Upgrade!Settled
    [] part = "diagram" -> Canvas!Settled
    [] part = "query" -> Query!Settled
    [] part = "assistant" -> Assist!Settled
    [] part = "conversation" -> Converse!Settled
    [] part = "desk" -> Desk!Settled

\* No page stays busy for ever: whatever the user did, each comes back to rest again and again.
PagesSettle == []<>AllSettled
=============================================================================

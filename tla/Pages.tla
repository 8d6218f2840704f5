------------------------------- MODULE Pages -------------------------------
(***************************************************************************)
(* The parts of the pages beside the diagram, as they sit in the           *)
(* application: the query page and its assistant, the desk of the change   *)
(* review, the business domains, the places of the page, its inspector and *)
(* its tree.  Each has variables of its own, and what it promises is named *)
(* here for any sources, snapshots, tables and limits.  The module gives   *)
(* the parts their names; it adds no steps.                                *)
(***************************************************************************)
EXTENDS Naturals

CONSTANTS Nothing,  \* what the parts call None
  QuerySource, QuerySql, QueryMaxRuns, QueryMaxMoves, QueryMaxEdits, StorageFails,
  ConverseModel, ConverseNote, ConverseBroken, ConverseMaxRequests, ConverseMaxPrepared,
  ConverseMaxRetries, ConverseMaxChanges, ConverseMaxTurns, ConverseMaxActs,
  DeskPage, DeskHome, DeskBatched, DeskOpenItems, DeskArchived, DeskMaxRevision, DeskMaxSteps, DeskMaxCalls,
  DomainSource, DomainTable, DomainGroup, DomainView, DomainMade, DomainMaxActs, DomainMaxCalls,
  PlaceSource, PlaceSnapshot, PlaceTable, PlaceHome, PlaceTables, PlaceMaxActs,
  BesideSnapshot, BesideTable, BesideTables, BesidePolicy, BesideRemote, BesideQuestion,
  BesideMaxActs, BesideMaxRequests,
  TreeSnapshot, TreeObject, TreeBranch, TreeFilter, TreeHome, TreeObjects, TreeKind, TreeHits,
  TreeDefaults, TreeMaxActs

VARIABLES
  wApp, wSession, wPage, wDisk, wRuns, wCancels, wLog, wSpent,
  cPolicy, cPrepared, cTasks, cStarted, cCancelled, cLapsed, cStage, cTries, cSent,
  cChanges, cShown, cTurns, cLatest, cMounted, cClaimed, cDue, cPhase, cPreview,
  cRequest, cBusy, cGeneration, cCalls, cAsks, cRuns, cNextId, cActs,
  vServer, vView, vShown, vChecked, vDrafts, vPreview, vCalls, vWorking, vSteps,
  bStore, bPage, bPending, bPanel, bCalls, bActs,
  nPage, nCanvas, nLatest, nLast, nActs,
  iAt, iSegment, iColumn, iPicked, iRequest, iPanel, iExplain, iPrepared, iActs,
  tTree, tPage, tActs

-----------------------------------------------------------------------------
Query == INSTANCE QueryWorkspace WITH
  Source <- QuerySource, Sql <- QuerySql, None <- Nothing, MaxRuns <- QueryMaxRuns,
  MaxMoves <- QueryMaxMoves, MaxEdits <- QueryMaxEdits, StorageFails <- StorageFails,
  app <- wApp, session <- wSession, page <- wPage, disk <- wDisk, runs <- wRuns,
  cancels <- wCancels, log <- wLog, spent <- wSpent

Converse == INSTANCE DraftConversation WITH
  Model <- ConverseModel, Note <- ConverseNote, Broken <- ConverseBroken, None <- Nothing,
  MaxRequests <- ConverseMaxRequests, MaxPrepared <- ConverseMaxPrepared,
  MaxRetries <- ConverseMaxRetries, MaxChanges <- ConverseMaxChanges,
  MaxTurns <- ConverseMaxTurns, MaxActs <- ConverseMaxActs,
  policy <- cPolicy, prepared <- cPrepared, tasks <- cTasks, started <- cStarted,
  cancelled <- cCancelled, lapsed <- cLapsed, stage <- cStage, tries <- cTries,
  sent <- cSent, changes <- cChanges, shown <- cShown, turns <- cTurns, latest <- cLatest,
  mounted <- cMounted, claimed <- cClaimed, due <- cDue, phase <- cPhase,
  preview <- cPreview, request <- cRequest, busy <- cBusy, generation <- cGeneration,
  calls <- cCalls, asks <- cAsks, runs <- cRuns, nextId <- cNextId, acts <- cActs

Desk == INSTANCE ReviewDesk WITH
  Page <- DeskPage, Home <- DeskHome, Batched <- DeskBatched, OpenItems <- DeskOpenItems, Archived <- DeskArchived,
  None <- Nothing, MaxRevision <- DeskMaxRevision, MaxSteps <- DeskMaxSteps, MaxCalls <- DeskMaxCalls,
  server <- vServer, view <- vView, shown <- vShown, checked <- vChecked, drafts <- vDrafts,
  preview <- vPreview, calls <- vCalls, working <- vWorking, steps <- vSteps

Domains == INSTANCE BusinessDomains WITH
  Source <- DomainSource, Table <- DomainTable, Group <- DomainGroup, View <- DomainView,
  None <- Nothing, Made <- DomainMade, MaxActs <- DomainMaxActs, MaxCalls <- DomainMaxCalls,
  store <- bStore, page <- bPage, pending <- bPending, panel <- bPanel, calls <- bCalls, acts <- bActs

Places == INSTANCE Navigation WITH
  Source <- PlaceSource, Snapshot <- PlaceSnapshot, Table <- PlaceTable, None <- Nothing,
  Home <- PlaceHome, Tables <- PlaceTables, MaxActs <- PlaceMaxActs,
  page <- nPage, canvas <- nCanvas, latest <- nLatest, last <- nLast, acts <- nActs

Beside == INSTANCE Inspector WITH
  Snapshot <- BesideSnapshot, Table <- BesideTable, Tables <- BesideTables, None <- Nothing,
  Policy <- BesidePolicy, Remote <- BesideRemote, Question <- BesideQuestion,
  MaxActs <- BesideMaxActs, MaxRequests <- BesideMaxRequests,
  at <- iAt, segment <- iSegment, column <- iColumn, picked <- iPicked, request <- iRequest,
  panel <- iPanel, explain <- iExplain, prepared <- iPrepared, acts <- iActs

TreeOf == INSTANCE SchemaTree WITH
  Snapshot <- TreeSnapshot, Object <- TreeObject, Branch <- TreeBranch, Filter <- TreeFilter,
  None <- Nothing, Home <- TreeHome, Objects <- TreeObjects, Kind <- TreeKind, Hits <- TreeHits,
  Defaults <- TreeDefaults, MaxActs <- TreeMaxActs,
  tree <- tTree, page <- tPage, acts <- tActs

-----------------------------------------------------------------------------
(* What the parts are given: every snapshot has its source and its tables,  *)
(* and Nothing is none of the things that may be there instead.             *)

QueryQueries ==
  [source : QuerySource, model : Nat, sql : QuerySql, at : {"sent", "active", "answered", "over"},
   answer : {Nothing, "succeeded", "failed", "cancelled"}, stale : BOOLEAN]
QuerySuitable == QueryMaxRuns \in Nat /\ Nothing \notin QueryQueries \cup Query!Run

ConverseSuitable == ConverseModel # {} /\ ConverseNote # {} /\ Nothing \notin Nat

DeskShownPages == [revision : Nat, page : DeskPage]
DeskDecisions ==
  [action : {"seenBatch", "archive", "confirm", "defer", "restart", "restore"}, revision : Nat,
   items : SUBSET Desk!Items, named : SUBSET Desk!Items, saved : Nat]
DeskSuitable ==
  /\ DeskMaxRevision \in Nat \ {0} /\ DeskHome \in [DeskPage -> DeskPage] /\ \A p \in DeskPage : DeskHome[p] \in Desk!First
  /\ Nothing \notin DeskShownPages \cup DeskDecisions

DomainsRows == [source : DomainSource, members : SUBSET DomainTable]
DomainsLists == [DomainGroup -> (SUBSET DomainTable) \cup {Nothing}]
DomainsRead == [groups : DomainsLists, views : SUBSET DomainView]
DomainsViews == [group : DomainGroup, roots : SUBSET DomainTable, behind : BOOLEAN]
DomainsKinds == {"read", "add", "group", "view", "save", "delete"}
DomainsGroupOrNone == DomainGroup \cup {Nothing}
DomainsViewOrNone == DomainView \cup {Nothing}
DomainsStages == {"sent", "done", "failed"}
DomainsCalls ==
  [kind : DomainsKinds, session : Nat, source : DomainSource, stage : DomainsStages, stamp : Nat, group : DomainsGroupOrNone,
   view : DomainsViewOrNone, members : SUBSET DomainTable, lists : DomainsRead, version : Nat, request : Nat, behind : BOOLEAN]
DomainsSuitable ==
  /\ DomainMade.group \in DomainGroup /\ DomainMade.members \in SUBSET DomainTable
  /\ \A members \in SUBSET DomainTable : members # Nothing
  /\ Nothing \notin DomainSource \cup DomainGroup \cup DomainView
  /\ Nothing \notin DomainsRows \cup DomainsViews \cup DomainsCalls

PlacesJumps == [snap : PlaceSnapshot, table : PlaceTable, number : Nat \ {0}]
PlacesSuitable ==
  /\ PlaceHome \in [PlaceSnapshot -> PlaceSource] /\ PlaceTables \in [PlaceSnapshot -> SUBSET PlaceTable]
  /\ Nothing \notin PlaceSnapshot \cup PlaceTable \cup PlacesJumps

BesideRequests == Nat \ {0}
BesideKnown == BesideRequests \cup {Nothing}
BesideScopes == (BesideSnapshot \cup {Nothing}) \X (BesideTable \cup {Nothing}) \X BesidePolicy
BesidePicks == [scope : BesideScopes, request : BesideKnown, table : BesideTable]
BesideSuitable ==
  /\ BesideTables \in [BesideSnapshot -> SUBSET BesideTable] /\ BesideMaxRequests \in Nat
  /\ Nothing \notin BesideSnapshot \cup BesideTable \cup Nat \cup BesidePicks

TreeScopes == {TreeHome[n] : n \in TreeSnapshot} \X TreeSnapshot \X (TreeFilter \cup {Nothing})
TreeMenus == [object : TreeObject, scope : TreeScopes]
TreeSuitable ==
  /\ TreeObjects \in [TreeSnapshot -> SUBSET TreeObject] /\ TreeHits \in [TreeFilter \cup {Nothing} -> SUBSET TreeObject]
  /\ TreeKind \in [TreeObject -> {"table", "view", "program", "enum"}]
  /\ TreeDefaults \in [TreeSnapshot -> SUBSET TreeBranch]
  /\ Nothing \notin TreeObject \cup TreeFilter \cup TreeMenus

ASSUME PartsAreSuited ==
  /\ QuerySuitable /\ ConverseSuitable /\ DeskSuitable /\ DomainsSuitable
  /\ PlacesSuitable /\ BesideSuitable /\ TreeSuitable

-----------------------------------------------------------------------------
(* What the parts promise                                                  *)

\* QueryWorkspace: a result arrives for the last query and its source.
AnswersInOrder == Query!AnswersInOrder

\* QueryWorkspace: a restart keeps the draft, or its loss was told.
DraftSurvives == Query!DraftSurvives

\* DraftConversation: an answer is written under its own question by the request in force.
AnswerIsCurrent == Converse!AnswerIsCurrent

\* ReviewDesk: a decision names its items and is carried out once, however often it is sent; no answer
\* takes the page back, and a draft goes with its own item's decision and with no other.
DeskIsCurrent == [](vPreview # Nothing \/ vChecked # {} => Desk!BatchIsNamed) /\ Desk!DeskGoesForward

\* BusinessDomains: at rest the lists on the page are the stored ones, unless an answer overtook
\* another; and nothing takes a member out of a domain but an addition to lists so overtaken or put
\* back.  That such an addition does take one out is what MCDomains shows (MembersArePreserved).
DomainsAreCurrent == [](bPage.loaded => Domains!ShownIsStored) /\ Domains!LostOnlyWhenBehind

\* Navigation: the table on the page is one the snapshot shown has, and a jump that waits is of it.
\* Inspector: evidence is looked up for the request in force, and only what was previewed is sent.
\* SchemaTree: the menu and the details are of objects shown; a filter leaves what is unfolded.
PlacesAreCurrent ==
  /\ [](Places!SelectionIsShown /\ Places!JumpIsCurrent /\ Beside!EvidenceIsAnswered /\ TreeOf!TreeIsOfSnapshot)
  /\ Beside!SentAsPreviewed
  /\ TreeOf!DisclosureIsKept
=============================================================================

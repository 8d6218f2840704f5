# NodalStudio: a verification project

NodalStudio is a desktop application that inspects databases (PostgreSQL, MySQL, SQLite), keeps what it saw as local
snapshots, draws them, and lets its users attach knowledge to the structure: descriptions, logical relationships, groups
and saved views. The structure changes under that knowledge, and every page of the application talks to the desktop
process by calls whose answers arrive later. Most of what is hard in the program is about noticing: which statement rested
on what, whether that is still so, and whether an answer is still one to the question on the page.

This directory holds TLA+ models of those parts, TLC configurations that check them on small instances, and proofs that
the TLA+ proof system checks for every size. `PROJECT.json` maps each definition to the lines it models; the sources named
below are relative to `src/`, frontend components to `apps/frontend/src/`.

## The system

| Part | State | Operations | What is hard |
| --- | --- | --- | --- |
| snapshot store (`crates/snapshot-store/src/lib.rs`) | one SQLite database per installation: profiles, snapshots, change sets, annotations, relationships, ignored inferences, groups, views, layouts | save, list, import of backups, retention, deletion | an operation is one transaction, but commands string several together; retention deletes what others point to |
| knowledge (`knowledge.rs` in store, semantic model, desktop) | a confirmation record per described object, with its evidence; drafts in memory | read states, prepare, confirm, retry, cancel | evidence that changes and changes back; notes that rest on notes; every other writer |
| change review (`change_review.rs` in store, desktop) | a baseline, events, the receipt of the last capture | workspace, start, restart, complete, seen, defer, accept, confirm, archive, restore, disable | decisions on a page that is out of date; rounds that complete and reopen |
| relationship batches (`relationship_batches.rs`) | stored batches, a version per row | preview, apply, undo | later edits, rows deleted and created again |
| workspace page (`App.tsx`) | the snapshot on the page, the statements beside it, the view that narrows it | capture, switch of source, history preview, reads and writes of statements | answers of another source, or of an older reading |
| settings (`App.tsx`, `SettingsPage.tsx`) | one object, saved as a whole by a page, two automatic savers and a migration | edit, save, reset, migrate | overlapping writes of the whole object |
| connections (`ConnectionPanel.tsx`) | list, form, test, one operation at a time | test, cancel, create, edit, rename, open, delete | a file chooser and a late list beside the operation |
| diagram (`SchemaCanvas.tsx`, `layout-history.ts`, `elk-layout.ts`) | positions, a history, a cache, a queue of writes | drag, pin, layout by a worker, undo, save | a worker and writes that answer late or fail |
| schema graph (`graph/schema-graph.ts`) | none: a function of model, statements and choices | draw | two models at once, folded fields, suggestions beside keys |
| relationship editing, suggestions (`SchemaCanvas.tsx`, `LogicalRelationshipManager.tsx`, `InferredRelationshipReview.tsx`) | drafts, dialogs, a queue of candidates, a batch being sent | validate, save, delete, confirm, ignore, undo | a switch of the source, a lost answer, another window |
| exported files (`diagram-export.ts`, `DiagramExportActions.tsx`, `SchemaReportExportAction.tsx`, `reports/`) | a job, the hidden surface a large diagram is drawn on | draw in batches, read, encode, hand over | everything moves on while a job waits for frames, labels and encoders |
| query page (`QueryPage.tsx`, `query-state.ts`, desktop `lib.rs`) | a session that outlives the page; the register of running queries | run, stop, edit, switch | late answers, a cancellation before the registration |
| AI assistants (`TableAiAssistant.tsx`, `DiscoveryAssistant.tsx`, `table_understanding.rs`, `discovery.rs`) | prepared requests in the desktop; a panel or a conversation | prepare, preview, send, cancel, expire | a preview or an answer for what is no longer asked |
| SQL file preview (`DdlImportPanel.tsx`, `ddl-parser.ts`) | a text, a preview, a window | read, parse, close | a file that is read after it was given up |
| structure preflight (`schema-preflight.ts`, `preflight-reviews.ts`) | notes about findings | check, ignore, forget | what a rule did not look at |
| review page (`ChangeReviewWorkspace.tsx`) | a page of a revision, a selection, a decision under way | reload, choose, decide | a poll every ten seconds beside everything |
| navigation (`App.tsx`, `SchemaChangesDiagram.tsx`) | snapshot, mode, view, selection, focus, a pending jump | capture, preview, locate, select, open panels | a jump that waits for a diagram, readings of another snapshot |
| inspector (`InspectorPanel.tsx`, `TableInspector.tsx`, `AiAssistant.tsx`) | segment, field, an explanation under way | select, locate evidence, preview, send | evidence for another field, an answer to another preview |
| object tree (`SchemaTree.tsx`, `SchemaObjectMenu.tsx`) | unfolded nodes, filter, menu, details | toggle, search, open, choose | a menu of a snapshot that was replaced |
| business discovery (`business-discovery.ts`, `BusinessExplorer.tsx`) | a question, terms, a path, a map | search, path, centre, assisted terms | knowledge that arrives between a search and its path |
| web viewer (`web-platform.ts`) | settings in the browser under two keys, a shared model | read, save, reset, load, refresh | two tabs, a crash or a full storage between two writes |
| updates (`UpdatePanel.tsx`, `desktop-invoke.ts`, `updates.rs`) | phase of an update, gate of all commands | check, download, install, restart | a restart over unsaved work, a failure half way |

Cloud synchronisation, the git workspace, purchases, the adapters of databases and rendering are not modelled (see below).

The parts meet in two places. The SQLite database is read and written by operations that are transactions: they never
overlap, while the commands made of them do. `acquire_cloud_operation` is a lock per source that most commands which write
descriptions, and the review, take; saving a network profile, deleting a relationship and a plain capture do not. The
models therefore interleave whole transactions and rely on that lock nowhere. The second place is the bridge of commands
(`platform/desktop-invoke.ts`): a page sends a command, and gets its answer in another turn of its event loop. A handler
runs to its next `await` in one step, with the rendering and the effects its state changes cause; anything may happen in
between.

## The modules

**The store.** `Knowledge` holds the rows that decide whether a description is confirmed (`store`), the open drafts and the
ids drawn. An operation that is one transaction is one action, and replaces `store` by a function of it; a rejected
operation is no step. The triggers and `states_in` are functions (`WriteAnnotation`, `WriteRelation`, `Settled`) that the
actions apply where the code runs them. Digests are modelled by what they digest, the structure of a database as a function
from tables to definitions. `Confirmed` states the result of the demotion loop of `states_in` as what the loop leaves: the
largest set of locally valid records whose notes lie in the set. `ChangeReview` extends it by the review of the source:
`Workspace` is the function of that name with the two places where a round is reopened, each action one
`apply_change_review`; a capture has two steps, `BeginCapture` and `EndCapture`; `screen` is the last workspace a client
was sent, and requests are made from it (with `KeepsStale`, from a page that went out of date). `RelationshipBatches` models
batches with every other writer of their two tables; `persist_logical_relationship` and `validated_logical_relationships`
take several steps, and what they read is kept in `editing` and `listing` (so two windows may create the same relationship,
which nothing in the repository excludes: `lib.rs:4222`). `writer` is a history variable.

**The pages.** `Workspace`, `AppSettings`, `Connections`, `Diagram`, `SchemaGraph`, `RelationshipEditing`, `ReviewQueue`,
`ReviewDesk`, `QueryWorkspace`, `BusinessDomains`, `DdlImport`, `Preflight`, `Navigation`, `Inspector`, `SchemaTree`, `BusinessDiscovery` and `WebViewer` model one page or panel each, with as much of the desktop process as
answers it. A call under way is a record with what its closure knows; sending, being served and being delivered are
separate actions where anything can come between them. `Delivery` models the exports:
a job per export, and one hidden surface per mounted canvas which large diagrams are drawn on batch by batch, with every
wait between two of its steps an occasion for the page to move on. `BusinessDomains` has the lists of domains and views, which are
patched from answers, put back by the panel as it had them, and read anew; `overtaken` and `behind` are history variables that say
when two of these crossed. In `ReviewDesk` the answer to a decision may be lost after the backend has carried it out: the dialog stays and sends the
same operation again, which is then answered and not repeated; a page behind a cursor is refused once its revision is gone, and leads back to the
first one. `SchemaGraph` draws one captured model or two side by side: fields are dropped, added, retyped or renamed between captures (a rename
is inferred where a field that is gone and one that is new are alike and like no other, and the new name then counts as modified, not as added), and
keys may name fields that were not captured, to which their edges are drawn all the same. `Navigation` is about the place the page is at: its actions are the handlers of `App.tsx` with their
renderings (`Shown`), and a jump to a table stays pending until the diagram of its view is there. `Inspector` and `SchemaTree` are given
that place and keep what belongs to it. `BusinessDiscovery` computes from what is known of a snapshot, which grows while it is used.
`WebViewer` has the tabs of a browser over one storage: `SetItem` and `RemoveItem` are two steps, between which a tab may crash. `AiTasks` is the desktop's side of an AI request and is extended by
`TableAssistant` (the panel of a table) and `DraftConversation` (the query assistant). `Updates` models the page, the bridge, the
handlers with their operation lock, the backup and the replacement of the application.

**The abstract specification.** `UpdateGate` says what installing promises to the rest of the application: the restart is a
gate that closes only on an idle application with nothing unsaved, lets nothing begin while it is closed, and opens again
when the installation fails. `Updates` implements it under the mapping `Gate` (checked as `GateHolds`, proved as `TheGateHolds`).

**The parts.** `Pages` (query workspace, query assistant, review page, domains, places, inspector, object tree), `Shell` (settings,
connections, updates, viewer) and `Canvas` (relationship editing, suggestions, exported files) give each part variables and constants of its own and state what the parts promise, for any values that
suit them (`PartsAreSuited`, `ShellIsSuited`, `CanvasIsSuited`). They add no steps: the runs choose values, the proofs do not.

**The MC modules** instantiate these. `MCChangeReview` (with `MCReview`), `MCRelationshipBatches` and `MCDomains` give the
constants of one module their values. `MCStore` (`Knowledge` and `RelationshipBatches`, which keep their names), `MCShell`, `MCCanvas`, `MCPages` and `MCSettles` put several parts side by side: `part` is chosen
at the start and says which of them takes the steps of a behaviour, so that one run explores several instances, one after
the other and never multiplied. `MCShell` extends `Workspace` and `Shell`, `MCPages` extends `TableAssistant` and `Pages`, `MCSettles` extends
`Shell` and `MCCanvas` extends `Diagram` and `Canvas`; the variables and properties of those keep their names.

**The proof modules** are named after the module they are about (`PagesProofs`, `ShellProofs`, `CanvasProofs`); `StoreProofs` is about `Knowledge` and `ChangeReview`,
`CanvasProofs` about `Diagram` as well, and the domains of `Pages` have `DomainsProofs`. Definitions marked `mutant` are plausible mistakes in the
definition they precede; nothing uses them, and each property has at least one that breaks it.

## What the runs check

| Run | Properties | What it asks |
| --- | --- | --- |
| Store (`MCStore`) | `TypeOK`, `DowngradesAreDurable`, `EvidenceRetained`, `AcceptedIsInForce`, `NoRevival`, `UnrelatedStayConfirmed`, `BatchTypeOK`, `LinkedOnce`, `UndoKeepsLaterWork` | Can a description count as confirmed on evidence that changed, or changed back? Does retention delete evidence? Can descriptions support each other? Does an unrelated change pull a confirmation down? Two candidates for a field, an import, edits and a revalidation around a batch and its undo. |
| Review (`MCReview`) | `PartsTypeOK`, `BaselineRetained`, `CompletedIsResolved`, `DecidedAsShown`, `RoundIsEarned`, `RestoredOnce` | A client that follows the review of changing structures, one that submits pages of any age, and a text archived and restored. |
| Shell (`MCShell`) | `ShellTypeOK`, `ShownBelongs`, `AnswersConverge`, `DraftKept`, `SavedIsVerified`, `UpdateIsSafe`, `GateHolds` | Is anything late shown, saved or installed in place of what the user asked for? Does an update close over unsaved work, or lose data? Does a tab of the viewer lose a setting to a crash or a full storage, or mix two models? |
| Canvas (`MCCanvas`) | `CanvasTypeOK`, `EditsAreSaved`, `GraphIsWhole`, `DeliveredIsWhole`, `ArrangementStays`, `EditsAreReviewed` | Does what the user arranged stay, and reach the device? Does the graph draw each pair once and both models of a comparison? Does a file leave that is not whole, or is of what is no longer shown? Is what is sent what was validated or reviewed? Is the path between two tables a shortest one, and kept by the map? |
| Pages (`MCPages`) | `PagesTypeOK`, `NoneForgotten`, `AnswersInOrder`, `DraftSurvives`, `AnswerArrives`, `AnswerIsCurrent`, `StructureIsTold`, `DeskIsCurrent`, `DomainsAreCurrent`, `PlacesAreCurrent` | Queries of two sources and a restart; both assistants while settings and relationships change; every text of up to three statements; a preflight of sixty snapshots; the review page beside another writer, with answers that are lost and decisions sent again; domains added to while lists are read, views made and the source switched; the place of the page, the inspector and the tree of objects over two snapshots. |
| Settles (`MCSettles`) | `PagesSettle` | Does every page come back to rest, again and again? |

All of these pass. Six runs state what a document, a text or a comment of the repository says, and show that the code does otherwise:

| Run | Property | What happens |
| --- | --- | --- |
| ReviewRace | `ReceiptNamesInspected` | A network profile is saved while a capture inspects the database of the old one. The success receipt names the new identity, and a restart accepts it. |
| ReviewConnections | `BaselineOfItsConnection` | Capture through a second connection, return to the first, complete: the snapshot of the second becomes the baseline of the first. |
| ReviewRevision | `RevisionFixesProjection` | A completed review is reopened by an item. The statuses in that answer were computed in the old round, the revision with the new one. |
| DomainLoss (`MCDomains`) | `MembersArePreserved` | A table is added to a domain on the canvas while the panel makes another domain. The panel puts back the lists of its click, without that table; the next addition is made from those lists and saves the domain without it. The text of the page says that existing members are preserved. |
| BatchDisable | `DisabledIsKept` | A listing is revalidating relationships; one is disabled; the listing writes its old row back, active. |
| Replay | `NeverReplayed` | A question whose relationships stop joining its tables and join them again is sent again. |

### Bounds

The instances are small, but chosen so that the case in question happens; what is not bounded by name is unbounded.

- `MaxClock` bounds the writes that take a timestamp, `MaxEvents` the decisions of a review, `MaxDrafts` the open drafts (16 in the
  code); `Id`, `Link` and `Batch` the fresh ids. Two tables, of which one changes and one disappears, are enough for evidence to be
  lost and to return, to relate two tables, and to leave one unrelated. The part `Knowledge` of `MCStore` has broad short behaviours and deep ones
  over the first snapshot, in which three drafts cite one another's notes. The review needs three decisions to start, defer and
  complete, four to archive, restore and archive again. The batches have a link id besides the one in the backup,
  so that a batch could link both candidates. A preview or an edit that `MaxWrites` would never let end is left out (`MayEnd`), which changes nothing else.
- Pages: two of everything that can be confused (sources, forms, views, versions, feeds, questions, settings), and `Max…` for what the user
  or another program may do: `MaxWrites`, `MaxReads`, `MaxFetches`, `MaxOps`, `MaxForms`, `MaxLists`, `MaxEdits`, `MaxMoves`, `MaxRuns`, `MaxRequests`,
  `MaxActs`, `MaxTurns`, `MaxSteps`, `MaxCalls`. A late answer needs one step of the user between two of its own, and one more to do harm.
- Exports: the limits of the code (a canvas is dense at 100 tables; batches of 64 edges and 16 tables; 500 tables and 5000 relations in a viewer)
  are constants, small enough in the run that a diagram is dense, a batch is one of several, and a viewer is refused. Two jobs share the surface.
- Domains: three acts of the user with two calls under way, so that an addition, a panel that puts its lists back and a second addition meet. `MCDomains` needs no more, reads the lists once and
  still loses a member, so that no late reading is to blame.
- Places: three objects over two snapshots, and four acts or so of the user: enough to ask for a table, go elsewhere and come back
  before it is there. Discovery: three tables, and knowledge that grows twice. The viewer: two tabs, one setting older than the other, two models
  that are shared one after the other, four acts.
- The query assistant: one model of two notes, whose relationships change between two questions, one request prepared at a time, and the source chosen at the start
  (the sources are alike). The workspace that patches its list starts with no reading of the semantics under way.
- `HistoryLimit` is 1 in the run and 50 in the code: with two edits the history is at its limit.
- `MCShell` has three operations of the connections and one reading of the list that something else asks for: an edit, a
  rename with a form that a late list filled, and one more. `MCSettles` has the pages on smaller instances still.

Ids that are only compared are model values, permuted by a symmetry set where only invariants and properties of steps are checked.

### Fairness

Only `FairSpec` of `MCSettles` assumes fairness, none of it of the user: a call is answered, with a result or a failure (reads and
writes of SQLite end; queries, transfers, tests and attempts to reach a provider have deadlines in the code); an answer is
delivered, a timer fires, a frame is drawn, a pointer that is down is released, and the update page goes on polling. One condition is strong: a
question of the review page that is answered within the ten seconds before the next one is asked comes up again and again. An
endlessly slower backend would never show its page, which is how the code is built (each poll gives up the one before it).
The store's modules have no liveness: each of their steps is a request of a user.

## What is proved

The theorems hold for every value of the constants, so for any number of tables, sources, requests, edits and steps; the
`Max…` bounds are constants like any other, and no proof uses their size. Each module proves `Init => Inv`, that each step of `[Next]_vars` keeps
`Inv`, and that `Inv` gives the property; `Inv` is in each case more than the property, because the property alone does not survive a step.

**`StoreProofs`**, about `Knowledge` (`TypeCorrect`, `DowngradesDurable`, `EvidenceIsRetained`, `ConfirmationsNeverRevive`,
`AcceptedConfirmationsHold`, `UnrelatedConfirmationsStay`). `IInv` adds that the records in force are exactly those not
downgraded, so that the largest self-supporting set needs no search, that ids of records were drawn, and that an unsaved draft has
an id no record has. Every writer that settles ends in `Settled`, about which one lemma says what it returns (`SettlingStep`); the
others are shown to mark, through their triggers, all they disturb (`QuietStep`). That an accepted confirmation is in force uses the
guard `~ DependsOn`: what the notes reach is closed under support and does not contain the object. That unrelated ones stay is the same
argument turned around: what a step does not disturb, closed under support, is still self-supporting after it.

The same module, about `ChangeReview` (`BaselineIsRetained`, `CompletedWorkspaceIsResolved`, `DecisionsAreAsShown`, `CompletionsAreEarned`,
`RestoresOnce`, `ReviewKeepsKnowledge`, `ReviewRevivesNothing`). `ReviewInv` adds to `IInv` that snapshot ids are unique and a baseline
names a stored one, that every event is a decision its item offered, and that a client's page shows the items of an earlier state
whose snapshots are still the same. Then equal revisions mean equal items, which is what `DecidedAsShown` is about. A completed round
has no unresolved item; an item without a deferral is resolved by a legitimate decision only, and so has no missing
coverage, no unconfirmed statement and no unusable relationship in use. In the part of the
run that checks `RestoredOnce` the review is not deleted; the theorem has no such restriction.

**`RelationshipBatchesProofs`** (`BatchTypeCorrect`, `UndoIsExact`, `LinkingIsUnique`). Undo compares values and versions; the
property speaks of who wrote last. `Ownership` joins them: a row was last written by a stored batch exactly if its version is
the recorded one, and then it has the recorded value. Links of one batch are of different fields because `Confirmable` compares
each candidate with every entry, and agree with others because the checks run again in the transaction that writes.

**`WorkspaceProofs`** (`ShownStatementsBelong`, `AnswersAlwaysConverge`). Two numbers order the answers. A session stands for one
snapshot object on the page: what carries the present session carries its source. A request stands for one reading: the last one
misses no write the page was told of, so when nothing is under way the notes shown are those of the store (`Fresh`).

**`TableAssistantProofs`** (`TypesOfAssistant`, `NoneIsEverForgotten`, `AnswersAreAwaited`). The desktop numbers the requests it prepares, keeps a
request that was started only while it runs, and tries it no more often than it may (`TasksInv`, about `AiTasks`, so that the other
assistant may use it). The epoch of the panel orders its calls: at most one call of the present epoch is under way, and while it
is the panel waits for it (`PanelInv`); what an older call brings is cancelled or dropped.

**`PagesProofs`**, about the parts of `Pages`, each with an invariant of its own:

- The query workspace (`QueryAnswersAreInOrder`, `QueryDraftsSurvive`). A query is current while its answer would be shown: sent, not answered, not given
  up by a change of source or page. There is at most one (`QueryAwaited`): the page is mounted and waits for it, it is of the source in the
  workspace, and nothing was started since. The device has the draft unless a restart is blocked.
- The query assistant (`ConverseCorrect`), on an invariant of the desktop's requests: only the call of the present generation counts, the turn it
  was made for is the last one, and the request it carries is the one in force.
- The review page (`DeskCorrect`). A reading or decision that still counts was begun after whatever outdated its predecessors, so what is decided is of
  the page shown and of its revision, and no late answer takes back the page, a draft or a selection. A decision is carried out once however often it
  is sent, since the backend carries out what is of the revision in force and was not carried out before (`DeskUnderWay`). That the draft of a restored item goes
  with the restoring and no other draft does, needs the archive that the page looks up: it is of the history the dialog was opened on, as
  nothing turns the page while the dialog is open and its revision shown (`DeskRestoring`).
- Places, inspector and tree (`PlacesCorrect`, `BesideCorrect`, `TreeCorrect`, together `PageCorrect`): what each points at belongs to the snapshot shown.

**`DomainsProofs`**, about the business domains of `Pages` (`DomainsTypeCorrect`, `DomainsCorrect`). The stored domains are compared with lists that
were read earlier, patched from answers in any order and put back by the panel. A reading counts when it is the last of the session; what it
has found is stored, but for the writes that are answered after it, and each of those carries what it wrote. The lists of the page are
stored in the same sense, so that they are the stored ones when no call is under way. Two facts make this inductive: a domain has at most one addition under way
(`pendingDomainUpdates`), and no identifier of a view is given twice, so that no two calls have created the same view. The numbers of the writes
(`stamp`, `newest`) say when an answer overtook a reading or another answer; from there until the next reading that has seen every answered write the
invariant says nothing of the lists, and an addition made then is the only step that may lose a member (`KeepsMembers`). That such an addition does lose one is what the run
`DomainLoss` shows; the theorem is its complement, that nothing else in the page or the store takes a member out.

**`ShellProofs`**, about the parts of `Shell`:

- The updates (`UpgradeInvariance`, `UpgradeAgreement`, `UpdatesAreSafe`, `TheGateHolds`, `UpgradeClosedGateIsIdle`). While an installation is
  in flight the bridge is closed, no other command is under way and nothing is unsaved (`UpgradeClosed`); each stage has secured the
  backup and the application it needs (`UpgradeSecured`); a late reading of the status never names a package the handlers did not verify
  (`UpgradeReadsOK`, `UpgradePackageOK`). `TheGateHolds` maps every step to a step of `UpdateGate` or to none. With one feed exactly the
  version of the dialog is installed; with two the page may name the other feed, and `UpgradeAgreement` says what remains true: never another version.
- The connections (`ConnectInductive`, `ConnectionsAreVerified`). The details seen to work under an id only become more, and whatever can be saved
  without a test is among them: the list, a late answer, the form as it was opened, the operation under way. With the stronger statement
  that the details saved are the ones tested last the proof fails: a list read before an edit and delivered after it lets a rename
  save the earlier details (`ListAskedAgain`; the divergence is noted below).
- The settings and the viewer (`SettingsTypeCorrect`, `ViewerTypeCorrect`, `DraftIsKept`). A call that writes a source's settings has some, one that is
  delivered has an answer, and an open draft is marked as moved whenever what it was made from differs from what is saved or it is due to follow (`SettingsFollows`). The
  viewer: a tab that still has the older key to remove has stored the settings as a whole under the new one (`ViewerErases`), so that
  removing it changes nothing that is read; and a tab that shows a snapshot keeps the shared model it is of.

Two properties held only within the bounds of their runs, which the proofs showed, and were corrected. A saved configuration may change and change back, and the
draft follows although it equals what it was made from: `DraftKept` now speaks of a change at any time since (`moved`). And a reset
of the viewer's settings may repeat the last one word for word: `SettingsAreKept` names it.

**`CanvasProofs`**, about `Diagram` and the parts of `Canvas`:

- The editing of relationships and the review of suggestions (`RelateReviewed`, `SuggestReviewed`, together `EditsReviewed`). What an editor knows
  was asked in the source on the canvas, whatever answers arrived since (`RelateEditorOK`), and a deletion under way names a relationship of that source or one
  that is gone (`RelateDoomedOK`). Whoever ticked a group saw the members it has, and an attempt that may be sent again is of what is included now and of the
  revision shown (`SuggestPanelOK`): a change of either drops the attempt or its tick.
- The exported files (`FilesAreWhole`). What an export on the surface has still to read and what it has read are disjoint and together all it asked for
  (`FilesReadOK`), whatever another export puts on the same surface; an export that is current is of the scope on the page, since every other
  scope is a new generation (`FilesFits`); and a surface that is not empty has an export that will clear it (`FilesDrawnOK`). The lemmas beneath say
  that `SetToSeq` lists a finite set once (`FilesListOf`), that joining two lists apart keeps both (`FilesJoined`), and that as many different elements
  of a set as it has are all of it (`FilesFullList`): the count at the end of an export is enough.
- The canvas with its layouts (`TypesOfDiagram`, `EditsAreAlwaysSaved`, `ArrangementAlwaysStays`). The frames of the history form a chain
  that ends in the frame on the canvas, and each edit is the difference of two of them (`Chain`, `Gesturing`); what the worker was asked for begins
  with that frame (`Asked`); the frame on the canvas of a permanent view is the one kept for it, and the last write queued for
  a view is the frame kept for it (`Kept`, `Queued`), so the device has it once the queue is empty, or that write failed.

The proof of `DeletedWhereAsked` corrected the model: a new relationship took the smallest number free, so that beyond the bounds of the run a
deletion could meet another relationship under the number of the one it was asked for. The code draws identifiers that are never given twice, and now the model does
(`made`).

### Assumptions

They are the named `ASSUME`s of the modules, evaluated by TLC in a run that extends the module. Most say that "nothing" is
none of the values it stands beside (`NoneAssumption`, `ReviewNoneAssumption`, `DistinctAssumption`, `NothingIsApart`, `NothingIsNoRecord`,
`NoneIsNoLayout`, `NoneIsNoRequest`), or that functions have their domains and limits are numbers (`StructureAssumption`, `ValueAssumption`,
`CandidateAssumption`, `LimitsAreNumbers`, `SortsAreChosen`). The others: a backup has rows of the right shape (`BundleAssumption`, `BackupAssumption`, `ValueAssumption`), "Disabled" is a
status (`StatusAssumption`), an undo step is kept at all (`SomethingIsUndone`; 50 in the code), and there is a setting to choose (`SettingsExist`).
`PartsAreSuited`, `ShellIsSuited` and `CanvasIsSuited` say the same of the parts: limits are numbers, "nothing" is apart, there is a feed, defaults are among the values, what
the storage of a browser holds can be read, and a model and what is stated about it are finite. `UpdatesAreSafe` has one hypothesis more: there is one feed.

### What is only model-checked

- `PagesSettle`: liveness under fairness is out of the prover's reach, and so is `ENABLED`.
- `GraphIsWhole`, `StructureIsTold`: the reach of a view and the shortest path are recursive functions, the parser a fold over statements; what
  they compute for every input needs induction with an operator as a parameter, which the provers cannot instantiate. TLC
  compares them with reference definitions over all inputs of a small size, and the notes of the preflight in the same way.
- `RoundIsEarned` and `PartsTypeOK` over the three parts of `MCReview`, and the properties of the composites that join several
  modules: the theorems state their conjuncts for each module alone.

## Where the code and what is said of it differ

The six runs above are the ones a property states. Others were met while modelling, are part of the models, and are stated by no property:

- The answer to a save of a source's settings is shown for the source switched to meanwhile (`App.tsx:690`).
- Returning from a history preview restores the view of before it, whatever was saved since (`App.tsx:849`, `docs/DIAGRAM_LAYOUT.md:44`).
- A list patched from the answer to a write may be older than one read meanwhile (`App.tsx:142`).
- A test result stays beside a form that a file chooser changed when the result of a test then running arrives (`ConnectionPanel.tsx`, `Outcome`).
- A list read before an edit and delivered after it fills the form with the earlier details, and a change of name then saves them back untested (`ConnectionPanel.tsx:107-118`, `lib.rs` `save_data_source`).
- The result of a query whose source was changed while the page was not mounted is shown (`QueryPage.tsx`; `en.ts:2125`).
- A query cancelled before the desktop registered it runs on (`lib.rs:1448`).
- A first layout that arrives after the view was left is dropped, and a failed save of such a view is not told (`SchemaCanvas.tsx:700-733`, `793-796`; `docs/DIAGRAM_LAYOUT.md:7,23,39`).
- A first layout the user repeats replaces edits made since, and pins and undo steps refer to what it replaced (`SchemaCanvas.tsx:749-757`, `898-900`; `docs/DIAGRAM_LAYOUT.md:17,52`): the exception `replaced` in `ArrangementStays`.
- The edge of a key is drawn to a field or table whether or not it was captured, so that it may end at no node or handle (`schema-graph.ts:272-281`); the
  discovery of the business names such keys as gaps (`business-discovery.ts:76`).
- The edges of an inactive relationship have no handle of a field (`schema-graph.ts:212`, `380`).
- A diagram that grows to 100 tables between the click on an export and the reading of the page is exported as far as it is visible (`SchemaCanvas.tsx`, `culled` in `Delivery`; `docs/IMPLEMENTATION_STATUS.md:72`).
- Escape during a reading of a SQL file leaves its session without a window (`docs/DDL_WORKSPACE_ACCEPTANCE.md:33`); the message that a file was loaded is never shown; a text of exactly the permitted number of statements is refused as too long.
- A reason written for one item of the review is carried to the next one selected.
- A table located from elsewhere widens the view, but the kept view is not forgotten: a later reading brings it back, and a jump that still waits for its
  table waits on (`App.tsx`; `docs/SCHEMA_PREFLIGHT.md:7`). Closing the preflight always leads to the exploring mode, not to the mode before it.
- A history preview stays one after its source was deleted, and a focus on a table survives a switch of the snapshot (`App.tsx`).
- A menu of the object tree that a refresh of the snapshot hides is not closed, and appears again with its object (`SchemaTree.tsx`).
- Each tab of the viewer saves all the settings it has read, so that one undoes what another saved since; a reset leaves the settings of the
  earlier version behind the new ones (`web-platform.ts:361-384`).

## What is not modelled

- Several sources in one database, in the modules of the store: every table is keyed by source, and no operation modelled touches two.
- Crashes inside a transaction: SQLite commits or rolls back. A restart loses drafts (`CancelDraft`) and running captures (`FailCapture`).
- Cloud synchronisation (no page uses it yet), the git workspace, purchases, the one-time migration of snapshot history, the adapters, extensions, the keychain, rendering, menus and messages, search, pages and cursors of the review.
- Contents: digests, wording, risk grades, the grammar of SQL inside a statement, what a request or an answer of a model says, pixels and routes of edges, the read-only guard and the limits of the query engine.
- No property says that two writers of the settings keep each other's fields: the settings are one object, each writer saves all of it as it knew it, and the last one prevails.
- Of the pages: several windows (other windows are steps of "another writer" where the store is concerned); a fallback of the layout cache to local storage; a pointer held while the view is changed by keyboard.
- Of the updates: a command reaches its handler before the user acts again; one call per command is under way; readings of the status do not fail; the startup check runs at the start and when settings change; the channel is changed under the operation lock, so that only the custom feed can change beside a late reading.

## Plan

1. Done: the store, the pages, their runs, the refinement, and the proofs above.
2. Left to model: the synchronisation once a page uses it, the merge of the git workspace.

------------------------------- MODULE Canvas -------------------------------
(***************************************************************************)
(* The parts of the diagram page beside the canvas itself: the editing of  *)
(* relationships, the review of suggested ones and what leaves the page as *)
(* a file.  Each has variables of its own, and what it promises is named   *)
(* here for any sources, tables, models and limits.  The module gives the  *)
(* parts their names; it adds no steps.                                    *)
(***************************************************************************)
EXTENDS Naturals, Sequences, FiniteSets

CONSTANTS Missing,  \* what the parts call None
  RelateSource, RelateField, RelateMaxRels, RelateMaxForms, RelateMaxCalls, RelateMaxMoves,
  RelateMaxEdits,
  SuggestCandidate, SuggestTwins, SuggestMaxBatches, SuggestMaxSteps, SuggestMaxOthers,
  FilesTable, FilesRel, FilesModel, FilesEnds, FilesStateable, FilesHas, FilesFound, FilesFocus,
  FilesDenseAt, FilesEdgeBatch, FilesTableBatch, FilesViewerTables, FilesViewerRels,
  FilesMaxJobs, FilesMaxMoves

VARIABLES
  rShown, rServer, rCanvas, rDraft, rManager, rDoomed, rCalls, rSpent,
  qServer, qKnown, qTab, qQueue, qPanel, qForm, qSent, qIds, qSpent,
  fScope, fGens, fLinks, fReady, fRendering, fSurface, fJobs, fSent, fMoves

-----------------------------------------------------------------------------
Relate == INSTANCE RelationshipEditing WITH
  Source <- RelateSource, Field <- RelateField, None <- Missing, MaxRels <- RelateMaxRels,
  MaxForms <- RelateMaxForms, MaxCalls <- RelateMaxCalls, MaxMoves <- RelateMaxMoves,
  MaxEdits <- RelateMaxEdits,
  shown <- rShown, server <- rServer, canvas <- rCanvas, draft <- rDraft,
  manager <- rManager, doomed <- rDoomed, calls <- rCalls, spent <- rSpent

Suggest == INSTANCE ReviewQueue WITH
  Candidate <- SuggestCandidate, Twins <- SuggestTwins, None <- Missing,
  MaxBatches <- SuggestMaxBatches, MaxSteps <- SuggestMaxSteps, MaxOthers <- SuggestMaxOthers,
  server <- qServer, known <- qKnown, tab <- qTab, queue <- qQueue, panel <- qPanel,
  form <- qForm, sent <- qSent, ids <- qIds, spent <- qSpent

Files == INSTANCE Delivery WITH
  Table <- FilesTable, Rel <- FilesRel, Model <- FilesModel, None <- Missing,
  Ends <- FilesEnds, Stateable <- FilesStateable, Has <- FilesHas, Found <- FilesFound,
  Focus <- FilesFocus, DenseAt <- FilesDenseAt, EdgeBatch <- FilesEdgeBatch,
  TableBatch <- FilesTableBatch, ViewerTables <- FilesViewerTables,
  ViewerRels <- FilesViewerRels, MaxJobs <- FilesMaxJobs, MaxMoves <- FilesMaxMoves,
  scope <- fScope, gens <- fGens, links <- fLinks, ready <- fReady, rendering <- fRendering,
  surface <- fSurface, jobs <- fJobs, sent <- fSent, moves <- fMoves

-----------------------------------------------------------------------------
(* What the parts are given: there is room for one relationship, twins are *)
(* candidates, a model and what is stated about it are finite, and Missing *)
(* is none of the things that may be there instead.                        *)

RelateFieldOrNone == RelateField \cup {Missing}
RelateMapOrNone == Relate!Mapping \cup {Missing}
RelateRelOrNone == Relate!Rel \cup {Missing}
RelateStoredRows == [source : RelateSource, map : Relate!Mapping, on : BOOLEAN]
RelateActions == [to : {"edit", "select", "close"}, rel : RelateRelOrNone]
RelateDeletions == [rel : Relate!Rel, source : RelateSource, snap : 0..RelateMaxMoves, busy : BOOLEAN]
RelateSuitable ==
  /\ RelateMaxRels \in Nat \ {0} /\ RelateMaxForms \in Nat /\ RelateMaxMoves \in Nat
  /\ Missing \notin Nat /\ Missing \notin RelateField /\ Missing \notin Relate!Mapping
  /\ Missing \notin RelateStoredRows /\ Missing \notin Relate!FormType
  /\ Missing \notin RelateDeletions /\ Missing \notin RelateActions

SuggestSome == SUBSET SuggestCandidate
SuggestRevisions == [ignored : SuggestSome, links : SuggestSome]
SuggestDeeds == {"ignore", "restore", "confirm"}
SuggestNumbers == 0..SuggestMaxBatches
SuggestBatches == [id : SuggestNumbers, action : SuggestDeeds, keys : SuggestSome,
                   revision : SuggestRevisions, approved : SuggestSome]
SuggestRecords == [request : SuggestBatches, undone : BOOLEAN]
SuggestPreviews == [revision : SuggestRevisions, blocked : SuggestSome]
SuggestPanels ==
  [request : SuggestSome, preview : SuggestPreviews \cup {Missing}, included : SuggestSome,
   reviewed : SUBSET SuggestSome, seen : SUBSET SuggestSome, attempt : SuggestBatches \cup {Missing}, saving : BOOLEAN]
SuggestOneKinds == {"ignore", "restore", "save"}
SuggestAts == {"sent", "done", "lost", "refused", "failed"}
SuggestCalls ==
  [kind : {"quick", "confirm"}, batch : SuggestBatches, at : SuggestAts]
  \cup [kind : {"undo"}, batch : Suggest!Id, at : SuggestAts]
  \cup [kind : SuggestOneKinds, batch : SuggestCandidate, at : SuggestAts]
SuggestSuitable ==
  /\ SuggestTwins \subseteq SuggestCandidate /\ SuggestMaxBatches \in Nat
  /\ Missing \notin Nat /\ Missing \notin SuggestBatches /\ Missing \notin SuggestRecords
  /\ Missing \notin SuggestPreviews /\ Missing \notin SuggestPanels /\ Missing \notin SuggestCalls

FilesScopes == [model : FilesModel, focus : BOOLEAN, query : BOOLEAN, mount : Nat]
FilesDrawings == [tables : SUBSET FilesTable, rels : SUBSET FilesRel]
FilesKinds == {"diagram"} \cup Files!Report
FilesJobSet ==
  [kind : FilesKinds, gen : Nat, scope : FilesScopes, phase : Files!Phases, asked : FilesDrawings,
   dense : BOOLEAN, todo : FilesDrawings, tables : Seq(FilesTable), rels : Seq(FilesRel), culled : BOOLEAN]
FilesSuitable ==
  /\ \A m \in FilesModel : FilesHas[m] \in SUBSET FilesTable /\ IsFiniteSet(FilesHas[m])
  /\ \A S \in FilesStateable : S \in SUBSET FilesRel /\ IsFiniteSet(S)
  /\ Missing \notin FilesJobSet
  /\ FilesViewerTables \in Nat /\ FilesViewerRels \in Nat

ASSUME CanvasIsSuited == RelateSuitable /\ SuggestSuitable /\ FilesSuitable

-----------------------------------------------------------------------------
(* What the parts promise                                                  *)

\* RelationshipEditing and ReviewQueue: what is sent was validated in this source, what is deleted
\* was asked for in its own, what was edited while a save was under way is not dropped, and a batch
\* asks for what was reviewed.
EditsAreReviewed ==
  /\ Relate!SentAsReviewed /\ Relate!DeletedWhereAsked /\ Relate!EditsAreKept
  /\ Suggest!ApprovedIsReviewed

\* Delivery: a file holds all of what it is about, once, and is of the scope on the page; and an
\* export leaves the hidden surface empty and the canvas open to input.
DeliveredIsWhole == Files!DeliveredIsWhole /\ Files!CanvasIsGivenBack
=============================================================================

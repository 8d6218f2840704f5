------------------------------ MODULE MCReview ------------------------------
(* Three sorts of behaviours of ChangeReview: a client that follows the       *)
(* reviews of changing structures, one that keeps pages that went out of date *)
(* and submits them, and one that archives and restores the text of an object *)
(* whose table comes and goes with the evidence.                              *)
EXTENDS MCChangeReview

VARIABLE part

Stale == INSTANCE ChangeReview WITH
  Catalog <- MCOneCatalog, Group <- {},
  KeepsStale <- TRUE, MaxEvents <- 2

Texts == INSTANCE ChangeReview WITH
  Catalog <- MCOneCatalog, Object <- {o1}, Owner <- MCOwner, Exposing <- MCExposing,
  Relation <- {}, Ends <- MCNone, Joins <- MCNone, Group <- {}, RelationshipStatus <- {"Disabled"},
  Id <- {1}, MaxClock <- 4, MaxEvents <- 4

\* The one object of the third part is described, and its review started, from the start;
\* the review is not deleted there.
TextsInit ==
  /\ store = [snapshots     |-> {[id |-> 1, structure |-> t1 :> d1 @@ t2 :> d1]},
              baseline      |-> {1},
              identity      |-> i1,
              relations     |-> <<>>,
              annotations   |-> o1 :> [text |-> x1, at |-> 1],
              confirmations |-> o1 :> None,
              clock         |-> 1]
  /\ drafts = <<None>>
  /\ used = {}
  /\ review = Recorded(Rebased(store, [NoReview EXCEPT !.receipt = Receipt(store)]),
                       "start", {}, None, NoText)
  /\ capturing = None
  /\ screen = None

PartsInit ==
  \/ part \in {"follows", "keeps"} /\ MCInit
  \/ part = "texts" /\ TextsInit

PartsNext ==
  \/ part = "follows" /\ ReviewNext /\ UNCHANGED part
  \/ part = "keeps" /\ Stale!ReviewNext /\ UNCHANGED part
  \/ part = "texts" /\ Texts!ReviewNext /\ HasBaseline(review') /\ UNCHANGED part

PartsSpec == PartsInit /\ [][PartsNext]_<<reviewVars, part>>

\* The rows of the first two parts keep their types.
PartsTypeOK == part # "texts" => ReviewTypeOK

\* A round is completed on the evidence of its scope, with every statement confirmed.
RoundIsEarned ==
  [][IF part = "texts" THEN Texts!CompletionIsEarnedStep ELSE CompletionIsEarnedStep]_reviewVars
=============================================================================

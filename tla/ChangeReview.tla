----------------------------- MODULE ChangeReview -----------------------------
(***************************************************************************)
(* The device-local change review of one data source:                      *)
(* crates/snapshot-store/src/change_review.rs, on top of Knowledge, whose  *)
(* operations go on around it, and the two-step capture of                 *)
(* apps/desktop/src-tauri/src/lib.rs that feeds it.                        *)
(*                                                                         *)
(* A review compares the latest snapshot with a baseline snapshot and with *)
(* the knowledge of the source, and lists what changed as items.  A round  *)
(* is complete once every item is resolved; the latest snapshot becomes    *)
(* the new baseline.                                                       *)
(***************************************************************************)
EXTENDS Knowledge, Sequences

CONSTANTS
  Joins,      \* the definitions of the tables of a relationship that have its columns
  Scope,      \* the schemas and database name a structure was observed in
  Group,      \* ids of domain groups and saved views, which are reviewed alike
  KeepsStale, \* whether the client keeps a page that went out of date
  MaxEvents   \* bound on the number of decisions

ASSUME ReviewAssumption ==
  /\ Joins \in [Relation -> SUBSET (Table \X Definition)]
  /\ DOMAIN Scope = Catalog
  /\ KeepsStale \in BOOLEAN
ASSUME StatusAssumption == "Disabled" \in RelationshipStatus
ASSUME ReviewNoneAssumption ==
  None \notin [snapshot : Nat, identity : Identity, round : Nat, completed : BOOLEAN]

VARIABLES
  review,     \* the tables change_review_* and the groups
  capturing,  \* the identity with which a running capture reads the database
  screen      \* the last workspace the client was sent

reviewVars == <<store, drafts, used, review, capturing, screen>>

ItemAction  == {"seen", "defer", "acceptLimitation", "confirm", "archive", "disable"}

\* rounds counts the round ids that recorded events name (Uuid::new_v4).
NoReview ==
  [baseline |-> None, rounds |-> 0, events |-> <<>>, receipt |-> None,
   groups |-> [g \in Group |-> None]]

-----------------------------------------------------------------------------
(* The items of a review.                                                  *)

HasBaseline(rv) == rv.baseline # None

\* The baseline snapshot, if it is still stored.
Before(s, rv) ==
  {x \in s.snapshots : HasBaseline(rv) /\ x.id = rv.baseline.snapshot}

Item(kind, key, subject, reason, evidence, actions) ==
  [kind |-> kind, key |-> <<kind, key>>, subject |-> subject,
   evidence |-> <<reason, evidence>>, actions |-> actions]

CoverageItems(s, rv) ==
  {Item("coverage", "captureFailed", None, "captureFailed", None, {"defer"}) :
     x \in {y \in {rv.receipt} : y # None /\ y.status = "failed"}}
  \cup {Item("coverage", "scope", None, "scopeChanged",
             <<Scope[x.structure], Scope[Latest(s).structure]>>, {"defer"}) :
          x \in {y \in Before(s, rv) : Scope[y.structure] # Scope[Latest(s).structure]}}
  \cup (IF HasBaseline(rv) /\ Before(s, rv) = {}
          THEN {Item("coverage", "scope", None, "baselineMissing", None, {"defer"})}
          ELSE {})

\* schema_diff: an operation for every table that differs.
StructureItems(s, rv) ==
  UNION {{Item("structure", <<t, x.structure[t], Latest(s).structure[t]>>, t, "changed",
               None, {"seen", "defer"}) :
            t \in {u \in Table : x.structure[u] # Latest(s).structure[u]}} :
         x \in Before(s, rv)}

\* The tables a statement rests on: those of its record, or the owning one.
SupportingTables(s, o) ==
  IF s.confirmations[o] # None
    THEN {p[1] : p \in s.confirmations[o].basis.tables}
    ELSE IF Available(s, o) THEN {Owner[o]} ELSE {}

AnnotationEvidence(s, o) ==
  [text      |-> s.annotations[o].text,
   record    |-> s.confirmations[o],
   tables    |-> {<<t, Latest(s).structure[t]>> : t \in SupportingTables(s, o)},
   relations |-> {<<r, s.relations[r]>> : r \in {q \in Relation : o \in Relying(s, q)}},
   notes     |-> {<<p, Status(s, p), s.confirmations[p]>> : p \in Supports(s, o)}]

AnnotationItems(s) ==
  {Item("annotation", o, o, Status(s, o), AnnotationEvidence(s, o),
        IF Available(s, o) THEN {"confirm", "defer", "archive"}
                           ELSE {"defer", "archive"}) :
     o \in {p \in Object : /\ s.annotations[p] # None
                           /\ s.annotations[p].text # NoText
                           /\ Status(s, p) # "Confirmed"}}

EndpointsMissing(s, r) ==
  \E t \in Ends[r] : <<t, Latest(s).structure[t]>> \notin Joins[r]

Unusable(s, r) ==
  EndpointsMissing(s, r) \/ s.relations[r].status \in {"Orphaned", "Conflicted"}

NeedsReview(s, rv, r) ==
  /\ s.relations[r] # None
  /\ s.relations[r].status # "Disabled"
  /\ \/ EndpointsMissing(s, r)
     \/ \E x \in Before(s, rv), t \in Ends[r] :
          x.structure[t] # Latest(s).structure[t]
     \/ s.relations[r].status # "Active"

RelationshipItemsSeen(s, rv) ==  \* mutant
  {Item("relationship", r, r, Unusable(s, r),
        <<s.relations[r], {<<t, Latest(s).structure[t]>> : t \in Ends[r]}>>,
        {"seen", "disable", "defer"}) :
     r \in {q \in Relation : NeedsReview(s, rv, q)}}
RelationshipItems(s, rv) ==
  {Item("relationship", r, r, Unusable(s, r),
        <<s.relations[r], {<<t, Latest(s).structure[t]>> : t \in Ends[r]}>>,
        IF Unusable(s, r) THEN {"disable", "defer"} ELSE {"seen", "disable", "defer"}) :
     r \in {q \in Relation : NeedsReview(s, rv, q)}}

\* known_object_keys: the tables of a group that are no longer observed.
Missing(s, rv, g) ==
  IF rv.groups[g] = None THEN {}
  ELSE {t \in rv.groups[g].tables : Latest(s).structure[t] = Absent}

GroupItems(s, rv) ==
  {Item("group", g, g, "missingReferences", <<rv.groups[g], Missing(s, rv, g)>>,
        {"acceptLimitation", "defer"}) :
     g \in {h \in Group : Missing(s, rv, h) # {}}}

\* The evidence of an item is digested together with the identity.
Items(s, rv) ==
  {[i EXCEPT !.evidence = <<s.identity, @>>] :
     i \in CoverageItems(s, rv) \cup StructureItems(s, rv) \cup AnnotationItems(s)
           \cup RelationshipItems(s, rv) \cup GroupItems(s, rv)}

-----------------------------------------------------------------------------
(* The workspace: items with their status, and the revision of the evidence. *)

Round(rv) == IF HasBaseline(rv) THEN rv.baseline.round ELSE 0

\* Whether a recorded decision settles an item: same key and evidence, and the
\* same round unless a limitation was accepted; a statement can only be deferred.
Decides(rv, e, i) ==
  /\ e.action \in {"seen", "seenBatch", "defer", "acceptLimitation"}
  /\ e.round = Round(rv) \/ e.action = "acceptLimitation"
  /\ <<i.key, i.evidence>> \in e.items
  /\ i.kind = "annotation" => e.action = "defer"

ItemStatusDecided(rv, i) ==  \* mutant
  IF \E n \in DOMAIN rv.events : Decides(rv, rv.events[n], i) THEN "resolved" ELSE "open"
ItemStatus(rv, i) ==
  LET deciding == {n \in DOMAIN rv.events : Decides(rv, rv.events[n], i)}
      last == CHOOSE n \in deciding : \A m \in deciding : m <= n
  IN  IF deciding = {} THEN "open"
      ELSE IF rv.events[last].action = "defer" THEN "deferred" ELSE "resolved"

Unresolved(rv, items) == {i \in items : ItemStatus(rv, i) # "resolved"}

NewRound(rv) ==
  [rv EXCEPT !.rounds = @ + 1, !.baseline.round = rv.rounds + 1,
             !.baseline.completed = FALSE]

Completed(rv) == HasBaseline(rv) /\ rv.baseline.completed

\* A completed review is reopened when a new structure was captured, before the
\* statuses are computed, and when an item needs work, after.
ReopenedByCapture(s, rv) ==
  IF Completed(rv) /\ Latest(s).id # rv.baseline.snapshot THEN NewRound(rv) ELSE rv
NeverReopened(rv, items) == rv  \* mutant
ReopenedByItems(rv, items) ==
  IF Completed(rv) /\ Unresolved(rv, items) # {} THEN NewRound(rv) ELSE rv

\* Pruning keeps the snapshot the baseline names.
Pinned(s, rv) ==
  [s EXCEPT !.baseline = IF HasBaseline(rv) THEN {rv.baseline.snapshot} ELSE {}]

\* What the revision digests.
RevisionWithoutRelations(s, rv) ==  \* mutant
  <<Latest(s).id, s.identity, s.annotations, s.confirmations, Confirmed(s),
    rv.baseline, rv.events, rv.receipt, rv.groups>>
Revision(s, rv) ==
  <<Latest(s).id, s.identity, s.annotations, s.confirmations, Confirmed(s),
    s.relations, rv.baseline, rv.events, rv.receipt, rv.groups>>

\* change_review: the confirmations are settled, a completed review is reopened by
\* a capture, the items are listed, and it is reopened by those that need work.
Projection(s, rv, items, open) ==
  [store     |-> Pinned(s, rv),
   review    |-> rv,
   revision  |-> Revision(s, rv),
   items     |-> items,
   open      |-> open,
   completed |-> Completed(rv),
   moved     |-> HasBaseline(rv) /\ rv.baseline.identity # s.identity]
Listed(s, rv, items) ==
  Projection(s, ReopenedByItems(rv, items), items, Unresolved(rv, items))
ReviewOf(s, rv) == Listed(s, ReopenedByCapture(s, rv), Items(s, rv))
Workspace(s, rv) == ReviewOf(Settled(s), rv)

\* What the client keeps of a workspace.
Sent(w) ==
  [revision |-> w.revision, items |-> w.items, open |-> w.open,
   completed |-> w.completed]

Respond(s, rv) ==
  \E w \in {Workspace(s, rv)} :
    /\ store' = w.store
    /\ review' = w.review
    /\ screen' = Sent(w)

\* While others write, the client keeps its page; one that no longer shows the
\* current revision only serves for requests that are refused, and a client may
\* also drop it.
PageKept ==
  screen' = IF KeepsStale \/ screen = None THEN screen
            ELSE IF /\ store'.snapshots # {}
                    /\ screen.revision = Workspace(store', review').revision
                 THEN screen ELSE None

-----------------------------------------------------------------------------
(* Captures.                                                               *)

Receipt(s) == [status |-> "success", snapshot |-> Latest(s).id, identity |-> s.identity]

\* receipt_in, within the transaction of save_capture.
Receive(i, c, keep) ==
  /\ SaveCapture(i, c, keep)
  /\ review' = [review EXCEPT !.receipt = Receipt(store')]
  /\ PageKept

\* capture_snapshot: the profile is read, then the database is inspected, under
\* the capture gate only.
BeginCapture ==
  /\ capturing = None
  /\ store.identity \notin {NoProfile, Unbound}
  /\ capturing' = store.identity
  /\ UNCHANGED <<store, drafts, used, review, screen>>

EndCapture(c, keep) ==
  /\ capturing # None
  /\ Receive(store.identity, c, keep)
  /\ capturing' = None

\* record_review_capture_failure: the capture failed, or was turned away because
\* another one was running.
FailCapture ==
  /\ review' = [review EXCEPT !.receipt = [status |-> "failed"]]
  /\ capturing' \in {capturing, None}
  /\ UNCHANGED <<store, drafts, used>>
  /\ PageKept

\* verify_and_refresh: the profile that was inspected is saved with the result.
VerifiedCapture(i, c, keep) ==
  /\ capturing = None
  /\ Receive(i, c, keep)
  /\ UNCHANGED capturing

-----------------------------------------------------------------------------
(* Requests.                                                               *)

\* change_review; an operation repeated with the same id answers the same way.
ReadReview ==
  /\ store.snapshots # {}
  /\ Respond(store, review)
  /\ UNCHANGED <<drafts, used, capturing>>

Event(rv, action, items, object, text) ==
  [round |-> Round(rv), action |-> action, object |-> object, text |-> text,
   items |-> {<<i.key, i.evidence>> : i \in items}]

Recorded(rv, action, items, object, text) ==
  [rv EXCEPT !.events = Append(@, Event(rv, action, items, object, text))]

\* apply_change_review, up to the action: the client decides on the evidence it
\* was shown.  w is the workspace as it is when the request is served.
PreparedAnyRevision(w) ==  \* mutant
  /\ screen # None
  /\ Len(review.events) < MaxEvents
  /\ store.clock < MaxClock
Prepared(w) ==
  /\ screen # None
  /\ Len(review.events) < MaxEvents
  /\ store.clock < MaxClock
  /\ screen.revision = w.revision

UnderReview(w) == Prepared(w) /\ HasBaseline(review) /\ ~ w.moved

\* The receipt, if there is one, reports a success for the current connection.
ReceiptAllowsStart(s, rv) ==
  rv.receipt # None => /\ rv.receipt.status # "failed"
                       /\ rv.receipt.identity = s.identity

RebasedInPlace(s, rv) ==  \* mutant
  [rv EXCEPT !.baseline = [snapshot |-> Latest(s).id, identity |-> s.identity,
                           round |-> rv.rounds, completed |-> FALSE]]
Rebased(s, rv) ==
  [rv EXCEPT !.rounds = @ + 1,
             !.baseline = [snapshot |-> Latest(s).id, identity |-> s.identity,
                           round |-> rv.rounds + 1, completed |-> FALSE]]

StartReview(w) ==
  /\ Prepared(w)
  /\ ~ HasBaseline(review)
  /\ ReceiptAllowsStart(store, review)
  /\ Respond(w.store,
             Recorded(Rebased(store, w.review), "start", {}, None, NoText))
  /\ UNCHANGED <<drafts, used, capturing>>

\* All confirmations lapse with the old comparison.
RestartReview(w) ==
  /\ Prepared(w)
  /\ ReceiptAllowsStart(store, review)
  /\ Respond(Mark(w.store, Object),
             Recorded(Rebased(store, w.review), "restart", {}, None, NoText))
  /\ UNCHANGED <<drafts, used, capturing>>

CompleteReview(w) ==
  /\ UnderReview(w)
  /\ w.open = {}
  /\ ~ w.completed
  /\ Respond(w.store,
             Recorded([w.review EXCEPT !.baseline.snapshot = Latest(store).id,
                                             !.baseline.completed = TRUE],
                      "complete", {}, None, NoText))
  /\ UNCHANGED <<drafts, used, capturing>>

\* seen, defer and acceptLimitation only record the decision.
Decide(w, i, action) ==
  /\ UnderReview(w)
  /\ action \in {"seen", "defer", "acceptLimitation"} \cap i.actions
  /\ Respond(w.store, Recorded(w.review, action, {i}, None, NoText))
  /\ UNCHANGED <<drafts, used, capturing>>

\* seenBatch: structure changes not yet resolved.
SeeBatch(w, batch) ==
  /\ UnderReview(w)
  /\ batch # {}
  /\ \A i \in batch : i.kind = "structure" /\ i \in w.open
  /\ Respond(w.store, Recorded(w.review, "seenBatch", batch, None, NoText))
  /\ UNCHANGED <<drafts, used, capturing>>

\* confirm: the dependencies of the previous record are all kept, and the
\* confirmation must pass confirm_in.
ReviewBasis(s, o) ==
  LET old  == s.confirmations[o]
      base == BasisFrom(s, SupportingTables(s, o), Supports(s, o))
  IN  [base EXCEPT !.relations =
         @ \cup (IF old = None THEN {}
                 ELSE {<<p[1], RelationshipDigest(s.relations[p[1]])>> :
                         p \in old.basis.relations})]

SupportIntact(s, o) ==
  /\ \A t \in SupportingTables(s, o) : Latest(s).structure[t] # Absent
  /\ s.confirmations[o] # None =>
       \A p \in s.confirmations[o].basis.relations :
         s.relations[p[1]] # None /\ s.relations[p[1]].status = "Active"
  /\ Supports(s, o) \subseteq Confirmed(s)

ConfirmItem(w, i, d, x) ==
  LET s == w.store
      o == i.subject
  IN  /\ UnderReview(w)
      /\ "confirm" \in i.actions
      /\ d \notin used
      /\ SupportIntact(s, o)
      /\ MayConfirm(s, o, s.annotations[o], ReviewBasis(s, o))
      /\ Respond(ConfirmedBy(s, o, d, x, ReviewBasis(s, o)),
                 Recorded(w.review, "confirm", {i}, o, NoText))
      /\ used' = used \cup {d}
      /\ UNCHANGED <<drafts, capturing>>

\* archive: the event keeps the text, the annotation loses it.
ArchiveItem(w, i) ==
  LET s == Tick(w.store)
      o == i.subject
  IN  /\ UnderReview(w)
      /\ "archive" \in i.actions
      /\ Respond(WriteAnnotation(s, o, [text |-> NoText, at |-> s.clock]),
                 Recorded(w.review, "archive", {i}, o, s.annotations[o].text))
      /\ UNCHANGED <<drafts, used, capturing>>

\* disable keeps updated_at.
DisableItem(w, i) ==
  LET s == w.store
      r == i.subject
  IN  /\ UnderReview(w)
      /\ "disable" \in i.actions
      /\ Respond(WriteRelation(s, r, [s.relations[r] EXCEPT !.status = "Disabled"]),
                 Recorded(w.review, "disable", {i}, None, NoText))
      /\ UNCHANGED <<drafts, used, capturing>>

\* The last thing that happened to the text of the object is this archive, and
\* nothing has been written there since.
RestorableOverText(s, rv, n) ==  \* mutant
  LET e == rv.events[n]
  IN  /\ e.action = "archive"
      /\ \A m \in DOMAIN rv.events :
           rv.events[m].object = e.object /\ m > n
             => rv.events[m].action \notin {"archive", "restore", "confirm"}
Restorable(s, rv, n) ==
  LET e == rv.events[n]
  IN  /\ e.action = "archive"
      /\ s.annotations[e.object] # None
      /\ s.annotations[e.object].text = NoText
      /\ \A m \in DOMAIN rv.events :
           rv.events[m].object = e.object /\ m > n
             => rv.events[m].action \notin {"archive", "restore", "confirm"}

Restored(s, e) ==
  Mark(WriteAnnotation(s, e.object, [text |-> e.text, at |-> s.clock]), {e.object})

RestoreItem(w, n) ==
  LET s  == Tick(w.store)
      rv == w.review
      e  == review.events[n]
  IN  /\ UnderReview(w)
      /\ Restorable(s, rv, n)
      /\ Respond(Restored(s, e),
                 Recorded(IF Completed(rv) THEN NewRound(rv) ELSE rv,
                          "restore", {}, e.object, e.text))
      /\ UNCHANGED <<drafts, used, capturing>>

\* save_domain_group and save_view; delete_view.
SaveGroup(g, tables) ==
  /\ store.clock < MaxClock
  /\ store' = Tick(store)
  /\ review' = [review EXCEPT !.groups[g] = [tables |-> tables, at |-> store'.clock]]
  /\ UNCHANGED <<drafts, used, capturing>>
  /\ PageKept

DeleteGroup(g) ==
  /\ review.groups[g] # None
  /\ review' = [review EXCEPT !.groups[g] = None]
  /\ UNCHANGED <<store, drafts, used, capturing>>
  /\ PageKept

\* delete_source_data, the review's part.
DeleteReview(history, semantics, connection) ==
  /\ DeleteSourceData(history, semantics, connection)
  /\ review' = [NoReview EXCEPT !.groups = IF semantics THEN @ ELSE review.groups]
  /\ UNCHANGED capturing
  /\ PageKept

-----------------------------------------------------------------------------
ReviewInit ==
  /\ Init
  /\ review = NoReview
  /\ capturing = None
  /\ screen = None

\* A request names items of the current workspace by their keys.
Request ==
  /\ store.snapshots # {}
  /\ \E w \in {Workspace(store, review)} :
       \/ StartReview(w)
       \/ RestartReview(w)
       \/ CompleteReview(w)
       \/ \E i \in w.items, a \in ItemAction : Decide(w, i, a)
       \/ \E batch \in SUBSET {i \in w.items : i.kind = "structure"} : SeeBatch(w, batch)
       \/ \E i \in w.items, d \in Id, x \in Text : ConfirmItem(w, i, d, x)
       \/ \E i \in w.items : ArchiveItem(w, i)
       \/ \E i \in w.items : DisableItem(w, i)
       \/ \E n \in DOMAIN review.events : RestoreItem(w, n)

Capture ==
  \/ BeginCapture
  \/ \E c \in Catalog, keep \in SUBSET {x.id : x \in store.snapshots} : EndCapture(c, keep)
  \/ FailCapture
  \/ \E i \in Identity \ {NoProfile}, c \in Catalog,
        keep \in SUBSET {x.id : x \in store.snapshots} : VerifiedCapture(i, c, keep)

ReviewNext ==
  \/ LocalStep /\ UNCHANGED <<review, capturing>> /\ PageKept
  \/ Capture
  \/ ReadReview
  \/ Request
  \/ \E g \in Group, tables \in SUBSET Table : SaveGroup(g, tables)
  \/ \E g \in Group : DeleteGroup(g)
  \/ \E h, sem, con \in BOOLEAN : DeleteReview(h, sem, con)

ReviewSpec == ReviewInit /\ [][ReviewNext]_reviewVars

-----------------------------------------------------------------------------
(* Properties.                                                             *)

\* The review's rows are well formed, and what pruning pins is the baseline.
ReviewTypeOK ==
  /\ TypeOK
  /\ HasBaseline(review) =>
       review.baseline \in [snapshot : Nat, identity : Identity,
                            round : 1 .. review.rounds, completed : BOOLEAN]
  /\ store = Pinned(store, review)
  /\ \A n \in DOMAIN review.events : review.events[n].round \in 1 .. review.rounds
  /\ review.receipt # None /\ review.receipt.status = "success" =>
       review.receipt \in [status : {"success"}, snapshot : Nat, identity : Identity]
  /\ capturing \in Identity \cup {None}

\* Retention never deletes the snapshot a review is compared with, however many
\* captures and prunings go by.
BaselineRetained == HasBaseline(review) => Before(store, review) # {}

\* A workspace is not sent as completed while an item in it is unresolved.
CompletedIsResolved == screen # None /\ screen.completed => screen.open = {}

\* What completing a round claims: the last capture succeeded in the scope of
\* the baseline, every statement is confirmed by the rules of Knowledge, and no
\* relationship in use is unusable; deferring does not get around it.
Completes == ~ Completed(review) /\ Completed(review')
CompletionIsEarnedStep ==
  Completes =>
    /\ review.receipt = None \/ review.receipt.status = "success"
    /\ \A x \in Before(store, review) : Scope[x.structure] = Scope[Latest(store).structure]
    /\ review'.baseline.snapshot = Latest(store').id
    /\ \A o \in Object :
         store'.annotations[o] # None /\ store'.annotations[o].text # NoText
           => o \in Confirmed(store)'
    /\ \A r \in Relation :
         store'.relations[r] # None /\ store'.relations[r].status # "Disabled"
           => ~ Unusable(store', r)
CompletionIsEarned == [][CompletionIsEarnedStep]_reviewVars

\* A decision is recorded for evidence the client was shown, whatever other
\* windows, imports and captures wrote in between.
DecidedAsShownStep ==
  Len(review'.events) > Len(review.events) =>
    review'.events[Len(review'.events)].items
      \subseteq {<<i.key, i.evidence>> : i \in screen.items}
DecidedAsShown == [][DecidedAsShownStep]_reviewVars

\* Restoring puts back the text that was archived last, where there is none, and
\* does so once; the text needs a new confirmation.
RestoredOnceStep ==
  LET n == Len(review'.events)
      e == review'.events[n]
  IN  n > Len(review.events) /\ e.action = "restore" =>
        /\ store.annotations[e.object].text = NoText
        /\ store'.annotations[e.object].text = e.text
        /\ e.object \notin Confirmed(store)'
        /\ \E m \in DOMAIN review.events :
             /\ review.events[m].action = "archive"
             /\ review.events[m].object = e.object
             /\ review.events[m].text = e.text
             /\ \A k \in DOMAIN review.events :
                  k > m /\ review.events[k].object = e.object
                    => review.events[k].action \notin {"archive", "restore"}
RestoredOnce == [][RestoredOnceStep]_reviewVars

-----------------------------------------------------------------------------
(* What the documents promise and the code does not keep.                  *)

\* docs/CHANGE_REVIEW_P0_CODE_REVIEW.md:9: a capture made with the old
\* connection is not bound to the current identity.
ReceiptNamesInspectedStep ==
  capturing # None /\ capturing' = None /\ review' # review
    /\ review'.receipt.status = "success"
      => review'.receipt.identity = capturing
ReceiptNamesInspected == [][ReceiptNamesInspectedStep]_reviewVars

\* docs/plans/CHANGE_REVIEW_WORKSPACE_P0.md:149: a baseline and a snapshot of
\* another connection are not merged.
BaselineOfItsConnectionStep ==
  Completes /\ review.receipt # None
    => review.receipt.identity = review'.baseline.identity
BaselineOfItsConnection == [][BaselineOfItsConnectionStep]_reviewVars

\* docs/CHANGE_REVIEW_P0_EXTENSION_ACCEPTANCE.md:11: pages of one revision are
\* pages of one projection.
RevisionFixesProjectionStep ==
  screen # None /\ screen' # None /\ screen'.revision = screen.revision
    => screen'.open = screen.open
RevisionFixesProjection == [][RevisionFixesProjectionStep]_reviewVars

=============================================================================

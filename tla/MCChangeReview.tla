---------------------------- MODULE MCChangeReview ----------------------------
(* Small instances of ChangeReview.  t1 is always observed; t2 and with it the *)
(* schema it alone makes up come and go.                                       *)
EXTENDS ChangeReview, TLC

CONSTANTS t1, t2, d1, d2, o1, r1, g1, m1, x1, i1, i2

MCCatalog == {(t1 :> d1 @@ t2 :> d1), (t1 :> d2 @@ t2 :> d1), (t1 :> d1 @@ t2 :> Absent)}
MCOneCatalog == {t1 :> d1 @@ t2 :> d1}
MCOwner    == o1 :> t1
MCExposing == o1 :> {d1, d2}
MCEnds     == r1 :> {t1, t2}
MCJoins    == r1 :> {<<t1, d1>>, <<t1, d2>>, <<t2, d1>>}
MCScope    == [c \in Catalog |-> {t \in Table : c[t] # Absent}]
MCNone     == <<>>

\* Start after the first capture, with a receipt for it and the objects described.
MCInit ==
  /\ store = [snapshots     |-> {[id |-> 1, structure |-> t1 :> d1 @@ t2 :> d1]},
              baseline      |-> {},
              identity      |-> i1,
              relations     |-> [r \in Relation |-> None],
              annotations   |-> [o \in Object |-> [text |-> x1, at |-> 1]],
              confirmations |-> [o \in Object |-> None],
              clock         |-> 1]
  /\ drafts = [d \in Id |-> None]
  /\ used = {}
  /\ review = [NoReview EXCEPT !.receipt =
                 [status |-> "success", snapshot |-> 1, identity |-> i1]]
  /\ capturing = None
  /\ screen = None
MCSpec == MCInit /\ [][ReviewNext]_reviewVars

=============================================================================

------------------------------- MODULE MCStore -------------------------------
(* Knowledge and RelationshipBatches on small instances: they keep different   *)
(* tables, and in a behaviour only the one that "part" names takes steps.      *)
(* Knowledge has two tables, one relationship between them, and an annotated   *)
(* object in each.  o1 is a table, which every definition exposes; o2 is a     *)
(* column that only definition d1 has.                                         *)
EXTENDS Knowledge, MCRelationshipBatches, TLC

VARIABLE part

CONSTANTS t1, t2, d1, d2, o1, o2, r1, m1, x1, x2, i1

MCCatalog ==
  {(t1 :> d1 @@ t2 :> d1), (t1 :> d2 @@ t2 :> d1), (t1 :> d1 @@ t2 :> Absent)}
MCOwner    == o1 :> t1 @@ o2 :> t2
MCExposing == o1 :> {d1, d2} @@ o2 :> {d1}
MCEnds     == r1 :> {t1, t2}

NoNotes == [o \in Object |-> None]
NoLinks == [r \in Relation |-> None]

\* Backups written earlier on this device or on another one: one brings back
\* the first version of a description, one an older structure and relationship.
MCBundle ==
  {[structure |-> None, profile |-> TRUE, relations |-> NoLinks,
    annotations |-> [NoNotes EXCEPT ![o1] = [text |-> x1, at |-> 1]]],
   [structure |-> (t1 :> d1 @@ t2 :> d1), profile |-> FALSE,
    annotations |-> NoNotes,
    relations |-> [NoLinks EXCEPT ![r1] =
                     [meaning |-> m1, status |-> "Active", at |-> 1]]]}

\* Start after the first capture: the states before it allow no confirmation.
MCInit ==
  /\ store = [snapshots     |-> {[id |-> 1, structure |-> t1 :> d1 @@ t2 :> d1]},
              baseline      |-> {},
              identity      |-> i1,
              relations     |-> NoLinks,
              annotations   |-> NoNotes,
              confirmations |-> NoNotes,
              clock         |-> 1]
  /\ drafts = [d \in Id |-> None]
  /\ used = {}

\* Draft ids are only ever compared: any permutation of them is a symmetry.
Fresh == Permutations(Id)

\* Two sorts of behaviours: short ones over every structure, relationship and backup, with two
\* drafts at first and one draft after the evidence was written again; longer ones over the
\* first snapshot, in which three drafts cite notes of one another.
Broad == Cardinality(used) + store.clock <= 4
Deep ==
  /\ store.snapshots = {[id |-> 1, structure |-> t1 :> d1 @@ t2 :> d1]}
  /\ store.relations = NoLinks /\ store.identity = i1
  /\ \A o \in Object : store.annotations[o] # None => store.annotations[o].at > 1

\* A write that the bound on the clock would never let end is not begun, nor overtaken by the last
\* tick: what else happens is the same without it.
MayEnd == model'.clock = MaxWrites => editing' = Nothing /\ UNCHANGED attempt

PartsInit == MCInit /\ MCBatchInit /\ part \in {"knowledge", "batches"}
PartsNext ==
  \/ /\ part = "knowledge" /\ Next /\ (Broad' \/ Deep')
     /\ UNCHANGED <<batchVars, part>>
  \/ /\ part = "batches" /\ BatchNext /\ MayEnd
     /\ UNCHANGED <<vars, part>>
PartsSpec == PartsInit /\ [][PartsNext]_<<vars, batchVars, part>>

\* Ids are only ever compared.
Alike == Fresh \cup FreshIds

=============================================================================

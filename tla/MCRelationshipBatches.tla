------------------------ MODULE MCRelationshipBatches ------------------------
(* Small instances of RelationshipBatches: two candidates compete for one     *)
(* field; in structure s2 the target of the first is gone.                    *)
EXTENDS RelationshipBatches, TLC

CONSTANTS c1, c2, k1, f1, l1, s1, s2, p1

MCFieldOf  == c1 :> f1 @@ c2 :> f1
MCRuleOf   == c1 :> k1 @@ c2 :> k1
MCFits     == s1 :> {c1, c2} @@ s2 :> {c2}
MCStatusIn == s1 :> (c1 :> "Active" @@ c2 :> "Active")
                @@ s2 :> (c1 :> "Orphaned" @@ c2 :> "Active")
MCBackup   == {l1 :> [key |-> c1, status |-> "Active", at |-> 1]}

\* Ids that occur in no backup are only compared.
FreshIds == Permutations(Batch) \cup Permutations(Link \ {l1})

\* Start after the first capture.
MCBatchInit ==
  /\ model = [snapshot |-> [id |-> 1, structure |-> s1], profile |-> p1,
              rows |-> [i \in Item |-> Nothing], versions |-> [i \in Item |-> 0],
              batches |-> [b \in Batch |-> Nothing], clock |-> 1]
  /\ issued = Link \cap UNION {DOMAIN rows : rows \in Backup}
  /\ attempt = Nothing /\ listing = {} /\ editing = Nothing
  /\ writer = [i \in Item |-> Other]
MCBatchSpec == MCBatchInit /\ [][BatchNext]_batchVars

=============================================================================

----------------------------- MODULE MCBranches -----------------------------
(***************************************************************************)
(* Small instance of Branches for TLC: a provisioned parent and a name for *)
(* a child, two handlers of one replica, two embeddings of one doc_id.     *)
(***************************************************************************)
EXTENDS Branches, TLC

MCReplicaOf == [w \in Worker |-> CHOOSE r \in Replica : TRUE]
MCTable == <<"documents", "embeddings">>
MCTableOf == [i \in Id |-> "embeddings"]
MCKeyOf == [i \in Id |-> "doc"]
Symmetry == Permutations(Worker) \cup Permutations(Id)
=============================================================================

---------------------------- MODULE MCMigrations ----------------------------
(***************************************************************************)
(* Small instance of Migrations for TLC: one handler in each of two        *)
(* replicas.                                                               *)
(***************************************************************************)
EXTENDS Migrations, TLC

CONSTANTS w1, w2, r1, r2
MCReplicaOf == (w1 :> r1) @@ (w2 :> r2)
\* The replicas change places together with their handlers.
Symmetry == {(w1 :> w2) @@ (w2 :> w1) @@ (r1 :> r2) @@ (r2 :> r1)}
=============================================================================

----------------------------- MODULE MCTenancy -----------------------------
(***************************************************************************)
(* Small instances of Tenancy for TLC.                                     *)
(***************************************************************************)
EXTENDS Tenancy, TLC

\* Handlers, sweepers, roles, keys and objects are interchangeable; used only
\* in runs that check no liveness.
Symmetry == Permutations(Role) \cup Permutations(Worker) \cup Permutations(Sweeper)
            \cup Permutations(Object) \cup Permutations(Key) \cup Permutations(Project)
=============================================================================

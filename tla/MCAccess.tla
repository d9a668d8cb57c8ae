------------------------------ MODULE MCAccess ------------------------------
(***************************************************************************)
(* Small instance of Access for TLC.                                       *)
(***************************************************************************)
EXTENDS Access, TLC

CONSTANTS t1, t2, k1, k2, p1, p2
MCInitialScopes == (t1 :> {"projects", "keys"}) @@ (t2 :> {})
MCInitialKeys == (k1 :> p1) @@ (k2 :> None)
MCTried == {<<"issueToken", Bootstrap>>, <<"issueToken", t1>>, <<"revokeToken", Bootstrap>>,
            <<"listProjects", t1>>, <<"createProject", t1>>,
            <<"deleteProject", t1>>, <<"createBranch", t1>>, <<"sync", t1>>,
            <<"issueKey", t1>>, <<"revokeKey", t1>>,
            <<"applyMigrations", t2>>, <<"applySQL", t2>>,
            <<"connection", k1>>, <<"connection", None>>, <<"restToken", k2>>}
MCAsked == {{"migrate", "sql"}, {"slq"}}
Symmetry == Permutations(Handler)
=============================================================================

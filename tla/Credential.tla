---------------------------- MODULE Credential ----------------------------
(***************************************************************************)
(* What pwrapd promises about the login credentials it hands out: a name   *)
(* is issued at most once, to one tenant, and is revoked only when its     *)
(* lease is over or its project is deleted.  Tenancy implements it.        *)
(***************************************************************************)
CONSTANTS Role, Project, None

VARIABLES cred,    \* unissued, issued, retired
          tenant,  \* the project an issued credential belongs to
          over,    \* credentials whose lease (expiry and grace) is over
          gone     \* deleted projects
vars == <<cred, tenant, over, gone>>

Init == /\ cred = [r \in Role |-> "unissued"]
        /\ tenant = [r \in Role |-> None]
        /\ over = {}
        /\ gone = {}

Issue(r, p) == /\ cred[r] = "unissued"
               /\ cred' = [cred EXCEPT ![r] = "issued"]
               /\ tenant' = [tenant EXCEPT ![r] = p]
               /\ UNCHANGED <<over, gone>>

\* A name that was drawn for a request that failed is never drawn again.
Discard(r) == /\ cred[r] = "unissued"
              /\ cred' = [cred EXCEPT ![r] = "retired"]
              /\ UNCHANGED <<tenant, over, gone>>

LeaseEnds(r) == /\ over' = over \cup {r}
                /\ UNCHANGED <<cred, tenant, gone>>

RetireAll(S) == /\ cred' = [r \in Role |-> IF r \in S THEN "retired" ELSE cred[r]]
                /\ tenant' = [r \in Role |-> IF r \in S THEN None ELSE tenant[r]]

Retire(r) == /\ cred[r] = "issued"
             /\ r \in over
             /\ RetireAll({r})
             /\ UNCHANGED <<over, gone>>

\* Deleting a project retires credentials of that project and of no other;
\* one issued while the deletion was running may be missed.
DeleteProject(p) == /\ \E S \in SUBSET {r \in Role : cred[r] = "issued" /\ tenant[r] = p} :
                          RetireAll(S)
                    /\ gone' = gone \cup {p}
                    /\ UNCHANGED over

Next == \/ \E r \in Role : \/ \E p \in Project : Issue(r, p)
                           \/ Discard(r)
                           \/ LeaseEnds(r)
                           \/ Retire(r)
        \/ \E p \in Project : DeleteProject(p)

Spec == Init /\ [][Next]_vars
=============================================================================

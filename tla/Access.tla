------------------------------- MODULE Access -------------------------------
(***************************************************************************)
(* Who may do what on /v1: the rate limit and the API keys of the SDK's    *)
(* endpoints, the bootstrap token and the scoped admin tokens of the       *)
(* management endpoints, and the audit row every request that may change   *)
(* something leaves.  What the endpoints do to a project is elsewhere;     *)
(* here they read and write credentials and the list of projects.          *)
(***************************************************************************)
EXTENDS RateLimiter, Sequences, FiniteSets

CONSTANTS Handler,      \* requests that can be served at once
          Token, Key, Project,
          Bootstrap, None,
          InitialScopes, \* tokens issued before the system is looked at
          InitialKeys,   \* and keys, each with its project
          Tried,        \* bound: the endpoints called, each with a credential
          Asked,        \* bound: what requests for a token ask for
          MaxRequests,  \* bound
          MaxFaults     \* bound: database errors and clients that hang up

Scope == {"projects", "keys", "migrate", "sql"}
TokenRoute == {"issueToken", "revokeToken"}
ScopeOf == [listProjects |-> "projects", createProject |-> "projects",
            deleteProject |-> "projects", createBranch |-> "projects", sync |-> "projects",
            issueKey |-> "keys", revokeKey |-> "keys",
            applyMigrations |-> "migrate", applySQL |-> "sql"]
KeyRoute == {"connection", "restToken"}
Route == TokenRoute \cup DOMAIN ScopeOf \cup KeyRoute

ASSUME AccessAssumption ==
    /\ Bearer = Key \cup Token \cup {Bootstrap}
    /\ Tried \subseteq Route \X (Bearer \cup {None})
    /\ InitialScopes \in [Token -> SUBSET Scope]
    /\ InitialKeys \in [Key -> Project \cup {None}]
    /\ Token \cap Key = {}
    /\ Bootstrap \notin Token \cup Key
    /\ None \notin Bearer \cup Project
    /\ MaxRequests \in Nat /\ MaxFaults \in Nat

VARIABLES tokens,    \* admin_tokens
          keys,      \* api_keys
          projects,  \* their life
          req,       \* the requests being served
          audit,     \* admin_audit_log
          mutations, \* history: how many requests had to be audited,
          unaudited, \*   how many audit writes the database refused,
          effects,   \*   and what was done: by which request, with what
          requests, faults

accessVars == <<tokens, keys, projects, req, audit, mutations, unaudited, effects, requests, faults>>
vars == <<limiterVars, accessVars>>

Credential == Bearer \cup {None}
Request == [pc : {"idle", "limit", "auth", "handle", "audit"}, route : Route,
            cred : Credential, known : BOOLEAN, ok : BOOLEAN, gone : BOOLEAN, late : BOOLEAN]
AuditRow == [token : Token \cup {None}, route : Route, ok : BOOLEAN]
Effect == [route : Route, cred : Credential, late : BOOLEAN]
NoRequest == [pc |-> "idle", route |-> "listProjects", cred |-> None, known |-> FALSE,
              ok |-> FALSE, gone |-> FALSE, late |-> FALSE]

AccessTypeOK ==
    /\ LimiterTypeOK
    /\ tokens \in [Token -> [status : {"absent", "live", "expired", "revoked"}, scopes : SUBSET Scope]]
    /\ keys \in [Key -> [status : {"absent", "live", "revoked"}, project : Project \cup {None}]]
    /\ projects \in [Project -> {"absent", "live", "deleted"}]
    /\ req \in [Handler -> Request]
    /\ audit \in Seq(AuditRow)
    /\ mutations \in Nat /\ unaudited \in Nat
    /\ effects \subseteq Effect
    /\ requests \in Nat /\ faults \in Nat

Init ==
    /\ LimiterInit
    /\ tokens = [t \in Token |-> [status |-> IF InitialScopes[t] = {} THEN "absent" ELSE "live",
                                  scopes |-> InitialScopes[t]]]
    /\ keys = [k \in Key |-> [status |-> IF InitialKeys[k] = None THEN "absent" ELSE "live",
                              project |-> InitialKeys[k]]]
    /\ projects = [p \in Project |-> IF \E k \in Key : InitialKeys[k] = p THEN "live" ELSE "absent"]
    /\ req = [h \in Handler |-> NoRequest]
    /\ audit = <<>>
    /\ mutations = 0 /\ unaudited = 0
    /\ effects = {}
    /\ requests = 0 /\ faults = 0

Fault == faults < MaxFaults /\ faults' = faults + 1

\* Audit passes GETs on; the SDK's endpoints are not under it.
IsAudited(route) == route \in (TokenRoute \cup DOMAIN ScopeOf) \ {"listProjects"}

Revoked(cred) == \/ cred \in Token /\ tokens[cred].status = "revoked"
                 \/ cred \in Key /\ keys[cred].status = "revoked"

Arrive(h, route, cred) ==
    /\ req[h].pc = "idle"
    /\ requests < MaxRequests
    /\ requests' = requests + 1
    /\ mutations' = mutations + (IF IsAudited(route) THEN 1 ELSE 0)
    /\ req' = [req EXCEPT ![h] =
                 [pc |-> IF route \in KeyRoute THEN "limit" ELSE "auth", route |-> route, cred |-> cred,
                  known |-> FALSE, ok |-> FALSE, gone |-> FALSE, late |-> Revoked(cred)]]
    /\ UNCHANGED <<limiterVars, tokens, keys, projects, audit, unaudited, effects, faults>>

\* The client hangs up: whatever the request does with its context fails.
HangUp(h) ==
    /\ req[h].pc # "idle"
    /\ ~req[h].gone
    /\ Fault
    /\ req' = [req EXCEPT ![h].gone = TRUE]
    /\ UNCHANGED <<limiterVars, tokens, keys, projects, audit, mutations, unaudited, effects, requests>>

(***************************************************************************)
(* Middleware.                                                             *)
(***************************************************************************)

\* 429 ends the request.  Without a bearer there is no key to limit by.
RateLimit(h) ==
    /\ req[h].pc = "limit"
    /\ \/ /\ req[h].cred = None
          /\ UNCHANGED limiterVars
          /\ req' = [req EXCEPT ![h].pc = "auth"]
       \/ /\ req[h].cred # None
          /\ Granted(req[h].cred)
          /\ req' = [req EXCEPT ![h].pc = "auth"]
       \/ /\ req[h].cred # None
          /\ Refused(req[h].cred)
          /\ req' = [req EXCEPT ![h] = NoRequest]
    /\ UNCHANGED <<tokens, keys, projects, audit, mutations, unaudited, effects, requests, faults>>

\* A bug: a refusal does not get back to Audit.
Answered_Dropped(h, ok) == IF ok /\ IsAudited(req[h].route)
                           THEN [req[h] EXCEPT !.pc = "audit", !.ok = TRUE] ELSE NoRequest
Answered(h, ok) == IF IsAudited(req[h].route)
                   THEN [req[h] EXCEPT !.pc = "audit", !.ok = ok] ELSE NoRequest

AdminOnly(cred) == cred = Bootstrap

\* Verify of the tokens, and what RequireScope asks of them.
\* A bug: the row that is found is not looked at.
VerifyToken_Found(cred) == cred \in Token /\ tokens[cred].status # "absent"
VerifyToken(cred) == cred \in Token /\ tokens[cred].status = "live"
RequireScope(cred, scope) == VerifyToken(cred) /\ scope \in tokens[cred].scopes

\* Verify of the keys.
APIKeyAuth(cred) == cred \in Key /\ keys[cred].status = "live"

Authorized(route, cred) == \/ route \in TokenRoute /\ AdminOnly(cred)
                           \/ route \in DOMAIN ScopeOf /\ RequireScope(cred, ScopeOf[route])
                           \/ route \in KeyRoute /\ APIKeyAuth(cred)

\* AdminOnly asks the database nothing.
Authenticate(h) ==
    /\ req[h].pc = "auth"
    /\ LET r == req[h]
       IN req' = [req EXCEPT ![h] =
                    IF Authorized(r.route, r.cred) /\ (r.route \in TokenRoute \/ ~r.gone)
                    THEN [r EXCEPT !.pc = "handle", !.known = r.route \in DOMAIN ScopeOf]
                    ELSE Answered(h, FALSE)]
    /\ UNCHANGED <<limiterVars, tokens, keys, projects, audit, mutations, unaudited, effects, requests, faults>>

(***************************************************************************)
(* Handlers: what each leaves in the control plane's tables.               *)
(***************************************************************************)

credentialTables == <<tokens, keys, projects>>

ParseScopes(asked) == IF asked # {} /\ asked \subseteq Scope THEN {asked} ELSE {}

IssueToken == \E t \in Token, asked \in Asked : \E scopes \in ParseScopes(asked) :
    /\ tokens[t].status = "absent"
    /\ tokens' = [tokens EXCEPT ![t] = [status |-> "live", scopes |-> scopes]]
    /\ UNCHANGED <<keys, projects>>

\* Twice is no error.
RevokeToken == \E t \in Token :
    /\ tokens[t].status # "absent"
    /\ tokens' = [tokens EXCEPT ![t].status = "revoked"]
    /\ UNCHANGED <<keys, projects>>

CreateProject == \E p \in Project :
    /\ projects[p] = "absent"
    /\ projects' = [projects EXCEPT ![p] = "live"]
    /\ UNCHANGED <<tokens, keys>>

DeleteProject == \E p \in Project :
    /\ projects[p] = "live"
    /\ projects' = [projects EXCEPT ![p] = "deleted"]
    /\ UNCHANGED <<tokens, keys>>

\* The project in the path; what its schema holds is not in these tables.
Found == \E p \in Project : projects[p] = "live"
CreateBranch == Found /\ CreateProject
Sync == Found /\ UNCHANGED credentialTables
ApplyMigrations == Found /\ UNCHANGED credentialTables
ApplySQL == Found /\ UNCHANGED credentialTables
ListProjects == UNCHANGED credentialTables

\* The foreign key of a key is content with a deleted project.
IssueKey == \E k \in Key, p \in Project :
    /\ keys[k].status = "absent" /\ projects[p] # "absent"
    /\ keys' = [keys EXCEPT ![k] = [status |-> "live", project |-> p]]
    /\ UNCHANGED <<tokens, projects>>

RevokeKey == \E k \in Key :
    /\ keys[k].status = "live"
    /\ keys' = [keys EXCEPT ![k].status = "revoked"]
    /\ UNCHANGED <<tokens, projects>>

\* The key's project may be gone since it was issued.
Connection(key) == projects[keys[key].project] = "live" /\ UNCHANGED credentialTables
RestToken(key) == projects[keys[key].project] = "live" /\ UNCHANGED credentialTables

Serve(r) ==
    \/ r.route = "issueToken" /\ IssueToken
    \/ r.route = "revokeToken" /\ RevokeToken
    \/ r.route = "listProjects" /\ ListProjects
    \/ r.route = "createProject" /\ CreateProject
    \/ r.route = "deleteProject" /\ DeleteProject
    \/ r.route = "createBranch" /\ CreateBranch
    \/ r.route = "sync" /\ Sync
    \/ r.route = "issueKey" /\ IssueKey
    \/ r.route = "revokeKey" /\ RevokeKey
    \/ r.route = "applyMigrations" /\ ApplyMigrations
    \/ r.route = "applySQL" /\ ApplySQL
    \/ r.route = "connection" /\ Connection(r.cred)
    \/ r.route = "restToken" /\ RestToken(r.cred)

\* The answer to what took effect: an error if the client is gone, or if a branch
\* meets one after its child was committed.
Answers(r) == {~r.gone} \cup (IF r.route = "createBranch" THEN {FALSE} ELSE {})

Handle(h) ==
    /\ req[h].pc = "handle"
    /\ LET r == req[h]
       IN \/ /\ Serve(r)
             /\ effects' = effects \cup {[route |-> r.route, cred |-> r.cred, late |-> r.late]}
             /\ \E ok \in Answers(r) : req' = [req EXCEPT ![h] = Answered(h, ok)]
          \/ /\ UNCHANGED <<tokens, keys, projects, effects>>
             /\ req' = [req EXCEPT ![h] = Answered(h, FALSE)]
    /\ UNCHANGED <<limiterVars, audit, mutations, unaudited, requests, faults>>

\* In a context that the client's hanging up does not cancel.
Audit(h) ==
    /\ req[h].pc = "audit"
    /\ LET r == req[h]
           row == [token |-> IF r.known THEN r.cred ELSE None, route |-> r.route, ok |-> r.ok]
       IN \/ /\ audit' = Append(audit, row)
             /\ UNCHANGED <<unaudited, faults>>
          \/ Fault /\ unaudited' = unaudited + 1 /\ UNCHANGED audit
    /\ req' = [req EXCEPT ![h] = NoRequest]
    /\ UNCHANGED <<limiterVars, tokens, keys, projects, mutations, effects, requests>>

\* PruneAudit deletes rows past the retention: out of this window.
TokenExpires(t) ==
    /\ tokens[t].status = "live"
    /\ tokens' = [tokens EXCEPT ![t].status = "expired"]
    /\ UNCHANGED <<limiterVars, keys, projects, req, audit, mutations, unaudited, effects, requests, faults>>

Step(h) == HangUp(h) \/ RateLimit(h) \/ Authenticate(h) \/ Handle(h) \/ Audit(h)

Next == \/ \E h \in Handler : \/ \E in \in Tried : Arrive(h, in[1], in[2])
                              \/ Step(h)
        \/ \E t \in Token : TokenExpires(t)
        \/ (StartCleanup \/ LimiterTick) /\ UNCHANGED accessVars

Spec == Init /\ [][Next]_vars

-----------------------------------------------------------------------------
(***************************************************************************)
(* Properties.                                                             *)
(***************************************************************************)

\* Every request that may have changed something, refused ones included, is in
\* the audit log once it is over, unless the database refused the row; and a
\* row that says success says which token it was done with.
EveryMutationIsAudited ==
    /\ Len(audit) + unaudited
         + Cardinality({h \in Handler : req[h].pc # "idle" /\ IsAudited(req[h].route)}) = mutations
    /\ \A i \in DOMAIN audit :
         audit[i].ok => /\ (audit[i].token = None) <=> (audit[i].route \in TokenRoute)
                        /\ \E e \in effects : /\ e.route = audit[i].route
                                              /\ audit[i].token \in {e.cred, None}

\* Only the bootstrap token makes and revokes tokens and it does nothing else; a
\* token acts within the scopes it was issued with; and what arrives after a
\* credential's revocation has no effect, whatever is in flight.
EffectsAreAuthorized ==
    \A e \in effects :
        /\ e.route \in TokenRoute <=> e.cred = Bootstrap
        /\ e.route \in DOMAIN ScopeOf => ScopeOf[e.route] \in tokens[e.cred].scopes
        /\ e.route \in KeyRoute => e.cred \in Key
        /\ ~e.late
=============================================================================

------------------------------ MODULE Tenancy ------------------------------
(***************************************************************************)
(* The credential lifecycle of a tenant: projects, API keys, the           *)
(* short-lived login roles minted for clients, the objects those clients   *)
(* create, the sweeper that retires expired roles, and project deletion.   *)
(*                                                                         *)
(* Grain of the steps: one autocommit statement is one step; a transaction *)
(* is a read step (what its statements saw) followed by a commit step (its *)
(* writes, invisible before).  A tenant role and its schema are created    *)
(* and dropped in the transaction that inserts or soft-deletes the         *)
(* projects row, so they exist exactly while the project is "live"; a      *)
(* project, its tenant role and its schema are one value of Project.       *)
(***************************************************************************)
EXTENDS Naturals, FiniteSets

CONSTANTS Project,         \* project names; a name is never usable twice
          Role,            \* ephemeral role names
          Key,             \* API keys
          Object,          \* tables and matviews that clients create
          Worker,          \* pwrapd request handlers
          Sweeper,         \* the sweep goroutines, one per pwrapd replica
          None,
          RestEnabled,     \* PostgREST integration configured (authRole # "")
          SessionsLinger,  \* clients may stay connected past the sweep grace
          MaxFaults        \* bound: failed statements and crashes in sweeps

ASSUME NamesApart == /\ Role \cap Project = {}
                     /\ None \notin Role \cup Project
ASSUME FlagsAssumption == /\ RestEnabled \in BOOLEAN
                          /\ SessionsLinger \in BOOLEAN
                          /\ MaxFaults \in Nat

VARIABLES project,  \* the projects table: absent, live, soft-deleted
          keyOf,    \* api_keys.project_id, None while not issued
          active,   \* api_keys with revoked_at IS NULL
          row,      \* ephemeral_roles: role_name -> project_id
          age,      \* expires_at against the clock, "fresh" = name not drawn yet
          pgRole,   \* pg_roles and pg_auth_members: the tenant a role is IN ROLE of
          session,  \* roles with a client connected as them
          home,     \* schema an object was created in, None while not created
          owner,    \* pg_class.relowner, None while not created or dropped
          req,      \* what each request handler is doing
          sweep,    \* what each sweeper is doing
          faults    \* faults injected so far

catalog == <<row, age, pgRole>>
keys    == <<keyOf, active>>
objects == <<home, owner>>
vars == <<project, keys, catalog, session, objects, req, sweep, faults>>

Entry == [role : Role, tenant : Project]
Request == [pc : {"idle", "verified", "creds", "created", "got", "listed"},
            project : Project \cup {None}, role : Role \cup {None},
            listed : SUBSET Role, keys : SUBSET Key]
Sweep == [pc : {"loop", "grant", "reassign", "dropOwned", "dropRole", "deleteRow"},
          todo : SUBSET Entry, role : Role \cup {None}, tenant : Project \cup {None}]

Idle == [pc |-> "idle", project |-> None, role |-> None, listed |-> {}, keys |-> {}]

TypeOK == /\ project \in [Project -> {"absent", "live", "deleted"}]
          /\ keyOf \in [Key -> Project \cup {None}]
          /\ active \in SUBSET Key
          /\ row \in [Role -> Project \cup {None}]
          /\ age \in [Role -> {"fresh", "valid", "expired", "due"}]
          /\ pgRole \in [Role -> Project \cup {None}]
          /\ session \in SUBSET Role
          /\ home \in [Object -> Project \cup {None}]
          /\ owner \in [Object -> Role \cup Project \cup {None}]
          /\ req \in [Worker -> Request]
          /\ sweep \in [Sweeper -> Sweep]
          /\ faults \in 0..MaxFaults

Init == /\ project = [p \in Project |-> "absent"]
        /\ keyOf = [k \in Key |-> None]
        /\ active = {}
        /\ row = [r \in Role |-> None]
        /\ age = [r \in Role |-> "fresh"]
        /\ pgRole = [r \in Role |-> None]
        /\ session = {}
        /\ home = [o \in Object |-> None]
        /\ owner = [o \in Object |-> None]
        /\ req = [w \in Worker |-> Idle]
        /\ sweep = [s \in Sweeper |->
                      [pc |-> "loop", todo |-> {}, role |-> None, tenant |-> None]]
        /\ faults = 0

Exists(r) == pgRole[r] # None
Owned(r) == {o \in Object : owner[o] = r}
Pending(r) == \E w \in Worker : req[w].pc = "created" /\ req[w].role = r
Minting(p) == \E w \in Worker : req[w].pc = "created" /\ req[w].project = p
OwnerAfter(S, new) == [o \in Object |-> IF o \in S THEN new ELSE owner[o]]

\* Postgres 16 and later lock a role whose membership a transaction changes
\* until it ends: CREATE ROLE ... IN ROLE by a mint, REVOKE by a deletion.
MembershipLocked(p) ==
    \/ Minting(p)
    \/ RestEnabled /\ \E w \in Worker : req[w].pc = "listed" /\ req[w].project = p

(***************************************************************************)
(* Projects and keys: single-transaction operations.                       *)
(***************************************************************************)

\* The INSERT conflicts with every row of that name, soft-deleted ones too.
CreateProject(p) ==
    /\ project[p] = "absent"
    /\ project' = [project EXCEPT ![p] = "live"]
    /\ UNCHANGED <<keys, catalog, session, objects, req, sweep, faults>>

\* Only the foreign key guards the INSERT: a soft-deleted project satisfies it.
IssueKey(k, p) ==
    /\ keyOf[k] = None
    /\ project[p] # "absent"
    /\ keyOf' = [keyOf EXCEPT ![k] = p]
    /\ active' = active \cup {k}
    /\ UNCHANGED <<project, catalog, session, objects, req, sweep, faults>>

RevokeKey(k) ==
    /\ k \in active
    /\ active' = active \ {k}
    /\ UNCHANGED <<project, keyOf, catalog, session, objects, req, sweep, faults>>

(***************************************************************************)
(* POST /v1/connection: Verify, GetCredentials, then Mint's transaction.   *)
(***************************************************************************)

ExchangeVerify(w, k) ==
    /\ req[w].pc = "idle"
    /\ k \in active
    /\ req' = [req EXCEPT ![w] = [@ EXCEPT !.pc = "verified", !.project = keyOf[k]]]
    /\ UNCHANGED <<project, keys, catalog, session, objects, sweep, faults>>

ExchangeCredentials(w) ==
    /\ req[w].pc = "verified"
    /\ req' = [req EXCEPT ![w] = IF project[@.project] = "live"
                                 THEN [@ EXCEPT !.pc = "creds"] ELSE Idle]
    /\ UNCHANGED <<project, keys, catalog, session, objects, sweep, faults>>

\* A random suffix on a stem trimmed to fit the identifier limit.  That the suffix
\* survives the cut and does not recur is assumed: the name is one never drawn before.
EphemeralRoleName_Truncated(r) == ~Exists(r)
EphemeralRoleName(r) == age[r] = "fresh"

\* Draws the name, inserts the row and runs CREATE ROLE ... IN ROLE tenant,
\* which fails when the tenant role is gone; nothing is visible yet.
MintCreate(w, r) ==
    /\ req[w].pc = "creds"
    /\ ~MembershipLocked(req[w].project)
    /\ EphemeralRoleName(r)
    /\ IF project[req[w].project] = "live"
       THEN /\ age' = [age EXCEPT ![r] = "valid"]
            /\ req' = [req EXCEPT ![w] = [@ EXCEPT !.pc = "created", !.role = r]]
       ELSE /\ req' = [req EXCEPT ![w] = Idle]
            /\ UNCHANGED age
    /\ UNCHANGED <<project, keys, row, pgRole, session, objects, sweep, faults>>

\* The commit publishes row and role together.
MintCommit(w) ==
    LET r == req[w].role IN
    /\ req[w].pc = "created"
    /\ row' = [row EXCEPT ![r] = req[w].project]
    /\ pgRole' = [pgRole EXCEPT ![r] = req[w].project]
    /\ req' = [req EXCEPT ![w] = Idle]
    /\ UNCHANGED <<project, keys, age, session, objects, sweep, faults>>

\* A failed statement, a cancelled request or a crash of pwrapd rolls back.
RequestAborts(w) ==
    /\ req[w].pc # "idle"
    /\ req' = [req EXCEPT ![w] = Idle]
    /\ UNCHANGED <<project, keys, catalog, session, objects, sweep, faults>>

(***************************************************************************)
(* DELETE /v1/projects/{id}: Get, then one transaction.                    *)
(***************************************************************************)

DeleteGet(w, p) ==
    /\ req[w].pc = "idle"
    /\ project[p] = "live"
    /\ req' = [req EXCEPT ![w] = [@ EXCEPT !.pc = "got", !.project = p]]
    /\ UNCHANGED <<project, keys, catalog, session, objects, sweep, faults>>

\* The project's rows whose role still exists.
EphemeralRoleNames_Unexpired(p) ==
    {r \in Role : row[r] = p /\ Exists(r) /\ age[r] = "valid"}
EphemeralRoleNames(p) == {r \in Role : row[r] = p /\ Exists(r)}

\* UPDATE projects takes the row lock that makes a second deletion wait;
\* RevokeTenant waits for mints, and fails if the tenant role is gone.  The list
\* is what has committed by then: without RevokeTenant it can miss a mint.
DeleteList(w) ==
    LET p == req[w].project IN
    /\ req[w].pc = "got"
    /\ \A v \in Worker : ~(req[v].pc = "listed" /\ req[v].project = p)
    /\ RestEnabled => ~MembershipLocked(p)
    /\ req' = [req EXCEPT ![w] =
                 IF RestEnabled /\ project[p] # "live" THEN Idle
                 ELSE [@ EXCEPT !.pc = "listed",
                                !.listed = EphemeralRoleNames(p),
                                !.keys = {k \in active : keyOf[k] = p}]]
    /\ UNCHANGED <<project, keys, catalog, session, objects, sweep, faults>>

\* DROP SCHEMA CASCADE takes whatever is in the schema, whoever owns it; DROP
\* OWNED what is left of the listed roles.
DroppedWith_OwnedOnly(p, listed) == {o \in Object : owner[o] \in listed \cup {p}}
DroppedWith(p, listed) == {o \in Object : home[o] = p \/ owner[o] \in listed}

\* DROP SCHEMA CASCADE, then GRANT, DROP OWNED and DROP ROLE for every listed
\* role, DROP ROLE of the tenant (which waits for mints) and COMMIT; GRANT fails
\* on a role that a sweep dropped after it was listed, and everything rolls back.
DeleteCommit(w) ==
    LET p == req[w].project
        listed == req[w].listed
    IN /\ req[w].pc = "listed"
       /\ ~Minting(p)
       /\ IF \A r \in listed : Exists(r)
          THEN /\ project' = [project EXCEPT ![p] = "deleted"]
               /\ active' = active \ req[w].keys
               /\ pgRole' = [r \in Role |-> IF r \in listed THEN None ELSE pgRole[r]]
               /\ owner' = OwnerAfter(DroppedWith(p, listed), None)
          ELSE UNCHANGED <<project, active, pgRole, owner>>
       /\ req' = [req EXCEPT ![w] = Idle]
       /\ UNCHANGED <<keyOf, row, age, session, home, sweep, faults>>

(***************************************************************************)
(* Clients: sessions opened with a minted DSN, and time.                   *)
(***************************************************************************)

\* Postgres accepts the password until VALID UNTIL, and never ends a session.
ClientConnect(r) ==
    /\ Exists(r)
    /\ age[r] = "valid"
    /\ session' = session \cup {r}
    /\ UNCHANGED <<project, keys, catalog, objects, req, sweep, faults>>

ClientClose(r) ==
    /\ r \in session
    /\ session' = session \ {r}
    /\ UNCHANGED <<project, keys, catalog, objects, req, sweep, faults>>

\* Whoever runs CREATE owns the result; CREATE on the schema comes with the
\* membership in the tenant role.
ClientCreate(r, o) ==
    /\ r \in session
    /\ Exists(r)
    /\ project[pgRole[r]] = "live"
    /\ home[o] = None
    /\ home' = [home EXCEPT ![o] = pgRole[r]]
    /\ owner' = [owner EXCEPT ![o] = r]
    /\ UNCHANGED <<project, keys, catalog, session, req, sweep, faults>>

\* The SDK's second statement after creating a matview.
ChownToTenant(r, o) ==
    /\ r \in session
    /\ owner[o] = r
    /\ Exists(r)
    /\ project[pgRole[r]] = "live"
    /\ owner' = [owner EXCEPT ![o] = home[o]]
    /\ UNCHANGED <<project, keys, catalog, session, home, req, sweep, faults>>

\* The clock passes expires_at, then expires_at plus sweepGrace; a request is
\* cancelled after 30 s (server.go's middleware.Timeout), far less than the grace.
TimePasses(r) ==
    /\ \/ /\ age[r] = "valid"
          /\ age' = [age EXCEPT ![r] = "expired"]
       \/ /\ age[r] = "expired"
          /\ ~Pending(r)
          /\ SessionsLinger \/ r \notin session
          /\ age' = [age EXCEPT ![r] = "due"]
    /\ UNCHANGED <<project, keys, row, pgRole, session, objects, req, sweep, faults>>

(***************************************************************************)
(* The sweeper.  Each statement of retireRole commits on its own.          *)
(***************************************************************************)

\* An error leaves the row and goes on with the next name; so does success.
Abandon_DeletesRow(s) == sweep' = [sweep EXCEPT ![s].pc = "deleteRow"]
Abandon(s) == sweep' = [sweep EXCEPT ![s] =
                          [pc |-> "loop", todo |-> @.todo, role |-> None, tenant |-> None]]
Advance(s, pc) == sweep' = [sweep EXCEPT ![s].pc = pc]

\* Expired for longer than the grace, joined with the project's tenant role;
\* the join keeps soft-deleted projects.
ExpiredEntries_NoGrace ==
    {e \in Entry : row[e.role] = e.tenant /\ age[e.role] # "valid"}
ExpiredEntries_CrossJoin ==
    {e \in Entry : row[e.role] # None /\ age[e.role] = "due"}
ExpiredEntries_LeftJoin ==
    {[role |-> r, tenant |-> row[r]] : r \in {x \in Role : age[x] = "due"}}
ExpiredEntries_LiveOnly ==
    {e \in Entry : row[e.role] = e.tenant /\ age[e.role] = "due"
                   /\ project[e.tenant] = "live"}
ExpiredEntries == {e \in Entry : row[e.role] = e.tenant /\ age[e.role] = "due"}

SweepSelect(s) ==
    /\ sweep[s].pc = "loop"
    /\ sweep[s].todo = {}
    /\ sweep' = [sweep EXCEPT ![s].todo = ExpiredEntries]
    /\ UNCHANGED <<project, keys, catalog, session, objects, req, faults>>

\* Next name of the loop and retireRole's existence check.
SweepCheck(s) ==
    /\ sweep[s].pc = "loop"
    /\ \E e \in sweep[s].todo :
          sweep' = [sweep EXCEPT ![s] =
                      [pc |-> IF Exists(e.role) THEN "grant" ELSE "deleteRow",
                       todo |-> @.todo \ {e}, role |-> e.role, tenant |-> e.tenant]]
    /\ UNCHANGED <<project, keys, catalog, session, objects, req, faults>>

\* grantSelfIfMissing for the role and the tenant role: both must resolve.
SweepGrant(s) ==
    /\ sweep[s].pc = "grant"
    /\ IF Exists(sweep[s].role) /\ project[sweep[s].tenant] = "live"
       THEN Advance(s, "reassign")
       ELSE Abandon(s)
    /\ UNCHANGED <<project, keys, catalog, session, objects, req, faults>>

Reassigned_Skipped(r, tenant) == owner
Reassigned(r, tenant) == OwnerAfter(Owned(r), tenant)

SweepReassign(s) ==
    /\ sweep[s].pc = "reassign"
    /\ IF Exists(sweep[s].role) /\ project[sweep[s].tenant] = "live"
       THEN /\ owner' = Reassigned(sweep[s].role, sweep[s].tenant)
            /\ Advance(s, "dropOwned")
       ELSE /\ Abandon(s)
            /\ UNCHANGED owner
    /\ UNCHANGED <<project, keys, catalog, session, home, req, faults>>

SweepDropOwned(s) ==
    /\ sweep[s].pc = "dropOwned"
    /\ IF Exists(sweep[s].role)
       THEN /\ owner' = OwnerAfter(Owned(sweep[s].role), None)
            /\ Advance(s, "dropRole")
       ELSE /\ Abandon(s)
            /\ UNCHANGED owner
    /\ UNCHANGED <<project, keys, catalog, session, home, req, faults>>

\* DROP ROLE IF EXISTS is refused while the role owns anything.
SweepDropRole(s) ==
    /\ sweep[s].pc = "dropRole"
    /\ IF Owned(sweep[s].role) = {}
       THEN /\ pgRole' = [pgRole EXCEPT ![sweep[s].role] = None]
            /\ Advance(s, "deleteRow")
       ELSE /\ Abandon(s)
            /\ UNCHANGED pgRole
    /\ UNCHANGED <<project, keys, row, age, session, objects, req, faults>>

SweepDeleteRow(s) ==
    /\ sweep[s].pc = "deleteRow"
    /\ row' = [row EXCEPT ![sweep[s].role] = None]
    /\ Abandon(s)
    /\ UNCHANGED <<project, keys, age, pgRole, session, objects, req, faults>>

\* A statement fails and the loop goes on with the next name, or pwrapd dies
\* and forgets the whole list; the row stays for the next sweep either way.
SweepFault(s) ==
    /\ sweep[s].pc # "loop"
    /\ faults < MaxFaults
    /\ faults' = faults + 1
    /\ \/ Abandon(s)
       \/ sweep' = [sweep EXCEPT ![s] = [pc |-> "loop", todo |-> {},
                                         role |-> None, tenant |-> None]]
    /\ UNCHANGED <<project, keys, catalog, session, objects, req>>

SweepStep(s) == \/ SweepSelect(s)
                \/ SweepCheck(s)
                \/ SweepGrant(s)
                \/ SweepReassign(s)
                \/ SweepDropOwned(s)
                \/ SweepDropRole(s)
                \/ SweepDeleteRow(s)

RequestStep(w) == \/ \E k \in Key : ExchangeVerify(w, k)
                  \/ ExchangeCredentials(w)
                  \/ \E r \in Role : MintCreate(w, r)
                  \/ MintCommit(w)
                  \/ \E p \in Project : DeleteGet(w, p)
                  \/ DeleteList(w)
                  \/ DeleteCommit(w)
                  \/ RequestAborts(w)

ClientStep(r) == \/ ClientConnect(r)
                 \/ ClientClose(r)
                 \/ \E o \in Object : ClientCreate(r, o) \/ ChownToTenant(r, o)
                 \/ TimePasses(r)

Next == \/ \E p \in Project : CreateProject(p)
        \/ \E k \in Key, p \in Project : IssueKey(k, p)
        \/ \E k \in Key : RevokeKey(k)
        \/ \E w \in Worker : RequestStep(w)
        \/ \E r \in Role : ClientStep(r)
        \/ \E s \in Sweeper : SweepStep(s) \/ SweepFault(s)

Spec == Init /\ [][Next]_vars

\* main.go runs Sweep at startup and on every tick of a ticker, so a sweeper
\* that can take a step eventually takes it.
FairSpec == Spec /\ \A s \in Sweeper : WF_vars(SweepStep(s))

-----------------------------------------------------------------------------
(***************************************************************************)
(* What must hold.                                                         *)
(***************************************************************************)

\* Mint records the role "first" so that "the sweeper would never [not] learn
\* about the role": an ephemeral role that exists has a row, naming its tenant,
\* whatever transactions, sweeps and faults interleave.
NoOrphanRole == \A r \in Role : Exists(r) => row[r] = pgRole[r]

\* Ownership stays inside the project: an object belongs to the tenant role of
\* its schema or to an existing role minted for that tenant, so no REASSIGN
\* hands it to another tenant and no DROP ROLE leaves it without an owner.
OwnershipStaysInProject ==
    \A o \in Object : \/ owner[o] = None
                      \/ owner[o] = home[o]
                      \/ /\ owner[o] \in Role
                         /\ Exists(owner[o])
                         /\ pgRole[owner[o]] = home[o]

\* Deletion is complete: clients may create objects between the statement that
\* lists the roles and the commit, with roles the list does not have, and still
\* no object outlives its project.
NothingOutlivesProject ==
    \A o \in Object : owner[o] # None => project[home[o]] = "live"

\* sweepGrace "avoids dropping a role out from under a client": a role goes
\* away only after its expiry plus the grace, or in the deletion of its project.
NoEarlyRetire ==
    [][\A r \in Role : Exists(r) /\ ~Exists(r)' =>
          age[r] = "due" \/ project'[pgRole[r]] = "deleted"]_vars

\* retireRole "hands everything an ephemeral role owns to the project's tenant
\* role": an object disappears only with its project.
ObjectsSurviveRoles ==
    [][\A o \in Object : owner[o] # None /\ owner'[o] = None =>
          project'[home[o]] = "deleted"]_vars

\* The refinement: names are issued once and revoked only when the lease is over
\* or the project deleted (Credential).  A transaction in flight has issued
\* nothing; a name whose transaction rolled back is retired.
CredOf(r) == IF Exists(r) THEN "issued"
             ELSE IF age[r] = "fresh" \/ Pending(r) THEN "unissued" ELSE "retired"

Lease == INSTANCE Credential WITH
            cred <- [r \in Role |-> CredOf(r)],
            tenant <- pgRole,
            over <- {r \in Role : age[r] = "due"},
            gone <- {p \in Project : project[p] = "deleted"}

\* Mint, Sweep and Delete together implement the credential's promise.
ImplementsCredential == Lease!Spec

\* "Sweep drops every ephemeral role past its expiry plus the grace window."
ExpiredRolesRetired ==
    \A r \in Role : Exists(r) /\ age[r] = "due" ~> ~Exists(r)

\* "A role that has already vanished still has its row removed, so the table
\* cannot accumulate tombstones."
NoTombstones == \A r \in Role : row[r] # None /\ age[r] = "due" ~> row[r] = None
=============================================================================

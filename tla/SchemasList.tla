---------------------------- MODULE SchemasList ----------------------------
(***************************************************************************)
(* PostgREST bootstrap and the list of schemas it exposes: the setting     *)
(* pgrst.db_schemas on the authenticator role, rewritten after every       *)
(* project creation and deletion and at every start of pwrapd.             *)
(*                                                                         *)
(* A process is one pwrapd replica as far as one request at a time goes;   *)
(* requests that overlap within a replica are two processes.  The          *)
(* transactions that create and delete a project are single steps here     *)
(* (Tenancy has their statements); the statements of authsetup, which      *)
(* commit one by one, are steps of their own.                              *)
(***************************************************************************)
EXTENDS Naturals, FiniteSets

CONSTANTS Project,   \* project names, never usable twice; each has one schema
          Process,   \* pwrapd processes
          Overlap,   \* a request may commit while another rebuilds the list
          MaxFaults  \* bound: failed statements and cancelled requests

ASSUME FaultsAssumption == MaxFaults \in Nat /\ Overlap \in BOOLEAN

VARIABLES project,    \* the projects table: absent, live, soft-deleted
          member,     \* tenant roles the authenticator is a member of
          roles,      \* which of pwrap_anon, pwrap_authenticator exist
          dbSchemas,  \* pgrst.db_schemas, less the constant anchor "public"
          postgrest,  \* PostgREST: connected, with a reload pending, serving a list
          proc,       \* what each pwrapd process is doing
          faults      \* faults injected so far

vars == <<project, member, roles, dbSchemas, postgrest, proc, faults>>

\* EnsureRoles makes the anonymous role first, then the authenticator.
BootRoles == {"anon", "authenticator"}

Proc == [pc : {"down", "checkRole", "createRole", "read", "alter", "notify", "serving"},
         role : BootRoles, list : SUBSET Project]
PostgREST == [up : BOOLEAN, reload : BOOLEAN, serves : SUBSET Project]

TypeOK == /\ project \in [Project -> {"absent", "live", "deleted"}]
          /\ member \in SUBSET Project
          /\ roles \in SUBSET BootRoles
          /\ dbSchemas \in SUBSET Project
          /\ postgrest \in PostgREST
          /\ proc \in [Process -> Proc]
          /\ faults \in 0..MaxFaults

Down == [pc |-> "down", role |-> "anon", list |-> {}]

Init == /\ project = [p \in Project |-> "absent"]
        /\ member = {}
        /\ roles = {}
        /\ dbSchemas = {}
        /\ postgrest = [up |-> FALSE, reload |-> FALSE, serves |-> {}]
        /\ proc = [i \in Process |-> Down]
        /\ faults = 0

Live == {p \in Project : project[p] = "live"}
Goto(i, pc) == proc' = [proc EXCEPT ![i].pc = pc]

(***************************************************************************)
(* Startup: EnsureRoles, then RebuildSchemasList, then serving.            *)
(***************************************************************************)

Start(i) == /\ proc[i].pc = "down"
            /\ proc' = [proc EXCEPT ![i] = [Down EXCEPT !.pc = "checkRole"]]
            /\ UNCHANGED <<project, member, roles, dbSchemas, postgrest, faults>>

\* ensureRole looks first; an existing role only has its password synced.
AfterRole(i) ==
    proc' = [proc EXCEPT ![i] = IF @.role = "anon"
                                THEN [@ EXCEPT !.pc = "checkRole", !.role = "authenticator"]
                                ELSE [@ EXCEPT !.pc = "read"]]
CheckRole(i) ==
    /\ proc[i].pc = "checkRole"
    /\ IF proc[i].role \in roles THEN AfterRole(i) ELSE Goto(i, "createRole")
    /\ UNCHANGED <<project, member, roles, dbSchemas, postgrest, faults>>

\* CREATE ROLE fails if another replica made the role since; main then exits.
CreateRole(i) ==
    /\ proc[i].pc = "createRole"
    /\ IF proc[i].role \in roles
       THEN /\ proc' = [proc EXCEPT ![i] = Down]
            /\ UNCHANGED roles
       ELSE /\ roles' = roles \cup {proc[i].role}
            /\ AfterRole(i)
    /\ UNCHANGED <<project, member, dbSchemas, postgrest, faults>>

Crash(i) == /\ proc[i].pc # "down"
            /\ proc' = [proc EXCEPT ![i] = Down]
            /\ UNCHANGED <<project, member, roles, dbSchemas, postgrest, faults>>

(***************************************************************************)
(* Requests.  Each commits, then rebuilds the list.                        *)
(***************************************************************************)

Rebuilding(i) == proc[i].pc \in {"read", "alter", "notify"}
Admitted(i) == /\ proc[i].pc = "serving"
               /\ Overlap \/ \A j \in Process : ~Rebuilding(j)

\* The INSERT, CREATE SCHEMA, CREATE ROLE and GrantTenant in one transaction.
CreateProject(i, p) ==
    /\ Admitted(i)
    /\ project[p] = "absent"
    /\ project' = [project EXCEPT ![p] = "live"]
    /\ member' = member \cup {p}
    /\ Goto(i, "read")
    /\ UNCHANGED <<roles, dbSchemas, postgrest, faults>>

\* RevokeTenant, the drops and the soft delete in one transaction.
DeleteProject_Unrebuilt(i, p) ==
    /\ Admitted(i)
    /\ project[p] = "live"
    /\ project' = [project EXCEPT ![p] = "deleted"]
    /\ member' = member \ {p}
    /\ UNCHANGED <<roles, dbSchemas, postgrest, proc, faults>>
DeleteProject(i, p) ==
    /\ Admitted(i)
    /\ project[p] = "live"
    /\ project' = [project EXCEPT ![p] = "deleted"]
    /\ member' = member \ {p}
    /\ Goto(i, "read")
    /\ UNCHANGED <<roles, dbSchemas, postgrest, faults>>

(***************************************************************************)
(* RebuildSchemasList.                                                     *)
(***************************************************************************)

ReadSchemas(i) ==
    /\ proc[i].pc = "read"
    /\ proc' = [proc EXCEPT ![i].pc = "alter", ![i].list = Live]
    /\ UNCHANGED <<project, member, roles, dbSchemas, postgrest, faults>>

\* ALTER ROLE ... SET pgrst.db_schemas writes what was read, however old.
AlterRole_Appends(i) ==
    /\ proc[i].pc = "alter"
    /\ dbSchemas' = dbSchemas \cup proc[i].list
    /\ Goto(i, "notify")
    /\ UNCHANGED <<project, member, roles, postgrest, faults>>
AlterRole_IfChanged(i) ==
    /\ proc[i].pc = "alter"
    /\ dbSchemas' = proc[i].list
    /\ Goto(i, IF proc[i].list = dbSchemas THEN "serving" ELSE "notify")
    /\ UNCHANGED <<project, member, roles, postgrest, faults>>
AlterRole(i) ==
    /\ proc[i].pc = "alter"
    /\ dbSchemas' = proc[i].list
    /\ Goto(i, "notify")
    /\ UNCHANGED <<project, member, roles, postgrest, faults>>

\* NOTIFY reaches a connected PostgREST; its error is ignored.
Notify_Lost(i) ==
    /\ proc[i].pc = "notify"
    /\ Goto(i, "serving")
    /\ UNCHANGED <<project, member, roles, dbSchemas, postgrest, faults>>
Notify(i) ==
    /\ proc[i].pc = "notify"
    /\ postgrest' = [postgrest EXCEPT !.reload = postgrest.up]
    /\ Goto(i, "serving")
    /\ UNCHANGED <<project, member, roles, dbSchemas, faults>>

\* A statement fails or the client has gone and its context with it: the callers
\* drop the error (at startup, log it) and carry on.
RebuildFails(i) ==
    /\ Rebuilding(i)
    /\ faults < MaxFaults
    /\ faults' = faults + 1
    /\ Goto(i, "serving")
    /\ UNCHANGED <<project, member, roles, dbSchemas, postgrest>>

(***************************************************************************)
(* PostgREST: reads its settings when it connects and when notified.       *)
(***************************************************************************)

Connect == /\ ~postgrest.up
           /\ "authenticator" \in roles
           /\ postgrest' = [up |-> TRUE, reload |-> FALSE, serves |-> dbSchemas]
           /\ UNCHANGED <<project, member, roles, dbSchemas, proc, faults>>

Reload == /\ postgrest.reload
          /\ postgrest' = [postgrest EXCEPT !.reload = FALSE, !.serves = dbSchemas]
          /\ UNCHANGED <<project, member, roles, dbSchemas, proc, faults>>

Disconnect == /\ postgrest.up
              /\ postgrest' = [up |-> FALSE, reload |-> FALSE, serves |-> {}]
              /\ UNCHANGED <<project, member, roles, dbSchemas, proc, faults>>

Boot(i) == Start(i) \/ CheckRole(i) \/ CreateRole(i)
Rebuild(i) == ReadSchemas(i) \/ AlterRole(i) \/ Notify(i)
Handle(i) == \E p \in Project : CreateProject(i, p) \/ DeleteProject(i, p)

Next == \/ \E i \in Process : \/ Boot(i)
                              \/ Handle(i)
                              \/ Rebuild(i)
                              \/ RebuildFails(i)
                              \/ Crash(i)
        \/ Connect
        \/ Reload
        \/ Disconnect

Spec == Init /\ [][Next]_vars

\* A request in progress and a starting process go on; PostgREST reconnects and
\* takes its notifications.
FairSpec == /\ Spec
            /\ \A i \in Process : WF_vars(Boot(i)) /\ WF_vars(Rebuild(i))
            /\ WF_vars(Connect)
            /\ WF_vars(Reload)

-----------------------------------------------------------------------------
\* "GrantTenant + RebuildSchemasList keeps the schema list in sync": when every
\* process is done, whatever crashed meanwhile, the list is that of the live
\* projects, unless a rebuild failed.
Quiet == \A i \in Process : proc[i].pc = "serving"
InSync == Quiet /\ faults = 0 => dbSchemas = Live

\* A failed rebuild is "best-effort" because the next one repairs what it left:
\* a rewrite never leaves a list that is not the live projects'.
RewritesAreExact == [][dbSchemas' # dbSchemas => dbSchemas' = Live]_vars

\* Nobody is left uninformed: a PostgREST that serves something else than the
\* setting has a notification waiting or a NOTIFY to come, from a process at work or
\* the next start of one that crashed, though it may disconnect and connect between
\* one process's ALTER ROLE and another's NOTIFY, unless a rebuild failed.
StaleIsTold ==
    faults = 0 /\ postgrest.up /\ postgrest.serves # dbSchemas
        => postgrest.reload \/ ~Quiet

\* PostgREST "will pick up the config on its next connection or explicit reload":
\* when no process is at work, one that is connected comes to serve the list.
PostgRESTFollows ==
    (Quiet /\ postgrest.up /\ faults = 0)
        ~> (postgrest.serves = dbSchemas \/ ~Quiet \/ ~postgrest.up)
=============================================================================

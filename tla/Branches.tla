------------------------------ MODULE Branches ------------------------------
(***************************************************************************)
(* Branches: a child project that is created, linked, migrated and filled  *)
(* from its parent, and a later Sync, next to the tenants' own writes and  *)
(* to deletions of either project.  Each statement commits on its own.     *)
(* Apply and the replicas are those of Migrations.                         *)
(***************************************************************************)
EXTENDS Migrations

CONSTANTS Table,     \* DefaultCopyTables, in order, less pwrap_matviews: its key
                     \* is a name the user chooses
          Id,        \* primary keys of rows; drawn at random, so never drawn twice
          TableOf,   \* the table a row is inserted into
          KeyOf      \* the value of the table's other unique column (doc_id)

ASSUME RowsAssumption == /\ Table \in Seq({Table[i] : i \in DOMAIN Table})
                         /\ TableOf \in [Id -> {Table[i] : i \in DOMAIN Table}]
                         /\ DOMAIN KeyOf = Id

VARIABLES parent,  \* projects.parent_project_id
          rows,    \* the rows of each tenant schema
          drawn,   \* ids in use
          br       \* what each handler is doing in Create or Sync

data == <<rows, drawn>>
branchVars == <<parent, data, br>>
vars == <<migrationVars, branchVars>>

\* option: with_data of a Create, truncate of a Sync.
\* owed (history): the parent's rows that a copy has to leave in the child,
\* unless they are removed from either side before it ends.
Request == [pc : {"idle", "getParent", "createChild", "setParent", "getChild", "apply",
                  "getBranch", "getItsParent", "exists", "truncate", "existsBoth", "insert"},
            kind : {"create", "sync"}, option : BOOLEAN,
            from : Project \cup {None}, to : Project \cup {None}, todo : Seq({Table[i] : i \in DOMAIN Table}),
            deadline : Nat, owed : SUBSET Id]
NoRequest == [pc |-> "idle", kind |-> "create", option |-> FALSE,
              from |-> None, to |-> None, todo |-> <<>>, deadline |-> 0, owed |-> {}]

TypeOK == /\ MigrationsTypeOK
          /\ parent \in [Project -> Project \cup {None}]
          /\ rows \in [Project -> SUBSET Id]
          /\ drawn \subseteq Id
          /\ br \in [Worker -> Request]

Init == /\ MigrationsInit
        /\ parent = [p \in Project |-> None]
        /\ rows = [p \in Project |-> {}]
        /\ drawn = {}
        /\ br = [w \in Worker |-> NoRequest]

HasTable(p) == Live(p) /\ p \in baseline
In(t, S) == {i \in S : TableOf[i] = t}
Conflicts(i, j) == i # j /\ TableOf[i] = TableOf[j] /\ KeyOf[i] = KeyOf[j]

\* What is removed from p, or p as a whole, is owed to and by nobody.
Forgiven(p, S) == [w \in Worker |-> IF p \in {br[w].from, br[w].to}
                                    THEN [br[w] EXCEPT !.owed = @ \ S] ELSE br[w]]

(***************************************************************************)
(* Tenants' clients, and deletion.                                         *)
(***************************************************************************)

\* Upsert: a row with the same unique key would keep its id and be updated.
Insert(p, i) ==
    /\ HasTable(p)
    /\ i \notin drawn
    /\ \A j \in rows[p] : ~Conflicts(i, j)
    /\ rows' = [rows EXCEPT ![p] = @ \cup {i}]
    /\ drawn' = drawn \cup {i}
    /\ UNCHANGED <<migrationVars, parent, br>>

Remove(p, i) ==
    /\ i \in rows[p]
    /\ rows' = [rows EXCEPT ![p] = @ \ {i}]
    /\ br' = Forgiven(p, {i})
    /\ UNCHANGED <<migrationVars, parent, drawn>>

Delete(p) ==
    /\ DeleteProject(p)
    /\ rows' = [rows EXCEPT ![p] = {}]
    /\ br' = Forgiven(p, Id)
    /\ UNCHANGED <<parent, drawn>>

(***************************************************************************)
(* Service.Create.                                                         *)
(***************************************************************************)

Step(w, pc) == br' = [br EXCEPT ![w].pc = pc]
End(w) == br' = [br EXCEPT ![w] = NoRequest]

BeginCreate(w, p, c, withData) ==
    /\ Up(w) /\ job[w].pc = "idle" /\ br[w].pc = "idle"
    /\ project[p] # "absent"
    /\ br' = [br EXCEPT ![w] = [NoRequest EXCEPT !.pc = "getParent", !.from = p, !.to = c,
                                  !.option = withData, !.deadline = now + RequestTimeout]]
    /\ UNCHANGED <<migrationVars, parent, data>>

GetParent(w) ==
    /\ br[w].pc = "getParent"
    /\ IF Live(br[w].from) THEN Step(w, "createChild") ELSE End(w)
    /\ UNCHANGED <<migrationVars, parent, data>>

\* projects.Create; the name may be taken, by a deleted project too.
CreateChild(w) ==
    /\ br[w].pc = "createChild"
    /\ IF project[br[w].to] = "absent"
       THEN /\ CreateProject(ReplicaOf[w], br[w].to)
            /\ Step(w, "setParent")
       ELSE UNCHANGED tenants /\ End(w)
    /\ UNCHANGED <<log, now, proc, job, faults, parent, data>>

SetParent(w) ==
    /\ br[w].pc = "setParent"
    /\ parent' = [parent EXCEPT ![br[w].to] = br[w].from]
    /\ Step(w, "getChild")
    /\ UNCHANGED <<migrationVars, data>>

\* A bug: Apply runs in a context of its own.
TimeLeft_Detached(w) == now + RequestTimeout + 1
TimeLeft(w) == br[w].deadline

GetChild(w) ==
    /\ br[w].pc = "getChild"
    /\ IF Live(br[w].to)
       THEN Apply(w, br[w].to, TimeLeft(w)) /\ Step(w, "apply")
       ELSE UNCHANGED migrationVars /\ End(w)
    /\ UNCHANGED <<parent, data>>

\* A bug: data is copied whatever Apply returned.
Applied_Ignored(w) == job[w].pc \in {"done", "failed"}
Applied(w) == job[w].pc = "done"

\* A bug: the list is passed on one short.
DefaultCopyTables_Short == SubSeq(Table, 1, Len(Table) - 1)
DefaultCopyTables == Table

\* A request that names tables of its own (CopyTables, Tables) copies those: Table
\* is whatever list the requests give, of well-formed names.
StartCopy(w, pc) ==
    br' = [br EXCEPT ![w] =
             [@ EXCEPT !.pc = pc, !.todo = DefaultCopyTables,
                       !.owed = IF HasTable(br[w].to) THEN rows[br[w].from] ELSE {}]]

AfterApply(w) ==
    /\ br[w].pc = "apply"
    /\ Respond(w)
    /\ IF Applied(w) /\ br[w].option THEN StartCopy(w, "existsBoth") ELSE End(w)
    /\ UNCHANGED <<parent, data>>

(***************************************************************************)
(* Service.Sync.                                                           *)
(***************************************************************************)

BeginSync(w, c, truncate) ==
    /\ Up(w) /\ job[w].pc = "idle" /\ br[w].pc = "idle"
    /\ project[c] # "absent"
    /\ br' = [br EXCEPT ![w] = [NoRequest EXCEPT !.pc = "getBranch", !.kind = "sync", !.to = c,
                                  !.option = truncate, !.deadline = now + RequestTimeout]]
    /\ UNCHANGED <<migrationVars, parent, data>>

GetBranch(w) ==
    /\ br[w].pc = "getBranch"
    /\ IF Live(br[w].to) /\ parent[br[w].to] # None
       THEN br' = [br EXCEPT ![w] = [@ EXCEPT !.pc = "getItsParent", !.from = parent[br[w].to]]]
       ELSE End(w)
    /\ UNCHANGED <<migrationVars, parent, data>>

GetItsParent(w) ==
    /\ br[w].pc = "getItsParent"
    /\ IF Live(br[w].from)
       THEN StartCopy(w, IF br[w].option THEN "exists" ELSE "existsBoth")
       ELSE End(w)
    /\ UNCHANGED <<migrationVars, parent, data>>

\* truncate: tables that do not exist are skipped; when all are done, the copy.
NextTable(w, pc) == br' = [br EXCEPT ![w] = [br[w] EXCEPT !.pc = pc, !.todo = Tail(@)]]

TableExists(w) ==
    /\ br[w].pc = "exists"
    /\ IF br[w].todo = <<>>
       THEN br' = [br EXCEPT ![w] = [@ EXCEPT !.pc = "existsBoth", !.todo = DefaultCopyTables]]
       ELSE IF HasTable(br[w].to) THEN Step(w, "truncate") ELSE NextTable(w, "exists")
    /\ UNCHANGED <<migrationVars, parent, data>>

\* CASCADE empties, besides, tables of the tenant's own that refer to this one;
\* none of those copied does.
Truncate(w) ==
    /\ br[w].pc = "truncate"
    /\ LET c    == br[w].to
           gone == In(Head(br[w].todo), rows[c])
       IN IF HasTable(c)
          THEN /\ rows' = [rows EXCEPT ![c] = @ \ gone]
               /\ br' = [Forgiven(c, gone) EXCEPT
                           ![w] = [br[w] EXCEPT !.pc = "exists", !.todo = Tail(@)]]
          ELSE UNCHANGED rows /\ End(w)
    /\ UNCHANGED <<migrationVars, parent, drawn>>

(***************************************************************************)
(* copyData, and its end: the request succeeds when no table is left.      *)
(***************************************************************************)

TableExistsInBoth(w) ==
    /\ br[w].pc = "existsBoth"
    /\ br[w].todo # <<>>
    /\ IF HasTable(br[w].from) /\ HasTable(br[w].to)
       THEN Step(w, "insert") ELSE NextTable(w, "existsBoth")
    /\ UNCHANGED <<migrationVars, parent, data>>

\* INSERT INTO to SELECT * FROM from ON CONFLICT (id) DO NOTHING: a conflict on
\* any other unique column fails the statement.
Copied(w) == In(Head(br[w].todo), rows[br[w].from]) \ rows[br[w].to]
Clash(w) == \E i \in Copied(w) : \E j \in rows[br[w].to] : Conflicts(i, j)

\* A bug: the schemas are swapped.
CopyInto_Parent(w) == [rows EXCEPT ![br[w].from] = @ \cup In(Head(br[w].todo), rows[br[w].to])]
CopyInto(w) == [rows EXCEPT ![br[w].to] = @ \cup Copied(w)]

CopyTable(w) ==
    /\ br[w].pc = "insert"
    /\ IF HasTable(br[w].from) /\ HasTable(br[w].to) /\ ~Clash(w)
       THEN rows' = CopyInto(w) /\ NextTable(w, "existsBoth")
       ELSE UNCHANGED rows /\ End(w)
    /\ UNCHANGED <<migrationVars, parent, drawn>>

CopyDone(w) ==
    /\ br[w].pc = "existsBoth"
    /\ br[w].todo = <<>>
    /\ End(w)
    /\ UNCHANGED <<migrationVars, parent, data>>

\* A statement fails or the request is cancelled.
Abort(w) ==
    /\ br[w].pc \notin {"idle", "apply"}
    /\ End(w)
    /\ UNCHANGED <<migrationVars, parent, data>>

BranchStep(w) == \/ GetParent(w) \/ CreateChild(w) \/ SetParent(w) \/ GetChild(w)
                 \/ AfterApply(w) \/ GetBranch(w) \/ GetItsParent(w)
                 \/ TableExists(w) \/ Truncate(w)
                 \/ TableExistsInBoth(w) \/ CopyTable(w) \/ CopyDone(w) \/ Abort(w)

(***************************************************************************)
(* The system.                                                             *)
(***************************************************************************)

Begin(w) == \/ \E p \in Project : /\ br[w].pc = "idle"
                                  /\ Apply(w, p, now + RequestTimeout)
                                  /\ UNCHANGED branchVars
            \/ \E p, c \in Project : \E d \in BOOLEAN : BeginCreate(w, p, c, d)
            \/ \E c \in Project : \E t \in BOOLEAN : BeginSync(w, c, t)

Dies(r) == /\ Crash(r)
           /\ br' = [w \in Worker |-> IF ReplicaOf[w] = r THEN NoRequest ELSE br[w]]
           /\ UNCHANGED <<parent, data>>

TimePasses == /\ \A w \in Worker : br[w].pc # "idle" => now < br[w].deadline
              /\ Tick
              /\ UNCHANGED branchVars

Next == \/ \E w \in Worker : \/ Begin(w)
                             \/ BranchStep(w)
                             \/ ApplyStep(w) /\ UNCHANGED branchVars
                             \/ br[w].pc = "idle" /\ Respond(w) /\ UNCHANGED branchVars
        \/ \E r \in Replica : \/ Dies(r)
                              \/ StartupStep(r) /\ UNCHANGED branchVars
        \/ \E p \in Project : \/ Delete(p)
                              \/ \E i \in Id : Insert(p, i) \/ Remove(p, i)
        \/ TimePasses

Spec == Init /\ [][Next]_vars

-----------------------------------------------------------------------------
(***************************************************************************)
(* Properties.                                                             *)
(***************************************************************************)

\* A row gets into a schema through a client of that very tenant or from the
\* schema's parent: no branch writes into its parent or into a sibling.
RowsComeFromTheParent ==
    [][\A p \in Project : \A i \in rows'[p] \ rows[p] :
          i \notin drawn \/ (parent[p] # None /\ i \in rows[parent[p]])]_vars

\* A copy that ends without an error leaves in the child all it owes it.
CopiesAreComplete ==
    [][\A w \in Worker : CopyDone(w) => br[w].owed \subseteq rows[br[w].to]]_vars

\* Whatever a branch request does, Apply and the replicas behave as Migrations
\* says: what is shown of the log there holds of branches, too.  (MigrationsSpec,
\* with the stutters first, where TLC looks first.)
ImplementsMigrations ==
    MigrationsInit /\ [][UNCHANGED migrationVars \/ MigrationsNext]_migrationVars

\* A branch whose creation succeeds, unless somebody has deleted it already, is
\* linked to its parent and has the whole baseline.
CreateSucceeds(w) == \/ /\ AfterApply(w)
                        /\ job[w].pc = "done"
                        /\ ~br[w].option
                     \/ /\ CopyDone(w)
                        /\ br[w].kind = "create"
BranchesAreReady ==
    [][\A w \in Worker :
          CreateSucceeds(w) /\ Live(br[w].to)
             => parent[br[w].to] = br[w].from /\ Installed(br[w].to)]_vars
=============================================================================

--------------------------- MODULE BranchesProofs ---------------------------
(***************************************************************************)
(* What is proved about Branches for any number of handlers, replicas,     *)
(* projects, tables and rows: it implements Migrations, so that everything *)
(* proved of the log there holds here; rows come from the parent; a branch *)
(* that is reported is ready; a copy that succeeds is complete; the links  *)
(* to the parents form a forest, and stay as they are.                     *)
(***************************************************************************)
EXTENDS Branches, MigrationsProofs

Tables == {Table[i] : i \in DOMAIN Table}
Looking == {"getParent", "createChild"}
Copying == {"exists", "truncate", "existsBoth", "insert"}
Linking == {"getChild", "apply", "getItsParent"} \cup Copying

\* What a request in progress knows of the replica and the time it has, ...
Served(w) == br[w].pc # "idle" => /\ Up(w)
                                  /\ now <= br[w].deadline
                                  /\ br[w].deadline <= now + RequestTimeout
\* ... of the Apply it has called, if it has, ...
Called(w) == /\ br[w].pc \in {"setParent", "getChild", "apply"} => br[w].kind = "create"
             /\ br[w].pc \in Looking => br[w].kind = "create"
             /\ br[w].pc \in {"getBranch", "getItsParent"} => br[w].kind = "sync"
             /\ br[w].pc = "apply" => /\ job[w].pc # "idle"
                                      /\ job[w].project = br[w].to
             /\ br[w].pc \notin {"idle", "apply"} => job[w].pc = "idle"
\* ... of the projects it is about, ...
Named(w) == /\ br[w].pc # "idle" => br[w].to \in Project
            /\ br[w].pc \notin {"idle", "getBranch"} => br[w].from \in Project
            /\ br[w].pc \in Looking => project[br[w].from] # "absent"
            /\ br[w].pc \notin Looking \cup {"idle"} => project[br[w].to] # "absent"
\* ... of the link between them, ...
Linked(w) == /\ br[w].pc = "setParent" => parent[br[w].to] = None /\ br[w].from # br[w].to
             /\ br[w].pc \in Linking => parent[br[w].to] = br[w].from
\* ... and of the child's tables ...
Ready(w) == br[w].kind = "create" /\ br[w].pc \in Copying /\ Live(br[w].to) => Installed(br[w].to)
\* ... and rows.
Owing(w) == /\ br[w].owed # {} => /\ br[w].pc \in Copying
                                  /\ br[w].owed \subseteq rows[br[w].from]
                                  /\ HasTable(br[w].to)
            /\ br[w].pc \in {"existsBoth", "insert"} =>
                 \A i \in br[w].owed : \/ i \in rows[br[w].to]
                                       \/ \E k \in DOMAIN br[w].todo : br[w].todo[k] = TableOf[i]
            /\ br[w].pc \in {"truncate", "insert"} => br[w].todo # <<>>

RequestInv(w) == Served(w) /\ Called(w) /\ Named(w) /\ Linked(w) /\ Ready(w) /\ Owing(w)

\* No two requests are about to link the same child.
OwnChildren == \A v, w \in Worker :
    v # w /\ br[v].pc = "setParent" /\ br[w].pc = "setParent" => br[v].to # br[w].to

TenantInv(p) == /\ project[p] = "absent" => parent[p] = None
                /\ parent[p] # p
                /\ rows[p] # {} => HasTable(p)

BranchTypes == /\ parent \in [Project -> Project \cup {None}]
               /\ rows \in [Project -> SUBSET Id]
               /\ drawn \subseteq Id
               /\ br \in [Worker -> Request]

BInv == /\ IInv
        /\ BranchTypes
        /\ \A w \in Worker : RequestInv(w)
        /\ OwnChildren
        /\ \A p \in Project : TenantInv(p)

-----------------------------------------------------------------------------
(***************************************************************************)
(* Types.                                                                  *)
(***************************************************************************)

LEMMA RequestTypes ==
    ASSUME BranchTypes, NEW w \in Worker
    PROVE  /\ br[w] \in Request
           /\ br[w].deadline \in Nat /\ br[w].option \in BOOLEAN
           /\ br[w].kind \in {"create", "sync"}
           /\ br[w].from \in Project \cup {None} /\ br[w].to \in Project \cup {None}
           /\ br[w].todo \in Seq(Tables) /\ br[w].owed \subseteq Id
BY DEF BranchTypes, Request, Tables

LEMMA NoRequestType == NoRequest \in Request
BY DEF NoRequest, Request

LEMMA NewCreate ==
    ASSUME NEW p \in Project, NEW c \in Project, NEW d \in BOOLEAN, NEW t \in Nat
    PROVE  [NoRequest EXCEPT !.pc = "getParent", !.from = p, !.to = c,
                             !.option = d, !.deadline = t] \in Request
<1>1. ASSUME NEW r \in Request
      PROVE  [r EXCEPT !.pc = "getParent", !.from = p, !.to = c,
                       !.option = d, !.deadline = t] \in Request
  BY DEF Request
<1> QED BY <1>1, NoRequestType

LEMMA NewSync ==
    ASSUME NEW c \in Project, NEW d \in BOOLEAN, NEW t \in Nat
    PROVE  [NoRequest EXCEPT !.pc = "getBranch", !.kind = "sync", !.to = c,
                             !.option = d, !.deadline = t] \in Request
<1>1. ASSUME NEW r \in Request
      PROVE  [r EXCEPT !.pc = "getBranch", !.kind = "sync", !.to = c,
                       !.option = d, !.deadline = t] \in Request
  BY DEF Request
<1> QED BY <1>1, NoRequestType

LEMMA TableType == Table \in Seq(Tables) /\ \A i \in Id : \E k \in DOMAIN Table : Table[k] = TableOf[i]
BY RowsAssumption DEF Tables

\* Only one handler's request changes.
LEMMA OneRequest ==
    ASSUME BranchTypes, NEW w \in Worker, NEW q \in Request, br' = [br EXCEPT ![w] = q]
    PROVE  /\ br' \in [Worker -> Request]
           /\ br'[w] = q
           /\ \A v \in Worker \ {w} : br'[v] = br[v]
BY DEF BranchTypes

-----------------------------------------------------------------------------
(***************************************************************************)
(* The refinement.                                                         *)
(***************************************************************************)

\* Each step is one of Migrations, or changes nothing there: what the request
\* does to projects it does in a replica that is up, and the time it hands to
\* Apply is within what a request gets.
LEMMA StepImplements ==
    ASSUME MigrationsTypeOK, BranchTypes, \A w \in Worker : Served(w) /\ Named(w), [Next]_vars
    PROVE  [MigrationsNext]_migrationVars
<1>1. ASSUME NEW w \in Worker, Begin(w) PROVE [MigrationsNext]_migrationVars
  <2>1. ASSUME NEW p \in Project, Apply(w, p, now + RequestTimeout) PROVE MigrationsNext
    <3>1. now + RequestTimeout \in now..(now + RequestTimeout)
      BY TimesAssumption DEF MigrationsTypeOK
    <3> QED BY <2>1, <3>1 DEF MigrationsNext
  <2> QED BY <1>1, <2>1 DEF Begin, BeginCreate, BeginSync
<1>2. ASSUME NEW w \in Worker, CreateChild(w) PROVE [MigrationsNext]_migrationVars
  <2>1. CASE project[br[w].to] = "absent"
    <3>1. /\ br[w].to \in Project /\ ReplicaOf[w] \in Replica /\ proc[ReplicaOf[w]].pc = "up"
          /\ CreateProject(ReplicaOf[w], br[w].to)
          /\ UNCHANGED <<log, now, proc, job, faults>>
      BY <1>2, <2>1, PlacesAssumption DEF CreateChild, Served, Named, Up
    <3> QED BY <3>1 DEF MigrationsNext
  <2> QED BY <1>2, <2>1 DEF CreateChild, migrationVars
<1>3. ASSUME NEW w \in Worker, GetChild(w) PROVE [MigrationsNext]_migrationVars
  <2>1. CASE Live(br[w].to)
    <3>1. /\ br[w].to \in Project /\ br[w].deadline \in now..(now + RequestTimeout)
          /\ Apply(w, br[w].to, br[w].deadline)
      BY <1>3, <2>1, RequestTypes, TimesAssumption
         DEF GetChild, TimeLeft, Served, Named, MigrationsTypeOK
    <3> QED BY <3>1 DEF MigrationsNext
  <2> QED BY <1>3, <2>1 DEF GetChild
<1>4. ASSUME NEW w \in Worker, BranchStep(w) PROVE [MigrationsNext]_migrationVars
  BY <1>2, <1>3, <1>4 DEF BranchStep, GetParent, SetParent, AfterApply, GetBranch, GetItsParent,
     TableExists, Truncate, TableExistsInBoth, CopyTable, CopyDone, Abort, MigrationsNext
<1>5. ASSUME NEW w \in Worker, ApplyStep(w) \/ Respond(w) PROVE MigrationsNext
  BY <1>5 DEF MigrationsNext
<1>6. ASSUME NEW r \in Replica, Dies(r) \/ StartupStep(r) PROVE MigrationsNext
  BY <1>6 DEF MigrationsNext, Dies
<1>7. ASSUME NEW p \in Project, NEW i \in Id, Insert(p, i) \/ Remove(p, i) PROVE UNCHANGED migrationVars
  BY <1>7 DEF Insert, Remove
<1>8. ASSUME NEW p \in Project, Delete(p) PROVE MigrationsNext
  BY <1>8 DEF Delete, MigrationsNext
<1>9. CASE TimePasses
  BY <1>9 DEF TimePasses, MigrationsNext
<1>10. CASE UNCHANGED vars
  BY <1>10 DEF vars
<1> QED BY <1>1, <1>4, <1>5, <1>6, <1>7, <1>8, <1>9, <1>10 DEF Next

-----------------------------------------------------------------------------
(***************************************************************************)
(* What a step leaves alone.                                               *)
(***************************************************************************)

TablesStand == \A p \in Project : HasTable(p) => HasTable(p)'

\* The request is the same, if it owes the child no more than it did.
Shrunk(v) == /\ br'[v].pc = br[v].pc /\ br'[v].kind = br[v].kind
             /\ br'[v].from = br[v].from /\ br'[v].to = br[v].to
             /\ br'[v].todo = br[v].todo /\ br'[v].deadline = br[v].deadline
             /\ br'[v].owed \subseteq br[v].owed

\* A request that does nothing knows what it knew.
LEMMA RequestStands ==
    ASSUME BInv, TenantsStand, NEW v \in Worker, Shrunk(v), Served(v)', Called(v)',
           br[v].pc \in Linking \cup {"setParent"} => parent'[br[v].to] = parent[br[v].to],
           br'[v].owed # {} => /\ br'[v].owed \subseteq rows'[br[v].from]
                               /\ HasTable(br[v].to)'
                               /\ rows[br[v].to] \cap br'[v].owed \subseteq rows'[br[v].to]
    PROVE  RequestInv(v)'
<1>1. RequestInv(v)
  BY DEF BInv
<1>2. Named(v)'
  BY <1>1 DEF RequestInv, Named, Shrunk, TenantsStand, Looking
<1>3. Linked(v)'
  BY <1>1 DEF RequestInv, Linked, Shrunk
<1>4. Ready(v)'
  <2>1. CASE br[v].pc \in Copying
    <3>1. br[v].to \in Project /\ project[br[v].to] # "absent"
      BY <1>1, <2>1 DEF RequestInv, Named, Copying, Looking
    <3> QED BY <1>1, <3>1 DEF RequestInv, Ready, Shrunk, TenantsStand, Live, Installed
  <2>2. CASE br[v].pc \notin Copying
    BY <2>2 DEF Ready, Shrunk
  <2> QED BY <2>1, <2>2
<1>5. Owing(v)'
  <2>1. br'[v].owed # {} => br[v].owed # {}
    BY DEF Shrunk
  <2>2. br'[v].owed # {} => br'[v].pc \in Copying /\ br'[v].owed \subseteq rows'[br'[v].from]
                            /\ HasTable(br[v].to)'
    BY <1>1, <2>1 DEF RequestInv, Owing, Shrunk
  <2>3. ASSUME br'[v].pc \in {"existsBoth", "insert"}, NEW i \in br'[v].owed
        PROVE  \/ i \in rows'[br'[v].to]
               \/ \E k \in DOMAIN br'[v].todo : br'[v].todo[k] = TableOf[i]
    BY <1>1, <2>3 DEF RequestInv, Owing, Shrunk
  <2>4. br'[v].pc \in {"truncate", "insert"} => br'[v].todo # <<>>
    BY <1>1 DEF RequestInv, Owing, Shrunk
  <2> QED BY <2>2, <2>3, <2>4 DEF Owing
<1> QED BY <1>2, <1>3, <1>4, <1>5 DEF RequestInv

LEMMA SameIsShrunk == ASSUME NEW v \in Worker, br'[v] = br[v] PROVE Shrunk(v)
BY DEF Shrunk

\* In particular when it is another's turn that leaves the rows alone.
LEMMA OthersWait ==
    ASSUME BInv, TenantsStand, TablesStand, UNCHANGED <<proc, now, parent, rows>>,
           NEW v \in Worker, br'[v] = br[v], job'[v] = job[v]
    PROVE  RequestInv(v)'
<1>1. RequestInv(v)
  BY DEF BInv
<1>2. Served(v)' /\ Called(v)'
  BY <1>1 DEF RequestInv, Served, Called, Up
<1>3. br[v].owed # {} => br[v].pc \in Copying /\ HasTable(br[v].to)
                         /\ br[v].owed \subseteq rows[br[v].from]
  BY <1>1 DEF RequestInv, Owing
<1>4. br[v].pc \in Copying => br[v].to \in Project
  BY <1>1 DEF RequestInv, Named, Copying
<1>5. br[v].owed # {} => HasTable(br[v].to)'
  BY <1>3, <1>4 DEF TablesStand
<1> QED BY <1>2, <1>3, <1>5, SameIsShrunk, RequestStands

LEMMA TenantStands ==
    ASSUME BInv, TenantsStand, TablesStand, UNCHANGED <<parent, rows>>, NEW p \in Project
    PROVE  TenantInv(p)'
BY DEF BInv, TenantInv, TenantsStand, TablesStand

\* What is left to show of a step of one request that touches no rows and no links.
LEMMA StepOfRequest ==
    ASSUME BInv, IInv', TenantsStand, TablesStand, UNCHANGED <<proc, now, parent, data>>,
           NEW w \in Worker, NEW q \in Request, br' = [br EXCEPT ![w] = q],
           \A v \in Worker \ {w} : job'[v] = job[v],
           RequestInv(w)',
           q.pc = "setParent" =>
             \A v \in Worker \ {w} : br[v].pc = "setParent" => br[v].to # q.to
    PROVE  BInv'
<1>1. /\ br' \in [Worker -> Request]
      /\ br'[w] = q
      /\ \A v \in Worker \ {w} : br'[v] = br[v]
  BY OneRequest DEF BInv
<1>2. BranchTypes'
  BY <1>1 DEF BInv, BranchTypes, data
<1>3. ASSUME NEW v \in Worker PROVE RequestInv(v)'
  BY <1>1, OthersWait DEF data
<1>4. OwnChildren'
  BY <1>1 DEF BInv, OwnChildren
<1>5. \A p \in Project : TenantInv(p)'
  BY TenantStands DEF data
<1> QED BY <1>2, <1>3, <1>4, <1>5 DEF BInv

LEMMA NothingKnown == ASSUME NEW w \in Worker, br'[w] = NoRequest PROVE RequestInv(w)'
BY DEF NoRequest, RequestInv, Served, Called, Named, Linked, Ready, Owing, Looking, Linking, Copying

LEMMA EndKeeps ==
    ASSUME BInv, IInv', TenantsStand, TablesStand, UNCHANGED <<proc, now, parent, data>>,
           NEW w \in Worker, End(w), \A v \in Worker \ {w} : job'[v] = job[v]
    PROVE  BInv'
<1>1. br' = [br EXCEPT ![w] = NoRequest] /\ br'[w] = NoRequest
  BY NoRequestType, OneRequest DEF End, BInv
<1>2. NoRequest.pc # "setParent"
  BY DEF NoRequest
<1> QED BY <1>1, <1>2, NoRequestType, NothingKnown, StepOfRequest

LEMMA MigrationsStand ==
    ASSUME UNCHANGED migrationVars PROVE TenantsStand /\ TablesStand /\ UNCHANGED <<proc, now, job>>
BY DEF migrationVars, tenants, TenantsStand, TablesStand, HasTable, Live

-----------------------------------------------------------------------------
(***************************************************************************)
(* Steps of one request.                                                   *)
(***************************************************************************)

LEMMA BeginCreateKeeps ==
    ASSUME BInv, IInv', NEW w \in Worker, NEW p \in Project, NEW c \in Project, NEW d \in BOOLEAN,
           BeginCreate(w, p, c, d)
    PROVE  BInv'
<1> DEFINE q == [NoRequest EXCEPT !.pc = "getParent", !.from = p, !.to = c,
                                  !.option = d, !.deadline = now + RequestTimeout]
<1>1. now \in Nat /\ RequestTimeout \in Nat
  BY TimesAssumption DEF BInv, IInv, MigrationsTypeOK
<1>2. /\ q.pc = "getParent" /\ q.from = p /\ q.to = c /\ q.owed = {}
      /\ q.deadline = now + RequestTimeout /\ q.kind = "create"
  BY DEF NoRequest
<1>3. q \in Request
  <2> HIDE DEF NoRequest
  <2>1. now + RequestTimeout \in Nat
    BY <1>1
  <2> QED BY <2>1, NewCreate
<1>4. br' = [br EXCEPT ![w] = q] /\ UNCHANGED <<migrationVars, parent, data>>
  BY DEF BeginCreate
<1>5. job[w].pc = "idle" /\ project[p] # "absent" /\ Up(w)
  BY DEF BeginCreate
<1> HIDE DEF q
<1>6. br'[w] = q
  BY <1>3, <1>4, OneRequest DEF BInv
<1>7. /\ now' = now /\ Up(w)' /\ job'[w].pc = "idle" /\ project'[p] # "absent"
  BY <1>4, <1>5 DEF migrationVars, tenants, Up
<1>8. RequestInv(w)'
  BY <1>1, <1>2, <1>6, <1>7
     DEF RequestInv, Served, Called, Named, Linked, Ready, Owing, Looking, Linking, Copying
<1> QED BY <1>2, <1>3, <1>4, <1>8, MigrationsStand, StepOfRequest

LEMMA BeginSyncKeeps ==
    ASSUME BInv, IInv', NEW w \in Worker, NEW c \in Project, NEW t \in BOOLEAN, BeginSync(w, c, t)
    PROVE  BInv'
<1> DEFINE q == [NoRequest EXCEPT !.pc = "getBranch", !.kind = "sync", !.to = c,
                                  !.option = t, !.deadline = now + RequestTimeout]
<1>1. now \in Nat /\ RequestTimeout \in Nat
  BY TimesAssumption DEF BInv, IInv, MigrationsTypeOK
<1>2. /\ q.pc = "getBranch" /\ q.to = c /\ q.owed = {} /\ q.kind = "sync"
      /\ q.deadline = now + RequestTimeout
  BY DEF NoRequest
<1>3. q \in Request
  <2> HIDE DEF NoRequest
  <2>1. now + RequestTimeout \in Nat
    BY <1>1
  <2> QED BY <2>1, NewSync
<1>4. br' = [br EXCEPT ![w] = q] /\ UNCHANGED <<migrationVars, parent, data>>
  BY DEF BeginSync
<1>5. job[w].pc = "idle" /\ project[c] # "absent" /\ Up(w)
  BY DEF BeginSync
<1> HIDE DEF q
<1>6. br'[w] = q
  BY <1>3, <1>4, OneRequest DEF BInv
<1>7. /\ now' = now /\ Up(w)' /\ job'[w].pc = "idle" /\ project'[c] # "absent"
  BY <1>4, <1>5 DEF migrationVars, tenants, Up
<1>8. RequestInv(w)'
  BY <1>1, <1>2, <1>6, <1>7
     DEF RequestInv, Served, Called, Named, Linked, Ready, Owing, Looking, Linking, Copying
<1> QED BY <1>2, <1>3, <1>4, <1>8, MigrationsStand, StepOfRequest

\* A request that goes on, with the same names, to another statement.
LEMMA StepKeeps ==
    ASSUME BInv, IInv', NEW w \in Worker, UNCHANGED <<migrationVars, parent, data>>,
           NEW pc \in {"createChild", "truncate", "insert"}, Step(w, pc),
           pc = "createChild" => br[w].pc = "getParent",
           pc = "truncate" => br[w].pc = "exists" /\ br[w].todo # <<>>,
           pc = "insert" => br[w].pc = "existsBoth" /\ br[w].todo # <<>>
    PROVE  BInv'
<1> DEFINE q == [br[w] EXCEPT !.pc = pc]
<1>1. br[w] \in Request /\ RequestInv(w)
  BY RequestTypes DEF BInv
<1>2. /\ q \in Request /\ q.pc = pc /\ q.kind = br[w].kind /\ q.from = br[w].from /\ q.to = br[w].to
      /\ q.todo = br[w].todo /\ q.owed = br[w].owed /\ q.deadline = br[w].deadline
  BY <1>1 DEF Request
<1>3. br' = [br EXCEPT ![w] = q]
  BY DEF Step
<1> HIDE DEF q
<1>4. br'[w] = q
  BY <1>2, <1>3, OneRequest DEF BInv
<1>5. UNCHANGED <<now, job, proc, project, baseline, river, parent, rows>>
  BY DEF migrationVars, tenants, data
<1>6. Served(w)' /\ Called(w)'
  BY <1>1, <1>2, <1>4, <1>5 DEF RequestInv, Served, Called, Up, Looking
<1>7. Named(w)' /\ Linked(w)' /\ Ready(w)'
  BY <1>1, <1>2, <1>4, <1>5
     DEF RequestInv, Named, Linked, Ready, Looking, Linking, Copying, Live, Installed
<1>8. Owing(w)'
  BY <1>1, <1>2, <1>4, <1>5 DEF RequestInv, Owing, Copying, HasTable, Live
<1>9. RequestInv(w)'
  BY <1>6, <1>7, <1>8 DEF RequestInv
<1> QED BY <1>2, <1>3, <1>9, MigrationsStand, StepOfRequest

LEMMA GetParentKeeps ==
    ASSUME BInv, IInv', NEW w \in Worker, GetParent(w)
    PROVE  BInv'
<1>1. CASE Live(br[w].from)
  BY <1>1, StepKeeps DEF GetParent
<1>2. CASE ~Live(br[w].from)
  BY <1>2, EndKeeps, MigrationsStand DEF GetParent
<1> QED BY <1>1, <1>2

LEMMA CreateChildKeeps ==
    ASSUME BInv, IInv', NEW w \in Worker, CreateChild(w)
    PROVE  BInv'
<1> DEFINE c == br[w].to
           q == [br[w] EXCEPT !.pc = "setParent"]
<1>1. /\ br[w] \in Request /\ RequestInv(w) /\ br[w].pc = "createChild" /\ c \in Project
      /\ UNCHANGED <<log, now, proc, job, faults, parent, data>>
  BY RequestTypes DEF BInv, CreateChild, RequestInv, Named
<1>2. CASE project[c] = "absent"
  <2>1. CreateProject(ReplicaOf[w], c) /\ br' = [br EXCEPT ![w] = q]
    BY <1>2 DEF CreateChild, Step
  <2>2. TenantsStand /\ TablesStand /\ project'[c] = "live"
    BY <2>1, <1>2, <1>1 DEF CreateProject, TenantsStand, TablesStand, HasTable, Live, BInv, IInv,
       MigrationsTypeOK
  <2>3. /\ q \in Request /\ q.pc = "setParent" /\ q.from = br[w].from /\ q.to = c
        /\ q.owed = br[w].owed /\ q.deadline = br[w].deadline /\ q.kind = br[w].kind
    BY <1>1 DEF Request
  <2> HIDE DEF q
  <2>4. br'[w] = q
    BY <2>1, <2>3, OneRequest DEF BInv
  <2>5. /\ project[br[w].from] # "absent" /\ br[w].from \in Project
        /\ parent[c] = None /\ br[w].owed = {}
    BY <1>1, <1>2 DEF RequestInv, Named, Owing, Looking, Copying, BInv, TenantInv
  <2>6. RequestInv(w)'
    BY <1>1, <1>2, <2>2, <2>3, <2>4, <2>5 DEF RequestInv, Served, Called, Named, Linked, Ready, Owing,
       Looking, Linking, Copying, Up
  <2>7. \A v \in Worker : br[v].pc = "setParent" => br[v].to # q.to
    BY <1>2, <2>3 DEF BInv, RequestInv, Named, Looking
  <2> QED BY <1>1, <2>1, <2>2, <2>3, <2>6, <2>7, StepOfRequest
<1>3. CASE project[c] # "absent"
  BY <1>1, <1>3, EndKeeps DEF CreateChild, tenants, TenantsStand, TablesStand, HasTable, Live
<1> QED BY <1>2, <1>3

LEMMA GetChildKeeps ==
    ASSUME BInv, IInv', NEW w \in Worker, GetChild(w)
    PROVE  BInv'
<1> DEFINE c == br[w].to
           q == [br[w] EXCEPT !.pc = "apply"]
<1>1. /\ br[w] \in Request /\ RequestInv(w) /\ br[w].pc = "getChild" /\ c \in Project
      /\ UNCHANGED <<parent, data>>
  BY RequestTypes DEF BInv, GetChild, RequestInv, Named
<1>2. CASE Live(c)
  <2> DEFINE j == [Idle EXCEPT !.pc = "creds", !.project = c, !.deadline = TimeLeft(w)]
  <2>1. /\ br' = [br EXCEPT ![w] = q]
        /\ job' = [job EXCEPT ![w] = j]
        /\ UNCHANGED <<tenants, now, proc>>
    BY <1>2 DEF GetChild, Step, Apply
  <2>2. j.pc = "creds" /\ j.project = c
    BY DEF Idle
  <2> HIDE DEF j
  <2>3. job'[w] = j /\ \A v \in Worker \ {w} : job'[v] = job[v]
    BY <2>1 DEF BInv, IInv, MigrationsTypeOK
  <2>4. TenantsStand /\ TablesStand
    BY <2>1 DEF tenants, TenantsStand, TablesStand, HasTable, Live
  <2>5. /\ q \in Request /\ q.pc = "apply" /\ q.kind = br[w].kind /\ q.from = br[w].from /\ q.to = c
        /\ q.owed = br[w].owed /\ q.deadline = br[w].deadline
    BY <1>1 DEF Request
  <2> HIDE DEF q
  <2>6. br'[w] = q
    BY <2>1, <2>5, OneRequest DEF BInv
  <2>7. br[w].kind = "create" /\ br[w].owed = {}
    BY <1>1 DEF RequestInv, Owing, Copying, Called
  <2>8. RequestInv(w)'
    BY <1>1, <2>1, <2>2, <2>3, <2>5, <2>6, <2>7 DEF RequestInv, Served, Called, Named, Linked, Ready,
       Owing, Looking, Linking, Copying, Up, tenants
  <2> QED BY <1>1, <2>1, <2>3, <2>4, <2>5, <2>8, StepOfRequest
<1>3. CASE ~Live(c)
  BY <1>1, <1>3, EndKeeps, MigrationsStand DEF GetChild
<1> QED BY <1>2, <1>3

LEMMA SetParentKeeps ==
    ASSUME BInv, IInv', NEW w \in Worker, SetParent(w)
    PROVE  BInv'
<1> DEFINE c == br[w].to
           q == [br[w] EXCEPT !.pc = "getChild"]
<1>1. /\ br[w] \in Request /\ RequestInv(w) /\ br[w].pc = "setParent" /\ c \in Project
      /\ br[w].from \in Project /\ parent[c] = None /\ br[w].from # c /\ project[c] # "absent"
  BY RequestTypes DEF BInv, SetParent, RequestInv, Named, Linked, Looking
<1>2. /\ br' = [br EXCEPT ![w] = q]
      /\ parent' = [parent EXCEPT ![c] = br[w].from]
      /\ UNCHANGED <<now, job, proc, project, baseline, river, rows, drawn>>
  BY DEF SetParent, Step, migrationVars, tenants, data
<1>3. /\ q \in Request /\ q.pc = "getChild" /\ q.kind = br[w].kind /\ q.from = br[w].from /\ q.to = c
      /\ q.owed = br[w].owed /\ q.deadline = br[w].deadline
  BY <1>1 DEF Request
<1> HIDE DEF q
<1>4. /\ br' \in [Worker -> Request]
      /\ br'[w] = q
      /\ \A v \in Worker \ {w} : br'[v] = br[v]
  BY <1>2, <1>3, OneRequest DEF BInv
<1>5. /\ parent' \in [Project -> Project \cup {None}]
      /\ \A p \in Project : parent'[p] = IF p = c THEN br[w].from ELSE parent[p]
  BY <1>1, <1>2 DEF BInv, BranchTypes
<1>6. br[w].kind = "create" /\ br[w].owed = {}
  BY <1>1 DEF RequestInv, Called, Owing, Copying
<1>7. RequestInv(w)'
  BY <1>1, <1>2, <1>3, <1>4, <1>5, <1>6
     DEF RequestInv, Served, Called, Named, Linked, Ready, Owing, Looking, Linking, Copying, Up
<1>8. ASSUME NEW v \in Worker \ {w} PROVE RequestInv(v)'
  <2>1. RequestInv(v) /\ Shrunk(v) /\ br'[v] = br[v]
    BY <1>4, SameIsShrunk DEF BInv
  <2>2. Served(v)' /\ Called(v)'
    BY <1>2, <2>1 DEF RequestInv, Served, Called, Up
  <2>3. br[v].pc = "setParent" => br[v].to # c /\ br[v].to \in Project
    BY <1>1, <2>1 DEF BInv, OwnChildren, RequestInv, Named
  <2>4. br[v].pc \in Linking => br[v].to \in Project /\ parent[br[v].to] # None
    BY <2>1, PlacesAssumption DEF RequestInv, Named, Linked, Linking, Copying
  <2>5. br[v].pc \in Linking \cup {"setParent"} => parent'[br[v].to] = parent[br[v].to]
    BY <1>1, <1>5, <2>3, <2>4
  <2>6. br[v].owed # {} => HasTable(br[v].to) /\ br[v].owed \subseteq rows[br[v].from]
    BY <2>1 DEF RequestInv, Owing
  <2>7. br'[v].owed # {} => /\ br'[v].owed \subseteq rows'[br[v].from]
                            /\ HasTable(br[v].to)'
                            /\ rows[br[v].to] \cap br'[v].owed \subseteq rows'[br[v].to]
    BY <1>2, <2>1, <2>6 DEF HasTable, Live
  <2> QED BY <2>1, <2>2, <2>5, <2>7, RequestStands, MigrationsStand DEF SetParent
<1>9. OwnChildren'
  BY <1>3, <1>4 DEF BInv, OwnChildren
<1>10. \A p \in Project : TenantInv(p)'
  BY <1>1, <1>2, <1>5 DEF BInv, TenantInv, HasTable, Live
<1>11. BranchTypes'
  BY <1>2, <1>4, <1>5 DEF BInv, BranchTypes
<1> QED BY <1>7, <1>8, <1>9, <1>10, <1>11 DEF BInv

LEMMA CopyStarts ==
    ASSUME BInv, IInv', NEW w \in Worker, NEW pc \in {"exists", "existsBoth"}, StartCopy(w, pc),
           UNCHANGED <<project, baseline, river, proc, now, parent, data>>,
           br[w].pc \in {"apply", "getItsParent"},
           job'[w].pc = "idle", \A v \in Worker \ {w} : job'[v] = job[v],
           br[w].kind = "create" /\ Live(br[w].to) => Installed(br[w].to)
    PROVE  BInv'
<1> DEFINE owed == IF HasTable(br[w].to) THEN rows[br[w].from] ELSE {}
           q == [br[w] EXCEPT !.pc = pc, !.todo = Table, !.owed = owed]
<1>1. /\ br[w] \in Request /\ RequestInv(w) /\ br[w].from \in Project /\ br[w].to \in Project
      /\ project[br[w].to] # "absent" /\ parent[br[w].to] = br[w].from
  BY RequestTypes DEF BInv, RequestInv, Named, Linked, Linking, Looking
<1>2. owed \subseteq Id
  BY <1>1 DEF BInv, BranchTypes
<1>3. br' = [br EXCEPT ![w] = q]
  BY DEF StartCopy, DefaultCopyTables
<1>4. owed # {} => HasTable(br[w].to) /\ owed = rows[br[w].from]
  OBVIOUS
<1> HIDE DEF owed
<1>5. q \in Request
  BY <1>1, <1>2, TableType DEF Request, Tables
<1>6. /\ q.pc = pc /\ q.kind = br[w].kind /\ q.from = br[w].from /\ q.to = br[w].to
      /\ q.todo = Table /\ q.owed = owed /\ q.deadline = br[w].deadline
  BY <1>1 DEF Request
<1> HIDE DEF q
<1>7. br'[w] = q
  BY <1>3, <1>5, OneRequest DEF BInv
<1>8. UNCHANGED rows
  BY DEF data
<1>9. Served(w)' /\ Called(w)'
  BY <1>1, <1>6, <1>7 DEF RequestInv, Served, Called, Up, Looking
<1>10. Named(w)' /\ Linked(w)' /\ Ready(w)'
  BY <1>1, <1>6, <1>7 DEF Named, Linked, Ready, Looking, Linking, Copying, Live, Installed
<1>11. Owing(w)'
  BY <1>2, <1>4, <1>6, <1>7, <1>8, TableType DEF Owing, Copying, HasTable, Live
<1>12. TenantsStand /\ TablesStand
  BY DEF TenantsStand, TablesStand, HasTable, Live
<1>13. RequestInv(w)'
  BY <1>9, <1>10, <1>11 DEF RequestInv
<1> QED BY <1>3, <1>5, <1>6, <1>12, <1>13, StepOfRequest

LEMMA AfterApplyKeeps ==
    ASSUME BInv, IInv', NEW w \in Worker, AfterApply(w)
    PROVE  BInv'
<1>1. /\ br[w].pc = "apply" /\ job' = [job EXCEPT ![w] = Idle]
      /\ UNCHANGED <<project, baseline, river, proc, now, parent, data>>
  BY DEF AfterApply, Respond, tenants
<1>2. job'[w].pc = "idle" /\ \A v \in Worker \ {w} : job'[v] = job[v]
  BY <1>1 DEF BInv, IInv, MigrationsTypeOK, Idle
<1>3. CASE Applied(w) /\ br[w].option
  <2>1. Live(br[w].to) => Installed(br[w].to)
    BY <1>1, <1>3 DEF Applied, BInv, RequestInv, Called, IInv, JobInv, HasInstalled
  <2> QED BY <1>1, <1>2, <1>3, <2>1, CopyStarts DEF AfterApply
<1>4. CASE ~(Applied(w) /\ br[w].option)
  <2>1. TenantsStand /\ TablesStand
    BY <1>1 DEF TenantsStand, TablesStand, HasTable, Live
  <2> QED BY <1>1, <1>2, <1>4, <2>1, EndKeeps DEF AfterApply
<1> QED BY <1>3, <1>4

LEMMA GetBranchKeeps ==
    ASSUME BInv, IInv', NEW w \in Worker, GetBranch(w)
    PROVE  BInv'
<1> DEFINE q == [br[w] EXCEPT !.pc = "getItsParent", !.from = parent[br[w].to]]
<1>1. /\ br[w] \in Request /\ RequestInv(w) /\ br[w].pc = "getBranch" /\ br[w].to \in Project
      /\ project[br[w].to] # "absent" /\ job[w].pc = "idle" /\ br[w].owed = {}
      /\ UNCHANGED <<migrationVars, parent, data>>
  BY RequestTypes DEF BInv, GetBranch, RequestInv, Named, Called, Owing, Looking, Copying
<1>2. CASE Live(br[w].to) /\ parent[br[w].to] # None
  <2>1. parent[br[w].to] \in Project
    BY <1>1, <1>2 DEF BInv, BranchTypes
  <2>2. br' = [br EXCEPT ![w] = q]
    BY <1>2 DEF GetBranch
  <2>3. /\ q \in Request /\ q.pc = "getItsParent" /\ q.kind = br[w].kind /\ q.to = br[w].to
        /\ q.from = parent[br[w].to] /\ q.owed = br[w].owed /\ q.deadline = br[w].deadline
    BY <1>1, <2>1 DEF Request
  <2> HIDE DEF q
  <2>4. br'[w] = q
    BY <2>2, <2>3, OneRequest DEF BInv
  <2>5. UNCHANGED <<now, job, proc, project, parent, rows>>
    BY <1>1 DEF migrationVars, tenants, data
  <2>6. Served(w)' /\ Called(w)'
    BY <1>1, <2>3, <2>4, <2>5 DEF RequestInv, Served, Called, Up, Looking
  <2>7. Named(w)' /\ Linked(w)' /\ Ready(w)' /\ Owing(w)'
    BY <1>1, <2>1, <2>3, <2>4, <2>5
       DEF Named, Linked, Ready, Owing, Looking, Linking, Copying
  <2>8. RequestInv(w)'
    BY <2>6, <2>7 DEF RequestInv
  <2> QED BY <1>1, <2>2, <2>3, <2>8, MigrationsStand, StepOfRequest
<1>3. CASE ~(Live(br[w].to) /\ parent[br[w].to] # None)
  BY <1>1, <1>3, EndKeeps, MigrationsStand DEF GetBranch
<1> QED BY <1>2, <1>3

LEMMA GetItsParentKeeps ==
    ASSUME BInv, IInv', NEW w \in Worker, GetItsParent(w)
    PROVE  BInv'
<1>1. /\ RequestInv(w) /\ br[w].pc = "getItsParent" /\ job[w].pc = "idle" /\ br[w].kind = "sync"
      /\ UNCHANGED <<migrationVars, parent, data>>
  BY DEF BInv, GetItsParent, RequestInv, Called
<1>2. CASE Live(br[w].from)
  <2>1. PICK pc \in {"exists", "existsBoth"} : StartCopy(w, pc)
    BY <1>2 DEF GetItsParent
  <2>2. UNCHANGED <<project, baseline, river, proc, now, job>>
    BY <1>1 DEF migrationVars, tenants
  <2> QED BY <1>1, <2>1, <2>2, CopyStarts
<1>3. CASE ~Live(br[w].from)
  BY <1>1, <1>3, EndKeeps, MigrationsStand DEF GetItsParent
<1> QED BY <1>2, <1>3

-----------------------------------------------------------------------------
(***************************************************************************)
(* Steps that empty and fill tables.                                       *)
(***************************************************************************)

\* What is not in a list's tail is its head.
LEMMA HeadOrTail ==
    ASSUME NEW S, NEW s \in Seq(S), s # <<>>
    PROVE  /\ Tail(s) \in Seq(S)
           /\ \A k \in DOMAIN s : s[k] = Head(s) \/ \E m \in DOMAIN Tail(s) : Tail(s)[m] = s[k]
<1>1. /\ Tail(s) \in Seq(S) /\ Head(s) = s[1]
      /\ DOMAIN s = 1..Len(s) /\ Len(s) \in Nat
      /\ DOMAIN Tail(s) = 1..(Len(s) - 1)
      /\ \A m \in 1..(Len(s) - 1) : Tail(s)[m] = s[m + 1]
  OBVIOUS
<1>2. ASSUME NEW k \in DOMAIN s, k # 1 PROVE \E m \in DOMAIN Tail(s) : Tail(s)[m] = s[k]
  <2>1. k - 1 \in 1..(Len(s) - 1) /\ (k - 1) + 1 = k
    BY <1>1, <1>2
  <2> QED BY <1>1, <2>1
<1> QED BY <1>1, <1>2

\* The next request record after a table is done.
LEMMA NextRequest ==
    ASSUME BInv, NEW w \in Worker, NEW pc \in {"exists", "existsBoth"}, br[w].todo # <<>>,
           br[w].pc \in Copying
    PROVE  LET q == [br[w] EXCEPT !.pc = pc, !.todo = Tail(@)]
           IN /\ q \in Request /\ q.pc = pc /\ q.kind = br[w].kind /\ q.from = br[w].from
              /\ q.to = br[w].to /\ q.todo = Tail(br[w].todo) /\ q.owed = br[w].owed
              /\ q.deadline = br[w].deadline
<1>1. br[w] \in Request
  BY RequestTypes DEF BInv
<1>2. Tail(br[w].todo) \in Seq(Tables)
  BY RequestTypes, HeadOrTail DEF BInv
<1> QED BY <1>1, <1>2 DEF Request, Tables

\* A request in the middle of a copy stays as it is but for the list and the rows.
LEMMA CopyGoesOn ==
    ASSUME BInv, NEW w \in Worker, br[w].pc \in Copying, br'[w].pc \in Copying,
           br'[w].kind = br[w].kind, br'[w].from = br[w].from, br'[w].to = br[w].to,
           br'[w].deadline = br[w].deadline,
           UNCHANGED <<project, baseline, river, proc, now, job, parent>>
    PROVE  Served(w)' /\ Called(w)' /\ Named(w)' /\ Linked(w)' /\ Ready(w)'
<1>1. RequestInv(w)
  BY DEF BInv
<1>2. br[w].pc \notin {"idle", "apply", "getBranch", "getItsParent", "setParent", "getChild"} \cup Looking
  BY DEF Copying, Looking
<1>3. br'[w].pc \notin {"idle", "apply", "getBranch", "getItsParent", "setParent", "getChild"} \cup Looking
  BY DEF Copying, Looking
<1> QED BY <1>1, <1>2, <1>3 DEF RequestInv, Served, Called, Named, Linked, Ready, Linking, Up, Live,
    Installed

LEMMA TableExistsKeeps ==
    ASSUME BInv, IInv', NEW w \in Worker, TableExists(w)
    PROVE  BInv'
<1>1. /\ br[w] \in Request /\ RequestInv(w) /\ br[w].pc = "exists"
      /\ UNCHANGED <<migrationVars, parent, data>>
      /\ UNCHANGED <<project, baseline, river, proc, now, job, parent, rows>>
  BY RequestTypes DEF BInv, TableExists, migrationVars, tenants, data
<1>2. CASE br[w].todo = <<>>
  <2> DEFINE q == [br[w] EXCEPT !.pc = "existsBoth", !.todo = Table]
  <2>1. br' = [br EXCEPT ![w] = q]
    BY <1>2 DEF TableExists, DefaultCopyTables
  <2>2. /\ q \in Request /\ q.pc = "existsBoth" /\ q.kind = br[w].kind /\ q.from = br[w].from
        /\ q.to = br[w].to /\ q.todo = Table /\ q.owed = br[w].owed /\ q.deadline = br[w].deadline
    BY <1>1, TableType DEF Request, Tables
  <2> HIDE DEF q
  <2>3. br'[w] = q
    BY <2>1, <2>2, OneRequest DEF BInv
  <2>4. Owing(w)'
    BY <1>1, <2>2, <2>3, RequestTypes, TableType DEF RequestInv, Owing, Copying, HasTable, Live, BInv
  <2>5. RequestInv(w)'
    BY <1>1, <2>2, <2>3, <2>4, CopyGoesOn DEF RequestInv, Copying
  <2> QED BY <1>1, <2>1, <2>2, <2>5, MigrationsStand, StepOfRequest
<1>3. CASE br[w].todo # <<>> /\ HasTable(br[w].to)
  BY <1>1, <1>3, StepKeeps DEF TableExists
<1>4. CASE br[w].todo # <<>> /\ ~HasTable(br[w].to)
  <2> DEFINE q == [br[w] EXCEPT !.pc = "exists", !.todo = Tail(@)]
  <2>1. br' = [br EXCEPT ![w] = q]
    <3>1. NextTable(w, "exists")
      BY <1>1, <1>4 DEF TableExists
    <3> QED BY <3>1 DEF NextTable
  <2>2. /\ q \in Request /\ q.pc = "exists" /\ q.kind = br[w].kind /\ q.from = br[w].from
        /\ q.to = br[w].to /\ q.owed = br[w].owed /\ q.deadline = br[w].deadline
    BY <1>1, <1>4, NextRequest DEF Copying
  <2> HIDE DEF q
  <2>3. br'[w] = q
    BY <2>1, <2>2, OneRequest DEF BInv
  <2>4. Owing(w)'
    BY <1>1, <2>2, <2>3 DEF RequestInv, Owing, Copying, HasTable, Live
  <2>5. RequestInv(w)'
    BY <1>1, <2>2, <2>3, <2>4, CopyGoesOn DEF RequestInv, Copying
  <2> QED BY <1>1, <2>1, <2>2, <2>5, MigrationsStand, StepOfRequest
<1> QED BY <1>2, <1>3, <1>4

LEMMA TableExistsInBothKeeps ==
    ASSUME BInv, IInv', NEW w \in Worker, TableExistsInBoth(w)
    PROVE  BInv'
<1>1. /\ RequestInv(w) /\ br[w].pc = "existsBoth" /\ br[w].todo # <<>>
      /\ UNCHANGED <<migrationVars, parent, data>>
      /\ UNCHANGED <<project, baseline, river, proc, now, job, parent, rows>>
  BY DEF BInv, TableExistsInBoth, migrationVars, tenants, data
<1>2. CASE HasTable(br[w].from) /\ HasTable(br[w].to)
  BY <1>1, <1>2, StepKeeps DEF TableExistsInBoth
<1>3. CASE ~(HasTable(br[w].from) /\ HasTable(br[w].to))
  <2> DEFINE q == [br[w] EXCEPT !.pc = "existsBoth", !.todo = Tail(@)]
  <2>1. br' = [br EXCEPT ![w] = q]
    <3>1. NextTable(w, "existsBoth")
      BY <1>1, <1>3 DEF TableExistsInBoth
    <3> QED BY <3>1 DEF NextTable
  <2>2. /\ q \in Request /\ q.pc = "existsBoth" /\ q.kind = br[w].kind /\ q.from = br[w].from
        /\ q.to = br[w].to /\ q.owed = br[w].owed /\ q.deadline = br[w].deadline
    BY <1>1, NextRequest DEF Copying
  <2> HIDE DEF q
  <2>3. br'[w] = q
    BY <2>1, <2>2, OneRequest DEF BInv
  <2>4. br[w].owed = {}
    <3>1. br[w].from \in Project /\ TenantInv(br[w].from)
      BY <1>1 DEF BInv, RequestInv, Named
    <3>2. br[w].owed # {} => br[w].owed \subseteq rows[br[w].from] /\ HasTable(br[w].to)
      BY <1>1 DEF RequestInv, Owing
    <3> QED BY <1>3, <3>1, <3>2 DEF TenantInv
  <2>5. Owing(w)'
    BY <2>2, <2>3, <2>4 DEF Owing
  <2>6. RequestInv(w)'
    BY <1>1, <2>2, <2>3, <2>5, CopyGoesOn DEF RequestInv, Copying
  <2> QED BY <1>1, <2>1, <2>2, <2>6, MigrationsStand, StepOfRequest
<1> QED BY <1>2, <1>3

LEMMA AbortKeeps ==
    ASSUME BInv, IInv', NEW w \in Worker, CopyDone(w) \/ Abort(w)
    PROVE  BInv'
<1>1. End(w) /\ UNCHANGED <<migrationVars, parent, data>>
  BY DEF CopyDone, Abort
<1> QED BY <1>1, EndKeeps, MigrationsStand

\* A request whose projects lose rows, or one of which goes, owes them no longer.
LEMMA RowsForgiven ==
    ASSUME BInv, TenantsStand, NEW c \in Project, NEW S \in SUBSET Id, NEW v \in Worker,
           br'[v] = Forgiven(c, S)[v],
           rows' = [rows EXCEPT ![c] = @ \ S],
           UNCHANGED <<proc, now, job, parent>>,
           \A p \in Project : HasTable(p) => HasTable(p)' \/ (p = c /\ S = Id)
    PROVE  RequestInv(v)' /\ br'[v] \in Request /\ br'[v].pc = br[v].pc /\ br'[v].to = br[v].to
<1>1. RequestInv(v) /\ br[v] \in Request /\ br[v].owed \subseteq Id
  BY RequestTypes DEF BInv
<1>2. br'[v] = IF c \in {br[v].from, br[v].to} THEN [br[v] EXCEPT !.owed = @ \ S] ELSE br[v]
  BY DEF Forgiven
<1>3. /\ Shrunk(v) /\ br'[v] \in Request
      /\ br'[v].owed = IF c \in {br[v].from, br[v].to} THEN br[v].owed \ S ELSE br[v].owed
  BY <1>1, <1>2 DEF Request, Shrunk
<1>4. Served(v)' /\ Called(v)'
  BY <1>1, <1>3 DEF RequestInv, Served, Called, Up, Shrunk
<1>5. /\ rows \in [Project -> SUBSET Id]
      /\ \A p \in Project : rows'[p] = IF p = c THEN rows[c] \ S ELSE rows[p]
  BY DEF BInv, BranchTypes
<1>6. ASSUME br'[v].owed # {}
      PROVE  /\ br'[v].owed \subseteq rows'[br[v].from]
             /\ HasTable(br[v].to)'
             /\ rows[br[v].to] \cap br'[v].owed \subseteq rows'[br[v].to]
  <2>1. /\ br[v].from \in Project /\ br[v].to \in Project
        /\ br[v].owed \subseteq rows[br[v].from] /\ HasTable(br[v].to)
    BY <1>1, <1>3, <1>6 DEF RequestInv, Named, Owing, Copying
  <2>2. br[v].to = c => S # Id
    BY <1>1, <1>3, <1>6
  <2>3. br'[v].to = br[v].to
    BY <1>3 DEF Shrunk
  <2>4. HasTable(br[v].to)'
    BY <2>1, <2>2, <2>3
  <2> QED BY <1>3, <1>5, <2>1, <2>4
<1>7. RequestInv(v)'
  BY <1>3, <1>4, <1>6, RequestStands
<1> QED BY <1>3, <1>7 DEF Shrunk

LEMMA TruncateKeeps ==
    ASSUME BInv, IInv', NEW w \in Worker, Truncate(w)
    PROVE  BInv'
<1> DEFINE c == br[w].to
           gone == In(Head(br[w].todo), rows[c])
           q == [br[w] EXCEPT !.pc = "exists", !.todo = Tail(@)]
<1>1. /\ RequestInv(w) /\ br[w].pc = "truncate" /\ c \in Project /\ br[w].todo # <<>>
      /\ UNCHANGED <<migrationVars, parent, drawn>>
      /\ UNCHANGED <<project, baseline, river, proc, now, job, parent>>
      /\ TenantsStand /\ TablesStand
  BY MigrationsStand DEF BInv, Truncate, RequestInv, Named, Owing, migrationVars, tenants
<1>2. CASE HasTable(c)
  <2>1. rows' = [rows EXCEPT ![c] = @ \ gone] /\ br' = [Forgiven(c, gone) EXCEPT ![w] = q]
    BY <1>2 DEF Truncate
  <2>2. gone \in SUBSET Id
    BY <1>1 DEF In, BInv, BranchTypes
  <2>3. /\ q \in Request /\ q.pc = "exists" /\ q.kind = br[w].kind /\ q.from = br[w].from
        /\ q.to = c /\ q.owed = br[w].owed /\ q.deadline = br[w].deadline
    BY <1>1, NextRequest DEF Copying
  <2> HIDE DEF q, gone
  <2>4. /\ br'[w] = q
        /\ \A v \in Worker \ {w} : br'[v] = Forgiven(c, gone)[v]
        /\ DOMAIN br' = Worker
        /\ br' = [v \in Worker |-> br'[v]]
    BY <2>1 DEF Forgiven
  <2>5. ASSUME NEW v \in Worker \ {w}
        PROVE  /\ RequestInv(v)'
               /\ br'[v] \in Request /\ br'[v].pc = br[v].pc /\ br'[v].to = br[v].to
    BY <1>1, <2>1, <2>2, <2>4, RowsForgiven DEF TablesStand
  <2>6. br[w].owed # {} => br[w].from \in Project /\ br[w].from # c
    BY <1>1 DEF BInv, TenantInv, RequestInv, Named, Linked, Linking, Copying, Looking
  <2>7. /\ rows' \in [Project -> SUBSET Id]
        /\ \A p \in Project : rows'[p] = IF p = c THEN rows[c] \ gone ELSE rows[p]
    BY <2>1, <2>2 DEF BInv, BranchTypes
  <2>8. Owing(w)'
    BY <1>1, <1>2, <2>3, <2>4, <2>6, <2>7 DEF RequestInv, Owing, Copying, HasTable, Live
  <2>9. RequestInv(w)'
    BY <1>1, <2>3, <2>4, <2>8, CopyGoesOn DEF RequestInv, Copying
  <2>10. BranchTypes'
    BY <1>1, <2>3, <2>4, <2>5, <2>7 DEF BInv, BranchTypes
  <2>11. OwnChildren'
    BY <2>3, <2>4, <2>5 DEF BInv, OwnChildren
  <2>12. \A p \in Project : TenantInv(p)'
    BY <1>1, <2>7 DEF BInv, TenantInv, HasTable, Live
  <2> QED BY <2>5, <2>9, <2>10, <2>11, <2>12 DEF BInv
<1>3. CASE ~HasTable(c)
  BY <1>1, <1>3, EndKeeps DEF Truncate, data
<1> QED BY <1>2, <1>3

LEMMA RemoveKeeps ==
    ASSUME BInv, IInv', NEW p \in Project, NEW i \in Id, Remove(p, i)
    PROVE  BInv'
<1>1. /\ UNCHANGED <<project, baseline, river, proc, now, job, parent, drawn>>
      /\ TenantsStand /\ TablesStand
      /\ rows' = [rows EXCEPT ![p] = @ \ {i}]
      /\ br' = Forgiven(p, {i})
  BY MigrationsStand DEF Remove, migrationVars, tenants
<1>2. ASSUME NEW v \in Worker
      PROVE  RequestInv(v)' /\ br'[v] \in Request /\ br'[v].pc = br[v].pc /\ br'[v].to = br[v].to
  BY <1>1, RowsForgiven DEF TablesStand
<1>3. /\ rows' \in [Project -> SUBSET Id]
      /\ \A r \in Project : rows'[r] = IF r = p THEN rows[p] \ {i} ELSE rows[r]
  BY <1>1 DEF BInv, BranchTypes
<1>4. br' = [v \in Worker |-> br'[v]]
  BY <1>1 DEF Forgiven
<1>5. BranchTypes'
  BY <1>1, <1>2, <1>3, <1>4 DEF BInv, BranchTypes
<1>6. OwnChildren'
  BY <1>2 DEF BInv, OwnChildren
<1>7. \A r \in Project : TenantInv(r)'
  BY <1>1, <1>3 DEF BInv, TenantInv, HasTable, Live
<1> QED BY <1>2, <1>5, <1>6, <1>7 DEF BInv

LEMMA DeleteKeeps ==
    ASSUME BInv, IInv', NEW p \in Project, Delete(p)
    PROVE  BInv'
<1>1. /\ UNCHANGED <<proc, now, job, parent, drawn>>
      /\ project' = [project EXCEPT ![p] = "deleted"]
      /\ baseline' = baseline \ {p} /\ river' = river \ {p}
      /\ rows' = [rows EXCEPT ![p] = {}]
      /\ br' = Forgiven(p, Id)
  BY DEF Delete, DeleteProject
<1>2. /\ rows \in [Project -> SUBSET Id] /\ rows' = [rows EXCEPT ![p] = @ \ Id]
      /\ rows' \in [Project -> SUBSET Id]
      /\ \A r \in Project : rows'[r] = IF r = p THEN {} ELSE rows[r]
  BY <1>1 DEF BInv, BranchTypes
<1>3. \A r \in Project : project'[r] = IF r = p THEN "deleted" ELSE project[r]
  BY <1>1 DEF BInv, IInv, MigrationsTypeOK
<1>4. TenantsStand /\ \A r \in Project \ {p} : HasTable(r) => HasTable(r)'
  BY <1>1, <1>3 DEF TenantsStand, HasTable, Live
<1>5. ASSUME NEW v \in Worker
      PROVE  RequestInv(v)' /\ br'[v] \in Request /\ br'[v].pc = br[v].pc /\ br'[v].to = br[v].to
  <2>1. Id \in SUBSET Id /\ br'[v] = Forgiven(p, Id)[v]
    BY <1>1
  <2>2. \A r \in Project : HasTable(r) => HasTable(r)' \/ (r = p /\ Id = Id)
    BY <1>4
  <2>3. UNCHANGED <<proc, now, job, parent>>
    BY <1>1
  <2>4. rows' = [rows EXCEPT ![p] = @ \ Id] /\ TenantsStand
    BY <1>2, <1>4
  <2> QED BY <2>1, <2>2, <2>3, <2>4, RowsForgiven
<1>6. br' = [v \in Worker |-> br'[v]]
  BY <1>1 DEF Forgiven
<1>7. BranchTypes'
  BY <1>1, <1>2, <1>5, <1>6 DEF BInv, BranchTypes
<1>8. OwnChildren'
  BY <1>5 DEF BInv, OwnChildren
<1>9. \A r \in Project : TenantInv(r)'
  BY <1>1, <1>2, <1>3, <1>4 DEF BInv, TenantInv
<1> QED BY <1>5, <1>7, <1>8, <1>9 DEF BInv

\* New rows change nothing for a request that waits.
LEMMA RowsAdded ==
    ASSUME BInv, NEW v \in Worker, br'[v] = br[v],
           UNCHANGED <<project, baseline, river, proc, now, job, parent>>,
           \A p \in Project : rows[p] \subseteq rows'[p]
    PROVE  RequestInv(v)'
<1>1. RequestInv(v)
  BY DEF BInv
<1>2. Served(v)' /\ Called(v)' /\ Named(v)' /\ Linked(v)' /\ Ready(v)'
  BY <1>1 DEF RequestInv, Served, Called, Named, Linked, Ready, Up, Live, Installed
<1>3. br[v].pc \in Copying => br[v].from \in Project /\ br[v].to \in Project
  BY <1>1 DEF RequestInv, Named, Copying
<1>4. Owing(v)'
  BY <1>1, <1>3 DEF RequestInv, Owing, Copying, HasTable, Live
<1> QED BY <1>2, <1>4 DEF RequestInv

LEMMA InsertKeeps ==
    ASSUME BInv, IInv', NEW p \in Project, NEW i \in Id, Insert(p, i)
    PROVE  BInv'
<1>1. /\ UNCHANGED <<project, baseline, river, proc, now, job, parent, br>>
      /\ rows' = [rows EXCEPT ![p] = @ \cup {i}]
      /\ drawn' = drawn \cup {i}
      /\ HasTable(p)
  BY DEF Insert, migrationVars, tenants
<1>2. /\ rows' \in [Project -> SUBSET Id]
      /\ \A r \in Project : rows'[r] = IF r = p THEN rows[p] \cup {i} ELSE rows[r]
  BY <1>1 DEF BInv, BranchTypes
<1>3. \A v \in Worker : RequestInv(v)'
  BY <1>1, <1>2, RowsAdded
<1>4. BranchTypes' /\ OwnChildren'
  BY <1>1, <1>2 DEF BInv, BranchTypes, OwnChildren
<1>5. \A r \in Project : TenantInv(r)'
  BY <1>1, <1>2 DEF BInv, TenantInv, HasTable, Live
<1> QED BY <1>3, <1>4, <1>5 DEF BInv

LEMMA CopyTableKeeps ==
    ASSUME BInv, IInv', NEW w \in Worker, CopyTable(w)
    PROVE  BInv'
<1> DEFINE c == br[w].to
           q == [br[w] EXCEPT !.pc = "existsBoth", !.todo = Tail(@)]
<1>1. /\ RequestInv(w) /\ br[w].pc = "insert" /\ c \in Project /\ br[w].from \in Project
      /\ br[w].todo # <<>> /\ br[w].todo \in Seq(Tables)
      /\ UNCHANGED <<project, baseline, river, proc, now, job, parent, drawn>>
      /\ TenantsStand /\ TablesStand
  BY MigrationsStand, RequestTypes
     DEF BInv, CopyTable, RequestInv, Named, Owing, migrationVars, tenants
<1>2. CASE HasTable(br[w].from) /\ HasTable(c) /\ ~Clash(w)
  <2>1. rows' = [rows EXCEPT ![c] = @ \cup Copied(w)] /\ br' = [br EXCEPT ![w] = q]
    BY <1>2 DEF CopyTable, CopyInto, NextTable
  <2>2. Copied(w) \in SUBSET Id
    BY <1>1 DEF Copied, In, BInv, BranchTypes
  <2>3. /\ q \in Request /\ q.pc = "existsBoth" /\ q.kind = br[w].kind /\ q.from = br[w].from
        /\ q.to = c /\ q.todo = Tail(br[w].todo) /\ q.owed = br[w].owed
        /\ q.deadline = br[w].deadline
    BY <1>1, NextRequest DEF Copying
  <2> HIDE DEF q
  <2>4. /\ br' \in [Worker -> Request]
        /\ br'[w] = q
        /\ \A v \in Worker \ {w} : br'[v] = br[v]
    BY <2>1, <2>3, OneRequest DEF BInv
  <2>5. /\ rows' \in [Project -> SUBSET Id]
        /\ \A p \in Project : rows'[p] = IF p = c THEN rows[c] \cup Copied(w) ELSE rows[p]
    BY <2>1, <2>2 DEF BInv, BranchTypes
  <2>6. \A v \in Worker \ {w} : RequestInv(v)'
    BY <1>1, <2>4, <2>5, RowsAdded
  <2>7. ASSUME NEW i \in br[w].owed
        PROVE  \/ i \in rows'[c]
               \/ \E k \in DOMAIN Tail(br[w].todo) : Tail(br[w].todo)[k] = TableOf[i]
    <3>1. i \in rows[br[w].from]
      BY <1>1 DEF RequestInv, Owing
    <3>2. i \in rows[c] \/ \E k \in DOMAIN br[w].todo : br[w].todo[k] = TableOf[i]
      BY <1>1 DEF RequestInv, Owing
    <3>3. TableOf[i] = Head(br[w].todo) => i \in rows[c] \cup Copied(w)
      BY <3>1 DEF Copied, In
    <3> QED BY <1>1, <2>5, <3>2, <3>3, HeadOrTail
  <2>8. Owing(w)'
    <3>1. /\ br'[w].owed = br[w].owed /\ br'[w].pc = "existsBoth" /\ br'[w].todo = Tail(br[w].todo)
          /\ br'[w].from = br[w].from /\ br'[w].to = c
      BY <2>3, <2>4
    <3>2. br[w].owed # {} => br[w].owed \subseteq rows'[br[w].from]
      BY <1>1, <2>5 DEF RequestInv, Owing
    <3>3. HasTable(br[w].to)'
      BY <1>1, <1>2, <3>1 DEF HasTable, Live
    <3> QED BY <2>7, <3>1, <3>2, <3>3 DEF Owing, Copying
  <2>9. RequestInv(w)'
    BY <1>1, <2>3, <2>4, <2>8, CopyGoesOn DEF RequestInv, Copying
  <2>10. BranchTypes' /\ OwnChildren'
    BY <1>1, <2>3, <2>4, <2>5 DEF BInv, BranchTypes, OwnChildren
  <2>11. \A p \in Project : TenantInv(p)'
    BY <1>1, <1>2, <2>5 DEF BInv, TenantInv, HasTable, Live
  <2> QED BY <2>6, <2>9, <2>10, <2>11 DEF BInv
<1>3. CASE ~(HasTable(br[w].from) /\ HasTable(c) /\ ~Clash(w))
  BY <1>1, <1>3, EndKeeps DEF CopyTable, data
<1> QED BY <1>2, <1>3

-----------------------------------------------------------------------------
(***************************************************************************)
(* Steps of Migrations.                                                    *)
(***************************************************************************)

LEMMA DiesKeeps ==
    ASSUME BInv, IInv', NEW r \in Replica, Dies(r)
    PROVE  BInv'
<1>1. /\ UNCHANGED <<project, baseline, river, now, parent, rows, drawn>>
      /\ proc' = [proc EXCEPT ![r] = Down]
      /\ \A w \in Worker : ReplicaOf[w] # r => job'[w] = job[w]
      /\ br' = [w \in Worker |-> IF ReplicaOf[w] = r THEN NoRequest ELSE br[w]]
  BY DEF Dies, Crash, tenants, data
<1>2. TenantsStand /\ TablesStand
  BY <1>1 DEF TenantsStand, TablesStand, HasTable, Live
<1>3. ASSUME NEW v \in Worker PROVE RequestInv(v)'
  <2>1. CASE ReplicaOf[v] = r
    BY <1>1, <2>1, NothingKnown
  <2>2. CASE ReplicaOf[v] # r
    <3>1. RequestInv(v) /\ br'[v] = br[v] /\ job'[v] = job[v] /\ Shrunk(v)
      BY <1>1, <2>2, SameIsShrunk DEF BInv
    <3>2. proc'[ReplicaOf[v]] = proc[ReplicaOf[v]]
      BY <1>1, <2>2, PlacesAssumption DEF BInv, IInv, MigrationsTypeOK
    <3>3. Served(v)' /\ Called(v)'
      BY <1>1, <3>1, <3>2 DEF RequestInv, Served, Called, Up
    <3>4. br[v].owed # {} => HasTable(br[v].to) /\ br[v].owed \subseteq rows[br[v].from]
      BY <3>1 DEF RequestInv, Owing
    <3>5. br'[v].owed # {} => /\ br'[v].owed \subseteq rows'[br[v].from]
                              /\ HasTable(br[v].to)'
                              /\ rows[br[v].to] \cap br'[v].owed \subseteq rows'[br[v].to]
      BY <1>1, <3>1, <3>4 DEF HasTable, Live
    <3> QED BY <1>1, <1>2, <3>1, <3>3, <3>5, RequestStands
  <2> QED BY <2>1, <2>2
<1>4. BranchTypes'
  BY <1>1, NoRequestType DEF BInv, BranchTypes
<1>5. OwnChildren'
  BY <1>1 DEF BInv, OwnChildren, NoRequest
<1>6. \A p \in Project : TenantInv(p)'
  BY <1>1, <1>2, TenantStands
<1> QED BY <1>3, <1>4, <1>5, <1>6 DEF BInv

\* What is left to show of a step that concerns no branch.
LEMMA StepElsewhere ==
    ASSUME BInv, IInv', UNCHANGED <<branchVars, project>>,
           baseline \subseteq baseline', river \subseteq river',
           \A v \in Worker : Served(v)' /\ Called(v)'
    PROVE  BInv'
<1>1. UNCHANGED <<parent, rows, drawn, br>>
  BY DEF branchVars, data
<1>2. TenantsStand /\ TablesStand
  BY DEF TenantsStand, TablesStand, HasTable, Live
<1>3. ASSUME NEW v \in Worker PROVE RequestInv(v)'
  <2>1. RequestInv(v) /\ br'[v] = br[v] /\ Shrunk(v)
    BY <1>1, SameIsShrunk DEF BInv
  <2>2. br[v].owed # {} => /\ br[v].to \in Project /\ HasTable(br[v].to)
                           /\ br[v].owed \subseteq rows[br[v].from]
    BY <2>1 DEF RequestInv, Owing, Named, Copying
  <2>3. br'[v].owed # {} => /\ br'[v].owed \subseteq rows'[br[v].from]
                            /\ HasTable(br[v].to)'
                            /\ rows[br[v].to] \cap br'[v].owed \subseteq rows'[br[v].to]
    BY <1>1, <1>2, <2>1, <2>2 DEF TablesStand
  <2> QED BY <1>1, <1>2, <2>1, <2>3, RequestStands
<1>4. BranchTypes' /\ OwnChildren'
  BY <1>1 DEF BInv, BranchTypes, OwnChildren
<1>5. \A p \in Project : TenantInv(p)'
  BY <1>1, <1>2, TenantStands
<1> QED BY <1>3, <1>4, <1>5 DEF BInv

LEMMA ApplyEffect ==
    ASSUME MigrationsTypeOK, NEW w \in Worker, ApplyStep(w)
    PROVE  /\ job[w].pc # "idle" /\ job'[w].pc # "idle" /\ job'[w].project = job[w].project
           /\ \A v \in Worker \ {w} : job'[v] = job[v]
           /\ UNCHANGED <<project, now, proc>>
           /\ baseline \subseteq baseline' /\ river \subseteq river'
<1>1. job \in [Worker -> Job] /\ job[w] \in Job
  BY DEF MigrationsTypeOK
<1>2. ASSUME NEW pc \in {"check", "log", "river", "update"}, Goto(w, pc)
      PROVE  /\ job'[w].pc # "idle" /\ job'[w].project = job[w].project
             /\ \A v \in Worker \ {w} : job'[v] = job[v]
  BY <1>1, <1>2 DEF Goto, Job
<1>3. ASSUME NEW pc \in {"done", "failed"}, Return(w, pc)
      PROVE  /\ job'[w].pc # "idle" /\ job'[w].project = job[w].project
             /\ \A v \in Worker \ {w} : job'[v] = job[v]
  BY <1>1, <1>3 DEF Return, Idle
<1>4. CASE GetCredentials(w)
  BY <1>2, <1>3, <1>4 DEF GetCredentials, tenants
<1>5. CASE isApplied(w)
  BY <1>2, <1>3, <1>5 DEF isApplied, tenants
<1>6. CASE LogPending(w)
  BY <1>1, <1>6 DEF LogPending, tenants, Job
<1>7. CASE ApplyBaseline(w)
  BY <1>2, <1>7 DEF ApplyBaseline
<1>8. CASE MigrateRiver(w)
  BY <1>2, <1>8 DEF MigrateRiver
<1>9. CASE StatementFails(w)
  BY <1>1, <1>9 DEF StatementFails, tenants, Job
<1>10. CASE UpdateLog(w)
  BY <1>3, <1>10 DEF UpdateLog, tenants
<1>11. CASE Cancel(w)
  <2>1. job[w].pc # "idle" /\ Return(w, "failed")
    BY <1>11 DEF Cancel, Ended
  <2>2. UNCHANGED <<project, now, proc>> /\ baseline \subseteq baseline' /\ river \subseteq river'
    BY <1>11 DEF Cancel
  <2> QED BY <1>3, <2>1, <2>2
<1> QED BY <1>4, <1>5, <1>6, <1>7, <1>8, <1>9, <1>10, <1>11 DEF ApplyStep

LEMMA PlainApplyKeeps ==
    ASSUME BInv, IInv', NEW w \in Worker, UNCHANGED branchVars,
           \/ br[w].pc = "idle" /\ \E p \in Project : Apply(w, p, now + RequestTimeout)
           \/ br[w].pc = "idle" /\ Respond(w)
           \/ ApplyStep(w)
    PROVE  BInv'
<1>1. br' = br
  BY DEF branchVars
<1>2. /\ UNCHANGED <<project, now, proc>>
      /\ baseline \subseteq baseline' /\ river \subseteq river'
      /\ \A v \in Worker \ {w} : job'[v] = job[v]
      /\ br[w].pc = "idle" \/ (job[w].pc # "idle" /\ job'[w].pc # "idle"
                                 /\ job'[w].project = job[w].project)
  BY ApplyEffect DEF Apply, Respond, tenants, BInv, IInv, MigrationsTypeOK
<1>3. ASSUME NEW v \in Worker PROVE Served(v)' /\ Called(v)'
  <2>1. RequestInv(v)
    BY DEF BInv
  <2> QED BY <1>1, <1>2, <2>1 DEF RequestInv, Served, Called, Up, Looking
<1> QED BY <1>2, <1>3, StepElsewhere

LEMMA ReplicaStarts ==
    ASSUME BInv, IInv', NEW r \in Replica, StartupStep(r), UNCHANGED branchVars
    PROVE  BInv'
<1>1. br' = br
  BY DEF branchVars
<1>2. UNCHANGED <<project, baseline, river, now, job>>
  BY DEF StartupStep, Start, SweepStale, ReencryptList, ReencryptRow, ReencryptEnds, tenants
<1>3. proc[r].pc # "up"
  BY DEF StartupStep, Start, SweepStale, ReencryptList, ReencryptRow, ReencryptEnds
<1>4. \A s \in Replica \ {r} : proc'[s] = proc[s]
  BY DEF StartupStep, Start, SweepStale, ReencryptList, ReencryptRow, ReencryptEnds, BInv, IInv,
     MigrationsTypeOK
<1>5. ASSUME NEW v \in Worker PROVE Served(v)' /\ Called(v)'
  <2>1. RequestInv(v) /\ ReplicaOf[v] \in Replica
    BY PlacesAssumption DEF BInv
  <2> QED BY <1>1, <1>2, <1>3, <1>4, <2>1 DEF RequestInv, Served, Called, Up
<1> QED BY <1>2, <1>5, StepElsewhere

LEMMA TimePassesKeeps ==
    ASSUME BInv, IInv', TimePasses
    PROVE  BInv'
<1>1. /\ UNCHANGED branchVars /\ br' = br
      /\ UNCHANGED <<project, baseline, river, proc, job>>
      /\ now' = now + 1 /\ now \in Nat /\ RequestTimeout \in Nat
      /\ \A w \in Worker : br[w].pc # "idle" => now < br[w].deadline
  BY TimesAssumption DEF TimePasses, Tick, tenants, branchVars, BInv, IInv, MigrationsTypeOK
<1>2. ASSUME NEW v \in Worker PROVE Served(v)' /\ Called(v)'
  <2>1. RequestInv(v) /\ br[v].deadline \in Nat
    BY RequestTypes DEF BInv
  <2> QED BY <1>1, <2>1 DEF RequestInv, Served, Called, Up
<1> QED BY <1>1, <1>2, StepElsewhere

-----------------------------------------------------------------------------
(***************************************************************************)
(* The theorems.                                                           *)
(***************************************************************************)

LEMMA BranchesInitially == Init => BInv
<1> SUFFICES ASSUME Init PROVE BInv
  OBVIOUS
<1>1. IInv
  BY Initially DEF Init
<1>2. BranchTypes
  BY NoRequestType DEF Init, BranchTypes
<1>3. \A w \in Worker : RequestInv(w)
  BY DEF Init, NoRequest, RequestInv, Served, Called, Named, Linked, Ready, Owing, Looking,
     Linking, Copying
<1>4. OwnChildren
  BY DEF Init, NoRequest, OwnChildren
<1>5. \A p \in Project : TenantInv(p)
  BY PlacesAssumption DEF Init, TenantInv
<1> QED BY <1>1, <1>2, <1>3, <1>4, <1>5 DEF BInv

LEMMA BranchesInductive == BInv /\ [Next]_vars => BInv' /\ [MigrationsNext]_migrationVars
<1> SUFFICES ASSUME BInv, [Next]_vars PROVE BInv' /\ [MigrationsNext]_migrationVars
  OBVIOUS
<1>1. [MigrationsNext]_migrationVars
  BY StepImplements DEF BInv, IInv, RequestInv
<1>2. IInv'
  BY <1>1, Inductive DEF BInv
<1>3. ASSUME NEW w \in Worker, Begin(w) PROVE BInv'
  BY <1>2, <1>3, PlainApplyKeeps, BeginCreateKeeps, BeginSyncKeeps DEF Begin
<1>4. ASSUME NEW w \in Worker, BranchStep(w) PROVE BInv'
  BY <1>2, <1>4, GetParentKeeps, CreateChildKeeps, SetParentKeeps, GetChildKeeps, AfterApplyKeeps,
     GetBranchKeeps, GetItsParentKeeps, TableExistsKeeps, TruncateKeeps, TableExistsInBothKeeps,
     CopyTableKeeps, AbortKeeps DEF BranchStep
<1>5. ASSUME NEW w \in Worker, UNCHANGED branchVars,
             ApplyStep(w) \/ (br[w].pc = "idle" /\ Respond(w))
      PROVE  BInv'
  BY <1>2, <1>5, PlainApplyKeeps
<1>6. ASSUME NEW r \in Replica, Dies(r) \/ (StartupStep(r) /\ UNCHANGED branchVars) PROVE BInv'
  BY <1>2, <1>6, DiesKeeps, ReplicaStarts
<1>7. ASSUME NEW p \in Project, Delete(p) \/ \E i \in Id : Insert(p, i) \/ Remove(p, i)
      PROVE  BInv'
  BY <1>2, <1>7, DeleteKeeps, InsertKeeps, RemoveKeeps
<1>8. CASE TimePasses
  BY <1>1, <1>2, <1>8, TimePassesKeeps
<1>9. CASE UNCHANGED vars
  <2>1. UNCHANGED branchVars /\ UNCHANGED <<project, baseline, river, now, proc, job>> /\ br' = br
    BY <1>9 DEF vars, migrationVars, tenants, branchVars
  <2>2. ASSUME NEW v \in Worker PROVE Served(v)' /\ Called(v)'
    BY <2>1 DEF BInv, RequestInv, Served, Called, Up
  <2> QED BY <1>1, <1>2, <2>1, <2>2, StepElsewhere
<1> QED BY <1>1, <1>3, <1>4, <1>5, <1>6, <1>7, <1>8, <1>9 DEF Next

\* What a request knows of its replica, its Apply, its projects and its copy,
\* and what holds of the links and rows of every project, hold in every state.
THEOREM BranchesInvariant == Spec => []BInv
BY BranchesInitially, BranchesInductive, PTL DEF Spec

\* Create and Sync are nothing new to Apply and to the replicas: every behaviour
\* of the branches' service is one of Migrations, stutters aside.
THEOREM BranchesImplement == Spec => ImplementsMigrations
<1>1. BInv /\ [Next]_vars => [UNCHANGED migrationVars \/ MigrationsNext]_migrationVars
  BY BranchesInductive
<1>2. Init => MigrationsInit
  BY DEF Init
<1> QED BY <1>1, <1>2, BranchesInvariant, PTL DEF Spec, ImplementsMigrations

\* With branches, too, what the log calls applied is installed.
THEOREM BranchesKeepTheLog == Spec => []AppliedIsInstalled
<1>1. ImplementsMigrations => MigrationsSpec
  <2>1. [UNCHANGED migrationVars \/ MigrationsNext]_migrationVars => [MigrationsNext]_migrationVars
    OBVIOUS
  <2> QED BY <2>1, PTL DEF ImplementsMigrations, MigrationsSpec
<1> QED BY <1>1, BranchesImplement, LogIsTrue, PTL

\* Only clients and copies add rows, and a copy adds what its child's parent has.
LEMMA RowsStep ==
    ASSUME BInv, [Next]_vars, NEW p \in Project, NEW i \in rows'[p] \ rows[p]
    PROVE  i \notin drawn \/ (parent[p] # None /\ i \in rows[parent[p]])
<1>1. rows \in [Project -> SUBSET Id]
  BY DEF BInv, BranchTypes
<1>2. UNCHANGED rows => FALSE
  OBVIOUS
<1>3. ASSUME NEW w \in Worker, CopyTable(w)
      PROVE  parent[p] # None /\ i \in rows[parent[p]]
  <2>1. /\ rows' = [rows EXCEPT ![br[w].to] = @ \cup Copied(w)]
        /\ br[w].pc = "insert"
    BY <1>2, <1>3 DEF CopyTable, CopyInto
  <2>2. i \in Copied(w) /\ p = br[w].to
    BY <1>1, <2>1
  <2>3. parent[p] = br[w].from /\ br[w].from \in Project
    BY <2>1, <2>2 DEF BInv, RequestInv, Named, Linked, Linking, Copying
  <2> QED BY <2>2, <2>3, PlacesAssumption DEF Copied, In
<1>4. ASSUME NEW w \in Worker, Truncate(w) PROVE FALSE
  <2>1. PICK S : rows' = [rows EXCEPT ![br[w].to] = @ \ S]
    BY <1>2, <1>4 DEF Truncate
  <2> QED BY <1>1, <2>1
<1>5. ASSUME NEW q \in Project, Delete(q) PROVE FALSE
  BY <1>1, <1>5 DEF Delete
<1>6. ASSUME NEW q \in Project, NEW j \in Id, Remove(q, j) PROVE FALSE
  BY <1>1, <1>6 DEF Remove
<1>7. ASSUME NEW q \in Project, NEW j \in Id, Insert(q, j) PROVE i \notin drawn
  BY <1>1, <1>7 DEF Insert
<1>8. ASSUME NEW w \in Worker, Begin(w) PROVE FALSE
  BY <1>2, <1>8 DEF Begin, BeginCreate, BeginSync, branchVars, data
<1>9. ASSUME NEW w \in Worker, BranchStep(w), ~Truncate(w), ~CopyTable(w) PROVE FALSE
  BY <1>2, <1>9 DEF BranchStep, GetParent, CreateChild, SetParent, GetChild, AfterApply, GetBranch,
     GetItsParent, TableExists, TableExistsInBoth, CopyDone, Abort, data
<1>10. (\E r \in Replica : Dies(r)) \/ TimePasses \/ UNCHANGED branchVars \/ UNCHANGED vars => FALSE
  BY <1>2 DEF Dies, TimePasses, branchVars, vars, data
<1> QED BY <1>3, <1>4, <1>5, <1>6, <1>7, <1>8, <1>9, <1>10 DEF Next

\* No branch ever writes into its parent, into a sibling or into a stranger.
THEOREM RowsAreInherited == Spec => RowsComeFromTheParent
<1>1. BInv /\ [Next]_vars =>
        [\A p \in Project : \A i \in rows'[p] \ rows[p] :
            i \notin drawn \/ (parent[p] # None /\ i \in rows[parent[p]])]_vars
  BY RowsStep
<1> QED BY <1>1, BranchesInvariant, PTL DEF Spec, RowsComeFromTheParent

\* A copy that reports success has left nothing out that was there all along.
THEOREM CopiesComplete == Spec => CopiesAreComplete
<1>1. ASSUME BInv, NEW w \in Worker, CopyDone(w) PROVE br[w].owed \subseteq rows[br[w].to]
  <2>1. br[w].pc = "existsBoth" /\ DOMAIN br[w].todo = {}
    BY <1>1 DEF CopyDone
  <2> QED BY <1>1, <2>1 DEF BInv, RequestInv, Owing
<1>2. BInv => [\A w \in Worker : CopyDone(w) => br[w].owed \subseteq rows[br[w].to]]_vars
  BY <1>1
<1> QED BY <1>2, BranchesInvariant, PTL DEF CopiesAreComplete

\* A branch whose creation is reported is linked to its parent and provisioned,
\* unless it has been deleted meanwhile.
THEOREM BranchesReady == Spec => BranchesAreReady
<1>1. ASSUME BInv, NEW w \in Worker, CreateSucceeds(w), Live(br[w].to)
      PROVE  parent[br[w].to] = br[w].from /\ Installed(br[w].to)
  <2>1. RequestInv(w) /\ JobInv(w)
    BY <1>1 DEF BInv, IInv
  <2>2. CASE AfterApply(w) /\ job[w].pc = "done"
    BY <1>1, <2>1, <2>2
       DEF AfterApply, RequestInv, Called, Linked, Linking, JobInv, HasInstalled
  <2>3. CASE CopyDone(w) /\ br[w].kind = "create"
    BY <1>1, <2>1, <2>3 DEF CopyDone, RequestInv, Linked, Linking, Ready, Copying
  <2> QED BY <1>1, <2>2, <2>3 DEF CreateSucceeds
<1>2. BInv => [\A w \in Worker : CreateSucceeds(w) /\ Live(br[w].to)
                  => parent[br[w].to] = br[w].from /\ Installed(br[w].to)]_vars
  BY <1>1
<1> QED BY <1>2, BranchesInvariant, PTL DEF BranchesAreReady
-----------------------------------------------------------------------------
(***************************************************************************)
(* The family tree.                                                        *)
(***************************************************************************)

\* p is linked to q, or a handler that has created it is about to link it.
LinksTo(p, q) == \/ parent[p] = q
                 \/ \E w \in Worker : br[w].pc = "setParent" /\ br[w].to = p /\ br[w].from = q

\* Every set of projects has a member that none of its links, nor a pending one,
\* leads from into the set: nobody who follows the links goes round in a circle.
Forest == \A S \in SUBSET Project : S # {} => \E p \in S : \A q \in S : ~LinksTo(p, q)
LinksKnown == \A p, q \in Project : LinksTo(p, q) => project[q] # "absent"
ForestInv == Forest /\ LinksKnown

NoCycles == \A S \in SUBSET Project : S # {} => \E p \in S : parent[p] \notin S
ParentsStay == [][\A p \in Project : parent[p] # None => parent'[p] = parent[p]]_vars

PendingStays == \A v \in Worker : br'[v].pc = "setParent" =>
    br[v].pc = "setParent" /\ br'[v].to = br[v].to /\ br'[v].from = br[v].from

LEMMA PendingKept ==
    ASSUME BranchTypes, NEW w \in Worker, NEW q \in Request,
           br' = [br EXCEPT ![w] = q],
           q.pc # "setParent"
    PROVE  PendingStays
BY OneRequest DEF PendingStays

LEMMA ForgivenStays ==
    ASSUME BranchTypes, NEW p \in Project, NEW S \in SUBSET Id, br' = Forgiven(p, S)
    PROVE  PendingStays
<1> SUFFICES ASSUME NEW v \in Worker
             PROVE  br'[v].pc = br[v].pc /\ br'[v].to = br[v].to /\ br'[v].from = br[v].from
  BY DEF PendingStays
<1>1. br[v] \in Request
  BY DEF BranchTypes
<1>2. br'[v] = br[v] \/ br'[v] = [br[v] EXCEPT !.owed = @ \ S]
  BY DEF Forgiven
<1> QED BY <1>1, <1>2 DEF Request

\* Only createChild makes a link pending.
LEMMA BranchStepPends ==
    ASSUME BInv, NEW w \in Worker, BranchStep(w), ~CreateChild(w)
    PROVE  PendingStays
<1>0. BranchTypes /\ br[w] \in Request
  BY DEF BInv, BranchTypes
<1>1. ASSUME NEW pc, pc # "setParent", Step(w, pc) PROVE PendingStays
  <2>1. /\ \A v \in Worker \ {w} : br'[v] = br[v]
        /\ br'[w] = [br[w] EXCEPT !.pc = pc]
    BY <1>0, <1>1 DEF Step, BranchTypes
  <2>2. br'[w].pc = pc
    BY <1>0, <2>1 DEF Request
  <2> QED BY <1>1, <2>1, <2>2 DEF PendingStays
<1>2. ASSUME End(w) PROVE PendingStays
  <2>1. NoRequest.pc # "setParent"
    BY DEF NoRequest
  <2> QED BY <1>0, <1>2, <2>1, NoRequestType, PendingKept DEF End
<1>3. ASSUME NEW pc, pc # "setParent", StartCopy(w, pc) \/ NextTable(w, pc) PROVE PendingStays
  <2>1. \A v \in Worker \ {w} : br'[v] = br[v]
    BY <1>0, <1>3 DEF StartCopy, NextTable, BranchTypes
  <2>2. br'[w].pc = pc
    <3>1. CASE StartCopy(w, pc)
      <4> DEFINE o == IF HasTable(br[w].to) THEN rows[br[w].from] ELSE {}
      <4>1. br'[w] = [br[w] EXCEPT !.pc = pc, !.todo = DefaultCopyTables, !.owed = o]
        BY <1>0, <3>1 DEF StartCopy, BranchTypes
      <4> HIDE DEF o
      <4> QED BY <1>0, <4>1 DEF Request
    <3>2. CASE NextTable(w, pc)
      <4>1. br'[w] = [br[w] EXCEPT !.pc = pc, !.todo = Tail(@)]
        BY <1>0, <3>2 DEF NextTable, BranchTypes
      <4> QED BY <1>0, <4>1 DEF Request
    <3> QED BY <1>3, <3>1, <3>2
  <2> QED BY <1>3, <2>1, <2>2 DEF PendingStays
<1>4. CASE GetParent(w) \/ SetParent(w) \/ GetChild(w) \/ Abort(w) \/ CopyDone(w)
  BY <1>1, <1>2, <1>4 DEF GetParent, SetParent, GetChild, Abort, CopyDone
<1>5. CASE AfterApply(w) \/ GetItsParent(w) \/ TableExistsInBoth(w) \/ CopyTable(w)
  BY <1>1, <1>2, <1>3, <1>5 DEF AfterApply, GetItsParent, TableExistsInBoth, CopyTable
<1>6. CASE GetBranch(w)
  <2>1. CASE End(w)
    BY <1>2, <2>1
  <2>2. CASE ~End(w)
    <3>1. /\ \A v \in Worker \ {w} : br'[v] = br[v]
          /\ br'[w] = [br[w] EXCEPT !.pc = "getItsParent", !.from = parent[br[w].to]]
      BY <1>0, <1>6, <2>2 DEF GetBranch, BranchTypes
    <3>2. br'[w].pc = "getItsParent"
      BY <1>0, <3>1 DEF Request
    <3> QED BY <3>1, <3>2 DEF PendingStays
  <2> QED BY <2>1, <2>2
<1>7. CASE TableExists(w)
  <2>1. CASE br[w].todo = <<>>
    <3>1. /\ \A v \in Worker \ {w} : br'[v] = br[v]
          /\ br'[w] = [br[w] EXCEPT !.pc = "existsBoth", !.todo = DefaultCopyTables]
      BY <1>0, <1>7, <2>1 DEF TableExists, BranchTypes
    <3>2. br'[w].pc = "existsBoth"
      BY <1>0, <3>1 DEF Request
    <3> QED BY <3>1, <3>2 DEF PendingStays
  <2>2. CASE br[w].todo # <<>>
    BY <1>1, <1>3, <1>7, <2>2 DEF TableExists
  <2> QED BY <2>1, <2>2
<1>8. CASE Truncate(w)
  <2>1. CASE End(w)
    BY <1>2, <2>1
  <2>2. CASE ~End(w)
    <3>1. PICK gone : br' = [Forgiven(br[w].to, gone) EXCEPT
                               ![w] = [br[w] EXCEPT !.pc = "exists", !.todo = Tail(@)]]
      BY <1>8, <2>2 DEF Truncate
    <3>2. /\ br'[w] = [br[w] EXCEPT !.pc = "exists", !.todo = Tail(@)]
          /\ \A v \in Worker \ {w} :
               br'[v] = br[v] \/ br'[v] = [br[v] EXCEPT !.owed = @ \ gone]
      BY <3>1 DEF Forgiven
    <3>3. br'[w].pc = "exists"
      BY <1>0, <3>2 DEF Request
    <3>4. \A v \in Worker : br[v] \in Request
      BY <1>0 DEF BranchTypes
    <3>5. \A v \in Worker \ {w} :
            br'[v].pc = br[v].pc /\ br'[v].to = br[v].to /\ br'[v].from = br[v].from
      BY <3>2, <3>4 DEF Request
    <3> QED BY <3>3, <3>5 DEF PendingStays
  <2> QED BY <2>1, <2>2
<1> QED BY <1>4, <1>5, <1>6, <1>7, <1>8 DEF BranchStep

LEMMA OnlyCreatePends ==
    ASSUME BInv, [Next]_vars, \A w \in Worker : ~CreateChild(w)
    PROVE  PendingStays
<1>0. BranchTypes
  BY DEF BInv
<1>a. now + RequestTimeout \in Nat
  BY TimesAssumption DEF BInv, IInv, MigrationsTypeOK
<1>1. ASSUME br' = br PROVE PendingStays
  BY <1>1 DEF PendingStays
<1>2. ASSUME NEW w \in Worker, Begin(w) PROVE PendingStays
  <2>1. ASSUME NEW p \in Project, NEW c \in Project, NEW d \in BOOLEAN, BeginCreate(w, p, c, d)
        PROVE  PendingStays
    <3> DEFINE q == [NoRequest EXCEPT !.pc = "getParent", !.from = p, !.to = c,
                                      !.option = d, !.deadline = now + RequestTimeout]
    <3>1. q \in Request
      BY <1>a, NewCreate
    <3>2. q.pc = "getParent"
      BY DEF NoRequest
    <3>3. br' = [br EXCEPT ![w] = q]
      BY <2>1 DEF BeginCreate
    <3> HIDE DEF q
    <3> QED BY <1>0, <3>1, <3>2, <3>3, PendingKept
  <2>2. ASSUME NEW c \in Project, NEW t \in BOOLEAN, BeginSync(w, c, t) PROVE PendingStays
    <3> DEFINE q == [NoRequest EXCEPT !.pc = "getBranch", !.kind = "sync", !.to = c,
                                      !.option = t, !.deadline = now + RequestTimeout]
    <3>1. q \in Request
      BY <1>a, NewSync
    <3>2. q.pc = "getBranch"
      BY DEF NoRequest
    <3>3. br' = [br EXCEPT ![w] = q]
      BY <2>2 DEF BeginSync
    <3> HIDE DEF q
    <3> QED BY <1>0, <3>1, <3>2, <3>3, PendingKept
  <2> QED BY <1>1, <1>2, <2>1, <2>2 DEF Begin, branchVars
<1>3. ASSUME NEW w \in Worker, BranchStep(w) PROVE PendingStays
  BY <1>3, BranchStepPends
<1>4. ASSUME NEW r \in Replica, Dies(r) PROVE PendingStays
  BY <1>4 DEF Dies, NoRequest, PendingStays
<1>5. ASSUME NEW p \in Project, NEW i \in Id, Remove(p, i) PROVE PendingStays
  BY <1>0, <1>5, ForgivenStays DEF Remove
<1>6. ASSUME NEW p \in Project, Delete(p) PROVE PendingStays
  BY <1>0, <1>6, ForgivenStays DEF Delete
<1>7. ASSUME NEW p \in Project, NEW i \in Id, Insert(p, i) PROVE PendingStays
  BY <1>1, <1>7 DEF Insert
<1>8. CASE TimePasses \/ UNCHANGED vars
  BY <1>1, <1>8 DEF TimePasses, vars, branchVars
<1> QED BY <1>1, <1>2, <1>3, <1>4, <1>5, <1>6, <1>7, <1>8 DEF Next, branchVars

\* Only setParent links, and only what nobody has linked.
LEMMA ParentStep ==
    ASSUME BInv, [Next]_vars
    PROVE  \/ parent' = parent
           \/ \E w \in Worker : /\ SetParent(w)
                                /\ br[w].to \in Project /\ br[w].from \in Project
                                /\ parent[br[w].to] = None
                                /\ parent' = [parent EXCEPT ![br[w].to] = br[w].from]
<1>1. ASSUME NEW w \in Worker, SetParent(w)
      PROVE  /\ br[w].to \in Project /\ br[w].from \in Project /\ parent[br[w].to] = None
             /\ parent' = [parent EXCEPT ![br[w].to] = br[w].from]
  BY <1>1 DEF SetParent, BInv, RequestInv, Named, Linked
<1>2. ASSUME NEW w \in Worker, BranchStep(w), ~SetParent(w) PROVE parent' = parent
  BY <1>2 DEF BranchStep, GetParent, CreateChild, GetChild, AfterApply, GetBranch, GetItsParent,
     TableExists, Truncate, TableExistsInBoth, CopyTable, CopyDone, Abort
<1>3. ASSUME NEW w \in Worker, Begin(w) PROVE parent' = parent
  BY <1>3 DEF Begin, BeginCreate, BeginSync, branchVars
<1>4. CASE TimePasses \/ UNCHANGED vars
  BY <1>4 DEF TimePasses, vars, branchVars
<1>5. ASSUME NEW p \in Project, Delete(p) \/ \E i \in Id : Insert(p, i) \/ Remove(p, i)
      PROVE  parent' = parent
  BY <1>5 DEF Delete, Insert, Remove
<1>6. ASSUME NEW r \in Replica, Dies(r) PROVE parent' = parent
  BY <1>6 DEF Dies
<1> QED BY <1>1, <1>2, <1>3, <1>4, <1>5, <1>6 DEF Next, branchVars

\* A name, once taken, is taken for good.
LEMMA ProjectsStay ==
    ASSUME MigrationsTypeOK, [MigrationsNext]_migrationVars
    PROVE  \A p \in Project : project[p] # "absent" => project'[p] # "absent"
<1>0. project \in [Project -> {"absent", "live", "deleted"}]
  BY DEF MigrationsTypeOK
<1>1. ASSUME NEW r \in Replica, NEW p \in Project, CreateProject(r, p) \/ DeleteProject(p)
      PROVE  \A q \in Project : project[q] # "absent" => project'[q] # "absent"
  BY <1>0, <1>1 DEF CreateProject, DeleteProject
<1>2. ASSUME NEW w \in Worker, ApplyStep(w) \/ Respond(w) PROVE project' = project
  BY <1>2 DEF ApplyStep, GetCredentials, isApplied, LogPending, ApplyBaseline, MigrateRiver,
     StatementFails, UpdateLog, Cancel, Respond, tenants
<1>3. ASSUME NEW r \in Replica, StartupStep(r) \/ Crash(r) PROVE project' = project
  BY <1>3 DEF StartupStep, Start, SweepStale, ReencryptList, ReencryptRow, ReencryptEnds,
     Crash, tenants
<1>4. ASSUME NEW w \in Worker, NEW p \in Project, NEW d \in Nat, Apply(w, p, d)
      PROVE  project' = project
  BY <1>4 DEF Apply, tenants
<1>5. CASE Tick \/ UNCHANGED migrationVars
  BY <1>5 DEF Tick, tenants, migrationVars
<1>6. ASSUME NEW p \in Project, DeleteProject(p)
      PROVE  \A q \in Project : project[q] # "absent" => project'[q] # "absent"
  BY <1>0, <1>6 DEF DeleteProject
<1>7. now..(now + RequestTimeout) \subseteq Nat
  BY TimesAssumption DEF MigrationsTypeOK
<1> QED BY <1>1, <1>2, <1>3, <1>4, <1>5, <1>6, <1>7 DEF MigrationsNext

\* A step adds no link but that of a child it creates.
LEMMA LinkStep ==
    ASSUME BInv, [Next]_vars
    PROVE  \/ \A p, q \in Project : LinksTo(p, q)' => LinksTo(p, q)
           \/ \E c, f \in Project :
                /\ project[c] = "absent" /\ project[f] # "absent"
                /\ \A p, q \in Project : LinksTo(p, q)' => LinksTo(p, q) \/ (p = c /\ q = f)
<1>1. CASE \A w \in Worker : ~CreateChild(w)
  <2>1. PendingStays
    BY <1>1, OnlyCreatePends
  <2>2. \A p, q \in Project : parent'[p] = q => LinksTo(p, q)
    <3>1. parent \in [Project -> Project \cup {None}]
      BY DEF BInv, BranchTypes
    <3> QED BY <3>1, ParentStep DEF LinksTo, SetParent
  <2> QED BY <2>1, <2>2 DEF LinksTo, PendingStays
<1>2. ASSUME NEW w \in Worker, CreateChild(w)
      PROVE  \/ \A p, q \in Project : LinksTo(p, q)' => LinksTo(p, q)
             \/ \E c, f \in Project :
                  /\ project[c] = "absent" /\ project[f] # "absent"
                  /\ \A p, q \in Project : LinksTo(p, q)' => LinksTo(p, q) \/ (p = c /\ q = f)
  <2>0. /\ br[w] \in Request /\ BranchTypes
        /\ br[w].to \in Project /\ br[w].from \in Project /\ project[br[w].from] # "absent"
        /\ parent' = parent
    BY <1>2, RequestTypes DEF CreateChild, BInv, BranchTypes, RequestInv, Named, Looking
  <2>1. CASE project[br[w].to] # "absent"
    <3>1. End(w)
      BY <1>2, <2>1 DEF CreateChild
    <3>2. PendingStays
      <4>1. NoRequest.pc # "setParent"
        BY DEF NoRequest
      <4> QED BY <2>0, <3>1, <4>1, NoRequestType, PendingKept DEF End
    <3> QED BY <2>0, <3>2 DEF LinksTo, PendingStays
  <2>2. CASE project[br[w].to] = "absent"
    <3>1. /\ \A v \in Worker \ {w} : br'[v] = br[v]
          /\ br'[w] = [br[w] EXCEPT !.pc = "setParent"]
      BY <1>2, <2>0, <2>2 DEF CreateChild, Step, BranchTypes
    <3>2. br'[w].to = br[w].to /\ br'[w].from = br[w].from
      BY <2>0, <3>1 DEF Request
    <3>3. \A p, q \in Project :
            LinksTo(p, q)' => LinksTo(p, q) \/ (p = br[w].to /\ q = br[w].from)
      BY <2>0, <3>1, <3>2 DEF LinksTo
    <3> QED BY <2>0, <2>2, <3>3
  <2> QED BY <2>1, <2>2
<1> QED BY <1>1, <1>2

LEMMA ForestStep ==
    ASSUME BInv, ForestInv, [Next]_vars
    PROVE  ForestInv'
<1>1. \A p \in Project : project[p] # "absent" => project'[p] # "absent"
  <2>1. MigrationsTypeOK /\ [MigrationsNext]_migrationVars
    BY BranchesInductive DEF BInv, IInv
  <2> QED BY <2>1, ProjectsStay
<1>2. CASE \A p, q \in Project : LinksTo(p, q)' => LinksTo(p, q)
  <2>1. LinksKnown'
    BY <1>1, <1>2 DEF ForestInv, LinksKnown
  <2>2. Forest'
    BY <1>2 DEF ForestInv, Forest
  <2> QED BY <2>1, <2>2 DEF ForestInv
<1>3. ASSUME NEW c \in Project, NEW f \in Project,
             project[c] = "absent", project[f] # "absent",
             \A p, q \in Project : LinksTo(p, q)' => LinksTo(p, q) \/ (p = c /\ q = f)
      PROVE  ForestInv'
  <2>1. LinksKnown'
    BY <1>1, <1>3 DEF ForestInv, LinksKnown
  <2>2. ASSUME NEW S \in SUBSET Project, S # {} PROVE \E p \in S : \A q \in S : ~LinksTo(p, q)'
    <3>1. \A p \in Project : ~LinksTo(p, c)
      BY <1>3 DEF ForestInv, LinksKnown
    <3>2. CASE S \ {c} = {}
      <4>1. S = {c} /\ c # f
        BY <1>3, <2>2, <3>2
      <4> QED BY <1>3, <3>1, <4>1
    <3>3. CASE S \ {c} # {}
      <4>1. PICK p \in S \ {c} : \A q \in S \ {c} : ~LinksTo(p, q)
        BY <3>3 DEF ForestInv, Forest
      <4> QED BY <1>3, <3>1, <4>1
    <3> QED BY <3>2, <3>3
  <2> QED BY <2>1, <2>2 DEF ForestInv, Forest
<1> QED BY <1>2, <1>3, LinkStep

LEMMA ForestInitially == Init => ForestInv
BY PlacesAssumption DEF Init, NoRequest, ForestInv, Forest, LinksKnown, LinksTo

\* Create looks the parent up before it takes the child's name and links the two in
\* a later statement: however creations race, and whatever is deleted meanwhile, no
\* project becomes a branch of its own branch, so that Syncs down a chain begin somewhere.
THEOREM NoBranchIsItsOwnAncestor == Spec => []NoCycles
<1>1. ForestInv => NoCycles
  BY DEF ForestInv, Forest, NoCycles, LinksTo
<1>2. BInv /\ ForestInv /\ [Next]_vars => ForestInv'
  BY ForestStep
<1> QED BY <1>1, <1>2, ForestInitially, BranchesInvariant, PTL DEF Spec

\* A branch stays with the parent it was created for: no later creation, Sync or
\* deletion of either links it elsewhere.
THEOREM BranchesStayLinked == Spec => ParentsStay
<1>1. BInv /\ [Next]_vars => [\A p \in Project : parent[p] # None => parent'[p] = parent[p]]_vars
  <2> SUFFICES ASSUME BInv, [Next]_vars, NEW p \in Project, parent[p] # None
               PROVE  parent'[p] = parent[p]
    OBVIOUS
  <2>1. parent \in [Project -> Project \cup {None}]
    BY DEF BInv, BranchTypes
  <2> QED BY <2>1, ParentStep
<1> QED BY <1>1, BranchesInvariant, PTL DEF Spec, ParentsStay
=============================================================================

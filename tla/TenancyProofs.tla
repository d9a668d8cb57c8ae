--------------------------- MODULE TenancyProofs ---------------------------
(***************************************************************************)
(* Theorems about Tenancy, for every set of projects, roles, objects,      *)
(* handlers and sweepers: roles, rows and owners go together; a retirement *)
(* is not early, loses no object and stops for failures only; no role      *)
(* outlives its project; and the whole implements Credential.              *)
(***************************************************************************)
EXTENDS Tenancy, TLAPS

\* One handler moves to another well-formed request.
LEMMA RequestUpdate ==
    ASSUME req \in [Worker -> Request], NEW w \in Worker, NEW x \in Request,
           req' = [req EXCEPT ![w] = x] \/ req' = [req EXCEPT ![w] = Idle]
    PROVE  req' \in [Worker -> Request]
<1>1. Idle \in Request
  BY DEF Idle, Request
<1> QED
  BY <1>1

\* No step leaves the declared types.
LEMMA TypeStep == TypeOK /\ [Next]_vars => TypeOK'
<1> SUFFICES ASSUME TypeOK, [Next]_vars PROVE TypeOK'
  OBVIOUS
<1> USE DEF TypeOK, catalog, keys, objects
<1>1. ASSUME NEW p \in Project, CreateProject(p) PROVE TypeOK'
  BY <1>1 DEF CreateProject
<1>2. ASSUME NEW k \in Key, NEW p \in Project, IssueKey(k, p) PROVE TypeOK'
  BY <1>2 DEF IssueKey
<1>3. ASSUME NEW k \in Key, RevokeKey(k) PROVE TypeOK'
  BY <1>3 DEF RevokeKey
<1>4. ASSUME NEW w \in Worker, RequestStep(w) PROVE TypeOK'
  <2> USE DEF Request, Idle
  <2>1. ASSUME NEW k \in Key, ExchangeVerify(w, k) PROVE TypeOK'
    BY <2>1 DEF ExchangeVerify
  <2>2. ASSUME ExchangeCredentials(w) PROVE TypeOK'
    BY <2>2 DEF ExchangeCredentials
  <2>3. ASSUME NEW r \in Role, MintCreate(w, r) PROVE TypeOK'
    <3> DEFINE new == [req[w] EXCEPT !.pc = "created", !.role = r]
    <3>1. req' \in [Worker -> Request]
      <4>1. new \in Request
        OBVIOUS
      <4>2. req' = [req EXCEPT ![w] = new] \/ req' = [req EXCEPT ![w] = Idle]
        BY <2>3 DEF MintCreate
      <4> HIDE DEF new, Request, Idle
      <4> QED
        BY <4>1, <4>2, RequestUpdate
    <3>2. age' \in [Role -> {"fresh", "valid", "expired", "due"}]
      BY <2>3 DEF MintCreate
    <3> QED
      BY <2>3, <3>1, <3>2 DEF MintCreate
  <2>4. ASSUME MintCommit(w) PROVE TypeOK'
    BY <2>4 DEF MintCommit
  <2>5. ASSUME NEW p \in Project, DeleteGet(w, p) PROVE TypeOK'
    BY <2>5 DEF DeleteGet
  <2>6. ASSUME DeleteList(w) PROVE TypeOK'
    <3> DEFINE p == req[w].project
               new == [req[w] EXCEPT !.pc = "listed",
                                     !.listed = EphemeralRoleNames(p),
                                     !.keys = {k \in active : keyOf[k] = p}]
    <3>1. EphemeralRoleNames(p) \in SUBSET Role /\ {k \in active : keyOf[k] = p} \in SUBSET Key
      BY DEF EphemeralRoleNames
    <3>2. new \in Request
      BY <3>1
    <3>3. req' = [req EXCEPT ![w] = Idle] \/ req' = [req EXCEPT ![w] = new]
      BY <2>6 DEF DeleteList
    <3>4. req' \in [Worker -> Request]
      <4> HIDE DEF new, Request, Idle
      <4> QED
        BY <3>2, <3>3, RequestUpdate
    <3>5. UNCHANGED <<project, keys, catalog, session, objects, sweep, faults>>
      BY <2>6 DEF DeleteList
    <3> QED
      BY <3>4, <3>5
  <2>7. ASSUME DeleteCommit(w) PROVE TypeOK'
    BY <2>7 DEF DeleteCommit, OwnerAfter
  <2>8. ASSUME RequestAborts(w) PROVE TypeOK'
    BY <2>8 DEF RequestAborts
  <2> QED
    BY <1>4, <2>1, <2>2, <2>3, <2>4, <2>5, <2>6, <2>7, <2>8 DEF RequestStep
<1>5. ASSUME NEW r \in Role, ClientStep(r) PROVE TypeOK'
  <2>1. ASSUME ClientConnect(r) PROVE TypeOK'
    BY <2>1 DEF ClientConnect
  <2>2. ASSUME ClientClose(r) PROVE TypeOK'
    BY <2>2 DEF ClientClose
  <2>3. ASSUME NEW o \in Object, ClientCreate(r, o) PROVE TypeOK'
    BY <2>3 DEF ClientCreate
  <2>4. ASSUME NEW o \in Object, ChownToTenant(r, o) PROVE TypeOK'
    BY <2>4 DEF ChownToTenant
  <2>5. ASSUME TimePasses(r) PROVE TypeOK'
    BY <2>5 DEF TimePasses
  <2> QED
    BY <1>5, <2>1, <2>2, <2>3, <2>4, <2>5 DEF ClientStep
<1>6. ASSUME NEW s \in Sweeper, SweepStep(s) \/ SweepFault(s) PROVE TypeOK'
  <2> USE DEF Sweep, Abandon, Advance
  <2>1. ASSUME SweepSelect(s) PROVE TypeOK'
    BY <2>1 DEF SweepSelect, ExpiredEntries
  <2>2. ASSUME SweepCheck(s) PROVE TypeOK'
    BY <2>2 DEF SweepCheck, Entry
  <2>3. ASSUME SweepGrant(s) PROVE TypeOK'
    BY <2>3 DEF SweepGrant
  <2>4. ASSUME SweepReassign(s) PROVE TypeOK'
    BY <2>4 DEF SweepReassign, Reassigned, OwnerAfter
  <2>5. ASSUME SweepDropOwned(s) PROVE TypeOK'
    BY <2>5 DEF SweepDropOwned, OwnerAfter
  <2>6. ASSUME SweepDropRole(s) PROVE TypeOK'
    BY <2>6 DEF SweepDropRole
  <2>7. ASSUME SweepDeleteRow(s) PROVE TypeOK'
    BY <2>7 DEF SweepDeleteRow
  <2>8. ASSUME SweepFault(s) PROVE TypeOK'
    BY <2>8, FlagsAssumption DEF SweepFault
  <2> QED
    BY <1>6, <2>1, <2>2, <2>3, <2>4, <2>5, <2>6, <2>7, <2>8 DEF SweepStep
<1>7. ASSUME UNCHANGED vars PROVE TypeOK'
  BY <1>7 DEF vars
<1> QED
  BY <1>1, <1>2, <1>3, <1>4, <1>5, <1>6, <1>7 DEF Next

\* Type correctness of the whole credential lifecycle.
THEOREM TypeCorrect == Spec => []TypeOK
<1>1. Init => TypeOK
  BY FlagsAssumption DEF Init, TypeOK, Request, Idle, Sweep
<1> QED
  BY <1>1, TypeStep, PTL DEF Spec

-----------------------------------------------------------------------------
(***************************************************************************)
(* The inductive invariant behind the safety properties.  Handlers and     *)
(* sweepers act on what they read earlier; these conjuncts say what stays  *)
(* true of it: a role only ever goes from "in flight" to existing, with the *)
(* tenant of its row, to gone, and what was listed or selected is past the *)
(* first of these steps.                                                   *)
(***************************************************************************)
IssuedInv == \A k \in active : keyOf[k] \in Project

\* Nobody knows a name that was never drawn, or drawn and not yet committed.
Unpublished(r) == /\ row[r] = None
                  /\ pgRole[r] = None
                  /\ \A v \in Worker : r \notin req[v].listed

FreshInv == \A r \in Role : age[r] = "fresh" => Unpublished(r)

PendingInv == \A w \in Worker : req[w].pc = "created" =>
                 /\ req[w].role \in Role
                 /\ age[req[w].role] \in {"valid", "expired"}
                 /\ Unpublished(req[w].role)
                 /\ \A v \in Worker : req[v].pc = "created" /\ req[v].role = req[w].role
                                      => v = w

RequestInv == \A w \in Worker :
                 /\ req[w].pc # "idle" => req[w].project \in Project
                 /\ req[w].pc # "listed" => req[w].listed = {}
                 /\ \A r \in req[w].listed : pgRole[r] \in {req[w].project, None}

\* What a sweep selected is due, and in no tenant role but the selected one.
Selected(r, p) == age[r] = "due" /\ pgRole[r] \in {p, None}

SweepInv == \A s \in Sweeper :
               /\ \A e \in sweep[s].todo : Selected(e.role, e.tenant)
               /\ sweep[s].pc # "loop" => /\ sweep[s].role \in Role
                                          /\ sweep[s].tenant \in Project
                                          /\ Selected(sweep[s].role, sweep[s].tenant)
               /\ sweep[s].pc = "deleteRow" => ~Exists(sweep[s].role)

IInv == /\ TypeOK
        /\ IssuedInv
        /\ FreshInv
        /\ PendingInv
        /\ RequestInv
        /\ SweepInv
        /\ NoOrphanRole
        /\ OwnershipStaysInProject
        /\ NothingOutlivesProject

-----------------------------------------------------------------------------
\* A handler that reads, or gives up, disturbs nothing that was published.
LEMMA RequestFrame ==
    ASSUME IInv, NEW w \in Worker, NEW x \in Request,
           req' = [req EXCEPT ![w] = x],
           UNCHANGED <<row, age, pgRole, sweep>>,
           x.pc \notin {"created", "listed"}, x.listed = {},
           x.pc # "idle" => x.project \in Project
    PROVE  FreshInv' /\ PendingInv' /\ RequestInv' /\ SweepInv' /\ NoOrphanRole'
<1> USE DEF IInv
<1>1. req \in [Worker -> Request]
  BY DEF TypeOK
<1>2. \A v \in Worker : req'[v] = IF v = w THEN x ELSE req[v]
  BY <1>1
<1>3. FreshInv'
  BY <1>2 DEF FreshInv, Unpublished
<1>4. PendingInv'
  BY <1>2 DEF PendingInv, Unpublished
<1>5. RequestInv'
  BY <1>2 DEF RequestInv
<1>6. SweepInv'
  BY DEF SweepInv, Selected, Exists
<1>7. NoOrphanRole'
  BY DEF NoOrphanRole, Exists
<1> QED
  BY <1>3, <1>4, <1>5, <1>6, <1>7

\* A sweeper that moves on with a due role it selected disturbs nothing else.
LEMMA SweepFrame ==
    ASSUME IInv, NEW s \in Sweeper, NEW x \in Sweep,
           sweep' = [sweep EXCEPT ![s] = x],
           UNCHANGED <<age, pgRole>>,
           \A e \in x.todo : Selected(e.role, e.tenant),
           x.pc # "loop" => /\ x.role \in Role
                            /\ x.tenant \in Project
                            /\ Selected(x.role, x.tenant),
           x.pc = "deleteRow" => ~Exists(x.role)
    PROVE  SweepInv'
<1>1. sweep \in [Sweeper -> Sweep]
  BY DEF IInv, TypeOK
<1>2. \A t \in Sweeper : sweep'[t] = IF t = s THEN x ELSE sweep[t]
  BY <1>1
<1> QED
  BY <1>2 DEF IInv, SweepInv, Selected, Exists

\* What the handlers and sweepers know survives when the catalog is unchanged.
LEMMA CatalogFrame ==
    ASSUME IInv, UNCHANGED <<row, age, pgRole, req>>
    PROVE  /\ FreshInv' /\ PendingInv' /\ RequestInv' /\ NoOrphanRole'
           /\ UNCHANGED sweep => SweepInv'
<1> USE DEF IInv
<1>1. FreshInv'
  BY DEF FreshInv, Unpublished
<1>2. PendingInv'
  BY DEF PendingInv, Unpublished
<1>3. RequestInv'
  BY DEF RequestInv
<1>4. NoOrphanRole'
  BY DEF NoOrphanRole, Exists
<1>5. UNCHANGED sweep => SweepInv'
  BY DEF SweepInv, Selected, Exists
<1> QED
  BY <1>1, <1>2, <1>3, <1>4, <1>5

\* Objects are safe when neither they nor a role or project they hang on change.
LEMMA ObjectFrame ==
    ASSUME IInv, UNCHANGED <<project, pgRole, home, owner>>
    PROVE  OwnershipStaysInProject' /\ NothingOutlivesProject'
BY DEF IInv, OwnershipStaysInProject, NothingOutlivesProject, Exists

LEMMA KeyFrame ==
    ASSUME IssuedInv, UNCHANGED <<keyOf, active>>
    PROVE  IssuedInv'
BY DEF IssuedInv

-----------------------------------------------------------------------------
\* A handler's step keeps the invariant.
LEMMA RequestInvStep ==
    ASSUME IInv, TypeOK', NEW w \in Worker, RequestStep(w)
    PROVE  IInv'
<1> USE DEF catalog, keys, objects
<1>t. /\ req \in [Worker -> Request] /\ req' \in [Worker -> Request]
      /\ req[w] \in Request /\ req'[w] \in Request /\ Idle \in Request
  BY DEF IInv, TypeOK, Idle, Request
<1>i. Idle.pc = "idle" /\ Idle.listed = {}
  BY DEF Idle
<1>1. ASSUME NEW k \in Key, ExchangeVerify(w, k) PROVE IInv'
  <2> DEFINE x == [req[w] EXCEPT !.pc = "verified", !.project = keyOf[k]]
  <2>1. x.pc = "verified" /\ x.listed = {} /\ x.project \in Project
    BY <1>1, <1>t DEF ExchangeVerify, IInv, RequestInv, IssuedInv, Request
  <2>2. req' = [req EXCEPT ![w] = x] /\ x \in Request
    BY <1>1, <1>t DEF ExchangeVerify
  <2>3. UNCHANGED <<project, keys, catalog, objects, sweep>>
    BY <1>1 DEF ExchangeVerify
  <2> HIDE DEF x
  <2> QED
    BY <2>1, <2>2, <2>3, RequestFrame, ObjectFrame, KeyFrame DEF IInv
<1>2. ASSUME ExchangeCredentials(w) PROVE IInv'
  <2> DEFINE x == [req[w] EXCEPT !.pc = "creds"]
  <2>1. x.pc = "creds" /\ x.listed = {} /\ x.project \in Project
    BY <1>2, <1>t DEF ExchangeCredentials, IInv, RequestInv, Request
  <2>2. \/ req' = [req EXCEPT ![w] = x] /\ x \in Request
        \/ req' = [req EXCEPT ![w] = Idle]
    BY <1>2, <1>t DEF ExchangeCredentials
  <2>3. UNCHANGED <<project, keys, catalog, objects, sweep>>
    BY <1>2 DEF ExchangeCredentials
  <2> HIDE DEF x
  <2> QED
    BY <1>t, <1>i, <2>1, <2>2, <2>3, RequestFrame, ObjectFrame, KeyFrame DEF IInv
<1>3. ASSUME NEW r \in Role, MintCreate(w, r) PROVE IInv'
  <2>1. CASE req' = [req EXCEPT ![w] = Idle] /\ UNCHANGED age
    <3>1. UNCHANGED <<project, keys, catalog, objects, sweep>>
      BY <1>3, <2>1 DEF MintCreate
    <3> QED
      BY <1>t, <1>i, <2>1, <3>1, RequestFrame, ObjectFrame, KeyFrame DEF IInv
  <2>2. CASE /\ age' = [age EXCEPT ![r] = "valid"]
             /\ req' = [req EXCEPT ![w] = [@ EXCEPT !.pc = "created", !.role = r]]
    <3> USE DEF IInv
    <3>1. UNCHANGED <<project, keys, row, pgRole, objects, sweep>> /\ age[r] = "fresh"
      BY <1>3 DEF MintCreate, EphemeralRoleName
    <3>2. /\ req'[w].pc = "created" /\ req'[w].role = r
          /\ req'[w].project = req[w].project /\ req'[w].listed = req[w].listed
          /\ \A v \in Worker \ {w} : req'[v] = req[v]
      BY <1>t, <2>2 DEF Request
    <3>3. /\ age'[r] = "valid"
          /\ \A q \in Role \ {r} : age'[q] = age[q]
      BY <2>2 DEF TypeOK
    <3>4. FreshInv'
      BY <3>1, <3>2, <3>3 DEF FreshInv, Unpublished
    <3>5. PendingInv'
      <4>1. \A v \in Worker : req[v].pc = "created" => req[v].role # r
        BY <3>1 DEF PendingInv
      <4>2. Unpublished(r)
        BY <3>1 DEF FreshInv
      <4> QED
        BY <3>1, <3>2, <3>3, <4>1, <4>2 DEF PendingInv, Unpublished
    <3>6. RequestInv'
      BY <1>3, <3>1, <3>2 DEF MintCreate, RequestInv
    <3>7. SweepInv'
      BY <3>1, <3>3 DEF SweepInv, Selected, Exists, TypeOK, Sweep, Entry
    <3>8. NoOrphanRole'
      BY <3>1 DEF NoOrphanRole, Exists
    <3> QED
      BY <3>1, <3>4, <3>5, <3>6, <3>7, <3>8, ObjectFrame, KeyFrame
  <2> QED
    BY <1>3, <2>1, <2>2 DEF MintCreate
<1>4. ASSUME MintCommit(w) PROVE IInv'
  <2> DEFINE r == req[w].role
             p == req[w].project
  <2> USE DEF IInv
  <2>1. /\ r \in Role /\ p \in Project /\ age[r] \in {"valid", "expired"} /\ Unpublished(r)
        /\ \A v \in Worker : req[v].pc = "created" /\ req[v].role = r => v = w
    BY <1>4 DEF MintCommit, PendingInv, RequestInv
  <2>2. UNCHANGED <<project, keys, age, objects, sweep>>
    BY <1>4 DEF MintCommit
  <2>3. /\ row'[r] = p /\ pgRole'[r] = p
        /\ \A q \in Role \ {r} : row'[q] = row[q] /\ pgRole'[q] = pgRole[q]
    BY <1>4, <2>1 DEF MintCommit, TypeOK
  <2>4. /\ req'[w] = Idle
        /\ \A v \in Worker \ {w} : req'[v] = req[v]
    BY <1>4, <1>t DEF MintCommit
  <2> HIDE DEF r, p
  <2>5. FreshInv'
    BY <1>i, <2>1, <2>2, <2>3, <2>4 DEF FreshInv, Unpublished
  <2>6. PendingInv'
    BY <1>i, <2>1, <2>2, <2>3, <2>4 DEF PendingInv, Unpublished
  <2>7. RequestInv'
    BY <1>t, <1>i, <2>1, <2>3, <2>4 DEF RequestInv, Unpublished, Request
  <2>8. SweepInv'
    BY <2>1, <2>2, <2>3 DEF SweepInv, Selected, Exists, TypeOK, Sweep, Entry
  <2>9. NoOrphanRole'
    BY <2>3 DEF NoOrphanRole, Exists
  <2>10. OwnershipStaysInProject'
    BY <2>1, <2>2, <2>3 DEF OwnershipStaysInProject, Exists, Unpublished
  <2>11. NothingOutlivesProject'
    BY <2>2 DEF NothingOutlivesProject
  <2> QED
    BY <2>2, <2>5, <2>6, <2>7, <2>8, <2>9, <2>10, <2>11, KeyFrame
<1>5. ASSUME NEW p \in Project, DeleteGet(w, p) PROVE IInv'
  <2> DEFINE x == [req[w] EXCEPT !.pc = "got", !.project = p]
  <2>1. x.pc = "got" /\ x.listed = {} /\ x.project \in Project
    BY <1>5, <1>t DEF DeleteGet, IInv, RequestInv, Request
  <2>2. req' = [req EXCEPT ![w] = x] /\ x \in Request
    BY <1>5, <1>t DEF DeleteGet
  <2>3. UNCHANGED <<project, keys, catalog, objects, sweep>>
    BY <1>5 DEF DeleteGet
  <2> HIDE DEF x
  <2> QED
    BY <2>1, <2>2, <2>3, RequestFrame, ObjectFrame, KeyFrame DEF IInv
<1>6. ASSUME DeleteList(w) PROVE IInv'
  <2>1. UNCHANGED <<project, keys, catalog, objects, sweep>>
    BY <1>6 DEF DeleteList
  <2>2. CASE req' = [req EXCEPT ![w] = Idle]
    BY <1>t, <1>i, <2>1, <2>2, RequestFrame, ObjectFrame, KeyFrame DEF IInv
  <2>3. CASE /\ req'[w].pc = "listed"
             /\ req'[w].project = req[w].project
             /\ req'[w].listed = EphemeralRoleNames(req[w].project)
             /\ \A v \in Worker \ {w} : req'[v] = req[v]
    <3> USE DEF IInv
    <3>1. FreshInv'
      BY <2>1, <2>3 DEF FreshInv, Unpublished, EphemeralRoleNames, Exists
    <3>2. PendingInv'
      BY <2>1, <2>3 DEF PendingInv, Unpublished, EphemeralRoleNames, Exists
    <3>3. RequestInv'
      BY <1>6, <2>1, <2>3 DEF DeleteList, RequestInv, EphemeralRoleNames, NoOrphanRole
    <3>4. SweepInv' /\ NoOrphanRole'
      BY <2>1 DEF SweepInv, Selected, NoOrphanRole, Exists
    <3> QED
      BY <2>1, <3>1, <3>2, <3>3, <3>4, ObjectFrame, KeyFrame
  <2>4. req[w].pc = "got" /\ req[w].project \in Project
    BY <1>6 DEF DeleteList, IInv, RequestInv
  <2> QED
    BY <1>6, <1>t, <2>2, <2>3 DEF DeleteList, Request
<1>7. ASSUME DeleteCommit(w) PROVE IInv'
  <2> DEFINE p == req[w].project
             listed == req[w].listed
  <2>1. CASE \E r \in listed : ~Exists(r)
    <3>1. UNCHANGED <<project, keys, catalog, objects, sweep>>
      BY <1>7, <2>1 DEF DeleteCommit
    <3>2. req' = [req EXCEPT ![w] = Idle]
      BY <1>7 DEF DeleteCommit
    <3> QED
      BY <1>t, <1>i, <3>1, <3>2, RequestFrame, ObjectFrame, KeyFrame DEF IInv
  <2>2. CASE \A r \in listed : Exists(r)
    <3> USE DEF IInv
    <3>1. p \in Project /\ \A r \in listed : pgRole[r] = p
      BY <1>7, <2>2 DEF DeleteCommit, RequestInv, Exists
    <3>2. /\ \A r \in Role : pgRole'[r] = IF r \in listed THEN None ELSE pgRole[r]
          /\ UNCHANGED <<keyOf, row, age, home, sweep>>
          /\ active' \in SUBSET active
      BY <1>7, <2>2 DEF DeleteCommit
    <3>3. /\ project'[p] = "deleted"
          /\ \A q \in Project \ {p} : project'[q] = project[q]
      BY <1>7, <2>2, <3>1 DEF DeleteCommit, TypeOK
    <3>4. \A o \in Object : \/ owner'[o] = None
                            \/ owner'[o] = owner[o] /\ home[o] # p /\ owner[o] \notin listed
      BY <1>7, <2>2 DEF DeleteCommit, OwnerAfter, DroppedWith
    <3>5. req'[w] = Idle /\ \A v \in Worker \ {w} : req'[v] = req[v]
      BY <1>7, <1>t DEF DeleteCommit
    <3> HIDE DEF p, listed
    <3>6. IssuedInv'
      BY <3>2 DEF IssuedInv
    <3>7. FreshInv'
      BY <1>i, <3>2, <3>5 DEF FreshInv, Unpublished
    <3>8. PendingInv'
      BY <1>i, <3>2, <3>5 DEF PendingInv, Unpublished
    <3>9. RequestInv'
      BY <1>t, <1>i, <3>2, <3>5 DEF RequestInv, Request
    <3>10. SweepInv'
      BY <3>2 DEF SweepInv, Selected, Exists, TypeOK, Sweep, Entry
    <3>11. NoOrphanRole'
      BY <3>2 DEF NoOrphanRole, Exists
    <3>12. OwnershipStaysInProject'
      BY <3>2, <3>4 DEF OwnershipStaysInProject, Exists
    <3>13. NothingOutlivesProject'
      BY <3>2, <3>3, <3>4 DEF NothingOutlivesProject, OwnershipStaysInProject, Exists, TypeOK
    <3> QED
      BY <3>6, <3>7, <3>8, <3>9, <3>10, <3>11, <3>12, <3>13
  <2> QED
    BY <2>1, <2>2
<1>8. ASSUME RequestAborts(w) PROVE IInv'
  <2>1. req' = [req EXCEPT ![w] = Idle]
        /\ UNCHANGED <<project, keys, catalog, objects, sweep>>
    BY <1>8 DEF RequestAborts
  <2> QED
    BY <1>t, <1>i, <2>1, RequestFrame, ObjectFrame, KeyFrame DEF IInv
<1> QED
  BY <1>1, <1>2, <1>3, <1>4, <1>5, <1>6, <1>7, <1>8 DEF RequestStep

\* A client's step, or the clock's, keeps the invariant.
LEMMA ClientInvStep ==
    ASSUME IInv, TypeOK', NEW r \in Role, ClientStep(r)
    PROVE  IInv'
<1> USE DEF catalog, keys, objects
<1>1. CASE ClientConnect(r) \/ ClientClose(r)
  <2>1. UNCHANGED <<project, keys, catalog, objects, req, sweep>>
    BY <1>1 DEF ClientConnect, ClientClose
  <2> QED
    BY <2>1, CatalogFrame, ObjectFrame, KeyFrame DEF IInv
<1>2. ASSUME NEW o \in Object, ClientCreate(r, o) \/ ChownToTenant(r, o) PROVE IInv'
  <2>1. UNCHANGED <<project, keys, catalog, req, sweep>>
    BY <1>2 DEF ClientCreate, ChownToTenant
  <2>2. Exists(r) /\ pgRole[r] \in Project /\ project[pgRole[r]] = "live"
    BY <1>2 DEF ClientCreate, ChownToTenant, Exists, IInv, TypeOK
  <2>3. CASE home'[o] = pgRole[r] /\ owner'[o] = r
             /\ \A q \in Object \ {o} : home'[q] = home[q] /\ owner'[q] = owner[q]
    <3>1. OwnershipStaysInProject' /\ NothingOutlivesProject'
      BY <2>1, <2>2, <2>3 DEF IInv, OwnershipStaysInProject, NothingOutlivesProject, Exists
    <3> QED
      BY <2>1, <3>1, CatalogFrame, KeyFrame DEF IInv
  <2>4. CASE owner[o] = r /\ owner'[o] = home[o] /\ home' = home
             /\ \A q \in Object \ {o} : owner'[q] = owner[q]
    <3>1. OwnershipStaysInProject' /\ NothingOutlivesProject'
      BY <2>1, <2>2, <2>4, NamesApart
      DEF IInv, OwnershipStaysInProject, NothingOutlivesProject, Exists
    <3> QED
      BY <2>1, <3>1, CatalogFrame, KeyFrame DEF IInv
  <2> QED
    BY <1>2, <2>3, <2>4 DEF ClientCreate, ChownToTenant, IInv, TypeOK
<1>3. CASE TimePasses(r)
  <2>1. UNCHANGED <<project, keys, row, pgRole, objects, req, sweep>>
    BY <1>3 DEF TimePasses
  <2>2. /\ \/ age[r] = "valid" /\ age'[r] = "expired"
           \/ age[r] = "expired" /\ age'[r] = "due" /\ ~Pending(r)
        /\ \A q \in Role \ {r} : age'[q] = age[q]
    <3>0. age \in [Role -> {"fresh", "valid", "expired", "due"}]
      BY DEF IInv, TypeOK
    <3>1. CASE age[r] = "valid" /\ age' = [age EXCEPT ![r] = "expired"]
      BY <3>0, <3>1
    <3>2. CASE age[r] = "expired" /\ ~Pending(r) /\ age' = [age EXCEPT ![r] = "due"]
      BY <3>0, <3>2
    <3> QED
      BY <1>3, <3>1, <3>2 DEF TimePasses
  <2> USE DEF IInv
  <2>3. FreshInv'
    BY <2>1, <2>2 DEF FreshInv, Unpublished
  <2>4. PendingInv'
    BY <2>1, <2>2 DEF PendingInv, Unpublished, Pending
  <2>5. RequestInv' /\ NoOrphanRole'
    BY <2>1 DEF RequestInv, NoOrphanRole, Exists
  <2>6. SweepInv'
    BY <2>1, <2>2 DEF SweepInv, Selected, Exists, TypeOK, Sweep, Entry
  <2> QED
    BY <2>1, <2>3, <2>4, <2>5, <2>6, ObjectFrame, KeyFrame
<1> QED
  BY <1>1, <1>2, <1>3 DEF ClientStep

\* A sweeper's step, whole or failed, keeps the invariant.
LEMMA SweepInvStep ==
    ASSUME IInv, TypeOK', NEW s \in Sweeper, SweepStep(s) \/ SweepFault(s)
    PROVE  IInv'
<1> USE DEF catalog, keys, objects
<1> DEFINE given == [pc |-> "loop", todo |-> sweep[s].todo, role |-> None, tenant |-> None]
           moved(pc) == [sweep[s] EXCEPT !.pc = pc]
<1>t. /\ sweep \in [Sweeper -> Sweep] /\ sweep[s] \in Sweep
      /\ given \in Sweep /\ given.pc = "loop" /\ given.todo = sweep[s].todo
      /\ \A e \in sweep[s].todo : Selected(e.role, e.tenant)
  BY DEF IInv, TypeOK, Sweep, SweepInv
<1>m. ASSUME NEW pc \in {"reassign", "dropOwned", "dropRole", "deleteRow"}
      PROVE  /\ moved(pc) \in Sweep /\ moved(pc).pc = pc
             /\ moved(pc).todo = sweep[s].todo
             /\ moved(pc).role = sweep[s].role /\ moved(pc).tenant = sweep[s].tenant
  BY <1>t DEF Sweep
<1>k. sweep[s].pc # "loop" => /\ sweep[s].role \in Role /\ sweep[s].tenant \in Project
                              /\ Selected(sweep[s].role, sweep[s].tenant)
  BY DEF IInv, SweepInv
<1> HIDE DEF given, moved
<1>a. ASSUME sweep' = [sweep EXCEPT ![s] = given], UNCHANGED <<age, pgRole>>
      PROVE  SweepInv'
  BY <1>a, <1>t, SweepFrame
<1>b. ASSUME NEW pc \in {"reassign", "dropOwned", "dropRole"}, sweep[s].pc # "loop",
             sweep' = [sweep EXCEPT ![s] = moved(pc)], UNCHANGED <<age, pgRole>>
      PROVE  SweepInv'
  BY <1>b, <1>m, <1>k, <1>t, SweepFrame
<1>1. CASE SweepSelect(s)
  <2> DEFINE x == [sweep[s] EXCEPT !.todo = ExpiredEntries]
  <2>1. x \in Sweep /\ x.pc = "loop" /\ x.todo = ExpiredEntries
    BY <1>1, <1>t DEF SweepSelect, Sweep, ExpiredEntries
  <2>2. \A e \in ExpiredEntries : Selected(e.role, e.tenant)
    BY DEF ExpiredEntries, Selected, IInv, NoOrphanRole, Exists, Entry
  <2>3. sweep' = [sweep EXCEPT ![s] = x] /\ UNCHANGED <<project, keys, catalog, objects, req>>
    BY <1>1 DEF SweepSelect
  <2> HIDE DEF x
  <2>4. SweepInv'
    BY <2>1, <2>2, <2>3, SweepFrame
  <2> QED
    BY <2>3, <2>4, CatalogFrame, ObjectFrame, KeyFrame DEF IInv
<1>2. CASE SweepCheck(s)
  <2>1. PICK e \in sweep[s].todo :
           sweep' = [sweep EXCEPT ![s] =
                       [pc |-> IF Exists(e.role) THEN "grant" ELSE "deleteRow",
                        todo |-> sweep[s].todo \ {e}, role |-> e.role, tenant |-> e.tenant]]
    BY <1>2, <1>t DEF SweepCheck
  <2> DEFINE x == [pc |-> IF Exists(e.role) THEN "grant" ELSE "deleteRow",
                   todo |-> sweep[s].todo \ {e}, role |-> e.role, tenant |-> e.tenant]
  <2>2. UNCHANGED <<project, keys, catalog, objects, req>>
    BY <1>2 DEF SweepCheck
  <2>3. e.role \in Role /\ e.tenant \in Project /\ Selected(e.role, e.tenant)
    BY <1>t DEF Sweep, Entry
  <2>4. /\ x \in Sweep /\ x.todo \subseteq sweep[s].todo
        /\ x.role = e.role /\ x.tenant = e.tenant
        /\ x.pc = "deleteRow" => ~Exists(e.role)
    BY <1>t, <2>3 DEF Sweep
  <2>5. sweep' = [sweep EXCEPT ![s] = x]
    BY <2>1
  <2> HIDE DEF x
  <2>6. SweepInv'
    BY <1>t, <2>2, <2>3, <2>4, <2>5, SweepFrame
  <2> QED
    BY <2>2, <2>6, CatalogFrame, ObjectFrame, KeyFrame DEF IInv
<1>3. CASE SweepGrant(s)
  <2>1. UNCHANGED <<project, keys, catalog, objects, req>> /\ sweep[s].pc # "loop"
    BY <1>3 DEF SweepGrant
  <2>2. \/ sweep' = [sweep EXCEPT ![s] = given]
        \/ sweep' = [sweep EXCEPT ![s] = moved("reassign")]
    BY <1>3 DEF SweepGrant, Abandon, Advance, given, moved
  <2> QED
    BY <1>a, <1>b, <2>1, <2>2, CatalogFrame, ObjectFrame, KeyFrame DEF IInv
<1>4. CASE SweepReassign(s)
  <2>1. UNCHANGED <<project, keys, catalog, home, req>> /\ sweep[s].pc # "loop"
    BY <1>4 DEF SweepReassign
  <2>2. CASE UNCHANGED owner /\ sweep' = [sweep EXCEPT ![s] = given]
    BY <1>a, <2>1, <2>2, CatalogFrame, ObjectFrame, KeyFrame DEF IInv
  <2>3. CASE /\ Exists(sweep[s].role)
             /\ \A o \in Object : owner'[o] = IF owner[o] = sweep[s].role
                                              THEN sweep[s].tenant ELSE owner[o]
             /\ sweep' = [sweep EXCEPT ![s] = moved("dropOwned")]
    <3>1. pgRole[sweep[s].role] = sweep[s].tenant
      BY <1>k, <2>1, <2>3 DEF Selected, Exists
    <3>2. OwnershipStaysInProject'
      BY <1>k, <2>1, <2>3, <3>1, NamesApart
      DEF IInv, TypeOK, OwnershipStaysInProject, Exists
    <3>3. NothingOutlivesProject'
      BY <1>k, <2>1, <2>3, NamesApart DEF IInv, NothingOutlivesProject
    <3> QED
      BY <1>b, <2>1, <2>3, <3>2, <3>3, CatalogFrame, KeyFrame DEF IInv
  <2> QED
    BY <1>4, <2>2, <2>3
    DEF SweepReassign, Reassigned, OwnerAfter, Owned, Abandon, Advance, given, moved
<1>5. CASE SweepDropOwned(s)
  <2>1. UNCHANGED <<project, keys, catalog, home, req>> /\ sweep[s].pc # "loop"
    BY <1>5 DEF SweepDropOwned
  <2>2. \/ sweep' = [sweep EXCEPT ![s] = given]
        \/ sweep' = [sweep EXCEPT ![s] = moved("dropRole")]
    BY <1>5 DEF SweepDropOwned, Abandon, Advance, given, moved
  <2>3. \A o \in Object : owner'[o] = owner[o] \/ owner'[o] = None
    BY <1>5 DEF SweepDropOwned, OwnerAfter
  <2>4. OwnershipStaysInProject' /\ NothingOutlivesProject'
    BY <2>1, <2>3 DEF IInv, OwnershipStaysInProject, NothingOutlivesProject, Exists
  <2> QED
    BY <1>a, <1>b, <2>1, <2>2, <2>4, CatalogFrame, KeyFrame DEF IInv
<1>6. CASE SweepDropRole(s)
  <2>1. UNCHANGED <<project, keys, row, age, objects, req>> /\ sweep[s].pc = "dropRole"
    BY <1>6 DEF SweepDropRole
  <2>2. CASE UNCHANGED pgRole /\ sweep' = [sweep EXCEPT ![s] = given]
    BY <1>a, <2>1, <2>2, CatalogFrame, ObjectFrame, KeyFrame DEF IInv
  <2>3. CASE /\ Owned(sweep[s].role) = {}
             /\ pgRole' = [pgRole EXCEPT ![sweep[s].role] = None]
             /\ sweep' = [sweep EXCEPT ![s] = moved("deleteRow")]
    <3> USE DEF IInv
    <3>1. /\ pgRole'[sweep[s].role] = None
          /\ \A q \in Role \ {sweep[s].role} : pgRole'[q] = pgRole[q]
      BY <1>k, <2>1, <2>3 DEF TypeOK
    <3>2. FreshInv'
      BY <2>1, <3>1 DEF FreshInv, Unpublished
    <3>3. PendingInv'
      BY <2>1, <3>1 DEF PendingInv, Unpublished
    <3>4. RequestInv'
      BY <2>1, <3>1 DEF RequestInv, TypeOK, Request
    <3>5. SweepInv'
      <4>1. /\ sweep'[s] = moved("deleteRow")
            /\ \A t \in Sweeper \ {s} : sweep'[t] = sweep[t]
        BY <1>t, <2>3
      <4> QED
        BY <1>t, <1>m, <1>k, <2>1, <3>1, <4>1
        DEF SweepInv, Selected, Exists, TypeOK, Sweep, Entry
    <3>6. NoOrphanRole'
      BY <2>1, <3>1 DEF NoOrphanRole, Exists
    <3>7. OwnershipStaysInProject'
      BY <2>1, <2>3, <3>1 DEF OwnershipStaysInProject, Exists, Owned
    <3>8. NothingOutlivesProject'
      BY <2>1 DEF NothingOutlivesProject
    <3> QED
      BY <2>1, <3>2, <3>3, <3>4, <3>5, <3>6, <3>7, <3>8, KeyFrame
  <2> QED
    BY <1>6, <2>2, <2>3 DEF SweepDropRole, Abandon, Advance, given, moved
<1>7. CASE SweepDeleteRow(s)
  <2> USE DEF IInv
  <2>1. /\ UNCHANGED <<project, keys, age, pgRole, objects, req>>
        /\ ~Exists(sweep[s].role)
        /\ row' = [row EXCEPT ![sweep[s].role] = None]
        /\ sweep' = [sweep EXCEPT ![s] = given]
    BY <1>7 DEF SweepDeleteRow, Abandon, given, SweepInv
  <2>2. \A q \in Role : row'[q] \in {row[q], None} /\ (Exists(q) => row'[q] = row[q])
    BY <2>1 DEF TypeOK, Exists
  <2>3. FreshInv'
    BY <2>1, <2>2 DEF FreshInv, Unpublished
  <2>4. PendingInv'
    BY <2>1, <2>2 DEF PendingInv, Unpublished
  <2>5. RequestInv'
    BY <2>1 DEF RequestInv
  <2>6. SweepInv'
    BY <1>a, <2>1
  <2>7. NoOrphanRole'
    BY <2>1, <2>2 DEF NoOrphanRole, Exists
  <2> QED
    BY <2>1, <2>3, <2>4, <2>5, <2>6, <2>7, ObjectFrame, KeyFrame
<1>8. CASE SweepFault(s)
  <2> DEFINE dead == [pc |-> "loop", todo |-> {}, role |-> None, tenant |-> None]
  <2>1. UNCHANGED <<project, keys, catalog, objects, req>>
    BY <1>8 DEF SweepFault
  <2>2. \/ sweep' = [sweep EXCEPT ![s] = given]
        \/ sweep' = [sweep EXCEPT ![s] = dead]
    BY <1>8 DEF SweepFault, Abandon, given
  <2>3. dead \in Sweep /\ dead.pc = "loop" /\ dead.todo = {}
    BY DEF Sweep
  <2> HIDE DEF dead
  <2> QED
    BY <1>a, <2>1, <2>2, <2>3, SweepFrame, CatalogFrame, ObjectFrame, KeyFrame DEF IInv
<1> QED
  BY <1>1, <1>2, <1>3, <1>4, <1>5, <1>6, <1>7, <1>8 DEF SweepStep

\* Every step of the system keeps the invariant.
LEMMA InvStep == IInv /\ [Next]_vars => IInv'
<1> SUFFICES ASSUME IInv, [Next]_vars PROVE IInv'
  OBVIOUS
<1> USE DEF catalog, keys, objects
<1>t. TypeOK'
  BY TypeStep DEF IInv
<1>1. ASSUME NEW p \in Project, CreateProject(p) PROVE IInv'
  <2>1. UNCHANGED <<keys, catalog, objects, req, sweep>> /\ project[p] = "absent"
        /\ \A q \in Project \ {p} : project'[q] = project[q]
    BY <1>1 DEF CreateProject, IInv, TypeOK
  <2>2. OwnershipStaysInProject' /\ NothingOutlivesProject'
    BY <2>1 DEF IInv, TypeOK, OwnershipStaysInProject, NothingOutlivesProject, Exists
  <2> QED
    BY <1>t, <2>1, <2>2, CatalogFrame, KeyFrame DEF IInv
<1>2. ASSUME NEW k \in Key, NEW p \in Project, IssueKey(k, p) PROVE IInv'
  <2>1. IssuedInv'
    BY <1>2 DEF IssueKey, IInv, IssuedInv, TypeOK
  <2> QED
    BY <1>2, <1>t, <2>1, CatalogFrame, ObjectFrame DEF IssueKey, IInv
<1>3. ASSUME NEW k \in Key, RevokeKey(k) PROVE IInv'
  <2>1. IssuedInv'
    BY <1>3 DEF RevokeKey, IInv, IssuedInv
  <2> QED
    BY <1>3, <1>t, <2>1, CatalogFrame, ObjectFrame DEF RevokeKey, IInv
<1>4. CASE UNCHANGED vars
  BY <1>4, <1>t, CatalogFrame, ObjectFrame, KeyFrame DEF vars, IInv
<1> QED
  BY <1>t, <1>1, <1>2, <1>3, <1>4, RequestInvStep, ClientInvStep, SweepInvStep DEF Next

\* The inductive invariant holds throughout.
THEOREM Invariant == Spec => []IInv
<1>1. Init => IInv
  BY FlagsAssumption
  DEF Init, IInv, TypeOK, Request, Idle, Sweep, IssuedInv, FreshInv, Unpublished, PendingInv,
      RequestInv, SweepInv, NoOrphanRole, OwnershipStaysInProject, NothingOutlivesProject, Exists
<1> QED
  BY <1>1, InvStep, PTL DEF Spec

\* Every ephemeral role has the row by which a sweep finds it.
THEOREM RolesAreTracked == Spec => []NoOrphanRole
BY Invariant, PTL DEF IInv

\* Objects belong to their own project's roles only.
THEOREM OwnershipIsLocal == Spec => []OwnershipStaysInProject
BY Invariant, PTL DEF IInv

\* A deletion leaves no object behind, whatever mints and clients it overlaps.
THEOREM DeletionIsComplete == Spec => []NothingOutlivesProject
BY Invariant, PTL DEF IInv

-----------------------------------------------------------------------------
(***************************************************************************)
(* Two steps touch ephemeral_roles, and one of them deletes rows.          *)
(***************************************************************************)
RowsGoLast ==
    [][\A r \in Role : row[r] # None /\ row'[r] # row[r] =>
          row'[r] = None /\ age[r] = "due" /\ ~Exists(r)]_vars

LEMMA RowSteps ==
    ASSUME [Next]_vars
    PROVE  \/ UNCHANGED row
           \/ \E w \in Worker : MintCommit(w)
           \/ \E s \in Sweeper : SweepDeleteRow(s)
<1> USE DEF catalog, keys, objects
<1>1. ASSUME NEW p \in Project, CreateProject(p) PROVE UNCHANGED row
  BY <1>1 DEF CreateProject
<1>2. ASSUME NEW k \in Key, NEW p \in Project, IssueKey(k, p) PROVE UNCHANGED row
  BY <1>2 DEF IssueKey
<1>3. ASSUME NEW k \in Key, RevokeKey(k) PROVE UNCHANGED row
  BY <1>3 DEF RevokeKey
<1>4. ASSUME NEW w \in Worker, RequestStep(w) PROVE UNCHANGED row \/ MintCommit(w)
  BY <1>4 DEF RequestStep, ExchangeVerify, ExchangeCredentials, MintCreate, DeleteGet,
              DeleteList, DeleteCommit, RequestAborts
<1>5. ASSUME NEW r \in Role, ClientStep(r) PROVE UNCHANGED row
  BY <1>5 DEF ClientStep, ClientConnect, ClientClose, ClientCreate, ChownToTenant, TimePasses
<1>6. ASSUME NEW s \in Sweeper, SweepStep(s) \/ SweepFault(s)
      PROVE  UNCHANGED row \/ SweepDeleteRow(s)
  BY <1>6 DEF SweepStep, SweepSelect, SweepCheck, SweepGrant, SweepReassign, SweepDropOwned,
              SweepDropRole, SweepFault
<1> QED
  BY <1>1, <1>2, <1>3, <1>4, <1>5, <1>6 DEF Next, vars

\* A row is written once, and deleted by a sweep only, when its role is past the
\* grace and gone: neither the deletion of the project nor a failure in retireRole
\* takes from a later sweep what it finds the role by.
THEOREM RowsOutliveRoles == Spec => RowsGoLast
<1> DEFINE Last == \A r \in Role : row[r] # None /\ row'[r] # row[r] =>
                     row'[r] = None /\ age[r] = "due" /\ ~Exists(r)
<1>1. ASSUME IInv, [Next]_vars PROVE Last
  <2>0. row \in [Role -> Project \cup {None}]
    BY <1>1 DEF IInv, TypeOK
  <2>1. ASSUME NEW w \in Worker, MintCommit(w) PROVE Last
    <3>1. row[req[w].role] = None
      BY <1>1, <2>1 DEF MintCommit, IInv, PendingInv, Unpublished
    <3> QED
      BY <2>0, <2>1, <3>1 DEF MintCommit
  <2>2. ASSUME NEW s \in Sweeper, SweepDeleteRow(s) PROVE Last
    <3>1. age[sweep[s].role] = "due" /\ ~Exists(sweep[s].role)
      BY <1>1, <2>2 DEF SweepDeleteRow, IInv, SweepInv, Selected
    <3> QED
      BY <2>0, <2>2, <3>1 DEF SweepDeleteRow
  <2> QED
    BY <1>1, <2>1, <2>2, RowSteps
<1>2. IInv /\ [Next]_vars => [Last]_vars
  BY <1>1
<1> QED
  BY <1>2, Invariant, PTL DEF Spec, RowsGoLast

-----------------------------------------------------------------------------
(***************************************************************************)
(* Only three steps touch pg_roles, and two of them drop roles.            *)
(***************************************************************************)
LEMMA RoleSteps ==
    ASSUME IInv, [Next]_vars
    PROVE  \/ UNCHANGED pgRole
           \/ \E w \in Worker : MintCommit(w) \/ DeleteCommit(w)
           \/ \E s \in Sweeper : SweepDropRole(s)
<1> USE DEF catalog, keys, objects
<1>1. ASSUME NEW p \in Project, CreateProject(p) PROVE UNCHANGED pgRole
  BY <1>1 DEF CreateProject
<1>2. ASSUME NEW k \in Key, NEW p \in Project, IssueKey(k, p) PROVE UNCHANGED pgRole
  BY <1>2 DEF IssueKey
<1>3. ASSUME NEW k \in Key, RevokeKey(k) PROVE UNCHANGED pgRole
  BY <1>3 DEF RevokeKey
<1>4. ASSUME NEW w \in Worker, RequestStep(w)
      PROVE  UNCHANGED pgRole \/ MintCommit(w) \/ DeleteCommit(w)
  BY <1>4 DEF RequestStep, ExchangeVerify, ExchangeCredentials, MintCreate, DeleteGet,
              DeleteList, RequestAborts
<1>5. ASSUME NEW r \in Role, ClientStep(r) PROVE UNCHANGED pgRole
  BY <1>5 DEF ClientStep, ClientConnect, ClientClose, ClientCreate, ChownToTenant, TimePasses
<1>6. ASSUME NEW s \in Sweeper, SweepStep(s) \/ SweepFault(s)
      PROVE  UNCHANGED pgRole \/ SweepDropRole(s)
  BY <1>6 DEF SweepStep, SweepSelect, SweepCheck, SweepGrant, SweepReassign, SweepDropOwned,
              SweepDeleteRow, SweepFault
<1> QED
  BY <1>1, <1>2, <1>3, <1>4, <1>5, <1>6 DEF Next, vars

\* A deletion that goes through drops listed roles, all of its own project.
LEMMA DeletionDrops ==
    ASSUME IInv, NEW w \in Worker, DeleteCommit(w)
    PROVE  \/ UNCHANGED <<project, pgRole>>
           \/ /\ req[w].project \in Project
              /\ req[w].listed \in SUBSET Role
              /\ \A r \in req[w].listed : Exists(r) /\ pgRole[r] = req[w].project
              /\ project' = [project EXCEPT ![req[w].project] = "deleted"]
              /\ pgRole' = [r \in Role |-> IF r \in req[w].listed THEN None ELSE pgRole[r]]
<1>1. req[w].pc = "listed" /\ req[w].project \in Project /\ req[w].listed \in SUBSET Role
  BY DEF DeleteCommit, IInv, TypeOK, Request, RequestInv
<1>2. CASE \A r \in req[w].listed : Exists(r)
  BY <1>1, <1>2 DEF DeleteCommit, IInv, RequestInv, Exists
<1>3. CASE \E r \in req[w].listed : ~Exists(r)
  BY <1>3 DEF DeleteCommit
<1> QED
  BY <1>2, <1>3

\* What a sweep drops is due.
LEMMA SweepDrops ==
    ASSUME IInv, NEW s \in Sweeper, SweepDropRole(s)
    PROVE  /\ sweep[s].role \in Role
           /\ age[sweep[s].role] = "due"
           /\ \/ UNCHANGED pgRole
              \/ pgRole' = [pgRole EXCEPT ![sweep[s].role] = None]
BY DEF SweepDropRole, IInv, SweepInv, Selected

\* Roles go away when due, or with their project: the grace is kept.
THEOREM RetiredOnlyWhenDue == Spec => NoEarlyRetire
<1> DEFINE Kept == \A r \in Role : Exists(r) /\ ~Exists(r)' =>
                      age[r] = "due" \/ project'[pgRole[r]] = "deleted"
<1>1. IInv /\ [Next]_vars => Kept
  <2> SUFFICES ASSUME IInv, [Next]_vars PROVE Kept
    OBVIOUS
  <2>1. CASE UNCHANGED pgRole
    BY <2>1 DEF Exists
  <2>2. ASSUME NEW w \in Worker, MintCommit(w) PROVE Kept
    <3>1. req[w].role \in Role /\ req[w].project \in Project
      BY <2>2 DEF MintCommit, IInv, PendingInv, RequestInv
    <3> QED
      BY <2>2, <3>1, NamesApart DEF MintCommit, Exists, IInv, TypeOK
  <2>3. ASSUME NEW w \in Worker, DeleteCommit(w) PROVE Kept
    BY <2>3, DeletionDrops DEF Exists, IInv, TypeOK
  <2>4. ASSUME NEW s \in Sweeper, SweepDropRole(s) PROVE Kept
    BY <2>4, SweepDrops DEF Exists, IInv, TypeOK
  <2> QED
    BY <2>1, <2>2, <2>3, <2>4, RoleSteps
<1> QED
  BY <1>1, Invariant, PTL DEF Spec, NoEarlyRetire

-----------------------------------------------------------------------------
(***************************************************************************)
(* What retirement needs: clients that are gone within the grace, and      *)
(* deletions that wait for the mints of their tenant.                      *)
(***************************************************************************)

\* A client that leaves within the grace is not there when its role is due.
SessionInv == ~SessionsLinger => \A r \in session : age[r] # "due"

\* So nothing comes back to a role whose objects were handed over.
EmptiedInv == ~SessionsLinger =>
    \A s \in Sweeper : sweep[s].pc \in {"dropOwned", "dropRole"} => Owned(sweep[s].role) = {}

\* Where PostgREST is configured REVOKE makes a deletion and the mints of its
\* tenant wait for each other, so that the list of roles is complete.
LockInv == RestEnabled =>
    \A w \in Worker :
        /\ req[w].pc = "created" => project[req[w].project] = "live"
        /\ req[w].pc = "listed" =>
             /\ project[req[w].project] = "live"
             /\ ~Minting(req[w].project)
             /\ \A r \in Role : pgRole[r] = req[w].project => r \in req[w].listed
             /\ \A v \in Worker : req[v].pc = "listed" /\ req[v].project = req[w].project
                                  => v = w

\* Then no ephemeral role outlives its project, where no sweep could drop it.
NoStrandedRole == RestEnabled => \A r \in Role : Exists(r) => project[pgRole[r]] = "live"

RetireInv == SessionInv /\ EmptiedInv /\ LockInv /\ NoStrandedRole

\* A retirement that has begun is given up for a failure, or because the role is
\* gone, and for no other reason.
RetirementGoesThrough ==
    [][\A s \in Sweeper :
          /\ sweep[s].pc \in {"grant", "reassign", "dropOwned", "dropRole"}
          /\ Exists(sweep[s].role)
          /\ sweep'[s].pc = "loop"
        => faults' > faults]_vars

\* Only a new client, one that leaves, a new name and the clock matter to that.
LEMMA SessionSteps ==
    ASSUME [Next]_vars
    PROVE  \/ UNCHANGED <<session, age>>
           \/ \E w \in Worker, r \in Role : MintCreate(w, r)
           \/ \E r \in Role : ClientConnect(r) \/ ClientClose(r) \/ TimePasses(r)
<1> USE DEF catalog, keys, objects
<1>1. ASSUME NEW w \in Worker, RequestStep(w)
      PROVE  UNCHANGED <<session, age>> \/ \E r \in Role : MintCreate(w, r)
  BY <1>1 DEF RequestStep, ExchangeVerify, ExchangeCredentials, MintCommit, DeleteGet,
              DeleteList, DeleteCommit, RequestAborts
<1>2. ASSUME NEW r \in Role, ClientStep(r)
      PROVE  UNCHANGED <<session, age>> \/ ClientConnect(r) \/ ClientClose(r) \/ TimePasses(r)
  BY <1>2 DEF ClientStep, ClientCreate, ChownToTenant
<1>3. ASSUME NEW s \in Sweeper, SweepStep(s) \/ SweepFault(s) PROVE UNCHANGED <<session, age>>
  BY <1>3 DEF SweepStep, SweepSelect, SweepCheck, SweepGrant, SweepReassign, SweepDropOwned,
              SweepDropRole, SweepDeleteRow, SweepFault
<1>4. ASSUME \/ \E p \in Project : CreateProject(p)
             \/ \E k \in Key, p \in Project : IssueKey(k, p)
             \/ \E k \in Key : RevokeKey(k)
             \/ UNCHANGED vars
      PROVE  UNCHANGED <<session, age>>
  BY <1>4 DEF CreateProject, IssueKey, RevokeKey, vars
<1> QED
  BY <1>1, <1>2, <1>3, <1>4 DEF Next

LEMMA SessionStep ==
    ASSUME IInv, SessionInv, [Next]_vars
    PROVE  SessionInv'
<1> SUFFICES ASSUME ~SessionsLinger, NEW r \in session' PROVE age'[r] # "due"
  BY DEF SessionInv
<1>0. /\ age \in [Role -> {"fresh", "valid", "expired", "due"}] /\ session \subseteq Role
      /\ \A q \in session : age[q] # "due"
  BY DEF IInv, TypeOK, SessionInv
<1>1. CASE UNCHANGED <<session, age>>
  BY <1>0, <1>1
<1>2. ASSUME NEW w \in Worker, NEW q \in Role, MintCreate(w, q) PROVE age'[r] # "due"
  BY <1>0, <1>2 DEF MintCreate
<1>3. ASSUME NEW q \in Role, ClientConnect(q) \/ ClientClose(q) PROVE age'[r] # "due"
  BY <1>0, <1>3 DEF ClientConnect, ClientClose, catalog
<1>4. ASSUME NEW q \in Role, TimePasses(q) PROVE age'[r] # "due"
  BY <1>0, <1>4 DEF TimePasses
<1> QED
  BY <1>1, <1>2, <1>3, <1>4, SessionSteps

\* Objects go to tenants, to nobody, or to the role of a client that is there.
LEMMA OwnerSteps ==
    ASSUME IInv, [Next]_vars, NEW o \in Object
    PROVE  \/ owner'[o] \in {owner[o], None} \cup Project
           \/ owner'[o] \in session
<1> USE DEF catalog, keys, objects
<1>0. owner \in [Object -> Role \cup Project \cup {None}]
  BY DEF IInv, TypeOK
<1>1. ASSUME NEW w \in Worker, RequestStep(w) PROVE owner'[o] \in {owner[o], None}
  BY <1>1 DEF RequestStep, ExchangeVerify, ExchangeCredentials, MintCreate, MintCommit, DeleteGet,
              DeleteList, DeleteCommit, RequestAborts, OwnerAfter
<1>2. ASSUME NEW r \in Role, ClientStep(r)
      PROVE  owner'[o] \in {owner[o], None} \cup Project \/ owner'[o] \in session
  <2>1. ASSUME NEW x \in Object, ClientCreate(r, x)
        PROVE  owner'[o] = owner[o] \/ owner'[o] \in session
    BY <1>0, <2>1 DEF ClientCreate
  <2>2. ASSUME NEW x \in Object, ChownToTenant(r, x)
        PROVE  owner'[o] \in {owner[o], None} \cup Project
    BY <1>0, <2>2 DEF ChownToTenant, IInv, TypeOK
  <2>3. CASE ClientConnect(r) \/ ClientClose(r) \/ TimePasses(r)
    BY <2>3 DEF ClientConnect, ClientClose, TimePasses
  <2> QED
    BY <1>2, <2>1, <2>2, <2>3 DEF ClientStep
<1>3. ASSUME NEW s \in Sweeper, SweepStep(s) \/ SweepFault(s)
      PROVE  owner'[o] \in {owner[o], None} \cup Project
  <2>1. CASE SweepReassign(s)
    BY <2>1 DEF SweepReassign, Reassigned, OwnerAfter, IInv, SweepInv
  <2>2. CASE SweepDropOwned(s)
    BY <2>2 DEF SweepDropOwned, OwnerAfter
  <2>3. CASE \/ SweepSelect(s) \/ SweepCheck(s) \/ SweepGrant(s) \/ SweepDropRole(s)
             \/ SweepDeleteRow(s) \/ SweepFault(s)
    BY <2>3 DEF SweepSelect, SweepCheck, SweepGrant, SweepDropRole, SweepDeleteRow, SweepFault
  <2> QED
    BY <1>3, <2>1, <2>2, <2>3 DEF SweepStep
<1>4. ASSUME \/ \E p \in Project : CreateProject(p)
             \/ \E k \in Key, p \in Project : IssueKey(k, p)
             \/ \E k \in Key : RevokeKey(k)
             \/ UNCHANGED vars
      PROVE  owner'[o] = owner[o]
  BY <1>4 DEF CreateProject, IssueKey, RevokeKey, vars
<1> QED
  BY <1>1, <1>2, <1>3, <1>4 DEF Next

\* A role that is due comes into nothing any more.
LEMMA DueGainsNothing ==
    ASSUME IInv, SessionInv, ~SessionsLinger, [Next]_vars, NEW r \in Role, age[r] = "due"
    PROVE  Owned(r)' \subseteq Owned(r)
<1>1. r \notin session /\ r \notin Project /\ r # None
  BY NamesApart DEF SessionInv
<1>2. \A o \in Object : owner'[o] = r => owner[o] = r
  BY <1>1, OwnerSteps
<1> QED
  BY <1>2 DEF Owned

\* Which steps bring a sweeper to DROP OWNED and to DROP ROLE.
LEMMA SweeperSteps ==
    ASSUME IInv, [Next]_vars, NEW s \in Sweeper
    PROVE  \/ sweep'[s] = sweep[s]
           \/ SweepReassign(s)
           \/ SweepDropOwned(s)
           \/ sweep'[s].pc \in {"loop", "grant", "reassign", "deleteRow"}
<1> USE DEF catalog, keys, objects
<1>0. sweep \in [Sweeper -> Sweep] /\ \A t \in Sweeper : sweep[t] \in Sweep
  BY DEF IInv, TypeOK
<1>1. ASSUME NEW w \in Worker, RequestStep(w) PROVE UNCHANGED sweep
  BY <1>1 DEF RequestStep, ExchangeVerify, ExchangeCredentials, MintCreate, MintCommit, DeleteGet,
              DeleteList, DeleteCommit, RequestAborts
<1>2. ASSUME NEW r \in Role, ClientStep(r) PROVE UNCHANGED sweep
  BY <1>2 DEF ClientStep, ClientConnect, ClientClose, ClientCreate, ChownToTenant, TimePasses
<1>3. ASSUME NEW t \in Sweeper, SweepStep(t) \/ SweepFault(t), s # t
      PROVE  sweep'[s] = sweep[s]
  BY <1>0, <1>3 DEF SweepStep, SweepSelect, SweepCheck, SweepGrant, SweepReassign, SweepDropOwned,
                    SweepDropRole, SweepDeleteRow, SweepFault, Abandon, Advance
<1>4. CASE \/ SweepSelect(s) \/ SweepCheck(s) \/ SweepGrant(s) \/ SweepDropRole(s)
           \/ SweepDeleteRow(s) \/ SweepFault(s)
  <2>1. SweepSelect(s) => sweep'[s].pc = "loop"
    BY <1>0 DEF SweepSelect, Sweep
  <2>2. SweepCheck(s) => sweep'[s].pc \in {"grant", "deleteRow"}
    BY <1>0 DEF SweepCheck
  <2>3. SweepGrant(s) => sweep'[s].pc \in {"loop", "reassign"}
    BY <1>0 DEF SweepGrant, Abandon, Advance, Sweep
  <2>4. SweepDropRole(s) => sweep'[s].pc \in {"loop", "deleteRow"}
    BY <1>0 DEF SweepDropRole, Abandon, Advance, Sweep
  <2>5. SweepDeleteRow(s) \/ SweepFault(s) => sweep'[s].pc = "loop"
    BY <1>0 DEF SweepDeleteRow, SweepFault, Abandon
  <2> QED
    BY <1>4, <2>1, <2>2, <2>3, <2>4, <2>5
<1>5. ASSUME \/ \E p \in Project : CreateProject(p)
             \/ \E k \in Key, p \in Project : IssueKey(k, p)
             \/ \E k \in Key : RevokeKey(k)
             \/ UNCHANGED vars
      PROVE  UNCHANGED sweep
  BY <1>5 DEF CreateProject, IssueKey, RevokeKey, vars
<1> QED
  BY <1>1, <1>2, <1>3, <1>4, <1>5 DEF Next, SweepStep

LEMMA EmptiedStep ==
    ASSUME IInv, SessionInv, EmptiedInv, [Next]_vars
    PROVE  EmptiedInv'
<1> SUFFICES ASSUME ~SessionsLinger, NEW s \in Sweeper,
                    sweep'[s].pc \in {"dropOwned", "dropRole"}
             PROVE  Owned(sweep[s].role)' = {}
  BY DEF EmptiedInv
<1>0. /\ sweep \in [Sweeper -> Sweep] /\ sweep[s] \in Sweep
      /\ owner \in [Object -> Role \cup Project \cup {None}]
      /\ sweep[s].pc # "loop" => sweep[s].role \in Role /\ sweep[s].tenant \in Project
                                 /\ age[sweep[s].role] = "due"
  BY DEF IInv, TypeOK, SweepInv, Selected
<1>1. CASE sweep'[s] = sweep[s]
  <2>1. Owned(sweep[s].role) = {} /\ sweep[s].role \in Role /\ age[sweep[s].role] = "due"
    BY <1>0, <1>1 DEF EmptiedInv
  <2>2. Owned(sweep[s].role)' = {o \in Object : owner'[o] = sweep[s].role}
    BY <1>1 DEF Owned
  <2>3. \A o \in Object : owner[o] # sweep[s].role
    BY <2>1 DEF Owned
  <2>4. sweep[s].role \notin session /\ sweep[s].role \notin Project /\ sweep[s].role # None
    BY <2>1, NamesApart DEF SessionInv
  <2>5. \A o \in Object : owner'[o] # sweep[s].role
    BY <2>3, <2>4, OwnerSteps
  <2> QED
    BY <2>2, <2>5
<1>2. CASE SweepReassign(s)
  <2>1. /\ sweep'[s].role = sweep[s].role
        /\ \A o \in Object : owner'[o] = IF owner[o] = sweep[s].role
                                         THEN sweep[s].tenant ELSE owner[o]
    BY <1>0, <1>2 DEF SweepReassign, Reassigned, OwnerAfter, Owned, Abandon, Advance, Sweep
  <2>2. sweep[s].role \in Role /\ sweep[s].tenant # sweep[s].role
    BY <1>0, <1>2, NamesApart DEF SweepReassign
  <2> QED
    BY <2>1, <2>2 DEF Owned
<1>3. CASE SweepDropOwned(s)
  <2>1. /\ sweep'[s].role = sweep[s].role
        /\ \A o \in Object : owner'[o] = IF owner[o] = sweep[s].role THEN None ELSE owner[o]
    BY <1>0, <1>3 DEF SweepDropOwned, OwnerAfter, Owned, Abandon, Advance, Sweep
  <2>2. sweep[s].role # None
    BY <1>0, <1>3, NamesApart DEF SweepDropOwned
  <2> QED
    BY <2>1, <2>2 DEF Owned
<1> QED
  BY <1>1, <1>2, <1>3, SweeperSteps

\* A handler that holds no membership, before and after, leaves the locks alone.
LEMMA LockFrame ==
    ASSUME IInv, LockInv, NoStrandedRole, NEW w \in Worker, NEW x \in Request,
           req' = [req EXCEPT ![w] = x], x.pc \notin {"created", "listed"},
           UNCHANGED <<project, pgRole>>
    PROVE  LockInv' /\ NoStrandedRole'
<1>1. \A v \in Worker : req'[v] = IF v = w THEN x ELSE req[v]
  BY DEF IInv, TypeOK
<1>2. LockInv'
  BY <1>1 DEF LockInv, Minting
<1>3. NoStrandedRole'
  BY DEF NoStrandedRole, Exists
<1> QED
  BY <1>2, <1>3

\* A mint begins in a project that is live and that nobody is deleting.
LEMMA CreateLocks ==
    ASSUME IInv, LockInv, NoStrandedRole, NEW w \in Worker, NEW r \in Role, MintCreate(w, r)
    PROVE  LockInv' /\ NoStrandedRole'
<1>1. UNCHANGED <<project, pgRole>> /\ req \in [Worker -> Request] /\ req[w] \in Request
  BY DEF MintCreate, IInv, TypeOK
<1>2. CASE req' = [req EXCEPT ![w] = Idle]
  <2>1. Idle \in Request /\ Idle.pc = "idle"
    BY DEF Idle, Request
  <2> QED
    BY <1>1, <1>2, <2>1, LockFrame
<1>3. CASE /\ project[req[w].project] = "live"
           /\ req' = [req EXCEPT ![w] = [@ EXCEPT !.pc = "created", !.role = r]]
  <2>1. /\ req'[w].pc = "created" /\ req'[w].project = req[w].project
        /\ \A v \in Worker \ {w} : req'[v] = req[v]
    BY <1>1, <1>3 DEF Request
  <2>2. RestEnabled => \A v \in Worker : req[v].pc = "listed" => req[v].project # req[w].project
    BY DEF MintCreate, MembershipLocked
  <2>3. LockInv'
    BY <1>1, <1>3, <2>1, <2>2 DEF LockInv, Minting
  <2>4. NoStrandedRole'
    BY <1>1 DEF NoStrandedRole, Exists
  <2> QED
    BY <2>3, <2>4
<1> QED
  BY <1>2, <1>3 DEF MintCreate

\* Its commit publishes a role in a project that is still live.
LEMMA CommitLocks ==
    ASSUME IInv, LockInv, NoStrandedRole, NEW w \in Worker, MintCommit(w)
    PROVE  LockInv' /\ NoStrandedRole'
<1>1. /\ req[w].pc = "created" /\ req[w].role \in Role /\ req[w].project \in Project
      /\ UNCHANGED project
  BY DEF MintCommit, IInv, PendingInv, RequestInv
<1>2. \A q \in Role : pgRole'[q] = IF q = req[w].role THEN req[w].project ELSE pgRole[q]
  BY <1>1 DEF MintCommit, IInv, TypeOK
<1>3. req'[w].pc = "idle" /\ \A v \in Worker \ {w} : req'[v] = req[v]
  BY DEF MintCommit, Idle, IInv, TypeOK
<1>4. RestEnabled => /\ project[req[w].project] = "live"
                     /\ \A v \in Worker : req[v].pc = "listed" => req[v].project # req[w].project
  BY <1>1 DEF LockInv, Minting
<1>5. LockInv'
  BY <1>1, <1>2, <1>3, <1>4 DEF LockInv, Minting
<1>6. NoStrandedRole'
  BY <1>1, <1>2, <1>4 DEF NoStrandedRole, Exists
<1> QED
  BY <1>5, <1>6

\* The list of a deletion has every role of the tenant.
LEMMA ListLocks ==
    ASSUME IInv, LockInv, NoStrandedRole, NEW w \in Worker, DeleteList(w)
    PROVE  LockInv' /\ NoStrandedRole'
<1>p. PICK p \in Project : p = req[w].project
  BY DEF DeleteList, IInv, RequestInv
<1>1. /\ UNCHANGED <<project, pgRole>> /\ req \in [Worker -> Request] /\ req[w] \in Request
  BY DEF DeleteList, IInv, TypeOK, catalog
<1>2. CASE req' = [req EXCEPT ![w] = Idle]
  <2>1. Idle \in Request /\ Idle.pc = "idle"
    BY DEF Idle, Request
  <2> QED
    BY <1>1, <1>2, <2>1, LockFrame
<1>3. CASE /\ ~(RestEnabled /\ project[p] # "live")
           /\ req' = [req EXCEPT ![w] = [@ EXCEPT !.pc = "listed",
                                                  !.listed = EphemeralRoleNames(p),
                                                  !.keys = {k \in active : keyOf[k] = p}]]
  <2>1. /\ req'[w].pc = "listed" /\ req'[w].project = p
        /\ req'[w].listed = EphemeralRoleNames(p)
        /\ \A v \in Worker \ {w} : req'[v] = req[v]
    BY <1>p, <1>1, <1>3 DEF Request
  <2>2. RestEnabled => ~Minting(p) /\ project[p] = "live"
    BY <1>p, <1>3 DEF DeleteList, MembershipLocked
  <2>3. \A r \in Role : pgRole[r] = p => r \in EphemeralRoleNames(p)
    BY <1>1, NamesApart DEF EphemeralRoleNames, Exists, IInv, NoOrphanRole
  <2>4. \A v \in Worker : ~(req[v].pc = "listed" /\ req[v].project = p)
    BY <1>p DEF DeleteList
  <2>5. RestEnabled => ~Minting(p)'
    BY <2>1, <2>2 DEF Minting
  <2>6. \A v \in Worker \ {w} : RestEnabled =>
            /\ req'[v].pc = "created" => project'[req'[v].project] = "live"
            /\ req'[v].pc = "listed" =>
                 /\ project'[req'[v].project] = "live"
                 /\ req'[v].project # p
                 /\ ~(\E u \in Worker : req'[u].pc = "created" /\ req'[u].project = req'[v].project)
                 /\ \A r \in Role : pgRole'[r] = req'[v].project => r \in req'[v].listed
                 /\ \A u \in Worker : req'[u].pc = "listed" /\ req'[u].project = req'[v].project
                                      => u = v
    BY <1>1, <2>1, <2>4 DEF LockInv, Minting
  <2>7. LockInv'
    BY <1>1, <2>1, <2>2, <2>3, <2>5, <2>6 DEF LockInv, Minting
  <2>8. NoStrandedRole'
    BY <1>1 DEF NoStrandedRole, Exists
  <2> QED
    BY <2>7, <2>8
<1> QED
  BY <1>p, <1>2, <1>3 DEF DeleteList

\* So a deletion that goes through leaves no role of the tenant.
LEMMA DeletionLocks ==
    ASSUME IInv, LockInv, NoStrandedRole, NEW w \in Worker, DeleteCommit(w)
    PROVE  LockInv' /\ NoStrandedRole'
<1>1. Idle \in Request /\ Idle.pc = "idle" /\ req' = [req EXCEPT ![w] = Idle]
  BY DEF DeleteCommit, Idle, Request
<1>2. CASE UNCHANGED <<project, pgRole>>
  BY <1>1, <1>2, LockFrame
<1>3. CASE ~UNCHANGED <<project, pgRole>>
  <2>0. PICK p \in Project, listed \in SUBSET Role : p = req[w].project /\ listed = req[w].listed
    BY <1>3, DeletionDrops
  <2>1. /\ project' = [project EXCEPT ![p] = "deleted"]
        /\ pgRole' = [r \in Role |-> IF r \in listed THEN None ELSE pgRole[r]]
    BY <1>3, <2>0, DeletionDrops
  <2>2. req'[w].pc = "idle" /\ \A v \in Worker \ {w} : req'[v] = req[v]
    BY <1>1 DEF IInv, TypeOK
  <2>3. \A q \in Project \ {p} : project'[q] = project[q]
    BY <2>1 DEF IInv, TypeOK
  <2>4. RestEnabled => /\ \A r \in Role : pgRole[r] = p => r \in listed
                       /\ \A v \in Worker : req[v].pc = "created" => req[v].project # p
                       /\ \A v \in Worker \ {w} : req[v].pc = "listed" => req[v].project # p
    BY <2>0 DEF DeleteCommit, LockInv, Minting
  <2>5. \A v \in Worker : req[v].pc # "idle" => req[v].project \in Project
    BY DEF IInv, RequestInv
  <2>6. \A r \in Role : pgRole'[r] = IF r \in listed THEN None ELSE pgRole[r]
    BY <2>1
  <2>7. LockInv'
    BY <2>2, <2>3, <2>4, <2>5, <2>6, NamesApart DEF LockInv, Minting
  <2>8. NoStrandedRole'
    BY <2>3, <2>4, <2>6 DEF NoStrandedRole, Exists, IInv, TypeOK
  <2> QED
    BY <2>7, <2>8
<1> QED
  BY <1>2, <1>3

LEMMA LockStep ==
    ASSUME IInv, LockInv, NoStrandedRole, [Next]_vars
    PROVE  LockInv' /\ NoStrandedRole'
<1> USE DEF catalog, keys, objects
<1>1. ASSUME NEW w \in Worker, RequestStep(w) PROVE LockInv' /\ NoStrandedRole'
  <2>0. req \in [Worker -> Request] /\ req[w] \in Request /\ Idle \in Request /\ Idle.pc = "idle"
    BY DEF IInv, TypeOK, Idle, Request
  <2>1. ASSUME NEW k \in Key, ExchangeVerify(w, k) PROVE LockInv' /\ NoStrandedRole'
    <3>1. PICK x : x = [req[w] EXCEPT !.pc = "verified", !.project = keyOf[k]]
      OBVIOUS
    <3>2. x \in Request /\ x.pc = "verified"
      BY <2>0, <2>1, <3>1 DEF Request, IInv, TypeOK
    <3> QED
      BY <2>1, <3>1, <3>2, LockFrame DEF ExchangeVerify
  <2>2. CASE ExchangeCredentials(w)
    <3>1. PICK x : x = [req[w] EXCEPT !.pc = "creds"]
      OBVIOUS
    <3>2. x \in Request /\ x.pc = "creds"
      BY <2>0, <3>1 DEF Request
    <3>3. req' = [req EXCEPT ![w] = x] \/ req' = [req EXCEPT ![w] = Idle]
      BY <2>2, <3>1 DEF ExchangeCredentials
    <3> QED
      BY <2>0, <2>2, <3>2, <3>3, LockFrame DEF ExchangeCredentials
  <2>3. ASSUME NEW p \in Project, DeleteGet(w, p) PROVE LockInv' /\ NoStrandedRole'
    <3>1. PICK x : x = [req[w] EXCEPT !.pc = "got", !.project = p]
      OBVIOUS
    <3>2. x \in Request /\ x.pc = "got"
      BY <2>0, <3>1 DEF Request
    <3> QED
      BY <2>3, <3>1, <3>2, LockFrame DEF DeleteGet
  <2>4. CASE RequestAborts(w)
    BY <2>0, <2>4, LockFrame DEF RequestAborts
  <2> QED
    BY <1>1, <2>1, <2>2, <2>3, <2>4, CreateLocks, CommitLocks, ListLocks, DeletionLocks
    DEF RequestStep
<1>2. ASSUME NEW p \in Project, CreateProject(p) PROVE LockInv' /\ NoStrandedRole'
  <2>1. /\ UNCHANGED <<req, pgRole>>
        /\ \A q \in Project : project[q] = "live" => project'[q] = "live"
    BY <1>2 DEF CreateProject, IInv, TypeOK
  <2>2. \A v \in Worker : req[v].pc # "idle" => req[v].project \in Project
    BY DEF IInv, RequestInv
  <2>3. LockInv'
    BY <2>1, <2>2 DEF LockInv, Minting
  <2>4. NoStrandedRole'
    BY <2>1 DEF NoStrandedRole, Exists, IInv, TypeOK
  <2> QED
    BY <2>3, <2>4
<1>3. ASSUME UNCHANGED <<project, req>>, \A r \in Role : pgRole'[r] \in {pgRole[r], None}
      PROVE  LockInv' /\ NoStrandedRole'
  <2>1. \A v \in Worker : req[v].pc # "idle" => req[v].project \in Project
    BY DEF IInv, RequestInv
  <2>2. LockInv'
    BY <1>3, <2>1, NamesApart DEF LockInv, Minting
  <2>3. NoStrandedRole'
    BY <1>3 DEF NoStrandedRole, Exists
  <2> QED
    BY <2>2, <2>3
<1>4. ASSUME NEW s \in Sweeper, SweepStep(s) \/ SweepFault(s) PROVE LockInv' /\ NoStrandedRole'
  <2>1. UNCHANGED <<project, req>>
    BY <1>4 DEF SweepStep, SweepSelect, SweepCheck, SweepGrant, SweepReassign, SweepDropOwned,
                SweepDropRole, SweepDeleteRow, SweepFault
  <2>2. \A r \in Role : pgRole'[r] \in {pgRole[r], None}
    <3>1. CASE SweepDropRole(s)
      BY <3>1, SweepDrops DEF IInv, TypeOK
    <3>2. CASE UNCHANGED pgRole
      BY <3>2
    <3> QED
      BY <1>4, <3>1, <3>2 DEF SweepStep, SweepSelect, SweepCheck, SweepGrant, SweepReassign,
                              SweepDropOwned, SweepDeleteRow, SweepFault
  <2> QED
    BY <1>3, <2>1, <2>2
<1>5. ASSUME \/ \E k \in Key, p \in Project : IssueKey(k, p)
             \/ \E k \in Key : RevokeKey(k)
             \/ \E r \in Role : ClientStep(r)
             \/ UNCHANGED vars
      PROVE  LockInv' /\ NoStrandedRole'
  <2>1. UNCHANGED <<project, req, pgRole>>
    BY <1>5 DEF IssueKey, RevokeKey, ClientStep, ClientConnect, ClientClose, ClientCreate,
                ChownToTenant, TimePasses, vars
  <2> QED
    BY <1>3, <2>1
<1> QED
  BY <1>1, <1>2, <1>4, <1>5 DEF Next

\* What retirement needs holds throughout.
THEOREM RetireInvariant == Spec => []RetireInv
<1>1. Init => RetireInv
  BY DEF Init, RetireInv, SessionInv, EmptiedInv, LockInv, NoStrandedRole, Exists, Idle
<1>2. IInv /\ RetireInv /\ [Next]_vars => RetireInv'
  BY SessionStep, EmptiedStep, LockStep DEF RetireInv
<1> QED
  BY <1>1, <1>2, Invariant, PTL DEF Spec

\* With PostgREST configured, whatever mints and deletions overlap, no ephemeral
\* role is left behind in a deleted project.
THEOREM NoRoleOutlivesProject == Spec => []NoStrandedRole
BY RetireInvariant, PTL DEF RetireInv

\* Where clients leave within the grace, an object goes away with its project
\* only: the sweep hands over all a role owns before it drops what is left.
THEOREM ObjectsSurvive == ~SessionsLinger => (Spec => ObjectsSurviveRoles)
<1> SUFFICES ASSUME ~SessionsLinger PROVE Spec => ObjectsSurviveRoles
  OBVIOUS
<1> DEFINE Kept == \A o \in Object : owner[o] # None /\ owner'[o] = None =>
                      project'[home[o]] = "deleted"
<1>1. IInv /\ RetireInv /\ [Next]_vars => Kept
  <2> SUFFICES ASSUME IInv, RetireInv, [Next]_vars, NEW o \in Object,
                      owner[o] # None, owner'[o] = None
               PROVE  project'[home[o]] = "deleted"
    OBVIOUS
  <2> USE DEF catalog, keys, objects
  <2>0. /\ owner \in [Object -> Role \cup Project \cup {None}]
        /\ home \in [Object -> Project \cup {None}]
        /\ \/ owner[o] = home[o]
           \/ owner[o] \in Role /\ pgRole[owner[o]] = home[o]
    BY DEF IInv, TypeOK, OwnershipStaysInProject
  <2>1. ASSUME NEW w \in Worker, DeleteCommit(w) PROVE project'[home[o]] = "deleted"
    <3>1. CASE \A r \in req[w].listed : Exists(r)
      <4>1. /\ req[w].project \in Project /\ req[w].listed \in SUBSET Role
            /\ \A r \in req[w].listed : pgRole[r] = req[w].project
        BY <2>1, <3>1 DEF DeleteCommit, IInv, TypeOK, Request, RequestInv, Exists
      <4>2. project' = [project EXCEPT ![req[w].project] = "deleted"]
        BY <2>1, <3>1 DEF DeleteCommit
      <4>3. home[o] = req[w].project \/ owner[o] \in req[w].listed
        BY <2>1, <3>1 DEF DeleteCommit, OwnerAfter, DroppedWith
      <4>4. home[o] = req[w].project
        BY <2>0, <4>1, <4>3, NamesApart
      <4> QED
        BY <4>1, <4>2, <4>4 DEF IInv, TypeOK
    <3>2. CASE \E r \in req[w].listed : ~Exists(r)
      BY <2>1, <3>2 DEF DeleteCommit
    <3> QED
      BY <3>1, <3>2
  <2>2. ASSUME NEW w \in Worker, RequestStep(w) PROVE project'[home[o]] = "deleted"
    BY <2>1, <2>2 DEF RequestStep, ExchangeVerify, ExchangeCredentials, MintCreate, MintCommit,
                      DeleteGet, DeleteList, RequestAborts
  <2>3. ASSUME NEW r \in Role, ClientStep(r) PROVE FALSE
    <3>1. ASSUME NEW x \in Object, ClientCreate(r, x) PROVE FALSE
      BY <2>0, <3>1, NamesApart DEF ClientCreate
    <3>2. ASSUME NEW x \in Object, ChownToTenant(r, x) PROVE FALSE
      <4>1. x = o /\ owner[o] = r /\ owner'[o] = home[o] /\ Exists(r)
        BY <2>0, <3>2 DEF ChownToTenant
      <4> QED
        BY <2>0, <4>1, NamesApart DEF Exists
    <3>3. CASE ClientConnect(r) \/ ClientClose(r) \/ TimePasses(r)
      BY <3>3 DEF ClientConnect, ClientClose, TimePasses
    <3> QED
      BY <2>3, <3>1, <3>2, <3>3 DEF ClientStep
  <2>4. ASSUME NEW s \in Sweeper, SweepStep(s) \/ SweepFault(s) PROVE FALSE
    <3>1. CASE SweepReassign(s)
      BY <3>1, NamesApart DEF SweepReassign, Reassigned, OwnerAfter, IInv, SweepInv
    <3>2. CASE SweepDropOwned(s)
      <4>1. Owned(sweep[s].role) = {}
        BY <3>2 DEF SweepDropOwned, RetireInv, EmptiedInv
      <4> QED
        BY <3>2, <4>1 DEF SweepDropOwned, OwnerAfter
    <3>3. CASE \/ SweepSelect(s) \/ SweepCheck(s) \/ SweepGrant(s) \/ SweepDropRole(s)
               \/ SweepDeleteRow(s) \/ SweepFault(s)
      BY <3>3 DEF SweepSelect, SweepCheck, SweepGrant, SweepDropRole, SweepDeleteRow, SweepFault
    <3> QED
      BY <2>4, <3>1, <3>2, <3>3 DEF SweepStep
  <2>5. CASE \/ \E p \in Project : CreateProject(p)
             \/ \E k \in Key, p \in Project : IssueKey(k, p)
             \/ \E k \in Key : RevokeKey(k)
             \/ UNCHANGED vars
    BY <2>5 DEF CreateProject, IssueKey, RevokeKey, vars
  <2> QED
    BY <2>2, <2>3, <2>4, <2>5 DEF Next
<1> QED
  BY <1>1, Invariant, RetireInvariant, PTL DEF Spec, ObjectsSurviveRoles

\* With PostgREST configured and clients gone within the grace, no retirement
\* that has begun stops short of DROP ROLE but for a failure: the tenant role it
\* hands over to is there, and nothing comes back to the role in between.
THEOREM RetirementsGoThrough == RestEnabled /\ ~SessionsLinger => (Spec => RetirementGoesThrough)
<1> SUFFICES ASSUME RestEnabled, ~SessionsLinger PROVE Spec => RetirementGoesThrough
  OBVIOUS
<1> DEFINE Kept == \A s \in Sweeper :
          /\ sweep[s].pc \in {"grant", "reassign", "dropOwned", "dropRole"}
          /\ Exists(sweep[s].role)
          /\ sweep'[s].pc = "loop"
        => faults' > faults
<1>1. IInv /\ RetireInv /\ [Next]_vars => Kept
  <2> SUFFICES ASSUME IInv, RetireInv, [Next]_vars, NEW s \in Sweeper,
                      sweep[s].pc \in {"grant", "reassign", "dropOwned", "dropRole"},
                      Exists(sweep[s].role), sweep'[s].pc = "loop"
               PROVE  faults' > faults
    OBVIOUS
  <2> USE DEF catalog, keys, objects
  <2>0. /\ sweep \in [Sweeper -> Sweep] /\ sweep[s] \in Sweep /\ faults \in Nat
        /\ sweep[s].role \in Role /\ pgRole[sweep[s].role] = sweep[s].tenant
    BY FlagsAssumption DEF IInv, TypeOK, SweepInv, Selected, Exists
  <2>1. project[sweep[s].tenant] = "live"
    BY <2>0 DEF RetireInv, NoStrandedRole
  <2>2. ASSUME NEW t \in Sweeper, SweepStep(t) \/ SweepFault(t), s # t PROVE FALSE
    BY <2>0, <2>2 DEF SweepStep, SweepSelect, SweepCheck, SweepGrant, SweepReassign,
                      SweepDropOwned, SweepDropRole, SweepDeleteRow, SweepFault, Abandon, Advance
  <2>3. CASE SweepStep(s)
    <3>1. CASE SweepGrant(s)
      BY <2>0, <2>1, <3>1 DEF SweepGrant, Advance, Sweep
    <3>2. CASE SweepReassign(s)
      BY <2>0, <2>1, <3>2 DEF SweepReassign, Advance, Sweep
    <3>3. CASE SweepDropOwned(s)
      BY <2>0, <3>3 DEF SweepDropOwned, Advance, Sweep
    <3>4. CASE SweepDropRole(s)
      <4>1. Owned(sweep[s].role) = {}
        BY <3>4 DEF SweepDropRole, RetireInv, EmptiedInv
      <4> QED
        BY <2>0, <3>4, <4>1 DEF SweepDropRole, Advance, Sweep
    <3> QED
      BY <2>3, <3>1, <3>2, <3>3, <3>4 DEF SweepStep, SweepSelect, SweepCheck, SweepDeleteRow
  <2>4. CASE SweepFault(s)
    BY <2>0, <2>4 DEF SweepFault
  <2>5. ASSUME \/ \E w \in Worker : RequestStep(w)
               \/ \E r \in Role : ClientStep(r)
               \/ \E p \in Project : CreateProject(p)
               \/ \E k \in Key, p \in Project : IssueKey(k, p)
               \/ \E k \in Key : RevokeKey(k)
               \/ UNCHANGED vars
        PROVE  UNCHANGED sweep
    BY <2>5 DEF RequestStep, ExchangeVerify, ExchangeCredentials, MintCreate, MintCommit, DeleteGet,
                DeleteList, DeleteCommit, RequestAborts, ClientStep, ClientConnect, ClientClose,
                ClientCreate, ChownToTenant, TimePasses, CreateProject, IssueKey, RevokeKey, vars
  <2> QED
    BY <2>2, <2>3, <2>4, <2>5 DEF Next
<1> QED
  BY <1>1, Invariant, RetireInvariant, PTL DEF Spec, RetirementGoesThrough

-----------------------------------------------------------------------------
(***************************************************************************)
(* Tenancy implements Credential.                                          *)
(***************************************************************************)

\* A credential's abstract state follows from the catalog and the requests.
LEMMA CredFrame ==
    ASSUME UNCHANGED pgRole,
           \A r \in Role : age[r] = "fresh" \/ Pending(r) <=> age'[r] = "fresh" \/ Pending(r)'
    PROVE  [r \in Role |-> CredOf(r)]' = [r \in Role |-> CredOf(r)]
BY DEF CredOf, Exists

\* Handlers that are not minting leave every credential as it is.
LEMMA PendingFrame ==
    ASSUME IInv, NEW w \in Worker, UNCHANGED age, req[w].pc # "created",
           \E x \in Request : req' = [req EXCEPT ![w] = x] /\ x.pc # "created"
    PROVE  \A r \in Role : age[r] = "fresh" \/ Pending(r) <=> age'[r] = "fresh" \/ Pending(r)'
<1>1. \A v \in Worker : req'[v].pc = "created" <=> req[v].pc = "created"
  BY DEF IInv, TypeOK
<1>2. \A v \in Worker : req[v].pc = "created" => req'[v] = req[v]
  BY DEF IInv, TypeOK
<1> QED
  BY <1>1, <1>2 DEF Pending

\* A committed mint issues a name nobody had.
LEMMA CommitIssues ==
    ASSUME IInv, NEW w \in Worker, MintCommit(w)
    PROVE  \E r \in Role, p \in Project : Lease!Issue(r, p)
<1>0. PICK r \in Role, p \in Project : r = req[w].role /\ p = req[w].project
  BY DEF MintCommit, IInv, PendingInv, RequestInv
<1>1. /\ Unpublished(r) /\ Pending(r)
      /\ \A v \in Worker : req[v].pc = "created" /\ req[v].role = r => v = w
  BY <1>0 DEF MintCommit, IInv, PendingInv, Pending
<1>2. pgRole' = [pgRole EXCEPT ![r] = p] /\ UNCHANGED <<age, project>>
  BY <1>0 DEF MintCommit
<1>3. req'[w].pc = "idle" /\ \A v \in Worker \ {w} : req'[v] = req[v]
  BY DEF MintCommit, Idle, IInv, TypeOK
<1>4. CredOf(r) = "unissued" /\ CredOf(r)' = "issued"
  <2>1. pgRole[r] = None /\ pgRole'[r] = p /\ p # None
    BY <1>1, <1>2, NamesApart DEF Unpublished, IInv, TypeOK
  <2> QED
    BY <1>1, <2>1 DEF CredOf, Exists
<1>5. ASSUME NEW q \in Role \ {r} PROVE CredOf(q)' = CredOf(q)
  <2>1. pgRole'[q] = pgRole[q] /\ age'[q] = age[q]
    BY <1>1, <1>2 DEF IInv, TypeOK
  <2>2. Pending(q)' <=> Pending(q)
    BY <1>0, <1>3 DEF Pending
  <2> QED
    BY <2>1, <2>2 DEF CredOf, Exists
<1>6. [x \in Role |-> CredOf(x)]' = [[x \in Role |-> CredOf(x)] EXCEPT ![r] = "issued"]
  <2>1. \A q \in Role : CredOf(q)' = IF q = r THEN "issued" ELSE CredOf(q)
    BY <1>4, <1>5
  <2> QED
    BY <2>1
<1>7. Lease!Issue(r, p)
  BY <1>1, <1>2, <1>4, <1>6 DEF Lease!Issue
<1> QED
  BY <1>1, <1>7

\* A dropped role was issued and is retired.
LEMMA DroppedIsRetired ==
    ASSUME IInv, NEW r \in Role, Exists(r), pgRole'[r] = None, UNCHANGED age,
           \A v \in Worker : req'[v].pc = "created" => req'[v] = req[v]
    PROVE  CredOf(r) = "issued" /\ CredOf(r)' = "retired"
<1>1. age[r] # "fresh" /\ ~Pending(r)
  BY DEF IInv, FreshInv, PendingInv, Pending, Unpublished, Exists
<1>2. ~Pending(r)'
  BY <1>1 DEF Pending
<1> QED
  BY <1>1, <1>2 DEF CredOf, Exists

\* A deletion that goes through deletes the project and retires what it dropped.
LEMMA DeletionRetires ==
    ASSUME IInv, NEW w \in Worker, DeleteCommit(w)
    PROVE  Lease!Next \/ UNCHANGED Lease!vars
<1>1. /\ req[w].pc = "listed" /\ UNCHANGED age
      /\ \E x \in Request : req' = [req EXCEPT ![w] = x] /\ x.pc # "created"
  <2>1. Idle \in Request /\ Idle.pc # "created"
    BY DEF Idle, Request
  <2> QED
    BY <2>1 DEF DeleteCommit
<1>2. \A r \in Role : age[r] = "fresh" \/ Pending(r) <=> age'[r] = "fresh" \/ Pending(r)'
  BY <1>1, PendingFrame
<1>3. \A v \in Worker : req'[v].pc = "created" => req'[v] = req[v]
  BY <1>1 DEF IInv, TypeOK
<1>4. CASE UNCHANGED <<project, pgRole>>
  BY <1>1, <1>2, <1>4, CredFrame DEF Lease!vars
<1>5. CASE ~UNCHANGED <<project, pgRole>>
  <2>1. PICK p \in Project, S \in SUBSET Role :
        /\ \A r \in S : Exists(r) /\ pgRole[r] = p
        /\ project' = [project EXCEPT ![p] = "deleted"]
        /\ pgRole' = [r \in Role |-> IF r \in S THEN None ELSE pgRole[r]]
    BY <1>5, DeletionDrops
  <2>2. \A r \in S : CredOf(r) = "issued" /\ CredOf(r)' = "retired"
    BY <1>1, <1>3, <2>1, DroppedIsRetired
  <2>3. \A r \in Role \ S : CredOf(r)' = CredOf(r)
    BY <1>2, <2>1 DEF CredOf, Exists
  <2>4. [r \in Role |-> CredOf(r)]' =
          [r \in Role |-> IF r \in S THEN "retired" ELSE [q \in Role |-> CredOf(q)][r]]
    BY <2>1, <2>2, <2>3
  <2>5. {q \in Project : project[q] = "deleted"}' =
          {q \in Project : project[q] = "deleted"} \cup {p}
    BY <2>1 DEF IInv, TypeOK
  <2>6. S \in SUBSET {r \in Role : [q \in Role |-> CredOf(q)][r] = "issued" /\ pgRole[r] = p}
    BY <2>1, <2>2
  <2>7. Lease!RetireAll(S)
    BY <2>1, <2>4 DEF Lease!RetireAll
  <2>8. Lease!DeleteProject(p)
    BY <1>1, <2>5, <2>6, <2>7 DEF Lease!DeleteProject
  <2> QED
    BY <2>8 DEF Lease!Next
<1> QED
  BY <1>4, <1>5

\* A sweep retires one credential, or finds it retired.
LEMMA SweepRetires ==
    ASSUME IInv, NEW s \in Sweeper, SweepDropRole(s)
    PROVE  Lease!Next \/ UNCHANGED Lease!vars
<1>0. PICK r \in Role : r = sweep[s].role
  BY SweepDrops
<1>1. age[r] = "due" /\ UNCHANGED <<age, project, req>>
  BY <1>0, SweepDrops DEF SweepDropRole
<1>2. UNCHANGED pgRole \/ pgRole' = [pgRole EXCEPT ![r] = None]
  BY <1>0, SweepDrops
<1>3. \A q \in Role : Pending(q)' <=> Pending(q)
  BY <1>1 DEF Pending
<1>4. CASE UNCHANGED pgRole
  BY <1>1, <1>3, <1>4, CredFrame DEF Lease!vars
<1>5. CASE pgRole' = [pgRole EXCEPT ![r] = None] /\ pgRole' # pgRole
  <2>1. Exists(r) /\ pgRole'[r] = None /\ \A q \in Role \ {r} : pgRole'[q] = pgRole[q]
    BY <1>1, <1>5 DEF Exists, IInv, TypeOK
  <2>2. CredOf(r) = "issued" /\ CredOf(r)' = "retired"
    <3>1. UNCHANGED age /\ \A v \in Worker : req'[v].pc = "created" => req'[v] = req[v]
      BY <1>1
    <3> QED
      BY <2>1, <3>1, DroppedIsRetired
  <2>3. \A q \in Role \ {r} : CredOf(q)' = CredOf(q)
    BY <1>1, <1>3, <2>1 DEF CredOf, Exists
  <2>4. [x \in Role |-> CredOf(x)]' =
          [x \in Role |-> IF x \in {r} THEN "retired" ELSE [q \in Role |-> CredOf(q)][x]]
    BY <1>1, <2>2, <2>3
  <2>5. pgRole' = [x \in Role |-> IF x \in {r} THEN None ELSE pgRole[x]]
    BY <1>1, <1>5 DEF IInv, TypeOK
  <2>6. Lease!RetireAll({r})
    BY <2>4, <2>5 DEF Lease!RetireAll
  <2>7. Lease!Retire(r)
    BY <1>1, <2>2, <2>6 DEF Lease!Retire
  <2> QED
    BY <1>1, <2>7 DEF Lease!Next
<1> QED
  BY <1>2, <1>4, <1>5

\* Rolling back an uncommitted mint discards its name.
LEMMA AbortDiscards ==
    ASSUME IInv, NEW w \in Worker, RequestAborts(w)
    PROVE  Lease!Next \/ UNCHANGED Lease!vars
<1>1. UNCHANGED <<project, age, pgRole>> /\ req' = [req EXCEPT ![w] = Idle]
  BY DEF RequestAborts, catalog
<1>2. Idle \in Request /\ Idle.pc # "created"
  BY DEF Idle, Request
<1>3. CASE req[w].pc # "created"
  BY <1>1, <1>2, <1>3, PendingFrame, CredFrame DEF Lease!vars
<1>4. CASE req[w].pc = "created"
  <2>1. PICK r \in Role : r = req[w].role
    BY <1>4 DEF IInv, PendingInv
  <2>2. /\ age[r] # "fresh" /\ ~Exists(r) /\ Pending(r)
        /\ \A v \in Worker : req[v].pc = "created" /\ req[v].role = r => v = w
    BY <1>4, <2>1 DEF IInv, PendingInv, Unpublished, Exists, Pending
  <2>3. req'[w].pc # "created" /\ \A v \in Worker \ {w} : req'[v] = req[v]
    BY <1>1, <1>2 DEF IInv, TypeOK
  <2>4. ~Pending(r)' /\ \A q \in Role \ {r} : Pending(q)' <=> Pending(q)
    BY <2>1, <2>2, <2>3 DEF Pending
  <2>5. CredOf(r) = "unissued" /\ CredOf(r)' = "retired"
    BY <1>1, <2>2, <2>4 DEF CredOf, Exists
  <2>6. \A q \in Role : CredOf(q)' = IF q = r THEN "retired" ELSE CredOf(q)
    BY <1>1, <2>4, <2>5 DEF CredOf, Exists
  <2>7. [x \in Role |-> CredOf(x)]' = [[x \in Role |-> CredOf(x)] EXCEPT ![r] = "retired"]
    BY <2>6
  <2>8. Lease!Discard(r)
    BY <1>1, <2>5, <2>7 DEF Lease!Discard
  <2> QED
    BY <2>8 DEF Lease!Next
<1> QED
  BY <1>3, <1>4

\* Drawing a name changes nothing anyone can see.
LEMMA DrawStutters ==
    ASSUME IInv, NEW w \in Worker, NEW r \in Role, MintCreate(w, r)
    PROVE  UNCHANGED Lease!vars
<1>1. UNCHANGED <<project, pgRole>> /\ age[r] = "fresh" /\ req[w].pc = "creds"
  BY DEF MintCreate, EphemeralRoleName
<1>2. CASE UNCHANGED age /\ req' = [req EXCEPT ![w] = Idle]
  <2>1. Idle \in Request /\ Idle.pc # "created"
    BY DEF Idle, Request
  <2> QED
    BY <1>1, <1>2, <2>1, PendingFrame, CredFrame DEF Lease!vars
<1>3. CASE /\ age' = [age EXCEPT ![r] = "valid"]
           /\ req' = [req EXCEPT ![w] = [@ EXCEPT !.pc = "created", !.role = r]]
  <2>1. /\ req'[w].pc = "created" /\ req'[w].role = r
        /\ \A v \in Worker \ {w} : req'[v] = req[v]
    BY <1>3 DEF IInv, TypeOK, Request
  <2>2. age'[r] = "valid" /\ \A q \in Role \ {r} : age'[q] = age[q]
    BY <1>3 DEF IInv, TypeOK
  <2>3. Pending(r)' /\ \A q \in Role \ {r} : Pending(q)' <=> Pending(q)
    BY <1>1, <2>1 DEF Pending
  <2>4. [x \in Role |-> CredOf(x)]' = [x \in Role |-> CredOf(x)]
    BY <1>1, <2>2, <2>3, CredFrame
  <2>5. {q \in Role : age[q] = "due"}' = {q \in Role : age[q] = "due"}
    BY <1>1, <2>2
  <2> QED
    BY <1>1, <2>4, <2>5 DEF Lease!vars
<1> QED
  BY <1>2, <1>3 DEF MintCreate

\* Time ends leases and nothing else.
LEMMA TimeEndsLeases ==
    ASSUME IInv, NEW r \in Role, TimePasses(r)
    PROVE  Lease!Next \/ UNCHANGED Lease!vars
<1>1. UNCHANGED <<project, pgRole, req>>
  BY DEF TimePasses
<1>2. age \in [Role -> {"fresh", "valid", "expired", "due"}]
  BY DEF IInv, TypeOK
<1>3. \A q \in Role : /\ Pending(q)' <=> Pending(q)
                      /\ age'[q] = "fresh" <=> age[q] = "fresh"
  BY <1>1, <1>2 DEF TimePasses, Pending
<1>4. [x \in Role |-> CredOf(x)]' = [x \in Role |-> CredOf(x)]
  BY <1>1, <1>3, CredFrame
<1>5. CASE age' = [age EXCEPT ![r] = "expired"] /\ age[r] = "valid"
  <2>1. {q \in Role : age[q] = "due"}' = {q \in Role : age[q] = "due"}
    BY <1>2, <1>5
  <2> QED
    BY <1>1, <1>4, <2>1 DEF Lease!vars
<1>6. CASE age' = [age EXCEPT ![r] = "due"]
  <2>1. {q \in Role : age[q] = "due"}' = {q \in Role : age[q] = "due"} \cup {r}
    BY <1>2, <1>6
  <2>2. Lease!LeaseEnds(r)
    BY <1>1, <1>4, <2>1 DEF Lease!LeaseEnds
  <2> QED
    BY <2>2 DEF Lease!Next
<1> QED
  BY <1>5, <1>6 DEF TimePasses

\* Every step is a step of Credential, or none.
LEMMA RefinementStep ==
    ASSUME IInv, [Next]_vars
    PROVE  Lease!Next \/ UNCHANGED Lease!vars
<1> USE DEF catalog, keys, objects
<1>f. ASSUME UNCHANGED <<age, pgRole, req>>,
             \A p \in Project : project'[p] = "deleted" <=> project[p] = "deleted"
      PROVE  UNCHANGED Lease!vars
  <2>1. \A q \in Role : Pending(q)' <=> Pending(q)
    BY <1>f DEF Pending
  <2> QED
    BY <1>f, <2>1, CredFrame DEF Lease!vars
<1>1. ASSUME NEW p \in Project, CreateProject(p) PROVE UNCHANGED Lease!vars
  BY <1>f, <1>1 DEF CreateProject, IInv, TypeOK
<1>2. ASSUME NEW k \in Key, NEW p \in Project, IssueKey(k, p) PROVE UNCHANGED Lease!vars
  BY <1>f, <1>2 DEF IssueKey
<1>3. ASSUME NEW k \in Key, RevokeKey(k) PROVE UNCHANGED Lease!vars
  BY <1>f, <1>3 DEF RevokeKey
<1>4. ASSUME NEW w \in Worker, RequestStep(w) PROVE Lease!Next \/ UNCHANGED Lease!vars
  <2>1. ASSUME NEW k \in Key, ExchangeVerify(w, k) PROVE UNCHANGED Lease!vars
    <3>1. req' = [req EXCEPT ![w] = [req[w] EXCEPT !.pc = "verified", !.project = keyOf[k]]]
          /\ [req[w] EXCEPT !.pc = "verified", !.project = keyOf[k]] \in Request
      BY <2>1 DEF ExchangeVerify, IInv, TypeOK, Request
    <3>2. [req[w] EXCEPT !.pc = "verified", !.project = keyOf[k]].pc # "created"
          /\ req[w].pc # "created" /\ UNCHANGED <<age, pgRole, project>>
      BY <2>1 DEF ExchangeVerify, IInv, TypeOK, Request
    <3> QED
      BY <3>1, <3>2, PendingFrame, CredFrame DEF Lease!vars
  <2>2. ASSUME ExchangeCredentials(w) \/ DeleteList(w) PROVE UNCHANGED Lease!vars
    <3>1. req[w].pc # "created" /\ UNCHANGED <<age, pgRole, project>>
      BY <2>2 DEF ExchangeCredentials, DeleteList
    <3>2. req'[w].pc # "created" /\ \A v \in Worker \ {w} : req'[v] = req[v]
      <4>1. Idle.pc # "created" /\ req \in [Worker -> Request] /\ req[w] \in Request
        BY DEF Idle, IInv, TypeOK
      <4>2. CASE ExchangeCredentials(w)
        BY <4>1, <4>2 DEF ExchangeCredentials, Request
      <4>3. CASE DeleteList(w)
        BY <4>1, <4>3 DEF DeleteList, Request
      <4> QED
        BY <2>2, <4>2, <4>3
    <3>3. \A q \in Role : Pending(q)' <=> Pending(q)
      BY <3>1, <3>2 DEF Pending
    <3> QED
      BY <3>1, <3>3, CredFrame DEF Lease!vars
  <2>3. ASSUME NEW r \in Role, MintCreate(w, r) PROVE UNCHANGED Lease!vars
    BY <2>3, DrawStutters
  <2>4. ASSUME MintCommit(w) PROVE Lease!Next
    BY <2>4, CommitIssues DEF Lease!Next
  <2>5. ASSUME NEW p \in Project, DeleteGet(w, p) PROVE UNCHANGED Lease!vars
    <3>1. req[w].pc # "created" /\ UNCHANGED <<age, pgRole, project>>
      BY <2>5 DEF DeleteGet
    <3>2. req'[w].pc # "created" /\ \A v \in Worker \ {w} : req'[v] = req[v]
      BY <2>5 DEF DeleteGet, IInv, TypeOK, Request
    <3>3. \A q \in Role : Pending(q)' <=> Pending(q)
      BY <3>1, <3>2 DEF Pending
    <3> QED
      BY <3>1, <3>3, CredFrame DEF Lease!vars
  <2> QED
    BY <1>4, <2>1, <2>2, <2>3, <2>4, <2>5, DeletionRetires, AbortDiscards DEF RequestStep
<1>5. ASSUME NEW r \in Role, ClientStep(r) PROVE Lease!Next \/ UNCHANGED Lease!vars
  <2>1. CASE TimePasses(r)
    BY <2>1, TimeEndsLeases
  <2>2. CASE \/ ClientConnect(r) \/ ClientClose(r)
             \/ \E o \in Object : ClientCreate(r, o) \/ ChownToTenant(r, o)
    BY <1>f, <2>2 DEF ClientConnect, ClientClose, ClientCreate, ChownToTenant
  <2> QED
    BY <1>5, <2>1, <2>2 DEF ClientStep
<1>6. ASSUME NEW s \in Sweeper, SweepStep(s) \/ SweepFault(s)
      PROVE  Lease!Next \/ UNCHANGED Lease!vars
  <2>1. CASE SweepDropRole(s)
    BY <2>1, SweepRetires
  <2>2. CASE ~SweepDropRole(s)
    BY <1>6, <1>f, <2>2
    DEF SweepStep, SweepSelect, SweepCheck, SweepGrant, SweepReassign, SweepDropOwned,
        SweepDeleteRow, SweepFault
  <2> QED
    BY <2>1, <2>2
<1>7. CASE UNCHANGED vars
  BY <1>f, <1>7 DEF vars
<1> QED
  BY <1>1, <1>2, <1>3, <1>4, <1>5, <1>6, <1>7 DEF Next

\* Minting, sweeping and deleting together keep the promise of Credential.
THEOREM Refinement == Spec => ImplementsCredential
<1>1. Init => Lease!Init
  BY DEF Init, Lease!Init, CredOf, Exists
<1>2. IInv /\ [Next]_vars => [Lease!Next]_Lease!vars
  BY RefinementStep
<1> QED
  BY <1>1, <1>2, Invariant, PTL DEF Spec, ImplementsCredential, Lease!Spec
=============================================================================

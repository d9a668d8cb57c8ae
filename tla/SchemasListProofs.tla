------------------------- MODULE SchemasListProofs -------------------------
(***************************************************************************)
(* What is proved about SchemasList for any number of projects and         *)
(* processes: types; under any overlap the order of EnsureRoles and that   *)
(* PostgREST is told of what it does not serve; and, when requests do not  *)
(* overlap, that the list is in sync and every rewrite of it exact.        *)
(***************************************************************************)
EXTENDS SchemasList, TLAPS

\* The lists in hand are current while nothing may commit next to them, and a
\* list that is out of date without a failure is about to be rebuilt: by a
\* process that has committed, or by the next start of one that crashed.
HandsAreCurrent == ~Overlap => \A i \in Process : proc[i].pc = "alter" => proc[i].list = Live
WillRebuild(i) == proc[i].pc \in {"down", "checkRole", "createRole", "read", "alter"}
StaleIsPending == (~Overlap /\ faults = 0 /\ Process # {} /\ dbSchemas # Live)
                     => \E i \in Process : WillRebuild(i)

IInv == TypeOK /\ HandsAreCurrent /\ StaleIsPending

LEMMA TypeInit == Init => TypeOK
BY FaultsAssumption DEF Init, TypeOK, Proc, PostgREST, Down, BootRoles

\* A starting process moves between the steps before its rebuild, or exits.
LEMMA BootProc ==
    ASSUME TypeOK, NEW i \in Process, Boot(i)
    PROVE  /\ proc' \in [Process -> Proc]
           /\ proc'[i].pc \in {"down", "checkRole", "createRole", "read"}
           /\ \A j \in Process \ {i} : proc'[j] = proc[j]
<1> PICK new \in Proc : /\ proc' = [proc EXCEPT ![i] = new]
                        /\ new.pc \in {"down", "checkRole", "createRole", "read"}
  <2> DEFINE Becomes(new) == proc' = [proc EXCEPT ![i] = new]
  <2>a. proc[i] \in Proc
    BY DEF TypeOK
  <2>1. CASE Start(i)
    <3>1. /\ [Down EXCEPT !.pc = "checkRole"] \in Proc
          /\ [Down EXCEPT !.pc = "checkRole"].pc = "checkRole"
      BY DEF Down, Proc, BootRoles
    <3>2. Becomes([Down EXCEPT !.pc = "checkRole"])
      BY <2>1 DEF Start
    <3> QED
      BY <3>1, <3>2
  <2>2. CASE AfterRole(i)
    <3>1. CASE proc[i].role = "anon"
      <4> DEFINE new == [proc[i] EXCEPT !.pc = "checkRole", !.role = "authenticator"]
      <4>1. new \in Proc /\ new.pc = "checkRole"
        BY <2>a DEF Proc, BootRoles
      <4>2. Becomes(new)
        BY <2>2, <3>1 DEF AfterRole, TypeOK
      <4> QED
        BY <4>1, <4>2
    <3>2. CASE proc[i].role # "anon"
      <4> DEFINE new == [proc[i] EXCEPT !.pc = "read"]
      <4>1. new \in Proc /\ new.pc = "read"
        BY <2>a DEF Proc
      <4>2. Becomes(new)
        BY <2>2, <3>2 DEF AfterRole, TypeOK
      <4> QED
        BY <4>1, <4>2
    <3> QED
      BY <3>1, <3>2
  <2>3. CASE Goto(i, "createRole")
    <3> DEFINE new == [proc[i] EXCEPT !.pc = "createRole"]
    <3>1. new \in Proc /\ new.pc = "createRole"
      BY <2>a DEF Proc
    <3>2. Becomes(new)
      BY <2>3 DEF Goto, TypeOK
    <3> QED
      BY <3>1, <3>2
  <2>4. CASE proc' = [proc EXCEPT ![i] = Down]
    <3>1. Down \in Proc /\ Down.pc = "down"
      BY DEF Down, Proc, BootRoles
    <3> QED
      BY <2>4, <3>1
  <2> QED
    BY <2>1, <2>2, <2>3, <2>4 DEF Boot, CheckRole, CreateRole
<1> QED
  BY DEF TypeOK

LEMMA TypeStep == TypeOK /\ [Next]_vars => TypeOK'
<1> SUFFICES ASSUME TypeOK, [Next]_vars PROVE TypeOK'
  OBVIOUS
<1> USE FaultsAssumption DEF TypeOK
<1>1. ASSUME NEW i \in Process, Boot(i) PROVE TypeOK'
  <2>1. proc' \in [Process -> Proc]
    BY <1>1, BootProc
  <2>2. roles' \in SUBSET BootRoles
    BY <1>1 DEF Boot, Start, CheckRole, CreateRole, Proc
  <2> QED
    BY <1>1, <2>1, <2>2 DEF Boot, Start, CheckRole, CreateRole
<1>2. ASSUME NEW i \in Process, NEW p \in Project, CreateProject(i, p) \/ DeleteProject(i, p)
      PROVE  TypeOK'
  <2>1. /\ project' \in [Project -> {"absent", "live", "deleted"}]
        /\ member' \in SUBSET Project
    BY <1>2 DEF CreateProject, DeleteProject
  <2>2. proc' \in [Process -> Proc]
    BY <1>2 DEF CreateProject, DeleteProject, Goto, Proc
  <2> QED
    BY <1>2, <2>1, <2>2 DEF CreateProject, DeleteProject
<1>3. ASSUME NEW i \in Process, Rebuild(i) PROVE TypeOK'
  BY <1>3 DEF Rebuild, ReadSchemas, AlterRole, Notify, Goto, Proc, PostgREST, Live
<1>4. ASSUME NEW i \in Process, RebuildFails(i) PROVE TypeOK'
  BY <1>4 DEF RebuildFails, Goto, Proc
<1>5. ASSUME NEW i \in Process, Crash(i) PROVE TypeOK'
  BY <1>5 DEF Crash, Proc, Down, BootRoles
<1>6. ASSUME Connect \/ Reload \/ Disconnect PROVE TypeOK'
  <2>1. postgrest' \in PostgREST
    <3>1. CASE Connect
      BY <3>1 DEF Connect, PostgREST
    <3>2. CASE Reload
      BY <3>2 DEF Reload, PostgREST
    <3>3. CASE Disconnect
      BY <3>3 DEF Disconnect, PostgREST
    <3> QED
      BY <1>6, <3>1, <3>2, <3>3
  <2> QED
    BY <1>6, <2>1 DEF Connect, Reload, Disconnect
<1>7. CASE UNCHANGED vars
  BY <1>7 DEF vars
<1> QED
  BY <1>1, <1>2, <1>3, <1>4, <1>5, <1>6, <1>7 DEF Next, Handle

\* SchemasList's variables have their types.
THEOREM TypeCorrect == Spec => []TypeOK
BY TypeInit, TypeStep, PTL DEF Spec

\* A commit waits for every rebuild, so it finds no list in hand.
LEMMA HandsStep == TypeOK /\ HandsAreCurrent /\ [Next]_vars => HandsAreCurrent'
<1> SUFFICES ASSUME TypeOK, HandsAreCurrent, [Next]_vars, ~Overlap,
                    NEW j \in Process, proc'[j].pc = "alter"
             PROVE  proc'[j].list = Live'
  BY DEF HandsAreCurrent
<1> USE DEF TypeOK, Proc
<1>1. ASSUME NEW i \in Process, Boot(i) PROVE proc'[j].list = Live'
  <2>1. j # i /\ proc'[j] = proc[j]
    BY <1>1, BootProc
  <2>2. project' = project
    BY <1>1 DEF Boot, Start, CheckRole, CreateRole
  <2> QED
    BY <2>1, <2>2 DEF Live, HandsAreCurrent
<1>2. ASSUME NEW i \in Process, Handle(i) PROVE FALSE
  BY <1>2 DEF Handle, CreateProject, DeleteProject, Admitted, Rebuilding, Goto
<1>3. ASSUME NEW i \in Process, Rebuild(i) PROVE proc'[j].list = Live'
  BY <1>3 DEF Rebuild, ReadSchemas, AlterRole, Notify, Goto, Live, HandsAreCurrent
<1>4. ASSUME NEW i \in Process, RebuildFails(i) \/ Crash(i) PROVE proc'[j].list = Live'
  BY <1>4 DEF RebuildFails, Crash, Down, Goto, Live, HandsAreCurrent
<1>5. ASSUME UNCHANGED <<project, proc>> PROVE proc'[j].list = Live'
  BY <1>5 DEF Live, HandsAreCurrent
<1> QED
  BY <1>1, <1>2, <1>3, <1>4, <1>5 DEF Next, vars, Connect, Reload, Disconnect

\* Only ALTER ROLE writes the list, and what it writes is in hand and current.
LEMMA PendingStep == IInv /\ [Next]_vars => StaleIsPending'
<1> SUFFICES ASSUME IInv, [Next]_vars, ~Overlap, (faults = 0)', Process # {},
                    dbSchemas' # Live'
             PROVE  \E i \in Process : WillRebuild(i)'
  BY DEF StaleIsPending
<1> USE DEF IInv, TypeOK, Proc
<1>1. ASSUME NEW i \in Process, Boot(i) PROVE WillRebuild(i)'
  BY <1>1, BootProc DEF WillRebuild
<1>2. ASSUME NEW i \in Process, Handle(i) PROVE WillRebuild(i)'
  BY <1>2 DEF Handle, CreateProject, DeleteProject, Goto, WillRebuild
<1>3. ASSUME NEW i \in Process, ReadSchemas(i) PROVE WillRebuild(i)'
  BY <1>3 DEF ReadSchemas, WillRebuild
<1>4. ASSUME NEW i \in Process, AlterRole(i) PROVE FALSE
  BY <1>4 DEF AlterRole, HandsAreCurrent, Live
<1>5. ASSUME NEW i \in Process, Notify(i) PROVE \E j \in Process : WillRebuild(j)'
  <2>1. PICK j \in Process : WillRebuild(j)
    BY <1>5 DEF Notify, StaleIsPending, Live
  <2> QED
    BY <1>5, <2>1 DEF Notify, Goto, WillRebuild
<1>6. ASSUME NEW i \in Process, RebuildFails(i) PROVE FALSE
  BY <1>6 DEF RebuildFails
<1>7. ASSUME NEW i \in Process, Crash(i) PROVE WillRebuild(i)'
  BY <1>7 DEF Crash, Down, WillRebuild
<1>8. ASSUME UNCHANGED <<project, dbSchemas, proc, faults>>
      PROVE  \E i \in Process : WillRebuild(i)'
  BY <1>8 DEF StaleIsPending, Live, WillRebuild
<1> QED
  BY <1>1, <1>2, <1>3, <1>4, <1>5, <1>6, <1>7, <1>8
     DEF Next, vars, Rebuild, Connect, Reload, Disconnect

\* When requests do not overlap, a list in hand is current and a stale one is
\* about to be rebuilt, in every state.
THEOREM Invariant == Spec => []IInv
<1>1. Init => IInv
  BY TypeInit DEF Init, IInv, HandsAreCurrent, StaleIsPending, Live, Down
<1>2. IInv /\ [Next]_vars => IInv'
  BY TypeStep, HandsStep, PendingStep DEF IInv
<1> QED
  BY <1>1, <1>2, PTL DEF Spec

\* When requests do not overlap, the list is in sync whenever all processes are
\* done, whatever crashed and restarted meanwhile.
THEOREM SerialInSync == ASSUME ~Overlap, Process # {} PROVE Spec => []InSync
<1>1. IInv => InSync
  BY DEF IInv, StaleIsPending, WillRebuild, InSync, Quiet
<1> QED
  BY <1>1, Invariant, PTL

\* When requests do not overlap, every rewrite leaves exactly the live projects,
\* failed rebuilds before it or not.
THEOREM SerialRewrites == ASSUME ~Overlap PROVE Spec => RewritesAreExact
<1>1. IInv /\ [Next]_vars => (dbSchemas' # dbSchemas => dbSchemas' = Live)
  <2> SUFFICES ASSUME IInv, [Next]_vars, dbSchemas' # dbSchemas PROVE dbSchemas' = Live
    OBVIOUS
  <2>1. PICK i \in Process : AlterRole(i)
    BY DEF Next, vars, Boot, Start, CheckRole, CreateRole, Handle, CreateProject,
           DeleteProject, Rebuild, ReadSchemas, Notify, RebuildFails, Crash,
           Connect, Reload, Disconnect
  <2> QED
    BY <2>1 DEF AlterRole, IInv, HandsAreCurrent
<1> QED
  BY <1>1, Invariant, PTL DEF Spec, RewritesAreExact, vars

(***************************************************************************)
(* Whatever overlaps: who is told, and which roles there are.              *)
(***************************************************************************)

\* A process alters the authenticator, and serves, only once both roles exist,
\* though replicas that start together race to make them.
RoleFirst(i) == /\ proc[i].pc \in {"read", "alter", "notify", "serving"} => roles = BootRoles
                /\ proc[i].role = "authenticator" => "anon" \in roles
RolesFirst == \A i \in Process : RoleFirst(i)

LEMMA ToldStep == TypeOK /\ StaleIsTold /\ [Next]_vars => StaleIsTold'
<1> SUFFICES ASSUME TypeOK, StaleIsTold, [Next]_vars, (faults = 0)', postgrest'.up,
                    postgrest'.serves # dbSchemas'
             PROVE  postgrest'.reload \/ \E i \in Process : proc'[i].pc # "serving"
  BY DEF StaleIsTold, Quiet
<1> USE DEF TypeOK, Proc
<1>1. ASSUME NEW i \in Process, Boot(i) PROVE proc'[i].pc # "serving"
  BY <1>1, BootProc
<1>2. ASSUME NEW i \in Process, Handle(i) PROVE proc'[i].pc # "serving"
  BY <1>2 DEF Handle, CreateProject, DeleteProject, Goto
<1>3. ASSUME NEW i \in Process, ReadSchemas(i) \/ AlterRole(i) PROVE proc'[i].pc # "serving"
  BY <1>3 DEF ReadSchemas, AlterRole, Goto
<1>4. ASSUME NEW i \in Process, Notify(i) PROVE postgrest'.reload
  <2>1. postgrest'.reload = postgrest.up /\ postgrest'.up = postgrest.up
    BY <1>4 DEF Notify, PostgREST
  <2> QED
    BY <2>1
<1>5. ASSUME NEW i \in Process, RebuildFails(i) PROVE FALSE
  BY <1>5 DEF RebuildFails
<1>6. ASSUME NEW i \in Process, Crash(i) PROVE proc'[i].pc # "serving"
  BY <1>6 DEF Crash, Down
<1>7. CASE Connect \/ Reload \/ Disconnect
  <2>1. CASE Connect
    BY <2>1 DEF Connect
  <2>2. CASE Reload
    <3>1. postgrest'.serves = dbSchemas'
      BY <2>2 DEF Reload, PostgREST
    <3> QED
      BY <3>1
  <2>3. CASE Disconnect
    <3>1. ~postgrest'.up
      BY <2>3 DEF Disconnect
    <3> QED
      BY <3>1
  <2> QED
    BY <1>7, <2>1, <2>2, <2>3
<1>8. CASE UNCHANGED vars
  BY <1>8 DEF vars, StaleIsTold, Quiet
<1> QED
  BY <1>1, <1>2, <1>3, <1>4, <1>5, <1>6, <1>7, <1>8 DEF Next, Rebuild

\* NOTIFY is sent after every rewrite, and a PostgREST that connects reads the
\* setting itself: however requests overlap and processes crash, unless a rebuild
\* failed, none is left serving an older list with nobody to tell it.
THEOREM PostgRESTIsTold == Spec => []StaleIsTold
<1>1. Init => StaleIsTold
  BY DEF Init, StaleIsTold
<1> QED
  BY <1>1, ToldStep, TypeCorrect, PTL DEF Spec

LEMMA RolesStep == TypeOK /\ RolesFirst /\ [Next]_vars => RolesFirst'
<1> SUFFICES ASSUME TypeOK, RolesFirst, [Next]_vars, NEW j \in Process
             PROVE  RoleFirst(j)'
  BY DEF RolesFirst
<1> USE DEF RoleFirst
<1>0. /\ proc \in [Process -> Proc] /\ proc[j].role \in BootRoles
      /\ proc[j].pc \in {"read", "alter", "notify", "serving"} => roles = BootRoles
      /\ proc[j].role = "authenticator" => "anon" \in roles
      /\ roles \subseteq BootRoles
  BY DEF TypeOK, Proc, RolesFirst
<1>1. ASSUME roles \subseteq roles', roles' \subseteq BootRoles, proc'[j] = proc[j] \/ proc'[j] = Down
      PROVE  RoleFirst(j)'
  BY <1>0, <1>1 DEF Down
<1>2. ASSUME NEW i \in Process, AfterRole(i), proc[i].role \in roles',
             roles \subseteq roles', roles' \subseteq BootRoles
      PROVE  RoleFirst(j)'
  <2>1. CASE j # i
    BY <1>0, <1>1, <1>2, <2>1 DEF AfterRole
  <2>2. CASE j = i /\ proc[j].role = "anon"
    <3>1. proc'[j].pc = "checkRole"
      BY <1>0, <1>2, <2>2 DEF AfterRole, Proc
    <3> QED
      BY <1>2, <2>2, <3>1
  <2>3. CASE j = i /\ proc[j].role = "authenticator"
    <3>1. "anon" \in roles' /\ "authenticator" \in roles'
      BY <1>0, <1>2, <2>3
    <3> QED
      BY <1>2, <3>1 DEF BootRoles
  <2> QED
    BY <1>0, <2>1, <2>2, <2>3 DEF BootRoles
<1>3. ASSUME NEW i \in Process, NEW pc, Goto(i, pc), roles' = roles,
             pc \in {"read", "alter", "notify", "serving"} =>
                 proc[i].pc \in {"read", "alter", "notify", "serving"}
      PROVE  RoleFirst(j)'
  <2>1. proc'[j] = IF j = i THEN [proc[j] EXCEPT !.pc = pc] ELSE proc[j]
    BY <1>0, <1>3 DEF Goto
  <2>2. proc'[j].role = proc[j].role /\ (proc'[j].pc = IF j = i THEN pc ELSE proc[j].pc)
    BY <1>0, <2>1 DEF Proc
  <2> QED
    BY <1>0, <1>3, <2>2
<1>4. ASSUME NEW i \in Process, Start(i)
      PROVE  RoleFirst(j)'
  <2>1. roles' = roles /\ (proc'[j] = IF j = i THEN [Down EXCEPT !.pc = "checkRole"] ELSE proc[j])
    BY <1>0, <1>4 DEF Start
  <2> QED
    BY <1>0, <2>1 DEF Down
<1>5. ASSUME NEW i \in Process, CheckRole(i) \/ CreateRole(i)
      PROVE  RoleFirst(j)'
  <2>1. proc[i].role \in BootRoles
    BY DEF TypeOK, Proc
  <2>2. CASE AfterRole(i) /\ proc[i].role \in roles' /\ roles \subseteq roles' /\ roles' \subseteq BootRoles
    BY <1>2, <2>2
  <2>3. CASE CheckRole(i) /\ Goto(i, "createRole")
    BY <1>3, <2>3 DEF CheckRole
  <2>4. CASE CreateRole(i) /\ proc' = [proc EXCEPT ![i] = Down] /\ roles' = roles
    BY <1>0, <1>1, <2>4
  <2> QED
    BY <1>0, <1>5, <2>1, <2>2, <2>3, <2>4 DEF CheckRole, CreateRole
<1>6. ASSUME NEW i \in Process, Handle(i) \/ Rebuild(i) \/ RebuildFails(i)
      PROVE  RoleFirst(j)'
  <2>1. CASE ReadSchemas(i)
    <3>1. /\ roles' = roles /\ proc[i].pc = "read"
          /\ proc'[j].role = proc[j].role
          /\ j # i => proc'[j] = proc[j]
      BY <1>0, <2>1 DEF ReadSchemas, Proc
    <3> QED
      BY <1>0, <3>1
  <2> QED
    BY <1>3, <1>6, <2>1 DEF Handle, CreateProject, DeleteProject, Admitted, Rebuild, AlterRole,
                            Notify, RebuildFails, Rebuilding
<1>7. ASSUME NEW i \in Process, Crash(i)
      PROVE  RoleFirst(j)'
  BY <1>0, <1>1, <1>7 DEF Crash
<1>8. ASSUME UNCHANGED <<proc, roles>>
      PROVE  RoleFirst(j)'
  BY <1>0, <1>8
<1> QED
  BY <1>4, <1>5, <1>6, <1>7, <1>8 DEF Next, Boot, Connect, Reload, Disconnect, vars

\* EnsureRoles, run by any number of replicas at once and again after crashes, is
\* done before a process rewrites the setting or serves.
THEOREM RolesComeFirst == Spec => []RolesFirst
<1>1. Init => RolesFirst
  BY DEF Init, Down, RolesFirst, RoleFirst
<1> QED
  BY <1>1, RolesStep, TypeCorrect, PTL DEF Spec
=============================================================================

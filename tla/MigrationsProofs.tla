-------------------------- MODULE MigrationsProofs --------------------------
(***************************************************************************)
(* What is proved about Migrations for any number of replicas, handlers,   *)
(* projects and faults: the log is true of the schemas, its outcomes stay  *)
(* (which rests on the request timeout being below the sweep's threshold), *)
(* an answer of success has its row, and passwords end in one envelope.    *)
(***************************************************************************)
EXTENDS Migrations, TLAPS

Waiting == {"creds", "check", "log"}
Working == {"baseline", "river", "update"}

\* What an Apply in progress knows of the project it was called for, ...
OfProject(w) ==
    job[w].pc # "idle" => /\ job[w].project \in Project
                          /\ project[job[w].project] # "absent"
\* ... how much time it has left, which its row in the log bounds, ...
InTime(w) ==
    /\ job[w].pc \notin Ended => now <= job[w].deadline
    /\ job[w].pc \in Waiting => job[w].deadline <= now + RequestTimeout
HasRow(w) ==
    job[w].pc \in Working =>
        /\ job[w].id \in DOMAIN log
        /\ log[job[w].id].project = job[w].project
        /\ log[job[w].id].state = "pending"
        /\ job[w].deadline <= log[job[w].id].started + RequestTimeout
\* ... and what it has installed.
HasInstalled(w) ==
    Live(job[w].project) =>
        /\ job[w].pc = "river" => job[w].project \in baseline
        /\ job[w].pc = "update" /\ job[w].ok => Installed(job[w].project)
        /\ job[w].pc = "done" => Installed(job[w].project)

JobInv(w) == OfProject(w) /\ InTime(w) /\ HasRow(w) /\ HasInstalled(w)

\* No two of them write the same row.
OwnRows == \A v, w \in Worker :
    v # w /\ job[v].pc \in Working /\ job[w].pc \in Working => job[v].id # job[w].id

\* The log is about projects that exist or existed, and it is true.
RowInv(i) == /\ project[log[i].project] # "absent"
             /\ log[i].state = "applied" /\ Live(log[i].project) => Installed(log[i].project)

IInv == /\ MigrationsTypeOK
        /\ \A w \in Worker : JobInv(w)
        /\ OwnRows
        /\ \A i \in DOMAIN log : RowInv(i)

-----------------------------------------------------------------------------
(***************************************************************************)
(* Types.                                                                  *)
(***************************************************************************)

LEMMA IdleType == Idle \in Job
BY DEF Idle, Job

LEMMA DownType == Down \in Proc
BY DEF Down, Proc

LEMMA RowsInLog ==
    ASSUME MigrationsTypeOK, NEW i \in DOMAIN log
    PROVE  /\ log[i] \in Row
           /\ log[i].project \in Project
           /\ log[i].started \in Nat
           /\ i \in Nat /\ i <= Len(log) /\ i >= 1
<1>1. /\ log \in Seq(Row)
      /\ Len(log) \in Nat
      /\ DOMAIN log = 1..Len(log)
  BY DEF MigrationsTypeOK
<1>2. log[i] \in Row
  BY <1>1
<1> QED BY <1>1, <1>2 DEF Row

LEMMA JobTypes ==
    ASSUME MigrationsTypeOK, NEW w \in Worker
    PROVE  /\ job[w] \in Job
           /\ job[w].id \in Nat /\ job[w].deadline \in Nat /\ job[w].ok \in BOOLEAN
           /\ job[w].project \in Project \cup {None}
BY DEF MigrationsTypeOK, Job

\* A row written at one place.
LEMMA LogUpdated ==
    ASSUME MigrationsTypeOK, NEW i \in DOMAIN log, NEW s \in {"pending", "applied", "failed"},
           log' = [log EXCEPT ![i].state = s]
    PROVE  /\ log' \in Seq(Row)
           /\ DOMAIN log' = DOMAIN log
           /\ Len(log') = Len(log)
           /\ \A k \in DOMAIN log : log'[k] = IF k = i THEN [log[k] EXCEPT !.state = s] ELSE log[k]
<1>1. /\ log \in Seq(Row)
      /\ Len(log) \in Nat
      /\ DOMAIN log = 1..Len(log)
  BY DEF MigrationsTypeOK
<1>2. log[i] \in Row
  BY RowsInLog
<1> DEFINE r == [log[i] EXCEPT !.state = s]
<1>3. r \in Row
  BY <1>2 DEF Row
<1>4. log' = [log EXCEPT ![i] = r]
  OBVIOUS
<1> HIDE DEF r
<1>5. /\ log' \in Seq(Row)
      /\ DOMAIN log' = DOMAIN log
      /\ Len(log') = Len(log)
      /\ \A k \in DOMAIN log : log'[k] = IF k = i THEN r ELSE log[k]
  BY <1>1, <1>3, <1>4
<1> QED BY <1>5 DEF r

\* A row added.
LEMMA LogAppended ==
    ASSUME MigrationsTypeOK, NEW r \in Row, log' = Append(log, r)
    PROVE  /\ log' \in Seq(Row)
           /\ DOMAIN log' = DOMAIN log \cup {Len(log) + 1}
           /\ Len(log) + 1 \notin DOMAIN log
           /\ \A k \in DOMAIN log : log'[k] = log[k]
           /\ log'[Len(log) + 1] = r
BY DEF MigrationsTypeOK

\* SweepStale's UPDATE.
LEMMA LogSwept ==
    ASSUME MigrationsTypeOK,
           log' = [i \in DOMAIN log |-> IF Orphaned(log[i])
                                        THEN [log[i] EXCEPT !.state = "failed"] ELSE log[i]]
    PROVE  /\ log' \in Seq(Row)
           /\ DOMAIN log' = DOMAIN log
           /\ \A i \in DOMAIN log :
                log'[i] = IF Orphaned(log[i]) THEN [log[i] EXCEPT !.state = "failed"] ELSE log[i]
<1>1. \A i \in DOMAIN log : [log[i] EXCEPT !.state = "failed"] \in Row
  BY RowsInLog DEF Row
<1>2. DOMAIN log = 1..Len(log) /\ Len(log) \in Nat
  BY DEF MigrationsTypeOK
<1>3. \A i \in 1..Len(log) : log'[i] \in Row
  BY <1>1, <1>2, RowsInLog
<1> QED BY <1>2, <1>3

-----------------------------------------------------------------------------
(***************************************************************************)
(* What steps leave of others' work: stated for one handler, to be used    *)
(* for all that do not take the step.                                      *)
(***************************************************************************)

\* The log only grows, rows keep their project and start.
LogStands == /\ DOMAIN log \subseteq DOMAIN log'
             /\ \A i \in DOMAIN log : /\ log'[i].project = log[i].project
                                     /\ log'[i].started = log[i].started

\* Projects come and go once, and what is installed goes only with them.
TenantsStand == \A p \in Project :
    /\ project[p] # "absent" => project'[p] # "absent"
    /\ project[p] # "absent" /\ project'[p] = "live" =>
         /\ project[p] = "live"
         /\ p \in baseline => p \in baseline'
         /\ p \in river => p \in river'

LEMMA UntouchedLog == ASSUME log' = log PROVE LogStands
BY DEF LogStands

LEMMA UntouchedTenants == ASSUME UNCHANGED <<project, baseline, river>> PROVE TenantsStand
BY DEF TenantsStand

\* A handler that does nothing, and whose row nobody writes, stays as it was.
LEMMA OthersStand ==
    ASSUME MigrationsTypeOK, LogStands, TenantsStand, now' = now,
           NEW v \in Worker, JobInv(v), job'[v] = job[v],
           job[v].pc \in Working => log'[job[v].id].state = log[job[v].id].state
    PROVE  JobInv(v)'
<1>1. OfProject(v)'
  BY DEF JobInv, OfProject, TenantsStand
<1>2. InTime(v)'
  BY DEF JobInv, InTime
<1>3. HasRow(v)'
  BY DEF JobInv, HasRow, LogStands
<1>4. HasInstalled(v)'
  <2>1. CASE job[v].pc = "idle"
    BY <2>1 DEF HasInstalled
  <2>2. CASE job[v].pc # "idle"
    BY <2>2 DEF JobInv, OfProject, HasInstalled, TenantsStand, Live, Installed
  <2> QED BY <2>1, <2>2
<1> QED BY <1>1, <1>2, <1>3, <1>4 DEF JobInv

\* So does a row that keeps its state.
LEMMA RowStands ==
    ASSUME MigrationsTypeOK, LogStands, TenantsStand,
           NEW i \in DOMAIN log, RowInv(i), log'[i].state \in {log[i].state, "pending", "failed"}
    PROVE  RowInv(i)'
BY RowsInLog DEF RowInv, LogStands, TenantsStand, Live, Installed

\* What is left to show of a step of one handler that leaves the log alone.
LEMMA StepOfOne ==
    ASSUME IInv, TenantsStand, UNCHANGED <<log, now>>,
           NEW w \in Worker, NEW j \in Job, job' = [job EXCEPT ![w] = j],
           JobInv(w)', MigrationsTypeOK',
           j.pc \in Working => job[w].pc \in Working /\ j.id = job[w].id
    PROVE  IInv'
<1>1. \A v \in Worker : job'[v] = IF v = w THEN j ELSE job[v]
  BY DEF IInv, MigrationsTypeOK
<1>2. LogStands
  BY UntouchedLog
<1>3. \A v \in Worker : JobInv(v)'
  <2> TAKE v \in Worker
  <2>1. CASE v = w
    BY <2>1
  <2>2. CASE v # w
    BY <1>1, <1>2, <2>2, OthersStand DEF IInv
  <2> QED BY <2>1, <2>2
<1>4. OwnRows'
  BY <1>1 DEF IInv, OwnRows
<1>5. \A i \in DOMAIN log' : RowInv(i)'
  BY <1>2, RowStands DEF IInv
<1> QED BY <1>3, <1>4, <1>5 DEF IInv

-----------------------------------------------------------------------------
(***************************************************************************)
(* Steps of Apply.                                                         *)
(***************************************************************************)

LEMMA ApplyKeeps ==
    ASSUME IInv, NEW w \in Worker, NEW p \in Project, NEW d \in now..(now + RequestTimeout),
           Apply(w, p, d)
    PROVE  IInv'
<1> DEFINE j == [Idle EXCEPT !.pc = "creds", !.project = p, !.deadline = d]
<1>1. now \in Nat /\ RequestTimeout \in Nat /\ d \in Nat
  BY TimesAssumption DEF IInv, MigrationsTypeOK
<1>2. j \in Job /\ j.pc = "creds" /\ j.project = p /\ j.deadline = d
  BY <1>1 DEF Idle, Job
<1>3. job' = [job EXCEPT ![w] = j] /\ project[p] # "absent"
  BY DEF Apply
<1> HIDE DEF j
<1>4. MigrationsTypeOK' /\ job'[w] = j
  BY <1>2, <1>3 DEF IInv, MigrationsTypeOK, Apply, tenants
<1>5. JobInv(w)'
  BY <1>1, <1>2, <1>3, <1>4 DEF JobInv, OfProject, InTime, HasRow, HasInstalled, Waiting, Working,
     Apply, tenants
<1>6. TenantsStand
  BY UntouchedTenants DEF Apply, tenants
<1> QED BY <1>2, <1>3, <1>4, <1>5, <1>6, StepOfOne DEF Apply, Working

\* One handler goes on to another statement, or to its end.
LEMMA GotoKeeps ==
    ASSUME IInv, TenantsStand, UNCHANGED <<log, now, proc>>, NEW w \in Worker,
           NEW pc \in {"check", "log", "river", "update"}, Goto(w, pc),
           project' \in [Project -> {"absent", "live", "deleted"}], stored' \in [Project -> Nat],
           baseline' \subseteq Project, river' \subseteq Project, faults' \in Nat,
           job[w].pc \notin Ended,
           pc \in Waiting => job[w].pc \in Waiting,
           pc \in Working => job[w].pc \in Working,
           HasInstalled(w)'
    PROVE  IInv'
<1> DEFINE j == [job[w] EXCEPT !.pc = pc]
<1>1. job[w] \in Job
  BY JobTypes DEF IInv
<1>2. /\ j \in Job /\ j.pc = pc /\ j.project = job[w].project
      /\ j.deadline = job[w].deadline /\ j.id = job[w].id
  BY <1>1 DEF Job
<1>3. job' = [job EXCEPT ![w] = j]
  BY DEF Goto
<1> HIDE DEF j
<1>4. MigrationsTypeOK' /\ job'[w] = j
  BY <1>2, <1>3 DEF IInv, MigrationsTypeOK
<1>5. JobInv(w)'
  <2>1. OfProject(w)'
    BY <1>2, <1>4 DEF IInv, JobInv, OfProject, TenantsStand, Ended
  <2>2. InTime(w)'
    BY <1>2, <1>4 DEF IInv, JobInv, InTime
  <2>3. HasRow(w)'
    BY <1>2, <1>4 DEF IInv, JobInv, HasRow
  <2> QED BY <2>1, <2>2, <2>3 DEF JobInv
<1> QED BY <1>2, <1>3, <1>4, <1>5, StepOfOne

\* One handler's Apply returns.
LEMMA ReturnKeeps ==
    ASSUME IInv, TenantsStand, UNCHANGED <<log, now, proc>>, NEW w \in Worker,
           NEW pc \in {"done", "failed"}, Return(w, pc),
           project' \in [Project -> {"absent", "live", "deleted"}], stored' \in [Project -> Nat],
           baseline' \subseteq Project, river' \subseteq Project, faults' \in Nat,
           job[w].pc \notin Ended,
           pc = "done" /\ Live(job[w].project) => Installed(job[w].project),
           pc = "failed" \/ UNCHANGED tenants
    PROVE  IInv'
<1> DEFINE j == [Idle EXCEPT !.pc = pc, !.project = job[w].project]
<1>1. j \in Job /\ j.pc = pc /\ j.project = job[w].project
  BY JobTypes DEF IInv, Idle, Job
<1>2. job' = [job EXCEPT ![w] = j]
  BY DEF Return
<1> HIDE DEF j
<1>3. MigrationsTypeOK' /\ job'[w] = j
  BY <1>1, <1>2 DEF IInv, MigrationsTypeOK
<1>4. JobInv(w)'
  <2>1. OfProject(w)'
    BY <1>1, <1>3 DEF IInv, JobInv, OfProject, TenantsStand, Ended
  <2>2. InTime(w)' /\ HasRow(w)'
    BY <1>1, <1>3 DEF InTime, HasRow, Ended, Waiting, Working
  <2>3. HasInstalled(w)'
    BY <1>1, <1>3 DEF HasInstalled, tenants, Live, Installed
  <2> QED BY <2>1, <2>2, <2>3 DEF JobInv
<1> QED BY <1>1, <1>2, <1>3, <1>4, StepOfOne DEF Working

LEMMA GetCredentialsKeeps ==
    ASSUME IInv, NEW w \in Worker, GetCredentials(w)
    PROVE  IInv'
<1>1. TenantsStand
  BY UntouchedTenants DEF GetCredentials, tenants
<1>2. CASE Goto(w, "check")
  <2>1. HasInstalled(w)'
    BY <1>2 DEF HasInstalled, Goto, IInv, MigrationsTypeOK
  <2> QED BY <1>1, <1>2, <2>1, GotoKeeps
          DEF GetCredentials, Waiting, Working, Ended, tenants, IInv, MigrationsTypeOK
<1>3. CASE Return(w, "failed")
  BY <1>1, <1>3, ReturnKeeps DEF GetCredentials, Ended, tenants, IInv, MigrationsTypeOK
<1> QED BY <1>2, <1>3 DEF GetCredentials

LEMMA isAppliedKeeps ==
    ASSUME IInv, NEW w \in Worker, isApplied(w)
    PROVE  IInv'
<1>1. TenantsStand
  BY UntouchedTenants DEF isApplied, tenants
<1>2. faults' \in Nat
  BY DEF isApplied, Fault, IInv, MigrationsTypeOK
<1>3. CASE Goto(w, "log")
  <2>1. HasInstalled(w)'
    BY <1>3 DEF HasInstalled, Goto, IInv, MigrationsTypeOK
  <2> QED BY <1>1, <1>2, <1>3, <2>1, GotoKeeps
          DEF isApplied, Waiting, Working, Ended, tenants, IInv, MigrationsTypeOK
<1>4. CASE Return(w, "done") /\ IsApplied(job[w].project)
  <2>1. Live(job[w].project) => Installed(job[w].project)
    BY <1>4 DEF IsApplied, IInv, RowInv
  <2> QED BY <1>1, <1>2, <1>4, <2>1, ReturnKeeps DEF isApplied, Ended, tenants, IInv, MigrationsTypeOK
<1> QED BY <1>3, <1>4 DEF isApplied

LEMMA StatementFailsKeeps ==
    ASSUME IInv, NEW w \in Worker, StatementFails(w)
    PROVE  IInv'
<1> DEFINE j == [job[w] EXCEPT !.pc = "update", !.ok = FALSE]
<1>1. job[w] \in Job
  BY JobTypes DEF IInv
<1>2. /\ j \in Job /\ j.pc = "update" /\ ~j.ok /\ j.project = job[w].project
      /\ j.deadline = job[w].deadline /\ j.id = job[w].id
  BY <1>1 DEF Job
<1>3. job' = [job EXCEPT ![w] = j] /\ UNCHANGED <<tenants, log, now, proc>>
      /\ job[w].pc \in {"baseline", "river"} /\ faults' \in Nat
  BY DEF StatementFails, Fault, IInv, MigrationsTypeOK
<1> HIDE DEF j
<1>4. MigrationsTypeOK' /\ job'[w] = j
  BY <1>2, <1>3 DEF IInv, MigrationsTypeOK, tenants
<1>5. JobInv(w)'
  BY <1>2, <1>3, <1>4 DEF IInv, JobInv, OfProject, InTime, HasRow, HasInstalled, Waiting, Working, Ended,
     tenants
<1>6. TenantsStand
  BY <1>3, UntouchedTenants DEF tenants
<1> QED BY <1>2, <1>3, <1>4, <1>5, <1>6, StepOfOne DEF Working

\* DDL of a handler: it adds to its project's schema and to nothing else.
LEMMA BaselineAdded ==
    ASSUME IInv, NEW w \in Worker, job[w].pc # "idle", baseline' = baseline \cup {job[w].project},
           UNCHANGED <<project, river>>
    PROVE  TenantsStand /\ baseline' \subseteq Project
BY DEF IInv, JobInv, OfProject, TenantsStand, MigrationsTypeOK

LEMMA RiverAdded ==
    ASSUME IInv, NEW w \in Worker, job[w].pc # "idle", river' = river \cup {job[w].project},
           UNCHANGED <<project, baseline>>
    PROVE  TenantsStand /\ river' \subseteq Project
BY DEF IInv, JobInv, OfProject, TenantsStand, MigrationsTypeOK

LEMMA ApplyBaselineKeeps ==
    ASSUME IInv, NEW w \in Worker, ApplyBaseline(w)
    PROVE  IInv'
<1>1. TenantsStand /\ baseline' \subseteq Project
  BY BaselineAdded DEF ApplyBaseline
<1>2. HasInstalled(w)'
  BY DEF ApplyBaseline, Goto, HasInstalled, IInv, MigrationsTypeOK
<1> QED BY <1>1, <1>2, GotoKeeps DEF ApplyBaseline, Waiting, Working, Ended, IInv, MigrationsTypeOK

LEMMA MigrateRiverKeeps ==
    ASSUME IInv, NEW w \in Worker, MigrateRiver(w)
    PROVE  IInv'
<1>1. TenantsStand /\ river' \subseteq Project
  BY RiverAdded DEF MigrateRiver
<1>2. HasInstalled(w)'
  <2>1. job'[w].pc = "update" /\ job'[w].project = job[w].project
    BY DEF MigrateRiver, Goto, IInv, MigrationsTypeOK
  <2>2. job[w].project \in baseline /\ baseline' = baseline
    BY DEF MigrateRiver, IInv, JobInv, HasInstalled
  <2> QED BY <2>1, <2>2 DEF MigrateRiver, HasInstalled, Installed
<1> QED BY <1>1, <1>2, GotoKeeps DEF MigrateRiver, Waiting, Working, Ended, IInv, MigrationsTypeOK

LEMMA RespondKeeps ==
    ASSUME IInv, NEW w \in Worker, Respond(w)
    PROVE  IInv'
<1>1. job' = [job EXCEPT ![w] = Idle] /\ UNCHANGED <<tenants, log, now, proc, faults>>
  BY DEF Respond
<1>2. MigrationsTypeOK' /\ job'[w] = Idle
  BY <1>1, IdleType DEF IInv, MigrationsTypeOK, tenants
<1>3. JobInv(w)'
  BY <1>2 DEF JobInv, OfProject, InTime, HasRow, HasInstalled, Waiting, Working, Ended, Idle
<1>4. TenantsStand
  BY <1>1, UntouchedTenants DEF tenants
<1> QED BY <1>1, <1>2, <1>3, <1>4, IdleType, StepOfOne DEF Idle, Working

\* The pending row: appended, by a handler in time, with or without going on.
LEMMA PendingKeeps ==
    ASSUME IInv, NEW w \in Worker, job[w].pc = "log", UNCHANGED <<tenants, now, proc, faults>>,
           log' = Append(log, [project |-> job[w].project, state |-> "pending", started |-> now]),
           NEW j \in Job, job' = [job EXCEPT ![w] = j],
           j.pc \in {"failed", "baseline"}, j.project = job[w].project,
           j.pc = "baseline" => j.deadline = job[w].deadline /\ j.id = Len(log) + 1
    PROVE  IInv'
<1> DEFINE r == [project |-> job[w].project, state |-> "pending", started |-> now]
<1>1. /\ job[w].project \in Project /\ project[job[w].project] # "absent"
      /\ now <= job[w].deadline /\ job[w].deadline <= now + RequestTimeout
      /\ now \in Nat
  BY DEF IInv, JobInv, OfProject, InTime, Waiting, Ended, MigrationsTypeOK
<1>2. r \in Row /\ r.project = job[w].project /\ r.state = "pending" /\ r.started = now
  BY <1>1 DEF Row
<1>3. log' = Append(log, r)
  OBVIOUS
<1> HIDE DEF r
<1>4. /\ log' \in Seq(Row)
      /\ DOMAIN log' = DOMAIN log \cup {Len(log) + 1}
      /\ Len(log) + 1 \notin DOMAIN log
      /\ \A k \in DOMAIN log : log'[k] = log[k]
      /\ log'[Len(log) + 1] = r
  BY <1>2, <1>3, LogAppended DEF IInv
<1>5. MigrationsTypeOK' /\ (\A v \in Worker : job'[v] = IF v = w THEN j ELSE job[v])
  BY <1>4 DEF IInv, MigrationsTypeOK, tenants
<1>6. LogStands /\ TenantsStand
  BY <1>4, UntouchedTenants DEF LogStands, tenants
<1>7. JobInv(w)'
  <2>1. job'[w] = j
    BY <1>5
  <2>2. OfProject(w)' /\ InTime(w)' /\ HasInstalled(w)'
    BY <1>1, <2>1 DEF OfProject, InTime, HasInstalled, tenants, Waiting, Ended
  <2>3. HasRow(w)'
    BY <1>1, <1>2, <1>4, <2>1 DEF HasRow, Working
  <2> QED BY <2>2, <2>3 DEF JobInv
<1>8. \A v \in Worker : JobInv(v)'
  <2> TAKE v \in Worker
  <2>1. CASE v = w
    BY <1>7, <2>1
  <2>2. CASE v # w
    BY <1>4, <1>5, <1>6, <2>2, OthersStand DEF IInv, JobInv, HasRow
  <2> QED BY <2>1, <2>2
<1>9. OwnRows'
  <2>1. \A v \in Worker : v # w /\ job[v].pc \in Working => job'[v].id # Len(log) + 1
    BY <1>4, <1>5 DEF IInv, JobInv, HasRow
  <2> QED BY <1>5, <2>1 DEF IInv, OwnRows, Working
<1>10. \A i \in DOMAIN log' : RowInv(i)'
  <2> TAKE i \in DOMAIN log'
  <2>1. CASE i \in DOMAIN log
    BY <1>4, <1>6, <2>1, RowStands DEF IInv
  <2>2. CASE i = Len(log) + 1
    BY <1>1, <1>2, <1>4, <2>2 DEF RowInv, tenants
  <2> QED BY <1>4, <2>1, <2>2
<1> QED BY <1>5, <1>8, <1>9, <1>10 DEF IInv

LEMMA LogPendingKeeps ==
    ASSUME IInv, NEW w \in Worker, LogPending(w)
    PROVE  IInv'
<1> DEFINE j == [job[w] EXCEPT !.pc = "baseline", !.id = Len(log) + 1]
<1>1. job[w] \in Job /\ Len(log) + 1 \in Nat
  BY JobTypes DEF IInv, MigrationsTypeOK
<1>2. /\ j \in Job /\ j.pc = "baseline" /\ j.project = job[w].project
      /\ j.deadline = job[w].deadline /\ j.id = Len(log) + 1
  BY <1>1 DEF Job
<1>3. job' = [job EXCEPT ![w] = j]
  BY DEF LogPending
<1> HIDE DEF j
<1> QED BY <1>2, <1>3, PendingKeeps DEF LogPending

\* The completion: written to the handler's own row, which is still pending.
LEMMA CompletionKeeps ==
    ASSUME IInv, NEW w \in Worker, job[w].pc = "update", UNCHANGED <<tenants, now, proc, faults>>,
           log' = [log EXCEPT ![job[w].id].state = Outcome(w)],
           NEW pc \in {"done", "failed"}, Return(w, pc), pc = "done" => job[w].ok
    PROVE  IInv'
<1> DEFINE id == job[w].id
           j == [Idle EXCEPT !.pc = pc, !.project = job[w].project]
<1>1. job[w].project \in Project \cup {None}
  BY JobTypes DEF IInv
<1>2. j \in Job /\ j.pc = pc /\ j.project = job[w].project
  BY <1>1 DEF Idle, Job
<1>3. job' = [job EXCEPT ![w] = j]
  BY DEF Return
<1> HIDE DEF j
<1>4. id \in DOMAIN log /\ Outcome(w) \in {"applied", "failed"}
  BY DEF IInv, JobInv, HasRow, Working, Outcome
<1>5. /\ log' \in Seq(Row)
      /\ DOMAIN log' = DOMAIN log
      /\ \A k \in DOMAIN log :
           log'[k] = IF k = id THEN [log[k] EXCEPT !.state = Outcome(w)] ELSE log[k]
  BY <1>4, LogUpdated DEF IInv
<1>6. MigrationsTypeOK' /\ (\A v \in Worker : job'[v] = IF v = w THEN j ELSE job[v])
  BY <1>2, <1>3, <1>5 DEF IInv, MigrationsTypeOK, tenants
<1>7. /\ \A k \in DOMAIN log : log'[k].project = log[k].project /\ log'[k].started = log[k].started
      /\ \A k \in DOMAIN log : k # id => log'[k].state = log[k].state
      /\ log'[id].state = Outcome(w)
  <2>1. \A k \in DOMAIN log : log[k] \in Row
    BY RowsInLog DEF IInv
  <2> QED BY <1>4, <1>5, <2>1 DEF Row
<1>8. LogStands /\ TenantsStand
  BY <1>5, <1>7, UntouchedTenants DEF LogStands, tenants
<1>9. Live(job[w].project) /\ job[w].ok => Installed(job[w].project)
  BY DEF IInv, JobInv, HasInstalled
<1>10. JobInv(w)'
  <2>1. job'[w] = j
    BY <1>6
  <2>2. OfProject(w)' /\ InTime(w)' /\ HasRow(w)'
    BY <1>2, <2>1 DEF IInv, JobInv, OfProject, InTime, HasRow, tenants, Waiting, Working, Ended
  <2>3. HasInstalled(w)'
    BY <1>2, <1>9, <2>1 DEF HasInstalled, tenants, Live, Installed
  <2> QED BY <2>2, <2>3 DEF JobInv
<1>11. \A v \in Worker : JobInv(v)'
  <2> TAKE v \in Worker
  <2>1. CASE v = w
    BY <1>10, <2>1
  <2>2. CASE v # w
    <3>1. job[v].pc \in Working => job[v].id # id /\ job[v].id \in DOMAIN log
      BY <2>2 DEF IInv, OwnRows, Working, JobInv, HasRow
    <3> QED BY <1>6, <1>7, <1>8, <2>2, <3>1, OthersStand DEF IInv
  <2> QED BY <2>1, <2>2
<1>12. OwnRows'
  BY <1>2, <1>6 DEF IInv, OwnRows, Working
<1>13. \A i \in DOMAIN log' : RowInv(i)'
  <2> TAKE i \in DOMAIN log'
  <2>1. CASE i # id
    BY <1>5, <1>7, <1>8, <2>1, RowStands DEF IInv
  <2>2. CASE i = id
    <3>1. log'[i].project = job[w].project /\ project[job[w].project] # "absent"
      BY <1>4, <1>7, <2>2 DEF IInv, JobInv, HasRow, OfProject, Working
    <3>2. log'[i].state = "applied" => job[w].ok
      BY <1>7, <2>2 DEF Outcome
    <3> QED BY <1>9, <3>1, <3>2 DEF RowInv, tenants, Live, Installed
  <2> QED BY <2>1, <2>2
<1> QED BY <1>6, <1>11, <1>12, <1>13 DEF IInv

LEMMA UpdateLogKeeps ==
    ASSUME IInv, NEW w \in Worker, UpdateLog(w)
    PROVE  IInv'
<1>1. PICK pc \in {"done", "failed"} : Return(w, pc) /\ (pc = "done" => job[w].ok)
  BY DEF UpdateLog
<1> QED BY <1>1, CompletionKeeps DEF UpdateLog

LEMMA CancelKeeps ==
    ASSUME IInv, NEW w \in Worker, Cancel(w)
    PROVE  IInv'
<1>1. /\ Return(w, "failed") /\ UNCHANGED <<project, stored, now, proc, faults>>
      /\ job[w].pc \notin Ended /\ job[w].pc # "idle"
  BY DEF Cancel, Ended
<1>2. CASE UNCHANGED <<baseline, river, log>>
  <2>1. TenantsStand
    BY <1>1, <1>2, UntouchedTenants
  <2> QED BY <1>1, <1>2, <2>1, ReturnKeeps DEF IInv, MigrationsTypeOK
<1>3. CASE /\ job[w].pc = "log"
           /\ log' = Append(log, [project |-> job[w].project, state |-> "pending", started |-> now])
           /\ UNCHANGED <<baseline, river>>
  <2> DEFINE j == [Idle EXCEPT !.pc = "failed", !.project = job[w].project]
  <2>1. j \in Job /\ j.pc = "failed" /\ j.project = job[w].project
    BY JobTypes DEF IInv, Idle, Job
  <2>2. job' = [job EXCEPT ![w] = j]
    BY <1>1 DEF Return
  <2> HIDE DEF j
  <2> QED BY <1>1, <1>3, <2>1, <2>2, PendingKeeps DEF tenants
<1>4. CASE baseline' = baseline \cup {job[w].project} /\ UNCHANGED <<river, log>>
  <2>1. TenantsStand /\ baseline' \subseteq Project
    BY <1>1, <1>4, BaselineAdded
  <2> QED BY <1>1, <1>4, <2>1, ReturnKeeps DEF IInv, MigrationsTypeOK
<1>5. CASE river' = river \cup {job[w].project} /\ UNCHANGED <<baseline, log>>
  <2>1. TenantsStand /\ river' \subseteq Project
    BY <1>1, <1>5, RiverAdded
  <2> QED BY <1>1, <1>5, <2>1, ReturnKeeps DEF IInv, MigrationsTypeOK
<1>6. CASE /\ job[w].pc = "update"
           /\ log' = [log EXCEPT ![job[w].id].state = Outcome(w)]
           /\ UNCHANGED <<baseline, river>>
  BY <1>1, <1>6, CompletionKeeps DEF tenants
<1> QED BY <1>2, <1>3, <1>4, <1>5, <1>6 DEF Cancel

-----------------------------------------------------------------------------
(***************************************************************************)
(* Steps of the replicas, of projects and of time.                         *)
(***************************************************************************)

\* What is left to show when no handler moves.
LEMMA StepOfNone ==
    ASSUME IInv, LogStands, TenantsStand, UNCHANGED <<now, job>>, MigrationsTypeOK',
           DOMAIN log' = DOMAIN log,
           \A i \in DOMAIN log : log'[i].state \in {log[i].state, "failed"},
           \A w \in Worker : job[w].pc \in Working => log'[job[w].id].state = "pending"
    PROVE  IInv'
<1>1. \A v \in Worker : JobInv(v)'
  BY OthersStand DEF IInv, JobInv, HasRow
<1>2. OwnRows'
  BY DEF IInv, OwnRows
<1>3. \A i \in DOMAIN log' : RowInv(i)'
  BY RowStands DEF IInv
<1> QED BY <1>1, <1>2, <1>3 DEF IInv

LEMMA LogUntouched ==
    ASSUME IInv, log' = log
    PROVE  /\ LogStands /\ DOMAIN log' = DOMAIN log
           /\ \A i \in DOMAIN log : log'[i].state \in {log[i].state, "failed"}
           /\ \A w \in Worker : job[w].pc \in Working => log'[job[w].id].state = "pending"
BY UntouchedLog DEF IInv, JobInv, HasRow

\* The row of an apply that is under way is too young to be swept: its handler
\* has less than RequestTimeout, which is within StaleAfter.
LEMMA RunningIsYoung ==
    ASSUME IInv, NEW w \in Worker, job[w].pc \in Working
    PROVE  ~Orphaned(log[job[w].id])
<1>1. /\ job[w].id \in DOMAIN log
      /\ job[w].deadline <= log[job[w].id].started + RequestTimeout
      /\ now <= job[w].deadline
  BY DEF IInv, JobInv, HasRow, InTime, Working, Ended
<1>2. /\ now \in Nat /\ job[w].deadline \in Nat /\ log[job[w].id].started \in Nat
      /\ RequestTimeout \in Nat /\ StaleAfter \in Nat /\ RequestTimeout <= StaleAfter
  BY <1>1, JobTypes, RowsInLog, TimesAssumption DEF IInv, MigrationsTypeOK
<1> QED BY <1>1, <1>2 DEF Orphaned

LEMMA SweepStaleKeeps ==
    ASSUME IInv, NEW r \in Replica, SweepStale(r)
    PROVE  IInv'
<1>1. /\ proc' \in [Replica -> Proc] /\ faults' \in Nat /\ UNCHANGED <<tenants, now, job>>
  <2>1. proc[r] \in Proc
    BY DEF IInv, MigrationsTypeOK
  <2>2. [proc[r] EXCEPT !.pc = "list"] \in Proc
    BY <2>1 DEF Proc
  <2>3. proc' = [proc EXCEPT ![r] = [proc[r] EXCEPT !.pc = "list"]]
    BY DEF SweepStale
  <2>4. proc' \in [Replica -> Proc]
    BY <2>2, <2>3 DEF IInv, MigrationsTypeOK
  <2>5. faults' \in Nat
    BY DEF SweepStale, Fault, IInv, MigrationsTypeOK
  <2> QED BY <2>4, <2>5 DEF SweepStale
<1>2. TenantsStand
  BY <1>1, UntouchedTenants DEF tenants
<1>3. CASE log' = log
  <2>1. MigrationsTypeOK'
    BY <1>1, <1>3 DEF IInv, MigrationsTypeOK, tenants
  <2> QED BY <1>1, <1>2, <1>3, <2>1, LogUntouched, StepOfNone
<1>4. CASE log' = [i \in DOMAIN log |-> IF Orphaned(log[i])
                                        THEN [log[i] EXCEPT !.state = "failed"] ELSE log[i]]
  <2>1. /\ log' \in Seq(Row)
        /\ DOMAIN log' = DOMAIN log
        /\ \A i \in DOMAIN log :
             log'[i] = IF Orphaned(log[i]) THEN [log[i] EXCEPT !.state = "failed"] ELSE log[i]
    BY <1>4, LogSwept DEF IInv
  <2>2. MigrationsTypeOK'
    BY <1>1, <2>1 DEF IInv, MigrationsTypeOK, tenants
  <2>3. \A i \in DOMAIN log : /\ log'[i].project = log[i].project /\ log'[i].started = log[i].started
                              /\ log'[i].state \in {log[i].state, "failed"}
    <3> TAKE i \in DOMAIN log
    <3>1. log[i] \in Row
      BY RowsInLog DEF IInv
    <3> QED BY <2>1, <3>1 DEF Row
  <2>4. LogStands
    BY <2>1, <2>3 DEF LogStands
  <2>5. \A w \in Worker : job[w].pc \in Working => log'[job[w].id].state = "pending"
    BY <2>1, RunningIsYoung DEF IInv, JobInv, HasRow
  <2> QED BY <1>1, <1>2, <2>1, <2>2, <2>3, <2>4, <2>5, StepOfNone
<1> QED BY <1>3, <1>4 DEF SweepStale

LEMMA UnencryptedType ==
    ASSUME MigrationsTypeOK PROVE Unencrypted \subseteq Project \X Nat
BY DEF Unencrypted, MigrationsTypeOK

\* The rest of a replica's startup does not touch log, schemas and handlers.
LEMMA StartupKeeps ==
    ASSUME IInv, NEW r \in Replica,
           Start(r) \/ ReencryptList(r) \/ ReencryptRow(r) \/ ReencryptEnds(r)
    PROVE  IInv'
<1>1. UNCHANGED <<project, baseline, river, log, now, job>>
  BY DEF Start, ReencryptList, ReencryptRow, ReencryptEnds, tenants
<1>2. proc[r] \in Proc
  BY DEF IInv, MigrationsTypeOK
<1>3. stored' \in [Project -> Nat] /\ proc' \in [Replica -> Proc] /\ faults' \in Nat
  <2>1. CASE Start(r)
    BY <1>2, <2>1 DEF Start, tenants, IInv, MigrationsTypeOK, Proc
  <2>2. CASE ReencryptList(r)
    <3>1. PICK q \in {[pc |-> "encrypt", pending |-> Unencrypted, clean |-> FALSE],
                      [proc[r] EXCEPT !.pc = "up"]} : proc' = [proc EXCEPT ![r] = q]
      BY <2>2 DEF ReencryptList
    <3>2. Unencrypted \in SUBSET (Project \X Nat)
      BY UnencryptedType DEF IInv
    <3>3. [pc |-> "encrypt", pending |-> Unencrypted, clean |-> FALSE] \in Proc
      BY <3>2 DEF Proc
    <3>4. [proc[r] EXCEPT !.pc = "up"] \in Proc
      BY <1>2 DEF Proc
    <3>5. q \in Proc
      BY <3>1, <3>3, <3>4
    <3>6. proc' \in [Replica -> Proc]
      BY <3>1, <3>5 DEF IInv, MigrationsTypeOK
    <3> QED BY <2>2, <3>6 DEF ReencryptList, tenants, IInv, MigrationsTypeOK
  <2>3. CASE ReencryptRow(r)
    <3>1. PICK e \in proc[r].pending :
            /\ stored' = [stored EXCEPT ![e[1]] = IF @ = e[2] THEN Encrypt(r, e[2]) ELSE @]
            /\ proc' = [proc EXCEPT ![r].pending = @ \ {e}]
      BY <2>3 DEF ReencryptRow
    <3>2. e \in Project \X Nat /\ Encrypt(r, e[2]) \in Nat
      BY <1>2, <3>1 DEF Proc, Encrypt
    <3> QED BY <1>2, <2>3, <3>1, <3>2 DEF ReencryptRow, IInv, MigrationsTypeOK, Proc
  <2>4. CASE ReencryptEnds(r)
    <3>1. PICK q \in {[proc[r] EXCEPT !.pc = "up", !.clean = TRUE],
                      [proc[r] EXCEPT !.pc = "up", !.pending = {}]} : proc' = [proc EXCEPT ![r] = q]
      BY <2>4 DEF ReencryptEnds
    <3>2. q \in Proc
      BY <1>2 DEF Proc
    <3>3. proc' \in [Replica -> Proc]
      BY <3>1, <3>2 DEF IInv, MigrationsTypeOK
    <3>4. faults' \in Nat
      BY <2>4 DEF ReencryptEnds, Fault, IInv, MigrationsTypeOK
    <3> QED BY <2>4, <3>3, <3>4 DEF ReencryptEnds, tenants, IInv, MigrationsTypeOK
  <2> QED BY <2>1, <2>2, <2>3, <2>4
<1>4. MigrationsTypeOK'
  BY <1>1, <1>3 DEF IInv, MigrationsTypeOK
<1> QED BY <1>1, <1>4, UntouchedTenants, LogUntouched, StepOfNone

\* A crash drops whatever the replica's handlers were doing.
LEMMA CrashKeeps ==
    ASSUME IInv, NEW r \in Replica, Crash(r)
    PROVE  IInv'
<1>1. /\ UNCHANGED <<tenants, log, now>>
      /\ \A w \in Worker : job'[w] \in {Idle, job[w]}
      /\ job' \in [Worker -> Job] /\ proc' \in [Replica -> Proc] /\ faults' \in Nat
  BY IdleType, DownType DEF Crash, Fault, IInv, MigrationsTypeOK
<1>2. MigrationsTypeOK'
  BY <1>1 DEF IInv, MigrationsTypeOK, tenants
<1>3. TenantsStand /\ LogStands
  BY <1>1, UntouchedTenants, UntouchedLog DEF tenants
<1>4. \A w \in Worker : JobInv(w)'
  <2> TAKE w \in Worker
  <2>1. CASE job'[w] = Idle
    BY <2>1 DEF JobInv, OfProject, InTime, HasRow, HasInstalled, Waiting, Working, Ended, Idle
  <2>2. CASE job'[w] = job[w]
    BY <1>1, <1>3, <2>2, OthersStand DEF IInv
  <2> QED BY <1>1, <2>1, <2>2
<1>5. OwnRows'
  BY <1>1 DEF IInv, OwnRows, Working, Idle
<1>6. \A i \in DOMAIN log' : RowInv(i)'
  BY <1>1, <1>3, RowStands DEF IInv
<1> QED BY <1>2, <1>4, <1>5, <1>6 DEF IInv

LEMMA CreateProjectKeeps ==
    ASSUME IInv, NEW r \in Replica, NEW p \in Project, CreateProject(r, p),
           UNCHANGED <<log, now, proc, job, faults>>
    PROVE  IInv'
<1>1. MigrationsTypeOK'
  BY DEF CreateProject, Encrypt, IInv, MigrationsTypeOK
<1>2. TenantsStand
  BY DEF CreateProject, TenantsStand, IInv, MigrationsTypeOK
<1> QED BY <1>1, <1>2, LogUntouched, StepOfNone

LEMMA DeleteProjectKeeps ==
    ASSUME IInv, NEW p \in Project, DeleteProject(p)
    PROVE  IInv'
<1>1. MigrationsTypeOK'
  BY DEF DeleteProject, IInv, MigrationsTypeOK
<1>2. TenantsStand
  BY DEF DeleteProject, TenantsStand, Live, IInv, MigrationsTypeOK
<1> QED BY <1>1, <1>2, LogUntouched, StepOfNone DEF DeleteProject

LEMMA TickKeeps ==
    ASSUME IInv, Tick
    PROVE  IInv'
<1>1. UNCHANGED <<tenants, log, proc, job, faults>> /\ now' = now + 1 /\ now \in Nat
  BY DEF Tick, IInv, MigrationsTypeOK
<1>2. MigrationsTypeOK'
  BY <1>1 DEF IInv, MigrationsTypeOK, tenants
<1>3. ASSUME NEW w \in Worker PROVE JobInv(w)'
  <2>1. job[w].deadline \in Nat /\ RequestTimeout \in Nat
    BY JobTypes, TimesAssumption DEF IInv
  <2>2. InTime(w)'
    BY <1>1, <2>1 DEF Tick, IInv, JobInv, InTime
  <2> QED BY <1>1, <2>2 DEF IInv, JobInv, OfProject, HasRow, HasInstalled, tenants, Live, Installed
<1> QED BY <1>1, <1>2, <1>3 DEF IInv, OwnRows, RowInv, tenants, Live, Installed

-----------------------------------------------------------------------------
(***************************************************************************)
(* The theorems.                                                           *)
(***************************************************************************)

LEMMA Initially == MigrationsInit => IInv
<1> SUFFICES ASSUME MigrationsInit PROVE IInv
  OBVIOUS
<1>1. DOMAIN log = {} /\ log \in Seq(Row)
  BY DEF MigrationsInit
<1>2. MigrationsTypeOK
  BY <1>1, IdleType, DownType, PlacesAssumption DEF MigrationsInit, MigrationsTypeOK
<1>3. \A w \in Worker : JobInv(w)
  BY DEF MigrationsInit, JobInv, OfProject, InTime, HasRow, HasInstalled, Waiting, Working, Ended, Idle
<1>4. OwnRows
  BY DEF MigrationsInit, OwnRows, Working, Idle
<1> QED BY <1>1, <1>2, <1>3, <1>4 DEF IInv

LEMMA ApplyStepKeeps ==
    ASSUME IInv, NEW w \in Worker, ApplyStep(w)
    PROVE  IInv'
BY GetCredentialsKeeps, isAppliedKeeps, LogPendingKeeps, ApplyBaselineKeeps, MigrateRiverKeeps,
   StatementFailsKeeps, UpdateLogKeeps, CancelKeeps DEF ApplyStep

LEMMA Inductive == IInv /\ [MigrationsNext]_migrationVars => IInv'
<1> SUFFICES ASSUME IInv, [MigrationsNext]_migrationVars PROVE IInv'
  OBVIOUS
<1>1. ASSUME NEW w \in Worker, NEW p \in Project, NEW d \in now..(now + RequestTimeout),
             Apply(w, p, d)
      PROVE  IInv'
  BY <1>1, ApplyKeeps
<1>2. ASSUME NEW w \in Worker, ApplyStep(w) \/ Respond(w) PROVE IInv'
  BY <1>2, ApplyStepKeeps, RespondKeeps
<1>3. ASSUME NEW r \in Replica, StartupStep(r) \/ Crash(r) PROVE IInv'
  BY <1>3, SweepStaleKeeps, StartupKeeps, CrashKeeps DEF StartupStep
<1>4. ASSUME NEW r \in Replica, NEW p \in Project, CreateProject(r, p),
             UNCHANGED <<log, now, proc, job, faults>>
      PROVE  IInv'
  BY <1>4, CreateProjectKeeps
<1>5. ASSUME NEW p \in Project, DeleteProject(p) PROVE IInv'
  BY <1>5, DeleteProjectKeeps
<1>6. CASE Tick
  BY <1>6, TickKeeps
<1>7. CASE UNCHANGED migrationVars
  BY <1>7 DEF migrationVars, tenants, IInv, MigrationsTypeOK, OwnRows, JobInv, OfProject, InTime,
     HasRow, HasInstalled, RowInv, Live, Installed
<1> QED BY <1>1, <1>2, <1>3, <1>4, <1>5, <1>6, <1>7 DEF MigrationsNext

\* Types, and everything an Apply in progress knows, hold in every state.
THEOREM MigrationsInductive == MigrationsSpec => []IInv
BY Initially, Inductive, PTL DEF MigrationsSpec

\* Every variable of Migrations keeps its type.
THEOREM MigrationsTyped == MigrationsSpec => []MigrationsTypeOK
<1>1. IInv => MigrationsTypeOK
  BY DEF IInv
<1> QED BY <1>1, MigrationsInductive, PTL

\* Status and the SDK's schema-version guard can trust the log: whatever was
\* cancelled, failed, crashed or ran twice, a live project it calls applied has
\* the baseline and River's tables.
THEOREM LogIsTrue == MigrationsSpec => []AppliedIsInstalled
<1>1. IInv => AppliedIsInstalled
  BY DEF IInv, RowInv, AppliedIsInstalled, UpToDate, IsApplied
<1> QED BY <1>1, MigrationsInductive, PTL

\* Neither an apply nor a sweep changes a row that has its outcome; none moves or
\* removes a row.
RowStays(i) == /\ i \in DOMAIN log'
               /\ log'[i].project = log[i].project
               /\ log[i].state # "pending" => log'[i].state = log[i].state

LEMMA OutcomeStep ==
    ASSUME IInv, [MigrationsNext]_migrationVars, NEW i \in DOMAIN log
    PROVE  RowStays(i)
<1>0. log[i] \in Row
  BY RowsInLog DEF IInv
<1> USE DEF RowStays
<1>1. ASSUME log' = log PROVE RowStays(i)
  BY <1>1
<1>2. ASSUME NEW r \in Row, log' = Append(log, r) PROVE RowStays(i)
  BY <1>2, LogAppended DEF IInv
<1>3. ASSUME NEW w \in Worker, job[w].pc = "update",
             log' = [log EXCEPT ![job[w].id].state = Outcome(w)]
      PROVE  RowStays(i)
  <2>1. job[w].id \in DOMAIN log /\ log[job[w].id].state = "pending"
    BY <1>3 DEF IInv, JobInv, HasRow, Working
  <2>2. /\ DOMAIN log' = DOMAIN log
        /\ log'[i] = IF i = job[w].id THEN [log[i] EXCEPT !.state = Outcome(w)] ELSE log[i]
    BY <1>3, <2>1, LogUpdated DEF IInv, Outcome
  <2> QED BY <1>0, <2>1, <2>2 DEF Row
<1>4. ASSUME NEW r \in Replica, SweepStale(r) PROVE RowStays(i)
  <2>1. log[i].state # "pending" => ~Orphaned(log[i])
    BY DEF Orphaned
  <2>2. CASE log' = log
    BY <1>1, <2>2
  <2>3. CASE log' # log
    <3>1. log' = [k \in DOMAIN log |-> IF Orphaned(log[k])
                                       THEN [log[k] EXCEPT !.state = "failed"] ELSE log[k]]
      BY <1>4, <2>3 DEF SweepStale
    <3>2. /\ DOMAIN log' = DOMAIN log
          /\ log'[i] = IF Orphaned(log[i]) THEN [log[i] EXCEPT !.state = "failed"] ELSE log[i]
      BY <3>1, LogSwept DEF IInv
    <3> QED BY <1>0, <2>1, <3>2 DEF Row
  <2> QED BY <2>2, <2>3
<1>5. ASSUME NEW w \in Worker, LogPending(w) \/ Cancel(w) PROVE RowStays(i)
  <2>1. job[w].pc # "idle" => job[w].project \in Project
    BY DEF IInv, JobInv, OfProject
  <2>2. now \in Nat
    BY DEF IInv, MigrationsTypeOK
  <2>3. job[w].pc # "idle" =>
          [project |-> job[w].project, state |-> "pending", started |-> now] \in Row
    BY <2>1, <2>2 DEF Row
  <2> QED BY <1>1, <1>2, <1>3, <1>5, <2>3 DEF LogPending, Cancel
<1>6. ASSUME NEW w \in Worker, ApplyStep(w) \/ Respond(w) PROVE RowStays(i)
  <2>1. CASE UpdateLog(w)
    BY <1>3, <2>1 DEF UpdateLog
  <2>2. CASE GetCredentials(w) \/ isApplied(w) \/ ApplyBaseline(w) \/ MigrateRiver(w)
             \/ StatementFails(w) \/ Respond(w)
    BY <1>1, <2>2 DEF GetCredentials, isApplied, ApplyBaseline, MigrateRiver, StatementFails, Respond
  <2> QED BY <1>5, <1>6, <2>1, <2>2 DEF ApplyStep
<1>7. ASSUME NEW r \in Replica, StartupStep(r) \/ Crash(r) PROVE RowStays(i)
  BY <1>1, <1>4, <1>7 DEF StartupStep, Start, ReencryptList, ReencryptRow, ReencryptEnds, Crash
<1>8. ASSUME NEW w \in Worker, NEW p \in Project, NEW d \in now..(now + RequestTimeout),
             Apply(w, p, d)
      PROVE  log' = log
  BY <1>8 DEF Apply
<1>9. ASSUME NEW p \in Project, DeleteProject(p) PROVE log' = log
  BY <1>9 DEF DeleteProject
<1>10. CASE Tick
  BY <1>1, <1>10 DEF Tick
<1>11. CASE UNCHANGED migrationVars
  BY <1>1, <1>11 DEF migrationVars
<1> QED BY <1>1, <1>6, <1>7, <1>8, <1>9, <1>10, <1>11 DEF MigrationsNext

\* No replica that starts fails an apply that still runs, and no completion
\* overwrites a verdict: RequestTimeout <= StaleAfter is all it takes.
THEOREM OutcomesStay == MigrationsSpec => OutcomesAreFinal
<1>1. IInv /\ [MigrationsNext]_migrationVars
        => [\A i \in DOMAIN log : log[i].state # "pending" => log'[i].state = log[i].state]_log
  BY OutcomeStep DEF RowStays
<1> QED BY <1>1, MigrationsInductive, PTL DEF MigrationsSpec, OutcomesAreFinal

-----------------------------------------------------------------------------
(***************************************************************************)
(* What a successful answer tells its caller.                              *)
(***************************************************************************)

\* An Apply that is about to answer without an error has the row that says so, be
\* it the row of an earlier or of a concurrent Apply.
AnswersAreLogged == \A w \in Worker : job[w].pc = "done" => IsApplied(job[w].project)

LEMMA AppliedStays ==
    ASSUME IInv, [MigrationsNext]_migrationVars, NEW p, IsApplied(p)
    PROVE  IsApplied(p)'
<1>1. PICK i \in DOMAIN log : log[i].project = p /\ log[i].state = "applied"
  BY DEF IsApplied
<1>2. RowStays(i)
  BY OutcomeStep
<1> QED BY <1>1, <1>2 DEF RowStays, IsApplied

\* Only two ends of Apply are answered without an error.
LEMMA AnswerGiven ==
    ASSUME IInv, [MigrationsNext]_migrationVars, NEW w \in Worker,
           job'[w].pc = "done", job'[w] # job[w]
    PROVE  /\ job'[w].project = job[w].project
           /\ \/ isApplied(w) /\ IsApplied(job[w].project)
              \/ UpdateLog(w) /\ job[w].ok
<1>0. job \in [Worker -> Job] /\ job[w] \in Job
  BY DEF IInv, MigrationsTypeOK
<1>1. ASSUME NEW v \in Worker, NEW p \in Project, NEW d \in now..(now + RequestTimeout),
             Apply(v, p, d)
      PROVE  FALSE
  BY <1>0, <1>1 DEF Apply, Idle
<1>2. ASSUME NEW v \in Worker, NEW pc, Goto(v, pc), pc # "done" PROVE FALSE
  BY <1>0, <1>2 DEF Goto, Job
<1>3. ASSUME NEW v \in Worker, NEW pc, Return(v, pc)
      PROVE  v = w /\ pc = "done" /\ job'[w].project = job[w].project
  BY <1>0, <1>3 DEF Return, Idle
<1>4. ASSUME NEW v \in Worker, GetCredentials(v) \/ ApplyBaseline(v) \/ MigrateRiver(v)
                               \/ Cancel(v)
      PROVE  FALSE
  BY <1>2, <1>3, <1>4 DEF GetCredentials, ApplyBaseline, MigrateRiver, Cancel
<1>5. ASSUME NEW v \in Worker, LogPending(v) \/ StatementFails(v) \/ Respond(v) PROVE FALSE
  <2>1. CASE Respond(v)
    BY <1>0, <2>1 DEF Respond, Idle
  <2>2. CASE LogPending(v)
    <3>1. job'[w] = IF w = v THEN [job[w] EXCEPT !.pc = "baseline", !.id = Len(log) + 1] ELSE job[w]
      BY <1>0, <2>2 DEF LogPending
    <3> QED BY <1>0, <3>1 DEF Job
  <2>3. CASE StatementFails(v)
    <3>1. job'[w] = IF w = v THEN [job[w] EXCEPT !.pc = "update", !.ok = FALSE] ELSE job[w]
      BY <1>0, <2>3 DEF StatementFails
    <3> QED BY <1>0, <3>1 DEF Job
  <2> QED BY <1>5, <2>1, <2>2, <2>3
<1>6. ASSUME NEW v \in Worker, isApplied(v)
      PROVE  v = w /\ IsApplied(job[w].project) /\ job'[w].project = job[w].project
  BY <1>2, <1>3, <1>6 DEF isApplied
<1>7. ASSUME NEW v \in Worker, UpdateLog(v)
      PROVE  v = w /\ job[w].ok /\ job'[w].project = job[w].project
  BY <1>3, <1>7 DEF UpdateLog
<1>8. ASSUME NEW r \in Replica, Crash(r) PROVE FALSE
  BY <1>8 DEF Crash, Idle
<1>9. ASSUME NEW r \in Replica, StartupStep(r) PROVE FALSE
  BY <1>9 DEF StartupStep, Start, SweepStale, ReencryptList, ReencryptRow, ReencryptEnds
<1>10. ASSUME NEW p \in Project, DeleteProject(p) PROVE FALSE
  BY <1>10 DEF DeleteProject
<1>11. CASE Tick \/ UNCHANGED migrationVars
  BY <1>11 DEF Tick, migrationVars
<1> QED BY <1>1, <1>4, <1>5, <1>6, <1>7, <1>8, <1>9, <1>10, <1>11 DEF MigrationsNext, ApplyStep

LEMMA AnswerStep ==
    ASSUME IInv, AnswersAreLogged, [MigrationsNext]_migrationVars
    PROVE  AnswersAreLogged'
<1> SUFFICES ASSUME NEW w \in Worker, NEW p, p = job'[w].project, job'[w].pc = "done"
             PROVE  IsApplied(p)'
  BY DEF AnswersAreLogged, IsApplied
<1>1. CASE job'[w] = job[w]
  BY <1>1, AppliedStays DEF AnswersAreLogged
<1>2. CASE job'[w] # job[w] /\ isApplied(w) /\ IsApplied(job[w].project)
  BY <1>2, AnswerGiven, AppliedStays
<1>3. CASE job'[w] # job[w] /\ UpdateLog(w) /\ job[w].ok
  <2>1. /\ job[w].id \in DOMAIN log /\ log[job[w].id].project = job[w].project
        /\ log[job[w].id] \in Row
    BY <1>3, RowsInLog DEF UpdateLog, IInv, JobInv, HasRow, Working
  <2>2. /\ DOMAIN log' = DOMAIN log
        /\ log'[job[w].id] = [log[job[w].id] EXCEPT !.state = "applied"]
    BY <1>3, <2>1, LogUpdated DEF UpdateLog, Outcome, IInv
  <2>3. log'[job[w].id].project = job[w].project /\ log'[job[w].id].state = "applied"
    BY <2>1, <2>2 DEF Row
  <2>4. job'[w].project = job[w].project
    BY <1>3, AnswerGiven
  <2> QED BY <2>1, <2>2, <2>3, <2>4 DEF IsApplied
<1> QED BY <1>1, <1>2, <1>3, AnswerGiven

\* A caller told that the migration is applied finds it in Status, now and later:
\* the row is written before the answer, and no sweep takes it back.
THEOREM AnswersHaveTheirRow == MigrationsSpec => []AnswersAreLogged
<1>1. MigrationsInit => AnswersAreLogged
  BY DEF MigrationsInit, Idle, AnswersAreLogged
<1> QED BY <1>1, AnswerStep, MigrationsInductive, PTL DEF MigrationsSpec

-----------------------------------------------------------------------------
(***************************************************************************)
(* The startup passes over the passwords.                                  *)
(***************************************************************************)

\* With the key everywhere there is cleartext and there are single envelopes; a
\* pass has all the cleartext there is in hand, and nobody makes any after it.
AtMostOneEnvelope == \A p \in Project : stored[p] \in {0, 1}
PassInHand(r) ==
    proc[r].pc = "encrypt" =>
        /\ \A e \in proc[r].pending : e[2] = 0
        /\ \A p \in Project : Live(p) /\ stored[p] = 0 => <<p, 0>> \in proc[r].pending
CleanIsClean(r) == proc[r].clean => \A p \in Project : Live(p) => stored[p] = 1

PasswordInv == Keyed = Replica =>
    /\ AtMostOneEnvelope
    /\ \A r \in Replica : PassInHand(r) /\ CleanIsClean(r)

\* Passwords change towards the envelope, projects towards their deletion.
Enclosing == \A p \in Project :
    /\ stored'[p] \in {stored[p], 1}
    /\ project'[p] = "live" => project[p] = "live" \/ stored'[p] = 1

LEMMA OtherPasses ==
    ASSUME MigrationsTypeOK, Keyed = Replica, PasswordInv, Enclosing,
           NEW r \in Replica, proc'[r] = proc[r]
    PROVE  PassInHand(r)' /\ CleanIsClean(r)'
BY DEF PasswordInv, AtMostOneEnvelope, Enclosing, PassInHand, CleanIsClean, Live

LEMMA PasswordStep ==
    ASSUME MigrationsTypeOK, PasswordInv, [MigrationsNext]_migrationVars
    PROVE  PasswordInv'
<1> SUFFICES ASSUME Keyed = Replica
             PROVE  /\ AtMostOneEnvelope'
                    /\ \A r \in Replica : PassInHand(r)' /\ CleanIsClean(r)'
  BY DEF PasswordInv
<1> USE DEF MigrationsTypeOK
<1>1. ASSUME UNCHANGED <<project, stored, proc>>
      PROVE  /\ AtMostOneEnvelope'
             /\ \A r \in Replica : PassInHand(r)' /\ CleanIsClean(r)'
  BY <1>1 DEF PasswordInv, AtMostOneEnvelope, PassInHand, CleanIsClean, Live
<1>2. ASSUME Enclosing, UNCHANGED proc
      PROVE  /\ AtMostOneEnvelope'
             /\ \A r \in Replica : PassInHand(r)' /\ CleanIsClean(r)'
  BY <1>2, OtherPasses DEF PasswordInv, AtMostOneEnvelope, Enclosing
<1>3. ASSUME NEW r \in Replica, NEW q, proc' = [proc EXCEPT ![r] = q], Enclosing,
             PassInHand(r)', CleanIsClean(r)'
      PROVE  /\ AtMostOneEnvelope'
             /\ \A s \in Replica : PassInHand(s)' /\ CleanIsClean(s)'
  <2>1. AtMostOneEnvelope'
    BY <1>3 DEF PasswordInv, AtMostOneEnvelope, Enclosing
  <2>2. ASSUME NEW s \in Replica PROVE PassInHand(s)' /\ CleanIsClean(s)'
    <3>1. CASE s = r
      BY <1>3, <3>1
    <3>2. CASE s # r
      BY <1>3, <3>2, OtherPasses
    <3> QED BY <3>1, <3>2
  <2> QED BY <2>1, <2>2
<1>4. ASSUME NEW r \in Replica, StartupStep(r)
      PROVE  /\ AtMostOneEnvelope'
             /\ \A s \in Replica : PassInHand(s)' /\ CleanIsClean(s)'
  <2>1. proc[r] \in Proc
    OBVIOUS
  <2>2. CASE Start(r) \/ SweepStale(r)
    <3>1. PICK pc \in {"sweep", "list"} : proc' = [proc EXCEPT ![r] = [proc[r] EXCEPT !.pc = pc]]
      BY <2>2 DEF Start, SweepStale
    <3>2. UNCHANGED <<project, stored>>
      BY <2>2 DEF Start, SweepStale, tenants
    <3>3. Enclosing
      BY <3>2 DEF Enclosing
    <3>4. proc'[r].pc = pc /\ proc'[r].clean = proc[r].clean
      BY <2>1, <3>1 DEF Proc
    <3>5. PassInHand(r)' /\ CleanIsClean(r)'
      BY <3>2, <3>4 DEF PasswordInv, PassInHand, CleanIsClean, Live
    <3> QED BY <1>3, <3>1, <3>3, <3>5
  <2>3. CASE ReencryptList(r)
    <3>1. proc' = [proc EXCEPT ![r] = [pc |-> "encrypt", pending |-> Unencrypted, clean |-> FALSE]]
      BY <2>3 DEF ReencryptList
    <3>2. UNCHANGED <<project, stored>>
      BY <2>3 DEF ReencryptList, tenants
    <3>3. Enclosing
      BY <3>2 DEF Enclosing
    <3>4. \A e \in Unencrypted : e[2] = 0
      BY DEF Unencrypted, IsEnvelope
    <3>5. \A p \in Project : Live(p) /\ stored[p] = 0 => <<p, 0>> \in Unencrypted
      BY DEF Unencrypted, IsEnvelope
    <3>6. PassInHand(r)' /\ CleanIsClean(r)'
      BY <3>1, <3>2, <3>4, <3>5 DEF PassInHand, CleanIsClean, Live
    <3> QED BY <1>3, <3>1, <3>3, <3>6
  <2>4. CASE ReencryptRow(r)
    <3>1. PICK e \in proc[r].pending :
            /\ stored' = [stored EXCEPT ![e[1]] = IF @ = e[2] THEN Encrypt(r, e[2]) ELSE @]
            /\ proc' = [proc EXCEPT ![r] = [proc[r] EXCEPT !.pending = @ \ {e}]]
      BY <2>4 DEF ReencryptRow
    <3>2. proc[r].pc = "encrypt" /\ project' = project
      BY <2>4 DEF ReencryptRow
    <3>3. e \in Project \X Nat
      BY <2>1, <3>1 DEF Proc
    <3>4. e[2] = 0
      BY <3>1, <3>2 DEF PasswordInv, PassInHand
    <3>5. Encrypt(r, e[2]) = 1
      BY <3>4 DEF Encrypt
    <3>6. e = <<e[1], 0>> /\ e[1] \in Project
      BY <3>3, <3>4
    <3>7. \A p \in Project :
            stored'[p] = IF p = e[1] /\ stored[p] = 0 THEN 1 ELSE stored[p]
      BY <3>1, <3>3, <3>4, <3>5
    <3>8. Enclosing
      BY <3>2, <3>7 DEF Enclosing
    <3>9. /\ proc'[r].pc = "encrypt" /\ proc'[r].clean = proc[r].clean
          /\ proc'[r].pending = proc[r].pending \ {e}
      BY <2>1, <3>1, <3>2 DEF Proc
    <3>10. PassInHand(r)'
      <4>1. \A d \in proc'[r].pending : d[2] = 0
        BY <3>2, <3>9 DEF PasswordInv, PassInHand
      <4>2. ASSUME NEW p \in Project, Live(p)', stored'[p] = 0 PROVE <<p, 0>> \in proc'[r].pending
        <5>1. stored[p] = 0 /\ p # e[1] /\ Live(p)
          BY <3>2, <3>7, <4>2 DEF Live
        <5>2. <<p, 0>> # e
          BY <3>6, <5>1
        <5> QED BY <3>2, <3>9, <5>1, <5>2 DEF PasswordInv, PassInHand
      <4> QED BY <4>1, <4>2 DEF PassInHand
    <3>11. CleanIsClean(r)'
      BY <3>2, <3>7, <3>9 DEF PasswordInv, CleanIsClean, Live
    <3> QED BY <1>3, <3>1, <3>8, <3>10, <3>11
  <2>5. CASE ReencryptEnds(r)
    <3>1. UNCHANGED <<project, stored>>
      BY <2>5 DEF ReencryptEnds, tenants
    <3>2. Enclosing
      BY <3>1 DEF Enclosing
    <3>3. proc[r].pc = "encrypt"
      BY <2>5 DEF ReencryptEnds
    <3>4. CASE /\ proc[r].pending = {}
               /\ proc' = [proc EXCEPT ![r] = [proc[r] EXCEPT !.pc = "up", !.clean = TRUE]]
      <4>1. proc'[r].pc = "up"
        BY <2>1, <3>4 DEF Proc
      <4>2. \A p \in Project : Live(p) => stored[p] = 1
        BY <3>3, <3>4 DEF PasswordInv, AtMostOneEnvelope, PassInHand
      <4>3. PassInHand(r)' /\ CleanIsClean(r)'
        BY <3>1, <4>1, <4>2 DEF PassInHand, CleanIsClean, Live
      <4> QED BY <1>3, <3>2, <3>4, <4>3
    <3>5. CASE proc' = [proc EXCEPT ![r] = [proc[r] EXCEPT !.pc = "up", !.pending = {}]]
      <4>1. proc'[r].pc = "up" /\ proc'[r].clean = proc[r].clean
        BY <2>1, <3>5 DEF Proc
      <4>2. PassInHand(r)' /\ CleanIsClean(r)'
        BY <3>1, <4>1 DEF PasswordInv, PassInHand, CleanIsClean, Live
      <4> QED BY <1>3, <3>2, <3>5, <4>2
    <3> QED BY <2>5, <3>4, <3>5 DEF ReencryptEnds
  <2> QED BY <1>4, <2>2, <2>3, <2>4, <2>5 DEF StartupStep
<1>5. ASSUME NEW r \in Replica, Crash(r)
      PROVE  /\ AtMostOneEnvelope'
             /\ \A s \in Replica : PassInHand(s)' /\ CleanIsClean(s)'
  <2>1. proc' = [proc EXCEPT ![r] = Down] /\ UNCHANGED <<project, stored>>
    BY <1>5 DEF Crash, tenants
  <2>2. Enclosing
    BY <2>1 DEF Enclosing
  <2>3. PassInHand(r)' /\ CleanIsClean(r)'
    BY <2>1 DEF PassInHand, CleanIsClean, Down
  <2> QED BY <1>3, <2>1, <2>2, <2>3
<1>6. ASSUME NEW r \in Replica, NEW p \in Project, CreateProject(r, p), UNCHANGED proc
      PROVE  /\ AtMostOneEnvelope'
             /\ \A s \in Replica : PassInHand(s)' /\ CleanIsClean(s)'
  BY <1>2, <1>6 DEF CreateProject, Encrypt, Enclosing
<1>7. ASSUME NEW p \in Project, DeleteProject(p)
      PROVE  /\ AtMostOneEnvelope'
             /\ \A s \in Replica : PassInHand(s)' /\ CleanIsClean(s)'
  BY <1>2, <1>7 DEF DeleteProject, Enclosing
<1>8. ASSUME NEW w \in Worker, ApplyStep(w) \/ Respond(w)
      PROVE  UNCHANGED <<project, stored, proc>>
  BY <1>8 DEF ApplyStep, GetCredentials, isApplied, LogPending, ApplyBaseline, MigrateRiver,
     StatementFails, UpdateLog, Cancel, Respond, tenants
<1>9. ASSUME NEW w \in Worker, NEW p \in Project, NEW d \in now..(now + RequestTimeout),
             Apply(w, p, d)
      PROVE  UNCHANGED <<project, stored, proc>>
  BY <1>9 DEF Apply, tenants
<1>10. CASE Tick
  BY <1>1, <1>10 DEF Tick, tenants
<1>11. CASE UNCHANGED migrationVars
  BY <1>1, <1>11 DEF migrationVars, tenants
<1> HIDE DEF MigrationsTypeOK
<1> QED BY <1>1, <1>4, <1>5, <1>6, <1>7, <1>8, <1>9, <1>10, <1>11 DEF MigrationsNext

\* Once one pass over the passwords has ended, every live project's is in exactly
\* one envelope: for any number of replicas whose passes overlap.
THEOREM PasswordsEnclosed == MigrationsSpec => []EncryptedForGood
<1>1. MigrationsInit => PasswordInv
  BY DEF MigrationsInit, PasswordInv, AtMostOneEnvelope, PassInHand, CleanIsClean, Down
<1>2. MigrationsTypeOK /\ PasswordInv /\ [MigrationsNext]_migrationVars => PasswordInv'
  BY PasswordStep
<1>3. PasswordInv => EncryptedForGood
  BY DEF PasswordInv, CleanIsClean, EncryptedForGood
<1> QED BY <1>1, <1>2, <1>3, MigrationsTyped, PTL DEF MigrationsSpec
=============================================================================

----------------------------- MODULE Migrations -----------------------------
(***************************************************************************)
(* Applying the baseline to a tenant schema, the migration_log that says   *)
(* how far it went, and what a starting replica does to the control plane: *)
(* it fails the rows that look orphaned and encrypts the passwords that    *)
(* are still cleartext.                                                    *)
(*                                                                         *)
(* Every statement is one step; the baseline is one multi-statement Exec,  *)
(* hence one transaction.  A request lives for RequestTimeout at most: its *)
(* context is then cancelled, every later statement fails, and the one in  *)
(* flight may have taken effect or not.                                    *)
(***************************************************************************)
EXTENDS Naturals, Sequences

CONSTANTS Project,         \* project names; a name is never usable twice
          Existing,        \* projects provisioned by an earlier deployment
          Replica,         \* pwrapd processes
          Keyed,           \* those configured with PWRAP_ENCRYPTION_KEY
          Worker,          \* request handlers
          ReplicaOf,       \* the replica a handler runs in
          None,
          RequestTimeout,  \* middleware.Timeout
          StaleAfter,      \* SweepStale's threshold
          MaxTime,         \* bound: the clock stops here
          MaxLog,          \* bound: rows of migration_log
          MaxFaults        \* bound: failed statements and crashes

ASSUME TimesAssumption == /\ RequestTimeout \in Nat
                          /\ StaleAfter \in Nat
                          /\ RequestTimeout <= StaleAfter
ASSUME PlacesAssumption == /\ ReplicaOf \in [Worker -> Replica]
                           /\ Keyed \subseteq Replica
                           /\ Existing \subseteq Project
                           /\ None \notin Project
ASSUME BoundsAssumption == MaxTime \in Nat /\ MaxLog \in Nat /\ MaxFaults \in Nat

VARIABLES project,   \* the projects table with its roles and schemas
          stored,    \* pg_password: how many envelopes are around the password
          baseline,  \* schemas that have the baseline
          river,     \* schemas that have River's tables
          log,       \* migration_log, in order of insertion
          now,       \* the database's clock
          proc,      \* the replicas, with the locals of their startup passes
          job,       \* what each handler is doing in Apply
          faults     \* faults injected so far

tenants == <<project, stored, baseline, river>>
migrationVars == <<tenants, log, now, proc, job, faults>>

Row == [project : Project, state : {"pending", "applied", "failed"}, started : Nat]
Job == [pc : {"idle", "creds", "check", "log", "baseline", "river", "update", "done", "failed"},
        project : Project \cup {None}, id : Nat, ok : BOOLEAN, deadline : Nat]
Proc == [pc : {"down", "sweep", "list", "encrypt", "up"},
         pending : SUBSET (Project \X Nat), clean : BOOLEAN]

Idle == [pc |-> "idle", project |-> None, id |-> 0, ok |-> TRUE, deadline |-> 0]
Ended == {"idle", "done", "failed"}
Down == [pc |-> "down", pending |-> {}, clean |-> FALSE]

MigrationsTypeOK ==
    /\ project \in [Project -> {"absent", "live", "deleted"}]
    /\ stored \in [Project -> Nat]
    /\ baseline \subseteq Project
    /\ river \subseteq Project
    /\ log \in Seq(Row)
    /\ now \in Nat
    /\ proc \in [Replica -> Proc]
    /\ job \in [Worker -> Job]
    /\ faults \in Nat

MigrationsInit ==
    /\ project = [p \in Project |-> IF p \in Existing THEN "live" ELSE "absent"]
    /\ stored = [p \in Project |-> 0]
    /\ baseline = Existing
    /\ river = Existing
    /\ log = <<>>
    /\ now = 0
    /\ proc = [r \in Replica |-> Down]
    /\ job = [w \in Worker |-> Idle]
    /\ faults = 0

Live(p) == project[p] = "live"
Up(w) == proc[ReplicaOf[w]].pc = "up"
Fault == faults < MaxFaults /\ faults' = faults + 1

(***************************************************************************)
(* The cipher.  A stored password is counted in envelopes: 0 is cleartext. *)
(***************************************************************************)

IsEnvelope(v) == v > 0
Encrypt(r, v) == IF r \in Keyed THEN v + 1 ELSE v
\* A replica without the key cannot open an envelope.
CanDecrypt(r, v) == IsEnvelope(v) => r \in Keyed
Decrypt(v) == IF IsEnvelope(v) THEN v - 1 ELSE v

(***************************************************************************)
(* Projects.                                                               *)
(***************************************************************************)

CreateProject(r, p) ==
    /\ project[p] = "absent"
    /\ project' = [project EXCEPT ![p] = "live"]
    /\ stored' = [stored EXCEPT ![p] = Encrypt(r, 0)]
    /\ UNCHANGED <<baseline, river>>

DeleteProject(p) ==
    /\ Live(p)
    /\ project' = [project EXCEPT ![p] = "deleted"]
    /\ baseline' = baseline \ {p}
    /\ river' = river \ {p}
    /\ UNCHANGED <<stored, log, now, proc, job, faults>>

(***************************************************************************)
(* Runner.Apply.                                                           *)
(***************************************************************************)

Goto(w, pc) == job' = [job EXCEPT ![w].pc = pc]
\* Its result is what is left of an Apply.
Return(w, pc) == job' = [job EXCEPT ![w] = [Idle EXCEPT !.pc = pc, !.project = job[w].project]]

\* Called by the HTTP handler with the whole of RequestTimeout ahead, or by
\* branches.Create with what is left of it.
Apply(w, p, deadline) ==
    /\ Up(w)
    /\ job[w].pc = "idle"
    /\ project[p] # "absent"
    /\ job' = [job EXCEPT ![w] = [Idle EXCEPT !.pc = "creds", !.project = p,
                                              !.deadline = deadline]]
    /\ UNCHANGED <<tenants, log, now, proc, faults>>

GetCredentials(w) ==
    /\ job[w].pc = "creds"
    /\ LET p == job[w].project
       IN IF Live(p) /\ CanDecrypt(ReplicaOf[w], stored[p])
          THEN Goto(w, "check") ELSE Return(w, "failed")
    /\ UNCHANGED <<tenants, log, now, proc, faults>>

IsApplied(p) == \E i \in DOMAIN log : log[i].project = p /\ log[i].state = "applied"

\* Any error, too, just means "not applied yet".
isApplied(w) ==
    /\ job[w].pc = "check"
    /\ \/ /\ IF IsApplied(job[w].project) THEN Return(w, "done") ELSE Goto(w, "log")
          /\ UNCHANGED faults
       \/ Goto(w, "log") /\ Fault
    /\ UNCHANGED <<tenants, log, now, proc>>

LogPending(w) ==
    /\ job[w].pc = "log"
    /\ Len(log) < MaxLog
    /\ log' = Append(log, [project |-> job[w].project, state |-> "pending", started |-> now])
    /\ job' = [job EXCEPT ![w] = [@ EXCEPT !.pc = "baseline", !.id = Len(log) + 1]]
    /\ UNCHANGED <<tenants, now, proc, faults>>

\* Two applies that run the same DDL at once may fail each other.
Contended(w) == \E v \in Worker \ {w} : /\ job[v].pc = job[w].pc
                                        /\ job[v].project = job[w].project
\* The error of a statement of applyAll goes into the row.
StatementFails(w) ==
    /\ job[w].pc \in {"baseline", "river"}
    /\ \/ ~Live(job[w].project) /\ UNCHANGED faults
       \/ Contended(w) /\ UNCHANGED faults
       \/ Fault
    /\ job' = [job EXCEPT ![w] = [@ EXCEPT !.pc = "update", !.ok = FALSE]]
    /\ UNCHANGED <<tenants, log, now, proc>>

ApplyBaseline(w) ==
    /\ job[w].pc = "baseline"
    /\ Live(job[w].project)
    /\ baseline' = baseline \cup {job[w].project}
    /\ Goto(w, "river")
    /\ UNCHANGED <<project, stored, river, log, now, proc, faults>>

MigrateRiver(w) ==
    /\ job[w].pc = "river"
    /\ Live(job[w].project)
    /\ river' = river \cup {job[w].project}
    /\ Goto(w, "update")
    /\ UNCHANGED <<project, stored, baseline, log, now, proc, faults>>

\* Bugs: a state the log's readers do not know; the error of applyAll ignored.
Outcome_Building(w) == IF job[w].ok THEN "index-building" ELSE "failed"
Outcome_Ignored(w) == "applied"
Outcome(w) == IF job[w].ok THEN "applied" ELSE "failed"

UpdateLog(w) ==
    /\ job[w].pc = "update"
    /\ log' = [log EXCEPT ![job[w].id].state = Outcome(w)]
    /\ Return(w, IF job[w].ok THEN "done" ELSE "failed")
    /\ UNCHANGED <<tenants, now, proc, faults>>

\* The client hangs up or the request's time is over: the statement in flight
\* may still take effect, nothing after it does.
Cancel(w) ==
    /\ job[w].pc \notin Ended
    /\ Return(w, "failed")
    /\ \/ UNCHANGED <<baseline, river, log>>
       \/ /\ job[w].pc = "log" /\ Len(log) < MaxLog
          /\ log' = Append(log, [project |-> job[w].project, state |-> "pending",
                                 started |-> now])
          /\ UNCHANGED <<baseline, river>>
       \/ /\ job[w].pc = "baseline" /\ Live(job[w].project)
          /\ baseline' = baseline \cup {job[w].project}
          /\ UNCHANGED <<river, log>>
       \/ /\ job[w].pc = "river" /\ Live(job[w].project)
          /\ river' = river \cup {job[w].project}
          /\ UNCHANGED <<baseline, log>>
       \/ /\ job[w].pc = "update"
          /\ log' = [log EXCEPT ![job[w].id].state = Outcome(w)]
          /\ UNCHANGED <<baseline, river>>
    /\ UNCHANGED <<project, stored, now, proc, faults>>

\* The handler writes the answer, which says what Apply returned.
Respond(w) ==
    /\ job[w].pc \in {"done", "failed"}
    /\ job' = [job EXCEPT ![w] = Idle]
    /\ UNCHANGED <<tenants, log, now, proc, faults>>

ApplyStep(w) == \/ GetCredentials(w) \/ isApplied(w) \/ LogPending(w)
                \/ ApplyBaseline(w) \/ MigrateRiver(w) \/ StatementFails(w)
                \/ UpdateLog(w) \/ Cancel(w)

(***************************************************************************)
(* Startup and death of a replica.                                         *)
(***************************************************************************)

Start(r) ==
    /\ proc[r].pc = "down"
    /\ proc' = [proc EXCEPT ![r].pc = "sweep"]
    /\ UNCHANGED <<tenants, log, now, job, faults>>

\* A bug: pending rows of any age.
Orphaned_AnyAge(row) == row.state = "pending"
Orphaned(row) == row.state = "pending" /\ row.started + StaleAfter < now

\* An error is only logged.
SweepStale(r) ==
    /\ proc[r].pc = "sweep"
    /\ \/ /\ log' = [i \in DOMAIN log |-> IF Orphaned(log[i])
                                          THEN [log[i] EXCEPT !.state = "failed"] ELSE log[i]]
          /\ UNCHANGED faults
       \/ Fault /\ UNCHANGED log
    /\ proc' = [proc EXCEPT ![r].pc = "list"]
    /\ UNCHANGED <<tenants, now, job>>

\* A bug: rows that are envelopes already are encrypted, too.
Unencrypted_All == {<<p, stored[p]>> : p \in {q \in Project : Live(q)}}
Unencrypted == {<<p, stored[p]>> : p \in {q \in Project : Live(q) /\ ~IsEnvelope(stored[q])}}

ReencryptList(r) ==
    /\ proc[r].pc = "list"
    /\ IF r \in Keyed
       THEN proc' = [proc EXCEPT ![r] = [pc |-> "encrypt", pending |-> Unencrypted,
                                         clean |-> FALSE]]
       ELSE proc' = [proc EXCEPT ![r].pc = "up"]
    /\ UNCHANGED <<tenants, log, now, job, faults>>

\* UPDATE ... WHERE pg_password = what was read.
ReencryptRow(r) ==
    /\ proc[r].pc = "encrypt"
    /\ \E e \in proc[r].pending :
         /\ stored' = [stored EXCEPT ![e[1]] = IF @ = e[2] THEN Encrypt(r, e[2]) ELSE @]
         /\ proc' = [proc EXCEPT ![r].pending = @ \ {e}]
    /\ UNCHANGED <<project, baseline, river, log, now, job, faults>>

ReencryptEnds(r) ==
    /\ proc[r].pc = "encrypt"
    /\ \/ /\ proc[r].pending = {}
          /\ proc' = [proc EXCEPT ![r] = [@ EXCEPT !.pc = "up", !.clean = TRUE]]
          /\ UNCHANGED faults
       \/ Fault /\ proc' = [proc EXCEPT ![r] = [@ EXCEPT !.pc = "up", !.pending = {}]]
    /\ UNCHANGED <<tenants, log, now, job>>

Crash(r) ==
    /\ proc[r].pc # "down"
    /\ Fault
    /\ proc' = [proc EXCEPT ![r] = Down]
    /\ job' = [w \in Worker |-> IF ReplicaOf[w] = r THEN Idle ELSE job[w]]
    /\ UNCHANGED <<tenants, log, now>>

StartupStep(r) == \/ Start(r) \/ SweepStale(r) \/ ReencryptList(r)
                  \/ ReencryptRow(r) \/ ReencryptEnds(r)

\* No statement runs past its request's deadline.
Tick ==
    /\ now < MaxTime
    /\ \A w \in Worker : job[w].pc \notin Ended => now < job[w].deadline
    /\ now' = now + 1
    /\ UNCHANGED <<tenants, log, proc, job, faults>>

MigrationsNext ==
    \/ \E w \in Worker : \/ \E p \in Project : \E d \in now..(now + RequestTimeout) : Apply(w, p, d)
                         \/ ApplyStep(w)
                         \/ Respond(w)
    \/ \E r \in Replica : \/ StartupStep(r)
                          \/ Crash(r)
                          \/ /\ \E p \in Project : CreateProject(r, p)
                             /\ proc[r].pc = "up"
                             /\ UNCHANGED <<log, now, proc, job, faults>>
    \/ \E p \in Project : DeleteProject(p)
    \/ Tick

MigrationsSpec == MigrationsInit /\ [][MigrationsNext]_migrationVars

-----------------------------------------------------------------------------
(***************************************************************************)
(* Properties.                                                             *)
(***************************************************************************)

Installed(p) == p \in baseline /\ p \in river

\* Status.UpToDate and LatestAppliedVersion, by which an SDK decides whether
\* the tenant schema is the one it was built for.
UpToDate(p) == IsApplied(p)

\* What the log calls applied is there, whatever failed, was cancelled or ran
\* twice: a client that passes the schema-version guard finds its tables.
AppliedIsInstalled == \A p \in Project : Live(p) /\ UpToDate(p) => Installed(p)

\* A row that says applied or failed never says anything else again: SweepStale
\* fails no apply that still runs, not one of another replica either.
OutcomesAreFinal ==
    [][\A i \in DOMAIN log : log[i].state # "pending" => log'[i].state = log[i].state]_log

\* Once a pass has got to its end every password is in exactly one envelope,
\* however many passes and creations overlapped (if every replica has the key).
EncryptedForGood ==
    (Keyed = Replica /\ \E r \in Replica : proc[r].clean)
       => \A p \in Project : Live(p) => stored[p] = 1
=============================================================================

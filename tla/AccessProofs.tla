---------------------------- MODULE AccessProofs ----------------------------
(***************************************************************************)
(* What holds of the rate limiter, the access rules and the audit log for  *)
(* every number of bearers, handlers and requests, every burst and idle    *)
(* limit.                                                                  *)
(***************************************************************************)
EXTENDS Access, FiniteSetTheorems, TLAPS

(***************************************************************************)
(* The rate limiter.                                                       *)
(***************************************************************************)

\* What a bucket has let through and what it still holds never exceed the rate;
\* an entry that is gone had been full.
Bucket(b) == /\ limiters[b].last <= limiters[b].lastAccess
             /\ limiters[b].lastAccess <= clock
             /\ granted[b] + Tokens(limiters[b]) <= Burst + clock
LimiterInv == \A b \in Bearer : Bucket(b)

LEMMA TokensBounds ==
    ASSUME LimiterTypeOK, NEW b \in Bearer, limiters[b].last <= clock
    PROVE  Tokens(limiters[b]) \in 0..Burst
BY LimiterAssumption DEF LimiterTypeOK, Entry, Tokens, Fill

LEMMA LimiterInitially == LimiterInit => LimiterTypeOK /\ LimiterInv
<1>1. LimiterInit => LimiterTypeOK
  BY LimiterAssumption DEF LimiterInit, LimiterTypeOK, Entry, NoEntry
<1>2. LimiterInit => LimiterInv
  <2> SUFFICES ASSUME LimiterInit, NEW b \in Bearer PROVE Bucket(b)
    BY DEF LimiterInv
  <2>1. limiters[b] = NoEntry /\ clock = 0 /\ granted[b] = 0
    BY DEF LimiterInit
  <2>2. Tokens(limiters[b]) = Burst
    BY <2>1 DEF Tokens, NoEntry
  <2> QED BY <2>1, <2>2, LimiterAssumption DEF Bucket, NoEntry
<1> QED BY <1>1, <1>2

LEMMA GrantedKeeps ==
    ASSUME LimiterTypeOK, LimiterInv, NEW b \in Bearer, Granted(b)
    PROVE  LimiterTypeOK' /\ LimiterInv'
<1> DEFINE e == limiters[b]
           f == [present |-> TRUE, tokens |-> Tokens(e) - 1, last |-> clock, lastAccess |-> clock]
<1>1. Tokens(e) \in 0..Burst /\ Tokens(e) > 0
  <2>1. e.last <= clock
    BY DEF LimiterInv, Bucket, LimiterTypeOK, Entry
  <2> QED BY <2>1, TokensBounds DEF Granted, HasToken
<1>2. limiters' = [limiters EXCEPT ![b] = f] /\ clock' = clock
      /\ granted' = [granted EXCEPT ![b] = @ + 1]
  BY DEF Granted, Spent
<1>3. f \in Entry
  BY <1>1, LimiterAssumption DEF Entry, LimiterTypeOK
<1>4. LimiterTypeOK'
  BY <1>2, <1>3 DEF LimiterTypeOK
<1>5. ASSUME NEW c \in Bearer PROVE Bucket(c)'
  <2>1. CASE c = b
    <3>1. limiters'[c] = f /\ granted'[c] = granted[b] + 1
      BY <2>1, <1>2 DEF LimiterTypeOK
    <3>2. Tokens(limiters[c])' = Tokens(e) - 1
      BY <3>1, <1>1, <1>2, LimiterAssumption DEF Tokens, Fill, LimiterTypeOK
    <3>3. granted[b] + Tokens(e) <= Burst + clock
      BY DEF LimiterInv, Bucket
    <3> QED BY <3>1, <3>2, <3>3, <1>1, <1>2, <2>1, LimiterAssumption DEF LimiterTypeOK, Bucket
  <2>2. CASE c # b
    BY <2>2, <1>2 DEF LimiterInv, Bucket, LimiterTypeOK, Tokens, Fill
  <2> QED BY <2>1, <2>2
<1> QED BY <1>4, <1>5 DEF LimiterInv

LEMMA RefusedKeeps ==
    ASSUME LimiterTypeOK, LimiterInv, NEW b \in Bearer, Refused(b)
    PROVE  LimiterTypeOK' /\ LimiterInv'
<1> DEFINE e == limiters[b]
           f == [e EXCEPT !.lastAccess = clock]
<1>1. limiters' = [limiters EXCEPT ![b] = f] /\ clock' = clock /\ granted' = granted
  BY DEF Refused
<1>2. f \in Entry /\ e \in Entry
  BY DEF Entry, LimiterTypeOK
<1>3. LimiterTypeOK'
  BY <1>1, <1>2 DEF LimiterTypeOK
<1>4. ASSUME NEW c \in Bearer PROVE Bucket(c)'
  <2>1. CASE c = b
    <3>1. /\ limiters'[c].present = e.present /\ limiters'[c].tokens = e.tokens
          /\ limiters'[c].last = e.last /\ limiters'[c].lastAccess = clock
      BY <2>1, <1>1, <1>2 DEF LimiterTypeOK, Entry
    <3>2. Tokens(limiters[c])' = Tokens(e)
      BY <3>1, <1>1 DEF Tokens, Fill
    <3>3. /\ granted[b] + Tokens(e) <= Burst + clock
          /\ e.last <= e.lastAccess /\ e.lastAccess <= clock
      BY DEF LimiterInv, Bucket
    <3> QED BY <3>1, <3>2, <3>3, <1>1, <1>2, <2>1 DEF LimiterTypeOK, Entry, Bucket
  <2>2. CASE c # b
    BY <2>2, <1>1 DEF LimiterInv, Bucket, LimiterTypeOK, Tokens, Fill
  <2> QED BY <2>1, <2>2
<1> QED BY <1>3, <1>4 DEF LimiterInv

\* An idle bucket has had the time to fill up: this is where Burst <= IdleLimit
\* is needed.
LEMMA StartCleanupKeeps ==
    ASSUME LimiterTypeOK, LimiterInv, StartCleanup
    PROVE  LimiterTypeOK' /\ LimiterInv'
<1>1. limiters' = [b \in Bearer |-> IF Idle(limiters[b]) THEN NoEntry ELSE limiters[b]]
      /\ clock' = clock /\ granted' = granted
  BY DEF StartCleanup
<1>2. NoEntry \in Entry
  BY LimiterAssumption DEF NoEntry, Entry
<1>3. LimiterTypeOK'
  BY <1>1, <1>2 DEF LimiterTypeOK
<1>4. ASSUME NEW b \in Bearer PROVE Bucket(b)'
  <2>1. CASE Idle(limiters[b])
    <3>1. limiters'[b] = NoEntry
      BY <2>1, <1>1
    <3>2. Tokens(limiters[b])' = Burst
      BY <3>1 DEF Tokens, NoEntry
    <3>3. Tokens(limiters[b]) = Burst
      BY <2>1, LimiterAssumption DEF Idle, Tokens, Fill, LimiterInv, Bucket, LimiterTypeOK, Entry
    <3>4. granted[b] + Tokens(limiters[b]) <= Burst + clock
      BY DEF LimiterInv, Bucket
    <3> QED BY <3>1, <3>2, <3>3, <3>4, <1>1 DEF NoEntry, LimiterTypeOK, Bucket
  <2>2. CASE ~Idle(limiters[b])
    BY <2>2, <1>1 DEF LimiterInv, Bucket, LimiterTypeOK, Tokens, Fill
  <2> QED BY <2>1, <2>2
<1> QED BY <1>3, <1>4 DEF LimiterInv

LEMMA LimiterTickKeeps ==
    ASSUME LimiterTypeOK, LimiterInv, LimiterTick
    PROVE  LimiterTypeOK' /\ LimiterInv'
<1>1. clock' = clock + 1 /\ limiters' = limiters /\ granted' = granted
  BY DEF LimiterTick
<1>2. LimiterTypeOK'
  BY <1>1 DEF LimiterTypeOK
<1>3. ASSUME NEW b \in Bearer
      PROVE  /\ Tokens(limiters[b]) \in 0..Burst
             /\ Tokens(limiters[b])' \in 0..Burst
             /\ Tokens(limiters[b])' <= Tokens(limiters[b]) + 1
  BY <1>1, LimiterAssumption DEF Tokens, Fill, LimiterInv, Bucket, LimiterTypeOK, Entry
<1>4. ASSUME NEW b \in Bearer PROVE Bucket(b)'
  <2>1. /\ limiters[b].last <= limiters[b].lastAccess
        /\ limiters[b].lastAccess <= clock
        /\ granted[b] + Tokens(limiters[b]) <= Burst + clock
    BY DEF LimiterInv, Bucket
  <2>2. limiters[b] \in Entry /\ granted[b] \in Nat /\ clock \in Nat
    BY DEF LimiterTypeOK
  <2> QED BY <1>1, <1>3, <2>1, <2>2, LimiterAssumption DEF Entry, Bucket
<1> QED BY <1>2, <1>4 DEF LimiterInv

LEMMA LimiterStep ==
    ASSUME LimiterTypeOK, LimiterInv, [LimiterNext]_limiterVars
    PROVE  LimiterTypeOK' /\ LimiterInv'
<1>1. CASE \E b \in Bearer : Granted(b) \/ Refused(b)
  BY <1>1, GrantedKeeps, RefusedKeeps
<1>2. CASE StartCleanup BY <1>2, StartCleanupKeeps
<1>3. CASE LimiterTick BY <1>3, LimiterTickKeeps
<1>4. CASE UNCHANGED limiterVars
  BY <1>4 DEF limiterVars, LimiterTypeOK, LimiterInv, Bucket, Tokens, Fill
<1> QED BY <1>1, <1>2, <1>3, <1>4 DEF LimiterNext

LEMMA LimiterInvImplies == LimiterTypeOK /\ LimiterInv => NeverMoreThanTheRate
<1> SUFFICES ASSUME LimiterTypeOK, LimiterInv, NEW b \in Bearer
             PROVE  granted[b] <= Burst + clock
  BY DEF NeverMoreThanTheRate
<1>1. limiters[b].last <= clock
  BY DEF LimiterInv, Bucket, LimiterTypeOK, Entry
<1>2. Tokens(limiters[b]) \in 0..Burst
  BY <1>1, TokensBounds
<1>3. granted[b] + Tokens(limiters[b]) <= Burst + clock
  BY DEF LimiterInv, Bucket
<1> QED BY <1>2, <1>3, LimiterAssumption DEF LimiterTypeOK

\* The limiter alone never grants more than the rate, whatever it evicts.
THEOREM LimiterKeepsTheRate == LimiterSpec => []NeverMoreThanTheRate
<1> USE DEF LimiterSpec
<1>1. LimiterInit => LimiterTypeOK /\ LimiterInv
  BY LimiterInitially
<1>2. LimiterTypeOK /\ LimiterInv /\ [LimiterNext]_limiterVars => (LimiterTypeOK /\ LimiterInv)'
  BY LimiterStep
<1>3. LimiterTypeOK /\ LimiterInv => NeverMoreThanTheRate
  BY LimiterInvImplies
<1> QED BY <1>1, <1>2, <1>3, PTL

(***************************************************************************)
(* The requests and the credentials.                                       *)
(***************************************************************************)

\* What a credential opens, by what was issued: an issued token, with its scopes.
Issued(route, cred) ==
    \/ route \in TokenRoute /\ cred = Bootstrap
    \/ /\ route \in DOMAIN ScopeOf
       /\ cred \in Token
       /\ tokens[cred].status # "absent"
       /\ ScopeOf[route] \in tokens[cred].scopes
    \/ route \in KeyRoute /\ cred \in Key

\* A request that came too late carries a credential that is still revoked, one
\* that has been told apart carries a token, and one that is being handled was
\* let in by rights.
Admitted(h) == /\ req[h].late => Revoked(req[h].cred)
               /\ req[h].known => req[h].cred \in Token
               /\ req[h].pc = "handle" => ~req[h].late /\ Issued(req[h].route, req[h].cred)

\* What has been done was done by rights.
Rightful(e) == ~e.late /\ Issued(e.route, e.cred)

AccessInv == /\ AccessTypeOK
             /\ \A h \in Handler : Admitted(h)
             /\ \A e \in effects : Rightful(e)

\* What no step does to a credential.
CredentialsLast ==
    /\ \A t \in Token :
         /\ tokens[t].status # "absent" => /\ tokens'[t].status # "absent"
                                           /\ tokens'[t].scopes = tokens[t].scopes
         /\ tokens[t].status = "revoked" => tokens'[t].status = "revoked"
    /\ \A k \in Key : keys[k].status = "revoked" => keys'[k].status = "revoked"

LEMMA IssuedLasts ==
    ASSUME CredentialsLast, NEW route, NEW cred, Issued(route, cred)
    PROVE  Issued(route, cred)'
BY DEF CredentialsLast, Issued

LEMMA RevokedLasts ==
    ASSUME CredentialsLast, NEW cred, Revoked(cred)
    PROVE  Revoked(cred)'
BY DEF CredentialsLast, Revoked

\* Whoever is let in is let in by rights and not with a revoked credential.
LEMMA AuthorizedIsIssued ==
    ASSUME NEW route, NEW cred, Authorized(route, cred)
    PROVE  Issued(route, cred) /\ ~Revoked(cred)
BY AccessAssumption DEF Authorized, Issued, Revoked, AdminOnly, RequireScope, VerifyToken, APIKeyAuth

CredentialTypes == /\ tokens \in [Token -> [status : {"absent", "live", "expired", "revoked"}, scopes : SUBSET Scope]]
                   /\ keys \in [Key -> [status : {"absent", "live", "revoked"}, project : Project \cup {None}]]
                   /\ projects \in [Project -> {"absent", "live", "deleted"}]

LEMMA TokensOnward ==
    ASSUME CredentialTypes, UNCHANGED keys, NEW t \in Token,
           NEW e \in [status : {"absent", "live", "expired", "revoked"}, scopes : SUBSET Scope],
           tokens' = [tokens EXCEPT ![t] = e],
           tokens[t].status # "absent" => e.status # "absent" /\ e.scopes = tokens[t].scopes,
           tokens[t].status = "revoked" => e.status = "revoked"
    PROVE  /\ tokens' \in [Token -> [status : {"absent", "live", "expired", "revoked"}, scopes : SUBSET Scope]]
           /\ CredentialsLast
BY DEF CredentialTypes, CredentialsLast

LEMMA ServeKeeps ==
    ASSUME CredentialTypes, NEW r \in Request, Serve(r)
    PROVE  CredentialTypes' /\ CredentialsLast
<1>1. CASE IssueToken
  <2>1. PICK t \in Token, asked \in Asked : \E scopes \in ParseScopes(asked) :
          /\ tokens[t].status = "absent"
          /\ tokens' = [tokens EXCEPT ![t] = [status |-> "live", scopes |-> scopes]]
          /\ UNCHANGED <<keys, projects>>
    BY <1>1 DEF IssueToken
  <2>2. PICK scopes \in ParseScopes(asked) :
          /\ tokens[t].status = "absent"
          /\ tokens' = [tokens EXCEPT ![t] = [status |-> "live", scopes |-> scopes]]
          /\ UNCHANGED <<keys, projects>>
    BY <2>1
  <2>3. scopes \in SUBSET Scope
    BY DEF ParseScopes
  <2> QED BY <2>2, <2>3, TokensOnward DEF CredentialTypes
<1>2. CASE RevokeToken
  <2>1. PICK t \in Token : /\ tokens[t].status # "absent"
                           /\ tokens' = [tokens EXCEPT ![t].status = "revoked"]
                           /\ UNCHANGED <<keys, projects>>
    BY <1>2 DEF RevokeToken
  <2>2. tokens[t] \in [status : {"absent", "live", "expired", "revoked"}, scopes : SUBSET Scope]
    BY DEF CredentialTypes
  <2> DEFINE e == [tokens[t] EXCEPT !.status = "revoked"]
  <2>3. /\ e \in [status : {"absent", "live", "expired", "revoked"}, scopes : SUBSET Scope]
        /\ e.status = "revoked" /\ e.scopes = tokens[t].scopes
    BY <2>2
  <2>4. tokens' = [tokens EXCEPT ![t] = e]
    BY <2>1
  <2> HIDE DEF e
  <2> QED BY <2>1, <2>3, <2>4, TokensOnward DEF CredentialTypes
<1>3. CASE CreateProject
  BY <1>3 DEF CreateProject, CredentialTypes, CredentialsLast
<1>4. CASE DeleteProject
  BY <1>4 DEF DeleteProject, CredentialTypes, CredentialsLast
<1>5. CASE IssueKey
  BY <1>5 DEF IssueKey, CredentialTypes, CredentialsLast
<1>6. CASE RevokeKey
  BY <1>6 DEF RevokeKey, CredentialTypes, CredentialsLast
<1>7. CASE UNCHANGED credentialTables
  BY <1>7 DEF credentialTables, CredentialTypes, CredentialsLast
<1> QED
  BY <1>1, <1>2, <1>3, <1>4, <1>5, <1>6, <1>7
  DEF Serve, ListProjects, CreateBranch, Sync, ApplyMigrations, ApplySQL, Connection, RestToken

LEMMA NoRequestIsRequest == NoRequest \in Request
BY DEF NoRequest, Request, Credential, Route, ScopeOf

\* The answer leaves the request where Audit finds it, or ends it.
LEMMA AnsweredType ==
    ASSUME NEW h \in Handler, req[h] \in Request, NEW ok \in BOOLEAN
    PROVE  /\ Answered(h, ok) \in Request
           /\ Answered(h, ok).pc # "handle"
           /\ Answered(h, ok).late => req[h].late /\ Answered(h, ok).cred = req[h].cred
           /\ Answered(h, ok).known => req[h].known /\ Answered(h, ok).cred = req[h].cred
<1> DEFINE a == [req[h] EXCEPT !.pc = "audit", !.ok = ok]
<1>1. /\ a \in Request /\ a.pc = "audit"
      /\ a.late = req[h].late /\ a.known = req[h].known /\ a.cred = req[h].cred
  BY DEF Request
<1>2. NoRequest.pc = "idle" /\ NoRequest.late = FALSE /\ NoRequest.known = FALSE
  BY DEF NoRequest
<1> QED BY <1>1, <1>2, NoRequestIsRequest, Zenon DEF Answered

(***************************************************************************)
(* The steps of a request.                                                 *)
(***************************************************************************)

\* Most steps leave every request alone but one, which keeps its credential and
\* is not let in by them.
LEMMA OneRequestMoves ==
    ASSUME AccessInv, CredentialsLast, NEW h \in Handler, NEW r \in Request,
           req' = [req EXCEPT ![h] = r],
           r.late => Revoked(r.cred)',
           r.known => r.cred \in Token,
           r.pc = "handle" => ~r.late /\ Issued(r.route, r.cred)'
    PROVE  req' \in [Handler -> Request] /\ \A g \in Handler : Admitted(g)'
<1>1. req \in [Handler -> Request]
  BY DEF AccessInv, AccessTypeOK
<1>2. req' \in [Handler -> Request]
  BY <1>1
<1>3. ASSUME NEW g \in Handler PROVE Admitted(g)'
  <2>1. CASE g = h
    <3>1. req'[g] = r
      BY <1>1, <2>1
    <3> QED BY <3>1 DEF Admitted
  <2>2. CASE g # h
    <3>1. req'[g] = req[g]
      BY <1>1, <2>2
    <3>2. Admitted(g)
      BY DEF AccessInv
    <3> QED BY <3>1, <3>2, IssuedLasts, RevokedLasts DEF Admitted
  <2> QED BY <2>1, <2>2
<1> QED BY <1>2, <1>3

LEMMA EffectsStand ==
    ASSUME AccessInv, CredentialsLast, UNCHANGED effects
    PROVE  \A e \in effects' : Rightful(e)'
BY IssuedLasts DEF AccessInv, Rightful

LEMMA UntouchedCredentials ==
    ASSUME UNCHANGED <<tokens, keys>>
    PROVE  CredentialsLast
BY DEF CredentialsLast

LEMMA RequestOf ==
    ASSUME AccessInv, NEW h \in Handler
    PROVE  /\ req[h] \in Request
           /\ req[h].late => Revoked(req[h].cred)
           /\ req[h].known => req[h].cred \in Token
BY DEF AccessInv, AccessTypeOK, Admitted

LEMMA ArriveKeeps ==
    ASSUME AccessInv, NEW h \in Handler, NEW in \in Tried, Arrive(h, in[1], in[2])
    PROVE  AccessInv'
<1>1. in[1] \in Route /\ in[2] \in Credential
  BY AccessAssumption DEF Credential
<1> DEFINE r == [pc |-> IF in[1] \in KeyRoute THEN "limit" ELSE "auth", route |-> in[1], cred |-> in[2],
                 known |-> FALSE, ok |-> FALSE, gone |-> FALSE, late |-> Revoked(in[2])]
<1>2. CredentialsLast
  BY UntouchedCredentials DEF Arrive
<1>3. Revoked(in[2]) \in BOOLEAN
  BY DEF Revoked
<1>4. r \in Request /\ r.pc # "handle" /\ r.late = Revoked(in[2]) /\ ~r.known /\ r.cred = in[2]
  BY <1>1, <1>3 DEF Request
<1>5. req' = [req EXCEPT ![h] = r]
  BY DEF Arrive
<1> HIDE DEF r
<1>6. req' \in [Handler -> Request] /\ \A g \in Handler : Admitted(g)'
  BY <1>2, <1>4, <1>5, OneRequestMoves, RevokedLasts
<1>7. \A e \in effects' : Rightful(e)'
  BY <1>2, EffectsStand DEF Arrive
<1>8. AccessTypeOK'
  BY <1>6 DEF AccessInv, AccessTypeOK, LimiterTypeOK, limiterVars, Arrive
<1> QED BY <1>6, <1>7, <1>8 DEF AccessInv

LEMMA HangUpKeeps ==
    ASSUME AccessInv, NEW h \in Handler, HangUp(h)
    PROVE  AccessInv'
<1> DEFINE r == [req[h] EXCEPT !.gone = TRUE]
<1>1. CredentialsLast
  BY UntouchedCredentials DEF HangUp
<1>2. /\ r \in Request /\ r.late = req[h].late /\ r.cred = req[h].cred
      /\ r.pc = req[h].pc /\ r.route = req[h].route /\ r.known = req[h].known
  BY RequestOf DEF Request
<1>3. req' = [req EXCEPT ![h] = r]
  BY DEF HangUp
<1>4. Admitted(h)
  BY DEF AccessInv
<1> HIDE DEF r
<1>5. req' \in [Handler -> Request] /\ \A g \in Handler : Admitted(g)'
  BY <1>1, <1>2, <1>3, <1>4, OneRequestMoves, RevokedLasts, IssuedLasts DEF Admitted
<1>6. \A e \in effects' : Rightful(e)'
  BY <1>1, EffectsStand DEF HangUp
<1>7. AccessTypeOK'
  BY <1>5 DEF AccessInv, AccessTypeOK, LimiterTypeOK, limiterVars, HangUp, Fault
<1> QED BY <1>5, <1>6, <1>7 DEF AccessInv

LEMMA GrantedTypes ==
    ASSUME LimiterTypeOK, LimiterInv, NEW b \in Bearer, Granted(b) \/ Refused(b)
    PROVE  LimiterTypeOK'
BY GrantedKeeps, RefusedKeeps

LEMMA RateLimitKeeps ==
    ASSUME AccessInv, LimiterInv, NEW h \in Handler, RateLimit(h)
    PROVE  AccessInv'
<1> DEFINE r == [req[h] EXCEPT !.pc = "auth"]
<1>1. CredentialsLast
  BY UntouchedCredentials DEF RateLimit
<1>2. /\ r \in Request /\ r.late = req[h].late /\ r.cred = req[h].cred /\ r.pc # "handle"
      /\ r.known = req[h].known
  BY RequestOf DEF Request
<1>3. NoRequest \in Request /\ NoRequest.pc # "handle" /\ ~NoRequest.late /\ ~NoRequest.known
  BY NoRequestIsRequest DEF NoRequest
<1>4. req' = [req EXCEPT ![h] = r] \/ req' = [req EXCEPT ![h] = NoRequest]
  BY DEF RateLimit
<1> HIDE DEF r
<1>5. req' \in [Handler -> Request] /\ \A g \in Handler : Admitted(g)'
  <2>1. CASE req' = [req EXCEPT ![h] = r]
    BY <2>1, <1>1, <1>2, RequestOf, OneRequestMoves, RevokedLasts
  <2>2. CASE req' = [req EXCEPT ![h] = NoRequest]
    BY <2>2, <1>1, <1>3, OneRequestMoves
  <2> QED BY <1>4, <2>1, <2>2
<1>6. \A e \in effects' : Rightful(e)'
  BY <1>1, EffectsStand DEF RateLimit
<1>7. LimiterTypeOK'
  <2>1. req[h].cred # None => req[h].cred \in Bearer
    BY RequestOf DEF Request, Credential
  <2>2. LimiterTypeOK
    BY DEF AccessInv, AccessTypeOK
  <2>3. CASE UNCHANGED limiterVars
    BY <2>2, <2>3 DEF limiterVars, LimiterTypeOK
  <2> QED BY <2>1, <2>2, <2>3, GrantedTypes DEF RateLimit
<1>8. AccessTypeOK'
  BY <1>5, <1>7 DEF AccessInv, AccessTypeOK, RateLimit
<1> QED BY <1>5, <1>6, <1>8 DEF AccessInv

LEMMA AuthenticateKeeps ==
    ASSUME AccessInv, NEW h \in Handler, Authenticate(h)
    PROVE  AccessInv'
<1> DEFINE k == req[h].route \in DOMAIN ScopeOf
<1>a. PICK r : r = [req[h] EXCEPT !.pc = "handle", !.known = k]
  OBVIOUS
<1>1. CredentialsLast
  BY UntouchedCredentials DEF Authenticate
<1>2. k \in BOOLEAN
  OBVIOUS
<1>3. /\ r \in Request /\ r.late = req[h].late /\ r.cred = req[h].cred /\ r.route = req[h].route
      /\ r.known = k
  BY <1>a, <1>2, RequestOf DEF Request
<1>4. \/ Authorized(req[h].route, req[h].cred) /\ req' = [req EXCEPT ![h] = r]
      \/ req' = [req EXCEPT ![h] = Answered(h, FALSE)]
  BY <1>a DEF Authenticate
<1>5. req' \in [Handler -> Request] /\ \A g \in Handler : Admitted(g)'
  <2>1. CASE Authorized(req[h].route, req[h].cred) /\ req' = [req EXCEPT ![h] = r]
    <3>1. Issued(r.route, r.cred) /\ ~Revoked(r.cred)
      BY <2>1, <1>3, AuthorizedIsIssued
    <3>2. Issued(r.route, r.cred)'
      BY <3>1, <1>1, IssuedLasts
    <3>3. r.known => r.cred \in Token
      BY <2>1, <1>3, AccessAssumption DEF Authorized, RequireScope, VerifyToken, ScopeOf, TokenRoute, KeyRoute
    <3> QED BY <3>1, <3>2, <3>3, <2>1, <1>1, <1>3, RequestOf, OneRequestMoves
  <2>2. CASE req' = [req EXCEPT ![h] = Answered(h, FALSE)]
    <3>1. /\ Answered(h, FALSE) \in Request
          /\ Answered(h, FALSE).pc # "handle"
          /\ Answered(h, FALSE).late => req[h].late /\ Answered(h, FALSE).cred = req[h].cred
          /\ Answered(h, FALSE).known => req[h].known /\ Answered(h, FALSE).cred = req[h].cred
      BY RequestOf, AnsweredType
    <3> QED BY <3>1, <2>2, <1>1, RequestOf, OneRequestMoves, RevokedLasts
  <2> QED BY <1>4, <2>1, <2>2
<1>6. \A e \in effects' : Rightful(e)'
  BY <1>1, EffectsStand DEF Authenticate
<1>7. AccessTypeOK'
  BY <1>5 DEF AccessInv, AccessTypeOK, LimiterTypeOK, limiterVars, Authenticate
<1> QED BY <1>5, <1>6, <1>7 DEF AccessInv

LEMMA HandleKeeps ==
    ASSUME AccessInv, NEW h \in Handler, Handle(h)
    PROVE  AccessInv'
<1>a. PICK r, e : r = req[h] /\ e = [route |-> r.route, cred |-> r.cred, late |-> r.late]
  OBVIOUS
<1>1. r \in Request /\ (r.late => Revoked(r.cred)) /\ ~r.late /\ Issued(r.route, r.cred)
  BY <1>a, RequestOf DEF AccessInv, Admitted, Handle
<1>2. \/ Serve(r) /\ effects' = effects \cup {e}
      \/ UNCHANGED <<tokens, keys, projects, effects>>
  BY <1>a DEF Handle
<1>3. \E ok \in BOOLEAN : req' = [req EXCEPT ![h] = Answered(h, ok)]
  <2>1. Answers(r) \subseteq BOOLEAN /\ FALSE \in BOOLEAN
    BY <1>1 DEF Request, Answers
  <2>2. CASE \E ok \in Answers(r) : req' = [req EXCEPT ![h] = Answered(h, ok)]
    BY <2>1, <2>2, Zenon
  <2>3. CASE req' = [req EXCEPT ![h] = Answered(h, FALSE)]
    BY <2>1, <2>3, Zenon
  <2> QED BY <1>a, <2>2, <2>3 DEF Handle
<1>4. e \in Effect /\ e.late = r.late /\ e.route = r.route /\ e.cred = r.cred
  BY <1>a, <1>1 DEF Effect, Request
<1>5. CredentialTypes' /\ CredentialsLast
  <2>1. CredentialTypes
    BY DEF AccessInv, AccessTypeOK, CredentialTypes
  <2>2. CASE UNCHANGED <<tokens, keys, projects, effects>>
    BY <2>1, <2>2, UntouchedCredentials DEF CredentialTypes
  <2>3. CASE Serve(r)
    BY <2>1, <2>3, <1>1, ServeKeeps
  <2> QED BY <1>2, <2>2, <2>3
<1>6. req' \in [Handler -> Request] /\ \A g \in Handler : Admitted(g)'
  <2>1. PICK ok \in BOOLEAN : req' = [req EXCEPT ![h] = Answered(h, ok)]
    BY <1>3
  <2>2. /\ Answered(h, ok) \in Request
        /\ Answered(h, ok).pc # "handle"
        /\ Answered(h, ok).late => r.late
        /\ Answered(h, ok).known => r.known /\ Answered(h, ok).cred = r.cred
    BY <1>a, <1>1, AnsweredType
  <2> QED BY <1>a, <2>1, <2>2, <1>1, <1>5, RequestOf, OneRequestMoves
<1>7. \A x \in effects' : Rightful(x)'
  <2>1. Rightful(e)'
    <3>1. Issued(e.route, e.cred)
      BY <1>1, <1>4
    <3>2. Issued(e.route, e.cred)'
      BY <3>1, <1>5, IssuedLasts
    <3> QED BY <3>2, <1>1, <1>4 DEF Rightful
  <2>2. \A x \in effects : Rightful(x)'
    BY <1>5, IssuedLasts DEF AccessInv, Rightful
  <2> QED BY <1>2, <2>1, <2>2
<1>8. effects' \subseteq Effect
  BY <1>2, <1>4 DEF AccessInv, AccessTypeOK
<1>9. AccessTypeOK'
  BY <1>5, <1>6, <1>8 DEF AccessInv, AccessTypeOK, LimiterTypeOK, limiterVars, Handle, CredentialTypes
<1> QED BY <1>6, <1>7, <1>9 DEF AccessInv

LEMMA AuditKeeps ==
    ASSUME AccessInv, NEW h \in Handler, Audit(h)
    PROVE  AccessInv'
<1> DEFINE row == [token |-> IF req[h].known THEN req[h].cred ELSE None, route |-> req[h].route, ok |-> req[h].ok]
<1>1. CredentialsLast
  BY UntouchedCredentials DEF Audit
<1>2. NoRequest \in Request /\ NoRequest.pc # "handle" /\ ~NoRequest.late /\ ~NoRequest.known
  BY NoRequestIsRequest DEF NoRequest
<1>3. req' \in [Handler -> Request] /\ \A g \in Handler : Admitted(g)'
  BY <1>1, <1>2, OneRequestMoves DEF Audit
<1>4. \A e \in effects' : Rightful(e)'
  BY <1>1, EffectsStand DEF Audit
<1>5. audit' \in Seq(AuditRow)
  <2>1. req[h] \in Request /\ (req[h].known => req[h].cred \in Token)
    BY RequestOf
  <2>2. row \in AuditRow
    BY <2>1 DEF AuditRow, Request
  <2>3. audit \in Seq(AuditRow)
    BY DEF AccessInv, AccessTypeOK
  <2>4. audit' = audit \/ audit' = Append(audit, row)
    BY DEF Audit
  <2> HIDE DEF row
  <2> QED BY <2>2, <2>3, <2>4
<1>6. AccessTypeOK'
  BY <1>3, <1>5 DEF AccessInv, AccessTypeOK, LimiterTypeOK, limiterVars, Audit, Fault
<1> QED BY <1>3, <1>4, <1>6 DEF AccessInv

LEMMA TokenExpiresKeeps ==
    ASSUME AccessInv, NEW t \in Token, TokenExpires(t)
    PROVE  AccessInv'
<1> DEFINE e == [tokens[t] EXCEPT !.status = "expired"]
<1>1. CredentialTypes
  BY DEF AccessInv, AccessTypeOK, CredentialTypes
<1>2. /\ e \in [status : {"absent", "live", "expired", "revoked"}, scopes : SUBSET Scope]
      /\ e.status = "expired" /\ e.scopes = tokens[t].scopes
  BY <1>1 DEF CredentialTypes
<1>3. tokens' = [tokens EXCEPT ![t] = e] /\ UNCHANGED keys /\ tokens[t].status = "live"
  BY DEF TokenExpires
<1> HIDE DEF e
<1>4. CredentialTypes' /\ CredentialsLast
  BY <1>1, <1>2, <1>3, TokensOnward DEF CredentialTypes, TokenExpires
<1>5. \A e1 \in effects' : Rightful(e1)'
  BY <1>4, EffectsStand DEF TokenExpires
<1>6. \A h \in Handler : Admitted(h)'
  BY <1>4, IssuedLasts, RevokedLasts DEF AccessInv, Admitted, TokenExpires
<1>7. AccessTypeOK'
  BY <1>4 DEF AccessInv, AccessTypeOK, LimiterTypeOK, limiterVars, TokenExpires, CredentialTypes
<1> QED BY <1>5, <1>6, <1>7 DEF AccessInv

\* Credentials and requests do not move while only the limiter does.
LEMMA AccessStands ==
    ASSUME AccessInv, UNCHANGED accessVars, LimiterTypeOK'
    PROVE  AccessInv'
<1>1. CredentialsLast
  BY UntouchedCredentials DEF accessVars
<1>2. \A e \in effects' : Rightful(e)'
  BY <1>1, EffectsStand DEF accessVars
<1>3. \A h \in Handler : Admitted(h)'
  BY <1>1, IssuedLasts, RevokedLasts DEF AccessInv, Admitted, accessVars
<1>4. AccessTypeOK'
  BY DEF AccessInv, AccessTypeOK, accessVars
<1> QED BY <1>2, <1>3, <1>4 DEF AccessInv

\* The endpoints use the limiter as it is meant to be used.
LEMMA AccessStepsLimiter ==
    ASSUME AccessInv, [Next]_vars
    PROVE  [LimiterNext]_limiterVars
<1>1. ASSUME NEW h \in Handler, RateLimit(h) PROVE [LimiterNext]_limiterVars
  <2>1. req[h].cred # None => req[h].cred \in Bearer
    BY RequestOf DEF Request, Credential
  <2> QED BY <1>1, <2>1 DEF RateLimit, LimiterNext
<1>2. ASSUME NEW h \in Handler, HangUp(h) \/ Authenticate(h) \/ Handle(h) \/ Audit(h)
      PROVE  UNCHANGED limiterVars
  BY <1>2 DEF HangUp, Authenticate, Handle, Audit
<1>3. ASSUME NEW h \in Handler, NEW in \in Tried, Arrive(h, in[1], in[2])
      PROVE  UNCHANGED limiterVars
  BY <1>3 DEF Arrive
<1>4. ASSUME NEW t \in Token, TokenExpires(t) PROVE UNCHANGED limiterVars
  BY <1>4 DEF TokenExpires
<1>5. CASE (StartCleanup \/ LimiterTick) /\ UNCHANGED accessVars
  BY <1>5 DEF LimiterNext
<1>6. CASE UNCHANGED vars
  BY <1>6 DEF vars
<1> QED BY <1>1, <1>2, <1>3, <1>4, <1>5, <1>6 DEF Next, Step

LEMMA AccessInitially == Init => AccessInv /\ LimiterInv
<1> SUFFICES ASSUME Init PROVE AccessInv /\ LimiterInv
  OBVIOUS
<1>1. LimiterTypeOK /\ LimiterInv
  BY LimiterInitially DEF Init
<1>2. req \in [Handler -> Request]
  BY NoRequestIsRequest DEF Init
<1>3. CredentialTypes
  <2>1. tokens \in [Token -> [status : {"absent", "live", "expired", "revoked"}, scopes : SUBSET Scope]]
    BY AccessAssumption DEF Init
  <2>2. keys \in [Key -> [status : {"absent", "live", "revoked"}, project : Project \cup {None}]]
    BY AccessAssumption DEF Init
  <2> QED BY <2>1, <2>2 DEF Init, CredentialTypes
<1>4. AccessTypeOK
  BY <1>1, <1>2, <1>3 DEF Init, AccessTypeOK, CredentialTypes
<1>5. \A h \in Handler : Admitted(h)
  BY DEF Init, Admitted, NoRequest
<1> QED BY <1>1, <1>4, <1>5 DEF AccessInv, Init

LEMMA AccessStep ==
    ASSUME AccessInv, LimiterInv, [Next]_vars
    PROVE  AccessInv' /\ LimiterInv'
<1>1. LimiterTypeOK' /\ LimiterInv'
  BY AccessStepsLimiter, LimiterStep DEF AccessInv, AccessTypeOK
<1>2. ASSUME NEW h \in Handler, NEW in \in Tried, Arrive(h, in[1], in[2]) PROVE AccessInv'
  BY <1>2, ArriveKeeps
<1>3. ASSUME NEW h \in Handler, Step(h) PROVE AccessInv'
  BY <1>3, HangUpKeeps, RateLimitKeeps, AuthenticateKeeps, HandleKeeps, AuditKeeps DEF Step
<1>4. ASSUME NEW t \in Token, TokenExpires(t) PROVE AccessInv'
  BY <1>4, TokenExpiresKeeps
<1>5. CASE UNCHANGED accessVars
  BY <1>1, <1>5, AccessStands
<1> QED BY <1>1, <1>2, <1>3, <1>4, <1>5 DEF Next, vars

\* What holds of credentials, requests in flight and buckets together in every
\* state of every run of the API, whatever the handlers' order.
THEOREM AccessInductive == Spec => [](AccessInv /\ LimiterInv)
<1>1. AccessInv /\ LimiterInv /\ [Next]_vars => (AccessInv /\ LimiterInv)'
  BY AccessStep
<1> QED BY AccessInitially, <1>1, PTL DEF Spec

\* Every variable keeps its type.
THEOREM AccessTyped == Spec => []AccessTypeOK
<1>1. AccessInv => AccessTypeOK
  BY DEF AccessInv
<1> QED BY <1>1, AccessInductive, PTL

\* The API's requests, whatever their order and number, are requests of the
\* limiter alone.
THEOREM AccessImplementsLimiter == Spec => LimiterSpec
<1>1. Init => LimiterInit
  BY DEF Init
<1>2. AccessInv /\ [Next]_vars => [LimiterNext]_limiterVars
  BY AccessStepsLimiter
<1> QED BY <1>1, <1>2, AccessInductive, PTL DEF Spec, LimiterSpec

\* So no bearer gets more through the API than its rate.
THEOREM AccessKeepsTheRate == Spec => []NeverMoreThanTheRate
BY AccessImplementsLimiter, LimiterKeepsTheRate, PTL

\* Whatever was done was done with a credential that had been issued for it and
\* was not revoked when the request came in: of all the handlers there are.
THEOREM AccessIsAuthorized == Spec => []EffectsAreAuthorized
<1>1. AccessInv => EffectsAreAuthorized
  <2> SUFFICES ASSUME AccessInv, NEW e \in effects
               PROVE  /\ e.route \in TokenRoute <=> e.cred = Bootstrap
                      /\ e.route \in DOMAIN ScopeOf => ScopeOf[e.route] \in tokens[e.cred].scopes
                      /\ e.route \in KeyRoute => e.cred \in Key
                      /\ ~e.late
    BY DEF EffectsAreAuthorized
  <2>1. Rightful(e)
    BY DEF AccessInv
  <2>2. /\ TokenRoute \cap DOMAIN ScopeOf = {}
        /\ TokenRoute \cap KeyRoute = {}
        /\ KeyRoute \cap DOMAIN ScopeOf = {}
    BY DEF TokenRoute, KeyRoute, ScopeOf
  <2> QED BY <2>1, <2>2, AccessAssumption DEF Rightful, Issued
<1> QED BY <1>1, AccessInductive, PTL

(***************************************************************************)
(* The audit log.                                                          *)
(***************************************************************************)

\* The requests that still owe the log a row.
InFlight == {h \in Handler : req[h].pc # "idle" /\ IsAudited(req[h].route)}

\* Every request that had to be audited has a row, lost its row, or owes it.
Ledger == /\ IsFiniteSet(InFlight)
          /\ Len(audit) + unaudited + Cardinality(InFlight) = mutations

\* A token is told apart on its way to a handler of its scope and nowhere else;
\* what awaits its row is audited, and answers with success only what was done.
ToldApart(r) == r.known <=> r.route \in DOMAIN ScopeOf
Done(r) == \E e \in effects : e.route = r.route /\ e.cred = r.cred
Answerable(r) == /\ r.pc = "limit" => ~IsAudited(r.route)
                 /\ r.pc = "handle" => ToldApart(r)
                 /\ r.pc = "audit" => /\ IsAudited(r.route)
                                      /\ r.ok => ToldApart(r) /\ Done(r)

\* A row that says success names the token it was done with, or none where the
\* bootstrap token was.
TrueRow(row) == row.ok => /\ (row.token = None) <=> (row.route \in TokenRoute)
                          /\ \E e \in effects : /\ e.route = row.route
                                                /\ row.token \in {e.cred, None}

AuditInv == /\ Ledger
            /\ \A h \in Handler : Answerable(req[h])
            /\ \A i \in DOMAIN audit : TrueRow(audit[i])

LEMMA InFlightMoves ==
    ASSUME AccessInv, NEW h \in Handler, NEW r \in Request, req' = [req EXCEPT ![h] = r]
    PROVE  InFlight' = IF r.pc # "idle" /\ IsAudited(r.route)
                       THEN InFlight \cup {h} ELSE InFlight \ {h}
<1>1. \A g \in Handler : req'[g] = IF g = h THEN r ELSE req[g]
  BY DEF AccessInv, AccessTypeOK
<1>2. InFlight' = {g \in Handler : req'[g].pc # "idle" /\ IsAudited(req'[g].route)}
  BY DEF InFlight, IsAudited
<1> QED BY <1>1, <1>2 DEF InFlight

\* A request goes on owing its row, or goes on owing none.
LEMMA LedgerStands ==
    ASSUME AccessInv, Ledger, NEW h \in Handler, NEW r \in Request, req' = [req EXCEPT ![h] = r],
           h \in InFlight <=> r.pc # "idle" /\ IsAudited(r.route),
           UNCHANGED <<audit, unaudited, mutations>>
    PROVE  Ledger'
<1>1. InFlight' = InFlight
  BY InFlightMoves
<1> QED BY <1>1 DEF Ledger

\* What has been answered and logged stays true, for what is done stays done.
LEMMA AnswersStand ==
    ASSUME AccessInv, AuditInv, NEW h \in Handler, NEW r \in Request,
           req' = [req EXCEPT ![h] = r], effects \subseteq effects', Answerable(r)'
    PROVE  \A g \in Handler : Answerable(req[g])'
<1> SUFFICES ASSUME NEW g \in Handler PROVE Answerable(req[g])'
  OBVIOUS
<1>1. CASE g = h
  <2>1. req'[g] = r
    BY <1>1 DEF AccessInv, AccessTypeOK
  <2> QED BY <2>1 DEF Answerable, ToldApart, Done
<1>2. CASE g # h
  <2>1. req'[g] = req[g]
    BY <1>2 DEF AccessInv, AccessTypeOK
  <2>2. Answerable(req[g])
    BY DEF AuditInv
  <2> QED BY <2>1, <2>2 DEF Answerable, ToldApart, Done, IsAudited
<1> QED BY <1>1, <1>2

LEMMA RowsStand ==
    ASSUME AuditInv, UNCHANGED audit, effects \subseteq effects'
    PROVE  \A i \in DOMAIN audit' : TrueRow(audit[i])'
<1>1. \A i \in DOMAIN audit : TrueRow(audit[i])
  BY DEF AuditInv
<1> QED BY <1>1 DEF TrueRow

\* An audited request waits for its row with the answer; any other is over.
LEMMA AnsweredAudits ==
    ASSUME AccessInv, NEW h \in Handler, NEW ok \in BOOLEAN
    PROVE  /\ Answered(h, ok) \in Request
           /\ IF IsAudited(req[h].route)
              THEN /\ Answered(h, ok).pc = "audit" /\ Answered(h, ok).ok = ok
                   /\ Answered(h, ok).route = req[h].route
                   /\ Answered(h, ok).cred = req[h].cred
                   /\ Answered(h, ok).known = req[h].known
              ELSE Answered(h, ok).pc = "idle"
<1>1. req[h] \in Request /\ Answered(h, ok) \in Request
  BY RequestOf, AnsweredType
<1> DEFINE a == [req[h] EXCEPT !.pc = "audit", !.ok = ok]
<1>2. /\ a.pc = "audit" /\ a.ok = ok /\ a.route = req[h].route
      /\ a.cred = req[h].cred /\ a.known = req[h].known
  BY <1>1 DEF Request
<1>3. NoRequest.pc = "idle"
  BY DEF NoRequest
<1> QED BY <1>1, <1>2, <1>3, Zenon DEF Answered

LEMMA ArriveAudited ==
    ASSUME AccessInv, AuditInv, NEW h \in Handler, NEW in \in Tried, Arrive(h, in[1], in[2])
    PROVE  AuditInv'
<1>a. PICK r : r = [pc |-> IF in[1] \in KeyRoute THEN "limit" ELSE "auth", route |-> in[1],
                    cred |-> in[2], known |-> FALSE, ok |-> FALSE, gone |-> FALSE,
                    late |-> Revoked(in[2])]
  OBVIOUS
<1>1. r \in Request /\ r.pc \in {"limit", "auth"} /\ r.route = in[1]
      /\ (r.pc = "limit" => r.route \in KeyRoute)
  BY <1>a, AccessAssumption DEF Request, Credential, Revoked
<1>2. req' = [req EXCEPT ![h] = r] /\ UNCHANGED <<audit, unaudited, effects>>
  BY <1>a DEF Arrive
<1>3. mutations' = mutations + (IF IsAudited(r.route) THEN 1 ELSE 0)
  BY <1>1 DEF Arrive
<1>4. h \notin InFlight
  BY DEF Arrive, InFlight
<1>5. Ledger'
  <2>1. InFlight' = IF IsAudited(r.route) THEN InFlight \cup {h} ELSE InFlight
    BY <1>1, <1>2, <1>4, InFlightMoves
  <2>2. IsFiniteSet(InFlight) /\ Cardinality(InFlight) \in Nat
    BY FS_CardinalityType DEF AuditInv, Ledger
  <2>3. /\ IsFiniteSet(InFlight')
        /\ Cardinality(InFlight') = Cardinality(InFlight) + (IF IsAudited(r.route) THEN 1 ELSE 0)
    BY <2>1, <2>2, <1>4, FS_AddElement
  <2>4. mutations \in Nat /\ unaudited \in Nat /\ Len(audit) \in Nat
    BY DEF AccessInv, AccessTypeOK
  <2> QED BY <1>2, <1>3, <2>2, <2>3, <2>4 DEF AuditInv, Ledger
<1>6. Answerable(r)'
  <2>1. r.pc = "limit" => ~IsAudited(r.route)
    BY <1>1 DEF IsAudited, KeyRoute, TokenRoute, ScopeOf
  <2> QED BY <1>1, <2>1 DEF Answerable, IsAudited
<1> QED BY <1>1, <1>2, <1>5, <1>6, AnswersStand, RowsStand DEF AuditInv

LEMMA HangUpAudited ==
    ASSUME AccessInv, AuditInv, NEW h \in Handler, HangUp(h)
    PROVE  AuditInv'
<1>a. PICK r : r = [req[h] EXCEPT !.gone = TRUE]
  OBVIOUS
<1>1. /\ r \in Request /\ r.pc = req[h].pc /\ r.route = req[h].route
      /\ r.cred = req[h].cred /\ r.known = req[h].known /\ r.ok = req[h].ok
  BY <1>a, RequestOf DEF Request
<1>2. req' = [req EXCEPT ![h] = r] /\ UNCHANGED <<audit, unaudited, mutations, effects>>
  BY <1>a DEF HangUp
<1>3. Ledger'
  BY <1>1, <1>2, LedgerStands DEF AuditInv, InFlight
<1>4. Answerable(r)'
  <2>1. Answerable(req[h])
    BY DEF AuditInv
  <2> QED BY <1>1, <1>2, <2>1 DEF Answerable, ToldApart, Done, IsAudited
<1> QED BY <1>1, <1>2, <1>3, <1>4, AnswersStand, RowsStand DEF AuditInv

\* What the limiter refuses is no request that is audited.
LEMMA RateLimitAudited ==
    ASSUME AccessInv, AuditInv, NEW h \in Handler, RateLimit(h)
    PROVE  AuditInv'
<1>a. PICK r : /\ r \in {[req[h] EXCEPT !.pc = "auth"], NoRequest}
               /\ req' = [req EXCEPT ![h] = r]
  BY DEF RateLimit
<1>1. /\ r \in Request /\ r.pc \in {"auth", "idle"}
      /\ r.pc = "auth" => r.route = req[h].route
  <2>1. CASE r = NoRequest
    BY <2>1, NoRequestIsRequest DEF NoRequest
  <2>2. CASE r = [req[h] EXCEPT !.pc = "auth"]
    BY <2>2, RequestOf DEF Request
  <2> QED BY <1>a, <2>1, <2>2
<1>2. UNCHANGED <<audit, unaudited, mutations, effects>>
  BY DEF RateLimit
<1>3. ~IsAudited(req[h].route)
  BY DEF RateLimit, AuditInv, Answerable
<1>4. Ledger'
  BY <1>a, <1>1, <1>2, <1>3, LedgerStands DEF AuditInv, InFlight
<1>5. Answerable(r)'
  BY <1>1 DEF Answerable
<1> QED BY <1>a, <1>1, <1>2, <1>4, <1>5, AnswersStand, RowsStand DEF AuditInv

\* A request that is answered owes its row if it did before.
LEMMA AnswerAudited ==
    ASSUME AccessInv, AuditInv, NEW h \in Handler, req[h].pc # "idle", NEW ok \in BOOLEAN,
           req' = [req EXCEPT ![h] = Answered(h, ok)],
           UNCHANGED <<audit, unaudited, mutations>>, effects \subseteq effects',
           ok => ToldApart(req[h]) /\ \E e \in effects' : /\ e.route = req[h].route
                                                          /\ e.cred = req[h].cred
    PROVE  AuditInv'
<1>a. PICK r : r = Answered(h, ok)
  OBVIOUS
<1>1. /\ r \in Request
      /\ IF IsAudited(req[h].route)
         THEN /\ r.pc = "audit" /\ r.ok = ok /\ r.route = req[h].route
              /\ r.cred = req[h].cred /\ r.known = req[h].known
         ELSE r.pc = "idle"
  BY <1>a, AnsweredAudits
<1>2. req' = [req EXCEPT ![h] = r]
  BY <1>a
<1>3. Ledger'
  BY <1>1, <1>2, LedgerStands DEF AuditInv, InFlight
<1>4. Answerable(r)'
  BY <1>1 DEF Answerable, ToldApart, Done, IsAudited
<1> QED BY <1>1, <1>2, <1>3, <1>4, AnswersStand, RowsStand DEF AuditInv

LEMMA AuthenticateAudited ==
    ASSUME AccessInv, AuditInv, NEW h \in Handler, Authenticate(h)
    PROVE  AuditInv'
<1>1. req[h].pc = "auth" /\ UNCHANGED <<audit, unaudited, mutations, effects>>
  BY DEF Authenticate
<1>2. CASE req' = [req EXCEPT ![h] = Answered(h, FALSE)]
  BY <1>1, <1>2, AnswerAudited
<1> DEFINE k == req[h].route \in DOMAIN ScopeOf
<1>3. CASE req' = [req EXCEPT ![h] = [req[h] EXCEPT !.pc = "handle", !.known = k]]
  <2>a. PICK r : r = [req[h] EXCEPT !.pc = "handle", !.known = k]
    OBVIOUS
  <2>1. k \in BOOLEAN
    OBVIOUS
  <2> HIDE DEF k
  <2>b. /\ r \in Request /\ r.pc = "handle" /\ r.route = req[h].route /\ r.known = k
    BY <2>a, <2>1, RequestOf DEF Request
  <2> USE DEF k
  <2>2. Ledger'
    BY <1>1, <1>3, <2>a, <2>b, LedgerStands DEF AuditInv, InFlight
  <2>3. Answerable(r)'
    BY <2>b DEF Answerable, ToldApart
  <2> QED BY <1>1, <1>3, <2>a, <2>b, <2>2, <2>3, AnswersStand, RowsStand DEF AuditInv
<1> QED BY <1>2, <1>3 DEF Authenticate

\* A handler that answers with success has done what it was asked for.
LEMMA HandleAudited ==
    ASSUME AccessInv, AuditInv, NEW h \in Handler, Handle(h)
    PROVE  AuditInv'
<1>1. /\ req[h].pc = "handle" /\ req[h] \in Request /\ ToldApart(req[h])
      /\ UNCHANGED <<audit, unaudited, mutations>>
  BY RequestOf DEF Handle, AuditInv, Answerable
<1>2. ASSUME effects' = effects \cup {[route |-> req[h].route, cred |-> req[h].cred,
                                       late |-> req[h].late]},
             NEW ok \in Answers(req[h]), req' = [req EXCEPT ![h] = Answered(h, ok)]
      PROVE  AuditInv'
  <2>1. ok \in BOOLEAN
    BY <1>1, <1>2 DEF Answers, Request
  <2>2. \E e \in effects' : e.route = req[h].route /\ e.cred = req[h].cred
    <3>1. PICK e : e = [route |-> req[h].route, cred |-> req[h].cred, late |-> req[h].late]
      OBVIOUS
    <3>2. e \in effects' /\ e.route = req[h].route /\ e.cred = req[h].cred
      BY <1>2, <3>1
    <3> QED BY <3>2
  <2>3. effects \subseteq effects'
    BY <1>2
  <2> QED BY <1>1, <1>2, <2>1, <2>2, <2>3, AnswerAudited
<1>3. CASE UNCHANGED effects /\ req' = [req EXCEPT ![h] = Answered(h, FALSE)]
  BY <1>1, <1>3, AnswerAudited
<1> QED BY <1>2, <1>3 DEF Handle

\* The row is written, or the database refuses it: either way it is owed no more.
LEMMA AuditAudited ==
    ASSUME AccessInv, AuditInv, NEW h \in Handler, Audit(h)
    PROVE  AuditInv'
<1>a. PICK row : row = [token |-> IF req[h].known THEN req[h].cred ELSE None,
                        route |-> req[h].route, ok |-> req[h].ok]
  OBVIOUS
<1>1. /\ req' = [req EXCEPT ![h] = NoRequest]
      /\ UNCHANGED <<mutations, effects>>
      /\ \/ audit' = Append(audit, row) /\ UNCHANGED unaudited
         \/ unaudited' = unaudited + 1 /\ UNCHANGED audit
  BY <1>a DEF Audit
<1>2. NoRequest \in Request /\ NoRequest.pc = "idle"
  BY NoRequestIsRequest DEF NoRequest
<1>3. Answerable(req[h]) /\ req[h].pc = "audit"
  BY DEF Audit, AuditInv
<1>4. audit \in Seq(AuditRow) /\ unaudited \in Nat /\ mutations \in Nat /\ row \in AuditRow
  <2>1. row \in AuditRow
    BY <1>a, RequestOf DEF AuditRow, Request
  <2> QED BY <2>1 DEF AccessInv, AccessTypeOK
<1>5. Ledger'
  <2>1. InFlight' = InFlight \ {h} /\ h \in InFlight
    BY <1>1, <1>2, <1>3, InFlightMoves DEF InFlight, Answerable
  <2>2. /\ IsFiniteSet(InFlight')
        /\ Cardinality(InFlight) \in Nat
        /\ Cardinality(InFlight') = Cardinality(InFlight) - 1
    BY <2>1, FS_RemoveElement, FS_CardinalityType DEF AuditInv, Ledger
  <2>3. Len(audit') + unaudited' = Len(audit) + unaudited + 1
    BY <1>1, <1>4
  <2>4. Len(audit) \in Nat /\ Len(audit') \in Nat /\ unaudited' \in Nat
    BY <1>1, <1>4
  <2> QED BY <1>1, <1>4, <2>2, <2>3, <2>4 DEF AuditInv, Ledger
<1>6. TrueRow(row)
  <2> SUFFICES ASSUME req[h].ok
               PROVE  /\ (row.token = None) <=> (row.route \in TokenRoute)
                      /\ \E e \in effects : /\ e.route = row.route
                                            /\ row.token \in {e.cred, None}
    BY <1>a DEF TrueRow
  <2>1. IsAudited(req[h].route) /\ ToldApart(req[h]) /\ Done(req[h])
    BY <1>3 DEF Answerable
  <2>2. req[h].known => req[h].cred \in Token /\ req[h].cred # None
    BY RequestOf, AccessAssumption
  <2>3. req[h].known <=> req[h].route \notin TokenRoute
    BY <2>1 DEF IsAudited, ToldApart, TokenRoute, ScopeOf
  <2> QED BY <1>a, <2>1, <2>2, <2>3 DEF Done
<1>7. \A i \in DOMAIN audit' : TrueRow(audit[i])'
  <2>1. \A i \in DOMAIN audit : TrueRow(audit[i])
    BY DEF AuditInv
  <2>2. \A i \in DOMAIN audit' : audit'[i] = row \/ (i \in DOMAIN audit /\ audit'[i] = audit[i])
    BY <1>1, <1>4
  <2> QED BY <1>1, <1>6, <2>1, <2>2 DEF TrueRow
<1>8. Answerable(NoRequest)'
  BY <1>2 DEF Answerable
<1> QED BY <1>1, <1>2, <1>5, <1>7, <1>8, AnswersStand DEF AuditInv

LEMMA AuditStep ==
    ASSUME AccessInv, AuditInv, [Next]_vars
    PROVE  AuditInv'
<1>1. ASSUME NEW h \in Handler, NEW in \in Tried, Arrive(h, in[1], in[2]) PROVE AuditInv'
  BY <1>1, ArriveAudited
<1>2. ASSUME NEW h \in Handler, Step(h) PROVE AuditInv'
  BY <1>2, HangUpAudited, RateLimitAudited, AuthenticateAudited, HandleAudited, AuditAudited DEF Step
<1>3. CASE UNCHANGED <<req, audit, mutations, unaudited, effects>>
  BY <1>3 DEF AuditInv, Ledger, InFlight, IsAudited, Answerable, ToldApart, Done, TrueRow
<1>4. CASE (\E t \in Token : TokenExpires(t)) \/ UNCHANGED accessVars
  BY <1>3, <1>4 DEF TokenExpires, accessVars
<1> QED BY <1>1, <1>2, <1>4 DEF Next, vars

\* Every request that had to be audited is in the log once it is over, or its row
\* was refused by the database, however many handlers there are and whenever
\* their clients hang up; and a row that says success tells who did what.
THEOREM AccessIsAudited == Spec => []EveryMutationIsAudited
<1>1. Init => AuditInv
  <2> SUFFICES ASSUME Init PROVE AuditInv
    OBVIOUS
  <2>1. InFlight = {}
    BY DEF Init, InFlight, NoRequest
  <2>2. Ledger
    BY <2>1, FS_EmptySet DEF Init, Ledger
  <2>3. \A h \in Handler : Answerable(req[h])
    BY DEF Init, NoRequest, Answerable
  <2> QED BY <2>2, <2>3 DEF Init, AuditInv
<1>2. AccessInv /\ AuditInv /\ [Next]_vars => AuditInv'
  BY AuditStep
<1>3. AuditInv => EveryMutationIsAudited
  BY DEF AuditInv, Ledger, InFlight, TrueRow, EveryMutationIsAudited
<1> QED BY <1>1, <1>2, <1>3, AccessInductive, PTL DEF Spec
=============================================================================

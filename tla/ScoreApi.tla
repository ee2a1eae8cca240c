------------------------------ MODULE ScoreApi ------------------------------
(***************************************************************************)
(* ScoreService behind the routes of build_app, in several replicas.       *)
(*                                                                         *)
(* A handler runs on the event loop of its replica and does not wait, so a *)
(* replica serves one request at a time, and its calls of the shared       *)
(* repositories interleave with those of the others.  Every replica has a  *)
(* RateLimiter of its own.  Tokens are those of JwtVerifier; what happens  *)
(* to a job after it was queued, and the audit events of the workers, are  *)
(* in ScorePipeline.  The clocks of the replicas agree; those of the       *)
(* workers may be ahead.                                                   *)
(***************************************************************************)
EXTENDS RateLimiter, RecordStore, FiniteSets, Functions

CONSTANTS Replicas,    \* API processes
          Tokens,      \* Authorization headers: defect, tenant, scopes, exp
          Poller,      \* the token of a client that reads the audit log
          Deployment,  \* CCE_ENV is development, CCE_ALLOW_HS256, CCE_METRICS_TOKEN
          Ahead,       \* how far the clock of each worker is ahead
          Loads        \* bounds: jobs created, polls made, upserts begun, window resets

(* JwtVerifier refuses to be constructed outside of development, unless    *)
(* it is allowed explicitly.                                               *)
Constructible == Deployment.development \/ Deployment.allow_hs256

ASSUME ApiAssumption ==
    /\ IsFiniteSet(Replicas)
    /\ Keys = Replicas \X {t.tenant : t \in {u \in Tokens : "score:write" \in u.scopes}}
    /\ Poller \in Tokens
    /\ Deployment \in [development : BOOLEAN, allow_hs256 : BOOLEAN, metrics_token : BOOLEAN]
    /\ Constructible
    /\ Ahead \in [Workers -> Int]
    /\ Loads \subseteq [jobs : Nat, polls : Nat, upserts : Nat, windows : Nat]

VARIABLES load,     \* which bounds this behaviour has
          handling, \* each replica: the job of the create_score under way
          jobs,     \* rows of the jobs table, in the order of their creation
          audits,   \* rows of audit_events, in the order of their commits
          reply,    \* the response that the last step gave, if it gave one
          cursor,   \* the poller: the greatest ts it has seen,
          seen,     \* the events it has seen,
          overtaken \* observer: events stamped and not yet stored at some poll

api == <<handling, jobs, audits>>
poll == <<cursor, seen, overtaken>>
apiVars == <<vars, storeVars, load, api, reply, poll>>

Tenants == {t.tenant : t \in Tokens}

\* Tenants that reach the limiter.
Writers == {k[2] : k \in Keys}

Free == [stage |-> "free"]
NoReply == [status |-> 0]

-----------------------------------------------------------------------------
(* JwtVerifier.verify: a defect of the token, or its time is over.  A      *)
(* header that is not an object and an exp that is not a number raise      *)
(* something that is not an AuthError.                                     *)
AuthErrors == {"no bearer", "malformed", "alg", "signature", "issuer", "audience", "claims"}
OtherErrors == {"header not an object", "exp not a number"}

ASSUME TokenAssumption ==
    \A t \in Tokens : t.defect \in {"none"} \cup AuthErrors \cup OtherErrors /\ t.exp \in Int

\* Seeded bug: exp is not compared with the clock.
VerifyNoExpiry(token) ==
    CASE token.defect \in AuthErrors -> 401
      [] token.defect \in OtherErrors -> 500
      [] OTHER -> 200

Verify(token) ==
    CASE token.defect \in AuthErrors -> 401
      [] token.defect \in OtherErrors -> 500
      [] token.defect = "none" /\ token.exp < now -> 401
      [] OTHER -> 200

(* _principal and _check_scope: 200 when the request may go on. *)
Authorise(token, scope) ==
    IF Verify(token) # 200 THEN Verify(token)
    ELSE IF scope \notin token.scopes THEN 403 ELSE 200

ApiInit ==
    /\ Init
    /\ StoreInit
    /\ load \in Loads
    /\ handling = [r \in Replicas |-> Free]
    /\ jobs = << >>
    /\ audits = << >>
    /\ reply = NoReply
    /\ cursor = 0
    /\ seen = {}
    /\ overtaken = {}

(* A response: the route, its status, the token and the tenants of what it *)
(* carries.                                                                *)
Reply(route, status, token, tenants) ==
    reply' = [route |-> route, status |-> status, token |-> token, tenants |-> tenants]

-----------------------------------------------------------------------------
(* What is known of a POST before the limiter is asked: the body is parsed *)
(* before the token is looked at.                                          *)
Admission(token, body) ==
    IF body = "not json" THEN 500 ELSE Authorise(token, "score:write")

(* What a verified POST that is not accepted is answered with. *)
Refusal(key, body) ==
    IF Level(key) < Unit THEN 429 ELSE IF body = "bad" THEN 400 ELSE 500

\* Seeded bug: nobody looks at what the limiter says.
CreateScoreUnlimited(r, token, body) ==
    /\ handling[r] = Free /\ Len(jobs) < load.jobs
    /\ body = "good" /\ Authorise(token, "score:write") = 200
    /\ Allow(<<r, token.tenant>>)
    /\ handling' = [handling EXCEPT ![r] = [stage |-> "create", token |-> token]]
    /\ reply' = NoReply
    /\ UNCHANGED <<storeVars, load, jobs, audits, poll>>

(* POST /v1/scores up to the first repository call: the bucket is charged  *)
(* before the fields of the body are looked at.                            *)
CreateScore(r, token, body) ==
    /\ handling[r] = Free /\ Len(jobs) < load.jobs
    /\ LET status == Admission(token, body)
           key == <<r, token.tenant>>
       IN  IF status # 200
           THEN Reply("create", status, token, {}) /\ UNCHANGED <<vars, handling>>
           ELSE /\ Allow(key)
                /\ IF Level(key) >= Unit /\ body = "good"
                   THEN /\ handling' = [handling EXCEPT ![r] = [stage |-> "create",
                                                                token |-> token]]
                        /\ reply' = NoReply
                   ELSE /\ Reply("create", Refusal(key, body), token, {})
                        /\ UNCHANGED handling
    /\ UNCHANGED <<storeVars, load, jobs, audits, poll>>

(* jobs.create, and the event is built: it has its ts now. *)
CreateJob(r) ==
    /\ handling[r].stage = "create"
    /\ jobs' = Append(jobs, handling[r].token.tenant)
    /\ handling' = [handling EXCEPT ![r] =
           [stage |-> "append", token |-> handling[r].token, job |-> Len(jobs) + 1, ts |-> now]]
    /\ reply' = NoReply
    /\ UNCHANGED <<vars, storeVars, load, audits, poll>>

(* audits.append, the dispatcher (a queue put), and the response. *)
AppendAudit(r) ==
    /\ handling[r].stage = "append"
    /\ audits' = Append(audits, [target |-> handling[r].job, tenant |-> handling[r].token.tenant,
                                 ts |-> handling[r].ts])
    /\ Reply("create", 200, handling[r].token, {jobs[handling[r].job]})
    /\ handling' = [handling EXCEPT ![r] = Free]
    /\ UNCHANGED <<vars, storeVars, load, jobs, poll>>

(* A repository raises: 500, and what was stored before stays. *)
StorageRaises(r) ==
    /\ handling[r] # Free
    /\ Reply("create", 500, handling[r].token, {})
    /\ handling' = [handling EXCEPT ![r] = Free]
    /\ UNCHANGED <<vars, storeVars, load, jobs, audits, poll>>

(* The routes that only read have the same answer in every replica that is *)
(* free, and leave everything as it is but the response.                   *)
SomeFree == \E r \in Replicas : handling[r] = Free
Reads == UNCHANGED <<vars, storeVars, load, api, poll>>

(* GET /v1/scores/{job_id}; 0 is not a UUID.  A row that is not there, or  *)
(* not the tenant's, is the same 404.                                      *)
GetScore(token, job_id) ==
    /\ SomeFree
    /\ LET status == Authorise(token, "score:write")
       IN  IF status # 200 THEN Reply("job", status, token, {})
           ELSE IF job_id = 0 THEN Reply("job", 400, token, {})
           ELSE IF job_id <= Len(jobs) /\ jobs[job_id] = token.tenant
           THEN Reply("job", 200, token, {jobs[job_id]})
           ELSE Reply("job", 404, token, {})
    /\ Reads

(* GET /v1/records/{record_hash}; "no hash" does not have the form of one. *)
GetRecord(token, h) ==
    /\ SomeFree
    /\ LET status == Authorise(token, "records:read")
           final == Final(h)
       IN  IF status # 200 THEN Reply("record", status, token, {})
           ELSE IF h \notin Hashes THEN Reply("record", 400, token, {})
           ELSE IF final # << >> /\ final[1].tenant = token.tenant
           THEN Reply("record", 200, token, {final[1].tenant})
           ELSE Reply("record", 404, token, {})
    /\ Reads

\* Seeded bug: the events of the very moment are taken to be known already.
SinceAfter(ts, tenant) ==
    {i \in 1..Len(audits) : audits[i].ts > ts /\ audits[i].tenant = tenant}

(* AuditRepo.since *)
Since(ts, tenant) ==
    {i \in 1..Len(audits) : audits[i].ts >= ts /\ audits[i].tenant = tenant}

Later(ts, events) == {ts} \cup {audits[i].ts : i \in events}

(* GET /v1/audit?since=..., by anybody and from the beginning, ... *)
ListAudit(token) ==
    /\ SomeFree
    /\ IF Authorise(token, "audit:read") # 200
       THEN Reply("audit", Authorise(token, "audit:read"), token, {})
       ELSE Reply("audit", 200, token, {audits[i].tenant : i \in Since(0, token.tenant)})
    /\ Reads

\* ... and by a client that asks for what is new since the last event it has.
Poll ==
    /\ SomeFree /\ load.polls > 0
    /\ Authorise(Poller, "audit:read") = 200
    /\ LET events == Since(cursor, Poller.tenant)
           stamped == {q \in Replicas : handling[q].stage = "append"}
       IN  /\ Reply("audit", 200, Poller, {audits[i].tenant : i \in events})
           /\ seen' = seen \cup {audits[i].target : i \in events}
           /\ cursor' = CHOOSE ts \in Later(cursor, events) :
                           \A other \in Later(cursor, events) : other <= ts
           /\ overtaken' = overtaken \cup {handling[q].job : q \in stamped}
    /\ load' = [load EXCEPT !.polls = @ - 1]
    /\ UNCHANGED <<vars, storeVars, api>>

(* GET /metrics, with the right token or not; GET /healthz answers always. *)
Metrics(right) ==
    /\ SomeFree
    /\ LET status == IF Deployment.metrics_token THEN IF right THEN 200 ELSE 401
                     ELSE IF Deployment.development THEN 200 ELSE 503
       IN  Reply("metrics", status, [defect |-> IF right THEN "none" ELSE "malformed"], {})
    /\ Reads

-----------------------------------------------------------------------------
(* A worker has a result; its clock may be ahead. *)
StoreRecord(w, h, tenant) ==
    /\ load.upserts > 0
    /\ Upsert(w, h, tenant, now + Ahead[w])
    /\ load' = [load EXCEPT !.upserts = @ - 1]
    /\ reply' = NoReply
    /\ UNCHANGED <<vars, api, poll>>

StoreStep ==
    /\ \/ \E w \in Workers : InsertOk(w) \/ InsertRaises(w)
       \/ \E h \in Hashes : \E i \in 1..Len(rows[h]) : Merge(h, i)
    /\ reply' = NoReply
    /\ UNCHANGED <<vars, load, api, poll>>

ClockTicks ==
    /\ Tick
    /\ reply' = NoReply
    /\ UNCHANGED <<storeVars, load, api, poll>>

Watch(k) ==
    /\ load.windows > 0
    /\ Observe(k)
    /\ load' = [load EXCEPT !.windows = @ - 1]
    /\ reply' = NoReply
    /\ UNCHANGED <<storeVars, api, poll>>

Read ==
    \/ \E token \in Tokens :
          \/ \E job_id \in 0..Len(jobs) + 1 : GetScore(token, job_id)
          \/ \E h \in Hashes \cup {"no hash"} : GetRecord(token, h)
          \/ ListAudit(token)
    \/ Poll
    \/ \E right \in BOOLEAN : Metrics(right)

Bodies == {"good", "bad", "not json", "not an object"}

ApiNext ==
    \/ \E r \in Replicas : \/ \E token \in Tokens, body \in Bodies : CreateScore(r, token, body)
                           \/ CreateJob(r) \/ AppendAudit(r) \/ StorageRaises(r)
    \/ Read
    \/ \E w \in Workers, h \in Hashes, t \in Tenants : StoreRecord(w, h, t)
    \/ StoreStep
    \/ ClockTicks
    \/ \E k \in Keys : Watch(k)

ApiSpec == ApiInit /\ [][ApiNext]_apiVars

-----------------------------------------------------------------------------
(* Jobs of a tenant, with those that are admitted and not yet stored. *)
Stored(t) == {i \in 1..Len(jobs) : jobs[i] = t}
Creating(t) == {r \in Replicas : handling[r].stage = "create" /\ handling[r].token.tenant = t}
Admitted(t) == Cardinality(Stored(t)) + Cardinality(Creating(t))

(* What the bucket of a tenant in each replica has had to give so far. *)
Shares(t) == [r \in Replicas |-> Capacity[<<r, t>>] + now * Refill[<<r, t>>]]

(* The jobs a tenant gets accepted are bounded by the burst and the rate   *)
(* of one bucket per replica, whatever it sends to which replica and       *)
(* however the steps of the handlers interleave.                           *)
JobsWithinRate == \A t \in Writers : Admitted(t) * Unit <= SumFunction(Shares(t))

(* A request that is answered with 401 or 403 takes no token from anybody  *)
(* and stores nothing; an answer carries data of the caller's tenant only; *)
(* and it is given to a token that verifies and has the scope of the route *)
(* when it is read (a create_score may end after its token did).  Outside  *)
(* of development /metrics is answered to its own token only.              *)
ScopeOf == [create |-> "score:write", job |-> "score:write", record |-> "records:read",
            audit |-> "audit:read"]

AnswersWithinRights ==
    [][reply'.status # 0 =>
          IF reply'.route = "metrics"
          THEN reply'.status = 200 => Deployment.development \/ reply'.token.defect = "none"
          ELSE
          /\ reply'.status \in {401, 403} => UNCHANGED <<known, tokens, updated, api>>
          /\ reply'.tenants \subseteq {reply'.token.tenant}
          /\ reply'.status = 200 => /\ ScopeOf[reply'.route] \in reply'.token.scopes
                                    /\ reply'.token.defect = "none"
                                    /\ reply'.route # "create" => now <= reply'.token.exp
      ]_apiVars

(* A client that asks for the audit events since the last one it has may   *)
(* miss an event only if that event had its ts already, and was not stored *)
(* yet, when an earlier answer was given; events of one and the same       *)
(* moment are never lost.                                                  *)
MissedWereInFlight ==
    \A i \in 1..Len(audits) :
        audits[i].tenant = Poller.tenant /\ audits[i].ts < cursor /\ audits[i].target \notin seen
            => audits[i].target \in overtaken

-----------------------------------------------------------------------------
(* Not invariants: what comments say that the code does not do.            *)

(* "In production this is fronted by Redis (so multiple API workers share  *)
(* state)" (rate_limit.py:3): one bucket for all replicas.  Nothing under  *)
(* src/ does it; the limiter of ScoreService is the one in the process.    *)
SharedLimit ==
    \A t \in Writers : \A r \in Replicas :
        Admitted(t) * Unit <= Capacity[<<r, t>>] + now * Refill[<<r, t>>]

(* "Raised on any token-validation failure.  Maps to HTTP 401" (jwt.py:24, *)
(* of AuthError): a token that is not accepted is answered with 401.       *)
TokenFailuresAre401 ==
    \A token \in Tokens : token.defect # "none" => Verify(token) = 401

(* A client that polls the audit log sees every event. *)
PollerSeesAll ==
    \A i \in 1..Len(audits) :
        audits[i].tenant = Poller.tenant /\ audits[i].ts < cursor => audits[i].target \in seen

=============================================================================

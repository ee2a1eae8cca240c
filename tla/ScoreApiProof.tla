--------------------------- MODULE ScoreApiProof ---------------------------
(***************************************************************************)
(* The API, proved for every set of replicas and tokens and every load.    *)
(*                                                                         *)
(* First RateLimiter: its bound and its refinement of TokenBucket.  What   *)
(* is proved of one limiter holds for the limiters inside the API:         *)
(* whatever the handlers do between two calls of allow() is invisible to   *)
(* them.  A handler that is past its token carries what the token allowed  *)
(* (HandlersOK); from it follow the rights of the answers and what a       *)
(* client of the audit log can miss.  The records a client reads are those *)
(* of RecordStore, whose versions are compared with the latest one that    *)
(* was acknowledged (StoreOK).  The jobs that all replicas accept are      *)
(* bounded by a sum over their buckets (RateInv).                          *)
(***************************************************************************)
EXTENDS ScoreApi, Sums

-----------------------------------------------------------------------------
(* The limiter by itself, for every set of keys, capacity, rate and length *)
(* of run.                                                                 *)

(* One more tick, or one more request, adds one more share.                *)
LEMMA OneMore == \A a, b \in Int : (a + 1) * b = a * b + b
  OBVIOUS

LEMMA ProductIsNat == \A a, b \in Nat : a * b \in Nat
  OBVIOUS

(* A bucket is never above its capacity when a request is judged.          *)
LEMMA LevelRange ==
    ASSUME TypeOK, NEW k \in Keys
    PROVE  Level(k) \in Nat /\ Level(k) <= Capacity[k]
<1>1. now - updated[k] \in Nat /\ Refill[k] \in Nat /\ Capacity[k] \in Nat /\ tokens[k] \in Nat
  BY LimiterAssumption DEF TypeOK
<1>2. (now - updated[k]) * Refill[k] \in Nat
  BY <1>1, ProductIsNat
<1> QED BY <1>1, <1>2 DEF Level, Min2

(* What allow() leaves in the bucket it judged, and in the others.         *)
LEMMA LevelAfterAllow ==
    ASSUME TypeOK, NEW k \in Keys, Allow(k)
    PROVE  /\ Level(k)' = IF Level(k) >= Unit THEN Level(k) - Unit ELSE Level(k)
           /\ \A j \in Keys : j # k => Level(j)' = Level(j)
<1> DEFINE rest == IF Level(k) >= Unit THEN Level(k) - Unit ELSE Level(k)
<1>1. rest \in Nat /\ rest <= Capacity[k] /\ Capacity[k] \in Nat
  BY LevelRange, LimiterAssumption
<1>2. k \in known' /\ tokens'[k] = rest /\ updated'[k] = now /\ now' = now
  BY DEF Allow, TypeOK
<1>3. now \in Nat /\ Refill[k] \in Nat /\ (now - now) * Refill[k] = 0
  BY LimiterAssumption DEF TypeOK
<1>4. Level(k)' = Min2(Capacity[k], rest + (now - now) * Refill[k])
  BY <1>2 DEF Level
<1>5. Level(k)' = rest
  BY <1>1, <1>3, <1>4 DEF Min2
<1>6. \A j \in Keys : j # k => Level(j)' = Level(j)
  BY DEF Allow, Level, TypeOK
<1> QED BY <1>5, <1>6

(* What a tick adds to a bucket that nobody looks at.                      *)
LEMMA LevelAfterTick ==
    ASSUME TypeOK, NEW k \in Keys, Tick
    PROVE  Level(k)' = Min2(Capacity[k], Level(k) + Refill[k])
<1> DEFINE e == now - updated[k]
<1>1. e \in Nat /\ Refill[k] \in Nat /\ Capacity[k] \in Nat /\ tokens[k] \in Nat
  BY LimiterAssumption DEF TypeOK
<1>2. now' - updated'[k] = e + 1 /\ tokens' = tokens /\ known' = known
  BY DEF Tick, TypeOK
<1>3. (e + 1) * Refill[k] = e * Refill[k] + Refill[k] /\ e * Refill[k] \in Nat
  <2> HIDE DEF e
  <2>1. e \in Int /\ Refill[k] \in Int
    BY <1>1
  <2>2. (e + 1) * Refill[k] = e * Refill[k] + Refill[k]
    BY <2>1, OneMore, Zenon
  <2>3. e * Refill[k] \in Nat
    BY <1>1, ProductIsNat, Zenon
  <2> QED BY <2>2, <2>3
<1>4. CASE k \in known
  <2>1. Level(k)' = Min2(Capacity[k], tokens[k] + (e + 1) * Refill[k])
    BY <1>2, <1>4 DEF Level
  <2>2. Level(k) = Min2(Capacity[k], tokens[k] + e * Refill[k])
    BY <1>4 DEF Level
  <2> HIDE DEF e
  <2> QED BY <1>1, <1>3, <2>1, <2>2 DEF Min2
<1>5. CASE k \notin known
  BY <1>1, <1>2, <1>5 DEF Level, Min2
<1> QED BY <1>4, <1>5

(* Bucket contents, time stamps and the observer's counts stay in range.   *)
THEOREM TypeCorrect == Spec => []TypeOK
<1>1. Init => TypeOK
  BY LimiterAssumption DEF Init, TypeOK
<1>2. TypeOK /\ [Next]_vars => TypeOK'
  <2> SUFFICES ASSUME TypeOK, [Next]_vars PROVE TypeOK'
    OBVIOUS
  <2>1. ASSUME NEW k \in Keys, Allow(k) PROVE TypeOK'
    <3> DEFINE rest == IF Level(k) >= Unit THEN Level(k) - Unit ELSE Level(k)
    <3>1. rest \in Nat /\ rest <= Capacity[k]
      BY LevelRange, LimiterAssumption
    <3>2. tokens' = [tokens EXCEPT ![k] = rest]
      BY <2>1 DEF Allow
    <3> HIDE DEF rest
    <3>3. tokens' \in [Keys -> Nat] /\ \A j \in Keys : tokens'[j] <= Capacity[j]
      BY <3>1, <3>2 DEF TypeOK
    <3> QED BY <2>1, <3>3, LimiterAssumption DEF Allow, TypeOK
  <2>2. ASSUME NEW k \in Keys, Observe(k) PROVE TypeOK'
    BY <2>2 DEF Observe, TypeOK
  <2>3. CASE Tick
    BY <2>3, LimiterAssumption DEF Tick, TypeOK
  <2>4. CASE UNCHANGED vars
    BY <2>4 DEF vars, TypeOK
  <2> QED BY <2>1, <2>2, <2>3, <2>4 DEF Next
<1> QED BY <1>1, <1>2, PTL DEF Spec

(* No key ever gets more than its burst plus its rate, over any interval.  *)
(* The bound alone is not inductive: tokens that are still in the bucket   *)
(* can be spent at once, so they are counted with the granted ones         *)
(* (WindowInv).                                                            *)
THEOREM WindowBoundHolds == Spec => []WindowBound
<1> DEFINE Earned(k) == (now - start[k]) * Refill[k]
<1>t. ASSUME TypeOK, NEW k \in Keys
      PROVE  /\ Earned(k) \in Nat /\ granted[k] * Unit \in Nat
             /\ granted[k] \in Nat /\ Capacity[k] \in Nat /\ Refill[k] \in Nat
             /\ Unit \in Nat /\ Level(k) \in Nat /\ Level(k) <= Capacity[k]
  <2>1. /\ granted[k] \in Nat /\ Capacity[k] \in Nat /\ Refill[k] \in Nat
        /\ Unit \in Nat /\ now - start[k] \in Nat
    BY <1>t, LimiterAssumption DEF TypeOK
  <2> QED BY <1>t, <2>1, LevelRange, ProductIsNat
<1>1. Init => WindowInv
  <2> SUFFICES ASSUME Init, NEW k \in Keys
               PROVE  granted[k] * Unit + Level(k) <= Capacity[k] + (now - start[k]) * Refill[k]
    BY DEF WindowInv
  <2> QED BY LimiterAssumption DEF Init, Level
<1>2. TypeOK /\ WindowInv /\ [Next]_vars => WindowInv'
  <2> SUFFICES ASSUME TypeOK, WindowInv, [Next]_vars, NEW k \in Keys
               PROVE  (granted[k] * Unit + Level(k) <= Capacity[k] + Earned(k))'
    BY DEF WindowInv
  <2>0. granted[k] * Unit + Level(k) <= Capacity[k] + Earned(k)
    BY DEF WindowInv
  <2>1. ASSUME NEW j \in Keys, Allow(j)
        PROVE  (granted[k] * Unit + Level(k) <= Capacity[k] + Earned(k))'
    <3>1. Earned(k)' = Earned(k)
      BY <2>1 DEF Allow
    <3>2. CASE j # k
      <4>1. granted'[k] = granted[k] /\ Level(k)' = Level(k)
        BY <2>1, <3>2, LevelAfterAllow DEF Allow, TypeOK
      <4> QED BY <2>0, <3>1, <4>1
    <3>3. CASE j = k /\ Level(k) >= Unit
      <4>1. granted'[k] = granted[k] + 1 /\ Level(k)' = Level(k) - Unit
        BY <2>1, <3>3, LevelAfterAllow DEF Allow, TypeOK
      <4>2. (granted[k] + 1) * Unit = granted[k] * Unit + Unit
        BY <1>t, OneMore
      <4> HIDE DEF Earned
      <4> QED BY <1>t, <2>0, <3>1, <4>1, <4>2
    <3>4. CASE j = k /\ ~(Level(k) >= Unit)
      <4>1. granted'[k] = granted[k] /\ Level(k)' = Level(k)
        BY <2>1, <3>4, LevelAfterAllow DEF Allow, TypeOK
      <4> QED BY <2>0, <3>1, <4>1
    <3> QED BY <3>2, <3>3, <3>4
  <2>2. ASSUME NEW j \in Keys, Observe(j)
        PROVE  (granted[k] * Unit + Level(k) <= Capacity[k] + Earned(k))'
    <3>1. Level(k)' = Level(k)
      BY <2>2 DEF Observe, Level
    <3>2. CASE j # k
      <4>1. granted'[k] = granted[k] /\ Earned(k)' = Earned(k)
        BY <2>2, <3>2 DEF Observe, TypeOK
      <4> QED BY <2>0, <3>1, <4>1
    <3>3. CASE j = k
      <4>1. granted'[k] = 0 /\ Earned(k)' = (now - now) * Refill[k]
        BY <2>2, <3>3 DEF Observe, TypeOK
      <4>2. (now - now) * Refill[k] = 0 /\ 0 * Unit = 0
        BY <1>t DEF TypeOK
      <4> QED BY <1>t, <3>1, <4>1, <4>2
    <3> QED BY <3>2, <3>3
  <2>3. ASSUME Tick PROVE (granted[k] * Unit + Level(k) <= Capacity[k] + Earned(k))'
    <3>1. Level(k)' <= Level(k) + Refill[k] /\ Level(k)' \in Nat
      BY <1>t, <2>3, LevelAfterTick DEF Min2
    <3>2. Earned(k)' = (now - start[k] + 1) * Refill[k] /\ granted'[k] = granted[k]
      BY <2>3 DEF Tick, TypeOK
    <3>3. (now - start[k] + 1) * Refill[k] = Earned(k) + Refill[k]
      BY <1>t, OneMore DEF TypeOK
    <3> HIDE DEF Earned
    <3> QED BY <1>t, <2>0, <3>1, <3>2, <3>3
  <2>4. ASSUME UNCHANGED vars PROVE (granted[k] * Unit + Level(k) <= Capacity[k] + Earned(k))'
    BY <2>0, <2>4 DEF vars, Level
  <2> QED BY <2>1, <2>2, <2>3, <2>4 DEF Next
<1>3. TypeOK /\ WindowInv => WindowBound
  <2> SUFFICES ASSUME TypeOK, WindowInv, NEW k \in Keys
               PROVE  granted[k] * Unit <= Capacity[k] + Earned(k)
    BY DEF WindowBound
  <2>1. granted[k] * Unit + Level(k) <= Capacity[k] + Earned(k)
    BY DEF WindowInv
  <2> HIDE DEF Earned
  <2> QED BY <1>t, <2>1
<1> QED BY <1>1, <1>2, <1>3, TypeCorrect, PTL DEF Spec

(* Lazily filled buckets implement buckets that fill all the time: a call  *)
(* to allow() is TokenBucket's Admit or Deny, a tick is its Fill, and the  *)
(* observer is not seen.                                                   *)
THEOREM Refinement == Spec => ImplementsTokenBucket
<1> DEFINE level == [k \in Keys |-> Level(k)]
<1>1. Init => Ideal!Init
  BY LimiterAssumption DEF Init, Ideal!Init, Level
<1>2. TypeOK /\ [Next]_vars => [Ideal!Next]_<<level, answer>>
  <2> SUFFICES ASSUME TypeOK, [Next]_vars PROVE [Ideal!Next]_<<level, answer>>
    OBVIOUS
  <2>1. ASSUME NEW k \in Keys, Allow(k) PROVE Ideal!Next
    <3>1. \A j \in Keys : Level(j)' =
             IF j = k THEN (IF Level(k) >= Unit THEN Level(k) - Unit ELSE Level(k)) ELSE Level(j)
      BY <2>1, LevelAfterAllow
    <3>2. answer' = <<k, Level(k) >= Unit>>
      BY <2>1 DEF Allow
    <3>3. Level(k) \in Nat /\ Unit \in Nat
      BY LevelRange, LimiterAssumption
    <3>4. CASE Level(k) >= Unit
      <4>1. Ideal!Admit(k)
        BY <3>1, <3>2, <3>4 DEF Ideal!Admit
      <4> QED BY <4>1 DEF Ideal!Next
    <3>5. CASE ~(Level(k) >= Unit)
      <4>1. level[k] < Unit /\ UNCHANGED level
        BY <3>1, <3>3, <3>5
      <4>2. answer' = <<k, FALSE>>
        <5>1. (Level(k) >= Unit) = FALSE
          BY <3>3, <3>5
        <5> QED BY <3>2, <5>1, Zenon
      <4>3. Ideal!Deny(k)
        BY <4>1, <4>2 DEF Ideal!Deny
      <4> QED BY <4>3 DEF Ideal!Next
    <3> QED BY <3>4, <3>5
  <2>2. ASSUME NEW k \in Keys, Observe(k) PROVE UNCHANGED <<level, answer>>
    BY <2>2 DEF Observe, Level
  <2>3. CASE Tick
    <3>1. \A k \in Keys : Level(k)' = Min2(Capacity[k], Level(k) + Refill[k])
      BY <2>3, LevelAfterTick
    <3>2. answer' = answer
      BY <2>3 DEF Tick
    <3>3. Ideal!Fill
      BY <3>1, <3>2 DEF Ideal!Fill, Ideal!Min2, Min2
    <3> QED BY <3>3 DEF Ideal!Next
  <2>4. CASE UNCHANGED vars
    BY <2>4 DEF vars, Level
  <2> QED BY <2>1, <2>2, <2>3, <2>4 DEF Next
<1> QED BY <1>1, <1>2, TypeCorrect, PTL DEF Spec, ImplementsTokenBucket, Ideal!Spec

-----------------------------------------------------------------------------
(* The limiters inside the API.                                            *)

(* A token that may write has a bucket in every replica. *)
LEMMA WriterHasKey ==
    ASSUME NEW r \in Replicas, NEW token \in Tokens, "score:write" \in token.scopes
    PROVE  <<r, token.tenant>> \in Keys
  BY ApiAssumption

LEMMA AuthorisedHasScope ==
    ASSUME NEW token, NEW scope, Authorise(token, scope) = 200
    PROVE  scope \in token.scopes
<1>1. ASSUME scope \notin token.scopes, Verify(token) = 200 PROVE FALSE
  <2>1. Authorise(token, scope) = 403
    BY <1>1 DEF Authorise
  <2> QED BY <2>1
<1>2. Verify(token) = 200
  BY DEF Authorise
<1> QED BY <1>1, <1>2

LEMMA AdmittedHasScope ==
    ASSUME NEW token, NEW body, Admission(token, body) = 200
    PROVE  "score:write" \in token.scopes
<1>1. body # "not json"
  <2>1. SUFFICES ASSUME body = "not json" PROVE FALSE
    OBVIOUS
  <2>2. Admission(token, body) = 500
    BY <2>1 DEF Admission
  <2> QED BY <2>2
<1>2. Authorise(token, "score:write") = 200
  BY <1>1 DEF Admission
<1> QED BY <1>2, AuthorisedHasScope

(* create_score charges a bucket of the caller, or none. *)
LEMMA CreateScoreCharges ==
    ASSUME NEW r \in Replicas, NEW token \in Tokens, NEW body, CreateScore(r, token, body)
    PROVE  [Next]_vars
<1>1. CASE Admission(token, body) # 200
  <2>1. UNCHANGED <<vars, handling>>
    BY <1>1 DEF CreateScore
  <2> QED BY <2>1
<1>2. CASE Admission(token, body) = 200
  <2>1. Allow(<<r, token.tenant>>)
    BY <1>2 DEF CreateScore
  <2>2. "score:write" \in token.scopes
    BY <1>2, AdmittedHasScope
  <2>3. <<r, token.tenant>> \in Keys
    BY <2>2, WriterHasKey
  <2> QED BY <2>1, <2>3 DEF Next
<1> QED BY <1>1, <1>2

(* Every step of the API is a call of allow(), a tick of the clock, a new  *)
(* observation, or nothing to the limiters.                                *)
LEMMA ApiStep == ASSUME [ApiNext]_apiVars PROVE [Next]_vars
<1>1. CASE UNCHANGED apiVars
  BY <1>1 DEF apiVars
<1>2. ASSUME NEW r \in Replicas, NEW token \in Tokens, NEW body \in Bodies,
             CreateScore(r, token, body)
      PROVE  [Next]_vars
  BY <1>2, CreateScoreCharges
<1>3. ASSUME NEW r \in Replicas, CreateJob(r) \/ AppendAudit(r) \/ StorageRaises(r)
      PROVE  [Next]_vars
  BY <1>3 DEF CreateJob, AppendAudit, StorageRaises
<1>4. CASE Read
  BY <1>4 DEF Read, GetScore, GetRecord, ListAudit, Poll, Metrics, Reads
<1>5. ASSUME NEW w \in Workers, NEW h \in Hashes, NEW t \in Tenants, StoreRecord(w, h, t)
      PROVE  [Next]_vars
  BY <1>5 DEF StoreRecord
<1>6. CASE StoreStep
  BY <1>6 DEF StoreStep
<1>7. CASE ClockTicks
  BY <1>7 DEF ClockTicks, Next
<1>8. ASSUME NEW k \in Keys, Watch(k) PROVE [Next]_vars
  BY <1>8 DEF Watch, Next
<1> QED BY <1>1, <1>2, <1>3, <1>4, <1>5, <1>6, <1>7, <1>8 DEF ApiNext

(* The API implements the specification of its limiters: no handler grants *)
(* a request, fills a bucket or moves the clock but through RateLimiter.   *)
THEOREM ApiImplementsLimiter == ApiSpec => Spec
<1>1. ApiInit => Init
  BY DEF ApiInit
<1> QED BY <1>1, ApiStep, PTL DEF ApiSpec, Spec

(* So the tenants of the composed system get at most burst and rate from   *)
(* each replica in every window of time, ...                               *)
THEOREM ApiWindowBound == ApiSpec => []WindowBound
  BY ApiImplementsLimiter, WindowBoundHolds, PTL

(* ... and each limiter in it behaves as a bucket that is always filled.   *)
THEOREM ApiImplementsTokenBucket == ApiSpec => ImplementsTokenBucket
  BY ApiImplementsLimiter, Refinement, PTL

-----------------------------------------------------------------------------
(* Requests under way.                                                     *)

(* A handler past the admission serves a token that verified then and may  *)
(* write; once the job is stored its event has a time stamp that has been. *)
Writes(token) == /\ token \in Tokens
                 /\ token.defect = "none"
                 /\ "score:write" \in token.scopes

HandlerOK(r) ==
    \/ handling[r] = Free
    \/ handling[r].stage = "create" /\ Writes(handling[r].token)
    \/ /\ handling[r].stage = "append" /\ Writes(handling[r].token)
       /\ handling[r].job \in 1..Len(jobs)
       /\ jobs[handling[r].job] = handling[r].token.tenant
       /\ handling[r].ts \in Nat /\ handling[r].ts <= now

HandlersOK ==
    /\ now \in Nat
    /\ jobs \in Seq(Tenants)
    /\ handling = [r \in Replicas |-> handling[r]]
    /\ \A r \in Replicas : HandlerOK(r)

(* A step that touches no handler and no row of jobs.                      *)
LEMMA HandlersKept ==
    ASSUME HandlersOK, UNCHANGED <<handling, jobs>>, now' \in Nat, now <= now'
    PROVE  HandlersOK'
<1>1. \A r \in Replicas : HandlerOK(r)'
  <2> TAKE r \in Replicas
  <2>1. HandlerOK(r)
    BY DEF HandlersOK
  <2>2. handling[r].ts \in Nat /\ handling[r].ts <= now => handling[r].ts <= now'
    BY DEF HandlersOK
  <2> QED BY <2>1, <2>2 DEF HandlerOK
<1> QED BY <1>1 DEF HandlersOK

(* A token that verifies has no defect and has not expired.                *)
LEMMA VerifiedToken ==
    ASSUME NEW token \in Tokens, now \in Nat, Verify(token) = 200
    PROVE  token.defect = "none" /\ now <= token.exp
<1>1. token.defect \notin AuthErrors
  <2>1. ASSUME token.defect \in AuthErrors PROVE Verify(token) = 401
    BY <2>1 DEF Verify
  <2> QED BY <2>1
<1>2. token.defect \notin OtherErrors
  <2>1. ASSUME token.defect \in OtherErrors PROVE Verify(token) = 500
    BY <1>1, <2>1 DEF Verify
  <2> QED BY <2>1
<1>3. token.exp \in Int /\ token.defect = "none"
  BY <1>1, <1>2, TokenAssumption
<1>4. ~(token.exp < now)
  <2>1. ASSUME token.exp < now PROVE Verify(token) = 401
    BY <1>1, <1>2, <1>3, <2>1 DEF Verify
  <2> QED BY <2>1
<1> QED BY <1>3, <1>4

LEMMA AuthorisedToken ==
    ASSUME NEW token \in Tokens, NEW scope, now \in Nat, Authorise(token, scope) = 200
    PROVE  scope \in token.scopes /\ token.defect = "none" /\ now <= token.exp
<1>1. Verify(token) = 200
  BY DEF Authorise
<1> QED BY <1>1, VerifiedToken, AuthorisedHasScope

LEMMA AdmittedWrites ==
    ASSUME NEW token \in Tokens, NEW body, now \in Nat, Admission(token, body) = 200
    PROVE  Writes(token)
<1>1. body # "not json"
  <2>1. SUFFICES ASSUME body = "not json" PROVE FALSE
    OBVIOUS
  <2>2. Admission(token, body) = 500
    BY <2>1 DEF Admission
  <2> QED BY <2>2
<1>2. Authorise(token, "score:write") = 200
  BY <1>1 DEF Admission
<1> QED BY <1>2, AuthorisedToken DEF Writes

LEMMA HandlersNext == HandlersOK /\ [ApiNext]_apiVars => HandlersOK'
<1> SUFFICES ASSUME HandlersOK, [ApiNext]_apiVars PROVE HandlersOK'
  OBVIOUS
<1>0. /\ now \in Nat /\ jobs \in Seq(Tenants) /\ handling = [r \in Replicas |-> handling[r]]
      /\ \A r \in Replicas : HandlerOK(r)
  BY DEF HandlersOK
<1>1. ASSUME NEW r \in Replicas, NEW token \in Tokens, NEW body, CreateScore(r, token, body)
      PROVE  HandlersOK'
  <2>1. UNCHANGED <<now, jobs>>
    BY <1>1 DEF CreateScore, vars, Allow
  <2>2. CASE UNCHANGED handling
    BY <1>0, <2>1, <2>2, HandlersKept
  <2>3. CASE Admission(token, body) = 200
             /\ handling' = [handling EXCEPT ![r] = [stage |-> "create", token |-> token]]
    <3>1. Writes(token)
      BY <1>0, <2>3, AdmittedWrites
    <3>2. HandlerOK(r)'
      BY <1>0, <2>3, <3>1 DEF HandlerOK, Writes
    <3>3. \A q \in Replicas : q # r => HandlerOK(q)'
      BY <1>0, <2>1, <2>3 DEF HandlerOK
    <3> QED BY <1>0, <2>1, <2>3, <3>2, <3>3 DEF HandlersOK
  <2> QED BY <1>1, <2>2, <2>3 DEF CreateScore
<1>2. ASSUME NEW r \in Replicas, CreateJob(r) PROVE HandlersOK'
  <2> DEFINE h == [stage |-> "append", token |-> handling[r].token, job |-> Len(jobs) + 1,
                   ts |-> now]
  <2>1. /\ handling[r].stage = "create" /\ jobs' = Append(jobs, handling[r].token.tenant)
        /\ handling' = [handling EXCEPT ![r] = h] /\ now' = now
    BY <1>2 DEF CreateJob, vars
  <2>2. Writes(handling[r].token)
    BY <1>0, <2>1 DEF HandlerOK, Free
  <2>3. handling[r].token.tenant \in Tenants
    BY <2>2 DEF Writes, Tenants
  <2>4. /\ jobs' \in Seq(Tenants) /\ Len(jobs) \in Nat /\ Len(jobs') = Len(jobs) + 1
        /\ jobs'[Len(jobs) + 1] = handling[r].token.tenant
        /\ \A i \in 1..Len(jobs) : jobs'[i] = jobs[i]
    BY <1>0, <2>1, <2>3
  <2>5. HandlerOK(r)'
    BY <1>0, <2>1, <2>2, <2>4 DEF HandlerOK, Writes
  <2>6. \A q \in Replicas : q # r => HandlerOK(q)'
    BY <1>0, <2>1, <2>4 DEF HandlerOK
  <2> QED BY <1>0, <2>1, <2>4, <2>5, <2>6 DEF HandlersOK
<1>3. ASSUME NEW r \in Replicas, AppendAudit(r) \/ StorageRaises(r) PROVE HandlersOK'
  <2>1. handling' = [handling EXCEPT ![r] = Free] /\ UNCHANGED <<jobs, now>>
    BY <1>3 DEF AppendAudit, StorageRaises, vars
  <2>2. \A q \in Replicas : HandlerOK(q)'
    BY <1>0, <2>1 DEF HandlerOK
  <2> QED BY <1>0, <2>1, <2>2 DEF HandlersOK
<1>4. CASE Read \/ StoreStep \/ UNCHANGED apiVars
  <2>1. UNCHANGED <<handling, jobs, now>>
    BY <1>4 DEF Read, GetScore, GetRecord, ListAudit, Poll, Metrics, Reads, StoreStep, apiVars,
                api, vars
  <2> QED BY <1>0, <2>1, HandlersKept
<1>5. ASSUME NEW w, NEW h, NEW t, StoreRecord(w, h, t) PROVE HandlersOK'
  BY <1>0, <1>5, HandlersKept DEF StoreRecord, api, vars
<1>6. CASE ClockTicks
  <2>1. now' = now + 1 /\ UNCHANGED <<handling, jobs>>
    BY <1>6 DEF ClockTicks, Tick, api
  <2> QED BY <1>0, <2>1, HandlersKept
<1>7. ASSUME NEW k, Watch(k) PROVE HandlersOK'
  BY <1>0, <1>7, HandlersKept DEF Watch, Observe, api
<1> QED BY <1>1, <1>2, <1>3, <1>4, <1>5, <1>6, <1>7 DEF ApiNext

LEMMA HandlersHold == ApiSpec => []HandlersOK
<1>1. ApiInit => HandlersOK
  BY DEF ApiInit, Init, HandlersOK, HandlerOK
<1> QED BY <1>1, HandlersNext, PTL DEF ApiSpec

-----------------------------------------------------------------------------
(* The poller of the audit log.                                            *)

(* A set of naturals with an upper bound has a greatest element.           *)
LEMMA GreatestElement ==
    ASSUME NEW S \in SUBSET Nat, S # {}, NEW b \in Nat, \A x \in S : x <= b
    PROVE  \E x \in S : \A y \in S : y <= x
<1> DEFINE T == {b - x : x \in S}
<1>1. T \subseteq Nat /\ T # {}
  <2>1. \A x \in S : b - x \in Nat
    OBVIOUS
  <2>2. \E x \in S : b - x \in T
    OBVIOUS
  <2> QED BY <2>1, <2>2
<1>2. PICK m \in T : \A y \in T : ~(<<y, m>> \in OpToRel(<, Nat))
  BY <1>1, NatLessThanWellFounded, WFMin
<1>3. \A y \in T : ~(y < m)
  BY <1>1, <1>2 DEF OpToRel
<1>4. PICK x \in S : m = b - x
  OBVIOUS
<1>5. ASSUME NEW y \in S PROVE y <= x
  <2>1. ~(b - y < b - x)
    BY <1>3, <1>4
  <2> QED BY <2>1
<1> QED BY <1>5

Events == [target : Nat, tenant : Tenants, ts : Nat]

(* What the poller passed without having got it: an event that is stored   *)
(* now, or one whose handler has not stored it yet, was on its way at some *)
(* poll.                                                                   *)
PollOK ==
    /\ audits \in Seq(Events)
    /\ \A i \in 1..Len(audits) : audits[i].ts <= now
    /\ cursor \in Nat /\ cursor <= now
    /\ MissedWereInFlight
    /\ \A r \in Replicas : handling[r].stage = "append" /\ handling[r].ts < cursor =>
          handling[r].job \in overtaken

LEMMA PollNext == HandlersOK /\ PollOK /\ [ApiNext]_apiVars => PollOK'
<1> SUFFICES ASSUME HandlersOK, PollOK, [ApiNext]_apiVars PROVE PollOK'
  OBVIOUS
<1>0. /\ now \in Nat /\ handling = [r \in Replicas |-> handling[r]]
      /\ \A r \in Replicas : HandlerOK(r)
      /\ jobs \in Seq(Tenants) /\ Len(jobs) \in Nat
  BY DEF HandlersOK
<1>p. /\ audits \in Seq(Events) /\ Len(audits) \in Nat
      /\ \A i \in 1..Len(audits) : audits[i] \in Events /\ audits[i].ts \in Nat /\ audits[i].ts <= now
      /\ cursor \in Nat /\ cursor <= now
  <2>1. /\ audits \in Seq(Events) /\ cursor \in Nat /\ cursor <= now
        /\ \A i \in 1..Len(audits) : audits[i].ts <= now
    BY DEF PollOK
  <2>2. Len(audits) \in Nat /\ \A i \in 1..Len(audits) : audits[i] \in Events
    BY <2>1
  <2> QED BY <2>1, <2>2 DEF Events
<1>1. ASSUME UNCHANGED <<audits, cursor, seen, overtaken>>, now' \in Nat, now <= now',
             \A r \in Replicas : handling'[r].stage = "append" =>
                 handling'[r] = handling[r] \/ handling'[r].ts = now
      PROVE  PollOK'
  <2>1. \A i \in 1..Len(audits) : audits[i].ts <= now'
    BY <1>0, <1>1, <1>p
  <2>2. cursor <= now' /\ ~(now < cursor)
    BY <1>0, <1>1, <1>p
  <2>3. MissedWereInFlight'
    BY <1>1 DEF PollOK, MissedWereInFlight
  <2> QED BY <1>1, <2>1, <2>2, <2>3 DEF PollOK
<1>2. ASSUME NEW r \in Replicas, NEW token, NEW body, CreateScore(r, token, body) PROVE PollOK'
  <2>1. UNCHANGED <<audits, cursor, seen, overtaken, now>>
    BY <1>2 DEF CreateScore, poll, vars, Allow
  <2>2. handling' = handling \/ handling' = [handling EXCEPT ![r] = [stage |-> "create", token |-> token]]
    BY <1>2 DEF CreateScore
  <2>3. ASSUME NEW q \in Replicas, handling'[q].stage = "append" PROVE handling'[q] = handling[q]
    BY <1>0, <2>2, <2>3
  <2> QED BY <1>0, <1>1, <2>1, <2>3
<1>3. ASSUME NEW r \in Replicas, CreateJob(r) PROVE PollOK'
  <2>1. /\ UNCHANGED <<audits, cursor, seen, overtaken, now>>
        /\ handling'[r].ts = now /\ \A q \in Replicas : q # r => handling'[q] = handling[q]
    BY <1>0, <1>3 DEF CreateJob, poll, vars
  <2> QED BY <1>0, <1>1, <2>1
<1>4. ASSUME NEW r \in Replicas, AppendAudit(r) PROVE PollOK'
  <2> DEFINE e == [target |-> handling[r].job, tenant |-> handling[r].token.tenant,
                   ts |-> handling[r].ts]
  <2>1. /\ handling[r].stage = "append" /\ audits' = Append(audits, e)
        /\ handling' = [handling EXCEPT ![r] = Free]
        /\ UNCHANGED <<cursor, seen, overtaken, now>>
    BY <1>4 DEF AppendAudit, poll, vars
  <2>2. /\ Writes(handling[r].token) /\ handling[r].job \in Nat
        /\ handling[r].ts \in Nat /\ handling[r].ts <= now
    BY <1>0, <2>1 DEF HandlerOK, Free
  <2>3. e \in Events
    BY <2>2 DEF Events, Tenants, Writes
  <2>4. /\ audits' \in Seq(Events) /\ Len(audits') = Len(audits) + 1
        /\ audits'[Len(audits) + 1] = e
        /\ \A i \in 1..Len(audits) : audits'[i] = audits[i]
    BY <1>p, <2>1, <2>3
  <2>5. \A i \in 1..Len(audits') : i \in 1..Len(audits) \/ i = Len(audits) + 1
    BY <1>p, <2>4
  <2>6. e.ts < cursor => e.target \in overtaken
    BY <2>1 DEF PollOK
  <2>7. \A i \in 1..Len(audits') : audits'[i].ts <= now'
    BY <1>p, <2>1, <2>2, <2>4, <2>5
  <2> HIDE DEF e
  <2>8. MissedWereInFlight'
    BY <2>1, <2>4, <2>5, <2>6 DEF PollOK, MissedWereInFlight
  <2>9. ASSUME NEW q \in Replicas, handling'[q].stage = "append", handling'[q].ts < cursor
        PROVE  handling'[q].job \in overtaken
    <3>1. handling'[q] = handling[q]
      BY <1>0, <2>1, <2>9 DEF Free
    <3> QED BY <2>9, <3>1 DEF PollOK
  <2> QED BY <1>p, <2>1, <2>4, <2>7, <2>8, <2>9 DEF PollOK
<1>5. ASSUME NEW r \in Replicas, StorageRaises(r) PROVE PollOK'
  <2>1. /\ UNCHANGED <<audits, cursor, seen, overtaken, now>>
        /\ handling' = [handling EXCEPT ![r] = Free]
    BY <1>5 DEF StorageRaises, poll, vars
  <2>2. ASSUME NEW q \in Replicas, handling'[q].stage = "append" PROVE handling'[q] = handling[q]
    BY <1>0, <2>1, <2>2 DEF Free
  <2> QED BY <1>0, <1>1, <2>1, <2>2
<1>6. CASE Poll
  <2> DEFINE events == Since(cursor, Poller.tenant)
             L == Later(cursor, events)
  <2>1. /\ seen' = seen \cup {audits[i].target : i \in events}
        /\ cursor' = CHOOSE ts \in L : \A other \in L : other <= ts
        /\ overtaken' = overtaken \cup
               {handling[q].job : q \in {q \in Replicas : handling[q].stage = "append"}}
        /\ UNCHANGED <<now, handling, audits>>
    BY <1>6 DEF Poll, vars, api
  <2>2. events \subseteq 1..Len(audits)
    BY DEF Since
  <2>3. L \in SUBSET Nat /\ L # {} /\ cursor \in L /\ \A x \in L : x <= now
    BY <1>p, <2>2 DEF Later
  <2>4. \E x \in L : \A y \in L : y <= x
    BY <1>0, <2>3, GreatestElement
  <2>5. cursor' \in L /\ \A y \in L : y <= cursor'
    BY <2>1, <2>4
  <2>6. cursor' \in Nat /\ cursor' <= now'
    BY <2>1, <2>3, <2>5
  <2>7. ASSUME NEW i \in 1..Len(audits), audits[i].tenant = Poller.tenant,
               audits[i].target \notin seen'
        PROVE  audits[i].ts < cursor /\ audits[i].target \notin seen
    <3>1. i \notin events
      BY <2>1, <2>7
    <3>2. ~(audits[i].ts >= cursor)
      BY <2>7, <3>1 DEF Since
    <3>3. audits[i].ts < cursor
      BY <1>p, <3>2
    <3> QED BY <2>1, <2>7, <3>3
  <2>8. MissedWereInFlight'
    <3> SUFFICES ASSUME NEW i \in 1..Len(audits), audits[i].tenant = Poller.tenant,
                        audits[i].target \notin seen'
                 PROVE  audits[i].target \in overtaken'
      BY <2>1 DEF MissedWereInFlight
    <3>1. audits[i].target \in overtaken
      BY <2>7 DEF PollOK, MissedWereInFlight
    <3> QED BY <2>1, <3>1
  <2>9. \A r \in Replicas : handling[r].stage = "append" => handling[r].job \in overtaken'
    BY <2>1
  <2> QED BY <1>p, <2>1, <2>6, <2>8, <2>9 DEF PollOK
<1>7. ASSUME UNCHANGED <<handling, audits, cursor, seen, overtaken, now>> PROVE PollOK'
  BY <1>0, <1>1, <1>7
<1>8. ASSUME NEW token, NEW x, GetScore(token, x) \/ GetRecord(token, x) \/ ListAudit(token) \/ Metrics(x)
      PROVE  PollOK'
  BY <1>7, <1>8 DEF GetScore, GetRecord, ListAudit, Metrics, Reads, api, vars, poll
<1>9. CASE StoreStep \/ UNCHANGED apiVars
  BY <1>7, <1>9 DEF StoreStep, apiVars, api, vars, poll
<1>10. ASSUME NEW w, NEW h, NEW t, StoreRecord(w, h, t) PROVE PollOK'
  BY <1>7, <1>10 DEF StoreRecord, api, vars, poll
<1>11. CASE ClockTicks
  <2>1. now' = now + 1 /\ UNCHANGED <<handling, audits, cursor, seen, overtaken>>
    BY <1>11 DEF ClockTicks, Tick, api, poll
  <2> QED BY <1>0, <1>1, <2>1
<1>12. ASSUME NEW k, Watch(k) PROVE PollOK'
  BY <1>7, <1>12 DEF Watch, Observe, api, poll
<1> QED
  BY <1>2, <1>3, <1>4, <1>5, <1>6, <1>8, <1>9, <1>10, <1>11, <1>12 DEF ApiNext, Read

(* A client that polls the audit log by the time stamp of its last event   *)
(* misses only what had its stamp and was not stored yet at some poll,     *)
(* whatever the number of replicas, clients and events.                    *)
THEOREM MissedWereInFlightHolds == ApiSpec => []MissedWereInFlight
<1>1. ApiInit => PollOK
  <2> SUFFICES ASSUME ApiInit PROVE PollOK
    OBVIOUS
  <2>1. audits = << >> /\ cursor = 0 /\ now = 0 /\ handling = [r \in Replicas |-> Free]
    BY DEF ApiInit, Init
  <2>2. audits \in Seq(Events) /\ Len(audits) = 0
    BY <2>1
  <2> QED BY <2>1, <2>2 DEF PollOK, MissedWereInFlight, Free
<1>2. PollOK => MissedWereInFlight
  BY DEF PollOK
<1> QED BY <1>1, <1>2, PollNext, HandlersHold, PTL DEF ApiSpec

-----------------------------------------------------------------------------
(* The record store.                                                       *)

Row == [tenant : Tenants, created_at : Int]
RowOf(h, row) == [hash |-> h, tenant |-> row.tenant, created_at |-> row.created_at]

(* The row that is left when everything is merged: the newest, and of      *)
(* equal ones the one inserted last.                                       *)
IsTop(r, i) == /\ i \in 1..Len(r)
               /\ \A j \in 1..Len(r) : \/ r[j].created_at < r[i].created_at
                                       \/ r[j].created_at = r[i].created_at /\ j <= i

(* FINAL reads the top row.                                                *)
LEMMA FinalIsTop ==
    ASSUME NEW h, rows[h] \in Seq(Row), NEW i, IsTop(rows[h], i)
    PROVE  Final(h) = <<rows[h][i]>>
<1> DEFINE r == rows[h]
<1>1. DOMAIN r = 1..Len(r) /\ r # << >> /\ \A j \in 1..Len(r) : r[j].created_at \in Int
  <2>1. \A j \in 1..Len(r) : r[j] \in Row
    OBVIOUS
  <2> QED BY <2>1 DEF IsTop, Row
<1>2. ASSUME NEW k \in DOMAIN r,
             \A j \in DOMAIN r : \/ r[j].created_at < r[k].created_at
                                 \/ r[j].created_at = r[k].created_at /\ j <= k
      PROVE  k = i
  <2>1. k \in 1..Len(r) /\ i \in 1..Len(r)
    BY <1>1 DEF IsTop
  <2>2. \/ r[i].created_at < r[k].created_at
        \/ r[i].created_at = r[k].created_at /\ i <= k
    BY <1>1, <1>2, <2>1
  <2>3. \/ r[k].created_at < r[i].created_at
        \/ r[k].created_at = r[i].created_at /\ k <= i
    BY <2>1 DEF IsTop
  <2> QED BY <1>1, <2>1, <2>2, <2>3
<1>3. i = CHOOSE k \in DOMAIN r : \A j \in DOMAIN r :
              \/ r[j].created_at < r[k].created_at
              \/ r[j].created_at = r[k].created_at /\ j <= k
  BY <1>1, <1>2 DEF IsTop
<1> QED BY <1>1, <1>3 DEF Final

(* An insert leaves the top where it is or becomes it.                     *)
LEMMA InsertTop ==
    ASSUME NEW r \in Seq(Row), NEW row \in Row, NEW i, IsTop(r, i)
    PROVE  \E k : /\ IsTop(Append(r, row), k)
                  /\ Append(r, row)[k].created_at >= r[i].created_at
                  /\ Append(r, row)[k] \in {r[i], row}
<1> DEFINE s == Append(r, row)
<1>1. /\ Len(r) \in Nat /\ Len(s) = Len(r) + 1 /\ s[Len(r) + 1] = row
      /\ \A j \in 1..Len(r) : s[j] = r[j] /\ r[j] \in Row
  OBVIOUS
<1>2. /\ row.created_at \in Int /\ i \in 1..Len(r) /\ r[i].created_at \in Int
      /\ \A j \in 1..Len(r) : r[j].created_at \in Int
  BY <1>1 DEF Row, IsTop
<1>3. \A j \in 1..Len(s) : j \in 1..Len(r) \/ j = Len(r) + 1
  BY <1>1
<1> HIDE DEF s
<1>4. CASE row.created_at >= r[i].created_at
  <2>1. IsTop(s, Len(r) + 1)
    BY <1>1, <1>2, <1>3, <1>4 DEF IsTop
  <2> QED BY <1>1, <1>4, <2>1 DEF s
<1>5. CASE row.created_at < r[i].created_at
  <2>1. IsTop(s, i)
    BY <1>1, <1>2, <1>3, <1>5 DEF IsTop
  <2>2. s[i] = r[i]
    BY <1>1, <1>2
  <2> QED BY <1>2, <2>1, <2>2 DEF s
<1>6. row.created_at >= r[i].created_at \/ row.created_at < r[i].created_at
  BY <1>2
<1> QED BY <1>4, <1>5, <1>6, Zenon

(* The first row of a hash is its top.                                     *)
LEMMA FirstTop ==
    ASSUME NEW r \in Seq(Row), r = << >>, NEW row \in Row
    PROVE  IsTop(Append(r, row), 1) /\ Append(r, row)[1] = row
<1>1. Len(Append(r, row)) = 1 /\ Append(r, row)[1] = row
  OBVIOUS
<1> QED BY <1>1 DEF IsTop, Row

(* What a merge of the parts n and n + 1 leaves.                           *)
Merged(r, n) == ReplaceAt(RemoveAt(r, n + 1), n, Newer(r[n], r[n + 1]))

LEMMA MergedRows ==
    ASSUME NEW r \in Seq(Row), NEW n \in 1..Len(r), n + 1 <= Len(r)
    PROVE  /\ Merged(r, n) \in Seq(Row)
           /\ Len(Merged(r, n)) = Len(r) - 1
           /\ \A k \in 1..Len(r) - 1 :
                 Merged(r, n)[k] = IF k < n THEN r[k]
                                   ELSE IF k = n THEN Newer(r[n], r[n + 1]) ELSE r[k + 1]
<1> DEFINE m == RemoveAt(r, n + 1)
<1>0. Len(r) \in Nat /\ \A k \in 1..Len(r) : r[k] \in Row
  OBVIOUS
<1>1. /\ SubSeq(r, 1, n) \in Seq(Row) /\ Len(SubSeq(r, 1, n)) = n
      /\ \A k \in 1..n : SubSeq(r, 1, n)[k] = r[k]
  BY <1>0
<1>2. /\ SubSeq(r, n + 2, Len(r)) \in Seq(Row)
      /\ Len(SubSeq(r, n + 2, Len(r))) = Len(r) - n - 1
      /\ \A k \in 1..Len(r) - n - 1 : SubSeq(r, n + 2, Len(r))[k] = r[k + n + 1]
  BY <1>0
<1>3. m = SubSeq(r, 1, n) \o SubSeq(r, n + 2, Len(r))
  <2>1. n + 1 - 1 = n /\ n + 1 + 1 = n + 2
    BY <1>0
  <2> QED BY <2>1 DEF RemoveAt
<1> HIDE DEF m
<1>4. /\ m \in Seq(Row) /\ Len(m) = Len(r) - 1
      /\ \A k \in 1..Len(r) - 1 : m[k] = IF k <= n THEN r[k] ELSE r[k + 1]
  BY <1>0, <1>1, <1>2, <1>3
<1>5. Newer(r[n], r[n + 1]) \in Row
  BY <1>0 DEF Newer
<1>6. Merged(r, n) = [m EXCEPT ![n] = Newer(r[n], r[n + 1])]
  BY DEF Merged, ReplaceAt, m
<1> QED BY <1>0, <1>4, <1>5, <1>6

(* A merge changes nothing for a reader: the top row stays the top row.    *)
LEMMA MergeTop ==
    ASSUME NEW r \in Seq(Row), NEW n \in 1..Len(r), n + 1 <= Len(r), NEW i, IsTop(r, i)
    PROVE  \E k : IsTop(Merged(r, n), k) /\ Merged(r, n)[k] = r[i]
<1> DEFINE s == Merged(r, n)
<1>1. /\ Len(s) = Len(r) - 1 /\ Len(r) \in Nat
      /\ \A k \in 1..Len(r) - 1 : s[k] = IF k < n THEN r[k]
                                         ELSE IF k = n THEN Newer(r[n], r[n + 1]) ELSE r[k + 1]
  BY MergedRows
<1>2. i \in 1..Len(r) /\ \A j \in 1..Len(r) : r[j].created_at \in Int
  <2>1. \A j \in 1..Len(r) : r[j] \in Row
    OBVIOUS
  <2> QED BY <2>1 DEF IsTop, Row
<1> HIDE DEF s
<1>j. ASSUME NEW k \in 1..Len(s)
      PROVE  \E j \in 1..Len(r) : /\ s[k] = r[j]
                                  /\ \/ k < n /\ j = k
                                     \/ k = n /\ j \in {n, n + 1}
                                     \/ k > n /\ j = k + 1
  <2>1. CASE k < n
    <3>1. k \in 1..Len(r) /\ s[k] = r[k]
      BY <1>1, <2>1
    <3> QED BY <2>1, <3>1
  <2>2. CASE k = n
    BY <1>1, <2>2 DEF Newer
  <2>3. CASE k > n
    BY <1>1, <2>3
  <2> QED BY <1>1, <2>1, <2>2, <2>3
<1>3. CASE i < n
  <2>1. s[i] = r[i] /\ i \in 1..Len(s)
    BY <1>1, <1>2, <1>3
  <2>2. IsTop(s, i)
    <3>1. ASSUME NEW k \in 1..Len(s)
          PROVE  \/ s[k].created_at < s[i].created_at
                 \/ s[k].created_at = s[i].created_at /\ k <= i
      <4>1. PICK j \in 1..Len(r) : s[k] = r[j] /\ j >= k
        BY <1>1, <1>j, <3>1
      <4>2. \/ r[j].created_at < r[i].created_at
            \/ r[j].created_at = r[i].created_at /\ j <= i
        BY DEF IsTop
      <4> QED BY <1>1, <1>2, <2>1, <4>1, <4>2
    <3> QED BY <2>1, <3>1 DEF IsTop
  <2> QED BY <2>1, <2>2 DEF s
<1>4. CASE i \in {n, n + 1}
  <2>1. s[n] = r[i] /\ n \in 1..Len(s)
    <3>1. CASE i = n
      <4>1. r[n + 1].created_at < r[n].created_at
        BY <1>2, <3>1 DEF IsTop
      <4> QED BY <1>1, <1>2, <3>1, <4>1 DEF Newer
    <3>2. CASE i = n + 1
      <4>1. r[n + 1].created_at >= r[n].created_at
        BY <1>2, <3>2 DEF IsTop
      <4> QED BY <1>1, <1>2, <3>2, <4>1 DEF Newer
    <3> QED BY <1>4, <3>1, <3>2
  <2>2. IsTop(s, n)
    BY <1>2, <1>4, <1>j, <2>1 DEF IsTop
  <2> QED BY <2>1, <2>2 DEF s
<1>5. CASE i > n + 1
  <2>1. s[i - 1] = r[i] /\ i - 1 \in 1..Len(s)
    BY <1>1, <1>2, <1>5
  <2>2. IsTop(s, i - 1)
    BY <1>2, <1>5, <1>j, <2>1 DEF IsTop
  <2> QED BY <2>1, <2>2 DEF s
<1> QED BY <1>2, <1>3, <1>4, <1>5

(* Every hash that has rows has a top row, and only rows that some insert  *)
(* was called for are there.                                               *)
RowsOK ==
    /\ rows = [h \in Hashes |-> rows[h]]
    /\ \A h \in Hashes : /\ rows[h] \in Seq(Row)
                         /\ rows[h] = << >> \/ \E i : IsTop(rows[h], i)
                         /\ \A i \in 1..Len(rows[h]) : RowOf(h, rows[h][i]) \in attempted

StoreOK ==
    /\ RowsOK
    /\ upsert = [w \in Workers |-> upsert[w]]
    /\ \A w \in Workers : upsert[w] # Idle => /\ upsert[w].hash \in Hashes
                                              /\ upsert[w].row \in Row
                                              /\ Acked(upsert[w]) \in attempted
    /\ \A a \in acked :
          /\ a.hash \in Hashes /\ a.created_at \in Int
          /\ \E i : IsTop(rows[a.hash], i) /\ rows[a.hash][i].created_at >= a.created_at

(* The top row of a hash is replaced by a row that is not older.           *)
TopsGrow ==
    \A h \in Hashes : \A i : IsTop(rows[h], i) =>
        \E k : IsTop(rows'[h], k) /\ rows'[h][k].created_at >= rows[h][i].created_at

LEMMA TopIsRow ==
    ASSUME NEW r \in Seq(Row), NEW i, IsTop(r, i)
    PROVE  i \in 1..Len(r) /\ r[i] \in Row /\ r[i].created_at \in Int /\ r # << >>
<1>1. i \in 1..Len(r)
  BY DEF IsTop
<1>2. r[i] \in Row /\ r # << >>
  BY <1>1
<1> QED BY <1>1, <1>2 DEF Row

LEMMA RowsStay ==
    ASSUME RowsOK, rows' = rows
    PROVE  TopsGrow
<1> SUFFICES ASSUME NEW h \in Hashes, NEW i, IsTop(rows[h], i)
             PROVE  \E k : IsTop(rows'[h], k) /\ rows'[h][k].created_at >= rows[h][i].created_at
  BY DEF TopsGrow
<1>1. rows[h][i].created_at \in Int
  BY TopIsRow DEF RowsOK
<1>2. rows[h][i].created_at >= rows[h][i].created_at
  BY <1>1
<1> QED BY <1>2

LEMMA InsertGrows ==
    ASSUME StoreOK, NEW w \in Workers, upsert[w] # Idle, Inserted(upsert[w]),
           attempted' = attempted
    PROVE  /\ RowsOK' /\ TopsGrow
           /\ \E i : /\ IsTop(rows'[upsert[w].hash], i)
                     /\ rows'[upsert[w].hash][i].created_at >= upsert[w].row.created_at
<1>0. PICK g \in Hashes, row \in Row : g = upsert[w].hash /\ row = upsert[w].row
  BY DEF StoreOK
<1>1. RowOf(g, row) \in attempted
  BY <1>0 DEF StoreOK, Acked, RowOf
<1>2. /\ rows = [h \in Hashes |-> rows[h]] /\ rows[g] \in Seq(Row)
      /\ rows[g] = << >> \/ \E i : IsTop(rows[g], i)
      /\ \A i \in 1..Len(rows[g]) : RowOf(g, rows[g][i]) \in attempted
  BY DEF StoreOK, RowsOK
<1>3. /\ rows'[g] = Append(rows[g], row)
      /\ \A h \in Hashes : h # g => rows'[h] = rows[h]
      /\ rows' = [h \in Hashes |-> rows'[h]]
  BY <1>0, <1>2 DEF Inserted
<1>4. rows'[g] \in Seq(Row)
  BY <1>2, <1>3
<1>5. \A i \in 1..Len(rows'[g]) : RowOf(g, rows'[g][i]) \in attempted
  <2>1. /\ Len(rows[g]) \in Nat /\ Len(rows'[g]) = Len(rows[g]) + 1
        /\ rows'[g][Len(rows[g]) + 1] = row
        /\ \A i \in 1..Len(rows[g]) : rows'[g][i] = rows[g][i]
    BY <1>2, <1>3
  <2>2. \A i \in 1..Len(rows'[g]) : i \in 1..Len(rows[g]) \/ i = Len(rows[g]) + 1
    BY <2>1
  <2> QED BY <1>1, <1>2, <2>1, <2>2
<1>6. row.created_at \in Int
  BY DEF Row
<1>7. ASSUME NEW i, IsTop(rows[g], i)
      PROVE  \E k : IsTop(rows'[g], k) /\ rows'[g][k].created_at >= rows[g][i].created_at
  <2>1. \E k : /\ IsTop(Append(rows[g], row), k)
                /\ Append(rows[g], row)[k].created_at >= rows[g][i].created_at
    BY <1>2, <1>7, InsertTop
  <2> QED BY <1>3, <2>1
<1>8. \E i : IsTop(rows'[g], i) /\ rows'[g][i].created_at >= row.created_at
  <2>1. CASE rows[g] = << >>
    <3>1. IsTop(rows'[g], 1) /\ rows'[g][1] = row
      BY <1>2, <1>3, <2>1, FirstTop
    <3> QED BY <1>6, <3>1
  <2>2. ASSUME NEW i, IsTop(rows[g], i)
        PROVE  \E k : IsTop(rows'[g], k) /\ rows'[g][k].created_at >= row.created_at
    <3>1. PICK k : IsTop(rows'[g], k) /\ rows'[g][k].created_at >= rows[g][i].created_at
      BY <1>7, <2>2
    <3>2. Len(rows[g]) + 1 \in 1..Len(rows'[g]) /\ rows'[g][Len(rows[g]) + 1] = row
      BY <1>2, <1>3
    <3>3. \/ row.created_at < rows'[g][k].created_at
          \/ row.created_at = rows'[g][k].created_at
      BY <3>1, <3>2 DEF IsTop
    <3>4. rows'[g][k].created_at \in Int
      BY <1>4, <3>1, TopIsRow
    <3> QED BY <1>6, <3>1, <3>3, <3>4
  <2> QED BY <1>2, <2>1, <2>2
<1>9. TopsGrow
  <2> SUFFICES ASSUME NEW h \in Hashes, NEW i, IsTop(rows[h], i)
               PROVE  \E k : IsTop(rows'[h], k) /\ rows'[h][k].created_at >= rows[h][i].created_at
    BY DEF TopsGrow
  <2>1. CASE h = g
    BY <1>7, <2>1
  <2>2. CASE h # g
    <3>1. rows[h][i].created_at \in Int
      BY TopIsRow DEF StoreOK, RowsOK
    <3>2. rows[h][i].created_at >= rows[h][i].created_at
      BY <3>1
    <3> QED BY <1>3, <2>2, <3>2
  <2> QED BY <2>1, <2>2
<1>10. RowsOK'
  <2>1. \A h \in Hashes : h # g => /\ rows'[h] \in Seq(Row)
                                   /\ rows'[h] = << >> \/ \E i : IsTop(rows'[h], i)
                                   /\ \A i \in 1..Len(rows'[h]) : RowOf(h, rows'[h][i]) \in attempted
    BY <1>3 DEF StoreOK, RowsOK
  <2> QED BY <1>3, <1>4, <1>5, <1>8, <2>1 DEF RowsOK
<1> QED BY <1>0, <1>8, <1>9, <1>10

LEMMA MergeGrows ==
    ASSUME RowsOK, NEW g \in Hashes, NEW n \in 1..Len(rows[g]), Merge(g, n)
    PROVE  RowsOK' /\ TopsGrow
<1>1. /\ rows = [h \in Hashes |-> rows[h]] /\ rows[g] \in Seq(Row) /\ n + 1 <= Len(rows[g])
      /\ rows[g] = << >> \/ \E i : IsTop(rows[g], i)
      /\ \A i \in 1..Len(rows[g]) : RowOf(g, rows[g][i]) \in attempted
      /\ attempted' = attempted
  BY DEF RowsOK, Merge
<1>2. /\ rows'[g] = Merged(rows[g], n)
      /\ \A h \in Hashes : h # g => rows'[h] = rows[h]
      /\ rows' = [h \in Hashes |-> rows'[h]]
  BY <1>1 DEF Merge, Merged
<1>3. /\ rows'[g] \in Seq(Row) /\ Len(rows'[g]) = Len(rows[g]) - 1 /\ Len(rows[g]) \in Nat
      /\ \A k \in 1..Len(rows[g]) - 1 :
            rows'[g][k] = IF k < n THEN rows[g][k]
                          ELSE IF k = n THEN Newer(rows[g][n], rows[g][n + 1])
                          ELSE rows[g][k + 1]
  BY <1>1, <1>2, MergedRows
<1>4. \A i \in 1..Len(rows'[g]) : RowOf(g, rows'[g][i]) \in attempted
  <2>1. \A i \in 1..Len(rows'[g]) : \E j \in 1..Len(rows[g]) : rows'[g][i] = rows[g][j]
    <3> TAKE i \in 1..Len(rows'[g])
    <3>1. CASE i < n
      BY <1>3, <3>1
    <3>2. CASE i = n
      BY <1>1, <1>3, <3>2 DEF Newer
    <3>3. CASE i > n
      <4>1. i + 1 \in 1..Len(rows[g]) /\ rows'[g][i] = rows[g][i + 1]
        BY <1>3, <3>3
      <4> QED BY <4>1
    <3> QED BY <1>3, <3>1, <3>2, <3>3
  <2> QED BY <1>1, <2>1
<1>5. ASSUME NEW i, IsTop(rows[g], i)
      PROVE  \E k : IsTop(rows'[g], k) /\ rows'[g][k] = rows[g][i]
  BY <1>1, <1>2, <1>5, MergeTop
<1>6. RowsOK'
  <2>1. \A h \in Hashes : h # g => /\ rows'[h] \in Seq(Row)
                                   /\ rows'[h] = << >> \/ \E i : IsTop(rows'[h], i)
                                   /\ \A i \in 1..Len(rows'[h]) : RowOf(h, rows'[h][i]) \in attempted
    BY <1>2 DEF RowsOK
  <2>2. rows[g] # << >>
    BY <1>1, <1>3
  <2>3. \E i : IsTop(rows'[g], i)
    BY <1>1, <1>5, <2>2
  <2> QED BY <1>1, <1>2, <1>3, <1>4, <2>1, <2>3 DEF RowsOK
<1>7. TopsGrow
  <2> SUFFICES ASSUME NEW h \in Hashes, NEW i, IsTop(rows[h], i)
               PROVE  \E k : IsTop(rows'[h], k) /\ rows'[h][k].created_at >= rows[h][i].created_at
    BY DEF TopsGrow
  <2>1. rows[h][i].created_at \in Int
    BY TopIsRow DEF RowsOK
  <2>2. \E k : IsTop(rows'[h], k) /\ rows'[h][k] = rows[h][i]
    BY <1>2, <1>5
  <2>3. rows[h][i].created_at >= rows[h][i].created_at
    BY <2>1
  <2> QED BY <2>2, <2>3
<1> QED BY <1>6, <1>7

(* What the store has acknowledged stays acknowledged by a row not older.  *)
LEMMA AckedKept ==
    ASSUME StoreOK, RowsOK', TopsGrow, NEW a \in acked
    PROVE  /\ a.hash \in Hashes /\ a.created_at \in Int
           /\ \E i : IsTop(rows'[a.hash], i) /\ rows'[a.hash][i].created_at >= a.created_at
<1>1. a.hash \in Hashes /\ a.created_at \in Int
  BY DEF StoreOK
<1>2. PICK i : IsTop(rows[a.hash], i) /\ rows[a.hash][i].created_at >= a.created_at
  BY DEF StoreOK
<1>3. PICK k : IsTop(rows'[a.hash], k)
               /\ rows'[a.hash][k].created_at >= rows[a.hash][i].created_at
  BY <1>1, <1>2 DEF TopsGrow
<1>4. rows[a.hash][i].created_at \in Int /\ rows'[a.hash][k].created_at \in Int
  BY <1>1, <1>2, <1>3, TopIsRow DEF StoreOK, RowsOK
<1>5. rows'[a.hash][k].created_at >= a.created_at
  BY <1>1, <1>2, <1>3, <1>4
<1> QED BY <1>1, <1>3, <1>5

LEMMA StoreNext == HandlersOK /\ StoreOK /\ [ApiNext]_apiVars => StoreOK' /\ TopsGrow
<1> SUFFICES ASSUME HandlersOK, StoreOK, [ApiNext]_apiVars PROVE StoreOK' /\ TopsGrow
  OBVIOUS
<1>0. /\ RowsOK /\ upsert = [w \in Workers |-> upsert[w]]
      /\ \A w \in Workers : upsert[w] # Idle => /\ upsert[w].hash \in Hashes
                                                /\ upsert[w].row \in Row
                                                /\ Acked(upsert[w]) \in attempted
  BY DEF StoreOK
<1>1. ASSUME UNCHANGED storeVars PROVE StoreOK' /\ TopsGrow
  <2>1. UNCHANGED <<rows, upsert, attempted, acked>>
    BY <1>1 DEF storeVars
  <2>2. StoreOK'
    BY <2>1 DEF StoreOK, RowsOK
  <2> QED BY <1>0, <2>1, <2>2, RowsStay
<1>2. ASSUME NEW w \in Workers, NEW h \in Hashes, NEW t \in Tenants, StoreRecord(w, h, t)
      PROVE  StoreOK' /\ TopsGrow
  <2> DEFINE c == now + Ahead[w]
             row == [tenant |-> t, created_at |-> c]
             u == [attempt |-> 1, hash |-> h, row |-> row]
  <2>1. /\ upsert' = [upsert EXCEPT ![w] = u]
        /\ attempted' = attempted \cup {[hash |-> h, tenant |-> t, created_at |-> c]}
        /\ UNCHANGED <<rows, acked>>
    BY <1>2 DEF StoreRecord, Upsert
  <2>2. row \in Row
    BY ApiAssumption DEF Row, HandlersOK
  <2>3. u.hash = h /\ u.row = row /\ Acked(u) \in attempted'
    BY <2>1 DEF Acked
  <2>4. RowsOK'
    BY <1>0, <2>1 DEF RowsOK
  <2> HIDE DEF u, row
  <2>5. /\ upsert' = [v \in Workers |-> upsert'[v]]
        /\ \A v \in Workers : upsert'[v] # Idle => /\ upsert'[v].hash \in Hashes
                                                   /\ upsert'[v].row \in Row
                                                   /\ Acked(upsert'[v]) \in attempted'
    BY <1>0, <2>1, <2>2, <2>3
  <2>6. TopsGrow
    BY <1>0, <2>1, RowsStay
  <2>7. StoreOK'
    BY <2>1, <2>4, <2>5, <2>6, AckedKept DEF StoreOK
  <2> QED BY <2>6, <2>7
<1>3. ASSUME NEW w \in Workers, InsertOk(w) PROVE StoreOK' /\ TopsGrow
  <2>1. /\ upsert[w] # Idle /\ Inserted(upsert[w]) /\ attempted' = attempted
        /\ acked' = acked \cup {Acked(upsert[w])} /\ upsert' = [upsert EXCEPT ![w] = Idle]
    BY <1>3 DEF InsertOk
  <2>2. /\ RowsOK' /\ TopsGrow
        /\ \E i : /\ IsTop(rows'[upsert[w].hash], i)
                  /\ rows'[upsert[w].hash][i].created_at >= upsert[w].row.created_at
    BY <2>1, InsertGrows
  <2>3. /\ upsert' = [v \in Workers |-> upsert'[v]]
        /\ \A v \in Workers : upsert'[v] # Idle => upsert'[v] = upsert[v]
    BY <1>0, <2>1
  <2>4. /\ Acked(upsert[w]).hash = upsert[w].hash
        /\ Acked(upsert[w]).created_at = upsert[w].row.created_at
        /\ upsert[w].row.created_at \in Int /\ upsert[w].hash \in Hashes
    BY <1>0, <2>1 DEF Acked, Row
  <2>5. \A a \in acked' :
            /\ a.hash \in Hashes /\ a.created_at \in Int
            /\ \E i : IsTop(rows'[a.hash], i) /\ rows'[a.hash][i].created_at >= a.created_at
    <3> TAKE a \in acked'
    <3>1. CASE a \in acked
      BY <2>2, <3>1, AckedKept
    <3>2. CASE a = Acked(upsert[w])
      BY <2>2, <2>4, <3>2
    <3> QED BY <2>1, <3>1, <3>2
  <2> QED BY <1>0, <2>1, <2>2, <2>3, <2>5 DEF StoreOK
<1>4. ASSUME NEW w \in Workers, InsertRaises(w) PROVE StoreOK' /\ TopsGrow
  <2>1. /\ upsert[w] # Idle
        /\ Inserted(upsert[w]) \/ rows' = rows
        /\ UNCHANGED <<attempted, acked>>
        /\ \/ upsert' = [upsert EXCEPT ![w] = Idle]
           \/ upsert' = [upsert EXCEPT ![w] = [upsert[w] EXCEPT !.attempt = @ + 1]]
    BY <1>4 DEF InsertRaises
  <2>2. RowsOK' /\ TopsGrow
    <3>1. CASE rows' = rows
      BY <1>0, <2>1, <3>1, RowsStay DEF RowsOK
    <3>2. CASE Inserted(upsert[w])
      BY <1>4, <2>1, <3>2, InsertGrows DEF InsertRaises
    <3> QED BY <2>1, <3>1, <3>2
  <2>3. \A v \in Workers : v # w => upsert'[v] = upsert[v]
    BY <1>0, <2>1
  <2>4. upsert'[w] = Idle \/ upsert'[w] = [upsert[w] EXCEPT !.attempt = @ + 1]
    BY <1>0, <2>1
  <2>5. /\ [upsert[w] EXCEPT !.attempt = @ + 1].hash = upsert[w].hash
        /\ [upsert[w] EXCEPT !.attempt = @ + 1].row = upsert[w].row
    OBVIOUS
  <2>6. upsert' = [v \in Workers |-> upsert'[v]]
    BY <1>0, <2>1
  <2>7. \A v \in Workers : upsert'[v] # Idle => /\ upsert'[v].hash \in Hashes
                                                /\ upsert'[v].row \in Row
                                                /\ Acked(upsert'[v]) \in attempted
    BY <1>0, <2>1, <2>3, <2>4, <2>5 DEF Acked
  <2> QED BY <2>1, <2>2, <2>6, <2>7, AckedKept DEF StoreOK
<1>5. ASSUME NEW h \in Hashes, NEW i \in 1..Len(rows[h]), Merge(h, i) PROVE StoreOK' /\ TopsGrow
  <2>1. RowsOK' /\ TopsGrow
    BY <1>0, <1>5, MergeGrows
  <2>2. UNCHANGED <<upsert, attempted, acked>>
    BY <1>5 DEF Merge
  <2> QED BY <1>0, <2>1, <2>2, AckedKept DEF StoreOK
<1>6. CASE Read \/ ClockTicks \/ UNCHANGED apiVars
  BY <1>1, <1>6 DEF Read, GetScore, GetRecord, ListAudit, Poll, Metrics, Reads, ClockTicks, apiVars
<1>7. ASSUME NEW r \in Replicas, CreateJob(r) \/ AppendAudit(r) \/ StorageRaises(r)
      PROVE  StoreOK' /\ TopsGrow
  BY <1>1, <1>7 DEF CreateJob, AppendAudit, StorageRaises
<1>8. ASSUME NEW r \in Replicas, NEW token, NEW body, CreateScore(r, token, body)
      PROVE  StoreOK' /\ TopsGrow
  <2>1. UNCHANGED storeVars
    BY <1>8 DEF CreateScore
  <2> QED BY <1>1, <2>1
<1>9. ASSUME NEW k, Watch(k) PROVE StoreOK' /\ TopsGrow
  BY <1>1, <1>9 DEF Watch
<1> QED BY <1>2, <1>3, <1>4, <1>5, <1>6, <1>7, <1>8, <1>9 DEF ApiNext, StoreStep

LEMMA StoreHolds == ApiSpec => []StoreOK
<1>1. ApiInit => StoreOK
  <2> SUFFICES ASSUME ApiInit PROVE StoreOK
    OBVIOUS
  <2>1. /\ rows = [h \in Hashes |-> << >>] /\ upsert = [w \in Workers |-> Idle] /\ acked = {}
    BY DEF ApiInit, StoreInit
  <2>2. << >> \in Seq(Row) /\ Len(<< >>) = 0
    OBVIOUS
  <2>3. RowsOK
    BY <2>1, <2>2 DEF RowsOK
  <2> QED BY <2>1, <2>3 DEF StoreOK
<1>2. HandlersOK /\ StoreOK /\ [ApiNext]_apiVars => StoreOK'
  BY StoreNext
<1> QED BY <1>1, <1>2, HandlersHold, PTL DEF ApiSpec

(* An upsert that returned is found by every reader, or a record of the    *)
(* same hash that is not older; and hidden from its tenant only by one     *)
(* that somebody else stored.  For any number of workers, clocks that      *)
(* differ by any amount, lost answers, retries and merges.                 *)
THEOREM AckedUpsertVisibleHolds == ApiSpec => []AckedUpsertVisible
<1>1. StoreOK => AckedUpsertVisible
  <2> SUFFICES ASSUME StoreOK, NEW a \in acked
               PROVE  /\ Final(a.hash) # << >>
                      /\ Final(a.hash)[1].created_at >= a.created_at
                      /\ \/ Final(a.hash)[1].tenant = a.tenant
                         \/ \E b \in attempted : /\ b.hash = a.hash /\ b.tenant # a.tenant
                                                 /\ b.created_at >= a.created_at
    BY DEF AckedUpsertVisible
  <2>1. a.hash \in Hashes /\ rows[a.hash] \in Seq(Row)
    BY DEF StoreOK, RowsOK
  <2>2. PICK i : IsTop(rows[a.hash], i) /\ rows[a.hash][i].created_at >= a.created_at
    BY DEF StoreOK
  <2>3. Final(a.hash) = <<rows[a.hash][i]>>
    BY <2>1, <2>2, FinalIsTop
  <2>4. RowOf(a.hash, rows[a.hash][i]) \in attempted
    BY <2>1, <2>2, TopIsRow DEF StoreOK, RowsOK
  <2>5. Final(a.hash) # << >> /\ Final(a.hash)[1] = rows[a.hash][i]
    BY <2>3
  <2> QED BY <2>2, <2>4, <2>5 DEF RowOf
<1> QED BY <1>1, StoreHolds, PTL

(* What is read under a hash never becomes older and never disappears, by  *)
(* late inserts, retries, other clocks or merges.                          *)
THEOREM RecordNeverOlderHolds == ApiSpec => RecordNeverOlder
<1> DEFINE Tops == \A h \in Hashes : \A i :
                       rows[h] \in Seq(Row) /\ IsTop(rows[h], i) => Final(h) = <<rows[h][i]>>
<1>0. Tops
  BY FinalIsTop
<1>t. Tops'
  BY <1>0, PTL
<1>1. HandlersOK /\ StoreOK /\ StoreOK' /\ [ApiNext]_apiVars =>
        [\A h \in Hashes : Final(h) # << >> =>
            Final(h)' # << >> /\ Final(h)'[1].created_at >= Final(h)[1].created_at]_rows
  <2> SUFFICES ASSUME HandlersOK, StoreOK, StoreOK', [ApiNext]_apiVars,
                      NEW h \in Hashes, Final(h) # << >>
               PROVE  Final(h)' # << >> /\ Final(h)'[1].created_at >= Final(h)[1].created_at
    OBVIOUS
  <2>1. TopsGrow
    BY StoreNext
  <2>2. rows[h] \in Seq(Row) /\ rows'[h] \in Seq(Row)
    BY DEF StoreOK, RowsOK
  <2>3. rows[h] # << >>
    BY DEF Final
  <2>4. PICK i : IsTop(rows[h], i)
    BY <2>3 DEF StoreOK, RowsOK
  <2>5. PICK k : IsTop(rows'[h], k) /\ rows'[h][k].created_at >= rows[h][i].created_at
    BY <2>1, <2>4 DEF TopsGrow
  <2>6. Final(h) = <<rows[h][i]>>
    BY <2>2, <2>4, FinalIsTop
  <2>7. Final(h)' = <<rows'[h][k]>>
    BY <1>t, <2>2, <2>5
  <2> QED BY <2>5, <2>6, <2>7
<1> QED BY <1>1, StoreHolds, HandlersHold, PTL DEF ApiSpec, RecordNeverOlder

-----------------------------------------------------------------------------
(* Who is answered with what.                                              *)

(* What AnswersWithinRights asks of one step.                              *)
Rightful ==
    reply'.status # 0 =>
        IF reply'.route = "metrics"
        THEN reply'.status = 200 => Deployment.development \/ reply'.token.defect = "none"
        ELSE
        /\ reply'.status \in {401, 403} => UNCHANGED <<known, tokens, updated, api>>
        /\ reply'.tenants \subseteq {reply'.token.tenant}
        /\ reply'.status = 200 => /\ ScopeOf[reply'.route] \in reply'.token.scopes
                                  /\ reply'.token.defect = "none"
                                  /\ reply'.route # "create" => now <= reply'.token.exp

(* A response that carries data is one to a token that may have it; one    *)
(* that refuses leaves everything as it was.                               *)
LEMMA ReplyIsRightful ==
    ASSUME NEW route \in {"create", "job", "record", "audit"}, NEW status, NEW token, NEW tenants,
           Reply(route, status, token, tenants),
           status \in {401, 403} => UNCHANGED <<known, tokens, updated, api>>,
           tenants \subseteq {token.tenant},
           status = 200 => /\ ScopeOf[route] \in token.scopes /\ token.defect = "none"
                           /\ route # "create" => now <= token.exp
    PROVE  Rightful
<1>1. /\ reply'.route = route /\ reply'.status = status /\ reply'.token = token
      /\ reply'.tenants = tenants
  BY DEF Reply
<1>2. reply'.route # "metrics"
  BY <1>1
<1> QED BY <1>1, <1>2 DEF Rightful

(* The statuses a verified POST is refused with.                           *)
LEMMA RefusalStatus ==
    ASSUME NEW key, NEW body
    PROVE  Refusal(key, body) \notin {200, 401, 403}
BY DEF Refusal

LEMMA RightfulStep ==
    ASSUME HandlersOK, Poller \in Tokens, ApiNext
    PROVE  Rightful
<1>0. now \in Nat /\ \A r \in Replicas : HandlerOK(r)
  BY DEF HandlersOK
<1>n. ASSUME reply' = NoReply PROVE Rightful
  <2>1. reply'.status = 0
    BY <1>n DEF NoReply
  <2> QED BY <2>1 DEF Rightful
<1>1. ASSUME NEW r \in Replicas, NEW token \in Tokens, NEW body, CreateScore(r, token, body)
      PROVE  Rightful
  <2> DEFINE status == Admission(token, body)
             key == <<r, token.tenant>>
  <2>1. CASE status # 200
    <3>1. Reply("create", status, token, {}) /\ UNCHANGED <<known, tokens, updated, api>>
      BY <1>1, <2>1 DEF CreateScore, vars, api
    <3> HIDE DEF status
    <3> QED BY <2>1, <3>1, ReplyIsRightful
  <2>2. CASE status = 200 /\ reply' # NoReply
    <3>1. Reply("create", Refusal(key, body), token, {})
      BY <1>1, <2>2 DEF CreateScore
    <3>2. Refusal(key, body) \notin {200, 401, 403}
      BY RefusalStatus
    <3> QED BY <3>1, <3>2, ReplyIsRightful
  <2> QED BY <1>n, <2>1, <2>2
<1>2. ASSUME NEW r \in Replicas, AppendAudit(r) PROVE Rightful
  <2>1. /\ Reply("create", 200, handling[r].token, {jobs[handling[r].job]})
        /\ handling[r].stage = "append"
    BY <1>2 DEF AppendAudit
  <2>2. Writes(handling[r].token) /\ jobs[handling[r].job] = handling[r].token.tenant
    BY <1>0, <2>1 DEF HandlerOK, Free
  <2>3. ScopeOf["create"] = "score:write"
    BY DEF ScopeOf
  <2>4. /\ reply'.route = "create" /\ reply'.status = 200 /\ reply'.token = handling[r].token
        /\ reply'.tenants = {handling[r].token.tenant}
    BY <2>1, <2>2 DEF Reply
  <2> QED BY <2>2, <2>3, <2>4 DEF Rightful, Writes
<1>3. ASSUME NEW r \in Replicas, StorageRaises(r) PROVE Rightful
  <2>1. Reply("create", 500, handling[r].token, {})
    BY <1>3 DEF StorageRaises
  <2> QED BY <2>1, ReplyIsRightful
<1>4. ASSUME NEW route \in {"job", "record", "audit"}, NEW token \in Tokens, NEW tenants,
             Authorise(token, ScopeOf[route]) = 200, NEW status,
             Reply(route, status, token, tenants), status \notin {401, 403},
             tenants \subseteq {token.tenant}
      PROVE  Rightful
  <2>1. ScopeOf[route] \in token.scopes /\ token.defect = "none" /\ now <= token.exp
    BY <1>0, <1>4, AuthorisedToken
  <2> QED BY <1>4, <2>1, ReplyIsRightful
<1>5. ASSUME NEW route \in {"job", "record", "audit"}, NEW token, NEW status, Reads,
             Reply(route, status, token, {}), status # 200
      PROVE  Rightful
  <2>1. UNCHANGED <<known, tokens, updated, api>>
    BY <1>5 DEF Reads, vars
  <2> QED BY <1>5, <2>1, ReplyIsRightful
<1>s. /\ ScopeOf["job"] = "score:write" /\ ScopeOf["record"] = "records:read"
      /\ ScopeOf["audit"] = "audit:read"
  BY DEF ScopeOf
<1>6. ASSUME NEW token \in Tokens, NEW job_id, GetScore(token, job_id) PROVE Rightful
  <2>1. CASE Authorise(token, "score:write") # 200
    BY <1>5, <1>6, <2>1 DEF GetScore
  <2>2. CASE Authorise(token, "score:write") = 200
    <3>1. \/ Reply("job", 400, token, {}) \/ Reply("job", 404, token, {})
          \/ Reply("job", 200, token, {token.tenant})
      BY <1>6, <2>2 DEF GetScore
    <3> QED BY <1>4, <1>s, <2>2, <3>1
  <2> QED BY <2>1, <2>2
<1>7. ASSUME NEW token \in Tokens, NEW h, GetRecord(token, h) PROVE Rightful
  <2>1. CASE Authorise(token, "records:read") # 200
    BY <1>5, <1>7, <2>1 DEF GetRecord
  <2>2. CASE Authorise(token, "records:read") = 200
    <3>1. \/ Reply("record", 400, token, {}) \/ Reply("record", 404, token, {})
          \/ Reply("record", 200, token, {token.tenant})
      BY <1>7, <2>2 DEF GetRecord
    <3> QED BY <1>4, <1>s, <2>2, <3>1
  <2> QED BY <2>1, <2>2
<1>a. \A ts, tenant : {audits[i].tenant : i \in Since(ts, tenant)} \subseteq {tenant}
  BY DEF Since
<1>8. ASSUME NEW token \in Tokens, ListAudit(token) PROVE Rightful
  <2>1. CASE Authorise(token, "audit:read") # 200
    BY <1>5, <1>8, <2>1 DEF ListAudit
  <2>2. CASE Authorise(token, "audit:read") = 200
    <3>1. Reply("audit", 200, token, {audits[i].tenant : i \in Since(0, token.tenant)})
      BY <1>8, <2>2 DEF ListAudit
    <3>2. PICK tenants : tenants = {audits[i].tenant : i \in Since(0, token.tenant)}
      OBVIOUS
    <3>3. Reply("audit", 200, token, tenants) /\ tenants \subseteq {token.tenant}
      BY <1>a, <3>1, <3>2
    <3>4. Authorise(token, ScopeOf["audit"]) = 200
      BY <1>s, <2>2
    <3> QED BY <1>4, <3>3, <3>4
  <2> QED BY <2>1, <2>2
<1>9. CASE Poll
  <2>1. /\ Authorise(Poller, "audit:read") = 200
        /\ Reply("audit", 200, Poller, {audits[i].tenant : i \in Since(cursor, Poller.tenant)})
    BY <1>9 DEF Poll
  <2>2. PICK tenants : tenants = {audits[i].tenant : i \in Since(cursor, Poller.tenant)}
    OBVIOUS
  <2>3. tenants \subseteq {Poller.tenant}
    BY <1>a, <2>2
  <2>4. Reply("audit", 200, Poller, tenants)
    BY <2>1, <2>2
  <2>5. Authorise(Poller, ScopeOf["audit"]) = 200
    BY <1>s, <2>1
  <2> QED BY <1>4, <2>3, <2>4, <2>5
<1>10. ASSUME NEW right \in BOOLEAN, Metrics(right) PROVE Rightful
  <2>1. /\ reply'.route = "metrics"
        /\ reply'.status = IF Deployment.metrics_token THEN IF right THEN 200 ELSE 401
                           ELSE IF Deployment.development THEN 200 ELSE 503
        /\ reply'.token.defect = IF right THEN "none" ELSE "malformed"
    BY <1>10 DEF Metrics, Reply
  <2>2. CASE right
    BY <2>1, <2>2 DEF Rightful
  <2>3. CASE ~right
    BY <2>1, <2>3 DEF Rightful
  <2> QED BY <2>2, <2>3
<1>11. ASSUME NEW r \in Replicas, CreateJob(r) PROVE Rightful
  BY <1>n, <1>11 DEF CreateJob
<1>12. ASSUME NEW w, NEW h, NEW t, StoreRecord(w, h, t) PROVE Rightful
  BY <1>n, <1>12 DEF StoreRecord
<1>13. CASE StoreStep \/ ClockTicks \/ \E k \in Keys : Watch(k)
  BY <1>n, <1>13 DEF StoreStep, ClockTicks, Watch
<1> QED
  BY <1>1, <1>2, <1>3, <1>6, <1>7, <1>8, <1>9, <1>10, <1>11, <1>12, <1>13 DEF ApiNext, Read

(* Every answer goes to a token that verified and has the scope of the     *)
(* route, and carries data of its own tenant only; a request that is       *)
(* refused with 401 or 403 charges no bucket and stores nothing.           *)
THEOREM AnswersWithinRightsHolds == ApiSpec => AnswersWithinRights
<1>1. HandlersOK /\ [ApiNext]_apiVars => [Rightful]_apiVars
  BY RightfulStep, ApiAssumption
<1> QED BY <1>1, HandlersHold, PTL DEF ApiSpec, AnswersWithinRights, Rightful

-----------------------------------------------------------------------------
(* The jobs of a tenant.                                                   *)

(* The bound alone is not inductive: what is left in the buckets of the    *)
(* replicas may still be spent.                                            *)
Levels(t) == [r \in Replicas |-> Level(<<r, t>>)]
RateInv == \A t \in Writers :
               Admitted(t) * Unit + SumFunction(Levels(t)) <= SumFunction(Shares(t))

LEMMA WriterKeys ==
    ASSUME NEW t \in Writers, NEW r \in Replicas
    PROVE  <<r, t>> \in Keys
  BY ApiAssumption DEF Writers

(* What is summed is numbers, over the replicas.                           *)
LEMMA ShareFacts ==
    ASSUME TypeOK, NEW t \in Writers
    PROVE  /\ IsFiniteSet(Replicas) /\ Unit \in Nat
           /\ \A r \in Replicas : /\ Levels(t)[r] = Level(<<r, t>>)
                                  /\ Levels(t)[r] \in Int
                                  /\ Shares(t)[r] = Capacity[<<r, t>>] + now * Refill[<<r, t>>]
                                  /\ Shares(t)[r] \in Int
                                  /\ Refill[<<r, t>>] \in Nat
           /\ SumFunction(Levels(t)) = SumFunctionOnSet(Levels(t), Replicas)
           /\ SumFunction(Shares(t)) = SumFunctionOnSet(Shares(t), Replicas)
           /\ SumFunction(Levels(t)) \in Int
           /\ SumFunction(Shares(t)) \in Int
<1>1. IsFiniteSet(Replicas) /\ Unit \in Nat
  BY ApiAssumption, LimiterAssumption
<1>2. ASSUME NEW r \in Replicas
      PROVE  /\ Levels(t)[r] = Level(<<r, t>>) /\ Levels(t)[r] \in Int
             /\ Shares(t)[r] = Capacity[<<r, t>>] + now * Refill[<<r, t>>]
             /\ Shares(t)[r] \in Int /\ Refill[<<r, t>>] \in Nat
  <2>1. <<r, t>> \in Keys
    BY WriterKeys
  <2>2. Level(<<r, t>>) \in Nat /\ now \in Nat
    BY <2>1, LevelRange, LimiterAssumption DEF TypeOK
  <2>3. Capacity[<<r, t>>] \in Nat /\ Refill[<<r, t>>] \in Nat
    BY <2>1, LimiterAssumption
  <2>4. now * Refill[<<r, t>>] \in Nat
    BY <2>2, <2>3, ProductIsNat
  <2> QED BY <2>2, <2>3, <2>4 DEF Levels, Shares
<1>3. /\ SumFunction(Levels(t)) = SumFunctionOnSet(Levels(t), Replicas)
      /\ SumFunction(Shares(t)) = SumFunctionOnSet(Shares(t), Replicas)
  <2>1. DOMAIN Levels(t) = Replicas /\ DOMAIN Shares(t) = Replicas
    BY DEF Levels, Shares
  <2> QED BY <2>1 DEF SumFunction
<1>4. /\ SumFunctionOnSet(Levels(t), Replicas) \in Int
      /\ SumFunctionOnSet(Shares(t), Replicas) \in Int
  BY <1>1, <1>2, SumType
<1> QED BY <1>1, <1>2, <1>3, <1>4

(* The sets that are counted are finite.                                   *)
LEMMA AdmittedIsNat ==
    ASSUME HandlersOK, NEW t
    PROVE  /\ IsFiniteSet(Stored(t)) /\ IsFiniteSet(Creating(t))
           /\ Cardinality(Stored(t)) \in Nat /\ Cardinality(Creating(t)) \in Nat
           /\ Admitted(t) \in Nat
<1>1. Len(jobs) \in Nat
  BY DEF HandlersOK
<1>2. IsFiniteSet(1..Len(jobs))
  BY <1>1, FS_Interval
<1>3. IsFiniteSet(Stored(t))
  <2>1. Stored(t) \in SUBSET (1..Len(jobs))
    BY DEF Stored
  <2> QED BY <1>2, <2>1, FS_Subset
<1>4. IsFiniteSet(Creating(t))
  <2>1. Creating(t) \in SUBSET Replicas
    BY DEF Creating
  <2> QED BY <2>1, ApiAssumption, FS_Subset
<1> QED BY <1>3, <1>4, FS_CardinalityType DEF Admitted

LEMMA FewerUnits == \A a, b, c \in Nat : a <= b => a * c \in Nat /\ b * c \in Nat /\ a * c <= b * c
<1> SUFFICES ASSUME NEW a \in Nat, NEW b \in Nat, NEW c \in Nat, a <= b
             PROVE  a * c \in Nat /\ b * c \in Nat /\ a * c <= b * c
  OBVIOUS
<1>1. b - a \in Nat /\ (b - a) * c \in Nat /\ a * c \in Nat /\ b * c \in Nat
  BY ProductIsNat
<1>2. (b - a) * c = b * c - a * c
  OBVIOUS
<1> QED BY <1>1, <1>2

(* A step that admits nothing and touches neither a bucket nor the clock.  *)
LEMMA RateKept ==
    ASSUME TypeOK, HandlersOK, RateInv, UNCHANGED <<now, known, tokens, updated>>,
           \A t \in Writers : Admitted(t)' \in Nat /\ Admitted(t)' <= Admitted(t)
    PROVE  RateInv'
<1> SUFFICES ASSUME NEW t \in Writers
             PROVE  (Admitted(t) * Unit + SumFunction(Levels(t)) <= SumFunction(Shares(t)))'
  BY DEF RateInv, Writers
<1>1. Levels(t)' = Levels(t) /\ Shares(t)' = Shares(t)
  BY DEF Levels, Shares, Level
<1>2. Admitted(t)' \in Nat /\ Admitted(t)' <= Admitted(t) /\ Admitted(t) \in Nat /\ Unit \in Nat
  BY AdmittedIsNat, LimiterAssumption
<1>3. /\ Admitted(t)' * Unit \in Nat /\ Admitted(t) * Unit \in Nat
      /\ Admitted(t)' * Unit <= Admitted(t) * Unit
  BY <1>2, FewerUnits
<1>4. /\ SumFunction(Levels(t)) \in Int /\ SumFunction(Shares(t)) \in Int
      /\ Admitted(t) * Unit + SumFunction(Levels(t)) <= SumFunction(Shares(t))
  BY ShareFacts DEF RateInv
<1> QED BY <1>1, <1>3, <1>4

(* A tenant that is not concerned has as many jobs as before.              *)
LEMMA AdmittedSame ==
    ASSUME HandlersOK, UNCHANGED <<handling, jobs>>, NEW t
    PROVE  Admitted(t)' = Admitted(t) /\ Admitted(t)' \in Nat
<1>1. Admitted(t)' = Admitted(t)
  BY DEF Admitted, Stored, Creating
<1> QED BY <1>1, AdmittedIsNat

(* allow() takes the unit that an admitted job costs; a request that is    *)
(* refused after it has paid costs as much.                                *)
LEMMA RateAllow ==
    ASSUME TypeOK, HandlersOK, RateInv, NEW r \in Replicas, NEW s \in Writers, Allow(<<r, s>>),
           \A t \in Writers : Admitted(t)' \in {Admitted(t),
               IF t = s /\ Level(<<r, s>>) >= Unit THEN Admitted(t) + 1 ELSE Admitted(t)}
    PROVE  RateInv'
<1> SUFFICES ASSUME NEW t \in Writers
             PROVE  (Admitted(t) * Unit + SumFunction(Levels(t)) <= SumFunction(Shares(t)))'
  BY DEF RateInv, Writers
<1> DEFINE k == <<r, s>>
<1>0. k \in Keys /\ Level(k) \in Nat /\ Unit \in Nat /\ Admitted(t) \in Nat
  BY WriterKeys, LevelRange, LimiterAssumption, AdmittedIsNat
<1>1. Shares(t)' = Shares(t)
  BY DEF Shares, Allow
<1>2. \A q \in Replicas : Levels(t)'[q] = Level(<<q, t>>)'
  BY DEF Levels
<1>3. \A q \in Replicas : <<q, t>> # k => Levels(t)'[q] = Levels(t)[q]
  BY <1>0, <1>2, LevelAfterAllow, ShareFacts, WriterKeys
<1>4. SumFunction(Levels(t)') = SumFunctionOnSet(Levels(t)', Replicas)
  <2>1. DOMAIN Levels(t)' = Replicas
    BY DEF Levels
  <2> QED BY <2>1 DEF SumFunction
<1>5. Admitted(t) * Unit + SumFunction(Levels(t)) <= SumFunction(Shares(t))
  BY DEF RateInv
<1>6. CASE t # s \/ ~(Level(k) >= Unit)
  <2>1. \A q \in Replicas : Levels(t)'[q] = Levels(t)[q]
    BY <1>0, <1>2, <1>3, <1>6, LevelAfterAllow, ShareFacts
  <2>2. Levels(t)' = Levels(t)
    BY <2>1 DEF Levels
  <2>3. Admitted(t)' = Admitted(t)
    BY <1>6
  <2> QED BY <1>1, <1>5, <2>2, <2>3
<1>7. CASE t = s /\ Level(k) >= Unit
  <2>1. Levels(t)'[r] = Levels(t)[r] - Unit
    BY <1>0, <1>2, <1>7, LevelAfterAllow, ShareFacts
  <2>2. \A q \in Replicas \ {r} : Levels(t)'[q] = Levels(t)[q]
    BY <1>3
  <2>3. \A q \in Replicas : Levels(t)'[q] \in Int /\ Levels(t)[q] \in Int
    <3>1. \A q \in Replicas : Levels(t)[q] \in Int
      BY ShareFacts
    <3>2. \A q \in Replicas : q = r \/ q \in Replicas \ {r}
      OBVIOUS
    <3> QED BY <1>0, <2>1, <2>2, <3>1, <3>2
  <2>4. SumFunctionOnSet(Levels(t)', Replicas)
          = SumFunctionOnSet(Levels(t), Replicas) + (Levels(t)'[r] - Levels(t)[r])
    BY <2>2, <2>3, ShareFacts, SumChange
  <2>5. SumFunction(Levels(t)') = SumFunction(Levels(t)) - Unit
    BY <1>0, <1>4, <2>1, <2>3, <2>4, ShareFacts
  <2>6. /\ Admitted(t)' \in {Admitted(t), Admitted(t) + 1}
        /\ (Admitted(t) + 1) * Unit = Admitted(t) * Unit + Unit
    BY <1>0, <1>7, OneMore
  <2>7. Admitted(t) * Unit \in Nat /\ SumFunction(Levels(t)) \in Int /\ SumFunction(Shares(t)) \in Int
    BY <1>0, ProductIsNat, ShareFacts
  <2> QED BY <1>0, <1>1, <1>5, <2>5, <2>6, <2>7
<1> QED BY <1>6, <1>7

(* A tick adds to a bucket at most what it adds to its share.              *)
LEMMA RateTick ==
    ASSUME TypeOK, HandlersOK, RateInv, Tick, UNCHANGED <<handling, jobs>>
    PROVE  RateInv'
<1> SUFFICES ASSUME NEW t \in Writers
             PROVE  (Admitted(t) * Unit + SumFunction(Levels(t)) <= SumFunction(Shares(t)))'
  BY DEF RateInv, Writers
<1> DEFINE R == [r \in Replicas |-> Refill[<<r, t>>]]
           H == [r \in Replicas |-> Levels(t)[r] + R[r]]
<1>0. now \in Nat /\ now' = now + 1
  BY LimiterAssumption DEF TypeOK, Tick
<1>1. \A r \in Replicas : /\ R[r] = Refill[<<r, t>>] /\ R[r] \in Int
                          /\ H[r] = Levels(t)[r] + R[r] /\ H[r] \in Int
  BY ShareFacts
<1>2. ASSUME NEW r \in Replicas PROVE Shares(t)'[r] = Shares(t)[r] + R[r]
  <2>1. Shares(t)'[r] = Capacity[<<r, t>>] + (now + 1) * Refill[<<r, t>>]
    BY <1>0 DEF Shares
  <2>2. Refill[<<r, t>>] \in Nat /\ Capacity[<<r, t>>] \in Nat
    BY WriterKeys, LimiterAssumption
  <2>3. (now + 1) * Refill[<<r, t>>] = now * Refill[<<r, t>>] + Refill[<<r, t>>]
        /\ now * Refill[<<r, t>>] \in Nat
    BY <1>0, <2>2, OneMore, ProductIsNat
  <2> HIDE DEF R
  <2> QED BY <1>1, <2>1, <2>2, <2>3, ShareFacts
<1>3. ASSUME NEW r \in Replicas PROVE Levels(t)'[r] \in Int /\ Levels(t)'[r] <= H[r]
  <2>1. Levels(t)'[r] = Min2(Capacity[<<r, t>>], Levels(t)[r] + Refill[<<r, t>>])
    BY LevelAfterTick, WriterKeys, ShareFacts DEF Levels
  <2>2. Refill[<<r, t>>] \in Nat /\ Capacity[<<r, t>>] \in Nat
    BY WriterKeys, LimiterAssumption
  <2> HIDE DEF R, H
  <2> QED BY <1>1, <2>1, <2>2, ShareFacts DEF Min2
<1> HIDE DEF R, H
<1>4. /\ SumFunction(Levels(t)') = SumFunctionOnSet(Levels(t)', Replicas)
      /\ SumFunction(Shares(t)') = SumFunctionOnSet(Shares(t)', Replicas)
  <2>1. DOMAIN Levels(t)' = Replicas /\ DOMAIN Shares(t)' = Replicas
    BY DEF Levels, Shares
  <2> QED BY <2>1 DEF SumFunction
<1>5. /\ \A r \in Replicas : Shares(t)[r] \in Int /\ Levels(t)[r] \in Int
      /\ IsFiniteSet(Replicas)
  BY ShareFacts
<1>6. SumFunction(Shares(t)') = SumFunction(Shares(t)) + SumFunctionOnSet(R, Replicas)
  <2>1. SumFunctionOnSet(Shares(t)', Replicas)
          = SumFunctionOnSet(Shares(t), Replicas) + SumFunctionOnSet(R, Replicas)
    BY <1>1, <1>2, <1>5, SumAdd
  <2> QED BY <1>4, <2>1, ShareFacts
<1>7. SumFunctionOnSet(H, Replicas) = SumFunction(Levels(t)) + SumFunctionOnSet(R, Replicas)
  <2>1. SumFunctionOnSet(H, Replicas)
          = SumFunctionOnSet(Levels(t), Replicas) + SumFunctionOnSet(R, Replicas)
    BY <1>1, <1>5, SumAdd
  <2> QED BY <2>1, ShareFacts
<1>8. SumFunction(Levels(t)') <= SumFunctionOnSet(H, Replicas)
  BY <1>1, <1>3, <1>4, <1>5, SumMonotone
<1>9. SumFunctionOnSet(R, Replicas) \in Int /\ SumFunction(Levels(t)') \in Int
  BY <1>1, <1>3, <1>4, <1>5, SumType
<1>10. Admitted(t)' = Admitted(t) /\ Admitted(t) * Unit \in Nat
  BY AdmittedSame, AdmittedIsNat, ProductIsNat, LimiterAssumption
<1>11. /\ SumFunction(Levels(t)) \in Int /\ SumFunction(Shares(t)) \in Int
       /\ Admitted(t) * Unit + SumFunction(Levels(t)) <= SumFunction(Shares(t))
  BY ShareFacts DEF RateInv
<1> QED BY <1>6, <1>7, <1>8, <1>9, <1>10, <1>11

(* The steps of the handlers.                                              *)
LEMMA RateNext == TypeOK /\ HandlersOK /\ RateInv /\ [ApiNext]_apiVars => RateInv'
<1> SUFFICES ASSUME TypeOK, HandlersOK, RateInv, [ApiNext]_apiVars PROVE RateInv'
  OBVIOUS
<1>0. /\ Len(jobs) \in Nat /\ jobs \in Seq(Tenants) /\ handling = [r \in Replicas |-> handling[r]]
      /\ \A r \in Replicas : HandlerOK(r)
  BY DEF HandlersOK
<1>k. ASSUME UNCHANGED <<now, known, tokens, updated, handling, jobs>> PROVE RateInv'
  <2>1. \A t \in Writers : Admitted(t)' \in Nat /\ Admitted(t)' <= Admitted(t)
    BY <1>k, AdmittedSame
  <2> QED BY <1>k, <2>1, RateKept
<1>1. ASSUME NEW r \in Replicas, NEW token \in Tokens, NEW body, CreateScore(r, token, body)
      PROVE  RateInv'
  <2> DEFINE s == token.tenant
  <2>1. CASE Admission(token, body) # 200
    <3>1. UNCHANGED <<vars, handling, jobs>>
      BY <1>1, <2>1 DEF CreateScore
    <3> QED BY <1>k, <3>1 DEF vars
  <2>2. CASE Admission(token, body) = 200
    <3>1. Allow(<<r, s>>) /\ jobs' = jobs /\ handling[r] = Free
      BY <1>1, <2>2 DEF CreateScore
    <3>2. "score:write" \in token.scopes
      BY <2>2, AdmittedHasScope
    <3>3. <<r, s>> \in Keys /\ s \in Writers
      <4>1. <<r, s>> \in Keys
        BY <3>2, WriterHasKey
      <4> QED BY <4>1 DEF Writers
    <3>4. CASE Level(<<r, s>>) >= Unit /\ body = "good"
      <4>1. handling' = [handling EXCEPT ![r] = [stage |-> "create", token |-> token]]
        BY <1>1, <2>2, <3>4 DEF CreateScore
      <4>2. \A t \in Writers : Stored(t)' = Stored(t)
        BY <3>1 DEF Stored
      <4>3. r \notin Creating(s) /\ Creating(s)' = Creating(s) \cup {r}
        BY <1>0, <3>1, <4>1 DEF Creating, Free
      <4>4. \A t \in Writers : t # s => Creating(t)' = Creating(t)
        BY <1>0, <3>1, <4>1 DEF Creating, Free
      <4>5. Cardinality(Creating(s)') = Cardinality(Creating(s)) + 1
        BY <4>3, AdmittedIsNat, FS_AddElement
      <4>6. \A t \in Writers : Admitted(t)' = IF t = s THEN Admitted(t) + 1 ELSE Admitted(t)
        BY <4>2, <4>4, <4>5, AdmittedIsNat DEF Admitted
      <4> QED BY <3>1, <3>3, <3>4, <4>6, RateAllow
    <3>5. CASE ~(Level(<<r, s>>) >= Unit /\ body = "good")
      <4>1. handling' = handling
        BY <1>1, <2>2, <3>5 DEF CreateScore
      <4>2. \A t \in Writers : Admitted(t)' = Admitted(t)
        BY <3>1, <4>1, AdmittedSame
      <4> QED BY <3>1, <3>3, <4>2, RateAllow
    <3> QED BY <3>4, <3>5
  <2> QED BY <2>1, <2>2
<1>2. ASSUME NEW r \in Replicas, CreateJob(r) PROVE RateInv'
  <2>0. handling[r].token.tenant \in Tenants
    BY <1>0, <1>2 DEF CreateJob, HandlerOK, Free, Writes, Tenants
  <2>s. PICK s \in Tenants : s = handling[r].token.tenant
    BY <2>0
  <2>i. PICK i \in Nat : i = Len(jobs) + 1
    BY <1>0
  <2>1. /\ handling[r].stage = "create" /\ jobs' = Append(jobs, s) /\ handling'[r].stage = "append"
        /\ \A q \in Replicas : q # r => handling'[q] = handling[q]
        /\ UNCHANGED <<now, known, tokens, updated>>
    BY <1>0, <1>2, <2>s DEF CreateJob, vars
  <2>3. /\ Len(jobs') = i /\ jobs'[i] = s /\ \A j \in 1..Len(jobs) : jobs'[j] = jobs[j]
    BY <1>0, <2>1, <2>i
  <2>4. i \notin Stored(s) /\ Stored(s)' = Stored(s) \cup {i}
    BY <1>0, <2>3, <2>i DEF Stored
  <2>5. \A t \in Writers : t # s => Stored(t)' = Stored(t)
    BY <1>0, <2>3, <2>i DEF Stored
  <2>6. r \in Creating(s) /\ Creating(s)' = Creating(s) \ {r}
    BY <2>1, <2>s DEF Creating
  <2>7. \A t \in Writers : t # s => Creating(t)' = Creating(t)
    BY <2>1, <2>s DEF Creating
  <2>8. /\ Cardinality(Stored(s)') = Cardinality(Stored(s)) + 1
        /\ Cardinality(Creating(s)') = Cardinality(Creating(s)) - 1
    <3>1. IsFiniteSet(Stored(s)) /\ IsFiniteSet(Creating(s))
      BY AdmittedIsNat
    <3>2. Cardinality(Stored(s) \cup {i}) = Cardinality(Stored(s)) + 1
      BY <2>4, <3>1, FS_AddElement
    <3>3. Cardinality(Creating(s) \ {r}) = Cardinality(Creating(s)) - 1
      BY <2>6, <3>1, FS_RemoveElement
    <3> QED BY <2>4, <2>6, <3>2, <3>3
  <2>9. \A t \in Writers : Admitted(t)' = Admitted(t)
    BY <2>5, <2>7, <2>8, AdmittedIsNat DEF Admitted
  <2>10. \A t \in Writers : Admitted(t)' \in Nat /\ Admitted(t)' <= Admitted(t)
    BY <2>9, AdmittedIsNat
  <2> QED BY <2>1, <2>10, RateKept
<1>3. ASSUME NEW r \in Replicas, AppendAudit(r) \/ StorageRaises(r) PROVE RateInv'
  <2>1. /\ handling'[r] = Free /\ \A q \in Replicas : q # r => handling'[q] = handling[q]
        /\ UNCHANGED <<now, known, tokens, updated, jobs>>
    BY <1>0, <1>3 DEF AppendAudit, StorageRaises, vars
  <2>2. \A t \in Writers : Stored(t)' = Stored(t) /\ Creating(t)' \in SUBSET Creating(t)
    BY <2>1 DEF Stored, Creating, Free
  <2>3. \A t \in Writers : /\ Cardinality(Creating(t)') \in Nat
                           /\ Cardinality(Creating(t)') <= Cardinality(Creating(t))
    BY <2>2, AdmittedIsNat, FS_Subset, FS_CardinalityType
  <2>4. \A t \in Writers : Admitted(t)' \in Nat /\ Admitted(t)' <= Admitted(t)
    BY <2>2, <2>3, AdmittedIsNat DEF Admitted
  <2> QED BY <2>1, <2>4, RateKept
<1>4. CASE Read \/ StoreStep \/ UNCHANGED apiVars
  BY <1>4, <1>k DEF Read, GetScore, GetRecord, ListAudit, Poll, Metrics, Reads, StoreStep, apiVars,
                    api, vars
<1>5. ASSUME NEW w, NEW h, NEW t, StoreRecord(w, h, t) PROVE RateInv'
  BY <1>5, <1>k DEF StoreRecord, api, vars
<1>6. CASE ClockTicks
  BY <1>6, RateTick DEF ClockTicks, api
<1>7. ASSUME NEW k, Watch(k) PROVE RateInv'
  BY <1>7, <1>k DEF Watch, Observe, api
<1> QED BY <1>1, <1>2, <1>3, <1>4, <1>5, <1>6, <1>7 DEF ApiNext

(* All replicas together accept no more jobs of a tenant than its buckets  *)
(* in them allow.                                                          *)
THEOREM JobsWithinRateHolds == ApiSpec => []JobsWithinRate
<1>1. ApiInit => RateInv
  <2> SUFFICES ASSUME ApiInit, NEW t \in Writers
               PROVE  Admitted(t) * Unit + SumFunction(Levels(t)) <= SumFunction(Shares(t))
    BY DEF RateInv
  <2>0. TypeOK
    BY LimiterAssumption DEF ApiInit, Init, TypeOK
  <2>1. Stored(t) = {} /\ Creating(t) = {}
    BY DEF ApiInit, Stored, Creating, Free
  <2>2. Admitted(t) = 0
    BY <2>1, FS_EmptySet DEF Admitted
  <2>3. ASSUME NEW r \in Replicas PROVE Levels(t)[r] = Shares(t)[r]
    <3>1. Refill[<<r, t>>] \in Nat /\ Capacity[<<r, t>>] \in Nat
      BY WriterKeys, LimiterAssumption
    <3>2. now = 0 /\ Level(<<r, t>>) = Capacity[<<r, t>>]
      BY DEF ApiInit, Init, Level
    <3> QED BY <2>0, <3>1, <3>2, ShareFacts
  <2>4. Levels(t) = Shares(t)
    BY <2>3 DEF Levels, Shares
  <2>5. 0 * Unit = 0 /\ SumFunction(Shares(t)) \in Int
    BY <2>0, ShareFacts
  <2> QED BY <2>2, <2>4, <2>5
<1>2. TypeOK /\ HandlersOK /\ RateInv => JobsWithinRate
  <2> SUFFICES ASSUME TypeOK, HandlersOK, RateInv, NEW t \in Writers
               PROVE  Admitted(t) * Unit <= SumFunction(Shares(t))
    BY DEF JobsWithinRate
  <2> DEFINE Z == [r \in Replicas |-> 0]
  <2>1. SumFunctionOnSet(Z, Replicas) = 0
    <3>1. \A r \in Replicas : Z[r] = 0 * Z[r] /\ Z[r] \in Int
      OBVIOUS
    <3>2. SumFunctionOnSet(Z, Replicas) = 0 * SumFunctionOnSet(Z, Replicas)
      BY <3>1, SumScale, ApiAssumption
    <3>3. SumFunctionOnSet(Z, Replicas) \in Int
      BY <3>1, SumType, ApiAssumption
    <3> QED BY <3>2, <3>3
  <2>2. \A r \in Replicas : Z[r] <= Levels(t)[r] /\ Z[r] \in Int
    <3> TAKE r \in Replicas
    <3>1. Levels(t)[r] = Level(<<r, t>>) /\ Level(<<r, t>>) \in Nat
      BY LevelRange, WriterKeys, ShareFacts
    <3>2. Z[r] = 0
      OBVIOUS
    <3> QED BY <3>1, <3>2
  <2> HIDE DEF Z
  <2>3. SumFunction(Levels(t)) >= 0
    BY <2>1, <2>2, SumMonotone, ShareFacts
  <2>4. Admitted(t) * Unit \in Nat
    BY AdmittedIsNat, ProductIsNat, LimiterAssumption
  <2> QED BY <2>3, <2>4, ShareFacts DEF RateInv
<1>3. ApiSpec => []TypeOK
  BY ApiImplementsLimiter, TypeCorrect, PTL
<1> QED BY <1>1, <1>2, <1>3, HandlersHold, RateNext, PTL DEF ApiSpec

=============================================================================

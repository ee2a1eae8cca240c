------------------------- MODULE RequestGuardsProof -------------------------
(***************************************************************************)
(* What stands before the routes.  BodyLimit: what the server and the      *)
(* client see through _BodySizeLimitMiddleware, for every limit, every way *)
(* a body is cut into messages and every answer of the application.        *)
(* JwksCache: how stale the keys of a verification can be, for every set   *)
(* of keys, every TTL and every schedule of fetches and rotations.         *)
(***************************************************************************)
EXTENDS BodyLimit, JwksCache, SequenceTheorems, TLAPS

-----------------------------------------------------------------------------
(* The body limit.                                                         *)

-----------------------------------------------------------------------------
(* The inductive invariant.                                                *)

(* A request that is past the check of its header declared no length, or   *)
(* one that the limit allows; too_large says whether what was received is  *)
(* over it.                                                                *)
Counted ==
    /\ declared \in Headers
    /\ received \in Nat
    /\ too_large \in BOOLEAN /\ response_started \in BOOLEAN
    /\ too_large <=> received > MaxBytes
    /\ stage = "header" => received = 0
    /\ stage \notin {"header", "done"} =>
          declared.kind = "absent" \/ (declared.kind = "int" /\ declared.length <= MaxBytes)

(* What has been sent where the application is; a response that was        *)
(* swapped is complete with its start.                                     *)
Sent ==
    /\ stage \in {"header", "route", "read", "handle", "start", "body", "returned", "done"}
    /\ stage \in {"header", "route", "read", "handle", "start"} => sent = << >> /\ ~response_started
    /\ stage \in {"start", "body", "returned"} => answer \in AppStatuses
    /\ stage \in {"body", "returned"} => response_started
    /\ stage = "body" => sent = IF too_large THEN SendJson(413) ELSE <<StartMsg(answer)>>
    /\ stage = "returned" => sent = SendJson(IF too_large THEN 413 ELSE answer)
    /\ stage = "done" =>
          \/ declared.kind = "invalid" /\ sent = SendJson(400)
          \/ OverLimit /\ sent = SendJson(413)
          \/ /\ ~OverLimit /\ declared.kind # "invalid"
             /\ answer \in AppStatuses \cup {500} /\ sent = SendJson(answer)

LimitInv == Counted /\ Sent

-----------------------------------------------------------------------------
(* Messages: two responses are the same when their statuses are.           *)
LEMMA MessageFacts ==
    ASSUME NEW status
    PROVE  /\ Len(SendJson(status)) = 2
           /\ SendJson(status)[1] = StartMsg(status)
           /\ StartMsg(status).status = status
           /\ << >> \o SendJson(status) = SendJson(status)
           /\ << >> \o <<StartMsg(status)>> = <<StartMsg(status)>>
           /\ <<StartMsg(status)>> \o <<BodyMsg(status)>> = SendJson(status)
           /\ SendJson(status) \o << >> = SendJson(status)
<1> DEFINE a == StartMsg(status)
           b == BodyMsg(status)
<1>1. a.status = status
  BY DEF StartMsg
<1> HIDE DEF a, b
<1>2. SendJson(status) = <<a, b>>
  BY DEF SendJson, a, b
<1>3. <<a, b>> \in Seq({a, b}) /\ <<a>> \in Seq({a, b}) /\ <<b>> \in Seq({a, b})
  OBVIOUS
<1>4. Len(<<a, b>>) = 2 /\ <<a, b>>[1] = a /\ <<a, b>>[2] = b
  OBVIOUS
<1>5. /\ << >> \o <<a, b>> = <<a, b>> /\ <<a, b>> \o << >> = <<a, b>>
      /\ << >> \o <<a>> = <<a>>
  BY <1>3, ConcatEmptySeq
<1>6. <<a>> \o <<b>> = <<a, b>>
  <2>1. /\ <<a>> \o <<b>> \in Seq({a, b}) /\ Len(<<a>> \o <<b>>) = 2
        /\ (<<a>> \o <<b>>)[1] = a /\ (<<a>> \o <<b>>)[2] = b
    BY <1>3, ConcatProperties
  <2>2. PICK s \in Seq({a, b}), t \in Seq({a, b}) : s = <<a>> \o <<b>> /\ t = <<a, b>>
    BY <1>3, <2>1
  <2>3. Len(s) = 2 /\ Len(t) = 2 /\ s[1] = t[1] /\ s[2] = t[2]
    BY <1>4, <2>1, <2>2
  <2>4. \A i \in 1..Len(s) : s[i] = t[i]
    BY <2>3
  <2>5. s = t
    BY <2>3, <2>4, SeqEqual
  <2> QED BY <2>2, <2>5
<1> QED BY <1>1, <1>2, <1>4, <1>5, <1>6 DEF a, b

LEMMA CountedNext == Counted /\ Sent /\ [LimitNext]_limitVars => Counted'
<1> SUFFICES ASSUME Counted, Sent, [LimitNext]_limitVars PROVE Counted'
  OBVIOUS
<1>0. MaxBytes \in Nat /\ ChunkSizes \subseteq Nat
  BY BodyAssumption
<1>1. CASE HeaderInvalid \/ HeaderTooLarge
  BY <1>1 DEF HeaderInvalid, HeaderTooLarge, Counted
<1>2. CASE HeaderOk
  BY <1>2 DEF HeaderOk, Counted
<1>3. CASE Route \/ Handle \/ GuardedBody \/ AppRaises \/ Returned
  <2>1. /\ stage \notin {"header", "done"} /\ stage' # "header"
        /\ UNCHANGED <<declared, received, too_large, response_started>>
    BY <1>3 DEF Route, Handle, GuardedBody, AppRaises, Returned
  <2> QED BY <2>1 DEF Counted
<1>4. CASE GuardedStart
  BY <1>4 DEF GuardedStart, Counted
<1>5. ASSUME NEW n \in ChunkSizes, NEW more \in BOOLEAN, LimitedReceive(n, more) PROVE Counted'
  <2>1. /\ received' = received + n /\ stage = "read" /\ stage' \in {"read", "handle"}
        /\ UNCHANGED <<declared, response_started>>
        /\ too_large' = (too_large \/ received' > MaxBytes)
    BY <1>5 DEF LimitedReceive
  <2>2. received \in Nat /\ n \in Nat /\ (too_large <=> received > MaxBytes)
    BY <1>0 DEF Counted
  <2>3. received' \in Nat /\ (received > MaxBytes => received' > MaxBytes)
    BY <1>0, <2>1, <2>2
  <2>4. too_large' \in BOOLEAN /\ (too_large' <=> received' > MaxBytes)
    BY <2>1, <2>2, <2>3
  <2> QED BY <2>1, <2>3, <2>4 DEF Counted
<1>6. CASE UNCHANGED limitVars
  BY <1>6 DEF limitVars, Counted
<1> QED BY <1>1, <1>2, <1>3, <1>4, <1>5, <1>6 DEF LimitNext

(* Whether the request is over the limit is known when it is past its      *)
(* header.                                                                 *)
LEMMA OverIsTooLarge ==
    ASSUME Counted, stage \notin {"header", "done"}
    PROVE  (OverLimit <=> too_large) /\ declared.kind # "invalid"
<1>1. declared.kind = "absent" \/ (declared.kind = "int" /\ declared.length <= MaxBytes)
  BY DEF Counted
<1>2. declared.kind = "int" => declared.length \in Int
  BY BodyAssumption DEF Counted, Headers
<1>3. ~(declared.kind = "int" /\ declared.length > MaxBytes)
  BY <1>1, <1>2, BodyAssumption
<1> QED BY <1>1, <1>3 DEF OverLimit, Counted

LEMMA SentNext == Counted /\ Sent /\ [LimitNext]_limitVars => Sent'
<1> SUFFICES ASSUME Counted, Sent, [LimitNext]_limitVars PROVE Sent'
  OBVIOUS
<1>1. CASE HeaderInvalid
  BY <1>1 DEF HeaderInvalid, Sent
<1>2. CASE HeaderTooLarge
  <2>1. OverLimit'
    BY <1>2 DEF HeaderTooLarge, OverLimit
  <2> QED BY <1>2, <2>1 DEF HeaderTooLarge, Sent
<1>3. CASE HeaderOk
  BY <1>3 DEF HeaderOk, Sent
<1>4. CASE Route \/ Handle
  BY <1>4 DEF Route, Handle, Sent
<1>5. ASSUME NEW n \in ChunkSizes, NEW more \in BOOLEAN, LimitedReceive(n, more) PROVE Sent'
  <2>1. stage = "read" /\ stage' \in {"read", "handle"} /\ UNCHANGED <<sent, response_started>>
    BY <1>5 DEF LimitedReceive
  <2> QED BY <2>1 DEF Sent
<1>6. CASE GuardedStart
  <2>1. /\ stage = "start" /\ stage' = "body" /\ response_started' = TRUE
        /\ UNCHANGED <<too_large, answer>> /\ sent = << >> /\ answer \in AppStatuses
        /\ sent' = sent \o IF too_large THEN SendJson(413) ELSE <<StartMsg(answer)>>
    BY <1>6 DEF GuardedStart, Sent
  <2>2. sent' = IF too_large THEN SendJson(413) ELSE <<StartMsg(answer)>>
    BY <2>1, MessageFacts
  <2>3. sent' = IF too_large' THEN SendJson(413) ELSE <<StartMsg(answer')>>
    BY <2>1, <2>2
  <2> QED BY <2>1, <2>3 DEF Sent
<1>7. CASE GuardedBody
  <2>1. /\ stage = "body" /\ stage' = "returned" /\ UNCHANGED <<too_large, answer, response_started>>
        /\ response_started /\ answer \in AppStatuses
        /\ sent = IF too_large THEN SendJson(413) ELSE <<StartMsg(answer)>>
        /\ sent' = sent \o IF too_large THEN << >> ELSE <<BodyMsg(answer)>>
    BY <1>7 DEF GuardedBody, Sent
  <2>2. CASE too_large
    <3>1. sent' = SendJson(413)
      BY <2>1, <2>2, MessageFacts
    <3> QED BY <2>1, <2>2, <3>1 DEF Sent
  <2>3. CASE ~too_large
    <3>1. sent' = SendJson(answer)
      BY <2>1, <2>3, MessageFacts
    <3> QED BY <2>1, <2>3, <3>1 DEF Sent
  <2> QED BY <2>2, <2>3
<1>8. CASE AppRaises
  <2>1. /\ stage \in {"read", "handle"} /\ stage' = "done" /\ answer' = 500
        /\ UNCHANGED <<declared, received, too_large, response_started>>
        /\ sent = << >> /\ ~response_started
        /\ sent' = sent \o (IF ~too_large THEN SendJson(500)
                            ELSE IF ~response_started THEN SendJson(413) ELSE << >>)
    BY <1>8 DEF AppRaises, Sent
  <2>2. sent' = SendJson(IF too_large THEN 413 ELSE 500)
    BY <2>1, MessageFacts
  <2>3. (OverLimit' <=> too_large) /\ declared'.kind # "invalid"
    BY <2>1, OverIsTooLarge DEF OverLimit
  <2> QED BY <2>1, <2>2, <2>3 DEF Sent
<1>9. CASE Returned
  <2>1. /\ stage = "returned" /\ stage' = "done"
        /\ UNCHANGED <<declared, received, too_large, response_started, answer>>
        /\ response_started /\ answer \in AppStatuses
        /\ sent = SendJson(IF too_large THEN 413 ELSE answer)
        /\ sent' = sent \o IF too_large /\ ~response_started THEN SendJson(413) ELSE << >>
    BY <1>9 DEF Returned, Sent
  <2>2. sent' = SendJson(IF too_large THEN 413 ELSE answer)
    BY <2>1, MessageFacts
  <2>3. (OverLimit' <=> too_large) /\ declared'.kind # "invalid"
    BY <2>1, OverIsTooLarge DEF OverLimit
  <2> QED BY <2>1, <2>2, <2>3 DEF Sent
<1>10. CASE UNCHANGED limitVars
  BY <1>10 DEF limitVars, Sent, OverLimit
<1> QED BY <1>1, <1>2, <1>3, <1>4, <1>5, <1>6, <1>7, <1>8, <1>9, <1>10 DEF LimitNext

-----------------------------------------------------------------------------
(* The theorems.                                                           *)

LEMMA LimitInvHolds == LimitSpec => []LimitInv
<1>1. LimitInit => LimitInv
  <2> SUFFICES ASSUME LimitInit PROVE LimitInv
    OBVIOUS
  <2>1. Counted
    <3>1. /\ declared \in Headers /\ received = 0 /\ stage = "header"
          /\ too_large = FALSE /\ response_started = FALSE
      BY DEF LimitInit
    <3>2. ~(received > MaxBytes)
      BY <3>1, BodyAssumption
    <3> QED BY <3>1, <3>2 DEF Counted
  <2>2. Sent
    BY DEF LimitInit, Sent
  <2> QED BY <2>1, <2>2 DEF LimitInv
<1>2. LimitInv /\ [LimitNext]_limitVars => LimitInv'
  BY CountedNext, SentNext DEF LimitInv
<1> QED BY <1>1, <1>2, PTL DEF LimitSpec

(* However limited_receive, guarded_send and the two handlers of the       *)
(* middleware play together, the server is handed at most one response,    *)
(* and a whole one by the end.                                             *)
THEOREM OneResponseHolds == LimitSpec => []OneResponse
<1>1. LimitInv => OneResponse
  <2> SUFFICES ASSUME LimitInv PROVE OneResponse
    OBVIOUS
  <2> DEFINE Statuses == AppStatuses \cup {400, 413, 500}
             Good(status) == \/ sent = << >> \/ sent = <<StartMsg(status)>>
                             \/ sent = SendJson(status)
  <2>1. \E status \in Statuses : Good(status)
    <3>1. CASE stage \in {"header", "route", "read", "handle", "start"}
      BY <3>1 DEF LimitInv, Sent
    <3>2. CASE stage = "body"
      BY <3>2 DEF LimitInv, Sent
    <3>3. CASE stage = "returned"
      BY <3>3 DEF LimitInv, Sent
    <3>4. CASE stage = "done"
      BY <3>4 DEF LimitInv, Sent
    <3> QED BY <3>1, <3>2, <3>3, <3>4 DEF LimitInv, Sent
  <2>2. stage = "done" => Len(sent) = 2
    <3>1. stage = "done" => \E status : sent = SendJson(status)
      BY DEF LimitInv, Sent
    <3> QED BY <3>1, MessageFacts
  <2> QED BY <2>1, <2>2 DEF OneResponse
<1> QED BY <1>1, LimitInvHolds, PTL

(* 413 is the answer to a body over the limit and to no other, and below   *)
(* the limit the middleware is not to be noticed.                          *)
THEOREM LimitDecidesHolds == LimitSpec => []LimitDecides
<1>1. LimitInv => LimitDecides
  <2> SUFFICES ASSUME LimitInv, stage = "done", declared.kind # "invalid"
               PROVE  (sent[1].status = 413) = OverLimit /\ (~OverLimit => sent = SendJson(answer))
    BY DEF LimitDecides
  <2>1. \/ OverLimit /\ sent = SendJson(413)
        \/ ~OverLimit /\ answer \in AppStatuses \cup {500} /\ sent = SendJson(answer)
    BY DEF LimitInv, Sent
  <2>2. \A status : SendJson(status)[1].status = status
    BY MessageFacts
  <2>3. OverLimit => sent[1].status = 413
    BY <2>1, <2>2
  <2>4. ~OverLimit => sent[1].status # 413 /\ sent = SendJson(answer)
    <3>1. ASSUME ~OverLimit
          PROVE  answer \in AppStatuses \cup {500} /\ sent = SendJson(answer)
      BY <2>1, <3>1
    <3>2. answer \in AppStatuses \cup {500} => answer # 413
      BY BodyAssumption
    <3> QED BY <2>2, <3>1, <3>2
  <2> QED BY <2>3, <2>4 DEF OverLimit
<1> QED BY <1>1, LimitInvHolds, PTL

-----------------------------------------------------------------------------
(* The key cache.                                                          *)

(* A key set shows the provider's keys as they were at time t or later: a  *)
(* key on which the two disagree has been rotated since.                   *)
CurrentAsOf(set, t) == \A k \in Kids : since[k] >= t \/ (k \in set <=> k \in published)

(* The key set in use is as recent as its date says, unless it is the      *)
(* empty one of a process that has fetched none, dated at the start of the *)
(* host, of which nothing of the kind is true; the one that was just       *)
(* received is as recent as the reading of the clock before the fetch; and *)
(* whoever looks a key up does so in a set dated within the TTL.  A        *)
(* verification under way has no outcome yet.                              *)
Freshness ==
    /\ fetched => CurrentAsOf(keys, fetched_at)
    /\ ~fetched => keys = {} /\ fetched_at = 0
    /\ pc = "parse" => CurrentAsOf(body, now)
    /\ pc = "lookup" => fetched_at >= Horizon
    /\ pc # "idle" => outcome = "none"

IInv == TypeOK /\ Freshness /\ WithdrawnKeyExpires /\ PublishedKeyIsKnown

(* The times in the cache are numbers that the clock has not passed.       *)
LEMMA Times ==
    ASSUME TypeOK
    PROVE  /\ clock \in Nat /\ Ttl \in Nat /\ Ttl >= 1
           /\ now \in Nat /\ now <= clock
           /\ fetched_at \in Nat /\ fetched_at <= clock
           /\ \A k \in Kids : since[k] \in (-Ttl)..clock
<1>1. /\ clock \in 0..MaxTime /\ now \in 0..clock /\ fetched_at \in 0..clock
      /\ since \in [Kids -> (-Ttl)..clock]
  BY DEF TypeOK
<1>2. clock \in Nat
  BY <1>1, JwksAssumption
<1> QED BY <1>1, <1>2, JwksAssumption

LEMMA IInvInit == Init => IInv
<1> SUFFICES ASSUME Init PROVE IInv
  OBVIOUS
<1> USE JwksAssumption DEF Init
<1>0. clock \in Nat /\ 0 \in 0..clock
  OBVIOUS
<1>1. TypeOK
  BY <1>0 DEF TypeOK
<1>2. Freshness
  BY DEF Freshness, CurrentAsOf
<1>3. WithdrawnKeyExpires /\ PublishedKeyIsKnown
  BY DEF WithdrawnKeyExpires, PublishedKeyIsKnown
<1> QED BY <1>1, <1>2, <1>3 DEF IInv

LEMMA TypeOKNext == TypeOK /\ [Next]_vars => TypeOK'
<1> SUFFICES ASSUME TypeOK, [Next]_vars PROVE TypeOK'
  OBVIOUS
<1>t. /\ clock \in Nat /\ clock \in 0..clock /\ clock \in (-Ttl)..clock /\ clock + 1 \in Nat
      /\ now \in 0..(clock + 1) /\ fetched_at \in 0..(clock + 1)
      /\ \A k \in Kids : since[k] \in (-Ttl)..(clock + 1)
      /\ clock < MaxTime => clock + 1 \in 0..MaxTime
  BY Times, JwksAssumption
<1> USE JwksAssumption DEF TypeOK
<1>1. ASSUME NEW k \in Kids, Verify(k) PROVE TypeOK'
  BY <1>1 DEF Verify
<1>2. ASSUME NEW k \in Kids, Rotate(k) PROVE TypeOK'
  <2>1. since' \in [Kids -> (-Ttl)..clock]
    BY <1>2, <1>t DEF Rotate
  <2> QED BY <1>2, <2>1 DEF Rotate
<1>3. CASE CacheHit \/ CacheExpired
  <2>1. now' \in 0..clock
    BY <1>3, <1>t DEF CacheHit, CacheExpired
  <2> QED BY <1>3, <2>1 DEF CacheHit, CacheExpired
<1>5. CASE ProviderAnswers
  BY <1>5 DEF ProviderAnswers
<1>6. CASE FetchFails
  BY <1>6 DEF FetchFails
<1>7. CASE Refresh
  BY <1>7 DEF Refresh
<1>8. CASE Lookup
  BY <1>8 DEF Lookup, SignatureOutcomes
<1>9. CASE Tick
  <2>1. clock' = clock + 1 /\ clock + 1 \in 0..MaxTime
    BY <1>9, <1>t DEF Tick
  <2>2. since \in [Kids -> (-Ttl)..(clock + 1)]
    BY <1>t
  <2> QED BY <1>9, <1>t, <2>1, <2>2 DEF Tick
<1>10. CASE UNCHANGED vars
  BY <1>10 DEF vars
<1> QED BY <1>1, <1>2, <1>3, <1>5, <1>6, <1>7, <1>8, <1>9, <1>10 DEF Next

(* A rotation is dated by the clock, which no date in the cache exceeds:   *)
(* the key it is about becomes one of those that were rotated since.       *)
LEMMA RotateKeepsCurrent ==
    ASSUME TypeOK, NEW k \in Kids, Rotate(k), NEW set, NEW t \in 0..clock, CurrentAsOf(set, t)
    PROVE  \A i \in Kids : since'[i] >= t \/ (i \in set <=> i \in published')
<1> SUFFICES ASSUME NEW i \in Kids PROVE since'[i] >= t \/ (i \in set <=> i \in published')
  OBVIOUS
<1>1. CASE i = k
  <2>1. since'[k] = clock
    BY DEF Rotate, TypeOK
  <2> QED BY <1>1, <2>1, Times
<1>2. CASE i # k
  <2>1. since'[i] = since[i]
    BY <1>2 DEF Rotate, TypeOK
  <2>2. i \in published' <=> i \in published
    BY <1>2 DEF Rotate
  <2> QED BY <2>1, <2>2 DEF CurrentAsOf
<1> QED BY <1>1, <1>2

(* What a lookup in a set from within the TTL can say about a key.         *)
LEMMA LookupIsFresh ==
    ASSUME IInv, Lookup
    PROVE  (WithdrawnKeyExpires /\ PublishedKeyIsKnown)'
<1>1. /\ fetched => (since[kid] >= fetched_at \/ (kid \in keys <=> kid \in published))
      /\ ~fetched => keys = {} /\ fetched_at = 0
      /\ fetched_at >= Horizon
  BY DEF IInv, TypeOK, Freshness, CurrentAsOf, Lookup
<1>2. UNCHANGED <<published, since, kid, now, fetched>>
  BY DEF Lookup
<1>3. since[kid] \in Int /\ fetched_at \in Int /\ Horizon \in Int
  <2>1. TypeOK /\ kid \in Kids
    BY DEF IInv, TypeOK
  <2> QED BY <2>1, Times DEF Horizon
<1>4. fetched => since[kid] >= Horizon \/ (kid \in keys <=> kid \in published)
  BY <1>1, <1>3
<1>5. /\ outcome' = "accepted" => kid \in keys
      /\ outcome' = "unknown kid" => kid \notin keys
  BY DEF Lookup, SignatureOutcomes
<1>6. Horizon' = Horizon
  BY <1>2 DEF Horizon
<1>7. ~fetched => kid \notin keys /\ now < Ttl
  <2>1. now \in Nat /\ Ttl \in Nat
    BY Times DEF IInv
  <2> QED BY <1>1, <2>1 DEF Horizon
<1> QED BY <1>2, <1>4, <1>5, <1>6, <1>7 DEF WithdrawnKeyExpires, PublishedKeyIsKnown

LEMMA IInvNext == IInv /\ [Next]_vars => IInv'
<1> SUFFICES ASSUME IInv, [Next]_vars PROVE IInv'
  OBVIOUS
<1>0. TypeOK /\ Freshness /\ WithdrawnKeyExpires /\ PublishedKeyIsKnown
  BY DEF IInv
<1>t. TypeOK'
  BY <1>0, TypeOKNext
<1> USE JwksAssumption
<1>q. ASSUME outcome' \in {"none", "error"} PROVE (WithdrawnKeyExpires /\ PublishedKeyIsKnown)'
  BY <1>q DEF WithdrawnKeyExpires, PublishedKeyIsKnown
<1>1. ASSUME NEW k \in Kids, Verify(k) PROVE IInv'
  <2>1. Freshness'
    BY <1>0, <1>1 DEF Verify, Freshness, CurrentAsOf
  <2> QED BY <1>1, <1>t, <1>q, <2>1 DEF Verify, IInv
<1>2. ASSUME NEW k \in Kids, Rotate(k) PROVE IInv'
  <2>1. UNCHANGED <<keys, fetched_at, body, now, pc, fetched>> /\ outcome' = "none"
    BY <1>2 DEF Rotate
  <2>2. fetched_at \in 0..clock /\ now \in 0..clock
    BY <1>0 DEF TypeOK
  <2>3. fetched => CurrentAsOf(keys, fetched_at)'
    BY <1>0, <1>2, <2>1, <2>2, RotateKeepsCurrent DEF Freshness, CurrentAsOf
  <2>4. pc = "parse" => CurrentAsOf(body, now)'
    BY <1>0, <1>2, <2>1, <2>2, RotateKeepsCurrent DEF Freshness, CurrentAsOf
  <2>5. Freshness'
    BY <1>0, <2>1, <2>3, <2>4 DEF Freshness, Horizon
  <2> QED BY <1>t, <1>q, <2>1, <2>5 DEF IInv
<1>3. CASE CacheHit
  <2>1. fetched_at >= Horizon'
    BY <1>0, <1>3, Times DEF CacheHit, Horizon
  <2>2. Freshness'
    BY <1>0, <1>3, <2>1 DEF CacheHit, Freshness, CurrentAsOf
  <2>3. outcome' = "none"
    BY <1>0, <1>3 DEF CacheHit, Freshness
  <2> QED BY <1>t, <1>q, <2>2, <2>3 DEF IInv
<1>4. CASE CacheExpired
  <2>1. Freshness' /\ outcome' = "none"
    BY <1>0, <1>4 DEF CacheExpired, Freshness, CurrentAsOf
  <2> QED BY <1>t, <1>q, <2>1 DEF IInv
<1>5. CASE ProviderAnswers
  <2>1. Freshness' /\ outcome' = "none"
    BY <1>0, <1>5 DEF ProviderAnswers, Freshness, CurrentAsOf
  <2> QED BY <1>t, <1>q, <2>1 DEF IInv
<1>6. CASE FetchFails
  <2>1. Freshness' /\ outcome' = "error"
    BY <1>0, <1>6 DEF FetchFails, Freshness, CurrentAsOf
  <2> QED BY <1>t, <1>q, <2>1 DEF IInv
<1>7. CASE Refresh
  <2>1. now >= Horizon /\ Horizon' = Horizon
    BY <1>0, <1>7, Times DEF Refresh, Horizon
  <2>2. Freshness' /\ outcome' = "none"
    BY <1>0, <1>7, <2>1 DEF Refresh, Freshness, CurrentAsOf
  <2> QED BY <1>t, <1>q, <2>2 DEF IInv
<1>8. CASE Lookup
  <2>1. Freshness'
    BY <1>0, <1>8 DEF Lookup, Freshness, CurrentAsOf
  <2> QED BY <1>8, <1>t, <2>1, LookupIsFresh DEF IInv
<1>9. CASE Tick
  <2>1. Freshness' /\ outcome' = "none"
    BY <1>0, <1>9 DEF Tick, Freshness, CurrentAsOf, Horizon
  <2> QED BY <1>t, <1>q, <2>1 DEF IInv
<1>10. CASE UNCHANGED vars
  BY <1>0, <1>10, <1>t DEF vars, IInv, Freshness, CurrentAsOf, Horizon,
                          WithdrawnKeyExpires, PublishedKeyIsKnown
<1> QED BY <1>1, <1>2, <1>3, <1>4, <1>5, <1>6, <1>7, <1>8, <1>9, <1>10 DEF Next

LEMMA IInvHolds == Spec => []IInv
  BY IInvInit, IInvNext, PTL DEF Spec

(* A withdrawn key is accepted for less than the TTL after its withdrawal, *)
(* counted to the verification's reading of the clock: slow and failed     *)
(* fetches do not lengthen it.                                             *)
THEOREM WithdrawnKeyExpiresHolds == Spec => []WithdrawnKeyExpires
<1>1. IInv => WithdrawnKeyExpires
  BY DEF IInv
<1> QED BY <1>1, IInvHolds, PTL

(* A key that has been published for the TTL, before the host started or   *)
(* after, is called unknown only by a process that has fetched no key set  *)
(* yet, and only within the TTL of the start of the host.                  *)
THEOREM PublishedKeyIsKnownHolds == Spec => []PublishedKeyIsKnown
<1>1. IInv => PublishedKeyIsKnown
  BY DEF IInv
<1> QED BY <1>1, IInvHolds, PTL

=============================================================================

---------------------------- MODULE RateLimiter ----------------------------
(***************************************************************************)
(* cce_service.rate_limit.RateLimiter: lazily created, lazily filled token *)
(* buckets.  allow() runs under one lock and reads the clock inside it, so *)
(* a call is one step.  Tokens and rates are multiples of a smallest       *)
(* amount (Unit of them make the token 1.0); the rounding of floats is not *)
(* modelled.                                                               *)
(***************************************************************************)
EXTENDS Integers

CONSTANTS Keys,      \* (tenant, bucket name) pairs
          Unit,      \* the token 1.0
          Capacity,  \* capacity of each key's bucket
          Refill,    \* refill_per_sec, per tick of the clock
          MaxTime    \* bound: ticks of the clock

ASSUME LimiterAssumption ==
    /\ Unit \in Nat \ {0}
    /\ Capacity \in [Keys -> Nat]
    /\ Refill \in [Keys -> Nat]
    /\ MaxTime \in Nat

VARIABLES now,      \* time.monotonic()
          known,    \* keys of self._buckets
          tokens,   \* bucket.tokens
          updated,  \* bucket.updated
          answer,   \* the last allow() call: its key and what it returned
          start,    \* observer: when the current observation of each key began
          granted   \* observer: requests of each key admitted since then

vars == <<now, known, tokens, updated, answer, start, granted>>

Min2(x, y) == IF x <= y THEN x ELSE y

TypeOK == /\ now \in 0..MaxTime
          /\ known \subseteq Keys
          /\ tokens \in [Keys -> Nat]
          /\ \A k \in Keys : tokens[k] <= Capacity[k]
          /\ updated \in [Keys -> 0..MaxTime]
          /\ \A k \in Keys : updated[k] <= now
          /\ start \in [Keys -> 0..MaxTime]
          /\ \A k \in Keys : start[k] <= now
          /\ granted \in [Keys -> Nat]

(* A key that is not known has no bucket; its entries are never read.      *)
Init == /\ now = 0
        /\ known = {}
        /\ tokens = [k \in Keys |-> 0]
        /\ updated = [k \in Keys |-> 0]
        /\ answer = << >>
        /\ start = [k \in Keys |-> 0]
        /\ granted = [k \in Keys |-> 0]

(* _get_bucket followed by the refill of allow(): what the bucket holds    *)
(* when the request is judged.  A new bucket is full and no time passed.   *)
Level(k) ==
    IF k \in known
    THEN Min2(Capacity[k], tokens[k] + (now - updated[k]) * Refill[k])
    ELSE Capacity[k]

\* Seeded bug: the time of the last call is only noted when it was admitted,
\* although the refill has been added to the bucket.
AllowStampOnGrant(k) ==
    /\ known' = known \cup {k}
    /\ updated' = [updated EXCEPT ![k] = IF Level(k) >= Unit THEN now ELSE updated[k]]
    /\ tokens' = [tokens EXCEPT ![k] = IF Level(k) >= Unit THEN Level(k) - Unit ELSE Level(k)]
    /\ answer' = <<k, Level(k) >= Unit>>
    /\ granted' = [granted EXCEPT ![k] = IF Level(k) >= Unit THEN granted[k] + 1 ELSE granted[k]]
    /\ UNCHANGED <<now, start>>

\* Seeded bug: a call that is refused drops what the bucket has earned.
AllowDropsRefill(k) ==
    /\ known' = known \cup {k}
    /\ updated' = [updated EXCEPT ![k] = now]
    /\ tokens' = [tokens EXCEPT ![k] = IF Level(k) >= Unit THEN Level(k) - Unit ELSE tokens[k]]
    /\ answer' = <<k, Level(k) >= Unit>>
    /\ granted' = [granted EXCEPT ![k] = IF Level(k) >= Unit THEN granted[k] + 1 ELSE granted[k]]
    /\ UNCHANGED <<now, start>>

(* allow() *)
Allow(k) ==
    /\ known' = known \cup {k}
    /\ updated' = [updated EXCEPT ![k] = now]
    /\ tokens' = [tokens EXCEPT ![k] = IF Level(k) >= Unit THEN Level(k) - Unit ELSE Level(k)]
    /\ answer' = <<k, Level(k) >= Unit>>
    /\ granted' = [granted EXCEPT ![k] = IF Level(k) >= Unit THEN granted[k] + 1 ELSE granted[k]]
    /\ UNCHANGED <<now, start>>

Tick == /\ now < MaxTime
        /\ now' = now + 1
        /\ UNCHANGED <<known, tokens, updated, answer, start, granted>>

(* The observer starts counting afresh, at any moment it likes. *)
Observe(k) == /\ start' = [start EXCEPT ![k] = now]
              /\ granted' = [granted EXCEPT ![k] = 0]
              /\ UNCHANGED <<now, known, tokens, updated, answer>>

Next == (\E k \in Keys : Allow(k) \/ Observe(k)) \/ Tick

Spec == Init /\ [][Next]_vars

-----------------------------------------------------------------------------
(* In every interval of time, wherever it begins, a key gets at most its   *)
(* burst plus what its rate earns in that interval, however its requests   *)
(* are spread and whenever its bucket was created.                         *)
WindowBound ==
    \A k \in Keys : granted[k] * Unit <= Capacity[k] + (now - start[k]) * Refill[k]

(* The strengthening that is inductive: what is left counts too. *)
WindowInv ==
    \A k \in Keys : granted[k] * Unit + Level(k) <= Capacity[k] + (now - start[k]) * Refill[k]

(* Filling a bucket only when it is looked at is the same as filling it    *)
(* all the time: polling often, or rarely, neither gains nor loses tokens. *)
Ideal == INSTANCE TokenBucket WITH level <- [k \in Keys |-> Level(k)]
ImplementsTokenBucket == Ideal!Spec

=============================================================================

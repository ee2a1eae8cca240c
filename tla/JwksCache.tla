----------------------------- MODULE JwksCache -----------------------------
(***************************************************************************)
(* _JwksCache and JwksVerifier.verify beside an identity provider that     *)
(* publishes and withdraws keys whenever it likes.  The API's route        *)
(* handlers are coroutines that call verify without awaiting, so there is  *)
(* one verification at a time; a fetch blocks it while time passes and the *)
(* provider goes on.  A key is its kid.                                    *)
(*                                                                         *)
(* The clock is time.monotonic(): it counts from the start of the host and *)
(* not of the process.                                                     *)
(***************************************************************************)
EXTENDS Integers

CONSTANTS Kids,      \* key ids, of published keys and in token headers
          Ttl,       \* ttl_seconds
          MaxTime    \* bound: the clock

ASSUME JwksAssumption ==
    /\ Ttl \in Nat \ {0}
    /\ MaxTime \in Nat

VARIABLES clock,
          published,   \* the keys the provider serves
          since,       \* when each key was published or withdrawn for the last time
          fetched_at,  \* self._fetched_at
          keys,        \* self._keys
          pc,          \* where verify is
          kid,         \* of the token it verifies
          now,         \* _maybe_refresh's reading of the clock
          body,        \* the fetched key set
          outcome,     \* of a verification, until anything else happens
          fetched      \* observer: the process has fetched a key set

vars == <<clock, published, since, fetched_at, keys, pc, kid, now, body, outcome, fetched>>

TypeOK ==
    /\ clock \in 0..MaxTime
    /\ published \subseteq Kids /\ keys \subseteq Kids /\ body \subseteq Kids
    /\ since \in [Kids -> (-Ttl)..clock]
    /\ fetched_at \in 0..clock /\ now \in 0..clock
    /\ pc \in {"idle", "get", "fetch", "parse", "lookup"}
    /\ kid \in Kids
    /\ outcome \in {"none", "unknown kid", "refused", "accepted", "error"}
    /\ fetched \in BOOLEAN

(* The process starts at some time after the host did, and the provider    *)
(* has rotated each key for the last time at some time before that, before *)
(* the host started or after: -Ttl stands for every earlier time.          *)
Init ==
    /\ clock \in 0..MaxTime
    /\ published \in SUBSET Kids
    /\ since \in [Kids -> (-Ttl)..clock]
    /\ fetched_at = 0
    /\ keys = {}
    /\ pc = "idle"
    /\ kid \in Kids
    /\ now = 0
    /\ body = {}
    /\ outcome = "none"
    /\ fetched = FALSE

-----------------------------------------------------------------------------
(* verify, up to the cache: a token that is malformed, or has another alg  *)
(* or no kid, is refused before this and changes nothing.                  *)
Verify(k) ==
    /\ pc = "idle"
    /\ kid' = k
    /\ pc' = "get"
    /\ outcome' = "none"
    /\ UNCHANGED <<clock, published, since, fetched_at, keys, now, body, fetched>>

(* _maybe_refresh: the clock is read once. *)
CacheHit ==
    /\ pc = "get"
    /\ clock - fetched_at < Ttl
    /\ now' = clock
    /\ pc' = "lookup"
    /\ UNCHANGED <<clock, published, since, fetched_at, keys, kid, body, outcome, fetched>>

CacheExpired ==
    /\ pc = "get"
    /\ clock - fetched_at >= Ttl
    /\ now' = clock
    /\ pc' = "fetch"
    /\ UNCHANGED <<clock, published, since, fetched_at, keys, kid, body, outcome, fetched>>

(* The provider answers with the keys it has at that moment. *)
ProviderAnswers ==
    /\ pc = "fetch"
    /\ body' = published
    /\ pc' = "parse"
    /\ UNCHANGED <<clock, published, since, fetched_at, keys, kid, now, outcome, fetched>>

\* Seeded bug: an expired key set is used when a new one cannot be had.
FetchFailsOpen ==
    /\ pc \in {"fetch", "parse"}
    /\ pc' = "lookup"
    /\ UNCHANGED <<clock, published, since, fetched_at, keys, kid, now, body, outcome, fetched>>

(* urlopen, json.load or _jwk_thumbprint raises: nothing is assigned, and  *)
(* the request ends without a principal.                                   *)
FetchFails ==
    /\ pc \in {"fetch", "parse"}
    /\ outcome' = "error"
    /\ pc' = "idle"
    /\ UNCHANGED <<clock, published, since, fetched_at, keys, kid, now, body, fetched>>

\* Seeded bug: the key set is dated by its arrival.
RefreshLate ==
    /\ pc = "parse"
    /\ keys' = body
    /\ fetched_at' = clock
    /\ fetched' = TRUE
    /\ pc' = "lookup"
    /\ UNCHANGED <<clock, published, since, kid, now, body, outcome>>

(* self._keys = new_keys, self._fetched_at = now: the time before the      *)
(* fetch.                                                                  *)
Refresh ==
    /\ pc = "parse"
    /\ keys' = body
    /\ fetched_at' = now
    /\ fetched' = TRUE
    /\ pc' = "lookup"
    /\ UNCHANGED <<clock, published, since, kid, now, body, outcome>>

(* _verify_rs256, _verify_es256: a signature that is not the key's, or the *)
(* library missing, is an AuthError; a key set entry without the numbers   *)
(* of a key of that type raises something else.                            *)
SignatureOutcomes == {"accepted", "refused", "error"}

(* keys.get(kid), the signature and the claims. *)
Lookup ==
    /\ pc = "lookup"
    /\ IF kid \in keys THEN outcome' \in SignatureOutcomes ELSE outcome' = "unknown kid"
    /\ pc' = "idle"
    /\ UNCHANGED <<clock, published, since, fetched_at, keys, kid, now, body, fetched>>

-----------------------------------------------------------------------------
(* The provider publishes a key or withdraws it. *)
Rotate(k) ==
    /\ published' = IF k \in published THEN published \ {k} ELSE published \cup {k}
    /\ since' = [since EXCEPT ![k] = clock]
    /\ outcome' = "none"
    /\ UNCHANGED <<clock, fetched_at, keys, pc, kid, now, body, fetched>>

Tick ==
    /\ clock < MaxTime
    /\ clock' = clock + 1
    /\ outcome' = "none"
    /\ UNCHANGED <<published, since, fetched_at, keys, pc, kid, now, body, fetched>>

Next == \/ \E k \in Kids : Verify(k) \/ Rotate(k)
        \/ CacheHit \/ CacheExpired \/ ProviderAnswers \/ FetchFails \/ Refresh \/ Lookup
        \/ Tick

Spec == Init /\ [][Next]_vars

-----------------------------------------------------------------------------
(* How far back in time the keys may be that a verification uses: less     *)
(* than the TTL before its reading of the clock.                           *)
Horizon == now - Ttl + 1

(* A withdrawn key is not accepted for longer than the TTL: a key that is  *)
(* accepted was published at some time within the TTL before the           *)
(* verification began, however long fetches take, fail, or overlap with    *)
(* rotations.                                                              *)
WithdrawnKeyExpires ==
    outcome = "accepted" => kid \in published \/ since[kid] >= Horizon

(* A key that has been published for the TTL is known: no failed or slow   *)
(* fetch leaves a key set behind that hides it for longer.  The exception  *)
(* is a process without a key set: _fetched_at = 0.0 dates its empty cache *)
(* at the start of the host, and it knows no key until the host has been   *)
(* up for the TTL, and at no later time.                                   *)
PublishedKeyIsKnown ==
    outcome = "unknown kid" => \/ kid \notin published
                               \/ since[kid] >= Horizon
                               \/ ~fetched /\ now < Ttl

-----------------------------------------------------------------------------
(* "The verifier fetches the public keys on first use" (jwks.py:4): no     *)
(* published key is called unknown by a process that has never fetched the *)
(* keys.                                                                   *)
FetchedOnFirstUse == outcome = "unknown kid" /\ kid \in published => fetched

=============================================================================

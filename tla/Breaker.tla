------------------------------ MODULE Breaker ------------------------------
(***************************************************************************)
(* The state of one cce_service.circuit_breaker.CircuitBreaker object and  *)
(* the four things its methods do to it.  Each operator is what one        *)
(* `with self._lock` block does, so a step that applies one of them is     *)
(* atomic in the code.                                                     *)
(*                                                                         *)
(* `age` is time.monotonic() - self._last_failure_time, counted in ticks   *)
(* and stopped at RecoveryTimeout: the code only ever compares the elapsed *)
(* time with recovery_timeout, so larger ages are indistinguishable.       *)
(***************************************************************************)
EXTENDS Naturals

CONSTANTS FailureThreshold,  \* failure_threshold (5 for the dispatch breaker)
          RecoveryTimeout    \* recovery_timeout, in ticks

ASSUME BreakerAssumption == /\ FailureThreshold \in Nat \ {0}
                            /\ RecoveryTimeout \in Nat \ {0}

BreakerStates == {"closed", "open", "half_open"}

BreakerType == [state : BreakerStates, failure_count : Nat, age : 0..RecoveryTimeout]

(* __init__: a breaker is born closed with no recorded failure. *)
NewBreaker == [state |-> "closed", failure_count |-> 0, age |-> 0]

\* Seeded bug: the cool-down is never noticed.
MaybeTransitionNever(b) == b

\* Seeded bug: the elapsed time is compared with a timeout that is one tick short.
MaybeTransitionEarly(b) ==
    IF b.state = "open" /\ b.age + 1 >= RecoveryTimeout
    THEN [b EXCEPT !.state = "half_open"]
    ELSE b

(* _maybe_transition_locked: an open breaker that has cooled down half-opens. *)
MaybeTransition(b) ==
    IF b.state = "open" /\ b.age >= RecoveryTimeout
    THEN [b EXCEPT !.state = "half_open"]
    ELSE b

(* call() raises CircuitBreakerOpenError when the breaker is still open. *)
Rejects(b) == MaybeTransition(b).state = "open"

(* The `except Exception` block of call(): the failure is counted and      *)
(* time-stamped in every state, also when the breaker is already open.     *)
OnFailure(b) ==
    [state |-> IF b.failure_count + 1 >= FailureThreshold THEN "open" ELSE b.state,
     failure_count |-> b.failure_count + 1,
     age |-> 0]

\* Seeded bug: any success closes the breaker, also the late one of a call that
\* was admitted before the breaker opened.
OnSuccessAnyState(b) == [b EXCEPT !.state = "closed", !.failure_count = 0]

\* Seeded bug: a successful trial closes the breaker and keeps the old count.
OnSuccessKeepCount(b) ==
    IF b.state = "half_open" THEN [b EXCEPT !.state = "closed"] ELSE b

(* The `else` block of call(): only a half-open breaker reacts to success. *)
OnSuccess(b) ==
    IF b.state = "half_open"
    THEN [b EXCEPT !.state = "closed", !.failure_count = 0]
    ELSE b

(* One tick of the monotonic clock. *)
Aged(b) == [b EXCEPT !.age = IF b.age < RecoveryTimeout THEN b.age + 1 ELSE b.age]

=============================================================================

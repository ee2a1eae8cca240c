--------------------------- MODULE CircuitBreaker ---------------------------
(***************************************************************************)
(* One CircuitBreaker object shared by several threads.  call() takes the  *)
(* lock twice, once to admit or reject the call and once to record its     *)
(* outcome, and runs the downstream function in between without the lock:  *)
(* any number of other calls, and any amount of time, fit in that gap.     *)
(***************************************************************************)
EXTENDS Breaker, FiniteSets

CONSTANTS Callers,   \* threads that use the breaker
          MaxCalls   \* bound: calls made in one behaviour

ASSUME CallersAssumption == MaxCalls \in Nat

VARIABLES breaker,   \* the shared object
          admitted,  \* breaker state a thread's running call was admitted in, or "none"
          calls,     \* calls made so far
          streak     \* failures since the last success: what "consecutive" counts

breakerVars == <<breaker, admitted, calls, streak>>

BreakerTypeOK ==
    /\ breaker \in BreakerType
    /\ admitted \in [Callers -> {"none", "closed", "half_open"}]
    /\ calls \in 0..MaxCalls
    /\ streak \in Nat

BreakerInit ==
    /\ breaker = NewBreaker
    /\ admitted = [c \in Callers |-> "none"]
    /\ calls = 0
    /\ streak = 0

(* The first locked block lets the call through. *)
Admit(c) ==
    /\ admitted[c] = "none"
    /\ calls < MaxCalls
    /\ ~Rejects(breaker)
    /\ breaker' = MaybeTransition(breaker)
    /\ admitted' = [admitted EXCEPT ![c] = MaybeTransition(breaker).state]
    /\ calls' = calls + 1
    /\ UNCHANGED streak

(* The first locked block raises CircuitBreakerOpenError. *)
FastFail(c) ==
    /\ admitted[c] = "none"
    /\ calls < MaxCalls
    /\ Rejects(breaker)
    /\ calls' = calls + 1
    /\ UNCHANGED <<breaker, admitted, streak>>

(* The downstream function raised: the second locked block, except branch. *)
RecordFailure(c) ==
    /\ admitted[c] # "none"
    /\ breaker' = OnFailure(breaker)
    /\ admitted' = [admitted EXCEPT ![c] = "none"]
    /\ streak' = streak + 1
    /\ UNCHANGED calls

(* The downstream function returned: the second locked block, else branch. *)
RecordSuccess(c) ==
    /\ admitted[c] # "none"
    /\ breaker' = OnSuccess(breaker)
    /\ admitted' = [admitted EXCEPT ![c] = "none"]
    /\ streak' = 0
    /\ UNCHANGED calls

(* Time passes. *)
BreakerTick ==
    /\ breaker.age < RecoveryTimeout
    /\ breaker' = Aged(breaker)
    /\ UNCHANGED <<admitted, calls, streak>>

BreakerNext ==
    \/ \E c \in Callers : \/ Admit(c)
                          \/ FastFail(c)
                          \/ RecordFailure(c)
                          \/ RecordSuccess(c)
    \/ BreakerTick

BreakerSpec == BreakerInit /\ [][BreakerNext]_breakerVars

-----------------------------------------------------------------------------
(* The state and the counter, which different locked blocks write, never   *)
(* disagree: the breaker is closed exactly while fewer than threshold      *)
(* failures are counted.  This is what makes a single failed trial reopen  *)
(* a half-open breaker, although call() has no branch for that case.       *)
StateMatchesCount ==
    breaker.state = "closed" <=> breaker.failure_count < FailureThreshold

(* A half-open breaker has seen no failure for recovery_timeout: a late    *)
(* failure of a call admitted earlier always reopens it and restarts the   *)
(* cool-down, so the downstream is left alone for the whole timeout after  *)
(* the last failure anybody reported.                                      *)
HalfOpenIsCool ==
    breaker.state = "half_open" => breaker.age = RecoveryTimeout

(* No interleaving skips the trial phase: while the breaker is open, the   *)
(* late outcome of a call admitted before it opened never closes it, and   *)
(* a failure any thread reports leaves the breaker open or still counting  *)
(* below the threshold, never half-open.                                   *)
TrialPhaseNotSkipped ==
    [][ /\ breaker.state = "open" => breaker'.state # "closed"
        /\ breaker'.failure_count > breaker.failure_count =>
              breaker'.state # "half_open" ]_breakerVars

-----------------------------------------------------------------------------
(* What the module's docstring says.                                       *)

(* "After N consecutive failures, the circuit opens": a closed breaker     *)
(* opens only when the last N recorded outcomes were all failures.         *)
OpensOnConsecutiveFailures ==
    [][ breaker.state = "closed" /\ breaker'.state = "open"
            => streak' >= FailureThreshold ]_breakerVars

(* "After the recovery timeout, one trial request (half-open) determines   *)
(* whether the circuit closes again or re-opens": at most one call         *)
(* admitted by the half-open breaker is running.                           *)
OneTrialRequest ==
    Cardinality({c \in Callers : admitted[c] = "half_open"}) <= 1

=============================================================================

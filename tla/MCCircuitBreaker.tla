-------------------------- MODULE MCCircuitBreaker --------------------------
(* Three interchangeable threads on one breaker.                           *)
EXTENDS CircuitBreaker, TLC

CallerSymmetry == Permutations(Callers)
=============================================================================

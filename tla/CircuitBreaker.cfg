\* Three threads, threshold 2, a cool-down of 2 ticks, at most 8 calls.
SPECIFICATION BreakerSpec
CONSTANTS
    Callers = {c1, c2, c3}
    c1 = c1
    c2 = c2
    c3 = c3
    FailureThreshold = 2
    RecoveryTimeout = 2
    MaxCalls = 8
SYMMETRY CallerSymmetry
INVARIANTS StateMatchesCount HalfOpenIsCool
PROPERTY TrialPhaseNotSkipped
\* the behaviour ends when MaxCalls calls were made
CHECK_DEADLOCK FALSE

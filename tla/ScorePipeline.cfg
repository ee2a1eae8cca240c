\* Two jobs, two requests at a time, two consumers, two faults anywhere; one
\* failure opens a breaker.
SPECIFICATION FairSpec
CONSTANTS
    Jobs = {j1, j2}
    Tenants = {t1}
    Commits = {c1, c2}
    Hashes <- MCHashes
    RecordHash <- MCRecordHash
    NoHash <- MCNoHash
    NoId = NoId
    NoTenant = NoTenant
    Apis = {a1, a2}
    Workers = {w1, w2}
    MaxAttempts = 2
    MaxFaults = 2
    FailureThreshold = 1
    RecoveryTimeout = 1
INVARIANTS SingleOwner CopiesAgree SucceededHasRecord
           FaultsBoundLoss CounterTracksRows
PROPERTIES TerminalIsFinal ImplementsJobLifecycle JobsSettle
\* everything is at rest once all jobs are finished and all faults spent
CHECK_DEADLOCK FALSE

\* Two tenants score the same commit; no fault.
SPECIFICATION Spec
CONSTANTS
    Jobs = {j1, j2}
    j1 = j1
    j2 = j2
    Tenants = {t1, t2}
    t1 = t1
    t2 = t2
    Commits = {c1}
    c1 = c1
    Hashes <- MCHashes
    RecordHash <- MCRecordHash
    NoHash <- MCNoHash
    NoId = NoId
    NoTenant = NoTenant
    Apis = {a1}
    a1 = a1
    Workers = {w1}
    w1 = w1
    MaxAttempts = 2
    MaxFaults = 0
    FailureThreshold = 2
    RecoveryTimeout = 1
INVARIANT SucceededRecordReadable
CHECK_DEADLOCK FALSE

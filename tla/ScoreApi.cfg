\* Three loads: creation with a rate window observed from any moment, creation
\* with a client that polls the audit log, records that are stored and read.
SPECIFICATION ApiSpec
CONSTANTS
    Replicas = {r1, r2}
    r1 = r1
    r2 = r2
    Keys <- MCKeys
    Capacity <- MCCapacity
    Refill <- MCRefill
    Unit = 2
    MaxTime = 2
    Tokens <- MCTokens
    Poller <- MCPoller
    Deployment <- MCDeployment
    Loads <- MCLoads
    Workers = {"w1", "w2"}
    Ahead <- MCAhead
    Hashes = {"h1"}
    MaxAttempts = 2
VIEW MCView
SYMMETRY Symmetry
INVARIANTS WindowBound JobsWithinRate MissedWereInFlight AckedUpsertVisible
PROPERTIES ImplementsTokenBucket AnswersWithinRights RecordNeverOlder

\* Up to four messages of 0 to 4 bytes against a limit of 3.
SPECIFICATION LimitSpec
CONSTANTS
    MaxBytes = 3
    Lengths <- MCLengths
    ChunkSizes = {0, 1, 2, 4}
    MaxChunks = 4
    AppStatuses = {200, 400, 404}
INVARIANTS OneResponse LimitDecides
\* the behaviour ends with the request
CHECK_DEADLOCK FALSE

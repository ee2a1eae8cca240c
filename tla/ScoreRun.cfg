\* Every combination of arguments in three images; two changes to the checkout
\* at any time.
SPECIFICATION Spec
CONSTANTS
    Commits <- MCCommits
    Sources <- MCSources
    Tree <- MCTree
    Values <- MCValues
    Environments <- MCEnvironments
    None = None
    MaxEdits = 2
INVARIANTS CloneRemoved TimingsInOrder CountedOnce SpansFollowStages PinnedVerified
           CleanRunsReproduce
\* the behaviour ends with the run
CHECK_DEADLOCK FALSE

\* Three calls, as many as the retry decorator makes for one job.
SPECIFICATION FairSpec
CONSTANTS
    MaxDispatches = 3
    BootWait = 1
    Wallclock = 2
INVARIANTS BootedCallsCleanUp HandleIsOwnVm
PROPERTY DispatchReturns
\* the behaviour ends after MaxDispatches calls
CHECK_DEADLOCK FALSE

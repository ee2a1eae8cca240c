\* Three runs, one after the other or two at a time overlapping, with two errors or kills.
SPECIFICATION Spec
CONSTANTS
    Runs = {r1, r2, r3}
    r1 = r1
    r2 = r2
    r3 = r3
    Seconds = {s1, s2}
    s1 = s1
    s2 = s2
    Lengths = {1, 2}
    None = None
    MaxActive = 2
    MaxFaults = 2
SYMMETRY Sym
INVARIANTS TargetsWhole RerunRepairs WholeInTheEnd
\* the behaviour ends when every run has ended
CHECK_DEADLOCK FALSE

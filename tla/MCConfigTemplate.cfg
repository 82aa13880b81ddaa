\* Two invocations at a time or one after the other under one process id; the
\* system calls of one of them may fail.
CONSTANTS
    Procs = {p1, p2}
    Pids = {i1, i2}
    Faulty = {p2}
SPECIFICATION FairSpec
INVARIANTS
    TypeOK
    TargetWhole
PROPERTIES
    NeverWidened
    ForceInstalls

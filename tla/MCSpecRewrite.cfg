\* Every combination of the keywords in three positions.
CONSTANTS
    Absent = Absent
    Specs <- MCSpecs
    Stripped <- MCStripped
    Depth = 12
    Steps = 5
    Instances <- MCInstances
SPECIFICATION Spec
\* A build ends.
CHECK_DEADLOCK FALSE
INVARIANTS
    LiftExact
    OnlyRelaxed
    RefsResolve
    TypifyReady

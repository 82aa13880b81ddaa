\* Documents that name a schema as lifting would.
CONSTANTS
    Absent = Absent
    Specs <- OwnLifted
    Stripped <- MCStripped
    Depth = 12
    Steps = 5
    Instances <- MCInstances
SPECIFICATION Spec
\* A build ends.
CHECK_DEADLOCK FALSE
INVARIANTS
    ExistingSchemaWins

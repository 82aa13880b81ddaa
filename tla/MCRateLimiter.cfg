\* A bucket of two and a period that Rate does not divide; three callers, so
\* that callers are denied and overtaken.
CONSTANTS
    Callers = {c1, c2, c3}
    Rate = 2
    Per = 5
    Horizon = 4
SPECIFICATION MCFairSpec
INVARIANTS
    TypeOK
    Conformance
    DebtBounded
    HeldBackOnlyWhenSpent
PROPERTIES
    EveryCallerGranted

\* ARCHITECTURE.md's rolling window, with a rate that divides the period.
CONSTANTS
    Callers = {c1, c2, c3}
    Rate = 2
    Per = 4
    Horizon = 6
SPECIFICATION MCSpec
SYMMETRY CallerSymmetry
INVARIANTS
    RollingWindowQuota

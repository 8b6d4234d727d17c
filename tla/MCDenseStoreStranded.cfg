SPECIFICATION Spec
CONSTANTS
    i1 = i1
    i2 = i2
    v1 = v1
    v2 = v2
    Absent = Absent
    NRows = 5
    Identities <- MCOneIdentity
    Variants <- MCVariants
    BatchSizes <- MCBatchSizes
    Intervals <- MCIntervals
    Budgets <- MCBudgets
INVARIANT
    BoundOwnerIsNeverRefused

SPECIFICATION FairSpec
CONSTANTS
    i1 = i1
    i2 = i2
    v1 = v1
    v2 = v2
    Absent = Absent
    NRows = 5
    Identities <- MCIdentities
    Variants <- MCVariants
    BatchSizes <- MCBatchSizes
    Intervals <- MCIntervals
    Budgets <- MCBudgets
INVARIANTS
    CheckpointLoads
    SealedStoreIsWhole
    LostWorkIsBounded
PROPERTIES
    ImplementsResumableBuild
    EventuallySealedOrStranded

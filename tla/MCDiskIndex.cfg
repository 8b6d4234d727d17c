SPECIFICATION FairSpec
CONSTANTS
    b1 = b1
    b2 = b2
    r1 = r1
    Absent = Absent
    Torn = Torn
    MaxEdits = 2
    MaxLosses = 1
    Builders <- MCBuilders
    Readers <- MCReaders
    ChunksOf <- MCChunksOf
INVARIANTS
    TypeOK
    AnswersAreOfTheNamedIndex
    ManifestNamesDatabase
PROPERTY
    EventuallyIndexedOrDeadEnd

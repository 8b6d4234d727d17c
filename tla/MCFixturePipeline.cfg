SPECIFICATION Spec
CONSTANTS
    r1 = r1
    r2 = r2
    None = None
    MaxEdits = 2
    MaxKills = 1
    Runs <- MCRuns
    Versions <- MCVersions
INVARIANTS
    WritesWhatWasApproved
    MixedOnlyAfterFault
    ManifestValidatesWhenAllReturned
CHECK_DEADLOCK FALSE

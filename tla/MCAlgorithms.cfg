SPECIFICATION MCSpec
CONSTANTS
    NRows = 4
    MaxLimit = 3
    Scores <- MCScores
    Texts <- MCTexts
    Grams <- MCGrams
    Length <- MCLength
    Num = 2
    Den = 3
    Sizes <- MCSizes
    Digest <- MCDigest
    Scale = 10
INVARIANTS
    SearchTypeOK
    BatchIsExact
    PlainScoresAreBest
    CandidatesAreExact
    NothingLeaks
CHECK_DEADLOCK FALSE

SPECIFICATION Spec
CONSTANTS
    f1 = f1
    f2 = f2
    r1 = r1
    r2 = r2
    a1 = a1
    a2 = a2
    NoFile = NoFile
    NQuestions = 2
    FrozenInputs <- MCFrozenInputs
    Rankings <- MCRankings
    Answers <- MCAnswers
INVARIANT
    UnfinishedGenerationIsResumable

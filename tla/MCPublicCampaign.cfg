SPECIFICATION Spec
CONSTANTS
    h1 = h1
    h2 = h2
    s1 = s1
    s2 = s2
    a1 = a1
    a2 = a2
    Refusal = Refusal
    NoFile = NoFile
    NQuestions = 3
    BatchSize = 2
    Hosts <- MCHosts
    Sources <- MCSources
    Answers <- MCAnswers
    KeyOf <- MCKeyOf
    Answerable <- MCAnswerable
INVARIANTS
    DirectoriesOfOneRun
    SubmissionIsWhatWasAnswered
SYMMETRY
    MCSymmetry

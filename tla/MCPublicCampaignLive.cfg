SPECIFICATION FairSpec
CONSTANTS
    h1 = h1
    h2 = h2
    s1 = s1
    s2 = s2
    a1 = a1
    a2 = a2
    Refusal = Refusal
    NoFile = NoFile
    NQuestions = 3
    BatchSize = 2
    Hosts <- MCHosts
    Sources <- MCOneSource
    Answers <- MCAnswers
    KeyOf <- MCKeyOf
    Answerable <- MCAnswerable
PROPERTY
    EventuallyPublishedOrStuck

SPECIFICATION FairSpec
CONSTANTS
    w1 = w1
    w2 = w2
    w3 = w3
    p1 = p1
    c1 = c1
    c2 = c2
    NoFile = NoFile
    NChunks = 1
    Writers <- MCWriters
    Paths <- MCPaths
    Contents <- MCContents
INVARIANTS
    TypeOK
    NoTornArtifact
    ResultIsTruthful
PROPERTIES
    NeverReplaced
    ImplementsWriteOnce
    CallsReturn

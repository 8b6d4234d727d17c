SPECIFICATION Spec
CONSTANTS
    p = p
    q = q
    Procs <- MCProcs
    Scopes <- MCScopes
    Stock <- MCStock
    Exchanges <- MCExchanges
INVARIANTS
    AcceptedInputsAgree
    CoherentUnlessTorn
    SetOfOneRun
    NamedFilesExist
    RerunsReproduce
PROPERTIES
    LabelsAreKept

CONSTANTS
    Outputs = 2
    Inputs = 2
    Pieces = 2
    MaxSessions = 3
SPECIFICATION Spec
INVARIANTS
    TypeOK
    HonestHostIsServed
    PrehashIsWhole
    SignsWhatWasHashed
    NothingFromElsewhere

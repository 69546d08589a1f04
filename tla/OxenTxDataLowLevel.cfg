CONSTANTS
    Outputs = 2
    Inputs = 2
    Pieces = 2
    MaxSessions = 1
SPECIFICATION Spec
INVARIANT LowLevelRemainsAvailable

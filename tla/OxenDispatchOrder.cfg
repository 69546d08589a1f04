CONSTANTS
    MaxP2 = 1
    MaxSign = 1
    TxTypes = {"STANDARD"}
SPECIFICATION Spec
INVARIANT DocumentedOrder

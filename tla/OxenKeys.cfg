SPECIFICATION Spec
CONSTANTS
    Pairs = {seedPair, pairA}
    SeedPair = seedPair
    MaxTx = 2
    MaxHeld = 2
INVARIANTS
    TypeOK
    OpensWhatThisTransactionSealed
    SecretsBelongTogether

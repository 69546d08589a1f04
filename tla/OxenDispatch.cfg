CONSTANTS
    MaxP2 = 2
    MaxSign = 2
    TxTypes = {"STANDARD", "UNLOCK"}
SPECIFICATION FairSpec
INVARIANTS
    TypeOK
    OneTransactionAtATime
    PlaceIsEarned
    NonceSignsOnce
    LockedIsQuiet
    SpecialHasItsOwnConsent
    QuestionIsOnDisplay
PROPERTIES
    SignsOnlyAccepted
    NonceIsFresh
    TransactionIsFixed
    ImplementsSession
    LockIsReleased
    QuestionIsAnswered
    SequenceIsFreed

SPECIFICATION Spec
CONSTANTS
    Program <- MCProgram
    PinRequired <- MCPinRequired
    TransactionRequired <- MCTransactionRequired
    Inside <- MCInside
    Outside <- MCOutside
    Locking <- MCLocking
    MONERO_IO_BUFFER_LENGTH = 288
    MONERO_APDU_LENGTH = 254
INVARIANTS
    TypeOK
    FieldsReadWhereSent
    PointersReadTheMessage
    AnswersFit
    QuestionsCanBeAnswered
PROPERTIES
    AnswersAreFresh
    OnlyAnOverwrittenModeAnswersUnasked

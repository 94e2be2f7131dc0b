SPECIFICATION FairSpec
CONSTANTS
    Calls <- AllCalls
    Unsolicited <- OutOfTurn
    Statuses <- Answered
    EarlyAnswers <- SendAnswers
    DataAfterError = TRUE
INVARIANTS
    TypeOK
    CommandWellFormed
    AnswerDecoded
    NothingLeft
PROPERTIES
    ErrorReported
    CallReturns

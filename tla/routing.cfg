CONSTANTS
    Operations <- GreengrassOperations
    KnownErrors <- RegisteredErrors
    MaxMessages = 3
SPECIFICATION FairSpec
INVARIANTS
    AnswerFits
    HandlerFits
    MessageReported
PROPERTY FailedActivationCloses
CHECK_DEADLOCK FALSE

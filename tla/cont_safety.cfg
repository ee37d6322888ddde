CONSTANTS
    AppThreads = {a1, a2}
    Loop = loop
    Inner = inner
    MaxOps = 4
    SendMayFail = TRUE
SPECIFICATION Spec
SYMMETRY Symmetry
INVARIANTS
    PromiseCompletedOnce
    ResultHeldOnce
    TokenReferencesBalanced
    ImplOutlivesToken
    NoStreamEventAfterShutDown
    StateMatchesToken
PROPERTY
    ImplementsOperation

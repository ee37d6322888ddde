CONSTANTS
    AppThreads = {a1, a2}
    Loops = {l1, l2}
    MaxConnects = 2
    ShutdownCodes = {"ok", "err"}
SPECIFICATION Spec
SYMMETRY Symmetry
INVARIANTS
    TypeOK
    ConnectPromiseHeldOnce
    ReferencesBalanced
    ImplOutlivesCLayer
    SetupAssertions
    UnderlyingCoherent
    CloseTakesEffect
    SuccessOnlyIfAccepted
    CallbackOrder
    FlushCallbackAtMostOnce
PROPERTIES
    ImplementsContract

CONSTANTS
    AppThreads = {a1}
    Loops = {l1}
    MaxConnects = 1
    ShutdownCodes = {"err"}
SPECIFICATION Spec
INVARIANT OnConnectOnlyIfAccepted

CONSTANTS
    AppThreads = {a1, a2}
    Loop = loop
    Inner = inner
    MaxOps = 3
    SendMayFail = FALSE
SPECIFICATION Spec
INVARIANT TerminatedOffStack

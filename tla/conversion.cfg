SPECIFICATION Spec
CONSTANTS
    ModelShapes <- MCModelShapes
    MaxMembers = 3
INVARIANT SentAsBuilt
INVARIANT LoadedAsSaid
CHECK_DEADLOCK FALSE

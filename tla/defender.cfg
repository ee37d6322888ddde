CONSTANTS
    App = app
    Loop = loop
    MaxTasks = 3
    MaxBuilds = 2
SPECIFICATION FairSpec
INVARIANTS
    LiveTaskOwned
    CallbackWhileAlive
    RunningIsLive
PROPERTIES
    HandlerTold
    CallsReturn
CHECK_DEADLOCK FALSE

\* Safety of the service clients and the secure tunnel; the bounded world ends.
SPECIFICATION Spec
CONSTANTS
    Requests = {r1, r2}
    Operations <- MCOperations
    Streams <- MCStreams
    Executions = {"e1", "e2"}
    MaxPublishes = 2
    Objects = {o1, o2}
    Tunnels = {c1, c2}
INVARIANTS ResultIsAnswer OwnerIsTold
PROPERTY AnswerHeard
SYMMETRY MCSymmetry
CHECK_DEADLOCK FALSE

SPECIFICATION Spec
CONSTANTS
    Ports = {p, q}
    Packets <- SomePackets
    MaxTasks = 2
    MaxCalls = 1
    MaxMishaps = 1
    Retries = 2
    p = p
    q = q
INVARIANTS TasksInv ToldInOrder MappedInProgress OneInProgress SuccessIsReal
PROPERTIES EachEnds
CHECK_DEADLOCK FALSE

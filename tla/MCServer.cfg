CONSTANTS
    Workers = {w1, w2}
    Clients = {c1, c2, c3}
    None = None
    MaxErrors = 1
    MaxFailures = 1
SPECIFICATION Spec
INVARIANTS
    RegistryExact
    CountExplained
PROPERTIES
    EventuallyAccepted
    EventuallyStopped
CHECK_DEADLOCK FALSE

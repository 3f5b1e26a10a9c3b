CONSTANTS
    Pipelines <- MCPipelines
    MaxCapacity = 6
SPECIFICATION Spec
INVARIANTS
    ParsedAsSent
    ArityAsAccepted
    KeysAsDescribed
CHECK_DEADLOCK FALSE

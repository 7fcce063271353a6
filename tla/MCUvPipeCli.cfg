CONSTANTS
    Senders = {s1}
    Loop = Loop
    NULL = NULL
    MaxSend = 3
SPECIFICATION CliSpec
INVARIANTS
    WireInOrder
    WritesAccounted
    NoStrandedData
PROPERTIES
    TriggerOnlyAlive
    BufferDrained
    CloseCompletes
CHECK_DEADLOCK FALSE

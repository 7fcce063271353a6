CONSTANTS
    Senders = {s1, s2}
    Loop = Loop
    NULL = NULL
    ClosingRead = {FALSE}
    MaxPackets = 5
    Blocks = {b1, b2, b3}
    NoBlock = NoBlock
SPECIFICATION SockSpec
CHECK_DEADLOCK FALSE
INVARIANTS
    RequestsExact
    NoStrandedPacket
    TriggerOnlyActive
    HandlesAccounted
PROPERTIES
    UdpCloseCompletes

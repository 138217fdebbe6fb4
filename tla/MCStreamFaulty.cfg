\* Resets, and WebSocketStreams dropped early.
CONSTANTS
    WriteLen = 0
    MaxOut = 2
    Cap = 1
    MaxSend <- Send20
    SendOps = {"Data", "Ping", "Close"}
    MaxBeforeClose = 2
    Faulty = TRUE
SPECIFICATION Spec
PROPERTIES
    ImplementsChannel
INVARIANTS
    ReturnsInOrder
    CleanEndIsComplete

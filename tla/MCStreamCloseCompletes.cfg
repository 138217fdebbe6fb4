\* poll_close is complete before the close handshake.
CONSTANTS
    WriteLen = 0
    MaxOut = 4
    Cap = 1
    MaxSend <- Send11
    SendOps = {"Data", "Close"}
    MaxBeforeClose = 2
    Faulty = FALSE
SPECIFICATION Spec
INVARIANTS
    CloseIsComplete

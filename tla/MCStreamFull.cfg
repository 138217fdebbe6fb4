\* A write buffer of one frame, so that messages are refused.
CONSTANTS
    WriteLen = 0
    MaxOut = 1
    Cap = 1
    MaxSend <- Send12
    SendOps = {"Data", "Ping", "Close"}
    MaxBeforeClose = 2
    Faulty = FALSE
SPECIFICATION Spec
INVARIANTS
    ExactlyOnceInOrder
    CloseIsSent

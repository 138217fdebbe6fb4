\* poll_close sets ready while the Sink is still blocked.
CONSTANTS
    WriteLen = 0
    MaxOut = 4
    Cap = 1
    MaxSend <- Send11
    SendOps = {"Data", "Close"}
    MaxBeforeClose = 2
    Faulty = FALSE
SPECIFICATION Spec
PROPERTIES
    ReadyMeansFlushed

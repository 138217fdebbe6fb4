\* Both endpoints send and may close; the write buffer is never full.
CONSTANTS
    WriteLen = 0
    MaxOut = 6
    Cap = 1
    MaxSend <- Send21
    SendOps = {"Data", "Ping", "Close"}
    MaxBeforeClose = 2
    Faulty = FALSE
SPECIFICATION Spec
INVARIANTS
    TypeOK
    ExactlyOnceInOrder
    FlushIsComplete
    CloseIsSent
    NothingAfterClose
    BoundedBacklog

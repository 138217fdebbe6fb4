\* Buffered writes, more than the transport holds: both endpoints send two
\* messages that ask for replies, and close by either method.
CONSTANTS
    WriteLen = 1
    MaxOut = 5
    Cap = 1
    MaxSend <- Send22
    SendOps = {"Ping", "Close"}
    MaxBeforeClose = 1
    Faulty = FALSE
SPECIFICATION FairSpec
INVARIANTS
    FlushIsComplete
    CloseIsSent
PROPERTIES
    CloseEndsBoth
    AcceptedArrives

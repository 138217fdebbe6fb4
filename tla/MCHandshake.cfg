\* Requests and responses longer than the transport holds, early messages.
CONSTANTS
    RequestLen = 4
    ResponseLen = 4
    Early = 2
    Cap = 3
SPECIFICATION FairSpec
INVARIANTS
    TypeOK
    NeverPolledAfterCompletion
    OutcomesAgree
    EarlyMessagesKept
PROPERTIES
    HandshakeEnds

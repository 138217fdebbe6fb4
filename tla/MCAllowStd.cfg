\* The waker proxies over a stream whose operations may touch either direction
\* of the socket, which includes all that a plain socket does.
CONSTANTS
    Tasks = {t1, t2}
    Wakers = {w1}
    NoTask = NoTask
    Tls = TRUE
SPECIFICATION FairSpec
INVARIANTS
    TypeOK
    NoLostWakeup
    WakeupArranged
PROPERTIES
    WakeupDelivered

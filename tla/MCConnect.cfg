\* Every build, URL, connector and entry point.
CONSTANTS
    Host <- MCHost
    Ipv6 = {"address"}
    Unusual = {"odd"}
    Ports = {443}
    MaxFrames = 1
SPECIFICATION FairSpec
INVARIANTS
    TypeOK
    SecureIfWss
    BadUrlSendsNothing
    GuessedPortFits
    RustlsTakesAddresses
    FlushReachesSocket
    ShutdownIsComplete
PROPERTIES
    ConnectEnds

\* Three connections from three addresses; their clients send text.
CONSTANTS
    Conn = {c1, c2, c3}
    Addr = {a1, a2, a3}
    NoConn = none
    MaxActs = 3
    Kinds = {"text"}
    EarlyReuse = FALSE
SYMMETRY Alike
SPECIFICATION Spec
INVARIANTS
    TypeOK
    NoBroadcastFails
    ClientsAreInRoom
PROPERTIES
    ImplementsRoom

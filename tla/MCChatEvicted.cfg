\* An address comes back before its old connection was noticed to be gone.
CONSTANTS
    Conn = {c1, c2}
    Addr = {a1}
    NoConn = none
    MaxActs = 1
    Kinds = {"text"}
    EarlyReuse = TRUE
SPECIFICATION Spec
INVARIANTS
    ClientsAreInRoom

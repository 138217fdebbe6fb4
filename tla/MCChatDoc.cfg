\* One client sends what is no text.
CONSTANTS
    Conn = {c1, c2}
    Addr = {a1, a2}
    NoConn = none
    MaxActs = 2
    Kinds = {"text", "binary"}
    EarlyReuse = FALSE
SPECIFICATION Spec
INVARIANTS
    TextersAreServed

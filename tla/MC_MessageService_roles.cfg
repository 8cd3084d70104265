SPECIFICATION NoSelfSpec
CONSTANTS
    Users = {u1, u2}
    Calls = {h1, h2}
    Conns = {c1, c2}
    NoConn = none
    MaxRetries = 0
    MaxFailovers = 1
SYMMETRY Symmetry
INVARIANTS
    NoDuplicatePts
CHECK_DEADLOCK FALSE

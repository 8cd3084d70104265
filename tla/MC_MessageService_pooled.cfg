SPECIFICATION NoSelfSpec
CONSTANTS
    Users = {u1, u2}
    Calls = {h1, h2}
    Conns = {c1, c2}
    NoConn = none
    MaxRetries = 0
    MaxFailovers = 0
SYMMETRY Symmetry
INVARIANTS
    PersistedPtsIsDurable
CHECK_DEADLOCK FALSE

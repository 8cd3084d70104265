SPECIFICATION PairSpec
CONSTANTS
    Users = {u1, u2}
    Gateways = {g1, g2}
    Addr = {}
    GRPCAddr = {g1, g2}
    Sessions = {s1, s2}
    Msgs = {m1, m2}
    NoGateway = none
    NoSession = nosession
    ChanCap = 2
    u1 = u1
    u2 = u2
    s1 = s1
    s2 = s2
INVARIANTS
    PtsOrder
CHECK_DEADLOCK FALSE

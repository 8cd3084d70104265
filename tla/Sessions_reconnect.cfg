SPECIFICATION FairSpec
CONSTANTS
    Users = {u1}
    Gateways = {g1}
    Addr = {g1}
    GRPCAddr = {}
    Sessions = {s1, s2}
    NoGateway = none
    NoSession = nosession
PROPERTIES
    ReconnectHeard
CHECK_DEADLOCK FALSE

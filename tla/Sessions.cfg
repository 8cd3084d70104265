SPECIFICATION FairSpec
CONSTANTS
    Users = {u1}
    Gateways = {g1, g2, g3}
    Addr = {g1}
    GRPCAddr = {g2}
    Sessions = {s1, s2}
    NoGateway = none
    NoSession = nosession
INVARIANTS
    TypeOK
    MapOnlyLive
    OwnChannel
PROPERTIES
    LastSessionHeard
    GoneForgotten
CHECK_DEADLOCK FALSE

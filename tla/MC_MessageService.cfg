SPECIFICATION Spec
CONSTANTS
    Users = {u1, u2}
    Calls = {h1, h2}
    Conns = {c1, c2}
    NoConn = none
    MaxRetries = 0
    MaxFailovers = 2
SYMMETRY Symmetry
CHECK_DEADLOCK FALSE
INVARIANTS
    TypeOK
    OneTimeline
    AnswerIsTrue
    SoundWaitIsDurable
    SoundTimeline
    LaterCallHigherPts
PROPERTIES
    ImplementsLog

\* go-redis re-sends once, one connection for two calls (the pool is exhausted
\* while either holds it), one failover: liveness, and numbers under re-sent INCRs
\* and counters that go back.
SPECIFICATION MCSpec
CONSTANTS
    Me = me
    note = note
    sent = sent
    Incoming <- MCIncoming
    Outgoing <- MCOutgoing
    Users = {me, other}
    Calls = {note, sent}
    Conns = {c1}
    NoConn = none
    MaxRetries = 1
    MaxFailovers = 1
PROPERTIES
    ImplementsStream
    EveryCallReturns
CHECK_DEADLOCK FALSE
ACTION_CONSTRAINTS OneOutage ShortLag

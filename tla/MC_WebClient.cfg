\* Catching up and the web client, safety and liveness.
CONSTANTS
    note = note
    sent = sent
    received = received
    Incoming <- MCIncoming
    Outgoing <- MCOutgoing
    Numbers <- MCNumbers
    Limit = 2
    Asks <- MCAsks
    MaxAttempts = 1
    MaxConns = 2
    MaxUnderway = 2
    MaxReloads = 1
    OthersPts <- MCOthersPts
SPECIFICATION WebSpec
INVARIANTS
    WebTypeOK
    NothingSkipped
    EndIsEnd
    CurrentNotBehind
    AckIsForIts
    MissedIsAnnounced
PROPERTIES
    LocalPtsKept
    CatchesUp
    ReconnectsOrTells
CHECK_DEADLOCK FALSE
ACTION_CONSTRAINTS
    TwoForDevice
    SimplePage
    FewTabs

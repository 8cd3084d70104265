---------------------------- MODULE MessageStream ----------------------------
(***************************************************************************)
(* What one user sees of MessageService: the calls that are about him,     *)
(* each with its numbers on his timeline.  This is the stream that Sync    *)
(* and WebClient are built on.                                             *)
(***************************************************************************)
EXTENDS MessageService

CONSTANTS
    Me,             \* the user
    Incoming,       \* the calls with a message for him
    Outgoing        \* those with a message of his

Addressed == Incoming = {h \in Calls : to[h] = Me} /\ Outgoing = {h \in Calls : from[h] = Me}

Mine == Incoming \cup Outgoing

\* The row of h, as it is or is going to be.
HasRow(h) == \E r \in rows : r.id = h
RowOf(h) == IF HasRow(h) THEN CHOOSE r \in rows : r.id = h ELSE NewRow(h)

\* Which of his numbers h has: those of all its roles, or of the first.
AllDrawn(h) == (h \in Incoming => rpts[h] > 0) /\ (h \in Outgoing => spts[h] > 0)
FirstDrawn(h) == h \in Incoming /\ rpts[h] > 0

StageOf(h) ==
    IF HasRow(h) THEN "stored"
    ELSE IF pc[h] = "done" THEN "failed"
    ELSE IF AllDrawn(h) THEN "drawn"
    ELSE IF FirstDrawn(h) THEN "half" ELSE "unsent"

Stage == [h \in Mine |-> StageOf(h)]

\* His numbers of each call; those its row has once it is stored.
ReceiverPts == [h \in Mine |-> IF h \in Incoming THEN RowOf(h).rpts ELSE 0]
SenderPts == [h \in Mine |-> IF h \in Outgoing THEN RowOf(h).spts ELSE 0]

\* WAIT has run on the connection of h's INCRs, or still can.
Confirmable(h) == sound[h] \/ (pc[h] \in Commands /\ via[h] # NoConn)

FirmCalls == {h \in Mine : StageOf(h) \in {"half", "drawn", "stored"} /\ Confirmable(h)}

UserStream == INSTANCE Stream WITH
    Numbers <- Nat, counter <- Top[Me], stage <- Stage,
    rpts <- ReceiverPts, spts <- SenderPts, firm <- FirmCalls, lost <- failovers > 0

\* PersistMessage keeps what Sync and WebClient assume of it, for each user: calls
\* that overlap, commands that are sent again, errors, crashes and failovers are
\* draws, commits and lost numbers of his stream.
ImplementsStream == UserStream!StreamSpec

AddressedInit == Init /\ Addressed
AddressedSpec == AddressedInit /\ [][Next]_vars
=============================================================================

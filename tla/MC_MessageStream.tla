-------------------------- MODULE MC_MessageStream --------------------------
(* The stream of one user in an instance of MessageService: he writes a    *)
(* note to himself and a message to somebody else.                         *)
EXTENDS MessageStream

CONSTANTS note, sent

MCIncoming == {note}
MCOutgoing == {note, sent}

MCSpec == AddressedSpec /\ Fairness

\* Action constraint: a failover finds no command that was sent again, and afterwards
\* no reply is lost and the service does not die.
OneOutage ==
    failovers' > 0 =>
        /\ \A h \in Calls : answer'[h] # "lost"
        /\ IF failovers' # failovers THEN \A h \in Calls : tries[h] = 0
                                    ELSE \A h \in Calls : tries'[h] <= tries[h]

\* Action constraint: the replica is at most three writes behind, one for each number.
ShortLag == Len(data') <= 4
=============================================================================

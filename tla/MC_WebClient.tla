---------------------------- MODULE MC_WebClient ----------------------------
(* A small instance: two messages sent, two received, one of them from the *)
(* user to himself.                                                        *)
EXTENDS WebClient

CONSTANTS note, sent, received

MCIncoming == {note, received}
MCOutgoing == {note, sent}

\* Four are needed: an INCR that is sent again leaves one too few for the rest.
MCNumbers == 1 .. 4

\* The limits a device asks for: none, one row, and more than it may have.
MCAsks == {0, 1, 3}
MCOthersPts == {2}

\* Action constraints.  The device's user has two messages.
TwoForDevice == watched = "device" =>
    /\ stage'[sent] = "unsent" \/ stage'[received] = "unsent"
    /\ counter' <= 3

\* A page does not ask what is firm, and sees at most one failover, with two messages
\* and one connection; one that was loaded again and connected again sends or receives.
SimplePage == watched = "page" =>
    /\ firm' = {}
    /\ IF lost THEN counter' >= counter ELSE lost' => counter' < counter
    /\ lost' => stage'[note] = "unsent" /\ session' <= 1 /\ reloads' = 0
    /\ reloads' > 0 /\ session' > 1 => stage'[sent] = "unsent" \/ stage'[received] = "unsent"

\* Other tabs save while the page can still be loaded again; a page with their localPts
\* connects once, and one with two sockets sends.
FewTabs == watched = "page" =>
    /\ foreign' => reloads' < MaxReloads /\ session' <= 1 /\ ~ lost'
    /\ found' > 0 => session' <= 1
    /\ crowded' =>
        /\ ~ lost' /\ found' = 0 /\ ~ foreign' /\ reloads' = 0
        /\ stage'[received] = "unsent" /\ counter' <= 3
=============================================================================

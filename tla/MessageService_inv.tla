------------------------- MODULE MessageService_inv -------------------------
(***************************************************************************)
(* The inductive invariant behind the safety properties of MessageService, *)
(* in four parts: what a call's place in its code says of its variables,   *)
(* how far the replica's copy of the counters has come, how the numbers    *)
(* drawn so far relate, and which of that a failover leaves true.          *)
(***************************************************************************)
EXTENDS MessageService

\* A row not yet inserted counts with the numbers its call holds (0: none yet).
Unborn == {h \in Calls : pc[h] \notin {"inserted", "done"}}
Drawn == rows \cup {NewRow(h) : h \in Unborn}

----------------------------------------------------------------------------
(* Control.                                                                *)

\* Numbers are held once their INCR was sent.
CallNumbers ==
    \A h \in Calls :
        /\ pc[h] = "idle" => rpts[h] = 0 /\ conn[h] = NoConn
        /\ pc[h] \in {"idle", "incrReceiver"} => spts[h] = 0
        /\ pc[h] = "incrReceiver" /\ conn[h] # NoConn => rpts[h] > 0
        /\ pc[h] = "incrSender" /\ conn[h] # NoConn => spts[h] > 0
        /\ pc[h] \in {"incrSender", "wait", "insert", "inserted", "adrift"} => rpts[h] > 0
        /\ pc[h] \in {"wait", "insert", "inserted", "adrift"} => spts[h] > 0

\* Only WAIT sets sound, and a call has an answer when it is done or its INSERT adrift.
CallFlags ==
    \A h \in Calls :
        /\ pc[h] \in Commands \cup {"idle"} => ~ sound[h]
        /\ pc[h] \in {"adrift", "done"} <=> answer[h] # "none"
        /\ pc[h] = "adrift" => answer[h] \in {"internal", "lost"}

\* A row is the work of a call whose INSERT was committed, and has both its numbers.
RowControl ==
    /\ \A r \in rows : pc[r.id] \in {"inserted", "done"} /\ r.rpts > 0 /\ r.spts > 0
    /\ \A h \in Calls : pc[h] = "inserted" => NewRow(h) \in rows
    /\ \A r, s \in rows : r.id = s.id => r = s

EarlierAnswered == \A h \in Calls : \A g \in earlier[h] : answer[g] # "none"

Control == CallNumbers /\ CallFlags /\ RowControl /\ EarlierAnswered
           /\ AnswerIsTrue

----------------------------------------------------------------------------
(* Replication.                                                            *)

\* Counters only grow along the stream of writes.
Growing == \A i, j \in 1..Len(data) : i <= j => \A u \in Users : data[i][u] <= data[j][u]

\* A call that has kept to one connection is on it now.
ViaIsConn == \A h \in Calls : via[h] # NoConn /\ conn[h] # NoConn => via[h] = conn[h]

\* Once the replica has the last write of that connection, it has the call's.
ViaCarries ==
    \A h \in Calls : via[h] # NoConn =>
        /\ data[behind[via[h]] + 1][to[h]] >= rpts[h]
        /\ data[behind[via[h]] + 1][from[h]] >= spts[h]

SoundCallIsDurable ==
    \A h \in Calls : sound[h] => Durable(to[h], rpts[h]) /\ Durable(from[h], spts[h])

Replication == /\ Growing /\ ViaIsConn /\ ViaCarries
               /\ SoundCallIsDurable /\ SoundWaitIsDurable

----------------------------------------------------------------------------
(* Numbering.                                                              *)

BelowTop == \A r \in Drawn : r.rpts <= Top[r.receiver] /\ r.spts <= Top[r.sender]

\* No number of r is one of s, for any user they share.
Distinct(r, s) ==
    /\ r.receiver = s.receiver => r.rpts # s.rpts \/ r.rpts = 0
    /\ r.receiver = s.sender => r.rpts # s.spts \/ r.rpts = 0
    /\ r.sender = s.receiver => r.spts # s.rpts \/ r.spts = 0
    /\ r.sender = s.sender => r.spts # s.spts \/ r.spts = 0

AllDistinct ==
    /\ \A r, s \in Drawn : r.id # s.id => Distinct(r, s)
    /\ \A r \in Drawn : r.receiver = r.sender => r.rpts # r.spts \/ r.spts = 0

\* r is numbered after s in every timeline they share.
Above(r, s) ==
    /\ r.receiver = s.receiver => r.rpts > s.rpts \/ r.rpts = 0
    /\ r.receiver = s.sender => r.rpts > s.spts \/ r.rpts = 0
    /\ r.sender = s.receiver => r.spts > s.rpts \/ r.spts = 0
    /\ r.sender = s.sender => r.spts > s.spts \/ r.spts = 0

LaterAbove == \A r, s \in Drawn : s.id \in earlier[r.id] => Above(r, s)

Numbering == failovers = 0 => BelowTop /\ AllDistinct /\ LaterAbove

----------------------------------------------------------------------------
(* Numbering across failovers.                                             *)

\* The rows whose numbers no failover can have forgotten: WAIT confirmed them
\* on the connection of both INCRs, or that connection is still open.
Firm == {r \in rows : sound[r.id]}
        \cup {NewRow(h) : h \in {g \in Unborn : sound[g] \/ via[g] # NoConn}}

FirmDistinct ==
    /\ \A r, s \in Firm : r.id # s.id => Distinct(r, s)
    /\ \A r \in Firm : r.receiver = r.sender => r.rpts # r.spts \/ r.spts = 0

AboveSound == \A r, s \in Drawn :
                 sound[s.id] /\ s.id \in earlier[r.id] => Above(r, s)

Firmness == FirmDistinct /\ AboveSound

\* The inductive invariant.
IInv == TypeOK /\ Control /\ Replication /\ Numbering /\ Firmness
=============================================================================

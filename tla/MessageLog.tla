----------------------------- MODULE MessageLog -----------------------------
(***************************************************************************)
(* What PersistMessage promises its callers, with no Redis, no pool and no *)
(* failover in sight: a table that only grows, in which a user has at most *)
(* one message per number and role, and answers that tell the caller what  *)
(* is known of its message.  MessageService implements it.                 *)
(***************************************************************************)
CONSTANTS Users, Calls, Pts

VARIABLES rows, answer

Row == [id: Calls, sender: Users, receiver: Users, spts: Pts, rpts: Pts]

Init == rows = {} /\ answer = [h \in Calls |-> "none"]

\* Two rows may not both be in the table.
Clash(r, s) == \/ r.receiver = s.receiver /\ r.rpts = s.rpts
               \/ r.sender = s.sender /\ r.spts = s.spts

Answer(h, a) == answer[h] = "none" /\ answer' = [answer EXCEPT ![h] = a]

Stored(h) == \E r \in rows : r.id = h

\* The message of call h enters the table, once, under numbers of its own: before its
\* caller is answered, or after an answer that left it open.
Store(h) ==
    /\ ~ Stored(h)
    /\ answer[h] \in {"none", "internal"}
    /\ \E row \in rows' :
         /\ row \in Row /\ row.id = h
         /\ \A r \in rows : ~ Clash(r, row)
         /\ rows' = rows \cup {row}
    /\ UNCHANGED answer

Accept(h) == Stored(h) /\ Answer(h, "ok") /\ UNCHANGED rows

\* The caller is told to try again: the message is not stored, and never will be.
Reject(h) == ~ Stored(h) /\ Answer(h, "unavailable") /\ UNCHANGED rows

\* The caller is told to try again with a message that is stored.
Disown(h) == Stored(h) /\ Answer(h, "unavailable") /\ UNCHANGED rows

\* An error after which the caller does not know whether the message is stored.
Doubt(h) == Answer(h, "internal") /\ UNCHANGED rows

Next == \E h \in Calls : Store(h) \/ Accept(h) \/ Reject(h) \/ Disown(h) \/ Doubt(h)

Spec == Init /\ [][Next]_<<rows, answer>>
=============================================================================

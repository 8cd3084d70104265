----------------------------- MODULE MessageFeed -----------------------------
(***************************************************************************)
(* What the gateways promise a receiver, with no gateway, presence key or  *)
(* channel in sight: a message is stored once, under a number of its own,  *)
(* and then shown at most once, on one session of its receiver.  Delivery  *)
(* implements it, feed for feed.                                           *)
(***************************************************************************)
EXTENDS Naturals, Sequences

CONSTANTS Msgs, Sessions

VARIABLES
    dst,        \* the user each message is for
    user,       \* the user of each session
    pts,        \* the number each message is stored under (0: not stored)
    feed        \* what each session has shown

Init ==
    /\ pts = [m \in Msgs |-> 0]
    /\ feed = [s \in Sessions |-> <<>>]

Shown(m) == \E s \in Sessions : \E i \in 1..Len(feed[s]) : feed[s][i] = m

Store(m) ==
    /\ pts[m] = 0
    /\ pts'[m] > 0
    /\ \A n \in Msgs \ {m} : pts'[n] = pts[n] /\ (dst[n] = dst[m] => pts'[m] > pts[n])
    /\ UNCHANGED <<dst, user, feed>>

Show(m, s) ==
    /\ pts[m] > 0 /\ ~ Shown(m)
    /\ user[s] = dst[m]
    /\ feed' = [feed EXCEPT ![s] = Append(@, m)]
    /\ UNCHANGED <<dst, user, pts>>

Next == \E m \in Msgs : Store(m) \/ \E s \in Sessions : Show(m, s)

Spec == Init /\ [][Next]_<<dst, user, pts, feed>>
=============================================================================

---------------------------- MODULE Delivery_inv ----------------------------
(***************************************************************************)
(* The inductive invariant behind the order in which Delivery shows        *)
(* messages: what a handler with a message in hand excludes, how messages  *)
(* are numbered, and what lies between a channel's messages and the next.  *)
(***************************************************************************)
EXTENDS Delivery

Held(m) == InHand(src[m], m)

\* Only a handler in its read loop has a message in hand, and it has one.
HandlerAlive == \A m \in Msgs : Held(m) => pc[src[m]] = "reading"
OneHeld == \A m, n \in Msgs : src[m] = src[n] /\ Held(m) /\ Held(n) => m = n

\* A message has a number once it is stored, none above its receiver's counter.
Numbered ==
    \A m \in Msgs :
        /\ pts[m] <= counter[dst[m]]
        /\ stage[m] \in {"unsent", "persisting"} => pts[m] = 0
        /\ stage[m] \in {"stored", "acked", "finding", "sending"} => pts[m] > 0

\* DeliverLocal runs on a gateway, and the channel it finds is one of the receiver's.
FoundReceiver ==
    \A m \in Msgs :
        /\ stage[m] \in {"finding", "sending"} => place[m] \in Gateways
        /\ stage[m] = "sending" => chan[m] \in Sessions /\ user[chan[m]] = dst[m]

\* m has been put into the channel of r.
Passed(r, m) == \/ \E i \in 1..Len(queue[r]) : queue[r][i] = m
                \/ \E i \in 1..Len(feed[r]) : feed[r][i] = m

PassedDone ==
    \A r \in Sessions, m \in Msgs :
        Passed(r, m) => stage[m] = "done" /\ pts[m] > 0 /\ dst[m] = user[r]

\* The message in a handler's hand is numbered above all it has delivered.
HeldIsNext ==
    \A r \in Sessions, m, n \in Msgs :
        /\ Passed(r, m) /\ Local(m)
        /\ Held(n) /\ pts[n] > 0 /\ src[m] = src[n] /\ dst[m] = dst[n]
        => pts[m] < pts[n]

\* m may come before n in a session of their receiver.
InOrder(m, n) == src[m] = src[n] /\ Local(m) /\ Local(n) => pts[m] < pts[n]

FeedOrder == \A r \in Sessions : \A i, j \in 1..Len(feed[r]) :
                 i < j => InOrder(feed[r][i], feed[r][j])
QueueOrder == \A r \in Sessions : \A i, j \in 1..Len(queue[r]) :
                  i < j => InOrder(queue[r][i], queue[r][j])
FeedBeforeQueue ==
    \A r \in Sessions : \A i \in 1..Len(feed[r]), j \in 1..Len(queue[r]) :
        InOrder(feed[r][i], queue[r][j])

Orders == PassedDone /\ HeldIsNext /\ FeedOrder /\ QueueOrder /\ FeedBeforeQueue

\* A message is in one place of one channel, and has not been shown then.
Once ==
    \A r, s \in Sessions : \A i \in 1..Len(queue[r]) :
        /\ \A j \in 1..Len(queue[s]) : queue[r][i] = queue[s][j] => r = s /\ i = j
        /\ \A j \in 1..Len(feed[s]) : queue[r][i] # feed[s][j]

\* The inductive invariant, on top of that of Sessions.
DInv == /\ DeliveryTypeOK
        /\ HandlerAlive /\ OneHeld /\ Numbered /\ FoundReceiver
        /\ Orders /\ Once
=============================================================================

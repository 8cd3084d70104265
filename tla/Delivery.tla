------------------------------ MODULE Delivery ------------------------------
(***************************************************************************)
(* The way of a message through the gateways, on top of Sessions: the read *)
(* loop of WebSocketHandler (gateway/handler/websocket.go), DeliverLocal   *)
(* and the DeliverMessage RPC (gateway/grpc/server.go) and the peer client *)
(* that calls it (gateway/peer/client.go).                                 *)
(*                                                                         *)
(* A handler has one message in hand at a time; a message for another      *)
(* gateway leaves it for a goroutine of its own.  DeliverLocal reads       *)
(* connMap under its lock and sends on the channel after giving it up.     *)
(***************************************************************************)
EXTENDS Sessions, Naturals, Sequences

CONSTANTS
    Msgs,           \* the messages of a behaviour
    ChanCap         \* capacity of a session's channel

ASSUME ChanCapAssumption == ChanCap \in Nat \ {0}

VARIABLES
    src, dst,       \* the session a message is sent on, the user it is for
    stage,          \* how far each message has come
    counter,        \* the last PTS drawn for each user
    pts,            \* receiver_pts of each message (0: not stored)
    place,          \* the gateway DeliverLocal runs on, from the presence lookup
    chan,           \* the session whose channel DeliverLocal has found
    queue,          \* queue[s]: the channel of s
    feed,           \* feed[s]: what was written to the WebSocket of s
    cut             \* the sessions whose connection is broken

numbers == <<counter, pts>>
message == <<src, dst, stage, numbers, place, chan>>
wires == <<queue, feed, cut>>
delivery == <<message, wires>>
allVars == <<vars, delivery>>

\* Where a message is: with the handler of its sender up to the lookup, in
\* DeliverLocal from "finding" on.
Stages == {"unsent", "persisting", "stored", "acked", "finding", "sending", "done"}

DeliveryTypeOK ==
    /\ TypeOK
    /\ src \in [Msgs -> Sessions] /\ dst \in [Msgs -> Users]
    /\ stage \in [Msgs -> Stages]
    /\ counter \in [Users -> Nat] /\ pts \in [Msgs -> Nat]
    /\ place \in [Msgs -> Gateways \cup {NoGateway}]
    /\ chan \in [Msgs -> Sessions \cup {NoSession}]
    /\ queue \in [Sessions -> Seq(Msgs)]
    /\ \A s \in Sessions : Len(queue[s]) <= ChanCap
    /\ feed \in [Sessions -> Seq(Msgs)]
    /\ cut \subseteq Sessions

DeliveryInit ==
    /\ Init
    /\ src \in [Msgs -> Sessions] /\ dst \in [Msgs -> Users]
    /\ stage = [m \in Msgs |-> "unsent"]
    /\ counter = [u \in Users |-> 0] /\ pts = [m \in Msgs |-> 0]
    /\ place = [m \in Msgs |-> NoGateway] /\ chan = [m \in Msgs |-> NoSession]
    /\ queue = [s \in Sessions |-> <<>>] /\ feed = [s \in Sessions |-> <<>>]
    /\ cut = {}

\* The lookup has named the address the sender's own handler registers.
Local(m) == place[m] = gw[src[m]]

\* Mutant: local deliveries get a goroutine of their own, too.
InHandUntilLookup(s, m) == src[m] = s /\ stage[m] \in {"persisting", "stored", "acked"}

\* The handler of s is at work on m.
InHand(s, m) ==
    /\ src[m] = s
    /\ \/ stage[m] \in {"persisting", "stored", "acked"}
       \/ stage[m] \in {"finding", "sending"} /\ Local(m)

Busy(s) == \E m \in Msgs : InHand(s, m)

Goto(m, there) == stage' = [stage EXCEPT ![m] = there]

----------------------------------------------------------------------------
(* The read loop.                                                          *)

\* ReadMessage returns m, which the loop passes to PersistMessage.
Read(m) ==
    /\ stage[m] = "unsent"
    /\ pc[src[m]] = "reading"
    /\ ~ Busy(src[m])
    /\ Goto(m, "persisting")
    /\ UNCHANGED <<vars, src, dst, numbers, place, chan, wires>>

\* The message-service stores m under the receiver's next number.
Store(m) ==
    /\ counter' = [counter EXCEPT ![dst[m]] = @ + 1]
    /\ pts' = [pts EXCEPT ![m] = counter[dst[m]] + 1]

Persist(m) ==
    /\ stage[m] = "persisting"
    /\ Store(m)
    /\ Goto(m, "stored")
    /\ UNCHANGED <<vars, src, dst, place, chan, wires>>

\* PersistMessage fails, or does not answer within 5 s although m may be stored:
\* nobody is told.
PersistError(m) ==
    /\ stage[m] = "persisting"
    /\ Store(m) \/ UNCHANGED numbers
    /\ Goto(m, "done")
    /\ UNCHANGED <<vars, src, dst, place, chan, wires>>

\* The sender's ack is written, when writeMu is free and the client reads: there
\* is no deadline.
Ack(m) ==
    /\ stage[m] = "stored"
    /\ src[m] \notin cut
    /\ Goto(m, "acked")
    /\ UNCHANGED <<vars, src, dst, numbers, place, chan, wires>>

\* It cannot be written: m is not routed.
AckError(m) ==
    /\ stage[m] = "stored"
    /\ src[m] \in cut
    /\ Goto(m, "done")
    /\ UNCHANGED <<vars, src, dst, numbers, place, chan, wires>>

\* GetUserGateway names the gateway that is to deliver m: this one, or a peer,
\* which a new goroutine calls.
Lookup(m) ==
    /\ stage[m] = "acked"
    /\ presence[dst[m]] # NoGateway
    /\ place' = [place EXCEPT ![m] = presence[dst[m]]]
    /\ Goto(m, "finding")
    /\ UNCHANGED <<vars, src, dst, numbers, chan, wires>>

\* There is no key, or Redis fails.
LookupNone(m) ==
    /\ stage[m] = "acked"
    /\ Goto(m, "done")
    /\ UNCHANGED <<vars, src, dst, numbers, place, chan, wires>>

----------------------------------------------------------------------------
(* DeliverLocal, called by the handler or by the DeliverMessage RPC.       *)

\* Mutant: a delivery without an answer in time is sent again.
RpcResent(m) ==
    /\ stage[m] = "done" /\ chan[m] # NoSession
    /\ ~ Local(m)
    /\ Goto(m, "finding")
    /\ UNCHANGED <<vars, src, dst, numbers, place, chan, wires>>

\* The RPC is not delivered, within 3 s or at all.
RpcLost(m) ==
    /\ stage[m] = "finding"
    /\ ~ Local(m)
    /\ Goto(m, "done")
    /\ UNCHANGED <<vars, src, dst, numbers, place, chan, wires>>

Channel(m) == connMap[place[m]][dst[m]]

\* The channel of the receiver is read from connMap.
Find(m) ==
    /\ stage[m] = "finding"
    /\ Channel(m) # NoSession
    /\ chan' = [chan EXCEPT ![m] = Channel(m)]
    /\ Goto(m, "sending")
    /\ UNCHANGED <<vars, src, dst, numbers, place, wires>>

FindNone(m) ==
    /\ stage[m] = "finding"
    /\ Channel(m) = NoSession
    /\ Goto(m, "done")
    /\ UNCHANGED <<vars, src, dst, numbers, place, chan, wires>>

\* Mutant: the channel takes one message too many.
SendOver(m) ==
    /\ stage[m] = "sending"
    /\ chan[m] \notin closed
    /\ Len(queue[chan[m]]) <= ChanCap
    /\ queue' = [queue EXCEPT ![chan[m]] = Append(@, m)]
    /\ Goto(m, "done")
    /\ UNCHANGED <<vars, src, dst, numbers, place, chan, feed, cut>>

\* select: the channel takes the message ...
Send(m) ==
    /\ stage[m] = "sending"
    /\ chan[m] \notin closed
    /\ Len(queue[chan[m]]) < ChanCap
    /\ queue' = [queue EXCEPT ![chan[m]] = Append(@, m)]
    /\ Goto(m, "done")
    /\ UNCHANGED <<vars, src, dst, numbers, place, chan, feed, cut>>

\* Mutant: select has no default.
SendWaits(m) == FALSE /\ UNCHANGED allVars

\* ... or is full, and the message is dropped.
SendDropped(m) ==
    /\ stage[m] = "sending"
    /\ chan[m] \notin closed
    /\ Len(queue[chan[m]]) >= ChanCap
    /\ Goto(m, "done")
    /\ UNCHANGED <<vars, src, dst, numbers, place, chan, wires>>

\* The death of gateway g cuts its clients off and loses what it was working on.
Losses(g) ==
    /\ cut' = cut \cup {s \in Sessions : gw[s] = g /\ pc[s] \in Live}
    /\ stage' = [m \in Msgs |->
           IF \/ stage[m] \in {"persisting", "stored", "acked"} /\ gw[src[m]] = g
              \/ stage[m] \in {"finding", "sending"} /\ place[m] = g
           THEN "done" ELSE stage[m]]

\* The channel was closed after it was found.  The panic ends the handler, whose
\* deferred cleanup runs; in the RPC it ends the process.
SendPanics(m) ==
    /\ stage[m] = "sending"
    /\ chan[m] \in closed
    /\ IF Local(m)
       THEN /\ pc' = [pc EXCEPT ![src[m]] = "unregister"]
            /\ cut' = cut \cup {src[m]}
            /\ Goto(m, "done")
            /\ UNCHANGED <<user, gw, beat, presence, connMap, closed, crowded>>
       ELSE Crash(place[m]) /\ Losses(place[m])
    /\ UNCHANGED <<src, dst, numbers, place, chan, queue, feed>>

\* Mutant: the goroutine that writes takes one message and ends.
WriteOnce(s) ==
    /\ queue[s] # <<>> /\ feed[s] = <<>>
    /\ s \notin cut
    /\ queue' = [queue EXCEPT ![s] = Tail(@)]
    /\ feed' = [feed EXCEPT ![s] = Append(@, Head(queue[s]))]
    /\ UNCHANGED <<vars, message, cut>>

\* The session's writer goroutine takes a message and writes it to the client.
Write(s) ==
    /\ queue[s] # <<>>
    /\ s \notin cut
    /\ queue' = [queue EXCEPT ![s] = Tail(@)]
    /\ feed' = [feed EXCEPT ![s] = Append(@, Head(queue[s]))]
    /\ UNCHANGED <<vars, message, cut>>

----------------------------------------------------------------------------
\* The client leaves or is cut off; its handler finds out when it reads next.
Cut(s) ==
    /\ pc[s] \in Live
    /\ cut' = cut \cup {s}
    /\ UNCHANGED <<vars, message, queue, feed>>

GatewayCrash(g) ==
    /\ Crash(g)
    /\ Losses(g)
    /\ UNCHANGED <<src, dst, numbers, place, chan, queue, feed>>

\* A step of a session, its heartbeat or its key.
SessionStep(s) ==
    /\ \/ Connect(s) \/ Handler(s) \/ Tick(s) \/ Beat(s) \/ BeatError(s) \/ StopBeat(s)
       \/ s \in cut /\ ~ Busy(s) /\ ReadError(s)
    /\ UNCHANGED delivery

\* The steps of DeliverLocal.
Deliver(m) == Find(m) \/ FindNone(m) \/ Send(m) \/ SendDropped(m) \/ SendPanics(m)

\* The steps of the read loop with m in hand, but for the ack.
Route(m) == Persist(m) \/ PersistError(m) \/ AckError(m) \/ Lookup(m) \/ LookupNone(m)

DeliveryNext ==
    \/ \E s \in Sessions : SessionStep(s) \/ Write(s) \/ Cut(s)
    \/ \E m \in Msgs : Read(m) \/ Route(m) \/ Ack(m) \/ Deliver(m) \/ RpcLost(m)
    \/ \E u \in Users : Expire(u) /\ UNCHANGED delivery
    \/ \E g \in Gateways : GatewayCrash(g)

DeliverySpec == DeliveryInit /\ [][DeliveryNext]_allVars

\* Goroutines are scheduled and every call has a timeout.  Nothing makes a client
\* read what its gateway writes to it (FairAck, FairWriters).
Fairness == \A m \in Msgs : WF_allVars(Route(m)) /\ WF_allVars(Deliver(m))

FairAck(m) == WF_allVars(Ack(m))
FairWriters == \A s \in Sessions : WF_allVars(Write(s))
----------------------------------------------------------------------------
(* What the gateways promise.                                              *)

\* Two messages of one session that its own gateway delivers reach a session of
\* the receiver in the order of their numbers, however the presence keys move
\* and sessions overlap: the read loop hands over one message at a time.
LocalFifo ==
    \A r \in Sessions : \A i, j \in 1..Len(feed[r]) :
        LET m == feed[r][i]
            n == feed[r][j]
        IN  i < j /\ src[m] = src[n] /\ Local(m) /\ Local(n) => pts[m] < pts[n]

\* Every message reaches a session in the order of the receiver's numbers, as
\* experiment 4 requires.
PtsOrder ==
    \A r \in Sessions : \A i, j \in 1..Len(feed[r]) :
        i < j => pts[feed[r][i]] < pts[feed[r][j]]

Feed == INSTANCE MessageFeed

\* Delivery implements the abstract feed: whatever overlaps, crashes or is lost,
\* a message is stored before it is shown, and shown once: on one session, and on
\* that one a single time.
ImplementsFeed == Feed!Spec

\* The channel DeliverLocal sends on is open, so that a receiver who has left by
\* then is answered with Delivered: false, as one who left before is.
SendsOnOpen == \A m \in Msgs : stage[m] = "sending" => chan[m] \notin closed

\* The handler of a sender who reads his acks is done with each message in the end,
\* though receivers may never read theirs: no full channel, nor a write that hangs,
\* of one user holds up the read loop of another.
SenderNotHeldUp ==
    \A m \in Msgs : FairAck(m) => (stage[m] = "persisting" ~> ~ InHand(src[m], m))

\* A message that made it into a channel is written to its client, if only the
\* connection lasts: also when the gateway has dropped the session's entry since.
QueuedIsWritten ==
    FairWriters =>
        \A s \in Sessions, m \in Msgs :
            (\E i \in 1..Len(queue[s]) : queue[s][i] = m)
                ~> (s \in cut \/ \E i \in 1..Len(feed[s]) : feed[s][i] = m)
=============================================================================

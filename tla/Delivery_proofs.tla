-------------------------- MODULE Delivery_proofs --------------------------
(***************************************************************************)
(* Theorems about Delivery, for every set of users, gateways, sessions and *)
(* messages and every capacity of the channels.  Delivery's steps are      *)
(* steps of Sessions, whose invariant IInv is used here.                   *)
(***************************************************************************)
EXTENDS Delivery_inv, Sessions_proofs

\* The inductive invariant.
JInv == IInv /\ DInv

\* What Append does to a channel or a feed.
LEMMA AppendedTo ==
  ASSUME NEW S, NEW q \in Seq(S), NEW e \in S
  PROVE  /\ Append(q, e) \in Seq(S)
         /\ Len(Append(q, e)) = Len(q) + 1
         /\ \A i \in 1..Len(q) : Append(q, e)[i] = q[i]
         /\ Append(q, e)[Len(q) + 1] = e
  OBVIOUS

\* What taking the first message out does to a channel.
LEMMA TakenFrom ==
  ASSUME NEW S, NEW q \in Seq(S), q # <<>>
  PROVE  /\ Tail(q) \in Seq(S)
         /\ Len(q) \in Nat /\ Len(q) > 0
         /\ Len(Tail(q)) = Len(q) - 1
         /\ \A i \in 1..Len(Tail(q)) : Tail(q)[i] = q[i + 1]
         /\ Head(q) = q[1] /\ Head(q) \in S
  OBVIOUS

\* At first no message is anywhere.
LEMMA DeliveryInvInit == DeliveryInit => JInv
  <1>. SUFFICES ASSUME DeliveryInit PROVE JInv
    OBVIOUS
  <1>1. IInv
    BY InvInit DEF DeliveryInit
  <1>2. DeliveryTypeOK
    <2>1. TypeOK
      BY <1>1 DEF IInv
    <2>2. <<>> \in Seq(Msgs) /\ Len(<<>>) = 0
      OBVIOUS
    <2>. QED
      BY <2>1, <2>2, ChanCapAssumption DEF DeliveryInit, DeliveryTypeOK, Stages
  <1>3. HandlerAlive /\ OneHeld /\ FoundReceiver
    BY DEF DeliveryInit, HandlerAlive, OneHeld, FoundReceiver, Held, InHand
  <1>4. Numbered
    BY DEF DeliveryInit, Numbered
  <1>5. \A r \in Sessions : Len(queue[r]) = 0 /\ Len(feed[r]) = 0
    BY DEF DeliveryInit
  <1>6. Orders
    BY <1>5 DEF Orders, PassedDone, HeldIsNext, Passed, FeedOrder, QueueOrder, FeedBeforeQueue
  <1>7. Once
    BY <1>5 DEF Once
  <1>. QED
    BY <1>1, <1>2, <1>3, <1>4, <1>6, <1>7 DEF JInv, DInv

\* Every step of Delivery is one of Sessions or does not concern it: the panic of a
\* handler looks like a read error there, the death of a gateway like Crash.
LEMMA DeliveryIsSessions == DInv /\ [DeliveryNext]_allVars => [Next]_vars
  <1>. SUFFICES ASSUME DInv, [DeliveryNext]_allVars PROVE [Next]_vars
    OBVIOUS
  <1>. USE DEF vars
  <1>1. ASSUME NEW s \in Sessions, SessionStep(s) PROVE [Next]_vars
    BY <1>1 DEF SessionStep, Next
  <1>2. ASSUME NEW s \in Sessions, Write(s) \/ Cut(s) PROVE [Next]_vars
    BY <1>2 DEF Write, Cut
  <1>3. ASSUME NEW m \in Msgs, Read(m) \/ Ack(m) \/ Route(m) \/ RpcLost(m) PROVE [Next]_vars
    BY <1>3 DEF Read, Route, RpcLost, Persist, PersistError, Store, Ack, AckError, Lookup, LookupNone
  <1>4. ASSUME NEW m \in Msgs, Find(m) \/ FindNone(m) \/ Send(m) \/ SendDropped(m)
        PROVE  [Next]_vars
    BY <1>4 DEF Find, FindNone, Send, SendDropped
  <1>5. ASSUME NEW m \in Msgs, SendPanics(m)
        PROVE  [Next]_vars
    <2>. src[m] \in Sessions /\ place[m] \in Gateways
      BY <1>5 DEF DInv, DeliveryTypeOK, FoundReceiver, SendPanics
    <2>1. CASE Local(m)
      <3>1. pc[src[m]] = "reading"
        BY <1>5, <2>1 DEF DInv, HandlerAlive, Held, InHand, SendPanics
      <3>2. ReadError(src[m])
        BY <1>5, <2>1, <3>1 DEF SendPanics, ReadError
      <3>. QED
        BY <1>5, <3>2 DEF Next
    <2>2. CASE ~ Local(m)
      BY <1>5, <2>2 DEF SendPanics, Next
    <2>. QED
      BY <2>1, <2>2
  <1>6. ASSUME NEW u \in Users, Expire(u) PROVE [Next]_vars
    BY <1>6 DEF Next
  <1>7. ASSUME NEW g \in Gateways, GatewayCrash(g) PROVE [Next]_vars
    BY <1>7 DEF GatewayCrash, Next
  <1>8. CASE UNCHANGED allVars
    BY <1>8 DEF allVars
  <1>. QED
    BY <1>1, <1>2, <1>3, <1>4, <1>5, <1>6, <1>7, <1>8 DEF DeliveryNext, Deliver

\* No step takes a variable out of its range.
LEMMA DeliveryTypeStep ==
  ASSUME DInv, TypeOK', [DeliveryNext]_allVars
  PROVE  DeliveryTypeOK'
  <1>. USE DEF DInv, DeliveryTypeOK, Stages, Goto, numbers, wires, message, delivery
  <1>1. ASSUME NEW m \in Msgs, Read(m) \/ Ack(m) \/ Route(m) \/ RpcLost(m) PROVE DeliveryTypeOK'
    <2>0. ASSUME Store(m), PersistError(m) \/ Persist(m) PROVE DeliveryTypeOK'
      <3>0. stage[m] = "persisting" /\ UNCHANGED <<src, dst, place, chan, queue, feed, cut>>
        BY <2>0 DEF Persist, PersistError
      <3>4. stage' = [stage EXCEPT ![m] = "stored"] \/ stage' = [stage EXCEPT ![m] = "done"]
        BY <2>0 DEF Persist, PersistError
      <3>1. /\ counter' = [counter EXCEPT ![dst[m]] = counter[dst[m]] + 1]
            /\ pts' = [pts EXCEPT ![m] = counter[dst[m]] + 1]
        BY <2>0 DEF Store
      <3>5. dst[m] \in Users /\ counter[dst[m]] \in Nat /\ counter[dst[m]] + 1 \in Nat
        OBVIOUS
      <3>6. stage' \in [Msgs -> Stages]
        BY <3>4
      <3>2. counter' \in [Users -> Nat] /\ pts' \in [Msgs -> Nat]
        BY <3>1, <3>5
      <3>3. /\ src' \in [Msgs -> Sessions] /\ dst' \in [Msgs -> Users]
            /\ place' \in [Msgs -> Gateways \cup {NoGateway}]
            /\ chan' \in [Msgs -> Sessions \cup {NoSession}]
            /\ queue' \in [Sessions -> Seq(Msgs)] /\ feed' \in [Sessions -> Seq(Msgs)]
            /\ (\A s \in Sessions : Len(queue[s]) <= ChanCap)' /\ cut' \subseteq Sessions
        BY <3>0
      <3>. QED
        BY <3>2, <3>3, <3>6
    <2>1. ASSUME Persist(m) \/ PersistError(m) PROVE DeliveryTypeOK'
      BY <2>0, <2>1 DEF Persist, PersistError
    <2>2. ASSUME Lookup(m) PROVE DeliveryTypeOK'
      BY <2>2 DEF Lookup, TypeOK
    <2>3. ASSUME Read(m) \/ Ack(m) \/ AckError(m) \/ LookupNone(m) \/ RpcLost(m)
          PROVE  DeliveryTypeOK'
      BY <2>3 DEF Read, Ack, AckError, LookupNone, RpcLost
    <2>. QED
      BY <1>1, <2>1, <2>2, <2>3 DEF Route
  <1>2. ASSUME NEW m \in Msgs, Find(m) PROVE DeliveryTypeOK'
    <2>1. Channel(m) \in Sessions
      BY <1>2 DEF Find, Channel, FoundReceiver, TypeOK
    <2>. QED
      BY <1>2, <2>1 DEF Find
  <1>3. ASSUME NEW m \in Msgs, FindNone(m) \/ SendDropped(m) PROVE DeliveryTypeOK'
    BY <1>3 DEF FindNone, SendDropped
  <1>4. ASSUME NEW m \in Msgs, Send(m) PROVE DeliveryTypeOK'
    <2>1. chan[m] \in Sessions /\ queue[chan[m]] \in Seq(Msgs)
      BY <1>4 DEF Send, FoundReceiver
    <2>2. /\ Append(queue[chan[m]], m) \in Seq(Msgs)
          /\ Len(Append(queue[chan[m]], m)) = Len(queue[chan[m]]) + 1
      BY <2>1, AppendedTo
    <2>3. Len(queue[chan[m]]) + 1 <= ChanCap
      BY <1>4, <2>1, ChanCapAssumption DEF Send
    <2>4. queue' \in [Sessions -> Seq(Msgs)] /\ \A s \in Sessions : Len(queue'[s]) <= ChanCap
      BY <1>4, <2>1, <2>2, <2>3 DEF Send
    <2>. QED
      BY <1>4, <2>4 DEF Send
  <1>5. ASSUME NEW m \in Msgs, SendPanics(m) PROVE DeliveryTypeOK'
    <2>1. CASE Local(m)
      <3>1. cut' = cut \cup {src[m]} /\ src[m] \in Sessions
        BY <1>5, <2>1 DEF SendPanics
      <3>2. cut' \subseteq Sessions
        BY <3>1
      <3>3. stage' = [stage EXCEPT ![m] = "done"]
        BY <1>5, <2>1 DEF SendPanics
      <3>4. UNCHANGED <<src, dst, numbers, place, chan, queue, feed>>
        BY <1>5 DEF SendPanics
      <3>. QED
        BY <3>2, <3>3, <3>4
    <2>2. CASE ~ Local(m)
      BY <1>5, <2>2 DEF SendPanics, Losses
    <2>. QED
      BY <2>1, <2>2
  <1>6. ASSUME NEW s \in Sessions, Write(s) PROVE DeliveryTypeOK'
    <2>1. /\ Tail(queue[s]) \in Seq(Msgs) /\ Len(Tail(queue[s])) = Len(queue[s]) - 1
          /\ Len(queue[s]) \in Nat /\ Head(queue[s]) \in Msgs
      BY <1>6, TakenFrom DEF Write
    <2>2. Append(feed[s], Head(queue[s])) \in Seq(Msgs)
      BY <2>1, AppendedTo
    <2>3. queue' \in [Sessions -> Seq(Msgs)] /\ \A r \in Sessions : Len(queue'[r]) <= ChanCap
      BY <1>6, <2>1, ChanCapAssumption DEF Write
    <2>4. feed' \in [Sessions -> Seq(Msgs)]
      BY <1>6, <2>2 DEF Write
    <2>. QED
      BY <1>6, <2>3, <2>4 DEF Write
  <1>7. ASSUME NEW s \in Sessions, SessionStep(s) \/ Cut(s) PROVE DeliveryTypeOK'
    BY <1>7 DEF SessionStep, Cut
  <1>8. ASSUME NEW g \in Gateways, GatewayCrash(g) PROVE DeliveryTypeOK'
    BY <1>8 DEF GatewayCrash, Losses
  <1>9. CASE UNCHANGED delivery
    BY <1>9
  <1>. QED
    BY <1>1, <1>2, <1>3, <1>4, <1>5, <1>6, <1>7, <1>8, <1>9 DEF DeliveryNext, Deliver, allVars

\* What a step leaves of the messages in hand: those still there were there before,
\* or have just been read into the hands of an idle handler.
LEMMA HeldStep ==
  ASSUME DInv, [DeliveryNext]_allVars, NEW m \in Msgs, Held(m)'
  PROVE  Held(m) \/ Read(m)
  <1>. USE DEF DInv, DeliveryTypeOK, Held, InHand, Local, Goto, numbers, wires, message, delivery, vars
  <1>1. ASSUME NEW n \in Msgs, Read(n) \/ Ack(n) \/ Route(n) \/ RpcLost(n) PROVE Held(m) \/ Read(m)
    <2>1. CASE n = m
      BY <1>1, <2>1 DEF Read, Route, Persist, PersistError, Store, Ack, AckError, Lookup, LookupNone, RpcLost
    <2>2. CASE n # m
      BY <1>1, <2>2 DEF Read, Route, Persist, PersistError, Store, Ack, AckError, Lookup, LookupNone, RpcLost
    <2>. QED
      BY <2>1, <2>2
  <1>2. ASSUME NEW n \in Msgs, Find(n) \/ FindNone(n) \/ Send(n) \/ SendDropped(n)
        PROVE  Held(m)
    BY <1>2 DEF Find, FindNone, Send, SendDropped
  <1>3. ASSUME NEW n \in Msgs, SendPanics(n) PROVE Held(m)
    <2>1. CASE Local(n)
      BY <1>3, <2>1 DEF SendPanics
    <2>2. CASE ~ Local(n)
      BY <1>3, <2>2 DEF SendPanics, Losses, Crash
    <2>. QED
      BY <2>1, <2>2
  <1>4. ASSUME NEW s \in Sessions, SessionStep(s) \/ Write(s) \/ Cut(s) PROVE Held(m)
    <2>1. ASSUME SessionStep(s) PROVE UNCHANGED gw
      BY <2>1 DEF SessionStep, Handler, Connect, RegisterUser, RegisterConn, UnregisterConn,
                  UnregisterUser, Tick, Beat, BeatError, StopBeat, ReadError
    <2>. QED
      BY <1>4, <2>1 DEF SessionStep, Write, Cut
  <1>5. ASSUME NEW u \in Users, Expire(u) /\ UNCHANGED delivery PROVE Held(m)
    BY <1>5 DEF Expire
  <1>6. ASSUME NEW g \in Gateways, GatewayCrash(g) PROVE Held(m)
    BY <1>6 DEF GatewayCrash, Losses, Crash
  <1>7. CASE UNCHANGED allVars
    BY <1>7 DEF allVars
  <1>. QED
    BY <1>1, <1>2, <1>3, <1>4, <1>5, <1>6, <1>7 DEF DeliveryNext, Deliver

\* A handler takes one message at a time.
LEMMA OneHeldStep ==
  ASSUME DInv, [DeliveryNext]_allVars
  PROVE  OneHeld'
  <1>. SUFFICES ASSUME NEW m \in Msgs, NEW n \in Msgs,
                       src'[m] = src'[n], Held(m)', Held(n)', m # n
                PROVE  FALSE
    BY DEF OneHeld
  <1>1. UNCHANGED src
    BY DEF DeliveryNext, SessionStep, Write, Cut, Read, Route, Persist, PersistError, Store, Ack, AckError,
           Lookup, LookupNone, Deliver, Find, FindNone, Send, SendDropped, SendPanics, RpcLost,
           GatewayCrash, allVars, delivery, message
  <1>2. (Held(m) \/ Read(m)) /\ (Held(n) \/ Read(n))
    BY HeldStep
  <1>3. ~ (Held(m) /\ Held(n))
    BY <1>1 DEF DInv, OneHeld
  <1>4. ~ (Read(m) /\ Held(n)) /\ ~ (Held(m) /\ Read(n))
    BY <1>1 DEF Read, Busy, Held
  <1>5. ~ (Read(m) /\ Read(n))
    BY DEF Read, Goto, DInv, DeliveryTypeOK
  <1>. QED
    BY <1>2, <1>3, <1>4, <1>5

\* A message in hand keeps its handler in the read loop.
LEMMA HandlerAliveStep ==
  ASSUME DInv, [DeliveryNext]_allVars
  PROVE  HandlerAlive'
  <1>. SUFFICES ASSUME NEW m \in Msgs, Held(m)'
                PROVE  pc'[src'[m]] = "reading"
    BY DEF HandlerAlive
  <1>. USE DEF DInv, DeliveryTypeOK, TypeOK, delivery, message, vars
  <1>1. Held(m) \/ Read(m)
    BY HeldStep
  <1>2. pc[src[m]] = "reading" /\ src[m] \in Sessions
    BY <1>1 DEF HandlerAlive, Read
  <1>3. ASSUME NEW s \in Sessions, SessionStep(s)
        PROVE  pc'[src'[m]] = "reading"
    <2>1. ASSUME ReadError(s), ~ Busy(s), UNCHANGED delivery PROVE pc'[src'[m]] = "reading"
      <3>1. Held(m)
        BY <2>1, <1>1 DEF Read, Goto
      <3>2. src[m] # s
        BY <2>1, <3>1 DEF Busy, Held
      <3>. QED
        BY <1>2, <2>1, <3>2 DEF ReadError
    <2>2. ASSUME Connect(s) \/ Handler(s) \/ Tick(s) \/ Beat(s) \/ BeatError(s) \/ StopBeat(s),
                 UNCHANGED delivery
          PROVE  pc'[src'[m]] = "reading"
      BY <1>2, <2>2 DEF Handler, Connect, RegisterUser, RegisterConn, UnregisterConn,
                        UnregisterUser, Tick, Beat, BeatError, StopBeat
    <2>. QED
      BY <1>3, <2>1, <2>2 DEF SessionStep
  <1>4. ASSUME NEW n \in Msgs, SendPanics(n) PROVE pc'[src'[m]] = "reading"
    <2>1. CASE Local(n)
      <3>1. Held(m) /\ Held(n) /\ m # n
        BY <1>1, <1>4, <2>1 DEF SendPanics, Read, Held, InHand, Goto
      <3>2. src[m] # src[n]
        BY <3>1 DEF OneHeld
      <3>. QED
        BY <1>2, <1>4, <2>1, <3>2 DEF SendPanics
    <2>2. CASE ~ Local(n)
      <3>1. stage'[n] = "done" /\ stage[n] = "sending"
        BY <1>4, <2>2 DEF SendPanics, Losses
      <3>2. Held(m)
        BY <1>1, <3>1 DEF Read, Goto
      <3>3. gw[src[m]] # place[n]
        BY <1>4, <2>2, <3>2 DEF SendPanics, Losses, Crash, Held, InHand, Local
      <3>. QED
        BY <1>2, <1>4, <2>2, <3>3 DEF SendPanics, Crash
    <2>. QED
      BY <2>1, <2>2
  <1>5. ASSUME NEW g \in Gateways, GatewayCrash(g) PROVE pc'[src'[m]] = "reading"
    BY <1>1, <1>2, <1>5 DEF GatewayCrash, Crash, Losses, Held, InHand, Local, Read, Goto
  <1>6. ASSUME UNCHANGED <<pc, src>> PROVE pc'[src'[m]] = "reading"
    BY <1>2, <1>6
  <1>7. ASSUME NEW u \in Users, Expire(u) /\ UNCHANGED delivery PROVE UNCHANGED <<pc, src>>
    BY <1>7 DEF Expire
  <1>8. ASSUME NEW n \in Msgs, Read(n) \/ Ack(n) \/ Route(n) \/ RpcLost(n) \/ Find(n) \/ FindNone(n)
                               \/ Send(n) \/ SendDropped(n)
        PROVE  UNCHANGED <<pc, src>>
    BY <1>8 DEF Read, Route, Persist, PersistError, Store, Ack, AckError, Lookup, LookupNone, RpcLost,
                Find, FindNone, Send, SendDropped
  <1>9. ASSUME NEW s \in Sessions, Write(s) \/ Cut(s) PROVE UNCHANGED <<pc, src>>
    BY <1>9 DEF Write, Cut
  <1>. QED
    BY <1>3, <1>4, <1>5, <1>6, <1>7, <1>8, <1>9 DEF DeliveryNext, Deliver, allVars

\* Numbers are drawn in turn for each receiver, and kept.
LEMMA NumberedStep ==
  ASSUME DInv, [DeliveryNext]_allVars
  PROVE  Numbered'
  <1>. USE DEF DInv, DeliveryTypeOK, Numbered, Goto, numbers, wires, message, delivery
  <1>1. ASSUME NEW m \in Msgs, Persist(m) \/ PersistError(m) PROVE Numbered'
    <2>1. stage[m] = "persisting" /\ UNCHANGED <<src, dst>>
      BY <1>1 DEF Persist, PersistError
    <2>2. \/ stage' = [stage EXCEPT ![m] = "stored"] /\ Store(m)
          \/ stage' = [stage EXCEPT ![m] = "done"] /\ (Store(m) \/ UNCHANGED numbers)
      BY <1>1 DEF Persist, PersistError
    <2>3. CASE Store(m)
      BY <2>1, <2>2, <2>3 DEF Store
    <2>4. CASE stage' = [stage EXCEPT ![m] = "done"] /\ UNCHANGED numbers
      BY <2>1, <2>4
    <2>. QED
      BY <2>2, <2>3, <2>4
  <1>2. ASSUME NEW m \in Msgs, Read(m) \/ Ack(m) \/ AckError(m) \/ Lookup(m)
                               \/ LookupNone(m) \/ RpcLost(m)
        PROVE  Numbered'
    BY <1>2 DEF Read, Ack, AckError, Lookup, LookupNone, RpcLost
  <1>3. ASSUME NEW m \in Msgs, Find(m) \/ FindNone(m) \/ Send(m) \/ SendDropped(m)
        PROVE  Numbered'
    BY <1>3 DEF Find, FindNone, Send, SendDropped
  <1>4. ASSUME UNCHANGED <<src, dst, numbers>>,
               \A m \in Msgs : stage'[m] = stage[m] \/ stage'[m] = "done"
        PROVE  Numbered'
    BY <1>4
  <1>5. ASSUME NEW m \in Msgs, SendPanics(m)
        PROVE  \A n \in Msgs : stage'[n] = stage[n] \/ stage'[n] = "done"
    BY <1>5 DEF SendPanics, Losses
  <1>6. ASSUME NEW m \in Msgs, SendPanics(m) PROVE Numbered'
    BY <1>4, <1>5, <1>6 DEF SendPanics
  <1>7. ASSUME NEW g \in Gateways, GatewayCrash(g) PROVE Numbered'
    BY <1>4, <1>7 DEF GatewayCrash, Losses
  <1>8. ASSUME NEW s \in Sessions, SessionStep(s) \/ Write(s) \/ Cut(s) PROVE Numbered'
    BY <1>4, <1>8 DEF SessionStep, Write, Cut
  <1>9. CASE UNCHANGED delivery
    BY <1>4, <1>9
  <1>. QED
    BY <1>1, <1>2, <1>3, <1>6, <1>7, <1>8, <1>9 DEF DeliveryNext, Deliver, Route, allVars

\* What DeliverLocal finds in connMap is a channel of the receiver, because an entry
\* names a session of its user.
LEMMA FoundReceiverStep ==
  ASSUME DInv, MapOnlyLive, [DeliveryNext]_allVars
  PROVE  FoundReceiver'
  <1>. USE DEF DInv, DeliveryTypeOK, FoundReceiver, Goto, numbers, wires, message, delivery, vars
  <1>1. ASSUME NEW m \in Msgs, Find(m) PROVE FoundReceiver'
    <2>1. Channel(m) \in Sessions /\ user[Channel(m)] = dst[m]
      BY <1>1 DEF Find, Channel, TypeOK, MapOnlyLive, Place
    <2>. QED
      BY <1>1, <2>1 DEF Find
  <1>2. ASSUME NEW m \in Msgs, Lookup(m) PROVE FoundReceiver'
    BY <1>2 DEF Lookup, TypeOK
  <1>3. ASSUME UNCHANGED <<user, dst, place, chan>>,
               \A m \in Msgs : stage'[m] \in {"finding", "sending"} => stage'[m] = stage[m]
        PROVE  FoundReceiver'
    BY <1>3
  <1>4. ASSUME NEW m \in Msgs, Read(m) \/ Persist(m) \/ PersistError(m) \/ Ack(m) \/ AckError(m)
                               \/ LookupNone(m) \/ RpcLost(m)
        PROVE  FoundReceiver'
    BY <1>3, <1>4 DEF Read, Persist, PersistError, Store, Ack, AckError, LookupNone, RpcLost
  <1>5. ASSUME NEW m \in Msgs, FindNone(m) \/ Send(m) \/ SendDropped(m)
        PROVE  FoundReceiver'
    BY <1>3, <1>5 DEF FindNone, Send, SendDropped
  <1>6. ASSUME NEW m \in Msgs, SendPanics(m) PROVE FoundReceiver'
    <2>1. \A n \in Msgs : stage'[n] = stage[n] \/ stage'[n] = "done"
      BY <1>6 DEF SendPanics, Losses
    <2>2. UNCHANGED <<user, dst, place, chan>>
      BY <1>6 DEF SendPanics, Crash
    <2>. QED
      BY <1>3, <2>1, <2>2
  <1>7. ASSUME NEW g \in Gateways, GatewayCrash(g) PROVE FoundReceiver'
    BY <1>3, <1>7 DEF GatewayCrash, Losses, Crash
  <1>8. ASSUME NEW s \in Sessions, SessionStep(s) \/ Write(s) \/ Cut(s) PROVE FoundReceiver'
    <2>1. ASSUME SessionStep(s) PROVE UNCHANGED user
      BY <2>1 DEF SessionStep, Handler, Connect, RegisterUser, RegisterConn, UnregisterConn,
                  UnregisterUser, Tick, Beat, BeatError, StopBeat, ReadError
    <2>. QED
      BY <1>3, <1>8, <2>1 DEF SessionStep, Write, Cut
  <1>9. ASSUME NEW u \in Users, Expire(u) /\ UNCHANGED delivery PROVE FoundReceiver'
    BY <1>3, <1>9 DEF Expire
  <1>10. CASE UNCHANGED allVars
    BY <1>3, <1>10 DEF allVars
  <1>. QED
    BY <1>1, <1>2, <1>4, <1>5, <1>6, <1>7, <1>8, <1>9, <1>10 DEF DeliveryNext, Deliver, Route

\* A step that puts nothing into a channel and writes nothing: what is done stays
\* done, and a number drawn now is above the counter.
Kept ==
    /\ UNCHANGED <<user, gw, src, dst, queue, feed>>
    /\ \A m \in Msgs : stage[m] = "done" =>
           stage'[m] = "done" /\ pts'[m] = pts[m] /\ place'[m] = place[m]
    /\ \A m \in Msgs : Held(m)' /\ pts'[m] > 0 =>
           \/ Held(m) /\ pts'[m] = pts[m] /\ pts[m] > 0
           \/ pts'[m] > counter[dst[m]]

\* Every other step is one.
LEMMA KeptStep ==
  ASSUME DInv, [DeliveryNext]_allVars,
         ~ \E m \in Msgs : Send(m), ~ \E s \in Sessions : Write(s)
  PROVE  Kept
  <1>. USE DEF DInv, DeliveryTypeOK, Numbered, Goto, numbers, wires, message, delivery, vars
  <1>1. ASSUME NEW m \in Msgs, Held(m)' PROVE Held(m) \/ stage[m] = "unsent"
    BY <1>1, HeldStep DEF Read
  <1>2. ASSUME UNCHANGED <<user, gw, src, dst, pts, queue, feed>>,
               \A m \in Msgs : stage[m] = "done" => stage'[m] = "done" /\ place'[m] = place[m]
        PROVE  Kept
    BY <1>1, <1>2 DEF Kept
  <1>3. ASSUME NEW m \in Msgs, Persist(m) \/ PersistError(m) PROVE Kept
    <2>1. /\ stage[m] = "persisting" /\ pts[m] = 0
          /\ UNCHANGED <<user, gw, src, dst, place, queue, feed>>
      BY <1>3 DEF Persist, PersistError
    <2>2. stage' = [stage EXCEPT ![m] = "stored"] \/ stage' = [stage EXCEPT ![m] = "done"]
      BY <1>3 DEF Persist, PersistError
    <2>3. CASE Store(m)
      BY <1>1, <2>1, <2>2, <2>3 DEF Store, Kept
    <2>4. CASE UNCHANGED numbers
      BY <1>2, <2>1, <2>2, <2>4
    <2>. QED
      BY <1>3, <2>3, <2>4 DEF Persist, PersistError
  <1>4. ASSUME NEW m \in Msgs, Read(m) \/ Ack(m) \/ AckError(m) \/ Lookup(m)
                               \/ LookupNone(m) \/ RpcLost(m)
        PROVE  Kept
    BY <1>2, <1>4 DEF Read, Ack, AckError, Lookup, LookupNone, RpcLost
  <1>5. ASSUME NEW m \in Msgs, Find(m) \/ FindNone(m) \/ SendDropped(m) PROVE Kept
    BY <1>2, <1>5 DEF Find, FindNone, SendDropped
  <1>6. ASSUME NEW m \in Msgs, SendPanics(m) PROVE Kept
    <2>1. \A n \in Msgs : stage'[n] = stage[n] \/ stage'[n] = "done"
      BY <1>6 DEF SendPanics, Losses
    <2>2. UNCHANGED <<user, gw, src, dst, pts, place, queue, feed>>
      BY <1>6 DEF SendPanics, Crash
    <2>. QED
      BY <1>2, <2>1, <2>2
  <1>7. ASSUME NEW g \in Gateways, GatewayCrash(g) PROVE Kept
    BY <1>2, <1>7 DEF GatewayCrash, Losses, Crash
  <1>8. ASSUME NEW s \in Sessions, SessionStep(s) \/ Cut(s) PROVE Kept
    <2>1. ASSUME SessionStep(s) PROVE UNCHANGED <<user, gw>>
      BY <2>1 DEF SessionStep, Handler, Connect, RegisterUser, RegisterConn, UnregisterConn,
                  UnregisterUser, Tick, Beat, BeatError, StopBeat, ReadError
    <2>. QED
      BY <1>2, <1>8, <2>1 DEF SessionStep, Cut
  <1>9. ASSUME NEW u \in Users, Expire(u) /\ UNCHANGED delivery PROVE Kept
    BY <1>2, <1>9 DEF Expire
  <1>10. CASE UNCHANGED allVars
    BY <1>2, <1>10 DEF allVars
  <1>. QED
    BY <1>3, <1>4, <1>5, <1>6, <1>7, <1>8, <1>9, <1>10 DEF DeliveryNext, Deliver, Route

\* A message in a channel or a feed is one of Msgs.
LEMMA PassedType ==
  ASSUME DeliveryTypeOK, NEW r \in Sessions
  PROVE  /\ Len(queue[r]) \in Nat /\ \A i \in 1..Len(queue[r]) : queue[r][i] \in Msgs
         /\ Len(feed[r]) \in Nat /\ \A i \in 1..Len(feed[r]) : feed[r][i] \in Msgs
  BY DEF DeliveryTypeOK

\* Such steps leave every order alone.
LEMMA OrdersKept ==
  ASSUME DInv, DeliveryTypeOK', Kept
  PROVE  Orders'
  <1>. USE DEF DInv, DeliveryTypeOK, Numbered
  <1>1. ASSUME NEW r \in Sessions, NEW m \in Msgs
        PROVE  /\ Passed(r, m)' <=> Passed(r, m)
               /\ Passed(r, m) => /\ stage[m] = "done" /\ pts[m] > 0 /\ dst[m] = user[r]
                                  /\ stage'[m] = "done" /\ pts'[m] = pts[m] /\ place'[m] = place[m]
                                  /\ dst'[m] = dst[m] /\ src'[m] = src[m]
                                  /\ Local(m)' <=> Local(m)
    <2>1. Passed(r, m)' <=> Passed(r, m)
      BY DEF Kept, Passed
    <2>2. ASSUME Passed(r, m) PROVE stage[m] = "done" /\ pts[m] > 0 /\ dst[m] = user[r]
      BY <2>2 DEF Orders, PassedDone
    <2>. QED
      BY <2>1, <2>2 DEF Kept, Local
  <1>2. PassedDone'
    BY <1>1 DEF PassedDone, Kept
  <1>3. HeldIsNext'
    <2>. SUFFICES ASSUME NEW r \in Sessions, NEW m \in Msgs, NEW n \in Msgs,
                         Passed(r, m)', Local(m)', Held(n)', pts'[n] > 0,
                         src'[m] = src'[n], dst'[m] = dst'[n]
                  PROVE  pts'[m] < pts'[n]
      BY DEF HeldIsNext
    <2>1. Passed(r, m) /\ Local(m) /\ pts'[m] = pts[m] /\ src[m] = src[n] /\ dst[m] = dst[n]
      BY <1>1 DEF Kept
    <2>2. CASE Held(n) /\ pts'[n] = pts[n] /\ pts[n] > 0
      BY <2>1, <2>2 DEF Orders, HeldIsNext
    <2>3. CASE pts'[n] > counter[dst[n]]
      <3>1. pts[m] <= counter[dst[n]] /\ counter[dst[n]] \in Nat /\ pts[m] \in Nat
        BY <2>1
      <3>. QED
        BY <2>1, <2>3, <3>1
    <2>. QED
      BY <2>2, <2>3 DEF Kept
  <1>4. ASSUME NEW r \in Sessions, NEW m \in Msgs, NEW n \in Msgs,
               Passed(r, m), Passed(r, n), InOrder(m, n)
        PROVE  InOrder(m, n)'
    BY <1>1, <1>4 DEF InOrder
  <1>5. ASSUME NEW r \in Sessions, NEW i \in 1..Len(feed[r]) PROVE Passed(r, feed[r][i])
    BY DEF Passed
  <1>6. ASSUME NEW r \in Sessions, NEW i \in 1..Len(queue[r]) PROVE Passed(r, queue[r][i])
    BY DEF Passed
  <1>7. FeedOrder'
    BY <1>4, <1>5, PassedType DEF Orders, FeedOrder, Kept
  <1>8. QueueOrder'
    BY <1>4, <1>6, PassedType DEF Orders, QueueOrder, Kept
  <1>9. FeedBeforeQueue'
    BY <1>4, <1>5, <1>6, PassedType DEF Orders, FeedBeforeQueue, Kept
  <1>. QED
    BY <1>2, <1>3, <1>7, <1>8, <1>9 DEF Orders

\* What Send puts into a channel is numbered above what came before it from the same
\* session: it was in that session's hand.
LEMMA OrdersSend ==
  ASSUME DInv, NEW m \in Msgs, Send(m)
  PROVE  Orders'
  <1>. DEFINE r == chan[m]
  <1>. USE DEF DInv, DeliveryTypeOK
  <1>1. r \in Sessions /\ user[r] = dst[m] /\ pts[m] > 0
    BY DEF Send, FoundReceiver, Numbered
  <1>2. /\ UNCHANGED <<user, gw, src, dst, pts, place, feed>>
        /\ stage'[m] = "done" /\ \A n \in Msgs \ {m} : stage'[n] = stage[n]
        /\ \A s \in Sessions \ {r} : queue'[s] = queue[s]
    BY DEF Send, Goto, vars, numbers
  <1>3. /\ Len(queue'[r]) = Len(queue[r]) + 1 /\ queue'[r][Len(queue[r]) + 1] = m
        /\ \A i \in 1..Len(queue[r]) : queue'[r][i] = queue[r][i]
    <2>1. queue'[r] = Append(queue[r], m) /\ queue[r] \in Seq(Msgs)
      BY <1>1 DEF Send
    <2>. QED
      BY <2>1, AppendedTo
  <1>. HIDE DEF r
  <1>4. \A s \in Sessions : Len(queue[s]) \in Nat /\ Len(feed[s]) \in Nat
    BY PassedType
  <1>5. ASSUME NEW s \in Sessions, NEW n \in Msgs, Passed(s, n)'
        PROVE  Passed(s, n) \/ (s = r /\ n = m)
    <2>1. CASE s # r
      BY <1>2, <1>5, <2>1 DEF Passed
    <2>2. ASSUME s = r, NEW i \in 1..Len(queue'[r]), queue'[r][i] = n
          PROVE  Passed(r, n) \/ n = m
      <3>1. i \in 1..Len(queue[r]) \/ i = Len(queue[r]) + 1
        BY <1>1, <1>3, <1>4, <2>2
      <3>. QED
        BY <1>3, <2>2, <3>1 DEF Passed
    <2>. QED
      BY <1>2, <1>5, <2>1, <2>2 DEF Passed
  <1>6. PassedDone'
    BY <1>1, <1>2, <1>5 DEF Orders, PassedDone
  <1>7. \A n \in Msgs : Held(n)' => Held(n) /\ n # m
    BY <1>2 DEF Held, InHand, Local
  <1>8. Local(m) => Held(m)
    BY DEF Send, Held, InHand
  <1>9. HeldIsNext'
    <2>. SUFFICES ASSUME NEW s \in Sessions, NEW n \in Msgs, NEW k \in Msgs,
                         Passed(s, n)', Local(n)', Held(k)', pts'[k] > 0,
                         src'[n] = src'[k], dst'[n] = dst'[k]
                  PROVE  pts'[n] < pts'[k]
      BY DEF HeldIsNext
    <2>1. /\ Local(n) /\ Held(k) /\ k # m /\ pts[k] > 0
          /\ src[n] = src[k] /\ dst[n] = dst[k]
      BY <1>2, <1>7 DEF Local
    <2>2. CASE n = m
      BY <1>8, <2>1, <2>2 DEF OneHeld
    <2>3. CASE n # m
      BY <1>2, <1>5, <2>1, <2>3 DEF Orders, HeldIsNext
    <2>. QED
      BY <2>2, <2>3
  <1>10. ASSUME NEW n \in Msgs, Passed(r, n) PROVE InOrder(n, m)
    <2>1. dst[n] = dst[m]
      BY <1>1, <1>10 DEF Orders, PassedDone
    <2>. QED
      BY <1>1, <1>8, <1>10, <2>1 DEF Orders, HeldIsNext, InOrder
  <1>11. \A n, k \in Msgs : InOrder(n, k)' <=> InOrder(n, k)
    BY <1>2 DEF InOrder, Local
  <1>12. ASSUME NEW s \in Sessions, NEW i \in 1..Len(feed[s]) PROVE Passed(s, feed[s][i])
    BY DEF Passed
  <1>13. ASSUME NEW s \in Sessions, NEW i \in 1..Len(queue[s]) PROVE Passed(s, queue[s][i])
    BY DEF Passed
  <1>14. FeedOrder'
    BY <1>2, <1>11, PassedType DEF Orders, FeedOrder
  <1>15. ASSUME NEW s \in Sessions, NEW j \in 1..Len(queue'[s])
         PROVE  \/ j \in 1..Len(queue[s]) /\ queue'[s][j] = queue[s][j]
                \/ s = r /\ j = Len(queue[r]) + 1 /\ queue'[s][j] = m
    <2>1. CASE s # r
      BY <1>2, <1>15, <2>1
    <2>2. CASE s = r
      <3>1. j \in 1..Len(queue[r]) \/ j = Len(queue[r]) + 1
        BY <1>1, <1>3, <1>4, <1>15, <2>2
      <3>. QED
        BY <1>3, <2>2, <3>1
    <2>. QED
      BY <2>1, <2>2
  <1>16. QueueOrder'
    <2>. SUFFICES ASSUME NEW s \in Sessions, NEW i \in 1..Len(queue'[s]),
                         NEW j \in 1..Len(queue'[s]), i < j
                  PROVE  InOrder(queue'[s][i], queue'[s][j])
      BY <1>2 DEF QueueOrder, InOrder, Local
    <2>1. CASE j \in 1..Len(queue[s]) /\ queue'[s][j] = queue[s][j]
      <3>1. Len(queue[s]) \in Nat /\ i \in Nat /\ j \in Nat
        BY <1>4
      <3>2. i \in 1..Len(queue[s])
        BY <2>1, <3>1
      <3>3. ~ (s = r /\ i = Len(queue[r]) + 1)
        BY <3>1, <3>2
      <3>4. queue'[s][i] = queue[s][i]
        BY <1>15, <3>3
      <3>. QED
        BY <2>1, <3>2, <3>4 DEF Orders, QueueOrder
    <2>2. CASE s = r /\ j = Len(queue[r]) + 1 /\ queue'[s][j] = m
      <3>1. i \in 1..Len(queue[r])
        <4>1. i \in Nat /\ i >= 1 /\ i < Len(queue[r]) + 1
          BY <2>2, <1>1, <1>4
        <4>. QED
          BY <1>1, <1>4, <4>1
      <3>. QED
        BY <1>1, <1>3, <1>10, <1>13, <2>2, <3>1, PassedType
    <2>. QED
      BY <1>15, <2>1, <2>2
  <1>17. FeedBeforeQueue'
    <2>. SUFFICES ASSUME NEW s \in Sessions, NEW i \in 1..Len(feed[s]), NEW j \in 1..Len(queue'[s])
                  PROVE  InOrder(feed[s][i], queue'[s][j])
      BY <1>2 DEF FeedBeforeQueue, InOrder, Local
    <2>1. CASE j \in 1..Len(queue[s]) /\ queue'[s][j] = queue[s][j]
      BY <2>1 DEF Orders, FeedBeforeQueue
    <2>2. CASE s = r /\ j = Len(queue[r]) + 1 /\ queue'[s][j] = m
      BY <1>10, <1>12, <2>2, PassedType
    <2>. QED
      BY <1>15, <2>1, <2>2
  <1>. QED
    BY <1>6, <1>9, <1>14, <1>16, <1>17 DEF Orders

\* What Write takes out of a channel and shows comes after all that was shown before.
LEMMA OrdersWrite ==
  ASSUME DInv, NEW r \in Sessions, Write(r)
  PROVE  Orders'
  <1>. USE DEF DInv, DeliveryTypeOK
  <1>1. /\ UNCHANGED <<user, gw, src, dst, stage, pts, place>>
        /\ \A s \in Sessions \ {r} : queue'[s] = queue[s] /\ feed'[s] = feed[s]
    BY DEF Write, vars, message, numbers
  <1>2. /\ Len(queue[r]) \in Nat /\ Len(queue[r]) > 0 /\ queue[r][1] \in Msgs
        /\ Len(queue'[r]) = Len(queue[r]) - 1
        /\ \A i \in 1..Len(queue'[r]) : queue'[r][i] = queue[r][i + 1]
    <2>1. queue'[r] = Tail(queue[r]) /\ queue[r] \in Seq(Msgs) /\ queue[r] # <<>>
      BY DEF Write
    <2>. QED
      BY <2>1, TakenFrom
  <1>3. /\ Len(feed[r]) \in Nat /\ Len(feed'[r]) = Len(feed[r]) + 1
        /\ feed'[r][Len(feed[r]) + 1] = queue[r][1]
        /\ \A i \in 1..Len(feed[r]) : feed'[r][i] = feed[r][i]
    <2>1. feed'[r] = Append(feed[r], queue[r][1]) /\ feed[r] \in Seq(Msgs)
      <3>1. Head(queue[r]) = queue[r][1]
        BY TakenFrom DEF Write
      <3>. QED
        BY <3>1 DEF Write
    <2>2. queue[r][1] \in Msgs
      BY <1>2
    <2>. QED
      BY <2>1, <2>2, AppendedTo
  <1>4. ASSUME NEW i \in 1..Len(queue'[r])
        PROVE  i + 1 \in 1..Len(queue[r]) /\ i + 1 > 1 /\ queue'[r][i] = queue[r][i + 1]
    BY <1>2
  <1>5. ASSUME NEW i \in 1..Len(feed'[r])
        PROVE  \/ i \in 1..Len(feed[r]) /\ feed'[r][i] = feed[r][i]
               \/ i = Len(feed[r]) + 1 /\ feed'[r][i] = queue[r][1]
    <2>1. i \in 1..Len(feed[r]) \/ i = Len(feed[r]) + 1
      BY <1>3
    <2>. QED
      BY <1>3, <2>1
  <1>6. 1 \in 1..Len(queue[r])
    BY <1>2
  <1>7. ASSUME NEW s \in Sessions, NEW m \in Msgs, Passed(s, m)'
        PROVE  Passed(s, m)
    <2>1. CASE s # r
      BY <1>1, <1>7, <2>1 DEF Passed
    <2>2. ASSUME s = r, NEW i \in 1..Len(queue'[r]), queue'[r][i] = m
          PROVE  Passed(r, m)
      BY <1>4, <2>2 DEF Passed
    <2>3. ASSUME s = r, NEW i \in 1..Len(feed'[r]), feed'[r][i] = m
          PROVE  Passed(r, m)
      BY <1>5, <1>6, <2>3 DEF Passed
    <2>. QED
      BY <1>7, <2>1, <2>2, <2>3 DEF Passed
  <1>8. PassedDone'
    BY <1>1, <1>7 DEF Orders, PassedDone
  <1>9. HeldIsNext'
    BY <1>1, <1>7 DEF Orders, HeldIsNext, Held, InHand, Local
  <1>10. FeedOrder'
    <2>. SUFFICES ASSUME NEW s \in Sessions, NEW i \in 1..Len(feed'[s]),
                         NEW j \in 1..Len(feed'[s]), i < j
                  PROVE  InOrder(feed'[s][i], feed'[s][j])
      BY <1>1 DEF FeedOrder, InOrder, Local
    <2>1. CASE s # r
      BY <1>1, <2>1 DEF Orders, FeedOrder
    <2>2. CASE s = r /\ j \in 1..Len(feed[r])
      <3>1. i \in 1..Len(feed[r])
        BY <1>3, <2>2
      <3>. QED
        BY <1>3, <2>2, <3>1 DEF Orders, FeedOrder
    <2>3. CASE s = r /\ j = Len(feed[r]) + 1
      <3>1. i \in 1..Len(feed[r])
        BY <1>3, <2>3
      <3>. QED
        BY <1>3, <1>6, <2>3, <3>1 DEF Orders, FeedBeforeQueue
    <2>. QED
      BY <1>5, <2>1, <2>2, <2>3
  <1>11. QueueOrder'
    <2>. SUFFICES ASSUME NEW s \in Sessions, NEW i \in 1..Len(queue'[s]),
                         NEW j \in 1..Len(queue'[s]), i < j
                  PROVE  InOrder(queue'[s][i], queue'[s][j])
      BY <1>1 DEF QueueOrder, InOrder, Local
    <2>1. CASE s # r
      BY <1>1, <2>1 DEF Orders, QueueOrder
    <2>2. CASE s = r
      <3>1. i + 1 < j + 1
        BY <1>2, <2>2
      <3>. QED
        BY <1>4, <2>2, <3>1 DEF Orders, QueueOrder
    <2>. QED
      BY <2>1, <2>2
  <1>12. FeedBeforeQueue'
    <2>. SUFFICES ASSUME NEW s \in Sessions, NEW i \in 1..Len(feed'[s]), NEW j \in 1..Len(queue'[s])
                  PROVE  InOrder(feed'[s][i], queue'[s][j])
      BY <1>1 DEF FeedBeforeQueue, InOrder, Local
    <2>1. CASE s # r
      BY <1>1, <2>1 DEF Orders, FeedBeforeQueue
    <2>2. CASE s = r /\ i \in 1..Len(feed[r])
      BY <1>3, <1>4, <2>2 DEF Orders, FeedBeforeQueue
    <2>3. CASE s = r /\ i = Len(feed[r]) + 1
      BY <1>3, <1>4, <1>6, <2>3 DEF Orders, QueueOrder
    <2>. QED
      BY <1>5, <2>1, <2>2, <2>3
  <1>. QED
    BY <1>8, <1>9, <1>10, <1>11, <1>12 DEF Orders

\* What Write adds to a feed: the first message of the channel.
LEMMA Shows ==
  ASSUME DeliveryTypeOK, NEW r \in Sessions, Write(r)
  PROVE  /\ 1 \in 1..Len(queue[r]) /\ queue[r][1] \in Msgs
         /\ \A s \in Sessions \ {r} : feed'[s] = feed[s]
         /\ Len(feed'[r]) = Len(feed[r]) + 1
         /\ \A j \in 1..Len(feed[r]) : feed'[r][j] = feed[r][j]
         /\ \A j \in 1..Len(feed'[r]) : j \in 1..Len(feed[r]) \/ j = Len(feed[r]) + 1
         /\ feed'[r][Len(feed[r]) + 1] = queue[r][1]
  <1>. USE DEF DeliveryTypeOK
  <1>1. queue[r] \in Seq(Msgs) /\ queue[r] # <<>>
    BY DEF Write
  <1>2. Len(queue[r]) \in Nat /\ Len(queue[r]) > 0 /\ Head(queue[r]) = queue[r][1] /\ Head(queue[r]) \in Msgs
    BY <1>1, TakenFrom
  <1>3. feed'[r] = Append(feed[r], queue[r][1]) /\ feed[r] \in Seq(Msgs)
        /\ \A s \in Sessions \ {r} : feed'[s] = feed[s]
    BY <1>2 DEF Write
  <1>4. /\ Len(feed'[r]) = Len(feed[r]) + 1
        /\ feed'[r][Len(feed[r]) + 1] = queue[r][1]
        /\ \A i \in 1..Len(feed[r]) : feed'[r][i] = feed[r][i]
    BY <1>2, <1>3, AppendedTo
  <1>5. Len(feed[r]) \in Nat
    OBVIOUS
  <1>6. \A j \in 1..Len(feed'[r]) : j \in 1..Len(feed[r]) \/ j = Len(feed[r]) + 1
    BY <1>4, <1>5
  <1>. QED
    BY <1>2, <1>3, <1>4, <1>6

\* A message goes into one channel, once, and leaves it when it is shown.
LEMMA OnceStep ==
  ASSUME DInv, [DeliveryNext]_allVars
  PROVE  Once'
  <1>a. \A r, s \in Sessions : \A i \in 1..Len(queue[r]), j \in 1..Len(queue[s]) :
            queue[r][i] = queue[s][j] => r = s /\ i = j
    BY DEF DInv, Once
  <1>b. \A r, s \in Sessions : \A i \in 1..Len(queue[r]), j \in 1..Len(feed[s]) :
            queue[r][i] # feed[s][j]
    BY DEF DInv, Once
  <1>c. DeliveryTypeOK /\ Orders /\ FoundReceiver
    BY DEF DInv
  <1>1. ASSUME Kept PROVE Once'
    BY <1>1 DEF DInv, Kept, Once
  <1>2. ASSUME NEW m \in Msgs, Send(m) PROVE Once'
    <2>. DEFINE r == chan[m]
    <2>1. r \in Sessions /\ UNCHANGED feed /\ stage[m] = "sending"
          /\ \A s \in Sessions \ {r} : queue'[s] = queue[s]
      BY <1>2, <1>c DEF Send, FoundReceiver
    <2>2. queue'[r] = Append(queue[r], m) /\ queue[r] \in Seq(Msgs)
      BY <1>2, <1>c, <2>1 DEF Send, DeliveryTypeOK
    <2>. HIDE DEF r
    <2>3. /\ Len(queue'[r]) = Len(queue[r]) + 1 /\ queue'[r][Len(queue[r]) + 1] = m
          /\ \A i \in 1..Len(queue[r]) : queue'[r][i] = queue[r][i]
      BY <2>2, AppendedTo
    <2>4. \A s \in Sessions : ~ Passed(s, m)
      BY <1>c, <2>1 DEF Orders, PassedDone
    <2>5. ASSUME NEW s \in Sessions, NEW i \in 1..Len(queue'[s])
          PROVE  \/ i \in 1..Len(queue[s]) /\ queue'[s][i] = queue[s][i] /\ queue[s][i] # m
                 \/ s = r /\ i = Len(queue[r]) + 1 /\ queue'[s][i] = m
      <3>1. i \in 1..Len(queue[s]) \/ (s = r /\ i = Len(queue[r]) + 1)
        BY <1>c, <2>1, <2>3, <2>5, PassedType
      <3>. QED
        BY <2>1, <2>3, <2>4, <3>1 DEF Passed
    <2>6. ASSUME NEW s \in Sessions, NEW j \in 1..Len(feed'[s])
          PROVE  j \in 1..Len(feed[s]) /\ feed'[s][j] = feed[s][j] /\ feed[s][j] # m
      BY <2>1, <2>4 DEF Passed
    <2>7. ASSUME NEW s \in Sessions, NEW t \in Sessions,
                 NEW i \in 1..Len(queue'[s]), NEW j \in 1..Len(queue'[t]),
                 queue'[s][i] = queue'[t][j]
          PROVE  s = t /\ i = j
      <3>1. CASE queue'[s][i] = m
        BY <2>5, <2>7, <3>1
      <3>2. CASE queue'[s][i] # m
        <4>1. i \in 1..Len(queue[s]) /\ queue'[s][i] = queue[s][i]
          BY <2>5, <3>2
        <4>2. j \in 1..Len(queue[t]) /\ queue'[t][j] = queue[t][j]
          BY <2>5, <2>7, <3>2
        <4>3. queue[s][i] = queue[t][j]
          BY <2>7, <4>1, <4>2
        <4>4. i \in 1..Len(queue[s]) /\ j \in 1..Len(queue[t])
          BY <4>1, <4>2
        <4>. QED
          BY <1>a, <4>3, <4>4
      <3>. QED
        BY <3>1, <3>2
    <2>8. ASSUME NEW s \in Sessions, NEW t \in Sessions,
                 NEW i \in 1..Len(queue'[s]), NEW j \in 1..Len(feed'[t])
          PROVE  queue'[s][i] # feed'[t][j]
      <3>1. j \in 1..Len(feed[t]) /\ feed'[t][j] = feed[t][j] /\ feed[t][j] # m
        BY <2>6
      <3>2. \/ i \in 1..Len(queue[s]) /\ queue'[s][i] = queue[s][i]
            \/ queue'[s][i] = m
        BY <2>5
      <3>. QED
        BY <1>b, <3>1, <3>2
    <2>. QED
      BY <2>7, <2>8 DEF Once
  <1>3. ASSUME NEW r \in Sessions, Write(r) PROVE Once'
    <2>1. \A s \in Sessions \ {r} : queue'[s] = queue[s] /\ feed'[s] = feed[s]
      BY <1>3 DEF Write
    <2>2. ASSUME NEW s \in Sessions, NEW i \in 1..Len(queue'[s])
          PROVE  \/ s = r /\ i + 1 \in 1..Len(queue[r]) /\ i + 1 # 1
                    /\ queue'[s][i] = queue[r][i + 1]
                 \/ s # r /\ i \in 1..Len(queue[s]) /\ queue'[s][i] = queue[s][i]
      <3>1. /\ Len(queue[r]) \in Nat /\ Len(queue'[r]) = Len(queue[r]) - 1
            /\ \A k \in 1..Len(queue'[r]) : queue'[r][k] = queue[r][k + 1]
        BY <1>3, <1>c, TakenFrom DEF Write, DeliveryTypeOK
      <3>2. CASE s = r
        <4>1. i \in Nat /\ 1 <= i /\ i <= Len(queue[r]) - 1
          BY <3>1, <3>2
        <4>. QED
          BY <3>1, <3>2, <4>1
      <3>3. CASE s # r
        BY <2>1, <2>2, <3>3
      <3>. QED
        BY <3>2, <3>3
    <2>3. ASSUME NEW s \in Sessions, NEW j \in 1..Len(feed'[s])
          PROVE  \/ j \in 1..Len(feed[s]) /\ feed'[s][j] = feed[s][j]
                 \/ 1 \in 1..Len(queue[r]) /\ feed'[s][j] = queue[r][1]
      BY <1>3, <1>c, <2>1, <2>3, Shows
    <2>4. ASSUME NEW s \in Sessions, NEW t \in Sessions,
                 NEW i \in 1..Len(queue'[s]), NEW j \in 1..Len(queue'[t]),
                 queue'[s][i] = queue'[t][j]
          PROVE  s = t /\ i = j
      <3>1. i + 1 = j + 1 => i = j
        OBVIOUS
      <3>2. CASE s = r /\ t = r
        <4>1. i + 1 \in 1..Len(queue[r]) /\ queue'[s][i] = queue[r][i + 1]
          BY <2>2, <3>2
        <4>2. j + 1 \in 1..Len(queue[r]) /\ queue'[t][j] = queue[r][j + 1]
          BY <2>2, <3>2
        <4>. QED
          BY <1>a, <2>4, <3>1, <3>2, <4>1, <4>2
      <3>3. CASE s # r \/ t # r
        <4>1. ASSUME NEW u \in Sessions, NEW k \in 1..Len(queue'[u])
              PROVE  \E l \in 1..Len(queue[u]) :
                         queue'[u][k] = queue[u][l] /\ (u # r => l = k)
          BY <2>2
        <4>2. PICK k \in 1..Len(queue[s]) : queue'[s][i] = queue[s][k] /\ (s # r => k = i)
          BY <4>1
        <4>3. PICK l \in 1..Len(queue[t]) : queue'[t][j] = queue[t][l] /\ (t # r => l = j)
          BY <4>1
        <4>4. queue[s][k] = queue[t][l]
          BY <2>4, <4>2, <4>3
        <4>5. s = t /\ k = l
          BY <1>a, <4>4
        <4>. QED
          BY <3>3, <4>2, <4>3, <4>5
      <3>. QED
        BY <3>2, <3>3
    <2>5. ASSUME NEW s \in Sessions, NEW t \in Sessions,
                 NEW i \in 1..Len(queue'[s]), NEW j \in 1..Len(feed'[t])
          PROVE  queue'[s][i] # feed'[t][j]
      <3>1. \E k \in 1..Len(queue[s]) : queue'[s][i] = queue[s][k] /\ (s = r => k # 1)
        BY <2>2
      <3>2. PICK k \in 1..Len(queue[s]) : queue'[s][i] = queue[s][k] /\ (s = r => k # 1)
        BY <3>1
      <3>3. CASE j \in 1..Len(feed[t]) /\ feed'[t][j] = feed[t][j]
        BY <1>b, <3>2, <3>3
      <3>4. CASE 1 \in 1..Len(queue[r]) /\ feed'[t][j] = queue[r][1]
        BY <1>a, <3>2, <3>4
      <3>. QED
        BY <2>3, <3>3, <3>4
    <2>. QED
      BY <2>4, <2>5 DEF Once
  <1>. QED
    BY <1>1, <1>2, <1>3, KeptStep

\* The inductive invariant is kept by every step.
LEMMA DeliveryInvStep == JInv /\ [DeliveryNext]_allVars => JInv'
  <1>. SUFFICES ASSUME JInv, [DeliveryNext]_allVars PROVE JInv'
    OBVIOUS
  <1>1. DInv /\ IInv /\ MapOnlyLive
    BY DEF JInv, IInv
  <1>2. IInv' /\ TypeOK'
    BY <1>1, DeliveryIsSessions, InvStep DEF IInv
  <1>3. DeliveryTypeOK'
    BY <1>1, <1>2, DeliveryTypeStep
  <1>4. HandlerAlive' /\ OneHeld' /\ Numbered' /\ FoundReceiver'
    BY <1>1, HandlerAliveStep, OneHeldStep, NumberedStep, FoundReceiverStep
  <1>5. Orders'
    BY <1>1, <1>3, OrdersSend, OrdersWrite, OrdersKept, KeptStep
  <1>6. Once'
    BY <1>1, OnceStep
  <1>. QED
    BY <1>2, <1>3, <1>4, <1>5, <1>6 DEF JInv, DInv

\* The inductive invariant holds in every reachable state.
THEOREM DeliveryInvariance == DeliverySpec => []JInv
  BY DeliveryInvInit, DeliveryInvStep, PTL DEF DeliverySpec

\* Every variable stays in its range: in particular no channel ever holds more than
\* ChanCap messages.
THEOREM DeliveryTypeCorrect == DeliverySpec => []DeliveryTypeOK
  <1>1. JInv => DeliveryTypeOK
    BY DEF JInv, DInv
  <1>. QED
    BY <1>1, DeliveryInvariance, PTL

\* Delivery implements Sessions: whatever messages do, sessions, connection maps and
\* presence behave as Sessions says, a panic being a read error or a crash there.
THEOREM DeliveryImplementsSessions == DeliverySpec => Spec
  <1>1. DeliveryInit => Init
    BY DEF DeliveryInit
  <1>2. JInv /\ [DeliveryNext]_allVars => [Next]_vars
    BY DeliveryIsSessions DEF JInv
  <1>. QED
    BY <1>1, <1>2, DeliveryInvariance, PTL DEF DeliverySpec, Spec

\* Messages of one session that its own gateway delivers are shown in the order of
\* their numbers, whatever number of senders, sessions and gateways overlap.
THEOREM LocalFifoCorrect == DeliverySpec => []LocalFifo
  <1>1. JInv => LocalFifo
    <2>. SUFFICES ASSUME JInv, NEW r \in Sessions, NEW i \in 1..Len(feed[r]),
                         NEW j \in 1..Len(feed[r]), i < j
                  PROVE  InOrder(feed[r][i], feed[r][j])
      BY DEF LocalFifo, InOrder
    <2>. QED
      BY DEF JInv, DInv, Orders, FeedOrder
  <1>. QED
    BY <1>1, DeliveryInvariance, PTL

\* A message in a channel has not been shown.
LEMMA QueuedNotShown ==
  ASSUME DInv, NEW r \in Sessions, NEW i \in 1..Len(queue[r])
  PROVE  ~ Feed!Shown(queue[r][i])
  BY DEF DInv, Once, Feed!Shown

\* Every step of Delivery stores a message, shows one, or is of no concern to a feed.
LEMMA FeedStep == JInv /\ [DeliveryNext]_allVars => [Feed!Next]_<<dst, user, pts, feed>>
  <1>. SUFFICES ASSUME JInv, [DeliveryNext]_allVars
                PROVE  [Feed!Next]_<<dst, user, pts, feed>>
    OBVIOUS
  <1>. DInv
    BY DEF JInv
  <1>. USE DEF DInv, DeliveryTypeOK
  <1>1. ASSUME NEW m \in Msgs, stage[m] = "persisting", Store(m), UNCHANGED <<dst, user, feed>>
        PROVE  Feed!Next
    <2>1. pts[m] = 0 /\ pts' = [pts EXCEPT ![m] = counter[dst[m]] + 1]
      BY <1>1 DEF Store, Numbered
    <2>2. \A n \in Msgs : pts[n] <= counter[dst[n]] /\ counter[dst[n]] \in Nat /\ pts[n] \in Nat
      BY DEF Numbered
    <2>3. Feed!Store(m)
      BY <1>1, <2>1, <2>2 DEF Feed!Store
    <2>. QED
      BY <2>3 DEF Feed!Next
  <1>2. ASSUME NEW m \in Msgs, Persist(m) \/ PersistError(m)
        PROVE  Feed!Next \/ UNCHANGED <<dst, user, pts, feed>>
    <2>1. stage[m] = "persisting" /\ UNCHANGED <<dst, user, feed>>
      BY <1>2 DEF Persist, PersistError, vars, wires
    <2>2. Store(m) \/ UNCHANGED pts
      BY <1>2 DEF Persist, PersistError, numbers
    <2>. QED
      BY <1>1, <2>1, <2>2
  <1>3. ASSUME NEW r \in Sessions, Write(r) PROVE Feed!Next
    <2>1. PICK m \in Msgs : m = queue[r][1]
      BY <1>3, Shows
    <2>2. UNCHANGED <<dst, user, pts>>
      BY <1>3 DEF Write, vars, message, numbers
    <2>3. 1 \in 1..Len(queue[r]) /\ m = queue[r][1]
      BY <1>3, <2>1, Shows
    <2>4. pts[m] > 0 /\ user[r] = dst[m]
      BY <2>3 DEF Orders, PassedDone, Passed
    <2>5. ~ Feed!Shown(m)
      BY <2>3, QueuedNotShown
    <2>6. feed' = [feed EXCEPT ![r] = Append(feed[r], m)]
      <3>1. queue[r] \in Seq(Msgs) /\ queue[r] # <<>>
        BY <1>3 DEF Write
      <3>2. Head(queue[r]) = m
        BY <2>3, <3>1, TakenFrom
      <3>. QED
        BY <1>3, <3>2 DEF Write
    <2>7. Feed!Show(m, r)
      BY <2>2, <2>4, <2>5, <2>6 DEF Feed!Show
    <2>. QED
      BY <2>7 DEF Feed!Next
  <1>4. ASSUME \A m \in Msgs : ~ Persist(m) /\ ~ PersistError(m), \A s \in Sessions : ~ Write(s)
        PROVE  UNCHANGED <<dst, user, pts, feed>>
    <2>1. CASE UNCHANGED allVars
      BY <2>1 DEF allVars, vars, delivery, message, numbers, wires
    <2>2. ASSUME NEW m \in Msgs, Read(m) \/ Ack(m) \/ Route(m) \/ Deliver(m) \/ RpcLost(m)
          PROVE  UNCHANGED <<dst, user, pts, feed>>
      BY <1>4, <2>2 DEF Read, Route, Ack, AckError, Lookup, LookupNone, RpcLost,
                        Deliver, Find, FindNone, Send, SendDropped, SendPanics, Crash,
                        vars, numbers, wires
    <2>3. ASSUME NEW s \in Sessions, SessionStep(s) PROVE UNCHANGED user /\ UNCHANGED delivery
      BY <2>3 DEF SessionStep, Handler, Connect, RegisterUser, RegisterConn, UnregisterConn,
                  UnregisterUser, Tick, Beat, BeatError, StopBeat, ReadError
    <2>4. ASSUME NEW s \in Sessions, SessionStep(s) \/ Cut(s)
          PROVE  UNCHANGED <<dst, user, pts, feed>>
      BY <2>3, <2>4 DEF Cut, vars, delivery, message, numbers, wires
    <2>5. ASSUME NEW u \in Users, Expire(u), UNCHANGED delivery
          PROVE  UNCHANGED <<dst, user, pts, feed>>
      BY <2>5 DEF Expire, delivery, message, numbers, wires
    <2>6. ASSUME NEW g \in Gateways, GatewayCrash(g) PROVE UNCHANGED <<dst, user, pts, feed>>
      BY <2>6 DEF GatewayCrash, Crash, numbers
    <2>. QED
      BY <1>4, <2>1, <2>2, <2>4, <2>5, <2>6 DEF DeliveryNext
  <1>. QED
    BY <1>2, <1>3, <1>4

\* Whatever overlaps, crashes or is lost, a message is stored once, above every number
\* its receiver has, before it is shown, and shown a single time, to its receiver.
THEOREM FeedCorrect == DeliverySpec => ImplementsFeed
  <1>1. DeliveryInit => Feed!Init
    BY DEF Feed!Init, DeliveryInit
  <1>. QED
    BY <1>1, FeedStep, DeliveryInvariance, PTL DEF DeliverySpec, ImplementsFeed, Feed!Spec
=============================================================================

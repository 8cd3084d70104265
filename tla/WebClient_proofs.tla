-------------------------- MODULE WebClient_proofs --------------------------
(***************************************************************************)
(* Theorems about WebClient, for every set of messages and every bound on  *)
(* attempts, connections and reloads.                                      *)
(*                                                                         *)
(* The invariant comes in three layers, each proved from the one before:   *)
(* what holds of every page (Base), that a page on which the form was      *)
(* submitted in time has one socket (OneSocket), and the order of its acks *)
(* then (Ordered).                                                         *)
(***************************************************************************)
EXTENDS WebClient, Sync_proofs

----------------------------------------------------------------------------
(* The inductive invariant.                                                *)

IsAck(s, x) == down[s][x][1] = "ack"

\* What is in the queues, and that only connections that are open have any frames.
Queues ==
    /\ open \subseteq 1 .. session
    /\ conn = "open" => ws \in open
    /\ \A s \in Conns : s > session => up[s] = <<>>
    /\ \A s \in Conns \ open : down[s] = <<>>
    /\ \A s \in Conns : \A x \in DOMAIN up[s] : up[s][x] \in Outgoing
    /\ \A s \in Conns : \A x \in DOMAIN down[s] :
          /\ down[s][x][2] \in Stored
          /\ down[s][x][2] \in IF IsAck(s, x) THEN Outgoing ELSE Incoming

\* What was shown or acked is stored, so that its numbers stay.
Settled ==
    /\ due \subseteq Stored /\ shown \subseteq Stored
    /\ acked \subseteq Stored /\ \A pair \in marked : pair[1] \in acked

\* What this page has saved last is its localPts.
Saved == ~ foreign => saved = localPts

Base == WebTypeOK /\ Queues /\ Settled /\ Saved /\ MissedIsAnnounced

\* A page on which the form was submitted in time has one socket, or one timer.
OneSocket ==
    ~ crowded =>
        /\ open \subseteq {session}
        /\ conn = "open" => ws = session
        /\ others = 0
        /\ conn = "connecting" => timers = 0 /\ open = {}
        /\ open # {} => timers = 0
        /\ timers <= 1
        /\ ~ entered => open = {}

\* a was sent before b, from this page.
Before(a, b) ==
    \E i, j \in DOMAIN order : i < j /\ order[i] = a /\ order[j] = b

OnPage(m) == \E i \in DOMAIN order : order[i] = m

AllOnPage(s) ==
    /\ \A x \in DOMAIN down[s] : IsAck(s, x) => OnPage(down[s][x][2])
    /\ \A x \in DOMAIN up[s] : OnPage(up[s][x])

\* What the open connections carry was sent from this page, and what had an ack from
\* it or before a reload.
FromPage ==
    /\ \A s \in open : AllOnPage(s)
    /\ \A a \in acked : a \in earlier \/ OnPage(a)

\* A message is sent once.
SentOnce ==
    /\ \A i, j \in DOMAIN order : order[i] = order[j] => i = j
    /\ \A i \in DOMAIN order : order[i] \notin earlier

\* The number of acks the page has had.
Done == Len(order) - Len(pendingAcks)

\* pendingAcks is what is left of order.
Pending ==
    /\ Len(pendingAcks) <= Len(order)
    /\ \A x \in DOMAIN pendingAcks : pendingAcks[x] = order[Done + x]

\* The acks the page has had, those on their way to it and the messages they may
\* still come for, in that order, are in the order of sending.
QueuesInOrder(s) ==
    /\ \A x, y \in DOMAIN down[s] :
          x < y /\ IsAck(s, x) /\ IsAck(s, y) => Before(down[s][x][2], down[s][y][2])
    /\ \A x, y \in DOMAIN up[s] : x < y => Before(up[s][x], up[s][y])
    /\ \A x \in DOMAIN down[s], y \in DOMAIN up[s] :
          IsAck(s, x) => Before(down[s][x][2], up[s][y])

AckedBefore(a, s) ==
    /\ \A x \in DOMAIN down[s] : IsAck(s, x) => Before(a, down[s][x][2])
    /\ \A y \in DOMAIN up[s] : Before(a, up[s][y])

InSendOrder ==
    \A s \in open :
        /\ QueuesInOrder(s)
        /\ \A pair \in marked : OnPage(pair[1]) => AckedBefore(pair[1], s)

\* An ack that marked the j-th message sent from this page was for that one or a
\* later one.
ForLater ==
    \A pair \in marked :
        \/ pair[1] \in earlier
        \/ \E i \in DOMAIN order, j \in 1 .. Done : j <= i /\ pair = <<order[i], order[j]>>

\* As many acks, as many marked messages: the first ones.
EachMarked ==
    \A j \in 1 .. Done : \E i \in DOMAIN order : <<order[i], order[j]>> \in marked

\* A later ack marks a later message.
InStep ==
    \A i, k \in DOMAIN order, j, l \in 1 .. Done :
        <<order[i], order[j]>> \in marked /\ <<order[k], order[l]>> \in marked
            => (i < k <=> j < l)

\* The page has not had an ack that marked nothing.
NoneWasted ==
    \A i \in DOMAIN order : order[i] \in acked =>
        \E j \in 1 .. Done : <<order[i], order[j]>> \in marked

Marks == ForLater /\ EachMarked /\ InStep /\ NoneWasted

InOrder == SentOnce /\ Pending /\ InSendOrder /\ Marks

Ordered == FromPage /\ (~ crowded => InOrder)

----------------------------------------------------------------------------
(* WebClient implements Sync.                                              *)

\* What the page and the gateway do is a step of PersistMessage or nothing to the
\* stream, and nothing at all to a device that catches up.
THEOREM WebClientImplementsSync == WebSpec => SyncSpec
  <1>1. WebInit => SyncInit
    BY DEF WebInit
  <1>2. ASSUME [WebNext]_webVars PROVE [SyncNext]_syncVars
    <2>1. CASE UNCHANGED webVars
      BY <2>1 DEF webVars
    <2>2. CASE PageStep /\ UNCHANGED stream /\ UNCHANGED device
      BY <2>2 DEF syncVars
    <2>3. ASSUME NEW m \in Msgs, PersistOutgoing(m) \/ PersistIncoming(m), UNCHANGED device
          PROVE  SyncNext
      BY <2>3 DEF PersistOutgoing, PersistIncoming, SyncNext, StreamNext
    <2>4. ASSUME NEW ms \in SUBSET Msgs, PersistFails(ms), UNCHANGED device
          PROVE  SyncNext
      BY <2>4 DEF PersistFails, SyncNext, StreamNext
    <2>5. CASE RedisFails /\ UNCHANGED device
      BY <2>5 DEF SyncNext, StreamNext
    <2>6. ASSUME NEW s \in Conns, UNCHANGED device,
                 Dropped(s) \/ \E m \in Msgs : Acked(s, m) \/ NotAcked(s, m) \/ Pushed(s, m)
          PROVE  UNCHANGED syncVars
      BY <2>6 DEF Dropped, Acked, NotAcked, Pushed, syncVars
    <2>7. CASE SyncNext
      BY <2>7
    <2>. QED
      BY <1>2, <2>1, <2>2, <2>3, <2>4, <2>5, <2>6, <2>7 DEF WebNext, PageNext, GatewayStep
  <1>. QED
    BY <1>1, <1>2, PTL DEF WebSpec, SyncSpec

----------------------------------------------------------------------------
(* Lemmas.                                                                 *)

\* A step of PersistMessage leaves what is stored as it is.
LEMMA StoredStays ==
  ASSUME SyncTypeOK, StreamNext
  PROVE  /\ Stored \subseteq Stored'
         /\ \A n \in Stored : rpts'[n] = rpts[n] /\ spts'[n] = spts[n]
  <1>1. ASSUME NEW m \in Msgs, PersistStep(m)
        PROVE  /\ Stored \subseteq Stored'
               /\ \A n \in Stored : rpts'[n] = rpts[n] /\ spts'[n] = spts[n]
    BY <1>1 DEF SyncTypeOK, Stored, PersistStep, DrawReceiver, DrawSender, Commit
  <1>2. ASSUME NEW ms \in SUBSET Msgs, Burn(ms)
        PROVE  /\ Stored \subseteq Stored'
               /\ \A n \in Stored : rpts'[n] = rpts[n] /\ spts'[n] = spts[n]
    BY <1>2 DEF SyncTypeOK, Stored, Burn
  <1>3. CASE RedisFails
    BY <1>3 DEF RedisFails, Doubt, Lose, Stored
  <1>. QED
    BY <1>1, <1>2, <1>3 DEF StreamNext

\* Appending to a queue.
LEMMA AppendElems ==
  ASSUME NEW S, NEW q \in Seq(S), NEW e \in S
  PROVE  /\ Append(q, e) \in Seq(S) /\ Len(Append(q, e)) = Len(q) + 1
         /\ Len(q) \in Nat /\ DOMAIN q = 1 .. Len(q)
         /\ \A x \in DOMAIN Append(q, e) :
               \/ x \in DOMAIN q /\ Append(q, e)[x] = q[x]
               \/ x = Len(q) + 1 /\ Append(q, e)[x] = e
  OBVIOUS

\* Taking the head of a queue.
LEMMA TailElems ==
  ASSUME NEW S, NEW q \in Seq(S), q # <<>>
  PROVE  /\ Tail(q) \in Seq(S) /\ Len(Tail(q)) = Len(q) - 1 /\ Len(q) \in Nat \ {0}
         /\ 1 \in DOMAIN q /\ Head(q) = q[1]
         /\ \A x \in DOMAIN Tail(q) : x \in Nat \ {0} /\ x + 1 \in DOMAIN q /\ Tail(q)[x] = q[x + 1]
  OBVIOUS

\* An open connection is one of those that were opened.
LEMMA OpenIsConn == Base => open \subseteq Conns /\ session \in 0 .. MaxConns /\ MaxConns \in Nat
  BY WebClientAssumption DEF Base, WebTypeOK

\* An empty queue has nothing in it.
LEMMA NothingIn == \A x : x \notin DOMAIN <<>>
  OBVIOUS

\* The page reads the first frame of a connection: the others move up.
LEMMA ReadFirst ==
  ASSUME Base, NEW s \in Conns, NEW kind, NEW m, Reads(s, kind, m)
  PROVE  /\ down' \in [Conns -> Seq({"ack", "message"} \X Msgs)]
         /\ \A r \in Conns \ {s} : down'[r] = down[r]
         /\ s \in open /\ 1 \in DOMAIN down[s] /\ down[s][1] = <<kind, m>>
         /\ IsAck(s, 1) <=> kind = "ack"
         /\ down[s][1][2] = m /\ m \in Stored
         /\ \A x \in DOMAIN down'[s] :
               x \in Nat \ {0} /\ x + 1 \in DOMAIN down[s] /\ down'[s][x] = down[s][x + 1]
  <1>1. /\ down[s] \in Seq({"ack", "message"} \X Msgs) /\ down[s] # <<>> /\ Head(down[s]) = <<kind, m>>
        /\ down \in [Conns -> Seq({"ack", "message"} \X Msgs)]
        /\ down' = [down EXCEPT ![s] = Tail(down[s])]
    BY DEF Base, WebTypeOK, Reads
  <1>2. /\ Tail(down[s]) \in Seq({"ack", "message"} \X Msgs)
        /\ 1 \in DOMAIN down[s] /\ down[s][1] = <<kind, m>>
        /\ \A x \in DOMAIN Tail(down[s]) :
              x \in Nat \ {0} /\ x + 1 \in DOMAIN down[s] /\ Tail(down[s])[x] = down[s][x + 1]
    BY <1>1, TailElems
  <1>3. down'[s] = Tail(down[s]) /\ \A r \in Conns \ {s} : down'[r] = down[r]
    BY <1>1
  <1>4. down' \in [Conns -> Seq({"ack", "message"} \X Msgs)]
    BY <1>1, <1>2
  <1>5. (IsAck(s, 1) <=> kind = "ack") /\ down[s][1][2] = m
    BY <1>2 DEF IsAck
  <1>6. m \in Stored
    BY <1>2, <1>5 DEF Base, Queues
  <1>7. s \in open
    BY DEF Reads
  <1>. QED
    BY <1>2, <1>3, <1>4, <1>5, <1>6, <1>7

\* The gateway takes the first message of a connection in hand: the others move up.
LEMMA TakeFirst ==
  ASSUME Base, NEW s \in Conns, NEW m, AtGateway(s, m), up' = [up EXCEPT ![s] = Tail(@)]
  PROVE  /\ up' \in [Conns -> Seq(Msgs)]
         /\ \A r \in Conns \ {s} : up'[r] = up[r]
         /\ 1 \in DOMAIN up[s] /\ up[s][1] = m /\ m \in Outgoing
         /\ \A x \in DOMAIN up'[s] : x \in Nat \ {0} /\ x + 1 \in DOMAIN up[s] /\ up'[s][x] = up[s][x + 1]
  <1>1. /\ up[s] \in Seq(Msgs) /\ up[s] # <<>> /\ Head(up[s]) = m
        /\ up \in [Conns -> Seq(Msgs)] /\ up' = [up EXCEPT ![s] = Tail(up[s])]
    BY DEF Base, WebTypeOK, AtGateway
  <1>2. /\ Tail(up[s]) \in Seq(Msgs) /\ 1 \in DOMAIN up[s] /\ up[s][1] = m
        /\ \A x \in DOMAIN Tail(up[s]) :
              x \in Nat \ {0} /\ x + 1 \in DOMAIN up[s] /\ Tail(up[s])[x] = up[s][x + 1]
    BY <1>1, TailElems
  <1>3. up'[s] = Tail(up[s]) /\ \A r \in Conns \ {s} : up'[r] = up[r]
    BY <1>1
  <1>4. up' \in [Conns -> Seq(Msgs)]
    BY <1>1, <1>2
  <1>5. m \in Outgoing
    BY <1>2 DEF Base, Queues
  <1>. QED
    BY <1>2, <1>3, <1>4, <1>5

\* A frame is the last on its way to the page.
LEMMA WriteLast ==
  ASSUME Base, NEW s \in Conns, NEW f \in {"ack", "message"} \X Msgs,
         down' = [down EXCEPT ![s] = Append(@, f)]
  PROVE  /\ down' \in [Conns -> Seq({"ack", "message"} \X Msgs)]
         /\ \A r \in Conns \ {s} : down'[r] = down[r]
         /\ Len(down[s]) \in Nat /\ DOMAIN down[s] = 1 .. Len(down[s])
         /\ \A x \in DOMAIN down'[s] :
               \/ x \in DOMAIN down[s] /\ down'[s][x] = down[s][x]
               \/ x = Len(down[s]) + 1 /\ down'[s][x] = f
  <1>1. /\ down[s] \in Seq({"ack", "message"} \X Msgs)
        /\ down \in [Conns -> Seq({"ack", "message"} \X Msgs)]
        /\ down' = [down EXCEPT ![s] = Append(down[s], f)]
    BY DEF Base, WebTypeOK
  <1>2. down'[s] = Append(down[s], f) /\ \A r \in Conns \ {s} : down'[r] = down[r]
    BY <1>1
  <1>3. /\ Append(down[s], f) \in Seq({"ack", "message"} \X Msgs)
        /\ Len(down[s]) \in Nat /\ DOMAIN down[s] = 1 .. Len(down[s])
        /\ \A x \in DOMAIN Append(down[s], f) :
              \/ x \in DOMAIN down[s] /\ Append(down[s], f)[x] = down[s][x]
              \/ x = Len(down[s]) + 1 /\ Append(down[s], f)[x] = f
    BY <1>1, AppendElems
  <1>4. down' \in [Conns -> Seq({"ack", "message"} \X Msgs)]
    BY <1>1, <1>3
  <1>. QED
    BY <1>2, <1>3, <1>4

\* A message is the last on its way to the gateway.
LEMMA SendLast ==
  ASSUME Base, NEW m \in Msgs, Send(m)
  PROVE  /\ ws \in Conns /\ ws \in open /\ up' \in [Conns -> Seq(Msgs)]
         /\ \A r \in Conns \ {ws} : up'[r] = up[r]
         /\ Len(up[ws]) \in Nat /\ DOMAIN up[ws] = 1 .. Len(up[ws])
         /\ \A x \in DOMAIN up'[ws] :
               \/ x \in DOMAIN up[ws] /\ up'[ws][x] = up[ws][x]
               \/ x = Len(up[ws]) + 1 /\ up'[ws][x] = m
  <1>1. ws \in open /\ ws \in Conns
    BY OpenIsConn DEF Base, Queues, Send
  <1>2. /\ up[ws] \in Seq(Msgs) /\ up \in [Conns -> Seq(Msgs)]
        /\ up' = [up EXCEPT ![ws] = Append(up[ws], m)]
    BY <1>1 DEF Base, WebTypeOK, Send
  <1>3. up'[ws] = Append(up[ws], m) /\ \A r \in Conns \ {ws} : up'[r] = up[r]
    BY <1>1, <1>2
  <1>4. /\ Append(up[ws], m) \in Seq(Msgs)
        /\ Len(up[ws]) \in Nat /\ DOMAIN up[ws] = 1 .. Len(up[ws])
        /\ \A x \in DOMAIN Append(up[ws], m) :
              \/ x \in DOMAIN up[ws] /\ Append(up[ws], m)[x] = up[ws][x]
              \/ x = Len(up[ws]) + 1 /\ Append(up[ws], m)[x] = m
    BY <1>2, AppendElems
  <1>5. up' \in [Conns -> Seq(Msgs)]
    BY <1>2, <1>4
  <1>. QED
    BY <1>1, <1>3, <1>4, <1>5

----------------------------------------------------------------------------
(* Base.                                                                   *)

\* At the start the queues are empty and nothing was shown.
LEMMA BaseInit == WebInit => Base
  <1>. SUFFICES ASSUME WebInit PROVE Base
    OBVIOUS
  <1>. USE DEF WebInit
  <1>1. SyncTypeOK
    BY InvInit DEF IInv
  <1>2. found \in Nat
    <2>1. found \in {0} \cup OthersPts
      OBVIOUS
    <2>. QED
      BY <2>1, WebClientAssumption
  <1>3. WebTypeOK
    <2>1. /\ up \in [Conns -> Seq(Msgs)] /\ down \in [Conns -> Seq({"ack", "message"} \X Msgs)]
          /\ pendingAcks \in Seq(Outgoing) /\ order \in Seq(Outgoing)
      OBVIOUS
    <2>2. ws \in 0 .. MaxConns /\ session \in 0 .. MaxConns /\ others \in Nat /\ timers \in Nat
          /\ reconnectAttempts \in 0 .. MaxAttempts /\ reloads \in 0 .. MaxReloads
      BY WebClientAssumption
    <2>3. told \in BOOLEAN /\ entered \in BOOLEAN /\ crowded \in BOOLEAN /\ foreign \in BOOLEAN
      BY Zenon
    <2>4. localPts \in Nat /\ saved \in Nat
      BY <1>2
    <2>. QED
      BY <1>1, <1>2, <2>1, <2>2, <2>3, <2>4 DEF WebTypeOK
  <1>4. Queues /\ Settled /\ Saved
    BY DEF Queues, Settled, Saved
  <1>5. MissedIsAnnounced
    BY <1>2 DEF MissedIsAnnounced
  <1>. QED
    BY <1>3, <1>4, <1>5 DEF Base

\* What a page has shown and announced stays, whatever happens to the stream.
LEMMA MissedStays ==
  ASSUME Base, Stored \subseteq Stored',
         \A n \in Stored : rpts'[n] = rpts[n] /\ spts'[n] = spts[n],
         localPts' = localPts \/ localPts' <= found', found <= found', found' \in Nat, localPts' \in Nat,
         UNCHANGED <<acked, shown, announced>>
  PROVE  MissedIsAnnounced'
  <1>0. \A n \in (found' + 1) .. localPts' : n \in Int /\ found' < n /\ n <= localPts'
    <2>1. PICK a \in Nat, b \in Nat : a = found' /\ b = localPts'
      OBVIOUS
    <2>2. \A n \in (a + 1) .. b : n \in Int /\ a < n /\ n <= b
      BY ONLY a \in Nat, b \in Nat
    <2>. QED
      BY ONLY <2>1, <2>2, Zenon
  <1>. SUFFICES ASSUME NEW n \in Int, found' < n, n <= localPts'
                PROVE  \/ n \in announced'
                       \/ \E k \in shown' : n = rpts'[k]
                       \/ \E a \in acked' : n <= spts'[a]
    BY <1>0, Zenon DEF MissedIsAnnounced
  <1>1. n \in (found + 1) .. localPts
    <2>1. found \in Nat /\ localPts \in Nat /\ found' \in Nat /\ localPts' \in Nat
      BY DEF Base, WebTypeOK
    <2>2. found <= found' /\ (localPts' = localPts \/ localPts' <= found')
      OBVIOUS
    <2>. QED
      BY <2>1, <2>2
  <1>2. \/ n \in announced
        \/ \E k \in shown : n = rpts[k]
        \/ \E a \in acked : n <= spts[a]
    BY <1>1 DEF Base, MissedIsAnnounced
  <1>3. \A k \in shown : k \in shown' /\ rpts'[k] = rpts[k]
    BY DEF Base, Settled
  <1>4. \A a \in acked : a \in acked' /\ spts'[a] = spts[a]
    BY DEF Base, Settled
  <1>. QED
    BY <1>2, <1>3, <1>4

\* A step of PersistMessage; what it stores may become due.
LEMMA BaseStream ==
  ASSUME Base, SyncTypeOK', StreamNext,
         due' \subseteq due \cup (Stored' \cap Incoming),
         UNCHANGED <<watched, sockets, up, down, client, history>>
  PROVE  Base'
  <1>. USE DEF sockets, client, state, history
  <1>1. /\ Stored \subseteq Stored'
        /\ \A n \in Stored : rpts'[n] = rpts[n] /\ spts'[n] = spts[n]
    BY StoredStays DEF Base, WebTypeOK
  <1>2. WebTypeOK'
    BY DEF Base, WebTypeOK
  <1>3. Settled' /\ Saved'
    BY <1>1 DEF Base, Settled, Saved
  <1>4. Queues'
    <2>1. \A s \in Conns : \A x \in DOMAIN down'[s] :
             /\ down'[s][x][2] \in Stored'
             /\ down'[s][x][2] \in IF IsAck(s, x)' THEN Outgoing ELSE Incoming
      BY <1>1 DEF Base, Queues, IsAck
    <2>. QED
      BY <2>1 DEF Base, Queues
  <1>5. MissedIsAnnounced'
    BY <1>1, MissedStays DEF Base, WebTypeOK
  <1>. QED
    BY <1>2, <1>3, <1>4, <1>5 DEF Base

\* Queues that lose what they carry keep the rest as it was.
LEMMA QueuesShrink ==
  ASSUME Base, SyncTypeOK', UNCHANGED <<stream, session>>,
         open' \subseteq open, conn' = "open" => ws' \in open',
         \A s \in Conns : up'[s] \in {up[s], <<>>},
         \A s \in Conns : down'[s] \in {down[s], <<>>} /\ (s \notin open' => down'[s] = <<>>)
  PROVE  Queues'
  <1>1. Stored' = Stored
    BY DEF Stored, stream
  <1>2. open' \subseteq 1 .. session'
    BY DEF Base, Queues
  <1>3. \A s \in Conns : s > session' => up'[s] = <<>>
    BY DEF Base, Queues
  <1>4. \A s \in Conns : \A x \in DOMAIN up'[s] : up'[s][x] \in Outgoing
    BY NothingIn DEF Base, Queues
  <1>5. ASSUME NEW s \in Conns, NEW x \in DOMAIN down'[s]
        PROVE  /\ down'[s][x][2] \in Stored'
               /\ down'[s][x][2] \in IF IsAck(s, x)' THEN Outgoing ELSE Incoming
    <2>1. down'[s] = down[s]
      BY NothingIn
    <2>. QED
      BY <1>1, <2>1 DEF Base, Queues, IsAck
  <1>. QED
    BY <1>2, <1>3, <1>4, <1>5 DEF Queues

\* The steps in which sockets come and go, but for a new one that is open and for a
\* reload; and what another tab saves.
LEMMA BaseConn ==
  ASSUME Base, SyncTypeOK', UNCHANGED <<stream, watched>>,
         Login \/ Timer \/ Refused \/ OtherTabSaves \/ \E s \in Conns : OnClose(s)
  PROVE  Base'
  <1>. USE DEF stream
  <1>1. /\ UNCHANGED <<session, up, due, localPts, pendingAcks, history>>
        /\ open' \subseteq open
    BY DEF Login, Timer, Connect, Refused, OtherTabSaves, OnClose, client, state, history, wire, sockets
  <1>2. down' \in [Conns -> Seq({"ack", "message"} \X Msgs)]
        /\ \A s \in Conns : down'[s] \in {down[s], <<>>} /\ (s \notin open' => down'[s] = <<>>)
    <2>1. CASE UNCHANGED <<down, open>>
      BY <2>1 DEF Base, WebTypeOK, Queues
    <2>2. ASSUME NEW s \in Conns, OnClose(s)
          PROVE  down' \in [Conns -> Seq({"ack", "message"} \X Msgs)]
                 /\ \A r \in Conns : down'[r] \in {down[r], <<>>} /\ (r \notin open' => down'[r] = <<>>)
      BY <2>2 DEF Base, WebTypeOK, Queues, OnClose
    <2>. QED
      BY <2>1, <2>2 DEF Login, Timer, Connect, Refused, OtherTabSaves, wire, sockets
  <1>3. /\ conn' \in {"none", "connecting", "open", "closed"} /\ ws' \in 0 .. MaxConns
        /\ conn' = "open" => ws' \in open'
    <2>1. CASE Login \/ Timer
      BY <2>1, WebClientAssumption DEF Login, Timer, Connect
    <2>2. CASE Refused
      <3>1. \/ conn' = "closed" /\ ws' = 0
            \/ UNCHANGED <<conn, ws>>
        BY <2>2 DEF Refused, Handshake
      <3>2. open' = open /\ 0 \in 0 .. MaxConns
        BY <2>2, WebClientAssumption DEF Refused
      <3>. QED
        BY <3>1, <3>2 DEF Base, WebTypeOK, Queues
    <2>3. CASE OtherTabSaves
      BY <2>3 DEF OtherTabSaves, wire, sockets, Base, WebTypeOK, Queues
    <2>4. ASSUME NEW s \in Conns, OnClose(s)
          PROVE  /\ conn' \in {"none", "connecting", "open", "closed"} /\ ws' \in 0 .. MaxConns
                 /\ conn' = "open" => ws' \in open'
      BY <2>4, WebClientAssumption DEF OnClose, Base, WebTypeOK, Queues
    <2>. QED
      BY <2>1, <2>2, <2>3, <2>4
  <1>4. /\ others' \in Nat /\ timers' \in Nat /\ reconnectAttempts' \in 0 .. MaxAttempts
        /\ told' \in BOOLEAN /\ entered' \in BOOLEAN /\ crowded' \in BOOLEAN
    <2>1. others \in Nat /\ timers \in Nat /\ reconnectAttempts \in 0 .. MaxAttempts /\ MaxAttempts \in Nat
          /\ told \in BOOLEAN /\ entered \in BOOLEAN /\ crowded \in BOOLEAN
      BY WebClientAssumption DEF Base, WebTypeOK
    <2>2. ASSUME Connect
          PROVE  others' \in Nat /\ told' \in BOOLEAN /\ entered' \in BOOLEAN
                 /\ reconnectAttempts' \in 0 .. MaxAttempts
      BY <2>1, <2>2 DEF Connect, client
    <2>3. CASE Login
      <3>1. Connect /\ timers' = timers /\ crowded' = (crowded \/ Underway > 0)
        BY <2>3 DEF Login
      <3>2. crowded' \in BOOLEAN
        BY <3>1, Zenon
      <3>. QED
        BY <2>1, <2>2, <3>1, <3>2
    <2>4. CASE Timer
      <3>1. Connect /\ timers > 0 /\ timers' = timers - 1 /\ crowded' = crowded
        BY <2>4 DEF Timer
      <3>. QED
        BY <2>1, <2>2, <3>1
    <2>5. CASE OtherTabSaves
      BY <2>1, <2>5 DEF OtherTabSaves, wire, sockets
    <2>7. ASSUME Retry
          PROVE  timers' \in Nat /\ reconnectAttempts' \in 0 .. MaxAttempts /\ told' \in BOOLEAN
      <3>1. CASE reconnectAttempts < MaxAttempts
        BY <2>1, <2>7, <3>1 DEF Retry
      <3>2. CASE ~ (reconnectAttempts < MaxAttempts)
        <4>1. told' = TRUE /\ UNCHANGED <<timers, reconnectAttempts>>
          BY <2>7, <3>2 DEF Retry
        <4>. QED
          BY <2>1, <4>1
      <3>. QED
        BY <3>1, <3>2
    <2>8. CASE Refused
      <3>1. /\ UNCHANGED <<entered, crowded>> /\ Retry
            /\ others' = others \/ (others > 0 /\ others' = others - 1)
        BY <2>8 DEF Refused, Handshake
      <3>. QED
        BY <2>1, <2>7, <3>1
    <2>6. ASSUME NEW s \in Conns, OnClose(s)
          PROVE  others' \in Nat /\ timers' \in Nat /\ reconnectAttempts' \in 0 .. MaxAttempts
                 /\ told' \in BOOLEAN /\ entered' \in BOOLEAN /\ crowded' \in BOOLEAN
      BY <2>1, <2>6, <2>7 DEF OnClose
    <2>. QED
      BY <2>3, <2>4, <2>5, <2>6, <2>8
  <1>5. saved' \in Nat /\ foreign' \in BOOLEAN /\ Saved'
    <2>1. CASE UNCHANGED <<saved, foreign>>
      BY <1>1, <2>1 DEF Base, WebTypeOK, Saved
    <2>2. CASE OtherTabSaves
      BY <2>2, WebClientAssumption DEF OtherTabSaves, Saved
    <2>. QED
      BY <2>1, <2>2 DEF Login, Timer, Connect, Refused, OnClose, client, state
  <1>6. WebTypeOK'
    BY <1>1, <1>2, <1>3, <1>4, <1>5 DEF Base, WebTypeOK, history
  <1>7. Queues'
    BY <1>1, <1>2, <1>3, QueuesShrink
  <1>8. Stored' = Stored
    BY DEF Stored
  <1>9. Settled'
    BY <1>1, <1>8 DEF Base, Settled, history
  <1>10. MissedIsAnnounced'
    BY <1>1, <1>8, MissedStays DEF Base, WebTypeOK, history
  <1>. QED
    BY <1>5, <1>6, <1>7, <1>9, <1>10 DEF Base

\* A new connection has nothing on it.
LEMMA BaseOpen ==
  ASSUME Base, SyncTypeOK', OnOpen, UNCHANGED <<stream, watched>>
  PROVE  Base'
  <1>. USE DEF stream
  <1>1. /\ UNCHANGED <<up, down, due, localPts, pendingAcks, timers, crowded, history>>
        /\ session' = session + 1 /\ open' = open \cup {session + 1} /\ Saved'
        /\ saved' = localPts /\ foreign' = FALSE /\ reconnectAttempts' = 0
        /\ entered' = TRUE /\ told' = FALSE
    BY DEF OnOpen, SaveState, Saved
  <1>2. session \in Nat /\ session + 1 \in Conns /\ session' \in 0 .. MaxConns
    BY WebClientAssumption DEF Base, WebTypeOK, Conns, OnOpen
  <1>3. others' \in Nat /\ ws' \in 0 .. MaxConns /\ conn' \in {"none", "connecting", "open", "closed"}
        /\ (conn' = "open" => ws' \in open')
    <2>1. \/ conn' = "open" /\ ws' = session + 1 /\ others' = others
          \/ others > 0 /\ others' = others - 1 /\ UNCHANGED <<conn, ws>>
      BY DEF OnOpen, Handshake
    <2>2. others \in Nat /\ session + 1 \in 0 .. MaxConns /\ session + 1 \in open'
      BY <1>1, <1>2 DEF Base, WebTypeOK, Conns
    <2>. QED
      BY <1>1, <2>1, <2>2 DEF Base, WebTypeOK, Queues
  <1>4. WebTypeOK'
    <2>1. open' \subseteq Conns
      BY <1>1, <1>2 DEF Base, WebTypeOK
    <2>2. 0 \in 0 .. MaxAttempts
      BY WebClientAssumption
    <2>. QED
      BY <1>1, <1>2, <1>3, <2>1, <2>2 DEF Base, WebTypeOK, history
  <1>5. Stored' = Stored
    BY DEF Stored
  <1>6. Settled'
    BY <1>1, <1>5 DEF Base, Settled, history
  <1>7. Queues'
    <2>1. open' \subseteq 1 .. session'
      BY <1>1, <1>2 DEF Base, Queues
    <2>2. \A s \in Conns : s > session' => up'[s] = <<>>
      BY <1>1, <1>2 DEF Base, Queues, Conns
    <2>3. \A s \in Conns \ open' : down'[s] = <<>>
      BY <1>1 DEF Base, Queues
    <2>4. \A s \in Conns : \A x \in DOMAIN up'[s] : up'[s][x] \in Outgoing
      BY <1>1 DEF Base, Queues
    <2>5. \A s \in Conns : \A x \in DOMAIN down'[s] :
             /\ down'[s][x][2] \in Stored'
             /\ down'[s][x][2] \in IF IsAck(s, x)' THEN Outgoing ELSE Incoming
      BY <1>1, <1>5 DEF Base, Queues, IsAck
    <2>. QED
      BY <1>3, <2>1, <2>2, <2>3, <2>4, <2>5 DEF Queues
  <1>8. MissedIsAnnounced'
    BY <1>1, <1>5, MissedStays DEF Base, WebTypeOK, history
  <1>. QED
    BY <1>1, <1>4, <1>6, <1>7, <1>8 DEF Base

\* A reload finds the page's own localPts, or that of another tab, up to which
\* nothing is claimed any more.
LEMMA BaseReload ==
  ASSUME Base, SyncTypeOK', Reload, UNCHANGED <<stream, watched>>
  PROVE  Base'
  <1>. USE DEF stream
  <1>1. Stored' = Stored
    BY DEF Stored
  <1>2. /\ localPts' = saved /\ saved' = saved /\ foreign' = FALSE /\ Saved'
        /\ found' = IF foreign /\ saved > found THEN saved ELSE found
        /\ open' = {} /\ conn' = "none" /\ down' = [s \in Conns |-> <<>>]
        /\ UNCHANGED <<session, up, due, acked, marked, shown, announced>>
    BY DEF Reload, Saved
  <1>3. localPts \in Nat /\ saved \in Nat /\ found \in Nat /\ (~ foreign => saved = localPts)
    BY DEF Base, WebTypeOK, Saved
  <1>4. WebTypeOK'
    <2>1. down' \in [Conns -> Seq({"ack", "message"} \X Msgs)]
      BY <1>2
    <2>2. earlier' \subseteq Outgoing /\ pendingAcks' \in Seq(Outgoing) /\ order' \in Seq(Outgoing)
      BY DEF Reload, Base, WebTypeOK, Range
    <2>3. reloads' \in 0 .. MaxReloads /\ reconnectAttempts' \in 0 .. MaxAttempts
          /\ ws' \in 0 .. MaxConns /\ others' \in Nat /\ timers' \in Nat
          /\ told' \in BOOLEAN /\ entered' \in BOOLEAN /\ crowded' \in BOOLEAN
      <3>1. /\ reloads < MaxReloads /\ reloads' = reloads + 1 /\ reconnectAttempts' = 0
            /\ ws' = 0 /\ others' = 0 /\ timers' = 0
            /\ told' = FALSE /\ entered' = FALSE /\ crowded' = FALSE
        BY DEF Reload
      <3>2. reloads \in 0 .. MaxReloads
        BY DEF Base, WebTypeOK
      <3>3. reloads' \in 0 .. MaxReloads
        BY <3>1, <3>2, WebClientAssumption
      <3>4. reconnectAttempts' \in 0 .. MaxAttempts /\ ws' \in 0 .. MaxConns
        BY <3>1, WebClientAssumption
      <3>. QED
        BY <3>1, <3>3, <3>4
    <2>4. found' \in Nat
      BY <1>2, <1>3
    <2>. QED
      BY <1>2, <1>3, <2>1, <2>2, <2>3, <2>4 DEF Base, WebTypeOK
  <1>5. Queues'
    BY <1>2, QueuesShrink
  <1>6. Settled'
    BY <1>1, <1>2 DEF Base, Settled
  <1>7. MissedIsAnnounced'
    <2>1. localPts' = localPts \/ localPts' <= found'
      BY <1>2, <1>3
    <2>2. found <= found' /\ found' \in Nat /\ localPts' \in Nat
      BY <1>2, <1>3
    <2>. QED
      BY <1>1, <1>2, <2>1, <2>2, MissedStays
  <1>. QED
    BY <1>2, <1>4, <1>5, <1>6, <1>7 DEF Base

\* Sending adds to order, pendingAcks and what is on its way to the gateway.
LEMMA BaseSend ==
  ASSUME Base, SyncTypeOK', NEW m \in Msgs, Send(m), UNCHANGED <<stream, watched>>
  PROVE  Base'
  <1>. USE DEF stream
  <1>1. Stored' = Stored
    BY DEF Stored
  <1>2. /\ m \in Outgoing /\ order' = Append(order, m) /\ pendingAcks' = Append(pendingAcks, m)
        /\ UNCHANGED <<sockets, down, due, state, reconnectAttempts, found, earlier, acked,
                       marked, shown, announced, reloads>>
    BY DEF Send
  <1>3. order' \in Seq(Outgoing) /\ pendingAcks' \in Seq(Outgoing)
    BY <1>2, AppendElems DEF Base, WebTypeOK
  <1>4. /\ ws \in Conns /\ ws \in open /\ up' \in [Conns -> Seq(Msgs)]
        /\ \A r \in Conns \ {ws} : up'[r] = up[r]
        /\ \A x \in DOMAIN up'[ws] :
              \/ x \in DOMAIN up[ws] /\ up'[ws][x] = up[ws][x]
              \/ up'[ws][x] = m
    BY SendLast
  <1>5. WebTypeOK'
    BY <1>2, <1>3, <1>4 DEF Base, WebTypeOK, sockets, state
  <1>6. Queues'
    <2>1. ASSUME NEW s \in Conns, s > session PROVE up'[s] = <<>>
      <3>1. s # ws
        BY <1>4, <2>1 DEF Base, Queues, WebTypeOK, Conns
      <3>. QED
        BY <1>4, <2>1, <3>1 DEF Base, Queues
    <2>2. \A s \in Conns : \A x \in DOMAIN up'[s] : up'[s][x] \in Outgoing
      BY <1>2, <1>4 DEF Base, Queues
    <2>3. \A s \in Conns : \A x \in DOMAIN down'[s] :
             /\ down'[s][x][2] \in Stored'
             /\ down'[s][x][2] \in IF IsAck(s, x)' THEN Outgoing ELSE Incoming
      BY <1>1, <1>2 DEF Base, Queues, IsAck
    <2>. QED
      BY <1>2, <2>1, <2>2, <2>3 DEF Base, Queues, sockets
  <1>7. Settled' /\ Saved'
    BY <1>1, <1>2 DEF Base, Settled, Saved, state
  <1>8. MissedIsAnnounced'
    BY <1>1, <1>2, MissedStays DEF Base, WebTypeOK, state
  <1>. QED
    BY <1>5, <1>6, <1>7, <1>8 DEF Base

\* Whatever the page reads, the frames behind it are as they were.
LEMMA ReadKeepsQueues ==
  ASSUME Base, NEW s \in Conns, NEW kind, NEW m, Reads(s, kind, m), UNCHANGED stream
  PROVE  Queues'
  <1>1. Stored' = Stored
    BY DEF Stored, stream
  <1>2. /\ \A r \in Conns \ {s} : down'[r] = down[r]
        /\ \A x \in DOMAIN down'[s] :
              x \in Nat \ {0} /\ x + 1 \in DOMAIN down[s] /\ down'[s][x] = down[s][x + 1]
    BY ReadFirst
  <1>3. \A r \in Conns : \A x \in DOMAIN down'[r] : \E y \in DOMAIN down[r] : down'[r][x] = down[r][y]
    BY <1>2
  <1>4. \A r \in Conns : \A x \in DOMAIN down'[r] :
           /\ down'[r][x][2] \in Stored'
           /\ down'[r][x][2] \in IF IsAck(r, x)' THEN Outgoing ELSE Incoming
    BY <1>1, <1>3 DEF Base, Queues, IsAck
  <1>5. \A r \in Conns \ open' : down'[r] = <<>>
    BY <1>2 DEF Base, Queues, Reads, sockets
  <1>. QED
    BY <1>4, <1>5 DEF Base, Queues, Reads, sockets

\* A message is shown: the number it has is accounted for, and the numbers below it
\* that were not are in the notice.
LEMMA BaseIncoming ==
  ASSUME Base, SyncTypeOK', NEW s \in Conns, NEW m \in Msgs, HandleIncoming(s, m),
         UNCHANGED <<stream, watched>>
  PROVE  Base'
  <1>1. /\ Reads(s, "message", m) /\ announced' = announced \cup Gap(rpts[m])
        /\ localPts' = IF rpts[m] > localPts THEN rpts[m] ELSE localPts
        /\ saved' = localPts' /\ foreign' = FALSE /\ shown' = shown \cup {m}
        /\ UNCHANGED <<pendingAcks, acked, marked>>
    BY DEF HandleIncoming, SaveState
  <1>2. /\ UNCHANGED <<sockets, up, due, reconnectAttempts, found, order, earlier, reloads>>
    BY <1>1 DEF Reads
  <1>3. /\ down' \in [Conns -> Seq({"ack", "message"} \X Msgs)]
        /\ 1 \in DOMAIN down[s] /\ down[s][1] = <<"message", m>> /\ m \in Stored
    BY <1>1, ReadFirst
  <1>4. m \in Incoming
    BY <1>3 DEF Base, Queues, IsAck
  <1>5. rpts[m] \in Nat /\ localPts \in Nat /\ found \in Nat /\ announced \subseteq Nat
    BY DEF Base, WebTypeOK, SyncTypeOK
  <1>6. announced' \subseteq Nat
    <2>1. Gap(rpts[m]) \subseteq Nat
      BY <1>5 DEF Gap
    <2>. QED
      BY <1>1, <1>5, <2>1
  <1>7. localPts' \in Nat /\ saved' \in Nat /\ Saved' /\ foreign' \in BOOLEAN
    BY <1>1, <1>5 DEF Saved
  <1>8. WebTypeOK'
    BY <1>1, <1>2, <1>3, <1>4, <1>6, <1>7 DEF Base, WebTypeOK, sockets
  <1>9. Settled'
    <2>1. Stored' = Stored
      BY DEF Stored, stream
    <2>. QED
      BY <1>1, <1>2, <1>3, <2>1 DEF Base, Settled
  <1>10. Queues'
    BY <1>1, ReadKeepsQueues
  <1>11. MissedIsAnnounced'
    <2>. SUFFICES ASSUME NEW n \in (found + 1) .. localPts'
                  PROVE  \/ n \in announced'
                         \/ \E k \in shown' : n = rpts'[k]
                         \/ \E a \in acked' : n <= spts'[a]
      BY <1>2 DEF MissedIsAnnounced
    <2>1. CASE n <= localPts
      <3>1. n \in (found + 1) .. localPts
        BY <1>5, <1>7, <2>1
      <3>2. \/ n \in announced
            \/ \E k \in shown : n = rpts[k]
            \/ \E a \in acked : n <= spts[a]
        BY <3>1 DEF Base, MissedIsAnnounced
      <3>. QED
        BY <1>1, <3>2 DEF stream
    <2>2. CASE n > localPts /\ n < rpts[m]
      BY <1>1, <1>5, <2>2 DEF Gap
    <2>3. CASE n > localPts /\ ~ (n < rpts[m])
      <3>1. n = rpts[m]
        BY <1>1, <1>5, <2>3
      <3>. QED
        BY <1>1, <3>1 DEF stream
    <2>. QED
      BY <1>5, <2>1, <2>2, <2>3
  <1>. QED
    BY <1>7, <1>8, <1>9, <1>10, <1>11 DEF Base

\* An ack takes localPts past what it will.
LEMMA BaseAck ==
  ASSUME Base, SyncTypeOK', NEW s \in Conns, NEW m \in Msgs, HandleAck(s, m),
         UNCHANGED <<stream, watched>>
  PROVE  Base'
  <1>1. /\ Reads(s, "ack", m) /\ UpdatePts(spts[m]) /\ acked' = acked \cup {m}
        /\ UNCHANGED <<shown, announced>>
    BY DEF HandleAck
  <1>2. UNCHANGED <<sockets, up, due, reconnectAttempts, found, order, earlier, reloads>>
    BY <1>1 DEF Reads
  <1>3. /\ down' \in [Conns -> Seq({"ack", "message"} \X Msgs)]
        /\ 1 \in DOMAIN down[s] /\ down[s][1] = <<"ack", m>> /\ m \in Stored
    BY <1>1, ReadFirst
  <1>4. m \in Outgoing
    BY <1>3 DEF Base, Queues, IsAck
  <1>5. spts[m] \in Nat /\ localPts \in Nat /\ found \in Nat /\ saved \in Nat /\ foreign \in BOOLEAN
    BY DEF Base, WebTypeOK, SyncTypeOK
  <1>6. /\ localPts' = IF spts[m] > localPts THEN spts[m] ELSE localPts
        /\ localPts' \in Nat /\ saved' \in Nat /\ Saved' /\ foreign' \in BOOLEAN
    <2>1. CASE spts[m] > localPts
      BY <1>1, <1>5, <2>1 DEF UpdatePts, SaveState, Saved
    <2>2. CASE ~ (spts[m] > localPts)
      BY <1>1, <1>5, <2>2 DEF UpdatePts, state, Saved, Base
    <2>. QED
      BY <2>1, <2>2
  <1>7. pendingAcks' \in Seq(Outgoing) /\ marked' \subseteq Outgoing \X Outgoing
        /\ \A pair \in marked' : pair \in marked \/ pair[1] = m
    <2>1. pendingAcks \in Seq(Outgoing) /\ marked \subseteq Outgoing \X Outgoing
      BY DEF Base, WebTypeOK
    <2>2. CASE pendingAcks = <<>>
      BY <2>1, <2>2 DEF HandleAck
    <2>3. CASE pendingAcks # <<>>
      <3>1. pendingAcks' = Tail(pendingAcks) /\ marked' = marked \cup {<<m, Head(pendingAcks)>>}
        BY <2>3 DEF HandleAck
      <3>2. Tail(pendingAcks) \in Seq(Outgoing) /\ Head(pendingAcks) \in Outgoing
        BY <2>1, <2>3
      <3>. QED
        BY <1>4, <2>1, <3>1, <3>2
    <2>. QED
      BY <2>2, <2>3
  <1>8. WebTypeOK'
    BY <1>1, <1>2, <1>3, <1>4, <1>6, <1>7 DEF Base, WebTypeOK, sockets
  <1>9. Settled'
    <2>1. Stored' = Stored
      BY DEF Stored, stream
    <2>. QED
      BY <1>1, <1>2, <1>3, <1>7, <2>1 DEF Base, Settled
  <1>10. Queues'
    BY <1>1, ReadKeepsQueues
  <1>11. MissedIsAnnounced'
    <2>. SUFFICES ASSUME NEW n \in (found + 1) .. localPts'
                  PROVE  \/ n \in announced'
                         \/ \E k \in shown' : n = rpts'[k]
                         \/ \E a \in acked' : n <= spts'[a]
      BY <1>2 DEF MissedIsAnnounced
    <2>1. CASE n <= localPts
      <3>1. n \in (found + 1) .. localPts
        BY <1>5, <1>6, <2>1
      <3>2. \/ n \in announced
            \/ \E k \in shown : n = rpts[k]
            \/ \E a \in acked : n <= spts[a]
        BY <3>1 DEF Base, MissedIsAnnounced
      <3>. QED
        BY <1>1, <3>2 DEF stream
    <2>2. CASE n > localPts
      <3>1. n <= spts[m]
        BY <1>5, <1>6, <2>2
      <3>. QED
        BY <1>1, <3>1 DEF stream
    <2>. QED
      BY <1>5, <2>1, <2>2
  <1>. QED
    BY <1>6, <1>8, <1>9, <1>10, <1>11 DEF Base

\* A frame of an open connection about a stored message: what is on its way is still
\* that, and still on open connections only.
LEMMA FrameWritten ==
  ASSUME Base, NEW s \in Conns, s \in open, NEW f \in {"ack", "message"} \X Msgs, f[2] \in Stored,
         f[2] \in IF f[1] = "ack" THEN Outgoing ELSE Incoming,
         down' = [down EXCEPT ![s] = Append(@, f)]
  PROVE  /\ down' \in [Conns -> Seq({"ack", "message"} \X Msgs)]
         /\ \A r \in Conns \ open : down'[r] = <<>>
         /\ \A r \in Conns : \A x \in DOMAIN down'[r] :
               /\ down'[r][x][2] \in Stored
               /\ down'[r][x][2] \in IF down'[r][x][1] = "ack" THEN Outgoing ELSE Incoming
  <1>1. /\ down[s] \in Seq({"ack", "message"} \X Msgs)
        /\ down \in [Conns -> Seq({"ack", "message"} \X Msgs)]
        /\ down' = [down EXCEPT ![s] = Append(down[s], f)]
    BY DEF Base, WebTypeOK
  <1>2. down'[s] = Append(down[s], f) /\ \A r \in Conns \ {s} : down'[r] = down[r]
    BY <1>1
  <1>3. /\ Append(down[s], f) \in Seq({"ack", "message"} \X Msgs)
        /\ \A x \in DOMAIN Append(down[s], f) :
              \/ x \in DOMAIN down[s] /\ Append(down[s], f)[x] = down[s][x]
              \/ Append(down[s], f)[x] = f
    BY <1>1, AppendElems
  <1>4. down' \in [Conns -> Seq({"ack", "message"} \X Msgs)]
    BY <1>1, <1>3
  <1>5. /\ down' \in [Conns -> Seq({"ack", "message"} \X Msgs)]
        /\ \A r \in Conns \ {s} : down'[r] = down[r]
        /\ \A x \in DOMAIN down'[s] :
              \/ x \in DOMAIN down[s] /\ down'[s][x] = down[s][x]
              \/ down'[s][x] = f
    BY <1>2, <1>3, <1>4
  <1>6. \A r \in Conns \ open : down'[r] = <<>>
    BY <1>5 DEF Base, Queues
  <1>7. ASSUME NEW r \in Conns, NEW x \in DOMAIN down'[r]
        PROVE  /\ down'[r][x][2] \in Stored
               /\ down'[r][x][2] \in IF down'[r][x][1] = "ack" THEN Outgoing ELSE Incoming
    <2>1. CASE x \in DOMAIN down[r] /\ down'[r][x] = down[r][x]
      BY <2>1 DEF Base, Queues, IsAck
    <2>2. CASE down'[r][x] = f
      BY <2>2
    <2>. QED
      BY <1>5, <2>1, <2>2
  <1>. QED
    BY <1>5, <1>6, <1>7

\* What the gateway does with a message it has in hand, or with those of a connection
\* that is gone, and what it pushes; what the page has is as it was.
LEMMA BaseGateway ==
  ASSUME Base, SyncTypeOK', NEW s \in Conns, UNCHANGED watched,
         Dropped(s) \/ \E m \in Msgs : Acked(s, m) \/ NotAcked(s, m) \/ Pushed(s, m)
  PROVE  Base'
  <1>1. UNCHANGED <<stream, sockets, client, history>>
    BY DEF Dropped, Acked, NotAcked, Pushed
  <1>2. Stored' = Stored
    BY <1>1 DEF Stored, stream
  <1>. DEFINE UpOK == /\ up' \in [Conns -> Seq(Msgs)]
                      /\ \A r \in Conns : r > session => up'[r] = <<>>
                      /\ \A r \in Conns : \A x \in DOMAIN up'[r] : up'[r][x] \in Outgoing
              DownOK == /\ down' \in [Conns -> Seq({"ack", "message"} \X Msgs)]
                        /\ \A r \in Conns \ open : down'[r] = <<>>
                        /\ \A r \in Conns : \A x \in DOMAIN down'[r] :
                              /\ down'[r][x][2] \in Stored
                              /\ down'[r][x][2] \in IF down'[r][x][1] = "ack" THEN Outgoing ELSE Incoming
  <1>3. up' = up => UpOK
    BY DEF Base, WebTypeOK, Queues
  <1>4. down' = down => DownOK
    BY DEF Base, WebTypeOK, Queues, IsAck
  <1>5. ASSUME NEW m, AtGateway(s, m), up' = [up EXCEPT ![s] = Tail(@)] PROVE UpOK
    <2>1. /\ up' \in [Conns -> Seq(Msgs)] /\ \A r \in Conns \ {s} : up'[r] = up[r]
          /\ 1 \in DOMAIN up[s]
          /\ \A x \in DOMAIN up'[s] : x + 1 \in DOMAIN up[s] /\ up'[s][x] = up[s][x + 1]
      BY <1>5, TakeFirst
    <2>2. ~ (s > session)
      BY <2>1, NothingIn DEF Base, Queues
    <2>. QED
      BY <2>1, <2>2 DEF Base, Queues
  <1>6. ASSUME NEW f \in {"ack", "message"} \X Msgs, s \in open, f[2] \in Stored,
               f[2] \in IF f[1] = "ack" THEN Outgoing ELSE Incoming,
               down' = [down EXCEPT ![s] = Append(@, f)]
        PROVE  DownOK
    BY <1>6, FrameWritten
  <1>7. UpOK /\ DownOK /\ due' \subseteq due \cup (Stored \cap Incoming)
    <2>1. CASE Dropped(s)
      BY <1>4, <2>1, NothingIn DEF Dropped, Base, WebTypeOK, Queues
    <2>2. ASSUME NEW m \in Msgs, NotAcked(s, m) PROVE UpOK /\ DownOK /\ due' = due
      BY <1>4, <1>5, <2>2 DEF NotAcked
    <2>3. ASSUME NEW m \in Msgs, Pushed(s, m) PROVE UpOK /\ DownOK /\ due' \subseteq due
      <3>1. m \in Stored /\ m \in Incoming
        BY <2>3 DEF Pushed, Base, Settled, WebTypeOK
      <3>. QED
        BY <1>3, <1>6, <2>3, <3>1, <<"message", m>> \in {"ack", "message"} \X Msgs DEF Pushed
    <2>4. ASSUME NEW m \in Msgs, Acked(s, m)
          PROVE  UpOK /\ DownOK /\ due' \subseteq due \cup (Stored \cap Incoming)
      <3>1. m \in Outgoing
        BY <2>4, TakeFirst DEF Acked
      <3>. QED
        BY <1>5, <1>6, <2>4, <3>1, <<"ack", m>> \in {"ack", "message"} \X Msgs DEF Acked
    <2>. QED
      BY <2>1, <2>2, <2>3, <2>4 DEF Dropped
  <1>8. WebTypeOK'
    BY <1>1, <1>7 DEF Base, WebTypeOK, Settled, sockets, client, state, history
  <1>9. Queues'
    BY <1>1, <1>2, <1>7 DEF Base, Queues, IsAck, sockets
  <1>10. Settled' /\ Saved'
    BY <1>1, <1>2, <1>7 DEF Base, Settled, Saved, client, state, history
  <1>11. MissedIsAnnounced'
    BY <1>1, <1>2, MissedStays DEF Base, WebTypeOK, client, state, history, stream
  <1>. QED
    BY <1>8, <1>9, <1>10, <1>11 DEF Base

\* Nothing Base speaks of changes: a device asks, or nothing happens.
LEMMA BaseQuiet ==
  ASSUME Base, SyncTypeOK', UNCHANGED <<stream, pageVars>>
  PROVE  Base'
  <1>. USE DEF stream, pageVars, wire, sockets, client, state, history
  <1>1. Stored' = Stored
    BY DEF Stored
  <1>2. WebTypeOK'
    BY DEF Base, WebTypeOK
  <1>3. Queues'
    <2>1. \A s \in Conns : \A x \in DOMAIN down'[s] :
             /\ down'[s][x][2] \in Stored'
             /\ down'[s][x][2] \in IF IsAck(s, x)' THEN Outgoing ELSE Incoming
      BY <1>1 DEF Base, Queues, IsAck
    <2>. QED
      BY <2>1 DEF Base, Queues
  <1>4. Settled' /\ Saved'
    BY <1>1 DEF Base, Settled, Saved
  <1>5. MissedIsAnnounced'
    BY <1>1, MissedStays DEF Base, WebTypeOK
  <1>. QED
    BY <1>2, <1>3, <1>4, <1>5 DEF Base

\* One case per operation of the page, of the gateway and of the device.
LEMMA BaseStep == Base /\ SyncTypeOK' /\ [WebNext]_webVars => Base'
  <1>. SUFFICES ASSUME Base, SyncTypeOK', [WebNext]_webVars PROVE Base'
    OBVIOUS
  <1>1. ASSUME PageStep, UNCHANGED <<stream, watched>> PROVE Base'
    BY <1>1, BaseConn, BaseOpen, BaseReload, BaseSend, BaseAck, BaseIncoming DEF PageStep
  <1>2. ASSUME NEW m \in Msgs, PersistOutgoing(m), UNCHANGED watched PROVE Base'
    BY <1>2, BaseStream DEF PersistOutgoing, StreamNext, wire
  <1>3. ASSUME NEW m \in Msgs, PersistIncoming(m), UNCHANGED watched PROVE Base'
    <2>1. due' \subseteq due \cup (Stored' \cap Incoming)
      BY <1>3 DEF PersistIncoming, Stored
    <2>. QED
      BY <1>3, <2>1, BaseStream DEF PersistIncoming, StreamNext
  <1>4. ASSUME NEW ms \in SUBSET Msgs, PersistFails(ms), UNCHANGED watched PROVE Base'
    BY <1>4, BaseStream DEF PersistFails, StreamNext, wire
  <1>5. ASSUME RedisFails, UNCHANGED <<watched, wire, client, history>> PROVE Base'
    BY <1>5, BaseStream DEF StreamNext, wire
  <1>6. ASSUME GatewayStep, UNCHANGED watched PROVE Base'
    BY <1>2, <1>3, <1>4, <1>5, <1>6, BaseGateway DEF GatewayStep
  <1>7. ASSUME SyncNext, UNCHANGED pageVars PROVE Base'
    <2>1. CASE StreamNext
      BY <1>7, <2>1, BaseStream DEF pageVars, wire
    <2>2. CASE DeviceStep
      <3>1. UNCHANGED stream
        BY <2>2 DEF DeviceStep, Ask, Query, Answer, NoAnswer
      <3>. QED
        BY <1>7, <3>1, BaseQuiet
    <2>. QED
      BY <1>7, <2>1, <2>2 DEF SyncNext
  <1>8. CASE UNCHANGED webVars
    BY <1>8, BaseQuiet DEF webVars, syncVars
  <1>. QED
    BY <1>1, <1>6, <1>7, <1>8 DEF WebNext, PageNext

\* Base holds in every state.
LEMMA BaseInvariance == WebSpec => []Base
  <1>1. WebSpec => []SyncTypeOK
    BY WebClientImplementsSync, SyncTypeCorrect, PTL
  <1>. QED
    BY <1>1, BaseInit, BaseStep, PTL DEF WebSpec

----------------------------------------------------------------------------
(* OneSocket.                                                              *)

\* Whatever closes sets one timer or none.
LEMMA OneSocketStep == Base /\ OneSocket /\ [WebNext]_webVars => OneSocket'
  <1>. SUFFICES ASSUME Base, OneSocket, [WebNext]_webVars, ~ crowded' PROVE OneSocket'
    BY DEF OneSocket
  <1>. DEFINE Rest == /\ open' \subseteq {session'}
                      /\ conn' = "open" => ws' = session'
                      /\ others' = 0
                      /\ conn' = "connecting" => timers' = 0 /\ open' = {}
                      /\ open' # {} => timers' = 0
                      /\ timers' <= 1
                      /\ ~ entered' => open' = {}
  <1>. SUFFICES Rest
    BY DEF OneSocket
  <1>1. session \in Nat /\ others \in Nat /\ timers \in Nat /\ session \in 0 .. MaxConns
    BY WebClientAssumption DEF Base, WebTypeOK
  <1>2. ASSUME ~ crowded
        PROVE  /\ open \subseteq {session}
               /\ conn = "open" => ws = session
               /\ others = 0
               /\ conn = "connecting" => timers = 0 /\ open = {}
               /\ open # {} => timers = 0
               /\ timers <= 1
               /\ ~ entered => open = {}
    BY <1>2 DEF OneSocket
  <1>3. CASE UNCHANGED sockets
    BY <1>2, <1>3 DEF sockets
  <1>4. CASE Login
    <2>1. /\ ~ entered /\ Connect /\ timers' = timers /\ ~ crowded /\ ~ (Underway > 0)
      BY <1>4 DEF Login
    <2>2. conn # "connecting" /\ timers = 0
      BY <1>1, <1>2, <2>1 DEF Underway
    <2>. QED
      BY <1>2, <2>1, <2>2 DEF Connect
  <1>5. CASE Timer
    <2>1. timers > 0 /\ Connect /\ timers' = timers - 1 /\ ~ crowded
      BY <1>5 DEF Timer
    <2>2. conn # "connecting" /\ open = {} /\ timers = 1
      BY <1>1, <1>2, <2>1
    <2>. QED
      BY <1>2, <2>1, <2>2 DEF Connect
  <1>6. ASSUME Retry, timers = 0 PROVE timers' <= 1
    BY <1>6 DEF Retry
  <1>7. CASE OnOpen
    <2>1. /\ Handshake("open", session + 1) /\ session' = session + 1 /\ ~ crowded
          /\ open' = open \cup {session + 1} /\ entered' = TRUE /\ timers' = timers
      BY <1>7 DEF OnOpen
    <2>2. conn = "connecting" /\ conn' = "open" /\ ws' = session + 1 /\ others' = others
      BY <1>2, <2>1 DEF Handshake
    <2>. QED
      BY <1>2, <2>1, <2>2
  <1>8. CASE Refused
    <2>1. Handshake("closed", 0) /\ Retry /\ ~ crowded /\ UNCHANGED <<open, session, entered>>
      BY <1>8 DEF Refused
    <2>2. conn = "connecting" /\ conn' = "closed" /\ others' = others
      BY <1>2, <2>1 DEF Handshake
    <2>. QED
      BY <1>2, <1>6, <2>1, <2>2
  <1>9. ASSUME NEW s \in Conns, OnClose(s) PROVE Rest
    <2>1. /\ s \in open /\ open' = open \ {s} /\ Retry /\ ~ crowded
          /\ (IF ws = s THEN conn' = "closed" /\ ws' = 0 ELSE UNCHANGED <<conn, ws>>)
          /\ UNCHANGED <<others, session, entered>>
      BY <1>9 DEF OnClose
    <2>2. s = session /\ open' = {} /\ conn # "connecting" /\ timers = 0
      BY <1>2, <2>1
    <2>3. conn' # "open" /\ conn' # "connecting"
      BY <1>2, <2>1, <2>2
    <2>. QED
      BY <1>2, <1>6, <2>1, <2>2, <2>3
  <1>10. CASE Reload
    BY <1>10 DEF Reload
  <1>11. CASE OtherTabSaves
    BY <1>3, <1>11 DEF OtherTabSaves, wire
  <1>12. ASSUME NEW m \in Msgs,
                Send(m) \/ \E s \in Conns : HandleAck(s, m) \/ HandleIncoming(s, m)
         PROVE  UNCHANGED sockets
    BY <1>12 DEF Send, HandleAck, HandleIncoming, Reads
  <1>13. CASE PageStep
    BY <1>3, <1>4, <1>5, <1>7, <1>8, <1>9, <1>10, <1>11, <1>12, <1>13 DEF PageStep
  <1>14. CASE GatewayStep
    <2>1. UNCHANGED sockets
      BY <1>14 DEF GatewayStep, PersistOutgoing, PersistIncoming, PersistFails, Dropped, Acked,
                   NotAcked, Pushed, wire
    <2>. QED
      BY <1>3, <2>1
  <1>15. CASE UNCHANGED pageVars
    BY <1>3, <1>15 DEF pageVars, wire
  <1>. QED
    BY <1>13, <1>14, <1>15 DEF WebNext, PageNext, webVars

\* OneSocket holds in every state.
LEMMA OneSocketInvariance == WebSpec => []OneSocket
  <1>1. WebInit => OneSocket
    BY DEF WebInit, OneSocket
  <1>. QED
    BY <1>1, OneSocketStep, BaseInvariance, PTL DEF WebSpec

----------------------------------------------------------------------------
(* Ordered.                                                                *)

\* The queues of connection s are what they were, without the first or without what
\* is not an ack.
Shrunk(s) ==
    \E d, u \in {0, 1} :
        /\ \A x \in DOMAIN down'[s] : IsAck(s, x)' =>
              x \in Int /\ x + d \in DOMAIN down[s] /\ down'[s][x] = down[s][x + d]
        /\ \A x \in DOMAIN up'[s] :
              x \in Int /\ x + u \in DOMAIN up[s] /\ up'[s][x] = up[s][x + u]

\* Then they are in the order they were in.
LEMMA ShrunkKeeps ==
  ASSUME NEW s, Shrunk(s), order' = order
  PROVE  /\ AllOnPage(s) => AllOnPage(s)'
         /\ QueuesInOrder(s) => QueuesInOrder(s)'
         /\ \A a : AckedBefore(a, s) => AckedBefore(a, s)'
  <1>1. \A a, b : (Before(a, b)' <=> Before(a, b)) /\ (OnPage(a)' <=> OnPage(a))
    BY DEF Before, OnPage
  <1>2. PICK d \in {0, 1}, u \in {0, 1} :
           /\ \A x \in DOMAIN down'[s] : IsAck(s, x)' =>
                 x \in Int /\ x + d \in DOMAIN down[s] /\ down'[s][x] = down[s][x + d]
           /\ \A x \in DOMAIN up'[s] :
                 x \in Int /\ x + u \in DOMAIN up[s] /\ up'[s][x] = up[s][x + u]
    BY DEF Shrunk
  <1>3. \A x \in DOMAIN down'[s] : IsAck(s, x)' =>
           x \in Int /\ x + d \in DOMAIN down[s] /\ down'[s][x] = down[s][x + d] /\ IsAck(s, x + d)
    BY <1>2 DEF IsAck
  <1>4. \A x, y \in Int : x < y => x + d < y + d /\ x + u < y + u
    OBVIOUS
  <1>5. AllOnPage(s) => AllOnPage(s)'
    BY <1>1, <1>2, <1>3 DEF AllOnPage
  <1>6. QueuesInOrder(s) => QueuesInOrder(s)'
    BY <1>1, <1>2, <1>3, <1>4 DEF QueuesInOrder
  <1>7. \A a : AckedBefore(a, s) => AckedBefore(a, s)'
    BY <1>1, <1>2, <1>3 DEF AckedBefore
  <1>. QED
    BY <1>5, <1>6, <1>7

\* Queues that stay as they are.
LEMMA SameShrunk ==
  ASSUME Base, NEW s \in Conns, down'[s] = down[s], up'[s] = up[s]
  PROVE  Shrunk(s)
  <1>1. \A x \in DOMAIN down[s] : x \in Int /\ x + 0 = x
    BY DEF Base, WebTypeOK
  <1>2. \A x \in DOMAIN up[s] : x \in Int /\ x + 0 = x
    BY DEF Base, WebTypeOK
  <1>. QED
    BY <1>1, <1>2 DEF Shrunk

\* Steps that leave what was sent and marked alone.
LEMMA SentStays ==
  ASSUME SentOnce, Pending, Marks, UNCHANGED <<order, pendingAcks, acked, marked, earlier>>
  PROVE  SentOnce' /\ Pending' /\ Marks'
  <1>1. /\ order' = order /\ pendingAcks' = pendingAcks /\ acked' = acked
        /\ marked' = marked /\ earlier' = earlier
    OBVIOUS
  <1>2. SentOnce'
    BY <1>1 DEF SentOnce
  <1>3. Pending'
    BY <1>1 DEF Pending, Done
  <1>4. Marks'
    BY <1>1, Zenon DEF Marks, ForLater, EachMarked, InStep, NoneWasted, Done
  <1>. QED
    BY <1>2, <1>3, <1>4

\* Steps after which the queues of the open connections have at most lost something.
LEMMA OrderedShrinks ==
  ASSUME Ordered, open' \subseteq open, crowded => crowded', \A s \in open' : Shrunk(s),
         UNCHANGED <<order, pendingAcks, earlier, acked, marked>>
  PROVE  Ordered'
  <1>1. \A a : OnPage(a)' <=> OnPage(a)
    BY DEF OnPage
  <1>2. FromPage'
    BY <1>1, ShrunkKeeps DEF Ordered, FromPage
  <1>3. ASSUME ~ crowded' PROVE InOrder'
    <2>1. InOrder
      BY <1>3 DEF Ordered
    <2>2. SentOnce' /\ Pending' /\ Marks'
      BY <2>1, SentStays DEF InOrder
    <2>3. ASSUME NEW s \in open'
          PROVE  /\ QueuesInOrder(s)'
                 /\ \A pair \in marked : OnPage(pair[1]) => AckedBefore(pair[1], s)'
      <3>1. /\ QueuesInOrder(s)
            /\ \A pair \in marked : OnPage(pair[1]) => AckedBefore(pair[1], s)
        BY <2>1 DEF InOrder, InSendOrder
      <3>. QED
        BY <3>1, ShrunkKeeps
    <2>4. InSendOrder'
      BY <1>1, <2>3 DEF InSendOrder
    <2>. QED
      BY <2>2, <2>4 DEF InOrder
  <1>. QED
    BY <1>2, <1>3 DEF Ordered

\* The steps in which sockets come and go, and what another tab saves.
LEMMA OrderedConn ==
  ASSUME Base, Ordered,
         Login \/ Timer \/ Refused \/ OtherTabSaves \/ \E s \in Conns : OnClose(s)
  PROVE  Ordered'
  <1>1. /\ UNCHANGED <<up, order, pendingAcks, earlier, acked, marked>>
        /\ open' \subseteq open
    BY DEF Login, Timer, Connect, Refused, OtherTabSaves, OnClose, client, state, history, wire, sockets
  <1>2. crowded => crowded'
    <2>1. Login => crowded' = (crowded \/ Underway > 0)
      BY DEF Login
    <2>2. Login => (crowded => crowded')
      BY <2>1, Zenon
    <2>3. ~ Login => crowded' = crowded
      BY DEF Timer, Refused, OtherTabSaves, OnClose, wire, sockets
    <2>. QED
      BY <2>2, <2>3
  <1>3. \A s \in open' : s \in Conns /\ down'[s] = down[s]
    <2>1. CASE UNCHANGED <<down, open>>
      BY <2>1, OpenIsConn
    <2>2. ASSUME NEW r \in Conns, OnClose(r) PROVE \A s \in open' : s \in Conns /\ down'[s] = down[s]
      <3>1. open' = open \ {r} /\ down' = [down EXCEPT ![r] = <<>>]
        BY <2>2 DEF OnClose
      <3>. QED
        BY <3>1, OpenIsConn DEF Base, WebTypeOK
    <2>. QED
      BY <2>1, <2>2 DEF Login, Timer, Connect, Refused, OtherTabSaves, wire, sockets
  <1>4. \A s \in open' : Shrunk(s)
    BY <1>1, <1>3, SameShrunk
  <1>. QED
    BY <1>1, <1>2, <1>4, OrderedShrinks

\* A new connection has nothing on it.
LEMMA OrderedOpen ==
  ASSUME Base, Ordered, OnOpen
  PROVE  Ordered'
  <1>1. /\ UNCHANGED <<up, down, crowded, pendingAcks, order, earlier, acked, marked>>
        /\ open' = open \cup {session + 1}
    BY DEF OnOpen, history
  <1>2. session \in Nat /\ session + 1 \in Conns
    BY WebClientAssumption DEF Base, WebTypeOK, Conns, OnOpen
  <1>3. session + 1 \notin open /\ up[session + 1] = <<>> /\ down[session + 1] = <<>>
    BY <1>2 DEF Base, Queues, Conns
  <1>4. \A a, b : (Before(a, b)' <=> Before(a, b)) /\ (OnPage(a)' <=> OnPage(a))
    BY <1>1 DEF Before, OnPage
  <1>5. \A s, x : IsAck(s, x)' <=> IsAck(s, x)
    BY <1>1 DEF IsAck
  <1>6. FromPage'
    <2>1. ASSUME NEW s \in open' PROVE AllOnPage(s)'
      <3>1. CASE s \in open
        BY <1>1, <1>4, <1>5, <3>1 DEF Ordered, FromPage, AllOnPage
      <3>2. CASE s = session + 1
        BY <1>1, <1>3, <3>2, NothingIn DEF AllOnPage
      <3>. QED
        BY <1>1, <3>1, <3>2
    <2>. QED
      BY <1>1, <1>4, <2>1 DEF Ordered, FromPage
  <1>7. ASSUME ~ crowded' PROVE InOrder'
    <2>1. InOrder
      BY <1>1, <1>7 DEF Ordered
    <2>2. SentOnce' /\ Pending' /\ Marks'
      BY <1>1, <2>1, SentStays DEF InOrder
    <2>3. ASSUME NEW s \in open'
          PROVE  /\ QueuesInOrder(s)'
                 /\ \A pair \in marked' : OnPage(pair[1])' => AckedBefore(pair[1], s)'
      <3>1. CASE s \in open
        BY <1>1, <1>4, <1>5, <2>1, <3>1 DEF InOrder, InSendOrder, QueuesInOrder, AckedBefore
      <3>2. CASE s = session + 1
        BY <1>1, <1>3, <3>2, NothingIn DEF QueuesInOrder, AckedBefore
      <3>. QED
        BY <1>1, <3>1, <3>2
    <2>4. InSendOrder'
      BY <2>3 DEF InSendOrder
    <2>. QED
      BY <2>2, <2>4 DEF InOrder
  <1>. QED
    BY <1>6, <1>7 DEF Ordered

\* What was sent before a reload is set aside.
LEMMA OrderedReload ==
  ASSUME Ordered, Base, Reload
  PROVE  Ordered'
  <1>1. /\ open' = {} /\ order' = <<>> /\ pendingAcks' = <<>> /\ earlier' = earlier \cup Range(order)
        /\ UNCHANGED <<acked, marked>>
    BY DEF Reload
  <1>2. \A a \in acked : a \in earlier'
    BY <1>1 DEF Ordered, FromPage, OnPage, Range
  <1>3. FromPage'
    BY <1>1, <1>2 DEF FromPage
  <1>4. \A pair \in marked : pair[1] \in earlier'
    BY <1>2 DEF Base, Settled
  <1>5. SentOnce' /\ Pending' /\ InSendOrder'
    BY <1>1 DEF SentOnce, Pending, InSendOrder, Done
  <1>6. Marks'
    BY <1>1, <1>4 DEF Marks, ForLater, EachMarked, InStep, NoneWasted, Done
  <1>. QED
    BY <1>3, <1>5, <1>6 DEF Ordered, InOrder

\* Sending: the new message is the last of order, of pendingAcks and of what is on
\* its way to the gateway, and no ack is for it yet.
LEMMA OrderedSend ==
  ASSUME Base, Ordered, NEW m \in Msgs, Send(m)
  PROVE  Ordered'
  <1>1. /\ m \in Outgoing /\ m \notin earlier /\ order' = Append(order, m)
        /\ pendingAcks' = Append(pendingAcks, m)
        /\ UNCHANGED <<open, crowded, down, earlier, acked, marked>>
    BY DEF Send, sockets
  <1>2. /\ ws \in Conns /\ ws \in open
        /\ \A r \in Conns \ {ws} : up'[r] = up[r]
        /\ Len(up[ws]) \in Nat /\ DOMAIN up[ws] = 1 .. Len(up[ws])
        /\ \A x \in DOMAIN up'[ws] :
              \/ x \in DOMAIN up[ws] /\ up'[ws][x] = up[ws][x]
              \/ x = Len(up[ws]) + 1 /\ up'[ws][x] = m
    BY SendLast
  <1>3. /\ order \in Seq(Outgoing) /\ order' \in Seq(Outgoing) /\ Len(order') = Len(order) + 1
        /\ \A i \in DOMAIN order : i \in DOMAIN order' /\ order'[i] = order[i]
        /\ order'[Len(order) + 1] = m /\ Len(order) + 1 \in DOMAIN order'
        /\ \A i \in DOMAIN order' : i \in DOMAIN order \/ i = Len(order) + 1
        /\ DOMAIN order = 1 .. Len(order) /\ Len(order) \in Nat
    BY <1>1 DEF Base, WebTypeOK
  <1>4. /\ Len(pendingAcks') = Len(pendingAcks) + 1
        /\ \A x \in DOMAIN pendingAcks' :
              \/ x \in DOMAIN pendingAcks /\ pendingAcks'[x] = pendingAcks[x]
              \/ x = Len(pendingAcks) + 1 /\ pendingAcks'[x] = m
        /\ Len(pendingAcks) \in Nat /\ DOMAIN pendingAcks = 1 .. Len(pendingAcks)
    BY <1>1, AppendElems DEF Base, WebTypeOK
  <1>5. \A i \in DOMAIN order : order[i] # m
    BY DEF Send, Range
  <1>6. \A s, x : IsAck(s, x)' <=> IsAck(s, x)
    BY <1>1 DEF IsAck
  <1>7. \A a : OnPage(a) => OnPage(a)' /\ Before(a, m)'
    <2>. SUFFICES ASSUME NEW a, OnPage(a) PROVE OnPage(a)' /\ Before(a, m)'
      OBVIOUS
    <2>1. PICK i \in DOMAIN order : order[i] = a
      BY DEF OnPage
    <2>2. i \in DOMAIN order' /\ order'[i] = a /\ i < Len(order) + 1
      BY <1>3, <2>1
    <2>. QED
      BY <1>3, <2>2 DEF OnPage, Before
  <1>8. \A a, b : Before(a, b) => Before(a, b)'
    BY <1>3 DEF Before
  <1>9. OnPage(m)' /\ \A a : OnPage(a)' => OnPage(a) \/ a = m
    BY <1>3 DEF OnPage
  <1>10. FromPage'
    <2>1. ASSUME NEW s \in open' PROVE AllOnPage(s)'
      <3>1. AllOnPage(s) /\ s \in Conns
        BY <1>1, <2>1, OpenIsConn DEF Ordered, FromPage
      <3>2. \A x \in DOMAIN down'[s] : IsAck(s, x)' => OnPage(down[s][x][2])'
        BY <1>1, <1>6, <1>7, <3>1 DEF AllOnPage
      <3>3. \A x \in DOMAIN up'[s] : OnPage(up[s][x])'
        <4>1. CASE s = ws
          BY <1>2, <1>7, <1>9, <3>1, <4>1 DEF AllOnPage
        <4>2. CASE s # ws
          BY <1>2, <1>7, <3>1, <4>2 DEF AllOnPage
        <4>. QED
          BY <4>1, <4>2
      <3>. QED
        BY <3>2, <3>3 DEF AllOnPage
    <2>. QED
      BY <1>1, <1>7, <2>1 DEF Ordered, FromPage
  <1>11. m \notin acked
    BY <1>1, <1>5 DEF Ordered, FromPage, OnPage
  <1>12. \A pair \in marked : pair[1] # m
    BY <1>11 DEF Base, Settled
  <1>. SUFFICES ASSUME ~ crowded' PROVE InOrder'
    BY <1>10 DEF Ordered
  <1>13. SentOnce /\ Pending /\ InSendOrder /\ Marks
    BY <1>1 DEF Ordered, InOrder
  <1>14. Done' = Done /\ Done \in 0 .. Len(order)
    BY <1>3, <1>4, <1>13 DEF Done, Pending
  <1>15. SentOnce'
    <2>1. \A i, j \in DOMAIN order' : order'[i] = order'[j] => i = j
      BY <1>3, <1>5, <1>13 DEF SentOnce
    <2>2. \A i \in DOMAIN order' : order'[i] \notin earlier
      BY <1>1, <1>3, <1>13 DEF SentOnce
    <2>. QED
      BY <1>1, <2>1, <2>2 DEF SentOnce
  <1>16. Pending'
    <2>1. ASSUME NEW x \in DOMAIN pendingAcks' PROVE pendingAcks'[x] = order'[Done + x]
      <3>1. CASE x \in DOMAIN pendingAcks /\ pendingAcks'[x] = pendingAcks[x]
        BY <1>3, <1>4, <1>13, <3>1 DEF Pending, Done
      <3>2. CASE x = Len(pendingAcks) + 1 /\ pendingAcks'[x] = m
        BY <1>3, <1>4, <3>2 DEF Done
      <3>. QED
        BY <1>4, <3>1, <3>2
    <2>2. Len(pendingAcks') <= Len(order')
      BY <1>3, <1>4, <1>13 DEF Pending
    <2>. QED
      BY <1>14, <2>1, <2>2 DEF Pending
  <1>17. InSendOrder'
    <2>1. ASSUME NEW s \in open' PROVE QueuesInOrder(s)'
      <3>1. QueuesInOrder(s) /\ AllOnPage(s) /\ s \in Conns
        BY <1>1, <1>13, <2>1, OpenIsConn DEF Ordered, FromPage, InSendOrder
      <3>2. \A x, y \in DOMAIN down'[s] :
               x < y /\ IsAck(s, x)' /\ IsAck(s, y)' => Before(down[s][x][2], down[s][y][2])'
        BY <1>1, <1>6, <1>8, <3>1 DEF QueuesInOrder
      <3>3. CASE s # ws
        <4>1. up'[s] = up[s]
          BY <1>2, <3>1, <3>3
        <4>. QED
          BY <1>1, <1>6, <1>8, <3>1, <3>2, <4>1 DEF QueuesInOrder
      <3>4. CASE s = ws
        <4>1. ASSUME NEW x \in DOMAIN up'[s], NEW y \in DOMAIN up'[s], x < y
              PROVE  Before(up[s][x], up[s][y])'
          <5>1. x \in DOMAIN up[s] /\ up'[s][x] = up[s][x]
            BY <1>2, <3>4, <4>1
          <5>2. CASE y \in DOMAIN up[s] /\ up'[s][y] = up[s][y]
            BY <1>8, <3>1, <4>1, <5>1, <5>2 DEF QueuesInOrder
          <5>3. CASE up'[s][y] = m
            BY <1>7, <3>1, <5>1, <5>3 DEF AllOnPage
          <5>. QED
            BY <1>2, <3>4, <5>2, <5>3
        <4>2. \A x \in DOMAIN down'[s], y \in DOMAIN up'[s] :
                 IsAck(s, x)' => Before(down[s][x][2], up[s][y])'
          BY <1>1, <1>2, <1>6, <1>7, <1>8, <3>1, <3>4 DEF QueuesInOrder, AllOnPage
        <4>. QED
          BY <3>2, <4>1, <4>2 DEF QueuesInOrder
      <3>. QED
        BY <3>3, <3>4
    <2>2. ASSUME NEW s \in open', NEW pair \in marked', OnPage(pair[1])' PROVE AckedBefore(pair[1], s)'
      <3>1. OnPage(pair[1]) /\ AckedBefore(pair[1], s) /\ s \in Conns
        BY <1>1, <1>9, <1>12, <1>13, <2>2, OpenIsConn DEF InSendOrder
      <3>2. \A x \in DOMAIN down'[s] : IsAck(s, x)' => Before(pair[1], down[s][x][2])'
        BY <1>1, <1>6, <1>8, <3>1 DEF AckedBefore
      <3>3. \A y \in DOMAIN up'[s] : Before(pair[1], up[s][y])'
        <4>1. CASE s = ws
          BY <1>2, <1>7, <1>8, <3>1, <4>1 DEF AckedBefore
        <4>2. CASE s # ws
          BY <1>2, <1>8, <3>1, <4>2 DEF AckedBefore
        <4>. QED
          BY <4>1, <4>2
      <3>. QED
        BY <3>2, <3>3 DEF AckedBefore
    <2>. QED
      BY <2>1, <2>2 DEF InSendOrder
  <1>18. Marks'
    <2>1. marked' = marked /\ acked' = acked /\ earlier' = earlier /\ Done' = Done
      BY <1>1, <1>14
    <2>2. ForLater'
      <3>1. ASSUME NEW pair \in marked
            PROVE  \/ pair[1] \in earlier
                   \/ \E i \in DOMAIN order', j \in 1 .. Done : j <= i /\ pair = <<order'[i], order'[j]>>
        BY <1>3, <1>13, <1>14 DEF Marks, ForLater
      <3>. QED
        BY <2>1, <3>1 DEF ForLater
    <2>3. \A j \in 1 .. Done : j \in DOMAIN order /\ order'[j] = order[j]
      BY <1>3, <1>14
    <2>4. EachMarked'
      <3>1. ASSUME NEW j \in 1 .. Done PROVE \E i \in DOMAIN order' : <<order'[i], order'[j]>> \in marked
        <4>1. PICK i \in DOMAIN order : <<order[i], order[j]>> \in marked
          BY <1>13 DEF Marks, EachMarked
        <4>. QED
          BY <1>3, <2>3, <4>1
      <3>. QED
        BY <2>1, <3>1 DEF EachMarked
    <2>5. ASSUME NEW i \in DOMAIN order', NEW j \in 1 .. Done, <<order'[i], order'[j]>> \in marked
          PROVE  i \in DOMAIN order /\ <<order[i], order[j]>> \in marked
      <3>1. i # Len(order) + 1
        BY <1>3, <1>12, <2>5
      <3>. QED
        BY <1>3, <2>3, <2>5, <3>1
    <2>6. InStep'
      <3>1. ASSUME NEW i \in DOMAIN order', NEW k \in DOMAIN order', NEW j \in 1 .. Done, NEW l \in 1 .. Done,
                   <<order'[i], order'[j]>> \in marked, <<order'[k], order'[l]>> \in marked
            PROVE  i < k <=> j < l
        <4>1. /\ i \in DOMAIN order /\ <<order[i], order[j]>> \in marked
              /\ k \in DOMAIN order /\ <<order[k], order[l]>> \in marked
          BY <2>5, <3>1
        <4>. QED
          BY <1>13, <4>1 DEF Marks, InStep
      <3>. HIDE DEF Done
      <3>. QED
        BY <2>1, <3>1 DEF InStep
    <2>7. NoneWasted'
      <3>1. ASSUME NEW i \in DOMAIN order', order'[i] \in acked
            PROVE  \E j \in 1 .. Done : <<order'[i], order'[j]>> \in marked
        <4>1. i \in DOMAIN order /\ order'[i] = order[i]
          BY <1>3, <1>11, <3>1
        <4>2. PICK j \in 1 .. Done : <<order[i], order[j]>> \in marked
          BY <1>13, <3>1, <4>1 DEF Marks, NoneWasted
        <4>. QED
          BY <2>3, <4>1, <4>2
      <3>. QED
        BY <2>1, <3>1 DEF NoneWasted
    <2>. QED
      BY <2>2, <2>4, <2>6, <2>7 DEF Marks
  <1>. QED
    BY <1>15, <1>16, <1>17, <1>18 DEF InOrder

\* What the page reads is gone from its queue.
LEMMA ReadShrinks ==
  ASSUME Base, NEW s \in Conns, NEW kind, NEW m, Reads(s, kind, m)
  PROVE  \A r \in Conns : Shrunk(r)
  <1>1. /\ \A r \in Conns \ {s} : down'[r] = down[r]
        /\ \A x \in DOMAIN down'[s] :
              x \in Nat \ {0} /\ x + 1 \in DOMAIN down[s] /\ down'[s][x] = down[s][x + 1]
    BY ReadFirst
  <1>2. \A r \in Conns : up'[r] = up[r] /\ \A x \in DOMAIN up[r] : x \in Int /\ x + 0 = x
    BY DEF Base, WebTypeOK, Reads
  <1>3. Shrunk(s)
    BY <1>1, <1>2 DEF Shrunk
  <1>. QED
    BY <1>1, <1>2, <1>3, SameShrunk

\* A message that is shown is no ack.
LEMMA OrderedIncoming ==
  ASSUME Base, Ordered, NEW s \in Conns, NEW m \in Msgs, HandleIncoming(s, m)
  PROVE  Ordered'
  <1>1. Reads(s, "message", m) /\ UNCHANGED <<pendingAcks, acked, marked>>
    BY DEF HandleIncoming
  <1>2. UNCHANGED <<open, crowded, order, earlier>>
    BY <1>1 DEF Reads, sockets
  <1>3. \A r \in open' : Shrunk(r)
    BY <1>1, <1>2, ReadShrinks, OpenIsConn
  <1>. QED
    BY <1>1, <1>2, <1>3, OrderedShrinks

\* The ack the page reads is for a message sent after every message an ack was for
\* so far, and so, as many messages are marked as acks were read, for one that is
\* not marked: pendingAcks is not empty.
LEMMA AckIsLater ==
  ASSUME Base, FromPage, InOrder, NEW s \in Conns, NEW m \in Msgs, Reads(s, "ack", m)
  PROVE  \E p \in DOMAIN order :
            /\ order[p] = m /\ Done < p
            /\ \A i \in DOMAIN order, j \in 1 .. Done : <<order[i], order[j]>> \in marked => i < p
  <1>1. s \in open /\ 1 \in DOMAIN down[s] /\ IsAck(s, 1) /\ down[s][1][2] = m
    BY ReadFirst
  <1>2. PICK p \in DOMAIN order : order[p] = m
    BY <1>1 DEF FromPage, AllOnPage, OnPage
  <1>3. ASSUME NEW i \in DOMAIN order, NEW j \in 1 .. Done, <<order[i], order[j]>> \in marked
        PROVE  i < p
    <2>1. OnPage(order[i])
      BY DEF OnPage
    <2>2. Before(order[i], m)
      BY <1>1, <1>3, <2>1 DEF InOrder, InSendOrder, AckedBefore
    <2>3. PICK a, b \in DOMAIN order : a < b /\ order[a] = order[i] /\ order[b] = m
      BY <2>2 DEF Before
    <2>. QED
      BY <1>2, <2>3 DEF InOrder, SentOnce
  <1>4. order \in Seq(Outgoing) /\ Done \in 0 .. Len(order)
    <2>1. Len(pendingAcks) \in Nat /\ Len(order) \in Nat /\ Len(pendingAcks) <= Len(order)
      BY DEF Base, WebTypeOK, InOrder, Pending
    <2>. QED
      BY <2>1 DEF Done, Base, WebTypeOK
  <1>5. ASSUME p \in 1 .. Done PROVE FALSE
    <2>1. PICK i \in DOMAIN order : <<order[i], order[p]>> \in marked
      BY <1>5 DEF InOrder, Marks, EachMarked
    <2>2. i < p
      BY <1>3, <1>5, <2>1
    <2>3. order[i] \notin earlier
      BY DEF InOrder, SentOnce
    <2>4. PICK a \in DOMAIN order, b \in 1 .. Done :
             b <= a /\ <<order[i], order[p]>> = <<order[a], order[b]>>
      BY <2>1, <2>3 DEF InOrder, Marks, ForLater
    <2>5. b \in DOMAIN order /\ order[a] = order[i] /\ order[b] = order[p]
      BY <1>4, <2>4
    <2>6. a = i /\ b = p
      BY <2>5 DEF InOrder, SentOnce
    <2>. QED
      BY <1>4, <2>2, <2>4, <2>6
  <1>6. p \in 1 .. Len(order)
    BY <1>2, <1>4
  <1>7. Done < p
    BY <1>4, <1>5, <1>6
  <1>. QED
    BY <1>2, <1>3, <1>7

\* With one socket, the oldest pending message is marked: the next one after those
\* marked before.
LEMMA AckMarksNext ==
  ASSUME Base, OneSocket, FromPage, InOrder, ~ crowded, NEW s \in Conns, NEW m \in Msgs, HandleAck(s, m)
  PROVE  InOrder'
  <1>1. Reads(s, "ack", m)
    BY DEF HandleAck
  <1>2. /\ s \in open /\ 1 \in DOMAIN down[s] /\ IsAck(s, 1) /\ down[s][1][2] = m
        /\ \A x \in DOMAIN down'[s] :
              x \in Nat \ {0} /\ x + 1 \in DOMAIN down[s] /\ down'[s][x] = down[s][x + 1]
        /\ UNCHANGED <<open, session, up, order, earlier>>
    <2>1. UNCHANGED <<open, session, up, order, earlier>>
      BY <1>1 DEF Reads, sockets
    <2>. QED
      BY <1>1, <2>1, ReadFirst
  <1>3. PICK p \in DOMAIN order :
            /\ order[p] = m /\ Done < p
            /\ \A i \in DOMAIN order, j \in 1 .. Done : <<order[i], order[j]>> \in marked => i < p
    BY <1>1, AckIsLater
  <1>4. /\ order \in Seq(Outgoing) /\ pendingAcks \in Seq(Outgoing)
        /\ Len(order) \in Nat /\ Len(pendingAcks) \in Nat /\ Len(pendingAcks) <= Len(order)
        /\ DOMAIN order = 1 .. Len(order)
    BY DEF Base, WebTypeOK, InOrder, Pending
  <1>5. Len(pendingAcks) > 0 /\ Done \in 0 .. Len(order) /\ Done + 1 \in DOMAIN order /\ Done + 1 <= p
    BY <1>3, <1>4 DEF Done
  <1>6. /\ Len(pendingAcks') = Len(pendingAcks) - 1
        /\ \A x \in DOMAIN pendingAcks' :
              x \in Nat \ {0} /\ x + 1 \in DOMAIN pendingAcks /\ pendingAcks'[x] = pendingAcks[x + 1]
        /\ marked' = marked \cup {<<m, order[Done + 1]>>} /\ acked' = acked \cup {m}
    <2>1. pendingAcks # <<>>
      BY <1>4, <1>5
    <2>2. /\ pendingAcks' = Tail(pendingAcks) /\ acked' = acked \cup {m}
          /\ marked' = marked \cup {<<m, Head(pendingAcks)>>}
      BY <2>1 DEF HandleAck
    <2>3. Head(pendingAcks) = pendingAcks[1] /\ 1 \in DOMAIN pendingAcks
      BY <1>4, <2>1, TailElems
    <2>4. pendingAcks[1] = order[Done + 1]
      BY <2>3 DEF InOrder, Pending
    <2>. QED
      BY <1>4, <2>1, <2>2, <2>3, <2>4, TailElems
  <1>7. Done' = Done + 1
    BY <1>2, <1>4, <1>6 DEF Done
  <1>8. SentOnce'
    BY <1>2 DEF InOrder, SentOnce
  <1>9. Pending'
    <2>1. ASSUME NEW x \in DOMAIN pendingAcks' PROVE pendingAcks'[x] = order[Done + 1 + x]
      <3>1. pendingAcks[x + 1] = order[Done + (x + 1)]
        BY <1>6 DEF InOrder, Pending
      <3>. QED
        BY <1>5, <1>6, <3>1
    <2>. QED
      BY <1>2, <1>4, <1>6, <1>7, <2>1 DEF Pending
  <1>10. \A a, b : (Before(a, b)' <=> Before(a, b)) /\ (OnPage(a)' <=> OnPage(a))
    BY <1>2 DEF Before, OnPage
  <1>11. InSendOrder'
    <2>1. open = {s}
      BY <1>2 DEF OneSocket
    <2>2. Shrunk(s)
      BY <1>1, ReadShrinks
    <2>3. QueuesInOrder(s) /\ \A pair \in marked : OnPage(pair[1]) => AckedBefore(pair[1], s)
      BY <1>2 DEF InOrder, InSendOrder
    <2>4. QueuesInOrder(s)' /\ \A pair \in marked : OnPage(pair[1]) => AckedBefore(pair[1], s)'
      BY <1>2, <2>2, <2>3, ShrunkKeeps
    <2>5. AckedBefore(m, s)'
      <3>1. ASSUME NEW x \in DOMAIN down'[s], IsAck(s, x)' PROVE Before(m, down[s][x][2])'
        <4>1. x + 1 \in DOMAIN down[s] /\ IsAck(s, x + 1) /\ 1 < x + 1 /\ down'[s][x] = down[s][x + 1]
          BY <1>2, <3>1 DEF IsAck
        <4>. QED
          BY <1>2, <1>10, <2>3, <4>1 DEF QueuesInOrder
      <3>2. \A y \in DOMAIN up'[s] : Before(m, up[s][y])'
        BY <1>2, <1>10, <2>3 DEF QueuesInOrder
      <3>. QED
        BY <3>1, <3>2 DEF AckedBefore
    <2>6. \A pair \in marked' : pair \in marked \/ pair[1] = m
      BY <1>6
    <2>7. \A pair \in marked' : OnPage(pair[1])' => AckedBefore(pair[1], s)'
      BY <1>10, <2>4, <2>5, <2>6
    <2>. QED
      BY <1>2, <2>1, <2>4, <2>7 DEF InSendOrder
  <1>12. \A j \in 1 .. Done : j \in 1 .. (Done + 1) /\ j \in DOMAIN order
    BY <1>4, <1>5
  <1>13. \A j \in 1 .. (Done + 1) : j \in 1 .. Done \/ j = Done + 1
    BY <1>5
  <1>14. ASSUME NEW i \in DOMAIN order, NEW j \in 1 .. (Done + 1), <<order[i], order[j]>> \in marked'
         PROVE  \/ j \in 1 .. Done /\ <<order[i], order[j]>> \in marked
                \/ j = Done + 1 /\ i = p
    <2>1. order[i] \notin earlier
      BY DEF InOrder, SentOnce
    <2>2. j \in DOMAIN order
      BY <1>5, <1>12, <1>13
    <2>3. CASE <<order[i], order[j]>> \in marked
      <3>1. PICK a \in DOMAIN order, b \in 1 .. Done : <<order[i], order[j]>> = <<order[a], order[b]>>
        BY <2>1, <2>3 DEF InOrder, Marks, ForLater
      <3>2. order[b] = order[j] /\ b \in DOMAIN order
        BY <1>12, <3>1
      <3>3. j = b
        BY <2>2, <3>2 DEF InOrder, SentOnce
      <3>. QED
        BY <2>3, <3>3
    <2>4. CASE <<order[i], order[j]>> = <<m, order[Done + 1]>>
      <3>1. order[i] = order[p] /\ order[j] = order[Done + 1]
        BY <1>3, <2>4
      <3>. QED
        BY <1>5, <2>2, <3>1 DEF InOrder, SentOnce
    <2>. QED
      BY <1>6, <1>14, <2>3, <2>4
  <1>15. ForLater'
    <2>1. ASSUME NEW pair \in marked'
          PROVE  \/ pair[1] \in earlier
                 \/ \E i \in DOMAIN order, j \in 1 .. (Done + 1) : j <= i /\ pair = <<order[i], order[j]>>
      <3>1. CASE pair \in marked
        BY <1>12, <3>1 DEF InOrder, Marks, ForLater
      <3>2. CASE pair = <<m, order[Done + 1]>>
        <4>1. Done + 1 \in 1 .. (Done + 1)
          BY <1>5
        <4>. QED
          BY <1>3, <1>5, <3>2, <4>1
      <3>. QED
        BY <1>6, <3>1, <3>2
    <2>. QED
      BY <1>2, <1>7, <2>1 DEF ForLater
  <1>16. EachMarked'
    <2>1. ASSUME NEW j \in 1 .. (Done + 1) PROVE \E i \in DOMAIN order : <<order[i], order[j]>> \in marked'
      <3>1. CASE j \in 1 .. Done
        BY <1>6, <3>1 DEF InOrder, Marks, EachMarked
      <3>2. CASE j = Done + 1
        BY <1>3, <1>6, <3>2
      <3>. QED
        BY <1>13, <3>1, <3>2
    <2>. QED
      BY <1>2, <1>7, <2>1 DEF EachMarked
  <1>17. InStep'
    <2>1. ASSUME NEW i \in DOMAIN order, NEW k \in DOMAIN order,
                 NEW j \in 1 .. (Done + 1), NEW l \in 1 .. (Done + 1),
                 <<order[i], order[j]>> \in marked', <<order[k], order[l]>> \in marked'
          PROVE  i < k <=> j < l
      <3>1. \/ j \in 1 .. Done /\ <<order[i], order[j]>> \in marked
            \/ j = Done + 1 /\ i = p
        BY <1>14, <2>1
      <3>2. \/ l \in 1 .. Done /\ <<order[k], order[l]>> \in marked
            \/ l = Done + 1 /\ k = p
        BY <1>14, <2>1
      <3>3. CASE j \in 1 .. Done /\ l \in 1 .. Done
        <4>1. j # Done + 1 /\ l # Done + 1
          BY <1>5, <3>3
        <4>. QED
          BY <3>1, <3>2, <3>3, <4>1 DEF InOrder, Marks, InStep
      <3>4. CASE j \in 1 .. Done /\ l = Done + 1
        <4>1. l \notin 1 .. Done /\ j # Done + 1
          BY <1>5, <3>4
        <4>2. i < p /\ k = p
          BY <1>3, <3>1, <3>2, <4>1
        <4>. QED
          BY <1>5, <3>4, <4>2
      <3>5. CASE j = Done + 1 /\ l \in 1 .. Done
        <4>1. j \notin 1 .. Done /\ l # Done + 1
          BY <1>5, <3>5
        <4>2. k < p /\ i = p
          BY <1>3, <3>1, <3>2, <4>1
        <4>3. ~ (i < k)
          BY <1>4, <4>2
        <4>. QED
          BY <1>5, <3>5, <4>3
      <3>6. CASE j = Done + 1 /\ l = Done + 1
        <4>1. Done + 1 \notin 1 .. Done
          BY <1>5
        <4>2. i = p /\ k = p
          BY <3>1, <3>2, <3>6, <4>1
        <4>. QED
          BY <1>4, <1>5, <3>6, <4>2
      <3>. QED
        BY <1>13, <3>3, <3>4, <3>5, <3>6
    <2>. QED
      BY <1>2, <1>7, <2>1 DEF InStep
  <1>18. NoneWasted'
    <2>1. ASSUME NEW i \in DOMAIN order, order[i] \in acked'
          PROVE  \E j \in 1 .. (Done + 1) : <<order[i], order[j]>> \in marked'
      <3>1. CASE order[i] \in acked
        BY <1>6, <1>12, <3>1 DEF InOrder, Marks, NoneWasted
      <3>2. CASE order[i] = m
        <4>1. Done + 1 \in 1 .. (Done + 1)
          BY <1>5
        <4>. QED
          BY <1>6, <3>2, <4>1
      <3>. QED
        BY <1>6, <2>1, <3>1, <3>2
    <2>. QED
      BY <1>2, <1>7, <2>1 DEF NoneWasted
  <1>. QED
    BY <1>8, <1>9, <1>11, <1>15, <1>16, <1>17, <1>18 DEF InOrder, Marks

\* An ack is for a message that was sent from the page, whichever it marks.
LEMMA OrderedAck ==
  ASSUME Base, OneSocket, Ordered, NEW s \in Conns, NEW m \in Msgs, HandleAck(s, m)
  PROVE  Ordered'
  <1>1. Reads(s, "ack", m) /\ acked' = acked \cup {m}
    BY DEF HandleAck
  <1>2. UNCHANGED <<open, crowded, order, earlier>>
    BY <1>1 DEF Reads, sockets
  <1>3. \A a : OnPage(a)' <=> OnPage(a)
    BY <1>2 DEF OnPage
  <1>4. OnPage(m)
    <2>1. s \in open /\ 1 \in DOMAIN down[s] /\ IsAck(s, 1) /\ down[s][1][2] = m
      BY <1>1, ReadFirst
    <2>. QED
      BY <2>1 DEF Ordered, FromPage, AllOnPage
  <1>5. \A r \in open' : Shrunk(r) /\ AllOnPage(r)
    BY <1>1, <1>2, ReadShrinks, OpenIsConn DEF Ordered, FromPage
  <1>6. FromPage'
    BY <1>1, <1>2, <1>3, <1>4, <1>5, ShrunkKeeps DEF Ordered, FromPage
  <1>7. ~ crowded' => InOrder'
    BY <1>2, AckMarksNext DEF Ordered
  <1>. QED
    BY <1>6, <1>7 DEF Ordered

\* The gateway acks the message in hand: its ack is the last on the way to the page,
\* and the messages behind it were sent later.
LEMMA OrderedAcked ==
  ASSUME Base, Ordered, NEW s \in Conns, NEW m \in Msgs, Acked(s, m)
  PROVE  Ordered'
  <1>1. /\ s \in open /\ UNCHANGED <<open, crowded, order, pendingAcks, earlier, acked, marked>>
    BY DEF Acked, sockets, client, history
  <1>2. /\ \A r \in Conns \ {s} : up'[r] = up[r]
        /\ 1 \in DOMAIN up[s] /\ up[s][1] = m
        /\ \A x \in DOMAIN up'[s] : x \in Nat \ {0} /\ x + 1 \in DOMAIN up[s] /\ up'[s][x] = up[s][x + 1]
    BY TakeFirst DEF Acked
  <1>3. /\ \A r \in Conns \ {s} : down'[r] = down[r]
        /\ Len(down[s]) \in Nat /\ DOMAIN down[s] = 1 .. Len(down[s])
        /\ \A x \in DOMAIN down'[s] :
              \/ x \in DOMAIN down[s] /\ down'[s][x] = down[s][x]
              \/ x = Len(down[s]) + 1 /\ down'[s][x] = <<"ack", m>>
    BY WriteLast, <<"ack", m>> \in {"ack", "message"} \X Msgs DEF Acked
  <1>4. \A a, b : (Before(a, b)' <=> Before(a, b)) /\ (OnPage(a)' <=> OnPage(a))
    BY <1>1 DEF Before, OnPage
  <1>5. \A x \in DOMAIN down'[s] :
           \/ x \in DOMAIN down[s] /\ down'[s][x] = down[s][x] /\ (IsAck(s, x)' <=> IsAck(s, x))
           \/ x = Len(down[s]) + 1 /\ down'[s][x][2] = m /\ IsAck(s, x)'
    BY <1>3 DEF IsAck
  <1>6. \A r \in Conns \ {s} : Shrunk(r)
    BY <1>2, <1>3, SameShrunk
  <1>7. FromPage'
    <2>1. AllOnPage(s)
      BY <1>1 DEF Ordered, FromPage
    <2>2. AllOnPage(s)'
      BY <1>2, <1>4, <1>5, <2>1 DEF AllOnPage
    <2>3. \A r \in open \ {s} : AllOnPage(r)'
      BY <1>1, <1>6, ShrunkKeeps, OpenIsConn DEF Ordered, FromPage
    <2>. QED
      BY <1>1, <1>4, <2>2, <2>3 DEF Ordered, FromPage
  <1>. SUFFICES ASSUME ~ crowded' PROVE InOrder'
    BY <1>7 DEF Ordered
  <1>8. InOrder
    BY <1>1 DEF Ordered
  <1>9. SentOnce' /\ Pending' /\ Marks'
    BY <1>1, <1>8, SentStays DEF InOrder
  <1>10. /\ QueuesInOrder(s) /\ \A pair \in marked : OnPage(pair[1]) => AckedBefore(pair[1], s)
    BY <1>1, <1>8 DEF InOrder, InSendOrder
  <1>11. QueuesInOrder(s)'
    <2>1. ASSUME NEW x \in DOMAIN up'[s], NEW y \in DOMAIN up'[s], x < y
          PROVE  Before(up[s][x], up[s][y])'
      <3>1. x + 1 < y + 1
        BY <1>2, <2>1
      <3>. QED
        BY <1>2, <1>4, <1>10, <3>1 DEF QueuesInOrder
    <2>2. ASSUME NEW y \in DOMAIN up'[s] PROVE Before(m, up[s][y])'
      <3>1. 1 < y + 1 /\ y + 1 \in DOMAIN up[s]
        BY <1>2
      <3>. QED
        BY <1>2, <1>4, <1>10, <3>1 DEF QueuesInOrder
    <2>3. ASSUME NEW x \in DOMAIN down'[s], NEW y \in DOMAIN down'[s], x < y, IsAck(s, x)', IsAck(s, y)'
          PROVE  Before(down[s][x][2], down[s][y][2])'
      <3>1. x \in DOMAIN down[s] /\ down'[s][x] = down[s][x] /\ IsAck(s, x)
        <4>1. x <= Len(down[s])
          BY <1>3, <2>3
        <4>. QED
          BY <1>3, <1>5, <2>3, <4>1
      <3>2. CASE y \in DOMAIN down[s] /\ down'[s][y] = down[s][y] /\ IsAck(s, y)
        BY <1>4, <1>10, <2>3, <3>1, <3>2 DEF QueuesInOrder
      <3>3. CASE down'[s][y][2] = m
        BY <1>2, <1>4, <1>10, <3>1, <3>3 DEF QueuesInOrder
      <3>. QED
        BY <1>5, <2>3, <3>2, <3>3
    <2>4. \A x \in DOMAIN down'[s], y \in DOMAIN up'[s] :
             IsAck(s, x)' => Before(down[s][x][2], up[s][y])'
      BY <1>2, <1>4, <1>5, <1>10, <2>2 DEF QueuesInOrder
    <2>. QED
      BY <2>1, <2>3, <2>4 DEF QueuesInOrder
  <1>12. \A pair \in marked : OnPage(pair[1]) => AckedBefore(pair[1], s)'
    BY <1>2, <1>4, <1>5, <1>10 DEF AckedBefore
  <1>13. \A r \in open \ {s} :
            QueuesInOrder(r)' /\ \A pair \in marked : OnPage(pair[1]) => AckedBefore(pair[1], r)'
    BY <1>1, <1>6, <1>8, ShrunkKeeps, OpenIsConn DEF InOrder, InSendOrder
  <1>14. InSendOrder'
    BY <1>1, <1>4, <1>11, <1>12, <1>13 DEF InSendOrder
  <1>. QED
    BY <1>9, <1>14 DEF InOrder

\* A message that is not acked leaves its place in the order empty; a message that is
\* pushed is not an ack.
LEMMA OrderedGateway ==
  ASSUME Base, Ordered, NEW s \in Conns,
         Dropped(s) \/ \E m \in Msgs : NotAcked(s, m) \/ Pushed(s, m)
  PROVE  Ordered'
  <1>1. UNCHANGED <<open, crowded, order, pendingAcks, earlier, acked, marked>>
    BY DEF Dropped, NotAcked, Pushed, sockets, client, history
  <1>2. \A r \in Conns : \A x \in DOMAIN down[r] : x \in Int /\ x + 0 = x
    BY DEF Base, WebTypeOK
  <1>3. \A r \in Conns : \A x \in DOMAIN up[r] : x \in Int /\ x + 0 = x
    BY DEF Base, WebTypeOK
  <1>4. CASE Dropped(s)
    <2>1. /\ down' = down /\ s \notin open
          /\ \A r \in Conns \ {s} : up'[r] = up[r]
      BY <1>4 DEF Dropped, Base, WebTypeOK
    <2>2. \A r \in open : Shrunk(r)
      BY <2>1, SameShrunk, OpenIsConn
    <2>. QED
      BY <1>1, <2>2, OrderedShrinks
  <1>5. ASSUME NEW m \in Msgs, NotAcked(s, m) PROVE Ordered'
    <2>1. /\ down' = down /\ \A r \in Conns \ {s} : up'[r] = up[r]
          /\ \A x \in DOMAIN up'[s] : x \in Nat \ {0} /\ x + 1 \in DOMAIN up[s] /\ up'[s][x] = up[s][x + 1]
      BY <1>5, TakeFirst DEF NotAcked
    <2>2. Shrunk(s)
      BY <1>2, <2>1 DEF Shrunk
    <2>3. \A r \in open : Shrunk(r)
      BY <2>1, <2>2, SameShrunk, OpenIsConn
    <2>. QED
      BY <1>1, <2>3, OrderedShrinks
  <1>6. ASSUME NEW m \in Msgs, Pushed(s, m) PROVE Ordered'
    <2>1. /\ up' = up /\ \A r \in Conns \ {s} : down'[r] = down[r]
          /\ \A x \in DOMAIN down'[s] :
                \/ x \in DOMAIN down[s] /\ down'[s][x] = down[s][x]
                \/ x = Len(down[s]) + 1 /\ down'[s][x] = <<"message", m>>
      BY <1>6, WriteLast, <<"message", m>> \in {"ack", "message"} \X Msgs DEF Pushed
    <2>2. Shrunk(s)
      <3>1. \A x \in DOMAIN down'[s] : IsAck(s, x)' => x \in DOMAIN down[s] /\ down'[s][x] = down[s][x]
        BY <2>1 DEF IsAck
      <3>. QED
        BY <1>2, <1>3, <2>1, <3>1 DEF Shrunk
    <2>3. \A r \in open : Shrunk(r)
      BY <2>1, <2>2, SameShrunk, OpenIsConn
    <2>. QED
      BY <1>1, <2>3, OrderedShrinks
  <1>. QED
    BY <1>4, <1>5, <1>6

\* One case per operation of the page and of the gateway; the rest leaves both alone.
LEMMA OrderedStep == Base /\ OneSocket /\ Ordered /\ [WebNext]_webVars => Ordered'
  <1>. SUFFICES ASSUME Base, OneSocket, Ordered, [WebNext]_webVars PROVE Ordered'
    OBVIOUS
  <1>1. CASE PageStep
    BY <1>1, OrderedConn, OrderedOpen, OrderedReload, OrderedSend, OrderedAck, OrderedIncoming DEF PageStep
  <1>2. ASSUME UNCHANGED <<open, crowded, up, down, order, pendingAcks, earlier, acked, marked>>
        PROVE  Ordered'
    <2>1. \A s \in open : Shrunk(s)
      BY <1>2, SameShrunk, OpenIsConn
    <2>. QED
      BY <1>2, <2>1, OrderedShrinks
  <1>3. CASE GatewayStep
    <2>1. ASSUME NEW m \in Msgs, PersistOutgoing(m) \/ PersistIncoming(m) PROVE Ordered'
      BY <1>2, <2>1 DEF PersistOutgoing, PersistIncoming, wire, sockets, client, history
    <2>2. ASSUME NEW ms \in SUBSET Msgs, PersistFails(ms) PROVE Ordered'
      BY <1>2, <2>2 DEF PersistFails, wire, sockets, client, history
    <2>3. CASE UNCHANGED <<wire, client, history>>
      BY <1>2, <2>3 DEF wire, sockets, client, history
    <2>. QED
      BY <1>3, <2>1, <2>2, <2>3, OrderedAcked, OrderedGateway DEF GatewayStep
  <1>4. CASE UNCHANGED pageVars
    BY <1>2, <1>4 DEF pageVars, wire, sockets, client, history
  <1>. QED
    BY <1>1, <1>3, <1>4 DEF WebNext, PageNext, webVars

\* Ordered holds in every state.
LEMMA OrderedInvariance == WebSpec => []Ordered
  <1>1. WebInit => Ordered
    BY NothingIn DEF WebInit, Ordered, FromPage, InOrder, SentOnce, Pending, InSendOrder, Marks,
                     ForLater, EachMarked, InStep, NoneWasted, Done
  <1>. QED
    BY <1>1, OrderedStep, BaseInvariance, OneSocketInvariance, PTL DEF WebSpec

----------------------------------------------------------------------------
(* The theorems.                                                           *)

\* The variables of the page, the gateway's queues and the history keep their
\* types; reconnectAttempts does not pass maxReconnectAttempts (onClose).
THEOREM WebTypeCorrect == WebSpec => []WebTypeOK
  <1>1. Base => WebTypeOK
    BY DEF Base
  <1>. QED
    BY <1>1, BaseInvariance, PTL

\* What the page does not show, it names in a notice, unless an ack or the localPts
\* that another tab has saved hides it, whatever is lost, however often the page
\* reconnects or is reloaded and however many sockets it has (handleIncomingMessage,
\* updatePts, loadState).
THEOREM MissedCorrect == WebSpec => []MissedIsAnnounced
  <1>1. Base => MissedIsAnnounced
    BY DEF Base
  <1>. QED
    BY <1>1, BaseInvariance, PTL

\* localPts is saved whenever it grows, so that a reload finds it, or what another tab
\* has saved since then (updatePts, saveState, loadState).
THEOREM LocalPtsKeptCorrect == WebSpec => LocalPtsKept
  <1>1. ASSUME Base, [WebNext]_webVars
        PROVE  [localPts' >= localPts \/ (foreign /\ reloads' > reloads)]_webVars
    <2>. localPts \in Nat /\ (~ foreign => saved = localPts) /\ reloads \in Nat
      BY <1>1 DEF Base, WebTypeOK, Saved
    <2>1. CASE UNCHANGED localPts
      BY <2>1
    <2>2. CASE Reload
      <3>1. localPts' = saved /\ reloads' = reloads + 1
        BY <2>2 DEF Reload
      <3>. QED
        BY <3>1
    <2>3. ASSUME NEW s \in Conns, NEW m \in Msgs, HandleAck(s, m) PROVE localPts' >= localPts
      <3>1. spts[m] \in Nat
        BY <1>1 DEF Base, WebTypeOK, SyncTypeOK
      <3>2. UpdatePts(spts[m])
        BY <2>3 DEF HandleAck
      <3>. QED
        BY <3>1, <3>2 DEF UpdatePts, state
    <2>4. ASSUME NEW s \in Conns, NEW m \in Msgs, HandleIncoming(s, m) PROVE localPts' >= localPts
      <3>1. rpts[m] \in Nat
        BY <1>1 DEF Base, WebTypeOK, SyncTypeOK
      <3>. QED
        BY <2>4, <3>1 DEF HandleIncoming
    <2>5. ASSUME PageStep, ~ Reload,
                 ~ \E s \in Conns, m \in Msgs : HandleAck(s, m) \/ HandleIncoming(s, m)
          PROVE  UNCHANGED localPts
      BY <2>5 DEF PageStep, Login, Timer, Connect, OnOpen, Refused, OtherTabSaves, OnClose, Send,
                  client, state
    <2>6. ASSUME GatewayStep PROVE UNCHANGED localPts
      BY <2>6 DEF GatewayStep, PersistOutgoing, PersistIncoming, PersistFails, Pushed, Dropped,
                  Acked, NotAcked, client, state
    <2>7. ASSUME UNCHANGED pageVars \/ UNCHANGED webVars PROVE UNCHANGED localPts
      BY <2>7 DEF webVars, pageVars, client, state
    <2>. QED
      BY <1>1, <2>1, <2>2, <2>3, <2>4, <2>5, <2>6, <2>7 DEF WebNext, PageNext
  <1>. QED
    BY <1>1, BaseInvariance, PTL DEF WebSpec, LocalPtsKept

\* The ack that has marked a message sent from this page, by place.
LEMMA Places ==
  ASSUME Base, InOrder
  PROVE  /\ DOMAIN order = 1 .. Len(order) /\ Len(order) \in Nat /\ Done \in 0 .. Len(order)
         /\ \A i, j \in DOMAIN order :
               <<order[i], order[j]>> \in marked => j \in 1 .. Done /\ j <= i
         /\ \A i \in DOMAIN order : order[i] \in acked =>
               \E j \in 1 .. Done : <<order[i], order[j]>> \in marked
  <1>1. DOMAIN order = 1 .. Len(order) /\ Len(order) \in Nat /\ Done \in 0 .. Len(order)
    <2>1. Len(pendingAcks) \in Nat /\ Len(order) \in Nat /\ Len(pendingAcks) <= Len(order)
      BY DEF Base, WebTypeOK, InOrder, Pending
    <2>. QED
      BY <2>1 DEF Done, Base, WebTypeOK
  <1>2. ASSUME NEW i \in DOMAIN order, NEW m, <<order[i], m>> \in marked
        PROVE  \E j \in 1 .. Done : j \in DOMAIN order /\ j <= i /\ m = order[j]
    <2>1. order[i] \notin earlier
      BY DEF InOrder, SentOnce
    <2>2. PICK a \in DOMAIN order, j \in 1 .. Done : j <= a /\ <<order[i], m>> = <<order[a], order[j]>>
      BY <1>2, <2>1 DEF InOrder, Marks, ForLater
    <2>3. a = i
      BY <2>2 DEF InOrder, SentOnce
    <2>. QED
      BY <1>1, <2>2, <2>3
  <1>3. ASSUME NEW i \in DOMAIN order, NEW j \in DOMAIN order, <<order[i], order[j]>> \in marked
        PROVE  j \in 1 .. Done /\ j <= i
    <2>1. PICK l \in 1 .. Done : l \in DOMAIN order /\ l <= i /\ order[j] = order[l]
      BY <1>2, <1>3
    <2>2. l = j
      BY <2>1 DEF InOrder, SentOnce
    <2>. QED
      BY <2>1, <2>2
  <1>4. ASSUME NEW i \in DOMAIN order, order[i] \in acked
        PROVE  \E j \in 1 .. Done : <<order[i], order[j]>> \in marked
    BY <1>4 DEF InOrder, Marks, NoneWasted
  <1>. QED
    BY <1>1, <1>3, <1>4

\* If each message up to the i-th had an ack, each was marked by its own: the first
\* that was not would share the mark of one before it.
LEMMA AllAckedMeansOwn ==
  ASSUME Base, InOrder, NEW i \in DOMAIN order, \A j \in 1 .. i : order[j] \in acked
  PROVE  <<order[i], order[i]>> \in marked
  <1>. DEFINE B == {k \in 1 .. i : <<order[k], order[k]>> \notin marked}
              f == [k \in B |-> k]
  <1>1. DOMAIN order = 1 .. Len(order) /\ Len(order) \in Nat /\ i \in 1 .. Len(order)
    BY Places
  <1>2. IsFiniteSet(B) /\ f \in [B -> Int]
    <2>1. IsFiniteSet(1 .. i)
      BY <1>1, FS_Interval
    <2>2. B \subseteq 1 .. i
      OBVIOUS
    <2>3. IsFiniteSet(B)
      <3>. HIDE DEF B
      <3>. QED
        BY <2>1, <2>2, FS_Subset
    <2>. QED
      BY <2>3
  <1>3. ASSUME B # {} PROVE FALSE
    <2>1. PICK k \in B : \A n \in B : f[k] <= f[n]
      <3>. HIDE DEF B, f
      <3>. QED
        BY <1>2, <1>3, Least
    <2>2. k \in 1 .. i /\ k \in DOMAIN order /\ \A n \in B : k <= n
      BY <1>1, <2>1
    <2>3. PICK l \in 1 .. Done : <<order[k], order[l]>> \in marked
      BY <2>2, Places
    <2>4. l \in DOMAIN order /\ l <= k /\ l # k
      BY <1>1, <2>1, <2>2, <2>3, Places
    <2>5. l < k /\ l \in 1 .. i
      BY <1>1, <2>2, <2>4
    <2>6. <<order[l], order[l]>> \in marked
      BY <1>1, <2>2, <2>5
    <2>7. l < k <=> l < l
      BY <2>2, <2>3, <2>4, <2>6 DEF InOrder, Marks, InStep
    <2>. QED
      BY <1>1, <2>5, <2>7
  <1>. QED
    BY <1>1, <1>3

\* If the i-th was marked by its own ack, so was each before it: the last that was
\* not would be marked by the ack of one between it and the next.
LEMMA OwnMeansAllAcked ==
  ASSUME Base, InOrder, NEW i \in DOMAIN order, <<order[i], order[i]>> \in marked
  PROVE  \A j \in 1 .. (i - 1) : <<order[j], order[j]>> \in marked
  <1>. DEFINE B == {k \in 1 .. (i - 1) : <<order[k], order[k]>> \notin marked}
              f == [k \in B |-> k]
  <1>1. DOMAIN order = 1 .. Len(order) /\ Len(order) \in Nat /\ i \in 1 .. Len(order)
        /\ Done \in 0 .. Len(order) /\ i <= Done
    BY Places
  <1>2. IsFiniteSet(B) /\ f \in [B -> Int]
    <2>1. IsFiniteSet(1 .. (i - 1))
      BY <1>1, FS_Interval
    <2>2. B \subseteq 1 .. (i - 1)
      OBVIOUS
    <2>3. IsFiniteSet(B)
      <3>. HIDE DEF B
      <3>. QED
        BY <2>1, <2>2, FS_Subset
    <2>. QED
      BY <2>3
  <1>3. ASSUME B # {} PROVE FALSE
    <2>1. PICK b \in B : \A n \in B : f[n] <= f[b]
      <3>. HIDE DEF B, f
      <3>. QED
        BY <1>2, <1>3, Greatest
    <2>2. b \in 1 .. (i - 1) /\ \A n \in B : n <= b
      BY <2>1
    <2>3. b \in DOMAIN order /\ b \in 1 .. Done /\ b + 1 \in DOMAIN order /\ b + 1 \in 1 .. Done
      BY <1>1, <2>2
    <2>4. <<order[b + 1], order[b + 1]>> \in marked
      <3>1. CASE b + 1 = i
        BY <3>1
      <3>2. CASE b + 1 # i
        <4>1. b + 1 \in 1 .. (i - 1) /\ ~ (b + 1 <= b)
          BY <1>1, <2>2, <3>2
        <4>. QED
          BY <2>2, <4>1
      <3>. QED
        BY <3>1, <3>2
    <2>5. PICK a \in DOMAIN order : <<order[a], order[b]>> \in marked
      BY <2>3 DEF InOrder, Marks, EachMarked
    <2>6. b <= a
      BY <2>3, <2>5, Places
    <2>7. a < b + 1 <=> b < b + 1
      BY <2>3, <2>4, <2>5 DEF InOrder, Marks, InStep
    <2>8. a = b
      BY <1>1, <2>3, <2>6, <2>7
    <2>. QED
      BY <2>1, <2>5, <2>8
  <1>. QED
    BY <1>3

\* An ack marks the message it is for if, and only if, every message sent before it
\* from this page has had one, on a page on which the form was submitted in time
\* (handleAck, "Server acks arrive in send order").
THEOREM AckCorrect == WebSpec => []AckIsForIts
  <1>1. ASSUME Base, Ordered PROVE AckIsForIts
    <2>. SUFFICES ASSUME ~ crowded, NEW i \in DOMAIN order, order[i] \in acked
                  PROVE  <<order[i], order[i]>> \in marked
                            <=> \A j \in 1 .. (i - 1) : order[j] \in acked
      BY DEF AckIsForIts
    <2>1. InOrder
      BY <1>1 DEF Ordered
    <2>2. i \in 1 .. Len(order) /\ Len(order) \in Nat
      BY <1>1, <2>1, Places
    <2>3. ASSUME <<order[i], order[i]>> \in marked, NEW j \in 1 .. (i - 1) PROVE order[j] \in acked
      <3>1. <<order[j], order[j]>> \in marked
        BY <1>1, <2>1, <2>3, OwnMeansAllAcked
      <3>. QED
        BY <1>1, <3>1 DEF Base, Settled
    <2>4. ASSUME \A j \in 1 .. (i - 1) : order[j] \in acked PROVE <<order[i], order[i]>> \in marked
      <3>1. \A j \in 1 .. i : order[j] \in acked
        BY <2>2, <2>4
      <3>. QED
        BY <1>1, <2>1, <3>1, AllAckedMeansOwn
    <2>. QED
      BY <2>3, <2>4
  <1>. QED
    BY <1>1, BaseInvariance, OrderedInvariance, PTL
=============================================================================

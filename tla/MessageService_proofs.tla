----------------------- MODULE MessageService_proofs -----------------------
(***************************************************************************)
(* Theorems about MessageService, for every set of users, calls and        *)
(* connections and any number of retries and failovers.                    *)
(***************************************************************************)
EXTENDS MessageService_inv, MessageStream, TLAPS

----------------------------------------------------------------------------
(* Sequences.                                                              *)

\* A sequence of one element (what Init and a failover leave of data).
LEMMA OneElement ==
  ASSUME NEW S, NEW x \in S
  PROVE  /\ <<x>> \in Seq(S)
         /\ Len(<<x>>) = 1 /\ <<x>>[1] = x
  OBVIOUS

\* What Append adds and what it keeps (an INCR on the stream, a connection
\* on the pool's stack).
LEMMA Appended ==
  ASSUME NEW S, NEW q \in Seq(S), NEW x \in S
  PROVE  /\ Append(q, x) \in Seq(S)
         /\ Len(Append(q, x)) = Len(q) + 1
         /\ Append(q, x)[Len(q) + 1] = x
         /\ \A i \in 1..Len(q) : Append(q, x)[i] = q[i]
  OBVIOUS

\* The pool's stack without the connection it hands out.
LEMMA AllButLast ==
  ASSUME NEW S, NEW q \in Seq(S), q # <<>>
  PROVE  SubSeq(q, 1, Len(q) - 1) \in Seq(S)
  OBVIOUS

\* The stream without the copy the replica has moved past.
LEMMA NotFirst ==
  ASSUME NEW S, NEW q \in Seq(S), Len(q) > 0
  PROVE  /\ Tail(q) \in Seq(S) /\ Len(Tail(q)) = Len(q) - 1
         /\ \A i \in 1..(Len(q) - 1) : Tail(q)[i] = q[i + 1]
  OBVIOUS

----------------------------------------------------------------------------
(* Type correctness.                                                       *)

\* The service starts with every variable in its range.
LEMMA TypeInit == Init => TypeOK
  <1>. SUFFICES ASSUME Init PROVE TypeOK
    OBVIOUS
  <1>1. data \in Seq(Counters) /\ Len(data) > 0 /\ Len(data) = 1
    BY OneElement DEF Init, Counters
  <1>. QED
    BY <1>1 DEF Init, TypeOK, Commands, Answers

\* The primary's counters are counters.
LEMMA TopType == TypeOK => Top \in Counters /\ \A u \in Users : Top[u] \in Nat
  BY DEF TypeOK, Top, Counters

\* Every copy of the counters that is still around is one, the ones that
\* connections wait for included.
LEMMA DataType ==
  TypeOK => /\ Len(data) \in Nat \ {0} /\ data \in Seq(Counters)
            /\ \A i \in 1..Len(data) : data[i] \in Counters
            /\ \A i \in 1..Len(data), u \in Users : data[i][u] \in Nat
            /\ \A c \in Conns : behind[c] \in Nat /\ behind[c] + 1 \in 1..Len(data)
  <1>1. TypeOK => \A i \in 1..Len(data) : data[i] \in Counters
    BY DEF TypeOK
  <1>2. TypeOK => \A i \in 1..Len(data), u \in Users : data[i][u] \in Nat
    BY <1>1 DEF Counters
  <1>3. TypeOK => \A c \in Conns : behind[c] \in Nat /\ behind[c] + 1 \in 1..Len(data)
    BY DEF TypeOK
  <1>4. TypeOK => Len(data) \in Nat \ {0} /\ data \in Seq(Counters)
    BY DEF TypeOK
  <1>. QED
    BY <1>1, <1>2, <1>3, <1>4

\* An INCR keeps the stream and the acknowledgements awaited in range.
LEMMA TypeIncr ==
  ASSUME TypeOK, NEW u \in Users, NEW c \in Conns, Incr(u, c)
  PROVE  /\ data' \in Seq(Counters) /\ Len(data') > 0
         /\ Len(data') = Len(data) + 1
         /\ behind' \in [Conns -> 0..(Len(data') - 1)]
         /\ Top[u] + 1 \in Nat
  <1>1. Top \in Counters /\ Len(data) \in Nat
    BY DEF TypeOK, Top
  <1>2. [Top EXCEPT ![u] = @ + 1] \in Counters /\ Top[u] + 1 \in Nat
    BY <1>1 DEF Counters
  <1>3. /\ data' \in Seq(Counters) /\ Len(data') > 0
        /\ Len(data') = Len(data) + 1
    BY <1>2, Appended DEF TypeOK, Incr
  <1>4. /\ behind' = [behind EXCEPT ![c] = Len(data)]
        /\ behind \in [Conns -> 0..(Len(data) - 1)]
    BY DEF TypeOK, Incr
  <1>. QED
    BY <1>1, <1>2, <1>3, <1>4

\* Sending a command keeps the pool and the call's flags in range.
LEMMA TypeSend ==
  ASSUME TypeOK, NEW h \in Calls, NEW c \in Conns, NEW f \in BOOLEAN, Send(h, c, f)
  PROVE  /\ idle' \in Seq(Conns)
         /\ conn' \in [Calls -> Conns \cup {NoConn}]
         /\ via' \in [Calls -> Conns \cup {NoConn}]
  <1>1. idle' \in Seq(Conns)
    <2>1. CASE idle # <<>>
      <3>1. idle' = SubSeq(idle, 1, Len(idle) - 1)
        BY <2>1 DEF Send, Checkout
      <3>2. idle \in Seq(Conns)
        BY DEF TypeOK
      <3>. QED
        BY <2>1, <3>1, <3>2, AllButLast
    <2>2. CASE idle = <<>>
      BY <2>2 DEF TypeOK, Send, Checkout
    <2>. QED
      BY <2>1, <2>2
  <1>. QED
    BY <1>1 DEF TypeOK, Send

\* What the death of the service leaves of each call, its INSERTs on their way apart.
LEMMA Crashed ==
  ASSUME Crash
  PROVE  \E late \in SUBSET {h \in Calls : pc[h] = "insert"} : \A h \in Calls :
           /\ pc'[h] = IF h \in late THEN "adrift" ELSE IF Running(h) THEN "done" ELSE pc[h]
           /\ rpts'[h] = IF Running(h) /\ h \notin late THEN 0 ELSE rpts[h]
           /\ spts'[h] = IF Running(h) /\ h \notin late THEN 0 ELSE spts[h]
  BY DEF Crash

\* No step of a call, of Redis or of the pool takes a variable out of range.
LEMMA TypeStep == TypeOK /\ [Next]_vars => TypeOK'
  <1>. SUFFICES ASSUME TypeOK, [Next]_vars PROVE TypeOK'
    OBVIOUS
  <1>. USE DEF Commands, Answers
  <1>1. ASSUME NEW h \in Calls, Call(h) PROVE TypeOK'
    BY <1>1 DEF TypeOK, Call, redis, pool, call
  <1>2. ASSUME NEW h \in Calls, NEW c \in Conns, IncrReceiver(h, c) PROVE TypeOK'
    <2>1. to[h] \in Users
      BY DEF TypeOK
    <2>2. Send(h, c, TRUE) /\ Incr(to[h], c)
      BY <1>2 DEF IncrReceiver
    <2>. QED
      BY <1>2, <2>1, <2>2, TypeSend, TypeIncr DEF TypeOK, IncrReceiver, Incr
  <1>3. ASSUME NEW h \in Calls, NEW c \in Conns, IncrSender(h, c) PROVE TypeOK'
    <2>1. from[h] \in Users
      BY DEF TypeOK
    <2>2. Send(h, c, FALSE) /\ Incr(from[h], c)
      BY <1>3 DEF IncrSender
    <2>. QED
      BY <1>3, <2>1, <2>2, TypeSend, TypeIncr DEF TypeOK, IncrSender, Incr
  <1>4. ASSUME NEW h \in Calls, NEW c \in Conns, Wait(h, c) PROVE TypeOK'
    <2>1. Send(h, c, FALSE)
      BY <1>4 DEF Wait
    <2>. QED
      BY <1>4, <2>1, TypeSend DEF TypeOK, Wait, redis, call
  <1>5. ASSUME NEW h \in Calls, IncrReply(h) PROVE TypeOK'
    BY <1>5 DEF TypeOK, IncrReply, Release, redis, call
  <1>6. ASSUME NEW h \in Calls, WaitAcked(h) PROVE TypeOK'
    BY <1>6 DEF TypeOK, WaitAcked, Release, redis, call
  <1>7. ASSUME NEW h \in Calls, WaitTimedOut(h) PROVE TypeOK'
    BY <1>7 DEF TypeOK, WaitTimedOut, Release, Return, redis
  <1>8. ASSUME NEW h \in Calls, RedisError(h) PROVE TypeOK'
    BY <1>8 DEF TypeOK, RedisError, Return, redis, pool
  <1>9. ASSUME NEW h \in Calls PROVE TypeOK => NewRow(h) \in Row
    BY DEF TypeOK, NewRow, Row
  <1>10. ASSUME NEW h \in Calls, Insert(h) \/ LateInsert(h) PROVE TypeOK'
    <2>1. CASE Insert(h)
      BY <1>9, <2>1 DEF TypeOK, Insert, redis, pool, call
    <2>2. CASE LateInsert(h)
      BY <1>9, <2>2 DEF TypeOK, LateInsert, redis, pool
    <2>. QED
      BY <1>10, <2>1, <2>2
  <1>11. ASSUME NEW h \in Calls, InsertOk(h) \/ InsertDuplicate(h) \/ InsertResent(h)
         PROVE  TypeOK'
    <2>1. CASE InsertOk(h)
      BY <2>1 DEF TypeOK, InsertOk, Return, redis, pool
    <2>2. CASE InsertDuplicate(h)
      BY <2>2 DEF TypeOK, InsertDuplicate, Return, redis, pool
    <2>3. CASE InsertResent(h)
      BY <2>3 DEF TypeOK, InsertResent, Return, redis, pool
    <2>. QED
      BY <1>11, <2>1, <2>2, <2>3
  <1>12. ASSUME NEW h \in Calls, InsertError(h) PROVE TypeOK'
    <2>1. CASE Return(h, "internal")
      BY <1>12, <2>1 DEF TypeOK, InsertError, Return, redis, pool
    <2>2. CASE LeaveAdrift(h, "internal")
      BY <1>12, <2>2 DEF TypeOK, InsertError, LeaveAdrift, redis, pool, call
    <2>. QED
      BY <1>12, <2>1, <2>2 DEF InsertError
  <1>13. ASSUME NEW h \in Calls, ReplyLost(h) PROVE TypeOK'
    BY <1>13 DEF TypeOK, ReplyLost, Forget, redis, call
  <1>14. CASE Replicate
    <2>1. /\ Tail(data) \in Seq(Counters) 
          /\ Len(Tail(data)) = Len(data) - 1
      BY <1>14, NotFirst DEF TypeOK, Replicate
    <2>2. behind' \in [Conns -> 0..(Len(data') - 1)]
      BY <1>14, <2>1 DEF TypeOK, Replicate
    <2>. QED
      BY <1>14, <2>1, <2>2 DEF TypeOK, Replicate, call
  <1>15. CASE Failover
    <2>1. data[1] \in Counters
      BY DEF TypeOK
    <2>2. data' \in Seq(Counters) /\ Len(data') > 0 /\ Len(data') = 1
      BY <1>15, <2>1, OneElement DEF Failover, Survivors
    <2>3. behind' \in [Conns -> 0..(Len(data') - 1)]
      BY <1>15, <2>2 DEF Failover
    <2>4. failovers' \in Nat
      BY <1>15 DEF TypeOK, Failover
    <2>5. linked' \in BOOLEAN
      BY <1>15 DEF Failover
    <2>6. tries' \in [Calls -> Nat]
      BY <1>15 DEF TypeOK, Failover
    <2>7. /\ idle' \in Seq(Conns)
          /\ conn' \in [Calls -> Conns \cup {NoConn}]
          /\ via' \in [Calls -> Conns \cup {NoConn}]
      BY <1>15 DEF Failover
    <2>8. UNCHANGED <<pc, from, to, rpts, spts, rows, answer, sound, earlier, resent>>
      BY <1>15 DEF Failover, call
    <2>. QED
      BY <2>2, <2>3, <2>4, <2>5, <2>6, <2>7, <2>8 DEF TypeOK
  <1>16. CASE Rejoin
    <2>1. Top \in Counters
      BY DEF TypeOK, Top
    <2>. QED
      BY <1>16, <2>1 DEF TypeOK, Rejoin, call
  <1>17. CASE Crash
    BY <1>17 DEF TypeOK, Crash, Running, redis
  <1>18. CASE UNCHANGED vars
    BY <1>18 DEF TypeOK, vars, redis, pool, call
  <1>. QED
    BY <1>1, <1>2, <1>3, <1>4, <1>5, <1>6, <1>7, <1>8, <1>10, <1>11, <1>12,
       <1>13, <1>14, <1>15, <1>16, <1>17, <1>18 DEF Next, Step

\* Every reachable state is of the declared types: the replica is never ahead
\* of the primary, and no connection waits for a write nobody made.
THEOREM TypeCorrect == Spec => []TypeOK
  BY TypeInit, TypeStep, PTL DEF Spec
----------------------------------------------------------------------------
(* Control.                                                                *)

\* Before the first call, no call holds anything and the table is empty.
LEMMA ControlInit == Init => Control
  BY DEF Init, Control, CallNumbers, CallFlags, RowControl, EarlierAnswered,
         AnswerIsTrue, Commands

\* Every step keeps what a call's place in PersistMessage says of its numbers,
\* flags, row and answer.
LEMMA ControlStep == TypeOK /\ Control /\ [Next]_vars => Control'
  <1>. SUFFICES ASSUME TypeOK, Control, [Next]_vars PROVE Control'
    OBVIOUS
  <1>. USE DEF Control, CallNumbers, CallFlags, RowControl, EarlierAnswered,
              AnswerIsTrue, Commands, Answers, NewRow
  <1>1. ASSUME NEW h \in Calls, Call(h) PROVE Control'
    <2>1. CallNumbers'
      BY <1>1 DEF TypeOK, Call, redis, pool, call
    <2>2. CallFlags'
      BY <1>1 DEF TypeOK, Call, redis, pool, call
    <2>3. RowControl'
      BY <1>1 DEF TypeOK, Call, redis, pool, call
    <2>4. EarlierAnswered'
      BY <1>1 DEF TypeOK, Call, redis, pool, call
    <2>6. AnswerIsTrue'
      BY <1>1 DEF TypeOK, Call, redis, pool, call
    <2>. QED
      BY <2>1, <2>2, <2>3, <2>4, <2>6
  <1>2. ASSUME NEW h \in Calls, NEW c \in Conns, IncrReceiver(h, c) PROVE Control'
    <2>1. CallNumbers'
      <3>1. \A g \in Calls : g # h => rpts'[g] = rpts[g] /\ conn'[g] = conn[g]
        BY <1>2 DEF TypeOK, IncrReceiver, Send
      <3>2. rpts'[h] > 0 /\ pc[h] = "incrReceiver" /\ UNCHANGED <<pc, spts>>
        BY <1>2, TopType DEF TypeOK, IncrReceiver
      <3>. QED
        BY <3>1, <3>2
    <2>2. CallFlags'
      BY <1>2, TopType DEF TypeOK, IncrReceiver, Send
    <2>3. RowControl'
      BY <1>2, TopType DEF TypeOK, IncrReceiver, Send
    <2>4. EarlierAnswered'
      BY <1>2, TopType DEF TypeOK, IncrReceiver, Send
    <2>6. AnswerIsTrue'
      BY <1>2, TopType DEF TypeOK, IncrReceiver, Send
    <2>. QED
      BY <2>1, <2>2, <2>3, <2>4, <2>6
  <1>3. ASSUME NEW h \in Calls, NEW c \in Conns, IncrSender(h, c) PROVE Control'
    <2>1. CallNumbers'
      <3>1. \A g \in Calls : g # h => spts'[g] = spts[g] /\ conn'[g] = conn[g]
        BY <1>3 DEF TypeOK, IncrSender, Send
      <3>2. spts'[h] > 0 /\ pc[h] = "incrSender" /\ UNCHANGED <<pc, rpts>>
        BY <1>3, TopType DEF TypeOK, IncrSender
      <3>. QED
        BY <3>1, <3>2
    <2>2. CallFlags'
      BY <1>3, TopType DEF TypeOK, IncrSender, Send
    <2>3. RowControl'
      BY <1>3, TopType DEF TypeOK, IncrSender, Send
    <2>4. EarlierAnswered'
      BY <1>3, TopType DEF TypeOK, IncrSender, Send
    <2>6. AnswerIsTrue'
      BY <1>3, TopType DEF TypeOK, IncrSender, Send
    <2>. QED
      BY <2>1, <2>2, <2>3, <2>4, <2>6
  <1>4. ASSUME NEW h \in Calls, NEW c \in Conns, Wait(h, c) PROVE Control'
    BY <1>4 DEF TypeOK, Wait, Send, call
  <1>5. ASSUME NEW h \in Calls, IncrReply(h) PROVE Control'
    BY <1>5 DEF TypeOK, IncrReply, Release, call
  <1>6. ASSUME NEW h \in Calls, WaitAcked(h) PROVE Control'
    BY <1>6 DEF TypeOK, WaitAcked, Release, redis, call
  <1>7. ASSUME NEW h \in Calls, WaitTimedOut(h) PROVE Control'
    BY <1>7 DEF TypeOK, WaitTimedOut, Release, Return, redis
  <1>8. ASSUME NEW h \in Calls, RedisError(h) PROVE Control'
    BY <1>8 DEF TypeOK, RedisError, Return, redis, pool
  <1>9. ASSUME NEW h \in Calls, Insert(h) PROVE Control'
    <2>1. NewRow(h)' = NewRow(h) /\ \A g \in Calls : NewRow(g)' = NewRow(g)
      BY <1>9 DEF Insert, call
    <2>2. CallNumbers' /\ CallFlags'
      BY <1>9 DEF TypeOK, Insert, call
    <2>3. RowControl'
      <3>1. rows' = rows \cup {NewRow(h)} /\ NewRow(h).id = h /\ pc' = [pc EXCEPT ![h] = "inserted"]
        BY <1>9 DEF Insert
      <3>2. \A g \in rows : g.id # h
        BY <1>9 DEF Insert
      <3>3. NewRow(h).rpts > 0 /\ NewRow(h).spts > 0
        BY <1>9 DEF Insert
      <3>4. \A g \in rows : g.id \in Calls
        BY DEF TypeOK, Row
      <3>5. \A q \in rows' : pc'[q.id] \in {"inserted", "done"} /\ q.rpts > 0 /\ q.spts > 0
        BY <3>1, <3>2, <3>3, <3>4 DEF TypeOK
      <3>6. \A q, t \in rows' : q.id = t.id => q = t
        BY <3>1, <3>2
      <3>7. \A g \in Calls : pc'[g] = "inserted" => NewRow(g)' \in rows'
        BY <2>1, <3>1 DEF TypeOK
      <3>. QED
        BY <3>5, <3>6, <3>7
    <2>4. EarlierAnswered'
      BY <1>9 DEF Insert
    <2>5. AnswerIsTrue'
      <3>1. UNCHANGED <<answer, resent>> /\ rows' = rows \cup {NewRow(h)} /\ answer[h] = "none"
        BY <1>9 DEF Insert
      <3>2. NewRow(h).id = h
        OBVIOUS
      <3>. QED
        BY <2>1, <3>1, <3>2
    <2>. QED
      BY <2>2, <2>3, <2>4, <2>5
  <1>10. ASSUME NEW h \in Calls, InsertOk(h) \/ InsertResent(h) PROVE Control'
    <2>1. /\ UNCHANGED <<rows, sound, earlier, conn>>
          /\ pc[h] = "inserted" /\ pc' = [pc EXCEPT ![h] = "done"]
          /\ \/ Return(h, "ok") /\ resent' = resent
             \/ Return(h, "unavailable") /\ resent' = resent \cup {h}
      BY <1>10 DEF InsertOk, InsertResent, Return
    <2>2. /\ \A g \in Calls \ {h} : /\ pc'[g] = pc[g] /\ answer'[g] = answer[g]
                                    /\ rpts'[g] = rpts[g] /\ spts'[g] = spts[g]
          /\ pc'[h] = "done" /\ UNCHANGED <<from, to>>
          /\ \/ /\ answer'[h] = "ok" /\ resent' = resent
                /\ rpts'[h] = rpts[h] /\ spts'[h] = spts[h]
             \/ answer'[h] = "unavailable" /\ resent' = resent \cup {h}
      BY <2>1 DEF TypeOK, Return
    <2>3. CallNumbers' /\ CallFlags'
      BY <2>1, <2>2
    <2>4. RowControl'
      <3>1. \A q \in rows : q.id \in Calls
        BY DEF TypeOK, Row
      <3>. QED
        BY <2>1, <2>2, <3>1
    <2>5. EarlierAnswered'
      BY <2>1, <2>2 DEF TypeOK
    <2>6. AnswerIsTrue'
      BY <2>1, <2>2
    <2>. QED
      BY <2>3, <2>4, <2>5, <2>6
  <1>18. ASSUME NEW h \in Calls, InsertDuplicate(h) PROVE Control'
    BY <1>18 DEF TypeOK, InsertDuplicate, Return, redis, pool
  <1>11. ASSUME NEW h \in Calls, InsertError(h) PROVE Control'
    <2>1. CASE Return(h, "internal")
      BY <1>11, <2>1 DEF TypeOK, InsertError, Return, pool
    <2>2. CASE pc[h] = "insert" /\ LeaveAdrift(h, "internal")
      BY <1>11, <2>2 DEF TypeOK, InsertError, LeaveAdrift, call
    <2>. QED
      BY <1>11, <2>1, <2>2 DEF InsertError
  <1>19. ASSUME NEW h \in Calls, LateInsert(h) PROVE Control'
    <2>1. /\ rows' = rows \cup {NewRow(h)} /\ NewRow(h).id = h
          /\ pc[h] = "adrift" /\ pc' = [pc EXCEPT ![h] = "done"]
          /\ answer[h] \in {"internal", "lost"}
          /\ UNCHANGED <<answer, resent, sound, earlier, conn, from, to>>
          /\ \A g \in Calls \ {h} : rpts'[g] = rpts[g] /\ spts'[g] = spts[g]
      BY <1>19 DEF LateInsert, TypeOK
    <2>2. \A g \in Calls \ {h} : NewRow(g)' = NewRow(g) /\ pc'[g] = pc[g]
      BY <2>1 DEF TypeOK
    <2>3. CallNumbers' /\ CallFlags'
      BY <2>1, <2>2 DEF TypeOK
    <2>4. \A q \in rows : q.id # h /\ q.id \in Calls
      BY <2>1 DEF TypeOK, Row
    <2>5. RowControl'
      <3>1. NewRow(h).rpts > 0 /\ NewRow(h).spts > 0
        BY <2>1
      <3>2. pc'[h] = "done"
        BY <2>1 DEF TypeOK
      <3>3. \A q \in rows' : pc'[q.id] \in {"inserted", "done"} /\ q.rpts > 0 /\ q.spts > 0
        BY <2>1, <2>2, <2>4, <3>1, <3>2
      <3>4. \A q, t \in rows' : q.id = t.id => q = t
        BY <2>1, <2>4
      <3>5. \A g \in Calls : pc'[g] = "inserted" => NewRow(g)' \in rows'
        BY <2>1, <2>2, <3>2
      <3>. QED
        BY <3>3, <3>4, <3>5
    <2>6. EarlierAnswered' /\ AnswerIsTrue'
      BY <2>1, <2>2, <2>4
    <2>. QED
      BY <2>3, <2>5, <2>6
  <1>12. ASSUME NEW h \in Calls, ReplyLost(h) PROVE Control'
    BY <1>12 DEF TypeOK, ReplyLost, redis, call
  <1>13. CASE Replicate
    BY <1>13 DEF TypeOK, Replicate, call
  <1>14. CASE Failover
    BY <1>14 DEF TypeOK, Failover, call
  <1>15. CASE Rejoin
    BY <1>15 DEF TypeOK, Rejoin, call
  <1>16. CASE Crash
    <2>1. PICK late \in SUBSET {h \in Calls : pc[h] = "insert"} :
            \A h \in Calls :
              /\ pc'[h] = IF h \in late THEN "adrift" ELSE IF Running(h) THEN "done" ELSE pc[h]
              /\ rpts'[h] = IF Running(h) /\ h \notin late THEN 0 ELSE rpts[h]
              /\ spts'[h] = IF Running(h) /\ h \notin late THEN 0 ELSE spts[h]
      BY <1>16, Crashed
    <2>2. /\ \A h \in Calls : answer'[h] = IF Running(h) THEN "lost" ELSE answer[h]
          /\ \A h \in Calls : conn'[h] = NoConn
          /\ UNCHANGED <<from, to, rows, sound, earlier, resent>>
      BY <1>16 DEF Crash
    <2>3. CallNumbers' /\ CallFlags'
      BY <2>1, <2>2 DEF TypeOK, Running
    <2>4. RowControl'
      <3>1. ASSUME NEW h \in Calls, pc[h] \in {"inserted", "done"}
            PROVE  pc'[h] \in {"inserted", "done"} /\ (pc'[h] = "inserted" => pc[h] = "inserted")
        BY <2>1, <3>1 DEF TypeOK, Running
      <3>2. ASSUME NEW h \in Calls, pc'[h] = "inserted"
            PROVE  pc[h] = "inserted" /\ UNCHANGED <<rpts[h], spts[h]>>
        BY <2>1, <3>2 DEF TypeOK, Running
      <3>3. ASSUME NEW h \in Calls, pc'[h] = "inserted" PROVE NewRow(h)' = NewRow(h)
        BY <2>2, <3>2, <3>3 DEF NewRow
      <3>. QED
        BY <2>2, <3>1, <3>2, <3>3 DEF TypeOK, Row
    <2>5. EarlierAnswered'
      BY <2>2 DEF TypeOK, Running
    <2>6. AnswerIsTrue'
      BY <2>1, <2>2 DEF TypeOK, Running
    <2>. QED
      BY <2>3, <2>4, <2>5, <2>6
  <1>17. CASE UNCHANGED vars
    BY <1>17 DEF TypeOK, vars, redis, pool, call
  <1>. QED
    BY <1>1, <1>2, <1>3, <1>4, <1>5, <1>6, <1>7, <1>8, <1>9, <1>10, <1>11,
       <1>12, <1>13, <1>14, <1>15, <1>16, <1>17, <1>18, <1>19 DEF Next, Step
----------------------------------------------------------------------------
(* Replication.                                                            *)

\* An INCR puts one more copy of the counters at the end of the stream, above
\* every copy before it.
LEMMA IncrData ==
  ASSUME TypeOK, Growing, NEW u \in Users, NEW c \in Conns, Incr(u, c)
  PROVE  /\ Len(data') = Len(data) + 1
         /\ \A i \in 1..Len(data) : data'[i] = data[i]
         /\ data'[Len(data) + 1][u] = Top[u] + 1
         /\ \A i \in 1..Len(data), v \in Users : data[i][v] <= data'[Len(data) + 1][v]
         /\ behind'[c] + 1 = Len(data) + 1
         /\ \A d \in Conns \ {c} : behind'[d] = behind[d]
         /\ Growing'
         /\ \A i \in 1..Len(data') : \E j \in 1..Len(data) :
                \A v \in Users : data[j][v] <= data'[i][v]
  <1>. DEFINE new == [Top EXCEPT ![u] = @ + 1]
  <1>1. Top \in Counters /\ Len(data) \in Nat \ {0} /\ data \in Seq(Counters)
    BY TopType DEF TypeOK
  <1>2. /\ new \in Counters /\ new[u] = Top[u] + 1
        /\ \A v \in Users : Top[v] \in Nat /\ new[v] \in Nat /\ Top[v] <= new[v]
    BY <1>1 DEF Counters
  <1>3. data' = Append(data, new)
    BY DEF Incr
  <1>. HIDE DEF new
  <1>4. /\ Len(data') = Len(data) + 1 /\ data'[Len(data) + 1] = new
        /\ \A i \in 1..Len(data) : data'[i] = data[i]
    BY <1>1, <1>2, <1>3, Appended
  <1>5. \A i \in 1..Len(data), v \in Users : data[i][v] \in Nat /\ data[i][v] <= Top[v]
    BY <1>1 DEF Growing, Top, Counters
  <1>6. \A i \in 1..Len(data), v \in Users : data[i][v] <= new[v]
    BY <1>2, <1>5
  <1>7. behind'[c] = Len(data) /\ \A d \in Conns \ {c} : behind'[d] = behind[d]
    BY DEF TypeOK, Incr
  <1>8. Growing'
    <2>. SUFFICES ASSUME NEW i \in 1..(Len(data) + 1), NEW j \in 1..(Len(data) + 1),
                         i <= j, NEW v \in Users
                  PROVE  data'[i][v] <= data'[j][v]
      BY <1>4 DEF Growing
    <2>1. CASE j \in 1..Len(data)
      BY <1>1, <1>4, <2>1 DEF Growing
    <2>2. CASE j = Len(data) + 1 /\ i \in 1..Len(data)
      BY <1>4, <1>6, <2>2
    <2>3. CASE j = Len(data) + 1 /\ i = Len(data) + 1
      BY <1>2, <1>4, <2>3
    <2>. QED
      BY <1>1, <2>1, <2>2, <2>3
  <1>9. ASSUME NEW i \in 1..Len(data')
        PROVE  \E j \in 1..Len(data) : \A v \in Users : data[j][v] <= data'[i][v]
    <2>1. CASE i \in 1..Len(data)
      BY <1>4, <1>5, <2>1
    <2>2. CASE i = Len(data) + 1
      BY <1>1, <1>4, <1>6, <2>2
    <2>. QED
      BY <1>1, <1>4, <2>1, <2>2
  <1>. QED
    BY <1>2, <1>4, <1>6, <1>7, <1>8, <1>9

\* A number stays durable when each copy left is at least one there was.
LEMMA DurableKept ==
  ASSUME TypeOK, TypeOK', NEW u \in Users, NEW n \in Nat, Durable(u, n),
         \A i \in 1..Len(data') : \E j \in 1..Len(data) :
             \A v \in Users : data[j][v] <= data'[i][v]
  PROVE  \A i \in 1..Len(data') : data'[i][u] >= n
  <1>. SUFFICES ASSUME NEW i \in 1..Len(data') PROVE data'[i][u] >= n
    OBVIOUS
  <1>1. PICK j \in 1..Len(data) : \A v \in Users : data[j][v] <= data'[i][v]
    OBVIOUS
  <1>2. data[j] \in Counters /\ data'[i] \in Counters
    BY DEF TypeOK
  <1>3. data[j][u] \in Nat /\ data'[i][u] \in Nat
    BY <1>2 DEF Counters
  <1>. QED
    BY <1>1, <1>3 DEF Durable

\* What the steps that change the counters have in common.
LEMMA SoundKept ==
  ASSUME TypeOK, TypeOK', Control, SoundCallIsDurable, SoundWaitIsDurable,
         \A i \in 1..Len(data') : \E j \in 1..Len(data) :
             \A v \in Users : data[j][v] <= data'[i][v],
         UNCHANGED <<from, to, sound, rows>>,
         \A h \in Calls : sound[h] => rpts'[h] = rpts[h] /\ spts'[h] = spts[h]
  PROVE  SoundCallIsDurable' /\ SoundWaitIsDurable'
  <1>1. ASSUME NEW h \in Calls, sound[h]
        PROVE  Durable(to[h], rpts[h])' /\ Durable(from[h], spts[h])'
    <2>1. /\ Durable(to[h], rpts[h]) /\ Durable(from[h], spts[h])
          /\ to[h] \in Users /\ from[h] \in Users
          /\ rpts[h] \in Nat /\ spts[h] \in Nat
      BY <1>1 DEF SoundCallIsDurable, TypeOK
    <2>. QED
      BY <1>1, <2>1, DurableKept DEF Durable
  <1>2. ASSUME NEW r \in rows, sound[r.id]
        PROVE  Durable(r.receiver, r.rpts)' /\ Durable(r.sender, r.spts)'
    <2>1. /\ Durable(r.receiver, r.rpts) /\ Durable(r.sender, r.spts)
          /\ r.receiver \in Users /\ r.sender \in Users
          /\ r.rpts \in Nat /\ r.spts \in Nat
      BY <1>2 DEF SoundWaitIsDurable, TypeOK, Row
    <2>. QED
      BY <2>1, DurableKept DEF Durable
  <1>. QED
    BY <1>1, <1>2 DEF SoundCallIsDurable, SoundWaitIsDurable

\* What the steps that leave the counters alone have in common.
LEMMA SoundSame ==
  ASSUME TypeOK, SoundCallIsDurable, UNCHANGED <<data, from, to>>,
         \A h \in Calls : sound'[h] =>
             sound[h] /\ rpts'[h] \in {0, rpts[h]} /\ spts'[h] \in {0, spts[h]}
  PROVE  SoundCallIsDurable'
  <1>1. \A u \in Users : Durable(u, 0)
    BY DEF TypeOK, Durable, Counters
  <1>. SUFFICES ASSUME NEW h \in Calls, sound'[h]
                PROVE  Durable(to[h], rpts'[h]) /\ Durable(from[h], spts'[h])
    BY DEF SoundCallIsDurable, Durable
  <1>. QED
    BY <1>1 DEF TypeOK, SoundCallIsDurable

\* A row inserted by a call is as durable as the call's numbers.
LEMMA SoundInserted ==
  ASSUME TypeOK, SoundCallIsDurable, SoundWaitIsDurable, NEW h \in Calls,
         rows' \subseteq rows \cup {NewRow(h)}, UNCHANGED <<data, sound>>
  PROVE  SoundWaitIsDurable'
  <1>. SUFFICES ASSUME NEW r \in rows', sound[r.id]
                PROVE  Durable(r.receiver, r.rpts) /\ Durable(r.sender, r.spts)
    BY DEF SoundWaitIsDurable, Durable
  <1>1. CASE r \in rows
    BY <1>1 DEF SoundWaitIsDurable
  <1>2. CASE r = NewRow(h)
    BY <1>2 DEF SoundCallIsDurable, NewRow
  <1>. QED
    BY <1>1, <1>2

\* At the start the replica is level with the primary.
LEMMA ReplicationInit == Init => Replication
  BY OneElement DEF Init, Replication, Growing, ViaIsConn, ViaCarries,
     SoundCallIsDurable, SoundWaitIsDurable

\* Every step keeps the copies of the counters in order, and each call whose
\* commands shared one connection below what that connection waits for.
LEMMA ReplicationStep == TypeOK /\ Control /\ Replication /\ [Next]_vars => Replication'
  <1>. SUFFICES ASSUME TypeOK, Control, Replication, [Next]_vars PROVE Replication'
    OBVIOUS
  <1>1. TypeOK'
    BY TypeStep
  <1>. USE DEF Replication
  <1>2. ASSUME NEW h \in Calls, Call(h) PROVE Replication'
    <2>1. Growing'
      BY <1>2 DEF TypeOK, Growing, Call, redis, pool, call
    <2>2. ViaIsConn'
      BY <1>2 DEF TypeOK, ViaIsConn, Call, redis, pool, call
    <2>3. ViaCarries'
      BY <1>2 DEF TypeOK, ViaCarries, Call, redis, pool, call
    <2>4. SoundCallIsDurable'
      BY <1>2 DEF TypeOK, SoundCallIsDurable, Call, redis, pool, call, Durable, Control, CallFlags, RowControl, Commands, Row
    <2>5. SoundWaitIsDurable'
      BY <1>2 DEF TypeOK, SoundWaitIsDurable, Call, redis, pool, call, Durable, Control, CallFlags, RowControl, Commands, Row
    <2>. QED
      BY <2>1, <2>2, <2>3, <2>4, <2>5
  <1>3. ASSUME NEW h \in Calls, NEW c \in Conns, IncrReceiver(h, c) PROVE Replication'
    <2>1. to[h] \in Users /\ Send(h, c, TRUE) /\ Incr(to[h], c)
      BY <1>3 DEF TypeOK, IncrReceiver
    <2>2. /\ Len(data') = Len(data) + 1
          /\ \A i \in 1..Len(data) : data'[i] = data[i]
          /\ data'[Len(data) + 1][to[h]] = Top[to[h]] + 1
          /\ \A i \in 1..Len(data), v \in Users : data[i][v] <= data'[Len(data) + 1][v]
          /\ behind'[c] + 1 = Len(data) + 1
          /\ \A d \in Conns \ {c} : behind'[d] = behind[d]
          /\ Growing'
          /\ \A i \in 1..Len(data') : \E j \in 1..Len(data) :
                 \A v \in Users : data[j][v] <= data'[i][v]
      BY <2>1, IncrData
    <2>3. ViaIsConn'
      BY <1>3, <2>1 DEF TypeOK, ViaIsConn, IncrReceiver, Send
    <2>4. ViaCarries'
      <3>. SUFFICES ASSUME NEW g \in Calls, via'[g] # NoConn
                    PROVE  /\ data'[behind'[via'[g]] + 1][to[g]] >= rpts'[g]
                           /\ data'[behind'[via'[g]] + 1][from[g]] >= spts'[g]
        BY <1>3 DEF ViaCarries, IncrReceiver
      <3>. DEFINE d == via'[g]
      <3>1. d \in Conns /\ behind[d] + 1 \in 1..Len(data)
        <4>1. d \in Conns
          BY <1>1 DEF TypeOK
        <4>. QED
          BY <4>1, DataType
      <3>2. \A i \in 1..Len(data), v \in Users : data[i][v] \in Nat
        BY <1>1, DataType
      <3>3. data'[Len(data) + 1] \in Counters
        BY <1>1, <2>2 DEF TypeOK
      <3>4. g # h => via[g] = d
        BY <1>3 DEF IncrReceiver, Send, TypeOK
      <3>5. \A i \in 1..Len(data), v \in Users, n \in Nat :
                data[i][v] >= n => data'[Len(data) + 1][v] >= n
        <4>. SUFFICES ASSUME NEW i \in 1..Len(data), NEW v \in Users, NEW n \in Nat,
                             data[i][v] >= n
                      PROVE  data'[Len(data) + 1][v] >= n
          OBVIOUS
        <4>1. data'[Len(data) + 1][v] \in Nat /\ data[i][v] \in Nat
          BY <3>2, <3>3 DEF Counters
        <4>2. data[i][v] <= data'[Len(data) + 1][v]
          BY <2>2
        <4>. QED
          BY <4>1, <4>2
      <3>6. CASE g # h /\ d = c
        <4>1. /\ data[behind[d] + 1][to[g]] >= rpts[g]
              /\ data[behind[d] + 1][from[g]] >= spts[g]
          BY <3>1, <3>4, <3>6 DEF ViaCarries
        <4>2. to[g] \in Users /\ from[g] \in Users /\ rpts[g] \in Nat /\ spts[g] \in Nat
          BY <1>1 DEF TypeOK
        <4>3. rpts'[g] = rpts[g] /\ spts'[g] = spts[g]
          BY <1>3, <3>6 DEF IncrReceiver, TypeOK
        <4>4. /\ data'[Len(data) + 1][to[g]] >= rpts[g]
              /\ data'[Len(data) + 1][from[g]] >= spts[g]
          BY <3>1, <3>5, <4>1, <4>2
        <4>5. behind'[d] + 1 = Len(data) + 1
          BY <2>2, <3>6
        <4>. QED
          BY <4>3, <4>4, <4>5
      <3>7. CASE g # h /\ d # c
        <4>1. /\ data[behind[d] + 1][to[g]] >= rpts[g]
              /\ data[behind[d] + 1][from[g]] >= spts[g]
          BY <3>1, <3>4, <3>7 DEF ViaCarries
        <4>2. data'[behind'[d] + 1] = data[behind[d] + 1]
          BY <2>2, <3>1, <3>7
        <4>3. rpts'[g] = rpts[g] /\ spts'[g] = spts[g]
          BY <1>3, <3>7 DEF IncrReceiver, TypeOK
        <4>. QED
          BY <4>1, <4>2, <4>3
      <3>8. CASE g = h
        <4>1. d = c /\ rpts'[h] = Top[to[h]] + 1 /\ spts'[h] = 0
          BY <1>3, <3>8 DEF IncrReceiver, Send, TypeOK, Control, CallNumbers
        <4>2. from[g] \in Users /\ data'[Len(data) + 1][from[g]] \in Nat
          BY <3>3 DEF TypeOK, Counters
        <4>3. Top[to[h]] \in Nat /\ behind'[d] + 1 = Len(data) + 1
          BY <2>1, <2>2, <4>1, TopType
        <4>. QED
          BY <2>2, <3>8, <4>1, <4>2, <4>3
      <3>. QED
        BY <3>6, <3>7, <3>8
    <2>5. ~ sound[h]
      BY <1>3 DEF IncrReceiver, Control, CallFlags, Commands
    <2>6. SoundCallIsDurable' /\ SoundWaitIsDurable'
      BY <1>3, <1>1, <2>2, <2>5, SoundKept DEF IncrReceiver, TypeOK
    <2>. QED
      BY <2>2, <2>3, <2>4, <2>6
  <1>4. ASSUME NEW h \in Calls, NEW c \in Conns, IncrSender(h, c) PROVE Replication'
    <2>1. from[h] \in Users /\ Send(h, c, FALSE) /\ Incr(from[h], c)
      BY <1>4 DEF TypeOK, IncrSender
    <2>2. /\ Len(data') = Len(data) + 1
          /\ \A i \in 1..Len(data) : data'[i] = data[i]
          /\ data'[Len(data) + 1][from[h]] = Top[from[h]] + 1
          /\ \A i \in 1..Len(data), v \in Users : data[i][v] <= data'[Len(data) + 1][v]
          /\ behind'[c] + 1 = Len(data) + 1
          /\ \A d \in Conns \ {c} : behind'[d] = behind[d]
          /\ Growing'
          /\ \A i \in 1..Len(data') : \E j \in 1..Len(data) :
                 \A v \in Users : data[j][v] <= data'[i][v]
      BY <2>1, IncrData
    <2>3. ViaIsConn'
      BY <1>4, <2>1 DEF TypeOK, ViaIsConn, IncrSender, Send
    <2>4. ViaCarries'
      <3>. SUFFICES ASSUME NEW g \in Calls, via'[g] # NoConn
                    PROVE  /\ data'[behind'[via'[g]] + 1][to[g]] >= rpts'[g]
                           /\ data'[behind'[via'[g]] + 1][from[g]] >= spts'[g]
        BY <1>4 DEF ViaCarries, IncrSender
      <3>. DEFINE d == via'[g]
      <3>1. d \in Conns /\ behind[d] + 1 \in 1..Len(data)
        <4>1. d \in Conns
          BY <1>1 DEF TypeOK
        <4>. QED
          BY <4>1, DataType
      <3>2. \A i \in 1..Len(data), v \in Users : data[i][v] \in Nat
        BY <1>1, DataType
      <3>3. data'[Len(data) + 1] \in Counters
        BY <1>1, <2>2 DEF TypeOK
      <3>4. g # h => via[g] = d
        BY <1>4 DEF IncrSender, Send, TypeOK
      <3>5. \A i \in 1..Len(data), v \in Users, n \in Nat :
                data[i][v] >= n => data'[Len(data) + 1][v] >= n
        <4>. SUFFICES ASSUME NEW i \in 1..Len(data), NEW v \in Users, NEW n \in Nat,
                             data[i][v] >= n
                      PROVE  data'[Len(data) + 1][v] >= n
          OBVIOUS
        <4>1. data'[Len(data) + 1][v] \in Nat /\ data[i][v] \in Nat
          BY <3>2, <3>3 DEF Counters
        <4>2. data[i][v] <= data'[Len(data) + 1][v]
          BY <2>2
        <4>. QED
          BY <4>1, <4>2
      <3>6. CASE g # h /\ d = c
        <4>1. /\ data[behind[d] + 1][to[g]] >= rpts[g]
              /\ data[behind[d] + 1][from[g]] >= spts[g]
          BY <3>1, <3>4, <3>6 DEF ViaCarries
        <4>2. to[g] \in Users /\ from[g] \in Users /\ rpts[g] \in Nat /\ spts[g] \in Nat
          BY <1>1 DEF TypeOK
        <4>3. rpts'[g] = rpts[g] /\ spts'[g] = spts[g]
          BY <1>4, <3>6 DEF IncrSender, TypeOK
        <4>4. /\ data'[Len(data) + 1][to[g]] >= rpts[g]
              /\ data'[Len(data) + 1][from[g]] >= spts[g]
          BY <3>1, <3>5, <4>1, <4>2
        <4>5. behind'[d] + 1 = Len(data) + 1
          BY <2>2, <3>6
        <4>. QED
          BY <4>3, <4>4, <4>5
      <3>7. CASE g # h /\ d # c
        <4>1. /\ data[behind[d] + 1][to[g]] >= rpts[g]
              /\ data[behind[d] + 1][from[g]] >= spts[g]
          BY <3>1, <3>4, <3>7 DEF ViaCarries
        <4>2. data'[behind'[d] + 1] = data[behind[d] + 1]
          BY <2>2, <3>1, <3>7
        <4>3. rpts'[g] = rpts[g] /\ spts'[g] = spts[g]
          BY <1>4, <3>7 DEF IncrSender, TypeOK
        <4>. QED
          BY <4>1, <4>2, <4>3
      <3>8. CASE g = h
        <4>1. /\ d = c /\ via[h] = c
              /\ spts'[h] = Top[from[h]] + 1 /\ rpts'[h] = rpts[h]
          BY <1>4, <3>1, <3>8 DEF IncrSender, Send, TypeOK
        <4>2. data[behind[c] + 1][to[h]] >= rpts[h]
          BY <3>1, <4>1, NoConnAssumption DEF ViaCarries
        <4>3. data'[Len(data) + 1][to[h]] >= rpts[h]
          BY <3>1, <3>5, <4>1, <4>2 DEF TypeOK
        <4>4. Top[from[h]] \in Nat /\ behind'[d] + 1 = Len(data) + 1
          BY <2>1, <2>2, <4>1, TopType
        <4>5. spts'[h] = data'[Len(data) + 1][from[h]] /\ spts'[h] \in Nat
          BY <2>2, <4>1, <4>4
        <4>. QED
          BY <3>8, <4>1, <4>3, <4>4, <4>5
      <3>. QED
        BY <3>6, <3>7, <3>8
    <2>5. ~ sound[h]
      BY <1>4 DEF IncrSender, Control, CallFlags, Commands
    <2>6. SoundCallIsDurable' /\ SoundWaitIsDurable'
      BY <1>4, <1>1, <2>2, <2>5, SoundKept DEF IncrSender, TypeOK
    <2>. QED
      BY <2>2, <2>3, <2>4, <2>6
  <1>5. ASSUME NEW h \in Calls, NEW c \in Conns, Wait(h, c) PROVE Replication'
    <2>1. Growing'
      BY <1>5 DEF TypeOK, Growing, Wait, Send, redis, call
    <2>2. ViaIsConn'
      BY <1>5 DEF TypeOK, ViaIsConn, Wait, Send, redis, call
    <2>3. ViaCarries'
      BY <1>5 DEF TypeOK, ViaCarries, Wait, Send, redis, call
    <2>4. SoundCallIsDurable'
      BY <1>5 DEF TypeOK, SoundCallIsDurable, Wait, Send, redis, call, Durable, Control, CallFlags, RowControl, Commands, Row
    <2>5. SoundWaitIsDurable'
      BY <1>5 DEF TypeOK, SoundWaitIsDurable, Wait, Send, redis, call, Durable, Control, CallFlags, RowControl, Commands, Row
    <2>. QED
      BY <2>1, <2>2, <2>3, <2>4, <2>5
  <1>6. ASSUME NEW h \in Calls, IncrReply(h) PROVE Replication'
    <2>1. Growing'
      BY <1>6 DEF TypeOK, Growing, IncrReply, Release, redis, call
    <2>2. ViaIsConn'
      BY <1>6 DEF TypeOK, ViaIsConn, IncrReply, Release, redis, call
    <2>3. ViaCarries'
      BY <1>6 DEF TypeOK, ViaCarries, IncrReply, Release, redis, call
    <2>4. SoundCallIsDurable'
      BY <1>6 DEF TypeOK, SoundCallIsDurable, IncrReply, Release, redis, call, Durable, Control, CallFlags, RowControl, Commands, Row
    <2>5. SoundWaitIsDurable'
      BY <1>6 DEF TypeOK, SoundWaitIsDurable, IncrReply, Release, redis, call, Durable, Control, CallFlags, RowControl, Commands, Row
    <2>. QED
      BY <2>1, <2>2, <2>3, <2>4, <2>5
  <1>7. ASSUME NEW h \in Calls, WaitAcked(h) PROVE Replication'
    <2>1. Growing'
      BY <1>7 DEF TypeOK, Growing, WaitAcked, Release, redis, call
    <2>2. ViaIsConn'
      BY <1>7 DEF TypeOK, ViaIsConn, WaitAcked, Release, redis, call
    <2>3. ViaCarries'
      BY <1>7 DEF TypeOK, ViaCarries, WaitAcked, Release, redis, call
    <2>4. SoundCallIsDurable'
      <3>1. \A u \in Users, n \in Nat : data[1][u] >= n => Durable(u, n)
        BY DataType DEF Growing, Durable
      <3>2. via[h] # NoConn => /\ data[1][to[h]] >= rpts[h]
                               /\ data[1][from[h]] >= spts[h]
        BY <1>7 DEF WaitAcked, Release, Acked, ViaIsConn, ViaCarries, TypeOK
      <3>3. via[h] # NoConn => Durable(to[h], rpts[h]) /\ Durable(from[h], spts[h])
        BY <3>1, <3>2 DEF TypeOK
      <3>4. \A g \in Calls : sound'[g] => sound[g] \/ (g = h /\ via[h] # NoConn)
        <4>1. sound' = [sound EXCEPT ![h] = via[h] # NoConn] /\ sound \in [Calls -> BOOLEAN]
          BY <1>7 DEF WaitAcked, TypeOK
        <4>2. sound'[h] => via[h] # NoConn
          BY <4>1
        <4>3. \A g \in Calls : g # h => (sound'[g] => sound[g])
          BY <4>1
        <4>. QED
          BY <4>2, <4>3
      <3>5. UNCHANGED <<data, from, to, rpts, spts>>
        BY <1>7 DEF WaitAcked, redis, call
      <3>. QED
        BY <3>3, <3>4, <3>5 DEF SoundCallIsDurable, Durable
    <2>5. SoundWaitIsDurable'
      BY <1>7 DEF TypeOK, SoundWaitIsDurable, WaitAcked, Release, redis, call, Durable, Control, CallFlags, RowControl, Commands, Row
    <2>. QED
      BY <2>1, <2>2, <2>3, <2>4, <2>5
  <1>8. ASSUME NEW h \in Calls, WaitTimedOut(h) PROVE Replication'
    <2>1. Growing'
      BY <1>8 DEF TypeOK, Growing, WaitTimedOut, Release, Return, redis
    <2>2. ViaIsConn'
      BY <1>8 DEF TypeOK, ViaIsConn, WaitTimedOut, Release, Return, redis
    <2>3. ViaCarries'
      BY <1>8 DEF TypeOK, ViaCarries, WaitTimedOut, Release, Return, redis
    <2>4. SoundCallIsDurable'
      BY <1>8, SoundSame DEF WaitTimedOut, Return, TypeOK, redis
    <2>5. SoundWaitIsDurable'
      BY <1>8 DEF TypeOK, SoundWaitIsDurable, WaitTimedOut, Release, Return, redis, Durable, Control, CallFlags, RowControl, Commands, Row
    <2>. QED
      BY <2>1, <2>2, <2>3, <2>4, <2>5
  <1>9. ASSUME NEW h \in Calls, RedisError(h) PROVE Replication'
    <2>1. Growing'
      BY <1>9 DEF TypeOK, Growing, RedisError, Return, redis, pool
    <2>2. ViaIsConn'
      BY <1>9 DEF TypeOK, ViaIsConn, RedisError, Return, redis, pool
    <2>3. ViaCarries'
      BY <1>9 DEF TypeOK, ViaCarries, RedisError, Return, redis, pool
    <2>4. SoundCallIsDurable'
      BY <1>9, SoundSame DEF RedisError, Return, TypeOK, redis
    <2>5. SoundWaitIsDurable'
      BY <1>9 DEF TypeOK, SoundWaitIsDurable, RedisError, Return, redis, pool, Durable, Control, CallFlags, RowControl, Commands, Row
    <2>. QED
      BY <2>1, <2>2, <2>3, <2>4, <2>5
  <1>10. ASSUME NEW h \in Calls, Insert(h) \/ LateInsert(h) PROVE Replication'
    <2>1. /\ UNCHANGED <<data, behind, conn, via, sound, from, to>>
          /\ rows' = rows \cup {NewRow(h)}
          /\ \A g \in Calls : rpts'[g] \in {0, rpts[g]} /\ spts'[g] \in {0, spts[g]}
      BY <1>10 DEF TypeOK, Insert, LateInsert, redis, pool, call
    <2>2. Growing' /\ ViaIsConn'
      BY <2>1 DEF Growing, ViaIsConn
    <2>3. ViaCarries'
      <3>. SUFFICES ASSUME NEW g \in Calls, via'[g] # NoConn
                    PROVE  /\ data[behind[via[g]] + 1][to[g]] >= rpts'[g]
                           /\ data[behind[via[g]] + 1][from[g]] >= spts'[g]
        BY <2>1 DEF ViaCarries
      <3>1. via[g] \in Conns /\ to[g] \in Users /\ from[g] \in Users
        BY <2>1 DEF TypeOK
      <3>2. behind[via[g]] + 1 \in 1..Len(data)
        BY <3>1, DataType
      <3>3. /\ data[behind[via[g]] + 1][to[g]] \in Nat
            /\ data[behind[via[g]] + 1][from[g]] \in Nat
        BY <3>1, <3>2, DataType
      <3>4. /\ data[behind[via[g]] + 1][to[g]] >= rpts[g]
            /\ data[behind[via[g]] + 1][from[g]] >= spts[g]
        BY <2>1 DEF ViaCarries
      <3>. QED
        BY <2>1, <3>3, <3>4
    <2>4. SoundCallIsDurable'
      BY <2>1, SoundSame
    <2>5. SoundWaitIsDurable'
      BY <2>1, SoundInserted
    <2>. QED
      BY <2>2, <2>3, <2>4, <2>5
  <1>11. ASSUME NEW h \in Calls,
                InsertOk(h) \/ InsertDuplicate(h) \/ InsertResent(h) \/ InsertError(h)
         PROVE  Replication'
    <2>1. /\ UNCHANGED <<data, behind, conn, sound, from, to, rows>>
          /\ \A g \in Calls : rpts'[g] \in {0, rpts[g]} /\ spts'[g] \in {0, spts[g]}
          /\ \A g \in Calls : via'[g] \in {NoConn, via[g]}
      BY <1>11 DEF TypeOK, InsertOk, InsertDuplicate, InsertResent, InsertError, Return,
                   LeaveAdrift, redis, pool, call
    <2>2. Growing' /\ ViaIsConn'
      BY <2>1 DEF Growing, ViaIsConn
    <2>3. ViaCarries'
      <3>. SUFFICES ASSUME NEW g \in Calls, via'[g] # NoConn
                    PROVE  /\ data[behind[via[g]] + 1][to[g]] >= rpts'[g]
                           /\ data[behind[via[g]] + 1][from[g]] >= spts'[g]
        BY <2>1 DEF ViaCarries
      <3>1. via[g] \in Conns /\ to[g] \in Users /\ from[g] \in Users
        BY <2>1 DEF TypeOK
      <3>2. behind[via[g]] + 1 \in 1..Len(data)
        BY <3>1, DataType
      <3>3. /\ data[behind[via[g]] + 1][to[g]] \in Nat
            /\ data[behind[via[g]] + 1][from[g]] \in Nat
        BY <3>1, <3>2, DataType
      <3>4. /\ data[behind[via[g]] + 1][to[g]] >= rpts[g]
            /\ data[behind[via[g]] + 1][from[g]] >= spts[g]
        BY <2>1 DEF ViaCarries
      <3>. QED
        BY <2>1, <3>3, <3>4
    <2>4. SoundCallIsDurable'
      BY <2>1, SoundSame
    <2>5. SoundWaitIsDurable'
      BY <2>1 DEF SoundWaitIsDurable, Durable
    <2>. QED
      BY <2>2, <2>3, <2>4, <2>5
  <1>13. ASSUME NEW h \in Calls, ReplyLost(h) PROVE Replication'
    <2>1. Growing'
      BY <1>13 DEF TypeOK, Growing, ReplyLost, Forget, redis, call
    <2>2. ViaIsConn'
      BY <1>13 DEF TypeOK, ViaIsConn, ReplyLost, Forget, redis, call
    <2>3. ViaCarries'
      BY <1>13 DEF TypeOK, ViaCarries, ReplyLost, Forget, redis, call
    <2>4. SoundCallIsDurable'
      BY <1>13 DEF TypeOK, SoundCallIsDurable, ReplyLost, Forget, redis, call, Durable, Control, CallFlags, RowControl, Commands, Row
    <2>5. SoundWaitIsDurable'
      BY <1>13 DEF TypeOK, SoundWaitIsDurable, ReplyLost, Forget, redis, call, Durable, Control, CallFlags, RowControl, Commands, Row
    <2>. QED
      BY <2>1, <2>2, <2>3, <2>4, <2>5
  <1>14. CASE Replicate
    <2>1. /\ Len(data') = Len(data) - 1 /\ Len(data) > 1
          /\ \A i \in 1..(Len(data) - 1) : data'[i] = data[i + 1]
      BY <1>14, NotFirst DEF Replicate, TypeOK
    <2>2. \A i \in 1..Len(data') : \E j \in 1..Len(data) :
              \A v \in Users : data[j][v] <= data'[i][v]
      <3>. SUFFICES ASSUME NEW i \in 1..(Len(data) - 1)
                    PROVE  \E j \in 1..Len(data) : \A v \in Users : data[j][v] <= data[i + 1][v]
        BY <2>1
      <3>1. i + 1 \in 1..Len(data)
        BY DEF TypeOK
      <3>. QED
        BY <3>1 DEF Growing
    <2>3. Growing'
      <3>. SUFFICES ASSUME NEW i \in 1..(Len(data) - 1), NEW j \in 1..(Len(data) - 1),
                           i <= j, NEW v \in Users
                    PROVE  data[i + 1][v] <= data[j + 1][v]
        BY <2>1 DEF Growing
      <3>1. i + 1 \in 1..Len(data) /\ j + 1 \in 1..Len(data) /\ i + 1 <= j + 1
        BY DataType
      <3>. QED
        BY <3>1 DEF Growing
    <2>4. ViaIsConn' /\ ViaCarries'
      <3>1. ViaIsConn'
        BY <1>14 DEF Replicate, ViaIsConn, call
      <3>. SUFFICES ASSUME NEW h \in Calls, via[h] # NoConn
                    PROVE  /\ data'[behind'[via[h]] + 1][to[h]] >= rpts[h]
                           /\ data'[behind'[via[h]] + 1][from[h]] >= spts[h]
        BY <1>14, <3>1 DEF Replicate, ViaCarries, call
      <3>2. via[h] \in Conns /\ behind[via[h]] \in 0..(Len(data) - 1)
        BY DEF TypeOK
      <3>3. /\ data[behind[via[h]] + 1][to[h]] >= rpts[h]
            /\ data[behind[via[h]] + 1][from[h]] >= spts[h]
        BY DEF ViaCarries
      <3>4. CASE behind[via[h]] = 0
        <4>1. data'[1] = data[2] /\ behind'[via[h]] = 0
          BY <1>14, <2>1, <3>2, <3>4 DEF Replicate
        <4>2. \A v \in Users : data[1][v] <= data[2][v] /\ data[1][v] \in Nat /\ data[2][v] \in Nat
          BY <2>1, DataType DEF Growing
        <4>3. /\ to[h] \in Users /\ from[h] \in Users /\ rpts[h] \in Nat /\ spts[h] \in Nat
          BY DEF TypeOK
        <4>4. data[1][to[h]] >= rpts[h] /\ data[1][from[h]] >= spts[h]
          BY <3>3, <3>4
        <4>. QED
          BY <4>1, <4>2, <4>3, <4>4
      <3>5. CASE behind[via[h]] # 0
        <4>1. behind'[via[h]] = behind[via[h]] - 1
          BY <1>14, <3>2, <3>5 DEF Replicate
        <4>2. data'[behind'[via[h]] + 1] = data[behind[via[h]] + 1]
          BY <2>1, <3>2, <3>5, <4>1
        <4>. QED
          BY <3>3, <4>2
      <3>. QED
        BY <3>4, <3>5
    <2>5. SoundCallIsDurable' /\ SoundWaitIsDurable'
      BY <1>1, <1>14, <2>2, SoundKept DEF Replicate, call
    <2>. QED
      BY <2>3, <2>4, <2>5
  <1>15. CASE Failover
    <2>1. Len(data') = 1 /\ data'[1] = data[1] /\ data[1] \in Counters
      BY <1>15, OneElement DEF Failover, Survivors, TypeOK
    <2>2. \A i \in 1..Len(data') : \E j \in 1..Len(data) :
              \A v \in Users : data[j][v] <= data'[i][v]
      <3>1. 1 \in 1..Len(data) /\ \A v \in Users : data[1][v] <= data[1][v]
        BY DataType
      <3>. QED
        BY <2>1, <3>1
    <2>3. Growing'
      BY <2>1 DEF Growing, Counters
    <2>4. ViaIsConn' /\ ViaCarries'
      BY <1>15 DEF Failover, ViaIsConn, ViaCarries
    <2>5. SoundCallIsDurable' /\ SoundWaitIsDurable'
      BY <1>1, <1>15, <2>2, SoundKept DEF Failover, call
    <2>. QED
      BY <2>1, <2>3, <2>4, <2>5
  <1>16. CASE Rejoin
    <2>1. Len(data') = 1 /\ data'[1] = Top /\ Top \in Counters
      BY <1>16, TopType, OneElement DEF Rejoin
    <2>2. \A i \in 1..Len(data') : \E j \in 1..Len(data) :
              \A v \in Users : data[j][v] <= data'[i][v]
      <3>1. /\ Len(data) \in 1..Len(data)
            /\ \A v \in Users : data[Len(data)][v] <= data[Len(data)][v]
        BY DataType
      <3>. QED
        BY <2>1, <3>1 DEF Top
    <2>3. Growing'
      BY <2>1 DEF Growing, Counters
    <2>4. ViaIsConn' /\ ViaCarries'
      <3>1. \A i \in 1..Len(data), v \in Users, n \in Nat : data[i][v] >= n => Top[v] >= n
        <4>1. \A i \in 1..Len(data), v \in Users : data[i][v] <= Top[v] /\ Top[v] \in Nat
          BY DataType DEF Growing, Top
        <4>. QED
          BY <4>1, DataType
      <3>2. ViaIsConn'
        BY <1>16 DEF Rejoin, ViaIsConn, call
      <3>3. ASSUME NEW h \in Calls, via[h] # NoConn
            PROVE  Top[to[h]] >= rpts[h] /\ Top[from[h]] >= spts[h]
        <4>1. via[h] \in Conns
          BY <3>3 DEF TypeOK
        <4>2. behind[via[h]] + 1 \in 1..Len(data)
          BY <4>1, DataType
        <4>. QED
          BY <3>1, <3>3, <4>2 DEF ViaCarries, TypeOK
      <3>4. ASSUME NEW h \in Calls, via[h] # NoConn
            PROVE  data'[behind'[via[h]] + 1] = Top
        BY <1>16, <2>1, <3>4 DEF Rejoin, TypeOK
      <3>5. UNCHANGED <<via, from, to, rpts, spts>>
        BY <1>16 DEF Rejoin, call
      <3>. QED
        BY <3>2, <3>3, <3>4, <3>5 DEF ViaCarries
    <2>5. SoundCallIsDurable' /\ SoundWaitIsDurable'
      BY <1>1, <1>16, <2>2, SoundKept DEF Rejoin, call
    <2>. QED
      BY <2>1, <2>3, <2>4, <2>5
  <1>17. CASE Crash
    <2>1. Growing'
      BY <1>17 DEF TypeOK, Growing, Crash, Running, redis
    <2>2. ViaIsConn'
      BY <1>17 DEF TypeOK, ViaIsConn, Crash, Running, redis
    <2>3. ViaCarries'
      BY <1>17 DEF TypeOK, ViaCarries, Crash, Running, redis
    <2>4. SoundCallIsDurable'
      BY <1>17, SoundSame DEF Crash, TypeOK, redis
    <2>5. SoundWaitIsDurable'
      BY <1>17 DEF TypeOK, SoundWaitIsDurable, Crash, Running, redis, Durable, Control, CallFlags, RowControl, Commands, Row
    <2>. QED
      BY <2>1, <2>2, <2>3, <2>4, <2>5
  <1>18. CASE UNCHANGED vars
    <2>1. Growing'
      BY <1>18 DEF TypeOK, Growing, vars, redis, pool, call
    <2>2. ViaIsConn'
      BY <1>18 DEF TypeOK, ViaIsConn, vars, redis, pool, call
    <2>3. ViaCarries'
      BY <1>18 DEF TypeOK, ViaCarries, vars, redis, pool, call
    <2>4. SoundCallIsDurable'
      BY <1>18 DEF TypeOK, SoundCallIsDurable, vars, redis, pool, call, Durable, Control, CallFlags, RowControl, Commands, Row
    <2>5. SoundWaitIsDurable'
      BY <1>18 DEF TypeOK, SoundWaitIsDurable, vars, redis, pool, call, Durable, Control, CallFlags, RowControl, Commands, Row
    <2>. QED
      BY <2>1, <2>2, <2>3, <2>4, <2>5
  <1>. QED
    BY <1>2, <1>3, <1>4, <1>5, <1>6, <1>7, <1>8, <1>9, <1>10, <1>11,
       <1>13, <1>14, <1>15, <1>16, <1>17, <1>18 DEF Next, Step
----------------------------------------------------------------------------
(* Numbering.                                                              *)

\* Rows inserted and rows still to be inserted are rows.
LEMMA DrawnType == TypeOK => Drawn \subseteq Row
  BY DEF TypeOK, Drawn, Unborn, NewRow, Row

\* After an INCR the counter is one higher and all others are as they were.
LEMMA IncrTop ==
  ASSUME TypeOK, NEW u \in Users, NEW c \in Conns, Incr(u, c)
  PROVE  /\ Top'[u] = Top[u] + 1
         /\ \A v \in Users : Top[v] \in Nat /\ Top'[v] \in Nat /\ Top[v] <= Top'[v]
         /\ \A v \in Users \ {u} : Top'[v] = Top[v]
  <1>. DEFINE new == [Top EXCEPT ![u] = @ + 1]
  <1>1. Top \in Counters /\ data \in Seq(Counters)
    BY TopType DEF TypeOK
  <1>2. /\ new \in Counters /\ new[u] = Top[u] + 1
        /\ \A v \in Users : Top[v] \in Nat /\ new[v] \in Nat /\ Top[v] <= new[v]
        /\ \A v \in Users \ {u} : new[v] = Top[v]
    BY <1>1 DEF Counters
  <1>3. data' = Append(data, new)
    BY DEF Incr
  <1>. HIDE DEF new
  <1>4. Top' = new
    BY <1>1, <1>2, <1>3, Appended DEF Top
  <1>. QED
    BY <1>2, <1>4

\* Nobody counts among his earlier calls one that has no answer.
LEMMA Unanswered ==
  ASSUME Control, NEW h \in Calls, pc[h] \notin {"adrift", "done"}
  PROVE  \A g \in Calls : h \notin earlier[g]
  BY DEF Control, CallFlags, EarlierAnswered

\* Steps that draw no number: nothing is drawn that was not before.
LEMMA NothingDrawn ==
  ASSUME Numbering, failovers' = 0 => failovers = 0, Top' = Top,
         Drawn' \subseteq Drawn, earlier' = earlier
  PROVE  Numbering'
  BY DEF Numbering, BelowTop, AllDistinct, LaterAbove

\* A step that gives the row of call h one fresh number, of user u.
LEMMA FreshNumber ==
  ASSUME TypeOK, Numbering, NEW h \in Calls, NEW old \in Drawn, NEW n \in Row,
         NEW u \in Users, old.id = h, n.id = h,
         n.sender = old.sender, n.receiver = old.receiver,
         \/ n.receiver = u /\ n.rpts = Top[u] + 1 /\ n.spts = 0
         \/ n.sender = u /\ n.spts = Top[u] + 1 /\ n.rpts = old.rpts,
         \A r \in Drawn' : r = n \/ (r \in Drawn /\ r.id # h),
         Top'[u] = Top[u] + 1,
         \A v \in Users : Top[v] \in Nat /\ Top'[v] \in Nat /\ Top[v] <= Top'[v],
         \A g \in Calls : h \notin earlier[g],
         UNCHANGED <<failovers, earlier>>
  PROVE  Numbering'
  <1>. SUFFICES ASSUME failovers = 0 PROVE BelowTop' /\ AllDistinct' /\ LaterAbove'
    BY DEF Numbering
  <1>1. BelowTop /\ AllDistinct /\ LaterAbove
    BY DEF Numbering
  <1>2. Drawn \subseteq Row
    BY DrawnType
  <1>3. \A r \in Row : /\ r.id \in Calls /\ r.receiver \in Users /\ r.sender \in Users
                       /\ r.rpts \in Nat /\ r.spts \in Nat
    BY DEF Row
  <1>4. \A r \in Drawn : r.rpts <= Top[r.receiver] /\ r.spts <= Top[r.sender]
    BY <1>1 DEF BelowTop
  <1>5. BelowTop'
    <2>. SUFFICES ASSUME NEW r \in Drawn'
                  PROVE  r.rpts <= Top'[r.receiver] /\ r.spts <= Top'[r.sender]
      BY DEF BelowTop
    <2>1. CASE r = n
      BY <1>2, <1>3, <1>4, <2>1
    <2>2. CASE r \in Drawn
      BY <1>2, <1>3, <1>4, <2>2
    <2>. QED
      BY <2>1, <2>2
  <1>6. ASSUME NEW s \in Drawn, s.id # h PROVE Distinct(n, s) /\ Distinct(s, n)
    <2>1. Distinct(old, s) /\ Distinct(s, old)
      BY <1>1, <1>6 DEF AllDistinct
    <2>. QED
      BY <1>2, <1>3, <1>4, <2>1 DEF Distinct
  <1>7. n.receiver = n.sender => n.rpts # n.spts \/ n.spts = 0
    <2>1. CASE n.spts = 0
      BY <2>1
    <2>2. CASE n.sender = u /\ n.spts = Top[u] + 1 /\ n.rpts = old.rpts
      <3>1. n.receiver = u => n.rpts <= Top[u]
        BY <1>2, <1>4, <2>2
      <3>. QED
        BY <1>3, <2>2, <3>1
    <2>. QED
      BY <2>1, <2>2
  <1>8. AllDistinct'
    <2>1. ASSUME NEW r \in Drawn', NEW s \in Drawn', r.id # s.id PROVE Distinct(r, s)
      BY <1>1, <1>6, <2>1 DEF AllDistinct
    <2>2. ASSUME NEW r \in Drawn', r.receiver = r.sender PROVE r.rpts # r.spts \/ r.spts = 0
      BY <1>1, <1>7, <2>2 DEF AllDistinct
    <2>. QED
      BY <2>1, <2>2 DEF AllDistinct
  <1>9. LaterAbove'
    <2>. SUFFICES ASSUME NEW r \in Drawn', NEW s \in Drawn', s.id \in earlier[r.id]
                  PROVE  Above(r, s)
      BY DEF LaterAbove
    <2>1. s \in Drawn
      BY <1>2, <1>3
    <2>2. CASE r = n
      <3>1. Above(old, s)
        BY <1>1, <2>1, <2>2 DEF LaterAbove
      <3>. QED
        BY <1>2, <1>3, <1>4, <2>1, <2>2, <3>1 DEF Above
    <2>3. CASE r \in Drawn
      BY <1>1, <2>1, <2>3 DEF LaterAbove
    <2>. QED
      BY <2>2, <2>3
  <1>. QED
    BY <1>5, <1>8, <1>9

\* At the start no number has been drawn.
LEMMA NumberingInit == Init => Numbering
  BY OneElement DEF Init, Numbering, BelowTop, AllDistinct, LaterAbove, Distinct,
     Drawn, Unborn, NewRow, Top

\* While Redis does not fail over, every step keeps the numbers drawn below
\* the counters, distinct, and in the order of the calls.
LEMMA NumberingStep == TypeOK /\ Control /\ Numbering /\ [Next]_vars => Numbering'
  <1>. SUFFICES ASSUME TypeOK, Control, Numbering, [Next]_vars PROVE Numbering'
    OBVIOUS
  <1>1. ASSUME NEW h \in Calls, Call(h) PROVE Numbering'
    <2>1. UNCHANGED <<data, failovers, rows>> /\ Drawn' = Drawn
      BY <1>1 DEF Call, TypeOK, Drawn, Unborn, NewRow, redis, call
    <2>2. \A g \in Calls : g # h => earlier'[g] = earlier[g]
      BY <1>1 DEF Call, TypeOK
    <2>3. \A r \in Drawn : r.id = h => r.rpts = 0 /\ r.spts = 0
      BY <1>1 DEF Call, Drawn, Unborn, NewRow, Control, CallNumbers, RowControl
    <2>4. \A r, s \in Drawn : r.id = h => Above(r, s)
      BY <2>3 DEF Above
    <2>5. \A r \in Drawn : r.id \in Calls
      BY DrawnType DEF Row
    <2>6. LaterAbove => LaterAbove'
      BY <2>1, <2>2, <2>4, <2>5 DEF LaterAbove
    <2>7. Top' = Top
      BY <2>1 DEF Top
    <2>. QED
      BY <2>1, <2>6, <2>7 DEF Numbering, BelowTop, AllDistinct
  <1>2. ASSUME NEW h \in Calls, NEW c \in Conns, IncrReceiver(h, c) PROVE Numbering'
    <2>. DEFINE old == NewRow(h)
                n == [id |-> h, sender |-> from[h], receiver |-> to[h],
                      spts |-> 0, rpts |-> Top[to[h]] + 1]
    <2>1. /\ old \in Drawn /\ old.id = h /\ old.sender = from[h]
          /\ old.receiver = to[h] /\ old.rpts = rpts[h]
      BY <1>2 DEF IncrReceiver, NewRow, Drawn, Unborn
    <2>2. n \in Row
      BY TopType DEF TypeOK, Row
    <2>3. NewRow(h)' = n
      BY <1>2, TopType DEF IncrReceiver, TypeOK, NewRow, Control, CallNumbers
    <2>4. \A g \in Calls : g # h => NewRow(g)' = NewRow(g)
      BY <1>2 DEF IncrReceiver, TypeOK, NewRow
    <2>5. \A g \in Calls : NewRow(g).id = g
      BY DEF NewRow
    <2>6. \A r \in rows : r.id # h
      BY <1>2 DEF IncrReceiver, Control, RowControl
    <2>. HIDE DEF n
    <2>7. \A r \in Drawn' : r = n \/ (r \in Drawn /\ r.id # h)
      BY <1>2, <2>3, <2>4, <2>5, <2>6 DEF IncrReceiver, Drawn, Unborn
    <2>8. to[h] \in Users /\ Incr(to[h], c)
      BY <1>2 DEF IncrReceiver, TypeOK
    <2>9. /\ Top'[to[h]] = Top[to[h]] + 1
          /\ \A v \in Users : Top[v] \in Nat /\ Top'[v] \in Nat /\ Top[v] <= Top'[v]
      BY <2>8, IncrTop
    <2>10. /\ n.id = h /\ n.sender = from[h] /\ n.receiver = to[h]
           /\ n.rpts = Top[to[h]] + 1 /\ n.spts = 0
      BY DEF n
    <2>11. UNCHANGED <<failovers, earlier>> /\ \A g \in Calls : h \notin earlier[g]
      BY <1>2, Unanswered DEF IncrReceiver, Incr
    <2>. HIDE DEF old
    <2>. QED
      BY <2>1, <2>2, <2>7, <2>8, <2>9, <2>10, <2>11, FreshNumber
  <1>3. ASSUME NEW h \in Calls, NEW c \in Conns, IncrSender(h, c) PROVE Numbering'
    <2>. DEFINE old == NewRow(h)
                n == [id |-> h, sender |-> from[h], receiver |-> to[h],
                      spts |-> Top[from[h]] + 1, rpts |-> rpts[h]]
    <2>1. /\ old \in Drawn /\ old.id = h /\ old.sender = from[h]
          /\ old.receiver = to[h] /\ old.rpts = rpts[h]
      BY <1>3 DEF IncrSender, NewRow, Drawn, Unborn
    <2>2. n \in Row
      <3>1. from[h] \in Users /\ to[h] \in Users /\ rpts[h] \in Nat
        BY DEF TypeOK
      <3>2. Top[from[h]] + 1 \in Nat
        BY <3>1, TopType
      <3>. QED
        BY <3>1, <3>2 DEF Row
    <2>3. NewRow(h)' = n
      BY <1>3, TopType DEF IncrSender, TypeOK, NewRow, Control, CallNumbers
    <2>4. \A g \in Calls : g # h => NewRow(g)' = NewRow(g)
      BY <1>3 DEF IncrSender, TypeOK, NewRow
    <2>5. \A g \in Calls : NewRow(g).id = g
      BY DEF NewRow
    <2>6. \A r \in rows : r.id # h
      BY <1>3 DEF IncrSender, Control, RowControl
    <2>. HIDE DEF n
    <2>7. \A r \in Drawn' : r = n \/ (r \in Drawn /\ r.id # h)
      BY <1>3, <2>3, <2>4, <2>5, <2>6 DEF IncrSender, Drawn, Unborn
    <2>8. from[h] \in Users /\ Incr(from[h], c)
      BY <1>3 DEF IncrSender, TypeOK
    <2>9. /\ Top'[from[h]] = Top[from[h]] + 1
          /\ \A v \in Users : Top[v] \in Nat /\ Top'[v] \in Nat /\ Top[v] <= Top'[v]
      BY <2>8, IncrTop
    <2>10. /\ n.id = h /\ n.sender = from[h] /\ n.receiver = to[h]
           /\ n.spts = Top[from[h]] + 1 /\ n.rpts = rpts[h]
      BY DEF n
    <2>11. UNCHANGED <<failovers, earlier>> /\ \A g \in Calls : h \notin earlier[g]
      BY <1>3, Unanswered DEF IncrSender, Incr
    <2>. HIDE DEF old
    <2>. QED
      BY <2>1, <2>2, <2>7, <2>8, <2>9, <2>10, <2>11, FreshNumber
  <1>4. ASSUME NEW h \in Calls, NEW c \in Conns, Wait(h, c) PROVE Numbering'
    <2>1. UNCHANGED <<data, failovers, earlier, rows>> /\ Drawn' \subseteq Drawn
      BY <1>4 DEF Wait, TypeOK, Drawn, Unborn, NewRow, redis, call
    <2>. QED
      BY <2>1, NothingDrawn DEF Top
  <1>5. ASSUME NEW h \in Calls, IncrReply(h) PROVE Numbering'
    <2>1. UNCHANGED <<data, failovers, earlier, rows>> /\ Drawn' \subseteq Drawn
      BY <1>5 DEF IncrReply, TypeOK, Drawn, Unborn, NewRow, redis, call
    <2>. QED
      BY <2>1, NothingDrawn DEF Top
  <1>6. ASSUME NEW h \in Calls, WaitAcked(h) PROVE Numbering'
    <2>1. UNCHANGED <<data, failovers, earlier, rows>> /\ Drawn' \subseteq Drawn
      BY <1>6 DEF WaitAcked, TypeOK, Drawn, Unborn, NewRow, redis, call
    <2>. QED
      BY <2>1, NothingDrawn DEF Top
  <1>7. ASSUME NEW h \in Calls,
               \/ WaitTimedOut(h) \/ RedisError(h) \/ InsertOk(h)
               \/ InsertDuplicate(h) \/ InsertResent(h) \/ InsertError(h)
        PROVE  Numbering'
    <2>1. UNCHANGED <<data, failovers, earlier, rows>>
      BY <1>7 DEF WaitTimedOut, RedisError, InsertOk, InsertDuplicate, InsertResent, InsertError,
                  redis
    <2>2. Unborn' \subseteq Unborn /\ \A g \in Unborn' : NewRow(g)' = NewRow(g)
      <3>1. CASE pc' = [pc EXCEPT ![h] = "done"] /\ UNCHANGED <<from, to>>
                 /\ \A g \in Calls \ {h} : rpts'[g] = rpts[g] /\ spts'[g] = spts[g]
        BY <3>1 DEF TypeOK, Unborn, NewRow
      <3>2. CASE pc[h] = "insert" /\ pc' = [pc EXCEPT ![h] = "adrift"] /\ UNCHANGED call
        BY <3>2 DEF TypeOK, Unborn, NewRow, call
      <3>. QED
        BY <1>7, <3>1, <3>2 DEF WaitTimedOut, RedisError, InsertOk, InsertDuplicate, InsertResent,
                                InsertError, Return, LeaveAdrift, TypeOK
    <2>3. Drawn' \subseteq Drawn
      BY <2>1, <2>2 DEF Drawn
    <2>. QED
      BY <2>1, <2>3, NothingDrawn DEF Top
  <1>8. ASSUME NEW h \in Calls, Insert(h) \/ LateInsert(h) PROVE Numbering'
    <2>1. UNCHANGED <<data, failovers, earlier>> /\ rows' = rows \cup {NewRow(h)}
      BY <1>8 DEF Insert, LateInsert, redis
    <2>2. /\ h \in Unborn /\ Unborn' \subseteq Unborn
          /\ \A g \in Unborn' : NewRow(g)' = NewRow(g)
      BY <1>8 DEF Insert, LateInsert, TypeOK, Unborn, NewRow, call
    <2>3. Drawn' \subseteq Drawn
      BY <2>1, <2>2 DEF Drawn
    <2>. QED
      BY <2>1, <2>3, NothingDrawn DEF Top
  <1>12. ASSUME NEW h \in Calls, ReplyLost(h) PROVE Numbering'
    <2>1. UNCHANGED <<data, failovers, earlier, rows>> /\ Drawn' \subseteq Drawn
      BY <1>12 DEF ReplyLost, TypeOK, Drawn, Unborn, NewRow, redis, call
    <2>. QED
      BY <2>1, NothingDrawn DEF Top
  <1>13. CASE Replicate
    <2>1. UNCHANGED <<failovers, earlier, rows>> /\ Drawn' \subseteq Drawn
      BY <1>13 DEF Replicate, Drawn, Unborn, NewRow, call
    <2>2. Top' = Top
      BY <1>13, NotFirst DEF Replicate, TypeOK, Top
    <2>. QED
      BY <2>1, <2>2, NothingDrawn
  <1>14. CASE Failover
    <2>1. failovers' # 0
      BY <1>14 DEF Failover, TypeOK
    <2>. QED
      BY <2>1 DEF Numbering
  <1>15. CASE Rejoin
    <2>1. UNCHANGED <<failovers, earlier, rows>> /\ Drawn' \subseteq Drawn
      BY <1>15 DEF Rejoin, Drawn, Unborn, NewRow, call
    <2>2. Top' = Top
      BY <1>15, TopType, OneElement DEF Rejoin, Top
    <2>. QED
      BY <2>1, <2>2, NothingDrawn
  <1>16. CASE Crash
    <2>1. UNCHANGED <<data, failovers, earlier, rows>> /\ Drawn' \subseteq Drawn
      BY <1>16 DEF Crash, Running, TypeOK, Drawn, Unborn, NewRow, redis
    <2>. QED
      BY <2>1, NothingDrawn DEF Top
  <1>17. CASE UNCHANGED vars
    <2>1. UNCHANGED <<data, failovers, earlier, rows>> /\ Drawn' = Drawn
      BY <1>17 DEF vars, redis, call, Drawn, Unborn, NewRow
    <2>. QED
      BY <2>1, NothingDrawn DEF Top
  <1>. QED
    BY <1>1, <1>2, <1>3, <1>4, <1>5, <1>6, <1>7, <1>8,
       <1>12, <1>13, <1>14, <1>15, <1>16, <1>17 DEF Next, Step
----------------------------------------------------------------------------
(* Numbering across failovers.                                             *)

\* Rows no failover can forget the numbers of are rows, inserted or not.
LEMMA FirmDrawn == Firm \subseteq Drawn
  BY DEF Firm, Drawn

\* The primary has counted past their numbers: WAIT confirmed them, or the
\* connection that carried them is still open.
LEMMA FirmBelowTop ==
  ASSUME TypeOK, Replication
  PROVE  \A r \in Firm : r.rpts <= Top[r.receiver] /\ r.spts <= Top[r.sender]
  <1>1. /\ Len(data) \in 1..Len(data) /\ Top = data[Len(data)]
        /\ \A i \in 1..Len(data), v \in Users :
              data[i][v] \in Nat /\ Top[v] \in Nat /\ data[i][v] <= Top[v]
    BY DataType, TopType DEF Replication, Growing, Top
  <1>2. ASSUME NEW r \in rows, sound[r.id]
        PROVE  r.rpts <= Top[r.receiver] /\ r.spts <= Top[r.sender]
    <2>1. r.rpts \in Nat /\ r.spts \in Nat /\ r.receiver \in Users /\ r.sender \in Users
      BY DEF TypeOK, Row
    <2>2. Durable(r.receiver, r.rpts) /\ Durable(r.sender, r.spts)
      BY <1>2 DEF Replication, SoundWaitIsDurable
    <2>. QED
      BY <1>1, <2>1, <2>2 DEF Durable
  <1>3. ASSUME NEW h \in Calls, sound[h] \/ via[h] # NoConn
        PROVE  rpts[h] <= Top[to[h]] /\ spts[h] <= Top[from[h]]
    <2>1. rpts[h] \in Nat /\ spts[h] \in Nat /\ to[h] \in Users /\ from[h] \in Users
      BY DEF TypeOK
    <2>2. PICK i \in 1..Len(data) : data[i][to[h]] >= rpts[h] /\ data[i][from[h]] >= spts[h]
      <3>1. CASE sound[h]
        BY <1>1, <3>1 DEF Replication, SoundCallIsDurable, Durable
      <3>2. CASE via[h] # NoConn
        <4>1. via[h] \in Conns
          BY <3>2 DEF TypeOK
        <4>2. behind[via[h]] + 1 \in 1..Len(data)
          BY <4>1, DataType
        <4>. QED
          BY <3>2, <4>2 DEF Replication, ViaCarries
      <3>. QED
        BY <1>3, <3>1, <3>2
    <2>3. data[i][to[h]] <= Top[to[h]] /\ data[i][from[h]] <= Top[from[h]]
      BY <1>1, <2>1
    <2>. QED
      BY <1>1, <2>1, <2>2, <2>3
  <1>4. ASSUME NEW h \in Unborn, sound[h] \/ via[h] # NoConn
        PROVE  NewRow(h).rpts <= Top[NewRow(h).receiver] /\ NewRow(h).spts <= Top[NewRow(h).sender]
    BY <1>3, <1>4 DEF Unborn, NewRow
  <1>. QED
    BY <1>2, <1>4 DEF Firm

\* Steps that draw no number make no row firm that was not, and no call newly
\* later than a sound one.
LEMMA NothingFirm ==
  ASSUME Firmness, Drawn' \subseteq Drawn, Firm' \subseteq Firm, earlier' = earlier,
         \A r, s \in Drawn' : s.id \in earlier[r.id] /\ sound'[s.id] => sound[s.id]
  PROVE  Firmness'
  BY DEF Firmness, FirmDistinct, AboveSound

\* A step that gives the row of call h one fresh number, of user u, after any
\* failovers: it is one of no firm row, and above those of the sound calls
\* answered before h.
LEMMA FreshFirm ==
  ASSUME TypeOK, Replication, Firmness, NEW h \in Calls, NEW old \in Drawn, NEW n \in Row,
         NEW u \in Users, old.id = h, n.id = h,
         n.sender = old.sender, n.receiver = old.receiver,
         \/ n.receiver = u /\ n.rpts = Top[u] + 1 /\ n.spts = 0
         \/ n.sender = u /\ n.spts = Top[u] + 1 /\ n.rpts = old.rpts
            /\ (n \in Firm' => old \in Firm),
         \A r \in Drawn' : r = n \/ (r \in Drawn /\ r.id # h),
         \A r \in Firm' : r = n \/ (r \in Firm /\ r.id # h),
         \A g \in Calls : h \notin earlier[g],
         UNCHANGED <<earlier, sound>>
  PROVE  Firmness'
  <1>1. FirmDistinct /\ AboveSound
    BY DEF Firmness
  <1>2. Drawn \subseteq Row /\ Firm \subseteq Row
    BY DrawnType, FirmDrawn
  <1>3. \A r \in Row : /\ r.id \in Calls /\ r.receiver \in Users /\ r.sender \in Users
                       /\ r.rpts \in Nat /\ r.spts \in Nat
    BY DEF Row
  <1>4. \A r \in Firm : r.rpts <= Top[r.receiver] /\ r.spts <= Top[r.sender]
    BY FirmBelowTop
  <1>5. \A v \in Users : Top[v] \in Nat
    BY TopType
  <1>6. ASSUME n \in Firm', NEW s \in Firm, s.id # h PROVE Distinct(n, s) /\ Distinct(s, n)
    <2>0. /\ s.receiver \in Users /\ s.sender \in Users /\ s.rpts \in Nat /\ s.spts \in Nat
          /\ s.rpts <= Top[s.receiver] /\ s.spts <= Top[s.sender]
      BY <1>2, <1>3, <1>4
    <2>1. CASE n.receiver = u /\ n.rpts = Top[u] + 1 /\ n.spts = 0
      BY <1>5, <2>0, <2>1 DEF Distinct
    <2>2. CASE n.sender = u /\ n.spts = Top[u] + 1 /\ n.rpts = old.rpts /\ old \in Firm
      <3>1. Distinct(old, s) /\ Distinct(s, old)
        BY <1>1, <1>6, <2>2 DEF FirmDistinct
      <3>. QED
        BY <1>5, <2>0, <2>2, <3>1 DEF Distinct
    <2>. QED
      BY <1>6, <2>1, <2>2
  <1>7. ASSUME n \in Firm', n.receiver = n.sender PROVE n.rpts # n.spts \/ n.spts = 0
    <2>1. CASE n.spts = 0
      BY <2>1
    <2>2. CASE n.sender = u /\ n.spts = Top[u] + 1 /\ n.rpts = old.rpts /\ old \in Firm
      <3>1. n.rpts <= Top[u]
        BY <1>4, <1>7, <2>2
      <3>. QED
        BY <1>3, <1>5, <2>2, <3>1
    <2>. QED
      BY <1>7, <2>1, <2>2
  <1>8. FirmDistinct'
    <2>1. ASSUME NEW r \in Firm', NEW s \in Firm', r.id # s.id PROVE Distinct(r, s)
      <3>1. CASE r = n
        BY <1>6, <2>1, <3>1
      <3>2. CASE r # n /\ s = n
        BY <1>6, <2>1, <3>2
      <3>3. CASE r # n /\ s # n
        BY <1>1, <2>1, <3>3 DEF FirmDistinct
      <3>. QED
        BY <3>1, <3>2, <3>3
    <2>2. ASSUME NEW r \in Firm', r.receiver = r.sender PROVE r.rpts # r.spts \/ r.spts = 0
      BY <1>1, <1>7, <2>2 DEF FirmDistinct
    <2>. QED
      BY <2>1, <2>2 DEF FirmDistinct
  <1>9. AboveSound'
    <2>. SUFFICES ASSUME NEW r \in Drawn', NEW s \in Drawn', sound[s.id], s.id \in earlier[r.id]
                  PROVE  Above(r, s)
      BY DEF AboveSound
    <2>1. s \in Drawn
      BY <1>2, <1>3
    <2>2. CASE r = n
      <3>1. Above(old, s)
        BY <1>1, <2>1, <2>2 DEF AboveSound
      <3>2. s \in Firm
        BY <2>1 DEF Firm, Drawn, NewRow
      <3>3. /\ s.receiver \in Users /\ s.sender \in Users /\ s.rpts \in Nat /\ s.spts \in Nat
            /\ s.rpts <= Top[s.receiver] /\ s.spts <= Top[s.sender]
        BY <1>2, <1>3, <1>4, <3>2
      <3>. QED
        BY <1>5, <2>2, <3>1, <3>3 DEF Above
    <2>3. CASE r \in Drawn
      BY <1>1, <2>1, <2>3 DEF AboveSound
    <2>. QED
      BY <2>2, <2>3
  <1>. QED
    BY <1>8, <1>9 DEF Firmness

\* Steps that draw nothing and make no call sound: a call takes its numbers into its
\* row or drops them, or its connection is no longer open.
LEMMA KeptFirm ==
  ASSUME Firmness, UNCHANGED <<sound, earlier>>, Unborn' \subseteq Unborn,
         \A q \in rows' : q \in rows \/ \E h \in Unborn : q = NewRow(h),
         \A g \in Unborn' : NewRow(g)' = NewRow(g) /\ via'[g] \in {NoConn, via[g]}
  PROVE  Firmness'
  <1>1. Drawn' \subseteq Drawn
    BY DEF Drawn
  <1>2. ASSUME NEW r \in Firm' PROVE r \in Firm
    <2>1. CASE r \in rows' /\ sound[r.id]
      <3>1. CASE r \in rows
        BY <2>1, <3>1 DEF Firm
      <3>2. ASSUME NEW h \in Unborn, r = NewRow(h) PROVE r \in Firm
        <4>1. r.id = h
          BY <3>2 DEF NewRow
        <4>. QED
          BY <2>1, <3>2, <4>1 DEF Firm
      <3>. QED
        BY <2>1, <3>1, <3>2
    <2>2. CASE \E g \in Unborn' : (sound[g] \/ via'[g] # NoConn) /\ r = NewRow(g)'
      BY <2>2 DEF Firm
    <2>. QED
      BY <1>2, <2>1, <2>2 DEF Firm
  <1>. QED
    BY <1>1, <1>2, NothingFirm

\* A call that returns, or leaves its INSERT adrift.
LEMMA ReturnFirm ==
  ASSUME TypeOK, Firmness, NEW h \in Calls, NEW a,
         Return(h, a) \/ (pc[h] = "insert" /\ LeaveAdrift(h, a)),
         UNCHANGED <<rows, sound, earlier>>
  PROVE  Firmness'
  <1>1. CASE Return(h, a)
    BY <1>1, KeptFirm DEF Return, TypeOK, Unborn, NewRow
  <1>2. CASE pc[h] = "insert" /\ LeaveAdrift(h, a)
    BY <1>2, KeptFirm DEF LeaveAdrift, TypeOK, Unborn, NewRow, call
  <1>. QED
    BY <1>1, <1>2

\* A step that draws nothing, ends nothing and makes no call sound or newly
\* firm.
LEMMA SameRows ==
  ASSUME Firmness, UNCHANGED <<rows, call, sound, earlier>>,
         Unborn' \subseteq Unborn,
         \A g \in Unborn' : via'[g] = NoConn \/ via'[g] = via[g]
  PROVE  Firmness'
  BY KeptFirm DEF call, NewRow

\* At the start no number has been drawn.
LEMMA FirmInit == Init => Firmness
  BY DEF Init, Firmness, FirmDistinct, AboveSound, Distinct, Firm, Drawn, Unborn, NewRow

\* Every step, a failover included, keeps the numbers of firm rows distinct and
\* a call's numbers above those of the sound calls answered before it.
LEMMA FirmStep ==
  TypeOK /\ Control /\ Replication /\ Firmness /\ [Next]_vars => Firmness'
  <1>. SUFFICES ASSUME TypeOK, Control, Replication, Firmness, [Next]_vars PROVE Firmness'
    OBVIOUS
  <1>1. ASSUME NEW h \in Calls, Call(h) PROVE Firmness'
    <2>1. UNCHANGED <<rows, sound>> /\ Drawn' = Drawn /\ Firm' \subseteq Firm
      BY <1>1 DEF Call, TypeOK, Drawn, Firm, Unborn, NewRow, call
    <2>2. \A g \in Calls : g # h => earlier'[g] = earlier[g]
      BY <1>1 DEF Call, TypeOK
    <2>3. \A r \in Drawn : r.id = h => r.rpts = 0 /\ r.spts = 0
      BY <1>1 DEF Call, Drawn, Unborn, NewRow, Control, CallNumbers, RowControl
    <2>4. \A r, s \in Drawn : r.id = h => Above(r, s)
      BY <2>3 DEF Above
    <2>5. \A r \in Drawn : r.id \in Calls
      BY DrawnType DEF Row
    <2>6. AboveSound'
      BY <2>1, <2>2, <2>4, <2>5 DEF Firmness, AboveSound
    <2>7. FirmDistinct'
      BY <2>1 DEF Firmness, FirmDistinct
    <2>. QED
      BY <2>6, <2>7 DEF Firmness
  <1>2. ASSUME NEW h \in Calls, NEW c \in Conns, IncrReceiver(h, c) PROVE Firmness'
    <2>. DEFINE old == NewRow(h)
                n == [id |-> h, sender |-> from[h], receiver |-> to[h],
                      spts |-> 0, rpts |-> Top[to[h]] + 1]
    <2>1. old \in Drawn /\ old.id = h /\ old.sender = from[h] /\ old.receiver = to[h]
      BY <1>2 DEF IncrReceiver, NewRow, Drawn, Unborn
    <2>2. n \in Row /\ to[h] \in Users
      BY TopType DEF TypeOK, Row
    <2>3. NewRow(h)' = n
      BY <1>2, TopType DEF IncrReceiver, TypeOK, NewRow, Control, CallNumbers
    <2>4. \A g \in Calls : g # h => NewRow(g)' = NewRow(g) /\ via'[g] = via[g]
      BY <1>2 DEF IncrReceiver, Send, TypeOK, NewRow
    <2>5. \A g \in Calls : NewRow(g).id = g
      BY DEF NewRow
    <2>6. \A r \in rows : r.id # h
      BY <1>2 DEF IncrReceiver, Control, RowControl
    <2>. HIDE DEF n
    <2>7. UNCHANGED <<pc, rows, earlier, sound>> /\ Unborn' = Unborn /\ Unborn \subseteq Calls
          /\ \A g \in Calls : h \notin earlier[g]
      BY <1>2, Unanswered DEF IncrReceiver, Unborn
    <2>8. \A r \in Drawn' : r = n \/ (r \in Drawn /\ r.id # h)
      BY <2>3, <2>4, <2>5, <2>6, <2>7 DEF Drawn
    <2>9. \A r \in Firm' : r = n \/ (r \in Firm /\ r.id # h)
      BY <2>3, <2>4, <2>5, <2>6, <2>7 DEF Firm
    <2>10. /\ n.id = h /\ n.sender = from[h] /\ n.receiver = to[h]
           /\ n.rpts = Top[to[h]] + 1 /\ n.spts = 0
      BY DEF n
    <2>. HIDE DEF old
    <2>. QED
      BY <2>1, <2>2, <2>7, <2>8, <2>9, <2>10, FreshFirm
  <1>3. ASSUME NEW h \in Calls, NEW c \in Conns, IncrSender(h, c) PROVE Firmness'
    <2>. DEFINE old == NewRow(h)
                n == [id |-> h, sender |-> from[h], receiver |-> to[h],
                      spts |-> Top[from[h]] + 1, rpts |-> rpts[h]]
    <2>1. /\ old \in Drawn /\ old.id = h /\ old.sender = from[h]
          /\ old.receiver = to[h] /\ old.rpts = rpts[h]
      BY <1>3 DEF IncrSender, NewRow, Drawn, Unborn
    <2>2. n \in Row /\ from[h] \in Users
      BY TopType DEF TypeOK, Row
    <2>3. NewRow(h)' = n
      BY <1>3, TopType DEF IncrSender, TypeOK, NewRow, Control, CallNumbers
    <2>4. \A g \in Calls : g # h => NewRow(g)' = NewRow(g) /\ via'[g] = via[g]
      BY <1>3 DEF IncrSender, Send, TypeOK, NewRow
    <2>5. \A g \in Calls : NewRow(g).id = g
      BY DEF NewRow
    <2>6. \A r \in rows : r.id # h
      BY <1>3 DEF IncrSender, Control, RowControl
    <2>. HIDE DEF n
    <2>7. UNCHANGED <<pc, rows, earlier, sound>> /\ Unborn' = Unborn /\ Unborn \subseteq Calls
          /\ h \in Unborn /\ \A g \in Calls : h \notin earlier[g]
      BY <1>3, Unanswered DEF IncrSender, Unborn
    <2>8. \A r \in Drawn' : r = n \/ (r \in Drawn /\ r.id # h)
      BY <2>3, <2>4, <2>5, <2>6, <2>7 DEF Drawn
    <2>9. \A r \in Firm' : r = n \/ (r \in Firm /\ r.id # h)
      BY <2>3, <2>4, <2>5, <2>6, <2>7 DEF Firm
    <2>10. /\ n.id = h /\ n.sender = from[h] /\ n.receiver = to[h]
           /\ n.spts = Top[from[h]] + 1 /\ n.rpts = rpts[h]
      BY DEF n
    <2>11. n \in Firm' => old \in Firm
      <3>1. via'[h] # NoConn => via[h] # NoConn
        BY <1>3, NoConnAssumption DEF IncrSender, Send, TypeOK
      <3>2. n \in Firm' => sound[h] \/ via'[h] # NoConn
        BY <2>4, <2>5, <2>6, <2>7, <2>10 DEF Firm
      <3>. QED
        BY <2>7, <3>1, <3>2 DEF Firm
    <2>. HIDE DEF old
    <2>. QED
      BY <2>1, <2>2, <2>7, <2>8, <2>9, <2>10, <2>11, FreshFirm
  <1>4. ASSUME NEW h \in Calls, NEW c \in Conns, Wait(h, c) PROVE Firmness'
    <2>1. UNCHANGED <<rows, call, sound, earlier>> /\ Unborn' = Unborn
      BY <1>4 DEF Wait, Unborn
    <2>2. \A g \in Calls : via'[g] = NoConn \/ via'[g] = via[g]
      BY <1>4 DEF Wait, Send, TypeOK
    <2>. QED
      BY <2>1, <2>2, SameRows DEF Unborn
  <1>5. ASSUME NEW h \in Calls, IncrReply(h) PROVE Firmness'
    <2>1. UNCHANGED <<rows, call, sound, earlier, via>> /\ Unborn' \subseteq Unborn
      BY <1>5 DEF IncrReply, TypeOK, Unborn
    <2>. QED
      BY <2>1, SameRows
  <1>6. ASSUME NEW h \in Calls, WaitAcked(h) PROVE Firmness'
    <2>1. /\ UNCHANGED <<rows, call, earlier>> /\ Unborn' \subseteq Unborn
          /\ pc[h] = "wait" /\ h \in Unborn /\ Unborn \subseteq Calls
          /\ \A g \in Calls \ {h} : sound'[g] = sound[g] /\ via'[g] = via[g]
          /\ sound'[h] = (via[h] # NoConn) /\ via'[h] = NoConn
      BY <1>6 DEF WaitAcked, TypeOK, Unborn
    <2>2. \A g \in Calls : NewRow(g)' = NewRow(g)
      BY <2>1 DEF call, NewRow
    <2>3. /\ \A r \in rows : r.id \in Calls \ {h}
          /\ \A g \in Calls : h \notin earlier[g]
      BY <2>1, Unanswered DEF Control, RowControl, TypeOK, Row
    <2>4. Drawn' \subseteq Drawn
      BY <2>1, <2>2 DEF Drawn
    <2>5. ASSUME NEW r \in Firm' PROVE r \in Firm
      <3>1. CASE r \in rows /\ sound'[r.id]
        BY <2>1, <2>3, <3>1 DEF Firm
      <3>2. CASE \E g \in Unborn' : (sound'[g] \/ via'[g] # NoConn) /\ r = NewRow(g)'
        <4>1. PICK g \in Unborn' : (sound'[g] \/ via'[g] # NoConn) /\ r = NewRow(g)'
          BY <3>2
        <4>2. g \in Unborn /\ g \in Calls /\ r = NewRow(g)
          BY <2>1, <2>2, <4>1
        <4>3. sound[g] \/ via[g] # NoConn
          BY <2>1, <4>1, <4>2
        <4>. QED
          BY <4>2, <4>3 DEF Firm
      <3>. QED
        BY <2>1, <2>5, <3>1, <3>2 DEF Firm
    <2>6. \A r, s \in Drawn' : s.id \in earlier[r.id] /\ sound'[s.id] => sound[s.id]
      <3>1. \A r \in Drawn : r.id \in Calls
        BY DrawnType DEF Row
      <3>. QED
        BY <2>1, <2>3, <2>4, <3>1
    <2>. QED
      BY <2>1, <2>4, <2>5, <2>6, NothingFirm
  <1>7. ASSUME NEW h \in Calls,
               \/ WaitTimedOut(h) \/ RedisError(h) \/ InsertOk(h)
               \/ InsertDuplicate(h) \/ InsertResent(h) \/ InsertError(h)
        PROVE  Firmness'
    <2>1. /\ UNCHANGED <<rows, sound, earlier>>
          /\ \E a \in Answers : Return(h, a) \/ (pc[h] = "insert" /\ LeaveAdrift(h, a))
      BY <1>7 DEF WaitTimedOut, RedisError, InsertOk, InsertDuplicate, InsertResent, InsertError,
                  Answers
    <2>. QED
      BY <2>1, ReturnFirm
  <1>8. ASSUME NEW h \in Calls, Insert(h) \/ LateInsert(h) PROVE Firmness'
    <2>1. UNCHANGED <<sound, earlier, via>> /\ rows' = rows \cup {NewRow(h)}
      BY <1>8 DEF Insert, LateInsert
    <2>2. /\ h \in Unborn /\ Unborn' \subseteq Unborn
          /\ \A g \in Unborn' : NewRow(g)' = NewRow(g)
      BY <1>8 DEF Insert, LateInsert, TypeOK, Unborn, NewRow, call
    <2>. QED
      BY <2>1, <2>2, KeptFirm
  <1>10. ASSUME NEW h \in Calls, ReplyLost(h) PROVE Firmness'
    <2>1. UNCHANGED <<rows, call, sound, earlier>> /\ Unborn' = Unborn
      BY <1>10 DEF ReplyLost, Unborn
    <2>2. \A g \in Calls : via'[g] = NoConn \/ via'[g] = via[g]
      BY <1>10 DEF ReplyLost, Forget
    <2>. QED
      BY <2>1, <2>2, SameRows DEF Unborn
  <1>11. CASE Replicate \/ Rejoin \/ UNCHANGED vars
    <2>1. UNCHANGED <<rows, call, sound, earlier, via>> /\ Unborn' = Unborn
      BY <1>11 DEF Replicate, Rejoin, vars, Unborn
    <2>. QED
      BY <2>1, SameRows
  <1>12. CASE Failover
    <2>1. UNCHANGED <<rows, call, sound, earlier>> /\ Unborn' = Unborn
      BY <1>12 DEF Failover, Unborn
    <2>2. \A g \in Calls : via'[g] = NoConn
      BY <1>12 DEF Failover
    <2>. QED
      BY <2>1, <2>2, SameRows DEF Unborn
  <1>13. CASE Crash
    <2>1. UNCHANGED <<rows, from, to, sound, earlier>>
      BY <1>13 DEF Crash
    <2>2. \A g \in Unborn' : /\ g \in Unborn /\ NewRow(g)' = NewRow(g) /\ via'[g] = NoConn
      BY <1>13 DEF Crash, Running, Unborn, NewRow
    <2>. QED
      BY <2>1, <2>2, KeptFirm
  <1>. QED
    BY <1>1, <1>2, <1>3, <1>4, <1>5, <1>6, <1>7, <1>8, <1>10, <1>11,
       <1>12, <1>13 DEF Next, Step
----------------------------------------------------------------------------
(* The invariant, and what follows from it.                                *)

\* The inductive invariant holds in every reachable state.
THEOREM Invariance == Spec => []IInv
  <1>1. Init => IInv
    BY TypeInit, ControlInit, ReplicationInit, NumberingInit, FirmInit DEF IInv
  <1>2. IInv /\ [Next]_vars => IInv'
    BY TypeStep, ControlStep, ReplicationStep, NumberingStep, FirmStep DEF IInv
  <1>. QED
    BY <1>1, <1>2, PTL DEF Spec

\* While Redis does not fail over, no two uses of a user's counter, as sender
\* or receiver, share a number, however many calls overlap.
THEOREM TimelineCorrect == Spec => []OneTimeline
  <1>1. IInv => OneTimeline
    <2>. SUFFICES ASSUME IInv, failovers = 0, NEW u \in Users,
                         NEW a \in Uses(u), NEW b \in Uses(u), a[3] = b[3]
                  PROVE  a = b
      BY DEF OneTimeline
    <2>1. /\ rows \subseteq Drawn /\ AllDistinct
          /\ \A r \in rows : r.rpts > 0 /\ r.spts > 0
          /\ \A r, s \in rows : r.id = s.id => r = s
      BY DEF IInv, Numbering, Control, RowControl, Drawn
    <2>2. /\ \A r, s \in rows : r.id # s.id => Distinct(r, s)
          /\ \A r \in rows : r.receiver = r.sender => r.rpts # r.spts
      BY <2>1 DEF AllDistinct
    <2>3. ASSUME NEW x \in Uses(u)
          PROVE  \E r \in rows :
                     \/ r.receiver = u /\ x = <<r.id, "receiver", r.rpts>>
                     \/ r.sender = u /\ x = <<r.id, "sender", r.spts>>
      BY <2>3 DEF Uses
    <2>4. PICK r \in rows : \/ r.receiver = u /\ a = <<r.id, "receiver", r.rpts>>
                            \/ r.sender = u /\ a = <<r.id, "sender", r.spts>>
      BY <2>3
    <2>5. PICK s \in rows : \/ s.receiver = u /\ b = <<s.id, "receiver", s.rpts>>
                            \/ s.sender = u /\ b = <<s.id, "sender", s.spts>>
      BY <2>3
    <2>6. CASE r.id = s.id
      BY <2>1, <2>2, <2>4, <2>5, <2>6
    <2>7. CASE r.id # s.id
      BY <2>1, <2>2, <2>4, <2>5, <2>7 DEF Distinct
    <2>. QED
      BY <2>6, <2>7
  <1>. QED
    BY <1>1, Invariance, PTL

\* Whatever fails over, two messages whose WAIT ran on the connection of their
\* INCRs share no number of a user's, as sender or receiver.
THEOREM SoundTimelineCorrect == Spec => []SoundTimeline
  <1>1. IInv => SoundTimeline
    <2>. SUFFICES ASSUME IInv, NEW u \in Users, NEW a \in Uses(u), NEW b \in Uses(u),
                         sound[a[1]], sound[b[1]], a[3] = b[3]
                  PROVE  a = b
      BY DEF SoundTimeline
    <2>1. /\ FirmDistinct
          /\ \A r \in rows : sound[r.id] => r \in Firm
          /\ \A r \in rows : r.rpts > 0 /\ r.spts > 0
          /\ \A r, s \in rows : r.id = s.id => r = s
      BY DEF IInv, Firmness, Control, RowControl, Firm
    <2>2. /\ \A r, s \in rows : sound[r.id] /\ sound[s.id] /\ r.id # s.id => Distinct(r, s)
          /\ \A r \in rows : sound[r.id] /\ r.receiver = r.sender => r.rpts # r.spts
      BY <2>1 DEF FirmDistinct
    <2>3. ASSUME NEW x \in Uses(u)
          PROVE  \E r \in rows :
                     \/ r.receiver = u /\ x = <<r.id, "receiver", r.rpts>>
                     \/ r.sender = u /\ x = <<r.id, "sender", r.spts>>
      BY <2>3 DEF Uses
    <2>4. PICK r \in rows : \/ r.receiver = u /\ a = <<r.id, "receiver", r.rpts>>
                            \/ r.sender = u /\ a = <<r.id, "sender", r.spts>>
      BY <2>3
    <2>5. PICK s \in rows : \/ s.receiver = u /\ b = <<s.id, "receiver", s.rpts>>
                            \/ s.sender = u /\ b = <<s.id, "sender", s.spts>>
      BY <2>3
    <2>6. a[1] = r.id /\ b[1] = s.id
      BY <2>4, <2>5
    <2>7. CASE r.id = s.id
      BY <2>1, <2>2, <2>4, <2>5, <2>6, <2>7
    <2>8. CASE r.id # s.id
      <3>1. Distinct(r, s)
        BY <2>2, <2>6, <2>8
      <3>. QED
        BY <2>1, <2>4, <2>5, <3>1 DEF Distinct
    <2>. QED
      BY <2>7, <2>8
  <1>. QED
    BY <1>1, Invariance, PTL

\* A call issued after another was answered is numbered above it in every
\* timeline the two messages share, while Redis does not fail over, and
\* whatever fails over if the earlier call's WAIT was sound.
THEOREM OrderCorrect == Spec => []LaterCallHigherPts
  <1>1. IInv => LaterCallHigherPts
    <2>. SUFFICES ASSUME IInv, NEW r \in rows, NEW s \in rows,
                         s.id \in earlier[r.id], failovers = 0 \/ sound[s.id]
                  PROVE  /\ r.sender = s.sender => r.spts > s.spts
                         /\ r.receiver = s.receiver => r.rpts > s.rpts
                         /\ r.receiver = s.sender => r.rpts > s.spts
                         /\ r.sender = s.receiver => r.spts > s.rpts
      BY DEF LaterCallHigherPts
    <2>1. r \in Drawn /\ s \in Drawn /\ r.rpts > 0 /\ r.spts > 0
      BY DEF IInv, Control, RowControl, Drawn
    <2>2. CASE failovers = 0
      BY <2>1, <2>2 DEF IInv, Numbering, LaterAbove, Above
    <2>3. CASE sound[s.id]
      BY <2>1, <2>3 DEF IInv, Firmness, AboveSound, Above
    <2>. QED
      BY <2>2, <2>3
  <1>. QED
    BY <1>1, Invariance, PTL

\* Numbers that WAIT confirmed on the connection of both INCRs survive every
\* failover: each copy of the counters there is, or will be, is past them.
THEOREM SoundWaitCorrect == Spec => []SoundWaitIsDurable
  BY Invariance, PTL DEF IInv, Replication

\* A message reported persisted is stored under the numbers reported, and one reported
\* Unavailable is not, whatever INSERTs are still on their way, unless the driver sent
\* its INSERT twice.
THEOREM AnswerCorrect == Spec => []AnswerIsTrue
  BY Invariance, PTL DEF IInv, Control

----------------------------------------------------------------------------
(* MessageService implements MessageLog.                                   *)

\* A call that has not returned is one its caller has been told nothing of.
LEMMA NothingTold ==
  ASSUME IInv, NEW h \in Calls, pc[h] \notin {"adrift", "done"}
  PROVE  Told[h] = "none"
  BY DEF IInv, Control, CallFlags, Told

\* A call whose INSERT was not committed has no row in the table.
LEMMA NoRow ==
  ASSUME IInv, NEW h \in Unborn
  PROVE  h \in Calls /\ ~ Log!Stored(h) /\ \A r \in rows : r.id # h
  BY DEF IInv, Control, RowControl, Unborn, Log!Stored

\* What the caller is told when the call ends.
LEMMA EndTells ==
  ASSUME IInv, NEW h \in Calls, pc[h] \notin {"adrift", "done"},
         NEW a \in {"ok", "unavailable", "internal"}, Return(h, a) \/ LeaveAdrift(h, a)
  PROVE  Log!Answer(h, a)
  <1>1. Told' = [Told EXCEPT ![h] = a]
    BY DEF IInv, TypeOK, Return, LeaveAdrift, Told
  <1>. QED
    BY <1>1, NothingTold DEF Log!Answer

\* A row the constraints let in is one the log may store, late ones included.
LEMMA InsertStores ==
  ASSUME IInv, NEW h \in Calls, Insert(h) \/ LateInsert(h)
  PROVE  Log!Store(h)
  <1>1. /\ h \in Unborn /\ ~ UniqueViolation(NewRow(h)) /\ rows' = rows \cup {NewRow(h)}
        /\ answer' = answer
    BY DEF Insert, LateInsert, Unborn
  <1>2. NewRow(h) \in Log!Row /\ NewRow(h).id = h
    BY DEF IInv, TypeOK, NewRow, Log!Row
  <1>3. \A r \in rows : ~ Log!Clash(r, NewRow(h))
    BY <1>1 DEF UniqueViolation, Log!Clash
  <1>4. Told[h] \in {"none", "internal"} /\ Told' = Told
    BY <1>1 DEF Insert, LateInsert, Told, IInv, Control, CallFlags
  <1>. QED
    BY <1>1, <1>2, <1>3, <1>4, NoRow DEF Log!Store

\* Every step of the service is a step of the log or changes nothing of it.
LEMMA LogStep == IInv /\ [Next]_vars => [Log!Next]_<<rows, Told>>
  <1>. SUFFICES ASSUME IInv, [Next]_vars PROVE [Log!Next]_<<rows, Told>>
    OBVIOUS
  <1>1. ASSUME NEW h \in Calls, WaitTimedOut(h) \/ RedisError(h) \/ InsertDuplicate(h)
        PROVE  Log!Reject(h)
    <2>1. /\ h \in Unborn /\ pc[h] \notin {"adrift", "done"}
          /\ Return(h, "unavailable") /\ UNCHANGED rows
      BY <1>1 DEF WaitTimedOut, RedisError, InsertDuplicate, Commands, Unborn
    <2>. QED
      BY <2>1, NoRow, EndTells DEF Log!Reject
  <1>2. ASSUME NEW h \in Calls, Insert(h) \/ LateInsert(h) PROVE Log!Store(h)
    BY <1>2, InsertStores
  <1>3. ASSUME NEW h \in Calls, InsertOk(h) \/ InsertResent(h)
        PROVE  Log!Accept(h) \/ Log!Disown(h)
    <2>1. /\ pc[h] = "inserted" /\ UNCHANGED rows
          /\ Return(h, "ok") \/ Return(h, "unavailable")
      BY <1>3 DEF InsertOk, InsertResent
    <2>2. NewRow(h) \in rows /\ NewRow(h).id = h
      BY <2>1 DEF IInv, Control, RowControl, NewRow
    <2>3. Log!Stored(h)
      BY <2>2 DEF Log!Stored
    <2>. QED
      BY <2>1, <2>3, EndTells DEF Log!Accept, Log!Disown
  <1>4. ASSUME NEW h \in Calls, InsertError(h) PROVE Log!Doubt(h)
    <2>1. /\ pc[h] \notin {"adrift", "done"} /\ UNCHANGED rows
          /\ Return(h, "internal") \/ LeaveAdrift(h, "internal")
      BY <1>4 DEF InsertError
    <2>. QED
      BY <2>1, EndTells DEF Log!Doubt
  <1>5. ASSUME NEW h \in Calls,
               \/ Call(h) \/ IncrReply(h) \/ WaitAcked(h) \/ ReplyLost(h)
               \/ \E c \in Conns : IncrReceiver(h, c) \/ IncrSender(h, c) \/ Wait(h, c)
        PROVE  UNCHANGED <<rows, Told>>
    BY <1>5 DEF Call, IncrReply, WaitAcked, ReplyLost, IncrReceiver, IncrSender, Wait, Told
  <1>6. CASE Replicate \/ Failover \/ Rejoin \/ UNCHANGED vars
    BY <1>6 DEF Replicate, Failover, Rejoin, vars, Told
  <1>7. CASE Crash
    <2>1. Told' = Told
      BY <1>7 DEF Crash, Running, Told, IInv, Control, CallFlags
    <2>. QED
      BY <1>7, <2>1 DEF Crash
  <1>. QED
    BY <1>1, <1>2, <1>3, <1>4, <1>5, <1>6, <1>7 DEF Next, Step, Log!Next

\* PersistMessage keeps what MessageLog promises its callers, for every number of
\* overlapping calls, lost replies, failovers and crashes.
THEOREM LogCorrect == Spec => ImplementsLog
  <1>1. Init => Log!Init
    BY DEF Init, Told, Log!Init
  <1>. QED
    BY <1>1, LogStep, Invariance, PTL DEF Spec, ImplementsLog, Log!Spec

----------------------------------------------------------------------------
(* MessageService fills the Stream of each user.                           *)

\* The only row of a call is the one that is found.
LEMMA RowFound ==
  ASSUME NEW S, NEW r \in S, \A a, b \in S : a.id = b.id => a = b
  PROVE  (CHOOSE s \in S : s.id = r.id) = r
  <1>1. \E s \in S : s.id = r.id
    OBVIOUS
  <1>2. (CHOOSE s \in S : s.id = r.id) \in S /\ (CHOOSE s \in S : s.id = r.id).id = r.id
    BY <1>1
  <1>. QED
    BY <1>2

\* A call whose INSERT was not committed holds its numbers itself.
LEMMA RunningRow ==
  ASSUME IInv, NEW h \in Unborn
  PROVE  /\ ~ HasRow(h) /\ RowOf(h) = NewRow(h)
         /\ StageOf(h) = IF AllDrawn(h) THEN "drawn"
                         ELSE IF FirstDrawn(h) THEN "half" ELSE "unsent"
  BY NoRow DEF HasRow, RowOf, StageOf, Unborn

\* A step that leaves a call where it was, as the stream sees it: what a call does
\* that has its row is not seen.
Unseen(h) ==
    /\ \A r \in rows : r.id = h => r \in rows'
    /\ \A r \in rows' : r.id = h => r \in rows
    /\ \/ HasRow(h)
       \/ /\ (pc[h] = "done")' = (pc[h] = "done")
          /\ UNCHANGED <<rpts[h], spts[h], from[h], to[h]>>

\* What it leaves.
LEMMA UnseenSame ==
  ASSUME IInv, IInv', NEW h \in Calls, Unseen(h)
  PROVE  UNCHANGED <<StageOf(h), RowOf(h)>>
  <1>1. HasRow(h)' = HasRow(h)
    BY DEF Unseen, HasRow
  <1>2. (~ HasRow(h)) => RowOf(h)' = RowOf(h)
    BY <1>1 DEF Unseen, RowOf, NewRow
  <1>3. HasRow(h) => RowOf(h)' = RowOf(h)
    <2>. SUFFICES ASSUME NEW r \in rows, r.id = h PROVE RowOf(h)' = RowOf(h)
      BY DEF HasRow
    <2>1. /\ \A a, b \in rows : a.id = b.id => a = b
          /\ \A a, b \in rows' : a.id = b.id => a = b
      BY DEF IInv, Control, RowControl
    <2>2. HasRow(h) /\ r \in rows'
      BY DEF HasRow, Unseen
    <2>3. (CHOOSE s \in rows : s.id = h) = r /\ (CHOOSE s \in rows' : s.id = h) = r
      BY <2>1, <2>2, RowFound
    <2>. QED
      BY <1>1, <2>2, <2>3 DEF RowOf
  <1>4. StageOf(h)' = StageOf(h)
    BY <1>1 DEF Unseen, StageOf, AllDrawn, FirstDrawn
  <1>. QED
    BY <1>2, <1>3, <1>4

\* The user's calls are calls.
LEMMA MineCalls ==
  ASSUME Addressed
  PROVE  /\ Mine \subseteq Calls
         /\ \A h \in Calls : /\ h \in Incoming <=> to[h] = Me
                             /\ h \in Outgoing <=> from[h] = Me
  BY DEF Addressed, Mine

\* A step that leaves a call as firm as it was.
AsFirm(h) == Confirmable(h)' <=> Confirmable(h)

\* A call that a step leaves where it was, and as firm, is firm after it if it was.
LEMMA OthersFirm ==
  ASSUME IInv, IInv', Addressed, NEW h, \A g \in Mine \ {h} : Unseen(g) /\ AsFirm(g)
  PROVE  /\ FirmCalls' \ {h} = FirmCalls \ {h}
         /\ FirmCalls' \in {FirmCalls \ {h}, FirmCalls \cup {h}}
         /\ h \notin FirmCalls' => FirmCalls' = FirmCalls \ {h}
         /\ (h \in FirmCalls' <=> h \in FirmCalls) => FirmCalls' = FirmCalls
  <1>1. \A g \in Mine \ {h} : g \in FirmCalls' <=> g \in FirmCalls
    BY UnseenSame, MineCalls DEF FirmCalls, AsFirm, Mine
  <1>2. FirmCalls \subseteq Mine /\ FirmCalls' \subseteq Mine
    BY DEF FirmCalls, Mine
  <1>3. \A g : g # h => (g \in FirmCalls' <=> g \in FirmCalls)
    BY <1>1, <1>2
  <1>. HIDE DEF FirmCalls
  <1>4. FirmCalls' \ {h} = FirmCalls \ {h}
    BY <1>3
  <1>5. h \notin FirmCalls' => FirmCalls' = FirmCalls \ {h}
    BY <1>3
  <1>6. h \in FirmCalls' => FirmCalls' = FirmCalls \cup {h}
    BY <1>3
  <1>7. (h \in FirmCalls' <=> h \in FirmCalls) => FirmCalls' = FirmCalls
    BY <1>3
  <1>. QED
    BY <1>4, <1>5, <1>6, <1>7

\* A step that all of the user's calls, and his counter, do not see.
LEMMA NothingSeen ==
  ASSUME IInv, IInv', Addressed, Top'[Me] = Top[Me], failovers' = failovers,
         \A g \in Mine : Unseen(g) /\ AsFirm(g)
  PROVE  UNCHANGED UserStream!stream
  <1>1. \A g \in Mine : UNCHANGED <<StageOf(g), RowOf(g)>>
    BY UnseenSame, MineCalls
  <1>2. FirmCalls' = FirmCalls
    BY <1>1 DEF FirmCalls, AsFirm, Mine
  <1>. QED
    BY <1>1, <1>2 DEF UserStream!stream, Stage, ReceiverPts, SenderPts, Mine

\* Nothing but the answer of its WAIT makes a row firm, and nothing takes it back.
LEMMA StoredFirm ==
  ASSUME IInv, NEW h \in FirmCalls, StageOf(h) = "stored"
  PROVE  sound[h]
  BY DEF FirmCalls, Confirmable, StageOf, HasRow, Commands, IInv, Control, RowControl

\* A step that all they see of is that some are no longer firm.
LEMMA DoubtsSeen ==
  ASSUME IInv, IInv', Addressed, Top'[Me] = Top[Me], failovers' = failovers,
         UNCHANGED <<Stage, ReceiverPts, SenderPts>>,
         FirmCalls' \subseteq FirmCalls, \A h \in Mine : sound[h] => sound'[h]
  PROVE  UserStream!StreamNext
  <1>. DEFINE ms == FirmCalls \ FirmCalls'
  <1>1. FirmCalls' = FirmCalls \ ms /\ ms \subseteq FirmCalls /\ FirmCalls \subseteq Mine
    BY DEF FirmCalls
  <1>2. ASSUME NEW m \in ms PROVE Stage[m] \in {"half", "drawn"}
    <2>1. m \in Mine /\ m \in FirmCalls /\ Stage[m] = StageOf(m) /\ Stage'[m] = StageOf(m)'
      BY <1>1 DEF Stage, Mine
    <2>2. CASE StageOf(m) = "stored"
      <3>1. sound'[m]
        BY <2>1, <2>2, StoredFirm
      <3>2. StageOf(m)' = "stored" /\ Confirmable(m)'
        BY <2>1, <2>2, <3>1 DEF Confirmable
      <3>3. m \in FirmCalls'
        BY <2>1, <3>2 DEF FirmCalls, Mine
      <3>. QED
        BY <3>3
    <2>. QED
      BY <2>1, <2>2 DEF FirmCalls
  <1>3. UserStream!Doubt(ms)
    <2>. HIDE DEF ms
    <2>. QED
      BY <1>1, <1>2 DEF UserStream!Doubt
  <1>4. ms \in SUBSET Mine
    BY <1>1
  <1>. QED
    BY <1>3, <1>4 DEF UserStream!StreamNext, UserStream!RedisFails, UserStream!Msgs, Mine

\* A step that one of them sees.
LEMMA OneSeen ==
  ASSUME IInv, IInv', Addressed, NEW h \in Mine, \A g \in Mine \ {h} : Unseen(g)
  PROVE  /\ Stage' = [Stage EXCEPT ![h] = StageOf(h)']
         /\ ReceiverPts' =
                [ReceiverPts EXCEPT ![h] = IF h \in Incoming THEN RowOf(h)'.rpts ELSE 0]
         /\ SenderPts' =
                [SenderPts EXCEPT ![h] = IF h \in Outgoing THEN RowOf(h)'.spts ELSE 0]
  <1>1. \A g \in Mine \ {h} : UNCHANGED <<StageOf(g), RowOf(g)>>
    BY UnseenSame, MineCalls
  <1>. QED
    BY <1>1 DEF Stage, ReceiverPts, SenderPts, Mine

\* A step that its stage and its numbers do not show.
LEMMA OneSame ==
  ASSUME IInv, IInv', Addressed, NEW h \in Mine, \A g \in Mine \ {h} : Unseen(g),
         StageOf(h)' = StageOf(h),
         h \in Incoming => RowOf(h)'.rpts = RowOf(h).rpts,
         h \in Outgoing => RowOf(h)'.spts = RowOf(h).spts
  PROVE  UNCHANGED <<Stage, ReceiverPts, SenderPts>>
  <1>1. \A g \in Mine \ {h} : UNCHANGED <<StageOf(g), RowOf(g)>>
    BY UnseenSame, MineCalls
  <1>2. Stage' = Stage
    BY <1>1 DEF Stage, Mine
  <1>3. ReceiverPts' = ReceiverPts
    BY <1>1 DEF ReceiverPts, Mine
  <1>4. SenderPts' = SenderPts
    BY <1>1 DEF SenderPts, Mine
  <1>. QED
    BY <1>2, <1>3, <1>4

\* An INCR of the receiver's counter is a draw of the user's, if it is his.
LEMMA ReceiverDraws ==
  ASSUME IInv, IInv', Addressed, Me \in Users,
         NEW h \in Calls, NEW c \in Conns, IncrReceiver(h, c)
  PROVE  UserStream!DrawReceiver(h) \/ UNCHANGED UserStream!stream
  <1>1. /\ pc[h] = "incrReceiver" /\ Incr(to[h], c) /\ to[h] \in Users
        /\ rpts' = [rpts EXCEPT ![h] = Top[to[h]] + 1]
        /\ UNCHANGED <<pc, from, to, spts, rows, failovers, sound>>
        /\ \A g \in Calls \ {h} : via'[g] = via[g]
    BY DEF IncrReceiver, Incr, Send, IInv, TypeOK
  <1>2. /\ Top'[to[h]] = Top[to[h]] + 1
        /\ \A v \in Users : Top[v] \in Nat
        /\ \A v \in Users \ {to[h]} : Top'[v] = Top[v]
    BY <1>1, IncrTop DEF IInv
  <1>3. \A g \in Calls \ {h} : Unseen(g) /\ AsFirm(g)
    <2>1. \A g \in Calls \ {h} : Unseen(g)
      BY <1>1 DEF Unseen, IInv, TypeOK
    <2>2. \A g \in Calls : pc'[g] = pc[g] /\ sound'[g] = sound[g]
      BY <1>1
    <2>. QED
      BY <1>1, <2>1, <2>2 DEF AsFirm, Confirmable
  <1>4. /\ spts[h] = 0 /\ rpts[h] \in Nat /\ rpts'[h] = Top[to[h]] + 1
        /\ spts'[h] = 0
    BY <1>1 DEF IInv, TypeOK, Control, CallNumbers
  <1>5. /\ ~ HasRow(h) /\ ~ HasRow(h)' /\ pc[h] # "done" /\ pc'[h] # "done"
        /\ RowOf(h) = NewRow(h) /\ RowOf(h)' = NewRow(h)'
    BY <1>1, NoRow DEF HasRow, RowOf, Unborn
  <1>6. CASE to[h] = Me
    <2>1. h \in Incoming /\ h \in Mine
      BY <1>6, MineCalls DEF Mine
    <2>2. Stage[h] \in {"unsent", IF h \in Outgoing THEN "half" ELSE "drawn"}
      BY <1>4, <1>5, <2>1 DEF Stage, StageOf, AllDrawn, FirstDrawn
    <2>3. StageOf(h)' = IF h \in Outgoing THEN "half" ELSE "drawn"
      BY <1>2, <1>4, <1>5, <1>6, <2>1 DEF StageOf, AllDrawn, FirstDrawn
    <2>4. RowOf(h)'.rpts = Top[Me] + 1 /\ RowOf(h)'.spts = 0 /\ RowOf(h).spts = 0
      BY <1>4, <1>5, <1>6 DEF NewRow
    <2>5. SenderPts' = SenderPts
      BY <1>3, <2>1, <2>4, OneSeen, MineCalls DEF SenderPts
    <2>6. /\ Stage' = [Stage EXCEPT ![h] = IF h \in Outgoing THEN "half" ELSE "drawn"]
          /\ ReceiverPts' = [ReceiverPts EXCEPT ![h] = Top[Me] + 1]
      BY <1>3, <2>1, <2>3, <2>4, OneSeen, MineCalls
    <2>7. Top[Me] + 1 \in Nat /\ Top'[Me] = Top[Me] + 1
      BY <1>2, <1>6
    <2>8. FirmCalls' \in {FirmCalls \ {h}, FirmCalls \cup {h}}
      BY <1>3, OthersFirm, MineCalls
    <2>. QED
      BY <1>1, <2>1, <2>2, <2>5, <2>6, <2>7, <2>8
         DEF UserStream!DrawReceiver, UserStream!Increment
  <1>7. CASE to[h] # Me
    <2>1. Top'[Me] = Top[Me]
      BY <1>2, <1>7
    <2>2. CASE h \in Mine
      <3>1. h \notin Incoming
        BY <1>7, MineCalls
      <3>2. StageOf(h)' = StageOf(h) /\ RowOf(h)'.spts = RowOf(h).spts
        BY <1>4, <1>5, <3>1 DEF StageOf, AllDrawn, FirstDrawn, NewRow
      <3>3. UNCHANGED <<Stage, ReceiverPts, SenderPts>>
        BY <1>3, <2>2, <3>1, <3>2, OneSame, MineCalls
      <3>4. h \in Outgoing
        BY <2>2, <3>1 DEF Mine
      <3>5. StageOf(h) = "unsent" /\ StageOf(h)' = "unsent"
        BY <1>4, <1>5, <3>1, <3>4 DEF StageOf, AllDrawn, FirstDrawn
      <3>6. FirmCalls' = FirmCalls
        <4>1. h \notin FirmCalls /\ h \notin FirmCalls'
          BY <3>5 DEF FirmCalls
        <4>. QED
          BY <1>3, <4>1, OthersFirm, MineCalls
      <3>. QED
        BY <1>1, <2>1, <3>3, <3>6 DEF UserStream!stream
    <2>3. CASE h \notin Mine
      BY <1>1, <1>3, <2>1, <2>3, NothingSeen, MineCalls
    <2>. QED
      BY <2>2, <2>3
  <1>. QED
    BY <1>6, <1>7

\* So is one of the sender's; one of somebody else's counter may leave over another
\* connection than that of his own.
LEMMA SenderDraws ==
  ASSUME IInv, IInv', Addressed, Me \in Users,
         NEW h \in Calls, NEW c \in Conns, IncrSender(h, c)
  PROVE  UserStream!DrawSender(h) \/ UNCHANGED UserStream!stream \/ UserStream!StreamNext
  <1>1. /\ pc[h] = "incrSender" /\ Incr(from[h], c) /\ from[h] \in Users
        /\ spts' = [spts EXCEPT ![h] = Top[from[h]] + 1]
        /\ UNCHANGED <<pc, from, to, rpts, rows, failovers, sound>>
        /\ \A g \in Calls \ {h} : via'[g] = via[g]
        /\ via'[h] # NoConn => via[h] # NoConn
    BY NoConnAssumption DEF IncrSender, Incr, Send, IInv, TypeOK
  <1>2. /\ Top'[from[h]] = Top[from[h]] + 1
        /\ \A v \in Users : Top[v] \in Nat
        /\ \A v \in Users \ {from[h]} : Top'[v] = Top[v]
    BY <1>1, IncrTop DEF IInv
  <1>3. \A g \in Calls \ {h} : Unseen(g) /\ AsFirm(g)
    <2>1. \A g \in Calls \ {h} : Unseen(g)
      BY <1>1 DEF Unseen, IInv, TypeOK
    <2>2. \A g \in Calls : pc'[g] = pc[g] /\ sound'[g] = sound[g]
      BY <1>1
    <2>. QED
      BY <1>1, <2>1, <2>2 DEF AsFirm, Confirmable
  <1>4. /\ rpts[h] > 0 /\ rpts'[h] = rpts[h] /\ spts[h] \in Nat
        /\ spts'[h] = Top[from[h]] + 1
    BY <1>1 DEF IInv, TypeOK, Control, CallNumbers
  <1>5. /\ ~ HasRow(h) /\ ~ HasRow(h)' /\ pc[h] # "done" /\ pc'[h] # "done"
        /\ RowOf(h) = NewRow(h) /\ RowOf(h)' = NewRow(h)'
    BY <1>1, NoRow DEF HasRow, RowOf, Unborn
  <1>6. CASE from[h] = Me
    <2>1. h \in Outgoing /\ h \in Mine
      BY <1>6, MineCalls DEF Mine
    <2>2. Stage[h] \in {"drawn", IF h \in Incoming THEN "half" ELSE "unsent"}
      BY <1>4, <1>5, <2>1 DEF Stage, StageOf, AllDrawn, FirstDrawn
    <2>3. StageOf(h)' = "drawn"
      BY <1>2, <1>4, <1>5, <1>6, <2>1 DEF StageOf, AllDrawn, FirstDrawn
    <2>4. RowOf(h)'.spts = Top[Me] + 1 /\ RowOf(h)'.rpts = RowOf(h).rpts
      BY <1>4, <1>5, <1>6 DEF NewRow
    <2>5. ReceiverPts' = ReceiverPts
      BY <1>3, <2>1, <2>4, OneSeen, MineCalls DEF ReceiverPts
    <2>6. /\ Stage' = [Stage EXCEPT ![h] = "drawn"]
          /\ SenderPts' = [SenderPts EXCEPT ![h] = Top[Me] + 1]
      BY <1>3, <2>1, <2>3, <2>4, OneSeen, MineCalls
    <2>7. Top[Me] + 1 \in Nat /\ Top'[Me] = Top[Me] + 1
      BY <1>2, <1>6
    <2>8. FirmCalls' \in {FirmCalls \ {h},
                         IF h \in Incoming THEN FirmCalls ELSE FirmCalls \cup {h}}
      <3>1. CASE h \notin Incoming \/ h \notin FirmCalls'
        BY <1>3, <3>1, OthersFirm, MineCalls
      <3>2. CASE h \in Incoming /\ h \in FirmCalls'
        <4>1. Confirmable(h)
          BY <1>1, <3>2 DEF FirmCalls, Confirmable, Commands
        <4>2. StageOf(h) \in {"half", "drawn"}
          BY <1>4, <1>5, <2>1, <3>2 DEF StageOf, AllDrawn, FirstDrawn
        <4>3. h \in FirmCalls
          BY <2>1, <4>1, <4>2 DEF FirmCalls
        <4>. QED
          BY <1>3, <3>2, <4>3, OthersFirm, MineCalls
      <3>. QED
        BY <3>1, <3>2
    <2>. QED
      BY <1>1, <2>1, <2>2, <2>5, <2>6, <2>7, <2>8
         DEF UserStream!DrawSender, UserStream!Increment
  <1>7. CASE from[h] # Me
    <2>1. Top'[Me] = Top[Me]
      BY <1>2, <1>7
    <2>2. CASE h \in Mine
      <3>1. h \notin Outgoing
        BY <1>7, MineCalls
      <3>2. StageOf(h)' = StageOf(h) /\ RowOf(h)'.rpts = RowOf(h).rpts
        BY <1>4, <1>5, <3>1 DEF StageOf, AllDrawn, FirstDrawn, NewRow
      <3>3. UNCHANGED <<Stage, ReceiverPts, SenderPts>>
        BY <1>3, <2>2, <3>1, <3>2, OneSame, MineCalls
      <3>4. FirmCalls' \subseteq FirmCalls
        <4>1. h \in FirmCalls' => h \in FirmCalls
          BY <1>1, <3>2 DEF FirmCalls, Confirmable, Mine
        <4>. QED
          BY <1>3, <4>1, OthersFirm, MineCalls
      <3>. QED
        BY <1>1, <2>1, <3>3, <3>4, DoubtsSeen
    <2>3. CASE h \notin Mine
      BY <1>1, <1>3, <2>1, <2>3, NothingSeen, MineCalls
    <2>. QED
      BY <2>2, <2>3
  <1>. QED
    BY <1>6, <1>7

\* A call that returns, or that an INSERT is committed for, is seen by the stream of
\* no other call.
LEMMA ReturnUnseen ==
  ASSUME IInv, NEW h \in Calls,
         \A g \in Calls \ {h} :
             UNCHANGED <<pc[g], rpts[g], spts[g], from[g], to[g], via[g], sound[g]>>,
         rows' = rows \/ rows' = rows \cup {NewRow(h)}
  PROVE  \A g \in Calls \ {h} : Unseen(g) /\ AsFirm(g)
  BY DEF Unseen, AsFirm, Confirmable, NewRow

\* A row has its call's sender and receiver.
OwnRows == \A r \in rows : r.receiver = to[r.id] /\ r.sender = from[r.id]

\* A row that is inserted is a commit: what the constraints compare are his numbers.
LEMMA InsertCommits ==
  ASSUME IInv, IInv', Addressed, OwnRows, NEW h \in Calls, Insert(h) \/ LateInsert(h)
  PROVE  UserStream!Commit(h) \/ UNCHANGED UserStream!stream
  <1>0. /\ pc[h] \in {"insert", "adrift"} /\ pc'[h] \in {"inserted", "done"} /\ h \in Unborn
        /\ ~ UniqueViolation(NewRow(h)) /\ rows' = rows \cup {NewRow(h)}
        /\ Top'[Me] = Top[Me] /\ UNCHANGED <<failovers, sound>>
    BY DEF Insert, LateInsert, Unborn, Top, redis, IInv, TypeOK
  <1>1. \A g \in Calls \ {h} : Unseen(g) /\ AsFirm(g)
    <2>1. \A g \in Calls \ {h} :
             UNCHANGED <<pc[g], rpts[g], spts[g], from[g], to[g], via[g], sound[g]>>
      BY DEF Insert, LateInsert, call, IInv, TypeOK
    <2>. QED
      BY <1>0, <2>1, ReturnUnseen
  <1>2. CASE h \in Mine
    <2>1. RowOf(h) = NewRow(h) /\ StageOf(h) = "drawn"
      BY <1>0, RunningRow DEF IInv, Control, CallNumbers, AllDrawn
    <2>2. NewRow(h) \in rows' /\ NewRow(h).id = h
      BY <1>0 DEF NewRow
    <2>3. \A r, s \in rows' : r.id = s.id => r = s
      BY DEF IInv, Control, RowControl
    <2>4. HasRow(h)' /\ (CHOOSE s \in rows' : s.id = h) = NewRow(h)
      BY <2>2, <2>3, RowFound DEF HasRow
    <2>5. RowOf(h)' = RowOf(h) /\ StageOf(h)' = "stored"
      BY <2>1, <2>4 DEF RowOf, StageOf
    <2>6. Stage[h] = "drawn" /\ Stage' = [Stage EXCEPT ![h] = "stored"]
      BY <1>1, <1>2, <2>1, <2>5, OneSeen, MineCalls DEF Stage
    <2>7. ReceiverPts' = ReceiverPts
      <3>1. ReceiverPts' =
                [ReceiverPts EXCEPT ![h] = IF h \in Incoming THEN RowOf(h).rpts ELSE 0]
        BY <1>1, <1>2, <2>5, OneSeen, MineCalls
      <3>. QED
        BY <1>2, <3>1 DEF ReceiverPts
    <2>8. SenderPts' = SenderPts
      <3>1. SenderPts' =
                [SenderPts EXCEPT ![h] = IF h \in Outgoing THEN RowOf(h).spts ELSE 0]
        BY <1>1, <1>2, <2>5, OneSeen, MineCalls
      <3>. QED
        BY <1>2, <3>1 DEF SenderPts
    <2>9. AsFirm(h)
      BY <1>0 DEF AsFirm, Confirmable, Commands
    <2>10. FirmCalls' = FirmCalls
      <3>1. h \in FirmCalls' <=> h \in FirmCalls
        BY <1>2, <2>1, <2>5, <2>9 DEF FirmCalls, AsFirm, Mine
      <3>. QED
        BY <1>1, <3>1, OthersFirm, MineCalls
    <2>11. ASSUME NEW g \in Mine, Stage[g] = "stored"
           PROVE  /\ {h, g} \subseteq Incoming => ReceiverPts[g] # ReceiverPts[h]
                  /\ {h, g} \subseteq Outgoing => SenderPts[g] # SenderPts[h]
      <3>1. StageOf(g) = "stored" /\ g \in Calls
        BY <2>11, MineCalls DEF Stage
      <3>2. HasRow(g)
        BY <3>1 DEF StageOf
      <3>3. RowOf(g) \in rows /\ RowOf(g).id = g
        BY <3>2 DEF HasRow, RowOf
      <3>4. RowOf(g).receiver = to[g] /\ RowOf(g).sender = from[g]
        BY <3>3 DEF OwnRows
      <3>5. /\ RowOf(g).receiver = to[h] => RowOf(g).rpts # RowOf(h).rpts
            /\ RowOf(g).sender = from[h] => RowOf(g).spts # RowOf(h).spts
        BY <1>0, <2>1, <3>3 DEF UniqueViolation, NewRow
      <3>6. ReceiverPts[h] = (IF h \in Incoming THEN RowOf(h).rpts ELSE 0)
            /\ SenderPts[h] = (IF h \in Outgoing THEN RowOf(h).spts ELSE 0)
        BY <1>2 DEF ReceiverPts, SenderPts
      <3>7. ReceiverPts[g] = (IF g \in Incoming THEN RowOf(g).rpts ELSE 0)
            /\ SenderPts[g] = (IF g \in Outgoing THEN RowOf(g).spts ELSE 0)
        BY DEF ReceiverPts, SenderPts
      <3>. QED
        BY <3>1, <3>4, <3>5, <3>6, <3>7, MineCalls
    <2>12. UserStream!Unique(h)
      BY <2>11 DEF UserStream!Unique, UserStream!Msgs, Mine
    <2>. QED
      BY <1>0, <2>6, <2>7, <2>8, <2>10, <2>12 DEF UserStream!Commit
  <1>3. CASE h \notin Mine
    BY <1>0, <1>1, <1>3, NothingSeen, MineCalls
  <1>. QED
    BY <1>2, <1>3

\* Calls that end without a row lose their numbers.
LEMMA EndingBurns ==
  ASSUME IInv, IInv', Addressed, rows' = rows, Top'[Me] = Top[Me], failovers' = failovers,
         NEW ended \in SUBSET Calls, \A g \in Calls \ ended : Unseen(g) /\ AsFirm(g),
         \A g \in ended : /\ g \in Unborn /\ pc'[g] = "done"
                          /\ rpts'[g] = 0 /\ spts'[g] = 0
  PROVE  UserStream!Burn(ended \cap Mine)
  <1>. DEFINE ms == ended \cap Mine
  <1>1. \A g \in Mine \ ms : UNCHANGED <<StageOf(g), RowOf(g)>>
    BY UnseenSame, MineCalls
  <1>2. ASSUME NEW g \in ms
        PROVE  /\ StageOf(g) \in {"unsent", "half", "drawn"}
               /\ StageOf(g)' = "failed" /\ RowOf(g)'.rpts = 0 /\ RowOf(g)'.spts = 0
    <2>1. g \in Calls /\ g \in Unborn /\ \A r \in rows' : r.id # g
      BY NoRow
    <2>2. (~ HasRow(g))' /\ RowOf(g)' = NewRow(g)' /\ (pc[g] = "done")'
      BY <2>1 DEF HasRow, RowOf
    <2>. QED
      BY <2>1, <2>2, RunningRow DEF StageOf, NewRow
  <1>3. \A g \in ms : Stage[g] \in {"unsent", "half", "drawn"}
    BY <1>2 DEF Stage
  <1>4. Stage' = [g \in Mine |-> IF g \in ms THEN "failed" ELSE Stage[g]]
    BY <1>1, <1>2 DEF Stage, Mine
  <1>5. ReceiverPts' = [g \in Mine |-> IF g \in ms THEN 0 ELSE ReceiverPts[g]]
    BY <1>1, <1>2 DEF ReceiverPts, Mine
  <1>6. SenderPts' = [g \in Mine |-> IF g \in ms THEN 0 ELSE SenderPts[g]]
    BY <1>1, <1>2 DEF SenderPts, Mine
  <1>7. FirmCalls' = FirmCalls \ ms
    <2>1. \A g \in Mine \ ms : g \in FirmCalls' <=> g \in FirmCalls
      BY <1>1, MineCalls DEF FirmCalls, AsFirm, Mine
    <2>2. \A g \in ms : g \notin FirmCalls'
      BY <1>2 DEF FirmCalls
    <2>3. FirmCalls \subseteq Mine /\ FirmCalls' \subseteq Mine
      BY DEF FirmCalls, Mine
    <2>. HIDE DEF ms
    <2>. QED
      BY <2>1, <2>2, <2>3
  <1>. QED
    BY <1>3, <1>4, <1>5, <1>6, <1>7 DEF UserStream!Burn, UserStream!Msgs, Mine

\* A call that returns: one that does, or one that has its row.
LEMMA ReturnBurns ==
  ASSUME IInv, IInv', Addressed, rows' = rows, Top'[Me] = Top[Me],
         UNCHANGED <<failovers, sound>>, NEW h \in Calls, pc[h] \notin {"adrift", "done"},
         NEW a, a # "ok" \/ pc[h] = "inserted", Return(h, a)
  PROVE  (\E ms \in SUBSET Mine : UserStream!Burn(ms)) \/ UNCHANGED UserStream!stream
  <1>1. \A g \in Calls \ {h} : Unseen(g) /\ AsFirm(g)
    <2>1. \A g \in Calls \ {h} :
             UNCHANGED <<pc[g], rpts[g], spts[g], from[g], to[g], via[g], sound[g]>>
      BY DEF Return, IInv, TypeOK
    <2>. QED
      BY <2>1, ReturnUnseen
  <1>2. CASE pc[h] = "inserted"
    <2>1. NewRow(h) \in rows /\ NewRow(h).id = h
      BY <1>2 DEF IInv, Control, RowControl, NewRow
    <2>2. Unseen(h)
      BY <2>1 DEF Unseen, HasRow
    <2>3. AsFirm(h)
      BY <1>2 DEF Return, AsFirm, Confirmable, Commands, IInv, TypeOK
    <2>. QED
      BY <1>1, <2>2, <2>3, NothingSeen, MineCalls
  <1>3. CASE pc[h] # "inserted"
    <2>1. h \in Unborn /\ pc'[h] = "done" /\ rpts'[h] = 0 /\ spts'[h] = 0
      BY <1>3 DEF Return, Unborn, IInv, TypeOK
    <2>2. UserStream!Burn({h} \cap Mine)
      BY <1>1, <2>1, EndingBurns
    <2>. QED
      BY <2>2
  <1>. QED
    BY <1>2, <1>3

\* A failover takes the counter back to what the replica has, which has the numbers
\* of every call whose WAIT it has answered.
LEMMA FailoverLoses ==
  ASSUME IInv, IInv', Addressed, OwnRows, Me \in Users, Failover
  PROVE  UserStream!StreamNext
  <1>1. /\ data' = << data[1] >> /\ failovers' = failovers + 1
        /\ UNCHANGED <<pc, from, to, rpts, spts, rows, sound>>
        /\ \A h \in Calls : via'[h] = NoConn
    BY DEF Failover, Survivors, call
  <1>2. Top' = data[1]
    BY <1>1, OneElement DEF Top
  <1>3. data[1][Me] \in Nat /\ Top[Me] \in Nat /\ data[1][Me] <= Top[Me]
    <2>1. /\ Len(data) \in Nat \ {0} /\ 1 \in 1 .. Len(data) /\ Len(data) \in 1 .. Len(data)
          /\ data[1] \in Counters
      BY DataType DEF IInv, TypeOK
    <2>2. data[1][Me] <= data[Len(data)][Me]
      BY <2>1 DEF IInv, Replication, Growing
    <2>. QED
      BY <2>1, <2>2, TopType DEF IInv, Counters, Top
  <1>4. \A g \in Mine : UNCHANGED <<StageOf(g), RowOf(g)>>
    <2>1. \A g \in Calls : Unseen(g)
      BY <1>1 DEF Unseen
    <2>. QED
      BY <2>1, UnseenSame, MineCalls
  <1>5. UNCHANGED <<Stage, ReceiverPts, SenderPts>>
    BY <1>4 DEF Stage, ReceiverPts, SenderPts, Mine
  <1>6. \A g \in Mine : g \in FirmCalls' <=> g \in FirmCalls /\ sound[g]
    BY <1>1, <1>4, MineCalls DEF FirmCalls, Confirmable, Mine
  <1>7. FirmCalls' \subseteq FirmCalls /\ FirmCalls \subseteq Mine
    BY <1>6 DEF FirmCalls, Mine
  <1>8. ASSUME NEW g \in FirmCalls'
        PROVE  ReceiverPts[g] <= data[1][Me] /\ SenderPts[g] <= data[1][Me]
    <2>1. g \in Mine /\ g \in Calls /\ sound[g] /\ 1 \in 1 .. Len(data)
      BY <1>6, <1>7, MineCalls, DataType DEF IInv, TypeOK
    <2>2. /\ g \in Incoming => RowOf(g).rpts <= data[1][Me]
          /\ g \in Outgoing => RowOf(g).spts <= data[1][Me]
      <3>1. CASE ~ HasRow(g)
        BY <2>1, <3>1, MineCalls
           DEF RowOf, NewRow, IInv, Replication, SoundCallIsDurable, Durable
      <3>2. ASSUME NEW r \in rows, r.id = g
            PROVE  /\ g \in Incoming => RowOf(g).rpts <= data[1][Me]
                   /\ g \in Outgoing => RowOf(g).spts <= data[1][Me]
        <4>1. RowOf(g) = r
          BY <3>2, RowFound DEF RowOf, HasRow, IInv, Control, RowControl
        <4>2. data[1][r.receiver] >= r.rpts /\ data[1][r.sender] >= r.spts
          BY <2>1, <3>2 DEF IInv, Replication, SoundWaitIsDurable, Durable
        <4>3. r \in Row /\ data[1] \in Counters
          BY <2>1, DataType DEF IInv, TypeOK
        <4>. QED
          BY <2>1, <3>2, <4>1, <4>2, <4>3, MineCalls DEF OwnRows, Row, Counters
      <3>. QED
        BY <3>1, <3>2 DEF HasRow
    <2>. QED
      BY <1>3, <2>1, <2>2 DEF ReceiverPts, SenderPts
  <1>9. \A g \in FirmCalls \ FirmCalls' : Stage[g] # "stored"
    BY <1>6, <1>7, StoredFirm DEF Stage
  <1>10. FirmCalls' \subseteq UserStream!Kept(data[1][Me])
    BY <1>7, <1>8 DEF UserStream!Kept
  <1>11. (failovers > 0)' = TRUE
    BY <1>1 DEF IInv, TypeOK
  <1>12. UserStream!Lose(data[1][Me], FirmCalls')
    BY <1>2, <1>3, <1>5, <1>9, <1>10, <1>11 DEF UserStream!Lose
  <1>. QED
    BY <1>3, <1>7, <1>12 DEF UserStream!StreamNext, UserStream!RedisFails

\* Every step of the service is one of the user's stream, or he does not see it.
LEMMA StreamStep ==
  ASSUME Me \in Users
  PROVE  IInv /\ IInv' /\ Addressed /\ OwnRows /\ [Next]_vars
           => [UserStream!StreamNext]_UserStream!stream
  <1>. SUFFICES ASSUME IInv, IInv', Addressed, OwnRows, [Next]_vars
                PROVE  [UserStream!StreamNext]_UserStream!stream
    OBVIOUS
  <1>1. \A h \in Mine : UserStream!PersistStep(h) => UserStream!StreamNext
    BY DEF UserStream!StreamNext, UserStream!Msgs, Mine
  <1>2. (\E ms \in SUBSET Mine : UserStream!Burn(ms)) => UserStream!StreamNext
    BY DEF UserStream!StreamNext, UserStream!Msgs, Mine
  <1>3. data' = data => Top'[Me] = Top[Me]
    BY DEF Top
  <1>4. ASSUME NEW h \in Calls, NEW c \in Conns, IncrReceiver(h, c)
        PROVE  [UserStream!StreamNext]_UserStream!stream
    BY <1>1, <1>4, ReceiverDraws
       DEF UserStream!DrawReceiver, UserStream!PersistStep, Mine
  <1>5. ASSUME NEW h \in Calls, NEW c \in Conns, IncrSender(h, c)
        PROVE  [UserStream!StreamNext]_UserStream!stream
    BY <1>1, <1>5, SenderDraws DEF UserStream!DrawSender, UserStream!PersistStep, Mine
  <1>6. ASSUME NEW h \in Calls, Insert(h) \/ LateInsert(h)
        PROVE  [UserStream!StreamNext]_UserStream!stream
    <2>1. CASE h \in Mine
      BY <1>1, <1>6, <2>1, InsertCommits DEF UserStream!PersistStep
    <2>2. CASE h \notin Mine
      <3>1. \A g \in Calls \ {h} :
               UNCHANGED <<pc[g], rpts[g], spts[g], from[g], to[g], via[g], sound[g]>>
        BY <1>6 DEF Insert, LateInsert, call, IInv, TypeOK
      <3>2. rows' = rows \cup {NewRow(h)} /\ UNCHANGED <<data, failovers>>
        BY <1>6 DEF Insert, LateInsert, redis
      <3>. QED
        BY <1>3, <2>2, <3>1, <3>2, ReturnUnseen, NothingSeen, MineCalls
    <2>. QED
      BY <2>1, <2>2
  <1>8. ASSUME NEW h \in Calls,
               \/ WaitTimedOut(h) \/ RedisError(h) \/ InsertOk(h)
               \/ InsertDuplicate(h) \/ InsertResent(h) \/ (InsertError(h) /\ Return(h, "internal"))
        PROVE  [UserStream!StreamNext]_UserStream!stream
    <2>1. UNCHANGED <<data, failovers, rows, sound>>
      BY <1>8 DEF WaitTimedOut, RedisError, InsertOk, InsertDuplicate, InsertResent, InsertError,
                  redis
    <2>2. /\ pc[h] \notin {"adrift", "done"}
          /\ \E a \in Answers : (a # "ok" \/ pc[h] = "inserted") /\ Return(h, a)
      BY <1>8 DEF WaitTimedOut, RedisError, InsertOk, InsertDuplicate, InsertResent, InsertError,
                  Commands, Answers
    <2>. QED
      BY <1>2, <1>3, <2>1, <2>2, ReturnBurns
  <1>9. ASSUME NEW h \in Calls, pc[h] = "insert", InsertError(h), LeaveAdrift(h, "internal")
        PROVE  [UserStream!StreamNext]_UserStream!stream
    <2>1. UNCHANGED <<data, failovers, rows, sound, rpts, spts, from, to, via>>
      BY <1>9 DEF InsertError, LeaveAdrift, redis, call
    <2>2. pc' = [pc EXCEPT ![h] = "adrift"] /\ DOMAIN pc = Calls
      BY <1>9 DEF LeaveAdrift, IInv, TypeOK
    <2>3. \A g \in Calls : Unseen(g) /\ AsFirm(g)
      BY <1>9, <2>1, <2>2 DEF Unseen, AsFirm, Confirmable, Commands
    <2>. QED
      BY <1>3, <2>1, <2>3, NothingSeen, MineCalls
  <1>7. ASSUME NEW h \in Calls, InsertError(h) PROVE [UserStream!StreamNext]_UserStream!stream
    BY <1>7, <1>8, <1>9 DEF InsertError
  <1>10. ASSUME NEW h \in Calls,
                \/ Call(h) \/ IncrReply(h) \/ WaitAcked(h) \/ ReplyLost(h)
                \/ \E c \in Conns : Wait(h, c)
         PROVE  [UserStream!StreamNext]_UserStream!stream
    <2>1. UNCHANGED <<data, failovers, rpts, spts, from, to, rows>>
      BY <1>10 DEF Call, IncrReply, WaitAcked, ReplyLost, Wait, redis, call
    <2>2. /\ \/ pc' = pc
             \/ pc' = [pc EXCEPT ![h] = "incrReceiver"] \/ pc' = [pc EXCEPT ![h] = "incrSender"]
             \/ pc' = [pc EXCEPT ![h] = "wait"] \/ pc' = [pc EXCEPT ![h] = "insert"]
          /\ pc' = pc \/ pc[h] # "done"
      BY <1>10 DEF Call, IncrReply, WaitAcked, ReplyLost, Wait
    <2>3. \A g \in Calls : (pc'[g] = "done") = (pc[g] = "done")
      <3>1. DOMAIN pc = Calls
        BY DEF IInv, TypeOK
      <3>. QED
        BY <2>2, <3>1
    <2>4. \A g \in Calls : Unseen(g)
      BY <2>1, <2>3 DEF Unseen
    <2>5. \A g \in Mine : UNCHANGED <<StageOf(g), RowOf(g)>>
      BY <2>4, UnseenSame, MineCalls
    <2>6. UNCHANGED <<Stage, ReceiverPts, SenderPts>>
      BY <2>5 DEF Stage, ReceiverPts, SenderPts, Mine
    <2>7. \A g \in Calls : sound[g] => sound'[g]
      <3>1. \/ sound' = sound
            \/ pc[h] = "wait" /\ sound' = [sound EXCEPT ![h] = via[h] # NoConn]
        BY <1>10 DEF Call, IncrReply, WaitAcked, ReplyLost, Wait
      <3>2. pc[h] = "wait" => ~ sound[h]
        BY DEF IInv, Control, CallFlags, Commands
      <3>3. DOMAIN sound = Calls
        BY DEF IInv, TypeOK
      <3>. QED
        BY <3>1, <3>2, <3>3
    <2>8. \A g \in Calls \ {h} : Confirmable(g)' => Confirmable(g)
      <3>1. DOMAIN pc = Calls /\ DOMAIN sound = Calls /\ DOMAIN via = Calls
        BY DEF IInv, TypeOK
      <3>2. \A g \in Calls \ {h} : pc'[g] = pc[g]
        BY <2>2, <3>1
      <3>3. \A g \in Calls \ {h} : sound'[g] = sound[g]
        BY <1>10, <3>1 DEF Call, IncrReply, WaitAcked, ReplyLost, Wait
      <3>4. CASE Call(h) \/ IncrReply(h)
        BY <3>2, <3>3, <3>4 DEF Call, IncrReply, Confirmable
      <3>5. CASE WaitAcked(h) \/ \E c \in Conns : Wait(h, c)
        <4>1. \A g \in Calls \ {h} : via'[g] = via[g]
          BY <3>1, <3>5 DEF WaitAcked, Wait, Send
        <4>. QED
          BY <3>2, <3>3, <4>1 DEF Confirmable
      <3>6. CASE ReplyLost(h)
        <4>1. \A g \in Calls : via'[g] = via[g] \/ via'[g] = NoConn
          BY <3>6 DEF ReplyLost, Forget
        <4>. QED
          BY <3>2, <3>3, <4>1 DEF Confirmable
      <3>. QED
        BY <1>10, <3>4, <3>5, <3>6
    <2>9. h \in Mine => (Confirmable(h)' => Confirmable(h)) \/ StageOf(h)' = "unsent"
      <3>1. CASE Call(h)
        <4>1. (~ HasRow(h))' /\ (pc[h] # "done")'
          BY <2>1, <2>3, <3>1, NoRow DEF Call, HasRow, Unborn
        <4>2. rpts'[h] = 0 /\ spts'[h] = 0
          BY <2>1, <3>1 DEF Call, IInv, Control, CallNumbers
        <4>. QED
          BY <4>1, <4>2 DEF StageOf, AllDrawn, FirstDrawn, Mine
      <3>2. CASE IncrReply(h) \/ WaitAcked(h)
        BY <3>2 DEF IncrReply, WaitAcked, Confirmable, Commands, IInv, TypeOK
      <3>3. CASE ReplyLost(h) \/ \E c \in Conns : Wait(h, c)
        BY <3>3, NoConnAssumption DEF ReplyLost, Wait, Send, Forget, Confirmable, IInv, TypeOK
      <3>. QED
        BY <1>10, <3>1, <3>2, <3>3
    <2>10. FirmCalls' \subseteq FirmCalls
      BY <2>5, <2>8, <2>9, MineCalls DEF FirmCalls, Mine
    <2>. QED
      BY <1>3, <2>1, <2>6, <2>7, <2>10, DoubtsSeen, MineCalls
  <1>11. CASE Replicate \/ Rejoin \/ UNCHANGED vars
    <2>1. \A g \in Calls : Unseen(g) /\ AsFirm(g)
      BY <1>11 DEF Replicate, Rejoin, vars, call, Unseen, AsFirm, Confirmable
    <2>2. Top' = Top
      <3>1. CASE Replicate
        BY <3>1, NotFirst DEF Replicate, IInv, TypeOK, Top
      <3>2. CASE Rejoin
        BY <3>2, TopType, OneElement DEF Rejoin, IInv, Top
      <3>3. CASE UNCHANGED vars
        BY <3>3 DEF vars, redis, Top
      <3>. QED
        BY <1>11, <3>1, <3>2, <3>3
    <2>3. failovers' = failovers
      BY <1>11 DEF Replicate, Rejoin, vars, redis
    <2>. QED
      BY <2>1, <2>2, <2>3, NothingSeen, MineCalls
  <1>12. CASE Crash
    <2>1. /\ UNCHANGED <<data, failovers, rows, sound, from, to>>
          /\ \A h \in Calls : via'[h] = NoConn
      BY <1>12 DEF Crash, redis
    <2>2. PICK late \in SUBSET {h \in Calls : pc[h] = "insert"} :
            \A h \in Calls :
              /\ pc'[h] = IF h \in late THEN "adrift" ELSE IF Running(h) THEN "done" ELSE pc[h]
              /\ rpts'[h] = IF Running(h) /\ h \notin late THEN 0 ELSE rpts[h]
              /\ spts'[h] = IF Running(h) /\ h \notin late THEN 0 ELSE spts[h]
      BY <1>12, Crashed
    <2>. DEFINE ended == {h \in Calls : Running(h) /\ pc[h] # "inserted" /\ h \notin late}
    <2>3. ASSUME NEW g \in Calls \ ended PROVE Unseen(g) /\ AsFirm(g)
      <3>1. AsFirm(g)
        BY <2>1, <2>2, <2>3 DEF AsFirm, Confirmable, Commands, Running
      <3>2. CASE pc[g] = "inserted"
        <4>1. NewRow(g) \in rows /\ NewRow(g).id = g
          BY <3>2 DEF IInv, Control, RowControl, NewRow
        <4>. QED
          BY <2>1, <3>1, <4>1 DEF Unseen, HasRow
      <3>3. CASE pc[g] # "inserted"
        BY <2>1, <2>2, <2>3, <3>1, <3>3 DEF Unseen, Running
      <3>. QED
        BY <3>2, <3>3
    <2>4. \A g \in ended : g \in Unborn /\ pc'[g] = "done" /\ rpts'[g] = 0 /\ spts'[g] = 0
      BY <2>2 DEF Running, Unborn
    <2>5. UserStream!Burn(ended \cap Mine)
      BY <1>3, <2>1, <2>3, <2>4, EndingBurns
    <2>. QED
      BY <1>2, <2>5
  <1>13. CASE Failover
    BY <1>13, FailoverLoses
  <1>. QED
    BY <1>4, <1>5, <1>6, <1>7, <1>8, <1>10, <1>11, <1>12, <1>13 DEF Next, Step

\* Nothing is drawn or stored before the first call.
LEMMA StreamStart == ASSUME Me \in Users PROVE Init /\ Addressed => UserStream!StreamInit
  <1>. SUFFICES ASSUME Init, Addressed PROVE UserStream!StreamInit
    OBVIOUS
  <1>1. Top[Me] = 0
    BY DEF Init, Top
  <1>2. \A h \in Mine : /\ StageOf(h) = "unsent"
                        /\ RowOf(h).rpts = 0 /\ RowOf(h).spts = 0
    BY MineCalls DEF Init, StageOf, RowOf, HasRow, NewRow, AllDrawn, FirstDrawn, Mine
  <1>3. FirmCalls = {}
    BY <1>2 DEF FirmCalls
  <1>4. (failovers > 0) = FALSE
    BY DEF Init
  <1>. QED
    BY <1>1, <1>2, <1>3, <1>4 DEF UserStream!StreamInit, UserStream!Msgs, Mine,
                                  Stage, ReceiverPts, SenderPts

\* Every call keeps its sender and its receiver.
LEMMA AddressesStay == [Next]_vars => UNCHANGED <<from, to>>
  <1>. USE DEF call, vars
  <1>1. ASSUME NEW h \in Calls, NEW c \in Conns, IncrReceiver(h, c) \/ IncrSender(h, c) \/ Wait(h, c)
        PROVE  UNCHANGED <<from, to>>
    BY <1>1 DEF IncrReceiver, IncrSender, Wait
  <1>2. ASSUME NEW h \in Calls, IncrReply(h) \/ WaitAcked(h) \/ WaitTimedOut(h) \/ RedisError(h)
        PROVE  UNCHANGED <<from, to>>
    BY <1>2 DEF IncrReply, WaitAcked, WaitTimedOut, RedisError, Return
  <1>3. ASSUME NEW h \in Calls, Insert(h) \/ InsertOk(h) \/ InsertDuplicate(h) \/ InsertResent(h)
        PROVE  UNCHANGED <<from, to>>
    BY <1>3 DEF Insert, InsertOk, InsertDuplicate, InsertResent, Return
  <1>4. ASSUME NEW h \in Calls, InsertError(h) PROVE UNCHANGED <<from, to>>
    BY <1>4 DEF InsertError, Return, LeaveAdrift
  <1>5. ASSUME NEW h \in Calls, Call(h) \/ ReplyLost(h) \/ LateInsert(h) PROVE UNCHANGED <<from, to>>
    BY <1>5 DEF Call, ReplyLost, LateInsert
  <1>6. CASE Replicate \/ Failover \/ Rejoin \/ Crash \/ UNCHANGED vars
    BY <1>6 DEF Replicate, Failover, Rejoin, Crash
  <1>. QED
    BY <1>1, <1>2, <1>3, <1>4, <1>5, <1>6 DEF Next, Step

\* No step changes what a message is, or whose.
LEMMA AddressedStep == Addressed /\ [Next]_vars => Addressed'
  <1>. SUFFICES ASSUME [Next]_vars PROVE UNCHANGED <<from, to>>
    BY DEF Addressed
  <1>. QED
    BY AddressesStay

\* Nor whose a row is.
LEMMA OwnRowsStep == OwnRows /\ [Next]_vars => OwnRows'
  <1>. SUFFICES ASSUME OwnRows, [Next]_vars PROVE OwnRows'
    OBVIOUS
  <1>1. UNCHANGED <<from, to>>
    BY AddressesStay
  <1>2. rows' = rows \/ \E h \in Calls : rows' = rows \cup {NewRow(h)}
    BY DEF Next, Step, Call, IncrReceiver, IncrSender, Wait, IncrReply, WaitAcked,
           WaitTimedOut, RedisError, Insert, InsertOk, InsertDuplicate, InsertResent,
           InsertError, LateInsert, ReplyLost, Replicate, Failover, Rejoin, Crash, vars
  <1>. QED
    BY <1>1, <1>2 DEF OwnRows, NewRow

\* What one user sees of PersistMessage is the stream that catch-up and the web
\* client are built on: overlapping calls, commands sent again, errors, crashes
\* and failovers included.
THEOREM StreamCorrect ==
  ASSUME Me \in Users
  PROVE  AddressedSpec => ImplementsStream
  <1>1. AddressedSpec => []IInv
    BY Invariance, PTL DEF AddressedSpec, AddressedInit, Spec
  <1>2. AddressedSpec => []Addressed
    BY AddressedStep, PTL DEF AddressedSpec, AddressedInit
  <1>3. AddressedSpec => UserStream!StreamInit
    BY StreamStart DEF AddressedSpec, AddressedInit
  <1>4. Init => OwnRows
    BY DEF Init, OwnRows
  <1>5. AddressedSpec => []OwnRows
    BY <1>4, OwnRowsStep, PTL DEF AddressedSpec, AddressedInit
  <1>6. IInv /\ IInv' /\ Addressed /\ OwnRows /\ [Next]_vars
          => [UserStream!StreamNext]_UserStream!stream
    BY StreamStep
  <1>. QED
    BY <1>1, <1>2, <1>3, <1>5, <1>6, PTL
       DEF AddressedSpec, ImplementsStream, UserStream!StreamSpec
=============================================================================

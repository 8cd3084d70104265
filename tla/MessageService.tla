--------------------------- MODULE MessageService ---------------------------
(***************************************************************************)
(* The message-service: PersistMessage (message-service/grpc/server.go)    *)
(* and AllocatePTSWithWait (message-service/store/redis.go), over the      *)
(* three things they use: a replicated Redis that keeps one PTS counter    *)
(* per user, the go-redis connection pool, and the messages table of       *)
(* Postgres with its two UNIQUE constraints.                               *)
(*                                                                         *)
(* Every call is one goroutine of the gRPC server.  A Redis command is two *)
(* steps, because that is what lets two goroutines swap connections: the   *)
(* command leaves over a connection of the pool and Redis executes it;     *)
(* later the reply arrives and the connection returns to the pool.         *)
(***************************************************************************)
EXTENDS Naturals, Sequences, FiniteSets

CONSTANTS
    Users,          \* user ids
    Calls,          \* the PersistMessage calls of a behaviour, one message each
    Conns,          \* connections the pool may have open at a time (PoolSize)
    NoConn,         \* no connection
    MaxRetries,     \* how often go-redis re-sends a command whose reply is lost
    MaxFailovers    \* bound on Redis failovers

ASSUME NoConnAssumption == NoConn \notin Conns
ASSUME BoundsAssumption == MaxRetries \in Nat /\ MaxFailovers \in Nat

VARIABLES
    data,       \* the counters: data[1] as the replica has them, then after
                \* each write it has not acknowledged; the last is the primary's
    linked,     \* does the primary have a replica?
    failovers,  \* failovers so far
    idle,       \* the pool's idle connections, the most recently used last
    behind,     \* behind[c]: writes the replica must still acknowledge before it
                \* has the last one sent over c (0: it has them all)
    pc,         \* where each call is
    from, to,   \* sender and receiver of the call's message
    rpts, spts, \* receiverPTS and senderPTS of the call (0: not allocated)
    conn,       \* the connection the call's command in flight holds
    tries,      \* lost replies of the call's current command
    rows,       \* the messages table
    answer,     \* what the call returned
    via,        \* history: the one open connection that carried all the call's
                \* commands until WAIT succeeded
    sound,      \* history: did WAIT succeed on the connection of both INCRs?
    earlier,    \* history: the calls answered before this one was issued
    resent      \* history: the calls whose INSERT was sent again after it was committed

redis == <<data, linked, failovers>>
pool  == <<idle, behind>>
call  == <<from, to, rpts, spts>>
vars  == <<redis, pool, pc, call, conn, tries, rows, answer, via, sound, earlier, resent>>

Commands == {"incrReceiver", "incrSender", "wait"}
Answers  == {"none", "ok", "unavailable", "internal", "lost"}
Counters == [Users -> Nat]
Row == [id: Calls, sender: Users, receiver: Users, spts: Nat, rpts: Nat]

Top == data[Len(data)]          \* the primary's counters

\* Types and ranges of the state: no connection waits for more writes than the
\* replica has yet to acknowledge.
TypeOK ==
    /\ data \in Seq(Counters) /\ Len(data) > 0
    /\ linked \in BOOLEAN
    /\ failovers \in Nat
    /\ idle \in Seq(Conns)
    /\ behind \in [Conns -> 0..(Len(data) - 1)]
    /\ pc \in [Calls -> Commands \cup {"idle", "insert", "inserted", "adrift", "done"}]
    /\ from \in [Calls -> Users] /\ to \in [Calls -> Users]
    /\ rpts \in [Calls -> Nat] /\ spts \in [Calls -> Nat]
    /\ conn \in [Calls -> Conns \cup {NoConn}]
    /\ tries \in [Calls -> Nat]
    /\ rows \subseteq Row
    /\ answer \in [Calls -> Answers]
    /\ via \in [Calls -> Conns \cup {NoConn}]
    /\ sound \in [Calls -> BOOLEAN]
    /\ earlier \in [Calls -> SUBSET Calls]
    /\ resent \subseteq Calls

Init ==
    /\ data = << [u \in Users |-> 0] >>
    /\ linked = TRUE /\ failovers = 0
    /\ idle = <<>> /\ behind = [c \in Conns |-> 0]
    /\ pc = [h \in Calls |-> "idle"]
    /\ from \in [Calls -> Users] /\ to \in [Calls -> Users]
    /\ rpts = [h \in Calls |-> 0] /\ spts = [h \in Calls |-> 0]
    /\ conn = [h \in Calls |-> NoConn] /\ tries = [h \in Calls |-> 0]
    /\ rows = {} /\ answer = [h \in Calls |-> "none"]
    /\ via = [h \in Calls |-> NoConn] /\ sound = [h \in Calls |-> FALSE]
    /\ earlier = [h \in Calls |-> {}] /\ resent = {}

----------------------------------------------------------------------------
(* The connection pool of go-redis, last in first out.                     *)

\* The pool hands out c: the idle connection used last, or a new one.
Checkout(c) ==
    IF idle # <<>>
    THEN /\ c = idle[Len(idle)]
         /\ idle' = SubSeq(idle, 1, Len(idle) - 1)
    ELSE /\ \A h \in Calls : conn[h] # c
         /\ UNCHANGED idle

\* Call h sends a command over c; via remembers whether it is still the only one.
Send(h, c, first) ==
    /\ conn[h] = NoConn
    /\ tries[h] <= MaxRetries
    /\ Checkout(c)
    /\ conn' = [conn EXCEPT ![h] = c]
    /\ via' = [via EXCEPT ![h] = IF first \/ via[h] = c THEN c ELSE NoConn]

\* The reply has arrived: h gives its connection back.
Release(h) ==
    /\ conn[h] # NoConn
    /\ idle' = Append(idle, conn[h])
    /\ conn' = [conn EXCEPT ![h] = NoConn]

\* The call returns; the numbers it drew are in its result, or in nothing.
Return(h, a) ==
    /\ pc' = [pc EXCEPT ![h] = "done"]
    /\ answer' = [answer EXCEPT ![h] = a]
    /\ tries' = [tries EXCEPT ![h] = 0]
    /\ via' = [via EXCEPT ![h] = NoConn]
    /\ rpts' = [rpts EXCEPT ![h] = IF a = "ok" THEN @ ELSE 0]
    /\ spts' = [spts EXCEPT ![h] = IF a = "ok" THEN @ ELSE 0]
    /\ UNCHANGED <<from, to>>

----------------------------------------------------------------------------
(* PersistMessage, step by step.                                           *)

\* A gateway calls PersistMessage(from[h], to[h]).
Call(h) ==
    /\ pc[h] = "idle"
    /\ pc' = [pc EXCEPT ![h] = "incrReceiver"]
    /\ earlier' = [earlier EXCEPT ![h] = {g \in Calls : answer[g] # "none"}]
    /\ UNCHANGED <<redis, pool, call, conn, tries, rows, answer, via, sound, resent>>

\* Mutant: DECR in place of INCR.
Decr(u, c) ==
    /\ data' = Append(data, [Top EXCEPT ![u] = @ - 1])
    /\ behind' = [behind EXCEPT ![c] = Len(data)]
    /\ UNCHANGED <<linked, failovers>>

\* Redis executes INCR user:<u>:pts, received over c.
Incr(u, c) ==
    /\ data' = Append(data, [Top EXCEPT ![u] = @ + 1])
    /\ behind' = [behind EXCEPT ![c] = Len(data)]
    /\ UNCHANGED <<linked, failovers>>

IncrReceiver(h, c) ==
    /\ pc[h] = "incrReceiver"
    /\ Send(h, c, TRUE)
    /\ Incr(to[h], c)
    /\ rpts' = [rpts EXCEPT ![h] = Top[to[h]] + 1]
    /\ UNCHANGED <<pc, from, to, spts, tries, rows, answer, sound, earlier, resent>>

\* Mutant: the second INCR uses the receiver's key again.
IncrSenderOnReceiverKey(h, c) ==
    /\ pc[h] = "incrSender"
    /\ Send(h, c, FALSE)
    /\ Incr(to[h], c)
    /\ spts' = [spts EXCEPT ![h] = Top[to[h]] + 1]
    /\ UNCHANGED <<pc, from, to, rpts, tries, rows, answer, sound, earlier, resent>>

\* Mutant: the sender's counter is read with GET instead of incremented.
GetSender(h, c) ==
    /\ pc[h] = "incrSender"
    /\ Send(h, c, FALSE)
    /\ spts' = [spts EXCEPT ![h] = Top[from[h]]]
    /\ UNCHANGED <<redis, behind, pc, from, to, rpts, tries, rows, answer, sound, earlier, resent>>

IncrSender(h, c) ==
    /\ pc[h] = "incrSender"
    /\ Send(h, c, FALSE)
    /\ Incr(from[h], c)
    /\ spts' = [spts EXCEPT ![h] = Top[from[h]] + 1]
    /\ UNCHANGED <<pc, from, to, rpts, tries, rows, answer, sound, earlier, resent>>

\* The reply of an INCR reaches the call, which goes on to its next command.
IncrReply(h) ==
    /\ pc[h] \in {"incrReceiver", "incrSender"}
    /\ Release(h)
    /\ pc' = [pc EXCEPT ![h] = IF @ = "incrReceiver" THEN "incrSender" ELSE "wait"]
    /\ tries' = [tries EXCEPT ![h] = 0]
    /\ UNCHANGED <<redis, behind, call, rows, answer, via, sound, earlier, resent>>

\* WAIT 1 100 leaves over a connection of the pool; Redis now waits.
Wait(h, c) ==
    /\ pc[h] = "wait"
    /\ Send(h, c, FALSE)
    /\ UNCHANGED <<redis, behind, pc, call, tries, rows, answer, sound, earlier, resent>>

\* A replica has acknowledged the last write of connection c; on a connection
\* that has written nothing, every replica has.
Acked(c) == linked /\ behind[c] = 0

\* acked >= 1: both numbers are taken for durable.
WaitAcked(h) ==
    /\ pc[h] = "wait"
    /\ Release(h)
    /\ Acked(conn[h])
    /\ pc' = [pc EXCEPT ![h] = "insert"]
    /\ sound' = [sound EXCEPT ![h] = via[h] # NoConn]
    /\ via' = [via EXCEPT ![h] = NoConn]
    /\ UNCHANGED <<redis, behind, call, tries, rows, answer, earlier, resent>>

\* Mutant: acked < 1 is not looked at.
WaitIgnoresCount(h) ==
    /\ pc[h] = "wait"
    /\ Release(h)
    /\ ~ Acked(conn[h])
    /\ pc' = [pc EXCEPT ![h] = "insert"]
    /\ sound' = [sound EXCEPT ![h] = via[h] # NoConn]
    /\ via' = [via EXCEPT ![h] = NoConn]
    /\ UNCHANGED <<redis, behind, call, tries, rows, answer, earlier, resent>>

\* Mutant: the timeout is 0, which Redis reads as "wait for ever".
WaitForever(h) == FALSE /\ pc' = pc /\ UNCHANGED vars

\* 100 ms pass without an acknowledgement: ErrPTSNotDurable, codes.Unavailable.
WaitTimedOut(h) ==
    /\ pc[h] = "wait"
    /\ Release(h)
    /\ ~ Acked(conn[h])
    /\ Return(h, "unavailable")
    /\ UNCHANGED <<redis, behind, rows, sound, earlier, resent>>

\* A command cannot be sent (pool timeout, dial error, context done), or was in
\* flight when its connection broke and is not re-sent: codes.Unavailable.
RedisError(h) ==
    /\ pc[h] \in Commands
    /\ conn[h] = NoConn
    /\ Return(h, "unavailable")
    /\ UNCHANGED <<redis, pool, conn, rows, sound, earlier, resent>>

NewRow(h) == [id |-> h, sender |-> from[h], receiver |-> to[h],
              spts |-> spts[h], rpts |-> rpts[h]]

\* uniq_receiver_pts or uniq_sender_pts rejects the row.
UniqueViolation(row) ==
    \E r \in rows : \/ r.receiver = row.receiver /\ r.rpts = row.rpts
                    \/ r.sender = row.sender /\ r.spts = row.spts

\* Postgres executes the INSERT of h and commits its row; the call does not know yet.
Insert(h) ==
    /\ pc[h] = "insert"
    /\ ~ UniqueViolation(NewRow(h))
    /\ rows' = rows \cup {NewRow(h)}
    /\ pc' = [pc EXCEPT ![h] = "inserted"]
    /\ UNCHANGED <<redis, pool, call, conn, tries, answer, via, sound, earlier, resent>>

\* The answer of the INSERT reaches the call.
InsertOk(h) ==
    /\ pc[h] = "inserted"
    /\ Return(h, "ok")
    /\ UNCHANGED <<redis, pool, conn, rows, sound, earlier, resent>>

\* Mutant: ON CONFLICT DO NOTHING, so a duplicate looks like a success.
InsertDuplicateIgnored(h) ==
    /\ pc[h] = "insert"
    /\ UniqueViolation(NewRow(h))
    /\ Return(h, "ok")
    /\ UNCHANGED <<redis, pool, conn, rows, sound, earlier, resent>>

\* Layer 2: a constraint of migration 002 rejects the row, codes.Unavailable.
InsertDuplicate(h) ==
    /\ pc[h] = "insert"
    /\ UniqueViolation(NewRow(h))
    /\ Return(h, "unavailable")
    /\ UNCHANGED <<redis, pool, conn, rows, sound, earlier, resent>>

\* The row is committed and the connection breaks before the answer: database/sql
\* sends the INSERT again, the primary key rejects its own row, and
\* isUniqueViolation takes that for a duplicate number.
InsertResent(h) ==
    /\ pc[h] = "inserted"
    /\ resent' = resent \cup {h}
    /\ Return(h, "unavailable")
    /\ UNCHANGED <<redis, pool, conn, rows, sound, earlier>>

\* The call ends while its INSERT is still on its way to Postgres.
LeaveAdrift(h, a) ==
    /\ pc' = [pc EXCEPT ![h] = "adrift"]
    /\ answer' = [answer EXCEPT ![h] = a]
    /\ UNCHANGED <<call, tries, via>>

\* Mutant: every error of the INSERT is reported as Unavailable.
InsertErrorUnavailable(h) ==
    /\ pc[h] \in {"insert", "inserted"}
    /\ Return(h, "unavailable") \/ (pc[h] = "insert" /\ LeaveAdrift(h, "unavailable"))
    /\ UNCHANGED <<redis, pool, conn, rows, sound, earlier, resent>>

\* Any other error (context done, connection lost), codes.Internal: the row is in the
\* table, or never will be, or is still on its way there.
InsertError(h) ==
    /\ pc[h] \in {"insert", "inserted"}
    /\ Return(h, "internal") \/ (pc[h] = "insert" /\ LeaveAdrift(h, "internal"))
    /\ UNCHANGED <<redis, pool, conn, rows, sound, earlier, resent>>

\* Postgres commits an INSERT nobody waits for any more.  One it rejects, or rolls
\* back because its connection is gone, just stays adrift.
LateInsert(h) ==
    /\ pc[h] = "adrift"
    /\ ~ UniqueViolation(NewRow(h))
    /\ rows' = rows \cup {NewRow(h)}
    /\ pc' = [pc EXCEPT ![h] = "done"]
    /\ rpts' = [rpts EXCEPT ![h] = 0] /\ spts' = [spts EXCEPT ![h] = 0]
    /\ UNCHANGED <<redis, pool, from, to, conn, tries, answer, via, sound, earlier, resent>>

----------------------------------------------------------------------------
(* The environment.                                                        *)

\* No call may rely on a closed connection any more.
Forget(closed) == [h \in Calls |-> IF via[h] \in closed THEN NoConn ELSE via[h]]

\* A reply is lost with its connection; go-redis re-sends the command (an INCR
\* then counts twice), or gives up and RedisError follows.
ReplyLost(h) ==
    /\ conn[h] # NoConn
    /\ tries' = [tries EXCEPT ![h] = @ + 1]
    /\ conn' = [conn EXCEPT ![h] = NoConn]
    /\ behind' = [behind EXCEPT ![conn[h]] = 0]
    /\ via' = Forget({conn[h]})
    /\ UNCHANGED <<redis, idle, pc, call, rows, answer, sound, earlier, resent>>

\* The replica applies and acknowledges the next write of the stream.
Replicate ==
    /\ linked
    /\ Len(data) > 1
    /\ data' = Tail(data)
    /\ behind' = [c \in Conns |-> IF behind[c] = 0 THEN 0 ELSE behind[c] - 1]
    /\ UNCHANGED <<linked, failovers, idle, pc, call, conn, tries, rows, answer,
                   via, sound, earlier, resent>>

\* What is left of the counters when the replica takes over.
Survivors == << data[1] >>

\* The primary is lost and its replica promoted: writes it had not applied are
\* gone, and every connection breaks.
Failover ==
    /\ linked
    /\ failovers < MaxFailovers
    /\ data' = Survivors
    /\ linked' = FALSE
    /\ failovers' = failovers + 1
    /\ idle' = <<>>
    /\ behind' = [c \in Conns |-> 0]
    /\ tries' = [h \in Calls |-> IF conn[h] = NoConn THEN tries[h] ELSE tries[h] + 1]
    /\ conn' = [h \in Calls |-> NoConn]
    /\ via' = [h \in Calls |-> NoConn]
    /\ UNCHANGED <<pc, call, rows, answer, sound, earlier, resent>>

\* The old primary returns as a replica, after a full resynchronisation.
Rejoin ==
    /\ ~ linked
    /\ linked' = TRUE
    /\ data' = << Top >>
    /\ behind' = [c \in Conns |-> 0]
    /\ UNCHANGED <<failovers, idle, pc, call, conn, tries, rows, answer,
                   via, sound, earlier, resent>>

Running(h) == pc[h] \notin {"idle", "adrift", "done"}

\* The message-service process dies and is started again: its calls never answer,
\* and the numbers they had drawn stay used up.  Of their INSERTs some are committed,
\* some (late) still may be, the others never reach Postgres.
Crash ==
    /\ \E h \in Calls : Running(h)
    /\ \E late \in SUBSET {h \in Calls : pc[h] = "insert"} :
         LET ended(h) == Running(h) /\ h \notin late IN
         /\ pc' = [h \in Calls |->
                     IF h \in late THEN "adrift" ELSE IF Running(h) THEN "done" ELSE pc[h]]
         /\ rpts' = [h \in Calls |-> IF ended(h) THEN 0 ELSE rpts[h]]
         /\ spts' = [h \in Calls |-> IF ended(h) THEN 0 ELSE spts[h]]
    /\ answer' = [h \in Calls |-> IF Running(h) THEN "lost" ELSE answer[h]]
    /\ idle' = <<>>
    /\ behind' = [c \in Conns |-> 0]
    /\ conn' = [h \in Calls |-> NoConn]
    /\ via' = [h \in Calls |-> NoConn]
    /\ tries' = [h \in Calls |-> 0]
    /\ UNCHANGED <<redis, from, to, rows, sound, earlier, resent>>

----------------------------------------------------------------------------
Step(h) ==
    \/ \E c \in Conns : IncrReceiver(h, c) \/ IncrSender(h, c) \/ Wait(h, c)
    \/ IncrReply(h) \/ WaitAcked(h) \/ WaitTimedOut(h) \/ RedisError(h)
    \/ Insert(h) \/ InsertOk(h) \/ InsertDuplicate(h) \/ InsertResent(h) \/ InsertError(h)

Next ==
    \/ \E h \in Calls : Call(h) \/ Step(h) \/ ReplyLost(h) \/ LateInsert(h)
    \/ Replicate \/ Failover \/ Rejoin \/ Crash

Spec == Init /\ [][Next]_vars

\* The Go scheduler runs every goroutine, Redis answers a WAIT by its timeout,
\* and a pool or dial timeout ends a command that finds no connection.
Fairness == \A h \in Calls : WF_vars(Step(h))
FairSpec == Spec /\ Fairness
----------------------------------------------------------------------------
(* What the service promises.                                              *)

\* The uses a row makes of user u's numbering: as receiver, as sender.
Uses(u) == {<<r.id, "receiver", r.rpts>> : r \in {r \in rows : r.receiver = u}}
           \cup {<<r.id, "sender", r.spts>> : r \in {r \in rows : r.sender = u}}

\* A user's PTS is one timeline (a message sent and a message received never
\* share a number), whatever calls overlap, as long as Redis does not fail
\* over.  Both INCRs of AllocatePTSWithWait are needed for it.
OneTimeline ==
    failovers = 0 =>
        \A u \in Users : \A a, b \in Uses(u) : a[3] = b[3] => a = b

\* The same without the proviso: what the docs promise of the two layers.
NoDuplicatePts ==
    \A u \in Users : \A a, b \in Uses(u) : a[3] = b[3] => a = b

\* PersistMessage does not lie: a message reported persisted is in the table
\* under the numbers reported, and one reported Unavailable, which the comment of
\* Layer 2 calls rejected, is not and never will be, whatever INSERTs are still on
\* their way.  The one exception is the driver's: an INSERT it sent twice.
AnswerIsTrue ==
    \A h \in Calls :
        /\ answer[h] = "ok" => NewRow(h) \in rows
        /\ answer[h] = "unavailable" /\ h \notin resent => \A r \in rows : r.id # h

\* Every copy of the counters a client may ever read has passed n for user u.
Durable(u, n) == \A i \in 1..Len(data) : data[i][u] >= n

\* When WAIT ran on the connection that carried both INCRs, its answer means
\* what AllocatePTSWithWait takes it to mean: no failover forgets the numbers,
\* so they are never handed out again.
SoundWaitIsDurable ==
    \A r \in rows : sound[r.id] => Durable(r.receiver, r.rpts) /\ Durable(r.sender, r.spts)

\* The same for every call that inserts its row: the comment of
\* AllocatePTSWithWait, "a single WAIT after both INCRs suffices".
PersistedPtsIsDurable ==
    \A r \in rows : Durable(r.receiver, r.rpts) /\ Durable(r.sender, r.spts)

\* Layer 1 as redis.go promises it, for the calls it is true of: whatever calls
\* overlap and however often Redis fails over in between, two messages whose
\* WAIT ran on the connection of their INCRs never share a number of a user's,
\* sent or received.
SoundTimeline ==
    \A u \in Users : \A a, b \in Uses(u) :
        sound[a[1]] /\ sound[b[1]] /\ a[3] = b[3] => a = b

\* A call issued after another was answered draws higher numbers: the order in
\* which a gateway's read loop sends one user's messages is the order of that
\* user's timeline (and of a common receiver's) while Redis does not fail over,
\* and across failovers if the WAIT of the first ran where its INCRs did.
LaterCallHigherPts ==
    \A r, s \in rows :
        s.id \in earlier[r.id] /\ (failovers = 0 \/ sound[s.id]) =>
            /\ r.sender = s.sender => r.spts > s.spts
            /\ r.receiver = s.receiver => r.rpts > s.rpts
            /\ r.receiver = s.sender => r.rpts > s.spts
            /\ r.sender = s.receiver => r.spts > s.rpts

\* What the caller of h has been told: of a call the service died on, nothing.
Told == [h \in Calls |-> IF answer[h] = "lost" THEN "none" ELSE answer[h]]

Log == INSTANCE MessageLog WITH Pts <- Nat, answer <- Told

\* PersistMessage implements the abstract message log: of all its steps the callers
\* and the table see a row stored, at most once and never after the message was
\* refused, and one answer.
ImplementsLog == Log!Spec

\* Every PersistMessage call is answered, whatever the replica, the pool or Postgres do.
EveryCallReturns == \A h \in Calls : pc[h] = "incrReceiver" ~> answer[h] # "none"
=============================================================================

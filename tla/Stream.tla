------------------------------- MODULE Stream -------------------------------
(***************************************************************************)
(* The stream of one user, as PersistMessage fills it                      *)
(* (message-service/grpc/server.go, store/redis.go): it draws the          *)
(* receiver's number, the sender's, and commits the row, each in a step of *)
(* its own, or ends without a row.  A failover of Redis takes the counter  *)
(* back, but not below the numbers of a message that is firm.  There is no *)
(* pool, no replica and no other user: MessageService has those, and       *)
(* implements this.  Sync and WebClient are about what one can make of     *)
(* such a stream.                                                          *)
(***************************************************************************)
EXTENDS Naturals

CONSTANTS
    Incoming,       \* the messages the user is the receiver of
    Outgoing,       \* those he is the sender of; a message to himself is in both
    Numbers         \* bound: what the counter may count to

Msgs == Incoming \cup Outgoing

VARIABLES
    stage,          \* how far each message has come
    counter,        \* user:<id>:pts
    rpts, spts,     \* receiver_pts and sender_pts, where they are this user's numbers
    firm,           \* history: messages whose WAIT has run, or still can, on the
                    \* connection of their INCRs
    lost            \* history: has Redis failed over?

stream == <<stage, counter, rpts, spts, firm, lost>>

\* half: a message to oneself that has its first number.
Stages == {"unsent", "half", "drawn", "stored", "failed"}

StreamInit ==
    /\ stage = [m \in Msgs |-> "unsent"]
    /\ counter = 0
    /\ rpts = [m \in Msgs |-> 0] /\ spts = [m \in Msgs |-> 0]
    /\ firm = {} /\ lost = FALSE

\* Redis executes an INCR of the user's counter.
Increment == counter + 1 \in Numbers /\ counter' = counter + 1

\* The first INCR, also when it is sent again because its reply was lost: m then
\* has a new number, and nobody the old one.
DrawReceiver(m) ==
    /\ m \in Incoming
    /\ stage[m] \in {"unsent", IF m \in Outgoing THEN "half" ELSE "drawn"}
    /\ Increment
    /\ rpts' = [rpts EXCEPT ![m] = counter + 1]
    /\ stage' = [stage EXCEPT ![m] = IF m \in Outgoing THEN "half" ELSE "drawn"]
    /\ firm' \in {firm \ {m}, firm \cup {m}}
    /\ UNCHANGED <<spts, lost>>

\* The second INCR.
DrawSender(m) ==
    /\ m \in Outgoing
    /\ stage[m] \in {"drawn", IF m \in Incoming THEN "half" ELSE "unsent"}
    /\ Increment
    /\ spts' = [spts EXCEPT ![m] = counter + 1]
    /\ stage' = [stage EXCEPT ![m] = "drawn"]
    /\ firm' \in {firm \ {m}, IF m \in Incoming THEN firm ELSE firm \cup {m}}
    /\ UNCHANGED <<rpts, lost>>

\* uniq_receiver_pts and uniq_sender_pts let the row of m in: no failover has brought
\* its number back in the same role.
Unique(m) ==
    \A n \in Msgs : stage[n] = "stored" =>
        /\ {m, n} \subseteq Incoming => rpts[n] # rpts[m]
        /\ {m, n} \subseteq Outgoing => spts[n] # spts[m]

\* The INSERT is committed.
Commit(m) ==
    /\ stage[m] = "drawn"
    /\ Unique(m)
    /\ stage' = [stage EXCEPT ![m] = "stored"]
    /\ UNCHANGED <<counter, rpts, spts, firm, lost>>

\* PersistMessage ends without a row for ms: for one message when something fails,
\* for several when the service dies.  Their numbers, if they have any, are lost.
Burn(ms) ==
    /\ \A m \in ms : stage[m] \in {"unsent", "half", "drawn"}
    /\ stage' = [m \in Msgs |-> IF m \in ms THEN "failed" ELSE stage[m]]
    /\ rpts' = [m \in Msgs |-> IF m \in ms THEN 0 ELSE rpts[m]]
    /\ spts' = [m \in Msgs |-> IF m \in ms THEN 0 ELSE spts[m]]
    /\ firm' = firm \ ms
    /\ UNCHANGED <<counter, lost>>

\* The connection of the INCRs of ms is closed, or a later command of theirs leaves
\* over another one: no WAIT of theirs can confirm them any more.
Doubt(ms) ==
    /\ \A m \in ms : m \in firm /\ stage[m] \in {"half", "drawn"}
    /\ firm' = firm \ ms
    /\ UNCHANGED <<stage, counter, rpts, spts, lost>>

Kept(n) == {m \in firm : rpts[m] <= n /\ spts[m] <= n}

\* Redis fails over, and its counter goes back to n: to nothing less than the
\* numbers WAIT has confirmed, those of all firm rows among them.
Lose(n, confirmed) ==
    /\ n <= counter
    /\ confirmed \subseteq Kept(n)
    /\ \A m \in firm \ confirmed : stage[m] # "stored"
    /\ counter' = n
    /\ firm' = confirmed
    /\ lost' = TRUE
    /\ UNCHANGED <<stage, rpts, spts>>

RedisFails ==
    \/ \E ms \in SUBSET Msgs : Doubt(ms)
    \/ \E n \in 0 .. counter, confirmed \in SUBSET firm : Lose(n, confirmed)

PersistStep(m) == DrawReceiver(m) \/ DrawSender(m) \/ Commit(m)

StreamNext ==
    \/ \E m \in Msgs : PersistStep(m)
    \/ \E ms \in SUBSET Msgs : Burn(ms)
    \/ RedisFails

StreamSpec == StreamInit /\ [][StreamNext]_stream
=============================================================================

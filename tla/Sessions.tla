------------------------------ MODULE Sessions ------------------------------
(***************************************************************************)
(* Who is connected where: the life of a WebSocket session in              *)
(* WebSocketHandler (gateway/handler/websocket.go), the map of channels of *)
(* each gateway (gateway/grpc/server.go) and the presence keys of Redis    *)
(* with their heartbeats and TTL (gateway/store/redis.go).                 *)
(*                                                                         *)
(* A user may have several sessions at once: tabs, devices, or a reconnect *)
(* whose predecessor the server has not cleaned up yet.                    *)
(***************************************************************************)
CONSTANTS
    Users,          \* user ids
    Gateways,       \* the gateways, which stand for their addresses, too
    Addr,           \* the gateways with GATEWAY_ADDR in their environment
    GRPCAddr,       \* those with GATEWAY_GRPC_ADDR
    Sessions,       \* the WebSocket connections of a behaviour
    NoGateway,      \* no presence key, or one with an empty address
    NoSession       \* no entry in a connMap

ASSUME NoSessionAssumption == NoSession \notin Sessions
ASSUME NoGatewayAssumption == NoGateway \notin Gateways
ASSUME AddrAssumption == Addr \subseteq Gateways /\ GRPCAddr \subseteq Gateways

VARIABLES
    user, gw,       \* user and gateway of each session
    pc,             \* where each session's handler is
    beat,           \* the heartbeat goroutine of each session
    presence,       \* presence[u]: the gateway Redis names for u
    connMap,        \* connMap[g][u]: the session whose channel gateway g has for u
    closed,         \* the sessions whose channel is closed
    crowded         \* history: the pairs <<u, g>> such that a session of u on g
                    \* began before another one of u on g was over

vars == <<user, gw, pc, beat, presence, connMap, closed, crowded>>

Live    == {"register", "open", "reading", "unregister", "delete"}
Over    == {"new", "gone", "dead"}
Stopped == {"unregister", "delete", "gone", "dead"}     \* no more heartbeats

\* Types and ranges of the state; presence names the gateway of some session.
TypeOK ==
    /\ user \in [Sessions -> Users] /\ gw \in [Sessions -> Gateways]
    /\ pc \in [Sessions -> Live \cup Over]
    /\ beat \in [Sessions -> {"off", "waiting", "setting", "failing"}]
    /\ presence \in [Users -> Gateways \cup {NoGateway}]
    /\ connMap \in [Gateways -> [Users -> Sessions \cup {NoSession}]]
    /\ closed \subseteq Sessions
    /\ crowded \subseteq Users \X Gateways

Init ==
    /\ user \in [Sessions -> Users] /\ gw \in [Sessions -> Gateways]
    /\ pc = [s \in Sessions |-> "new"]
    /\ beat = [s \in Sessions |-> "off"]
    /\ presence = [u \in Users |-> NoGateway]
    /\ connMap = [g \in Gateways |-> [u \in Users |-> NoSession]]
    /\ closed = {} /\ crowded = {}

Place(s) == <<user[s], gw[s]>>
Entry(s) == connMap[gw[s]][user[s]]

----------------------------------------------------------------------------
(* The handler of session s.                                               *)

\* The connection is upgraded.
Connect(s) ==
    /\ pc[s] = "new"
    /\ pc' = [pc EXCEPT ![s] = "register"]
    /\ crowded' = IF \E t \in Sessions : Place(t) = Place(s) /\ pc[t] \in Live
                  THEN crowded \cup {Place(s)} ELSE crowded
    /\ UNCHANGED <<user, gw, beat, presence, connMap, closed>>

\* Mutant: the id of an ECS task, no address, is published.
TaskId(s) == "task"

\* The address to be kept for s: GATEWAY_GRPC_ADDR, or else GATEWAY_ADDR, at which a
\* peer may reach the gateway or not.  With neither set it is empty, which who
\* looks the user up takes for no key.
PresenceAddr(s) ==
    IF gw[s] \in GRPCAddr \cup Addr THEN gw[s] ELSE NoGateway

\* SET presence:<user> EX 15, which Redis executes.
SetPresence(s) == presence' = [presence EXCEPT ![user[s]] = PresenceAddr(s)]

\* RegisterUser, whose error is only logged, and StartHeartbeat.
RegisterUser(s) ==
    /\ pc[s] = "register"
    /\ pc' = [pc EXCEPT ![s] = "open"]
    /\ \/ SetPresence(s) /\ beat' = [beat EXCEPT ![s] = "waiting"]
       \/ UNCHANGED presence /\ beat' = [beat EXCEPT ![s] = "failing"]
    /\ UNCHANGED <<user, gw, connMap, closed, crowded>>

\* The session's channel replaces whatever channel the gateway has for the user.
RegisterConn(s) ==
    /\ pc[s] = "open"
    /\ pc' = [pc EXCEPT ![s] = "reading"]
    /\ connMap' = [connMap EXCEPT ![gw[s]][user[s]] = s]
    /\ UNCHANGED <<user, gw, beat, presence, closed, crowded>>

\* The client is gone: ReadMessage fails, the deferred cleanup stops the heartbeat.
ReadError(s) ==
    /\ pc[s] = "reading"
    /\ pc' = [pc EXCEPT ![s] = "unregister"]
    /\ UNCHANGED <<user, gw, beat, presence, connMap, closed, crowded>>

\* Mutant: the channel is closed, its entry stays.
CloseOnly(s) ==
    /\ pc[s] = "unregister"
    /\ pc' = [pc EXCEPT ![s] = "delete"]
    /\ closed' = closed \cup ({Entry(s)} \ {NoSession})
    /\ UNCHANGED <<user, gw, beat, presence, connMap, crowded>>

\* Mutant: the entry is deleted, its channel left open.
DeleteOnly(s) ==
    /\ pc[s] = "unregister"
    /\ pc' = [pc EXCEPT ![s] = "delete"]
    /\ connMap' = [connMap EXCEPT ![gw[s]][user[s]] = NoSession]
    /\ UNCHANGED <<user, gw, beat, presence, closed, crowded>>

\* Whichever channel the gateway has for the user is closed and forgotten.
UnregisterConn(s) ==
    /\ pc[s] = "unregister"
    /\ pc' = [pc EXCEPT ![s] = "delete"]
    /\ closed' = closed \cup ({Entry(s)} \ {NoSession})
    /\ connMap' = [connMap EXCEPT ![gw[s]][user[s]] = NoSession]
    /\ UNCHANGED <<user, gw, beat, presence, crowded>>

\* UnregisterUser deletes the user's key, whatever it says; its error is logged.
UnregisterUser(s) ==
    /\ pc[s] = "delete"
    /\ pc' = [pc EXCEPT ![s] = "gone"]
    /\ \/ presence' = [presence EXCEPT ![user[s]] = NoGateway]
       \/ UNCHANGED presence
    /\ UNCHANGED <<user, gw, beat, connMap, closed, crowded>>

----------------------------------------------------------------------------
(* The heartbeat goroutine of session s.                                   *)

\* The ticker fires: RegisterUser is called again.
Tick(s) ==
    /\ beat[s] \in {"waiting", "failing"}
    /\ pc[s] \notin Stopped
    /\ beat' = [beat EXCEPT ![s] = "setting"]
    /\ UNCHANGED <<user, gw, pc, presence, connMap, closed, crowded>>

\* Mutant: a heartbeat extends the TTL of the key there is, and sets none.
Refresh(s) ==
    /\ beat[s] = "setting"
    /\ beat' = [beat EXCEPT ![s] = "waiting"]
    /\ UNCHANGED <<user, gw, pc, presence, connMap, closed, crowded>>

\* Its SET reaches Redis, perhaps long after the session has ended.
Beat(s) ==
    /\ beat[s] = "setting"
    /\ SetPresence(s)
    /\ beat' = [beat EXCEPT ![s] = "waiting"]
    /\ UNCHANGED <<user, gw, pc, connMap, closed, crowded>>

BeatError(s) ==
    /\ beat[s] = "setting"
    /\ beat' = [beat EXCEPT ![s] = "failing"]
    /\ UNCHANGED <<user, gw, pc, presence, connMap, closed, crowded>>

\* Mutant: the goroutine does not watch its done channel.
NeverStops(s) == FALSE /\ UNCHANGED vars

\* done is closed: the goroutine returns.
StopBeat(s) ==
    /\ beat[s] \in {"waiting", "failing"}
    /\ pc[s] \in Stopped
    /\ beat' = [beat EXCEPT ![s] = "off"]
    /\ UNCHANGED <<user, gw, pc, presence, connMap, closed, crowded>>

----------------------------------------------------------------------------
(* The environment.                                                        *)

\* The TTL of u's key runs out: every heartbeat of u has ended, fails or hangs.
Expire(u) ==
    /\ presence[u] # NoGateway
    /\ \A s \in Sessions : user[s] = u => beat[s] # "waiting"
    /\ presence' = [presence EXCEPT ![u] = NoGateway]
    /\ UNCHANGED <<user, gw, pc, beat, connMap, closed, crowded>>

\* A gateway process dies: no deferred function runs, though a SET it has sent may
\* still reach Redis.  A new process takes its place.
Crash(g) ==
    /\ pc' = [s \in Sessions |-> IF gw[s] = g /\ pc[s] \in Live THEN "dead" ELSE pc[s]]
    /\ beat' = [s \in Sessions |-> IF gw[s] = g /\ beat[s] # "setting"
                                   THEN "off" ELSE beat[s]]
    /\ connMap' = [connMap EXCEPT ![g] = [u \in Users |-> NoSession]]
    /\ UNCHANGED <<user, gw, presence, closed, crowded>>

----------------------------------------------------------------------------
Handler(s) == \/ RegisterUser(s) \/ RegisterConn(s)
              \/ UnregisterConn(s) \/ UnregisterUser(s)

Next ==
    \/ \E s \in Sessions : \/ Connect(s) \/ Handler(s) \/ ReadError(s)
                           \/ Tick(s) \/ Beat(s) \/ BeatError(s) \/ StopBeat(s)
    \/ \E u \in Users : Expire(u)
    \/ \E g \in Gateways : Crash(g)

Spec == Init /\ [][Next]_vars

\* Goroutines are scheduled, tickers fire and keys expire; Redis may fail a SET,
\* but not every one for ever.
FairSpec ==
    /\ Spec
    /\ \A s \in Sessions : /\ WF_vars(Handler(s)) /\ WF_vars(Tick(s))
                           /\ WF_vars(StopBeat(s))
                           /\ SF_vars(Beat(s))
    /\ \A u \in Users : WF_vars(Expire(u))
----------------------------------------------------------------------------
(* What the registry promises.                                             *)

\* A lookup in connMap never finds a channel that is closed, nor that of a
\* session whose cleanup is past it: whoever overwrote or deleted the entry,
\* close and delete go together under connMu.
MapOnlyLive ==
    \A g \in Gateways, u \in Users :
        connMap[g][u] # NoSession =>
            LET s == connMap[g][u] IN
                Place(s) = <<u, g>> /\ pc[s] \in {"reading", "unregister"} /\ s \notin closed

\* While a user never has two sessions on one gateway at a time, each session
\* has its own channel: it is found as long as the session reads, and closed,
\* which ends the goroutine that writes from it, once the session is over.
OwnChannel ==
    \A s \in Sessions :
        Place(s) \notin crowded =>
            /\ pc[s] \in {"reading", "unregister"} => Entry(s) = s
            /\ pc[s] \in {"delete", "gone"} => s \in closed

\* Every other session of the user of s is over, heartbeat included.
Alone(s) == \A t \in Sessions \ {s} :
                user[t] = user[s] => pc[t] \in Over /\ beat[t] = "off"

\* The gateway of s has an address to be reached at.
Addressed(s) == PresenceAddr(s) # NoGateway

\* A message for the user of s, routed by presence and connMap, reaches s.
Heard(s) == presence[user[s]] = gw[s] /\ Entry(s) = s /\ s \notin closed

\* A session that stays connected while the user's others end is found again and
\* again, whatever keys those others deleted or overwrote while cleaning up, be it
\* with an empty address, as long as they were on other gateways.
LastSessionHeard ==
    \A s \in Sessions :
        Addressed(s) =>
            (<>[](pc[s] = "reading" /\ Alone(s) /\ Place(s) \notin crowded) => []<>Heard(s))

\* The same for any session: reconnecting works.
ReconnectHeard ==
    \A s \in Sessions :
        Addressed(s) => (<>[](pc[s] = "reading" /\ Alone(s)) => []<>Heard(s))

\* A user who has gone is forgotten for good, however his sessions ended and
\* whatever heartbeat was on its way to Redis then.
GoneForgotten ==
    \A u \in Users :
        <>[](\A s \in Sessions : user[s] = u => pc[s] \in Over) => <>[](presence[u] = NoGateway)
=============================================================================

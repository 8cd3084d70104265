-------------------------- MODULE Sessions_proofs --------------------------
(***************************************************************************)
(* Theorems about Sessions, for every set of users, gateways and sessions. *)
(***************************************************************************)
EXTENDS Sessions, TLAPS

\* Only a channel that was registered has been closed.
ClosedLater == \A s \in closed : pc[s] \notin {"new", "register", "open"}

\* Where no session began before another was over, one at most is alive.
OneLive ==
    \A s, t \in Sessions :
        Place(s) = Place(t) /\ Place(s) \notin crowded /\ pc[s] \in Live /\ pc[t] \in Live => s = t

\* The inductive invariant.
IInv == TypeOK /\ MapOnlyLive /\ OwnChannel /\ ClosedLater /\ OneLive

\* The registry starts empty, with every variable in its range.
LEMMA InvInit == Init => IInv
  <1>. SUFFICES ASSUME Init PROVE IInv
    OBVIOUS
  <1>1. TypeOK
    BY DEF Init, TypeOK, Live, Over
  <1>2. MapOnlyLive
    BY DEF Init, MapOnlyLive
  <1>3. OwnChannel /\ ClosedLater /\ OneLive
    BY DEF Init, OwnChannel, ClosedLater, OneLive, Live
  <1>. QED
    BY <1>1, <1>2, <1>3 DEF IInv

\* No step takes a variable out of its range.
LEMMA TypeStep == TypeOK /\ [Next]_vars => TypeOK'
  <1>. SUFFICES ASSUME TypeOK, [Next]_vars PROVE TypeOK'
    OBVIOUS
  <1>. USE DEF TypeOK, Live, Over, Place, Entry, SetPresence, PresenceAddr
  <1>1. ASSUME NEW s \in Sessions, Connect(s) PROVE TypeOK'
    BY <1>1 DEF Connect
  <1>2. ASSUME NEW s \in Sessions, RegisterUser(s) PROVE TypeOK'
    BY <1>2 DEF RegisterUser
  <1>3. ASSUME NEW s \in Sessions, RegisterConn(s) PROVE TypeOK'
    BY <1>3 DEF RegisterConn
  <1>4. ASSUME NEW s \in Sessions, UnregisterConn(s) PROVE TypeOK'
    BY <1>4 DEF UnregisterConn
  <1>5. ASSUME NEW s \in Sessions, UnregisterUser(s) PROVE TypeOK'
    BY <1>5 DEF UnregisterUser
  <1>6. ASSUME NEW s \in Sessions, ReadError(s) PROVE TypeOK'
    BY <1>6 DEF ReadError
  <1>7. ASSUME NEW s \in Sessions, Tick(s) \/ Beat(s) \/ BeatError(s) \/ StopBeat(s)
        PROVE  TypeOK'
    BY <1>7 DEF Tick, Beat, BeatError, StopBeat
  <1>8. ASSUME NEW u \in Users, Expire(u) PROVE TypeOK'
    BY <1>8 DEF Expire
  <1>9. ASSUME NEW g \in Gateways, Crash(g) PROVE TypeOK'
    BY <1>9 DEF Crash
  <1>10. CASE UNCHANGED vars
    BY <1>10 DEF vars
  <1>. QED
    BY <1>1, <1>2, <1>3, <1>4, <1>5, <1>6, <1>7, <1>8, <1>9, <1>10 DEF Next, Handler

\* Steps of presence and its heartbeats leave the handlers and channels alone.
LEMMA PresenceOnly ==
  ASSUME IInv, TypeOK', UNCHANGED <<user, gw, pc, connMap, closed, crowded>>
  PROVE  IInv'
  BY DEF IInv, MapOnlyLive, OwnChannel, ClosedLater, OneLive, Place, Entry

\* No step gives a user a channel that is closed, or takes away or leaks the one
\* of a session that is alone on its gateway.
LEMMA InvStep == IInv /\ [Next]_vars => IInv'
  <1>. SUFFICES ASSUME IInv, [Next]_vars PROVE IInv'
    OBVIOUS
  <1>1. TypeOK /\ TypeOK'
    BY TypeStep DEF IInv
  <1>. USE <1>1
  <1>2. ASSUME NEW s \in Sessions, Connect(s) PROVE IInv'
    <2>. USE DEF Connect, IInv, Place, Entry, Live
    <2>1. MapOnlyLive' /\ ClosedLater'
      BY <1>2 DEF MapOnlyLive, ClosedLater, TypeOK
    <2>2. OwnChannel'
      BY <1>2 DEF OwnChannel, TypeOK
    <2>3. OneLive'
      BY <1>2 DEF OneLive, TypeOK
    <2>. QED
      BY <2>1, <2>2, <2>3
  <1>3. ASSUME NEW s \in Sessions, RegisterUser(s) PROVE IInv'
    <2>. USE DEF RegisterUser, IInv, Place, Entry, Live
    <2>1. MapOnlyLive' /\ ClosedLater'
      BY <1>3 DEF MapOnlyLive, ClosedLater, TypeOK
    <2>2. OwnChannel' /\ OneLive'
      BY <1>3 DEF OwnChannel, OneLive, TypeOK
    <2>. QED
      BY <2>1, <2>2
  <1>4. ASSUME NEW s \in Sessions, RegisterConn(s) PROVE IInv'
    <2>. USE DEF RegisterConn, IInv, Place, Entry
    <2>1. s \notin closed
      BY <1>4 DEF ClosedLater
    <2>2. MapOnlyLive' /\ ClosedLater'
      BY <1>4, <2>1 DEF MapOnlyLive, ClosedLater, TypeOK
    <2>3. OneLive'
      BY <1>4 DEF OneLive, Live, TypeOK
    <2>4. OwnChannel'
      <3>1. \A t \in Sessions \ {s} : Place(t) = Place(s) /\ Place(s) \notin crowded
                => pc[t] \notin {"reading", "unregister"}
        BY <1>4 DEF OneLive, Live
      <3>. QED
        BY <1>4, <3>1 DEF OwnChannel, TypeOK
    <2>. QED
      BY <2>2, <2>3, <2>4
  <1>5. ASSUME NEW s \in Sessions, ReadError(s) PROVE IInv'
    <2>. USE DEF ReadError, IInv, Place, Entry, Live
    <2>1. MapOnlyLive' /\ ClosedLater'
      BY <1>5 DEF MapOnlyLive, ClosedLater, TypeOK
    <2>2. OwnChannel' /\ OneLive'
      BY <1>5 DEF OwnChannel, OneLive, TypeOK
    <2>. QED
      BY <2>1, <2>2
  <1>6. ASSUME NEW s \in Sessions, UnregisterConn(s) PROVE IInv'
    <2>. USE DEF UnregisterConn, IInv, Place, Entry
    <2>1. MapOnlyLive'
      BY <1>6 DEF MapOnlyLive, TypeOK
    <2>2. ClosedLater'
      <3>1. /\ user[s] \in Users /\ gw[s] \in Gateways /\ DOMAIN pc = Sessions
            /\ closed \subseteq Sessions
        BY DEF TypeOK
      <3>2. pc'[s] = "delete" /\ \A t \in Sessions \ {s} : pc'[t] = pc[t]
        BY <1>6 DEF TypeOK
      <3>3. connMap[gw[s]][user[s]] # NoSession
              => pc[connMap[gw[s]][user[s]]] \in {"reading", "unregister"}
        BY <3>1 DEF MapOnlyLive
      <3>4. ASSUME NEW t \in closed' PROVE pc'[t] \notin {"new", "register", "open"}
        <4>1. CASE t \in closed
          BY <3>1, <3>2, <4>1 DEF ClosedLater
        <4>2. CASE t = connMap[gw[s]][user[s]] /\ t # NoSession
          <5>1. t \in Sessions
            BY <3>1, <4>2 DEF TypeOK
          <5>. QED
            BY <3>2, <3>3, <4>2, <5>1
        <4>. QED
          BY <1>6, <3>4, <4>1, <4>2
      <3>. QED
        BY <3>4 DEF ClosedLater
    <2>3. OneLive'
      BY <1>6 DEF OneLive, Live, TypeOK
    <2>4. OwnChannel'
      <3>1. \A t \in Sessions \ {s} : Place(t) = Place(s) /\ Place(s) \notin crowded
                => pc[t] \notin {"reading", "unregister"}
        BY <1>6 DEF OneLive, Live
      <3>2. Place(s) \notin crowded => s \in closed'
        BY <1>6, NoSessionAssumption DEF OwnChannel
      <3>. QED
        BY <1>6, <3>1, <3>2 DEF OwnChannel, TypeOK
    <2>. QED
      BY <2>1, <2>2, <2>3, <2>4
  <1>7. ASSUME NEW s \in Sessions, UnregisterUser(s) PROVE IInv'
    <2>. USE DEF UnregisterUser, IInv, Place, Entry, Live
    <2>1. MapOnlyLive' /\ ClosedLater'
      BY <1>7 DEF MapOnlyLive, ClosedLater, TypeOK
    <2>2. OwnChannel' /\ OneLive'
      BY <1>7 DEF OwnChannel, OneLive, TypeOK
    <2>. QED
      BY <2>1, <2>2
  <1>8. ASSUME NEW s \in Sessions, Tick(s) \/ Beat(s) \/ BeatError(s) \/ StopBeat(s)
        PROVE  IInv'
    BY <1>8, PresenceOnly DEF Tick, Beat, BeatError, StopBeat
  <1>9. ASSUME NEW u \in Users, Expire(u) PROVE IInv'
    BY <1>9, PresenceOnly DEF Expire
  <1>10. ASSUME NEW g \in Gateways, Crash(g) PROVE IInv'
    <2>. USE DEF Crash, IInv, Place, Entry, Live
    <2>1. MapOnlyLive' /\ ClosedLater'
      BY <1>10 DEF MapOnlyLive, ClosedLater, TypeOK
    <2>2. OwnChannel' /\ OneLive'
      BY <1>10 DEF OwnChannel, OneLive, TypeOK
    <2>. QED
      BY <2>1, <2>2
  <1>11. CASE UNCHANGED vars
    BY <1>11, PresenceOnly DEF vars
  <1>. QED
    BY <1>2, <1>3, <1>4, <1>5, <1>6, <1>7, <1>8, <1>9, <1>10, <1>11 DEF Next, Handler

\* The inductive invariant holds in every reachable state.
THEOREM SessionsInvariance == Spec => []IInv
  BY InvInit, InvStep, PTL DEF Spec

\* Every variable keeps its type, connMap and the channels of both gateways included.
THEOREM SessionsTypeCorrect == Spec => []TypeOK
  <1>1. IInv => TypeOK
    BY DEF IInv
  <1>. QED
    BY <1>1, SessionsInvariance, PTL

\* However a user's sessions overlap, a delivery that looks connMap up finds an
\* open channel of a session that is still connected, or none.
THEOREM MapCorrect == Spec => []MapOnlyLive
  <1>1. IInv => MapOnlyLive
    BY DEF IInv
  <1>. QED
    BY <1>1, SessionsInvariance, PTL

\* A session that has its gateway to itself keeps its channel while it reads, and
\* its writer goroutine ends with it.
THEOREM ChannelCorrect == Spec => []OwnChannel
  <1>1. IInv => OwnChannel
    BY DEF IInv
  <1>. QED
    BY <1>1, SessionsInvariance, PTL
=============================================================================

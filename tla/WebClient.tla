----------------------------- MODULE WebClient -----------------------------
(***************************************************************************)
(* The web client (web-client/public/app.js) of one user, with the part of *)
(* the gateway it talks to: the read loop of WebSocketHandler, which       *)
(* persists, acks and routes one message after the other                   *)
(* (gateway/handler/websocket.go).                                         *)
(*                                                                         *)
(* Composed with Sync over the user's stream of numbers.  Neither the page *)
(* nor a device that calls GetDiff changes what the other sees, so a       *)
(* behaviour is about one of the two (watched).  The page itself calls     *)
(* GetDiff nowhere.                                                        *)
(***************************************************************************)
EXTENDS Sync, Sequences, Functions

CONSTANTS
    MaxAttempts,    \* maxReconnectAttempts, 5 in the code
    MaxConns,       \* bound: connections opened in a behaviour
    MaxUnderway,     \* bound: connections under way at a time, timers included
    MaxReloads,     \* bound: reloads of the page
    OthersPts       \* localPts other tabs of this browser may leave behind

ASSUME WebClientAssumption ==
    /\ MaxAttempts \in Nat /\ MaxConns \in Nat /\ MaxUnderway \in Nat /\ MaxReloads \in Nat
    /\ OthersPts \subseteq Nat

VARIABLES
    watched,        \* "page" or "device"
    conn,           \* the state of this.ws
    ws,             \* the number of this.ws, when it is open
    others,         \* how many sockets are connecting that this.ws was before
    open,           \* the connections that are open, this.ws or not
    session,        \* how many were opened
    timers,         \* how many timers onClose has set
    told,           \* has the user been told to refresh the page?
    entered,        \* is the login form hidden?
    up,             \* up[s]: what the gateway has not dealt with of connection s
    down,           \* down[s]: what the page has not read
    due,            \* stored messages the gateways may still push to the user
    localPts, pendingAcks, reconnectAttempts,
    saved,          \* localPts in localStorage
    foreign,        \* history: was it another tab that saved last?
    crowded,        \* history: was the form submitted with a connection under way?
    found,          \* history: the highest localPts the page found that was not its own
    order,          \* history: what was sent from this page, in order
    earlier,        \* history: what was sent from the page before it was reloaded
    acked,          \* history: messages whose ack the page has had
    marked,         \* history: <<a, m>>: the ack of a marked message m as sent
    shown,          \* history: messages handled as incoming
    announced,      \* history: numbers that were named in a notice of a gap
    reloads

sockets == <<conn, ws, others, open, session, timers, told, entered, crowded>>
wire == <<sockets, up, down, due>>
state == <<localPts, saved, foreign>>
client == <<state, pendingAcks, reconnectAttempts>>
history == <<found, order, earlier, acked, marked, shown, announced, reloads>>
pageVars == <<watched, wire, client, history>>
webVars == <<syncVars, pageVars>>

Conns == 1 .. MaxConns

WebTypeOK ==
    /\ SyncTypeOK
    /\ watched \in {"page", "device"}
    /\ conn \in {"none", "connecting", "open", "closed"}
    /\ ws \in 0 .. MaxConns /\ open \subseteq Conns /\ session \in 0 .. MaxConns
    /\ others \in Nat /\ timers \in Nat
    /\ told \in BOOLEAN /\ entered \in BOOLEAN /\ crowded \in BOOLEAN
    /\ up \in [Conns -> Seq(Msgs)]
    /\ down \in [Conns -> Seq({"ack", "message"} \X Msgs)]
    /\ due \subseteq Incoming
    /\ localPts \in Nat /\ saved \in Nat /\ foreign \in BOOLEAN
    /\ pendingAcks \in Seq(Outgoing) /\ order \in Seq(Outgoing)
    /\ reconnectAttempts \in 0 .. MaxAttempts
    /\ found \in Nat
    /\ earlier \subseteq Outgoing /\ acked \subseteq Outgoing /\ marked \subseteq Outgoing \X Outgoing
    /\ shown \subseteq Incoming /\ announced \subseteq Nat
    /\ reloads \in 0 .. MaxReloads

\* loadState: localStorage has one localPts, whoever is going to log in.
WebInit ==
    /\ SyncInit
    /\ watched \in {"page", "device"}
    /\ conn = "none" /\ ws = 0 /\ others = 0 /\ open = {} /\ session = 0
    /\ timers = 0 /\ told = FALSE /\ entered = FALSE /\ crowded = FALSE
    /\ up = [s \in Conns |-> <<>>] /\ down = [s \in Conns |-> <<>>] /\ due = {}
    /\ found \in IF watched = "page" THEN {0} \cup OthersPts ELSE {0}
    /\ saved = found /\ localPts = found /\ foreign = FALSE
    /\ pendingAcks = <<>> /\ reconnectAttempts = 0
    /\ order = <<>> /\ earlier = {} /\ acked = {} /\ marked = {}
    /\ shown = {} /\ announced = {} /\ reloads = 0

----------------------------------------------------------------------------
(* The connection.                                                         *)

\* The connections under way.
Underway == others + timers + (IF conn = "connecting" THEN 1 ELSE 0)

\* connect, which asks nothing of the socket this.ws is so far: that one goes on.
Connect ==
    /\ conn' = "connecting" /\ ws' = 0
    /\ others' = IF conn = "connecting" THEN others + 1 ELSE others
    /\ UNCHANGED <<open, session, told, entered, up, down, due, client, history>>

\* The login form is submitted, which shows until the page is connected.
Login ==
    /\ ~ entered /\ Underway < MaxUnderway
    /\ Connect
    /\ crowded' = (crowded \/ Underway > 0)
    /\ UNCHANGED timers

\* The timer onClose has set fires.
Timer ==
    /\ timers > 0
    /\ Connect
    /\ timers' = timers - 1
    /\ UNCHANGED crowded

\* A socket that was connecting, this.ws or another, no longer is.
Handshake(there, number) ==
    \/ conn = "connecting" /\ conn' = there /\ ws' = number /\ UNCHANGED others
    \/ others > 0 /\ others' = others - 1 /\ UNCHANGED <<conn, ws>>

\* saveState
SaveState == saved' = localPts' /\ foreign' = FALSE

\* onOpen
OnOpen ==
    /\ session < MaxConns
    /\ Handshake("open", session + 1)
    /\ session' = session + 1 /\ open' = open \cup {session + 1}
    /\ reconnectAttempts' = 0 /\ entered' = TRUE /\ told' = FALSE
    /\ UNCHANGED localPts /\ SaveState
    /\ UNCHANGED <<timers, crowded, up, down, due, pendingAcks, history>>

\* Mutant: the delay grows, and the attempts are not counted.
RetryUncounted ==
    /\ IF reconnectAttempts < MaxAttempts
       THEN timers' = timers + 1 /\ UNCHANGED told
       ELSE told' = TRUE /\ UNCHANGED timers
    /\ UNCHANGED reconnectAttempts

\* Mutant: one attempt more than maxReconnectAttempts.
RetryOneMore ==
    IF reconnectAttempts <= MaxAttempts
    THEN timers' = timers + 1 /\ reconnectAttempts' = reconnectAttempts + 1 /\ UNCHANGED told
    ELSE told' = TRUE /\ UNCHANGED <<timers, reconnectAttempts>>

\* onClose, of whichever socket.
Retry ==
    IF reconnectAttempts < MaxAttempts
    THEN timers' = timers + 1 /\ reconnectAttempts' = reconnectAttempts + 1 /\ UNCHANGED told
    ELSE told' = TRUE /\ UNCHANGED <<timers, reconnectAttempts>>

\* A connection is refused.
Refused ==
    /\ Handshake("closed", 0)
    /\ Retry
    /\ UNCHANGED <<open, session, entered, crowded, up, down, due, state, pendingAcks, history>>

\* Connection s is lost, with what was on its way to the page.  What the page sent
\* may still reach the gateway.
OnClose(s) ==
    /\ s \in open
    /\ open' = open \ {s} /\ down' = [down EXCEPT ![s] = <<>>]
    /\ IF ws = s THEN conn' = "closed" /\ ws' = 0 ELSE UNCHANGED <<conn, ws>>
    /\ Retry
    /\ UNCHANGED <<others, session, entered, crowded, up, due, state, pendingAcks, history>>

\* Another tab saves its state, under the one key there is.
OtherTabSaves ==
    /\ saved' \in OthersPts /\ foreign' = TRUE
    /\ UNCHANGED <<wire, localPts, pendingAcks, reconnectAttempts, history>>

\* The user reloads the page: its sockets and timers go with it, loadState restores.
Reload ==
    /\ conn # "none" /\ reloads < MaxReloads
    /\ conn' = "none" /\ ws' = 0 /\ others' = 0 /\ open' = {} /\ timers' = 0
    /\ told' = FALSE /\ entered' = FALSE /\ crowded' = FALSE
    /\ down' = [s \in Conns |-> <<>>]
    /\ localPts' = saved /\ foreign' = FALSE
    /\ found' = IF foreign /\ saved > found THEN saved ELSE found
    /\ pendingAcks' = <<>> /\ reconnectAttempts' = 0
    /\ order' = <<>> /\ earlier' = earlier \cup Range(order)
    /\ reloads' = reloads + 1
    /\ UNCHANGED <<session, up, due, saved, acked, marked, shown, announced>>

----------------------------------------------------------------------------
(* Messages on the page.                                                   *)

\* sendMessage
Send(m) ==
    /\ conn = "open"
    /\ m \in Outgoing \ (earlier \cup Range(order))
    /\ up' = [up EXCEPT ![ws] = Append(@, m)]
    /\ pendingAcks' = Append(pendingAcks, m)
    /\ order' = Append(order, m)
    /\ UNCHANGED <<sockets, down, due, state, reconnectAttempts, found, earlier, acked,
                   marked, shown, announced, reloads>>

\* Mutant: the number in the info bar alone is brought up to date.
UpdatePtsUnsaved(newPts) ==
    /\ localPts' = IF newPts > localPts THEN newPts ELSE localPts
    /\ UNCHANGED <<saved, foreign>>

\* updatePts, which saves, too.
UpdatePts(newPts) ==
    IF newPts > localPts
    THEN localPts' = newPts /\ SaveState
    ELSE UNCHANGED state

\* The page reads the next frame on connection s, of kind and about m.
Reads(s, kind, m) ==
    /\ s \in open
    /\ down[s] # <<>> /\ Head(down[s]) = <<kind, m>>
    /\ down' = [down EXCEPT ![s] = Tail(@)]
    /\ UNCHANGED <<sockets, up, due, reconnectAttempts, found, order, earlier, reloads>>

\* Mutant: the newest pending message is taken.
HandleAckNewest(s, m) ==
    /\ Reads(s, "ack", m)
    /\ UpdatePts(spts[m])
    /\ acked' = acked \cup {m}
    /\ pendingAcks' = SubSeq(pendingAcks, 1, Len(pendingAcks) - 1)
    /\ marked' = marked \cup {<<m, pendingAcks[Len(pendingAcks)]>>}
    /\ UNCHANGED <<shown, announced>>

\* handleAck: the ack of m is taken to be that of the oldest pending message.
HandleAck(s, m) ==
    /\ Reads(s, "ack", m)
    /\ UpdatePts(spts[m])
    /\ acked' = acked \cup {m}
    /\ IF pendingAcks = <<>> THEN UNCHANGED <<pendingAcks, marked>>
       ELSE /\ pendingAcks' = Tail(pendingAcks)
            /\ marked' = marked \cup {<<m, Head(pendingAcks)>>}
    /\ UNCHANGED <<shown, announced>>

\* Mutant: a gap of one number goes without a notice.
GapFromTwo(pts) == IF pts > localPts + 2 THEN (localPts + 1) .. (pts - 1) ELSE {}

\* The numbers handleIncomingMessage names in its notice.
Gap(pts) == IF pts > localPts + 1 THEN (localPts + 1) .. (pts - 1) ELSE {}

\* handleIncomingMessage, which saves in any case.
HandleIncoming(s, m) ==
    /\ Reads(s, "message", m)
    /\ announced' = announced \cup Gap(rpts[m])
    /\ localPts' = IF rpts[m] > localPts THEN rpts[m] ELSE localPts
    /\ SaveState
    /\ shown' = shown \cup {m}
    /\ UNCHANGED <<pendingAcks, acked, marked>>

PageStep ==
    \/ Login \/ Timer \/ OnOpen \/ Refused \/ OtherTabSaves \/ Reload
    \/ \E s \in Conns : OnClose(s) \/ \E m \in Msgs : HandleAck(s, m) \/ HandleIncoming(s, m)
    \/ \E m \in Msgs : Send(m)

----------------------------------------------------------------------------
(* The gateway.                                                            *)

\* The read loop of connection s has m in hand.
AtGateway(s, m) == up[s] # <<>> /\ Head(up[s]) = m

\* PersistMessage for a message of the user: called for the message in hand, it
\* goes on by itself, also after the 5 s the gateway waits for it.
PersistOutgoing(m) ==
    /\ m \in Outgoing
    /\ stage[m] = "unsent" => \E s \in Conns : AtGateway(s, m)
    /\ PersistStep(m)
    /\ UNCHANGED <<wire, client, history>>

\* The same for a message of somebody else, which his gateway routes once it is
\* stored.
PersistIncoming(m) ==
    /\ m \in Incoming \ Outgoing
    /\ PersistStep(m)
    /\ due' = IF stage'[m] = "stored" THEN due \cup {m} ELSE due
    /\ UNCHANGED <<sockets, up, down, client, history>>

\* PersistMessage ends without a row, for one message or, when the service dies,
\* for several.
PersistFails(ms) ==
    /\ \A m \in ms \cap Outgoing : stage[m] = "unsent" => \E s \in Conns : AtGateway(s, m)
    /\ Burn(ms)
    /\ UNCHANGED <<wire, client, history>>

\* m is stored and its ack is written; only then is m routed.
Acked(s, m) ==
    /\ AtGateway(s, m) /\ m \in Stored
    /\ s \in open
    /\ up' = [up EXCEPT ![s] = Tail(@)]
    /\ down' = [down EXCEPT ![s] = Append(@, <<"ack", m>>)]
    /\ due' = due \cup ({m} \cap Incoming)
    /\ UNCHANGED <<stream, sockets, client, history>>

\* PersistMessage returns an error or is not waited for, or the ack cannot be
\* written: the page is not told, m is not routed.
NotAcked(s, m) ==
    /\ AtGateway(s, m)
    /\ up' = [up EXCEPT ![s] = Tail(@)]
    /\ UNCHANGED <<stream, sockets, down, due, client, history>>

\* ReadMessage fails on a connection that is gone.
Dropped(s) ==
    /\ up[s] # <<>> /\ s \notin open
    /\ up' = [up EXCEPT ![s] = <<>>]
    /\ UNCHANGED <<stream, sockets, down, due, client, history>>

\* A stored message reaches the page, in any order and over any connection it has; it
\* may as well be lost.
Pushed(s, m) ==
    /\ m \in due /\ s \in open
    /\ due' = due \ {m}
    /\ down' = [down EXCEPT ![s] = Append(@, <<"message", m>>)]
    /\ UNCHANGED <<stream, sockets, up, client, history>>

GatewayStep ==
    \/ \E m \in Msgs : PersistOutgoing(m) \/ PersistIncoming(m)
    \/ \E ms \in SUBSET Msgs : PersistFails(ms)
    \/ RedisFails /\ UNCHANGED <<wire, client, history>>
    \/ \E s \in Conns : Dropped(s) \/ \E m \in Msgs : Acked(s, m) \/ NotAcked(s, m) \/ Pushed(s, m)

PageNext ==
    \/ PageStep /\ UNCHANGED stream
    \/ GatewayStep

WebNext ==
    \/ watched = "page" /\ PageNext /\ UNCHANGED <<watched, device>>
    \/ watched = "device" /\ SyncNext /\ UNCHANGED pageVars

\* The browser lets timers fire, and each attempt to connect succeed or fail.
WebSpec ==
    /\ WebInit /\ [][WebNext]_webVars
    /\ WF_webVars(watched = "page" /\ Timer /\ UNCHANGED <<watched, syncVars>>)
    /\ WF_webVars(watched = "page" /\ (OnOpen \/ Refused) /\ UNCHANGED <<watched, syncVars>>)

----------------------------------------------------------------------------
(* Properties.                                                             *)

\* "Server acks arrive in send order", app.js says, and takes an ack for its
\* oldest pending message.  The order is kept, over reconnects, too, but that is
\* not enough: the ack marks the message it is for if, and only if, every message
\* sent before it from this page has had an ack (handleAck, sendMessage).  A page
\* on which the form was submitted again too soon is excepted: connect has left it
\* with two sockets, whose acks come in any order.
AckIsForIts ==
    ~ crowded =>
        \A i \in DOMAIN order : order[i] \in acked =>
            (<<order[i], order[i]>> \in marked
                <=> \A j \in 1 .. (i - 1) : order[j] \in acked)

\* Neither a connection that is lost nor a reload takes localPts back, unless another
\* tab has saved its own since this page did: they share one key (updatePts,
\* saveState, loadState).
LocalPtsKept == [][localPts' >= localPts \/ (foreign /\ reloads' > reloads)]_webVars

\* A number the page passes has been shown or was named in a notice, unless an ack
\* has taken localPts past it: acks announce no gap, and a page that sends can
\* miss what it receives in silence.  So can one that is loaded with the localPts
\* another tab has saved: nothing is said of numbers up to there, whoever's they are
\* (handleIncomingMessage, handleAck, loadState).
MissedIsAnnounced ==
    \A n \in (found + 1) .. localPts :
        \/ n \in announced
        \/ \E m \in shown : n = rpts[m]
        \/ \E a \in acked : n <= spts[a]

\* A page that waits to connect again is connected, or tells its user to refresh it,
\* however often the gateway refuses it and however many sockets it has (onClose,
\* connect, onOpen).
ReconnectsOrTells == timers > 0 ~> (open # {} \/ told \/ conn = "none")
=============================================================================

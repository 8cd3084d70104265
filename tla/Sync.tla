-------------------------------- MODULE Sync --------------------------------
(***************************************************************************)
(* How a device that was away catches up: GetDiff of the message-service   *)
(* (message-service/grpc/server.go) and GetUserPTS (store/redis.go), for   *)
(* one user, while PersistMessage goes on numbering and storing messages.  *)
(*                                                                         *)
(* The device, which is not in the repository, asks again and again from   *)
(* the highest number it has.                                              *)
(***************************************************************************)
EXTENDS Stream, Integers, FiniteSets

CONSTANTS
    Limit,          \* the most rows GetDiff returns, 1000 in the code
    Asks            \* the limits a device may ask for

ASSUME SyncAssumption ==
    IsFiniteSet(Msgs) /\ Numbers \subseteq Nat /\ Limit \in Nat \ {0} /\ Asks \subseteq Int

VARIABLES
    phase,          \* of the device: "idle", "queried" or "answered"
    cursor,         \* its client_pts
    limit,          \* the LIMIT of its query
    page,           \* the rows of its query
    current,        \* current_pts of the last answer
    got,            \* the messages it has
    seen, flight,   \* history: the messages stored, and on their way, at the query
    passed          \* history: those on their way when the cursor passed their number

answer == <<cursor, current, got, passed>>
query == <<limit, page, seen, flight>>
device == <<phase, answer, query>>
syncVars == <<stream, device>>

SyncTypeOK ==
    /\ stage \in [Msgs -> Stages]
    /\ counter \in Nat
    /\ rpts \in [Msgs -> Nat] /\ spts \in [Msgs -> Nat]
    /\ firm \subseteq Msgs /\ lost \in BOOLEAN
    /\ phase \in {"idle", "queried", "answered"}
    /\ cursor \in Nat /\ current \in Nat /\ limit \in 1 .. Limit
    /\ page \subseteq Msgs /\ got \subseteq Msgs
    /\ seen \subseteq Msgs /\ flight \subseteq Msgs /\ passed \subseteq Msgs

DeviceInit ==
    /\ phase = "idle" /\ cursor = 0 /\ current = 0 /\ limit = Limit
    /\ page = {} /\ got = {} /\ seen = {} /\ flight = {} /\ passed = {}

SyncInit == StreamInit /\ DeviceInit

----------------------------------------------------------------------------
(* GetDiff.                                                                *)

Stored == {m \in Msgs : stage[m] = "stored"}
OnTheWay == {m \in Msgs : stage[m] \in {"half", "drawn"}}

\* The number a row is shown under: a message to oneself has two and shows one.
Pts(m) == IF m \in Incoming THEN rpts[m] ELSE spts[m]

Clamped(ask) == IF ask <= 0 \/ ask > Limit THEN Limit ELSE ask

\* Mutant: a client that is up to date gets its last message once more.
FromClientPts(pts) == {m \in Stored : Pts(m) >= pts}

\* WHERE ... > client_pts
After(pts) == {m \in Stored : Pts(m) > pts}

\* Mutant: the newest rows first, as a chat window would want them.
NewestPages(pts, most) == {p \in SUBSET After(pts) :
    /\ \A k \in p, m \in After(pts) \ p : Pts(k) >= Pts(m)
    /\ Cardinality(p) <= most
    /\ Cardinality(p) < most => p = After(pts)}

\* Mutant: WHERE receiver_id = $1 alone: what the user sent is left out.
ReceivedPages(pts, most) == {p \in SUBSET (After(pts) \cap Incoming) :
    /\ \A k \in p, m \in (After(pts) \cap Incoming) \ p : Pts(k) <= Pts(m)
    /\ Cardinality(p) <= most
    /\ Cardinality(p) < most => p = After(pts) \cap Incoming}

\* ORDER BY pts ASC LIMIT most: of rows under one number any may come first.
Pages(pts, most) == {p \in SUBSET After(pts) :
    /\ \A k \in p, m \in After(pts) \ p : Pts(k) <= Pts(m)
    /\ Cardinality(p) <= most
    /\ Cardinality(p) < most => p = After(pts)}

\* The query.
Query(ask) ==
    /\ phase \in {"idle", "answered"}
    /\ phase' = "queried"
    /\ limit' = Clamped(ask)
    /\ page' \in Pages(cursor, Clamped(ask))
    /\ seen' = Stored /\ flight' = OnTheWay
    /\ UNCHANGED <<answer, stream>>

\* The highest number of rows ms, or what the client had.
Highest(ms) ==
    IF ms = {} THEN cursor
    ELSE CHOOSE p \in {Pts(m) : m \in ms} : \A m \in ms : Pts(m) <= p

\* Mutant: current_pts is what the query has seen, not the counter.
AnswerFromRows ==
    /\ phase = "queried"
    /\ phase' = "answered"
    /\ current' = Highest(page)
    /\ cursor' = Highest(page)
    /\ got' = got \cup page
    /\ passed' = passed \cup {m \in flight : Pts(m) <= Highest(page)}
    /\ flight' = {}
    /\ UNCHANGED <<limit, page, seen, stream>>

\* The GET of the counter; the answer goes out and the device takes it.
Answer ==
    /\ phase = "queried"
    /\ phase' = "answered"
    /\ current' = counter
    /\ cursor' = Highest(page)
    /\ got' = got \cup page
    /\ passed' = passed \cup {m \in flight : Pts(m) <= Highest(page)}
    /\ flight' = {}
    /\ UNCHANGED <<limit, page, seen, stream>>

\* The GET fails, or the answer is lost: the device will ask again.
NoAnswer ==
    /\ phase = "queried"
    /\ phase' = "idle"
    /\ page' = {} /\ seen' = {} /\ flight' = {}
    /\ UNCHANGED <<limit, answer, stream>>

Ask == \E ask \in Asks : Query(ask)
DeviceStep == Ask \/ Answer \/ NoAnswer

SyncNext ==
    \/ StreamNext /\ UNCHANGED device
    \/ DeviceStep

SyncSpec == SyncInit /\ [][SyncNext]_syncVars

----------------------------------------------------------------------------
(* Properties.                                                             *)

\* Messages whose numbers a failover may have forgotten: WAIT has confirmed those of
\* firm messages alone.
Unsure == {m \in Msgs : lost /\ m \notin firm}

\* What may be missed then: a message with such a number, or one that has a number up
\* to that of such a message of the device's, drawn again below the cursor.
Excused == {m \in Msgs : \E k \in (got \cup {m}) \cap Unsure : Pts(m) <= Pts(k)}

\* Nothing is left behind: a row whose number the device has passed is one it
\* has, or was still on its way (numbered, not committed) when the device passed
\* it, or a failover forgot a number in between.  The exceptions are real: rows are
\* committed in another order than their numbers are drawn, a number that was
\* forgotten is drawn again, and nobody asks for what is late or low again (GetDiff
\* against PersistMessage; Design doc: "gapless" recovery).
NothingSkipped ==
    \A m \in Stored : Pts(m) <= cursor => m \in got \cup passed \cup Excused

\* The end is recognisable: after an answer with fewer rows than its limit, or
\* one that takes the device up to current_pts, it has all that was stored when
\* it asked, but for those it passed and those a failover has undone (GetDiff,
\* whose limit is cut to 1000 without a sign in the answer).
EndIsEnd ==
    phase = "answered" /\ (Cardinality(page) < limit \/ cursor >= current) =>
        seen \subseteq got \cup passed \cup Excused

\* current_pts is never behind the rows the query could see, so that a client
\* that compares the two does not stop early (GetDiff reads the counter last); only
\* a failover can take it below the number of a row that WAIT did not confirm.
CurrentNotBehind ==
    phase = "answered" => \A m \in seen \ Unsure : Pts(m) <= current

\* A device that keeps asking, and is answered now and then, gets every row, but for
\* the same exceptions (GetDiff, page after page).
PatientDevice == WF_syncVars(Ask) /\ SF_syncVars(Answer)
CatchesUp ==
    PatientDevice => []<>(Stored \subseteq got \cup passed \cup Excused)
=============================================================================

---------------------------- MODULE Sync_proofs ----------------------------
(***************************************************************************)
(* Theorems about Sync, for every set of messages, every limit and every   *)
(* order in which numbers are drawn and rows are committed.                *)
(***************************************************************************)
EXTENDS Sync, Finite_proofs

----------------------------------------------------------------------------
(* The query.                                                              *)

\* A row is shown under a natural number (Pts, the query's ORDER BY).
LEMMA PtsType == SyncTypeOK => \A m \in Msgs : Pts(m) \in Nat
  BY DEF SyncTypeOK, Pts

\* The limit of a query is positive and no more than Limit.
LEMMA ClampedType == \A ask \in Asks : Clamped(ask) \in 1 .. Limit
  BY SyncAssumption DEF Clamped

\* The cursor moves to the number of a row of the page, which is the highest, or
\* stays.
LEMMA HighestIsHighest ==
  ASSUME SyncTypeOK, NEW ms \in SUBSET Msgs, ms # {}
  PROVE  \E k \in ms : Highest(ms) = Pts(k) /\ \A m \in ms : Pts(m) <= Pts(k)
  <1>. DEFINE f == [m \in ms |-> Pts(m)]
  <1>1. f \in [ms -> Int] /\ IsFiniteSet(ms)
    BY PtsType, SyncAssumption, FS_Subset
  <1>2. PICK k \in ms : \A m \in ms : f[m] <= f[k]
    <2>. HIDE DEF f
    <2>. QED
      BY <1>1, Greatest
  <1>3. \E p \in {Pts(m) : m \in ms} : \A m \in ms : Pts(m) <= p
    BY <1>2
  <1>. QED
    BY <1>3 DEF Highest

----------------------------------------------------------------------------
(* The inductive invariant.                                                *)

Numbered == {m \in Msgs : stage[m] \in {"half", "drawn", "stored"}}

\* The numbers no failover has forgotten, nor can forget if there was one.
Sure == Numbered \ Unsure

\* A number is drawn once, and the counter is the last: of those that are sure.
Numbering ==
    /\ \A m \in Sure : Pts(m) <= counter
    /\ \A m \in Msgs : stage[m] = "unsent" => Pts(m) = 0
    /\ \A m \in Msgs : stage[m] = "half" => m \in Incoming
    /\ firm \subseteq Numbered

\* Two rows of a user do not share a sure number.
Distinct == \A m, n \in Sure : m # n => Pts(m) # Pts(n)

\* The cursor is the highest number the device has.
Reach ==
    /\ got \subseteq Stored
    /\ \A m \in got : Pts(m) <= cursor
    /\ cursor = 0 \/ \E k \in got : Pts(k) = cursor

\* What the device has or has passed covers every number up to its cursor, rows
\* that are not committed yet included: NothingSkipped alone does not say what
\* becomes of those when they are.
Covered == \A m \in Numbered : Pts(m) <= cursor => m \in got \cup passed \cup Excused

\* Between the query and the answer: the page is the lowest part of what the query
\* saw above the cursor, all of it if it is short, and whatever has a number by
\* now and was neither seen nor on its way has a higher one than each sure row.
Snapshot ==
    /\ page \subseteq seen /\ seen \subseteq Stored
    /\ phase = "queried" =>
        /\ \A k \in page : Pts(k) > cursor
        /\ \A m \in seen \ page : Pts(m) > cursor => \A k \in page : Pts(k) <= Pts(m)
        /\ Cardinality(page) < limit => \A m \in seen : Pts(m) > cursor => m \in page
        /\ \A m \in Numbered \ (seen \cup flight) :
              \A k \in page : k \in Unsure \/ Pts(k) < Pts(m)

\* After the answer.
Answered ==
    /\ CurrentNotBehind
    /\ phase = "answered" /\ Cardinality(page) < limit =>
           seen \subseteq got \cup passed \cup Excused

IInv == SyncTypeOK /\ Numbering /\ Distinct /\ Reach /\ Covered /\ Snapshot /\ Answered

\* At the start nothing is numbered and the device has nothing.
LEMMA InvInit == SyncInit => IInv
  <1>. SUFFICES ASSUME SyncInit PROVE IInv
    OBVIOUS
  <1>. USE DEF SyncInit, StreamInit, DeviceInit
  <1>1. SyncTypeOK
    <2>1. lost \in BOOLEAN
      BY Zenon
    <2>. QED
      BY <2>1, SyncAssumption DEF SyncTypeOK, Stages
  <1>2. \A m \in Msgs : Pts(m) = 0
    BY DEF Pts, Msgs
  <1>3. Numbering /\ Distinct /\ Reach /\ Covered
    BY <1>2 DEF Numbering, Distinct, Reach, Covered, Numbered, Sure
  <1>4. Snapshot /\ Answered
    BY DEF Snapshot, Answered, Stored, CurrentNotBehind
  <1>. QED
    BY <1>1, <1>3, <1>4 DEF IInv

\* No step takes a variable out of its range.
LEMMA TypeStep == SyncTypeOK /\ [SyncNext]_syncVars => SyncTypeOK'
  <1>. SUFFICES ASSUME SyncTypeOK, [SyncNext]_syncVars PROVE SyncTypeOK'
    OBVIOUS
  <1>. USE DEF SyncTypeOK, Stages, device, answer, query, stream
  <1>1. ASSUME NEW m \in Msgs, DrawReceiver(m) \/ DrawSender(m), UNCHANGED device PROVE SyncTypeOK'
    BY <1>1 DEF DrawReceiver, DrawSender, Increment
  <1>2. ASSUME NEW m \in Msgs, Commit(m), UNCHANGED device PROVE SyncTypeOK'
    BY <1>2 DEF Commit
  <1>3. ASSUME NEW ms \in SUBSET Msgs, Burn(ms) \/ Doubt(ms), UNCHANGED device PROVE SyncTypeOK'
    BY <1>3 DEF Burn, Doubt
  <1>8. ASSUME NEW n \in 0 .. counter, NEW confirmed \in SUBSET firm, Lose(n, confirmed),
               UNCHANGED device
        PROVE  SyncTypeOK'
    BY <1>8 DEF Lose
  <1>4. ASSUME NEW ask \in Asks, Query(ask) PROVE SyncTypeOK'
    BY <1>4, ClampedType DEF Query, Pages, After, Stored, OnTheWay
  <1>5. CASE Answer
    <2>1. Highest(page) \in Nat
      <3>1. CASE page = {}
        BY <3>1 DEF Highest
      <3>2. CASE page # {}
        <4>1. PICK k \in page : Highest(page) = Pts(k)
          BY <3>2, HighestIsHighest
        <4>2. Pts(k) \in Nat
          BY PtsType
        <4>. QED
          BY <4>1, <4>2
      <3>. QED
        BY <3>1, <3>2
    <2>. QED
      BY <1>5, <2>1 DEF Answer
  <1>6. CASE NoAnswer
    BY <1>6 DEF NoAnswer
  <1>7. CASE UNCHANGED syncVars
    BY <1>7 DEF syncVars
  <1>. QED
    BY <1>1, <1>2, <1>3, <1>4, <1>5, <1>6, <1>7, <1>8
       DEF SyncNext, StreamNext, RedisFails, PersistStep, DeviceStep, Ask

\* A draw gives its message a number that is no other sure one, or is the second of
\* a message to oneself, which changes no number that is shown.
LEMMA DrawIsFresh ==
  ASSUME IInv, NEW m \in Msgs, DrawReceiver(m) \/ DrawSender(m)
  PROVE  /\ counter' = counter + 1 /\ lost' = lost
         /\ \A n \in Msgs \ {m} : /\ Pts(n)' = Pts(n) /\ stage'[n] = stage[n]
                                  /\ n \in firm' <=> n \in firm
         /\ stage'[m] \in {"half", "drawn"} /\ (stage'[m] = "half" => m \in Incoming)
         /\ stage[m] # "stored"
         /\ \/ Pts(m)' = counter + 1
            \/ /\ stage[m] \in {"half", "drawn"} /\ Pts(m)' = Pts(m)
               /\ m \in firm' => m \in firm
  <1>1. CASE DrawReceiver(m)
    BY <1>1 DEF IInv, SyncTypeOK, DrawReceiver, Increment, Pts
  <1>2. CASE DrawSender(m)
    <2>1. firm' = firm \ {m} \/ firm' = IF m \in Incoming THEN firm ELSE firm \cup {m}
      BY <1>2 DEF DrawSender
    <2>2. \A n \in Msgs \ {m} : n \in firm' <=> n \in firm
      BY <2>1
    <2>. QED
      BY <1>2, <2>1, <2>2 DEF IInv, SyncTypeOK, DrawSender, Increment, Pts
  <1>. QED
    BY <1>1, <1>2

\* Drawing numbers: the new one is above all sure ones, hence above the cursor, or
\* below a number the device has and a failover may have forgotten.
LEMMA DrawStep ==
  ASSUME IInv, SyncTypeOK', NEW m \in Msgs, DrawReceiver(m) \/ DrawSender(m), UNCHANGED device
  PROVE  IInv'
  <1>. USE DEF device, answer, query
  <1>1. /\ counter' = counter + 1 /\ lost' = lost
        /\ \A n \in Msgs \ {m} : /\ Pts(n)' = Pts(n) /\ stage'[n] = stage[n]
                                 /\ n \in firm' <=> n \in firm
        /\ stage'[m] \in {"half", "drawn"} /\ (stage'[m] = "half" => m \in Incoming)
        /\ stage[m] # "stored"
        /\ \/ Pts(m)' = counter + 1
           \/ /\ stage[m] \in {"half", "drawn"} /\ Pts(m)' = Pts(m)
              /\ m \in firm' => m \in firm
    BY DrawIsFresh
  <1>2. \A n \in Msgs : Pts(n) \in Nat
    BY PtsType DEF IInv
  <1>3. counter \in Nat /\ cursor \in Nat /\ current \in Nat /\ page \subseteq Msgs /\ seen \subseteq Msgs
    BY DEF IInv, SyncTypeOK
  <1>4. \A n \in Stored : n \in Msgs /\ n # m /\ Pts(n)' = Pts(n)
    BY <1>1 DEF Stored
  <1>5. Stored' = Stored
    BY <1>1 DEF Stored
  <1>6. Numbered' = Numbered \cup {m} /\ Numbered \subseteq Msgs /\ Stored \subseteq Numbered
    BY <1>1 DEF Numbered, Stored
  <1>7. stage[m] \in {"half", "drawn"} => m \in Numbered
    BY DEF Numbered
  <1>8. \A n \in Msgs \ {m} : n \in Unsure' <=> n \in Unsure
    BY <1>1 DEF Unsure
  <1>9. \/ Pts(m)' = counter + 1
        \/ m \in Numbered /\ Pts(m)' = Pts(m) /\ (m \in Unsure => m \in Unsure')
    BY <1>1, <1>7 DEF Unsure
  <1>10. got \subseteq Stored
    BY DEF IInv, Reach
  <1>11. \A n \in Msgs \ {m} : n \in Excused => n \in Excused'
    BY <1>1, <1>4, <1>8, <1>10 DEF Excused
  <1>12. Numbering'
    <2>1. firm' \subseteq Numbered'
      BY <1>1, <1>6 DEF IInv, SyncTypeOK, Numbering
    <2>2. \A n \in Sure' : Pts(n)' <= counter'
      BY <1>1, <1>2, <1>3, <1>6, <1>8, <1>9 DEF IInv, Numbering, Sure
    <2>. QED
      BY <1>1, <2>1, <2>2 DEF IInv, Numbering
  <1>13. Distinct'
    <2>1. \A n \in Sure' \ {m} : n \in Sure /\ Pts(n)' = Pts(n) /\ Pts(n) <= counter /\ Pts(n) \in Nat
      BY <1>1, <1>2, <1>6, <1>8 DEF IInv, Numbering, Sure
    <2>2. m \in Sure' => \/ Pts(m)' = counter + 1
                         \/ m \in Sure /\ Pts(m)' = Pts(m)
      BY <1>9 DEF Sure
    <2>3. \A n \in Sure' \ {m} : m \in Sure' => Pts(m)' # Pts(n)'
      BY <1>3, <2>1, <2>2 DEF IInv, Distinct
    <2>. QED
      BY <2>1, <2>3 DEF IInv, Distinct
  <1>14. Reach'
    BY <1>4, <1>5 DEF IInv, Reach
  <1>15. Covered'
    <2>1. ASSUME NEW n \in Numbered' \ {m}, Pts(n)' <= cursor
          PROVE  n \in got \cup passed \cup Excused'
      BY <1>1, <1>6, <1>11, <2>1 DEF IInv, Covered
    <2>2. ASSUME Pts(m)' = counter + 1, Pts(m)' <= cursor PROVE m \in Excused'
      <3>1. PICK k \in got : Pts(k) = cursor
        BY <1>3, <2>2 DEF IInv, Reach
      <3>2. k \in Numbered /\ k \in Msgs \ {m} /\ ~ (Pts(k) <= counter)
        BY <1>3, <1>4, <1>6, <1>10, <2>2, <3>1
      <3>3. k \in Unsure'
        BY <1>8, <3>2 DEF IInv, Numbering, Sure
      <3>4. Pts(m)' <= Pts(k)'
        BY <1>1, <2>2, <3>1, <3>2
      <3>. QED
        BY <3>1, <3>3, <3>4 DEF Excused
    <2>3. ASSUME m \in Numbered, Pts(m)' = Pts(m), m \in Unsure => m \in Unsure', Pts(m)' <= cursor
          PROVE  m \in got \cup passed \cup Excused'
      <3>1. m \in got \cup passed \cup Excused
        BY <2>3 DEF IInv, Covered
      <3>2. m \in Excused => m \in Excused'
        BY <1>4, <1>8, <1>10, <2>3 DEF Excused
      <3>. QED
        BY <3>1, <3>2
    <2>. QED
      BY <1>9, <2>1, <2>2, <2>3 DEF Covered
  <1>16. page \subseteq seen /\ seen \subseteq Stored
    BY DEF IInv, Snapshot
  <1>17. Snapshot'
    <2>1. \A n \in seen : Pts(n)' = Pts(n)
      BY <1>4, <1>16
    <2>2. ASSUME phase = "queried", NEW n \in Numbered' \ (seen \cup flight), NEW k \in page
          PROVE  k \in Unsure' \/ Pts(k)' < Pts(n)'
      <3>1. k \in Msgs \ {m} /\ k \in Numbered /\ Pts(k)' = Pts(k) /\ (k \in Unsure' <=> k \in Unsure)
        BY <1>4, <1>6, <1>8, <1>16
      <3>2. CASE n # m \/ Pts(m)' # counter + 1
        <4>1. n \in Numbered /\ Pts(n)' = Pts(n)
          BY <1>1, <1>6, <1>9, <2>2, <3>2
        <4>2. k \in Unsure \/ Pts(k) < Pts(n)
          BY <2>2, <4>1 DEF IInv, Snapshot
        <4>. QED
          BY <3>1, <4>1, <4>2
      <3>3. CASE n = m /\ Pts(m)' = counter + 1
        BY <1>2, <1>3, <3>1, <3>3 DEF IInv, Numbering, Sure
      <3>. QED
        BY <3>2, <3>3
    <2>. QED
      BY <1>5, <1>16, <2>1, <2>2 DEF IInv, Snapshot
  <1>18. Answered'
    <2>1. \A n \in seen : /\ Pts(n)' = Pts(n) /\ (n \in Unsure' <=> n \in Unsure)
                          /\ n \in Excused => n \in Excused'
      BY <1>4, <1>8, <1>11, <1>16
    <2>. QED
      BY <2>1 DEF IInv, Answered, CurrentNotBehind
  <1>. QED
    BY <1>12, <1>13, <1>14, <1>15, <1>17, <1>18 DEF IInv

\* A step of the stream that draws no number and makes none sure.
Settles ==
    /\ \A n \in Numbered' : Pts(n)' = Pts(n) /\ (n \in Unsure => n \in Unsure')
    /\ Numbered' \subseteq Numbered /\ Stored \subseteq Stored'
    /\ \A n \in Sure' : Pts(n)' <= counter'
    /\ \A n \in Msgs : /\ Pts(n)' = Pts(n) \/ Pts(n)' = 0
                       /\ stage'[n] = "unsent" => stage[n] = "unsent"
                       /\ stage'[n] = "half" => stage[n] = "half"
    /\ firm' \subseteq Numbered'

\* Committing and failing do not.
LEMMA CommitSettles ==
  ASSUME IInv, (\E m \in Msgs : Commit(m)) \/ (\E ms \in SUBSET Msgs : Burn(ms))
  PROVE  Settles
  <1>1. counter' = counter /\ lost' = lost /\ \A n \in Numbered' : Pts(n)' = Pts(n)
    BY DEF Commit, Burn, Pts, Numbered
  <1>2. Numbered' \subseteq Numbered /\ Stored \subseteq Stored' /\ firm' \subseteq Numbered'
    BY DEF Commit, Burn, Numbered, Stored, IInv, SyncTypeOK, Numbering
  <1>3. firm' \subseteq firm /\ \A n \in Numbered' : n \in firm => n \in firm'
    BY DEF Commit, Burn, Numbered
  <1>4. \A n \in Msgs : /\ Pts(n)' = Pts(n) \/ Pts(n)' = 0
                        /\ stage'[n] = "unsent" => stage[n] = "unsent"
                        /\ stage'[n] = "half" => stage[n] = "half"
    BY DEF Commit, Burn, Pts, IInv, SyncTypeOK
  <1>5. \A n \in Numbered' : n \in Unsure' <=> n \in Unsure
    BY <1>1, <1>3 DEF Unsure
  <1>6. \A n \in Sure' : Pts(n)' <= counter'
    BY <1>1, <1>2, <1>5 DEF IInv, Numbering, Sure
  <1>. QED
    BY <1>1, <1>2, <1>4, <1>5, <1>6 DEF Settles

\* Nor do doubts and failovers, after which what is sure is no higher than the
\* counter that is left.
LEMMA LoseSettles ==
  ASSUME IInv, \/ \E ms \in SUBSET Msgs : Doubt(ms)
               \/ \E n \in 0 .. counter, confirmed \in SUBSET firm : Lose(n, confirmed)
  PROVE  Settles
  <1>1. UNCHANGED <<stage, rpts, spts>> /\ firm' \subseteq firm /\ (lost => lost')
    BY DEF Doubt, Lose, Kept
  <1>2. /\ Numbered' = Numbered /\ Stored' = Stored /\ \A n \in Msgs : Pts(n)' = Pts(n)
        /\ Unsure \subseteq Unsure'
    BY <1>1 DEF Numbered, Stored, Pts, Unsure
  <1>3. \A n \in Sure' : Pts(n)' <= counter'
    <2>1. CASE \E ms \in SUBSET Msgs : Doubt(ms)
      BY <1>2, <2>1 DEF Doubt, IInv, Numbering, Sure, Numbered
    <2>2. ASSUME NEW n \in 0 .. counter, NEW confirmed \in SUBSET firm, Lose(n, confirmed)
          PROVE  \A k \in Sure' : Pts(k)' <= counter'
      <3>1. \A k \in Sure' : k \in Msgs /\ k \in Kept(n)
        BY <2>2 DEF Lose, Sure, Unsure, Numbered
      <3>. QED
        BY <1>2, <2>2, <3>1 DEF Lose, Kept, Pts
    <2>. QED
      BY <2>1, <2>2
  <1>4. firm' \subseteq Numbered'
    BY <1>1, <1>2 DEF IInv, Numbering
  <1>. QED
    BY <1>1, <1>2, <1>3, <1>4 DEF Settles, Numbered

\* What has a number keeps it or loses it, a late row was counted already, and the
\* exceptions only grow.
LEMMA SettleStep ==
  ASSUME IInv, SyncTypeOK', Settles, UNCHANGED device
  PROVE  IInv'
  <1>. USE DEF device, answer, query
  <1>1. /\ \A n \in Numbered' : Pts(n)' = Pts(n) /\ (n \in Unsure => n \in Unsure')
        /\ Numbered' \subseteq Numbered /\ Stored \subseteq Stored'
    BY DEF Settles
  <1>2. Stored \subseteq Numbered' /\ Numbered \subseteq Msgs /\ Stored \subseteq Msgs
    BY <1>1 DEF Numbered, Stored
  <1>3. Sure' \subseteq Sure
    BY <1>1 DEF Sure
  <1>4. got \subseteq Stored /\ page \subseteq seen /\ seen \subseteq Stored
    BY DEF IInv, Reach, Snapshot
  <1>5. \A n \in Numbered' : n \in Excused => n \in Excused'
    BY <1>1, <1>2, <1>4 DEF Excused
  <1>6. Numbering'
    BY DEF IInv, Numbering, Settles
  <1>7. Distinct'
    BY <1>1, <1>3 DEF IInv, Distinct, Sure
  <1>8. Reach'
    BY <1>1, <1>2, <1>4 DEF IInv, Reach
  <1>9. Covered'
    BY <1>1, <1>5 DEF IInv, Covered
  <1>10. Snapshot'
    BY <1>1, <1>2, <1>4 DEF IInv, Snapshot
  <1>11. Answered'
    BY <1>1, <1>2, <1>4, <1>5 DEF IInv, Answered, CurrentNotBehind
  <1>. QED
    BY <1>6, <1>7, <1>8, <1>9, <1>10, <1>11 DEF IInv

\* The query takes the lowest rows above the cursor.
LEMMA QueryStep ==
  ASSUME IInv, SyncTypeOK', NEW ask \in Asks, Query(ask)
  PROVE  IInv'
  <1>. USE DEF stream, answer
  <1>1. /\ counter' = counter /\ Stored' = Stored /\ Numbered' = Numbered
        /\ \A n \in Msgs : Pts(n)' = Pts(n)
        /\ Unsure' = Unsure /\ Sure' = Sure /\ Excused' = Excused
    BY DEF Query, Pts, Stored, Numbered, Unsure, Sure, Excused
  <1>2. Numbering' /\ Distinct' /\ Reach' /\ Covered'
    <2>1. Numbering' /\ Distinct'
      BY <1>1 DEF IInv, Numbering, Distinct, Sure, Numbered, Query
    <2>2. Reach' /\ Covered'
      BY <1>1 DEF IInv, Reach, Covered, Stored, Numbered, Query
    <2>. QED
      BY <2>1, <2>2
  <1>3. SyncTypeOK /\ Clamped(ask) \in Nat /\ cursor \in Nat
    BY ClampedType, SyncAssumption DEF IInv, SyncTypeOK
  <1>4. /\ page' \subseteq After(cursor)
        /\ \A k \in page', m \in After(cursor) \ page' : Pts(k) <= Pts(m)
    BY DEF Query, Pages
  <1>5. Cardinality(page') < limit' => page' = After(cursor)
    BY DEF Query, Pages
  <1>6. seen' = Stored /\ flight' = OnTheWay /\ cursor' = cursor /\ phase' = "queried"
    BY DEF Query
  <1>7. Numbered \ (Stored \cup OnTheWay) = {}
    BY DEF Numbered, Stored, OnTheWay
  <1>8. \A m \in Stored : m \in Msgs /\ (m \in After(cursor) <=> Pts(m) > cursor)
    BY DEF After, Stored
  <1>9. After(cursor) \subseteq Stored
    BY DEF After
  <1>10. Snapshot'
    <2>1. page' \subseteq seen' /\ seen' \subseteq Stored'
      BY <1>1, <1>4, <1>6, <1>9
    <2>2. \A k \in page' : Pts(k)' > cursor'
      BY <1>1, <1>4, <1>6, <1>8, <1>9
    <2>3. \A m \in seen' \ page' : Pts(m)' > cursor' => \A k \in page' : Pts(k)' <= Pts(m)'
      BY <1>1, <1>4, <1>6, <1>8, <1>9
    <2>4. Cardinality(page') < limit' => \A m \in seen' : Pts(m)' > cursor' => m \in page'
      BY <1>1, <1>5, <1>6, <1>8
    <2>. QED
      BY <1>1, <1>6, <1>7, <2>1, <2>2, <2>3, <2>4 DEF Snapshot
  <1>11. Answered'
    BY <1>6 DEF Answered, CurrentNotBehind
  <1>. QED
    BY <1>2, <1>10, <1>11 DEF IInv

\* The answer takes the cursor over the page.  A number it passes belongs to a row
\* of the page or to one that was on its way: what the query saw and left out is
\* above the page, and so is what came after it, but for what a failover has undone.
LEMMA AnswerStep ==
  ASSUME IInv, SyncTypeOK', Answer
  PROVE  IInv'
  <1>. USE DEF stream
  <1>1. /\ counter' = counter /\ Stored' = Stored /\ Numbered' = Numbered
        /\ \A n \in Msgs : Pts(n)' = Pts(n)
        /\ Unsure' = Unsure /\ Sure' = Sure
    BY DEF Answer, Pts, Stored, Numbered, Unsure, Sure
  <1>2. SyncTypeOK /\ \A n \in Msgs : Pts(n) \in Nat
    BY PtsType DEF IInv
  <1>3. /\ page \subseteq seen /\ seen \subseteq Stored
        /\ \A k \in page : Pts(k) > cursor
        /\ \A m \in seen \ page : Pts(m) > cursor => \A k \in page : Pts(k) <= Pts(m)
        /\ Cardinality(page) < limit => \A m \in seen : Pts(m) > cursor => m \in page
        /\ \A m \in Numbered \ (seen \cup flight) :
              \A k \in page : k \in Unsure \/ Pts(k) < Pts(m)
    BY DEF IInv, Snapshot, Answer
  <1>4. Stored \subseteq Numbered /\ Numbered \subseteq Msgs
    BY DEF Stored, Numbered
  <1>5. cursor \in Nat /\ cursor' = Highest(page)
    BY <1>2 DEF SyncTypeOK, Answer
  <1>6. got' = got \cup page /\ passed' = passed \cup {m \in flight : Pts(m) <= cursor'}
    BY DEF Answer
  <1>7. page = {} => cursor' = cursor
    BY <1>5 DEF Highest
  <1>8. page # {} => \E k \in page : cursor' = Pts(k) /\ \A m \in page : Pts(m) <= Pts(k)
    BY <1>2, <1>5, HighestIsHighest DEF SyncTypeOK
  <1>9. \A m, k \in Msgs : k \in (got' \cup {m}) \cap Unsure /\ Pts(m) <= Pts(k) => m \in Excused'
    BY <1>1 DEF Excused
  <1>10. Excused \subseteq Excused'
    BY <1>6, <1>9 DEF Excused, Unsure
  <1>11. Numbering' /\ Distinct'
    BY <1>1 DEF IInv, Numbering, Distinct, Sure, Numbered, Answer
  <1>12. Reach'
    <2>1. got \subseteq Stored /\ (\A m \in got : Pts(m) <= cursor)
          /\ (cursor = 0 \/ \E k \in got : Pts(k) = cursor)
      BY DEF IInv, Reach
    <2>2. CASE page = {}
      BY <1>1, <1>4, <1>6, <1>7, <2>1, <2>2 DEF Reach
    <2>3. CASE page # {}
      <3>1. PICK k \in page : cursor' = Pts(k) /\ \A m \in page : Pts(m) <= Pts(k)
        BY <1>8, <2>3
      <3>2. \A m \in got : Pts(m) <= cursor'
        BY <1>2, <1>3, <1>4, <1>5, <2>1, <3>1
      <3>3. got' \subseteq Stored' /\ got' \subseteq Msgs
        BY <1>1, <1>3, <1>4, <1>6, <2>1
      <3>. QED
        BY <1>1, <1>6, <3>1, <3>2, <3>3 DEF Reach
    <2>. QED
      BY <2>2, <2>3
  <1>13. ASSUME NEW m \in Numbered, Pts(m) <= cursor'
         PROVE  m \in got' \cup passed' \cup Excused'
    <2>1. CASE Pts(m) <= cursor
      BY <1>6, <1>10, <2>1 DEF IInv, Covered
    <2>2. CASE ~ (Pts(m) <= cursor)
      <3>1. m \in Msgs /\ Pts(m) \in Nat /\ Pts(m) > cursor
        BY <1>2, <1>4, <1>5, <2>2
      <3>2. PICK k \in page : cursor' = Pts(k)
        BY <1>5, <1>7, <1>8, <1>13, <3>1
      <3>3. k \in Numbered /\ k \in Msgs /\ Pts(k) \in Nat /\ k \in got' /\ Pts(m) <= Pts(k)
        BY <1>2, <1>3, <1>4, <1>6, <1>13, <3>2
      <3>4. k \in Unsure => m \in Excused'
        BY <1>9, <3>1, <3>3
      <3>5. CASE m \in page
        BY <1>6, <3>5
      <3>6. CASE m \in seen \ page
        <4>1. Pts(k) = Pts(m) /\ k # m
          BY <1>3, <3>1, <3>2, <3>3, <3>6
        <4>2. m \in Unsure \/ k \in Unsure
          BY <3>3, <4>1 DEF IInv, Distinct, Sure
        <4>3. m \in Unsure => m \in Excused'
          BY <1>9, <3>1
        <4>. QED
          BY <3>4, <4>2, <4>3
      <3>7. CASE m \in flight
        BY <1>6, <1>13, <3>7
      <3>8. CASE m \notin seen \cup flight
        <4>1. k \in Unsure \/ Pts(k) < Pts(m)
          BY <1>3, <3>2, <3>8
        <4>. QED
          BY <3>1, <3>3, <3>4, <4>1
      <3>. QED
        BY <1>3, <3>5, <3>6, <3>7, <3>8
    <2>. QED
      BY <2>1, <2>2
  <1>14. Covered'
    BY <1>1, <1>4, <1>13 DEF Covered
  <1>15. Snapshot'
    BY <1>1, <1>3 DEF Snapshot, Answer
  <1>16. CurrentNotBehind'
    <2>1. \A m \in seen \ Unsure : m \in Msgs /\ Pts(m) <= counter
      BY <1>3, <1>4 DEF IInv, Numbering, Sure
    <2>. QED
      BY <1>1, <2>1 DEF CurrentNotBehind, Answer
  <1>17. Cardinality(page) < limit => seen \subseteq got' \cup passed' \cup Excused'
    BY <1>2, <1>3, <1>4, <1>5, <1>6, <1>10 DEF IInv, Covered
  <1>18. Answered'
    BY <1>16, <1>17 DEF Answered, Answer
  <1>. QED
    BY <1>11, <1>12, <1>14, <1>15, <1>18 DEF IInv

\* No step of the stream or of the device breaks the invariant.
LEMMA InvStep == IInv /\ [SyncNext]_syncVars => IInv'
  <1>. SUFFICES ASSUME IInv, [SyncNext]_syncVars PROVE IInv'
    OBVIOUS
  <1>. SyncTypeOK'
    BY TypeStep DEF IInv
  <1>1. ASSUME StreamNext, UNCHANGED device PROVE IInv'
    BY <1>1, DrawStep, CommitSettles, LoseSettles, SettleStep DEF StreamNext, RedisFails, PersistStep
  <1>2. CASE Ask
    BY <1>2, QueryStep DEF Ask
  <1>3. CASE Answer
    BY <1>3, AnswerStep
  <1>. DEFINE Same == /\ \A n \in Msgs : Pts(n)' = Pts(n)
                      /\ Unsure' = Unsure /\ Sure' = Sure /\ Excused' = Excused
  <1>4. CASE NoAnswer
    <2>1. Same
      BY <1>4 DEF NoAnswer, answer, stream, Pts, Unsure, Sure, Numbered, Excused
    <2>2. Numbering' /\ Distinct' /\ Reach' /\ Covered'
      BY <1>4, <2>1 DEF NoAnswer, stream, answer, IInv, Numbering, Distinct, Reach, Covered,
                        Sure, Numbered, Stored
    <2>3. Snapshot' /\ Answered'
      BY <1>4, <2>1 DEF NoAnswer, IInv, Snapshot, Answered, CurrentNotBehind
    <2>. QED
      BY <2>2, <2>3 DEF IInv
  <1>5. CASE UNCHANGED syncVars
    <2>1. Same
      BY <1>5 DEF syncVars, device, answer, stream, Pts, Unsure, Sure, Numbered, Excused
    <2>. USE DEF syncVars, stream, device, answer, query
    <2>2. Numbering' /\ Distinct' /\ Reach' /\ Covered'
      BY <1>5, <2>1 DEF IInv, Numbering, Distinct, Reach, Covered, Sure, Numbered, Stored
    <2>3. Snapshot' /\ Answered'
      BY <1>5, <2>1 DEF IInv, Snapshot, Answered, CurrentNotBehind, Numbered, Stored
    <2>. QED
      BY <2>2, <2>3 DEF IInv
  <1>. QED
    BY <1>1, <1>2, <1>3, <1>4, <1>5 DEF SyncNext, DeviceStep

\* The inductive invariant holds in every state of the stream and the device.
LEMMA SyncInvariance == SyncSpec => []IInv
  BY InvInit, InvStep, PTL DEF SyncSpec

----------------------------------------------------------------------------
(* The theorems.                                                           *)

\* The variables of the stream and the device keep their types, and no query has
\* a limit outside 1 .. Limit (GetDiff's clamp).
THEOREM SyncTypeCorrect == SyncSpec => []SyncTypeOK
  <1>1. IInv => SyncTypeOK
    BY DEF IInv
  <1>. QED
    BY <1>1, SyncInvariance, PTL

\* A device that pages through GetDiff skips no row but those that were numbered
\* and not yet committed when it passed them.
THEOREM NothingSkippedCorrect == SyncSpec => []NothingSkipped
  <1>1. IInv => NothingSkipped
    BY DEF IInv, Covered, NothingSkipped, Stored, Numbered
  <1>. QED
    BY <1>1, SyncInvariance, PTL

\* The counter GetDiff reads after its query is not behind the rows the query saw.
THEOREM CurrentCorrect == SyncSpec => []CurrentNotBehind
  <1>1. IInv => CurrentNotBehind
    BY DEF IInv, Answered
  <1>. QED
    BY <1>1, SyncInvariance, PTL

\* A short page, or a cursor that has reached current_pts, means that there was no
\* more, whatever the limit was cut to.
THEOREM EndCorrect == SyncSpec => []EndIsEnd
  <1>1. ASSUME IInv PROVE EndIsEnd
    <2>1. ASSUME phase = "answered", cursor >= current, NEW m \in seen
          PROVE  m \in got \cup passed \cup Excused
      <3>1. m \in Numbered /\ m \in Msgs
        BY <1>1 DEF IInv, Snapshot, Stored, Numbered
      <3>2. Pts(m) \in Nat /\ cursor \in Nat /\ current \in Nat
        BY <1>1, <3>1, PtsType DEF IInv, SyncTypeOK
      <3>3. CASE m \in Unsure
        BY <3>1, <3>2, <3>3 DEF Excused
      <3>4. CASE m \notin Unsure
        <4>1. Pts(m) <= current
          BY <1>1, <2>1, <3>4 DEF IInv, Answered, CurrentNotBehind
        <4>2. Pts(m) <= cursor
          BY <2>1, <3>2, <4>1
        <4>. QED
          BY <1>1, <3>1, <4>2 DEF IInv, Covered
      <3>. QED
        BY <3>3, <3>4
    <2>. QED
      BY <1>1, <2>1 DEF IInv, Answered, EndIsEnd
  <1>. QED
    BY <1>1, SyncInvariance, PTL
=============================================================================

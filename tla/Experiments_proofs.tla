------------------------- MODULE Experiments_proofs -------------------------
(***************************************************************************)
(* Theorems about Experiments, for every number of frames, connections,    *)
(* rows and requests, and all times and durations.                         *)
(***************************************************************************)
EXTENDS Experiments_inv, Plots_proofs

----------------------------------------------------------------------------
(* Files.                                                                  *)

\* What \o does to a sequence: what was in it stays where it is, the rest follows.
LEMMA Joined ==
  ASSUME NEW S, NEW p \in Seq(S), NEW q \in Seq(S)
  PROVE  /\ p \o q \in Seq(S)
         /\ Len(p) \in Nat /\ Len(q) \in Nat /\ Len(p \o q) = Len(p) + Len(q)
         /\ DOMAIN p = 1 .. Len(p) /\ DOMAIN (p \o q) = 1 .. Len(p) + Len(q)
         /\ \A i \in 1 .. Len(p) : (p \o q)[i] = p[i]
         /\ \A j \in 1 .. Len(q) : (p \o q)[Len(p) + j] = q[j]
         /\ \A i \in DOMAIN (p \o q) :
                i \in 1 .. Len(p) \/ \E j \in 1 .. Len(q) : i = Len(p) + j
  <1>1. /\ p \o q \in Seq(S)
        /\ Len(p) \in Nat /\ Len(q) \in Nat /\ Len(p \o q) = Len(p) + Len(q)
        /\ DOMAIN p = 1 .. Len(p) /\ DOMAIN (p \o q) = 1 .. Len(p) + Len(q)
        /\ \A i \in 1 .. Len(p) : (p \o q)[i] = p[i]
        /\ \A j \in 1 .. Len(q) : (p \o q)[Len(p) + j] = q[j]
    OBVIOUS
  <1>2. ASSUME NEW i \in 1 .. Len(p) + Len(q), i \notin 1 .. Len(p)
        PROVE  \E j \in 1 .. Len(q) : i = Len(p) + j
    <2>1. i - Len(p) \in 1 .. Len(q) /\ i = Len(p) + (i - Len(p))
      BY <1>1, <1>2
    <2>. QED
      BY <2>1
  <1>. QED
    BY <1>1, <1>2

\* What Append does.
LEMMA Added ==
  ASSUME NEW S, NEW p \in Seq(S), NEW e \in S
  PROVE  /\ Append(p, e) \in Seq(S)
         /\ Len(p) \in Nat /\ Len(Append(p, e)) = Len(p) + 1
         /\ DOMAIN p = 1 .. Len(p) /\ DOMAIN Append(p, e) = 1 .. Len(p) + 1
         /\ DOMAIN Append(p, e) = DOMAIN p \cup {Len(p) + 1} /\ Len(p) + 1 \notin DOMAIN p
         /\ \A i \in DOMAIN p : Append(p, e)[i] = p[i]
         /\ Append(p, e)[Len(p) + 1] = e
  <1>1. /\ Append(p, e) \in Seq(S)
        /\ Len(p) \in Nat /\ Len(Append(p, e)) = Len(p) + 1
        /\ DOMAIN p = 1 .. Len(p) /\ DOMAIN Append(p, e) = 1 .. Len(p) + 1
        /\ \A i \in 1 .. Len(p) : Append(p, e)[i] = p[i]
        /\ Append(p, e)[Len(p) + 1] = e
    OBVIOUS
  <1>2. 1 .. Len(p) + 1 = (1 .. Len(p)) \cup {Len(p) + 1} /\ Len(p) + 1 \notin 1 .. Len(p)
    BY <1>1
  <1>. QED
    BY <1>1, <1>2

\* A point written by a client, and what a condition leaves of it.
LEMMA Emitted ==
  ASSUME NEW metric \in MetricNames, NEW value \in Nat
  PROVE  /\ Metric(metric, value) \in Seq(Points)
         /\ Len(Metric(metric, value)) = 1
         /\ Metric(metric, value)[1].metric = metric /\ Metric(metric, value)[1].value = value
         /\ \A m : Of(Metric(metric, value), m) = {} <=> m # metric
  <1>1. /\ Metric(metric, value) \in Seq(Points)
        /\ Len(Metric(metric, value)) = 1 /\ DOMAIN Metric(metric, value) = {1}
        /\ Metric(metric, value)[1].metric = metric /\ Metric(metric, value)[1].value = value
    BY DEF Metric, Points
  <1>. QED
    BY <1>1 DEF Of

\* Nothing is written.
LEMMA NothingEmitted == <<>> \in Seq(Points) /\ \A m : Of(<<>>, m) = {}
  BY DEF Of

\* A metric is absent from two files in a row if it is absent from both.
LEMMA NoneJoined ==
  ASSUME NEW p \in Seq(Points), NEW q \in Seq(Points), NEW m
  PROVE  Of(p \o q, m) = {} <=> Of(p, m) = {} /\ Of(q, m) = {}
  <1>1. ASSUME NEW i \in Of(p, m) PROVE i \in Of(p \o q, m)
    BY Joined DEF Of
  <1>2. ASSUME NEW j \in Of(q, m) PROVE Len(p) + j \in Of(p \o q, m)
    <2>1. j \in 1 .. Len(q)
      BY DEF Of
    <2>. QED
      BY <2>1, Joined DEF Of
  <1>3. ASSUME NEW i \in Of(p \o q, m) PROVE Of(p, m) # {} \/ Of(q, m) # {}
    <2>1. CASE i \in 1 .. Len(p)
      BY <2>1, Joined DEF Of
    <2>2. ASSUME NEW j \in 1 .. Len(q), i = Len(p) + j PROVE Of(q, m) # {}
      BY <2>2, Joined DEF Of
    <2>. QED
      BY <2>1, <2>2, Joined DEF Of
  <1>. QED
    BY <1>1, <1>2, <1>3

\* The same when two lists of points are added.
LEMMA NoneJoinedTwice ==
  ASSUME NEW p \in Seq(Points), NEW q \in Seq(Points), NEW r \in Seq(Points), NEW m
  PROVE  Of((p \o q) \o r, m) = {} <=> Of(p, m) = {} /\ Of(q, m) = {} /\ Of(r, m) = {}
  <1>1. p \o q \in Seq(Points)
    BY Joined
  <1>2. Of((p \o q) \o r, m) = {} <=> Of(p \o q, m) = {} /\ Of(r, m) = {}
    BY <1>1, NoneJoined
  <1>3. Of(p \o q, m) = {} <=> Of(p, m) = {} /\ Of(q, m) = {}
    BY NoneJoined
  <1>. QED
    BY <1>2, <1>3

\* The values of a metric are a list of numbers, one for each point of it.
LEMMA MetricList ==
  ASSUME NEW p \in Seq(Points), NEW m
  PROVE  /\ IsList(Values(p, m)) /\ DOMAIN Values(p, m) = Of(p, m)
         /\ IsFiniteSet(DOMAIN p) /\ IsFiniteSet(Of(p, m))
  <1>1. IsFiniteSet(DOMAIN p) /\ Of(p, m) \subseteq DOMAIN p
    BY FS_Interval DEF Of
  <1>2. \A i \in DOMAIN p : p[i].value \in Nat
    <2>1. \A i \in DOMAIN p : p[i] \in Points
      OBVIOUS
    <2>. QED
      BY <2>1 DEF Points
  <1>. QED
    BY <1>1, <1>2, Fewer DEF IsList, Values

\* Points of other metrics do not change the values of a metric.
LEMMA ValuesKept ==
  ASSUME NEW p \in Seq(Points), NEW q \in Seq(Points), NEW m, Of(q, m) = {}
  PROVE  Values(p \o q, m) = Values(p, m)
  <1>1. Of(p \o q, m) = Of(p, m)
    <2>1. \A i \in Of(p, m) : i \in Of(p \o q, m)
      BY Joined DEF Of
    <2>2. ASSUME NEW i \in Of(p \o q, m) PROVE i \in Of(p, m)
      <3>1. CASE i \in 1 .. Len(p)
        BY <3>1, Joined DEF Of
      <3>2. ASSUME NEW j \in 1 .. Len(q), i = Len(p) + j PROVE FALSE
        BY <3>2, Joined DEF Of
      <3>. QED
        BY <3>1, <3>2, Joined DEF Of
    <2>. QED
      BY <2>1, <2>2
  <1>2. \A i \in Of(p, m) : (p \o q)[i] = p[i]
    BY Joined DEF Of
  <1>. QED
    BY <1>1, <1>2 DEF Values

\* What the clients write about a number n that follows a: a violation if it is no
\* higher, a gap if it is not the next, and the size with it.
LEMMA Reported ==
  ASSUME NEW a \in Nat, NEW n \in Nat
  PROVE  /\ Violation(a, n) \in Seq(Points)
         /\ \A m : Of(Violation(a, n), m) = {} <=> n > a \/ m # "pts_order_violations"
         /\ GapPoints(a, n) \in Seq(Points)
         /\ \A m : Of(GapPoints(a, n), m) = {} <=>
                \/ n <= a + 1
                \/ m # "pts_gaps_detected" /\ (m # "pts_gap_size" \/ test = "simple")
         /\ LossPoints(a, n) \in Seq(Points)
         /\ \A m : Of(LossPoints(a, n), m) = {} <=>
                a = 0 \/ n <= a + 1 \/ m # "messages_lost_during_failover"
  <1>1. /\ Metric("pts_order_violations", 1) \in Seq(Points)
        /\ \A m : Of(Metric("pts_order_violations", 1), m) = {} <=> m # "pts_order_violations"
    <2>1. "pts_order_violations" \in MetricNames /\ 1 \in Nat
      BY DEF MetricNames
    <2>. QED
      BY <2>1, Emitted
  <1>2. /\ Metric("pts_gaps_detected", 1) \in Seq(Points)
        /\ \A m : Of(Metric("pts_gaps_detected", 1), m) = {} <=> m # "pts_gaps_detected"
    <2>1. "pts_gaps_detected" \in MetricNames /\ 1 \in Nat
      BY DEF MetricNames
    <2>. QED
      BY <2>1, Emitted
  <1>3. /\ Violation(a, n) \in Seq(Points)
        /\ \A m : Of(Violation(a, n), m) = {} <=> n > a \/ m # "pts_order_violations"
    <2>1. CASE n > a
      BY <2>1, NothingEmitted DEF Violation, Unless
    <2>2. CASE ~ (n > a)
      BY <1>1, <2>2 DEF Violation, Unless
    <2>. QED
      BY <2>1, <2>2
  <1>4. CASE n <= a + 1
    BY <1>3, <1>4, NothingEmitted DEF GapPoints, LossPoints, Unless
  <1>5. CASE ~ (n <= a + 1)
    <2>. DEFINE d == n - a - 1
                size == Unless(test = "simple", Metric("pts_gap_size", d))
                loss == Metric("messages_lost_during_failover", d)
    <2>1. d \in Nat /\ "pts_gap_size" \in MetricNames /\ "messages_lost_during_failover" \in MetricNames
      BY <1>5 DEF MetricNames
    <2>. HIDE DEF d
    <2>2. /\ Metric("pts_gap_size", d) \in Seq(Points)
          /\ \A m : Of(Metric("pts_gap_size", d), m) = {} <=> m # "pts_gap_size"
      BY <2>1, Emitted
    <2>3. /\ loss \in Seq(Points)
          /\ \A m : Of(loss, m) = {} <=> m # "messages_lost_during_failover"
      BY <2>1, Emitted
    <2>4. /\ size \in Seq(Points)
          /\ \A m : Of(size, m) = {} <=> test = "simple" \/ m # "pts_gap_size"
      <3>1. CASE test = "simple"
        BY <3>1, NothingEmitted DEF Unless
      <3>2. CASE test # "simple"
        BY <2>2, <3>2 DEF Unless
      <3>. QED
        BY <3>1, <3>2
    <2>5. GapPoints(a, n) = Metric("pts_gaps_detected", 1) \o size
      BY <1>5 DEF GapPoints, Unless, d
    <2>6. LossPoints(a, n) = IF a = 0 THEN <<>> ELSE loss
      BY <1>5 DEF LossPoints, Unless, d
    <2>. HIDE DEF size, loss
    <2>7. /\ Metric("pts_gaps_detected", 1) \o size \in Seq(Points)
          /\ \A m : Of(Metric("pts_gaps_detected", 1) \o size, m) = {} <=>
                 m # "pts_gaps_detected" /\ (m # "pts_gap_size" \/ test = "simple")
      BY <1>2, <2>4, Joined, NoneJoined
    <2>8. /\ LossPoints(a, n) \in Seq(Points)
          /\ \A m : Of(LossPoints(a, n), m) = {} <=>
                 a = 0 \/ n <= a + 1 \/ m # "messages_lost_during_failover"
      BY <1>5, <2>3, <2>6, NothingEmitted
    <2>. QED
      BY <1>3, <1>5, <2>5, <2>7, <2>8
  <1>. QED
    BY <1>4, <1>5
----------------------------------------------------------------------------
(* The clients' steps.                                                     *)

\* What the steps start from.
Typed == ExperimentsTypeOK /\ FilesOK /\ OpenClient /\ ShellRuns

\* A frame makes the connection longer by one and leaves all others; its number is new.
LEMMA FrameGrows ==
  ASSUME Typed, NEW kind \in Kinds, NEW n \in 1 .. MaxPts, Frame(kind, n)
  PROVE  /\ vu.open /\ conns # <<>> /\ test \in Clients /\ UNCHANGED <<test, rows, shell, answered>>
         /\ Len(conns) \in DOMAIN conns /\ DOMAIN conns' = DOMAIN conns /\ Len(conns') = Len(conns)
         /\ conns' \in Seq(Seq(Kinds \X (1 .. MaxPts)))
         /\ Last \in Seq(Kinds \X (1 .. MaxPts)) /\ Last' = Append(Last, <<kind, n>>)
         /\ conns[Len(conns)] = Last /\ conns'[Len(conns)] = Last'
         /\ \A k \in DOMAIN conns \ {Len(conns)} : conns'[k] = conns[k]
         /\ Len(Last) \in Nat /\ Len(Last) + 1 \notin DOMAIN Last
         /\ DOMAIN Last' = DOMAIN Last \cup {Len(Last) + 1}
         /\ \A i \in DOMAIN Last : Last'[i] = Last[i]
         /\ Last'[Len(Last) + 1] = <<kind, n>>
         /\ \A i \in DOMAIN Last : Last[i] \in Kinds \X (1 .. MaxPts) /\ Last[i][2] # n
  <1>1. vu.open /\ test \in Clients /\ conns # <<>> /\ UNCHANGED <<test, rows, shell, answered>>
    BY DEF Typed, OpenClient, Frame
  <1>2. conns \in Seq(Seq(Kinds \X (1 .. MaxPts))) /\ Len(conns) \in 1 .. Len(conns)
    BY <1>1 DEF Typed, ExperimentsTypeOK
  <1>3. Last \in Seq(Kinds \X (1 .. MaxPts))
    BY <1>2 DEF Last
  <1>4. <<kind, n>> \in Kinds \X (1 .. MaxPts)
    OBVIOUS
  <1>5. Append(Last, <<kind, n>>) \in Seq(Kinds \X (1 .. MaxPts))
    BY <1>3, <1>4
  <1>6. conns' = [conns EXCEPT ![Len(conns)] = Append(Last, <<kind, n>>)]
    BY DEF Frame, Last
  <1>7. /\ conns' \in Seq(Seq(Kinds \X (1 .. MaxPts)))
        /\ Len(conns') = Len(conns) /\ DOMAIN conns' = DOMAIN conns /\ DOMAIN conns = 1 .. Len(conns)
        /\ conns'[Len(conns)] = Append(Last, <<kind, n>>)
        /\ \A k \in DOMAIN conns \ {Len(conns)} : conns'[k] = conns[k]
    BY <1>2, <1>5, <1>6
  <1>8. Last' = Append(Last, <<kind, n>>)
    BY <1>7 DEF Last
  <1>9. ASSUME NEW i \in DOMAIN Last PROVE Last[i] \in Kinds \X (1 .. MaxPts) /\ Last[i][2] # n
    <2>1. Last[i] \in Kinds \X (1 .. MaxPts)
      BY <1>3
    <2>2. Last[i] \in Range(Last)
      BY DEF Range
    <2>3. Range(Last) \subseteq Frames
      BY <1>2 DEF Frames, Last
    <2>. QED
      BY <2>1, <2>2, <2>3 DEF Frame
  <1>10. /\ Len(Last) \in Nat /\ Len(Last) + 1 \notin DOMAIN Last
         /\ DOMAIN Last' = DOMAIN Last \cup {Len(Last) + 1}
         /\ \A i \in DOMAIN Last : Last'[i] = Last[i]
         /\ Last'[Len(Last) + 1] = <<kind, n>>
    <2>. HIDE DEF Last
    <2>. DEFINE e == <<kind, n>>
    <2>1. e \in Kinds \X (1 .. MaxPts)
      BY <1>4
    <2>. HIDE DEF e
    <2>2. /\ Len(Last) \in Nat /\ Len(Last) + 1 \notin DOMAIN Last
          /\ DOMAIN Append(Last, e) = DOMAIN Last \cup {Len(Last) + 1}
          /\ \A i \in DOMAIN Last : Append(Last, e)[i] = Last[i]
          /\ Append(Last, e)[Len(Last) + 1] = e
      BY <1>3, <2>1, Added
    <2>. QED
      BY <1>8, <2>2 DEF e
  <1>11. conns[Len(conns)] = Last /\ conns'[Len(conns)] = Last'
    BY <1>7, <1>8 DEF Last
  <1>12. Len(conns) \in DOMAIN conns
    BY <1>2, <1>7
  <1>. HIDE DEF Last
  <1>. QED
    BY <1>1, <1>3, <1>7, <1>8, <1>9, <1>10, <1>11, <1>12

\* An iteration begins with nothing.
LEMMA IterateBegins ==
  ASSUME Typed, Iterate
  PROVE  /\ test \in Clients /\ UNCHANGED <<test, points, rows, shell, answered>>
         /\ conns' \in Seq(Seq(Kinds \X (1 .. MaxPts))) /\ Len(conns') = Len(conns) + 1
         /\ Len(conns') <= MaxConns /\ conns' # <<>>
         /\ DOMAIN conns' = DOMAIN conns \cup {Len(conns) + 1} /\ Len(conns) + 1 \notin DOMAIN conns
         /\ \A k \in DOMAIN conns : conns'[k] = conns[k]
         /\ conns'[Len(conns) + 1] = <<>> /\ Last' = <<>> /\ DOMAIN Last' = {}
         /\ vu' = [open |-> FALSE, established |-> FALSE, dropped |-> 0, localPts |-> 0, last |-> 0]
  <1>1. conns \in Seq(Seq(Kinds \X (1 .. MaxPts)))
    BY DEF Typed, ExperimentsTypeOK
  <1>2. <<>> \in Seq(Kinds \X (1 .. MaxPts))
    OBVIOUS
  <1>3. conns' = Append(conns, <<>>)
    BY DEF Iterate
  <1>4. /\ conns' \in Seq(Seq(Kinds \X (1 .. MaxPts))) /\ Len(conns') = Len(conns) + 1
        /\ Len(conns) \in Nat
        /\ DOMAIN conns' = DOMAIN conns \cup {Len(conns) + 1} /\ Len(conns) + 1 \notin DOMAIN conns
        /\ \A k \in DOMAIN conns : conns'[k] = conns[k]
        /\ conns'[Len(conns) + 1] = <<>>
    BY <1>1, <1>2, <1>3, Added
  <1>5. Last' = <<>> /\ DOMAIN Last' = {}
    BY <1>4 DEF Last
  <1>6. Len(conns') <= MaxConns /\ conns' # <<>>
    <2>1. Len(conns) < MaxConns
      BY DEF Iterate
    <2>. QED
      BY <1>1, <1>3, <1>4, <2>1, ExperimentsAssumption
  <1>. QED
    BY <1>4, <1>5, <1>6 DEF Iterate, Fresh

\* A connection that opens writes a time at most.
LEMMA OpenWrites ==
  ASSUME Typed, Open
  PROVE  /\ conns # <<>> /\ UNCHANGED <<test, rows, conns, shell, answered>>
         /\ vu' = [vu EXCEPT !.open = TRUE, !.established = TRUE]
         /\ points' \in Seq(Points)
         /\ \A m : m # "reconnect_time_ms" =>
                (None(m)' <=> None(m)) /\ Values(points', m) = Values(points, m)
  <1>1. points \in Seq(Points)
    BY DEF Typed, FilesOK
  <1>2. PICK q \in Seq(Points) :
            points' = points \o q /\ \A m : m # "reconnect_time_ms" => Of(q, m) = {}
    <2>1. /\ Metric("reconnect_time_ms", 1) \in Seq(Points)
          /\ \A m : Of(Metric("reconnect_time_ms", 1), m) = {} <=> m # "reconnect_time_ms"
      <3>1. "reconnect_time_ms" \in MetricNames /\ 1 \in Nat
        BY DEF MetricNames
      <3>. QED
        BY <3>1, Emitted
    <2>2. points' = points \o <<>> \/ points' = points \o Metric("reconnect_time_ms", 1)
      BY DEF Open, Unless
    <2>. QED
      BY <2>1, <2>2, NothingEmitted
  <1>3. \A m : m # "reconnect_time_ms" => (None(m)' <=> None(m))
    BY <1>1, <1>2, NoneJoined DEF None
  <1>4. \A m : m # "reconnect_time_ms" => Values(points', m) = Values(points, m)
    BY <1>1, <1>2, ValuesKept
  <1>5. points' \in Seq(Points)
    BY <1>1, <1>2
  <1>. QED
    BY <1>3, <1>4, <1>5 DEF Open

\* What consistency_test.js makes of a frame.
LEMMA ConsistencyFrame ==
  ASSUME Typed, test = "consistency", NEW kind \in Kinds, NEW n \in 1 .. MaxPts, Frame(kind, n)
  PROVE  /\ points' \in Seq(Points)
         /\ kind = "ack" =>
               /\ vu' = [vu EXCEPT !.localPts = n]
               /\ \A m : None(m)' <=>
                     /\ None(m)
                     /\ n > vu.localPts \/ m # "pts_order_violations"
                     /\ n <= vu.localPts + 1 \/ m \notin {"pts_gaps_detected", "pts_gap_size"}
         /\ kind = "message" =>
               /\ vu' = [vu EXCEPT !.last = n, !.localPts = Higher(@, n)]
               /\ \A m : None(m)' <=>
                     /\ None(m)
                     /\ n > vu.last \/ m # "pts_order_violations"
                     /\ \/ vu.last = 0 \/ n <= vu.last + 1
                        \/ m \notin {"pts_gaps_detected", "pts_gap_size"}
  <1>1. points \in Seq(Points) /\ vu.localPts \in Nat /\ vu.last \in Nat /\ n \in Nat
    BY ExperimentsAssumption DEF Typed, ExperimentsTypeOK, FilesOK
  <1>2. ASSUME kind = "ack"
        PROVE  /\ points' \in Seq(Points)
               /\ vu' = [vu EXCEPT !.localPts = n]
               /\ \A m : None(m)' <=>
                     /\ None(m)
                     /\ n > vu.localPts \/ m # "pts_order_violations"
                     /\ n <= vu.localPts + 1 \/ m \notin {"pts_gaps_detected", "pts_gap_size"}
    <2>. DEFINE v == Violation(vu.localPts, n)
                g == GapPoints(vu.localPts, n)
    <2>1. ConsistencyAck(n)
      BY <1>2 DEF Frame
    <2>2. /\ v \in Seq(Points) /\ g \in Seq(Points)
          /\ \A m : Of(v, m) = {} <=> n > vu.localPts \/ m # "pts_order_violations"
          /\ \A m : Of(g, m) = {} <=>
                 n <= vu.localPts + 1 \/ m \notin {"pts_gaps_detected", "pts_gap_size"}
      BY <1>1, Reported
    <2>3. points' = (points \o v) \o g /\ vu' = [vu EXCEPT !.localPts = n]
      BY <2>1 DEF ConsistencyAck
    <2>. HIDE DEF v, g
    <2>4. points \o v \in Seq(Points) /\ (points \o v) \o g \in Seq(Points)
      BY <1>1, <2>2, Joined
    <2>5. ASSUME NEW m PROVE None(m)' <=> None(m) /\ Of(v, m) = {} /\ Of(g, m) = {}
      BY <1>1, <2>2, <2>3, <2>4, NoneJoinedTwice DEF None
    <2>. QED
      BY <2>2, <2>3, <2>4, <2>5
  <1>3. ASSUME kind = "message"
        PROVE  /\ points' \in Seq(Points)
               /\ vu' = [vu EXCEPT !.last = n, !.localPts = Higher(@, n)]
               /\ \A m : None(m)' <=>
                     /\ None(m)
                     /\ n > vu.last \/ m # "pts_order_violations"
                     /\ \/ vu.last = 0 \/ n <= vu.last + 1
                        \/ m \notin {"pts_gaps_detected", "pts_gap_size"}
    <2>. DEFINE v == Violation(vu.last, n)
                g == Unless(vu.last = 0, GapPoints(vu.last, n))
    <2>1. ConsistencyMessage(n)
      BY <1>3 DEF Frame
    <2>2. /\ v \in Seq(Points) /\ GapPoints(vu.last, n) \in Seq(Points)
          /\ \A m : Of(v, m) = {} <=> n > vu.last \/ m # "pts_order_violations"
          /\ \A m : Of(GapPoints(vu.last, n), m) = {} <=>
                 n <= vu.last + 1 \/ m \notin {"pts_gaps_detected", "pts_gap_size"}
      BY <1>1, Reported
    <2>3. /\ g \in Seq(Points)
          /\ \A m : Of(g, m) = {} <=> vu.last = 0 \/ n <= vu.last + 1
                                       \/ m \notin {"pts_gaps_detected", "pts_gap_size"}
      BY <2>2, NothingEmitted DEF Unless
    <2>4. points' = (points \o v) \o g /\ vu' = [vu EXCEPT !.last = n, !.localPts = Higher(@, n)]
      BY <2>1 DEF ConsistencyMessage
    <2>. HIDE DEF v, g
    <2>5. points \o v \in Seq(Points) /\ (points \o v) \o g \in Seq(Points)
      BY <1>1, <2>2, <2>3, Joined
    <2>6. ASSUME NEW m PROVE None(m)' <=> None(m) /\ Of(v, m) = {} /\ Of(g, m) = {}
      BY <1>1, <2>2, <2>3, <2>4, NoneJoinedTwice DEF None
    <2>. QED
      BY <2>2, <2>3, <2>4, <2>5, <2>6
  <1>. QED
    BY <1>2, <1>3 DEF Kinds

\* What consistency_test_simple.js makes of one.
LEMMA SimpleFrame ==
  ASSUME Typed, test = "simple", NEW kind \in Kinds, NEW n \in 1 .. MaxPts, Frame(kind, n)
  PROVE  /\ points' \in Seq(Points)
         /\ vu' = vu \/ vu' = [vu EXCEPT !.localPts = n]
         /\ None("pts_gap_size")' <=> None("pts_gap_size")
  <1>1. points \in Seq(Points) /\ vu.localPts \in Nat /\ n \in Nat
    BY ExperimentsAssumption DEF Typed, ExperimentsTypeOK, FilesOK
  <1>2. CASE kind = "message"
    <2>1. UNCHANGED <<points, vu>>
      BY <1>2 DEF Frame
    <2>. QED
      BY <1>1, <2>1 DEF None
  <1>3. CASE kind = "ack"
    <2>1. SimpleAck(n)
      BY <1>3 DEF Frame
    <2>2. GapPoints(vu.localPts, n) \in Seq(Points) /\ Of(GapPoints(vu.localPts, n), "pts_gap_size") = {}
      BY <1>1, Reported
    <2>. QED
      BY <1>1, <2>1, <2>2, Joined, NoneJoined DEF SimpleAck, None
  <1>. QED
    BY <1>2, <1>3 DEF Kinds

\* What failover_test.js makes of one.
LEMMA FailoverFrame ==
  ASSUME Typed, test = "failover", NEW kind \in Kinds, NEW n \in 1 .. MaxPts, Frame(kind, n)
  PROVE  /\ points' = points \o LossPoints(vu.localPts, n)
         /\ points' \in Seq(Points)
         /\ vu' = [vu EXCEPT !.localPts = n] \/ vu' = [vu EXCEPT !.localPts = Higher(@, n)]
         /\ None("reconnect_time_ms")' <=> None("reconnect_time_ms")
  <1>1. points \in Seq(Points) /\ vu.localPts \in Nat /\ n \in Nat
    BY ExperimentsAssumption DEF Typed, ExperimentsTypeOK, FilesOK
  <1>2. FailoverAck(n) \/ FailoverMessage(n)
    BY DEF Frame, Kinds
  <1>3. /\ points' = points \o LossPoints(vu.localPts, n)
        /\ vu' = [vu EXCEPT !.localPts = n] \/ vu' = [vu EXCEPT !.localPts = Higher(@, n)]
    BY <1>2 DEF FailoverAck, FailoverMessage
  <1>4. LossPoints(vu.localPts, n) \in Seq(Points)
        /\ Of(LossPoints(vu.localPts, n), "reconnect_time_ms") = {}
    BY <1>1, Reported
  <1>. QED
    BY <1>1, <1>3, <1>4, Joined, NoneJoined DEF None
----------------------------------------------------------------------------
(* Types.                                                                  *)

\* The rows the shell scripts write.
LEMMA RowIs ==
  ASSUME NEW time \in Seq(Nat), NEW event \in {"running", "crash", "failover"},
         NEW a \in Seq(Nat), NEW b \in Seq(Nat)
  PROVE  Row(time, event, <<a, b, b>>) \in Rows
  <1>1. <<a, b, b>> \in Seq(Seq(Nat))
    OBVIOUS
  <1>. QED
    BY <1>1 DEF Row, Rows

\* The rows of a round, as many as gateways answer.
LEMMA RoundIs ==
  ASSUME Typed, NEW n \in 0 .. Gateways, NEW able \in [1 .. n -> 1 .. Gateways], Round(able)
  PROVE  /\ \E q \in Seq(Rows) :
               /\ Len(q) = n /\ rows' = rows \o q
               /\ \A i \in 1 .. n : q[i].time = <<Len(answered) + 1>> /\ q[i].event = "up"
                                    /\ q[i].cells[2][1] = 1
         /\ Range(able) \in SUBSET (1 .. Gateways)
         /\ answered' = Append(answered, Range(able))
         /\ Len(answered) + 1 \in 1 .. MaxRows
         /\ \A i, j \in 1 .. n : able[i] = able[j] => i = j
  <1>. DEFINE time == <<Len(answered) + 1>>
              q == [i \in DOMAIN able |-> Row(time, "up", <<<<able[i]>>, <<1>>>>)]
  <1>1. n \in Nat /\ DOMAIN able = 1 .. n
    BY ExperimentsAssumption
  <1>2. Len(answered) + 1 \in 1 .. MaxRows
    BY ExperimentsAssumption DEF Typed, FilesOK, Round
  <1>3. ASSUME NEW i \in 1 .. n
        PROVE  /\ Row(time, "up", <<<<able[i]>>, <<1>>>>) \in Rows
               /\ Row(time, "up", <<<<able[i]>>, <<1>>>>).cells[2][1] = 1
    <2>1. able[i] \in Nat
      BY ExperimentsAssumption
    <2>2. <<<<able[i]>>, <<1>>>> \in Seq(Seq(Nat))
      BY <2>1
    <2>3. Len(answered) + 1 \in Nat /\ time \in Seq(Nat)
      BY <1>2
    <2>. QED
      BY <2>2, <2>3 DEF Row, Rows
  <1>4. q \in [1 .. n -> Rows]
    BY <1>1, <1>3
  <1>5. q \in Seq(Rows) /\ Len(q) = n
    <2>. HIDE DEF q
    <2>. QED
      BY <1>1, <1>4
  <1>6. rows' = rows \o q
    BY DEF Round
  <1>7. \A i \in 1 .. n : q[i].time = time /\ q[i].event = "up" /\ q[i].cells[2][1] = 1
    BY <1>1, <1>3 DEF Row
  <1>8. Range(able) \in SUBSET (1 .. Gateways) /\ answered' = Append(answered, Range(able))
    BY DEF Range, Round
  <1>9. ASSUME NEW i \in 1 .. n, NEW j \in 1 .. n, able[i] = able[j] PROVE i = j
    <2>1. \A k, l \in 1 .. n : k < l => able[k] < able[l]
      BY <1>1 DEF Round
    <2>2. able[i] \in Nat /\ able[j] \in Nat
      BY ExperimentsAssumption
    <2>3. ~ (i < j) /\ ~ (j < i)
      BY <1>9, <2>1, <2>2
    <2>. QED
      BY <2>3
  <1>. HIDE DEF q, time
  <1>. QED
    BY <1>2, <1>5, <1>6, <1>7, <1>8, <1>9 DEF time

\* At first there is nothing.
LEMMA XInit == ExperimentsInit => XInv
  <1>. SUFFICES ASSUME ExperimentsInit PROVE XInv
    OBVIOUS
  <1>1. DOMAIN points = {} /\ DOMAIN rows = {} /\ DOMAIN conns = {} /\ DOMAIN answered = {}
        /\ Len(points) = 0 /\ Len(rows) = 0 /\ Len(conns) = 0 /\ Len(answered) = 0
    BY DEF ExperimentsInit
  <1>2. ExperimentsTypeOK /\ FilesOK
    <2>1. vu \in [open : BOOLEAN, established : BOOLEAN, dropped : Nat, localPts : 0 .. MaxPts, last : 0 .. MaxPts]
      BY ExperimentsAssumption DEF ExperimentsInit, Fresh
    <2>2. conns \in Seq(Seq(Kinds \X (1 .. MaxPts))) /\ points \in Seq(Points) /\ rows \in Seq(Rows)
          /\ answered \in Seq(SUBSET (1 .. Gateways))
      BY DEF ExperimentsInit
    <2>3. clock \in Nat /\ gone \subseteq DOMAIN rows
          /\ loop \in [pc : {"asleep", "timed", "asked"}, time : Nat, count : {0, 1}, gone : BOOLEAN]
          /\ script \in [pc : {"baseline", "timed", "stopped", "done"}, time : Nat]
      BY DEF ExperimentsInit
    <2>. QED
      BY <1>1, <2>1, <2>2, <2>3, ExperimentsAssumption DEF ExperimentsInit, ExperimentsTypeOK, FilesOK
  <1>3. vu.open = FALSE /\ conns = <<>>
    BY DEF ExperimentsInit, Fresh
  <1>4. \A m : Of(points, m) = {}
    BY <1>1 DEF Of
  <1>5. VerdictExact
    BY <1>1, <1>4 DEF VerdictExact, ConsistencyFigure
  <1>6. LossCounted
    <2>1. DOMAIN Values(points, "messages_lost_during_failover") = {}
      BY <1>4 DEF Values
    <2>2. Total(Values(points, "messages_lost_during_failover")) = 0
      BY <2>1, FS_EmptySet, TotalOnes
    <2>3. Total([k \in DOMAIN conns |-> Cardinality(NeverSeen(conns[k]))]) = 0
      BY <1>1, FS_EmptySet, TotalOnes
    <2>. QED
      BY <2>2, <2>3 DEF LossCounted
  <1>7. RoundRows /\ ShellRuns /\ MarkedStop
    <2>1. RoundRows
      BY <1>1 DEF RoundRows
    <2>2. /\ loop.pc = "asleep" /\ script.pc = "baseline" /\ gone = {}
      BY DEF ExperimentsInit
    <2>. QED
      BY <1>1, <2>1, <2>2 DEF ShellRuns, MarkedStop, EarlyRows
  <1>. QED
    BY <1>1, <1>2, <1>3, <1>4, <1>5, <1>6, <1>7
       DEF XInv, OpenClient, SizesWithGaps, HighWater, Contiguous, LossAnchor, None

\* The files give the types of the points and rows.
FileTypes ==
    /\ \A i \in DOMAIN points : points[i].value \in Nat /\ points[i].time \in Seq(Nat)
    /\ \A i \in DOMAIN rows : rows[i].time \in Seq(Nat)

\* Each is one of its kind.
LEMMA FilesType == FilesOK => FileTypes
  <1>. SUFFICES ASSUME FilesOK PROVE FileTypes
    OBVIOUS
  <1>1. \A i \in DOMAIN points : points[i] \in Points
    BY DEF FilesOK
  <1>2. \A i \in DOMAIN rows : rows[i] \in Rows
    BY DEF FilesOK
  <1>. QED
    BY <1>1, <1>2 DEF Points, Rows, FileTypes

\* The variables of the shell scripts.
ShellOK ==
    /\ clock \in Nat
    /\ loop \in [pc : {"asleep", "timed", "asked"}, time : Nat, count : {0, 1}, gone : BOOLEAN]
    /\ script \in [pc : {"baseline", "timed", "stopped", "done"}, time : Nat]
    /\ gone \subseteq DOMAIN rows
    /\ ShellRuns

\* The steps of the shell scripts.
ShellNext ==
    \/ SampleTime \/ (\E count \in {0, 1} : SampleAsk(count)) \/ SampleRow
    \/ Restart \/ KillTime \/ KillStop \/ KillRow

\* They add a row at most, and keep to their own variables.
LEMMA ShellSteps ==
  ASSUME Typed, ShellNext
  PROVE  /\ UNCHANGED <<test, points, vu, conns, answered>> /\ test \in Clients
         /\ rows' = rows \/ (Len(rows) < MaxRows /\ \E row \in Rows : rows' = Append(rows, row))
         /\ ShellOK'
  <1>1. /\ ShellOK /\ rows \in Seq(Rows) /\ Clients = {"consistency", "simple", "failover"}
        /\ loop \in [pc : {"asleep", "timed", "asked"}, time : Nat, count : {0, 1}, gone : BOOLEAN]
        /\ script \in [pc : {"baseline", "timed", "stopped", "done"}, time : Nat]
        /\ clock \in Nat /\ gone \subseteq DOMAIN rows
    BY DEF Typed, ExperimentsTypeOK, FilesOK, ShellOK, Clients
  <1>2. CASE SampleTime
    <2>1. /\ UNCHANGED <<test, points, rows, vu, conns, script, gone, answered>> /\ test \in Clients
          /\ clock' \in {clock, clock + 1} /\ loop' = [loop EXCEPT !.pc = "timed", !.time = clock']
      BY <1>2 DEF SampleTime, client, Date
    <2>2. clock' \in Nat
      BY <1>1, <2>1
    <2>3. loop' \in [pc : {"asleep", "timed", "asked"}, time : Nat, count : {0, 1}, gone : BOOLEAN]
      BY <1>1, <2>1, <2>2
    <2>. QED
      BY <1>1, <2>1, <2>2, <2>3 DEF ShellOK, ShellRuns
  <1>3. ASSUME NEW count \in {0, 1}, SampleAsk(count)
        PROVE  UNCHANGED <<test, points, rows, vu, conns, answered>> /\ test \in Clients /\ ShellOK'
    <2>1. /\ UNCHANGED <<test, points, rows, vu, conns, clock, script, gone, answered>>
          /\ loop.pc = "timed"
          /\ loop' = [loop EXCEPT !.pc = "asked", !.count = count, !.gone = Stopped]
      BY <1>3 DEF SampleAsk, client
    <2>2. Stopped \in BOOLEAN
      BY DEF Stopped
    <2>3. loop' \in [pc : {"asleep", "timed", "asked"}, time : Nat, count : {0, 1}, gone : BOOLEAN]
      BY <1>1, <2>1, <2>2
    <2>. QED
      BY <1>1, <2>1, <2>3 DEF ShellOK, ShellRuns
  <1>4. CASE SampleRow
    <2>1. /\ UNCHANGED <<test, points, vu, conns, clock, script, answered>>
          /\ loop.pc = "asked" /\ Len(rows) < MaxRows
          /\ rows' = Append(rows, Row(<<loop.time>>, "running", <<<<loop.count>>, <<1>>, <<1>>>>))
          /\ loop' = [loop EXCEPT !.pc = "asleep"]
          /\ gone' = gone \cup {i \in {Len(rows) + 1} : loop.gone}
      BY <1>4 DEF SampleRow, Adds, client
    <2>2. Row(<<loop.time>>, "running", <<<<loop.count>>, <<1>>, <<1>>>>) \in Rows
      <3>1. <<loop.time>> \in Seq(Nat) /\ <<loop.count>> \in Seq(Nat) /\ <<1>> \in Seq(Nat)
        BY <1>1
      <3>. QED
        BY <3>1, RowIs
    <2>3. DOMAIN rows' = DOMAIN rows \cup {Len(rows) + 1}
      BY <1>1, <2>1, <2>2, Added
    <2>4. loop' \in [pc : {"asleep", "timed", "asked"}, time : Nat, count : {0, 1}, gone : BOOLEAN]
          /\ loop'.pc = "asleep"
      BY <1>1, <2>1
    <2>5. gone' \subseteq DOMAIN rows'
      BY <1>1, <2>1, <2>3
    <2>. QED
      BY <1>1, <2>1, <2>2, <2>4, <2>5 DEF ShellOK, ShellRuns
  <1>5. CASE Restart
    <2>1. /\ UNCHANGED <<test, points, vu, conns, clock, loop, script, gone, answered>>
          /\ test \in Clients /\ Len(rows) < MaxRows
          /\ rows' = Append(rows, Row(<<>>, "crash", <<<<>>, <<>>, <<>>>>))
      BY <1>5 DEF Restart, Adds, client, shell, Clients
    <2>2. Row(<<>>, "crash", <<<<>>, <<>>, <<>>>>) \in Rows
      <3>1. <<>> \in Seq(Nat)
        OBVIOUS
      <3>. QED
        BY <3>1, RowIs
    <2>3. DOMAIN rows' = DOMAIN rows \cup {Len(rows) + 1}
      BY <1>1, <2>1, <2>2, Added
    <2>. QED
      BY <1>1, <2>1, <2>2, <2>3 DEF ShellOK, ShellRuns
  <1>6. CASE KillTime
    <2>1. /\ UNCHANGED <<test, points, rows, vu, conns, loop, gone, answered>> /\ test = "failover"
          /\ clock' \in {clock, clock + 1} /\ script' = [pc |-> "timed", time |-> clock']
      BY <1>6 DEF KillTime, client, Date
    <2>2. clock' \in Nat
      BY <1>1, <2>1
    <2>3. script' \in [pc : {"baseline", "timed", "stopped", "done"}, time : Nat]
      BY <2>1, <2>2
    <2>. QED
      BY <1>1, <2>1, <2>2, <2>3 DEF ShellOK, ShellRuns
  <1>7. CASE KillStop
    <2>1. /\ UNCHANGED <<test, points, rows, vu, conns, clock, loop, gone, answered>>
          /\ script.pc = "timed" /\ script' = [script EXCEPT !.pc = "stopped"]
      BY <1>7 DEF KillStop, client
    <2>2. script' \in [pc : {"baseline", "timed", "stopped", "done"}, time : Nat]
      BY <1>1, <2>1
    <2>3. test = "failover"
      BY <1>1, <2>1 DEF ShellOK, ShellRuns
    <2>. QED
      BY <1>1, <2>1, <2>2, <2>3 DEF ShellOK, ShellRuns
  <1>8. CASE KillRow
    <2>1. /\ UNCHANGED <<test, points, vu, conns, clock, loop, gone, answered>>
          /\ script.pc = "stopped" /\ Len(rows) < MaxRows
          /\ rows' = Append(rows, Row(<<script.time>>, "failover", <<<<0>>, <<>>, <<>>>>))
          /\ script' = [script EXCEPT !.pc = "done"]
      BY <1>8 DEF KillRow, Adds, client
    <2>2. Row(<<script.time>>, "failover", <<<<0>>, <<>>, <<>>>>) \in Rows
      <3>1. <<script.time>> \in Seq(Nat) /\ <<0>> \in Seq(Nat) /\ <<>> \in Seq(Nat)
        BY <1>1
      <3>. QED
        BY <3>1, RowIs
    <2>3. DOMAIN rows' = DOMAIN rows \cup {Len(rows) + 1}
      BY <1>1, <2>1, <2>2, Added
    <2>4. script' \in [pc : {"baseline", "timed", "stopped", "done"}, time : Nat]
      BY <1>1, <2>1
    <2>5. test = "failover"
      BY <1>1, <2>1 DEF ShellOK, ShellRuns
    <2>. QED
      BY <1>1, <2>1, <2>2, <2>3, <2>4, <2>5 DEF ShellOK, ShellRuns
  <1>. QED
    BY <1>2, <1>3, <1>4, <1>5, <1>6, <1>7, <1>8 DEF ShellNext

\* A step that leaves the client alone.
ClientKept == UNCHANGED <<test, vu, conns>>

\* No step takes a variable out of its range.
LEMMA TypedStep == Typed /\ [ExperimentsNext]_expVars => Typed'
  <1>. SUFFICES ASSUME Typed, [ExperimentsNext]_expVars PROVE Typed'
    OBVIOUS
  <1>. DEFINE VuTypes == [open : BOOLEAN, established : BOOLEAN, dropped : Nat,
                          localPts : 0 .. MaxPts, last : 0 .. MaxPts]
  <1>1. /\ test \in Tests /\ vu \in VuTypes
        /\ conns \in Seq(Seq(Kinds \X (1 .. MaxPts))) /\ Len(conns) <= MaxConns
        /\ points \in Seq(Points) /\ rows \in Seq(Rows) /\ Len(rows) \in Nat
        /\ answered \in Seq(SUBSET (1 .. Gateways)) /\ Len(answered) <= MaxRows
        /\ test # "scaling" => Len(rows) <= MaxRows
        /\ vu.open => conns # <<>>
        /\ conns # <<>> => test \in Clients
        /\ vu.localPts \in Nat /\ MaxPts \in Nat /\ MaxRows \in Nat
    BY ExperimentsAssumption DEF Typed, ExperimentsTypeOK, FilesOK, OpenClient
  <1>s. ShellOK
    BY DEF Typed, ExperimentsTypeOK, ShellOK
  <1>2. FilesOK' => FileTypes'
    BY FilesType, PTL
  <1>3. ASSUME test' \in Tests, FilesOK', vu' \in VuTypes,
               conns' \in Seq(Seq(Kinds \X (1 .. MaxPts))), Len(conns') <= MaxConns,
               vu'.open => conns' # <<>>, conns' # <<>> => test' \in Clients, ShellOK'
        PROVE  Typed'
    BY <1>2, <1>3 DEF Typed, FileTypes, ExperimentsTypeOK, OpenClient, ShellOK
  <1>4. ASSUME ClientKept, FilesOK', ShellOK' PROVE Typed'
    BY <1>1, <1>3, <1>4 DEF ClientKept
  <1>t. ASSUME UNCHANGED <<test, shell>>, DOMAIN rows \subseteq DOMAIN rows' PROVE ShellOK'
    BY <1>s, <1>t DEF ShellOK, ShellRuns, shell
  <1>5. CASE Iterate
    <2>1. FilesOK' /\ ShellOK'
      BY <1>1, <1>5, <1>t, IterateBegins DEF FilesOK
    <2>2. vu' = [open |-> FALSE, established |-> FALSE, dropped |-> 0, localPts |-> 0, last |-> 0]
          /\ test \in Clients /\ test' = test /\ Len(conns') <= MaxConns /\ conns' # <<>>
          /\ conns' \in Seq(Seq(Kinds \X (1 .. MaxPts)))
      BY <1>5, IterateBegins
    <2>3. vu' \in VuTypes
      BY <1>1, <2>2
    <2>. QED
      BY <1>1, <1>3, <2>1, <2>2, <2>3
  <1>o. CASE Open
    <2>1. /\ conns # <<>> /\ UNCHANGED <<test, rows, conns, shell, answered>>
          /\ vu' = [vu EXCEPT !.open = TRUE, !.established = TRUE]
          /\ points' \in Seq(Points)
      BY <1>o, OpenWrites
    <2>2. FilesOK' /\ ShellOK' /\ vu' \in VuTypes
      BY <1>1, <1>t, <2>1 DEF FilesOK
    <2>. QED
      BY <1>1, <1>3, <2>1, <2>2
  <1>6. CASE Close
    <2>1. UNCHANGED <<test, points, rows, conns, shell, answered>>
          /\ vu' = [vu EXCEPT !.open = FALSE, !.dropped = 1]
      BY <1>6 DEF Close
    <2>2. FilesOK' /\ ShellOK' /\ vu' \in VuTypes /\ vu'.open = FALSE
      BY <1>1, <1>t, <2>1 DEF FilesOK
    <2>. QED
      BY <1>1, <1>3, <2>1, <2>2
  <1>7. ASSUME NEW kind \in Kinds, NEW n \in 1 .. MaxPts, Frame(kind, n)
        PROVE  Typed'
    <2>1. /\ vu.open /\ test \in Clients /\ UNCHANGED <<test, rows, shell, answered>>
          /\ Len(conns') = Len(conns)
          /\ conns' \in Seq(Seq(Kinds \X (1 .. MaxPts)))
          /\ Len(conns) \in DOMAIN conns /\ DOMAIN conns' = DOMAIN conns
      BY <1>7, FrameGrows
    <2>2. /\ points' \in Seq(Points)
          /\ \/ vu' = vu \/ vu' = [vu EXCEPT !.localPts = n]
             \/ vu' = [vu EXCEPT !.localPts = Higher(@, n)]
             \/ vu' = [vu EXCEPT !.last = n, !.localPts = Higher(@, n)]
      BY <1>7, <2>1, ConsistencyFrame, SimpleFrame, FailoverFrame DEF Clients, Kinds
    <2>3. FilesOK' /\ ShellOK'
      BY <1>1, <1>t, <2>1, <2>2 DEF FilesOK
    <2>4. vu' \in VuTypes
      <3>1. Higher(vu.localPts, n) \in 0 .. MaxPts /\ n \in 0 .. MaxPts
        BY <1>1 DEF Higher
      <3>. QED
        BY <1>1, <2>2, <3>1
    <2>5. conns' # <<>>
      BY <2>1
    <2>. QED
      BY <1>1, <1>3, <2>1, <2>3, <2>4, <2>5
  <1>8. CASE ShellNext
    <2>1. /\ UNCHANGED <<test, points, vu, conns, answered>> /\ test # "scaling" /\ ShellOK'
          /\ rows' = rows \/ (Len(rows) < MaxRows /\ \E row \in Rows : rows' = Append(rows, row))
      BY <1>8, ShellSteps DEF Clients
    <2>2. rows' \in Seq(Rows) /\ Len(rows') <= MaxRows
      <3>1. CASE rows' = rows
        BY <1>1, <2>1, <3>1
      <3>2. ASSUME NEW row \in Rows, rows' = Append(rows, row), Len(rows) < MaxRows
            PROVE  rows' \in Seq(Rows) /\ Len(rows') <= MaxRows
        <4>1. Append(rows, row) \in Seq(Rows) /\ Len(Append(rows, row)) = Len(rows) + 1
          BY <1>1, Added
        <4>. QED
          BY <1>1, <3>2, <4>1
      <3>. QED
        BY <2>1, <3>1, <3>2
    <2>. QED
      BY <1>1, <1>4, <2>1, <2>2 DEF FilesOK, ClientKept
  <1>9. ASSUME NEW n \in 0 .. Gateways, NEW able \in [1 .. n -> 1 .. Gateways], Round(able)
        PROVE  Typed'
    <2>1. UNCHANGED <<test, points, vu, conns, shell>> /\ test = "scaling"
      BY <1>9 DEF Round, client
    <2>2. PICK q \in Seq(Rows) : rows' = rows \o q
      BY <1>9, RoundIs
    <2>3. rows' \in Seq(Rows) /\ DOMAIN rows \subseteq DOMAIN rows'
      BY <1>1, <2>2, Joined
    <2>4. answered' \in Seq(SUBSET (1 .. Gateways)) /\ Len(answered') <= MaxRows
      <3>1. Range(able) \in SUBSET (1 .. Gateways) /\ answered' = Append(answered, Range(able))
            /\ Len(answered) + 1 \in 1 .. MaxRows
        BY <1>9, RoundIs
      <3>. QED
        BY <1>1, <3>1, Added
    <2>. QED
      BY <1>1, <1>4, <1>t, <2>1, <2>3, <2>4 DEF FilesOK, ClientKept
  <1>10. ASSUME UNCHANGED <<test, rows, vu, conns, shell, answered>>, points' \in Seq(Points) PROVE Typed'
    BY <1>1, <1>4, <1>t, <1>10 DEF FilesOK, ClientKept
  <1>11. ASSUME NEW time \in {<<>>} \cup {<<t>> : t \in Times}, NEW d \in Durations, Request(time, d)
         PROVE  Typed'
    <2>1. time \in Seq(Nat)
      <3>1. CASE time = <<>>
        BY <3>1
      <3>2. ASSUME NEW t \in Times, time = <<t>> PROVE time \in Seq(Nat)
        <4>1. t \in Nat
          BY ExperimentsAssumption
        <4>. QED
          BY <3>2, <4>1
      <3>. QED
        BY <3>1, <3>2
    <2>2. [metric |-> "http_req_duration", value |-> d, time |-> time] \in Points
      BY <2>1, ExperimentsAssumption DEF Points, MetricNames
    <2>. QED
      BY <1>1, <1>10, <1>11, <2>2, Added DEF Request, client
  <1>12. ASSUME NEW d \in Durations, Recorded(d) PROVE Typed'
    <2>1. Metric("reconnect_time_ms", d) \in Seq(Points)
      BY ExperimentsAssumption DEF Metric, Points, MetricNames
    <2>. QED
      BY <1>1, <1>10, <1>12, <2>1, Joined DEF Recorded, client
  <1>13. CASE UNCHANGED expVars
    BY <1>1, <1>10, <1>13 DEF expVars, client
  <1>. QED
    BY <1>5, <1>o, <1>6, <1>7, <1>8, <1>9, <1>11, <1>12, <1>13 DEF ExperimentsNext, ShellNext
----------------------------------------------------------------------------
(* The invariant of the clients.                                           *)

ClientInv ==
    /\ VerdictExact /\ SizesWithGaps /\ HighWater /\ Contiguous
    /\ LossAnchor /\ LossCounted

\* A connection shown its numbers in order, but for messages that follow acks.
Upright(c) ==
    \A i, j \in DOMAIN c : Inverted(c, i, j) => c[i][1] = "ack" /\ c[j][1] = "message"

\* The verdict is a matter of one metric.
Verdict == test = "consistency" =>
               (None("pts_order_violations") <=> \A k \in DOMAIN conns : Upright(conns[k]))

\* It is what VerdictExact says.
LEMMA VerdictIs == VerdictExact <=> Verdict
  <1>1. ConsistencyFigure(rows, points).pass <=> None("pts_order_violations")
    BY DEF ConsistencyFigure, None
  <1>. QED
    BY <1>1 DEF VerdictExact, Verdict, Upright

\* Which steps write what.
LEMMA Writes ==
  ASSUME Typed, [ExperimentsNext]_expVars
  PROVE  \/ Iterate \/ Open \/ Close
         \/ \E kind \in Kinds, n \in 1 .. MaxPts : Frame(kind, n)
         \/ UNCHANGED <<test, points, vu, conns>>
         \/ test \notin Clients /\ test' = test
  <1>1. CASE ShellNext
    BY <1>1, ShellSteps
  <1>2. ASSUME NEW n \in 0 .. Gateways, NEW able \in [1 .. n -> 1 .. Gateways], Round(able)
        PROVE  UNCHANGED <<test, points, vu, conns>>
    BY <1>2 DEF Round, client
  <1>3. ASSUME NEW time \in {<<>>} \cup {<<t>> : t \in Times}, NEW d \in Durations, Request(time, d)
        PROVE  test \notin Clients /\ test' = test
    BY <1>3 DEF Request, Clients
  <1>4. ASSUME NEW d \in Durations, Recorded(d)
        PROVE  test \notin Clients /\ test' = test
    BY <1>4 DEF Recorded, Clients
  <1>5. CASE UNCHANGED expVars
    BY <1>5 DEF expVars, client
  <1>. QED
    BY <1>1, <1>2, <1>3, <1>4, <1>5 DEF ExperimentsNext, ShellNext

\* The numbers a list of frames lacks are those of a finite set.
LEMMA NeverSeenType ==
  ASSUME NEW c
  PROVE  IsFiniteSet(NeverSeen(c)) /\ Cardinality(NeverSeen(c)) \in Nat
  <1>1. NeverSeen(c) \subseteq 1 .. MaxPts /\ IsFiniteSet(1 .. MaxPts)
    BY FS_Interval, ExperimentsAssumption DEF NeverSeen
  <1>. QED
    BY <1>1, Fewer

\* Both sums of LossCounted are of numbers.
LEMMA LossLists ==
  FilesOK /\ conns \in Seq(Seq(Kinds \X (1 .. MaxPts))) =>
    /\ IsList(Values(points, "messages_lost_during_failover"))
    /\ IsList([k \in DOMAIN conns |-> Cardinality(NeverSeen(conns[k]))])
  <1>. SUFFICES ASSUME FilesOK, conns \in Seq(Seq(Kinds \X (1 .. MaxPts)))
                PROVE  /\ IsList(Values(points, "messages_lost_during_failover"))
                       /\ IsList([k \in DOMAIN conns |-> Cardinality(NeverSeen(conns[k]))])
    OBVIOUS
  <1>1. IsList(Values(points, "messages_lost_during_failover"))
    BY MetricList DEF FilesOK
  <1>2. IsFiniteSet(DOMAIN conns)
    BY FS_Interval
  <1>. QED
    BY <1>1, <1>2, NeverSeenType DEF IsList

\* An iteration that begins has nothing to tell.
LEMMA ClientIterate == Typed /\ ClientInv /\ Iterate => ClientInv'
  <1>. SUFFICES ASSUME Typed, ClientInv, Iterate PROVE ClientInv'
    OBVIOUS
  <1>1. /\ test' = test
        /\ DOMAIN conns' = DOMAIN conns \cup {Len(conns) + 1} /\ Len(conns) + 1 \notin DOMAIN conns
        /\ \A k \in DOMAIN conns : conns'[k] = conns[k]
        /\ conns'[Len(conns) + 1] = <<>> /\ Last' = <<>> /\ DOMAIN Last' = {}
        /\ vu' = [open |-> FALSE, established |-> FALSE, dropped |-> 0, localPts |-> 0, last |-> 0]
        /\ points' = points
        /\ \A m : None(m)' <=> None(m)
    BY IterateBegins DEF None
  <1>2. Verdict'
    <2>1. Verdict
      BY VerdictIs DEF ClientInv
    <2>2. Upright(conns'[Len(conns) + 1])
      BY <1>1 DEF Upright
    <2>3. (\A k \in DOMAIN conns' : Upright(conns'[k])) <=> \A k \in DOMAIN conns : Upright(conns[k])
      BY <1>1, <2>2
    <2>4. None("pts_order_violations")' <=> None("pts_order_violations")
      BY <1>1
    <2>. QED
      BY <1>1, <2>1, <2>3, <2>4 DEF Verdict
  <1>3. VerdictExact'
    BY <1>2, VerdictIs, PTL
  <1>4. None("pts_gap_size")' <=> None("pts_gap_size")
    BY <1>1
  <1>5. None("pts_gaps_detected")' <=> None("pts_gaps_detected")
    BY <1>1
  <1>6. None("pts_order_violations")' <=> None("pts_order_violations")
    BY <1>1
  <1>7. SizesWithGaps'
    BY <1>1, <1>4, <1>5 DEF ClientInv, SizesWithGaps
  <1>8. HighWater'
    BY <1>1 DEF HighWater
  <1>9. Contiguous'
    <2>. SUFFICES ASSUME Quiet'
                  PROVE  /\ \A k \in DOMAIN conns' : Gapless(conns'[k])
                         /\ conns' # <<>> /\ vu'.last = 0 =>
                               \A n \in 1 .. vu'.localPts : \E h \in DOMAIN Last' : Last'[h][2] = n
      BY DEF Contiguous
    <2>1. Quiet
      BY <1>1, <1>5, <1>6 DEF Quiet, Passing
    <2>2. \A k \in DOMAIN conns : Gapless(conns[k])
      BY <2>1 DEF ClientInv, Contiguous
    <2>3. Gapless(conns'[Len(conns) + 1])
      BY <1>1 DEF Gapless
    <2>. QED
      BY <1>1, <2>2, <2>3
  <1>10. LossAnchor'
    BY <1>1 DEF LossAnchor
  <1>11. LossCounted'
    <2>. DEFINE S == [k \in DOMAIN conns |-> Cardinality(NeverSeen(conns[k]))]
                T == [k \in DOMAIN conns' |-> Cardinality(NeverSeen(conns'[k]))]
    <2>. SUFFICES ASSUME test = "failover"
                  PROVE  Total(Values(points', "messages_lost_during_failover")) >= Total(T)
      BY <1>1 DEF LossCounted
    <2>1. Total(Values(points, "messages_lost_during_failover")) >= Total(S)
      BY DEF ClientInv, LossCounted
    <2>2. IsList(S)
      BY LossLists DEF Typed, ExperimentsTypeOK
    <2>3. NeverSeen(<<>>) = {} /\ Cardinality({}) = 0
      BY FS_EmptySet DEF NeverSeen
    <2>4. DOMAIN T = DOMAIN S \cup {Len(conns) + 1} /\ Len(conns) + 1 \notin DOMAIN S
          /\ (\A k \in DOMAIN S : T[k] = S[k]) /\ T[Len(conns) + 1] = 0
      BY <1>1, <2>3
    <2>. HIDE DEF S, T
    <2>5. IsFiniteSet(DOMAIN T)
      BY <2>2, <2>4, FS_AddElement DEF IsList
    <2>6. T \in [DOMAIN T -> Nat]
      <3>1. \A k \in DOMAIN T : T[k] \in Nat
        BY <2>2, <2>4 DEF IsList
      <3>2. T = [k \in DOMAIN T |-> T[k]]
        BY DEF T
      <3>. QED
        BY <3>1, <3>2
    <2>7. Total(T) = Total(S) + T[Len(conns) + 1]
      BY <2>2, <2>4, <2>5, <2>6, TotalAdd DEF IsList
    <2>8. Total(S) \in Nat
      BY <2>2, TotalType
    <2>. QED
      BY <1>1, <2>1, <2>4, <2>7, <2>8
  <1>. QED
    BY <1>3, <1>7, <1>8, <1>9, <1>10, <1>11 DEF ClientInv

\* Nor does one that opens or ends, or another part of the experiment.
LEMMA ClientKeeps ==
  ASSUME ClientInv, UNCHANGED <<test, conns>>, vu'.localPts = vu.localPts, vu'.last = vu.last,
         \A m : m # "reconnect_time_ms" =>
             (None(m)' <=> None(m)) /\ Values(points', m) = Values(points, m)
  PROVE  ClientInv'
  <1>1. /\ None("pts_gap_size")' <=> None("pts_gap_size")
        /\ None("pts_gaps_detected")' <=> None("pts_gaps_detected")
        /\ None("pts_order_violations")' <=> None("pts_order_violations")
        /\ Values(points', "messages_lost_during_failover")
               = Values(points, "messages_lost_during_failover")
    OBVIOUS
  <1>2. Last' = Last
    BY DEF Last
  <1>3. Verdict'
    <2>1. Verdict
      BY VerdictIs DEF ClientInv
    <2>. QED
      BY <1>1, <2>1 DEF Verdict
  <1>4. VerdictExact'
    BY <1>3, VerdictIs, PTL
  <1>5. SizesWithGaps'
    BY <1>1 DEF ClientInv, SizesWithGaps
  <1>6. LossCounted'
    BY <1>1 DEF ClientInv, LossCounted
  <1>7. (Passing' <=> Passing) /\ (Quiet' <=> Quiet)
    BY <1>1 DEF Quiet, Passing
  <1>8. HighWater' /\ LossAnchor'
    BY <1>2, <1>7 DEF ClientInv, HighWater, LossAnchor
  <1>9. Contiguous'
    BY <1>2, <1>7 DEF ClientInv, Contiguous
  <1>. QED
    BY <1>4, <1>5, <1>6, <1>8, <1>9 DEF ClientInv

\* Nothing is said of the other experiments.
LEMMA NoClient == test \notin Clients => ClientInv
  BY DEF Clients, ClientInv, VerdictExact, SizesWithGaps, HighWater, Contiguous, Quiet, Passing,
         LossAnchor, LossCounted----------------------------------------------------------------------------
(* A frame comes.                                                          *)

\* The client of consistency_test.js keeps to the highest number.
LEMMA FrameHigh ==
  ASSUME Typed, test = "consistency", HighWater,
         NEW kind \in Kinds, NEW n \in 1 .. MaxPts, Frame(kind, n)
  PROVE  HighWater'
  <1>. SUFFICES ASSUME Passing'
                PROVE  /\ \A i \in DOMAIN Last' : /\ Last'[i][2] <= vu'.localPts
                                                  /\ Last'[i][1] = "message" => Last'[i][2] <= vu'.last
                       /\ vu'.localPts > 0 => \E i \in DOMAIN Last' : Last'[i][2] = vu'.localPts
                       /\ vu'.last > 0 => \E i \in DOMAIN Last' : Last'[i] = <<"message", vu'.last>>
    BY DEF HighWater
  <1>. DEFINE new == Len(Last) + 1
  <1>1. /\ vu.open /\ conns # <<>> /\ DOMAIN Last' = DOMAIN Last \cup {new}
        /\ \A i \in DOMAIN Last : Last'[i] = Last[i]
        /\ Last'[new] = <<kind, n>>
        /\ \A i \in DOMAIN Last : Last[i] \in Kinds \X (1 .. MaxPts)
    BY FrameGrows
  <1>2. vu.localPts \in Nat /\ vu.last \in Nat /\ n \in Nat /\ n > 0
        /\ vu \in [open : BOOLEAN, established : BOOLEAN, dropped : Nat, localPts : 0 .. MaxPts, last : 0 .. MaxPts]
    BY ExperimentsAssumption DEF Typed, ExperimentsTypeOK
  <1>3. \A i \in DOMAIN Last : Last[i][2] \in Nat
    BY <1>1, ExperimentsAssumption
  <1>. HIDE DEF new
  <1>4. None("pts_order_violations")'
    BY DEF Passing
  <1>5. CASE kind = "ack"
    <2>1. vu' = [vu EXCEPT !.localPts = n] /\ None("pts_order_violations") /\ n > vu.localPts
      BY <1>4, <1>5, ConsistencyFrame
    <2>2. vu'.localPts = n /\ vu'.last = vu.last
      BY <1>2, <2>1
    <2>3. /\ \A i \in DOMAIN Last : /\ Last[i][2] <= vu.localPts
                                    /\ Last[i][1] = "message" => Last[i][2] <= vu.last
          /\ vu.last > 0 => \E i \in DOMAIN Last : Last[i] = <<"message", vu.last>>
      BY <1>1, <2>1 DEF HighWater, Passing
    <2>4. ASSUME NEW i \in DOMAIN Last'
          PROVE  Last'[i][2] <= n /\ (Last'[i][1] = "message" => Last'[i][2] <= vu.last)
      BY <1>1, <1>2, <1>3, <1>5, <2>1, <2>3
    <2>5. new \in DOMAIN Last' /\ Last'[new][2] = n
      BY <1>1
    <2>. QED
      BY <1>1, <2>2, <2>3, <2>4, <2>5
  <1>6. CASE kind = "message"
    <2>1. vu' = [vu EXCEPT !.last = n, !.localPts = Higher(@, n)]
          /\ None("pts_order_violations") /\ n > vu.last
      BY <1>4, <1>6, ConsistencyFrame
    <2>2. vu'.localPts = Higher(vu.localPts, n) /\ vu'.last = n
      BY <1>2, <2>1
    <2>3. /\ \A i \in DOMAIN Last : /\ Last[i][2] <= vu.localPts
                                    /\ Last[i][1] = "message" => Last[i][2] <= vu.last
          /\ vu.localPts > 0 => \E i \in DOMAIN Last : Last[i][2] = vu.localPts
      BY <1>1, <2>1 DEF HighWater, Passing
    <2>4. ASSUME NEW i \in DOMAIN Last'
          PROVE  Last'[i][2] <= vu'.localPts /\ (Last'[i][1] = "message" => Last'[i][2] <= n)
      BY <1>1, <1>2, <1>3, <2>1, <2>2, <2>3 DEF Higher
    <2>5. new \in DOMAIN Last' /\ Last'[new] = <<"message", n>>
      BY <1>1, <1>6
    <2>6. \E i \in DOMAIN Last' : Last'[i][2] = vu'.localPts
      <3>1. CASE vu.localPts > n
        BY <1>1, <1>2, <2>2, <2>3, <3>1 DEF Higher
      <3>2. CASE ~ (vu.localPts > n)
        BY <2>2, <2>5, <3>2 DEF Higher
      <3>. QED
        BY <3>1, <3>2
    <2>. QED
      BY <2>2, <2>4, <2>5, <2>6
  <1>. QED
    BY <1>5, <1>6 DEF Kinds

\* It reports a violation if, and only if, the connection stops being upright.
LEMMA FrameVerdict ==
  ASSUME Typed, test = "consistency", HighWater, Verdict,
         NEW kind \in Kinds, NEW n \in 1 .. MaxPts, Frame(kind, n)
  PROVE  Verdict'
  <1>. DEFINE new == Len(Last) + 1
  <1>1. /\ vu.open /\ conns # <<>> /\ test' = test
        /\ Len(conns) \in DOMAIN conns /\ DOMAIN conns' = DOMAIN conns
        /\ conns[Len(conns)] = Last /\ conns'[Len(conns)] = Last'
        /\ \A k \in DOMAIN conns \ {Len(conns)} : conns'[k] = conns[k]
        /\ DOMAIN Last' = DOMAIN Last \cup {new} /\ new \notin DOMAIN Last
        /\ \A i \in DOMAIN Last : Last'[i] = Last[i]
        /\ Last'[new] = <<kind, n>>
        /\ \A i \in DOMAIN Last : Last[i] \in Kinds \X (1 .. MaxPts) /\ Last[i][2] # n
    <2>1. /\ vu.open /\ conns # <<>> /\ test' = test
          /\ Len(conns) \in DOMAIN conns /\ DOMAIN conns' = DOMAIN conns
          /\ conns[Len(conns)] = Last /\ conns'[Len(conns)] = Last'
          /\ \A k \in DOMAIN conns \ {Len(conns)} : conns'[k] = conns[k]
          /\ DOMAIN Last' = DOMAIN Last \cup {new} /\ new \notin DOMAIN Last
      BY FrameGrows
    <2>2. /\ \A i \in DOMAIN Last : Last'[i] = Last[i]
          /\ Last'[new] = <<kind, n>>
          /\ \A i \in DOMAIN Last : Last[i] \in Kinds \X (1 .. MaxPts) /\ Last[i][2] # n
      BY FrameGrows
    <2>. QED
      BY <2>1, <2>2
  <1>2. vu.localPts \in Nat /\ vu.last \in Nat /\ n \in Nat /\ n > 0
    BY ExperimentsAssumption DEF Typed, ExperimentsTypeOK
  <1>3. \A i \in DOMAIN Last : Last[i][2] \in Nat /\ i < new /\ ~ (new < i)
    <2>1. Last \in Seq(Kinds \X (1 .. MaxPts))
      BY FrameGrows
    <2>. QED
      BY <1>1, <2>1, ExperimentsAssumption
  <1>4. ~ (new < new)
    <2>1. Last \in Seq(Kinds \X (1 .. MaxPts))
      BY FrameGrows
    <2>. QED
      BY <2>1
  <1>. HIDE DEF new
  <1>5. Upright(Last') <=> Upright(Last) /\ \A i \in DOMAIN Last :
                               n < Last[i][2] => Last[i][1] = "ack" /\ kind = "message"
    <2>1. ASSUME Upright(Last'), NEW i \in DOMAIN Last, n < Last[i][2]
          PROVE  Last[i][1] = "ack" /\ kind = "message"
      <3>1. i \in DOMAIN Last' /\ new \in DOMAIN Last' /\ Last'[i] = Last[i] /\ Last'[new] = <<kind, n>>
        BY <1>1
      <3>2. Inverted(Last', i, new)
        BY <1>3, <2>1, <3>1 DEF Inverted
      <3>3. Last'[i][1] = "ack" /\ Last'[new][1] = "message"
        BY <2>1, <3>1, <3>2 DEF Upright
      <3>. QED
        BY <3>1, <3>3
    <2>2. ASSUME Upright(Last') PROVE Upright(Last)
      BY <1>1, <2>2 DEF Upright, Inverted
    <2>3. ASSUME Upright(Last),
                 \A i \in DOMAIN Last : n < Last[i][2] => Last[i][1] = "ack" /\ kind = "message",
                 NEW i \in DOMAIN Last', NEW j \in DOMAIN Last', Inverted(Last', i, j)
          PROVE  Last'[i][1] = "ack" /\ Last'[j][1] = "message"
      <3>1. i # new
        BY <1>1, <1>3, <1>4, <2>3 DEF Inverted
      <3>2. CASE j = new
        BY <1>1, <2>3, <3>1, <3>2 DEF Inverted
      <3>3. CASE j # new
        BY <1>1, <2>3, <3>1, <3>3 DEF Inverted, Upright
      <3>. QED
        BY <3>2, <3>3
    <2>. QED
      BY <2>1, <2>2, <2>3 DEF Upright
  <1>6. (\A k \in DOMAIN conns' : Upright(conns'[k]))
            <=> /\ \A k \in DOMAIN conns : Upright(conns[k])
                /\ \A i \in DOMAIN Last : n < Last[i][2] => Last[i][1] = "ack" /\ kind = "message"
    BY <1>1, <1>5
  <1>7. None("pts_order_violations") <=> \A k \in DOMAIN conns : Upright(conns[k])
    BY DEF Verdict
  <1>8. ASSUME None("pts_order_violations")
        PROVE  None("pts_order_violations")'
                   <=> \A i \in DOMAIN Last : n < Last[i][2] => Last[i][1] = "ack" /\ kind = "message"
    <2>1. /\ \A i \in DOMAIN Last : /\ Last[i][2] <= vu.localPts
                                    /\ Last[i][1] = "message" => Last[i][2] <= vu.last
          /\ vu.localPts > 0 => \E i \in DOMAIN Last : Last[i][2] = vu.localPts
          /\ vu.last > 0 => \E i \in DOMAIN Last : Last[i] = <<"message", vu.last>>
      BY <1>1, <1>8 DEF HighWater, Passing
    <2>2. CASE kind = "ack"
      <3>1. None("pts_order_violations")' <=> n > vu.localPts
        BY <1>8, <2>2, ConsistencyFrame
      <3>2. ASSUME n > vu.localPts, NEW i \in DOMAIN Last PROVE ~ (n < Last[i][2])
        BY <1>2, <1>3, <2>1, <3>2
      <3>3. ASSUME ~ (n > vu.localPts) PROVE \E i \in DOMAIN Last : n < Last[i][2]
        <4>1. PICK i \in DOMAIN Last : Last[i][2] = vu.localPts
          BY <1>2, <2>1, <3>3
        <4>2. Last[i][2] # n
          BY <1>1
        <4>. QED
          BY <1>2, <3>3, <4>1, <4>2
      <3>. QED
        BY <2>2, <3>1, <3>2, <3>3
    <2>3. CASE kind = "message"
      <3>1. None("pts_order_violations")' <=> n > vu.last
        BY <1>8, <2>3, ConsistencyFrame
      <3>2. ASSUME n > vu.last, NEW i \in DOMAIN Last, n < Last[i][2] PROVE Last[i][1] = "ack"
        <4>1. Last[i][1] # "message"
          BY <1>2, <1>3, <2>1, <3>2
        <4>2. Last[i] \in Kinds \X (1 .. MaxPts)
          BY <1>1
        <4>. QED
          BY <4>1, <4>2 DEF Kinds
      <3>3. ASSUME ~ (n > vu.last)
            PROVE  \E i \in DOMAIN Last : n < Last[i][2] /\ Last[i][1] = "message"
        <4>1. PICK i \in DOMAIN Last : Last[i] = <<"message", vu.last>>
          BY <1>2, <2>1, <3>3
        <4>2. Last[i][2] # n
          BY <1>1
        <4>. QED
          BY <1>2, <3>3, <4>1, <4>2
      <3>. QED
        BY <2>3, <3>1, <3>2, <3>3
    <2>. QED
      BY <2>2, <2>3 DEF Kinds
  <1>9. None("pts_order_violations")' => None("pts_order_violations")
    BY ConsistencyFrame DEF Kinds
  <1>. QED
    BY <1>1, <1>6, <1>7, <1>8, <1>9 DEF Verdict
\* A frame that makes the client of consistency_test.js write nothing continues its
\* connection.
LEMMA FrameContiguous ==
  ASSUME Typed, test = "consistency", HighWater, Contiguous,
         NEW kind \in Kinds, NEW n \in 1 .. MaxPts, Frame(kind, n)
  PROVE  Contiguous'
  <1>. DEFINE new == Len(Last) + 1
  <1>1. /\ vu.open /\ conns # <<>>
        /\ Len(conns) \in DOMAIN conns /\ DOMAIN conns' = DOMAIN conns
        /\ conns[Len(conns)] = Last /\ conns'[Len(conns)] = Last'
        /\ \A k \in DOMAIN conns \ {Len(conns)} : conns'[k] = conns[k]
        /\ DOMAIN Last' = DOMAIN Last \cup {new}
        /\ \A i \in DOMAIN Last : Last'[i] = Last[i]
        /\ Last'[new] = <<kind, n>>
        /\ \A i \in DOMAIN Last : Last[i] \in Kinds \X (1 .. MaxPts) /\ Last[i][2] # n
    <2>1. /\ vu.open /\ conns # <<>>
          /\ Len(conns) \in DOMAIN conns /\ DOMAIN conns' = DOMAIN conns
          /\ conns[Len(conns)] = Last /\ conns'[Len(conns)] = Last'
          /\ \A k \in DOMAIN conns \ {Len(conns)} : conns'[k] = conns[k]
          /\ DOMAIN Last' = DOMAIN Last \cup {new}
      BY FrameGrows
    <2>2. /\ \A i \in DOMAIN Last : Last'[i] = Last[i]
          /\ Last'[new] = <<kind, n>>
          /\ \A i \in DOMAIN Last : Last[i] \in Kinds \X (1 .. MaxPts) /\ Last[i][2] # n
      BY FrameGrows
    <2>. QED
      BY <2>1, <2>2
  <1>2. vu.localPts \in Nat /\ vu.last \in Nat /\ n \in Nat /\ n > 0
        /\ vu \in [open : BOOLEAN, established : BOOLEAN, dropped : Nat, localPts : 0 .. MaxPts, last : 0 .. MaxPts]
    BY ExperimentsAssumption DEF Typed, ExperimentsTypeOK
  <1>3. \A i \in DOMAIN Last : Last[i][2] \in Nat /\ Last[i][2] > 0
    BY <1>1, ExperimentsAssumption
  <1>. HIDE DEF new
  <1>. SUFFICES ASSUME Quiet'
                PROVE  /\ \A k \in DOMAIN conns' : Gapless(conns'[k])
                       /\ conns' # <<>> /\ vu'.last = 0 =>
                             \A m \in 1 .. vu'.localPts : \E h \in DOMAIN Last' : Last'[h][2] = m
    BY DEF Contiguous
  <1>4. None("pts_order_violations")' /\ None("pts_gaps_detected")'
    BY DEF Quiet, Passing
  <1>5. None("pts_order_violations") /\ None("pts_gaps_detected")
    BY <1>4, ConsistencyFrame DEF Kinds
  <1>6. /\ \A k \in DOMAIN conns : Gapless(conns[k])
        /\ vu.last = 0 => \A m \in 1 .. vu.localPts : \E h \in DOMAIN Last : Last[h][2] = m
    BY <1>1, <1>5 DEF Contiguous, Quiet, Passing
  <1>7. /\ \A i \in DOMAIN Last : /\ Last[i][2] <= vu.localPts
                                  /\ Last[i][1] = "message" => Last[i][2] <= vu.last
        /\ vu.localPts > 0 => \E i \in DOMAIN Last : Last[i][2] = vu.localPts
        /\ vu.last > 0 => \E i \in DOMAIN Last : Last[i] = <<"message", vu.last>>
    BY <1>1, <1>5 DEF HighWater, Passing
  <1>8. Gapless(Last)
    BY <1>1, <1>6
  <1>9. ASSUME \A i, j \in DOMAIN Last' :
                   Last'[i][1] = "message" /\ Last'[i][2] < Last'[j][2] =>
                       \A m \in Last'[i][2] .. Last'[j][2] : \E h \in DOMAIN Last' : Last'[h][2] = m
        PROVE  \A k \in DOMAIN conns' : Gapless(conns'[k])
    <2>1. Gapless(Last')
      BY <1>9 DEF Gapless
    <2>. QED
      BY <1>1, <1>6, <2>1
  <1>10. ASSUME NEW i \in DOMAIN Last, NEW j \in DOMAIN Last,
                Last[i][1] = "message", Last[i][2] < Last[j][2], NEW m \in Last[i][2] .. Last[j][2]
         PROVE  \E h \in DOMAIN Last' : Last'[h][2] = m
    <2>1. PICK h \in DOMAIN Last : Last[h][2] = m
      BY <1>8, <1>10 DEF Gapless
    <2>. QED
      BY <1>1, <2>1
  <1>11. new \in DOMAIN Last' /\ Last'[new] = <<kind, n>>
    BY <1>1
  <1>12. CASE kind = "ack"
    <2>1. vu' = [vu EXCEPT !.localPts = n]
      BY <1>12, ConsistencyFrame
    <2>2. n > vu.localPts
      BY <1>4, <1>12, ConsistencyFrame
    <2>3. n <= vu.localPts + 1
      BY <1>4, <1>12, ConsistencyFrame
    <2>4. n = vu.localPts + 1 /\ vu'.localPts = n /\ vu'.last = vu.last
      BY <1>2, <2>1, <2>2, <2>3
    <2>5. ASSUME NEW i \in DOMAIN Last, Last[i][1] = "message", NEW m \in Last[i][2] .. n
          PROVE  \E h \in DOMAIN Last' : Last'[h][2] = m
      <3>1. CASE m = n
        BY <1>11, <3>1
      <3>2. CASE m = Last[i][2]
        BY <1>1, <3>2
      <3>3. CASE m # n /\ m # Last[i][2]
        <4>1. m \in Nat /\ m <= vu.localPts /\ Last[i][2] < m
          BY <1>2, <1>3, <2>4, <2>5, <3>3
        <4>2. PICK w \in DOMAIN Last : Last[w][2] = vu.localPts
          BY <1>2, <1>3, <1>7, <4>1
        <4>3. m \in Last[i][2] .. Last[w][2] /\ Last[i][2] < Last[w][2]
          BY <1>2, <1>3, <4>1, <4>2
        <4>. QED
          BY <1>10, <2>5, <4>3
      <3>. QED
        BY <3>1, <3>2, <3>3
    <2>6. ASSUME NEW i \in DOMAIN Last', NEW j \in DOMAIN Last',
                 Last'[i][1] = "message", Last'[i][2] < Last'[j][2], NEW m \in Last'[i][2] .. Last'[j][2]
          PROVE  \E h \in DOMAIN Last' : Last'[h][2] = m
      <3>1. i \in DOMAIN Last /\ Last'[i] = Last[i]
        BY <1>1, <1>12, <2>6
      <3>2. CASE j = new
        BY <1>11, <2>5, <2>6, <3>1, <3>2
      <3>3. CASE j # new
        BY <1>1, <1>10, <2>6, <3>1, <3>3
      <3>. QED
        BY <3>2, <3>3
    <2>7. ASSUME vu.last = 0, NEW m \in 1 .. n PROVE \E h \in DOMAIN Last' : Last'[h][2] = m
      <3>1. CASE m = n
        BY <1>11, <3>1
      <3>2. CASE m # n
        <4>1. m \in 1 .. vu.localPts
          BY <1>2, <2>4, <3>2
        <4>2. PICK h \in DOMAIN Last : Last[h][2] = m
          BY <1>6, <2>7, <4>1
        <4>. QED
          BY <1>1, <4>2
      <3>. QED
        BY <3>1, <3>2
    <2>. QED
      BY <1>9, <2>4, <2>6, <2>7
  <1>13. CASE kind = "message"
    <2>1. vu' = [vu EXCEPT !.last = n, !.localPts = Higher(@, n)]
      BY <1>13, ConsistencyFrame
    <2>2. n > vu.last
      BY <1>4, <1>13, ConsistencyFrame
    <2>3. vu.last = 0 \/ n <= vu.last + 1
      BY <1>4, <1>13, ConsistencyFrame
    <2>4. vu'.last # 0
      BY <1>2, <2>1
    <2>5. CASE vu.last = 0
      <3>1. \A i \in DOMAIN Last : Last[i][1] # "message"
        BY <1>3, <1>7, <2>5
      <3>2. ASSUME NEW i \in DOMAIN Last', NEW j \in DOMAIN Last',
                   Last'[i][1] = "message", Last'[i][2] < Last'[j][2],
                   NEW m \in Last'[i][2] .. Last'[j][2]
            PROVE  \E h \in DOMAIN Last' : Last'[h][2] = m
        <4>1. i = new /\ Last'[i][2] = n
          BY <1>1, <3>1, <3>2
        <4>2. j \in DOMAIN Last /\ Last'[j] = Last[j]
          BY <1>1, <1>2, <3>2, <4>1
        <4>3. m \in 1 .. vu.localPts
          BY <1>2, <1>3, <1>7, <3>2, <4>1, <4>2
        <4>4. PICK h \in DOMAIN Last : Last[h][2] = m
          BY <1>6, <2>5, <4>3
        <4>. QED
          BY <1>1, <4>4
      <3>. QED
        BY <1>9, <2>4, <3>2
    <2>6. CASE vu.last # 0
      <3>1. n = vu.last + 1
        BY <1>2, <2>2, <2>3, <2>6
      <3>2. PICK w \in DOMAIN Last : Last[w] = <<"message", vu.last>>
        BY <1>2, <1>7, <2>6
      <3>3. ASSUME NEW j \in DOMAIN Last PROVE Last[j][2] <= vu.last
        <4>. SUFFICES ASSUME vu.last < Last[j][2] PROVE FALSE
          BY <1>2, <1>3
        <4>1. n \in Last[w][2] .. Last[j][2] /\ Last[w][2] < Last[j][2] /\ Last[w][1] = "message"
          BY <1>2, <1>3, <3>1, <3>2
        <4>2. PICK h \in DOMAIN Last : Last[h][2] = n
          BY <1>8, <4>1 DEF Gapless
        <4>. QED
          BY <1>1, <4>2
      <3>4. ASSUME NEW i \in DOMAIN Last', NEW j \in DOMAIN Last',
                   Last'[i][1] = "message", Last'[i][2] < Last'[j][2],
                   NEW m \in Last'[i][2] .. Last'[j][2]
            PROVE  \E h \in DOMAIN Last' : Last'[h][2] = m
        <4>1. i \in DOMAIN Last /\ Last'[i] = Last[i]
          BY <1>1, <1>2, <1>3, <3>1, <3>3, <3>4
        <4>2. CASE j # new
          BY <1>1, <1>10, <3>4, <4>1, <4>2
        <4>3. CASE j = new
          <5>1. m \in Last[i][2] .. n
            BY <1>11, <3>4, <4>1, <4>3
          <5>2. CASE m = n
            BY <1>11, <5>2
          <5>3. CASE m = Last[i][2]
            BY <1>1, <4>1, <5>3
          <5>4. CASE m # n /\ m # Last[i][2]
            <6>1. m \in Last[i][2] .. Last[w][2] /\ Last[i][2] < Last[w][2]
              BY <1>2, <1>3, <3>1, <3>2, <4>1, <5>1, <5>4
            <6>. QED
              BY <1>10, <3>4, <4>1, <6>1
          <5>. QED
            BY <5>2, <5>3, <5>4
        <4>. QED
          BY <4>2, <4>3
      <3>. QED
        BY <1>9, <2>4, <3>4
    <2>. QED
      BY <2>5, <2>6
  <1>. QED
    BY <1>12, <1>13 DEF Kinds
\* The sizes of consistency_test.js come with the gaps.
LEMMA FrameSizes ==
  ASSUME Typed, SizesWithGaps, NEW kind \in Kinds, NEW n \in 1 .. MaxPts, Frame(kind, n)
  PROVE  SizesWithGaps'
  <1>1. test' = test
    BY DEF Frame
  <1>2. ASSUME test = "consistency"
        PROVE  (None("pts_gap_size") <=> None("pts_gaps_detected"))'
    <2>1. None("pts_gap_size") <=> None("pts_gaps_detected")
      BY <1>2 DEF SizesWithGaps
    <2>2. CASE kind = "ack"
      <3>1. None("pts_gap_size")' <=> None("pts_gap_size") /\ n <= vu.localPts + 1
        BY <1>2, <2>2, ConsistencyFrame
      <3>2. None("pts_gaps_detected")' <=> None("pts_gaps_detected") /\ n <= vu.localPts + 1
        BY <1>2, <2>2, ConsistencyFrame
      <3>. QED
        BY <2>1, <3>1, <3>2
    <2>3. CASE kind = "message"
      <3>1. None("pts_gap_size")' <=> None("pts_gap_size") /\ (vu.last = 0 \/ n <= vu.last + 1)
        BY <1>2, <2>3, ConsistencyFrame
      <3>2. None("pts_gaps_detected")'
                <=> None("pts_gaps_detected") /\ (vu.last = 0 \/ n <= vu.last + 1)
        BY <1>2, <2>3, ConsistencyFrame
      <3>. QED
        BY <2>1, <3>1, <3>2
    <2>. QED
      BY <2>2, <2>3 DEF Kinds
  <1>3. test = "simple" => (None("pts_gap_size")' <=> None("pts_gap_size"))
    BY SimpleFrame
  <1>. QED
    BY <1>1, <1>2, <1>3 DEF SizesWithGaps

\* What the client of failover_test.js compares with is one of the numbers it was shown.
LEMMA FrameAnchor ==
  ASSUME Typed, test = "failover", LossAnchor, NEW kind \in Kinds, NEW n \in 1 .. MaxPts, Frame(kind, n)
  PROVE  LossAnchor'
  <1>. DEFINE new == Len(Last) + 1
  <1>1. /\ vu.open /\ conns # <<>> /\ DOMAIN Last' = DOMAIN Last \cup {new}
        /\ \A i \in DOMAIN Last : Last'[i] = Last[i]
        /\ Last'[new] = <<kind, n>>
    BY FrameGrows
  <1>2. vu.localPts \in Nat /\ n \in Nat /\ n > 0
        /\ vu \in [open : BOOLEAN, established : BOOLEAN, dropped : Nat, localPts : 0 .. MaxPts, last : 0 .. MaxPts]
    BY ExperimentsAssumption DEF Typed, ExperimentsTypeOK
  <1>. HIDE DEF new
  <1>3. new \in DOMAIN Last' /\ Last'[new][2] = n /\ Last' # <<>>
    BY <1>1
  <1>4. vu.localPts > 0 => \E i \in DOMAIN Last : Last[i][2] = vu.localPts
    BY <1>1 DEF LossAnchor
  <1>5. vu'.localPts = n \/ vu'.localPts = Higher(vu.localPts, n)
    BY <1>2, FailoverFrame
  <1>6. vu'.localPts > 0 /\ vu'.localPts \in Nat
    BY <1>2, <1>5 DEF Higher
  <1>7. \E i \in DOMAIN Last' : Last'[i][2] = vu'.localPts
    <2>1. CASE vu'.localPts = n
      BY <1>3, <2>1
    <2>2. CASE vu'.localPts # n
      <3>1. vu'.localPts = vu.localPts
        BY <1>5, <2>2 DEF Higher
      <3>. QED
        BY <1>1, <1>4, <1>6, <3>1
    <2>. QED
      BY <2>1, <2>2
  <1>. QED
    BY <1>3, <1>6, <1>7 DEF LossAnchor

\* What a frame with number n adds to the numbers never seen was skipped right before.
LEMMA FrameSkips ==
  ASSUME Typed, test = "failover", LossAnchor, NEW kind \in Kinds, NEW n \in 1 .. MaxPts, Frame(kind, n)
  PROVE  /\ vu.localPts = 0 => NeverSeen(Last') = {}
         /\ NeverSeen(Last') \subseteq NeverSeen(Last) \cup (vu.localPts + 1 .. n - 1)
  <1>. DEFINE new == Len(Last) + 1
  <1>1. /\ vu.open /\ conns # <<>> /\ DOMAIN Last' = DOMAIN Last \cup {new}
        /\ \A i \in DOMAIN Last : Last'[i] = Last[i]
        /\ Last'[new] = <<kind, n>>
        /\ \A i \in DOMAIN Last : Last[i] \in Kinds \X (1 .. MaxPts)
    BY FrameGrows
  <1>2. vu.localPts \in Nat /\ n \in Nat
    BY ExperimentsAssumption DEF Typed, ExperimentsTypeOK
  <1>3. \A i \in DOMAIN Last : Last[i][2] \in Nat
    BY <1>1, ExperimentsAssumption
  <1>4. CASE Last = <<>>
    <2>1. vu.localPts = 0
      BY <1>1, <1>4 DEF LossAnchor
    <2>2. DOMAIN Last' = {1} /\ Last'[1][2] = n
      BY <1>1, <1>4
    <2>3. NeverSeen(Last') = {}
      BY <1>2, <2>2, ExperimentsAssumption DEF NeverSeen
    <2>. QED
      BY <2>3
  <1>5. CASE Last # <<>>
    <2>1. 1 \in DOMAIN Last /\ Last'[1] = Last[1]
      <3>1. Last \in Seq(Kinds \X (1 .. MaxPts))
        BY FrameGrows
      <3>. QED
        BY <1>1, <1>5, <3>1
    <2>2. vu.localPts # 0
      BY <1>1, <1>5 DEF LossAnchor
    <2>. HIDE DEF new
    <2>3. PICK w \in DOMAIN Last : Last[w][2] = vu.localPts
      BY <1>1, <1>2, <2>2 DEF LossAnchor
    <2>4. ASSUME NEW m \in NeverSeen(Last'), m \notin vu.localPts + 1 .. n - 1
          PROVE  m \in NeverSeen(Last)
      <3>1. /\ m \in 1 .. MaxPts /\ Last[1][2] < m /\ m \in Nat
            /\ \A i \in DOMAIN Last' : Last'[i][2] # m
        BY <2>1, ExperimentsAssumption DEF NeverSeen
      <3>2. \A i \in DOMAIN Last : Last[i][2] # m
        BY <1>1, <3>1
      <3>3. \E i \in DOMAIN Last : m < Last[i][2]
        <4>1. PICK i \in DOMAIN Last' : m < Last'[i][2]
          BY DEF NeverSeen
        <4>2. CASE i # new
          BY <1>1, <4>1, <4>2
        <4>3. CASE i = new
          <5>1. m < n
            BY <1>1, <4>1, <4>3
          <5>2. m < vu.localPts
            BY <1>2, <2>3, <2>4, <3>1, <3>2, <5>1
          <5>. QED
            BY <2>3, <5>2
        <4>. QED
          BY <4>2, <4>3
      <3>. QED
        BY <1>5, <3>1, <3>2, <3>3 DEF NeverSeen
    <2>. QED
      BY <2>2, <2>4
  <1>. QED
    BY <1>4, <1>5
\* What a client that has compared a with n takes for lost.
Skipped(a, n) == IF a = 0 \/ n <= a + 1 THEN 0 ELSE n - a - 1

\* It is written down.
LEMMA LossWritten ==
  ASSUME NEW p \in Seq(Points), NEW a \in Nat, NEW n \in Nat
  PROVE  Total(Values(p \o LossPoints(a, n), "messages_lost_during_failover"))
             = Total(Values(p, "messages_lost_during_failover")) + Skipped(a, n)
  <1>. DEFINE m == "messages_lost_during_failover"
  <1>1. \A q \in Seq(Points) : IsList(Values(q, m))
    BY MetricList
  <1>2. CASE a = 0 \/ n <= a + 1
    <2>1. LossPoints(a, n) = <<>> /\ Skipped(a, n) = 0
      BY <1>2 DEF LossPoints, Unless, Skipped
    <2>2. p \o <<>> = p
      OBVIOUS
    <2>3. Total(Values(p, m)) \in Nat
      BY <1>1, TotalType
    <2>. QED
      BY <2>1, <2>2, <2>3
  <1>3. CASE ~ (a = 0 \/ n <= a + 1)
    <2>. DEFINE d == n - a - 1
                s == Values(p, m)
                t == Values(p \o Metric(m, d), m)
    <2>1. d \in Nat /\ m \in MetricNames
      BY <1>3 DEF MetricNames
    <2>2. LossPoints(a, n) = Metric(m, d) /\ Skipped(a, n) = d
      BY <1>3 DEF LossPoints, Unless, Skipped
    <2>. HIDE DEF d
    <2>3. /\ Metric(m, d) \in Seq(Points) /\ Len(Metric(m, d)) = 1
          /\ Metric(m, d)[1].metric = m /\ Metric(m, d)[1].value = d
      BY <2>1, Emitted
    <2>4. /\ p \o Metric(m, d) \in Seq(Points)
          /\ Len(p) \in Nat /\ DOMAIN p = 1 .. Len(p)
          /\ DOMAIN (p \o Metric(m, d)) = 1 .. Len(p) + 1
          /\ \A i \in 1 .. Len(p) : (p \o Metric(m, d))[i] = p[i]
          /\ (p \o Metric(m, d))[Len(p) + 1] = Metric(m, d)[1]
      BY <2>3, Joined
    <2>5. Of(p \o Metric(m, d), m) = Of(p, m) \cup {Len(p) + 1} /\ Len(p) + 1 \notin Of(p, m)
      BY <2>3, <2>4 DEF Of
    <2>6. /\ DOMAIN t = DOMAIN s \cup {Len(p) + 1} /\ Len(p) + 1 \notin DOMAIN s
          /\ \A i \in DOMAIN s : t[i] = s[i]
          /\ t[Len(p) + 1] = d
      <3>1. \A i \in Of(p, m) : i \in 1 .. Len(p)
        BY <2>4 DEF Of
      <3>. QED
        BY <2>3, <2>4, <2>5, <3>1 DEF Values
    <2>7. IsList(s) /\ IsList(t)
      BY <1>1, <2>4
    <2>. HIDE DEF s, t
    <2>8. Total(t) = Total(s) + t[Len(p) + 1]
      BY <2>6, <2>7, TotalAdd
    <2>. QED
      BY <2>2, <2>6, <2>8 DEF s, t
  <1>. QED
    BY <1>2, <1>3

\* So the loss that is reported keeps up with the numbers never seen.
LEMMA FrameLoss ==
  ASSUME Typed, test = "failover", LossAnchor, LossCounted,
         NEW kind \in Kinds, NEW n \in 1 .. MaxPts, Frame(kind, n)
  PROVE  LossCounted'
  <1>. DEFINE m == "messages_lost_during_failover"
              S == [k \in DOMAIN conns |-> Cardinality(NeverSeen(conns[k]))]
              T == [k \in DOMAIN conns' |-> Cardinality(NeverSeen(conns'[k]))]
              x == Len(conns)
              gap == Skipped(vu.localPts, n)
  <1>1. /\ test' = test /\ x \in DOMAIN conns /\ DOMAIN conns' = DOMAIN conns
        /\ conns[x] = Last /\ conns'[x] = Last'
        /\ \A k \in DOMAIN conns \ {x} : conns'[k] = conns[k]
        /\ conns' \in Seq(Seq(Kinds \X (1 .. MaxPts)))
    BY FrameGrows
  <1>2. points \in Seq(Points) /\ vu.localPts \in Nat /\ n \in Nat
        /\ conns \in Seq(Seq(Kinds \X (1 .. MaxPts))) /\ FilesOK
    BY ExperimentsAssumption DEF Typed, ExperimentsTypeOK, FilesOK
  <1>3. IsList(S) /\ IsList(Values(points, m))
    BY <1>2, LossLists
  <1>4. \A k \in DOMAIN T : T[k] \in Nat
    BY NeverSeenType
  <1>5. /\ DOMAIN T = DOMAIN S /\ x \in DOMAIN S
        /\ \A k \in DOMAIN S \ {x} : T[k] = S[k]
        /\ T[x] = Cardinality(NeverSeen(Last')) /\ S[x] = Cardinality(NeverSeen(Last))
    BY <1>1
  <1>6. T = [k \in DOMAIN T |-> T[k]]
    OBVIOUS
  <1>7. Total(Values(points, m)) >= Total(S)
    BY DEF LossCounted
  <1>8. Total(Values(points', m)) = Total(Values(points, m)) + gap
    <2>1. points' = points \o LossPoints(vu.localPts, n)
      BY FailoverFrame
    <2>2. Total(Values(points \o LossPoints(vu.localPts, n), m)) = Total(Values(points, m)) + gap
      BY <1>2, LossWritten
    <2>. QED
      BY <2>1, <2>2
  <1>9. gap \in Nat /\ T[x] <= S[x] + gap
    <2>1. CASE vu.localPts = 0
      <3>1. T[x] = 0
        BY <1>5, <2>1, FrameSkips, FS_EmptySet
      <3>2. S[x] \in Nat /\ gap = 0
        BY <1>5, <2>1, NeverSeenType DEF Skipped
      <3>. QED
        BY <3>1, <3>2
    <2>2. CASE vu.localPts # 0
      <3>. DEFINE I == vu.localPts + 1 .. n - 1
      <3>1. gap \in Nat /\ IsFiniteSet(I) /\ Cardinality(I) = gap
        <4>1. IsFiniteSet(I)
              /\ Cardinality(I) = IF vu.localPts + 1 > n - 1 THEN 0 ELSE (n - 1) - (vu.localPts + 1) + 1
          <5>1. vu.localPts + 1 \in Int /\ n - 1 \in Int
            BY <1>2
          <5>. QED
            BY <5>1, FS_Interval
        <4>2. gap = IF n <= vu.localPts + 1 THEN 0 ELSE n - vu.localPts - 1
          BY <2>2 DEF Skipped
        <4>. HIDE DEF I, gap
        <4>3. CASE n <= vu.localPts + 1
          BY <1>2, <4>1, <4>2, <4>3
        <4>4. CASE ~ (n <= vu.localPts + 1)
          BY <1>2, <4>1, <4>2, <4>4
        <4>. QED
          BY <4>3, <4>4
      <3>2. IsFiniteSet(NeverSeen(Last)) /\ Cardinality(NeverSeen(Last)) \in Nat
        BY NeverSeenType
      <3>. HIDE DEF I, gap
      <3>3. /\ IsFiniteSet(NeverSeen(Last) \cup I)
            /\ Cardinality(NeverSeen(Last) \cup I) <= Cardinality(NeverSeen(Last)) + gap
        <4>1. /\ IsFiniteSet(NeverSeen(Last) \cup I)
              /\ Cardinality(NeverSeen(Last) \cup I)
                     = Cardinality(NeverSeen(Last)) + Cardinality(I) - Cardinality(NeverSeen(Last) \cap I)
          BY <3>1, <3>2, FS_Union
        <4>2. Cardinality(NeverSeen(Last) \cap I) \in Nat
          BY <3>2, FS_Intersection, FS_CardinalityType
        <4>. QED
          BY <3>1, <3>2, <4>1, <4>2
      <3>4. NeverSeen(Last') \subseteq NeverSeen(Last) \cup I
        BY FrameSkips DEF I
      <3>5. Cardinality(NeverSeen(Last')) <= Cardinality(NeverSeen(Last) \cup I)
            /\ Cardinality(NeverSeen(Last')) \in Nat /\ Cardinality(NeverSeen(Last) \cup I) \in Nat
        BY <3>3, <3>4, Fewer
      <3>. QED
        BY <1>5, <3>1, <3>2, <3>3, <3>5
    <2>. QED
      BY <2>1, <2>2
  <1>. HIDE DEF S, T, x, gap
  <1>10. IsList(T)
    BY <1>3, <1>4, <1>5, <1>6 DEF IsList
  <1>11. Total(T) - T[x] = Total(S) - S[x]
    BY <1>3, <1>5, <1>10, TotalChange
  <1>12. Total(S) \in Nat /\ Total(T) \in Nat /\ Total(Values(points, m)) \in Nat
    BY <1>3, <1>10, TotalType
  <1>13. S[x] \in Nat /\ T[x] \in Nat
    BY <1>3, <1>4, <1>5 DEF IsList
  <1>14. Total(Values(points', m)) >= Total(T)
    BY <1>7, <1>8, <1>9, <1>11, <1>12, <1>13
  <1>. QED
    BY <1>14 DEF LossCounted, T

\* A frame leaves the client right about its connection.
LEMMA ClientFrame ==
  ASSUME Typed, ClientInv, NEW kind \in Kinds, NEW n \in 1 .. MaxPts, Frame(kind, n)
  PROVE  ClientInv'
  <1>1. test \in Clients /\ test' = test
    BY FrameGrows
  <1>2. /\ VerdictExact /\ SizesWithGaps /\ HighWater /\ Contiguous
        /\ LossAnchor /\ LossCounted /\ Verdict
    BY VerdictIs DEF ClientInv
  <1>3. SizesWithGaps'
    BY <1>2, FrameSizes
  <1>4. Verdict' => VerdictExact'
    BY VerdictIs, PTL
  <1>5. CASE test = "consistency"
    <2>1. HighWater' /\ Verdict' /\ Contiguous'
      BY <1>2, <1>5, FrameHigh, FrameVerdict, FrameContiguous
    <2>2. LossAnchor' /\ LossCounted'
      BY <1>1, <1>5 DEF LossAnchor, LossCounted
    <2>. QED
      BY <1>3, <1>4, <2>1, <2>2 DEF ClientInv
  <1>6. CASE test = "failover"
    <2>1. LossAnchor' /\ LossCounted'
      BY <1>2, <1>6, FrameAnchor, FrameLoss
    <2>2. VerdictExact' /\ HighWater' /\ Contiguous'
      BY <1>1, <1>6 DEF VerdictExact, HighWater, Contiguous, Quiet, Passing
    <2>. QED
      BY <1>3, <2>1, <2>2 DEF ClientInv
  <1>7. CASE test = "simple"
    <2>1. /\ LossAnchor' /\ LossCounted'
          /\ VerdictExact' /\ HighWater' /\ Contiguous'
      BY <1>1, <1>7 DEF VerdictExact, HighWater, Contiguous, Quiet, Passing,
                        LossAnchor, LossCounted
    <2>. QED
      BY <1>3, <2>1 DEF ClientInv
  <1>. QED
    BY <1>1, <1>5, <1>6, <1>7 DEF Clients

\* What the clients know is right in every step.
LEMMA ClientStep == Typed /\ ClientInv /\ [ExperimentsNext]_expVars => ClientInv'
  <1>. SUFFICES ASSUME Typed, ClientInv, [ExperimentsNext]_expVars PROVE ClientInv'
    OBVIOUS
  <1>1. CASE Iterate
    BY <1>1, ClientIterate
  <1>2. CASE Open \/ Close
    <2>0. vu \in [open : BOOLEAN, established : BOOLEAN, dropped : Nat,
                   localPts : 0 .. MaxPts, last : 0 .. MaxPts]
      BY DEF Typed, ExperimentsTypeOK
    <2>1. CASE Open
      <3>1. /\ UNCHANGED <<test, conns>> /\ vu' = [vu EXCEPT !.open = TRUE, !.established = TRUE]
            /\ \A m : m # "reconnect_time_ms" =>
                   (None(m)' <=> None(m)) /\ Values(points', m) = Values(points, m)
        BY <2>1, OpenWrites
      <3>2. vu'.localPts = vu.localPts /\ vu'.last = vu.last
        BY <2>0, <3>1
      <3>. QED
        BY <3>1, <3>2, ClientKeeps
    <2>2. CASE Close
      <3>1. UNCHANGED <<test, points, conns>> /\ vu' = [vu EXCEPT !.open = FALSE, !.dropped = 1]
        BY <2>2 DEF Close
      <3>2. vu'.localPts = vu.localPts /\ vu'.last = vu.last
        BY <2>0, <3>1
      <3>. QED
        BY <3>1, <3>2, ClientKeeps DEF None
    <2>. QED
      BY <1>2, <2>1, <2>2
  <1>3. ASSUME NEW kind \in Kinds, NEW n \in 1 .. MaxPts, Frame(kind, n) PROVE ClientInv'
    BY <1>3, ClientFrame
  <1>4. CASE UNCHANGED <<test, points, vu, conns>>
    BY <1>4, ClientKeeps DEF None
  <1>5. CASE test \notin Clients /\ test' = test
    <2>1. test' \notin Clients => ClientInv'
      <3>1. (test \notin Clients => ClientInv)'
        BY NoClient, PTL
      <3>. QED
        BY <3>1 DEF Clients
    <2>. QED
      BY <1>5, <2>1
  <1>. QED
    BY <1>1, <1>2, <1>3, <1>4, <1>5, Writes
----------------------------------------------------------------------------
(* The invariants of the shell scripts.                                    *)

\* A row that is added is the last, and the others stay.
LEMMA RowAdded ==
  ASSUME Typed, NEW time \in Seq(Nat), NEW event \in {"running", "crash", "failover"},
         NEW a \in Seq(Nat), NEW b \in Seq(Nat), Adds(Row(time, event, <<a, b, b>>))
  PROVE  /\ DOMAIN rows' = DOMAIN rows \cup {Len(rows) + 1} /\ Len(rows) + 1 \notin DOMAIN rows
         /\ \A i \in DOMAIN rows : rows'[i] = rows[i]
         /\ rows'[Len(rows) + 1].time = time /\ rows'[Len(rows) + 1].event = event
  <1>. DEFINE row == Row(time, event, <<a, b, b>>)
  <1>1. row \in Rows /\ rows \in Seq(Rows) /\ rows' = Append(rows, row)
    BY RowIs DEF Typed, FilesOK, Adds
  <1>2. row.time = time /\ row.event = event
    BY DEF Row
  <1>. HIDE DEF row
  <1>. QED
    BY <1>1, <1>2, Added

\* The mark stays no later than the samples that find the gateway stopped, all but one.
LEMMA MarkedStopStep == Typed /\ MarkedStop /\ [ExperimentsNext]_expVars => MarkedStop'
  <1>. SUFFICES ASSUME Typed, MarkedStop, [ExperimentsNext]_expVars PROVE MarkedStop'
    OBVIOUS
  <1>0. test' = test
    BY DEF ExperimentsNext, expVars, Iterate, Open, Close, SampleTime, SampleAsk, SampleRow, Restart,
           KillTime, KillStop, KillRow, Frame, Round, Request, Recorded
  <1>. SUFFICES ASSUME test = "failover" PROVE MarkedStop'
    BY <1>0 DEF MarkedStop
  <1>1. /\ ~ Stopped => gone = {} /\ (loop.pc = "asked" => ~ loop.gone)
        /\ script.pc # "baseline" => script.time <= clock
        /\ \A i, j \in EarlyRows : i = j
        /\ loop.pc # "asleep" /\ loop.time < script.time => EarlyRows = {}
        /\ \A i \in DOMAIN rows : rows[i].event = "failover" =>
               script.pc = "done" /\ rows[i].time = <<script.time>>
    BY DEF MarkedStop
  <1>2. /\ loop \in [pc : {"asleep", "timed", "asked"}, time : Nat, count : {0, 1}, gone : BOOLEAN]
        /\ script \in [pc : {"baseline", "timed", "stopped", "done"}, time : Nat]
        /\ clock \in Nat /\ gone \subseteq DOMAIN rows
    BY DEF Typed, ExperimentsTypeOK
  <1>3. CASE UNCHANGED <<rows, shell>>
    BY <1>1, <1>3 DEF MarkedStop, EarlyRows, Stopped, shell
  <1>4. CASE SampleTime
    <2>1. /\ UNCHANGED <<rows, script, gone>> /\ clock' \in {clock, clock + 1}
          /\ loop' = [loop EXCEPT !.pc = "timed", !.time = clock']
      BY <1>4 DEF SampleTime, Date
    <2>2. loop'.pc = "timed" /\ loop'.time = clock' /\ clock' \in Nat /\ clock <= clock'
      BY <1>2, <2>1
    <2>3. EarlyRows' = EarlyRows /\ (Stopped' <=> Stopped)
      BY <2>1 DEF EarlyRows, Stopped
    <2>4. script.pc # "baseline" => script.time <= clock'
      BY <1>1, <1>2, <2>2
    <2>5. loop'.time < script.time => EarlyRows = {}
      <3>1. CASE script.pc = "baseline"
        BY <1>1, <3>1 DEF Stopped, EarlyRows
      <3>2. CASE script.pc # "baseline"
        BY <1>2, <2>2, <2>4, <3>2
      <3>. QED
        BY <3>1, <3>2
    <2>. QED
      BY <1>1, <2>1, <2>2, <2>3, <2>4, <2>5 DEF MarkedStop
  <1>5. ASSUME NEW count \in {0, 1}, SampleAsk(count) PROVE MarkedStop'
    <2>1. /\ UNCHANGED <<rows, clock, script, gone>> /\ loop.pc = "timed"
          /\ loop' = [loop EXCEPT !.pc = "asked", !.count = count, !.gone = Stopped]
      BY <1>5 DEF SampleAsk
    <2>2. loop'.gone = Stopped /\ loop'.time = loop.time
      BY <1>2, <2>1
    <2>3. EarlyRows' = EarlyRows /\ (Stopped' <=> Stopped)
      BY <2>1 DEF EarlyRows, Stopped
    <2>. QED
      BY <1>1, <2>1, <2>2, <2>3 DEF MarkedStop
  <1>6. CASE SampleRow
    <2>. DEFINE x == Len(rows) + 1
    <2>1. /\ UNCHANGED <<clock, script>> /\ loop.pc = "asked"
          /\ Adds(Row(<<loop.time>>, "running", <<<<loop.count>>, <<1>>, <<1>>>>))
          /\ loop' = [loop EXCEPT !.pc = "asleep"]
          /\ gone' = gone \cup {i \in {x} : loop.gone}
      BY <1>6 DEF SampleRow
    <2>2. /\ DOMAIN rows' = DOMAIN rows \cup {x} /\ x \notin DOMAIN rows
          /\ \A i \in DOMAIN rows : rows'[i] = rows[i]
          /\ rows'[x].time = <<loop.time>> /\ rows'[x].event = "running"
      <3>1. <<loop.time>> \in Seq(Nat) /\ <<loop.count>> \in Seq(Nat) /\ <<1>> \in Seq(Nat)
        BY <1>2
      <3>. QED
        BY <2>1, <3>1, RowAdded
    <2>. HIDE DEF x
    <2>3. loop'.pc = "asleep" /\ rows'[x].time[1] = loop.time
      BY <1>2, <2>1, <2>2
    <2>4. ASSUME NEW i \in EarlyRows' PROVE i \in EarlyRows \/ (i = x /\ EarlyRows = {})
      <3>1. CASE i \in gone
        BY <1>2, <2>1, <2>2, <3>1 DEF EarlyRows
      <3>2. CASE i \notin gone
        <4>1. i = x /\ loop.time < script.time
          BY <2>1, <2>3, <3>2 DEF EarlyRows
        <4>. QED
          BY <1>1, <2>1, <4>1
      <3>. QED
        BY <3>1, <3>2
    <2>5. \A i, j \in EarlyRows' : i = j
      BY <1>1, <2>4
    <2>6. ~ Stopped' => gone' = {}
      BY <1>1, <2>1 DEF Stopped
    <2>7. \A i \in DOMAIN rows' : rows'[i].event = "failover" =>
              script'.pc = "done" /\ rows'[i].time = <<script'.time>>
      BY <1>1, <2>1, <2>2
    <2>. QED
      BY <1>1, <2>1, <2>3, <2>5, <2>6, <2>7 DEF MarkedStop
  <1>7. CASE KillTime
    <2>1. /\ UNCHANGED <<rows, loop, gone>> /\ clock' \in {clock, clock + 1}
          /\ script.pc = "baseline" /\ script' = [pc |-> "timed", time |-> clock']
      BY <1>7 DEF KillTime, Date
    <2>2. clock' \in Nat /\ script'.pc = "timed" /\ script'.time = clock'
      BY <1>2, <2>1
    <2>3. gone' = {} /\ (loop'.pc = "asked" => ~ loop'.gone)
      BY <1>1, <2>1 DEF Stopped
    <2>4. EarlyRows' = {}
      BY <2>3 DEF EarlyRows
    <2>5. \A i \in DOMAIN rows' : rows'[i].event # "failover"
      BY <1>1, <2>1
    <2>. QED
      BY <2>2, <2>3, <2>4, <2>5 DEF MarkedStop
  <1>8. CASE KillStop
    <2>1. /\ UNCHANGED <<rows, clock, loop, gone>>
          /\ script.pc = "timed" /\ script' = [script EXCEPT !.pc = "stopped"]
      BY <1>8 DEF KillStop
    <2>2. script'.pc = "stopped" /\ script'.time = script.time
      BY <1>2, <2>1
    <2>3. EarlyRows' = EarlyRows /\ Stopped'
      BY <2>1, <2>2 DEF EarlyRows, Stopped
    <2>4. \A i \in DOMAIN rows' : rows'[i].event # "failover"
      BY <1>1, <2>1
    <2>. QED
      BY <1>1, <2>1, <2>2, <2>3, <2>4 DEF MarkedStop
  <1>9. CASE KillRow
    <2>. DEFINE x == Len(rows) + 1
    <2>1. /\ UNCHANGED <<clock, loop, gone>> /\ script.pc = "stopped"
          /\ Adds(Row(<<script.time>>, "failover", <<<<0>>, <<>>, <<>>>>))
          /\ script' = [script EXCEPT !.pc = "done"]
      BY <1>9 DEF KillRow
    <2>2. /\ DOMAIN rows' = DOMAIN rows \cup {x} /\ x \notin DOMAIN rows
          /\ \A i \in DOMAIN rows : rows'[i] = rows[i]
          /\ rows'[x].time = <<script.time>> /\ rows'[x].event = "failover"
      <3>1. <<script.time>> \in Seq(Nat) /\ <<0>> \in Seq(Nat) /\ <<>> \in Seq(Nat)
        BY <1>2
      <3>. QED
        BY <2>1, <3>1, RowAdded
    <2>. HIDE DEF x
    <2>3. script'.pc = "done" /\ script'.time = script.time
      BY <1>2, <2>1
    <2>4. EarlyRows' = EarlyRows /\ Stopped'
      BY <1>2, <2>1, <2>2, <2>3 DEF EarlyRows, Stopped
    <2>5. \A i \in DOMAIN rows' : rows'[i].event = "failover" => rows'[i].time = <<script'.time>>
      BY <1>1, <2>2, <2>3
    <2>. QED
      BY <1>1, <2>1, <2>3, <2>4, <2>5 DEF MarkedStop
  <1>10. \/ UNCHANGED <<rows, shell>>
         \/ SampleTime \/ (\E count \in {0, 1} : SampleAsk(count)) \/ SampleRow
         \/ KillTime \/ KillStop \/ KillRow
    BY DEF ExperimentsNext, expVars, Iterate, Open, Close, Restart, Frame, Round, Request, Recorded
  <1>. QED
    BY <1>3, <1>4, <1>5, <1>6, <1>7, <1>8, <1>9, <1>10

\* Each round has as many rows as gateways answered in it.
LEMMA RoundRowsStep == Typed /\ RoundRows /\ [ExperimentsNext]_expVars => RoundRows'
  <1>. SUFFICES ASSUME Typed, RoundRows, [ExperimentsNext]_expVars PROVE RoundRows'
    OBVIOUS
  <1>1. ASSUME NEW n \in 0 .. Gateways, NEW able \in [1 .. n -> 1 .. Gateways], Round(able)
        PROVE  RoundRows'
    <2>. DEFINE x == Len(answered) + 1
                At(r) == {i \in DOMAIN rows : rows[i].time = <<r>>}
    <2>1. /\ test' = test /\ test = "scaling" /\ rows \in Seq(Rows) /\ n \in Nat
          /\ answered \in Seq(SUBSET (1 .. Gateways))
      BY <1>1, ExperimentsAssumption DEF Round, Typed, FilesOK
    <2>2. PICK q \in Seq(Rows) :
              /\ Len(q) = n /\ rows' = rows \o q
              /\ \A i \in 1 .. n : q[i].time = <<x>> /\ q[i].event = "up" /\ q[i].cells[2][1] = 1
      BY <1>1, RoundIs
    <2>3. /\ Range(able) \in SUBSET (1 .. Gateways) /\ answered' = Append(answered, Range(able))
          /\ \A i, j \in 1 .. n : able[i] = able[j] => i = j
      BY <1>1, RoundIs
    <2>4. /\ DOMAIN answered = 1 .. Len(answered) /\ Len(answered) \in Nat
          /\ DOMAIN answered' = DOMAIN answered \cup {x} /\ x \notin DOMAIN answered
          /\ \A r \in DOMAIN answered : answered'[r] = answered[r]
          /\ answered'[x] = Range(able)
      BY <2>1, <2>3, Added
    <2>5. /\ Len(rows) \in Nat /\ DOMAIN rows = 1 .. Len(rows)
          /\ DOMAIN rows' = 1 .. Len(rows) + n
          /\ \A i \in DOMAIN rows : rows'[i] = rows[i]
          /\ \A j \in 1 .. n : rows'[Len(rows) + j] = q[j]
          /\ \A i \in DOMAIN rows' : i \in DOMAIN rows \/ \E j \in 1 .. n : i = Len(rows) + j
      <3>1. /\ Len(rows) \in Nat /\ DOMAIN rows = 1 .. Len(rows)
            /\ DOMAIN (rows \o q) = 1 .. Len(rows) + Len(q)
            /\ \A i \in 1 .. Len(rows) : (rows \o q)[i] = rows[i]
            /\ \A j \in 1 .. Len(q) : (rows \o q)[Len(rows) + j] = q[j]
            /\ \A i \in DOMAIN (rows \o q) :
                   i \in 1 .. Len(rows) \/ \E j \in 1 .. Len(q) : i = Len(rows) + j
        BY <2>1, Joined
      <3>. QED
        BY <2>2, <3>1
    <2>6. /\ \A i \in DOMAIN rows : /\ \E r \in DOMAIN answered : rows[i].time = <<r>>
                                    /\ rows[i].cells[2][1] = 1
          /\ \A r \in DOMAIN answered : Cardinality(At(r)) = Cardinality(answered[r])
      BY <2>1 DEF RoundRows
    <2>7. \A j \in 1 .. n : rows'[Len(rows) + j].time = <<x>> /\ rows'[Len(rows) + j].cells[2][1] = 1
      BY <2>2, <2>5
    <2>8. ASSUME NEW i \in DOMAIN rows'
          PROVE  (\E r \in DOMAIN answered' : rows'[i].time = <<r>>) /\ rows'[i].cells[2][1] = 1
      <3>1. CASE i \in DOMAIN rows
        BY <2>4, <2>5, <2>6, <3>1
      <3>2. ASSUME NEW j \in 1 .. n, i = Len(rows) + j
            PROVE  (\E r \in DOMAIN answered' : rows'[i].time = <<r>>) /\ rows'[i].cells[2][1] = 1
        BY <2>4, <2>7, <3>2
      <3>. QED
        BY <2>5, <3>1, <3>2
    <2>. DEFINE New(r) == {i \in DOMAIN rows' : rows'[i].time = <<r>>}
    <2>9. ASSUME NEW r \in DOMAIN answered PROVE Cardinality(New(r)) = Cardinality(answered'[r])
      <3>1. r # x /\ <<r>> # <<x>>
        BY <2>4
      <3>2. At(r) \subseteq New(r)
        BY <2>1, <2>5
      <3>3. ASSUME NEW i \in New(r) PROVE i \in At(r)
        <4>1. CASE i \in DOMAIN rows
          BY <2>5, <4>1
        <4>2. ASSUME NEW j \in 1 .. n, i = Len(rows) + j PROVE FALSE
          <5>1. rows'[i].time = <<x>> /\ rows'[i].time = <<r>>
            BY <2>7, <4>2
          <5>. QED
            BY <3>1, <5>1
        <4>. QED
          BY <2>5, <4>1, <4>2
      <3>4. New(r) = At(r)
        BY <3>2, <3>3
      <3>. QED
        BY <2>4, <2>6, <3>4
    <2>10. Cardinality(New(x)) = Cardinality(answered'[x])
      <3>1. New(x) = Len(rows) + 1 .. Len(rows) + n
        <4>1. \A i \in DOMAIN rows : rows[i].time # <<x>>
          BY <2>4, <2>6
        <4>2. ASSUME NEW i \in Len(rows) + 1 .. Len(rows) + n PROVE i \in New(x)
          <5>1. i - Len(rows) \in 1 .. n /\ i = Len(rows) + (i - Len(rows)) /\ i \in DOMAIN rows'
            BY <2>1, <2>5
          <5>. QED
            BY <2>7, <5>1
        <4>3. ASSUME NEW i \in New(x) PROVE i \in Len(rows) + 1 .. Len(rows) + n
          <5>1. i \notin DOMAIN rows
            BY <2>5, <4>1
          <5>. QED
            BY <2>1, <2>5, <5>1
        <4>. QED
          BY <4>2, <4>3
      <3>2. Cardinality(New(x)) = n
        <4>1. Len(rows) + 1 \in Int /\ Len(rows) + n \in Int
          BY <2>1, <2>5
        <4>2. Cardinality(Len(rows) + 1 .. Len(rows) + n)
                  = IF Len(rows) + 1 > Len(rows) + n THEN 0 ELSE (Len(rows) + n) - (Len(rows) + 1) + 1
          BY <4>1, FS_Interval
        <4>3. CASE n = 0
          <5>1. Len(rows) + 1 > Len(rows) + n
            BY <2>5, <4>3
          <5>. QED
            BY <3>1, <4>2, <4>3, <5>1
        <4>4. CASE n # 0
          <5>1. ~ (Len(rows) + 1 > Len(rows) + n) /\ (Len(rows) + n) - (Len(rows) + 1) + 1 = n
            BY <2>1, <2>5, <4>4
          <5>. QED
            BY <3>1, <4>2, <5>1
        <4>. QED
          BY <4>3, <4>4
      <3>3. Cardinality(Range(able)) = n
        <4>1. able \in [1 .. n -> Range(able)] /\ \A y \in Range(able) : \E i \in 1 .. n : able[i] = y
          BY DEF Range
        <4>2. able \in Bijection(1 .. n, Range(able))
          BY <2>3, <4>1 DEF Bijection, Injection, Surjection, IsInjective
        <4>3. IsFiniteSet(1 .. n) /\ Cardinality(1 .. n) = n
          BY <2>1, FS_Interval
        <4>. QED
          BY <4>2, <4>3, FS_Bijection DEF ExistsBijection
      <3>. QED
        BY <2>4, <3>2, <3>3
    <2>. HIDE DEF x
    <2>11. \A r \in DOMAIN answered' : Cardinality(New(r)) = Cardinality(answered'[r])
      BY <2>4, <2>9, <2>10
    <2>. QED
      BY <2>8, <2>11 DEF RoundRows
  <1>2. CASE UNCHANGED <<test, rows, answered>>
    BY <1>2 DEF RoundRows
  <1>3. CASE test # "scaling" /\ test' = test
    BY <1>3 DEF RoundRows
  <1>4. CASE ShellNext
    BY <1>3, <1>4, ShellSteps DEF Clients
  <1>5. \/ UNCHANGED <<test, rows, answered>> \/ ShellNext
        \/ \E n \in 0 .. Gateways : \E able \in [1 .. n -> 1 .. Gateways] : Round(able)
    BY DEF ExperimentsNext, ShellNext, expVars, Iterate, Open, Close, Frame, Request, Recorded
  <1>. QED
    BY <1>1, <1>2, <1>4, <1>5

----------------------------------------------------------------------------
(* The invariant.                                                          *)

\* It holds, whatever happens.
LEMMA Invariant == ExperimentsSpec => []XInv
  <1>1. ExperimentsInit => XInv
    BY XInit
  <1>2. XInv /\ [ExperimentsNext]_expVars => XInv'
    <2>. SUFFICES ASSUME XInv, [ExperimentsNext]_expVars PROVE XInv'
      OBVIOUS
    <2>1. Typed /\ ClientInv /\ MarkedStop /\ RoundRows
      BY DEF XInv, Typed, ClientInv
    <2>2. Typed' /\ ClientInv'
      BY <2>1, TypedStep, ClientStep
    <2>3. MarkedStop' /\ RoundRows'
      BY <2>1, MarkedStopStep, RoundRowsStep
    <2>. QED
      BY <2>2, <2>3 DEF XInv, Typed, ClientInv
  <1>. QED
    BY <1>1, <1>2, PTL DEF ExperimentsSpec
----------------------------------------------------------------------------
(* The clients and their figures.                                          *)

\* The variables keep their types.
THEOREM TypeCorrect == ExperimentsSpec => []ExperimentsTypeOK
  <1>1. XInv => ExperimentsTypeOK
    BY DEF XInv
  <1>. QED
    BY <1>1, Invariant, PTL

\* PASS means what it says: every connection was shown its numbers in order, but for
\* messages that follow the acks of higher numbers (consistency_test.js,
\* plot_consistency.py).
THEOREM VerdictCorrect == ExperimentsSpec => []VerdictExact
  <1>1. XInv => VerdictExact
    BY DEF XInv
  <1>. QED
    BY <1>1, Invariant, PTL

\* The gaps of a figure are none if no point tells of one.
LEMMA NoGaps ==
  FilesOK => (ConsistencyFigure(rows, points).continuity
                  <=> None("pts_gaps_detected") \/ None("pts_gap_size"))
  <1>. SUFFICES ASSUME FilesOK
                PROVE  ConsistencyFigure(rows, points).continuity
                           <=> None("pts_gaps_detected") \/ None("pts_gap_size")
    OBVIOUS
  <1>1. /\ IsFiniteSet(Of(points, "pts_gaps_detected"))
        /\ DOMAIN Values(points, "pts_gap_size") = Of(points, "pts_gap_size")
    BY MetricList DEF FilesOK
  <1>2. Cardinality(Of(points, "pts_gaps_detected")) > 0 <=> ~ None("pts_gaps_detected")
    BY <1>1, FS_EmptySet, FS_CardinalityType DEF None
  <1>3. ConsistencyFigure(rows, points).continuity
            = Continuity(Cardinality(Of(points, "pts_gaps_detected")), Values(points, "pts_gap_size"))
    BY DEF ConsistencyFigure
  <1>. QED
    BY <1>1, <1>2, <1>3 DEF Continuity, None

\* What "perfect continuity" is worth together with PASS: from its first message on,
\* a connection has seen every number up to its highest (consistency_test.js).
THEOREM ContinuityCorrect == ExperimentsSpec => []QuietMeansContiguous
  <1>1. XInv => QuietMeansContiguous
    <2>. SUFFICES ASSUME XInv, test = "consistency",
                         ConsistencyFigure(rows, points).pass, ConsistencyFigure(rows, points).continuity
                  PROVE  \A k \in DOMAIN conns : Gapless(conns[k])
      BY DEF QuietMeansContiguous, Gapless
    <2>1. None("pts_order_violations")
      BY DEF ConsistencyFigure, None
    <2>2. None("pts_gaps_detected")
      BY NoGaps DEF XInv, SizesWithGaps
    <2>. QED
      BY <2>1, <2>2 DEF XInv, Contiguous, Quiet, Passing
  <1>. QED
    BY <1>1, Invariant, PTL

\* The figure tells of gaps only if there are sizes, which one of the clients never
\* writes (consistency_test_simple.js, plot_consistency.py).
THEOREM SizesCorrect == ExperimentsSpec => []ContinuityNeedsSizes
  <1>1. XInv => ContinuityNeedsSizes
    BY NoGaps DEF XInv, SizesWithGaps, ContinuityNeedsSizes, None
  <1>. QED
    BY <1>1, Invariant, PTL

\* The failover test reports no fewer losses than there are numbers jumped over and
\* never seen (failover_test.js).
THEOREM LossCorrect == ExperimentsSpec => []LossCounted
  <1>1. XInv => LossCounted
    BY DEF XInv
  <1>. QED
    BY <1>1, Invariant, PTL

\* The line of the stopped gateway falls at the mark of its stop, or after it, in all
\* samples but one at most (run_failover.sh, plot_failover.py).
THEOREM DropCorrect == ExperimentsSpec => []DropMarked
  <1>1. XInv => DropMarked
    <2>. DEFINE early == {i \in gone : \E mark \in FailoverFigure(rows, points).failover :
                              rows[i].time[1] < mark[1]}
    <2>. SUFFICES ASSUME XInv, test = "failover"
                  PROVE  \A i, j \in early : i = j
      BY DEF DropMarked
    <2>1. /\ \A i, j \in EarlyRows : i = j
          /\ \A i \in DOMAIN rows : rows[i].event = "failover" => rows[i].time = <<script.time>>
      BY DEF XInv, MarkedStop
    <2>2. FailoverFigure(rows, points).failover = EventTime(rows, "failover")
      BY DEF FailoverFigure
    <2>3. ASSUME NEW mark \in EventTime(rows, "failover") PROVE mark[1] = script.time
      <3>1. mark = <<script.time>>
        BY <2>1 DEF EventTime
      <3>. QED
        BY <3>1
    <2>4. early \subseteq EarlyRows
      BY <2>2, <2>3 DEF EarlyRows
    <2>. HIDE DEF early
    <2>. QED
      BY <2>1, <2>4
  <1>. QED
    BY <1>1, Invariant, PTL

----------------------------------------------------------------------------
(* Quantiles and windows.                                                  *)

\* When the requests ended.
Ends == EndTimes(points)

\* They are a list of numbers, and so are how long the requests took.
LEMMA LoadIs ==
  ASSUME FilesOK
  PROVE  /\ IsList(Ends) /\ DOMAIN Ends = Requests(points) /\ IsFiniteSet(Requests(points))
         /\ Requests(points) \subseteq DOMAIN points
         /\ \A i \in Requests(points) : points[i].value \in Nat
  <1>1. IsFiniteSet(Of(points, "http_req_duration"))
    BY MetricList DEF FilesOK
  <1>2. \A i \in DOMAIN points : points[i].value \in Nat /\ points[i].time \in Seq(Nat)
    BY FilesType DEF FileTypes
  <1>3. /\ Requests(points) \subseteq Of(points, "http_req_duration")
        /\ Requests(points) \subseteq DOMAIN points
        /\ \A i \in Requests(points) : points[i].time # <<>>
    BY DEF Requests, Of
  <1>4. IsFiniteSet(Requests(points))
    BY <1>1, <1>3, Fewer
  <1>5. \A i \in Requests(points) : points[i].time[1] \in Nat
    BY <1>2, <1>3
  <1>. QED
    BY <1>2, <1>3, <1>4, <1>5 DEF IsList, Ends, EndTimes

\* What the figure is drawn from.
LEMMA CurvesAre ==
  LET elapsed == Elapsed(Ends)
      shown == {w \in IF Requests(points) = {} THEN {} ELSE Windows(elapsed) :
                    DOMAIN InBin(points, elapsed, w) # {}}
  IN /\ LatencyFigure(points).drawn <=> shown # {}
     /\ LatencyFigure(points).curves = [w \in shown |->
            [p \in {50, 95, 99} |-> Percentile(InBin(points, elapsed, w), p)]]
  <1>. DEFINE elapsed == Elapsed(Ends)
              shown == {w \in IF Requests(points) = {} THEN {} ELSE Windows(elapsed) :
                            DOMAIN InBin(points, elapsed, w) # {}}
              curves == [w \in shown |->
                            [p \in {50, 95, 99} |-> Percentile(InBin(points, elapsed, w), p)]]
              bars == <<152, 2166, 5730, 23611, 143990>>
              drawn == shown # {}
  <1>1. LatencyFigure(points) = [drawn |-> drawn, curves |-> curves, bars |-> bars]
    BY DEF LatencyFigure, Ends
  <1>. HIDE DEF shown, curves, bars, drawn
  <1>2. LatencyFigure(points).drawn = drawn
    BY <1>1
  <1>3. LatencyFigure(points).curves = curves
    BY <1>1
  <1>. QED
    BY <1>2, <1>3 DEF shown, curves, drawn

\* The requests of a window are a list of numbers, if there are any.
LEMMA BinIs ==
  ASSUME FilesOK, NEW w
  PROVE  LET s == InBin(points, Elapsed(Ends), w)
             inside == {i \in Requests(points) : InWindow(w, Elapsed(Ends)[i])}
         IN IsList(s) /\ DOMAIN s = inside /\ s = [i \in inside |-> points[i].value]
  <1>1. DOMAIN Elapsed(Ends) = Requests(points)
    BY LoadIs DEF Elapsed
  <1>2. IsFiniteSet(Requests(points)) /\ \A i \in Requests(points) : points[i].value \in Nat
    BY LoadIs
  <1>. DEFINE inside == {i \in Requests(points) : InWindow(w, Elapsed(Ends)[i])}
  <1>3. InBin(points, Elapsed(Ends), w) = [i \in inside |-> points[i].value]
    BY <1>1 DEF InBin
  <1>4. IsFiniteSet(inside) /\ inside \subseteq Requests(points)
    BY <1>2, Fewer
  <1>. QED
    BY <1>2, <1>3, <1>4 DEF IsList

\* The lines and curves that are drawn divide the values as they say
\* (plot_failover.py, plot_timeseries.py).
THEOREM QuantilesCorrect == ExperimentsSpec => []QuantileTrue
  <1>1. XInv => QuantileTrue
    <2>. SUFFICES ASSUME XInv PROVE QuantileTrue
      OBVIOUS
    <2>1. FilesOK /\ points \in Seq(Points)
      BY DEF XInv, FilesOK
    <2>2. ASSUME test = "recorded"
          PROVE  LET figure == FailoverFigure(rows, points)
                     times == figure.histogram
                 IN \A p \in DOMAIN figure.markers :
                     /\ 100 * UpTo(times, 100 * figure.markers[p]) >= p * Count(times)
                     /\ 100 * Below(times, 100 * figure.markers[p]) <= p * Count(times)
      <3>. DEFINE times == Values(points, "reconnect_time_ms")
      <3>1. IsList(times)
        BY <2>1, MetricList
      <3>2. /\ FailoverFigure(rows, points).histogram = times
            /\ FailoverFigure(rows, points).markers =
                   [p \in IF DOMAIN times = {} THEN {} ELSE {50, 95, 99} |-> Marker(times, p)]
        BY DEF FailoverFigure
      <3>. HIDE DEF times
      <3>3. ASSUME NEW p \in {50, 95, 99}, DOMAIN times # {}
            PROVE  /\ 100 * UpTo(times, 100 * Marker(times, p)) >= p * Count(times)
                   /\ 100 * Below(times, 100 * Marker(times, p)) <= p * Count(times)
        <4>1. /\ Marker(times, p) \in Nat
              /\ 100 * Cardinality(AtMost(times, Marker(times, p))) >= p * Count(times)
              /\ 100 * Cardinality(Less(times, Marker(times, p))) <= p * Count(times)
          BY <3>1, <3>3, MarkerIs
        <4>2. \A i \in DOMAIN times : times[i] \in Nat
          BY <3>1 DEF IsList
        <4>3. /\ {i \in DOMAIN times : 100 * times[i] <= 100 * Marker(times, p)}
                     = AtMost(times, Marker(times, p))
              /\ {i \in DOMAIN times : 100 * times[i] < 100 * Marker(times, p)}
                     = Less(times, Marker(times, p))
          BY <4>1, <4>2 DEF AtMost, Less
        <4>. QED
          BY <4>1, <4>3 DEF UpTo, Below
      <3>4. ASSUME NEW p \in DOMAIN FailoverFigure(rows, points).markers
            PROVE  p \in {50, 95, 99} /\ DOMAIN times # {}
                   /\ FailoverFigure(rows, points).markers[p] = Marker(times, p)
        <4>. DEFINE drawn == IF DOMAIN times = {} THEN {} ELSE {50, 95, 99}
        <4>1. p \in drawn /\ FailoverFigure(rows, points).markers[p] = Marker(times, p)
          <5>1. FailoverFigure(rows, points).markers = [r \in drawn |-> Marker(times, r)]
            BY <3>2
          <5>. HIDE DEF drawn
          <5>. QED
            BY <3>4, <5>1
        <4>. QED
          BY <4>1
      <3>5. ASSUME NEW p \in DOMAIN FailoverFigure(rows, points).markers
            PROVE  /\ 100 * UpTo(times, 100 * FailoverFigure(rows, points).markers[p])
                          >= p * Count(times)
                   /\ 100 * Below(times, 100 * FailoverFigure(rows, points).markers[p])
                          <= p * Count(times)
        <4>1. /\ p \in {50, 95, 99} /\ DOMAIN times # {}
              /\ FailoverFigure(rows, points).markers[p] = Marker(times, p)
          BY <3>4
        <4>2. /\ 100 * UpTo(times, 100 * Marker(times, p)) >= p * Count(times)
              /\ 100 * Below(times, 100 * Marker(times, p)) <= p * Count(times)
          BY <3>3, <4>1
        <4>. QED
          BY <4>1, <4>2, Zenon
      <3>6. times = FailoverFigure(rows, points).histogram
        BY <3>2
      <3>. QED
        BY <3>5, <3>6, Zenon
    <2>3. ASSUME test = "load"
          PROVE  LET curves == LatencyFigure(points).curves
                     elapsed == Elapsed(EndTimes(points))
                 IN \A w \in DOMAIN curves : \A p \in DOMAIN curves[w] :
                     LET inside == {i \in Requests(points) : InWindow(w, elapsed[i])}
                         values == [i \in inside |-> points[i].value]
                         share == p * (Cardinality(inside) - 1)
                     IN /\ 100 * UpTo(values, curves[w][p]) > share
                        /\ 100 * Below(values, curves[w][p]) <= share + 100
      <3>. DEFINE elapsed == Elapsed(Ends)
                  shown == {w \in IF Requests(points) = {} THEN {} ELSE Windows(elapsed) :
                                DOMAIN InBin(points, elapsed, w) # {}}
                  curves == LatencyFigure(points).curves
      <3>1. curves = [w \in shown |->
                         [p \in {50, 95, 99} |-> Percentile(InBin(points, elapsed, w), p)]]
        BY CurvesAre
      <3>2. ASSUME NEW w \in DOMAIN curves, NEW p \in DOMAIN curves[w]
            PROVE  LET inside == {i \in Requests(points) : InWindow(w, elapsed[i])}
                       values == [i \in inside |-> points[i].value]
                       share == p * (Cardinality(inside) - 1)
                   IN /\ 100 * UpTo(values, curves[w][p]) > share
                      /\ 100 * Below(values, curves[w][p]) <= share + 100
        <4>. DEFINE inside == {i \in Requests(points) : InWindow(w, elapsed[i])}
                    values == [i \in inside |-> points[i].value]
        <4>1. w \in shown /\ p \in {50, 95, 99} /\ p \in 0 .. 100
          BY <3>1, <3>2
        <4>2. InBin(points, elapsed, w) = values /\ IsList(values) /\ DOMAIN values = inside
          BY <2>1, BinIs
        <4>3. DOMAIN values # {}
          BY <4>1, <4>2
        <4>4. curves[w][p] = Percentile(values, p)
          BY <3>1, <4>1, <4>2
        <4>5. Count(values) = Cardinality(inside)
          BY <4>2 DEF Count
        <4>0. p \in 0 .. 100
          BY <4>1
        <4>. HIDE DEF values, inside, curves, elapsed, shown
        <4>6. /\ 100 * UpTo(values, Percentile(values, p)) > p * (Count(values) - 1)
              /\ 100 * Below(values, Percentile(values, p)) <= p * (Count(values) - 1) + 100
          <5>1. /\ 100 * Cardinality({i \in DOMAIN values : 100 * values[i] <= Percentile(values, p)})
                        > p * (Count(values) - 1)
                /\ 100 * Cardinality({i \in DOMAIN values : 100 * values[i] < Percentile(values, p)})
                        <= p * (Count(values) - 1) + 100
            BY <4>0, <4>2, <4>3, PercentileBounds
          <5>. QED
            BY <5>1 DEF UpTo, Below
        <4>. QED
          BY <4>4, <4>5, <4>6 DEF values, inside
      <3>. QED
        BY <3>2 DEF Ends
    <2>. QED
      BY <2>2, <2>3 DEF QuantileTrue
  <1>. QED
    BY <1>1, Invariant, PTL

\* Every request that could be read is in one window, but for the last when a window ends
\* with them; nothing is drawn if they all end at once (plot_timeseries.py).
THEOREM WindowsCorrect == ExperimentsSpec => []WindowsPartition
  <1>1. XInv => WindowsPartition
    <2>. SUFFICES ASSUME XInv, test = "load", Requests(points) # {}
                  PROVE  LET times == EndTimes(points)
                             elapsed == Elapsed(times)
                         IN /\ \A i \in Requests(points) :
                                 Cardinality({w \in Windows(elapsed) : InWindow(w, elapsed[i])})
                                     = IF elapsed[i] % Window = 0
                                          /\ \A j \in Requests(points) : times[j] <= times[i]
                                       THEN 0 ELSE 1
                            /\ LatencyFigure(points).drawn <=> \E i \in Requests(points) : elapsed[i] > 0
      BY DEF WindowsPartition
    <2>. DEFINE elapsed == Elapsed(Ends)
    <2>1. FilesOK
      BY DEF XInv
    <2>2. Requests(points) # {}
      OBVIOUS
    <2>3. IsList(Ends) /\ DOMAIN Ends = Requests(points)
      BY <2>1, LoadIs
    <2>4. /\ IsList(elapsed) /\ DOMAIN elapsed = Requests(points)
          /\ Ranked(Ends, 0) \in Nat
          /\ \A i \in Requests(points) : /\ Ends[i] \in Nat /\ elapsed[i] \in Nat
                                      /\ Ends[i] = elapsed[i] + Ranked(Ends, 0)
          /\ \E i \in Requests(points) : elapsed[i] = 0
      BY <2>2, <2>3, ElapsedIs
    <2>. HIDE DEF elapsed
    <2>5. \A i, j \in Requests(points) : elapsed[j] <= elapsed[i] <=> Ends[j] <= Ends[i]
      BY <2>4
    <2>6. ASSUME NEW i \in Requests(points)
          PROVE  {w \in Windows(elapsed) : InWindow(w, elapsed[i])} =
                     IF elapsed[i] % Window = 0 /\ \A j \in Requests(points) : Ends[j] <= Ends[i]
                     THEN {} ELSE {elapsed[i] \div Window + 1}
      <3>1. {w \in Windows(elapsed) : InWindow(w, elapsed[i])} =
                IF elapsed[i] % Window = 0 /\ \A j \in DOMAIN elapsed : elapsed[j] <= elapsed[i]
                THEN {} ELSE {elapsed[i] \div Window + 1}
        BY <2>4, WindowOf
      <3>. QED
        BY <2>4, <2>5, <3>1
    <2>7. ASSUME NEW i \in Requests(points)
          PROVE  Cardinality({w \in Windows(elapsed) : InWindow(w, elapsed[i])})
                     = IF elapsed[i] % Window = 0 /\ \A j \in Requests(points) : Ends[j] <= Ends[i]
                       THEN 0 ELSE 1
      <3>1. Cardinality({}) = 0 /\ Cardinality({elapsed[i] \div Window + 1}) = 1
        BY FS_EmptySet, FS_Singleton
      <3>. QED
        BY <2>6, <3>1
    <2>8. LatencyFigure(points).drawn
              <=> \E w \in Windows(elapsed) : \E i \in Requests(points) : InWindow(w, elapsed[i])
      <3>1. LatencyFigure(points).drawn
                <=> {w \in Windows(elapsed) : DOMAIN InBin(points, elapsed, w) # {}} # {}
        BY <2>2, CurvesAre DEF elapsed
      <3>2. \A w : DOMAIN InBin(points, elapsed, w) = {i \in Requests(points) : InWindow(w, elapsed[i])}
        BY <2>1, BinIs DEF elapsed
      <3>. QED
        BY <3>1, <3>2
    <2>9. (\E w \in Windows(elapsed) : \E i \in Requests(points) : InWindow(w, elapsed[i]))
              <=> \E i \in Requests(points) : elapsed[i] > 0
      <3>1. ASSUME NEW j \in Requests(points), elapsed[j] > 0
            PROVE  \E w \in Windows(elapsed) : \E i \in Requests(points) : InWindow(w, elapsed[i])
        <4>1. PICK i \in Requests(points) : elapsed[i] = 0
          BY <2>4
        <4>2. ~ (Ends[j] <= Ends[i])
          BY <2>4, <2>5, <3>1, <4>1
        <4>3. {w \in Windows(elapsed) : InWindow(w, elapsed[i])} = {elapsed[i] \div Window + 1}
          BY <2>6, <4>2
        <4>. QED
          BY <4>3
      <3>2. ASSUME \A j \in Requests(points) : ~ (elapsed[j] > 0), NEW i \in Requests(points)
            PROVE  {w \in Windows(elapsed) : InWindow(w, elapsed[i])} = {}
        <4>1. \A j \in Requests(points) : elapsed[j] = 0
          BY <2>4, <3>2
        <4>2. elapsed[i] % Window = 0
          BY <4>1 DEF Window
        <4>3. \A j \in Requests(points) : Ends[j] <= Ends[i]
          BY <2>4, <2>5, <4>1
        <4>. QED
          BY <2>6, <4>2, <4>3
      <3>. QED
        BY <3>1, <3>2
    <2>. QED
      BY <2>7, <2>8, <2>9 DEF elapsed, Ends
  <1>. QED
    BY <1>1, Invariant, PTL
----------------------------------------------------------------------------
(* Sums.                                                                   *)

\* The total drawn for a round is that of the gateways that answered in it
\* (collect_metrics.sh, plot_results.py).
THEOREM TotalsCorrect == ExperimentsSpec => []TotalsTrue
  <1>1. XInv => TotalsTrue
    <2>. DEFINE s == [i \in DOMAIN rows |-> rows[i].time[1]]
                elapsed == Elapsed(s)
                rounds == {r \in DOMAIN answered : answered[r] # {}}
                first == CHOOSE r \in rounds : \A t \in rounds : r <= t
                m == Ranked(s, 0)
                At(r) == {i \in DOMAIN rows : s[i] = r}
                In(e) == {j \in DOMAIN rows : elapsed[j] = e}
    <2>. SUFFICES ASSUME XInv, test = "scaling", rows # <<>>
                  PROVE  /\ DOMAIN ScalingFigure(rows) = {r - first : r \in rounds}
                         /\ \A r \in rounds : ScalingFigure(rows)[r - first] = Cardinality(answered[r])
      BY DEF TotalsTrue
    <2>1. /\ rows \in Seq(Rows) /\ answered \in Seq(SUBSET (1 .. Gateways))
          /\ DOMAIN answered = 1 .. Len(answered) /\ Len(answered) \in Nat
          /\ \A i \in DOMAIN rows : /\ \E r \in DOMAIN answered : rows[i].time = <<r>>
                                    /\ rows[i].cells[2][1] = 1
          /\ \A r \in DOMAIN answered :
                 Cardinality({i \in DOMAIN rows : rows[i].time = <<r>>}) = Cardinality(answered[r])
      <3>1. rows \in Seq(Rows) /\ answered \in Seq(SUBSET (1 .. Gateways))
        BY DEF XInv, FilesOK
      <3>2. /\ \A i \in DOMAIN rows : /\ \E r \in DOMAIN answered : rows[i].time = <<r>>
                                       /\ rows[i].cells[2][1] = 1
            /\ \A r \in DOMAIN answered :
                   Cardinality({i \in DOMAIN rows : rows[i].time = <<r>>}) = Cardinality(answered[r])
        BY DEF XInv, RoundRows
      <3>. QED
        BY <3>1, <3>2
    <2>2. IsFiniteSet(DOMAIN rows) /\ DOMAIN rows # {}
      <3>1. DOMAIN rows = 1 .. Len(rows) /\ Len(rows) \in Nat
        BY <2>1
      <3>2. DOMAIN rows # {}
        BY <2>1
      <3>. QED
        BY <3>1, <3>2, FS_Interval
    <2>3. ASSUME NEW i \in DOMAIN rows
          PROVE  s[i] \in DOMAIN answered /\ rows[i].time = <<s[i]>>
      <3>1. PICK r \in DOMAIN answered : rows[i].time = <<r>>
        BY <2>1
      <3>. QED
        BY <3>1
    <2>4. IsList(s) /\ DOMAIN s = DOMAIN rows
      BY <2>1, <2>2, <2>3 DEF IsList
    <2>. HIDE DEF s
    <2>5. ASSUME NEW r \in DOMAIN answered PROVE Cardinality(At(r)) = Cardinality(answered[r])
      <3>1. \A i \in DOMAIN rows : rows[i].time = <<r>> <=> s[i] = r
        <4>. SUFFICES ASSUME NEW i \in DOMAIN rows PROVE rows[i].time = <<r>> <=> s[i] = r
          OBVIOUS
        <4>1. <<s[i]>> = <<r>> <=> s[i] = r
          OBVIOUS
        <4>. QED
          BY <2>3, <4>1
      <3>2. At(r) = {i \in DOMAIN rows : rows[i].time = <<r>>}
        BY <3>1
      <3>. QED
        BY <2>1, <3>2
    <2>6. \A r : r \in rounds <=> \E i \in DOMAIN rows : s[i] = r
      <3>1. ASSUME NEW r \in DOMAIN answered PROVE answered[r] # {} <=> At(r) # {}
        <4>1. IsFiniteSet(answered[r]) /\ IsFiniteSet(At(r))
          <5>1. answered[r] \subseteq 1 .. Gateways
            BY <2>1
          <5>3. IsFiniteSet(1 .. Gateways)
            BY FS_Interval, ExperimentsAssumption
          <5>2. At(r) \subseteq DOMAIN rows
            OBVIOUS
          <5>. QED
            BY <2>2, <5>1, <5>2, <5>3, Fewer
        <4>. QED
          BY <2>5, <4>1, FS_EmptySet
      <3>. QED
        BY <2>3, <3>1
    <2>7. /\ DOMAIN elapsed = DOMAIN rows
          /\ m \in Nat
          /\ \A i \in DOMAIN rows : s[i] \in Nat /\ elapsed[i] \in Nat /\ s[i] = elapsed[i] + m
      BY <2>2, <2>4, ElapsedIs
    <2>8. /\ \E i \in DOMAIN rows : s[i] = m
          /\ \A i \in DOMAIN rows : m <= s[i]
      BY <2>2, <2>4, RankedFirst
    <2>9. first = m
      <3>1. m \in rounds /\ \A t \in rounds : m <= t
        BY <2>6, <2>8
      <3>2. first \in rounds /\ \A t \in rounds : first <= t
        BY <3>1
      <3>3. first \in Nat
        BY <2>1, <3>2
      <3>. QED
        BY <2>7, <3>1, <3>2, <3>3
    <2>. HIDE DEF m, first, elapsed, rounds
    <2>10. ScalingFigure(rows) =
               [e \in Range(elapsed) |-> Total([i \in In(e) |-> rows[i].cells[2][1]])]
      BY DEF ScalingFigure, elapsed, s
    <2>11. Range(elapsed) = {r - m : r \in rounds}
      <3>1. \A i \in DOMAIN rows : elapsed[i] = s[i] - m
        BY <2>7
      <3>2. ASSUME NEW e \in Range(elapsed) PROVE e \in {r - m : r \in rounds}
        BY <2>6, <2>7, <3>1, <3>2 DEF Range
      <3>3. ASSUME NEW r \in rounds PROVE r - m \in Range(elapsed)
        BY <2>6, <2>7, <3>1, <3>3 DEF Range
      <3>. QED
        BY <3>2, <3>3
    <2>12. ASSUME NEW r \in rounds
           PROVE  ScalingFigure(rows)[r - m] = Cardinality(answered[r])
      <3>1. r \in DOMAIN answered /\ r \in Nat
        BY <2>1 DEF rounds
      <3>2. In(r - m) = At(r)
        BY <2>7, <3>1
      <3>3. r - m \in Range(elapsed)
        BY <2>11
      <3>4. ScalingFigure(rows)[r - m] = Total([i \in At(r) |-> rows[i].cells[2][1]])
        BY <2>10, <3>2, <3>3
      <3>5. IsFiniteSet(At(r)) /\ At(r) \subseteq DOMAIN rows
        BY <2>2, Fewer
      <3>6. Total([i \in At(r) |-> rows[i].cells[2][1]]) = Cardinality(At(r))
        BY <2>1, <3>5, TotalOnes
      <3>. QED
        BY <2>5, <3>1, <3>4, <3>6
    <2>. QED
      BY <2>9, <2>10, <2>11, <2>12 DEF rounds, first
  <1>. QED
    BY <1>1, Invariant, PTL
=============================================================================

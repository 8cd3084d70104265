---------------------------- MODULE Experiments ----------------------------
(***************************************************************************)
(* The experiments in scripts/: what the k6 tests make of the numbers a    *)
(* user is shown, what the shell scripts record beside them, and, with     *)
(* Plots, whether the figures say what happened.                           *)
(*                                                                         *)
(* A behaviour is one experiment (test), seen from one virtual user, who   *)
(* connects again and again: "consistency" and "simple" are the two        *)
(* clients of experiment 4, "failover" that of experiment 3, "scaling" is  *)
(* experiment 1, "load" experiment 2.  "recorded" is a file of reconnect    *)
(* times, wherever it comes from.                                          *)
(***************************************************************************)
EXTENDS Plots

CONSTANTS
    MaxPts,         \* the numbers of the user are 1 .. MaxPts
    MaxConns,       \* bound: connections of the user
    MaxRows,        \* bound: rows of the CSV file
    MaxPoints,      \* bound: points of a latency file
    Times,          \* when requests end, in microseconds
    Durations,      \* what is measured of them
    Gateways        \* the number of gateways of experiment 1

ASSUME ExperimentsAssumption ==
    /\ MaxPts \in Nat /\ MaxConns \in Nat /\ MaxRows \in Nat /\ MaxPoints \in Nat
    /\ Times \subseteq Nat /\ Durations \subseteq Nat /\ Gateways \in Nat

VARIABLES
    test,           \* which experiment
    points,         \* the k6 JSON file
    rows,           \* the CSV file
    vu,             \* the variables of the test's function
    conns,          \* history: the frames of each connection
    clock,          \* the time, as far as a shell script has asked for it
    loop,           \* the background loop of experiment 3 or 4
    script,         \* run_failover.sh beside its loop
    gone,           \* history: the rows whose sample was taken of a stopped gateway
    answered        \* history of experiment 1: the gateways that answered at a time

client == <<vu, conns>>
shell == <<clock, loop, script, gone>>
expVars == <<test, points, rows, client, shell, answered>>

Clients == {"consistency", "simple", "failover"}
Tests == Clients \cup {"load", "recorded", "scaling"}
Kinds == {"ack", "message"}

ExperimentsTypeOK ==
    /\ test \in Tests
    /\ \A i \in DOMAIN points : points[i].value \in Nat /\ points[i].time \in Seq(Nat)
    /\ \A i \in DOMAIN rows : rows[i].time \in Seq(Nat)
    /\ vu \in [open : BOOLEAN, established : BOOLEAN, dropped : Nat,
               localPts : 0 .. MaxPts, last : 0 .. MaxPts]
    /\ conns \in Seq(Seq(Kinds \X (1 .. MaxPts))) /\ Len(conns) <= MaxConns
    /\ clock \in Nat
    /\ loop \in [pc : {"asleep", "timed", "asked"}, time : Nat, count : {0, 1}, gone : BOOLEAN]
    /\ script \in [pc : {"baseline", "timed", "stopped", "done"}, time : Nat]
    /\ gone \subseteq DOMAIN rows

\* The variables at the start of an iteration.  localPts is lastPts in
\* failover_test.js, last is lastReceivedPts, established is
\* connectionEstablished, dropped is reconnectStartTime.
Fresh == [open |-> FALSE, established |-> FALSE, dropped |-> 0, localPts |-> 0, last |-> 0]

ExperimentsInit ==
    /\ test \in Tests
    /\ points = <<>> /\ rows = <<>> /\ conns = <<>> /\ answered = <<>>
    /\ vu = Fresh
    /\ clock = 0 /\ gone = {}
    /\ loop = [pc |-> "asleep", time |-> 0, count |-> 0, gone |-> FALSE]
    /\ script = [pc |-> "baseline", time |-> 0]

----------------------------------------------------------------------------
(* The clients.                                                            *)

Metric(metric, value) == <<[metric |-> metric, value |-> value, time |-> <<>>]>>
Unless(condition, emitted) == IF condition THEN <<>> ELSE emitted
Higher(a, b) == IF a > b THEN a ELSE b

\* The frames of this user: failover_test.js takes a new user id for every
\* iteration.
Frames ==
    IF test = "failover" THEN Range(conns[Len(conns)])
    ELSE UNION {Range(conns[i]) : i \in DOMAIN conns}

\* The next iteration begins, with variables of its own, and connects.
Iterate ==
    /\ test \in Clients /\ ~ vu.open /\ Len(conns) < MaxConns
    /\ vu' = Fresh
    /\ conns' = Append(conns, <<>>)
    /\ UNCHANGED <<test, points, rows, shell, answered>>

\* The connection is there, if it ever is: failover_test.js times it if one was
\* dropped before.
Open ==
    /\ conns # <<>> /\ ~ vu.established
    /\ vu' = [vu EXCEPT !.open = TRUE, !.established = TRUE]
    /\ points' = points \o Unless(test # "failover" \/ vu.dropped = 0,
                                  Metric("reconnect_time_ms", 1))
    /\ UNCHANGED <<test, rows, conns, shell, answered>>

\* The connection ends: failover_test.js notes the time.
Close ==
    /\ vu.open
    /\ vu' = [vu EXCEPT !.open = FALSE, !.dropped = 1]
    /\ UNCHANGED <<test, points, rows, conns, shell, answered>>

\* Mutant: every number but the next one is a gap.
GapUnlessNext(a, b) ==
    Unless(b = a + 1, Metric("pts_gaps_detected", 1)
                      \o Unless(test = "simple", Metric("pts_gap_size", b - a - 1)))

\* Mutant: a gap of one number is let pass.
GapFromTwo(a, b) ==
    Unless(b <= a + 2, Metric("pts_gaps_detected", 1)
                       \o Unless(test = "simple", Metric("pts_gap_size", b - a - 1)))

\* What a jump from a to b is reported as.
GapPoints(a, b) ==
    Unless(b <= a + 1, Metric("pts_gaps_detected", 1)
                       \o Unless(test = "simple", Metric("pts_gap_size", b - a - 1)))

LossPoints(a, b) ==
    Unless(a = 0 \/ b <= a + 1, Metric("messages_lost_during_failover", b - a - 1))

\* Mutant: two neighbours that change places are let pass.
ViolationIfLower(a, b) == Unless(b >= a - 1, Metric("pts_order_violations", 1))

Violation(a, b) == Unless(b > a, Metric("pts_order_violations", 1))

\* consistency_test.js takes acks against localPts ...
ConsistencyAck(n) ==
    /\ points' = points \o Violation(vu.localPts, n) \o GapPoints(vu.localPts, n)
    /\ vu' = [vu EXCEPT !.localPts = n]

\* ... and messages against the last message, whatever acks came between.
ConsistencyMessage(n) ==
    /\ points' = points \o Violation(vu.last, n)
                        \o Unless(vu.last = 0, GapPoints(vu.last, n))
    /\ vu' = [vu EXCEPT !.last = n, !.localPts = Higher(@, n)]

\* consistency_test_simple.js: messages are counted only.
SimpleAck(n) ==
    /\ points' = points \o GapPoints(vu.localPts, n)
    /\ vu' = [vu EXCEPT !.localPts = n]

FailoverAck(n) ==
    /\ points' = points \o LossPoints(vu.localPts, n)
    /\ vu' = [vu EXCEPT !.localPts = n]

\* Mutant: only acks are compared with what came before.
FailoverMessageUncompared(n) ==
    /\ points' = points
    /\ vu' = [vu EXCEPT !.localPts = Higher(@, n)]

FailoverMessage(n) ==
    /\ points' = points \o LossPoints(vu.localPts, n)
    /\ vu' = [vu EXCEPT !.localPts = Higher(@, n)]

\* A frame about number n comes, or never does.  Numbers are the user's own, acks
\* come in the order of theirs; nothing keeps messages in order.  The messages of
\* failover_test.js are all for user ids of first iterations.
Frame(kind, n) ==
    /\ vu.open
    /\ \A f \in Frames : f[2] # n /\ (f[1] = "ack" /\ kind = "ack" => f[2] < n)
    /\ test = "failover" /\ kind = "message" => Len(conns) = 1
    /\ conns' = [conns EXCEPT ![Len(conns)] = Append(@, <<kind, n>>)]
    /\ CASE test = "consistency" /\ kind = "ack" -> ConsistencyAck(n)
         [] test = "consistency" /\ kind = "message" -> ConsistencyMessage(n)
         [] test = "simple" /\ kind = "ack" -> SimpleAck(n)
         [] test = "simple" /\ kind = "message" -> UNCHANGED <<points, vu>>
         [] test = "failover" /\ kind = "ack" -> FailoverAck(n)
         [] test = "failover" /\ kind = "message" -> FailoverMessage(n)
    /\ UNCHANGED <<test, rows, shell, answered>>

----------------------------------------------------------------------------
(* The shell scripts.                                                      *)

Row(time, event, cells) == [time |-> time, event |-> event, cells |-> cells]
Adds(row) == rows' = Append(rows, row)
Happened(event) == \E i \in DOMAIN rows : rows[i].event = event

\* date +%s: whole seconds, so that two readings may give the same.
Date == {clock, clock + 1}

\* The background loop of run_consistency.sh and run_failover.sh reads the time, ...
SampleTime ==
    /\ test \in Clients /\ Len(rows) < MaxRows
    /\ loop.pc = "asleep"
    /\ clock' \in Date
    /\ loop' = [loop EXCEPT !.pc = "timed", !.time = clock']
    /\ UNCHANGED <<test, points, rows, client, script, gone, answered>>

Stopped == script.pc \in {"stopped", "done"}

\* ... asks gateway1, which may have no connections or not answer (both are 0) and
\* does not when it is stopped, and the others, ...
SampleAsk(count) ==
    /\ loop.pc = "timed"
    /\ Stopped => count = 0
    /\ loop' = [loop EXCEPT !.pc = "asked", !.count = count, !.gone = Stopped]
    /\ UNCHANGED <<test, points, rows, client, clock, script, gone, answered>>

\* ... and writes a row, with the time it read first.
SampleRow ==
    /\ loop.pc = "asked" /\ Len(rows) < MaxRows
    /\ Adds(Row(<<loop.time>>, "running", <<<<loop.count>>, <<1>>, <<1>>>>))
    /\ loop' = [loop EXCEPT !.pc = "asleep"]
    /\ gone' = gone \cup {i \in {Len(rows) + 1} : loop.gone}
    /\ UNCHANGED <<test, points, client, clock, script, answered>>

\* run_consistency.sh restarts the message-service and writes
\* "timestamp,crash,?,?,?": the word, not the time.
Restart ==
    /\ test \in {"consistency", "simple"} /\ Len(rows) < MaxRows
    /\ ~ Happened("crash")
    /\ Adds(Row(<<>>, "crash", <<<<>>, <<>>, <<>>>>))
    /\ UNCHANGED <<test, points, client, shell, answered>>

\* run_failover.sh reads the time, ...
KillTime ==
    /\ test = "failover" /\ script.pc = "baseline"
    /\ clock' \in Date
    /\ script' = [pc |-> "timed", time |-> clock']
    /\ UNCHANGED <<test, points, rows, client, loop, gone, answered>>

\* ... stops gateway1, which takes its time, ...
KillStop ==
    /\ script.pc = "timed"
    /\ script' = [script EXCEPT !.pc = "stopped"]
    /\ UNCHANGED <<test, points, rows, client, clock, loop, gone, answered>>

\* Mutant: the time is read when the gateway has stopped.
KillRowTimed ==
    /\ script.pc = "stopped" /\ Len(rows) < MaxRows
    /\ clock' \in Date
    /\ Adds(Row(<<clock'>>, "failover", <<<<0>>, <<>>, <<>>>>))
    /\ script' = [script EXCEPT !.pc = "done"]
    /\ UNCHANGED <<test, points, client, loop, gone, answered>>

\* ... and writes "<time>,failover,0,?,?".
KillRow ==
    /\ script.pc = "stopped" /\ Len(rows) < MaxRows
    /\ Adds(Row(<<script.time>>, "failover", <<<<0>>, <<>>, <<>>>>))
    /\ script' = [script EXCEPT !.pc = "done"]
    /\ UNCHANGED <<test, points, client, clock, loop, gone, answered>>

\* Mutant: the time is read for every gateway.
RoundTimedEach(able) ==
    /\ test = "scaling" /\ Len(answered) < MaxRows
    /\ \A i, j \in DOMAIN able : i < j => able[i] < able[j]
    /\ rows' = rows \o [i \in DOMAIN able |->
                            Row(<<Len(answered) + i>>, "up", <<<<able[i]>>, <<1>>>>)]
    /\ answered' = Append(answered, Range(able))
    /\ UNCHANGED <<test, points, client, shell>>

\* collect_metrics.sh asks the gateways in turn: a row for each that answers, all
\* with the time of the round.  Every gateway has one connection here.
Round(able) ==
    /\ test = "scaling" /\ Len(answered) < MaxRows
    /\ \A i, j \in DOMAIN able : i < j => able[i] < able[j]
    /\ LET time == <<Len(answered) + 1>>
       IN rows' = rows \o [i \in DOMAIN able |-> Row(time, "up", <<<<able[i]>>, <<1>>>>)]
    /\ answered' = Append(answered, Range(able))
    /\ UNCHANGED <<test, points, client, shell>>

\* load_test.js: a request ends, and k6 writes when, in a form that
\* datetime.fromisoformat can read or not.
Request(time, duration) ==
    /\ test = "load" /\ Len(points) < MaxPoints
    /\ points' = Append(points, [metric |-> "http_req_duration",
                                 value |-> duration, time |-> time])
    /\ UNCHANGED <<test, rows, client, shell, answered>>

Recorded(duration) ==
    /\ test = "recorded" /\ Len(points) < MaxPoints
    /\ points' = points \o Metric("reconnect_time_ms", duration)
    /\ UNCHANGED <<test, rows, client, shell, answered>>

ExperimentsNext ==
    \/ Iterate \/ Open \/ Close
    \/ SampleTime \/ (\E count \in {0, 1} : SampleAsk(count)) \/ SampleRow
    \/ Restart \/ KillTime \/ KillStop \/ KillRow
    \/ \E kind \in Kinds, n \in 1 .. MaxPts : Frame(kind, n)
    \/ \E n \in 0 .. Gateways : \E able \in [1 .. n -> 1 .. Gateways] : Round(able)
    \/ \E time \in {<<>>} \cup {<<t>> : t \in Times}, d \in Durations : Request(time, d)
    \/ \E d \in Durations : Recorded(d)

ExperimentsSpec == ExperimentsInit /\ [][ExperimentsNext]_expVars

----------------------------------------------------------------------------
(* Properties.                                                             *)

\* Frame j of a connection came after frame i, with a lower number.
Inverted(c, i, j) == i < j /\ c[j][2] < c[i][2]

\* PASS means that a connection was shown its numbers in order, except that a
\* message may follow the ack of a higher number: the client compares messages
\* with messages only, and an ack with everything.  The order across connections
\* is not looked at (consistency_test.js, plot_consistency.py's verdict).
VerdictExact ==
    test = "consistency" =>
        (ConsistencyFigure(rows, points).pass <=>
            \A k \in DOMAIN conns : \A i, j \in DOMAIN conns[k] :
                Inverted(conns[k], i, j) =>
                    conns[k][i][1] = "ack" /\ conns[k][j][1] = "message")

\* What "perfect continuity" is worth when the verdict is PASS, too: from the
\* first message on, a connection has seen every number up to its highest.  What
\* it missed before its first message goes unnoticed, as the first has nothing to
\* be compared with (consistency_test.js).
QuietMeansContiguous ==
    LET figure == ConsistencyFigure(rows, points)
    IN test = "consistency" /\ figure.pass /\ figure.continuity =>
        \A k \in DOMAIN conns : \A i, j \in DOMAIN conns[k] :
            conns[k][i][1] = "message" /\ conns[k][i][2] < conns[k][j][2] =>
                \A n \in conns[k][i][2] .. conns[k][j][2] :
                    \E h \in DOMAIN conns[k] : conns[k][h][2] = n

\* The figure takes the number of gaps from one metric and their sizes from
\* another, and needs both: the client the recorded run used emits no sizes, so
\* its figure says "No gaps" whatever it met (consistency_test_simple.js,
\* plot_consistency.py).
ContinuityNeedsSizes ==
    test \in {"consistency", "simple"} =>
        (ConsistencyFigure(rows, points).continuity <=>
            test = "simple" \/ Of(points, "pts_gaps_detected") = {})

\* The loss the failover test reports is no less than the numbers a connection
\* has jumped over and never seen.  It may be more: a number that comes late was
\* counted as lost (failover_test.js).
NeverSeen(c) ==
    {n \in 1 .. MaxPts : /\ c # <<>> /\ c[1][2] < n
                         /\ \E i \in DOMAIN c : n < c[i][2]
                         /\ \A i \in DOMAIN c : c[i][2] # n}
LossCounted ==
    test = "failover" =>
        Total(Values(points, "messages_lost_during_failover"))
            >= Total([k \in DOMAIN conns |-> Cardinality(NeverSeen(conns[k]))])

\* The line of the stopped gateway falls where the stop is marked.  The samples that
\* found it stopped are drawn at the mark or after it, all but one at most: the time
\* of the mark is read before the stop, and only a sample under way then can have an
\* earlier one.  Their rows may come before the row of the mark (run_failover.sh,
\* plot_failover.py).
DropMarked ==
    test = "failover" =>
        LET figure == FailoverFigure(rows, points)
            early == {i \in gone : \E mark \in figure.failover : rows[i].time[1] < mark[1]}
        IN \A i, j \in early : i = j

\* The drawn quantiles are some.  At least p percent of the reconnect times are no
\* longer than the marker of p, at most p percent are shorter (plot_failover.py); of
\* the n requests in a window, more than p percent of n - 1 are no longer than the
\* curve of p, and no more than that and one are shorter (plot_timeseries.py).
UpTo(s, hundredths) == Cardinality({i \in DOMAIN s : 100 * s[i] <= hundredths})
Below(s, hundredths) == Cardinality({i \in DOMAIN s : 100 * s[i] < hundredths})
QuantileTrue ==
    /\ test = "recorded" =>
        LET figure == FailoverFigure(rows, points)
            times == figure.histogram
        IN \A p \in DOMAIN figure.markers :
            /\ 100 * UpTo(times, 100 * figure.markers[p]) >= p * Count(times)
            /\ 100 * Below(times, 100 * figure.markers[p]) <= p * Count(times)
    /\ test = "load" =>
        LET curves == LatencyFigure(points).curves
            elapsed == Elapsed(EndTimes(points))
        IN \A w \in DOMAIN curves : \A p \in DOMAIN curves[w] :
            LET inside == {i \in Requests(points) : InWindow(w, elapsed[i])}
                values == [i \in inside |-> points[i].value]
                share == p * (Cardinality(inside) - 1)
            IN /\ 100 * UpTo(values, curves[w][p]) > share
               /\ 100 * Below(values, curves[w][p]) <= share + 100

\* Every request that could be read is in one window, but for those that end last when
\* a window ends with them: they are in none (plot_timeseries.py, whose last bin is
\* open).  So nothing is drawn of requests that all end at the same microsecond, of
\* one request say, and something of any others.
WindowsPartition ==
    test = "load" /\ Requests(points) # {} =>
        LET times == EndTimes(points)
            elapsed == Elapsed(times)
        IN /\ \A i \in Requests(points) :
                Cardinality({w \in Windows(elapsed) : InWindow(w, elapsed[i])})
                    = IF elapsed[i] % Window = 0 /\ \A j \in Requests(points) : times[j] <= times[i]
                      THEN 0 ELSE 1
           /\ LatencyFigure(points).drawn <=> \E i \in Requests(points) : elapsed[i] > 0

\* The total drawn for a round is that of the gateways that answered in it, and
\* there is one for each round with an answer (collect_metrics.sh,
\* plot_results.py).  A gateway that is slow to answer looks like one that is down.
TotalsTrue ==
    test = "scaling" /\ rows # <<>> =>
        LET figure == ScalingFigure(rows)
            rounds == {r \in DOMAIN answered : answered[r] # {}}
            first == CHOOSE r \in rounds : \A s \in rounds : r <= s
        IN /\ DOMAIN figure = {r - first : r \in rounds}
           /\ \A r \in rounds : figure[r - first] = Cardinality(answered[r])
=============================================================================

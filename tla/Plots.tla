------------------------------- MODULE Plots -------------------------------
(***************************************************************************)
(* What the Python scripts of the experiments draw, as functions of the    *)
(* files they read: rows of a CSV file and points of a k6 JSON file.       *)
(* Colours, labels and layout are left out.                                *)
(*                                                                         *)
(* A cell of a CSV file, or a time of a k6 file, is <<n>> for the number n *)
(* and <<>> for text that is none.  A list that a script picks out of a    *)
(* file is a function on the numbers of the lines it picks.  The scripts   *)
(* look at its values only, or sort it: the k-th value is described by the *)
(* number of smaller ones.                                                 *)
(***************************************************************************)
EXTENDS Integers, Sequences, FiniteSets, Functions

\* The sum of the values of s: the number of pairs of an element and a number up to
\* its value.
Total(s) == Cardinality(UNION {{i} \X (1 .. s[i]) : i \in DOMAIN s})

\* len(s)
Count(s) == Cardinality(DOMAIN s)

\* The points of a metric.
Of(points, metric) == {i \in DOMAIN points : points[i].metric = metric}

\* entry['data']['value'] of these.
Values(points, metric) == [i \in Of(points, metric) |-> points[i].value]

\* sorted(s)[k], k counted from 0.
Ranked(s, k) ==
    CHOOSE v \in Range(s) :
        /\ Cardinality({i \in DOMAIN s : s[i] < v}) <= k
        /\ Cardinality({i \in DOMAIN s : s[i] <= v}) > k

\* Where a vertical line is drawn: at the time of the first row of this event, if
\* there is one.
EventTime(rows, event) ==
    {rows[i].time : i \in {j \in DOMAIN rows :
        rows[j].event = event /\ \A k \in 1 .. j - 1 : rows[k].event # event}}

----------------------------------------------------------------------------
(* experiment4/plot_consistency.py                                         *)

\* Mutant: any detected gap ends the continuity, with a known size or not.
ContinuityByCount(gaps, sizes) == gaps = 0

\* The tick of the gap lines: unless there are both gaps and sizes.
Continuity(gaps, sizes) == ~ (gaps > 0 /\ DOMAIN sizes # {})

\* pd.to_datetime raises on a time that is no number: nothing is drawn.
ConsistencyFigure(rows, points) ==
    LET sizes == Values(points, "pts_gap_size")
        gaps == Cardinality(Of(points, "pts_gaps_detected"))
    IN [drawn |-> \A i \in DOMAIN rows : rows[i].time # <<>>,
        restart |-> EventTime(rows, "crash"),
        histogram |-> sizes,
        continuity |-> Continuity(gaps, sizes),
        pass |-> Of(points, "pts_order_violations") = {},
        duplicates |-> Cardinality(Of(points, "duplicate_messages"))]

----------------------------------------------------------------------------
(* experiment3/plot_failover.py                                            *)

\* pd.to_numeric(errors='coerce').fillna(0)
Coerced(cell) == IF cell = <<>> THEN 0 ELSE cell[1]

\* Mutant: the marker is one place too far to the left.
MarkerBefore(s, percent) == Ranked(s, (percent * (Count(s) - 1)) \div 100)

\* sorted_times[int(len(sorted_times) * percent / 100)]
Marker(s, percent) == Ranked(s, (percent * Count(s)) \div 100)

\* The lower panels stay empty without reconnect times.
FailoverFigure(rows, points) ==
    LET times == Values(points, "reconnect_time_ms")
    IN [drawn |-> \A i \in DOMAIN rows : rows[i].time # <<>>,
        total |-> [i \in DOMAIN rows |->
                      Total([g \in DOMAIN rows[i].cells |-> Coerced(rows[i].cells[g])])],
        failover |-> EventTime(rows, "failover"),
        histogram |-> times,
        markers |-> [p \in IF DOMAIN times = {} THEN {} ELSE {50, 95, 99} |-> Marker(times, p)]]

----------------------------------------------------------------------------
(* experiment2/plot_timeseries.py                                          *)

\* np.percentile, in hundredths: between the two nearest values.
Percentile(s, percent) ==
    LET place == percent * (Count(s) - 1)
        low == Ranked(s, place \div 100)
    IN IF place % 100 = 0 THEN 100 * low
       ELSE 100 * low + (place % 100) * (Ranked(s, place \div 100 + 1) - low)

\* A window of five seconds, in microseconds: a datetime has no finer times.
Window == 5000000

\* Mutant: both ends belong to a window.
InWindowClosed(i, t) == Window * (i - 1) <= t /\ t <= Window * i

\* bins[i] <= t < bins[i+1]
InWindow(i, t) == Window * (i - 1) <= t /\ t < Window * i

Elapsed(times) == [i \in DOMAIN times |-> times[i] - Ranked(times, 0)]

\* np.arange(0, max_t + 5, 5) has one element more.
Windows(elapsed) ==
    1 .. ((Ranked(elapsed, Count(elapsed) - 1) + Window - 1) \div Window)

\* The lines the script reads: on any other it goes on with the next.
Requests(points) == {i \in Of(points, "http_req_duration") : points[i].time # <<>>}
EndTimes(points) == [i \in Requests(points) |-> points[i].time[1]]

\* The durations of the requests in window w.
InBin(points, elapsed, w) ==
    [i \in {j \in DOMAIN elapsed : InWindow(w, elapsed[j])} |-> points[i].value]

\* The curves by window; a window without a request is left out.  Without a
\* window max() raises, so that nothing is drawn.  The bars are written into the
\* script, in hundredths of a millisecond, whatever was measured.
LatencyFigure(points) ==
    LET elapsed == Elapsed(EndTimes(points))
        windows == IF Requests(points) = {} THEN {} ELSE Windows(elapsed)
        shown == {w \in windows : DOMAIN InBin(points, elapsed, w) # {}}
    IN [drawn |-> shown # {},
        curves |-> [w \in shown |->
            [p \in {50, 95, 99} |-> Percentile(InBin(points, elapsed, w), p)]],
        bars |-> <<152, 2166, 5730, 23611, 143990>>]

----------------------------------------------------------------------------
(* experiment1/plot_results.py                                             *)

\* Rows of one time are summed, and drawn at the time since the first.
ScalingFigure(rows) ==
    LET elapsed == Elapsed([i \in DOMAIN rows |-> rows[i].time[1]])
    IN [e \in Range(elapsed) |->
           Total([i \in {j \in DOMAIN rows : elapsed[j] = e} |-> rows[i].cells[2][1]])]
=============================================================================

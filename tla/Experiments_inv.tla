--------------------------- MODULE Experiments_inv ---------------------------
(***************************************************************************)
(* The inductive invariant of Experiments: what the variables of a client  *)
(* know of its connection, and what the files of an experiment hold.       *)
(***************************************************************************)
EXTENDS Experiments

MetricNames ==
    {"pts_order_violations", "pts_gaps_detected", "pts_gap_size", "messages_lost_during_failover",
     "reconnect_time_ms", "http_req_duration"}
Points == [metric : MetricNames, value : Nat, time : Seq(Nat)]

Rows == [time : Seq(Nat),
         event : {"running", "crash", "failover", "up"},
         cells : Seq(Seq(Nat))]

\* What the files are made of, and how long they are.
FilesOK ==
    /\ points \in Seq(Points) /\ rows \in Seq(Rows)
    /\ answered \in Seq(SUBSET (1 .. Gateways)) /\ Len(answered) <= MaxRows
    /\ test # "scaling" => Len(rows) <= MaxRows

\* The connection a client has, or had last.
Last == conns[Len(conns)]
OpenClient ==
    /\ conns # <<>> => test \in Clients
    /\ vu.open => conns # <<>>

----------------------------------------------------------------------------
(* Experiment 4.                                                           *)

None(metric) == Of(points, metric) = {}
Passing == test = "consistency" /\ None("pts_order_violations")
Quiet == Passing /\ None("pts_gaps_detected")

\* consistency_test.js writes a size with every gap, the simple client none.
SizesWithGaps ==
    /\ test = "consistency" => (None("pts_gap_size") <=> None("pts_gaps_detected"))
    /\ test = "simple" => None("pts_gap_size")

\* As long as it sees no violation, the client holds the highest number it was shown,
\* and the highest of a message.
HighWater ==
    Passing /\ conns # <<>> =>
        /\ \A i \in DOMAIN Last : /\ Last[i][2] <= vu.localPts
                                  /\ Last[i][1] = "message" => Last[i][2] <= vu.last
        /\ vu.localPts > 0 => \E i \in DOMAIN Last : Last[i][2] = vu.localPts
        /\ vu.last > 0 => \E i \in DOMAIN Last : Last[i] = <<"message", vu.last>>

\* From its first message on, c has every number up to its highest.
Gapless(c) ==
    \A i, j \in DOMAIN c :
        c[i][1] = "message" /\ c[i][2] < c[j][2] =>
            \A n \in c[i][2] .. c[j][2] : \E h \in DOMAIN c : c[h][2] = n

\* As long as it sees no gap either, a connection is gapless, and has every number
\* from 1 on before its first message.
Contiguous ==
    Quiet =>
        /\ \A k \in DOMAIN conns : Gapless(conns[k])
        /\ conns # <<>> /\ vu.last = 0 =>
              \A n \in 1 .. vu.localPts : \E h \in DOMAIN Last : Last[h][2] = n

----------------------------------------------------------------------------
(* Experiment 3.                                                           *)

\* What the client compares with is a number of this connection, once it has one.
LossAnchor ==
    test = "failover" /\ conns # <<>> =>
        /\ vu.localPts = 0 <=> Last = <<>>
        /\ vu.localPts > 0 => \E i \in DOMAIN Last : Last[i][2] = vu.localPts

----------------------------------------------------------------------------
(* The shell scripts and their files.                                      *)

\* The rows of a sample that found the gateway stopped, and is timed before the mark.
EarlyRows == {i \in gone : rows[i].time[1] < script.time}

\* Nothing is found stopped before the stop; the mark is no later than what the clock
\* has shown; and of the samples that find the gateway stopped the one under way when
\* the time of the mark was read is alone in having an earlier time.
MarkedStop ==
    test = "failover" =>
        /\ ~ Stopped => gone = {} /\ (loop.pc = "asked" => ~ loop.gone)
        /\ script.pc # "baseline" => script.time <= clock
        /\ \A i, j \in EarlyRows : i = j
        /\ loop.pc # "asleep" /\ loop.time < script.time => EarlyRows = {}
        /\ \A i \in DOMAIN rows : rows[i].event = "failover" =>
               script.pc = "done" /\ rows[i].time = <<script.time>>

\* Which experiment a shell script belongs to.
ShellRuns ==
    /\ loop.pc # "asleep" => test \in Clients
    /\ script.pc # "baseline" => test = "failover"

\* A round has a row for each gateway that answered, with its time.
RoundRows ==
    test = "scaling" =>
        /\ \A i \in DOMAIN rows :
              /\ \E r \in DOMAIN answered : rows[i].time = <<r>>
              /\ rows[i].cells[2][1] = 1
        /\ \A r \in DOMAIN answered :
              Cardinality({i \in DOMAIN rows : rows[i].time = <<r>>}) = Cardinality(answered[r])

----------------------------------------------------------------------------
\* The inductive invariant.
XInv ==
    /\ ExperimentsTypeOK /\ FilesOK /\ OpenClient
    /\ VerdictExact /\ SizesWithGaps /\ HighWater /\ Contiguous
    /\ LossAnchor /\ LossCounted
    /\ ShellRuns /\ MarkedStop /\ RoundRows
=============================================================================

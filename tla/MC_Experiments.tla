--------------------------- MODULE MC_Experiments ---------------------------
(* A small instance of the experiments. *)
EXTENDS Experiments

\* Half a second apart, a window apart, two windows apart.
MCTimes == {3000000, 3500000, 8000000, 13000000}
MCDurations == {1, 2, 5}

\* Bound: the client runs or the shell script does.  Neither reads what the other
\* writes.
OneSide == conns = <<>> \/ (rows = <<>> /\ loop.pc = "asleep" /\ script.pc = "baseline")
=============================================================================

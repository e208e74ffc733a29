------------------------- MODULE MCSimulationWorker -------------------------
(* The workers by themselves: two of them, two jobs of one priority, leases *)
(* of one or two ticks, and a stall of at most one tick.                    *)
EXTENDS SimulationWorker

CONSTANTS j1, j2, w1, w2

MCJob == {j1, j2}
MCWorkerId == {w1, w2}
MCKey == {}
OnePriority == {0}
MCOutcome == 1..AttemptCap
ShortLeases == {1, 2}
LongLease == {2}
=============================================================================

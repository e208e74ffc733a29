-------------------------------- MODULE MCJobs --------------------------------
(***************************************************************************)
(* The job table and the processes that work on it, with two jobs and two  *)
(* workers, lease lengths of one and two ticks and a stall of one tick, so *)
(* that a lease may be granted or renewed already dead.                    *)
(*                                                                         *)
(* A behaviour is one of two kinds, chosen at the start.  Under "calls"    *)
(* anybody calls any method of the store, in any order and with any        *)
(* arguments.  Under "workers" only the processes of SimulationWorker      *)
(* lease, complete and fail; priorities and keys, which they never look    *)
(* at, are left to the other kind.                                         *)
(***************************************************************************)
EXTENDS SimulationWorker, TLC

CONSTANTS j1, j2, w1, w2, k1

MCJob == {j1, j2}
MCWorkerId == {w1, w2}
MCKey == {k1}
MCPriority == {0, 1}
MCOutcome == 1..AttemptCap
MCLeaseTicks == {1, 2}

VARIABLE driver     \* who calls the store

JobsInit == SystemInit /\ driver \in {"calls", "workers"}

\* The store looks at no outcome: a call brings that of the row's attempt.
StepOfCalls ==
    /\ driver = "calls" /\ Next
    /\ \A j \in Job : {jobs'[j].result, jobs'[j].failure} \subseteq {Null, jobs'[j].attempts}
    /\ UNCHANGED <<proc, crashes, driver>>

StepOfWorkers ==
    /\ driver = "workers" /\ SystemNext
    /\ \A j \in Job : jobs'[j].key = Null /\ jobs'[j].priority = 0
    /\ UNCHANGED driver

JobsNext == StepOfCalls \/ StepOfWorkers

JobsSpec == JobsInit /\ [][JobsNext]_<<vars, driver>>

\* No definition tells two jobs, or two workers, apart.
Symmetry == Permutations(MCJob) \cup Permutations(MCWorkerId)
=============================================================================

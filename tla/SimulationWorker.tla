--------------------------- MODULE SimulationWorker ---------------------------
(***************************************************************************)
(* Worker processes (rigby_v2.worker) over the job table.  A process loops *)
(* in run_once: recover expired leases, lease a job, execute it.  execute  *)
(* talks to the table in several short transactions, and between any two   *)
(* of them the API, other workers, the clock or a crash may intervene.     *)
(*                                                                         *)
(* One process per worker id: the operator runbook forbids sharing one.    *)
(* An outcome is identified by the attempt that produced it.               *)
(***************************************************************************)
EXTENDS JobStore

CONSTANT MaxCrashes    \* bound: how often a process may be killed

ASSUME OutcomeAssumption == Outcome = 1..AttemptCap
ASSUME CrashAssumption == MaxCrashes \in Nat

VARIABLES
    proc,       \* each worker process: where it is, the JobRecord it executes
    crashes     \* processes killed so far

vars == <<jobs, proc, crashes>>

\* Where a process is.  "down": killed; "raised": ended by an exception
\* that run_forever does not catch.
Working == {"leased", "preparing", "beating", "polling", "stepping",
            "completing", "reporting", "failing", "lost"}
Place == {"starting", "recovering", "leasing", "down", "raised"} \cup Working

Process == [pc : Place, job : Job \cup {Null}, attempt : 0..AttemptCap]

At(place) == [pc |-> place, job |-> Null, attempt |-> 0]

SystemTypeOK ==
    /\ TypeOK
    /\ proc \in [WorkerId -> Process]
    /\ crashes \in 0..MaxCrashes

SystemInit ==
    /\ Init
    /\ proc = [w \in WorkerId |-> At("starting")]
    /\ crashes = 0

Goto(w, place) == proc' = [proc EXCEPT ![w].pc = place]
\* execute returned; run_forever starts its next round.
Return(w) == proc' = [proc EXCEPT ![w] = At("recovering")]

-----------------------------------------------------------------------------
\* (mutant) a round leases without recovering first
RecoverNothing(w) ==
    /\ proc[w].pc \in {"starting", "recovering"}
    /\ Goto(w, IF proc[w].pc = "starting" THEN "recovering" ELSE "leasing")
    /\ UNCHANGED jobs

(* run: recover once, then run_once: recover, lease.                       *)
Recover(w) ==
    /\ proc[w].pc \in {"starting", "recovering"}
    /\ \E lag \in Lag : RequeueExpired(lag)
    /\ Goto(w, IF proc[w].pc = "starting" THEN "recovering" ELSE "leasing")

TakeJob(w) ==
    /\ proc[w].pc = "leasing"
    /\ \E j \in Job, ticks \in LeaseTicks, lag \in Lag, locked \in Lockable :
          /\ Lease(j, w, ticks, lag, locked)
          /\ proc' = [proc EXCEPT ![w] =
                        [pc |-> "leased", job |-> j, attempt |-> jobs[j].attempts + 1]]

FindNoJob(w) ==
    /\ proc[w].pc = "leasing"
    /\ \E lag \in Lag, locked \in Lockable : Ready(lag) \subseteq locked
    /\ Goto(w, "recovering")
    /\ UNCHANGED jobs

(* execute: a job cancelled by now is not started.                         *)
Start(w) ==
    /\ proc[w].pc = "leased"
    /\ IF jobs[proc[w].job].cancel THEN Return(w) ELSE Goto(w, "preparing")
    /\ UNCHANGED jobs

(* Load and verify the inputs and compile the model: every way this fails  *)
(* that execute has a handler for ends in one that stores a failure.  What *)
(* no handler names (an OSError, a psycopg.Error, a KeyError, a failing    *)
(* assert), here as in every later step, ends the process with the job     *)
(* leased: to the table that is a crash.                                   *)
Prepare(w) ==
    /\ proc[w].pc = "preparing"
    /\ \E next \in {"beating", "failing"} : Goto(w, next)
    /\ UNCHANGED jobs

\* (mutant) InvalidJobTransitionError has no handler
HandlerOfLeaseError(check) == IF check = "lease_error" THEN "lost" ELSE check

\* Where execute goes when a call of the table inside its try raises:
\* JobLeaseError has a branch of its own, InvalidJobTransitionError is
\* handled as any other RuntimeError, by storing a failure.
Handler(check) == IF check = "lease_error" THEN "lost" ELSE "failing"

Beat(w) ==
    /\ proc[w].pc = "beating"
    /\ \E lag \in Lag :
          \/ /\ \E ticks \in LeaseTicks : Heartbeat(proc[w].job, w, ticks, lag)
             /\ Goto(w, "polling")
          \/ LET check == HeartbeatCheck(proc[w].job, w, lag) IN
             /\ check # "ok"
             /\ Goto(w, Handler(check))
             /\ UNCHANGED jobs

(* cancel_check: polled before the first step, then every 24th.            *)
Poll(w) ==
    /\ proc[w].pc \in {"polling", "stepping"}
    /\ IF jobs[proc[w].job].cancel
       THEN Return(w)
       ELSE proc[w].pc = "polling" /\ Goto(w, "stepping")
    /\ UNCHANGED jobs

(* The simulation ran to its end and its artifacts are stored, or it       *)
(* failed, or something raised.                                            *)
Finish(w) ==
    /\ proc[w].pc = "stepping"
    /\ \E next \in {"completing", "reporting", "failing"} : Goto(w, next)
    /\ UNCHANGED jobs

CompleteJob(w) ==
    /\ proc[w].pc = "completing"
    /\ \E lag \in Lag :
          \/ Complete(proc[w].job, w, proc[w].attempt, lag) /\ Return(w)
          \/ LET check == LeaseCheck(proc[w].job, w, lag) IN
             /\ check # "ok"
             /\ Goto(w, Handler(check))
             /\ UNCHANGED jobs

(* _failure called inside the try, for a simulation that failed.           *)
ReportFailure(w) ==
    /\ proc[w].pc = "reporting"
    /\ \E lag \in Lag :
          \/ Fail(proc[w].job, w, proc[w].attempt, lag) /\ Return(w)
          \/ LET check == LeaseCheck(proc[w].job, w, lag) IN
             /\ check # "ok"
             /\ Goto(w, Handler(check))
             /\ UNCHANGED jobs

(* _failure called from a handler: nothing catches what it raises.         *)
StoreFailure(w) ==
    /\ proc[w].pc = "failing"
    /\ \E lag \in Lag :
          \/ Fail(proc[w].job, w, proc[w].attempt, lag) /\ Return(w)
          \/ /\ LeaseCheck(proc[w].job, w, lag) # "ok"
             /\ Goto(w, "raised")
             /\ UNCHANGED jobs

(* except JobLeaseError: fine if the job was cancelled, raised otherwise.  *)
LoseLease(w) ==
    /\ proc[w].pc = "lost"
    /\ IF jobs[proc[w].job].state = "cancelled" THEN Return(w) ELSE Goto(w, "raised")
    /\ UNCHANGED jobs

Work(w) ==
    \/ Recover(w) \/ TakeJob(w) \/ FindNoJob(w) \/ Start(w) \/ Prepare(w)
    \/ Beat(w) \/ Poll(w) \/ Finish(w)
    \/ CompleteJob(w) \/ ReportFailure(w) \/ StoreFailure(w) \/ LoseLease(w)

-----------------------------------------------------------------------------
(* The process is killed, or an operator starts it again.                  *)
Crash(w) ==
    /\ proc[w].pc \notin {"down", "raised"}
    /\ crashes < MaxCrashes
    /\ crashes' = crashes + 1
    /\ proc' = [proc EXCEPT ![w] = At("down")]
    /\ UNCHANGED jobs

Restart(w) ==
    /\ proc[w].pc \in {"down", "raised"}
    /\ proc' = [proc EXCEPT ![w] = At("starting")]
    /\ UNCHANGED <<jobs, crashes>>

Api == \E j \in Job, lag \in Lag : ApiCall(j, lag) /\ UNCHANGED <<proc, crashes>>

Time == Tick /\ UNCHANGED <<proc, crashes>>

SystemNext ==
    \/ \E w \in WorkerId : Work(w) /\ UNCHANGED crashes
    \/ \E w \in WorkerId : Crash(w) \/ Restart(w)
    \/ Api
    \/ Time

SystemSpec == SystemInit /\ [][SystemNext]_vars

-----------------------------------------------------------------------------
(* Work that meets its lease: the budget the heartbeat asks for, ten times *)
(* the duration of the motion and thirty seconds, is enough, so no lease   *)
(* runs out under a live process that works on it.                         *)
HoldsLease(w) ==
    /\ proc[w].pc \in Working
    /\ jobs[proc[w].job].owner = w
    /\ jobs[proc[w].job].attempts = proc[w].attempt

TimelyNext ==
    /\ SystemNext
    /\ Time => \A w \in WorkerId : HoldsLease(w) => jobs[proc[w].job].left > 1

(* Processes run on, operators restart what ended, time passes, and rows   *)
(* are locked by other transactions only for a while.                      *)
Fairness ==
    /\ \A w \in WorkerId :
          /\ WF_vars(Work(w) /\ UNCHANGED crashes)
          /\ SF_vars(TakeJob(w) /\ UNCHANGED crashes)
          /\ WF_vars(Restart(w))
    /\ WF_vars(Time /\ TimelyNext)

FairSpec == SystemInit /\ [][TimelyNext]_vars /\ Fairness

-----------------------------------------------------------------------------
(* Properties                                                              *)

(* Fencing.  The outcome a row ends with comes from the last attempt that  *)
(* leased it: a worker whose lease ran out while it simulated cannot       *)
(* overwrite what the worker after it did, although the table compares     *)
(* only the owner's name and never the attempt.                            *)
Fenced ==
    \A j \in Job :
        /\ jobs[j].result \in {Null, jobs[j].attempts}
        /\ jobs[j].failure \in {Null, jobs[j].attempts}

(* While work meets its lease no two live processes work on one job, which *)
(* is what PostgresJobStore promises ("never ... lets two workers own the  *)
(* same simulation"); a job a user cancelled is not handed out again.      *)
OneWorkerPerJob ==
    \A v, w \in WorkerId :
        proc[v].pc \in Working /\ proc[w].pc \in Working /\ proc[v].job = proc[w].job
            => v = w

(* Every submitted job ends, whatever crashes (finitely often) and is      *)
(* cancelled: crashed workers' leases expire and are recovered, and no job *)
(* starves behind the ones served first.                                   *)
EveryJobEnds ==
    \A j \in Job : jobs[j].state = "queued" ~> jobs[j].state \in Terminal

(* Executing a job that a user cancelled returns: a cancellation never     *)
(* ends the worker process, at whatever point of execute it lands.         *)
CancelledExecutionReturns ==
    [][\A w \in WorkerId :
          proc'[w].pc = "raised" /\ proc[w].pc # "raised" =>
             jobs[proc[w].job].state # "cancelled"]_vars
=============================================================================

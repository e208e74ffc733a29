------------------------------ MODULE PipelineRuns ------------------------------
(***************************************************************************)
(* One motion run of the demo API: PipelineRunStore of pipeline.py.  A     *)
(* daemon thread of the process that started the run executes it and       *)
(* records its events; get, called by clients that poll, records a run     *)
(* whose thread is gone as failed by a server restart.                     *)
(*                                                                         *)
(* Every update reads run.json and replaces it, under a lock of its        *)
(* process: "home" is the process of the thread, which may crash and start *)
(* afresh; "other" is a second server over the same directory, there only  *)
(* when "shared".  A client knows the run once start has returned.  Left   *)
(* out: what the run computes, its trace and its summary.                  *)
(***************************************************************************)
EXTENDS Integers, FiniteSets

CONSTANTS
    HomePoller,    \* clients polling the process of the run's thread
    OtherPoller,   \* clients polling another process
    MaxEvents,     \* the number of progress events in an exploration
    MaxCrashes,    \* how often the home process crashes in an exploration
    Sharing        \* which deployments are explored: a subset of BOOLEAN

ASSUME PipelineAssumption ==
    /\ HomePoller \cap OtherPoller = {} /\ "worker" \notin HomePoller \cup OtherPoller
    /\ MaxEvents \in Nat /\ MaxCrashes \in Nat /\ Sharing \subseteq BOOLEAN

VARIABLES
    run,      \* run.json
    thread,   \* whether the home process lists the run's thread
    at,       \* where the thread and each poller are
    copy,     \* what an actor has read and not yet written back
    outcome,  \* (history) what the thread's run came to
    progress, \* the events of the run so far
    crashes,  \* crashes of the home process so far
    twoServers \* whether a second server process runs

pipelineVars == <<run, thread, at, copy, outcome, progress, crashes, twoServers>>

Poller == HomePoller \cup OtherPoller
Actor == {"worker"} \cup Poller
Settled == {"completed", "failed"}  \* completed: also unsupported, no_acceptable_candidate

PipelineRecord ==
    [status : {"absent", "queued", "running"} \cup Settled,
     error  : {"none", "own", "ServerRestarted"}]
NoRun == [status |-> "absent", error |-> "none"]
NoCopy == [status |-> "none", error |-> "none"]

PipelineTypeOK ==
    /\ run \in PipelineRecord
    /\ thread \in BOOLEAN /\ twoServers \in Sharing
    /\ at["worker"] \in {"absent", "register", "launch", "begin", "work", "event",
                         "settle", "raise", "fail", "leave", "gone"}
    /\ \A p \in Poller : at[p] \in {"idle", "mark", "fail"}
    /\ DOMAIN at = Actor
    /\ copy \in [Actor -> PipelineRecord \cup {NoCopy}]
    /\ outcome \in {"none"} \cup Settled
    /\ progress \in 0..MaxEvents /\ crashes \in 0..MaxCrashes

PipelineInit ==
    /\ run = NoRun /\ thread = FALSE
    /\ at = [a \in Actor |-> IF a = "worker" THEN "absent" ELSE "idle"]
    /\ copy = [a \in Actor |-> NoCopy]
    /\ outcome = "none" /\ progress = 0 /\ crashes = 0
    /\ twoServers \in Sharing

-----------------------------------------------------------------------------
(* _update and _event: read, then write, under the lock of the process.    *)

SameProcess(a, b) == (a \in OtherPoller) <=> (b \in OtherPoller)
LockFree(a) == \A b \in Actor : SameProcess(a, b) => copy[b] = NoCopy

Goes(a, next) == at' = [at EXCEPT ![a] = next]
Read(a) ==
    /\ LockFree(a) /\ copy' = [copy EXCEPT ![a] = run]
    /\ UNCHANGED <<run, thread, at, outcome, progress, crashes, twoServers>>
Write(a, record) ==
    /\ copy[a] # NoCopy
    /\ run' = record /\ copy' = [copy EXCEPT ![a] = NoCopy]
    /\ UNCHANGED <<thread, crashes, twoServers>>

Update(record, status, error) == [record EXCEPT !.status = status, !.error = error]
\* An event other than a failure takes back the verdict of a restart.
Event(record) ==
    IF record.error = "ServerRestarted"
    THEN [record EXCEPT !.status = "running", !.error = "none"] ELSE record

-----------------------------------------------------------------------------
(* start and _execute.                                                     *)

Start ==
    /\ at["worker"] = "absent" /\ Goes("worker", "register")
    /\ run' = [status |-> "queued", error |-> "none"]
    /\ UNCHANGED <<thread, copy, outcome, progress, crashes, twoServers>>

Register ==
    /\ at["worker"] = "register" /\ LockFree("worker") /\ Goes("worker", "launch")
    /\ thread' = TRUE
    /\ UNCHANGED <<run, copy, outcome, progress, crashes, twoServers>>

Launch ==
    /\ at["worker"] = "launch" /\ Goes("worker", "begin")
    /\ UNCHANGED <<run, thread, copy, outcome, progress, crashes, twoServers>>

ThreadReads ==
    /\ at["worker"] \in {"begin", "event", "settle", "raise", "fail"}
    /\ Read("worker")

Begin ==
    /\ at["worker"] = "begin" /\ Goes("worker", "work")
    /\ Write("worker", [copy["worker"] EXCEPT !.status = "running"])
    /\ UNCHANGED <<outcome, progress>>

\* run_best_of_five reports another event, returns its trace or raises
Work ==
    /\ at["worker"] = "work"
    /\ \/ progress < MaxEvents /\ progress' = progress + 1 /\ Goes("worker", "event")
          /\ UNCHANGED outcome
       \/ outcome' = "completed" /\ Goes("worker", "settle") /\ UNCHANGED progress
       \/ outcome' = "failed" /\ Goes("worker", "raise") /\ UNCHANGED progress
    /\ UNCHANGED <<run, thread, copy, crashes, twoServers>>

Report ==
    /\ at["worker"] = "event" /\ Goes("worker", "work")
    /\ Write("worker", Event(copy["worker"]))
    /\ UNCHANGED <<outcome, progress>>

\* (mutant) the verdict of a restart is not taken back with the outcome
SettleStatus ==
    /\ at["worker"] = "settle" /\ Goes("worker", "leave")
    /\ Write("worker", Update(copy["worker"], "running", "none"))
    /\ UNCHANGED <<outcome, progress>>
Settle ==
    /\ at["worker"] = "settle" /\ Goes("worker", "leave")
    /\ Write("worker", Update(copy["worker"], "completed", "none"))
    /\ UNCHANGED <<outcome, progress>>

RaiseEvent ==       \* the event of the failure leaves status and error alone
    /\ at["worker"] = "raise" /\ Goes("worker", "fail")
    /\ Write("worker", copy["worker"])
    /\ UNCHANGED <<outcome, progress>>

Fail ==
    /\ at["worker"] = "fail" /\ Goes("worker", "leave")
    /\ Write("worker", Update(copy["worker"], "failed", "own"))
    /\ UNCHANGED <<outcome, progress>>

Leave ==
    /\ at["worker"] = "leave" /\ LockFree("worker") /\ Goes("worker", "gone")
    /\ thread' = FALSE
    /\ UNCHANGED <<run, copy, outcome, progress, crashes, twoServers>>

-----------------------------------------------------------------------------
(* get: the record and the thread under the lock, then two updates.        *)

Started == at["worker"] \notin {"absent", "register", "launch"}
\* (mutant) a thread that has not come to its work is not waited for
LiveAtWork(p) == p \in HomePoller /\ thread /\ at["worker"] \in {"work", "event"}
Live(p) == p \in HomePoller /\ thread
\* (mutant) only a run that is running is judged
JudgedRunning == run.status = "running"
Judged == run.status \in {"queued", "running"}

Poll(p) ==
    /\ at[p] = "idle" /\ Started /\ (p \in OtherPoller => twoServers)
    /\ LockFree(p)
    /\ Judged /\ ~Live(p) /\ Goes(p, "mark")
    /\ UNCHANGED <<run, thread, copy, outcome, progress, crashes, twoServers>>

PollerReads(p) == at[p] \in {"mark", "fail"} /\ Read(p)
Mark(p) ==
    /\ at[p] = "mark" /\ Goes(p, "fail")
    /\ Write(p, copy[p])
    /\ UNCHANGED <<outcome, progress>>
Condemn(p) ==
    /\ at[p] = "fail" /\ Goes(p, "idle")
    /\ Write(p, Update(copy[p], "failed", "ServerRestarted"))
    /\ UNCHANGED <<outcome, progress>>

Crash ==        \* the home process dies with its threads and starts afresh
    /\ Started /\ crashes < MaxCrashes /\ crashes' = crashes + 1
    /\ thread' = FALSE
    /\ at' = [a \in Actor |-> IF a = "worker" THEN "gone"
                              ELSE IF a \in HomePoller THEN "idle" ELSE at[a]]
    /\ copy' = [a \in Actor |-> IF a \in OtherPoller THEN copy[a] ELSE NoCopy]
    /\ UNCHANGED <<run, outcome, progress, twoServers>>

ThreadStep ==
    \/ Start \/ Register \/ Launch \/ ThreadReads \/ Begin \/ Work \/ Report
    \/ Settle \/ RaiseEvent \/ Fail \/ Leave
PollStep(p) == Poll(p) \/ PollerReads(p) \/ Mark(p) \/ Condemn(p)

PipelineNext == ThreadStep \/ (\E p \in Poller : PollStep(p)) \/ Crash

\* A thread that runs gets on, and somebody keeps polling.
PipelineFairness ==
    /\ WF_pipelineVars(ThreadStep)
    /\ \A p \in HomePoller : WF_pipelineVars(PollStep(p))

PipelineSpec == PipelineInit /\ [][PipelineNext]_pipelineVars /\ PipelineFairness

-----------------------------------------------------------------------------

\* With one server a settled run keeps its status and its error: get condemns
\* no run whose thread is still about to record its outcome, and no thread
\* comes back to a run that was condemned (get, _event, _execute).
OutcomeKept ==
    [][~twoServers /\ run.status \in Settled => run' = run]_pipelineVars

\* With one server, what the thread's run came to is what is recorded once the
\* thread has left and did not crash.
OutcomeTold ==
    ~twoServers /\ crashes = 0 /\ at["worker"] = "gone" => run.status = outcome

\* With one server, every run that a client knows of settles, whether its
\* thread ends or its process crashes, as long as somebody polls.
RunSettles == (~twoServers /\ Started) ~> (run.status \in Settled)
=============================================================================

------------------------ MODULE SimulationWorkerProofs ------------------------
(***************************************************************************)
(* The worker processes, for any number of workers, jobs and crashes: they *)
(* change the table only as JobStore allows, so every theorem about the    *)
(* table holds of the whole system, and outcomes are fenced.               *)
(***************************************************************************)
EXTENDS SimulationWorker, JobStoreProofs

\* A working process has a job and the attempt it leased it with; if the
\* row still names this worker, then it is still on that attempt.
Attached ==
    \A w \in WorkerId :
        proc[w].pc \in Working =>
            /\ proc[w].job \in Job
            /\ proc[w].attempt \in 1..AttemptCap
            /\ jobs[proc[w].job].owner = w => jobs[proc[w].job].attempts = proc[w].attempt

FencedInv == SystemTypeOK /\ RowConsistent /\ Attached /\ Fenced

-----------------------------------------------------------------------------
(* What a step does to the table, and what it does to the processes.       *)

\* Every step of the system is a statement of the store, or leaves the table.
LEMMA WorkIsStoreStep ==
  ASSUME FencedInv, NEW w \in WorkerId, Work(w)
  PROVE  [Next]_jobs
  <1> USE DEF FencedInv, Attached, Working
  <1>1. CASE Recover(w)
    BY <1>1 DEF Recover, Next
  <1>2. CASE TakeJob(w)
    BY <1>2 DEF TakeJob, Next, WorkerCall
  <1>3. CASE Beat(w)
    BY <1>3 DEF Beat, Next, WorkerCall
  <1>4. CASE CompleteJob(w)
    BY <1>4, OutcomeAssumption DEF CompleteJob, Next, WorkerCall
  <1>5. CASE ReportFailure(w)
    BY <1>5, OutcomeAssumption DEF ReportFailure, Next, WorkerCall
  <1>6. CASE StoreFailure(w)
    BY <1>6, OutcomeAssumption DEF StoreFailure, Next, WorkerCall
  <1>7. CASE FindNoJob(w) \/ Start(w) \/ Prepare(w) \/ Poll(w) \/ Finish(w) \/ LoseLease(w)
    BY <1>7 DEF FindNoJob, Start, Prepare, Poll, Finish, LoseLease
  <1> QED
    BY <1>1, <1>2, <1>3, <1>4, <1>5, <1>6, <1>7 DEF Work

\* So is every step of the API, of the clock and of a crash.
LEMMA SystemIsStoreStep ==
  ASSUME FencedInv, [SystemNext]_vars
  PROVE  [Next]_jobs
  BY WorkIsStoreStep DEF SystemNext, Crash, Restart, Api, Time, Next, vars

\* A process moves on with its job and attempt, drops both, or leases a job.
LEMMA WorkMoves ==
  ASSUME SystemTypeOK, NEW w \in WorkerId, Work(w)
  PROVE  \/ proc[w].pc \in Working /\ \E p \in Place : Goto(w, p)
         \/ \E p \in Place \ Working : Goto(w, p)
         \/ Return(w)
         \/ TakeJob(w)
  <1> USE DEF Place, Working
  <1>1. CASE Recover(w) \/ FindNoJob(w)
    BY <1>1 DEF Recover, FindNoJob
  <1>2. CASE Start(w) \/ Prepare(w) \/ Poll(w) \/ Finish(w) \/ LoseLease(w)
    BY <1>2 DEF Start, Prepare, Poll, Finish, LoseLease
  <1>3. CASE Beat(w)
    BY <1>3 DEF Beat, Handler
  <1>4. CASE CompleteJob(w)
    BY <1>4 DEF CompleteJob, Handler
  <1>5. CASE ReportFailure(w) \/ StoreFailure(w)
    BY <1>5 DEF ReportFailure, StoreFailure, Handler
  <1> QED
    BY <1>1, <1>2, <1>3, <1>4, <1>5 DEF Work

-----------------------------------------------------------------------------
(* Types.                                                                  *)
LEMMA SystemTypeStep ==
  ASSUME FencedInv, [SystemNext]_vars
  PROVE  SystemTypeOK'
  <1> USE DEF SystemTypeOK
  <1>1. TypeOK'
    BY SystemIsStoreStep, StepType DEF FencedInv
  <1>2. \A p \in Place : At(p) \in Process
    BY NumberAssumption DEF At, Process
  <1>3. ASSUME NEW w \in WorkerId, NEW p \in Place, Goto(w, p)
        PROVE  proc' \in [WorkerId -> Process]
    BY <1>3 DEF FencedInv, Goto, Process
  <1>4. ASSUME NEW w \in WorkerId, NEW p \in Place, proc' = [proc EXCEPT ![w] = At(p)]
        PROVE  proc' \in [WorkerId -> Process]
    BY <1>2, <1>4 DEF FencedInv
  <1>5. ASSUME NEW w \in WorkerId, TakeJob(w)
        PROVE  proc' \in [WorkerId -> Process]
    <2>1. PICK j \in Job :
            /\ jobs[j].attempts < AttemptCap
            /\ proc' = [proc EXCEPT ![w] =
                          [pc |-> "leased", job |-> j, attempt |-> jobs[j].attempts + 1]]
      BY <1>5 DEF TakeJob, Lease
    <2>2. jobs[j].attempts + 1 \in 0..AttemptCap
      BY <2>1, NumberAssumption DEF FencedInv, TypeOK, Row
    <2>3. [pc |-> "leased", job |-> j, attempt |-> jobs[j].attempts + 1] \in Process
      BY <2>2 DEF Process, Place, Working
    <2> QED
      BY <2>1, <2>3 DEF FencedInv
  <1>6. ASSUME NEW w \in WorkerId, Work(w), UNCHANGED crashes
        PROVE  SystemTypeOK'
    <2>1. Return(w) => proc' \in [WorkerId -> Process]
      BY <1>4 DEF Return, Place
    <2> QED
      BY <1>1, <1>3, <1>5, <1>6, <2>1, WorkMoves DEF FencedInv
  <1>7. ASSUME NEW w \in WorkerId, Crash(w)
        PROVE  SystemTypeOK'
    <2>1. proc' \in [WorkerId -> Process]
      BY <1>4, <1>7 DEF Crash, Place
    <2>2. crashes' \in 0..MaxCrashes
      BY <1>7, CrashAssumption DEF FencedInv, Crash
    <2> QED
      BY <1>1, <2>1, <2>2
  <1>8. ASSUME NEW w \in WorkerId, Restart(w)
        PROVE  SystemTypeOK'
    BY <1>1, <1>4, <1>8 DEF FencedInv, Restart, Place
  <1>9. CASE Api \/ Time \/ UNCHANGED vars
    BY <1>1, <1>9 DEF FencedInv, Api, Time, vars
  <1> QED
    BY <1>6, <1>7, <1>8, <1>9 DEF SystemNext

-----------------------------------------------------------------------------
(* A statement other than lease gives no worker a row and leaves the       *)
(* attempts of a row somebody owns.                                        *)
KeepsAttempts ==
    \A i \in Job, v \in WorkerId :
        jobs'[i].owner = v => jobs[i].owner = v /\ jobs'[i].attempts = jobs[i].attempts

\* The API never gives a row an owner, and counts no attempt.
LEMMA ApiKeepsAttempts ==
  ASSUME TypeOK, NEW j \in Job, NEW lag \in Lag, ApiCall(j, lag)
  PROVE  KeepsAttempts
  <1> USE DEF TypeOK, Row, KeepsAttempts
  <1>1. ASSUME NEW key, NEW priority, Submit(j, key, priority, lag)
        PROVE  KeepsAttempts
    BY <1>1, NullAssumption DEF Submit, NoRow
  <1>2. CASE Cancel(j)
    BY <1>2, NullAssumption DEF Cancel
  <1> QED
    BY <1>1, <1>2 DEF ApiCall

\* A heartbeat keeps the owner and the attempt.
LEMMA HeartbeatKeepsAttempts ==
  ASSUME TypeOK, NEW j \in Job, NEW w, NEW ticks, NEW lag, Heartbeat(j, w, ticks, lag)
  PROVE  KeepsAttempts
  BY DEF TypeOK, Row, KeepsAttempts, Heartbeat

\* complete counts no attempt, and takes the owner away.
LEMMA CompleteKeepsAttempts ==
  ASSUME TypeOK, NEW j \in Job, NEW w, NEW outcome, NEW lag, Complete(j, w, outcome, lag)
  PROVE  KeepsAttempts
  BY NullAssumption DEF TypeOK, Row, KeepsAttempts, Complete

\* fail counts no attempt, and takes the owner away.
LEMMA FailKeepsAttempts ==
  ASSUME TypeOK, NEW j \in Job, NEW w, NEW outcome, NEW lag, Fail(j, w, outcome, lag)
  PROVE  KeepsAttempts
  BY NullAssumption DEF TypeOK, Row, KeepsAttempts, Fail

\* Recovery counts no attempt, and gives no row an owner.
LEMMA RequeueKeepsAttempts ==
  ASSUME TypeOK, NEW lag \in Lag, RequeueExpired(lag)
  PROVE  KeepsAttempts
  <1> SUFFICES ASSUME NEW i \in Job, NEW v \in WorkerId, jobs'[i].owner = v
               PROVE  jobs[i].owner = v /\ jobs'[i].attempts = jobs[i].attempts
    BY DEF KeepsAttempts
  <1>1. CASE i \in Expired(lag)
    <2> DEFINE s == IF jobs[i].cancel THEN "cancelled" ELSE "queued"
    <2>1. jobs'[i] = [jobs[i] EXCEPT !.state = s, !.owner = Null, !.left = 0, !.waited = lag]
      BY <1>1 DEF RequeueExpired
    <2> HIDE DEF s
    <2>2. jobs'[i].owner = Null
      BY <2>1 DEF TypeOK, Row
    <2> QED
      BY <2>2, NullAssumption
  <1>2. CASE i \notin Expired(lag)
    BY <1>2 DEF RequeueExpired
  <1> QED
    BY <1>1, <1>2

\* Time counts no attempt.
LEMMA TickKeepsAttempts ==
  ASSUME TypeOK, Tick
  PROVE  KeepsAttempts
  BY DEF TypeOK, Row, KeepsAttempts, Tick

\* A worker that leases nothing changes no attempt and takes no row over.
LEMMA WorkKeepsAttempts ==
  ASSUME FencedInv, NEW w \in WorkerId, Work(w)
  PROVE  KeepsAttempts \/ TakeJob(w)
  <1> USE DEF FencedInv, SystemTypeOK, Attached, Working
  <1>1. CASE Recover(w)
    BY <1>1, RequeueKeepsAttempts DEF Recover
  <1>2. CASE Beat(w)
    BY <1>2, HeartbeatKeepsAttempts DEF Beat, KeepsAttempts
  <1>3. CASE CompleteJob(w)
    BY <1>3, CompleteKeepsAttempts DEF CompleteJob, KeepsAttempts
  <1>4. CASE ReportFailure(w)
    BY <1>4, FailKeepsAttempts DEF ReportFailure, KeepsAttempts
  <1>5. CASE StoreFailure(w)
    BY <1>5, FailKeepsAttempts DEF StoreFailure, KeepsAttempts
  <1>6. CASE FindNoJob(w) \/ Start(w) \/ Prepare(w) \/ Poll(w) \/ Finish(w) \/ LoseLease(w)
    BY <1>6 DEF FindNoJob, Start, Prepare, Poll, Finish, LoseLease, KeepsAttempts
  <1> QED
    BY <1>1, <1>2, <1>3, <1>4, <1>5, <1>6 DEF Work

\* The owner of a row stays on the attempt it leased the row with.
LEMMA AttachedStep ==
  ASSUME FencedInv, [SystemNext]_vars
  PROVE  Attached'
  <1> USE DEF FencedInv, SystemTypeOK
  \* A process that kept its job, on a table that kept its attempts.
  <1>1. ASSUME KeepsAttempts, NEW v \in WorkerId, proc[v].pc \in Working,
               proc'[v].job = proc[v].job, proc'[v].attempt = proc[v].attempt
        PROVE  /\ proc'[v].job \in Job
               /\ proc'[v].attempt \in 1..AttemptCap
               /\ jobs'[proc'[v].job].owner = v =>
                     jobs'[proc'[v].job].attempts = proc'[v].attempt
    BY <1>1 DEF Attached, KeepsAttempts
  <1>2. ASSUME NEW w \in WorkerId, Work(w), KeepsAttempts, ~TakeJob(w)
        PROVE  Attached'
    <2> SUFFICES ASSUME NEW v \in WorkerId, proc'[v].pc \in Working
                 PROVE  /\ proc[v].pc \in Working
                        /\ proc'[v].job = proc[v].job
                        /\ proc'[v].attempt = proc[v].attempt
      BY <1>1, <1>2 DEF Attached
    <2>1. \/ proc[w].pc \in Working /\ \E p \in Place : Goto(w, p)
          \/ \E p \in Place \ Working : Goto(w, p)
          \/ Return(w)
      BY <1>2, WorkMoves
    <2>2. v # w => proc'[v] = proc[v]
      BY <2>1 DEF Goto, Return
    <2>3. ASSUME NEW p \in Place \ Working, Goto(w, p) PROVE v # w
      BY <2>3 DEF Goto
    <2>4. Return(w) => v # w
      BY DEF Return, At, Working
    <2>5. ASSUME NEW p \in Place, Goto(w, p), v = w, proc[w].pc \in Working
          PROVE  proc'[v].job = proc[v].job /\ proc'[v].attempt = proc[v].attempt
      BY <2>5 DEF Goto, Process
    <2> QED
      BY <2>1, <2>2, <2>3, <2>4, <2>5
  <1>3. ASSUME NEW w \in WorkerId, TakeJob(w)
        PROVE  Attached'
    <2>1. PICK j \in Job, ticks \in LeaseTicks, lag \in Lag, locked \in Lockable :
            /\ Lease(j, w, ticks, lag, locked)
            /\ proc' = [proc EXCEPT ![w] =
                          [pc |-> "leased", job |-> j, attempt |-> jobs[j].attempts + 1]]
      BY <1>3 DEF TakeJob
    <2>2. /\ jobs[j].attempts + 1 \in 1..AttemptCap
          /\ jobs'[j].attempts = jobs[j].attempts + 1
          /\ jobs'[j].owner = w
          /\ \A i \in Job : i # j => jobs'[i] = jobs[i]
      BY <2>1, NumberAssumption DEF Lease, TypeOK, Row
    <2>3. /\ proc'[w].job = j
          /\ proc'[w].attempt = jobs[j].attempts + 1
          /\ \A v \in WorkerId : v # w => proc'[v] = proc[v]
      BY <2>1
    <2> QED
      BY <2>2, <2>3 DEF Attached
  <1>4. ASSUME NEW w \in WorkerId, Crash(w) \/ Restart(w)
        PROVE  Attached'
    <2>1. /\ UNCHANGED jobs
          /\ proc'[w].pc \notin Working
          /\ \A v \in WorkerId : v # w => proc'[v] = proc[v]
      BY <1>4 DEF Crash, Restart, At, Working
    <2> QED
      BY <2>1 DEF Attached
  <1>5. ASSUME KeepsAttempts, UNCHANGED proc
        PROVE  Attached'
    BY <1>1, <1>5 DEF Attached
  <1>6. Api => KeepsAttempts /\ UNCHANGED proc
    BY ApiKeepsAttempts DEF Api
  <1>7. Time => KeepsAttempts /\ UNCHANGED proc
    BY TickKeepsAttempts DEF Time
  <1>8. UNCHANGED vars => KeepsAttempts /\ UNCHANGED proc
    BY DEF vars, KeepsAttempts
  <1> QED
    BY <1>2, <1>3, <1>4, <1>5, <1>6, <1>7, <1>8, WorkKeepsAttempts DEF SystemNext

-----------------------------------------------------------------------------
(* Fencing at the level of the table: only complete and fail write         *)
(* outcomes, and only a lease, of a row that has none, moves attempts on.  *)
KeepsOutcomes ==
    \A i \in Job :
        \/ /\ jobs'[i].attempts = jobs[i].attempts
           /\ jobs'[i].result = jobs[i].result
           /\ jobs'[i].failure = jobs[i].failure
        \/ jobs'[i].result = Null /\ jobs'[i].failure = Null

\* A step that keeps attempts and outcomes keeps them fenced.
LEMMA KeptOutcomesAreFenced ==
  ASSUME Fenced, KeepsOutcomes
  PROVE  Fenced'
  BY DEF Fenced, KeepsOutcomes

\* The API stores no outcome.
LEMMA ApiKeepsOutcomes ==
  ASSUME TypeOK, NEW j \in Job, NEW lag \in Lag, ApiCall(j, lag)
  PROVE  KeepsOutcomes
  <1> USE DEF TypeOK, Row, KeepsOutcomes
  <1>1. ASSUME NEW key, NEW priority, Submit(j, key, priority, lag)
        PROVE  KeepsOutcomes
    BY <1>1 DEF Submit, NoRow
  <1>2. CASE Cancel(j)
    BY <1>2 DEF Cancel
  <1> QED
    BY <1>1, <1>2 DEF ApiCall

\* A row that can be leased has no outcome yet.
LEMMA LeaseKeepsOutcomes ==
  ASSUME TypeOK, RowConsistent, NEW j \in Job, NEW w, NEW ticks, NEW lag, NEW locked,
         Lease(j, w, ticks, lag, locked)
  PROVE  KeepsOutcomes
  <1>1. jobs[j].result = Null /\ jobs[j].failure = Null
    BY DEF Lease, Ready, RowConsistent
  <1> QED
    BY <1>1 DEF TypeOK, Row, KeepsOutcomes, Lease

\* A heartbeat stores no outcome.
LEMMA HeartbeatKeepsOutcomes ==
  ASSUME TypeOK, NEW j \in Job, NEW w, NEW ticks, NEW lag, Heartbeat(j, w, ticks, lag)
  PROVE  KeepsOutcomes
  BY DEF TypeOK, Row, KeepsOutcomes, Heartbeat

\* Recovery stores no outcome.
LEMMA RequeueKeepsOutcomes ==
  ASSUME TypeOK, NEW lag \in Lag, RequeueExpired(lag)
  PROVE  KeepsOutcomes
  <1> SUFFICES ASSUME NEW i \in Job
               PROVE  /\ jobs'[i].attempts = jobs[i].attempts
                      /\ jobs'[i].result = jobs[i].result
                      /\ jobs'[i].failure = jobs[i].failure
    BY DEF KeepsOutcomes
  <1>1. CASE i \in Expired(lag)
    <2> DEFINE s == IF jobs[i].cancel THEN "cancelled" ELSE "queued"
    <2>1. jobs'[i] = [jobs[i] EXCEPT !.state = s, !.owner = Null, !.left = 0, !.waited = lag]
      BY <1>1 DEF RequeueExpired
    <2> HIDE DEF s
    <2> QED
      BY <2>1 DEF TypeOK, Row
  <1>2. CASE i \notin Expired(lag)
    BY <1>2 DEF RequeueExpired
  <1> QED
    BY <1>1, <1>2

\* Time stores no outcome.
LEMMA TickKeepsOutcomes ==
  ASSUME TypeOK, Tick
  PROVE  KeepsOutcomes
  BY DEF TypeOK, Row, KeepsOutcomes, Tick

\* The owner stores the outcome of the attempt the row is on.
LEMMA CompleteIsFenced ==
  ASSUME FencedInv, NEW w \in WorkerId, NEW lag, proc[w].pc \in Working,
         Complete(proc[w].job, w, proc[w].attempt, lag)
  PROVE  Fenced'
  <1> DEFINE j == proc[w].job
  <1>1. j \in Job /\ jobs[j].attempts = proc[w].attempt
    BY DEF FencedInv, Attached, Complete, LeaseCheck
  <1>2. /\ jobs'[j].result = proc[w].attempt
        /\ jobs'[j].failure = jobs[j].failure
        /\ jobs'[j].attempts = jobs[j].attempts
        /\ \A i \in Job : i # j => jobs'[i] = jobs[i]
    BY <1>1 DEF FencedInv, SystemTypeOK, TypeOK, Row, Complete
  <1> QED
    BY <1>1, <1>2 DEF FencedInv, Fenced

\* So does fail.
LEMMA FailIsFenced ==
  ASSUME FencedInv, NEW w \in WorkerId, NEW lag, proc[w].pc \in Working,
         Fail(proc[w].job, w, proc[w].attempt, lag)
  PROVE  Fenced'
  <1> DEFINE j == proc[w].job
  <1>1. j \in Job /\ jobs[j].attempts = proc[w].attempt
    BY DEF FencedInv, Attached, Fail, LeaseCheck
  <1>2. /\ jobs'[j].failure = proc[w].attempt
        /\ jobs'[j].result = jobs[j].result
        /\ jobs'[j].attempts = jobs[j].attempts
        /\ \A i \in Job : i # j => jobs'[i] = jobs[i]
    BY <1>1 DEF FencedInv, SystemTypeOK, TypeOK, Row, Fail
  <1> QED
    BY <1>1, <1>2 DEF FencedInv, Fenced

\* No step of the system stores the outcome of a superseded attempt.
LEMMA FencedStep ==
  ASSUME FencedInv, [SystemNext]_vars
  PROVE  Fenced'
  <1> USE DEF FencedInv, SystemTypeOK
  <1>1. UNCHANGED jobs => Fenced'
    BY DEF Fenced
  <1>2. ASSUME NEW w \in WorkerId, Work(w)
        PROVE  Fenced'
    <2>1. CASE Recover(w)
      BY <2>1, RequeueKeepsOutcomes, KeptOutcomesAreFenced DEF Recover
    <2>2. CASE TakeJob(w)
      BY <2>2, LeaseKeepsOutcomes, KeptOutcomesAreFenced DEF TakeJob
    <2>3. CASE Beat(w)
      <3>1. proc[w].job \in Job
        BY <2>3 DEF Beat, Attached, Working
      <3> QED
        BY <1>1, <2>3, <3>1, HeartbeatKeepsOutcomes, KeptOutcomesAreFenced DEF Beat
    <2>4. CASE CompleteJob(w)
      BY <1>1, <2>4, CompleteIsFenced DEF CompleteJob, Working
    <2>5. CASE ReportFailure(w)
      BY <1>1, <2>5, FailIsFenced DEF ReportFailure, Working
    <2>6. CASE StoreFailure(w)
      BY <1>1, <2>6, FailIsFenced DEF StoreFailure, Working
    <2>7. CASE FindNoJob(w) \/ Start(w) \/ Prepare(w) \/ Poll(w) \/ Finish(w) \/ LoseLease(w)
      BY <1>1, <2>7 DEF FindNoJob, Start, Prepare, Poll, Finish, LoseLease
    <2> QED
      BY <1>2, <2>1, <2>2, <2>3, <2>4, <2>5, <2>6, <2>7 DEF Work
  <1>3. Api => Fenced'
    BY ApiKeepsOutcomes, KeptOutcomesAreFenced DEF Api
  <1>4. Time => Fenced'
    BY TickKeepsOutcomes, KeptOutcomesAreFenced DEF Time
  <1> QED
    BY <1>1, <1>2, <1>3, <1>4 DEF SystemNext, Crash, Restart, vars

-----------------------------------------------------------------------------
\* The system starts with an empty table and no process at work.
LEMMA FencedInvInit == SystemInit => FencedInv
  <1> SUFFICES ASSUME SystemInit PROVE FencedInv
    OBVIOUS
  <1>1. TypeOK
    BY InitType DEF SystemInit
  <1>2. RowConsistent /\ Fenced
    BY DEF SystemInit, Init, NoRow, RowConsistent, Fenced
  <1>3. proc \in [WorkerId -> Process] /\ \A w \in WorkerId : proc[w].pc \notin Working
    BY NumberAssumption DEF SystemInit, At, Process, Place, Working
  <1> QED
    BY <1>1, <1>2, <1>3, CrashAssumption DEF SystemInit, FencedInv, SystemTypeOK, Attached

\* Every step keeps the strengthened invariant.
LEMMA FencedInvStep == FencedInv /\ [SystemNext]_vars => FencedInv'
  <1> SUFFICES ASSUME FencedInv, [SystemNext]_vars PROVE FencedInv'
    OBVIOUS
  <1>1. RowConsistent'
    BY SystemIsStoreStep, StepConsistent DEF FencedInv, SystemTypeOK
  <1> QED
    BY <1>1, SystemTypeStep, AttachedStep, FencedStep DEF FencedInv

(* The table and the processes stay well formed.                           *)
THEOREM SystemTypeCorrect == SystemSpec => []SystemTypeOK
  <1> QED
    BY FencedInvInit, FencedInvStep, PTL DEF SystemSpec, FencedInv

(* The outcome of a job comes from the last attempt that leased it, for    *)
(* any number of workers, expired leases, crashes and late completions.    *)
THEOREM OutcomesFenced == SystemSpec => []Fenced
  <1> QED
    BY FencedInvInit, FencedInvStep, PTL DEF SystemSpec, FencedInv

(* Worker processes, API calls, the clock and crashes together change the  *)
(* table only by statements of the store.                                  *)
THEOREM SystemUsesStore == SystemSpec => Spec
  <1>1. SystemInit => Init
    BY DEF SystemInit
  <1> QED
    BY <1>1, FencedInvInit, FencedInvStep, SystemIsStoreStep, PTL DEF SystemSpec, Spec

(* So the whole system keeps the public job contract.                      *)
THEOREM SystemImplements == SystemSpec => ImplementsContract
  BY SystemUsesStore, Implements, PTL
-----------------------------------------------------------------------------
(* Work that meets its lease.  A worker asks for leases that outlast the   *)
(* age of its own "now" (worker.py asks for seconds, and reads its clock   *)
(* in the same call), so a lease has at least one tick left when it starts.*)
LeasesOutlastStalls == \A t \in LeaseTicks : t > MaxStall

\* The row is v's, with time left, or it has ended.
LiveRow(row, v) ==
    \/ row.state \in Terminal
    \/ row.state = "leased" /\ row.owner = v /\ row.left > 0

\* Whoever works on a job has its row, unless the row ended under it.
Held == \A v \in WorkerId : proc[v].pc \in Working => LiveRow(jobs[proc[v].job], v)

TimelyInv == FencedInv /\ Held /\ OneWorkerPerJob

\* A statement takes no row away from the worker that has it in time.
KeepsLive ==
    \A i \in Job, v \in WorkerId : LiveRow(jobs[i], v) => LiveRow(jobs'[i], v)

\* The API submits new rows, and cancels: an ended row stays ended.
LEMMA ApiKeepsLive ==
  ASSUME TypeOK, NEW j \in Job, NEW lag \in Lag, ApiCall(j, lag)
  PROVE  KeepsLive
  <1> USE DEF TypeOK, Row, KeepsLive, LiveRow, Terminal
  <1>1. ASSUME NEW key, NEW priority, Submit(j, key, priority, lag)
        PROVE  KeepsLive
    BY <1>1 DEF Submit
  <1>2. CASE Cancel(j)
    BY <1>2 DEF Cancel
  <1> QED
    BY <1>1, <1>2 DEF ApiCall

\* A lease is given for a queued row, which no worker has.
LEMMA LeaseKeepsLive ==
  ASSUME TypeOK, NEW j \in Job, NEW w, NEW ticks, NEW lag, NEW locked,
         Lease(j, w, ticks, lag, locked)
  PROVE  KeepsLive
  BY DEF TypeOK, Row, KeepsLive, LiveRow, Terminal, Lease, Ready

\* A heartbeat extends the lease of a worker that has the row.
LEMMA HeartbeatKeepsLive ==
  ASSUME TypeOK, LeasesOutlastStalls, NEW j \in Job, NEW w \in WorkerId,
         NEW ticks \in LeaseTicks, NEW lag \in Lag, Heartbeat(j, w, ticks, lag)
  PROVE  KeepsLive
  <1>1. ticks - lag > 0 /\ ticks - lag \in Int
    BY NumberAssumption DEF LeasesOutlastStalls, Lag
  <1>2. jobs'[j] = [jobs[j] EXCEPT !.left = ticks - lag]
    BY DEF Heartbeat, TypeOK
  <1>3. \A i \in Job : i # j => jobs'[i] = jobs[i]
    BY DEF Heartbeat, TypeOK
  <1> HIDE DEF Heartbeat
  <1>4. /\ jobs'[j].state = jobs[j].state
        /\ jobs'[j].owner = jobs[j].owner
        /\ jobs'[j].left > 0
    BY <1>1, <1>2 DEF TypeOK, Row
  <1> QED
    BY <1>3, <1>4 DEF KeepsLive, LiveRow

\* complete ends the row.
LEMMA CompleteKeepsLive ==
  ASSUME TypeOK, NEW j \in Job, NEW w, NEW outcome, NEW lag, Complete(j, w, outcome, lag)
  PROVE  KeepsLive
  BY DEF TypeOK, Row, KeepsLive, LiveRow, Terminal, Complete

\* fail ends the row.
LEMMA FailKeepsLive ==
  ASSUME TypeOK, NEW j \in Job, NEW w, NEW outcome, NEW lag, Fail(j, w, outcome, lag)
  PROVE  KeepsLive
  BY DEF TypeOK, Row, KeepsLive, LiveRow, Terminal, Fail

\* Recovery takes only leases that ran out, at whatever age of its "now".
LEMMA RequeueKeepsLive ==
  ASSUME TypeOK, NEW lag \in Lag, RequeueExpired(lag)
  PROVE  KeepsLive
  <1> SUFFICES ASSUME NEW i \in Job, NEW v \in WorkerId, LiveRow(jobs[i], v)
               PROVE  jobs'[i] = jobs[i]
    BY DEF KeepsLive
  <1>1. i \notin Expired(lag)
    BY NumberAssumption DEF LiveRow, Expired, Unexpired, TypeOK, Row, Lag, Terminal
  <1> QED
    BY <1>1 DEF RequeueExpired

\* What a worker does to the table leaves every other worker its row.
LEMMA WorkKeepsLive ==
  ASSUME FencedInv, LeasesOutlastStalls, NEW w \in WorkerId, Work(w)
  PROVE  KeepsLive
  <1> USE DEF FencedInv, SystemTypeOK, Attached, Working
  <1>1. CASE Recover(w)
    BY <1>1, RequeueKeepsLive DEF Recover
  <1>2. CASE TakeJob(w)
    BY <1>2, LeaseKeepsLive DEF TakeJob
  <1>3. CASE Beat(w)
    BY <1>3, HeartbeatKeepsLive DEF Beat, KeepsLive
  <1>4. CASE CompleteJob(w)
    BY <1>4, CompleteKeepsLive DEF CompleteJob, KeepsLive
  <1>5. CASE ReportFailure(w)
    BY <1>5, FailKeepsLive DEF ReportFailure, KeepsLive
  <1>6. CASE StoreFailure(w)
    BY <1>6, FailKeepsLive DEF StoreFailure, KeepsLive
  <1>7. CASE FindNoJob(w) \/ Start(w) \/ Prepare(w) \/ Poll(w) \/ Finish(w) \/ LoseLease(w)
    BY <1>7 DEF FindNoJob, Start, Prepare, Poll, Finish, LoseLease, KeepsLive
  <1> QED
    BY <1>1, <1>2, <1>3, <1>4, <1>5, <1>6, <1>7 DEF Work

\* Timely work has a tick left when time passes.
LEMMA TimeKeepsHeld ==
  ASSUME TimelyInv, Time, \A v \in WorkerId : HoldsLease(v) => jobs[proc[v].job].left > 1
  PROVE  Held'
  <1> USE DEF TimelyInv, FencedInv, SystemTypeOK
  <1> SUFFICES ASSUME NEW v \in WorkerId, proc[v].pc \in Working
               PROVE  LiveRow(jobs'[proc[v].job], v)
    BY DEF Held, Time
  <1> DEFINE j == proc[v].job
  <1>1. j \in Job /\ LiveRow(jobs[j], v) /\ (jobs[j].owner = v => HoldsLease(v))
    BY DEF Attached, Held, HoldsLease
  <1>2. CASE jobs[j].state \in Terminal
    <2>1. jobs'[j] = jobs[j]
      BY <1>1, <1>2 DEF Time, Tick, Terminal
    <2> QED
      BY <1>2, <2>1 DEF LiveRow
  <1>3. CASE jobs[j].state = "leased" /\ jobs[j].owner = v
    <2>1. jobs[j].left > 1 /\ jobs[j].left \in Int /\ jobs[j] \in Row
      BY <1>1, <1>3 DEF TypeOK, Row
    <2>2. jobs'[j] = [jobs[j] EXCEPT !.left = jobs[j].left - 1]
      BY <1>1, <1>3, <2>1, NumberAssumption DEF Time, Tick
    <2>3. jobs'[j].state = "leased" /\ jobs'[j].owner = v /\ jobs'[j].left > 0
      BY <1>3, <2>1, <2>2 DEF Row
    <2> QED
      BY <2>3 DEF LiveRow
  <1> QED
    BY <1>1, <1>2, <1>3 DEF LiveRow

\* A row that is leased from the queue had no worker, and has one now.
LEMMA TakeJobKeepsTimely ==
  ASSUME TimelyInv, LeasesOutlastStalls, NEW w \in WorkerId, TakeJob(w)
  PROVE  Held' /\ OneWorkerPerJob'
  <1> USE DEF TimelyInv, FencedInv, SystemTypeOK
  <1>1. PICK j \in Job, ticks \in LeaseTicks, lag \in Lag, locked \in Lockable :
          /\ Lease(j, w, ticks, lag, locked)
          /\ proc' = [proc EXCEPT ![w] =
                        [pc |-> "leased", job |-> j, attempt |-> jobs[j].attempts + 1]]
    BY DEF TakeJob
  <1>2. \A v \in WorkerId : proc[v].pc \in Working => proc[v].job # j
    BY <1>1 DEF Lease, Ready, Held, LiveRow, Terminal
  <1>3. ticks - lag > 0
    BY NumberAssumption DEF LeasesOutlastStalls, Lag
  <1>4. LiveRow(jobs'[j], w)
    BY <1>1, <1>3 DEF Lease, LiveRow, TypeOK, Row
  <1>5. /\ proc'[w].job = j
        /\ \A v \in WorkerId : v # w => proc'[v] = proc[v]
    BY <1>1
  <1>6. KeepsLive
    BY <1>1, LeaseKeepsLive
  <1>7. Held'
    BY <1>4, <1>5, <1>6 DEF Held, KeepsLive, Attached
  <1>8. OneWorkerPerJob'
    BY <1>2, <1>5 DEF OneWorkerPerJob
  <1> QED
    BY <1>7, <1>8

\* A process that drops its job, or goes on with it, takes nobody else's.
LEMMA MovingKeepsTimely ==
  ASSUME TimelyInv, KeepsLive,
         \A v \in WorkerId :
            proc'[v].pc \in Working => proc[v].pc \in Working /\ proc'[v].job = proc[v].job
  PROVE  Held' /\ OneWorkerPerJob'
  <1> USE DEF TimelyInv, FencedInv
  <1>1. Held'
    BY DEF Held, KeepsLive, Attached
  <1>2. OneWorkerPerJob'
    BY DEF OneWorkerPerJob
  <1> QED
    BY <1>1, <1>2

\* No timely step lets a lease run out under the worker that has it.
LEMMA TimelyStep ==
  ASSUME TimelyInv, LeasesOutlastStalls, [TimelyNext]_vars
  PROVE  TimelyInv'
  <1> USE DEF TimelyInv
  <1>1. [SystemNext]_vars /\ FencedInv'
    BY FencedInvStep DEF TimelyNext
  <1> DEFINE Moved == \A v \in WorkerId :
                proc'[v].pc \in Working => proc[v].pc \in Working /\ proc'[v].job = proc[v].job
  <1>2. ASSUME NEW w \in WorkerId, Work(w), ~TakeJob(w)
        PROVE  Moved
    <2>1. proc \in [WorkerId -> Process]
      BY DEF FencedInv, SystemTypeOK
    <2>2. \/ proc[w].pc \in Working /\ \E p \in Place : Goto(w, p)
          \/ \E p \in Place \ Working : Goto(w, p)
          \/ Return(w)
      BY <1>2, WorkMoves DEF FencedInv
    <2>3. ASSUME NEW p \in Place, Goto(w, p)
          PROVE  /\ proc'[w].pc = p
                 /\ proc'[w].job = proc[w].job
                 /\ \A v \in WorkerId : v # w => proc'[v] = proc[v]
      BY <2>1, <2>3 DEF Goto, Process
    <2>4. Return(w) => proc'[w].pc \notin Working /\ \A v \in WorkerId : v # w => proc'[v] = proc[v]
      BY <2>1 DEF Return, At, Working
    <2> QED
      BY <2>2, <2>3, <2>4
  <1>3. ASSUME NEW w \in WorkerId, Crash(w) \/ Restart(w)
        PROVE  Moved
    <2>1. /\ proc'[w].pc \notin Working
          /\ \A v \in WorkerId : v # w => proc'[v] = proc[v]
      BY <1>3 DEF Crash, Restart, At, Working, FencedInv, SystemTypeOK
    <2> QED
      BY <2>1
  <1>4. UNCHANGED proc => Moved
    OBVIOUS
  <1>5. UNCHANGED jobs => KeepsLive
    BY DEF KeepsLive
  <1> HIDE DEF Moved
  <1>6. Moved /\ KeepsLive => Held' /\ OneWorkerPerJob'
    BY MovingKeepsTimely DEF Moved
  <1>7. ASSUME NEW w \in WorkerId, Work(w)
        PROVE  Held' /\ OneWorkerPerJob'
    BY <1>2, <1>6, <1>7, WorkKeepsLive, TakeJobKeepsTimely
  <1>8. ASSUME NEW w \in WorkerId, Crash(w) \/ Restart(w)
        PROVE  Held' /\ OneWorkerPerJob'
    BY <1>3, <1>5, <1>6, <1>8 DEF Crash, Restart
  <1>9. ASSUME Api PROVE Held' /\ OneWorkerPerJob'
    BY <1>4, <1>6, <1>9, ApiKeepsLive DEF Api, FencedInv, SystemTypeOK
  <1>10. ASSUME Time PROVE Held' /\ OneWorkerPerJob'
    <2>1. ~UNCHANGED vars => \A v \in WorkerId : HoldsLease(v) => jobs[proc[v].job].left > 1
      BY <1>10 DEF TimelyNext
    <2>2. UNCHANGED vars => Held'
      BY <1>4, <1>5, <1>6 DEF vars
    <2>3. Held'
      BY <1>10, <2>1, <2>2, TimeKeepsHeld
    <2>4. OneWorkerPerJob'
      BY <1>10 DEF OneWorkerPerJob, Time
    <2> QED
      BY <2>3, <2>4
  <1>11. ASSUME UNCHANGED vars PROVE Held' /\ OneWorkerPerJob'
    BY <1>4, <1>5, <1>6, <1>11 DEF vars
  <1> QED
    BY <1>1, <1>7, <1>8, <1>9, <1>10, <1>11 DEF SystemNext

\* At the start no process works on anything.
LEMMA TimelyInvInit == SystemInit => TimelyInv
  <1>1. SystemInit => \A w \in WorkerId : proc[w].pc \notin Working
    BY DEF SystemInit, At, Working
  <1> QED
    BY <1>1, FencedInvInit DEF TimelyInv, Held, OneWorkerPerJob

(* While work meets its lease no two live processes work on one job, for   *)
(* any number of workers, jobs and crashes, whatever is cancelled, and     *)
(* however old the clocks the workers, the recovery and the API compare    *)
(* with, as long as a lease is asked for longer than such a clock is old.  *)
THEOREM OneWorker ==
  ASSUME LeasesOutlastStalls
  PROVE  FairSpec => []OneWorkerPerJob
  <1>1. TimelyInv /\ [TimelyNext]_vars => TimelyInv'
    BY TimelyStep
  <1>2. TimelyInv => OneWorkerPerJob
    BY DEF TimelyInv
  <1> QED
    BY <1>1, <1>2, TimelyInvInit, PTL DEF FairSpec
=============================================================================

---------------------------- MODULE JobStoreProofs ----------------------------
(***************************************************************************)
(* What holds of the job table for any number of jobs, workers, keys and   *)
(* priorities, any lease lengths, any age of the callers' clocks and       *)
(* either backend.                                                         *)
(***************************************************************************)
EXTENDS JobStore, TLAPS, FiniteSetTheorems

\* The number of rows is a rank a new row may take.
LEMMA CountPresent == Cardinality(Present) \in Nat
  <1>1. Present \subseteq Job
    BY DEF Present
  <1>2. IsFiniteSet(Present)
    BY <1>1, JobAssumption, FS_Subset
  <1> QED
    BY <1>2, FS_CardinalityType

-----------------------------------------------------------------------------
(* A row stays a row when one column gets a value of its domain.  The type *)
(* lemmas below follow the columns of a statement one by one.              *)
LEMMA SetState ==
  ASSUME NEW r \in Row, NEW v \in State PROVE [r EXCEPT !.state = v] \in Row
  BY DEF Row

\* A row with another key is a row.
LEMMA SetKey ==
  ASSUME NEW r \in Row, NEW v \in Key \cup {Null} PROVE [r EXCEPT !.key = v] \in Row
  BY DEF Row

\* A row with another priority is a row.
LEMMA SetPriority ==
  ASSUME NEW r \in Row, NEW v \in Int PROVE [r EXCEPT !.priority = v] \in Row
  BY DEF Row

\* A row with another rank is a row.
LEMMA SetCreated ==
  ASSUME NEW r \in Row, NEW v \in Nat PROVE [r EXCEPT !.created = v] \in Row
  BY DEF Row

\* A row with another waiting time is a row.
LEMMA SetWaited ==
  ASSUME NEW r \in Row, NEW v \in Lag PROVE [r EXCEPT !.waited = v] \in Row
  BY DEF Row

\* A row with another number of attempts is a row.
LEMMA SetAttempts ==
  ASSUME NEW r \in Row, NEW v \in 0..AttemptCap PROVE [r EXCEPT !.attempts = v] \in Row
  BY DEF Row

\* A row with another owner is a row.
LEMMA SetOwner ==
  ASSUME NEW r \in Row, NEW v \in WorkerId \cup {Null} PROVE [r EXCEPT !.owner = v] \in Row
  BY DEF Row

\* A row with another lease is a row.
LEMMA SetLeft ==
  ASSUME NEW r \in Row, NEW v \in Int PROVE [r EXCEPT !.left = v] \in Row
  BY DEF Row

\* A row with another cancellation flag is a row.
LEMMA SetCancel ==
  ASSUME NEW r \in Row, NEW v \in BOOLEAN PROVE [r EXCEPT !.cancel = v] \in Row
  BY DEF Row

\* A row with another result is a row.
LEMMA SetResult ==
  ASSUME NEW r \in Row, NEW v \in Outcome \cup {Null} PROVE [r EXCEPT !.result = v] \in Row
  BY DEF Row

\* A row with another failure is a row.
LEMMA SetFailure ==
  ASSUME NEW r \in Row, NEW v \in Outcome \cup {Null} PROVE [r EXCEPT !.failure = v] \in Row
  BY DEF Row

\* A row that loses its lease is a row.
LEMMA ClearLease ==
  ASSUME NEW r \in Row PROVE [r EXCEPT !.owner = Null, !.left = 0] \in Row
  <1> DEFINE r1 == [r EXCEPT !.owner = Null]
  <1>1. r1 \in Row
    BY SetOwner
  <1> HIDE DEF r1
  <1>2. [r1 EXCEPT !.left = 0] \in Row
    BY <1>1, SetLeft
  <1> QED
    BY <1>2 DEF r1

\* The row of a job that was never submitted is a row.
LEMMA NoRowIsRow == NoRow \in Row
  BY NumberAssumption DEF NoRow, Row, State, Terminal, Lag

\* A table with one row replaced is a table.
LEMMA SetRow ==
  ASSUME TypeOK, NEW j \in Job, NEW r \in Row, jobs' = [jobs EXCEPT ![j] = r]
  PROVE  TypeOK'
  BY DEF TypeOK

-----------------------------------------------------------------------------
\* The empty table is well typed.
LEMMA InitType == Init => TypeOK
  BY NoRowIsRow DEF Init, TypeOK

\* submit keeps the table well typed.
LEMMA SubmitType ==
  ASSUME TypeOK, NEW j \in Job, NEW key \in Key \cup {Null}, NEW priority \in Priority,
         NEW lag \in Lag, Submit(j, key, priority, lag)
  PROVE  TypeOK'
  <1>1. PICK created \in Nat :
          jobs' = [jobs EXCEPT ![j] =
                     [NoRow EXCEPT !.state = "queued", !.key = key,
                                   !.priority = priority, !.created = created,
                                   !.waited = lag]]
    <2>1. Cardinality(Present) + 1 \in Nat /\ 1..(Cardinality(Present) + 1) \subseteq Nat
      BY CountPresent
    <2> QED
      BY <2>1 DEF Submit
  <1> DEFINE r1 == [NoRow EXCEPT !.state = "queued"]
             r2 == [r1 EXCEPT !.key = key]
             r3 == [r2 EXCEPT !.priority = priority]
             r4 == [r3 EXCEPT !.created = created]
             r5 == [r4 EXCEPT !.waited = lag]
  <1>2. r1 \in Row
    BY NoRowIsRow, SetState DEF State
  <1>3. r3 \in Row
    BY <1>2, SetKey, SetPriority, NumberAssumption
  <1>4. r5 \in Row
    <2> HIDE DEF r3
    <2> QED
      BY <1>3, SetCreated, SetWaited
  <1>5. jobs' = [jobs EXCEPT ![j] = r5]
    BY <1>1
  <1> HIDE DEF r5
  <1> QED
    BY <1>4, <1>5, SetRow

\* lease keeps the table well typed.
LEMMA LeaseType ==
  ASSUME TypeOK, NEW j \in Job, NEW w \in WorkerId, NEW ticks \in LeaseTicks,
         NEW lag \in Lag, NEW locked, Lease(j, w, ticks, lag, locked)
  PROVE  TypeOK'
  <1> DEFINE r1 == [jobs[j] EXCEPT !.state = "leased"]
             r2 == [r1 EXCEPT !.attempts = jobs[j].attempts + 1]
             r3 == [r2 EXCEPT !.owner = w]
             r4 == [r3 EXCEPT !.left = ticks - lag]
  <1>1. jobs[j] \in Row /\ ticks - lag \in Int
    BY NumberAssumption DEF TypeOK, Lag
  <1>2. jobs[j].attempts + 1 \in 0..AttemptCap
    BY <1>1, NumberAssumption DEF Lease, Row
  <1>3. r2 \in Row
    BY <1>1, <1>2, SetState, SetAttempts DEF State
  <1>4. r4 \in Row
    <2> HIDE DEF r2
    <2> QED
      BY <1>1, <1>3, SetOwner, SetLeft
  <1>5. jobs' = [jobs EXCEPT ![j] = r4]
    BY DEF Lease
  <1> HIDE DEF r4
  <1> QED
    BY <1>4, <1>5, SetRow

\* heartbeat keeps the table well typed.
LEMMA HeartbeatType ==
  ASSUME TypeOK, NEW j \in Job, NEW w \in WorkerId, NEW ticks \in LeaseTicks,
         NEW lag \in Lag, Heartbeat(j, w, ticks, lag)
  PROVE  TypeOK'
  <1>1. jobs[j] \in Row /\ ticks - lag \in Int
    BY NumberAssumption DEF TypeOK, Lag
  <1>2. [jobs[j] EXCEPT !.left = ticks - lag] \in Row
    BY <1>1, SetLeft
  <1> QED
    BY <1>2, SetRow DEF Heartbeat

\* cancel keeps the table well typed.
LEMMA CancelType ==
  ASSUME TypeOK, NEW j \in Job, Cancel(j)
  PROVE  TypeOK'
  <1> DEFINE r1 == [jobs[j] EXCEPT !.state = "cancelled"]
             r2 == [r1 EXCEPT !.cancel = TRUE]
             r3 == [r2 EXCEPT !.owner = Null]
             r4 == [r3 EXCEPT !.left = 0]
  <1>1. r2 \in Row
    BY SetState, SetCancel DEF TypeOK, State, Terminal
  <1>2. r4 \in Row
    <2> HIDE DEF r2
    <2> QED
      BY <1>1, ClearLease
  <1>3. jobs' = [jobs EXCEPT ![j] = r4]
    BY DEF Cancel
  <1> HIDE DEF r4
  <1> QED
    BY <1>2, <1>3, SetRow

\* complete keeps the table well typed.
LEMMA CompleteType ==
  ASSUME TypeOK, NEW j \in Job, NEW w, NEW outcome \in Outcome, NEW lag,
         Complete(j, w, outcome, lag)
  PROVE  TypeOK'
  <1> DEFINE r1 == [jobs[j] EXCEPT !.state = "succeeded"]
             r2 == [r1 EXCEPT !.result = outcome]
             r3 == [r2 EXCEPT !.owner = Null]
             r4 == [r3 EXCEPT !.left = 0]
  <1>1. r2 \in Row
    BY SetState, SetResult DEF TypeOK, State, Terminal
  <1>2. r4 \in Row
    <2> HIDE DEF r2
    <2> QED
      BY <1>1, ClearLease
  <1>3. jobs' = [jobs EXCEPT ![j] = r4]
    BY DEF Complete
  <1> HIDE DEF r4
  <1> QED
    BY <1>2, <1>3, SetRow

\* fail keeps the table well typed.
LEMMA FailType ==
  ASSUME TypeOK, NEW j \in Job, NEW w, NEW outcome \in Outcome, NEW lag,
         Fail(j, w, outcome, lag)
  PROVE  TypeOK'
  <1> DEFINE r1 == [jobs[j] EXCEPT !.state = "failed"]
             r2 == [r1 EXCEPT !.failure = outcome]
             r3 == [r2 EXCEPT !.owner = Null]
             r4 == [r3 EXCEPT !.left = 0]
  <1>1. r2 \in Row
    BY SetState, SetFailure DEF TypeOK, State, Terminal
  <1>2. r4 \in Row
    <2> HIDE DEF r2
    <2> QED
      BY <1>1, ClearLease
  <1>3. jobs' = [jobs EXCEPT ![j] = r4]
    BY DEF Fail
  <1> HIDE DEF r4
  <1> QED
    BY <1>2, <1>3, SetRow

\* requeue_expired keeps the table well typed.
LEMMA RequeueType ==
  ASSUME TypeOK, NEW lag \in Lag, RequeueExpired(lag)
  PROVE  TypeOK'
  <1> DEFINE New(j) == [jobs[j] EXCEPT
                 !.state = IF jobs[j].cancel THEN "cancelled" ELSE "queued",
                 !.owner = Null, !.left = 0, !.waited = lag]
  <1>1. ASSUME NEW j \in Job PROVE New(j) \in Row
    <2> DEFINE s == IF jobs[j].cancel THEN "cancelled" ELSE "queued"
               r1 == [jobs[j] EXCEPT !.state = s]
               r2 == [r1 EXCEPT !.owner = Null]
               r3 == [r2 EXCEPT !.left = 0]
               r4 == [r3 EXCEPT !.waited = lag]
    <2>1. s \in State
      BY DEF State, Terminal
    <2> HIDE DEF s
    <2>2. r1 \in Row
      BY <2>1, SetState DEF TypeOK
    <2>3. r3 \in Row
      <3> HIDE DEF r1
      <3> QED
        BY <2>2, ClearLease
    <2>4. r4 \in Row
      <3> HIDE DEF r3
      <3> QED
        BY <2>3, SetWaited
    <2>5. New(j) = r4
      BY DEF s
    <2> QED
      BY <2>4, <2>5
  <1>2. jobs' = [j \in Job |-> IF j \in Expired(lag) THEN New(j) ELSE jobs[j]]
    BY DEF RequeueExpired
  <1> HIDE DEF New
  <1> QED
    BY <1>1, <1>2 DEF TypeOK

\* So does time.
LEMMA TickType ==
  ASSUME TypeOK, Tick
  PROVE  TypeOK'
  <1> SUFFICES ASSUME NEW j \in Job PROVE jobs'[j] \in Row
    BY DEF TypeOK, Tick
  <1>1. jobs[j] \in Row /\ jobs[j].left - 1 \in Int
    BY DEF TypeOK, Row
  <1>2. jobs[j].waited < MaxStall => jobs[j].waited + 1 \in Lag
    BY <1>1, NumberAssumption DEF Row, Lag
  <1>3. CASE jobs[j].state = "leased" /\ jobs[j].left > -MaxStall
    <2>1. jobs'[j] = [jobs[j] EXCEPT !.left = jobs[j].left - 1]
      BY <1>3 DEF Tick
    <2> QED
      BY <1>1, <2>1, SetLeft
  <1>4. CASE jobs[j].state = "queued" /\ jobs[j].waited < MaxStall
    <2>1. jobs'[j] = [jobs[j] EXCEPT !.waited = jobs[j].waited + 1]
      BY <1>4 DEF Tick
    <2> QED
      BY <1>1, <1>2, <1>4, <2>1, SetWaited
  <1>5. CASE /\ ~(jobs[j].state = "leased" /\ jobs[j].left > -MaxStall)
             /\ ~(jobs[j].state = "queued" /\ jobs[j].waited < MaxStall)
    <2>1. jobs'[j] = jobs[j]
      BY <1>5 DEF Tick
    <2> QED
      BY <1>1, <2>1
  <1> QED
    BY <1>3, <1>4, <1>5

\* So does every call a worker makes.
LEMMA WorkerCallType ==
  ASSUME TypeOK, NEW j \in Job, NEW w \in WorkerId, NEW lag \in Lag, WorkerCall(j, w, lag)
  PROVE  TypeOK'
  BY LeaseType, HeartbeatType, CompleteType, FailType DEF WorkerCall

\* So does every step.
LEMMA StepType ==
  ASSUME TypeOK, [Next]_jobs
  PROVE  TypeOK'
  <1>1. ASSUME NEW j \in Job, NEW lag \in Lag, ApiCall(j, lag)
        PROVE  TypeOK'
    BY <1>1, SubmitType, CancelType DEF ApiCall
  <1>2. CASE jobs' = jobs
    BY <1>2 DEF TypeOK
  <1> QED
    BY <1>1, <1>2, WorkerCallType, RequeueType, TickType DEF Next

(* Every reachable table is well formed: states, lease fields, counters    *)
(* and outcomes of every row stay in their domains.                        *)
THEOREM TypeCorrect == Spec => []TypeOK
  <1> QED
    BY InitType, StepType, PTL DEF Spec

-----------------------------------------------------------------------------
(* The columns of a row agree with each other.  RowConsistent is inductive *)
(* together with the types: that cancel_requested is never set on a leased *)
(* row is what makes requeue_expired put every expired job back in queue.  *)
LEMMA WorkerCallConsistent ==
  ASSUME TypeOK, RowConsistent, NEW j \in Job, NEW w \in WorkerId, NEW lag \in Lag,
         WorkerCall(j, w, lag)
  PROVE  RowConsistent'
  <1> USE DEF RowConsistent
  <1>1. Null \notin WorkerId /\ Null \notin Outcome
    BY NullAssumption
  <1>2. ASSUME NEW ticks \in LeaseTicks, NEW locked \in Lockable,
               Lease(j, w, ticks, lag, locked)
        PROVE  RowConsistent'
    BY <1>1, <1>2 DEF TypeOK, Row, Lease, Ready
  <1>3. ASSUME NEW ticks \in LeaseTicks, Heartbeat(j, w, ticks, lag)
        PROVE  RowConsistent'
    BY <1>3 DEF TypeOK, Row, Heartbeat
  <1>4. LeaseCheck(j, w, lag) = "ok" => jobs[j].state = "leased"
    BY DEF LeaseCheck
  <1>5. ASSUME NEW outcome \in Outcome, Complete(j, w, outcome, lag)
        PROVE  RowConsistent'
    BY <1>1, <1>4, <1>5 DEF TypeOK, Row, Complete
  <1>6. ASSUME NEW outcome \in Outcome, Fail(j, w, outcome, lag)
        PROVE  RowConsistent'
    BY <1>1, <1>4, <1>6 DEF TypeOK, Row, Fail
  <1> QED
    BY <1>2, <1>3, <1>5, <1>6 DEF WorkerCall

\* No statement leaves a lease, an outcome or a flag that contradicts the state of its row.
LEMMA StepConsistent ==
  ASSUME TypeOK, RowConsistent, [Next]_jobs
  PROVE  RowConsistent'
  <1> USE DEF RowConsistent
  <1>1. ASSUME NEW j \in Job, NEW lag \in Lag, NEW key, NEW priority,
               Submit(j, key, priority, lag)
        PROVE  RowConsistent'
    BY <1>1 DEF TypeOK, Row, Submit, NoRow
  <1>2. ASSUME NEW j \in Job, Cancel(j)
        PROVE  RowConsistent'
    BY <1>2 DEF TypeOK, Row, Cancel
  <1>3. ASSUME NEW lag \in Lag, RequeueExpired(lag)
        PROVE  RowConsistent'
    <2>1. \A j \in Expired(lag) : jobs[j].state = "leased" /\ ~jobs[j].cancel
      BY DEF TypeOK, Row, Expired
    <2>2. \A j \in Expired(lag) :
            /\ jobs'[j].state = "queued" /\ jobs'[j].owner = Null
            /\ jobs'[j].cancel = jobs[j].cancel
            /\ jobs'[j].result = jobs[j].result
            /\ jobs'[j].failure = jobs[j].failure
      <3> SUFFICES ASSUME NEW j \in Expired(lag)
                   PROVE  /\ jobs'[j].state = "queued" /\ jobs'[j].owner = Null
                          /\ jobs'[j].cancel = jobs[j].cancel
                          /\ jobs'[j].result = jobs[j].result
                          /\ jobs'[j].failure = jobs[j].failure
        OBVIOUS
      <3> DEFINE s == IF jobs[j].cancel THEN "cancelled" ELSE "queued"
      <3>1. s = "queued"
        BY <2>1
      <3>2. j \in Job /\ jobs[j] \in Row
        BY DEF TypeOK, Expired
      <3>3. jobs'[j] = [jobs[j] EXCEPT !.state = s, !.owner = Null, !.left = 0, !.waited = lag]
        BY <1>3, <3>2 DEF RequeueExpired
      <3> HIDE DEF s
      <3> QED
        BY <3>1, <3>2, <3>3 DEF Row
    <2>3. \A j \in Job \ Expired(lag) : jobs'[j] = jobs[j]
      BY <1>3 DEF RequeueExpired
    <2> QED
      BY <2>1, <2>2, <2>3
  <1>4. CASE Tick
    <2>1. \A j \in Job :
            /\ jobs'[j].state = jobs[j].state
            /\ jobs'[j].owner = jobs[j].owner
            /\ jobs'[j].cancel = jobs[j].cancel
            /\ jobs'[j].result = jobs[j].result
            /\ jobs'[j].failure = jobs[j].failure
      BY <1>4 DEF TypeOK, Row, Tick
    <2> QED
      BY <2>1
  <1>5. CASE jobs' = jobs
    BY <1>5
  <1> QED
    BY <1>1, <1>2, <1>3, <1>4, <1>5, WorkerCallConsistent DEF Next, ApiCall

(* Leased rows and only they have an owner, outcomes match states, and     *)
(* cancel_requested is set on cancelled rows only, for ever.               *)
THEOREM Consistent == Spec => []RowConsistent
  <1>1. Init => RowConsistent
    BY DEF Init, NoRow, RowConsistent
  <1> QED
    BY <1>1, InitType, StepType, StepConsistent, PTL DEF Spec

-----------------------------------------------------------------------------
(* Only a submission writes a key, and it looks every row up first.        *)
LEMMA StepKeys ==
  ASSUME TypeOK, KeyNamesOneJob, [Next]_jobs
  PROVE  KeyNamesOneJob'
  <1>1. ASSUME NEW j \in Job, NEW lag \in Lag, NEW key, NEW priority,
               Submit(j, key, priority, lag)
        PROVE  KeyNamesOneJob'
    BY <1>1 DEF TypeOK, Row, Submit, NoRow, KeyNamesOneJob
  <1>2. ASSUME \A j \in Job : jobs'[j].key = jobs[j].key
        PROVE  KeyNamesOneJob'
    BY <1>2 DEF KeyNamesOneJob
  <1>3. ASSUME NEW j \in Job, NEW lag \in Lag, NEW w, WorkerCall(j, w, lag)
        PROVE  \A i \in Job : jobs'[i].key = jobs[i].key
    <2> USE DEF TypeOK, Row
    <2>1. ASSUME NEW ticks, NEW locked, Lease(j, w, ticks, lag, locked)
          PROVE  \A i \in Job : jobs'[i].key = jobs[i].key
      BY <2>1 DEF Lease
    <2>2. ASSUME NEW ticks, Heartbeat(j, w, ticks, lag)
          PROVE  \A i \in Job : jobs'[i].key = jobs[i].key
      BY <2>2 DEF Heartbeat
    <2>3. ASSUME NEW outcome, Complete(j, w, outcome, lag)
          PROVE  \A i \in Job : jobs'[i].key = jobs[i].key
      BY <2>3 DEF Complete
    <2>4. ASSUME NEW outcome, Fail(j, w, outcome, lag)
          PROVE  \A i \in Job : jobs'[i].key = jobs[i].key
      BY <2>4 DEF Fail
    <2> QED
      BY <1>3, <2>1, <2>2, <2>3, <2>4 DEF WorkerCall
  <1>4. ASSUME NEW j \in Job, Cancel(j)
        PROVE  \A i \in Job : jobs'[i].key = jobs[i].key
    BY <1>4 DEF TypeOK, Row, Cancel
  <1>5. ASSUME NEW lag \in Lag, RequeueExpired(lag)
        PROVE  \A i \in Job : jobs'[i].key = jobs[i].key
    BY <1>5 DEF TypeOK, Row, RequeueExpired
  <1>6. Tick => \A i \in Job : jobs'[i].key = jobs[i].key
    BY DEF TypeOK, Row, Tick
  <1> QED
    BY <1>1, <1>2, <1>3, <1>4, <1>5, <1>6 DEF Next, ApiCall

(* No two jobs ever share an idempotency key.                              *)
THEOREM KeysUnique == Spec => []KeyNamesOneJob
  <1>1. Init => KeyNamesOneJob
    BY DEF Init, NoRow, KeyNamesOneJob
  <1> QED
    BY <1>1, InitType, StepType, StepKeys, PTL DEF Spec

-----------------------------------------------------------------------------
(* Jobs that have ended are never changed again.                           *)
THEOREM EndedJobsStay == Spec => EndedForGood
  <1>1. ASSUME TypeOK, [Next]_jobs, NEW i \in Job, jobs[i].state \in Terminal
        PROVE  jobs'[i] = jobs[i]
    <2> USE <1>1 DEF TypeOK, Terminal
    <2>1. ASSUME NEW j \in Job, NEW lag \in Lag, NEW key, NEW priority,
                 Submit(j, key, priority, lag)
          PROVE  jobs'[i] = jobs[i]
      BY <2>1 DEF Submit
    <2>2. ASSUME NEW j \in Job, Cancel(j)
          PROVE  jobs'[i] = jobs[i]
      BY <2>2 DEF Cancel
    <2>3. ASSUME NEW j \in Job, NEW w \in WorkerId, NEW lag \in Lag, WorkerCall(j, w, lag)
          PROVE  jobs'[i] = jobs[i]
      BY <2>3 DEF WorkerCall, Lease, Ready, Heartbeat, HeartbeatCheck, Complete, Fail, LeaseCheck
    <2>4. ASSUME NEW lag \in Lag, RequeueExpired(lag)
          PROVE  jobs'[i] = jobs[i]
      BY <2>4 DEF RequeueExpired, Expired
    <2>5. CASE Tick
      BY <2>5 DEF Tick
    <2>6. CASE jobs' = jobs
      BY <2>6
    <2> QED
      BY <2>1, <2>2, <2>3, <2>4, <2>5, <2>6 DEF Next, ApiCall
  <1>2. TypeOK /\ [Next]_jobs =>
          [\A j \in Job : jobs[j].state \in Terminal => jobs'[j] = jobs[j]]_jobs
    BY <1>1
  <1> QED
    BY <1>2, TypeCorrect, PTL DEF Spec, EndedForGood

(* A live lease is lost only to a cancellation or to its owner's last call. *)
THEOREM LiveLeasesStay == Spec => LeaseOutlastsOthers
  <1>1. ASSUME TypeOK, [Next]_jobs, NEW i \in Job,
               jobs[i].state = "leased", jobs[i].left > 0
        PROVE  jobs'[i].owner = jobs[i].owner \/ jobs'[i].state \in Terminal
    <2> USE <1>1 DEF TypeOK, Row, Terminal
    <2>1. ASSUME NEW j \in Job, NEW lag \in Lag, NEW key, NEW priority,
                 Submit(j, key, priority, lag)
          PROVE  jobs'[i].owner = jobs[i].owner
      BY <2>1 DEF Submit
    <2>2. ASSUME NEW j \in Job, Cancel(j)
          PROVE  jobs'[i].owner = jobs[i].owner \/ jobs'[i].state \in Terminal
      BY <2>2 DEF Cancel
    <2>3. ASSUME NEW j \in Job, NEW w \in WorkerId, NEW lag \in Lag, WorkerCall(j, w, lag)
          PROVE  jobs'[i].owner = jobs[i].owner \/ jobs'[i].state \in Terminal
      <3>1. ASSUME NEW ticks, NEW locked, Lease(j, w, ticks, lag, locked)
            PROVE  jobs'[i].owner = jobs[i].owner
        BY <3>1 DEF Lease, Ready
      <3>2. ASSUME NEW ticks, Heartbeat(j, w, ticks, lag)
            PROVE  jobs'[i].owner = jobs[i].owner
        BY <3>2 DEF Heartbeat
      <3>3. ASSUME NEW outcome, Complete(j, w, outcome, lag)
            PROVE  jobs'[i].owner = jobs[i].owner \/ jobs'[i].state \in Terminal
        BY <3>3 DEF Complete
      <3>4. ASSUME NEW outcome, Fail(j, w, outcome, lag)
            PROVE  jobs'[i].owner = jobs[i].owner \/ jobs'[i].state \in Terminal
        BY <3>4 DEF Fail
      <3> QED
        BY <2>3, <3>1, <3>2, <3>3, <3>4 DEF WorkerCall
    <2>4. ASSUME NEW lag \in Lag, RequeueExpired(lag)
          PROVE  jobs'[i].owner = jobs[i].owner
      <3>1. i \notin Expired(lag)
        BY NumberAssumption DEF Expired, Unexpired, Lag
      <3> QED
        BY <2>4, <3>1 DEF RequeueExpired
    <2>5. CASE Tick
      BY <2>5 DEF Tick
    <2>6. CASE jobs' = jobs
      BY <2>6
    <2> QED
      BY <2>1, <2>2, <2>3, <2>4, <2>5, <2>6 DEF Next, ApiCall
  <1>2. TypeOK /\ [Next]_jobs =>
          [\A j \in Job :
             jobs[j].state = "leased" /\ jobs[j].left > 0 =>
                \/ jobs'[j].owner = jobs[j].owner
                \/ jobs'[j].state \in Terminal]_jobs
    BY <1>1
  <1> QED
    BY <1>2, TypeCorrect, PTL DEF Spec, LeaseOutlastsOthers

-----------------------------------------------------------------------------
(* Every statement of the store is a step of the job contract, or none.    *)
LEMMA RowStep ==
  ASSUME TypeOK, NEW j \in Job, NEW r, jobs' = [jobs EXCEPT ![j] = r]
  PROVE  /\ phaseOf' = [phaseOf EXCEPT ![j] = r.state]
         /\ holderOf' = [holderOf EXCEPT ![j] = r.owner]
  BY DEF TypeOK, phaseOf, holderOf

\* A worker's call claims a job, ends it, or leaves its phase alone.
LEMMA WorkerCallImplements ==
  ASSUME TypeOK, RowConsistent, NEW j \in Job, NEW w \in WorkerId, NEW lag \in Lag,
         WorkerCall(j, w, lag)
  PROVE  [Contract!Next]_<<phaseOf, holderOf>>
  <1> USE DEF TypeOK, Row, phaseOf, holderOf
  <1>1. ASSUME NEW ticks, NEW locked, Lease(j, w, ticks, lag, locked)
        PROVE  Contract!Claim(j, w)
    <2>1. phaseOf[j] = "queued"
      BY <1>1 DEF Lease, Ready
    <2>2. phaseOf' = [phaseOf EXCEPT ![j] = "leased"]
      BY <1>1 DEF Lease
    <2>3. holderOf' = [holderOf EXCEPT ![j] = w]
      BY <1>1 DEF Lease
    <2> QED
      BY <2>1, <2>2, <2>3 DEF Contract!Claim
  <1>2. ASSUME NEW ticks, Heartbeat(j, w, ticks, lag)
        PROVE  phaseOf' = phaseOf /\ holderOf' = holderOf
    BY <1>2 DEF Heartbeat
  <1>3. LeaseCheck(j, w, lag) = "ok" => phaseOf[j] = "leased" /\ holderOf[j] = w
    BY DEF LeaseCheck
  <1>4. ASSUME NEW outcome, Complete(j, w, outcome, lag)
        PROVE  Contract!Finish(j, w, "succeeded")
    <2>1. phaseOf' = [phaseOf EXCEPT ![j] = "succeeded"]
      BY <1>4 DEF Complete
    <2>2. holderOf' = [holderOf EXCEPT ![j] = Null]
      BY <1>4 DEF Complete
    <2> QED
      BY <1>3, <1>4, <2>1, <2>2 DEF Complete, Contract!Finish
  <1>5. ASSUME NEW outcome, Fail(j, w, outcome, lag)
        PROVE  Contract!Finish(j, w, "failed")
    <2>1. phaseOf' = [phaseOf EXCEPT ![j] = "failed"]
      BY <1>5 DEF Fail
    <2>2. holderOf' = [holderOf EXCEPT ![j] = Null]
      BY <1>5 DEF Fail
    <2> QED
      BY <1>3, <1>5, <2>1, <2>2 DEF Fail, Contract!Finish
  <1> HIDE DEF phaseOf, holderOf
  <1> QED
    BY <1>1, <1>2, <1>4, <1>5 DEF WorkerCall, Contract!Next

\* Every step of the table is a step of the contract or a stutter.
LEMMA StepImplements ==
  ASSUME TypeOK, RowConsistent, [Next]_jobs
  PROVE  [Contract!Next]_<<phaseOf, holderOf>>
  <1> USE DEF TypeOK, Row, phaseOf, holderOf
  <1>1. ASSUME NEW j \in Job, NEW lag, NEW key, NEW priority, Submit(j, key, priority, lag)
        PROVE  Contract!Submit(j)
    <2>1. phaseOf[j] = "absent" /\ jobs[j].owner = Null
      BY <1>1 DEF Submit, RowConsistent
    <2>2. PICK r : jobs' = [jobs EXCEPT ![j] = r] /\ r.state = "queued" /\ r.owner = Null
      BY <1>1 DEF Submit, NoRow
    <2>3. /\ phaseOf' = [phaseOf EXCEPT ![j] = "queued"]
          /\ holderOf' = [holderOf EXCEPT ![j] = Null]
      BY <2>2, RowStep
    <2> QED
      BY <2>1, <2>3 DEF Contract!Submit
  <1>2. ASSUME NEW j \in Job, Cancel(j)
        PROVE  Contract!Cancel(j)
    <2>1. PICK r : jobs' = [jobs EXCEPT ![j] = r] /\ r.state = "cancelled" /\ r.owner = Null
      <3> DEFINE r == [jobs[j] EXCEPT !.state = "cancelled", !.cancel = TRUE,
                                      !.owner = Null, !.left = 0]
      <3>1. jobs' = [jobs EXCEPT ![j] = r]
        BY <1>2 DEF Cancel
      <3>2. r.state = "cancelled" /\ r.owner = Null
        OBVIOUS
      <3> HIDE DEF r
      <3> QED
        BY <3>1, <3>2
    <2>2. /\ phaseOf' = [phaseOf EXCEPT ![j] = "cancelled"]
          /\ holderOf' = [holderOf EXCEPT ![j] = Null]
      BY <2>1, RowStep
    <2> QED
      BY <1>2, <2>2 DEF Cancel, Contract!Cancel
  <1>3. ASSUME NEW lag \in Lag, RequeueExpired(lag)
        PROVE  Contract!Release(Expired(lag))
    <2>1. \A j \in Expired(lag) : j \in Job /\ jobs[j].state = "leased" /\ ~jobs[j].cancel
      BY DEF Expired, RowConsistent
    <2>2. \A j \in Expired(lag) : jobs'[j].state = "queued" /\ jobs'[j].owner = Null
      <3> SUFFICES ASSUME NEW j \in Expired(lag)
                   PROVE  jobs'[j].state = "queued" /\ jobs'[j].owner = Null
        OBVIOUS
      <3> DEFINE s == IF jobs[j].cancel THEN "cancelled" ELSE "queued"
      <3>1. s = "queued"
        BY <2>1
      <3>2. jobs'[j] = [jobs[j] EXCEPT !.state = s, !.owner = Null, !.left = 0, !.waited = lag]
        BY <1>3, <2>1 DEF RequeueExpired
      <3> HIDE DEF s
      <3> QED
        BY <2>1, <3>1, <3>2 DEF State, Terminal
    <2>3. \A j \in Job \ Expired(lag) : jobs'[j] = jobs[j]
      BY <1>3 DEF RequeueExpired
    <2> HIDE DEF TypeOK, Row
    <2>4. phaseOf' = [j \in Job |-> IF j \in Expired(lag) THEN "queued" ELSE phaseOf[j]]
      BY <2>2, <2>3
    <2>5. holderOf' = [j \in Job |-> IF j \in Expired(lag) THEN Null ELSE holderOf[j]]
      BY <2>2, <2>3
    <2> QED
      BY <2>1, <2>4, <2>5 DEF Contract!Release
  <1>4. \A lag : Expired(lag) \in SUBSET Job
    BY DEF Expired
  <1>5. CASE Tick
    <2>1. \A j \in Job : jobs'[j].state = jobs[j].state /\ jobs'[j].owner = jobs[j].owner
      BY <1>5 DEF Tick
    <2> QED
      BY <2>1
  <1>6. CASE jobs' = jobs
    BY <1>6
  <1> HIDE DEF phaseOf, holderOf, TypeOK
  <1> QED
    BY <1>1, <1>2, <1>3, <1>4, <1>5, <1>6, WorkerCallImplements
    DEF Next, ApiCall, Contract!Next

(* The table implements the job contract: one submission, at most one      *)
(* holder, one end, decided by the holder or by a cancellation.            *)
THEOREM Implements == Spec => ImplementsContract
  <1>1. Init => Contract!Init
    BY DEF Init, NoRow, Contract!Init, phaseOf, holderOf
  <1>2. TypeOK /\ RowConsistent /\ [Next]_jobs => [Contract!Next]_<<phaseOf, holderOf>>
    BY StepImplements
  <1> QED
    BY <1>1, <1>2, TypeCorrect, Consistent, PTL
    DEF Spec, ImplementsContract, Contract!Spec, Contract!vars
=============================================================================

------------------------------- MODULE JobStore -------------------------------
(***************************************************************************)
(* The durable table of simulation jobs, as SQLiteJobStore and             *)
(* PostgresJobStore keep it.  Every method is one transaction on the       *)
(* table, so every method is one action; a call that raises, or that       *)
(* returns a row it found, leaves the table as it is.                      *)
(*                                                                         *)
(* Time is kept relative to the present, so that it need not be bounded:   *)
(* a row says how many ticks its lease has left and for how many ticks it  *)
(* has been available.  A method reads utc_now() before it gets the write  *)
(* lock or the row lock, so its "now" may be up to MaxStall ticks old when *)
(* it reads the row; "lag" below is the age of a caller's "now".           *)
(*                                                                         *)
(* Left out: the job's content (it decides only what a second submission   *)
(* of the same id is told), and the columns no statement of the store      *)
(* reads: heartbeat_at, updated_at, started_at, finished_at, max_attempts. *)
(***************************************************************************)
EXTENDS Integers, FiniteSets

CONSTANTS
    Job,          \* job ids
    WorkerId,     \* names workers lease under
    Key,          \* idempotency keys
    Priority,     \* priorities
    Outcome,      \* results and failures a worker may store
    LeaseTicks,   \* lease lengths a caller may ask for
    MaxStall,     \* the oldest "now" a caller may use
    AttemptCap,   \* bound: the most attempts of a job that are explored
    Backend,      \* "sqlite" or "postgres"
    Null          \* NULL in the table

ASSUME JobAssumption == IsFiniteSet(Job)
ASSUME NullAssumption == Null \notin WorkerId \cup Key \cup Outcome
ASSUME NumberAssumption ==
    /\ Priority \subseteq Int
    /\ LeaseTicks \subseteq Nat \ {0}
    /\ MaxStall \in Nat
    /\ AttemptCap \in Nat
ASSUME BackendAssumption == Backend \in {"sqlite", "postgres"}

VARIABLE jobs     \* the table, one row per job id; "absent" is no row

Terminal == {"succeeded", "failed", "cancelled"}
State == {"absent", "queued", "leased"} \cup Terminal
Lag == 0..MaxStall

Row ==
    [state    : State,
     key      : Key \cup {Null},
     priority : Int,
     created  : Nat,                 \* rank of created_at; equal ranks are equal times
     waited   : Lag,                 \* now - available_at, no more than MaxStall
     attempts : 0..AttemptCap,
     owner    : WorkerId \cup {Null},
     left     : Int,                 \* lease_expires_at - now; 0 without a lease
     cancel   : BOOLEAN,             \* cancel_requested
     result   : Outcome \cup {Null},
     failure  : Outcome \cup {Null}]

NoRow ==
    [state |-> "absent", key |-> Null, priority |-> 0, created |-> 0, waited |-> 0,
     attempts |-> 0, owner |-> Null, left |-> 0, cancel |-> FALSE,
     result |-> Null, failure |-> Null]

TypeOK == jobs \in [Job -> Row]

Init == jobs = [j \in Job |-> NoRow]

-----------------------------------------------------------------------------
Present == {j \in Job : jobs[j].state # "absent"}

\* (mutant) the age of "now" applied with the wrong sign
UnexpiredAhead(j, lag) == jobs[j].left > lag

\* lease_expires_at > now, for a caller whose "now" is lag ticks old.
Unexpired(j, lag) == jobs[j].left > -lag

\* (mutant) the owner is not compared
LeaseCheckAnyOwner(j, w, lag) ==
    IF jobs[j].state # "leased" THEN "invalid_transition"
    ELSE IF ~Unexpired(j, lag) THEN "lease_error"
    ELSE "ok"

\* What _assert_live_lease raises for a caller that says it is w.
LeaseCheck(j, w, lag) ==
    IF jobs[j].state # "leased" THEN "invalid_transition"
    ELSE IF jobs[j].owner # w \/ ~Unexpired(j, lag) THEN "lease_error"
    ELSE "ok"

\* What heartbeat raises: SQLite's own test knows only JobLeaseError.
HeartbeatCheck(j, w, lag) ==
    IF Backend = "sqlite" /\ LeaseCheck(j, w, lag) # "ok"
    THEN "lease_error"
    ELSE LeaseCheck(j, w, lag)

\* i is served before j: higher priority first, then older.
Before(i, j) ==
    \/ jobs[i].priority > jobs[j].priority
    \/ jobs[i].priority = jobs[j].priority /\ jobs[i].created < jobs[j].created

\* (mutant) rows that are leased are handed out too
ReadyOrLeased(lag) ==
    {j \in Job : jobs[j].state \in {"queued", "leased"} /\ jobs[j].waited >= lag}

\* Queued rows a lease call can see.
Ready(lag) == {j \in Job : jobs[j].state = "queued" /\ jobs[j].waited >= lag}

\* Rows other transactions may have locked: SKIP LOCKED passes over them,
\* SQLite's BEGIN IMMEDIATE waits for them instead.
Lockable == IF Backend = "postgres" THEN SUBSET Job ELSE {{}}

Expired(lag) == {j \in Job : jobs[j].state = "leased" /\ ~Unexpired(j, lag)}

-----------------------------------------------------------------------------
\* (mutant) the key is not looked up
SubmitNoKeyLookup(j, key, priority, lag) ==
    /\ jobs[j].state = "absent"
    /\ jobs' = [jobs EXCEPT ![j] = [NoRow EXCEPT !.state = "queued", !.key = key]]

(* submit.  A key or an id that is already there is answered with its row, *)
(* or refused: no change.  created_at is the caller's "now": a submitter   *)
(* that waited for the lock may be dated before one that overtook it.      *)
Submit(j, key, priority, lag) ==
    LET newest == Cardinality(Present) + 1 IN
    /\ key = Null \/ \A i \in Job : jobs[i].key # key
    /\ jobs[j].state = "absent"
    /\ \E created \in IF lag = 0 THEN {newest} ELSE 1..newest :
          jobs' = [jobs EXCEPT ![j] =
                     [NoRow EXCEPT !.state = "queued", !.key = key,
                                   !.priority = priority, !.created = created,
                                   !.waited = lag]]

(* lease: the first ready row in the order of the queue.                   *)
Lease(j, w, ticks, lag, locked) ==
    /\ j \in Ready(lag) \ locked
    /\ \A i \in Ready(lag) \ locked : ~Before(i, j)
    /\ jobs[j].attempts < AttemptCap
    /\ jobs' = [jobs EXCEPT ![j] =
                  [@ EXCEPT !.state = "leased", !.attempts = jobs[j].attempts + 1,
                            !.owner = w, !.left = ticks - lag]]

Heartbeat(j, w, ticks, lag) ==
    /\ HeartbeatCheck(j, w, lag) = "ok"
    /\ jobs' = [jobs EXCEPT ![j] = [@ EXCEPT !.left = ticks - lag]]

\* (mutant) the owner is not reset
CancelKeepsOwner(j) ==
    /\ jobs[j].state \in {"queued", "leased"}
    /\ jobs' = [jobs EXCEPT ![j] = [@ EXCEPT !.state = "cancelled", !.cancel = TRUE]]

\* (mutant) the state is not tested
CancelAny(j) ==
    /\ jobs[j].state # "absent"
    /\ jobs' = [jobs EXCEPT ![j] =
                  [@ EXCEPT !.state = "cancelled", !.cancel = TRUE,
                            !.owner = Null, !.left = 0]]

Cancel(j) ==
    /\ jobs[j].state \in {"queued", "leased"}
    /\ jobs' = [jobs EXCEPT ![j] =
                  [@ EXCEPT !.state = "cancelled", !.cancel = TRUE,
                            !.owner = Null, !.left = 0]]

Complete(j, w, outcome, lag) ==
    /\ LeaseCheck(j, w, lag) = "ok"
    /\ jobs' = [jobs EXCEPT ![j] =
                  [@ EXCEPT !.state = "succeeded", !.result = outcome,
                            !.owner = Null, !.left = 0]]

\* (mutant) a status the schema does not know
FailMisnamed(j, w, outcome, lag) ==
    /\ LeaseCheck(j, w, lag) = "ok"
    /\ jobs' = [jobs EXCEPT ![j] =
                  [@ EXCEPT !.state = "error", !.failure = outcome,
                            !.owner = Null, !.left = 0]]

Fail(j, w, outcome, lag) ==
    /\ LeaseCheck(j, w, lag) = "ok"
    /\ jobs' = [jobs EXCEPT ![j] =
                  [@ EXCEPT !.state = "failed", !.failure = outcome,
                            !.owner = Null, !.left = 0]]

(* requeue_expired and recover: one UPDATE over every expired lease.       *)
RequeueExpired(lag) ==
    jobs' = [j \in Job |->
               IF j \in Expired(lag)
               THEN [jobs[j] EXCEPT
                       !.state = IF jobs[j].cancel THEN "cancelled" ELSE "queued",
                       !.owner = Null, !.left = 0, !.waited = lag]
               ELSE jobs[j]]

(* A tick of the clock.  Beyond MaxStall no caller can tell how long ago a *)
(* lease expired or a row became available, so both stop there.            *)
Tick ==
    jobs' = [j \in Job |->
               CASE jobs[j].state = "leased" /\ jobs[j].left > -MaxStall ->
                       [jobs[j] EXCEPT !.left = jobs[j].left - 1]
                 [] jobs[j].state = "queued" /\ jobs[j].waited < MaxStall ->
                       [jobs[j] EXCEPT !.waited = jobs[j].waited + 1]
                 [] OTHER -> jobs[j]]

-----------------------------------------------------------------------------
(* Any number of API processes and workers, calling in any order.          *)
WorkerCall(j, w, lag) ==
    \/ \E ticks \in LeaseTicks :
          \/ \E locked \in Lockable : Lease(j, w, ticks, lag, locked)
          \/ Heartbeat(j, w, ticks, lag)
    \/ \E outcome \in Outcome : Complete(j, w, outcome, lag) \/ Fail(j, w, outcome, lag)

ApiCall(j, lag) ==
    \/ \E key \in Key \cup {Null}, priority \in Priority : Submit(j, key, priority, lag)
    \/ Cancel(j)

Next ==
    \/ \E j \in Job, lag \in Lag :
          \/ ApiCall(j, lag)
          \/ \E w \in WorkerId : WorkerCall(j, w, lag)
    \/ \E lag \in Lag : RequeueExpired(lag)
    \/ Tick

Spec == Init /\ [][Next]_jobs

-----------------------------------------------------------------------------
(* Safety                                                                  *)

(* The columns of a row tell one story.  A row is leased exactly while it  *)
(* has an owner (the CHECK of 001_rigby_v2.sql), holds a result exactly if *)
(* it succeeded and a failure exactly if it failed, and has                *)
(* cancel_requested set exactly if it is cancelled, so that the worker's   *)
(* poll of that flag sees every cancellation and the "cancelled" branch of *)
(* requeue_expired is never taken.                                         *)
RowConsistent ==
    \A j \in Job :
        /\ jobs[j].state = "leased" <=> jobs[j].owner # Null
        /\ jobs[j].state = "succeeded" <=> jobs[j].result # Null
        /\ jobs[j].state = "failed" <=> jobs[j].failure # Null
        /\ jobs[j].state = "cancelled" <=> jobs[j].cancel

(* An idempotency key names at most one job, whoever submits with it.      *)
KeyNamesOneJob ==
    \A i, j \in Job : jobs[i].key = jobs[j].key /\ jobs[i].key # Null => i = j

(* A job that has ended keeps its row for ever: no late heartbeat,         *)
(* completion, cancellation or recovery of any worker changes it.          *)
EndedForGood ==
    [][\A j \in Job : jobs[j].state \in Terminal => jobs'[j] = jobs[j]]_jobs

(* A worker whose lease has time left loses it only to a cancellation or   *)
(* to its own last call, however old the "now" of the other callers is.    *)
LeaseOutlastsOthers ==
    [][\A j \in Job :
          jobs[j].state = "leased" /\ jobs[j].left > 0 =>
             \/ jobs'[j].owner = jobs[j].owner
             \/ jobs'[j].state \in Terminal]_jobs

-----------------------------------------------------------------------------
(* The table implements the job contract.                                  *)
phaseOf == [j \in Job |-> jobs[j].state]

holderOf == [j \in Job |-> jobs[j].owner]

Contract == INSTANCE JobLifecycle
    WITH phase <- phaseOf, holder <- holderOf, Nobody <- Null

ImplementsContract == Contract!Spec
=============================================================================

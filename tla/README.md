# Rigby in TLA+

Rigby turns a sentence into certified robot motion. Most of its lines are
geometry, physics and prompts, which model checking has nothing to say about.
What holds them together is small and concurrent: a durable table of simulation
jobs that several processes lease from, workers that may die at any statement,
a library of certified motions built release by release, a set of file-backed
stores that several threads and processes rewrite, and a few state machines that
decide, from whatever a model or a body answers, what happens next. Those are
the parts specified here.

Paths below are relative to `src/`; `core` is `core/src/rigby_core`, `v2` is
`humanoid/src/rigby_v2`, `poc` is `humanoid/src/rigby_poc` and `any` is
`any-robot/src/rigby_general`.

## 1. The system and its parts

    client --HTTP--> v2/app.py --submit, replay, cancel--> job table <--recover, lease,
                        |                                  (SQLite or     heartbeat, get,
                        v                                   PostgreSQL)   complete, fail-- v2/worker.py
                  artifact store <---------- scenes, rigs, traces ----------------------------+
                        ^
    v2/pipeline.py (generate five, execute, select, promote) --> library service --> PostgreSQL / memory
    poc/app.py --> pipeline run threads, gripper child processes, result folders
    any/app.py --> robot registry, primitive library, trace store (files)

| Part | State | Operations | What is hard | What makes it correct |
|---|---|---|---|---|
| **Job store** `core/jobs.py`, `core/postgres_jobs.py` | one row per job: state, lease owner and expiry, attempts, cancel flag, outcome | submit, lease, heartbeat, cancel, complete, fail, requeue_expired, recover | callers hold an old clock; leases expire while calls wait; SKIP LOCKED | an idempotency key names one job; a job ends once; a live lease is not taken away; columns agree |
| **Worker** `v2/worker.py` | the record it executes | run, run_once, execute and its handlers | another worker, the API or a crash between any two calls of the table | the last attempt decides the outcome; every job ends; a cancellation is only a cancellation |
| **v2 API** `v2/app.py` | none | submit, replay, cancel, staging, reads | retries with one key | as the job store |
| **Certified library** `v2/library/` | releases, records, embeddings | create_release, submit_candidate, promote, index_record, freeze, activate, retrieve | methods are series of transactions; processes interleave and die between them | certified means tested; what is listed is served; one active release, which does not change; N+1 is cumulative |
| **Legacy import** `v2/library/legacy.py` | records keyed by lineage | import, hydrate | find and insert are separate | one record per lineage |
| **Artifact store** `core/artifacts.py` | files named by their hash | put_bytes, put_file, read | hash and copy are separate; two puts of one digest; a death before the rename | a file's content has its name; what was referred to stays |
| **Flywheel** `v2/pipeline.py` | none; writes the library | run | stops between its library calls; reruns | a promoted record was certified and selected; a rerun is possible |
| **Best of five** `v2/selection/orchestrator.py` | none | select | ties, fallback, repair, a call budget | the winner passed the gates and leads whatever the order of the answers; at most four calls |
| **Certification** `v2/certification/` | none | evaluate a trace, three repeats | floating point | repeats agree |
| **Live benchmark** `v2/benchmark/live_runner.py` | a checkpoint file per case | run_case, run | a crash inside a stage; budgets | completed stages are not repeated; budgets hold across restarts |
| **Migrations** `v2/release/migrations.py` | the migration history | apply | two runners, two binaries | history is a prefix of the plan; each migration once |
| **Backup and restore** `v2/release/backup.py` | an archive, a directory | create, verify, restore | rows, hashes and files are read one after the other while workers put more; the archive changes after it was verified | a restored row finds its artifacts, whole |
| **Pipeline runs (demo)** `poc/pipeline.py` | run.json, a thread table | start, execute, event, get | restart; a second API process | a finished record is final; a dead run is reported dead, a live one is not |
| **Gripper runs (demo)** `poc/gripper_runs.py`, `poc/gripper/run_worker.py` | run.json, ready.json, child processes | start, get, list, abort; the child's progress and end | parent and child both rewrite run.json | the child's end is not overwritten; every run ends |
| **Result store (demo)** `poc/store.py` | a folder per result, index.json | persist, list, get | a kill between its writes | sequence numbers are unique; the index is readable |
| **Gripper planner (demo)** `poc/gripper/decision/planner.py`, `poc/gripper/runs/directed.py` | the held goal, the plan, clocks, the jaws | due, ask (expand, identify, decide), drive | replies that fail, goals that are true already, early returns | a decision is never put off for ever, nor asked for in a burst; the jaws do what was said last |
| **Cabinet task (demo)** `poc/gripper/decision/cabinet.py`, `opening.py` | the phase, the grip latch, the mechanism's search | look, advance, decide | counters read and reset by each other; a latch that outlives its grip | open means moved and then at rest; a grip is of the thing of the phase |
| **Flywheel and judge (demo)** `humanoid/evals/flywheel.py`, `poc/judge.py` | trace, rankings, a call budget | run_best_of_five, the routed model client | rounds, retries, fallbacks, files of earlier runs | a winner was itself accepted; the budget is never exceeded |
| **Tracing (demo)** `poc/observability.py`, `poc/transcript.py` | an append-only log | span, append, load | threads, a torn last line | spans have parents |
| **any-robot** `any/` | registry, primitives and traces as files | register, confirm_front, bake, run | files of one record written one by one | the files of a robot agree |
| motion, controllers, scenes, rigging, guardrails, evidence, calibration, release checklist, frontend, evals | none across calls | | numerical or textual | not for TLC |

`PROJECT.json` lists the same parts with their sources, and 40 hazards, each at
the line where it bites, with the properties that cover it or the reason none does.

## 2. Modules

    JobLifecycle            what the job contract promises (abstract)
        ^ refined by
    JobStore                the job table, one action per store method
        ^ extended by
    SimulationWorker        worker processes, API, clock and crashes over the table
    LibraryRelease          the certified library, call by call

    GripperRuns             the demo's gripper runs: API and child over two files
    PipelineRuns            the demo's pipeline runs: thread, pollers, restarts
    ResultStore             the demo's result folders and their index
    ArtifactObjects         the content-addressed store
        ^ extended by
    Backup                  backups of it, taken while it is in use, and restores
    LiveBenchmark           one case of the live benchmark and its checkpoint
    SchemaMigrations        runners of several binaries over one history
        ^ composed in MCSharedFiles

    GripperPlanner          the gripper's decision loop, frame by frame
    CabinetTask             the scripted cabinet task
    FlywheelRun             the demo's flywheel, its judge's budget, its files
    BestOfFive              the selection among blinded candidates
        ^ composed in MCDecisions

    JobStoreProofs, SimulationWorkerProofs, LibraryReleaseProofs    theorems
    ArtifactObjectsProofs   of the object store and its backups
    DemoRunProofs           of GripperRuns, PipelineRuns and ResultStore
    CheckpointProofs        of LiveBenchmark and SchemaMigrations
    DecisionProofs          of MCDecisions and its four components
    SharedFilesProofs       of MCSharedFiles, over the three before
    MCJobs                  calls of anybody, or workers, over one table, for TLC
    MCSimulationWorker, MCLibraryRelease                            constants for TLC

The modules of the last two groups share no state, Backup and ArtifactObjects apart, as the
code they model does not:
a behaviour of MCSharedFiles or MCDecisions belongs to one of them, chosen by `component`
at the start, and the others keep their initial states. One run then explores each
component alone.

Definitions marked `(mutant)` are plausible faults of the definition below them.
They are not part of the specifications: replacing the definition by the mutant
must break a named property, which shows that the property depends on that code.

### JobLifecycle

Two functions: the phase of every job and its holder. Submit, claim, release
(a set of jobs at once), cancel, finish by the holder. It has no clock: a release
may happen at any time, since a holder can always be presumed dead.

### JobStore

`jobs` is the table. Each store method is one transaction, under `BEGIN
IMMEDIATE` (SQLite) or row locks (PostgreSQL), so each is one action. A call that
raises or returns an existing row does not change the table and is not an action,
except where the caller's next step depends on the exception (`LeaseCheck`,
`HeartbeatCheck`; the two stores differ in what heartbeat raises).

Columns: `state`, `idempotency_key` (`key`), `priority`, `created_at` (`created`,
its rank), `available_at` (`waited`: for how many ticks the row has been
available), `attempts`, `lease_owner` (`owner`), `lease_expires_at` (`left`: ticks
left), `cancel_requested` (`cancel`), `result`, `failure`. Left out: the payload and
its hash, which decide only what a second submission of the same id is told, and
the columns no statement reads (`heartbeat_at`, timestamps, `max_attempts`). Every
caller passes `available_at` as now, as the API does.

Every method computes `now` before it waits for its lock. `lag` is the age of that
`now` when the rows are read, from 0 to `MaxStall`. It makes a lease possible that is
already expired when granted, a check that passes after the expiry, and a
`created_at` order that differs from the order of insertion. Times are relative, so
`Tick` keeps the state space finite without bounding the length of a behaviour.

### SimulationWorker

One process per worker id (docs/v2/operator-runbook.md:62 forbids sharing one).
`proc[w].pc` is where `run` is:

| pc | code |
|---|---|
| starting, recovering | `recover` in `run` and at the head of `run_once` |
| leasing | `lease` |
| leased | `execute` reads the row and returns if a cancellation was requested |
| preparing | loading, verifying and compiling the inputs |
| beating | the heartbeat before the simulation |
| polling, stepping | `cancel_check` at step 0 and every 24th |
| completing, reporting, failing | `complete`; `_failure` inside the `try`; `_failure` in a handler |
| lost | `except JobLeaseError` |
| raised | an exception left `run`: the process has ended |
| down | killed |

`Handler` is the `except` ladder: `JobLeaseError` has its own branch, and
`InvalidJobTransitionError` is a RuntimeError like any other, handled by storing a
failure. The API, the clock, crashes (`MaxCrashes`) and restarts interleave with all of it.
An outcome is named by the attempt that produced it, which is what fencing needs.

### LibraryRelease

`releases`, `records` and `embedded` are the tables; `call[c]` is where client `c` is
in a service method, with what it has read. The service keeps no state and each
repository call is its own transaction, so a method is several actions. `shared`
distinguishes the two deployments: with PostgreSQL processes interleave and may die
(`Abandon`), with the in-memory repository one process runs one method at a time.

| method | actions |
|---|---|
| create_release | CreateRelease, InsertRelease, ListParent, then CarryRecord and CopyEmbeddings per record |
| submit_candidate | SubmitCandidate |
| promote_for_next_release | Promote, InsertPromoted |
| index_record | IndexRecord, PutEmbedding per index |
| freeze_release | Freeze (list), then the repository's transaction: CheckFreeze (row lock, test of the proofs), CommitFreeze (certify) |
| activate_release | Activate (row lock and snapshot of its UPDATE), CommitActivate |
| retrieve | Retrieve, RankIndex per index |

`InsertUnproved` stands for code that uses the repository without the service, as
`humanoid/tests/test_v2_library.py:164` does; freezing has to refuse it. `insert_record` takes no
lock on the release, so it may come between the two statements of a freeze: `late` marks a record that
was inserted there without a proof. `RawBound` bounds the candidates and the records so staged. Left out:
legacy import and hydration, failure records, namespaces, ranking filters, distances
and fusion (which of a release's certified records are returned).

### GripperRuns

`runFile` is run.json and `marker` ready.json. Every write replaces the file with what its
writer last read and its own changes, so the model keeps each writer's copy (`childState`,
`abortState`).

| code | actions |
|---|---|
| start | StartRecord, Spawn, WritePid, WriteMarker, KeepHandle |
| get | Reap (drops the handle of an exited child) |
| run_worker's execute | ChildRead, ChildBegin or ChildTimeout, ChildProgress, ChildComplete, ChildFail; ChildDies |
| abort | AbortRead, AbortTake, AbortStop, AbortWrite |
| a reload of the API | Restart: handles and calls in progress are lost, the child lives on |

`Aborter` are the calls of abort in progress: the route is a synchronous handler, which runs in a thread of its own
(poc/app.py:223), and the lock is held only to take the handle (gripper_runs.py:205), so aborts of one run overlap.
`abortBegan` and `abortedBy` remember, for the properties, when an abort read the record. Left out: a Popen that fails, the
clip and the log.

### PipelineRuns

`run` is run.json, `thread` the entry of the run's thread, `copy[a]` what actor a holds
between the read and the write of an update. `start` is Start, Register and Launch; the thread
reads (ThreadReads) and writes (Begin, Report, Settle, RaiseEvent, Fail) under the lock of its
process and ends with Leave; `get` is Poll, then two updates (Mark, Condemn). A second server
("other") has a lock and a thread table of its own and therefore takes a live run for dead:
the model has it (`twoServers`), the properties except it. A client knows a run only when `start`
has returned, which keeps Poll out of the window between the first record and the thread's entry.

### ResultStore

`persist`, statement by statement: ReadIndex, Scan (the next number), MakeFolder, WriteFiles,
OpenIndex and WriteIndex (the index is rewritten in place, so a kill between them leaves it
torn). The lock belongs to the object, and the API and the flywheel make objects of their own,
so writers may overlap (`together`); the properties are claimed of writers that take turns.

### ArtifactObjects

A put is PutStart (the digest is taken), LookForObject, WriteTemporary and Publish; PutDies leaves
nothing but a temporary. `put_file` copies its source after hashing it: with `changing` the copy
may be of something else. A verified read is Resolve, then ReadObject.

### Backup

Two processes over the store's: one reads the job rows (ReadRows), then ListArtifacts, HashFiles, PackArchive
and PublishArchive; the other VerifyBackup, VerifyAgain, Extract and PublishRestored. Either may stop at any point
(BackupStops, RestoreStops); between any two steps workers put artifacts and refer to them (StoreStep, ReferTo), and the
archive may be damaged or removed and made again (DamageArchive, RemoveArchive). A manifest is the digests its rows
refer to and the hash of each file. PutKilled leaves `.incoming-*` among the objects; while one is there,
ListArtifacts raises, and since nothing removes it backups then fail for good. The rows restored are those `restore_backup` returns,
which are the verified ones; the copy `metadata/jobs.json` on disk, which comes from the archive as it is by then, is left out.

### LiveBenchmark

`run_case` over one case: LoadAndPreflight (or LoadBroken, when an artifact the checkpoint refers
to is gone: a blocked checkpoint that knows nothing replaces it), then per stage StartStage and one
of StageCompletes, StageBlocked, StageRaises; OutOfBudget; CaseComplete; Save. Kill loses what run_case
holds. Two things the code does are kept as they are: a lost artifact resets the budgets with the
rest, and a stage that blocks or raises has made model calls that are not counted.

### SchemaMigrations

A runner is Compare (history against its plan, before any lock), then per migration
ApplyMigration, FindOnRecord or StatementFails, each one transaction under the lock, then Return. `plans` are
the plans of the binaries in use, which may extend or contradict each other.

### GripperPlanner

One frame of `run` is Sense, a decision of `due` (DueOfAct, DueWithoutGoal, DueOfGoal), if it
asks Expand, Identify and then one of DecisionFails, StartAct, Refuse, Finish, BadReply, Adopt, and
DriveAct, DriveIdle or DriveGoal. What the body reads and what the model replies is chosen
freely. What is done with a reply after its `try` may raise out of the run (Expand, Identify, BadReply). Seconds are
frames; each clock stops where no comparison tells more apart. Left out: prompts,
memory, the goal's numbers and the search that drives the joints.

### CabinetTask

Look (the grip latch), Advance (the gate of the phase), and the command of the phase: Reach,
GripHandle, LostHandle, Pull, LetGo, BackOff, Carry, SetDown. Pull holds the whole of
observe, cast_wider and aim in the order `decide` calls them. `tried` and `quiet` are history.

### FlywheelRun

`run_best_of_five` in its three modes, over runs that share an output directory: Begin (which
may resume), per recipe Build, Score (unary mode), WriteCandidate; Batch; RankFive or PreservedRanking and Apply;
then AwaitHuman, Accept and Match, Crown, GiveUp, PrefilterRepair or Repair. `Dispatched`, `Routed` and `Compared`
are the ways a model call may end and what it costs, with retries and the fallback model. Any step may
raise or be killed (Die); a kill while the ranking file is written leaves a part of it (TearRanking), which makes this run's
successors raise when they come to read it. `sent` counts calls of the OpenAI client; what that client repeats by itself
(judge.py:1188 keeps its default retries) the code neither sees nor counts. Assumed: the judge is the combined grader.

### BestOfFive

`select`: FirstPass, SecondPass with the reasons for a fallback, then nothing, Fallback, or RepairBest
and PostRepair, then Decide. Every table of scores a judge may give is explored, and every order of its
answers that decides a tie. Only the gates constrain it. A candidate here always has the metric
`deterministic_gates_passed`, as production runners emit it; evidence without it is not vetoed, which the code does on purpose
for old fixtures (orchestrator.py:184).

## 3. What the runs check

| Run | Bounds | Properties | Result |
|---|---|---|---|
| `jobs` | 2 jobs, 2 workers, 1 key, 2 priorities, leases of 1 and 2 ticks, stall 1, 2 attempts, 1 crash, PostgreSQL, symmetric; calls of anybody, or worker processes | TypeOK, SystemTypeOK, RowConsistent, KeyNamesOneJob, Fenced, EndedForGood, LeaseOutlastsOthers, ImplementsContract | hold |
| `worker_liveness` | leases of 2 ticks, 1 crash, fair | OneWorkerPerJob, EveryJobEnds | hold |
| `cancel_kills_worker` | 2 jobs without priorities or keys, leases of 1 and 2 ticks, 1 crash | CancelledExecutionReturns | violated |
| `library` | 2 clients, 2 releases, 3 records, 2 indexes, RawBound 1, both deployments, symmetric | TypeOK, CertifiedAreProved, ManifestServed, ReleaseMovesForward, and for one process OneActiveAlone, AnswersListedAlone, CumulativeAlone | hold |
| `library_two_active` | 2 records, PostgreSQL | OneActiveRelease | violated |
| `library_late_promotion` | 3 records, PostgreSQL | ActiveReleaseImmutable | violated |
| `library_not_cumulative` | 3 records, PostgreSQL | CumulativeRelease | violated |
| `decisions` | planner: 2 goals, plan of 2 steps, 4 calls, clocks of 2 to 4 frames; cabinet: 3 casts of 3 frames; flywheel: 3 recipes, 2 ranked, 2 rounds, 2 runs, 3 calls, three modes; selection: 2 candidates, scores 0 to 2 | DecisionsTypeOK, NeverSilenced, MetGoalWaits, HandleForgotten, OpenHasStopped, WinnerEarned, CallCeiling, OrderBlind, OnlyCertifiedSelected | hold |
| `shared_files` | gripper: 2 aborts at once, 2 events, 1 reload; pipeline: 2 pollers here and 1 there, 2 events, 1 crash; store: 2 writers, 4 persists; benchmark: 3 stages, 2 attempts, 2 kills, 1 loss; migrations: 2 runners, 2 sets of binaries, 4 starts; objects: 2 contents, 2 putters; backup: 2 contents, 1 putter | SharedFilesTypeOK, ProgressKept, AbortSettles, OutcomeKept, OutcomeTold, RunSettles, OneNumberEach, IndexTells, AttemptsHeld, CompletedStands, CaseSettles, MigratedAsPlanned, ArtifactsHold, RestoredWhole | hold |
| `planner_ceiling` | 1 goal, 4 calls | HardCeiling | violated |
| `cabinet_cast_untried` | 3 casts of 3 frames | CastTried | violated |
| `gripper_abort_reload` | 2 events, 1 reload | AbortStopsChild | violated |

**jobs.** A behaviour is of one of two kinds, chosen at the start: anybody calls any method of the store in any
order, or only the processes of SimulationWorker do, whose priorities and keys are then left alone. The properties of the
table are claimed of both. `RowConsistent`: state, owner, outcome and cancel flag tell one story; in
particular `requeue_expired`'s "cancelled" branch is never taken, because `cancel` also
ends the lease. `KeyNamesOneJob`: a key never runs twice. `EndedForGood`: no late call of
any kind changes an ended row. `LeaseOutlastsOthers`: an old `now` can only make others
see *more* time left, so no caller takes a lease that has time left; the mutant that
applies the age with the other sign breaks it. `ImplementsContract`: the table refines
JobLifecycle, with phase and holder read off the row.

`Fenced`, which is about the workers: one that lost its lease and comes back after the job was
leased, cancelled or finished by another never stores its outcome over theirs, although
the table compares names and not attempts. It rests on one process per id and on a process
leasing only when it holds nothing.

**worker_liveness.** `OneWorkerPerJob` is what `PostgresJobStore` says of itself ("never ...
lets two workers own the same simulation"), while work meets its lease. `EveryJobEnds`:
whatever crashes finitely often, every queued job ends.

**cancel_kills_worker.** A job cancelled after `execute` read its row makes `complete`, `fail`
or PostgreSQL's `heartbeat` raise InvalidJobTransitionError. The RuntimeError handler treats
only JobLeaseError as a possible cancellation and calls `fail`, which raises again, out of
`run`: the process ends. The poll of the cancel flag makes this rare, not impossible.

**library.** With processes interleaving and dying, a certified record belongs to a frozen release and has its
proof, what a manifest lists is served for ever, and releases only move forward. One case has no proof:
the repository's freeze reads which staged records lack one and certifies the staged ones in a later statement
(postgres.py:143, :161), and a second process that inserts a record without a proof between the two, which takes code
that uses the repository directly, has it certified untested. `CertifiedAreProved` allows that record (`late`) and
no other; with one process there is none.
Three further properties hold while one process owns the repository, and are what the code
seems to take for granted everywhere; the three `violation` runs show what becomes of
them in PostgreSQL:

- *two active*: two activations each retire what was active before either committed;
  `active_release` then raises for every caller.
- *late promotion*: a promotion between freeze's listing and its commit is certified outside
  the manifest, and indexing it changes the answers of an active release.
- *not cumulative*: a creation that dies after its first statement, or is overtaken by a
  freeze, yields a release without its parent's records, which activates.

**decisions.** `NeverSilenced`: while calls are left, no early return of `due` can leave the arm without a decision once
`stuck_after_s` have passed. (That `due` also asks when none are left is `planner_ceiling`.) `MetGoalWaits`: naming what is already so does not start a burst of paid
calls. `HandleForgotten`:
the latch of the handle's grip does not survive into the phases of the contents. `OpenHasStopped`: the
hand lets go only of a thing that moved and then stood still for as long as every cast lasts. `WinnerEarned`:
a winner is valid, was captured and was accepted, whatever earlier runs left in the directory; in the first run over it
the verdict was given to the winner itself. In a later run the ranking file of an earlier one is applied to new candidates by
place, so that a verdict given to another may crown them. `CallCeiling`: retries, fallbacks and failed requests stay within the budget. `OrderBlind` and `OnlyCertifiedSelected`:
neither the order of answers nor a repair decides what scores and gates must.

**shared_files.** `ProgressKept` and `AbortSettles`: what the marker and the handle are for, however many aborts overlap.
A second abort finds no handle and, once the child has written, no pid; it records "aborted" at once, while the first may
wait three seconds and more for the child. The child that may still write then is always one that is being stopped. `OutcomeKept`,
`OutcomeTold` and `RunSettles`: with one server, polls condemn no live run and every run settles.
`OneNumberEach`, `IndexTells`: folders that kills left behind cost neither uniqueness nor an index that tells
the truth. `AttemptsHeld`, `CompletedStands`, `CaseSettles`: repeated calls of `run_case` neither repeat a stage nor go on for
ever. `MigratedAsPlanned`: the comparison before the lock is safe, since every statement looks again.
`ArtifactsHold`: no reader sees a part of an object or loses one it was referred to.
`RestoredWhole`: rows, hashes and files of a backup are of three different times, and the archive may be replaced under a
restore; every restored row still finds its artifacts, because rows are read first and artifacts are only added.

**planner_ceiling.** `due` compares the calls with `max_calls` only when a goal is held; without one it asks
after every retry delay, and during an act after `stuck_after_s`, whatever was spent. An ask makes up to three calls after that
one test. So a planner whose replies never become a goal goes on paying, and one that is a call short of its
budget may end two over it.

**cabinet_cast_untried.** `decide` asks `barred()`, and `cast_wider()` resets the counter `barred()` reads; `aim()`,
called next, is then told the hand is not barred and returns the old heading. Every direction
of the cast is counted and none is pushed along, so the gate says open of a thing that was pushed one way only.

**gripper_abort_reload.** The child reads run.json before it waits for the marker, so its first write drops
the pid. After a reload of the API, abort has neither handle nor pid, stops nothing and records "aborted".

### Are the bounds enough?

Two jobs and two workers are needed for order, for a second owner and for starvation; two
attempts for fencing (the old and the new owner). A stall of one tick with leases of one
and two gives leases born dead, checks that pass late, and healthy ones. One crash reaches
every place of `execute`. The library needs two releases for a parent and its child and for
two activations; three records for a certified one, its copy and a late promotion or insertion; two
indexes for a half-indexed record. PostgreSQL is the backend checked for jobs because it
allows strictly more for `lease` (SKIP LOCKED; SQLite is the case where nothing is locked);
the two heartbeats differ only in the handler reached. The proofs below are for either.
`AttemptCap` bounds the exploration: the code has no limit on attempts. The library runs do
not check deadlock: with ids exhausted, its clients may have nothing left to call.
Symmetry is used in safety runs only, over workers, clients and releases, which nothing orders.

For the other components: two aborts are one that has the handle and one that finds none; two events let a write be overtaken and overtake; one reload, crash or
loss reaches every place of the code that can be cut off, two kills a restart that is cut off again. Two
attempts are the smallest limit that allows a retry. Two writers with four persists give a killed one, its
successor and two that race. Three stages tell the last completed from the next; their
bounds 0, 1, 2 make one free and let two exceed the budget of two. Two runners and a plan of three meet
between any two migrations. Two ranked of three recipes leave one out of a batch; two rounds
and two runs allow a resume and an old ranking; three model calls are exceeded by a request, its retries and its
fallback. Two candidates with scores up to 2 contain a tie, a narrow lead (1) and a clear one (2).
Planner clocks of two, three and four frames keep the order of the code's seconds (window <= relook <= stuck),
and four calls are enough to expand, identify, decide and be out of budget. None of these
runs checks deadlock: each component comes to an end.

### Fairness

`worker_liveness` assumes, of every process: weak fairness of its steps (it runs); strong
fairness of taking a job (SKIP LOCKED passes over a row only while another transaction,
which is short, holds it); weak fairness of restarting (the operator or service manager
restarts what ended); and that time passes. `TimelyNext` lets time pass only while no lease
would run out under a live process: the heartbeat asks for ten times the motion's duration
plus thirty seconds for this purpose. Without it the code really livelocks: a
simulation longer than its budget loses its lease every time, with nothing to stop the
attempts (`max_attempts` is stored and never read).

`shared_files` assumes weak fairness of the pipeline's thread (it runs), of the pollers of the home
server (the page keeps polling while a run is live) and of calls of `run_case` (operators repeat it
until the case ends; a call gets on). A crash, a kill or a loss is never owed. Each is enabled
until it is taken or its actor is gone, so weak fairness is enough. `PipelineThread`, `PipelinePoll` and `BenchmarkCall` are these
actions for the behaviours that belong to their component.

## 4. What is proved

For all values of the constants that meet the named assumptions (finite sets of jobs,
`Null` outside the other sets, numeric ranges, two backends; `Outcome = 1..AttemptCap`
for the workers; marks such as `NoGoal` and `Missing` that are none of the values they stand
beside):

| Theorem | Statement |
|---|---|
| JobStoreProofs: TypeCorrect, Consistent, KeysUnique | `[]TypeOK`, `[]RowConsistent`, `[]KeyNamesOneJob` |
| JobStoreProofs: EndedJobsStay, LiveLeasesStay | the action properties EndedForGood, LeaseOutlastsOthers |
| JobStoreProofs: Implements | `Spec => ImplementsContract` |
| SimulationWorkerProofs: SystemTypeCorrect, OutcomesFenced | `[]SystemTypeOK`, `[]Fenced` |
| SimulationWorkerProofs: SystemUsesStore, SystemImplements | the system implements JobStore's `Spec`, and so the contract |
| SimulationWorkerProofs: OneWorker | `LeasesOutlastStalls` implies `FairSpec => []OneWorkerPerJob` |
| LibraryReleaseProofs: LibraryTypeCorrect, CertifiedOnlyWithProof, ManifestsServed, ReleasesMoveForward | `[]TypeOK`, `[]CertifiedAreProved`, `[]ManifestServed`, the action property |
| LibraryReleaseProofs: ActiveIsOne, AnswersAreListed, ReleasesAreCumulative | `[]OneActiveAlone`, `[]AnswersListedAlone`, `[]CumulativeAlone` |
| ArtifactObjectsProofs: ObjectsTypeCorrect, ArtifactsWhole | `[]ObjectsTypeOK`, `[]ArtifactsHold` |
| ArtifactObjectsProofs: BackupUsesStore, BackupsRestoreWhole | `BackupSpec => ObjectsSpec`, `[]RestoredWhole` |
| DemoRunProofs: GripperRunsTypeCorrect, AbortsSettle, ProgressStays | `[]GripperRunsTypeOK`, `[]AbortSettles`, the action property ProgressKept |
| DemoRunProofs: PipelineTypeCorrect, OutcomeIsTold, OutcomeIsKept | `[]PipelineTypeOK`, `[]OutcomeTold`, the action property OutcomeKept |
| DemoRunProofs: ResultStoreTypeCorrect, NumbersAreUnique, IndexIsTrue | `[]ResultStoreTypeOK`, `[]OneNumberEach`, `[]IndexTells` |
| CheckpointProofs: LiveBenchmarkTypeCorrect, AttemptsLimited, CompletedKept | `[]LiveBenchmarkTypeOK`, `[]AttemptsHeld`, the action property CompletedStands |
| CheckpointProofs: MigrationsTypeCorrect, MigrationsApplied | `[]MigrationsTypeOK`, `[]MigratedAsPlanned` |
| DecisionProofs: PlannerTypeCorrect, PlannerNeverSilenced, MetGoalsWait, JawsAlwaysObeyed | `[]PlannerTypeOK`, `[]NeverSilenced`, `[]MetGoalWaits`, `[]JawsObeyed` |
| DecisionProofs: CabinetTypeCorrect, HandleIsForgotten, OpenedHasStopped | `[]CabinetTypeOK`, `[]HandleForgotten`, `[]OpenHasStopped` |
| DecisionProofs: SelectionTypeCorrect, SelectedAreCertified, OrderDecidesNothing | `[]SelectionTypeOK`, `[]OnlyCertifiedSelected`, `[]OrderBlind` |
| DecisionProofs: FlywheelTypeCorrect, CeilingHolds, WinnersHaveEarned | `[]FlywheelTypeOK`, `[]CallCeiling`, `[]WinnerEarned` |
| DecisionProofs: DecisionsAreComponents, DecisionsTypeCorrect, DecisionsSafe | `DecisionsSpec` implies each component's specification, `[]DecisionsTypeOK`, all the run's invariants |
| SharedFilesProofs: SharedFilesAreComponents, SharedFilesTypeCorrect, SharedFilesSafe | the same for `SharedFilesSpec`, fairness of the parts apart |

So every invariant and every action property of a passing run is a theorem; what is left to TLC is below.

**Job store.** One lemma per method shows what it does to a row under TypeOK; the
invariants follow action by action. RowConsistent is inductive by itself with TypeOK.
Refinement maps initial state to initial state and each method to one contract step:
`RequeueExpired` to `Release(Expired(lag))`, because no expired row carries the cancel
flag (RowConsistent), heartbeats and ticks to stutters.

**Workers.** Fenced is not inductive. `FencedInv` adds SystemTypeOK, RowConsistent (a queued or
leased row has no outcome yet) and `Attached`: a working process executes an attempt of some
job, and if the row still names it as owner, the row is still at that attempt. Only `lease`
changes owner and attempts, and a process leases only when it executes nothing, so a process
that passes the owner's check is the last attempt. Every step of the system is a step of the store
or leaves the table alone, hence SystemUsesStore and, through `Implements`, SystemImplements.

OneWorkerPerJob is a property of the timed specification, and of leases that are asked for longer than
a caller's clock is old (`LeasesOutlastStalls`, a hypothesis of this theorem alone: the settings refuse a lease below five
seconds and ask for sixty, far more than a statement waits for its lock; the liveness run, which checks the
property, has such leases). `Held` strengthens it: who works on a job
has its row, leased with time left, or the row has ended. Recovery passes over such a row however old its `now`, a heartbeat
renews it, time leaves it a tick (`TimelyNext`), and a lease is only granted for a queued row, on which therefore nobody works.

**Library.** `IInv` is TypeOK; `Calls`, what a method relies on between its transactions
(`OneHolder`: no two clients activate, or freeze, one release at once, thanks to the row lock; `Rests(c)`: what
client c has read is still true of the tables); and `Sound`: `Belong` (only staged and certified
records are in a release), `CertifiedAreTested` (a certified record is proved or `late`) and ManifestServed. The steps that write the tables
preserve Sound by themselves; they disturb the `Rests` of other clients, which survive because
records never disappear, change release or parent, embeddings are only added and a release that was
activated stays so (`Grows`). A freeze that commits certifies what is staged *now*: what its test saw was proved, and what
came after the test is marked `late` if it is not. It serves what was listed *then* because nothing listed can have left.

With one process (`~shared`) nothing is inserted within a freeze (`NoneLate`), hence CertifiedAreProved; and `AloneInv` adds that one client is within a call (`OneAtATime`), and what its call has read is
still so (`Current`): the release it activates over is the active one, the records it lists are all there are. The rest says what
a call that dies leaves behind: `AtMostOneActive`; `Sealed` (the manifest of a frozen release lists all of its records);
`BareUntilInserted` (a record that is not in yet has no embeddings); `Inherits` (a release's parent was released, and each record
of its manifest is copied, or is still to be copied by the call that builds the release).
TLC found `AloneInv` true of all 4.4 million states of the library run.

**Artifact store.** ArtifactsHold needs `TemporaryHolds`: a temporary that is about to be renamed holds the content
of its digest, unless sources change. A rename then writes over an object only what was there.

**Backup.** Every step of a backup is a step of the store or leaves it alone (BackupUsesStore). `BackupInv` says what each step has
established for the next: the rows a backup read refer only to what was put by then; what it listed is still there, since
objects are only added (`StoreGrows`); an archive holds what its manifest says or cannot be read (`ArchiveSound`), whichever
archive it is; so what is extracted is what was verified. It holds for any number of putters, where the run has one.

**Gripper runs.** AbortSettles rests on `ChildHeld` (until a reload, a child whose start is over has a handle, is dead or
is being stopped by some abort) and on what the handle's fate is: an abort that began after start has start behind it
(`AbortsAfterStart`), has taken the handle or found it taken when it comes to write (`TakenForGood`), and start keeps no
other, so after its write there is no handle (`WrittenAfter`). This holds for any number of aborts. ProgressKept
rests on `ProgressKnown`: nobody knows of more progress than the child, and it makes none before the marker, which `start` writes
after its last record. It holds for any number of events and reloads.

**Pipeline runs.** With one server, `PipelineInv` says who may write. No poller of another server is at work (`NobodyElse`). The
thread is in the server's table from its registration until it has left (`ThreadListed`), so a poller within an update has seen a
thread that is gone and a run still undecided, or by now condemned by another poller (`CondemnsTheGone`). At most one
actor is between its read and its write, and what it read is what is there (`OneUpdate`). Until the thread records its
outcome the run is undecided; from then on, unless a crash cut it off, its outcome is in the file (`ThreadDecides`).
A second server breaks `NobodyElse`, and with it the rest: hence the exception in the properties.

**Result store.** `NumbersBounded`: numbers of folders are no more than the persists that got past the scan, and no index, read
or written, counts past one more. `ListedWhole`: whatever is listed, or was read as listed, is a folder with all its files.
`InTurn`, of writers that take turns: one of them is between reading the index and rewriting it, what it read is what is there, the number
it chose is above every folder's, and what was returned is listed.

**Live benchmark.** `HeldState` ties what a call holds in memory to the checkpoint it saves. `StartsCounted`: a stage was started
no more often than its attempts on record, the attempts that losses of the checkpoint may have forgotten and one for each
kill. AttemptsHeld is the arithmetic that follows.

**Migrations.** `RecordedOnce`, `PastIsRecorded` (what a runner is past in its plan is on record) and, where every plan extends the
shorter ones, `RecordedInOrder` (the history is a prefix of a plan). A runner finds under the lock what it missed before it,
which is why the comparison before the lock need not be repeated.

**Planner.** JawsObeyed (the grip force is the last reply's at the end of every frame without a direct act) is proved and not
among a run's properties, since it is inductive as it stands. NeverSilenced and MetGoalWaits follow from the type invariant and two facts: a frame that is in an ask is marked as having
asked (`AskIsMarked`), and a direct act holds no goal (`ActHasNoGoal`). NeverSilenced then is a case analysis of `due`:
each of its ways to sleep needs a clock below `stuck_after_s` or a spent budget, and a budget that is
left when the frame drives was left when it slept.

**Cabinet task.** `LetGoHolds`: from the command that lets go, to the end of the phase before the contents are gripped, nothing is
squeezed, and once a frame has been looked at nothing is latched or held.
`QuietCounted`: the frames in which nothing moved are no fewer than the casts made, each of its barred frames, and those of the
present cast, so "open" is said only after every cast has lasted.

**Selection.** `PassesSound` (who is ranked first clears the rubric), `PassesGated` (without a repair every pass clears certified candidates
only), `CallsMade` (what a repair has cost) and `Decided` (a decision is the last step and selects who leads the last pass clearly).
The type invariant bounds the calls by four for any number of candidates.

**Flywheel.** The counter equals what was sent and stays within the budget: each way a call may end counts what it sends
(`DispatchHonest`), and so do two calls in a row (`SecondHonest`), hence fallbacks and comparisons.

WinnerEarned rests on `FlywheelInv`: a pool has one candidate of each recipe, and only valid ones are ranked (`PoolSound`); in the
first run a round has no ranking before it makes one, and applies the one it made to the line it was made of (`FirstRankings`);
so whoever is accepted, a rival or champion has earned it (`ChosenEarned`): was valid and captured and passed in any run, and by
a verdict of its own in the first. That the k-th of the line is a captured candidate needs the
lemma `KthOf`, that a finite set of numbers has a k-th for each k up to its size: counting the numbers up to each is an injection
into as many numbers, and so onto them.

**Side by side.** A step of MCDecisions or MCSharedFiles is one of a component and a stutter of the others, so each
component's theorems hold of the specification that its run explores.

Model-checked only: the three liveness properties, EveryJobEnds, RunSettles and CaseSettles, whose proofs need fairness and ENABLED;
and the `violation` runs, which are counterexamples. The invariants OneWorker and SharedFilesSafe hold of specifications with fairness
but do not use it.

## 5. Plan

Modelled so far: the order in which the parts appear in section 2. Next, each with its
mutants and, where it says so, its theorem:

1. **FlywheelPipeline** over LibraryRelease: record_failure, submit, promote and index by one run,
   stopped and rerun (failure ids are hashes, so a rerun inserts one twice); the legacy import, whose find and
   insert are separate transactions.
2. **Job submission** in two steps in PostgreSQL, folded into JobStore.
3. **any-robot registry**: the files of one record written one by one under readers.

Each new module brings the theorems of its invariants. No module that is proved about declares a RECURSIVE operator.

## 6. What is not modelled

Physics, kinematics, controllers, rendering, calibration and text rules compute on floating
point numbers or strings and keep nothing between calls: `compiler.py`, `closed_loop.py` and
`planner.py` of the demo, `capture.py` of its evaluations, and most of v2's simulation, evidence and certification
are of this kind, and they are most of the repository's lines. The frontend, demos and recorded
evaluations are presentation and data. The other parts marked `not_modelled` in
`PROJECT.json` are in the plan above, or are sequential reports. Parts marked `partly` say what they leave out.

Some properties are claimed of less than everything the model can do, because the code
does not keep them beyond that: one server process for pipeline
runs, writers that take turns for results, sources that hold
still while they are put, backups included, records inserted through the service or not within a freeze for the proof of
what is certified, and the first run over a flywheel directory for the verdict of a winner. The last is less than
`humanoid/docs/vlm-flywheel.md` promises (lines 5, 41 and 62: the animation is "visually accepted", and "missing evidence [...] is never converted into a pass");
a later run over the same directory can crown a candidate no judge has seen.
Other exceptions are stated in the properties themselves.

Outside the prover: liveness and ENABLED, and induction over recursive definitions.

## 7. Running

    tlc -workers 2 -config MCJobs.cfg MCJobs
    tlc -workers 2 -config MCLibrary.cfg MCLibraryRelease
    tlc -workers 2 -config MCDecisions.cfg MCDecisions
    tlapm LibraryReleaseProofs.tla

`PROJECT.json` names the module, configuration and expected result of every run. The longest
runs are `library`, under three minutes, and `worker_liveness`, about two and a half; the longest proof is DecisionProofs, about two minutes.

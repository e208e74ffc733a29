----------------------------- MODULE MCSharedFiles -----------------------------
(***************************************************************************)
(* The components that keep their state in files or tables which processes *)
(* share and die over.  They do not interact, so each is explored by       *)
(* itself: a behaviour belongs to one of them, chosen at the start.        *)
(***************************************************************************)
EXTENDS GripperRuns, PipelineRuns, ResultStore, LiveBenchmark, SchemaMigrations, Backup

VARIABLE component
sharedFileVars == <<gripperVars, pipelineVars, storeVars, benchVars, migrationVars, backupVars, component>>

BoundOfStages == <<0, 1, 2>>

Migrates(version, checksum) == [version |-> version, checksum |-> checksum]
Base == <<Migrates(1, "a")>>
Longer == Append(Base, Migrates(2, "b"))
\* Three releases of one line; and two that disagree, with one that skips.
ReleasesTogether ==
    {{Base, Longer, Append(Longer, Migrates(3, "c"))},
     {Longer, Append(Base, Migrates(2, "x")), Append(Base, Migrates(3, "c"))}}

SharedFilesInit ==
    /\ GripperRunsInit /\ PipelineInit /\ ResultStoreInit /\ LiveBenchmarkInit
    /\ MigrationsInit /\ BackupInit
    /\ component \in {"gripper runs", "pipeline runs", "result store", "benchmark",
                      "migrations", "objects", "backup"}
    \* a component that takes no step is in one of its initial states only
    /\ component # "pipeline runs" => ~twoServers
    /\ component # "result store" => ~together
    /\ component # "migrations" => Nested
    /\ component \notin {"objects", "backup"} => ~changing

StepOfGripperRuns ==
    /\ component = "gripper runs" /\ GripperRunsNext
    /\ UNCHANGED <<pipelineVars, storeVars, benchVars, migrationVars, backupVars, component>>
StepOfPipelineRuns ==
    /\ component = "pipeline runs" /\ PipelineNext
    /\ UNCHANGED <<gripperVars, storeVars, benchVars, migrationVars, backupVars, component>>
StepOfResultStore ==
    /\ component = "result store" /\ StoreNext
    /\ UNCHANGED <<gripperVars, pipelineVars, benchVars, migrationVars, backupVars, component>>
StepOfBenchmark ==
    /\ component = "benchmark" /\ LiveBenchmarkNext
    /\ UNCHANGED <<gripperVars, pipelineVars, storeVars, migrationVars, backupVars, component>>
StepOfMigrations ==
    /\ component = "migrations" /\ MigrationsNext
    /\ UNCHANGED <<gripperVars, pipelineVars, storeVars, benchVars, backupVars, component>>
StepOfObjects ==    \* the store alone, with every putter
    /\ component = "objects" /\ StoreStep
    /\ UNCHANGED <<gripperVars, pipelineVars, storeVars, benchVars, migrationVars, component>>
\* Under a backup one process puts, one content after the other.
OnlyPutter == CHOOSE p \in Putter : TRUE
StepOfBackup ==
    /\ component = "backup" /\ BackupNext
    /\ \A p \in Putter \ {OnlyPutter} : putting'[p] = putting[p]
    /\ UNCHANGED <<gripperVars, pipelineVars, storeVars, benchVars, migrationVars, component>>

SharedFilesNext ==
    \/ StepOfGripperRuns \/ StepOfPipelineRuns \/ StepOfResultStore
    \/ StepOfBenchmark \/ StepOfMigrations \/ StepOfObjects \/ StepOfBackup

\* The fairness of PipelineSpec and LiveBenchmarkSpec, for the behaviours that
\* belong to these components.
PipelineThread == component = "pipeline runs" /\ ThreadStep
PipelinePoll(p) == component = "pipeline runs" /\ PollStep(p)
BenchmarkCall == component = "benchmark" /\ RunCase

SharedFilesSpec ==
    /\ SharedFilesInit /\ [][SharedFilesNext]_sharedFileVars
    /\ WF_pipelineVars(PipelineThread)
    /\ \A p \in HomePoller : WF_pipelineVars(PipelinePoll(p))
    /\ WF_benchVars(BenchmarkCall)

SharedFilesTypeOK ==
    /\ GripperRunsTypeOK /\ PipelineTypeOK /\ ResultStoreTypeOK /\ LiveBenchmarkTypeOK
    /\ MigrationsTypeOK /\ BackupTypeOK
=============================================================================

-------------------------- MODULE SharedFilesProofs --------------------------
(***************************************************************************)
(* The components that keep their state in files or tables, side by side:  *)
(* a step of one leaves what the others' invariants speak of.              *)
(***************************************************************************)
EXTENDS MCSharedFiles, DemoRunProofs, CheckpointProofs, ArtifactObjectsProofs

SharedFilesInv ==
    /\ GripperRunsTypeOK /\ PipelineInv /\ ResultStoreInv /\ LiveBenchmarkInv
    /\ MigrationsInv /\ BackupInv

\* A step of one component is no step of the others.
LEMMA SharedFilesStep == SharedFilesInv /\ [SharedFilesNext]_sharedFileVars => SharedFilesInv'
  <1> SUFFICES ASSUME SharedFilesInv, [SharedFilesNext]_sharedFileVars PROVE SharedFilesInv'
    OBVIOUS
  <1>1. /\ [GripperRunsNext]_gripperVars /\ [PipelineNext]_pipelineVars /\ [StoreNext]_storeVars
        /\ [LiveBenchmarkNext]_benchVars /\ [MigrationsNext]_migrationVars
        /\ StoreStep \/ [BackupNext]_backupVars
    BY DEF SharedFilesNext, StepOfGripperRuns, StepOfPipelineRuns, StepOfResultStore,
           StepOfBenchmark, StepOfMigrations, StepOfObjects, StepOfBackup, sharedFileVars
  <1> QED
    BY <1>1, TypeStep, PipelineStep, ResultStoreStep, LiveBenchmarkStep, MigrationsStep,
       BackupStep DEF SharedFilesInv, BackupNext

\* Every component starts with its own invariant.
LEMMA SharedFilesStart == SharedFilesInit => SharedFilesInv
  BY TypeStart, PipelineStart, ResultStoreStart, LiveBenchmarkStart, MigrationsStart,
     BackupStart DEF SharedFilesInit, SharedFilesInv

\* The runs' files, the result store, the benchmark's checkpoint, the
\* migrations, the objects and their backups keep their types, whatever
\* starts, dies, is lost or is served twice, for any bounds.
THEOREM SharedFilesTypeCorrect == SharedFilesSpec => []SharedFilesTypeOK
  <1>1. SharedFilesInv => SharedFilesTypeOK
    BY DEF SharedFilesInv, SharedFilesTypeOK, PipelineInv, ResultStoreInv, LiveBenchmarkInv,
           MigrationsInv, BackupInv
  <1> QED
    BY <1>1, SharedFilesStart, SharedFilesStep, PTL DEF SharedFilesSpec

\* What is proved of each component by itself holds of it here: its part of
\* the state moves by its own steps alone, from its own initial states.
THEOREM SharedFilesAreComponents ==
  SharedFilesSpec =>
    /\ GripperRunsSpec /\ StoreSpec /\ MigrationsSpec /\ BackupSpec
    /\ PipelineInit /\ [][PipelineNext]_pipelineVars
    /\ LiveBenchmarkInit /\ [][LiveBenchmarkNext]_benchVars
  <1>1. SharedFilesInit => /\ GripperRunsInit /\ ResultStoreInit /\ MigrationsInit /\ BackupInit
                           /\ PipelineInit /\ LiveBenchmarkInit
    BY DEF SharedFilesInit
  <1>2. [SharedFilesNext]_sharedFileVars =>
          /\ [GripperRunsNext]_gripperVars /\ [StoreNext]_storeVars
          /\ [MigrationsNext]_migrationVars /\ [BackupNext]_backupVars
          /\ [PipelineNext]_pipelineVars /\ [LiveBenchmarkNext]_benchVars
    BY DEF SharedFilesNext, StepOfGripperRuns, StepOfPipelineRuns, StepOfResultStore,
           StepOfBenchmark, StepOfMigrations, StepOfObjects, StepOfBackup, sharedFileVars, BackupNext
  <1> QED
    BY <1>1, <1>2, PTL DEF SharedFilesSpec, GripperRunsSpec, StoreSpec, MigrationsSpec, BackupSpec

\* So all that the run over these components checks of their states holds for
\* every value of the constants.
THEOREM SharedFilesSafe ==
  SharedFilesSpec => [](/\ SharedFilesTypeOK /\ AbortSettles /\ OutcomeTold
                        /\ OneNumberEach /\ IndexTells /\ AttemptsHeld
                        /\ MigratedAsPlanned /\ ArtifactsHold /\ RestoredWhole)
  <1>1. PipelineInit /\ [][PipelineNext]_pipelineVars => []OutcomeTold
    <2>1. PipelineInv => OutcomeTold
      BY DEF PipelineInv, OneServer, ThreadDecides, OutcomeTold
    <2> QED
      BY <2>1, PipelineStart, PipelineStep, PTL
  <1>2. LiveBenchmarkInit /\ [][LiveBenchmarkNext]_benchVars => []AttemptsHeld
    BY LiveBenchmarkStart, LiveBenchmarkStep, InvHoldsAttempts, PTL
  <1> QED
    BY <1>1, <1>2, SharedFilesTypeCorrect, SharedFilesAreComponents, AbortsSettle, NumbersAreUnique,
       IndexIsTrue, MigrationsApplied, BackupUsesStore, ArtifactsWhole, BackupsRestoreWhole, PTL
=============================================================================

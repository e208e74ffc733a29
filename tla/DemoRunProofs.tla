--------------------------- MODULE DemoRunProofs ---------------------------
(***************************************************************************)
(* What is proved of the demo's runs on disk, for any number of progress   *)
(* events, of restarts, of pollers and of results.                         *)
(*                                                                         *)
(* GripperRuns: a run that an abort within one API process has recorded as *)
(* aborted has no child that nobody stops, however aborts overlap, and the *)
(* start never takes back what the child has reported.                     *)
(*                                                                         *)
(* PipelineRuns: with one server, what a finished thread left in run.json  *)
(* is what is told, and it is never overwritten.                           *)
(*                                                                         *)
(* ResultStore: with persists that take their turn, every result has a     *)
(* number of its own and the index tells of whole folders only.            *)
(***************************************************************************)
EXTENDS GripperRuns, PipelineRuns, ResultStore, FiniteSetTheorems, TLAPS

-----------------------------------------------------------------------------
(* GripperRuns: the record.                                                *)

Record == RunRecord \cup {NoFile}

\* The shape of a record, whatever its status.
Shape == [status : {"absent", "queued", "running"} \cup Ended, pid : BOOLEAN, progress : 0..MaxProgress]

\* There is no progress where there is no file.
LEMMA NoFileProgress == NoFile \in Shape /\ NoFile.progress = 0
  <1>1. 0 \in 0..MaxProgress
    BY GripperRunsAssumption
  <1>2. NoFile.progress = 0
    BY DEF NoFile
  <1> QED
    BY <1>1, <1>2 DEF NoFile, Shape

\* Every record has the shape of one.
LEMMA RecordShape == ASSUME NEW r \in Record PROVE r \in Shape
  <1>1. CASE r \in RunRecord
    BY <1>1 DEF RunRecord, Shape
  <1>2. CASE r = NoFile
    BY <1>2, NoFileProgress
  <1> QED
    BY <1>1, <1>2 DEF Record

\* A record with another status is a record.
LEMMA SetStatus ==
  ASSUME NEW r \in Record, NEW s \in {"queued", "running"} \cup Ended
  PROVE  [r EXCEPT !.status = s] \in RunRecord /\ [r EXCEPT !.status = s].progress = r.progress
  BY RecordShape DEF Shape, RunRecord

\* Progress is a number up to its bound.
LEMMA ProgressType ==
  ASSUME NEW r \in Record PROVE r.progress \in 0..MaxProgress
  BY RecordShape DEF Shape

\* What a write of the child leaves in the file and in its copy.
LEMMA ChildWriteTells ==
  ASSUME GripperRunsTypeOK,
         NEW next, NEW status \in {"running", "failed", "completed"},
         NEW told \in 0..MaxProgress, ChildWrite(next, status, told)
  PROVE  /\ childState' \in RunRecord /\ runFile' = childState'
         /\ runFile'.status = status /\ childState'.progress = told
  <1>1. childState \in Shape
    BY RecordShape DEF GripperRunsTypeOK, Record
  <1>2. /\ childState' = [childState EXCEPT !.status = status, !.progress = told]
        /\ runFile' = childState'
    BY DEF ChildWrite
  <1>3. childState' \in RunRecord
    BY <1>1, <1>2 DEF Shape, RunRecord, Ended
  <1>4. childState'.status = status
    BY <1>1, <1>2 DEF Shape
  <1>5. childState'.progress = told
    BY <1>1, <1>2 DEF Shape
  <1> QED
    BY <1>2, <1>3, <1>4, <1>5

\* The child's four kinds of write keep the types.
LEMMA ChildWriteType ==
  ASSUME GripperRunsTypeOK,
         NEW next \in {"act", "dead"}, NEW status \in {"running", "failed", "completed"},
         NEW told \in 0..MaxProgress, ChildWrite(next, status, told)
  PROVE  GripperRunsTypeOK'
  <1>1. childState' \in RunRecord
    BY ChildWriteTells
  <1> QED
    BY <1>1 DEF GripperRunsTypeOK, ChildWrite, abortVars

-----------------------------------------------------------------------------
(* Types.                                                                  *)

\* The start is well typed.
LEMMA TypeStart == ASSUME GripperRunsInit PROVE GripperRunsTypeOK
  <1> USE DEF GripperRunsInit
  <1>1. /\ runFile \in RunRecord \cup {NoFile} /\ childState \in RunRecord \cup {NoFile}
    OBVIOUS
  <1>3. /\ aborting \in [Aborter -> {"idle", "take", "stop", "write"}]
        /\ abortState \in [Aborter -> RunRecord \cup {NoFile}]
        /\ abortBegan \in [Aborter -> Beginning] /\ abortedBy \in Beginning
    BY DEF OfEach, Beginning
  <1>2. restarts \in 0..MaxRestarts
    BY GripperRunsAssumption
  <1> QED
    BY <1>1, <1>2, <1>3 DEF GripperRunsTypeOK

\* A step of start, or of get.
StartStep == StartRecord \/ Spawn \/ WritePid \/ WriteMarker \/ KeepHandle \/ Reap
\* A step of the child that writes the record.
ChildWrites == ChildBegin \/ ChildTimeout \/ ChildProgress \/ ChildComplete \/ ChildFail

\* What a writing child does, as one of its four kinds of write.
LEMMA ChildWritesAre ==
  ASSUME GripperRunsTypeOK, ChildWrites
  PROVE  /\ child \in {"wait", "act"}
         /\ \E next \in {"act", "dead"}, status \in {"running", "failed", "completed"},
               told \in 0..MaxProgress :
                 /\ ChildWrite(next, status, told)
                 /\ told >= childState.progress
                 /\ next = "act" => child = "act" \/ marker
                 /\ child = "wait" => told = childState.progress
  <1>1. childState.progress \in 0..MaxProgress
    BY ProgressType DEF GripperRunsTypeOK, Record
  <1>2. CASE ChildBegin
    BY <1>1, <1>2 DEF ChildBegin
  <1>3. CASE ChildTimeout
    BY <1>1, <1>3 DEF ChildTimeout
  <1>4. CASE ChildProgress
    <2>1. childState.progress + 1 \in 0..MaxProgress
      BY <1>1, <1>4, GripperRunsAssumption DEF ChildProgress
    <2> QED
      BY <1>1, <1>4, <2>1, GripperRunsAssumption DEF ChildProgress
  <1>5. CASE ChildComplete
    BY <1>1, <1>5 DEF ChildComplete
  <1>6. CASE ChildFail
    BY <1>1, <1>6 DEF ChildFail
  <1> QED
    BY <1>2, <1>3, <1>4, <1>5, <1>6 DEF ChildWrites

\* Every step keeps the types.
LEMMA TypeStep == GripperRunsTypeOK /\ [GripperRunsNext]_gripperVars => GripperRunsTypeOK'
  <1> SUFFICES ASSUME GripperRunsTypeOK, [GripperRunsNext]_gripperVars PROVE GripperRunsTypeOK'
    OBVIOUS
  <1>1. CASE StartRecord \/ WritePid
    <2>1. runFile' \in RunRecord
      <3>1. 0 \in 0..MaxProgress
        BY GripperRunsAssumption
      <3>2. /\ [status |-> "queued", pid |-> FALSE, progress |-> 0] \in RunRecord
            /\ [status |-> "running", pid |-> TRUE, progress |-> 0] \in RunRecord
        BY <3>1 DEF RunRecord
      <3> QED
        BY <1>1, <3>2 DEF StartRecord, WritePid
    <2> QED
      BY <1>1, <2>1 DEF StartRecord, WritePid, GripperRunsTypeOK, childVars, abortVars
  <1>8. CASE Spawn \/ WriteMarker \/ KeepHandle \/ Reap
    BY <1>8 DEF Spawn, WriteMarker, KeepHandle, Reap, GripperRunsTypeOK, childVars, abortVars
  <1>2. CASE ChildWrites
    BY <1>2, ChildWritesAre, ChildWriteType
  <1>3. CASE ChildRead \/ ChildDies
    BY <1>3 DEF ChildRead, ChildDies, GripperRunsTypeOK, startVars, abortVars
  <1>4. ASSUME NEW a \in Aborter, AbortRead(a) \/ AbortTake(a) \/ AbortStop(a)
        PROVE  GripperRunsTypeOK'
    <2>1. CASE AbortRead(a)
      BY <2>1 DEF AbortRead, AbortGoes, GripperRunsTypeOK, Beginning, startVars, childVars
    <2>2. CASE AbortTake(a)
      BY <2>2 DEF AbortTake, AbortGoes, GripperRunsTypeOK
    <2>3. CASE AbortStop(a)
      BY <2>3 DEF AbortStop, AbortGoes, GripperRunsTypeOK, startVars
    <2> QED
      BY <1>4, <2>1, <2>2, <2>3
  <1>5. ASSUME NEW a \in Aborter, AbortWrite(a) PROVE GripperRunsTypeOK'
    <2>1. runFile' \in RunRecord
      BY <1>5, SetStatus DEF AbortWrite, GripperRunsTypeOK, Record, Ended
    <2> QED
      BY <1>5, <2>1 DEF AbortWrite, AbortGoes, GripperRunsTypeOK, Beginning, childVars
  <1>6. CASE Restart
    <2>1. restarts' \in 0..MaxRestarts
      BY <1>6, GripperRunsAssumption DEF Restart, GripperRunsTypeOK
    <2>2. starting' \in {"idle", "done"}
      BY <1>6 DEF Restart
    <2>3. /\ aborting' \in [Aborter -> {"idle", "take", "stop", "write"}]
          /\ abortState' \in [Aborter -> RunRecord \cup {NoFile}]
          /\ abortBegan' \in [Aborter -> Beginning]
      BY <1>6 DEF Restart, OfEach, Beginning
    <2> QED
      BY <1>6, <2>1, <2>2, <2>3 DEF Restart, GripperRunsTypeOK, childVars
  <1>7. CASE UNCHANGED gripperVars
    BY <1>7 DEF gripperVars, GripperRunsTypeOK
  <1> QED
    BY <1>1, <1>2, <1>3, <1>4, <1>5, <1>6, <1>7, <1>8
    DEF GripperRunsNext, ChildWrites, AbortStep

\* Record, marker, processes and calls stay well typed.
THEOREM GripperRunsTypeCorrect == GripperRunsSpec => []GripperRunsTypeOK
  <1>1. GripperRunsInit => GripperRunsTypeOK
    BY TypeStart
  <1> QED
    BY <1>1, TypeStep, PTL DEF GripperRunsSpec

-----------------------------------------------------------------------------
(* Aborts.                                                                 *)

\* A child of the API process that started it is one it can stop, or is
\* stopping.
ChildHeld ==
    starting = "done" /\ restarts = 0 => handle \/ ~Alive \/ \E a \in Aborter : aborting[a] = "stop"

\* An abort that began after start has start behind it, and the API it began
\* in still there.
AbortsAfterStart ==
    \A a \in Aborter : abortBegan[a] = "same" => starting = "done" /\ restarts = 0

\* Such an abort has taken the handle before it stops or writes, or found it
\* taken; and start, which is over, keeps no other.
TakenForGood ==
    \A a \in Aborter : abortBegan[a] = "same" /\ aborting[a] \in {"stop", "write"} => ~handle
WrittenAfter == restarts = 0 /\ abortedBy = "same" => starting = "done" /\ ~handle

AbortInv == GripperRunsTypeOK /\ ChildHeld /\ AbortsAfterStart /\ TakenForGood /\ WrittenAfter

\* No child without a handle works on but one that is being stopped.
LEMMA InvSettles == AbortInv => AbortSettles
  BY DEF AbortInv, ChildHeld, WrittenAfter, AbortSettles

\* A step of one abort keeps the invariant.
LEMMA AbortKeepsInv ==
  ASSUME AbortInv, NEW a \in Aborter, AbortStep(a), GripperRunsTypeOK' PROVE AbortInv'
  <1> USE DEF AbortInv
  <1>1. \A b \in Aborter : b # a => aborting'[b] = aborting[b] /\ abortBegan'[b] = abortBegan[b]
    BY DEF AbortStep, AbortRead, AbortTake, AbortStop, AbortWrite, AbortGoes, GripperRunsTypeOK
  <1>2. starting' = starting /\ restarts' = restarts
    BY DEF AbortStep, AbortRead, AbortTake, AbortStop, AbortWrite, startVars
  <1>3. CASE AbortRead(a)
    <2>1. /\ aborting[a] = "idle" /\ aborting'[a] = "take"
          /\ abortBegan'[a] = "same" => starting = "done" /\ restarts = 0
      BY <1>3 DEF AbortRead, AbortGoes, GripperRunsTypeOK
    <2>2. UNCHANGED <<child, handle, abortedBy>>
      BY <1>3 DEF AbortRead, startVars, childVars
    <2> QED
      BY <1>1, <1>2, <2>1, <2>2
      DEF ChildHeld, AbortsAfterStart, TakenForGood, WrittenAfter, Alive
  <1>4. CASE AbortTake(a)
    <2>1. /\ aborting[a] = "take" /\ aborting'[a] = IF handle THEN "stop" ELSE "write"
          /\ abortBegan' = abortBegan /\ abortedBy' = abortedBy
      BY <1>4 DEF AbortTake, AbortGoes, GripperRunsTypeOK
    <2>2. ~handle' /\ child' \in {child, "dead"}
      BY <1>4 DEF AbortTake
    <2>3. ChildHeld'
      BY <1>1, <1>2, <2>1, <2>2 DEF ChildHeld, Alive
    <2> QED
      BY <1>2, <2>1, <2>2, <2>3 DEF AbortsAfterStart, TakenForGood, WrittenAfter
  <1>5. CASE AbortStop(a)
    <2>1. /\ aborting[a] = "stop" /\ child' = "dead"
          /\ UNCHANGED <<handle, abortBegan, abortedBy>>
      BY <1>5 DEF AbortStop, startVars
    <2> QED
      BY <1>1, <1>2, <2>1 DEF ChildHeld, AbortsAfterStart, TakenForGood, WrittenAfter, Alive
  <1>6. CASE AbortWrite(a)
    <2>1. /\ aborting[a] = "write" /\ aborting'[a] = "idle" /\ abortBegan'[a] = "early"
          /\ abortedBy' = abortBegan[a] /\ UNCHANGED <<child, handle>>
      BY <1>6 DEF AbortWrite, AbortGoes, GripperRunsTypeOK, childVars
    <2> QED
      BY <1>1, <1>2, <2>1 DEF ChildHeld, AbortsAfterStart, TakenForGood, WrittenAfter, Alive
  <1> QED
    BY <1>3, <1>4, <1>5, <1>6 DEF AbortStep

\* Every step keeps the invariant of aborts.
LEMMA AbortInvStep == AbortInv /\ [GripperRunsNext]_gripperVars => AbortInv'
  <1> SUFFICES ASSUME AbortInv, [GripperRunsNext]_gripperVars PROVE AbortInv'
    OBVIOUS
  <1> USE DEF AbortInv
  <1>0. GripperRunsTypeOK'
    BY TypeStep
  <1>1. CASE StartStep
    BY <1>0, <1>1
    DEF StartStep, StartRecord, Spawn, WritePid, WriteMarker, KeepHandle, Reap,
        ChildHeld, AbortsAfterStart, TakenForGood, WrittenAfter, Alive, childVars, abortVars
  <1>2. CASE ChildWrites
    <2>1. PICK next \in {"act", "dead"}, status \in {"running", "failed", "completed"},
               told \in 0..MaxProgress : ChildWrite(next, status, told)
      BY <1>2, ChildWritesAre
    <2>2. Alive
      BY <1>2, ChildWritesAre DEF Alive
    <2> QED
      BY <1>0, <2>1, <2>2
      DEF ChildWrite, ChildHeld, AbortsAfterStart, TakenForGood, WrittenAfter, abortVars
  <1>3. CASE ChildRead \/ ChildDies
    BY <1>0, <1>3
    DEF ChildRead, ChildDies, ChildHeld, AbortsAfterStart, TakenForGood, WrittenAfter, Alive,
        startVars, abortVars
  <1>4. ASSUME NEW a \in Aborter, AbortStep(a) PROVE AbortInv'
    BY <1>0, <1>4, AbortKeepsInv
  <1>5. CASE Restart
    <2>1. restarts' # 0
      BY <1>5, GripperRunsAssumption DEF Restart, GripperRunsTypeOK
    <2>2. \A a \in Aborter : abortBegan'[a] = "early"
      BY <1>5 DEF Restart, OfEach
    <2> QED
      BY <1>0, <2>1, <2>2 DEF ChildHeld, AbortsAfterStart, TakenForGood, WrittenAfter
  <1>6. CASE UNCHANGED gripperVars
    BY <1>0, <1>6 DEF gripperVars, ChildHeld, AbortsAfterStart, TakenForGood, WrittenAfter, Alive
  <1> QED
    BY <1>1, <1>2, <1>3, <1>4, <1>5, <1>6 DEF GripperRunsNext, StartStep, ChildWrites

\* Once an abort that began after start has been recorded within one API
\* process, no child is left that could write over it but one another abort
\* is stopping, however many aborts overlap (abort, execute).
THEOREM AbortsSettle == GripperRunsSpec => []AbortSettles
  <1>1. GripperRunsInit => AbortInv
    BY TypeStart
    DEF GripperRunsInit, OfEach, AbortInv, ChildHeld, AbortsAfterStart, TakenForGood, WrittenAfter
  <1> QED
    BY <1>1, InvSettles, AbortInvStep, PTL DEF GripperRunsSpec

-----------------------------------------------------------------------------
(* Progress.                                                               *)

\* Nobody knows of more progress than the child, and there is none before
\* the marker, which start writes after the record with the pid.
ProgressKnown ==
    /\ runFile.progress <= childState.progress
    /\ \A a \in Aborter : abortState[a].progress <= childState.progress
    /\ child \in {"none", "read"} \/ ~marker => childState.progress = 0
    /\ starting \in {"idle", "spawn", "pid", "marker"} => ~marker
    /\ child = "act" => marker

ProgressInv == GripperRunsTypeOK /\ ProgressKnown

\* The copies of the record have numbers for their progress.
LEMMA Numbers ==
  ASSUME GripperRunsTypeOK
  PROVE  /\ runFile.progress \in Nat /\ childState.progress \in Nat
         /\ \A a \in Aborter : abortState[a].progress \in Nat
  BY ProgressType, GripperRunsAssumption DEF GripperRunsTypeOK, Record

\* Every step keeps what is known of progress, and but for the write of an
\* abort takes none back.
LEMMA ProgressStep ==
  ASSUME ProgressInv, [GripperRunsNext]_gripperVars
  PROVE  /\ ProgressInv'
         /\ runFile'.progress < runFile.progress => \E a \in Aborter : AbortWrite(a)
  <1> USE DEF ProgressInv
  <1>0. GripperRunsTypeOK'
    BY TypeStep
  <1>a. /\ runFile.progress \in Nat /\ childState.progress \in Nat
        /\ runFile'.progress \in Nat /\ childState'.progress \in Nat
        /\ \A a \in Aborter : abortState[a].progress \in Nat /\ abortState'[a].progress \in Nat
    <2>1. runFile' \in Record /\ childState' \in Record
      BY <1>0 DEF GripperRunsTypeOK, Record
    <2>2. \A a \in Aborter : abortState'[a] \in Record
      BY <1>0 DEF GripperRunsTypeOK, Record
    <2> QED
      BY Numbers, <2>1, <2>2, ProgressType, GripperRunsAssumption
  <1>1. CASE StartRecord \/ WritePid
    <2>1. runFile'.progress = 0 /\ runFile.progress = 0
      BY <1>1, <1>a DEF StartRecord, WritePid, ProgressKnown
    <2> QED
      BY <1>0, <1>1, <1>a, <2>1
      DEF StartRecord, WritePid, ProgressKnown, childVars, abortVars
  <1>2. CASE Spawn \/ WriteMarker \/ KeepHandle \/ Reap
    BY <1>0, <1>2, <1>a
    DEF Spawn, WriteMarker, KeepHandle, Reap, ProgressKnown, Alive, childVars, abortVars
  <1>3. CASE ChildRead
    <2>1. child = "read" /\ child' = "wait" /\ childState' = runFile
      BY <1>3 DEF ChildRead
    <2>2. UNCHANGED <<startVars, abortState>>
      BY <1>3 DEF ChildRead, abortVars
    <2>3. childState.progress = 0 /\ runFile.progress = 0
      BY <1>a, <2>1 DEF ProgressKnown
    <2> QED
      BY <1>0, <1>a, <2>1, <2>2, <2>3 DEF ProgressKnown, startVars
  <1>4. CASE ChildWrites
    <2>1. PICK next \in {"act", "dead"}, status \in {"running", "failed", "completed"},
               told \in 0..MaxProgress :
                 /\ ChildWrite(next, status, told)
                 /\ told >= childState.progress
                 /\ next = "act" => child = "act" \/ marker
                 /\ child = "wait" => told = childState.progress
      BY <1>4, ChildWritesAre
    <2>2. childState'.progress = told /\ runFile' = childState'
      BY <2>1, ChildWriteTells
    <2>3. child \in {"wait", "act"}
      BY <1>4, ChildWritesAre
    <2> QED
      BY <1>0, <1>a, <2>1, <2>2, <2>3 DEF ChildWrite, ProgressKnown, abortVars
  <1>5. CASE ChildDies
    BY <1>0, <1>5, <1>a DEF ChildDies, ProgressKnown, startVars, abortVars
  <1>6. ASSUME NEW a \in Aborter, AbortRead(a) \/ AbortTake(a) \/ AbortStop(a)
        PROVE  ProgressInv' /\ runFile'.progress >= runFile.progress
    <2>1. runFile' = runFile /\ UNCHANGED <<marker, starting, childState>>
      BY <1>6 DEF AbortRead, AbortTake, AbortStop, startVars, childVars
    <2>2. child' \in {child, "dead"}
      BY <1>6 DEF AbortRead, AbortTake, AbortStop, childVars
    <2>3. \A b \in Aborter : abortState'[b] \in {abortState[b], runFile}
      BY <1>6 DEF AbortRead, AbortTake, AbortStop, GripperRunsTypeOK
    <2>4. \A b \in Aborter : abortState'[b].progress <= childState'.progress
      BY <2>1, <2>3 DEF ProgressKnown
    <2> QED
      BY <1>0, <1>a, <2>1, <2>2, <2>4 DEF ProgressKnown
  <1>7. ASSUME NEW a \in Aborter, AbortWrite(a) PROVE ProgressInv'
    <2>1. runFile'.progress = abortState[a].progress
      BY <1>7, SetStatus DEF AbortWrite, GripperRunsTypeOK, Record, Ended
    <2>2. \A b \in Aborter : abortState'[b] \in {abortState[b], NoFile}
      BY <1>7 DEF AbortWrite, GripperRunsTypeOK
    <2>3. \A b \in Aborter : abortState'[b].progress <= childState.progress
      BY <1>a, <2>2, NoFileProgress DEF ProgressKnown
    <2>4. UNCHANGED <<marker, starting, child, childState>>
      BY <1>7 DEF AbortWrite, childVars
    <2> QED
      BY <1>0, <2>1, <2>3, <2>4 DEF ProgressKnown
  <1>8. CASE Restart
    <2>1. \A a \in Aborter : abortState'[a].progress = 0
      BY <1>8, NoFileProgress DEF Restart, OfEach
    <2>2. /\ UNCHANGED <<runFile, marker, child, childState>>
          /\ starting' = IF starting = "idle" THEN "idle" ELSE "done"
      BY <1>8 DEF Restart, childVars
    <2> QED
      BY <1>0, <1>a, <2>1, <2>2 DEF ProgressKnown
  <1>9. CASE UNCHANGED gripperVars
    BY <1>0, <1>9, <1>a DEF gripperVars, ProgressKnown
  <1> QED
    BY <1>1, <1>2, <1>3, <1>4, <1>5, <1>6, <1>7, <1>8, <1>9, <1>a
    DEF GripperRunsNext, ChildWrites, AbortStep

\* The child's progress is taken back by the write of an abort at most
\* (start, execute).
THEOREM ProgressStays == GripperRunsSpec => ProgressKept
  <1>1. GripperRunsInit => ProgressInv
    <2> SUFFICES ASSUME GripperRunsInit PROVE ProgressKnown
      BY TypeStart DEF ProgressInv
    <2>1. /\ runFile.progress = 0 /\ childState.progress = 0
          /\ \A a \in Aborter : abortState[a].progress = 0
      BY NoFileProgress DEF GripperRunsInit, OfEach
    <2> QED
      BY <2>1 DEF GripperRunsInit, ProgressKnown
  <1>2. ProgressInv /\ [GripperRunsNext]_gripperVars => ProgressInv'
    BY ProgressStep
  <1>3. ProgressInv /\ [GripperRunsNext]_gripperVars
        => [runFile'.progress < runFile.progress => \E a \in Aborter : AbortWrite(a)]_gripperVars
    BY ProgressStep
  <1> QED
    BY <1>1, <1>2, <1>3, PTL DEF GripperRunsSpec, ProgressKept

-----------------------------------------------------------------------------
(* PipelineRuns: the stages of a pipeline thread.                          *)

WorkerStages == {"absent", "register", "launch", "begin", "work", "event", "settle", "raise",
                 "fail", "leave", "gone"}
Undecided == {"queued", "running"}
Condemned == [status |-> "failed", error |-> "ServerRestarted"]

\* With one server nobody polls another one.
NobodyElse == \A p \in OtherPoller : at[p] = "idle" /\ copy[p] = NoCopy

\* At most one actor is between its read and its write, and what it has read
\* is what is there.
OneUpdate ==
    /\ \A a \in Actor : copy[a] # NoCopy => copy[a] = run /\ \A b \in Actor : copy[b] # NoCopy => a = b
    /\ copy["worker"] # NoCopy => at["worker"] \in {"begin", "event", "settle", "raise", "fail"}
    /\ \A p \in Poller : copy[p] # NoCopy => at[p] # "idle"

\* The process lists the thread from its registration until it has left.
ThreadListed == thread <=> at["worker"] \in WorkerStages \ {"absent", "register", "gone"}

\* Who condemns a run has seen it undecided and its thread gone; meanwhile
\* only another one like it can have decided it.
CondemnsTheGone ==
    \A p \in Poller : at[p] # "idle" =>
        at["worker"] = "gone" /\ (run.status \in Undecided \/ run = Condemned)

\* Until the thread records its outcome nobody decides the run.
ThreadDecides ==
    /\ at["worker"] = "absent" => run = NoRun
    /\ at["worker"] \in WorkerStages \ {"absent", "leave", "gone"} =>
           run.status \in Undecided /\ run.error = "none"
    /\ at["worker"] = "settle" => outcome = "completed"
    /\ at["worker"] \in {"raise", "fail"} => outcome = "failed"
    /\ at["worker"] = "leave" \/ (at["worker"] = "gone" /\ crashes = 0) =>
           run.status = outcome /\ outcome \in Settled

OneServer == NobodyElse /\ OneUpdate /\ ThreadListed /\ CondemnsTheGone /\ ThreadDecides

PipelineInv == PipelineTypeOK /\ (~twoServers => OneServer)

-----------------------------------------------------------------------------

LEMMA ActorsDiffer ==
  /\ "worker" \in Actor /\ "worker" \notin Poller /\ "worker" \notin OtherPoller
  /\ Poller \subseteq Actor /\ HomePoller \subseteq Poller /\ OtherPoller \subseteq Poller
  /\ \A a \in Actor : a = "worker" \/ a \in Poller
  /\ \A a \in Poller : a \in HomePoller \/ a \in OtherPoller
  BY PipelineAssumption DEF Actor, Poller

\* An actor that goes on leaves the others where they are.
LEMMA GoesOn ==
  ASSUME PipelineTypeOK, NEW a \in Actor, NEW next, Goes(a, next)
  PROVE  /\ DOMAIN at' = Actor /\ at'[a] = next
         /\ \A b \in Actor : b # a => at'[b] = at[b]
  BY DEF PipelineTypeOK, Goes

\* What reading and writing an actor's copy do to the copies.
LEMMA Reads ==
  ASSUME PipelineTypeOK, NEW a \in Actor, Read(a)
  PROVE  /\ copy' \in [Actor -> PipelineRecord \cup {NoCopy}] /\ copy'[a] = run
         /\ \A b \in Actor : b # a => copy'[b] = copy[b]
         /\ \A b \in Actor : SameProcess(a, b) => copy[b] = NoCopy
         /\ UNCHANGED <<run, thread, at, outcome, progress, crashes, twoServers>>
  BY DEF PipelineTypeOK, Read, LockFree

LEMMA Writes ==
  ASSUME PipelineTypeOK, NEW a \in Actor, NEW record, Write(a, record)
  PROVE  /\ copy' \in [Actor -> PipelineRecord \cup {NoCopy}] /\ copy'[a] = NoCopy
         /\ \A b \in Actor : b # a => copy'[b] = copy[b]
         /\ copy[a] # NoCopy /\ copy[a] \in PipelineRecord /\ run' = record
         /\ UNCHANGED <<thread, crashes, twoServers>>
  BY DEF PipelineTypeOK, Write

LEMMA Updates ==
  ASSUME NEW record \in PipelineRecord, NEW status \in {"absent", "queued", "running"} \cup Settled,
         NEW error \in {"none", "own", "ServerRestarted"}
  PROVE  /\ Update(record, status, error) \in PipelineRecord
         /\ Update(record, status, error) = [status |-> status, error |-> error]
         /\ Event(record) \in PipelineRecord
         /\ record.error = "none" => Event(record) = record
         /\ [record EXCEPT !.status = "running"] \in PipelineRecord
         /\ [record EXCEPT !.status = "running"].status = "running"
         /\ [record EXCEPT !.status = "running"].error = record.error
         /\ [status |-> status, error |-> error] \in PipelineRecord
  <1>1. /\ Update(record, status, error) = [status |-> status, error |-> error]
        /\ [status |-> status, error |-> error] \in PipelineRecord
    <2> DEFINE new == [record EXCEPT !.status = status, !.error = error]
    <2>1. new \in PipelineRecord /\ new.status = status /\ new.error = error
      BY DEF PipelineRecord
    <2> HIDE DEF new
    <2>2. new = [status |-> status, error |-> error]
      BY <2>1 DEF PipelineRecord
    <2>3. [status |-> status, error |-> error] \in PipelineRecord
      BY DEF PipelineRecord
    <2> QED
      BY <2>2, <2>3 DEF Update, new
  <1>2. /\ [record EXCEPT !.status = "running"] \in PipelineRecord
        /\ [record EXCEPT !.status = "running"].status = "running"
        /\ [record EXCEPT !.status = "running"].error = record.error
        /\ [record EXCEPT !.status = "running", !.error = "none"] \in PipelineRecord
    BY DEF PipelineRecord
  <1>3. Event(record) \in PipelineRecord /\ (record.error = "none" => Event(record) = record)
    BY <1>2 DEF Event
  <1> QED
    BY <1>1, <1>2, <1>3

\* The types, when one actor goes on.
LEMMA TypesKept ==
  ASSUME PipelineTypeOK, NEW a \in Actor, NEW next, Goes(a, next),
         a = "worker" => next \in WorkerStages,
         a # "worker" => next \in {"idle", "mark", "fail"},
         run' \in PipelineRecord, thread' \in BOOLEAN, UNCHANGED <<crashes, twoServers>>,
         copy' \in [Actor -> PipelineRecord \cup {NoCopy}],
         outcome' \in {"none"} \cup Settled, progress' \in 0..MaxEvents
  PROVE  PipelineTypeOK'
  <1>1. at'["worker"] \in WorkerStages
    BY GoesOn, ActorsDiffer DEF PipelineTypeOK, WorkerStages
  <1>2. \A p \in Poller : at'[p] \in {"idle", "mark", "fail"}
    BY GoesOn, ActorsDiffer DEF PipelineTypeOK
  <1> QED
    BY <1>1, <1>2, GoesOn DEF PipelineTypeOK, WorkerStages

LEMMA StartKeeps == ASSUME PipelineInv, Start PROVE PipelineInv'
  <1>1. /\ at["worker"] = "absent" /\ at'["worker"] = "register"
        /\ \A p \in Poller : at'[p] = at[p]
        /\ run' = [status |-> "queued", error |-> "none"]
        /\ UNCHANGED <<thread, copy, outcome, progress, crashes, twoServers>>
    BY GoesOn, ActorsDiffer DEF Start, PipelineInv
  <1>2. PipelineTypeOK'
    BY <1>1, TypesKept, ActorsDiffer DEF Start, PipelineInv, PipelineTypeOK, WorkerStages, PipelineRecord
  <1>3. ASSUME ~twoServers PROVE OneServer'
    <2>1. OneServer
      BY <1>3 DEF PipelineInv
    <2>2. \A a \in Actor : copy[a] = NoCopy
      BY <1>1, <2>1, ActorsDiffer DEF OneServer, OneUpdate, CondemnsTheGone
    <2>3. NobodyElse' /\ CondemnsTheGone'
      BY <1>1, <2>1, ActorsDiffer DEF OneServer, NobodyElse, CondemnsTheGone
    <2>4. OneUpdate'
      BY <1>1, <2>2, ActorsDiffer DEF OneUpdate
    <2>5. ThreadListed'
      BY <1>1, <2>1 DEF OneServer, ThreadListed, WorkerStages
    <2>6. ThreadDecides'
      BY <1>1 DEF ThreadDecides, WorkerStages, Undecided
    <2> QED
      BY <2>3, <2>4, <2>5, <2>6 DEF OneServer
  <1> QED
    BY <1>1, <1>2, <1>3 DEF PipelineInv

\* A step of the thread that writes nothing.
LEMMA WorkerGoesKeeps ==
  ASSUME PipelineInv, NEW next \in WorkerStages, Goes("worker", next),
         ~twoServers => copy["worker"] = NoCopy,
         at["worker"] # "gone", UNCHANGED <<run, copy, crashes, twoServers>>,
         thread' \in BOOLEAN, outcome' \in {"none"} \cup Settled, progress' \in 0..MaxEvents,
         ~twoServers => ThreadListed' /\ ThreadDecides'
  PROVE  PipelineInv'
  <1>1. at'["worker"] = next /\ \A p \in Poller : at'[p] = at[p]
    BY GoesOn, ActorsDiffer DEF PipelineInv
  <1>2. PipelineTypeOK'
    BY TypesKept, ActorsDiffer DEF PipelineInv, PipelineTypeOK
  <1>3. ASSUME ~twoServers PROVE NobodyElse' /\ CondemnsTheGone' /\ OneUpdate'
    BY <1>1, <1>3, ActorsDiffer DEF PipelineInv, OneServer, NobodyElse, CondemnsTheGone, OneUpdate
  <1> QED
    BY <1>2, <1>3 DEF PipelineInv, OneServer

LEMMA RegisterKeeps == ASSUME PipelineInv, Register PROVE PipelineInv'
  <1>0. copy["worker"] = NoCopy
    BY ActorsDiffer DEF Register, LockFree, SameProcess
  <1>1. /\ at["worker"] = "register" /\ at'["worker"] = "launch"
        /\ thread' = TRUE /\ Goes("worker", "launch")
        /\ UNCHANGED <<run, copy, outcome, progress, crashes, twoServers>>
    BY GoesOn, ActorsDiffer DEF Register, PipelineInv
  <1>2. ThreadListed'
    BY <1>1 DEF ThreadListed, WorkerStages
  <1>3. ~twoServers => ThreadDecides'
    BY <1>1 DEF PipelineInv, OneServer, ThreadDecides, WorkerStages, Undecided
  <1>4. outcome \in {"none"} \cup Settled /\ progress \in 0..MaxEvents
    BY DEF PipelineInv, PipelineTypeOK
  <1> QED
    BY <1>0, <1>1, <1>2, <1>3, <1>4, WorkerGoesKeeps DEF WorkerStages

LEMMA LaunchKeeps == ASSUME PipelineInv, Launch PROVE PipelineInv'
  <1>1. /\ at["worker"] = "launch" /\ at'["worker"] = "begin" /\ Goes("worker", "begin")
        /\ UNCHANGED <<run, thread, copy, outcome, progress, crashes, twoServers>>
    BY GoesOn, ActorsDiffer DEF Launch, PipelineInv
  <1>2. ~twoServers => ThreadListed' /\ ThreadDecides' /\ copy["worker"] = NoCopy
    BY <1>1 DEF PipelineInv, OneServer, OneUpdate, ThreadListed, ThreadDecides, WorkerStages, Undecided
  <1>3. outcome \in {"none"} \cup Settled /\ progress \in 0..MaxEvents /\ thread \in BOOLEAN
    BY DEF PipelineInv, PipelineTypeOK
  <1> QED
    BY <1>1, <1>2, <1>3, WorkerGoesKeeps DEF WorkerStages

LEMMA WorkKeeps == ASSUME PipelineInv, Work PROVE PipelineInv'
  <1>1. PICK next \in {"event", "settle", "raise"} :
          /\ Goes("worker", next)
          /\ next = "settle" => outcome' = "completed"
          /\ next = "raise" => outcome' = "failed"
          /\ next = "event" => outcome' = outcome
          /\ \/ progress' = progress + 1 /\ progress < MaxEvents
             \/ progress' = progress
    BY DEF Work
  <1>2. /\ at["worker"] = "work" /\ at'["worker"] = next
        /\ UNCHANGED <<run, thread, copy, crashes, twoServers>>
    BY <1>1, GoesOn, ActorsDiffer DEF Work, PipelineInv
  <1>3. ~twoServers => ThreadListed' /\ ThreadDecides' /\ copy["worker"] = NoCopy
    BY <1>1, <1>2 DEF PipelineInv, OneServer, OneUpdate, ThreadListed, ThreadDecides, WorkerStages, Undecided
  <1>4. /\ outcome' \in {"none"} \cup Settled /\ progress' \in 0..MaxEvents /\ thread' \in BOOLEAN
        /\ next \in WorkerStages
    BY <1>1, <1>2, PipelineAssumption DEF PipelineInv, PipelineTypeOK, Settled, WorkerStages
  <1> QED
    BY <1>1, <1>2, <1>3, <1>4, WorkerGoesKeeps

LEMMA LeaveKeeps == ASSUME PipelineInv, Leave PROVE PipelineInv'
  <1>0. copy["worker"] = NoCopy
    BY ActorsDiffer DEF Leave, LockFree, SameProcess
  <1>1. /\ at["worker"] = "leave" /\ at'["worker"] = "gone" /\ Goes("worker", "gone") /\ thread' = FALSE
        /\ UNCHANGED <<run, copy, outcome, progress, crashes, twoServers>>
    BY GoesOn, ActorsDiffer DEF Leave, PipelineInv
  <1>2. ~twoServers => ThreadListed' /\ ThreadDecides'
    BY <1>1 DEF PipelineInv, OneServer, ThreadListed, ThreadDecides, WorkerStages
  <1>3. outcome \in {"none"} \cup Settled /\ progress \in 0..MaxEvents
    BY DEF PipelineInv, PipelineTypeOK
  <1> QED
    BY <1>0, <1>1, <1>2, <1>3, WorkerGoesKeeps DEF WorkerStages

\* Reading takes the lock: with one server nobody else is at an update.
LEMMA ReadKeeps ==
  ASSUME PipelineInv, NEW a \in Actor, Read(a),
         a = "worker" => at[a] \in {"begin", "event", "settle", "raise", "fail"},
         a # "worker" => at[a] # "idle"
  PROVE  PipelineInv'
  <1>1. /\ copy' \in [Actor -> PipelineRecord \cup {NoCopy}] /\ copy'[a] = run
        /\ \A b \in Actor : b # a => copy'[b] = copy[b]
        /\ \A b \in Actor : SameProcess(a, b) => copy[b] = NoCopy
        /\ UNCHANGED <<run, thread, at, outcome, progress, crashes, twoServers>>
    BY Reads DEF PipelineInv
  <1>2. PipelineTypeOK'
    BY <1>1 DEF PipelineInv, PipelineTypeOK
  <1>3. ASSUME ~twoServers PROVE OneServer'
    <2>1. OneServer
      BY <1>3 DEF PipelineInv
    <2>2. a \notin OtherPoller
      BY <2>1, ActorsDiffer DEF OneServer, NobodyElse
    <2>3. \A b \in Actor : copy[b] = NoCopy
      BY <1>1, <2>1, <2>2, ActorsDiffer DEF SameProcess, OneServer, NobodyElse
    <2>4. NobodyElse'
      BY <1>1, <2>1, <2>2, ActorsDiffer DEF OneServer, NobodyElse
    <2>5. OneUpdate'
      BY <1>1, <2>3, ActorsDiffer DEF OneUpdate
    <2> QED
      BY <1>1, <2>1, <2>4, <2>5 DEF OneServer, ThreadListed, CondemnsTheGone, ThreadDecides
  <1> QED
    BY <1>1, <1>2, <1>3 DEF PipelineInv

\* A write of the thread: it held the only copy, and the copy was the run.
LEMMA WorkerWriteKeeps ==
  ASSUME PipelineInv, NEW next \in WorkerStages, Goes("worker", next),
         NEW record \in PipelineRecord, Write("worker", record),
         at["worker"] # "gone", UNCHANGED <<outcome, progress>>,
         ~twoServers => ThreadListed' /\ ThreadDecides'
  PROVE  PipelineInv'
  <1>1. /\ copy' \in [Actor -> PipelineRecord \cup {NoCopy}] /\ copy'["worker"] = NoCopy
        /\ \A b \in Actor : b # "worker" => copy'[b] = copy[b]
        /\ copy["worker"] # NoCopy /\ run' = record
        /\ UNCHANGED <<thread, crashes, twoServers>>
    BY Writes, ActorsDiffer DEF PipelineInv
  <1>2. at'["worker"] = next /\ \A p \in Poller : at'[p] = at[p]
    BY GoesOn, ActorsDiffer DEF PipelineInv
  <1>3. PipelineTypeOK'
    BY <1>1, TypesKept, ActorsDiffer DEF PipelineInv, PipelineTypeOK
  <1>4. ASSUME ~twoServers PROVE NobodyElse' /\ OneUpdate' /\ CondemnsTheGone'
    <2>1. OneServer
      BY <1>4 DEF PipelineInv
    <2>2. \A b \in Actor : copy'[b] = NoCopy
      BY <1>1, <2>1, ActorsDiffer DEF OneServer, OneUpdate
    <2>3. NobodyElse' /\ OneUpdate'
      BY <1>2, <2>1, <2>2, ActorsDiffer DEF OneServer, NobodyElse, OneUpdate
    <2>4. CondemnsTheGone'
      BY <1>2, <2>1, ActorsDiffer DEF OneServer, CondemnsTheGone
    <2> QED
      BY <2>3, <2>4
  <1> QED
    BY <1>1, <1>3, <1>4 DEF PipelineInv, OneServer

\* What the thread holds when it writes.
LEMMA WorkerHolds ==
  ASSUME PipelineInv, NEW record, Write("worker", record)
  PROVE  /\ copy["worker"] \in PipelineRecord /\ copy["worker"] # NoCopy /\ run' = record
         /\ UNCHANGED <<thread, crashes, twoServers>>
         /\ ~twoServers => copy["worker"] = run
  <1>1. /\ copy["worker"] # NoCopy /\ run' = record /\ UNCHANGED <<thread, crashes, twoServers>>
        /\ copy["worker"] \in PipelineRecord
    BY Writes, ActorsDiffer DEF PipelineInv
  <1> QED
    BY <1>1, ActorsDiffer DEF PipelineInv, OneServer, OneUpdate

LEMMA BeginKeeps == ASSUME PipelineInv, Begin PROVE PipelineInv'
  <1> DEFINE record == [copy["worker"] EXCEPT !.status = "running"]
  <1>1. /\ at["worker"] = "begin" /\ at'["worker"] = "work" /\ Goes("worker", "work")
        /\ Write("worker", record) /\ UNCHANGED <<outcome, progress>>
    BY GoesOn, ActorsDiffer DEF Begin, PipelineInv
  <1>2. /\ record \in PipelineRecord /\ record.status = "running" /\ record.error = copy["worker"].error
        /\ run' = record /\ UNCHANGED <<thread, crashes, twoServers>>
        /\ ~twoServers => copy["worker"] = run
    BY <1>1, WorkerHolds, Updates DEF Settled
  <1>3. ~twoServers => ThreadListed' /\ ThreadDecides'
    BY <1>1, <1>2 DEF PipelineInv, OneServer, ThreadListed, ThreadDecides, WorkerStages, Undecided
  <1> QED
    BY <1>1, <1>2, <1>3, WorkerWriteKeeps DEF WorkerStages

LEMMA ReportKeeps == ASSUME PipelineInv, Report PROVE PipelineInv'
  <1>1. /\ at["worker"] = "event" /\ at'["worker"] = "work" /\ Goes("worker", "work")
        /\ Write("worker", Event(copy["worker"])) /\ UNCHANGED <<outcome, progress>>
    BY GoesOn, ActorsDiffer DEF Report, PipelineInv
  <1>2. /\ Event(copy["worker"]) \in PipelineRecord
        /\ copy["worker"].error = "none" => Event(copy["worker"]) = copy["worker"]
        /\ run' = Event(copy["worker"]) /\ UNCHANGED <<thread, crashes, twoServers>>
        /\ ~twoServers => copy["worker"] = run
    BY <1>1, WorkerHolds, Updates DEF Settled
  <1>3. ~twoServers => ThreadListed' /\ ThreadDecides'
    BY <1>1, <1>2 DEF PipelineInv, OneServer, ThreadListed, ThreadDecides, WorkerStages, Undecided
  <1> QED
    BY <1>1, <1>2, <1>3, WorkerWriteKeeps DEF WorkerStages

LEMMA SettleKeeps == ASSUME PipelineInv, Settle PROVE PipelineInv'
  <1>1. /\ at["worker"] = "settle" /\ at'["worker"] = "leave" /\ Goes("worker", "leave")
        /\ Write("worker", Update(copy["worker"], "completed", "none")) /\ UNCHANGED <<outcome, progress>>
    BY GoesOn, ActorsDiffer DEF Settle, PipelineInv
  <1>2. /\ Update(copy["worker"], "completed", "none") = [status |-> "completed", error |-> "none"]
        /\ Update(copy["worker"], "completed", "none") \in PipelineRecord
        /\ run' = Update(copy["worker"], "completed", "none") /\ UNCHANGED <<thread, crashes, twoServers>>
    BY <1>1, WorkerHolds, Updates DEF Settled
  <1>3. ~twoServers => ThreadListed' /\ ThreadDecides'
    BY <1>1, <1>2 DEF PipelineInv, OneServer, ThreadListed, ThreadDecides, WorkerStages, Undecided, Settled
  <1> QED
    BY <1>1, <1>2, <1>3, WorkerWriteKeeps DEF WorkerStages

LEMMA RaiseEventKeeps == ASSUME PipelineInv, RaiseEvent PROVE PipelineInv'
  <1>1. /\ at["worker"] = "raise" /\ at'["worker"] = "fail" /\ Goes("worker", "fail")
        /\ Write("worker", copy["worker"]) /\ UNCHANGED <<outcome, progress>>
    BY GoesOn, ActorsDiffer DEF RaiseEvent, PipelineInv
  <1>2. /\ copy["worker"] \in PipelineRecord /\ run' = copy["worker"]
        /\ UNCHANGED <<thread, crashes, twoServers>>
        /\ ~twoServers => copy["worker"] = run
    BY <1>1, WorkerHolds
  <1>3. ~twoServers => ThreadListed' /\ ThreadDecides'
    BY <1>1, <1>2 DEF PipelineInv, OneServer, ThreadListed, ThreadDecides, WorkerStages, Undecided
  <1> QED
    BY <1>1, <1>2, <1>3, WorkerWriteKeeps DEF WorkerStages

LEMMA FailKeeps == ASSUME PipelineInv, Fail PROVE PipelineInv'
  <1>1. /\ at["worker"] = "fail" /\ at'["worker"] = "leave" /\ Goes("worker", "leave")
        /\ Write("worker", Update(copy["worker"], "failed", "own")) /\ UNCHANGED <<outcome, progress>>
    BY GoesOn, ActorsDiffer DEF Fail, PipelineInv
  <1>2. /\ Update(copy["worker"], "failed", "own") = [status |-> "failed", error |-> "own"]
        /\ Update(copy["worker"], "failed", "own") \in PipelineRecord
        /\ run' = Update(copy["worker"], "failed", "own") /\ UNCHANGED <<thread, crashes, twoServers>>
    BY <1>1, WorkerHolds, Updates DEF Settled
  <1>3. ~twoServers => ThreadListed' /\ ThreadDecides'
    BY <1>1, <1>2 DEF PipelineInv, OneServer, ThreadListed, ThreadDecides, WorkerStages, Undecided, Settled
  <1> QED
    BY <1>1, <1>2, <1>3, WorkerWriteKeeps DEF WorkerStages

\* With one server, who condemns polls the home process and has the run
\* before it.
LEMMA PollKeeps == ASSUME PipelineInv, NEW p \in Poller, Poll(p) PROVE PipelineInv'
  <1>1. /\ at[p] = "idle" /\ Started
        /\ p \in OtherPoller => twoServers
        /\ run.status \in Undecided /\ ~Live(p) /\ Goes(p, "mark")
        /\ UNCHANGED <<run, thread, copy, outcome, progress, crashes, twoServers>>
    BY DEF Poll, Judged, Undecided
  <1>2. at'[p] = "mark" /\ \A b \in Actor : b # p => at'[b] = at[b]
    BY <1>1, GoesOn, ActorsDiffer DEF PipelineInv
  <1>3. PipelineTypeOK'
    BY <1>1, TypesKept, ActorsDiffer DEF PipelineInv, PipelineTypeOK
  <1>4. ASSUME ~twoServers PROVE OneServer'
    <2>1. OneServer /\ p \notin OtherPoller /\ p \in HomePoller /\ at["worker"] \in WorkerStages
      BY <1>1, <1>4, ActorsDiffer DEF PipelineInv, PipelineTypeOK, WorkerStages, Poll
    <2>2. at["worker"] = "gone"
      <3>1. ~thread
        BY <1>1, <2>1 DEF Live
      <3>2. at["worker"] \in {"absent", "register", "gone"}
        BY <2>1, <3>1 DEF OneServer, ThreadListed
      <3> QED
        BY <1>1, <3>2 DEF Started
    <2>3. NobodyElse'
      BY <1>1, <1>2, <2>1, ActorsDiffer DEF OneServer, NobodyElse
    <2>4. OneUpdate'
      BY <1>1, <1>2, <2>1, ActorsDiffer DEF OneServer, OneUpdate
    <2>5. CondemnsTheGone'
      BY <1>1, <1>2, <2>1, <2>2, ActorsDiffer DEF OneServer, CondemnsTheGone
    <2>6. ThreadListed' /\ ThreadDecides'
      BY <1>1, <1>2, <2>1, ActorsDiffer DEF OneServer, ThreadListed, ThreadDecides
    <2> QED
      BY <2>3, <2>4, <2>5, <2>6 DEF OneServer
  <1> QED
    BY <1>1, <1>3, <1>4 DEF PipelineInv

\* A write of a poller: the run stays, or becomes the verdict of a restart
\* where it was undecided.
LEMMA PollerWriteKeeps ==
  ASSUME PipelineInv, NEW p \in Poller, NEW next \in {"idle", "fail"}, Goes(p, next),
         NEW record \in PipelineRecord, Write(p, record), at[p] # "idle",
         UNCHANGED <<outcome, progress>>, record = copy[p] \/ record = Condemned
  PROVE  PipelineInv'
  <1>1. /\ copy' \in [Actor -> PipelineRecord \cup {NoCopy}] /\ copy'[p] = NoCopy
        /\ \A b \in Actor : b # p => copy'[b] = copy[b]
        /\ copy[p] # NoCopy /\ run' = record
        /\ UNCHANGED <<thread, crashes, twoServers>>
    BY Writes, ActorsDiffer DEF PipelineInv
  <1>2. at'[p] = next /\ \A b \in Actor : b # p => at'[b] = at[b]
    BY GoesOn, ActorsDiffer DEF PipelineInv
  <1>3. PipelineTypeOK'
    BY <1>1, TypesKept, ActorsDiffer DEF PipelineInv, PipelineTypeOK
  <1>4. ASSUME ~twoServers PROVE OneServer'
    <2>1. OneServer /\ copy[p] = run /\ at["worker"] = "gone" /\ (run.status \in Undecided \/ run = Condemned)
      BY <1>1, <1>4, ActorsDiffer DEF PipelineInv, OneServer, OneUpdate, CondemnsTheGone
    <2>2. \A b \in Actor : copy'[b] = NoCopy
      BY <1>1, <2>1, ActorsDiffer DEF OneServer, OneUpdate
    <2>3. p \notin OtherPoller
      BY <2>1 DEF OneServer, NobodyElse
    <2>4. NobodyElse' /\ OneUpdate'
      BY <1>2, <2>1, <2>2, <2>3, ActorsDiffer DEF OneServer, NobodyElse, OneUpdate
    <2>5. CondemnsTheGone'
      BY <1>1, <1>2, <2>1, ActorsDiffer DEF OneServer, CondemnsTheGone
    <2>6. ThreadListed'
      BY <1>1, <1>2, <2>1, ActorsDiffer DEF OneServer, ThreadListed
    <2>7. at'["worker"] = "gone"
      BY <1>2, <2>1, ActorsDiffer
    <2>8. ASSUME crashes' = 0 PROVE run' = run
      <3>1. run.status \in Settled
        BY <1>1, <2>1, <2>8 DEF OneServer, ThreadDecides
      <3>2. run = Condemned
        BY <2>1, <3>1 DEF Settled, Undecided
      <3> QED
        BY <1>1, <2>1, <3>2
    <2>9. ThreadDecides'
      BY <1>1, <2>1, <2>7, <2>8 DEF OneServer, ThreadDecides, WorkerStages
    <2> QED
      BY <2>4, <2>5, <2>6, <2>9 DEF OneServer
  <1> QED
    BY <1>1, <1>3, <1>4 DEF PipelineInv

LEMMA MarkKeeps == ASSUME PipelineInv, NEW p \in Poller, Mark(p) PROVE PipelineInv'
  <1>1. /\ at[p] = "mark" /\ Goes(p, "fail") /\ Write(p, copy[p]) /\ UNCHANGED <<outcome, progress>>
    BY DEF Mark
  <1>2. copy[p] \in PipelineRecord
    BY <1>1, Writes, ActorsDiffer DEF PipelineInv
  <1> QED
    BY <1>1, <1>2, PollerWriteKeeps

LEMMA CondemnKeeps == ASSUME PipelineInv, NEW p \in Poller, Condemn(p) PROVE PipelineInv'
  <1> DEFINE record == Update(copy[p], "failed", "ServerRestarted")
  <1>1. /\ at[p] = "fail" /\ Goes(p, "idle") /\ Write(p, record) /\ UNCHANGED <<outcome, progress>>
    BY DEF Condemn
  <1>2. copy[p] \in PipelineRecord
    BY <1>1, Writes, ActorsDiffer DEF PipelineInv
  <1>3. record = Condemned /\ record \in PipelineRecord
    BY <1>2, Updates DEF Settled, Condemned
  <1> QED
    BY <1>1, <1>3, PollerWriteKeeps

LEMMA CrashKeeps == ASSUME PipelineInv, Crash PROVE PipelineInv'
  <1>1. /\ crashes < MaxCrashes /\ crashes' = crashes + 1 /\ thread' = FALSE
        /\ at' = [a \in Actor |-> IF a = "worker" THEN "gone"
                                  ELSE IF a \in HomePoller THEN "idle" ELSE at[a]]
        /\ copy' = [a \in Actor |-> IF a \in OtherPoller THEN copy[a] ELSE NoCopy]
        /\ UNCHANGED <<run, outcome, progress, twoServers>>
    BY DEF Crash
  <1>2. crashes \in Nat /\ crashes' \in 0..MaxCrashes /\ crashes' # 0
    BY <1>1, PipelineAssumption DEF PipelineInv, PipelineTypeOK
  <1>3. at'["worker"] = "gone" /\ \A p \in Poller : at'[p] \in {"idle", at[p]}
    BY <1>1, ActorsDiffer
  <1>4. PipelineTypeOK'
    <2>1. copy' \in [Actor -> PipelineRecord \cup {NoCopy}]
      BY <1>1, ActorsDiffer DEF PipelineInv, PipelineTypeOK
    <2> QED
      BY <1>1, <1>2, <1>3, <2>1 DEF PipelineInv, PipelineTypeOK
  <1>5. ASSUME ~twoServers PROVE OneServer'
    <2>1. OneServer
      BY <1>5 DEF PipelineInv
    <2>2. \A p \in Poller : at'[p] = "idle"
      BY <1>1, <2>1, ActorsDiffer DEF OneServer, NobodyElse
    <2>3. \A a \in Actor : copy'[a] = NoCopy
      BY <1>1, <2>1, ActorsDiffer DEF OneServer, NobodyElse
    <2> QED
      BY <1>1, <1>2, <1>3, <2>2, <2>3, ActorsDiffer
         DEF OneServer, NobodyElse, OneUpdate, ThreadListed, CondemnsTheGone, ThreadDecides, WorkerStages
  <1> QED
    BY <1>1, <1>4, <1>5 DEF PipelineInv

LEMMA PipelineStart == PipelineInit => PipelineInv
  <1> SUFFICES ASSUME PipelineInit PROVE PipelineInv
    OBVIOUS
  <1>1. /\ run = NoRun /\ thread = FALSE /\ at["worker"] = "absent" /\ DOMAIN at = Actor
        /\ \A p \in Poller : at[p] = "idle"
        /\ \A a \in Actor : copy[a] = NoCopy
        /\ copy \in [Actor -> {NoCopy}]
        /\ outcome = "none" /\ progress = 0 /\ crashes = 0 /\ twoServers \in Sharing
    BY ActorsDiffer DEF PipelineInit
  <1>2. PipelineTypeOK
    <2>1. run \in PipelineRecord
      BY <1>1 DEF NoRun, PipelineRecord
    <2>2. copy \in [Actor -> PipelineRecord \cup {NoCopy}]
      BY <1>1
    <2>3. progress \in 0..MaxEvents /\ crashes \in 0..MaxCrashes
      BY <1>1, PipelineAssumption
    <2> QED
      BY <1>1, <2>1, <2>2, <2>3 DEF PipelineTypeOK
  <1>3. OneServer
    BY <1>1, ActorsDiffer DEF OneServer, NobodyElse, OneUpdate, ThreadListed, CondemnsTheGone,
                              ThreadDecides, WorkerStages
  <1> QED
    BY <1>2, <1>3 DEF PipelineInv

LEMMA PipelineStep == PipelineInv /\ [PipelineNext]_pipelineVars => PipelineInv'
  <1> SUFFICES ASSUME PipelineInv, [PipelineNext]_pipelineVars PROVE PipelineInv'
    OBVIOUS
  <1>1. CASE UNCHANGED pipelineVars
    BY <1>1 DEF pipelineVars, PipelineInv, PipelineTypeOK, OneServer, NobodyElse, OneUpdate,
                ThreadListed, CondemnsTheGone, ThreadDecides
  <1>2. CASE ThreadReads
    BY <1>2, ReadKeeps, ActorsDiffer DEF ThreadReads
  <1>3. ASSUME NEW p \in Poller, PollerReads(p) PROVE PipelineInv'
    BY <1>3, ReadKeeps, ActorsDiffer DEF PollerReads
  <1>4. ASSUME NEW p \in Poller, PollStep(p) PROVE PipelineInv'
    BY <1>3, <1>4, PollKeeps, MarkKeeps, CondemnKeeps DEF PollStep
  <1>5. CASE ThreadStep
    BY <1>2, <1>5, StartKeeps, RegisterKeeps, LaunchKeeps, BeginKeeps, WorkKeeps, ReportKeeps,
       SettleKeeps, RaiseEventKeeps, FailKeeps, LeaveKeeps DEF ThreadStep
  <1> QED
    BY <1>1, <1>4, <1>5, CrashKeeps DEF PipelineNext

LEMMA PipelineInvariant == PipelineSpec => []PipelineInv
  BY PipelineStart, PipelineStep, PTL DEF PipelineSpec

\* Type correctness (PipelineRunStore).
THEOREM PipelineTypeCorrect == PipelineSpec => []PipelineTypeOK
  <1>1. PipelineInv => PipelineTypeOK
    BY DEF PipelineInv
  <1> QED
    BY <1>1, PipelineInvariant, PTL

\* With one server, a thread that has left has told its outcome, and nobody
\* has said otherwise since (_execute, get).
THEOREM OutcomeIsTold == PipelineSpec => []OutcomeTold
  <1>1. PipelineInv => OutcomeTold
    BY DEF PipelineInv, OneServer, ThreadDecides, OutcomeTold
  <1> QED
    BY <1>1, PipelineInvariant, PTL

\* With one server a settled run stays as it is (get, _event, _execute).
THEOREM OutcomeIsKept == PipelineSpec => OutcomeKept
  <1>1. PipelineInv /\ [PipelineNext]_pipelineVars =>
            [~twoServers /\ run.status \in Settled => run' = run]_pipelineVars
    <2> SUFFICES ASSUME PipelineInv, PipelineNext, ~twoServers, run.status \in Settled
                 PROVE  run' = run
      OBVIOUS
    <2>1. OneServer
      BY DEF PipelineInv
    <2>2. /\ at["worker"] \notin WorkerStages \ {"absent", "leave", "gone"}
          /\ at["worker"] # "absent"
      BY <2>1 DEF OneServer, ThreadDecides, Undecided, Settled, NoRun
    <2>3. CASE ThreadStep
      BY <2>2, <2>3 DEF ThreadStep, Start, Register, Launch, ThreadReads, Begin, Work, Report, Settle,
                        RaiseEvent, Fail, Leave, WorkerStages
    <2>4. ASSUME NEW p \in Poller, Mark(p) PROVE run' = run
      <3>1. copy[p] # NoCopy /\ run' = copy[p]
        BY <2>4 DEF Mark, Write
      <3> QED
        BY <2>1, <3>1, ActorsDiffer DEF OneServer, OneUpdate
    <2>5. ASSUME NEW p \in Poller, Condemn(p) PROVE run' = run
      <3>1. /\ copy[p] # NoCopy /\ run' = Update(copy[p], "failed", "ServerRestarted")
            /\ at[p] # "idle"
        BY <2>5 DEF Condemn, Write
      <3>2. copy[p] \in PipelineRecord
        BY <3>1, ActorsDiffer DEF PipelineInv, PipelineTypeOK
      <3>3. run' = Condemned
        BY <3>1, <3>2, Updates DEF Settled, Condemned
      <3>4. run = Condemned
        BY <2>1, <3>1 DEF OneServer, CondemnsTheGone, Undecided, Settled
      <3> QED
        BY <3>3, <3>4
    <2>6. ASSUME NEW p \in Poller, PollStep(p) PROVE run' = run
      BY <2>4, <2>5, <2>6 DEF PollStep, Poll, PollerReads, Read
    <2> QED
      BY <2>3, <2>6 DEF PipelineNext, Crash
  <1> QED
    BY <1>1, PipelineInvariant, PTL DEF PipelineSpec, OutcomeKept

-----------------------------------------------------------------------------
(* ResultStore: a persist that has chosen its number.                      *)

Choosing == {"mkdir", "files", "index", "rewrite"}
Busy(w) == persisting[w].step # "idle"
Chosen(w) == persisting[w].step \in Choosing

\* The writers that have begun and not chosen a number; the others, of all
\* that have begun, are as many as there are numbers to be used.
Scanning == {w \in Writer : persisting[w].step = "scan"}
Taken == begun - Cardinality(Scanning)

NumbersBounded ==
    /\ IsFiniteSet(Scanning) /\ Taken \in Nat
    /\ \A r \in DOMAIN folders : r.number <= Taken
    /\ index.next <= Taken + 1
    /\ \A w \in Writer : Busy(w) => persisting[w].read.next <= Taken + 1
    /\ \A w \in Writer : Chosen(w) => persisting[w].number <= Taken

\* What is listed, or will be, has all its files.
Filled(r) == r \in DOMAIN folders /\ folders[r]
ListedWhole ==
    /\ \A r \in index.results : Filled(r)
    /\ \A w \in Writer : Busy(w) => \A r \in persisting[w].read.results : Filled(r)
    /\ \A w \in Writer : persisting[w].step = "files" => ResultOf(w) \in DOMAIN folders
    /\ \A w \in Writer : persisting[w].step \in {"index", "rewrite"} => Filled(ResultOf(w))

\* Writers that take turns know the index as it is, and choose a number above
\* every directory.
InTurn ==
    /\ \A v, w \in Writer : Busy(v) /\ Busy(w) => v = w
    /\ \A w \in Writer : Busy(w) => persisting[w].read = index
    /\ \A w \in Writer : persisting[w].step = "mkdir" =>
           \A r \in DOMAIN folders : r.number < persisting[w].number
    /\ \A r, s \in DOMAIN folders : r.number = s.number => r = s
    /\ returned \subseteq index.results

ResultStoreInv ==
    ResultStoreTypeOK /\ NumbersBounded /\ ListedWhole /\ (~together => InTurn)

-----------------------------------------------------------------------------

\* A bounded set of numbers has a greatest one.
LEMMA MaxIsGreatest ==
  ASSUME NEW N \in Nat, NEW S, S \subseteq 0..N, S # {}
  PROVE  Max(S) \in S /\ \A n \in S : n <= Max(S)
  <1> DEFINE T == {N - n : n \in S}
  <1>1. T \subseteq Nat /\ T # {}
    OBVIOUS
  <1>2. PICK x \in T : \A y \in T : ~(<<y, x>> \in OpToRel(<, Nat))
    BY <1>1, NatLessThanWellFounded, WFMin
  <1>3. ASSUME NEW y \in T PROVE x <= y
    <2>1. x \in Nat /\ y \in Nat
      BY <1>1
    <2>2. ASSUME y < x PROVE FALSE
      <3>1. <<y, x>> \in Nat \X Nat /\ <<y, x>>[1] < <<y, x>>[2]
        BY <2>1, <2>2
      <3>2. <<y, x>> \in OpToRel(<, Nat)
        BY <3>1, Zenon DEF OpToRel
      <3> QED
        BY <1>2, <3>2
    <2> QED
      BY <2>1, <2>2
  <1>4. PICK m \in S : x = N - m
    OBVIOUS
  <1>5. \A n \in S : N - n \in T /\ n \in 0..N
    OBVIOUS
  <1>6. \A n \in S : m >= n
    <2> SUFFICES ASSUME NEW n \in S PROVE m >= n
      OBVIOUS
    <2>1. N - m <= N - n /\ n \in 0..N /\ m \in 0..N
      BY <1>3, <1>4, <1>5
    <2> QED
      BY <2>1
  <1>7. Max(S) \in S /\ \A n \in S : Max(S) >= n
    BY <1>6 DEF Max
  <1> QED
    BY <1>5, <1>7

\* The number a writer chooses: the next of what it has read, and above
\* every directory, but never further than one beyond both.
LEMMA NumberChosen ==
  ASSUME ResultStoreInv, NEW recorded \in Number, recorded <= Taken + 1
  PROVE  /\ NextSequence(recorded) \in Nat /\ NextSequence(recorded) >= 1
         /\ NextSequence(recorded) <= Taken + 1
         /\ \A r \in DOMAIN folders : r.number < NextSequence(recorded)
  <1> DEFINE S == {r.number : r \in DOMAIN folders} \cup {0}
  <1>1. Taken \in Nat /\ recorded \in Nat /\ recorded >= 1
    BY ResultStoreAssumption DEF ResultStoreInv, NumbersBounded, Number
  <1>2. \A r \in DOMAIN folders : r.number \in Nat /\ r.number <= Taken
    BY ResultStoreAssumption DEF ResultStoreInv, NumbersBounded, ResultStoreTypeOK, Result, Number
  <1>3. S \subseteq 0..Taken /\ S # {}
    BY <1>1, <1>2
  <1>4. Max(S) \in S /\ \A n \in S : n <= Max(S)
    BY <1>1, <1>3, MaxIsGreatest
  <1>5. Highest \in 0..Taken /\ \A r \in DOMAIN folders : r.number <= Highest
    BY <1>3, <1>4 DEF Highest
  <1> QED
    BY <1>1, <1>2, <1>5 DEF NextSequence

\* What a writer can be.
Chosens == [step : Choosing, slug : Slug, read : Index, number : Number]
Scans == [step : {"scan"}, slug : Slug, read : Index]

LEMMA WriterTypes ==
  ASSUME ResultStoreTypeOK, NEW w \in Writer
  PROVE  /\ Busy(w) <=> persisting[w] # Resting
         /\ Busy(w) => persisting[w].read \in Index
         /\ Busy(w) => persisting[w].step = "scan" \/ Chosen(w)
         /\ persisting[w].step = "scan" => Busy(w) /\ ~Chosen(w) /\ persisting[w] \in Scans
         /\ Chosen(w) => Busy(w) /\ persisting[w] \in Chosens
         /\ Chosen(w) => persisting[w].number \in Number /\ ResultOf(w) \in Result
  <1>1. \/ persisting[w] = Resting
        \/ persisting[w] \in Scans
        \/ persisting[w] \in Chosens
    BY DEF ResultStoreTypeOK, Choosing, Scans, Chosens
  <1>2. CASE persisting[w] = Resting
    BY <1>2 DEF Resting, Busy, Chosen, Choosing
  <1>3. CASE persisting[w] \in Scans
    BY <1>3 DEF Resting, Busy, Chosen, Choosing, Scans
  <1>4. CASE persisting[w] \in Chosens
    BY <1>4 DEF Resting, Busy, Chosen, Choosing, Chosens, ResultOf, Result
  <1> QED
    BY <1>1, <1>2, <1>3, <1>4

\* A writer that proceeds leaves the others where they are.
LEMMA ProceedsOwn ==
  ASSUME ResultStoreTypeOK, NEW w \in Writer, NEW to, Proceeds(w, to),
         to = Resting \/ to \in Scans \/ to \in Chosens,
         DOMAIN folders' \subseteq Result, \A r \in DOMAIN folders' : folders'[r] \in BOOLEAN,
         index' \in Index, torn' \in BOOLEAN, together' = together,
         returned' \subseteq Result, begun' \in 0..MaxPersists
  PROVE  /\ ResultStoreTypeOK' /\ persisting'[w] = to
         /\ \A v \in Writer : v # w => persisting'[v] = persisting[v]
         /\ Scanning' = IF to.step = "scan" THEN Scanning \cup {w} ELSE Scanning \ {w}
  <1>1. /\ DOMAIN persisting' = Writer /\ persisting'[w] = to
        /\ \A v \in Writer : v # w => persisting'[v] = persisting[v]
    BY DEF ResultStoreTypeOK, Proceeds
  <1>2. Scanning' = IF to.step = "scan" THEN Scanning \cup {w} ELSE Scanning \ {w}
    BY <1>1 DEF Scanning
  <1>3. ResultStoreTypeOK'
    <2>1. \A v \in Writer : persisting'[v] = Resting \/ persisting'[v] \in Scans \/ persisting'[v] \in Chosens
      BY <1>1 DEF ResultStoreTypeOK, Scans, Chosens, Choosing
    <2> QED
      BY <1>1, <2>1 DEF ResultStoreTypeOK, Scans, Chosens, Choosing
  <1> QED
    BY <1>1, <1>2, <1>3

\* One writer more, or fewer, is scanning.
LEMMA ScanningCounts ==
  ASSUME IsFiniteSet(Scanning), NEW w
  PROVE  /\ IsFiniteSet(Scanning \cup {w}) /\ IsFiniteSet(Scanning \ {w})
         /\ Cardinality(Scanning) \in Nat
         /\ w \notin Scanning => Cardinality(Scanning \cup {w}) = Cardinality(Scanning) + 1
         /\ w \in Scanning => Cardinality(Scanning \ {w}) = Cardinality(Scanning) - 1
         /\ w \notin Scanning => Cardinality(Scanning \ {w}) = Cardinality(Scanning)
  BY FS_AddElement, FS_RemoveElement, FS_CardinalityType

\* Numbers that were within the bound stay within it, as it never shrinks.
LEMMA BoundGrows ==
  ASSUME ResultStoreInv, IsFiniteSet(Scanning'), Taken' \in Nat, Taken <= Taken',
         \A r \in DOMAIN folders' : r \in DOMAIN folders \/ r.number <= Taken',
         index' = index \/ index'.next <= Taken' + 1,
         \A w \in Writer : Busy(w)' =>
             \/ Busy(w) /\ persisting'[w].read = persisting[w].read
             \/ persisting'[w].read.next <= Taken' + 1,
         \A w \in Writer : Chosen(w)' =>
             \/ Chosen(w) /\ persisting'[w].number = persisting[w].number
             \/ persisting'[w].number <= Taken'
  PROVE  NumbersBounded'
  <1>1. Taken \in Nat
    BY DEF ResultStoreInv, NumbersBounded
  <1>2. \A r \in DOMAIN folders : r.number \in Nat /\ r.number <= Taken
    BY ResultStoreAssumption DEF ResultStoreInv, NumbersBounded, ResultStoreTypeOK, Result, Number
  <1>3. index.next \in Nat /\ index.next <= Taken + 1
    BY ResultStoreAssumption DEF ResultStoreInv, NumbersBounded, ResultStoreTypeOK, Index, Number
  <1>4. \A w \in Writer : Busy(w) => persisting[w].read.next \in Nat /\ persisting[w].read.next <= Taken + 1
    BY WriterTypes, ResultStoreAssumption DEF ResultStoreInv, NumbersBounded, Index, Number
  <1>5. \A w \in Writer : Chosen(w) => persisting[w].number \in Nat /\ persisting[w].number <= Taken
    BY WriterTypes, ResultStoreAssumption DEF ResultStoreInv, NumbersBounded, Number
  <1>6. \A n \in Nat : (n <= Taken => n <= Taken') /\ (n <= Taken + 1 => n <= Taken' + 1)
    <2>1. \A a, b, n \in Nat : a <= b => (n <= a => n <= b) /\ (n <= a + 1 => n <= b + 1)
      OBVIOUS
    <2> QED
      BY <1>1, <2>1
  <1>7. /\ \A r \in DOMAIN folders' : r.number <= Taken'
        /\ index'.next <= Taken' + 1
    BY <1>2, <1>3, <1>6
  <1>8. \A w \in Writer : Busy(w)' => persisting'[w].read.next <= Taken' + 1
    BY <1>4, <1>6
  <1>9. \A w \in Writer : Chosen(w)' => persisting'[w].number <= Taken'
    BY <1>5, <1>6
  <1> QED
    BY <1>7, <1>8, <1>9 DEF NumbersBounded

LEMMA ReadIndexKeeps == ASSUME ResultStoreInv, NEW w \in Writer, ReadIndex(w) PROVE ResultStoreInv'
  <1>1. /\ ~Busy(w) /\ begun < MaxPersists /\ begun' = begun + 1
        /\ together \/ \A v \in Writer : ~Busy(v)
        /\ UNCHANGED <<folders, index, torn, returned, together>>
        /\ begun \in Nat /\ begun' \in 0..MaxPersists
    BY WriterTypes, ResultStoreAssumption DEF ReadIndex, ResultStoreInv, ResultStoreTypeOK
  <1>2. /\ IsFiniteSet(Scanning) /\ Taken \in Nat /\ Cardinality(Scanning) \in Nat
        /\ index.next \in Nat /\ index.next <= Taken + 1
    BY FS_CardinalityType, ResultStoreAssumption
       DEF ResultStoreInv, NumbersBounded, ResultStoreTypeOK, Index, Number
  <1>3. CASE torn
    <2>1. UNCHANGED persisting
      BY <1>3 DEF ReadIndex
    <2>2. ResultStoreTypeOK'
      BY <1>1, <2>1 DEF ResultStoreInv, ResultStoreTypeOK, Result, Number, Index
    <2>3. Scanning' = Scanning /\ Taken' = Taken + 1
      BY <1>1, <1>2, <2>1 DEF Scanning, Taken
    <2>4. NumbersBounded'
      BY <1>1, <1>2, <2>1, <2>3, BoundGrows DEF Busy, Chosen
    <2> QED
      BY <1>1, <2>1, <2>2, <2>4 DEF ResultStoreInv, ListedWhole, InTurn, Filled, ResultOf, Busy
  <1>4. CASE ~torn
    <2>1. PICK slug \in Slug : Proceeds(w, [step |-> "scan", slug |-> slug, read |-> index])
      BY <1>4 DEF ReadIndex
    <2> DEFINE to == [step |-> "scan", slug |-> slug, read |-> index]
    <2>2. to \in Scans
      BY DEF Scans, ResultStoreInv, ResultStoreTypeOK
    <2>3. /\ ResultStoreTypeOK' /\ persisting'[w] = to
          /\ \A v \in Writer : v # w => persisting'[v] = persisting[v]
          /\ Scanning' = Scanning \cup {w}
      BY <1>1, <2>1, <2>2, ProceedsOwn DEF ResultStoreInv, ResultStoreTypeOK
    <2>4. w \notin Scanning
      BY <1>1 DEF Scanning, Busy
    <2>5. IsFiniteSet(Scanning') /\ Taken' = Taken
      BY <1>1, <1>2, <2>3, <2>4, ScanningCounts DEF Taken
    <2>6. NumbersBounded'
      <3>1. \A v \in Writer : Busy(v)' =>
                \/ Busy(v) /\ persisting'[v].read = persisting[v].read
                \/ persisting'[v].read.next <= Taken' + 1
        BY <1>2, <2>3, <2>5 DEF Busy
      <3>2. \A v \in Writer : Chosen(v)' => Chosen(v) /\ persisting'[v].number = persisting[v].number
        BY <2>3 DEF Chosen, Choosing
      <3> QED
        BY <1>1, <1>2, <2>5, <3>1, <3>2, BoundGrows
    <2>7. ListedWhole'
      <3>1. \A v \in Writer : Busy(v)' => \A r \in persisting'[v].read.results : Filled(r)
        BY <2>3 DEF ResultStoreInv, ListedWhole, Busy
      <3>2. \A v \in Writer : persisting'[v].step \in {"files", "index", "rewrite"} => v # w
        BY <2>3
      <3> QED
        BY <1>1, <2>3, <3>1, <3>2 DEF ResultStoreInv, ListedWhole, Filled, ResultOf
    <2>8. ASSUME ~together PROVE InTurn'
      <3>1. InTurn /\ \A v \in Writer : ~Busy(v)
        BY <1>1, <2>8 DEF ResultStoreInv
      <3>2. \A v \in Writer : Busy(v)' => v = w
        BY <2>3, <3>1 DEF Busy
      <3>3. persisting'[w].read = index /\ persisting'[w].step # "mkdir"
        BY <2>3
      <3>4. \A v \in Writer : persisting'[v].step # "mkdir"
        BY <3>2, <3>3 DEF Busy
      <3> QED
        BY <1>1, <3>1, <3>2, <3>3, <3>4 DEF InTurn
    <2> QED
      BY <1>1, <2>3, <2>6, <2>7, <2>8 DEF ResultStoreInv
  <1> QED
    BY <1>3, <1>4

LEMMA ScanKeeps == ASSUME ResultStoreInv, NEW w \in Writer, Scan(w) PROVE ResultStoreInv'
  <1> DEFINE read == persisting[w].read
             number == NextSequence(read.next)
             to == [step |-> "mkdir", slug |-> persisting[w].slug, read |-> read, number |-> number]
  <1>1. /\ persisting[w].step = "scan" /\ Busy(w) /\ persisting[w] \in Scans /\ read \in Index
        /\ Proceeds(w, to)
        /\ UNCHANGED <<folders, index, torn, returned, begun, together>>
        /\ begun \in Nat
    BY WriterTypes, ResultStoreAssumption DEF Scan, ResultStoreInv, ResultStoreTypeOK
  <1>2. /\ IsFiniteSet(Scanning) /\ Taken \in Nat /\ Cardinality(Scanning) \in Nat
        /\ w \in Scanning /\ read.next <= Taken + 1 /\ read.next \in Number
    BY <1>1, FS_CardinalityType DEF ResultStoreInv, NumbersBounded, Scanning, Index
  <1>3. /\ number \in Nat /\ number >= 1 /\ number <= Taken + 1
        /\ \A r \in DOMAIN folders : r.number < number
    BY <1>2, NumberChosen
  <1> HIDE DEF number
  <1>4. IsFiniteSet(Scanning \ {w}) /\ Cardinality(Scanning \ {w}) = Cardinality(Scanning) - 1
    BY <1>2, ScanningCounts
  <1>5. number \in Number
    <2>1. begun <= MaxPersists /\ MaxPersists \in Nat
      BY ResultStoreAssumption DEF ResultStoreInv, ResultStoreTypeOK
    <2> QED
      BY <1>1, <1>2, <1>3, <1>4, <2>1 DEF Number, Taken
  <1>6. to \in Chosens
    BY <1>1, <1>5 DEF Scans, Chosens, Choosing
  <1>7. /\ ResultStoreTypeOK' /\ persisting'[w] = to
        /\ \A v \in Writer : v # w => persisting'[v] = persisting[v]
        /\ Scanning' = Scanning \ {w}
    BY <1>1, <1>6, ProceedsOwn DEF ResultStoreInv, ResultStoreTypeOK
  <1>8. IsFiniteSet(Scanning') /\ Taken' = Taken + 1
    BY <1>1, <1>2, <1>4, <1>7 DEF Taken
  <1>9. NumbersBounded'
    <2>1. \A v \in Writer : Busy(v)' => Busy(v) /\ persisting'[v].read = persisting[v].read
      BY <1>1, <1>7 DEF Busy
    <2>2. \A v \in Writer : Chosen(v)' =>
              \/ Chosen(v) /\ persisting'[v].number = persisting[v].number
              \/ persisting'[v].number <= Taken'
      BY <1>3, <1>7, <1>8 DEF Chosen
    <2> QED
      BY <1>1, <1>2, <1>8, <2>1, <2>2, BoundGrows
  <1>10. ListedWhole'
    <2>1. \A v \in Writer : Busy(v)' => Busy(v) /\ persisting'[v].read = persisting[v].read
      BY <1>1, <1>7 DEF Busy
    <2>2. \A v \in Writer : persisting'[v].step \in {"files", "index", "rewrite"} => v # w
      BY <1>7
    <2> QED
      BY <1>1, <1>7, <2>1, <2>2 DEF ResultStoreInv, ListedWhole, Filled, ResultOf
  <1>11. ASSUME ~together PROVE InTurn'
    <2>1. InTurn
      BY <1>11 DEF ResultStoreInv
    <2>2. \A v \in Writer : Busy(v)' => v = w
      BY <1>1, <1>7, <2>1 DEF InTurn, Busy
    <2>3. persisting'[w].read = index /\ persisting'[w].number = number
      BY <1>1, <1>7, <2>1 DEF InTurn
    <2>4. \A v \in Writer : persisting'[v].step = "mkdir" => v = w
      BY <2>2 DEF Busy
    <2> QED
      BY <1>1, <1>3, <2>1, <2>2, <2>3, <2>4 DEF InTurn
  <1> QED
    BY <1>1, <1>7, <1>9, <1>10, <1>11 DEF ResultStoreInv

\* A step that leaves the scanning writers and the index as they are.
LEMMA SameBound ==
  ASSUME ResultStoreInv, NEW w \in Writer, w \notin Scanning,
         \A v \in Writer : v # w => persisting'[v] = persisting[v],
         Scanning' = Scanning \ {w}, UNCHANGED begun,
         Busy(w)' => Busy(w) /\ persisting'[w].read = persisting[w].read,
         Chosen(w)' => Chosen(w) /\ persisting'[w].number = persisting[w].number,
         index' = index \/ index'.next <= Taken + 1,
         \A r \in DOMAIN folders' : r \in DOMAIN folders \/ r.number <= Taken
  PROVE  NumbersBounded'
  <1>1. /\ IsFiniteSet(Scanning) /\ Taken \in Nat
    BY DEF ResultStoreInv, NumbersBounded
  <1>2. Scanning' = Scanning /\ Taken' = Taken
    BY DEF Taken
  <1>3. /\ \A v \in Writer : Busy(v)' => Busy(v) /\ persisting'[v].read = persisting[v].read
        /\ \A v \in Writer : Chosen(v)' => Chosen(v) /\ persisting'[v].number = persisting[v].number
    BY DEF Busy, Chosen
  <1>4. /\ IsFiniteSet(Scanning') /\ Taken' \in Nat /\ Taken <= Taken'
        /\ index' = index \/ index'.next <= Taken' + 1
        /\ \A r \in DOMAIN folders' : r \in DOMAIN folders \/ r.number <= Taken'
    <2>1. Taken <= Taken
      BY <1>1
    <2> QED
      BY <1>1, <1>2, <2>1
  <1> QED
    BY <1>3, <1>4, BoundGrows

\* A writer that rests leaves nothing behind that others depend on.
LEMMA RestKeeps ==
  ASSUME ResultStoreInv, NEW w \in Writer, persisting'[w] = Resting,
         \A v \in Writer : v # w => persisting'[v] = persisting[v],
         UNCHANGED <<folders, index, returned, together>>
  PROVE  ListedWhole' /\ (~together => InTurn)'
  <1>1. persisting'[w].step = "idle"
    BY DEF Resting
  <1>2. ListedWhole'
    BY <1>1 DEF ResultStoreInv, ListedWhole, Filled, ResultOf, Busy
  <1>3. ASSUME ~together PROVE InTurn'
    BY <1>1, <1>3 DEF ResultStoreInv, InTurn, Busy
  <1> QED
    BY <1>2, <1>3

LEMMA MakeFolderKeeps == ASSUME ResultStoreInv, NEW w \in Writer, MakeFolder(w) PROVE ResultStoreInv'
  <1> DEFINE own == ResultOf(w)
             to == [persisting[w] EXCEPT !.step = "files"]
  <1>1. /\ persisting[w].step = "mkdir" /\ Chosen(w) /\ Busy(w) /\ w \notin Scanning
        /\ persisting[w] \in Chosens /\ own \in Result
        /\ UNCHANGED <<index, torn, returned, begun, together>>
    BY WriterTypes DEF MakeFolder, ResultStoreInv, Chosen, Choosing, Scanning, Busy
  <1>2. own.number = persisting[w].number /\ own.number <= Taken
    BY <1>1 DEF ResultOf, ResultStoreInv, NumbersBounded
  <1>3. CASE own \in DOMAIN folders
    <2>1. Proceeds(w, Resting) /\ UNCHANGED folders
      BY <1>3 DEF MakeFolder, Rests
    <2>2. /\ ResultStoreTypeOK' /\ persisting'[w] = Resting
          /\ \A v \in Writer : v # w => persisting'[v] = persisting[v]
          /\ Scanning' = Scanning \ {w}
      BY <1>1, <2>1, ProceedsOwn DEF ResultStoreInv, ResultStoreTypeOK, Resting
    <2>3. ~Busy(w)' /\ ~Chosen(w)'
      BY <2>2 DEF Busy, Chosen, Choosing, Resting
    <2>4. NumbersBounded'
      BY <1>1, <2>1, <2>2, <2>3, SameBound
    <2> QED
      BY <1>1, <2>1, <2>2, <2>4, RestKeeps DEF ResultStoreInv
  <1>4. CASE own \notin DOMAIN folders
    <2>1. /\ Proceeds(w, to)
          /\ folders' = [r \in DOMAIN folders \cup {own} |-> IF r = own THEN FALSE ELSE folders[r]]
      BY <1>4 DEF MakeFolder
    <2>2. /\ to \in Chosens /\ to.step = "files" /\ to.read = persisting[w].read
          /\ to.number = persisting[w].number /\ to.slug = persisting[w].slug
      BY <1>1 DEF Chosens, Choosing
    <2>3. /\ DOMAIN folders' = DOMAIN folders \cup {own}
          /\ \A r \in DOMAIN folders : folders'[r] = folders[r]
          /\ folders'[own] = FALSE
          /\ DOMAIN folders' \subseteq Result
          /\ \A r \in DOMAIN folders' : folders'[r] \in BOOLEAN
      BY <1>1, <1>4, <2>1 DEF ResultStoreInv, ResultStoreTypeOK
    <2>4. /\ ResultStoreTypeOK' /\ persisting'[w] = to
          /\ \A v \in Writer : v # w => persisting'[v] = persisting[v]
          /\ Scanning' = Scanning \ {w}
      <3> HIDE DEF to
      <3> QED
        BY <1>1, <2>1, <2>2, <2>3, ProceedsOwn DEF ResultStoreInv, ResultStoreTypeOK
    <2>5. NumbersBounded'
      BY <1>1, <1>2, <2>2, <2>3, <2>4, SameBound
    <2>6. ListedWhole'
      <3>1. \A r : Filled(r) => Filled(r)'
        BY <2>3 DEF Filled
      <3>2. \A v \in Writer : Busy(v)' => Busy(v) /\ persisting'[v].read = persisting[v].read
        BY <1>1, <2>2, <2>4 DEF Busy
      <3>3. \A v \in Writer : ResultOf(v)' = ResultOf(v)
        BY <2>2, <2>4 DEF ResultOf
      <3>4. \A v \in Writer : persisting'[v].step \in {"index", "rewrite"} => v # w
        BY <2>2, <2>4
      <3>5. \A v \in Writer : persisting'[v].step = "files" => ResultOf(v)' \in DOMAIN folders'
        BY <2>2, <2>3, <2>4, <3>3 DEF ResultStoreInv, ListedWhole
      <3> QED
        BY <1>1, <2>4, <3>1, <3>2, <3>3, <3>4, <3>5 DEF ResultStoreInv, ListedWhole
    <2>7. ASSUME ~together PROVE InTurn'
      <3>1. InTurn
        BY <2>7 DEF ResultStoreInv
      <3>2. \A v \in Writer : Busy(v)' => v = w
        BY <1>1, <2>4, <3>1 DEF InTurn, Busy
      <3>3. persisting'[w].read = index /\ persisting'[w].step # "mkdir"
        BY <1>1, <2>2, <2>4, <3>1 DEF InTurn
      <3>4. \A r \in DOMAIN folders : r.number < own.number
        BY <1>1, <1>2, <3>1 DEF InTurn
      <3>5. \A r \in DOMAIN folders : r.number \in Nat
        BY ResultStoreAssumption DEF ResultStoreInv, ResultStoreTypeOK, Result, Number
      <3>6. \A r, s \in DOMAIN folders' : r.number = s.number => r = s
        <4>1. own.number \in Nat /\ \A r \in DOMAIN folders : r.number # own.number
          BY <1>1, <3>4, <3>5, ResultStoreAssumption DEF Result, Number
        <4> QED
          BY <2>3, <3>1, <4>1 DEF InTurn
      <3>7. \A v \in Writer : persisting'[v].step # "mkdir"
        BY <3>2, <3>3 DEF Busy
      <3> QED
        BY <1>1, <3>1, <3>2, <3>3, <3>6, <3>7 DEF InTurn
    <2> QED
      BY <1>1, <2>4, <2>5, <2>6, <2>7 DEF ResultStoreInv
  <1> QED
    BY <1>3, <1>4

LEMMA WriteFilesKeeps == ASSUME ResultStoreInv, NEW w \in Writer, WriteFiles(w) PROVE ResultStoreInv'
  <1> DEFINE own == ResultOf(w)
             to == [persisting[w] EXCEPT !.step = "index"]
  <1>1. /\ persisting[w].step = "files" /\ Chosen(w) /\ Busy(w) /\ w \notin Scanning
        /\ persisting[w] \in Chosens /\ own \in DOMAIN folders
        /\ Proceeds(w, to) /\ folders' = [folders EXCEPT ![own] = TRUE]
        /\ UNCHANGED <<index, torn, returned, begun, together>>
    BY WriterTypes DEF WriteFiles, ResultStoreInv, ListedWhole, Chosen, Choosing, Scanning, Busy
  <1>2. /\ to \in Chosens /\ to.step = "index" /\ to.read = persisting[w].read
        /\ to.number = persisting[w].number /\ to.slug = persisting[w].slug
    BY <1>1 DEF Chosens, Choosing
  <1>3. /\ DOMAIN folders' = DOMAIN folders /\ folders'[own] = TRUE
        /\ \A r \in DOMAIN folders : folders'[r] = IF r = own THEN TRUE ELSE folders[r]
        /\ DOMAIN folders' \subseteq Result
        /\ \A r \in DOMAIN folders' : folders'[r] \in BOOLEAN
    BY <1>1 DEF ResultStoreInv, ResultStoreTypeOK
  <1>4. /\ ResultStoreTypeOK' /\ persisting'[w] = to
        /\ \A v \in Writer : v # w => persisting'[v] = persisting[v]
        /\ Scanning' = Scanning \ {w}
    <2> HIDE DEF to
    <2> QED
      BY <1>1, <1>2, <1>3, ProceedsOwn DEF ResultStoreInv, ResultStoreTypeOK
  <1>5. NumbersBounded'
    BY <1>1, <1>2, <1>3, <1>4, SameBound
  <1>6. ListedWhole'
    <2>1. \A r : Filled(r) => Filled(r)'
      BY <1>3 DEF Filled
    <2>2. \A v \in Writer : Busy(v)' => Busy(v) /\ persisting'[v].read = persisting[v].read
      BY <1>1, <1>2, <1>4 DEF Busy
    <2>3. \A v \in Writer : ResultOf(v)' = ResultOf(v)
      BY <1>2, <1>4 DEF ResultOf
    <2>4. Filled(ResultOf(w))'
      BY <1>1, <1>3, <2>3 DEF Filled
    <2> QED
      BY <1>1, <1>2, <1>3, <1>4, <2>1, <2>2, <2>3, <2>4 DEF ResultStoreInv, ListedWhole
  <1>7. ASSUME ~together PROVE InTurn'
    <2>1. InTurn
      BY <1>7 DEF ResultStoreInv
    <2>2. \A v \in Writer : Busy(v)' => Busy(v) /\ persisting'[v].read = persisting[v].read
      BY <1>1, <1>2, <1>4 DEF Busy
    <2>3. \A v \in Writer : persisting'[v].step = "mkdir" =>
              persisting[v].step = "mkdir" /\ persisting'[v].number = persisting[v].number
      BY <1>2, <1>4
    <2> QED
      BY <1>1, <1>3, <2>1, <2>2, <2>3 DEF InTurn
  <1> QED
    BY <1>1, <1>4, <1>5, <1>6, <1>7 DEF ResultStoreInv

LEMMA OpenIndexKeeps == ASSUME ResultStoreInv, NEW w \in Writer, OpenIndex(w) PROVE ResultStoreInv'
  <1> DEFINE to == [persisting[w] EXCEPT !.step = "rewrite"]
  <1>1. /\ persisting[w].step = "index" /\ Chosen(w) /\ Busy(w) /\ w \notin Scanning
        /\ persisting[w] \in Chosens /\ Proceeds(w, to) /\ torn' = TRUE
        /\ UNCHANGED <<folders, index, returned, begun, together>>
    BY WriterTypes DEF OpenIndex, ResultStoreInv, Chosen, Choosing, Scanning, Busy
  <1>2. /\ to \in Chosens /\ to.step = "rewrite" /\ to.read = persisting[w].read
        /\ to.number = persisting[w].number /\ to.slug = persisting[w].slug
    BY <1>1 DEF Chosens, Choosing
  <1>3. /\ ResultStoreTypeOK' /\ persisting'[w] = to
        /\ \A v \in Writer : v # w => persisting'[v] = persisting[v]
        /\ Scanning' = Scanning \ {w}
    <2> HIDE DEF to
    <2> QED
      BY <1>1, <1>2, ProceedsOwn DEF ResultStoreInv, ResultStoreTypeOK
  <1>4. NumbersBounded'
    BY <1>1, <1>2, <1>3, SameBound
  <1>5. ListedWhole'
    <2>1. \A v \in Writer : Busy(v)' => Busy(v) /\ persisting'[v].read = persisting[v].read
      BY <1>1, <1>2, <1>3 DEF Busy
    <2>2. \A v \in Writer : ResultOf(v)' = ResultOf(v)
      BY <1>2, <1>3 DEF ResultOf
    <2> QED
      BY <1>1, <1>2, <1>3, <2>1, <2>2 DEF ResultStoreInv, ListedWhole, Filled
  <1>6. ASSUME ~together PROVE InTurn'
    <2>1. InTurn
      BY <1>6 DEF ResultStoreInv
    <2> QED
      BY <1>1, <1>2, <1>3, <2>1 DEF InTurn, Busy
  <1> QED
    BY <1>1, <1>3, <1>4, <1>5, <1>6 DEF ResultStoreInv

LEMMA WriteIndexKeeps == ASSUME ResultStoreInv, NEW w \in Writer, WriteIndex(w) PROVE ResultStoreInv'
  <1> DEFINE own == ResultOf(w)
  <1>1. /\ persisting[w].step = "rewrite" /\ Chosen(w) /\ Busy(w) /\ w \notin Scanning
        /\ persisting[w] \in Chosens /\ own \in Result
        /\ Proceeds(w, Resting) /\ torn' = FALSE /\ returned' = returned \cup {own}
        /\ index' = [next |-> persisting[w].number + 1, results |-> persisting[w].read.results \cup {own}]
        /\ UNCHANGED <<folders, begun, together>>
    BY WriterTypes DEF WriteIndex, Rests, ResultStoreInv, Chosen, Choosing, Scanning, Busy
  <1>2. /\ persisting[w].read \in Index /\ persisting[w].number \in Nat /\ persisting[w].number >= 1
        /\ persisting[w].number <= Taken /\ Taken \in Nat
    BY <1>1, WriterTypes, ResultStoreAssumption DEF ResultStoreInv, NumbersBounded, Number
  <1>3. index' \in Index /\ index'.next <= Taken + 1
    <2>1. persisting[w].number + 1 \in Number
      <3>1. Taken <= MaxPersists /\ MaxPersists \in Nat
        <4>1. begun \in Nat /\ begun <= MaxPersists /\ Cardinality(Scanning) \in Nat
          BY FS_CardinalityType, ResultStoreAssumption DEF ResultStoreInv, ResultStoreTypeOK, NumbersBounded
        <4> QED
          BY <4>1, ResultStoreAssumption DEF Taken
      <3> QED
        BY <1>2, <3>1 DEF Number
    <2>2. persisting[w].read.results \cup {own} \in SUBSET Result
      BY <1>1, <1>2 DEF Index
    <2> QED
      BY <1>1, <1>2, <2>1, <2>2 DEF Index
  <1>4. /\ ResultStoreTypeOK' /\ persisting'[w] = Resting
        /\ \A v \in Writer : v # w => persisting'[v] = persisting[v]
        /\ Scanning' = Scanning \ {w}
    BY <1>1, <1>3, ProceedsOwn DEF ResultStoreInv, ResultStoreTypeOK, Resting
  <1>5. ~Busy(w)' /\ ~Chosen(w)'
    BY <1>4 DEF Busy, Chosen, Choosing, Resting
  <1>6. NumbersBounded'
    BY <1>1, <1>3, <1>4, <1>5, SameBound
  <1>7. ListedWhole'
    <2>1. \A r \in index'.results : Filled(r)
      BY <1>1 DEF ResultStoreInv, ListedWhole
    <2>2. /\ persisting'[w].step = "idle"
          /\ \A v \in Writer : v # w => persisting'[v] = persisting[v]
      BY <1>4 DEF Resting
    <2> QED
      BY <1>1, <2>1, <2>2 DEF ResultStoreInv, ListedWhole, Filled, ResultOf, Busy
  <1>8. ASSUME ~together PROVE InTurn'
    <2>1. InTurn
      BY <1>8 DEF ResultStoreInv
    <2>2. \A v \in Writer : ~Busy(v)'
      BY <1>1, <1>4, <1>5, <2>1 DEF InTurn, Busy
    <2>3. \A v \in Writer : persisting'[v].step # "mkdir"
      BY <2>2 DEF Busy
    <2>4. returned' \subseteq index'.results
      BY <1>1, <2>1 DEF InTurn
    <2> QED
      BY <1>1, <2>1, <2>2, <2>3, <2>4 DEF InTurn
  <1> QED
    BY <1>1, <1>4, <1>6, <1>7, <1>8 DEF ResultStoreInv

LEMMA KilledKeeps == ASSUME ResultStoreInv, NEW w \in Writer, Killed(w) PROVE ResultStoreInv'
  <1>1. /\ persisting' = [v \in Writer |-> Resting]
        /\ UNCHANGED <<folders, index, torn, returned, begun, together>>
    BY DEF Killed
  <1>2. /\ \A v \in Writer : persisting'[v] = Resting /\ ~Busy(v)' /\ ~Chosen(v)'
        /\ \A v \in Writer : persisting'[v].step = "idle"
    BY <1>1 DEF Resting, Busy, Chosen, Choosing
  <1>3. ResultStoreTypeOK'
    BY <1>1, <1>2 DEF ResultStoreInv, ResultStoreTypeOK, Result, Number, Index
  <1>4. NumbersBounded'
    <2>1. Scanning' = {}
      BY <1>2 DEF Scanning
    <2>2. Cardinality(Scanning) \in Nat /\ begun \in Nat
      BY FS_CardinalityType, ResultStoreAssumption DEF ResultStoreInv, ResultStoreTypeOK, NumbersBounded
    <2>3. IsFiniteSet(Scanning') /\ Taken' \in Nat /\ Taken <= Taken'
      BY <1>1, <2>1, <2>2, FS_EmptySet DEF Taken
    <2> QED
      BY <1>1, <1>2, <2>3, BoundGrows
  <1>5. ListedWhole'
    BY <1>1, <1>2 DEF ResultStoreInv, ListedWhole, Filled
  <1>6. ASSUME ~together PROVE InTurn'
    BY <1>1, <1>2, <1>6 DEF ResultStoreInv, InTurn
  <1> QED
    BY <1>1, <1>3, <1>4, <1>5, <1>6 DEF ResultStoreInv

LEMMA ResultStoreStart == ResultStoreInit => ResultStoreInv
  <1> SUFFICES ASSUME ResultStoreInit PROVE ResultStoreInv
    OBVIOUS
  <1>1. /\ DOMAIN folders = {} /\ index = [next |-> 1, results |-> {}] /\ torn = FALSE
        /\ DOMAIN persisting = Writer /\ returned = {} /\ begun = 0 /\ together \in Together
        /\ \A w \in Writer : persisting[w] = Resting /\ persisting[w].step = "idle"
    BY DEF ResultStoreInit, Resting
  <1>2. ResultStoreTypeOK
    <2>1. index \in Index
      BY <1>1, ResultStoreAssumption DEF Index, Number
    <2>2. begun \in 0..MaxPersists /\ returned \subseteq Result
      BY <1>1, ResultStoreAssumption
    <2>3. DOMAIN folders \subseteq Result /\ \A r \in DOMAIN folders : folders[r] \in BOOLEAN
      BY <1>1
    <2>4. torn \in BOOLEAN
      BY <1>1
    <2> QED
      BY <1>1, <2>1, <2>2, <2>3, <2>4 DEF ResultStoreTypeOK
  <1>3. NumbersBounded
    <2>1. Scanning = {}
      BY <1>1 DEF Scanning
    <2> QED
      BY <1>1, <2>1, FS_EmptySet DEF NumbersBounded, Taken, Busy, Chosen, Choosing
  <1> QED
    BY <1>1, <1>2, <1>3 DEF ResultStoreInv, ListedWhole, InTurn, Busy

LEMMA ResultStoreStep == ResultStoreInv /\ [StoreNext]_storeVars => ResultStoreInv'
  <1> SUFFICES ASSUME ResultStoreInv, [StoreNext]_storeVars PROVE ResultStoreInv'
    OBVIOUS
  <1>1. CASE UNCHANGED storeVars
    BY <1>1 DEF storeVars, ResultStoreInv, ResultStoreTypeOK, Result, Number, Index, NumbersBounded,
                Scanning, Taken, ListedWhole, Filled, ResultOf, InTurn, Busy, Chosen
  <1> QED
    BY <1>1, ReadIndexKeeps, ScanKeeps, MakeFolderKeeps, WriteFilesKeeps, OpenIndexKeeps,
       WriteIndexKeeps, KilledKeeps DEF StoreNext

LEMMA ResultStoreInvariant == StoreSpec => []ResultStoreInv
  BY ResultStoreStart, ResultStoreStep, PTL DEF StoreSpec

\* Type correctness; no number is further than the persists begun (persist).
THEOREM ResultStoreTypeCorrect == StoreSpec => []ResultStoreTypeOK
  <1>1. ResultStoreInv => ResultStoreTypeOK
    BY DEF ResultStoreInv
  <1> QED
    BY <1>1, ResultStoreInvariant, PTL

\* Writers that take turns give every result a number of its own
\* (_next_sequence).
THEOREM NumbersAreUnique == StoreSpec => []OneNumberEach
  <1>1. ResultStoreInv => OneNumberEach
    BY DEF ResultStoreInv, InTurn, OneNumberEach
  <1> QED
    BY <1>1, ResultStoreInvariant, PTL

\* What the index lists is there with all its files, and writers that take
\* turns drop nothing from it (persist).
THEOREM IndexIsTrue == StoreSpec => []IndexTells
  <1>1. ResultStoreInv => IndexTells
    BY DEF ResultStoreInv, ListedWhole, Filled, InTurn, IndexTells
  <1> QED
    BY <1>1, ResultStoreInvariant, PTL
=============================================================================

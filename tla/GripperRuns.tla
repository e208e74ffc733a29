------------------------------ MODULE GripperRuns ------------------------------
(***************************************************************************)
(* One live gripper run: GripperRunStore of the API (gripper_runs.py) and  *)
(* its child process (gripper/run_worker.py), which share the files        *)
(* run.json and ready.json of the run's directory.  Every write replaces   *)
(* the whole file, so what a process writes is what it last read with its  *)
(* own changes.                                                            *)
(*                                                                         *)
(* The API may restart at any moment, which loses its process handles and  *)
(* cuts off the calls in progress; the child lives on.  The child may die  *)
(* at any moment.  A signal ends the child before the call that sent it    *)
(* goes on.  The handlers run in threads, and abort holds the lock only to *)
(* take the handle, so aborts of the run overlap.  Left out: a Popen that  *)
(* fails, the clip, the log, and all of the record but its status, its pid *)
(* and the child's progress.                                               *)
(***************************************************************************)
EXTENDS Integers

CONSTANTS
    Aborter,       \* the calls of abort that may be in progress at once
    MaxProgress,   \* the number of progress events of a run
    MaxRestarts    \* how often the API is restarted in an exploration

ASSUME GripperRunsAssumption == MaxProgress \in Nat /\ MaxRestarts \in Nat

VARIABLES
    runFile,    \* run.json
    marker,     \* whether ready.json is there
    starting,   \* where start is
    handle,     \* whether _processes has the child
    child,      \* where the child process is
    childState, \* the child's copy of the record
    aborting,   \* where each abort is
    abortState, \* the record it has read
    abortBegan, \* (history) when it read it: before start had returned ("early"),
                \* or after it, in the same or in a reloaded API process
    abortedBy,  \* (history) when the abort began that wrote last
    restarts    \* restarts so far

gripperVars == <<runFile, marker, starting, handle, child, childState, aborting,
                 abortState, abortBegan, abortedBy, restarts>>

Ended == {"completed", "failed", "aborted"}     \* _TERMINAL
RunRecord == [status : {"queued", "running"} \cup Ended, pid : BOOLEAN, progress : 0..MaxProgress]
NoFile == [status |-> "absent", pid |-> FALSE, progress |-> 0]
Beginning == {"early", "same", "reloaded"}

GripperRunsTypeOK ==
    /\ runFile \in RunRecord \cup {NoFile}
    /\ marker \in BOOLEAN /\ handle \in BOOLEAN
    /\ abortBegan \in [Aborter -> Beginning] /\ abortedBy \in Beginning
    /\ starting \in {"idle", "spawn", "pid", "marker", "handle", "done"}
    /\ child \in {"none", "read", "wait", "begin", "act", "failing", "dead"}
    /\ childState \in RunRecord \cup {NoFile}
    /\ aborting \in [Aborter -> {"idle", "take", "stop", "write"}]
    /\ abortState \in [Aborter -> RunRecord \cup {NoFile}]
    /\ restarts \in 0..MaxRestarts

OfEach(value) == [a \in Aborter |-> value]

GripperRunsInit ==
    /\ runFile = NoFile /\ marker = FALSE /\ starting = "idle" /\ handle = FALSE
    /\ child = "none" /\ childState = NoFile
    /\ aborting = OfEach("idle") /\ abortState = OfEach(NoFile)
    /\ abortBegan = OfEach("early") /\ abortedBy = "early" /\ restarts = 0

Alive == child \notin {"none", "dead"}

-----------------------------------------------------------------------------
(* start: the record, the child, the record with its pid, the marker and   *)
(* the handle, each a step another process may come between.               *)

startVars == <<runFile, marker, starting, handle>>
childVars == <<child, childState>>
abortVars == <<aborting, abortState, abortBegan, abortedBy>>

StartRecord ==
    /\ starting = "idle" /\ starting' = "spawn"
    /\ runFile' = [status |-> "queued", pid |-> FALSE, progress |-> 0]
    /\ UNCHANGED <<marker, handle, childVars, abortVars, restarts>>

Spawn ==
    /\ starting = "spawn" /\ starting' = "pid"
    /\ child' = "read"
    /\ UNCHANGED <<runFile, marker, handle, childState, abortVars, restarts>>

WritePid ==     \* start's own record, whatever run.json has become
    /\ starting = "pid" /\ starting' = "marker"
    /\ runFile' = [status |-> "running", pid |-> TRUE, progress |-> 0]
    /\ UNCHANGED <<marker, handle, childVars, abortVars, restarts>>

WriteMarker ==
    /\ starting = "marker" /\ starting' = "handle"
    /\ marker' = TRUE
    /\ UNCHANGED <<runFile, handle, childVars, abortVars, restarts>>

KeepHandle ==
    /\ starting = "handle" /\ starting' = "done"
    /\ handle' = TRUE
    /\ UNCHANGED <<runFile, marker, childVars, abortVars, restarts>>

Reap ==         \* get drops the handle of a child that has exited
    /\ handle /\ ~Alive
    /\ handle' = FALSE
    /\ UNCHANGED <<runFile, marker, starting, childVars, abortVars, restarts>>

-----------------------------------------------------------------------------
(* The child: reads the record, waits for the marker, then writes its own  *)
(* copy of the record at every event.                                      *)

ChildRead ==
    /\ child = "read" /\ child' = "wait"
    /\ childState' = runFile
    /\ UNCHANGED <<startVars, abortVars, restarts>>

ChildWrite(next, status, progress) ==
    /\ childState' = [childState EXCEPT !.status = status, !.progress = progress]
    /\ runFile' = childState' /\ child' = next
    /\ UNCHANGED <<marker, starting, handle, abortVars, restarts>>

\* (mutant) the child does not wait for the marker
ChildBeginAtOnce == child = "wait" /\ ChildWrite("act", "running", childState.progress)
ChildBegin == child = "wait" /\ marker /\ ChildWrite("act", "running", childState.progress)
ChildTimeout ==     \* no marker within five seconds
    child = "wait" /\ ~marker
    /\ ChildWrite("dead", "failed", childState.progress)
ChildProgress ==
    /\ child = "act" /\ childState.progress < MaxProgress
    /\ ChildWrite("act", "running", childState.progress + 1)
ChildComplete == child = "act" /\ ChildWrite("dead", "completed", childState.progress)
ChildFail == child = "act" /\ ChildWrite("dead", "failed", childState.progress)
ChildDies ==        \* killed from outside: nothing is written
    /\ Alive /\ child' = "dead"
    /\ UNCHANGED <<startVars, childState, abortVars, restarts>>

-----------------------------------------------------------------------------
(* abort: reads the record, takes the handle, stops the child and writes   *)
(* the record it read back as aborted.                                     *)

AbortGoes(a, place) == aborting' = [aborting EXCEPT ![a] = place]

AbortRead(a) ==
    /\ aborting[a] = "idle" /\ runFile.status \in {"queued", "running"}
    /\ AbortGoes(a, "take") /\ abortState' = [abortState EXCEPT ![a] = runFile]
    /\ abortBegan' = [abortBegan EXCEPT ![a] =
           IF ~(marker /\ starting = "done") THEN "early"
           ELSE IF restarts = 0 THEN "same" ELSE "reloaded"]
    /\ UNCHANGED <<startVars, childVars, abortedBy, restarts>>

\* (mutant) the record is written before the child is stopped
AbortTakeOnly(a) ==
    /\ aborting[a] = "take" /\ AbortGoes(a, "write")
    /\ handle' = FALSE
    /\ UNCHANGED <<runFile, marker, starting, childVars, abortState, abortBegan, abortedBy,
                   restarts>>
\* With a handle the child is terminated, killed if need be, and waited for;
\* without one the pid of the record is signalled, if it is there.
AbortTake(a) ==
    /\ aborting[a] = "take" /\ AbortGoes(a, IF handle THEN "stop" ELSE "write")
    /\ handle' = FALSE
    /\ IF handle \/ ~abortState[a].pid THEN UNCHANGED child
       ELSE child' = IF Alive THEN "dead" ELSE child
    /\ UNCHANGED <<runFile, marker, starting, childState, abortState, abortBegan, abortedBy,
                   restarts>>

AbortStop(a) ==
    /\ aborting[a] = "stop" /\ AbortGoes(a, "write")
    /\ child' = "dead"
    /\ UNCHANGED <<startVars, childState, abortState, abortBegan, abortedBy, restarts>>

AbortWrite(a) ==
    /\ aborting[a] = "write" /\ AbortGoes(a, "idle")
    /\ runFile' = [abortState[a] EXCEPT !.status = "aborted"]
    /\ abortState' = [abortState EXCEPT ![a] = NoFile]
    /\ abortedBy' = abortBegan[a] /\ abortBegan' = [abortBegan EXCEPT ![a] = "early"]
    /\ UNCHANGED <<marker, starting, handle, childVars, restarts>>

AbortStep(a) == AbortRead(a) \/ AbortTake(a) \/ AbortStop(a) \/ AbortWrite(a)

Restart ==      \* the API process is replaced
    /\ restarts < MaxRestarts /\ restarts' = restarts + 1
    /\ handle' = FALSE
    /\ starting' = IF starting = "idle" THEN "idle" ELSE "done"
    /\ aborting' = OfEach("idle") /\ abortState' = OfEach(NoFile)
    /\ abortBegan' = OfEach("early")
    /\ UNCHANGED <<runFile, marker, childVars, abortedBy>>

GripperRunsNext ==
    \/ StartRecord \/ Spawn \/ WritePid \/ WriteMarker \/ KeepHandle \/ Reap
    \/ ChildRead \/ ChildBegin \/ ChildTimeout \/ ChildProgress
    \/ ChildComplete \/ ChildFail \/ ChildDies
    \/ \E a \in Aborter : AbortStep(a)
    \/ Restart

GripperRunsSpec == GripperRunsInit /\ [][GripperRunsNext]_gripperVars

-----------------------------------------------------------------------------

\* The marker does its work: the record with the pid, which start writes last,
\* never takes back progress the child has reported.  Only the write of an
\* abort, which puts back what it read, may (start, execute).
ProgressKept ==
    [][runFile'.progress < runFile.progress => \E a \in Aborter : AbortWrite(a)]_gripperVars

\* As long as the API is not restarted, a run recorded as aborted by a call
\* that began after start had returned has no child that could write over it,
\* unless another abort, which took the handle, is still stopping the child:
\* the handle is enough, even though the child's writes may have dropped the
\* pid, and whichever of the aborts gets it (abort).
AbortSettles ==
    restarts = 0 /\ abortedBy = "same" /\ runFile.status = "aborted" =>
        ~Alive \/ \E a \in Aborter : aborting[a] = "stop"

\* "Supports abort after an API reload, when the child still lives but its
\* Popen handle no longer does" (abort): a run started and then aborted by a
\* reloaded API has no child at work once it is recorded as aborted.
AbortStopsChild == abortedBy = "reloaded" /\ runFile.status = "aborted" => ~Alive
=============================================================================

------------------------------ MODULE LiveBenchmark ------------------------------
(***************************************************************************)
(* One case of the supported live benchmark: run_case of                   *)
(* benchmark/live_runner.py, called again and again by operators, and the  *)
(* checkpoint it leaves.  The process may be killed at any point; an       *)
(* artifact the checkpoint refers to may be lost between two calls.        *)
(*                                                                         *)
(* Stages complete in their order, so a count tells which are complete.    *)
(* What stages compute, and the text of blockers, is left out.             *)
(***************************************************************************)
EXTENDS Integers, Sequences

CONSTANTS
    CallBound,    \* model_call_upper_bound of each stage after the preflight
    MaxCaseCalls, \* max_model_calls_per_case
    AttemptLimit, \* stage_attempt_limit
    MaxKills,     \* how often the process is killed in an exploration
    MaxLosses     \* how often an artifact is lost in an exploration

ASSUME LiveBenchmarkAssumption ==
    /\ CallBound \in Seq(Nat) /\ MaxCaseCalls \in Nat /\ AttemptLimit \in Nat \ {0}
    /\ MaxKills \in Nat /\ MaxLosses \in Nat

Stage == DOMAIN CallBound

VARIABLES
    checkpoint, \* the case's state file
    state,      \* the state run_case holds
    running,    \* where run_case is
    intact,     \* whether every artifact the checkpoint refers to is there
    started,    \* (history) how often each stage was started
    kills, losses

benchVars == <<checkpoint, state, running, intact, started, kills, losses>>

StartCap == AttemptLimit * (MaxLosses + 1) + MaxKills + 1

CaseState == [status : {"absent", "pending", "blocked", "failed", "complete"},
              preflight : BOOLEAN, completed : 0..Len(CallBound),
              attempts : [Stage -> 0..AttemptLimit], used : 0..MaxCaseCalls]
InitialState(status) ==
    [status |-> status, preflight |-> FALSE, completed |-> 0,
     attempts |-> [s \in Stage |-> 0], used |-> 0]

LiveBenchmarkTypeOK ==
    /\ checkpoint \in CaseState /\ state \in CaseState
    /\ running \in {"no", "next", "stage", "save"} /\ intact \in BOOLEAN
    /\ started \in [Stage -> 0..StartCap]
    /\ kills \in 0..MaxKills /\ losses \in 0..MaxLosses

LiveBenchmarkInit ==
    /\ checkpoint = InitialState("absent") /\ state = InitialState("absent")
    /\ running = "no" /\ intact = TRUE
    /\ started = [s \in Stage |-> 0] /\ kills = 0 /\ losses = 0

surroundings == <<intact, kills, losses>>
Current == state.completed + 1
AllDone == state.completed = Len(CallBound)

-----------------------------------------------------------------------------

\* _load_state verifies every artifact; a checkpoint that fails is replaced
\* by a blocked one that knows nothing.
LoadBroken ==
    /\ running = "no" /\ ~intact
    /\ checkpoint' = InitialState("blocked") /\ intact' = TRUE
    /\ UNCHANGED <<state, running, started, kills, losses>>

\* (mutant) the completed stages are not taken over
LoadFromTheStart ==
    /\ running = "no" /\ intact /\ checkpoint.status # "complete"
    /\ running' = "next"
    /\ LET old == IF checkpoint.status = "absent" THEN InitialState("pending") ELSE checkpoint
       IN  state' = [old EXCEPT !.preflight = TRUE, !.completed = 0]
    /\ checkpoint' = IF checkpoint.preflight THEN checkpoint ELSE state'
    /\ UNCHANGED <<started, surroundings>>
LoadAndPreflight ==
    /\ running = "no" /\ intact /\ checkpoint.status # "complete"
    /\ running' = "next"
    /\ LET old == IF checkpoint.status = "absent" THEN InitialState("pending") ELSE checkpoint
       IN  state' = [old EXCEPT !.preflight = TRUE]
    /\ checkpoint' = IF checkpoint.preflight THEN checkpoint ELSE state'
    /\ UNCHANGED <<started, surroundings>>

Closes(status) ==
    /\ state' = [state EXCEPT !.status = status]
    /\ running' = "save"

OutOfBudget ==      \* of attempts, or of model calls
    /\ running = "next" /\ ~AllDone
    /\ \/ state.attempts[Current] >= AttemptLimit
       \/ CallBound[Current] > MaxCaseCalls - state.used
    /\ Closes("blocked")
    /\ UNCHANGED <<checkpoint, started, surroundings>>

\* (mutant) the attempts are not looked at
StartStageAnyway ==
    /\ running = "next" /\ ~AllDone
    /\ CallBound[Current] <= MaxCaseCalls - state.used
    /\ running' = "stage"
    /\ state' = [state EXCEPT !.attempts[Current] = @ + 1]
    /\ started' = [started EXCEPT ![Current] = IF @ < StartCap THEN @ + 1 ELSE @]
    /\ UNCHANGED <<checkpoint, surroundings>>
StartStage ==
    /\ running = "next" /\ ~AllDone
    /\ state.attempts[Current] < AttemptLimit
    /\ CallBound[Current] <= MaxCaseCalls - state.used
    /\ running' = "stage"
    /\ state' = [state EXCEPT !.attempts[Current] = @ + 1]
    /\ started' = [started EXCEPT ![Current] = IF @ < StartCap THEN @ + 1 ELSE @]
    /\ UNCHANGED <<checkpoint, surroundings>>

StageCompletes ==   \* and is saved at once
    /\ running = "stage" /\ running' = "next"
    /\ \E used \in 0..CallBound[Current] :
           state' = [state EXCEPT !.completed = @ + 1, !.used = @ + used]
    /\ checkpoint' = state'
    /\ UNCHANGED <<started, surroundings>>

\* (mutant) an attempt that was blocked is given back
StageBlockedFree ==
    /\ running = "stage" /\ running' = "save"
    /\ state' = [state EXCEPT !.status = "blocked", !.attempts[Current] = @ - 1]
    /\ UNCHANGED <<checkpoint, started, surroundings>>
StageBlocked ==     \* the model calls it has made are not counted
    /\ running = "stage" /\ Closes("blocked")
    /\ UNCHANGED <<checkpoint, started, surroundings>>
StageRaises ==      \* also when it made more calls than it declared
    /\ running = "stage" /\ Closes("failed")
    /\ UNCHANGED <<checkpoint, started, surroundings>>

CaseComplete ==
    /\ running = "next" /\ AllDone /\ Closes("complete")
    /\ UNCHANGED <<checkpoint, started, surroundings>>

\* (mutant) only the status is saved at the end
SaveStatus ==
    /\ running = "save" /\ running' = "no"
    /\ checkpoint' = [checkpoint EXCEPT !.status = state.status]
    /\ state' = InitialState("absent")
    /\ UNCHANGED <<started, surroundings>>
Save ==
    /\ running = "save" /\ running' = "no"
    /\ checkpoint' = state
    /\ state' = InitialState("absent")
    /\ UNCHANGED <<started, surroundings>>

Kill ==
    /\ running # "no" /\ kills < MaxKills /\ kills' = kills + 1
    /\ running' = "no" /\ state' = InitialState("absent")
    /\ UNCHANGED <<checkpoint, started, intact, losses>>

LoseArtifact ==     \* nothing refers to artifacts before the preflight
    /\ running = "no" /\ intact /\ checkpoint.preflight
    /\ losses < MaxLosses /\ losses' = losses + 1
    /\ intact' = FALSE
    /\ UNCHANGED <<checkpoint, state, running, started, kills>>

RunCase ==
    \/ LoadBroken \/ LoadAndPreflight \/ OutOfBudget \/ StartStage
    \/ StageCompletes \/ StageBlocked \/ StageRaises \/ CaseComplete \/ Save

LiveBenchmarkNext == RunCase \/ Kill \/ LoseArtifact

\* Operators call run_case again until the case is complete or its stage is
\* out of budget, and a call gets on.
LiveBenchmarkSpec == LiveBenchmarkInit /\ [][LiveBenchmarkNext]_benchVars /\ WF_benchVars(RunCase)

-----------------------------------------------------------------------------

\* The attempts of a stage are counted across calls: it is started at most
\* AttemptLimit times, once more for every kill, and anew after the loss of
\* an artifact (run_case).
AttemptsHeld ==
    \A s \in Stage : started[s] <= AttemptLimit * (losses + 1) + kills

\* A stage the checkpoint has as complete is not run again, however often
\* run_case is called, killed or blocked in between (run_case, _load_state).
CompletedStands ==
    [][\A s \in Stage : started'[s] # started[s] => checkpoint.completed < s]_benchVars

OutOfAttempts ==
    /\ checkpoint.status = "blocked" /\ checkpoint.completed < Len(CallBound)
    /\ LET s == checkpoint.completed + 1
       IN  checkpoint.attempts[s] = AttemptLimit \/ CallBound[s] > MaxCaseCalls - checkpoint.used

\* Calling run_case again always comes to an end: the case is complete, or
\* its next stage is out of attempts or of model calls, for good; "absent" is
\* a case that was never begun.
CaseSettles == <>[](checkpoint.status \in {"absent", "complete"} \/ OutOfAttempts)
=============================================================================

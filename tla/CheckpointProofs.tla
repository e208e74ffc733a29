-------------------------- MODULE CheckpointProofs --------------------------
(***************************************************************************)
(* What is proved of the programs that record how far they got, and start  *)
(* again from there.                                                       *)
(*                                                                         *)
(* LiveBenchmark: for any number of stages, kills and losses, a stage is   *)
(* attempted no more often than its limit and what was lost account for,   *)
(* and a completed stage stays completed.                                  *)
(*                                                                         *)
(* SchemaMigrations: for any releases and any number of runners, a version *)
(* is recorded once, and what is recorded is what the releases of one line *)
(* planned, in their order.                                                *)
(***************************************************************************)
EXTENDS LiveBenchmark, SchemaMigrations, TLAPS

-----------------------------------------------------------------------------
(* LiveBenchmark: what is held of an attempt.                              *)

\* The starts that losses and kills account for.
Granted == AttemptLimit * losses + kills

\* The attempts that are on record, or will be.
Counted(s) ==
    IF running # "no" THEN state.attempts[s] ELSE IF intact THEN checkpoint.attempts[s] ELSE 0

\* What run_case holds is the checkpoint, but for the attempt it is in.
HeldState ==
    /\ running = "next" => state = checkpoint
    /\ running = "stage" =>
           /\ ~AllDone /\ CallBound[Current] <= MaxCaseCalls - state.used
           /\ state.completed = checkpoint.completed
           /\ \A s \in Stage : state.attempts[s] <= checkpoint.attempts[s] + 1
    /\ running = "save" =>
           /\ state.completed = checkpoint.completed
           /\ \A s \in Stage : state.attempts[s] <= checkpoint.attempts[s] + 1
    /\ running # "no" => intact /\ state.status # "absent"
    /\ checkpoint.status = "absent" => checkpoint = InitialState("absent")

\* Every start is an attempt on record, or owed to a loss or a kill.
StartsCounted == \A s \in Stage : started[s] <= Counted(s) + Granted

LiveBenchmarkInv == LiveBenchmarkTypeOK /\ HeldState /\ StartsCounted

-----------------------------------------------------------------------------

LEMMA BenchBounds ==
  /\ Len(CallBound) \in Nat /\ Stage = 1..Len(CallBound) /\ \A s \in Stage : CallBound[s] \in Nat
  /\ MaxCaseCalls \in Nat /\ AttemptLimit \in Nat /\ AttemptLimit > 0
  /\ MaxKills \in Nat /\ MaxLosses \in Nat /\ StartCap \in Nat
  <1>1. AttemptLimit * (MaxLosses + 1) \in Nat
    <2>1. \A a, b \in Nat : a * b \in Nat
      OBVIOUS
    <2> QED
      BY <2>1, LiveBenchmarkAssumption
  <1> QED
    BY <1>1, LiveBenchmarkAssumption DEF Stage, StartCap

LEMMA GrantedIsNatural ==
  ASSUME LiveBenchmarkTypeOK
  PROVE  /\ Granted \in Nat /\ losses \in Nat /\ kills \in Nat
         /\ AttemptLimit * (losses + 1) + kills = AttemptLimit + Granted
  <1>1. losses \in Nat /\ kills \in Nat
    BY BenchBounds DEF LiveBenchmarkTypeOK
  <1>2. AttemptLimit * losses \in Nat /\ AttemptLimit * (losses + 1) = AttemptLimit * losses + AttemptLimit
    <2>1. \A a, b \in Nat : a * b \in Nat /\ a * (b + 1) = a * b + a
      OBVIOUS
    <2> QED
      BY <1>1, <2>1, BenchBounds
  <1> QED
    BY <1>1, <1>2, BenchBounds DEF Granted

\* The types of what the steps read.
LEMMA BenchTypes ==
  ASSUME LiveBenchmarkTypeOK
  PROVE  /\ \A s \in Stage : /\ started[s] \in Nat /\ Counted(s) \in Nat
                             /\ state.attempts[s] \in 0..AttemptLimit
                             /\ checkpoint.attempts[s] \in 0..AttemptLimit
         /\ state.completed \in 0..Len(CallBound) /\ checkpoint.completed \in 0..Len(CallBound)
         /\ state.used \in 0..MaxCaseCalls
         /\ ~AllDone => Current \in Stage
  <1>1. /\ \A s \in Stage : /\ state.attempts[s] \in 0..AttemptLimit
                            /\ checkpoint.attempts[s] \in 0..AttemptLimit
                            /\ started[s] \in Nat
        /\ state.completed \in 0..Len(CallBound) /\ checkpoint.completed \in 0..Len(CallBound)
        /\ state.used \in 0..MaxCaseCalls
    BY BenchBounds DEF LiveBenchmarkTypeOK, CaseState
  <1>2. \A s \in Stage : Counted(s) \in Nat
    BY <1>1, BenchBounds DEF Counted
  <1>3. ~AllDone => Current \in Stage
    BY <1>1, BenchBounds DEF AllDone, Current
  <1> QED
    BY <1>1, <1>2, <1>3

LEMMA InitialStates ==
  ASSUME NEW status \in {"absent", "pending", "blocked", "failed", "complete"}
  PROVE  /\ InitialState(status) \in CaseState /\ InitialState(status).completed = 0
         /\ \A s \in Stage : InitialState(status).attempts[s] = 0
  BY BenchBounds DEF InitialState, CaseState

LEMMA LoadBrokenKeeps == ASSUME LiveBenchmarkInv, LoadBroken PROVE LiveBenchmarkInv'
  <1>1. checkpoint' \in CaseState /\ \A s \in Stage : checkpoint'.attempts[s] = 0
    BY InitialStates DEF LoadBroken
  <1>2. LiveBenchmarkTypeOK'
    BY <1>1 DEF LoadBroken, LiveBenchmarkInv, LiveBenchmarkTypeOK
  <1>3. HeldState'
    BY DEF LoadBroken, HeldState, InitialState
  <1>4. StartsCounted'
    BY <1>1 DEF LoadBroken, LiveBenchmarkInv, StartsCounted, Counted, Granted
  <1> QED
    BY <1>2, <1>3, <1>4 DEF LiveBenchmarkInv

LEMMA LoadAndPreflightKeeps == ASSUME LiveBenchmarkInv, LoadAndPreflight PROVE LiveBenchmarkInv'
  <1> DEFINE old == IF checkpoint.status = "absent" THEN InitialState("pending") ELSE checkpoint
  <1>1. old \in CaseState
    BY InitialStates DEF LiveBenchmarkInv, LiveBenchmarkTypeOK
  <1>2. /\ state' = [old EXCEPT !.preflight = TRUE]
        /\ checkpoint' = IF checkpoint.preflight THEN checkpoint ELSE state'
        /\ running = "no" /\ running' = "next" /\ intact
        /\ UNCHANGED <<started, intact, kills, losses>>
    BY DEF LoadAndPreflight, surroundings
  <1>3. /\ old.status # "absent"
        /\ checkpoint.preflight => old = checkpoint
        /\ old.attempts = checkpoint.attempts
    BY DEF InitialState, LiveBenchmarkInv, HeldState
  <1> HIDE DEF old
  <1>4. state' \in CaseState /\ state'.attempts = checkpoint.attempts /\ state'.status # "absent"
    <2>1. /\ state'.attempts = old.attempts /\ state'.status = old.status
          /\ state' \in CaseState
      BY <1>1, <1>2 DEF CaseState
    <2> QED
      BY <1>3, <2>1
  <1>5. state' = checkpoint'
    <2>1. CASE checkpoint.preflight
      <3>1. checkpoint = [checkpoint EXCEPT !.preflight = TRUE]
        BY <2>1 DEF CaseState, LiveBenchmarkInv, LiveBenchmarkTypeOK
      <3> QED
        BY <1>2, <1>3, <2>1, <3>1
    <2>2. CASE ~checkpoint.preflight
      BY <1>2, <2>2
    <2> QED
      BY <2>1, <2>2
  <1>6. LiveBenchmarkTypeOK'
    BY <1>2, <1>4, <1>5 DEF LiveBenchmarkInv, LiveBenchmarkTypeOK
  <1>7. HeldState'
    BY <1>2, <1>4, <1>5 DEF HeldState
  <1>8. StartsCounted'
    BY <1>2, <1>4 DEF LiveBenchmarkInv, StartsCounted, Counted, Granted
  <1> QED
    BY <1>6, <1>7, <1>8 DEF LiveBenchmarkInv

\* A blocked, failed or complete case is what is saved next.
LEMMA ClosesKeeps ==
  ASSUME LiveBenchmarkInv, running \in {"next", "stage"},
         NEW status \in {"blocked", "failed", "complete"}, Closes(status),
         UNCHANGED <<checkpoint, started, intact, kills, losses>>
  PROVE  LiveBenchmarkInv'
  <1>1. /\ state' \in CaseState /\ state'.attempts = state.attempts /\ state'.status # "absent"
        /\ state'.completed = state.completed /\ running' = "save"
    BY DEF Closes, CaseState, LiveBenchmarkInv, LiveBenchmarkTypeOK
  <1>2. LiveBenchmarkTypeOK'
    BY <1>1 DEF LiveBenchmarkInv, LiveBenchmarkTypeOK
  <1>3. HeldState'
    <2>1. \A s \in Stage : state.attempts[s] <= checkpoint.attempts[s] + 1
      BY BenchTypes, BenchBounds DEF LiveBenchmarkInv, HeldState
    <2> QED
      BY <1>1, <2>1 DEF LiveBenchmarkInv, HeldState
  <1>4. StartsCounted'
    BY <1>1 DEF LiveBenchmarkInv, StartsCounted, Counted, Granted
  <1> QED
    BY <1>2, <1>3, <1>4 DEF LiveBenchmarkInv

LEMMA StartStageKeeps == ASSUME LiveBenchmarkInv, StartStage PROVE LiveBenchmarkInv'
  <1>1. /\ running = "next" /\ running' = "stage" /\ ~AllDone
        /\ state.attempts[Current] < AttemptLimit
        /\ CallBound[Current] <= MaxCaseCalls - state.used
        /\ state' = [state EXCEPT !.attempts[Current] = @ + 1]
        /\ started' = [started EXCEPT ![Current] = IF @ < StartCap THEN @ + 1 ELSE @]
        /\ UNCHANGED <<checkpoint, intact, kills, losses>>
        /\ state = checkpoint /\ intact /\ state.status # "absent"
    BY DEF StartStage, surroundings, LiveBenchmarkInv, HeldState
  <1>2. Current \in Stage /\ state \in CaseState /\ started \in [Stage -> 0..StartCap]
    BY <1>1, BenchTypes DEF LiveBenchmarkInv, LiveBenchmarkTypeOK
  <1>3. /\ state.attempts \in [Stage -> 0..AttemptLimit]
        /\ \A s \in Stage : state.attempts[s] \in 0..AttemptLimit /\ started[s] \in 0..StartCap
    BY <1>2 DEF CaseState
  <1>4. /\ state'.completed = state.completed /\ state'.used = state.used
        /\ state'.status = state.status
        /\ state'.attempts = [state.attempts EXCEPT ![Current] = @ + 1]
        /\ state' \in CaseState
    <2>1. [state.attempts EXCEPT ![Current] = @ + 1] \in [Stage -> 0..AttemptLimit]
      BY <1>1, <1>2, <1>3, BenchBounds
    <2> QED
      BY <1>1, <1>2, <2>1 DEF CaseState
  <1>5. LiveBenchmarkTypeOK'
    <2>1. started' \in [Stage -> 0..StartCap]
      BY <1>1, <1>2, <1>3, BenchBounds
    <2> QED
      BY <1>1, <1>4, <2>1 DEF LiveBenchmarkInv, LiveBenchmarkTypeOK
  <1>6. HeldState'
    <2>1. Current' = Current /\ (AllDone)' = AllDone
      BY <1>4 DEF Current, AllDone
    <2>2. \A s \in Stage : state'.attempts[s] <= checkpoint'.attempts[s] + 1
      BY <1>1, <1>2, <1>3, <1>4, BenchBounds
    <2>3. checkpoint'.status # "absent" /\ intact' /\ state'.completed = checkpoint'.completed
      BY <1>1, <1>4
    <2> QED
      BY <1>1, <1>4, <2>1, <2>2, <2>3 DEF HeldState
  <1>7. StartsCounted'
    <2> SUFFICES ASSUME NEW s \in Stage PROVE started'[s] <= state'.attempts[s] + Granted
      BY <1>1 DEF StartsCounted, Counted, Granted
    <2>1. started[s] <= state.attempts[s] + Granted /\ Granted \in Nat
      BY <1>1, GrantedIsNatural DEF LiveBenchmarkInv, StartsCounted, Counted
    <2>2. CASE s = Current
      <3>1. started'[s] <= started[s] + 1
        BY <1>1, <1>2, <1>3, <2>2, BenchBounds
      <3>2. state'.attempts[s] = state.attempts[s] + 1
        BY <1>2, <1>3, <1>4, <2>2
      <3>3. started'[s] \in Nat
        BY <1>5, BenchBounds DEF LiveBenchmarkTypeOK
      <3> QED
        BY <1>3, <2>1, <3>1, <3>2, <3>3, BenchBounds
    <2>3. CASE s # Current
      BY <1>1, <1>2, <1>3, <1>4, <2>1, <2>3
    <2> QED
      BY <2>2, <2>3
  <1> QED
    BY <1>5, <1>6, <1>7 DEF LiveBenchmarkInv

LEMMA StageCompletesKeeps == ASSUME LiveBenchmarkInv, StageCompletes PROVE LiveBenchmarkInv'
  <1>1. /\ running = "stage" /\ running' = "next" /\ ~AllDone
        /\ CallBound[Current] <= MaxCaseCalls - state.used
        /\ checkpoint' = state' /\ intact /\ state.status # "absent"
        /\ UNCHANGED <<started, intact, kills, losses>>
    BY DEF StageCompletes, surroundings, LiveBenchmarkInv, HeldState
  <1>2. PICK used \in 0..CallBound[Current] :
            state' = [state EXCEPT !.completed = @ + 1, !.used = @ + used]
    BY DEF StageCompletes
  <1>3. /\ Current \in Stage /\ state \in CaseState /\ state.completed + 1 \in 0..Len(CallBound)
        /\ state.used + used \in 0..MaxCaseCalls
    <2>1. Current \in Stage /\ state \in CaseState /\ state.used \in 0..MaxCaseCalls
      BY <1>1, BenchTypes DEF LiveBenchmarkInv, LiveBenchmarkTypeOK
    <2>2. CallBound[Current] \in Nat
      BY <2>1, BenchBounds
    <2> QED
      BY <1>1, <1>2, <2>1, <2>2, BenchBounds DEF Current
  <1>4. state' \in CaseState /\ state'.attempts = state.attempts /\ state'.status = state.status
    BY <1>2, <1>3 DEF CaseState
  <1>5. LiveBenchmarkTypeOK'
    BY <1>1, <1>4 DEF LiveBenchmarkInv, LiveBenchmarkTypeOK
  <1>6. HeldState'
    BY <1>1, <1>4 DEF HeldState
  <1>7. StartsCounted'
    BY <1>1, <1>4 DEF LiveBenchmarkInv, StartsCounted, Counted, Granted
  <1> QED
    BY <1>5, <1>6, <1>7 DEF LiveBenchmarkInv

LEMMA SaveKeeps == ASSUME LiveBenchmarkInv, Save PROVE LiveBenchmarkInv'
  <1>1. /\ running = "save" /\ running' = "no" /\ checkpoint' = state /\ state.status # "absent"
        /\ state' = InitialState("absent") /\ intact /\ UNCHANGED <<started, intact, kills, losses>>
    BY DEF Save, surroundings, LiveBenchmarkInv, HeldState
  <1>2. LiveBenchmarkTypeOK'
    BY <1>1, InitialStates DEF LiveBenchmarkInv, LiveBenchmarkTypeOK
  <1>3. HeldState'
    BY <1>1 DEF HeldState
  <1>4. StartsCounted'
    BY <1>1 DEF LiveBenchmarkInv, StartsCounted, Counted, Granted
  <1> QED
    BY <1>2, <1>3, <1>4 DEF LiveBenchmarkInv

\* A kill loses the attempt that was not saved, and is charged with it.
LEMMA KillKeeps == ASSUME LiveBenchmarkInv, Kill PROVE LiveBenchmarkInv'
  <1>1. /\ running # "no" /\ running' = "no" /\ state' = InitialState("absent") /\ intact
        /\ kills < MaxKills /\ kills' = kills + 1 /\ UNCHANGED <<checkpoint, started, intact, losses>>
    BY DEF Kill, LiveBenchmarkInv, HeldState
  <1>2. LiveBenchmarkTypeOK'
    <2>1. kills' \in 0..MaxKills
      BY <1>1, BenchBounds DEF LiveBenchmarkInv, LiveBenchmarkTypeOK
    <2> QED
      BY <1>1, <2>1, InitialStates DEF LiveBenchmarkInv, LiveBenchmarkTypeOK
  <1>3. HeldState'
    BY <1>1 DEF LiveBenchmarkInv, HeldState
  <1>4. StartsCounted'
    <2> SUFFICES ASSUME NEW s \in Stage PROVE started'[s] <= checkpoint'.attempts[s] + Granted'
      BY <1>1 DEF StartsCounted, Counted
    <2>1. Granted' = Granted + 1 /\ Granted \in Nat
      <3>1. \A a, b \in Nat : a * b \in Nat
        OBVIOUS
      <3>2. AttemptLimit * losses \in Nat /\ kills \in Nat
        BY <3>1, BenchBounds, GrantedIsNatural DEF LiveBenchmarkInv
      <3> QED
        BY <1>1, <3>2 DEF Granted
    <2>2. started[s] <= state.attempts[s] + Granted
      BY <1>1 DEF LiveBenchmarkInv, StartsCounted, Counted
    <2>3. state.attempts[s] <= checkpoint.attempts[s] + 1
      <3>1. running \in {"next", "stage", "save"}
        BY <1>1 DEF LiveBenchmarkInv, LiveBenchmarkTypeOK
      <3> QED
        BY <3>1, BenchTypes, BenchBounds DEF LiveBenchmarkInv, HeldState
    <2>4. /\ state.attempts[s] \in Nat /\ checkpoint.attempts[s] \in Nat /\ started[s] \in Nat
      BY BenchTypes, BenchBounds DEF LiveBenchmarkInv
    <2> QED
      BY <1>1, <2>1, <2>2, <2>3, <2>4
  <1> QED
    BY <1>2, <1>3, <1>4 DEF LiveBenchmarkInv

\* The loss of an artifact is charged with all the attempts that go with it.
LEMMA LossKeeps == ASSUME LiveBenchmarkInv, LoseArtifact PROVE LiveBenchmarkInv'
  <1>1. /\ running = "no" /\ intact /\ losses < MaxLosses /\ losses' = losses + 1 /\ intact' = FALSE
        /\ UNCHANGED <<checkpoint, state, running, started, kills>>
    BY DEF LoseArtifact
  <1>2. LiveBenchmarkTypeOK'
    <2>1. losses' \in 0..MaxLosses
      BY <1>1, BenchBounds DEF LiveBenchmarkInv, LiveBenchmarkTypeOK
    <2> QED
      BY <1>1, <2>1 DEF LiveBenchmarkInv, LiveBenchmarkTypeOK
  <1>3. HeldState'
    BY <1>1 DEF LiveBenchmarkInv, HeldState
  <1>4. StartsCounted'
    <2> SUFFICES ASSUME NEW s \in Stage PROVE started'[s] <= Granted'
      <3>1. Granted' \in Nat
        <4>1. \A a, b \in Nat : a * b \in Nat
          OBVIOUS
        <4>2. losses' \in Nat /\ kills' \in Nat
          BY <1>2, BenchBounds DEF LiveBenchmarkTypeOK
        <4>3. AttemptLimit * losses' \in Nat
          BY <4>1, <4>2, BenchBounds
        <4> QED
          BY <4>2, <4>3 DEF Granted
      <3> QED
        BY <1>1, <3>1 DEF StartsCounted, Counted
    <2>1. Granted' = AttemptLimit + Granted /\ Granted \in Nat
      BY <1>1, GrantedIsNatural DEF LiveBenchmarkInv, Granted
    <2>2. started[s] <= checkpoint.attempts[s] + Granted
      BY <1>1 DEF LiveBenchmarkInv, StartsCounted, Counted
    <2>3. checkpoint.attempts[s] \in 0..AttemptLimit /\ started[s] \in Nat
      BY BenchTypes DEF LiveBenchmarkInv
    <2> QED
      BY <1>1, <2>1, <2>2, <2>3, BenchBounds
  <1> QED
    BY <1>2, <1>3, <1>4 DEF LiveBenchmarkInv

LEMMA LiveBenchmarkStart == LiveBenchmarkInit => LiveBenchmarkInv
  <1> SUFFICES ASSUME LiveBenchmarkInit PROVE LiveBenchmarkInv
    OBVIOUS
  <1>1. LiveBenchmarkTypeOK
    BY InitialStates, BenchBounds DEF LiveBenchmarkInit, LiveBenchmarkTypeOK
  <1>2. HeldState
    BY DEF LiveBenchmarkInit, HeldState
  <1>3. StartsCounted
    BY <1>1, BenchTypes, GrantedIsNatural DEF LiveBenchmarkInit, StartsCounted
  <1> QED
    BY <1>1, <1>2, <1>3 DEF LiveBenchmarkInv

LEMMA LiveBenchmarkStep == LiveBenchmarkInv /\ [LiveBenchmarkNext]_benchVars => LiveBenchmarkInv'
  <1> SUFFICES ASSUME LiveBenchmarkInv, [LiveBenchmarkNext]_benchVars PROVE LiveBenchmarkInv'
    OBVIOUS
  <1>1. CASE UNCHANGED benchVars
    BY <1>1 DEF benchVars, LiveBenchmarkInv, LiveBenchmarkTypeOK, HeldState, StartsCounted,
                Counted, Granted, Current, AllDone
  <1>2. CASE OutOfBudget \/ StageBlocked \/ StageRaises \/ CaseComplete
    BY <1>2, ClosesKeeps DEF OutOfBudget, StageBlocked, StageRaises, CaseComplete, surroundings
  <1> QED
    BY <1>1, <1>2, LoadBrokenKeeps, LoadAndPreflightKeeps, StartStageKeeps, StageCompletesKeeps,
       SaveKeeps, KillKeeps, LossKeeps DEF LiveBenchmarkNext, RunCase

LEMMA LiveBenchmarkInvariant == LiveBenchmarkSpec => []LiveBenchmarkInv
  BY LiveBenchmarkStart, LiveBenchmarkStep, PTL DEF LiveBenchmarkSpec

\* Type correctness; a stage is started within its budget of model calls
\* (run_case).
THEOREM LiveBenchmarkTypeCorrect == LiveBenchmarkSpec => []LiveBenchmarkTypeOK
  <1>1. LiveBenchmarkInv => LiveBenchmarkTypeOK
    BY DEF LiveBenchmarkInv
  <1> QED
    BY <1>1, LiveBenchmarkInvariant, PTL

\* With what is counted and what was granted, the limit holds.
LEMMA InvHoldsAttempts == LiveBenchmarkInv => AttemptsHeld
  <1> SUFFICES ASSUME LiveBenchmarkInv, NEW s \in Stage
               PROVE  started[s] <= AttemptLimit * (losses + 1) + kills
    BY DEF AttemptsHeld
  <1>1. started[s] <= Counted(s) + Granted /\ Granted \in Nat
    BY GrantedIsNatural DEF LiveBenchmarkInv, StartsCounted
  <1>2. Counted(s) \in 0..AttemptLimit /\ started[s] \in Nat
    BY BenchTypes, BenchBounds DEF LiveBenchmarkInv, Counted
  <1> QED
    BY <1>1, <1>2, GrantedIsNatural, BenchBounds DEF LiveBenchmarkInv

\* Attempts are counted across calls, kills and losses of artifacts (run_case).
THEOREM AttemptsLimited == LiveBenchmarkSpec => []AttemptsHeld
  <1> QED
    BY LiveBenchmarkInvariant, InvHoldsAttempts, PTL

\* What the checkpoint has as complete is not run again (run_case).
THEOREM CompletedKept == LiveBenchmarkSpec => CompletedStands
  <1>1. LiveBenchmarkInv /\ [LiveBenchmarkNext]_benchVars =>
            [\A s \in Stage : started'[s] # started[s] => checkpoint.completed < s]_benchVars
    <2> SUFFICES ASSUME LiveBenchmarkInv, LiveBenchmarkNext,
                        NEW s \in Stage, started'[s] # started[s]
                 PROVE  checkpoint.completed < s
      OBVIOUS
    <2>1. StartStage
      BY DEF LiveBenchmarkNext, RunCase, Kill, LoseArtifact, LoadBroken, LoadAndPreflight,
             OutOfBudget, StageCompletes, StageBlocked, StageRaises, CaseComplete, Save
    <2>2. s = Current /\ state = checkpoint
      BY <2>1 DEF StartStage, LiveBenchmarkInv, LiveBenchmarkTypeOK, HeldState
    <2> QED
      BY <2>2, BenchTypes DEF LiveBenchmarkInv, Current
  <1> QED
    BY <1>1, LiveBenchmarkInvariant, PTL DEF LiveBenchmarkSpec, CompletedStands

-----------------------------------------------------------------------------
(* SchemaMigrations: what the table holds.                                 *)

\* A version is recorded once, whoever recorded it.
RecordedOnce ==
    \A i, j \in DOMAIN history : history[i].version = history[j].version => i = j

\* A runner is past only what is in the table.
PastIsRecorded ==
    \A r \in Runner : runner[r].stage # "off" =>
        /\ runner[r].plan \in plans
        /\ \A k \in 1..(runner[r].next - 1) : runner[r].plan[k] \in ToSet(history)
        /\ runner[r].stage = "returned" => runner[r].next > Len(runner[r].plan)

\* The table is the beginning of a plan.
RecordedInOrder == Nested => \E p \in plans : IsPrefix(history, p)

MigrationsInv == MigrationsTypeOK /\ RecordedOnce /\ PastIsRecorded /\ RecordedInOrder

-----------------------------------------------------------------------------

\* A prefix, element by element.
LEMMA PrefixByElement ==
  ASSUME NEW S, NEW s \in Seq(S), NEW t \in Seq(S)
  PROVE  IsPrefix(s, t) <=> Len(s) <= Len(t) /\ \A i \in 1..Len(s) : s[i] = t[i]
  <1>1. CASE Len(s) <= Len(t)
    <2>1. /\ SubSeq(s, 1, Len(s)) = [i \in 1..Len(s) |-> s[i]]
          /\ SubSeq(t, 1, Len(s)) = [i \in 1..Len(s) |-> t[i]]
      BY <1>1
    <2> QED
      BY <1>1, <2>1 DEF IsPrefix
  <1>2. CASE ~(Len(s) <= Len(t))
    BY <1>2 DEF IsPrefix
  <1> QED
    BY <1>1, <1>2

\* What a plan is (MigrationRunner).
LEMMA PlansOrdered ==
  ASSUME plans \in Releases, NEW p \in plans
  PROVE  /\ p \in Seq(Migration) /\ Len(p) \in Nat /\ DOMAIN p = 1..Len(p)
         /\ \A i \in 1..Len(p) : p[i] \in Migration /\ p[i].version \in Nat
         /\ \A i, j \in 1..Len(p) : p[i].version = p[j].version => i = j
         /\ \A i, j \in 1..Len(p) : i < j => p[i].version # p[j].version
  <1>1. /\ p \in Seq(Migration)
        /\ \A i, j \in DOMAIN p : i < j => p[i].version < p[j].version
    BY MigrationsAssumption
  <1>2. Len(p) \in Nat /\ DOMAIN p = 1..Len(p) /\ \A i \in 1..Len(p) : p[i] \in Migration
    BY <1>1
  <1>3. \A i \in 1..Len(p) : p[i].version \in Nat
    BY <1>2 DEF Migration
  <1>4. \A i, j \in 1..Len(p) : p[i].version = p[j].version => i = j
    BY <1>1, <1>2, <1>3
  <1> QED
    BY <1>1, <1>2, <1>3, <1>4

\* The rows of the table are migrations.
LEMMA RowsAreMigrations ==
  ASSUME MigrationsTypeOK
  PROVE  /\ history \in Seq(Migration) /\ Len(history) \in Nat /\ DOMAIN history = 1..Len(history)
  <1>1. UNION {ToSet(p) : p \in plans} \subseteq Migration
    <2> SUFFICES ASSUME NEW p \in plans, NEW m \in ToSet(p) PROVE m \in Migration
      OBVIOUS
    <2> QED
      BY PlansOrdered DEF MigrationsTypeOK, ToSet
  <1>2. history \in Seq(Migration)
    <2>1. /\ Len(history) \in Nat
          /\ history \in [1..Len(history) -> UNION {ToSet(p) : p \in plans}]
      BY DEF MigrationsTypeOK
    <2>2. history \in [1..Len(history) -> Migration]
      BY <1>1, <2>1
    <2> QED
      BY <2>1, <2>2
  <1> QED
    BY <1>2

\* A runner that moves on leaves the others where they are.
LEMMA BecomesOwn ==
  ASSUME MigrationsTypeOK, NEW r \in Runner, NEW stage \in {"off", "apply", "returned"},
         NEW plan \in plans \cup {<<>>}, NEW next \in Nat, Becomes(r, stage, plan, next)
  PROVE  /\ runner' \in [Runner -> [stage : {"off", "apply", "returned"}, plan : plans \cup {<<>>}, next : Nat]]
         /\ runner'[r].stage = stage /\ runner'[r].plan = plan /\ runner'[r].next = next
         /\ \A q \in Runner : q # r => runner'[q] = runner[q]
  BY DEF MigrationsTypeOK, Becomes

\* Stopping keeps everything.
LEMMA StopKeeps ==
  ASSUME MigrationsInv, NEW r \in Runner, Stops(r), UNCHANGED <<plans, history>>, starts' \in 0..MaxStarts
  PROVE  MigrationsInv'
  <1>1. /\ runner' \in [Runner -> [stage : {"off", "apply", "returned"}, plan : plans \cup {<<>>}, next : Nat]]
        /\ runner'[r].stage = "off" /\ runner'[r].plan = <<>> /\ runner'[r].next = 1
        /\ \A q \in Runner : q # r => runner'[q] = runner[q]
    BY BecomesOwn DEF Stops, MigrationsInv
  <1>2. MigrationsTypeOK'
    <2>1. runner'[r].next \in 1..(Len(runner'[r].plan) + 1)
      BY <1>1
    <2>2. \A q \in Runner \ {r} : runner'[q].next \in 1..(Len(runner'[q].plan) + 1)
      BY <1>1 DEF MigrationsInv, MigrationsTypeOK
    <2> QED
      BY <1>1, <2>1, <2>2 DEF MigrationsInv, MigrationsTypeOK
  <1>3. PastIsRecorded'
    BY <1>1 DEF MigrationsInv, PastIsRecorded, ToSet
  <1> QED
    BY <1>2, <1>3 DEF MigrationsInv, RecordedOnce, RecordedInOrder, Nested

\* A step of a runner over the table as it is, or with a row added at its end.
LEMMA OnwardsKeeps ==
  ASSUME MigrationsInv, NEW r \in Runner, UNCHANGED <<plans, starts>>,
         NEW stage \in {"apply", "returned"}, NEW plan \in plans, NEW next \in 1..(Len(plan) + 1),
         Becomes(r, stage, plan, next),
         stage = "returned" => next > Len(plan),
         ToSet(history) \subseteq ToSet(history'),
         \A k \in 1..(next - 1) : plan[k] \in ToSet(history')
  PROVE  /\ runner' \in [Runner -> [stage : {"off", "apply", "returned"}, plan : plans \cup {<<>>}, next : Nat]]
         /\ \A q \in Runner : runner'[q].next \in 1..(Len(runner'[q].plan) + 1)
         /\ PastIsRecorded'
  <1>0. Len(plan) \in Nat
    BY PlansOrdered DEF MigrationsInv, MigrationsTypeOK
  <1>1. /\ runner' \in [Runner -> [stage : {"off", "apply", "returned"}, plan : plans \cup {<<>>}, next : Nat]]
        /\ runner'[r].stage = stage /\ runner'[r].plan = plan /\ runner'[r].next = next
        /\ \A q \in Runner : q # r => runner'[q] = runner[q]
    BY <1>0, BecomesOwn DEF MigrationsInv
  <1>2. \A q \in Runner : runner'[q].next \in 1..(Len(runner'[q].plan) + 1)
    BY <1>1 DEF MigrationsInv, MigrationsTypeOK
  <1>3. PastIsRecorded'
    <2> SUFFICES ASSUME NEW q \in Runner, runner'[q].stage # "off"
                 PROVE  /\ runner'[q].plan \in plans
                        /\ \A k \in 1..(runner'[q].next - 1) : runner'[q].plan[k] \in ToSet(history')
                        /\ runner'[q].stage = "returned" => runner'[q].next > Len(runner'[q].plan)
      BY DEF PastIsRecorded
    <2>1. CASE q = r
      BY <1>1, <2>1
    <2>2. CASE q # r
      BY <1>1, <2>2 DEF MigrationsInv, PastIsRecorded
    <2> QED
      BY <2>1, <2>2
  <1> QED
    BY <1>1, <1>2, <1>3

\* A plan that the table is the beginning of is past the rows of the table.
LEMMA CompareKeeps == ASSUME MigrationsInv, NEW r \in Runner, Compare(r) PROVE MigrationsInv'
  <1>1. UNCHANGED <<plans, history>> /\ starts' \in 0..MaxStarts
    BY MigrationsAssumption DEF Compare, MigrationsInv, MigrationsTypeOK
  <1>2. CASE Stops(r)
    BY <1>1, <1>2, StopKeeps
  <1>3. ASSUME NEW p \in plans, AppliedIsPrefix(p), Becomes(r, "apply", p, Len(history) + 1)
        PROVE  MigrationsInv'
    <2>1. Len(history) \in Nat /\ Len(p) \in Nat /\ p \in Seq(Migration)
      BY RowsAreMigrations, PlansOrdered DEF MigrationsInv, MigrationsTypeOK
    <2>2. Len(history) <= Len(p) /\ ToSet(history) = ToSet(SubSeq(p, 1, Len(history)))
      BY <1>3 DEF AppliedIsPrefix
    <2>3. \A k \in 1..Len(history) : p[k] \in ToSet(history)
      <3>1. SubSeq(p, 1, Len(history)) = [k \in 1..Len(history) |-> p[k]]
        BY <2>1, <2>2
      <3> QED
        BY <2>2, <3>1 DEF ToSet
    <2>4. Len(history) + 1 \in 1..(Len(p) + 1) /\ (Len(history) + 1) - 1 = Len(history)
      BY <2>1, <2>2
    <2>5. /\ runner' \in [Runner -> [stage : {"off", "apply", "returned"}, plan : plans \cup {<<>>}, next : Nat]]
          /\ \A q \in Runner : runner'[q].next \in 1..(Len(runner'[q].plan) + 1)
          /\ \A q \in Runner : q # r => runner'[q] = runner[q]
          /\ runner'[r].stage = "apply" /\ runner'[r].plan = p /\ runner'[r].next = Len(history) + 1
      <3>1. Len(history) + 1 \in Nat
        BY <2>1
      <3>2. /\ runner' \in [Runner -> [stage : {"off", "apply", "returned"}, plan : plans \cup {<<>>}, next : Nat]]
            /\ runner'[r].stage = "apply" /\ runner'[r].plan = p /\ runner'[r].next = Len(history) + 1
            /\ \A q \in Runner : q # r => runner'[q] = runner[q]
        BY <1>3, <3>1, BecomesOwn DEF MigrationsInv
      <3> QED
        BY <2>4, <3>2 DEF MigrationsInv, MigrationsTypeOK
    <2>6. MigrationsTypeOK'
      BY <1>1, <2>5 DEF MigrationsInv, MigrationsTypeOK
    <2>7. PastIsRecorded'
      BY <1>1, <2>3, <2>4, <2>5 DEF MigrationsInv, PastIsRecorded, ToSet
    <2> QED
      BY <1>1, <2>6, <2>7 DEF MigrationsInv, RecordedOnce, RecordedInOrder, Nested
  <1> QED
    BY <1>2, <1>3 DEF Compare

\* Where a runner applies, its plan is one of those about, and goes on.
LEMMA PlanGoesOn ==
  ASSUME MigrationsInv, NEW r \in Runner, Applying(r)
  PROVE  /\ runner[r].plan \in plans
         /\ runner[r].next \in 1..Len(runner[r].plan)
         /\ runner[r].next + 1 \in 1..(Len(runner[r].plan) + 1)
         /\ (runner[r].next + 1) - 1 = runner[r].next
         /\ \A k \in 1..(runner[r].next - 1) : runner[r].plan[k] \in ToSet(history)
         /\ Pending(r) \in Migration
  <1>1. runner[r].plan \in plans /\ \A k \in 1..(runner[r].next - 1) : runner[r].plan[k] \in ToSet(history)
    BY DEF MigrationsInv, PastIsRecorded, Applying
  <1>2. Len(runner[r].plan) \in Nat
    BY <1>1, PlansOrdered DEF MigrationsInv, MigrationsTypeOK
  <1>3. runner[r].next \in 1..Len(runner[r].plan)
    BY <1>2 DEF MigrationsInv, MigrationsTypeOK, Applying
  <1>4. Pending(r) \in Migration
    BY <1>1, <1>3, PlansOrdered DEF MigrationsInv, MigrationsTypeOK, Pending
  <1> QED
    BY <1>1, <1>2, <1>3, <1>4

\* A row that is there already is the migration the runner was about to apply.
LEMMA FindKeeps == ASSUME MigrationsInv, NEW r \in Runner, FindOnRecord(r) PROVE MigrationsInv'
  <1>1. UNCHANGED <<plans, history, starts>> /\ Applying(r)
    BY DEF FindOnRecord, Applying
  <1>2. CASE Stops(r)
    BY <1>1, <1>2, StopKeeps DEF MigrationsInv, MigrationsTypeOK
  <1>3. CASE Onwards(r) /\ \A i \in OnRecord(r) : history[i] = Pending(r)
    <2>1. runner[r].plan[runner[r].next] \in ToSet(history)
      BY <1>3 DEF FindOnRecord, OnRecord, ToSet, Pending
    <2>2. \A k \in 1..runner[r].next : runner[r].plan[k] \in ToSet(history)
      BY <1>1, <2>1, PlanGoesOn
    <2>3. PastIsRecorded' /\ MigrationsTypeOK'
      <3>1. /\ runner' \in [Runner -> [stage : {"off", "apply", "returned"}, plan : plans \cup {<<>>}, next : Nat]]
            /\ \A q \in Runner : runner'[q].next \in 1..(Len(runner'[q].plan) + 1)
            /\ PastIsRecorded'
        BY <1>1, <1>3, <2>2, PlanGoesOn, OnwardsKeeps DEF Onwards
      <3> QED
        BY <1>1, <3>1 DEF MigrationsInv, MigrationsTypeOK
    <2> QED
      BY <1>1, <2>3 DEF MigrationsInv, RecordedOnce, RecordedInOrder, Nested
  <1> QED
    BY <1>2, <1>3 DEF FindOnRecord

\* Plans that only extend each other have the same migration at a place.
LEMMA NestedAgree ==
  ASSUME plans \in Releases, Nested, NEW p \in plans, NEW q \in plans,
         NEW i \in 1..Len(p), i \in 1..Len(q)
  PROVE  p[i] = q[i]
  <1>1. p \in Seq(Migration) /\ q \in Seq(Migration)
    BY PlansOrdered
  <1>2. CASE IsPrefix(p, q)
    BY <1>1, <1>2, PrefixByElement
  <1>3. CASE IsPrefix(q, p)
    BY <1>1, <1>3, PrefixByElement
  <1> QED
    BY <1>2, <1>3 DEF Nested

\* A migration is applied where it is the next row of its plan.
LEMMA AppliedInOrder ==
  ASSUME MigrationsInv, NEW r \in Runner, Applying(r), OnRecord(r) = {}, Nested
  PROVE  IsPrefix(Append(history, Pending(r)), runner[r].plan)
  <1> DEFINE q == runner[r].plan
             n == runner[r].next
             m == Len(history)
  <1>1. /\ plans \in Releases /\ q \in plans /\ q \in Seq(Migration) /\ Len(q) \in Nat
        /\ n \in 1..Len(q) /\ \A k \in 1..(n - 1) : q[k] \in ToSet(history)
        /\ history \in Seq(Migration) /\ m \in Nat /\ DOMAIN history = 1..m
        /\ Pending(r) = q[n] /\ Pending(r) \in Migration
    BY PlanGoesOn, PlansOrdered, RowsAreMigrations DEF MigrationsInv, MigrationsTypeOK, Pending
  <1>2. PICK p \in plans : IsPrefix(history, p)
    BY DEF MigrationsInv, RecordedInOrder
  <1>3. p \in Seq(Migration) /\ Len(p) \in Nat
    BY <1>1, PlansOrdered
  <1>4. m <= Len(p) /\ \A i \in 1..m : history[i] = p[i]
    BY <1>1, <1>2, <1>3, PrefixByElement
  <1>5. \A i \in 1..m : i <= Len(q) => history[i] = q[i]
    <2> SUFFICES ASSUME NEW i \in 1..m, i <= Len(q) PROVE history[i] = q[i]
      OBVIOUS
    <2>1. i \in 1..Len(p) /\ i \in 1..Len(q)
      BY <1>1, <1>3, <1>4
    <2> QED
      BY <1>1, <1>4, <2>1, NestedAgree
  <1>6. \A i \in 1..m : history[i].version # q[n].version
    BY <1>1 DEF OnRecord
  <1>7. n > m
    BY <1>1, <1>5, <1>6
  <1>8. n = m + 1
    <2> SUFFICES ASSUME n > m + 1 PROVE FALSE
      BY <1>1, <1>7
    <2>1. m + 1 \in 1..(n - 1) /\ m + 1 \in 1..Len(q)
      BY <1>1
    <2>2. PICK j \in 1..m : history[j] = q[m + 1]
      BY <1>1, <2>1 DEF ToSet
    <2>3. q[j] = q[m + 1] /\ j \in 1..Len(q) /\ j < m + 1
      BY <1>1, <1>5, <2>1, <2>2
    <2> QED
      BY <1>1, <2>1, <2>3, PlansOrdered
  <1>9. /\ Append(history, q[n]) \in Seq(Migration) /\ Len(Append(history, q[n])) = m + 1
        /\ \A i \in 1..m : Append(history, q[n])[i] = history[i]
        /\ Append(history, q[n])[m + 1] = q[n]
    BY <1>1
  <1>10. \A i \in 1..(m + 1) : Append(history, q[n])[i] = q[i]
    <2> SUFFICES ASSUME NEW i \in 1..(m + 1) PROVE Append(history, q[n])[i] = q[i]
      OBVIOUS
    <2>1. CASE i = m + 1
      BY <1>8, <1>9, <2>1
    <2>2. CASE i \in 1..m
      BY <1>1, <1>5, <1>8, <1>9, <2>2
    <2> QED
      BY <1>1, <2>1, <2>2
  <1>11. Len(Append(history, q[n])) <= Len(q)
    BY <1>1, <1>8, <1>9
  <1> HIDE DEF q, n, m
  <1>12. IsPrefix(Append(history, q[n]), q)
    BY <1>1, <1>9, <1>10, <1>11, PrefixByElement
  <1> QED
    BY <1>1, <1>12 DEF q

LEMMA ApplyKeeps == ASSUME MigrationsInv, NEW r \in Runner, ApplyMigration(r) PROVE MigrationsInv'
  <1> DEFINE m == Len(history)
  <1>1. /\ Applying(r) /\ OnRecord(r) = {} /\ UNCHANGED <<plans, starts>>
        /\ history' = Append(history, Pending(r)) /\ Onwards(r)
    BY DEF ApplyMigration, Applying
  <1>2. /\ runner[r].plan \in plans /\ Pending(r) = runner[r].plan[runner[r].next]
        /\ runner[r].next \in 1..Len(runner[r].plan) /\ Pending(r) \in Migration
        /\ history \in Seq(Migration) /\ m \in Nat /\ DOMAIN history = 1..m
    BY <1>1, PlanGoesOn, RowsAreMigrations DEF MigrationsInv, Pending
  <1>3. /\ Len(history') = m + 1 /\ DOMAIN history' = 1..(m + 1)
        /\ \A i \in 1..m : history'[i] = history[i]
        /\ history'[m + 1] = Pending(r)
    BY <1>1, <1>2
  <1>4. ToSet(history) \subseteq ToSet(history') /\ Pending(r) \in ToSet(history')
    <2>1. \A i \in 1..m : i \in 1..(m + 1)
      BY <1>2
    <2>2. m + 1 \in 1..(m + 1)
      BY <1>2
    <2> QED
      BY <1>2, <1>3, <2>1, <2>2 DEF ToSet
  <1>5. \A k \in 1..runner[r].next : runner[r].plan[k] \in ToSet(history')
    BY <1>1, <1>2, <1>4, PlanGoesOn
  <1>6. /\ runner' \in [Runner -> [stage : {"off", "apply", "returned"}, plan : plans \cup {<<>>}, next : Nat]]
        /\ \A q \in Runner : runner'[q].next \in 1..(Len(runner'[q].plan) + 1)
        /\ PastIsRecorded'
    BY <1>1, <1>4, <1>5, PlanGoesOn, OnwardsKeeps DEF Onwards
  <1>7. MigrationsTypeOK'
    <2>1. Pending(r) \in UNION {ToSet(p) : p \in plans}
      <3>1. Pending(r) \in ToSet(runner[r].plan)
        BY <1>2, PlansOrdered DEF ToSet, MigrationsInv, MigrationsTypeOK
      <3> QED
        BY <1>2, <3>1
    <2>2. history' \in Seq(UNION {ToSet(p) : p \in plans})
      BY <1>1, <2>1 DEF MigrationsInv, MigrationsTypeOK
    <2> QED
      BY <1>1, <1>6, <2>2 DEF MigrationsInv, MigrationsTypeOK
  <1>8. RecordedOnce'
    <2>1. \A i \in 1..m : history[i].version # Pending(r).version
      BY <1>1, <1>2 DEF OnRecord
    <2>2. \A i, j \in 1..m : history[i].version = history[j].version => i = j
      BY <1>2 DEF MigrationsInv, RecordedOnce
    <2>3. SUFFICES ASSUME NEW i \in 1..(m + 1), NEW j \in 1..(m + 1),
                          history'[i].version = history'[j].version
                   PROVE  i = j
      BY <1>3 DEF RecordedOnce
    <2>4. (i \in 1..m \/ i = m + 1) /\ (j \in 1..m \/ j = m + 1)
      BY <1>2
    <2> QED
      BY <1>3, <2>1, <2>2, <2>3, <2>4
  <1>9. RecordedInOrder'
    <2> SUFFICES ASSUME Nested PROVE \E p \in plans : IsPrefix(history', p)
      BY <1>1 DEF RecordedInOrder, Nested
    <2> QED
      BY <1>1, <1>2, AppliedInOrder
  <1> QED
    BY <1>6, <1>7, <1>8, <1>9 DEF MigrationsInv

LEMMA ReturnKeeps == ASSUME MigrationsInv, NEW r \in Runner, Return(r) PROVE MigrationsInv'
  <1>1. /\ UNCHANGED <<plans, history, starts>> /\ runner[r].stage = "apply"
        /\ runner[r].next > Len(runner[r].plan)
        /\ Becomes(r, "returned", runner[r].plan, runner[r].next)
    BY DEF Return
  <1>2. /\ runner[r].plan \in plans /\ runner[r].next \in 1..(Len(runner[r].plan) + 1)
        /\ \A k \in 1..(runner[r].next - 1) : runner[r].plan[k] \in ToSet(history)
    BY <1>1 DEF MigrationsInv, MigrationsTypeOK, PastIsRecorded
  <1>3. /\ runner' \in [Runner -> [stage : {"off", "apply", "returned"}, plan : plans \cup {<<>>}, next : Nat]]
        /\ \A q \in Runner : runner'[q].next \in 1..(Len(runner'[q].plan) + 1)
        /\ PastIsRecorded'
    BY <1>1, <1>2, OnwardsKeeps
  <1> QED
    BY <1>1, <1>3 DEF MigrationsInv, MigrationsTypeOK, RecordedOnce, RecordedInOrder, Nested

LEMMA MigrationsStart == MigrationsInit => MigrationsInv
  <1> SUFFICES ASSUME MigrationsInit PROVE MigrationsInv
    OBVIOUS
  <1>1. /\ plans \in Releases /\ plans # {} /\ history = <<>> /\ starts = 0 /\ MaxStarts \in Nat
        /\ \A r \in Runner : runner[r] = [stage |-> "off", plan |-> <<>>, next |-> 1]
    BY MigrationsAssumption DEF MigrationsInit, NotRunning
  <1>2. MigrationsTypeOK
    BY <1>1 DEF MigrationsInit, MigrationsTypeOK, NotRunning
  <1>3. RecordedInOrder
    <2>1. PICK p \in plans : TRUE
      BY <1>1
    <2>2. p \in Seq(Migration) /\ history \in Seq(Migration) /\ Len(p) \in Nat /\ Len(history) = 0
      BY <1>1, PlansOrdered
    <2>3. Len(history) <= Len(p) /\ \A i \in 1..Len(history) : history[i] = p[i]
      BY <2>2
    <2>4. IsPrefix(history, p)
      BY <2>2, <2>3, PrefixByElement
    <2> QED
      BY <2>4 DEF RecordedInOrder
  <1> QED
    BY <1>1, <1>2, <1>3 DEF MigrationsInv, RecordedOnce, PastIsRecorded

LEMMA MigrationsStep == MigrationsInv /\ [MigrationsNext]_migrationVars => MigrationsInv'
  <1> SUFFICES ASSUME MigrationsInv, [MigrationsNext]_migrationVars PROVE MigrationsInv'
    OBVIOUS
  <1>1. CASE UNCHANGED migrationVars
    BY <1>1 DEF migrationVars, MigrationsInv, MigrationsTypeOK, RecordedOnce, PastIsRecorded,
                RecordedInOrder, Nested
  <1>2. ASSUME NEW r \in Runner, StatementFails(r) PROVE MigrationsInv'
    BY <1>2, StopKeeps DEF StatementFails, Applying, MigrationsInv, MigrationsTypeOK
  <1> QED
    BY <1>1, <1>2, CompareKeeps, ApplyKeeps, FindKeeps, ReturnKeeps DEF MigrationsNext

LEMMA MigrationsInvariant == MigrationsSpec => []MigrationsInv
  BY MigrationsStart, MigrationsStep, PTL DEF MigrationsSpec

\* Type correctness (MigrationRunner).
THEOREM MigrationsTypeCorrect == MigrationsSpec => []MigrationsTypeOK
  <1>1. MigrationsInv => MigrationsTypeOK
    BY DEF MigrationsInv
  <1> QED
    BY <1>1, MigrationsInvariant, PTL

\* However many runners of however different binaries race, a runner that
\* returns has found or applied each of its migrations, and where the plans
\* extend each other the table is always the beginning of one of them.
THEOREM MigrationsApplied == MigrationsSpec => []MigratedAsPlanned
  <1>1. MigrationsInv => MigratedAsPlanned
    <2> SUFFICES ASSUME MigrationsInv PROVE MigratedAsPlanned
      OBVIOUS
    <2>1. ASSUME NEW r \in Runner, runner[r].stage = "returned"
          PROVE  ToSet(runner[r].plan) \subseteq ToSet(history)
      <3>1. /\ runner[r].plan \in plans /\ runner[r].next > Len(runner[r].plan)
            /\ \A k \in 1..(runner[r].next - 1) : runner[r].plan[k] \in ToSet(history)
        BY <2>1 DEF MigrationsInv, PastIsRecorded
      <3>2. DOMAIN runner[r].plan = 1..Len(runner[r].plan) /\ Len(runner[r].plan) \in Nat
        BY <3>1, PlansOrdered DEF MigrationsInv, MigrationsTypeOK
      <3>3. \A k \in DOMAIN runner[r].plan : k \in 1..(runner[r].next - 1)
        BY <3>1, <3>2 DEF MigrationsInv, MigrationsTypeOK
      <3> QED
        BY <3>1, <3>3 DEF ToSet
    <2> QED
      BY <2>1 DEF MigratedAsPlanned, MigrationsInv, RecordedInOrder
  <1> QED
    BY <1>1, MigrationsInvariant, PTL
=============================================================================

--------------------------- MODULE DecisionProofs ---------------------------
(***************************************************************************)
(* What is proved of the components that decide what a body does and which *)
(* motion wins.                                                            *)
(*                                                                         *)
(* GripperPlanner: for any targets, any length of plan, any budget of      *)
(* calls and any clocks with Retry <= Stuck, the planner is never          *)
(* silenced, a goal that was met all along does not wake it early, and the *)
(* jaws do what the last reply said.                                       *)
(*                                                                         *)
(* CabinetTask: for any bounds, a handle that was let go of is forgotten,  *)
(* and a door is open only when it has stopped.                            *)
(*                                                                         *)
(* BestOfFive: for any number of candidates and any range of scores, the   *)
(* selection takes at most four calls of models, selects nobody the gates  *)
(* reject, and the order in which a judge answers decides nothing.         *)
(*                                                                         *)
(* FlywheelRun: for every budget, number of candidates and rounds, the     *)
(* calls of models stay within their ceiling, and the winner of the first  *)
(* run over a directory has earned it.                                     *)
(***************************************************************************)
EXTENDS MCDecisions, FiniteSetTheorems, TLAPS

-----------------------------------------------------------------------------
(* GripperPlanner: numbers.                                                *)

\* A count that stops at a bound stays within it.
LEMMA CapWithin ==
  ASSUME NEW n \in Nat, NEW top \in Nat PROVE CapAt(n, top) \in 0..top
  BY DEF CapAt

\* The bound of counted calls is a number.
LEMMA CallCapNat == CallCap \in Nat /\ MaxCalls \in Nat
  BY PlanAssumption DEF CallCap

\* Clocks that advance stay within their bounds.
LEMMA ClocksType ==
  ASSUME PlannerTypeOK
  PROVE  /\ CapAt(wait + 1, Stuck) \in 0..Stuck
         /\ CapAt(age + 1, Window) \in 0..Window
         /\ CapAt(looked + 1, Relook) \in 0..Relook
         /\ CapAt(calls + 1, CallCap) \in 0..CallCap
  <1>1. /\ wait + 1 \in Nat /\ Stuck \in Nat /\ age + 1 \in Nat /\ Window \in Nat
        /\ looked + 1 \in Nat /\ Relook \in Nat /\ calls + 1 \in Nat
    BY CallCapNat, ClockAssumption DEF PlannerTypeOK
  <1> QED
    BY <1>1, CapWithin, CallCapNat

\* A step of the plan stays within the plan.
LEMMA NextStepType ==
  ASSUME PlannerTypeOK, NEW done \in BOOLEAN, NEW again \in BOOLEAN, NextStep(done, again)
  PROVE  step' \in 0..(PlanLength - 1) /\ repeats' \in 0..2
  <1> DEFINE seen == IF again THEN CapAt(repeats + 1, 2) ELSE 0
  <1>1. seen \in 0..2
    BY DEF PlannerTypeOK, CapAt
  <1>2. step \in 0..(PlanLength - 1) /\ plan \in {0, PlanLength} /\ PlanLength \in Nat
    BY PlanAssumption DEF PlannerTypeOK
  <1> HIDE DEF seen
  <1>3. CASE step < plan - 1 /\ (done \/ seen = 2)
    BY <1>2, <1>3 DEF NextStep, seen
  <1>4. CASE ~(step < plan - 1 /\ (done \/ seen = 2))
    BY <1>1, <1>2, <1>4 DEF NextStep, seen
  <1> QED
    BY <1>3, <1>4

-----------------------------------------------------------------------------
(* Types, with what the loop relies on: a frame that asks has asked, and   *)
(* an act leaves no goal.                                                  *)

\* A frame within an ask is one that asked.
AskIsMarked == loop \in {"ask", "identify", "decide"} => asked
\* A direct act takes the place of a goal.
ActHasNoGoal == doing => held = NoGoal

PlannerInv == PlannerTypeOK /\ AskIsMarked /\ ActHasNoGoal

\* The steps up to the planner's question.
DueStep == Sense \/ EndOfRun \/ DueOfAct \/ DueWithoutGoal \/ DueOfGoal

\* A frame's beginning and its question keep the invariant.
LEMMA DueKeeps == ASSUME PlannerInv, DueStep PROVE PlannerInv'
  <1> USE DEF PlannerInv, PlannerTypeOK, AskIsMarked, ActHasNoGoal, goalVars, mind, hand
  <1>1. CASE Sense
    BY <1>1 DEF Sense
  <1>2. CASE EndOfRun
    BY <1>2 DEF EndOfRun
  <1>3. CASE DueOfAct
    BY <1>3 DEF DueOfAct, Wake, SleepOn
  <1>4. CASE DueWithoutGoal
    BY <1>4 DEF DueWithoutGoal, Wake, SleepOn
  <1>5. CASE DueOfGoal
    <2>1. CASE Wake /\ UNCHANGED doing
      BY <2>1 DEF Wake
    <2>2. CASE SleepOn
      BY <1>5, <2>2 DEF DueOfGoal, SleepOn
    <2> QED
      BY <1>5, <2>1, <2>2, Zenon DEF DueOfGoal
  <1> QED
    BY <1>1, <1>2, <1>3, <1>4, <1>5 DEF DueStep

\* The calls that come before the decision.
LookStep == Expand \/ SkipExpand \/ Identify \/ SkipIdentify

\* The calls before the decision keep it.
LEMMA GripperLooks == ASSUME PlannerInv, LookStep PROVE PlannerInv'
  <1>0. CapAt(calls + 1, CallCap) \in 0..CallCap
    BY ClocksType DEF PlannerInv
  <1> USE DEF PlannerInv, PlannerTypeOK, AskIsMarked, ActHasNoGoal, goalVars, mind, hand
  <1>1. CASE Expand
    <2>1. calls' \in 0..CallCap
      BY <1>0, <1>1 DEF Expand, Counted
    <2>2. plan' \in {0, PlanLength} /\ tries' \in 0..ExpandTries
      BY <1>1, PlanAssumption DEF Expand
    <2> QED
      BY <1>1, <2>1, <2>2 DEF Expand
  <1>2. CASE SkipExpand
    BY <1>2 DEF SkipExpand
  <1>3. CASE Identify
    <2>1. calls' \in 0..CallCap
      BY <1>0, <1>3 DEF Identify, Counted
    <2>2. looked' \in 0..Relook
      <3>1. looked' \in {0, looked}
        BY <1>3 DEF Identify
      <3> QED
        BY <3>1, ClockAssumption
    <2>3. items' \in BOOLEAN
      BY <1>3, Zenon DEF Identify
    <2> QED
      BY <1>3, <2>1, <2>2, <2>3 DEF Identify
  <1>4. CASE SkipIdentify
    BY <1>4 DEF SkipIdentify
  <1> QED
    BY <1>1, <1>2, <1>3, <1>4 DEF LookStep

\* The ways a decision may end.
DecideStep == DecisionFails \/ StartAct \/ Refuse \/ Finish \/ BadReply \/ Adopt

\* Every way a decision may end keeps it.
LEMMA ReplyKeeps == ASSUME PlannerInv, DecideStep PROVE PlannerInv'
  <1>0. CapAt(calls + 1, CallCap) \in 0..CallCap /\ 0 \in 0..Stuck /\ 0 \in 0..Window
    BY ClocksType, ClockAssumption DEF PlannerInv
  <1>a. calls' \in 0..CallCap
    BY <1>0 DEF DecideStep, DecisionFails, StartAct, Refuse, Finish, BadReply, Adopt,
                Answered, Reply, Counted, PlannerInv, PlannerTypeOK
  <1>b. jaws' \in {"open", "close", "hold"}
    BY DEF DecideStep, DecisionFails, StartAct, Refuse, Finish, BadReply, Adopt,
           Answered, PlannerInv, PlannerTypeOK
  <1>c. Deciding
    BY DEF DecideStep, DecisionFails, StartAct, Refuse, Finish, BadReply, Adopt
  <1> USE DEF PlannerInv, PlannerTypeOK, AskIsMarked, ActHasNoGoal, goalVars, Deciding
  <1>1. CASE DecisionFails
    BY <1>1, <1>a, <1>b, <1>c DEF DecisionFails
  <1>2. CASE StartAct
    BY <1>0, <1>2, <1>a, <1>b, <1>c DEF StartAct
  <1>3. CASE Refuse
    BY <1>0, <1>3, <1>a, <1>b, <1>c DEF Refuse
  <1>4. CASE Finish
    BY <1>0, <1>4, <1>a, <1>b, <1>c DEF Finish
  <1>5. CASE BadReply
    <2>1. loop' = "raised" /\ UNCHANGED <<goalVars, wait, step, repeats, finished>>
      BY <1>5 DEF BadReply
    <2>2. doing' \in BOOLEAN /\ (doing' => doing)
      <3>1. doing' = doing \/ doing' = FALSE
        BY <1>5, Zenon DEF BadReply
      <3>2. CASE doing' = doing
        BY <3>2, Zenon
      <3>3. CASE doing' = FALSE
        BY <3>3, Zenon
      <3> QED
        BY <3>1, <3>2, <3>3, Zenon
    <2> QED
      BY <2>1, <2>2, <1>a, <1>b, <1>c
  <1>6. CASE Adopt
    <2>1. PICK goal \in Goal, stepDone \in BOOLEAN :
              held' = goal /\ NextStep(stepDone, held = goal /\ met)
      BY <1>6 DEF Adopt
    <2>2. step' \in 0..(PlanLength - 1) /\ repeats' \in 0..2
      BY <2>1, NextStepType
    <2>3. held' \in Goal /\ doing' = FALSE /\ unmet' \in BOOLEAN /\ wait' = 0 /\ age' = 0
          /\ loop' = "drive" /\ finished' = finished
      BY <1>6, <2>1 DEF Adopt
    <2> QED
      BY <1>0, <2>2, <2>3, <1>a, <1>b, <1>c
  <1> QED
    BY <1>1, <1>2, <1>3, <1>4, <1>5, <1>6 DEF DecideStep

\* The rest of the frame.
DriveStep == DriveAct \/ DriveIdle \/ DriveGoal

\* The rest of the frame keeps it.
LEMMA DriveKeeps == ASSUME PlannerInv, DriveStep PROVE PlannerInv'
  <1>1. NextFrame
    BY DEF DriveStep, DriveAct, DriveIdle, DriveGoal
  <1>2. wait' \in 0..Stuck /\ age' \in 0..Window /\ looked' \in 0..Relook
    BY <1>1, ClocksType DEF NextFrame, PlannerInv
  <1>3. squeeze' \in BOOLEAN
    BY DEF DriveStep, DriveAct, DriveIdle, DriveGoal, DriveJaws
  <1>4. unmet' \in BOOLEAN
    BY DEF DriveStep, DriveAct, DriveIdle, DriveGoal, PlannerInv, PlannerTypeOK
  <1> QED
    BY <1>1, <1>2, <1>3, <1>4
    DEF NextFrame, PlannerInv, PlannerTypeOK, AskIsMarked, ActHasNoGoal

\* Every step keeps the invariant.
LEMMA PlannerStep == PlannerInv /\ [PlannerNext]_plannerVars => PlannerInv'
  <1> SUFFICES ASSUME PlannerInv, [PlannerNext]_plannerVars PROVE PlannerInv'
    OBVIOUS
  <1>1. CASE UNCHANGED plannerVars
    BY <1>1 DEF plannerVars, PlannerInv, PlannerTypeOK, AskIsMarked, ActHasNoGoal
  <1>2. CASE DueStep \/ LookStep \/ DecideStep \/ DriveStep
    BY <1>2, DueKeeps, GripperLooks, ReplyKeeps, DriveKeeps
  <1> QED
    BY <1>1, <1>2 DEF PlannerNext, DueStep, LookStep, DecideStep, DriveStep

\* The start.
LEMMA PlannerStart == ASSUME PlannerInit PROVE PlannerInv
  <1>1. /\ wait \in 0..Stuck /\ age \in 0..Window /\ looked \in 0..Relook
        /\ tries \in 0..ExpandTries /\ step \in 0..(PlanLength - 1)
    BY ClockAssumption, PlanAssumption DEF PlannerInit
  <1>2. calls \in 0..CallCap
    BY CallCapNat DEF PlannerInit
  <1>3. plan \in {0, PlanLength} /\ repeats \in 0..2 /\ held \in Goal \cup {NoGoal}
    BY DEF PlannerInit
  <1>4. /\ met \in BOOLEAN /\ unmet \in BOOLEAN /\ doing \in BOOLEAN /\ asked \in BOOLEAN
        /\ items \in BOOLEAN /\ finished \in BOOLEAN /\ squeeze \in BOOLEAN
    BY DEF PlannerInit
  <1>5. loop = "frame" /\ jaws \in {"open", "close", "hold"} /\ doing = FALSE
    BY DEF PlannerInit
  <1> QED
    BY <1>1, <1>2, <1>3, <1>4, <1>5 DEF PlannerInv, PlannerTypeOK, AskIsMarked, ActHasNoGoal

\* The loop's variables stay well typed, the current step within the plan.
THEOREM PlannerTypeCorrect == PlannerSpec => []PlannerTypeOK
  <1>1. PlannerInv => PlannerTypeOK
    BY DEF PlannerInv
  <1>2. PlannerInit => PlannerInv
    BY PlannerStart
  <1> QED
    BY <1>1, <1>2, PlannerStep, PTL DEF PlannerSpec

-----------------------------------------------------------------------------
(* What due promises.                                                      *)

\* A frame sleeps on only when it may.
LEMMA SilenceStep ==
  ASSUME PlannerInv, NeverSilenced, [PlannerNext]_plannerVars PROVE NeverSilenced'
  <1>0. wait \in Nat /\ Retry \in Nat /\ Stuck \in Nat /\ Retry <= Stuck
        /\ calls \in Nat /\ MaxCalls \in Nat
    BY CallCapNat, ClockAssumption DEF PlannerInv, PlannerTypeOK
  <1>1. CASE DueOfAct
    BY <1>0, <1>1 DEF DueOfAct, Wake, SleepOn, NeverSilenced
  <1>2. CASE DueWithoutGoal
    BY <1>0, <1>2 DEF DueWithoutGoal, Wake, SleepOn, NeverSilenced
  <1>3. CASE DueOfGoal
    BY <1>0, <1>3 DEF DueOfGoal, Wake, SleepOn, NeverSilenced, goalVars
  <1>4. CASE DecideStep
    BY <1>4 DEF DecideStep, DecisionFails, StartAct, Refuse, Finish, BadReply, Adopt,
                Deciding, PlannerInv, AskIsMarked, NeverSilenced
  <1>5. CASE Sense \/ EndOfRun \/ LookStep
    BY <1>5 DEF Sense, EndOfRun, LookStep, Expand, SkipExpand, Identify, SkipIdentify, NeverSilenced
  <1>6. CASE DriveStep
    BY <1>6 DEF DriveStep, DriveAct, DriveIdle, DriveGoal, NextFrame, NeverSilenced
  <1>7. CASE UNCHANGED plannerVars
    BY <1>7 DEF plannerVars, NeverSilenced
  <1> QED
    BY <1>1, <1>2, <1>3, <1>4, <1>5, <1>6, <1>7 DEF PlannerNext, LookStep, DecideStep, DriveStep

\* No reading of a goal, no failing reply and no act keeps the planner from
\* deciding again after stuck_after_s, within its budget of calls (due, ask).
THEOREM PlannerNeverSilenced == PlannerSpec => []NeverSilenced
  <1>1. PlannerInit => PlannerInv /\ NeverSilenced
    BY PlannerStart DEF PlannerInit, NeverSilenced
  <1>2. PlannerInv /\ NeverSilenced /\ [PlannerNext]_plannerVars => NeverSilenced'
    BY SilenceStep
  <1> QED
    BY <1>1, <1>2, PlannerStep, PTL DEF PlannerSpec

\* What wakes the planner from a goal that was never unmet is a clock.
LEMMA WakeStep ==
  ASSUME PlannerInv, MetGoalWaits, [PlannerNext]_plannerVars PROVE MetGoalWaits'
  <1>1. CASE DueOfAct
    BY <1>1 DEF DueOfAct, Wake, SleepOn, PlannerInv, ActHasNoGoal, MetGoalWaits, goalVars
  <1>2. CASE DueWithoutGoal
    BY <1>2 DEF DueWithoutGoal, Wake, SleepOn, MetGoalWaits, goalVars
  <1>3. CASE DueOfGoal
    BY <1>3 DEF DueOfGoal, Arrived, Wake, SleepOn, MetGoalWaits, goalVars
  <1>4. CASE Sense \/ EndOfRun \/ LookStep \/ DecideStep \/ DriveStep
    BY <1>4 DEF Sense, EndOfRun, LookStep, Expand, SkipExpand, Identify, SkipIdentify,
                DecideStep, DecisionFails, StartAct, Refuse, Finish, BadReply, Adopt,
                DriveStep, DriveAct, DriveIdle, DriveGoal, NextFrame, MetGoalWaits
  <1>5. CASE UNCHANGED plannerVars
    BY <1>5 DEF plannerVars, MetGoalWaits
  <1> QED
    BY <1>1, <1>2, <1>3, <1>4, <1>5 DEF PlannerNext, LookStep, DecideStep, DriveStep

\* A goal the body already has does not wake the planner before a clock does
\* (due, _adopt, observe).
THEOREM MetGoalsWait == PlannerSpec => []MetGoalWaits
  <1>1. PlannerInit => PlannerInv /\ MetGoalWaits
    BY PlannerStart DEF PlannerInit, MetGoalWaits
  <1>2. PlannerInv /\ MetGoalWaits /\ [PlannerNext]_plannerVars => MetGoalWaits'
    BY WakeStep
  <1> QED
    BY <1>1, <1>2, PlannerStep, PTL DEF PlannerSpec

-----------------------------------------------------------------------------
(* What the frame promises.                                                *)

\* Every frame drives the jaws, except an act's.
LEMMA JawsStep ==
  ASSUME JawsObeyed, [PlannerNext]_plannerVars PROVE JawsObeyed'
  <1>1. CASE DriveAct
    BY <1>1 DEF DriveAct, NextFrame, JawsObeyed
  <1>2. CASE DriveIdle \/ DriveGoal
    BY <1>2 DEF DriveIdle, DriveGoal, NextFrame, DriveJaws, JawsObeyed
  <1>3. CASE DueStep \/ LookStep \/ DecideStep
    BY <1>3 DEF DueStep, Sense, EndOfRun, DueOfAct, DueWithoutGoal, DueOfGoal, Wake, SleepOn,
                LookStep, Expand, SkipExpand, Identify, SkipIdentify,
                DecideStep, DecisionFails, StartAct, Refuse, Finish, BadReply, Adopt, JawsObeyed
  <1>4. CASE UNCHANGED plannerVars
    BY <1>4 DEF plannerVars, JawsObeyed
  <1> QED
    BY <1>1, <1>2, <1>3, <1>4 DEF PlannerNext, DueStep, LookStep, DecideStep

\* At the end of every frame the grip force is what the last reply asked for,
\* except while an act moves the fingers (run).
THEOREM JawsAlwaysObeyed == PlannerSpec => []JawsObeyed
  <1>1. PlannerInit => JawsObeyed
    BY DEF PlannerInit, JawsObeyed
  <1>2. JawsObeyed /\ [PlannerNext]_plannerVars => JawsObeyed'
    BY JawsStep
  <1> QED
    BY <1>1, <1>2, PTL DEF PlannerSpec

-----------------------------------------------------------------------------
(* CabinetTask: letting go.                                                *)

\* From the command that lets go on nothing is squeezed, and from the look
\* after it on nothing is latched or held.
LetGoHolds ==
    phase \in {5, 6} \/ (phase = 4 /\ frame # "decide") =>
        squeeze_n = "none" /\ (frame # "look" => ~latch.on /\ ~holds)

\* A wider cast has been paid for with frames in which nothing moved.
QuietCounted ==
    /\ mechanism.still < Barred
    /\ mechanism.casting < Casts => mechanism.casting * Barred + mechanism.still <= quiet
    /\ mechanism.casting >= Casts => quiet = Casts * Barred
    /\ phase > 3 => mechanism.started /\ quiet = Casts * Barred

CabinetInv == CabinetTypeOK /\ LetGoHolds /\ QuietCounted

-----------------------------------------------------------------------------

LEMMA CabinetBounds ==
  /\ Barred \in Nat /\ Barred > 0 /\ Casts \in Nat /\ Casts > 0 /\ Casts * Barred \in Nat
  <1>1. \A a, b \in Nat : a * b \in Nat
    OBVIOUS
  <1> QED
    BY <1>1, CabinetAssumption

\* The names of the phases, by their index.
LEMMA PhaseNames ==
  ASSUME phase \in 1..10
  PROVE  /\ PhaseName = "to_handle" <=> phase = 1
         /\ PhaseName = "grip_handle" <=> phase = 2
         /\ PhaseName = "pull_open" <=> phase = 3
         /\ PhaseName = "let_go" <=> phase = 4
         /\ PhaseName = "back_off" <=> phase = 5
         /\ PhaseName = "to_contents" <=> phase = 6
         /\ PhaseName = "grip_contents" <=> phase = 7
         /\ PhaseName = "withdraw" <=> phase = 8
         /\ PhaseName = "carry_to_bench" <=> phase = 9
         /\ PhaseName = "set_down" <=> phase = 10
  <1>1. CASE phase \in 1..5
    BY <1>1 DEF PhaseName, Phases
  <1>2. CASE phase \in 6..10
    BY <1>2 DEF PhaseName, Phases
  <1> QED
    BY <1>1, <1>2

\* What a gate may say: the drawer's only that it is open, the last one's no.
LEMMA GateSays ==
  ASSUME CabinetTypeOK, NEW done \in Gate
  PROVE  /\ done \in BOOLEAN
         /\ phase = 3 /\ done => Opened
         /\ phase = 10 => ~done
  <1>1. phase \in 1..10 /\ holds \in BOOLEAN /\ withdrawn \in BOOLEAN /\ Opened \in BOOLEAN
    BY DEF CabinetTypeOK, Opened
  <1>2. CASE phase \in {1, 4, 6, 8}
    BY <1>1, <1>2, PhaseNames DEF Gate
  <1>3. CASE phase \in {2, 7}
    BY <1>1, <1>3, PhaseNames DEF Gate
  <1>4. CASE phase = 3
    BY <1>1, <1>4, PhaseNames DEF Gate
  <1>5. CASE phase \in {5, 9}
    BY <1>1, <1>5, PhaseNames DEF Gate
  <1>6. CASE phase = 10
    BY <1>1, <1>6, PhaseNames DEF Gate
  <1> QED
    BY <1>1, <1>2, <1>3, <1>4, <1>5, <1>6

LEMMA LookKeeps == ASSUME CabinetInv, Look PROVE CabinetInv'
  <1>1. /\ frame = "look" /\ frame' = "advance"
        /\ UNCHANGED <<phase, squeeze_n, mechanism, withdrawn, tried, quiet>>
    BY DEF Look
  <1>2. PICK left, right, shut, toldToOpen \in BOOLEAN :
          /\ latch' = Latched(left /\ right, shut, toldToOpen)
          /\ holds' = (Squeezed /\ (left \/ latch'.on) /\ (right \/ latch'.on))
    BY DEF Look
  <1>3. /\ latch' \in [on : BOOLEAN, frames : 0..4] /\ holds' \in BOOLEAN
        /\ ~Squeezed => ~latch'.on /\ ~holds'
    <2>1. latch.frames \in 0..4 /\ latch.on \in BOOLEAN
      BY DEF CabinetInv, CabinetTypeOK
    <2>2. latch' \in [on : BOOLEAN, frames : 0..4]
      BY <1>2, <2>1 DEF Latched, Squeezed
    <2>3. ~Squeezed => ~latch'.on /\ ~holds'
      BY <1>2 DEF Latched
    <2>4. holds' \in BOOLEAN
      BY <1>2 DEF Squeezed
    <2> QED
      BY <2>2, <2>3, <2>4
  <1>4. CabinetTypeOK'
    BY <1>1, <1>3 DEF CabinetInv, CabinetTypeOK, Direction
  <1>5. LetGoHolds'
    BY <1>1, <1>3 DEF CabinetInv, LetGoHolds, Squeezed
  <1> QED
    BY <1>1, <1>4, <1>5 DEF CabinetInv, QuietCounted

LEMMA AdvanceKeeps == ASSUME CabinetInv, Advance PROVE CabinetInv'
  <1>1. /\ frame = "advance" /\ frame' = "decide"
        /\ UNCHANGED <<squeeze_n, latch, holds, mechanism, withdrawn, tried, quiet>>
    BY DEF Advance
  <1>2. PICK done \in Gate : phase' = IF done THEN phase + 1 ELSE phase
    BY DEF Advance
  <1>3. phase \in 1..10 /\ phase' \in 1..10 /\ (phase' = phase \/ (phase' = phase + 1 /\ done))
    BY <1>2, GateSays DEF CabinetInv, CabinetTypeOK
  <1>4. CabinetTypeOK'
    BY <1>1, <1>3 DEF CabinetInv, CabinetTypeOK, Direction
  <1>5. LetGoHolds'
    BY <1>1, <1>3 DEF CabinetInv, LetGoHolds
  <1>6. QuietCounted'
    <2>1. CASE phase = 3 /\ phase' = 4
      <3>1. done
        BY <1>3, <2>1
      <3>2. Opened
        BY <2>1, <3>1, GateSays DEF CabinetInv
      <3>3. mechanism.started /\ mechanism.casting >= Casts
        BY <3>2 DEF Opened
      <3> QED
        BY <1>1, <3>3 DEF CabinetInv, QuietCounted
    <2>2. CASE ~(phase = 3 /\ phase' = 4)
      BY <1>1, <1>3, <2>2 DEF CabinetInv, QuietCounted
    <2> QED
      BY <2>1, <2>2
  <1> QED
    BY <1>4, <1>5, <1>6 DEF CabinetInv

\* A command that leaves the search alone, and squeezes only where it may.
LEMMA CommandKeeps ==
  ASSUME CabinetInv, NEW force \in {"none", "handle", "carry"}, Command(force),
         UNCHANGED <<mechanism, tried, quiet>>, withdrawn' \in BOOLEAN,
         phase \in {4, 5, 6} => force = "none"
  PROVE  CabinetInv'
  <1>1. /\ frame' = "look" /\ squeeze_n' = force /\ UNCHANGED <<phase, latch, holds>>
    BY DEF Command
  <1>2. CabinetTypeOK'
    BY <1>1 DEF CabinetInv, CabinetTypeOK, Direction
  <1>3. LetGoHolds'
    BY <1>1 DEF LetGoHolds
  <1> QED
    BY <1>1, <1>2, <1>3 DEF CabinetInv, QuietCounted

\* The direction of the next push is one of the search.
LEMMA AimIsDirection ==
  ASSUME NEW m, m.casting \in Nat
  PROVE  Aim(m) \in Direction
  <1>1. m.casting % Casts \in 0..(Casts - 1)
    BY CabinetBounds
  <1> QED
    BY <1>1, CabinetBounds DEF Aim, Direction

LEMMA LessIsFewer ==
  ASSUME NEW a \in Nat, NEW b \in Nat, NEW c \in Nat, a < c
  PROVE  a * b \in Nat /\ (a + 1) * b = a * b + b /\ a * b + b <= c * b
  <1>1. c - a - 1 \in Nat /\ (c - a - 1) * b \in Nat /\ a * b \in Nat
    OBVIOUS
  <1>2. c * b = a * b + b + (c - a - 1) * b
    OBVIOUS
  <1> QED
    BY <1>1, <1>2

\* A frame in which nothing moved: the search is a frame on, and it casts
\* wider when that was the last one of the direction.
LEMMA StillCounts ==
  ASSUME CabinetInv, PullAlong(Still(mechanism)), quiet' = More(quiet), phase' = 3
  PROVE  /\ mechanism' \in [still : 0..Barred, casting : 0..(2 * Casts - 1), started : BOOLEAN]
         /\ quiet' \in 0..(Casts * Barred) /\ QuietCounted'
  <1> DEFINE still == mechanism.still
             casting == mechanism.casting
  <1>1. /\ still \in Nat /\ still < Barred /\ casting \in 0..(2 * Casts - 1)
        /\ mechanism \in [still : 0..Barred, casting : 0..(2 * Casts - 1), started : BOOLEAN]
        /\ quiet \in 0..(Casts * Barred)
        /\ casting < Casts => casting * Barred + still <= quiet
        /\ casting >= Casts => quiet = Casts * Barred
    BY CabinetBounds DEF CabinetInv, CabinetTypeOK, QuietCounted
  <1>2. quiet' \in 0..(Casts * Barred) /\ (quiet' = quiet + 1 \/ (quiet' = quiet /\ quiet = Casts * Barred))
    BY <1>1, CabinetBounds DEF More
  <1>3. Still(mechanism) = [mechanism EXCEPT !.still = still + 1]
    BY <1>1 DEF Still
  <1>4. CASE still + 1 < Barred
    <2>1. mechanism' = [mechanism EXCEPT !.still = still + 1]
      <3>1. [mechanism EXCEPT !.still = still + 1].still = still + 1
        BY <1>1
      <3>2. ~(still + 1 >= Barred)
        BY <1>1, <1>4, CabinetBounds
      <3> QED
        BY <1>3, <3>1, <3>2 DEF PullAlong, CastWider, IsBarred
    <2>2. mechanism'.still = still + 1 /\ mechanism'.casting = casting
      BY <1>1, <2>1
    <2>3. mechanism' \in [still : 0..Barred, casting : 0..(2 * Casts - 1), started : BOOLEAN]
      BY <1>1, <1>4, <2>1, CabinetBounds
    <2>4. casting < Casts => casting * Barred + (still + 1) <= quiet'
      <3> SUFFICES ASSUME casting < Casts PROVE casting * Barred + (still + 1) <= quiet'
        OBVIOUS
      <3>1. casting * Barred \in Nat /\ casting * Barred + Barred <= Casts * Barred
        <4> QED
          BY <1>1, LessIsFewer, CabinetBounds
      <3> QED
        BY <1>1, <1>2, <1>4, <3>1, CabinetBounds
    <2>5. casting >= Casts => quiet' = Casts * Barred
      BY <1>1, <1>2, CabinetBounds
    <2> QED
      BY <1>2, <1>4, <2>2, <2>3, <2>4, <2>5 DEF QuietCounted
  <1>5. CASE still + 1 = Barred
    <2> DEFINE next == IF casting + 1 < 2 * Casts THEN casting + 1 ELSE Casts
    <2>1. mechanism' = [mechanism EXCEPT !.casting = next, !.still = 0]
      <3>1. /\ Still(mechanism).still = Barred /\ Still(mechanism).casting = casting
            /\ Barred >= Barred
        BY <1>1, <1>3, <1>5, CabinetBounds
      <3>2. [Still(mechanism) EXCEPT !.casting = next, !.still = 0]
              = [mechanism EXCEPT !.casting = next, !.still = 0]
        BY <1>1, <1>3
      <3> QED
        BY <3>1, <3>2 DEF PullAlong, CastWider, IsBarred
    <2>2. next \in 0..(2 * Casts - 1) /\ (casting >= Casts => next >= Casts)
          /\ (next < Casts => next = casting + 1 /\ casting < Casts)
      BY <1>1, CabinetBounds
    <2>3. /\ mechanism'.still = 0 /\ mechanism'.casting = next
          /\ mechanism' \in [still : 0..Barred, casting : 0..(2 * Casts - 1), started : BOOLEAN]
      <3> HIDE DEF next
      <3>1. 0 \in 0..Barred
        BY CabinetBounds
      <3> QED
        BY <1>1, <2>1, <2>2, <3>1
    <2> HIDE DEF next
    <2>4. casting < Casts =>
            /\ casting * Barred \in Nat /\ (casting + 1) * Barred = casting * Barred + Barred
            /\ casting + 1 < Casts => casting * Barred + Barred <= Casts * Barred
      <3> SUFFICES ASSUME casting < Casts
                   PROVE  /\ casting * Barred \in Nat /\ (casting + 1) * Barred = casting * Barred + Barred
                          /\ casting + 1 < Casts => casting * Barred + Barred <= Casts * Barred
        OBVIOUS
      <3>1. casting \in Nat
        BY <1>1, CabinetBounds
      <3> QED
        BY <3>1, CabinetBounds, LessIsFewer
    <2>5. casting < Casts => quiet' >= casting * Barred + Barred
      BY <1>1, <1>2, <1>5, <2>4, CabinetBounds, LessIsFewer
    <2>6. next < Casts => next * Barred + 0 <= quiet'
      BY <1>1, <1>2, <2>2, <2>4, <2>5, CabinetBounds
    <2>7. next >= Casts => quiet' = Casts * Barred
      <3>1. CASE casting >= Casts
        BY <1>1, <1>2, <3>1, CabinetBounds
      <3>2. CASE casting < Casts /\ next >= Casts
        <4>1. casting + 1 = Casts
          BY <1>1, <2>2, <3>2, CabinetBounds DEF next
        <4>2. quiet' >= Casts * Barred
          BY <1>1, <2>4, <2>5, <3>2, <4>1, CabinetBounds
        <4> QED
          BY <1>2, <4>2, CabinetBounds
      <3> QED
        BY <1>1, <3>1, <3>2, CabinetBounds
    <2> QED
      BY <1>2, <2>3, <2>6, <2>7, CabinetBounds DEF QuietCounted
  <1> QED
    BY <1>1, <1>4, <1>5, CabinetBounds

LEMMA PullKeeps == ASSUME CabinetInv, Pull PROVE CabinetInv'
  <1>1. /\ phase = 3 /\ frame' = "look" /\ squeeze_n' = "handle"
        /\ UNCHANGED <<phase, latch, holds, withdrawn>>
    BY PhaseNames DEF Pull, Command, CabinetInv, CabinetTypeOK
  <1> DEFINE Mechanisms == [still : 0..Barred, casting : 0..(2 * Casts - 1), started : BOOLEAN]
  <1>2. mechanism \in Mechanisms /\ mechanism.still < Barred /\ mechanism.still \in Nat
    BY CabinetBounds DEF CabinetInv, CabinetTypeOK, QuietCounted
  <1>3. /\ tried \subseteq Direction /\ quiet \in 0..(Casts * Barred) /\ mechanism.casting \in Nat
        /\ Barred \in Nat /\ Barred > 0 /\ Casts \in Nat
    BY <1>2, CabinetBounds DEF CabinetInv, CabinetTypeOK
  <1>4. /\ mechanism' \in Mechanisms /\ quiet' \in 0..(Casts * Barred) /\ QuietCounted'
        /\ tried' \in {{Aim(mechanism')}, tried \cup {Aim(mechanism')}}
    <2>1. CASE /\ \E m \in Moved(mechanism) : PullAlong(m)
               /\ tried' = {Aim(mechanism')} /\ quiet' = 0
      <3>1. PICK s \in BOOLEAN : PullAlong([still |-> 0, casting |-> 0, started |-> s])
        <4>1. mechanism.started \in BOOLEAN
          BY <1>2
        <4> QED
          BY <2>1, <4>1 DEF Moved
      <3>2. mechanism' = [still |-> 0, casting |-> 0, started |-> s]
        BY <1>3, <3>1 DEF PullAlong, CastWider, IsBarred
      <3>3. mechanism' \in Mechanisms /\ quiet' \in 0..(Casts * Barred)
        BY <2>1, <3>2, CabinetBounds
      <3>4. QuietCounted'
        BY <1>1, <2>1, <3>2, CabinetBounds DEF QuietCounted
      <3> QED
        BY <2>1, <3>3, <3>4
    <2>2. CASE /\ PullAlong(Still(mechanism))
               /\ tried' = tried \cup {Aim(mechanism')} /\ quiet' = More(quiet)
      <3> HIDE DEF Mechanisms
      <3> QED
        BY <1>1, <2>2, StillCounts DEF Mechanisms
    <2>3. CASE /\ PullAlong(mechanism)
               /\ tried' = tried \cup {Aim(mechanism')} /\ UNCHANGED quiet
      <3>1. mechanism' = mechanism
        <4>1. ~(mechanism.still >= Barred)
          BY <1>2, <1>3
        <4> QED
          BY <2>3, <4>1 DEF PullAlong, CastWider, IsBarred
      <3>2. QuietCounted'
        BY <1>1, <2>3, <3>1 DEF CabinetInv, QuietCounted
      <3> QED
        BY <1>2, <1>3, <2>3, <3>1, <3>2
    <2> QED
      BY <2>1, <2>2, <2>3 DEF Pull
  <1>5. tried' \subseteq Direction
    <2>1. mechanism'.casting \in Nat
      BY <1>3, <1>4
    <2>2. Aim(mechanism') \in Direction
      BY <2>1, AimIsDirection
    <2> QED
      BY <1>3, <1>4, <2>2
  <1>6. CabinetTypeOK'
    BY <1>1, <1>4, <1>5 DEF CabinetInv, CabinetTypeOK, Direction
  <1>7. LetGoHolds'
    BY <1>1 DEF LetGoHolds
  <1> QED
    BY <1>4, <1>6, <1>7 DEF CabinetInv

LEMMA CabinetStart == CabinetInit => CabinetInv
  <1> SUFFICES ASSUME CabinetInit PROVE CabinetInv
    OBVIOUS
  <1>1. CabinetTypeOK
    <2>1. 0 \in 0..Barred /\ 0 \in 0..(2 * Casts - 1) /\ 0 \in 0..(Casts * Barred)
      BY CabinetBounds
    <2>2. latch \in [on : BOOLEAN, frames : 0..4]
      BY DEF CabinetInit
    <2>3. mechanism \in [still : 0..Barred, casting : 0..(2 * Casts - 1), started : BOOLEAN]
      BY <2>1 DEF CabinetInit
    <2>4. quiet \in 0..(Casts * Barred) /\ tried \subseteq Direction
      BY <2>1 DEF CabinetInit
    <2>5. frame \in {"look", "advance", "decide"} /\ squeeze_n \in {"none", "handle", "carry"}
      BY DEF CabinetInit
    <2>6. phase \in 1..10
      BY DEF CabinetInit
    <2>7. holds \in BOOLEAN /\ withdrawn \in BOOLEAN
      BY DEF CabinetInit
    <2> QED
      BY <2>2, <2>3, <2>4, <2>5, <2>6, <2>7 DEF CabinetTypeOK
  <1>2. QuietCounted /\ LetGoHolds
    BY CabinetBounds DEF CabinetInit, QuietCounted, LetGoHolds
  <1> QED
    BY <1>1, <1>2 DEF CabinetInv

LEMMA CabinetStep == CabinetInv /\ [CabinetNext]_cabinetVars => CabinetInv'
  <1> SUFFICES ASSUME CabinetInv, [CabinetNext]_cabinetVars PROVE CabinetInv'
    OBVIOUS
  <1>1. phase \in 1..10 /\ withdrawn \in BOOLEAN
    BY DEF CabinetInv, CabinetTypeOK
  <1>2. CASE UNCHANGED cabinetVars
    BY <1>2 DEF cabinetVars, CabinetInv, CabinetTypeOK, LetGoHolds, QuietCounted, Direction
  <1>3. CASE Reach
    BY <1>1, <1>3, CommandKeeps DEF Reach, Passive
  <1>4. CASE GripHandle
    BY <1>1, <1>4, CommandKeeps, PhaseNames DEF GripHandle, Passive
  <1>5. CASE LostHandle
    BY <1>1, <1>5, CommandKeeps, PhaseNames DEF LostHandle, Passive
  <1>6. CASE LetGo
    BY <1>1, <1>6, CommandKeeps DEF LetGo, Passive
  <1>7. CASE BackOff
    BY <1>1, <1>7, CommandKeeps DEF BackOff
  <1>8. CASE Carry
    BY <1>1, <1>8, CommandKeeps, PhaseNames DEF Carry, Passive
  <1>9. CASE SetDown
    BY <1>1, <1>9, CommandKeeps, PhaseNames DEF SetDown, Passive
  <1> QED
    BY <1>2, <1>3, <1>4, <1>5, <1>6, <1>7, <1>8, <1>9, LookKeeps, AdvanceKeeps, PullKeeps
       DEF CabinetNext

LEMMA CabinetInvariant == CabinetSpec => []CabinetInv
  BY CabinetStart, CabinetStep, PTL DEF CabinetSpec

\* Type correctness of the task (cabinet.py, opening.py).
THEOREM CabinetTypeCorrect == CabinetSpec => []CabinetTypeOK
  <1>1. CabinetInv => CabinetTypeOK
    BY DEF CabinetInv
  <1> QED
    BY <1>1, CabinetInvariant, PTL

\* The latch of the handle is off before the hand is near the contents
\* (_grip_state, decide).
THEOREM HandleIsForgotten == CabinetSpec => []HandleForgotten
  <1>1. CabinetInv => HandleForgotten
    BY PhaseNames DEF CabinetInv, CabinetTypeOK, LetGoHolds, HandleForgotten
  <1> QED
    BY <1>1, CabinetInvariant, PTL

\* The hand lets go only of a thing that moved and stopped, for as long as
\* every cast lasts, whatever Barred and Casts are (Mechanism.opened).
THEOREM OpenedHasStopped == CabinetSpec => []OpenHasStopped
  <1>1. CabinetInv => OpenHasStopped
    BY DEF CabinetInv, QuietCounted, OpenHasStopped
  <1> QED
    BY <1>1, CabinetInvariant, PTL

-----------------------------------------------------------------------------
(* BestOfFive: the passes of the judge.                                    *)

\* A pass of the judge: its winner clears the rubric, as the gates demand
\* of every candidate that does.
Sound(p) == Cleared(p) # {} => p.first \in Cleared(p)
Gated(p) == Cleared(p) \subseteq certified

\* What the passes are, and what calls they took.
PassesSound == \A i \in DOMAIN passes : Sound(passes[i])
PassesGated == repairs = 0 => \A i \in DOMAIN passes : Gated(passes[i])
CallsMade ==
    repairs = 1 => \/ Len(passes) = 2 /\ callCount = 3
                   \/ Len(passes) = 3 /\ callCount = 4

\* A decision ends the selection, and selects who leads the last pass.
DecisionDue ==
    \/ Len(passes) = 3
    \/ Len(passes) = 2 /\ ~reasons /\ repairs = 0 /\ ~(NoWinners /\ repairer)
Decided ==
    /\ selection # Undecided => DecisionDue
    /\ \A c \in selection.of :
           /\ Len(passes) \in DOMAIN passes /\ repairs = 0
           /\ PassWinner(passes[Len(passes)]) = {c}
           /\ MarginClear(passes[Len(passes)])

SelectionInv == SelectionTypeOK /\ PassesSound /\ PassesGated /\ CallsMade /\ Decided

-----------------------------------------------------------------------------
(* Passes.                                                                 *)

\* A winner of a sound pass clears the rubric.
LEMMA WinnerClears ==
  ASSUME NEW p, Sound(p), NEW c \in PassWinner(p) PROVE c \in Cleared(p) /\ PassWinner(p) = {c}
  BY DEF Sound, PassWinner

\* What a judge's pass is.
LEMMA PassesOfAre ==
  ASSUME NEW p \in PassesOf PROVE p \in Pass /\ Sound(p) /\ Gated(p)
  BY DEF PassesOf, Answers, Sound, Gated, TopOf

\* One more pass leaves those before it.
LEMMA JudgeAppends ==
  ASSUME SelectionTypeOK, Len(passes) <= 2, Judge
  PROVE  /\ passes' \in Seq(Pass) /\ Len(passes') = Len(passes) + 1
         /\ \A i \in DOMAIN passes : passes'[i] = passes[i]
         /\ DOMAIN passes' = DOMAIN passes \cup {Len(passes')}
         /\ Sound(passes'[Len(passes')]) /\ Gated(passes'[Len(passes')])
  <1>1. PICK p \in PassesOf : passes' = Append(passes, p)
    BY DEF Judge
  <1>2. p \in Pass /\ Sound(p) /\ Gated(p)
    BY PassesOfAre
  <1>3. passes \in Seq(Pass)
    BY DEF SelectionTypeOK
  <1>4. /\ passes' \in Seq(Pass) /\ Len(passes') = Len(passes) + 1
        /\ \A i \in DOMAIN passes : passes'[i] = passes[i]
        /\ DOMAIN passes' = DOMAIN passes \cup {Len(passes')}
        /\ passes'[Len(passes')] = p
    BY <1>1, <1>2, <1>3
  <1> QED
    BY <1>2, <1>4

\* A pass taken while nothing is decided and nothing repaired stays sound.
LEMMA JudgeKeeps ==
  ASSUME SelectionInv, Len(passes) <= 2, Judge, certified' = certified,
         repairs' = repairs, repairs = 0 \/ repairs = 1
  PROVE  PassesSound' /\ (repairs = 0 => PassesGated')
  <1>1. SelectionTypeOK
    BY DEF SelectionInv
  <1>2. PassesSound'
    BY <1>1, JudgeAppends DEF SelectionInv, PassesSound, Sound, Cleared
  <1>3. ASSUME repairs = 0 PROVE PassesGated'
    <2>1. \A i \in DOMAIN passes' : Cleared(passes'[i]) \subseteq certified
      BY <1>1, <1>3, JudgeAppends DEF SelectionInv, PassesGated, Gated, Cleared
    <2> QED
      BY <2>1 DEF PassesGated, Gated, Cleared
  <1> QED
    BY <1>2, <1>3

\* While a decision is not due none has been made.
LEMMA NotDue ==
  ASSUME SelectionInv, ~DecisionDue PROVE selection = Undecided /\ selection.of = {}
  BY DEF SelectionInv, Decided, Undecided

-----------------------------------------------------------------------------
(* The steps of select.                                                    *)

\* The two passes, a fallback pass and the pass after a repair.
JudgeStep == FirstPass \/ SecondPass \/ Fallback \/ PostRepair

\* They judge while no decision is due, and count their calls.
LEMMA JudgeStepsAre ==
  ASSUME SelectionInv, JudgeStep
  PROVE  /\ Judge /\ Len(passes) <= 2 /\ ~DecisionDue
         /\ certified' = certified /\ repairs' = repairs /\ repairer' = repairer
         /\ selection' = selection
         /\ callCount' \in 0..4 /\ reasons' \in BOOLEAN
         /\ repairs = 1 => Len(passes) = 2 /\ callCount' = 4
  <1> USE DEF SelectionInv, SelectionTypeOK, MaxTotalCalls, CallsMade
  <1>1. CASE FirstPass
    <2>1. Len(passes) = 0
      BY <1>1 DEF FirstPass
    <2> QED
      BY <1>1, <2>1 DEF FirstPass, DecisionDue
  <1>2. CASE SecondPass
    <2>1. reasons' \in BOOLEAN
      BY <1>2, Zenon DEF SecondPass
    <2> QED
      BY <1>2, <2>1 DEF SecondPass, DecisionDue
  <1>3. CASE Fallback
    BY <1>3 DEF Fallback, DecisionDue
  <1>4. CASE PostRepair
    BY <1>4 DEF PostRepair, DecisionDue
  <1> QED
    BY <1>1, <1>2, <1>3, <1>4 DEF JudgeStep

\* So they keep the invariant.
LEMMA JudgeStepKeeps == ASSUME SelectionInv, JudgeStep PROVE SelectionInv'
  <1>0. /\ Judge /\ Len(passes) <= 2 /\ ~DecisionDue
        /\ certified' = certified /\ repairs' = repairs /\ repairer' = repairer
        /\ selection' = selection
        /\ callCount' \in 0..4 /\ reasons' \in BOOLEAN
        /\ repairs = 1 => Len(passes) = 2 /\ callCount' = 4
    BY JudgeStepsAre
  <1>1. selection = Undecided /\ selection.of = {}
    BY <1>0, NotDue
  <1>2. SelectionTypeOK /\ Len(passes) <= 2 /\ repairs \in {0, 1}
    <2>1. SelectionTypeOK
      BY DEF SelectionInv
    <2>2. repairs \in {0, 1}
      BY <2>1 DEF SelectionTypeOK
    <2> QED
      BY <1>0, <2>1, <2>2
  <1>3. passes' \in Seq(Pass) /\ Len(passes') = Len(passes) + 1
    BY <1>0, <1>2, JudgeAppends
  <1>4. SelectionTypeOK'
    <2>1. callCount' \in 0..MaxTotalCalls /\ Len(passes') <= 3
      BY <1>0, <1>2, <1>3 DEF MaxTotalCalls, SelectionTypeOK
    <2> QED
      BY <1>0, <1>2, <1>3, <2>1 DEF SelectionTypeOK
  <1>5. PassesSound' /\ (repairs = 0 => PassesGated')
    BY <1>0, <1>2, JudgeKeeps
  <1>6. PassesGated'
    <2>1. CASE repairs = 0
      BY <1>5, <2>1
    <2>2. CASE repairs = 1
      BY <1>0, <2>2 DEF PassesGated
    <2> QED
      BY <1>2, <2>1, <2>2
  <1>7. CallsMade'
    <2>1. CASE repairs = 0
      BY <1>0, <2>1 DEF CallsMade
    <2>2. CASE repairs = 1
      <3>1. callCount' = 4 /\ Len(passes) = 2
        BY <1>0, <2>2
      <3>2. Len(passes') = 3
        BY <1>3, <3>1
      <3> QED
        BY <3>1, <3>2 DEF CallsMade
    <2> QED
      BY <1>2, <2>1, <2>2
  <1>8. Decided'
    BY <1>0, <1>1 DEF Decided
  <1> QED
    BY <1>4, <1>5, <1>6, <1>7, <1>8 DEF SelectionInv

\* A repair changes what the gates say, before any decision.
LEMMA RepairKeeps == ASSUME SelectionInv, RepairBest PROVE SelectionInv'
  <1>1. ~DecisionDue /\ Len(passes) = 2
    BY DEF RepairBest, DecisionDue
  <1>2. selection = Undecided /\ selection.of = {}
    BY <1>1, NotDue
  <1>3. certified' \subseteq Contestant
    BY DEF RepairBest, SelectionInv, SelectionTypeOK
  <1>4. SelectionTypeOK'
    <2>1. callCount' \in 0..MaxTotalCalls /\ repairs' \in 0..1
      BY DEF RepairBest, MaxTotalCalls
    <2> QED
      BY <1>3, <2>1 DEF RepairBest, SelectionInv, SelectionTypeOK
  <1>5. PassesSound'
    BY DEF RepairBest, SelectionInv, PassesSound, Sound, Cleared
  <1>6. PassesGated' /\ CallsMade'
    BY <1>1 DEF RepairBest, PassesGated, CallsMade
  <1>7. Decided'
    BY <1>2 DEF RepairBest, Decided
  <1> QED
    BY <1>4, <1>5, <1>6, <1>7 DEF SelectionInv

\* A candidate that is supported leads the last pass, alone.
LEMMA SupportedLeads ==
  ASSUME SelectionTypeOK, NEW c, Supported(c)
  PROVE  /\ Len(passes) \in DOMAIN passes /\ repairs = 0
         /\ PassWinner(passes[Len(passes)]) = {c}
  BY DEF Supported, Wins

\* A decision selects one candidate at most.
LEMMA DecideKeeps == ASSUME SelectionInv, Decide PROVE SelectionInv'
  <1> DEFINE chosen == {c \in Contestant : /\ Supported(c) /\ SureOf(c)
                                           /\ MarginClear(passes[Len(passes)])}
  <1>0. SelectionTypeOK
    BY DEF SelectionInv
  <1>1. selection'.of = chosen
        /\ selection' \in [outcome : {"SELECTED", "ALL_CANDIDATES_REJECTED", "UNCERTAIN"}, of : {chosen}]
    BY DEF Decide
  <1>2. \A c \in chosen : /\ Len(passes) \in DOMAIN passes /\ repairs = 0
                          /\ PassWinner(passes[Len(passes)]) = {c}
                          /\ MarginClear(passes[Len(passes)])
    BY <1>0, SupportedLeads
  <1>3. chosen \in {s \in SUBSET Contestant : Cardinality(s) <= 1}
    <2>1. CASE chosen = {}
      <3>1. Cardinality(chosen) = 0
        BY <2>1, FS_EmptySet
      <3> QED
        BY <2>1, <3>1
    <2>2. CASE chosen # {}
      <3>1. PICK c \in chosen : TRUE
        BY <2>2
      <3>2. chosen = {c}
        BY <1>2, <3>1
      <3>3. Cardinality(chosen) = 1
        BY <3>2, FS_Singleton
      <3>4. chosen \subseteq Contestant
        OBVIOUS
      <3> QED
        BY <3>3, <3>4
    <2> QED
      BY <2>1, <2>2
  <1>4. UNCHANGED <<certified, repairer, passes, reasons, callCount, repairs>> /\ DecisionDue
    BY DEF Decide, DecisionDue
  <1> HIDE DEF chosen
  <1>5. SelectionTypeOK'
    <2>1. selection' \in Selection
      BY <1>1, <1>3 DEF Selection
    <2> QED
      BY <1>0, <1>4, <2>1 DEF SelectionTypeOK
  <1>6. PassesSound' /\ PassesGated' /\ CallsMade'
    BY <1>4 DEF SelectionInv, PassesSound, PassesGated, CallsMade, Sound, Gated, Cleared
  <1>7. DecisionDue'
    BY <1>4 DEF DecisionDue, NoWinners, PassWinner, Cleared
  <1>8. \A c \in selection'.of :
           /\ Len(passes') \in DOMAIN passes' /\ repairs' = 0
           /\ PassWinner(passes'[Len(passes')]) = {c}
           /\ MarginClear(passes'[Len(passes')])
    BY <1>1, <1>2, <1>4
  <1>9. Decided'
    BY <1>7, <1>8 DEF Decided
  <1> QED
    BY <1>5, <1>6, <1>9 DEF SelectionInv

\* Every step keeps the invariant.
LEMMA SelectionStep == SelectionInv /\ [SelectionNext]_selectionVars => SelectionInv'
  <1> SUFFICES ASSUME SelectionInv, [SelectionNext]_selectionVars PROVE SelectionInv'
    OBVIOUS
  <1>1. CASE UNCHANGED selectionVars
    BY <1>1 DEF selectionVars, SelectionInv, SelectionTypeOK, PassesSound, PassesGated, CallsMade,
                Decided, DecisionDue, NoWinners, Sound, Gated, PassWinner, MarginClear, Cleared
  <1>2. CASE JudgeStep \/ RepairBest \/ Decide
    BY <1>2, JudgeStepKeeps, RepairKeeps, DecideKeeps
  <1> QED
    BY <1>1, <1>2 DEF SelectionNext, JudgeStep

\* The start.
LEMMA SelectionStart == SelectionInit => SelectionInv
  <1> SUFFICES ASSUME SelectionInit PROVE SelectionInv
    OBVIOUS
  <1>1. Cardinality({}) = 0
    BY FS_EmptySet
  <1>2. passes = <<>> /\ selection = Undecided /\ selection.of = {} /\ repairs = 0 /\ DOMAIN passes = {}
    BY DEF SelectionInit, Undecided
  <1>3. SelectionTypeOK
    <2>1. selection \in Selection
      <3>1. {} \in {s \in SUBSET Contestant : Cardinality(s) <= 1}
        BY <1>1
      <3> QED
        BY <1>2, <3>1 DEF Undecided, Selection
    <2>2. passes \in Seq(Pass) /\ Len(passes) <= 3
      BY <1>2
    <2>3. callCount \in 0..MaxTotalCalls /\ repairs \in 0..1
      BY DEF SelectionInit, MaxTotalCalls
    <2> QED
      BY <2>1, <2>2, <2>3 DEF SelectionInit, SelectionTypeOK
  <1>4. PassesSound /\ PassesGated /\ CallsMade /\ Decided
    BY <1>2 DEF PassesSound, PassesGated, CallsMade, Decided
  <1> QED
    BY <1>3, <1>4 DEF SelectionInv

-----------------------------------------------------------------------------

\* Types, and with them the ceiling of four calls and of one selected
\* candidate, hold for any number of candidates (select).
THEOREM SelectionTypeCorrect == SelectionSpec => []SelectionTypeOK
  <1>1. SelectionInv => SelectionTypeOK
    BY DEF SelectionInv
  <1> QED
    BY <1>1, SelectionStart, SelectionStep, PTL DEF SelectionSpec

\* Nobody is selected whom the physics gates reject, whatever judges and
\* repairers answer (_judge_pass).
THEOREM SelectedAreCertified == SelectionSpec => []OnlyCertifiedSelected
  <1>1. SelectionInv => OnlyCertifiedSelected
    <2> SUFFICES ASSUME SelectionInv, NEW c \in selection.of PROVE c \in certified
      BY DEF OnlyCertifiedSelected
    <2>1. Sound(passes[Len(passes)]) /\ Gated(passes[Len(passes)])
      BY DEF SelectionInv, Decided, PassesSound, PassesGated
    <2>2. c \in PassWinner(passes[Len(passes)])
      BY DEF SelectionInv, Decided
    <2> QED
      BY <2>1, <2>2, WinnerClears DEF Gated
  <1> QED
    BY <1>1, SelectionStart, SelectionStep, PTL DEF SelectionSpec

\* The selected candidate leads the last pass by a clear margin, so the
\* order of a judge's answers decides nothing (_pass_winner, _pass_margin).
THEOREM OrderDecidesNothing == SelectionSpec => []OrderBlind
  <1>1. SelectionInv => OrderBlind
    <2> SUFFICES ASSUME SelectionInv, NEW c \in selection.of, NEW d \in Contestant \ {c},
                        passes[Len(passes)].evaluations[d].clears
                 PROVE  passes[Len(passes)].evaluations[c].score
                          - passes[Len(passes)].evaluations[d].score >= ClearLead
      BY DEF OrderBlind
    <2>1. PassWinner(passes[Len(passes)]) = {c} /\ MarginClear(passes[Len(passes)])
      BY DEF SelectionInv, Decided
    <2>2. d \in Cleared(passes[Len(passes)]) \ PassWinner(passes[Len(passes)])
      BY <2>1 DEF Cleared
    <2> QED
      BY <2>1, <2>2 DEF MarginClear
  <1> QED
    BY <1>1, SelectionStart, SelectionStep, PTL DEF SelectionSpec

-----------------------------------------------------------------------------
(* FlywheelRun: the budget.                                                *)

\* What the budget's counter says is what was sent, and it is never overdrawn.
BudgetKept == spent \in 0..MaxModelCalls /\ sent = spent

\* A way for calls to end that has counted what it sent, from so many calls.
Honest(call, made) ==
    /\ call.calls \in made..MaxModelCalls
    /\ call.sent = call.calls - made

\* However one model is asked, retries included, the counter tells the truth
\* (RoutedModelClient's dispatch).
LEMMA DispatchHonest ==
    ASSUME NEW made \in 0..MaxModelCalls, NEW call \in Dispatched(made)
    PROVE  Honest(call, made)
<1>1. MaxModelCalls \in Nat
    BY FlywheelAssumption
<1>2. CASE MaxModelCalls - made <= 0
    <2>1. call = [ok |-> FALSE, calls |-> made, sent |-> 0]
        BY <1>2 DEF Dispatched
    <2> QED BY <1>1, <1>2, <2>1 DEF Honest
<1>3. CASE ~(MaxModelCalls - made <= 0)
    <2>1. PICK b \in BOOLEAN, n \in 1..(IF MaxModelCalls - made < 3 THEN MaxModelCalls - made ELSE 3) :
              call = [ok |-> b, calls |-> made + n, sent |-> n]
        BY <1>3 DEF Dispatched
    <2>2. n \in 1..(MaxModelCalls - made)
        BY <1>1, <1>3
    <2> QED BY <1>1, <2>1, <2>2 DEF Honest
<1> QED BY <1>2, <1>3

\* Two calls in a row are honest when each is.
LEMMA SecondHonest ==
    ASSUME NEW made \in 0..MaxModelCalls, NEW one, Honest(one, made),
           NEW two \in Dispatched(one.calls)
    PROVE  Honest([two EXCEPT !.sent = @ + one.sent], made)
<1>1. MaxModelCalls \in Nat
    BY FlywheelAssumption
<1>2. one.calls \in 0..MaxModelCalls /\ one.calls >= made
    BY <1>1 DEF Honest
<1>3. Honest(two, one.calls)
    BY <1>2, DispatchHonest
<1>4. DOMAIN two = {"ok", "calls", "sent"}
    BY <1>2 DEF Dispatched
<1>5. /\ [two EXCEPT !.sent = @ + one.sent].calls = two.calls
      /\ [two EXCEPT !.sent = @ + one.sent].sent = two.sent + one.sent
    BY <1>4
<1> QED BY <1>1, <1>2, <1>3, <1>5 DEF Honest

\* The fallback model spends the same budget (RoutedModelClient).
LEMMA RouteHonest ==
    ASSUME NEW made \in 0..MaxModelCalls, NEW mayDoubt, NEW call \in Routed(made, mayDoubt)
    PROVE  Honest(call, made)
<1>1. \/ call \in Dispatched(made)
      \/ \E p \in Dispatched(made) :
             \E f \in Dispatched(p.calls) : call = [f EXCEPT !.sent = @ + p.sent]
    BY DEF Routed
<1>2. CASE call \in Dispatched(made)
    BY <1>2, DispatchHonest
<1>3. ASSUME NEW p \in Dispatched(made), NEW f \in Dispatched(p.calls),
             call = [f EXCEPT !.sent = @ + p.sent]
      PROVE  Honest(call, made)
    <2>1. Honest(p, made)
        BY DispatchHonest
    <2> QED BY <1>3, <2>1, SecondHonest
<1> QED BY <1>1, <1>2, <1>3

\* So do both directions of a comparison (compare).
LEMMA CompareHonest ==
    ASSUME NEW made \in 0..MaxModelCalls, NEW call \in Compared(made)
    PROVE  Honest(call, made)
<1>1. PICK one \in Dispatched(made) :
          \/ call = one
          \/ \E two \in Dispatched(one.calls) : call = [two EXCEPT !.sent = @ + one.sent]
    BY DEF Compared
<1>2. Honest(one, made)
    BY DispatchHonest
<1> QED BY <1>1, <1>2, SecondHonest

\* Spending what an honest call says keeps the counter true.
LEMMA SpendsHonestly ==
    ASSUME BudgetKept, NEW call, Honest(call, spent), Spends(call)
    PROVE  BudgetKept'
<1>1. MaxModelCalls \in Nat
    BY FlywheelAssumption
<1> QED BY <1>1 DEF BudgetKept, Honest, Spends

\* A run begins with nothing spent and nothing sent.
LEMMA BudgetKeptInit == FlywheelInit => BudgetKept
    BY FlywheelAssumption DEF FlywheelInit, BudgetKept

\* Only what asks a model touches the budget, besides the start of a run.
LEMMA BudgetKeptStep == BudgetKept /\ [FlywheelNext]_flywheelVars => BudgetKept'
<1> SUFFICES ASSUME BudgetKept, [FlywheelNext]_flywheelVars PROVE BudgetKept'
    OBVIOUS
<1>1. MaxModelCalls \in Nat
    BY FlywheelAssumption
<1>2. spent \in 0..MaxModelCalls
    BY DEF BudgetKept
<1>3. CASE UNCHANGED <<spent, sent>>
    BY <1>3 DEF BudgetKept
<1>4. CASE Begin
    BY <1>1, <1>4 DEF Begin, BudgetKept
<1>5. CASE Score
    <2>1. PICK call \in Routed(spent, TRUE) : Spends(call)
        BY <1>5 DEF Score
    <2> QED BY <1>2, <2>1, RouteHonest, SpendsHonestly
<1>6. CASE RankFive
    <2>1. PICK call \in Routed(spent, TRUE) : Spends(call)
        BY <1>6 DEF RankFive
    <2> QED BY <1>2, <2>1, RouteHonest, SpendsHonestly
<1>12. CASE TearRanking
    <2>1. PICK call \in Routed(spent, TRUE) : Spends(call)
        BY <1>12 DEF TearRanking
    <2> QED BY <1>2, <2>1, RouteHonest, SpendsHonestly
<1>7. CASE Match
    <2>1. PICK call \in Compared(spent) : Spends(call)
        BY <1>7 DEF Match
    <2> QED BY <1>2, <2>1, CompareHonest, SpendsHonestly
<1>8. CASE Repair
    <2>1. PICK call \in Routed(spent, FALSE) : Spends(call)
        BY <1>8 DEF Repair
    <2> QED BY <1>2, <2>1, RouteHonest, SpendsHonestly
<1>9. ASSUME \/ Unsupported \/ Die \/ Build \/ WriteCandidate \/ NothingToBuild \/ Batch
             \/ SkipRank \/ PreservedRanking \/ Apply
      PROVE  UNCHANGED <<spent, sent>>
    BY <1>9 DEF Unsupported, Die, Build, WriteCandidate, NothingToBuild, Batch, SkipRank,
                PreservedRanking, Apply, budget
<1>10. ASSUME \/ AwaitHuman \/ Accept \/ TournamentOver \/ Crown \/ GiveUp \/ PrefilterRepair
       PROVE  UNCHANGED <<spent, sent>>
    BY <1>10 DEF AwaitHuman, Accept, TournamentOver, Crown, GiveUp, PrefilterRepair, Close, budget
<1>11. CASE UNCHANGED flywheelVars
    BY <1>3, <1>11 DEF flywheelVars
<1> QED BY <1>3, <1>4, <1>5, <1>6, <1>7, <1>8, <1>9, <1>10, <1>11, <1>12 DEF FlywheelNext

\* "A product run has a hard four-model-call ceiling across judging and
\* repair": no run sends more requests than its budget, whatever fails, is
\* retried or falls back (RoutedModelClient, run_best_of_five).
THEOREM CeilingHolds == FlywheelSpec => []CallCeiling
<1>1. BudgetKept => CallCeiling
    BY FlywheelAssumption DEF BudgetKept, CallCeiling
<1> QED BY <1>1, BudgetKeptInit, BudgetKeptStep, PTL DEF FlywheelSpec

-----------------------------------------------------------------------------
(* FlywheelRun: winners.                                                   *)

\* The k-th number of a finite set is there: every number of the set has as
\* many of the set up to itself as no other number has.
LEMMA KthOf ==
  ASSUME NEW S \in SUBSET Nat, IsFiniteSet(S), NEW k \in 1..Cardinality(S)
  PROVE  \E i \in S : Cardinality({j \in S : j <= i}) = k
  <1> DEFINE upto(i) == {j \in S : j <= i}
             rank == [i \in S |-> Cardinality(upto(i))]
             T == 1..Cardinality(S)
  <1>1. Cardinality(S) \in Nat
    BY FS_CardinalityType
  <1>2. ASSUME NEW i \in S
        PROVE  /\ IsFiniteSet(upto(i)) /\ Cardinality(upto(i)) \in T
    <2>1. upto(i) \in SUBSET S /\ i \in upto(i)
      OBVIOUS
    <2>2. IsFiniteSet(upto(i)) /\ Cardinality(upto(i)) <= Cardinality(S)
      BY <2>1, FS_Subset
    <2>3. Cardinality(upto(i)) \in Nat /\ Cardinality(upto(i)) # 0
      BY <2>1, <2>2, FS_CardinalityType, FS_EmptySet
    <2> QED
      BY <1>1, <2>2, <2>3
  <1>3. ASSUME NEW i \in S, NEW m \in S, i < m
        PROVE  Cardinality(upto(i)) < Cardinality(upto(m))
    <2>1. upto(i) \in SUBSET upto(m) /\ upto(i) # upto(m)
      <3>1. m \in upto(m) /\ m \notin upto(i)
        BY <1>3
      <3>2. \A j \in S : j <= i => j <= m
        BY <1>3
      <3> QED
        BY <3>1, <3>2
    <2>2. Cardinality(upto(i)) <= Cardinality(upto(m)) /\ Cardinality(upto(i)) # Cardinality(upto(m))
      BY <1>2, <2>1, FS_Subset
    <2> HIDE DEF upto
    <2> QED
      BY <1>1, <1>2, <2>2
  <1>4. rank \in [S -> T]
    BY <1>2
  <1>5. \A i, m \in S : rank[i] = rank[m] => i = m
    <2> SUFFICES ASSUME NEW i \in S, NEW m \in S, i # m PROVE rank[i] # rank[m]
      OBVIOUS
    <2>1. i < m \/ m < i
      OBVIOUS
    <2>2. /\ i < m => Cardinality(upto(i)) < Cardinality(upto(m))
          /\ m < i => Cardinality(upto(m)) < Cardinality(upto(i))
      BY <1>3
    <2>3. Cardinality(upto(i)) \in Nat /\ Cardinality(upto(m)) \in Nat
      BY <1>2
    <2> HIDE DEF upto
    <2> QED
      BY <2>1, <2>2, <2>3
  <1>6. rank \in Injection(S, T)
    BY <1>4, <1>5 DEF Injection, IsInjective
  <1>7. IsFiniteSet(T) /\ Cardinality(T) = Cardinality(S)
    BY <1>1, FS_Interval
  <1>8. rank \in Surjection(S, T)
    BY <1>6, <1>7, FS_Injection
  <1>9. \E i \in S : rank[i] = k
    BY <1>8 DEF Surjection
  <1> QED
    BY <1>9

\* A list of candidates: one of each recipe, and what is ranked is valid.
PoolSound(s) ==
    /\ s \in Seq(Candidate)
    /\ \A i, k \in DOMAIN s : s[i].name.recipe = s[k].name.recipe => i = k
    /\ \A i \in DOMAIN s : s[i].rankable => s[i].valid

\* What WinnerEarned asks of a winner.
Earned(c) == c.valid /\ c.evidence /\ c.verdict = "pass" /\ (attempt <= 1 => c.own)

\* Only a valid candidate is scored by itself.
ScoredIsValid == at = "score" => Len(pool) > 0 /\ Last(pool).valid

\* A ranking is applied to a line as long as it is.
RankedIsLinedUp == at = "apply" => Cardinality(Captured) = Ranked /\ rankings[round] \in Ranking

\* The first run finds no ranking it has not made itself, and applies the
\* one it made to the line it made it of.
FirstRankings ==
    /\ attempt = 0 => at = "idle" /\ \A r \in Round : rankings[r] = NoRanking
    /\ attempt = 1 /\ at # "idle" =>
          \A r \in Round :
              r > round \/ (r = round /\ at \in {"build", "score", "write", "batch", "rank"})
                  => rankings[r] = NoRanking
    /\ attempt = 1 /\ at = "apply" =>
          \A k \in 1..Ranked : rankings[round].of[k] = Lineup[k].name

\* Whoever a run accepts, or puts first, has earned it.
ChosenEarned ==
    /\ \A c \in accepted \cup rivals : Earned(c)
    /\ champion = Nobody \/ Earned(champion)
    /\ at \in {"tournament", "finish"} => Earned(champion)

FlywheelInv ==
    /\ FlywheelTypeOK /\ BudgetKept /\ PoolSound(pool) /\ PoolSound(trace.first)
    /\ ScoredIsValid /\ RankedIsLinedUp /\ FirstRankings /\ ChosenEarned /\ WinnerEarned
-----------------------------------------------------------------------------
\* A list with one candidate of each recipe is no longer than the recipes.
LEMMA OneEachFits ==
  ASSUME NEW s \in Seq(Candidate),
         \A i, k \in DOMAIN s : s[i].name.recipe = s[k].name.recipe => i = k
  PROVE  Len(s) <= Recipes
  <1> DEFINE f == [i \in 1..Len(s) |-> s[i].name.recipe]
  <1>1. Len(s) \in Nat /\ DOMAIN s = 1..Len(s) /\ \A i \in 1..Len(s) : s[i] \in Candidate
    OBVIOUS
  <1>2. f \in [1..Len(s) -> 1..Recipes]
    BY <1>1 DEF Candidate, Name, Recipe
  <1>3. f \in Injection(1..Len(s), 1..Recipes)
    BY <1>1, <1>2 DEF Injection, IsInjective
  <1>4. /\ IsFiniteSet(1..Recipes) /\ Cardinality(1..Recipes) = Recipes
        /\ Cardinality(1..Len(s)) = Len(s)
    <2>1. Recipes \in Nat /\ 1 \in Int
      BY FlywheelAssumption
    <2>2. Cardinality(1..Recipes) = Recipes /\ IsFiniteSet(1..Recipes)
      BY <2>1, FS_Interval
    <2>3. Cardinality(1..Len(s)) = Len(s)
      BY <1>1, FS_Interval
    <2> QED
      BY <2>2, <2>3
  <1> HIDE DEF f
  <1> QED
    BY <1>3, <1>4, FS_Injection

\* Every place of the line holds a captured candidate of the pool.
LEMMA LinedUp ==
  ASSUME PoolSound(pool)
  PROVE  /\ Cardinality(Captured) \in Nat
         /\ Lineup \in Seq(Candidate) /\ Len(Lineup) = Cardinality(Captured)
         /\ \A k \in 1..Cardinality(Captured) : \E i \in Captured : Lineup[k] = pool[i]
  <1>1. Len(pool) \in Nat /\ DOMAIN pool = 1..Len(pool) /\ \A i \in DOMAIN pool : pool[i] \in Candidate
    BY DEF PoolSound
  <1>2. Captured \in SUBSET (1..Len(pool)) /\ Captured \in SUBSET Nat
    BY <1>1 DEF Captured
  <1>3. IsFiniteSet(1..Len(pool))
    BY <1>1, FS_Interval
  <1>4. IsFiniteSet(Captured)
    BY <1>2, <1>3, FS_Subset
  <1>5. Cardinality(Captured) \in Nat
    BY <1>4, FS_CardinalityType
  <1>6. ASSUME NEW k \in 1..Cardinality(Captured)
        PROVE  Lineup[k] \in Candidate /\ \E i \in Captured : Lineup[k] = pool[i]
    <2> DEFINE i == CHOOSE i \in Captured : Cardinality({j \in Captured : j <= i}) = k
    <2>1. \E c \in Captured : Cardinality({j \in Captured : j <= c}) = k
      BY <1>2, <1>4, KthOf
    <2>2. i \in Captured
      BY <2>1
    <2>3. Lineup[k] = pool[i]
      BY DEF Lineup
    <2> HIDE DEF i
    <2> QED
      BY <1>1, <1>2, <2>2, <2>3
  <1>7. Lineup \in [1..Cardinality(Captured) -> Candidate]
    BY <1>6 DEF Lineup
  <1> QED
    BY <1>5, <1>6, <1>7

-----------------------------------------------------------------------------
\* A new recipe's candidate keeps the list sound.
LEMMA AppendSound ==
  ASSUME PoolSound(pool), NEW c \in Candidate, c.name.recipe \notin Tried, c.rankable => c.valid
  PROVE  PoolSound(Append(pool, c))
  <1> DEFINE t == Append(pool, c)
  <1>1. /\ Len(pool) \in Nat /\ DOMAIN pool = 1..Len(pool)
        /\ t \in Seq(Candidate) /\ DOMAIN t = 1..(Len(pool) + 1)
        /\ \A i \in 1..Len(pool) : t[i] = pool[i]
        /\ t[Len(pool) + 1] = c
    BY DEF PoolSound
  <1>2. \A i \in 1..Len(pool) : pool[i].name.recipe # c.name.recipe
    BY <1>1 DEF Tried
  <1> HIDE DEF t
  <1>3. \A i \in DOMAIN t : i \in 1..Len(pool) \/ i = Len(pool) + 1
    BY <1>1
  <1>4. \A i, k \in DOMAIN t : t[i].name.recipe = t[k].name.recipe => i = k
    BY <1>1, <1>2, <1>3 DEF PoolSound
  <1>5. \A i \in DOMAIN t : t[i].rankable => t[i].valid
    BY <1>1, <1>3 DEF PoolSound
  <1> QED
    BY <1>1, <1>4, <1>5 DEF PoolSound, t

\* What is found out about the candidates keeps it sound.
LEMMA UpdateSound ==
  ASSUME PoolSound(pool), NEW t \in Seq(Candidate), DOMAIN t = DOMAIN pool,
         \A i \in DOMAIN pool : t[i].name = pool[i].name /\ (t[i].rankable => t[i].valid)
  PROVE  PoolSound(t)
  BY DEF PoolSound

\* A list with one more at its end.
LEMMA OneMore ==
  ASSUME NEW S, NEW s \in Seq(S), NEW c \in S
  PROVE  /\ Append(s, c) \in Seq(S) /\ Len(s) \in Nat
         /\ DOMAIN Append(s, c) = 1..(Len(s) + 1)
         /\ Append(s, c)[Len(s) + 1] = c
         /\ \A i \in 1..Len(s) : Append(s, c)[i] = s[i]
  OBVIOUS

\* The last candidate gets its verdict: the others stay as they are.
LEMMA VerdictOfLast ==
  ASSUME PoolSound(pool), Len(pool) > 0, NEW c \in Candidate,
         c.name = Last(pool).name, c.rankable => c.valid
  PROVE  PoolSound(Append(Front(pool), c))
  <1> DEFINE t == Append(Front(pool), c)
             n == Len(pool)
  <1>1. n \in Nat /\ DOMAIN pool = 1..n /\ Last(pool) = pool[n]
    BY DEF PoolSound, Last
  <1>2. /\ t \in Seq(Candidate) /\ DOMAIN t = 1..n /\ t[n] = c
        /\ \A i \in 1..n : i # n => t[i] = pool[i]
    <2> DEFINE f == Front(pool)
    <2>1. f = SubSeq(pool, 1, n - 1) /\ pool \in Seq(Candidate)
      BY DEF Front, PoolSound
    <2>2. f \in Seq(Candidate) /\ Len(f) = n - 1 /\ \A i \in 1..(n - 1) : f[i] = pool[i]
      BY <1>1, <2>1
    <2> HIDE DEF f
    <2>3. /\ Append(f, c) \in Seq(Candidate) /\ DOMAIN Append(f, c) = 1..n
          /\ Append(f, c)[n] = c /\ \A i \in 1..(n - 1) : Append(f, c)[i] = f[i]
      <3>1. Len(f) + 1 = n
        BY <1>1, <2>2
      <3> QED
        BY <2>2, <3>1, OneMore
    <2>4. \A i \in 1..n : i # n => i \in 1..(n - 1)
      <3>1. \A m \in Nat : \A i \in 1..m : i # m => i \in 1..(m - 1)
        OBVIOUS
      <3> HIDE DEF n
      <3> QED
        BY <1>1, <3>1
    <2> HIDE DEF n
    <2> QED
      BY <2>2, <2>3, <2>4 DEF f
  <1> HIDE DEF t
  <1>3. \A i \in DOMAIN pool : t[i].name = pool[i].name /\ (t[i].rankable => t[i].valid)
    BY <1>1, <1>2 DEF PoolSound
  <1> QED
    BY <1>1, <1>2, <1>3, UpdateSound DEF t

\* The length of a sound list is within the type's bound.
LEMMA SoundFits == ASSUME NEW s, PoolSound(s) PROVE s \in Seq(Candidate) /\ Len(s) <= Recipes
  BY OneEachFits DEF PoolSound

\* The empty list is sound.
LEMMA EmptySound == PoolSound(<<>>)
  BY DEF PoolSound

\* The trace of a run that has not begun is a trace.
LEMMA NoTraceIsTrace == NoTrace \in Trace /\ NoTrace.first = <<>>
  <1>1. 0 \in 0..MaxRounds
    BY FlywheelAssumption
  <1>2. <<>> \in Seq(Candidate)
    OBVIOUS
  <1> QED
    BY <1>1, <1>2 DEF NoTrace, Trace

\* What is written of a round is a trace, of the same status and winner.
LEMMA RoundSaved ==
  ASSUME FlywheelInv, NEW record \in Trace, PoolSound(record.first), PoolSound(pool)',
         SaveRound(record)
  PROVE  /\ trace' \in Trace /\ PoolSound(trace.first)'
         /\ trace'.status = record.status /\ trace'.winner = record.winner
  <1>1. round \in 0..MaxRounds
    BY FlywheelAssumption DEF FlywheelInv, FlywheelTypeOK, Round
  <1> DEFINE f == IF round = 1 THEN pool' ELSE record.first
  <1>2. PoolSound(f) /\ f \in Seq(Candidate)
    BY DEF PoolSound
  <1>3. trace' = [record EXCEPT !.rounds = round, !.first = f]
    BY DEF SaveRound
  <1> HIDE DEF f
  <1>4. trace' \in Trace
    BY <1>1, <1>2, <1>3 DEF Trace
  <1>5. trace'.first = f /\ trace'.status = record.status /\ trace'.winner = record.winner
    BY <1>3 DEF Trace
  <1> QED
    BY <1>2, <1>4, <1>5 DEF PoolSound

\* A process that ends takes with it all but the files.
LEMMA GoneKeeps ==
  ASSUME FlywheelInv, BudgetKept', Gone, UNCHANGED <<mode, attempt>>,
         trace' \in Trace, PoolSound(trace.first)', WinnerEarned',
         \/ rankings' = rankings
         \/ /\ attempt # 0 /\ DOMAIN rankings' = Round
            /\ \A r \in Round : rankings'[r] \in Ranking \cup {NoRanking, TornRanking}
  PROVE  FlywheelInv'
  <1>1. PoolSound(pool)' /\ 1 \in Round /\ Len(pool)' <= Recipes
    BY EmptySound, SoundFits, FlywheelAssumption DEF Gone, Round
  <1>2. FlywheelTypeOK'
    BY <1>1, FlywheelAssumption DEF FlywheelInv, FlywheelTypeOK, Gone, BudgetKept, Stages, PoolSound
  <1>3. ScoredIsValid' /\ RankedIsLinedUp' /\ ChosenEarned'
    BY DEF Gone, ScoredIsValid, RankedIsLinedUp, ChosenEarned
  <1>4. FirstRankings'
    BY DEF FlywheelInv, Gone, FirstRankings
  <1> QED
    BY <1>1, <1>2, <1>3, <1>4 DEF FlywheelInv

\* So does one that raises.
LEMMA RaisesKeeps == ASSUME FlywheelInv, BudgetKept', Raises PROVE FlywheelInv'
  <1>1. trace' \in Trace /\ PoolSound(trace.first)' /\ WinnerEarned'
    BY DEF FlywheelInv, FlywheelTypeOK, Raises, files, PoolSound, WinnerEarned
  <1> QED
    BY <1>1, GoneKeeps DEF Raises, files

\* The end of a run is written with the winner it ends with.
LEMMA CloseKeeps ==
  ASSUME FlywheelInv, BudgetKept', NEW winner \in Candidate \cup {Nobody},
         NEW status \in {"awaiting_human_selection", "winner_selected", "no_acceptable_candidate"},
         Close(status, winner),
         status = "winner_selected" => Earned(winner)
  PROVE  FlywheelInv'
  <1>1. trace' = [trace EXCEPT !.status = status, !.winner = winner]
    BY DEF Close
  <1>2. trace' \in Trace /\ trace'.first = trace.first /\ trace'.status = status /\ trace'.winner = winner
    BY <1>1 DEF FlywheelInv, FlywheelTypeOK, Trace
  <1>3. PoolSound(trace.first)'
    BY <1>2 DEF FlywheelInv, PoolSound
  <1>4. WinnerEarned'
    BY <1>2 DEF WinnerEarned, Earned, Close
  <1> QED
    BY <1>2, <1>3, <1>4, GoneKeeps DEF Close

-----------------------------------------------------------------------------
\* A run begins with a list it finds, or with none.
LEMMA BeginKeeps == ASSUME FlywheelInv, BudgetKept', Begin PROVE FlywheelInv'
  <1> USE DEF FlywheelInv
  <1>1. /\ PoolSound(pool)' /\ PoolSound(trace.first)'
        /\ trace' \in Trace /\ trace'.status = "running"
    <2>1. CASE Resumable
      <3>1. pool' = trace.first /\ trace' = [trace EXCEPT !.status = "running"]
        BY <2>1 DEF Begin
      <3>2. trace' \in Trace /\ trace'.first = trace.first /\ trace'.status = "running"
        BY <3>1 DEF FlywheelTypeOK, Trace
      <3> QED
        BY <3>1, <3>2 DEF PoolSound
    <2>2. CASE ~Resumable
      <3>1. pool' = <<>> /\ trace' = FreshTrace
        BY <2>2 DEF Begin
      <3>2. trace' \in Trace /\ trace'.first = <<>> /\ trace'.status = "running"
        BY <3>1, NoTraceIsTrace DEF FreshTrace, Trace
      <3> QED
        BY <3>1, <3>2, EmptySound
    <2> QED
      BY <2>1, <2>2
  <1>2. FlywheelTypeOK'
    <2>1. attempt' \in 0..MaxRuns
      BY FlywheelAssumption DEF Begin, FlywheelTypeOK
    <2>2. Len(pool)' <= Recipes /\ pool' \in Seq(Candidate)
      BY <1>1, SoundFits DEF PoolSound
    <2> QED
      BY <1>1, <2>1, <2>2, FlywheelAssumption DEF Begin, FlywheelTypeOK, found, BudgetKept, Stages
  <1>3. ScoredIsValid' /\ RankedIsLinedUp' /\ WinnerEarned'
    BY <1>1 DEF Begin, ScoredIsValid, RankedIsLinedUp, WinnerEarned
  <1>4. attempt \in Nat /\ attempt' = attempt + 1
    BY DEF Begin, FlywheelTypeOK
  <1>5. FirstRankings'
    BY <1>4 DEF FirstRankings, Begin
  <1>6. ChosenEarned'
    BY <1>4 DEF ChosenEarned, Earned, Begin, found
  <1> QED
    BY <1>1, <1>2, <1>3, <1>5, <1>6

\* A run that refuses the task leaves a trace that says so.
LEMMA UnsupportedKeeps == ASSUME FlywheelInv, BudgetKept', Unsupported PROVE FlywheelInv'
  <1> USE DEF FlywheelInv
  <1>1. /\ trace' \in Trace /\ trace'.first = <<>> /\ trace'.status = "unsupported_motion"
    BY NoTraceIsTrace DEF Unsupported, Trace
  <1>2. FlywheelTypeOK'
    <2>1. attempt' \in 0..MaxRuns
      BY FlywheelAssumption DEF Unsupported, FlywheelTypeOK
    <2> QED
      BY <1>1, <2>1, FlywheelAssumption DEF Unsupported, FlywheelTypeOK, found, budget, BudgetKept, Stages
  <1>3. ScoredIsValid' /\ RankedIsLinedUp' /\ WinnerEarned'
    BY <1>1 DEF Unsupported, ScoredIsValid, RankedIsLinedUp, WinnerEarned
  <1>4. attempt \in Nat /\ attempt' = attempt + 1
    BY DEF Unsupported, FlywheelTypeOK
  <1>5. FirstRankings'
    BY <1>4 DEF FirstRankings, Unsupported
  <1>6. ChosenEarned'
    BY <1>4 DEF ChosenEarned, Earned, Unsupported, found
  <1>7. PoolSound(pool)' /\ PoolSound(trace.first)'
    <2>1. pool' = pool
      BY DEF Unsupported
    <2>2. PoolSound(pool)'
      BY <2>1 DEF PoolSound
    <2>3. PoolSound(trace'.first)
      BY <1>1, EmptySound
    <2> QED
      BY <2>2, <2>3 DEF PoolSound
  <1> QED
    BY <1>2, <1>3, <1>5, <1>6, <1>7

\* The recipe's candidate is the first of its recipe.
LEMMA BuildKeeps == ASSUME FlywheelInv, BudgetKept', Build PROVE FlywheelInv'
  <1> USE DEF FlywheelInv
  <1>1. PICK q \in Untried, valid \in BOOLEAN, fresh \in BOOLEAN :
          /\ fresh => valid
          /\ pool' = Append(pool, [Nobody EXCEPT !.name = [run |-> attempt, round |-> round, recipe |-> q],
                                                 !.valid = valid, !.fresh = fresh])
          /\ at' = IF mode = "unary_tournament" /\ fresh THEN "score" ELSE "write"
    BY DEF Build
  <1> DEFINE n == [run |-> attempt, round |-> round, recipe |-> q]
             c == [Nobody EXCEPT !.name = n, !.valid = valid, !.fresh = fresh]
  <1>2. q \in Recipe /\ q \notin Tried
    BY DEF Untried
  <1>3. attempt \in 1..MaxRuns
    BY FlywheelAssumption DEF Build, FirstRankings, FlywheelTypeOK
  <1>4. n \in Name
    BY <1>2, <1>3 DEF Name, FlywheelTypeOK
  <1>5. n.recipe = q
    OBVIOUS
  <1> HIDE DEF n
  <1>6. c \in Candidate /\ c.name = n /\ c.valid = valid /\ c.rankable = FALSE
    BY <1>4 DEF Candidate, Nobody
  <1>7. pool' = Append(pool, c)
    BY <1>1 DEF n
  <1> HIDE DEF c
  <1>8. PoolSound(pool)'
    <2>1. PoolSound(Append(pool, c))
      BY <1>2, <1>5, <1>6, AppendSound
    <2> QED
      BY <1>7, <2>1 DEF PoolSound
  <1>9. pool' \in Seq(Candidate) /\ Len(pool)' <= Recipes
    BY <1>8, SoundFits
  <1>10. FlywheelTypeOK'
    BY <1>1, <1>9 DEF Build, FlywheelTypeOK, found, budget, files, BudgetKept, Stages
  <1>11. ScoredIsValid'
    <2>1. pool \in Seq(Candidate) /\ Len(pool) \in Nat
      BY DEF PoolSound
    <2>2. Len(pool)' = Len(pool) + 1 /\ pool'[Len(pool)'] = c
      BY <1>7, <2>1
    <2> QED
      BY <1>1, <1>6, <2>1, <2>2 DEF ScoredIsValid, Last
  <1>12. RankedIsLinedUp' /\ WinnerEarned' /\ PoolSound(trace.first)'
    BY <1>1 DEF Build, RankedIsLinedUp, WinnerEarned, files, PoolSound
  <1>13. FirstRankings'
    BY <1>1 DEF Build, FirstRankings, files
  <1>14. ChosenEarned'
    BY <1>1 DEF Build, ChosenEarned, Earned, found
  <1> QED
    BY <1>8, <1>10, <1>11, <1>12, <1>13, <1>14

\* An accepted candidate of a round of its own has passed for itself.
LEMMA ScoreKeeps == ASSUME FlywheelInv, BudgetKept', Score PROVE FlywheelInv'
  <1> USE DEF FlywheelInv
  <1>1. CASE Raises
    BY <1>1, RaisesKeeps
  <1>2. CASE ~Raises
    <2>1. PICK verdict \in {"pass", "fail"} :
            LET c == [Last(pool) EXCEPT !.evidence = TRUE, !.rankable = TRUE,
                                        !.verdict = verdict, !.own = TRUE]
            IN  /\ pool' = Append(Front(pool), c)
                /\ accepted' = IF verdict = "pass" THEN accepted \cup {c} ELSE accepted
      BY <1>2 DEF Score
    <2>2. /\ at = "score" /\ at' = "write"
          /\ UNCHANGED <<mode, attempt, round, champion, rivals, trace, rankings>>
      BY <1>2 DEF Score, files
    <2> DEFINE last == Last(pool)
               c == [last EXCEPT !.evidence = TRUE, !.rankable = TRUE, !.verdict = verdict, !.own = TRUE]
    <2>3. Len(pool) > 0 /\ last.valid /\ last \in Candidate
      <3>1. Len(pool) > 0 /\ last.valid
        BY <2>2 DEF ScoredIsValid
      <3>2. pool \in Seq(Candidate)
        BY DEF PoolSound
      <3> QED
        BY <3>1, <3>2 DEF Last
    <2> HIDE DEF last
    <2>4. /\ c \in Candidate /\ c.name = last.name /\ c.valid /\ c.evidence /\ c.own
          /\ c.verdict = verdict
      BY <2>3 DEF Candidate
    <2>5. pool' = Append(Front(pool), c) /\ accepted' = IF verdict = "pass" THEN accepted \cup {c} ELSE accepted
      BY <2>1 DEF last
    <2> HIDE DEF c
    <2>6. PoolSound(Append(Front(pool), c))
      BY <2>3, <2>4, VerdictOfLast DEF last
    <2>7. PoolSound(pool)' /\ PoolSound(trace.first)'
      BY <2>2, <2>5, <2>6 DEF PoolSound
    <2>8. pool' \in Seq(Candidate) /\ Len(pool)' <= Recipes
      BY <2>7, SoundFits
    <2>9. FlywheelTypeOK'
      BY <2>2, <2>4, <2>5, <2>8 DEF FlywheelTypeOK, BudgetKept, Stages
    <2>10. ScoredIsValid' /\ RankedIsLinedUp' /\ WinnerEarned' /\ FirstRankings'
      BY <2>2 DEF ScoredIsValid, RankedIsLinedUp, WinnerEarned, FirstRankings
    <2>11. ChosenEarned'
      BY <2>2, <2>4, <2>5 DEF ChosenEarned, Earned
    <2> QED
      BY <2>7, <2>9, <2>10, <2>11
  <1> QED
    BY <1>1, <1>2

\* The trace is saved with what is in memory.
LEMMA WriteKeeps == ASSUME FlywheelInv, BudgetKept', WriteCandidate PROVE FlywheelInv'
  <1> USE DEF FlywheelInv
  <1>1. /\ at = "write" /\ at' \in {"build", "verdict", "batch"}
        /\ UNCHANGED <<pool, mode, attempt, round, accepted, champion, rivals, rankings>>
        /\ SaveRound(trace)
    BY DEF WriteCandidate, found
  <1>2. PoolSound(pool)'
    BY <1>1 DEF PoolSound
  <1>3. /\ trace' \in Trace /\ PoolSound(trace.first)'
        /\ trace'.status = trace.status /\ trace'.winner = trace.winner
    BY <1>1, <1>2, RoundSaved DEF FlywheelTypeOK
  <1>4. FlywheelTypeOK'
    BY <1>1, <1>3 DEF FlywheelTypeOK, BudgetKept, Stages
  <1>5. ScoredIsValid' /\ RankedIsLinedUp' /\ WinnerEarned' /\ FirstRankings' /\ ChosenEarned'
    BY <1>1, <1>3 DEF ScoredIsValid, RankedIsLinedUp, WinnerEarned, FirstRankings, ChosenEarned, Earned
  <1> QED
    BY <1>2, <1>3, <1>4, <1>5

\* Where only the place changes.
LEMMA PlaceKeeps ==
  ASSUME FlywheelInv, BudgetKept', NothingToBuild \/ SkipRank \/ TournamentOver
  PROVE  FlywheelInv'
  <1> USE DEF FlywheelInv
  <1>1. /\ \/ at = "build" /\ at' = "batch"
           \/ at = "rank" /\ at' = "verdict"
           \/ at = "tournament" /\ at' = "finish"
        /\ UNCHANGED <<pool, mode, attempt, round, accepted, champion, rivals, trace, rankings>>
    BY DEF NothingToBuild, SkipRank, TournamentOver, found, files
  <1>2. FlywheelTypeOK'
    BY <1>1 DEF FlywheelTypeOK, BudgetKept, Stages
  <1>3. ScoredIsValid' /\ RankedIsLinedUp' /\ WinnerEarned' /\ FirstRankings' /\ ChosenEarned'
    BY <1>1 DEF ScoredIsValid, RankedIsLinedUp, WinnerEarned, FirstRankings, ChosenEarned, Earned
  <1>4. PoolSound(pool)' /\ PoolSound(trace.first)'
    BY <1>1 DEF PoolSound
  <1> QED
    BY <1>2, <1>3, <1>4

\* Only valid candidates are put in a batch.
LEMMA BatchKeeps == ASSUME FlywheelInv, BudgetKept', Batch PROVE FlywheelInv'
  <1> USE DEF FlywheelInv
  <1>1. /\ at = "batch" /\ at' \in {"rank", "verdict"}
        /\ UNCHANGED <<mode, attempt, round, accepted, champion, rivals, rankings>>
        /\ SaveRound(trace)
    BY DEF Batch, found
  <1>2. /\ pool \in Seq(Candidate) /\ Len(pool) \in Nat /\ DOMAIN pool = 1..Len(pool)
        /\ \A i \in DOMAIN pool : pool[i] \in Candidate
    BY DEF PoolSound
  <1>3. /\ pool' = [i \in DOMAIN pool |-> pool'[i]]
        /\ \A i \in DOMAIN pool : pool'[i] \in Candidate /\ pool'[i].name = pool[i].name
                                  /\ (pool'[i].rankable => pool'[i].valid)
    <2>1. CASE Complete
      <3>1. PICK b \in Batches :
              pool' = [i \in DOMAIN pool |->
                         [pool[i] EXCEPT !.rankable = (i \in b),
                                         !.evidence = @ \/ (i \in b /\ mode = "five_way")]]
        BY <2>1 DEF Batch
      <3>2. \A i \in b : pool[i].valid
        BY DEF Batches, Unique
      <3>3. ASSUME NEW i \in DOMAIN pool
            PROVE  pool'[i] \in Candidate /\ pool'[i].name = pool[i].name
                   /\ (pool'[i].rankable => pool'[i].valid)
        <4> DEFINE e == pool[i].evidence \/ (i \in b /\ mode = "five_way")
                   r == i \in b
        <4>1. pool'[i] = [pool[i] EXCEPT !.rankable = r, !.evidence = e]
          BY <3>1
        <4>2. e \in BOOLEAN /\ r \in BOOLEAN /\ (r => pool[i].valid)
          BY <1>2, <3>2 DEF Candidate
        <4> HIDE DEF e, r
        <4> QED
          BY <1>2, <4>1, <4>2 DEF Candidate
      <3> QED
        BY <3>1, <3>3
    <2>2. CASE ~Complete
      <3>1. pool' = [i \in DOMAIN pool |-> [pool[i] EXCEPT !.rankable = FALSE]]
        BY <2>2 DEF Batch
      <3> QED
        BY <1>2, <3>1 DEF Candidate
    <2> QED
      BY <2>1, <2>2
  <1>4. PoolSound(pool)'
    <2> DEFINE t == pool'
    <2>1. t \in [1..Len(pool) -> Candidate]
      BY <1>2, <1>3
    <2>2. t \in Seq(Candidate) /\ DOMAIN t = DOMAIN pool
      BY <1>2, <2>1
    <2> QED
      BY <1>3, <2>2, UpdateSound DEF PoolSound
  <1>5. pool' \in Seq(Candidate) /\ Len(pool)' <= Recipes
    BY <1>4, SoundFits
  <1>6. /\ trace' \in Trace /\ PoolSound(trace.first)'
        /\ trace'.status = trace.status /\ trace'.winner = trace.winner
    BY <1>1, <1>4, RoundSaved DEF FlywheelTypeOK
  <1>7. FlywheelTypeOK'
    BY <1>1, <1>5, <1>6 DEF FlywheelTypeOK, BudgetKept, Stages
  <1>8. ScoredIsValid' /\ RankedIsLinedUp' /\ WinnerEarned' /\ FirstRankings' /\ ChosenEarned'
    BY <1>1, <1>6 DEF ScoredIsValid, RankedIsLinedUp, WinnerEarned, FirstRankings, ChosenEarned, Earned
  <1> QED
    BY <1>4, <1>6, <1>7, <1>8

\* A ranking that is found is applied: not by the first run.
LEMMA PreservedKeeps == ASSUME FlywheelInv, BudgetKept', PreservedRanking PROVE FlywheelInv'
  <1> USE DEF FlywheelInv
  <1>1. /\ at = "rank" /\ at' = "apply" /\ rankings[round] \notin {NoRanking, TornRanking}
        /\ Len(Lineup) = Ranked
        /\ UNCHANGED <<pool, mode, attempt, round, accepted, champion, rivals, trace, rankings>>
    BY DEF PreservedRanking, found, files
  <1>2. FlywheelTypeOK' /\ round \in Round /\ round <= round
    BY <1>1 DEF FlywheelTypeOK, BudgetKept, Stages, Round
  <1>3. attempt # 1 /\ attempt # 0
    BY <1>1, <1>2 DEF FirstRankings, PreservedRanking
  <1>4. RankedIsLinedUp'
    <2>1. Captured' = Captured
      BY <1>1 DEF Captured
    <2>2. Cardinality(Captured) = Ranked
      BY <1>1, LinedUp
    <2>3. rankings[round] \in Ranking
      BY <1>1, <1>2 DEF FlywheelTypeOK
    <2> QED
      BY <1>1, <2>1, <2>2, <2>3 DEF RankedIsLinedUp
  <1>5. ScoredIsValid' /\ WinnerEarned' /\ FirstRankings' /\ ChosenEarned'
    BY <1>1, <1>3 DEF ScoredIsValid, WinnerEarned, FirstRankings, ChosenEarned, Earned
  <1>6. PoolSound(pool)' /\ PoolSound(trace.first)'
    BY <1>1 DEF PoolSound
  <1> QED
    BY <1>2, <1>4, <1>5, <1>6

\* A ranking that is made is of the line it is applied to.
LEMMA RankKeeps == ASSUME FlywheelInv, BudgetKept', RankFive PROVE FlywheelInv'
  <1> USE DEF FlywheelInv
  <1>1. CASE Raises
    BY <1>1, RaisesKeeps
  <1>2. CASE ~Raises
    <2>1. PICK pass \in SUBSET (1..Ranked), best \in 0..Ranked :
            rankings' = [rankings EXCEPT ![round] =
                [of |-> [i \in 1..Ranked |-> Lineup[i].name], pass |-> pass, best |-> best]]
      BY <1>2 DEF RankFive
    <2>2. /\ at = "rank" /\ at' = "apply" /\ Len(Lineup) = Ranked
          /\ UNCHANGED <<mode, attempt, round, pool, accepted, champion, rivals, trace>>
      BY <1>2 DEF RankFive, found
    <2> DEFINE of == [i \in 1..Ranked |-> Lineup[i].name]
               made == [of |-> of, pass |-> pass, best |-> best]
    <2>3. /\ Cardinality(Captured) = Ranked /\ Captured' = Captured /\ Lineup' = Lineup
          /\ \A i \in 1..Ranked : Lineup[i] \in Candidate
      <3>1. Captured' = Captured
        BY <2>2 DEF Captured
      <3>2. Lineup' = Lineup
        BY <2>2, <3>1 DEF Lineup
      <3> QED
        BY <2>2, <3>1, <3>2, LinedUp
    <2>4. of \in [1..Ranked -> Name]
      BY <2>3 DEF Candidate
    <2> HIDE DEF of
    <2>5. made \in Ranking /\ made.of = of
      BY <2>4 DEF Ranking
    <2> HIDE DEF made
    <2>6. round \in Round /\ rankings' = [rankings EXCEPT ![round] = made]
      BY <2>1 DEF FlywheelTypeOK, made, of
    <2>7. /\ DOMAIN rankings' = Round /\ rankings'[round] = made
          /\ \A r \in Round : r # round => rankings'[r] = rankings[r]
      BY <2>6 DEF FlywheelTypeOK
    <2>8. FlywheelTypeOK'
      <3>1. \A r \in Round : rankings'[r] \in Ranking \cup {NoRanking, TornRanking}
        BY <2>5, <2>7 DEF FlywheelTypeOK
      <3> QED
        BY <2>2, <2>7, <3>1 DEF FlywheelTypeOK, BudgetKept, Stages
    <2>9. RankedIsLinedUp'
      BY <2>2, <2>3, <2>5, <2>7 DEF RankedIsLinedUp
    <2>10. ScoredIsValid' /\ WinnerEarned' /\ ChosenEarned'
      BY <2>2 DEF ScoredIsValid, WinnerEarned, ChosenEarned, Earned
    <2>11. FirstRankings'
      <3>1. \A r \in Round : r > round => r # round
        BY DEF Round, FlywheelTypeOK
      <3>2. attempt # 0
        BY <2>2 DEF FirstRankings
      <3>3. attempt = 1 => \A r \in Round : r > round => rankings'[r] = NoRanking
        BY <2>2, <2>7, <3>1 DEF FirstRankings
      <3>4. \A k \in 1..Ranked : rankings'[round'].of[k] = Lineup'[k].name
        BY <2>2, <2>3, <2>5, <2>7 DEF of
      <3> QED
        BY <2>2, <3>2, <3>3, <3>4 DEF FirstRankings
    <2>12. PoolSound(pool)' /\ PoolSound(trace.first)'
      BY <2>2 DEF PoolSound
    <2> QED
      BY <2>8, <2>9, <2>10, <2>11, <2>12
  <1> QED
    BY <1>1, <1>2

\* A ranking that is torn is of a run that has begun, and ends it.
LEMMA TearKeeps == ASSUME FlywheelInv, BudgetKept', TearRanking PROVE FlywheelInv'
  <1> USE DEF FlywheelInv
  <1>1. /\ at = "rank" /\ Gone /\ UNCHANGED <<mode, attempt, trace>>
        /\ rankings' = [rankings EXCEPT ![round] = TornRanking]
    BY DEF TearRanking
  <1>2. attempt # 0
    BY <1>1 DEF FirstRankings
  <1>3. /\ DOMAIN rankings' = Round
        /\ \A r \in Round : rankings'[r] \in Ranking \cup {NoRanking, TornRanking}
    BY <1>1 DEF FlywheelTypeOK
  <1>4. trace' \in Trace /\ PoolSound(trace.first)' /\ WinnerEarned'
    BY <1>1 DEF FlywheelTypeOK, PoolSound, WinnerEarned
  <1> QED
    BY <1>1, <1>2, <1>3, <1>4, GoneKeeps

\* The line gets the verdicts: in the first run, each its own.
LEMMA ApplyKeeps == ASSUME FlywheelInv, BudgetKept', Apply PROVE FlywheelInv'
  <1> USE DEF FlywheelInv
  <1> DEFINE ranking == rankings[round]
             line == Judged(ranking)
             winners == Winners(line, ranking.best)
  <1>1. /\ at = "apply" /\ at' = "verdict"
        /\ UNCHANGED <<mode, attempt, round, rivals, rankings>>
        /\ SaveRound([trace EXCEPT !.ranked = TRUE])
    BY DEF Apply
  <1>2. /\ pool' = [i \in DOMAIN pool |->
                      LET same == {j \in 1..Ranked : line[j].name = pool[i].name}
                      IN  IF same = {} THEN pool[i] ELSE line[CHOOSE j \in same : TRUE]]
        /\ accepted' = {line[i] : i \in {j \in 1..Ranked : line[j].verdict = "pass"}}
        /\ champion' \in (IF winners = {} THEN {Nobody} ELSE winners)
    BY DEF Apply
  <1>3. /\ ranking \in Ranking /\ Cardinality(Captured) = Ranked
        /\ attempt = 1 => \A k \in 1..Ranked : ranking.of[k] = Lineup[k].name
        /\ attempt # 0
    BY <1>1 DEF RankedIsLinedUp, FirstRankings
  <1> HIDE DEF ranking
  \* Every place of the line.
  <1>4. ASSUME NEW k \in 1..Ranked
        PROVE  /\ line[k] \in Candidate /\ line[k].valid /\ line[k].evidence
               /\ attempt = 1 => line[k].own
    <2>1. PICK i \in Captured : Lineup[k] = pool[i]
      BY <1>3, LinedUp
    <2>2. pool[i] \in Candidate /\ pool[i].rankable /\ pool[i].evidence /\ pool[i].valid
      BY DEF Captured, PoolSound
    <2> DEFINE v == IF k \in ranking.pass THEN "pass" ELSE "fail"
               o == ranking.of[k] = Lineup[k].name
    <2>3. line[k] = [pool[i] EXCEPT !.verdict = v, !.own = o]
      BY <2>1 DEF Judged
    <2>4. v \in {"none", "pass", "fail"} /\ o \in BOOLEAN /\ (attempt = 1 => o)
      BY <1>3
    <2> HIDE DEF v, o, line
    <2> QED
      BY <2>2, <2>3, <2>4 DEF Candidate
  <1> HIDE DEF line
  <1>a. attempt <= 1 => attempt = 1
    BY <1>3 DEF FlywheelTypeOK
  <1>5. \A c \in accepted' : c \in Candidate /\ Earned(c)
    BY <1>2, <1>4, <1>a DEF Earned
  <1>6. \A c \in winners : c \in accepted'
    BY <1>2, <1>3 DEF Winners, Ranking
  <1> HIDE DEF winners
  <1>7. champion' = Nobody \/ champion' \in accepted'
    BY <1>2, <1>6
  <1>8. /\ pool \in Seq(Candidate) /\ Len(pool) \in Nat /\ DOMAIN pool = 1..Len(pool)
        /\ \A i \in DOMAIN pool : pool[i] \in Candidate /\ (pool[i].rankable => pool[i].valid)
    BY DEF PoolSound
  <1>9. ASSUME NEW i \in DOMAIN pool
        PROVE  pool'[i] \in Candidate /\ pool'[i].name = pool[i].name
               /\ (pool'[i].rankable => pool'[i].valid)
    <2> DEFINE same == {j \in 1..Ranked : line[j].name = pool[i].name}
    <2>1. pool'[i] = IF same = {} THEN pool[i] ELSE line[CHOOSE j \in same : TRUE]
      BY <1>2
    <2>2. CASE same = {}
      BY <1>8, <2>1, <2>2
    <2>3. CASE same # {}
      <3> DEFINE j == CHOOSE j \in same : TRUE
      <3>1. j \in same
        BY <2>3
      <3> HIDE DEF j
      <3>2. j \in 1..Ranked /\ line[j].name = pool[i].name
        BY <3>1
      <3> QED
        BY <1>4, <2>1, <2>3, <3>2 DEF j
    <2> QED
      BY <2>2, <2>3
  <1>10. PoolSound(pool)'
    <2> DEFINE t == pool'
    <2>1. t \in [1..Len(pool) -> Candidate]
      BY <1>2, <1>8, <1>9
    <2>2. t \in Seq(Candidate) /\ DOMAIN t = DOMAIN pool
      BY <1>8, <2>1
    <2> QED
      BY <1>9, <2>2, UpdateSound DEF PoolSound
  <1>11. pool' \in Seq(Candidate) /\ Len(pool)' <= Recipes
    BY <1>10, SoundFits
  <1>12. /\ trace' \in Trace /\ PoolSound(trace.first)'
         /\ trace'.status = trace.status /\ trace'.winner = trace.winner
    <2> DEFINE record == [trace EXCEPT !.ranked = TRUE]
    <2>1. /\ record \in Trace /\ record.first = trace.first
          /\ record.status = trace.status /\ record.winner = trace.winner
      BY DEF FlywheelTypeOK, Trace
    <2> HIDE DEF record
    <2>2. PoolSound(record.first)
      BY <2>1
    <2> QED
      BY <1>1, <1>10, <2>1, <2>2, RoundSaved DEF record
  <1>13. FlywheelTypeOK'
    BY <1>1, <1>5, <1>7, <1>11, <1>12 DEF FlywheelTypeOK, BudgetKept, Stages
  <1>14. ScoredIsValid' /\ RankedIsLinedUp' /\ WinnerEarned' /\ FirstRankings'
    BY <1>1, <1>12 DEF ScoredIsValid, RankedIsLinedUp, WinnerEarned, FirstRankings
  <1>15. ChosenEarned'
    BY <1>1, <1>3, <1>5, <1>7 DEF ChosenEarned, Earned, FlywheelTypeOK
  <1> QED
    BY <1>10, <1>12, <1>13, <1>14, <1>15

\* The accepted candidates meet.
LEMMA AcceptKeeps == ASSUME FlywheelInv, BudgetKept', Accept PROVE FlywheelInv'
  <1> USE DEF FlywheelInv
  <1>1. /\ at = "verdict" /\ at' \in {"finish", "tournament"} /\ accepted # {}
        /\ UNCHANGED <<mode, attempt, round, pool, accepted, trace, rankings>>
        /\ \/ champion # Nobody /\ UNCHANGED <<champion, rivals>>
           \/ champion' \in accepted /\ rivals' = accepted \ {champion'}
    BY DEF Accept, files
  <1>2. FlywheelTypeOK'
    BY <1>1 DEF FlywheelTypeOK, BudgetKept, Stages
  <1>3. ScoredIsValid' /\ RankedIsLinedUp' /\ WinnerEarned' /\ FirstRankings'
    BY <1>1 DEF ScoredIsValid, RankedIsLinedUp, WinnerEarned, FirstRankings
  <1>4. ChosenEarned'
    BY <1>1 DEF ChosenEarned, Earned
  <1>5. PoolSound(pool)' /\ PoolSound(trace.first)'
    BY <1>1 DEF PoolSound
  <1> QED
    BY <1>2, <1>3, <1>4, <1>5

\* Who wins a comparison was accepted too.
LEMMA MatchKeeps == ASSUME FlywheelInv, BudgetKept', Match PROVE FlywheelInv'
  <1> USE DEF FlywheelInv
  <1>1. CASE Raises
    BY <1>1, RaisesKeeps
  <1>2. CASE ~Raises
    <2>1. /\ at = "tournament"
          /\ UNCHANGED <<mode, at, attempt, round, pool, accepted, trace, rankings>>
          /\ \E challenger \in rivals :
                rivals' = rivals \ {challenger} /\ champion' \in {champion, challenger}
      BY <1>2 DEF Match, files
    <2>2. FlywheelTypeOK'
      BY <2>1 DEF FlywheelTypeOK, BudgetKept
    <2>3. ScoredIsValid' /\ RankedIsLinedUp' /\ WinnerEarned' /\ FirstRankings'
      BY <2>1 DEF ScoredIsValid, RankedIsLinedUp, WinnerEarned, FirstRankings
    <2>4. ChosenEarned'
      BY <2>1 DEF ChosenEarned, Earned
    <2>5. PoolSound(pool)' /\ PoolSound(trace.first)'
      BY <2>1 DEF PoolSound
    <2> QED
      BY <2>2, <2>3, <2>4, <2>5
  <1> QED
    BY <1>1, <1>2

\* Another round begins with an empty list.
LEMMA RoundKeeps ==
  ASSUME FlywheelInv, BudgetKept', NextRound, UNCHANGED trace,
         at = "verdict", round < MaxRounds
  PROVE  FlywheelInv'
  <1> USE DEF FlywheelInv
  <1>1. /\ at' = "build" /\ round' = round + 1 /\ pool' = <<>>
        /\ UNCHANGED <<mode, attempt, accepted, champion, rivals, trace, rankings>>
    BY DEF NextRound, found
  <1>2. PoolSound(pool)' /\ PoolSound(trace.first)' /\ Len(pool)' <= Recipes
    BY <1>1, EmptySound, SoundFits DEF PoolSound
  <1>3. round' \in Round /\ \A r \in Round : r >= round' => r > round
    BY <1>1, FlywheelAssumption DEF FlywheelTypeOK, Round
  <1>4. FlywheelTypeOK'
    BY <1>1, <1>2, <1>3 DEF FlywheelTypeOK, BudgetKept, Stages, PoolSound
  <1>5. ScoredIsValid' /\ RankedIsLinedUp' /\ WinnerEarned' /\ ChosenEarned'
    BY <1>1 DEF ScoredIsValid, RankedIsLinedUp, WinnerEarned, ChosenEarned, Earned
  <1>6. FirstRankings'
    <2>1. \A r \in Round : (r > round' \/ r = round') => r > round
      BY <1>3 DEF Round
    <2> QED
      BY <1>1, <2>1 DEF FirstRankings
  <1> QED
    BY <1>2, <1>4, <1>5, <1>6

\* Every step keeps the invariant.
LEMMA FlywheelStep == FlywheelInv /\ [FlywheelNext]_flywheelVars => FlywheelInv'
  <1> SUFFICES ASSUME FlywheelInv, [FlywheelNext]_flywheelVars PROVE FlywheelInv'
    OBVIOUS
  <1>1. BudgetKept'
    BY BudgetKeptStep DEF FlywheelInv
  <1>2. CASE Unsupported \/ Begin \/ Build \/ Score \/ WriteCandidate \/ Batch
    BY <1>1, <1>2, UnsupportedKeeps, BeginKeeps, BuildKeeps, ScoreKeeps, WriteKeeps, BatchKeeps
  <1>3. CASE NothingToBuild \/ SkipRank \/ TournamentOver
    BY <1>1, <1>3, PlaceKeeps
  <1>4. CASE PreservedRanking \/ RankFive \/ TearRanking \/ Apply \/ Accept \/ Match
    BY <1>1, <1>4, PreservedKeeps, RankKeeps, TearKeeps, ApplyKeeps, AcceptKeeps, MatchKeeps
  <1>5. CASE Die
    BY <1>1, <1>5, RaisesKeeps DEF Die
  <1>6. CASE AwaitHuman \/ GiveUp
    BY <1>1, <1>6, CloseKeeps DEF AwaitHuman, GiveUp
  <1>7. CASE Crown
    <2>1. champion \in Candidate \cup {Nobody} /\ Earned(champion)
      BY <1>7 DEF Crown, FlywheelInv, FlywheelTypeOK, ChosenEarned
    <2> QED
      BY <1>1, <1>7, <2>1, CloseKeeps DEF Crown
  <1>8. CASE PrefilterRepair
    BY <1>1, <1>8, RoundKeeps DEF PrefilterRepair, NoPass
  <1>9. CASE Repair
    BY <1>1, <1>9, RoundKeeps, RaisesKeeps DEF Repair, NoPass
  <1>10. CASE UNCHANGED flywheelVars
    <2>1. FlywheelTypeOK' /\ BudgetKept' /\ PoolSound(pool)' /\ PoolSound(trace.first)'
      BY <1>1, <1>10 DEF flywheelVars, FlywheelInv, FlywheelTypeOK, PoolSound
    <2>2. ScoredIsValid' /\ WinnerEarned' /\ ChosenEarned'
      BY <1>10 DEF flywheelVars, FlywheelInv, ScoredIsValid, WinnerEarned, ChosenEarned, Earned
    <2>3. Captured' = Captured
      BY <1>10 DEF flywheelVars, Captured
    <2>4. Lineup' = Lineup
      BY <1>10, <2>3 DEF flywheelVars, Lineup
    <2>5. RankedIsLinedUp' /\ FirstRankings'
      BY <1>10, <2>3, <2>4 DEF flywheelVars, FlywheelInv, RankedIsLinedUp, FirstRankings
    <2> QED
      BY <2>1, <2>2, <2>5 DEF FlywheelInv
  <1> QED
    BY <1>2, <1>3, <1>4, <1>5, <1>6, <1>7, <1>8, <1>9, <1>10 DEF FlywheelNext

\* No run has found or accepted anything yet.
LEMMA FlywheelStart == FlywheelInit => FlywheelInv
  <1> SUFFICES ASSUME FlywheelInit PROVE FlywheelInv
    OBVIOUS
  <1>1. PoolSound(pool) /\ PoolSound(trace.first) /\ Len(pool) <= Recipes
    BY EmptySound, SoundFits, NoTraceIsTrace DEF FlywheelInit
  <1>2. FlywheelTypeOK
    BY <1>1, NoTraceIsTrace, FlywheelAssumption
       DEF FlywheelInit, FlywheelTypeOK, Stages, Round, PoolSound
  <1>3. ScoredIsValid /\ RankedIsLinedUp /\ FirstRankings
    BY DEF FlywheelInit, ScoredIsValid, RankedIsLinedUp, FirstRankings
  <1>4. ChosenEarned /\ WinnerEarned
    BY DEF FlywheelInit, ChosenEarned, WinnerEarned, NoTrace
  <1> QED
    BY <1>1, <1>2, <1>3, <1>4, BudgetKeptInit DEF FlywheelInv

\* The invariant holds of every run over a directory.
LEMMA FlywheelInvariant == FlywheelSpec => []FlywheelInv
  <1> QED
    BY FlywheelStart, FlywheelStep, PTL DEF FlywheelSpec

\* The run's state and its files keep their types.
THEOREM FlywheelTypeCorrect == FlywheelSpec => []FlywheelTypeOK
  <1>1. FlywheelInv => FlywheelTypeOK
    BY DEF FlywheelInv
  <1> QED
    BY <1>1, FlywheelInvariant, PTL

\* Whatever the judge answers, fails to answer or names, and wherever the
\* run is stopped, a winner of any run over a directory is valid, was captured
\* and has passed; in the first run, in a verdict given to itself.
THEOREM WinnersHaveEarned == FlywheelSpec => []WinnerEarned
  <1>1. FlywheelInv => WinnerEarned
    BY DEF FlywheelInv
  <1> QED
    BY <1>1, FlywheelInvariant, PTL

-----------------------------------------------------------------------------
(* The components side by side.                                            *)

DecisionsInv == PlannerInv /\ CabinetInv /\ FlywheelInv /\ SelectionInv

\* A step of one component is no step of the others.
LEMMA DecisionsStep == DecisionsInv /\ [DecisionsNext]_decisionVars => DecisionsInv'
  <1> SUFFICES ASSUME DecisionsInv, [DecisionsNext]_decisionVars PROVE DecisionsInv'
    OBVIOUS
  <1>1. /\ [PlannerNext]_plannerVars /\ [CabinetNext]_cabinetVars
        /\ [FlywheelNext]_flywheelVars /\ [SelectionNext]_selectionVars
    BY DEF DecisionsNext, StepOfPlanner, StepOfCabinet, StepOfFlywheel, StepOfSelection, decisionVars
  <1> QED
    BY <1>1, PlannerStep, CabinetStep, FlywheelStep, SelectionStep DEF DecisionsInv

\* The planner's loop, the cabinet's player, the flywheel and the selection
\* keep their types, whatever the bounds.
THEOREM DecisionsTypeCorrect == DecisionsSpec => []DecisionsTypeOK
  <1>1. DecisionsInit => DecisionsInv
    BY PlannerStart, CabinetStart, FlywheelStart, SelectionStart DEF DecisionsInit, DecisionsInv
  <1>2. DecisionsInv => DecisionsTypeOK
    BY DEF DecisionsInv, DecisionsTypeOK, PlannerInv, CabinetInv, FlywheelInv, SelectionInv
  <1> QED
    BY <1>1, <1>2, DecisionsStep, PTL DEF DecisionsSpec

\* What is proved of each component by itself holds of it here: its part of
\* the state moves by its own steps alone, from its own initial states.
THEOREM DecisionsAreComponents ==
  DecisionsSpec => PlannerSpec /\ CabinetSpec /\ FlywheelSpec /\ SelectionSpec
  <1>1. DecisionsInit => PlannerInit /\ CabinetInit /\ FlywheelInit /\ SelectionInit
    BY DEF DecisionsInit
  <1>2. [DecisionsNext]_decisionVars =>
          /\ [PlannerNext]_plannerVars /\ [CabinetNext]_cabinetVars
          /\ [FlywheelNext]_flywheelVars /\ [SelectionNext]_selectionVars
    BY DEF DecisionsNext, StepOfPlanner, StepOfCabinet, StepOfFlywheel, StepOfSelection, decisionVars
  <1> QED
    BY <1>1, <1>2, PTL DEF DecisionsSpec, PlannerSpec, CabinetSpec, FlywheelSpec, SelectionSpec

\* So all that the run over these components checks of their states holds for
\* every value of the constants.
THEOREM DecisionsSafe ==
  DecisionsSpec => [](/\ DecisionsTypeOK /\ NeverSilenced /\ MetGoalWaits /\ HandleForgotten
                      /\ OpenHasStopped /\ WinnerEarned /\ CallCeiling /\ OrderBlind
                      /\ OnlyCertifiedSelected)
  <1> QED
    BY DecisionsTypeCorrect, DecisionsAreComponents, PlannerNeverSilenced, MetGoalsWait,
       HandleIsForgotten, OpenedHasStopped, WinnersHaveEarned, CeilingHolds, OrderDecidesNothing,
       SelectedAreCertified, PTL
=============================================================================

---------------------------- MODULE GripperPlanner ----------------------------
(***************************************************************************)
(* The demo gripper's loop: Planner of gripper/decision/planner.py driven  *)
(* frame by frame by gripper/runs/directed.py.  Each frame senses the      *)
(* body, asks the model when `due` says so (an ask may expand the          *)
(* instruction, identify the scene and then decide, each one model call)   *)
(* and drives the joints.  The body is the environment: whether the held   *)
(* goal reads as reached, has stalled, or an act has arrived is chosen     *)
(* anew in every frame, as is every reply of the model.                    *)
(*                                                                         *)
(* Time is counted in frames, so the code's seconds are constants here and *)
(* each clock stops at the last value any comparison tells apart.  Left    *)
(* out: pictures, prompts, the transcript, belief_doubt and memory, which  *)
(* only the prompt reads, and the goal's numbers.                          *)
(***************************************************************************)
EXTENDS Integers

CONSTANTS
    Goal,         \* targets: a metric with its value
    PlanLength,   \* the number of steps a successful expansion returns
    ExpandTries,  \* _EXPAND_TRIES
    MaxCalls,     \* max_calls
    Retry,        \* _RETRY_AFTER_S, in frames
    Window,       \* plateau_window_s
    Relook,       \* _RELOOK_AFTER_S
    Stuck,        \* stuck_after_s
    NoGoal        \* held is None

ASSUME GoalAssumption == NoGoal \notin Goal
ASSUME PlanAssumption == /\ PlanLength \in Nat \ {0}
                         /\ ExpandTries \in Nat \ {0}
                         /\ MaxCalls \in Nat \ {0}
ASSUME ClockAssumption == /\ Retry \in Nat \ {0} /\ Window \in Nat \ {0}
                          /\ Relook \in Nat \ {0} /\ Stuck \in Nat \ {0}
                          /\ Retry <= Stuck

VARIABLES
    loop,      \* where the frame is
    held,      \* the goal being pursued
    met,       \* whether the held goal reads as reached in this frame
    unmet,     \* _was_ever_unmet
    doing,     \* whether a direct act is under way
    asked,     \* whether this frame asked
    wait,      \* now - _asked_at
    age,       \* now - held.set_at_s
    looked,    \* now - _identified_at
    calls,     \* counted model calls, up to CallCap
    plan,      \* len(self.plan)
    tries,     \* _expand_tries
    step,      \* the current step
    repeats,   \* how often the same reached goal was named again, up to 2
    items,     \* whether the inventory names anything
    finished,  \* the model's verdict that the task is done
    jaws,      \* the jaws' state
    squeeze    \* whether grip force is commanded

plannerVars == <<loop, held, met, unmet, doing, asked, wait, age, looked, calls,
                 plan, tries, step, repeats, items, finished, jaws, squeeze>>

CallCap == MaxCalls + 3
CapAt(n, top) == IF n > top THEN top ELSE n

PlannerTypeOK ==
    /\ loop \in {"frame", "due", "ask", "identify", "decide", "drive", "over", "raised"}
    /\ held \in Goal \cup {NoGoal}
    /\ met \in BOOLEAN /\ unmet \in BOOLEAN /\ doing \in BOOLEAN /\ asked \in BOOLEAN
    /\ wait \in 0..Stuck /\ age \in 0..Window /\ looked \in 0..Relook
    /\ calls \in 0..CallCap
    /\ plan \in {0, PlanLength} /\ tries \in 0..ExpandTries
    /\ step \in 0..(PlanLength - 1) /\ repeats \in 0..2
    /\ items \in BOOLEAN /\ finished \in BOOLEAN
    /\ jaws \in {"open", "close", "hold"} /\ squeeze \in BOOLEAN

PlannerInit ==
    /\ loop = "frame" /\ held = NoGoal
    /\ met = FALSE /\ unmet = FALSE /\ doing = FALSE /\ asked = FALSE
    /\ wait = Stuck /\ age = Window /\ looked = Relook
    /\ calls = 0 /\ plan = 0 /\ tries = 0 /\ step = 0 /\ repeats = 0
    /\ items = FALSE /\ finished = FALSE /\ jaws = "open" /\ squeeze = FALSE

mind == <<plan, tries, step, repeats, items, looked, finished>>
goalVars == <<held, unmet, age>>
hand == <<jaws, squeeze>>

-----------------------------------------------------------------------------
(* One frame of run: the readings, and whether the planner is due.         *)

Sense ==
    /\ loop = "frame" /\ ~finished
    /\ loop' = "due" /\ asked' = FALSE
    /\ met' \in (IF held = NoGoal THEN {FALSE} ELSE BOOLEAN)
    /\ UNCHANGED <<goalVars, doing, wait, calls, mind, hand>>

EndOfRun ==     \* the model has finished, or the run's seconds are over
    /\ loop = "frame"
    /\ loop' = "over"
    /\ UNCHANGED <<goalVars, met, doing, asked, wait, calls, mind, hand>>

Wake ==
    /\ loop' = "ask" /\ asked' = TRUE
    /\ UNCHANGED <<goalVars, met, wait, calls, mind, hand>>
SleepOn ==
    /\ loop' = "drive"
    /\ UNCHANGED <<goalVars, met, doing, asked, wait, calls, mind, hand>>

DueOfAct ==     \* the act arrived, or has been tried for too long
    /\ loop = "due" /\ doing
    /\ \/ Wake /\ doing' = FALSE
       \/ wait >= Stuck /\ Wake /\ UNCHANGED doing
       \/ wait < Stuck /\ SleepOn

DueWithoutGoal ==
    /\ loop = "due" /\ ~doing /\ held = NoGoal
    /\ IF calls = 0 \/ wait >= Retry THEN Wake /\ UNCHANGED doing ELSE SleepOn

\* (mutant) a goal that reads as reached and never was unmet ends the test
DueOfGoalSilenced ==
    /\ loop = "due" /\ ~doing /\ held # NoGoal
    /\ \/ calls < MaxCalls /\ Wake /\ UNCHANGED doing
          /\ \/ met /\ unmet
             \/ ~met /\ (age >= Window \/ wait >= Stuck)
       \/ SleepOn /\ (calls >= MaxCalls \/ (met /\ ~unmet) \/ wait < Stuck)
\* (mutant) a goal that reads as reached has arrived
ArrivedAnyhow == met

\* No arrival counts for a goal that was never unmet; such a goal may still
\* have stalled, and a goal younger than the window cannot have.
Arrived == met /\ unmet
DueOfGoal ==
    /\ loop = "due" /\ ~doing /\ held # NoGoal
    /\ \/ calls < MaxCalls /\ Wake /\ UNCHANGED doing
          /\ \/ Arrived
             \/ age >= Window
             \/ wait >= Stuck
       \/ SleepOn /\ (calls >= MaxCalls \/ (~Arrived /\ wait < Stuck))

-----------------------------------------------------------------------------
(* ask: expand, identify, decide.  A call that raises is not counted; what *)
(* is done with its reply after the try may raise out of the run.          *)

Counted == calls' = CapAt(calls + 1, CallCap)
Reply == Counted \/ UNCHANGED calls

Expand ==
    /\ loop = "ask" /\ plan = 0 /\ tries < ExpandTries
    /\ tries' = tries + 1
    /\ \/ loop' = "identify" /\ Counted /\ plan' \in {0, PlanLength}
       \/ loop' = "identify" /\ UNCHANGED <<calls, plan>>
       \/ loop' = "raised" /\ Counted /\ plan' = PlanLength
    /\ UNCHANGED <<goalVars, met, doing, asked, wait, step, repeats, items, looked, finished, hand>>

SkipExpand ==
    /\ loop = "ask" /\ (plan # 0 \/ tries >= ExpandTries)
    /\ loop' = "identify"
    /\ UNCHANGED <<goalVars, met, doing, asked, wait, calls, mind, hand>>

\* A look is due when nothing is known, or when an item is lost and the last
\* look is old enough.
Identify ==
    /\ loop = "identify" /\ (~items \/ looked >= Relook)
    /\ \/ loop' = "decide" /\ looked' = 0 /\ Counted /\ items' \in {items, TRUE}
       \/ loop' = "decide" /\ looked' = 0 /\ UNCHANGED <<calls, items>>
       \/ loop' = "raised" /\ UNCHANGED looked /\ Counted /\ items' \in {items, TRUE}
    /\ UNCHANGED <<goalVars, met, doing, asked, wait, plan, tries, step, repeats, finished, hand>>

SkipIdentify ==     \* nothing is lost, or the last look is too recent
    /\ loop = "identify" /\ items
    /\ loop' = "decide"
    /\ UNCHANGED <<goalVars, met, doing, asked, wait, calls, mind, hand>>

Deciding == loop = "decide" /\ UNCHANGED <<met, asked, plan, tries, items, looked, squeeze>>

\* The call raised or its reply did not parse: nothing the decision would
\* have set is set, the clock included.
DecisionFails ==
    /\ Deciding /\ loop' = "drive" /\ Reply
    /\ UNCHANGED <<goalVars, doing, wait, step, repeats, finished, jaws>>

Answered == Counted /\ jaws' \in {jaws, "open", "close", "hold"}

StartAct ==
    /\ Deciding /\ loop' = "drive" /\ Answered
    /\ doing' = TRUE /\ held' = NoGoal /\ wait' = 0
    /\ UNCHANGED <<unmet, age, step, repeats, finished>>

Refuse ==       \* an unknown name, or a number the body cannot be steered by
    /\ Deciding /\ loop' = "drive" /\ Answered
    /\ doing' = FALSE /\ wait' = 0
    /\ UNCHANGED <<goalVars, step, repeats, finished>>

Finish ==       \* the model says the task is done
    /\ Deciding /\ loop' = "drive" /\ Answered
    /\ finished' = TRUE /\ doing' = FALSE /\ held' = NoGoal /\ wait' = 0
    /\ UNCHANGED <<unmet, age, step, repeats>>

BadReply ==     \* no object, or a number of it is none: read outside every try
    /\ Deciding /\ loop' = "raised" /\ Answered
    /\ doing' \in {doing, FALSE}
    /\ UNCHANGED <<goalVars, wait, step, repeats, finished>>

\* (mutant) the end of the plan is not tested
NextStepPastEnd(stepDone, again) ==
    LET seen == IF again THEN CapAt(repeats + 1, 2) ELSE 0
    IN  IF stepDone \/ seen = 2
        THEN step' = step + 1 /\ repeats' = 0
        ELSE step' = step /\ repeats' = seen
\* The step moves on when the model says so, or when the same reached goal
\* has been named twice running.
NextStep(stepDone, again) ==
    LET more == step < plan - 1
        seen == IF again THEN CapAt(repeats + 1, 2) ELSE 0
    IN  IF more /\ (stepDone \/ seen = 2)
        THEN step' = step + 1 /\ repeats' = 0
        ELSE step' = step /\ repeats' = seen

Adopt ==
    /\ Deciding /\ loop' = "drive" /\ Answered
    /\ \E goal \in Goal, stepDone \in BOOLEAN :
           /\ held' = goal
           /\ NextStep(stepDone, held = goal /\ met)
    /\ unmet' \in BOOLEAN
    /\ doing' = FALSE /\ wait' = 0 /\ age' = 0 /\ UNCHANGED finished

-----------------------------------------------------------------------------
(* The rest of the frame: the act, or the jaws and then the search.        *)

NextFrame ==
    /\ loop = "drive" /\ loop' = "frame"
    /\ wait' = CapAt(wait + 1, Stuck)
    /\ age' = CapAt(age + 1, Window)
    /\ looked' = CapAt(looked + 1, Relook)
    /\ UNCHANGED <<held, met, doing, asked, calls, plan, tries, step, repeats, items, finished, jaws>>

DriveAct == doing /\ NextFrame /\ squeeze' = FALSE /\ UNCHANGED unmet
DriveJaws == squeeze' = (jaws # "open")
DriveIdle == ~doing /\ held = NoGoal /\ NextFrame /\ DriveJaws /\ UNCHANGED unmet
DriveGoal == ~doing /\ held # NoGoal /\ NextFrame /\ DriveJaws /\ unmet' \in {unmet, TRUE}

PlannerNext ==
    \/ Sense \/ EndOfRun
    \/ DueOfAct \/ DueWithoutGoal \/ DueOfGoal
    \/ Expand \/ SkipExpand \/ Identify \/ SkipIdentify
    \/ DecisionFails \/ StartAct \/ Refuse \/ Finish \/ BadReply \/ Adopt
    \/ DriveAct \/ DriveIdle \/ DriveGoal

PlannerSpec == PlannerInit /\ [][PlannerNext]_plannerVars

-----------------------------------------------------------------------------

\* Nothing but the budget of calls silences the planner (due): while calls are
\* left, a frame that starts when stuck_after_s have passed since the last
\* decision asks, whatever the goal reads and whatever the last replies were.
NeverSilenced ==
    loop = "drive" /\ wait >= Stuck /\ calls < MaxCalls => asked

\* "Hard ceiling on calls per run, because a loop that repeats itself pays for
\* every repetition" (max_calls): a run's counted calls never pass it.
HardCeiling == calls <= MaxCalls

\* A goal that was true when it was set, and has stayed true, does not wake
\* the planner before the window of the stall test has passed: naming what
\* the body already has does not start a burst of decisions (due, _adopt,
\* observe).
MetGoalWaits ==
    loop = "ask" /\ held # NoGoal /\ ~unmet => age >= Window \/ wait >= Stuck

\* The jaws are a state (directed.run): at the end of every frame the grip
\* force is what the last reply asked for, whether or not there is a goal,
\* except while a direct act moves the fingers.
JawsObeyed ==
    loop = "frame" /\ ~doing => (squeeze <=> jaws # "open")
=============================================================================

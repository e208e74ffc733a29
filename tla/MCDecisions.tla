------------------------------ MODULE MCDecisions ------------------------------
(***************************************************************************)
(* The components that decide what a body does and which motion wins.      *)
(* They do not interact, so each is explored by itself: a behaviour        *)
(* belongs to one of them, chosen at the start.                            *)
(***************************************************************************)
EXTENDS GripperPlanner, CabinetTask, FlywheelRun, BestOfFive

CONSTANTS g1, g2    \* the targets

VARIABLE component
decisionVars == <<plannerVars, cabinetVars, flywheelVars, selectionVars, component>>

Goals == {g1, g2}

DecisionsInit ==
    /\ PlannerInit /\ CabinetInit /\ FlywheelInit /\ SelectionInit
    /\ component \in {"planner", "cabinet", "flywheel", "selection"}
    \* a component that takes no step is in one of its initial states only
    /\ component # "flywheel" => mode = CHOOSE m \in Mode : TRUE
    /\ component # "selection" => certified = {} /\ repairer = CHOOSE b \in Repairing : TRUE

StepOfPlanner ==
    /\ component = "planner" /\ PlannerNext
    /\ UNCHANGED <<cabinetVars, flywheelVars, selectionVars, component>>
StepOfCabinet ==
    /\ component = "cabinet" /\ CabinetNext
    /\ UNCHANGED <<plannerVars, flywheelVars, selectionVars, component>>
StepOfFlywheel ==
    /\ component = "flywheel" /\ FlywheelNext
    /\ UNCHANGED <<plannerVars, cabinetVars, selectionVars, component>>
StepOfSelection ==
    /\ component = "selection" /\ SelectionNext
    /\ UNCHANGED <<plannerVars, cabinetVars, flywheelVars, component>>

DecisionsNext == StepOfPlanner \/ StepOfCabinet \/ StepOfFlywheel \/ StepOfSelection

DecisionsSpec == DecisionsInit /\ [][DecisionsNext]_decisionVars

DecisionsTypeOK == PlannerTypeOK /\ CabinetTypeOK /\ FlywheelTypeOK /\ SelectionTypeOK
=============================================================================

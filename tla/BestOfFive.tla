------------------------------- MODULE BestOfFive -------------------------------
(***************************************************************************)
(* The selection of one motion among blinded candidates:                   *)
(* BestOfFiveOrchestrator.select of selection/orchestrator.py.  Two passes *)
(* of a judge, then none, a fallback pass or a repair and a last pass, and *)
(* the decision.  What a judge answers is chosen freely, except that the   *)
(* physics gates veto; so is the order it answers in, which decides ties.  *)
(*                                                                         *)
(* A score is the one number candidates are ranked by, in half steps of    *)
(* the margin 0.25: a lead of two is a clear one.  That some dimension     *)
(* moved by more than one between the passes is a choice of its own.  The  *)
(* code has five candidates.                                               *)
(***************************************************************************)
EXTENDS Integers, Sequences, FiniteSets

CONSTANTS
    Contestant,  \* the candidates
    TopScore,    \* the highest score
    Repairing    \* whether there is a repairer: a subset of BOOLEAN

ASSUME BestOfFiveAssumption ==
    Contestant # {} /\ IsFiniteSet(Contestant) /\ TopScore \in Nat /\ Repairing \subseteq BOOLEAN

MaxTotalCalls == 4
ClearLead == 2

VARIABLES
    certified,  \* the candidates the gates do not veto: their metric
                \* deterministic_gates_passed is not 0.0, or is missing
    repairer,   \* whether there is a repairer
    passes,     \* the judge passes so far
    reasons,    \* whether there are reasons for a fallback, once two passes are in
    callCount,      \* call_count
    repairs,    \* repair_calls
    selection   \* the outcome and the selected candidate

selectionVars == <<certified, repairer, passes, reasons, callCount, repairs, selection>>

\* An evaluation that does not clear the rubric has no rank.
Evaluation == [clears : {TRUE}, score : 0..TopScore, unsure : BOOLEAN]
              \cup {[clears |-> FALSE, score |-> 0, unsure |-> FALSE]}
Pass == [evaluations : [Contestant -> Evaluation], first : Contestant]
Undecided == [outcome |-> "UNDECIDED", of |-> {}]
Selection == [outcome : {"UNDECIDED", "SELECTED", "ALL_CANDIDATES_REJECTED", "UNCERTAIN"},
              of : {s \in SUBSET Contestant : Cardinality(s) <= 1}]

SelectionTypeOK ==
    /\ certified \subseteq Contestant /\ repairer \in Repairing
    /\ passes \in Seq(Pass) /\ Len(passes) <= 3
    /\ reasons \in BOOLEAN /\ callCount \in 0..MaxTotalCalls /\ repairs \in 0..1
    /\ selection \in Selection

SelectionInit ==
    /\ certified \in SUBSET Contestant /\ repairer \in Repairing
    /\ passes = <<>> /\ reasons = FALSE /\ callCount = 0 /\ repairs = 0
    /\ selection = Undecided

-----------------------------------------------------------------------------
(* What is read off a pass.                                                *)

Cleared(p) == {c \in Contestant : p.evaluations[c].clears}
TopOf(p, set) == {c \in set : \A d \in set : p.evaluations[c].score >= p.evaluations[d].score}

\* _pass_winner, as a set of at most one: among equals it is the one the
\* judge happened to answer first.
PassWinner(p) == IF Cleared(p) = {} THEN {} ELSE {p.first}

\* _pass_margin is infinite when fewer than two clear the rubric.
\* (mutant) a tie at the top is not looked at
MarginClearOfNext(p) ==
    LET rest == Cleared(p) \ TopOf(p, Cleared(p))
    IN  \A c \in PassWinner(p), d \in rest :
            p.evaluations[c].score - p.evaluations[d].score >= ClearLead
MarginClear(p) ==
    \A c \in PassWinner(p), d \in Cleared(p) \ PassWinner(p) :
        p.evaluations[c].score - p.evaluations[d].score >= ClearLead

-----------------------------------------------------------------------------
(* select.                                                                 *)

\* An order of answers matters only among the best, so "first" is one of
\* those, and fixed when nobody clears the rubric.
Answers ==
    {p \in Pass : p.first \in (IF Cleared(p) = {} THEN {CHOOSE c \in Contestant : TRUE}
                              ELSE TopOf(p, Cleared(p)))}
\* (mutant) the judge's word stands
PassesUngated == Answers
\* _judge_pass: a candidate the gates rejected never clears the rubric.  One
\* whose evidence has no gate metric is not vetoed; every runner sends one.
PassesOf == {p \in Answers : Cleared(p) \subseteq certified}

Judge == \E p \in PassesOf : passes' = Append(passes, p)

FirstPass ==
    /\ passes = <<>> /\ Judge
    /\ UNCHANGED <<certified, repairer, reasons, callCount, repairs, selection>>

\* _fallback_reasons: another winner, a dimension that moved, a thin margin
SecondPass ==
    /\ Len(passes) = 1 /\ Judge
    /\ callCount' = 2
    /\ \E moved \in BOOLEAN :
           reasons' = (\/ PassWinner(passes'[1]) # PassWinner(passes'[2])
                       \/ moved
                       \/ ~MarginClear(passes'[1]) \/ ~MarginClear(passes'[2]))
    /\ UNCHANGED <<certified, repairer, repairs, selection>>

Fallback ==
    /\ Len(passes) = 2 /\ callCount = 2 /\ reasons
    /\ Judge /\ callCount' = callCount + 1
    /\ UNCHANGED <<certified, repairer, reasons, repairs, selection>>

NoWinners == \A i \in DOMAIN passes : PassWinner(passes[i]) = {}

\* The replacement of the best rejected candidate keeps its identity; its
\* evidence, the gates with it, is what the repairer says it is.
RepairBest ==
    /\ Len(passes) = 2 /\ callCount = 2 /\ ~reasons /\ NoWinners /\ repairer
    /\ repairs' = 1 /\ callCount' = callCount + 1
    /\ certified' \in {certified} \cup {certified \cup {c} : c \in Contestant}
                      \cup {certified \ {c} : c \in Contestant}
    /\ UNCHANGED <<repairer, passes, reasons, selection>>

PostRepair ==
    /\ repairs = 1 /\ Len(passes) = 2
    /\ Judge /\ callCount' = callCount + 1
    /\ UNCHANGED <<certified, repairer, reasons, repairs, selection>>

Wins(c) == {i \in DOMAIN passes : PassWinner(passes[i]) = {c}}
\* (mutant) two wins are enough, whoever wins the last pass
SupportedAnyTime(c) == Cardinality(Wins(c)) >= 2 /\ repairs = 0
\* Repeated support: both passes without a doubt, or two of three with the
\* last; a repair never leads to a selection.
Supported(c) == Cardinality(Wins(c)) >= 2 /\ Len(passes) \in Wins(c) /\ repairs = 0

SureOf(c) ==
    LET clears == {i \in DOMAIN passes : passes[i].evaluations[c].clears}
    IN  Cardinality(clears) >= 2 /\ \A i \in clears : ~passes[i].evaluations[c].unsure

Decide ==
    /\ selection = Undecided
    /\ \/ Len(passes) = 3
       \/ Len(passes) = 2 /\ ~reasons /\ repairs = 0 /\ ~(NoWinners /\ repairer)
    /\ LET chosen == {c \in Contestant : /\ Supported(c) /\ SureOf(c)
                                         /\ MarginClear(passes[Len(passes)])}
           outcome == IF chosen # {} THEN "SELECTED"
                      ELSE IF \A i \in DOMAIN passes : Cleared(passes[i]) = {}
                           THEN "ALL_CANDIDATES_REJECTED" ELSE "UNCERTAIN"
       IN  selection' = [outcome |-> outcome, of |-> chosen]
    /\ UNCHANGED <<certified, repairer, passes, reasons, callCount, repairs>>

SelectionNext == FirstPass \/ SecondPass \/ Fallback \/ RepairBest \/ PostRepair \/ Decide

SelectionSpec == SelectionInit /\ [][SelectionNext]_selectionVars

-----------------------------------------------------------------------------

\* The order in which a judge happens to answer never decides: the selected
\* candidate leads the last pass by a clear margin over every other that
\* clears the rubric, and no candidate ties with it there.
OrderBlind ==
    \A c \in selection.of :
        LET final == passes[Len(passes)].evaluations
        IN  \A d \in Contestant \ {c} : final[d].clears => final[c].score - final[d].score >= ClearLead

\* No answer of a judge, and no repair, gets a candidate selected that the
\* deterministic gates reject (_judge_pass's veto, FlywheelPipeline.run's
\* "judge selected a deterministically rejected candidate").
OnlyCertifiedSelected == selection.of \subseteq certified
=============================================================================

------------------------------ MODULE FlywheelRun ------------------------------
(***************************************************************************)
(* The demo's flywheel: run_best_of_five of evals/flywheel.py, the judge's *)
(* budget of model calls (RoutedModelClient of judge.py), and the two      *)
(* kinds of file a later run over the same output directory finds again:   *)
(* flywheel-trace.json and each round's five-way-ranking.json.  A run may  *)
(* raise, or be killed, between any two steps.                             *)
(*                                                                         *)
(* A candidate is the run, the round and the recipe it was built in, with  *)
(* what the checks and the judge said of it; its motion, scores, captures  *)
(* and recipe contents are left out.  A batch is Ranked candidates (five   *)
(* in the code), so is what a ranking file lists.  A request is a call of  *)
(* the OpenAI client; what that client sends again by itself is not seen   *)
(* by the code, nor counted here.                                          *)
(***************************************************************************)
EXTENDS Integers, Sequences, FiniteSets, SequencesExt

CONSTANTS
    Mode,          \* the selection modes that are explored
    Recipes,       \* the length of candidate_recipe_pool
    Ranked,        \* RANKED_CANDIDATE_COUNT
    MaxRounds,     \* max_rounds
    MaxModelCalls, \* max_model_calls
    MaxRuns        \* how many runs share the output directory

ASSUME FlywheelAssumption ==
    /\ Mode \subseteq {"five_way", "unary_tournament", "human_pilot"}
    /\ Recipes \in Nat \ {0} /\ Ranked \in 1..Recipes
    /\ MaxRounds \in Nat \ {0} /\ MaxModelCalls \in Nat /\ MaxRuns \in Nat \ {0}

VARIABLES
    mode,       \* selection_mode
    at,         \* where the run is
    attempt,    \* which run over the directory this is
    round,      \* round_index + 1
    pool,       \* round_record["candidates"]
    accepted,   \* the accepted candidates of this run
    champion,   \* direct_winner, then the tournament's champion
    rivals,     \* the accepted candidates still to be compared
    spent,      \* model_calls_made
    sent,       \* (history) requests sent to the model by this run
    trace,      \* flywheel-trace.json
    rankings    \* five-way-ranking.json of each round

flywheelVars == <<mode, at, attempt, round, pool, accepted, champion, rivals, spent, sent, trace, rankings>>

Round == 1..MaxRounds
Recipe == 1..Recipes
Name == [run : 1..MaxRuns, round : Round, recipe : Recipe]
NoOne == [run |-> 0, round |-> 0, recipe |-> 0]

\* fresh: structurally valid, and no earlier candidate moves the same way;
\* own: the verdict was given to this candidate.
Candidate ==
    [name : Name, valid : BOOLEAN, fresh : BOOLEAN, evidence : BOOLEAN, rankable : BOOLEAN,
     verdict : {"none", "pass", "fail"}, own : BOOLEAN]
Nobody == [name |-> NoOne, valid |-> FALSE, fresh |-> FALSE, evidence |-> FALSE,
           rankable |-> FALSE, verdict |-> "none", own |-> FALSE]

Ranking == [of : [1..Ranked -> Name], pass : SUBSET (1..Ranked), best : 0..Ranked]
NoRanking == [of |-> <<>>, pass |-> {}, best |-> 0]
TornRanking == [NoRanking EXCEPT !.best = Ranked]    \* a part of the file was written
Trace == [status : {"absent", "running", "unsupported_motion", "awaiting_human_selection",
                    "winner_selected", "no_acceptable_candidate"},
          rounds : 0..MaxRounds, first : Seq(Candidate), ranked : BOOLEAN,
          winner : Candidate \cup {Nobody}]
NoTrace == [status |-> "absent", rounds |-> 0, first |-> <<>>, ranked |-> FALSE, winner |-> Nobody]

Stages == {"idle", "build", "score", "write", "batch", "rank", "apply", "verdict",
           "repair", "tournament", "finish"}

FlywheelTypeOK ==
    /\ mode \in Mode /\ at \in Stages /\ attempt \in 0..MaxRuns /\ round \in Round
    /\ pool \in Seq(Candidate) /\ Len(pool) <= Recipes
    /\ accepted \subseteq Candidate /\ rivals \subseteq Candidate
    /\ champion \in Candidate \cup {Nobody}
    /\ spent \in 0..MaxModelCalls /\ sent \in Nat
    /\ trace \in Trace
    /\ DOMAIN rankings = Round /\ \A r \in Round : rankings[r] \in Ranking \cup {NoRanking, TornRanking}

FlywheelInit ==
    /\ mode \in Mode /\ at = "idle" /\ attempt = 0 /\ round = 1
    /\ pool = <<>> /\ accepted = {} /\ champion = Nobody /\ rivals = {}
    /\ spent = 0 /\ sent = 0 /\ trace = NoTrace
    /\ rankings = [r \in Round |-> NoRanking]

files == <<trace, rankings>>
found == <<accepted, champion, rivals>>
budget == <<spent, sent>>

-----------------------------------------------------------------------------
(* RoutedModelClient: the set of ways a call may end, from so many calls.  *)

\* A request is counted before it is sent; one that fails for a transient
\* reason is sent at most twice more, as long as the budget lasts.
\* (mutant) a request that fails is not counted
DispatchedUncounted(calls) ==
    IF calls >= MaxModelCalls THEN {[ok |-> FALSE, calls |-> calls, sent |-> 0]}
    ELSE {[ok |-> TRUE, calls |-> calls + 1, sent |-> n] : n \in 1..3}
         \cup {[ok |-> FALSE, calls |-> calls, sent |-> n] : n \in 1..3}
Dispatched(calls) ==
    LET left == MaxModelCalls - calls
    IN  IF left <= 0 THEN {[ok |-> FALSE, calls |-> calls, sent |-> 0]}
        ELSE {[ok |-> b, calls |-> calls + n, sent |-> n] :
                b \in BOOLEAN, n \in 1..(IF left < 3 THEN left ELSE 3)}

\* The fallback model is asked when the first fails, or answers with doubts
\* and the budget is not spent; what the first answered is dropped then.
Routed(calls, mayDoubt) ==
    LET primary == Dispatched(calls)
        sure == {p \in primary : p.ok}
        asks == {p \in primary : ~p.ok \/ (mayDoubt /\ p.calls < MaxModelCalls)}
        second(p) == {[f EXCEPT !.sent = @ + p.sent] : f \in Dispatched(p.calls)}
    IN  sure \cup UNION {second(p) : p \in asks}

\* compare: one request each way round, of the fallback model alone.
Compared(calls) ==
    UNION {IF ~one.ok THEN {one}
           ELSE {[two EXCEPT !.sent = @ + one.sent] : two \in Dispatched(one.calls)} :
             one \in Dispatched(calls)}

Spends(call) == spent' = call.calls /\ sent' = sent + call.sent

-----------------------------------------------------------------------------
(* The start of a run: planning, and what is found in the directory.       *)

Resumable ==
    /\ trace.status \in {"no_acceptable_candidate", "running"}
    /\ mode = "five_way" /\ trace.rounds = 1 /\ ~trace.ranked

FreshTrace == [NoTrace EXCEPT !.status = "running"]

Unsupported ==
    /\ at = "idle" /\ attempt < MaxRuns /\ attempt' = attempt + 1
    /\ trace' = [NoTrace EXCEPT !.status = "unsupported_motion"]
    /\ UNCHANGED <<mode, at, round, pool, found, budget, rankings>>

Begin ==
    /\ at = "idle" /\ attempt < MaxRuns /\ attempt' = attempt + 1
    /\ at' = "build"
    /\ spent' = 0 /\ sent' = 0
    /\ IF Resumable THEN pool' = trace.first /\ trace' = [trace EXCEPT !.status = "running"]
                    ELSE pool' = <<>> /\ trace' = FreshTrace
    /\ UNCHANGED <<mode, round, found, rankings>>

Gone ==         \* the process ends and with it what it knew
    /\ at' = "idle" /\ round' = 1 /\ pool' = <<>>
    /\ accepted' = {} /\ champion' = Nobody /\ rivals' = {}
Raises == Gone /\ UNCHANGED <<mode, attempt, files>>

Die ==          \* planning, compiling, capture or the process itself fails
    at # "idle" /\ Raises /\ UNCHANGED budget

-----------------------------------------------------------------------------
(* One round: the candidates, one recipe after the other.                  *)

Tried == {pool[i].name.recipe : i \in DOMAIN pool}
Untried == {q \in Recipe \ Tried : \A p \in Recipe \ Tried : q <= p}

\* The recipe's candidate is compiled, persisted and appended.  Only a
\* candidate that moves unlike the ones before it is scored by itself.
Build ==
    /\ at = "build"
    /\ \E q \in Untried, valid, fresh \in BOOLEAN :
           /\ fresh => valid
           /\ valid /\ (\A i \in DOMAIN pool : ~pool[i].valid) => fresh
           /\ pool' = Append(pool, [Nobody EXCEPT !.name = [run |-> attempt, round |-> round, recipe |-> q],
                                                  !.valid = valid, !.fresh = fresh])
           /\ at' = IF mode = "unary_tournament" /\ fresh THEN "score" ELSE "write"
    /\ UNCHANGED <<mode, attempt, round, found, budget, files>>

Score ==
    /\ at = "score"
    /\ \E call \in Routed(spent, TRUE) :
           /\ Spends(call)
           /\ \/ ~call.ok /\ Raises
              \/ /\ call.ok /\ at' = "write"
                 /\ \E verdict \in {"pass", "fail"} :
                        LET c == [Last(pool) EXCEPT !.evidence = TRUE, !.rankable = TRUE,
                                                    !.verdict = verdict, !.own = TRUE]
                        IN  /\ pool' = Append(Front(pool), c)
                            /\ accepted' = IF verdict = "pass" THEN accepted \cup {c} ELSE accepted
                 /\ UNCHANGED <<mode, attempt, round, champion, rivals, files>>

SaveRound(record) ==
    trace' = [record EXCEPT !.rounds = round,
                            !.first = IF round = 1 THEN pool' ELSE @]

Unique == {i \in DOMAIN pool : pool[i].valid /\ pool[i].fresh}
Complete == Cardinality(Unique) >= Ranked

\* The trace is saved after each candidate.  A batch whose pairs all differ
\* enough ends the round early; so does the last recipe.
WriteCandidate ==
    /\ at = "write"
    /\ \/ Untried # {} /\ at' = "build"
       \/ Untried = {} /\ at' = IF mode = "unary_tournament" THEN "verdict" ELSE "batch"
       \/ mode # "unary_tournament" /\ Complete /\ at' = "batch"
    /\ UNCHANGED pool /\ SaveRound(trace)
    /\ UNCHANGED <<mode, attempt, round, found, budget, rankings>>

NothingToBuild ==   \* a resumed round whose recipes have all been tried
    /\ at = "build" /\ Untried = {}
    /\ at' = "batch"
    /\ UNCHANGED <<mode, attempt, round, pool, found, budget, files>>

\* The batch keeps the precommitted baseline, here the first recipe's
\* candidate of the first round, when that one is fit to be ranked.
Batches ==
    {b \in SUBSET Unique :
        /\ Cardinality(b) = Ranked
        /\ \A i \in Unique : round = 1 /\ pool[i].name.recipe = 1 => i \in b}

Batch ==
    /\ at = "batch" /\ at' = IF mode = "five_way" THEN "rank" ELSE "verdict"
    /\ \/ /\ Complete
          /\ \E b \in Batches :
                 pool' = [i \in DOMAIN pool |->
                            [pool[i] EXCEPT !.rankable = (i \in b),
                                            !.evidence = @ \/ (i \in b /\ mode = "five_way")]]
       \/ /\ ~Complete
          /\ pool' = [i \in DOMAIN pool |-> [pool[i] EXCEPT !.rankable = FALSE]]
    /\ SaveRound(trace)
    /\ UNCHANGED <<mode, attempt, round, found, budget, rankings>>

-----------------------------------------------------------------------------
(* The five-way judgment.                                                  *)

\* The captured candidates of the batch, by their place in the pool.
Captured == {i \in DOMAIN pool : pool[i].rankable /\ pool[i].evidence}
\* The k-th of them in the order of the pool.
Lineup ==
    [k \in 1..Cardinality(Captured) |->
        pool[CHOOSE i \in Captured : Cardinality({j \in Captured : j <= i}) = k]]

SkipRank ==
    /\ at = "rank" /\ Len(Lineup) # Ranked
    /\ at' = "verdict"
    /\ UNCHANGED <<mode, attempt, round, pool, found, budget, files>>

\* The file is there: nothing is asked.  Of a torn one nothing can be read,
\* and the run raises (Die), as does every run after it that comes this far.
PreservedRanking ==
    /\ at = "rank" /\ Len(Lineup) = Ranked /\ rankings[round] \notin {NoRanking, TornRanking}
    /\ at' = "apply"
    /\ UNCHANGED <<mode, attempt, round, pool, found, budget, files>>

RankFive ==
    /\ at = "rank" /\ Len(Lineup) = Ranked /\ rankings[round] = NoRanking
    /\ \E call \in Routed(spent, TRUE) :
           /\ Spends(call)
           /\ \/ ~call.ok /\ Raises
              \/ /\ call.ok /\ at' = "apply"
                 /\ \E pass \in SUBSET (1..Ranked), best \in 0..Ranked :
                        rankings' = [rankings EXCEPT ![round] =
                            [of |-> [i \in 1..Ranked |-> Lineup[i].name], pass |-> pass, best |-> best]]
                 /\ UNCHANGED <<mode, attempt, round, pool, found, trace>>

TearRanking ==      \* the process is killed while it writes the file
    /\ at = "rank" /\ Len(Lineup) = Ranked /\ rankings[round] = NoRanking
    /\ \E call \in Routed(spent, TRUE) : call.ok /\ Spends(call)
    /\ rankings' = [rankings EXCEPT ![round] = TornRanking]
    /\ Gone /\ UNCHANGED <<mode, attempt, trace>>

\* The scores are given to the candidates by their place in the line.
Judged(ranking) ==
    [i \in 1..Ranked |->
        [Lineup[i] EXCEPT !.verdict = IF i \in ranking.pass THEN "pass" ELSE "fail",
                          !.own = (ranking.of[i] = Lineup[i].name)]]

\* (mutant) the winner the judge names need not have been accepted
WinnersUnchecked(line, best) ==
    IF best # 0 THEN {line[best]}
    ELSE {line[i] : i \in {j \in 1..Ranked : line[j].verdict = "pass"}}
\* select_five_way_winner: the judge's winner, the baseline, the best scored.
Winners(line, best) ==
    LET passed == {i \in 1..Ranked : line[i].verdict = "pass"}
        baseline == {i \in passed : line[i].name.round = 1 /\ line[i].name.recipe = 1}
    IN  IF best \in passed THEN {line[best]}
        ELSE IF baseline # {} THEN {line[i] : i \in baseline}
        ELSE {line[i] : i \in passed}

Apply ==
    /\ at = "apply" /\ at' = "verdict"
    /\ LET ranking == rankings[round]
           line == Judged(ranking)
           winners == Winners(line, ranking.best)
       IN  /\ pool' = [i \in DOMAIN pool |->
                         LET same == {j \in 1..Ranked : line[j].name = pool[i].name}
                         IN  IF same = {} THEN pool[i] ELSE line[CHOOSE j \in same : TRUE]]
           /\ accepted' = {line[i] : i \in {j \in 1..Ranked : line[j].verdict = "pass"}}
           /\ champion' \in (IF winners = {} THEN {Nobody} ELSE winners)
    /\ SaveRound([trace EXCEPT !.ranked = TRUE])
    /\ UNCHANGED <<mode, attempt, round, rivals, budget, rankings>>

-----------------------------------------------------------------------------
(* After a round: a winner, a repair and another round, or the end.        *)

Close(status, winner) ==
    /\ Gone /\ trace' = [trace EXCEPT !.status = status, !.winner = winner]
    /\ UNCHANGED <<mode, attempt, budget, rankings>>

AwaitHuman ==
    /\ at = "verdict" /\ mode = "human_pilot" /\ \E i \in DOMAIN pool : pool[i].rankable
    /\ Close("awaiting_human_selection", Nobody)

Accept ==
    /\ at = "verdict" /\ accepted # {}
    /\ IF mode = "five_way" /\ champion # Nobody
       THEN at' = "finish" /\ UNCHANGED <<champion, rivals>>
       ELSE /\ at' = "tournament"
            /\ champion' \in accepted /\ rivals' = accepted \ {champion'}
    /\ UNCHANGED <<mode, attempt, round, pool, accepted, budget, files>>

Match ==
    /\ at = "tournament" /\ rivals # {}
    /\ \E call \in Compared(spent) :
           /\ Spends(call)
           /\ \/ ~call.ok /\ Raises
              \/ /\ call.ok
                 /\ \E challenger \in rivals :
                        /\ rivals' = rivals \ {challenger}
                        /\ champion' \in {champion, challenger}
                 /\ UNCHANGED <<mode, at, attempt, round, pool, accepted, files>>

TournamentOver ==
    /\ at = "tournament" /\ rivals = {} /\ at' = "finish"
    /\ UNCHANGED <<mode, attempt, round, pool, found, budget, files>>

Crown == at = "finish" /\ Close("winner_selected", champion)

NoPass ==
    at = "verdict" /\ accepted = {} /\ ~(mode = "human_pilot" /\ \E i \in DOMAIN pool : pool[i].rankable)

GiveUp == NoPass /\ round = MaxRounds /\ Close("no_acceptable_candidate", Nobody)

NextRound ==
    /\ round' = round + 1 /\ pool' = <<>> /\ at' = "build"
    /\ UNCHANGED <<mode, attempt, found, rankings>>
Scored == \E i \in DOMAIN pool : pool[i].verdict # "none"

PrefilterRepair ==
    /\ NoPass /\ round < MaxRounds /\ ~Scored
    /\ NextRound /\ UNCHANGED <<budget, trace>>

Repair ==       \* _never_escalate
    /\ NoPass /\ round < MaxRounds /\ Scored
    /\ \E call \in Routed(spent, FALSE) :
           /\ Spends(call)
           /\ \/ ~call.ok /\ Raises
              \/ call.ok /\ NextRound /\ UNCHANGED trace

FlywheelNext ==
    \/ Unsupported \/ Begin \/ Die
    \/ Build \/ Score \/ WriteCandidate \/ NothingToBuild \/ Batch
    \/ SkipRank \/ PreservedRanking \/ RankFive \/ TearRanking \/ Apply
    \/ AwaitHuman \/ Accept \/ Match \/ TournamentOver \/ Crown \/ GiveUp
    \/ PrefilterRepair \/ Repair

FlywheelSpec == FlywheelInit /\ [][FlywheelNext]_flywheelVars

-----------------------------------------------------------------------------

\* Whatever the judge answers, whoever it names and whatever earlier runs
\* have left in the directory, a winner is structurally valid, was captured,
\* and was accepted by the judge (select_five_way_winner, _tournament); in the
\* first run over a directory the verdict was given to the winner itself.  A
\* later run may apply a ranking that was made of other candidates.
WinnerEarned ==
    trace.status = "winner_selected" =>
        /\ trace.winner.valid /\ trace.winner.evidence /\ trace.winner.verdict = "pass"
        /\ attempt = 1 => trace.winner.own

\* "A product run has a hard four-model-call ceiling across judging and
\* repair" (docs/vlm-flywheel.md): retries, fallbacks and failed requests
\* included.
CallCeiling == sent <= MaxModelCalls
=============================================================================

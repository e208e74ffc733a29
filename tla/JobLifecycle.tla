---------------------------- MODULE JobLifecycle ----------------------------
(***************************************************************************)
(* What the public job contract of Rigby promises, without tables, clocks  *)
(* or priorities: a job is submitted once, is held by at most one worker   *)
(* at a time, and ends once, either cancelled by a user or finished by the *)
(* worker that holds it.  JobStore, and the worker processes on top of it, *)
(* are shown to implement this.                                            *)
(***************************************************************************)
CONSTANTS
    Job,        \* job ids
    WorkerId,   \* workers that may hold a job
    Nobody      \* the holder of a job nobody holds

VARIABLES
    phase,      \* where each job is
    holder      \* who holds it

vars == <<phase, holder>>

Phase == {"absent", "queued", "leased", "succeeded", "failed", "cancelled"}

TypeOK ==
    /\ phase \in [Job -> Phase]
    /\ holder \in [Job -> WorkerId \cup {Nobody}]

Init ==
    /\ phase = [j \in Job |-> "absent"]
    /\ holder = [j \in Job |-> Nobody]

Submit(j) ==
    /\ phase[j] = "absent"
    /\ phase' = [phase EXCEPT ![j] = "queued"]
    /\ UNCHANGED holder

Claim(j, w) ==
    /\ phase[j] = "queued"
    /\ phase' = [phase EXCEPT ![j] = "leased"]
    /\ holder' = [holder EXCEPT ![j] = w]

\* Jobs whose holders are presumed dead are queued again, together.
Release(S) ==
    /\ \A j \in S : phase[j] = "leased"
    /\ phase' = [j \in Job |-> IF j \in S THEN "queued" ELSE phase[j]]
    /\ holder' = [j \in Job |-> IF j \in S THEN Nobody ELSE holder[j]]

Cancel(j) ==
    /\ phase[j] \in {"queued", "leased"}
    /\ phase' = [phase EXCEPT ![j] = "cancelled"]
    /\ holder' = [holder EXCEPT ![j] = Nobody]

\* Only the worker that holds a job decides how it ends.
Finish(j, w, verdict) ==
    /\ phase[j] = "leased"
    /\ holder[j] = w
    /\ phase' = [phase EXCEPT ![j] = verdict]
    /\ holder' = [holder EXCEPT ![j] = Nobody]

Next ==
    \/ \E j \in Job : Submit(j) \/ Cancel(j)
    \/ \E j \in Job, w \in WorkerId :
          \/ Claim(j, w)
          \/ \E verdict \in {"succeeded", "failed"} : Finish(j, w, verdict)
    \/ \E S \in SUBSET Job : Release(S)

Spec == Init /\ [][Next]_vars
=============================================================================

---------------------------- MODULE SchemaMigrations ----------------------------
(***************************************************************************)
(* Forward-only migrations (release/migrations.py): several MigrationRunner*)
(* processes, of binaries with different plans, over one history table.    *)
(* A runner compares the history with its plan once and then applies what  *)
(* is missing, one transaction per migration; the lock of a transaction    *)
(* (BEGIN IMMEDIATE, pg_advisory_xact_lock) makes it one step, and a       *)
(* runner that dies, or whose statement fails, leaves nothing of it.       *)
(***************************************************************************)
EXTENDS Integers, Sequences, SequencesExt

CONSTANTS
    Runner,     \* the processes
    Releases,   \* sets of plans: the binaries that may be about together
    MaxStarts   \* how often runners are started in an exploration

Migration == [version : Nat, checksum : STRING]

\* What a binary brings: versions strictly increase (MigrationRunner).
ASSUME MigrationsAssumption ==
    /\ MaxStarts \in Nat
    /\ \A some \in Releases :
           /\ some # {}
           /\ \A p \in some :
                  /\ p \in Seq(Migration)
                  /\ \A i, j \in DOMAIN p : i < j => p[i].version < p[j].version

VARIABLES
    plans,    \* the plans that are about
    history,  \* the history table, in the order of the commits
    runner,   \* where each runner is, its plan and its next migration
    starts

migrationVars == <<plans, history, runner, starts>>

NotRunning == [stage |-> "off", plan |-> <<>>, next |-> 1]
MigrationsInit ==
    /\ plans \in Releases /\ history = <<>> /\ starts = 0
    /\ runner = [r \in Runner |-> NotRunning]

MigrationsTypeOK ==
    /\ plans \in Releases /\ starts \in 0..MaxStarts
    /\ history \in Seq(UNION {ToSet(p) : p \in plans})
    /\ runner \in [Runner -> [stage : {"off", "apply", "returned"}, plan : plans \cup {<<>>}, next : Nat]]
    /\ \A r \in Runner : runner[r].next \in 1..(Len(runner[r].plan) + 1)

Becomes(r, stage, plan, next) ==
    runner' = [runner EXCEPT ![r] = [stage |-> stage, plan |-> plan, next |-> next]]
Stops(r) == Becomes(r, "off", <<>>, 1)

-----------------------------------------------------------------------------

\* Whether applied, which lists the table by version, is a prefix of plan p;
\* versions are a primary key, and both increase strictly.
AppliedIsPrefix(p) ==
    Len(history) <= Len(p) /\ ToSet(history) = ToSet(SubSeq(p, 1, Len(history)))

\* initialize, applied and the comparison; a history that is no prefix of
\* the plan raises.
Compare(r) ==
    /\ runner[r].stage # "apply" /\ starts < MaxStarts /\ starts' = starts + 1
    /\ \E p \in plans :
           IF AppliedIsPrefix(p) THEN Becomes(r, "apply", p, Len(history) + 1) ELSE Stops(r)
    /\ UNCHANGED <<plans, history>>

Pending(r) == runner[r].plan[runner[r].next]
OnRecord(r) == {i \in DOMAIN history : history[i].version = Pending(r).version}
Applying(r) ==
    /\ runner[r].stage = "apply" /\ runner[r].next <= Len(runner[r].plan)
    /\ UNCHANGED <<plans, starts>>
Onwards(r) == Becomes(r, "apply", runner[r].plan, runner[r].next + 1)

ApplyMigration(r) ==
    Applying(r) /\ OnRecord(r) = {} /\ history' = Append(history, Pending(r)) /\ Onwards(r)
\* (mutant) what is on record under the version is taken for the migration
FindOnRecordUnchecked(r) ==
    Applying(r) /\ OnRecord(r) # {} /\ UNCHANGED history /\ Onwards(r)
FindOnRecord(r) ==      \* another runner was faster, with this or another migration
    /\ Applying(r) /\ OnRecord(r) # {} /\ UNCHANGED history
    /\ IF \A i \in OnRecord(r) : history[i] = Pending(r) THEN Onwards(r) ELSE Stops(r)

\* (mutant) a migration that fails is passed over
StatementFailsOnwards(r) ==
    Applying(r) /\ OnRecord(r) = {} /\ UNCHANGED history /\ (Onwards(r) \/ Stops(r))
StatementFails(r) ==    \* or the process dies: the transaction is rolled back
    Applying(r) /\ OnRecord(r) = {} /\ UNCHANGED history /\ Stops(r)

Return(r) ==
    /\ runner[r].stage = "apply" /\ runner[r].next > Len(runner[r].plan)
    /\ Becomes(r, "returned", runner[r].plan, runner[r].next)
    /\ UNCHANGED <<plans, history, starts>>

MigrationsNext ==
    \E r \in Runner :
        Compare(r) \/ ApplyMigration(r) \/ FindOnRecord(r) \/ StatementFails(r) \/ Return(r)

MigrationsSpec == MigrationsInit /\ [][MigrationsNext]_migrationVars

-----------------------------------------------------------------------------

Nested == \A p, q \in plans : IsPrefix(p, q) \/ IsPrefix(q, p)

\* Although the history is compared before the lock is taken: a runner that
\* returns finds every migration of its plan in the database, with its
\* checksum; and where each binary's plan only extends the others', every
\* migration is applied once, after all the ones before it (apply).
MigratedAsPlanned ==
    /\ \A r \in Runner : runner[r].stage = "returned" => ToSet(runner[r].plan) \subseteq ToSet(history)
    /\ Nested => \E p \in plans : IsPrefix(history, p)
=============================================================================

------------------------------ MODULE ResultStore ------------------------------
(***************************************************************************)
(* The demo's ResultStore (store.py): persist, called by the runs of a     *)
(* server, each through a store object and so a lock of its own, over one  *)
(* results directory.  A process may be killed between any two writes,     *)
(* which leaves a directory the index does not know; one killed within the *)
(* rewriting of index.json, which is in place, leaves it unreadable.       *)
(*                                                                         *)
(* A result is the number and the slug its directory is named for; "whole" *)
(* is that all its files were written.  Left out: what the files say, and  *)
(* prune_run's deletions.                                                  *)
(***************************************************************************)
EXTENDS Integers, FiniteSets, FiniteSetsExt

CONSTANTS
    Writer,      \* the runs that persist results
    Slug,        \* what prompts are shortened to
    MaxPersists, \* how many persists are begun in an exploration
    Together     \* whether several writers may be at it at once: a subset of BOOLEAN

ASSUME ResultStoreAssumption == MaxPersists \in Nat /\ Together \subseteq BOOLEAN

VARIABLES
    folders,   \* the directories: number, slug and whether they are whole
    index,     \* index.json: next_sequence and the listed results
    torn,      \* whether index.json was cut off while it was rewritten
    persisting,\* where each writer is, and what it has read and chosen
    returned,  \* (history) the results whose persist has returned
    begun,     \* persists begun so far
    together   \* whether several writers are at it at once

storeVars == <<folders, index, torn, persisting, returned, begun, together>>

Number == 1..(MaxPersists + 1)
Result == [number : Number, slug : Slug]
Index == [next : Number, results : SUBSET Result]
Resting == [step |-> "idle"]

ResultStoreTypeOK ==
    /\ DOMAIN folders \subseteq Result /\ \A r \in DOMAIN folders : folders[r] \in BOOLEAN
    /\ index \in Index /\ torn \in BOOLEAN /\ together \in Together
    /\ DOMAIN persisting = Writer
    /\ \A w \in Writer :
           \/ persisting[w] = Resting
           \/ persisting[w] \in [step : {"scan"}, slug : Slug, read : Index]
           \/ persisting[w] \in [step : {"mkdir", "files", "index", "rewrite"}, slug : Slug,
                                 read : Index, number : Number]
    /\ returned \subseteq Result /\ begun \in 0..MaxPersists

ResultStoreInit ==
    /\ folders = <<>>
    /\ index = [next |-> 1, results |-> {}] /\ torn = FALSE
    /\ persisting = [w \in Writer |-> Resting]
    /\ returned = {} /\ begun = 0 /\ together \in Together

Proceeds(w, to) == persisting' = [persisting EXCEPT ![w] = to]
Rests(w) == Proceeds(w, Resting)
ResultOf(w) == [number |-> persisting[w].number, slug |-> persisting[w].slug]

-----------------------------------------------------------------------------
(* persist, write by write.                                                *)

ReadIndex(w) ==     \* a torn index does not parse, and persist raises
    /\ persisting[w] = Resting /\ begun < MaxPersists /\ begun' = begun + 1
    /\ together \/ \A v \in Writer : persisting[v] = Resting
    /\ IF torn THEN UNCHANGED persisting
       ELSE \E slug \in Slug : Proceeds(w, [step |-> "scan", slug |-> slug, read |-> index])
    /\ UNCHANGED <<folders, index, torn, returned, together>>

Highest == Max({r.number : r \in DOMAIN folders} \cup {0})
\* (mutant) the number of the index is taken as it is
NextSequenceRecorded(recorded) == recorded
NextSequence(recorded) == IF recorded > Highest + 1 THEN recorded ELSE Highest + 1

Scan(w) ==
    /\ persisting[w].step = "scan"
    /\ Proceeds(w, [step |-> "mkdir", slug |-> persisting[w].slug, read |-> persisting[w].read,
                number |-> NextSequence(persisting[w].read.next)])
    /\ UNCHANGED <<folders, index, torn, returned, begun, together>>

MakeFolder(w) ==    \* exist_ok=False: an existing directory is an exception
    /\ persisting[w].step = "mkdir"
    /\ IF ResultOf(w) \in DOMAIN folders THEN Rests(w) /\ UNCHANGED folders
       ELSE /\ Proceeds(w, [persisting[w] EXCEPT !.step = "files"])
            /\ folders' = [r \in DOMAIN folders \cup {ResultOf(w)} |->
                             IF r = ResultOf(w) THEN FALSE ELSE folders[r]]
    /\ UNCHANGED <<index, torn, returned, begun, together>>

\* (mutant) the files are written after the index
WriteFilesLate(w) ==
    /\ persisting[w].step = "files"
    /\ Proceeds(w, [persisting[w] EXCEPT !.step = "index"])
    /\ UNCHANGED <<folders, index, torn, returned, begun, together>>
WriteFiles(w) ==
    /\ persisting[w].step = "files"
    /\ Proceeds(w, [persisting[w] EXCEPT !.step = "index"])
    /\ folders' = [folders EXCEPT ![ResultOf(w)] = TRUE]
    /\ UNCHANGED <<index, torn, returned, begun, together>>

\* The index is what persist read, with its own result; opening the file
\* empties it.
OpenIndex(w) ==
    /\ persisting[w].step = "index" /\ torn' = TRUE
    /\ Proceeds(w, [persisting[w] EXCEPT !.step = "rewrite"])
    /\ UNCHANGED <<folders, index, returned, begun, together>>
WriteIndex(w) ==
    /\ persisting[w].step = "rewrite" /\ Rests(w)
    /\ index' = [next |-> persisting[w].number + 1,
                 results |-> persisting[w].read.results \cup {ResultOf(w)}]
    /\ torn' = FALSE /\ returned' = returned \cup {ResultOf(w)}
    /\ UNCHANGED <<folders, begun, together>>

Killed(w) ==        \* and the server's other runs with it
    /\ persisting[w] # Resting
    /\ persisting' = [v \in Writer |-> Resting]
    /\ UNCHANGED <<folders, index, torn, returned, begun, together>>

StoreNext ==
    \E w \in Writer :
        \/ ReadIndex(w) \/ Scan(w) \/ MakeFolder(w) \/ WriteFiles(w)
        \/ OpenIndex(w) \/ WriteIndex(w) \/ Killed(w)

StoreSpec == ResultStoreInit /\ [][StoreNext]_storeVars

-----------------------------------------------------------------------------

\* Writers that take turns never give two results one number, whatever kills
\* left behind (_next_sequence: "advanced past every sequence already on
\* disk").
OneNumberEach ==
    ~together => \A r, s \in DOMAIN folders : r.number = s.number => r = s

\* What the index lists is there with all its files, and writers that take
\* turns drop nothing from it: every result that persist returned is listed,
\* as long as the index can be read at all (persist writes it last).
IndexTells ==
    ~torn =>
        /\ \A r \in index.results : r \in DOMAIN folders /\ folders[r]
        /\ ~together => returned \subseteq index.results
=============================================================================

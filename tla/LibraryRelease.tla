---------------------------- MODULE LibraryRelease ----------------------------
(***************************************************************************)
(* The certified motion library: CertifiedLibraryService over its          *)
(* repository.  The service keeps no state; each of its methods is a       *)
(* series of calls to the repository, each its own transaction, so that    *)
(* two processes sharing PostgreSQL interleave between them and a process  *)
(* that dies leaves the first of them done.  InMemoryLibraryRepository     *)
(* belongs to one process, which runs one method at a time: "shared" says  *)
(* which of the two the system is deployed with.                           *)
(*                                                                         *)
(* A record is its status, its release, the record it was copied from and  *)
(* whether it carries a promotion proof; its motion and the values of its  *)
(* embeddings never change once inserted.  Left out: the legacy archive    *)
(* import, failure records, namespaces, and the filters and distances of   *)
(* ranking (which of a release's certified records are returned).          *)
(***************************************************************************)
EXTENDS Integers, FiniteSets

CONSTANTS
    Client,      \* processes that use the service
    Release,     \* release ids
    Record,      \* record ids, handed out in increasing order
    IndexCount,  \* the number of retrieval indexes
    RawBound,    \* bounds the candidates, and the records staged without a proof
    Sharing,     \* which deployments are explored: a subset of BOOLEAN
    Null         \* None

ASSUME RecordAssumption == Record \subseteq Nat
ASSUME IndexAssumption == IndexCount \in Nat \ {0}
ASSUME SharingAssumption == Sharing \subseteq BOOLEAN
ASSUME NullAssumption == Null \notin Release \cup Record

VARIABLES
    releases,   \* the library_releases table
    records,    \* the animation_records table
    embedded,   \* the indexes each record has an embedding in
    call,       \* where each client is in a method, with what it has read
    shared      \* whether the repository is PostgreSQL, shared by processes

vars == <<releases, records, embedded, call, shared>>

Index == 1..IndexCount      \* RetrievalIndex, in the order of its members
Released == {"frozen", "active", "retired"}

ReleaseRow ==
    [status   : {"absent", "building"} \cup Released,
     parent   : Release \cup {Null},
     manifest : SUBSET Record]

RecordRow ==
    [status  : {"absent", "candidate", "staged", "certified"},
     release : Release \cup {Null},
     parent  : Record \cup {Null},
     proof   : BOOLEAN,
     late    : BOOLEAN]     \* (history) inserted unproved while its release was certified

Call ==
    [at      : {"idle", "insert", "list", "carry", "copy", "promote", "put",
                "freeze", "certify", "activate", "rank"},
     release : Release \cup {Null},    \* the release being worked on
     parent  : Release \cup {Null},    \* the active release create_release read
     record  : Record \cup {Null},
     ids     : SUBSET Record,          \* the records it has read or ranked
     retire  : SUBSET Release,         \* active when its UPDATE began
     next    : 0..(IndexCount + 1)]

NoCall == [at |-> "idle", release |-> Null, parent |-> Null, record |-> Null,
           ids |-> {}, retire |-> {}, next |-> 0]
NoRecord == [status |-> "absent", release |-> Null, parent |-> Null, proof |-> FALSE,
             late |-> FALSE]

TypeOK ==
    /\ releases \in [Release -> ReleaseRow]
    /\ records \in [Record -> RecordRow]
    /\ embedded \in [Record -> SUBSET Index]
    /\ call \in [Client -> Call]
    /\ shared \in BOOLEAN

Init ==
    /\ releases = [r \in Release |-> [status |-> "absent", parent |-> Null, manifest |-> {}]]
    /\ records = [x \in Record |-> NoRecord]
    /\ embedded = [x \in Record |-> {}]
    /\ call = [c \in Client |-> NoCall]
    /\ shared \in Sharing

-----------------------------------------------------------------------------
Active == {r \in Release : releases[r].status = "active"}

\* What active_release returns is p; with two active releases it raises.
ActiveIs(p) == Active = (IF p = Null THEN {} ELSE {p})

Present == {x \in Record : records[x].status # "absent"}
RecordsOf(r) == {x \in Present : records[x].release = r}
StagedIn(r) == {x \in RecordsOf(r) : records[x].status = "staged"}
Proved(x) == records[x].proof
Indexed(x) == embedded[x] = Index

\* The next record id.
IsFresh(x) == x \notin Present /\ \A y \in Record : y < x => y \in Present

\* A process that owns its repository is in one method at a time.
Free(c) ==
    /\ call[c] = NoCall
    /\ ~shared => \A d \in Client : call[d] = NoCall

At(c, place) == call[c].at = place
Goto(c, place) == call' = [call EXCEPT ![c] = place]
Return(c) == Goto(c, NoCall)

Insert(x, row) ==
    /\ IsFresh(x)
    /\ records' = [records EXCEPT ![x] = row]

\* The repository has tested the proofs of r and not yet certified its records;
\* it holds the lock on the row of r, which inserting a record does not take.
Certifying(r) == \E c \in Client : At(c, "certify") /\ call[c].release = r

StagedRow(r, parent, proof) ==
    [status |-> "staged", release |-> r, parent |-> parent, proof |-> proof,
     late |-> ~proof /\ Certifying(r)]

-----------------------------------------------------------------------------
(* create_release: read the active release, insert the new one, read the   *)
(* records of the active one, then copy each with its embeddings.          *)

CreateRelease(c, r, p) ==
    /\ Free(c)
    /\ ActiveIs(p)
    /\ Goto(c, [NoCall EXCEPT !.at = "insert", !.release = r, !.parent = p])
    /\ UNCHANGED <<releases, records, embedded, shared>>

InsertRelease(c) ==
    /\ At(c, "insert")
    /\ \/ /\ releases[call[c].release].status = "absent"
          /\ releases' = [releases EXCEPT ![call[c].release] =
                 [status |-> "building", parent |-> call[c].parent, manifest |-> {}]]
          /\ IF call[c].parent = Null THEN Return(c)
             ELSE Goto(c, [call[c] EXCEPT !.at = "list"])
       \/ /\ releases[call[c].release].status # "absent"
          /\ Return(c)
          /\ UNCHANGED releases
    /\ UNCHANGED <<records, embedded, shared>>

\* (mutant) only records still staged are listed
ListStagedParent(c) ==
    /\ At(c, "list")
    /\ IF StagedIn(call[c].parent) = {} THEN Return(c)
       ELSE Goto(c, [call[c] EXCEPT !.at = "carry", !.ids = StagedIn(call[c].parent)])
    /\ UNCHANGED <<releases, records, embedded, shared>>

ListParent(c) ==
    /\ At(c, "list")
    /\ IF RecordsOf(call[c].parent) = {} THEN Return(c)
       ELSE Goto(c, [call[c] EXCEPT !.at = "carry", !.ids = RecordsOf(call[c].parent)])
    /\ UNCHANGED <<releases, records, embedded, shared>>

CarryRecord(c) ==
    /\ At(c, "carry")
    /\ \E source \in call[c].ids, x \in Record :
        /\ Insert(x, StagedRow(call[c].release, source, Proved(source)))
        /\ Goto(c, [call[c] EXCEPT !.at = "copy", !.record = x, !.ids = @ \ {source}])
    /\ UNCHANGED <<releases, embedded, shared>>

\* One INSERT ... SELECT: it fails if the copy has been indexed meanwhile.
CopyEmbeddings(c) ==
    /\ At(c, "copy")
    /\ LET x == call[c].record
           source == records[x].parent
       IN IF embedded[x] \cap embedded[source] # {}
          THEN Return(c) /\ UNCHANGED embedded
          ELSE /\ embedded' = [embedded EXCEPT ![x] = @ \cup embedded[source]]
               /\ IF call[c].ids = {} THEN Return(c)
                  ELSE Goto(c, [call[c] EXCEPT !.at = "carry", !.record = Null])
    /\ UNCHANGED <<releases, records, shared>>

-----------------------------------------------------------------------------
SubmitCandidate(c) ==
    /\ Free(c)
    /\ Cardinality({x \in Present : records[x].status = "candidate"}) < RawBound
    /\ \E x \in Record : Insert(x, [NoRecord EXCEPT !.status = "candidate"])
    /\ UNCHANGED <<releases, embedded, call, shared>>

\* insert_record called directly with a staged record that has no proof, which
\* freezing has to refuse.
StagedDirectly == {x \in Present : records[x].release # Null /\ records[x].parent = Null}

InsertUnproved(c, r) ==
    /\ Free(c)
    /\ releases[r].status = "building"
    /\ Cardinality(StagedDirectly) < RawBound
    /\ \E x \in Record : Insert(x, StagedRow(r, Null, FALSE))
    /\ UNCHANGED <<releases, embedded, call, shared>>

\* promote_for_next_release checks the source, the release and the active
\* release, then inserts the staged copy with its proof.
Promote(c, source, r) ==
    /\ Free(c)
    /\ source \in Present
    /\ releases[r].status = "building"
    /\ ActiveIs(releases[r].parent)
    /\ Goto(c, [NoCall EXCEPT !.at = "promote", !.release = r, !.record = source])
    /\ UNCHANGED <<releases, records, embedded, shared>>

InsertPromoted(c) ==
    /\ At(c, "promote")
    /\ \E x \in Record :
        Insert(x, StagedRow(call[c].release, call[c].record, TRUE))
    /\ Return(c)
    /\ UNCHANGED <<releases, embedded, shared>>

-----------------------------------------------------------------------------
IndexRecord(c, x) ==
    /\ Free(c)
    /\ x \in Present
    /\ Goto(c, [NoCall EXCEPT !.at = "put", !.record = x, !.next = 1])
    /\ UNCHANGED <<releases, records, embedded, shared>>

\* (mutant) the loop runs once too often
PutEmbeddingPastEnd(c) ==
    /\ At(c, "put")
    /\ LET x == call[c].record
           i == call[c].next
       IN IF i \in embedded[x]
          THEN Return(c) /\ UNCHANGED embedded
          ELSE /\ embedded' = [embedded EXCEPT ![x] = @ \cup {i}]
               /\ IF i > IndexCount THEN Return(c)
                  ELSE Goto(c, [call[c] EXCEPT !.next = i + 1])
    /\ UNCHANGED <<releases, records, shared>>

\* put_embedding for the next index; one that exists ends index_record.
PutEmbedding(c) ==
    /\ At(c, "put")
    /\ LET x == call[c].record
           i == call[c].next
       IN IF i \in embedded[x]
          THEN Return(c) /\ UNCHANGED embedded
          ELSE /\ embedded' = [embedded EXCEPT ![x] = @ \cup {i}]
               /\ IF i = IndexCount THEN Return(c)
                  ELSE Goto(c, [call[c] EXCEPT !.next = i + 1])
    /\ UNCHANGED <<releases, records, shared>>

-----------------------------------------------------------------------------
\* freeze_release lists the records and their proofs; whatever the status of
\* the release, which only the repository's own freeze_release tests.
Freeze(c, r) ==
    /\ Free(c)
    /\ releases[r].status # "absent"
    /\ \A x \in RecordsOf(r) : Proved(x)
    /\ Goto(c, [NoCall EXCEPT !.at = "freeze", !.release = r, !.ids = RecordsOf(r)])
    /\ UNCHANGED <<releases, records, embedded, shared>>

Certify(r, manifest) ==
    /\ releases' = [releases EXCEPT ![r].status = "frozen", ![r].manifest = manifest]
    /\ records' = [x \in Record |-> IF x \in StagedIn(r)
                                    THEN [records[x] EXCEPT !.status = "certified"]
                                    ELSE records[x]]

\* (mutant) the status of the release is not tested
MayFreezeAny(r, manifest) ==
    /\ \A x \in manifest : Indexed(x)
    /\ \A x \in StagedIn(r) : Proved(x)

\* (mutant) the proofs are tested only when the records are listed
MayFreezeUnproved(r, manifest) ==
    /\ \A x \in manifest : Indexed(x)
    /\ releases[r].status = "building"

\* (mutant) a record is released with any of its indexes
MayFreezePartly(r, manifest) ==
    /\ \A x \in manifest : embedded[x] # {}
    /\ releases[r].status = "building"
    /\ \A x \in StagedIn(r) : Proved(x)

\* The service wants every listed record in every index (embeddings are only
\* ever added, so it is the same to look when the release is frozen); the
\* repository wants a building release and a proof of every staged record.
MayFreeze(r, manifest) ==
    /\ \A x \in manifest : Indexed(x)
    /\ releases[r].status = "building"
    /\ \A x \in StagedIn(r) : Proved(x)

\* The repository's transaction locks the row of the release and reads whether
\* a staged record lacks its proof, which fails it.
CheckFreeze(c) ==
    /\ At(c, "freeze")
    /\ ~Certifying(call[c].release)
    /\ IF MayFreeze(call[c].release, call[c].ids)
       THEN Goto(c, [call[c] EXCEPT !.at = "certify"])
       ELSE Return(c)
    /\ UNCHANGED <<releases, records, embedded, shared>>

\* A later statement of it certifies the records staged by then; the manifest
\* names those that the service listed before.
CommitFreeze(c) ==
    /\ At(c, "certify")
    /\ Certify(call[c].release, call[c].ids)
    /\ Return(c)
    /\ UNCHANGED <<embedded, shared>>

-----------------------------------------------------------------------------
\* activate_release in its transaction: it locks its own row, then retires the
\* releases that were active in the snapshot its UPDATE began with.
Activate(c, r) ==
    /\ Free(c)
    /\ releases[r].status = "frozen"
    /\ \A d \in Client : ~(At(d, "activate") /\ call[d].release = r)
    /\ Goto(c, [NoCall EXCEPT !.at = "activate", !.release = r, !.retire = Active])
    /\ UNCHANGED <<releases, records, embedded, shared>>

\* (mutant) the release that was active is left active
CommitActivateOnly(c) ==
    /\ At(c, "activate")
    /\ releases' = [releases EXCEPT ![call[c].release].status = "active"]
    /\ Return(c)
    /\ UNCHANGED <<records, embedded, shared>>

CommitActivate(c) ==
    /\ At(c, "activate")
    /\ releases' = [r \in Release |->
           IF r = call[c].release THEN [releases[r] EXCEPT !.status = "active"]
           ELSE IF r \in call[c].retire THEN [releases[r] EXCEPT !.status = "retired"]
           ELSE releases[r]]
    /\ Return(c)
    /\ UNCHANGED <<records, embedded, shared>>

-----------------------------------------------------------------------------
Retrieve(c, r) ==
    /\ Free(c)
    /\ ActiveIs(r)
    /\ Goto(c, [NoCall EXCEPT !.at = "rank", !.release = r, !.next = 1])
    /\ UNCHANGED <<releases, records, embedded, shared>>

\* (mutant) the release of a record is not compared with the filter's
HitsOfAny(r, i) ==
    {x \in Present : records[x].status = "certified" /\ i \in embedded[x]}

\* What rank may return of index i for queries filtered to release r.
Hits(r, i) ==
    {x \in RecordsOf(r) : records[x].status = "certified" /\ i \in embedded[x]}

RankIndex(c) ==
    /\ At(c, "rank")
    /\ IF call[c].next > IndexCount THEN Return(c)
       ELSE Goto(c, [call[c] EXCEPT !.ids = @ \cup Hits(call[c].release, call[c].next),
                                    !.next = @ + 1])
    /\ UNCHANGED <<releases, records, embedded, shared>>

-----------------------------------------------------------------------------
\* A process dies, or loses the database, within a method; an open transaction
\* is rolled back.  A repository in memory dies with its process.
Abandon(c) ==
    /\ shared
    /\ call[c] # NoCall
    /\ Return(c)
    /\ UNCHANGED <<releases, records, embedded, shared>>

Begin(c) ==
    \/ SubmitCandidate(c)
    \/ \E x \in Record : IndexRecord(c, x)
    \/ \E r \in Release :
        \/ \E p \in Release \cup {Null} : CreateRelease(c, r, p)
        \/ InsertUnproved(c, r)
        \/ \E source \in Record : Promote(c, source, r)
        \/ Freeze(c, r)
        \/ Activate(c, r)
        \/ Retrieve(c, r)

Continue(c) ==
    \/ InsertRelease(c) \/ ListParent(c) \/ CarryRecord(c) \/ CopyEmbeddings(c)
    \/ InsertPromoted(c) \/ PutEmbedding(c)
    \/ CheckFreeze(c) \/ CommitFreeze(c) \/ CommitActivate(c)
    \/ RankIndex(c)

Next == \E c \in Client : Begin(c) \/ Continue(c) \/ Abandon(c)
Spec == Init /\ [][Next]_vars

-----------------------------------------------------------------------------
\* A certified record belongs to a release that was frozen and has an independent
\* promotion proof, whatever was staged from the listing of the release to the
\* test of its proofs: the certified-only rule of retrieval rests on it.  Only a
\* record inserted between that test and the certification, which needs a second
\* process on PostgreSQL, is certified untested.
CertifiedAreProved ==
    \A x \in Record : records[x].status = "certified" =>
        /\ Proved(x) \/ (shared /\ records[x].late)
        /\ \E r \in Release : records[x].release = r /\ releases[r].status \in Released

\* What a frozen manifest lists is certified in that release and can be ranked
\* in every index, for ever, however releases are built and activated around it.
ManifestServed ==
    \A r \in Release : releases[r].status \in Released =>
        \A x \in releases[r].manifest :
            records[x].status = "certified" /\ records[x].release = r /\ Indexed(x)

Rank == [absent |-> 0, building |-> 1, frozen |-> 2, active |-> 3, retired |-> 4]

\* A release only moves forward, one status at a time, and once frozen its
\* manifest never changes, even if two processes freeze or activate it at once.
ReleaseMovesForward ==
    [][\A r \in Release :
        /\ releases'[r].status # releases[r].status =>
               Rank[releases'[r].status] = Rank[releases[r].status] + 1
        /\ releases[r].status \in Released => releases'[r].manifest = releases[r].manifest]_vars

\* One process never has two active releases, which would make active_release
\* raise for every later promotion, creation and retrieval.
OneActiveAlone == shared \/ Cardinality(Active) <= 1

\* One process is only ever given examples that the manifest of the active
\* release lists.
AnswersListedAlone ==
    shared \/ \A c \in Client :
        At(c, "rank") => call[c].ids \subseteq releases[call[c].release].manifest

\* With one process, a released N+1 carries a copy of every record its parent
\* listed.
CumulativeAlone ==
    shared \/ \A r, p \in Release :
        releases[r].status \in Released /\ releases[r].parent = p =>
            \A x \in releases[p].manifest :
                \E y \in releases[r].manifest : records[y].parent = x

\* There is at most one active release: what active_release of both
\* repositories takes for granted.  Two activations at once in PostgreSQL
\* break it.
OneActiveRelease == Cardinality(Active) <= 1

\* What retrieval can draw on does not change while a release is active, "the
\* one immutable active release".  A promotion or an indexing that straddles
\* the freeze breaks it.
ActiveReleaseImmutable ==
    [][\A r \in Active : \A i \in Index : Hits(r, i)' = Hits(r, i)]_vars

\* "N+1 is cumulative": the release that becomes active holds a certified copy
\* of every certified record of its parent.  A creation cut short, or frozen
\* before it has copied, breaks it.
CumulativeRelease ==
    \A r \in Active : \A x \in Record :
        records[x].status = "certified" /\ records[x].release = releases[r].parent =>
            \E y \in RecordsOf(r) : records[y].status = "certified" /\ records[y].parent = x
=============================================================================

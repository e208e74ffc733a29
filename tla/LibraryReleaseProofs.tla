------------------------- MODULE LibraryReleaseProofs -------------------------
(***************************************************************************)
(* What is proved of LibraryRelease, for any clients, releases, records    *)
(* and indexes, in either deployment: a certified record has its proof and *)
(* a frozen release, unless a second process inserted it between the two   *)
(* statements that freeze; a manifest's records are certified and indexed  *)
(* in every index; and a release only moves forward.                       *)
(*                                                                         *)
(* A method acts on what its earlier calls read.  Rests(c) says of each    *)
(* step what must still be true of that reading when the step is taken;    *)
(* the proof is that no other client can undo it.  With one process, which *)
(* runs one method at a time, what was read is simply still so (Current),  *)
(* none is inserted while its release is certified (NoneLate), a frozen    *)
(* release gets no more records (Sealed), and a release copies all that    *)
(* its parent has listed (Inherits): every certified record is proved,     *)
(* there is one active release, it answers with what it lists, and         *)
(* releases are cumulative.                                                *)
(***************************************************************************)
EXTENDS LibraryRelease, FiniteSetTheorems, TLAPS

\* What a client that holds the lock on the row of its release counts on.
Held(c) ==
    LET k == call[c] IN
    /\ k.at = "activate" => releases[k.release].status = "frozen"
    /\ k.at = "certify" =>
           /\ releases[k.release].status = "building"
           /\ \A x \in StagedIn(k.release) : Proved(x) \/ records[x].late

Rests(c) ==
    LET k == call[c] IN
    /\ k.at \notin {"idle", "put"} => k.release \in Release
    /\ k.at = "list" => k.parent \in Release
    /\ k.at \in {"copy", "promote", "put"} => k.record \in Record
    /\ k.at = "copy" => k.record \in Present /\ records[k.record].parent \in Record
    /\ k.at = "put" => k.next \in Index
    /\ k.at = "rank" => k.next \in 1..(IndexCount + 1)
    /\ k.at \in {"freeze", "certify"} => k.ids \subseteq RecordsOf(k.release)
    /\ k.at = "certify" => \A x \in k.ids : Indexed(x)
    /\ k.at = "activate" => \A p \in k.retire : releases[p].status \in {"active", "retired"}
    /\ Held(c)

\* The row lock of activate_release and of freeze_release.
Locking == {"activate", "certify"}
OneHolder ==
    \A c, d \in Client :
        call[c].at \in Locking /\ call[c].at = call[d].at /\ call[c].release = call[d].release
            => c = d

\* Only staged and certified records belong to a release.
Belong ==
    \A x \in Record : records[x].release # Null => records[x].status \in {"staged", "certified"}

\* The test of freeze_release has passed every certified record it could see.
CertifiedAreTested ==
    \A x \in Record : records[x].status = "certified" =>
        /\ Proved(x) \/ records[x].late
        /\ \E r \in Release : records[x].release = r /\ releases[r].status \in Released

Calls == OneHolder /\ \A c \in Client : Rests(c)
Sound == Belong /\ CertifiedAreTested /\ ManifestServed
IInv == TypeOK /\ Calls /\ Sound

-----------------------------------------------------------------------------
(* Rows and calls stay well typed when one of their fields is set.         *)

\* The call of an idle client is well typed.
LEMMA NoCallTyped == NoCall \in Call
  BY IndexAssumption DEF NoCall, Call

\* So is a call with any of its fields replaced by a value of its type.
LEMMA CallSet ==
  ASSUME NEW k \in Call
  PROVE  /\ \A v \in {"idle", "insert", "list", "carry", "copy", "promote", "put",
                      "freeze", "certify", "activate", "rank"} : [k EXCEPT !.at = v] \in Call
         /\ \A v \in Release : [k EXCEPT !.release = v] \in Call
         /\ \A v \in Release \cup {Null} : [k EXCEPT !.parent = v] \in Call
         /\ \A v \in Record \cup {Null} : [k EXCEPT !.record = v] \in Call
         /\ \A v \in SUBSET Record : [k EXCEPT !.ids = v] \in Call
         /\ \A v \in SUBSET Release : [k EXCEPT !.retire = v] \in Call
         /\ \A v \in 0..(IndexCount + 1) : [k EXCEPT !.next = v] \in Call
  BY DEF Call

\* A release's records are records.
LEMMA RecordsOfAre == \A r : RecordsOf(r) \subseteq Record
  BY DEF RecordsOf, Present

\* A client that goes on changes its own call only.
LEMMA GotoOwn ==
  ASSUME TypeOK, NEW c \in Client, NEW k \in Call, Goto(c, k)
  PROVE  /\ call' \in [Client -> Call]
         /\ call'[c] = k
         /\ \A d \in Client : d # c => call'[d] = call[d]
  BY DEF TypeOK, Goto

\* So does one that returns.
LEMMA ReturnOwn ==
  ASSUME TypeOK, NEW c \in Client, Return(c)
  PROVE  /\ call' \in [Client -> Call]
         /\ call'[c] = NoCall
         /\ \A d \in Client : d # c => call'[d] = call[d]
  BY GotoOwn, NoCallTyped DEF Return

\* An inserted record takes a fresh id.
LEMMA InsertTyped ==
  ASSUME TypeOK, NEW x \in Record, NEW row \in RecordRow, Insert(x, row)
  PROVE  /\ records' \in [Record -> RecordRow]
         /\ records[x].status = "absent"
         /\ records'[x] = row
         /\ \A y \in Record : y # x => records'[y] = records[y]
  BY DEF TypeOK, Insert, IsFresh, Present

\* The row of a staged record, which is late only without a proof and while its
\* release is being certified.
LEMMA StagedRowIs ==
  ASSUME NEW r \in Release, NEW parent \in Record \cup {Null}, NEW proof \in BOOLEAN,
         NEW row, row = StagedRow(r, parent, proof)
  PROVE  /\ row \in RecordRow
         /\ row.status = "staged" /\ row.release = r /\ row.parent = parent
         /\ row.proof = proof /\ row.late = (~proof /\ Certifying(r))
<1>1. (~proof /\ Certifying(r)) \in BOOLEAN OBVIOUS
<1> QED BY <1>1 DEF StagedRow, RecordRow

\* The same of a row whose proof is given, or is not.
LEMMA ProvedRowIs ==
  ASSUME NEW r \in Release, NEW parent \in Record \cup {Null},
         NEW row, row = StagedRow(r, parent, TRUE)
  PROVE  row \in RecordRow /\ row.status = "staged" /\ row.release = r /\ row.proof /\ ~row.late
<1>1. (~TRUE /\ Certifying(r)) \in BOOLEAN OBVIOUS
<1> QED BY <1>1 DEF StagedRow, RecordRow

LEMMA UnprovedRowIs ==
  ASSUME NEW r \in Release, NEW row, row = StagedRow(r, Null, FALSE)
  PROVE  /\ row \in RecordRow /\ row.status = "staged" /\ row.release = r
         /\ row.late = Certifying(r)
<1>1. (~FALSE /\ Certifying(r)) = Certifying(r) /\ Certifying(r) \in BOOLEAN BY DEF Certifying
<1> QED BY <1>1 DEF StagedRow, RecordRow

-----------------------------------------------------------------------------
(* Each action that starts or goes on with a method leaves its client in   *)
(* the place, and with the readings, listed here.                          *)

\* create_release has read the active release.
LEMMA CreateReads ==
  ASSUME TypeOK, NEW c \in Client, NEW r \in Release, NEW p \in Release \cup {Null},
         CreateRelease(c, r, p)
  PROVE  /\ call' \in [Client -> Call]
         /\ call'[c].at = "insert" /\ call'[c].release = r /\ call'[c].parent = p
         /\ \A d \in Client : d # c => call'[d] = call[d]
<1> DEFINE k1 == [NoCall EXCEPT !.at = "insert"]
           k2 == [k1 EXCEPT !.release = r]
           k3 == [k2 EXCEPT !.parent = p]
<1>1. k1 \in Call BY NoCallTyped, CallSet
<1>2. k2 \in Call BY <1>1, CallSet
<1>3. k3 \in Call BY <1>2, CallSet
<1>4. k3.at = "insert" /\ k3.release = r /\ k3.parent = p BY NoCallTyped DEF Call
<1>5. Goto(c, k3) BY DEF CreateRelease
<1> HIDE DEF k1, k2, k3
<1> QED BY <1>3, <1>4, <1>5, GotoOwn

\* promote_for_next_release has read its source and its release.
LEMMA PromoteReads ==
  ASSUME TypeOK, NEW c \in Client, NEW x \in Record, NEW r \in Release, Promote(c, x, r)
  PROVE  /\ call' \in [Client -> Call]
         /\ call'[c].at = "promote" /\ call'[c].release = r /\ call'[c].record = x
         /\ \A d \in Client : d # c => call'[d] = call[d]
<1> DEFINE k1 == [NoCall EXCEPT !.at = "promote"]
           k2 == [k1 EXCEPT !.release = r]
           k3 == [k2 EXCEPT !.record = x]
<1>1. k1 \in Call BY NoCallTyped, CallSet
<1>2. k2 \in Call BY <1>1, CallSet
<1>3. k3 \in Call BY <1>2, CallSet
<1>4. k3.at = "promote" /\ k3.release = r /\ k3.record = x BY NoCallTyped DEF Call
<1>5. Goto(c, k3) BY DEF Promote
<1> HIDE DEF k1, k2, k3
<1> QED BY <1>3, <1>4, <1>5, GotoOwn

\* index_record starts at the first index.
LEMMA IndexReads ==
  ASSUME TypeOK, NEW c \in Client, NEW x \in Record, IndexRecord(c, x)
  PROVE  /\ call' \in [Client -> Call]
         /\ call'[c].at = "put" /\ call'[c].record = x /\ call'[c].next = 1
         /\ \A d \in Client : d # c => call'[d] = call[d]
<1> DEFINE k1 == [NoCall EXCEPT !.at = "put"]
           k2 == [k1 EXCEPT !.record = x]
           k3 == [k2 EXCEPT !.next = 1]
<1>1. k1 \in Call BY NoCallTyped, CallSet
<1>2. k2 \in Call BY <1>1, CallSet
<1>0. 1 \in 0..(IndexCount + 1) BY IndexAssumption
<1>3. k3 \in Call BY <1>0, <1>2, CallSet
<1>4. k3.at = "put" /\ k3.record = x /\ k3.next = 1 BY NoCallTyped DEF Call
<1>5. Goto(c, k3) BY DEF IndexRecord
<1> HIDE DEF k1, k2, k3
<1> QED BY <1>3, <1>4, <1>5, GotoOwn

\* freeze_release has listed the records of the release.
LEMMA FreezeReads ==
  ASSUME TypeOK, NEW c \in Client, NEW r \in Release, Freeze(c, r)
  PROVE  /\ call' \in [Client -> Call]
         /\ call'[c].at = "freeze" /\ call'[c].release = r /\ call'[c].ids = RecordsOf(r)
         /\ \A d \in Client : d # c => call'[d] = call[d]
<1> DEFINE k1 == [NoCall EXCEPT !.at = "freeze"]
           k2 == [k1 EXCEPT !.release = r]
           k3 == [k2 EXCEPT !.ids = RecordsOf(r)]
<1>1. k1 \in Call BY NoCallTyped, CallSet
<1>2. k2 \in Call BY <1>1, CallSet
<1>3. RecordsOf(r) \in SUBSET Record BY DEF RecordsOf, Present
<1>4. k3 \in Call BY <1>2, <1>3, CallSet
<1>5. k3.at = "freeze" /\ k3.release = r /\ k3.ids = RecordsOf(r) BY NoCallTyped DEF Call
<1>6. Goto(c, k3) BY DEF Freeze
<1> HIDE DEF k1, k2, k3
<1> QED BY <1>4, <1>5, <1>6, GotoOwn

\* freeze_release has locked its release and found it fit to be certified.
LEMMA CheckFreezeReads ==
  ASSUME TypeOK, NEW c \in Client, CheckFreeze(c)
  PROVE  /\ call' \in [Client -> Call]
         /\ \/ call'[c] = NoCall
            \/ /\ MayFreeze(call[c].release, call[c].ids)
               /\ call'[c].at = "certify" /\ call'[c].release = call[c].release
               /\ call'[c].ids = call[c].ids
         /\ \A d \in Client : d # c => call'[d] = call[d]
<1>1. CASE Return(c) BY <1>1, ReturnOwn
<1>2. CASE ~Return(c)
  <2> DEFINE k == [call[c] EXCEPT !.at = "certify"]
  <2>1. Goto(c, k) /\ MayFreeze(call[c].release, call[c].ids) BY <1>2 DEF CheckFreeze
  <2>2. call[c] \in Call BY DEF TypeOK
  <2>3. k \in Call BY <2>2, CallSet
  <2>4. k.at = "certify" /\ k.release = call[c].release /\ k.ids = call[c].ids
    BY <2>2 DEF Call
  <2> HIDE DEF k
  <2> QED BY <2>1, <2>3, <2>4, GotoOwn
<1> QED BY <1>1, <1>2

\* activate_release has locked its release and seen which are active.
LEMMA ActivateReads ==
  ASSUME TypeOK, NEW c \in Client, NEW r \in Release, Activate(c, r)
  PROVE  /\ call' \in [Client -> Call]
         /\ call'[c].at = "activate" /\ call'[c].release = r /\ call'[c].retire = Active
         /\ \A d \in Client : d # c => call'[d] = call[d]
<1> DEFINE k1 == [NoCall EXCEPT !.at = "activate"]
           k2 == [k1 EXCEPT !.release = r]
           k3 == [k2 EXCEPT !.retire = Active]
<1>1. k1 \in Call BY NoCallTyped, CallSet
<1>2. k2 \in Call BY <1>1, CallSet
<1>3. Active \in SUBSET Release BY DEF Active
<1>4. k3 \in Call BY <1>2, <1>3, CallSet
<1>5. k3.at = "activate" /\ k3.release = r /\ k3.retire = Active BY NoCallTyped DEF Call
<1>6. Goto(c, k3) BY DEF Activate
<1> HIDE DEF k1, k2, k3
<1> QED BY <1>4, <1>5, <1>6, GotoOwn

\* retrieve starts at the first index.
LEMMA RetrieveReads ==
  ASSUME TypeOK, NEW c \in Client, NEW r \in Release, Retrieve(c, r)
  PROVE  /\ call' \in [Client -> Call]
         /\ call'[c].at = "rank" /\ call'[c].release = r /\ call'[c].next = 1
         /\ call'[c].ids = {}
         /\ \A d \in Client : d # c => call'[d] = call[d]
<1> DEFINE k1 == [NoCall EXCEPT !.at = "rank"]
           k2 == [k1 EXCEPT !.release = r]
           k3 == [k2 EXCEPT !.next = 1]
<1>1. k1 \in Call BY NoCallTyped, CallSet
<1>2. k2 \in Call BY <1>1, CallSet
<1>0. 1 \in 0..(IndexCount + 1) BY IndexAssumption
<1>3. k3 \in Call BY <1>0, <1>2, CallSet
<1>4. k3.at = "rank" /\ k3.release = r /\ k3.next = 1 /\ k3.ids = {}
  BY NoCallTyped DEF Call, NoCall
<1>5. Goto(c, k3) BY DEF Retrieve
<1> HIDE DEF k1, k2, k3
<1> QED BY <1>3, <1>4, <1>5, GotoOwn

\* create_release has inserted its release, and goes on only with a parent.
LEMMA InsertReleaseReads ==
  ASSUME TypeOK, NEW c \in Client, Rests(c), InsertRelease(c)
  PROVE  /\ call' \in [Client -> Call]
         /\ \/ call'[c] = NoCall /\ (UNCHANGED releases \/ call[c].parent = Null)
            \/ /\ call'[c].at = "list"
               /\ call'[c].release = call[c].release
               /\ call'[c].parent \in Release /\ call'[c].parent = call[c].parent
         /\ \A d \in Client : d # c => call'[d] = call[d]
<1>1. CASE Return(c) /\ (UNCHANGED releases \/ call[c].parent = Null) BY <1>1, ReturnOwn
<1>2. CASE ~(Return(c) /\ (UNCHANGED releases \/ call[c].parent = Null))
  <2> DEFINE k == [call[c] EXCEPT !.at = "list"]
  <2>1. Goto(c, k) /\ call[c].parent # Null BY <1>2 DEF InsertRelease
  <2>2. call[c] \in Call BY DEF TypeOK
  <2>3. k \in Call BY <2>2, CallSet
  <2>4. k.at = "list" /\ k.release = call[c].release /\ k.parent = call[c].parent
    BY <2>2 DEF Call
  <2>5. call[c].parent \in Release BY <2>1, <2>2 DEF Call
  <2> HIDE DEF k
  <2> QED BY <2>1, <2>3, <2>4, <2>5, GotoOwn
<1> QED BY <1>1, <1>2

\* create_release has listed the records of the parent.
LEMMA ListReads ==
  ASSUME TypeOK, NEW c \in Client, Rests(c), ListParent(c)
  PROVE  /\ call' \in [Client -> Call]
         /\ \/ call'[c] = NoCall /\ RecordsOf(call[c].parent) = {}
            \/ /\ call'[c].at = "carry" /\ call'[c].release = call[c].release
               /\ call'[c].parent = call[c].parent
               /\ call'[c].ids = RecordsOf(call[c].parent)
         /\ \A d \in Client : d # c => call'[d] = call[d]
<1>1. CASE Return(c) /\ RecordsOf(call[c].parent) = {} BY <1>1, ReturnOwn
<1>2. CASE ~(Return(c) /\ RecordsOf(call[c].parent) = {})
  <2> DEFINE k1 == [call[c] EXCEPT !.at = "carry"]
             k2 == [k1 EXCEPT !.ids = RecordsOf(call[c].parent)]
  <2>1. Goto(c, k2) BY <1>2 DEF ListParent
  <2>2. call[c] \in Call BY DEF TypeOK
  <2>3. k1 \in Call BY <2>2, CallSet
  <2>4. RecordsOf(call[c].parent) \in SUBSET Record BY DEF RecordsOf, Present
  <2>5. k2 \in Call BY <2>3, <2>4, CallSet
  <2>6. /\ k2.at = "carry" /\ k2.release = call[c].release /\ k2.parent = call[c].parent
        /\ k2.ids = RecordsOf(call[c].parent)
    BY <2>2 DEF Call
  <2> HIDE DEF k1, k2
  <2> QED BY <2>1, <2>5, <2>6, GotoOwn
<1> QED BY <1>1, <1>2

\* create_release has inserted a copy of one of the records it listed.
LEMMA CarryReads ==
  ASSUME TypeOK, NEW c \in Client, Rests(c), CarryRecord(c)
  PROVE  \E source \in call[c].ids \cap Record, x \in Record :
           /\ Insert(x, StagedRow(call[c].release, source, Proved(source)))
           /\ call' \in [Client -> Call]
           /\ call'[c].at = "copy"
           /\ call'[c].release = call[c].release /\ call'[c].record = x
           /\ call'[c].parent = call[c].parent /\ call'[c].ids = call[c].ids \ {source}
           /\ \A d \in Client : d # c => call'[d] = call[d]
<1>1. call[c] \in Call BY DEF TypeOK
<1>2. call[c].ids \subseteq Record BY <1>1 DEF Call
<1>3. PICK source \in call[c].ids, x \in Record :
        /\ Insert(x, StagedRow(call[c].release, source, Proved(source)))
        /\ Goto(c, [call[c] EXCEPT !.at = "copy", !.record = x, !.ids = @ \ {source}])
  BY DEF CarryRecord
<1>4. source \in Record BY <1>2
<1> DEFINE k1 == [call[c] EXCEPT !.at = "copy"]
           k2 == [k1 EXCEPT !.record = x]
           k3 == [k2 EXCEPT !.ids = call[c].ids \ {source}]
<1>5. k1 \in Call BY <1>1, CallSet
<1>6. k2 \in Call BY <1>5, CallSet
<1>7. call[c].ids \ {source} \in SUBSET Record BY <1>2
<1>8. k3 \in Call BY <1>6, <1>7, CallSet
<1>9. /\ k3.at = "copy" /\ k3.release = call[c].release /\ k3.record = x
      /\ k3.parent = call[c].parent /\ k3.ids = call[c].ids \ {source}
  BY <1>1 DEF Call
<1>10. Goto(c, k3) BY <1>1, <1>3 DEF Goto, Call
<1> HIDE DEF k1, k2, k3
<1>11. /\ call' \in [Client -> Call]
       /\ call'[c] = k3
       /\ \A d \in Client : d # c => call'[d] = call[d]
  BY <1>8, <1>10, GotoOwn
<1> QED BY <1>4, <1>3, <1>9, <1>11

\* create_release has copied the embeddings of a copy, and may have more to do.
LEMMA CopyReads ==
  ASSUME TypeOK, NEW c \in Client, Rests(c), CopyEmbeddings(c)
  PROVE  /\ call' \in [Client -> Call]
         /\ \/ /\ call'[c] = NoCall
               /\ \/ call[c].ids = {}
                  \/ LET x == call[c].record IN embedded[x] \cap embedded[records[x].parent] # {}
            \/ /\ call'[c].at = "carry" /\ call'[c].release = call[c].release
               /\ call'[c].parent = call[c].parent
               /\ call'[c].ids = call[c].ids
         /\ \A d \in Client : d # c => call'[d] = call[d]
<1> DEFINE Ends == \/ call[c].ids = {}
                   \/ LET x == call[c].record IN embedded[x] \cap embedded[records[x].parent] # {}
<1>1. CASE Return(c) /\ Ends BY <1>1, ReturnOwn
<1>2. CASE ~(Return(c) /\ Ends)
  <2> DEFINE k1 == [call[c] EXCEPT !.at = "carry"]
             k2 == [k1 EXCEPT !.record = Null]
  <2>1. Goto(c, k2) BY <1>2 DEF CopyEmbeddings
  <2>2. call[c] \in Call BY DEF TypeOK
  <2>3. k1 \in Call BY <2>2, CallSet
  <2>4. k2 \in Call BY <2>3, CallSet
  <2>5. /\ k2.at = "carry" /\ k2.release = call[c].release /\ k2.parent = call[c].parent
        /\ k2.ids = call[c].ids
    BY <2>2 DEF Call
  <2> HIDE DEF k1, k2
  <2> QED BY <2>1, <2>4, <2>5, GotoOwn
<1> QED BY <1>1, <1>2

\* index_record goes on to an index that exists.
LEMMA PutReads ==
  ASSUME TypeOK, NEW c \in Client, Rests(c), PutEmbedding(c)
  PROVE  /\ call' \in [Client -> Call]
         /\ \/ call'[c] = NoCall
            \/ /\ call'[c].at = "put" /\ call'[c].record = call[c].record
               /\ call'[c].next \in Index
         /\ \A d \in Client : d # c => call'[d] = call[d]
<1>1. CASE Return(c) BY <1>1, ReturnOwn
<1>2. CASE ~Return(c)
  <2> DEFINE k == [call[c] EXCEPT !.next = call[c].next + 1]
  <2>1. At(c, "put") /\ Goto(c, k) /\ call[c].next # IndexCount BY <1>2 DEF PutEmbedding
  <2>2. call[c] \in Call BY DEF TypeOK
  <2>3. call[c].next \in Index BY <2>1 DEF Rests, At
  <2>4. call[c].next + 1 \in Index /\ call[c].next + 1 \in 0..(IndexCount + 1)
    BY <2>1, <2>3, IndexAssumption DEF Index
  <2>5. k \in Call BY <2>2, <2>4, CallSet
  <2>6. k.at = "put" /\ k.record = call[c].record /\ k.next = call[c].next + 1
    BY <2>1, <2>2 DEF Call, At
  <2> HIDE DEF k
  <2> QED BY <2>1, <2>4, <2>5, <2>6, GotoOwn
<1> QED BY <1>1, <1>2

\* retrieve goes on until it has ranked every index.
LEMMA RankReads ==
  ASSUME TypeOK, NEW c \in Client, Rests(c), RankIndex(c)
  PROVE  /\ call' \in [Client -> Call]
         /\ \/ call'[c] = NoCall
            \/ /\ call'[c].at = "rank" /\ call'[c].release = call[c].release
               /\ call'[c].next \in 1..(IndexCount + 1)
               /\ call'[c].ids = call[c].ids \cup Hits(call[c].release, call[c].next)
         /\ \A d \in Client : d # c => call'[d] = call[d]
<1>1. CASE Return(c) BY <1>1, ReturnOwn
<1>2. CASE ~Return(c)
  <2>1. call[c] \in Call BY DEF TypeOK
  <2> DEFINE hits == call[c].ids \cup Hits(call[c].release, call[c].next)
             k1 == [call[c] EXCEPT !.ids = hits]
             k2 == [k1 EXCEPT !.next = call[c].next + 1]
  <2>2. At(c, "rank") /\ call[c].next <= IndexCount /\ Goto(c, k2)
    BY <1>2, <2>1, IndexAssumption DEF RankIndex, Call
  <2>3. hits \in SUBSET Record BY <2>1 DEF Call, Hits, RecordsOf, Present
  <2> HIDE DEF hits
  <2>4. k1 \in Call BY <2>1, <2>3, CallSet
  <2>5. call[c].next \in 1..(IndexCount + 1) BY <2>2 DEF Rests, At
  <2>6. call[c].next + 1 \in 1..(IndexCount + 1) /\ call[c].next + 1 \in 0..(IndexCount + 1)
    BY <2>2, <2>5, IndexAssumption
  <2>7. k2 \in Call BY <2>4, <2>6, CallSet
  <2>8. /\ k2.at = "rank" /\ k2.release = call[c].release /\ k2.next = call[c].next + 1
        /\ k2.ids = hits
    BY <2>1, <2>2 DEF Call, At
  <2>9. hits = call[c].ids \cup Hits(call[c].release, call[c].next) BY DEF hits
  <2> HIDE DEF k1, k2
  <2> QED BY <2>2, <2>6, <2>7, <2>8, <2>9, GotoOwn
<1> QED BY <1>1, <1>2
-----------------------------------------------------------------------------
(* Steps of the other clients leave a client's readings true.              *)

\* Records keep what a reading says of them, and releases go forward.
Grows ==
    /\ \A x \in Present : /\ records'[x].status # "absent"
                         /\ records'[x].release = records[x].release
                         /\ records'[x].parent = records[x].parent
    /\ \A r \in Release : releases[r].status \in {"active", "retired"} =>
           releases'[r].status \in {"active", "retired"}

\* What a client has read survives the steps in which it does nothing.
LEMMA OthersRest ==
  ASSUME TypeOK, Grows, NEW d \in Client, call'[d] = call[d], Rests(d),
         \A x \in Record : Indexed(x) => Indexed(x)',
         Held(d)'
  PROVE  Rests(d)'
<1> DEFINE k == call[d]
<1>1. k \in Call /\ k' = k BY DEF TypeOK
<1>2. \A r : RecordsOf(r) \subseteq RecordsOf(r)' BY DEF Grows, RecordsOf, Present
<1>3. k.at = "copy" => k.record \in Present' /\ records'[k.record].parent \in Record
  BY DEF Rests, Grows, Present
<1>4. k.at = "activate" => \A p \in k.retire : releases'[p].status \in {"active", "retired"}
  BY <1>1 DEF Rests, Grows, Call
<1>5. k.at \in {"freeze", "certify"} => k.ids \subseteq RecordsOf(k.release)' BY <1>2 DEF Rests
<1>6. k.at = "certify" => \A x \in k.ids : Indexed(x)' BY <1>1 DEF Rests, Call
<1> QED BY <1>1, <1>3, <1>4, <1>5, <1>6 DEF Rests, Index

\* A client that has nothing in hand rests on nothing.
LEMMA IdleRests ==
  ASSUME NEW c \in Client, call'[c] = NoCall
  PROVE  Rests(c)'
  BY DEF Rests, Held, NoCall

\* All calls are in order after a step of client c, if the tables only grew,
\* what the others hold is as they left it, c does not take a lock of theirs,
\* and what c read is true.
LEMMA CallsStep ==
  ASSUME TypeOK, Calls, Grows, NEW c \in Client,
         \A d \in Client : d # c => call'[d] = call[d],
         \A x \in Record : Indexed(x) => Indexed(x)',
         \A d \in Client : d # c => Held(d)',
         \A d \in Client : d # c /\ call[d].at \in Locking =>
             ~(call'[c].at = call[d].at /\ call'[c].release = call[d].release),
         Rests(c)'
  PROVE  Calls'
<1>1. ASSUME NEW d \in Client PROVE Rests(d)'
  <2>1. CASE d = c BY <2>1
  <2>2. CASE d # c BY <2>2, OthersRest DEF Calls
  <2> QED BY <2>1, <2>2
<1>2. OneHolder' BY DEF Calls, OneHolder
<1> QED BY <1>1, <1>2 DEF Calls

\* A step that leaves both tables alone.
LEMMA ReadStep ==
  ASSUME IInv, NEW c \in Client, UNCHANGED <<releases, records, shared>>,
         embedded' \in [Record -> SUBSET Index],
         \A x \in Record : embedded[x] \subseteq embedded'[x],
         call' \in [Client -> Call],
         \A d \in Client : d # c => call'[d] = call[d],
         \A d \in Client : d # c /\ call[d].at \in Locking =>
             ~(call'[c].at = call[d].at /\ call'[c].release = call[d].release),
         Rests(c)'
  PROVE  IInv'
<1>1. TypeOK' BY DEF IInv, TypeOK
<1>2. Grows BY DEF Grows, Present
<1>3. \A x \in Record : Indexed(x) => Indexed(x)' BY DEF Indexed, Index
<1>4. Calls'
  <2>1. \A d \in Client : d # c => Held(d)'
    BY DEF IInv, Calls, Rests, Held, StagedIn, RecordsOf, Present, Proved
  <2> QED BY <1>2, <1>3, <2>1, CallsStep DEF IInv
<1>5. Sound'
  <2>1. Belong' BY DEF IInv, Sound, Belong
  <2>2. CertifiedAreTested' BY DEF IInv, Sound, CertifiedAreTested, Proved
  <2>3. \A r \in Release : releases[r].manifest \subseteq Record
    BY DEF IInv, TypeOK, ReleaseRow
  <2>4. ManifestServed' BY <1>3, <2>3 DEF IInv, Sound, ManifestServed
  <2> QED BY <2>1, <2>2, <2>4 DEF Sound
<1> QED BY <1>1, <1>4, <1>5 DEF IInv

\* A step that inserts a candidate, or a staged record of some release, late if
\* it has no proof and the release is being certified.
LEMMA InsertStep ==
  ASSUME IInv, NEW c \in Client, NEW x \in Record, NEW row \in RecordRow, Insert(x, row),
         row.status \in {"candidate", "staged"},
         row.release # Null => row.status = "staged",
         row.status = "staged" /\ Certifying(row.release) => row.proof \/ row.late,
         UNCHANGED <<releases, embedded, shared>>,
         call' \in [Client -> Call],
         \A d \in Client : d # c => call'[d] = call[d],
         call'[c].at \notin Locking,
         Rests(c)'
  PROVE  IInv'
<1>1. /\ records' \in [Record -> RecordRow]
      /\ records[x].status = "absent"
      /\ records'[x] = row
      /\ \A y \in Record : y # x => records'[y] = records[y]
  BY InsertTyped DEF IInv
<1>2. TypeOK' BY <1>1 DEF IInv, TypeOK
<1>3. Grows BY <1>1 DEF Grows, Present
<1>4. Calls'
  <2>1. ASSUME NEW d \in Client, d # c PROVE Held(d)'
    <3>1. Held(d) /\ call'[d] = call[d] BY <2>1 DEF IInv, Calls, Rests
    <3>2. ASSUME call[d].at = "certify", NEW y \in StagedIn(call[d].release)'
          PROVE  records'[y].proof \/ records'[y].late
      <4>1. CASE y = x
        <5>1. row.status = "staged" /\ row.release = call[d].release
          BY <1>1, <3>1, <3>2, <4>1 DEF StagedIn, RecordsOf, Present
        <5>2. Certifying(row.release) BY <3>2, <5>1 DEF Certifying, At
        <5> QED BY <1>1, <4>1, <5>1, <5>2
      <4>2. CASE y # x
        BY <1>1, <3>1, <3>2, <4>2 DEF Held, StagedIn, RecordsOf, Present, Proved
      <4> QED BY <4>1, <4>2
    <3> QED BY <3>1, <3>2 DEF Held, Proved
  <2>2. \A y \in Record : Indexed(y) => Indexed(y)' BY DEF Indexed, Index
  <2> QED BY <1>3, <2>1, <2>2, CallsStep DEF IInv
<1>5. Sound'
  <2>1. Belong' BY <1>1 DEF IInv, Sound, Belong
  <2>2. CertifiedAreTested' BY <1>1 DEF IInv, Sound, CertifiedAreTested, Proved
  <2>3. \A r \in Release : releases[r].manifest \subseteq Record
    BY DEF IInv, TypeOK, ReleaseRow
  <2>4. ManifestServed' BY <1>1, <2>3 DEF IInv, Sound, ManifestServed, Indexed, Index
  <2> QED BY <2>1, <2>2, <2>4 DEF Sound
<1> QED BY <1>2, <1>4, <1>5 DEF IInv

-----------------------------------------------------------------------------
(* The invariant, action by action.                                        *)

\* create_release has read the active release; no table changed.
LEMMA CreateReleaseStep ==
  ASSUME IInv, NEW c \in Client, NEW r \in Release, NEW p \in Release \cup {Null},
         CreateRelease(c, r, p)
  PROVE  IInv'
<1>1. Rests(c)' BY CreateReads DEF IInv, Rests, Held
<1>2. embedded' \in [Record -> SUBSET Index] /\ UNCHANGED <<releases, records, embedded, shared>>
  BY DEF CreateRelease, IInv, TypeOK
<1> QED BY <1>1, <1>2, CreateReads, ReadStep DEF IInv, Locking

\* A new row of library_releases is building, so nothing is certified by it.
LEMMA InsertReleaseStep ==
  ASSUME IInv, NEW c \in Client, InsertRelease(c)
  PROVE  IInv'
<1> DEFINE r == call[c].release
<1>1. r \in Release /\ Rests(c) /\ call[c] \in Call
  BY DEF IInv, TypeOK, Calls, Rests, InsertRelease, At
<1>2. /\ call' \in [Client -> Call]
      /\ \/ call'[c] = NoCall
         \/ /\ call'[c].at = "list" /\ call'[c].release = r /\ call'[c].parent \in Release
      /\ \A d \in Client : d # c => call'[d] = call[d]
  BY <1>1, InsertReleaseReads DEF IInv
<1>3. Rests(c)' BY <1>1, <1>2, IdleRests DEF Rests, Held
<1>4. call'[c].at \notin Locking BY <1>2 DEF NoCall, Locking
<1>5. UNCHANGED <<records, embedded, shared>> BY DEF InsertRelease
<1>6. CASE UNCHANGED releases
  BY <1>2, <1>3, <1>4, <1>5, <1>6, ReadStep DEF IInv, TypeOK
<1>7. CASE releases[r].status = "absent" /\ releases' = [releases EXCEPT ![r] =
                 [status |-> "building", parent |-> call[c].parent, manifest |-> {}]]
  <2>1. [status |-> "building", parent |-> call[c].parent, manifest |-> {}] \in ReleaseRow
    BY <1>1 DEF ReleaseRow, Call
  <2>2. TypeOK' BY <1>2, <1>5, <1>7, <2>1 DEF IInv, TypeOK
  <2>3. \A s \in Release : s # r => releases'[s] = releases[s]
    BY <1>7 DEF IInv, TypeOK
  <2>4. releases'[r].status = "building" BY <1>1, <1>7 DEF IInv, TypeOK
  <2>5. Grows BY <1>5, <1>7, <2>3 DEF Grows, Present
  <2>6. \A d \in Client : d # c => Held(d)'
    BY <1>2, <1>5, <1>7, <2>3 DEF IInv, Calls, Rests, Held, StagedIn, RecordsOf, Present, Proved
  <2>7. Calls'
    <3>1. \A x \in Record : Indexed(x) => Indexed(x)' BY <1>5 DEF Indexed, Index
    <3> QED BY <1>2, <1>3, <1>4, <2>5, <2>6, <3>1, CallsStep DEF IInv
  <2>8. Belong' BY <1>5 DEF IInv, Sound, Belong
  <2>9. CertifiedAreTested'
    BY <1>5, <1>7, <2>3 DEF IInv, Sound, CertifiedAreTested, Proved, Released
  <2>10. ManifestServed'
    BY <1>5, <2>3, <2>4 DEF IInv, Sound, ManifestServed, Indexed, Released, Index
  <2> QED BY <2>2, <2>7, <2>8, <2>9, <2>10 DEF IInv, Sound
<1> QED BY <1>6, <1>7 DEF InsertRelease

\* Listing the parent's records changes no table.
LEMMA ListParentStep ==
  ASSUME IInv, NEW c \in Client, ListParent(c)
  PROVE  IInv'
<1>1. call[c].release \in Release /\ Rests(c) BY DEF IInv, Calls, Rests, ListParent, At
<1>2. /\ call' \in [Client -> Call]
      /\ \/ call'[c] = NoCall
         \/ call'[c].at = "carry" /\ call'[c].release = call[c].release
      /\ \A d \in Client : d # c => call'[d] = call[d]
  BY <1>1, ListReads DEF IInv
<1>3. Rests(c)' BY <1>1, <1>2, IdleRests DEF Rests, Held
<1>4. call'[c].at \notin Locking BY <1>2 DEF NoCall, Locking
<1> QED BY <1>2, <1>3, <1>4, ReadStep DEF IInv, TypeOK, ListParent

\* A carried record is staged, whatever its source was.
LEMMA CarryRecordStep ==
  ASSUME IInv, NEW c \in Client, CarryRecord(c)
  PROVE  IInv'
<1>1. call[c].release \in Release /\ Rests(c) BY DEF IInv, Calls, Rests, CarryRecord, At
<1>2. PICK source, x \in Record :
        /\ Insert(x, StagedRow(call[c].release, source, Proved(source)))
        /\ call' \in [Client -> Call]
        /\ call'[c].at = "copy"
        /\ call'[c].release = call[c].release /\ call'[c].record = x
        /\ \A d \in Client : d # c => call'[d] = call[d]
  BY <1>1, CarryReads DEF IInv
<1> DEFINE row == StagedRow(call[c].release, source, Proved(source))
<1>0. Proved(source) \in BOOLEAN BY DEF IInv, TypeOK, RecordRow, Proved
<1>5. Insert(x, row) BY <1>2
<1> HIDE DEF row
<1>3. /\ row \in RecordRow
      /\ row.late = (~row.proof /\ Certifying(row.release))
  BY <1>0, <1>1, StagedRowIs DEF row
<1>4. row.status = "staged" /\ row.parent = source BY <1>0, <1>1, StagedRowIs DEF row
<1>6. records'[x] = row BY <1>3, <1>5, InsertTyped DEF IInv
<1>7. Rests(c)' BY <1>1, <1>2, <1>4, <1>6 DEF Rests, Held, Present
<1>8. call'[c].at \notin Locking BY <1>2 DEF Locking
<1> QED BY <1>2, <1>3, <1>4, <1>5, <1>7, <1>8, InsertStep DEF CarryRecord

\* Copying embeddings only adds some.
LEMMA CopyEmbeddingsStep ==
  ASSUME IInv, NEW c \in Client, CopyEmbeddings(c)
  PROVE  IInv'
<1>1. /\ call[c].release \in Release /\ Rests(c) /\ call[c].record \in Record
      /\ records[call[c].record].parent \in Record
  BY DEF IInv, Calls, Rests, CopyEmbeddings, At
<1>2. /\ call' \in [Client -> Call]
      /\ \/ call'[c] = NoCall
         \/ call'[c].at = "carry" /\ call'[c].release = call[c].release
      /\ \A d \in Client : d # c => call'[d] = call[d]
  BY <1>1, CopyReads DEF IInv
<1>3. Rests(c)' BY <1>1, <1>2, IdleRests DEF Rests, Held
<1>4. call'[c].at \notin Locking BY <1>2 DEF NoCall, Locking
<1>5. /\ embedded' \in [Record -> SUBSET Index]
      /\ \A x \in Record : embedded[x] \subseteq embedded'[x]
  BY <1>1 DEF IInv, TypeOK, CopyEmbeddings
<1> QED BY <1>2, <1>3, <1>4, <1>5, ReadStep DEF CopyEmbeddings

\* A candidate belongs to no release.
LEMMA SubmitCandidateStep ==
  ASSUME IInv, NEW c \in Client, SubmitCandidate(c)
  PROVE  IInv'
<1> DEFINE row == [NoRecord EXCEPT !.status = "candidate"]
<1>1. NoRecord \in RecordRow /\ NoRecord.release = Null BY DEF NoRecord, RecordRow
<1>2. row \in RecordRow /\ row.status = "candidate" /\ row.release = Null
  BY <1>1 DEF RecordRow
<1>3. PICK x \in Record : Insert(x, row) BY DEF SubmitCandidate
<1> HIDE DEF row
<1>4. call' = call /\ call[c] = NoCall /\ call' \in [Client -> Call]
  BY DEF SubmitCandidate, Free, IInv, TypeOK
<1>5. call'[c] = NoCall BY <1>4
<1>6. call'[c].at \notin Locking BY <1>5 DEF NoCall, Locking
<1> QED BY <1>2, <1>3, <1>4, <1>5, <1>6, IdleRests, InsertStep DEF SubmitCandidate

\* A record inserted without a proof is only staged.
LEMMA InsertUnprovedStep ==
  ASSUME IInv, NEW c \in Client, NEW r \in Release, InsertUnproved(c, r)
  PROVE  IInv'
<1> DEFINE row == StagedRow(r, Null, FALSE)
<1>3. PICK x \in Record : Insert(x, row) BY DEF InsertUnproved
<1> HIDE DEF row
<1>2. /\ row \in RecordRow /\ row.status = "staged"
      /\ row.late = Certifying(row.release)
  BY UnprovedRowIs DEF row
<1>4. call' = call /\ call[c] = NoCall /\ call' \in [Client -> Call]
  BY DEF InsertUnproved, Free, IInv, TypeOK
<1>5. call'[c] = NoCall BY <1>4
<1>6. call'[c].at \notin Locking BY <1>5 DEF NoCall, Locking
<1> QED BY <1>2, <1>3, <1>4, <1>5, <1>6, IdleRests, InsertStep DEF InsertUnproved

\* promote_for_next_release has made its checks; no table changed.
LEMMA PromoteStep ==
  ASSUME IInv, NEW c \in Client, NEW x \in Record, NEW r \in Release, Promote(c, x, r)
  PROVE  IInv'
<1>1. Rests(c)' BY PromoteReads DEF IInv, Rests, Held
<1>2. embedded' \in [Record -> SUBSET Index] /\ UNCHANGED <<releases, records, embedded, shared>>
  BY DEF Promote, IInv, TypeOK
<1> QED BY <1>1, <1>2, PromoteReads, ReadStep DEF IInv, Locking

\* A promoted record is staged, even in a release frozen meanwhile.
LEMMA InsertPromotedStep ==
  ASSUME IInv, NEW c \in Client, InsertPromoted(c)
  PROVE  IInv'
<1>1. call[c].release \in Release /\ call[c].record \in Record
  BY DEF IInv, Calls, Rests, InsertPromoted, At
<1> DEFINE row == StagedRow(call[c].release, call[c].record, TRUE)
<1>3. PICK x \in Record : Insert(x, row) BY DEF InsertPromoted
<1> HIDE DEF row
<1>2. row \in RecordRow /\ row.status = "staged" /\ row.proof
  BY <1>1, ProvedRowIs DEF row
<1>4. /\ call' \in [Client -> Call] /\ call'[c] = NoCall
      /\ \A d \in Client : d # c => call'[d] = call[d]
  BY ReturnOwn DEF InsertPromoted, IInv
<1>5. call'[c].at \notin Locking BY <1>4 DEF NoCall, Locking
<1> QED BY <1>2, <1>3, <1>4, <1>5, IdleRests, InsertStep DEF InsertPromoted

\* index_record has found its record; no table changed.
LEMMA IndexRecordStep ==
  ASSUME IInv, NEW c \in Client, NEW x \in Record, IndexRecord(c, x)
  PROVE  IInv'
<1>1. Rests(c)' BY IndexReads, IndexAssumption DEF IInv, Rests, Held, Index
<1>2. embedded' \in [Record -> SUBSET Index] /\ UNCHANGED <<releases, records, embedded, shared>>
  BY DEF IndexRecord, IInv, TypeOK
<1> QED BY <1>1, <1>2, IndexReads, ReadStep DEF IInv, Locking

\* put_embedding adds one embedding of one record.
LEMMA PutEmbeddingStep ==
  ASSUME IInv, NEW c \in Client, PutEmbedding(c)
  PROVE  IInv'
<1>1. Rests(c) /\ call[c].record \in Record /\ call[c].next \in Index
  BY DEF IInv, Calls, Rests, PutEmbedding, At
<1>2. /\ call' \in [Client -> Call]
      /\ \/ call'[c] = NoCall
         \/ /\ call'[c].at = "put" /\ call'[c].record = call[c].record
            /\ call'[c].next \in Index
      /\ \A d \in Client : d # c => call'[d] = call[d]
  BY <1>1, PutReads DEF IInv
<1>3. Rests(c)' BY <1>1, <1>2, IdleRests DEF Rests, Held, Index
<1>4. call'[c].at \notin Locking BY <1>2 DEF NoCall, Locking
<1>5. /\ embedded' \in [Record -> SUBSET Index]
      /\ \A x \in Record : embedded[x] \subseteq embedded'[x]
  BY <1>1 DEF IInv, TypeOK, PutEmbedding
<1> QED BY <1>2, <1>3, <1>4, <1>5, ReadStep DEF PutEmbedding

\* What freeze_release lists belongs to the release, and goes on belonging to it.
LEMMA FreezeStep ==
  ASSUME IInv, NEW c \in Client, NEW r \in Release, Freeze(c, r)
  PROVE  IInv'
<1>1. embedded' \in [Record -> SUBSET Index] /\ UNCHANGED <<releases, records, embedded, shared>>
  BY DEF Freeze, IInv, TypeOK
<1>2. RecordsOf(r)' = RecordsOf(r) BY <1>1 DEF RecordsOf, Present
<1>3. Rests(c)' BY <1>2, FreezeReads DEF IInv, Rests, Held
<1> QED BY <1>1, <1>3, FreezeReads, ReadStep DEF IInv, Locking

\* The test of freeze_release finds a building release, whose listed records are
\* indexed and whose staged records are proved, and takes a lock nobody holds.
LEMMA CheckFreezeStep ==
  ASSUME IInv, NEW c \in Client, CheckFreeze(c)
  PROVE  IInv'
<1>0. PICK r, m : r = call[c].release /\ m = call[c].ids OBVIOUS
<1>1. r \in Release /\ m \subseteq RecordsOf(r) /\ m \subseteq Record
  BY <1>0, RecordsOfAre DEF IInv, Calls, Rests, CheckFreeze, At
<1>2. embedded' \in [Record -> SUBSET Index] /\ UNCHANGED <<releases, records, embedded, shared>>
  BY DEF CheckFreeze, IInv, TypeOK
<1>3. /\ call' \in [Client -> Call]
      /\ \A d \in Client : d # c => call'[d] = call[d]
      /\ \/ call'[c] = NoCall
         \/ /\ MayFreeze(r, m)
            /\ call'[c].at = "certify" /\ call'[c].release = r /\ call'[c].ids = m
  BY <1>0, CheckFreezeReads DEF IInv
<1>4. CASE call'[c] = NoCall
  <2>1. call'[c].at \notin Locking BY <1>4 DEF NoCall, Locking
  <2> QED BY <1>2, <1>3, <1>4, <2>1, IdleRests, ReadStep
<1>5. CASE /\ MayFreeze(r, m)
           /\ call'[c].at = "certify" /\ call'[c].release = r /\ call'[c].ids = m
  <2>1. /\ RecordsOf(r)' = RecordsOf(r) /\ StagedIn(r)' = StagedIn(r)
        /\ \A x : Proved(x) => Proved(x)'
        /\ \A x : Indexed(x) => Indexed(x)'
    BY <1>2 DEF StagedIn, RecordsOf, Present, Proved, Indexed, Index
  <2>2. /\ releases'[r].status = "building"
        /\ \A x \in m : Indexed(x)
        /\ \A x \in StagedIn(r) : Proved(x)
    BY <1>2, <1>5 DEF MayFreeze
  <2>3. Rests(c)' BY <1>1, <1>5, <2>1, <2>2 DEF Rests, Held
  <2>4. \A d \in Client : d # c /\ call[d].at \in Locking =>
          ~(call'[c].at = call[d].at /\ call'[c].release = call[d].release)
    BY <1>0, <1>5 DEF CheckFreeze, Certifying, At
  <2> QED BY <1>2, <1>3, <2>3, <2>4, ReadStep
<1> QED BY <1>3, <1>4, <1>5

\* activate_release takes a frozen release that no one else is activating.
LEMMA ActivateStep ==
  ASSUME IInv, NEW c \in Client, NEW r \in Release, Activate(c, r)
  PROVE  IInv'
<1>1. embedded' \in [Record -> SUBSET Index] /\ UNCHANGED <<releases, records, embedded, shared>>
  BY DEF Activate, IInv, TypeOK
<1>2. /\ releases'[r].status = "frozen"
      /\ \A p \in Active : releases'[p].status \in {"active", "retired"}
  BY <1>1 DEF Activate, Active
<1>3. call'[c].at = "activate" /\ call'[c].release = r /\ call'[c].retire = Active
  BY ActivateReads DEF IInv
<1>4. Rests(c)' BY <1>2, <1>3 DEF Rests, Held
<1>5. \A d \in Client : At(d, "activate") => call[d].release # r BY DEF Activate
<1> QED BY <1>1, <1>3, <1>4, <1>5, ActivateReads, ReadStep DEF IInv, At

\* A query starts by reading the active release only.
LEMMA RetrieveStep ==
  ASSUME IInv, NEW c \in Client, NEW r \in Release, Retrieve(c, r)
  PROVE  IInv'
<1>1. Rests(c)' BY RetrieveReads, IndexAssumption DEF IInv, Rests, Held
<1>2. embedded' \in [Record -> SUBSET Index] /\ UNCHANGED <<releases, records, embedded, shared>>
  BY DEF Retrieve, IInv, TypeOK
<1> QED BY <1>1, <1>2, RetrieveReads, ReadStep DEF IInv, Locking

\* Ranking changes no table.
LEMMA RankIndexStep ==
  ASSUME IInv, NEW c \in Client, RankIndex(c)
  PROVE  IInv'
<1>1. call[c].release \in Release /\ Rests(c) BY DEF IInv, Calls, Rests, RankIndex, At
<1>2. /\ call' \in [Client -> Call]
      /\ \/ call'[c] = NoCall
         \/ /\ call'[c].at = "rank" /\ call'[c].release = call[c].release
            /\ call'[c].next \in 1..(IndexCount + 1)
      /\ \A d \in Client : d # c => call'[d] = call[d]
  BY <1>1, RankReads DEF IInv
<1>3. Rests(c)' BY <1>1, <1>2, IdleRests DEF Rests, Held
<1>4. call'[c].at \notin Locking BY <1>2 DEF NoCall, Locking
<1> QED BY <1>2, <1>3, <1>4, ReadStep DEF IInv, TypeOK, RankIndex

\* A process that dies leaves the tables as they are.
LEMMA AbandonStep ==
  ASSUME IInv, NEW c \in Client, Abandon(c)
  PROVE  IInv'
<1>1. /\ call' \in [Client -> Call] /\ call'[c] = NoCall
      /\ \A d \in Client : d # c => call'[d] = call[d]
  BY ReturnOwn DEF Abandon, IInv
<1>2. call'[c].at \notin Locking BY <1>1 DEF NoCall, Locking
<1> QED BY <1>1, <1>2, IdleRests, ReadStep DEF IInv, TypeOK, Abandon

\* Freezing certifies only records that are proved or late, and lists only those:
\* a release that was still building had no certified record before.
LEMMA CommitFreezeStep ==
  ASSUME IInv, NEW c \in Client, CommitFreeze(c)
  PROVE  IInv'
<1> DEFINE r == call[c].release
           m == call[c].ids
<1>1. r \in Release /\ m \subseteq RecordsOf(r) /\ m \in SUBSET Record
  BY DEF IInv, TypeOK, Call, Calls, Rests, CommitFreeze, At
<1>0. /\ releases[r].status = "building"
      /\ \A x \in m : Indexed(x)
      /\ \A x \in StagedIn(r) : Proved(x) \/ records[x].late
  BY DEF IInv, Calls, Rests, Held, CommitFreeze, At
<1>2. /\ call' \in [Client -> Call] /\ call'[c] = NoCall
      /\ \A d \in Client : d # c => call'[d] = call[d]
  BY ReturnOwn DEF CommitFreeze, IInv
<1>3. call'[c].at \notin Locking BY <1>2 DEF NoCall, Locking
<1>4. Rests(c)' BY <1>2, IdleRests
<1> HIDE DEF r, m
<1>5. Certify(r, m) BY DEF CommitFreeze, r, m
<1>6. IInv'
  <2>1. UNCHANGED <<embedded, shared>> BY DEF CommitFreeze
  <2>3. /\ releases' \in [Release -> ReleaseRow]
        /\ releases'[r].status = "frozen" /\ releases'[r].manifest = m
        /\ \A s \in Release : s # r => releases'[s] = releases[s]
    BY <1>1, <1>5 DEF IInv, TypeOK, Certify, ReleaseRow, Released
  <2>4. \A x \in Record :
          /\ x \in StagedIn(r) => records'[x] = [records[x] EXCEPT !.status = "certified"]
          /\ x \notin StagedIn(r) => records'[x] = records[x]
    BY <1>5 DEF Certify
  <2>5. \A x \in StagedIn(r) : x \in Record /\ records[x].release = r /\ records[x].status = "staged"
    BY DEF StagedIn, RecordsOf, Present
  <2>6. \A x \in Record : /\ records[x] \in RecordRow
                          /\ records'[x] \in RecordRow
                          /\ records'[x].release = records[x].release
                          /\ records'[x].parent = records[x].parent
                          /\ records'[x].proof = records[x].proof
                          /\ records'[x].late = records[x].late
                          /\ x \in StagedIn(r) => records'[x].status = "certified"
                          /\ x \notin StagedIn(r) => records'[x].status = records[x].status
    <3> SUFFICES ASSUME NEW x \in Record
                 PROVE  /\ records[x] \in RecordRow
                        /\ records'[x] \in RecordRow
                        /\ records'[x].release = records[x].release
                        /\ records'[x].parent = records[x].parent
                        /\ records'[x].proof = records[x].proof
                        /\ records'[x].late = records[x].late
                        /\ x \in StagedIn(r) => records'[x].status = "certified"
                        /\ x \notin StagedIn(r) => records'[x].status = records[x].status
      OBVIOUS
    <3>1. records[x] \in RecordRow BY DEF IInv, TypeOK
    <3>2. CASE x \in StagedIn(r)
      <4>1. records'[x] = [records[x] EXCEPT !.status = "certified"] BY <2>4, <3>2
      <4> QED BY <3>1, <3>2, <4>1 DEF RecordRow
    <3>3. CASE x \notin StagedIn(r) BY <2>4, <3>1, <3>3
    <3> QED BY <3>2, <3>3
  <2>7. records' \in [Record -> RecordRow] BY <1>5, <2>6 DEF Certify
  <2>8. TypeOK' BY <1>2, <2>1, <2>3, <2>7 DEF IInv, TypeOK
  <2>9. Grows BY <1>0, <2>3, <2>6 DEF Grows, Present
  <2>10. ASSUME NEW d \in Client, d # c PROVE Held(d)'
    <3>1. /\ Held(d) /\ call'[d] = call[d]
          /\ call[d].at \in Locking => call[d].release \in Release
      BY <1>2, <2>10 DEF IInv, Calls, Rests, Locking
    <3>2. call[d].at \in Locking => call[d].release # r
      <4>1. call[c].at = "certify" /\ call[c].release = r BY DEF CommitFreeze, At, r
      <4>2. call[d].at = "certify" => call[d].release # r
        BY <2>10, <4>1 DEF IInv, Calls, OneHolder, Locking
      <4>3. call[d].at = "activate" => call[d].release # r BY <1>0, <3>1 DEF Held
      <4> QED BY <4>2, <4>3 DEF Locking
    <3>3. CASE call[d].at = "activate" BY <2>3, <3>1, <3>2, <3>3 DEF Held, Locking
    <3>4. CASE call[d].at = "certify"
      <4>0. PICK q : q = call[d].release OBVIOUS
      <4>1. q \in Release /\ q # r /\ releases'[q].status = "building"
        BY <2>3, <3>1, <3>2, <3>4, <4>0 DEF Held, Locking
      <4>2. ASSUME NEW x \in StagedIn(q)' PROVE Proved(x)' \/ records'[x].late
        <5>1. x \in Record /\ records'[x].status = "staged" /\ records'[x].release = q
          BY <4>2 DEF StagedIn, RecordsOf, Present
        <5>2. x \notin StagedIn(r) BY <2>5, <2>6, <4>1, <5>1
        <5>3. x \in StagedIn(q) BY <2>6, <5>1, <5>2 DEF StagedIn, RecordsOf, Present
        <5>4. Proved(x) \/ records[x].late BY <3>1, <3>4, <4>0, <5>3 DEF Held
        <5> QED BY <2>6, <5>1, <5>4 DEF Proved
      <4> QED BY <3>1, <3>4, <4>0, <4>1, <4>2 DEF Held
    <3> QED BY <3>1, <3>3, <3>4 DEF Held
  <2>11. Calls'
    <3>1. \A x \in Record : Indexed(x) => Indexed(x)' BY <2>1 DEF Indexed, Index
    <3> QED BY <1>2, <1>3, <1>4, <2>9, <2>10, <3>1, CallsStep DEF IInv
  <2>12. Belong' BY <2>6 DEF IInv, Sound, Belong
  <2>13. CertifiedAreTested'
    <3> SUFFICES ASSUME NEW x \in Record, records'[x].status = "certified"
                 PROVE  /\ records'[x].proof \/ records'[x].late
                        /\ \E s \in Release : /\ records'[x].release = s
                                              /\ releases'[s].status \in Released
      BY DEF CertifiedAreTested, Proved
    <3>1. CASE x \in StagedIn(r)
      BY <1>1, <1>0, <2>3, <2>5, <2>6, <3>1 DEF Proved, Released
    <3>2. CASE x \notin StagedIn(r)
      <4>1. /\ records[x].proof \/ records[x].late
            /\ \E s \in Release : records[x].release = s /\ releases[s].status \in Released
        BY <2>6, <3>2 DEF IInv, Sound, CertifiedAreTested, Proved
      <4> QED BY <1>0, <2>3, <2>6, <4>1 DEF Released
    <3> QED BY <3>1, <3>2
  <2>14. ManifestServed'
    <3> SUFFICES ASSUME NEW s \in Release, releases'[s].status \in Released,
                        NEW x \in releases'[s].manifest
                 PROVE  /\ records'[x].status = "certified"
                        /\ records'[x].release = s
                        /\ Indexed(x)'
      BY DEF ManifestServed
    <3>1. CASE s = r
      <4>1. x \in Record /\ x \in RecordsOf(r) /\ x \in m BY <1>1, <2>3, <3>1
      <4>2. records[x].release = r BY <4>1 DEF RecordsOf
      <4>3. records[x].status # "certified"
        BY <1>0, <4>1, <4>2 DEF IInv, Sound, CertifiedAreTested, Released
      <4>4. r # Null BY <1>1, NullAssumption
      <4>5. x \in StagedIn(r)
        BY <4>1, <4>2, <4>3, <4>4 DEF IInv, Sound, Belong, StagedIn
      <4>6. Indexed(x)' BY <2>1, <1>0, <4>1 DEF Indexed, Index
      <4> QED BY <2>6, <3>1, <4>1, <4>2, <4>5, <4>6
    <3>2. CASE s # r
      <4>1. releases'[s] = releases[s] /\ x \in Record
        BY <2>3, <3>2 DEF IInv, TypeOK, ReleaseRow
      <4>2. records[x].status = "certified" /\ records[x].release = s /\ Indexed(x)
        BY <4>1 DEF IInv, Sound, ManifestServed
      <4>3. Indexed(x)' BY <2>1, <4>2 DEF Indexed, Index
      <4> QED BY <2>6, <4>1, <4>2, <4>3
    <3> QED BY <3>1, <3>2
  <2> QED BY <2>8, <2>11, <2>12, <2>13, <2>14 DEF IInv, Sound
<1> QED BY <1>6

\* Activating moves a frozen release and the active ones it saw, and no other
\* release that is being activated.
LEMMA CommitActivateStep ==
  ASSUME IInv, NEW c \in Client, CommitActivate(c)
  PROVE  IInv'
<1> DEFINE r == call[c].release
<1>1. /\ r \in Release /\ releases[r].status = "frozen" /\ call[c].retire \in SUBSET Release
      /\ \A p \in call[c].retire : releases[p].status \in {"active", "retired"}
  BY DEF IInv, TypeOK, Call, Calls, Rests, Held, CommitActivate, At
<1>2. /\ call' \in [Client -> Call] /\ call'[c] = NoCall
      /\ \A d \in Client : d # c => call'[d] = call[d]
  BY ReturnOwn DEF CommitActivate, IInv
<1>3. call'[c].at \notin Locking BY <1>2 DEF NoCall, Locking
<1>4. Rests(c)' BY <1>2, IdleRests
<1>5. UNCHANGED <<records, embedded, shared>> BY DEF CommitActivate
<1>6. \A s \in Release :
        /\ s = r => releases'[s] = [releases[s] EXCEPT !.status = "active"]
        /\ s # r /\ s \in call[c].retire =>
               releases'[s] = [releases[s] EXCEPT !.status = "retired"]
        /\ s # r /\ s \notin call[c].retire => releases'[s] = releases[s]
  BY DEF CommitActivate
<1>7. \A s \in Release :
        /\ releases[s] \in ReleaseRow /\ releases'[s] \in ReleaseRow
        /\ releases'[s].manifest = releases[s].manifest
        /\ s = r => releases'[s].status = "active"
        /\ s # r /\ s \in call[c].retire => releases'[s].status = "retired"
        /\ s # r /\ s \notin call[c].retire => releases'[s].status = releases[s].status
  <2> SUFFICES ASSUME NEW s \in Release
               PROVE  /\ releases[s] \in ReleaseRow /\ releases'[s] \in ReleaseRow
                      /\ releases'[s].manifest = releases[s].manifest
                      /\ s = r => releases'[s].status = "active"
                      /\ s # r /\ s \in call[c].retire => releases'[s].status = "retired"
                      /\ s # r /\ s \notin call[c].retire =>
                             releases'[s].status = releases[s].status
    OBVIOUS
  <2>1. releases[s] \in ReleaseRow BY DEF IInv, TypeOK
  <2>2. CASE s = r BY <1>6, <2>1, <2>2 DEF ReleaseRow, Released
  <2>3. CASE s # r /\ s \in call[c].retire BY <1>6, <2>1, <2>3 DEF ReleaseRow, Released
  <2>4. CASE s # r /\ s \notin call[c].retire BY <1>6, <2>1, <2>4
  <2> QED BY <2>2, <2>3, <2>4
<1>8. releases' \in [Release -> ReleaseRow] BY <1>7 DEF CommitActivate
<1>9. TypeOK' BY <1>2, <1>5, <1>8 DEF IInv, TypeOK
<1>10. Grows BY <1>1, <1>5, <1>7 DEF Grows, Present
<1>11. ASSUME NEW d \in Client, d # c PROVE Held(d)'
  <2> DEFINE q == call[d].release
  <2>1. Held(d) /\ call'[d] = call[d] /\ (call[d].at \in Locking => q \in Release)
    BY <1>2, <1>11 DEF IInv, Calls, Rests, Locking
  <2>2. call[d].at \in Locking => q # r
    BY <1>1, <1>11, <2>1 DEF IInv, Calls, OneHolder, CommitActivate, Locking, Held, At
  <2>3. call[d].at \in Locking => q \notin call[c].retire
    BY <1>1, <2>1 DEF Locking, Held
  <2>4. call[d].at \in Locking => releases'[q].status = releases[q].status
    BY <1>7, <2>1, <2>2, <2>3
  <2>5. StagedIn(q)' = StagedIn(q) /\ records' = records
    BY <1>5 , <2>1 DEF StagedIn, RecordsOf, Present
  <2> QED BY <2>1, <2>4, <2>5 DEF Held, Locking, Proved
<1>12. Calls'
  <2>1. \A x \in Record : Indexed(x) => Indexed(x)' BY <1>5 DEF Indexed, Index
  <2> QED BY <1>2, <1>3, <1>4, <1>10, <1>11, <2>1, CallsStep DEF IInv
<1>13. \A s \in Release : releases'[s].status \in Released <=> releases[s].status \in Released
  BY <1>1, <1>7 DEF Released
<1>14. Belong' BY <1>5 DEF IInv, Sound, Belong
<1>15. CertifiedAreTested' BY <1>5, <1>13 DEF IInv, Sound, CertifiedAreTested, Proved
<1>16. ManifestServed' BY <1>5, <1>7, <1>13 DEF IInv, Sound, ManifestServed, Indexed, Index
<1> QED BY <1>9, <1>12, <1>14, <1>15, <1>16 DEF IInv, Sound

-----------------------------------------------------------------------------
\* No step of any client breaks the invariant.
LEMMA Invariance == IInv /\ [Next]_vars => IInv'
<1> SUFFICES ASSUME IInv, [Next]_vars PROVE IInv' OBVIOUS
<1>1. CASE UNCHANGED vars
  BY <1>1 DEF vars, IInv, TypeOK, Calls, OneHolder, Rests, Held, Sound, Belong,
     CertifiedAreTested, ManifestServed, Proved, Indexed, Index, StagedIn, RecordsOf, Present
<1>2. ASSUME NEW c \in Client, Begin(c) PROVE IInv'
  BY <1>2, SubmitCandidateStep, IndexRecordStep, CreateReleaseStep, InsertUnprovedStep,
     PromoteStep, FreezeStep, ActivateStep, RetrieveStep DEF Begin
<1>3. ASSUME NEW c \in Client, Continue(c) PROVE IInv'
  BY <1>3, InsertReleaseStep, ListParentStep, CarryRecordStep, CopyEmbeddingsStep,
     InsertPromotedStep, PutEmbeddingStep, CheckFreezeStep, CommitFreezeStep,
     CommitActivateStep, RankIndexStep DEF Continue
<1> QED BY <1>1, <1>2, <1>3, AbandonStep DEF Next

\* The library starts empty, which satisfies the invariant.
LEMMA Initial == Init => IInv
<1> SUFFICES ASSUME Init PROVE IInv OBVIOUS
<1>1. \A c \in Client : call[c] = NoCall BY DEF Init
<1>2. TypeOK
  <2>1. [status |-> "absent", parent |-> Null, manifest |-> {}] \in ReleaseRow
    BY DEF ReleaseRow
  <2>2. NoRecord \in RecordRow BY DEF NoRecord, RecordRow
  <2> QED BY <2>1, <2>2, NoCallTyped, SharingAssumption DEF Init, TypeOK
<1>3. Calls BY <1>1 DEF Calls, OneHolder, Locking, Rests, Held, NoCall
<1>4. Sound
  BY DEF Init, Sound, Belong, CertifiedAreTested, ManifestServed, NoRecord, Released
<1> QED BY <1>2, <1>3, <1>4 DEF IInv

\* Every reachable library is well typed and satisfies the invariant.
THEOREM LibraryInvariant == Spec => []IInv
  BY Initial, Invariance, PTL DEF Spec

\* Releases, records, embeddings and the readings of every client stay well
\* typed.
THEOREM LibraryTypeCorrect == Spec => []TypeOK
<1>1. IInv => TypeOK BY DEF IInv
<1> QED BY <1>1, LibraryInvariant, PTL

\* What a manifest lists is certified, belongs to its release and is indexed in
\* every index for as long as the release exists.
THEOREM ManifestsServed == Spec => []ManifestServed
<1>1. IInv => ManifestServed BY DEF IInv, Sound
<1> QED BY <1>1, LibraryInvariant, PTL

\* A release is never thawed, never reactivated and never refrozen with another
\* manifest.
THEOREM ReleasesMoveForward == Spec => ReleaseMovesForward
<1> DEFINE Forward(r) ==
       /\ releases'[r].status # releases[r].status =>
              Rank[releases'[r].status] = Rank[releases[r].status] + 1
       /\ releases[r].status \in Released => releases'[r].manifest = releases[r].manifest
<1>1. ASSUME IInv, [Next]_vars, NEW r \in Release PROVE Forward(r)
  <2>1. CASE UNCHANGED releases BY <2>1
  <2>2. ASSUME NEW c \in Client, InsertRelease(c), ~UNCHANGED releases PROVE Forward(r)
    <3>1. /\ releases[call[c].release].status = "absent"
          /\ releases' = [releases EXCEPT ![call[c].release] =
                 [status |-> "building", parent |-> call[c].parent, manifest |-> {}]]
      BY <2>2 DEF InsertRelease
    <3>2. CASE r = call[c].release
      <4>1. releases'[r].status = "building" BY <3>1, <3>2, <1>1 DEF IInv, TypeOK
      <4> QED BY <3>1, <3>2, <4>1 DEF Rank, Released
    <3>3. CASE r # call[c].release
      <4>1. releases'[r] = releases[r] BY <3>1, <3>3, <1>1 DEF IInv, TypeOK
      <4> QED BY <4>1
    <3> QED BY <3>2, <3>3
  <2>3. ASSUME NEW c \in Client, CommitFreeze(c), ~UNCHANGED releases PROVE Forward(r)
    <3>1. /\ releases[call[c].release].status = "building"
          /\ releases' = [releases EXCEPT ![call[c].release].status = "frozen",
                                          ![call[c].release].manifest = call[c].ids]
      BY <1>1, <2>3 DEF IInv, Calls, Rests, Held, CommitFreeze, Certify, At
    <3>2. releases[r] \in ReleaseRow BY <1>1 DEF IInv, TypeOK
    <3>3. CASE r = call[c].release
      <4>1. releases'[r].status = "frozen" BY <3>1, <3>2, <3>3, <1>1 DEF IInv, TypeOK, ReleaseRow
      <4> QED BY <3>1, <3>3, <4>1 DEF Rank, Released
    <3>4. CASE r # call[c].release
      <4>1. releases'[r] = releases[r] BY <3>1, <3>4, <1>1 DEF IInv, TypeOK
      <4> QED BY <4>1
    <3> QED BY <3>3, <3>4
  <2>4. ASSUME NEW c \in Client, CommitActivate(c) PROVE Forward(r)
    <3>1. /\ releases[call[c].release].status = "frozen"
          /\ \A p \in call[c].retire : releases[p].status \in {"active", "retired"}
      BY <1>1, <2>4 DEF IInv, Calls, Rests, Held, CommitActivate, At
    <3>2. releases[r] \in ReleaseRow BY <1>1 DEF IInv, TypeOK
    <3>3. CASE r = call[c].release
      <4>1. releases'[r] = [releases[r] EXCEPT !.status = "active"]
        BY <2>4, <3>3 DEF CommitActivate
      <4> QED BY <3>1, <3>2, <3>3, <4>1 DEF ReleaseRow, Rank
    <3>4. CASE r # call[c].release /\ r \in call[c].retire
      <4>1. releases'[r] = [releases[r] EXCEPT !.status = "retired"]
        BY <2>4, <3>4 DEF CommitActivate
      <4> QED BY <3>1, <3>2, <3>4, <4>1 DEF ReleaseRow, Rank
    <3>5. CASE r # call[c].release /\ r \notin call[c].retire
      <4>1. releases'[r] = releases[r] BY <2>4, <3>5 DEF CommitActivate
      <4> QED BY <4>1
    <3> QED BY <3>3, <3>4, <3>5
  <2>5. ASSUME NEW c \in Client, Begin(c) PROVE UNCHANGED releases
    BY <2>5 DEF Begin, SubmitCandidate, IndexRecord, CreateRelease, InsertUnproved,
       Promote, Freeze, Activate, Retrieve
  <2>6. ASSUME NEW c \in Client, Continue(c), ~UNCHANGED releases
        PROVE InsertRelease(c) \/ CommitFreeze(c) \/ CommitActivate(c)
    BY <2>6 DEF Continue, ListParent, CarryRecord, CopyEmbeddings, InsertPromoted,
       PutEmbedding, CheckFreeze, RankIndex
  <2>7. ASSUME NEW c \in Client, Abandon(c) PROVE UNCHANGED releases
    BY <2>7 DEF Abandon
  <2> QED BY <1>1, <2>1, <2>2, <2>3, <2>4, <2>5, <2>6, <2>7 DEF Next, vars
<1>2. IInv /\ [Next]_vars => [\A r \in Release : Forward(r)]_vars
  BY <1>1
<1> QED BY <1>2, LibraryInvariant, PTL DEF Spec, ReleaseMovesForward

-----------------------------------------------------------------------------
(* One process: nothing comes between the calls of a method, so what a     *)
(* method has read is still so when it acts, and a created release is      *)
(* filled before anything else is done.                                    *)

Creating == {"list", "carry", "copy"}

\* What is copied of x into r, and what create_release has still to copy.
Copied(r, x) == \E y \in RecordsOf(r) : records[y].parent = x
ToCopy(c, r, x) ==
    /\ call[c].release = r
    /\ At(c, "list") \/ (call[c].at \in {"carry", "copy"} /\ x \in call[c].ids)

OneAtATime == \A c, d \in Client : call[c] # NoCall /\ call[d] # NoCall => c = d

Current(c) ==
    LET k == call[c] IN
    /\ k.at = "insert" => ActiveIs(k.parent)
    /\ k.at \in Creating =>
           releases[k.release].status = "building" /\ releases[k.release].parent = k.parent
    /\ k.at = "copy" => embedded[k.record] = {}
    /\ k.at = "promote" => releases[k.release].status = "building"
    /\ k.at = "put" => k.record \in Present
    /\ k.at \in {"freeze", "certify"} => k.ids = RecordsOf(k.release)
    /\ k.at = "activate" => k.retire = Active
    /\ k.at = "rank" => Active = {k.release} /\ k.ids \subseteq releases[k.release].manifest

AtMostOneActive == \A r, s \in Active : r = s

\* No record is inserted while its release is being certified.
NoneLate == \A x \in Record : ~records[x].late

\* Nothing is added to a release once it is frozen.
Sealed == \A r \in Release : releases[r].status \in Released => RecordsOf(r) = releases[r].manifest

BareUntilInserted == \A x \in Record \ Present : embedded[x] = {}

\* A release copies what its parent, released before it, has listed.
Inherits ==
    \A r, p \in Release : releases[r].status # "absent" /\ releases[r].parent = p =>
        /\ releases[p].status \in Released
        /\ \A x \in releases[p].manifest :
               \/ Copied(r, x)
               \/ releases[r].status = "building" /\ \E c \in Client : ToCopy(c, r, x)

Alone ==
    /\ OneAtATime
    /\ \A c \in Client : Current(c)
    /\ AtMostOneActive /\ NoneLate /\ Sealed /\ BareUntilInserted /\ Inherits

AloneInv == IInv /\ (~shared => Alone)

-----------------------------------------------------------------------------
(* What a step keeps.                                                      *)

\* While a client is in a method, or starts one, the others are in none.
LEMMA OthersIdle ==
  ASSUME OneAtATime, ~shared, NEW c \in Client, Free(c) \/ call[c] # NoCall,
         \A d \in Client : d # c => call'[d] = call[d]
  PROVE  /\ \A d \in Client : d # c => call[d] = NoCall /\ call'[d] = NoCall
         /\ OneAtATime'
  BY DEF OneAtATime, Free

\* A client that is in no method has read nothing.
LEMMA IdleCurrent ==
  ASSUME NEW c \in Client, call'[c] = NoCall
  PROVE  Current(c)'
  BY DEF Current, NoCall, Creating

\* A client that is in some place is in a method.
LEMMA InAMethod ==
  ASSUME NEW c \in Client, call[c].at # "idle" PROVE call[c] # NoCall
  BY DEF NoCall

\* Copies stay.
LEMMA CopiedStays ==
  ASSUME Grows, NEW r, NEW x, Copied(r, x)
  PROVE  Copied(r, x)'
<1>1. PICK y \in RecordsOf(r) : records[y].parent = x BY DEF Copied
<1>2. y \in RecordsOf(r)' /\ records'[y].parent = x BY <1>1 DEF Grows, RecordsOf, Present
<1> QED BY <1>2 DEF Copied

\* While no release is being created, all are filled.
LEMMA Filled ==
  ASSUME Inherits, NEW c \in Client, \A d \in Client : d # c => call[d] = NoCall,
         call[c].at \notin Creating,
         NEW r \in Release, NEW p \in Release, releases[r].status # "absent", releases[r].parent = p
  PROVE  /\ releases[p].status \in Released
         /\ \A x \in releases[p].manifest : Copied(r, x)
<1>1. \A x : \A d \in Client : ~ToCopy(d, r, x)
  BY DEF ToCopy, At, Creating, NoCall
<1> QED BY <1>1 DEF Inherits

\* Nothing is said of the releases that a change of the records could undo,
\* as long as no released one gets more of them.
LEMMA RecordsAdded ==
  ASSUME IInv, Alone, Grows, NEW c \in Client, \A d \in Client : d # c => call[d] = NoCall,
         call[c].at \notin Creating, UNCHANGED releases,
         \A r \in Release : releases[r].status \in Released => RecordsOf(r)' = RecordsOf(r)
  PROVE  AtMostOneActive' /\ Sealed' /\ Inherits'
<1>1. AtMostOneActive' BY DEF Alone, AtMostOneActive, Active
<1>2. Sealed' BY DEF Alone, Sealed
<1>3. Inherits'
  <2> SUFFICES ASSUME NEW r \in Release, NEW p \in Release, releases[r].status # "absent",
                      releases[r].parent = p
               PROVE  /\ releases[p].status \in Released
                      /\ \A x \in releases[p].manifest : Copied(r, x)'
    BY DEF Inherits
  <2> QED BY Filled, CopiedStays DEF Alone
<1> QED BY <1>1, <1>2, <1>3

\* A step of one client that changes neither table of releases nor of records.
LEMMA AloneRead ==
  ASSUME IInv, Alone, ~shared, NEW c \in Client, Free(c) \/ call[c] # NoCall,
         \A d \in Client : d # c => call'[d] = call[d],
         call[c].at \notin Creating, UNCHANGED <<releases, records>>,
         \A x \in Record \ Present : embedded'[x] = embedded[x],
         Current(c)'
  PROVE  Alone'
<1>1. /\ \A d \in Client : d # c => call[d] = NoCall /\ call'[d] = NoCall
      /\ OneAtATime'
  BY OthersIdle DEF Alone
<1>2. \A d \in Client : Current(d)' BY <1>1, IdleCurrent
<1>3. Grows BY DEF Grows, Present
<1>4. \A r : RecordsOf(r)' = RecordsOf(r) BY DEF RecordsOf, Present
<1>5. AtMostOneActive' /\ Sealed' /\ Inherits' BY <1>1, <1>3, <1>4, RecordsAdded
<1>6. BareUntilInserted' /\ NoneLate' BY DEF Alone, BareUntilInserted, Present, NoneLate
<1> QED BY <1>1, <1>2, <1>5, <1>6 DEF Alone

\* A step of one client that inserts a record, into no released release.
LEMMA AloneInsert ==
  ASSUME IInv, Alone, ~shared, NEW c \in Client, Free(c) \/ call[c] # NoCall,
         \A d \in Client : d # c => call'[d] = call[d],
         call[c].at \notin Creating,
         NEW x \in Record, NEW row \in RecordRow, Insert(x, row),
         row.release \in Release => releases[row.release].status \notin Released,
         ~row.late,
         UNCHANGED <<releases, embedded>>,
         Current(c)'
  PROVE  Alone'
<1>1. /\ \A d \in Client : d # c => call[d] = NoCall /\ call'[d] = NoCall
      /\ OneAtATime'
  BY OthersIdle DEF Alone
<1>2. \A d \in Client : Current(d)' BY <1>1, IdleCurrent
<1>3. /\ records[x].status = "absent" /\ records'[x] = row
      /\ \A y \in Record : y # x => records'[y] = records[y]
  BY InsertTyped DEF IInv
<1>4. Grows BY <1>3 DEF Grows, Present
<1>5. \A r \in Release : releases[r].status \in Released => RecordsOf(r)' = RecordsOf(r)
  BY <1>3 DEF RecordsOf, Present
<1>6. AtMostOneActive' /\ Sealed' /\ Inherits' BY <1>1, <1>4, <1>5, RecordsAdded
<1>7. BareUntilInserted' /\ NoneLate' BY <1>3 DEF Alone, BareUntilInserted, Present, NoneLate
<1> QED BY <1>1, <1>2, <1>6, <1>7 DEF Alone

-----------------------------------------------------------------------------
(* One process, action by action.                                          *)

\* Whoever starts a method is in none.
LEMMA StartsIdle ==
  ASSUME NEW c \in Client, Free(c) PROVE call[c].at = "idle" /\ call[c].at \notin Creating
  BY DEF Free, NoCall, Creating

\* While a client works, no other certifies anything.
LEMMA NoneCertified ==
  ASSUME Alone, ~shared, NEW c \in Client, Free(c) \/ call[c] # NoCall, ~At(c, "certify")
  PROVE  \A r : ~Certifying(r)
  BY DEF Alone, OneAtATime, Free, Certifying, At, NoCall

\* Every method begins with a reading that is current.
LEMMA BeginAlone ==
  ASSUME IInv, Alone, ~shared, NEW c \in Client, Begin(c)
  PROVE  Alone'
<1>1. ASSUME SubmitCandidate(c) PROVE Alone'
  <2> DEFINE row == [NoRecord EXCEPT !.status = "candidate"]
  <2>1. NoRecord \in RecordRow /\ NoRecord.release = Null /\ ~NoRecord.late
    BY DEF NoRecord, RecordRow
  <2>2. row \in RecordRow /\ row.release = Null /\ ~row.late BY <2>1 DEF RecordRow
  <2>3. PICK x \in Record : Insert(x, row) BY <1>1 DEF SubmitCandidate
  <2> HIDE DEF row
  <2>4. Free(c) /\ call' = call /\ UNCHANGED <<releases, embedded>>
    BY <1>1 DEF SubmitCandidate
  <2>5. Current(c)' BY <2>4, IdleCurrent DEF Free
  <2> QED BY <2>2, <2>3, <2>4, <2>5, StartsIdle, AloneInsert, NullAssumption
<1>2. ASSUME NEW r \in Release, InsertUnproved(c, r) PROVE Alone'
  <2> DEFINE row == StagedRow(r, Null, FALSE)
  <2>3. PICK x \in Record : Insert(x, row) BY <1>2 DEF InsertUnproved
  <2> HIDE DEF row
  <2>1. ~Certifying(r) BY <1>2, StartsIdle, NoneCertified DEF InsertUnproved, At
  <2>2. row \in RecordRow /\ row.release = r /\ ~row.late BY <2>1, UnprovedRowIs DEF row
  <2>4. Free(c) /\ call' = call /\ UNCHANGED <<releases, embedded>> /\ releases[r].status = "building"
    BY <1>2 DEF InsertUnproved
  <2>5. Current(c)' BY <2>4, IdleCurrent DEF Free
  <2> QED BY <2>2, <2>3, <2>4, <2>5, StartsIdle, AloneInsert DEF Released
<1>3. ASSUME NEW r \in Release, NEW p \in Release \cup {Null}, CreateRelease(c, r, p) PROVE Alone'
  <2>1. /\ call'[c].at = "insert" /\ call'[c].parent = p
        /\ \A d \in Client : d # c => call'[d] = call[d]
    BY <1>3, CreateReads DEF IInv
  <2>2. Free(c) /\ ActiveIs(p) /\ UNCHANGED <<releases, records, embedded>>
    BY <1>3 DEF CreateRelease
  <2>3. ActiveIs(p)' BY <2>2 DEF ActiveIs, Active
  <2>4. Current(c)' BY <2>1, <2>3 DEF Current, Creating, ActiveIs
  <2> QED BY <2>1, <2>2, <2>4, StartsIdle, AloneRead
<1>4. ASSUME NEW r \in Release, NEW x \in Record, Promote(c, x, r) PROVE Alone'
  <2>1. /\ call'[c].at = "promote" /\ call'[c].release = r
        /\ \A d \in Client : d # c => call'[d] = call[d]
    BY <1>4, PromoteReads DEF IInv
  <2>2. /\ Free(c) /\ UNCHANGED <<releases, records, embedded>>
        /\ releases[r].status = "building"
    BY <1>4 DEF Promote
  <2>3. Current(c)' BY <2>1, <2>2 DEF Current, Creating
  <2> QED BY <2>1, <2>2, <2>3, StartsIdle, AloneRead
<1>5. ASSUME NEW x \in Record, IndexRecord(c, x) PROVE Alone'
  <2>1. /\ call'[c].at = "put" /\ call'[c].record = x
        /\ \A d \in Client : d # c => call'[d] = call[d]
    BY <1>5, IndexReads DEF IInv
  <2>2. Free(c) /\ UNCHANGED <<releases, records, embedded>> /\ x \in Present
    BY <1>5 DEF IndexRecord
  <2>3. Current(c)' BY <2>1, <2>2 DEF Current, Creating, Present
  <2> QED BY <2>1, <2>2, <2>3, StartsIdle, AloneRead
<1>6. ASSUME NEW r \in Release, Freeze(c, r) PROVE Alone'
  <2>1. /\ call'[c].at = "freeze" /\ call'[c].release = r /\ call'[c].ids = RecordsOf(r)
        /\ \A d \in Client : d # c => call'[d] = call[d]
    BY <1>6, FreezeReads DEF IInv
  <2>2. Free(c) /\ UNCHANGED <<releases, records, embedded>> BY <1>6 DEF Freeze
  <2>3. RecordsOf(r)' = RecordsOf(r) BY <2>2 DEF RecordsOf, Present
  <2>4. Current(c)' BY <2>1, <2>3 DEF Current, Creating
  <2> QED BY <2>1, <2>2, <2>4, StartsIdle, AloneRead
<1>7. ASSUME NEW r \in Release, Activate(c, r) PROVE Alone'
  <2>1. /\ call'[c].at = "activate" /\ call'[c].retire = Active
        /\ \A d \in Client : d # c => call'[d] = call[d]
    BY <1>7, ActivateReads DEF IInv
  <2>2. Free(c) /\ UNCHANGED <<releases, records, embedded>> BY <1>7 DEF Activate
  <2>3. Active' = Active BY <2>2 DEF Active
  <2>4. Current(c)' BY <2>1, <2>3 DEF Current, Creating
  <2> QED BY <2>1, <2>2, <2>4, StartsIdle, AloneRead
<1>8. ASSUME NEW r \in Release, Retrieve(c, r) PROVE Alone'
  <2>1. /\ call'[c].at = "rank" /\ call'[c].release = r /\ call'[c].ids = {}
        /\ \A d \in Client : d # c => call'[d] = call[d]
    BY <1>8, RetrieveReads DEF IInv
  <2>2. Free(c) /\ UNCHANGED <<releases, records, embedded>> /\ Active = {r}
    BY <1>8, NullAssumption DEF Retrieve, ActiveIs
  <2>3. Active' = {r} BY <2>2 DEF Active
  <2>4. Current(c)' BY <2>1, <2>3 DEF Current, Creating
  <2> QED BY <2>1, <2>2, <2>4, StartsIdle, AloneRead
<1> QED BY <1>1, <1>2, <1>3, <1>4, <1>5, <1>6, <1>7, <1>8 DEF Begin

\* A call that goes on, or comes back, and changes neither table.
LEMMA ReadsOn ==
  ASSUME IInv, Alone, ~shared, NEW c \in Client,
         PutEmbedding(c) \/ RankIndex(c) \/ CheckFreeze(c)
  PROVE  Alone'
<1>1. ASSUME PutEmbedding(c) PROVE Alone'
  <2>1. /\ Rests(c) /\ call[c].record \in Present /\ call[c].at = "put"
        /\ call[c].at \notin Creating /\ call[c] # NoCall
    BY <1>1, InAMethod DEF IInv, Calls, PutEmbedding, At, Alone, Current, Creating
  <2>2. /\ \/ call'[c] = NoCall
           \/ call'[c].at = "put" /\ call'[c].record = call[c].record
        /\ \A d \in Client : d # c => call'[d] = call[d]
    BY <1>1, <2>1, PutReads DEF IInv
  <2>3. UNCHANGED <<releases, records>> BY <1>1 DEF PutEmbedding
  <2>4. \A x \in Record \ Present : embedded'[x] = embedded[x]
    BY <1>1, <2>1 DEF PutEmbedding, IInv, TypeOK
  <2>5. ASSUME call'[c].at = "put", call'[c].record = call[c].record PROVE Current(c)'
    BY <2>1, <2>3, <2>5 DEF Current, Creating, Present
  <2>6. Current(c)' BY <2>2, <2>5, IdleCurrent
  <2> QED BY <2>1, <2>2, <2>3, <2>4, <2>6, AloneRead
<1>2. ASSUME RankIndex(c) PROVE Alone'
  <2> DEFINE r == call[c].release
  <2>1. /\ Rests(c) /\ call[c].at = "rank" /\ r \in Release
        /\ Active = {r} /\ call[c].ids \subseteq releases[r].manifest
        /\ call[c].at \notin Creating /\ call[c] # NoCall
    BY <1>2, InAMethod DEF IInv, Calls, Rests, RankIndex, At, Alone, Current, Creating
  <2>2. /\ \/ call'[c] = NoCall
           \/ /\ call'[c].at = "rank" /\ call'[c].release = r
              /\ call'[c].ids = call[c].ids \cup Hits(r, call[c].next)
        /\ \A d \in Client : d # c => call'[d] = call[d]
    BY <1>2, <2>1, RankReads DEF IInv
  <2>3. UNCHANGED <<releases, records, embedded>> BY <1>2 DEF RankIndex
  <2>4. RecordsOf(r) = releases[r].manifest
    BY <2>1 DEF Alone, Sealed, Active, Released
  <2>5. Hits(r, call[c].next) \subseteq releases[r].manifest BY <2>4 DEF Hits
  <2>6. Active' = Active BY <2>3 DEF Active
  <2>7. ASSUME call'[c].at = "rank", call'[c].release = r,
               call'[c].ids = call[c].ids \cup Hits(r, call[c].next)
        PROVE Current(c)'
    <3> HIDE DEF r
    <3> QED BY <2>1, <2>3, <2>5, <2>6, <2>7 DEF Current, Creating
  <2>8. Current(c)' BY <2>2, <2>7, IdleCurrent
  <2> QED BY <2>1, <2>2, <2>3, <2>8, AloneRead
<1>3. ASSUME CheckFreeze(c) PROVE Alone'
  <2>0. PICK r : r = call[c].release OBVIOUS
  <2>1. /\ r \in Release /\ call[c].at = "freeze" /\ call[c].ids = RecordsOf(r)
        /\ call[c].at \notin Creating /\ call[c] # NoCall
    BY <1>3, <2>0, InAMethod DEF IInv, Calls, Rests, CheckFreeze, At, Alone, Current, Creating
  <2>2. /\ \/ call'[c] = NoCall
           \/ /\ call'[c].at = "certify" /\ call'[c].release = r
              /\ call'[c].ids = call[c].ids
        /\ \A d \in Client : d # c => call'[d] = call[d]
    BY <1>3, <2>0, CheckFreezeReads DEF IInv
  <2>3. UNCHANGED <<releases, records, embedded>> BY <1>3 DEF CheckFreeze
  <2>4. RecordsOf(r)' = RecordsOf(r) BY <2>3 DEF RecordsOf, Present
  <2>5. ASSUME call'[c].at = "certify", call'[c].release = r, call'[c].ids = call[c].ids
        PROVE Current(c)'
    BY <2>1, <2>4, <2>5 DEF Current, Creating
  <2>6. Current(c)' BY <2>2, <2>5, IdleCurrent
  <2> QED BY <2>1, <2>2, <2>3, <2>6, AloneRead
<1> QED BY <1>1, <1>2, <1>3

\* The release a record is promoted into is still building.
LEMMA PromotedAlone ==
  ASSUME IInv, Alone, ~shared, NEW c \in Client, InsertPromoted(c)
  PROVE  Alone'
<1>1. /\ call[c].release \in Release /\ call[c].record \in Record
      /\ releases[call[c].release].status = "building"
      /\ call[c].at \notin Creating /\ call[c] # NoCall
  BY InAMethod DEF IInv, Calls, Rests, InsertPromoted, At, Alone, Current, Creating
<1> DEFINE row == StagedRow(call[c].release, call[c].record, TRUE)
<1>3. PICK x \in Record : Insert(x, row) BY DEF InsertPromoted
<1> HIDE DEF row
<1>2. row \in RecordRow /\ row.release = call[c].release /\ ~row.late
  <2>1. PICK r \in Release, parent \in Record : r = call[c].release /\ parent = call[c].record
    BY <1>1
  <2>2. row = StagedRow(r, parent, TRUE) BY <2>1 DEF row
  <2>3. row \in RecordRow /\ row.release = r BY <2>2, ProvedRowIs
  <2>4. ~row.late BY <2>2, ProvedRowIs
  <2> QED BY <2>1, <2>3, <2>4
<1>4. call'[c] = NoCall /\ \A d \in Client : d # c => call'[d] = call[d]
  BY ReturnOwn DEF InsertPromoted, IInv
<1>5. UNCHANGED <<releases, embedded>> BY DEF InsertPromoted
<1> QED BY <1>1, <1>2, <1>3, <1>4, <1>5, IdleCurrent, AloneInsert DEF Released

\* The active release is the parent of the one inserted, so that it is
\* released, and all of it is still to copy.
LEMMA InsertReleaseAlone ==
  ASSUME IInv, Alone, ~shared, NEW c \in Client, InsertRelease(c)
  PROVE  Alone'
<1> DEFINE r == call[c].release
           parent == call[c].parent
<1>1. /\ r \in Release /\ Rests(c) /\ parent \in Release \cup {Null} /\ ActiveIs(parent)
      /\ call[c].at \notin Creating /\ call[c] # NoCall
  BY InAMethod DEF IInv, TypeOK, Call, Calls, Rests, InsertRelease, At, Alone, Current, Creating
<1>2. /\ \/ call'[c] = NoCall /\ (UNCHANGED releases \/ parent = Null)
         \/ /\ call'[c].at = "list" /\ call'[c].release = r
            /\ parent \in Release /\ call'[c].parent = parent
      /\ \A d \in Client : d # c => call'[d] = call[d]
  BY <1>1, InsertReleaseReads DEF IInv
<1>3. UNCHANGED <<records, embedded, shared>> BY DEF InsertRelease
<1>4. CASE Return(c) /\ UNCHANGED releases
  <2>1. call'[c] = NoCall BY <1>4, ReturnOwn DEF IInv
  <2> QED BY <1>1, <1>2, <1>3, <1>4, <2>1, IdleCurrent, AloneRead
<1>5. CASE releases[r].status = "absent" /\ releases' = [releases EXCEPT ![r] =
                 [status |-> "building", parent |-> parent, manifest |-> {}]]
  <2>1. /\ \A d \in Client : d # c => call[d] = NoCall /\ call'[d] = NoCall
        /\ OneAtATime'
    BY <1>1, <1>2, OthersIdle DEF Alone
  <2>2. /\ releases'[r].status = "building" /\ releases'[r].parent = parent
        /\ \A s \in Release : s # r => releases'[s] = releases[s]
    BY <1>1, <1>5 DEF IInv, TypeOK
  <2>3. Active' = Active BY <1>5, <2>2 DEF Active
  <2>4. ~UNCHANGED releases BY <1>5, <2>2
  <2>5. \/ call'[c] = NoCall /\ parent = Null
        \/ call'[c].at = "list" /\ call'[c].release = r /\ call'[c].parent = parent
    BY <1>2, <2>4
  <2> HIDE DEF r, parent
  <2>6. Current(c)'
    <3>1. CASE call'[c] = NoCall BY <3>1, IdleCurrent
    <3>2. CASE call'[c].at = "list" /\ call'[c].release = r /\ call'[c].parent = parent
      BY <2>2, <3>2 DEF Current, Creating
    <3> QED BY <2>5, <3>1, <3>2
  <2>7. \A d \in Client : Current(d)' BY <2>1, <2>6, IdleCurrent
  <2>8. AtMostOneActive' BY <2>3 DEF Alone, AtMostOneActive
  <2>9. \A s : RecordsOf(s)' = RecordsOf(s) BY <1>3 DEF RecordsOf, Present
  <2>10. Sealed' BY <2>2, <2>9 DEF Alone, Sealed, Released
  <2>11. BareUntilInserted' /\ NoneLate'
    BY <1>3 DEF Alone, BareUntilInserted, Present, NoneLate
  <2>12. Inherits'
    <3> SUFFICES ASSUME NEW s \in Release, NEW p \in Release, releases'[s].status # "absent",
                        releases'[s].parent = p
                 PROVE  /\ releases'[p].status \in Released
                        /\ \A x \in releases'[p].manifest :
                               \/ Copied(s, x)'
                               \/ /\ releases'[s].status = "building"
                                  /\ \E d \in Client : ToCopy(d, s, x)'
      BY DEF Inherits
    <3>1. CASE s = r
      <4>1. parent = p /\ p # Null BY <2>2, <3>1, NullAssumption
      <4>2. p \in Active BY <1>1, <4>1 DEF ActiveIs
      <4>3. releases'[p].status \in Released BY <1>5, <2>2, <4>2 DEF Active, Released
      <4>4. \A x : ToCopy(c, s, x)' BY <2>5, <3>1, <4>1 DEF ToCopy, At
      <4> QED BY <2>2, <3>1, <4>3, <4>4
    <3>2. CASE s # r
      <4>1. releases[s].status # "absent" /\ releases[s].parent = p BY <2>2, <3>2
      <4>2. /\ releases[p].status \in Released
            /\ \A x \in releases[p].manifest : Copied(s, x)
        BY <1>1, <2>1, <4>1, Filled DEF Alone
      <4>3. p # r BY <1>5, <4>2 DEF Released
      <4>4. \A x : Copied(s, x) => Copied(s, x)' BY <1>3, <2>9 DEF Copied
      <4> QED BY <2>2, <4>2, <4>3, <4>4
    <3> QED BY <3>1, <3>2
  <2> QED BY <2>1, <2>7, <2>8, <2>10, <2>11, <2>12 DEF Alone
<1> QED BY <1>4, <1>5 DEF InsertRelease

\* While c fills release r, every other release is filled, and the parent is
\* a release of its own.
LEMMA FillsOne ==
  ASSUME IInv, Alone, NEW c \in Client, call[c].at \in Creating,
         NEW r, call[c].release = r, NEW p, call[c].parent = p
  PROVE  /\ r \in Release /\ releases[r].status = "building" /\ releases[r].parent = p
         /\ \A d \in Client : d # c => call[d] = NoCall
         /\ p \in Release => releases[p].status \in Released /\ p # r
         /\ p \in Release => \A x \in releases[p].manifest : Copied(r, x) \/ ToCopy(c, r, x)
         /\ \A s, q \in Release :
                s # r /\ releases[s].status # "absent" /\ releases[s].parent = q =>
                    /\ releases[q].status \in Released
                    /\ \A x \in releases[q].manifest : Copied(s, x)
<1>1. /\ r \in Release /\ releases[r].status = "building" /\ releases[r].parent = p
      /\ call[c] # NoCall
  BY InAMethod DEF IInv, Calls, Rests, Alone, Current, Creating
<1>2. \A d \in Client : d # c => call[d] = NoCall BY <1>1 DEF Alone, OneAtATime
<1>3. \A s, x : \A d \in Client : ToCopy(d, s, x) => d = c /\ s = r
  BY <1>2 DEF ToCopy, At, NoCall
<1>4. \A s, q \in Release :
         s # r /\ releases[s].status # "absent" /\ releases[s].parent = q =>
             /\ releases[q].status \in Released
             /\ \A x \in releases[q].manifest : Copied(s, x)
  BY <1>3 DEF Alone, Inherits
<1>5. ASSUME p \in Release
      PROVE  /\ releases[p].status \in Released /\ p # r
             /\ \A x \in releases[p].manifest : Copied(r, x) \/ ToCopy(c, r, x)
  <2>1. /\ releases[p].status \in Released
        /\ \A x \in releases[p].manifest : Copied(r, x) \/ \E d \in Client : ToCopy(d, r, x)
    BY <1>1, <1>5 DEF Alone, Inherits
  <2> QED BY <1>1, <1>3, <2>1 DEF Released
<1> QED BY <1>1, <1>2, <1>4, <1>5

\* A step of create_release keeps what it builds on, if what it copies into
\* its release, and has still to copy, is all its parent has listed.
LEMMA FillingKeeps ==
  ASSUME IInv, Alone, ~shared, Grows, NEW c \in Client, call[c].at \in Creating,
         NEW r, call[c].release = r, NEW p, call[c].parent = p,
         \A d \in Client : d # c => call'[d] = call[d],
         UNCHANGED releases,
         \A s \in Release : releases[s].status \in Released => RecordsOf(s)' = RecordsOf(s),
         p \in Release => \A x \in releases[p].manifest : Copied(r, x)' \/ ToCopy(c, r, x)',
         Current(c)', BareUntilInserted', NoneLate'
  PROVE  Alone'
<1>1. /\ r \in Release /\ releases[r].status = "building" /\ releases[r].parent = p
      /\ \A s, q \in Release :
             s # r /\ releases[s].status # "absent" /\ releases[s].parent = q =>
                 /\ releases[q].status \in Released
                 /\ \A x \in releases[q].manifest : Copied(s, x)
      /\ p \in Release => releases[p].status \in Released
  BY FillsOne
<1>2. call[c] # NoCall BY InAMethod DEF Creating
<1>3. /\ \A d \in Client : d # c => call[d] = NoCall /\ call'[d] = NoCall
      /\ OneAtATime'
  BY <1>2, OthersIdle DEF Alone
<1>4. \A d \in Client : Current(d)' BY <1>3, IdleCurrent
<1>5. AtMostOneActive' BY DEF Alone, AtMostOneActive, Active
<1>6. Sealed' BY DEF Alone, Sealed
<1>7. Inherits'
  <2> SUFFICES ASSUME NEW s \in Release, NEW q \in Release, releases[s].status # "absent",
                      releases[s].parent = q
               PROVE  /\ releases[q].status \in Released
                      /\ \A x \in releases[q].manifest :
                             \/ Copied(s, x)'
                             \/ releases[s].status = "building" /\ \E d \in Client : ToCopy(d, s, x)'
    BY DEF Inherits
  <2>1. CASE s = r
    <3>1. p = q BY <1>1, <2>1
    <3>2. \A x \in releases[q].manifest : Copied(s, x)' \/ ToCopy(c, s, x)'
      BY <2>1, <3>1
    <3> QED BY <1>1, <2>1, <3>1, <3>2
  <2>2. CASE s # r
    <3>1. /\ releases[q].status \in Released
          /\ \A x \in releases[q].manifest : Copied(s, x)
      BY <1>1, <2>2
    <3> QED BY <3>1, CopiedStays
  <2> QED BY <2>1, <2>2
<1> QED BY <1>3, <1>4, <1>5, <1>6, <1>7 DEF Alone

\* All that the parent has listed is still to copy.
LEMMA ListParentAlone ==
  ASSUME IInv, Alone, ~shared, NEW c \in Client, ListParent(c)
  PROVE  Alone'
<1>0. PICK r, p : call[c].release = r /\ call[c].parent = p OBVIOUS
<1>1. /\ Rests(c) /\ p \in Release /\ call[c].at \in Creating
  BY <1>0 DEF IInv, Calls, Rests, ListParent, At, Creating
<1>2. /\ releases[r].status = "building" /\ releases[r].parent = p
      /\ releases[p].status \in Released
      /\ \A d \in Client : d # c => call[d] = NoCall
  BY <1>0, <1>1, FillsOne
<1>3. RecordsOf(p) = releases[p].manifest BY <1>1, <1>2 DEF Alone, Sealed
<1>4. /\ \/ call'[c] = NoCall /\ RecordsOf(p) = {}
         \/ /\ call'[c].at = "carry" /\ call'[c].release = r
            /\ call'[c].parent = p /\ call'[c].ids = RecordsOf(p)
      /\ \A d \in Client : d # c => call'[d] = call[d]
  BY <1>0, <1>1, ListReads DEF IInv
<1>5. UNCHANGED <<releases, records, embedded>> BY DEF ListParent
<1>6. Grows BY <1>5 DEF Grows, Present
<1>7. \A s : RecordsOf(s)' = RecordsOf(s) BY <1>5 DEF RecordsOf, Present
<1>8. CASE call'[c] = NoCall /\ RecordsOf(p) = {}
  <2>1. Current(c)' BY <1>8, IdleCurrent
  <2>2. releases[p].manifest = {} BY <1>3, <1>8
  <2>3. BareUntilInserted' /\ NoneLate'
    BY <1>5 DEF Alone, BareUntilInserted, Present, NoneLate
  <2> QED BY <1>0, <1>1, <1>4, <1>5, <1>6, <1>7, <2>1, <2>2, <2>3, FillingKeeps
<1>9. CASE /\ call'[c].at = "carry" /\ call'[c].release = r
           /\ call'[c].parent = p /\ call'[c].ids = RecordsOf(p)
  <2>1. Current(c)' BY <1>2, <1>5, <1>9 DEF Current, Creating
  <2>2. \A x \in releases[p].manifest : ToCopy(c, r, x)' BY <1>3, <1>9 DEF ToCopy
  <2>3. BareUntilInserted' /\ NoneLate'
    BY <1>5 DEF Alone, BareUntilInserted, Present, NoneLate
  <2> QED BY <1>0, <1>1, <1>4, <1>5, <1>6, <1>7, <2>1, <2>2, <2>3, FillingKeeps
<1> QED BY <1>4, <1>8, <1>9

\* The record that is carried is copied from then on; the copy is bare.
LEMMA CarryRecordAlone ==
  ASSUME IInv, Alone, ~shared, NEW c \in Client, CarryRecord(c)
  PROVE  Alone'
<1>0. PICK r, p : call[c].release = r /\ call[c].parent = p OBVIOUS
<1>1. Rests(c) /\ r \in Release /\ call[c].at \in Creating /\ call[c].at = "carry"
  BY <1>0 DEF IInv, Calls, Rests, CarryRecord, At, Creating
<1>2. /\ releases[r].status = "building" /\ releases[r].parent = p
      /\ p \in Release => \A x \in releases[p].manifest : Copied(r, x) \/ ToCopy(c, r, x)
  BY <1>0, <1>1, FillsOne
<1>3. PICK source \in call[c].ids \cap Record, x \in Record :
        /\ Insert(x, StagedRow(call[c].release, source, Proved(source)))
        /\ call'[c].at = "copy"
        /\ call'[c].release = call[c].release /\ call'[c].record = x
        /\ call'[c].parent = call[c].parent /\ call'[c].ids = call[c].ids \ {source}
        /\ \A d \in Client : d # c => call'[d] = call[d]
  BY <1>0, <1>1, CarryReads DEF IInv
<1> DEFINE row == StagedRow(call[c].release, source, Proved(source))
<1>6. Insert(x, row) BY <1>3
<1> HIDE DEF row
<1>17. Proved(source) \in BOOLEAN BY DEF IInv, TypeOK, RecordRow, Proved
<1>4. row \in RecordRow BY <1>0, <1>1, <1>17, StagedRowIs DEF row
<1>5. /\ row.status = "staged" /\ row.parent = source /\ row.release = r
      /\ row.late = (~row.proof /\ Certifying(r))
  BY <1>0, <1>1, <1>17, StagedRowIs DEF row
<1>7. /\ records[x].status = "absent" /\ records'[x] = row
      /\ \A y \in Record : y # x => records'[y] = records[y]
  BY <1>4, <1>6, InsertTyped DEF IInv
<1>8. UNCHANGED <<releases, embedded>> BY DEF CarryRecord
<1>9. Grows BY <1>7, <1>8 DEF Grows, Present
<1>10. \A s \in Release : releases[s].status \in Released => RecordsOf(s)' = RecordsOf(s)
  BY <1>2, <1>5, <1>7 DEF RecordsOf, Present, Released
<1>11. Copied(r, source)' BY <1>5, <1>7 DEF Copied, RecordsOf, Present
<1>12. \A y : ToCopy(c, r, y) /\ y # source => ToCopy(c, r, y)'
  BY <1>0, <1>1, <1>3 DEF ToCopy, At
<1>13. embedded'[x] = {} BY <1>7, <1>8 DEF Alone, BareUntilInserted, Present
<1>14. Current(c)' BY <1>0, <1>2, <1>3, <1>8, <1>13 DEF Current, Creating
<1>18. ~Certifying(r) BY <1>1, InAMethod, NoneCertified DEF At
<1>15. BareUntilInserted' /\ NoneLate'
  BY <1>5, <1>7, <1>8, <1>18 DEF Alone, BareUntilInserted, Present, NoneLate
<1>16. p \in Release => \A y \in releases[p].manifest : Copied(r, y)' \/ ToCopy(c, r, y)'
  BY <1>2, <1>9, <1>11, <1>12, CopiedStays
<1> QED BY <1>0, <1>1, <1>3, <1>8, <1>9, <1>10, <1>14, <1>15, <1>16, FillingKeeps

\* The embeddings are copied into a bare record, so the copy does not fail, and
\* create_release returns only when it has nothing left to copy.
LEMMA CopyEmbeddingsAlone ==
  ASSUME IInv, Alone, ~shared, NEW c \in Client, CopyEmbeddings(c)
  PROVE  Alone'
<1>0. PICK r, p : call[c].release = r /\ call[c].parent = p OBVIOUS
<1>1. /\ Rests(c) /\ call[c].at \in Creating /\ call[c].at = "copy"
      /\ call[c].record \in Present /\ embedded[call[c].record] = {}
  BY DEF IInv, Calls, Rests, CopyEmbeddings, At, Creating, Alone, Current
<1>2. /\ releases[r].status = "building" /\ releases[r].parent = p
      /\ p \in Release => \A x \in releases[p].manifest : Copied(r, x) \/ ToCopy(c, r, x)
  BY <1>0, <1>1, FillsOne
<1>3. /\ \/ call'[c] = NoCall /\ call[c].ids = {}
         \/ /\ call'[c].at = "carry" /\ call'[c].release = r
            /\ call'[c].parent = p /\ call'[c].ids = call[c].ids
      /\ \A d \in Client : d # c => call'[d] = call[d]
  BY <1>0, <1>1, CopyReads DEF IInv
<1>4. UNCHANGED <<releases, records>> BY DEF CopyEmbeddings
<1>5. \A y \in Record \ Present : embedded'[y] = embedded[y]
  BY <1>1 DEF CopyEmbeddings, IInv, TypeOK
<1>6. Grows BY <1>4 DEF Grows, Present
<1>7. \A s : RecordsOf(s)' = RecordsOf(s) BY <1>4 DEF RecordsOf, Present
<1>8. BareUntilInserted' /\ NoneLate'
  BY <1>4, <1>5 DEF Alone, BareUntilInserted, Present, NoneLate
<1>9. Current(c)'
  <2>1. CASE call'[c] = NoCall BY <2>1, IdleCurrent
  <2>2. CASE call'[c].at = "carry" /\ call'[c].release = r /\ call'[c].parent = p
    BY <1>2, <1>4, <2>2 DEF Current, Creating
  <2> QED BY <1>3, <2>1, <2>2
<1>10. \A x : ToCopy(c, r, x) => ToCopy(c, r, x)'
  BY <1>0, <1>1, <1>3 DEF ToCopy, At
<1>11. p \in Release => \A x \in releases[p].manifest : Copied(r, x)' \/ ToCopy(c, r, x)'
  BY <1>2, <1>6, <1>10, CopiedStays
<1> QED BY <1>0, <1>1, <1>3, <1>4, <1>6, <1>7, <1>8, <1>9, <1>11, FillingKeeps

\* A release is frozen with all its records, after they have all been copied.
LEMMA CommitFreezeAlone ==
  ASSUME IInv, IInv', Alone, ~shared, NEW c \in Client, CommitFreeze(c)
  PROVE  Alone'
<1>0. PICK r : r = call[c].release OBVIOUS
<1>1. /\ r \in Release /\ call[c].ids = RecordsOf(r) /\ releases[r].status = "building"
      /\ call[c].at \notin Creating /\ call[c] # NoCall
  BY <1>0, InAMethod DEF IInv, Calls, Rests, Held, CommitFreeze, At, Alone, Current, Creating
<1>2. call'[c] = NoCall /\ \A d \in Client : d # c => call'[d] = call[d]
  BY ReturnOwn DEF CommitFreeze, IInv
<1>3. Current(c)' BY <1>2, IdleCurrent
<1>4. Certify(r, call[c].ids) BY <1>0 DEF CommitFreeze
<1>5. Alone'
  <2>1. /\ \A d \in Client : d # c => call[d] = NoCall /\ call'[d] = NoCall
        /\ OneAtATime'
    BY <1>1, <1>2, OthersIdle DEF Alone
  <2>2. \A d \in Client : Current(d)' BY <1>3, <2>1, IdleCurrent
  <2>4. releases \in [Release -> ReleaseRow] /\ records \in [Record -> RecordRow]
    BY DEF IInv, TypeOK
  <2>5. /\ releases'[r].status = "frozen" /\ releases'[r].manifest = RecordsOf(r)
        /\ releases'[r].parent = releases[r].parent
        /\ \A s \in Release : s # r => releases'[s] = releases[s]
    BY <1>1, <1>4, <2>4 DEF Certify, ReleaseRow
  <2>6. \A x \in Record : /\ records'[x].release = records[x].release
                          /\ records'[x].parent = records[x].parent
                          /\ records'[x].late = records[x].late
                          /\ records'[x].status # "absent" <=> records[x].status # "absent"
    <3> SUFFICES ASSUME NEW x \in Record
                 PROVE  /\ records'[x].release = records[x].release
                        /\ records'[x].parent = records[x].parent
                        /\ records'[x].late = records[x].late
                        /\ records'[x].status # "absent" <=> records[x].status # "absent"
      OBVIOUS
    <3>1. records[x] \in RecordRow BY <2>4
    <3>2. CASE x \in StagedIn(r)
      <4>1. records'[x] = [records[x] EXCEPT !.status = "certified"] BY <1>4, <3>2 DEF Certify
      <4>2. records[x].status = "staged" BY <3>2 DEF StagedIn
      <4> QED BY <3>1, <4>1, <4>2 DEF RecordRow
    <3>3. CASE x \notin StagedIn(r)
      <4>1. records'[x] = records[x] BY <1>4, <3>3 DEF Certify
      <4> QED BY <4>1
    <3> QED BY <3>2, <3>3
  <2>7. \A s : RecordsOf(s)' = RecordsOf(s) BY <2>6 DEF RecordsOf, Present
  <2>8. \A s, x : Copied(s, x) => Copied(s, x)'
    BY <2>6, <2>7, RecordsOfAre DEF Copied
  <2>9. Active' = Active BY <1>1, <2>5 DEF Active
  <2>10. AtMostOneActive' BY <2>9 DEF Alone, AtMostOneActive
  <2>11. Sealed' BY <2>5, <2>7 DEF Alone, Sealed
  <2>12. BareUntilInserted' /\ NoneLate'
    BY <2>6 DEF Alone, BareUntilInserted, Present, NoneLate, CommitFreeze
  <2>13. Inherits'
    <3> SUFFICES ASSUME NEW s \in Release, NEW p \in Release, releases'[s].status # "absent",
                        releases'[s].parent = p
                 PROVE  /\ releases'[p].status \in Released
                        /\ \A x \in releases'[p].manifest : Copied(s, x)'
      BY DEF Inherits
    <3>1. releases[s].status # "absent" /\ releases[s].parent = p BY <1>1, <2>5
    <3>2. /\ releases[p].status \in Released
          /\ \A x \in releases[p].manifest : Copied(s, x)
      BY <1>1, <2>1, <3>1, Filled DEF Alone
    <3>3. p # r BY <1>1, <3>2 DEF Released
    <3> QED BY <2>5, <2>8, <3>2, <3>3
  <2> QED BY <2>1, <2>2, <2>10, <2>11, <2>12, <2>13 DEF Alone
<1> QED BY <1>5

\* The release that is activated retires the one that was active, and no other
\* has become active since.
LEMMA CommitActivateAlone ==
  ASSUME IInv, Alone, ~shared, NEW c \in Client, CommitActivate(c)
  PROVE  Alone'
<1>0. PICK r : r = call[c].release OBVIOUS
<1>1. /\ r \in Release /\ releases[r].status = "frozen" /\ call[c].retire = Active
      /\ call[c].at \notin Creating /\ call[c] # NoCall
  BY <1>0, InAMethod DEF IInv, Calls, Rests, Held, CommitActivate, At, Alone, Current, Creating
<1>2. call'[c] = NoCall /\ \A d \in Client : d # c => call'[d] = call[d]
  BY ReturnOwn DEF CommitActivate, IInv
<1>3. /\ \A d \in Client : d # c => call[d] = NoCall /\ call'[d] = NoCall
      /\ OneAtATime'
  BY <1>1, <1>2, OthersIdle DEF Alone
<1>4. \A d \in Client : Current(d)' BY <1>2, <1>3, IdleCurrent
<1>5. UNCHANGED <<records, embedded>> BY DEF CommitActivate
<1>6. \A s \in Release :
        /\ s = r => releases'[s].status = "active"
        /\ s # r => releases'[s].status # "active"
        /\ releases'[s].status \in Released <=> releases[s].status \in Released
        /\ releases'[s].status # "absent" <=> releases[s].status # "absent"
        /\ releases'[s].status = "building" <=> releases[s].status = "building"
        /\ releases'[s].parent = releases[s].parent
        /\ releases'[s].manifest = releases[s].manifest
  <2> SUFFICES ASSUME NEW s \in Release
               PROVE  /\ s = r => releases'[s].status = "active"
                      /\ s # r => releases'[s].status # "active"
                      /\ releases'[s].status \in Released <=> releases[s].status \in Released
                      /\ releases'[s].status # "absent" <=> releases[s].status # "absent"
                      /\ releases'[s].status = "building" <=> releases[s].status = "building"
                      /\ releases'[s].parent = releases[s].parent
                      /\ releases'[s].manifest = releases[s].manifest
    OBVIOUS
  <2>1. releases[s] \in ReleaseRow BY DEF IInv, TypeOK
  <2>2. CASE s = r
    <3>1. releases'[s] = [releases[s] EXCEPT !.status = "active"] BY <1>0, <2>2 DEF CommitActivate
    <3> QED BY <1>1, <2>1, <2>2, <3>1 DEF ReleaseRow, Released
  <2>3. CASE s # r /\ s \in Active
    <3>1. releases'[s] = [releases[s] EXCEPT !.status = "retired"]
      BY <1>0, <1>1, <2>3 DEF CommitActivate
    <3>2. releases[s].status = "active" BY <2>3 DEF Active
    <3> QED BY <2>1, <2>3, <3>1, <3>2 DEF ReleaseRow, Released
  <2>4. CASE s # r /\ s \notin Active
    <3>1. releases'[s] = releases[s] BY <1>0, <1>1, <2>4 DEF CommitActivate
    <3> QED BY <2>4, <3>1 DEF Active
  <2> QED BY <2>2, <2>3, <2>4
<1>7. AtMostOneActive' BY <1>6 DEF AtMostOneActive, Active
<1>8. \A s : RecordsOf(s)' = RecordsOf(s) BY <1>5 DEF RecordsOf, Present
<1>9. \A s, x : Copied(s, x) => Copied(s, x)' BY <1>5, <1>8 DEF Copied
<1>10. Sealed' BY <1>6, <1>8 DEF Alone, Sealed
<1>11. BareUntilInserted' /\ NoneLate' BY <1>5 DEF Alone, BareUntilInserted, Present, NoneLate
<1>12. Inherits'
  <2> SUFFICES ASSUME NEW s \in Release, NEW p \in Release, releases'[s].status # "absent",
                      releases'[s].parent = p
               PROVE  /\ releases'[p].status \in Released
                      /\ \A x \in releases'[p].manifest : Copied(s, x)'
    BY DEF Inherits
  <2>1. /\ releases[p].status \in Released
        /\ \A x \in releases[p].manifest : Copied(s, x)
    BY <1>1, <1>3, <1>6, Filled DEF Alone
  <2> QED BY <1>6, <1>9, <2>1
<1> QED BY <1>3, <1>4, <1>7, <1>10, <1>11, <1>12 DEF Alone

-----------------------------------------------------------------------------
\* A library that starts empty has one process in no method.
LEMMA AloneStart == Init => AloneInv
<1> SUFFICES ASSUME Init PROVE AloneInv OBVIOUS
<1>1. \A c \in Client : call[c] = NoCall BY DEF Init
<1>2. \A r \in Release : releases[r].status = "absent" BY DEF Init
<1>3. \A c \in Client : Current(c) BY <1>1 DEF Current, NoCall, Creating
<1>4. OneAtATime BY <1>1 DEF OneAtATime
<1>5. AtMostOneActive /\ Sealed /\ Inherits
  BY <1>2 DEF AtMostOneActive, Active, Sealed, Inherits, Released
<1>6. BareUntilInserted /\ NoneLate BY DEF Init, BareUntilInserted, NoneLate, NoRecord
<1> QED BY <1>3, <1>4, <1>5, <1>6, Initial DEF AloneInv, Alone

\* No step of a process that is alone breaks it.
LEMMA AloneStep == AloneInv /\ [Next]_vars => AloneInv'
<1> SUFFICES ASSUME AloneInv, [Next]_vars PROVE AloneInv' OBVIOUS
<1>1. IInv /\ IInv' BY Invariance DEF AloneInv
<1>2. shared' = shared
  BY DEF Next, vars, Begin, SubmitCandidate, IndexRecord, CreateRelease, InsertUnproved,
     Promote, Freeze, Activate, Retrieve, Continue, InsertRelease, ListParent, CarryRecord,
     CopyEmbeddings, InsertPromoted, PutEmbedding, CheckFreeze, CommitFreeze, CommitActivate,
     RankIndex, Abandon
<1>3. ASSUME ~shared PROVE Alone'
  <2>1. Alone BY <1>3 DEF AloneInv
  <2>2. CASE UNCHANGED vars
    BY <2>1, <2>2 DEF vars, Alone, OneAtATime, Current, AtMostOneActive, NoneLate, Sealed,
       BareUntilInserted, Inherits, Copied, ToCopy, At, Active, ActiveIs, RecordsOf, Present
  <2>3. ASSUME NEW c \in Client, Continue(c) PROVE Alone'
    BY <1>1, <1>3, <2>1, <2>3, ReadsOn, PromotedAlone, InsertReleaseAlone, ListParentAlone,
       CarryRecordAlone, CopyEmbeddingsAlone, CommitFreezeAlone, CommitActivateAlone DEF Continue
  <2>4. ASSUME NEW c \in Client, Abandon(c) PROVE FALSE BY <1>3, <2>4 DEF Abandon
  <2> QED BY <1>1, <1>3, <2>1, <2>2, <2>3, <2>4, BeginAlone DEF Next
<1> QED BY <1>1, <1>2, <1>3 DEF AloneInv

\* So it holds for ever, whatever the deployment.
LEMMA AloneInvariant == Spec => []AloneInv
  BY AloneStart, AloneStep, PTL DEF Spec

\* However promotions, freezes and activations interleave, and wherever a
\* process dies, a certified record has a frozen release, and a promotion proof
\* unless another process inserted it between the two statements of the freeze.
THEOREM CertifiedOnlyWithProof == Spec => []CertifiedAreProved
<1>1. AloneInv => CertifiedAreProved
  <2> SUFFICES ASSUME AloneInv, NEW x \in Record, records[x].status = "certified"
               PROVE  /\ Proved(x) \/ (shared /\ records[x].late)
                      /\ \E r \in Release : /\ records[x].release = r
                                            /\ releases[r].status \in Released
    BY DEF CertifiedAreProved
  <2>1. /\ Proved(x) \/ records[x].late
        /\ \E r \in Release : records[x].release = r /\ releases[r].status \in Released
    BY DEF AloneInv, IInv, Sound, CertifiedAreTested
  <2>2. ~shared => ~records[x].late BY DEF AloneInv, Alone, NoneLate
  <2> QED BY <2>1, <2>2
<1> QED BY <1>1, AloneInvariant, PTL

\* A process that has its repository to itself never finds two active releases,
\* whatever it creates, freezes and activates.
THEOREM ActiveIsOne == Spec => []OneActiveAlone
<1>1. AloneInv => OneActiveAlone
  <2> SUFFICES ASSUME Alone PROVE Cardinality(Active) <= 1 BY DEF AloneInv, OneActiveAlone
  <2>1. CASE Active = {} BY <2>1, FS_EmptySet
  <2>2. CASE Active # {}
    <3>1. PICK r : r \in Active BY <2>2
    <3>2. Active = {r} BY <3>1 DEF Alone, AtMostOneActive
    <3> QED BY <3>2, FS_Singleton
  <2> QED BY <2>1, <2>2
<1> QED BY <1>1, AloneInvariant, PTL

\* What it is given as examples is listed in the manifest of the active release.
THEOREM AnswersAreListed == Spec => []AnswersListedAlone
<1>1. AloneInv => AnswersListedAlone
  BY DEF AloneInv, Alone, AnswersListedAlone, Current, At
<1> QED BY <1>1, AloneInvariant, PTL

\* And every release it freezes carries all that the release before it listed.
THEOREM ReleasesAreCumulative == Spec => []CumulativeAlone
<1>1. AloneInv => CumulativeAlone
  <2> SUFFICES ASSUME Alone, NEW r \in Release, NEW p \in Release,
                      releases[r].status \in Released, releases[r].parent = p,
                      NEW x \in releases[p].manifest
               PROVE  \E y \in releases[r].manifest : records[y].parent = x
    BY DEF AloneInv, CumulativeAlone
  <2>1. Copied(r, x) BY DEF Alone, Inherits, Released
  <2>2. RecordsOf(r) = releases[r].manifest BY DEF Alone, Sealed
  <2> QED BY <2>1, <2>2 DEF Copied
<1> QED BY <1>1, AloneInvariant, PTL
=============================================================================

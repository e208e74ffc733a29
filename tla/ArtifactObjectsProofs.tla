------------------------ MODULE ArtifactObjectsProofs ------------------------
(***************************************************************************)
(* The artifact store keeps its objects whole for any contents and any     *)
(* number of processes, whenever they die, as long as sources hold still;   *)
(* and so a backup taken meanwhile restores whole.                         *)
(***************************************************************************)
EXTENDS Backup, TLAPS

\* A put in progress.
Put == [call : {"put_bytes", "put_file"}, at : {"exists", "write", "replace"},
        digest : Content, temporary : Content \cup {Missing}]

\* A temporary that is about to be renamed holds the content of its digest.
TemporaryHolds ==
    \A p \in Putter :
        putting[p].at = "replace" => putting[p].temporary \in Content
                                     /\ (changing \/ putting[p].temporary = Digest(p))

ObjectsInv == ObjectsTypeOK /\ TemporaryHolds /\ ArtifactsHold

\* A process that is storing has a put in progress.
LEMMA StoringIsPut ==
  ASSUME ObjectsTypeOK, NEW p \in Putter, putting[p] # NotPutting
  PROVE  putting[p] \in Put
  BY DEF ObjectsTypeOK, Put

\* Neither of the two marks is a content.
LEMMA MarksApart == Missing \notin Content /\ Part \notin Content
  BY ArtifactAssumption

\* The end of a put that finds its object changes no object; it returns a
\* reference to what it verified.
LEMMA DeduplicateKeeps ==
  ASSUME ObjectsInv, NEW p \in Putter, putting[p] \in Put, Deduplicate(p),
         UNCHANGED <<objects, reading, changing>>
  PROVE  ObjectsInv'
  <1>1. ObjectsTypeOK'
    BY DEF ObjectsInv, ObjectsTypeOK, Deduplicate, PutIs, Digest, Put
  <1>2. TemporaryHolds'
    BY DEF ObjectsInv, ObjectsTypeOK, TemporaryHolds, Deduplicate, PutIs, Digest, NotPutting
  <1>3. ArtifactsHold'
    BY DEF ObjectsInv, ArtifactsHold, Deduplicate
  <1> QED
    BY <1>1, <1>2, <1>3 DEF ObjectsInv

\* A put begins with no temporary.
LEMMA PutStartKeeps ==
  ASSUME ObjectsInv, NEW p \in Putter, PutStart(p) PROVE ObjectsInv'
  <1>1. PICK call \in {"put_bytes", "put_file"}, d \in Content :
            PutIs(p, [call |-> call, at |-> "exists", digest |-> d, temporary |-> Missing])
    BY DEF PutStart
  <1>2. ObjectsTypeOK'
    BY <1>1 DEF ObjectsInv, ObjectsTypeOK, PutStart, PutIs
  <1>3. TemporaryHolds'
    BY <1>1 DEF ObjectsInv, ObjectsTypeOK, TemporaryHolds, PutStart, PutIs, Digest
  <1>4. ArtifactsHold'
    BY DEF ObjectsInv, ArtifactsHold, PutStart
  <1> QED
    BY <1>2, <1>3, <1>4 DEF ObjectsInv

\* A process that finds no object goes on to write a temporary.
LEMMA LookForObjectKeeps ==
  ASSUME ObjectsInv, NEW p \in Putter, LookForObject(p) PROVE ObjectsInv'
  <1>1. putting[p] \in Put
    BY StoringIsPut DEF ObjectsInv, LookForObject, NotPutting
  <1>2. CASE Deduplicate(p)
    BY <1>1, <1>2, DeduplicateKeeps DEF LookForObject
  <1>3. CASE PutIs(p, [putting[p] EXCEPT !.at = "write"]) /\ UNCHANGED referred
    <2>1. ObjectsTypeOK'
      BY <1>1, <1>3 DEF ObjectsInv, ObjectsTypeOK, LookForObject, PutIs, Put
    <2>2. TemporaryHolds'
      BY <1>1, <1>3 DEF ObjectsInv, ObjectsTypeOK, TemporaryHolds, LookForObject, PutIs, Digest, Put
    <2>3. ArtifactsHold'
      BY <1>3 DEF ObjectsInv, ArtifactsHold, LookForObject
    <2> QED
      BY <2>1, <2>2, <2>3 DEF ObjectsInv
  <1> QED
    BY <1>2, <1>3 DEF LookForObject

\* The temporary holds the digest's content, unless its source has changed.
LEMMA WriteTemporaryKeeps ==
  ASSUME ObjectsInv, NEW p \in Putter, WriteTemporary(p) PROVE ObjectsInv'
  <1>1. putting[p] \in Put
    BY StoringIsPut DEF ObjectsInv, WriteTemporary, NotPutting
  <1>2. PICK c \in Copied(p) :
            PutIs(p, [putting[p] EXCEPT !.at = "replace", !.temporary = c])
    BY DEF WriteTemporary
  <1>3. c \in Content /\ (changing \/ c = Digest(p))
    BY <1>1, <1>2 DEF Copied, Digest, Put
  <1>4. ObjectsTypeOK'
    BY <1>1, <1>2, <1>3 DEF ObjectsInv, ObjectsTypeOK, WriteTemporary, PutIs, Put
  <1>5. TemporaryHolds'
    BY <1>1, <1>2, <1>3 DEF ObjectsInv, ObjectsTypeOK, TemporaryHolds, WriteTemporary, PutIs, Digest, Put
  <1>6. ArtifactsHold'
    BY DEF ObjectsInv, ArtifactsHold, WriteTemporary
  <1> QED
    BY <1>4, <1>5, <1>6 DEF ObjectsInv

\* The rename puts the whole object in its place, at once.
LEMMA PublishKeeps ==
  ASSUME ObjectsInv, NEW p \in Putter, Publish(p) PROVE ObjectsInv'
  <1>1. putting[p] \in Put
    BY StoringIsPut DEF ObjectsInv, Publish, NotPutting
  <1>2. CASE Deduplicate(p) /\ UNCHANGED objects
    BY <1>1, <1>2, DeduplicateKeeps DEF Publish
  <1>3. CASE /\ objects' = [objects EXCEPT ![Digest(p)] = putting[p].temporary]
             /\ referred' = referred \cup {Digest(p)} /\ PutIs(p, NotPutting)
    <2>1. /\ Digest(p) \in Content /\ putting[p].temporary \in Content
          /\ changing \/ putting[p].temporary = Digest(p)
      BY <1>1 DEF ObjectsInv, TemporaryHolds, Publish, Digest, Put
    <2>2. ObjectsTypeOK'
      BY <1>3, <2>1 DEF ObjectsInv, ObjectsTypeOK, Publish, PutIs
    <2>3. TemporaryHolds'
      BY <1>3 DEF ObjectsInv, ObjectsTypeOK, TemporaryHolds, Publish, PutIs, Digest, NotPutting
    <2>4. ArtifactsHold'
      BY <1>3, <2>1, MarksApart DEF ObjectsInv, ObjectsTypeOK, ArtifactsHold, Publish
    <2> QED
      BY <2>2, <2>3, <2>4 DEF ObjectsInv
  <1> QED
    BY <1>2, <1>3 DEF Publish

\* A death leaves the objects alone.
LEMMA PutDiesKeeps ==
  ASSUME ObjectsInv, NEW p \in Putter, PutDies(p) PROVE ObjectsInv'
  <1>1. ObjectsTypeOK'
    BY DEF ObjectsInv, ObjectsTypeOK, PutDies, PutIs
  <1>2. TemporaryHolds'
    BY DEF ObjectsInv, ObjectsTypeOK, TemporaryHolds, PutDies, PutIs, Digest, NotPutting
  <1>3. ArtifactsHold'
    BY DEF ObjectsInv, ArtifactsHold, PutDies
  <1> QED
    BY <1>1, <1>2, <1>3 DEF ObjectsInv

\* Every step keeps the invariant.
LEMMA ObjectsStep == ObjectsInv /\ [ObjectsNext]_objectVars => ObjectsInv'
  <1> SUFFICES ASSUME ObjectsInv, [ObjectsNext]_objectVars PROVE ObjectsInv'
    OBVIOUS
  <1>1. CASE \E p \in Putter : PutStart(p)
    BY <1>1, PutStartKeeps
  <1>2. CASE \E p \in Putter : LookForObject(p)
    BY <1>2, LookForObjectKeeps
  <1>3. CASE \E p \in Putter : WriteTemporary(p)
    BY <1>3, WriteTemporaryKeeps
  <1>4. CASE \E p \in Putter : Publish(p)
    BY <1>4, PublishKeeps
  <1>5. CASE \E p \in Putter : PutDies(p)
    BY <1>5, PutDiesKeeps
  <1>6. CASE Resolve
    BY <1>6, MarksApart DEF Resolve, ObjectsInv, ObjectsTypeOK, TemporaryHolds, Digest, ArtifactsHold
  <1>7. CASE ReadObject
    BY <1>7 DEF ReadObject, ObjectsInv, ObjectsTypeOK, TemporaryHolds, Digest, ArtifactsHold
  <1>8. CASE UNCHANGED objectVars
    BY <1>8 DEF objectVars, ObjectsInv, ObjectsTypeOK, TemporaryHolds, Digest, ArtifactsHold
  <1> QED
    BY <1>1, <1>2, <1>3, <1>4, <1>5, <1>6, <1>7, <1>8 DEF ObjectsNext

\* The invariant holds of the empty store.
LEMMA ObjectsStart == ObjectsInit => ObjectsInv
  BY DEF ObjectsInit, ObjectsInv, ObjectsTypeOK, TemporaryHolds, Digest, ArtifactsHold, NotPutting

\* The store and the puts in progress stay well typed (put_bytes, put_file).
THEOREM ObjectsTypeCorrect == ObjectsSpec => []ObjectsTypeOK
  BY ObjectsStart, ObjectsStep, PTL DEF ObjectsSpec, ObjectsInv

\* Whatever the contents, the processes and their deaths, an object is whole
\* or missing, and is there for every reference that was returned (put_bytes,
\* put_file, _verify_path).
THEOREM ArtifactsWhole == ObjectsSpec => []ArtifactsHold
  BY ObjectsStart, ObjectsStep, PTL DEF ObjectsSpec, ObjectsInv

-----------------------------------------------------------------------------
(* Backup and restore.                                                     *)

\* The files are what their digests say, and have what the rows refer to.
Whole(files, refs) ==
    /\ \A d \in Content : files[d] \in {Missing, d}
    /\ \A d \in refs : files[d] = d

\* What each step of create_backup has established for the next.
TakingSound ==
    /\ taking.at # "off" => taking.rows \subseteq referred
    /\ taking.at \in {"hash", "pack", "publish"} =>
           /\ Whole(taking.files, taking.rows)
           /\ \A d \in Listed(taking.files) : objects[d] = d
    /\ taking.at \in {"pack", "publish"} => taking.hashes = taking.files

\* An archive holds what it says, or something that cannot be read; none holds nothing.
ArchiveSound ==
    /\ Whole(archive.hashes, archive.rows)
    /\ \A d \in Content : archive.files[d] \in {archive.hashes[d], Part}

\* What is restored is what was verified, whatever the archive is by then.
RestoringSound ==
    /\ restoring.at # "off" => Whole(restoring.hashes, restoring.rows)
    /\ restoring.at = "publish" => restoring.files = restoring.hashes
    /\ restored.there => Whole(restored.files, restored.rows)

BackupInv ==
    /\ BackupTypeOK /\ ObjectsInv
    /\ rows \subseteq referred
    /\ ~changing => TakingSound /\ ArchiveSound /\ RestoringSound

\* The store forgets no reference and, while sources hold still, no object.
LEMMA StoreGrows ==
  ASSUME ObjectsInv, [ObjectsNext]_objectVars
  PROVE  /\ referred \subseteq referred' /\ changing' = changing
         /\ ~changing => \A d \in Content : objects[d] = d => objects'[d] = d
  <1>1. CASE \E p \in Putter : PutStart(p)
    BY <1>1 DEF PutStart
  <1>2. CASE \E p \in Putter : LookForObject(p)
    BY <1>2 DEF LookForObject, Deduplicate
  <1>3. CASE \E p \in Putter : WriteTemporary(p)
    BY <1>3 DEF WriteTemporary
  <1>4. ASSUME NEW p \in Putter, Publish(p)
        PROVE  /\ referred \subseteq referred' /\ changing' = changing
               /\ ~changing => \A d \in Content : objects[d] = d => objects'[d] = d
    <2>1. CASE Deduplicate(p) /\ UNCHANGED objects
      BY <1>4, <2>1 DEF Publish, Deduplicate
    <2>2. CASE /\ objects' = [objects EXCEPT ![Digest(p)] = putting[p].temporary]
               /\ referred' = referred \cup {Digest(p)}
      <3>1. ~changing => putting[p].temporary = Digest(p)
        BY <1>4 DEF Publish, ObjectsInv, TemporaryHolds
      <3>2. objects \in [Content -> Content \cup {Missing, Part}]
        BY DEF ObjectsInv, ObjectsTypeOK
      <3> QED
        BY <1>4, <2>2, <3>1, <3>2 DEF Publish
    <2> QED
      BY <1>4, <2>1, <2>2 DEF Publish
  <1>5. CASE \E p \in Putter : PutDies(p)
    BY <1>5 DEF PutDies
  <1>6. CASE Resolve \/ ReadObject \/ UNCHANGED objectVars
    BY <1>6 DEF Resolve, ReadObject, objectVars
  <1> QED
    BY <1>1, <1>2, <1>3, <1>4, <1>5, <1>6 DEF ObjectsNext

\* The store goes on under a backup.
LEMMA StoreKeepsBackup ==
  ASSUME BackupInv, StoreStep \/ PutKilled PROVE BackupInv'
  <1>1. [ObjectsNext]_objectVars
    BY DEF StoreStep, PutKilled, ObjectsNext
  <1>2. ObjectsInv'
    BY <1>1, ObjectsStep DEF BackupInv
  <1>3. UNCHANGED <<rows, taking, archive, restoring, restored>> /\ incoming' \in {incoming, TRUE}
    BY DEF StoreStep, PutKilled, takes, restores
  <1>4. /\ referred \subseteq referred' /\ changing' = changing
        /\ ~changing => \A d \in Content : objects[d] = d => objects'[d] = d
    BY <1>1, StoreGrows DEF BackupInv
  <1>5. BackupTypeOK'
    <2>1. ObjectsTypeOK'
      BY <1>2 DEF ObjectsInv
    <2> QED
      BY <1>3, <2>1 DEF BackupInv, BackupTypeOK, Files
  <1>6. rows' \subseteq referred'
    BY <1>3, <1>4 DEF BackupInv
  <1>7. ASSUME ~changing PROVE (TakingSound /\ ArchiveSound /\ RestoringSound)'
    <2>1. TakingSound'
      BY <1>3, <1>4, <1>7 DEF BackupInv, TakingSound, Whole, Listed
    <2>2. ArchiveSound'
      BY <1>3, <1>7 DEF BackupInv, ArchiveSound, Whole
    <2>3. RestoringSound'
      BY <1>3, <1>7 DEF BackupInv, RestoringSound, Whole
    <2> QED
      BY <2>1, <2>2, <2>3
  <1> QED
    BY <1>2, <1>4, <1>5, <1>6, <1>7 DEF BackupInv

\* Steps that leave the store alone leave its invariant alone.
LEMMA ObjectsRest == ASSUME ObjectsInv, UNCHANGED objectVars PROVE ObjectsInv'
  BY ObjectsStep

\* A new reference is to what was put.
LEMMA ReferToKeeps == ASSUME BackupInv, ReferTo PROVE BackupInv'
  <1>1. /\ UNCHANGED <<objects, putting, reading, referred, changing>>
        /\ UNCHANGED <<incoming, taking, archive, restoring, restored>>
    BY DEF ReferTo, objectVars, takes, restores
  <1>2. rows' \subseteq referred'
    BY <1>1 DEF BackupInv, ReferTo
  <1>3. ObjectsInv'
    BY <1>1, ObjectsRest DEF BackupInv, objectVars
  <1>4. BackupTypeOK'
    BY <1>1, <1>2, <1>3 DEF BackupInv, BackupTypeOK, ObjectsInv, ObjectsTypeOK, Files
  <1>5. ASSUME ~changing PROVE (TakingSound /\ ArchiveSound /\ RestoringSound)'
    BY <1>1, <1>5 DEF BackupInv, TakingSound, ArchiveSound, RestoringSound, Whole, Listed
  <1> QED
    BY <1>1, <1>2, <1>3, <1>4, <1>5 DEF BackupInv

TakeStep ==
    \/ ReadRows \/ ListArtifacts \/ HashFiles \/ PackArchive \/ PublishArchive \/ BackupStops
    \/ RemoveArchive \/ DamageArchive
RestoreStep == VerifyBackup \/ VerifyAgain \/ Extract \/ PublishRestored \/ RestoreStops

\* What a backup that has listed the artifacts finds of them later.
LEMMA StillPresent ==
  ASSUME BackupInv, ~changing, taking.at \in {"hash", "pack"}
  PROVE  Present = taking.files
  <1>1. taking.files \in Files
    BY DEF BackupInv, BackupTypeOK
  <1>2. \A d \in Content : taking.files[d] = IF d \in Listed(taking.files) THEN objects[d] ELSE Missing
    BY DEF BackupInv, TakingSound, Whole, Listed
  <1> QED
    BY <1>1, <1>2 DEF Present, Files

\* Presence is a table of files.
LEMMA PresentIsFiles == ASSUME BackupTypeOK PROVE Present \in Files /\ objects \in Files /\ NoFiles \in Files
  BY DEF BackupTypeOK, ObjectsTypeOK, Present, Files, NoFiles

\* create_backup keeps what it is made of well typed.
LEMMA TakeTypes ==
  ASSUME BackupTypeOK, TakeStep
  PROVE  BackupTypeOK' /\ UNCHANGED <<objectVars, rows, restoring, restored>>
  <1>1. UNCHANGED <<objects, putting, reading, referred, changing, rows, incoming, restoring, restored>>
    BY DEF TakeStep, ReadRows, ListArtifacts, HashFiles, PackArchive, PublishArchive, BackupStops,
           RemoveArchive, DamageArchive, Taking, objectVars, restores
  <1>2. NotTaking \in [at : {"off", "list", "hash", "pack", "publish"},
                       rows : SUBSET Content, hashes : Files, files : Files]
    BY PresentIsFiles DEF NotTaking
  <1>3. taking' \in [at : {"off", "list", "hash", "pack", "publish"},
                     rows : SUBSET Content, hashes : Files, files : Files]
    <2>1. CASE ReadRows
      BY <1>2, <2>1 DEF ReadRows, TakesOn, BackupTypeOK
    <2>2. CASE ListArtifacts
      BY <1>2, <2>2, PresentIsFiles DEF ListArtifacts, TakesOn, BackupTypeOK
    <2>3. CASE HashFiles
      BY <2>3, PresentIsFiles DEF HashFiles, TakesOn, BackupTypeOK
    <2>4. CASE PackArchive
      BY <2>4, PresentIsFiles DEF PackArchive, TakesOn, BackupTypeOK
    <2>5. CASE PublishArchive \/ BackupStops
      BY <1>2, <2>5 DEF PublishArchive, BackupStops, TakesOn
    <2>6. CASE RemoveArchive \/ DamageArchive
      BY <2>6 DEF RemoveArchive, DamageArchive, BackupTypeOK
    <2> QED
      BY <2>1, <2>2, <2>3, <2>4, <2>5, <2>6 DEF TakeStep
  <1>4. archive' \in [there : BOOLEAN, rows : SUBSET Content, hashes : Files, files : Files]
    <2>1. CASE ReadRows \/ ListArtifacts \/ HashFiles \/ PackArchive \/ BackupStops
      BY <2>1 DEF ReadRows, ListArtifacts, HashFiles, PackArchive, BackupStops, TakesOn, BackupTypeOK
    <2>2. CASE PublishArchive
      BY <2>2 DEF PublishArchive, BackupTypeOK
    <2>3. CASE RemoveArchive
      BY <2>3, PresentIsFiles DEF RemoveArchive, NoArchive
    <2>4. CASE DamageArchive
      <3>1. PICK d \in Content : archive' = [archive EXCEPT !.files[d] = Part]
        BY <2>4 DEF DamageArchive, Listed
      <3>2. [archive.files EXCEPT ![d] = Part] \in Files
        BY DEF BackupTypeOK, Files
      <3> QED
        BY <3>1, <3>2 DEF BackupTypeOK
    <2> QED
      BY <2>1, <2>2, <2>3, <2>4 DEF TakeStep
  <1> QED
    BY <1>1, <1>3, <1>4 DEF BackupTypeOK, ObjectsTypeOK, objectVars

\* Rows are read before artifacts are listed, and artifacts only added.
LEMMA TakeKeeps == ASSUME BackupInv, TakeStep PROVE BackupInv'
  <1>1. BackupTypeOK' /\ UNCHANGED <<objectVars, rows, restoring, restored>>
    BY TakeTypes DEF BackupInv
  <1>2. ObjectsInv' /\ UNCHANGED <<objects, referred, changing>>
    BY <1>1, ObjectsRest DEF BackupInv, objectVars
  <1>3. ASSUME ~changing PROVE TakingSound'
    <2>1. CASE ReadRows
      BY <1>1, <1>2, <2>1 DEF ReadRows, TakesOn, TakingSound, BackupInv, NotTaking
    <2>2. CASE ListArtifacts
      <3>1. CASE taking' = NotTaking
        BY <3>1 DEF NotTaking, TakingSound
      <3>2. CASE taking' = [taking EXCEPT !.at = "hash", !.files = objects]
        <4>1. taking'.at = "hash" /\ taking'.files = objects /\ taking'.rows = taking.rows
          BY <3>2 DEF BackupInv, BackupTypeOK
        <4>2. taking.rows \subseteq referred
          BY <1>3, <2>2 DEF ListArtifacts, BackupInv, TakingSound
        <4>3. /\ \A d \in Content : objects[d] \in {Missing, d}
              /\ \A d \in referred : objects[d] = d
          BY <1>3 DEF BackupInv, ObjectsInv, ArtifactsHold
        <4> QED
          BY <1>2, <4>1, <4>2, <4>3 DEF TakingSound, Whole, Listed
      <3> QED
        BY <2>2, <3>1, <3>2 DEF ListArtifacts, TakesOn
    <2>3. CASE HashFiles
      <3>1. taking.at = "hash" /\ taking' = [taking EXCEPT !.at = "pack", !.hashes = taking.files]
        BY <1>3, <2>3, StillPresent DEF HashFiles, TakesOn
      <3>2. /\ taking'.at = "pack" /\ taking'.rows = taking.rows
            /\ taking'.files = taking.files /\ taking'.hashes = taking.files
        BY <3>1 DEF BackupInv, BackupTypeOK
      <3> QED
        BY <1>2, <1>3, <3>1, <3>2 DEF BackupInv, TakingSound, Whole, Listed
    <2>4. CASE PackArchive
      <3>1. taking.at = "pack" /\ taking' = [taking EXCEPT !.at = "publish", !.files = taking.files]
        BY <1>3, <2>4, StillPresent DEF PackArchive, TakesOn
      <3>2. /\ taking'.at = "publish" /\ taking'.rows = taking.rows
            /\ taking'.files = taking.files /\ taking'.hashes = taking.hashes
        BY <3>1 DEF BackupInv, BackupTypeOK
      <3> QED
        BY <1>2, <1>3, <3>1, <3>2 DEF BackupInv, TakingSound, Whole, Listed
    <2>5. CASE PublishArchive \/ BackupStops
      BY <2>5 DEF PublishArchive, BackupStops, TakesOn, NotTaking, TakingSound
    <2>6. CASE RemoveArchive \/ DamageArchive
      BY <1>2, <1>3, <2>6 DEF RemoveArchive, DamageArchive, BackupInv, TakingSound, Whole, Listed
    <2> QED
      BY <2>1, <2>2, <2>3, <2>4, <2>5, <2>6 DEF TakeStep
  <1>4. ASSUME ~changing PROVE ArchiveSound'
    <2>1. CASE ReadRows \/ ListArtifacts \/ HashFiles \/ PackArchive \/ BackupStops
      BY <1>4, <2>1 DEF ReadRows, ListArtifacts, HashFiles, PackArchive, BackupStops, TakesOn,
                        BackupInv, ArchiveSound, Whole
    <2>2. CASE PublishArchive
      <3>1. Whole(taking.hashes, taking.rows) /\ taking.files = taking.hashes
        BY <1>4, <2>2 DEF PublishArchive, BackupInv, TakingSound
      <3> QED
        BY <1>4, <2>2, <3>1 DEF PublishArchive, BackupInv, ArchiveSound, Whole
    <2>3. CASE RemoveArchive
      BY <2>3 DEF RemoveArchive, NoArchive, NoFiles, ArchiveSound, Whole
    <2>4. CASE DamageArchive
      <3>1. PICK d \in Content : archive' = [archive EXCEPT !.files[d] = Part]
        BY <2>4 DEF DamageArchive, Listed
      <3>2. /\ archive.files \in Files
            /\ archive'.files = [archive.files EXCEPT ![d] = Part]
            /\ archive'.hashes = archive.hashes /\ archive'.rows = archive.rows
        BY <3>1 DEF BackupInv, BackupTypeOK
      <3> QED
        BY <1>4, <2>4, <3>2 DEF DamageArchive, BackupInv, ArchiveSound, Whole, Files
    <2> QED
      BY <2>1, <2>2, <2>3, <2>4 DEF TakeStep
  <1>5. ASSUME ~changing PROVE RestoringSound'
    BY <1>1, <1>5 DEF BackupInv, RestoringSound, Whole
  <1> QED
    BY <1>1, <1>2, <1>3, <1>4, <1>5 DEF BackupInv

\* restore_backup takes over the verified manifest, and files it can read.
LEMMA RestoreKeeps == ASSUME BackupInv, RestoreStep PROVE BackupInv'
  <1>1. /\ UNCHANGED <<objects, putting, reading, referred, changing>>
        /\ UNCHANGED <<rows, incoming, taking, archive>>
    BY DEF RestoreStep, VerifyBackup, VerifyAgain, Extract, PublishRestored, RestoreStops,
           Restoring, objectVars, takes
  <1>2. ObjectsInv'
    BY <1>1, ObjectsRest DEF BackupInv, objectVars
  <1>3. NoFiles \in Files /\ Manifest.at = "verified" /\ NotRestoring.at = "off"
    BY PresentIsFiles DEF BackupInv, Manifest, NotRestoring
  <1>4. Extracted \in Files
    BY DEF BackupInv, BackupTypeOK, Extracted, Files
  <1>5. restoring' \in [at : {"off", "verified", "extract", "publish"},
                        rows : SUBSET Content, hashes : Files, files : Files]
    <2>1. NotRestoring \in [at : {"off", "verified", "extract", "publish"},
                            rows : SUBSET Content, hashes : Files, files : Files]
      BY <1>3 DEF NotRestoring
    <2>2. CASE VerifyBackup
      BY <1>3, <2>2 DEF VerifyBackup, RestoresOn, Manifest, BackupInv, BackupTypeOK
    <2>3. CASE VerifyAgain
      BY <2>1, <2>3 DEF VerifyAgain, RestoresOn, BackupInv, BackupTypeOK
    <2>4. CASE Extract
      BY <1>4, <2>1, <2>4 DEF Extract, RestoresOn, BackupInv, BackupTypeOK
    <2>5. CASE PublishRestored \/ RestoreStops
      BY <2>1, <2>5 DEF PublishRestored, RestoreStops, RestoresOn
    <2> QED
      BY <2>2, <2>3, <2>4, <2>5 DEF RestoreStep
  <1>6. restored' \in [there : BOOLEAN, rows : SUBSET Content, files : Files]
    <2>1. CASE PublishRestored
      BY <2>1 DEF PublishRestored, BackupInv, BackupTypeOK
    <2>2. CASE VerifyBackup \/ VerifyAgain \/ Extract \/ RestoreStops
      BY <2>2 DEF VerifyBackup, VerifyAgain, Extract, RestoreStops, RestoresOn, BackupInv, BackupTypeOK
    <2> QED
      BY <2>1, <2>2 DEF RestoreStep
  <1>7. BackupTypeOK'
    <2>1. ObjectsTypeOK'
      BY <1>2 DEF ObjectsInv
    <2> QED
      BY <1>1, <1>5, <1>6, <2>1 DEF BackupInv, BackupTypeOK, Files
  <1>8. ASSUME ~changing PROVE RestoringSound'
    <2>1. CASE VerifyBackup
      <3>1. /\ restoring'.at = "verified" /\ restoring'.hashes = archive.hashes
            /\ restoring'.rows = archive.rows /\ restored' = restored
        BY <2>1 DEF VerifyBackup, Verifies, RestoresOn, Manifest
      <3> QED
        BY <1>8, <3>1 DEF BackupInv, ArchiveSound, RestoringSound, Whole
    <2>2. CASE VerifyAgain
      <3>1. restoring' \in {NotRestoring, [restoring EXCEPT !.at = "extract"]}
            /\ restored' = restored /\ restoring.at = "verified"
        BY <2>2 DEF VerifyAgain, RestoresOn
      <3>2. restoring'.at \in {"off", "extract"}
            /\ (restoring'.at # "off" => restoring'.hashes = restoring.hashes /\ restoring'.rows = restoring.rows)
        BY <1>3, <3>1 DEF BackupInv, BackupTypeOK
      <3> QED
        BY <1>8, <3>1, <3>2 DEF BackupInv, RestoringSound, Whole
    <2>3. CASE Extract
      <3>1. CASE restoring' = NotRestoring
        BY <1>3, <1>8, <2>3, <3>1 DEF Extract, RestoresOn, BackupInv, RestoringSound, Whole
      <3>2. CASE Readable /\ restoring' = [restoring EXCEPT !.at = "publish", !.files = Extracted]
        <4>1. /\ restoring.at = "extract" /\ restored' = restored
              /\ restoring'.hashes = restoring.hashes /\ restoring'.rows = restoring.rows
              /\ restoring'.files = Extracted
          BY <2>3, <3>2 DEF Extract, RestoresOn, BackupInv, BackupTypeOK
        <4>2. Whole(restoring.hashes, restoring.rows) /\ restoring.hashes \in Files
          BY <1>8, <4>1 DEF BackupInv, BackupTypeOK, RestoringSound
        <4>3. \A d \in Listed(restoring.hashes) : archive.files[d] = d
          BY <1>8, <3>2 DEF BackupInv, ArchiveSound, Whole, Readable, Listed
        <4>4. Extracted = restoring.hashes
          BY <4>2, <4>3 DEF Extracted, Files, Whole, Listed
        <4> QED
          BY <1>8, <4>1, <4>2, <4>4 DEF BackupInv, RestoringSound, Whole
      <3> QED
        BY <2>3, <3>1, <3>2 DEF Extract, RestoresOn
    <2>4. CASE PublishRestored
      <3>1. Whole(restoring.files, restoring.rows)
        BY <1>8, <2>4 DEF PublishRestored, BackupInv, RestoringSound
      <3>2. restoring'.at = "off"
        BY <1>3, <2>4 DEF PublishRestored
      <3> QED
        BY <1>8, <2>4, <3>1, <3>2 DEF PublishRestored, BackupInv, RestoringSound, Whole
    <2>5. CASE RestoreStops
      BY <1>3, <1>8, <2>5 DEF RestoreStops, RestoresOn, BackupInv, RestoringSound, Whole
    <2> QED
      BY <2>1, <2>2, <2>3, <2>4, <2>5 DEF RestoreStep
  <1>9. ASSUME ~changing PROVE TakingSound' /\ ArchiveSound'
    BY <1>1, <1>9 DEF BackupInv, TakingSound, ArchiveSound, Whole, Listed
  <1> QED
    BY <1>1, <1>2, <1>7, <1>8, <1>9 DEF BackupInv

\* Nothing is taken or restored at first.
LEMMA BackupStart == BackupInit => BackupInv
  <1> SUFFICES ASSUME BackupInit PROVE BackupInv
    OBVIOUS
  <1>1. ObjectsInv
    BY ObjectsStart DEF BackupInit
  <1>2. NoFiles \in Files
    BY DEF NoFiles, Files
  <1>3. BackupTypeOK
    BY <1>1, <1>2 DEF BackupInit, BackupTypeOK, ObjectsInv, NotTaking, NoArchive, NotRestoring, NotRestored
  <1> QED
    BY <1>1, <1>3 DEF BackupInit, BackupInv, TakingSound, ArchiveSound, RestoringSound,
                      NotTaking, NoArchive, NotRestoring, NotRestored, NoFiles, Whole

\* Every step keeps the invariant.
LEMMA BackupStep == BackupInv /\ [BackupNext]_backupVars => BackupInv'
  <1> SUFFICES ASSUME BackupInv, [BackupNext]_backupVars PROVE BackupInv'
    OBVIOUS
  <1>1. CASE StoreStep \/ PutKilled
    BY <1>1, StoreKeepsBackup
  <1>2. CASE ReferTo
    BY <1>2, ReferToKeeps
  <1>3. CASE TakeStep
    BY <1>3, TakeKeeps
  <1>4. CASE RestoreStep
    BY <1>4, RestoreKeeps
  <1>5. CASE UNCHANGED backupVars
    <2>1. ObjectsInv'
      BY <1>5, ObjectsRest DEF BackupInv, backupVars
    <2>2. UNCHANGED <<objects, putting, reading, referred, changing, rows, incoming,
                      taking, archive, restoring, restored>>
      BY <1>5 DEF backupVars, objectVars, takes, restores
    <2> QED
      BY <2>1, <2>2 DEF BackupInv, BackupTypeOK, ObjectsInv, ObjectsTypeOK, TakingSound, ArchiveSound,
                        RestoringSound, Whole, Listed, Files
  <1> QED
    BY <1>1, <1>2, <1>3, <1>4, <1>5 DEF BackupNext, TakeStep, RestoreStep

\* A backup leaves the store to itself, so whatever holds of the store holds
\* while backups are taken and restored (create_backup, restore_backup).
THEOREM BackupUsesStore == BackupSpec => ObjectsSpec
  <1>1. BackupInit => ObjectsInit
    BY DEF BackupInit
  <1>2. ASSUME [BackupNext]_backupVars PROVE [ObjectsNext]_objectVars
    <2>1. CASE StoreStep \/ PutKilled
      BY <2>1 DEF StoreStep, PutKilled, ObjectsNext
    <2>2. CASE ReferTo \/ UNCHANGED backupVars
      BY <2>2 DEF ReferTo, backupVars
    <2>3. CASE TakeStep
      BY <2>3 DEF TakeStep, ReadRows, ListArtifacts, HashFiles, PackArchive, PublishArchive, BackupStops,
                  RemoveArchive, DamageArchive, Taking
    <2>4. CASE RestoreStep
      BY <2>4 DEF RestoreStep, VerifyBackup, VerifyAgain, Extract, PublishRestored, RestoreStops, Restoring
    <2> QED
      BY <1>2, <2>1, <2>2, <2>3, <2>4 DEF BackupNext, TakeStep, RestoreStep
  <1> QED
    BY <1>1, <1>2, PTL DEF BackupSpec, ObjectsSpec

\* A backup taken while any number of processes put any artifacts restores
\* whole, if it restores (create_backup, verify_backup, restore_backup).
THEOREM BackupsRestoreWhole == BackupSpec => []RestoredWhole
  <1>1. BackupInv => RestoredWhole
    BY DEF BackupInv, BackupTypeOK, RestoringSound, RestoredWhole, Whole, Listed
  <1> QED
    BY <1>1, BackupStart, BackupStep, PTL DEF BackupSpec
=============================================================================

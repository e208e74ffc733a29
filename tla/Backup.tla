--------------------------------- MODULE Backup ---------------------------------
(***************************************************************************)
(* Backup and restore (release/backup.py) of an artifact store in use.     *)
(* Workers put artifacts and then refer to them in their job rows, while   *)
(* one process reads the rows, lists and packs the artifacts and publishes *)
(* the archive, and another verifies it and restores it into a directory   *)
(* that does not exist yet.  Either may die anywhere; the archive may be   *)
(* damaged, or removed and made again, at any time.                        *)
(*                                                                         *)
(* A row is reduced to the digests it refers to, and a manifest to those   *)
(* and the hash of every packed file, which its checksum stands for.  The  *)
(* library's metadata travels as the rows do; counts, limits and paths of  *)
(* an archive are left out.                                                *)
(***************************************************************************)
EXTENDS ArtifactObjects

VARIABLES
    rows,       \* the digests that job rows refer to
    incoming,   \* whether a killed put has left its temporary behind
    taking,     \* create_backup
    archive,    \* the published archive
    restoring,  \* verify_backup and restore_backup
    restored    \* the restored directory

backupVars == <<objectVars, rows, incoming, taking, archive, restoring, restored>>
takes == <<taking, archive>>
restores == <<restoring, restored>>

\* Files under their digests, and those of an archive, some unreadable.
Files == [Content -> Content \cup {Missing, Part}]
NoFiles == [d \in Content |-> Missing]
Listed(files) == {d \in Content : files[d] # Missing}

NotTaking == [at |-> "off", rows |-> {}, hashes |-> NoFiles, files |-> NoFiles]
NoArchive == [there |-> FALSE, rows |-> {}, hashes |-> NoFiles, files |-> NoFiles]
NotRestoring == [at |-> "off", rows |-> {}, hashes |-> NoFiles, files |-> NoFiles]
NotRestored == [there |-> FALSE, rows |-> {}, files |-> NoFiles]

BackupTypeOK ==
    /\ ObjectsTypeOK
    /\ rows \subseteq Content /\ incoming \in BOOLEAN
    /\ taking \in [at : {"off", "list", "hash", "pack", "publish"},
                   rows : SUBSET Content, hashes : Files, files : Files]
    /\ archive \in [there : BOOLEAN, rows : SUBSET Content, hashes : Files, files : Files]
    /\ restoring \in [at : {"off", "verified", "extract", "publish"},
                      rows : SUBSET Content, hashes : Files, files : Files]
    /\ restored \in [there : BOOLEAN, rows : SUBSET Content, files : Files]

BackupInit ==
    /\ ObjectsInit
    /\ rows = {} /\ incoming = FALSE
    /\ taking = NotTaking /\ archive = NoArchive
    /\ restoring = NotRestoring /\ restored = NotRestored

-----------------------------------------------------------------------------
(* The store in use.                                                       *)

StoreStep ==
    ObjectsNext /\ UNCHANGED <<rows, incoming, takes, restores>>

PutKilled ==    \* a put that is killed, not one that raises, leaves its temporary
    /\ \E p \in Putter : putting[p].at \in {"write", "replace"} /\ PutDies(p)
    /\ incoming' = TRUE /\ UNCHANGED <<rows, takes, restores>>

ReferTo ==      \* a job is submitted, or ends, with a reference to an artifact
    /\ \E d \in referred \ rows : rows' = rows \cup {d}
    /\ UNCHANGED <<objectVars, incoming, takes, restores>>

-----------------------------------------------------------------------------
(* export_sqlite_job_metadata, then create_backup.                         *)

Taking == UNCHANGED <<objectVars, rows, incoming, restores>>
TakesOn(record) == taking' = record /\ UNCHANGED archive

ReadRows ==
    /\ taking.at = "off" /\ ~archive.there /\ Taking
    /\ TakesOn([NotTaking EXCEPT !.at = "list", !.rows = rows])

Temporaries == incoming \/ \E p \in Putter : putting[p].at = "replace"
\* _artifact_files: what is there must be named by what it holds; a temporary
\* among the objects is not.
ListArtifacts ==
    /\ taking.at = "list" /\ Taking
    /\ IF ~Temporaries /\ \A d \in Listed(objects) : objects[d] = d
       THEN TakesOn([taking EXCEPT !.at = "hash", !.files = objects])
       ELSE TakesOn(NotTaking)

Present == [d \in Content |-> IF d \in Listed(taking.files) THEN objects[d] ELSE Missing]
HashFiles ==
    /\ taking.at = "hash" /\ Taking
    /\ TakesOn([taking EXCEPT !.at = "pack", !.hashes = Present])

\* (mutant) the rows are read when the archive is packed
PackArchiveWithRows ==
    /\ taking.at = "pack" /\ Taking
    /\ TakesOn([taking EXCEPT !.at = "publish", !.files = Present, !.rows = rows])
PackArchive ==
    /\ taking.at = "pack" /\ Taking
    /\ TakesOn([taking EXCEPT !.at = "publish", !.files = Present])

PublishArchive ==   \* os.link never replaces an archive
    /\ taking.at = "publish" /\ Taking
    /\ taking' = NotTaking
    /\ archive' = IF archive.there THEN archive
                  ELSE [there |-> TRUE, rows |-> taking.rows, hashes |-> taking.hashes,
                        files |-> taking.files]

BackupStops ==      \* killed, or an exception
    taking.at # "off" /\ Taking /\ TakesOn(NotTaking)

RemoveArchive == archive.there /\ Taking /\ archive' = NoArchive /\ UNCHANGED taking
DamageArchive ==
    /\ archive.there /\ Taking /\ UNCHANGED taking
    /\ \E d \in Listed(archive.files) : archive' = [archive EXCEPT !.files[d] = Part]

-----------------------------------------------------------------------------
(* verify_backup and restore_backup.                                       *)

Restoring == UNCHANGED <<objectVars, rows, incoming, takes>>
RestoresOn(record) == restoring' = record /\ UNCHANGED restored

Verifies == archive.there /\ archive.files = archive.hashes
Manifest == [at |-> "verified", rows |-> archive.rows, hashes |-> archive.hashes, files |-> NoFiles]

VerifyBackup ==
    /\ restoring.at = "off" /\ Verifies /\ Restoring
    /\ RestoresOn(Manifest)

VerifyAgain ==      \* "The archive may have changed after an earlier verification call."
    /\ restoring.at = "verified" /\ Restoring
    /\ IF Verifies /\ restoring = Manifest /\ ~restored.there
       THEN RestoresOn([restoring EXCEPT !.at = "extract"])
       ELSE RestoresOn(NotRestoring)

\* Each file of the verified manifest is read from the archive as it is now;
\* one that is missing or unreadable raises.
Readable == \A d \in Listed(restoring.hashes) : archive.files[d] \notin {Missing, Part}
Extracted == [d \in Content |-> IF d \in Listed(restoring.hashes) THEN archive.files[d] ELSE Missing]
Extract ==
    /\ restoring.at = "extract" /\ Restoring
    /\ IF Readable THEN RestoresOn([restoring EXCEPT !.at = "publish", !.files = Extracted])
                   ELSE RestoresOn(NotRestoring)

PublishRestored ==
    /\ restoring.at = "publish" /\ Restoring
    /\ restoring' = NotRestoring
    /\ restored' = IF restored.there THEN restored
                   ELSE [there |-> TRUE, rows |-> restoring.rows, files |-> restoring.files]

RestoreStops ==
    restoring.at # "off" /\ Restoring /\ RestoresOn(NotRestoring)

BackupNext ==
    \/ StoreStep \/ PutKilled \/ ReferTo
    \/ ReadRows \/ ListArtifacts \/ HashFiles \/ PackArchive \/ PublishArchive \/ BackupStops
    \/ RemoveArchive \/ DamageArchive
    \/ VerifyBackup \/ VerifyAgain \/ Extract \/ PublishRestored \/ RestoreStops

BackupSpec == BackupInit /\ [][BackupNext]_backupVars

-----------------------------------------------------------------------------

\* A backup taken from a store in use, without stopping anybody, restores
\* whole: every artifact a restored row refers to is there with its content,
\* although rows and artifacts were read one after the other and the archive
\* may have been damaged or made anew between its verification and its use
\* (export_sqlite_job_metadata, create_backup, restore_backup).
RestoredWhole ==
    restored.there /\ ~changing =>
        /\ \A d \in restored.rows : restored.files[d] = d
        /\ \A d \in Listed(restored.files) : restored.files[d] = d
=============================================================================

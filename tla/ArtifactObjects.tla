---------------------------- MODULE ArtifactObjects ----------------------------
(***************************************************************************)
(* The content-addressed store (rigby_core/artifacts.py): put_bytes and    *)
(* put_file of several processes and a verified read, over one directory   *)
(* of objects.  A put writes a temporary file and renames it; a process    *)
(* may die anywhere and leaves at most the temporary.  put_file hashes its *)
(* source and copies it later, which matters only when somebody writes to  *)
(* the source meanwhile ("changing").                                      *)
(*                                                                         *)
(* A digest is the content it belongs to; sizes, types and file names are  *)
(* left out, and so are the temporaries, whose names are their own.        *)
(***************************************************************************)
EXTENDS Integers

CONSTANTS
    Content,    \* what may be stored
    Putter,     \* the processes that store
    Changing    \* whether sources may change: a subset of BOOLEAN

VARIABLES
    objects,    \* the object under each digest
    putting,    \* where each process is, with which digest and which temporary
    reading,    \* the digest a read has verified
    referred,   \* (history) digests whose reference was returned
    changing

objectVars == <<objects, putting, reading, referred, changing>>

Missing == "missing"
Part == "part"      \* an object cut off while it was written
ASSUME ArtifactAssumption == {Missing, Part} \cap Content = {} /\ Changing \subseteq BOOLEAN

NotPutting == [call |-> "none", at |-> "idle", digest |-> Missing, temporary |-> Missing]

ObjectsTypeOK ==
    /\ objects \in [Content -> Content \cup {Missing, Part}]
    /\ putting \in [Putter -> {NotPutting} \cup
                      [call : {"put_bytes", "put_file"}, at : {"exists", "write", "replace"},
                       digest : Content, temporary : Content \cup {Missing}]]
    /\ reading \in Content \cup {Missing}
    /\ referred \subseteq Content /\ changing \in Changing

ObjectsInit ==
    /\ objects = [d \in Content |-> Missing]
    /\ putting = [p \in Putter |-> NotPutting]
    /\ reading = Missing /\ referred = {} /\ changing \in Changing

PutIs(p, next) == putting' = [putting EXCEPT ![p] = next]
Digest(p) == putting[p].digest

-----------------------------------------------------------------------------

PutStart(p) ==      \* the digest is taken
    /\ putting[p] = NotPutting
    /\ \E call \in {"put_bytes", "put_file"}, d \in Content :
           PutIs(p, [call |-> call, at |-> "exists", digest |-> d, temporary |-> Missing])
    /\ UNCHANGED <<objects, reading, referred, changing>>

\* The end of a put that finds the object there: _verify_path may raise.
Deduplicate(p) ==
    /\ objects[Digest(p)] # Missing /\ PutIs(p, NotPutting)
    /\ referred' = IF objects[Digest(p)] = Digest(p) THEN referred \cup {Digest(p)} ELSE referred

LookForObject(p) ==
    /\ putting[p].at = "exists"
    /\ \/ Deduplicate(p)
       \/ /\ objects[Digest(p)] = Missing /\ PutIs(p, [putting[p] EXCEPT !.at = "write"])
          /\ UNCHANGED referred
    /\ UNCHANGED <<objects, reading, changing>>

Copied(p) == IF putting[p].call = "put_file" /\ changing THEN Content ELSE {Digest(p)}
\* (mutant) the object is written in its place
WriteTemporaryInPlace(p) ==
    /\ putting[p].at = "write"
    /\ \E c \in Copied(p) : PutIs(p, [putting[p] EXCEPT !.at = "replace", !.temporary = c])
    /\ objects' = [objects EXCEPT ![Digest(p)] = Part]
    /\ UNCHANGED <<reading, referred, changing>>
WriteTemporary(p) ==
    /\ putting[p].at = "write"
    /\ \E c \in Copied(p) : PutIs(p, [putting[p] EXCEPT !.at = "replace", !.temporary = c])
    /\ UNCHANGED <<objects, reading, referred, changing>>

\* os.replace puts the new object over one that came meanwhile; where it
\* cannot, that one is verified instead.
Publish(p) ==
    /\ putting[p].at = "replace"
    /\ \/ /\ objects' = [objects EXCEPT ![Digest(p)] = putting[p].temporary]
          /\ referred' = referred \cup {Digest(p)} /\ PutIs(p, NotPutting)
       \/ Deduplicate(p) /\ UNCHANGED objects
    /\ UNCHANGED <<reading, changing>>

PutDies(p) ==       \* or raises: a full disk, a source that cannot be read
    /\ putting[p] # NotPutting /\ PutIs(p, NotPutting)
    /\ UNCHANGED <<objects, reading, referred, changing>>

Resolve ==
    /\ reading = Missing
    /\ \E d \in Content : objects[d] = d /\ reading' = d
    /\ UNCHANGED <<objects, putting, referred, changing>>
ReadObject ==
    /\ reading # Missing /\ reading' = Missing
    /\ UNCHANGED <<objects, putting, referred, changing>>

ObjectsNext ==
    \/ \E p \in Putter :
           \/ PutStart(p) \/ LookForObject(p) \/ WriteTemporary(p) \/ Publish(p) \/ PutDies(p)
    \/ Resolve \/ ReadObject

ObjectsSpec == ObjectsInit /\ [][ObjectsNext]_objectVars

-----------------------------------------------------------------------------

\* Puts of one content at once, and deaths anywhere, leave no object that is
\* not what its digest says, none that a returned reference or a verified
\* read in progress would miss, as long as sources hold still while they are
\* put ("Immutable SHA-256 object store with atomic, deduplicated writes").
ArtifactsHold ==
    ~changing =>
        /\ \A d \in Content : objects[d] \in {Missing, d}
        /\ \A d \in referred \cup ({reading} \ {Missing}) : objects[d] = d
=============================================================================

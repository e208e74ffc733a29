--------------------------- MODULE MCLibraryRelease ---------------------------
(* LibraryRelease with its constants bound for TLC. *)
EXTENDS LibraryRelease, TLC

CONSTANTS c1, c2, r1, r2, RecordBound

MCClient == {c1, c2}
MCRelease == {r1, r2}
MCRecord == 1..RecordBound

\* Clients and releases have no order.
Symmetry == Permutations(MCClient) \cup Permutations(MCRelease)
=============================================================================

--------------------------- MODULE MCSnapshotCopy ---------------------------
(* A small instance of SnapshotCopy for TLC. *)
EXTENDS SnapshotCopy
=============================================================================

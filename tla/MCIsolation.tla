---------------------------- MODULE MCIsolation ----------------------------
(* Small instances of Isolation for TLC. *)
EXTENDS Isolation

MCTargets == {"A", "B"}
=============================================================================

---------------------------- MODULE MCSharedSlot ----------------------------
(* A small instance of SharedSlot for TLC: two bridges, a table each. *)
EXTENDS SharedSlot

TwoTables == <<1, 2>>
=============================================================================

-------------------------- MODULE MCDatabaseView --------------------------
(* DatabaseView on small sets: one database. *)
EXTENDS DatabaseView, TLC

CONSTANTS r1, r2, r3, a1, a2, d1
===========================================================================

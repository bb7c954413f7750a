-------------------------- MODULE MCEntryNumbering --------------------------
(* A small instance of EntryNumbering: three calls, two connections. *)
EXTENDS EntryNumbering
=============================================================================

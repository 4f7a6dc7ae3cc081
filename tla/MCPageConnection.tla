-------------------------- MODULE MCPageConnection --------------------------
(* Small instances of PageConnection for TLC. *)
EXTENDS PageConnection, TLC
=============================================================================

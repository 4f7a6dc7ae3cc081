---------------------------- MODULE MCIpcWake ----------------------------
(* Small instances of IpcWake for TLC. *)
EXTENDS IpcWake, TLC
=============================================================================

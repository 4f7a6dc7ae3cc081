---------------------------- MODULE MCIpcNotify ----------------------------
(* Small instances of IpcNotify for TLC. *)
EXTENDS IpcNotify

CONSTANTS s1, s2
=============================================================================

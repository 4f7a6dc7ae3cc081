--------------------------- MODULE MCIpcAdmission ---------------------------
(* Small instances of IpcAdmission for TLC. *)
EXTENDS IpcAdmission

CONSTANTS w1, w2
=============================================================================

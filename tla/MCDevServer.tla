---------------------------- MODULE MCDevServer ----------------------------
(* A site with one source, one include and one manifest. *)
EXTENDS DevServer

CONSTANTS s1, i1, m1
=============================================================================

-------------------------- MODULE MCRouterNavigation --------------------------
(* The instance of RouterNavigation that TLC checks. *)
EXTENDS RouterNavigation

CONSTANTS home, pa
===============================================================================

-------------------------- MODULE MCSchemeRequests --------------------------
(* The instance of SchemeRequests that TLC checks. *)
EXTENDS SchemeRequests

CONSTANTS r1, r2, w1

\* Room for both requests, a driver too small for them, a handler too small.
SmallLimits == {<<2, 2>>, <<1, 2>>, <<2, 1>>}
=============================================================================

---------------------------- MODULE MCLazyRegions ----------------------------
(***************************************************************************)
(* A small page for LazyRegions: one region that two bindings of a host    *)
(* show.                                                                   *)
(***************************************************************************)
EXTENDS LazyRegions

MCRegions == {"r1"}
MCShared == {"c"}
MCBindings == {"b1", "b2"}
MCRegionOf == [b \in MCBindings |-> "r1"]
MCHostOf == [b \in MCBindings |-> "h1"]
=============================================================================

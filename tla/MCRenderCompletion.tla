------------------------- MODULE MCRenderCompletion -------------------------
(***************************************************************************)
(* Small pages for RenderCompletion: a page r with a component a and, in   *)
(* it or not yet in it, a component b.  One request is made on the page    *)
(* and one on a.                                                           *)
(***************************************************************************)
EXTENDS RenderCompletion

CONSTANTS r, a, b, t, c1, c2

Nested == r :> Doc @@ a :> r @@ b :> a
Staged == [Nested EXCEPT ![b] = Nobody]

(* Renders that flush, call back and throw; components that are removed and *)
(* moved; lazy activations with a child that is defined late; and a mount   *)
(* that is still waiting when its parts arrive.                             *)
MCScenes ==
    {[home |-> Nested, dormant |-> {}, gated |-> {b}, most |-> 4,
      may |-> {"write", "flush", "call", "throw"}],
     [home |-> Nested, dormant |-> {}, gated |-> {b}, most |-> 3,
      may |-> {"write", "dispose", "remove", "insert"}],
     [home |-> Nested, dormant |-> {b}, gated |-> {}, most |-> 4,
      may |-> {"write", "task", "cancel", "block", "upgrade", "mount", "dispose"}],
     [home |-> Nested, dormant |-> {}, gated |-> {}, most |-> 4,
      may |-> {"write", "flush", "task", "throw"}],
     [home |-> Staged, dormant |-> {b}, gated |-> {a}, most |-> 3,
      may |-> {"write", "refresh", "task", "insert", "upgrade", "throw"}]}

MCHostOf == t :> a
MCRootOf == c1 :> r @@ c2 :> a
=============================================================================

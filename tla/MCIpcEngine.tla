---------------------------- MODULE MCIpcEngine ----------------------------
(* Small instances of IpcEngine for TLC. *)
EXTENDS IpcEngine, TLC

CONSTANTS p1

\* The host's calls, and what the renderer posted that had an effect
Started == {c \in Calls : task[c] # "none"}
Served == {c \in PeerCalls :
             answers[c] > 0 \/ c \in handlers \cup accepting \cup revoked}
Posted ==
  \/ Served # {} \/ lastPeerId > 0
  \/ \E p \in Posters : post[p].stage # "idle"
  \/ \E c \in Calls : reply[c] # "none"

\* Bound on the work: in one document three calls that nobody answers, two
\* calls and their replies, or one call and two requests; in two documents two
\* of calls and requests, no two calls of the same document.
Bounded ==
  LET calls == Cardinality(Started)
      served == Cardinality(Served)
      apart == \A c, d \in Started : c[1] = d[1] => c = d
  IN  \/ generation <= 1 /\ calls <= 3 /\ ~Posted
      \/ generation <= 1 /\ calls <= 2 /\ lastPeerId = 0
      \/ generation <= 1 /\ calls <= 1 /\ served <= 2
      \/ calls + served <= 2 /\ apart
=============================================================================

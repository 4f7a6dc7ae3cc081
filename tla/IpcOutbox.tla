------------------------------ MODULE IpcOutbox ------------------------------
(***************************************************************************)
(* What the rest of the desktop IPC relies on of the host engine: a window *)
(* that shows a sequence of documents, at most one of them admitted per    *)
(* navigation and none after the window closed, each with a queue of       *)
(* outbound frames that is discarded with it.  IpcEngine implements this   *)
(* specification (its property ImplementsOutbox); IpcWake extends it with  *)
(* the wake-up protocol by which the frames are pulled.                    *)
(***************************************************************************)
EXTENDS Naturals

VARIABLES
  closed,      \* the window is gone
  admitted,    \* the current navigation has used its one admission
  generation,  \* documents admitted so far
  live,        \* the latest of them is still connected
  length       \* frames queued for it

outboxVars == <<closed, admitted, generation, live, length>>

Init ==
  /\ closed = FALSE /\ admitted = FALSE /\ generation = 0 /\ live = FALSE
  /\ length = 0

\* A document is admitted, with an empty queue.
Admit ==
  /\ ~closed /\ ~admitted
  /\ admitted' = TRUE /\ live' = TRUE /\ generation' = generation + 1
  /\ length = 0 /\ UNCHANGED <<closed, length>>

\* Frames enter and leave one at a time, only while their document lives.
Enqueue ==
  /\ ~closed /\ live
  /\ length' = length + 1
  /\ UNCHANGED <<closed, admitted, generation, live>>

Pop ==
  /\ ~closed /\ live /\ length > 0
  /\ length' = length - 1
  /\ UNCHANGED <<closed, admitted, generation, live>>

\* The document ends with its queue: it alone, for a replacement to come, or
\* with its window.
Discard == live' = FALSE /\ length' = 0 /\ UNCHANGED generation
Revoke == ~closed /\ Discard /\ UNCHANGED <<closed, admitted>>
Navigate == ~closed /\ Discard /\ admitted' = FALSE /\ UNCHANGED closed
Close == ~closed /\ Discard /\ closed' = TRUE /\ UNCHANGED admitted

Next == Admit \/ Enqueue \/ Pop \/ Revoke \/ Navigate \/ Close

Spec == Init /\ [][Next]_outboxVars
=============================================================================

--------------------------- MODULE IpcEngineProofs ---------------------------
(* Proofs about IpcEngine, for every value of its constants: its types, its  *)
(* refinement of IpcOutbox, the answers renderers get, who may settle a call *)
(* of the host and in which order calls leave, and the budgets of a document *)
EXTENDS IpcEngine, FiniteSetTheorems, TLAPS

-----------------------------------------------------------------------------
(* Counting the marked places of a sequence: what appending, popping and   *)
(* splicing do to the number of frames of a kind in a queue.                *)

\* The places of s that hold an element of G
Marks(s, G) == {n \in DOMAIN s : s[n] \in G}
Count(s, G) == Cardinality(Marks(s, G))

\* There are finitely many of them.
LEMMA CountIsNat ==
  ASSUME NEW S, NEW s \in Seq(S), NEW G
  PROVE IsFiniteSet(Marks(s, G)) /\ Count(s, G) \in Nat
<1>1. IsFiniteSet(1 .. Len(s))
  BY FS_Interval
<1>2. Marks(s, G) \in SUBSET (1 .. Len(s))
  BY DEF Marks
<1>3. IsFiniteSet(Marks(s, G))
  BY <1>1, <1>2, FS_Subset
<1> QED BY <1>3, FS_CardinalityType DEF Count

\* An empty sequence holds nothing.
LEMMA CountEmpty == \A G : Count(<<>>, G) = 0
<1>1. \A G : Marks(<<>>, G) = {}
  BY DEF Marks
<1> QED BY <1>1, FS_EmptySet DEF Count

\* An appended element counts if it is in G.
LEMMA CountAppend ==
  ASSUME NEW S, NEW s \in Seq(S), NEW e \in S, NEW G
  PROVE /\ e \in G => Count(Append(s, e), G) = Count(s, G) + 1
        /\ e \notin G => Count(Append(s, e), G) = Count(s, G)
<1>1. CASE e \in G
  <2>1. Marks(Append(s, e), G) = Marks(s, G) \cup {Len(s) + 1}
    BY <1>1 DEF Marks
  <2>2. Len(s) + 1 \notin Marks(s, G)
    BY DEF Marks
  <2> QED BY <1>1, <2>1, <2>2, CountIsNat, FS_AddElement DEF Count
<1>2. CASE e \notin G
  <2>1. Marks(Append(s, e), G) = Marks(s, G)
    BY <1>2 DEF Marks
  <2> QED BY <1>2, <2>1 DEF Count
<1> QED BY <1>1, <1>2

\* t is s without its k-th element.
Skips(t, s, k) ==
  /\ Len(t) = Len(s) - 1
  /\ \A n \in 1 .. Len(t) : t[n] = IF n < k THEN s[n] ELSE s[n + 1]

\* An element that is taken out counted if it was in G.
LEMMA CountSkips ==
  ASSUME NEW S, NEW s \in Seq(S), NEW t \in Seq(S), NEW k \in 1 .. Len(s),
         Skips(t, s, k), NEW G
  PROVE /\ s[k] \in G => Count(t, G) = Count(s, G) - 1
        /\ s[k] \notin G => Count(t, G) = Count(s, G)
<1> DEFINE T == Marks(t, G)
           U == Marks(s, G) \ {k}
           f == [n \in T |-> IF n < k THEN n ELSE n + 1]
<1>1. T \subseteq 1 .. Len(s) - 1 /\ U \subseteq 1 .. Len(s)
  BY DEF Marks, Skips
<1>2. \A n \in T : f[n] \in U
  BY <1>1 DEF Marks, Skips
<1>3. \A m, n \in T : f[m] = f[n] => m = n
  BY <1>1
<1>4. ASSUME NEW u \in U PROVE \E n \in T : f[n] = u
  <2>1. CASE u < k
    <3>1. u \in T
      BY <1>1, <2>1 DEF Marks, Skips
    <3> QED BY <2>1, <3>1
  <2>2. CASE u > k
    <3>0. u \in 1 .. Len(s) /\ u \in Int /\ k \in Int /\ Len(s) \in Nat /\ s[u] \in G
      BY <1>1 DEF Marks
    <3>a. u - 1 \in 1 .. Len(t) /\ ~(u - 1 < k) /\ (u - 1) + 1 = u
      BY <2>2, <3>0 DEF Skips
    <3>b. t[u - 1] = s[u] /\ u - 1 \in DOMAIN t
      BY <3>a DEF Skips
    <3>1. u - 1 \in T
      BY <3>0, <3>b DEF Marks
    <3> QED BY <2>2, <3>1, <1>1
  <2> QED BY <1>1, <2>1, <2>2
<1>5. f \in Bijection(T, U)
  BY <1>2, <1>3, <1>4 DEF Bijection, Injection, Surjection, IsInjective
<1>6. ExistsBijection(T, U)
  BY <1>5 DEF ExistsBijection
<1>7. IsFiniteSet(T) /\ IsFiniteSet(Marks(s, G)) /\ Count(s, G) \in Nat
  BY CountIsNat
<1>8. Cardinality(U) = Cardinality(T)
  BY <1>6, <1>7, FS_Bijection
<1>9. k \in Marks(s, G) <=> s[k] \in G
  BY DEF Marks
<1>10. Cardinality(U) = IF k \in Marks(s, G) THEN Count(s, G) - 1 ELSE Count(s, G)
  BY <1>7, FS_RemoveElement DEF Count
<1> HIDE DEF T, U, f
<1> QED BY <1>8, <1>9, <1>10 DEF Count, T

\* Popping the head
LEMMA TailSkips ==
  ASSUME NEW S, NEW s \in Seq(S), s # <<>>
  PROVE 1 \in 1 .. Len(s) /\ Tail(s) \in Seq(S) /\ Head(s) = s[1] /\ Skips(Tail(s), s, 1)
BY DEF Skips

LEMMA CountTail ==
  ASSUME NEW S, NEW s \in Seq(S), s # <<>>, NEW G
  PROVE /\ Head(s) \in G => Count(Tail(s), G) = Count(s, G) - 1
        /\ Head(s) \notin G => Count(Tail(s), G) = Count(s, G)
<1>1. 1 \in 1 .. Len(s) /\ Tail(s) \in Seq(S) /\ Head(s) = s[1] /\ Skips(Tail(s), s, 1)
  BY TailSkips
<1>2. /\ s[1] \in G => Count(Tail(s), G) = Count(s, G) - 1
      /\ s[1] \notin G => Count(Tail(s), G) = Count(s, G)
  BY <1>1, CountSkips
<1> QED BY <1>1, <1>2

-----------------------------------------------------------------------------
(* Type correctness *)

\* The queue and its counters are well-typed
QueueType == /\ queue \in Seq(Frame) /\ dataFrames \in Int
             /\ dataBytes \in Int /\ wireId \in Nat

\* enqueue_data appends a well-formed frame.
LEMMA EnqueueDataType ==
  ASSUME QueueType, NEW k \in InvocationKind, NEW i \in Nat, EnqueueData(k, i)
  PROVE QueueType'
BY DEF QueueType, EnqueueData, Frame

\* enqueue_control appends a well-formed frame.
LEMMA EnqueueControlType ==
  ASSUME QueueType, NEW k \in ReplyKind \cup {"cancel"}, NEW i \in Nat,
         NEW w \in Weights, EnqueueControl(k, i, w)
  PROVE QueueType'
<1>1. [kind |-> IF w = "refused" THEN "error" ELSE k, id |-> i,
       control |-> TRUE, charged |-> w = "large"] \in Frame
  BY DEF Frame, ReplyKind
<1> QED BY <1>1 DEF QueueType, EnqueueControl

\* Counting an answer keeps the history well-typed.
LEMMA CountAnswerType ==
  ASSUME answers \in [PeerCalls -> Nat], NEW c \in PeerCalls
  PROVE [answers EXCEPT ![c] = @ + 1] \in [PeerCalls -> Nat]
<1>1. answers[c] + 1 \in Nat
  OBVIOUS
<1> QED BY <1>1

\* retire_matching leaves the state well-typed.
LEMMA RetireType ==
  ASSUME TypeOK, NEW t \in BOOLEAN, Retire(t),
         admitted' \in BOOLEAN, exhausting' \in BOOLEAN
  PROVE TypeOK'
<1> USE EngineAssumption
    DEF TypeOK, Retire, Generations, LocalIds, PeerIds, peerVars
<1>1. closed' \in BOOLEAN /\ live' \in BOOLEAN
  OBVIOUS
<1>2. queue' \in Seq(Frame)
  OBVIOUS
<1>3. failing' \in SUBSET Calls
  BY DEF Abandoned
<1>4. generation' \in 0 .. MaxGeneration /\ (live' => generation' \in Generations)
  OBVIOUS
<1>5. nextId' \in 1 .. MaxLocalId /\ lastPeerId' \in 0 .. MaxPeerId
  OBVIOUS
<1>6. /\ pending' \in SUBSET LocalIds /\ sent' \in SUBSET LocalIds
      /\ incoming' \in SUBSET PeerIds
  OBVIOUS
<1>7. /\ dataFrames' \in Int /\ dataBytes' \in Int
      /\ wireId' \in Nat /\ controlSlots' \in Int
  OBVIOUS
<1> QED BY <1>1, <1>2, <1>3, <1>4, <1>5, <1>6, <1>7

\* Every critical section of Core, IpcSession and IpcBridge leaves the state
\* well-typed: the induction step of TypeCorrect.
LEMMA TypeNext == TypeOK /\ [Next]_vars => TypeOK'
<1> SUFFICES ASSUME TypeOK, [Next]_vars PROVE TypeOK'
  OBVIOUS
<1> USE EngineAssumption
    DEF TypeOK, Generations, LocalIds, PeerIds, stateVars, idVars, tableVars,
        queueVars, callVars, peerVars
<1>1. CASE UNCHANGED vars
  BY <1>1 DEF vars
<1>2. CASE Admit
  BY <1>2 DEF Admit
<1>3. CASE Navigate
  BY <1>3, RetireType DEF Navigate
<1>4. CASE Disconnect
  BY <1>4, RetireType DEF Disconnect
<1>5. CASE Close
  BY <1>5, RetireType DEF Close
<1>6. ASSUME NEW k \in Kinds, Prepare(k) PROVE TypeOK'
  <2>1. nextId' \in 1 .. MaxLocalId /\ pending' \in SUBSET LocalIds
    BY <1>6 DEF Prepare, IdLeft
  <2>2. /\ task' \in [Calls -> {"none", "gate", "reply", "finish", "owner", "end"}]
        /\ kind' \in [Calls -> MethodKind]
    BY <1>6 DEF Prepare
  <2> QED BY <1>6, <2>1, <2>2 DEF Prepare
<1>7. CASE FindExhausted
  BY <1>7 DEF FindExhausted
<1>8. CASE RetireExhausted
  <2>1. CASE closed
    <3>1. exhausting' = FALSE /\ UNCHANGED <<stateVars, idVars, tableVars,
            queueVars, controlSlots, task, kind, reply, outcome, failing,
            settled, peerVars, post>>
      BY <1>8, <2>1 DEF RetireExhausted
    <3> QED BY <3>1
  <2>2. CASE ~closed
    BY <1>8, <2>2, RetireType DEF RetireExhausted
  <2> QED BY <2>1, <2>2
<1>9. ASSUME NEW c \in Calls, CallStep(c) PROVE TypeOK'
  <2>1. CASE SendRequest(c)
    <3>1. c[2] \in LocalIds
      BY DEF Calls
    <3>2. QueueType'
      BY <2>1, <3>1, EnqueueDataType DEF SendRequest, QueueType, InvocationKind
    <3> QED BY <2>1, <3>1, <3>2 DEF SendRequest, QueueType
  <2>2. CASE SendRequestFails(c)
    BY <2>2 DEF SendRequestFails, Outcome
  <2>3. CASE ReceiveReply(c)
    BY <2>3 DEF ReceiveReply, Outcome
  <2>4. CASE FinishLocal(c)
    <3>1. pending' \in SUBSET LocalIds /\ sent' \in SUBSET LocalIds
      BY <2>4 DEF FinishLocal, TakeOwnership, DropEntry
    <3>2. controlSlots' \in Int
      BY <2>4 DEF FinishLocal, TakeOwnership, DropEntry
    <3>3. outcome' \in [Calls -> Outcome]
      BY <2>4 DEF FinishLocal, TakeOwnership, Outcome
    <3>4. task' \in [Calls -> {"none", "gate", "reply", "finish", "owner", "end"}]
      BY <2>4 DEF FinishLocal, TakeOwnership
    <3> QED BY <2>4, <3>1, <3>2, <3>3, <3>4 DEF FinishLocal
  <2>5. CASE SettleResult(c)
    BY <2>5 DEF SettleResult, Resolve, Outcome
  <2>6. CASE SettleFailure(c)
    BY <2>6 DEF SettleFailure, Resolve, Outcome
  <2>7. CASE CancelLocal(c)
    <3>1. c[2] \in Nat
      BY DEF Calls
    <3>2. QueueType'
      BY <2>7, <3>1, EnqueueControlType
      DEF CancelLocal, WithdrawEntry, QueueType, Weights
    <3>3. pending' \in SUBSET LocalIds /\ sent' \in SUBSET LocalIds
      BY <2>7 DEF CancelLocal, WithdrawEntry, DropEntry
    <3>4. controlSlots' \in Int
      BY <2>7 DEF CancelLocal, WithdrawEntry, DropEntry
    <3> QED BY <2>7, <3>2, <3>3, <3>4 DEF CancelLocal, QueueType
  <2> QED BY <1>9, <2>1, <2>2, <2>3, <2>4, <2>5, <2>6, <2>7 DEF CallStep
<1>10. ASSUME NEW p \in Posters, PostStep(p) PROVE TypeOK'
  <2>1. CASE Authenticate(p)
    BY <2>1 DEF Authenticate, SetPost, PostState
  <2>2. CASE PostIgnored(p)
    BY <2>2 DEF PostIgnored, IdlePost, PostState
  <2>3. ASSUME NEW i \in LocalIds, NEW k \in ReplyKind, PostReply(p, i, k)
        PROVE TypeOK'
    BY <2>3 DEF PostReply, IdlePost, PostState
  <2>4. ASSUME NEW i \in PeerIds, PostCancel(p, i) PROVE TypeOK'
    <3>1. post' \in [Posters -> PostState]
      BY <2>4 DEF PostCancel, IdlePost, PostState
    <3>2. revoked' \in SUBSET PeerCalls
      BY <2>4 DEF PostCancel, PeerCalls, Document
    <3>3. incoming' \in SUBSET PeerIds
      BY <2>4 DEF PostCancel
    <3> QED BY <2>4, <3>1, <3>2, <3>3 DEF PostCancel
  <2>5. ASSUME NEW i \in PeerIds, PostDenied(p, i) PROVE TypeOK'
    <3>1. QueueType'
      BY <2>5, EnqueueControlType DEF PostDenied, QueueType, Weights, ReplyKind
    <3>2. post' \in [Posters -> PostState]
      BY <2>5 DEF PostDenied, IdlePost, PostState
    <3>3. answers' \in [PeerCalls -> Nat]
      <4>1. <<generation, i>> \in PeerCalls
        BY <2>5 DEF PostDenied, PeerCalls, Document
      <4>2. \/ answers' = [answers EXCEPT ![<<generation, i>>] = @ + 1]
            \/ answers' = answers
        BY <2>5 DEF PostDenied
      <4> QED BY <4>1, <4>2, CountAnswerType, ZenonT(60)
    <3>4. controlSlots' \in Int
      BY <2>5 DEF PostDenied
    <3>5. lastPeerId' \in 0 .. MaxPeerId
      BY <2>5 DEF PostDenied
    <3> QED BY <2>5, <3>1, <3>2, <3>3, <3>4, <3>5 DEF PostDenied, QueueType
  <2>6. ASSUME NEW i \in PeerIds, NEW k \in InvocationKind, PostInvoke(p, i, k)
        PROVE TypeOK'
    BY <2>6 DEF PostInvoke, SetPost, PostState
  <2>7. CASE ServeRequest(p)
    <3>1. post[p].id \in PeerIds
      BY <2>7 DEF ServeRequest, PostState
    <3>2. post' \in [Posters -> PostState]
      BY <2>7 DEF ServeRequest, IdlePost, PostState
    <3>3. handlers' \in SUBSET PeerCalls /\ incoming' \in SUBSET PeerIds
      <4>1. <<generation, post[p].id>> \in PeerCalls
        BY <2>7, <3>1 DEF ServeRequest, PeerCalls, Document
      <4> QED BY <2>7, <3>1, <4>1 DEF ServeRequest
    <3> QED BY <2>7, <3>2, <3>3 DEF ServeRequest
  <2>8. CASE ServeNotify(p)
    <3>1. post[p].id \in PeerIds
      BY <2>8 DEF ServeNotify, PostState
    <3>2. post' \in [Posters -> PostState]
      BY <2>8 DEF ServeNotify, IdlePost, PostState
    <3>3. accepting' \in SUBSET PeerCalls
      <4>1. <<generation, post[p].id>> \in PeerCalls
        BY <2>8, <3>1 DEF ServeNotify, PeerCalls, Document
      <4> QED BY <2>8, <4>1 DEF ServeNotify
    <3> QED BY <2>8, <3>2, <3>3 DEF ServeNotify
  <2> QED BY <1>10, <2>1, <2>2, <2>3, <2>4, <2>5, <2>6, <2>7, <2>8 DEF PostStep
<1>11. ASSUME NEW c \in PeerCalls, CompleteIncoming(c) PROVE TypeOK'
  <2>1. c[2] \in Nat
    BY DEF PeerCalls
  <2>2. QueueType'
    BY <1>11, <2>1, EnqueueControlType
    DEF CompleteIncoming, Answer, QueueType, ReplyKind, Weights
  <2>3. answers' \in [PeerCalls -> Nat]
    BY <1>11, CountAnswerType DEF CompleteIncoming, Answer
  <2>4. incoming' \in SUBSET PeerIds
    BY <1>11 DEF CompleteIncoming, Answer
  <2> QED BY <1>11, <2>2, <2>3, <2>4 DEF CompleteIncoming, QueueType
<1>12. ASSUME NEW c \in PeerCalls, TimeoutIncoming(c) PROVE TypeOK'
  <2>1. c[2] \in Nat
    BY DEF PeerCalls
  <2>2. QueueType'
    BY <1>12, <2>1, EnqueueControlType
    DEF TimeoutIncoming, Answer, QueueType, ReplyKind, Weights
  <2>3. answers' \in [PeerCalls -> Nat]
    BY <1>12, CountAnswerType DEF TimeoutIncoming, Answer
  <2>4. incoming' \in SUBSET PeerIds
    BY <1>12 DEF TimeoutIncoming, Answer
  <2> QED BY <1>12, <2>2, <2>3, <2>4 DEF TimeoutIncoming, QueueType
<1>13. ASSUME NEW c \in PeerCalls, Acknowledge(c) PROVE TypeOK'
  <2>1. c[2] \in Nat
    BY DEF PeerCalls
  <2>2. QueueType'
    BY <1>13, <2>1, EnqueueControlType
    DEF Acknowledge, QueueType, ReplyKind, Weights
  <2>3. answers' \in [PeerCalls -> Nat]
    BY <1>13, CountAnswerType DEF Acknowledge
  <2>4. accepting' \in SUBSET PeerCalls
    BY <1>13 DEF Acknowledge
  <2> QED BY <1>13, <2>2, <2>3, <2>4 DEF Acknowledge, QueueType
<1>14. CASE Drain
  <2>1. Head(queue) \in Frame /\ Tail(queue) \in Seq(Frame)
    BY <1>14 DEF Drain
  <2> QED BY <1>14, <2>1 DEF Drain, Weight, Frame
<1> QED
  BY <1>1, <1>2, <1>3, <1>4, <1>5, <1>6, <1>7, <1>8, <1>9, <1>10, <1>11,
     <1>12, <1>13, <1>14 DEF Next

\* The values IpcEngine's variables take.
THEOREM TypeCorrect == Spec => []TypeOK
<1>1. Init => TypeOK
  <2> USE EngineAssumption DEF Init
  <2>1. Init => post \in [Posters -> PostState]
    BY DEF PostState, IdlePost
  <2>2. Init => queue \in Seq(Frame)
    OBVIOUS
  <2>3. Init => /\ answers \in [PeerCalls -> Nat]
                /\ kind \in [Calls -> MethodKind]
                /\ outcome \in [Calls -> Outcome] /\ settled \in [Calls -> Outcome]
    BY DEF MethodKind, Outcome
  <2>4. Init => /\ task \in [Calls -> {"none", "gate", "reply", "finish", "owner", "end"}]
                /\ reply \in [Calls -> {"none", "value", "error"}]
    OBVIOUS
  <2>5. Init => /\ nextId \in 1 .. MaxLocalId /\ lastPeerId \in 0 .. MaxPeerId
                /\ generation \in 0 .. MaxGeneration
    OBVIOUS
  <2>6. Init => /\ closed \in BOOLEAN /\ admitted \in BOOLEAN /\ live \in BOOLEAN
                /\ exhausting \in BOOLEAN /\ (live => generation \in Generations)
    OBVIOUS
  <2>7. Init => /\ pending \in SUBSET LocalIds /\ sent \in SUBSET LocalIds
                /\ incoming \in SUBSET PeerIds /\ failing \in SUBSET Calls
                /\ handlers \in SUBSET PeerCalls /\ accepting \in SUBSET PeerCalls
                /\ revoked \in SUBSET PeerCalls
    OBVIOUS
  <2>8. Init => /\ dataFrames \in Int /\ dataBytes \in Int /\ wireId \in Nat
                /\ controlSlots \in Int
    OBVIOUS
  <2> QED
    BY <2>1, <2>2, <2>3, <2>4, <2>5, <2>6, <2>7, <2>8, Zenon DEF TypeOK
<1> QED BY <1>1, TypeNext, PTL DEF Spec

-----------------------------------------------------------------------------
(* IpcEngine implements IpcOutbox *)

\* What ties the window's flags to its document: there is one only in an open
\* window and after this navigation's admission, and without one there is no
\* queue.  TypeOK alone would let a step admit a document onto an old queue.
LifeInv == /\ live => admitted /\ ~closed
           /\ ~live => queue = <<>>

\* The mapped next-state relation: a step of IpcOutbox, or none
OutboxStep == [Outbox!Next]_(Outbox!outboxVars)

\* An enqueued frame is one more frame.
LEMMA EnqueueLength ==
  ASSUME queue \in Seq(Frame), NEW f, queue' = Append(queue, f)
  PROVE /\ queue' # <<>> /\ Len(queue') = Len(queue) + 1
        /\ Len(queue) \in Nat
OBVIOUS

\* A step that leaves the window's flags and its queue alone is invisible.
LEMMA Invisible ==
  ASSUME LifeInv, UNCHANGED <<stateVars, queue>>
  PROVE LifeInv' /\ OutboxStep
BY DEF LifeInv, OutboxStep, Outbox!outboxVars, stateVars

\* A step that queues one frame for a live document is Enqueue.
LEMMA Visible ==
  ASSUME LifeInv, TypeOK, live, ~closed, UNCHANGED stateVars,
         NEW f, queue' = Append(queue, f)
  PROVE LifeInv' /\ OutboxStep
<1>1. queue' # <<>> /\ Len(queue') = Len(queue) + 1
  BY EnqueueLength DEF TypeOK
<1>2. LifeInv'
  BY DEF LifeInv, stateVars
<1>3. Outbox!Enqueue
  BY <1>1 DEF Outbox!Enqueue, stateVars
<1> QED BY <1>2, <1>3 DEF OutboxStep, Outbox!Next

\* retire_matching, with what its callers add, is Revoke, Navigate or Close.
LEMMA RetireDiscards ==
  ASSUME TypeOK, LifeInv, ~closed, NEW t \in BOOLEAN, Retire(t),
         \/ t = FALSE /\ admitted' = admitted
         \/ t = FALSE /\ admitted' = FALSE
         \/ t = TRUE /\ admitted' = admitted
  PROVE LifeInv' /\ OutboxStep
<1>1. live' = FALSE /\ queue' = <<>> /\ generation' = generation /\ closed' = t
  BY DEF Retire
<1>2. Len(queue') = 0
  BY <1>1
<1>3. Outbox!Discard
  BY <1>1, <1>2 DEF Outbox!Discard
<1>4. LifeInv'
  BY <1>1 DEF LifeInv
<1>5. Outbox!Revoke \/ Outbox!Navigate \/ Outbox!Close
  <2>1. closed = FALSE
    BY DEF TypeOK
  <2> QED BY <1>1, <1>3, <2>1 DEF Outbox!Revoke, Outbox!Navigate, Outbox!Close
<1> QED BY <1>4, <1>5 DEF OutboxStep, Outbox!Next

\* Every step of the engine keeps LifeInv and maps to a step of IpcOutbox.
LEMMA StepRefines ==
  TypeOK /\ LifeInv /\ [Next]_vars => LifeInv' /\ OutboxStep
<1> SUFFICES ASSUME TypeOK, LifeInv, [Next]_vars PROVE LifeInv' /\ OutboxStep
  OBVIOUS
<1> USE DEF queueVars
<1>1. CASE UNCHANGED vars
  BY <1>1, Invisible DEF vars
<1>2. CASE Admit
  <2>1. queue = <<>> /\ live' = TRUE /\ admitted' = TRUE /\ closed' = FALSE
        /\ queue' = queue /\ generation' = generation + 1
    BY <1>2 DEF Admit, LifeInv, TypeOK
  <2>2. LifeInv'
    BY <2>1 DEF LifeInv
  <2>3. Outbox!Admit
    BY <1>2, <2>1 DEF Admit, Outbox!Admit
  <2> QED BY <2>2, <2>3 DEF OutboxStep, Outbox!Next
<1>3. CASE Navigate
  BY <1>3, RetireDiscards DEF Navigate
<1>4. CASE Disconnect
  BY <1>4, RetireDiscards DEF Disconnect
<1>5. CASE Close
  BY <1>5, RetireDiscards DEF Close
<1>6. ASSUME NEW k \in Kinds, Prepare(k) PROVE LifeInv' /\ OutboxStep
  BY <1>6, Invisible DEF Prepare
<1>7. CASE FindExhausted
  BY <1>7, Invisible DEF FindExhausted
<1>8. CASE RetireExhausted
  BY <1>8, Invisible, RetireDiscards DEF RetireExhausted
<1>9. ASSUME NEW c \in Calls, CallStep(c) PROVE LifeInv' /\ OutboxStep
  <2>1. CASE SendRequest(c)
    BY <2>1, Visible DEF SendRequest, HasEntry, Document, EnqueueData
  <2>2. CASE CancelLocal(c)
    <3>1. live /\ ~closed /\ UNCHANGED stateVars
      BY <2>2 DEF CancelLocal, HasEntry, Document
    <3>2. CASE c[2] \in sent
      BY <2>2, <3>1, <3>2, Visible DEF CancelLocal, WithdrawEntry, EnqueueControl
    <3>3. CASE c[2] \notin sent
      BY <2>2, <3>1, <3>3, Invisible DEF CancelLocal, WithdrawEntry
    <3> QED BY <3>2, <3>3
  <2>3. CASE SendRequestFails(c) \/ ReceiveReply(c) \/ FinishLocal(c)
             \/ SettleResult(c) \/ SettleFailure(c)
    BY <2>3, Invisible DEF SendRequestFails, ReceiveReply, FinishLocal,
       SettleResult, SettleFailure
  <2> QED BY <1>9, <2>1, <2>2, <2>3 DEF CallStep
<1>10. ASSUME NEW p \in Posters, PostStep(p) PROVE LifeInv' /\ OutboxStep
  <2>1. CASE Authenticate(p) \/ PostIgnored(p) \/ ServeRequest(p) \/ ServeNotify(p)
    BY <2>1, Invisible DEF Authenticate, PostIgnored, ServeRequest, ServeNotify
  <2>2. ASSUME NEW i \in LocalIds, NEW k \in ReplyKind, PostReply(p, i, k)
        PROVE LifeInv' /\ OutboxStep
    BY <2>2, Invisible DEF PostReply
  <2>3. ASSUME NEW i \in PeerIds, PostCancel(p, i) PROVE LifeInv' /\ OutboxStep
    BY <2>3, Invisible DEF PostCancel
  <2>4. ASSUME NEW i \in PeerIds, PostDenied(p, i) PROVE LifeInv' /\ OutboxStep
    <3>1. live /\ ~closed /\ UNCHANGED stateVars
      BY <2>4 DEF PostDenied, Document
    <3>2. CASE CanReserve
      BY <2>4, <3>1, <3>2, Visible DEF PostDenied, EnqueueControl
    <3>3. CASE ~CanReserve
      BY <2>4, <3>1, <3>3, Invisible DEF PostDenied
    <3> QED BY <3>2, <3>3
  <2>5. ASSUME NEW i \in PeerIds, NEW k \in InvocationKind, PostInvoke(p, i, k)
        PROVE LifeInv' /\ OutboxStep
    BY <2>5, Invisible DEF PostInvoke
  <2> QED BY <1>10, <2>1, <2>2, <2>3, <2>4, <2>5 DEF PostStep
<1>11. ASSUME NEW c \in PeerCalls, CompleteIncoming(c)
       PROVE LifeInv' /\ OutboxStep
  <2>1. CASE IsOpen(c)
    BY <1>11, <2>1, Visible
    DEF CompleteIncoming, IsOpen, Document, Answer, EnqueueControl
  <2>2. CASE ~IsOpen(c)
    BY <1>11, <2>2, Invisible DEF CompleteIncoming
  <2> QED BY <2>1, <2>2
<1>12. ASSUME NEW c \in PeerCalls, TimeoutIncoming(c)
       PROVE LifeInv' /\ OutboxStep
  BY <1>12, Visible DEF TimeoutIncoming, IsOpen, Document, Answer, EnqueueControl
<1>13. ASSUME NEW c \in PeerCalls, Acknowledge(c) PROVE LifeInv' /\ OutboxStep
  <2>1. CASE Document(c[1])
    BY <1>13, <2>1, Visible DEF Acknowledge, Document, EnqueueControl
  <2>2. CASE ~Document(c[1])
    BY <1>13, <2>2, Invisible DEF Acknowledge
  <2> QED BY <2>1, <2>2
<1>14. CASE Drain
  <2>1. live /\ ~closed /\ UNCHANGED stateVars
    BY <1>14 DEF Drain, Document
  <2>2. Len(queue) > 0 /\ Len(queue') = Len(queue) - 1
    BY <1>14 DEF Drain, TypeOK
  <2>3. LifeInv'
    BY <2>1 DEF LifeInv, stateVars
  <2>4. Outbox!Pop
    BY <2>1, <2>2 DEF Outbox!Pop, stateVars
  <2> QED BY <2>3, <2>4 DEF OutboxStep, Outbox!Next
<1> QED
  BY <1>1, <1>2, <1>3, <1>4, <1>5, <1>6, <1>7, <1>8, <1>9, <1>10, <1>11,
     <1>12, <1>13, <1>14 DEF Next

\* The engine, with all its calls, requests, notifications and timeouts, is
\* seen from outside as IpcOutbox: documents admitted once per navigation and
\* never after close, frames queued and pulled one at a time for a live one.
THEOREM EngineImplementsOutbox == Spec => ImplementsOutbox
<1>1. Init => LifeInv /\ Outbox!Init
  BY DEF Init, LifeInv, Outbox!Init
<1>2. Spec => []LifeInv /\ [][Outbox!Next]_(Outbox!outboxVars)
  BY <1>1, TypeCorrect, StepRefines, PTL DEF Spec, OutboxStep
<1> QED BY <1>1, <1>2, PTL DEF Spec, ImplementsOutbox, Outbox!Spec
-----------------------------------------------------------------------------
(* A renderer invocation is answered at most once.  Besides the table and    *)
(* the tasks that may answer an invocation the inductive invariant has to    *)
(* speak of submissions between their two critical sections, which have      *)
(* consumed an id that nobody holds yet, and of every id seen so far, since  *)
(* a fresh one must be free of all of these.                                 *)

\* Submission p has consumed the id of c and not yet registered it.
Claims(p, c) ==
  post[p].stage = "invoked" /\ post[p].gen = c[1] /\ post[p].id = c[2]

\* Somebody may still answer c, or its cancellation was honoured.
Busy(c) == \/ Open(c) \/ c \in accepting \/ c \in revoked
           \/ \E p \in Posters : Claims(p, c)

\* Its holder holds it alone.
Exclusive(c) ==
  /\ ~(Open(c) /\ c \in accepting)
  /\ ~(Open(c) /\ c \in revoked)
  /\ ~(c \in accepting /\ c \in revoked)
  /\ \A p \in Posters : Claims(p, c) =>
       ~Open(c) /\ c \notin accepting /\ c \notin revoked
  /\ \A p, q \in Posters : Claims(p, c) /\ Claims(q, c) => p = q

\* Its id is not above the last one its document accepted.
Seen(c) ==
  c[1] <= generation /\ (live /\ c[1] = generation => c[2] <= lastPeerId)

Peer(c) ==
  /\ answers[c] \in {0, 1}
  /\ Busy(c) => answers[c] = 0
  /\ Exclusive(c)
  /\ Busy(c) \/ answers[c] # 0 => Seen(c)

AnswerInv == /\ ~live => incoming = {}
             /\ \A c \in PeerCalls : Peer(c)

\* An invocation is its generation and its id.
LEMMA PeerIsPair ==
  ASSUME NEW c \in PeerCalls, NEW d \in PeerCalls, c[1] = d[1], c[2] = d[2]
  PROVE c = d
BY DEF PeerCalls

\* A step that adds no holder and no answer keeps an invocation in order.
LEMMA FewerHolders ==
  ASSUME NEW c \in PeerCalls, Peer(c), answers'[c] = answers[c],
         Open(c)' => Open(c), c \in accepting' => c \in accepting,
         c \in revoked' => c \in revoked,
         \A p \in Posters : Claims(p, c)' => Claims(p, c),
         Seen(c) => Seen(c)'
  PROVE Peer(c)'
<1>1. Busy(c)' => Busy(c)
  BY DEF Busy
<1>2. Exclusive(c)'
  BY DEF Peer, Exclusive
<1> QED BY <1>1, <1>2 DEF Peer

\* A step that leaves the renderer's invocations alone
PeersUntouched ==
  UNCHANGED <<answers, incoming, accepting, revoked, post, generation, live,
              lastPeerId>>

\* keeps the invariant.
LEMMA NoPeerTouched ==
  ASSUME AnswerInv, PeersUntouched
  PROVE AnswerInv'
<1>1. ASSUME NEW c \in PeerCalls PROVE Peer(c)'
  <2>1. Peer(c)
    BY DEF AnswerInv
  <2> QED BY <2>1, FewerHolders DEF PeersUntouched, Open, Claims, Seen
<1> QED BY <1>1 DEF AnswerInv, PeersUntouched

\* retire_matching forgets the open requests and answers none.
LEMMA RetireAnswers ==
  ASSUME AnswerInv, NEW t \in BOOLEAN, Retire(t)
  PROVE AnswerInv'
<1>1. /\ live' = FALSE /\ incoming' = {}
      /\ UNCHANGED <<generation, answers, accepting, revoked, post>>
  BY DEF Retire, peerVars
<1>2. ASSUME NEW c \in PeerCalls PROVE Peer(c)'
  <2>1. Peer(c)
    BY DEF AnswerInv
  <2> QED BY <1>1, <2>1, FewerHolders DEF Open, Claims, Seen
<1> QED BY <1>1, <1>2 DEF AnswerInv

\* A submission that ends without a trace only gives up its claim.
LEMMA PostEnds ==
  ASSUME TypeOK, AnswerInv, NEW p \in Posters,
         post' = [post EXCEPT ![p] = IdlePost],
         UNCHANGED <<answers, incoming, accepting, revoked, generation, live,
                     lastPeerId>>
  PROVE AnswerInv'
<1>1. ASSUME NEW c \in PeerCalls, NEW q \in Posters, Claims(q, c)'
      PROVE Claims(q, c)
  BY <1>1 DEF Claims, TypeOK, IdlePost
<1>2. ASSUME NEW c \in PeerCalls PROVE Peer(c)'
  <2>1. Peer(c)
    BY DEF AnswerInv
  <2> QED BY <1>1, <2>1, FewerHolders DEF Open, Seen
<1> QED BY <1>2 DEF AnswerInv

\* An id above the last one is free.
LEMMA FreshIsFree ==
  ASSUME AnswerInv, live, NEW c \in PeerCalls, c[1] = generation, Fresh(c[2]),
         lastPeerId \in Int, c[2] \in Int
  PROVE ~Busy(c) /\ answers[c] = 0
<1>1. ~Seen(c)
  BY DEF Seen, Fresh
<1> QED BY <1>1 DEF AnswerInv, Peer

\* A renderer's submission passes the claim on its id to the table or to a
\* task, or gives it up.
LEMMA PostStepAnswers ==
  ASSUME TypeOK, LifeInv, AnswerInv, NEW p \in Posters, PostStep(p)
  PROVE AnswerInv'
<1> USE EngineAssumption
    DEF stateVars, idVars, tableVars, callVars, peerVars
<1>0. \A c \in PeerCalls : Peer(c) /\ c[1] \in Int /\ c[2] \in Int
  BY DEF AnswerInv, PeerCalls, Generations, PeerIds
<1>1. lastPeerId \in Int /\ generation \in Int
  BY DEF TypeOK
<1>2. CASE Authenticate(p)
  <2>1. ASSUME NEW c \in PeerCalls, NEW q \in Posters, Claims(q, c)'
        PROVE Claims(q, c)
    BY <1>2, <2>1 DEF Authenticate, SetPost, Claims, TypeOK
  <2>2. UNCHANGED <<answers, incoming, accepting, revoked, generation, live,
                    lastPeerId>>
    BY <1>2 DEF Authenticate
  <2>3. ASSUME NEW c \in PeerCalls PROVE Peer(c)'
    BY <1>0, <2>1, <2>2, FewerHolders DEF Open, Seen
  <2> QED BY <2>2, <2>3 DEF AnswerInv
<1>3. CASE PostIgnored(p)
  BY <1>3, PostEnds DEF PostIgnored
<1>4. ASSUME NEW i \in LocalIds, NEW k \in ReplyKind, PostReply(p, i, k)
      PROVE AnswerInv'
  BY <1>4, PostEnds DEF PostReply
<1>5. ASSUME NEW i \in PeerIds, PostCancel(p, i) PROVE AnswerInv'
  <2>1. PICK c \in PeerCalls : c = <<generation, i>>
    BY <1>5 DEF PostCancel, Document, TypeOK, PeerCalls
  <2>2. /\ live /\ i \in incoming /\ incoming' = incoming \ {i}
        /\ revoked' = revoked \cup {c} /\ post' = [post EXCEPT ![p] = IdlePost]
        /\ UNCHANGED <<answers, accepting, generation, live, lastPeerId>>
        /\ c[1] = generation /\ c[2] = i
    BY <1>5, <2>1 DEF PostCancel, Document
  <2>3. ASSUME NEW d \in PeerCalls, NEW q \in Posters, Claims(q, d)'
        PROVE Claims(q, d)
    BY <2>2, <2>3 DEF Claims, TypeOK, IdlePost
  <2>4. ASSUME NEW d \in PeerCalls, d # c PROVE Peer(d)'
    BY <1>0, <2>2, <2>3, <2>4, FewerHolders DEF Open, Seen
  <2>5. Peer(c)'
    <3>1. Open(c) /\ ~Open(c)' /\ Peer(c)
      BY <1>0, <2>2 DEF Open
    <3>2. Exclusive(c)'
      BY <2>2, <2>3, <3>1 DEF Peer, Exclusive
    <3>3. answers'[c] = 0 /\ Seen(c)'
      BY <2>2, <3>1 DEF Peer, Busy, Seen
    <3> QED BY <3>2, <3>3 DEF Peer
  <2> QED BY <2>2, <2>4, <2>5 DEF AnswerInv
<1>6. ASSUME NEW i \in PeerIds, PostDenied(p, i) PROVE AnswerInv'
  <2>1. PICK c \in PeerCalls : c = <<generation, i>>
    BY <1>6 DEF PostDenied, Document, TypeOK, PeerCalls
  <2>2. /\ live /\ Fresh(i) /\ lastPeerId' = i
        /\ post' = [post EXCEPT ![p] = IdlePost]
        /\ UNCHANGED <<incoming, accepting, revoked, generation, live>>
        /\ c[1] = generation /\ c[2] = i
        /\ answers' \in {answers, [answers EXCEPT ![c] = @ + 1]}
    BY <1>6, <2>1 DEF PostDenied, Document
  <2>3. ASSUME NEW d \in PeerCalls, NEW q \in Posters, Claims(q, d)'
        PROVE Claims(q, d)
    BY <2>2, <2>3 DEF Claims, TypeOK, IdlePost
  <2>4. ASSUME NEW d \in PeerCalls, d # c PROVE Peer(d)'
    <3>1. answers'[d] = answers[d]
      BY <2>2, <2>4 DEF TypeOK
    <3>2. Seen(d) => Seen(d)'
      BY <1>0, <1>1, <2>2 DEF Seen, Fresh
    <3> QED BY <1>0, <2>2, <2>3, <3>1, <3>2, FewerHolders DEF Open
  <2>5. Peer(c)'
    <3>1. ~Busy(c) /\ answers[c] = 0
      BY <1>0, <1>1, <2>2, FreshIsFree
    <3>2. ~Busy(c)'
      BY <2>2, <2>3, <3>1 DEF Busy, Open
    <3>3. answers'[c] \in {0, 1}
      BY <2>2, <3>1 DEF TypeOK
    <3>4. Seen(c)'
      BY <1>0, <1>1, <2>2 DEF Seen
    <3>5. Exclusive(c)'
      BY <3>2 DEF Exclusive, Busy
    <3> QED BY <3>2, <3>3, <3>4, <3>5 DEF Peer
  <2> QED BY <2>2, <2>4, <2>5 DEF AnswerInv
<1>7. ASSUME NEW i \in PeerIds, NEW k \in InvocationKind, PostInvoke(p, i, k)
      PROVE AnswerInv'
  <2>1. PICK c \in PeerCalls : c = <<generation, i>>
    BY <1>7 DEF PostInvoke, Document, TypeOK, PeerCalls
  <2>2. /\ live /\ Fresh(i) /\ lastPeerId' = i
        /\ UNCHANGED <<answers, incoming, accepting, revoked, generation, live>>
        /\ c[1] = generation /\ c[2] = i
        /\ post' = [post EXCEPT ![p] = [stage |-> "invoked", gen |-> generation,
                                        kind |-> k, id |-> i]]
    BY <1>7, <2>1 DEF PostInvoke, SetPost, Document
  <2>3. \A d \in PeerCalls, q \in Posters :
          Claims(q, d)' => Claims(q, d) \/ (q = p /\ d = c)
    BY <2>2, PeerIsPair DEF Claims, TypeOK
  <2>4. ASSUME NEW d \in PeerCalls, d # c PROVE Peer(d)'
    <3>1. Seen(d) => Seen(d)'
      BY <1>0, <1>1, <2>2 DEF Seen, Fresh
    <3> QED BY <1>0, <2>2, <2>3, <2>4, <3>1, FewerHolders DEF Open
  <2>5. Peer(c)'
    <3>1. ~Busy(c) /\ answers[c] = 0
      BY <1>0, <1>1, <2>2, FreshIsFree
    <3>2. Exclusive(c)'
      BY <2>2, <2>3, <3>1 DEF Exclusive, Busy, Open
    <3>3. Seen(c)' /\ answers'[c] = 0
      BY <1>0, <1>1, <2>2, <3>1 DEF Seen
    <3> QED BY <3>2, <3>3 DEF Peer
  <2> QED BY <2>2, <2>4, <2>5 DEF AnswerInv
<1>8. CASE ServeRequest(p)
  <2>0. post[p] \in PostState /\ post[p].stage = "invoked" /\ post[p].id \in PeerIds
    BY <1>8 DEF ServeRequest, TypeOK, PostState
  <2>1. PICK c \in PeerCalls : c = <<generation, post[p].id>>
    BY <1>8, <2>0 DEF ServeRequest, Document, TypeOK, PeerCalls
  <2>2. /\ live /\ incoming' = incoming \cup {c[2]} /\ c[1] = generation
        /\ post' = [post EXCEPT ![p] = IdlePost]
        /\ UNCHANGED <<answers, accepting, revoked, generation, live, lastPeerId>>
    BY <1>8, <2>1 DEF ServeRequest, Document
  <2>3. Claims(p, c) /\ \A q \in Posters : Claims(q, c) => q = p
    <3>1. Claims(p, c)
      BY <1>8, <2>1 DEF ServeRequest, Document, Claims
    <3> QED BY <1>0, <3>1 DEF Peer, Exclusive
  <2>4. \A d \in PeerCalls, q \in Posters : Claims(q, d)' => Claims(q, d) /\ q # p
    BY <2>2 DEF Claims, TypeOK, IdlePost
  <2>5. ASSUME NEW d \in PeerCalls, d # c PROVE Peer(d)'
    <3>1. Open(d)' => Open(d)
      BY <2>2, <2>5, PeerIsPair DEF Open
    <3> QED BY <1>0, <2>2, <2>4, <3>1, FewerHolders DEF Seen
  <2>6. Peer(c)'
    <3>1. /\ Busy(c) /\ ~Open(c) /\ c \notin accepting /\ c \notin revoked
      BY <1>0, <2>3 DEF Busy, Peer, Exclusive
    <3>2. \A q \in Posters : ~Claims(q, c)'
      BY <2>3, <2>4
    <3>3. Exclusive(c)'
      BY <2>2, <3>1, <3>2 DEF Exclusive
    <3>4. answers'[c] = 0 /\ Seen(c)'
      BY <1>0, <2>2, <3>1 DEF Peer, Seen
    <3> QED BY <3>3, <3>4 DEF Peer
  <2> QED BY <2>2, <2>5, <2>6 DEF AnswerInv
<1>9. CASE ServeNotify(p)
  <2>0. post[p] \in PostState /\ post[p].stage = "invoked" /\ post[p].id \in PeerIds
    BY <1>9 DEF ServeNotify, TypeOK, PostState
  <2>1. PICK c \in PeerCalls : c = <<generation, post[p].id>>
    BY <1>9, <2>0 DEF ServeNotify, Document, TypeOK, PeerCalls
  <2>2. /\ live /\ accepting' = accepting \cup {c} /\ c[1] = generation
        /\ post' = [post EXCEPT ![p] = IdlePost]
        /\ UNCHANGED <<answers, incoming, revoked, generation, live, lastPeerId>>
    BY <1>9, <2>1 DEF ServeNotify, Document
  <2>3. Claims(p, c) /\ \A q \in Posters : Claims(q, c) => q = p
    <3>1. Claims(p, c)
      BY <1>9, <2>1 DEF ServeNotify, Document, Claims
    <3> QED BY <1>0, <3>1 DEF Peer, Exclusive
  <2>4. \A d \in PeerCalls, q \in Posters : Claims(q, d)' => Claims(q, d) /\ q # p
    BY <2>2 DEF Claims, TypeOK, IdlePost
  <2>5. ASSUME NEW d \in PeerCalls, d # c PROVE Peer(d)'
    BY <1>0, <2>2, <2>4, <2>5, FewerHolders DEF Seen, Open
  <2>6. Peer(c)'
    <3>1. /\ Busy(c) /\ ~Open(c) /\ c \notin accepting /\ c \notin revoked
      BY <1>0, <2>3 DEF Busy, Peer, Exclusive
    <3>2. ~Open(c)' /\ \A q \in Posters : ~Claims(q, c)'
      BY <2>2, <2>3, <2>4, <3>1 DEF Open
    <3>3. Exclusive(c)'
      BY <2>2, <3>1, <3>2 DEF Exclusive
    <3>4. answers'[c] = 0 /\ Seen(c)'
      BY <1>0, <2>2, <3>1 DEF Peer, Seen
    <3> QED BY <3>3, <3>4 DEF Peer
  <2> QED BY <2>2, <2>5, <2>6 DEF AnswerInv
<1> QED BY <1>2, <1>3, <1>4, <1>5, <1>6, <1>7, <1>8, <1>9 DEF PostStep

\* A handler or a deadline that removes the table entry answers, alone.
LEMMA AnswerTakesEntry ==
  ASSUME TypeOK, LifeInv, AnswerInv, NEW c \in PeerCalls, IsOpen(c),
         incoming' = incoming \ {c[2]},
         answers' = [answers EXCEPT ![c] = @ + 1],
         UNCHANGED <<accepting, revoked, post, generation, live, lastPeerId>>
  PROVE AnswerInv' /\ answers'[c] = 1
<1>1. Open(c) /\ ~Open(c)' /\ c[1] = generation /\ Peer(c)
  BY DEF IsOpen, Document, Open, AnswerInv
<1>2. \A d \in PeerCalls, q \in Posters : Claims(q, d)' <=> Claims(q, d)
  BY DEF Claims
<1>3. ASSUME NEW d \in PeerCalls, d # c PROVE Peer(d)'
  <2>1. answers'[d] = answers[d] /\ Peer(d)
    BY <1>3 DEF TypeOK, AnswerInv
  <2> QED BY <1>2, <2>1, FewerHolders DEF Open, Seen
<1>4. answers'[c] = 1
  BY <1>1 DEF Peer, Busy, TypeOK
<1>5. Peer(c)'
  <2>1. ~Busy(c)'
    BY <1>1, <1>2 DEF Peer, Exclusive, Busy
  <2>2. Exclusive(c)'
    BY <2>1 DEF Exclusive, Busy
  <2>3. Seen(c)'
    BY <1>1 DEF Peer, Busy, Seen
  <2> QED BY <1>4, <2>1, <2>2, <2>3 DEF Peer
<1> QED BY <1>1, <1>3, <1>4, <1>5 DEF AnswerInv, Open

\* complete_incoming
LEMMA CompleteAnswers ==
  ASSUME TypeOK, LifeInv, AnswerInv, NEW c \in PeerCalls, CompleteIncoming(c)
  PROVE AnswerInv'
<1> USE DEF stateVars, idVars, tableVars, callVars, peerVars
<1>1. CASE IsOpen(c)
  BY <1>1, AnswerTakesEntry DEF CompleteIncoming, Answer
<1>2. CASE ~IsOpen(c)
  BY <1>2, NoPeerTouched DEF CompleteIncoming, PeersUntouched
<1> QED BY <1>1, <1>2

\* The acknowledgement of a notification is its only answer.
LEMMA AcknowledgeAnswers ==
  ASSUME TypeOK, LifeInv, AnswerInv, NEW c \in PeerCalls, Acknowledge(c)
  PROVE AnswerInv'
<1>1. /\ c \in accepting /\ accepting' = accepting \ {c} /\ Peer(c)
      /\ answers' \in {answers, [answers EXCEPT ![c] = @ + 1]}
      /\ UNCHANGED <<incoming, revoked, post, generation, live, lastPeerId>>
  BY DEF Acknowledge, stateVars, idVars, tableVars, AnswerInv
<1>2. \A d \in PeerCalls, q \in Posters : Claims(q, d)' <=> Claims(q, d)
  BY <1>1 DEF Claims
<1>3. \A d \in PeerCalls : (Open(d)' <=> Open(d)) /\ (Seen(d)' <=> Seen(d))
  BY <1>1 DEF Open, Seen
<1>4. ASSUME NEW d \in PeerCalls, d # c PROVE Peer(d)'
  <2>1. answers'[d] = answers[d] /\ Peer(d)
    BY <1>1, <1>4 DEF TypeOK, AnswerInv
  <2> QED BY <1>1, <1>2, <1>3, <2>1, FewerHolders
<1>5. Peer(c)'
  <2>1. ~Busy(c)'
    BY <1>1, <1>2, <1>3 DEF Peer, Exclusive, Busy
  <2>2. answers[c] = 0 /\ Seen(c)'
    BY <1>1, <1>3 DEF Peer, Busy
  <2>3. answers'[c] \in {0, 1}
    BY <1>1, <2>2 DEF TypeOK
  <2>4. Exclusive(c)'
    BY <2>1 DEF Exclusive, Busy
  <2> QED BY <2>1, <2>2, <2>3, <2>4 DEF Peer
<1> QED BY <1>1, <1>4, <1>5 DEF AnswerInv

\* Every critical section keeps the invariant.
LEMMA AnswersNext ==
  TypeOK /\ LifeInv /\ AnswerInv /\ [Next]_vars => AnswerInv'
<1> SUFFICES ASSUME TypeOK, LifeInv, AnswerInv, [Next]_vars PROVE AnswerInv'
  OBVIOUS
<1> USE DEF PeersUntouched, stateVars, idVars, tableVars, callVars, peerVars
<1>1. CASE UNCHANGED vars
  BY <1>1, NoPeerTouched DEF vars
<1>2. CASE Admit
  <2>1. /\ ~live /\ live' = TRUE /\ generation' = generation + 1 /\ incoming = {}
        /\ UNCHANGED <<answers, incoming, accepting, revoked, post, lastPeerId>>
    BY <1>2 DEF Admit, LifeInv, AnswerInv
  <2>2. ASSUME NEW c \in PeerCalls PROVE Peer(c)'
    <3>1. Peer(c)
      BY DEF AnswerInv
    <3>2. c[1] \in Int /\ generation \in Int
      BY EngineAssumption DEF TypeOK, PeerCalls, Generations
    <3>3. Seen(c) => Seen(c)'
      BY <2>1, <3>2 DEF Seen
    <3> QED BY <2>1, <3>1, <3>3, FewerHolders DEF Open, Claims
  <2> QED BY <2>1, <2>2 DEF AnswerInv
<1>3. CASE Navigate
  BY <1>3, RetireAnswers DEF Navigate
<1>4. CASE Disconnect
  BY <1>4, RetireAnswers DEF Disconnect
<1>5. CASE Close
  BY <1>5, RetireAnswers DEF Close
<1>6. ASSUME NEW k \in Kinds, Prepare(k) PROVE AnswerInv'
  BY <1>6, NoPeerTouched DEF Prepare
<1>7. CASE FindExhausted
  BY <1>7, NoPeerTouched DEF FindExhausted
<1>8. CASE RetireExhausted
  BY <1>8, NoPeerTouched, RetireAnswers DEF RetireExhausted
<1>9. ASSUME NEW c \in Calls, CallStep(c) PROVE AnswerInv'
  BY <1>9, NoPeerTouched
  DEF CallStep, SendRequest, SendRequestFails, ReceiveReply, FinishLocal,
      SettleResult, SettleFailure, CancelLocal
<1>10. ASSUME NEW p \in Posters, PostStep(p) PROVE AnswerInv'
  BY <1>10, PostStepAnswers
<1>11. ASSUME NEW c \in PeerCalls, CompleteIncoming(c) PROVE AnswerInv'
  BY <1>11, CompleteAnswers
<1>12. ASSUME NEW c \in PeerCalls, TimeoutIncoming(c) PROVE AnswerInv'
  BY <1>12, AnswerTakesEntry DEF TimeoutIncoming, Answer
<1>13. ASSUME NEW c \in PeerCalls, Acknowledge(c) PROVE AnswerInv'
  BY <1>13, AcknowledgeAnswers
<1>14. CASE Drain
  BY <1>14, NoPeerTouched DEF Drain
<1> QED
  BY <1>1, <1>2, <1>3, <1>4, <1>5, <1>6, <1>7, <1>8, <1>9, <1>10, <1>11,
     <1>12, <1>13, <1>14 DEF Next

\* The invariant holds throughout.
LEMMA AnswerInvariant == Spec => [](TypeOK /\ LifeInv /\ AnswerInv)
<1>1. Init => LifeInv /\ AnswerInv
  <2>1. Init => \A c \in PeerCalls : Peer(c)
    <3> SUFFICES ASSUME Init, NEW c \in PeerCalls PROVE Peer(c)
      OBVIOUS
    <3>1. ~Busy(c)
      BY DEF Init, Busy, Open, Claims, IdlePost
    <3>2. answers[c] = 0
      BY DEF Init
    <3>3. Exclusive(c)
      BY <3>1 DEF Exclusive, Busy
    <3> QED BY <3>1, <3>2, <3>3 DEF Peer
  <2> QED BY <2>1 DEF Init, LifeInv, AnswerInv
<1>2. TypeOK /\ LifeInv /\ [Next]_vars => LifeInv'
  BY StepRefines
<1> QED BY <1>1, <1>2, TypeCorrect, AnswersNext, PTL DEF Spec

\* A renderer invocation is answered at most once, whatever the race between
\* its submission, its handler, its deadline, its cancellation and the end of
\* its document, and not at all once its cancellation was honoured.
THEOREM RequestsAnsweredOnce == Spec => []AnsweredOnce
<1>1. AnswerInv => AnsweredOnce
  BY DEF AnswerInv, Peer, Busy, AnsweredOnce, Accepting
<1> QED BY <1>1, AnswerInvariant, PTL

\* An accepted request leaves the table only answered, cancelled by the
\* renderer, or with its document.
THEOREM RequestsStayOpen == Spec => OpenUntilAnswered
<1> DEFINE Leaves == \A c \in PeerCalls :
      Open(c) /\ ~Open(c)' => answers'[c] = 1 \/ c \in revoked' \/ ~live'
<1>1. ASSUME TypeOK, LifeInv, AnswerInv, [Next]_vars PROVE Leaves
  <2> SUFFICES ASSUME NEW c \in PeerCalls, Open(c), ~Open(c)', live'
               PROVE answers'[c] = 1 \/ c \in revoked'
    OBVIOUS
  <2> USE DEF stateVars, idVars, tableVars, callVars, peerVars
  <2>1. live /\ c[1] = generation /\ c[2] \in incoming
    BY DEF Open
  <2>2. ASSUME UNCHANGED <<generation, live>>, incoming \subseteq incoming'
        PROVE FALSE
    BY <2>1, <2>2 DEF Open
  <2>3. ASSUME NEW d \in PeerCalls, IsOpen(d), incoming' = incoming \ {d[2]},
               UNCHANGED <<generation, live>>
        PROVE c = d
    BY <2>1, <2>3, PeerIsPair DEF Open, IsOpen, Document
  <2>4. CASE UNCHANGED vars
    BY <2>2, <2>4 DEF vars
  <2>5. CASE Admit
    BY <1>1, <2>1, <2>5 DEF Admit, LifeInv
  <2>6. CASE Navigate \/ Disconnect \/ Close
    BY <2>6 DEF Navigate, Disconnect, Close, Retire
  <2>7. ASSUME NEW k \in Kinds, Prepare(k) PROVE FALSE
    BY <2>2, <2>7 DEF Prepare
  <2>8. CASE FindExhausted
    BY <2>2, <2>8 DEF FindExhausted
  <2>9. CASE RetireExhausted
    BY <1>1, <2>1, <2>9 DEF RetireExhausted, Retire, LifeInv
  <2>10. ASSUME NEW d \in Calls, CallStep(d) PROVE FALSE
    BY <2>2, <2>10
    DEF CallStep, SendRequest, SendRequestFails, ReceiveReply, FinishLocal,
        SettleResult, SettleFailure, CancelLocal
  <2>11. ASSUME NEW p \in Posters, PostStep(p) PROVE c \in revoked'
    <3>1. ASSUME NEW i \in PeerIds, PostCancel(p, i) PROVE c \in revoked'
      <4>1. /\ incoming' = incoming \ {i} /\ UNCHANGED <<generation, live>>
            /\ revoked' = revoked \cup {<<generation, i>>}
        BY <3>1 DEF PostCancel
      <4>2. c[2] = i
        BY <2>1, <4>1 DEF Open
      <4>3. c = <<c[1], c[2]>>
        BY DEF PeerCalls
      <4> QED BY <2>1, <4>1, <4>2, <4>3
    <3>2. ASSUME NEW i \in PeerIds, PostDenied(p, i) PROVE FALSE
      BY <2>2, <3>2 DEF PostDenied
    <3>3. ASSUME NEW i \in PeerIds, NEW k \in InvocationKind, PostInvoke(p, i, k)
          PROVE FALSE
      BY <2>2, <3>3 DEF PostInvoke
    <3>4. ASSUME NEW i \in LocalIds, NEW k \in ReplyKind, PostReply(p, i, k)
          PROVE FALSE
      BY <2>2, <3>4 DEF PostReply
    <3>5. CASE Authenticate(p) \/ PostIgnored(p) \/ ServeRequest(p) \/ ServeNotify(p)
      BY <2>2, <3>5 DEF Authenticate, PostIgnored, ServeRequest, ServeNotify
    <3> QED BY <2>11, <3>1, <3>2, <3>3, <3>4, <3>5 DEF PostStep
  <2>12. ASSUME NEW d \in PeerCalls, CompleteIncoming(d) PROVE answers'[c] = 1
    <3>1. CASE IsOpen(d)
      BY <1>1, <2>3, <2>12, <3>1, AnswerTakesEntry DEF CompleteIncoming, Answer
    <3>2. CASE ~IsOpen(d)
      BY <2>2, <2>12, <3>2 DEF CompleteIncoming
    <3> QED BY <3>1, <3>2
  <2>13. ASSUME NEW d \in PeerCalls, TimeoutIncoming(d) PROVE answers'[c] = 1
    BY <1>1, <2>3, <2>13, AnswerTakesEntry DEF TimeoutIncoming, Answer
  <2>14. ASSUME NEW d \in PeerCalls, Acknowledge(d) PROVE FALSE
    BY <2>2, <2>14 DEF Acknowledge
  <2>15. CASE Drain
    BY <2>2, <2>15 DEF Drain
  <2> QED
    BY <1>1, <2>4, <2>5, <2>6, <2>7, <2>8, <2>9, <2>10, <2>11, <2>12, <2>13,
       <2>14, <2>15 DEF Next
<1>2. TypeOK /\ LifeInv /\ AnswerInv /\ [Next]_vars => [Leaves]_vars
  BY <1>1
<1> QED BY <1>2, AnswerInvariant, PTL DEF Spec, OpenUntilAnswered

-----------------------------------------------------------------------------
(* The calls the host makes: who may settle them, and the order in which     *)
(* they leave.  OneOwner is not inductive: it says nothing of calls not      *)
(* started, whose first owner must be the table, nor of the result an owner  *)
(* is about to deliver.                                                      *)

\* Whoever holds the settlement of d holds it alone.
Alone(d) ==
  /\ InTable(d) \/ d \in failing \/ task[d] = "owner" \/ settled[d] # "none"
  /\ ~(InTable(d) /\ d \in failing)
  /\ ~(InTable(d) /\ task[d] = "owner")
  /\ ~(InTable(d) /\ settled[d] # "none")
  /\ ~(d \in failing /\ task[d] = "owner")
  /\ ~(d \in failing /\ settled[d] # "none")
  /\ ~(task[d] = "owner" /\ settled[d] # "none")

\* An id is started only once it was handed out by its own document.
HandedOut(d) == d[1] <= generation /\ (live /\ d[1] = generation => d[2] < nextId)

Ownership(d) ==
  /\ task[d] = "none" => ~InTable(d) /\ d \notin failing /\ settled[d] = "none"
  /\ task[d] # "none" => Alone(d) /\ HandedOut(d)
  /\ task[d] \in {"finish", "owner"} => outcome[d] # "none"

OwnershipInv == /\ ~live => pending = {}
                /\ \A d \in Calls : Ownership(d)

\* A call is its generation and its id.
LEMMA CallIsPair ==
  ASSUME NEW c \in Calls, NEW d \in Calls, c[1] = d[1], c[2] = d[2]
  PROVE c = d
BY DEF Calls

\* A step that changes nothing about call d keeps its ownership.
LEMMA OtherCall ==
  ASSUME NEW d \in Calls, TypeOK, Ownership(d),
         task'[d] = task[d], outcome'[d] = outcome[d], settled'[d] = settled[d],
         d \in failing' <=> d \in failing, InTable(d)' <=> InTable(d),
         generation' = generation, live' = live,
         live => nextId' \in Int /\ nextId <= nextId'
  PROVE Ownership(d)'
<1>1. Alone(d) => Alone(d)'
  BY DEF Alone
<1>2. HandedOut(d) => HandedOut(d)'
  <2>1. d[2] \in Int /\ nextId \in Int
    BY DEF TypeOK, Calls, LocalIds
  <2> QED BY <2>1 DEF HandedOut
<1> QED BY <1>1, <1>2 DEF Ownership

\* A step that leaves every call alone
CallsUntouched ==
  UNCHANGED <<task, outcome, settled, failing, pending, generation, live, nextId>>

\* keeps the invariant.
LEMMA NoCallTouched ==
  ASSUME TypeOK, OwnershipInv, CallsUntouched
  PROVE OwnershipInv'
<1>1. ASSUME NEW d \in Calls PROVE Ownership(d)'
  <2>1. Ownership(d)
    BY DEF OwnershipInv
  <2>2. nextId \in Int
    BY DEF TypeOK
  <2>3. InTable(d)' <=> InTable(d)
    BY DEF CallsUntouched, InTable
  <2> QED BY <2>1, <2>2, <2>3, OtherCall DEF CallsUntouched
<1> QED BY <1>1 DEF OwnershipInv, CallsUntouched

\* retire_matching hands every entry of the table to the retiring thread.
LEMMA RetireOwnership ==
  ASSUME TypeOK, LifeInv, OwnershipInv, NEW t \in BOOLEAN, Retire(t)
  PROVE OwnershipInv'
<1>1. /\ live' = FALSE /\ pending' = {} /\ generation' = generation
      /\ task' = task /\ outcome' = outcome /\ settled' = settled
      /\ failing' = failing \cup Abandoned
  BY DEF Retire
<1>2. ASSUME NEW d \in Calls PROVE Ownership(d)'
  <2>1. Ownership(d)
    BY DEF OwnershipInv
  <2>2. d \in Abandoned <=> InTable(d)
    <3>1. CASE live
      BY <3>1 DEF Abandoned, InTable
    <3>2. CASE ~live
      BY <3>2 DEF Abandoned, InTable, OwnershipInv
    <3> QED BY <3>1, <3>2
  <2>3. ~InTable(d)'
    BY <1>1 DEF InTable
  <2>4. d \in failing' <=> d \in failing \/ InTable(d)
    BY <1>1, <2>2
  <2>5. Alone(d) => Alone(d)'
    BY <1>1, <2>3, <2>4 DEF Alone
  <2>6. HandedOut(d) => HandedOut(d)'
    BY <1>1 DEF HandedOut
  <2> QED BY <1>1, <2>1, <2>3, <2>4, <2>5, <2>6 DEF Ownership
<1> QED BY <1>1, <1>2 DEF OwnershipInv

\* prepare starts a call that was never started, owned by the table.
LEMMA PrepareOwnership ==
  ASSUME TypeOK, LifeInv, OwnershipInv, NEW k \in Kinds, Prepare(k)
  PROVE OwnershipInv'
<1>0. <<generation, nextId>> \in Calls /\ nextId \in Int /\ generation \in Int
  BY EngineAssumption DEF Prepare, Document, IdLeft, TypeOK, Calls, LocalIds,
     Generations
<1>c. PICK c \in Calls : c = <<generation, nextId>>
  BY <1>0
<1>1. /\ live /\ live' = live /\ generation' = generation
      /\ outcome' = outcome /\ settled' = settled /\ failing' = failing
      /\ nextId' = nextId + 1 /\ pending' = pending \cup {nextId}
      /\ task' = [task EXCEPT ![c] = "gate"]
  BY <1>c DEF Prepare, Document, stateVars
<1>2. /\ c[1] = generation /\ c[2] = nextId
      /\ nextId \in Int /\ generation \in Int
  BY <1>0, <1>c
<1>3. task[c] = "none"
  <2>1. Ownership(c)
    BY <1>2 DEF OwnershipInv
  <2>2. ~HandedOut(c)
    BY <1>1, <1>2 DEF HandedOut
  <2> QED BY <2>1, <2>2 DEF Ownership
<1>4. ASSUME NEW d \in Calls, d # c PROVE Ownership(d)'
  <2>1. Ownership(d)
    BY DEF OwnershipInv
  <2>2. task'[d] = task[d]
    BY <1>1, <1>4 DEF TypeOK
  <2>3. InTable(d)' <=> InTable(d)
    <3>1. ~(d[1] = generation /\ d[2] = nextId)
      BY <1>2, <1>4, CallIsPair
    <3> QED BY <1>1, <3>1 DEF InTable
  <2> QED BY <1>1, <1>2, <2>1, <2>2, <2>3, OtherCall
<1>5. Ownership(c)'
  <2>1. task'[c] = "gate"
    BY <1>1, <1>2 DEF TypeOK
  <2>2. InTable(c)'
    BY <1>1, <1>2 DEF InTable
  <2>3. c \notin failing' /\ settled'[c] = "none"
    BY <1>1, <1>2, <1>3 DEF OwnershipInv, Ownership
  <2>4. Alone(c)'
    BY <2>1, <2>2, <2>3 DEF Alone
  <2>5. HandedOut(c)'
    BY <1>1, <1>2 DEF HandedOut
  <2> QED BY <2>1, <2>4, <2>5 DEF Ownership
<1> QED BY <1>1, <1>4, <1>5 DEF OwnershipInv

\* A step of call c that leaves the counters alone only has to be checked for
\* c itself: it takes no other call's entry, result or settlement.
LEMMA OneCallTouched ==
  ASSUME TypeOK, OwnershipInv, NEW c \in Calls,
         UNCHANGED <<generation, live, nextId>>,
         \A d \in Calls \ {c} :
           /\ task'[d] = task[d] /\ outcome'[d] = outcome[d]
           /\ settled'[d] = settled[d] /\ (d \in failing' <=> d \in failing),
         \/ pending' = pending
         \/ c[1] = generation /\ pending' = pending \ {c[2]},
         ~live => pending' = {},
         Ownership(c)'
  PROVE OwnershipInv'
<1>1. ASSUME NEW d \in Calls, d # c PROVE Ownership(d)'
  <2>1. Ownership(d) /\ nextId \in Int
    BY DEF OwnershipInv, TypeOK
  <2>2. InTable(d)' <=> InTable(d)
    <3>1. d[1] = c[1] => d[2] # c[2]
      BY <1>1, CallIsPair
    <3> QED BY <3>1 DEF InTable
  <2> QED BY <1>1, <2>1, <2>2, OtherCall
<1> QED BY <1>1 DEF OwnershipInv

\* The steps of a call's worker, of its canceller and of its deadline hand the
\* settlement on, or keep it.
LEMMA CallStepOwnership ==
  ASSUME TypeOK, LifeInv, OwnershipInv, NEW c \in Calls, CallStep(c)
  PROVE OwnershipInv'
<1>0. Ownership(c) /\ (~live => pending = {})
  BY DEF OwnershipInv
<1>1. CASE SendRequest(c)
  <2>1. /\ task[c] = "gate" /\ task' = [task EXCEPT ![c] = "reply"]
        /\ UNCHANGED <<generation, live, nextId, pending, outcome, settled, failing>>
    BY <1>1 DEF SendRequest, stateVars, idVars
  <2>2. task'[c] = "reply" /\ \A d \in Calls \ {c} : task'[d] = task[d]
    BY <2>1 DEF TypeOK
  <2>3. Ownership(c)'
    BY <1>0, <2>1, <2>2 DEF Ownership, Alone, HandedOut, InTable
  <2> QED BY <1>0, <2>1, <2>2, <2>3, OneCallTouched
<1>2. CASE SendRequestFails(c) \/ ReceiveReply(c)
  <2>1. /\ task[c] \in {"gate", "reply"} /\ task' = [task EXCEPT ![c] = "finish"]
        /\ UNCHANGED <<generation, live, nextId, pending, settled, failing>>
        /\ \E o \in {"value", "error"} : outcome' = [outcome EXCEPT ![c] = o]
    BY <1>2 DEF SendRequestFails, ReceiveReply, stateVars, idVars, tableVars, TypeOK
  <2>2. /\ task'[c] = "finish" /\ outcome'[c] \in {"value", "error"}
        /\ \A d \in Calls \ {c} : task'[d] = task[d] /\ outcome'[d] = outcome[d]
    BY <2>1 DEF TypeOK
  <2>3. Ownership(c)'
    BY <1>0, <2>1, <2>2 DEF Ownership, Alone, HandedOut, InTable
  <2> QED BY <1>0, <2>1, <2>2, <2>3, OneCallTouched
<1>3. CASE FinishLocal(c)
  <2>1. /\ task[c] = "finish"
        /\ UNCHANGED <<generation, live, nextId, settled, failing>>
    BY <1>3 DEF FinishLocal, stateVars, idVars
  <2>2. CASE HasEntry(c)
    <3>1. /\ c[1] = generation /\ pending' = pending \ {c[2]}
          /\ task' = [task EXCEPT ![c] = "owner"]
          /\ \E o \in {outcome[c], "error"} : outcome' = [outcome EXCEPT ![c] = o]
      BY <1>3, <2>2 DEF FinishLocal, TakeOwnership, DropEntry, HasEntry, Document
    <3>2. /\ task'[c] = "owner" /\ outcome'[c] \in {outcome[c], "error"}
          /\ \A d \in Calls \ {c} : task'[d] = task[d] /\ outcome'[d] = outcome[d]
      BY <3>1 DEF TypeOK
    <3>3. InTable(c) /\ ~InTable(c)'
      BY <2>2, <3>1 DEF HasEntry, Document, InTable
    <3>4. Alone(c)' /\ HandedOut(c)'
      BY <1>0, <2>1, <3>2, <3>3 DEF Ownership, Alone, HandedOut
    <3>5. Ownership(c)'
      BY <1>0, <2>1, <3>2, <3>4 DEF Ownership
    <3> QED BY <1>0, <2>1, <3>1, <3>2, <3>5, OneCallTouched
  <2>3. CASE ~HasEntry(c)
    <3>1. /\ pending' = pending
          /\ task' = [task EXCEPT ![c] = "end"]
          /\ outcome' = [outcome EXCEPT ![c] = "none"]
      BY <1>3, <2>3 DEF FinishLocal, TakeOwnership
    <3>2. /\ task'[c] = "end"
          /\ \A d \in Calls \ {c} : task'[d] = task[d] /\ outcome'[d] = outcome[d]
      BY <3>1 DEF TypeOK
    <3>3. Alone(c)' /\ HandedOut(c)'
      BY <1>0, <2>1, <3>1, <3>2 DEF Ownership, Alone, HandedOut, InTable
    <3>4. Ownership(c)'
      BY <3>2, <3>3 DEF Ownership
    <3> QED BY <1>0, <2>1, <3>1, <3>2, <3>4, OneCallTouched
  <2> QED BY <2>2, <2>3
<1>4. CASE SettleResult(c)
  <2>1. /\ task[c] = "owner" /\ Resolve(c, outcome[c])
        /\ task' = [task EXCEPT ![c] = "end"]
        /\ outcome' = [outcome EXCEPT ![c] = "none"]
        /\ UNCHANGED <<generation, live, nextId, pending, failing>>
    BY <1>4 DEF SettleResult, stateVars, idVars, tableVars
  <2>2. settled[c] = "none" /\ outcome[c] # "none"
    BY <1>0, <2>1 DEF Ownership, Alone
  <2>3. /\ task'[c] = "end" /\ settled'[c] # "none"
        /\ \A d \in Calls \ {c} : /\ task'[d] = task[d] /\ outcome'[d] = outcome[d]
                                  /\ settled'[d] = settled[d]
    BY <2>1, <2>2 DEF TypeOK, Resolve
  <2>4. Alone(c)' /\ HandedOut(c)'
    BY <1>0, <2>1, <2>3 DEF Ownership, Alone, HandedOut, InTable
  <2>5. Ownership(c)'
    BY <2>3, <2>4 DEF Ownership
  <2> QED BY <1>0, <2>1, <2>3, <2>5, OneCallTouched
<1>5. CASE SettleFailure(c)
  <2>1. /\ c \in failing /\ failing' = failing \ {c} /\ Resolve(c, "error")
        /\ UNCHANGED <<generation, live, nextId, pending, task, outcome>>
    BY <1>5 DEF SettleFailure, stateVars, idVars, tableVars
  <2>2. task[c] # "none"
    BY <1>0, <2>1 DEF Ownership
  <2>3. /\ settled'[c] # "none"
        /\ \A d \in Calls \ {c} : settled'[d] = settled[d]
    BY <2>1 DEF TypeOK, Resolve
  <2>4. Alone(c)' /\ HandedOut(c)'
    BY <1>0, <2>1, <2>2, <2>3 DEF Ownership, Alone, HandedOut, InTable
  <2>5. Ownership(c)'
    BY <1>0, <2>1, <2>2, <2>4 DEF Ownership
  <2> QED BY <1>0, <2>1, <2>3, <2>5, OneCallTouched
<1>6. CASE CancelLocal(c)
  <2>1. /\ InTable(c) /\ c[1] = generation /\ pending' = pending \ {c[2]}
        /\ failing' = failing \cup {c}
        /\ UNCHANGED <<generation, live, nextId, task, outcome, settled>>
    BY <1>6 DEF CancelLocal, HasEntry, Document, InTable, WithdrawEntry,
       DropEntry, stateVars, idVars
  <2>2. task[c] # "none"
    BY <1>0, <2>1 DEF Ownership
  <2>3. ~InTable(c)'
    BY <2>1 DEF InTable
  <2>4. Alone(c)' /\ HandedOut(c)'
    BY <1>0, <2>1, <2>2, <2>3 DEF Ownership, Alone, HandedOut
  <2>5. Ownership(c)'
    BY <1>0, <2>1, <2>2, <2>4 DEF Ownership
  <2> QED BY <1>0, <2>1, <2>5, OneCallTouched
<1> QED BY <1>1, <1>2, <1>3, <1>4, <1>5, <1>6 DEF CallStep

\* Every critical section keeps the invariant.
LEMMA OwnershipNext ==
  TypeOK /\ LifeInv /\ OwnershipInv /\ [Next]_vars => OwnershipInv'
<1> SUFFICES ASSUME TypeOK, LifeInv, OwnershipInv, [Next]_vars
             PROVE OwnershipInv'
  OBVIOUS
<1> USE DEF CallsUntouched, stateVars, idVars, tableVars, callVars
<1>1. CASE UNCHANGED vars
  BY <1>1, NoCallTouched DEF vars
<1>2. CASE Admit
  <2>1. /\ ~live /\ live' = TRUE /\ generation' = generation + 1 /\ pending = {}
        /\ UNCHANGED <<task, outcome, settled, failing, pending>>
    BY <1>2 DEF Admit, LifeInv, OwnershipInv
  <2>2. ASSUME NEW d \in Calls PROVE Ownership(d)'
    <3>1. Ownership(d) /\ ~InTable(d) /\ ~InTable(d)'
      BY <2>1 DEF OwnershipInv, InTable
    <3>2. d[1] \in Int /\ generation \in Int
      BY EngineAssumption DEF TypeOK, Calls, Generations
    <3>3. HandedOut(d) => HandedOut(d)'
      BY <2>1, <3>2 DEF HandedOut
    <3>4. Alone(d) => Alone(d)'
      BY <2>1, <3>1 DEF Alone
    <3> QED BY <2>1, <3>1, <3>3, <3>4 DEF Ownership
  <2> QED BY <2>1, <2>2 DEF OwnershipInv
<1>3. CASE Navigate
  BY <1>3, RetireOwnership DEF Navigate
<1>4. CASE Disconnect
  BY <1>4, RetireOwnership DEF Disconnect
<1>5. CASE Close
  BY <1>5, RetireOwnership DEF Close
<1>6. ASSUME NEW k \in Kinds, Prepare(k) PROVE OwnershipInv'
  BY <1>6, PrepareOwnership
<1>7. CASE FindExhausted
  BY <1>7, NoCallTouched DEF FindExhausted
<1>8. CASE RetireExhausted
  BY <1>8, NoCallTouched, RetireOwnership DEF RetireExhausted
<1>9. ASSUME NEW c \in Calls, CallStep(c) PROVE OwnershipInv'
  BY <1>9, CallStepOwnership
<1>10. ASSUME NEW p \in Posters, PostStep(p) PROVE OwnershipInv'
  BY <1>10, NoCallTouched
  DEF PostStep, Authenticate, PostIgnored, PostReply, PostCancel, PostDenied,
      PostInvoke, ServeRequest, ServeNotify
<1>11. ASSUME NEW c \in PeerCalls,
              CompleteIncoming(c) \/ TimeoutIncoming(c) \/ Acknowledge(c)
       PROVE OwnershipInv'
  BY <1>11, NoCallTouched DEF CompleteIncoming, TimeoutIncoming, Acknowledge
<1>12. CASE Drain
  BY <1>12, NoCallTouched DEF Drain
<1> QED
  BY <1>1, <1>2, <1>3, <1>4, <1>5, <1>6, <1>7, <1>8, <1>9, <1>10, <1>11,
     <1>12 DEF Next

\* The invariant says what OneOwner says.
LEMMA OwnershipSuffices == OwnershipInv => OneOwner
<1> SUFFICES ASSUME OwnershipInv, NEW c \in Calls, task[c] # "none"
             PROVE \E o \in Owners : \A q \in Owners : Owns(q, c) <=> q = o
  BY DEF OneOwner
<1>1. Alone(c)
  BY DEF OwnershipInv, Ownership
<1>2. CASE InTable(c)
  <2>1. \A q \in Owners : Owns(q, c) <=> q = "table"
    BY <1>1, <1>2 DEF Owns, Owners, Alone
  <2> QED BY <2>1 DEF Owners
<1>3. CASE c \in failing
  <2>1. \A q \in Owners : Owns(q, c) <=> q = "canceller"
    BY <1>1, <1>3 DEF Owns, Owners, Alone
  <2> QED BY <2>1 DEF Owners
<1>4. CASE task[c] = "owner"
  <2>1. \A q \in Owners : Owns(q, c) <=> q = "task"
    BY <1>1, <1>4 DEF Owns, Owners, Alone
  <2> QED BY <2>1 DEF Owners
<1>5. CASE settled[c] # "none"
  <2>1. \A q \in Owners : Owns(q, c) <=> q = "settled"
    BY <1>1, <1>5 DEF Owns, Owners, Alone
  <2> QED BY <2>1 DEF Owners
<1> QED BY <1>1, <1>2, <1>3, <1>4, <1>5 DEF Alone

\* The invariant holds throughout.
LEMMA OwnershipInvariant == Spec => [](LifeInv /\ OwnershipInv)
<1>1. Init => LifeInv /\ OwnershipInv
  <2>1. Init => \A d \in Calls : Ownership(d)
    BY DEF Init, Ownership, InTable
  <2> QED BY <2>1 DEF Init, LifeInv, OwnershipInv
<1>2. TypeOK /\ LifeInv /\ [Next]_vars => LifeInv'
  BY StepRefines
<1> QED BY <1>1, <1>2, TypeCorrect, OwnershipNext, PTL DEF Spec

\* Whatever the race between a call's reply, its worker, its cancellation, its
\* deadline and the end of its document, exactly one party may settle it: the
\* one that removed its table entry.
THEOREM CallsHaveOneOwner == Spec => []OneOwner
BY OwnershipInvariant, OwnershipSuffices, PTL
-----------------------------------------------------------------------------
(* The order of the invocations on the wire.  WireOrder is not inductive: a  *)
(* frame that is queued next is ordered by what its gate says of the calls   *)
(* before it, of which WireOrder does not speak.                             *)

\* The task of call i of the present document has left its gate.
PastGate(i) == i \in LocalIds /\ task[<<generation, i>>] \notin {"none", "gate"}

\* Without a document nothing is numbered, queued or sent.
Idle == ~live => nextId = 1 /\ queue = <<>> /\ sent = {} /\ wireId = 0

\* The calls of the present document that started are those it numbered.
Numbered ==
  \A c \in Calls :
    /\ c[1] > generation => task[c] = "none"
    /\ live /\ c[1] = generation => (task[c] = "none" <=> c[2] >= nextId)

\* No call has left its gate before an earlier one.
Gates ==
  live => \A i, j \in LocalIds :
    i < j /\ task[<<generation, i>>] = "gate" => ~PastGate(j)

\* An invocation on the wire has left its gate,
Wired ==
  live => /\ \A n \in DOMAIN queue :
               IsInvocation(queue[n]) => PastGate(queue[n].id)
          /\ wireId # 0 => PastGate(wireId)

\* and what is marked as sent was queued.
SentOut ==
  \A i \in sent :
    i <= wireId \/ \E m \in DOMAIN queue : IsInvocation(queue[m]) /\ queue[m].id = i

OrderInv == Idle /\ Numbered /\ Gates /\ Wired /\ SentOut /\ WireOrder

\* The calls of the present document
LEMMA CurrentCall ==
  ASSUME TypeOK, live, NEW i \in LocalIds
  PROVE <<generation, i>> \in Calls
BY DEF TypeOK, Calls

\* A task that moves on, from its gate only if that is open, leaves the calls
\* numbered and no earlier one behind its gate.
LEMMA TaskMoves ==
  ASSUME TypeOK, Numbered, Gates, NEW c \in Calls,
         NEW t \in {"reply", "finish", "owner", "end"},
         task' = [task EXCEPT ![c] = t], task[c] # "none",
         task[c] = "gate" => GateOpen(c),
         UNCHANGED <<live, generation, nextId>>
  PROVE /\ Numbered' /\ Gates'
        /\ live => \A i \in LocalIds : PastGate(i) => PastGate(i)'
<1>1. \A d \in Calls : task'[d] = IF d = c THEN t ELSE task[d]
  BY DEF TypeOK
<1>2. Numbered'
  BY <1>1 DEF Numbered
<1>3. ASSUME live, NEW i \in LocalIds, PastGate(i) PROVE PastGate(i)'
  BY <1>1, <1>3, CurrentCall DEF PastGate
<1>4. ASSUME live, NEW i \in LocalIds, NEW j \in LocalIds, i < j,
             task'[<<generation, i>>] = "gate", PastGate(j)'
      PROVE FALSE
  <2> DEFINE ci == <<generation, i>>
             cj == <<generation, j>>
  <2>1. ci \in Calls /\ cj \in Calls
    BY <1>4, CurrentCall
  <2>2. task[ci] = "gate" /\ ci # c
    BY <1>1, <1>4, <2>1
  <2>3. ~PastGate(j)
    BY <1>4, <2>2 DEF Gates
  <2>4. cj = c
    BY <1>1, <1>4, <2>1, <2>3 DEF PastGate
  <2>5. task[c] = "gate" /\ c[1] = generation /\ c[2] = j
    BY <2>1, <2>3, <2>4 DEF PastGate
  \* c's predecessor h has left its gate, so i is earlier than h
  <2>6. PICK h \in LocalIds : h + 1 = j
    BY <1>4, EngineAssumption DEF LocalIds
  <2>7. <<generation, h>> \in Calls /\ task[<<generation, h>>] # "gate"
    BY <1>4, <2>5, <2>6, CurrentCall DEF GateOpen
  <2>8. task[<<generation, h>>] # "none"
    <3>1. h < nextId
      <4>1. ~(j >= nextId)
        BY <1>4, <2>5 DEF Numbered
      <4> QED BY <2>6, <4>1 DEF TypeOK, LocalIds
    <3> QED BY <1>4, <2>6, <2>7, <3>1 DEF Numbered, TypeOK, LocalIds
  <2>9. PastGate(h) /\ (i < h \/ i = h)
    BY <1>4, <2>6, <2>7, <2>8 DEF PastGate, LocalIds
  <2> QED BY <1>4, <2>2, <2>7, <2>9 DEF Gates
<1>5. Gates'
  BY <1>4 DEF Gates
<1> QED BY <1>2, <1>3, <1>5

\* The frames of a queue to which one was appended
LEMMA AppendEach ==
  ASSUME queue \in Seq(Frame), NEW f, queue' = Append(queue, f)
  PROVE /\ Len(queue) \in Nat /\ DOMAIN queue = 1 .. Len(queue)
        /\ DOMAIN queue' = 1 .. Len(queue) + 1
        /\ \A n \in DOMAIN queue : queue'[n] = queue[n]
        /\ queue'[Len(queue) + 1] = f
OBVIOUS

\* What a step that queues no invocation has to respect: frames stay, marks
\* are at most taken back, and tasks do not return to their gates.
LEMMA NoInvocation ==
  ASSUME TypeOK, OrderInv, live => live',
         \A i \in LocalIds : live /\ PastGate(i) => PastGate(i)',
         sent' \subseteq sent, UNCHANGED <<live, wireId>>,
         \/ queue' = queue
         \/ \E f \in Frame : /\ live /\ queue' = Append(queue, f)
                             /\ f.kind \notin InvocationKind
                             /\ f.kind = "cancel" => f.id \in sent
  PROVE Wired' /\ SentOut' /\ WireOrder'
<1> USE DEF OrderInv
<1>1. CASE queue' = queue
  BY <1>1 DEF Wired, SentOut, WireOrder, PastGate
<1>2. ASSUME NEW f \in Frame, live, queue' = Append(queue, f),
             f.kind \notin InvocationKind, f.kind = "cancel" => f.id \in sent
      PROVE Wired' /\ SentOut' /\ WireOrder'
  <2> DEFINE last == Len(queue) + 1
  <2>1. /\ Len(queue) \in Nat /\ DOMAIN queue = 1 .. Len(queue)
        /\ DOMAIN queue' = 1 .. last
        /\ \A n \in DOMAIN queue : queue'[n] = queue[n] /\ n \in DOMAIN queue'
        /\ queue'[last] = f
    BY <1>2, AppendEach DEF TypeOK
  <2>2. ASSUME NEW n \in DOMAIN queue', n # last \/ IsInvocation(queue'[n])
        PROVE n \in DOMAIN queue
    <3>1. n # last
      BY <1>2, <2>1, <2>2 DEF IsInvocation
    <3>2. n \in 1 .. Len(queue) + 1 /\ n # Len(queue) + 1
      BY <2>1, <3>1
    <3>3. n \in 1 .. Len(queue)
      BY <2>1, <3>2
    <3> QED BY <2>1, <3>3
  <2>3. Wired'
    BY <1>2, <2>1, <2>2 DEF Wired, PastGate, IsInvocation
  <2>4. SentOut'
    BY <2>1 DEF SentOut
  <2>5. ASSUME NEW m \in DOMAIN queue', NEW n \in DOMAIN queue', m < n,
               IsInvocation(queue'[m]), IsInvocation(queue'[n])
        PROVE queue'[m].id < queue'[n].id
    BY <2>1, <2>2, <2>5 DEF WireOrder
  <2>6. ASSUME NEW n \in DOMAIN queue', IsInvocation(queue'[n])
        PROVE wireId' < queue'[n].id
    BY <2>1, <2>2, <2>6 DEF WireOrder
  <2>7. ASSUME NEW n \in DOMAIN queue', queue'[n].kind = "cancel"
        PROVE \/ queue'[n].id <= wireId'
              \/ \E m \in DOMAIN queue' :
                   m < n /\ IsInvocation(queue'[m]) /\ queue'[m].id = queue'[n].id
    <3>1. CASE n = last
      <4>1. \/ f.id <= wireId
            \/ \E m \in DOMAIN queue : IsInvocation(queue[m]) /\ queue[m].id = f.id
        BY <1>2, <2>1, <2>7, <3>1 DEF SentOut
      <4>2. \A m \in DOMAIN queue : m < last
        BY <2>1
      <4> QED BY <2>1, <3>1, <4>1, <4>2
    <3>2. CASE n # last
      <4>1. n \in DOMAIN queue /\ queue[n].kind = "cancel"
        BY <2>1, <2>2, <2>7, <3>2
      <4> QED BY <2>1, <4>1 DEF WireOrder
    <3> QED BY <3>1, <3>2
  <2> HIDE DEF last
  <2> QED BY <2>3, <2>4, <2>5, <2>6, <2>7 DEF WireOrder
<1> QED BY <1>1, <1>2
\* The call whose gate opens is later than all that are on the wire.
LEMMA GateIsLast ==
  ASSUME TypeOK, Gates, live, NEW i \in LocalIds, NEW j \in LocalIds,
         task[<<generation, i>>] = "gate", PastGate(j)
  PROVE j < i
<1>1. ~(i < j) /\ i # j
  BY DEF Gates, PastGate
<1> QED BY <1>1 DEF LocalIds

\* send_request queues an invocation behind those with smaller ids.
LEMMA SendOrder ==
  ASSUME TypeOK, OrderInv, NEW c \in Calls, SendRequest(c)
  PROVE OrderInv'
<1> USE DEF OrderInv
<1> DEFINE f == [kind |-> IF kind[c] = "rpc" THEN "request" ELSE "notify",
                 id |-> c[2], control |-> FALSE, charged |-> TRUE]
<1>1. /\ task[c] = "gate" /\ GateOpen(c) /\ live /\ generation = c[1]
      /\ queue' = Append(queue, f) /\ UNCHANGED <<wireId, live, generation, nextId>>
      /\ sent' = sent \cup {c[2]} /\ task' = [task EXCEPT ![c] = "reply"]
  BY DEF SendRequest, HasEntry, Document, EnqueueData, stateVars, idVars
<1>2. c = <<generation, c[2]>> /\ c[2] \in LocalIds /\ c[2] \in Nat
  BY <1>1 DEF Calls, LocalIds
<1>3. IsInvocation(f) /\ f.id = c[2] /\ f.kind # "cancel"
  BY DEF IsInvocation, InvocationKind
<1> HIDE DEF f
<1>4. /\ Numbered' /\ Gates' /\ \A i \in LocalIds : PastGate(i) => PastGate(i)'
  BY <1>1, TaskMoves
<1>5. PastGate(c[2])'
  BY <1>1, <1>2 DEF PastGate, TypeOK
<1> DEFINE last == Len(queue) + 1
<1>6. /\ Len(queue) \in Nat /\ DOMAIN queue = 1 .. Len(queue)
      /\ DOMAIN queue' = 1 .. last /\ last \in DOMAIN queue'
      /\ \A n \in DOMAIN queue : queue'[n] = queue[n] /\ n \in DOMAIN queue' /\ n < last
      /\ queue'[last] = f
  BY <1>1, AppendEach DEF TypeOK
<1>7. ASSUME NEW n \in DOMAIN queue', n # last PROVE n \in DOMAIN queue
  <2>1. n \in 1 .. Len(queue) + 1 /\ n # Len(queue) + 1
    BY <1>6, <1>7
  <2>2. n \in 1 .. Len(queue)
    BY <1>6, <2>1
  <2> QED BY <1>6, <2>2
<1>8. /\ \A n \in DOMAIN queue : IsInvocation(queue[n]) =>
           queue[n].id < c[2] /\ PastGate(queue[n].id)'
      /\ wireId < c[2] /\ (wireId # 0 => PastGate(wireId)')
  <2>1. ASSUME NEW j, PastGate(j) PROVE j < c[2] /\ PastGate(j)'
    BY <1>1, <1>2, <1>4, <2>1, GateIsLast DEF PastGate
  <2>2. wireId = 0 => wireId < c[2]
    BY <1>2 DEF LocalIds
  <2> QED BY <1>1, <2>1, <2>2 DEF Wired
<1> HIDE DEF last
<1>9. Wired'
  BY <1>1, <1>3, <1>5, <1>6, <1>7, <1>8 DEF Wired
<1>10. SentOut'
  <2> SUFFICES ASSUME NEW i \in sent'
               PROVE \/ i <= wireId'
                     \/ \E m \in DOMAIN queue' :
                          IsInvocation(queue'[m]) /\ queue'[m].id = i
    BY DEF SentOut
  <2>1. CASE i = c[2]
    BY <1>3, <1>6, <2>1
  <2>2. CASE i \in sent
    BY <1>1, <1>6, <2>2 DEF SentOut
  <2> QED BY <1>1, <2>1, <2>2
<1>11. ASSUME NEW m \in DOMAIN queue', NEW n \in DOMAIN queue', m < n,
              IsInvocation(queue'[m]), IsInvocation(queue'[n])
       PROVE queue'[m].id < queue'[n].id
  <2>1. m # last
    <3> SUFFICES ASSUME m = last PROVE FALSE
      OBVIOUS
    <3>1. n # last /\ n \in DOMAIN queue
      BY <1>6, <1>7, <1>11
    <3> QED BY <1>6, <1>11, <3>1
  <2>2. m \in DOMAIN queue
    BY <1>7, <2>1
  <2>3. CASE n = last
    BY <1>3, <1>6, <1>8, <1>11, <2>2, <2>3
  <2>4. CASE n # last
    BY <1>6, <1>7, <1>11, <2>2, <2>4 DEF WireOrder
  <2> QED BY <2>3, <2>4
<1>12. ASSUME NEW n \in DOMAIN queue', IsInvocation(queue'[n])
       PROVE wireId' < queue'[n].id
  BY <1>1, <1>3, <1>6, <1>7, <1>8, <1>12 DEF WireOrder
<1>13. ASSUME NEW n \in DOMAIN queue', queue'[n].kind = "cancel"
       PROVE \/ queue'[n].id <= wireId'
             \/ \E m \in DOMAIN queue' :
                  m < n /\ IsInvocation(queue'[m]) /\ queue'[m].id = queue'[n].id
  <2>1. n \in DOMAIN queue /\ queue[n].kind = "cancel"
    BY <1>3, <1>6, <1>7, <1>13
  <2> QED BY <1>1, <1>6, <2>1 DEF WireOrder
<1>14. WireOrder'
  BY <1>11, <1>12, <1>13 DEF WireOrder
<1>15. Idle'
  BY <1>1 DEF Idle
<1> QED BY <1>4, <1>9, <1>10, <1>14, <1>15

\* drain takes the oldest frame; the others keep their order.
LEMMA DrainOrder ==
  ASSUME TypeOK, OrderInv, Drain
  PROVE OrderInv'
<1> USE DEF OrderInv
<1> DEFINE f == Head(queue)
<1>1. /\ live /\ queue # <<>> /\ queue' = Tail(queue)
      /\ wireId' = IF IsInvocation(f) THEN f.id ELSE wireId
      /\ UNCHANGED <<live, generation, nextId, task, sent>>
  BY DEF Drain, Document, stateVars, idVars, tableVars, callVars, IsInvocation
<1>2. /\ Len(queue) \in Nat /\ 1 \in DOMAIN queue /\ f = queue[1]
      /\ \A n \in DOMAIN queue' : n + 1 \in DOMAIN queue /\ queue'[n] = queue[n + 1]
      /\ \A n \in DOMAIN queue : n # 1 => n - 1 \in DOMAIN queue' /\ queue'[n - 1] = queue[n]
      /\ \A n \in DOMAIN queue : n \in Nat /\ n >= 1
      /\ \A n \in DOMAIN queue' : n \in Nat /\ n >= 1
      /\ \A n \in DOMAIN queue : queue[n] \in Frame
  BY <1>1 DEF TypeOK
<1> HIDE DEF f
<1>3. \A i \in LocalIds : PastGate(i)' <=> PastGate(i)
  BY <1>1 DEF PastGate
<1>4. wireId \in Nat /\ \A n \in DOMAIN queue : queue[n].id \in Nat
  BY <1>2 DEF TypeOK, Frame
<1>5. wireId <= wireId' /\ wireId' \in Nat
  BY <1>1, <1>2, <1>4 DEF WireOrder
<1>6. Idle' /\ Numbered' /\ Gates'
  BY <1>1, <1>3 DEF Idle, Numbered, Gates, PastGate
<1>7. Wired'
  BY <1>1, <1>2, <1>3 DEF Wired, PastGate
\* what was on the wire still is, or has just left it
<1>8. ASSUME NEW m \in DOMAIN queue, IsInvocation(queue[m])
      PROVE \/ queue[m].id <= wireId'
            \/ m # 1 /\ m - 1 \in DOMAIN queue' /\ queue'[m - 1] = queue[m]
  BY <1>1, <1>2, <1>4, <1>8
<1>9. SentOut'
  <2> SUFFICES ASSUME NEW i \in sent
               PROVE \/ i <= wireId'
                     \/ \E m \in DOMAIN queue' :
                          IsInvocation(queue'[m]) /\ queue'[m].id = i
    BY <1>1 DEF SentOut
  <2>1. CASE i <= wireId
    <3>1. i \in Nat
      BY DEF TypeOK, LocalIds
    <3> QED BY <1>4, <1>5, <2>1, <3>1
  <2>2. ASSUME NEW m \in DOMAIN queue, IsInvocation(queue[m]), queue[m].id = i
        PROVE \/ i <= wireId'
              \/ \E k \in DOMAIN queue' :
                   IsInvocation(queue'[k]) /\ queue'[k].id = i
    BY <1>8, <2>2
  <2> QED BY <2>1, <2>2 DEF SentOut
<1>10. ASSUME NEW m \in DOMAIN queue', NEW n \in DOMAIN queue', m < n,
              IsInvocation(queue'[m]), IsInvocation(queue'[n])
       PROVE queue'[m].id < queue'[n].id
  <2>1. m + 1 < n + 1
    BY <1>2, <1>10
  <2> QED BY <1>2, <1>10, <2>1 DEF WireOrder
<1>11. ASSUME NEW n \in DOMAIN queue', IsInvocation(queue'[n])
       PROVE wireId' < queue'[n].id
  <2>1. 1 < n + 1
    BY <1>2
  <2> QED BY <1>1, <1>2, <1>11, <2>1 DEF WireOrder
<1>12. ASSUME NEW n \in DOMAIN queue', queue'[n].kind = "cancel"
       PROVE \/ queue'[n].id <= wireId'
             \/ \E m \in DOMAIN queue' :
                  m < n /\ IsInvocation(queue'[m]) /\ queue'[m].id = queue'[n].id
  <2>1. n + 1 \in DOMAIN queue /\ queue'[n] = queue[n + 1]
    BY <1>2
  <2>2. CASE queue[n + 1].id <= wireId
    BY <1>4, <1>5, <2>1, <2>2
  <2>3. ASSUME NEW m \in DOMAIN queue, m < n + 1, IsInvocation(queue[m]),
               queue[m].id = queue[n + 1].id
        PROVE \/ queue'[n].id <= wireId'
              \/ \E k \in DOMAIN queue' :
                   k < n /\ IsInvocation(queue'[k]) /\ queue'[k].id = queue'[n].id
    <3>1. m - 1 < n
      BY <1>2, <2>3
    <3> QED BY <1>8, <2>1, <2>3, <3>1
  <2> QED BY <1>12, <2>1, <2>2, <2>3 DEF WireOrder
<1>13. WireOrder'
  BY <1>10, <1>11, <1>12 DEF WireOrder
<1> QED BY <1>6, <1>7, <1>9, <1>13
\* prepare numbers the next call, behind its gate.
LEMMA PrepareOrder ==
  ASSUME TypeOK, OrderInv, NEW k \in Kinds, Prepare(k)
  PROVE OrderInv'
<1> USE DEF OrderInv
<1> DEFINE c == <<generation, nextId>>
<1>1. /\ live /\ nextId < MaxLocalId /\ nextId' = nextId + 1
      /\ task' = [task EXCEPT ![c] = "gate"]
      /\ UNCHANGED <<live, generation, queue, wireId, sent>>
  BY DEF Prepare, Document, IdLeft, stateVars, queueVars
<1>2. nextId \in LocalIds /\ nextId \in Nat /\ c \in Calls
  BY <1>1, EngineAssumption, CurrentCall DEF TypeOK, LocalIds
<1>3. /\ \A d \in Calls : task'[d] = IF d = c THEN "gate" ELSE task[d]
      /\ task[c] = "none"
  BY <1>1, <1>2 DEF TypeOK, Numbered
<1>4. Idle'
  BY <1>1 DEF Idle
<1>5. Numbered'
  <2> SUFFICES ASSUME NEW d \in Calls
               PROVE /\ d[1] > generation => task'[d] = "none"
                     /\ d[1] = generation => (task'[d] = "none" <=> d[2] >= nextId + 1)
    BY <1>1 DEF Numbered
  <2>1. d[1] \in Nat /\ d[2] \in Nat /\ generation \in Nat
    BY EngineAssumption DEF Calls, Generations, LocalIds, TypeOK
  <2>2. CASE d = c
    BY <1>2, <1>3, <2>1, <2>2
  <2>3. CASE d # c
    <3>1. d[1] = generation => d[2] # nextId
      BY <1>2, <2>3, CallIsPair
    <3> QED BY <1>1, <1>2, <1>3, <2>1, <2>3, <3>1 DEF Numbered
  <2> QED BY <2>2, <2>3
<1>6. \A i \in LocalIds : PastGate(i)' <=> PastGate(i)
  <2> SUFFICES ASSUME NEW i \in LocalIds PROVE PastGate(i)' <=> PastGate(i)
    OBVIOUS
  <2>1. <<generation, i>> \in Calls
    BY <1>1, CurrentCall
  <2>2. i = nextId <=> <<generation, i>> = c
    OBVIOUS
  <2> QED BY <1>1, <1>3, <2>1, <2>2 DEF PastGate
<1>7. Gates'
  <2> SUFFICES ASSUME NEW i \in LocalIds, NEW j \in LocalIds, i < j,
                      task'[<<generation, i>>] = "gate", PastGate(j)
               PROVE FALSE
    BY <1>1, <1>6 DEF Gates
  <2>1. <<generation, i>> \in Calls /\ <<generation, j>> \in Calls
    BY <1>1, CurrentCall
  <2>2. CASE i = nextId
    <3>1. task[<<generation, j>>] # "none"
      BY DEF PastGate
    <3>2. ~(j >= nextId)
      BY <1>1, <2>1, <3>1 DEF Numbered
    <3> QED BY <1>2, <2>2, <3>2 DEF LocalIds
  <2>3. CASE i # nextId
    <3>1. task[<<generation, i>>] = "gate"
      BY <1>3, <2>1, <2>3
    <3> QED BY <1>1, <3>1 DEF Gates
  <2> QED BY <2>2, <2>3
<1>8. Wired' /\ SentOut' /\ WireOrder'
  BY <1>1, <1>6, NoInvocation
<1> QED BY <1>4, <1>5, <1>7, <1>8

\* Every step of every thread keeps the invocations in order.
LEMMA OrderNext ==
  ASSUME TypeOK, LifeInv, OrderInv, [Next]_vars
  PROVE OrderInv'
<1> USE DEF stateVars, idVars, tableVars, queueVars, callVars
\* a step that touches no task and queues at most a control frame
<1>a. ASSUME UNCHANGED <<live, generation, nextId, task, wireId>>,
             sent' \subseteq sent,
             \/ queue' = queue
             \/ \E f \in Frame : /\ live /\ queue' = Append(queue, f)
                                 /\ f.kind \notin InvocationKind
                                 /\ f.kind = "cancel" => f.id \in sent
      PROVE OrderInv'
  <2>1. Idle' /\ Numbered' /\ Gates'
    BY <1>a DEF OrderInv, Idle, Numbered, Gates, PastGate
  <2>2. \A i \in LocalIds : PastGate(i) => PastGate(i)'
    BY <1>a DEF PastGate
  <2> QED BY <1>a, <2>1, <2>2, NoInvocation DEF OrderInv
\* the end of the document
<1>b. ASSUME NEW t \in BOOLEAN, Retire(t) PROVE OrderInv'
  <2>1. /\ ~live' /\ nextId' = 1 /\ queue' = <<>> /\ sent' = {} /\ wireId' = 0
        /\ UNCHANGED <<generation, task>>
    BY <1>b DEF Retire
  <2>2. Idle' /\ Numbered' /\ Gates'
    BY <2>1 DEF OrderInv, Idle, Numbered, Gates
  <2>3. Wired' /\ SentOut' /\ WireOrder'
    BY <2>1 DEF Wired, SentOut, WireOrder
  <2> QED BY <2>2, <2>3 DEF OrderInv
\* a control frame
<1>c. ASSUME NEW k \in ReplyKind \cup {"cancel"}, NEW i \in Nat,
             NEW w \in Weights, live, EnqueueControl(k, i, w),
             k = "cancel" => i \in sent
      PROVE /\ UNCHANGED wireId
            /\ \E f \in Frame : /\ live /\ queue' = Append(queue, f)
                                /\ f.kind \notin InvocationKind
                                /\ f.kind = "cancel" => f.id \in sent
  <2> DEFINE f == [kind |-> IF w = "refused" THEN "error" ELSE k, id |-> i,
                   control |-> TRUE, charged |-> w = "large"]
  <2>1. f \in Frame /\ f.kind \in {"error", k} /\ f.id = i
    BY DEF Frame, ReplyKind
  <2>2. f.kind \notin InvocationKind /\ (f.kind = "cancel" => k = "cancel")
    BY <2>1 DEF InvocationKind, ReplyKind
  <2>3. queue' = Append(queue, f) /\ UNCHANGED wireId
    BY <1>c DEF EnqueueControl
  <2> HIDE DEF f
  <2> QED BY <1>c, <2>1, <2>2, <2>3
<1>1. CASE UNCHANGED vars
  BY <1>1, <1>a DEF vars
<1>2. CASE Admit
  <2>1. /\ ~live /\ generation' = generation + 1
        /\ UNCHANGED <<nextId, queue, sent, wireId, task>>
    BY <1>2 DEF Admit, LifeInv
  <2>2. nextId = 1 /\ queue = <<>> /\ sent = {} /\ wireId = 0
    BY <2>1 DEF OrderInv, Idle
  <2>3. generation \in Nat /\ \A d \in Calls : d[1] \in Nat /\ d[2] >= 1
    BY EngineAssumption DEF TypeOK, Calls, Generations, LocalIds
  <2>4. \A d \in Calls : d[1] > generation => task[d] = "none"
    BY DEF OrderInv, Numbered
  <2>5. Numbered'
    BY <2>1, <2>2, <2>3, <2>4 DEF Numbered
  <2>6. ASSUME NEW i \in LocalIds PROVE task'[<<generation', i>>] = "none"
    <3>1. <<generation + 1, i>> \in Calls
      BY <1>2, <2>3, EngineAssumption DEF Admit, Calls, Generations
    <3> QED BY <2>1, <2>3, <2>4, <3>1
  <2>7. Gates' /\ Wired'
    BY <2>1, <2>2, <2>6 DEF Gates, Wired
  <2>8. Idle' /\ SentOut' /\ WireOrder'
    BY <2>1, <2>2 DEF Idle, SentOut, WireOrder
  <2> QED BY <2>5, <2>7, <2>8 DEF OrderInv
<1>3. CASE Navigate \/ Disconnect \/ Close
  BY <1>3, <1>b DEF Navigate, Disconnect, Close
<1>4. ASSUME NEW k \in Kinds, Prepare(k) PROVE OrderInv'
  BY <1>4, PrepareOrder
<1>5. CASE FindExhausted
  BY <1>5, <1>a DEF FindExhausted
<1>6. CASE RetireExhausted
  BY <1>6, <1>a, <1>b DEF RetireExhausted
<1>7. ASSUME NEW c \in Calls, CallStep(c) PROVE OrderInv'
  <2>0. c[2] \in Nat /\ c[2] \in LocalIds
    BY DEF Calls, LocalIds
  \* the task moves on and queues nothing
  <2>a. ASSUME NEW t \in {"reply", "finish", "owner", "end"},
               task' = [task EXCEPT ![c] = t], task[c] # "none",
               task[c] = "gate" => GateOpen(c),
               UNCHANGED <<live, generation, nextId, queue, wireId>>,
               sent' \subseteq sent
        PROVE OrderInv'
    <3>1. /\ Numbered' /\ Gates'
          /\ \A i \in LocalIds : live /\ PastGate(i) => PastGate(i)'
      BY <2>a, TaskMoves DEF OrderInv
    <3>2. Wired' /\ SentOut' /\ WireOrder'
      BY <2>a, <3>1, NoInvocation
    <3>3. Idle'
      BY <2>a DEF OrderInv, Idle
    <3> QED BY <3>1, <3>2, <3>3 DEF OrderInv
  <2>1. CASE SendRequest(c)
    BY <2>1, SendOrder
  <2>2. CASE SendRequestFails(c)
    BY <2>2, <2>a DEF SendRequestFails
  <2>3. CASE ReceiveReply(c)
    BY <2>3, <2>a DEF ReceiveReply
  <2>4. CASE FinishLocal(c)
    <3>1. /\ \E t \in {"owner", "end"} : task' = [task EXCEPT ![c] = t]
          /\ task[c] = "finish" /\ sent' \subseteq sent
          /\ UNCHANGED <<live, generation, nextId, queue, wireId>>
      BY <2>4 DEF FinishLocal, TakeOwnership, DropEntry
    <3> QED BY <2>a, <3>1
  <2>5. CASE SettleResult(c)
    BY <2>5, <2>a DEF SettleResult
  <2>6. CASE SettleFailure(c)
    BY <2>6, <1>a DEF SettleFailure
  <2>7. CASE CancelLocal(c)
    <3>1. live /\ UNCHANGED <<live, generation, nextId, task>>
      BY <2>7 DEF CancelLocal, HasEntry, Document
    <3>2. CASE c[2] \in sent
      <4>1. EnqueueControl("cancel", c[2], "small") /\ sent' = sent \ {c[2]}
        BY <2>7, <3>2 DEF CancelLocal, WithdrawEntry
      <4>2. "cancel" \in ReplyKind \cup {"cancel"} /\ "small" \in Weights
        BY DEF Weights
      <4> QED BY <1>a, <1>c, <2>0, <3>1, <3>2, <4>1, <4>2
    <3>3. CASE c[2] \notin sent
      BY <1>a, <2>7, <3>1, <3>3 DEF CancelLocal, WithdrawEntry, DropEntry
    <3> QED BY <3>2, <3>3
  <2> QED BY <1>7, <2>1, <2>2, <2>3, <2>4, <2>5, <2>6, <2>7 DEF CallStep
<1>8. ASSUME NEW p \in Posters, PostStep(p) PROVE OrderInv'
  <2>1. ASSUME NEW i \in PeerIds, PostDenied(p, i) PROVE OrderInv'
    <3>1. live /\ UNCHANGED <<live, generation, nextId, task, sent>> /\ i \in Nat
      BY <2>1 DEF PostDenied, Document, PeerIds
    <3>2. CASE CanReserve
      <4>1. EnqueueControl("error", i, "small")
        BY <2>1, <3>2 DEF PostDenied
      <4>2. "error" \in ReplyKind \cup {"cancel"} /\ "small" \in Weights
        BY DEF Weights, ReplyKind
      <4> QED BY <1>a, <1>c, <3>1, <4>1, <4>2
    <3>3. CASE ~CanReserve
      BY <1>a, <2>1, <3>1, <3>3 DEF PostDenied
    <3> QED BY <3>2, <3>3
  <2>2. CASE ~\E i \in PeerIds : PostDenied(p, i)
    <3>1. UNCHANGED <<live, generation, nextId, task, sent, queue, wireId>>
      BY <1>8, <2>2 DEF PostStep, Authenticate, PostIgnored, PostReply,
                        PostCancel, PostInvoke, ServeRequest, ServeNotify
    <3> QED BY <1>a, <3>1
  <2> QED BY <2>1, <2>2
<1>9. ASSUME NEW c \in PeerCalls,
             CompleteIncoming(c) \/ TimeoutIncoming(c) \/ Acknowledge(c)
      PROVE OrderInv'
  <2>0. c[2] \in Nat /\ UNCHANGED <<live, generation, nextId, task, sent>>
    BY <1>9 DEF PeerCalls, PeerIds, CompleteIncoming, TimeoutIncoming, Acknowledge
  <2>1. CASE UNCHANGED <<queue, wireId>>
    BY <1>a, <2>0, <2>1
  <2>2. CASE ~UNCHANGED <<queue, wireId>>
    <3>1. live /\ \E k \in ReplyKind, w \in Weights : EnqueueControl(k, c[2], w)
      BY <1>9, <2>2 DEF CompleteIncoming, TimeoutIncoming, Acknowledge, Answer,
                        IsOpen, Document, ReplyKind, Weights
    <3>2. PICK k \in ReplyKind, w \in Weights : EnqueueControl(k, c[2], w)
      BY <3>1
    <3>3. k # "cancel"
      BY DEF ReplyKind
    <3> QED BY <1>a, <1>c, <2>0, <3>1, <3>2, <3>3
  <2> QED BY <2>1, <2>2
<1>10. CASE Drain
  BY <1>10, DrainOrder
<1> QED BY <1>1, <1>2, <1>3, <1>4, <1>5, <1>6, <1>7, <1>8, <1>9, <1>10 DEF Next

\* Invocations leave in the order in which prepare numbered them, and no
\* Cancel frame overtakes its invocation, for any number of calls, worker
\* threads and documents: the gates of the tasks alone see to it.
THEOREM InvocationsInOrder == Spec => []WireOrder
<1>1. Init => LifeInv /\ OrderInv
  <2> SUFFICES ASSUME Init PROVE LifeInv /\ OrderInv
    OBVIOUS
  <2>1. Idle /\ LifeInv /\ SentOut /\ WireOrder
    BY DEF Init, Idle, LifeInv, SentOut, WireOrder
  <2>2. Numbered /\ Gates /\ Wired
    BY DEF Init, Numbered, Gates, Wired
  <2> QED BY <2>1, <2>2 DEF OrderInv
<1>2. TypeOK /\ LifeInv /\ [Next]_vars => LifeInv'
  BY StepRefines
<1>3. TypeOK /\ LifeInv /\ OrderInv /\ [Next]_vars => OrderInv'
  BY OrderNext
<1>4. OrderInv => WireOrder
  BY DEF OrderInv
<1> QED BY <1>1, <1>2, <1>3, <1>4, TypeCorrect, PTL DEF Spec

-----------------------------------------------------------------------------
(* The budgets of a document: its control slots and its queue counters.      *)
(* Accounting speaks of a live document only, but the next one is admitted   *)
(* onto what the last one left behind; and a slot has one holder only since  *)
(* ids are not held twice, which is what the invariants above say.           *)

ControlFrame == {f \in Frame : f.control}
DataFrame == {f \in Frame : ~f.control}
ChargedFrame == {f \in Frame : f.charged}

\* What holds a control slot besides the queue
Holders == Cardinality(pending) + Cardinality(incoming) + Cardinality(Accepting)

Spent == ~live => /\ pending = {} /\ incoming = {} /\ queue = <<>>
                  /\ controlSlots = 0 /\ dataFrames = 0 /\ dataBytes = 0

Slots == live => controlSlots = Holders + Count(queue, ControlFrame)

Counters == /\ dataFrames = Count(queue, DataFrame) /\ dataFrames <= MaxFrames
            /\ dataBytes = Count(queue, ChargedFrame) /\ dataBytes <= MaxBytes

BudgetInv == Spent /\ Slots /\ Counters /\ controlSlots <= ControlFrames

\* The tables are finite, so their sizes are numbers.
LEMMA TablesFinite ==
  ASSUME TypeOK
  PROVE /\ IsFiniteSet(pending) /\ IsFiniteSet(incoming) /\ IsFiniteSet(Accepting)
        /\ Cardinality(pending) \in Nat /\ Cardinality(incoming) \in Nat
        /\ Cardinality(Accepting) \in Nat
<1> USE EngineAssumption
<1>1. IsFiniteSet(LocalIds) /\ IsFiniteSet(PeerIds) /\ IsFiniteSet(Generations)
  BY FS_Interval DEF LocalIds, PeerIds, Generations
<1>2. IsFiniteSet(PeerCalls)
  BY <1>1, FS_Product DEF PeerCalls
<1>3. pending \in SUBSET LocalIds /\ incoming \in SUBSET PeerIds
  BY DEF TypeOK
<1>4. Accepting \in SUBSET PeerCalls
  BY DEF TypeOK, Accepting
<1>5. IsFiniteSet(pending) /\ IsFiniteSet(incoming) /\ IsFiniteSet(Accepting)
  BY <1>1, <1>2, <1>3, <1>4, FS_Subset
<1> QED BY <1>5, FS_CardinalityType

\* The counts of the queue are numbers.
LEMMA QueueCounts ==
  ASSUME queue \in Seq(Frame)
  PROVE /\ Count(queue, ControlFrame) \in Nat /\ Count(queue, DataFrame) \in Nat
        /\ Count(queue, ChargedFrame) \in Nat
BY CountIsNat

\* A step that moves neither slots nor frames keeps the books.
BooksUntouched ==
  UNCHANGED <<live, generation, pending, incoming, accepting, queue,
              controlSlots, dataFrames, dataBytes>>

LEMMA NoBookTouched ==
  ASSUME BudgetInv, BooksUntouched
  PROVE BudgetInv'
<1>1. Accepting' = Accepting
  BY DEF BooksUntouched, Accepting
<1>2. Holders' = Holders
  BY <1>1 DEF BooksUntouched, Holders
<1> QED BY <1>2 DEF BooksUntouched, BudgetInv, Spent, Slots, Counters

\* enqueue_data: one data frame more
LEMMA EnqueueDataCounts ==
  ASSUME QueueType, Counters, NEW k \in InvocationKind, NEW i \in Nat,
         CanEnqueueData, EnqueueData(k, i)
  PROVE Counters' /\ Count(queue', ControlFrame) = Count(queue, ControlFrame)
<1> DEFINE f == [kind |-> k, id |-> i, control |-> FALSE, charged |-> TRUE]
<1>1. /\ f \in Frame /\ f \notin ControlFrame /\ f \in DataFrame
      /\ f \in ChargedFrame
  BY DEF Frame, ControlFrame, DataFrame, ChargedFrame
<1>2. queue' = Append(queue, f) /\ dataFrames' = dataFrames + 1 /\ dataBytes' = dataBytes + 1
  BY DEF EnqueueData
<1>3. queue \in Seq(Frame) /\ dataFrames \in Int /\ dataBytes \in Int
  BY DEF QueueType
<1> HIDE DEF f
<1>4. /\ Count(queue', ControlFrame) = Count(queue, ControlFrame)
      /\ Count(queue', DataFrame) = Count(queue, DataFrame) + 1
      /\ Count(queue', ChargedFrame) = Count(queue, ChargedFrame) + 1
  BY <1>1, <1>2, <1>3, CountAppend
<1> QED BY <1>2, <1>3, <1>4, QueueCounts, EngineAssumption, SMTT(30) DEF Counters, CanEnqueueData

\* enqueue_control: one control frame more, charged if it is large
LEMMA EnqueueControlCounts ==
  ASSUME QueueType, Counters, NEW k \in ReplyKind \cup {"cancel"}, NEW i \in Nat,
         NEW w \in Weights, EnqueueControl(k, i, w)
  PROVE Counters' /\ Count(queue', ControlFrame) = Count(queue, ControlFrame) + 1
<1> DEFINE f == [kind |-> IF w = "refused" THEN "error" ELSE k, id |-> i,
                 control |-> TRUE, charged |-> w = "large"]
<1>1. f \in Frame
  BY DEF Frame, ReplyKind
<1>2. f \in ControlFrame /\ f \notin DataFrame
  BY <1>1 DEF ControlFrame, DataFrame
<1>3. f \in ChargedFrame <=> w = "large"
  BY <1>1 DEF ChargedFrame
<1>4. /\ queue' = Append(queue, f) /\ dataFrames' = dataFrames
      /\ w = "large" => dataBytes < MaxBytes /\ dataBytes' = dataBytes + 1
      /\ w # "large" => dataBytes' = dataBytes
  BY DEF EnqueueControl
<1>5. queue \in Seq(Frame) /\ dataFrames \in Int /\ dataBytes \in Int
  BY DEF QueueType
<1> HIDE DEF f
<1>6. /\ Count(queue', ControlFrame) = Count(queue, ControlFrame) + 1
      /\ Count(queue', DataFrame) = Count(queue, DataFrame)
      /\ w = "large" => Count(queue', ChargedFrame) = Count(queue, ChargedFrame) + 1
      /\ w # "large" => Count(queue', ChargedFrame) = Count(queue, ChargedFrame)
  BY <1>1, <1>2, <1>3, <1>4, <1>5, CountAppend
<1> QED BY <1>4, <1>5, <1>6, QueueCounts, EngineAssumption DEF Counters

\* drain gives back what the frame it pops was charged.
LEMMA DrainBudget ==
  ASSUME TypeOK, BudgetInv, Drain
  PROVE BudgetInv'
<1> DEFINE f == Head(queue)
<1>1. /\ queue \in Seq(Frame) /\ queue # <<>> /\ queue' = Tail(queue)
      /\ f \in Frame /\ dataFrames \in Int /\ dataBytes \in Int /\ controlSlots \in Int
  BY DEF TypeOK, Drain
<1>2. /\ f.control => /\ f \in ControlFrame /\ f \notin DataFrame
                      /\ controlSlots' = controlSlots - 1 /\ dataFrames' = dataFrames
      /\ ~f.control => /\ f \notin ControlFrame /\ f \in DataFrame
                       /\ controlSlots' = controlSlots /\ dataFrames' = dataFrames - 1
      /\ f.charged => f \in ChargedFrame /\ dataBytes' = dataBytes - 1
      /\ ~f.charged => f \notin ChargedFrame /\ dataBytes' = dataBytes
  BY <1>1 DEF Drain, Weight, ControlFrame, DataFrame, ChargedFrame
<1>3. /\ live /\ live' /\ Holders' = Holders
  BY DEF Drain, Document, Holders, Accepting, stateVars, tableVars, peerVars
<1>4. Holders \in Nat
  BY TablesFinite DEF Holders
<1> HIDE DEF f
<1>5. /\ f \in ControlFrame => Count(queue', ControlFrame) = Count(queue, ControlFrame) - 1
      /\ f \notin ControlFrame => Count(queue', ControlFrame) = Count(queue, ControlFrame)
  BY <1>1, CountTail DEF f
<1>6. /\ f \in DataFrame => Count(queue', DataFrame) = Count(queue, DataFrame) - 1
      /\ f \notin DataFrame => Count(queue', DataFrame) = Count(queue, DataFrame)
  BY <1>1, CountTail DEF f
<1>7. /\ f \in ChargedFrame => Count(queue', ChargedFrame) = Count(queue, ChargedFrame) - 1
      /\ f \notin ChargedFrame => Count(queue', ChargedFrame) = Count(queue, ChargedFrame)
  BY <1>1, CountTail DEF f
<1>8. Slots' /\ (controlSlots <= ControlFrames)'
  BY <1>1, <1>2, <1>3, <1>4, <1>5, QueueCounts, EngineAssumption, SMTT(30) DEF BudgetInv, Slots
<1>9. Counters'
  BY <1>1, <1>2, <1>6, <1>7, QueueCounts, EngineAssumption DEF BudgetInv, Counters
<1> QED BY <1>3, <1>8, <1>9 DEF BudgetInv, Spent

\* Whoever enters or leaves a table is one holder more or less.
LEMMA HolderMoves ==
  ASSUME TypeOK
  PROVE /\ Holders \in Nat
        /\ \A i : /\ i \notin pending /\ pending' = pending \cup {i}
                  /\ UNCHANGED <<incoming, accepting, generation>>
                  => Holders' = Holders + 1
        /\ \A i : /\ i \in pending /\ pending' = pending \ {i}
                  /\ UNCHANGED <<incoming, accepting, generation>>
                  => Holders' = Holders - 1
        /\ \A i : /\ i \notin incoming /\ incoming' = incoming \cup {i}
                  /\ UNCHANGED <<pending, accepting, generation>>
                  => Holders' = Holders + 1
        /\ \A i : /\ i \in incoming /\ incoming' = incoming \ {i}
                  /\ UNCHANGED <<pending, accepting, generation>>
                  => Holders' = Holders - 1
        /\ \A c : /\ c \notin accepting /\ accepting' = accepting \cup {c}
                  /\ c[1] = generation /\ UNCHANGED <<pending, incoming, generation>>
                  => Holders' = Holders + 1
        /\ \A c : /\ c \in accepting /\ accepting' = accepting \ {c}
                  /\ c[1] = generation /\ UNCHANGED <<pending, incoming, generation>>
                  => Holders' = Holders - 1
        /\ \A c : /\ accepting' = accepting \ {c}
                  /\ c[1] # generation /\ UNCHANGED <<pending, incoming, generation>>
                  => Holders' = Holders
<1> DEFINE P == Cardinality(pending)
           I == Cardinality(incoming)
           A == Cardinality(Accepting)
<1>1. /\ IsFiniteSet(pending) /\ IsFiniteSet(incoming) /\ IsFiniteSet(Accepting)
      /\ P \in Nat /\ I \in Nat /\ A \in Nat
  BY TablesFinite
<1>2. Holders = P + I + A /\ Holders' = P' + I' + A'
  BY DEF Holders
<1>3. UNCHANGED <<accepting, generation>> => A' = A
  BY DEF Accepting
<1>4. /\ UNCHANGED pending => P' = P
      /\ UNCHANGED incoming => I' = I
  OBVIOUS
<1>5. ASSUME NEW i, i \notin pending, pending' = pending \cup {i} PROVE P' = P + 1
  BY <1>1, <1>5, FS_AddElement
<1>6. ASSUME NEW i, i \in pending, pending' = pending \ {i} PROVE P' = P - 1
  BY <1>1, <1>6, FS_RemoveElement
<1>7. ASSUME NEW i, i \notin incoming, incoming' = incoming \cup {i} PROVE I' = I + 1
  BY <1>1, <1>7, FS_AddElement
<1>8. ASSUME NEW i, i \in incoming, incoming' = incoming \ {i} PROVE I' = I - 1
  BY <1>1, <1>8, FS_RemoveElement
<1>9. ASSUME NEW c, c \notin accepting, accepting' = accepting \cup {c},
             c[1] = generation, UNCHANGED generation
      PROVE A' = A + 1
  <2>1. Accepting' = Accepting \cup {c} /\ c \notin Accepting
    BY <1>9 DEF Accepting
  <2> QED BY <1>1, <2>1, FS_AddElement
<1>10. ASSUME NEW c, c \in accepting, accepting' = accepting \ {c},
              c[1] = generation, UNCHANGED generation
       PROVE A' = A - 1
  <2>1. Accepting' = Accepting \ {c} /\ c \in Accepting
    BY <1>10 DEF Accepting
  <2> QED BY <1>1, <2>1, FS_RemoveElement
<1>11. ASSUME NEW c, accepting' = accepting \ {c}, c[1] # generation,
              UNCHANGED generation
       PROVE A' = A
  <2>1. Accepting' = Accepting
    BY <1>11 DEF Accepting
  <2> QED BY <2>1
<1> HIDE DEF P, I, A
<1> QED
  BY <1>1, <1>2, <1>3, <1>4, <1>5, <1>6, <1>7, <1>8, <1>9, <1>10, <1>11

\* retire_matching empties every book.
LEMMA RetireBudget ==
  ASSUME TypeOK, NEW t \in BOOLEAN, Retire(t)
  PROVE BudgetInv'
<1>1. /\ live' = FALSE /\ pending' = {} /\ incoming' = {} /\ queue' = <<>>
      /\ controlSlots' = 0 /\ dataFrames' = 0 /\ dataBytes' = 0
  BY DEF Retire
<1>2. \A G : Count(queue', G) = 0
  BY <1>1, CountEmpty
<1> QED BY <1>1, <1>2, EngineAssumption DEF BudgetInv, Spent, Slots, Counters

\* A document starts with what the last one left: nothing, and no
\* acknowledgement is due to a generation that was not there yet.
LEMMA AdmitBudget ==
  ASSUME TypeOK, LifeInv, AnswerInv, BudgetInv, Admit
  PROVE BudgetInv'
<1>1. ~live /\ generation' = generation + 1 /\ generation \in Int
  BY DEF LifeInv, Admit, TypeOK
<1>2. UNCHANGED <<pending, incoming, accepting, queue, controlSlots, dataFrames, dataBytes>>
  BY DEF Admit, tableVars, queueVars, peerVars
<1>3. Accepting' = {}
  <2> SUFFICES ASSUME NEW c \in accepting, c[1] = generation + 1 PROVE FALSE
    BY <1>1, <1>2 DEF Accepting
  <2>1. c \in PeerCalls
    BY DEF TypeOK
  <2>2. c[1] <= generation
    BY <2>1 DEF AnswerInv, Peer, Busy, Seen
  <2> QED BY <2>2, <1>1
<1>4. pending = {} /\ incoming = {} /\ queue = <<>> /\ controlSlots = 0
  BY <1>1 DEF BudgetInv, Spent
<1>5. Holders' = 0
  BY <1>2, <1>3, <1>4, FS_EmptySet DEF Holders
<1>6. Count(queue', ControlFrame) = 0
  BY <1>2, <1>4, CountEmpty
<1>7. live'
  BY DEF Admit
<1> QED
  BY <1>2, <1>4, <1>5, <1>6, <1>7 DEF BudgetInv, Spent, Slots, Counters

\* One holder more or less goes with one slot more or less; a holder may also
\* hand its slot to a frame.
LEMMA SlotMoves ==
  ASSUME TypeOK, BudgetInv, live, live',
         \/ /\ CanReserve /\ controlSlots' = controlSlots + 1
            /\ \/ Holders' = Holders + 1 /\ UNCHANGED queueVars
               \/ /\ Holders' = Holders /\ Counters'
                  /\ Count(queue', ControlFrame) = Count(queue, ControlFrame) + 1
         \/ /\ controlSlots' = controlSlots - 1 /\ Holders' = Holders - 1
            /\ UNCHANGED queueVars
         \/ /\ controlSlots' = controlSlots /\ Holders' = Holders /\ Counters'
            /\ Count(queue', ControlFrame) = Count(queue, ControlFrame)
         \/ /\ controlSlots' = controlSlots /\ Holders' = Holders - 1 /\ Counters'
            /\ Count(queue', ControlFrame) = Count(queue, ControlFrame) + 1
  PROVE BudgetInv'
<1>1. /\ Holders \in Nat /\ Count(queue, ControlFrame) \in Nat /\ controlSlots \in Int
  BY HolderMoves, QueueCounts DEF TypeOK
<1>2. UNCHANGED queueVars => Counters' /\ Count(queue', ControlFrame) = Count(queue, ControlFrame)
  BY DEF queueVars, BudgetInv, Counters
<1>3. controlSlots = Holders + Count(queue, ControlFrame) /\ controlSlots <= ControlFrames
  BY DEF BudgetInv, Slots
<1>4. /\ controlSlots' = Holders' + Count(queue', ControlFrame)
      /\ controlSlots' <= ControlFrames /\ Counters'
  BY <1>1, <1>2, <1>3, EngineAssumption DEF CanReserve
<1> QED BY <1>4 DEF BudgetInv, Slots, Spent

\* A call's slot follows its table entry: reserved with it, freed with it, or
\* turned into its Cancel frame.
LEMMA CallStepBudget ==
  ASSUME TypeOK, BudgetInv, NEW c \in Calls, CallStep(c)
  PROVE BudgetInv'
<1> USE DEF stateVars, idVars, tableVars, queueVars, callVars, peerVars
<1>0. c[2] \in Nat /\ QueueType /\ Counters
  BY DEF Calls, LocalIds, TypeOK, QueueType, BudgetInv
<1>1. CASE SendRequest(c)
  <2>1. live /\ live' /\ controlSlots' = controlSlots /\ Holders' = Holders
    BY <1>1 DEF SendRequest, HasEntry, Document, Holders, Accepting
  <2>2. Counters' /\ Count(queue', ControlFrame) = Count(queue, ControlFrame)
    <3>1. \E k \in InvocationKind : CanEnqueueData /\ EnqueueData(k, c[2])
      BY <1>1 DEF SendRequest, InvocationKind
    <3> QED BY <3>1, <1>0, EnqueueDataCounts
  <2> QED BY <2>1, <2>2, SlotMoves
<1>2. CASE SendRequestFails(c)
  BY <1>2, NoBookTouched DEF SendRequestFails, BooksUntouched
<1>3. CASE ReceiveReply(c)
  BY <1>3, NoBookTouched DEF ReceiveReply, BooksUntouched
<1>4. CASE FinishLocal(c)
  <2>1. CASE HasEntry(c)
    <3>1. /\ live /\ live' /\ c[2] \in pending /\ pending' = pending \ {c[2]}
          /\ controlSlots' = controlSlots - 1
          /\ UNCHANGED <<incoming, accepting, generation, queueVars>>
      BY <1>4, <2>1 DEF FinishLocal, TakeOwnership, DropEntry, HasEntry, Document
    <3>2. Holders' = Holders - 1
      BY <3>1, HolderMoves
    <3> QED BY <3>1, <3>2, SlotMoves
  <2>2. CASE ~HasEntry(c)
    BY <1>4, <2>2, NoBookTouched DEF FinishLocal, TakeOwnership, BooksUntouched
  <2> QED BY <2>1, <2>2
<1>5. CASE SettleResult(c)
  BY <1>5, NoBookTouched DEF SettleResult, BooksUntouched
<1>6. CASE SettleFailure(c)
  BY <1>6, NoBookTouched DEF SettleFailure, BooksUntouched
<1>7. CASE CancelLocal(c)
  <2>1. /\ live /\ live' /\ c[2] \in pending /\ pending' = pending \ {c[2]}
        /\ UNCHANGED <<incoming, accepting, generation>>
    BY <1>7 DEF CancelLocal, WithdrawEntry, DropEntry, HasEntry, Document
  <2>2. Holders' = Holders - 1
    BY <2>1, HolderMoves
  <2>3. CASE c[2] \in sent
    <3>1. EnqueueControl("cancel", c[2], "small") /\ controlSlots' = controlSlots
      BY <1>7, <2>3 DEF CancelLocal, WithdrawEntry
    <3>2. Counters' /\ Count(queue', ControlFrame) = Count(queue, ControlFrame) + 1
      BY <3>1, <1>0, EnqueueControlCounts DEF Weights
    <3> QED BY <2>1, <2>2, <3>1, <3>2, SlotMoves
  <2>4. CASE c[2] \notin sent
    <3>1. controlSlots' = controlSlots - 1 /\ UNCHANGED queueVars
      BY <1>7, <2>4 DEF CancelLocal, WithdrawEntry, DropEntry
    <3> QED BY <2>1, <2>2, <3>1, SlotMoves
  <2> QED BY <2>3, <2>4
<1> QED BY <1>1, <1>2, <1>3, <1>4, <1>5, <1>6, <1>7 DEF CallStep

\* An id that is handed out is not in the table: no slot is paid for twice.
LEMMA PrepareBudget ==
  ASSUME TypeOK, OwnershipInv, BudgetInv, NEW k \in Kinds, Prepare(k)
  PROVE BudgetInv'
<1>1. /\ live /\ live' /\ CanReserve /\ controlSlots' = controlSlots + 1
      /\ pending' = pending \cup {nextId} /\ nextId < MaxLocalId
      /\ UNCHANGED <<incoming, accepting, generation, queueVars>>
  BY DEF Prepare, Document, IdLeft, stateVars, peerVars
<1>2. nextId \notin pending
  <2> SUFFICES ASSUME nextId \in pending PROVE FALSE
    OBVIOUS
  <2> DEFINE c == <<generation, nextId>>
  <2>1. c \in Calls /\ InTable(c) /\ nextId \in Int
    BY <1>1, EngineAssumption DEF TypeOK, Calls, InTable, LocalIds
  <2>2. HandedOut(c)
    BY <2>1 DEF OwnershipInv, Ownership
  <2> QED BY <2>1, <2>2, <1>1 DEF HandedOut
<1>3. Holders' = Holders + 1
  BY <1>1, <1>2, HolderMoves
<1> QED BY <1>1, <1>3, SlotMoves

\* A submission reserves a slot for what it registers or for its refusal; the
\* id it consumed is held by nobody else.
LEMMA PostStepBudget ==
  ASSUME TypeOK, AnswerInv, BudgetInv, NEW p \in Posters, PostStep(p)
  PROVE BudgetInv'
<1> USE DEF stateVars, idVars, tableVars, queueVars, callVars, peerVars
<1>0. QueueType /\ Counters
  BY DEF TypeOK, QueueType, BudgetInv
<1>1. CASE Authenticate(p)
  BY <1>1, NoBookTouched DEF Authenticate, BooksUntouched
<1>2. CASE PostIgnored(p)
  BY <1>2, NoBookTouched DEF PostIgnored, BooksUntouched
<1>3. ASSUME NEW i \in LocalIds, NEW k \in ReplyKind, PostReply(p, i, k)
      PROVE BudgetInv'
  BY <1>3, NoBookTouched DEF PostReply, BooksUntouched
<1>4. ASSUME NEW i \in PeerIds, PostCancel(p, i) PROVE BudgetInv'
  <2>1. /\ live /\ live' /\ i \in incoming /\ incoming' = incoming \ {i}
        /\ controlSlots' = controlSlots - 1
        /\ UNCHANGED <<pending, accepting, generation, queueVars>>
    BY <1>4 DEF PostCancel, Document
  <2>2. Holders' = Holders - 1
    BY <2>1, HolderMoves
  <2> QED BY <2>1, <2>2, SlotMoves
<1>5. ASSUME NEW i \in PeerIds, PostDenied(p, i) PROVE BudgetInv'
  <2>1. CASE CanReserve
    <3>1. /\ live /\ live' /\ controlSlots' = controlSlots + 1
          /\ EnqueueControl("error", i, "small") /\ Holders' = Holders
      BY <1>5, <2>1 DEF PostDenied, Document, Holders, Accepting
    <3>2. Counters' /\ Count(queue', ControlFrame) = Count(queue, ControlFrame) + 1
      BY <3>1, <1>0, EnqueueControlCounts DEF Weights, ReplyKind, PeerIds
    <3> QED BY <2>1, <3>1, <3>2, SlotMoves
  <2>2. CASE ~CanReserve
    BY <1>5, <2>2, NoBookTouched DEF PostDenied, BooksUntouched
  <2> QED BY <2>1, <2>2
<1>6. ASSUME NEW i \in PeerIds, NEW k \in InvocationKind, PostInvoke(p, i, k)
      PROVE BudgetInv'
  BY <1>6, NoBookTouched DEF PostInvoke, BooksUntouched
<1> DEFINE c == <<generation, post[p].id>>
<1>7. ASSUME post[p].stage = "invoked", Document(post[p].gen)
      PROVE live /\ ~Open(c) /\ c \notin accepting
  <2>1. post[p] \in PostState /\ live /\ post[p].gen = generation
    BY <1>7 DEF TypeOK, Document
  <2>2. c \in PeerCalls
    BY <2>1, <1>7 DEF PostState, PeerCalls, TypeOK
  <2>3. Claims(p, c)
    BY <2>1, <1>7 DEF Claims
  <2> QED BY <2>1, <2>2, <2>3 DEF AnswerInv, Peer, Exclusive
<1>8. CASE ServeRequest(p)
  <2>1. /\ live' /\ CanReserve /\ controlSlots' = controlSlots + 1
        /\ incoming' = incoming \cup {post[p].id}
        /\ UNCHANGED <<pending, accepting, generation, queueVars>>
        /\ live /\ ~Open(c)
    BY <1>7, <1>8 DEF ServeRequest, Document
  <2>2. post[p].id \notin incoming
    BY <2>1 DEF Open
  <2>3. Holders' = Holders + 1
    BY <2>1, <2>2, HolderMoves
  <2> QED BY <2>1, <2>3, SlotMoves
<1>9. CASE ServeNotify(p)
  <2>1. /\ live' /\ CanReserve /\ controlSlots' = controlSlots + 1
        /\ accepting' = accepting \cup {c}
        /\ UNCHANGED <<pending, incoming, generation, queueVars>>
        /\ live /\ c \notin accepting /\ c[1] = generation
    BY <1>7, <1>9 DEF ServeNotify, Document
  <2> HIDE DEF c
  <2>2. Holders' = Holders + 1
    BY <2>1, HolderMoves
  <2> QED BY <2>1, <2>2, SlotMoves
<1> QED
  BY <1>1, <1>2, <1>3, <1>4, <1>5, <1>6, <1>8, <1>9 DEF PostStep

\* An answer takes over the slot of the request it answers.
LEMMA AnswerBudget ==
  ASSUME TypeOK, BudgetInv, NEW c \in PeerCalls, IsOpen(c),
         NEW k \in ReplyKind, NEW w \in Weights, Answer(c, k, w),
         UNCHANGED <<stateVars, pending, accepting, controlSlots>>
  PROVE BudgetInv'
<1>1. /\ live /\ live' /\ c[2] \in incoming /\ incoming' = incoming \ {c[2]}
      /\ UNCHANGED <<pending, accepting, generation, controlSlots>>
      /\ EnqueueControl(k, c[2], w)
  BY DEF Answer, IsOpen, Document, stateVars
<1>2. Holders' = Holders - 1
  BY <1>1, HolderMoves
<1>3. Counters' /\ Count(queue', ControlFrame) = Count(queue, ControlFrame) + 1
  <2>1. c[2] \in Nat /\ QueueType /\ Counters
    BY DEF PeerCalls, PeerIds, TypeOK, QueueType, BudgetInv
  <2> QED BY <1>1, <2>1, EnqueueControlCounts
<1> QED BY <1>1, <1>2, <1>3, SlotMoves

\* A handler, the deadline thread and a notification's task
LEMMA PeerStepBudget ==
  ASSUME TypeOK, LifeInv, BudgetInv, NEW c \in PeerCalls,
         CompleteIncoming(c) \/ TimeoutIncoming(c) \/ Acknowledge(c)
  PROVE BudgetInv'
<1> USE DEF stateVars, idVars, tableVars, queueVars, callVars, peerVars
<1>1. CASE CompleteIncoming(c)
  <2>1. CASE IsOpen(c)
    <3>1. \E k \in ReplyKind, w \in Weights : Answer(c, k, w)
      BY <1>1, <2>1 DEF CompleteIncoming, ReplyKind, Weights
    <3>2. UNCHANGED <<stateVars, pending, accepting, controlSlots>>
      BY <1>1 DEF CompleteIncoming
    <3> QED BY <2>1, <3>1, <3>2, AnswerBudget
  <2>2. CASE ~IsOpen(c)
    BY <1>1, <2>2, NoBookTouched DEF CompleteIncoming, BooksUntouched
  <2> QED BY <2>1, <2>2
<1>2. CASE TimeoutIncoming(c)
  <2>1. IsOpen(c) /\ Answer(c, "error", "small")
    BY <1>2 DEF TimeoutIncoming
  <2>2. UNCHANGED <<stateVars, pending, accepting, controlSlots>>
    BY <1>2 DEF TimeoutIncoming
  <2> QED BY <2>1, <2>2, AnswerBudget DEF ReplyKind, Weights
<1>3. CASE Acknowledge(c)
  <2>1. /\ c \in accepting /\ accepting' = accepting \ {c} /\ live' = live
        /\ UNCHANGED <<pending, incoming, generation, controlSlots>>
    BY <1>3 DEF Acknowledge
  <2>2. CASE Document(c[1])
    <3>1. live /\ c[1] = generation
      BY <2>2 DEF Document
    <3>2. Holders' = Holders - 1
      BY <2>1, <3>1, HolderMoves
    <3>3. \E k \in ReplyKind : EnqueueControl(k, c[2], "small")
      BY <1>3, <2>2 DEF Acknowledge, ReplyKind
    <3>4. c[2] \in Nat /\ QueueType /\ Counters
      BY DEF PeerCalls, PeerIds, TypeOK, QueueType, BudgetInv
    <3>5. Counters' /\ Count(queue', ControlFrame) = Count(queue, ControlFrame) + 1
      BY <3>3, <3>4, EnqueueControlCounts DEF Weights
    <3> QED BY <2>1, <3>1, <3>2, <3>5, SlotMoves
  <2>3. CASE ~Document(c[1])
    <3>1. UNCHANGED <<queueVars, dataFrames, dataBytes, queue>>
      BY <1>3, <2>3 DEF Acknowledge
    <3>2. CASE ~live
      BY <2>1, <3>1, <3>2 DEF BudgetInv, Spent, Slots, Counters
    <3>3. live => ~closed
      BY DEF LifeInv
    <3>4. CASE live /\ c[1] # generation
      <4>1. Holders' = Holders
        BY <2>1, <3>4, HolderMoves
      <4> QED BY <2>1, <3>1, <3>4, <4>1 DEF BudgetInv, Spent, Slots, Counters
    <3> QED BY <2>3, <3>2, <3>3, <3>4 DEF Document
  <2> QED BY <2>2, <2>3
<1> QED BY <1>1, <1>2, <1>3

\* Every critical section keeps the books: the induction step.
LEMMA BudgetNext ==
  TypeOK /\ LifeInv /\ OwnershipInv /\ AnswerInv /\ BudgetInv /\ [Next]_vars
    => BudgetInv'
<1> SUFFICES ASSUME TypeOK, LifeInv, OwnershipInv, AnswerInv, BudgetInv,
                    [Next]_vars
             PROVE BudgetInv'
  OBVIOUS
<1> USE DEF stateVars, idVars, tableVars, queueVars, callVars, peerVars
<1>1. CASE UNCHANGED vars
  BY <1>1, NoBookTouched DEF vars, BooksUntouched
<1>2. CASE Admit
  BY <1>2, AdmitBudget
<1>3. CASE Navigate \/ Disconnect \/ Close
  <2>1. \E t \in BOOLEAN : Retire(t)
    BY <1>3 DEF Navigate, Disconnect, Close
  <2> QED BY <2>1, RetireBudget
<1>4. ASSUME NEW k \in Kinds, Prepare(k) PROVE BudgetInv'
  BY <1>4, PrepareBudget
<1>5. CASE FindExhausted
  BY <1>5, NoBookTouched DEF FindExhausted, BooksUntouched
<1>6. CASE RetireExhausted
  <2>1. CASE closed
    BY <1>6, <2>1, NoBookTouched DEF RetireExhausted, BooksUntouched
  <2>2. CASE ~closed
    BY <1>6, <2>2, RetireBudget DEF RetireExhausted
  <2> QED BY <2>1, <2>2
<1>7. ASSUME NEW c \in Calls, CallStep(c) PROVE BudgetInv'
  BY <1>7, CallStepBudget
<1>8. ASSUME NEW p \in Posters, PostStep(p) PROVE BudgetInv'
  BY <1>8, PostStepBudget
<1>9. ASSUME NEW c \in PeerCalls,
             CompleteIncoming(c) \/ TimeoutIncoming(c) \/ Acknowledge(c)
      PROVE BudgetInv'
  BY <1>9, PeerStepBudget
<1>10. CASE Drain
  BY <1>10, DrainBudget
<1> QED
  BY <1>1, <1>2, <1>3, <1>4, <1>5, <1>6, <1>7, <1>8, <1>9, <1>10 DEF Next

\* The books are what the run checks.
LEMMA BudgetSuffices == TypeOK /\ BudgetInv => Accounting
<1> SUFFICES ASSUME TypeOK, BudgetInv PROVE Accounting
  OBVIOUS
<1>1. /\ Marks(queue, ControlFrame) = ControlQueued
      /\ Marks(queue, DataFrame) = DataQueued
      /\ Marks(queue, ChargedFrame) = ChargedQueued
  BY DEF TypeOK, Marks, ControlFrame, DataFrame, ChargedFrame,
         ControlQueued, DataQueued, ChargedQueued
<1>2. SlotAccounting
  BY <1>1 DEF BudgetInv, Slots, Holders, Count, SlotAccounting
<1>3. QueueAccounting
  BY <1>1 DEF BudgetInv, Counters, Count, QueueAccounting
<1> QED BY <1>2, <1>3 DEF Accounting

\* Nothing leaks from a document's budgets and nothing is given back twice,
\* whichever path ends a call, a request or a frame: every control slot has
\* exactly one holder, the counters are what the queue holds, and all of them
\* stay within their limits, whatever the limits are.
THEOREM BudgetsBalance == Spec => []Accounting
<1>1. Init => BudgetInv
  <2> SUFFICES ASSUME Init PROVE BudgetInv
    OBVIOUS
  <2>1. \A G : Count(queue, G) = 0
    BY CountEmpty DEF Init
  <2> QED BY <2>1, EngineAssumption DEF Init, BudgetInv, Spent, Slots, Counters
<1>2. Spec => []BudgetInv
  BY <1>1, BudgetNext, OwnershipInvariant, AnswerInvariant, PTL DEF Spec
<1> QED BY <1>2, AnswerInvariant, BudgetSuffices, PTL
=============================================================================

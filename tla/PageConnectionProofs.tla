------------------------ MODULE PageConnectionProofs ------------------------
(* Proofs about PageConnection, for every value of its constants. *)
EXTENDS PageConnection, FiniteSetTheorems, TLAPS

-----------------------------------------------------------------------------
(* Counting the marked places of a sequence: what appending, popping and   *)
(* splicing do to the number of frames of a kind in a queue.                *)

\* The places of s that hold an element of G
Marks(s, G) == {n \in DOMAIN s : s[n] \in G}
Count(s, G) == Cardinality(Marks(s, G))

\* There are finitely many of them.
LEMMA CountIsNat ==
  ASSUME NEW S, NEW s \in Seq(S), NEW G
  PROVE IsFiniteSet(Marks(s, G)) /\ Count(s, G) \in Nat
<1>1. IsFiniteSet(1 .. Len(s))
  BY FS_Interval
<1>2. Marks(s, G) \in SUBSET (1 .. Len(s))
  BY DEF Marks
<1>3. IsFiniteSet(Marks(s, G))
  BY <1>1, <1>2, FS_Subset
<1> QED BY <1>3, FS_CardinalityType DEF Count

\* An empty sequence holds nothing.
LEMMA CountEmpty == \A G : Count(<<>>, G) = 0
<1>1. \A G : Marks(<<>>, G) = {}
  BY DEF Marks
<1> QED BY <1>1, FS_EmptySet DEF Count

\* An appended element counts if it is in G.
LEMMA CountAppend ==
  ASSUME NEW S, NEW s \in Seq(S), NEW e \in S, NEW G
  PROVE /\ e \in G => Count(Append(s, e), G) = Count(s, G) + 1
        /\ e \notin G => Count(Append(s, e), G) = Count(s, G)
<1>1. CASE e \in G
  <2>1. Marks(Append(s, e), G) = Marks(s, G) \cup {Len(s) + 1}
    BY <1>1 DEF Marks
  <2>2. Len(s) + 1 \notin Marks(s, G)
    BY DEF Marks
  <2> QED BY <1>1, <2>1, <2>2, CountIsNat, FS_AddElement DEF Count
<1>2. CASE e \notin G
  <2>1. Marks(Append(s, e), G) = Marks(s, G)
    BY <1>2 DEF Marks
  <2> QED BY <1>2, <2>1 DEF Count
<1> QED BY <1>1, <1>2

\* t is s without its k-th element.
Skips(t, s, k) ==
  /\ Len(t) = Len(s) - 1
  /\ \A n \in 1 .. Len(t) : t[n] = IF n < k THEN s[n] ELSE s[n + 1]

\* An element that is taken out counted if it was in G.
LEMMA CountSkips ==
  ASSUME NEW S, NEW s \in Seq(S), NEW t \in Seq(S), NEW k \in 1 .. Len(s),
         Skips(t, s, k), NEW G
  PROVE /\ s[k] \in G => Count(t, G) = Count(s, G) - 1
        /\ s[k] \notin G => Count(t, G) = Count(s, G)
<1> DEFINE T == Marks(t, G)
           U == Marks(s, G) \ {k}
           f == [n \in T |-> IF n < k THEN n ELSE n + 1]
<1>1. T \subseteq 1 .. Len(s) - 1 /\ U \subseteq 1 .. Len(s)
  BY DEF Marks, Skips
<1>2. \A n \in T : f[n] \in U
  BY <1>1 DEF Marks, Skips
<1>3. \A m, n \in T : f[m] = f[n] => m = n
  BY <1>1
<1>4. ASSUME NEW u \in U PROVE \E n \in T : f[n] = u
  <2>1. CASE u < k
    <3>1. u \in T
      BY <1>1, <2>1 DEF Marks, Skips
    <3> QED BY <2>1, <3>1
  <2>2. CASE u > k
    <3>0. u \in 1 .. Len(s) /\ u \in Int /\ k \in Int /\ Len(s) \in Nat /\ s[u] \in G
      BY <1>1 DEF Marks
    <3>a. u - 1 \in 1 .. Len(t) /\ ~(u - 1 < k) /\ (u - 1) + 1 = u
      BY <2>2, <3>0 DEF Skips
    <3>b. t[u - 1] = s[u] /\ u - 1 \in DOMAIN t
      BY <3>a DEF Skips
    <3>1. u - 1 \in T
      BY <3>0, <3>b DEF Marks
    <3> QED BY <2>2, <3>1, <1>1
  <2> QED BY <1>1, <2>1, <2>2
<1>5. f \in Bijection(T, U)
  BY <1>2, <1>3, <1>4 DEF Bijection, Injection, Surjection, IsInjective
<1>6. ExistsBijection(T, U)
  BY <1>5 DEF ExistsBijection
<1>7. IsFiniteSet(T) /\ IsFiniteSet(Marks(s, G)) /\ Count(s, G) \in Nat
  BY CountIsNat
<1>8. Cardinality(U) = Cardinality(T)
  BY <1>6, <1>7, FS_Bijection
<1>9. k \in Marks(s, G) <=> s[k] \in G
  BY DEF Marks
<1>10. Cardinality(U) = IF k \in Marks(s, G) THEN Count(s, G) - 1 ELSE Count(s, G)
  BY <1>7, FS_RemoveElement DEF Count
<1> HIDE DEF T, U, f
<1> QED BY <1>8, <1>9, <1>10 DEF Count, T

\* Popping the head
LEMMA TailSkips ==
  ASSUME NEW S, NEW s \in Seq(S), s # <<>>
  PROVE 1 \in 1 .. Len(s) /\ Tail(s) \in Seq(S) /\ Head(s) = s[1] /\ Skips(Tail(s), s, 1)
BY DEF Skips

LEMMA CountTail ==
  ASSUME NEW S, NEW s \in Seq(S), s # <<>>, NEW G
  PROVE /\ Head(s) \in G => Count(Tail(s), G) = Count(s, G) - 1
        /\ Head(s) \notin G => Count(Tail(s), G) = Count(s, G)
<1>1. 1 \in 1 .. Len(s) /\ Tail(s) \in Seq(S) /\ Head(s) = s[1] /\ Skips(Tail(s), s, 1)
  BY TailSkips
<1>2. /\ s[1] \in G => Count(Tail(s), G) = Count(s, G) - 1
      /\ s[1] \notin G => Count(Tail(s), G) = Count(s, G)
  BY <1>1, CountSkips
<1> QED BY <1>1, <1>2

-----------------------------------------------------------------------------
(* Type correctness *)

\* Taking an element out of a sequence leaves a sequence.
LEMMA SpliceType ==
  ASSUME NEW S, NEW s \in Seq(S), NEW n \in 1 .. Len(s)
  PROVE Splice(s, n) \in Seq(S) /\ Skips(Splice(s, n), s, n)
<1>1. SubSeq(s, 1, n - 1) \in Seq(S) /\ Len(SubSeq(s, 1, n - 1)) = n - 1
  OBVIOUS
<1>2. SubSeq(s, n + 1, Len(s)) \in Seq(S) /\ Len(SubSeq(s, n + 1, Len(s))) = Len(s) - n
  OBVIOUS
<1>3. /\ \A m \in 1 .. n - 1 : SubSeq(s, 1, n - 1)[m] = s[m]
      /\ \A m \in 1 .. Len(s) - n : SubSeq(s, n + 1, Len(s))[m] = s[n + m]
  OBVIOUS
<1> DEFINE a == SubSeq(s, 1, n - 1)
           b == SubSeq(s, n + 1, Len(s))
<1> HIDE DEF a, b
<1>4. /\ a \o b \in Seq(S) /\ Len(a \o b) = Len(s) - 1
      /\ \A m \in 1 .. Len(s) - 1 : (a \o b)[m] = IF m < n THEN a[m] ELSE b[m - n + 1]
  <2>1. a \in Seq(S) /\ b \in Seq(S) /\ Len(a) = n - 1 /\ Len(b) = Len(s) - n
    BY <1>1, <1>2 DEF a, b
  <2>2. a \o b \in Seq(S) /\ Len(a \o b) = Len(a) + Len(b)
    BY <2>1
  <2>3. \A m \in 1 .. Len(a) + Len(b) :
          (a \o b)[m] = IF m <= Len(a) THEN a[m] ELSE b[m - Len(a)]
    BY <2>1
  <2> QED BY <2>1, <2>2, <2>3, SMTT(30)
<1>5. \A m \in 1 .. Len(s) - 1 : (a \o b)[m] = IF m < n THEN s[m] ELSE s[m + 1]
  <2> SUFFICES ASSUME NEW m \in 1 .. Len(s) - 1
               PROVE (a \o b)[m] = IF m < n THEN s[m] ELSE s[m + 1]
    OBVIOUS
  <2>1. CASE m < n
    BY <1>3, <1>4, <2>1 DEF a
  <2>2. CASE ~(m < n)
    <3>1. m - n + 1 \in 1 .. Len(s) - n /\ n + (m - n + 1) = m + 1
      BY <2>2
    <3>2. b[m - n + 1] = s[m + 1]
      BY <3>1, <1>3 DEF b
    <3> QED BY <1>4, <2>2, <3>2
  <2> QED BY <2>1, <2>2
<1> QED BY <1>4, <1>5 DEF Splice, Skips, a, b

\* The types, by who owns the variables
CallTypes ==
  /\ nextId \in 1 .. MaxId + 1 /\ pending \in SUBSET Ids /\ sent \in SUBSET Ids
  /\ kind \in [Ids -> Invocations \cup {"none"}]
WorkTypes ==
  /\ lastIncoming \in 0 .. MaxHostId /\ incoming \in SUBSET HostIds
  /\ work \in [HostIds -> Busy \cup {"none", "calling", "over"}]
  /\ answers \in [HostIds -> Nat] /\ input \in Int
QueueTypes ==
  /\ entries \in Seq(Frame) /\ post \in Frame \cup {NoFrame} /\ wire \in Seq(Frame)
  /\ controls \in Int /\ data \in Int
RestTypes ==
  /\ failure \in BOOLEAN /\ doomed \in {"no", "refusal", "completion", "host"}
  /\ held \in SUBSET Credits /\ reserved \in Int /\ retained \in Int

\* TypeOK without the signs of the counters, which only the books of the
\* connection tell.
PageTypes ==
  /\ failure \in BOOLEAN /\ doomed \in {"no", "refusal", "completion", "host"}
  /\ nextId \in 1 .. MaxId + 1 /\ pending \in SUBSET Ids /\ sent \in SUBSET Ids
  /\ kind \in [Ids -> Invocations \cup {"none"}]
  /\ lastIncoming \in 0 .. MaxHostId /\ incoming \in SUBSET HostIds
  /\ work \in [HostIds -> Busy \cup {"none", "calling", "over"}]
  /\ answers \in [HostIds -> Nat] /\ held \in SUBSET Credits
  /\ entries \in Seq(Frame) /\ post \in Frame \cup {NoFrame} /\ wire \in Seq(Frame)
  /\ controls \in Int /\ reserved \in Int /\ data \in Int
  /\ retained \in Int /\ input \in Int

LEMMA TypeParts ==
  /\ PageTypes <=> CallTypes /\ WorkTypes /\ QueueTypes /\ RestTypes
  /\ PageTypes' <=> CallTypes' /\ WorkTypes' /\ QueueTypes' /\ RestTypes'
BY DEF PageTypes, CallTypes, WorkTypes, QueueTypes, RestTypes

\* send of a control frame keeps the types.
LEMMA SendControlTypes ==
  ASSUME QueueTypes, RestTypes, NEW f \in Frame, NEW left \in Int,
         NEW credited \in BOOLEAN, NEW why \in {"refusal", "completion"},
         SendControl(f, left, credited, why)
  PROVE /\ entries' \in Seq(Frame) /\ controls' \in Int /\ reserved' \in Int
        /\ doomed' \in {"no", "refusal", "completion", "host"}
<1>1. CASE credited \/ controls + left < ControlFrames
  BY <1>1 DEF QueueTypes, RestTypes, SendControl
<1>2. CASE ~(credited \/ controls + left < ControlFrames)
  BY <1>2 DEF QueueTypes, RestTypes, SendControl
<1> QED BY <1>1, <1>2

\* Counting an answer keeps the history well-typed.
LEMMA AnswerTypes ==
  ASSUME answers \in [HostIds -> Nat], NEW h, Answer(h)
  PROVE answers' \in [HostIds -> Nat]
<1>1. CASE h \in HostIds
  <2>1. answers[h] + 1 \in Nat
    BY <1>1
  <2> QED BY <2>1, <1>1 DEF Answer
<1>2. CASE h \notin HostIds
  BY <1>2 DEF Answer
<1> QED BY <1>1, <1>2

\* remove keeps the types.
LEMMA RemoveTypes ==
  ASSUME QueueTypes, RestTypes, NEW i, Remove(i)
  PROVE entries' \in Seq(Frame) /\ data' \in Int /\ retained' \in Int
<1>1. CASE UNCHANGED <<entries, data, retained>>
  BY <1>1 DEF QueueTypes, RestTypes
<1>2. ASSUME NEW n \in Places(i), entries' = Splice(entries, n), data' = data - 1,
             retained' = retained - 1
      PROVE entries' \in Seq(Frame) /\ data' \in Int /\ retained' \in Int
  <2>1. n \in 1 .. Len(entries)
    BY DEF Places, QueueTypes
  <2> QED BY <1>2, <2>1, SpliceType DEF QueueTypes, RestTypes
<1> QED BY <1>1, <1>2 DEF Remove

\* What a handler's end touches keeps its types.
LEMMA FinallyTypes ==
  ASSUME WorkTypes, RestTypes, NEW h, NEW n \in Int, Finally(h, n)
  PROVE /\ work' \in [HostIds -> Busy \cup {"none", "calling", "over"}]
        /\ incoming' \in SUBSET HostIds /\ held' \in SUBSET Credits
        /\ input' \in Int /\ retained' \in Int
<1>1. work' \in [HostIds -> Busy \cup {"none", "calling", "over"}]
  BY DEF WorkTypes, Finally
<1>2. incoming' \in SUBSET HostIds /\ held' \in SUBSET Credits
  BY DEF WorkTypes, RestTypes, Finally
<1>3. input' \in Int /\ retained' \in Int
  BY DEF WorkTypes, RestTypes, Finally
<1> QED BY <1>1, <1>2, <1>3

\* The number of data frames is a number.
LEMMA DataType ==
  ASSUME QueueTypes PROVE DataOf(entries) \in Int /\ DataOf(<<post>>) \in Int
<1>1. \A s \in Seq(Frame \cup {NoFrame}) : DataOf(s) \in Int
  <2> SUFFICES ASSUME NEW s \in Seq(Frame \cup {NoFrame}) PROVE DataOf(s) \in Int
    OBVIOUS
  <2>1. {n \in DOMAIN s : ~IsControl(s[n])} \in SUBSET (1 .. Len(s))
    OBVIOUS
  <2> QED BY <2>1, FS_Interval, FS_Subset, FS_CardinalityType DEF DataOf
<1>2. entries \in Seq(Frame \cup {NoFrame}) /\ <<post>> \in Seq(Frame \cup {NoFrame})
  BY DEF QueueTypes
<1> QED BY <1>1, <1>2

\* So does fail.
LEMMA FailTypes ==
  ASSUME PageTypes, NEW over \in BOOLEAN, FailWith(over)
  PROVE PageTypes'
<1> USE DEF FailWith
<1>1. CallTypes'
  BY TypeParts DEF CallTypes
<1>2. IsFiniteSet(HostIds)
  BY FS_Interval, PageAssumption DEF HostIds
<1>3. Cardinality({h \in HostIds : work[h] = "sending"}) \in Int
  <2>1. {h \in HostIds : work[h] = "sending"} \in SUBSET HostIds
    OBVIOUS
  <2> QED BY <1>2, <2>1, FS_Subset, FS_CardinalityType
<1>4. WorkTypes'
  BY <1>3, TypeParts DEF WorkTypes
<1>5. QueueTypes'
  BY TypeParts DEF QueueTypes
<1>8. DataOf(entries) \in Int /\ DataOf(<<post>>) \in Int
  BY TypeParts, DataType
<1>9. retained' \in Int
  <2>1. CASE over
    BY <1>3, <1>8, <2>1, TypeParts DEF RestTypes, Releases
  <2>2. CASE ~over
    BY <1>3, <1>8, <2>2, TypeParts DEF RestTypes, Releases
  <2> QED BY <2>1, <2>2
<1>10. RestTypes'
  BY <1>9 DEF RestTypes
<1> QED BY <1>1, <1>4, <1>5, <1>10, TypeParts

\* A credit that is given back leaves a number of reserved slots.
LEMMA WithoutType == RestTypes => \A c : Without(c) \in Int
BY DEF RestTypes, Without

\* Every turn of the event loop leaves the state well-typed.
LEMMA TypeNext == PageTypes /\ [Next]_vars => PageTypes'
<1> SUFFICES ASSUME PageTypes, [Next]_vars PROVE PageTypes'
  OBVIOUS
<1>0. CallTypes /\ WorkTypes /\ QueueTypes /\ RestTypes /\ (\A c : Without(c) \in Int)
  BY TypeParts, WithoutType
<1>c. \A h \in Ids \cup HostIds, k \in Controls : [kind |-> k, id |-> h] \in Frame
  BY DEF Frame, Ids, HostIds
<1> USE PageAssumption DEF queueVars, callVars, workVars
<1>1. CASE UNCHANGED vars
  BY <1>1 DEF vars, PageTypes
<1>2. ASSUME NEW k \in Invocations, Invoke(k) PROVE PageTypes'
  <2>1. nextId \in Ids /\ nextId' = nextId + 1 /\ nextId' \in 1 .. MaxId + 1
    BY <1>0, <1>2 DEF Invoke, IdLeft, CallTypes, Ids
  <2>2. [kind |-> k, id |-> nextId] \in Frame /\ <<"call", nextId>> \in Credits
    BY <2>1 DEF Frame, Credits, Ids
  <2>3. kind' \in [Ids -> Invocations \cup {"none"}]
    BY <1>0, <1>2, <2>1 DEF Invoke, CallTypes
  <2>4. pending' \in SUBSET Ids /\ sent' \in SUBSET Ids
    BY <1>0, <1>2, <2>1 DEF Invoke, CallTypes
  <2>5. WorkTypes'
    BY <1>0, <1>2 DEF Invoke, WorkTypes
  <2>6. QueueTypes'
    <3>1. entries' = entries \/ entries' = Append(entries, [kind |-> k, id |-> nextId])
      BY <1>2 DEF Invoke
    <3>2. data' \in Int /\ UNCHANGED <<post, wire, controls>>
      BY <1>0, <1>2 DEF Invoke, QueueTypes
    <3> QED BY <1>0, <2>2, <3>1, <3>2 DEF QueueTypes
  <2>7. held' \in SUBSET Credits
    BY <1>0, <1>2, <2>2 DEF Invoke, RestTypes
  <2>8. reserved' \in Int /\ retained' \in Int /\ UNCHANGED <<failure, doomed>>
    BY <1>0, <1>2 DEF Invoke, RestTypes
  <2> QED
    BY <1>0, <2>1, <2>3, <2>4, <2>5, <2>6, <2>7, <2>8, TypeParts DEF CallTypes, RestTypes
<1>3. ASSUME NEW i \in Ids, Cancel(i) PROVE PageTypes'
  <2>1. CallTypes'
    BY <1>0, <1>3 DEF Cancel, Settle, CallTypes
  <2>2. WorkTypes'
    BY <1>0, <1>3 DEF Cancel, Settle, WorkTypes
  <2>3. QueueTypes'
    BY <1>0, <1>3, <1>c, SendControlTypes, RemoveTypes DEF Cancel, Settle, QueueTypes, Controls
  <2>4. RestTypes'
    BY <1>0, <1>3, <1>c, SendControlTypes, RemoveTypes DEF Cancel, Settle, RestTypes, Controls
  <2> QED BY <2>1, <2>2, <2>3, <2>4, TypeParts
<1>4. ASSUME NEW i \in Ids, Complete(i) PROVE PageTypes'
  <2>1. CallTypes'
    BY <1>0, <1>4 DEF Complete, Settle, CallTypes
  <2>2. WorkTypes'
    BY <1>0, <1>4 DEF Complete, Settle, WorkTypes
  <2>3. QueueTypes'
    BY <1>0, <1>4, RemoveTypes DEF Complete, Settle, QueueTypes
  <2>4. RestTypes'
    BY <1>0, <1>4, RemoveTypes DEF Complete, Settle, RestTypes
  <2> QED BY <2>1, <2>2, <2>3, <2>4, TypeParts
<1>5. ASSUME NEW h \in HostIds, Refuse(h) PROVE PageTypes'
  <2>0. /\ entries' \in Seq(Frame) /\ controls' \in Int /\ reserved' \in Int
        /\ doomed' \in {"no", "refusal", "completion", "host"}
    <3> DEFINE g == [kind |-> "error", id |-> h]
    <3>1. g \in Frame
      BY <1>c DEF Controls
    <3> HIDE DEF g
    <3>2. SendControl(g, reserved, FALSE, "refusal")
      BY <1>5 DEF g, Refuse, SendError
    <3> QED BY <1>0, <3>1, <3>2, SendControlTypes DEF RestTypes
  <2>1. CallTypes'
    BY <1>0, <1>5 DEF Refuse, SendError, CallTypes
  <2>2. WorkTypes'
    BY <1>0, <1>5, AnswerTypes DEF Refuse, SendError, WorkTypes, HostIds
  <2>3. QueueTypes'
    BY <1>0, <1>5, <2>0 DEF Refuse, SendError, QueueTypes
  <2>4. RestTypes'
    BY <1>0, <1>5, <2>0 DEF Refuse, SendError, RestTypes
  <2> QED BY <2>1, <2>2, <2>3, <2>4, TypeParts
<1>6. ASSUME NEW h \in HostIds, RunHandler(h) PROVE PageTypes'
  <2>1. CallTypes'
    BY <1>0, <1>6 DEF RunHandler, CallTypes
  <2>2. WorkTypes'
    BY <1>0, <1>6 DEF RunHandler, WorkTypes, HostIds, Busy
  <2>3. QueueTypes'
    BY <1>0, <1>6 DEF RunHandler, QueueTypes
  <2>4. RestTypes'
    BY <1>0, <1>6 DEF RunHandler, RestTypes, Credits
  <2> QED BY <2>1, <2>2, <2>3, <2>4, TypeParts
<1>7. ASSUME NEW h \in HostIds, Deliver(h) PROVE PageTypes'
  <2>0. /\ entries' \in Seq(Frame) /\ controls' \in Int /\ reserved' \in Int
        /\ doomed' \in {"no", "refusal", "completion", "host"}
    <3> DEFINE g == [kind |-> "accept", id |-> h]
    <3>1. g \in Frame
      BY <1>c DEF Controls
    <3> HIDE DEF g
    <3>2. SendControl(g, reserved, TRUE, "refusal")
      BY <1>7 DEF g, Deliver
    <3> QED BY <1>0, <3>1, <3>2, SendControlTypes DEF RestTypes
  <2>1. CallTypes'
    BY <1>0, <1>7 DEF Deliver, CallTypes
  <2>2. WorkTypes'
    <3>1. answers' \in [HostIds -> Nat]
      BY <1>0, <1>7, AnswerTypes DEF Deliver, WorkTypes
    <3>2. /\ work' \in [HostIds -> Busy \cup {"none", "calling", "over"}]
          /\ input' \in Int
      BY <1>0, <1>7 DEF Deliver, WorkTypes
    <3>3. lastIncoming' \in 0 .. MaxHostId /\ incoming' = incoming
      BY <1>7, PageAssumption DEF Deliver, HostIds
    <3> QED BY <1>0, <3>1, <3>2, <3>3 DEF WorkTypes
  <2>3. QueueTypes'
    BY <1>0, <1>7, <2>0 DEF Deliver, QueueTypes
  <2>4. RestTypes'
    BY <1>0, <1>7, <2>0 DEF Deliver, RestTypes
  <2> QED BY <2>1, <2>2, <2>3, <2>4, TypeParts
<1>8. ASSUME NEW h \in HostIds, CallbackEnds(h) PROVE PageTypes'
  <2>1. CallTypes'
    BY <1>0, <1>8 DEF CallbackEnds, CallTypes
  <2>2. WorkTypes'
    BY <1>0, <1>8 DEF CallbackEnds, WorkTypes
  <2>3. QueueTypes'
    BY <1>0, <1>8 DEF CallbackEnds, QueueTypes
  <2>4. RestTypes'
    BY <1>0, <1>8 DEF CallbackEnds, RestTypes
  <2> QED BY <2>1, <2>2, <2>3, <2>4, TypeParts
<1>9. ASSUME NEW h \in HostIds, HandlerReturns(h) PROVE PageTypes'
  <2>1. CallTypes'
    BY <1>0, <1>9 DEF HandlerReturns, CallTypes
  <2>2. WorkTypes'
    BY <1>0, <1>9 DEF HandlerReturns, WorkTypes, Busy
  <2>3. QueueTypes'
    BY <1>0, <1>9 DEF HandlerReturns, QueueTypes, Frame, HostIds
  <2>4. RestTypes'
    BY <1>0, <1>9 DEF HandlerReturns, RestTypes
  <2> QED BY <2>1, <2>2, <2>3, <2>4, TypeParts
<1>10. ASSUME NEW h \in HostIds, HandlerFails(h) PROVE PageTypes'
  <2>0. /\ entries' \in Seq(Frame) /\ controls' \in Int /\ reserved' \in Int
        /\ doomed' \in {"no", "refusal", "completion", "host"}
    <3> DEFINE g == [kind |-> "error", id |-> h]
    <3>1. g \in Frame
      BY <1>c DEF Controls
    <3> HIDE DEF g
    <3>2. SendControl(g, Without(<<"work", h>>), TRUE, "completion")
      BY <1>10 DEF g, HandlerFails, SendError
    <3> QED BY <1>0, <3>1, <3>2, SendControlTypes
  <2>1. CallTypes'
    BY <1>0, <1>10 DEF HandlerFails, SendError, CallTypes
  <2>2. WorkTypes'
    BY <1>0, <1>10, AnswerTypes, FinallyTypes DEF HandlerFails, SendError, WorkTypes
  <2>3. QueueTypes'
    BY <1>0, <1>10, <2>0 DEF HandlerFails, SendError, QueueTypes
  <2>4. RestTypes'
    BY <1>0, <1>10, <2>0, FinallyTypes DEF HandlerFails, SendError, RestTypes
  <2> QED BY <2>1, <2>2, <2>3, <2>4, TypeParts
<1>11. ASSUME NEW h \in HostIds, HandlerEndsLate(h) PROVE PageTypes'
  <2>1. CallTypes'
    BY <1>0, <1>11 DEF HandlerEndsLate, CallTypes
  <2>2. WorkTypes'
    BY <1>0, <1>11, FinallyTypes DEF HandlerEndsLate, WorkTypes
  <2>3. QueueTypes'
    BY <1>0, <1>11 DEF HandlerEndsLate, QueueTypes
  <2>4. RestTypes'
    BY <1>0, <1>11, FinallyTypes DEF HandlerEndsLate, RestTypes
  <2> QED BY <2>1, <2>2, <2>3, <2>4, TypeParts
<1>12. ASSUME NEW h \in HostIds, CancelIncoming(h) PROVE PageTypes'
  <2>1. CallTypes'
    BY <1>0, <1>12 DEF CancelIncoming, Withdraw, CallTypes
  <2>2. WorkTypes'
    BY <1>0, <1>12 DEF CancelIncoming, Withdraw, WorkTypes
  <2>3. QueueTypes'
    BY <1>0, <1>12 DEF CancelIncoming, Withdraw, QueueTypes
  <2>4. RestTypes'
    BY <1>0, <1>12 DEF CancelIncoming, Withdraw, RestTypes
  <2> QED BY <2>1, <2>2, <2>3, <2>4, TypeParts
<1>13. ASSUME NEW h \in HostIds, Timeout(h) PROVE PageTypes'
  <2>1. CallTypes'
    BY <1>0, <1>13 DEF Timeout, Withdraw, SendError, CallTypes
  <2>2. WorkTypes'
    BY <1>0, <1>13, AnswerTypes DEF Timeout, Withdraw, SendError, WorkTypes
  <2>3. QueueTypes'
    BY <1>0, <1>13, <1>c, SendControlTypes DEF Timeout, Withdraw, SendError, QueueTypes, Controls
  <2>4. RestTypes'
    BY <1>0, <1>13, <1>c, SendControlTypes DEF Timeout, Withdraw, SendError, RestTypes, Controls
  <2> QED BY <2>1, <2>2, <2>3, <2>4, TypeParts
<1>14. ASSUME NEW f \in Frame, PumpDue, Post(f) PROVE PageTypes'
  <2>1. CallTypes'
    BY <1>0, <1>14 DEF Post, CallTypes, Dead
  <2>2. WorkTypes'
    BY <1>0, <1>14, AnswerTypes DEF Post, WorkTypes
  <2>3. QueueTypes'
    BY <1>0, <1>14 DEF Post, QueueTypes, PumpDue
  <2>4. RestTypes'
    BY <1>0, <1>14 DEF Post, RestTypes
  <2> QED BY <2>1, <2>2, <2>3, <2>4, TypeParts
<1>15. ASSUME NEW f \in Frame, PumpDue, DropDead(f) PROVE PageTypes'
  <2>1. CallTypes'
    BY <1>0, <1>15 DEF DropDead, Shift, CallTypes
  <2>2. WorkTypes'
    BY <1>0, <1>15, FinallyTypes DEF DropDead, Shift, WorkTypes
  <2>3. QueueTypes'
    BY <1>0, <1>15 DEF DropDead, Shift, QueueTypes, PumpDue
  <2>4. RestTypes'
    BY <1>0, <1>15, FinallyTypes DEF DropDead, Shift, RestTypes
  <2> QED BY <2>1, <2>2, <2>3, <2>4, TypeParts
<1>16. ASSUME NEW f \in Frame, PumpDue, DropCall(f) PROVE PageTypes'
  <2>1. CallTypes'
    BY <1>0, <1>16 DEF DropCall, Shift, Settle, CallTypes
  <2>2. WorkTypes'
    BY <1>0, <1>16 DEF DropCall, Shift, Settle, WorkTypes
  <2>3. QueueTypes'
    BY <1>0, <1>16 DEF DropCall, Shift, Settle, QueueTypes, PumpDue
  <2>4. RestTypes'
    BY <1>0, <1>16 DEF DropCall, Shift, Settle, RestTypes
  <2> QED BY <2>1, <2>2, <2>3, <2>4, TypeParts
<1>17. ASSUME NEW f \in Frame, PumpDue, NEW b \in BOOLEAN, DropResult(f, b) PROVE PageTypes'
  <2>1. CallTypes'
    BY <1>0, <1>17 DEF DropResult, CallTypes
  <2>2. WorkTypes'
    BY <1>0, <1>17, AnswerTypes, FinallyTypes DEF DropResult, WorkTypes
  <2>3. QueueTypes'
    BY <1>0, <1>17 DEF DropResult, QueueTypes, PumpDue, Frame, Controls
  <2>4. RestTypes'
    BY <1>0, <1>17, FinallyTypes DEF DropResult, RestTypes
  <2> QED BY <2>1, <2>2, <2>3, <2>4, TypeParts
<1>18. CASE FailDoomed \/ Fail \/ PostBroken
  <2>1. \E over \in BOOLEAN : FailWith(over)
    BY <1>18 DEF FailDoomed, Fail, PostBroken
  <2> QED BY <2>1, FailTypes
<1>19. CASE PostOk
  <2>1. CallTypes'
    BY <1>0, <1>19 DEF PostOk, CallTypes
  <2>2. WorkTypes'
    BY <1>0, <1>19, FinallyTypes DEF PostOk, WorkTypes
  <2>3. QueueTypes'
    BY <1>0, <1>19 DEF PostOk, QueueTypes
  <2>4. RestTypes'
    BY <1>0, <1>19, FinallyTypes, DataType DEF PostOk, RestTypes
  <2> QED BY <2>1, <2>2, <2>3, <2>4, TypeParts
<1>20. CASE PostRefused
  <2>1. CallTypes'
    BY <1>0, <1>20 DEF PostRefused, CallTypes, Settle
  <2>2. WorkTypes'
    BY <1>0, <1>20, FinallyTypes DEF PostRefused, WorkTypes
  <2>3. QueueTypes'
    BY <1>0, <1>20 DEF PostRefused, QueueTypes
  <2>4. RestTypes'
    BY <1>0, <1>20, FinallyTypes, DataType DEF PostRefused, RestTypes, Settle
  <2> QED BY <2>1, <2>2, <2>3, <2>4, TypeParts
<1>21. CASE PostEnds
  <2>1. CallTypes'
    BY <1>0, <1>21 DEF PostEnds, CallTypes
  <2>2. WorkTypes'
    BY <1>0, <1>21 DEF PostEnds, WorkTypes
  <2>3. QueueTypes'
    BY <1>0, <1>21 DEF PostEnds, QueueTypes
  <2>4. RestTypes'
    BY <1>0, <1>21, DataType DEF PostEnds, RestTypes
  <2> QED BY <2>1, <2>2, <2>3, <2>4, TypeParts
<1>98. PumpDue => Head(entries) \in Frame
  BY <1>0 DEF QueueTypes, PumpDue
<1> QED
  BY <1>1, <1>2, <1>3, <1>4, <1>5, <1>6, <1>7, <1>8, <1>9, <1>10, <1>11, <1>12, <1>13, <1>14, <1>15, <1>16, <1>17, <1>18, <1>19, <1>20, <1>21, <1>98
  DEF Next, CallStep, WorkStep, Pump

-----------------------------------------------------------------------------
(* The inductive invariant *)

\* Once the connection has failed, nothing is left of it but what still runs.
Ended ==
  failure => /\ doomed = "no" /\ pending = {} /\ incoming = {} /\ held = {}
             /\ entries = <<>> /\ controls = 0 /\ reserved = 0 /\ data = 0

\* A call that can still be cancelled and an invocation that can still be
\* answered hold a credit; ids that were not used yet hold nothing.
CallCredit(i) ==
  /\ i \in pending \/ i \in sent \/ <<"call", i>> \in held => i < nextId
  /\ i \in pending /\ kind[i] = "request" => <<"call", i>> \in held
WorkCredit(h) ==
  /\ <<"work", h>> \in held => h <= lastIncoming
  /\ h \in incoming => <<"work", h>> \in held
Credited == (\A i \in Ids : CallCredit(i)) /\ (\A h \in HostIds : WorkCredit(h))

\* So the slots in use and in reserve suffice, whoever completes next.
Fits == controls + reserved <= ControlFrames /\ CompletionFits

\* An invocation is open only unanswered, and untouched before it comes.
AtMostOnce(h) ==
  /\ answers[h] <= 1
  /\ h \in incoming => answers[h] = 0 /\ h <= lastIncoming
  /\ h > lastIncoming => answers[h] = 0 /\ work[h] = "none"
Once == \A h \in HostIds : AtMostOnce(h)

\* Every result in the queue belongs to a handler that waits for it, and only
\* one does.
IsResult(f) == f.kind = "result"
Matched(q, w) ==
  /\ \A n \in DOMAIN q : IsResult(q[n]) => q[n].id \in HostIds /\ w[q[n].id] = "sending"
  /\ \A m, n \in DOMAIN q : IsResult(q[m]) /\ q[m] = q[n] => m = n
Results == ~failure => Matched(InQueue, work)

\* The invocations in the queue are in the order of their ids, and none is
\* below one that was sent; a CANCEL follows a request that was.
IsCall(f) == f.kind \in Invocations
Issued(f) ==
  /\ IsCall(f) => /\ f.id \in Ids /\ f.id < nextId /\ kind[f.id] = f.kind
                  /\ \A j \in sent : j < f.id
  /\ f.kind = "cancel" => f.id \in sent /\ kind[f.id] = "request"
InOrder(q) ==
  /\ \A n \in DOMAIN q : Issued(q[n])
  /\ \A m, n \in DOMAIN q : m < n /\ IsCall(q[m]) /\ IsCall(q[n]) => q[m].id < q[n].id
Order == InOrder(entries)

\* What was sent is on the wire, and nothing else.
OnWire ==
  /\ \A n \in DOMAIN wire : IsCall(wire[n]) => wire[n].id \in sent
  /\ \A i \in sent : kind[i] = "request" =>
       \E l \in DOMAIN wire : wire[l] = [kind |-> "request", id |-> i]
WireCalls ==
  \A m, n \in DOMAIN wire :
    /\ m < n /\ IsCall(wire[m]) /\ IsCall(wire[n]) => wire[m].id < wire[n].id
    /\ wire[n].kind = "cancel" =>
         \E l \in 1 .. n - 1 : wire[l] = [kind |-> "request", id |-> wire[n].id]

\* The books: a reserved slot for each credit, the counters of the queue what
\* the queue holds, and the ledger what the application and the queue hold.
ControlFrame == {f \in Frame : IsControl(f)}
DataFrame == {f \in Frame : ~IsControl(f)}
Working == {h \in HostIds : work[h] \in Busy \cup {"calling"}}
Reserve == ~failure => reserved = Cardinality(held)
Counters == ~failure => /\ controls = Count(InQueue, ControlFrame)
                        /\ data = Count(InQueue, DataFrame) /\ data <= MaxFrames
Input == input = Cardinality(Working)
Ledger == retained = input + Count(InQueue, DataFrame)

-----------------------------------------------------------------------------
(* Lemmas on the queue *)

\* What is queued, with the entry in flight in front, changes at its ends: a
\* posted entry stays in it until its POST ends.
LEMMA QueueMoves ==
  ASSUME PageTypes
  PROVE /\ InQueue \in Seq(Frame)
        /\ \A f \in Frame : entries' = Append(entries, f) /\ post' = post
                              => InQueue' = Append(InQueue, f)
        /\ UNCHANGED <<entries, post>> => InQueue' = InQueue
        /\ PumpDue => InQueue = entries /\ InQueue # <<>> /\ Head(entries) \in Frame
        /\ PumpDue /\ post' = Head(entries) /\ entries' = Tail(entries)
             => InQueue' = InQueue
        /\ PumpDue /\ post' = post => InQueue' = entries'
        /\ post # NoFrame /\ post' = NoFrame /\ entries' = entries
             => /\ InQueue # <<>> /\ Head(InQueue) = post /\ post \in Frame
                /\ InQueue' = Tail(InQueue)
<1>1. entries \in Seq(Frame) /\ (post # NoFrame => post \in Frame) /\ NoFrame \notin Frame
  BY DEF PageTypes, NoFrame, Frame, Invocations, Controls
<1>2. post # NoFrame => /\ <<post>> \o entries \in Seq(Frame) /\ <<post>> \o entries # <<>>
                        /\ Head(<<post>> \o entries) = post
                        /\ Tail(<<post>> \o entries) = entries
  BY <1>1
<1>3. post # NoFrame => \A f \in Frame : <<post>> \o Append(entries, f) = Append(<<post>> \o entries, f)
  BY <1>1
<1>4. PumpDue => post = NoFrame /\ entries # <<>> /\ Head(entries) \in Frame
                 /\ <<Head(entries)>> \o Tail(entries) = entries
  BY <1>1 DEF PumpDue
<1> QED BY <1>1, <1>2, <1>3, <1>4 DEF InQueue

\* An entry spliced out is taken out of what is queued.
LEMMA QueueSplice ==
  ASSUME PageTypes, NEW n \in DOMAIN entries, entries' = Splice(entries, n), post' = post
  PROVE \E k \in 1 .. Len(InQueue) : /\ InQueue[k] = entries[n] /\ InQueue' \in Seq(Frame)
                                     /\ Skips(InQueue', InQueue, k)
<1>1. entries \in Seq(Frame) /\ n \in 1 .. Len(entries)
  BY DEF PageTypes
<1>2. entries' \in Seq(Frame) /\ Skips(entries', entries, n)
  BY <1>1, SpliceType
<1>3. CASE post = NoFrame
  BY <1>1, <1>2, <1>3 DEF InQueue
<1>4. CASE post # NoFrame
  <2> DEFINE q == <<post>> \o entries
             r == <<post>> \o entries'
  <2>1. post \in Frame
    BY <1>4 DEF PageTypes
  <2>2. /\ q \in Seq(Frame) /\ Len(q) = Len(entries) + 1 /\ q[1] = post
        /\ \A m \in 1 .. Len(entries) : q[m + 1] = entries[m]
    BY <1>1, <2>1
  <2>3. /\ r \in Seq(Frame) /\ Len(r) = Len(entries') + 1 /\ r[1] = post
        /\ \A m \in 1 .. Len(entries') : r[m + 1] = entries'[m]
    BY <1>2, <2>1
  <2>4. InQueue = q /\ InQueue' = r
    BY <1>4 DEF InQueue
  <2> HIDE DEF q, r
  <2>5. ASSUME NEW m \in 1 .. Len(r) PROVE r[m] = IF m < n + 1 THEN q[m] ELSE q[m + 1]
    <3>1. CASE m = 1
      BY <1>1, <2>2, <2>3, <3>1
    <3>2. CASE m # 1
      <4>1. m - 1 \in 1 .. Len(entries') /\ Len(entries') = Len(entries) - 1 /\ (m - 1) + 1 = m
        BY <1>1, <1>2, <2>3, <3>2 DEF Skips
      <4>2. r[m] = entries'[m - 1]
        BY <2>3, <4>1
      <4>3. entries'[m - 1] = IF m - 1 < n THEN entries[m - 1] ELSE entries[m]
        BY <1>2, <4>1 DEF Skips
      <4>4. m - 1 \in 1 .. Len(entries) /\ m \in 1 .. Len(entries)
        BY <1>1, <4>1
      <4>5. q[m] = entries[m - 1] /\ q[m + 1] = entries[m]
        BY <2>2, <4>1, <4>4
      <4> QED BY <1>1, <4>1, <4>2, <4>3, <4>5
    <3> QED BY <3>1, <3>2
  <2>6. Skips(r, q, n + 1)
    BY <1>1, <1>2, <2>2, <2>3, <2>5 DEF Skips
  <2>7. n + 1 \in 1 .. Len(q) /\ q[n + 1] = entries[n]
    BY <1>1, <2>2
  <2> QED BY <2>3, <2>4, <2>6, <2>7
<1> QED BY <1>3, <1>4

\* A frame that joins, and a frame that leaves
LEMMA MatchedAppend ==
  ASSUME NEW q \in Seq(Frame), NEW f \in Frame, NEW w, NEW v, Matched(q, w),
         \A g \in HostIds : w[g] = "sending" => v[g] = "sending",
         IsResult(f) => f.id \in HostIds /\ w[f.id] # "sending" /\ v[f.id] = "sending"
  PROVE Matched(Append(q, f), v)
<1> DEFINE t == Append(q, f)
<1>1. /\ DOMAIN t = 1 .. Len(q) + 1 /\ t[Len(q) + 1] = f /\ DOMAIN q = 1 .. Len(q)
      /\ \A n \in 1 .. Len(q) : t[n] = q[n]
  OBVIOUS
<1> HIDE DEF t
<1>2. \A n \in 1 .. Len(q) : IsResult(q[n]) /\ IsResult(f) => q[n] # f
  BY <1>1 DEF Matched
<1> QED BY <1>1, <1>2 DEF Matched, t

LEMMA MatchedSkips ==
  ASSUME NEW q \in Seq(Frame), NEW t \in Seq(Frame), NEW k \in 1 .. Len(q),
         Skips(t, q, k), NEW w, NEW v, Matched(q, w),
         \A g \in HostIds : w[g] = "sending" =>
            v[g] = "sending" \/ (IsResult(q[k]) /\ g = q[k].id)
  PROVE Matched(t, v)
<1>1. DOMAIN t = 1 .. Len(q) - 1 /\ DOMAIN q = 1 .. Len(q)
  BY DEF Skips
<1> DEFINE at(n) == IF n < k THEN n ELSE n + 1
<1>2. \A n \in DOMAIN t : at(n) \in DOMAIN q /\ at(n) # k /\ t[n] = q[at(n)]
  BY <1>1 DEF Skips
<1>3. \A m, n \in DOMAIN t : at(m) = at(n) => m = n
  BY <1>1
<1> HIDE DEF at
<1>4. ASSUME NEW n \in DOMAIN q, n # k, IsResult(q[n]), IsResult(q[k])
      PROVE q[n].id # q[k].id
  <2>1. q[n] # q[k]
    BY <1>1, <1>4 DEF Matched
  <2>2. q[n] \in Frame /\ q[k] \in Frame
    BY <1>1
  <2> QED BY <2>1, <2>2, <1>4, SMTT(30) DEF Frame, IsResult
<1> QED BY <1>1, <1>2, <1>3, <1>4 DEF Matched

\* A step after the connection's end brings nothing back.
LEMMA EndedNext ==
  ASSUME PageTypes, Ended, [Next]_vars
  PROVE Ended'
<1> USE DEF queueVars, callVars, workVars
<1>1. CASE UNCHANGED vars
  BY <1>1 DEF vars, Ended
<1>2. ASSUME NEW k \in Invocations, Invoke(k) PROVE Ended'
  BY <1>2 DEF Invoke, IdLeft, Ended, Without
<1>3. ASSUME NEW i \in Ids, Cancel(i) PROVE Ended'
  BY <1>3 DEF Cancel, Settle, Ended, Without
<1>4. ASSUME NEW i \in Ids, Complete(i) PROVE Ended'
  BY <1>4 DEF Complete, Settle, Ended, Without
<1>5. ASSUME NEW h \in HostIds, Refuse(h) PROVE Ended'
  BY <1>5 DEF Refuse, Ended, Without
<1>6. ASSUME NEW h \in HostIds, RunHandler(h) PROVE Ended'
  BY <1>6 DEF RunHandler, Ended, Without
<1>7. ASSUME NEW h \in HostIds, Deliver(h) PROVE Ended'
  BY <1>7 DEF Deliver, Ended, Without
<1>8. ASSUME NEW h \in HostIds, CallbackEnds(h) PROVE Ended'
  BY <1>8 DEF CallbackEnds, Ended, Without
<1>9. ASSUME NEW h \in HostIds, HandlerReturns(h) PROVE Ended'
  BY <1>9 DEF HandlerReturns, Ended, Without
<1>10. ASSUME NEW h \in HostIds, HandlerFails(h) PROVE Ended'
  BY <1>10 DEF HandlerFails, Finally, Ended, Without
<1>11. ASSUME NEW h \in HostIds, HandlerEndsLate(h) PROVE Ended'
  BY <1>11 DEF HandlerEndsLate, Finally, Ended, Without
<1>12. ASSUME NEW h \in HostIds, CancelIncoming(h) PROVE Ended'
  BY <1>12 DEF CancelIncoming, Withdraw, Ended, Without
<1>13. ASSUME NEW h \in HostIds, Timeout(h) PROVE Ended'
  BY <1>13 DEF Timeout, Withdraw, Ended, Without
<1>14. CASE PumpDue /\ Post(Head(entries))
  BY <1>14 DEF Post, Ended, Without
<1>15. CASE PumpDue /\ DropDead(Head(entries))
  BY <1>15 DEF DropDead, Shift, Finally, Ended, PumpDue
<1>16. CASE PumpDue /\ DropCall(Head(entries))
  BY <1>16 DEF DropCall, Shift, Settle, Ended, PumpDue
<1>17. ASSUME NEW b \in BOOLEAN, PumpDue, DropResult(Head(entries), b) PROVE Ended'
  BY <1>17 DEF DropResult, Finally, Ended, PumpDue
<1>18. CASE FailDoomed \/ Fail \/ PostBroken
  BY <1>18 DEF FailDoomed, Fail, PostBroken, FailWith, Ended, Without
<1>19. CASE PostOk
  BY <1>19 DEF PostOk, Finally, Ended, Without
<1>20. CASE PostRefused
  BY <1>20 DEF PostRefused, Settle, Finally, Ended, Without
<1>21. CASE PostEnds
  BY <1>21 DEF PostEnds, Ended, Without
<1> QED
  BY <1>1, <1>2, <1>3, <1>4, <1>5, <1>6, <1>7, <1>8, <1>9, <1>10, <1>11, <1>12,
     <1>13, <1>14, <1>15, <1>16, <1>17, <1>18, <1>19, <1>20, <1>21
  DEF Next, CallStep, WorkStep, Pump

\* Credits come and go with the calls and invocations they are for.
LEMMA CreditedNext ==
  ASSUME PageTypes, Credited, [Next]_vars
  PROVE Credited'
<1> USE DEF queueVars, callVars, workVars
<1>0. /\ nextId \in Int /\ lastIncoming \in Int /\ Ids \subseteq Int /\ HostIds \subseteq Int
      /\ controls \in Int /\ reserved \in Int /\ data \in Int /\ ControlFrames \in Int
  BY PageAssumption DEF PageTypes, Ids, HostIds
<1>1. CASE UNCHANGED vars
  BY <1>1 DEF vars, Credited, CallCredit, WorkCredit
<1>2. ASSUME NEW k \in Invocations, Invoke(k) PROVE Credited'
  <2>1. ASSUME NEW g \in HostIds PROVE WorkCredit(g)'
    BY <1>2, <2>1 DEF Invoke, IdLeft, Credited, WorkCredit
  <2>2. ASSUME NEW i \in Ids, i # nextId PROVE CallCredit(i)'
    BY <1>2, <2>2, <1>0 DEF Invoke, IdLeft, Credited, CallCredit, PageTypes
  <2>3. ASSUME NEW i \in Ids, i = nextId PROVE CallCredit(i)'
    <3>1. i \notin pending /\ i \notin sent /\ <<"call", i>> \notin held
      BY <1>0, <2>3 DEF Credited, CallCredit
    <3>2. kind'[i] = k /\ nextId' = i + 1 /\ UNCHANGED sent
      BY <1>2, <2>3 DEF Invoke, IdLeft, PageTypes
    <3>3. \/ UNCHANGED <<pending, held>>
          \/ k = "request" => <<"call", i>> \in held'
      BY <1>2, <2>3 DEF Invoke, IdLeft
    <3> QED BY <3>1, <3>2, <3>3, <1>0 DEF CallCredit
  <2> QED BY <2>1, <2>2, <2>3 DEF Credited
<1>3. ASSUME NEW i \in Ids, Cancel(i) PROVE Credited'
  BY <1>3 DEF Cancel, Settle, Credited, CallCredit, WorkCredit
<1>4. ASSUME NEW i \in Ids, Complete(i) PROVE Credited'
  BY <1>4 DEF Complete, Settle, Credited, CallCredit, WorkCredit
<1>5. ASSUME NEW h \in HostIds, Refuse(h) PROVE Credited'
  BY <1>5, <1>0 DEF Refuse, Credited, CallCredit, WorkCredit, Fresh
<1>6. ASSUME NEW h \in HostIds, RunHandler(h) PROVE Credited'
  <2>1. ASSUME NEW i \in Ids PROVE CallCredit(i)'
    BY <1>6, <2>1 DEF RunHandler, Credited, CallCredit
  <2>2. ASSUME NEW g \in HostIds PROVE WorkCredit(g)'
    BY <1>6, <2>2, <1>0 DEF RunHandler, Credited, WorkCredit, Fresh
  <2> QED BY <2>1, <2>2 DEF Credited
<1>7. ASSUME NEW h \in HostIds, Deliver(h) PROVE Credited'
  BY <1>7, <1>0 DEF Deliver, Credited, CallCredit, WorkCredit, Fresh
<1>8. ASSUME NEW h \in HostIds, CallbackEnds(h) PROVE Credited'
  BY <1>8 DEF CallbackEnds, Credited, CallCredit, WorkCredit
<1>9. ASSUME NEW h \in HostIds, HandlerReturns(h) PROVE Credited'
  BY <1>9 DEF HandlerReturns, Credited, CallCredit, WorkCredit
<1>10. ASSUME NEW h \in HostIds, HandlerFails(h) PROVE Credited'
  BY <1>10 DEF HandlerFails, Finally, Credited, CallCredit, WorkCredit
<1>11. ASSUME NEW h \in HostIds, HandlerEndsLate(h) PROVE Credited'
  BY <1>11 DEF HandlerEndsLate, Finally, Credited, CallCredit, WorkCredit
<1>12. ASSUME NEW h \in HostIds, CancelIncoming(h) PROVE Credited'
  BY <1>12 DEF CancelIncoming, Withdraw, Credited, CallCredit, WorkCredit
<1>13. ASSUME NEW h \in HostIds, Timeout(h) PROVE Credited'
  BY <1>13 DEF Timeout, Withdraw, Credited, CallCredit, WorkCredit
<1>14. CASE PumpDue /\ Post(Head(entries))
  BY <1>14, <1>0 DEF Post, Credited, CallCredit, WorkCredit, Dead
<1>15. CASE PumpDue /\ DropDead(Head(entries))
  BY <1>15 DEF DropDead, Shift, Finally, Credited, CallCredit, WorkCredit
<1>16. CASE PumpDue /\ DropCall(Head(entries))
  BY <1>16 DEF DropCall, Shift, Settle, Credited, CallCredit, WorkCredit
<1>17. ASSUME NEW b \in BOOLEAN, PumpDue, DropResult(Head(entries), b) PROVE Credited'
  BY <1>17 DEF DropResult, Finally, Credited, CallCredit, WorkCredit
<1>18. CASE FailDoomed \/ Fail \/ PostBroken
  BY <1>18 DEF FailDoomed, Fail, PostBroken, FailWith, Credited, CallCredit, WorkCredit
<1>19. CASE PostOk
  BY <1>19 DEF PostOk, Finally, Credited, CallCredit, WorkCredit
<1>20. CASE PostRefused
  BY <1>20 DEF PostRefused, Settle, Finally, Credited, CallCredit, WorkCredit
<1>21. CASE PostEnds
  BY <1>21 DEF PostEnds, Credited, CallCredit, WorkCredit
<1> QED
  BY <1>1, <1>2, <1>3, <1>4, <1>5, <1>6, <1>7, <1>8, <1>9, <1>10, <1>11, <1>12,
     <1>13, <1>14, <1>15, <1>16, <1>17, <1>18, <1>19, <1>20, <1>21
  DEF Next, CallStep, WorkStep, Pump

\* A completion takes the slot its credit gives back, so it always finds one.
LEMMA FitsNext ==
  ASSUME PageTypes, Credited, Fits, [Next]_vars
  PROVE Fits'
<1> USE DEF queueVars, callVars, workVars
<1>0. /\ nextId \in Int /\ lastIncoming \in Int /\ Ids \subseteq Int /\ HostIds \subseteq Int
      /\ controls \in Int /\ reserved \in Int /\ data \in Int /\ ControlFrames \in Int
  BY PageAssumption DEF PageTypes, Ids, HostIds
<1>1. CASE UNCHANGED vars
  BY <1>1, <1>0 DEF vars, Fits, CompletionFits, Without
<1>2. ASSUME NEW k \in Invocations, Invoke(k) PROVE Fits'
  BY <1>2, <1>0 DEF Invoke, IdLeft, Fits, CompletionFits, CanReserve
<1>3. ASSUME NEW i \in Ids, Cancel(i) PROVE Fits'
  BY <1>3, <1>0 DEF Cancel, Settle, Fits, CompletionFits, SendControl, Without, Credited, CallCredit
<1>4. ASSUME NEW i \in Ids, Complete(i) PROVE Fits'
  BY <1>4, <1>0 DEF Complete, Settle, Fits, CompletionFits, Without
<1>5. ASSUME NEW h \in HostIds, Refuse(h) PROVE Fits'
  BY <1>5, <1>0 DEF Refuse, Fits, CompletionFits, SendControl, Without, SendError
<1>6. ASSUME NEW h \in HostIds, RunHandler(h) PROVE Fits'
  BY <1>6, <1>0 DEF RunHandler, Fits, CompletionFits, SendControl, Without, CanReserve
<1>7. ASSUME NEW h \in HostIds, Deliver(h) PROVE Fits'
  BY <1>7, <1>0 DEF Deliver, Fits, CompletionFits, SendControl, Without, CanReserve
<1>8. ASSUME NEW h \in HostIds, CallbackEnds(h) PROVE Fits'
  BY <1>8, <1>0 DEF CallbackEnds, Fits, CompletionFits, Without
<1>9. ASSUME NEW h \in HostIds, HandlerReturns(h) PROVE Fits'
  BY <1>9, <1>0 DEF HandlerReturns, Fits, CompletionFits, Without
<1>10. ASSUME NEW h \in HostIds, HandlerFails(h) PROVE Fits'
  BY <1>10, <1>0 DEF HandlerFails, Finally, Fits, CompletionFits, SendControl, Without, SendError, Credited, WorkCredit
<1>11. ASSUME NEW h \in HostIds, HandlerEndsLate(h) PROVE Fits'
  BY <1>11, <1>0 DEF HandlerEndsLate, Finally, Fits, CompletionFits, Without
<1>12. ASSUME NEW h \in HostIds, CancelIncoming(h) PROVE Fits'
  BY <1>12, <1>0 DEF CancelIncoming, Withdraw, Fits, CompletionFits, Without
<1>13. ASSUME NEW h \in HostIds, Timeout(h) PROVE Fits'
  BY <1>13, <1>0 DEF Timeout, Withdraw, Fits, CompletionFits, SendControl, Without, SendError, Credited, WorkCredit
<1>14. CASE PumpDue /\ Post(Head(entries))
  BY <1>14, <1>0 DEF Post, Fits, CompletionFits, Without
<1>15. CASE PumpDue /\ DropDead(Head(entries))
  BY <1>15, <1>0 DEF DropDead, Shift, Finally, Fits, CompletionFits, Without
<1>16. CASE PumpDue /\ DropCall(Head(entries))
  BY <1>16, <1>0 DEF DropCall, Shift, Settle, Fits, CompletionFits, Without
<1>17. ASSUME NEW b \in BOOLEAN, PumpDue, DropResult(Head(entries), b) PROVE Fits'
  <2> DEFINE h == Head(entries).id
  <2>1. h \in HostIds /\ h \in incoming
    BY <1>17 DEF DropResult, Finally, Dead, PageTypes
  <2>2. Without(<<"work", h>>) = reserved - 1
    BY <2>1 DEF Without, Credited, WorkCredit
  <2> QED BY <1>17, <2>2, <1>0 DEF DropResult, Fits, CompletionFits
<1>18. CASE FailDoomed \/ Fail \/ PostBroken
  BY <1>18, PageAssumption DEF FailDoomed, Fail, PostBroken, FailWith, Fits, CompletionFits
<1>19. CASE PostOk
  BY <1>19, <1>0 DEF PostOk, Finally, Fits, CompletionFits, Without
<1>20. CASE PostRefused
  BY <1>20, <1>0 DEF PostRefused, Settle, Finally, Fits, CompletionFits, Without
<1>21. CASE PostEnds
  BY <1>21, <1>0 DEF PostEnds, Fits, CompletionFits, Without
<1> QED
  BY <1>1, <1>2, <1>3, <1>4, <1>5, <1>6, <1>7, <1>8, <1>9, <1>10, <1>11, <1>12,
     <1>13, <1>14, <1>15, <1>16, <1>17, <1>18, <1>19, <1>20, <1>21
  DEF Next, CallStep, WorkStep, Pump

\* The answer of an open invocation closes it; no other is answered.
LEMMA OnceAnswered ==
  ASSUME PageTypes, Once, UNCHANGED lastIncoming, incoming' \subseteq incoming,
         \A g \in HostIds : work[g] = "none" => work'[g] = "none",
         \/ UNCHANGED answers
         \/ \E h \in HostIds : Answer(h) /\ h \in incoming /\ h \notin incoming'
  PROVE Once'
<1> SUFFICES ASSUME NEW g \in HostIds PROVE AtMostOnce(g)'
  BY DEF Once
<1>1. AtMostOnce(g) /\ answers[g] \in Nat
  BY DEF Once, PageTypes
<1>2. CASE answers'[g] = answers[g]
  BY <1>1, <1>2 DEF AtMostOnce
<1>3. CASE answers'[g] # answers[g]
  <2>1. g \in incoming /\ g \notin incoming' /\ answers'[g] = answers[g] + 1
    BY <1>3 DEF Answer, PageTypes
  <2>2. lastIncoming \in Int /\ g \in Int
    BY DEF PageTypes, HostIds
  <2> QED BY <1>1, <2>1, <2>2 DEF AtMostOnce
<1> QED BY <1>2, <1>3

\* An invocation comes once, and is answered at once or not at all.
LEMMA OnceArrived ==
  ASSUME PageTypes, Once, NEW h \in HostIds, Fresh(h), lastIncoming' = h,
         \A g \in HostIds : work'[g] # work[g] => g = h,
         \/ Answer(h) /\ UNCHANGED incoming
         \/ UNCHANGED answers /\ incoming' = incoming \cup {h}
  PROVE Once'
<1> SUFFICES ASSUME NEW g \in HostIds PROVE AtMostOnce(g)'
  BY DEF Once
<1>1. /\ AtMostOnce(g) /\ AtMostOnce(h) /\ answers[g] \in Nat /\ lastIncoming < h
      /\ lastIncoming \in Int /\ g \in Int /\ h \in Int
  BY DEF Once, PageTypes, Fresh, HostIds
<1>2. CASE g = h
  BY <1>1, <1>2 DEF AtMostOnce, Answer, PageTypes
<1>3. CASE g # h
  <2>1. answers'[g] = answers[g] /\ work'[g] = work[g]
    BY <1>3 DEF Answer, PageTypes
  <2> QED BY <1>1, <1>3, <2>1 DEF AtMostOnce
<1> QED BY <1>2, <1>3

\* Handler, timer and pump answer an open invocation only, and close it.
LEMMA OnceNext ==
  ASSUME PageTypes, Once, Results, [Next]_vars
  PROVE Once'
<1> USE DEF queueVars, callVars, workVars
<1>0. UNCHANGED <<lastIncoming, incoming, work, answers>> => Once'
  BY OnceAnswered
<1>a. PumpDue => ~failure /\ entries # <<>> /\ Head(entries) = entries[1] /\ 1 \in DOMAIN entries
  BY DEF PumpDue, PageTypes
<1>1. CASE UNCHANGED vars
  BY <1>1, <1>0 DEF vars
<1>2. ASSUME NEW k \in Invocations, Invoke(k) PROVE Once'
  BY <1>2, <1>0 DEF Invoke, IdLeft
<1>3. ASSUME NEW i \in Ids, Cancel(i) PROVE Once'
  BY <1>3, <1>0 DEF Cancel, Settle
<1>4. ASSUME NEW i \in Ids, Complete(i) PROVE Once'
  BY <1>4, <1>0 DEF Complete, Settle
<1>5. ASSUME NEW h \in HostIds, Refuse(h) PROVE Once'
  BY <1>5, OnceArrived DEF Refuse, SendError, PageTypes
<1>6. ASSUME NEW h \in HostIds, RunHandler(h) PROVE Once'
  BY <1>6, OnceArrived DEF RunHandler, SendError, PageTypes
<1>7. ASSUME NEW h \in HostIds, Deliver(h) PROVE Once'
  BY <1>7, OnceArrived DEF Deliver, SendError, PageTypes
<1>8. ASSUME NEW h \in HostIds, CallbackEnds(h) PROVE Once'
  BY <1>8, OnceAnswered DEF CallbackEnds, PageTypes
<1>9. ASSUME NEW h \in HostIds, HandlerReturns(h) PROVE Once'
  BY <1>9, OnceAnswered DEF HandlerReturns, PageTypes
<1>10. ASSUME NEW h \in HostIds, HandlerFails(h) PROVE Once'
  BY <1>10, OnceAnswered DEF HandlerFails, Finally, SendError, PageTypes
<1>11. ASSUME NEW h \in HostIds, HandlerEndsLate(h) PROVE Once'
  BY <1>11, OnceAnswered DEF HandlerEndsLate, Finally, PageTypes
<1>12. ASSUME NEW h \in HostIds, CancelIncoming(h) PROVE Once'
  BY <1>12, OnceAnswered DEF CancelIncoming, Withdraw
<1>13. ASSUME NEW h \in HostIds, Timeout(h) PROVE Once'
  BY <1>13, OnceAnswered DEF Timeout, Withdraw, SendError
<1>14. CASE PumpDue /\ Post(Head(entries))
  BY <1>14, <1>a, OnceAnswered DEF Post, PageTypes, Dead
<1>15. CASE PumpDue /\ DropDead(Head(entries))
  <2>1. work[Head(entries).id] # "none"
    BY <1>15, <1>a, QueueMoves DEF Results, Matched, IsResult, DropDead, Shift, Finally
  <2>2. /\ UNCHANGED lastIncoming /\ incoming' \subseteq incoming
        /\ \A g \in HostIds : work[g] = "none" => work'[g] = "none"
    BY <1>15, <2>1 DEF DropDead, Shift, Finally, PageTypes
  <2> QED BY <1>15, <2>2, OnceAnswered DEF DropDead
<1>16. CASE PumpDue /\ DropCall(Head(entries))
  BY <1>16, <1>0 DEF DropCall, Shift, Settle
<1>17. ASSUME NEW b \in BOOLEAN, PumpDue, DropResult(Head(entries), b) PROVE Once'
  <2>1. work[Head(entries).id] # "none"
    BY <1>17, <1>a, QueueMoves DEF Results, Matched, IsResult, DropResult, Finally
  <2>2. /\ UNCHANGED lastIncoming /\ incoming' \subseteq incoming
        /\ \A g \in HostIds : work[g] = "none" => work'[g] = "none"
    BY <1>17, <2>1 DEF DropResult, Finally, PageTypes
  <2> QED BY <1>17, <2>2, OnceAnswered DEF DropResult, Finally, PageTypes, Dead
<1>18. CASE FailDoomed \/ Fail \/ PostBroken
  BY <1>18, OnceAnswered DEF FailDoomed, Fail, PostBroken, FailWith, PageTypes
<1>19. CASE PostOk
  <2>1. CASE post.kind = "result"
    <3>1. InQueue # <<>> /\ InQueue[1] = post /\ 1 \in DOMAIN InQueue
      BY <1>19, QueueMoves DEF PostOk, Finally
    <3>2. work[post.id] # "none"
      BY <1>19, <2>1, <3>1 DEF Results, Matched, IsResult, PostOk, Finally
    <3> QED BY <1>19, <2>1, <3>2, OnceAnswered DEF PostOk, Finally, PageTypes
  <2>2. CASE post.kind # "result"
    BY <1>19, <2>2, <1>0 DEF PostOk, Finally
  <2> QED BY <2>1, <2>2
<1>20. CASE PostRefused
  <2>1. CASE post.kind = "result"
    <3>1. InQueue # <<>> /\ InQueue[1] = post /\ 1 \in DOMAIN InQueue
      BY <1>20, QueueMoves DEF PostRefused, Settle, Finally
    <3>2. work[post.id] # "none"
      BY <1>20, <2>1, <3>1 DEF Results, Matched, IsResult, PostRefused, Settle, Finally
    <3> QED BY <1>20, <2>1, <3>2, OnceAnswered DEF PostRefused, Settle, Finally, PageTypes
  <2>2. CASE post.kind # "result"
    BY <1>20, <2>2, <1>0 DEF PostRefused, Settle, Finally
  <2> QED BY <2>1, <2>2
<1>21. CASE PostEnds
  BY <1>21, <1>0 DEF PostEnds
<1> QED
  BY <1>1, <1>2, <1>3, <1>4, <1>5, <1>6, <1>7, <1>8, <1>9, <1>10, <1>11, <1>12,
     <1>13, <1>14, <1>15, <1>16, <1>17, <1>18, <1>19, <1>20, <1>21
  DEF Next, CallStep, WorkStep, Pump

LEMMA MatchedTail ==
  ASSUME NEW q \in Seq(Frame), q # <<>>, NEW w, NEW v, Matched(q, w),
         \A g \in HostIds : w[g] = "sending" =>
            v[g] = "sending" \/ (IsResult(Head(q)) /\ g = Head(q).id)
  PROVE Matched(Tail(q), v)
<1> DEFINE t == Tail(q)
<1>1. 1 \in 1 .. Len(q) /\ t \in Seq(Frame) /\ Head(q) = q[1] /\ Skips(t, q, 1)
  BY TailSkips
<1> HIDE DEF t
<1>2. \A g \in HostIds : w[g] = "sending" => v[g] = "sending" \/ (IsResult(q[1]) /\ g = q[1].id)
  BY <1>1
<1>3. Matched(t, v)
  BY <1>1, <1>2, MatchedSkips, SMTT(30)
<1> QED BY <1>3 DEF t

\* A control frame joins the queue or is refused.
LEMMA ControlJoins ==
  ASSUME PageTypes, NEW f \in Frame, NEW left, NEW credited, NEW why,
         SendControl(f, left, credited, why), post' = post
  PROVE InQueue' = InQueue \/ InQueue' = Append(InQueue, f)
BY QueueMoves DEF SendControl

\* remove takes an invocation out, or nothing.
LEMMA RemoveSkips ==
  ASSUME PageTypes, NEW i, Remove(i), post' = post
  PROVE \/ InQueue' = InQueue
        \/ \E k \in 1 .. Len(InQueue) : /\ IsCall(InQueue[k]) /\ InQueue' \in Seq(Frame)
                                        /\ Skips(InQueue', InQueue, k)
<1>1. CASE UNCHANGED <<entries, data, retained>>
  BY <1>1, QueueMoves
<1>2. ASSUME NEW n \in Places(i), entries' = Splice(entries, n)
      PROVE \E k \in 1 .. Len(InQueue) : /\ IsCall(InQueue[k]) /\ InQueue' \in Seq(Frame)
                                         /\ Skips(InQueue', InQueue, k)
  <2>1. n \in DOMAIN entries /\ IsCall(entries[n])
    BY DEF Places, IsCall
  <2> QED BY <1>2, <2>1, QueueSplice
<1> QED BY <1>1, <1>2 DEF Remove

\* A frame that is no result, and a step of no sender, keep the results matched.
LEMMA ResultsKept ==
  ASSUME PageTypes, Results, ~failure,
         \A g \in HostIds : work[g] = "sending" => work'[g] = "sending",
         \/ InQueue' = InQueue
         \/ \E f \in Frame : ~IsResult(f) /\ InQueue' = Append(InQueue, f)
         \/ \E k \in 1 .. Len(InQueue) : InQueue' \in Seq(Frame) /\ Skips(InQueue', InQueue, k)
  PROVE Results'
<1>1. InQueue \in Seq(Frame) /\ Matched(InQueue, work)
  BY QueueMoves DEF Results
<1>2. CASE InQueue' = InQueue
  BY <1>1, <1>2 DEF Matched, Results
<1>3. ASSUME NEW f \in Frame, ~IsResult(f), InQueue' = Append(InQueue, f) PROVE Results'
  BY <1>1, <1>3, MatchedAppend DEF Results
<1>4. ASSUME NEW k \in 1 .. Len(InQueue), InQueue' \in Seq(Frame), Skips(InQueue', InQueue, k)
      PROVE Results'
  <2>1. \A g \in HostIds : work[g] = "sending" =>
          work'[g] = "sending" \/ (IsResult(InQueue[k]) /\ g = InQueue[k].id)
    OBVIOUS
  <2>2. Matched(InQueue', work')
    BY <1>1, <1>4, <2>1, MatchedSkips, SMTT(30)
  <2> QED BY <2>2 DEF Results
<1> QED BY <1>2, <1>3, <1>4

\* The sender whose result leaves the queue ends with it.
LEMMA ResultLeaves ==
  ASSUME PageTypes, Results, ~failure, InQueue # <<>>, InQueue' = Tail(InQueue),
         \A g \in HostIds : work[g] = "sending" =>
            work'[g] = "sending" \/ (IsResult(Head(InQueue)) /\ g = Head(InQueue).id)
  PROVE Results'
<1>1. InQueue \in Seq(Frame) /\ Matched(InQueue, work)
  BY QueueMoves DEF Results
<1>2. Matched(Tail(InQueue), work')
  BY <1>1, MatchedTail
<1> QED BY <1>2 DEF Results

\* A result is queued by one handler, which waits for it alone.
LEMMA ResultsNext ==
  ASSUME PageTypes, Ended, Once, Results, [Next]_vars
  PROVE Results'
<1> USE DEF queueVars, callVars, workVars
<1>0. \A i \in Ids \cup HostIds, k \in Controls : [kind |-> k, id |-> i] \in Frame /\ ~IsResult([kind |-> k, id |-> i])
  BY DEF Frame, Ids, HostIds, IsResult, Controls
<1>a. failure' = failure /\ InQueue' = InQueue /\ work' = work => Results'
  BY DEF Results, Matched
<1>b. failure => InQueue = IF post = NoFrame THEN <<>> ELSE <<post>>
  BY DEF Ended, InQueue
<1>c. failure /\ failure' => Results'
  BY DEF Results
<1>d. UNCHANGED <<entries, post>> => InQueue' = InQueue
  BY QueueMoves
<1>1. CASE UNCHANGED vars
  BY <1>1, <1>d, <1>a DEF vars
<1>2. ASSUME NEW k \in Invocations, Invoke(k) PROVE Results'
  <2> DEFINE f == [kind |-> k, id |-> nextId]
  <2>1. ~failure /\ f \in Frame /\ ~IsResult(f) /\ UNCHANGED work
    BY <1>2 DEF Invoke, IdLeft, Frame, PageTypes, IsResult, Invocations
  <2> HIDE DEF f
  <2>2. InQueue' = InQueue \/ InQueue' = Append(InQueue, f)
    BY <1>2, <2>1, QueueMoves DEF Invoke, IdLeft, f
  <2> QED BY <2>1, <2>2, ResultsKept
<1>3. ASSUME NEW i \in Ids, Cancel(i) PROVE Results'
  <2>1. ~failure /\ post' = post /\ UNCHANGED <<failure, work>>
    BY <1>3 DEF Cancel, Settle, Ended
  <2> DEFINE f == [kind |-> "cancel", id |-> i]
  <2>2. f \in Frame /\ ~IsResult(f)
    BY <1>0 DEF Controls
  <2> HIDE DEF f
  <2>3. CASE SendControl(f, Without(<<"call", i>>), FALSE, "completion")
    BY <2>1, <2>2, <2>3, ControlJoins, ResultsKept
  <2>4. CASE Remove(i)
    BY <2>1, <2>4, RemoveSkips, ResultsKept
  <2> QED BY <1>3, <2>3, <2>4 DEF Cancel, f
<1>4. ASSUME NEW i \in Ids, Complete(i) PROVE Results'
  <2>1. ~failure /\ post' = post /\ UNCHANGED <<failure, work>> /\ Remove(i)
    BY <1>4 DEF Complete, Settle, Ended
  <2> QED BY <2>1, RemoveSkips, ResultsKept
<1>5. ASSUME NEW h \in HostIds, Refuse(h) PROVE Results'
  <2>1. ~failure /\ post' = post /\ UNCHANGED failure
    BY <1>5 DEF Refuse, PageTypes, Ended
  <2> DEFINE f == [kind |-> "error", id |-> h]
  <2>2. f \in Frame /\ ~IsResult(f)
    BY <1>0 DEF Controls
  <2> HIDE DEF f
  <2>3. InQueue' = InQueue \/ InQueue' = Append(InQueue, f)
    <3>1. SendControl(f, reserved, FALSE, "refusal")
      BY <1>5 DEF Refuse, SendError, f
    <3> QED BY <2>1, <2>2, <3>1, ControlJoins
  <2>4. \A g \in HostIds : work[g] = "sending" => work'[g] = "sending"
    BY <1>5 DEF Refuse, PageTypes
  <2> QED BY <2>1, <2>2, <2>3, <2>4, ResultsKept
<1>6. ASSUME NEW h \in HostIds, RunHandler(h) PROVE Results'
  BY <1>6, <1>d, ResultsKept DEF RunHandler, PageTypes, Once, AtMostOnce, Fresh
<1>7. ASSUME NEW h \in HostIds, Deliver(h) PROVE Results'
  <2>1. ~failure /\ post' = post /\ UNCHANGED failure
    BY <1>7 DEF Deliver, PageTypes, Ended
  <2> DEFINE f == [kind |-> "accept", id |-> h]
  <2>2. f \in Frame /\ ~IsResult(f)
    BY <1>0 DEF Controls
  <2> HIDE DEF f
  <2>3. InQueue' = InQueue \/ InQueue' = Append(InQueue, f)
    <3>1. SendControl(f, reserved, TRUE, "refusal")
      BY <1>7 DEF Deliver, SendError, f
    <3> QED BY <2>1, <2>2, <3>1, ControlJoins
  <2>4. \A g \in HostIds : work[g] = "sending" => work'[g] = "sending"
    BY <1>7 DEF Deliver, PageTypes, Once, AtMostOnce, Fresh
  <2> QED BY <2>1, <2>2, <2>3, <2>4, ResultsKept
<1>8. ASSUME NEW h \in HostIds, CallbackEnds(h) PROVE Results'
  BY <1>8, <1>c, <1>d, ResultsKept DEF CallbackEnds, PageTypes
<1>9. ASSUME NEW h \in HostIds, HandlerReturns(h) PROVE Results'
  <2> DEFINE f == [kind |-> "result", id |-> h]
  <2>1. ~failure /\ f \in Frame /\ f.id = h
    BY <1>9 DEF HandlerReturns, Frame, HostIds, Ended
  <2>2. InQueue' = Append(InQueue, f)
    BY <1>9, <2>1, QueueMoves DEF HandlerReturns
  <2>3. Matched(InQueue, work) /\ InQueue \in Seq(Frame)
    BY <2>1, QueueMoves DEF Results
  <2>4. /\ work[h] # "sending" /\ work'[h] = "sending"
        /\ \A g \in HostIds : work[g] = "sending" => work'[g] = "sending"
    BY <1>9 DEF HandlerReturns, PageTypes
  <2> HIDE DEF f
  <2>5. Matched(InQueue', work')
    BY <2>1, <2>2, <2>3, <2>4, MatchedAppend
  <2> QED BY <2>5 DEF Results
<1>10. ASSUME NEW h \in HostIds, HandlerFails(h) PROVE Results'
  <2>1. ~failure /\ post' = post /\ UNCHANGED failure
    BY <1>10 DEF HandlerFails, Finally, PageTypes, Ended
  <2> DEFINE f == [kind |-> "error", id |-> h]
  <2>2. f \in Frame /\ ~IsResult(f)
    BY <1>0 DEF Controls
  <2> HIDE DEF f
  <2>3. InQueue' = InQueue \/ InQueue' = Append(InQueue, f)
    <3>1. SendControl(f, Without(<<"work", h>>), TRUE, "completion")
      BY <1>10 DEF HandlerFails, Finally, SendError, f
    <3> QED BY <2>1, <2>2, <3>1, ControlJoins
  <2>4. \A g \in HostIds : work[g] = "sending" => work'[g] = "sending"
    BY <1>10 DEF HandlerFails, Finally, PageTypes
  <2> QED BY <2>1, <2>2, <2>3, <2>4, ResultsKept
<1>11. ASSUME NEW h \in HostIds, HandlerEndsLate(h) PROVE Results'
  BY <1>11, <1>c, <1>d, ResultsKept DEF HandlerEndsLate, Finally, PageTypes
<1>12. ASSUME NEW h \in HostIds, CancelIncoming(h) PROVE Results'
  BY <1>12, <1>d, <1>a DEF CancelIncoming, Withdraw
<1>13. ASSUME NEW h \in HostIds, Timeout(h) PROVE Results'
  <2>1. ~failure /\ post' = post /\ UNCHANGED failure
    BY <1>13 DEF Timeout, Withdraw, PageTypes, Ended
  <2> DEFINE f == [kind |-> "error", id |-> h]
  <2>2. f \in Frame /\ ~IsResult(f)
    BY <1>0 DEF Controls
  <2> HIDE DEF f
  <2>3. InQueue' = InQueue \/ InQueue' = Append(InQueue, f)
    <3>1. SendControl(f, Without(<<"work", h>>), FALSE, "completion")
      BY <1>13 DEF Timeout, Withdraw, SendError, f
    <3> QED BY <2>1, <2>2, <3>1, ControlJoins
  <2>4. \A g \in HostIds : work[g] = "sending" => work'[g] = "sending"
    BY <1>13 DEF Timeout, Withdraw, PageTypes
  <2> QED BY <2>1, <2>2, <2>3, <2>4, ResultsKept
<1>14. CASE PumpDue /\ Post(Head(entries))
  BY <1>14, <1>a, QueueMoves DEF Post
<1>15. CASE PumpDue /\ DropDead(Head(entries))
  <2>1. /\ ~failure /\ InQueue # <<>> /\ InQueue = entries /\ InQueue' = Tail(InQueue)
        /\ IsResult(Head(InQueue))
    BY <1>15, QueueMoves DEF DropDead, Shift, PumpDue, IsResult
  <2>2. \A g \in HostIds : work[g] = "sending" =>
          work'[g] = "sending" \/ (IsResult(Head(InQueue)) /\ g = Head(InQueue).id)
    BY <1>15, <2>1 DEF DropDead, Finally, PageTypes
  <2> QED BY <2>1, <2>2, ResultLeaves
<1>16. CASE PumpDue /\ DropCall(Head(entries))
  <2>1. ~failure /\ InQueue # <<>> /\ InQueue = entries /\ InQueue' = Tail(InQueue)
    BY <1>16, QueueMoves DEF DropCall, Shift, Settle, PumpDue
  <2>2. \A g \in HostIds : work[g] = "sending" =>
          work'[g] = "sending" \/ (IsResult(Head(InQueue)) /\ g = Head(InQueue).id)
    BY <1>16 DEF DropCall
  <2> QED BY <2>1, <2>2, ResultLeaves
<1>17. ASSUME NEW b \in BOOLEAN, PumpDue, DropResult(Head(entries), b) PROVE Results'
  <2> DEFINE h == Head(entries).id
             e == [kind |-> "error", id |-> h]
  <2>1. /\ ~failure /\ InQueue = entries /\ entries # <<>> /\ InQueue \in Seq(Frame)
        /\ IsResult(Head(entries)) /\ InQueue' = entries' /\ h \in HostIds
    BY <1>17, QueueMoves DEF DropResult, PumpDue, IsResult, Dead, PageTypes
  <2>2. e \in Frame /\ ~IsResult(e)
    BY <1>0, <2>1 DEF Controls
  <2>3. entries' = Tail(entries) \/ entries' = Append(Tail(entries), e)
    BY <1>17 DEF DropResult
  <2>4. \A g \in HostIds : work[g] = "sending" => work'[g] = "sending" \/ g = h
    BY <1>17 DEF DropResult, Finally, PageTypes
  <2>5. /\ 1 \in 1 .. Len(entries) /\ Tail(entries) \in Seq(Frame)
        /\ Head(entries) = entries[1] /\ Skips(Tail(entries), entries, 1)
    BY <2>1, TailSkips
  <2> HIDE DEF e
  <2>6. Matched(Tail(entries), work')
    <3>1. \A g \in HostIds : work[g] = "sending" =>
            work'[g] = "sending" \/ (IsResult(Head(entries)) /\ g = Head(entries).id)
      BY <2>1, <2>4
    <3>2. Matched(entries, work) /\ entries \in Seq(Frame)
      BY <2>1 DEF Results
    <3> QED BY <2>1, <3>1, <3>2, MatchedTail
  <2>7. Matched(Append(Tail(entries), e), work')
    BY <2>2, <2>5, <2>6, MatchedAppend
  <2> QED BY <2>1, <2>3, <2>6, <2>7 DEF Results
<1>18. CASE FailDoomed \/ Fail \/ PostBroken
  BY <1>18 DEF FailDoomed, Fail, PostBroken, FailWith, Results
<1>19. CASE PostOk
  <2>1. /\ ~failure /\ InQueue # <<>> /\ Head(InQueue) = post /\ InQueue' = Tail(InQueue)
    BY <1>19, QueueMoves DEF PostOk
  <2>2. ~IsResult(post) => work' = work
    BY <1>19 DEF PostOk, IsResult
  <2>3. IsResult(post) => work' = [work EXCEPT ![post.id] = "over"]
    BY <1>19 DEF PostOk, Finally, IsResult
  <2>4. \A g \in HostIds : work[g] = "sending" =>
          work'[g] = "sending" \/ (IsResult(Head(InQueue)) /\ g = Head(InQueue).id)
    BY <2>1, <2>2, <2>3 DEF PageTypes
  <2> QED BY <2>1, <2>4, ResultLeaves
<1>20. CASE PostRefused
  <2>1. /\ ~failure /\ InQueue # <<>> /\ Head(InQueue) = post /\ InQueue' = Tail(InQueue)
    BY <1>20, QueueMoves DEF PostRefused
  <2>2. ~IsResult(post) => work' = work
    BY <1>20 DEF PostRefused, IsResult
  <2>3. IsResult(post) => work' = [work EXCEPT ![post.id] = "over"]
    BY <1>20 DEF PostRefused, Finally, IsResult
  <2>4. \A g \in HostIds : work[g] = "sending" =>
          work'[g] = "sending" \/ (IsResult(Head(InQueue)) /\ g = Head(InQueue).id)
    BY <2>1, <2>2, <2>3 DEF PageTypes
  <2> QED BY <2>1, <2>4, ResultLeaves
<1>21. CASE PostEnds
  BY <1>21 DEF PostEnds, Results
<1> QED
  BY <1>1, <1>2, <1>3, <1>4, <1>5, <1>6, <1>7, <1>8, <1>9, <1>10, <1>11, <1>12,
     <1>13, <1>14, <1>15, <1>16, <1>17, <1>18, <1>19, <1>20, <1>21
  DEF Next, CallStep, WorkStep, Pump

\* A frame that leaves, and a control frame that joins
LEMMA InOrderSkips ==
  ASSUME NEW q \in Seq(Frame), NEW t \in Seq(Frame), NEW k \in 1 .. Len(q),
         Skips(t, q, k), InOrder(q)
  PROVE InOrder(t)
<1>1. DOMAIN t = 1 .. Len(q) - 1 /\ DOMAIN q = 1 .. Len(q)
  BY DEF Skips
<1> DEFINE at(n) == IF n < k THEN n ELSE n + 1
<1>2. \A n \in DOMAIN t : at(n) \in DOMAIN q /\ t[n] = q[at(n)]
  BY <1>1 DEF Skips
<1>3. \A m, n \in DOMAIN t : m < n => at(m) < at(n)
  BY <1>1
<1> HIDE DEF at
<1> QED BY <1>2, <1>3 DEF InOrder

LEMMA InOrderTail ==
  ASSUME NEW q \in Seq(Frame), q # <<>>, InOrder(q)
  PROVE InOrder(Tail(q)) /\ Issued(Head(q)) /\ Tail(q) \in Seq(Frame)
<1> DEFINE t == Tail(q)
<1>1. 1 \in 1 .. Len(q) /\ t \in Seq(Frame) /\ Head(q) = q[1] /\ Skips(t, q, 1)
  BY TailSkips
<1>2. Issued(q[1])
  BY DEF InOrder
<1> HIDE DEF t
<1> QED BY <1>1, <1>2, InOrderSkips DEF t

LEMMA InOrderAppend ==
  ASSUME NEW q \in Seq(Frame), NEW f \in Frame, InOrder(q), Issued(f), ~IsCall(f)
  PROVE InOrder(Append(q, f))
<1> DEFINE t == Append(q, f)
<1>1. /\ DOMAIN t = 1 .. Len(q) + 1 /\ t[Len(q) + 1] = f /\ DOMAIN q = 1 .. Len(q)
      /\ \A n \in 1 .. Len(q) : t[n] = q[n]
  OBVIOUS
<1> HIDE DEF t
<1> QED BY <1>1 DEF InOrder, t

\* A step that uses no id and sends nothing keeps what is ordered ordered.
LEMMA OrderKept ==
  ASSUME PageTypes, Order, UNCHANGED <<nextId, kind, sent>>,
         \/ entries' = entries
         \/ \E f \in Frame : Issued(f) /\ ~IsCall(f) /\ entries' = Append(entries, f)
         \/ entries # <<>> /\ entries' = Tail(entries)
         \/ entries # <<>> /\ \E f \in Frame : /\ Issued(f) /\ ~IsCall(f)
                                              /\ entries' = Append(Tail(entries), f)
         \/ \E i : Remove(i)
  PROVE Order'
<1>0. entries \in Seq(Frame) /\ InOrder(entries)
  BY DEF PageTypes, Order
<1>1. InOrder(entries')
  <2>1. CASE entries' = entries
    BY <1>0, <2>1
  <2>2. ASSUME NEW f \in Frame, Issued(f), ~IsCall(f), entries' = Append(entries, f)
        PROVE InOrder(entries')
    BY <1>0, <2>2, InOrderAppend
  <2>3. CASE entries # <<>> /\ entries' = Tail(entries)
    BY <1>0, <2>3, InOrderTail
  <2>4. ASSUME entries # <<>>, NEW f \in Frame, Issued(f), ~IsCall(f),
               entries' = Append(Tail(entries), f)
        PROVE InOrder(entries')
    <3>1. InOrder(Tail(entries)) /\ Tail(entries) \in Seq(Frame)
      BY <1>0, <2>4, InOrderTail
    <3> DEFINE t == Tail(entries)
    <3> HIDE DEF t
    <3>2. InOrder(Append(t, f))
      BY <3>1, <2>4, InOrderAppend DEF t
    <3> QED BY <2>4, <3>2 DEF t
  <2>5. ASSUME NEW i, NEW n \in Places(i), entries' = Splice(entries, n)
        PROVE InOrder(entries')
    <3>1. n \in 1 .. Len(entries)
      BY <1>0 DEF Places
    <3>2. entries' \in Seq(Frame) /\ Skips(entries', entries, n)
      BY <1>0, <2>5, <3>1, SpliceType
    <3> QED BY <1>0, <3>1, <3>2, InOrderSkips
  <2> QED BY <2>1, <2>2, <2>3, <2>4, <2>5 DEF Remove
<1> QED BY <1>1 DEF Order, InOrder, Issued

\* The next id is above everything queued and sent.
LEMMA InvokeOrder ==
  ASSUME PageTypes, Credited, Order, NEW k \in Invocations, Invoke(k)
  PROVE Order'
<1> USE DEF queueVars, callVars, workVars
<1>1. /\ entries \in Seq(Frame) /\ nextId \in Ids /\ nextId' = nextId + 1 /\ UNCHANGED sent
      /\ kind' = [kind EXCEPT ![nextId] = k] /\ sent \subseteq Ids /\ Ids \subseteq Int
      /\ kind \in [Ids -> Invocations \cup {"none"}]
  BY DEF PageTypes, Invoke, IdLeft, Ids
<1>2. PICK i \in Ids : i = nextId
  BY <1>1
<1>3. \A j \in sent : j < i
  BY <1>1, <1>2 DEF Credited, CallCredit
<1>4. kind'[i] = k /\ \A j \in Ids : j < i => kind'[j] = kind[j]
  BY <1>1, <1>2
<1>5. ASSUME NEW e \in Frame, Issued(e) PROVE Issued(e)'
  <2>1. IsCall(e) => e.id \in Ids /\ e.id < i /\ kind'[e.id] = e.kind
    BY <1>2, <1>4, <1>5 DEF Issued
  <2>2. e.kind = "cancel" => e.id \in sent /\ kind'[e.id] = "request"
    BY <1>1, <1>3, <1>4, <1>5 DEF Issued
  <2>3. i < nextId' /\ sent' = sent /\ (IsCall(e) => \A j \in sent : j < e.id)
    BY <1>1, <1>2, <1>5 DEF Issued
  <2>4. \A j \in Ids : j < i => j < nextId'
    BY <1>1, <1>2
  <2> QED BY <2>1, <2>2, <2>3, <2>4 DEF Issued, IsCall
<1> DEFINE f == [kind |-> k, id |-> i]
<1>6. f \in Frame /\ IsCall(f) /\ f.id = i /\ f.kind = k /\ k # "cancel"
  BY <1>2 DEF Frame, IsCall, Invocations, Ids
<1> HIDE DEF f
<1>7. Issued(f)'
  BY <1>1, <1>2, <1>3, <1>4, <1>6 DEF Issued, IsCall
<1>8. \A n \in DOMAIN entries : /\ entries[n] \in Frame /\ Issued(entries[n])
                                /\ IsCall(entries[n]) => entries[n].id < i
  BY <1>1, <1>2 DEF Order, InOrder, Issued
<1>9. CASE entries' = entries
  BY <1>5, <1>8, <1>9 DEF Order, InOrder
<1>10. CASE entries' = Append(entries, f)
  <2>1. /\ DOMAIN entries' = 1 .. Len(entries) + 1 /\ entries'[Len(entries) + 1] = f
        /\ DOMAIN entries = 1 .. Len(entries)
        /\ \A n \in 1 .. Len(entries) : entries'[n] = entries[n]
    BY <1>1, <1>10
  <2>2. ASSUME NEW n \in DOMAIN entries' PROVE Issued(entries[n])'
    BY <1>5, <1>7, <1>8, <2>1
  <2>3. ASSUME NEW m \in DOMAIN entries', NEW n \in DOMAIN entries', m < n,
               IsCall(entries'[m]), IsCall(entries'[n])
        PROVE entries'[m].id < entries'[n].id
    <3>1. CASE n = Len(entries) + 1
      BY <1>6, <1>8, <2>1, <2>3, <3>1
    <3>2. CASE n # Len(entries) + 1
      BY <2>1, <2>3, <3>2 DEF Order, InOrder
    <3> QED BY <3>1, <3>2
  <2> QED BY <2>2, <2>3 DEF Order, InOrder, IsCall
<1> QED BY <1>2, <1>9, <1>10 DEF Invoke, f

\* The pump posts the head of the queue: an invocation above all that were
\* sent, or a CANCEL of one that was.
LEMMA PostInOrder ==
  ASSUME PageTypes, Credited, Order, OnWire, WireCalls, PumpDue, Post(Head(entries))
  PROVE Order' /\ OnWire' /\ WireCalls'
<1> DEFINE f == Head(entries)
<1>1. /\ entries \in Seq(Frame) /\ entries # <<>> /\ entries' = Tail(entries)
      /\ f \in Frame /\ wire \in Seq(Frame) /\ UNCHANGED <<nextId, kind>>
      /\ sent \subseteq Ids /\ Ids \subseteq Int
  BY DEF PageTypes, PumpDue, Post, callVars, Ids
<1>2. /\ 1 \in 1 .. Len(entries) /\ Tail(entries) \in Seq(Frame) /\ f = entries[1]
      /\ Skips(Tail(entries), entries, 1)
  BY <1>1, TailSkips
<1>3. /\ IsCall(f) => sent' = sent \cup {f.id}
      /\ ~IsCall(f) => sent' = sent
      /\ IsCall(f) \/ f.kind = "cancel" => wire' = Append(wire, f)
      /\ ~IsCall(f) /\ f.kind # "cancel" => wire' = wire
  BY DEF Post, IsCall
<1>4. /\ Issued(f) /\ InOrder(Tail(entries))
      /\ \A n \in 2 .. Len(entries) :
           IsCall(f) /\ IsCall(entries[n]) => f.id < entries[n].id
  <2>1. Issued(f) /\ InOrder(Tail(entries))
    BY <1>1, InOrderTail DEF Order
  <2>2. \A n \in 2 .. Len(entries) :
          IsCall(f) /\ IsCall(entries[n]) => f.id < entries[n].id
    BY <1>1, <1>2 DEF Order, InOrder
  <2> QED BY <2>1, <2>2
<1> HIDE DEF f
<1>5. Order'
  <2>1. ASSUME NEW n \in DOMAIN entries' PROVE Issued(entries[n])'
    <3>1. /\ entries'[n] = entries[n + 1] /\ n + 1 \in 2 .. Len(entries)
          /\ Issued(entries'[n]) /\ entries'[n] \in Frame
      BY <1>1, <1>2, <1>4, SMTT(30) DEF Skips, InOrder
    <3>2. IsCall(entries'[n]) => \A j \in sent' : j < entries'[n].id
      BY <1>3, <1>4, <3>1 DEF Issued
    <3>3. sent \subseteq sent'
      BY <1>3
    <3> DEFINE e == entries'[n]
    <3> HIDE DEF e
    <3>4. /\ IsCall(e) => e.id \in Ids /\ e.id < nextId' /\ kind'[e.id] = e.kind
          /\ e.kind = "cancel" => e.id \in sent' /\ kind'[e.id] = "request"
      BY <1>1, <3>1, <3>3 DEF Issued, e
    <3> QED BY <3>2, <3>4 DEF Issued, IsCall, e
  <2>2. \A m, n \in DOMAIN entries' :
          m < n /\ IsCall(entries'[m]) /\ IsCall(entries'[n]) => entries'[m].id < entries'[n].id
    BY <1>1, <1>4 DEF InOrder
  <2> QED BY <2>1, <2>2 DEF Order, InOrder, IsCall
<1>6. CASE ~IsCall(f) /\ f.kind # "cancel"
  <2>1. UNCHANGED <<wire, sent, kind>>
    BY <1>1, <1>3, <1>6
  <2> QED BY <1>5, <2>1 DEF OnWire, WireCalls, IsCall
<1>7. CASE IsCall(f) \/ f.kind = "cancel"
  <2>1. /\ DOMAIN wire' = 1 .. Len(wire) + 1 /\ wire'[Len(wire) + 1] = f
        /\ DOMAIN wire = 1 .. Len(wire) /\ Len(wire) \in Nat
        /\ \A n \in 1 .. Len(wire) : wire'[n] = wire[n]
    BY <1>1, <1>3, <1>7
  <2>2. f.kind = "cancel" => ~IsCall(f)
    BY DEF IsCall, Invocations
  <2>3. OnWire'
    <3>1. ASSUME NEW n \in DOMAIN wire', IsCall(wire'[n]) PROVE wire'[n].id \in sent'
      BY <1>3, <2>1, <3>1 DEF OnWire
    <3>2. ASSUME NEW i \in sent', kind'[i] = "request"
          PROVE \E l \in DOMAIN wire' : wire'[l] = [kind |-> "request", id |-> i]
      <4>1. CASE i \in sent
        <5>1. PICK l \in DOMAIN wire : wire[l] = [kind |-> "request", id |-> i]
          BY <1>1, <3>2, <4>1 DEF OnWire
        <5> QED BY <2>1, <5>1
      <4>2. CASE i \notin sent
        <5>1. IsCall(f) /\ i = f.id
          BY <1>3, <3>2, <4>2
        <5>2. f.kind = "request"
          BY <1>1, <1>4, <3>2, <5>1 DEF Issued
        <5>3. f = [kind |-> "request", id |-> i]
          BY <1>1, <5>1, <5>2 DEF Frame
        <5> QED BY <2>1, <5>3
      <4> QED BY <4>1, <4>2
    <3> QED BY <3>1, <3>2 DEF OnWire, IsCall
  <2>4. ASSUME NEW m \in DOMAIN wire', NEW n \in DOMAIN wire', m < n,
               IsCall(wire'[m]), IsCall(wire'[n])
        PROVE wire'[m].id < wire'[n].id
    <3>1. CASE n = Len(wire) + 1
      <4>1. wire[m].id \in sent /\ m \in 1 .. Len(wire) /\ wire'[m] = wire[m]
        BY <2>1, <2>4, <3>1 DEF OnWire
      <4> QED BY <1>4, <2>1, <2>4, <3>1, <4>1 DEF Issued
    <3>2. CASE n # Len(wire) + 1
      <4>1. /\ m \in DOMAIN wire /\ n \in DOMAIN wire
            /\ wire'[m] = wire[m] /\ wire'[n] = wire[n]
        BY <2>1, <2>4, <3>2
      <4> QED BY <2>4, <4>1 DEF WireCalls
    <3> QED BY <3>1, <3>2
  <2>5. ASSUME NEW n \in DOMAIN wire', wire'[n].kind = "cancel"
        PROVE \E l \in 1 .. n - 1 : wire'[l] = [kind |-> "request", id |-> wire'[n].id]
    <3>1. CASE n = Len(wire) + 1
      <4>1. f.id \in sent /\ kind[f.id] = "request"
        BY <1>4, <2>1, <2>5, <3>1 DEF Issued
      <4>2. PICK l \in DOMAIN wire : wire[l] = [kind |-> "request", id |-> f.id]
        BY <4>1 DEF OnWire
      <4> QED BY <2>1, <3>1, <4>2
    <3>2. CASE n # Len(wire) + 1
      <4>1. n \in 1 .. Len(wire) /\ wire'[n] = wire[n]
        BY <2>1, <3>2
      <4>2. PICK l \in 1 .. n - 1 : wire[l] = [kind |-> "request", id |-> wire[n].id]
        BY <2>1, <2>5, <4>1 DEF WireCalls
      <4> QED BY <2>1, <4>1, <4>2
    <3> QED BY <3>1, <3>2
  <2>6. WireCalls'
    BY <2>4, <2>5 DEF WireCalls, IsCall
  <2> QED BY <1>5, <2>3, <2>6
<1> QED BY <1>6, <1>7

\* Whatever is withdrawn, times out or is dropped, the rest stays in order.
LEMMA OrderNext ==
  ASSUME PageTypes, Credited, Order, OnWire, WireCalls, [Next]_vars
  PROVE Order' /\ OnWire' /\ WireCalls'
<1> USE DEF queueVars, callVars, workVars
<1>0. \A i \in Ids \cup HostIds : /\ [kind |-> "error", id |-> i] \in Frame
                                 /\ [kind |-> "accept", id |-> i] \in Frame
                                 /\ [kind |-> "cancel", id |-> i] \in Frame
  BY DEF Frame, Controls, Ids, HostIds
<1>a. \A i : /\ Issued([kind |-> "error", id |-> i]) /\ ~IsCall([kind |-> "error", id |-> i])
             /\ Issued([kind |-> "accept", id |-> i]) /\ ~IsCall([kind |-> "accept", id |-> i])
             /\ ~IsCall([kind |-> "cancel", id |-> i])
  BY DEF Issued, IsCall, Invocations
<1>b. UNCHANGED <<wire, sent, kind>> => OnWire' /\ WireCalls'
  BY DEF OnWire, WireCalls, IsCall
<1>c. UNCHANGED <<nextId, kind, sent, entries, wire>> => Order' /\ OnWire' /\ WireCalls'
  BY <1>b, OrderKept
<1>1. CASE UNCHANGED vars
  BY <1>1, <1>c DEF vars
<1>2. ASSUME NEW k \in Invocations, Invoke(k) PROVE Order' /\ OnWire' /\ WireCalls'
  <2>1. Order'
    BY <1>2, InvokeOrder
  <2>2. UNCHANGED <<wire, sent>> /\ nextId \in Ids /\ kind' = [kind EXCEPT ![nextId] = k]
    BY <1>2 DEF Invoke, IdLeft, PageTypes, Ids
  <2>3. ASSUME NEW j \in sent PROVE kind'[j] = kind[j]
    <3>1. j \in Ids /\ j \in Int /\ nextId \in Int
      BY DEF PageTypes, Ids
    <3>2. CallCredit(j)
      BY <3>1 DEF Credited
    <3>3. j < nextId
      BY <3>2 DEF CallCredit
    <3>4. j # nextId
      BY <3>1, <3>3
    <3> QED BY <2>2, <3>1, <3>4 DEF PageTypes
  <2> QED BY <2>1, <2>2, <2>3 DEF OnWire, WireCalls, IsCall
<1>3. ASSUME NEW i \in Ids, Cancel(i) PROVE Order' /\ OnWire' /\ WireCalls'
  <2>1. UNCHANGED <<nextId, kind, sent, wire>>
    BY <1>3 DEF Cancel, Settle
  <2>2. CASE i \in sent /\ kind[i] = "request"
    <3> DEFINE f == [kind |-> "cancel", id |-> i]
    <3>1. f \in Frame /\ ~IsCall(f) /\ Issued(f)
      BY <1>0, <1>a, <2>2 DEF Issued, IsCall, Invocations
    <3> HIDE DEF f
    <3>2. entries' = entries \/ entries' = Append(entries, f)
      BY <1>3, <2>2 DEF Cancel, SendControl, f
    <3> QED BY <1>b, <2>1, <3>1, <3>2, OrderKept
  <2>3. CASE ~(i \in sent /\ kind[i] = "request")
    <3>1. Remove(i)
      BY <1>3, <2>3 DEF Cancel
    <3> QED BY <1>b, <2>1, <3>1, OrderKept
  <2> QED BY <2>2, <2>3
<1>4. ASSUME NEW i \in Ids, Complete(i) PROVE Order' /\ OnWire' /\ WireCalls'
  BY <1>4, <1>b, OrderKept DEF Complete, Settle
<1>5. ASSUME NEW h \in HostIds, Refuse(h) PROVE Order' /\ OnWire' /\ WireCalls'
  <2> DEFINE f == [kind |-> "error", id |-> h]
  <2>1. f \in Frame /\ Issued(f) /\ ~IsCall(f)
    BY <1>5, <1>0, <1>a DEF Issued
  <2> HIDE DEF f
  <2>2. UNCHANGED <<nextId, kind, sent, wire>> /\ SendControl(f, reserved, FALSE, "refusal")
    BY <1>5 DEF Refuse, SendError, f
  <2>3. entries' = entries \/ entries' = Append(entries, f)
    BY <2>2 DEF SendControl
  <2> QED BY <1>b, <2>1, <2>2, <2>3, OrderKept
<1>6. ASSUME NEW h \in HostIds, RunHandler(h) PROVE Order' /\ OnWire' /\ WireCalls'
  BY <1>6, <1>c DEF RunHandler
<1>7. ASSUME NEW h \in HostIds, Deliver(h) PROVE Order' /\ OnWire' /\ WireCalls'
  <2> DEFINE f == [kind |-> "accept", id |-> h]
  <2>1. f \in Frame /\ Issued(f) /\ ~IsCall(f)
    BY <1>7, <1>0, <1>a DEF Issued
  <2> HIDE DEF f
  <2>2. UNCHANGED <<nextId, kind, sent, wire>> /\ SendControl(f, reserved, TRUE, "refusal")
    BY <1>7 DEF Deliver, SendError, f
  <2>3. entries' = entries \/ entries' = Append(entries, f)
    BY <2>2 DEF SendControl
  <2> QED BY <1>b, <2>1, <2>2, <2>3, OrderKept
<1>8. ASSUME NEW h \in HostIds, CallbackEnds(h) PROVE Order' /\ OnWire' /\ WireCalls'
  BY <1>8, <1>c DEF CallbackEnds
<1>9. ASSUME NEW h \in HostIds, HandlerReturns(h) PROVE Order' /\ OnWire' /\ WireCalls'
  <2> DEFINE f == [kind |-> "result", id |-> h]
  <2>1. f \in Frame /\ Issued(f) /\ ~IsCall(f)
    BY DEF Issued, IsCall, Invocations, Frame, HostIds
  <2> HIDE DEF f
  <2>2. UNCHANGED <<nextId, kind, sent, wire>> /\ entries' = Append(entries, f)
    BY <1>9 DEF HandlerReturns, f
  <2> QED BY <1>b, <2>1, <2>2, OrderKept
<1>10. ASSUME NEW h \in HostIds, HandlerFails(h) PROVE Order' /\ OnWire' /\ WireCalls'
  <2> DEFINE f == [kind |-> "error", id |-> h]
  <2>1. f \in Frame /\ Issued(f) /\ ~IsCall(f)
    BY <1>10, <1>0, <1>a DEF Issued
  <2> HIDE DEF f
  <2>2. UNCHANGED <<nextId, kind, sent, wire>> /\ SendControl(f, Without(<<"work", h>>), TRUE, "completion")
    BY <1>10 DEF HandlerFails, Finally, SendError, f
  <2>3. entries' = entries \/ entries' = Append(entries, f)
    BY <2>2 DEF SendControl
  <2> QED BY <1>b, <2>1, <2>2, <2>3, OrderKept
<1>11. ASSUME NEW h \in HostIds, HandlerEndsLate(h) PROVE Order' /\ OnWire' /\ WireCalls'
  BY <1>11, <1>c DEF HandlerEndsLate, Finally
<1>12. ASSUME NEW h \in HostIds, CancelIncoming(h) PROVE Order' /\ OnWire' /\ WireCalls'
  BY <1>12, <1>c DEF CancelIncoming, Withdraw
<1>13. ASSUME NEW h \in HostIds, Timeout(h) PROVE Order' /\ OnWire' /\ WireCalls'
  <2> DEFINE f == [kind |-> "error", id |-> h]
  <2>1. f \in Frame /\ Issued(f) /\ ~IsCall(f)
    BY <1>13, <1>0, <1>a DEF Issued
  <2> HIDE DEF f
  <2>2. UNCHANGED <<nextId, kind, sent, wire>> /\ SendControl(f, Without(<<"work", h>>), FALSE, "completion")
    BY <1>13 DEF Timeout, Withdraw, SendError, f
  <2>3. entries' = entries \/ entries' = Append(entries, f)
    BY <2>2 DEF SendControl
  <2> QED BY <1>b, <2>1, <2>2, <2>3, OrderKept
<1>14. CASE PumpDue /\ Post(Head(entries))
  BY <1>14, PostInOrder
<1>15. CASE PumpDue /\ DropDead(Head(entries))
  BY <1>15, <1>b, OrderKept DEF DropDead, Shift, Finally, PumpDue
<1>16. CASE PumpDue /\ DropCall(Head(entries))
  BY <1>16, <1>b, OrderKept DEF DropCall, Shift, Settle, PumpDue
<1>17. ASSUME NEW b \in BOOLEAN, PumpDue, DropResult(Head(entries), b) PROVE Order' /\ OnWire' /\ WireCalls'
  <2> DEFINE f == [kind |-> "error", id |-> Head(entries).id]
  <2>1. f \in Frame /\ Issued(f) /\ ~IsCall(f) /\ entries # <<>>
    <3>1. Head(entries).id \in HostIds /\ entries # <<>>
      BY <1>17 DEF DropResult, Dead, PageTypes, PumpDue
    <3> QED BY <3>1, <1>0, <1>a
  <2>2. UNCHANGED <<nextId, kind, sent, wire>>
    BY <1>17 DEF DropResult
  <2>3. entries' = Tail(entries) \/ entries' = Append(Tail(entries), f)
    BY <1>17 DEF DropResult
  <2> HIDE DEF f
  <2> QED BY <1>b, <2>1, <2>2, <2>3, OrderKept
<1>18. CASE FailDoomed \/ Fail \/ PostBroken
  <2>1. entries' = <<>> /\ UNCHANGED <<kind, sent, wire>>
    BY <1>18 DEF FailDoomed, Fail, PostBroken, FailWith
  <2> QED BY <1>b, <2>1 DEF Order, InOrder
<1>19. CASE PostOk
  BY <1>19, <1>c DEF PostOk, Finally
<1>20. CASE PostRefused
  BY <1>20, <1>c DEF PostRefused, Settle, Finally
<1>21. CASE PostEnds
  BY <1>21, <1>c DEF PostEnds
<1> QED
  BY <1>1, <1>2, <1>3, <1>4, <1>5, <1>6, <1>7, <1>8, <1>9, <1>10, <1>11, <1>12,
     <1>13, <1>14, <1>15, <1>16, <1>17, <1>18, <1>19, <1>20, <1>21
  DEF Next, CallStep, WorkStep, Pump

\* There are finitely many credits.
LEMMA HeldFinite ==
  ASSUME PageTypes PROVE IsFiniteSet(held) /\ Cardinality(held) \in Nat
<1>1. IsFiniteSet(Ids) /\ IsFiniteSet(HostIds)
  BY FS_Interval, PageAssumption DEF Ids, HostIds
<1>2. IsFiniteSet(Ids \cup HostIds)
  BY <1>1, FS_Union
<1>3. IsFiniteSet({"call"} \cup {"work"})
  BY FS_Singleton, FS_Union
<1>4. IsFiniteSet(({"call"} \cup {"work"}) \X (Ids \cup HostIds))
  BY <1>2, <1>3, FS_Product
<1>5. held \in SUBSET (({"call"} \cup {"work"}) \X (Ids \cup HostIds))
  BY DEF PageTypes, Credits
<1>6. IsFiniteSet(held)
  BY <1>4, <1>5, FS_Subset
<1> QED BY <1>6, FS_CardinalityType

\* A credit is taken with a slot and given back with it.
LEMMA CreditMoves ==
  ASSUME PageTypes, Reserve, ~failure,
         \/ UNCHANGED <<held, reserved>>
         \/ \E c : held' = held \ {c} /\ reserved' = Without(c)
         \/ \E c : c \notin held /\ held' = held \cup {c} /\ reserved' = reserved + 1
  PROVE Reserve'
<1>1. IsFiniteSet(held) /\ Cardinality(held) \in Nat /\ reserved = Cardinality(held)
  BY HeldFinite DEF Reserve
<1>2. CASE UNCHANGED <<held, reserved>>
  BY <1>1, <1>2 DEF Reserve
<1>3. ASSUME NEW c, held' = held \ {c}, reserved' = Without(c) PROVE Reserve'
  <2>1. Cardinality(held') = IF c \in held THEN Cardinality(held) - 1 ELSE Cardinality(held)
    BY <1>1, <1>3, FS_RemoveElement
  <2> QED BY <1>1, <1>3, <2>1 DEF Reserve, Without
<1>4. ASSUME NEW c, c \notin held, held' = held \cup {c}, reserved' = reserved + 1
      PROVE Reserve'
  <2>1. Cardinality(held') = Cardinality(held) + 1
    BY <1>1, <1>4, FS_AddElement
  <2> QED BY <1>1, <1>4, <2>1 DEF Reserve
<1> QED BY <1>2, <1>3, <1>4

\* Every path that ends a call or an invocation gives its credit back once.
LEMMA ReserveNext ==
  ASSUME PageTypes, Ended, Credited, Reserve, [Next]_vars
  PROVE Reserve'
<1> USE DEF queueVars, callVars, workVars
<1>0. failure' => Reserve'
  BY DEF Reserve
<1>a. UNCHANGED <<failure, held, reserved>> => Reserve'
  BY DEF Reserve
<1>1. CASE UNCHANGED vars
  BY <1>1, <1>a DEF vars
<1>2. ASSUME NEW k \in Invocations, Invoke(k) PROVE Reserve'
  <2>1. <<"call", nextId>> \notin held /\ ~failure
    <3>1. nextId \in Ids /\ ~failure /\ nextId \in Int
      BY <1>2 DEF Invoke, IdLeft, PageTypes, Ids
    <3>2. CallCredit(nextId)
      BY <3>1 DEF Credited
    <3> QED BY <3>1, <3>2 DEF CallCredit
  <2> QED BY <1>2, <2>1, CreditMoves DEF Invoke
<1>3. ASSUME NEW i \in Ids, Cancel(i) PROVE Reserve'
  <2>1. ~failure /\ held' = held \ {<<"call", i>>} /\ reserved' = Without(<<"call", i>>)
    BY <1>3 DEF Cancel, Settle, Ended, SendControl, SendError
  <2> QED BY <2>1, CreditMoves
<1>4. ASSUME NEW i \in Ids, Complete(i) PROVE Reserve'
  <2>1. ~failure /\ held' = held \ {<<"call", i>>} /\ reserved' = Without(<<"call", i>>)
    BY <1>4 DEF Complete, Settle, Ended, SendControl, SendError
  <2> QED BY <2>1, CreditMoves
<1>5. ASSUME NEW h \in HostIds, Refuse(h) PROVE Reserve'
  BY <1>5, <1>a DEF Refuse, SendError, SendControl
<1>6. ASSUME NEW h \in HostIds, RunHandler(h) PROVE Reserve'
  <2>1. <<"work", h>> \notin held
    <3>1. WorkCredit(h) /\ h \in Int /\ lastIncoming \in Int /\ h > lastIncoming
      BY <1>6 DEF RunHandler, Credited, PageTypes, HostIds, Fresh
    <3> QED BY <3>1 DEF WorkCredit
  <2> QED BY <1>6, <2>1, CreditMoves DEF RunHandler
<1>7. ASSUME NEW h \in HostIds, Deliver(h) PROVE Reserve'
  BY <1>7, <1>a DEF Deliver, SendControl
<1>8. ASSUME NEW h \in HostIds, CallbackEnds(h) PROVE Reserve'
  BY <1>8, <1>a DEF CallbackEnds
<1>9. ASSUME NEW h \in HostIds, HandlerReturns(h) PROVE Reserve'
  BY <1>9, <1>a DEF HandlerReturns
<1>10. ASSUME NEW h \in HostIds, HandlerFails(h) PROVE Reserve'
  <2>1. ~failure /\ held' = held \ {<<"work", h>>} /\ reserved' = Without(<<"work", h>>)
    BY <1>10 DEF HandlerFails, Finally, Ended, SendControl, SendError
  <2> QED BY <2>1, CreditMoves
<1>11. ASSUME NEW h \in HostIds, HandlerEndsLate(h) PROVE Reserve'
  <2>1. CASE failure
    BY <1>11, <1>0, <2>1 DEF HandlerEndsLate, Finally
  <2>2. CASE ~failure
    BY <1>11, <2>2, CreditMoves DEF HandlerEndsLate, Finally
  <2> QED BY <2>1, <2>2
<1>12. ASSUME NEW h \in HostIds, CancelIncoming(h) PROVE Reserve'
  <2>1. ~failure /\ held' = held \ {<<"work", h>>} /\ reserved' = Without(<<"work", h>>)
    BY <1>12 DEF CancelIncoming, Withdraw, Ended, SendControl, SendError
  <2> QED BY <2>1, CreditMoves
<1>13. ASSUME NEW h \in HostIds, Timeout(h) PROVE Reserve'
  <2>1. ~failure /\ held' = held \ {<<"work", h>>} /\ reserved' = Without(<<"work", h>>)
    BY <1>13 DEF Timeout, Withdraw, Ended, SendControl, SendError
  <2> QED BY <2>1, CreditMoves
<1>14. CASE PumpDue /\ Post(Head(entries))
  BY <1>14, <1>a DEF Post
<1>15. CASE PumpDue /\ DropDead(Head(entries))
  BY <1>15, CreditMoves DEF DropDead, Shift, Finally, PumpDue
<1>16. CASE PumpDue /\ DropCall(Head(entries))
  BY <1>16, CreditMoves DEF DropCall, Shift, Settle, PumpDue
<1>17. ASSUME NEW b \in BOOLEAN, PumpDue, DropResult(Head(entries), b) PROVE Reserve'
  BY <1>17, CreditMoves DEF DropResult, Finally, PumpDue
<1>18. CASE FailDoomed \/ Fail \/ PostBroken
  BY <1>18, <1>0 DEF FailDoomed, Fail, PostBroken, FailWith
<1>19. CASE PostOk
  BY <1>19, CreditMoves DEF PostOk, Finally
<1>20. CASE PostRefused
  BY <1>20, CreditMoves DEF PostRefused, Settle, Finally
<1>21. CASE PostEnds
  BY <1>21, <1>a DEF PostEnds
<1> QED
  BY <1>1, <1>2, <1>3, <1>4, <1>5, <1>6, <1>7, <1>8, <1>9, <1>10, <1>11, <1>12,
     <1>13, <1>14, <1>15, <1>16, <1>17, <1>18, <1>19, <1>20, <1>21
  DEF Next, CallStep, WorkStep, Pump

\* There are finitely many invocations.
LEMMA WorkingFinite ==
  ASSUME PageTypes PROVE IsFiniteSet(Working) /\ Cardinality(Working) \in Nat
<1>1. IsFiniteSet(HostIds)
  BY FS_Interval, PageAssumption DEF HostIds
<1>2. Working \in SUBSET HostIds
  BY DEF Working
<1>3. IsFiniteSet(Working)
  BY <1>1, <1>2, FS_Subset
<1> QED BY <1>3, FS_CardinalityType

\* Work begins with its input and gives it back at its end.
LEMMA WorkMoves ==
  ASSUME PageTypes, Input, NEW h \in HostIds, NEW st, work' = [work EXCEPT ![h] = st],
         \/ input' = input /\ work[h] \in Busy \cup {"calling"} /\ st \in Busy \cup {"calling"}
         \/ input' = input + 1 /\ work[h] = "none" /\ st \in Busy \cup {"calling"}
         \/ input' = input - 1 /\ work[h] \in Busy \cup {"calling"} /\ st = "over"
  PROVE Input'
<1>1. IsFiniteSet(Working) /\ Cardinality(Working) \in Nat /\ input = Cardinality(Working)
  BY WorkingFinite DEF Input
<1>2. \A g \in HostIds : work'[g] = IF g = h THEN st ELSE work[g]
  BY DEF PageTypes
<1>3. CASE input' = input /\ work[h] \in Busy \cup {"calling"} /\ st \in Busy \cup {"calling"}
  <2>1. Working' = Working
    BY <1>2, <1>3 DEF Working
  <2> QED BY <1>1, <1>3, <2>1 DEF Input
<1>4. CASE input' = input + 1 /\ work[h] = "none" /\ st \in Busy \cup {"calling"}
  <2>1. Working' = Working \cup {h} /\ h \notin Working
    BY <1>2, <1>4 DEF Working, Busy
  <2>2. Cardinality(Working \cup {h}) = Cardinality(Working) + 1
    BY <1>1, <2>1, FS_AddElement
  <2> QED BY <1>1, <1>4, <2>1, <2>2 DEF Input
<1>5. CASE input' = input - 1 /\ work[h] \in Busy \cup {"calling"} /\ st = "over"
  <2>1. Working' = Working \ {h} /\ h \in Working
    BY <1>2, <1>5 DEF Working, Busy
  <2> QED BY <1>1, <1>5, <2>1, FS_RemoveElement DEF Input
<1> QED BY <1>3, <1>4, <1>5

\* Input credit is held exactly while the application works on it.
LEMMA InputNext ==
  ASSUME PageTypes, Once, Results, Input, [Next]_vars
  PROVE Input'
<1> USE DEF queueVars, callVars, workVars
<1>0. UNCHANGED <<work, input>> => Input'
  BY DEF Input, Working
<1>a. PumpDue => ~failure /\ InQueue = entries /\ InQueue # <<>> /\ Head(entries) = InQueue[1] /\ 1 \in DOMAIN InQueue
  BY QueueMoves DEF PumpDue, PageTypes
<1>b. ~failure /\ InQueue # <<>> /\ IsResult(InQueue[1]) /\ 1 \in DOMAIN InQueue
        => InQueue[1].id \in HostIds /\ work[InQueue[1].id] = "sending"
  BY DEF Results, Matched
<1>1. CASE UNCHANGED vars
  BY <1>1, <1>0 DEF vars
<1>2. ASSUME NEW k \in Invocations, Invoke(k) PROVE Input'
  BY <1>2, <1>0 DEF Invoke, IdLeft
<1>3. ASSUME NEW i \in Ids, Cancel(i) PROVE Input'
  BY <1>3, <1>0 DEF Cancel, Settle
<1>4. ASSUME NEW i \in Ids, Complete(i) PROVE Input'
  BY <1>4, <1>0 DEF Complete, Settle
<1>5. ASSUME NEW h \in HostIds, Refuse(h) PROVE Input'
  BY <1>5, <1>0 DEF Refuse
<1>6. ASSUME NEW h \in HostIds, RunHandler(h) PROVE Input'
  <2>1. work[h] = "none"
    BY <1>6 DEF RunHandler, Fresh, Once, AtMostOnce
  <2> QED BY <1>6, <2>1, <1>0, WorkMoves DEF RunHandler, Busy
<1>7. ASSUME NEW h \in HostIds, Deliver(h) PROVE Input'
  <2>1. work[h] = "none"
    BY <1>7 DEF Deliver, Fresh, Once, AtMostOnce
  <2> QED BY <1>7, <2>1, <1>0, WorkMoves DEF Deliver, Busy
<1>8. ASSUME NEW h \in HostIds, CallbackEnds(h) PROVE Input'
  BY <1>8, WorkMoves DEF CallbackEnds
<1>9. ASSUME NEW h \in HostIds, HandlerReturns(h) PROVE Input'
  BY <1>9, WorkMoves DEF HandlerReturns, Busy
<1>10. ASSUME NEW h \in HostIds, HandlerFails(h) PROVE Input'
  BY <1>10, WorkMoves DEF HandlerFails, Finally, Busy
<1>11. ASSUME NEW h \in HostIds, HandlerEndsLate(h) PROVE Input'
  BY <1>11, WorkMoves DEF HandlerEndsLate, Finally, Busy
<1>12. ASSUME NEW h \in HostIds, CancelIncoming(h) PROVE Input'
  BY <1>12, <1>0 DEF CancelIncoming, Withdraw
<1>13. ASSUME NEW h \in HostIds, Timeout(h) PROVE Input'
  BY <1>13, <1>0 DEF Timeout, Withdraw
<1>14. CASE PumpDue /\ Post(Head(entries))
  BY <1>14, <1>0 DEF Post
<1>15. CASE PumpDue /\ DropDead(Head(entries))
  <2> DEFINE h == Head(entries).id
  <2>1. h \in HostIds /\ work[h] = "sending"
    BY <1>15, <1>a, <1>b DEF DropDead, Shift, Finally, IsResult
  <2>2. work' = [work EXCEPT ![h] = "over"] /\ input' = input - 1
    BY <1>15 DEF DropDead, Shift, Finally
  <2> HIDE DEF h
  <2> QED BY <2>1, <2>2, WorkMoves DEF Busy
<1>16. CASE PumpDue /\ DropCall(Head(entries))
  BY <1>16, <1>0 DEF DropCall, Shift, Settle
<1>17. ASSUME NEW b \in BOOLEAN, PumpDue, DropResult(Head(entries), b) PROVE Input'
  <2> DEFINE h == Head(entries).id
  <2>1. h \in HostIds /\ work[h] = "sending"
    BY <1>17, <1>a, <1>b DEF DropResult, Finally, IsResult
  <2>2. work' = [work EXCEPT ![h] = "over"] /\ input' = input - 1
    BY <1>17 DEF DropResult, Finally
  <2> HIDE DEF h
  <2> QED BY <2>1, <2>2, WorkMoves DEF Busy
<1>18. CASE FailDoomed \/ Fail \/ PostBroken
  <2> DEFINE E == {h \in HostIds : work[h] = "sending"}
  <2>1. Working' = Working \ E /\ Working \cap E = E /\ input' = input - Cardinality(E)
    BY <1>18 DEF FailDoomed, Fail, PostBroken, FailWith, Working, Busy, PageTypes
  <2> HIDE DEF E
  <2>2. Cardinality(Working') = Cardinality(Working) - Cardinality(E)
    BY <2>1, WorkingFinite, FS_Difference
  <2> QED BY <2>1, <2>2 DEF Input
<1>19. CASE PostOk
  <2>1. ~failure /\ InQueue # <<>> /\ InQueue[1] = post /\ 1 \in DOMAIN InQueue
    BY <1>19, QueueMoves DEF PostOk
  <2>2. CASE post.kind = "result"
    <3> DEFINE h == post.id
    <3>1. h \in HostIds /\ work[h] = "sending"
      BY <1>b, <2>1, <2>2 DEF IsResult
    <3>2. work' = [work EXCEPT ![h] = "over"] /\ input' = input - 1
      BY <1>19, <2>2 DEF PostOk, Finally
    <3> HIDE DEF h
    <3> QED BY <3>1, <3>2, WorkMoves DEF Busy
  <2>3. CASE post.kind # "result"
    BY <1>19, <1>0, <2>3 DEF PostOk
  <2> QED BY <2>2, <2>3
<1>20. CASE PostRefused
  <2>1. ~failure /\ InQueue # <<>> /\ InQueue[1] = post /\ 1 \in DOMAIN InQueue
    BY <1>20, QueueMoves DEF PostRefused
  <2>2. CASE post.kind = "result"
    <3> DEFINE h == post.id
    <3>1. h \in HostIds /\ work[h] = "sending"
      BY <1>b, <2>1, <2>2 DEF IsResult
    <3>2. work' = [work EXCEPT ![h] = "over"] /\ input' = input - 1
      BY <1>20, <2>2 DEF PostRefused, Settle, Finally
    <3> HIDE DEF h
    <3> QED BY <3>1, <3>2, WorkMoves DEF Busy
  <2>3. CASE post.kind # "result"
    BY <1>20, <1>0, <2>3 DEF PostRefused
  <2> QED BY <2>2, <2>3
<1>21. CASE PostEnds
  BY <1>21, <1>0 DEF PostEnds
<1> QED
  BY <1>1, <1>2, <1>3, <1>4, <1>5, <1>6, <1>7, <1>8, <1>9, <1>10, <1>11, <1>12,
     <1>13, <1>14, <1>15, <1>16, <1>17, <1>18, <1>19, <1>20, <1>21
  DEF Next, CallStep, WorkStep, Pump

-----------------------------------------------------------------------------
(* The books *)

\* What a step does to the counts of control frames and of data frames
Moved(c, d) ==
  /\ Count(InQueue', ControlFrame) = Count(InQueue, ControlFrame) + c
  /\ Count(InQueue', DataFrame) = Count(InQueue, DataFrame) + d

LEMMA CountsType ==
  ASSUME PageTypes
  PROVE Count(InQueue, ControlFrame) \in Int /\ Count(InQueue, DataFrame) \in Int
BY QueueMoves, CountIsNat

LEMMA FrameKinds ==
  ASSUME NEW f \in Frame
  PROVE (IsControl(f) <=> f \in ControlFrame) /\ (IsControl(f) <=> f \notin DataFrame)
BY DEF ControlFrame, DataFrame

\* The counts move with the frame that joins, and with the one that leaves.
LEMMA MovedNot == ASSUME PageTypes, InQueue' = InQueue PROVE Moved(0, 0)
BY CountsType DEF Moved

LEMMA MovedIn ==
  ASSUME PageTypes, NEW f \in Frame, InQueue' = Append(InQueue, f)
  PROVE (IsControl(f) => Moved(1, 0)) /\ (~IsControl(f) => Moved(0, 1))
<1>1. InQueue \in Seq(Frame)
  BY QueueMoves
<1>2. /\ f \in ControlFrame => Count(InQueue', ControlFrame) = Count(InQueue, ControlFrame) + 1
      /\ f \notin ControlFrame => Count(InQueue', ControlFrame) = Count(InQueue, ControlFrame)
  BY <1>1, CountAppend
<1>3. /\ f \in DataFrame => Count(InQueue', DataFrame) = Count(InQueue, DataFrame) + 1
      /\ f \notin DataFrame => Count(InQueue', DataFrame) = Count(InQueue, DataFrame)
  BY <1>1, CountAppend
<1> QED BY <1>2, <1>3, CountsType, FrameKinds DEF Moved

LEMMA MovedOut ==
  ASSUME PageTypes, NEW k \in 1 .. Len(InQueue), InQueue' \in Seq(Frame), Skips(InQueue', InQueue, k)
  PROVE (IsControl(InQueue[k]) => Moved(-1, 0)) /\ (~IsControl(InQueue[k]) => Moved(0, -1))
<1>1. InQueue \in Seq(Frame) /\ InQueue[k] \in Frame
  BY QueueMoves
<1>2. /\ InQueue[k] \in ControlFrame => Count(InQueue', ControlFrame) = Count(InQueue, ControlFrame) - 1
      /\ InQueue[k] \notin ControlFrame => Count(InQueue', ControlFrame) = Count(InQueue, ControlFrame)
  BY <1>1, CountSkips
<1>3. /\ InQueue[k] \in DataFrame => Count(InQueue', DataFrame) = Count(InQueue, DataFrame) - 1
      /\ InQueue[k] \notin DataFrame => Count(InQueue', DataFrame) = Count(InQueue, DataFrame)
  BY <1>1, CountSkips
<1>4. /\ IsControl(InQueue[k]) <=> InQueue[k] \in ControlFrame
      /\ IsControl(InQueue[k]) <=> InQueue[k] \notin DataFrame
  BY <1>1, FrameKinds
<1> QED BY <1>2, <1>3, <1>4, CountsType DEF Moved

LEMMA MovedHead ==
  ASSUME PageTypes, InQueue # <<>>, InQueue' = Tail(InQueue)
  PROVE (IsControl(Head(InQueue)) => Moved(-1, 0)) /\ (~IsControl(Head(InQueue)) => Moved(0, -1))
<1>1. InQueue \in Seq(Frame)
  BY QueueMoves
<1>2. /\ 1 \in 1 .. Len(InQueue) /\ Tail(InQueue) \in Seq(Frame) /\ Head(InQueue) = InQueue[1]
      /\ Skips(Tail(InQueue), InQueue, 1)
  BY <1>1, TailSkips
<1>3. InQueue' \in Seq(Frame) /\ Skips(InQueue', InQueue, 1)
  BY <1>2
<1>4. (IsControl(InQueue[1]) => Moved(-1, 0)) /\ (~IsControl(InQueue[1]) => Moved(0, -1))
  BY <1>2, <1>3, MovedOut
<1> QED BY <1>2, <1>4

\* A result is replaced by an error.
LEMMA MovedOver ==
  ASSUME PageTypes, InQueue # <<>>, ~IsControl(Head(InQueue)), NEW f \in Frame, IsControl(f),
         InQueue' = Append(Tail(InQueue), f)
  PROVE Moved(1, -1)
<1>1. InQueue \in Seq(Frame) /\ Head(InQueue) \in Frame /\ Tail(InQueue) \in Seq(Frame)
  BY QueueMoves
<1>2. /\ Head(InQueue) \in DataFrame /\ Head(InQueue) \notin ControlFrame
      /\ f \in ControlFrame /\ f \notin DataFrame
  BY <1>1, FrameKinds
<1> DEFINE t == Tail(InQueue)
<1>3. /\ Count(t, ControlFrame) = Count(InQueue, ControlFrame)
      /\ Count(t, DataFrame) = Count(InQueue, DataFrame) - 1
  BY <1>1, <1>2, CountTail
<1>4. t \in Seq(Frame) /\ InQueue' = Append(t, f)
  BY <1>1
<1> HIDE DEF t
<1>5. /\ Count(Append(t, f), ControlFrame) = Count(t, ControlFrame) + 1
      /\ Count(Append(t, f), DataFrame) = Count(t, DataFrame)
  BY <1>2, <1>4, CountAppend
<1> QED BY <1>3, <1>4, <1>5, CountsType DEF Moved

\* The books stay right when they move as the queue does.
LEMMA BooksMove ==
  ASSUME PageTypes, PageTypes', Counters, Ledger, UNCHANGED failure,
         NEW c \in Int, NEW d \in Int, Moved(c, d),
         ~failure => controls' = controls + c /\ data' = data + d,
         ~failure => d <= 0 \/ data' <= MaxFrames,
         retained' - input' = retained - input + d
  PROVE Counters' /\ Ledger'
<1>1. Count(InQueue, ControlFrame) \in Int /\ Count(InQueue, DataFrame) \in Int
  BY CountsType
<1>2. /\ controls \in Int /\ data \in Int /\ retained \in Int /\ input \in Int
      /\ controls' \in Int /\ data' \in Int /\ retained' \in Int /\ input' \in Int
      /\ MaxFrames \in Int
  BY PageAssumption DEF PageTypes
<1>3. Counters'
  BY <1>1, <1>2 DEF Counters, Moved
<1>4. Ledger'
  BY <1>1, <1>2 DEF Ledger, Moved
<1> QED BY <1>3, <1>4

\* remove and its accounts: the frame, its slot and its bytes go together.
LEMMA RemoveMoves ==
  ASSUME PageTypes, NEW i, Remove(i), post' = post
  PROVE \/ Moved(0, 0) /\ UNCHANGED <<data, retained>>
        \/ Moved(0, -1) /\ data' = data - 1 /\ retained' = retained - 1
<1>1. CASE UNCHANGED <<entries, data, retained>>
  <2>1. InQueue' = InQueue
    BY <1>1, QueueMoves
  <2> QED BY <1>1, <2>1, MovedNot
<1>2. ASSUME NEW n \in Places(i), entries' = Splice(entries, n) PROVE Moved(0, -1)
  <2>1. n \in DOMAIN entries /\ ~IsControl(entries[n])
    BY DEF Places, IsControl, Invocations, Controls
  <2>2. PICK k \in 1 .. Len(InQueue) : /\ InQueue[k] = entries[n] /\ InQueue' \in Seq(Frame)
                                       /\ Skips(InQueue', InQueue, k)
    BY <1>2, <2>1, QueueSplice
  <2>3. ~IsControl(InQueue[k])
    BY <2>1, <2>2
  <2> QED BY <2>2, <2>3, MovedOut
<1> QED BY <1>1, <1>2 DEF Remove

\* A control frame and its slot
LEMMA ControlMoves ==
  ASSUME PageTypes, NEW f \in Frame, IsControl(f), NEW left, NEW credited, NEW why,
         SendControl(f, left, credited, why), post' = post
  PROVE \/ Moved(0, 0) /\ UNCHANGED controls
        \/ Moved(1, 0) /\ controls' = controls + 1
<1>1. CASE UNCHANGED <<entries, controls>>
  BY <1>1, QueueMoves, MovedNot
<1>2. CASE entries' = Append(entries, f) /\ controls' = controls + 1
  BY <1>2, QueueMoves, MovedIn
<1> QED BY <1>1, <1>2 DEF SendControl

\* What weighs in the ledger is what is counted.
LEMMA DataCounted ==
  ASSUME NEW s \in Seq(Frame) PROVE DataOf(s) = Count(s, DataFrame)
<1>1. {n \in DOMAIN s : ~IsControl(s[n])} = Marks(s, DataFrame)
  BY DEF Marks, DataFrame
<1> QED BY <1>1 DEF DataOf, Count

LEMMA DataOfOne ==
  ASSUME NEW f \in Frame
  PROVE /\ DataOf(<<f>>) = IF IsControl(f) THEN 0 ELSE 1
        /\ Count(<<f>>, DataFrame) = DataOf(<<f>>)
<1> DEFINE q == <<f>>
<1>1. q \in Seq(Frame) /\ q # <<>> /\ Head(q) = f /\ Tail(q) = <<>>
  OBVIOUS
<1> HIDE DEF q
<1>2. /\ f \in DataFrame => Count(<<>>, DataFrame) = Count(q, DataFrame) - 1
      /\ f \notin DataFrame => Count(<<>>, DataFrame) = Count(q, DataFrame)
  BY <1>1, CountTail
<1>3. Count(q, DataFrame) \in Int /\ DataOf(q) = Count(q, DataFrame)
  BY <1>1, CountIsNat, DataCounted
<1>4. Count(q, DataFrame) = IF IsControl(f) THEN 0 ELSE 1
  BY <1>2, <1>3, CountEmpty, FrameKinds
<1> QED BY <1>3, <1>4 DEF q

\* The entry in flight weighs too.
LEMMA FlightCounted ==
  ASSUME PageTypes
  PROVE /\ DataOf(entries) \in Int
        /\ post = NoFrame => Count(InQueue, DataFrame) = DataOf(entries)
        /\ post # NoFrame => /\ Count(InQueue, DataFrame) = DataOf(entries) + DataOf(<<post>>)
                             /\ DataOf(<<post>>) \in Int
<1>1. entries \in Seq(Frame) /\ (post # NoFrame => post \in Frame)
  BY DEF PageTypes
<1>2. DataOf(entries) = Count(entries, DataFrame) /\ Count(entries, DataFrame) \in Int
  BY <1>1, DataCounted, CountIsNat
<1>3. CASE post = NoFrame
  BY <1>2, <1>3 DEF InQueue
<1>4. CASE post # NoFrame
  <2> DEFINE q == <<post>> \o entries
  <2>1. q \in Seq(Frame) /\ q # <<>> /\ Head(q) = post /\ Tail(q) = entries
    BY <1>1, <1>4
  <2>2. InQueue = q /\ post \in Frame
    BY <1>1, <1>4 DEF InQueue
  <2> HIDE DEF q
  <2>3. /\ post \in DataFrame => Count(entries, DataFrame) = Count(q, DataFrame) - 1
        /\ post \notin DataFrame => Count(entries, DataFrame) = Count(q, DataFrame)
    BY <2>1, CountTail
  <2>4. Count(q, DataFrame) \in Int
    BY <2>1, CountIsNat
  <2>5. DataOf(<<post>>) = IF post \in DataFrame THEN 1 ELSE 0
    BY <2>2, DataOfOne, FrameKinds
  <2> QED BY <1>2, <1>4, <2>2, <2>3, <2>4, <2>5
<1> QED BY <1>3, <1>4

\* close and fail release what they drop, and only that: the entry in flight
\* keeps its bytes until its POST ends.
LEMMA FailLedger ==
  ASSUME PageTypes, Ledger, NEW over \in BOOLEAN, FailWith(over), over => post # NoFrame
  PROVE Ledger'
<1> DEFINE E == Cardinality({h \in HostIds : work[h] = "sending"})
<1>1. E \in Int
  <2>1. IsFiniteSet(HostIds)
    BY FS_Interval, PageAssumption DEF HostIds
  <2>2. {h \in HostIds : work[h] = "sending"} \in SUBSET HostIds
    OBVIOUS
  <2> QED BY <2>1, <2>2, FS_Subset, FS_CardinalityType
<1>2. /\ input' = input - E /\ entries' = <<>>
      /\ over => post' = NoFrame /\ retained' = retained - DataOf(entries) - E - DataOf(<<post>>)
      /\ ~over => post' = post /\ retained' = retained - DataOf(entries) - E - 0
  BY DEF FailWith, Releases
<1> HIDE DEF E
<1>3. /\ retained \in Int /\ input \in Int /\ (post # NoFrame => post \in Frame)
      /\ post \notin {NoFrame} => post # NoFrame
  BY DEF PageTypes
<1>4. retained = input + Count(InQueue, DataFrame)
  BY DEF Ledger
<1>5. CASE over \/ post = NoFrame
  <2>1. InQueue' = <<>>
    BY <1>2, <1>5 DEF InQueue
  <2>2. Count(InQueue', DataFrame) = 0
    BY <2>1, CountEmpty
  <2>3. retained' = input'
    BY <1>1, <1>2, <1>3, <1>4, <1>5, FlightCounted
  <2> QED BY <1>1, <1>2, <1>3, <2>2, <2>3 DEF Ledger
<1>6. CASE ~over /\ post # NoFrame
  <2>1. InQueue' = <<post>>
    BY <1>2, <1>3, <1>6 DEF InQueue
  <2>2. Count(InQueue', DataFrame) = DataOf(<<post>>)
    BY <1>3, <1>6, <2>1, DataOfOne
  <2>3. retained' = input' + DataOf(<<post>>)
    BY <1>1, <1>2, <1>3, <1>4, <1>6, FlightCounted
  <2> QED BY <2>2, <2>3 DEF Ledger
<1> QED BY <1>5, <1>6

\* No path forgets a slot or a byte, or gives one back twice.
LEMMA BooksNext ==
  ASSUME PageTypes, Ended, Counters, Ledger, [Next]_vars
  PROVE Counters' /\ Ledger'
<1> USE DEF queueVars, callVars, workVars
<1>t. PageTypes'
  BY TypeNext
<1>n. /\ controls \in Int /\ data \in Int /\ retained \in Int /\ input \in Int
      /\ Ids \subseteq Nat /\ HostIds \subseteq Nat /\ MaxFrames \in Int
  BY PageAssumption DEF PageTypes, Ids, HostIds
<1>a. ASSUME UNCHANGED <<failure, entries, post, controls, data>>,
             retained' - input' = retained - input
      PROVE Counters' /\ Ledger'
  <2>1. Moved(0, 0)
    BY <1>a, QueueMoves, MovedNot
  <2> QED BY <1>a, <1>t, <1>n, <2>1, BooksMove
<1>b. PumpDue => /\ InQueue = entries /\ InQueue # <<>> /\ Head(entries) = Head(InQueue)
                 /\ Head(entries) \in Frame /\ ~failure
  BY QueueMoves DEF PumpDue
<1>1. CASE UNCHANGED vars
  BY <1>1, <1>a, <1>n DEF vars
<1>2. ASSUME NEW k \in Invocations, Invoke(k) PROVE Counters' /\ Ledger'
  <2> DEFINE f == [kind |-> k, id |-> nextId]
  <2>1. f \in Frame /\ ~IsControl(f)
    BY <1>2, <1>n DEF Frame, Controls, IsControl, Invocations, PageTypes
  <2> HIDE DEF f
  <2>2. CASE UNCHANGED <<entries, data, retained>>
    BY <1>2, <1>a, <2>2 DEF Invoke, IdLeft
  <2>3. CASE /\ CanSendData /\ entries' = Append(entries, f)
             /\ data' = data + 1 /\ retained' = retained + 1
    <3>1. UNCHANGED <<failure, post, controls, input>> /\ data' <= MaxFrames
      BY <1>2, <1>n, <2>3 DEF Invoke, IdLeft, CanSendData
    <3>2. Moved(0, 1)
      BY <2>1, <2>3, <3>1, QueueMoves, MovedIn
    <3> QED BY <1>t, <1>n, <2>3, <3>1, <3>2, BooksMove
  <2> QED BY <1>2, <2>2, <2>3 DEF Invoke, f
<1>3. ASSUME NEW i \in Ids, Cancel(i) PROVE Counters' /\ Ledger'
  <2>1. CASE i \in sent /\ kind[i] = "request"
    <3> DEFINE f == [kind |-> "cancel", id |-> i]
    <3>1. f \in Frame /\ IsControl(f)
      BY <1>n DEF Frame, Controls, IsControl
    <3> HIDE DEF f
    <3>2. /\ SendControl(f, Without(<<"call", i>>), FALSE, "completion")
          /\ UNCHANGED <<failure, data, post>> /\ ~failure
      BY <1>3, <2>1 DEF Cancel, Settle, SendError, f, Ended
    <3>3. retained' - input' = retained - input
      BY <1>3, <1>n, <2>1 DEF Cancel, Settle
    <3>4. \/ Moved(0, 0) /\ UNCHANGED controls
          \/ Moved(1, 0) /\ controls' = controls + 1
      BY <3>1, <3>2, ControlMoves
    <3> QED BY <1>t, <1>n, <3>2, <3>3, <3>4, BooksMove
  <2>2. CASE ~(i \in sent /\ kind[i] = "request")
    <3>1. Remove(i) /\ UNCHANGED <<failure, post, input, controls>>
      BY <1>3, <2>2 DEF Cancel, Settle
    <3>2. \/ Moved(0, 0) /\ UNCHANGED <<data, retained>>
          \/ Moved(0, -1) /\ data' = data - 1 /\ retained' = retained - 1
      BY <3>1, RemoveMoves
    <3> QED BY <1>t, <1>n, <3>1, <3>2, BooksMove
  <2> QED BY <2>1, <2>2
<1>4. ASSUME NEW i \in Ids, Complete(i) PROVE Counters' /\ Ledger'
  <2>1. Remove(i) /\ UNCHANGED <<failure, post, input, controls>>
    BY <1>4 DEF Complete, Settle
  <2>2. \/ Moved(0, 0) /\ UNCHANGED <<data, retained>>
        \/ Moved(0, -1) /\ data' = data - 1 /\ retained' = retained - 1
    BY <2>1, RemoveMoves
  <2> QED BY <1>t, <1>n, <2>1, <2>2, BooksMove
<1>5. ASSUME NEW h \in HostIds, Refuse(h) PROVE Counters' /\ Ledger'
  <2> DEFINE f == [kind |-> "error", id |-> h]
  <2>1. f \in Frame /\ IsControl(f)
    BY <1>n DEF Frame, Controls, IsControl
  <2> HIDE DEF f
  <2>2. /\ SendControl(f, reserved, FALSE, "refusal")
        /\ UNCHANGED <<failure, data, post>> /\ ~failure
    BY <1>5 DEF Refuse, SendError, f, Ended
  <2>3. retained' - input' = retained - input
    BY <1>5, <1>n DEF Refuse
  <2>4. \/ Moved(0, 0) /\ UNCHANGED controls
        \/ Moved(1, 0) /\ controls' = controls + 1
    BY <2>1, <2>2, ControlMoves
  <2> QED BY <1>t, <1>n, <2>2, <2>3, <2>4, BooksMove
<1>6. ASSUME NEW h \in HostIds, RunHandler(h) PROVE Counters' /\ Ledger'
  BY <1>6, <1>a, <1>n DEF RunHandler
<1>7. ASSUME NEW h \in HostIds, Deliver(h) PROVE Counters' /\ Ledger'
  <2> DEFINE f == [kind |-> "accept", id |-> h]
  <2>1. f \in Frame /\ IsControl(f)
    BY <1>n DEF Frame, Controls, IsControl
  <2> HIDE DEF f
  <2>2. /\ SendControl(f, reserved, TRUE, "refusal")
        /\ UNCHANGED <<failure, data, post>> /\ ~failure
    BY <1>7 DEF Deliver, SendError, f, Ended
  <2>3. retained' - input' = retained - input
    BY <1>7, <1>n DEF Deliver
  <2>4. \/ Moved(0, 0) /\ UNCHANGED controls
        \/ Moved(1, 0) /\ controls' = controls + 1
    BY <2>1, <2>2, ControlMoves
  <2> QED BY <1>t, <1>n, <2>2, <2>3, <2>4, BooksMove
<1>8. ASSUME NEW h \in HostIds, CallbackEnds(h) PROVE Counters' /\ Ledger'
  BY <1>8, <1>a, <1>n DEF CallbackEnds
<1>9. ASSUME NEW h \in HostIds, HandlerReturns(h) PROVE Counters' /\ Ledger'
  <2> DEFINE f == [kind |-> "result", id |-> h]
  <2>1. f \in Frame /\ ~IsControl(f)
    BY <1>9, <1>n DEF Frame, Controls, IsControl, Invocations
  <2> HIDE DEF f
  <2>2. /\ entries' = Append(entries, f) /\ data' = data + 1 /\ retained' = retained + 1
        /\ UNCHANGED <<failure, post, controls, input>> /\ data' <= MaxFrames
    BY <1>9, <1>n DEF HandlerReturns, CanSendData, f
  <2>3. Moved(0, 1)
    BY <2>1, <2>2, QueueMoves, MovedIn
  <2> QED BY <1>t, <1>n, <2>2, <2>3, BooksMove
<1>10. ASSUME NEW h \in HostIds, HandlerFails(h) PROVE Counters' /\ Ledger'
  <2> DEFINE f == [kind |-> "error", id |-> h]
  <2>1. f \in Frame /\ IsControl(f)
    BY <1>n DEF Frame, Controls, IsControl
  <2> HIDE DEF f
  <2>2. /\ SendControl(f, Without(<<"work", h>>), TRUE, "completion")
        /\ UNCHANGED <<failure, data, post>> /\ ~failure
    BY <1>10 DEF HandlerFails, Finally, SendError, f, Ended
  <2>3. retained' - input' = retained - input
    BY <1>10, <1>n DEF HandlerFails, Finally
  <2>4. \/ Moved(0, 0) /\ UNCHANGED controls
        \/ Moved(1, 0) /\ controls' = controls + 1
    BY <2>1, <2>2, ControlMoves
  <2> QED BY <1>t, <1>n, <2>2, <2>3, <2>4, BooksMove
<1>11. ASSUME NEW h \in HostIds, HandlerEndsLate(h) PROVE Counters' /\ Ledger'
  BY <1>11, <1>a, <1>n DEF HandlerEndsLate, Finally
<1>12. ASSUME NEW h \in HostIds, CancelIncoming(h) PROVE Counters' /\ Ledger'
  BY <1>12, <1>a, <1>n DEF CancelIncoming, Withdraw
<1>13. ASSUME NEW h \in HostIds, Timeout(h) PROVE Counters' /\ Ledger'
  <2> DEFINE f == [kind |-> "error", id |-> h]
  <2>1. f \in Frame /\ IsControl(f)
    BY <1>n DEF Frame, Controls, IsControl
  <2> HIDE DEF f
  <2>2. /\ SendControl(f, Without(<<"work", h>>), FALSE, "completion")
        /\ UNCHANGED <<failure, data, post>> /\ ~failure
    BY <1>13 DEF Timeout, Withdraw, SendError, f, Ended
  <2>3. retained' - input' = retained - input
    BY <1>13, <1>n DEF Timeout, Withdraw
  <2>4. \/ Moved(0, 0) /\ UNCHANGED controls
        \/ Moved(1, 0) /\ controls' = controls + 1
    BY <2>1, <2>2, ControlMoves
  <2> QED BY <1>t, <1>n, <2>2, <2>3, <2>4, BooksMove
<1>14. CASE PumpDue /\ Post(Head(entries))
  <2>1. InQueue' = InQueue /\ UNCHANGED <<failure, controls, data, retained, input>>
    BY <1>14, QueueMoves DEF Post
  <2>2. Moved(0, 0)
    BY <2>1, MovedNot
  <2> QED BY <1>t, <1>n, <2>1, <2>2, BooksMove
<1>15. CASE PumpDue /\ DropDead(Head(entries))
  <2>1. /\ entries' = Tail(entries) /\ data' = data - 1 /\ UNCHANGED <<failure, post, controls>>
        /\ retained' - input' = retained - input - 1 /\ ~IsControl(Head(InQueue))
    BY <1>15, <1>b, <1>n DEF DropDead, Shift, Finally, IsControl, Controls, Invocations
  <2>2. InQueue' = Tail(InQueue) /\ InQueue # <<>>
    BY <1>15, <1>b, <2>1, QueueMoves
  <2>3. Moved(0, -1)
    BY <2>1, <2>2, MovedHead
  <2> QED BY <1>t, <1>n, <2>1, <2>3, BooksMove
<1>16. CASE PumpDue /\ DropCall(Head(entries))
  <2>1. /\ entries' = Tail(entries) /\ data' = data - 1 /\ UNCHANGED <<failure, post, controls>>
        /\ retained' - input' = retained - input - 1 /\ ~IsControl(Head(InQueue))
    BY <1>16, <1>b, <1>n DEF DropCall, Shift, Settle, IsControl, Controls, Invocations
  <2>2. InQueue' = Tail(InQueue) /\ InQueue # <<>>
    BY <1>16, <1>b, <2>1, QueueMoves
  <2>3. Moved(0, -1)
    BY <2>1, <2>2, MovedHead
  <2> QED BY <1>t, <1>n, <2>1, <2>3, BooksMove
<1>17. ASSUME NEW b \in BOOLEAN, PumpDue, DropResult(Head(entries), b) PROVE Counters' /\ Ledger'
  <2> DEFINE f == [kind |-> "error", id |-> Head(entries).id]
  <2>1. f \in Frame /\ IsControl(f)
    BY <1>b, <1>17 DEF Frame, Controls, IsControl
  <2>2. /\ data' = data - 1 /\ UNCHANGED <<failure, post>> /\ ~IsControl(Head(InQueue))
        /\ retained' - input' = retained - input - 1
        /\ \/ entries' = Tail(entries) /\ controls' = controls
           \/ entries' = Append(Tail(entries), f) /\ controls' = controls + 1
    BY <1>17, <1>b, <1>n DEF DropResult, Finally, IsControl, Controls
  <2> HIDE DEF f
  <2>3. InQueue' = entries' /\ InQueue = entries /\ InQueue # <<>>
    BY <1>17, <1>b, <2>2, QueueMoves
  <2>4. CASE entries' = Tail(entries) /\ controls' = controls
    <3>1. Moved(0, -1)
      BY <2>2, <2>3, <2>4, MovedHead
    <3> QED BY <1>t, <1>n, <2>2, <2>4, <3>1, BooksMove
  <2>5. CASE entries' = Append(Tail(entries), f) /\ controls' = controls + 1
    <3>1. Moved(1, -1)
      BY <2>1, <2>2, <2>3, <2>5, MovedOver
    <3> QED BY <1>t, <1>n, <2>2, <2>5, <3>1, BooksMove
  <2> QED BY <2>2, <2>4, <2>5
<1>18. CASE FailDoomed \/ Fail \/ PostBroken
  <2>1. failure' /\ \E over \in BOOLEAN : FailWith(over) /\ (over => post # NoFrame)
    BY <1>18 DEF FailDoomed, Fail, PostBroken, FailWith
  <2> QED BY <2>1, FailLedger DEF Counters
<1>19. CASE PostOk
  <2>1. /\ InQueue # <<>> /\ Head(InQueue) = post /\ post \in Frame /\ InQueue' = Tail(InQueue)
        /\ UNCHANGED failure /\ ~failure
    BY <1>19, QueueMoves DEF PostOk, Finally
  <2>2. DataOf(<<post>>) = IF IsControl(post) THEN 0 ELSE 1
    BY <2>1, DataOfOne
  <2>3. CASE IsControl(post)
    <3>1. Moved(-1, 0)
      BY <2>1, <2>3, MovedHead
    <3>2. controls' = controls - 1 /\ data' = data /\ retained' - input' = retained - input
      BY <1>19, <1>n, <2>2, <2>3 DEF PostOk, Finally, IsControl, Controls
    <3> QED BY <1>t, <1>n, <2>1, <3>1, <3>2, BooksMove
  <2>4. CASE ~IsControl(post)
    <3>1. Moved(0, -1)
      BY <2>1, <2>4, MovedHead
    <3>2. data' = data - 1 /\ controls' = controls /\ retained' - input' = retained - input - 1
      BY <1>19, <1>n, <2>2, <2>4 DEF PostOk, Finally
    <3> QED BY <1>t, <1>n, <2>1, <3>1, <3>2, BooksMove
  <2> QED BY <2>3, <2>4
<1>20. CASE PostRefused
  <2>1. /\ InQueue # <<>> /\ Head(InQueue) = post /\ post \in Frame /\ InQueue' = Tail(InQueue)
        /\ UNCHANGED failure /\ ~failure
    BY <1>20, QueueMoves DEF PostRefused, Settle, Finally
  <2>2. DataOf(<<post>>) = IF IsControl(post) THEN 0 ELSE 1
    BY <2>1, DataOfOne
  <2>3. CASE IsControl(post)
    <3>1. Moved(-1, 0)
      BY <2>1, <2>3, MovedHead
    <3>2. controls' = controls - 1 /\ data' = data /\ retained' - input' = retained - input
      BY <1>20, <1>n, <2>2, <2>3 DEF PostRefused, Settle, Finally, IsControl, Controls
    <3> QED BY <1>t, <1>n, <2>1, <3>1, <3>2, BooksMove
  <2>4. CASE ~IsControl(post)
    <3>1. Moved(0, -1)
      BY <2>1, <2>4, MovedHead
    <3>2. data' = data - 1 /\ controls' = controls /\ retained' - input' = retained - input - 1
      BY <1>20, <1>n, <2>2, <2>4 DEF PostRefused, Settle, Finally
    <3> QED BY <1>t, <1>n, <2>1, <3>1, <3>2, BooksMove
  <2> QED BY <2>3, <2>4
<1>21. CASE PostEnds
  <2>1. /\ InQueue # <<>> /\ Head(InQueue) = post /\ post \in Frame /\ InQueue' = Tail(InQueue)
        /\ UNCHANGED failure /\ failure
    BY <1>21, QueueMoves DEF PostEnds
  <2>2. DataOf(<<post>>) = IF IsControl(post) THEN 0 ELSE 1
    BY <2>1, DataOfOne
  <2>3. retained' = retained - DataOf(<<post>>) /\ UNCHANGED input
    BY <1>21 DEF PostEnds
  <2>4. CASE IsControl(post)
    <3>1. Moved(-1, 0)
      BY <2>1, <2>4, MovedHead
    <3> QED BY <1>t, <1>n, <2>1, <2>2, <2>3, <2>4, <3>1, BooksMove
  <2>5. CASE ~IsControl(post)
    <3>1. Moved(0, -1)
      BY <2>1, <2>5, MovedHead
    <3> QED BY <1>t, <1>n, <2>1, <2>2, <2>3, <2>5, <3>1, BooksMove
  <2> QED BY <2>4, <2>5
<1> QED
  BY <1>1, <1>2, <1>3, <1>4, <1>5, <1>6, <1>7, <1>8, <1>9, <1>10, <1>11, <1>12,
     <1>13, <1>14, <1>15, <1>16, <1>17, <1>18, <1>19, <1>20, <1>21
  DEF Next, CallStep, WorkStep, Pump

-----------------------------------------------------------------------------
(* The theorems *)

\* The parts together, in the order in which they rest on each other
PageInv ==
  /\ PageTypes /\ Ended /\ Credited /\ Fits /\ Once /\ Results
  /\ Order /\ OnWire /\ WireCalls /\ Reserve /\ Input /\ Counters /\ Ledger

LEMMA PageInit == Init => PageInv
<1> SUFFICES ASSUME Init PROVE PageInv
  OBVIOUS
<1> USE DEF Init
<1>1. MaxId \in Nat /\ MaxHostId \in Nat /\ ControlFrames \in Nat /\ MaxFrames \in Nat
  BY PageAssumption
<1>2. PageTypes
  <2>1. CallTypes
    BY <1>1 DEF CallTypes
  <2>2. WorkTypes
    BY <1>1 DEF WorkTypes
  <2>3. QueueTypes
    BY DEF QueueTypes
  <2>4. RestTypes
    <3>1. failure \in BOOLEAN /\ held \in SUBSET Credits
      BY Zenon
    <3>2. doomed \in {"no", "refusal", "completion", "host"} /\ reserved \in Int /\ retained \in Int
      OBVIOUS
    <3> QED BY <3>1, <3>2, Zenon DEF RestTypes
  <2> QED BY <2>1, <2>2, <2>3, <2>4, TypeParts
<1>3. Ended /\ Credited /\ Once
  BY DEF Ended, Credited, CallCredit, WorkCredit, Once, AtMostOnce, HostIds
<1>4. Fits
  BY <1>1 DEF Fits, CompletionFits
<1>5. InQueue = <<>>
  BY DEF InQueue
<1>6. Results /\ Order /\ OnWire /\ WireCalls
  BY <1>5 DEF Results, Matched, Order, InOrder, OnWire, WireCalls
<1>7. Count(InQueue, ControlFrame) = 0 /\ Count(InQueue, DataFrame) = 0
  BY <1>5, CountEmpty
<1>8. Counters /\ Ledger
  BY <1>1, <1>7 DEF Counters, Ledger
<1>9. Reserve
  BY FS_EmptySet DEF Reserve
<1>10. Working = {}
  BY DEF Working, Busy
<1>11. Input
  BY <1>10, FS_EmptySet DEF Input
<1> QED BY <1>2, <1>3, <1>4, <1>6, <1>8, <1>9, <1>11 DEF PageInv

LEMMA PageNext == PageInv /\ [Next]_vars => PageInv'
<1> SUFFICES ASSUME PageInv, [Next]_vars PROVE PageInv'
  OBVIOUS
<1>1. /\ PageTypes /\ Ended /\ Credited /\ Fits /\ Once /\ Results
      /\ Order /\ OnWire /\ WireCalls /\ Reserve /\ Input /\ Counters /\ Ledger
  BY DEF PageInv
<1>2. PageTypes' /\ Ended' /\ Credited' /\ Fits'
  BY <1>1, TypeNext, EndedNext, CreditedNext, FitsNext
<1>3. Once' /\ Results'
  BY <1>1, OnceNext, ResultsNext
<1>4. Order' /\ OnWire' /\ WireCalls'
  BY <1>1, OrderNext
<1>5. Reserve' /\ Input' /\ Counters' /\ Ledger'
  BY <1>1, ReserveNext, InputNext, BooksNext
<1> QED BY <1>2, <1>3, <1>4, <1>5 DEF PageInv

\* The page keeps all of it, whatever its turns are made of.
LEMMA PageInvariant == Spec => []PageInv
BY PageInit, PageNext, PTL DEF Spec

\* Every variable of the connection keeps its type, whatever the limits are.
\* No counter goes below zero, on no path: each is the number of the credits,
\* frames or handlers it stands for (queue.ts, budget.ts).
THEOREM PageTypeCorrect == Spec => []TypeOK
<1>1. ASSUME PageInv PROVE TypeOK
  <2>1. PageTypes /\ Ended /\ Reserve /\ Counters /\ Input /\ Ledger
    BY <1>1 DEF PageInv
  <2>2. InQueue \in Seq(Frame)
    BY <2>1, QueueMoves
  <2>3. Count(InQueue, ControlFrame) \in Nat /\ Count(InQueue, DataFrame) \in Nat
    BY <2>2, CountIsNat
  <2>4. input \in Nat /\ retained \in Nat
    BY <2>1, <2>3, WorkingFinite DEF Input, Ledger
  <2>5. controls \in Nat /\ data \in Nat
    BY <2>1, <2>3 DEF Ended, Counters
  <2>6. reserved \in Nat
    BY <2>1, HeldFinite DEF Ended, Reserve
  <2> QED BY <2>1, <2>4, <2>5, <2>6 DEF PageTypes, TypeOK
<1> QED BY <1>1, PageInvariant, PTL

\* connection.ts, queue.ts and budget.ts keep honest books: every slot and
\* every byte taken is given back once, on each of the paths that end a call,
\* an invocation or the connection, and the control reserve is never oversold.
THEOREM PageCreditsBalance == Spec => []CreditAccounting
<1>1. ASSUME PageInv PROVE CreditAccounting
  <2>1. InQueue \in Seq(Frame)
    BY <1>1, QueueMoves DEF PageInv
  <2>2. {n \in DOMAIN InQueue : IsControl(InQueue[n])} = Marks(InQueue, ControlFrame)
    BY <2>1 DEF Marks, ControlFrame
  <2>3. Cardinality({n \in DOMAIN InQueue : IsControl(InQueue[n])}) = Count(InQueue, ControlFrame)
    BY <2>2 DEF Count
  <2>4. DataOf(InQueue) = Count(InQueue, DataFrame)
    BY <2>1, DataCounted
  <2>5. Tasks(Busy \cup {"calling"}) = Cardinality(Working)
    BY DEF Tasks, Working
  <2> QED BY <1>1, <2>3, <2>4, <2>5
          DEF PageInv, CreditAccounting, Reserve, Counters, Fits, Input, Ledger
<1> QED BY <1>1, PageInvariant, PTL

\* cancel, the deadline of an invocation and the error of a handler always
\* find a slot: the connection never fails over a completion.
THEOREM CompletionsFit == Spec => []CompletionFits
<1>1. PageInv => CompletionFits
  BY DEF PageInv, Fits
<1> QED BY <1>1, PageInvariant, PTL

\* The host never sees an id that is not above the last one, nor a CANCEL
\* without its request, and gets at most one answer to each invocation.
THEOREM PageKeepsOrder == Spec => []WireOrder
<1>1. ASSUME PageInv PROVE WireOrder
  <2>1. WireCalls /\ Once
    BY <1>1 DEF PageInv
  <2>2. \A h \in HostIds : answers[h] <= 1 /\ (h \in incoming => answers[h] = 0)
    BY <2>1 DEF Once, AtMostOnce
  <2> QED BY <2>1, <2>2 DEF WireOrder, WireCalls, IsCall
<1> QED BY <1>1, PageInvariant, PTL
=============================================================================

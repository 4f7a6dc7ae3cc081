----------------------- MODULE RenderCompletionProofs -----------------------
(***************************************************************************)
(* Proofs about RenderCompletion, for any finitely many components,        *)
(* activations and requests, any attachment of the components, any         *)
(* bindings and authors, and any depth of the stack.                       *)
(*                                                                         *)
(* The scheduler comes first, then folds and the bookkeeping of the        *)
(* requests, and last the steps, which need both.                          *)
(***************************************************************************)
EXTENDS RenderCompletion, FiniteSetTheorems, SequenceTheorems, WellFoundedInduction, TLAPS

-----------------------------------------------------------------------------
(* Sequences whose elements have no type worth naming *)

IsSeq(s) == \E F : s \in Seq(F)

LEMMA SeqFacts ==
  ASSUME NEW s, IsSeq(s)
  PROVE Len(s) \in Nat /\ DOMAIN s = 1 .. Len(s) /\ (s = <<>> <=> Len(s) = 0)
<1>1. PICK F : s \in Seq(F)
  BY DEF IsSeq
<1> QED BY <1>1

LEMMA Pushed ==
  ASSUME NEW s, IsSeq(s), NEW x
  PROVE /\ IsSeq(Append(s, x)) /\ Len(Append(s, x)) = Len(s) + 1
        /\ \A i \in 1 .. Len(s) : Append(s, x)[i] = s[i]
        /\ Append(s, x)[Len(s) + 1] = x
<1>1. PICK F : s \in Seq(F)
  BY DEF IsSeq
<1>2. s \in Seq(F \cup {x}) /\ x \in F \cup {x}
  BY <1>1
<1>3. Append(s, x) \in Seq(F \cup {x})
  BY <1>2
<1>4. IsSeq(Append(s, x))
  BY <1>3 DEF IsSeq
<1> QED BY <1>2, <1>4

LEMMA Popped ==
  ASSUME NEW s, IsSeq(s), s # <<>>
  PROVE /\ IsSeq(Front(s)) /\ Len(Front(s)) = Len(s) - 1
        /\ \A i \in 1 .. Len(s) - 1 : Front(s)[i] = s[i]
<1>1. PICK F : s \in Seq(F)
  BY DEF IsSeq
<1>2. Len(s) \in Nat /\ Len(s) # 0
  BY <1>1
<1>3. Front(s) \in Seq(F)
  BY <1>1, <1>2 DEF Front
<1>4. IsSeq(Front(s))
  BY <1>3 DEF IsSeq
<1> DEFINE n == Len(s) - 1
<1>a. n \in Nat /\ n <= Len(s) /\ \A i \in 1 .. n : i \in 1 .. Len(s)
  BY <1>2
<1>b. \A i \in 1 .. n : s[i] \in F
  BY <1>1, <1>a
<1>c. Front(s) = SubSeq(s, 1, n)
  BY DEF Front
<1> HIDE DEF n
<1>5. Len(Front(s)) = n
  BY <1>a, <1>b, <1>c, SubSeqProperties
<1>6. \A i \in 1 .. n : Front(s)[i] = s[i]
  <2>1. \A i \in 1 .. n - 1 + 1 : SubSeq(s, 1, n)[i] = s[1 + i - 1]
    BY <1>a, <1>b, SubSeqProperties
  <2> QED BY <1>a, <1>c, <2>1
<1> QED BY <1>4, <1>5, <1>6 DEF n

LEMMA TailFacts ==
  ASSUME NEW s, IsSeq(s), s # <<>>
  PROVE /\ IsSeq(Tail(s)) /\ Len(Tail(s)) = Len(s) - 1 /\ Head(s) = s[1]
        /\ \A i \in 1 .. Len(s) - 1 : Tail(s)[i] = s[i + 1]
<1>1. PICK F : s \in Seq(F)
  BY DEF IsSeq
<1>2. Tail(s) \in Seq(F)
  BY <1>1
<1>3. IsSeq(Tail(s))
  BY <1>2 DEF IsSeq
<1> QED BY <1>1, <1>3

LEMMA Joined ==
  ASSUME NEW s, IsSeq(s), NEW t, IsSeq(t)
  PROVE /\ IsSeq(s \o t) /\ Len(s \o t) = Len(s) + Len(t)
        /\ \A i \in 1 .. Len(s) : (s \o t)[i] = s[i]
        /\ \A i \in 1 .. Len(t) : (s \o t)[Len(s) + i] = t[i]
<1>1. PICK F : s \in Seq(F)
  BY DEF IsSeq
<1>2. PICK G : t \in Seq(G)
  BY DEF IsSeq
<1>3. s \in Seq(F \cup G) /\ t \in Seq(F \cup G)
  BY <1>1, <1>2
<1>4. s \o t \in Seq(F \cup G)
  BY <1>3
<1>5. IsSeq(s \o t)
  BY <1>4 DEF IsSeq
<1> QED BY <1>3, <1>5


-----------------------------------------------------------------------------
(* The scheduler: its inductive invariant *)

\* Only a drain renders nobody, and it is the outermost frame.
FrameOk(f) ==
  /\ f.kind # "drain" /\ f.el \in Elements /\ f.exec \in {Nobody, f.el}
  /\ f.kind \in {"moved", "task"} => f.exec = Nobody
  /\ f.kind = "task" => f.task \in Tasks
StackOk(s) ==
  /\ IsSeq(s)
  /\ \A k \in 1 .. Len(s) :
       FrameOk(s[k]) \/ (k = 1 /\ s[k].kind = "drain" /\ s[k].exec = Nobody)

Renders(s, e) == \E k \in 1 .. Len(s) : s[k].kind = "render" /\ s[k].el = e
Drains(s) == \E k \in 1 .. Len(s) : s[k].kind = "drain"
MicroOk(m) ==
  /\ IsSeq(m)
  /\ \A k \in 1 .. Len(m) :
       /\ m[k][1] = "destroy" => m[k][2] \in Elements
       /\ m[k][1] = "seal" => m[k][2] \in Requests
DrainComes(m) == \E k \in 1 .. Len(m) : m[k][1] = "drain"

QueueOk(q) ==
  /\ q \in [slots : Seq(Elements \cup {Nobody}), cursor : Nat, index : [Elements -> Nat],
            scheduled : BOOLEAN]
  /\ q.cursor <= Len(q.slots)

\* A component's index is its slot, or it is being rendered from a slot that
\* the drain has passed; no other slot holds it.
Slotted(q, s) ==
  /\ \A e \in Elements : q.index[e] # 0 =>
       /\ q.index[e] <= Len(q.slots)
       /\ q.index[e] > q.cursor => q.slots[q.index[e]] = e
       /\ q.index[e] <= q.cursor => Renders(s, e)
  /\ \A i \in 1 .. Len(q.slots) : q.slots[i] \in Elements => q.index[q.slots[i]] = i

\* What was written has an index or is being rendered.
Written(q, d, s) == \A e \in d : q.index[e] # 0 \/ Renders(s, e)

\* There is a drain for the slots.
Scheduled(q, m, s) ==
  /\ q.slots # <<>> => q.scheduled
  /\ q.scheduled => DrainComes(m) \/ Drains(s)

Sched(q, d, m, s) ==
  /\ QueueOk(q) /\ d \subseteq Elements /\ MicroOk(m) /\ StackOk(s)
  /\ Slotted(q, s) /\ Written(q, d, s) /\ Scheduled(q, m, s)

SchedInv == Sched(queue, dirty, micro, stack)

\* The stack t still has the renders and the drain of s.
StackKept(s, t) ==
  /\ StackOk(t)
  /\ \A e \in Elements : Renders(s, e) => Renders(t, e)
  /\ Drains(s) => Drains(t)

LEMMA PushKeeps ==
  ASSUME NEW s, StackOk(s), NEW f, FrameOk(f)
  PROVE StackKept(s, Append(s, f))
<1> DEFINE t == Append(s, f)
<1>1. IsSeq(s) /\ Len(s) \in Nat
  BY SeqFacts DEF StackOk
<1>2. /\ IsSeq(t) /\ Len(t) = Len(s) + 1 /\ t[Len(s) + 1] = f
      /\ \A i \in 1 .. Len(s) : t[i] = s[i]
  BY <1>1, Pushed
<1> HIDE DEF t
<1>3. StackOk(t)
  <2>1. \A k \in 1 .. Len(t) : k \in 1 .. Len(s) \/ k = Len(s) + 1
    BY <1>1, <1>2
  <2> QED BY <1>2, <2>1 DEF StackOk
<1>4. \A k \in 1 .. Len(s) : k \in 1 .. Len(t)
  BY <1>1, <1>2
<1>5. (\A e \in Elements : Renders(s, e) => Renders(t, e)) /\ (Drains(s) => Drains(t))
  BY <1>2, <1>4 DEF Renders, Drains
<1> QED BY <1>3, <1>5 DEF StackKept, t

LEMMA PopKeeps ==
  ASSUME NEW s, StackOk(s), s # <<>>, s[Len(s)].kind \notin {"render", "drain"}
  PROVE StackKept(s, Front(s))
<1> DEFINE t == Front(s)
<1>1. IsSeq(s) /\ Len(s) \in Nat /\ Len(s) # 0
  BY SeqFacts DEF StackOk
<1>2. IsSeq(t) /\ Len(t) = Len(s) - 1 /\ \A i \in 1 .. Len(s) - 1 : t[i] = s[i]
  BY <1>1, Popped
<1> HIDE DEF t
<1>3. \A k \in 1 .. Len(t) : k \in 1 .. Len(s) /\ t[k] = s[k]
  BY <1>1, <1>2
<1>4. StackOk(t)
  BY <1>2, <1>3 DEF StackOk
<1>5. \A k \in 1 .. Len(s) : s[k].kind \in {"render", "drain"} => k \in 1 .. Len(t) /\ t[k] = s[k]
  <2>1. \A k \in 1 .. Len(s) : k = Len(s) \/ k \in 1 .. Len(s) - 1
    BY <1>1
  <2> QED BY <1>2, <2>1
<1>6. (\A e \in Elements : Renders(s, e) => Renders(t, e)) /\ (Drains(s) => Drains(t))
  BY <1>5 DEF Renders, Drains
<1> QED BY <1>4, <1>6 DEF StackKept, t

\* A frame ends and another begins in its place.
LEMMA ReplaceKeeps ==
  ASSUME NEW s, StackOk(s), s # <<>>, s[Len(s)].kind \notin {"render", "drain"},
         NEW f, FrameOk(f)
  PROVE StackKept(s, Append(Front(s), f))
<1>1. StackKept(s, Front(s))
  BY PopKeeps
<1>2. StackKept(Front(s), Append(Front(s), f))
  BY <1>1, PushKeeps DEF StackKept
<1> QED BY <1>1, <1>2 DEF StackKept

\* Steps that touch neither the queue nor the drains keep the invariant.
LEMMA QuietKeeps ==
  ASSUME SchedInv, queue' = queue, dirty' \subseteq dirty, MicroOk(micro'),
         DrainComes(micro) => DrainComes(micro'), StackKept(stack, stack')
  PROVE SchedInv'
<1>0. Sched(queue, dirty, micro, stack)
  BY DEF SchedInv
<1>1. QueueOk(queue') /\ dirty' \subseteq Elements /\ StackOk(stack')
  BY <1>0 DEF Sched, StackKept
<1>2. Slotted(queue', stack')
  BY <1>0 DEF Sched, Slotted, StackKept
<1>3. Written(queue', dirty', stack')
  BY <1>0 DEF Sched, Written, StackKept
<1>4. Scheduled(queue', micro', stack')
  BY <1>0 DEF Sched, Scheduled, StackKept
<1> QED BY <1>1, <1>2, <1>3, <1>4 DEF SchedInv, Sched

\* A microtask comes.
LEMMA MicroPushed ==
  ASSUME NEW m, MicroOk(m), NEW kind, NEW x,
         kind = "destroy" => x \in Elements, kind = "seal" => x \in Requests
  PROVE LET w == Append(m, <<kind, x>>)
        IN  MicroOk(w) /\ (DrainComes(m) => DrainComes(w)) /\ (kind = "drain" => DrainComes(w))
<1> DEFINE w == Append(m, <<kind, x>>)
<1>1. IsSeq(m) /\ Len(m) \in Nat
  BY SeqFacts DEF MicroOk
<1>2. /\ IsSeq(w) /\ Len(w) = Len(m) + 1 /\ w[Len(m) + 1] = <<kind, x>>
      /\ \A i \in 1 .. Len(m) : w[i] = m[i]
  BY <1>1, Pushed
<1> HIDE DEF w
<1>3. w[Len(m) + 1][1] = kind /\ w[Len(m) + 1][2] = x
  BY <1>2
<1>4. /\ \A k \in 1 .. Len(w) : k \in 1 .. Len(m) \/ k = Len(m) + 1
      /\ \A k \in 1 .. Len(m) : k \in 1 .. Len(w)
      /\ Len(m) + 1 \in 1 .. Len(w)
  BY <1>1, <1>2
<1>5. MicroOk(w)
  BY <1>2, <1>3, <1>4 DEF MicroOk
<1>6. (DrainComes(m) => DrainComes(w)) /\ (kind = "drain" => DrainComes(w))
  BY <1>2, <1>3, <1>4 DEF DrainComes
<1> QED BY <1>5, <1>6 DEF w

\* A microtask begins.
LEMMA MicroPopped ==
  ASSUME NEW m, MicroOk(m), m # <<>>
  PROVE /\ MicroOk(Tail(m))
        /\ DrainComes(m) => DrainComes(Tail(m)) \/ Head(m)[1] = "drain"
        /\ Head(m)[1] = "destroy" => Head(m)[2] \in Elements
        /\ Head(m)[1] = "seal" => Head(m)[2] \in Requests
<1> DEFINE w == Tail(m)
<1>0. \A k \in 1 .. Len(m) :
         /\ m[k][1] = "destroy" => m[k][2] \in Elements
         /\ m[k][1] = "seal" => m[k][2] \in Requests
  BY DEF MicroOk
<1>1. IsSeq(m) /\ Len(m) \in Nat /\ Len(m) # 0
  BY SeqFacts DEF MicroOk
<1>2. /\ IsSeq(w) /\ Len(w) = Len(m) - 1 /\ Head(m) = m[1]
      /\ \A i \in 1 .. Len(m) - 1 : w[i] = m[i + 1]
  BY <1>1, TailFacts
<1> HIDE DEF w
<1>3. /\ \A k \in 1 .. Len(w) : k + 1 \in 1 .. Len(m) /\ w[k] = m[k + 1]
      /\ 1 \in 1 .. Len(m)
  BY <1>1, <1>2
<1>4. \A k \in 1 .. Len(m) : k # 1 => k - 1 \in 1 .. Len(w) /\ w[k - 1] = m[k]
  BY <1>1, <1>2
<1>5. MicroOk(w)
  <2>1. ASSUME NEW k \in 1 .. Len(w)
        PROVE /\ w[k][1] = "destroy" => w[k][2] \in Elements
              /\ w[k][1] = "seal" => w[k][2] \in Requests
    <3>1. k + 1 \in 1 .. Len(m) /\ w[k] = m[k + 1]
      BY <1>3
    <3> DEFINE j == k + 1
    <3> HIDE DEF j
    <3>2. j \in 1 .. Len(m) /\ w[k] = m[j]
      BY <3>1 DEF j
    <3> QED BY <1>0, <3>2
  <2> QED BY <1>2, <2>1 DEF MicroOk
<1>6. DrainComes(m) => DrainComes(w) \/ Head(m)[1] = "drain"
  BY <1>2, <1>4 DEF DrainComes
<1>7. /\ Head(m)[1] = "destroy" => Head(m)[2] \in Elements
      /\ Head(m)[1] = "seal" => Head(m)[2] \in Requests
  BY <1>0, <1>2, <1>3
<1> QED BY <1>5, <1>6, <1>7 DEF w

\* A component gets a slot, and the slots a drain.
LEMMA EnqueueKeeps ==
  ASSUME NEW q, NEW d, NEW m, NEW s, Sched(q, d, m, s), NEW e \in Elements
  PROVE /\ Sched(Enqueued(q, e), d \cup {e}, WithDrain(m, q, e), s)
        /\ Enqueued(q, e).index[e] # 0
        /\ \A c \in Elements : q.index[c] # 0 => Enqueued(q, e).index[c] # 0
<1>0. /\ QueueOk(q) /\ d \subseteq Elements /\ MicroOk(m) /\ StackOk(s)
      /\ Slotted(q, s) /\ Written(q, d, s) /\ Scheduled(q, m, s)
  BY DEF Sched
<1>1. CASE q.index[e] # 0
  <2>1. Enqueued(q, e) = q /\ WithDrain(m, q, e) = m
    BY <1>1 DEF Enqueued, WithDrain
  <2>2. Written(q, d \cup {e}, s)
    BY <1>0, <1>1 DEF Written
  <2> QED BY <1>0, <1>1, <2>1, <2>2 DEF Sched
<1>2. CASE q.index[e] = 0
  <2> DEFINE n == Len(q.slots) + 1
             x == [q.index EXCEPT ![e] = n]
             l == Append(q.slots, e)
             p == Enqueued(q, e)
             w == WithDrain(m, q, e)
  <2>1. /\ q.slots \in Seq(Elements \cup {Nobody}) /\ q.index \in [Elements -> Nat]
        /\ q.cursor \in Nat /\ q.cursor <= Len(q.slots) /\ q.scheduled \in BOOLEAN
        /\ q \in [slots : Seq(Elements \cup {Nobody}), cursor : Nat, index : [Elements -> Nat],
                  scheduled : BOOLEAN]
    BY <1>0 DEF QueueOk
  <2>2. p = [q EXCEPT !.slots = l, !.index = x, !.scheduled = TRUE]
    BY <1>2, <2>1 DEF Enqueued
  <2>3. /\ l \in Seq(Elements \cup {Nobody}) /\ Len(l) = n /\ l[n] = e /\ l # <<>>
        /\ \A i \in 1 .. Len(q.slots) : l[i] = q.slots[i]
    BY <2>1
  <2>4. n \in Nat /\ n # 0 /\ n > q.cursor /\ q.cursor <= n
    BY <2>1
  <2>5. x \in [Elements -> Nat] /\ x[e] = n /\ \A c \in Elements : c # e => x[c] = q.index[c]
    BY <2>1, <2>4
  <2>6. \A i \in 1 .. n : i \in 1 .. Len(q.slots) \/ i = n
    BY <2>1
  <2>7. Len(q.slots) <= n /\ \A i \in Nat : i <= Len(q.slots) => i <= n
    BY <2>1
  <2> HIDE DEF n, x, l, p, w
  <2>8. p.slots = l /\ p.index = x /\ p.scheduled = TRUE /\ p.cursor = q.cursor
    BY <2>1, <2>2
  <2>9. QueueOk(p)
    BY <2>1, <2>2, <2>3, <2>4, <2>5, <2>8 DEF QueueOk
  <2>10. Slotted(p, s)
    <3>1. ASSUME NEW c \in Elements, x[c] # 0
          PROVE /\ x[c] <= n
                /\ x[c] > q.cursor => l[x[c]] = c
                /\ x[c] <= q.cursor => Renders(s, c)
      <4>1. CASE c = e
        BY <2>1, <2>3, <2>4, <2>5, <4>1
      <4>2. CASE c # e
        <5>1. /\ q.index[c] \in Nat /\ q.index[c] # 0 /\ q.index[c] <= Len(q.slots)
              /\ q.index[c] > q.cursor => q.slots[q.index[c]] = c
              /\ q.index[c] <= q.cursor => Renders(s, c)
          BY <1>0, <2>1, <2>5, <3>1, <4>2 DEF Slotted
        <5>2. q.index[c] \in 1 .. Len(q.slots)
          BY <2>1, <5>1
        <5> QED BY <2>3, <2>5, <2>7, <4>2, <5>1, <5>2
      <4> QED BY <4>1, <4>2
    <3>2. ASSUME NEW i \in 1 .. n, l[i] \in Elements PROVE x[l[i]] = i
      <4>1. CASE i = n
        BY <2>3, <2>5, <4>1
      <4>2. CASE i \in 1 .. Len(q.slots)
        <5>1. l[i] = q.slots[i] /\ q.index[l[i]] = i
          BY <1>0, <2>3, <3>2, <4>2 DEF Slotted
        <5>2. l[i] # e
          BY <1>2, <4>2, <5>1
        <5> QED BY <2>5, <3>2, <5>1, <5>2
      <4> QED BY <2>6, <4>1, <4>2
    <3> QED BY <2>3, <2>8, <3>1, <3>2 DEF Slotted
  <2>11. Written(p, d \cup {e}, s)
    BY <1>0, <2>4, <2>5, <2>8 DEF Written
  <2>12. MicroOk(w) /\ (DrainComes(m) => DrainComes(w)) /\ (~q.scheduled => DrainComes(w))
    <3>1. Len(m) \in Nat
      BY <1>0, SeqFacts DEF MicroOk
    <3>2. CASE q.scheduled
      <4>1. w = m
        BY <3>2 DEF WithDrain, w
      <4> QED BY <1>0, <3>2, <4>1
    <3>3. CASE ~q.scheduled
      <4>1. w = Append(m, <<"drain", Nobody>>)
        BY <1>2, <3>3 DEF WithDrain, w
      <4> QED BY <1>0, <4>1, MicroPushed
    <3> QED BY <2>1, <3>2, <3>3
  <2>13. Scheduled(p, w, s)
    BY <1>0, <2>1, <2>8, <2>12 DEF Scheduled
  <2>14. p.index[e] # 0 /\ \A c \in Elements : q.index[c] # 0 => p.index[c] # 0
    BY <2>4, <2>5, <2>8
  <2> QED BY <1>0, <2>9, <2>10, <2>11, <2>12, <2>13, <2>14 DEF Sched, p, w
<1> QED BY <1>1, <1>2


\* A component gives its slot back, and a render of it may have ended.
LEMMA UnslotKeeps ==
  ASSUME NEW q, NEW d, NEW m, NEW s, Sched(q, d, m, s), NEW e \in Elements,
         NEW t, StackOk(t), Drains(s) => Drains(t),
         \A c \in Elements : c # e /\ Renders(s, c) => Renders(t, c)
  PROVE /\ Sched(Unslotted(q, e), d \ {e}, m, t)
        /\ Unslotted(q, e).index[e] = 0
        /\ \A c \in Elements : c # e => Unslotted(q, e).index[c] = q.index[c]
<1>0. /\ QueueOk(q) /\ d \subseteq Elements /\ MicroOk(m) /\ StackOk(s)
      /\ Slotted(q, s) /\ Written(q, d, s) /\ Scheduled(q, m, s)
  BY DEF Sched
<1>a. /\ q.slots \in Seq(Elements \cup {Nobody}) /\ q.index \in [Elements -> Nat]
      /\ q.cursor \in Nat /\ q.cursor <= Len(q.slots) /\ q.scheduled \in BOOLEAN
      /\ q \in [slots : Seq(Elements \cup {Nobody}), cursor : Nat, index : [Elements -> Nat],
                scheduled : BOOLEAN]
  BY <1>0 DEF QueueOk
<1>1. CASE q.index[e] = 0
  <2>1. Unslotted(q, e) = q
    BY <1>1 DEF Unslotted
  <2>2. Slotted(q, t)
    BY <1>0, <1>1 DEF Slotted
  <2>3. Written(q, d \ {e}, t)
    BY <1>0 DEF Written
  <2>4. Scheduled(q, m, t)
    BY <1>0 DEF Scheduled
  <2> QED BY <1>0, <1>1, <2>1, <2>2, <2>3, <2>4 DEF Sched
<1>2. CASE q.index[e] # 0
  <2> DEFINE n == q.index[e]
             x == [q.index EXCEPT ![e] = 0]
             l == [q.slots EXCEPT ![n] = Nobody]
             p == Unslotted(q, e)
  <2>1. n \in Nat /\ n # 0 /\ n <= Len(q.slots)
    BY <1>0, <1>2, <1>a DEF Slotted
  <2>2. n \in 1 .. Len(q.slots)
    BY <1>a, <2>1
  <2>3. p = [q EXCEPT !.slots = l, !.index = x]
    BY <1>2, <1>a DEF Unslotted
  <2>4. x \in [Elements -> Nat] /\ x[e] = 0 /\ \A c \in Elements : c # e => x[c] = q.index[c]
    BY <1>a
  <2>5. /\ l \in Seq(Elements \cup {Nobody}) /\ Len(l) = Len(q.slots) /\ l[n] = Nobody
        /\ \A i \in 1 .. Len(q.slots) : i # n => l[i] = q.slots[i]
    BY <1>a, <2>2
  <2>6. l # <<>> /\ q.slots # <<>>
    BY <1>a, <2>2, <2>5
  <2> HIDE DEF n, x, l, p
  <2>7. p.slots = l /\ p.index = x /\ p.scheduled = q.scheduled /\ p.cursor = q.cursor
    BY <1>a, <2>3
  <2>8. QueueOk(p)
    BY <1>a, <2>3, <2>4, <2>5, <2>7 DEF QueueOk
  <2>9. Slotted(p, t)
    <3>1. ASSUME NEW c \in Elements, x[c] # 0
          PROVE /\ x[c] <= Len(l)
                /\ x[c] > q.cursor => l[x[c]] = c
                /\ x[c] <= q.cursor => Renders(t, c)
      <4>1. c # e /\ x[c] = q.index[c]
        BY <2>4, <3>1
      <4>2. /\ q.index[c] \in Nat /\ q.index[c] # 0 /\ q.index[c] <= Len(q.slots)
            /\ q.index[c] > q.cursor => q.slots[q.index[c]] = c
            /\ q.index[c] <= q.cursor => Renders(s, c)
        BY <1>0, <1>a, <3>1, <4>1 DEF Slotted
      <4>3. q.index[c] \in 1 .. Len(q.slots)
        BY <1>a, <4>2
      <4>4. ASSUME q.index[c] > q.cursor PROVE q.index[c] # n
        <5>1. SUFFICES ASSUME q.index[c] = n PROVE FALSE
          OBVIOUS
        <5>2. q.slots[n] = c /\ q.slots[n] = e
          BY <1>0, <1>2, <4>2, <4>4, <5>1 DEF Slotted, n
        <5> QED BY <4>1, <5>2
      <4> QED BY <2>5, <4>1, <4>2, <4>3, <4>4
    <3>2. ASSUME NEW i \in 1 .. Len(l), l[i] \in Elements PROVE x[l[i]] = i
      <4>1. i # n
        BY <2>5, <3>2, RenderAssumption
      <4>2. l[i] = q.slots[i] /\ q.index[l[i]] = i
        BY <1>0, <2>5, <3>2, <4>1 DEF Slotted
      <4>3. l[i] # e
        BY <4>1, <4>2 DEF n
      <4> QED BY <2>4, <3>2, <4>2, <4>3
    <3> QED BY <2>7, <3>1, <3>2 DEF Slotted
  <2>10. Written(p, d \ {e}, t)
    BY <1>0, <2>4, <2>7 DEF Written
  <2>11. Scheduled(p, m, t)
    BY <1>0, <2>6, <2>7 DEF Scheduled
  <2>12. p.index[e] = 0 /\ \A c \in Elements : c # e => p.index[c] = q.index[c]
    BY <2>4, <2>7
  <2> QED BY <1>0, <2>8, <2>9, <2>10, <2>11, <2>12 DEF Sched, p
<1> QED BY <1>1, <1>2

\* What that does to the indices
LEMMA UnslotIndex ==
  ASSUME NEW q, NEW d, NEW m, NEW s, Sched(q, d, m, s), NEW e \in Elements
  PROVE /\ Unslotted(q, e).index[e] = 0
        /\ \A c \in Elements : c # e => Unslotted(q, e).index[c] = q.index[c]
<1>1. StackOk(s)
  BY DEF Sched
<1>2. (Drains(s) => Drains(s)) /\ \A c \in Elements : c # e /\ Renders(s, c) => Renders(s, c)
  OBVIOUS
<1> QED BY <1>1, <1>2, UnslotKeeps, ZenonT(30)

-----------------------------------------------------------------------------
(* The scheduler: the steps *)

LEMMA WriteKeeps ==
  ASSUME SchedInv, NEW e \in Elements, Write(e)
  PROVE SchedInv'
<1>1. Sched(Enqueued(queue, e), dirty \cup {e}, WithDrain(micro, queue, e), stack)
  BY EnqueueKeeps DEF SchedInv
<1>2. /\ queue' = Enqueued(queue, e) /\ dirty' = dirty \cup {e}
      /\ micro' = WithDrain(micro, queue, e) /\ stack' = stack
  BY DEF Write
<1> QED BY <1>1, <1>2 DEF SchedInv

LEMMA EndRenderKeeps ==
  ASSUME SchedInv, NEW failed \in BOOLEAN, EndRender(failed)
  PROVE SchedInv'
<1> DEFINE e == Top.el
           q == Unslotted(queue, e)
           t == Front(stack)
<1>0. StackOk(stack) /\ dirty \subseteq Elements
  BY DEF SchedInv, Sched
<1>1. /\ stack # <<>> /\ Top.kind = "render" /\ stack' = t
      /\ \E tail \in SUBSET {e} :
            /\ dirty' = dirty \cup tail
            /\ queue' = IF e \in dirty \cup tail THEN Enqueued(q, e) ELSE q
            /\ micro' = IF e \in dirty \cup tail THEN WithDrain(micro, q, e) ELSE micro
  BY DEF EndRender
<1>2. PICK tail \in SUBSET {e} :
         /\ dirty' = dirty \cup tail
         /\ queue' = IF e \in dirty \cup tail THEN Enqueued(q, e) ELSE q
         /\ micro' = IF e \in dirty \cup tail THEN WithDrain(micro, q, e) ELSE micro
  BY <1>1
<1>3. IsSeq(stack) /\ Len(stack) \in Nat /\ Len(stack) # 0
  BY <1>0, <1>1, SeqFacts DEF StackOk
<1>4. IsSeq(t) /\ Len(t) = Len(stack) - 1 /\ \A i \in 1 .. Len(stack) - 1 : t[i] = stack[i]
  BY <1>1, <1>3, Popped
<1>5. e \in Elements
  <2>1. Len(stack) \in 1 .. Len(stack) /\ stack[Len(stack)].kind # "drain"
    BY <1>1, <1>3 DEF Top
  <2> QED BY <1>0, <2>1 DEF StackOk, FrameOk, Top
<1> HIDE DEF t, q
<1>6. \A k \in 1 .. Len(t) : k \in 1 .. Len(stack) /\ t[k] = stack[k]
  BY <1>3, <1>4
<1>7. \A k \in 1 .. Len(stack) : k = Len(stack) \/ k \in 1 .. Len(t)
  BY <1>3, <1>4
<1>8. StackOk(t)
  BY <1>0, <1>4, <1>6 DEF StackOk
<1>9. Drains(stack) => Drains(t)
  BY <1>1, <1>6, <1>7 DEF Drains, Top
<1>10. \A c \in Elements : c # e /\ Renders(stack, c) => Renders(t, c)
  BY <1>6, <1>7 DEF Renders, Top
<1>11. Sched(q, dirty \ {e}, micro, t)
  BY <1>5, <1>8, <1>9, <1>10, UnslotKeeps DEF SchedInv, q
<1>12. CASE e \in dirty \cup tail
  <2>1. Sched(Enqueued(q, e), (dirty \ {e}) \cup {e}, WithDrain(micro, q, e), t)
    BY <1>5, <1>11, EnqueueKeeps
  <2>2. (dirty \ {e}) \cup {e} = dirty \cup tail
    BY <1>12
  <2> QED BY <1>1, <1>2, <1>12, <2>1, <2>2 DEF SchedInv
<1>13. CASE e \notin dirty \cup tail
  <2>1. dirty \ {e} = dirty \cup tail
    BY <1>13
  <2> QED BY <1>1, <1>2, <1>11, <1>13, <2>1 DEF SchedInv
<1> QED BY <1>12, <1>13


LEMMA TopFacts ==
  ASSUME SchedInv, stack # <<>>
  PROVE /\ Len(stack) \in Nat /\ Len(stack) \in 1 .. Len(stack) /\ Top = stack[Len(stack)]
        /\ Top.kind # "drain" => FrameOk(Top)
        /\ Top.kind = "drain" => Len(stack) = 1
<1>1. StackOk(stack) /\ Len(stack) \in Nat /\ Len(stack) # 0
  BY SeqFacts DEF SchedInv, Sched, StackOk
<1>2. Len(stack) \in 1 .. Len(stack)
  BY <1>1
<1> QED BY <1>1, <1>2 DEF StackOk, FrameOk, Top

\* Below a drain there is nothing.
LEMMA OnlyDrain ==
  ASSUME SchedInv, Draining
  PROVE /\ stack # <<>> /\ Len(stack) = 1 /\ \A e \in Elements : ~Renders(stack, e)
        /\ StackOk(Front(stack)) /\ \A e \in Elements : ~Renders(Front(stack), e)
<1>1. stack # <<>> /\ Top.kind = "drain" /\ StackOk(stack)
  BY DEF Draining, SchedInv, Sched
<1>2. Len(stack) = 1 /\ stack[1].kind = "drain"
  BY <1>1, TopFacts
<1>3. \A k \in 1 .. Len(stack) : stack[k].kind = "drain"
  BY <1>2
<1>4. IsSeq(Front(stack)) /\ Len(Front(stack)) = 0
  <2>1. IsSeq(stack)
    BY <1>1 DEF StackOk
  <2>2. IsSeq(Front(stack)) /\ Len(Front(stack)) = Len(stack) - 1
    BY <1>1, <2>1, Popped
  <2> QED BY <1>2, <2>2
<1>5. \A k : k \notin 1 .. Len(Front(stack))
  BY <1>4
<1> QED BY <1>1, <1>2, <1>3, <1>4, <1>5 DEF Renders, StackOk

LEMMA DrainKeeps ==
  ASSUME SchedInv, Drain
  PROVE SchedInv'
<1> DEFINE f == Frame("drain", Nobody)
           t == <<f>>
<1>0. Sched(queue, dirty, micro, stack)
  BY DEF SchedInv
<1>1. /\ stack = <<>> /\ micro # <<>> /\ micro' = Tail(micro) /\ stack' = t
      /\ queue' = queue /\ dirty' = dirty
  BY DEF Drain, Microtask
<1>2. f.kind = "drain" /\ f.exec = Nobody
  BY DEF Frame
<1>3. t \in Seq({f}) /\ Len(t) = 1 /\ t[1] = f
  OBVIOUS
<1> HIDE DEF f, t
<1>4. IsSeq(t) /\ \A k \in 1 .. Len(t) : k = 1
  BY <1>3 DEF IsSeq
<1>5. StackOk(t)
  BY <1>2, <1>3, <1>4 DEF StackOk
<1>6. 1 \in 1 .. Len(t)
  BY <1>3
<1>7. Drains(t)
  BY <1>2, <1>3, <1>6 DEF Drains
<1>8. \A e \in Elements : ~Renders(stack, e)
  BY <1>1 DEF Renders
<1>9. MicroOk(micro')
  BY <1>0, <1>1, MicroPopped DEF Sched
<1>10. Slotted(queue', stack') /\ Written(queue', dirty', stack')
  BY <1>0, <1>1, <1>8 DEF Sched, Slotted, Written
<1>11. Scheduled(queue', micro', stack')
  BY <1>0, <1>1, <1>7 DEF Sched, Scheduled
<1> QED BY <1>0, <1>1, <1>5, <1>9, <1>10, <1>11 DEF SchedInv, Sched

LEMMA DrainEndKeeps ==
  ASSUME SchedInv, DrainEnd
  PROVE SchedInv'
<1> DEFINE done == queue.cursor = Len(queue.slots)
           t == Front(stack)
<1>0. /\ QueueOk(queue) /\ dirty \subseteq Elements /\ MicroOk(micro)
      /\ Slotted(queue, stack) /\ Written(queue, dirty, stack) /\ Scheduled(queue, micro, stack)
  BY DEF SchedInv, Sched
<1>1. /\ stack' = t /\ dirty' = dirty
      /\ queue' = [queue EXCEPT !.slots = IF done THEN <<>> ELSE @,
                                !.cursor = IF done THEN 0 ELSE @,
                                !.scheduled = ~done]
      /\ micro' = IF done THEN micro ELSE Append(micro, <<"drain", Nobody>>)
  BY DEF DrainEnd
<1>2. StackOk(t) /\ \A e \in Elements : ~Renders(stack, e) /\ ~Renders(t, e)
  BY OnlyDrain DEF DrainEnd
<1>3. /\ queue.slots \in Seq(Elements \cup {Nobody}) /\ queue.index \in [Elements -> Nat]
      /\ queue.cursor \in Nat /\ queue.cursor <= Len(queue.slots)
      /\ queue \in [slots : Seq(Elements \cup {Nobody}), cursor : Nat, index : [Elements -> Nat],
                    scheduled : BOOLEAN]
  BY <1>0 DEF QueueOk
<1>4. \A e \in dirty : queue.index[e] # 0
  BY <1>0, <1>2 DEF Written
<1>5. \A e \in Elements : queue.index[e] # 0 => queue.index[e] > queue.cursor
  BY <1>0, <1>2, <1>3 DEF Slotted
<1>6. CASE done
  <2>1. queue' = [queue EXCEPT !.slots = <<>>, !.cursor = 0, !.scheduled = FALSE] /\ micro' = micro
    BY <1>1, <1>6
  <2>2. \A e \in Elements : queue.index[e] = 0
    BY <1>0, <1>3, <1>5, <1>6 DEF Slotted
  <2>3. queue'.slots = <<>> /\ queue'.index = queue.index /\ queue'.scheduled = FALSE /\ queue'.cursor = 0
    BY <1>3, <2>1
  <2>4. QueueOk(queue')
    <3>1. <<>> \in Seq(Elements \cup {Nobody}) /\ Len(<<>>) = 0
      OBVIOUS
    <3>2. queue' \in [slots : Seq(Elements \cup {Nobody}), cursor : Nat, index : [Elements -> Nat],
                      scheduled : BOOLEAN]
      BY <1>3, <2>1, <3>1
    <3> QED BY <2>3, <3>1, <3>2 DEF QueueOk
  <2>5. Slotted(queue', t) /\ Scheduled(queue', micro', t)
    BY <2>2, <2>3 DEF Slotted, Scheduled
  <2>6. Written(queue', dirty', t)
    BY <1>0, <1>1, <1>4, <2>2 DEF Written
  <2> QED BY <1>0, <1>1, <1>2, <2>1, <2>4, <2>5, <2>6 DEF SchedInv, Sched
<1>7. CASE ~done
  <2>1. queue' = [queue EXCEPT !.scheduled = TRUE] /\ micro' = Append(micro, <<"drain", Nobody>>)
    BY <1>1, <1>3, <1>7
  <2>2. MicroOk(micro') /\ DrainComes(micro')
    BY <1>0, <2>1, MicroPushed
  <2>3. /\ queue'.slots = queue.slots /\ queue'.index = queue.index
        /\ queue'.scheduled = TRUE /\ queue'.cursor = queue.cursor
    BY <1>3, <2>1
  <2>4. QueueOk(queue')
    <3>1. queue' \in [slots : Seq(Elements \cup {Nobody}), cursor : Nat, index : [Elements -> Nat],
                      scheduled : BOOLEAN]
      BY <1>3, <2>1
    <3> QED BY <1>3, <2>3, <3>1 DEF QueueOk
  <2>5. Slotted(queue', t) /\ Written(queue', dirty', t)
    BY <1>0, <1>1, <1>2, <2>3 DEF Slotted, Written
  <2>6. Scheduled(queue', micro', t)
    BY <2>2, <2>3 DEF Scheduled
  <2> QED BY <1>0, <1>1, <1>2, <2>2, <2>4, <2>5, <2>6 DEF SchedInv, Sched
<1> QED BY <1>6, <1>7


\* A frame begins on top of was.
Exec(e, observed) == IF observed THEN e ELSE Nobody
Pushes(was, kind, e, x) ==
  \E f : FrameOk(f) /\ f.kind = kind /\ f.el = e /\ f.exec = x /\ stack' = Append(was, f)

LEMMA FrameBegins ==
  ASSUME NEW f, NEW was, NEW S, NEW observed, Begin(f, was, S, observed),
         NEW kind, kind \notin {"drain", "moved", "task"}, NEW e \in Elements, NEW mode, NEW by,
         \/ f = [Frame(kind, e) EXCEPT !.mode = mode, !.by = by]
         \/ f = [Frame(kind, e) EXCEPT !.by = by]
  PROVE Pushes(was, kind, e, Exec(e, observed))
<1>1. f.kind = kind /\ f.el = e
  BY DEF Frame
<1>2. stack' = Append(was, [f EXCEPT !.exec = Exec(e, observed)])
  BY <1>1 DEF Begin, Exec
<1> DEFINE g == [f EXCEPT !.exec = Exec(e, observed)]
<1>3. g.kind = kind /\ g.el = e /\ g.exec = Exec(e, observed)
  BY DEF Frame
<1> HIDE DEF g
<1>4. FrameOk(g)
  BY <1>3 DEF FrameOk, Exec
<1> QED BY <1>2, <1>3, <1>4 DEF Pushes, g

LEMMA RenderFrame ==
  ASSUME NEW e \in Elements, NEW mode, BeginRender(e, mode)
  PROVE Pushes(stack, "render", e, Exec(e, Observing(rc))) /\ dirty' = dirty \ {e}
BY FrameBegins DEF BeginRender

LEMMA RefreshFrame ==
  ASSUME NEW e \in Elements, NEW was, NEW S, BeginRefresh(e, was, S)
  PROVE Pushes(was, "refresh", e, Exec(e, Observing(S))) /\ dirty' = dirty \ {e}
BY FrameBegins DEF BeginRefresh

LEMMA CallFrame ==
  ASSUME NEW e \in Elements, NEW mode, NEW was, NEW S, NEW observed,
         BeginCall(e, mode, was, S, observed)
  PROVE Pushes(was, "call", e, Exec(e, observed))
BY FrameBegins DEF BeginCall

LEMMA MountFrame ==
  ASSUME NEW e \in Elements, ContinueMount(e)
  PROVE Pushes(stack, "append", e, e)
<1>1. Pushes(stack, "append", e, Exec(e, TRUE))
  BY FrameBegins DEF ContinueMount
<1> QED BY <1>1 DEF Exec

LEMMA MovedFrame ==
  ASSUME NEW e \in Elements, NEW to, NEW mode, Move(e, to, mode)
  PROVE Pushes(stack, "moved", e, Nobody)
<1> DEFINE f == [Frame("moved", e) EXCEPT !.mode = mode, !.by = By]
<1>1. stack' = Append(stack, f)
  BY DEF Move
<1>2. f.kind = "moved" /\ f.el = e /\ f.exec = Nobody
  BY DEF Frame
<1> HIDE DEF f
<1>3. FrameOk(f)
  BY <1>2 DEF FrameOk
<1> QED BY <1>1, <1>2, <1>3 DEF Pushes

LEMMA TaskFrame ==
  ASSUME NEW t \in Tasks, RunTask(t)
  PROVE Pushes(stack, "task", TaskHost[t], Nobody)
<1> DEFINE f == [Frame("task", TaskHost[t]) EXCEPT !.task = t, !.by = cause[t]]
<1>1. stack' = Append(stack, f)
  BY DEF RunTask
<1>2. TaskHost[t] \in Elements
  BY RenderAssumption
<1>3. f.kind = "task" /\ f.el = TaskHost[t] /\ f.exec = Nobody /\ f.task = t
  BY DEF Frame
<1> HIDE DEF f
<1>4. FrameOk(f)
  BY <1>2, <1>3 DEF FrameOk
<1> QED BY <1>1, <1>3, <1>4 DEF Pushes

LEMMA DrainNextKeeps ==
  ASSUME SchedInv, DrainNext
  PROVE SchedInv'
<1> DEFINE n == queue.cursor + 1
           e == queue.slots[n]
           l == [queue.slots EXCEPT ![n] = Nobody]
           q == queue'
<1>0. /\ QueueOk(queue) /\ dirty \subseteq Elements /\ MicroOk(micro) /\ StackOk(stack)
      /\ Slotted(queue, stack) /\ Written(queue, dirty, stack) /\ Scheduled(queue, micro, stack)
  BY DEF SchedInv, Sched
<1>1. /\ queue.cursor < Len(queue.slots) /\ micro' = micro
      /\ q = [queue EXCEPT !.slots[n] = Nobody, !.cursor = @ + 1]
      /\ IF e = Nobody THEN UNCHANGED <<dirty, rc, stack>> ELSE BeginRender(e, "none")
  BY DEF DrainNext
<1>2. /\ queue.slots \in Seq(Elements \cup {Nobody}) /\ queue.index \in [Elements -> Nat]
      /\ queue.cursor \in Nat
      /\ queue \in [slots : Seq(Elements \cup {Nobody}), cursor : Nat, index : [Elements -> Nat],
                    scheduled : BOOLEAN]
  BY <1>0 DEF QueueOk
<1>3. q = [queue EXCEPT !.slots = l, !.cursor = n]
  BY <1>1, <1>2
<1>4. n \in Nat /\ n \in 1 .. Len(queue.slots) /\ n <= Len(queue.slots) /\ n # 0
  BY <1>1, <1>2
<1>5. /\ l \in Seq(Elements \cup {Nobody}) /\ Len(l) = Len(queue.slots) /\ l[n] = Nobody
      /\ \A i \in 1 .. Len(queue.slots) : i # n => l[i] = queue.slots[i]
  BY <1>2, <1>4
<1>6. e \in Elements \cup {Nobody}
  BY <1>2, <1>4
<1>7. \A i \in Nat : /\ i > n => i > queue.cursor /\ i # n
                     /\ i <= n => i = n \/ i <= queue.cursor
  BY <1>2
<1>a. queue.slots # <<>> /\ l # <<>> /\ n > queue.cursor
  BY <1>2, <1>4, <1>5
<1> HIDE DEF l, q, n
<1>8. q.slots = l /\ q.index = queue.index /\ q.scheduled = queue.scheduled /\ q.cursor = n
  BY <1>2, <1>3
<1>9. QueueOk(q)
  <2>1. q \in [slots : Seq(Elements \cup {Nobody}), cursor : Nat, index : [Elements -> Nat],
               scheduled : BOOLEAN]
    BY <1>2, <1>3, <1>4, <1>5
  <2> QED BY <1>4, <1>5, <1>8, <2>1 DEF QueueOk
<1>10. /\ StackKept(stack, stack') /\ dirty' \subseteq dirty
       /\ e \in Elements => Renders(stack', e)
  <2>1. CASE e = Nobody
    <3>1. dirty' = dirty /\ stack' = stack
      BY <1>1, <2>1
    <3> QED BY <1>0, <2>1, <3>1, RenderAssumption DEF StackKept
  <2>2. CASE e \in Elements
    <3>0. BeginRender(e, "none")
      BY <1>1, <2>2, RenderAssumption
    <3>a. Pushes(stack, "render", e, Exec(e, Observing(rc))) /\ dirty' = dirty \ {e}
      BY <2>2, <3>0, RenderFrame
    <3>1. PICK f : FrameOk(f) /\ f.kind = "render" /\ f.el = e /\ stack' = Append(stack, f)
      BY <3>a DEF Pushes
    <3>2. FrameOk(f) /\ f.kind = "render" /\ f.el = e
      BY <3>1
    <3>3. StackKept(stack, stack')
      BY <1>0, <3>1, <3>2, PushKeeps
    <3>4. Len(stack) \in Nat /\ Len(stack') = Len(stack) + 1 /\ stack'[Len(stack) + 1] = f
      BY <1>0, <3>1, Pushed, SeqFacts DEF StackOk
    <3>5. Len(stack) + 1 \in 1 .. Len(stack')
      BY <3>4
    <3> QED BY <3>a, <3>1, <3>2, <3>3, <3>4, <3>5 DEF Renders
  <2> QED BY <1>6, <2>1, <2>2
<1>11. Slotted(q, stack')
  <2>1. ASSUME NEW c \in Elements, queue.index[c] # 0
        PROVE /\ queue.index[c] <= Len(l)
              /\ queue.index[c] > n => l[queue.index[c]] = c
              /\ queue.index[c] <= n => Renders(stack', c)
    <3> DEFINE i == queue.index[c]
    <3>1. /\ i \in Nat /\ i # 0 /\ i <= Len(queue.slots)
          /\ i > queue.cursor => queue.slots[i] = c
          /\ i <= queue.cursor => Renders(stack, c)
      BY <1>0, <1>2, <2>1 DEF Slotted
    <3>2. i \in 1 .. Len(queue.slots)
      BY <1>2, <3>1
    <3> HIDE DEF i
    <3>3. i > n => l[i] = c
      BY <1>5, <1>7, <3>1, <3>2
    <3>4. i <= n => Renders(stack', c)
      <4>1. CASE i = n
        <5>1. e = c
          BY <1>a, <3>1, <4>1
        <5> QED BY <1>10, <5>1
      <4>2. CASE i <= queue.cursor
        BY <1>10, <3>1, <4>2 DEF StackKept
      <4> QED BY <1>7, <3>1, <4>1, <4>2
    <3> QED BY <1>5, <3>1, <3>3, <3>4 DEF i
  <2>2. ASSUME NEW i \in 1 .. Len(l), l[i] \in Elements PROVE queue.index[l[i]] = i
    <3>1. i # n
      BY <1>5, <2>2, RenderAssumption
    <3> QED BY <1>0, <1>5, <2>2, <3>1 DEF Slotted
  <2> QED BY <1>8, <2>1, <2>2 DEF Slotted
<1>12. Written(q, dirty', stack')
  BY <1>0, <1>8, <1>10 DEF Written, StackKept
<1>13. Scheduled(q, micro', stack')
  BY <1>0, <1>1, <1>8, <1>10, <1>a DEF Scheduled, StackKept
<1>14. dirty' \subseteq Elements /\ StackOk(stack')
  BY <1>0, <1>10 DEF StackKept
<1> QED BY <1>0, <1>1, <1>9, <1>11, <1>12, <1>13, <1>14 DEF SchedInv, Sched, q


\* Steps that leave the queue and the microtasks alone.
Still == queue' = queue /\ dirty' \subseteq dirty /\ micro' = micro

LEMMA StillKeeps ==
  ASSUME SchedInv, Still, StackKept(stack, stack')
  PROVE SchedInv'
BY QuietKeeps DEF SchedInv, Sched, Still

LEMMA SameKeeps ==
  ASSUME SchedInv, Still, stack' = stack
  PROVE SchedInv'
<1>1. StackKept(stack, stack')
  BY DEF SchedInv, Sched, StackKept
<1> QED BY <1>1, StillKeeps

LEMMA PushesKeeps ==
  ASSUME SchedInv, Still, NEW kind, NEW e, NEW x,
         \/ Pushes(stack, kind, e, x)
         \/ stack # <<>> /\ Top.kind \notin {"render", "drain"} /\ Pushes(Front(stack), kind, e, x)
  PROVE SchedInv'
<1>1. StackOk(stack)
  BY DEF SchedInv, Sched
<1>2. StackKept(stack, stack')
  BY <1>1, PushKeeps, ReplaceKeeps DEF Pushes, Top
<1> QED BY <1>2, StillKeeps

LEMMA PopsKeeps ==
  ASSUME SchedInv, Still, stack # <<>>, Top.kind \notin {"render", "drain"}, stack' = Front(stack)
  PROVE SchedInv'
<1>1. StackOk(stack)
  BY DEF SchedInv, Sched
<1>2. StackKept(stack, stack')
  BY <1>1, PopKeeps DEF Top
<1> QED BY <1>2, StillKeeps

LEMMA BeginsKeep ==
  ASSUME SchedInv, NEW e \in Elements, NEW to,
         \/ ContinueMount(e) \/ Flush(e) \/ Refresh(e) \/ Call(e) \/ Upgrade(e)
         \/ DisposeChild(e) \/ TakeOut(e) \/ PutIn(e, to)
  PROVE SchedInv'
<1>1. CASE ContinueMount(e)
  BY <1>1, MountFrame, PushesKeeps DEF ContinueMount, Still
<1>3. CASE Flush(e)
  <2>1. BeginRender(e, "flush") /\ queue' = queue /\ micro' = micro
    BY <1>3 DEF Flush
  <2> QED BY <2>1, RenderFrame, PushesKeeps DEF Still
<1>4. CASE Refresh(e)
  <2>1. BeginRefresh(e, stack, rc) /\ queue' = queue /\ micro' = micro
    BY <1>4 DEF Refresh
  <2> QED BY <2>1, RefreshFrame, PushesKeeps DEF Still
<1>5. CASE Call(e)
  <2>1. BeginCall(e, "none", stack, rc, Observing(rc)) /\ queue' = queue /\ micro' = micro /\ dirty' = dirty
    BY <1>5 DEF Call
  <2> QED BY <2>1, CallFrame, PushesKeeps DEF Still
<1>6. CASE Upgrade(e)
  <2>1. PICK J : BeginCall(e, "mount", stack, J, Observing(rc))
    BY <1>6 DEF Upgrade
  <2>2. queue' = queue /\ micro' = micro /\ dirty' = dirty
    BY <1>6 DEF Upgrade
  <2>3. Pushes(stack, "call", e, Exec(e, Observing(rc)))
    BY <2>1, CallFrame
  <2> QED BY <2>2, <2>3, PushesKeeps DEF Still
<1>7. CASE DisposeChild(e) \/ TakeOut(e) \/ PutIn(e, to)
  <2>1. \E at, mode : Move(e, at, mode)
    BY <1>7 DEF DisposeChild, TakeOut, PutIn
  <2>2. PICK at, mode : Move(e, at, mode)
    BY <2>1
  <2>3. Pushes(stack, "moved", e, Nobody) /\ queue' = queue /\ micro' = micro /\ dirty' = dirty
    BY <2>2, MovedFrame DEF Move
  <2> QED BY <2>3, PushesKeeps DEF Still
<1> QED BY <1>1, <1>3, <1>4, <1>5, <1>6, <1>7

LEMMA EndsKeep ==
  ASSUME SchedInv, NEW failed, NEW kind \in {"refresh", "append"},
         EndCall(failed) \/ EndTask(failed) \/ EndGated(kind, failed)
  PROVE SchedInv'
<1>1. stack # <<>> /\ Top.kind \notin {"render", "drain"} /\ stack' = Front(stack)
  BY DEF EndCall, EndTask, EndGated
<1>2. Still
  BY DEF EndCall, EndTask, EndGated, Still
<1> QED BY <1>1, <1>2, PopsKeeps

LEMMA ReconnectedKeeps ==
  ASSUME SchedInv, Reconnected
  PROVE SchedInv'
<1> DEFINE e == Top.el
           S == [rc EXCEPT !.refs = Front(@)]
<1>1. stack # <<>> /\ Top.kind = "moved" /\ queue' = queue /\ micro' = micro
  BY DEF Reconnected
<1>2. e \in Elements
  BY <1>1, TopFacts DEF FrameOk
<1>3. \/ dirty' = dirty /\ BeginCall(e, "mount", Front(stack), S, Observing(S))
      \/ BeginRefresh(e, Front(stack), S)
      \/ dirty' = dirty /\ stack' = Front(stack)
  BY DEF Reconnected
<1> HIDE DEF S
<1>4. CASE dirty' = dirty /\ BeginCall(e, "mount", Front(stack), S, Observing(S))
  BY <1>1, <1>2, <1>4, CallFrame, PushesKeeps DEF Still
<1>5. CASE BeginRefresh(e, Front(stack), S)
  BY <1>1, <1>2, <1>5, RefreshFrame, PushesKeeps DEF Still
<1>6. CASE dirty' = dirty /\ stack' = Front(stack)
  BY <1>1, <1>6, PopsKeeps DEF Still
<1> QED BY <1>3, <1>4, <1>5, <1>6

LEMMA StaysKeep ==
  ASSUME SchedInv,
         \/ RenderAgain \/ Catch \/ Throw \/ DeferMount
         \/ \E e \in Elements : StylesheetFails(e) \/ BlockWrite(e)
         \/ \E t \in Tasks : QueueTask(t) \/ Cancel(t)
  PROVE SchedInv'
<1>1. Still /\ stack' = stack
  BY DEF RenderAgain, Catch, Throw, DeferMount, StylesheetFails, BlockWrite, QueueTask, Cancel, Still
<1> QED BY <1>1, SameKeeps

LEMMA RunTaskKeeps ==
  ASSUME SchedInv, NEW t \in Tasks, RunTask(t)
  PROVE SchedInv'
BY TaskFrame, PushesKeeps DEF RunTask, Still

LEMMA SameStack ==
  ASSUME SchedInv, stack' = stack
  PROVE StackKept(stack, stack') /\ MicroOk(micro)
BY DEF SchedInv, Sched, StackKept

LEMMA WhenRenderedKeeps ==
  ASSUME SchedInv, NEW c \in Requests, WhenRendered(c)
  PROVE SchedInv'
<1>1. queue' = queue /\ dirty' = dirty /\ stack' = stack
  BY DEF WhenRendered
<1>2. micro' = micro \/ micro' = Append(micro, <<"seal", c>>)
  BY DEF WhenRendered
<1>3. MicroOk(micro') /\ (DrainComes(micro) => DrainComes(micro'))
  BY <1>1, <1>2, SameStack, MicroPushed
<1> QED BY <1>1, <1>3, SameStack, QuietKeeps

LEMMA SealKeeps ==
  ASSUME SchedInv, Seal
  PROVE SchedInv'
<1>1. queue' = queue /\ dirty' = dirty /\ stack' = stack
  BY DEF Seal
<1>2. micro # <<>> /\ Head(micro)[1] = "seal" /\ micro' = Tail(micro)
  BY DEF Seal, Microtask
<1>3. MicroOk(micro') /\ (DrainComes(micro) => DrainComes(micro'))
  BY <1>1, <1>2, SameStack, MicroPopped
<1> QED BY <1>1, <1>3, SameStack, QuietKeeps

LEMMA DestroyedKeeps ==
  ASSUME SchedInv, DestroyComponent
  PROVE SchedInv'
<1> DEFINE e == Head(micro)[2]
<1>1. micro # <<>> /\ Head(micro)[1] = "destroy" /\ micro' = Tail(micro) /\ stack' = stack
  BY DEF DestroyComponent, Microtask
<1>2. \/ queue' = Unslotted(queue, e) /\ dirty' = dirty \ {e}
      \/ queue' = queue /\ dirty' = dirty
  BY DEF DestroyComponent
<1>3. e \in Elements /\ MicroOk(micro') /\ (DrainComes(micro) => DrainComes(micro'))
  BY <1>1, SameStack, MicroPopped
<1>4. CASE queue' = queue /\ dirty' = dirty
  BY <1>1, <1>3, <1>4, SameStack, QuietKeeps
<1>5. CASE queue' = Unslotted(queue, e) /\ dirty' = dirty \ {e}
  <2>1. Sched(queue, dirty, micro, stack) /\ StackOk(stack)
    BY DEF SchedInv, Sched
  <2>2. Sched(Unslotted(queue, e), dirty \ {e}, micro, stack)
    BY <1>3, <2>1, UnslotKeeps
  <2>3. Sched(Unslotted(queue, e), dirty \ {e}, micro', stack)
    BY <1>3, <2>2 DEF Sched, Scheduled
  <2> QED BY <1>1, <1>5, <2>3 DEF SchedInv
<1> QED BY <1>2, <1>4, <1>5

LEMMA Listed ==
  ASSUME NEW B, IsFiniteSet(B)
  PROVE Cardinality(B) \in Nat /\ SetToSeq(B) \in [1 .. Cardinality(B) -> B]
<1>1. Cardinality(B) \in Nat /\ \E f \in [1 .. Cardinality(B) -> B] : IsInjective(f)
  BY FS_CardinalityType DEF ExistsBijection, Bijection, Injection
<1> QED BY <1>1 DEF SetToSeq

LEMMA DisconnectedKeeps ==
  ASSUME SchedInv, Disconnected
  PROVE SchedInv'
<1> DEFINE B == Below(Top.el) \cap mounted
           n == Cardinality(B)
           m == [i \in 1 .. n |-> <<"destroy", SetToSeq(B)[i]>>]
<1>1. /\ stack # <<>> /\ Top.kind = "moved" /\ stack' = Front(stack) /\ micro' = micro \o m
      /\ queue' = queue /\ dirty' = dirty
  BY DEF Disconnected
<1>2. B \subseteq Elements /\ IsFiniteSet(B)
  BY FS_Subset, RenderAssumption DEF Below
<1>3. n \in Nat /\ \A i \in 1 .. n : SetToSeq(B)[i] \in B
  BY <1>2, Listed
<1> HIDE DEF n
<1>4. m \in Seq({m[i] : i \in 1 .. n}) /\ Len(m) = n
  BY <1>3
<1>5. \A i \in 1 .. n : m[i][1] = "destroy" /\ m[i][2] \in Elements
  BY <1>2, <1>3
<1>6. IsSeq(m)
  BY <1>4 DEF IsSeq
<1> HIDE DEF m, B
<1>7. MicroOk(micro) /\ StackOk(stack) /\ IsSeq(micro)
  BY DEF SchedInv, Sched, MicroOk
<1>8. Len(micro) \in Nat
  BY <1>7, SeqFacts
<1>9. /\ IsSeq(micro') /\ Len(micro') = Len(micro) + n
      /\ \A i \in 1 .. Len(micro) : micro'[i] = micro[i]
      /\ \A i \in 1 .. n : micro'[Len(micro) + i] = m[i]
  <2>1. /\ IsSeq(micro \o m) /\ Len(micro \o m) = Len(micro) + Len(m)
        /\ \A i \in 1 .. Len(micro) : (micro \o m)[i] = micro[i]
        /\ \A i \in 1 .. Len(m) : (micro \o m)[Len(micro) + i] = m[i]
    BY <1>6, <1>7, Joined
  <2> QED BY <1>1, <1>4, <2>1
<1>10. \A k \in 1 .. Len(micro') : k \in 1 .. Len(micro) \/ \E i \in 1 .. n : k = Len(micro) + i
  <2>1. TAKE k \in 1 .. Len(micro')
  <2>2. CASE k > Len(micro)
    <3>1. k - Len(micro) \in 1 .. n /\ k = Len(micro) + (k - Len(micro))
      BY <1>3, <1>8, <1>9, <2>2
    <3> QED BY <3>1
  <2> QED BY <1>8, <1>9, <2>2
<1>11. MicroOk(micro')
  <2>1. ASSUME NEW k \in 1 .. Len(micro')
        PROVE /\ micro'[k][1] = "destroy" => micro'[k][2] \in Elements
              /\ micro'[k][1] = "seal" => micro'[k][2] \in Requests
    <3>1. CASE k \in 1 .. Len(micro)
      BY <1>7, <1>9, <3>1 DEF MicroOk
    <3>2. CASE \E i \in 1 .. n : k = Len(micro) + i
      BY <1>5, <1>9, <3>2
    <3> QED BY <1>10, <3>1, <3>2
  <2> QED BY <1>9, <2>1 DEF MicroOk
<1>12. DrainComes(micro) => DrainComes(micro')
  <2>1. \A k \in 1 .. Len(micro) : k \in 1 .. Len(micro')
    BY <1>3, <1>8, <1>9
  <2> QED BY <1>9, <2>1 DEF DrainComes
<1>13. StackKept(stack, stack')
  BY <1>1, <1>7, PopKeeps DEF Top
<1> QED BY <1>1, <1>11, <1>12, <1>13, QuietKeeps

LEMMA SchedStarts == RenderInit => SchedInv
<1> SUFFICES ASSUME RenderInit PROVE SchedInv
  OBVIOUS
<1>1. /\ queue = [slots |-> <<>>, cursor |-> 0, index |-> [e \in Elements |-> 0], scheduled |-> FALSE]
      /\ dirty = {} /\ stack = <<>> /\ micro = <<>>
  BY DEF RenderInit
<1>2. /\ queue.slots = <<>> /\ queue.cursor = 0 /\ queue.scheduled = FALSE
      /\ queue.index = [e \in Elements |-> 0]
  BY <1>1
<1>3. <<>> \in Seq(Elements \cup {Nobody}) /\ Len(<<>>) = 0 /\ <<>> \in Seq({}) /\ 0 \in Nat
  OBVIOUS
<1>4. IsSeq(<<>>) /\ \A k : k \notin 1 .. Len(<<>>)
  BY <1>3 DEF IsSeq
<1>5. QueueOk(queue)
  <2>1. [e \in Elements |-> 0] \in [Elements -> Nat]
    OBVIOUS
  <2>2. queue \in [slots : Seq(Elements \cup {Nobody}), cursor : Nat, index : [Elements -> Nat],
                   scheduled : BOOLEAN]
    BY <1>1, <1>3, <2>1
  <2> QED BY <1>2, <1>3, <2>2 DEF QueueOk
<1>6. MicroOk(micro) /\ StackOk(stack)
  BY <1>1, <1>4 DEF MicroOk, StackOk
<1>7. Slotted(queue, stack) /\ Written(queue, dirty, stack) /\ Scheduled(queue, micro, stack)
  BY <1>1, <1>2, <1>4 DEF Slotted, Written, Scheduled
<1> QED BY <1>1, <1>5, <1>6, <1>7 DEF SchedInv, Sched

LEMMA SchedSteps == SchedInv /\ [RenderNext]_renderVars => SchedInv'
<1> SUFFICES ASSUME SchedInv, [RenderNext]_renderVars PROVE SchedInv'
  OBVIOUS
<1>1. CASE UNCHANGED renderVars
  BY <1>1, SameKeeps DEF renderVars, Still
<1>2. CASE System
  BY <1>2, DisconnectedKeeps, DestroyedKeeps, DrainKeeps, DrainNextKeeps, DrainEndKeeps, SealKeeps,
     StaysKeep, ReconnectedKeeps, EndRenderKeeps, EndsKeep, BeginsKeep, RunTaskKeeps DEF System
<1>3. CASE FreeStep
  BY <1>3, StaysKeep, WriteKeeps, BeginsKeep, WhenRenderedKeeps DEF FreeStep
<1> QED BY <1>1, <1>2, <1>3 DEF RenderNext

LEMMA SchedMeans == SchedInv => WrittenIsQueued
<1> SUFFICES ASSUME SchedInv, NEW e \in dirty, ~Renders(stack, e)
             PROVE \E i \in queue.cursor + 1 .. Len(queue.slots) :
                      /\ queue.slots[i] = e /\ queue.index[e] = i
                      /\ \/ \E k \in DOMAIN micro : micro[k][1] = "drain"
                         \/ \E k \in DOMAIN stack : stack[k].kind = "drain"
  <2>1. DOMAIN stack = 1 .. Len(stack)
    BY SeqFacts DEF SchedInv, Sched, StackOk
  <2> QED BY <2>1 DEF WrittenIsQueued, Renders
<1>1. /\ QueueOk(queue) /\ dirty \subseteq Elements /\ MicroOk(micro) /\ StackOk(stack)
      /\ Slotted(queue, stack) /\ Written(queue, dirty, stack) /\ Scheduled(queue, micro, stack)
  BY DEF SchedInv, Sched
<1>2. queue.index[e] # 0 /\ queue.index[e] \in Nat /\ queue.cursor \in Nat /\ Len(queue.slots) \in Nat
  BY <1>1 DEF Written, QueueOk
<1>3. /\ queue.index[e] <= Len(queue.slots) /\ queue.index[e] > queue.cursor
      /\ queue.slots[queue.index[e]] = e
  BY <1>1, <1>2 DEF Slotted
<1>4. queue.index[e] \in queue.cursor + 1 .. Len(queue.slots)
  BY <1>2, <1>3
<1>5. queue.slots # <<>>
  BY <1>2, <1>3
<1>6. DOMAIN stack = 1 .. Len(stack) /\ DOMAIN micro = 1 .. Len(micro)
  BY <1>1, SeqFacts DEF StackOk, MicroOk
<1>7. DrainComes(micro) \/ Drains(stack)
  BY <1>1, <1>5 DEF Scheduled
<1> QED BY <1>3, <1>4, <1>6, <1>7 DEF DrainComes, Drains

-----------------------------------------------------------------------------
(* Folds.  A fold over X is a function on the subsets of X, which takes one  *)
(* element at a time.                                                        *)

LEMMA Least ==
  ASSUME NEW T, T \subseteq Nat, T # {}
  PROVE \E n \in T : \A m \in T : n <= m
<1>1. PICK x \in T : \A y \in T : ~ (<<y, x>> \in OpToRel(<, Nat))
  BY WFMin, NatLessThanWellFounded
<1>2. \A y \in T : ~(y < x)
  BY <1>1 DEF OpToRel
<1> QED BY <1>2

Picked(s) == CHOOSE x \in s : TRUE

LEMMA PickedFacts ==
  ASSUME NEW S, IsFiniteSet(S), NEW s \in SUBSET S, s # {}
  PROVE /\ Picked(s) \in s /\ s \ {Picked(s)} \in SUBSET S
        /\ Cardinality(s) \in Nat /\ Cardinality(s) # 0
        /\ Cardinality(s \ {Picked(s)}) = Cardinality(s) - 1
<1>1. Picked(s) \in s
  BY DEF Picked
<1>2. IsFiniteSet(s)
  BY FS_Subset
<1> QED BY <1>1, <1>2, FS_CardinalityType, FS_EmptySet, FS_RemoveElement

\* What holds of nothing, and of a set whenever it holds of the set without
\* the element that is taken next, holds of X.
LEMMA OneByOne ==
  ASSUME NEW X, IsFiniteSet(X), NEW J, {} \in J,
         \A s \in SUBSET X : s # {} /\ s \ {Picked(s)} \in J => s \in J
  PROVE \A s \in SUBSET X : s \in J
<1> DEFINE Bad == {n \in Nat : \E s \in SUBSET X : Cardinality(s) = n /\ s \notin J}
<1>1. SUFFICES ASSUME NEW s \in SUBSET X, s \notin J PROVE FALSE
  OBVIOUS
<1>2. Cardinality(s) \in Bad
  <2>1. s # {}
    BY <1>1
  <2> QED BY <1>1, <2>1, PickedFacts
<1>3. PICK n \in Bad : \A m \in Bad : n <= m
  BY <1>2, Least
<1>4. PICK T \in SUBSET X : Cardinality(T) = n /\ T \notin J
  BY <1>3
<1> DEFINE u == T \ {Picked(T)}
<1>5. T # {} /\ u \in SUBSET X /\ Cardinality(T) \in Nat /\ Cardinality(u) = Cardinality(T) - 1 /\ Cardinality(T) # 0
  BY <1>4, PickedFacts
<1>6. Cardinality(u) \in Nat /\ ~(n <= Cardinality(u))
  BY <1>4, <1>5
<1>7. Cardinality(u) \notin Bad
  <2> HIDE DEF Bad
  <2> QED BY <1>3, <1>6
<1>8. u \in J
  <2> HIDE DEF u
  <2> QED BY <1>5, <1>6, <1>7
<1> QED BY <1>4, <1>5, <1>8

FoldBy(g, F, b, s) == IF s = {} THEN b ELSE F[Picked(s)][g[s \ {Picked(s)}]]

Solves(g, X, F, b) ==
  /\ DOMAIN g = SUBSET X /\ g = [s \in SUBSET X |-> g[s]]
  /\ \A s \in SUBSET X : g[s] = FoldBy(g, F, b, s)

LEMMA FoldSolved ==
  ASSUME NEW X, IsFiniteSet(X), NEW F, NEW b
  PROVE \E g : Solves(g, X, F, b)
<1> DEFINE Upto(g, n) == \A s \in SUBSET X : Cardinality(s) <= n => g[s] = FoldBy(g, F, b, s)
           Some(n) == \E g : DOMAIN g = SUBSET X /\ g = [s \in SUBSET X |-> g[s]] /\ Upto(g, n)
           Bad == {n \in Nat : ~Some(n)}
<1>1. Some(0)
  <2> DEFINE g == [s \in SUBSET X |-> b]
  <2>1. ASSUME NEW s \in SUBSET X, Cardinality(s) <= 0 PROVE s = {}
    <3>1. s # {} => Cardinality(s) \in Nat /\ Cardinality(s) # 0
      BY PickedFacts
    <3> QED BY <2>1, <3>1
  <2>2. Upto(g, 0)
    BY <2>1 DEF FoldBy
  <2>3. DOMAIN g = SUBSET X /\ g = [s \in SUBSET X |-> g[s]]
    OBVIOUS
  <2> QED BY <2>2, <2>3
<1>2. ASSUME NEW n \in Nat, Some(n) PROVE Some(n + 1)
  <2>1. PICK g : DOMAIN g = SUBSET X /\ g = [s \in SUBSET X |-> g[s]] /\ Upto(g, n)
    BY <1>2
  <2> DEFINE h == [s \in SUBSET X |-> FoldBy(g, F, b, s)]
  <2>2. ASSUME NEW s \in SUBSET X, Cardinality(s) <= n + 1
        PROVE FoldBy(h, F, b, s) = FoldBy(g, F, b, s)
    <3>1. CASE s = {}
      BY <3>1 DEF FoldBy
    <3>2. CASE s # {}
      <4> DEFINE u == s \ {Picked(s)}
      <4>1. u \in SUBSET X /\ Cardinality(u) <= n
        BY <2>2, <3>2, PickedFacts
      <4>2. h[u] = FoldBy(g, F, b, u)
        BY <4>1
      <4>3. g[u] = FoldBy(g, F, b, u)
        BY <2>1, <4>1
      <4> QED BY <3>2, <4>2, <4>3 DEF FoldBy
    <3> QED BY <3>1, <3>2
  <2>3. Upto(h, n + 1)
    BY <2>2
  <2>4. DOMAIN h = SUBSET X /\ h = [s \in SUBSET X |-> h[s]]
    OBVIOUS
  <2> QED BY <2>3, <2>4
<1> HIDE DEF Some
<1>3. Bad = {}
  <2>1. SUFFICES ASSUME Bad # {} PROVE FALSE
    OBVIOUS
  <2>2. PICK n \in Bad : \A m \in Bad : n <= m
    BY <2>1, Least
  <2>3. n \in Nat /\ ~Some(n)
    BY <2>2
  <2>4. n # 0
    BY <1>1, <2>3
  <2>5. n - 1 \in Nat /\ n - 1 \notin Bad
    BY <2>2, <2>3, <2>4
  <2>6. Some(n - 1)
    BY <2>5
  <2>7. Some((n - 1) + 1)
    BY <1>2, <2>5, <2>6
  <2>8. (n - 1) + 1 = n
    BY <2>3
  <2> QED BY <2>3, <2>7, <2>8
<1>4. Cardinality(X) \in Nat
  BY FS_CardinalityType
<1>5. Some(Cardinality(X))
  BY <1>3, <1>4
<1>6. PICK g : DOMAIN g = SUBSET X /\ g = [s \in SUBSET X |-> g[s]] /\ Upto(g, Cardinality(X))
  BY <1>5 DEF Some
<1>7. \A s \in SUBSET X : g[s] = FoldBy(g, F, b, s)
  BY <1>6, FS_Subset
<1> QED BY <1>6, <1>7 DEF Solves

Inside(g, X, D) == \A s \in SUBSET X : s # {} => Picked(s) \in X /\ g[s \ {Picked(s)}] \in D

LEMMA FoldInside ==
  ASSUME NEW X, IsFiniteSet(X), NEW D, NEW b \in D, NEW F, F \in [X -> [D -> D]]
  PROVE \E g : Solves(g, X, F, b) /\ Inside(g, X, D)
<1>1. PICK g : Solves(g, X, F, b)
  BY FoldSolved
<1> DEFINE J == {s \in SUBSET X : g[s] \in D}
<1>2. \A s \in SUBSET X : g[s] = FoldBy(g, F, b, s)
  BY <1>1 DEF Solves
<1>3. {} \in J
  BY <1>2 DEF FoldBy
<1>4. ASSUME NEW s \in SUBSET X, s # {} /\ s \ {Picked(s)} \in J PROVE s \in J
  <2>1. Picked(s) \in X
    BY <1>4, PickedFacts
  <2>2. F[Picked(s)] \in [D -> D] /\ g[s \ {Picked(s)}] \in D
    BY <1>4, <2>1
  <2>3. g[s] = F[Picked(s)][g[s \ {Picked(s)}]]
    BY <1>2, <1>4 DEF FoldBy
  <2> QED BY <2>2, <2>3
<1>5. \A s \in SUBSET X : s \in J
  <2> HIDE DEF J
  <2> QED BY <1>3, <1>4, OneByOne
<1>6. Inside(g, X, D)
  BY <1>5, PickedFacts DEF Inside
<1> QED BY <1>1, <1>6

LEMMA FoldStays ==
  ASSUME NEW X, IsFiniteSet(X), NEW D, NEW g, g[{}] \in D,
         \A s \in SUBSET X : s # {} /\ g[s \ {Picked(s)}] \in D => g[s] \in D
  PROVE \A s \in SUBSET X : g[s] \in D
<1> DEFINE J == {s \in SUBSET X : g[s] \in D}
<1>1. {} \in J
  OBVIOUS
<1>2. ASSUME NEW s \in SUBSET X, s # {} /\ s \ {Picked(s)} \in J PROVE s \in J
  BY <1>2
<1> HIDE DEF J
<1>3. \A s \in SUBSET X : s \in J
  BY <1>1, <1>2, OneByOne
<1> QED BY <1>3 DEF J

\* One lemma for each loop of the code: the set D is what an iteration keeps.
DropAll(S, X, c) == FoldSet(LAMBDA w, T : Drop(T, w, c), S, X)
DropRun(g, D, S, X, c) ==
  /\ DropAll(S, X, c) = g[X]
  /\ g[{}] = S /\ \A s \in SUBSET X : g[s] \in D
  /\ \A s \in SUBSET X : s # {} => g[s] = Drop(g[s \ {Picked(s)}], Picked(s), c)

LEMMA DropFold ==
  ASSUME NEW X, IsFiniteSet(X), NEW D, NEW S \in D, NEW c,
         \A x \in X, T \in D : Drop(T, x, c) \in D
  PROVE \E g : DropRun(g, D, S, X, c)
<1> DEFINE F == [x \in X |-> [T \in D |-> Drop(T, x, c)]]
           E(g, s) == IF s = {} THEN S ELSE Drop(g[s \ {Picked(s)}], Picked(s), c)
           h == CHOOSE h : h = [s \in SUBSET X |-> E(h, s)]
<1>1. F \in [X -> [D -> D]] /\ \A x \in X, T \in D : F[x][T] = Drop(T, x, c)
  OBVIOUS
<1> HIDE DEF F
<1>2. PICK g : Solves(g, X, F, S) /\ Inside(g, X, D)
  BY <1>1, FoldInside
<1>3. \A s \in SUBSET X : g[s] = E(g, s)
  BY <1>1, <1>2 DEF Solves, FoldBy, Inside
<1>4. g = [s \in SUBSET X |-> E(g, s)]
  BY <1>2, <1>3 DEF Solves
<1>5. h = [s \in SUBSET X |-> E(h, s)]
  BY <1>4
<1>6. DropAll(S, X, c) = h[X]
  BY DEF DropAll, FoldSet, MapThenFoldSet, Picked
<1> HIDE DEF h
<1>7. \A s \in SUBSET X : h[s] = E(h, s)
  BY <1>5
<1>8. ASSUME NEW s \in SUBSET X, s # {}, h[s \ {Picked(s)}] \in D PROVE h[s] \in D
  <2>1. Picked(s) \in X
    BY <1>8, PickedFacts
  <2>2. h[s] = Drop(h[s \ {Picked(s)}], Picked(s), c)
    BY <1>7, <1>8
  <2> QED BY <1>8, <2>1, <2>2
<1>9. \A s \in SUBSET X : h[s] \in D
  BY <1>7, <1>8, FoldStays, ZenonT(30)
<1> QED BY <1>6, <1>7, <1>9 DEF DropRun

LEMMA ReleaseFold ==
  ASSUME NEW X, IsFiniteSet(X), NEW D, NEW S \in D, NEW out,
         \A x \in X, T \in D : Release(T, x, out) \in D
  PROVE ReleaseAll(S, X, out) \in D
<1> DEFINE F == [x \in X |-> [T \in D |-> Release(T, x, out)]]
           E(g, s) == IF s = {} THEN S ELSE Release(g[s \ {Picked(s)}], Picked(s), out)
           h == CHOOSE h : h = [s \in SUBSET X |-> E(h, s)]
<1>1. F \in [X -> [D -> D]] /\ \A x \in X, T \in D : F[x][T] = Release(T, x, out)
  OBVIOUS
<1> HIDE DEF F
<1>2. PICK g : Solves(g, X, F, S) /\ Inside(g, X, D)
  BY <1>1, FoldInside
<1>3. \A s \in SUBSET X : g[s] = E(g, s)
  BY <1>1, <1>2 DEF Solves, FoldBy, Inside
<1>4. g = [s \in SUBSET X |-> E(g, s)]
  BY <1>2, <1>3 DEF Solves
<1>5. h = [s \in SUBSET X |-> E(h, s)]
  BY <1>4
<1>6. ReleaseAll(S, X, out) = h[X]
  BY DEF ReleaseAll, FoldSet, MapThenFoldSet, Picked
<1> HIDE DEF h
<1>7. \A s \in SUBSET X : h[s] = E(h, s)
  BY <1>5
<1>8. ASSUME NEW s \in SUBSET X, s # {}, h[s \ {Picked(s)}] \in D PROVE h[s] \in D
  <2>1. Picked(s) \in X
    BY <1>8, PickedFacts
  <2>2. h[s] = Release(h[s \ {Picked(s)}], Picked(s), out)
    BY <1>7, <1>8
  <2> QED BY <1>8, <2>1, <2>2
<1>9. \A s \in SUBSET X : h[s] \in D
  BY <1>7, <1>8, FoldStays, ZenonT(30)
<1> QED BY <1>6, <1>7, <1>9

LEMMA ScopeFold ==
  ASSUME NEW X, IsFiniteSet(X), NEW D, NEW S \in D, NEW c,
         \A x \in X, T \in D : Include(T, x, c) \in D
  PROVE IncludeAll(S, X, c) \in D
<1> DEFINE F == [x \in X |-> [T \in D |-> Include(T, x, c)]]
           E(g, s) == IF s = {} THEN S ELSE Include(g[s \ {Picked(s)}], Picked(s), c)
           h == CHOOSE h : h = [s \in SUBSET X |-> E(h, s)]
<1>1. F \in [X -> [D -> D]] /\ \A x \in X, T \in D : F[x][T] = Include(T, x, c)
  OBVIOUS
<1> HIDE DEF F
<1>2. PICK g : Solves(g, X, F, S) /\ Inside(g, X, D)
  BY <1>1, FoldInside
<1>3. \A s \in SUBSET X : g[s] = E(g, s)
  BY <1>1, <1>2 DEF Solves, FoldBy, Inside
<1>4. g = [s \in SUBSET X |-> E(g, s)]
  BY <1>2, <1>3 DEF Solves
<1>5. h = [s \in SUBSET X |-> E(h, s)]
  BY <1>4
<1>6. IncludeAll(S, X, c) = h[X]
  BY DEF IncludeAll, FoldSet, MapThenFoldSet, Picked
<1> HIDE DEF h
<1>7. \A s \in SUBSET X : h[s] = E(h, s)
  BY <1>5
<1>8. ASSUME NEW s \in SUBSET X, s # {}, h[s \ {Picked(s)}] \in D PROVE h[s] \in D
  <2>1. Picked(s) \in X
    BY <1>8, PickedFacts
  <2>2. h[s] = Include(h[s \ {Picked(s)}], Picked(s), c)
    BY <1>7, <1>8
  <2> QED BY <1>8, <2>1, <2>2
<1>9. \A s \in SUBSET X : h[s] \in D
  BY <1>7, <1>8, FoldStays, ZenonT(30)
<1> QED BY <1>6, <1>7, <1>9

IncludeEach(S, X, w) == FoldSet(LAMBDA c, T : Include(T, w, c), S, X)

LEMMA IncludeFold ==
  ASSUME NEW X, IsFiniteSet(X), NEW D, NEW S \in D, NEW w,
         \A x \in X, T \in D : Include(T, w, x) \in D
  PROVE IncludeEach(S, X, w) \in D
<1> DEFINE F == [x \in X |-> [T \in D |-> Include(T, w, x)]]
           E(g, s) == IF s = {} THEN S ELSE Include(g[s \ {Picked(s)}], w, Picked(s))
           h == CHOOSE h : h = [s \in SUBSET X |-> E(h, s)]
<1>1. F \in [X -> [D -> D]] /\ \A x \in X, T \in D : F[x][T] = Include(T, w, x)
  OBVIOUS
<1> HIDE DEF F
<1>2. PICK g : Solves(g, X, F, S) /\ Inside(g, X, D)
  BY <1>1, FoldInside
<1>3. \A s \in SUBSET X : g[s] = E(g, s)
  BY <1>1, <1>2 DEF Solves, FoldBy, Inside
<1>4. g = [s \in SUBSET X |-> E(g, s)]
  BY <1>2, <1>3 DEF Solves
<1>5. h = [s \in SUBSET X |-> E(h, s)]
  BY <1>4
<1>6. IncludeEach(S, X, w) = h[X]
  BY DEF IncludeEach, FoldSet, MapThenFoldSet, Picked
<1> HIDE DEF h
<1>7. \A s \in SUBSET X : h[s] = E(h, s)
  BY <1>5
<1>8. ASSUME NEW s \in SUBSET X, s # {}, h[s \ {Picked(s)}] \in D PROVE h[s] \in D
  <2>1. Picked(s) \in X
    BY <1>8, PickedFacts
  <2>2. h[s] = Include(h[s \ {Picked(s)}], w, Picked(s))
    BY <1>7, <1>8
  <2> QED BY <1>8, <2>1, <2>2
<1>9. \A s \in SUBSET X : h[s] \in D
  BY <1>7, <1>8, FoldStays, ZenonT(30)
<1> QED BY <1>6, <1>7, <1>9

DetachEach(S, X, e, lost) == FoldSet(LAMBDA c, U : Detached(U, e, c, Lost(e, c) /\ c \notin lost), S, X)
DetachRun(g, D, S, X, e, lost) ==
  /\ DetachEach(S, X, e, lost) = g[X]
  /\ g[{}] = S /\ \A s \in SUBSET X : g[s] \in D
  /\ \A s \in SUBSET X : s # {} => g[s] = Detached(g[s \ {Picked(s)}], e, Picked(s), Lost(e, Picked(s)) /\ Picked(s) \notin lost)

LEMMA DetachFold ==
  ASSUME NEW X, IsFiniteSet(X), NEW D, NEW S \in D, NEW e, NEW lost,
         \A x \in X, T \in D : Detached(T, e, x, Lost(e, x) /\ x \notin lost) \in D
  PROVE \E g : DetachRun(g, D, S, X, e, lost)
<1> DEFINE F == [x \in X |-> [T \in D |-> Detached(T, e, x, Lost(e, x) /\ x \notin lost)]]
           E(g, s) == IF s = {} THEN S ELSE Detached(g[s \ {Picked(s)}], e, Picked(s), Lost(e, Picked(s)) /\ Picked(s) \notin lost)
           h == CHOOSE h : h = [s \in SUBSET X |-> E(h, s)]
<1>1. F \in [X -> [D -> D]] /\ \A x \in X, T \in D : F[x][T] = Detached(T, e, x, Lost(e, x) /\ x \notin lost)
  OBVIOUS
<1> HIDE DEF F
<1>2. PICK g : Solves(g, X, F, S) /\ Inside(g, X, D)
  BY <1>1, FoldInside
<1>3. \A s \in SUBSET X : g[s] = E(g, s)
  BY <1>1, <1>2 DEF Solves, FoldBy, Inside
<1>4. g = [s \in SUBSET X |-> E(g, s)]
  BY <1>2, <1>3 DEF Solves
<1>5. h = [s \in SUBSET X |-> E(h, s)]
  BY <1>4
<1>6. DetachEach(S, X, e, lost) = h[X]
  BY DEF DetachEach, FoldSet, MapThenFoldSet, Picked
<1> HIDE DEF h
<1>7. \A s \in SUBSET X : h[s] = E(h, s)
  BY <1>5
<1>8. ASSUME NEW s \in SUBSET X, s # {}, h[s \ {Picked(s)}] \in D PROVE h[s] \in D
  <2>1. Picked(s) \in X
    BY <1>8, PickedFacts
  <2>2. h[s] = Detached(h[s \ {Picked(s)}], e, Picked(s), Lost(e, Picked(s)) /\ Picked(s) \notin lost)
    BY <1>7, <1>8
  <2> QED BY <1>8, <2>1, <2>2
<1>9. \A s \in SUBSET X : h[s] \in D
  BY <1>7, <1>8, FoldStays, ZenonT(30)
<1> QED BY <1>6, <1>7, <1>9 DEF DetachRun

DoneEach(S, X, t, failed) == FoldSet(LAMBDA c, U : TaskDone(U, t, c, failed), S, X)
DoneRun(g, D, S, X, t, failed) ==
  /\ DoneEach(S, X, t, failed) = g[X]
  /\ g[{}] = S /\ \A s \in SUBSET X : g[s] \in D
  /\ \A s \in SUBSET X : s # {} => g[s] = TaskDone(g[s \ {Picked(s)}], t, Picked(s), failed)

LEMMA DoneFold ==
  ASSUME NEW X, IsFiniteSet(X), NEW D, NEW S \in D, NEW t, NEW failed,
         \A x \in X, T \in D : TaskDone(T, t, x, failed) \in D
  PROVE \E g : DoneRun(g, D, S, X, t, failed)
<1> DEFINE F == [x \in X |-> [T \in D |-> TaskDone(T, t, x, failed)]]
           E(g, s) == IF s = {} THEN S ELSE TaskDone(g[s \ {Picked(s)}], t, Picked(s), failed)
           h == CHOOSE h : h = [s \in SUBSET X |-> E(h, s)]
<1>1. F \in [X -> [D -> D]] /\ \A x \in X, T \in D : F[x][T] = TaskDone(T, t, x, failed)
  OBVIOUS
<1> HIDE DEF F
<1>2. PICK g : Solves(g, X, F, S) /\ Inside(g, X, D)
  BY <1>1, FoldInside
<1>3. \A s \in SUBSET X : g[s] = E(g, s)
  BY <1>1, <1>2 DEF Solves, FoldBy, Inside
<1>4. g = [s \in SUBSET X |-> E(g, s)]
  BY <1>2, <1>3 DEF Solves
<1>5. h = [s \in SUBSET X |-> E(h, s)]
  BY <1>4
<1>6. DoneEach(S, X, t, failed) = h[X]
  BY DEF DoneEach, FoldSet, MapThenFoldSet, Picked
<1> HIDE DEF h
<1>7. \A s \in SUBSET X : h[s] = E(h, s)
  BY <1>5
<1>8. ASSUME NEW s \in SUBSET X, s # {}, h[s \ {Picked(s)}] \in D PROVE h[s] \in D
  <2>1. Picked(s) \in X
    BY <1>8, PickedFacts
  <2>2. h[s] = TaskDone(h[s \ {Picked(s)}], t, Picked(s), failed)
    BY <1>7, <1>8
  <2> QED BY <1>8, <2>1, <2>2
<1>9. \A s \in SUBSET X : h[s] \in D
  BY <1>7, <1>8, FoldStays, ZenonT(30)
<1> QED BY <1>6, <1>7, <1>9 DEF DoneRun

CancelEach(S, X, t) == FoldSet(LAMBDA c, U : TaskCancelled(U, t, c), S, X)
CancelRun(g, D, S, X, t) ==
  /\ CancelEach(S, X, t) = g[X]
  /\ g[{}] = S /\ \A s \in SUBSET X : g[s] \in D
  /\ \A s \in SUBSET X : s # {} => g[s] = TaskCancelled(g[s \ {Picked(s)}], t, Picked(s))

LEMMA CancelFold ==
  ASSUME NEW X, IsFiniteSet(X), NEW D, NEW S \in D, NEW t,
         \A x \in X, T \in D : TaskCancelled(T, t, x) \in D
  PROVE \E g : CancelRun(g, D, S, X, t)
<1> DEFINE F == [x \in X |-> [T \in D |-> TaskCancelled(T, t, x)]]
           E(g, s) == IF s = {} THEN S ELSE TaskCancelled(g[s \ {Picked(s)}], t, Picked(s))
           h == CHOOSE h : h = [s \in SUBSET X |-> E(h, s)]
<1>1. F \in [X -> [D -> D]] /\ \A x \in X, T \in D : F[x][T] = TaskCancelled(T, t, x)
  OBVIOUS
<1> HIDE DEF F
<1>2. PICK g : Solves(g, X, F, S) /\ Inside(g, X, D)
  BY <1>1, FoldInside
<1>3. \A s \in SUBSET X : g[s] = E(g, s)
  BY <1>1, <1>2 DEF Solves, FoldBy, Inside
<1>4. g = [s \in SUBSET X |-> E(g, s)]
  BY <1>2, <1>3 DEF Solves
<1>5. h = [s \in SUBSET X |-> E(h, s)]
  BY <1>4
<1>6. CancelEach(S, X, t) = h[X]
  BY DEF CancelEach, FoldSet, MapThenFoldSet, Picked
<1> HIDE DEF h
<1>7. \A s \in SUBSET X : h[s] = E(h, s)
  BY <1>5
<1>8. ASSUME NEW s \in SUBSET X, s # {}, h[s \ {Picked(s)}] \in D PROVE h[s] \in D
  <2>1. Picked(s) \in X
    BY <1>8, PickedFacts
  <2>2. h[s] = TaskCancelled(h[s \ {Picked(s)}], t, Picked(s))
    BY <1>7, <1>8
  <2> QED BY <1>8, <2>1, <2>2
<1>9. \A s \in SUBSET X : h[s] \in D
  BY <1>7, <1>8, FoldStays, ZenonT(30)
<1> QED BY <1>6, <1>7, <1>9 DEF CancelRun

DisposedEach(S, X, t) == FoldSet(LAMBDA c, U : TaskDisposed(U, t, c), S, X)
DisposedRun(g, D, S, X, t) ==
  /\ DisposedEach(S, X, t) = g[X]
  /\ g[{}] = S /\ \A s \in SUBSET X : g[s] \in D
  /\ \A s \in SUBSET X : s # {} => g[s] = TaskDisposed(g[s \ {Picked(s)}], t, Picked(s))

LEMMA DisposedFold ==
  ASSUME NEW X, IsFiniteSet(X), NEW D, NEW S \in D, NEW t,
         \A x \in X, T \in D : TaskDisposed(T, t, x) \in D
  PROVE \E g : DisposedRun(g, D, S, X, t)
<1> DEFINE F == [x \in X |-> [T \in D |-> TaskDisposed(T, t, x)]]
           E(g, s) == IF s = {} THEN S ELSE TaskDisposed(g[s \ {Picked(s)}], t, Picked(s))
           h == CHOOSE h : h = [s \in SUBSET X |-> E(h, s)]
<1>1. F \in [X -> [D -> D]] /\ \A x \in X, T \in D : F[x][T] = TaskDisposed(T, t, x)
  OBVIOUS
<1> HIDE DEF F
<1>2. PICK g : Solves(g, X, F, S) /\ Inside(g, X, D)
  BY <1>1, FoldInside
<1>3. \A s \in SUBSET X : g[s] = E(g, s)
  BY <1>1, <1>2 DEF Solves, FoldBy, Inside
<1>4. g = [s \in SUBSET X |-> E(g, s)]
  BY <1>2, <1>3 DEF Solves
<1>5. h = [s \in SUBSET X |-> E(h, s)]
  BY <1>4
<1>6. DisposedEach(S, X, t) = h[X]
  BY DEF DisposedEach, FoldSet, MapThenFoldSet, Picked
<1> HIDE DEF h
<1>7. \A s \in SUBSET X : h[s] = E(h, s)
  BY <1>5
<1>8. ASSUME NEW s \in SUBSET X, s # {}, h[s \ {Picked(s)}] \in D PROVE h[s] \in D
  <2>1. Picked(s) \in X
    BY <1>8, PickedFacts
  <2>2. h[s] = TaskDisposed(h[s \ {Picked(s)}], t, Picked(s))
    BY <1>7, <1>8
  <2> QED BY <1>8, <2>1, <2>2
<1>9. \A s \in SUBSET X : h[s] \in D
  BY <1>7, <1>8, FoldStays, ZenonT(30)
<1> QED BY <1>6, <1>7, <1>9 DEF DisposedRun

RetireEach(S, X, cs) == FoldSet(LAMBDA t, T : RetireTask(T, t, cs), S, X)

LEMMA RetireFold ==
  ASSUME NEW X, IsFiniteSet(X), NEW D, NEW S \in D, NEW cs,
         \A x \in X, T \in D : RetireTask(T, x, cs) \in D
  PROVE RetireEach(S, X, cs) \in D
<1> DEFINE F == [x \in X |-> [T \in D |-> RetireTask(T, x, cs)]]
           E(g, s) == IF s = {} THEN S ELSE RetireTask(g[s \ {Picked(s)}], Picked(s), cs)
           h == CHOOSE h : h = [s \in SUBSET X |-> E(h, s)]
<1>1. F \in [X -> [D -> D]] /\ \A x \in X, T \in D : F[x][T] = RetireTask(T, x, cs)
  OBVIOUS
<1> HIDE DEF F
<1>2. PICK g : Solves(g, X, F, S) /\ Inside(g, X, D)
  BY <1>1, FoldInside
<1>3. \A s \in SUBSET X : g[s] = E(g, s)
  BY <1>1, <1>2 DEF Solves, FoldBy, Inside
<1>4. g = [s \in SUBSET X |-> E(g, s)]
  BY <1>2, <1>3 DEF Solves
<1>5. h = [s \in SUBSET X |-> E(h, s)]
  BY <1>4
<1>6. RetireEach(S, X, cs) = h[X]
  BY DEF RetireEach, FoldSet, MapThenFoldSet, Picked
<1> HIDE DEF h
<1>7. \A s \in SUBSET X : h[s] = E(h, s)
  BY <1>5
<1>8. ASSUME NEW s \in SUBSET X, s # {}, h[s \ {Picked(s)}] \in D PROVE h[s] \in D
  <2>1. Picked(s) \in X
    BY <1>8, PickedFacts
  <2>2. h[s] = RetireTask(h[s \ {Picked(s)}], Picked(s), cs)
    BY <1>7, <1>8
  <2> QED BY <1>8, <2>1, <2>2
<1>9. \A s \in SUBSET X : h[s] \in D
  BY <1>7, <1>8, FoldStays, ZenonT(30)
<1> QED BY <1>6, <1>7, <1>9

DisconnectEach(S, X, structural) == FoldSet(LAMBDA d, T : Disconnect(T, d, structural), S, X)

LEMMA DisconnectFold ==
  ASSUME NEW X, IsFiniteSet(X), NEW D, NEW S \in D, NEW structural,
         \A x \in X, T \in D : Disconnect(T, x, structural) \in D
  PROVE DisconnectEach(S, X, structural) \in D
<1> DEFINE F == [x \in X |-> [T \in D |-> Disconnect(T, x, structural)]]
           E(g, s) == IF s = {} THEN S ELSE Disconnect(g[s \ {Picked(s)}], Picked(s), structural)
           h == CHOOSE h : h = [s \in SUBSET X |-> E(h, s)]
<1>1. F \in [X -> [D -> D]] /\ \A x \in X, T \in D : F[x][T] = Disconnect(T, x, structural)
  OBVIOUS
<1> HIDE DEF F
<1>2. PICK g : Solves(g, X, F, S) /\ Inside(g, X, D)
  BY <1>1, FoldInside
<1>3. \A s \in SUBSET X : g[s] = E(g, s)
  BY <1>1, <1>2 DEF Solves, FoldBy, Inside
<1>4. g = [s \in SUBSET X |-> E(g, s)]
  BY <1>2, <1>3 DEF Solves
<1>5. h = [s \in SUBSET X |-> E(h, s)]
  BY <1>4
<1>6. DisconnectEach(S, X, structural) = h[X]
  BY DEF DisconnectEach, FoldSet, MapThenFoldSet, Picked
<1> HIDE DEF h
<1>7. \A s \in SUBSET X : h[s] = E(h, s)
  BY <1>5
<1>8. ASSUME NEW s \in SUBSET X, s # {}, h[s \ {Picked(s)}] \in D PROVE h[s] \in D
  <2>1. Picked(s) \in X
    BY <1>8, PickedFacts
  <2>2. h[s] = Disconnect(h[s \ {Picked(s)}], Picked(s), structural)
    BY <1>7, <1>8
  <2> QED BY <1>8, <2>1, <2>2
<1>9. \A s \in SUBSET X : h[s] \in D
  BY <1>7, <1>8, FoldStays, ZenonT(30)
<1> QED BY <1>6, <1>7, <1>9

BlockEach(S, X, e) == FoldSet(LAMBDA c, U : Block(U, c, e), S, X)

LEMMA BlockFold ==
  ASSUME NEW X, IsFiniteSet(X), NEW D, NEW S \in D, NEW e,
         \A x \in X, T \in D : Block(T, x, e) \in D
  PROVE BlockEach(S, X, e) \in D
<1> DEFINE F == [x \in X |-> [T \in D |-> Block(T, x, e)]]
           E(g, s) == IF s = {} THEN S ELSE Block(g[s \ {Picked(s)}], Picked(s), e)
           h == CHOOSE h : h = [s \in SUBSET X |-> E(h, s)]
<1>1. F \in [X -> [D -> D]] /\ \A x \in X, T \in D : F[x][T] = Block(T, x, e)
  OBVIOUS
<1> HIDE DEF F
<1>2. PICK g : Solves(g, X, F, S) /\ Inside(g, X, D)
  BY <1>1, FoldInside
<1>3. \A s \in SUBSET X : g[s] = E(g, s)
  BY <1>1, <1>2 DEF Solves, FoldBy, Inside
<1>4. g = [s \in SUBSET X |-> E(g, s)]
  BY <1>2, <1>3 DEF Solves
<1>5. h = [s \in SUBSET X |-> E(h, s)]
  BY <1>4
<1>6. BlockEach(S, X, e) = h[X]
  BY DEF BlockEach, FoldSet, MapThenFoldSet, Picked
<1> HIDE DEF h
<1>7. \A s \in SUBSET X : h[s] = E(h, s)
  BY <1>5
<1>8. ASSUME NEW s \in SUBSET X, s # {}, h[s \ {Picked(s)}] \in D PROVE h[s] \in D
  <2>1. Picked(s) \in X
    BY <1>8, PickedFacts
  <2>2. h[s] = Block(h[s \ {Picked(s)}], Picked(s), e)
    BY <1>7, <1>8
  <2> QED BY <1>8, <2>1, <2>2
<1>9. \A s \in SUBSET X : h[s] \in D
  BY <1>7, <1>8, FoldStays, ZenonT(30)
<1> QED BY <1>6, <1>7, <1>9

BlockScope(S, X, c) == FoldSet(LAMBDA e, T : BlockAlive(T, c, e), S, X)

LEMMA ScopeBlockFold ==
  ASSUME NEW X, IsFiniteSet(X), NEW D, NEW S \in D, NEW c,
         \A x \in X, T \in D : BlockAlive(T, c, x) \in D
  PROVE BlockScope(S, X, c) \in D
<1> DEFINE F == [x \in X |-> [T \in D |-> BlockAlive(T, c, x)]]
           E(g, s) == IF s = {} THEN S ELSE BlockAlive(g[s \ {Picked(s)}], c, Picked(s))
           h == CHOOSE h : h = [s \in SUBSET X |-> E(h, s)]
<1>1. F \in [X -> [D -> D]] /\ \A x \in X, T \in D : F[x][T] = BlockAlive(T, c, x)
  OBVIOUS
<1> HIDE DEF F
<1>2. PICK g : Solves(g, X, F, S) /\ Inside(g, X, D)
  BY <1>1, FoldInside
<1>3. \A s \in SUBSET X : g[s] = E(g, s)
  BY <1>1, <1>2 DEF Solves, FoldBy, Inside
<1>4. g = [s \in SUBSET X |-> E(g, s)]
  BY <1>2, <1>3 DEF Solves
<1>5. h = [s \in SUBSET X |-> E(h, s)]
  BY <1>4
<1>6. BlockScope(S, X, c) = h[X]
  BY DEF BlockScope, FoldSet, MapThenFoldSet, Picked
<1> HIDE DEF h
<1>7. \A s \in SUBSET X : h[s] = E(h, s)
  BY <1>5
<1>8. ASSUME NEW s \in SUBSET X, s # {}, h[s \ {Picked(s)}] \in D PROVE h[s] \in D
  <2>1. Picked(s) \in X
    BY <1>8, PickedFacts
  <2>2. h[s] = BlockAlive(h[s \ {Picked(s)}], c, Picked(s))
    BY <1>7, <1>8
  <2> QED BY <1>8, <2>1, <2>2
<1>9. \A s \in SUBSET X : h[s] \in D
  BY <1>7, <1>8, FoldStays
<1> QED BY <1>6, <1>7, <1>9

BlockerEach(S, X, e) == FoldSet(LAMBDA c, U : [U EXCEPT !.blockers[c] = @ \cup {e}], S, X)

LEMMA BlockerFold ==
  ASSUME NEW X, IsFiniteSet(X), NEW D, NEW S \in D, NEW e,
         \A x \in X, T \in D : [T EXCEPT !.blockers[x] = @ \cup {e}] \in D
  PROVE BlockerEach(S, X, e) \in D
<1> DEFINE F == [x \in X |-> [T \in D |-> [T EXCEPT !.blockers[x] = @ \cup {e}]]]
           E(g, s) == IF s = {} THEN S ELSE [g[s \ {Picked(s)}] EXCEPT !.blockers[Picked(s)] = @ \cup {e}]
           h == CHOOSE h : h = [s \in SUBSET X |-> E(h, s)]
<1>1. F \in [X -> [D -> D]] /\ \A x \in X, T \in D : F[x][T] = [T EXCEPT !.blockers[x] = @ \cup {e}]
  OBVIOUS
<1> HIDE DEF F
<1>2. PICK g : Solves(g, X, F, S) /\ Inside(g, X, D)
  BY <1>1, FoldInside
<1>3. \A s \in SUBSET X : g[s] = E(g, s)
  BY <1>1, <1>2 DEF Solves, FoldBy, Inside
<1>4. g = [s \in SUBSET X |-> E(g, s)]
  BY <1>2, <1>3 DEF Solves
<1>5. h = [s \in SUBSET X |-> E(h, s)]
  BY <1>4
<1>6. BlockerEach(S, X, e) = h[X]
  BY DEF BlockerEach, FoldSet, MapThenFoldSet, Picked
<1> HIDE DEF h
<1>7. \A s \in SUBSET X : h[s] = E(h, s)
  BY <1>5
<1>8. ASSUME NEW s \in SUBSET X, s # {}, h[s \ {Picked(s)}] \in D PROVE h[s] \in D
  <2>1. Picked(s) \in X
    BY <1>8, PickedFacts
  <2>2. h[s] = [h[s \ {Picked(s)}] EXCEPT !.blockers[Picked(s)] = @ \cup {e}]
    BY <1>7, <1>8
  <2> QED BY <1>8, <2>1, <2>2
<1>9. \A s \in SUBSET X : h[s] \in D
  BY <1>7, <1>8, FoldStays, ZenonT(30)
<1> QED BY <1>6, <1>7, <1>9

CancelTasks(S, X) == FoldSet(LAMBDA t, T : CancelTask(T, t), S, X)
CancelAllRun(g, D, S, X) ==
  /\ CancelTasks(S, X) = g[X]
  /\ g[{}] = S /\ \A s \in SUBSET X : g[s] \in D
  /\ \A s \in SUBSET X : s # {} => g[s] = CancelTask(g[s \ {Picked(s)}], Picked(s))

LEMMA CancelAllFold ==
  ASSUME NEW X, IsFiniteSet(X), NEW D, NEW S \in D,
         \A x \in X, T \in D : CancelTask(T, x) \in D
  PROVE \E g : CancelAllRun(g, D, S, X)
<1> DEFINE F == [x \in X |-> [T \in D |-> CancelTask(T, x)]]
           E(g, s) == IF s = {} THEN S ELSE CancelTask(g[s \ {Picked(s)}], Picked(s))
           h == CHOOSE h : h = [s \in SUBSET X |-> E(h, s)]
<1>1. F \in [X -> [D -> D]] /\ \A x \in X, T \in D : F[x][T] = CancelTask(T, x)
  OBVIOUS
<1> HIDE DEF F
<1>2. PICK g : Solves(g, X, F, S) /\ Inside(g, X, D)
  BY <1>1, FoldInside
<1>3. \A s \in SUBSET X : g[s] = E(g, s)
  BY <1>1, <1>2 DEF Solves, FoldBy, Inside
<1>4. g = [s \in SUBSET X |-> E(g, s)]
  BY <1>2, <1>3 DEF Solves
<1>5. h = [s \in SUBSET X |-> E(h, s)]
  BY <1>4
<1>6. CancelTasks(S, X) = h[X]
  BY DEF CancelTasks, FoldSet, MapThenFoldSet, Picked
<1> HIDE DEF h
<1>7. \A s \in SUBSET X : h[s] = E(h, s)
  BY <1>5
<1>8. ASSUME NEW s \in SUBSET X, s # {}, h[s \ {Picked(s)}] \in D PROVE h[s] \in D
  <2>1. Picked(s) \in X
    BY <1>8, PickedFacts
  <2>2. h[s] = CancelTask(h[s \ {Picked(s)}], Picked(s))
    BY <1>7, <1>8
  <2> QED BY <1>8, <2>1, <2>2
<1>9. \A s \in SUBSET X : h[s] \in D
  BY <1>7, <1>8, FoldStays
<1> QED BY <1>6, <1>7, <1>9 DEF CancelAllRun


-----------------------------------------------------------------------------
(* The completion bookkeeping: its inductive invariant *)

Ref == [of : Work \cup {Nobody}, set : SUBSET Requests]
Outcome == {"none", "ok", "blocked", "abort", "error"}
Book ==
  [alive : SUBSET Requests, opening : SUBSET Requests,
   obs : [Work -> SUBSET Requests], jobs : [Requests -> SUBSET Work],
   tasks : [Requests -> Int], blockers : [Requests -> SUBSET Elements],
   expected : [Elements -> SUBSET Requests], outcome : [Requests -> Outcome],
   refs : Seq(Ref)]

\* Both tables agree, but for the requests in P that w is about to leave.
Mirror(S, w, P) ==
  /\ \A c \in Requests, v \in Work : c \in S.obs[v] <=> v \in S.jobs[c] /\ ~(v = w /\ c \in P)
  /\ P \subseteq Requests /\ \A c \in P : w \in S.jobs[c]

\* Only a living request observes anything, or is opening.
Living(S) == S.opening \subseteq S.alive /\ \A c \in Requests : S.jobs[c] # {} => c \in S.alive

\* A request knows how many activations it waits for, and begins with none.
Tallied(S) ==
  \A c \in Requests :
    /\ c \in S.alive => S.tasks[c] = Cardinality(S.jobs[c] \cap Tasks)
    /\ c \notin S.alive /\ S.outcome[c] = "none" => S.tasks[c] = 0

SoundBook(S, w, P) == S \in Book /\ Mirror(S, w, P) /\ Living(S) /\ Tallied(S)

\* A request with nothing left is settled, except those in Q.
Waits(S, Q) == \A c \in S.alive : c \in Q \/ c \in S.opening \/ S.jobs[c] # {}

\* S has become T: only requests in cs have changed, and observe less.
Less(S, T, cs) ==
  /\ T.alive \subseteq S.alive /\ Len(T.refs) = Len(S.refs)
  /\ \A c \in Requests : T.jobs[c] \subseteq S.jobs[c]
  /\ \A c \in Requests : c \notin cs =>
       /\ T.jobs[c] = S.jobs[c] /\ (c \in T.alive <=> c \in S.alive)
       /\ c \in T.opening <=> c \in S.opening

LEMMA LessTwice ==
  ASSUME NEW S, NEW T, NEW U, NEW cs, NEW ds, NEW es, Less(S, T, cs), Less(T, U, ds),
         cs \subseteq es, ds \subseteq es
  PROVE Less(S, U, es)
BY DEF Less

LEMMA LessNone ==
  ASSUME NEW S, NEW cs
  PROVE Less(S, S, cs)
BY DEF Less

\* References
LEMMA RefFacts ==
  ASSUME NEW refs \in Seq(Ref), NEW w, NEW c \in Requests
  PROVE /\ Unlinked(refs, w) \in Seq(Ref) /\ Len(Unlinked(refs, w)) = Len(refs)
        /\ Adding(refs, w, c) \in Seq(Ref) /\ Len(Adding(refs, w, c)) = Len(refs)
        /\ Removing(refs, w, c) \in Seq(Ref) /\ Len(Removing(refs, w, c)) = Len(refs)
<1>1. Len(refs) \in Nat /\ DOMAIN refs = 1 .. Len(refs) /\ \A i \in DOMAIN refs : refs[i] \in Ref
  OBVIOUS
<1>2. \A r \in Ref : /\ [r EXCEPT !.of = Nobody] \in Ref
                     /\ [r EXCEPT !.set = @ \cup {c}] \in Ref
                     /\ [r EXCEPT !.set = @ \ {c}] \in Ref
  BY DEF Ref
<1> DEFINE n == Len(refs)
<1>3. Unlinked(refs, w) \in [1 .. n -> Ref]
  BY <1>1, <1>2 DEF Unlinked
<1>4. Adding(refs, w, c) \in [1 .. n -> Ref]
  BY <1>1, <1>2 DEF Adding
<1>5. Removing(refs, w, c) \in [1 .. n -> Ref]
  BY <1>1, <1>2 DEF Removing
<1>6. \A f \in [1 .. n -> Ref] : f \in Seq(Ref) /\ Len(f) = n
  BY <1>1
<1> QED BY <1>3, <1>4, <1>5, <1>6

LEMMA BookFields ==
  ASSUME NEW S \in Book
  PROVE /\ S.alive \subseteq Requests /\ S.opening \subseteq Requests
        /\ S.obs \in [Work -> SUBSET Requests] /\ S.jobs \in [Requests -> SUBSET Work]
        /\ S.tasks \in [Requests -> Int] /\ S.blockers \in [Requests -> SUBSET Elements]
        /\ S.expected \in [Elements -> SUBSET Requests] /\ S.outcome \in [Requests -> Outcome]
        /\ S.refs \in Seq(Ref)
BY DEF Book

\* Nothing but the sets of observers, and what is said about them, differs.
SameJobs(S, T) ==
  /\ T.alive = S.alive /\ T.opening = S.opening /\ T.jobs = S.jobs /\ T.tasks = S.tasks
  /\ T.outcome = S.outcome /\ Len(T.refs) = Len(S.refs)

LEMMA DropFacts ==
  ASSUME NEW S \in Book, NEW w \in Work, NEW c \in Requests
  PROVE /\ Drop(S, w, c) \in Book /\ SameJobs(S, Drop(S, w, c))
        /\ \A v \in Work : v # w => Drop(S, w, c).obs[v] = S.obs[v]
        /\ c \in S.obs[w] => Drop(S, w, c).obs[w] = S.obs[w] \ {c}
        /\ Drop(S, w, c).expected = S.expected
<1>1. /\ S.obs \in [Work -> SUBSET Requests] /\ S.refs \in Seq(Ref)
  BY BookFields
<1>2. CASE Cardinality(S.obs[w]) = 1
  <2> DEFINE o == [S.obs EXCEPT ![w] = {}]
             r == Unlinked(S.refs, w)
  <2>1. Drop(S, w, c) = [S EXCEPT !.obs = o, !.refs = r]
    BY <1>2 DEF Drop, Book
  <2>2. /\ o \in [Work -> SUBSET Requests] /\ o[w] = {}
        /\ \A v \in Work : v # w => o[v] = S.obs[v]
    BY <1>1
  <2>3. r \in Seq(Ref) /\ Len(r) = Len(S.refs)
    BY <1>1, RefFacts
  <2>4. c \in S.obs[w] => S.obs[w] \ {c} = {}
    <3>1. IsFiniteSet(S.obs[w])
      BY <1>1, FS_Subset, RenderAssumption
    <3>2. PICK x : S.obs[w] = {x}
      BY <1>2, <3>1, FS_Singleton
    <3> QED BY <3>2
  <2> HIDE DEF o, r
  <2>5. [S EXCEPT !.obs = o, !.refs = r] \in Book
    BY <2>2, <2>3 DEF Book
  <2>6. /\ SameJobs(S, [S EXCEPT !.obs = o, !.refs = r])
        /\ [S EXCEPT !.obs = o, !.refs = r].obs = o
        /\ [S EXCEPT !.obs = o, !.refs = r].expected = S.expected
    BY <2>3 DEF Book, SameJobs
  <2> QED BY <2>1, <2>2, <2>4, <2>5, <2>6
<1>3. CASE Cardinality(S.obs[w]) # 1
  <2> DEFINE o == [S.obs EXCEPT ![w] = @ \ {c}]
             r == Removing(S.refs, w, c)
  <2>1. Drop(S, w, c) = [S EXCEPT !.obs = o, !.refs = r]
    BY <1>3 DEF Drop, Book
  <2>2. /\ o \in [Work -> SUBSET Requests] /\ o[w] = S.obs[w] \ {c}
        /\ \A v \in Work : v # w => o[v] = S.obs[v]
    BY <1>1
  <2>3. r \in Seq(Ref) /\ Len(r) = Len(S.refs)
    BY <1>1, RefFacts
  <2> HIDE DEF o, r
  <2>5. [S EXCEPT !.obs = o, !.refs = r] \in Book
    BY <2>2, <2>3 DEF Book
  <2>6. /\ SameJobs(S, [S EXCEPT !.obs = o, !.refs = r])
        /\ [S EXCEPT !.obs = o, !.refs = r].obs = o
        /\ [S EXCEPT !.obs = o, !.refs = r].expected = S.expected
    BY <2>3 DEF Book, SameJobs
  <2> QED BY <2>1, <2>2, <2>5, <2>6
<1> QED BY <1>2, <1>3

LEMMA WorkFinite == IsFiniteSet(Work)
BY FS_Union, RenderAssumption DEF Work

\* c leaves the sets of everything in X.
LEMMA DropsAll ==
  ASSUME NEW S \in Book, NEW c \in Requests, NEW X \in SUBSET Work, \A w \in X : c \in S.obs[w],
         NEW R, R = DropAll(S, X, c)
  PROVE /\ R \in Book /\ SameJobs(S, R) /\ R.expected = S.expected
        /\ \A v \in Work : R.obs[v] = IF v \in X THEN S.obs[v] \ {c} ELSE S.obs[v]
<1> DEFINE After(s, T) == /\ SameJobs(S, T) /\ T.expected = S.expected
                          /\ \A v \in Work : T.obs[v] = IF v \in s THEN S.obs[v] \ {c} ELSE S.obs[v]
<1>1. IsFiniteSet(X)
  BY WorkFinite, FS_Subset
<1>2. \A x \in X, T \in Book : Drop(T, x, c) \in Book
  BY DropFacts
<1>a. PICK g : DropRun(g, Book, S, X, c)
  BY <1>1, <1>2, DropFold
<1>3. /\ R = g[X] /\ g[{}] = S /\ \A s \in SUBSET X : g[s] \in Book
      /\ \A s \in SUBSET X : s # {} => g[s] = Drop(g[s \ {Picked(s)}], Picked(s), c)
  BY <1>a DEF DropRun
<1> DEFINE J == {s \in SUBSET X : After(s, g[s])}
<1>4. {} \in J
  BY <1>3 DEF SameJobs
<1>5. ASSUME NEW s \in SUBSET X, s # {}, s \ {Picked(s)} \in J PROVE s \in J
  <2> DEFINE w == Picked(s)
             u == s \ {w}
             T == g[u]
             V == Drop(T, w, c)
  <2>1. w \in s /\ w \in X /\ w \in Work /\ u \in SUBSET X
    BY <1>1, <1>5, PickedFacts
  <2>2. g[s] = V /\ T \in Book
    BY <1>3, <1>5, <2>1
  <2>3. After(u, T)
    BY <1>5
  <2>4. c \in T.obs[w]
    BY <2>1, <2>3
  <2> HIDE DEF w, T, V
  <2>5. /\ SameJobs(T, V) /\ V.expected = T.expected /\ V.obs[w] = T.obs[w] \ {c}
        /\ \A v \in Work : v # w => V.obs[v] = T.obs[v]
    <3>1. V = Drop(T, w, c)
      BY DEF V
    <3> QED BY <2>1, <2>2, <2>4, <3>1, DropFacts
  <2>6. \A v \in Work : v \in s <=> v = w \/ v \in u
    BY <2>1
  <2>7. \A v \in Work : V.obs[v] = IF v \in s THEN S.obs[v] \ {c} ELSE S.obs[v]
    BY <2>1, <2>3, <2>5, <2>6
  <2>8. After(s, V)
    BY <2>3, <2>5, <2>7 DEF SameJobs
  <2> QED BY <2>2, <2>8
<1>6. X \in J
  <2> HIDE DEF J
  <2>1. \A s \in SUBSET X : s # {} /\ s \ {Picked(s)} \in J => s \in J
    BY <1>5
  <2> QED BY <1>1, <1>4, <2>1, OneByOne
<1> QED BY <1>3, <1>6

LEMMA ReleaseFacts ==
  ASSUME NEW S, NEW w, NEW P, SoundBook(S, w, P), NEW c \in Requests, c \notin P,
         NEW out \in Outcome, out # "none", NEW R, R = Release(S, c, out)
  PROVE /\ SoundBook(R, w, P) /\ Less(S, R, {c}) /\ c \notin R.alive /\ R.jobs[c] = {}
        /\ \A Q : Waits(S, Q \cup {c}) => Waits(R, Q)
<1>0. S \in Book /\ Mirror(S, w, P) /\ Living(S) /\ Tallied(S)
  BY DEF SoundBook
<1>1. CASE c \notin S.alive
  <2>1. R = S
    BY <1>1 DEF Release
  <2>2. S.jobs[c] = {}
    BY <1>0, <1>1 DEF Living
  <2>3. \A Q : Waits(S, Q \cup {c}) => Waits(S, Q)
    BY <1>1 DEF Waits
  <2> QED BY <1>1, <2>1, <2>2, <2>3, LessNone
<1>2. CASE c \in S.alive
  <2> DEFINE X == S.jobs[c]
             D == DropAll(S, X, c)
             x == [v \in Elements |-> IF S.alive = {c} THEN {}
                                      ELSE IF v \in S.jobs[c] THEN D.expected[v] \ {c} ELSE D.expected[v]]
  <2>1. R = [D EXCEPT !.alive = @ \ {c}, !.opening = @ \ {c}, !.expected = x,
                      !.jobs[c] = {}, !.blockers[c] = {}, !.outcome[c] = out]
    BY <1>2 DEF Release, DropAll
  <2>2. X \in SUBSET Work /\ \A v \in X : c \in S.obs[v]
    BY <1>0, BookFields DEF Mirror
  <2>3. /\ D \in Book /\ SameJobs(S, D) /\ D.expected = S.expected
        /\ \A v \in Work : D.obs[v] = IF v \in X THEN S.obs[v] \ {c} ELSE S.obs[v]
    BY <1>0, <2>2, DropsAll
  <2> HIDE DEF D
  <2>4. x \in [Elements -> SUBSET Requests]
    BY <2>3, BookFields
  <2> HIDE DEF x, X
  <2> DEFINE j == [D.jobs EXCEPT ![c] = {}]
             b == [D.blockers EXCEPT ![c] = {}]
             o == [D.outcome EXCEPT ![c] = out]
  <2>5. /\ j \in [Requests -> SUBSET Work] /\ j[c] = {}
        /\ \A d \in Requests : d # c => j[d] = S.jobs[d]
        /\ b \in [Requests -> SUBSET Elements]
        /\ o \in [Requests -> Outcome] /\ o[c] = out
        /\ \A d \in Requests : d # c => o[d] = S.outcome[d]
    BY <2>3, BookFields DEF SameJobs
  <2>6. R = [D EXCEPT !.alive = S.alive \ {c}, !.opening = S.opening \ {c}, !.expected = x,
                      !.jobs = j, !.blockers = b, !.outcome = o]
    BY <2>1, <2>3 DEF SameJobs, Book
  <2> HIDE DEF j, b, o
  <2>7. R \in Book
    <3> DEFINE a == S.alive \ {c}
               p == S.opening \ {c}
    <3>1. a \subseteq Requests /\ p \subseteq Requests
      BY <1>0, BookFields
    <3>2. R = [D EXCEPT !.alive = a, !.opening = p, !.expected = x, !.jobs = j,
                        !.blockers = b, !.outcome = o]
      BY <2>6
    <3> HIDE DEF a, p
    <3>3. /\ D \in Book /\ j \in [Requests -> SUBSET Work]
          /\ b \in [Requests -> SUBSET Elements] /\ o \in [Requests -> Outcome]
      BY <2>3, <2>5
    <3> QED BY <2>4, <3>1, <3>2, <3>3, ZenonT(30) DEF Book
  <2>8. /\ R.alive = S.alive \ {c} /\ R.opening = S.opening \ {c} /\ R.jobs = j /\ R.outcome = o
        /\ R.obs = D.obs /\ R.tasks = S.tasks /\ Len(R.refs) = Len(S.refs)
    BY <2>3, <2>6 DEF Book, SameJobs
  <2>9. Mirror(R, w, P)
    <3>1. ASSUME NEW d \in Requests, NEW v \in Work
          PROVE d \in D.obs[v] <=> v \in j[d] /\ ~(v = w /\ d \in P)
      <4>0. d \in S.obs[v] <=> v \in S.jobs[d] /\ ~(v = w /\ d \in P)
        BY <1>0 DEF Mirror
      <4>1. D.obs[v] = IF v \in X THEN S.obs[v] \ {c} ELSE S.obs[v]
        BY <2>3
      <4>2. CASE d = c
        BY <2>5, <4>0, <4>1, <4>2 DEF X
      <4>3. CASE d # c
        BY <2>5, <4>0, <4>1, <4>3
      <4> QED BY <4>2, <4>3
    <3>2. P \subseteq Requests /\ \A d \in P : w \in j[d]
      BY <1>0, <2>5 DEF Mirror
    <3> QED BY <2>8, <3>1, <3>2 DEF Mirror
  <2>10. Living(R)
    BY <1>0, <2>5, <2>8 DEF Living
  <2>11. Tallied(R)
    BY <1>0, <2>5, <2>8 DEF Tallied
  <2>12. Less(S, R, {c})
    BY <2>5, <2>8 DEF Less
  <2>13. \A Q : Waits(S, Q \cup {c}) => Waits(R, Q)
    <3>1. SUFFICES ASSUME NEW Q, Waits(S, Q \cup {c}), NEW d \in R.alive
                   PROVE d \in Q \/ d \in R.opening \/ R.jobs[d] # {}
      BY DEF Waits
    <3>2. d \in S.alive /\ d # c /\ d \in Requests
      BY <1>0, <2>8, BookFields
    <3> QED BY <2>5, <2>8, <3>1, <3>2 DEF Waits
  <2> QED BY <2>5, <2>7, <2>8, <2>9, <2>10, <2>11, <2>12, <2>13 DEF SoundBook
<1> QED BY <1>1, <1>2

\* Between the loops the books are sound, and everybody waits for something.
Good(S) == SoundBook(S, Nobody, {}) /\ Waits(S, {})

\* What may come of S when nothing is taken up but the work in X
GoodFrom(S, X) ==
  {T \in Book : Good(T) /\ Len(T.refs) = Len(S.refs)
                /\ \A c \in Requests : T.jobs[c] \subseteq S.jobs[c] \cup X}

LEMMA SoundAny ==
  ASSUME NEW S, NEW v, NEW w, SoundBook(S, v, {})
  PROVE SoundBook(S, w, {})
BY DEF SoundBook, Mirror

LEMMA GoodBook ==
  ASSUME NEW S, Good(S)
  PROVE S \in Book /\ \A X : S \in GoodFrom(S, X)
BY DEF Good, SoundBook, GoodFrom

LEMMA GoodTwice ==
  ASSUME NEW S, NEW T, NEW U, NEW X, T \in GoodFrom(S, X), U \in GoodFrom(T, X)
  PROVE U \in GoodFrom(S, X)
BY DEF GoodFrom

LEMMA GoodMore ==
  ASSUME NEW S, NEW T, NEW X, NEW Y, T \in GoodFrom(S, X), X \subseteq Y
  PROVE T \in GoodFrom(S, Y)
BY DEF GoodFrom

LEMMA LessGood ==
  ASSUME NEW S, NEW T, NEW U, NEW X, NEW cs, T \in GoodFrom(S, X), Good(U), Less(T, U, cs)
  PROVE U \in GoodFrom(S, X)
BY DEF GoodFrom, Less, Good, SoundBook

LEMMA ReleaseGood ==
  ASSUME NEW S, NEW X, NEW T \in GoodFrom(S, X), NEW c \in Requests, NEW out \in Outcome, out # "none"
  PROVE Release(T, c, out) \in GoodFrom(S, X)
<1> DEFINE R == Release(T, c, out)
<1>1. SoundBook(T, Nobody, {}) /\ Waits(T, {})
  BY DEF GoodFrom, Good
<1>2. SoundBook(R, Nobody, {}) /\ Less(T, R, {c}) /\ (Waits(T, {} \cup {c}) => Waits(R, {}))
  BY <1>1, ReleaseFacts
<1>3. Waits(T, {} \cup {c})
  BY <1>1 DEF Waits
<1> HIDE DEF R
<1>4. Good(R)
  BY <1>2, <1>3 DEF Good
<1>5. R \in GoodFrom(S, X)
  BY <1>2, <1>4, LessGood
<1> QED BY <1>5 DEF R

LEMMA ReleaseAllGood ==
  ASSUME NEW S, NEW X, NEW T \in GoodFrom(S, X), NEW cs \in SUBSET Requests,
         NEW out \in Outcome, out # "none"
  PROVE ReleaseAll(T, cs, out) \in GoodFrom(S, X)
<1>1. IsFiniteSet(cs)
  BY FS_Subset, RenderAssumption
<1>2. \A c \in cs, U \in GoodFrom(S, X) : Release(U, c, out) \in GoodFrom(S, X)
  BY ReleaseGood
<1> QED BY <1>1, <1>2, ReleaseFold

LEMMA IncludeGood ==
  ASSUME NEW S, NEW X, NEW T \in GoodFrom(S, X), NEW w \in X, w \in Work, NEW c \in Requests
  PROVE Include(T, w, c) \in GoodFrom(S, X)
<1> DEFINE I == Include(T, w, c)
<1>0. /\ T \in Book /\ Mirror(T, Nobody, {}) /\ Living(T) /\ Tallied(T) /\ Waits(T, {})
      /\ Len(T.refs) = Len(S.refs) /\ \A d \in Requests : T.jobs[d] \subseteq S.jobs[d] \cup X
  BY DEF GoodFrom, Good, SoundBook
<1>1. CASE w \in T.jobs[c] \/ c \notin T.alive \/ ~InScope(Host(w), RootOf[c])
  <2>1. I = T
    BY <1>1 DEF Include
  <2> QED BY <2>1
<1>2. CASE w \notin T.jobs[c] /\ c \in T.alive /\ InScope(Host(w), RootOf[c])
  <2> DEFINE r == IF Cardinality(T.obs[w]) > 1 THEN Adding(T.refs, w, c) ELSE Unlinked(T.refs, w)
             o == [T.obs EXCEPT ![w] = @ \cup {c}]
             j == [T.jobs EXCEPT ![c] = @ \cup {w}]
             n == [T.tasks EXCEPT ![c] = IF w \in Tasks THEN @ + 1 ELSE @]
  <2>1. I = [T EXCEPT !.obs = o, !.refs = r, !.jobs = j, !.tasks = n]
    BY <1>0, <1>2 DEF Include, Book
  <2>2. /\ T.obs \in [Work -> SUBSET Requests] /\ T.jobs \in [Requests -> SUBSET Work]
        /\ T.tasks \in [Requests -> Int] /\ T.refs \in Seq(Ref) /\ T.alive \subseteq Requests
    BY <1>0, BookFields
  <2>3. r \in Seq(Ref) /\ Len(r) = Len(T.refs)
    BY <2>2, RefFacts
  <2>4. /\ o \in [Work -> SUBSET Requests] /\ o[w] = T.obs[w] \cup {c}
        /\ \A v \in Work : v # w => o[v] = T.obs[v]
    BY <2>2
  <2>5. /\ j \in [Requests -> SUBSET Work] /\ j[c] = T.jobs[c] \cup {w}
        /\ \A d \in Requests : d # c => j[d] = T.jobs[d]
    BY <2>2
  <2>6. /\ n \in [Requests -> Int] /\ n[c] = IF w \in Tasks THEN T.tasks[c] + 1 ELSE T.tasks[c]
        /\ \A d \in Requests : d # c => n[d] = T.tasks[d]
    BY <2>2
  <2> HIDE DEF r, o, j, n, I
  <2>7. I \in Book
    BY <1>0, <2>1, <2>3, <2>4, <2>5, <2>6 DEF Book
  <2>8. /\ I.alive = T.alive /\ I.opening = T.opening /\ I.obs = o /\ I.jobs = j /\ I.tasks = n
        /\ I.outcome = T.outcome /\ I.refs = r
    BY <1>0, <2>1 DEF Book
  <2>9. Mirror(I, Nobody, {})
    <3>1. ASSUME NEW d \in Requests, NEW v \in Work PROVE d \in o[v] <=> v \in j[d]
      <4>1. d \in T.obs[v] <=> v \in T.jobs[d]
        BY <1>0 DEF Mirror
      <4> QED BY <2>4, <2>5, <4>1
    <3> QED BY <2>8, <3>1 DEF Mirror
  <2>10. Living(I)
    BY <1>0, <1>2, <2>5, <2>8 DEF Living
  <2>11. Tallied(I)
    <3>1. n[c] = Cardinality(j[c] \cap Tasks)
      <4>1. T.tasks[c] = Cardinality(T.jobs[c] \cap Tasks)
        BY <1>0, <1>2 DEF Tallied
      <4>2. IsFiniteSet(T.jobs[c] \cap Tasks)
        BY FS_Subset, RenderAssumption
      <4>3. CASE w \in Tasks
        <5>1. j[c] \cap Tasks = (T.jobs[c] \cap Tasks) \cup {w} /\ w \notin T.jobs[c] \cap Tasks
          BY <1>2, <2>5, <4>3
        <5> QED BY <2>6, <4>1, <4>2, <4>3, <5>1, FS_AddElement
      <4>4. CASE w \notin Tasks
        <5>1. j[c] \cap Tasks = T.jobs[c] \cap Tasks
          BY <2>5, <4>4
        <5> QED BY <2>6, <4>1, <4>4, <5>1
      <4> QED BY <4>3, <4>4
    <3> QED BY <1>0, <1>2, <2>5, <2>6, <2>8, <3>1, ZenonT(30) DEF Tallied
  <2>12. Waits(I, {})
    <3>1. \A d \in T.alive : j[d] # {} \/ j[d] = T.jobs[d]
      BY <2>2, <2>5
    <3> QED BY <1>0, <2>8, <3>1 DEF Waits
  <2>13. \A d \in Requests : I.jobs[d] \subseteq S.jobs[d] \cup X
    BY <1>0, <2>5, <2>8
  <2> QED BY <1>0, <2>3, <2>7, <2>8, <2>9, <2>10, <2>11, <2>12, <2>13 DEF GoodFrom, Good, SoundBook, I
<1> QED BY <1>1, <1>2

LEMMA IncludeAllGood ==
  ASSUME NEW S, NEW X, NEW T \in GoodFrom(S, X), NEW ws \in SUBSET X, ws \subseteq Work, NEW c \in Requests
  PROVE IncludeAll(T, ws, c) \in GoodFrom(S, X)
<1>1. IsFiniteSet(ws)
  BY WorkFinite, FS_Subset
<1>2. \A w \in ws, U \in GoodFrom(S, X) : Include(U, w, c) \in GoodFrom(S, X)
  BY IncludeGood
<1> QED BY <1>1, <1>2, ScopeFold

LEMMA IncludeEachGood ==
  ASSUME NEW S, NEW X, NEW T \in GoodFrom(S, X), NEW w \in X, w \in Work, NEW cs \in SUBSET Requests
  PROVE IncludeEach(T, cs, w) \in GoodFrom(S, X)
<1>1. IsFiniteSet(cs)
  BY FS_Subset, RenderAssumption
<1>2. \A c \in cs, U \in GoodFrom(S, X) : Include(U, w, c) \in GoodFrom(S, X)
  BY IncludeGood
<1> QED BY <1>1, <1>2, IncludeFold

LEMMA ActiveFacts ==
  ASSUME NEW S \in Book
  PROVE ActiveRef(S) \in Ref /\ Active(S) \subseteq Requests
<1>1. S.refs \in Seq(Ref)
  BY BookFields
<1>2. [of |-> Nobody, set |-> {}] \in Ref
  BY DEF Ref
<1>3. S.refs # <<>> => S.refs[Len(S.refs)] \in Ref
  BY <1>1
<1>4. ActiveRef(S) \in Ref
  BY <1>2, <1>3 DEF ActiveRef
<1> QED BY <1>4 DEF Active, Ref

LEMMA EnrollGood ==
  ASSUME NEW S, NEW X, NEW T \in GoodFrom(S, X), NEW w \in X, w \in Work
  PROVE Enroll(T, w) \in GoodFrom(S, X)
<1>1. T \in Book
  BY DEF GoodFrom
<1>2. Active(T) \cup T.opening \in SUBSET Requests
  BY <1>1, ActiveFacts, BookFields
<1>3. Enroll(T, w) = IncludeEach(T, Active(T) \cup T.opening, w)
  BY DEF Enroll, IncludeEach
<1> QED BY <1>2, <1>3, IncludeEachGood

-----------------------------------------------------------------------------
(* Work that ends leaves its requests one by one *)

\* Whatever the book, these return one: what the loops below need.
LEMMA DropsBook ==
  ASSUME NEW S \in Book, NEW c \in Requests, NEW X \in SUBSET Work
  PROVE DropAll(S, X, c) \in Book
<1>1. IsFiniteSet(X)
  BY WorkFinite, FS_Subset
<1>2. \A x \in X, T \in Book : Drop(T, x, c) \in Book
  BY DropFacts
<1>3. PICK g : DropRun(g, Book, S, X, c)
  BY <1>1, <1>2, DropFold
<1>4. X \in SUBSET X
  OBVIOUS
<1> QED BY <1>3, <1>4 DEF DropRun

LEMMA ReleaseBook ==
  ASSUME NEW S \in Book, NEW c \in Requests, NEW out \in Outcome
  PROVE Release(S, c, out) \in Book
<1>1. CASE c \notin S.alive
  BY <1>1 DEF Release
<1>2. CASE c \in S.alive
  <2> DEFINE D == DropAll(S, S.jobs[c], c)
             x == [v \in Elements |-> IF S.alive = {c} THEN {}
                                      ELSE IF v \in S.jobs[c] THEN D.expected[v] \ {c} ELSE D.expected[v]]
             R == Release(S, c, out)
  <2>1. R = [D EXCEPT !.alive = @ \ {c}, !.opening = @ \ {c}, !.expected = x,
                      !.jobs[c] = {}, !.blockers[c] = {}, !.outcome[c] = out]
    BY <1>2 DEF Release, DropAll
  <2>2. D \in Book
    <3>1. S.jobs[c] \in SUBSET Work
      BY BookFields
    <3> QED BY <3>1, DropsBook
  <2> HIDE DEF D
  <2>3. x \in [Elements -> SUBSET Requests]
    BY <2>2, BookFields
  <2> HIDE DEF x, R
  <2>4. /\ [D.jobs EXCEPT ![c] = {}] \in [Requests -> SUBSET Work]
        /\ [D.blockers EXCEPT ![c] = {}] \in [Requests -> SUBSET Elements]
        /\ [D.outcome EXCEPT ![c] = out] \in [Requests -> Outcome]
        /\ D.alive \ {c} \subseteq Requests /\ D.opening \ {c} \subseteq Requests
    BY <2>2, BookFields
  <2>5. R = [D EXCEPT !.alive = D.alive \ {c}, !.opening = D.opening \ {c}, !.expected = x,
                      !.jobs = [D.jobs EXCEPT ![c] = {}], !.blockers = [D.blockers EXCEPT ![c] = {}],
                      !.outcome = [D.outcome EXCEPT ![c] = out]]
    BY <2>1, <2>2 DEF Book
  <2>6. R \in Book
    BY <2>2, <2>3, <2>4, <2>5 DEF Book
  <2> QED BY <2>6 DEF R
<1> QED BY <1>1, <1>2

LEMMA SettleBook ==
  ASSUME NEW S \in Book, NEW c \in Requests
  PROVE SettleRequest(S, c) \in Book
BY ReleaseBook DEF SettleRequest, Outcome

\* One request leaves w, in the request's table.
Without(U, w, c) ==
  [U EXCEPT !.jobs[c] = @ \ {w}, !.tasks[c] = IF w \in Tasks THEN @ - 1 ELSE @]

LEMMA WithoutIs ==
  ASSUME NEW U \in Book, NEW c \in Requests
  PROVE /\ \A e \in Elements : [U EXCEPT !.jobs[c] = @ \ {e}] = Without(U, e, c)
        /\ \A t \in Tasks : ForgetTask(U, t, c) = Without(U, t, c)
<1>1. \A e \in Elements : [U EXCEPT !.jobs[c] = @ \ {e}] = Without(U, e, c)
  <2>1. \A e \in Elements : e \notin Tasks
    BY RenderAssumption
  <2>2. [U.tasks EXCEPT ![c] = @] = U.tasks
    BY BookFields
  <2> QED BY <2>1, <2>2 DEF Without, Book
<1>2. \A t \in Tasks : ForgetTask(U, t, c) = Without(U, t, c)
  BY DEF Without, ForgetTask
<1> QED BY <1>1, <1>2

LEMMA WithoutFields ==
  ASSUME NEW U \in Book, NEW w \in Work, NEW c \in Requests, NEW V, V = Without(U, w, c)
  PROVE /\ V \in Book /\ V.alive = U.alive /\ V.opening = U.opening /\ V.obs = U.obs
        /\ V.outcome = U.outcome /\ V.refs = U.refs
        /\ V.jobs[c] = U.jobs[c] \ {w} /\ \A d \in Requests : d # c => V.jobs[d] = U.jobs[d]
        /\ V.tasks[c] = IF w \in Tasks THEN U.tasks[c] - 1 ELSE U.tasks[c]
        /\ \A d \in Requests : d # c => V.tasks[d] = U.tasks[d]
<1> DEFINE j == [U.jobs EXCEPT ![c] = @ \ {w}]
           n == [U.tasks EXCEPT ![c] = IF w \in Tasks THEN @ - 1 ELSE @]
<1>1. V = [U EXCEPT !.jobs = j, !.tasks = n]
  BY DEF Without, Book
<1>2. /\ j \in [Requests -> SUBSET Work] /\ j[c] = U.jobs[c] \ {w}
      /\ \A d \in Requests : d # c => j[d] = U.jobs[d]
  BY BookFields
<1>3. /\ n \in [Requests -> Int] /\ n[c] = IF w \in Tasks THEN U.tasks[c] - 1 ELSE U.tasks[c]
      /\ \A d \in Requests : d # c => n[d] = U.tasks[d]
  BY BookFields
<1> HIDE DEF j, n
<1>4. V \in Book
  BY <1>1, <1>2, <1>3 DEF Book
<1>5. /\ V.alive = U.alive /\ V.opening = U.opening /\ V.obs = U.obs
      /\ V.outcome = U.outcome /\ V.refs = U.refs /\ V.jobs = j /\ V.tasks = n
  BY <1>1 DEF Book
<1> QED BY <1>2, <1>3, <1>4, <1>5

LEMMA WithoutFacts ==
  ASSUME NEW U, NEW w \in Work, NEW P, SoundBook(U, w, P), Waits(U, {}), NEW c \in P,
         NEW V, V = Without(U, w, c)
  PROVE /\ SoundBook(V, w, P \ {c}) /\ Waits(V, {} \cup {c}) /\ Less(U, V, {c}) /\ w \notin V.jobs[c]
<1>0. U \in Book /\ Mirror(U, w, P) /\ Living(U) /\ Tallied(U)
  BY DEF SoundBook
<1>1. c \in Requests /\ P \subseteq Requests /\ w \in U.jobs[c] /\ c \in U.alive
  BY <1>0 DEF Mirror, Living
<1>2. /\ V \in Book /\ V.alive = U.alive /\ V.opening = U.opening /\ V.obs = U.obs
      /\ V.outcome = U.outcome /\ V.refs = U.refs
      /\ V.jobs[c] = U.jobs[c] \ {w} /\ \A d \in Requests : d # c => V.jobs[d] = U.jobs[d]
      /\ V.tasks[c] = IF w \in Tasks THEN U.tasks[c] - 1 ELSE U.tasks[c]
      /\ \A d \in Requests : d # c => V.tasks[d] = U.tasks[d]
  BY <1>0, <1>1, WithoutFields
<1>3. Mirror(V, w, P \ {c})
  <2>1. ASSUME NEW d \in Requests, NEW v \in Work
        PROVE d \in V.obs[v] <=> v \in V.jobs[d] /\ ~(v = w /\ d \in P \ {c})
    <3>1. d \in U.obs[v] <=> v \in U.jobs[d] /\ ~(v = w /\ d \in P)
      BY <1>0 DEF Mirror
    <3>2. CASE d = c
      BY <1>2, <3>1, <3>2
    <3>3. CASE d # c
      BY <1>2, <3>1, <3>3
    <3> QED BY <3>2, <3>3
  <2>2. \A d \in P \ {c} : w \in V.jobs[d]
    BY <1>0, <1>1, <1>2 DEF Mirror
  <2> QED BY <1>1, <2>1, <2>2 DEF Mirror
<1>4. Living(V)
  BY <1>0, <1>1, <1>2 DEF Living
<1>5. Tallied(V)
  <2>1. V.tasks[c] = Cardinality(V.jobs[c] \cap Tasks)
    <3>1. U.tasks[c] = Cardinality(U.jobs[c] \cap Tasks)
      BY <1>0, <1>1 DEF Tallied
    <3>2. IsFiniteSet(U.jobs[c] \cap Tasks)
      BY FS_Subset, RenderAssumption
    <3>3. CASE w \in Tasks
      <4>1. V.jobs[c] \cap Tasks = (U.jobs[c] \cap Tasks) \ {w} /\ w \in U.jobs[c] \cap Tasks
        BY <1>1, <1>2, <3>3
      <4>2. Cardinality((U.jobs[c] \cap Tasks) \ {w}) = Cardinality(U.jobs[c] \cap Tasks) - 1
        BY <3>2, <4>1, FS_RemoveElement
      <4>3. V.tasks[c] = U.tasks[c] - 1
        BY <1>2, <3>3
      <4> QED BY <3>1, <4>1, <4>2, <4>3
    <3>4. CASE w \notin Tasks
      <4>1. V.jobs[c] \cap Tasks = U.jobs[c] \cap Tasks
        BY <1>2, <3>4
      <4> QED BY <1>2, <3>1, <3>4, <4>1
    <3> QED BY <3>3, <3>4
  <2> QED BY <1>0, <1>1, <1>2, <2>1, ZenonT(30) DEF Tallied
<1>6. Waits(V, {} \cup {c})
  <2>1. \A d \in U.alive : d \in Requests
    BY <1>0, BookFields
  <2> QED BY <1>2, <2>1 DEF Waits
<1>7. Less(U, V, {c})
  BY <1>2 DEF Less
<1> QED BY <1>2, <1>3, <1>4, <1>5, <1>6, <1>7 DEF SoundBook

LEMMA SettleFacts ==
  ASSUME NEW S, NEW w, NEW P, SoundBook(S, w, P), NEW c \in Requests, c \notin P,
         NEW R, R = SettleRequest(S, c)
  PROVE /\ SoundBook(R, w, P) /\ Less(S, R, {c})
        /\ \A Q : Waits(S, Q \cup {c}) => Waits(R, Q)
<1>1. CASE c \in S.opening \/ S.jobs[c] # {}
  <2>1. R = S
    BY <1>1 DEF SettleRequest
  <2>2. \A Q : Waits(S, Q \cup {c}) => Waits(S, Q)
    BY <1>1 DEF Waits
  <2> QED BY <2>1, <2>2, LessNone
<1>2. CASE ~(c \in S.opening \/ S.jobs[c] # {})
  <2>1. PICK out \in Outcome : out # "none" /\ R = Release(S, c, out)
    BY <1>2 DEF SettleRequest, Outcome
  <2> QED BY <2>1, ReleaseFacts
<1> QED BY <1>1, <1>2

\* c has left w, on the way from U to V.
Gone(U, V, w, c) ==
  \A P : SoundBook(U, w, P) /\ Waits(U, {}) /\ c \in P =>
           /\ SoundBook(V, w, P \ {c}) /\ Waits(V, {}) /\ Less(U, V, {c}) /\ w \notin V.jobs[c]

LEMMA ReleasedGone ==
  ASSUME NEW U, NEW w \in Work, NEW c, NEW W, NEW V, NEW out \in Outcome, out # "none",
         U \in Book => W = Without(U, w, c), V = Release(W, c, out)
  PROVE Gone(U, V, w, c)
<1>1. SUFFICES ASSUME NEW P, SoundBook(U, w, P), Waits(U, {}), c \in P
               PROVE /\ SoundBook(V, w, P \ {c}) /\ Waits(V, {}) /\ Less(U, V, {c}) /\ w \notin V.jobs[c]
  BY DEF Gone
<1>2. W = Without(U, w, c) /\ c \in Requests
  BY <1>1 DEF SoundBook, Mirror
<1>3. /\ SoundBook(W, w, P \ {c}) /\ Waits(W, {} \cup {c}) /\ Less(U, W, {c}) /\ w \notin W.jobs[c]
  BY <1>1, <1>2, WithoutFacts
<1>4. SoundBook(V, w, P \ {c}) /\ Less(W, V, {c}) /\ (Waits(W, {} \cup {c}) => Waits(V, {}))
  <2>1. c \notin P \ {c}
    OBVIOUS
  <2> QED BY <1>2, <1>3, <2>1, ReleaseFacts
<1>5. Less(U, V, {c})
  BY <1>3, <1>4, LessTwice
<1>6. w \notin V.jobs[c]
  BY <1>2, <1>3, <1>4 DEF Less
<1> QED BY <1>3, <1>4, <1>5, <1>6

LEMMA SettledGone ==
  ASSUME NEW U, NEW w \in Work, NEW c, NEW W, NEW V,
         U \in Book => W = Without(U, w, c), V = SettleRequest(W, c)
  PROVE Gone(U, V, w, c)
<1>1. SUFFICES ASSUME NEW P, SoundBook(U, w, P), Waits(U, {}), c \in P
               PROVE /\ SoundBook(V, w, P \ {c}) /\ Waits(V, {}) /\ Less(U, V, {c}) /\ w \notin V.jobs[c]
  BY DEF Gone
<1>2. W = Without(U, w, c) /\ c \in Requests
  BY <1>1 DEF SoundBook, Mirror
<1>3. /\ SoundBook(W, w, P \ {c}) /\ Waits(W, {} \cup {c}) /\ Less(U, W, {c}) /\ w \notin W.jobs[c]
  BY <1>1, <1>2, WithoutFacts
<1>4. SoundBook(V, w, P \ {c}) /\ Less(W, V, {c}) /\ (Waits(W, {} \cup {c}) => Waits(V, {}))
  <2>1. c \notin P \ {c}
    OBVIOUS
  <2> QED BY <1>2, <1>3, <2>1, SettleFacts
<1>5. Less(U, V, {c})
  BY <1>3, <1>4, LessTwice
<1>6. w \notin V.jobs[c]
  BY <1>2, <1>3, <1>4 DEF Less
<1> QED BY <1>3, <1>4, <1>5, <1>6

\* A loop over the requests P that observe w takes w out of all of them.
LEMMA Processed ==
  ASSUME NEW S, NEW w \in Work, NEW P \in SUBSET Requests, SoundBook(S, w, P), Waits(S, {}),
         S.obs[w] = {}, NEW g, g[{}] = S,
         \A s \in SUBSET P : s # {} => Gone(g[s \ {Picked(s)}], g[s], w, Picked(s))
  PROVE /\ Good(g[P]) /\ Less(S, g[P], P) /\ \A c \in Requests : w \notin g[P].jobs[c]
<1> DEFINE Now(s) == /\ SoundBook(g[s], w, P \ s) /\ Waits(g[s], {}) /\ Less(S, g[s], s)
                     /\ \A c \in s : w \notin g[s].jobs[c]
           J == {s \in SUBSET P : Now(s)}
<1>1. IsFiniteSet(P)
  BY FS_Subset, RenderAssumption
<1>2. {} \in J
  <2>1. P \ {} = P
    OBVIOUS
  <2> QED BY <2>1, LessNone
<1>3. ASSUME NEW s \in SUBSET P, s # {}, s \ {Picked(s)} \in J PROVE s \in J
  <2> DEFINE c == Picked(s)
             u == s \ {c}
  <2>1. c \in s /\ u \in SUBSET P
    BY <1>1, <1>3, PickedFacts
  <2>2. Now(u)
    BY <1>3
  <2>3. Gone(g[u], g[s], w, c)
    BY <1>3
  <2>4. c \in P \ u /\ (P \ u) \ {c} = P \ s
    BY <2>1
  <2> HIDE DEF c
  <2>5. SoundBook(g[s], w, P \ s) /\ Waits(g[s], {}) /\ Less(g[u], g[s], {c}) /\ w \notin g[s].jobs[c]
    <3>1. SoundBook(g[u], w, P \ u) /\ Waits(g[u], {}) /\ c \in P \ u
      BY <2>2, <2>4
    <3>2. SoundBook(g[s], w, (P \ u) \ {c}) /\ Waits(g[s], {}) /\ Less(g[u], g[s], {c}) /\ w \notin g[s].jobs[c]
      BY <2>3, <3>1 DEF Gone
    <3> QED BY <2>4, <3>2
  <2>6. Less(S, g[s], s)
    <3>1. Less(S, g[u], u) /\ u \subseteq s /\ {c} \subseteq s
      BY <2>1, <2>2
    <3> QED BY <2>5, <3>1, LessTwice
  <2>7. \A d \in s : w \notin g[s].jobs[d]
    <3>1. \A d \in s : d = c \/ d \in u
      OBVIOUS
    <3> QED BY <2>2, <2>5, <3>1 DEF Less
  <2> QED BY <2>5, <2>6, <2>7
<1>4. P \in J
  <2> HIDE DEF J
  <2>1. \A s \in SUBSET P : s # {} /\ s \ {Picked(s)} \in J => s \in J
    BY <1>3
  <2> QED BY <1>1, <1>2, <2>1, OneByOne
<1>5. SoundBook(g[P], w, {}) /\ Waits(g[P], {}) /\ Less(S, g[P], P) /\ \A c \in P : w \notin g[P].jobs[c]
  <2>1. P \ P = {}
    OBVIOUS
  <2> QED BY <1>4, <2>1
<1>6. Good(g[P])
  BY <1>5, SoundAny DEF Good
<1>7. \A c \in Requests : c \notin P => w \notin S.jobs[c]
  BY DEF SoundBook, Mirror
<1> QED BY <1>5, <1>6, <1>7 DEF Less

\* The set of w's observers is gone; each is still to be dealt with.
LEMMA UnlinkFacts ==
  ASSUME NEW S, Good(S), NEW w \in Work, NEW x \in [Elements -> SUBSET Requests], NEW r \in Seq(Ref),
         Len(r) = Len(S.refs), NEW T, T = [S EXCEPT !.expected = x, !.obs[w] = {}, !.refs = r]
  PROVE /\ T \in Book /\ SoundBook(T, w, S.obs[w]) /\ Waits(T, {}) /\ Less(S, T, {}) /\ T.obs[w] = {}
        /\ S.obs[w] \in SUBSET Requests
<1>0. S \in Book /\ Mirror(S, Nobody, {}) /\ Living(S) /\ Tallied(S) /\ Waits(S, {})
  BY DEF Good, SoundBook
<1> DEFINE o == [S.obs EXCEPT ![w] = {}]
<1>1. /\ o \in [Work -> SUBSET Requests] /\ o[w] = {} /\ \A v \in Work : v # w => o[v] = S.obs[v]
      /\ S.obs[w] \in SUBSET Requests
  BY <1>0, BookFields
<1>2. T = [S EXCEPT !.expected = x, !.obs = o, !.refs = r]
  BY <1>0 DEF Book
<1> HIDE DEF o
<1>3. T \in Book
  BY <1>0, <1>1, <1>2 DEF Book
<1>4. /\ T.alive = S.alive /\ T.opening = S.opening /\ T.obs = o /\ T.jobs = S.jobs
      /\ T.tasks = S.tasks /\ T.outcome = S.outcome /\ T.refs = r
  BY <1>0, <1>2 DEF Book
<1>5. Mirror(T, w, S.obs[w])
  <2>1. ASSUME NEW d \in Requests, NEW v \in Work
        PROVE d \in o[v] <=> v \in S.jobs[d] /\ ~(v = w /\ d \in S.obs[w])
    <3>1. d \in S.obs[v] <=> v \in S.jobs[d]
      BY <1>0 DEF Mirror
    <3> QED BY <1>1, <3>1
  <2>2. \A d \in S.obs[w] : w \in S.jobs[d]
    BY <1>0, <1>1 DEF Mirror
  <2> QED BY <1>1, <1>4, <2>1, <2>2 DEF Mirror
<1>6. Living(T) /\ Tallied(T) /\ Waits(T, {})
  BY <1>0, <1>4 DEF Living, Tallied, Waits
<1>7. Less(S, T, {})
  BY <1>4 DEF Less
<1> QED BY <1>1, <1>3, <1>4, <1>5, <1>6, <1>7 DEF SoundBook

LEMMA DetachedFacts ==
  ASSUME NEW e \in Elements, NEW c \in Requests, NEW fails \in BOOLEAN, NEW U, NEW V, V = Detached(U, e, c, fails)
  PROVE (U \in Book => V \in Book) /\ Gone(U, V, e, c)
<1> DEFINE W == [U EXCEPT !.jobs[c] = @ \ {e}]
<1>1. V = IF fails THEN Release(W, c, "abort") ELSE SettleRequest(W, c)
  BY DEF Detached
<1>2. U \in Book => W = Without(U, e, c)
  BY WithoutIs
<1> HIDE DEF W
<1>3. e \in Work /\ "abort" \in Outcome
  BY DEF Work, Outcome
<1>4. U \in Book => W \in Book
  BY <1>2, <1>3, WithoutFields
<1> QED BY <1>1, <1>2, <1>3, <1>4, ReleaseBook, SettleBook, ReleasedGone, SettledGone

LEMMA TaskDoneFacts ==
  ASSUME NEW t \in Tasks, NEW c \in Requests, NEW failed, NEW U, NEW V, V = TaskDone(U, t, c, failed)
  PROVE (U \in Book => V \in Book) /\ Gone(U, V, t, c)
<1> DEFINE W == ForgetTask(U, t, c)
<1>1. V = Release(W, c, "error") \/ V = SettleRequest(W, c)
  BY DEF TaskDone
<1>2. U \in Book => W = Without(U, t, c)
  BY WithoutIs
<1> HIDE DEF W
<1>3. t \in Work /\ "error" \in Outcome
  BY DEF Work, Outcome
<1>4. U \in Book => W \in Book
  BY <1>2, <1>3, WithoutFields
<1> QED BY <1>1, <1>2, <1>3, <1>4, ReleaseBook, SettleBook, ReleasedGone, SettledGone

LEMMA TaskCancelledFacts ==
  ASSUME NEW t \in Tasks, NEW c \in Requests, NEW U, NEW V, V = TaskCancelled(U, t, c)
  PROVE (U \in Book => V \in Book) /\ Gone(U, V, t, c)
<1> DEFINE W == ForgetTask(U, t, c)
<1>1. V = Release(W, c, "abort") \/ V = SettleRequest(W, c)
  BY DEF TaskCancelled
<1>2. U \in Book => W = Without(U, t, c)
  BY WithoutIs
<1> HIDE DEF W
<1>3. t \in Work /\ "abort" \in Outcome
  BY DEF Work, Outcome
<1>4. U \in Book => W \in Book
  BY <1>2, <1>3, WithoutFields
<1> QED BY <1>1, <1>2, <1>3, <1>4, ReleaseBook, SettleBook, ReleasedGone, SettledGone

LEMMA LessNew ==
  ASSUME NEW S, NEW T, NEW U, NEW cs, Less(S, T, {}), Less(T, U, cs), Good(U)
  PROVE U \in GoodFrom(S, {})
BY DEF GoodFrom, Less, Good, SoundBook

\* No request waits for w.
Rid(S, w) == \A c \in Requests : w \notin S.jobs[c]

LEMMA DetachGood ==
  ASSUME NEW S, Good(S), NEW e \in Elements, NEW R, R = Detach(S, e)
  PROVE R \in GoodFrom(S, {}) /\ Rid(R, e)
<1>1. CASE ~Observing(S)
  <2>1. R = S
    BY <1>1 DEF Detach
  <2>2. Rid(S, e)
    BY <1>1 DEF Observing, Rid, Good, SoundBook, Living
  <2> QED BY <2>1, <2>2, GoodBook
<1>2. CASE Observing(S)
  <2> DEFINE P == S.obs[e]
             x == [S.expected EXCEPT ![e] = {}]
             r == IF P = {} THEN S.refs ELSE Unlinked(S.refs, e)
             T == [S EXCEPT !.expected = x, !.obs[e] = {}, !.refs = r]
             lost == S.expected[e]
  <2>0. S \in Book /\ e \in Work
    BY GoodBook DEF Work
  <2>1. x \in [Elements -> SUBSET Requests] /\ S.refs \in Seq(Ref)
    BY <2>0, BookFields
  <2>2. r \in Seq(Ref) /\ Len(r) = Len(S.refs)
    <3>1. CASE P = {}
      BY <2>1, <3>1
    <3>2. CASE P # {}
      <4>1. PICK c : c \in P
        BY <3>2
      <4>2. c \in Requests
        BY <2>0, <4>1, BookFields
      <4> QED BY <2>1, <3>2, <4>2, RefFacts
    <3> QED BY <3>1, <3>2
  <2>3. R = DetachEach(T, P, e, lost)
    <3>1. [S EXCEPT !.expected[e] = {}, !.obs[e] = {},
                    !.refs = IF S.obs[e] = {} THEN @ ELSE Unlinked(@, e)] = T
      BY <2>0 DEF Book
    <3> QED BY <1>2, <3>1 DEF Detach, DetachEach
  <2> HIDE DEF x, r
  <2>4. /\ T \in Book /\ SoundBook(T, e, P) /\ Waits(T, {}) /\ Less(S, T, {}) /\ T.obs[e] = {}
        /\ P \in SUBSET Requests
    BY <2>0, <2>1, <2>2, UnlinkFacts
  <2> HIDE DEF T, lost, P
  <2>5. IsFiniteSet(P)
    BY <2>4, FS_Subset, RenderAssumption
  <2>6. \A c \in P, U \in Book : Detached(U, e, c, Lost(e, c) /\ c \notin lost) \in Book
    BY <2>4, DetachedFacts
  <2>7. PICK g : DetachRun(g, Book, T, P, e, lost)
    BY <2>4, <2>5, <2>6, DetachFold
  <2>8. /\ R = g[P] /\ g[{}] = T
        /\ \A s \in SUBSET P : s # {} => g[s] = Detached(g[s \ {Picked(s)}], e, Picked(s),
                                                         Lost(e, Picked(s)) /\ Picked(s) \notin lost)
    BY <2>3, <2>7 DEF DetachRun
  <2>9. ASSUME NEW s \in SUBSET P, s # {} PROVE Gone(g[s \ {Picked(s)}], g[s], e, Picked(s))
    <3>1. Picked(s) \in Requests
      BY <2>4, <2>5, <2>9, PickedFacts
    <3> QED BY <2>8, <2>9, <3>1, DetachedFacts
  <2>10. Good(g[P]) /\ Less(T, g[P], P) /\ \A c \in Requests : e \notin g[P].jobs[c]
    BY <2>0, <2>4, <2>8, <2>9, Processed
  <2>11. R \in GoodFrom(S, {})
    BY <2>4, <2>8, <2>10, LessNew
  <2> QED BY <2>8, <2>10, <2>11 DEF Rid
<1> QED BY <1>1, <1>2

\* An activation is no longer observed.
LEMMA UnobservedFacts ==
  ASSUME NEW S, Good(S), NEW t \in Tasks, NEW T, T = Unobserved(S, t)
  PROVE /\ T \in Book /\ SoundBook(T, t, S.obs[t]) /\ Waits(T, {}) /\ Less(S, T, {}) /\ T.obs[t] = {}
        /\ S.obs[t] \in SUBSET Requests /\ IsFiniteSet(S.obs[t]) /\ t \in Work
<1> DEFINE r == Unlinked(S.refs, t)
<1>0. S \in Book /\ t \in Work
  BY GoodBook DEF Work
<1>1. S.expected \in [Elements -> SUBSET Requests] /\ S.refs \in Seq(Ref) /\ S.obs[t] \in SUBSET Requests
  BY <1>0, BookFields
<1>2. r \in Seq(Ref) /\ Len(r) = Len(S.refs)
  <2>1. Len(S.refs) \in Nat /\ DOMAIN S.refs = 1 .. Len(S.refs) /\ \A i \in DOMAIN S.refs : S.refs[i] \in Ref
    BY <1>1
  <2>2. \A z \in Ref : [z EXCEPT !.of = Nobody] \in Ref
    BY DEF Ref
  <2>3. r \in [1 .. Len(S.refs) -> Ref]
    BY <2>1, <2>2 DEF Unlinked
  <2> HIDE DEF r
  <2> QED BY <2>1, <2>3
<1>3. T = [S EXCEPT !.expected = S.expected, !.obs[t] = {}, !.refs = r]
  BY <1>0 DEF Unobserved, Book
<1>4. IsFiniteSet(S.obs[t])
  BY <1>1, FS_Subset, RenderAssumption
<1> DEFINE x == S.expected
<1>5. x \in [Elements -> SUBSET Requests] /\ T = [S EXCEPT !.expected = x, !.obs[t] = {}, !.refs = r]
  BY <1>1, <1>3
<1> HIDE DEF r, x
<1> DEFINE Z == [S EXCEPT !.expected = x, !.obs[t] = {}, !.refs = r]
<1>a. Z \in Book /\ SoundBook(Z, t, S.obs[t]) /\ Waits(Z, {}) /\ Less(S, Z, {}) /\ Z.obs[t] = {}
  BY <1>0, <1>2, <1>5, UnlinkFacts
<1>b. T = Z
  BY <1>5
<1> HIDE DEF Z
<1>6. /\ T \in Book /\ SoundBook(T, t, S.obs[t]) /\ Waits(T, {}) /\ Less(S, T, {}) /\ T.obs[t] = {}
  BY <1>a, <1>b
<1> QED BY <1>0, <1>1, <1>4, <1>6

LEMMA FinishTaskGood ==
  ASSUME NEW S, Good(S), NEW t \in Tasks, NEW failed, NEW R, R = FinishTask(S, t, failed)
  PROVE R \in GoodFrom(S, {}) /\ Rid(R, t)
<1> DEFINE P == S.obs[t]
           T == Unobserved(S, t)
<1>1. /\ T \in Book /\ SoundBook(T, t, P) /\ Waits(T, {}) /\ Less(S, T, {}) /\ T.obs[t] = {}
      /\ P \in SUBSET Requests /\ IsFiniteSet(P) /\ t \in Work
  BY UnobservedFacts
<1>2. R = DoneEach(T, P, t, failed)
  BY DEF FinishTask, DoneEach
<1> HIDE DEF P, T
<1>3. \A c \in P, U \in Book : TaskDone(U, t, c, failed) \in Book
  BY <1>1, TaskDoneFacts
<1>4. PICK g : DoneRun(g, Book, T, P, t, failed)
  BY <1>1, <1>3, DoneFold
<1>5. /\ R = g[P] /\ g[{}] = T
      /\ \A s \in SUBSET P : s # {} => g[s] = TaskDone(g[s \ {Picked(s)}], t, Picked(s), failed)
  BY <1>2, <1>4 DEF DoneRun
<1>6. ASSUME NEW s \in SUBSET P, s # {} PROVE Gone(g[s \ {Picked(s)}], g[s], t, Picked(s))
  <2>1. Picked(s) \in Requests
    BY <1>1, <1>6, PickedFacts
  <2> QED BY <1>5, <1>6, <2>1, TaskDoneFacts
<1>7. Good(g[P]) /\ Less(T, g[P], P) /\ \A c \in Requests : t \notin g[P].jobs[c]
  BY <1>1, <1>5, <1>6, Processed
<1>8. R \in GoodFrom(S, {})
  BY <1>1, <1>5, <1>7, LessNew
<1> QED BY <1>5, <1>7, <1>8 DEF Rid

LEMMA CancelTaskGood ==
  ASSUME NEW S, Good(S), NEW t \in Tasks, NEW R, R = CancelTask(S, t)
  PROVE R \in GoodFrom(S, {}) /\ Rid(R, t)
<1> DEFINE P == S.obs[t]
           T == Unobserved(S, t)
<1>1. /\ T \in Book /\ SoundBook(T, t, P) /\ Waits(T, {}) /\ Less(S, T, {}) /\ T.obs[t] = {}
      /\ P \in SUBSET Requests /\ IsFiniteSet(P) /\ t \in Work
  BY UnobservedFacts
<1>2. R = CancelEach(T, P, t)
  BY DEF CancelTask, CancelEach
<1> HIDE DEF P, T
<1>3. \A c \in P, U \in Book : TaskCancelled(U, t, c) \in Book
  BY <1>1, TaskCancelledFacts
<1>4. PICK g : CancelRun(g, Book, T, P, t)
  BY <1>1, <1>3, CancelFold
<1>5. /\ R = g[P] /\ g[{}] = T
      /\ \A s \in SUBSET P : s # {} => g[s] = TaskCancelled(g[s \ {Picked(s)}], t, Picked(s))
  BY <1>2, <1>4 DEF CancelRun
<1>6. ASSUME NEW s \in SUBSET P, s # {} PROVE Gone(g[s \ {Picked(s)}], g[s], t, Picked(s))
  <2>1. Picked(s) \in Requests
    BY <1>1, <1>6, PickedFacts
  <2> QED BY <1>5, <1>6, <2>1, TaskCancelledFacts
<1>7. Good(g[P]) /\ Less(T, g[P], P) /\ \A c \in Requests : t \notin g[P].jobs[c]
  BY <1>1, <1>5, <1>6, Processed
<1>8. R \in GoodFrom(S, {})
  BY <1>1, <1>5, <1>7, LessNew
<1> QED BY <1>5, <1>7, <1>8 DEF Rid

-----------------------------------------------------------------------------
(* Disposals and blocked writes *)

LEMMA TaskDisposedFacts ==
  ASSUME NEW t \in Tasks, NEW c \in Requests, NEW U \in Book, NEW V, V = TaskDisposed(U, t, c)
  PROVE V \in Book /\ (Good(U) /\ c \in U.obs[t] => Good(V) /\ Less(U, V, {c}))
<1> DEFINE D == Drop(U, t, c)
           W == ForgetTask(D, t, c)
<1>0. t \in Work
  BY DEF Work
<1>1. /\ D \in Book /\ SameJobs(U, D) /\ \A v \in Work : v # t => D.obs[v] = U.obs[v]
      /\ c \in U.obs[t] => D.obs[t] = U.obs[t] \ {c}
  BY <1>0, DropFacts
<1> HIDE DEF D
<1>2. W = Without(D, t, c) /\ V = SettleRequest(W, c)
  BY <1>1, WithoutIs DEF TaskDisposed, D
<1> HIDE DEF W
<1>3. W \in Book
  BY <1>0, <1>1, <1>2, WithoutFields
<1>4. V \in Book
  BY <1>2, <1>3, SettleBook
<1>5. ASSUME Good(U), c \in U.obs[t] PROVE Good(V) /\ Less(U, V, {c})
  <2>0. Mirror(U, Nobody, {}) /\ Living(U) /\ Tallied(U) /\ Waits(U, {})
    BY <1>5 DEF Good, SoundBook
  <2>1. Mirror(D, t, {c})
    <3>1. ASSUME NEW d \in Requests, NEW v \in Work
          PROVE d \in D.obs[v] <=> v \in D.jobs[d] /\ ~(v = t /\ d \in {c})
      <4>1. d \in U.obs[v] <=> v \in U.jobs[d]
        BY <2>0 DEF Mirror
      <4> QED BY <1>1, <1>5, <4>1 DEF SameJobs
    <3>2. t \in D.jobs[c]
      BY <1>0, <1>1, <1>5, <2>0 DEF Mirror, SameJobs
    <3> QED BY <3>1, <3>2 DEF Mirror
  <2>2. Living(D) /\ Tallied(D) /\ Waits(D, {})
    BY <1>1, <2>0 DEF Living, Tallied, Waits, SameJobs
  <2>3. SoundBook(D, t, {c})
    BY <1>1, <2>1, <2>2 DEF SoundBook
  <2>4. Gone(D, V, t, c)
    BY <1>0, <1>2, SettledGone
  <2>5. SoundBook(V, t, {c} \ {c}) /\ Waits(V, {}) /\ Less(D, V, {c})
    BY <2>2, <2>3, <2>4 DEF Gone
  <2>6. {c} \ {c} = {}
    OBVIOUS
  <2>7. Good(V)
    BY <2>5, <2>6, SoundAny DEF Good
  <2>8. Less(U, D, {})
    BY <1>1 DEF Less, SameJobs
  <2> QED BY <2>5, <2>7, <2>8, LessTwice
<1> QED BY <1>4, <1>5

LEMMA RetireTaskGood ==
  ASSUME NEW S, NEW X, NEW U \in GoodFrom(S, X), NEW t \in Tasks, NEW cs
  PROVE RetireTask(U, t, cs) \in GoodFrom(S, X)
<1> DEFINE P == U.obs[t] \cap cs
           R == RetireTask(U, t, cs)
<1>0. U \in Book /\ Good(U) /\ t \in Work
  BY DEF GoodFrom, Work
<1>1. P \in SUBSET Requests /\ \A c \in P : c \in U.obs[t]
  BY <1>0, BookFields
<1>2. IsFiniteSet(P)
  BY <1>1, FS_Subset, RenderAssumption
<1>3. R = DisposedEach(U, P, t)
  BY DEF RetireTask, DisposedEach
<1> HIDE DEF P, R
<1>4. \A c \in P, T \in Book : TaskDisposed(T, t, c) \in Book
  BY <1>1, TaskDisposedFacts
<1>5. PICK g : DisposedRun(g, Book, U, P, t)
  BY <1>0, <1>2, <1>4, DisposedFold
<1>6. /\ R = g[P] /\ g[{}] = U /\ \A s \in SUBSET P : g[s] \in Book
      /\ \A s \in SUBSET P : s # {} => g[s] = TaskDisposed(g[s \ {Picked(s)}], t, Picked(s))
  BY <1>3, <1>5 DEF DisposedRun
<1> DEFINE J == {s \in SUBSET P : Good(g[s]) /\ Less(U, g[s], s)}
<1>7. {} \in J
  BY <1>0, <1>6, LessNone
<1>8. ASSUME NEW s \in SUBSET P, s # {}, s \ {Picked(s)} \in J PROVE s \in J
  <2> DEFINE c == Picked(s)
             u == s \ {c}
  <2>1. c \in s /\ c \in Requests /\ u \in SUBSET P /\ c \notin u
    BY <1>1, <1>2, <1>8, PickedFacts
  <2>2. Good(g[u]) /\ Less(U, g[u], u) /\ g[u] \in Book
    BY <1>6, <1>8, <2>1
  <2>3. g[s] = TaskDisposed(g[u], t, c)
    BY <1>6, <1>8
  <2> HIDE DEF c
  <2>4. t \in U.jobs[c]
    BY <1>0, <1>1, <2>1 DEF Good, SoundBook, Mirror
  <2>5. t \in g[u].jobs[c]
    BY <2>1, <2>2, <2>4 DEF Less
  <2>6. c \in g[u].obs[t]
    BY <1>0, <2>1, <2>2, <2>5 DEF Good, SoundBook, Mirror
  <2>7. Good(g[s]) /\ Less(g[u], g[s], {c})
    BY <2>1, <2>2, <2>3, <2>6, TaskDisposedFacts
  <2>8. u \subseteq s /\ {c} \subseteq s
    BY <2>1
  <2>9. Less(U, g[s], s)
    BY <2>2, <2>7, <2>8, LessTwice
  <2> QED BY <2>7, <2>9
<1>9. P \in J
  <2> HIDE DEF J
  <2>1. \A s \in SUBSET P : s # {} /\ s \ {Picked(s)} \in J => s \in J
    BY <1>8
  <2> QED BY <1>2, <1>7, <2>1, OneByOne
<1>10. Good(R) /\ Less(U, R, P)
  BY <1>6, <1>9
<1>11. R \in GoodFrom(S, X)
  BY <1>10, LessGood
<1> QED BY <1>11 DEF R

LEMMA RetireEachGood ==
  ASSUME NEW S, NEW X, NEW T \in GoodFrom(S, X), NEW ts \in SUBSET Tasks, NEW cs
  PROVE RetireEach(T, ts, cs) \in GoodFrom(S, X)
<1>1. IsFiniteSet(ts)
  BY FS_Subset, RenderAssumption
<1>2. \A t \in ts, U \in GoodFrom(S, X) : RetireTask(U, t, cs) \in GoodFrom(S, X)
  BY RetireTaskGood
<1> QED BY <1>1, <1>2, RetireFold

\* Who expects a disposal makes no difference to who waits.
LEMMA ExpectGood ==
  ASSUME NEW S, NEW X, NEW T \in GoodFrom(S, X), NEW x \in [Elements -> SUBSET Requests]
  PROVE [T EXCEPT !.expected = x] \in GoodFrom(S, X)
<1> DEFINE U == [T EXCEPT !.expected = x]
<1>0. /\ T \in Book /\ SoundBook(T, Nobody, {}) /\ Waits(T, {})
      /\ Len(T.refs) = Len(S.refs) /\ \A d \in Requests : T.jobs[d] \subseteq S.jobs[d] \cup X
  BY DEF GoodFrom, Good
<1>1. U \in Book
  BY <1>0 DEF Book
<1>2. /\ U.alive = T.alive /\ U.opening = T.opening /\ U.obs = T.obs /\ U.jobs = T.jobs
      /\ U.tasks = T.tasks /\ U.outcome = T.outcome /\ U.refs = T.refs
  BY <1>0 DEF Book
<1> HIDE DEF U
<1>3. Good(U)
  BY <1>0, <1>1, <1>2 DEF Good, SoundBook, Mirror, Living, Tallied, Waits
<1>4. U \in GoodFrom(S, X)
  BY <1>0, <1>1, <1>2, <1>3 DEF GoodFrom
<1> QED BY <1>4 DEF U

LEMMA BlockersGood ==
  ASSUME NEW S, NEW X, NEW T \in GoodFrom(S, X), NEW x \in [Requests -> SUBSET Elements]
  PROVE [T EXCEPT !.blockers = x] \in GoodFrom(S, X)
<1> DEFINE U == [T EXCEPT !.blockers = x]
<1>0. /\ T \in Book /\ SoundBook(T, Nobody, {}) /\ Waits(T, {})
      /\ Len(T.refs) = Len(S.refs) /\ \A d \in Requests : T.jobs[d] \subseteq S.jobs[d] \cup X
  BY DEF GoodFrom, Good
<1>1. U \in Book
  BY <1>0 DEF Book
<1>2. /\ U.alive = T.alive /\ U.opening = T.opening /\ U.obs = T.obs /\ U.jobs = T.jobs
      /\ U.tasks = T.tasks /\ U.outcome = T.outcome /\ U.refs = T.refs
  BY <1>0 DEF Book
<1> HIDE DEF U
<1>3. Good(U)
  BY <1>0, <1>1, <1>2 DEF Good, SoundBook, Mirror, Living, Tallied, Waits
<1>4. U \in GoodFrom(S, X)
  BY <1>0, <1>1, <1>2, <1>3 DEF GoodFrom
<1> QED BY <1>4 DEF U

LEMMA DisconnectGood ==
  ASSUME waiting \subseteq Tasks, NEW S, NEW X, NEW T \in GoodFrom(S, X), NEW e \in Elements, NEW structural
  PROVE Disconnect(T, e, structural) \in GoodFrom(S, X)
<1> DEFINE R == ReleaseAll(T, {c \in T.alive : RootOf[c] = e}, "abort")
           x == [R.expected EXCEPT ![e] = @ \cup (R.obs[e] \cap Active(R))]
           Y == [R EXCEPT !.expected = x]
           ts == {t \in waiting : TaskHost[t] = e}
<1>1. R \in GoodFrom(S, X)
  <2>1. T \in Book
    BY DEF GoodFrom
  <2>2. {c \in T.alive : RootOf[c] = e} \in SUBSET Requests
    BY <2>1, BookFields
  <2> QED BY <2>2, ReleaseAllGood DEF Outcome
<1>2. R \in Book
  BY <1>1 DEF GoodFrom
<1>3. Disconnect(T, e, structural) = R \/ Disconnect(T, e, structural) = RetireEach(Y, ts, Active(R))
  <2>1. [R EXCEPT !.expected[e] = @ \cup (R.obs[e] \cap Active(R))] = Y
    <3> HIDE DEF R
    <3> QED BY <1>2 DEF Book
  <2> QED BY <2>1 DEF Disconnect, RetireEach
<1> HIDE DEF R
<1>4. x \in [Elements -> SUBSET Requests]
  BY <1>2, BookFields DEF Work
<1> HIDE DEF x
<1>5. Y \in GoodFrom(S, X)
  BY <1>1, <1>4, ExpectGood
<1>6. ts \in SUBSET Tasks
  OBVIOUS
<1> HIDE DEF Y, ts
<1> QED BY <1>1, <1>3, <1>5, <1>6, RetireEachGood

LEMMA DisconnectEachGood ==
  ASSUME waiting \subseteq Tasks, NEW S, NEW X, NEW T \in GoodFrom(S, X), NEW B \in SUBSET Elements, NEW structural
  PROVE DisconnectEach(T, B, structural) \in GoodFrom(S, X)
<1>1. IsFiniteSet(B)
  BY FS_Subset, RenderAssumption
<1>2. \A d \in B, U \in GoodFrom(S, X) : Disconnect(U, d, structural) \in GoodFrom(S, X)
  BY DisconnectGood
<1> QED BY <1>1, <1>2, DisconnectFold

LEMMA BlockerGood ==
  ASSUME NEW S, NEW X, NEW T \in GoodFrom(S, X), NEW c \in Requests, NEW e \in Elements
  PROVE [T EXCEPT !.blockers[c] = @ \cup {e}] \in GoodFrom(S, X)
<1> DEFINE x == [T.blockers EXCEPT ![c] = @ \cup {e}]
<1>1. T \in Book
  BY DEF GoodFrom
<1>2. x \in [Requests -> SUBSET Elements]
  BY <1>1, BookFields
<1>3. [T EXCEPT !.blockers[c] = @ \cup {e}] = [T EXCEPT !.blockers = x]
  BY <1>1 DEF Book
<1> HIDE DEF x
<1> QED BY <1>2, <1>3, BlockersGood

LEMMA BlockGood ==
  ASSUME NEW S, NEW X, NEW T \in GoodFrom(S, X), NEW c \in Requests, NEW e \in Elements
  PROVE Block(T, c, e) \in GoodFrom(S, X) /\ BlockAlive(T, c, e) \in GoodFrom(S, X)
<1>1. Block(T, c, e) \in GoodFrom(S, X)
  BY BlockerGood, ReleaseGood DEF Block, Outcome
<1> QED BY <1>1 DEF BlockAlive

LEMMA BlockScopeGood ==
  ASSUME NEW S, NEW X, NEW T \in GoodFrom(S, X), NEW c \in Requests, NEW B \in SUBSET Elements
  PROVE BlockScope(T, B, c) \in GoodFrom(S, X)
<1>1. IsFiniteSet(B)
  BY FS_Subset, RenderAssumption
<1>2. \A e \in B, U \in GoodFrom(S, X) : BlockAlive(U, c, e) \in GoodFrom(S, X)
  BY BlockGood
<1> QED BY <1>1, <1>2, ScopeBlockFold

LEMMA BlockEachGood ==
  ASSUME NEW S, NEW X, NEW T \in GoodFrom(S, X), NEW cs \in SUBSET Requests, NEW e \in Elements
  PROVE BlockEach(T, cs, e) \in GoodFrom(S, X) /\ BlockerEach(T, cs, e) \in GoodFrom(S, X)
<1>1. IsFiniteSet(cs)
  BY FS_Subset, RenderAssumption
<1>2. \A c \in cs, U \in GoodFrom(S, X) : Block(U, c, e) \in GoodFrom(S, X)
  BY BlockGood
<1>3. \A c \in cs, U \in GoodFrom(S, X) : [U EXCEPT !.blockers[c] = @ \cup {e}] \in GoodFrom(S, X)
  BY BlockerGood
<1>4. BlockEach(T, cs, e) \in GoodFrom(S, X)
  BY <1>1, <1>2, BlockFold
<1>5. BlockerEach(T, cs, e) \in GoodFrom(S, X)
  BY <1>1, <1>3, BlockerFold
<1> QED BY <1>4, <1>5

LEMMA ObserveBlockedGood ==
  ASSUME NEW S, Good(S), NEW e \in Elements
  PROVE ObserveBlocked(S, e) \in GoodFrom(S, {})
<1> DEFINE T == BlockEach(S, {c \in S.opening : InScope(e, RootOf[c])}, e)
           V == BlockEach(T, {c \in Active(S) : InScope(e, RootOf[c])}, e)
           cs == {c \in Active(S) : ~InScope(e, RootOf[c]) /\ c \in V.alive}
<1>1. S \in GoodFrom(S, {}) /\ S.opening \subseteq Requests /\ Active(S) \subseteq Requests
  BY GoodBook, BookFields, ActiveFacts
<1>2. T \in GoodFrom(S, {})
  BY <1>1, BlockEachGood
<1>3. ObserveBlocked(S, e) = BlockerEach(V, cs, e)
  BY DEF ObserveBlocked, BlockEach, BlockerEach
<1> HIDE DEF T
<1>4. V \in GoodFrom(S, {})
  BY <1>1, <1>2, BlockEachGood
<1> HIDE DEF V
<1>5. cs \in SUBSET Requests
  BY <1>1
<1> HIDE DEF cs
<1> QED BY <1>3, <1>4, <1>5, BlockEachGood

-----------------------------------------------------------------------------
(* The frames *)

LEMMA FailGood ==
  ASSUME NEW S, Good(S), NEW e \in Elements
  PROVE Fail(S, e) \in GoodFrom(S, {})
<1>1. S \in Book /\ S \in GoodFrom(S, {})
  BY GoodBook
<1>2. S.obs[e] \cup {c \in S.opening : InScope(e, RootOf[c])} \in SUBSET Requests
  BY <1>1, BookFields DEF Work
<1>3. "error" \in Outcome
  BY DEF Outcome
<1> QED BY <1>1, <1>2, <1>3, ReleaseAllGood DEF Fail

\* Work that is queued already is not taken up again.
LEMMA EnterGood ==
  ASSUME NEW S, NEW X, NEW T \in GoodFrom(S, X), NEW e \in Elements, NEW queued, queued \/ e \in X
  PROVE Enter(T, e, queued) \in GoodFrom(S, X)
<1> DEFINE U == ReleaseAll(T, {c \in T.obs[e] : Lost(e, c) /\ c \notin T.expected[e]}, "abort")
<1>1. T \in Book /\ e \in Work
  BY DEF GoodFrom, Work
<1>2. {c \in T.obs[e] : Lost(e, c) /\ c \notin T.expected[e]} \in SUBSET Requests
  BY <1>1, BookFields
<1>3. U \in GoodFrom(S, X)
  BY <1>2, ReleaseAllGood DEF Outcome
<1>4. Enter(T, e, queued) = T \/ (queued /\ Enter(T, e, queued) = U)
      \/ (e \in X /\ Enter(T, e, queued) = Enroll(U, e))
  BY DEF Enter
<1> HIDE DEF U
<1> QED BY <1>1, <1>3, <1>4, EnrollGood

LEMMA QueuedGood ==
  ASSUME NEW S, NEW X, NEW T \in GoodFrom(S, X), NEW e \in Elements, e \in X
  PROVE Queued(T, e) \in GoodFrom(S, X)
<1> DEFINE x == [T.expected EXCEPT ![e] = IF Connected(e) THEN {} ELSE @]
           U == [T EXCEPT !.expected = x]
<1>1. T \in Book /\ e \in Work
  BY DEF GoodFrom, Work
<1>2. x \in [Elements -> SUBSET Requests]
  BY <1>1, BookFields
<1>3. Queued(T, e) = T \/ Queued(T, e) = Enroll(U, e)
  <2>1. [T EXCEPT !.expected[e] = IF Connected(e) THEN {} ELSE @] = U
    BY <1>1 DEF Book
  <2> QED BY <2>1 DEF Queued
<1> HIDE DEF x
<1>4. U \in GoodFrom(S, X)
  BY <1>2, ExpectGood
<1> HIDE DEF U
<1> QED BY <1>1, <1>3, <1>4, EnrollGood

LEMMA RidKept ==
  ASSUME NEW S, NEW T, NEW w, T \in GoodFrom(S, {}), Rid(S, w)
  PROVE Rid(T, w)
BY DEF GoodFrom, Rid

LEMMA FinishedGood ==
  ASSUME NEW S, Good(S), NEW e \in Elements, NEW executing, NEW g, NEW R, R = Finished(S, e, executing, g)
  PROVE R \in GoodFrom(S, {}) /\ (e \notin executing /\ g[e] = {} => Rid(R, e))
<1>1. CASE e \notin executing /\ g[e] = {}
  <2>1. R = Detach(S, e)
    BY <1>1 DEF Finished
  <2> QED BY <2>1, DetachGood
<1>2. CASE ~(e \notin executing /\ g[e] = {})
  <2>1. R = S
    BY <1>2 DEF Finished
  <2> QED BY <1>2, <2>1, GoodBook
<1> QED BY <1>1, <1>2

LEMMA FromGood ==
  ASSUME NEW S, NEW T, NEW X, T \in GoodFrom(S, X)
  PROVE Good(T) /\ T \in Book
BY DEF GoodFrom

\* All activations of a component are cancelled.
LEMMA CancelTasksGood ==
  ASSUME NEW S, Good(S), NEW ts \in SUBSET Tasks, NEW R, R = CancelTasks(S, ts)
  PROVE R \in GoodFrom(S, {}) /\ \A t \in ts : Rid(R, t)
<1>1. IsFiniteSet(ts)
  BY FS_Subset, RenderAssumption
<1>2. ASSUME NEW t \in ts, NEW U \in GoodFrom(S, {}) PROVE CancelTask(U, t) \in GoodFrom(S, {})
  <2>1. Good(U) /\ t \in Tasks
    BY FromGood
  <2>2. CancelTask(U, t) \in GoodFrom(U, {})
    BY <2>1, CancelTaskGood
  <2> QED BY <2>2, GoodTwice
<1>3. S \in GoodFrom(S, {})
  BY GoodBook
<1>4. PICK g : CancelAllRun(g, GoodFrom(S, {}), S, ts)
  BY <1>1, <1>2, <1>3, CancelAllFold
<1>5. /\ R = g[ts] /\ \A s \in SUBSET ts : g[s] \in GoodFrom(S, {})
      /\ \A s \in SUBSET ts : s # {} => g[s] = CancelTask(g[s \ {Picked(s)}], Picked(s))
  BY <1>4 DEF CancelAllRun
<1> DEFINE J == {s \in SUBSET ts : \A t \in s : Rid(g[s], t)}
<1>6. {} \in J
  OBVIOUS
<1>7. ASSUME NEW s \in SUBSET ts, s # {}, s \ {Picked(s)} \in J PROVE s \in J
  <2> DEFINE t == Picked(s)
             u == s \ {t}
  <2>1. t \in Tasks /\ u \in SUBSET ts
    BY <1>1, <1>7, PickedFacts
  <2>2. \A x \in u : Rid(g[u], x)
    BY <1>7
  <2>3. g[s] = CancelTask(g[u], t) /\ Good(g[u])
    BY <1>5, <1>7, <2>1, FromGood
  <2> HIDE DEF t
  <2>4. g[s] \in GoodFrom(g[u], {}) /\ Rid(g[s], t)
    BY <2>1, <2>3, CancelTaskGood
  <2>5. \A x \in u : Rid(g[s], x)
    BY <2>2, <2>4, RidKept
  <2>6. \A x \in s : x = t \/ x \in u
    OBVIOUS
  <2> QED BY <2>4, <2>5, <2>6
<1>8. ts \in J
  <2> HIDE DEF J
  <2>1. \A s \in SUBSET ts : s # {} /\ s \ {Picked(s)} \in J => s \in J
    BY <1>7
  <2> QED BY <1>1, <1>6, <2>1, OneByOne
<1> QED BY <1>5, <1>8

\* Who is active makes no difference to who waits.
LEMMA RefsGood ==
  ASSUME NEW S, Good(S), NEW r \in Seq(Ref), NEW T, T = [S EXCEPT !.refs = r]
  PROVE Good(T) /\ T.refs = r /\ T.jobs = S.jobs /\ T.alive = S.alive /\ T.obs = S.obs
<1>0. S \in Book /\ SoundBook(S, Nobody, {}) /\ Waits(S, {})
  BY DEF Good, SoundBook
<1>1. T \in Book
  BY <1>0 DEF Book
<1>2. /\ T.alive = S.alive /\ T.opening = S.opening /\ T.obs = S.obs /\ T.jobs = S.jobs
      /\ T.tasks = S.tasks /\ T.outcome = S.outcome /\ T.refs = r
  BY <1>0 DEF Book
<1> QED BY <1>0, <1>1, <1>2, ZenonT(30) DEF Good, SoundBook, Mirror, Living, Tallied, Waits

LEMMA PushGood ==
  ASSUME NEW S, Good(S), NEW x \in Ref, NEW T, T = [S EXCEPT !.refs = Append(@, x)]
  PROVE Good(T) /\ T.jobs = S.jobs /\ Len(T.refs) = Len(S.refs) + 1
<1> DEFINE r == Append(S.refs, x)
<1>1. S \in Book
  BY GoodBook
<1>2. S.refs \in Seq(Ref)
  BY <1>1, BookFields
<1>3. r \in Seq(Ref) /\ Len(r) = Len(S.refs) + 1
  BY <1>2
<1>4. T = [S EXCEPT !.refs = r]
  BY <1>1 DEF Book
<1> HIDE DEF r
<1> DEFINE Z == [S EXCEPT !.refs = r]
<1>5. Good(Z) /\ Z.refs = r /\ Z.jobs = S.jobs
  BY <1>3, RefsGood
<1>6. T = Z
  BY <1>4
<1> HIDE DEF Z
<1> QED BY <1>3, <1>5, <1>6

LEMMA PopGood ==
  ASSUME NEW S, Good(S), Len(S.refs) # 0, NEW T, T = [S EXCEPT !.refs = Front(@)]
  PROVE Good(T) /\ T.jobs = S.jobs /\ T.alive = S.alive /\ Len(T.refs) = Len(S.refs) - 1
<1> DEFINE r == Front(S.refs)
<1>1. S \in Book
  BY GoodBook
<1>2. S.refs \in Seq(Ref)
  BY <1>1, BookFields
<1>3. r \in Seq(Ref) /\ Len(r) = Len(S.refs) - 1
  BY <1>2 DEF Front
<1>4. T = [S EXCEPT !.refs = r]
  BY <1>1 DEF Book
<1> HIDE DEF r
<1> DEFINE Z == [S EXCEPT !.refs = r]
<1>5. Good(Z) /\ Z.refs = r /\ Z.jobs = S.jobs /\ Z.alive = S.alive
  BY <1>3, RefsGood
<1>6. T = Z
  BY <1>4
<1> HIDE DEF Z
<1> QED BY <1>3, <1>5, <1>6

-----------------------------------------------------------------------------
(* Who waits, and for what *)

\* What is executing in the frames of s
Runs(s) == {e \in Elements : \E k \in 1 .. Len(s) : s[k].exec = e}

\* The work that something will end
PendingWork ==
  waiting \cup {e \in Elements : queue.index[e] # 0 \/ gated[e] # {} \/ e \in Runs(stack)}

RenderTypes ==
  /\ waiting \subseteq Tasks /\ blocked \subseteq Elements
  /\ gated \in [Elements -> SUBSET {"mount", "update"}]

RenderInv ==
  /\ SchedInv /\ RenderTypes
  /\ Good(rc) /\ Len(rc.refs) = Len(stack)
  /\ \A c \in Requests : rc.jobs[c] \subseteq PendingWork

LEMMA RunsPushed ==
  ASSUME NEW s, IsSeq(s), NEW f
  PROVE Runs(Append(s, f)) = Runs(s) \cup {e \in Elements : e = f.exec}
<1> DEFINE t == Append(s, f)
<1>1. Len(s) \in Nat /\ Len(t) = Len(s) + 1 /\ t[Len(s) + 1] = f /\ \A i \in 1 .. Len(s) : t[i] = s[i]
  BY SeqFacts, Pushed
<1> HIDE DEF t
<1>2. /\ \A k \in 1 .. Len(t) : k \in 1 .. Len(s) \/ k = Len(s) + 1
      /\ \A k \in 1 .. Len(s) : k \in 1 .. Len(t)
      /\ Len(s) + 1 \in 1 .. Len(t)
  BY <1>1
<1>3. Runs(t) = Runs(s) \cup {e \in Elements : e = f.exec}
  <2>1. ASSUME NEW e \in Elements
        PROVE (\E k \in 1 .. Len(t) : t[k].exec = e) <=> (\E k \in 1 .. Len(s) : s[k].exec = e) \/ e = f.exec
    BY <1>1, <1>2
  <2> QED BY <2>1 DEF Runs
<1> QED BY <1>3 DEF t

LEMMA RunsPopped ==
  ASSUME NEW s, IsSeq(s), s # <<>>
  PROVE Runs(s) = Runs(Front(s)) \cup {e \in Elements : e = s[Len(s)].exec}
<1> DEFINE t == Front(s)
<1>1. Len(s) \in Nat /\ Len(s) # 0 /\ Len(t) = Len(s) - 1 /\ \A i \in 1 .. Len(s) - 1 : t[i] = s[i]
  BY SeqFacts, Popped
<1> HIDE DEF t
<1>2. /\ \A k \in 1 .. Len(s) : k \in 1 .. Len(t) \/ k = Len(s)
      /\ \A k \in 1 .. Len(t) : k \in 1 .. Len(s) /\ t[k] = s[k]
      /\ Len(s) \in 1 .. Len(s)
  BY <1>1
<1>3. Runs(s) = Runs(t) \cup {e \in Elements : e = s[Len(s)].exec}
  <2>1. ASSUME NEW e \in Elements
        PROVE (\E k \in 1 .. Len(s) : s[k].exec = e)
              <=> (\E k \in 1 .. Len(t) : t[k].exec = e) \/ e = s[Len(s)].exec
    BY <1>1, <1>2
  <2> QED BY <2>1 DEF Runs
<1> QED BY <1>3 DEF t

LEMMA Executes ==
  ASSUME SchedInv, NEW e \in Elements
  PROVE /\ e \in Executing <=> e \in Runs(stack)
        /\ stack # <<>> => (e \in {stack[i].exec : i \in 1 .. Len(stack) - 1} <=> e \in Runs(Front(stack)))
<1>1. IsSeq(stack)
  BY DEF SchedInv, Sched, StackOk
<1>2. DOMAIN stack = 1 .. Len(stack) /\ Len(stack) \in Nat
  BY <1>1, SeqFacts
<1>3. e # Nobody
  BY RenderAssumption
<1>4. e \in Executing <=> e \in Runs(stack)
  BY <1>2, <1>3 DEF Executing, Runs
<1>5. ASSUME stack # <<>>
      PROVE e \in {stack[i].exec : i \in 1 .. Len(stack) - 1} <=> e \in Runs(Front(stack))
  <2>1. Len(Front(stack)) = Len(stack) - 1 /\ \A i \in 1 .. Len(stack) - 1 : Front(stack)[i] = stack[i]
    BY <1>1, <1>5, Popped
  <2> QED BY <2>1 DEF Runs
<1> QED BY <1>4, <1>5

\* A step that takes up only what is pending after it, and leaves nothing
\* that is no longer pending to wait for.
LEMMA BookStep ==
  ASSUME RenderInv, SchedInv', RenderTypes', NEW X, X \subseteq PendingWork',
         \A c \in Requests : rc'.jobs[c] \subseteq rc.jobs[c] \cup X,
         \A w \in PendingWork : w \in PendingWork' \/ Rid(rc', w), Good(rc'), Len(rc'.refs) = Len(stack')
  PROVE RenderInv'
<1>1. \A c \in Requests : rc'.jobs[c] \subseteq PendingWork'
  BY DEF RenderInv, Rid
<1> QED BY <1>1 DEF RenderInv

\* The frames stay as they are.
LEMMA PlainStep ==
  ASSUME RenderInv, SchedInv', RenderTypes', NEW X, rc' \in GoodFrom(rc, X), X \subseteq PendingWork',
         \A w \in PendingWork : w \in PendingWork' \/ Rid(rc', w), Len(stack') = Len(stack)
  PROVE RenderInv'
<1>1. Good(rc') /\ Len(rc'.refs) = Len(rc.refs) /\ \A c \in Requests : rc'.jobs[c] \subseteq rc.jobs[c] \cup X
  BY DEF GoodFrom
<1>2. Len(rc'.refs) = Len(stack')
  BY <1>1 DEF RenderInv
<1> QED BY <1>1, <1>2, BookStep

\* What a step that leaves the frames alone may do to the work.
LEMMA SamePending ==
  ASSUME RenderInv, stack' = stack, queue' = queue, gated' = gated, waiting' = waiting
  PROVE PendingWork' = PendingWork
BY DEF PendingWork

LEMMA InvFacts ==
  ASSUME RenderInv
  PROVE /\ SchedInv /\ RenderTypes /\ Good(rc) /\ rc \in Book
        /\ \A X : rc \in GoodFrom(rc, X)
        /\ IsSeq(stack) /\ Len(stack) \in Nat /\ Len(rc.refs) = Len(stack)
        /\ stack # <<>> => Len(rc.refs) # 0
<1>1. SchedInv /\ RenderTypes /\ Good(rc) /\ Len(rc.refs) = Len(stack)
  BY DEF RenderInv
<1>2. IsSeq(stack)
  BY <1>1 DEF SchedInv, Sched, StackOk
<1>3. Len(stack) \in Nat /\ (stack # <<>> => Len(stack) # 0)
  BY <1>2, SeqFacts
<1> QED BY <1>1, <1>2, <1>3, GoodBook

-----------------------------------------------------------------------------
(* The steps that leave the frames as they are *)

LEMMA WriteWaits ==
  ASSUME RenderInv, NEW e \in Elements, Write(e)
  PROVE RenderInv'
<1>1. /\ queue' = Enqueued(queue, e) /\ stack' = stack /\ gated' = gated /\ waiting' = waiting
      /\ blocked' = blocked /\ rc' = Queued(rc, e)
  BY DEF Write
<1>2. SchedInv /\ RenderTypes /\ rc \in GoodFrom(rc, {e})
  BY InvFacts
<1>3. SchedInv'
  BY <1>2, WriteKeeps
<1>4. /\ Enqueued(queue, e).index[e] # 0
      /\ \A c \in Elements : queue.index[c] # 0 => Enqueued(queue, e).index[c] # 0
  BY <1>2, EnqueueKeeps DEF SchedInv
<1>5. PendingWork \subseteq PendingWork' /\ {e} \subseteq PendingWork'
  BY <1>1, <1>4 DEF PendingWork
<1>6. rc' \in GoodFrom(rc, {e})
  BY <1>1, <1>2, QueuedGood
<1>7. RenderTypes'
  BY <1>1, <1>2 DEF RenderTypes
<1> QED BY <1>1, <1>3, <1>5, <1>6, <1>7, PlainStep

LEMMA DeferWaits ==
  ASSUME RenderInv, DeferMount
  PROVE RenderInv'
<1> DEFINE e == Top.el
<1>1. /\ queue' = queue /\ stack' = stack /\ waiting' = waiting /\ blocked' = blocked
      /\ rc' = Queued(rc, e) /\ gated' = [gated EXCEPT ![e] = @ \cup {"mount"}]
      /\ stack # <<>> /\ Top.kind = "call"
  BY DEF DeferMount
<1>2. SchedInv /\ RenderTypes /\ rc \in GoodFrom(rc, {e})
  BY InvFacts
<1>3. SchedInv'
  BY <1>2, StaysKeep
<1>4. e \in Elements
  BY <1>1, <1>2, TopFacts DEF FrameOk
<1> HIDE DEF e
<1>5. RenderTypes' /\ gated'[e] # {} /\ \A c \in Elements : gated[c] \subseteq gated'[c]
  BY <1>1, <1>2, <1>4 DEF RenderTypes
<1>6. PendingWork \subseteq PendingWork' /\ {e} \subseteq PendingWork'
  BY <1>1, <1>4, <1>5 DEF PendingWork
<1>7. rc' \in GoodFrom(rc, {e})
  BY <1>1, <1>2, <1>4, QueuedGood
<1> QED BY <1>1, <1>3, <1>5, <1>6, <1>7, PlainStep

LEMMA QueueTaskWaits ==
  ASSUME RenderInv, NEW t \in Tasks, QueueTask(t)
  PROVE RenderInv'
<1>1. /\ queue' = queue /\ stack' = stack /\ waiting' = waiting \cup {t} /\ blocked' = blocked
      /\ gated' = gated /\ (rc' = Enroll(rc, t) \/ rc' = rc)
  BY DEF QueueTask
<1>2. SchedInv /\ RenderTypes /\ rc \in GoodFrom(rc, {t})
  BY InvFacts
<1>3. SchedInv'
  BY <1>2, StaysKeep
<1>4. RenderTypes'
  BY <1>1, <1>2 DEF RenderTypes
<1>5. PendingWork \subseteq PendingWork' /\ {t} \subseteq PendingWork'
  BY <1>1 DEF PendingWork
<1>6. rc' \in GoodFrom(rc, {t})
  BY <1>1, <1>2, EnrollGood DEF Work
<1> QED BY <1>1, <1>3, <1>4, <1>5, <1>6, PlainStep

LEMMA CancelWaits ==
  ASSUME RenderInv, NEW t \in Tasks, Cancel(t)
  PROVE RenderInv'
<1>1. /\ queue' = queue /\ stack' = stack /\ waiting' = waiting \ {t} /\ blocked' = blocked
      /\ gated' = gated /\ rc' = CancelTask(rc, t)
  BY DEF Cancel
<1>2. SchedInv /\ RenderTypes /\ Good(rc)
  BY InvFacts
<1>3. SchedInv'
  BY <1>2, StaysKeep
<1>4. RenderTypes'
  BY <1>1, <1>2 DEF RenderTypes
<1>5. \A w \in PendingWork : w \in PendingWork' \/ w = t
  BY <1>1 DEF PendingWork
<1>6. rc' \in GoodFrom(rc, {}) /\ Rid(rc', t)
  BY <1>1, <1>2, CancelTaskGood
<1> QED BY <1>1, <1>3, <1>4, <1>5, <1>6, PlainStep

LEMMA FailsWaits ==
  ASSUME RenderInv, NEW e \in Elements, StylesheetFails(e) \/ BlockWrite(e)
  PROVE RenderInv'
<1>1. queue' = queue /\ stack' = stack /\ waiting' = waiting /\ gated' = gated
  BY DEF StylesheetFails, BlockWrite
<1>2. blocked' \subseteq blocked \cup {e} /\ (rc' = Fail(rc, e) \/ rc' = ObserveBlocked(rc, e) \/ rc' = rc)
  BY DEF StylesheetFails, BlockWrite
<1>3. SchedInv /\ RenderTypes /\ Good(rc) /\ rc \in GoodFrom(rc, {})
  BY InvFacts
<1>4. SchedInv'
  BY <1>3, StaysKeep
<1>5. RenderTypes'
  BY <1>1, <1>2, <1>3 DEF RenderTypes
<1>6. rc' \in GoodFrom(rc, {})
  BY <1>2, <1>3, FailGood, ObserveBlockedGood
<1> QED BY <1>1, <1>4, <1>5, <1>6, SamePending, PlainStep

LEMMA IdleWaits ==
  ASSUME RenderInv, RenderAgain \/ Catch \/ Throw
  PROVE RenderInv'
<1>1. queue' = queue /\ stack' = stack /\ waiting' = waiting /\ gated' = gated /\ blocked' = blocked /\ rc' = rc
  BY DEF RenderAgain, Catch, Throw
<1>2. SchedInv /\ RenderTypes /\ rc \in GoodFrom(rc, {})
  BY InvFacts
<1>3. SchedInv'
  BY <1>2, StaysKeep
<1>4. RenderTypes'
  BY <1>1, <1>2 DEF RenderTypes
<1>5. rc' \in GoodFrom(rc, {})
  BY <1>1, <1>2
<1> QED BY <1>1, <1>3, <1>4, <1>5, SamePending, PlainStep

\* A request is made: it waits for nothing yet.
LEMMA OpenedGood ==
  ASSUME NEW S, Good(S), NEW c \in Requests, c \notin S.alive, S.outcome[c] = "none",
         NEW N, N = [S EXCEPT !.alive = @ \cup {c}, !.opening = @ \cup {c}]
  PROVE \A X : N \in GoodFrom(S, X)
<1>0. S \in Book /\ Mirror(S, Nobody, {}) /\ Living(S) /\ Tallied(S) /\ Waits(S, {})
  BY DEF Good, SoundBook
<1>1. S.alive \cup {c} \subseteq Requests /\ S.opening \cup {c} \subseteq Requests
  BY <1>0, BookFields
<1> DEFINE a == S.alive \cup {c}
           o == S.opening \cup {c}
<1>a. N = [S EXCEPT !.alive = a, !.opening = o]
  BY <1>0 DEF Book
<1> HIDE DEF a, o
<1>2. N \in Book
  BY <1>0, <1>1, <1>a DEF Book, a, o
<1>3. /\ N.alive = a /\ N.opening = o /\ N.obs = S.obs /\ N.jobs = S.jobs
      /\ N.tasks = S.tasks /\ N.outcome = S.outcome /\ N.refs = S.refs
  BY <1>0, <1>a DEF Book
<1>4. S.jobs[c] = {} /\ S.tasks[c] = 0
  BY <1>0 DEF Living, Tallied
<1>5. S.tasks[c] = Cardinality(S.jobs[c] \cap Tasks)
  <2>1. S.jobs[c] \cap Tasks = {}
    BY <1>4
  <2> QED BY <1>4, <2>1, FS_EmptySet
<1>6. Mirror(N, Nobody, {})
  BY <1>0, <1>3 DEF Mirror
<1>7. Living(N)
  BY <1>0, <1>3 DEF Living, a, o
<1>8. Tallied(N)
  BY <1>0, <1>3, <1>5 DEF Tallied, a
<1>9. Waits(N, {})
  BY <1>0, <1>3 DEF Waits, a, o
<1> QED BY <1>2, <1>3, <1>6, <1>7, <1>8, <1>9 DEF GoodFrom, Good, SoundBook

LEMMA WhenRenderedWaits ==
  ASSUME RenderInv, NEW c \in Requests, WhenRendered(c)
  PROVE RenderInv'
<1> DEFINE N == [rc EXCEPT !.alive = @ \cup {c}, !.opening = @ \cup {c}]
           found == (Range(queue.slots) \ {Nobody}) \cup {e \in Elements : gated[e] # {}} \cup waiting
           I == IncludeAll(N, found, c)
           B == {e \in blocked : InScope(e, RootOf[c])}
<1>1. /\ queue' = queue /\ stack' = stack /\ waiting' = waiting /\ gated' = gated /\ blocked' = blocked
      /\ rc.outcome[c] = "none" /\ c \notin rc.alive /\ rc' = BlockScope(I, B, c)
  BY DEF WhenRendered, BlockScope
<1>2. SchedInv /\ RenderTypes /\ Good(rc)
  BY InvFacts
<1>3. SchedInv'
  BY <1>2, WhenRenderedKeeps
<1>4. RenderTypes'
  BY <1>1, <1>2 DEF RenderTypes
<1>5. \A e \in Range(queue.slots) \ {Nobody} : e \in Elements /\ queue.index[e] # 0
  <2>1. queue.slots \in Seq(Elements \cup {Nobody}) /\ Slotted(queue, stack)
    BY <1>2 DEF SchedInv, Sched, QueueOk
  <2>2. SUFFICES ASSUME NEW e, e \in Range(queue.slots), e # Nobody
                 PROVE e \in Elements /\ queue.index[e] # 0
    OBVIOUS
  <2>3. PICK i \in DOMAIN queue.slots : e = queue.slots[i]
    BY <2>2 DEF Range
  <2>4. i \in 1 .. Len(queue.slots) /\ e \in Elements
    BY <2>1, <2>2, <2>3
  <2>5. queue.index[e] = i /\ i # 0
    BY <2>1, <2>3, <2>4 DEF Slotted
  <2> QED BY <2>4, <2>5
<1>6. found \subseteq Work /\ found \subseteq PendingWork
  BY <1>2, <1>5 DEF Work, PendingWork, RenderTypes
<1> HIDE DEF found
<1>7. N \in GoodFrom(rc, found)
  BY <1>1, <1>2, OpenedGood
<1> HIDE DEF N
<1>8. I \in GoodFrom(rc, found)
  BY <1>6, <1>7, IncludeAllGood
<1>9. B \in SUBSET Elements
  BY <1>2 DEF RenderTypes
<1> HIDE DEF I, B
<1>10. rc' \in GoodFrom(rc, found)
  BY <1>1, <1>8, <1>9, BlockScopeGood
<1>11. PendingWork' = PendingWork
  BY <1>1, SamePending
<1> QED BY <1>1, <1>3, <1>4, <1>6, <1>10, <1>11, PlainStep

LEMMA SealWaits ==
  ASSUME RenderInv, Seal
  PROVE RenderInv'
<1> DEFINE c == Head(micro)[2]
           N == [rc EXCEPT !.opening = @ \ {c}]
<1>1. /\ queue' = queue /\ stack' = stack /\ waiting' = waiting /\ gated' = gated /\ blocked' = blocked
      /\ rc' = SettleRequest(N, c) /\ micro # <<>> /\ Head(micro)[1] = "seal"
  BY DEF Seal, Microtask
<1>2. SchedInv /\ RenderTypes /\ Good(rc) /\ rc \in Book /\ rc \in GoodFrom(rc, {})
  BY InvFacts
<1>3. SchedInv'
  BY <1>2, SealKeeps
<1>4. RenderTypes'
  BY <1>1, <1>2 DEF RenderTypes
<1>5. c \in Requests
  BY <1>1, <1>2, MicroPopped DEF SchedInv, Sched
<1> HIDE DEF c
<1>6. rc.opening \ {c} \subseteq Requests
  BY <1>2, BookFields
<1>7. N \in Book
  BY <1>2, <1>6 DEF Book
<1>8. /\ N.alive = rc.alive /\ N.opening = rc.opening \ {c} /\ N.obs = rc.obs /\ N.jobs = rc.jobs
      /\ N.tasks = rc.tasks /\ N.outcome = rc.outcome /\ N.refs = rc.refs
  BY <1>2 DEF Book
<1> HIDE DEF N
<1>9. SoundBook(rc, Nobody, {}) /\ Waits(rc, {})
  BY <1>2 DEF Good
<1>10. SoundBook(N, Nobody, {})
  BY <1>7, <1>8, <1>9 DEF SoundBook, Mirror, Living, Tallied
<1>11. Waits(N, {} \cup {c})
  BY <1>8, <1>9 DEF Waits
<1>12. Less(rc, N, {c})
  BY <1>8 DEF Less
<1> DEFINE R == SettleRequest(N, c)
<1>13. SoundBook(R, Nobody, {}) /\ Less(N, R, {c}) /\ (Waits(N, {} \cup {c}) => Waits(R, {}))
  BY <1>5, <1>10, SettleFacts
<1> HIDE DEF R
<1>14. Good(R)
  BY <1>11, <1>13 DEF Good
<1>15. Less(rc, R, {c})
  BY <1>12, <1>13, LessTwice
<1>16. R \in GoodFrom(rc, {})
  BY <1>2, <1>14, <1>15, LessGood
<1>17. rc' \in GoodFrom(rc, {})
  BY <1>1, <1>16 DEF R
<1> QED BY <1>1, <1>3, <1>4, <1>17, SamePending, PlainStep

-----------------------------------------------------------------------------
(* The steps that begin a frame *)

\* The frame that ends here executed nothing, if one ends at all: S are the
\* books without it.
Under(was, S) ==
  /\ IsSeq(was) /\ Runs(was) = Runs(stack)
  /\ Good(S) /\ S.jobs = rc.jobs /\ S.alive = rc.alive /\ Len(S.refs) = Len(was)

LEMMA UnderStack ==
  ASSUME RenderInv
  PROVE Under(stack, rc)
BY InvFacts DEF Under

LEMMA UnderFront ==
  ASSUME RenderInv, stack # <<>>, Top.exec = Nobody
  PROVE Under(Front(stack), [rc EXCEPT !.refs = Front(@)])
<1> DEFINE S == [rc EXCEPT !.refs = Front(@)]
<1>1. Good(rc) /\ IsSeq(stack) /\ Len(rc.refs) = Len(stack) /\ Len(rc.refs) # 0 /\ Len(stack) \in Nat
  BY InvFacts
<1>2. Good(S) /\ S.jobs = rc.jobs /\ S.alive = rc.alive /\ Len(S.refs) = Len(rc.refs) - 1
  BY <1>1, PopGood
<1>3. IsSeq(Front(stack)) /\ Len(Front(stack)) = Len(stack) - 1
  BY <1>1, Popped
<1>4. Runs(stack) = Runs(Front(stack)) \cup {e \in Elements : e = Nobody}
  BY <1>1, RunsPopped DEF Top
<1>5. {e \in Elements : e = Nobody} = {}
  BY RenderAssumption
<1> HIDE DEF S
<1>6. Under(Front(stack), S)
  BY <1>1, <1>2, <1>3, <1>4, <1>5 DEF Under
<1> QED BY <1>6 DEF S

LEMMA PushStep ==
  ASSUME RenderInv, SchedInv', RenderTypes', NEW was, NEW S, Under(was, S),
         NEW kind, NEW e \in Elements, NEW x, Pushes(was, kind, e, x),
         NEW X, X = {} \/ (X = {e} /\ x = e), NEW T \in GoodFrom(S, X),
         Good(rc'), rc'.jobs = T.jobs, Len(rc'.refs) = Len(T.refs) + 1,
         waiting' = waiting, queue'.index = queue.index, \A d \in Elements : gated[d] \subseteq gated'[d]
  PROVE RenderInv'
<1>1. PICK f : f.exec = x /\ stack' = Append(was, f)
  BY DEF Pushes
<1>2. Runs(stack') = Runs(stack) \cup {d \in Elements : d = x}
  BY <1>1, RunsPushed DEF Under
<1>3. PendingWork \subseteq PendingWork' /\ X \subseteq PendingWork'
  BY <1>2 DEF PendingWork
<1>4. Len(rc'.refs) = Len(stack')
  <2>1. Len(stack') = Len(was) + 1
    BY <1>1, Pushed DEF Under
  <2> QED BY <2>1 DEF Under, GoodFrom
<1>5. \A c \in Requests : rc'.jobs[c] \subseteq rc.jobs[c] \cup X
  BY DEF Under, GoodFrom
<1> QED BY <1>3, <1>4, <1>5, BookStep

LEMMA BeginBooks ==
  ASSUME NEW f, NEW was, NEW S, Good(S), NEW observed, Begin(f, was, S, observed), f.el \in Elements
  PROVE Good(rc') /\ rc'.jobs = S.jobs /\ Len(rc'.refs) = Len(S.refs) + 1
<1> DEFINE x == IF observed THEN RefTo(S, f.el) ELSE ActiveRef(S)
<1>1. S \in Book
  BY GoodBook
<1>2. x \in Ref
  <2>1. S.obs[f.el] \in SUBSET Requests /\ f.el \in Work
    BY <1>1, BookFields DEF Work
  <2>2. RefTo(S, f.el) \in Ref
    BY <2>1 DEF RefTo, Ref
  <2> QED BY <1>1, <2>2, ActiveFacts
<1>3. rc' = [S EXCEPT !.refs = Append(@, x)]
  BY DEF Begin
<1> HIDE DEF x
<1> QED BY <1>2, <1>3, PushGood

\* Nobody observes anything: nothing happens to the books.
LEMMA Unobserving ==
  ASSUME NEW S, NEW e, ~Observing(S)
  PROVE Queued(S, e) = S /\ \A queued : Enter(S, e, queued) = S
BY DEF Queued, Enter

LEMMA RenderWaits ==
  ASSUME RenderInv, SchedInv', RenderTypes', NEW e \in Elements, NEW mode, BeginRender(e, mode),
         waiting' = waiting, queue'.index = queue.index, gated' = gated
  PROVE RenderInv'
<1> DEFINE T == Enter(rc, e, TRUE)
           f == [Frame("render", e) EXCEPT !.mode = mode, !.by = cause[e]]
<1>1. Pushes(stack, "render", e, Exec(e, Observing(rc)))
  BY RenderFrame
<1>2. Under(stack, rc) /\ rc \in GoodFrom(rc, {})
  BY UnderStack, InvFacts
<1>3. T \in GoodFrom(rc, {})
  BY <1>2, EnterGood
<1>4. Begin(f, stack, T, Observing(rc)) /\ f.el = e
  BY DEF BeginRender, Frame
<1> HIDE DEF f, T
<1>5. Good(rc') /\ rc'.jobs = T.jobs /\ Len(rc'.refs) = Len(T.refs) + 1
  BY <1>3, <1>4, BeginBooks, FromGood
<1> QED BY <1>1, <1>2, <1>3, <1>5, PushStep

LEMMA RefreshWaits ==
  ASSUME RenderInv, SchedInv', RenderTypes, NEW e \in Elements, NEW was, NEW S, Under(was, S),
         BeginRefresh(e, was, S), waiting' = waiting, queue' = queue, blocked' = blocked
  PROVE RenderInv'
<1> DEFINE T == Enter(Queued(S, e), e, FALSE)
           f == [Frame("refresh", e) EXCEPT !.by = cause[e] \cup Credit(S, e)]
           X == IF Observing(S) THEN {e} ELSE {}
<1>1. Pushes(was, "refresh", e, Exec(e, Observing(S)))
  BY RefreshFrame
<1>2. Good(S)
  BY DEF Under
<1>3. T \in GoodFrom(S, X) /\ (X = {} \/ (X = {e} /\ Exec(e, Observing(S)) = e))
  <2>0. S \in GoodFrom(S, {}) /\ S \in GoodFrom(S, {e})
    BY <1>2, GoodBook
  <2>1. CASE Observing(S)
    <3>1. Queued(S, e) \in GoodFrom(S, {e})
      BY <2>0, QueuedGood
    <3>2. T \in GoodFrom(S, {e})
      BY <3>1, EnterGood
    <3> QED BY <2>1, <3>2 DEF Exec
  <2>2. CASE ~Observing(S)
    <3>1. T = S
      BY <2>2, Unobserving
    <3> QED BY <2>0, <2>2, <3>1
  <2> QED BY <2>1, <2>2
<1>4. Begin(f, was, T, Observing(S)) /\ f.el = e
  BY DEF BeginRefresh, Frame
<1>5. RenderTypes' /\ \A d \in Elements : gated[d] \subseteq gated'[d]
  BY DEF BeginRefresh, RenderTypes
<1> HIDE DEF f, T, X
<1>6. Good(rc') /\ rc'.jobs = T.jobs /\ Len(rc'.refs) = Len(T.refs) + 1
  BY <1>3, <1>4, BeginBooks, FromGood
<1> DEFINE x == Exec(e, Observing(S))
<1>7. Pushes(was, "refresh", e, x) /\ (X = {} \/ (X = {e} /\ x = e))
  BY <1>1, <1>3
<1> HIDE DEF x
<1>8. queue'.index = queue.index
  OBVIOUS
<1> QED BY <1>3, <1>5, <1>6, <1>7, <1>8, PushStep

\* A callback or a mount; J is what joinHydratedMount makes of the books.
LEMMA CallWaits ==
  ASSUME RenderInv, SchedInv', RenderTypes', NEW e \in Elements, NEW was, NEW S, Under(was, S),
         NEW J, NEW observed, observed = Observing(S),
         Observing(S) => J \in GoodFrom(S, {e}), ~Observing(S) => J \in GoodFrom(S, {}) /\ ~Observing(J),
         NEW mode, BeginCall(e, mode, was, J, observed),
         waiting' = waiting, queue' = queue, gated' = gated
  PROVE RenderInv'
<1> DEFINE T == Enter(J, e, FALSE)
           f == [Frame("call", e) EXCEPT !.mode = mode, !.by = cause[e] \cup Credit(J, e)]
           X == IF Observing(S) THEN {e} ELSE {}
           x == Exec(e, observed)
<1>1. Pushes(was, "call", e, x)
  BY CallFrame
<1>3. T \in GoodFrom(S, X) /\ (X = {} \/ (X = {e} /\ x = e))
  <2>1. CASE Observing(S)
    <3>2. T \in GoodFrom(S, {e})
      BY <2>1, EnterGood
    <3> QED BY <2>1, <3>2 DEF Exec
  <2>2. CASE ~Observing(S)
    <3>1. T = J
      BY <2>2, Unobserving
    <3> QED BY <2>2, <3>1
  <2> QED BY <2>1, <2>2
<1>4. Begin(f, was, T, observed) /\ f.el = e
  BY DEF BeginCall, Frame
<1> HIDE DEF f, T, X, x
<1>6. Good(rc') /\ rc'.jobs = T.jobs /\ Len(rc'.refs) = Len(T.refs) + 1
  BY <1>3, <1>4, BeginBooks, FromGood
<1>8. queue'.index = queue.index
  OBVIOUS
<1> QED BY <1>1, <1>3, <1>6, <1>8, PushStep

LEMMA BeginsWait ==
  ASSUME RenderInv, NEW e \in Elements,
         Flush(e) \/ Refresh(e) \/ Call(e)
  PROVE RenderInv'
<1>0. SchedInv /\ RenderTypes /\ Under(stack, rc) /\ \A X : rc \in GoodFrom(rc, X)
  BY InvFacts, UnderStack
<1>1. SchedInv'
  BY <1>0, BeginsKeep
<1>2. CASE Flush(e)
  <2>1. /\ BeginRender(e, "flush") /\ queue' = queue /\ waiting' = waiting /\ gated' = gated
        /\ blocked' = blocked
    BY <1>2 DEF Flush
  <2>2. RenderTypes' /\ queue'.index = queue.index
    BY <1>0, <2>1 DEF RenderTypes
  <2> QED BY <1>1, <2>1, <2>2, RenderWaits
<1>3. CASE Refresh(e)
  <2>1. BeginRefresh(e, stack, rc) /\ queue' = queue /\ waiting' = waiting /\ blocked' = blocked
    BY <1>3 DEF Refresh
  <2> QED BY <1>0, <1>1, <2>1, RefreshWaits
<1>4. CASE Call(e)
  <2>1. /\ BeginCall(e, "none", stack, rc, Observing(rc)) /\ queue' = queue /\ waiting' = waiting
        /\ gated' = gated /\ blocked' = blocked
    BY <1>4 DEF Call
  <2>2. RenderTypes'
    BY <1>0, <2>1 DEF RenderTypes
  <2>3. Observing(rc) => rc \in GoodFrom(rc, {e})
    BY <1>0
  <2>4. ~Observing(rc) => rc \in GoodFrom(rc, {}) /\ ~Observing(rc)
    BY <1>0
  <2> QED BY <1>0, <1>1, <2>1, <2>2, <2>3, <2>4, CallWaits
<1> QED BY <1>2, <1>3, <1>4

LEMMA ContinueWaits ==
  ASSUME RenderInv, NEW e \in Elements, ContinueMount(e)
  PROVE RenderInv'
<1> DEFINE T == Enter(rc, e, FALSE)
           f == [Frame("append", e) EXCEPT !.by = cause[e] \cup Credit(rc, e)]
<1>0. SchedInv /\ RenderTypes /\ Under(stack, rc) /\ rc \in GoodFrom(rc, {e})
  BY InvFacts, UnderStack
<1>1. /\ queue' = queue /\ waiting' = waiting /\ gated' = gated /\ blocked' = blocked
      /\ Begin(f, stack, T, TRUE) /\ f.el = e
  BY DEF ContinueMount, Frame
<1>2. SchedInv' /\ Pushes(stack, "append", e, e)
  BY <1>0, BeginsKeep, MountFrame
<1>3. RenderTypes' /\ queue'.index = queue.index /\ \A d \in Elements : gated[d] \subseteq gated'[d]
  BY <1>0, <1>1 DEF RenderTypes
<1>4. T \in GoodFrom(rc, {e})
  BY <1>0, EnterGood
<1> HIDE DEF f, T
<1>5. Good(rc') /\ rc'.jobs = T.jobs /\ Len(rc'.refs) = Len(T.refs) + 1
  BY <1>1, <1>4, BeginBooks, FromGood
<1> QED BY <1>0, <1>1, <1>2, <1>3, <1>4, <1>5, PushStep

LEMMA RunTaskWaits ==
  ASSUME RenderInv, NEW t \in Tasks, RunTask(t)
  PROVE RenderInv'
<1> DEFINE S == ReleaseAll(rc, {c \in rc.obs[t] : Lost(TaskHost[t], c)}, "abort")
<1>0. SchedInv /\ RenderTypes /\ Under(stack, rc) /\ rc \in GoodFrom(rc, {}) /\ rc \in Book
  BY InvFacts, UnderStack
<1>1. /\ queue' = queue /\ waiting' = waiting /\ gated' = gated /\ blocked' = blocked
      /\ rc' = [S EXCEPT !.refs = Append(@, RefTo(S, t))]
  BY DEF RunTask
<1>2. SchedInv' /\ Pushes(stack, "task", TaskHost[t], Nobody) /\ TaskHost[t] \in Elements
  BY <1>0, RunTaskKeeps, TaskFrame, RenderAssumption
<1>3. RenderTypes' /\ queue'.index = queue.index /\ \A d \in Elements : gated[d] \subseteq gated'[d]
  BY <1>0, <1>1 DEF RenderTypes
<1>4. S \in GoodFrom(rc, {})
  <2>1. {c \in rc.obs[t] : Lost(TaskHost[t], c)} \in SUBSET Requests
    BY <1>0, BookFields DEF Work
  <2> QED BY <1>0, <2>1, ReleaseAllGood DEF Outcome
<1> HIDE DEF S
<1>5. Good(S) /\ S \in Book
  BY <1>4, FromGood
<1>6. RefTo(S, t) \in Ref
  <2>1. S.obs[t] \in SUBSET Requests /\ t \in Work
    BY <1>5, BookFields DEF Work
  <2> QED BY <2>1 DEF RefTo, Ref
<1>7. Good(rc') /\ rc'.jobs = S.jobs /\ Len(rc'.refs) = Len(S.refs) + 1
  BY <1>1, <1>5, <1>6, PushGood
<1> QED BY <1>0, <1>1, <1>2, <1>3, <1>4, <1>7, PushStep

LEMMA MoveWaits ==
  ASSUME RenderInv, NEW e \in Elements, NEW to, NEW mode, Move(e, to, mode), SchedInv'
  PROVE RenderInv'
<1>0. SchedInv /\ RenderTypes /\ Under(stack, rc) /\ rc \in GoodFrom(rc, {}) /\ rc \in Book /\ Good(rc)
  BY InvFacts, UnderStack
<1>1. /\ queue' = queue /\ waiting' = waiting /\ gated' = gated /\ blocked' = blocked
      /\ rc' = [rc EXCEPT !.refs = Append(@, ActiveRef(rc))]
  BY DEF Move
<1>2. Pushes(stack, "moved", e, Nobody)
  BY MovedFrame
<1>3. RenderTypes' /\ queue'.index = queue.index /\ \A d \in Elements : gated[d] \subseteq gated'[d]
  BY <1>0, <1>1 DEF RenderTypes
<1>4. Good(rc') /\ rc'.jobs = rc.jobs /\ Len(rc'.refs) = Len(rc.refs) + 1
  BY <1>0, <1>1, ActiveFacts, PushGood
<1> QED BY <1>0, <1>1, <1>2, <1>3, <1>4, PushStep

LEMMA MovesWait ==
  ASSUME RenderInv, NEW e \in Elements, NEW to, DisposeChild(e) \/ TakeOut(e) \/ PutIn(e, to)
  PROVE RenderInv'
<1>0. SchedInv
  BY InvFacts
<1>1. SchedInv'
  BY <1>0, BeginsKeep
<1>2. \E at, mode : Move(e, at, mode)
  BY DEF DisposeChild, TakeOut, PutIn
<1> QED BY <1>1, <1>2, MoveWaits

LEMMA UpgradeWaits ==
  ASSUME RenderInv, NEW e \in Elements, Upgrade(e)
  PROVE RenderInv'
<1> DEFINE ts == {t \in waiting : TaskHost[t] # e /\ InScope(e, TaskHost[t])}
           b == [c \in Requests |-> rc.blockers[c] \ {e}]
           B == [rc EXCEPT !.blockers = b]
           cs == UNION {rc.obs[t] : t \in ts}
           J == IF Observing(rc) THEN IncludeEach(B, cs, e) ELSE B
<1>0. /\ SchedInv /\ RenderTypes /\ Under(stack, rc) /\ rc \in Book
      /\ \A X : rc \in GoodFrom(rc, X)
  BY InvFacts, UnderStack
<1>1. /\ queue' = queue /\ waiting' = waiting /\ gated' = gated /\ blocked' = blocked \ {e}
      /\ BeginCall(e, "mount", stack, J, Observing(rc))
  <2>1. [rc EXCEPT !.blockers = [c \in Requests |-> @[c] \ {e}]] = B
    BY <1>0 DEF Book
  <2> QED BY <2>1 DEF Upgrade, IncludeEach
<1>2. SchedInv'
  BY <1>0, BeginsKeep
<1>3. RenderTypes'
  BY <1>0, <1>1 DEF RenderTypes
<1>4. b \in [Requests -> SUBSET Elements]
  BY <1>0, BookFields
<1> HIDE DEF b
<1>5. \A X : B \in GoodFrom(rc, X)
  BY <1>0, <1>4, BlockersGood
<1>6. B.alive = rc.alive
  BY <1>0 DEF Book
<1>7. cs \in SUBSET Requests
  BY <1>0, BookFields DEF Work, RenderTypes
<1> HIDE DEF B, cs
<1>8. Observing(rc) => J \in GoodFrom(rc, {e})
  BY <1>5, <1>7, IncludeEachGood DEF Work
<1>9. ~Observing(rc) => J \in GoodFrom(rc, {}) /\ ~Observing(J)
  BY <1>5, <1>6 DEF Observing
<1> HIDE DEF J
<1> QED BY <1>0, <1>1, <1>2, <1>3, <1>8, <1>9, CallWaits

LEMMA DrainWaits ==
  ASSUME RenderInv, Drain
  PROVE RenderInv'
<1> DEFINE f == Frame("drain", Nobody)
           r == <<ActiveRef(rc)>>
<1>0. SchedInv /\ RenderTypes /\ Good(rc) /\ rc \in Book
  BY InvFacts
<1>1. /\ queue' = queue /\ waiting' = waiting /\ gated' = gated /\ blocked' = blocked
      /\ stack = <<>> /\ stack' = <<f>> /\ rc' = [rc EXCEPT !.refs = r]
  BY DEF Drain, Microtask
<1>2. SchedInv'
  BY <1>0, DrainKeeps
<1>3. RenderTypes'
  BY <1>0, <1>1 DEF RenderTypes
<1>4. r \in Seq(Ref) /\ Len(r) = 1
  <2>1. ActiveRef(rc) \in Ref
    BY <1>0, ActiveFacts
  <2> QED BY <2>1
<1> HIDE DEF r
<1>5. Good(rc') /\ rc'.refs = r /\ rc'.jobs = rc.jobs
  BY <1>0, <1>1, <1>4, RefsGood
<1>6. Len(stack') = 1 /\ Len(rc'.refs) = Len(stack')
  BY <1>1, <1>4, <1>5
<1>7. PendingWork \subseteq PendingWork'
  <2>1. Runs(stack) = {}
    BY <1>1 DEF Runs
  <2> QED BY <1>1, <2>1 DEF PendingWork
<1> QED BY <1>2, <1>3, <1>5, <1>6, <1>7, BookStep

LEMMA DrainNextWaits ==
  ASSUME RenderInv, DrainNext
  PROVE RenderInv'
<1> DEFINE n == queue.cursor + 1
           e == queue.slots[n]
<1>0. SchedInv /\ RenderTypes /\ rc \in GoodFrom(rc, {})
  BY InvFacts
<1>1. /\ queue.cursor < Len(queue.slots) /\ waiting' = waiting /\ gated' = gated /\ blocked' = blocked
      /\ queue' = [queue EXCEPT !.slots[n] = Nobody, !.cursor = @ + 1]
      /\ IF e = Nobody THEN UNCHANGED <<dirty, rc, stack>> ELSE BeginRender(e, "none")
  BY DEF DrainNext
<1>2. SchedInv'
  BY <1>0, DrainNextKeeps
<1>3. RenderTypes'
  BY <1>0, <1>1 DEF RenderTypes
<1>4. QueueOk(queue)
  BY <1>0 DEF SchedInv, Sched
<1>5. /\ queue \in [slots : Seq(Elements \cup {Nobody}), cursor : Nat, index : [Elements -> Nat],
                    scheduled : BOOLEAN]
  BY <1>4 DEF QueueOk
<1>6. queue'.index = queue.index
  BY <1>1, <1>5
<1>7. n \in 1 .. Len(queue.slots)
  BY <1>1, <1>5
<1>8. e \in Elements \cup {Nobody}
  BY <1>5, <1>7
<1> HIDE DEF e
<1>9. CASE e = Nobody
  <2>1. rc' = rc /\ stack' = stack
    BY <1>1, <1>9
  <2>2. PendingWork' = PendingWork
    BY <1>1, <1>6, <2>1 DEF PendingWork
  <2>3. rc' \in GoodFrom(rc, {})
    BY <1>0, <2>1
  <2> QED BY <1>2, <1>3, <2>1, <2>2, <2>3, PlainStep
<1>10. CASE e \in Elements
  <2>1. BeginRender(e, "none")
    BY <1>1, <1>10, RenderAssumption
  <2> QED BY <1>1, <1>2, <1>3, <1>6, <1>10, <2>1, RenderWaits
<1> QED BY <1>8, <1>9, <1>10

-----------------------------------------------------------------------------
(* The steps that end a frame *)

\* The frame executed nothing.
LEMMA PopStep ==
  ASSUME RenderInv, SchedInv', RenderTypes', NEW S, Under(Front(stack), S), stack' = Front(stack),
         rc' \in GoodFrom(S, {}), queue'.index = queue.index, gated' = gated,
         \A w \in waiting : w \in waiting' \/ Rid(rc', w)
  PROVE RenderInv'
<1>1. \A w \in PendingWork : w \in PendingWork' \/ Rid(rc', w)
  BY DEF PendingWork, Under
<1>2. Good(rc') /\ Len(rc'.refs) = Len(stack') /\ \A c \in Requests : rc'.jobs[c] \subseteq rc.jobs[c]
  BY DEF GoodFrom, Under
<1> QED BY <1>1, <1>2, BookStep

LEMMA UnderGood ==
  ASSUME NEW was, NEW S, Under(was, S)
  PROVE Good(S) /\ S \in GoodFrom(S, {})
BY GoodBook DEF Under

LEMMA DrainEndWaits ==
  ASSUME RenderInv, DrainEnd
  PROVE RenderInv'
<1> DEFINE S == [rc EXCEPT !.refs = Front(@)]
<1>0. SchedInv /\ RenderTypes
  BY InvFacts
<1>1. /\ stack # <<>> /\ Top.kind = "drain" /\ waiting' = waiting /\ gated' = gated /\ blocked' = blocked
      /\ stack' = Front(stack) /\ rc' = S
      /\ queue' = [queue EXCEPT !.slots = queue'.slots, !.cursor = queue'.cursor, !.scheduled = queue'.scheduled]
  <2>1. queue \in [slots : Seq(Elements \cup {Nobody}), cursor : Nat, index : [Elements -> Nat],
                   scheduled : BOOLEAN]
    BY <1>0 DEF SchedInv, Sched, QueueOk
  <2> QED BY <2>1 DEF DrainEnd, Draining
<1>2. SchedInv'
  BY <1>0, DrainEndKeeps
<1>3. RenderTypes'
  BY <1>0, <1>1 DEF RenderTypes
<1>4. queue'.index = queue.index
  <2>1. queue \in [slots : Seq(Elements \cup {Nobody}), cursor : Nat, index : [Elements -> Nat],
                   scheduled : BOOLEAN]
    BY <1>0 DEF SchedInv, Sched, QueueOk
  <2> QED BY <2>1 DEF DrainEnd
<1>5. Top.exec = Nobody
  <2>1. Len(stack) \in 1 .. Len(stack) /\ Top = stack[Len(stack)]
    BY <1>0, <1>1, TopFacts
  <2> QED BY <1>0, <1>1, <2>1 DEF SchedInv, Sched, StackOk, FrameOk
<1>6. Under(Front(stack), S)
  BY <1>1, <1>5, UnderFront
<1> HIDE DEF S
<1>7. rc' \in GoodFrom(S, {})
  BY <1>1, <1>6, UnderGood
<1> QED BY <1>1, <1>2, <1>3, <1>4, <1>6, <1>7, PopStep

\* What was made of the books before the frame was taken off
LEMMA PopAfter ==
  ASSUME NEW S, Good(S), Len(S.refs) # 0, Len(S.refs) \in Nat, NEW T \in GoodFrom(S, {}),
         NEW R, R = [T EXCEPT !.refs = Front(@)]
  PROVE R \in GoodFrom([S EXCEPT !.refs = Front(@)], {})
<1> DEFINE Z == [S EXCEPT !.refs = Front(@)]
<1>1. Good(T) /\ Len(T.refs) = Len(S.refs) /\ \A c \in Requests : T.jobs[c] \subseteq S.jobs[c]
  BY DEF GoodFrom
<1>2. Good(R) /\ R.jobs = T.jobs /\ Len(R.refs) = Len(T.refs) - 1
  BY <1>1, PopGood
<1>3. Z.jobs = S.jobs /\ Len(Z.refs) = Len(S.refs) - 1
  BY PopGood
<1> HIDE DEF Z
<1>4. R \in Book
  BY <1>2, GoodBook
<1>5. R \in GoodFrom(Z, {})
  BY <1>1, <1>2, <1>3, <1>4 DEF GoodFrom
<1> QED BY <1>5 DEF Z

LEMMA DisconnectedWaits ==
  ASSUME RenderInv, Disconnected
  PROVE RenderInv'
<1> DEFINE B == Below(Top.el)
           T == DisconnectEach(rc, B, Top.mode = "disposed")
           S == [rc EXCEPT !.refs = Front(@)]
<1>0. SchedInv /\ RenderTypes /\ Good(rc) /\ rc \in GoodFrom(rc, {}) /\ (stack # <<>> => Len(rc.refs) # 0)
      /\ Len(rc.refs) = Len(stack) /\ Len(stack) \in Nat
  BY InvFacts
<1>1. /\ stack # <<>> /\ Top.kind = "moved" /\ queue' = queue /\ waiting' = waiting /\ gated' = gated
      /\ blocked' = blocked /\ stack' = Front(stack) /\ rc' = [T EXCEPT !.refs = Front(@)]
  BY DEF Disconnected, DisconnectEach
<1>2. SchedInv'
  BY <1>0, DisconnectedKeeps
<1>3. RenderTypes' /\ waiting \subseteq Tasks
  BY <1>0, <1>1 DEF RenderTypes
<1>4. B \in SUBSET Elements
  BY DEF Below
<1>5. T \in GoodFrom(rc, {})
  <2> HIDE DEF B
  <2> QED BY <1>0, <1>3, <1>4, DisconnectEachGood
<1> HIDE DEF T
<1>6. rc' \in GoodFrom(S, {})
  BY <1>0, <1>1, <1>5, PopAfter
<1>7. Top.exec = Nobody
  BY <1>0, <1>1, TopFacts DEF FrameOk
<1>8. Under(Front(stack), S)
  BY <1>1, <1>7, UnderFront
<1> HIDE DEF S
<1> QED BY <1>1, <1>2, <1>3, <1>6, <1>8, PopStep

LEMMA ReconnectedWaits ==
  ASSUME RenderInv, Reconnected
  PROVE RenderInv'
<1> DEFINE e == Top.el
           S == [rc EXCEPT !.refs = Front(@)]
<1>0. SchedInv /\ RenderTypes
  BY InvFacts
<1>1. /\ stack # <<>> /\ Top.kind = "moved" /\ queue' = queue /\ waiting' = waiting /\ blocked' = blocked
  BY DEF Reconnected
<1>2. SchedInv'
  BY <1>0, ReconnectedKeeps
<1>3. e \in Elements /\ Top.exec = Nobody
  BY <1>0, <1>1, TopFacts DEF FrameOk
<1>4. Under(Front(stack), S)
  BY <1>1, <1>3, UnderFront
<1>5. \/ gated' = gated /\ BeginCall(e, "mount", Front(stack), S, Observing(S))
      \/ BeginRefresh(e, Front(stack), S)
      \/ gated' = gated /\ rc' = S /\ stack' = Front(stack)
  BY DEF Reconnected
<1> HIDE DEF S, e
<1>6. CASE gated' = gated /\ BeginCall(e, "mount", Front(stack), S, Observing(S))
  <2>1. RenderTypes'
    BY <1>0, <1>1, <1>6 DEF RenderTypes
  <2>2. \A X : S \in GoodFrom(S, X)
    BY <1>4, GoodBook DEF Under
  <2>3. Observing(S) => S \in GoodFrom(S, {e})
    BY <2>2
  <2>4. ~Observing(S) => S \in GoodFrom(S, {}) /\ ~Observing(S)
    BY <2>2
  <2> QED BY <1>1, <1>2, <1>3, <1>4, <1>6, <2>1, <2>3, <2>4, CallWaits
<1>7. CASE BeginRefresh(e, Front(stack), S)
  BY <1>0, <1>1, <1>2, <1>3, <1>4, <1>7, RefreshWaits
<1>8. CASE gated' = gated /\ rc' = S /\ stack' = Front(stack)
  <2>1. RenderTypes'
    BY <1>0, <1>1, <1>8 DEF RenderTypes
  <2>2. rc' \in GoodFrom(S, {}) /\ queue'.index = queue.index
    BY <1>1, <1>4, <1>8, UnderGood
  <2> QED BY <1>1, <1>2, <1>4, <1>8, <2>1, <2>2, PopStep
<1> QED BY <1>5, <1>6, <1>7, <1>8

LEMMA EndTaskWaits ==
  ASSUME RenderInv, NEW failed \in BOOLEAN, EndTask(failed)
  PROVE RenderInv'
<1> DEFINE t == Top.task
           S == [rc EXCEPT !.refs = Front(@)]
<1>0. SchedInv /\ RenderTypes
  BY InvFacts
<1>1. /\ stack # <<>> /\ Top.kind = "task" /\ queue' = queue /\ waiting' = waiting \ {t} /\ gated' = gated
      /\ blocked' = blocked /\ stack' = Front(stack) /\ rc' = FinishTask(S, t, failed)
  BY DEF EndTask
<1>2. SchedInv'
  <2>1. "refresh" \in {"refresh", "append"}
    OBVIOUS
  <2> QED BY <1>0, <2>1, EndsKeep
<1>3. RenderTypes'
  BY <1>0, <1>1 DEF RenderTypes
<1>4. t \in Tasks /\ Top.exec = Nobody
  BY <1>0, <1>1, TopFacts DEF FrameOk
<1>5. Under(Front(stack), S)
  BY <1>1, <1>4, UnderFront
<1> HIDE DEF S, t
<1>6. rc' \in GoodFrom(S, {}) /\ Rid(rc', t)
  BY <1>1, <1>4, <1>5, FinishTaskGood, UnderGood
<1>7. \A w \in waiting : w \in waiting' \/ Rid(rc', w)
  BY <1>1, <1>6
<1> QED BY <1>1, <1>2, <1>3, <1>5, <1>6, <1>7, PopStep

\* The frame executed a component: if nothing of it remains, it leaves every
\* request.
LEMMA LeaveGood ==
  ASSUME SchedInv, stack # <<>>, Top.kind # "drain", NEW S, Good(S), Len(S.refs) = Len(stack),
         NEW q, NEW g, NEW R, R = Leave(S, q, g)
  PROVE /\ Good(R) /\ Len(R.refs) = Len(Front(stack)) /\ \A c \in Requests : R.jobs[c] \subseteq S.jobs[c]
        /\ Top.exec \in Elements /\ Top.exec \notin Runs(Front(stack))
             /\ q.index[Top.exec] = 0 /\ g[Top.exec] = {} => Rid(R, Top.exec)
<1> DEFINE T == [S EXCEPT !.refs = Front(@)]
           x == Top.exec
           ends == x # Nobody /\ x \notin Runs(Front(stack)) /\ q.index[x] = 0 /\ g[x] = {}
<1>1. IsSeq(stack) /\ Len(stack) \in Nat /\ Len(stack) # 0 /\ FrameOk(Top)
  <2>1. IsSeq(stack)
    BY DEF SchedInv, Sched, StackOk
  <2> QED BY <2>1, SeqFacts, TopFacts
<1>2. Len(Front(stack)) = Len(stack) - 1
  BY <1>1, Popped
<1>3. Good(T) /\ T.jobs = S.jobs /\ Len(T.refs) = Len(S.refs) - 1
  BY <1>1, PopGood
<1>4. x = Nobody \/ x \in Elements
  BY <1>1 DEF FrameOk
<1>5. x # Nobody => (x \in {stack[i].exec : i \in 1 .. Len(stack) - 1} <=> x \in Runs(Front(stack)))
  BY <1>4, Executes
<1>6. R = IF ends THEN Detach(T, x) ELSE T
  BY <1>5 DEF Leave
<1>7. x \in Elements => x # Nobody
  BY RenderAssumption
<1> HIDE DEF T, x
<1>8. CASE ends
  <2>1. R \in GoodFrom(T, {}) /\ Rid(R, x)
    BY <1>3, <1>4, <1>6, <1>8, DetachGood
  <2>2. Good(R) /\ Len(R.refs) = Len(T.refs) /\ \A c \in Requests : R.jobs[c] \subseteq T.jobs[c]
    BY <2>1 DEF GoodFrom
  <2> QED BY <1>2, <1>3, <2>1, <2>2 DEF x
<1>9. CASE ~ends
  <2>1. R = T
    BY <1>6, <1>9
  <2> QED BY <1>2, <1>3, <1>7, <1>9, <2>1 DEF x
<1> QED BY <1>8, <1>9

\* Only the component of the frame may cease to be pending.
LEMMA LeaveStep ==
  ASSUME RenderInv, SchedInv', RenderTypes', stack # <<>>, Top.kind # "drain", stack' = Front(stack),
         NEW X, X \subseteq PendingWork', NEW S \in GoodFrom(rc, X), rc' = Leave(S, queue', gated'),
         waiting' = waiting,
         \A d \in Elements : d # Top.el => /\ queue.index[d] # 0 => queue'.index[d] # 0
                                           /\ gated[d] # {} => gated'[d] # {},
         \/ Top.exec = Top.el
         \/ Top.el \in PendingWork => Top.el \in PendingWork' \/ Rid(S, Top.el)
  PROVE RenderInv'
<1>0. SchedInv /\ IsSeq(stack) /\ Len(rc.refs) = Len(stack)
  BY InvFacts
<1>1. FrameOk(Top)
  BY <1>0, TopFacts
<1>2. Good(S) /\ Len(S.refs) = Len(stack) /\ \A c \in Requests : S.jobs[c] \subseteq rc.jobs[c] \cup X
  BY <1>0 DEF GoodFrom
<1>3. /\ Good(rc') /\ Len(rc'.refs) = Len(Front(stack)) /\ \A c \in Requests : rc'.jobs[c] \subseteq S.jobs[c]
      /\ Top.exec \in Elements /\ Top.exec \notin Runs(Front(stack))
           /\ queue'.index[Top.exec] = 0 /\ gated'[Top.exec] = {} => Rid(rc', Top.exec)
  BY <1>0, <1>2, LeaveGood
<1>4. Runs(stack) = Runs(stack') \cup {e \in Elements : e = Top.exec}
  BY <1>0, RunsPopped DEF Top
<1>5. ASSUME NEW w \in PendingWork, w \notin PendingWork' PROVE Rid(rc', w)
  <2>1. w \in Elements /\ w \notin waiting
    BY <1>5 DEF PendingWork
  <2>2. w \notin Runs(stack') /\ queue'.index[w] = 0 /\ gated'[w] = {}
    BY <1>5, <2>1 DEF PendingWork
  <2>3. w = Top.el
    BY <1>1, <1>4, <1>5, <2>1, <2>2, RenderAssumption DEF PendingWork, FrameOk
  <2>4. CASE Top.exec = Top.el
    BY <1>3, <2>1, <2>2, <2>3, <2>4
  <2>5. CASE Rid(S, w)
    BY <1>3, <2>5 DEF Rid
  <2> QED BY <1>5, <2>3, <2>4, <2>5
<1>6. \A c \in Requests : rc'.jobs[c] \subseteq rc.jobs[c] \cup X
  BY <1>2, <1>3
<1> QED BY <1>3, <1>5, <1>6, BookStep

LEMMA FailsGood ==
  ASSUME RenderInv, NEW e \in Elements, NEW failed, NEW S, S = IF failed THEN Fail(rc, e) ELSE rc
  PROVE S \in GoodFrom(rc, {})
<1>1. Good(rc) /\ rc \in GoodFrom(rc, {})
  BY InvFacts
<1> QED BY <1>1, FailGood

LEMMA EndCallWaits ==
  ASSUME RenderInv, NEW failed \in BOOLEAN, EndCall(failed)
  PROVE RenderInv'
<1> DEFINE S == IF failed THEN Fail(rc, Top.el) ELSE rc
<1>0. SchedInv /\ RenderTypes /\ IsSeq(stack)
  BY InvFacts
<1>1. /\ stack # <<>> /\ Top.kind = "call" /\ queue' = queue /\ waiting' = waiting /\ gated' = gated
      /\ blocked' = blocked /\ stack' = Front(stack) /\ rc' = Leave(S, queue, gated)
  BY DEF EndCall
<1>2. SchedInv'
  <2>1. "refresh" \in {"refresh", "append"}
    OBVIOUS
  <2> QED BY <1>0, <2>1, EndsKeep
<1>3. RenderTypes'
  BY <1>0, <1>1 DEF RenderTypes
<1>4. FrameOk(Top)
  BY <1>0, <1>1, TopFacts
<1>5. S \in GoodFrom(rc, {})
  BY <1>4, FailsGood DEF FrameOk
<1> HIDE DEF S
<1>6. Top.exec = Top.el \/ (Top.el \in PendingWork => Top.el \in PendingWork' \/ Rid(S, Top.el))
  <2>1. CASE Top.exec = Nobody
    <3>1. Runs(stack) = Runs(stack') \cup {e \in Elements : e = Nobody}
      BY <1>0, <1>1, <2>1, RunsPopped DEF Top
    <3>2. {e \in Elements : e = Nobody} = {}
      BY RenderAssumption
    <3>3. PendingWork' = PendingWork
      BY <1>1, <3>1, <3>2 DEF PendingWork
    <3> QED BY <3>3
  <2> QED BY <1>4, <2>1 DEF FrameOk
<1> QED BY <1>1, <1>2, <1>3, <1>5, <1>6, LeaveStep

LEMMA EndGatedWaits ==
  ASSUME RenderInv, NEW kind \in {"refresh", "append"}, NEW failed \in BOOLEAN, EndGated(kind, failed)
  PROVE RenderInv'
<1> DEFINE e == Top.el
           work == IF kind = "append" THEN {"mount"} ELSE {"update"}
           g == [gated EXCEPT ![e] = @ \ work]
           F == IF failed THEN Fail(rc, e) ELSE rc
           S == IF Top.exec # Nobody THEN Finished(F, e, Executing, g) ELSE F
<1>0. SchedInv /\ RenderTypes /\ IsSeq(stack)
  BY InvFacts
<1>1. /\ stack # <<>> /\ Top.kind = kind /\ queue' = queue /\ waiting' = waiting
      /\ gated' = IF Top.exec # Nobody THEN g ELSE gated
      /\ blocked' = blocked /\ stack' = Front(stack) /\ rc' = Leave(S, queue', gated')
  BY DEF EndGated
<1>2. SchedInv'
  BY <1>0, EndsKeep
<1>3. Top.kind # "drain"
  BY <1>1
<1>4. FrameOk(Top) /\ e \in Elements
  BY <1>0, <1>1, <1>3, TopFacts DEF FrameOk
<1>5. RenderTypes' /\ \A d \in Elements : d # e => gated'[d] = gated[d]
  BY <1>0, <1>1, <1>4 DEF RenderTypes
<1>6. F \in GoodFrom(rc, {})
  BY <1>4, FailsGood
<1> HIDE DEF F, g
<1>7. S \in GoodFrom(rc, {})
  <2>1. Good(F)
    BY <1>6, FromGood
  <2>2. Finished(F, e, Executing, g) \in GoodFrom(F, {})
    BY <1>4, <2>1, FinishedGood
  <2>3. Finished(F, e, Executing, g) \in GoodFrom(rc, {})
    BY <1>6, <2>2, GoodTwice
  <2> QED BY <1>6, <2>3
<1> HIDE DEF S
<1>8. Top.exec = e \/ (e \in PendingWork => e \in PendingWork' \/ Rid(S, e))
  <2>1. CASE Top.exec = Nobody
    <3>1. Runs(stack) = Runs(stack') \cup {d \in Elements : d = Nobody}
      BY <1>0, <1>1, <2>1, RunsPopped DEF Top
    <3>2. {d \in Elements : d = Nobody} = {}
      BY RenderAssumption
    <3>3. PendingWork' = PendingWork
      BY <1>1, <2>1, <3>1, <3>2 DEF PendingWork
    <3> QED BY <3>3
  <2> QED BY <1>4, <2>1 DEF FrameOk
<1> QED BY <1>1, <1>2, <1>3, <1>5, <1>7, <1>8, LeaveStep

LEMMA EndRenderWaits ==
  ASSUME RenderInv, NEW failed \in BOOLEAN, EndRender(failed)
  PROVE RenderInv'
<1> DEFINE e == Top.el
           F == IF failed THEN Fail(rc, e) ELSE rc
           S == FinishRender(F, e)
           q == Unslotted(queue, e)
<1>0. SchedInv /\ RenderTypes /\ IsSeq(stack)
  BY InvFacts
<1>1. /\ stack # <<>> /\ Top.kind = "render" /\ waiting' = waiting /\ gated' = gated
      /\ blocked' = blocked /\ stack' = Front(stack)
      /\ \E again \in BOOLEAN :
            /\ queue' = IF again THEN Enqueued(q, e) ELSE q
            /\ rc' = Leave(IF again THEN Queued(S, e) ELSE S, queue', gated)
  BY DEF EndRender
<1>2. SchedInv'
  BY <1>0, EndRenderKeeps
<1>3. FrameOk(Top) /\ e \in Elements
  BY <1>0, <1>1, TopFacts DEF FrameOk
<1>4. PICK again \in BOOLEAN :
            /\ queue' = IF again THEN Enqueued(q, e) ELSE q
            /\ rc' = Leave(IF again THEN Queued(S, e) ELSE S, queue', gated)
  BY <1>1
<1>5. RenderTypes'
  BY <1>0, <1>1 DEF RenderTypes
<1>6. F \in GoodFrom(rc, {})
  BY <1>3, FailsGood
<1> HIDE DEF F
<1>7. /\ S \in GoodFrom(rc, {}) /\ S \in GoodFrom(rc, {e})
      /\ e \notin Executing /\ gated[e] = {} => Rid(S, e)
  <2>1. Good(F) /\ F \in GoodFrom(F, {})
    BY <1>6, FromGood, GoodBook
  <2>2. CASE Observing(F)
    <3>1. S = Finished(F, e, Executing, gated)
      BY <2>2 DEF FinishRender
    <3>2. S \in GoodFrom(F, {}) /\ (e \notin Executing /\ gated[e] = {} => Rid(S, e))
      BY <1>3, <2>1, <3>1, FinishedGood
    <3> QED BY <1>6, <3>2, GoodTwice, GoodMore
  <2>3. CASE ~Observing(F)
    <3>1. S = F
      BY <2>3 DEF FinishRender
    <3>2. Rid(F, e)
      BY <2>1, <2>3 DEF Observing, Rid, Good, SoundBook, Living
    <3> QED BY <1>6, <3>1, <3>2, GoodMore
  <2> QED BY <2>2, <2>3
<1> HIDE DEF S
<1>8. Runs(stack) = Runs(stack') \cup {d \in Elements : d = Top.exec}
  BY <1>0, <1>1, RunsPopped DEF Top
<1>9. q.index[e] = 0 /\ \A d \in Elements : d # e => q.index[d] = queue.index[d]
  <2>1. Sched(queue, dirty, micro, stack) /\ StackOk(stack)
    BY <1>0 DEF SchedInv, Sched
  <2> QED BY <1>3, <2>1, UnslotIndex, ZenonT(30)
<1>10. CASE again
  <2>1. queue' = Enqueued(q, e) /\ rc' = Leave(Queued(S, e), queue', gated')
    BY <1>1, <1>4, <1>10
  <2>2. queue'.index[e] # 0 /\ \A d \in Elements : d # e => (queue.index[d] # 0 => queue'.index[d] # 0)
    <3>1. Sched(queue, dirty, micro, stack) /\ StackOk(stack)
      BY <1>0 DEF SchedInv, Sched
    <3>2. Sched(q, dirty \ {e}, micro, stack)
      BY <1>3, <3>1, UnslotKeeps
    <3>3. /\ Enqueued(q, e).index[e] # 0
          /\ \A c \in Elements : q.index[c] # 0 => Enqueued(q, e).index[c] # 0
      BY <1>3, <3>2, EnqueueKeeps
    <3> QED BY <1>9, <2>1, <3>3
  <2>3. {e} \subseteq PendingWork'
    BY <1>3, <2>2 DEF PendingWork
  <2>4. Queued(S, e) \in GoodFrom(rc, {e})
    BY <1>3, <1>7, QueuedGood
  <2> QED BY <1>1, <1>2, <1>5, <2>1, <2>2, <2>3, <2>4, LeaveStep
<1>11. CASE ~again
  <2>1. queue' = q /\ rc' = Leave(S, queue', gated')
    BY <1>1, <1>4, <1>11
  <2>2. Top.exec = e \/ (e \in PendingWork => e \in PendingWork' \/ Rid(S, e))
    <3>1. ASSUME Top.exec = Nobody, e \notin PendingWork' PROVE Rid(S, e)
      <4>1. {d \in Elements : d = Nobody} = {}
        BY RenderAssumption
      <4>2. e \notin Runs(stack) /\ gated[e] = {}
        BY <1>1, <1>3, <1>8, <3>1, <4>1 DEF PendingWork
      <4>3. e \notin Executing
        BY <1>0, <1>3, <4>2, Executes
      <4> QED BY <1>7, <4>2, <4>3
    <3> QED BY <1>3, <3>1 DEF FrameOk
  <2>3. \A d \in Elements : d # e => (queue.index[d] # 0 => queue'.index[d] # 0)
    BY <1>9, <2>1
  <2> QED BY <1>1, <1>2, <1>5, <1>7, <2>1, <2>2, <2>3, LeaveStep
<1> QED BY <1>10, <1>11

LEMMA DestroyedWaits ==
  ASSUME RenderInv, DestroyComponent
  PROVE RenderInv'
<1> DEFINE e == Head(micro)[2]
           ts == {t \in waiting : TaskHost[t] = e}
           b == [c \in Requests |-> rc.blockers[c] \ {e}]
           B == [rc EXCEPT !.blockers = b]
           C == CancelTasks(B, ts)
           D == ReleaseAll(C, C.obs[e] \ C.expected[e], "abort")
           g == [gated EXCEPT ![e] = {}]
           F == IF Observing(D) THEN Finished(D, e, Executing, g) ELSE D
<1>0. SchedInv /\ RenderTypes /\ Good(rc) /\ rc \in Book /\ rc \in GoodFrom(rc, {})
  BY InvFacts
<1>1. micro # <<>> /\ Head(micro)[1] = "destroy" /\ stack' = stack
  BY DEF DestroyComponent, Microtask
<1>2. \/ /\ waiting' = waiting \ ts /\ gated' = g /\ queue' = Unslotted(queue, e)
         /\ blocked' = blocked \ {e} /\ rc' = Detach(F, e)
      \/ UNCHANGED <<waiting, gated, queue, blocked, rc>>
  <2>1. [rc EXCEPT !.blockers = [c \in Requests |-> @[c] \ {e}]] = B
    BY <1>0 DEF Book
  <2> QED BY <2>1 DEF DestroyComponent, CancelTasks
<1>3. SchedInv'
  BY <1>0, DestroyedKeeps
<1>4. e \in Elements
  BY <1>0, <1>1, MicroPopped DEF SchedInv, Sched
<1> HIDE DEF e
<1>5. CASE UNCHANGED <<waiting, gated, queue, blocked, rc>>
  <2>1. RenderTypes' /\ rc' \in GoodFrom(rc, {})
    BY <1>0, <1>5 DEF RenderTypes
  <2> QED BY <1>1, <1>3, <1>5, <2>1, SamePending, PlainStep
<1>6. CASE /\ waiting' = waiting \ ts /\ gated' = g /\ queue' = Unslotted(queue, e)
           /\ blocked' = blocked \ {e} /\ rc' = Detach(F, e)
  <2>1. RenderTypes' /\ \A d \in Elements : d # e => gated'[d] = gated[d]
    BY <1>0, <1>4, <1>6 DEF RenderTypes
  <2>2. b \in [Requests -> SUBSET Elements]
    BY <1>0, BookFields
  <2> HIDE DEF b
  <2>3. B \in GoodFrom(rc, {})
    BY <1>0, <2>2, BlockersGood
  <2> HIDE DEF B
  <2>4. Good(B)
    BY <2>3, FromGood
  <2>5. ts \in SUBSET Tasks
    BY <1>0 DEF RenderTypes
  <2>6. C \in GoodFrom(B, {}) /\ \A t \in ts : Rid(C, t)
    <3> HIDE DEF ts
    <3> QED BY <2>4, <2>5, CancelTasksGood
  <2> HIDE DEF C
  <2>7. Good(C) /\ C \in Book /\ C \in GoodFrom(C, {})
    BY <2>6, FromGood, GoodBook
  <2>8. D \in GoodFrom(C, {})
    <3>1. C.obs[e] \ C.expected[e] \in SUBSET Requests
      BY <1>4, <2>7, BookFields DEF Work
    <3> QED BY <2>7, <3>1, ReleaseAllGood DEF Outcome
  <2> HIDE DEF D
  <2>9. Good(D) /\ D \in GoodFrom(D, {})
    BY <2>8, FromGood, GoodBook
  <2>10. F \in GoodFrom(D, {})
    BY <1>4, <2>9, FinishedGood
  <2> HIDE DEF F
  <2>11. Good(F)
    BY <2>10, FromGood
  <2>12. rc' \in GoodFrom(F, {}) /\ Rid(rc', e)
    BY <1>4, <1>6, <2>11, DetachGood
  <2>13. rc' \in GoodFrom(C, {})
    BY <2>8, <2>10, <2>12, GoodTwice
  <2>14. rc' \in GoodFrom(rc, {}) /\ \A t \in ts : Rid(rc', t)
    BY <2>3, <2>6, <2>13, GoodTwice, RidKept
  <2>15. \A d \in Elements : d # e => queue'.index[d] = queue.index[d]
    <3>1. Sched(queue, dirty, micro, stack) /\ StackOk(stack)
      BY <1>0 DEF SchedInv, Sched
    <3> QED BY <1>4, <1>6, <3>1, UnslotIndex, ZenonT(30)
  <2>16. \A w \in PendingWork : w \in PendingWork' \/ w = e \/ w \in ts
    <3>1. \A w \in waiting : w \in waiting' \/ w \in ts
      BY <1>6
    <3> QED BY <1>1, <2>1, <2>15, <3>1 DEF PendingWork
  <2>17. \A w \in PendingWork : w \in PendingWork' \/ Rid(rc', w)
    BY <2>12, <2>14, <2>16
  <2> QED BY <1>1, <1>3, <2>1, <2>14, <2>17, PlainStep
<1> QED BY <1>2, <1>5, <1>6

-----------------------------------------------------------------------------
(* The inductive invariant, and what it means *)

LEMMA RenderStarts == RenderInit => RenderInv
<1> SUFFICES ASSUME RenderInit PROVE RenderInv
  OBVIOUS
<1>1. SchedInv
  BY SchedStarts
<1>2. PICK s \in Scenes : gated = [e \in Elements |-> IF e \in s.gated THEN {"mount"} ELSE {}]
  BY DEF RenderInit
<1>3. waiting = {} /\ blocked = {} /\ stack = <<>>
  BY DEF RenderInit
<1>4. RenderTypes
  BY <1>2, <1>3 DEF RenderTypes
<1>5. rc = [alive    |-> {}, opening |-> {},
            obs      |-> [w \in Work |-> {}],
            jobs     |-> [c \in Requests |-> {}],
            tasks    |-> [c \in Requests |-> 0],
            blockers |-> [c \in Requests |-> {}],
            expected |-> [e \in Elements |-> {}],
            outcome  |-> [c \in Requests |-> "none"],
            refs     |-> <<>>]
  BY DEF RenderInit
<1>6. /\ rc.alive = {} /\ rc.opening = {} /\ rc.obs = [w \in Work |-> {}]
      /\ rc.jobs = [c \in Requests |-> {}] /\ rc.tasks = [c \in Requests |-> 0] /\ rc.refs = <<>>
  BY <1>5
<1>7. rc \in Book
  <2>1. /\ [w \in Work |-> {}] \in [Work -> SUBSET Requests]
        /\ [c \in Requests |-> {}] \in [Requests -> SUBSET Work]
        /\ [c \in Requests |-> 0] \in [Requests -> Int]
        /\ [c \in Requests |-> {}] \in [Requests -> SUBSET Elements]
        /\ [e \in Elements |-> {}] \in [Elements -> SUBSET Requests]
        /\ <<>> \in Seq(Ref)
    OBVIOUS
  <2>2. [c \in Requests |-> "none"] \in [Requests -> Outcome]
    BY DEF Outcome
  <2> QED BY <1>5, <2>1, <2>2 DEF Book
<1>8. Good(rc)
  <2>1. Mirror(rc, Nobody, {})
    BY <1>6 DEF Mirror
  <2>2. Living(rc) /\ Waits(rc, {})
    BY <1>6 DEF Living, Waits
  <2>3. Tallied(rc)
    BY <1>6 DEF Tallied
  <2> QED BY <1>7, <2>1, <2>2, <2>3 DEF Good, SoundBook
<1>9. Len(rc.refs) = Len(stack) /\ \A c \in Requests : rc.jobs[c] \subseteq PendingWork
  BY <1>3, <1>6
<1> QED BY <1>1, <1>4, <1>8, <1>9 DEF RenderInv

LEMMA RenderSteps == RenderInv /\ [RenderNext]_renderVars => RenderInv'
<1> SUFFICES ASSUME RenderInv, [RenderNext]_renderVars PROVE RenderInv'
  OBVIOUS
<1>0. SchedInv /\ RenderTypes /\ rc \in GoodFrom(rc, {})
  BY InvFacts
<1>1. CASE UNCHANGED renderVars
  <2>1. /\ queue' = queue /\ stack' = stack /\ waiting' = waiting /\ gated' = gated
        /\ blocked' = blocked /\ rc' = rc /\ dirty' = dirty /\ micro' = micro
    BY <1>1 DEF renderVars
  <2>2. SchedInv'
    BY <1>0, <1>1, SchedSteps
  <2>3. RenderTypes' /\ rc' \in GoodFrom(rc, {})
    BY <1>0, <2>1 DEF RenderTypes
  <2> QED BY <2>1, <2>2, <2>3, SamePending, PlainStep
<1>2. CASE System
  BY <1>2, DisconnectedWaits, DestroyedWaits, DrainWaits, DrainNextWaits, DrainEndWaits, SealWaits,
     IdleWaits, ReconnectedWaits, EndRenderWaits, EndCallWaits, EndTaskWaits, EndGatedWaits,
     ContinueWaits, RunTaskWaits DEF System
<1>3. CASE FreeStep
  BY <1>3, IdleWaits, DeferWaits, WriteWaits, BeginsWait, FailsWaits, UpgradeWaits, MovesWait,
     QueueTaskWaits, CancelWaits, WhenRenderedWaits DEF FreeStep
<1> QED BY <1>1, <1>2, <1>3 DEF RenderNext

LEMMA RenderMeans == RenderInv => NobodyHangs
<1> SUFFICES ASSUME RenderInv PROVE NobodyHangs
  OBVIOUS
<1>0. SchedInv /\ RenderTypes /\ Good(rc) /\ rc \in Book /\ IsSeq(stack)
  BY InvFacts
<1>1. WrittenIsQueued
  BY <1>0, SchedMeans
<1>2. /\ Mirror(rc, Nobody, {}) /\ Living(rc) /\ Tallied(rc) /\ Waits(rc, {})
      /\ rc.alive \subseteq Requests /\ rc.jobs \in [Requests -> SUBSET Work]
  BY <1>0, BookFields DEF Good, SoundBook
<1>3. ASSUME NEW w \in PendingWork PROVE Busy(w)
  <2>1. CASE w \in Runs(stack)
    <3>1. PICK k \in 1 .. Len(stack) : stack[k].exec = w
      BY <2>1 DEF Runs
    <3>2. k \in DOMAIN stack
      BY <1>0, SeqFacts
    <3> QED BY <3>1, <3>2 DEF Busy, InFrames
  <2> QED BY <1>3, <2>1 DEF PendingWork, Busy
<1>4. WaitsForSomething
  <2>1. SUFFICES ASSUME NEW c \in rc.alive
                 PROVE /\ \A w \in rc.jobs[c] : Busy(w) /\ c \in rc.obs[w]
                       /\ c \in rc.opening \/ rc.jobs[c] # {}
                       /\ rc.tasks[c] = Cardinality(rc.jobs[c] \cap Tasks)
    BY DEF WaitsForSomething
  <2>2. c \in Requests
    BY <1>2
  <2>3. \A w \in rc.jobs[c] : Busy(w)
    BY <1>3, <2>2 DEF RenderInv
  <2>4. \A w \in rc.jobs[c] : c \in rc.obs[w]
    BY <1>2, <2>2 DEF Mirror
  <2>5. rc.tasks[c] = Cardinality(rc.jobs[c] \cap Tasks)
    BY <1>2, <2>2 DEF Tallied
  <2>6. c \in rc.opening \/ rc.jobs[c] # {}
    BY <1>2 DEF Waits
  <2> QED BY <2>3, <2>4, <2>5, <2>6
<1> QED BY <1>1, <1>4 DEF NobodyHangs

THEOREM RenderInvariant == RenderSpec => []RenderInv
BY RenderStarts, RenderSteps, PTL DEF RenderSpec

\* No render is forgotten and no request hangs: whatever a request waits for
\* is there to be done and a written component has a slot that a drain will
\* reach, for any number of components, activations, requests and frames.
THEOREM NothingHangs == RenderSpec => []NobodyHangs
BY RenderInvariant, RenderMeans, PTL
=============================================================================

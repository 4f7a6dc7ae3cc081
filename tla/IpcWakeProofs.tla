---------------------------- MODULE IpcWakeProofs ----------------------------
(* Proofs about IpcWake, for every value of its constants. *)
EXTENDS IpcWake, TLAPS

-----------------------------------------------------------------------------
(* The inductive invariant *)

\* What belongs to a document goes with it, and a closed window has none.
DocInv ==
  /\ closed => ~live
  /\ live => admitted /\ generation >= 1
  /\ ~live => ~ready /\ ~inflight /\ length = 0
  /\ length <= produced

\* A session, or the offer of one, is of the latest document and of the page
\* that is shown: a navigation clears it before the next can be admitted.
SessionInv ==
  /\ session # 0 => session = generation /\ admitted
  /\ offer # 0 => offer = generation /\ admitted /\ page # "open" /\ hello = 0
  /\ hello # 0 => admitted
  /\ page # "open" => pull = "idle"

\* No control is of a document to come, none that closes is of the one that
\* lives, and the end of an older document is taken before the living one is
\* announced, so holding it pushes no announcement out.
ControlInv ==
  /\ closedControl <= generation
  /\ \A n \in DOMAIN held : held[n].gen <= generation
  /\ live => /\ closedControl # generation
             /\ \A n \in DOMAIN held :
                  held[n].kind = "closed" => held[n].gen # generation
             /\ closedControl # 0 => ~Announces(held)

\* A pull that is about to be told that nothing is left does not count: it
\* was told before the frames came.
FramesInv ==
  live /\ length > 0 /\ page # "failed" =>
    \/ ready \/ Announces(held) \/ Announces(mail) \/ dirty
    \/ pull \in {"request", "popped", "frame", "refused"}

\* A wake-up that is pending is on its way.
WakesInv ==
  /\ wakePending /\ ~closed => waking \/ queued \/ looping
  /\ HasNews /\ waker /\ ~closed => signalling \/ waking \/ queued \/ looping

HeldInv == Announces(held) /\ session # 0 => queued \/ looping

\* The guard of a pull is held while it is answered, or was left behind by a
\* page that pulls no more.
PullInv == inflight => pull \in {"popped", "none"} \/ page = "failed"

WakeInv ==
  /\ TypeOK /\ DocInv /\ SessionInv /\ ControlInv /\ FramesInv /\ WakesInv
  /\ HeldInv /\ PullInv

-----------------------------------------------------------------------------
(* Sequences of controls *)

\* Appending announcements keeps the old ones and adds the new ones.
LEMMA ConcatControls ==
  ASSUME NEW s \in Seq(Control), NEW t \in Seq(Control)
  PROVE /\ s \o t \in Seq(Control)
        /\ Announces(s) \/ Announces(t) => Announces(s \o t)
<1>1. ASSUME NEW n \in DOMAIN s
      PROVE n \in DOMAIN (s \o t) /\ (s \o t)[n] = s[n]
  OBVIOUS
<1>2. ASSUME NEW n \in DOMAIN t
      PROVE Len(s) + n \in DOMAIN (s \o t) /\ (s \o t)[Len(s) + n] = t[n]
  OBVIOUS
<1>3. Announces(s) => Announces(s \o t)
  BY <1>1 DEF Announces
<1>4. Announces(t) => Announces(s \o t)
  BY <1>2 DEF Announces
<1> QED BY <1>3, <1>4

\* push_control sends controls and nothing else; as long as none closes the
\* session, every announcement of the session's document is sent.
LEMMA PushedControls ==
  ASSUME NEW batch \in Seq(Control), Len(batch) <= 2
  PROVE /\ Pushed(batch) \in Seq(Control)
        /\ session = generation /\ Announces(batch) /\ ~Closes(batch) =>
             Announces(Pushed(batch))
<1>1. ASSUME NEW c \in Control PROVE Own(c) \in Seq(Control)
  BY DEF Own
<1>2. ASSUME NEW c \in Control, session = generation, c.gen = generation,
             c.kind = "ready"
      PROVE Announces(Own(c))
  <2>1. Own(c) = <<c>>
    BY <1>2 DEF Own, IsOurs
  <2>2. 1 \in DOMAIN Own(c) /\ Own(c)[1] = c
    BY <2>1
  <2> QED BY <1>2, <2>2 DEF Announces
<1>3. CASE batch = <<>>
  BY <1>3 DEF Pushed, Announces
<1>4. CASE batch # <<>>
  <2> DEFINE rest == IF Len(batch) = 1 \/ Ends(batch[1]) THEN <<>> ELSE Own(batch[2])
  <2>1. Len(batch) \in {1, 2} /\ DOMAIN batch = 1 .. Len(batch)
    <3>1. Len(batch) \in Nat /\ Len(batch) # 0 /\ DOMAIN batch = 1 .. Len(batch)
      BY <1>4
    <3> QED BY <3>1
  <2>2. batch[1] \in Control /\ Own(batch[1]) \in Seq(Control)
    BY <1>1, <2>1
  <2>3. Len(batch) = 2 => batch[2] \in Control
    <3>1. ASSUME Len(batch) = 2 PROVE 2 \in 1 .. Len(batch)
      BY <3>1
    <3>2. \A n \in 1 .. Len(batch) : batch[n] \in Control
      OBVIOUS
    <3> QED BY <3>1, <3>2
  <2>4. rest \in Seq(Control)
    BY <1>1, <2>1, <2>3
  <2>5. Pushed(batch) = Own(batch[1]) \o rest
    BY <1>4 DEF Pushed
  <2>6. ASSUME session = generation, Announces(batch), ~Closes(batch)
        PROVE Announces(Own(batch[1])) \/ Announces(rest)
    <3>1. PICK n \in DOMAIN batch : batch[n].kind = "ready" /\ batch[n].gen = generation
      BY <2>6 DEF Announces
    <3>2. CASE n = 1
      BY <1>2, <2>2, <2>6, <3>1, <3>2
    <3>3. CASE n = 2
      <4>1. Len(batch) = 2 /\ ~Ends(batch[1])
        BY <2>1, <2>6, <3>1, <3>3 DEF Closes
      <4>2. rest = Own(batch[2])
        BY <4>1
      <4> QED BY <1>2, <2>3, <2>6, <3>1, <3>3, <4>1, <4>2
    <3> QED BY <2>1, <3>1, <3>2, <3>3
  <2> HIDE DEF rest
  <2> QED BY <2>2, <2>4, <2>5, <2>6, ConcatControls
<1> QED BY <1>3, <1>4
-----------------------------------------------------------------------------
(* Type correctness, one thread of control at a time *)

HostType ==
  /\ closed \in BOOLEAN /\ admitted \in BOOLEAN /\ live \in BOOLEAN
  /\ generation \in 0 .. MaxGeneration /\ length \in 0 .. MaxProduced
  /\ produced \in 0 .. MaxProduced
  /\ waker \in BOOLEAN /\ wakePending \in BOOLEAN /\ ready \in BOOLEAN
  /\ inflight \in BOOLEAN /\ signalling \in BOOLEAN /\ waking \in BOOLEAN
  /\ closedControl \in 0 .. MaxGeneration
UiType ==
  /\ queued \in BOOLEAN /\ looping \in BOOLEAN
  /\ offer \in 0 .. MaxGeneration /\ session \in 0 .. MaxGeneration
  /\ held \in Seq(Control) /\ Len(held) <= 2
PageType ==
  /\ mail \in Seq(Control)
  /\ page \in {"waiting", "open", "failed"} /\ hello \in 0 .. MaxGeneration
  /\ dirty \in BOOLEAN /\ pull \in Pull /\ bye \in BOOLEAN

LEMMA TypeParts == TypeOK <=> HostType /\ UiType /\ PageType
BY DEF TypeOK, HostType, UiType, PageType

\* The values that stand for nothing are well-typed.
LEMMA NothingType ==
  /\ 0 \in 0 .. MaxGeneration /\ 0 \in 0 .. MaxProduced
  /\ <<>> \in Seq(Control) /\ Len(<<>>) <= 2
BY WakeAssumption

\* What routing or flushing a control does to the adapter's lists
LEMMA RouteType ==
  ASSUME UiType, PageType, NEW control \in Control, Route(control)
  PROVE /\ held' \in Seq(Control) /\ Len(held') <= 2 /\ mail' \in Seq(Control)
        /\ session' \in {0, session}
<1>0. /\ held \in Seq(Control) /\ Len(held) <= 2 /\ mail \in Seq(Control)
  BY DEF UiType, PageType
<1>1. CASE session = 0
  <2>1. /\ held' = Append(IF Len(held) = 2 THEN Tail(held) ELSE held, control)
        /\ UNCHANGED <<session, mail>>
    BY <1>1 DEF Route, Hold
  <2>2. CASE Len(held) = 2
    <3>1. held # <<>> /\ Tail(held) \in Seq(Control) /\ Len(Tail(held)) = 1
      BY <1>0, <2>2
    <3>2. held' = Append(Tail(held), control)
      BY <2>1, <2>2
    <3>3. held' \in Seq(Control) /\ Len(held') = 2
      BY <3>1, <3>2
    <3> QED BY <1>0, <2>1, <3>3
  <2>3. CASE Len(held) # 2
    <3>1. Len(held) \in Nat
      BY <1>0
    <3>2. held' = Append(held, control)
      BY <2>1, <2>3
    <3>3. held' \in Seq(Control) /\ Len(held') = Len(held) + 1
      BY <1>0, <3>2
    <3>4. \A k \in Nat : k <= 2 /\ k # 2 => k + 1 <= 2
      OBVIOUS
    <3>5. Len(held) + 1 <= 2
      BY <1>0, <2>3, <3>1, <3>4
    <3> QED BY <1>0, <2>1, <3>3, <3>5
  <2> QED BY <2>2, <2>3
<1>2. CASE session # 0
  <2>1. Push(<<control>>, held)
    BY <1>2 DEF Route
  <2>2. <<control>> \in Seq(Control) /\ Len(<<control>>) <= 2
    OBVIOUS
  <2>3. Pushed(<<control>>) \in Seq(Control)
    BY <2>2, PushedControls
  <2>4. mail' \in Seq(Control)
    BY <1>0, <2>1, <2>3 DEF Push
  <2>5. session' \in {0, session} /\ held' \in {held, <<>>}
    BY <2>1 DEF Push
  <2> QED BY <1>0, <2>4, <2>5, NothingType
<1> QED BY <1>1, <1>2

LEMMA FlushType ==
  ASSUME UiType, PageType, Flush
  PROVE /\ held' \in {held, <<>>} /\ mail' \in Seq(Control)
        /\ session' \in {0, session}
<1>0. held \in Seq(Control) /\ Len(held) <= 2 /\ mail \in Seq(Control)
  BY DEF UiType, PageType
<1>1. Pushed(held) \in Seq(Control)
  BY <1>0, PushedControls
<1>2. CASE session # 0
  <2>1. Push(held, <<>>)
    BY <1>2 DEF Flush
  <2> QED BY <1>0, <1>1, <2>1 DEF Push
<1>3. CASE session = 0
  BY <1>0, <1>3 DEF Flush
<1> QED BY <1>2, <1>3

\* Each critical section of the host leaves the engine's fields well-typed.
LEMMA HostTypeNext ==
  ASSUME HostType, DocInv, WakeNext
  PROVE HostType'
<1> USE WakeAssumption DEF HostType, outboxVars, hostVars
<1>1. CASE AttachWaker \/ Signal \/ Wake
  BY <1>1, ZenonT(60) DEF AttachWaker, Signal, Wake
<1>2. CASE Produce
  BY <1>2 DEF Produce, Enqueue, BecomesReady, DocInv
<1>3. ASSUME Discard, admitted' \in BOOLEAN, closed' \in BOOLEAN,
             NEW terminal \in BOOLEAN, RetireWake(terminal)
      PROVE HostType'
  BY <1>3, NothingType DEF Discard, RetireWake
<1>4. CASE HostRevoke \/ HostClose
  BY <1>3, <1>4 DEF HostRevoke, HostClose, Revoke, Close
<1>5. CASE HostAdmit
  BY <1>5 DEF HostAdmit, Admit
<1>6. CASE TakeControl \/ TakeNothing
  <2>1. /\ closedControl' \in 0 .. MaxGeneration
        /\ wakePending' \in BOOLEAN /\ ready' \in BOOLEAN
    BY <1>6, NothingType DEF TakeControl, TakeNothing
  <2>2. UNCHANGED <<closed, admitted, generation, live, length, waker,
                    inflight, signalling, waking, produced>>
    BY <1>6 DEF TakeControl, TakeNothing
  <2> QED BY <2>1, <2>2
<1>7. CASE DeliverUnsent \/ UiNavigate \/ UiClose
  BY <1>3, <1>7 DEF DeliverUnsent, UiNavigate, UiClose, Revoke, Navigate, Close
<1>8. CASE PageDisconnects
  BY <1>3, <1>8, ZenonT(60) DEF PageDisconnects, Revoke
<1>9. CASE HostDrain \/ HostRespond
  <2>1. /\ length' \in 0 .. MaxProduced /\ inflight' \in BOOLEAN
        /\ UNCHANGED <<closed, admitted, generation, live>>
    <3>1. CASE UNCHANGED outboxVars
      BY <1>9, <3>1 DEF HostDrain, HostRespond
    <3>2. CASE Pop
      <4>1. length' \in 0 .. MaxProduced /\ UNCHANGED <<closed, admitted, generation, live>>
        BY <3>2 DEF Pop
      <4>2. inflight' \in BOOLEAN
        BY <1>9 DEF HostDrain, HostRespond
      <4> QED BY <4>1, <4>2
    <3> QED BY <1>9, <3>1, <3>2 DEF HostDrain, HostRespond
  <2>2. UNCHANGED <<waker, wakePending, closedControl, ready, signalling,
                    waking, produced>>
    BY <1>9 DEF HostDrain, HostRespond
  <2> QED BY <2>1, <2>2
<1>10. CASE \/ Callback \/ Deliver \/ PageHello \/ PageControl \/ PageCloses
            \/ PageFrame \/ PageEmpty \/ PageRefused
  BY <1>10 DEF Callback, Deliver, PageHello, PageControl, PageCloses,
               PageFrame, PageEmpty, PageRefused
<1> QED BY <1>1, <1>2, <1>4, <1>5, <1>6, <1>7, <1>8, <1>9, <1>10
        DEF WakeNext, HostNext, UiNext, PageNext

\* Only controls, at most two of them, are ever held.
LEMMA TakenControl ==
  ASSUME HostType, DocInv, TakeControl
  PROVE \E control \in Control : Route(control)
<1>1. CASE /\ closedControl # 0
           /\ Route([kind |-> "closed", gen |-> closedControl])
  <2>1. [kind |-> "closed", gen |-> closedControl] \in Control
    BY <1>1, WakeAssumption DEF Control, HostType
  <2> QED BY <1>1, <2>1
<1>2. CASE live /\ Route([kind |-> "ready", gen |-> generation])
  <2>1. [kind |-> "ready", gen |-> generation] \in Control
    BY <1>2, WakeAssumption DEF Control, DocInv, HostType
  <2> QED BY <1>2, <2>1
<1> QED BY <1>1, <1>2 DEF TakeControl

\* Each callback of the UI thread leaves the adapter well-typed.
LEMMA UiTypeNext ==
  ASSUME HostType, UiType, PageType, DocInv, WakeNext
  PROVE UiType'
<1> USE NothingType DEF uiVars
<1>1. CASE Wake \/ Callback
  BY <1>1 DEF Wake, Callback, UiType
<1>2. CASE HostAdmit
  <2>1. generation' \in 0 .. MaxGeneration
    BY <1>2, WakeAssumption DEF HostAdmit, Admit, HostType
  <2> QED BY <1>2, <2>1 DEF HostAdmit, UiType
<1>3. CASE TakeControl
  BY <1>3, TakenControl, RouteType DEF TakeControl, UiType
<1>4. CASE TakeNothing
  BY <1>4, FlushType DEF TakeNothing, UiType
<1>5. CASE Deliver \/ DeliverUnsent
  BY <1>5 DEF Deliver, DeliverUnsent, UiType
<1>6. CASE PageDisconnects
  BY <1>6 DEF PageDisconnects, UiType
<1>7. CASE UiNavigate \/ UiClose
  BY <1>7 DEF UiNavigate, UiClose, UiType
<1>8. CASE \/ AttachWaker \/ Produce \/ Signal \/ HostRevoke \/ HostClose
           \/ PageNext
  BY <1>8 DEF AttachWaker, Produce, Signal, HostRevoke, HostClose, PageNext,
              PageHello, PageControl, PageCloses, HostDrain, HostRespond,
              PageFrame, PageEmpty, PageRefused, UiType
<1> QED BY <1>1, <1>2, <1>3, <1>4, <1>5, <1>6, <1>7, <1>8
        DEF WakeNext, HostNext, UiNext

\* Each turn of the page leaves its transport well-typed.
LEMMA PageTypeNext ==
  ASSUME HostType, UiType, PageType, DocInv, WakeNext
  PROVE PageType'
<1> USE NothingType DEF pageVars
<1>1. CASE HostNext
  BY <1>1 DEF HostNext, AttachWaker, Produce, Signal, Wake, HostRevoke,
              HostClose, HostAdmit, PageType
<1>2. CASE TakeControl
  BY <1>2, TakenControl, RouteType DEF TakeControl, PageType
<1>3. CASE TakeNothing
  BY <1>3, FlushType DEF TakeNothing, PageType
<1>4. CASE Deliver
  BY <1>4 DEF Deliver, PageType, UiType
<1>5. CASE Callback \/ DeliverUnsent \/ PageDisconnects
  BY <1>5 DEF Callback, DeliverUnsent, PageDisconnects, PageType
<1>6. CASE UiNavigate \/ UiClose
  BY <1>6 DEF UiNavigate, NewPage, UiClose, PageType, Pull
<1>7. CASE PageHello
  BY <1>7 DEF PageHello, StartPull, PageType, Pull
<1>8. CASE PageControl
  <2>1. mail' \in Seq(Control)
    BY <1>8 DEF PageControl, PageType
  <2>2. /\ page' \in {"waiting", "open", "failed"}
        /\ dirty' \in BOOLEAN /\ pull' \in Pull /\ bye' \in BOOLEAN
    BY <1>8 DEF PageControl, StartPull, Fail, PageType, Pull
  <2> QED BY <1>8, <2>1, <2>2 DEF PageControl, PageType
<1>9. CASE PageCloses \/ PageRefused
  BY <1>9 DEF PageCloses, PageRefused, Fail, PageType, Pull
<1>10. CASE HostDrain \/ HostRespond \/ PageFrame \/ PageEmpty
  BY <1>10 DEF HostDrain, HostRespond, PageFrame, PageEmpty, PageType, Pull
<1> QED BY <1>1, <1>2, <1>3, <1>4, <1>5, <1>6, <1>7, <1>8, <1>9, <1>10
        DEF WakeNext, UiNext, PageNext
-----------------------------------------------------------------------------
(* The invariant, part by part *)

\* What ends a document takes its frames and its wake fields with it.
LEMMA DocNext ==
  ASSUME HostType, DocInv, SessionInv, WakeNext
  PROVE DocInv'
<1> USE WakeAssumption DEF outboxVars, hostVars
<1>0. ASSUME Discard, UNCHANGED admitted \/ admitted' = FALSE,
             NEW terminal \in BOOLEAN, RetireWake(terminal)
      PROVE DocInv'
  BY <1>0 DEF Discard, RetireWake, DocInv
<1>1. CASE HostRevoke \/ HostClose \/ DeliverUnsent \/ UiNavigate \/ UiClose
  BY <1>0, <1>1 DEF HostRevoke, HostClose, DeliverUnsent, UiNavigate, UiClose,
                    Revoke, Navigate, Close
<1>2. CASE PageDisconnects
  <2>1. CASE live /\ ~closed
    BY <1>0, <1>2, <2>1 DEF PageDisconnects, Revoke
  <2>2. CASE ~(live /\ ~closed)
    BY <1>2, <2>2 DEF PageDisconnects, DocInv
  <2> QED BY <2>1, <2>2
<1>3. CASE Produce
  BY <1>3 DEF Produce, Enqueue, BecomesReady, DocInv, HostType
<1>4. CASE HostAdmit
  BY <1>4 DEF HostAdmit, Admit, DocInv, HostType
<1>5. CASE TakeControl
  <2>1. UNCHANGED <<closed, admitted, generation, live, length, inflight, produced>>
        /\ (ready' => ready)
    BY <1>5 DEF TakeControl
  <2> QED BY <2>1 DEF DocInv
<1>6. CASE TakeNothing
  BY <1>6 DEF TakeNothing, DocInv
<1>7. CASE HostDrain
  <2>1. CASE live /\ ~closed /\ ~inflight /\ inflight' = TRUE /\ Pop
    BY <1>7, <2>1 DEF HostDrain, Pop, DocInv, HostType
  <2>2. CASE live /\ UNCHANGED outboxVars
    BY <1>7, <2>2 DEF HostDrain, DocInv
  <2>3. CASE UNCHANGED <<outboxVars, inflight>>
    BY <1>7, <2>3 DEF HostDrain, DocInv
  <2> QED BY <1>7, <2>1, <2>2, <2>3 DEF HostDrain
<1>8. CASE HostRespond
  BY <1>8 DEF HostRespond, DocInv
<1>9. CASE AttachWaker \/ Signal \/ Wake
  BY <1>9 DEF AttachWaker, Signal, Wake, DocInv
<1>10. CASE \/ Callback \/ Deliver \/ PageHello \/ PageControl \/ PageCloses
            \/ PageFrame \/ PageEmpty \/ PageRefused
  BY <1>10 DEF Callback, Deliver, PageHello, PageControl, PageCloses,
               PageFrame, PageEmpty, PageRefused, DocInv
<1> QED BY <1>1, <1>2, <1>3, <1>4, <1>5, <1>6, <1>7, <1>8, <1>9, <1>10
        DEF WakeNext, HostNext, UiNext, PageNext

\* Nobody keeps the session of a page that is not shown any more.
LEMMA SessionNext ==
  ASSUME HostType, UiType, PageType, DocInv, SessionInv, WakeNext
  PROVE SessionInv'
<1> USE WakeAssumption DEF outboxVars, hostVars, uiVars, pageVars
<1>1. CASE AttachWaker \/ Produce \/ Signal \/ Wake
  BY <1>1 DEF AttachWaker, Produce, Enqueue, Signal, Wake, SessionInv
<1>2. CASE HostRevoke \/ HostClose
  BY <1>2 DEF HostRevoke, HostClose, Revoke, Close, Discard, SessionInv
<1>3. CASE HostAdmit
  BY <1>3 DEF HostAdmit, Admit, SessionInv, HostType
<1>4. CASE Callback
  BY <1>4 DEF Callback, SessionInv
<1>5. CASE TakeControl \/ TakeNothing
  <2>1. session' \in {0, session}
    BY <1>5, TakenControl, RouteType, FlushType DEF TakeControl, TakeNothing
  <2>2. UNCHANGED <<outboxVars, offer, page, hello, pull>>
    BY <1>5 DEF TakeControl, TakeNothing
  <2> QED BY <2>1, <2>2 DEF SessionInv
<1>6. CASE Deliver
  BY <1>6 DEF Deliver, SessionInv
<1>7. CASE DeliverUnsent
  BY <1>7 DEF DeliverUnsent, Revoke, Discard, SessionInv
<1>8. CASE PageDisconnects
  BY <1>8 DEF PageDisconnects, Revoke, Discard, SessionInv
<1>9. CASE UiNavigate \/ UiClose
  BY <1>9 DEF UiNavigate, NewPage, UiClose, SessionInv
<1>10. CASE PageHello
  BY <1>10 DEF PageHello, StartPull, SessionInv
<1>11. CASE PageControl
  BY <1>11 DEF PageControl, StartPull, Fail, SessionInv, PageType
<1>12. CASE PageCloses \/ PageRefused
  BY <1>12 DEF PageCloses, PageRefused, Fail, SessionInv
<1>13. CASE HostDrain
  <2>1. /\ UNCHANGED <<generation, admitted, offer, session, page, hello>>
        /\ pull = "request"
    BY <1>13 DEF HostDrain, Pop
  <2> QED BY <2>1 DEF SessionInv
<1>14. CASE HostRespond \/ PageFrame \/ PageEmpty
  BY <1>14 DEF HostRespond, PageFrame, PageEmpty, SessionInv
<1> QED BY <1>1, <1>2, <1>3, <1>4, <1>5, <1>6, <1>7, <1>8, <1>9, <1>10, <1>11,
           <1>12, <1>13, <1>14 DEF WakeNext, HostNext, UiNext, PageNext

\* What is held after a control was: that control, and some of what was held
\* before.
LEMMA HoldEach ==
  ASSUME UiType, NEW control \in Control, Hold(control)
  PROVE /\ \E n \in DOMAIN held' : held'[n] = control
        /\ \A n \in DOMAIN held' :
             held'[n] = control \/ \E m \in DOMAIN held : held'[n] = held[m]
<1>0. held \in Seq(Control) /\ Len(held) \in Nat
  BY DEF UiType
<1>1. PICK kept \in {held, Tail(held)} :
        kept = (IF Len(held) = 2 THEN Tail(held) ELSE held) /\ held' = Append(kept, control)
  BY DEF Hold
<1>2. /\ kept \in Seq(Control)
      /\ \A n \in DOMAIN kept : \E m \in DOMAIN held : kept[n] = held[m]
  <2>1. CASE Len(held) = 2
    <3>1. kept = Tail(held) /\ held # <<>>
      BY <1>0, <1>1, <2>1
    <3>a. kept \in Seq(Control) /\ Len(kept) = Len(held) - 1
      BY <1>0, <3>1
    <3>b. \A n \in 1 .. Len(kept) : kept[n] = held[n + 1]
      BY <1>0, <3>1
    <3>2. kept \in Seq(Control) /\ Len(kept) = 1 /\ kept[1] = held[2]
      BY <1>0, <2>1, <3>a, <3>b
    <3>3. DOMAIN kept = {1} /\ 2 \in DOMAIN held
      BY <1>0, <2>1, <3>2
    <3> QED BY <3>2, <3>3
  <2>2. CASE Len(held) # 2
    BY <1>0, <1>1, <2>2
  <2> QED BY <2>1, <2>2
<1>3. /\ DOMAIN held' = 1 .. Len(kept) + 1 /\ held'[Len(kept) + 1] = control
      /\ \A n \in DOMAIN kept : held'[n] = kept[n]
      /\ DOMAIN kept = 1 .. Len(kept) /\ Len(kept) \in Nat
  BY <1>1, <1>2
<1>4. ASSUME NEW n \in DOMAIN held' PROVE n = Len(kept) + 1 \/ n \in DOMAIN kept
  BY <1>3
<1>5. Len(kept) + 1 \in DOMAIN held'
  BY <1>3
<1> QED BY <1>2, <1>3, <1>4, <1>5

\* Controls are told apart by the generation they name.
LEMMA ControlNext ==
  ASSUME HostType, UiType, PageType, DocInv, SessionInv, ControlInv, WakeNext
  PROVE ControlInv'
<1> USE DEF outboxVars, hostVars, uiVars
<1>0. generation \in Nat /\ closedControl \in Nat
  BY WakeAssumption DEF HostType
<1>a. ASSUME NEW terminal \in BOOLEAN, Discard, RetireWake(terminal),
             held' \in {held, <<>>}
      PROVE ControlInv'
  <2>1. closedControl' \in {generation, closedControl} /\ ~live' /\ generation' = generation
    BY <1>a DEF Discard, RetireWake
  <2>2. \A n \in DOMAIN held' : held'[n].gen <= generation
    BY <1>a DEF ControlInv
  <2> QED BY <1>0, <2>1, <2>2 DEF ControlInv
<1>b. ASSUME UNCHANGED <<closedControl, generation, live>>, held' \in {held, <<>>}
      PROVE ControlInv'
  BY <1>b DEF ControlInv, Announces
<1>1. CASE HostRevoke \/ HostClose \/ DeliverUnsent \/ UiNavigate \/ UiClose
  BY <1>1, <1>a DEF HostRevoke, HostClose, DeliverUnsent, UiNavigate, UiClose,
                    Revoke, Navigate, Close
<1>2. CASE PageDisconnects
  <2>1. held' \in {held, <<>>}
    BY <1>2 DEF PageDisconnects
  <2>2. CASE live /\ ~closed
    BY <1>2, <1>a, <2>1, <2>2 DEF PageDisconnects, Revoke
  <2>3. CASE ~(live /\ ~closed)
    BY <1>2, <1>b, <2>1, <2>3 DEF PageDisconnects
  <2> QED BY <2>2, <2>3
<1>3. CASE HostAdmit
  <2>1. /\ UNCHANGED <<closedControl, held>> /\ generation' = generation + 1
    BY <1>3 DEF HostAdmit, Admit
  <2>2. ASSUME NEW n \in DOMAIN held
        PROVE held[n].gen \in Nat /\ held[n].gen < generation'
    <3>1. held[n] \in Control
      BY DEF UiType
    <3> QED BY <1>0, <2>1, <3>1, WakeAssumption DEF ControlInv, Control
  <2> QED BY <1>0, <2>1, <2>2 DEF ControlInv, Announces
<1>4. CASE TakeControl
  <2>1. UNCHANGED <<generation, live>>
    BY <1>4 DEF TakeControl
  <2>2. ASSUME session # 0, NEW c \in Control, Route(c) PROVE held' \in {held, <<>>}
    BY <2>2 DEF Route, Push
  <2>3. CASE closedControl # 0
    <3> DEFINE c == [kind |-> "closed", gen |-> closedControl]
    <3>1. c \in Control /\ c.gen = closedControl
      BY <2>3, WakeAssumption DEF Control, HostType
    <3>2. closedControl' = 0 /\ Route(c)
      BY <1>4, <2>3 DEF TakeControl
    <3> HIDE DEF c
    <3>3. ASSUME NEW n \in DOMAIN held'
          PROVE held'[n] = c \/ \E m \in DOMAIN held : held'[n] = held[m]
      BY <2>2, <3>1, <3>2, HoldEach DEF Route
    <3>4. \A n \in DOMAIN held' :
            /\ held'[n].gen <= generation
            /\ live /\ held'[n].kind = "closed" => held'[n].gen # generation
      BY <3>1, <3>3 DEF ControlInv
    <3> QED BY <1>0, <2>1, <3>2, <3>4 DEF ControlInv, DocInv
  <2>4. CASE closedControl = 0
    <3> DEFINE c == [kind |-> "ready", gen |-> generation]
    <3>1. c \in Control /\ c.gen = generation /\ c.kind = "ready"
      BY <1>4, <2>4, WakeAssumption DEF TakeControl, Control, HostType, DocInv
    <3>2. closedControl' = 0 /\ Route(c)
      BY <1>4, <2>4 DEF TakeControl
    <3> HIDE DEF c
    <3>3. ASSUME NEW n \in DOMAIN held'
          PROVE held'[n] = c \/ \E m \in DOMAIN held : held'[n] = held[m]
      BY <2>2, <3>1, <3>2, HoldEach DEF Route
    <3>4. \A n \in DOMAIN held' :
            /\ held'[n].gen <= generation
            /\ live /\ held'[n].kind = "closed" => held'[n].gen # generation
      BY <1>0, <3>1, <3>3 DEF ControlInv
    <3> QED BY <1>0, <2>1, <3>2, <3>4 DEF ControlInv, DocInv
  <2> QED BY <2>3, <2>4
<1>5. CASE TakeNothing
  BY <1>5, <1>b, FlushType DEF TakeNothing
<1>6. CASE HostDrain
  BY <1>6, <1>b DEF HostDrain, Pop
<1>7. CASE Produce
  BY <1>7, <1>b DEF Produce, Enqueue
<1>8. CASE \/ AttachWaker \/ Signal \/ Wake \/ Callback \/ Deliver \/ PageHello
           \/ PageControl \/ PageCloses \/ HostRespond \/ PageFrame
           \/ PageEmpty \/ PageRefused
  BY <1>8, <1>b DEF AttachWaker, Signal, Wake, Callback, Deliver, PageHello,
    PageControl, PageCloses, HostRespond, PageFrame, PageEmpty, PageRefused
<1> QED BY <1>1, <1>2, <1>3, <1>4, <1>5, <1>6, <1>7, <1>8
        DEF WakeNext, HostNext, UiNext, PageNext
\* Frames that are queued stay announced, or being pulled.
LEMMA FramesNext ==
  ASSUME HostType, UiType, PageType, DocInv, SessionInv, ControlInv, FramesInv,
         WakeNext
  PROVE FramesInv'
<1> USE DEF outboxVars, hostVars, uiVars, pageVars
<1>a. ASSUME UNCHANGED <<generation, held, mail>>,
             ~live' \/ page' = "failed" \/ length' = 0 \/ dirty'
             \/ pull' \in {"request", "popped", "frame", "refused"}
             \/ ready'
             \/ UNCHANGED <<live, length, page, ready, dirty, pull>>
      PROVE FramesInv'
  <2>1. CASE ~live' \/ page' = "failed" \/ length' = 0 \/ dirty' \/ ready'
             \/ pull' \in {"request", "popped", "frame", "refused"}
    BY <2>1 DEF FramesInv
  <2>2. CASE UNCHANGED <<live, length, page, ready, dirty, pull>>
    BY <1>a, <2>2 DEF FramesInv, Announces
  <2> QED BY <1>a, <2>1, <2>2
<1>b. ~live' => FramesInv'
  BY DEF FramesInv
<1>1. CASE HostRevoke \/ HostClose \/ DeliverUnsent \/ UiNavigate \/ UiClose
  BY <1>1, <1>b DEF HostRevoke, HostClose, DeliverUnsent, UiNavigate, UiClose,
                    Revoke, Navigate, Close, Discard
<1>2. CASE PageDisconnects
  <2>1. CASE live /\ ~closed
    BY <1>2, <1>b, <2>1 DEF PageDisconnects, Revoke, Discard
  <2>2. CASE ~(live /\ ~closed)
    BY <1>2, <1>a, <2>2 DEF PageDisconnects
  <2> QED BY <2>1, <2>2
<1>3. CASE HostAdmit
  <2>1. length' = 0
    BY <1>3 DEF HostAdmit, Admit
  <2> QED BY <2>1 DEF FramesInv
<1>4. CASE Produce
  \* the first frame is news; the others find the news on its way
  <2>1. UNCHANGED <<generation, held, mail, live, page, dirty, pull>>
        /\ (ready \/ length = 0 => ready') /\ length \in Nat
    <3>1. UNCHANGED <<generation, held, mail, live, page, dirty, pull>>
      BY <1>4 DEF Produce, Enqueue
    <3>2. ready \/ length = 0 => ready'
      BY <1>4 DEF Produce, BecomesReady
    <3>3. length \in Nat
      BY WakeAssumption DEF HostType
    <3> QED BY <3>1, <3>2, <3>3
  <2>2. CASE length = 0
    BY <1>a, <2>1, <2>2
  <2>3. CASE length # 0
    <3>1. length > 0
      BY <2>1, <2>3
    <3> QED BY <2>1, <3>1 DEF FramesInv, Announces
  <2> QED BY <2>2, <2>3
<1>5. CASE TakeControl
  <2>0. UNCHANGED <<generation, live, length, page, dirty, pull>>
    BY <1>5 DEF TakeControl
  <2> SUFFICES ASSUME live PROVE FramesInv'
    BY <1>b, <2>0
  <2>m. Announces(mail) /\ (session # 0 => \E t \in Seq(Control) : mail' = mail \o t)
          /\ (session = 0 => mail' = mail) => Announces(mail)'
    <3>1. ASSUME Announces(mail), NEW t \in Seq(Control), mail' = mail \o t
          PROVE Announces(mail)'
      <4>1. Announces(mail')
        BY <3>1, ConcatControls DEF PageType
      <4> QED BY <2>0, <4>1 DEF Announces
    <3>2. ASSUME Announces(mail), mail' = mail PROVE Announces(mail)'
      BY <2>0, <3>2 DEF Announces
    <3> QED BY <3>1, <3>2
  <2>1. CASE closedControl # 0
    \* the end of an older document: no announcement is held, none is lost
    <3> DEFINE c == [kind |-> "closed", gen |-> closedControl]
    <3>1. c \in Control /\ c.gen = closedControl
      BY <2>1, WakeAssumption DEF Control, HostType
    <3>2. UNCHANGED ready /\ Route(c)
      BY <1>5, <2>1 DEF TakeControl
    <3> HIDE DEF c
    <3>3. ~Announces(held)
      BY <2>1 DEF ControlInv
    <3>4. Announces(mail) => Announces(mail)'
      <4>1. session # 0 => \E t \in Seq(Control) : mail' = mail \o t
        <5>1. <<c>> \in Seq(Control) /\ Len(<<c>>) <= 2
          BY <3>1
        <5> QED BY <3>2, <5>1, PushedControls DEF Route, Push
      <4>2. session = 0 => mail' = mail
        BY <3>2 DEF Route, Hold
      <4> QED BY <2>m, <4>1, <4>2
    <3> QED BY <2>0, <3>2, <3>3, <3>4 DEF FramesInv
  <2>2. CASE closedControl = 0
    \* the announcement is held, or sent to the page whose session it is
    <3> DEFINE c == [kind |-> "ready", gen |-> generation]
    <3>1. c \in Control /\ c.gen = generation /\ c.kind = "ready"
      BY <2>2, WakeAssumption DEF Control, HostType, DocInv
    <3>2. Route(c)
      BY <1>5, <2>2 DEF TakeControl
    <3> HIDE DEF c
    <3>3. CASE session = 0
      <4>1. \E n \in DOMAIN held' : held'[n] = c
        BY <3>1, <3>2, <3>3, HoldEach DEF Route
      <4>2. Announces(held)'
        BY <2>0, <3>1, <4>1 DEF Announces
      <4> QED BY <4>2 DEF FramesInv
    <3>4. CASE session # 0
      <4>1. session = generation
        BY <3>4 DEF SessionInv
      <4>2. mail' = mail \o Pushed(<<c>>)
        BY <3>2, <3>4 DEF Route, Push
      <4>3. <<c>> \in Seq(Control) /\ Len(<<c>>) <= 2 /\ <<c>>[1] = c
            /\ DOMAIN <<c>> = {1}
        BY <3>1
      <4>4. Announces(<<c>>) /\ ~Closes(<<c>>)
        BY <3>1, <4>3 DEF Announces, Closes, Ends
      <4>5. Announces(mail')
        BY <4>1, <4>2, <4>3, <4>4, PushedControls, ConcatControls DEF PageType
      <4>6. Announces(mail)'
        BY <2>0, <4>5 DEF Announces
      <4> QED BY <4>6 DEF FramesInv
    <3> QED BY <3>3, <3>4
  <2> QED BY <2>1, <2>2
<1>6. CASE TakeNothing
  <2>0. UNCHANGED <<generation, live, length, page, dirty, pull, ready>> /\ Flush
    BY <1>6 DEF TakeNothing
  <2>1. CASE session = 0 \/ ~live
    BY <1>a, <1>b, <2>0, <2>1 DEF Flush
  <2>2. CASE session # 0 /\ live
    <3>1. session = generation /\ mail' = mail \o Pushed(held)
      BY <2>0, <2>2 DEF Flush, Push, SessionInv
    <3>2. ~Closes(held)
      BY <2>2, <3>1 DEF Closes, Ends, IsOurs, ControlInv
    <3>3. Announces(held) \/ Announces(mail) => Announces(mail')
      BY <3>1, <3>2, PushedControls, ConcatControls DEF UiType, PageType
    <3>4. Announces(held) \/ Announces(mail) => Announces(mail)'
      BY <2>0, <3>3 DEF Announces
    <3> QED BY <2>0, <3>4 DEF FramesInv
  <2> QED BY <2>1, <2>2
<1>7. CASE Deliver
  BY <1>7, <1>a DEF Deliver
<1>8. CASE PageHello
  <2>1. UNCHANGED <<generation, held, mail, live, length, ready>>
    BY <1>8 DEF PageHello
  <2>2. CASE page = "waiting" /\ dirty
    BY <1>8, <1>a, <2>1, <2>2 DEF PageHello, StartPull
  <2>3. CASE page = "waiting" /\ ~dirty
    BY <1>8, <2>1, <2>3 DEF PageHello, FramesInv, Announces
  <2>4. CASE page # "waiting"
    BY <1>8, <1>a, <2>1, <2>4 DEF PageHello
  <2> QED BY <2>2, <2>3, <2>4
<1>9. CASE PageControl
  <2>1. UNCHANGED <<generation, held, live, length, ready>>
    BY <1>9 DEF PageControl
  <2>2. page' = "failed" \/ dirty' \/ pull' = "request"
    BY <1>9 DEF PageControl, Fail, StartPull
  <2> QED BY <2>1, <2>2 DEF FramesInv
<1>10. CASE PageCloses \/ PageRefused
  BY <1>10, <1>a DEF PageCloses, PageRefused, Fail
<1>11. CASE HostDrain
  <2>1. UNCHANGED <<generation, held, mail>>
    BY <1>11 DEF HostDrain, Pop
  <2>2. length' = 0 \/ pull' \in {"popped", "refused"}
    BY <1>11, WakeAssumption DEF HostDrain, HostType
  <2> QED BY <1>a, <2>1, <2>2
<1>12. CASE HostRespond
  <2>1. UNCHANGED <<generation, held, mail, live, length, page, ready, dirty>>
    BY <1>12 DEF HostRespond
  <2>2. pull = "none" \/ pull' \in {"frame", "refused"}
    BY <1>12 DEF HostRespond
  <2> QED BY <2>1, <2>2 DEF FramesInv, Announces
<1>13. CASE PageFrame
  BY <1>13, <1>a DEF PageFrame
<1>14. CASE PageEmpty
  <2>1. /\ UNCHANGED <<generation, held, mail, live, length, page, ready>>
        /\ pull = "empty" /\ (dirty => pull' = "request")
    BY <1>14 DEF PageEmpty
  <2> QED BY <2>1 DEF FramesInv, Announces
<1>15. CASE AttachWaker \/ Signal \/ Wake \/ Callback
  BY <1>15, <1>a DEF AttachWaker, Signal, Wake, Callback
<1> QED BY <1>1, <1>2, <1>3, <1>4, <1>5, <1>6, <1>7, <1>8, <1>9, <1>10, <1>11,
           <1>12, <1>13, <1>14, <1>15 DEF WakeNext, HostNext, UiNext, PageNext
\* Whoever makes news, or takes the wake-up that would have carried it, leaves
\* somebody on the way to it.
LEMMA WakesNext ==
  ASSUME HostType, DocInv, WakesInv, WakeNext
  PROVE WakesInv'
<1> USE DEF outboxVars, hostVars, uiVars
<1>a. ASSUME ~wakePending', signalling' PROVE WakesInv'
  BY <1>a DEF WakesInv
<1>b. closed' => WakesInv'
  BY DEF WakesInv
<1>c. ASSUME UNCHANGED <<closed, live, waker, wakePending, closedControl, ready,
                         signalling, waking>>,
             (queued \/ looping) => (queued' \/ looping')
      PROVE WakesInv'
  BY <1>c DEF WakesInv, HasNews
<1>1. CASE HostRevoke \/ DeliverUnsent \/ UiNavigate
  BY <1>1, <1>a DEF HostRevoke, DeliverUnsent, UiNavigate, RetireWake
<1>2. CASE HostClose \/ UiClose
  BY <1>2, <1>b DEF HostClose, UiClose, Close
<1>3. CASE PageDisconnects
  <2>1. CASE live /\ ~closed
    BY <1>3, <1>a, <2>1 DEF PageDisconnects, RetireWake
  <2>2. CASE ~(live /\ ~closed)
    BY <1>3, <1>c, <2>2 DEF PageDisconnects
  <2> QED BY <2>1, <2>2
<1>4. CASE HostAdmit
  <2>1. /\ UNCHANGED <<closed, waker, wakePending, closedControl, ready,
                       signalling, waking, queued, looping>>
        /\ (live' => (ready => live))
    BY <1>4 DEF HostAdmit, Admit, DocInv
  <2> QED BY <2>1 DEF WakesInv, HasNews, DocInv
<1>5. CASE AttachWaker \/ Produce
  <2>1. signalling' /\ UNCHANGED <<closed, wakePending, waking, queued, looping>>
    BY <1>5 DEF AttachWaker, Produce, Enqueue
  <2> QED BY <2>1 DEF WakesInv
<1>6. CASE Signal
  <2>1. UNCHANGED <<closed, live, waker, closedControl, ready, queued, looping>>
    BY <1>6 DEF Signal
  <2>2. CASE ~closed /\ ~wakePending /\ HasNews /\ waker
    BY <1>6, <2>2 DEF Signal, WakesInv
  <2>3. CASE ~(~closed /\ ~wakePending /\ HasNews /\ waker)
    BY <1>6, <2>1, <2>3 DEF Signal, WakesInv, HasNews
  <2> QED BY <2>2, <2>3
<1>7. CASE Wake
  BY <1>7 DEF Wake, WakesInv
<1>8. CASE Callback
  BY <1>8, <1>c DEF Callback
<1>9. CASE TakeControl
  BY <1>9 DEF TakeControl, WakesInv
<1>10. CASE TakeNothing
  <2>1. /\ UNCHANGED <<closed, live, waker, closedControl, ready, signalling>>
        /\ closed \/ ~HasNews
        /\ wakePending' => closed
    BY <1>10 DEF TakeNothing
  <2> QED BY <2>1 DEF WakesInv, HasNews
<1>11. CASE Deliver
  BY <1>11, <1>c DEF Deliver
<1>12. CASE HostDrain
  BY <1>12, <1>c DEF HostDrain, Pop
<1>13. CASE \/ PageHello \/ PageControl \/ PageCloses \/ HostRespond
            \/ PageFrame \/ PageEmpty \/ PageRefused
  BY <1>13, <1>c DEF PageHello, PageControl, PageCloses, HostRespond,
                     PageFrame, PageEmpty, PageRefused
<1> QED BY <1>1, <1>2, <1>3, <1>4, <1>5, <1>6, <1>7, <1>8, <1>9, <1>10, <1>11,
           <1>12, <1>13 DEF WakeNext, HostNext, UiNext, PageNext

\* A session that comes while announcements are held finds a wake-up queued.
LEMMA HeldNext ==
  ASSUME HostType, UiType, PageType, DocInv, SessionInv, ControlInv, HeldInv,
         WakeNext
  PROVE HeldInv'
<1> USE DEF outboxVars, hostVars, uiVars
<1>a. ASSUME generation' = generation, held' = held,
             session' \in {0, session}, (queued \/ looping) => (queued' \/ looping')
      PROVE HeldInv'
  BY <1>a DEF HeldInv, Announces
<1>b. held' = <<>> \/ queued' \/ looping' \/ session' = 0 => HeldInv'
  BY DEF HeldInv, Announces
<1>1. CASE HostRevoke \/ HostClose
  <2>1. UNCHANGED <<generation, held, session, queued, looping>>
    BY <1>1 DEF HostRevoke, HostClose, Revoke, Close, Discard
  <2> QED BY <1>a, <2>1
<1>2. CASE PageDisconnects
  <2>1. CASE session' = 0
    BY <1>b, <2>1
  <2>2. CASE session' # 0
    BY <1>2, <1>a, <2>2 DEF PageDisconnects, Revoke, Discard
  <2> QED BY <2>1, <2>2
<1>3. CASE HostAdmit
  <2>1. session' = 0
    BY <1>3 DEF HostAdmit, Admit, SessionInv
  <2> QED BY <1>b, <2>1
<1>4. CASE TakeControl \/ Deliver \/ DeliverUnsent \/ UiNavigate \/ UiClose \/ Wake
  <2>1. held' = <<>> \/ queued' \/ looping'
    <3>1. CASE TakeControl
      BY <3>1 DEF TakeControl
    <3>2. CASE Deliver \/ DeliverUnsent \/ Wake
      BY <3>2 DEF Deliver, DeliverUnsent, Wake
    <3>3. CASE UiNavigate \/ UiClose
      BY <3>3 DEF UiNavigate, UiClose
    <3> QED BY <1>4, <3>1, <3>2, <3>3
  <2> QED BY <1>b, <2>1
<1>5. CASE TakeNothing
  <2>1. CASE session = 0
    BY <1>5, <1>b, <2>1 DEF TakeNothing, Flush
  <2>2. CASE session # 0
    BY <1>5, <1>b, <2>2 DEF TakeNothing, Flush, Push
  <2> QED BY <2>1, <2>2
<1>6. CASE HostDrain
  BY <1>6, <1>a DEF HostDrain, Pop
<1>7. CASE Produce
  BY <1>7, <1>a DEF Produce, Enqueue
<1>8. CASE \/ AttachWaker \/ Signal \/ Callback \/ PageHello \/ PageControl
           \/ PageCloses \/ HostRespond \/ PageFrame \/ PageEmpty \/ PageRefused
  BY <1>8, <1>a DEF AttachWaker, Signal, Callback, PageHello, PageControl,
                    PageCloses, HostRespond, PageFrame, PageEmpty, PageRefused
<1> QED BY <1>1, <1>2, <1>3, <1>4, <1>5, <1>6, <1>7, <1>8
        DEF WakeNext, HostNext, UiNext, PageNext

\* The guard of a pull is dropped before its answer reaches the page.
LEMMA PullNext ==
  ASSUME HostType, PageType, DocInv, SessionInv, PullInv, WakeNext
  PROVE PullInv'
<1> USE DEF outboxVars, hostVars, uiVars, pageVars
<1>a. UNCHANGED <<inflight, page, pull>> => PullInv'
  BY DEF PullInv
<1>b. ~inflight' \/ page' = "failed" => PullInv'
  BY DEF PullInv
<1>1. CASE HostRevoke \/ HostClose \/ DeliverUnsent \/ UiNavigate \/ UiClose
  BY <1>1, <1>b DEF HostRevoke, HostClose, DeliverUnsent, UiNavigate, UiClose,
                    RetireWake
<1>2. CASE PageDisconnects
  <2>1. CASE live /\ ~closed
    BY <1>2, <1>b, <2>1 DEF PageDisconnects, RetireWake
  <2>2. CASE ~(live /\ ~closed)
    BY <1>2, <1>a, <2>2 DEF PageDisconnects
  <2> QED BY <2>1, <2>2
<1>3. CASE Deliver
  <2>1. /\ UNCHANGED <<inflight, pull>> /\ page' \in {page, "failed"}
    BY <1>3 DEF Deliver
  <2> QED BY <2>1 DEF PullInv
<1>4. CASE PageHello
  <2>1. UNCHANGED inflight
    BY <1>4 DEF PageHello
  <2>2. CASE page = "waiting"
    <3>1. pull = "idle"
      BY <2>2 DEF SessionInv
    <3> QED BY <1>b, <2>1, <2>2, <3>1 DEF PullInv
  <2>3. CASE page # "waiting"
    BY <1>4, <1>a, <2>1, <2>3 DEF PageHello
  <2> QED BY <2>2, <2>3
<1>5. CASE PageControl
  <2>1. UNCHANGED inflight
    BY <1>5 DEF PageControl
  <2>2. page' = "failed" \/ UNCHANGED pull \/ pull = "idle"
    BY <1>5 DEF PageControl, Fail, StartPull
  <2>3. page' = "failed" \/ page # "failed"
    BY <1>5 DEF PageControl
  <2> QED BY <1>b, <2>1, <2>2, <2>3 DEF PullInv
<1>6. CASE PageCloses \/ PageRefused
  BY <1>6, <1>b DEF PageCloses, PageRefused, Fail
<1>7. CASE HostDrain
  <2>1. CASE pull' \in {"popped", "none"}
    BY <2>1 DEF PullInv
  <2>2. CASE pull' = "refused"
    <3>1. inflight' = inflight /\ pull = "request"
      BY <1>7, <2>2 DEF HostDrain
    <3>2. page = "open"
      BY <3>1 DEF SessionInv
    <3> QED BY <1>b, <3>1, <3>2 DEF PullInv
  <2> QED BY <1>7, <2>1, <2>2 DEF HostDrain
<1>8. CASE HostRespond
  <2>1. CASE live /\ ~closed
    BY <1>8, <1>b, <2>1 DEF HostRespond
  <2>2. CASE ~live \/ closed
    BY <1>8, <1>b, <2>2 DEF HostRespond, DocInv
  <2> QED BY <2>1, <2>2
<1>9. CASE PageFrame \/ PageEmpty
  BY <1>9 DEF PageFrame, PageEmpty, PullInv
<1>10. CASE \/ AttachWaker \/ Produce \/ Signal \/ Wake \/ HostAdmit
            \/ Callback \/ TakeControl \/ TakeNothing
  BY <1>10, <1>a DEF AttachWaker, Produce, Signal, Wake, HostAdmit, Callback,
                     TakeControl, TakeNothing
<1> QED BY <1>1, <1>2, <1>3, <1>4, <1>5, <1>6, <1>7, <1>8, <1>9, <1>10
        DEF WakeNext, HostNext, UiNext, PageNext

-----------------------------------------------------------------------------
(* Theorems *)

\* The invariant holds throughout every behaviour.
LEMMA WakeAlways == WakeSpec => []WakeInv
<1>1. WakeInit => WakeInv
  <2> SUFFICES ASSUME WakeInit PROVE WakeInv
    OBVIOUS
  <2>1. TypeOK
    BY NothingType DEF WakeInit, Init, TypeOK, Pull
  <2>2. DocInv /\ SessionInv /\ PullInv
    BY DEF WakeInit, Init, DocInv, SessionInv, PullInv
  <2>3. ControlInv /\ FramesInv /\ HeldInv
    BY DEF WakeInit, Init, ControlInv, FramesInv, HeldInv, Announces
  <2>4. WakesInv
    BY DEF WakeInit, Init, WakesInv, HasNews
  <2> QED BY <2>1, <2>2, <2>3, <2>4 DEF WakeInv
<1>2. WakeInv /\ [WakeNext]_vars => WakeInv'
  <2> SUFFICES ASSUME WakeInv, [WakeNext]_vars PROVE WakeInv'
    OBVIOUS
  <2>0. HostType /\ UiType /\ PageType
    BY TypeParts DEF WakeInv
  <2>1. CASE WakeNext
    <3>1. TypeOK'
      <4>1. HostType' /\ UiType' /\ PageType'
        BY <2>0, <2>1, HostTypeNext, UiTypeNext, PageTypeNext DEF WakeInv
      <4> QED BY <4>1 DEF TypeOK, HostType, UiType, PageType
    <3>2. DocInv' /\ SessionInv' /\ ControlInv'
      BY <2>0, <2>1, DocNext, SessionNext, ControlNext DEF WakeInv
    <3>3. FramesInv' /\ WakesInv'
      BY <2>0, <2>1, FramesNext, WakesNext DEF WakeInv
    <3>4. HeldInv' /\ PullInv'
      BY <2>0, <2>1, HeldNext, PullNext DEF WakeInv
    <3> QED BY <3>1, <3>2, <3>3, <3>4 DEF WakeInv
  <2>2. CASE UNCHANGED vars
    <3> USE <2>2 DEF vars, outboxVars, hostVars, uiVars, pageVars
    <3>1. TypeOK'
      <4>1. HostType' /\ UiType' /\ PageType'
        BY <2>0 DEF HostType, UiType, PageType
      <4> QED BY <4>1 DEF TypeOK, HostType, UiType, PageType
    <3>2. DocInv' /\ SessionInv' /\ PullInv' /\ WakesInv'
      BY DEF WakeInv, DocInv, SessionInv, PullInv, WakesInv, HasNews
    <3>3. ControlInv' /\ FramesInv' /\ HeldInv'
      BY DEF WakeInv, ControlInv, FramesInv, HeldInv, Announces
    <3> QED BY <3>1, <3>2, <3>3 DEF WakeInv
  <2> QED BY <2>1, <2>2
<1> QED BY <1>1, <1>2, PTL DEF WakeSpec

\* Engine, adapter and page keep the wake-up state well-typed; no more than
\* two controls are ever held.
THEOREM WakeTypeCorrect == WakeSpec => []TypeOK
<1>1. WakeInv => TypeOK
  BY DEF WakeInv
<1> QED BY <1>1, WakeAlways, PTL

\* No wake-up is lost between signal(), the idle callback, drain and the
\* page's pull, for any number of documents and frames and any order of the
\* threads.
THEOREM WakesNotLost == WakeSpec => []NoLostWake
<1>1. WakeInv => NoLostWake
  BY DEF WakeInv, FramesInv, WakesInv, HeldInv, NoLostWake
<1> QED BY <1>1, WakeAlways, PTL

\* drain never refuses the page's pull because another one is in flight.
THEOREM PullsAlone == WakeSpec => []PullIsAlone
<1>1. WakeInv => PullIsAlone
  BY DEF WakeInv, PullInv, SessionInv, PullIsAlone
<1> QED BY <1>1, WakeAlways, PTL
=============================================================================





------------------------------- MODULE IpcWake -------------------------------
(***************************************************************************)
(* How queued frames, and the end of a document, reach the page: the wake  *)
(* fields of the host engine (ipc/engine.rs signal, ipc/bridge.rs          *)
(* take_control and drain), the GTK adapter that forwards controls         *)
(* (linux/ipc.rs, linux/ipc_wake.rs, linux/ipc_message.rs) and the page's  *)
(* transport (packages/webui-desktop/src/transport.ts).                    *)
(*                                                                         *)
(* The host's queue is IpcOutbox; the calls and handlers that fill it are  *)
(* IpcEngine's.  Every critical section of the host, every callback of the *)
(* UI thread and every turn of the page's event loop is one action; the    *)
(* UI thread's take_control loop is one action per iteration, because      *)
(* other threads run between two of them.                                  *)
(*                                                                         *)
(* Abstractions.  Several threads may be about to call signal() or wake(): *)
(* a flag says that at least one is, and stays set or not by choice when   *)
(* one has.  GtkWake.alive is dropped: it is cleared by the close() that   *)
(* also closes the engine.  A page lives from one navigation to the next,  *)
(* so a navigation replaces the page together with its messages.           *)
(***************************************************************************)
EXTENDS IpcOutbox, Sequences

CONSTANTS
  MaxGeneration,  \* bound: documents admitted
  MaxProduced     \* bound: frames queued per document

ASSUME WakeAssumption == MaxGeneration \in Nat /\ MaxProduced \in Nat

VARIABLES
  produced,       \* frames queued for this document (bound only)
  \* --- host: State and Document ---
  waker,          \* State.waker.is_some()
  wakePending,    \* State.wake_pending
  closedControl,  \* State.closed_control: the generation it names, or 0
  ready,          \* Document.ready
  inflight,       \* Document.drain_inflight
  signalling,     \* some thread is about to call signal()
  waking,         \* some thread left signal() and is about to call wake()
  \* --- GTK adapter, on the UI thread ---
  queued,         \* GtkWake.queued: an idle callback is scheduled
  looping,        \* the UI thread is inside drain's take_control loop
  offer,          \* the generation an admission future holds, or 0
  session,        \* GtkIpc.session: its generation, or 0
  held,           \* GtkIpc.pending_controls
  \* --- page ---
  page,           \* "waiting" for hello's reply, "open" or "failed"
  hello,          \* the generation in the reply on its way, or 0
  mail,           \* control scripts on their way
  dirty,          \* transport.dirty
  pull,           \* the GET in progress, "idle" when not draining
  bye             \* a disconnect message is on its way

hostVars == <<waker, wakePending, closedControl, ready, inflight, signalling,
              waking, produced>>
uiVars == <<queued, looping, offer, session, held>>
pageVars == <<page, hello, mail, dirty, pull, bye>>
vars == <<outboxVars, hostVars, uiVars, pageVars>>

Control == [kind : {"ready", "closed"}, gen : 1 .. MaxGeneration]
\* request: sent, not yet at the host; popped, none: the host answered with a
\* frame or with 204 and still holds the guard; frame, empty: the answer is on
\* its way; refused: an error is
Pull == {"idle", "request", "popped", "none", "frame", "empty", "refused"}

WakeInit ==
  /\ Init
  /\ produced = 0 /\ waker = FALSE /\ wakePending = FALSE /\ closedControl = 0
  /\ ready = FALSE /\ inflight = FALSE /\ signalling = FALSE /\ waking = FALSE
  /\ queued = FALSE /\ looping = FALSE /\ offer = 0 /\ session = 0
  /\ held = <<>>
  /\ page = "waiting" /\ hello = 0 /\ mail = <<>> /\ dirty = FALSE
  /\ pull = "idle" /\ bye = FALSE

-----------------------------------------------------------------------------
(* Host *)

\* attach_waker: the adapter installs its wake source once.
AttachWaker ==
  /\ ~closed /\ ~waker
  /\ waker' = TRUE /\ signalling' = TRUE
  /\ UNCHANGED <<outboxVars, wakePending, closedControl, ready, inflight,
                 waking, produced, uiVars, pageVars>>

\* Mutant of BecomesReady: only the frame after the first announces itself.
BecomesReadyLate == ready \/ length = 1

\* enqueue_data and enqueue_control: ready |= queue.is_empty()
BecomesReady == ready \/ length = 0

\* A frame is queued; its producer will call signal().
Produce ==
  /\ produced < MaxProduced
  /\ Enqueue
  /\ produced' = produced + 1
  /\ ready' = BecomesReady
  /\ signalling' = TRUE
  /\ UNCHANGED <<waker, wakePending, closedControl, inflight, waking, uiVars,
                 pageVars>>

\* Mutant of HasNews: the end of a document is not announced.
HasReadyNews == live /\ ready

\* signal's test that there is something to announce
HasNews == closedControl # 0 \/ (live /\ ready)

Signal ==
  /\ signalling /\ signalling' \in BOOLEAN
  /\ IF ~closed /\ ~wakePending /\ HasNews /\ waker
     THEN wakePending' = TRUE /\ waking' = TRUE
     ELSE UNCHANGED <<wakePending, waking>>
  /\ UNCHANGED <<outboxVars, waker, closedControl, ready, inflight, produced,
                 uiVars, pageVars>>

\* GtkWake::wake, after signal() unlocked
Wake ==
  /\ waking /\ waking' \in BOOLEAN
  /\ queued' = TRUE
  /\ UNCHANGED <<outboxVars, waker, wakePending, closedControl, ready,
                 inflight, signalling, produced, looping, offer, session,
                 held, pageVars>>

\* What retire_matching does to the wake fields, whatever ended the document
RetireWake(terminal) ==
  /\ closedControl' = IF live THEN generation ELSE closedControl
  /\ wakePending' = FALSE /\ ready' = FALSE /\ inflight' = FALSE
  /\ produced' = 0
  /\ waker' = (waker /\ ~terminal)
  /\ signalling' = (signalling \/ ~terminal)
  /\ UNCHANGED waking

\* The host ends the document by itself (an AdmissionDelivery dropped, the
\* ids exhausted).
HostRevoke ==
  /\ live /\ Revoke
  /\ RetireWake(FALSE)
  /\ UNCHANGED <<uiVars, pageVars>>

\* IpcWindowOwner::close or its drop, on whatever thread owns the window
HostClose ==
  /\ Close
  /\ RetireWake(TRUE)
  /\ UNCHANGED <<uiVars, pageVars>>

\* The worker admits the page's hello; the result travels to the UI thread.
HostAdmit ==
  /\ generation < MaxGeneration
  /\ waker /\ page = "waiting"
  /\ Admit
  /\ offer' = generation'
  /\ UNCHANGED <<hostVars, queued, looping, session, held, pageVars>>

-----------------------------------------------------------------------------
(* GTK adapter: UI thread.  looping keeps its callbacks apart. *)

\* The idle callback clears GtkWake.queued, then drains.
Callback ==
  /\ queued /\ ~looping
  /\ queued' = FALSE /\ looping' = TRUE
  /\ UNCHANGED <<outboxVars, hostVars, offer, session, held, pageVars>>

\* push_control: the session's own controls go to the page, until one of them
\* closes it.  A batch is one control, or the two that may be held.
IsOurs(c) == c.gen = session
Ends(c) == IsOurs(c) /\ c.kind = "closed"
Own(c) == IF IsOurs(c) THEN <<c>> ELSE <<>>
Pushed(batch) ==
  IF batch = <<>> THEN <<>>
  ELSE Own(batch[1]) \o
         IF Len(batch) = 1 \/ Ends(batch[1]) THEN <<>> ELSE Own(batch[2])
Closes(batch) == \E n \in DOMAIN batch : Ends(batch[n])

\* push_control and, after a Closed, disconnected; else the list is kept or,
\* at the end of drain, taken.
Push(batch, rest) ==
  /\ mail' = mail \o Pushed(batch)
  /\ session' = IF Closes(batch) THEN 0 ELSE session
  /\ held' = IF Closes(batch) THEN <<>> ELSE rest

\* Without a session the control is held, the oldest of two making room.
Hold(control) ==
  /\ held' = Append(IF Len(held) = 2 THEN Tail(held) ELSE held, control)
  /\ UNCHANGED <<session, mail>>

Route(control) ==
  IF session = 0 THEN Hold(control) ELSE Push(<<control>>, held)

\* One iteration of drain's loop that finds a control
TakeControl ==
  /\ looping /\ ~closed /\ HasNews
  /\ wakePending' = FALSE
  /\ \/ /\ closedControl # 0
        /\ closedControl' = 0
        /\ Route([kind |-> "closed", gen |-> closedControl])
        /\ UNCHANGED ready
     \/ /\ closedControl = 0 /\ live /\ ready
        /\ ready' = FALSE
        /\ Route([kind |-> "ready", gen |-> generation])
        /\ UNCHANGED closedControl
  /\ UNCHANGED <<outboxVars, waker, inflight, signalling, waking, produced,
                 queued, looping, offer, page, hello, dirty, pull, bye>>

\* The end of drain: what was held for the session goes out.
Flush == IF session # 0 THEN Push(held, <<>>)
                        ELSE UNCHANGED <<session, held, mail>>

\* The iteration that finds none
TakeNothing ==
  /\ looping /\ (closed \/ ~HasNews)
  /\ wakePending' = (wakePending /\ closed)
  /\ looping' = FALSE
  /\ Flush
  /\ UNCHANGED <<outboxVars, waker, closedControl, ready, inflight,
                 signalling, waking, produced, queued, offer, page, hello,
                 dirty, pull, bye>>

\* The admission task gets its result: a session whose document is still
\* there is stored, announced to the page and followed by a wake().
Deliver ==
  /\ ~looping /\ offer # 0 /\ offer' = 0
  /\ queued' = TRUE
  /\ IF ~closed /\ live /\ generation = offer
     THEN session' = offer /\ hello' = offer /\ UNCHANGED page
     ELSE page' = "failed" /\ UNCHANGED <<session, hello>>
  /\ UNCHANGED <<outboxVars, hostVars, looping, held, mail, dirty, pull, bye>>

\* The reply cannot be sent: the session is disconnected, and its Closed will
\* clear it; the page is left to its own timeout.
DeliverUnsent ==
  /\ ~looping /\ offer # 0 /\ offer' = 0
  /\ live /\ generation = offer /\ Revoke
  /\ RetireWake(FALSE)
  /\ queued' = TRUE /\ session' = offer
  /\ UNCHANGED <<looping, held, pageVars>>

\* The page's disconnect message: disconnect_authenticated, then disconnected
PageDisconnects ==
  /\ ~looping /\ bye /\ bye' = FALSE
  /\ IF live /\ ~closed
     THEN /\ Revoke
          /\ RetireWake(FALSE)
          /\ session' = IF session = generation THEN 0 ELSE session
          /\ held' = IF session = generation THEN <<>> ELSE held
     ELSE UNCHANGED <<outboxVars, hostVars, session, held>>
  /\ UNCHANGED <<queued, looping, offer, page, hello, mail, dirty, pull>>

NewPage ==
  /\ page' = "waiting" /\ hello' = 0 /\ mail' = <<>> /\ dirty' = FALSE
  /\ pull' = "idle" /\ bye' = FALSE

\* GtkIpc::navigate, for a load or a failed admission
UiNavigate ==
  /\ ~looping
  /\ Navigate
  /\ RetireWake(FALSE)
  /\ offer' = 0 /\ session' = 0 /\ held' = <<>>
  /\ NewPage
  /\ UNCHANGED <<queued, looping>>

UiClose ==
  /\ ~looping
  /\ Close
  /\ RetireWake(TRUE)
  /\ offer' = 0 /\ session' = 0 /\ held' = <<>>
  /\ page' = "failed" /\ hello' = 0 /\ mail' = <<>> /\ dirty' = FALSE
  /\ pull' = "idle" /\ bye' = FALSE
  /\ UNCHANGED <<queued, looping>>

-----------------------------------------------------------------------------
(* Page: the transport and the pull it drives *)

\* drain() up to its first await, or the mark that another round is due
StartPull == IF page' = "open" /\ pull = "idle"
             THEN pull' = "request" /\ dirty' = FALSE
             ELSE dirty' = TRUE /\ UNCHANGED pull

\* hello's reply: the transport has its session and pulls if it was told to.
PageHello ==
  /\ hello # 0 /\ hello' = 0
  /\ IF page = "waiting"
     THEN /\ page' = "open"
          /\ IF dirty THEN StartPull ELSE UNCHANGED <<dirty, pull>>
          /\ UNCHANGED bye
     ELSE bye' = TRUE /\ UNCHANGED <<page, dirty, pull>>
  /\ UNCHANGED <<outboxVars, hostVars, uiVars, mail>>

\* close(): the pull is aborted and, with a session, a disconnect posted.  (A
\* guard it leaves behind guards nothing: this document pulls no more.)
Fail == page' = "failed" /\ pull' = "idle" /\ dirty' = FALSE
        /\ bye' = (bye \/ page = "open")

\* The control listener
PageControl ==
  /\ mail # <<>> /\ mail' = Tail(mail)
  /\ CASE page = "failed" -> UNCHANGED <<page, dirty, pull, bye>>
       [] Head(mail).kind = "closed" /\ page # "failed" -> Fail
       [] OTHER -> UNCHANGED <<page, bye>> /\ StartPull
  /\ UNCHANGED <<outboxVars, hostVars, uiVars, hello>>

\* The application closes its connection, or the handshake times out.
PageCloses ==
  /\ page # "failed" /\ ~closed
  /\ Fail
  /\ UNCHANGED <<outboxVars, hostVars, uiVars, hello, mail>>

\* The GET reaches the host: drain pops a frame, finds none, or refuses.
HostDrain ==
  /\ pull = "request"
  /\ \/ /\ live /\ ~closed /\ ~inflight
        /\ inflight' = TRUE
        /\ IF length > 0 THEN Pop /\ pull' = "popped"
                         ELSE UNCHANGED outboxVars /\ pull' = "none"
     \/ /\ ~live \/ closed \/ inflight
        /\ pull' = "refused"
        /\ UNCHANGED <<outboxVars, inflight>>
  /\ UNCHANGED <<waker, wakePending, closedControl, ready, signalling, waking,
                 produced, uiVars, page, hello, mail, dirty, bye>>

\* Mutant of HostRespond: the guard is not dropped.
HostRespondKeeps ==
  /\ pull \in {"popped", "none"}
  /\ pull' = CASE ~live \/ closed -> "refused"
               [] live /\ ~closed /\ pull = "popped" -> "frame"
               [] OTHER -> "empty"
  /\ UNCHANGED <<outboxVars, hostVars, uiVars, page, hello, mail, dirty, bye>>

\* The response future completes and drops its DrainGuard.
HostRespond ==
  /\ pull \in {"popped", "none"}
  /\ IF live /\ ~closed
     THEN /\ inflight' = FALSE
          /\ pull' = IF pull = "popped" THEN "frame" ELSE "empty"
     ELSE pull' = "refused" /\ UNCHANGED inflight
  /\ UNCHANGED <<outboxVars, waker, wakePending, closedControl, ready,
                 signalling, waking, produced, uiVars, page, hello, mail,
                 dirty, bye>>

\* A frame was received: the inner loop asks for the next one.
PageFrame ==
  /\ pull = "frame" /\ pull' = "request"
  /\ UNCHANGED <<outboxVars, hostVars, uiVars, page, hello, mail, dirty, bye>>

\* Mutant of PageEmpty: a control that arrived during the pull is forgotten.
PageEmptyForgets ==
  /\ pull = "empty"
  /\ pull' = "idle" /\ dirty' = FALSE
  /\ UNCHANGED <<outboxVars, hostVars, uiVars, page, hello, mail, bye>>

\* Nothing left: draining ends, unless a control arrived meanwhile.
PageEmpty ==
  /\ pull = "empty"
  /\ pull' = (IF dirty THEN "request" ELSE "idle") /\ dirty' = FALSE
  /\ UNCHANGED <<outboxVars, hostVars, uiVars, page, hello, mail, bye>>

\* The pull failed: the transport closes.
PageRefused ==
  /\ pull = "refused"
  /\ Fail
  /\ UNCHANGED <<outboxVars, hostVars, uiVars, hello, mail>>

-----------------------------------------------------------------------------
HostNext == AttachWaker \/ Produce \/ Signal \/ Wake \/ HostRevoke
            \/ HostClose \/ HostAdmit
UiNext == \/ Callback \/ TakeControl \/ TakeNothing \/ Deliver \/ DeliverUnsent
          \/ PageDisconnects \/ UiNavigate \/ UiClose
PageNext == \/ PageHello \/ PageControl \/ PageCloses \/ HostDrain
            \/ HostRespond \/ PageFrame \/ PageEmpty \/ PageRefused

WakeNext == HostNext \/ UiNext \/ PageNext

\* Threads inside the engine, the UI thread's loop and the page's event loop
\* run on; nobody has to produce, navigate, close or admit anything.
WakeFairness ==
  /\ WF_vars(Signal) /\ WF_vars(Wake)
  /\ WF_vars(Callback) /\ WF_vars(TakeControl \/ TakeNothing)
  /\ WF_vars(Deliver) /\ WF_vars(PageHello) /\ WF_vars(PageControl)
  /\ WF_vars(HostDrain) /\ WF_vars(HostRespond)
  /\ WF_vars(PageFrame \/ PageEmpty \/ PageRefused)

WakeSpec == WakeInit /\ [][WakeNext]_vars /\ WakeFairness

-----------------------------------------------------------------------------
(* Properties *)

TypeOK ==
  /\ closed \in BOOLEAN /\ admitted \in BOOLEAN /\ live \in BOOLEAN
  /\ generation \in 0 .. MaxGeneration /\ length \in 0 .. MaxProduced
  /\ produced \in 0 .. MaxProduced
  /\ waker \in BOOLEAN /\ wakePending \in BOOLEAN /\ ready \in BOOLEAN
  /\ inflight \in BOOLEAN /\ signalling \in BOOLEAN /\ waking \in BOOLEAN
  /\ closedControl \in 0 .. MaxGeneration
  /\ queued \in BOOLEAN /\ looping \in BOOLEAN
  /\ offer \in 0 .. MaxGeneration /\ session \in 0 .. MaxGeneration
  /\ held \in Seq(Control) /\ Len(held) <= 2 /\ mail \in Seq(Control)
  /\ page \in {"waiting", "open", "failed"} /\ hello \in 0 .. MaxGeneration
  /\ dirty \in BOOLEAN /\ pull \in Pull /\ bye \in BOOLEAN

Announces(s) == \E n \in DOMAIN s : s[n].kind = "ready" /\ s[n].gen = generation

\* While frames are queued, the news of them is somewhere on its way to the
\* page or the page is pulling; and news at the host has a thread, a callback
\* or a wake in flight that will move it.  One missing link, in any order of
\* the threads, and the frames would wait for the next one.
NoLostWake ==
  /\ live /\ length > 0 /\ page # "failed" =>
       ready \/ Announces(held) \/ Announces(mail) \/ dirty \/ pull # "idle"
  /\ HasNews /\ waker /\ ~closed =>
       signalling \/ waking \/ queued \/ looping
  /\ Announces(held) /\ session # 0 => queued \/ looping

\* The page's pull never finds another one in flight: it would be refused as
\* overloaded and take the whole connection down.
PullIsAlone == pull = "request" /\ live => ~inflight

\* Queued frames reach the page, however the threads are scheduled.
Delivered ==
  live /\ length > 0 /\ page = "open" ~> length = 0 \/ ~live \/ page # "open"

\* A page whose document the host has ended learns of it, unless the window
\* goes as well.
ClosedTold == page = "open" /\ ~live ~> page # "open" \/ closed
=============================================================================

---------------------------- MODULE IpcAdmission ----------------------------
(***************************************************************************)
(* How a document gets its IPC session: the engine's two-step admission    *)
(* (ipc/admission.rs), the document epochs of the native adapter           *)
(* (document.rs), the GTK adapter that probes, activates and admits the    *)
(* committed page (linux/ipc.rs, linux/ipc_message.rs), and the            *)
(* applications that wait for a session (ipc/session.rs, ready).           *)
(*                                                                         *)
(* Three parties interleave: the UI thread, the worker that consumes the   *)
(* proof, and the threads of the application.  A callback of the UI thread *)
(* is one step: it enters the engine's lock once (Receive twice, the first *)
(* time to read), other threads read nothing else it changes but whether a *)
(* receiver is alive, and a receiver dropped a little later finds the same *)
(* stages it would have found earlier, Undo being a step of its own.       *)
(*                                                                         *)
(* An admission has one attempt per navigation (hello_started), named      *)
(* after it; a proof is named after its navigation too, since only one is  *)
(* issued (activation_started).                                            *)
(*                                                                         *)
(* Abstractions.  Hello's version and schema, the trust in the page's URI, *)
(* the worker budget and every deadline are checks that may fail at any    *)
(* time.  The end of a document that its own page did not ask for reaches  *)
(* the adapter through IpcWake's controls and is left to that module.      *)
(***************************************************************************)
EXTENDS Naturals, Sequences, FiniteSets

CONSTANTS
  MaxNavigation,  \* u64::MAX of DocumentEpoch.navigation
  Waiters,        \* application threads that call ready()
  MaxWaiters      \* limits.max_readiness_waiters

ASSUME AdmissionAssumption ==
  MaxNavigation \in Nat \ {0} /\ IsFiniteSet(Waiters) /\ MaxWaiters \in Nat

VARIABLES
  \* --- engine: State ---
  closed, navigation, admitted, generation,
  started,        \* activation_started
  activation,     \* the navigation whose proof is pending, or 0
  docGen, docNav, \* generation and navigation of the document, or 0
  waiters,        \* those in State.waiters, abandoned ones included
  \* --- GTK adapter: UI thread ---
  epoch,          \* DocumentEpoch
  proof,          \* the navigation of GtkIpc.proof, or 0
  probing,        \* the navigation being probed for its nonce, or 0
  activating,     \* the navigation whose activation script runs, or 0
  helloStarted,   \* hello_started
  session,        \* the generation of GtkIpc.session, or 0
  \* --- everybody ---
  exposed,        \* navigations whose page got to see its proof
  attempt,        \* admission by navigation: stage, generation, receiver
  waiter,         \* what each ready() call came to
  grants          \* navigation of each generation (history)

hostVars == <<closed, navigation, admitted, generation, started, activation,
              docGen, docNav>>
waitVars == <<waiters, waiter>>
uiVars == <<epoch, proof, probing, activating, helloStarted, session>>
vars == <<hostVars, waitVars, uiVars, exposed, attempt, grants>>

Navigations == 1 .. MaxNavigation
\* Stages of admit_with_now: in the worker's queue, past its is_canceled test,
\* proof consumed, result in the channel, error in the channel, session
\* delivered to the adapter, delivery dropped but not yet undone, over
Stage == {"none", "queued", "running", "granted", "sent", "refused",
          "delivered", "undelivered", "gone"}
Attempt == [stage : Stage, gen : 0 .. MaxNavigation, alive : BOOLEAN]
NoAttempt == [stage |-> "none", gen |-> 0, alive |-> FALSE]
Fresh == [navigation |-> 0, committed |-> FALSE, closed |-> FALSE]

Init ==
  /\ closed = FALSE /\ navigation = 0 /\ admitted = FALSE /\ generation = 0
  /\ started = FALSE /\ activation = 0 /\ docGen = 0 /\ docNav = 0
  /\ waiters = {} /\ waiter = [w \in Waiters |-> "idle"]
  /\ epoch = Fresh /\ proof = 0 /\ probing = 0 /\ activating = 0
  /\ helloStarted = FALSE /\ session = 0
  /\ exposed = {} /\ attempt = [n \in Navigations |-> NoAttempt]
  /\ grants = <<>>

-----------------------------------------------------------------------------
(* Retirement *)

\* retire_matching, as far as admission is concerned
Retire(terminal) ==
  /\ closed' = terminal /\ activation' = 0 /\ docGen' = 0 /\ docNav' = 0
  /\ IF terminal
     THEN /\ waiters' = {}
          /\ waiter' = [w \in Waiters |->
                          IF w \in waiters /\ waiter[w] = "waiting"
                          THEN "error" ELSE waiter[w]]
     ELSE UNCHANGED waitVars
  /\ UNCHANGED generation

\* Core::navigate to a newer identity
HostNavigate(next) ==
  IF ~closed /\ next > navigation
  THEN /\ Retire(FALSE)
       /\ navigation' = next /\ admitted' = FALSE /\ started' = FALSE
  ELSE UNCHANGED <<hostVars, waitVars>>

HostClose ==
  IF ~closed THEN Retire(TRUE) /\ UNCHANGED <<navigation, admitted, started>>
             ELSE UNCHANGED <<hostVars, waitVars>>

\* Dropping the futures of a task set: a result still in its channel goes too.
Abandon(a) ==
  [n \in Navigations |->
     [stage |-> CASE a[n].stage = "sent" /\ a[n].alive -> "undelivered"
                  [] a[n].stage = "refused" -> "gone"
                  [] OTHER -> a[n].stage,
      gen |-> a[n].gen, alive |-> FALSE]]

\* What navigate and close clear of the adapter
Forget == proof' = 0 /\ probing' = 0 /\ activating' = 0 /\ session' = 0

\* GtkIpc::close, and GtkIpc::navigate, which closes when epochs run out;
\* attempts stand at a in the callback that calls them.
CloseFrom(a) ==
  /\ epoch' = [epoch EXCEPT !.closed = TRUE]
  /\ HostClose
  /\ Forget /\ UNCHANGED helloStarted
  /\ attempt' = Abandon(a)

NavigateFrom(a) ==
  IF epoch.navigation = MaxNavigation THEN CloseFrom(a)
  ELSE /\ epoch' = [epoch EXCEPT !.navigation = @ + 1, !.committed = FALSE]
       /\ HostNavigate(epoch.navigation + 1)
       /\ Forget /\ helloStarted' = FALSE
       /\ attempt' = Abandon(a)

-----------------------------------------------------------------------------
(* UI thread *)

\* DocumentEpoch::current
Current(n) == ~epoch.closed /\ epoch.committed /\ epoch.navigation = n

\* LoadEvent::Started
LoadStarted ==
  /\ ~epoch.closed
  /\ NavigateFrom(attempt)
  /\ UNCHANGED <<exposed, grants>>

\* LoadEvent::Committed: once per epoch; the page is probed if trusted.
Committed ==
  /\ ~epoch.closed /\ ~epoch.committed /\ epoch.navigation # 0
  /\ \/ /\ epoch' = [epoch EXCEPT !.committed = TRUE]
        /\ probing' = epoch.navigation
        /\ UNCHANGED <<hostVars, waitVars, proof, activating, helloStarted,
                       session, attempt>>
     \/ NavigateFrom(attempt)
  /\ UNCHANGED <<exposed, grants>>

\* begin_document: one activation per navigation
CanBegin(n) == ~closed /\ n = navigation /\ ~started /\ ~admitted

\* The probe returns: activate() the page, or give this document up.
Probed ==
  /\ probing # 0
  /\ \/ /\ Current(probing) /\ CanBegin(probing)
        /\ activation' = probing /\ started' = TRUE
        /\ proof' = probing /\ activating' = probing
        /\ exposed' = exposed \cup {probing}
        /\ probing' = 0
        /\ UNCHANGED <<closed, navigation, admitted, generation, docGen,
                       docNav, waitVars, epoch, helloStarted, session,
                       attempt>>
     \/ /\ Current(probing)
        /\ NavigateFrom(attempt)
        /\ UNCHANGED exposed
  /\ UNCHANGED grants

\* The activation script was accepted, or the document is given up.
Activated ==
  /\ activating # 0
  /\ \/ /\ activating' = 0
        /\ UNCHANGED <<hostVars, waitVars, epoch, proof, probing, helloStarted,
                       session, attempt>>
     \/ /\ Current(activating)
        /\ NavigateFrom(attempt)
  /\ UNCHANGED <<exposed, grants>>

\* check_activation: the pending proof, for the current navigation, is n's
Valid(n) ==
  /\ ~closed /\ ~admitted
  /\ activation # 0 /\ activation = navigation /\ activation = n

\* A hello with the proof of n: admitted to the worker's queue, refused by
\* the setup, or given up because the UI task cannot be spawned.
Hello(n) ==
  /\ n \in exposed
  /\ Current(n) /\ proof = n /\ ~helloStarted
  /\ \E stage \in {"queued", "refused"} :
       /\ stage = "queued" => Valid(n)
       /\ LET a == [attempt EXCEPT ![n] = [stage |-> stage, gen |-> 0,
                                           alive |-> TRUE]]
          IN  \/ /\ attempt' = a /\ helloStarted' = TRUE
                 /\ UNCHANGED <<hostVars, waitVars, epoch, proof, probing,
                                activating, session>>
              \/ NavigateFrom(a)
  /\ UNCHANGED <<exposed, grants>>

\* The admission future is ready and finds its document current.
Delivered(n) ==
  attempt[n].alive /\ attempt[n].stage = "sent" /\ ~closed /\ docGen = attempt[n].gen

\* The UI task of attempt n: the session is stored and the page told; or the
\* reply cannot be sent and the session is disconnected; or it came too late.
Receive(n) ==
  /\ Delivered(n) /\ Current(n)
  /\ \/ /\ session' = attempt[n].gen
        /\ attempt' = [attempt EXCEPT ![n].stage = "delivered"]
        /\ UNCHANGED <<hostVars, waitVars>>
     \/ /\ session' = attempt[n].gen
        /\ attempt' = [attempt EXCEPT ![n].stage = "delivered"]
        /\ Retire(FALSE) /\ UNCHANGED <<navigation, admitted, started>>
  /\ UNCHANGED <<epoch, proof, probing, activating, helloStarted, exposed,
                 grants>>

\* Mutant of Expire: the page is told, but its document is not given up.
ExpireQuietly(n) ==
  /\ attempt[n].alive /\ Current(n)
  /\ \/ /\ attempt[n].stage \in {"queued", "running", "granted", "sent", "refused"}
        /\ attempt' = Abandon(attempt)
     \/ Delivered(n)
        /\ attempt' = [attempt EXCEPT ![n] = [@ EXCEPT !.stage = "delivered",
                                                       !.alive = FALSE]]
  /\ UNCHANGED <<hostVars, waitVars, uiVars, exposed, grants>>

\* A deadline of the handshake passed, before or after the session was there.
Expire(n) ==
  /\ attempt[n].alive /\ Current(n)
  /\ attempt[n].stage \in {"queued", "running", "granted", "sent", "refused"}
  /\ \/ NavigateFrom(attempt)
     \/ Delivered(n)
        /\ NavigateFrom([attempt EXCEPT ![n].stage = "delivered"])
  /\ UNCHANGED <<exposed, grants>>

\* The page is told of an error; a result whose document has gone is dropped.
ReceiveError(n) ==
  /\ attempt[n].alive
  /\ \/ /\ attempt[n].stage = "refused"
        /\ attempt' = [attempt EXCEPT ![n] = [@ EXCEPT !.stage = "gone",
                                                       !.alive = FALSE]]
     \/ /\ attempt[n].stage = "sent" /\ ~Delivered(n)
        /\ attempt' = [attempt EXCEPT ![n] = [@ EXCEPT !.stage = "undelivered",
                                                       !.alive = FALSE]]
  /\ UNCHANGED <<hostVars, waitVars, uiVars, exposed, grants>>

\* The page's disconnect message, with the credentials of its session
Disconnect ==
  /\ session # 0 /\ docGen = session /\ ~closed
  /\ Retire(FALSE) /\ UNCHANGED <<navigation, admitted, started>>
  /\ session' = 0 /\ probing' = 0 /\ activating' = 0
  /\ attempt' = Abandon(attempt)
  /\ UNCHANGED <<epoch, proof, helloStarted, exposed, grants>>

UiClose ==
  /\ ~epoch.closed
  /\ CloseFrom(attempt)
  /\ UNCHANGED <<exposed, grants>>

-----------------------------------------------------------------------------
(* The worker *)

\* It leaves a cancelled admission alone.
WorkerStart(n) ==
  /\ attempt[n].stage = "queued"
  /\ attempt' = [attempt EXCEPT ![n].stage = IF attempt[n].alive THEN "running"
                                                                 ELSE "gone"]
  /\ UNCHANGED <<hostVars, waitVars, uiVars, exposed, grants>>

\* Mutant of StillValid: the proof was checked when hello arrived.
AlreadyChecked(n) == ~closed

\* admit checks the proof again in the critical section that consumes it.
StillValid(n) == Valid(n)

\* admit: the document, its generation, and the session for all who wait
WorkerGrant(n) ==
  /\ attempt[n].stage = "running"
  /\ StillValid(n)
  /\ activation' = 0 /\ admitted' = TRUE
  /\ generation' = generation + 1
  /\ docGen' = generation + 1 /\ docNav' = navigation
  /\ attempt' = [attempt EXCEPT ![n] = [@ EXCEPT !.stage = "granted",
                                                 !.gen = generation + 1]]
  /\ grants' = Append(grants, navigation)
  /\ waiters' = {}
  /\ waiter' = [w \in Waiters |-> IF w \in waiters /\ waiter[w] = "waiting"
                                  THEN "session" ELSE waiter[w]]
  /\ UNCHANGED <<closed, navigation, started, uiVars, exposed>>

\* The proof is not valid any more, or the deadline has passed.
WorkerRefuse(n) ==
  /\ attempt[n].stage = "running"
  /\ attempt' = [attempt EXCEPT ![n].stage = IF attempt[n].alive THEN "refused"
                                                                 ELSE "gone"]
  /\ UNCHANGED <<hostVars, waitVars, uiVars, exposed, grants>>

\* The result is sent; with no receiver left, it is dropped.
WorkerSend(n) ==
  /\ attempt[n].stage = "granted"
  /\ attempt' = [attempt EXCEPT ![n].stage = IF attempt[n].alive THEN "sent"
                                                                 ELSE "undelivered"]
  /\ UNCHANGED <<hostVars, waitVars, uiVars, exposed, grants>>

\* Mutant of OwnsDocument: generations are not compared.
OwnsAnyDocument(n) == ~closed /\ docGen # 0

\* disconnect_authenticated with the credentials of attempt n
OwnsDocument(n) == ~closed /\ docGen # 0 /\ docGen = attempt[n].gen

\* AdmissionDelivery::drop: a session nobody received is disconnected.  (The
\* GTK adapter retires the document itself wherever it drops a receiver, so
\* here this is a second line of defence.)
Undo(n) ==
  /\ attempt[n].stage = "undelivered"
  /\ attempt' = [attempt EXCEPT ![n].stage = "gone"]
  /\ IF OwnsDocument(n)
     THEN Retire(FALSE) /\ UNCHANGED <<navigation, admitted, started>>
     ELSE UNCHANGED <<hostVars, waitVars>>
  /\ UNCHANGED <<uiVars, exposed, grants>>

-----------------------------------------------------------------------------
(* The application *)

\* The waiters whose futures are still held
Waiting == {w \in waiters : waiter[w] = "waiting"}

\* Mutant of Ready: the caller queues up without looking for a document.
ReadyBlindly(w) ==
  /\ waiter[w] = "idle"
  /\ IF ~closed /\ Cardinality(Waiting) < MaxWaiters
     THEN /\ waiters' = Waiting \cup {w}
          /\ waiter' = [waiter EXCEPT ![w] = "waiting"]
     ELSE /\ waiter' = [waiter EXCEPT ![w] = "error"] /\ UNCHANGED waiters
  /\ UNCHANGED <<hostVars, uiVars, exposed, attempt, grants>>

\* IpcWindow::ready
Ready(w) ==
  /\ waiter[w] = "idle"
  /\ CASE closed -> waiter' = [waiter EXCEPT ![w] = "error"] /\ UNCHANGED waiters
       [] ~closed /\ docGen # 0 ->
            waiter' = [waiter EXCEPT ![w] = "session"] /\ UNCHANGED waiters
       [] OTHER ->
            /\ waiters' = IF Cardinality(Waiting) < MaxWaiters
                          THEN Waiting \cup {w} ELSE Waiting
            /\ waiter' = [waiter EXCEPT ![w] =
                            IF Cardinality(Waiting) < MaxWaiters
                            THEN "waiting" ELSE "error"]
  /\ UNCHANGED <<hostVars, uiVars, exposed, attempt, grants>>

\* The future is dropped; its sender stays until the next ready() or admission.
DropReady(w) ==
  /\ waiter[w] = "waiting"
  /\ waiter' = [waiter EXCEPT ![w] = "dropped"]
  /\ UNCHANGED <<hostVars, waiters, uiVars, exposed, attempt, grants>>

OwnerClose ==
  /\ ~closed
  /\ HostClose
  /\ UNCHANGED <<uiVars, exposed, attempt, grants>>

-----------------------------------------------------------------------------
UiStep(n) == Hello(n) \/ Receive(n) \/ Expire(n) \/ ReceiveError(n)
WorkerStep(n) == \/ WorkerStart(n) \/ WorkerGrant(n) \/ WorkerRefuse(n)
                 \/ WorkerSend(n) \/ Undo(n)

Next ==
  \/ LoadStarted \/ Committed \/ Probed \/ Activated \/ Disconnect \/ UiClose
  \/ OwnerClose
  \/ \E n \in Navigations : UiStep(n) \/ WorkerStep(n)
  \/ \E w \in Waiters : Ready(w) \/ DropReady(w)

\* The worker finishes what it started and the UI loop polls finished tasks;
\* no page has to load, and no hello has to come.
Fairness == \A n \in Navigations :
  /\ WF_vars(WorkerSend(n)) /\ WF_vars(Undo(n))
  /\ WF_vars(Receive(n) \/ ReceiveError(n) \/ Expire(n))

Spec == Init /\ [][Next]_vars /\ Fairness

-----------------------------------------------------------------------------
(* Properties *)

TypeOK ==
  /\ closed \in BOOLEAN /\ admitted \in BOOLEAN /\ started \in BOOLEAN
  /\ navigation \in 0 .. MaxNavigation /\ generation \in 0 .. MaxNavigation
  /\ activation \in 0 .. MaxNavigation /\ docGen \in 0 .. MaxNavigation
  /\ docNav \in 0 .. MaxNavigation /\ waiters \subseteq Waiters
  /\ waiter \in [Waiters -> {"idle", "waiting", "dropped", "session", "error"}]
  /\ epoch \in [navigation : 0 .. MaxNavigation, committed : BOOLEAN,
                closed : BOOLEAN]
  /\ proof \in 0 .. MaxNavigation /\ probing \in 0 .. MaxNavigation
  /\ activating \in 0 .. MaxNavigation /\ helloStarted \in BOOLEAN
  /\ session \in 0 .. MaxNavigation /\ exposed \subseteq Navigations
  /\ attempt \in [Navigations -> Attempt]
  /\ grants \in Seq(Navigations) /\ Len(grants) = generation

\* The engine serves the document the window shows: its navigation is the
\* engine's and the adapter's, and the adapter saw it commit.  The session
\* the adapter routes controls to was granted to the very page it shows.
DocumentIsShown ==
  /\ docGen # 0 =>
       /\ docNav = navigation /\ docGen = generation
       /\ ~epoch.closed => epoch.navigation = docNav /\ epoch.committed
  /\ session # 0 => grants[session] = epoch.navigation

\* Nobody waits for a session while there is one, or after the end.
NobodyOverlooked == docGen # 0 \/ closed => waiters = {}

\* A session that reached its page ends only together with what the adapter
\* knows of it: no late clean-up of another attempt takes it away.
EndsKnowingly ==
  [][docGen # 0 /\ session = docGen /\ docGen' # docGen =>
       session' = 0 \/ closed']_vars

\* A document nobody was told about does not stay: it is delivered to its
\* page or retired, whichever of the parties went away in between.
NoOrphan ==
  \A g \in Navigations : docGen = g ~> session = g \/ docGen # g
=============================================================================

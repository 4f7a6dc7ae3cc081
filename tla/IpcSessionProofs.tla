-------------------------- MODULE IpcSessionProofs --------------------------
(***************************************************************************)
(* Proofs about a document's session, for every value of the constants:    *)
(* how it is admitted (IpcAdmission), and how notifications reach the      *)
(* callbacks of its subscriptions (IpcNotify).  The two specifications     *)
(* share no variable and no theorem uses both.                             *)
(***************************************************************************)
EXTENDS IpcAdmission, IpcNotify, TLAPS

-----------------------------------------------------------------------------
(* The inductive invariant *)

\* Engine and adapter count the same navigations, the engine ahead of its
\* grants and, once closed, behind the adapter.
Epochs ==
  /\ generation <= navigation /\ navigation <= epoch.navigation
  /\ ~admitted /\ navigation # 0 => generation < navigation
  /\ ~closed => navigation = epoch.navigation
  /\ epoch.closed => closed

\* A document, or a proof that may still become one, belongs to the current
\* navigation, which the adapter has seen commit.
Documents ==
  /\ closed => docGen = 0 /\ activation = 0
  /\ docGen # 0 => /\ admitted /\ docNav = navigation /\ docGen = generation
                   /\ epoch.committed
  /\ activation # 0 => activation = navigation /\ epoch.committed

Sessions ==
  session # 0 => session <= generation /\ grants[session] = epoch.navigation

\* An attempt past admit knows the generation that its own page was granted.
Granted(a) ==
  \A n \in Navigations :
    a[n].stage \in {"granted", "sent", "undelivered", "delivered"} =>
      a[n].gen \in 1 .. generation /\ grants[a[n].gen] = n

\* An attempt that has not reached the adapter is not the adapter's session:
\* disconnecting it takes nothing away that a page was told about.
Untold(a) ==
  \A n \in Navigations :
    a[n].stage \in {"granted", "sent", "undelivered"} => a[n].gen # session

AdmissionInv ==
  /\ TypeOK /\ Epochs /\ Documents /\ Sessions
  /\ Granted(attempt) /\ Untold(attempt) /\ NobodyOverlooked

-----------------------------------------------------------------------------
(* The parts that actions share *)

\* 0, for nothing, is in the range of every number that is kept
LEMMA NoneIsNumber == 0 \in 0 .. MaxNavigation
BY AdmissionAssumption

\* Dropping the futures of the adapter's tasks moves no attempt into a stage
\* that it could not be in before, nor changes what it was granted.
LEMMA AbandonEach ==
  ASSUME NEW a \in [Navigations -> Attempt]
  PROVE /\ Abandon(a) \in [Navigations -> Attempt]
        /\ \A n \in Navigations :
             /\ Abandon(a)[n].gen = a[n].gen
             /\ Abandon(a)[n].stage \in {"granted", "sent", "undelivered"} =>
                  a[n].stage \in {"granted", "sent", "undelivered"}
             /\ Abandon(a)[n].stage = "delivered" => a[n].stage = "delivered"
<1>1. ASSUME NEW n \in Navigations
      PROVE /\ a[n].stage \in Stage /\ a[n].gen \in 0 .. MaxNavigation
            /\ Abandon(a)[n] =
                 [stage |-> CASE a[n].stage = "sent" /\ a[n].alive -> "undelivered"
                              [] a[n].stage = "refused" -> "gone"
                              [] OTHER -> a[n].stage,
                  gen |-> a[n].gen, alive |-> FALSE]
  BY DEF Abandon, Attempt
<1>2. ASSUME NEW n \in Navigations
      PROVE /\ Abandon(a)[n] \in Attempt
            /\ Abandon(a)[n].gen = a[n].gen
            /\ Abandon(a)[n].stage \in {"granted", "sent", "undelivered"} =>
                  a[n].stage \in {"granted", "sent", "undelivered"}
            /\ Abandon(a)[n].stage = "delivered" => a[n].stage = "delivered"
  <2>1. PICK to \in Stage :
          /\ Abandon(a)[n] = [stage |-> to, gen |-> a[n].gen, alive |-> FALSE]
          /\ \/ a[n].stage = "sent" /\ to = "undelivered"
             \/ to = "gone"
             \/ to = a[n].stage
    <3>1. CASE a[n].stage = "sent" /\ a[n].alive
      BY <1>1, <3>1 DEF Stage
    <3>2. CASE ~(a[n].stage = "sent" /\ a[n].alive) /\ a[n].stage = "refused"
      BY <1>1, <3>2 DEF Stage
    <3>3. CASE ~(a[n].stage = "sent" /\ a[n].alive) /\ a[n].stage # "refused"
      BY <1>1, <3>3 DEF Stage
    <3> QED BY <3>1, <3>2, <3>3
  <2>2. [stage |-> to, gen |-> a[n].gen, alive |-> FALSE] \in Attempt
    BY <1>1 DEF Attempt
  <2>3. Abandon(a)[n].stage = to /\ Abandon(a)[n].gen = a[n].gen
    BY <2>1
  <2> QED BY <2>1, <2>2, <2>3
<1>3. Abandon(a) \in [Navigations -> Attempt]
  BY <1>2 DEF Abandon
<1> QED BY <1>2, <1>3

\* What holds of the attempts holds of them abandoned, when no generation is
\* granted and the adapter keeps its session or forgets it.
LEMMA AbandonKeeps ==
  ASSUME NEW a \in [Navigations -> Attempt], Granted(a), Untold(a),
         attempt' = Abandon(a), UNCHANGED <<generation, grants>>,
         session' \in {0, session}, generation \in Nat
  PROVE attempt' \in [Navigations -> Attempt] /\ Granted(attempt)' /\ Untold(attempt)'
<1>1. attempt' \in [Navigations -> Attempt]
  BY AbandonEach
<1>2. ASSUME NEW n \in Navigations,
             attempt'[n].stage \in {"granted", "sent", "undelivered", "delivered"}
      PROVE attempt'[n].gen \in 1 .. generation' /\ grants'[attempt'[n].gen] = n
  <2>1. /\ a[n].stage \in {"granted", "sent", "undelivered", "delivered"}
        /\ attempt'[n].gen = a[n].gen
    BY <1>2, AbandonEach
  <2> QED BY <2>1 DEF Granted
<1>3. ASSUME NEW n \in Navigations,
             attempt'[n].stage \in {"granted", "sent", "undelivered"}
      PROVE attempt'[n].gen # session'
  <2>1. /\ a[n].stage \in {"granted", "sent", "undelivered"}
        /\ attempt'[n].gen = a[n].gen
    BY <1>3, AbandonEach
  <2>2. a[n].gen # session /\ a[n].gen # 0
    BY <2>1 DEF Granted, Untold
  <2> QED BY <2>1, <2>2
<1> QED BY <1>1, <1>2, <1>3 DEF Granted, Untold

\* retire_matching leaves the engine without a document and, at the end of
\* the window, without anybody waiting.
LEMMA RetireType ==
  ASSUME TypeOK, NEW terminal \in BOOLEAN, Retire(terminal)
  PROVE /\ waiters' \subseteq Waiters
        /\ waiter' \in [Waiters -> {"idle", "waiting", "dropped", "session", "error"}]
BY DEF Retire, TypeOK, waitVars
\* What is left of the invariant when attempts are told apart
HostInv == TypeOK /\ Epochs /\ Documents /\ Sessions /\ NobodyOverlooked

\* Core::close, from whatever thread
LEMMA HostCloseKeeps ==
  ASSUME HostInv, HostClose
  PROVE /\ closed' = TRUE /\ docGen' = 0 /\ activation' = 0 /\ waiters' = {}
        /\ docNav' \in 0 .. MaxNavigation
        /\ waiter' \in [Waiters -> {"idle", "waiting", "dropped", "session", "error"}]
        /\ UNCHANGED <<navigation, admitted, started, generation>>
<1> USE DEF HostInv
<1>1. CASE closed
  BY <1>1, AdmissionAssumption
     DEF HostClose, hostVars, waitVars, TypeOK, Documents, NobodyOverlooked
<1>2. CASE ~closed
  <2>1. Retire(TRUE) /\ UNCHANGED <<navigation, admitted, started>>
    BY <1>2 DEF HostClose
  <2>2. waiter' \in [Waiters -> {"idle", "waiting", "dropped", "session", "error"}]
    BY <2>1, RetireType
  <2> QED BY <2>1, <2>2, AdmissionAssumption DEF Retire
<1> QED BY <1>1, <1>2

\* GtkIpc::close
LEMMA CloseKeeps ==
  ASSUME HostInv, NEW a \in [Navigations -> Attempt], Granted(a), Untold(a),
         CloseFrom(a), UNCHANGED <<exposed, grants>>
  PROVE AdmissionInv'
<1> USE DEF HostInv
<1>1. /\ closed' = TRUE /\ docGen' = 0 /\ activation' = 0 /\ waiters' = {}
      /\ docNav' \in 0 .. MaxNavigation
      /\ waiter' \in [Waiters -> {"idle", "waiting", "dropped", "session", "error"}]
      /\ UNCHANGED <<navigation, admitted, started, generation>>
  BY HostCloseKeeps DEF CloseFrom
<1>2. /\ proof' = 0 /\ probing' = 0 /\ activating' = 0 /\ session' = 0
      /\ UNCHANGED helloStarted
  BY DEF CloseFrom, Forget
<1>3. epoch' \in [navigation : 0 .. MaxNavigation, committed : BOOLEAN,
                  closed : BOOLEAN]
      /\ epoch'.navigation = epoch.navigation
  BY DEF CloseFrom, TypeOK
<1>4. attempt' \in [Navigations -> Attempt] /\ Granted(attempt)' /\ Untold(attempt)'
  BY <1>1, <1>2, AbandonKeeps, AdmissionAssumption, SMTT(30) DEF CloseFrom, TypeOK
<1>5. TypeOK'
  BY <1>1, <1>2, <1>3, <1>4, AdmissionAssumption DEF TypeOK
<1>6. Epochs'
  BY <1>1, <1>3 DEF Epochs
<1>7. Documents' /\ Sessions' /\ NobodyOverlooked'
  BY <1>1, <1>2 DEF Documents, Sessions, NobodyOverlooked
<1> QED BY <1>4, <1>5, <1>6, <1>7 DEF AdmissionInv

\* GtkIpc::navigate, which every document that is given up goes through
LEMMA NavigateKeeps ==
  ASSUME HostInv, NEW a \in [Navigations -> Attempt], Granted(a), Untold(a),
         NavigateFrom(a), UNCHANGED <<exposed, grants>>
  PROVE AdmissionInv'
<1> USE DEF HostInv
<1>1. CASE epoch.navigation = MaxNavigation
  BY <1>1, CloseKeeps DEF NavigateFrom
<1>2. CASE epoch.navigation # MaxNavigation
  <2> DEFINE next == epoch.navigation + 1
  <2>1. /\ HostNavigate(next) /\ attempt' = Abandon(a)
        /\ proof' = 0 /\ probing' = 0 /\ activating' = 0 /\ session' = 0
        /\ helloStarted' = FALSE
        /\ epoch' = [epoch EXCEPT !.navigation = next, !.committed = FALSE]
    BY <1>2 DEF NavigateFrom, Forget
  <2>2. /\ next \in 0 .. MaxNavigation /\ epoch.navigation \in Nat
        /\ navigation \in Nat /\ generation \in Nat
    BY <1>2, AdmissionAssumption DEF TypeOK
  <2>3. /\ epoch' \in [navigation : 0 .. MaxNavigation, committed : BOOLEAN,
                       closed : BOOLEAN]
        /\ epoch'.navigation = next /\ epoch'.closed = epoch.closed
    BY <2>1, <2>2 DEF TypeOK
  <2>4. /\ closed' = closed /\ docGen' = 0 /\ activation' = 0
        /\ docNav' \in 0 .. MaxNavigation
        /\ UNCHANGED <<waiters, waiter, generation>>
        /\ IF closed THEN UNCHANGED <<navigation, admitted, started>>
           ELSE navigation' = next /\ admitted' = FALSE /\ started' = FALSE
    <3>1. CASE closed
      BY <2>1, <3>1 DEF HostNavigate, hostVars, waitVars, Documents, TypeOK
    <3>2. CASE ~closed
      <4>1. next > navigation
        BY <2>2, <3>2 DEF Epochs
      <4> HIDE DEF next
      <4>2. Retire(FALSE) /\ navigation' = next /\ admitted' = FALSE /\ started' = FALSE
        BY <2>1, <3>2, <4>1 DEF HostNavigate
      <4>3. UNCHANGED <<waiters, waiter>>
        BY <4>2 DEF Retire, waitVars
      <4> QED BY <3>2, <4>2, <4>3, NoneIsNumber DEF Retire, TypeOK
    <3> QED BY <3>1, <3>2
  <2>5. attempt' \in [Navigations -> Attempt] /\ Granted(attempt)' /\ Untold(attempt)'
    BY <2>1, <2>2, <2>4, AbandonKeeps
  <2>6. TypeOK'
    BY <2>1, <2>2, <2>3, <2>4, <2>5, NoneIsNumber DEF TypeOK
  <2>7. Epochs'
    BY <2>2, <2>3, <2>4 DEF Epochs
  <2>8. Documents' /\ Sessions'
    BY <2>1, <2>4 DEF Documents, Sessions
  <2>9. NobodyOverlooked'
    BY <2>4 DEF NobodyOverlooked
  <2> QED BY <2>5, <2>6, <2>7, <2>8, <2>9 DEF AdmissionInv
<1> QED BY <1>1, <1>2

\* disconnect_authenticated, on behalf of the page, of the adapter or of a
\* delivery that was dropped: what it retires is a document, not an epoch.
LEMMA DisconnectKeeps ==
  ASSUME HostInv, Retire(FALSE), ~closed,
         UNCHANGED <<navigation, admitted, started, epoch, exposed, grants>>,
         attempt' \in [Navigations -> Attempt],
         Granted(attempt)', Untold(attempt)', Sessions',
         proof' \in 0 .. MaxNavigation, probing' \in 0 .. MaxNavigation,
         activating' \in 0 .. MaxNavigation, helloStarted' \in BOOLEAN,
         session' \in 0 .. MaxNavigation
  PROVE AdmissionInv'
<1> USE DEF HostInv
<1>1. /\ closed' = FALSE /\ docGen' = 0 /\ docNav' = 0 /\ activation' = 0
      /\ UNCHANGED <<waiters, waiter>> /\ UNCHANGED generation
  BY DEF Retire, waitVars
<1>2. TypeOK'
  BY <1>1, NoneIsNumber DEF TypeOK
<1>3. Epochs'
  BY <1>1 DEF Epochs
<1>4. Documents' /\ NobodyOverlooked'
  BY <1>1 DEF Documents, NobodyOverlooked
<1> QED BY <1>2, <1>3, <1>4 DEF AdmissionInv

\* Steps that leave the engine alone
LEMMA HostUntouched ==
  ASSUME HostInv, UNCHANGED <<hostVars, epoch, exposed, grants, session>>,
         waiters' \subseteq Waiters,
         waiter' \in [Waiters -> {"idle", "waiting", "dropped", "session", "error"}],
         docGen # 0 \/ closed => waiters' = {},
         attempt' \in [Navigations -> Attempt],
         Granted(attempt)', Untold(attempt)',
         proof' \in 0 .. MaxNavigation, probing' \in 0 .. MaxNavigation,
         activating' \in 0 .. MaxNavigation, helloStarted' \in BOOLEAN
  PROVE AdmissionInv'
<1> USE DEF HostInv, hostVars
<1>1. TypeOK'
  BY DEF TypeOK
<1>2. Epochs' /\ Documents' /\ Sessions' /\ NobodyOverlooked'
  BY DEF Epochs, Documents, Sessions, NobodyOverlooked
<1> QED BY <1>1, <1>2 DEF AdmissionInv
-----------------------------------------------------------------------------
(* The invariant is inductive *)

\* What the attempts have to satisfy, when one of them changes and nothing is
\* granted or delivered
LEMMA OneAttempt ==
  ASSUME AdmissionInv, NEW n \in Navigations, NEW to \in Attempt,
         to.stage \in {"granted", "sent", "undelivered", "delivered"} =>
           /\ attempt[n].stage \in {"granted", "sent", "undelivered", "delivered"}
           /\ to.gen = attempt[n].gen,
         to.stage \in {"granted", "sent", "undelivered"} =>
           attempt[n].stage \in {"granted", "sent", "undelivered"}
  PROVE LET a == [attempt EXCEPT ![n] = to]
        IN  a \in [Navigations -> Attempt] /\ Granted(a) /\ Untold(a)
<1> DEFINE a == [attempt EXCEPT ![n] = to]
<1>1. attempt \in [Navigations -> Attempt] /\ Granted(attempt) /\ Untold(attempt)
  BY DEF AdmissionInv, TypeOK
<1>2. a \in [Navigations -> Attempt]
  BY <1>1
<1>3. \A m \in Navigations : a[m] = IF m = n THEN to ELSE attempt[m]
  BY <1>1
<1>4. Granted(a) /\ Untold(a)
  BY <1>1, <1>3 DEF Granted, Untold
<1> QED BY <1>2, <1>4

\* Each step of the UI thread preserves the invariant.
LEMMA UiNext ==
  ASSUME AdmissionInv,
         \/ LoadStarted \/ Committed \/ Probed \/ Activated \/ Disconnect
         \/ UiClose
  PROVE AdmissionInv'
<1>0. /\ HostInv /\ attempt \in [Navigations -> Attempt]
      /\ Granted(attempt) /\ Untold(attempt)
  BY DEF AdmissionInv, HostInv, TypeOK
<1>1. CASE LoadStarted
  BY <1>0, <1>1, NavigateKeeps DEF LoadStarted
<1>2. CASE Committed
  <2>1. CASE NavigateFrom(attempt)
    BY <1>0, <1>2, <2>1, NavigateKeeps DEF Committed
  <2>2. CASE ~NavigateFrom(attempt)
    <3>1. /\ epoch' = [epoch EXCEPT !.committed = TRUE]
          /\ probing' = epoch.navigation
          /\ UNCHANGED <<hostVars, waitVars, proof, activating, helloStarted,
                         session, attempt, exposed, grants>>
      BY <1>2, <2>2 DEF Committed
    <3>2. /\ epoch' \in [navigation : 0 .. MaxNavigation, committed : BOOLEAN,
                         closed : BOOLEAN]
          /\ epoch'.navigation = epoch.navigation /\ epoch'.closed = epoch.closed
          /\ epoch'.committed /\ epoch.navigation \in 0 .. MaxNavigation
      BY <1>0, <3>1 DEF HostInv, TypeOK
    <3>3. TypeOK'
      BY <1>0, <3>1, <3>2 DEF HostInv, TypeOK, hostVars, waitVars
    <3>4. Epochs' /\ Documents' /\ Sessions' /\ NobodyOverlooked'
      BY <1>0, <3>1, <3>2
         DEF HostInv, Epochs, Documents, Sessions, NobodyOverlooked, hostVars, waitVars
    <3>5. Granted(attempt)' /\ Untold(attempt)'
      BY <1>0, <3>1 DEF Granted, Untold, hostVars
    <3> QED BY <3>3, <3>4, <3>5 DEF AdmissionInv
  <2> QED BY <2>1, <2>2
<1>3. CASE Probed
  <2>1. CASE NavigateFrom(attempt) /\ UNCHANGED exposed
    BY <1>0, <1>3, <2>1, NavigateKeeps DEF Probed
  <2>2. CASE ~(NavigateFrom(attempt) /\ UNCHANGED exposed)
    <3>1. /\ probing # 0 /\ Current(probing) /\ CanBegin(probing)
          /\ activation' = probing /\ started' = TRUE
          /\ proof' = probing /\ activating' = probing
          /\ exposed' = exposed \cup {probing}
          /\ probing' = 0
          /\ UNCHANGED <<closed, navigation, admitted, generation, docGen,
                         docNav, waitVars, epoch, helloStarted, session,
                         attempt, grants>>
      BY <1>3, <2>2 DEF Probed
    <3>2. probing \in Navigations
      BY <1>0, <3>1, AdmissionAssumption DEF HostInv, TypeOK, Navigations
    <3>3. TypeOK'
      BY <1>0, <3>1, <3>2, NoneIsNumber DEF HostInv, TypeOK, waitVars
    <3>4. Epochs' /\ Documents' /\ Sessions' /\ NobodyOverlooked'
      BY <1>0, <3>1 DEF HostInv, Epochs, Documents, Sessions,
                        NobodyOverlooked, waitVars, Current, CanBegin
    <3>5. Granted(attempt)' /\ Untold(attempt)'
      BY <1>0, <3>1 DEF Granted, Untold
    <3> QED BY <3>3, <3>4, <3>5 DEF AdmissionInv
  <2> QED BY <2>1, <2>2
<1>4. CASE Activated
  <2>1. CASE NavigateFrom(attempt)
    BY <1>0, <1>4, <2>1, NavigateKeeps DEF Activated
  <2>2. CASE ~NavigateFrom(attempt)
    <3>1. /\ activating' = 0
          /\ UNCHANGED <<hostVars, waitVars, epoch, proof, probing,
                         helloStarted, session, attempt, exposed, grants>>
      BY <1>4, <2>2 DEF Activated
    <3>2. Granted(attempt)' /\ Untold(attempt)'
      BY <1>0, <3>1 DEF Granted, Untold, hostVars
    <3> QED BY <1>0, <3>1, <3>2, HostUntouched, NoneIsNumber
            DEF waitVars, HostInv, TypeOK, NobodyOverlooked
  <2> QED BY <2>1, <2>2
<1>5. CASE Disconnect
  <2>1. /\ Retire(FALSE) /\ ~closed /\ attempt' = Abandon(attempt)
        /\ session' = 0 /\ probing' = 0 /\ activating' = 0
        /\ UNCHANGED <<navigation, admitted, started, epoch, proof,
                       helloStarted, exposed, grants>>
    BY <1>5 DEF Disconnect
  <2>2. attempt' \in [Navigations -> Attempt] /\ Granted(attempt)' /\ Untold(attempt)'
    BY <1>0, <2>1, AbandonKeeps, AdmissionAssumption DEF Retire, HostInv, TypeOK
  <2>3. Sessions'
    BY <2>1 DEF Sessions
  <2> QED BY <1>0, <2>1, <2>2, <2>3, DisconnectKeeps, NoneIsNumber
          DEF HostInv, TypeOK
<1>6. CASE UiClose
  BY <1>0, <1>6, CloseKeeps DEF UiClose
<1> QED BY <1>1, <1>2, <1>3, <1>4, <1>5, <1>6
\* Each step of the adapter's admission task preserves the invariant.
LEMMA AdmissionTaskNext ==
  ASSUME AdmissionInv, NEW n \in Navigations, UiStep(n)
  PROVE AdmissionInv'
<1>0. /\ HostInv /\ attempt \in [Navigations -> Attempt]
      /\ Granted(attempt) /\ Untold(attempt)
  BY DEF AdmissionInv, HostInv, TypeOK
<1>a. /\ attempt[n] \in Attempt /\ attempt[n].stage \in Stage
      /\ attempt[n].gen \in 0 .. MaxNavigation /\ attempt[n].alive \in BOOLEAN
  BY <1>0 DEF Attempt
<1>1. CASE Hello(n)
  <2>1. PICK st \in {"queued", "refused"} :
          LET a == [attempt EXCEPT ![n] = [stage |-> st, gen |-> 0,
                                           alive |-> TRUE]]
          IN  \/ /\ attempt' = a /\ helloStarted' = TRUE
                 /\ UNCHANGED <<hostVars, waitVars, epoch, proof, probing,
                                activating, session>>
              \/ NavigateFrom(a)
    BY <1>1 DEF Hello
  <2> DEFINE to == [stage |-> st, gen |-> 0, alive |-> TRUE]
             a == [attempt EXCEPT ![n] = to]
  <2>2. to \in Attempt /\ to.stage \in {"queued", "refused"}
    BY NoneIsNumber DEF Attempt, Stage
  <2>3. a \in [Navigations -> Attempt] /\ Granted(a) /\ Untold(a)
    <3> HIDE DEF to
    <3> QED BY <2>2, OneAttempt
  <2>4. UNCHANGED <<exposed, grants>>
    BY <1>1 DEF Hello
  <2>5. CASE NavigateFrom(a)
    <3> HIDE DEF a
    <3> QED BY <1>0, <2>3, <2>4, <2>5, NavigateKeeps
  <2>6. CASE /\ attempt' = a /\ helloStarted' = TRUE
             /\ UNCHANGED <<hostVars, waitVars, epoch, proof, probing,
                            activating, session>>
    <3> HIDE DEF a
    <3>1. Granted(attempt)' /\ Untold(attempt)'
      BY <2>3, <2>4, <2>6 DEF Granted, Untold, hostVars
    <3> QED BY <1>0, <2>3, <2>4, <2>6, <3>1, HostUntouched
            DEF waitVars, HostInv, TypeOK, NobodyOverlooked
  <2> QED BY <2>1, <2>5, <2>6
<1>2. CASE Receive(n)
  <2>1. /\ Delivered(n) /\ Current(n)
        /\ session' = attempt[n].gen
        /\ attempt' = [attempt EXCEPT ![n].stage = "delivered"]
        /\ UNCHANGED <<epoch, proof, probing, activating, helloStarted,
                       exposed, grants>>
    BY <1>2 DEF Receive
  <2>2. /\ attempt[n].gen \in 1 .. generation /\ grants[attempt[n].gen] = n
        /\ generation \in Nat
    BY <1>0, <2>1, AdmissionAssumption DEF Delivered, Granted, HostInv, TypeOK
  <2>3. generation' = generation
    BY <1>2 DEF Receive, Retire, hostVars
  <2>4. /\ attempt' \in [Navigations -> Attempt]
        /\ \A m \in Navigations :
             /\ attempt'[m].gen = attempt[m].gen
             /\ attempt'[m].stage = IF m = n THEN "delivered" ELSE attempt[m].stage
    BY <1>0, <2>1 DEF Attempt, Stage
  <2>5. Granted(attempt)'
    BY <1>0, <2>1, <2>2, <2>3, <2>4 DEF Granted
  <2>6. Untold(attempt)'
    \* no two pages were granted the same generation
    <3> SUFFICES ASSUME NEW m \in Navigations,
                        attempt'[m].stage \in {"granted", "sent", "undelivered"}
                 PROVE attempt'[m].gen # session'
      BY DEF Untold
    <3>1. m # n /\ attempt[m].stage \in {"granted", "sent", "undelivered"}
      BY <2>4
    <3>2. grants[attempt[m].gen] = m
      BY <1>0, <3>1 DEF Granted
    <3> QED BY <2>1, <2>2, <2>4, <3>1, <3>2
  <2>7. Sessions'
    BY <2>1, <2>2, <2>3 DEF Sessions, Current
  <2>8. CASE Retire(FALSE) /\ UNCHANGED <<navigation, admitted, started>>
    BY <1>0, <1>a, <2>1, <2>4, <2>5, <2>6, <2>7, <2>8, DisconnectKeeps
       DEF HostInv, TypeOK, Delivered
  <2>9. CASE UNCHANGED <<hostVars, waitVars>>
    <3>1. TypeOK'
      BY <1>0, <1>a, <2>1, <2>4, <2>9 DEF HostInv, TypeOK, hostVars, waitVars
    <3>2. Epochs' /\ Documents' /\ NobodyOverlooked'
      BY <1>0, <2>1, <2>9
         DEF HostInv, Epochs, Documents, NobodyOverlooked, hostVars, waitVars
    <3> QED BY <2>5, <2>6, <2>7, <3>1, <3>2 DEF AdmissionInv
  <2> QED BY <1>2, <2>8, <2>9 DEF Receive
<1>3. CASE Expire(n)
  <2>1. UNCHANGED <<exposed, grants>>
    BY <1>3 DEF Expire
  <2>2. CASE NavigateFrom(attempt)
    BY <1>0, <2>1, <2>2, NavigateKeeps
  <2>3. CASE Delivered(n) /\ NavigateFrom([attempt EXCEPT ![n].stage = "delivered"])
    <3> DEFINE to == [attempt[n] EXCEPT !.stage = "delivered"]
               a == [attempt EXCEPT ![n] = to]
    <3>1. to \in Attempt /\ to.stage = "delivered" /\ to.gen = attempt[n].gen
      BY <1>a DEF Attempt, Stage
    <3>2. a = [attempt EXCEPT ![n].stage = "delivered"]
      OBVIOUS
    <3>3. a \in [Navigations -> Attempt] /\ Granted(a) /\ Untold(a)
      <4> HIDE DEF to
      <4> QED BY <2>3, <3>1, OneAttempt DEF Delivered
    <3> HIDE DEF a
    <3> QED BY <1>0, <2>1, <2>3, <3>2, <3>3, NavigateKeeps
  <2> QED BY <1>3, <2>2, <2>3 DEF Expire
<1>4. CASE ReceiveError(n)
  <2>1. UNCHANGED <<hostVars, waitVars, uiVars, exposed, grants>>
    BY <1>4 DEF ReceiveError
  <2>2. PICK to \in Attempt :
          /\ attempt' = [attempt EXCEPT ![n] = to]
          /\ \/ to.stage = "gone"
             \/ /\ attempt[n].stage = "sent" /\ to.stage = "undelivered"
                /\ to.gen = attempt[n].gen
    <3>1. ASSUME NEW st \in {"gone", "undelivered"}
          PROVE LET to == [attempt[n] EXCEPT !.stage = st, !.alive = FALSE]
                IN  /\ to \in Attempt /\ to.stage = st
                    /\ to.gen = attempt[n].gen
      BY <1>a DEF Attempt, Stage
    <3>2. CASE attempt[n].stage = "refused" /\
               attempt' = [attempt EXCEPT ![n] = [@ EXCEPT !.stage = "gone",
                                                           !.alive = FALSE]]
      BY <3>1, <3>2
    <3>3. CASE attempt[n].stage = "sent" /\
               attempt' = [attempt EXCEPT ![n] = [@ EXCEPT !.stage = "undelivered",
                                                           !.alive = FALSE]]
      BY <3>1, <3>3
    <3> QED BY <1>4, <3>2, <3>3 DEF ReceiveError
  <2>3. attempt' \in [Navigations -> Attempt] /\ Granted(attempt') /\ Untold(attempt')
    BY <2>2, OneAttempt
  <2>4. Granted(attempt)' /\ Untold(attempt)'
    BY <2>1, <2>3 DEF Granted, Untold, hostVars, uiVars
  <2> QED BY <1>0, <2>1, <2>3, <2>4, HostUntouched
          DEF waitVars, uiVars, HostInv, TypeOK, NobodyOverlooked
<1> QED BY <1>1, <1>2, <1>3, <1>4 DEF UiStep
\* Each step of the worker preserves the invariant.
LEMMA WorkerNext ==
  ASSUME AdmissionInv, NEW n \in Navigations, WorkerStep(n)
  PROVE AdmissionInv'
<1>0. /\ HostInv /\ attempt \in [Navigations -> Attempt]
      /\ Granted(attempt) /\ Untold(attempt)
  BY DEF AdmissionInv, HostInv, TypeOK
<1>a. /\ attempt[n] \in Attempt /\ attempt[n].stage \in Stage
      /\ attempt[n].gen \in 0 .. MaxNavigation /\ attempt[n].alive \in BOOLEAN
  BY <1>0 DEF Attempt
<1>b. ASSUME NEW st \in Stage
      PROVE LET to == [attempt[n] EXCEPT !.stage = st]
            IN  /\ to \in Attempt /\ to.stage = st /\ to.gen = attempt[n].gen
                /\ [attempt EXCEPT ![n].stage = st] = [attempt EXCEPT ![n] = to]
  BY <1>a DEF Attempt
\* a step that only moves the attempt
<1>c. ASSUME NEW st \in Stage, attempt' = [attempt EXCEPT ![n].stage = st],
             UNCHANGED <<hostVars, waitVars, uiVars, exposed, grants>>,
             \/ st \in {"running", "refused", "gone"}
             \/ /\ attempt[n].stage \in {"granted", "sent", "undelivered"}
                /\ st \in {"sent", "undelivered"}
      PROVE AdmissionInv'
  <2>1. attempt' \in [Navigations -> Attempt] /\ Granted(attempt') /\ Untold(attempt')
    BY <1>b, <1>c, OneAttempt
  <2>2. Granted(attempt)' /\ Untold(attempt)'
    BY <1>c, <2>1 DEF Granted, Untold, hostVars, uiVars
  <2> QED BY <1>0, <1>c, <2>1, <2>2, HostUntouched
          DEF waitVars, uiVars, HostInv, TypeOK, NobodyOverlooked
<1>1. CASE WorkerStart(n)
  BY <1>1, <1>c DEF WorkerStart, Stage
<1>2. CASE WorkerGrant(n)
  <2>1. /\ ~closed /\ ~admitted /\ activation # 0 /\ activation = navigation
        /\ navigation = n
    BY <1>2 DEF WorkerGrant, StillValid, Valid
  <2>2. /\ activation' = 0 /\ admitted' = TRUE /\ generation' = generation + 1
        /\ docGen' = generation + 1 /\ docNav' = navigation
        /\ attempt' = [attempt EXCEPT ![n] = [@ EXCEPT !.stage = "granted",
                                                       !.gen = generation + 1]]
        /\ grants' = Append(grants, navigation) /\ waiters' = {}
        /\ UNCHANGED <<closed, navigation, started, epoch, proof, probing,
                       activating, helloStarted, session, exposed>>
    BY <1>2 DEF WorkerGrant, uiVars
  <2>3. /\ generation \in Nat /\ navigation \in Navigations
        /\ generation + 1 <= navigation /\ generation + 1 \in 0 .. MaxNavigation
    BY <1>0, <2>1, AdmissionAssumption DEF HostInv, TypeOK, Epochs, Navigations
  <2>4. waiter' \in [Waiters -> {"idle", "waiting", "dropped", "session", "error"}]
    BY <1>0, <1>2 DEF WorkerGrant, HostInv, TypeOK
  <2>5. /\ grants' \in Seq(Navigations) /\ Len(grants') = generation + 1
        /\ grants'[generation + 1] = n
        /\ \A g \in 1 .. generation : grants'[g] = grants[g]
    BY <1>0, <2>1, <2>2, <2>3 DEF HostInv, TypeOK
  <2>6. /\ attempt' \in [Navigations -> Attempt]
        /\ attempt'[n].gen = generation + 1
        /\ \A m \in Navigations : m # n => attempt'[m] = attempt[m]
    BY <1>0, <2>2, <2>3 DEF Attempt, Stage
  <2>7. TypeOK'
    BY <1>0, <2>2, <2>3, <2>4, <2>5, <2>6, NoneIsNumber DEF HostInv, TypeOK, Navigations
  <2>8. Epochs' /\ NobodyOverlooked'
    BY <1>0, <2>2, <2>3 DEF HostInv, Epochs, NobodyOverlooked
  <2>9. Documents'
    BY <1>0, <2>1, <2>2 DEF HostInv, Documents
  <2>10. session \in Nat /\ (session # 0 => session \in 1 .. generation)
    BY <1>0, <2>3, AdmissionAssumption DEF HostInv, TypeOK, Sessions
  <2>11. Sessions'
    BY <1>0, <2>2, <2>3, <2>5, <2>10 DEF HostInv, Sessions
  <2>12. Granted(attempt)'
    <3> SUFFICES ASSUME NEW m \in Navigations,
                        attempt'[m].stage \in {"granted", "sent", "undelivered", "delivered"}
                 PROVE /\ attempt'[m].gen \in 1 .. generation'
                       /\ grants'[attempt'[m].gen] = m
      BY DEF Granted
    <3>1. CASE m = n
      BY <2>2, <2>3, <2>5, <2>6, <3>1
    <3>2. CASE m # n
      <4>1. attempt[m].gen \in 1 .. generation /\ grants[attempt[m].gen] = m
        BY <1>0, <2>6, <3>2 DEF Granted
      <4> QED BY <2>2, <2>3, <2>5, <2>6, <3>2, <4>1
    <3> QED BY <3>1, <3>2
  <2>13. Untold(attempt)'
    BY <1>0, <2>2, <2>3, <2>6, <2>10 DEF Untold
  <2> QED BY <2>7, <2>8, <2>9, <2>11, <2>12, <2>13 DEF AdmissionInv
<1>3. CASE WorkerRefuse(n)
  BY <1>3, <1>c DEF WorkerRefuse, Stage
<1>4. CASE WorkerSend(n)
  BY <1>4, <1>c DEF WorkerSend, Stage
<1>5. CASE Undo(n)
  <2>1. CASE ~OwnsDocument(n)
    BY <1>5, <1>c, <2>1 DEF Undo, Stage
  <2>2. CASE OwnsDocument(n)
    <3>1. /\ attempt' = [attempt EXCEPT ![n].stage = "gone"]
          /\ Retire(FALSE) /\ ~closed
          /\ UNCHANGED <<navigation, admitted, started, exposed, grants>>
          /\ UNCHANGED <<epoch, proof, probing, activating, helloStarted, session>>
      BY <1>5, <2>2 DEF Undo, OwnsDocument, uiVars
    <3>2. "gone" \in Stage
      BY DEF Stage
    <3>3. attempt' \in [Navigations -> Attempt] /\ Granted(attempt') /\ Untold(attempt')
      BY <1>b, <3>1, <3>2, OneAttempt
    <3>4. generation' = generation
      BY <3>1 DEF Retire
    <3>5. Granted(attempt)' /\ Untold(attempt)' /\ Sessions'
      BY <1>0, <3>1, <3>3, <3>4 DEF Granted, Untold, HostInv, Sessions
    <3> QED BY <1>0, <3>1, <3>3, <3>5, DisconnectKeeps DEF HostInv, TypeOK
  <2> QED BY <2>1, <2>2
<1> QED BY <1>1, <1>2, <1>3, <1>4, <1>5 DEF WorkerStep

\* Each call of the application preserves the invariant.
LEMMA ApplicationNext ==
  ASSUME AdmissionInv,
         OwnerClose \/ \E w \in Waiters : Ready(w) \/ DropReady(w)
  PROVE AdmissionInv'
<1>0. /\ HostInv /\ attempt \in [Navigations -> Attempt]
      /\ Granted(attempt) /\ Untold(attempt)
  BY DEF AdmissionInv, HostInv, TypeOK
<1>1. CASE OwnerClose
  <2>1. /\ closed' = TRUE /\ docGen' = 0 /\ activation' = 0 /\ waiters' = {}
        /\ docNav' \in 0 .. MaxNavigation
        /\ waiter' \in [Waiters -> {"idle", "waiting", "dropped", "session", "error"}]
        /\ UNCHANGED <<navigation, admitted, started, generation>>
    BY <1>0, <1>1, HostCloseKeeps DEF OwnerClose
  <2>2. UNCHANGED <<epoch, proof, probing, activating, helloStarted, session,
                    exposed, attempt, grants>>
    BY <1>1 DEF OwnerClose, uiVars
  <2>3. TypeOK'
    BY <1>0, <2>1, <2>2, NoneIsNumber DEF HostInv, TypeOK
  <2>4. Epochs' /\ Documents' /\ Sessions' /\ NobodyOverlooked'
    BY <1>0, <2>1, <2>2 DEF HostInv, Epochs, Documents, Sessions, NobodyOverlooked
  <2>5. Granted(attempt)' /\ Untold(attempt)'
    BY <1>0, <2>1, <2>2 DEF Granted, Untold
  <2> QED BY <2>3, <2>4, <2>5 DEF AdmissionInv
<1>2. ASSUME NEW w \in Waiters, Ready(w) \/ DropReady(w) PROVE AdmissionInv'
  <2>1. UNCHANGED <<hostVars, uiVars, exposed, attempt, grants>>
    BY <1>2 DEF Ready, DropReady
  <2>2. waiter' \in [Waiters -> {"idle", "waiting", "dropped", "session", "error"}]
    BY <1>0, <1>2 DEF Ready, DropReady, HostInv, TypeOK
  <2>3. waiters' \subseteq Waiters /\ (docGen # 0 \/ closed => waiters' = {})
    BY <1>0, <1>2 DEF Ready, DropReady, Waiting, HostInv, TypeOK, NobodyOverlooked
  <2>4. Granted(attempt)' /\ Untold(attempt)'
    BY <1>0, <2>1 DEF Granted, Untold, hostVars, uiVars
  <2> QED BY <1>0, <2>1, <2>2, <2>3, <2>4, HostUntouched DEF uiVars, HostInv, TypeOK
<1> QED BY <1>1, <1>2

\* Every step of every party preserves the invariant.
LEMMA AdmissionNext ==
  ASSUME AdmissionInv, [Next]_vars
  PROVE AdmissionInv'
<1>1. CASE UNCHANGED vars
  BY <1>1 DEF vars, hostVars, waitVars, uiVars, AdmissionInv, TypeOK, Epochs,
              Documents, Sessions, Granted, Untold, NobodyOverlooked
<1> QED BY <1>1, UiNext, AdmissionTaskNext, WorkerNext, ApplicationNext DEF Next

\* Nothing has been loaded, so nothing has been granted.
LEMMA AdmissionInit == Init => AdmissionInv
<1> SUFFICES ASSUME Init PROVE AdmissionInv
  OBVIOUS
<1>1. NoAttempt \in Attempt /\ NoAttempt.stage = "none"
  BY NoneIsNumber DEF NoAttempt, Attempt, Stage
<1>2. /\ attempt \in [Navigations -> Attempt]
      /\ \A n \in Navigations : attempt[n].stage = "none"
  BY <1>1 DEF Init
<1>3. /\ epoch \in [navigation : 0 .. MaxNavigation, committed : BOOLEAN,
                    closed : BOOLEAN]
      /\ epoch.navigation = 0 /\ ~epoch.closed
  BY NoneIsNumber DEF Init, Fresh
<1>4. grants \in Seq(Navigations) /\ Len(grants) = 0
  BY DEF Init
<1>5. TypeOK
  BY <1>2, <1>3, <1>4, NoneIsNumber DEF Init, TypeOK
<1>6. Epochs /\ Documents /\ Sessions /\ NobodyOverlooked
  BY <1>3 DEF Init, Epochs, Documents, Sessions, NobodyOverlooked
<1>7. Granted(attempt) /\ Untold(attempt)
  BY <1>2 DEF Granted, Untold
<1> QED BY <1>5, <1>6, <1>7 DEF AdmissionInv

-----------------------------------------------------------------------------
(* Theorems *)

\* The invariant holds throughout every behaviour.
LEMMA AdmissionAlways == Spec => []AdmissionInv
<1>1. AdmissionInv /\ [Next]_vars => AdmissionInv'
  BY AdmissionNext
<1> QED BY <1>1, AdmissionInit, PTL DEF Spec

\* Engine, adapter, worker and applications keep the admission state
\* well-typed; in particular no more generations are granted than there are
\* navigations.
THEOREM AdmissionTypeCorrect == Spec => []TypeOK
<1>1. AdmissionInv => TypeOK
  BY DEF AdmissionInv
<1> QED BY <1>1, AdmissionAlways, PTL

\* The document that admit created is the one the window shows, and the
\* session that the adapter routes controls to was granted to the page it
\* shows, for any number of navigations.
THEOREM ServesWhatIsShown == Spec => []DocumentIsShown
<1>1. AdmissionInv => DocumentIsShown
  BY DEF AdmissionInv, Documents, Sessions, Epochs, DocumentIsShown
<1> QED BY <1>1, AdmissionAlways, PTL

\* ready() never waits for a session that is there or cannot come any more.
THEOREM WaitersServed == Spec => []NobodyOverlooked
<1>1. AdmissionInv => NobodyOverlooked
  BY DEF AdmissionInv
<1> QED BY <1>1, AdmissionAlways, PTL

\* A session that its page was told about is ended by that page, by the
\* adapter or by the close of the window, never by the late clean-up of
\* another attempt (AdmissionDelivery::drop).
THEOREM EndsOnlyKnowingly == Spec => EndsKnowingly
<1> DEFINE Ends == docGen # 0 /\ session = docGen /\ docGen' # docGen =>
                     session' = 0 \/ closed'
<1>1. AdmissionInv /\ [Next]_vars => [Ends]_vars
  <2> SUFFICES ASSUME AdmissionInv, Next, docGen # 0, session = docGen,
                      docGen' # docGen
               PROVE session' = 0 \/ closed'
    OBVIOUS
  <2>0. admitted /\ Untold(attempt)
    BY DEF AdmissionInv, Documents
  <2>1. ASSUME NEW a, NavigateFrom(a) PROVE session' = 0
    BY <2>1 DEF NavigateFrom, CloseFrom, Forget
  <2>2. CASE LoadStarted \/ Committed \/ Probed \/ Activated \/ Disconnect
             \/ UiClose
    BY <2>1, <2>2 DEF LoadStarted, Committed, Probed, Activated, Disconnect,
                      UiClose, CloseFrom, Forget, hostVars
  <2>3. CASE OwnerClose
    BY <2>3 DEF OwnerClose, HostClose, Retire
  <2>4. ASSUME NEW n \in Navigations, UiStep(n) PROVE session' = 0
    <3>1. CASE Hello(n)
      BY <2>1, <3>1 DEF Hello, hostVars
    <3>2. CASE Receive(n)
      BY <2>0, <3>2 DEF Receive, Delivered, Untold
    <3>3. CASE Expire(n)
      BY <2>1, <3>3 DEF Expire
    <3>4. CASE ReceiveError(n)
      BY <3>4 DEF ReceiveError, hostVars
    <3> QED BY <2>4, <3>1, <3>2, <3>3, <3>4 DEF UiStep
  <2>5. ASSUME NEW n \in Navigations, WorkerStep(n) PROVE FALSE
    <3>1. CASE WorkerStart(n) \/ WorkerRefuse(n) \/ WorkerSend(n)
      BY <3>1 DEF WorkerStart, WorkerRefuse, WorkerSend, hostVars
    <3>2. CASE WorkerGrant(n)
      BY <2>0, <3>2 DEF WorkerGrant, StillValid, Valid
    <3>3. CASE Undo(n)
      BY <2>0, <3>3 DEF Undo, OwnsDocument, Untold, hostVars
    <3> QED BY <2>5, <3>1, <3>2, <3>3 DEF WorkerStep
  <2>6. CASE \E w \in Waiters : Ready(w) \/ DropReady(w)
    BY <2>6 DEF Ready, DropReady, hostVars
  <2> QED BY <2>2, <2>3, <2>4, <2>5, <2>6 DEF Next
<1> QED BY <1>1, AdmissionAlways, PTL DEF Spec, EndsKnowingly

-----------------------------------------------------------------------------
(* IpcNotify *)
-----------------------------------------------------------------------------
(* The inductive invariants *)

\* A chain is what Notify makes of it: a notification not yet received has no
\* delivery, tail is the last one, and previous the one before, with none of
\* the same subscription in between.
Chained ==
  /\ \A n \in Notifications, s \in Slots :
       n > received => stage[n][s] = "none"
  /\ \A s \in Slots : tail[s] <= received
  /\ \A s \in Slots, m \in Notifications :
       stage[m][s] # "none" => m <= tail[s]
  /\ \A s \in Slots : \A m, n \in Notifications :
       m < n /\ stage[n][s] # "none" /\ stage[m][s] # "none" =>
         m <= previous[n][s]

\* While the document is there, a delivery that is over has left no earlier
\* one behind: InOrder alone says nothing of deliveries that are over, and so
\* nothing of the one whose end lets the next begin.
OverInOrder ==
  live => \A s \in Slots : \A m, n \in Notifications :
            m < n /\ stage[n][s] \in {"checked", "running", "over"} =>
              stage[m][s] \in {"none", "over"}

ChainInv == NotifyTypeOK /\ (engineClosed => ~live) /\ Chained /\ OverInOrder

\* An active subscription is known to the document or to the thread that
\* retires it, and its owner has not closed it.
SlotInv ==
  /\ ~live => subscriptions = {}
  /\ \A s \in Slots : active[s] =>
       s \in subscriptions \cup retiring /\ owner[s] = "held"

-----------------------------------------------------------------------------
(* Type correctness *)

\* Dropping what a task held leaves the deliveries well-typed.
LEMMA DropHeldType ==
  ASSUME stage \in [Notifications -> [Slots -> DeliveryStage]],
         NEW n \in Notifications, DropHeld(n)
  PROVE stage' \in [Notifications -> [Slots -> DeliveryStage]]
BY DEF DropHeld, DeliveryStage

\* Every critical section, worker step and call of the application leaves the
\* state well-typed.  A new delivery comes after its predecessor because no
\* chain ends beyond the last notification received.
LEMMA TypeNext ==
  ASSUME NotifyTypeOK, \A s \in Slots : tail[s] <= received, [NotifyNext]_notifyVars
  PROVE NotifyTypeOK'
<1> USE NotifyAssumption DEF NotifyTypeOK, slotVars
<1>1. CASE UNCHANGED notifyVars
  BY <1>1 DEF notifyVars
<1>2. ASSUME NEW s \in Slots, Subscribe(s) PROVE NotifyTypeOK'
  BY <1>2 DEF Subscribe
<1>3. ASSUME NEW s \in Slots, Dispose(s) PROVE NotifyTypeOK'
  BY <1>3 DEF Dispose
<1>4. ASSUME NEW s \in Slots, Disposed(s) PROVE NotifyTypeOK'
  BY <1>4 DEF Disposed
<1>5. ASSUME NEW s \in Slots, RetireSlot(s) PROVE NotifyTypeOK'
  BY <1>5 DEF RetireSlot
<1>6. ASSUME NEW terminal \in BOOLEAN, RetireDocument(terminal) PROVE NotifyTypeOK'
  BY <1>6 DEF RetireDocument
<1>7. CASE Notify
  <2>1. received + 1 \in Notifications /\ received' = received + 1
    BY <1>7 DEF Notify, Notifications
  <2>2. stage' \in [Notifications -> [Slots -> DeliveryStage]]
    BY <1>7, <2>1 DEF Notify, DeliveryStage
  <2>3. /\ previous' \in [Notifications -> [Slots -> 0 .. MaxNotification]]
        /\ tail' \in [Slots -> 0 .. MaxNotification]
    BY <1>7, <2>1 DEF Notify, Notifications
  <2>4. ASSUME NEW n \in Notifications, NEW s \in Slots
        PROVE previous'[n][s] < n
    <3>1. CASE n = received + 1
      <4>1. previous'[n][s] = IF s \in Listening THEN tail[s] ELSE 0
        BY <1>7, <2>1, <3>1 DEF Notify
      <4>2. tail[s] \in Nat /\ tail[s] <= received /\ received \in Nat
        OBVIOUS
      <4> QED BY <3>1, <4>1, <4>2
    <3>2. CASE n # received + 1
      BY <1>7, <3>2 DEF Notify
    <3> QED BY <3>1, <3>2
  <2> HIDE DEF NotifyTypeOK
  <2> QED BY <1>7, <2>1, <2>2, <2>3, <2>4, SMTT(30) DEF Notify, Notifications, NotifyTypeOK
<1>8. ASSUME NEW n \in Notifications, Acknowledge(n) PROVE NotifyTypeOK'
  <2>1. stage' \in [Notifications -> [Slots -> DeliveryStage]]
    BY <1>8, DropHeldType DEF Acknowledge
  <2> QED BY <1>8, <2>1 DEF Acknowledge
<1>9. ASSUME NEW n \in Notifications, Spawn(n) PROVE NotifyTypeOK'
  <2>1. stage' \in [Notifications -> [Slots -> DeliveryStage]]
    <3>1. CASE \E s \in Slots : stage' = [stage EXCEPT ![n][s] = "waiting"]
      <4>1. PICK s \in Slots : stage' = [stage EXCEPT ![n][s] = "waiting"]
        BY <3>1
      <4> QED BY <4>1 DEF DeliveryStage
    <3>2. CASE DropHeld(n)
      BY <3>2, DropHeldType
    <3> QED BY <1>9, <3>1, <3>2 DEF Spawn
  <2> QED BY <1>9, <2>1 DEF Spawn
<1>10. ASSUME NEW n \in Notifications, NEW s \in Slots, Check(n, s) PROVE NotifyTypeOK'
  BY <1>10 DEF Check, DeliveryStage
<1>11. ASSUME NEW n \in Notifications, NEW s \in Slots, Start(n, s) PROVE NotifyTypeOK'
  BY <1>11 DEF Start, DeliveryStage
<1>12. ASSUME NEW n \in Notifications, NEW s \in Slots, Finish(n, s) PROVE NotifyTypeOK'
  BY <1>12 DEF Finish, DeliveryStage
<1> QED BY <1>1, <1>2, <1>3, <1>4, <1>5, <1>6, <1>7, <1>8, <1>9, <1>10, <1>11,
           <1>12 DEF NotifyNext
-----------------------------------------------------------------------------
(* The chain of deliveries *)

\* A step that neither adds nor removes a delivery keeps the chains.
LEMMA SameChains ==
  ASSUME NotifyTypeOK, Chained, UNCHANGED <<received, tail, previous>>,
         \A n \in Notifications, s \in Slots :
           stage'[n][s] = "none" <=> stage[n][s] = "none"
  PROVE Chained'
BY DEF Chained

\* What DropHeld does to one delivery
LEMMA DropHeldEach ==
  ASSUME NotifyTypeOK, NEW n \in Notifications, DropHeld(n),
         NEW m \in Notifications, NEW s \in Slots
  PROVE stage'[m][s] = IF m = n /\ stage[m][s] = "held" THEN "over"
                                                      ELSE stage[m][s]
BY DEF DropHeld, NotifyTypeOK

\* The critical section of notify appends one delivery to the chain of every
\* active subscription.
LEMMA NotifyChained ==
  ASSUME NotifyTypeOK, Chained, Notify
  PROVE Chained'
<1>1. /\ received + 1 \in Notifications /\ received' = received + 1
      /\ received \in Nat
  BY NotifyAssumption DEF Notify, Notifications, NotifyTypeOK
<1>2. ASSUME NEW m \in Notifications, NEW s \in Slots
      PROVE /\ m # received + 1 => /\ stage'[m][s] = stage[m][s]
                                   /\ previous'[m][s] = previous[m][s]
            /\ m = received + 1 =>
                 /\ stage'[m][s] = IF s \in Listening THEN "held" ELSE "none"
                 /\ s \in Listening => previous'[m][s] = tail[s]
            /\ tail'[s] = IF s \in Listening THEN received + 1 ELSE tail[s]
  BY <1>1 DEF Notify, NotifyTypeOK
<1>3. ASSUME NEW s \in Slots PROVE tail[s] \in Nat /\ tail[s] <= received
  BY NotifyAssumption DEF NotifyTypeOK, Chained
<1>4. \A n \in Notifications : n \in Nat
  BY DEF Notifications
<1>5. ASSUME NEW n \in Notifications, NEW s \in Slots, n > received'
      PROVE stage'[n][s] = "none"
  BY <1>1, <1>2, <1>4, <1>5 DEF Chained
<1>6. ASSUME NEW s \in Slots PROVE tail'[s] <= received'
  BY <1>1, <1>2, <1>3
<1>7. ASSUME NEW s \in Slots, NEW m \in Notifications, stage'[m][s] # "none"
      PROVE m <= tail'[s]
  <2>1. CASE m = received + 1
    BY <1>1, <1>2, <1>7, <2>1
  <2>2. CASE m # received + 1
    <3>1. stage[m][s] # "none"
      BY <1>2, <1>7, <2>2
    <3>2. m <= tail[s]
      BY <3>1 DEF Chained
    <3> QED BY <1>1, <1>2, <1>3, <1>4, <3>2
  <2> QED BY <2>1, <2>2
<1>8. ASSUME NEW s \in Slots, NEW m \in Notifications, NEW n \in Notifications,
             m < n, stage'[n][s] # "none", stage'[m][s] # "none"
      PROVE m <= previous'[n][s]
  <2>1. m # received + 1
    <3>1. CASE n = received + 1
      BY <1>4, <1>8, <3>1
    <3>2. CASE n # received + 1
      <4>1. stage[n][s] # "none"
        BY <1>2, <1>8, <3>2
      <4>2. ~(n > received)
        BY <4>1 DEF Chained
      <4> QED BY <1>1, <1>4, <1>8, <4>2
    <3> QED BY <3>1, <3>2
  <2>2. stage[m][s] # "none"
    BY <1>2, <1>8, <2>1
  <2>3. CASE n = received + 1
    <3>1. previous'[n][s] = tail[s]
      BY <1>2, <1>8, <2>3
    <3> QED BY <2>2, <3>1 DEF Chained
  <2>4. CASE n # received + 1
    BY <1>2, <1>8, <2>2, <2>4 DEF Chained
  <2> QED BY <2>3, <2>4
<1> QED BY <1>5, <1>6, <1>7, <1>8 DEF Chained

\* The delivery before n's has its turn over when n's comes, and all of those
\* before it are over as well.
LEMMA TurnInOrder ==
  ASSUME ChainInv, live, NEW n \in Notifications, NEW s \in Slots,
         stage[n][s] # "none", MyTurn(n, s),
         NEW m \in Notifications, m < n
  PROVE stage[m][s] \in {"none", "over"}
<1> SUFFICES ASSUME stage[m][s] # "none" PROVE stage[m][s] = "over"
  OBVIOUS
<1>1. m <= previous[n][s]
  BY DEF ChainInv, Chained
<1>2. /\ previous[n][s] \in 0 .. MaxNotification /\ previous[n][s] < n
      /\ MaxNotification \in Nat /\ m \in Nat /\ m >= 1
  BY NotifyAssumption DEF ChainInv, NotifyTypeOK, Notifications
<1>3. PICK p \in Notifications : p = previous[n][s]
  BY <1>1, <1>2 DEF Notifications
<1>4. stage[p][s] = "over"
  BY <1>3 DEF MyTurn
<1>5. CASE m = p
  BY <1>4, <1>5
<1>6. CASE m < p
  BY <1>4, <1>6 DEF ChainInv, OverInOrder
<1> QED BY <1>1, <1>2, <1>3, <1>5, <1>6

\* A step that moves one delivery, from a stage that holds up the later ones,
\* when all the earlier ones are over, keeps the chain in order.
LEMMA MoveInOrder ==
  ASSUME ChainInv, NEW n \in Notifications, NEW s \in Slots, NEW to \in DeliveryStage,
         stage' = [stage EXCEPT ![n][s] = to],
         stage[n][s] \in {"held", "waiting", "checked", "running"},
         to # "none",
         to # "waiting" /\ live =>
           \A m \in Notifications : m < n => stage[m][s] \in {"none", "over"},
         UNCHANGED <<engineClosed, live, received, tail, previous>>
  PROVE (engineClosed' => ~live') /\ Chained' /\ OverInOrder'
<1> USE DEF ChainInv
<1>1. ASSUME NEW m \in Notifications, NEW r \in Slots
      PROVE stage'[m][r] = IF m = n /\ r = s THEN to ELSE stage[m][r]
  BY DEF NotifyTypeOK
<1>2. Chained'
  BY <1>1, SameChains
<1>3. ASSUME live', NEW r \in Slots, NEW m \in Notifications,
             NEW p \in Notifications, m < p,
             stage'[p][r] \in {"checked", "running", "over"}
      PROVE stage'[m][r] \in {"none", "over"}
  <2>1. CASE p = n /\ r = s
    <3>1. m # n /\ to # "waiting"
      BY <1>1, <1>3, <2>1 DEF Notifications
    <3> QED BY <1>1, <1>3, <2>1, <3>1
  <2>2. CASE ~(p = n /\ r = s)
    <3>1. stage[p][r] \in {"checked", "running", "over"}
      BY <1>1, <1>3, <2>2
    <3>2. stage[m][r] \in {"none", "over"}
      BY <1>3, <3>1 DEF OverInOrder
    <3>3. ~(m = n /\ r = s)
      BY <3>2
    <3> QED BY <1>1, <3>2, <3>3
  <2> QED BY <2>1, <2>2
<1> QED BY <1>2, <1>3 DEF OverInOrder

\* Dropping what a task held keeps the chain in order: it happens when the
\* document has gone, or when the task holds nothing.
LEMMA DropInOrder ==
  ASSUME ChainInv, NEW n \in Notifications, DropHeld(n),
         live => \A s \in Slots : stage[n][s] # "held",
         UNCHANGED <<engineClosed, live, received, tail, previous>>
  PROVE (engineClosed' => ~live') /\ Chained' /\ OverInOrder'
<1> USE DEF ChainInv
<1>1. Chained'
  BY DropHeldEach, SameChains
<1>2. ASSUME live PROVE OverInOrder'
  <2>1. \A m \in Notifications, s \in Slots : stage'[m][s] = stage[m][s]
    BY <1>2, DropHeldEach
  <2> QED BY <2>1 DEF OverInOrder
<1> QED BY <1>1, <1>2 DEF OverInOrder

\* The chains survive every step: what Check lets through is in order by the
\* chain, and only the end of the document drops deliveries out of order.
LEMMA ChainNext ==
  ASSUME ChainInv, [NotifyNext]_notifyVars
  PROVE ChainInv'
<1> USE DEF slotVars
<1>0. NotifyTypeOK'
  BY TypeNext DEF ChainInv, Chained
<1> SUFFICES (engineClosed' => ~live') /\ Chained' /\ OverInOrder'
  BY <1>0 DEF ChainInv
<1>1. ASSUME UNCHANGED <<engineClosed, live, received, tail, previous, stage>>
      PROVE (engineClosed' => ~live') /\ Chained' /\ OverInOrder'
  BY <1>1 DEF ChainInv, Chained, OverInOrder
<1>2. CASE UNCHANGED notifyVars
  BY <1>1, <1>2 DEF notifyVars
<1>3. CASE \E s \in Slots :
             Subscribe(s) \/ Dispose(s) \/ Disposed(s) \/ RetireSlot(s)
  BY <1>1, <1>3 DEF Subscribe, Dispose, Disposed, RetireSlot
<1>4. CASE \E terminal \in BOOLEAN : RetireDocument(terminal)
  <2>1. ~live' /\ UNCHANGED <<received, tail, previous, stage>>
    BY <1>4 DEF RetireDocument
  <2>2. Chained'
    BY <2>1 DEF ChainInv, Chained
  <2> QED BY <2>1, <2>2 DEF OverInOrder
<1>5. CASE Notify
  <2>1. Chained'
    BY <1>5, NotifyChained DEF ChainInv
  <2>2. ASSUME NEW s \in Slots, NEW m \in Notifications, NEW n \in Notifications,
               m < n, stage'[n][s] \in {"checked", "running", "over"}
        PROVE stage'[m][s] \in {"none", "over"}
    <3>1. \A k \in Notifications : k # received + 1 => stage'[k][s] = stage[k][s]
      BY <1>5 DEF Notify, ChainInv, NotifyTypeOK
    <3>2. n # received + 1
      <4> SUFFICES ASSUME n = received + 1 PROVE FALSE
        OBVIOUS
      <4>1. stage'[n][s] \in {"held", "none"}
        BY <1>5 DEF Notify, ChainInv, NotifyTypeOK
      <4> QED BY <2>2, <4>1
    <3>3. stage[n][s] \in {"checked", "running", "over"}
      BY <2>2, <3>1, <3>2
    <3>4. ~(n > received) /\ n \in Nat /\ m \in Nat /\ received \in Nat
      BY <3>3, NotifyAssumption DEF ChainInv, Chained, NotifyTypeOK, Notifications
    <3>5. m # received + 1
      BY <2>2, <3>4
    <3>6. stage[m][s] \in {"none", "over"}
      BY <1>5, <2>2, <3>3 DEF ChainInv, OverInOrder, Notify
    <3> QED BY <3>1, <3>5, <3>6
  <2> QED BY <1>5, <2>1, <2>2 DEF ChainInv, OverInOrder, Notify
<1>6. ASSUME NEW n \in Notifications, Acknowledge(n)
      PROVE (engineClosed' => ~live') /\ Chained' /\ OverInOrder'
  <2>1. CASE live
    BY <1>1, <1>6, <2>1 DEF Acknowledge
  <2>2. CASE ~live
    BY <1>6, <2>2, DropInOrder DEF Acknowledge
  <2> QED BY <2>1, <2>2
<1>7. ASSUME NEW n \in Notifications, Spawn(n)
      PROVE (engineClosed' => ~live') /\ Chained' /\ OverInOrder'
  <2>1. CASE \E s \in Slots : /\ stage[n][s] = "held"
                              /\ stage' = [stage EXCEPT ![n][s] = "waiting"]
    <3>1. PICK s \in Slots : /\ stage[n][s] = "held"
                             /\ stage' = [stage EXCEPT ![n][s] = "waiting"]
      BY <2>1
    <3>2. "waiting" \in DeliveryStage
      BY DEF DeliveryStage
    <3> QED BY <1>7, <3>1, <3>2, MoveInOrder DEF Spawn
  <2>2. CASE (engineClosed \/ \A s \in Slots : stage[n][s] # "held") /\ DropHeld(n)
    BY <1>7, <2>2, DropInOrder DEF Spawn, ChainInv
  <2> QED BY <1>7, <2>1, <2>2 DEF Spawn
<1>8. ASSUME NEW n \in Notifications, NEW s \in Slots, Check(n, s)
      PROVE (engineClosed' => ~live') /\ Chained' /\ OverInOrder'
  <2>1. live => \A m \in Notifications : m < n => stage[m][s] \in {"none", "over"}
    BY <1>8, TurnInOrder DEF Check
  <2>2. PICK to \in DeliveryStage : /\ to \in {"checked", "over"}
                            /\ stage' = [stage EXCEPT ![n][s] = to]
    BY <1>8 DEF Check, DeliveryStage
  <2> QED BY <1>8, <2>1, <2>2, MoveInOrder, ZenonT(60) DEF Check
<1>9. ASSUME NEW n \in Notifications, NEW s \in Slots, Start(n, s)
      PROVE (engineClosed' => ~live') /\ Chained' /\ OverInOrder'
  <2>1. live => \A m \in Notifications : m < n => stage[m][s] \in {"none", "over"}
    BY <1>9 DEF Start, ChainInv, OverInOrder
  <2>2. "running" \in DeliveryStage
    BY DEF DeliveryStage
  <2> QED BY <1>9, <2>1, <2>2, MoveInOrder DEF Start
<1>10. ASSUME NEW n \in Notifications, NEW s \in Slots, Finish(n, s)
      PROVE (engineClosed' => ~live') /\ Chained' /\ OverInOrder'
  <2>1. live => \A m \in Notifications : m < n => stage[m][s] \in {"none", "over"}
    BY <1>10 DEF Finish, ChainInv, OverInOrder
  <2>2. "over" \in DeliveryStage
    BY DEF DeliveryStage
  <2> QED BY <1>10, <2>1, <2>2, MoveInOrder DEF Finish
<1> QED BY <1>2, <1>3, <1>4, <1>5, <1>6, <1>7, <1>8, <1>9, <1>10 DEF NotifyNext

\* No notification has been received, so every chain is empty.
LEMMA ChainInit == NotifyInit => ChainInv
<1> SUFFICES ASSUME NotifyInit PROVE ChainInv
  OBVIOUS
<1>1. \A n \in Notifications, s \in Slots :
        stage[n][s] = "none" /\ previous[n][s] = 0 /\ n \in Nat /\ n >= 1
  BY DEF NotifyInit, Notifications
<1>2. NotifyTypeOK
  <2>1. 0 \in 0 .. MaxNotification
    BY NotifyAssumption
  <2>2. /\ engineClosed \in BOOLEAN /\ live \in BOOLEAN
        /\ subscriptions \in SUBSET Slots /\ retiring \in SUBSET Slots
        /\ received \in 0 .. MaxNotification
    BY <2>1 DEF NotifyInit
  <2>3. /\ owner \in [Slots -> {"none", "held", "closing", "gone"}]
        /\ active \in [Slots -> BOOLEAN]
        /\ tail \in [Slots -> 0 .. MaxNotification]
    BY <2>1 DEF NotifyInit
  <2>4. /\ task \in [Notifications -> {"none", "validating", "spawning", "end"}]
        /\ valid \in [Notifications -> BOOLEAN]
    BY DEF NotifyInit
  <2>5. previous \in [Notifications -> [Slots -> 0 .. MaxNotification]]
    BY <2>1 DEF NotifyInit
  <2>6. stage \in [Notifications -> [Slots -> DeliveryStage]]
    BY DEF NotifyInit, DeliveryStage
  <2>7. \A n \in Notifications, s \in Slots : previous[n][s] < n
    BY <1>1
  <2> QED BY <2>2, <2>3, <2>4, <2>5, <2>6, <2>7 DEF NotifyTypeOK
<1>3. Chained
  BY <1>1 DEF NotifyInit, Chained
<1>4. OverInOrder
  BY <1>1 DEF OverInOrder
<1> QED BY <1>2, <1>3, <1>4 DEF NotifyInit, ChainInv

\* Each chain's order holds in every reachable state.
LEMMA ChainAlways == NotifySpec => []ChainInv
<1>1. ChainInv /\ [NotifyNext]_notifyVars => ChainInv'
  BY ChainNext
<1> QED BY <1>1, ChainInit, PTL DEF NotifySpec

-----------------------------------------------------------------------------
(* Subscriptions and their document *)

\* Every step keeps an active subscription within reach of retirement.
LEMMA SlotNext ==
  ASSUME NotifyTypeOK, SlotInv, [NotifyNext]_notifyVars
  PROVE SlotInv'
<1> USE DEF SlotInv, NotifyTypeOK, slotVars
<1>1. CASE UNCHANGED notifyVars
  BY <1>1 DEF notifyVars
<1>2. ASSUME NEW s \in Slots, Subscribe(s) PROVE SlotInv'
  BY <1>2 DEF Subscribe
<1>3. ASSUME NEW s \in Slots, Dispose(s) PROVE SlotInv'
  BY <1>3 DEF Dispose
<1>4. ASSUME NEW s \in Slots, Disposed(s) PROVE SlotInv'
  BY <1>4 DEF Disposed
<1>5. ASSUME NEW s \in Slots, RetireSlot(s) PROVE SlotInv'
  BY <1>5 DEF RetireSlot
<1>6. ASSUME NEW terminal \in BOOLEAN, RetireDocument(terminal) PROVE SlotInv'
  BY <1>6 DEF RetireDocument
<1>7. CASE Notify
  BY <1>7 DEF Notify
<1>8. CASE \E n \in Notifications : Acknowledge(n) \/ Spawn(n)
  BY <1>8 DEF Acknowledge, Spawn
<1>9. CASE \E n \in Notifications, s \in Slots :
             Check(n, s) \/ Start(n, s) \/ Finish(n, s)
  BY <1>9 DEF Check, Start, Finish
<1> QED BY <1>1, <1>2, <1>3, <1>4, <1>5, <1>6, <1>7, <1>8, <1>9 DEF NotifyNext

-----------------------------------------------------------------------------
(* Theorems *)

\* Whatever the workers' order, the notification machinery stays well-typed,
\* and a delivery's predecessor is always an earlier notification.
THEOREM NotifyTypeCorrect == NotifySpec => []NotifyTypeOK
<1>1. ChainInv => NotifyTypeOK
  BY DEF ChainInv
<1> QED BY <1>1, ChainAlways, PTL

\* While the document is there, callbacks of a subscription start in the order
\* in which notify received the notifications and never overlap, for any
\* number of workers, subscriptions and notifications.
THEOREM CallbacksInOrder == NotifySpec => []InOrderWhileLive
<1>1. ChainInv => InOrderWhileLive
  BY DEF ChainInv, OverInOrder, InOrderWhileLive, InOrder
<1> QED BY <1>1, ChainAlways, PTL

\* Once retire_matching has closed the subscriptions it took, none is active:
\* subscribe, dispose and retirement cannot miss each other.
THEOREM SubscriptionsEnd == NotifySpec => []NoSlotOutlives
<1>1. NotifyInit => SlotInv
  BY DEF NotifyInit, SlotInv
<1>2. NotifyTypeOK /\ SlotInv /\ [NotifyNext]_notifyVars => SlotInv'
  BY SlotNext
<1>3. SlotInv => NoSlotOutlives
  BY DEF SlotInv, NoSlotOutlives
<1> QED BY <1>1, <1>2, <1>3, NotifyTypeCorrect, PTL DEF NotifySpec
=============================================================================

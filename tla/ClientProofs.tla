---------------------------- MODULE ClientProofs ----------------------------
(***************************************************************************)
(* Proofs about two parts of the page: RouterNavigation, for any paths, any *)
(* size of the cache and any number of navigations, hovers and destroy()    *)
(* calls; and LazyRegions, for any regions, shared templates and finitely   *)
(* many bindings of any hosts, and any number of renders, activations and   *)
(* collections.  The two specifications share no variable and no theorem    *)
(* uses both.                                                               *)
(***************************************************************************)
EXTENDS RouterNavigation, LazyRegions, FiniteSetTheorems, WellFoundedInduction, TLAPS

-----------------------------------------------------------------------------
(* The inductive invariant *)

\* The phases in which a navigation may take its boundary down
Going == Waiting \cup {"inside", "committed", "abandoned", "dropping", "thrown"}

\* Every navigation has numbers of its own, none beyond the router's.
Numbers(n) ==
  /\ nav[n].gen <= gen /\ nav[n].bgen <= boundary.gen
  /\ nav[n].phase = "idle" <=> nav[n].gen = 0
Apart(m, n) ==
  /\ nav[m].phase # "idle" => nav[m].gen # nav[n].gen
  /\ nav[m].phase \in Going /\ nav[n].phase \in Going => nav[m].bgen # nav[n].bgen
Numbered == /\ gen >= 1 /\ (\A n \in Jobs : Numbers(n))
            /\ \A m, n \in Jobs : m # n => Apart(m, n)

\* How far the request of a navigation is, by how far the navigation is
Stage(n) ==
  /\ nav[n].phase = "fetching" => req[n].phase \in {"reading", "preparing"}
  /\ nav[n].phase \in Going \ {"fetching"} => req[n].phase \in {"none", "done", "paused"}
  /\ nav[n].phase \in {"booting", "failing", "rejected"} => req[n].phase \in {"none", "done"}
  /\ nav[n].phase = "ended" => req[n].phase \in {"none", "done", "draining"}
  /\ nav[n].phase = "idle" => req[n].phase # "paused"
Staged == \A n \in Jobs : Stage(n)

\* A request is for the path of its navigation, and what it leaves unread is
\* what the navigation will show.
Fits(n) ==
  /\ nav[n].phase \notin {"idle", "ended"} /\ req[n].phase \in Unfinished
       => req[n].path = nav[n].path
  /\ req[n].phase = "paused" => nav[n].phase = "dropping" \/ Own(n)
Fitting == \A n \in Jobs : Fits(n)

\* A request that was not aborted is of the latest navigation, or of a hover
\* over a link to somewhere else.
Pending(n) == req[n].phase \in Unfinished /\ ~req[n].aborted
Wanted(n) ==
  Pending(n) => IF nav[n].phase = "idle" THEN req[n].path # current ELSE nav[n].gen = gen
Tracks == tracked = {j \in Jobs : Pending(j)}
Requested == Tracks /\ \A n \in Jobs : Wanted(n)

\* The boundary is at the disposal of the latest navigation until it commits.
Bounded == \A n \in Jobs : nav[n].gen = gen /\ nav[n].phase \in Waiting
                             => nav[n].bgen = boundary.gen

\* A commit or a mount is alone on the stack: what it started is still to come.
Stacked ==
  /\ inside # 0 => nav[inside].phase \in Waiting \cup {"inside", "failing"}
  /\ \A n \in Jobs : nav[n].phase = "inside" => inside = n /\ nav[n].base = active
  /\ \A n \in Jobs : nav[n].phase = "failing" => inside = n
  /\ inside # 0 => \A n \in Jobs : nav[n].gen = gen =>
                     n = inside \/ nav[n].phase \in {"fetching", "loading"}
  /\ inside # 0 => \E n \in Jobs : nav[n].gen = gen

\* The page on display is of an earlier navigation than the one that commits.
Ordered ==
  active.nav # 0 =>
    /\ nav[active.nav].phase # "idle"
    /\ \A n \in Jobs : nav[n].phase = "inside" => nav[active.nav].gen <= nav[n].gen

\* What the latest navigation compared with, showed and still reads
Shows(n) ==
  /\ nav[n].phase = "transition" /\ nav[n].gen = gen => nav[n].base = active
  /\ nav[n].phase = "committed" /\ nav[n].gen = gen => active.data = nav[n].data
  /\ nav[n].phase = "ended" /\ req[n].phase = "draining" /\ Pending(n)
       => active.data = <<req[n].path, n>>
Showing == StatesOfPage /\ \A n \in Jobs : Shows(n)

\* What the cache serves, and what was served from it, has arrived.
Entries == [data : Responses, complete : BOOLEAN]
CacheTypes ==
  /\ cache = [entries |-> cache.entries, order |-> cache.order]
  /\ cache.entries \in [Paths -> Entries \cup {[data |-> None]}]
Kept == \A p \in Paths : Cache!Hit(cache, p) => cache.entries[p].data \in arrived
FetchedAnew == \A n \in Jobs : nav[n].phase = "fetching" => ~nav[n].cached
Served == CacheTypes /\ Kept /\ ServedWhole /\ FetchedAnew

RouterInv ==
  /\ TypeOK /\ Numbered /\ Staged /\ Fitting /\ Requested /\ Bounded /\ BoundaryOwned
  /\ Stacked /\ Ordered /\ Showing /\ Served

-----------------------------------------------------------------------------
(* Types *)

NavRecord == [phase : Phases, path : Paths, gen : Nat, bgen : Nat,
              signal : {"none", "live", "aborted"}, data : Responses \cup {None},
              cached : BOOLEAN, base : Pages \cup {None}]
ReqRecord == [phase : Unfinished \cup {"none", "done"}, path : Paths, gen : Nat,
              aborted : BOOLEAN, streaming : BOOLEAN]
BoundaryRecord == [gen : Nat, timer : Jobs \cup {0}, pending : Jobs \cup {0},
                   error : Jobs \cup {0}]

\* The types, by variable
NavTypes == nav \in [Jobs -> NavRecord]
ReqTypes == req \in [Jobs -> ReqRecord] /\ tracked \in SUBSET Jobs
BoundaryTypes == boundary \in BoundaryRecord
PageTypes == /\ current \in Paths /\ active \in Pages /\ gen \in Nat
             /\ arrived \in SUBSET Responses
             /\ given \in [states : SUBSET (Responses \cup {None}),
                           torn : SUBSET (Responses \cup {None})]
RestTypes == /\ started \in BOOLEAN /\ inside \in Jobs \cup {0} /\ startup \in Jobs \cup {0}
             /\ hover \in [latest : Jobs \cup {0}, path : Paths \cup {None}]

LEMMA TypeParts ==
  /\ TypeOK <=> NavTypes /\ ReqTypes /\ BoundaryTypes /\ PageTypes /\ RestTypes
  /\ TypeOK' <=> NavTypes' /\ ReqTypes' /\ BoundaryTypes' /\ PageTypes' /\ RestTypes'
BY DEF TypeOK, NavTypes, ReqTypes, BoundaryTypes, PageTypes, RestTypes, NavRecord, ReqRecord,
       BoundaryRecord

\* The empty records
LEMMA EmptyRecords ==
  /\ NoNav \in NavRecord /\ NoReq \in ReqRecord /\ NoPage \in Pages
  /\ \A n \in Jobs : n \in Nat /\ n # 0
<1>1. Home \in Paths /\ MaxJobs \in Nat
  BY RouterAssumption
<1>2. NoNav \in NavRecord
  BY <1>1 DEF NoNav, NavRecord, Phases
<1>3. NoReq \in ReqRecord
  BY <1>1 DEF NoReq, ReqRecord
<1>4. NoPage \in Pages
  BY DEF NoPage, Pages
<1> QED BY <1>1, <1>2, <1>3, <1>4 DEF Jobs

LEMMA BornType ==
  ASSUME NEW p \in Paths, NEW g \in Nat, NEW b \in Nat, NEW s \in {"none", "live", "aborted"}
  PROVE [NoNav EXCEPT !.path = p, !.gen = g, !.bgen = b, !.signal = s] \in NavRecord
BY EmptyRecords DEF NavRecord

\* What the cache serves is a response.
LEMMA HitType ==
  ASSUME CacheTypes, NEW p \in Paths, Cache!Hit(cache, p)
  PROVE cache.entries[p].data \in Responses /\ cache.entries[p].complete
<1>1. cache.entries[p] \in Entries
  BY DEF CacheTypes, Cache!Hit, Cache!Has, Cache!Absent
<1> QED BY <1>1 DEF Entries, Cache!Hit

\* Aborting signals and requests changes nothing else of them.
LEMMA SignalsType ==
  ASSUME NavTypes
  PROVE /\ SignalsAborted \in [Jobs -> NavRecord]
        /\ \A m \in Jobs : SignalsAborted[m] = nav[m] \/
             SignalsAborted[m] = [nav[m] EXCEPT !.signal = "aborted"]
BY DEF NavTypes, SignalsAborted, NavRecord

LEMMA AbortedType ==
  ASSUME ReqTypes, NEW jobs
  PROVE Aborted(jobs) \in [Jobs -> ReqRecord]
BY DEF ReqTypes, Aborted, ReqRecord

LEMMA DoneType ==
  ASSUME NEW reqs \in [Jobs -> ReqRecord], NEW j \in Jobs
  PROVE Done(reqs, j) \in [Jobs -> ReqRecord]
<1>1. [NoReq EXCEPT !.phase = "done"] \in ReqRecord
  BY EmptyRecords DEF ReqRecord
<1> QED BY <1>1 DEF Done

LEMMA EndedType ==
  ASSUME NEW navs \in [Jobs -> NavRecord], NEW n \in Jobs
  PROVE Ended(navs, n) \in [Jobs -> NavRecord]
<1>1. navs[n].gen \in Nat
  BY DEF NavRecord
<1>2. [NoNav EXCEPT !.phase = "ended", !.gen = navs[n].gen] \in NavRecord
  BY <1>1, EmptyRecords DEF NavRecord, Phases
<1> QED BY <1>2 DEF Ended

\* Navigations
LEMMA NavTypesNext ==
  ASSUME TypeOK, Served, [Next]_vars
  PROVE NavTypes'
<1> USE DEF coreVars, histVars
<1>0. NavTypes /\ SignalsAborted \in [Jobs -> NavRecord] /\ PageTypes /\ ReqTypes /\ BoundaryTypes
  BY TypeParts, SignalsType
<1>p. {"fetching", "loading", "transition", "inside", "committed", "abandoned", "dropping",
       "failing", "thrown", "rejected", "ended"} \subseteq Phases
  BY DEF Phases
<1>a. UNCHANGED nav => NavTypes'
  BY <1>0 DEF NavTypes
<1>g. ASSUME NEW n \in Jobs, NEW ph \in Phases, Goes(n, ph) PROVE NavTypes'
  BY <1>g, <1>0 DEF NavTypes, Goes, NavRecord
<1>e. ASSUME NEW n \in Jobs, Ends(n) PROVE NavTypes'
  BY <1>e, <1>0, EndedType DEF NavTypes, Ends
<1>d. ASSUME NEW n \in Jobs, NEW d \in Responses \cup {None}, NEW reqs, Departs(n, d, reqs) PROVE NavTypes'
  <2>1. PICK s \in [Jobs -> NavRecord] : nav' = [s EXCEPT ![n].phase = "abandoned", ![n].data = d]
    BY <1>d, <1>0 DEF Departs, NavTypes
  <2>2. [s[n] EXCEPT !.phase = "abandoned", !.data = d] \in NavRecord
    BY <2>1, <1>p DEF NavRecord
  <2>3. nav' = [s EXCEPT ![n] = [s[n] EXCEPT !.phase = "abandoned", !.data = d]]
    BY <2>1
  <2> QED BY <2>1, <2>2, <2>3 DEF NavTypes
<1>s. ASSUME NEW navs \in [Jobs -> NavRecord], Destroyed(navs) PROVE NavTypes'
  BY <1>s DEF NavTypes, NavRecord, Destroyed
<1>r. \A n \in Jobs : /\ nav[n].data \in Responses \cup {None} /\ nav[n].path \in Paths
                      /\ <<nav[n].path, n>> \in Responses
  BY <1>0 DEF NavTypes, NavRecord, Responses
<1>1j. 1 \in Jobs
  BY RouterAssumption DEF Jobs
<1>1. CASE UNCHANGED vars
  BY <1>1, <1>a DEF vars
<1>2. ASSUME NEW n \in Jobs, NEW p \in Paths, NEW s \in {"live", "none"}, HandleNavigation(n, p, s),
           Navigate(n, p) \/ Start(n) PROVE NavTypes'
  <2> DEFINE s0 == SignalsAborted
             born == [NoNav EXCEPT !.path = p, !.gen = gen + 1, !.bgen = boundary.gen + 1,
                                   !.signal = s]
  <2>1. s0 \in [Jobs -> NavRecord] /\ gen \in Nat /\ boundary.gen \in Nat
    BY <1>0 DEF PageTypes, BoundaryTypes, BoundaryRecord
  <2>2. /\ [born EXCEPT !.phase = "fetching"] \in NavRecord
        /\ \A d \in Responses : [born EXCEPT !.phase = "loading", !.cached = TRUE, !.data = d] \in NavRecord
    <3>1. born \in NavRecord
      <4>1. gen + 1 \in Nat /\ boundary.gen + 1 \in Nat /\ s \in {"none", "live", "aborted"}
        BY <2>1
      <4> QED BY <4>1, BornType
    <3> HIDE DEF born
    <3> QED BY <3>1, <1>p DEF NavRecord
  <2>3. Cache!Hit(cache, p) => cache.entries[p].data \in Responses
    BY HitType DEF Served
  <2>4. \/ /\ Cache!Hit(cache, p)
           /\ nav' = [s0 EXCEPT ![n] = [born EXCEPT !.phase = "loading", !.cached = TRUE,
                                                    !.data = cache.entries[p].data]]
        \/ nav' = [s0 EXCEPT ![n] = [born EXCEPT !.phase = "fetching"]]
    BY <1>2 DEF HandleNavigation, Cleared
  <2> HIDE DEF s0, born
  <2> QED BY <2>1, <2>2, <2>3, <2>4 DEF NavTypes
<1>3. ASSUME NEW n \in Jobs, NEW p \in Paths, Hover(n, p) PROVE NavTypes'
  BY <1>3, <1>a DEF Hover
<1>4. ASSUME NEW p \in Paths, EntryGoes(p) PROVE NavTypes'
  BY <1>4, <1>a DEF EntryGoes
<1>5. ASSUME NEW n \in Jobs, Mismatch(n) PROVE NavTypes'
  BY <1>5, <1>g, <1>e, <1>p DEF Mismatch
<1>6. ASSUME NEW n \in Jobs, Fetched(n) PROVE NavTypes'
  <2>1. CASE nav' = [nav EXCEPT ![n].phase = "loading", ![n].data = <<nav[n].path, n>>]
    <3>1. [nav[n] EXCEPT !.phase = "loading", !.data = <<nav[n].path, n>>] \in NavRecord
      BY <1>0, <1>p, <1>r, ZenonT(60) DEF NavTypes, NavRecord
    <3>2. nav' = [nav EXCEPT ![n] = [nav[n] EXCEPT !.phase = "loading", !.data = <<nav[n].path, n>>]]
      BY <2>1, <1>0 DEF NavTypes
    <3> QED BY <1>0, <3>1, <3>2 DEF NavTypes
  <2>2. CASE Departs(n, <<nav[n].path, n>>, Handed(n))
    BY <2>2, <1>d, <1>r
  <2> QED BY <1>6, <2>1, <2>2 DEF Fetched
<1>7. ASSUME NEW n \in Jobs, FetchedDocument(n) PROVE NavTypes'
  BY <1>7, <1>0, EndedType DEF FetchedDocument, NavTypes
<1>8. ASSUME NEW n \in Jobs, Failed(n) PROVE NavTypes'
  BY <1>8, <1>e DEF Failed
<1>9. ASSUME NEW n \in Jobs, Loaded(n) PROVE NavTypes'
  <2>1. active \in Pages
    BY <1>0 DEF PageTypes
  <2>2. [nav[n] EXCEPT !.phase = "transition", !.base = active] \in NavRecord
    BY <2>1, <1>0, <1>p, ZenonT(60) DEF NavTypes, NavRecord
  <2>3. nav' = [nav EXCEPT ![n] = [nav[n] EXCEPT !.phase = "transition", !.base = active]]
    BY <1>9, <1>0 DEF NavTypes, Loaded
  <2> QED BY <1>0, <2>2, <2>3 DEF NavTypes
<1>10. ASSUME NEW n \in Jobs, LoadedLate(n) PROVE NavTypes'
  BY <1>10, <1>g, <1>p DEF LoadedLate, Phases
<1>11. ASSUME NEW n \in Jobs, LoadedUnknown(n) PROVE NavTypes'
  BY <1>11, <1>d, <1>r DEF LoadedUnknown
<1>12. ASSUME NEW n \in Jobs, LoadFails(n) PROVE NavTypes'
  BY <1>12, <1>g, <1>p DEF LoadFails, Phases
<1>13. ASSUME NEW n \in Jobs, Commit(n) PROVE NavTypes'
  BY <1>13, <1>g, <1>p DEF Commit, Phases
<1>14. ASSUME NEW n \in Jobs, CommitEnd(n) PROVE NavTypes'
  BY <1>14, <1>g, <1>p DEF CommitEnd, Phases
<1>15. ASSUME NEW n \in Jobs, CommitThrows(n) PROVE NavTypes'
  BY <1>15, <1>g, <1>p DEF CommitThrows, Phases
<1>16. ASSUME NEW n \in Jobs, Settled(n) PROVE NavTypes'
  BY <1>16, <1>e, <1>g, <1>p DEF Settled
<1>17. ASSUME NEW n \in Jobs, Abandon(n) PROVE NavTypes'
  BY <1>17, <1>e DEF Abandon
<1>18. ASSUME NEW n \in Jobs, Thrown(n) PROVE NavTypes'
  BY <1>18, <1>g, <1>p DEF Thrown, Phases
<1>19. ASSUME NEW n \in Jobs, Rejected(n) PROVE NavTypes'
  <2>1. Ended(nav, n) \in [Jobs -> NavRecord]
    BY <1>0, EndedType DEF NavTypes
  <2> QED BY <1>19, <2>1, <1>s DEF NavTypes, Rejected
<1>20. ASSUME NEW n \in Jobs, TailTimesOut(n) PROVE NavTypes'
  BY <1>20, <1>a DEF TailTimesOut, Aborted, Released
<1>21. ASSUME NEW n \in Jobs, Hovered(n) PROVE NavTypes'
  BY <1>21, <1>a DEF Hovered, Preloads, Delivers, Whole, Done, ReleaseUnlessStreaming, HoverOver
<1>22. ASSUME NEW n \in Jobs, HoverFails(n) PROVE NavTypes'
  BY <1>22, <1>a DEF HoverFails, Preloads, Breaks, Done, Released, HoverOver
<1>23. ASSUME NEW n \in Jobs, ReadFirst(n) PROVE NavTypes'
  BY <1>23, <1>a DEF ReadFirst
<1>24. ASSUME NEW n \in Jobs, StatesArrive(n) PROVE NavTypes'
  BY <1>24, <1>a DEF StatesArrive, Streams, Applies
<1>25. ASSUME NEW n \in Jobs, StreamEnds(n) PROVE NavTypes'
  BY <1>25, <1>a DEF StreamEnds, Streams, StreamOver, Done, Released
<1>26. ASSUME NEW n \in Jobs, StreamBreaks(n) PROVE NavTypes'
  BY <1>26, <1>a DEF StreamBreaks, StreamOver, Done, Released
<1>27. CASE HashChange
  BY <1>27, <1>0 DEF HashChange, NavTypes
<1>28. CASE PendingTimer
  BY <1>28, <1>a DEF PendingTimer
<1>29. CASE BootDone
  BY <1>29, <1>e, <1>1j DEF BootDone
<1>30. CASE BootFails
  BY <1>30, <1>g, <1>p, <1>1j DEF BootFails
<1>31. CASE Destroy
  BY <1>31, <1>0, <1>s DEF Destroy, NavTypes
<1>32. ASSUME NEW n \in Jobs, FailedMounts(n) PROVE NavTypes'
  BY <1>32, <1>g, <1>p DEF FailedMounts, Phases
<1>33. ASSUME NEW n \in Jobs, ErrorMounted(n) PROVE NavTypes'
  BY <1>33, <1>e DEF ErrorMounted
<1>34. CASE PendingMounted
  BY <1>34, <1>a DEF PendingMounted
<1> QED
  BY <1>1, <1>2, <1>3, <1>4, <1>5, <1>6, <1>7, <1>8, <1>9, <1>10, <1>11, <1>12,
     <1>13, <1>14, <1>15, <1>16, <1>17, <1>18, <1>19, <1>20, <1>21, <1>22, <1>23, <1>24,
     <1>25, <1>26, <1>27, <1>28, <1>29, <1>30, <1>31, <1>32, <1>33, <1>34,
     RouterAssumption
  DEF Next, NavStep, Navigate, Start

\* Requests
LEMMA ReqTypesNext ==
  ASSUME TypeOK, [Next]_vars
  PROVE ReqTypes'
<1> USE DEF coreVars, histVars
<1>0. ReqTypes /\ NavTypes /\ PageTypes /\ RestTypes
  BY TypeParts
<1>a. UNCHANGED <<req, tracked>> => ReqTypes'
  BY <1>0 DEF ReqTypes
<1>b. \A jobs : Aborted(jobs) \in [Jobs -> ReqRecord]
  BY <1>0, AbortedType
<1>d. \A j \in Jobs : Done(req, j) \in [Jobs -> ReqRecord]
  BY <1>0, DoneType DEF ReqTypes
<1>f. ASSUME NEW j \in Jobs, NEW ph \in Unfinished
      PROVE [req EXCEPT ![j].phase = ph] \in [Jobs -> ReqRecord]
  <2>1. [req[j] EXCEPT !.phase = ph] \in ReqRecord
    BY <1>0, <1>f DEF ReqTypes, ReqRecord
  <2>2. [req EXCEPT ![j].phase = ph] = [req EXCEPT ![j] = [req[j] EXCEPT !.phase = ph]]
    OBVIOUS
  <2> QED BY <1>0, <2>1, <2>2 DEF ReqTypes
<1>h. \A j \in Jobs : Handed(j) \in [Jobs -> ReqRecord]
  BY <1>d, <1>f DEF Handed, Unfinished
<1>q. ASSUME NEW n \in Jobs, NEW d, NEW reqs \in [Jobs -> ReqRecord], Departs(n, d, reqs)
      PROVE ReqTypes'
  <2>1. PICK cut \in BOOLEAN :
          /\ req' = [reqs EXCEPT ![n].aborted = @ \/ cut]
          /\ tracked' = IF reqs[n].phase = "paused" /\ ~cut THEN tracked ELSE tracked \ {n}
    BY <1>q DEF Departs
  <2>2. [reqs[n] EXCEPT !.aborted = @ \/ cut] \in ReqRecord
    BY <2>1 DEF ReqRecord
  <2>3. req' = [reqs EXCEPT ![n] = [reqs[n] EXCEPT !.aborted = @ \/ cut]]
    BY <2>1
  <2>4. req' \in [Jobs -> ReqRecord]
    BY <2>2, <2>3
  <2>5. tracked' \in SUBSET Jobs
    BY <1>0, <2>1 DEF ReqTypes
  <2> QED BY <2>4, <2>5 DEF ReqTypes
<1>n. ASSUME NEW p \in Paths PROVE [NoReq EXCEPT !.phase = "reading", !.path = p] \in ReqRecord
  BY <1>n, EmptyRecords DEF ReqRecord, Unfinished
<1>1. CASE UNCHANGED vars
  BY <1>1, <1>a DEF vars
<1>2. ASSUME NEW n \in Jobs, NEW p \in Paths, NEW s \in {"live", "none"}, HandleNavigation(n, p, s),
           Navigate(n, p) \/ Start(n) PROVE ReqTypes'
  <2>1. \/ req' = Aborted(tracked) /\ tracked' = {}
        \/ /\ req' = [Aborted(tracked) EXCEPT ![n] = [NoReq EXCEPT !.phase = "reading", !.path = p]]
           /\ tracked' = {n}
    BY <1>2 DEF HandleNavigation, AbortPartials
  <2>2. Aborted(tracked) \in [Jobs -> ReqRecord]
    BY <1>b
  <2>3. [NoReq EXCEPT !.phase = "reading", !.path = p] \in ReqRecord
    BY <1>n
  <2> QED BY <2>1, <2>2, <2>3 DEF ReqTypes
<1>3. ASSUME NEW n \in Jobs, NEW p \in Paths, Hover(n, p) PROVE ReqTypes'
  BY <1>3, <1>0, <1>b, <1>n DEF Hover, ReqTypes
<1>4. ASSUME NEW p \in Paths, EntryGoes(p) PROVE ReqTypes'
  BY <1>4, <1>a DEF EntryGoes
<1>5. ASSUME NEW n \in Jobs, Mismatch(n) PROVE ReqTypes'
  BY <1>5, <1>0, <1>h DEF Mismatch, ReleaseUnlessStreaming, ReqTypes
<1>6. ASSUME NEW n \in Jobs, Fetched(n) PROVE ReqTypes'
  BY <1>6, <1>0, <1>h, <1>q DEF Fetched, ReleaseUnlessStreaming, ReqTypes
<1>7. ASSUME NEW n \in Jobs, FetchedDocument(n) PROVE ReqTypes'
  BY <1>7, <1>0, <1>d DEF FetchedDocument, Released, ReqTypes
<1>8. ASSUME NEW n \in Jobs, Failed(n) PROVE ReqTypes'
  BY <1>8, <1>0, <1>d DEF Failed, Released, ReqTypes
<1>9. ASSUME NEW n \in Jobs, Loaded(n) PROVE ReqTypes'
  BY <1>9, <1>a DEF Loaded
<1>10. ASSUME NEW n \in Jobs, LoadedLate(n) PROVE ReqTypes'
  BY <1>10, <1>a DEF LoadedLate, Goes, Invalidate, Cleared
<1>11. ASSUME NEW n \in Jobs, LoadedUnknown(n) PROVE ReqTypes'
  BY <1>11, <1>0, <1>q DEF LoadedUnknown, ReqTypes
<1>12. ASSUME NEW n \in Jobs, LoadFails(n) PROVE ReqTypes'
  BY <1>12, <1>a DEF LoadFails, Goes, Invalidate, Cleared
<1>13. ASSUME NEW n \in Jobs, Commit(n) PROVE ReqTypes'
  BY <1>13, <1>a DEF Commit, Goes, Invalidate, Cleared
<1>14. ASSUME NEW n \in Jobs, CommitEnd(n) PROVE ReqTypes'
  BY <1>14, <1>a DEF CommitEnd, Goes
<1>15. ASSUME NEW n \in Jobs, CommitThrows(n) PROVE ReqTypes'
  BY <1>15, <1>a DEF CommitThrows, Goes
<1>16. ASSUME NEW n \in Jobs, Settled(n) PROVE ReqTypes'
  BY <1>16, <1>0 DEF Settled, ReqTypes, ReqRecord, Unfinished
<1>17. ASSUME NEW n \in Jobs, Abandon(n) PROVE ReqTypes'
  BY <1>17, <1>0, <1>d DEF Abandon, CancelDeferred, ReqTypes
<1>18. ASSUME NEW n \in Jobs, Thrown(n) PROVE ReqTypes'
  BY <1>18, <1>0, <1>d DEF Thrown, CancelDeferred, ReqTypes
<1>19. ASSUME NEW n \in Jobs, Rejected(n) PROVE ReqTypes'
  BY <1>19, <1>0, <1>b DEF Rejected, Destroyed, AbortPartials, ReqTypes
<1>20. ASSUME NEW n \in Jobs, TailTimesOut(n) PROVE ReqTypes'
  BY <1>20, <1>0, <1>b DEF TailTimesOut, Released, ReqTypes
<1>21. ASSUME NEW n \in Jobs, Hovered(n) PROVE ReqTypes'
  <2>1. req' \in [Jobs -> ReqRecord]
    BY <1>21, <1>d, <1>f DEF Hovered, Unfinished
  <2>2. tracked' \in SUBSET Jobs
    BY <1>21, <1>0 DEF Hovered, ReleaseUnlessStreaming, ReqTypes
  <2> QED BY <2>1, <2>2 DEF ReqTypes
<1>22. ASSUME NEW n \in Jobs, HoverFails(n) PROVE ReqTypes'
  BY <1>22, <1>0, <1>d DEF HoverFails, Released, ReqTypes
<1>23. ASSUME NEW n \in Jobs, ReadFirst(n) PROVE ReqTypes'
  <2>1. PICK b \in BOOLEAN :
          req' = [req EXCEPT ![n] = [req[n] EXCEPT !.phase = "preparing", !.streaming = b, !.gen = gen]]
    BY <1>23, <1>0 DEF ReadFirst, ReqTypes
  <2>2. [req[n] EXCEPT !.phase = "preparing", !.streaming = b, !.gen = gen] \in ReqRecord
    BY <1>0 DEF ReqTypes, ReqRecord, Unfinished, PageTypes
  <2> QED BY <1>23, <2>1, <2>2, <1>0 DEF ReqTypes, ReadFirst
<1>24. ASSUME NEW n \in Jobs, StatesArrive(n) PROVE ReqTypes'
  BY <1>24, <1>a DEF StatesArrive, Streams, Applies
<1>25. ASSUME NEW n \in Jobs, StreamEnds(n) PROVE ReqTypes'
  BY <1>25, <1>0, <1>d DEF StreamEnds, StreamOver, Released, ReqTypes
<1>26. ASSUME NEW n \in Jobs, StreamBreaks(n) PROVE ReqTypes'
  BY <1>26, <1>0, <1>d DEF StreamBreaks, StreamOver, Released, ReqTypes
<1>27. CASE HashChange
  BY <1>27, <1>0, <1>b DEF HashChange, ReqTypes
<1>28. CASE PendingTimer
  BY <1>28, <1>a DEF PendingTimer
<1>29. CASE BootDone
  BY <1>29, <1>a DEF BootDone, Ends, Ended
<1>30. CASE BootFails
  BY <1>30, <1>a DEF BootFails, Goes
<1>31. CASE Destroy
  BY <1>31, <1>0, <1>b DEF Destroy, Destroyed, AbortPartials, ReqTypes
<1>32. ASSUME NEW n \in Jobs, FailedMounts(n) PROVE ReqTypes'
  BY <1>32, <1>0, <1>d DEF FailedMounts, Released, ReqTypes
<1>33. ASSUME NEW n \in Jobs, ErrorMounted(n) PROVE ReqTypes'
  BY <1>33, <1>a DEF ErrorMounted
<1>34. CASE PendingMounted
  BY <1>34, <1>a DEF PendingMounted
<1> QED
  BY <1>1, <1>2, <1>3, <1>4, <1>5, <1>6, <1>7, <1>8, <1>9, <1>10, <1>11, <1>12,
     <1>13, <1>14, <1>15, <1>16, <1>17, <1>18, <1>19, <1>20, <1>21, <1>22, <1>23, <1>24,
     <1>25, <1>26, <1>27, <1>28, <1>29, <1>30, <1>31, <1>32, <1>33, <1>34,
     RouterAssumption
  DEF Next, NavStep, Navigate, Start

\* The boundary
LEMMA BoundaryTypesNext ==
  ASSUME TypeOK, [Next]_vars
  PROVE BoundaryTypes'
<1> USE DEF coreVars, histVars
<1>0. BoundaryTypes /\ RestTypes
  BY TypeParts
<1>a. UNCHANGED boundary => BoundaryTypes'
  BY <1>0 DEF BoundaryTypes
<1>c. Cleared(boundary) \in BoundaryRecord
  BY <1>0 DEF BoundaryTypes, Cleared, BoundaryRecord
<1>i. ASSUME NEW g, Invalidate(g) PROVE BoundaryTypes'
  BY <1>0, <1>c, <1>i DEF BoundaryTypes, Invalidate
<1>1. CASE UNCHANGED vars
  BY <1>1, <1>a DEF vars
<1>2. ASSUME NEW n \in Jobs, NEW p \in Paths, NEW s \in {"live", "none"}, HandleNavigation(n, p, s),
           Navigate(n, p) \/ Start(n) PROVE BoundaryTypes'
  BY <1>2, <1>c DEF HandleNavigation, BoundaryTypes, BoundaryRecord
<1>3. ASSUME NEW n \in Jobs, NEW p \in Paths, Hover(n, p) PROVE BoundaryTypes'
  BY <1>3, <1>a DEF Hover
<1>4. ASSUME NEW p \in Paths, EntryGoes(p) PROVE BoundaryTypes'
  BY <1>4, <1>a DEF EntryGoes
<1>5. ASSUME NEW n \in Jobs, Mismatch(n) PROVE BoundaryTypes'
  BY <1>5, <1>a, <1>i DEF Mismatch
<1>6. ASSUME NEW n \in Jobs, Fetched(n) PROVE BoundaryTypes'
  BY <1>6, <1>a, <1>i DEF Fetched, Departs
<1>7. ASSUME NEW n \in Jobs, FetchedDocument(n) PROVE BoundaryTypes'
  BY <1>7, <1>a, <1>i DEF FetchedDocument
<1>8. ASSUME NEW n \in Jobs, Failed(n) PROVE BoundaryTypes'
  BY <1>8, <1>i DEF Failed
<1>9. ASSUME NEW n \in Jobs, Loaded(n) PROVE BoundaryTypes'
  BY <1>9, <1>a DEF Loaded
<1>10. ASSUME NEW n \in Jobs, LoadedLate(n) PROVE BoundaryTypes'
  BY <1>10, <1>a, <1>i DEF LoadedLate
<1>11. ASSUME NEW n \in Jobs, LoadedUnknown(n) PROVE BoundaryTypes'
  BY <1>11, <1>i DEF LoadedUnknown, Departs
<1>12. ASSUME NEW n \in Jobs, LoadFails(n) PROVE BoundaryTypes'
  BY <1>12, <1>a, <1>i DEF LoadFails
<1>13. ASSUME NEW n \in Jobs, Commit(n) PROVE BoundaryTypes'
  BY <1>13, <1>a, <1>i DEF Commit
<1>14. ASSUME NEW n \in Jobs, CommitEnd(n) PROVE BoundaryTypes'
  BY <1>14, <1>a DEF CommitEnd, Goes
<1>15. ASSUME NEW n \in Jobs, CommitThrows(n) PROVE BoundaryTypes'
  BY <1>15, <1>a DEF CommitThrows, Goes
<1>16. ASSUME NEW n \in Jobs, Settled(n) PROVE BoundaryTypes'
  BY <1>16, <1>a DEF Settled, Goes, Ends, Ended, Paused
<1>17. ASSUME NEW n \in Jobs, Abandon(n) PROVE BoundaryTypes'
  BY <1>17, <1>a, <1>i DEF Abandon
<1>18. ASSUME NEW n \in Jobs, Thrown(n) PROVE BoundaryTypes'
  BY <1>18, <1>a, <1>i DEF Thrown
<1>19. ASSUME NEW n \in Jobs, Rejected(n) PROVE BoundaryTypes'
  BY <1>19, <1>a, <1>c DEF Rejected, Destroyed, BoundaryTypes
<1>20. ASSUME NEW n \in Jobs, TailTimesOut(n) PROVE BoundaryTypes'
  BY <1>20, <1>a DEF TailTimesOut, Aborted, Released
<1>21. ASSUME NEW n \in Jobs, Hovered(n) PROVE BoundaryTypes'
  BY <1>21, <1>a DEF Hovered, Preloads, Delivers, Whole, Done, ReleaseUnlessStreaming, HoverOver
<1>22. ASSUME NEW n \in Jobs, HoverFails(n) PROVE BoundaryTypes'
  BY <1>22, <1>a DEF HoverFails, Preloads, Breaks, Done, Released, HoverOver
<1>23. ASSUME NEW n \in Jobs, ReadFirst(n) PROVE BoundaryTypes'
  BY <1>23, <1>a DEF ReadFirst
<1>24. ASSUME NEW n \in Jobs, StatesArrive(n) PROVE BoundaryTypes'
  BY <1>24, <1>a DEF StatesArrive, Streams, Applies
<1>25. ASSUME NEW n \in Jobs, StreamEnds(n) PROVE BoundaryTypes'
  BY <1>25, <1>a DEF StreamEnds, Streams, StreamOver, Done, Released
<1>26. ASSUME NEW n \in Jobs, StreamBreaks(n) PROVE BoundaryTypes'
  BY <1>26, <1>a DEF StreamBreaks, StreamOver, Done, Released
<1>27. CASE HashChange
  BY <1>27, <1>a DEF HashChange, SignalsAborted, Aborted
<1>28. CASE PendingTimer
  BY <1>28, <1>0 DEF PendingTimer, BoundaryTypes, BoundaryRecord
<1>29. CASE BootDone
  BY <1>29, <1>a DEF BootDone, Ends, Ended
<1>30. CASE BootFails
  BY <1>30, <1>a DEF BootFails, Goes
<1>31. CASE Destroy
  BY <1>31, <1>a, <1>c DEF Destroy, Destroyed, BoundaryTypes
<1>32. ASSUME NEW n \in Jobs, FailedMounts(n) PROVE BoundaryTypes'
  BY <1>32, <1>c DEF FailedMounts, BoundaryTypes
<1>33. ASSUME NEW n \in Jobs, ErrorMounted(n) PROVE BoundaryTypes'
  BY <1>33, <1>0 DEF ErrorMounted, BoundaryTypes, BoundaryRecord
<1>34. CASE PendingMounted
  BY <1>34, <1>0 DEF PendingMounted, BoundaryTypes, BoundaryRecord, RestTypes
<1> QED
  BY <1>1, <1>2, <1>3, <1>4, <1>5, <1>6, <1>7, <1>8, <1>9, <1>10, <1>11, <1>12,
     <1>13, <1>14, <1>15, <1>16, <1>17, <1>18, <1>19, <1>20, <1>21, <1>22, <1>23, <1>24,
     <1>25, <1>26, <1>27, <1>28, <1>29, <1>30, <1>31, <1>32, <1>33, <1>34,
     RouterAssumption
  DEF Next, NavStep, Navigate, Start

\* The page on display
LEMMA PageTypesNext ==
  ASSUME TypeOK, [Next]_vars
  PROVE PageTypes'
<1> USE DEF coreVars, histVars
<1>0. NavTypes /\ ReqTypes /\ PageTypes /\ RestTypes
  BY TypeParts
<1>a. UNCHANGED <<current, active, gen, arrived, given>> => PageTypes'
  BY <1>0 DEF PageTypes
<1>r. \A n \in Jobs : /\ <<nav[n].path, n>> \in Responses /\ <<req[n].path, n>> \in Responses
                      /\ nav[n].data \in Responses \cup {None}
  BY <1>0 DEF NavTypes, ReqTypes, NavRecord, ReqRecord, Responses
<1>w. ASSUME NEW n \in Jobs, NEW d \in Responses, Whole(n, d) PROVE arrived' \in SUBSET Responses
  BY <1>w, <1>0 DEF Whole, PageTypes
<1>e. NoPage \in Pages /\ Home \in Paths
  BY EmptyRecords, RouterAssumption
<1>1. CASE UNCHANGED vars
  BY <1>1, <1>a DEF vars
<1>2. ASSUME NEW n \in Jobs, NEW p \in Paths, NEW s \in {"live", "none"}, HandleNavigation(n, p, s),
           Navigate(n, p) \/ Start(n) PROVE PageTypes'
  BY <1>2, <1>0 DEF HandleNavigation, PageTypes
<1>3. ASSUME NEW n \in Jobs, NEW p \in Paths, Hover(n, p) PROVE PageTypes'
  BY <1>3, <1>a DEF Hover
<1>4. ASSUME NEW p \in Paths, EntryGoes(p) PROVE PageTypes'
  BY <1>4, <1>a DEF EntryGoes
<1>5. ASSUME NEW n \in Jobs, Mismatch(n) PROVE PageTypes'
  BY <1>5, <1>a DEF Mismatch, Goes, Ends, Ended, Handed, Done, ReleaseUnlessStreaming,
     Invalidate, Cleared, Delivers
<1>6. ASSUME NEW n \in Jobs, Fetched(n) PROVE PageTypes'
  BY <1>6, <1>0, <1>r, <1>w DEF Fetched, PageTypes
<1>7. ASSUME NEW n \in Jobs, FetchedDocument(n) PROVE PageTypes'
  BY <1>7, <1>a DEF FetchedDocument, Ended, SignalsAborted, Invalidate, Cleared, Done, Released
<1>8. ASSUME NEW n \in Jobs, Failed(n) PROVE PageTypes'
  BY <1>8, <1>a DEF Failed, Breaks, Ends, Ended, Done, Released, Invalidate, Cleared
<1>9. ASSUME NEW n \in Jobs, Loaded(n) PROVE PageTypes'
  BY <1>9, <1>a DEF Loaded
<1>10. ASSUME NEW n \in Jobs, LoadedLate(n) PROVE PageTypes'
  BY <1>10, <1>a DEF LoadedLate, Goes, Invalidate, Cleared
<1>11. ASSUME NEW n \in Jobs, LoadedUnknown(n) PROVE PageTypes'
  BY <1>11, <1>a DEF LoadedUnknown
<1>12. ASSUME NEW n \in Jobs, LoadFails(n) PROVE PageTypes'
  BY <1>12, <1>a DEF LoadFails, Goes, Invalidate, Cleared
<1>13. ASSUME NEW n \in Jobs, Commit(n) PROVE PageTypes'
  BY <1>13, <1>a DEF Commit, Goes, Invalidate, Cleared
<1>14. ASSUME NEW n \in Jobs, CommitEnd(n) PROVE PageTypes'
  BY <1>14, <1>0, <1>r DEF CommitEnd, PageTypes, Pages
<1>15. ASSUME NEW n \in Jobs, CommitThrows(n) PROVE PageTypes'
  BY <1>15, <1>0, <1>r DEF CommitThrows, PageTypes
<1>16. ASSUME NEW n \in Jobs, Settled(n) PROVE PageTypes'
  BY <1>16, <1>a DEF Settled, Goes, Ends, Ended, Paused
<1>17. ASSUME NEW n \in Jobs, Abandon(n) PROVE PageTypes'
  BY <1>17, <1>a DEF Abandon, Ends, Ended, CancelDeferred, Done, Invalidate, Cleared
<1>18. ASSUME NEW n \in Jobs, Thrown(n) PROVE PageTypes'
  BY <1>18, <1>a DEF Thrown, Goes, CancelDeferred, Done, Invalidate, Cleared
<1>19. ASSUME NEW n \in Jobs, Rejected(n) PROVE PageTypes'
  BY <1>19, <1>0, <1>e DEF Rejected, Destroyed, PageTypes
<1>20. ASSUME NEW n \in Jobs, TailTimesOut(n) PROVE PageTypes'
  BY <1>20, <1>a DEF TailTimesOut, Aborted, Released
<1>21. ASSUME NEW n \in Jobs, Hovered(n) PROVE PageTypes'
  BY <1>21, <1>0, <1>r, <1>w DEF Hovered, PageTypes
<1>22. ASSUME NEW n \in Jobs, HoverFails(n) PROVE PageTypes'
  BY <1>22, <1>a DEF HoverFails, Preloads, Breaks, Done, Released, HoverOver
<1>23. ASSUME NEW n \in Jobs, ReadFirst(n) PROVE PageTypes'
  BY <1>23, <1>a DEF ReadFirst
<1>24. ASSUME NEW n \in Jobs, StatesArrive(n) PROVE PageTypes'
  BY <1>24, <1>0, <1>r DEF StatesArrive, PageTypes
<1>25. ASSUME NEW n \in Jobs, StreamEnds(n) PROVE PageTypes'
  BY <1>25, <1>0, <1>r DEF StreamEnds, StreamOver, PageTypes
<1>26. ASSUME NEW n \in Jobs, StreamBreaks(n) PROVE PageTypes'
  BY <1>26, <1>a DEF StreamBreaks, StreamOver
<1>27. CASE HashChange
  BY <1>27, <1>a DEF HashChange, SignalsAborted, Aborted
<1>28. CASE PendingTimer
  BY <1>28, <1>a DEF PendingTimer
<1>29. CASE BootDone
  BY <1>29, <1>a DEF BootDone, Ends, Ended
<1>30. CASE BootFails
  BY <1>30, <1>a DEF BootFails, Goes
<1>31. CASE Destroy
  BY <1>31, <1>0, <1>e DEF Destroy, Destroyed, PageTypes
<1>32. ASSUME NEW n \in Jobs, FailedMounts(n) PROVE PageTypes'
  BY <1>32, <1>a DEF FailedMounts
<1>33. ASSUME NEW n \in Jobs, ErrorMounted(n) PROVE PageTypes'
  BY <1>33, <1>a DEF ErrorMounted
<1>34. CASE PendingMounted
  BY <1>34, <1>a DEF PendingMounted
<1> QED
  BY <1>1, <1>2, <1>3, <1>4, <1>5, <1>6, <1>7, <1>8, <1>9, <1>10, <1>11, <1>12,
     <1>13, <1>14, <1>15, <1>16, <1>17, <1>18, <1>19, <1>20, <1>21, <1>22, <1>23, <1>24,
     <1>25, <1>26, <1>27, <1>28, <1>29, <1>30, <1>31, <1>32, <1>33, <1>34,
     RouterAssumption
  DEF Next, NavStep, Navigate, Start

\* Everything else
LEMMA RestTypesNext ==
  ASSUME TypeOK, [Next]_vars
  PROVE RestTypes'
<1> USE DEF coreVars, histVars
<1>0. NavTypes /\ ReqTypes /\ PageTypes /\ RestTypes /\ BoundaryTypes
  BY TypeParts
<1>a. UNCHANGED <<started, inside, startup, hover>> => RestTypes'
  BY <1>0 DEF RestTypes
<1>h. ASSUME NEW n \in Jobs, HoverOver(n), UNCHANGED <<started, inside, startup>> PROVE RestTypes'
  BY <1>h, <1>0 DEF RestTypes, HoverOver
<1>1. CASE UNCHANGED vars
  BY <1>1, <1>a DEF vars
<1>2. ASSUME NEW n \in Jobs, NEW p \in Paths, NEW s \in {"live", "none"}, HandleNavigation(n, p, s),
           Navigate(n, p) \/ Start(n) PROVE RestTypes'
  BY <1>2, <1>0 DEF HandleNavigation, Navigate, Start, RestTypes
<1>3. ASSUME NEW n \in Jobs, NEW p \in Paths, Hover(n, p) PROVE RestTypes'
  BY <1>3, <1>0 DEF Hover, RestTypes
<1>4. ASSUME NEW p \in Paths, EntryGoes(p) PROVE RestTypes'
  BY <1>4, <1>a DEF EntryGoes
<1>5. ASSUME NEW n \in Jobs, Mismatch(n) PROVE RestTypes'
  BY <1>5, <1>a DEF Mismatch, Goes, Ends, Ended, Handed, Done, ReleaseUnlessStreaming,
     Invalidate, Cleared, Delivers
<1>6. ASSUME NEW n \in Jobs, Fetched(n) PROVE RestTypes'
  BY <1>6, <1>a DEF Fetched
<1>7. ASSUME NEW n \in Jobs, FetchedDocument(n) PROVE RestTypes'
  BY <1>7, <1>a DEF FetchedDocument, Ended, SignalsAborted, Invalidate, Cleared, Done, Released
<1>8. ASSUME NEW n \in Jobs, Failed(n) PROVE RestTypes'
  BY <1>8, <1>a DEF Failed, Breaks, Ends, Ended, Done, Released, Invalidate, Cleared
<1>9. ASSUME NEW n \in Jobs, Loaded(n) PROVE RestTypes'
  BY <1>9, <1>a DEF Loaded
<1>10. ASSUME NEW n \in Jobs, LoadedLate(n) PROVE RestTypes'
  BY <1>10, <1>a DEF LoadedLate, Goes, Invalidate, Cleared
<1>11. ASSUME NEW n \in Jobs, LoadedUnknown(n) PROVE RestTypes'
  BY <1>11, <1>a DEF LoadedUnknown
<1>12. ASSUME NEW n \in Jobs, LoadFails(n) PROVE RestTypes'
  BY <1>12, <1>a DEF LoadFails, Goes, Invalidate, Cleared
<1>13. ASSUME NEW n \in Jobs, Commit(n) PROVE RestTypes'
  BY <1>13, <1>0 DEF Commit, RestTypes
<1>14. ASSUME NEW n \in Jobs, CommitEnd(n) PROVE RestTypes'
  BY <1>14, <1>0 DEF CommitEnd, RestTypes
<1>15. ASSUME NEW n \in Jobs, CommitThrows(n) PROVE RestTypes'
  BY <1>15, <1>0 DEF CommitThrows, RestTypes
<1>16. ASSUME NEW n \in Jobs, Settled(n) PROVE RestTypes'
  BY <1>16, <1>0 DEF Settled, RestTypes
<1>17. ASSUME NEW n \in Jobs, Abandon(n) PROVE RestTypes'
  BY <1>17, <1>0 DEF Abandon, RestTypes
<1>18. ASSUME NEW n \in Jobs, Thrown(n) PROVE RestTypes'
  BY <1>18, <1>a DEF Thrown, Goes, CancelDeferred, Done, Invalidate, Cleared
<1>19. ASSUME NEW n \in Jobs, Rejected(n) PROVE RestTypes'
  <2>1. CASE RollsBack(n)
    <3>1. Destroyed(Ended(nav, n))
      BY <1>19, <2>1 DEF Rejected
    <3> QED BY <3>1, <1>0 DEF RestTypes, Destroyed
  <2>2. CASE ~RollsBack(n)
    BY <1>19, <2>2, <1>0 DEF RestTypes, Rejected
  <2> QED BY <2>1, <2>2
<1>20. ASSUME NEW n \in Jobs, TailTimesOut(n) PROVE RestTypes'
  BY <1>20, <1>a DEF TailTimesOut, Aborted, Released
<1>21. ASSUME NEW n \in Jobs, Hovered(n) PROVE RestTypes'
  BY <1>21, <1>h DEF Hovered
<1>22. ASSUME NEW n \in Jobs, HoverFails(n) PROVE RestTypes'
  BY <1>22, <1>h DEF HoverFails
<1>23. ASSUME NEW n \in Jobs, ReadFirst(n) PROVE RestTypes'
  BY <1>23, <1>a DEF ReadFirst
<1>24. ASSUME NEW n \in Jobs, StatesArrive(n) PROVE RestTypes'
  BY <1>24, <1>a DEF StatesArrive, Streams, Applies
<1>25. ASSUME NEW n \in Jobs, StreamEnds(n) PROVE RestTypes'
  BY <1>25, <1>a DEF StreamEnds, StreamOver
<1>26. ASSUME NEW n \in Jobs, StreamBreaks(n) PROVE RestTypes'
  BY <1>26, <1>a DEF StreamBreaks, StreamOver
<1>27. CASE HashChange
  BY <1>27, <1>a DEF HashChange, SignalsAborted, Aborted
<1>28. CASE PendingTimer
  BY <1>28, <1>0 DEF PendingTimer, RestTypes, BoundaryTypes, BoundaryRecord
<1>29. CASE BootDone
  BY <1>29, <1>0 DEF BootDone, RestTypes
<1>30. CASE BootFails
  BY <1>30, <1>a DEF BootFails, Goes
<1>31. CASE Destroy
  BY <1>31, <1>0 DEF Destroy, Destroyed, RestTypes
<1>32. ASSUME NEW n \in Jobs, FailedMounts(n) PROVE RestTypes'
  BY <1>32, <1>0 DEF FailedMounts, RestTypes
<1>33. ASSUME NEW n \in Jobs, ErrorMounted(n) PROVE RestTypes'
  BY <1>33, <1>0 DEF ErrorMounted, RestTypes
<1>34. CASE PendingMounted
  BY <1>34, <1>0 DEF PendingMounted, RestTypes
<1> QED
  BY <1>1, <1>2, <1>3, <1>4, <1>5, <1>6, <1>7, <1>8, <1>9, <1>10, <1>11, <1>12,
     <1>13, <1>14, <1>15, <1>16, <1>17, <1>18, <1>19, <1>20, <1>21, <1>22, <1>23, <1>24,
     <1>25, <1>26, <1>27, <1>28, <1>29, <1>30, <1>31, <1>32, <1>33, <1>34,
     RouterAssumption
  DEF Next, NavStep, Navigate, Start

\* Types, of the whole
LEMMA TypesNext ==
  ASSUME TypeOK, Served, [Next]_vars
  PROVE TypeOK'
BY NavTypesNext, ReqTypesNext, BoundaryTypesNext, PageTypesNext, RestTypesNext, TypeParts

-----------------------------------------------------------------------------
(* What a step leaves alone *)

\* Of the jobs that are not its own a step only aborts the signal and the request.
SameNav(m) ==
  /\ nav'[m].phase = nav[m].phase /\ nav'[m].path = nav[m].path /\ nav'[m].gen = nav[m].gen
  /\ nav'[m].bgen = nav[m].bgen /\ nav'[m].data = nav[m].data /\ nav'[m].base = nav[m].base
  /\ nav'[m].cached => nav[m].cached
SameReq(m) ==
  /\ req'[m].phase = req[m].phase /\ req'[m].path = req[m].path
  /\ ~req'[m].aborted => ~req[m].aborted

\* The steps of one job
Opens(n) == \E p \in Paths, s \in {"live", "none"} : HandleNavigation(n, p, s)
Advances(n) ==
  \/ \E p \in Paths : Hover(n, p)
  \/ NavStep(n) \/ TailTimesOut(n) \/ Hovered(n) \/ HoverFails(n)
  \/ ReadFirst(n) \/ StatesArrive(n) \/ StreamEnds(n) \/ StreamBreaks(n)
  \/ n = 1 /\ (BootDone \/ BootFails)
NavActs(n) == Opens(n) \/ Advances(n)

LEMMA NavElsewhere ==
  ASSUME TypeOK, NEW n \in Jobs, NavActs(n), NEW m \in Jobs, m # n
  PROVE SameNav(m)
<1> USE DEF coreVars, histVars
<1>0. nav \in [Jobs -> NavRecord] /\ SignalsAborted \in [Jobs -> NavRecord]
  BY TypeParts, SignalsType DEF NavTypes
<1>s. ASSUME nav'[m] = SignalsAborted[m] PROVE SameNav(m)
  BY <1>0, <1>s DEF SameNav, SignalsAborted, NavRecord
<1>a. UNCHANGED nav => SameNav(m)
  BY DEF SameNav
<1>b. nav'[m] = nav[m] => SameNav(m)
  BY DEF SameNav
<1>g. ASSUME NEW ph, Goes(n, ph) PROVE SameNav(m)
  BY <1>0, <1>g DEF SameNav, Goes
<1>e. ASSUME Ends(n) PROVE SameNav(m)
  BY <1>0, <1>e DEF SameNav, Ends, Ended
<1>d. ASSUME NEW d, NEW reqs, Departs(n, d, reqs) PROVE SameNav(m)
  BY <1>0, <1>d, <1>s, <1>b DEF Departs
<1>1. ASSUME NEW p \in Paths, NEW s \in {"live", "none"}, HandleNavigation(n, p, s) PROVE SameNav(m)
  BY <1>1, <1>0, <1>s DEF HandleNavigation
<1>2. ASSUME NEW p \in Paths, Hover(n, p) PROVE SameNav(m)
  BY <1>2, <1>a DEF Hover
<1>3. CASE Mismatch(n)
  BY <1>3, <1>g, <1>e DEF Mismatch
<1>4. CASE Fetched(n)
  <2>1. CASE nav' = [nav EXCEPT ![n].phase = "loading", ![n].data = <<nav[n].path, n>>]
    BY <2>1, <1>0 DEF SameNav
  <2> QED BY <1>4, <2>1, <1>d DEF Fetched
<1>5. CASE FetchedDocument(n)
  BY <1>5, <1>0, <1>s DEF FetchedDocument, Ended
<1>6. CASE Failed(n) \/ FailedMounts(n) \/ ErrorMounted(n)
  BY <1>6, <1>e, <1>g DEF Failed, FailedMounts, ErrorMounted
<1>7. CASE Loaded(n)
  BY <1>7, <1>0 DEF Loaded, SameNav
<1>8. CASE LoadedLate(n) \/ LoadFails(n) \/ Commit(n) \/ CommitEnd(n) \/ CommitThrows(n) \/ Thrown(n)
  BY <1>8, <1>g DEF LoadedLate, LoadFails, Commit, CommitEnd, CommitThrows, Thrown
<1>9. CASE LoadedUnknown(n)
  BY <1>9, <1>d DEF LoadedUnknown
<1>10. CASE Settled(n) \/ Abandon(n)
  BY <1>10, <1>g, <1>e DEF Settled, Abandon
<1>11. CASE Rejected(n)
  <2> DEFINE ended == Ended(nav, n)
  <2>1. ended \in [Jobs -> NavRecord] /\ ended[m] = nav[m]
    BY <1>0, EndedType DEF Ended
  <2>2. nav' = ended \/ nav'[m] = [ended[m] EXCEPT !.signal = "aborted"] \/ nav'[m] = ended[m]
    <3> HIDE DEF ended
    <3>1. CASE Destroyed(ended)
      BY <3>1, <2>1 DEF Destroyed
    <3> QED BY <1>11, <3>1 DEF Rejected, ended
  <2> HIDE DEF ended
  <2> QED BY <2>1, <2>2, <1>0 DEF SameNav, NavRecord
<1>12. CASE \/ TailTimesOut(n) \/ Hovered(n) \/ HoverFails(n) \/ ReadFirst(n) \/ StatesArrive(n)
            \/ StreamEnds(n) \/ StreamBreaks(n)
  BY <1>12, <1>a DEF TailTimesOut, Hovered, HoverFails, ReadFirst, StatesArrive, StreamEnds,
     StreamBreaks, StreamOver
<1>13. CASE n = 1 /\ (BootDone \/ BootFails)
  BY <1>13, <1>e, <1>g DEF BootDone, BootFails
<1> QED BY <1>1, <1>2, <1>3, <1>4, <1>5, <1>6, <1>7, <1>8, <1>9, <1>10, <1>11, <1>12, <1>13
  DEF NavActs, Opens, Advances, NavStep

LEMMA ReqElsewhere ==
  ASSUME TypeOK, NEW n \in Jobs, NavActs(n), NEW m \in Jobs, m # n
  PROVE SameReq(m)
<1> USE DEF coreVars, histVars
<1>0. req \in [Jobs -> ReqRecord] /\ \A jobs : Aborted(jobs) \in [Jobs -> ReqRecord]
  BY TypeParts, AbortedType DEF ReqTypes
<1>s. ASSUME NEW jobs, req'[m] = Aborted(jobs)[m] PROVE SameReq(m)
  BY <1>0, <1>s DEF SameReq, Aborted, ReqRecord
<1>a. req'[m] = req[m] => SameReq(m)
  BY DEF SameReq
<1>d. req' = Done(req, n) => SameReq(m)
  BY <1>0 DEF SameReq, Done
<1>h. Handed(n) \in [Jobs -> ReqRecord] /\ Handed(n)[m] = req[m]
  BY <1>0, DoneType DEF Handed, Done, ReqRecord, Unfinished
<1>q. ASSUME NEW reqs \in [Jobs -> ReqRecord], NEW d, reqs[m] = req[m], Departs(n, d, reqs)
      PROVE SameReq(m)
  BY <1>0, <1>q DEF SameReq, Departs
<1>c. CancelDeferred(n) => SameReq(m)
  BY <1>a, <1>d DEF CancelDeferred
<1>1. ASSUME NEW p \in Paths, NEW s \in {"live", "none"}, HandleNavigation(n, p, s) PROVE SameReq(m)
  BY <1>1, <1>0, <1>s DEF HandleNavigation, AbortPartials
<1>2. ASSUME NEW p \in Paths, Hover(n, p) PROVE SameReq(m)
  BY <1>2, <1>0, <1>s DEF Hover
<1>3. CASE Mismatch(n)
  BY <1>3, <1>h, <1>a DEF Mismatch
<1>4. CASE Fetched(n)
  BY <1>4, <1>h, <1>a, <1>q DEF Fetched
<1>5. CASE \/ FetchedDocument(n) \/ Failed(n) \/ FailedMounts(n) \/ HoverFails(n) \/ StreamEnds(n)
           \/ StreamBreaks(n)
  BY <1>5, <1>d DEF FetchedDocument, Failed, FailedMounts, HoverFails, StreamEnds, StreamBreaks,
     StreamOver
<1>6. CASE \/ Loaded(n) \/ LoadedLate(n) \/ LoadFails(n) \/ Commit(n) \/ CommitEnd(n) \/ CommitThrows(n)
           \/ StatesArrive(n) \/ ErrorMounted(n)
  BY <1>6, <1>a DEF Loaded, LoadedLate, LoadFails, Commit, CommitEnd, CommitThrows, StatesArrive,
     ErrorMounted
<1>7. CASE LoadedUnknown(n)
  BY <1>7, <1>0, <1>q DEF LoadedUnknown
<1>8. CASE Settled(n)
  BY <1>8, <1>0, <1>a DEF Settled
<1>9. CASE Abandon(n) \/ Thrown(n)
  BY <1>9, <1>c DEF Abandon, Thrown
<1>10. CASE Rejected(n)
  BY <1>10, <1>a, <1>s DEF Rejected, Destroyed, AbortPartials
<1>11. CASE TailTimesOut(n)
  BY <1>11, <1>s DEF TailTimesOut
<1>12. CASE Hovered(n)
  BY <1>12, <1>0, <1>a, <1>d DEF Hovered
<1>13. CASE ReadFirst(n)
  BY <1>13, <1>0, <1>a DEF ReadFirst
<1>14. CASE n = 1 /\ (BootDone \/ BootFails)
  BY <1>14, <1>a DEF BootDone, BootFails
<1> QED BY <1>1, <1>2, <1>3, <1>4, <1>5, <1>6, <1>7, <1>8, <1>9, <1>10, <1>11, <1>12, <1>13, <1>14
  DEF NavActs, Opens, Advances, NavStep

\* The steps of no job in particular
Abroad ==
  HashChange \/ Destroy \/ PendingTimer \/ PendingMounted \/ \E p \in Paths : EntryGoes(p)

LEMMA AbroadSame ==
  ASSUME TypeOK, Abroad \/ UNCHANGED vars, NEW m \in Jobs
  PROVE SameNav(m) /\ SameReq(m)
<1> USE DEF coreVars, histVars
<1>0. /\ nav \in [Jobs -> NavRecord] /\ SignalsAborted \in [Jobs -> NavRecord]
      /\ req \in [Jobs -> ReqRecord] /\ \A jobs : Aborted(jobs) \in [Jobs -> ReqRecord]
  BY TypeParts, SignalsType, AbortedType DEF NavTypes, ReqTypes
<1>n. ASSUME nav'[m] = SignalsAborted[m] PROVE SameNav(m)
  BY <1>0, <1>n DEF SameNav, SignalsAborted, NavRecord
<1>s. ASSUME NEW jobs, req'[m] = Aborted(jobs)[m] PROVE SameReq(m)
  BY <1>0, <1>s DEF SameReq, Aborted, ReqRecord
<1>1. CASE HashChange
  BY <1>1, <1>n, <1>s DEF HashChange
<1>2. CASE Destroy
  <2>1. nav' = nav \/ nav' = SignalsAborted
    BY <1>2 DEF Destroy, Destroyed, SignalsAborted
  <2> QED BY <1>2, <2>1, <1>n, <1>s DEF Destroy, Destroyed, AbortPartials, SameNav
<1>3. CASE PendingTimer \/ PendingMounted \/ (\E p \in Paths : EntryGoes(p)) \/ UNCHANGED vars
  BY <1>3 DEF PendingTimer, PendingMounted, EntryGoes, SameNav, SameReq, vars
<1> QED BY <1>1, <1>2, <1>3 DEF Abroad

\* Every step is one of a job, or of none in particular.
LEMMA StepKinds ==
  ASSUME [Next]_vars
  PROVE (\E n \in Jobs : Opens(n) \/ Advances(n)) \/ Abroad \/ UNCHANGED vars
<1>1. 1 \in Jobs /\ Home \in Paths
  BY RouterAssumption DEF Jobs
<1>2. ASSUME NEW n \in Jobs, NEW p \in Paths, Navigate(n, p) PROVE Opens(n)
  BY <1>2 DEF Navigate, Opens
<1>3. ASSUME NEW n \in Jobs, Start(n) PROVE Opens(n)
  BY <1>1, <1>3 DEF Start, Opens
<1>4. ASSUME NEW n \in Jobs, NEW p \in Paths, Hover(n, p) PROVE Advances(n)
  BY <1>4 DEF Advances
<1> QED BY <1>1, <1>2, <1>3, <1>4 DEF Next, Advances, Abroad

-----------------------------------------------------------------------------
(* Numbers *)

\* What becomes of a navigation that a step does not start
Onward(m) ==
  /\ nav'[m].gen = nav[m].gen /\ nav'[m].bgen <= nav[m].bgen
  /\ nav'[m].phase = "idle" <=> nav[m].phase = "idle"
  /\ nav'[m].phase \in Going => nav[m].phase \in Going /\ nav'[m].bgen = nav[m].bgen
  /\ nav'[m].phase \in Waiting => nav[m].phase \in Waiting

\* A step moves its own navigation on.
LEMMA OnwardAdvance ==
  ASSUME RouterInv, NEW n \in Jobs, Advances(n)
  PROVE Onward(n)
<1> USE DEF coreVars, histVars
<1>0. NavTypes /\ SignalsAborted \in [Jobs -> NavRecord]
  BY TypeParts, SignalsType DEF RouterInv
<1>p. nav[n].bgen \in Nat
  BY <1>0 DEF NavTypes, NavRecord
<1>a. UNCHANGED nav => Onward(n)
  BY <1>0, <1>p DEF Onward
<1>e. nav'[n] = Ended(nav, n)[n] /\ nav[n].phase # "idle" => Onward(n)
  BY <1>0, <1>p DEF Onward, Ended, NoNav, NavTypes, NavRecord, Going, Waiting
<1>g. ASSUME NEW ph \in Phases \ (Waiting \cup {"idle"}), Goes(n, ph),
             nav[n].phase \in Going \/ (ph = "rejected" /\ nav[n].phase = "booting")
      PROVE Onward(n)
  BY <1>0, <1>p, <1>g DEF Onward, Goes, NavTypes, NavRecord, Going, Waiting
<1>s. /\ SignalsAborted[n].phase = nav[n].phase /\ SignalsAborted[n].gen = nav[n].gen
      /\ SignalsAborted[n].bgen = nav[n].bgen
  BY <1>0 DEF SignalsAborted, NavTypes, NavRecord
<1>d. ASSUME NEW d, NEW reqs, Departs(n, d, reqs), nav[n].phase \in Going PROVE Onward(n)
  BY <1>d, <1>0, <1>s, <1>p DEF Onward, Departs, NavTypes, NavRecord, Going, Waiting
<1>1. ASSUME NEW p \in Paths, Hover(n, p) PROVE Onward(n)
  BY <1>1, <1>a DEF Hover
<1>2. CASE Mismatch(n)
  BY <1>2, <1>g, <1>e DEF Mismatch, Ends, Phases, Going, Waiting
<1>3. CASE Fetched(n)
  <2>1. CASE nav' = [nav EXCEPT ![n].phase = "loading", ![n].data = <<nav[n].path, n>>]
    BY <1>3, <2>1, <1>0, <1>p DEF Onward, NavTypes, NavRecord, Fetched, Going, Waiting
  <2> QED BY <1>3, <2>1, <1>d DEF Fetched, Going, Waiting
<1>4. CASE FetchedDocument(n)
  BY <1>4, <1>0, <1>s, <1>p DEF FetchedDocument, Ended, Onward, NoNav, Going, Waiting
<1>5. CASE Failed(n)
  BY <1>5, <1>e DEF Failed, Ends
<1>6. CASE Loaded(n)
  BY <1>6, <1>0, <1>p DEF Loaded, Onward, NavTypes, NavRecord, Going, Waiting
<1>7. CASE LoadedLate(n)
  BY <1>7, <1>g DEF LoadedLate, Phases, Going, Waiting
<1>8. CASE LoadedUnknown(n)
  BY <1>8, <1>d DEF LoadedUnknown, Phases, Going, Waiting
<1>9. CASE LoadFails(n)
  BY <1>9, <1>g DEF LoadFails, Phases, Going, Waiting
<1>10. CASE Commit(n)
  BY <1>10, <1>g DEF Commit, Phases, Going, Waiting
<1>11. CASE CommitEnd(n)
  BY <1>11, <1>g DEF CommitEnd, Phases, Going, Waiting
<1>12. CASE CommitThrows(n)
  BY <1>12, <1>g DEF CommitThrows, Phases, Going, Waiting
<1>13. CASE Settled(n)
  BY <1>13, <1>g, <1>e DEF Settled, Ends, Phases, Going, Waiting
<1>14. CASE Abandon(n)
  BY <1>14, <1>e DEF Abandon, Ends
<1>15. CASE Thrown(n)
  BY <1>15, <1>g DEF Thrown, Phases, Going, Waiting
<1>16. CASE Rejected(n)
  <2>1. CASE nav' = Ended(nav, n)
    BY <1>16, <2>1, <1>e DEF Rejected
  <2>2. CASE Destroyed(Ended(nav, n))
    <3> DEFINE ended == Ended(nav, n)
    <3>1. ended \in [Jobs -> NavRecord] /\ ended[n].phase = "ended"
      BY <1>0, EndedType DEF Ended, NoNav, NavTypes
    <3>2. nav'[n] = ended[n]
      <4> HIDE DEF ended
      <4>1. Destroyed(ended)
        BY <2>2 DEF ended
      <4> QED BY <4>1, <3>1 DEF Destroyed
    <3> QED BY <1>16, <3>2, <1>e DEF Rejected
  <2> QED BY <1>16, <2>1, <2>2 DEF Rejected
<1>17. CASE TailTimesOut(n)
  BY <1>17, <1>a DEF TailTimesOut, Aborted, Released
<1>18. CASE Hovered(n)
  BY <1>18, <1>a DEF Hovered, Preloads, Delivers, Whole, Done, ReleaseUnlessStreaming, HoverOver
<1>19. CASE HoverFails(n)
  BY <1>19, <1>a DEF HoverFails, Preloads, Breaks, Done, Released, HoverOver
<1>20. CASE ReadFirst(n)
  BY <1>20, <1>a DEF ReadFirst
<1>21. CASE StatesArrive(n)
  BY <1>21, <1>a DEF StatesArrive, Streams, Applies
<1>22. CASE StreamEnds(n)
  BY <1>22, <1>a DEF StreamEnds, Streams, StreamOver, Done, Released
<1>23. CASE StreamBreaks(n)
  BY <1>23, <1>a DEF StreamBreaks, StreamOver, Done, Released
<1>24. CASE n = 1 /\ BootDone
  BY <1>24, <1>e DEF BootDone, Ends
<1>25. CASE n = 1 /\ BootFails
  BY <1>25, <1>g DEF BootFails, Phases, Going, Waiting
<1>26. CASE FailedMounts(n)
  BY <1>26, <1>g DEF FailedMounts, Phases, Going, Waiting
<1>27. CASE ErrorMounted(n)
  BY <1>27, <1>e DEF ErrorMounted, Ends
<1> QED
  BY <1>1, <1>2, <1>3, <1>4, <1>5, <1>6, <1>7, <1>8, <1>9, <1>10, <1>11, <1>12,
     <1>13, <1>14, <1>15, <1>16, <1>17, <1>18, <1>19, <1>20, <1>21, <1>22, <1>23, <1>24,
     <1>25, <1>26, <1>27
  DEF Advances, NavStep

\* What no navigation is started by leaves the router where it is, or resets it.
Steady == gen' = gen /\ current' = current
Reset ==
  /\ gen' = gen + 1 /\ current' = Home /\ active' = NoPage
  /\ given' = [states |-> {}, torn |-> {}]
  /\ req' = Aborted(tracked) /\ tracked' = {} /\ boundary' = Cleared(boundary)
  /\ cache' = Cache!Empty /\ inside' = inside /\ arrived' = arrived

LEMMA ResetSteps ==
  /\ Destroy => Reset
  /\ \A n \in Jobs : Rejected(n) /\ RollsBack(n) => Reset
BY DEF Destroy, Rejected, Destroyed, AbortPartials, Reset

LEMMA SteadyAdvance ==
  ASSUME NEW n \in Jobs, Advances(n)
  PROVE Steady \/ (Reset /\ Rejected(n))
<1> USE DEF coreVars, histVars
<1>1. CASE Rejected(n)
  BY <1>1, ResetSteps DEF Rejected, Steady
<1>2. CASE ~Rejected(n)
  BY <1>2 DEF Advances, NavStep, Steady, Hover, Mismatch, Fetched, FetchedDocument, Failed,
     FailedMounts, ErrorMounted, Loaded,
     LoadedLate, LoadedUnknown, LoadFails, Commit, CommitEnd, CommitThrows, Settled, Abandon, Thrown,
     TailTimesOut, Hovered, HoverFails, ReadFirst, StatesArrive, StreamEnds, StreamBreaks, StreamOver,
     BootDone, BootFails
<1> QED BY <1>1, <1>2

LEMMA SteadyAbroad ==
  ASSUME Abroad \/ UNCHANGED vars
  PROVE Steady \/ Reset
BY ResetSteps DEF Abroad, coreVars, histVars, HashChange, PendingTimer, PendingMounted, EntryGoes, Steady, vars

\* The boundary changes hands with the navigation that had it.
Vacated == boundary' = Cleared(boundary)
Yields(n) ==
  nav[n].phase \in Going /\ nav[n].bgen = boundary.gen /\ nav'[n].phase \notin Waiting /\ Vacated
Keeps(n) ==
  /\ UNCHANGED boundary
  /\ nav[n].phase \in Waiting /\ nav[n].bgen = boundary.gen => nav'[n].phase \in Waiting
Records(n) ==
  /\ boundary' = [boundary EXCEPT !.error = n] /\ inside = n /\ UNCHANGED gen
  /\ nav[n].phase = "failing" /\ nav'[n].phase = "ended" /\ nav'[n].gen = nav[n].gen
BoundaryStep(n) == Keeps(n) \/ Yields(n) \/ Records(n) \/ Reset

\* A step that takes the boundary down is of the navigation that has it.
LEMMA BoundaryAdvance ==
  ASSUME RouterInv, NEW n \in Jobs, Advances(n)
  PROVE BoundaryStep(n)
<1> USE DEF coreVars, histVars
<1>0. NavTypes /\ SignalsAborted \in [Jobs -> NavRecord] /\ BoundaryTypes
  BY TypeParts, SignalsType DEF RouterInv
<1>k. UNCHANGED boundary /\ (nav[n].phase \in Waiting => nav'[n].phase \in Waiting) => BoundaryStep(n)
  BY DEF BoundaryStep, Keeps
<1>i. ASSUME Invalidate(nav[n].bgen), nav[n].phase \in Going, nav'[n].phase \notin Waiting
      PROVE BoundaryStep(n)
  BY <1>i DEF BoundaryStep, Yields, Keeps, Vacated, Invalidate
<1>g. ASSUME NEW ph, Goes(n, ph) PROVE nav'[n].phase = ph
  BY <1>g, <1>0 DEF Goes, NavTypes, NavRecord
<1>e. Ends(n) => nav'[n].phase = "ended"
  BY <1>0 DEF Ends, Ended, NoNav, NavTypes
<1>d. ASSUME NEW d, NEW reqs, Departs(n, d, reqs) PROVE nav'[n].phase = "abandoned" /\ Invalidate(nav[n].bgen)
  BY <1>d, <1>0 DEF Departs, NavTypes, NavRecord
<1>1. ASSUME NEW p \in Paths, Hover(n, p) PROVE BoundaryStep(n)
  BY <1>1, <1>k DEF Hover
<1>2. CASE Mismatch(n)
  BY <1>2, <1>i, <1>g, <1>e DEF Mismatch, Going, Waiting
<1>3. CASE Fetched(n)
  <2>1. CASE nav' = [nav EXCEPT ![n].phase = "loading", ![n].data = <<nav[n].path, n>>] /\ UNCHANGED boundary
    BY <1>3, <2>1, <1>0, <1>k DEF NavTypes, NavRecord, Fetched, Waiting
  <2> QED BY <1>3, <2>1, <1>d, <1>i DEF Fetched, Going, Waiting
<1>4. CASE FetchedDocument(n)
  <2>1. nav'[n].phase = "ended"
    BY <1>4, <1>0 DEF FetchedDocument, Ended, NoNav
  <2> QED BY <1>4, <2>1, <1>i DEF FetchedDocument, Going, Waiting
<1>5. CASE Failed(n)
  BY <1>5, <1>e, <1>i DEF Failed, Going, Waiting
<1>6. CASE Loaded(n)
  BY <1>6, <1>k, <1>0 DEF Loaded, Waiting, NavTypes, NavRecord
<1>7. CASE LoadedLate(n)
  BY <1>7, <1>i, <1>g DEF LoadedLate, Going, Waiting
<1>8. CASE LoadedUnknown(n)
  BY <1>8, <1>i, <1>d DEF LoadedUnknown, Going, Waiting
<1>9. CASE LoadFails(n)
  BY <1>9, <1>i, <1>g DEF LoadFails, Going, Waiting
<1>10. CASE Commit(n)
  BY <1>10, <1>i, <1>g DEF Commit, Going, Waiting
<1>11. CASE CommitEnd(n)
  BY <1>11, <1>k DEF CommitEnd, Going, Waiting
<1>12. CASE CommitThrows(n)
  BY <1>12, <1>k DEF CommitThrows, Going, Waiting
<1>13. CASE Settled(n)
  BY <1>13, <1>k DEF Settled, Going, Waiting
<1>14. CASE Abandon(n)
  BY <1>14, <1>i, <1>e DEF Abandon, Going, Waiting
<1>15. CASE Thrown(n)
  BY <1>15, <1>i, <1>g DEF Thrown, Going, Waiting
<1>16. CASE Rejected(n)
  <2>1. CASE RollsBack(n)
    BY <1>16, <2>1, ResetSteps DEF BoundaryStep
  <2> QED BY <1>16, <2>1, <1>k DEF Rejected, Waiting
<1>17. CASE TailTimesOut(n)
  BY <1>17, <1>k DEF TailTimesOut, Aborted, Released
<1>18. CASE Hovered(n)
  BY <1>18, <1>k DEF Hovered, Preloads, Delivers, Whole, Done, ReleaseUnlessStreaming, HoverOver
<1>19. CASE HoverFails(n)
  BY <1>19, <1>k DEF HoverFails, Preloads, Breaks, Done, Released, HoverOver
<1>20. CASE ReadFirst(n)
  BY <1>20, <1>k DEF ReadFirst
<1>21. CASE StatesArrive(n)
  BY <1>21, <1>k DEF StatesArrive, Streams, Applies
<1>22. CASE StreamEnds(n)
  BY <1>22, <1>k DEF StreamEnds, Streams, StreamOver, Done, Released
<1>23. CASE StreamBreaks(n)
  BY <1>23, <1>k DEF StreamBreaks, StreamOver, Done, Released
<1>24. CASE n = 1 /\ BootDone
  BY <1>24, <1>k DEF BootDone, Going, Waiting
<1>25. CASE n = 1 /\ BootFails
  BY <1>25, <1>k DEF BootFails, Going, Waiting
<1>26. CASE FailedMounts(n)
  BY <1>26, <1>g DEF FailedMounts, Going, Waiting, BoundaryStep, Yields, Vacated
<1>27. CASE ErrorMounted(n)
  <2>1. nav'[n].phase = "ended" /\ nav'[n].gen = nav[n].gen
    BY <1>27, <1>0 DEF ErrorMounted, Ends, Ended, NoNav, NavTypes
  <2> QED BY <1>27, <2>1 DEF ErrorMounted, BoundaryStep, Records
<1> QED
  BY <1>1, <1>2, <1>3, <1>4, <1>5, <1>6, <1>7, <1>8, <1>9, <1>10, <1>11, <1>12,
     <1>13, <1>14, <1>15, <1>16, <1>17, <1>18, <1>19, <1>20, <1>21, <1>22, <1>23, <1>24,
     <1>25, <1>26, <1>27
  DEF Advances, NavStep

\* A navigation starts with numbers of its own.
JustOpened(n) ==
  /\ gen' = gen + 1 /\ boundary'.gen = boundary.gen + 1
  /\ boundary'.timer \in {0, n} /\ boundary'.pending = 0 /\ boundary'.error = 0
  /\ nav[n].phase = "idle" /\ nav'[n].gen = gen + 1 /\ nav'[n].bgen = boundary.gen + 1
  /\ inside' = inside /\ active' = active /\ given' = given /\ arrived' = arrived
  /\ \/ /\ nav'[n].phase = "loading" /\ boundary'.timer = 0
        /\ req' = Aborted(tracked) /\ tracked' = {}
     \/ /\ nav'[n].phase = "fetching" /\ ~nav'[n].cached
        /\ tracked' = {n} /\ (\A m \in Jobs \ {n} : req'[m] = Aborted(tracked)[m])
        /\ req'[n].phase = "reading" /\ ~req'[n].aborted /\ req'[n].path = nav'[n].path

LEMMA OpenedSteps ==
  ASSUME RouterInv, NEW n \in Jobs, Opens(n)
  PROVE JustOpened(n)
<1>0. /\ NavTypes /\ SignalsAborted \in [Jobs -> NavRecord] /\ BoundaryTypes
      /\ Aborted(tracked) \in [Jobs -> ReqRecord]
  BY TypeParts, SignalsType, AbortedType DEF RouterInv
<1>1. PICK p \in Paths, s \in {"live", "none"} : HandleNavigation(n, p, s)
  BY DEF Opens
<1>2. nav[n].phase = "idle"
  BY <1>1 DEF HandleNavigation, IsNext, Free
<1> DEFINE s0 == SignalsAborted
           born == [NoNav EXCEPT !.path = p, !.gen = gen + 1, !.bgen = boundary.gen + 1,
                                 !.signal = s]
<1>3. /\ gen' = gen + 1 /\ UNCHANGED <<active, inside, arrived, given>>
      /\ \/ /\ boundary' = Cleared(boundary)
            /\ req' = Aborted(tracked) /\ tracked' = {}
            /\ nav' = [s0 EXCEPT ![n] = [born EXCEPT !.phase = "loading", !.cached = TRUE,
                                           !.data = cache.entries[p].data]]
         \/ /\ \E timer \in {0, n} : boundary' = [Cleared(boundary) EXCEPT !.timer = timer]
            /\ req' = [Aborted(tracked) EXCEPT ![n] = [NoReq EXCEPT !.phase = "reading", !.path = p]]
            /\ tracked' = {n}
            /\ nav' = [s0 EXCEPT ![n] = [born EXCEPT !.phase = "fetching"]]
  BY <1>1 DEF HandleNavigation, Cleared, AbortPartials, histVars
<1>4. /\ DOMAIN born = DOMAIN NoNav /\ born.path = p /\ born.gen = gen + 1
      /\ born.bgen = boundary.gen + 1 /\ ~born.cached
      /\ DOMAIN NoNav = {"phase", "path", "gen", "bgen", "signal", "data", "cached", "base"}
  BY DEF NoNav
<1>5. s0 \in [Jobs -> NavRecord]
  BY <1>0
<1> HIDE DEF born, s0
<1>6. CASE /\ boundary' = Cleared(boundary)
           /\ req' = Aborted(tracked) /\ tracked' = {}
           /\ nav' = [s0 EXCEPT ![n] = [born EXCEPT !.phase = "loading", !.cached = TRUE,
                                           !.data = cache.entries[p].data]]
  <2>1. nav'[n].phase = "loading" /\ nav'[n].gen = gen + 1 /\ nav'[n].bgen = boundary.gen + 1
    BY <1>4, <1>5, <1>6
  <2> QED BY <2>1, <1>2, <1>3, <1>6 DEF JustOpened, Cleared
<1>7. CASE /\ \E timer \in {0, n} : boundary' = [Cleared(boundary) EXCEPT !.timer = timer]
           /\ req' = [Aborted(tracked) EXCEPT ![n] = [NoReq EXCEPT !.phase = "reading", !.path = p]]
           /\ tracked' = {n}
           /\ nav' = [s0 EXCEPT ![n] = [born EXCEPT !.phase = "fetching"]]
  <2>1. /\ nav'[n].phase = "fetching" /\ nav'[n].gen = gen + 1 /\ nav'[n].bgen = boundary.gen + 1
        /\ ~nav'[n].cached /\ nav'[n].path = p
    BY <1>4, <1>5, <1>7
  <2>2. /\ req'[n].phase = "reading" /\ ~req'[n].aborted /\ req'[n].path = p
        /\ \A m \in Jobs \ {n} : req'[m] = Aborted(tracked)[m]
    BY <1>0, <1>7 DEF NoReq
  <2>3. /\ boundary'.gen = boundary.gen + 1 /\ boundary'.timer \in {0, n}
        /\ boundary'.pending = 0 /\ boundary'.error = 0
    BY <1>7 DEF Cleared
  <2> QED BY <2>1, <2>2, <2>3, <1>2, <1>3, <1>7 DEF JustOpened
<1> QED BY <1>3, <1>6, <1>7

\* Numbers stay apart.
LEMMA NumberedNext ==
  ASSUME RouterInv, [Next]_vars
  PROVE Numbered'
<1>0. /\ NavTypes /\ BoundaryTypes /\ gen \in Nat
      /\ \A m \in Jobs : nav[m].gen \in Nat /\ nav[m].bgen \in Nat
  BY TypeParts DEF RouterInv, NavTypes, NavRecord, PageTypes
<1>b. boundary.gen \in Nat
  BY <1>0 DEF BoundaryTypes, BoundaryRecord
<1>s. ASSUME NEW m \in Jobs, SameNav(m) PROVE Onward(m)
  BY <1>0, <1>s DEF SameNav, Onward
<1>o. ASSUME \A m \in Jobs : Onward(m), gen' \in {gen, gen + 1},
             boundary'.gen \in {boundary.gen, boundary.gen + 1}
      PROVE Numbered'
  <2>1. ASSUME NEW m \in Jobs PROVE Numbers(m)'
    <3>1. Numbers(m) /\ Onward(m)
      BY <1>o DEF RouterInv, Numbered
    <3>2. nav'[m].gen = nav[m].gen /\ nav'[m].bgen <= nav[m].bgen /\ nav'[m].bgen \in Nat
      BY <3>1, TypesNext, TypeParts DEF RouterInv, Onward, NavTypes, NavRecord
    <3>3. nav'[m].gen <= gen' /\ nav'[m].bgen <= boundary'.gen
      BY <1>0, <1>b, <1>o, <3>1, <3>2 DEF Numbers
    <3> QED BY <3>1, <3>2, <3>3 DEF Numbers, Onward
  <2>2. ASSUME NEW k \in Jobs, NEW m \in Jobs, k # m PROVE Apart(k, m)'
    <3>1. Apart(k, m) /\ Onward(k) /\ Onward(m)
      BY <1>o, <2>2 DEF RouterInv, Numbered
    <3> QED BY <3>1 DEF Apart, Onward
  <2>3. gen' >= 1
    BY <1>0, <1>o DEF RouterInv, Numbered
  <2> QED BY <2>1, <2>2, <2>3 DEF Numbered
<1>1. ASSUME NEW n \in Jobs, Opens(n) PROVE Numbered'
  <2>1. JustOpened(n) /\ \A m \in Jobs \ {n} : SameNav(m)
    BY <1>1, OpenedSteps, NavElsewhere DEF NavActs, RouterInv
  <2>2. Numbers(n)' /\ \A m \in Jobs \ {n} : Numbers(m)'
    BY <2>1, <1>0, <1>b DEF RouterInv, Numbered, Numbers, JustOpened, SameNav
  <2>3. ASSUME NEW k \in Jobs, NEW m \in Jobs, k # m PROVE Apart(k, m)'
    BY <2>1, <2>3, <1>0, <1>b DEF RouterInv, Numbered, Numbers, Apart, JustOpened, SameNav
  <2> QED BY <2>1, <2>2, <2>3, <1>0 DEF RouterInv, Numbered, JustOpened
<1>2. ASSUME NEW n \in Jobs, Advances(n) PROVE Numbered'
  <2>1. \A m \in Jobs : Onward(m)
    BY <1>2, <1>s, NavElsewhere, OnwardAdvance DEF NavActs, RouterInv
  <2>2. gen' \in {gen, gen + 1}
    BY <1>2, SteadyAdvance DEF Steady, Reset
  <2>3. boundary'.gen \in {boundary.gen, boundary.gen + 1}
    BY <1>2, <1>0, BoundaryAdvance
       DEF BoundaryStep, Keeps, Yields, Records, Vacated, Reset, Cleared, BoundaryTypes, BoundaryRecord
  <2> QED BY <2>1, <2>2, <2>3, <1>o
<1>3. CASE Abroad \/ UNCHANGED vars
  <2>1. \A m \in Jobs : Onward(m)
    BY <1>3, <1>s, AbroadSame DEF RouterInv
  <2>2. gen' \in {gen, gen + 1}
    BY <1>3, SteadyAbroad DEF Steady, Reset
  <2>3. boundary'.gen \in {boundary.gen, boundary.gen + 1}
    <3>1. CASE PendingTimer \/ PendingMounted
      BY <3>1, <1>0 DEF PendingTimer, PendingMounted, BoundaryTypes, BoundaryRecord
    <3>2. CASE Destroy
      BY <3>2, ResetSteps DEF Reset, Cleared
    <3> QED BY <1>3, <3>1, <3>2 DEF Abroad, HashChange, EntryGoes, vars
  <2> QED BY <2>1, <2>2, <2>3, <1>o
<1> QED BY <1>1, <1>2, <1>3, StepKinds

-----------------------------------------------------------------------------
(* Requests and their navigations *)

\* A rejected navigation ends, whether or not the router goes with it.
LEMMA RejectedEnds ==
  ASSUME NavTypes, NEW n \in Jobs, Rejected(n)
  PROVE nav'[n] = Ended(nav, n)[n] /\ nav'[n].phase = "ended" /\ ~nav'[n].cached
<1> DEFINE ended == Ended(nav, n)
<1>1. ended \in [Jobs -> NavRecord] /\ ended[n].phase = "ended" /\ ~ended[n].cached
  BY EndedType DEF Ended, NoNav, NavTypes
<1>2. nav' = ended \/ Destroyed(ended)
  BY DEF Rejected
<1> HIDE DEF ended
<1>3. nav'[n] = ended[n]
  BY <1>1, <1>2 DEF Destroyed
<1> QED BY <1>1, <1>3 DEF ended

\* A response that is not streamed leaves no request.
LEMMA HandedType ==
  ASSUME ReqTypes, NEW n \in Jobs
  PROVE /\ Handed(n) \in [Jobs -> ReqRecord] /\ Handed(n)[n].phase \in {"done", "paused"}
        /\ Handed(n)[n].phase = "paused" =>
             req[n].streaming /\ Handed(n)[n].path = req[n].path /\ Handed(n)[n].aborted = req[n].aborted
        /\ Handed(n)[n].phase = "done" => ~req[n].streaming
<1>0. req \in [Jobs -> ReqRecord]
  BY DEF ReqTypes
<1>1. CASE req[n].streaming
  BY <1>0, <1>1 DEF Handed, ReqRecord, Unfinished
<1>2. CASE ~req[n].streaming
  <2>1. Handed(n) = Done(req, n)
    BY <1>2 DEF Handed
  <2>2. Done(req, n)[n].phase = "done"
    BY <1>0 DEF Done, NoReq
  <2> QED BY <1>0, <1>2, <2>1, <2>2, DoneType
<1> QED BY <1>1, <1>2

\* Both stages are kept where neither changes.
LEMMA SameStage ==
  ASSUME Staged, Fitting, NEW m \in Jobs, SameNav(m), SameReq(m)
  PROVE Stage(m)' /\ Fits(m)'
BY DEF Staged, Stage, Fitting, Fits, Own, SameNav, SameReq

\* The job of a step: how far its request is
LEMMA StageAdvance ==
  ASSUME RouterInv, NEW n \in Jobs, Advances(n)
  PROVE Stage(n)' /\ Fits(n)'
<1> USE DEF coreVars, histVars
<1>0. /\ NavTypes /\ SignalsAborted \in [Jobs -> NavRecord]
      /\ req \in [Jobs -> ReqRecord] /\ \A jobs : Aborted(jobs) \in [Jobs -> ReqRecord]
  BY TypeParts, SignalsType, AbortedType DEF RouterInv, ReqTypes
<1>s. Stage(n) /\ Fits(n)
  BY DEF RouterInv, Staged, Fitting
<1>g. ASSUME NEW ph, Goes(n, ph)
      PROVE nav'[n].phase = ph /\ nav'[n].path = nav[n].path /\ nav'[n].data = nav[n].data
  BY <1>g, <1>0 DEF Goes, NavTypes, NavRecord
<1>e. Ends(n) => nav'[n].phase = "ended"
  BY <1>0 DEF Ends, Ended, NoNav, NavTypes
<1>d. req' = Done(req, n) => req'[n].phase = "done"
  BY <1>0 DEF Done, NoReq
<1>h. req' = Handed(n) => IF req[n].streaming THEN req'[n].phase = "paused" /\ req'[n].path = req[n].path
                                              ELSE req'[n].phase = "done"
  BY <1>0, <1>d DEF Handed, ReqRecord
<1>c. CancelDeferred(n) => (req'[n].phase = IF req[n].phase = "paused" THEN "done" ELSE req[n].phase)
  BY <1>d DEF CancelDeferred
<1>p. ASSUME NEW d, NEW reqs, Departs(n, d, reqs)
      PROVE nav'[n].phase = "abandoned" /\ nav'[n].path = nav[n].path /\ nav'[n].data = d
  <2>1. PICK s \in {nav, SignalsAborted} :
          nav' = [s EXCEPT ![n].phase = "abandoned", ![n].data = d]
    BY <1>p DEF Departs
  <2>2. s \in [Jobs -> NavRecord] /\ s[n].path = nav[n].path
    BY <1>0, SignalsType DEF NavTypes, NavRecord
  <2> QED BY <2>1, <2>2 DEF NavRecord
<1>q. ASSUME NEW d, NEW reqs \in [Jobs -> ReqRecord], Departs(n, d, reqs)
      PROVE req'[n].phase = reqs[n].phase /\ req'[n].path = reqs[n].path
  BY <1>q DEF Departs, ReqRecord
<1>u. ASSUME NEW jobs, req' = Aborted(jobs) PROVE req'[n].phase = req[n].phase /\ req'[n].path = req[n].path
  BY <1>u, <1>0 DEF Aborted, ReqRecord
<1>1. ASSUME NEW p \in Paths, Hover(n, p) PROVE Stage(n)' /\ Fits(n)'
  <2>1. nav' = nav /\ nav[n].phase = "idle"
    BY <1>1 DEF Hover, IsNext, Free
  <2>2. req'[n].phase = "reading"
    BY <1>1, <1>0 DEF Hover, NoReq
  <2> QED BY <2>1, <2>2 DEF Stage, Fits, Going, Waiting
<1>2. CASE Mismatch(n)
  BY <1>2, <1>s, <1>g, <1>e, <1>h DEF Mismatch, Delivers, Stage, Fits, Own, Going, Waiting,
     Unfinished
<1>3. CASE Fetched(n)
  <2>1. CASE nav' = [nav EXCEPT ![n].phase = "loading", ![n].data = <<nav[n].path, n>>] /\ req' = Handed(n)
    <3>1. nav'[n].phase = "loading" /\ nav'[n].path = nav[n].path /\ nav'[n].data = <<nav[n].path, n>>
      BY <2>1, <1>0 DEF NavTypes, NavRecord
    <3> QED BY <1>3, <2>1, <3>1, <1>s, <1>h DEF Fetched, Delivers, Stage, Fits, Own, Going,
               Waiting, Unfinished
  <2>2. CASE Departs(n, <<nav[n].path, n>>, Handed(n))
    <3>1. Handed(n) \in [Jobs -> ReqRecord] /\ Handed(n)[n].phase \in {"done", "paused"}
          /\ (Handed(n)[n].phase = "paused" => Handed(n)[n].path = req[n].path)
      BY TypeParts, HandedType DEF RouterInv
    <3>2. /\ req'[n].phase \in {"done", "paused"}
          /\ req'[n].phase = "paused" => req'[n].path = req[n].path
      BY <2>2, <3>1, <1>q
    <3>3. /\ nav'[n].phase = "abandoned" /\ nav'[n].path = nav[n].path
          /\ nav'[n].data = <<nav[n].path, n>>
      BY <2>2, <1>p
    <3>4. nav[n].phase = "fetching" /\ req[n].phase \in Unfinished
      BY <1>3 DEF Fetched, Delivers, Unfinished
    <3> QED BY <1>s, <3>2, <3>3, <3>4 DEF Stage, Fits, Own, Going, Waiting, Unfinished
  <2> QED BY <1>3, <2>1, <2>2 DEF Fetched
<1>4. CASE FetchedDocument(n)
  <2>1. nav'[n].phase = "ended"
    BY <1>4, <1>0 DEF FetchedDocument, Ended, NoNav
  <2> QED BY <1>4, <2>1, <1>d DEF FetchedDocument, Stage, Fits, Going, Waiting, Unfinished
<1>5. CASE Failed(n)
  BY <1>5, <1>0, <1>s, <1>g, <1>e, <1>d, <1>h, <1>c DEF Failed, Breaks, Ends, Ended, Done,
     Released, Invalidate, Cleared, Stage, Fits, Own, Going, Waiting, Unfinished
<1>6. CASE Loaded(n)
  <2>1. nav'[n].phase = "transition" /\ nav'[n].path = nav[n].path /\ nav'[n].data = nav[n].data
    BY <1>6, <1>0 DEF Loaded, NavTypes, NavRecord
  <2> QED BY <1>6, <2>1, <1>s DEF Loaded, Stage, Fits, Own, Going, Waiting, Unfinished
<1>7. CASE LoadedLate(n)
  BY <1>7, <1>s, <1>g DEF LoadedLate, Stage, Fits, Own, Going, Waiting, Unfinished
<1>8. CASE LoadedUnknown(n)
  BY <1>8, <1>0, <1>s, <1>p, <1>q DEF LoadedUnknown, Stage, Fits, Own, Going, Waiting, Unfinished
<1>9. CASE LoadFails(n)
  BY <1>9, <1>s, <1>g DEF LoadFails, Stage, Fits, Own, Going, Waiting, Unfinished
<1>10. CASE Commit(n)
  BY <1>10, <1>s, <1>g DEF Commit, Stage, Fits, Own, Going, Waiting, Unfinished
<1>11. CASE CommitEnd(n)
  BY <1>11, <1>s, <1>g DEF CommitEnd, Stage, Fits, Own, Going, Waiting, Unfinished
<1>12. CASE CommitThrows(n)
  BY <1>12, <1>s, <1>g DEF CommitThrows, Stage, Fits, Own, Going, Waiting, Unfinished
<1>13. CASE Settled(n)
  <2>1. CASE Superseded(n)
    BY <1>13, <2>1, <1>s, <1>g DEF Settled, Stage, Fits, Own, Going, Waiting, Unfinished
  <2>2. CASE ~Superseded(n)
    <3>1. nav'[n].phase = "ended" /\ nav[n].phase = "committed"
      BY <1>13, <2>2, <1>e DEF Settled
    <3>2. req[n].phase \in {"none", "done", "paused"} /\ (req[n].phase = "paused" => Own(n))
      BY <3>1, <1>s DEF Stage, Fits, Going
    <3>3. req'[n].phase \in {"none", "done", "draining"}
      BY <1>13, <2>2, <3>2, <1>0 DEF Settled, Paused, ReqRecord
    <3> QED BY <3>1, <3>3 DEF Stage, Fits, Going, Waiting
  <2> QED BY <2>1, <2>2
<1>14. CASE Abandon(n)
  BY <1>14, <1>s, <1>e, <1>c DEF Abandon, Stage, Fits, Own, Going, Waiting, Unfinished
<1>15. CASE Thrown(n)
  BY <1>15, <1>s, <1>g, <1>c DEF Thrown, Stage, Fits, Own, Going, Waiting, Unfinished
<1>16. CASE Rejected(n)
  <2>1. nav'[n].phase = "ended" /\ nav[n].phase = "rejected"
    BY <1>16, <1>0, RejectedEnds DEF Rejected
  <2>2. req'[n].phase = req[n].phase
    BY <1>16, <1>u DEF Rejected, Destroyed, AbortPartials
  <2> QED BY <1>s, <2>1, <2>2 DEF Stage, Fits, Going, Waiting
<1>17. CASE TailTimesOut(n)
  BY <1>17, <1>s, <1>u DEF TailTimesOut, Stage, Fits, Own, Going, Waiting, Unfinished
<1>18. CASE Hovered(n)
  BY <1>18, <1>0, <1>s, <1>g, <1>e, <1>d, <1>h, <1>c DEF Hovered, Preloads, Delivers,
     Whole, Done, ReleaseUnlessStreaming, HoverOver, Stage, Fits, Own, Going, Waiting, Unfinished
<1>19. CASE HoverFails(n)
  BY <1>19, <1>0, <1>s, <1>g, <1>e, <1>d, <1>h, <1>c DEF HoverFails, Preloads, Breaks,
     Done, Released, HoverOver, Stage, Fits, Own, Going, Waiting, Unfinished
<1>20. CASE ReadFirst(n)
  BY <1>20, <1>0, <1>s, <1>g, <1>e, <1>d, <1>h, <1>c DEF ReadFirst, Stage, Fits, Own,
     Going, Waiting, Unfinished
<1>21. CASE StatesArrive(n)
  BY <1>21, <1>0, <1>s, <1>g, <1>e, <1>d, <1>h, <1>c DEF StatesArrive, Streams, Applies,
     Stage, Fits, Own, Going, Waiting, Unfinished
<1>22. CASE StreamEnds(n)
  BY <1>22, <1>0, <1>s, <1>g, <1>e, <1>d, <1>h, <1>c DEF StreamEnds, Streams, StreamOver,
     Done, Released, Stage, Fits, Own, Going, Waiting, Unfinished
<1>23. CASE StreamBreaks(n)
  BY <1>23, <1>0, <1>s, <1>g, <1>e, <1>d, <1>h, <1>c DEF StreamBreaks, StreamOver, Done,
     Released, Stage, Fits, Own, Going, Waiting, Unfinished
<1>24. CASE n = 1 /\ BootDone
  BY <1>24, <1>0, <1>s, <1>g, <1>e, <1>d, <1>h, <1>c DEF BootDone, Ends, Ended, Stage,
     Fits, Own, Going, Waiting, Unfinished
<1>25. CASE n = 1 /\ BootFails
  BY <1>25, <1>0, <1>s, <1>g, <1>e, <1>d, <1>h, <1>c DEF BootFails, Goes, Stage, Fits,
     Own, Going, Waiting, Unfinished
<1>26. CASE FailedMounts(n)
  BY <1>26, <1>g, <1>d DEF FailedMounts, Stage, Fits, Going, Waiting, Unfinished
<1>27. CASE ErrorMounted(n)
  BY <1>27, <1>s, <1>e DEF ErrorMounted, Stage, Fits, Going, Waiting, Unfinished
<1> QED
  BY <1>1, <1>2, <1>3, <1>4, <1>5, <1>6, <1>7, <1>8, <1>9, <1>10, <1>11, <1>12,
     <1>13, <1>14, <1>15, <1>16, <1>17, <1>18, <1>19, <1>20, <1>21, <1>22, <1>23, <1>24,
     <1>25, <1>26, <1>27
  DEF Advances, NavStep

LEMMA StagedNext ==
  ASSUME RouterInv, [Next]_vars
  PROVE Staged' /\ Fitting'
<1>1. ASSUME NEW n \in Jobs, Opens(n), NEW m \in Jobs PROVE Stage(m)' /\ Fits(m)'
  <2>1. CASE m # n
    BY <1>1, <2>1, NavElsewhere, ReqElsewhere, SameStage DEF NavActs, RouterInv
  <2>2. req \in [Jobs -> ReqRecord] /\ Aborted(tracked) \in [Jobs -> ReqRecord] /\ req[n].phase = "none"
    BY <1>1, TypeParts, AbortedType DEF RouterInv, ReqTypes, Opens, HandleNavigation, IsNext, Free
  <2>3. JustOpened(n) /\ Aborted(tracked)[n].phase = "none"
    BY <1>1, <2>2, OpenedSteps DEF Aborted, ReqRecord
  <2>4. Stage(n)' /\ Fits(n)'
    BY <2>2, <2>3 DEF JustOpened, Stage, Fits, Going, Waiting, Unfinished
  <2> QED BY <2>1, <2>4
<1>2. ASSUME NEW n \in Jobs, Advances(n), NEW m \in Jobs PROVE Stage(m)' /\ Fits(m)'
  BY <1>2, NavElsewhere, ReqElsewhere, SameStage, StageAdvance DEF NavActs, RouterInv
<1>3. ASSUME Abroad \/ UNCHANGED vars, NEW m \in Jobs PROVE Stage(m)' /\ Fits(m)'
  BY <1>3, AbroadSame, SameStage DEF RouterInv
<1> QED BY <1>1, <1>2, <1>3, StepKinds DEF Staged, Fitting

-----------------------------------------------------------------------------
(* Requests that may still deliver *)

\* After a step of a job exactly they are tracked, and the job's own was one before.
TrackedAfter == \A m \in Jobs : m \in tracked' <=> Pending(m)'
Lasts(n) ==
  Pending(n)' => \/ Pending(n) /\ req'[n].path = req[n].path
                 \/ nav[n].phase = "idle" /\ req'[n].path # current

\* The requests, after a step of a job
LEMMA TrackedAdvance ==
  ASSUME RouterInv, NEW n \in Jobs, Advances(n)
  PROVE TrackedAfter /\ Lasts(n)
<1> USE DEF coreVars, histVars
<1>0. /\ NavTypes /\ ReqTypes
      /\ req \in [Jobs -> ReqRecord] /\ \A jobs : Aborted(jobs) \in [Jobs -> ReqRecord]
  BY TypeParts, AbortedType DEF RouterInv, ReqTypes
<1>t. \A m \in Jobs : m \in tracked <=> Pending(m)
  BY DEF RouterInv, Requested, Tracks
<1>s. Stage(n) /\ Fits(n)
  BY DEF RouterInv, Staged, Fitting
<1>o. ASSUME \A m \in Jobs \ {n} : req'[m] = req[m] /\ (m \in tracked' <=> m \in tracked),
             n \in tracked' <=> Pending(n)', Lasts(n)
      PROVE TrackedAfter /\ Lasts(n)
  <2>1. ASSUME NEW m \in Jobs PROVE m \in tracked' <=> Pending(m)'
    BY <1>o, <1>t DEF Pending
  <2> QED BY <1>o, <2>1 DEF TrackedAfter
<1>u. UNCHANGED <<req, tracked>> => TrackedAfter /\ Lasts(n)
  BY <1>o, <1>t DEF Pending, Lasts
<1>d. req' = Done(req, n) /\ tracked' = tracked \ {n} => TrackedAfter /\ Lasts(n)
  <2>1. SUFFICES ASSUME req' = Done(req, n), tracked' = tracked \ {n} PROVE TrackedAfter /\ Lasts(n)
    OBVIOUS
  <2>2. req'[n].phase = "done" /\ \A m \in Jobs \ {n} : req'[m] = req[m]
    BY <2>1, <1>0 DEF Done, NoReq
  <2>3. ~Pending(n)'
    BY <2>2 DEF Pending, Unfinished
  <2> QED BY <2>1, <2>2, <2>3, <1>o DEF Lasts
<1>m. ASSUME NEW ph \in Unfinished, req' = [req EXCEPT ![n].phase = ph], req[n].phase \in Unfinished,
             tracked' = tracked
      PROVE TrackedAfter /\ Lasts(n)
  <2>1. /\ req'[n].phase = ph /\ req'[n].aborted = req[n].aborted /\ req'[n].path = req[n].path
        /\ \A m \in Jobs \ {n} : req'[m] = req[m]
    BY <1>m, <1>0 DEF ReqRecord
  <2>2. Pending(n)' <=> Pending(n)
    BY <2>1, <1>m DEF Pending
  <2> QED BY <2>1, <2>2, <1>m, <1>o, <1>t DEF Lasts
<1>h. ASSUME req' = Handed(n), ReleaseUnlessStreaming(n), Delivers(n)
      PROVE TrackedAfter /\ Lasts(n)
  <2>1. CASE req[n].streaming
    BY <2>1, <1>h, <1>m DEF Handed, ReleaseUnlessStreaming, Delivers, Unfinished
  <2>2. CASE ~req[n].streaming
    BY <2>2, <1>h, <1>d DEF Handed, ReleaseUnlessStreaming
  <2> QED BY <2>1, <2>2
<1>b. ASSUME NEW jobs, req' = Aborted(jobs), tracked' = tracked \ jobs
      PROVE TrackedAfter /\ Lasts(n)
  <2>1. ASSUME NEW m \in Jobs
        PROVE /\ req'[m].phase = req[m].phase /\ req'[m].path = req[m].path
              /\ req[m].phase \in Unfinished => (req'[m].aborted <=> req[m].aborted \/ m \in jobs)
    BY <1>b, <1>0 DEF Aborted, ReqRecord
  <2>2. ASSUME NEW m \in Jobs PROVE Pending(m)' <=> Pending(m) /\ m \notin jobs
    BY <2>1 DEF Pending
  <2>3. TrackedAfter
    BY <1>b, <1>t, <2>2 DEF TrackedAfter
  <2>4. Lasts(n)
    BY <2>1, <2>2 DEF Lasts
  <2> QED BY <2>3, <2>4
<1>q. ASSUME NEW reqs \in [Jobs -> ReqRecord], \A m \in Jobs \ {n} : reqs[m] = req[m],
             reqs[n].phase \in {"none", "done", "paused"},
             reqs[n].phase = "paused" => reqs[n].path = req[n].path /\ (Pending(n) <=> ~reqs[n].aborted),
             NEW d, Departs(n, d, reqs)
      PROVE TrackedAfter /\ Lasts(n)
  <2>0. PICK live \in BOOLEAN :
          /\ req' = [reqs EXCEPT ![n].aborted = @ \/ live]
          /\ tracked' = IF reqs[n].phase = "paused" /\ ~live THEN tracked ELSE tracked \ {n}
    BY <1>q DEF Departs
  <2>1. /\ req'[n].phase = reqs[n].phase /\ req'[n].path = reqs[n].path
        /\ req'[n].aborted <=> reqs[n].aborted \/ live
        /\ \A m \in Jobs \ {n} : req'[m] = req[m]
    BY <1>q, <2>0 DEF ReqRecord
  <2>2. tracked' = IF reqs[n].phase = "paused" /\ ~live THEN tracked ELSE tracked \ {n}
    BY <2>0
  <2>3. Pending(n)' <=> reqs[n].phase = "paused" /\ ~reqs[n].aborted /\ ~live
    BY <2>1, <1>q DEF Pending, Unfinished
  <2>4. Lasts(n)
    BY <2>1, <2>3, <1>q DEF Lasts
  <2>5. n \in tracked' <=> Pending(n)'
    BY <2>2, <2>3, <1>q, <1>t
  <2> QED BY <2>1, <2>2, <2>4, <2>5, <1>o
<1>1. ASSUME NEW p \in Paths, Hover(n, p) PROVE TrackedAfter /\ Lasts(n)
  <2> DEFINE old == Aborted({hover.latest})
  <2>1. /\ nav[n].phase = "idle" /\ req[n].phase = "none"
        /\ req' = [old EXCEPT ![n] = [NoReq EXCEPT !.phase = "reading", !.path = p]]
        /\ tracked' = (tracked \ {hover.latest}) \cup {n} /\ p # current
    BY <1>1 DEF Hover, IsNext, Free
  <2>2. ASSUME NEW m \in Jobs
        PROVE /\ old[m].phase = req[m].phase
              /\ req[m].phase \in Unfinished => (old[m].aborted <=> req[m].aborted \/ m = hover.latest)
    BY <1>0 DEF Aborted, ReqRecord
  <2>3. old \in [Jobs -> ReqRecord]
    BY <1>0
  <2> HIDE DEF old
  <2>4. /\ req'[n].phase = "reading" /\ req'[n].path = p /\ ~req'[n].aborted
        /\ \A m \in Jobs \ {n} : req'[m] = old[m]
    BY <2>1, <2>3 DEF NoReq
  <2>5. Pending(n)' /\ Lasts(n)
    BY <2>1, <2>4 DEF Pending, Lasts, Unfinished
  <2>6. ASSUME NEW m \in Jobs, m # n PROVE Pending(m)' <=> Pending(m) /\ m # hover.latest
    BY <2>2, <2>4, <2>6 DEF Pending
  <2>7. ASSUME NEW m \in Jobs PROVE m \in tracked' <=> Pending(m)'
    BY <1>t, <2>1, <2>5, <2>6
  <2> QED BY <2>5, <2>7 DEF TrackedAfter
<1>2. CASE Mismatch(n)
  BY <1>2, <1>h DEF Mismatch
<1>3. CASE Fetched(n)
  <2>1. CASE req' = Handed(n) /\ ReleaseUnlessStreaming(n)
    BY <1>3, <2>1, <1>h DEF Fetched
  <2>2. CASE Departs(n, <<nav[n].path, n>>, Handed(n))
    <3> DEFINE reqs == Handed(n)
    <3>1. /\ reqs \in [Jobs -> ReqRecord] /\ reqs[n].phase \in {"none", "done", "paused"}
          /\ reqs[n].phase = "paused" => reqs[n].path = req[n].path /\ reqs[n].aborted = req[n].aborted
      BY <1>0, HandedType
    <3>2. \A m \in Jobs \ {n} : reqs[m] = req[m]
      BY <1>0 DEF Handed, Done
    <3>3. Pending(n)
      BY <1>3 DEF Fetched, Delivers, Pending, Unfinished
    <3>4. Departs(n, <<nav[n].path, n>>, reqs)
      BY <2>2
    <3>5. ~req[n].aborted
      BY <3>3 DEF Pending
    <3> HIDE DEF reqs
    <3> QED BY <1>q, <3>1, <3>2, <3>3, <3>4, <3>5
  <2> QED BY <1>3, <2>1, <2>2 DEF Fetched
<1>4. CASE FetchedDocument(n)
  BY <1>4, <1>d DEF FetchedDocument, Released
<1>5. CASE Failed(n)
  BY <1>5, <1>d DEF Failed, Released
<1>6. CASE Loaded(n)
  BY <1>6, <1>u DEF Loaded
<1>7. CASE LoadedLate(n)
  BY <1>7, <1>u DEF LoadedLate, Goes, Invalidate, Cleared
<1>8. CASE LoadedUnknown(n)
  <2>1. Departs(n, nav[n].data, req) /\ req[n].phase \in {"none", "done", "paused"}
    BY <1>8, <1>s DEF LoadedUnknown, Stage, Going, Waiting
  <2>2. req[n].phase = "paused" => req[n].path = req[n].path /\ (Pending(n) <=> ~req[n].aborted)
    BY DEF Pending, Unfinished
  <2> QED BY <2>1, <2>2, <1>q, <1>0
<1>9. CASE LoadFails(n)
  BY <1>9, <1>u DEF LoadFails, Goes, Invalidate, Cleared
<1>10. CASE Commit(n)
  BY <1>10, <1>u DEF Commit, Goes, Invalidate, Cleared
<1>11. CASE CommitEnd(n)
  BY <1>11, <1>u DEF CommitEnd, Goes
<1>12. CASE CommitThrows(n)
  BY <1>12, <1>u DEF CommitThrows, Goes
<1>13. CASE Settled(n)
  BY <1>13, <1>u, <1>m DEF Settled, Paused, Unfinished
<1>14. CASE Abandon(n)
  BY <1>14, <1>u, <1>d DEF Abandon, CancelDeferred
<1>15. CASE Thrown(n)
  BY <1>15, <1>u, <1>d DEF Thrown, CancelDeferred
<1>16. CASE Rejected(n)
  <2>1. CASE RollsBack(n)
    <3>1. req' = Aborted(tracked) /\ tracked' = tracked \ tracked
      BY <1>16, <2>1, ResetSteps DEF Reset
    <3> QED BY <3>1, <1>b
  <2> QED BY <1>16, <2>1, <1>u DEF Rejected
<1>17. CASE TailTimesOut(n)
  BY <1>17, <1>b DEF TailTimesOut, Released
<1>18. CASE Hovered(n)
  BY <1>18, <1>d, <1>m DEF Hovered, Delivers, ReleaseUnlessStreaming, Unfinished
<1>19. CASE HoverFails(n)
  BY <1>19, <1>d DEF HoverFails, Released
<1>20. CASE ReadFirst(n)
  <2>1. PICK b \in BOOLEAN :
          req' = [req EXCEPT ![n] = [req[n] EXCEPT !.phase = "preparing", !.streaming = b, !.gen = gen]]
    BY <1>20, <1>0 DEF ReadFirst
  <2>2. /\ req'[n].phase = "preparing" /\ req'[n].path = req[n].path /\ req'[n].aborted = req[n].aborted
        /\ \A m \in Jobs \ {n} : req'[m] = req[m]
    BY <2>1, <1>0 DEF ReqRecord
  <2>3. Pending(n) /\ Pending(n)' /\ tracked' = tracked
    BY <1>20, <2>2 DEF Pending, ReadFirst, Unfinished
  <2> QED BY <2>2, <2>3, <1>o, <1>t DEF Lasts
<1>21. CASE StatesArrive(n)
  BY <1>21, <1>u DEF StatesArrive, Streams, Applies
<1>22. CASE StreamEnds(n)
  BY <1>22, <1>d DEF StreamEnds, StreamOver, Released
<1>23. CASE StreamBreaks(n)
  BY <1>23, <1>d DEF StreamBreaks, StreamOver, Released
<1>24. CASE n = 1 /\ BootDone
  BY <1>24, <1>u DEF BootDone, Ends, Ended
<1>25. CASE n = 1 /\ BootFails
  BY <1>25, <1>u DEF BootFails, Goes
<1>26. CASE FailedMounts(n)
  BY <1>26, <1>d DEF FailedMounts, Released
<1>27. CASE ErrorMounted(n)
  BY <1>27, <1>u DEF ErrorMounted
<1> QED
  BY <1>1, <1>2, <1>3, <1>4, <1>5, <1>6, <1>7, <1>8, <1>9, <1>10, <1>11, <1>12,
     <1>13, <1>14, <1>15, <1>16, <1>17, <1>18, <1>19, <1>20, <1>21, <1>22, <1>23, <1>24,
     <1>25, <1>26, <1>27
  DEF Advances, NavStep

LEMMA RequestedNext ==
  ASSUME RouterInv, [Next]_vars
  PROVE Requested'
<1> USE DEF coreVars, histVars
<1>0. /\ req \in [Jobs -> ReqRecord] /\ (\A jobs : Aborted(jobs) \in [Jobs -> ReqRecord])
      /\ tracked \subseteq Jobs /\ tracked' \subseteq Jobs
  BY TypeParts, AbortedType, TypesNext DEF RouterInv, ReqTypes
<1>t. \A m \in Jobs : (m \in tracked <=> Pending(m)) /\ Wanted(m)
  BY DEF RouterInv, Requested, Tracks
<1>q. TrackedAfter /\ (\A m \in Jobs : Wanted(m)') => Requested'
  BY <1>0 DEF TrackedAfter, Requested, Tracks
<1>b. ASSUME NEW m \in Jobs, req'[m] = Aborted(tracked)[m] PROVE ~Pending(m)'
  BY <1>b, <1>0, <1>t DEF Pending, Aborted, ReqRecord
<1>l. ASSUME NEW m \in Jobs, Steady, Onward(m), Pending(m)' => Pending(m) /\ req'[m].path = req[m].path
      PROVE Wanted(m)'
  BY <1>l, <1>t DEF Wanted, Steady, Onward
<1>r. ASSUME Reset PROVE Requested'
  BY <1>0, <1>b, <1>r DEF Reset, Requested, Tracks, Wanted
<1>s. ASSUME NEW m \in Jobs, SameNav(m), SameReq(m), Steady PROVE Wanted(m)'
  BY <1>s, <1>t DEF Wanted, Steady, SameNav, SameReq, Pending
<1>1. ASSUME NEW n \in Jobs, Opens(n) PROVE Requested'
  <2>1. JustOpened(n)
    BY <1>1, OpenedSteps
  <2>2. req[n].phase = "none"
    BY <1>1 DEF Opens, HandleNavigation, IsNext, Free
  <2>3. CASE req' = Aborted(tracked) /\ tracked' = {}
    BY <1>0, <1>b, <2>3 DEF Requested, Tracks, Wanted
  <2>4. CASE /\ tracked' = {n} /\ (\A m \in Jobs \ {n} : req'[m] = Aborted(tracked)[m])
             /\ req'[n].phase = "reading" /\ ~req'[n].aborted /\ nav'[n].phase = "fetching"
    <3>1. Pending(n)' /\ \A m \in Jobs \ {n} : ~Pending(m)'
      BY <2>4, <1>b DEF Pending, Unfinished
    <3>2. Wanted(n)'
      BY <2>1, <2>4 DEF JustOpened, Wanted
    <3> QED BY <1>q, <2>4, <3>1, <3>2 DEF TrackedAfter, Wanted
  <2> QED BY <2>1, <2>3, <2>4 DEF JustOpened
<1>2. ASSUME NEW n \in Jobs, Advances(n), Steady PROVE Requested'
  <2>1. TrackedAfter /\ Lasts(n) /\ Onward(n)
    BY <1>2, TrackedAdvance, OnwardAdvance
  <2>2. ASSUME NEW m \in Jobs, m # n PROVE Wanted(m)'
    BY <1>2, <2>2, <1>s, NavElsewhere, ReqElsewhere DEF NavActs, RouterInv
  <2>3. Wanted(n)'
    BY <2>1, <1>2, <1>l DEF Lasts, Wanted, Onward, Steady
  <2> QED BY <2>1, <2>2, <2>3, <1>q
<1>3. CASE (Abroad \/ UNCHANGED vars) /\ Steady
  <2>1. \A m \in Jobs : Wanted(m)'
    BY <1>3, <1>s, AbroadSame DEF RouterInv
  <2>2. CASE HashChange
    <3> DEFINE jobs == {n \in Jobs : nav'[n].signal = "aborted"}
    <3>1. req' = Aborted(jobs) /\ tracked' = {j \in tracked : ~req'[j].aborted}
      BY <2>2 DEF HashChange
    <3> HIDE DEF jobs
    <3>2. ASSUME NEW m \in Jobs
          PROVE req'[m].phase = req[m].phase /\ (~req'[m].aborted => ~req[m].aborted)
      BY <3>1, <1>0 DEF Aborted, ReqRecord
    <3>3. ASSUME NEW m \in Jobs PROVE m \in tracked' <=> Pending(m)'
      BY <3>1, <3>2, <1>t DEF Pending
    <3> QED BY <3>3, <2>1, <1>q DEF TrackedAfter
  <2>3. CASE Destroy
    BY <2>3, ResetSteps, <1>r
  <2>4. CASE UNCHANGED <<req, tracked>>
    BY <2>1, <2>4, <1>t, <1>q DEF TrackedAfter, Pending
  <2> QED BY <1>3, <2>2, <2>3, <2>4 DEF Abroad, PendingTimer, PendingMounted, EntryGoes, vars
<1> QED BY <1>1, <1>2, <1>3, <1>r, StepKinds, SteadyAdvance, SteadyAbroad

-----------------------------------------------------------------------------
(* The boundary *)

LEMMA BoundedNext ==
  ASSUME RouterInv, [Next]_vars
  PROVE Bounded' /\ BoundaryOwned'
<1> USE DEF coreVars, histVars
<1>0. /\ NavTypes /\ BoundaryTypes /\ gen \in Nat /\ boundary.gen \in Nat /\ 0 \notin Jobs
      /\ boundary.timer \in Jobs \cup {0} /\ boundary.pending \in Jobs \cup {0}
      /\ boundary.error \in Jobs \cup {0} /\ (\A m \in Jobs : nav[m].gen \in Nat /\ nav[m].gen <= gen)
  BY TypeParts, EmptyRecords
     DEF RouterInv, PageTypes, BoundaryTypes, BoundaryRecord, Numbered, Numbers, NavTypes, NavRecord
<1>w. Waiting \subseteq Going
  BY DEF Going
<1>s. ASSUME NEW m \in Jobs, SameNav(m) PROVE Onward(m) /\ nav'[m].phase = nav[m].phase
  BY <1>0, <1>s DEF SameNav, Onward, NavTypes, NavRecord
<1>b. Bounded /\ BoundaryOwned
  BY DEF RouterInv
<1>r. ASSUME Reset, \A m \in Jobs : Onward(m) PROVE Bounded' /\ BoundaryOwned'
  BY <1>0, <1>r DEF Reset, Onward, Bounded, BoundaryOwned, Cleared
\* whoever holds the boundary goes on holding it
<1>k. ASSUME gen' = gen, boundary'.gen = boundary.gen, \A m \in Jobs : Onward(m),
             \A m \in Jobs : Owns(m) => nav'[m].phase \in Waiting
      PROVE Bounded' /\ \A m \in Jobs : Owns(m) => Owns(m)'
  <2>1. ASSUME NEW m \in Jobs, nav'[m].gen = gen', nav'[m].phase \in Waiting
        PROVE nav'[m].bgen = boundary'.gen
    BY <1>k, <2>1, <1>b, <1>w DEF Onward, Bounded
  <2>2. ASSUME NEW m \in Jobs, Owns(m) PROVE Owns(m)'
    BY <1>k, <2>2, <1>w DEF Onward, Owns
  <2> QED BY <2>1, <2>2 DEF Bounded
<1>1. ASSUME NEW n \in Jobs, Opens(n) PROVE Bounded' /\ BoundaryOwned'
  <2>1. JustOpened(n) /\ \A m \in Jobs \ {n} : nav'[m].gen = nav[m].gen
    BY <1>1, OpenedSteps, NavElsewhere DEF NavActs, RouterInv, SameNav
  <2>2. Bounded'
    BY <1>0, <2>1 DEF JustOpened, Bounded
  <2>3. BoundaryOwned'
    BY <1>0, <2>1 DEF JustOpened, BoundaryOwned, Owns, Waiting
  <2> QED BY <2>2, <2>3
<1>2. ASSUME NEW n \in Jobs, Advances(n) PROVE Bounded' /\ BoundaryOwned'
  <2>1. (\A m \in Jobs : Onward(m)) /\ \A m \in Jobs \ {n} : nav'[m].phase = nav[m].phase
    BY <1>2, <1>s, NavElsewhere, OnwardAdvance DEF NavActs, RouterInv
  <2>2. CASE Reset
    BY <2>1, <2>2, <1>r
  <2>3. CASE Keeps(n) /\ Steady
    <3>1. Bounded' /\ \A m \in Jobs : Owns(m) => Owns(m)'
      BY <2>1, <2>3, <1>k DEF Keeps, Steady, Owns
    <3>2. boundary.error # 0 => nav'[boundary.error].gen = nav[boundary.error].gen
      BY <1>0, <2>1 DEF Onward
    <3> QED BY <2>3, <3>1, <3>2, <1>0, <1>b DEF BoundaryOwned, Keeps, Steady
  <2>4. CASE Yields(n) /\ Steady
    <3>1. ASSUME NEW m \in Jobs, nav'[m].gen = gen', nav'[m].phase \in Waiting PROVE FALSE
      <4>1. m # n /\ nav[m].gen = gen /\ nav[m].phase \in Waiting
        BY <2>1, <2>4, <3>1 DEF Yields, Onward, Steady
      <4>2. nav[m].bgen = nav[n].bgen
        BY <2>4, <4>1, <1>b DEF Bounded, Yields
      <4> QED BY <2>4, <4>1, <4>2, <1>w DEF RouterInv, Numbered, Apart, Yields
    <3>2. Bounded'
      BY <3>1 DEF Bounded
    <3>3. BoundaryOwned'
      BY <2>4 DEF Yields, Vacated, Cleared, BoundaryOwned
    <3> QED BY <3>2, <3>3
  <2>5. CASE Records(n)
    <3>1. /\ boundary'.gen = boundary.gen /\ boundary'.timer = boundary.timer
          /\ boundary'.pending = boundary.pending /\ boundary'.error = n /\ gen' = gen
      BY <2>5, <1>0 DEF Records, BoundaryTypes, BoundaryRecord
    <3>2. Bounded' /\ \A m \in Jobs : Owns(m) => Owns(m)'
      BY <2>1, <2>5, <3>1, <1>k DEF Records, Owns, Waiting
    <3>3. nav'[n].gen = gen' \/ \E m \in Jobs : Owns(m)
      <4>1. PICK m \in Jobs : nav[m].gen = gen /\ (m = n \/ nav[m].phase \in {"fetching", "loading"})
        BY <2>5, <1>0 DEF Records, RouterInv, Stacked
      <4>2. CASE m = n
        BY <2>5, <4>1, <4>2 DEF Records
      <4>3. CASE nav[m].phase \in {"fetching", "loading"}
        BY <4>1, <4>3, <1>b DEF Owns, Bounded, Waiting
      <4> QED BY <4>1, <4>2, <4>3
    <3> QED BY <3>1, <3>2, <3>3, <1>0, <1>b DEF BoundaryOwned
  <2> QED BY <1>2, <2>2, <2>3, <2>4, <2>5, SteadyAdvance, BoundaryAdvance DEF BoundaryStep
<1>3. CASE Abroad \/ UNCHANGED vars
  <2>1. \A m \in Jobs : Onward(m) /\ nav'[m].phase = nav[m].phase
    BY <1>3, <1>s, AbroadSame DEF RouterInv
  <2>2. CASE Destroy
    BY <2>1, <2>2, <1>r, ResetSteps
  <2>3. CASE boundary'.gen = boundary.gen /\ gen' = gen
    <3>1. Bounded' /\ \A m \in Jobs : Owns(m) => Owns(m)'
      BY <2>1, <2>3, <1>k DEF Owns
    <3>2. boundary.error # 0 => nav'[boundary.error].gen = nav[boundary.error].gen
      BY <1>0, <2>1 DEF Onward
    <3>3. CASE UNCHANGED boundary
      BY <2>3, <3>1, <3>2, <3>3, <1>0, <1>b DEF BoundaryOwned
    <3>4. CASE PendingTimer
      <4>1. /\ boundary'.timer = 0 /\ boundary'.pending = boundary.pending
            /\ boundary'.error = boundary.error
        BY <3>4, <1>0 DEF PendingTimer, BoundaryTypes, BoundaryRecord
      <4> QED BY <2>3, <3>1, <3>2, <4>1, <1>0, <1>b DEF BoundaryOwned
    <3>5. CASE PendingMounted
      <4>1. /\ boundary'.timer = boundary.timer /\ boundary'.error = boundary.error
            /\ inside # 0 /\ nav[inside].phase \in Waiting
        BY <3>5, <1>0 DEF PendingMounted, BoundaryTypes, BoundaryRecord
      <4>2. PICK m \in Jobs : nav[m].gen = gen /\ (m = inside \/ nav[m].phase \in {"fetching", "loading"})
        BY <4>1 DEF RouterInv, Stacked
      <4>3. Owns(m)
        BY <4>1, <4>2, <1>b DEF Owns, Bounded, Waiting
      <4> QED BY <2>3, <3>1, <3>2, <4>1, <4>3, <1>0, <1>b DEF BoundaryOwned
    <3> QED BY <1>3, <3>3, <3>4, <3>5, <2>2, <2>1, <1>r, ResetSteps
            DEF Abroad, HashChange, EntryGoes, vars
  <2>4. ~Destroy => boundary'.gen = boundary.gen /\ gen' = gen
    BY <1>3, <1>0 DEF Abroad, HashChange, EntryGoes, PendingTimer, PendingMounted, vars,
       BoundaryTypes, BoundaryRecord
  <2> QED BY <2>2, <2>3, <2>4
<1> QED BY <1>1, <1>2, <1>3, StepKinds

-----------------------------------------------------------------------------
(* The call stack *)

\* A commit or a mount enters from the event loop, and returns to it.
Called == {"inside", "failing"}
Enters(n) ==
  /\ inside = 0 /\ inside' = n /\ nav[n].gen = gen /\ UNCHANGED active
  /\ \/ nav'[n].phase = "failing"
     \/ nav[n].phase = "transition" /\ nav'[n].phase = "inside" /\ nav'[n].base = nav[n].base
StackStep(n) ==
  \/ inside = 0 /\ inside' = 0 /\ nav'[n].phase \notin Called
  \/ Enters(n)
  \/ inside = n /\ inside' = 0 /\ nav'[n].phase \notin Called

\* The stack, after a step of a job
LEMMA StackAdvance ==
  ASSUME RouterInv, NEW n \in Jobs, Advances(n)
  PROVE StackStep(n)
<1> USE DEF coreVars, histVars
<1>0. NavTypes /\ SignalsAborted \in [Jobs -> NavRecord]
  BY TypeParts, SignalsType DEF RouterInv
<1>i. inside = 0 => nav[n].phase \notin Called
  BY EmptyRecords DEF RouterInv, Stacked, Called
<1>t. Turn /\ UNCHANGED <<inside, nav>> => StackStep(n)
  BY <1>i DEF Turn, StackStep
<1>u. Turn /\ UNCHANGED inside /\ nav'[n].phase \notin Called => StackStep(n)
  BY DEF Turn, StackStep
<1>c. "abandoned" \notin Called /\ "dropping" \notin Called /\ "ended" \notin Called
      /\ "loading" \notin Called /\ "transition" \notin Called /\ "committed" \notin Called
      /\ "thrown" \notin Called /\ "rejected" \notin Called
  BY DEF Called
<1>g. ASSUME NEW ph, Goes(n, ph) PROVE nav'[n].phase = ph /\ nav'[n].base = nav[n].base
  BY <1>g, <1>0 DEF Goes, NavTypes, NavRecord
<1>e. Ends(n) => nav'[n].phase = "ended"
  BY <1>0 DEF Ends, Ended, NoNav, NavTypes
<1>d. ASSUME NEW d, NEW reqs, Departs(n, d, reqs) PROVE nav'[n].phase = "abandoned"
  BY <1>d, <1>0 DEF Departs, NavTypes, NavRecord
<1>1. ASSUME NEW p \in Paths, Hover(n, p) PROVE StackStep(n)
  BY <1>1, <1>t DEF Hover
<1>2. CASE Mismatch(n)
  BY <1>2, <1>c, <1>u, <1>g, <1>e DEF Mismatch
<1>3. CASE Fetched(n)
  <2>1. CASE nav' = [nav EXCEPT ![n].phase = "loading", ![n].data = <<nav[n].path, n>>]
    BY <1>3, <2>1, <1>0, <1>c, <1>u DEF NavTypes, NavRecord, Fetched
  <2> QED BY <1>3, <2>1, <1>d, <1>c, <1>u DEF Fetched
<1>4. CASE FetchedDocument(n)
  BY <1>4, <1>c, <1>u, <1>0 DEF FetchedDocument, Ended, NoNav
<1>5. CASE Failed(n)
  BY <1>5, <1>c, <1>u, <1>g, <1>e DEF Failed
<1>6. CASE Loaded(n)
  BY <1>6, <1>c, <1>u, <1>0 DEF Loaded, NavTypes, NavRecord
<1>7. CASE LoadedLate(n)
  BY <1>7, <1>c, <1>u, <1>g DEF LoadedLate
<1>8. CASE LoadedUnknown(n)
  BY <1>8, <1>c, <1>u, <1>d DEF LoadedUnknown
<1>9. CASE LoadFails(n)
  BY <1>9, <1>c, <1>u, <1>g DEF LoadFails
<1>10. CASE Commit(n)
  BY <1>10, <1>c, <1>u, <1>g DEF Commit, Commits, Superseded, StackStep, Enters, Turn
<1>11. CASE CommitEnd(n)
  BY <1>11, <1>c, <1>g DEF CommitEnd, StackStep
<1>12. CASE CommitThrows(n)
  BY <1>12, <1>c, <1>g DEF CommitThrows, StackStep
<1>13. CASE Settled(n)
  BY <1>13, <1>c, <1>u, <1>g, <1>e DEF Settled
<1>14. CASE Abandon(n)
  BY <1>14, <1>c, <1>u, <1>g, <1>e DEF Abandon
<1>15. CASE Thrown(n)
  BY <1>15, <1>c, <1>u, <1>g DEF Thrown
<1>16. CASE Rejected(n)
  BY <1>16, <1>c, <1>u, <1>0, RejectedEnds DEF Rejected, Destroyed
<1>17. CASE TailTimesOut(n)
  BY <1>17, <1>t DEF TailTimesOut, Aborted, Released
<1>18. CASE Hovered(n)
  BY <1>18, <1>t DEF Hovered, Preloads, Delivers, Whole, Done, ReleaseUnlessStreaming, HoverOver
<1>19. CASE HoverFails(n)
  BY <1>19, <1>t DEF HoverFails, Preloads, Breaks, Done, Released, HoverOver
<1>20. CASE ReadFirst(n)
  BY <1>20, <1>t DEF ReadFirst
<1>21. CASE StatesArrive(n)
  BY <1>21, <1>t DEF StatesArrive, Streams, Applies
<1>22. CASE StreamEnds(n)
  BY <1>22, <1>t DEF StreamEnds, StreamOver
<1>23. CASE StreamBreaks(n)
  BY <1>23, <1>t DEF StreamBreaks, StreamOver
<1>24. CASE n = 1 /\ BootDone
  BY <1>24, <1>c, <1>u, <1>g, <1>e DEF BootDone
<1>25. CASE n = 1 /\ BootFails
  BY <1>25, <1>c, <1>u, <1>g DEF BootFails
<1>26. CASE FailedMounts(n)
  BY <1>26, <1>g DEF FailedMounts, Superseded, StackStep, Enters, Turn
<1>27. CASE ErrorMounted(n)
  BY <1>27, <1>c, <1>e DEF ErrorMounted, StackStep
<1> QED
  BY <1>1, <1>2, <1>3, <1>4, <1>5, <1>6, <1>7, <1>8, <1>9, <1>10, <1>11, <1>12,
     <1>13, <1>14, <1>15, <1>16, <1>17, <1>18, <1>19, <1>20, <1>21, <1>22, <1>23, <1>24,
     <1>25, <1>26, <1>27
  DEF Advances, NavStep

LEMMA StackedNext ==
  ASSUME RouterInv, [Next]_vars
  PROVE Stacked'
<1> USE DEF coreVars, histVars
<1>0. /\ 0 \notin Jobs /\ inside \in Jobs \cup {0} /\ gen \in Nat /\ Stacked
      /\ \A m \in Jobs : nav[m].gen \in Nat /\ nav[m].gen <= gen
  BY TypeParts, EmptyRecords
     DEF RouterInv, RestTypes, PageTypes, Numbered, Numbers, NavTypes, NavRecord
\* the stack is as it was, and so is the page
<1>s. ASSUME \A m \in Jobs : SameNav(m), UNCHANGED <<inside, active, gen>> PROVE Stacked'
  BY <1>0, <1>s DEF SameNav, Stacked
<1>l. ASSUME inside' = 0, \A m \in Jobs : nav'[m].phase \notin Called PROVE Stacked'
  BY <1>0, <1>l DEF Stacked, Called
<1>1. ASSUME NEW n \in Jobs, Opens(n) PROVE Stacked'
  <2>1. JustOpened(n) /\ \A m \in Jobs \ {n} : SameNav(m)
    BY <1>1, OpenedSteps, NavElsewhere DEF NavActs, RouterInv
  <2>2. inside # n /\ nav'[n].phase \in {"fetching", "loading"} /\ nav'[n].gen = gen'
    BY <2>1, <1>0 DEF JustOpened, Stacked, Waiting
  <2>3. \A m \in Jobs \ {n} : nav'[m].gen # gen'
    BY <2>1, <1>0 DEF JustOpened, SameNav
  <2> QED BY <1>0, <2>1, <2>2, <2>3 DEF JustOpened, SameNav, Stacked
<1>2. ASSUME NEW n \in Jobs, Advances(n) PROVE Stacked'
  <2>1. StackStep(n) /\ \A m \in Jobs \ {n} : SameNav(m)
    BY <1>2, StackAdvance, NavElsewhere DEF NavActs, RouterInv
  <2>2. CASE inside' = 0 /\ inside \in {0, n} /\ nav'[n].phase \notin Called
    <3>1. ASSUME NEW m \in Jobs, m # n PROVE nav'[m].phase \notin Called
      BY <1>0, <2>1, <2>2, <3>1 DEF SameNav, Stacked, Called
    <3> QED BY <2>2, <3>1, <1>l
  <2>3. CASE Enters(n)
    <3>1. gen' = gen /\ nav'[n].gen = nav[n].gen /\ nav'[n].phase \in Called
      <4>1. nav'[n].gen = nav[n].gen
        BY <1>2, OnwardAdvance DEF Onward
      <4>2. nav'[n].phase \in Called /\ ~Reset
        BY <1>0, <2>3 DEF Enters, Called, Reset
      <4> QED BY <1>2, <4>1, <4>2, SteadyAdvance DEF Steady
    <3>2. nav'[n].phase = "inside" => nav'[n].base = active'
      BY <2>3 DEF Enters, RouterInv, Showing, Shows
    <3>3. ASSUME NEW m \in Jobs, nav'[m].phase \in Called PROVE m = n
      BY <1>0, <2>1, <2>3, <3>3 DEF SameNav, Stacked, Called, Enters
    <3>4. ASSUME NEW m \in Jobs, nav'[m].gen = gen', m # n PROVE FALSE
      <4>1. nav[n].phase # "idle"
        BY <1>2, <2>3, <3>1, OnwardAdvance DEF Onward, Called
      <4> QED BY <2>1, <2>3, <3>1, <3>4, <4>1 DEF SameNav, RouterInv, Numbered, Apart, Enters
    <3> QED BY <1>0, <2>3, <3>1, <3>2, <3>3, <3>4 DEF Stacked, Enters, Called
  <2> QED BY <2>1, <2>2, <2>3 DEF StackStep
<1>3. CASE Abroad
  <2>1. \A m \in Jobs : SameNav(m)
    BY <1>3, AbroadSame DEF RouterInv
  <2>2. CASE HashChange \/ \E p \in Paths : EntryGoes(p)
    BY <2>1, <2>2, <1>s DEF HashChange, EntryGoes
  <2>3. CASE inside' = 0 /\ \A m \in Jobs : nav[m].phase \notin Called
    BY <2>1, <2>3, <1>l DEF SameNav
  <2>4. CASE Destroy
    BY <2>3, <2>4, <1>0 DEF Destroy, Destroyed, Turn, Stacked, Called
  <2>5. CASE PendingMounted
    BY <2>3, <2>5, <1>0 DEF PendingMounted, Stacked, Called, Waiting
  <2>6. CASE PendingTimer
    <3>1. /\ inside = 0 /\ inside' \in {0, boundary.timer} /\ UNCHANGED <<nav, gen, active>>
          /\ boundary.timer \in Jobs
      BY <2>6, TypeParts DEF PendingTimer, Turn, RouterInv, BoundaryTypes, BoundaryRecord
    <3>2. /\ nav[boundary.timer].gen = gen /\ nav[boundary.timer].phase \in Waiting
      BY <2>6 DEF PendingTimer, RouterInv, BoundaryOwned, Owns
    <3>3. \A m \in Jobs : nav[m].gen = gen => m = boundary.timer
      BY <3>1, <3>2 DEF RouterInv, Numbered, Apart, Waiting
    <3>4. \A m \in Jobs : nav[m].phase \notin Called
      BY <3>1, <1>0 DEF Stacked, Called
    <3> QED BY <3>1, <3>2, <3>3, <3>4 DEF Stacked, Called
  <2> QED BY <1>3, <2>2, <2>4, <2>5, <2>6 DEF Abroad
<1>4. CASE UNCHANGED vars
  BY <1>4 DEF vars, RouterInv, Stacked
<1> QED BY <1>1, <1>2, <1>3, <1>4, StepKinds

-----------------------------------------------------------------------------
(* The page on display *)

\* What the job of a step shows
LEMMA ShowsAdvance ==
  ASSUME RouterInv, NEW n \in Jobs, Advances(n)
  PROVE Shows(n)'
<1> USE DEF coreVars, histVars
<1>0. /\ NavTypes /\ SignalsAborted \in [Jobs -> NavRecord]
      /\ req \in [Jobs -> ReqRecord] /\ \A jobs : Aborted(jobs) \in [Jobs -> ReqRecord]
  BY TypeParts, SignalsType, AbortedType DEF RouterInv, ReqTypes
<1>s. Stage(n) /\ Fits(n) /\ Shows(n)
  BY DEF RouterInv, Staged, Fitting, Showing
<1>n. nav'[n].phase \notin {"transition", "committed", "ended"} => Shows(n)'
  BY DEF Shows
<1>f. nav'[n].phase = "ended" /\ req'[n].phase # "draining" => Shows(n)'
  BY DEF Shows
<1>g. ASSUME NEW ph, Goes(n, ph) PROVE nav'[n].phase = ph /\ nav'[n].data = nav[n].data
  BY <1>g, <1>0 DEF Goes, NavTypes, NavRecord
<1>e. Ends(n) => nav'[n].phase = "ended"
  BY <1>0 DEF Ends, Ended, NoNav, NavTypes
<1>d. req' = Done(req, n) => req'[n].phase = "done"
  BY <1>0 DEF Done, NoReq
<1>h. req' = Handed(n) => req'[n].phase \in {"paused", "done"}
  BY <1>0, HandedType DEF ReqTypes, RouterInv, TypeOK
<1>c. CancelDeferred(n) => (req'[n].phase = IF req[n].phase = "paused" THEN "done" ELSE req[n].phase)
  BY <1>d DEF CancelDeferred
<1>p. ASSUME NEW d, NEW reqs, Departs(n, d, reqs) PROVE nav'[n].phase = "abandoned"
  BY <1>p, <1>0 DEF Departs, NavTypes, NavRecord
<1>u. UNCHANGED <<nav, gen, active>> /\ (req' = req \/ req'[n].phase # "draining") => Shows(n)'
  BY <1>s DEF Shows, Pending
<1>a. ASSUME NEW jobs, req' = Aborted(jobs) PROVE req'[n].phase = req[n].phase
  BY <1>a, <1>0 DEF Aborted, ReqRecord
<1>1. ASSUME NEW p \in Paths, Hover(n, p) PROVE Shows(n)'
  BY <1>1, <1>n DEF Hover, IsNext, Free
<1>2. CASE Mismatch(n)
  BY <1>2, <1>n, <1>f, <1>g, <1>e, <1>h DEF Mismatch, Handed
<1>3. CASE Fetched(n)
  <2>1. CASE nav' = [nav EXCEPT ![n].phase = "loading", ![n].data = <<nav[n].path, n>>]
    BY <2>1, <1>0, <1>n DEF NavTypes, NavRecord
  <2> QED BY <1>3, <2>1, <1>p, <1>n DEF Fetched
<1>4. CASE FetchedDocument(n)
  <2>1. nav'[n].phase = "ended"
    BY <1>4, <1>0 DEF FetchedDocument, Ended, NoNav
  <2> QED BY <1>4, <2>1, <1>d, <1>f DEF FetchedDocument
<1>5. CASE Failed(n)
  BY <1>5, <1>e, <1>d, <1>f DEF Failed
<1>6. CASE Loaded(n)
  <2>1. nav'[n].phase = "transition" /\ nav'[n].base = active /\ active' = active
    BY <1>6, <1>0 DEF Loaded, NavTypes, NavRecord
  <2> QED BY <2>1 DEF Shows
<1>7. CASE LoadedLate(n)
  BY <1>7, <1>n, <1>g DEF LoadedLate
<1>8. CASE LoadedUnknown(n)
  BY <1>8, <1>n, <1>p DEF LoadedUnknown
<1>9. CASE LoadFails(n)
  BY <1>9, <1>n, <1>g DEF LoadFails
<1>10. CASE Commit(n)
  BY <1>10, <1>n, <1>g DEF Commit
<1>11. CASE CommitEnd(n)
  <2>1. nav'[n].phase = "committed" /\ nav'[n].data = nav[n].data /\ active'.data = nav[n].data
    BY <1>11, <1>g DEF CommitEnd
  <2> QED BY <2>1 DEF Shows
<1>12. CASE CommitThrows(n)
  BY <1>12, <1>n, <1>g DEF CommitThrows
<1>13. CASE Settled(n)
  <2>1. CASE Superseded(n)
    BY <1>13, <2>1, <1>n, <1>g DEF Settled
  <2>2. CASE ~Superseded(n)
    <3>1. /\ nav'[n].phase = "ended" /\ nav[n].phase = "committed" /\ nav[n].gen = gen
          /\ active' = active
      BY <1>13, <2>2, <1>e DEF Settled, Superseded
    <3>2. /\ req[n].phase \in {"none", "done", "paused"} /\ active.data = nav[n].data
          /\ req[n].phase = "paused" => Own(n) /\ req[n].path = nav[n].path
      BY <3>1, <1>s DEF Stage, Fits, Shows, Going, Unfinished
    <3>3. CASE req[n].phase = "paused"
      <4>1. req'[n].path = req[n].path
        BY <1>13, <2>2, <1>0 DEF Settled, ReqRecord
      <4>2. active'.data = <<req'[n].path, n>>
        BY <3>1, <3>2, <3>3, <4>1 DEF Own
      <4> QED BY <3>1, <4>2 DEF Shows
    <3>4. CASE req[n].phase # "paused"
      BY <1>13, <2>2, <3>1, <3>2, <3>4, <1>f DEF Settled, Paused
    <3> QED BY <3>3, <3>4
  <2> QED BY <2>1, <2>2
<1>14. CASE Abandon(n)
  BY <1>14, <1>s, <1>e, <1>c, <1>f DEF Abandon, Stage, Going
<1>15. CASE Thrown(n)
  BY <1>15, <1>n, <1>g DEF Thrown
<1>16. CASE Rejected(n)
  <2>1. nav'[n].phase = "ended" /\ nav[n].phase = "rejected"
    BY <1>16, <1>0, RejectedEnds DEF Rejected
  <2>2. req'[n].phase = req[n].phase
    BY <1>16, <1>a DEF Rejected, Destroyed, AbortPartials
  <2> QED BY <1>s, <2>1, <2>2, <1>f DEF Stage
<1>17. CASE TailTimesOut(n)
  BY <1>17, <1>u, <1>a DEF TailTimesOut
<1>18. CASE Hovered(n)
  BY <1>18, <1>n DEF Hovered, Preloads
<1>19. CASE HoverFails(n)
  BY <1>19, <1>n DEF HoverFails, Preloads
<1>20. CASE ReadFirst(n)
  <2>1. req'[n].phase = "preparing"
    BY <1>20, <1>0 DEF ReadFirst, ReqRecord
  <2> QED BY <1>20, <2>1, <1>u DEF ReadFirst
<1>21. CASE StatesArrive(n)
  BY <1>21, <1>u DEF StatesArrive, Streams, Applies
<1>22. CASE StreamEnds(n)
  BY <1>22, <1>u, <1>d DEF StreamEnds, StreamOver
<1>23. CASE StreamBreaks(n)
  BY <1>23, <1>u, <1>d DEF StreamBreaks, StreamOver
<1>24. CASE n = 1 /\ BootDone
  BY <1>24, <1>s, <1>e, <1>f DEF BootDone, Stage
<1>25. CASE n = 1 /\ BootFails
  BY <1>25, <1>n, <1>g DEF BootFails
<1>26. CASE FailedMounts(n)
  BY <1>26, <1>n, <1>g DEF FailedMounts
<1>27. CASE ErrorMounted(n)
  BY <1>27, <1>s, <1>e, <1>f DEF ErrorMounted, Stage
<1> QED
  BY <1>1, <1>2, <1>3, <1>4, <1>5, <1>6, <1>7, <1>8, <1>9, <1>10, <1>11, <1>12,
     <1>13, <1>14, <1>15, <1>16, <1>17, <1>18, <1>19, <1>20, <1>21, <1>22, <1>23, <1>24,
     <1>25, <1>26, <1>27
  DEF Advances, NavStep

\* The page on display changes with a commit or a reset; states are added to it
\* from the stream of its own response, or by a commit that throws.
Stays ==
  /\ UNCHANGED active /\ given.torn \subseteq given'.torn
  /\ given'.states \subseteq given.states \cup {active.data} \cup given'.torn
DisplayStep(n) == Stays \/ Reset \/ CommitEnd(n)

\* What is on display, after a step of a job
LEMMA DisplayAdvance ==
  ASSUME RouterInv, NEW n \in Jobs, Advances(n)
  PROVE DisplayStep(n)
<1> USE DEF coreVars, histVars
<1>0. given = [states |-> given.states, torn |-> given.torn]
  BY TypeParts DEF RouterInv, PageTypes
<1>u. UNCHANGED <<active, given>> => DisplayStep(n)
  BY DEF DisplayStep, Stays
<1>1. ASSUME NEW p \in Paths, Hover(n, p) PROVE DisplayStep(n)
  BY <1>1, <1>u DEF Hover, DisplayStep
<1>2. CASE Mismatch(n)
  BY <1>2, <1>u DEF Mismatch, DisplayStep
<1>3. CASE Fetched(n)
  BY <1>3, <1>u DEF Fetched, DisplayStep
<1>4. CASE FetchedDocument(n)
  BY <1>4, <1>u DEF FetchedDocument, DisplayStep
<1>5. CASE Failed(n)
  BY <1>5, <1>u DEF Failed, DisplayStep
<1>6. CASE Loaded(n)
  BY <1>6, <1>u DEF Loaded, DisplayStep
<1>7. CASE LoadedLate(n)
  BY <1>7, <1>u DEF LoadedLate, DisplayStep
<1>8. CASE LoadedUnknown(n)
  BY <1>8, <1>u DEF LoadedUnknown, DisplayStep
<1>9. CASE LoadFails(n)
  BY <1>9, <1>u DEF LoadFails, DisplayStep
<1>10. CASE Commit(n)
  BY <1>10, <1>u DEF Commit, DisplayStep
<1>11. CASE CommitEnd(n)
  BY <1>11 DEF CommitEnd, DisplayStep
<1>12. CASE CommitThrows(n)
  BY <1>12 DEF CommitThrows, DisplayStep, Stays
<1>13. CASE Settled(n)
  BY <1>13, <1>u DEF Settled, DisplayStep
<1>14. CASE Abandon(n)
  BY <1>14, <1>u DEF Abandon, DisplayStep
<1>15. CASE Thrown(n)
  BY <1>15, <1>u DEF Thrown, DisplayStep
<1>16. CASE Rejected(n)
  BY <1>16, <1>u, ResetSteps DEF Rejected, DisplayStep
<1>17. CASE TailTimesOut(n)
  BY <1>17, <1>u DEF TailTimesOut, DisplayStep
<1>18. CASE Hovered(n)
  BY <1>18, <1>u DEF Hovered, DisplayStep
<1>19. CASE HoverFails(n)
  BY <1>19, <1>u DEF HoverFails, DisplayStep
<1>20. CASE ReadFirst(n)
  BY <1>20, <1>u DEF ReadFirst, DisplayStep
<1>21. CASE StatesArrive(n)
  <2>1. /\ req[n].phase = "draining" /\ ~req[n].aborted /\ req[n].path = current
        /\ given' = [given EXCEPT !.states = @ \cup {<<req[n].path, n>>}] /\ active' = active
    BY <1>21 DEF StatesArrive, Streams, Applies
  <2>2. Pending(n) /\ Wanted(n) /\ Stage(n) /\ Shows(n) /\ nav[n].phase \in Phases
    BY <2>1, TypeParts
       DEF RouterInv, Requested, Staged, Showing, Pending, Unfinished, NavTypes, NavRecord
  <2>3. nav[n].phase = "ended"
    BY <2>1, <2>2 DEF Wanted, Stage, Phases, Going, Waiting
  <2>4. active.data = <<req[n].path, n>>
    BY <2>1, <2>2, <2>3 DEF Shows
  <2>5. given'.states = given.states \cup {active.data} /\ given'.torn = given.torn
    BY <1>0, <2>1, <2>4
  <2> QED BY <2>1, <2>5 DEF DisplayStep, Stays
<1>22. CASE StreamEnds(n)
  BY <1>22, <1>u DEF StreamEnds, StreamOver, DisplayStep
<1>23. CASE StreamBreaks(n)
  BY <1>23, <1>u DEF StreamBreaks, StreamOver, DisplayStep
<1>24. CASE n = 1 /\ BootDone
  BY <1>24, <1>u DEF BootDone, DisplayStep
<1>25. CASE n = 1 /\ BootFails
  BY <1>25, <1>u DEF BootFails, DisplayStep
<1>26. CASE FailedMounts(n)
  BY <1>26, <1>u DEF FailedMounts
<1>27. CASE ErrorMounted(n)
  BY <1>27, <1>u DEF ErrorMounted
<1> QED
  BY <1>1, <1>2, <1>3, <1>4, <1>5, <1>6, <1>7, <1>8, <1>9, <1>10, <1>11, <1>12,
     <1>13, <1>14, <1>15, <1>16, <1>17, <1>18, <1>19, <1>20, <1>21, <1>22, <1>23, <1>24,
     <1>25, <1>26, <1>27
  DEF Advances, NavStep

LEMMA ShowingNext ==
  ASSUME RouterInv, [Next]_vars
  PROVE Showing'
<1> USE DEF coreVars, histVars
<1>0. /\ NavTypes /\ gen \in Nat /\ 0 \notin Jobs /\ inside \in Jobs \cup {0}
      /\ req \in [Jobs -> ReqRecord] /\ Aborted(tracked) \in [Jobs -> ReqRecord]
      /\ \A m \in Jobs : nav[m].gen \in Nat /\ nav[m].gen <= gen
  BY TypeParts, EmptyRecords, AbortedType
     DEF RouterInv, RestTypes, PageTypes, Numbered, Numbers, NavTypes, NavRecord, ReqTypes
<1>b. ASSUME NEW m \in Jobs, req'[m] = Aborted(tracked)[m] PROVE ~Pending(m)'
  BY <1>b, <1>0 DEF Pending, Aborted, ReqRecord, RouterInv, Requested, Tracks
<1>s. ASSUME NEW m \in Jobs, SameNav(m), SameReq(m), gen' = gen, active' = active PROVE Shows(m)'
  BY <1>s DEF RouterInv, Showing, Shows, SameNav, SameReq, Pending
<1>o. ASSUME NEW m \in Jobs, SameNav(m), gen' = gen + 1, ~Pending(m)' PROVE Shows(m)'
  <2>1. nav'[m].gen # gen'
    BY <1>o, <1>0 DEF SameNav
  <2> QED BY <2>1, <1>o DEF Shows
<1>1. ASSUME NEW n \in Jobs, Opens(n) PROVE Showing'
  <2>1. JustOpened(n) /\ \A m \in Jobs \ {n} : SameNav(m)
    BY <1>1, OpenedSteps, NavElsewhere DEF NavActs, RouterInv
  <2>2. Shows(n)'
    BY <2>1 DEF JustOpened, Shows
  <2>3. ASSUME NEW m \in Jobs, m # n PROVE Shows(m)'
    <3>1. req'[m] = Aborted(tracked)[m]
      BY <2>1, <2>3 DEF JustOpened
    <3> QED BY <2>1, <2>3, <3>1, <1>b, <1>o DEF JustOpened
  <2>4. StatesOfPage'
    BY <2>1 DEF JustOpened, StatesOfPage, RouterInv, Showing
  <2> QED BY <2>2, <2>3, <2>4 DEF Showing
<1>2. ASSUME NEW n \in Jobs, Advances(n) PROVE Showing'
  <2>1. DisplayStep(n) /\ Shows(n)' /\ \A m \in Jobs \ {n} : SameNav(m) /\ SameReq(m)
    BY <1>2, DisplayAdvance, ShowsAdvance, NavElsewhere, ReqElsewhere DEF NavActs, RouterInv
  <2>2. CASE Reset
    <3>1. ASSUME NEW m \in Jobs, m # n PROVE Shows(m)'
      BY <2>1, <2>2, <3>1, <1>b, <1>o DEF Reset
    <3> QED BY <2>1, <2>2, <3>1 DEF Reset, Showing, StatesOfPage
  <2>3. CASE Steady /\ UNCHANGED active
    <3>1. ASSUME NEW m \in Jobs, m # n PROVE Shows(m)'
      BY <2>1, <2>3, <3>1, <1>s DEF Steady
    <3>2. Stays \/ given'.states \subseteq {active'.data}
      BY <2>1, <2>3 DEF DisplayStep, CommitEnd, Reset
    <3>3. StatesOfPage'
      BY <2>3, <3>2 DEF Stays, StatesOfPage, RouterInv, Showing
    <3> QED BY <2>1, <3>1, <3>3 DEF Showing
  <2>4. CASE CommitEnd(n)
    <3>1. given'.states \subseteq {active'.data} /\ inside = n /\ gen' = gen
      BY <2>4 DEF CommitEnd
    <3>2. ASSUME NEW m \in Jobs, m # n, nav[m].gen = gen PROVE nav[m].phase \in {"fetching", "loading"}
      BY <3>1, <3>2, <1>0 DEF RouterInv, Stacked
    <3>3. ASSUME NEW m \in Jobs, m # n PROVE Shows(m)'
      <4>1. SameNav(m) /\ SameReq(m) /\ Wanted(m)
        BY <2>1, <3>3 DEF RouterInv, Requested
      <4>2. nav'[m].gen = gen' => nav'[m].phase \in {"fetching", "loading"}
        BY <3>1, <3>2, <3>3, <4>1 DEF SameNav
      <4>3. nav'[m].phase = "ended" => ~Pending(m)'
        BY <3>1, <3>2, <3>3, <4>1 DEF SameNav, SameReq, Pending, Wanted
      <4> QED BY <4>2, <4>3 DEF Shows
    <3> QED BY <2>1, <3>1, <3>3 DEF Showing, StatesOfPage
  <2> QED BY <1>2, <2>1, <2>2, <2>3, <2>4, SteadyAdvance DEF DisplayStep, Stays
<1>3. CASE Abroad \/ UNCHANGED vars
  <2>1. \A m \in Jobs : SameNav(m) /\ SameReq(m)
    BY <1>3, AbroadSame DEF RouterInv
  <2>2. CASE Reset
    BY <2>1, <2>2, <1>b, <1>o DEF Reset, Showing, StatesOfPage
  <2>3. CASE UNCHANGED <<active, given, gen>>
    BY <2>1, <2>3, <1>s DEF Showing, StatesOfPage, RouterInv
  <2> QED BY <1>3, <2>2, <2>3, ResetSteps DEF Abroad, HashChange, PendingTimer, PendingMounted, EntryGoes, vars
<1> QED BY <1>1, <1>2, <1>3, StepKinds

-----------------------------------------------------------------------------
(* The cache *)

\* A cache of the right shape that serves nothing but what is in whole
Sound(c, whole) ==
  /\ c = [entries |-> c.entries, order |-> c.order]
  /\ c.entries \in [Paths -> Entries \cup {[data |-> None]}]
  /\ \A p \in Paths : Cache!Hit(c, p) => c.entries[p].data \in whole

\* A commit is of a later navigation than the page it replaces.
LEMMA OrderedNext ==
  ASSUME RouterInv, [Next]_vars
  PROVE Ordered'
<1> USE DEF coreVars, histVars
<1>0. /\ 0 \notin Jobs /\ active.nav \in Jobs \cup {0} /\ gen \in Nat /\ Ordered /\ NoPage.nav = 0
      /\ \A m \in Jobs : nav[m].gen \in Nat /\ nav[m].gen <= gen
  BY TypeParts, EmptyRecords
     DEF RouterInv, PageTypes, Pages, NoPage, Numbered, Numbers, NavTypes, NavRecord
<1>r. Reset => Ordered'
  BY <1>0 DEF Reset, Ordered
<1>s. ASSUME \A m \in Jobs : SameNav(m), UNCHANGED active PROVE Ordered'
  BY <1>0, <1>s DEF SameNav, Ordered
<1>1. ASSUME NEW n \in Jobs, Opens(n) PROVE Ordered'
  <2>1. JustOpened(n) /\ \A m \in Jobs \ {n} : SameNav(m)
    BY <1>1, OpenedSteps, NavElsewhere DEF NavActs, RouterInv
  <2>2. active.nav # n /\ nav'[n].phase \in {"fetching", "loading"} /\ active' = active
    BY <2>1, <1>0 DEF JustOpened, Ordered
  <2> QED BY <1>0, <2>1, <2>2 DEF SameNav, Ordered
<1>2. ASSUME NEW n \in Jobs, Advances(n) PROVE Ordered'
  <2>1. /\ StackStep(n) /\ DisplayStep(n) /\ Onward(n)
        /\ \A m \in Jobs \ {n} : SameNav(m)
    BY <1>2, StackAdvance, DisplayAdvance, OnwardAdvance, NavElsewhere DEF NavActs, RouterInv
  <2>2. \A m \in Jobs : /\ nav'[m].gen = nav[m].gen
                        /\ nav'[m].phase = "idle" <=> nav[m].phase = "idle"
    BY <2>1 DEF SameNav, Onward
  <2>3. CASE UNCHANGED active
    <3>1. ASSUME NEW m \in Jobs, nav'[m].phase = "inside"
          PROVE nav[m].phase = "inside" \/ nav[m].gen = gen
      BY <2>1, <3>1 DEF SameNav, StackStep, Enters, Called
    <3> QED BY <1>0, <2>2, <2>3, <3>1 DEF Ordered
  <2>4. CASE CommitEnd(n)
    <3>1. inside' = 0 /\ active'.nav = n /\ nav[n].phase = "inside"
      BY <2>4 DEF CommitEnd
    <3>2. \A m \in Jobs : nav'[m].phase # "inside"
      BY <1>0, <3>1, StackedNext DEF Stacked
    <3> QED BY <2>2, <3>1, <3>2 DEF Ordered
  <2> QED BY <2>1, <2>3, <2>4, <1>r DEF DisplayStep, Stays
<1>3. CASE Abroad \/ UNCHANGED vars
  <2>1. \A m \in Jobs : SameNav(m)
    BY <1>3, AbroadSame DEF RouterInv
  <2> QED BY <1>3, <2>1, <1>s, <1>r, ResetSteps
          DEF Abroad, HashChange, PendingTimer, PendingMounted, EntryGoes, vars
<1> QED BY <1>1, <1>2, <1>3, StepKinds

LEMMA SoundParts ==
  /\ CacheTypes /\ Kept <=> Sound(cache, arrived)
  /\ (CacheTypes /\ Kept)' <=> Sound(cache', arrived')
BY DEF CacheTypes, Kept, Sound, Cache!Hit, Cache!Has, Cache!Absent

LEMMA SoundLater ==
  ASSUME NEW c, NEW a, NEW b, Sound(c, a), a \subseteq b
  PROVE Sound(c, b)
BY DEF Sound

LEMMA SoundEmpty ==
  ASSUME NEW a
  PROVE Sound(Cache!Empty, a)
BY DEF Sound, Cache!Empty, Cache!Absent, Cache!Hit, Cache!Has

LEMMA SoundEvictAll ==
  ASSUME NEW c, NEW a, Sound(c, a), NEW gone
  PROVE Sound(Cache!EvictAll(c, gone), a)
<1> DEFINE r == Cache!EvictAll(c, gone)
           e == [p \in Paths |-> IF p \in gone THEN [data |-> None] ELSE c.entries[p]]
<1>1. r = [entries |-> e, order |-> Cache!Without(c.order, gone)]
  BY DEF Cache!EvictAll, Cache!Absent
<1>2. e \in [Paths -> Entries \cup {[data |-> None]}]
  BY DEF Sound
<1>3. r = [entries |-> r.entries, order |-> r.order] /\ r.entries = e
  BY <1>1
<1>4. ASSUME NEW p \in Paths, Cache!Hit(r, p) PROVE Cache!Hit(c, p) /\ e[p] = c.entries[p]
  <2>1. e[p] # [data |-> None] /\ e[p].complete
    BY <1>3, <1>4 DEF Cache!Hit, Cache!Has, Cache!Absent
  <2>2. e[p] = c.entries[p]
    BY <2>1
  <2> QED BY <2>1, <2>2 DEF Cache!Hit, Cache!Has, Cache!Absent
<1> HIDE DEF e
<1>5. \A p \in Paths : Cache!Hit(r, p) => r.entries[p].data \in a
  BY <1>3, <1>4 DEF Sound
<1> HIDE DEF r
<1>6. Sound(r, a)
  BY <1>2, <1>3, <1>5 DEF Sound
<1> QED BY <1>6 DEF r

LEMMA SoundEvict ==
  ASSUME NEW c, NEW a, Sound(c, a), NEW p
  PROVE Sound(Cache!Evict(c, p), a)
BY SoundEvictAll DEF Cache!Evict

\* A streamed response is stored before it is whole, but not to be served.
LEMMA SoundStore ==
  ASSUME NEW c, NEW a, Sound(c, a), NEW p \in Paths, NEW d \in Responses,
         NEW streaming \in BOOLEAN, streaming \/ d \in a
  PROVE Sound(Cache!Store(c, p, d, streaming), a)
<1> DEFINE r == Cache!MakeRoom(Cache!Evict(c, p))
           x == [data |-> d, complete |-> ~streaming]
           s == Cache!Store(c, p, d, streaming)
           e == [r.entries EXCEPT ![p] = x]
<1>1. Sound(r, a)
  BY SoundEvict, SoundEvictAll DEF Cache!MakeRoom
<1>2. s = [entries |-> e, order |-> Append(r.order, p)]
  BY DEF Cache!Store
<1>3. x \in Entries /\ (x.complete => d \in a) /\ x.data = d
  BY DEF Entries
<1> HIDE DEF r, x
<1>4. r.entries \in [Paths -> Entries \cup {[data |-> None]}]
  BY <1>1 DEF Sound
<1>5. e \in [Paths -> Entries \cup {[data |-> None]}] /\ e[p] = x
      /\ \A q \in Paths \ {p} : e[q] = r.entries[q]
  BY <1>3, <1>4
<1>6. s = [entries |-> s.entries, order |-> s.order] /\ s.entries = e
  BY <1>2
<1> HIDE DEF s, e
<1>7. ASSUME NEW q \in Paths, Cache!Hit(s, q) PROVE s.entries[q].data \in a
  <2>1. CASE q = p
    BY <2>1, <1>3, <1>5, <1>6, <1>7 DEF Cache!Hit
  <2>2. CASE q # p
    BY <2>2, <1>1, <1>5, <1>6, <1>7 DEF Sound, Cache!Hit, Cache!Has
  <2> QED BY <2>1, <2>2
<1>8. Sound(s, a)
  BY <1>5, <1>6, <1>7 DEF Sound
<1> QED BY <1>8 DEF s

LEMMA SoundTouch ==
  ASSUME NEW c, NEW a, Sound(c, a), NEW p
  PROVE Sound(Cache!Touch(c, p), a)
<1> DEFINE s == Cache!Touch(c, p)
           o == Append(Cache!Without(c.order, {p}), p)
<1>1. c = [entries |-> c.entries, order |-> c.order]
  BY DEF Sound
<1>2. s = [entries |-> c.entries, order |-> o]
  <2>1. s = [c EXCEPT !.order = o]
    BY DEF Cache!Touch
  <2>2. DOMAIN c = {"entries", "order"}
    BY <1>1
  <2> HIDE DEF o
  <2> QED BY <2>1, <2>2
<1>3. s = [entries |-> s.entries, order |-> s.order] /\ s.entries = c.entries
  BY <1>2
<1> HIDE DEF s, o
<1>4. Sound(s, a)
  BY <1>3 DEF Sound, Cache!Hit, Cache!Has
<1> QED BY <1>4 DEF s

\* A stream that has come to its end completes its own entry only.
LEMMA SoundSettle ==
  ASSUME NEW c, NEW a, Sound(c, a), NEW p \in Paths, NEW d \in Responses, NEW done \in BOOLEAN,
         done => d \in a
  PROVE Sound(Cache!Settle(c, p, d, done), a)
<1> DEFINE s == Cache!Settle(c, p, d, done)
<1>1. CASE ~(Cache!Holds(c, p, d) /\ done)
  BY <1>1 DEF Cache!Settle
<1>2. CASE Cache!Holds(c, p, d) /\ done
  <2> DEFINE x == [c.entries[p] EXCEPT !.complete = TRUE]
             e == [c.entries EXCEPT ![p] = x]
  <2>1. /\ c = [entries |-> c.entries, order |-> c.order]
        /\ c.entries \in [Paths -> Entries \cup {[data |-> None]}]
    BY DEF Sound
  <2>2. s = [entries |-> e, order |-> c.order]
    BY <1>2, <2>1 DEF Cache!Settle
  <2>3. c.entries[p] \in Entries /\ c.entries[p].data = d
    <3>1. c.entries[p].data = d /\ d # None
      BY <1>2, RouterAssumption DEF Cache!Holds, Responses, Jobs
    <3> QED BY <2>1, <3>1
  <2>4. x \in Entries /\ x.data = d
    BY <2>3 DEF Entries
  <2> HIDE DEF x
  <2>5. e \in [Paths -> Entries \cup {[data |-> None]}] /\ e[p] = x
        /\ \A q \in Paths \ {p} : e[q] = c.entries[q]
    BY <2>1, <2>4
  <2>6. s = [entries |-> s.entries, order |-> s.order] /\ s.entries = e
    BY <2>2
  <2> HIDE DEF s, e
  <2>7. ASSUME NEW q \in Paths, Cache!Hit(s, q) PROVE s.entries[q].data \in a
    <3>1. CASE q = p
      BY <3>1, <1>2, <2>4, <2>5, <2>6
    <3>2. CASE q # p
      BY <3>2, <2>5, <2>6, <2>7 DEF Sound, Cache!Hit, Cache!Has
    <3> QED BY <3>1, <3>2
  <2>8. Sound(s, a)
    BY <2>5, <2>6, <2>7 DEF Sound
  <2> QED BY <2>8 DEF s
<1> QED BY <1>1, <1>2

\* What has arrived stays.
CacheStep == Sound(cache', arrived') /\ arrived \subseteq arrived'

\* The cache, after a step of a job
LEMMA CacheAdvance ==
  ASSUME RouterInv, NEW n \in Jobs, Advances(n)
  PROVE CacheStep
<1> USE DEF coreVars, histVars
<1>0. ReqTypes /\ NavTypes
  BY TypeParts DEF RouterInv
<1>1s. Sound(cache, arrived)
  BY SoundParts DEF RouterInv, Served
<1>r. /\ nav[n].path \in Paths /\ <<nav[n].path, n>> \in Responses /\ req[n].streaming \in BOOLEAN
      /\ req[n].path \in Paths /\ <<req[n].path, n>> \in Responses
  BY <1>0 DEF NavTypes, ReqTypes, NavRecord, ReqRecord, Responses
<1>u. UNCHANGED <<cache, arrived>> => CacheStep
  BY <1>1s DEF CacheStep
<1>v. ASSUME NEW p, cache' = Cache!Evict(cache, p), UNCHANGED arrived PROVE CacheStep
  BY <1>1s, <1>v, SoundEvict DEF CacheStep
<1>w. ASSUME NEW p \in Paths, NEW d \in Responses, Whole(n, d),
             cache' = Cache!Store(cache, p, d, req[n].streaming)
      PROVE CacheStep
  <2>1. arrived \subseteq arrived' /\ (req[n].streaming \/ d \in arrived')
    BY <1>w DEF Whole
  <2>2. Sound(cache, arrived')
    BY <1>1s, <2>1, SoundLater
  <2> QED BY <1>w, <1>r, <2>1, <2>2, SoundStore DEF CacheStep
<1>x. ASSUME NEW done \in BOOLEAN, StreamOver(n, done), arrived \subseteq arrived',
             done => <<req[n].path, n>> \in arrived'
      PROVE CacheStep
  <2>1. Sound(cache, arrived')
    BY <1>1s, <1>x, SoundLater
  <2>2. Sound(Cache!Settle(cache, req[n].path, <<req[n].path, n>>, done), arrived')
    BY <1>x, <1>r, <2>1, SoundSettle
  <2>3. cache' = cache \/ cache' = Cache!Settle(cache, req[n].path, <<req[n].path, n>>, done)
    BY <1>x DEF StreamOver
  <2> QED BY <1>x, <2>1, <2>2, <2>3 DEF CacheStep
<1>1. ASSUME NEW p \in Paths, Hover(n, p) PROVE CacheStep
  BY <1>1, <1>u DEF Hover
<1>2. CASE Mismatch(n)
  BY <1>2, <1>u DEF Mismatch
<1>3. CASE Fetched(n)
  BY <1>3, <1>w, <1>r DEF Fetched
<1>4. CASE FetchedDocument(n)
  BY <1>4, <1>u DEF FetchedDocument
<1>5. CASE Failed(n)
  BY <1>5, <1>u DEF Failed
<1>6. CASE Loaded(n)
  BY <1>6, <1>u DEF Loaded
<1>7. CASE LoadedLate(n)
  BY <1>7, <1>u DEF LoadedLate
<1>8. CASE LoadedUnknown(n)
  BY <1>8, <1>u DEF LoadedUnknown
<1>9. CASE LoadFails(n)
  BY <1>9, <1>u DEF LoadFails
<1>10. CASE Commit(n)
  BY <1>10, <1>u DEF Commit
<1>11. CASE CommitEnd(n)
  BY <1>11, <1>u DEF CommitEnd
<1>12. CASE CommitThrows(n)
  BY <1>12, <1>u DEF CommitThrows
<1>13. CASE Settled(n)
  BY <1>13, <1>u DEF Settled
<1>14. CASE Abandon(n)
  BY <1>14, <1>u, <1>v DEF Abandon
<1>15. CASE Thrown(n)
  BY <1>15, <1>u, <1>v DEF Thrown
<1>16. CASE Rejected(n)
  <2>1. CASE RollsBack(n)
    BY <1>16, <2>1, ResetSteps, SoundEmpty DEF Reset, CacheStep
  <2> QED BY <1>16, <2>1, <1>u DEF Rejected
<1>17. CASE TailTimesOut(n)
  BY <1>17, <1>u DEF TailTimesOut
<1>18. CASE Hovered(n)
  BY <1>18, <1>w, <1>r DEF Hovered
<1>19. CASE HoverFails(n)
  BY <1>19, <1>u DEF HoverFails
<1>20. CASE ReadFirst(n)
  BY <1>20, <1>u DEF ReadFirst
<1>21. CASE StatesArrive(n)
  BY <1>21, <1>u DEF StatesArrive
<1>22. CASE StreamEnds(n)
  BY <1>22, <1>x DEF StreamEnds
<1>23. CASE StreamBreaks(n)
  BY <1>23, <1>x DEF StreamBreaks
<1>24. CASE n = 1 /\ BootDone
  BY <1>24, <1>u DEF BootDone
<1>25. CASE n = 1 /\ BootFails
  BY <1>25, <1>u DEF BootFails
<1>26. CASE FailedMounts(n)
  BY <1>26, <1>u DEF FailedMounts
<1>27. CASE ErrorMounted(n)
  BY <1>27, <1>u DEF ErrorMounted
<1> QED
  BY <1>1, <1>2, <1>3, <1>4, <1>5, <1>6, <1>7, <1>8, <1>9, <1>10, <1>11, <1>12,
     <1>13, <1>14, <1>15, <1>16, <1>17, <1>18, <1>19, <1>20, <1>21, <1>22, <1>23, <1>24,
     <1>25, <1>26, <1>27
  DEF Advances, NavStep

\* What a navigation was served from the cache, after a step
Serves(n) ==
  /\ nav'[n].cached => nav'[n].data \in arrived'
  /\ nav'[n].phase = "fetching" => ~nav'[n].cached

\* What the job of a step was served
LEMMA ServesAdvance ==
  ASSUME RouterInv, NEW n \in Jobs, Advances(n)
  PROVE Serves(n)
<1> USE DEF coreVars, histVars
<1>0. NavTypes /\ SignalsAborted \in [Jobs -> NavRecord]
  BY TypeParts, SignalsType DEF RouterInv
<1>a. arrived \subseteq arrived'
  BY CacheAdvance DEF CacheStep
<1>s. (nav[n].cached => nav[n].data \in arrived) /\ (nav[n].phase = "fetching" => ~nav[n].cached)
  BY DEF RouterInv, Served, ServedWhole, FetchedAnew
<1>n. ~nav'[n].cached => Serves(n)
  BY DEF Serves
<1>k. /\ nav'[n].cached => nav[n].cached
      /\ nav'[n].data = nav[n].data
      /\ nav'[n].phase = "fetching" => nav[n].phase = "fetching"
      => Serves(n)
  BY <1>a, <1>s DEF Serves
<1>u. UNCHANGED nav => Serves(n)
  BY <1>k
<1>g. ASSUME NEW ph, Goes(n, ph), ph # "fetching" PROVE Serves(n)
  <2>1. nav'[n].phase = ph /\ nav'[n].data = nav[n].data /\ nav'[n].cached = nav[n].cached
    BY <1>g, <1>0 DEF Goes, NavTypes, NavRecord
  <2> QED BY <2>1, <1>g, <1>k
<1>e. Ends(n) => Serves(n)
  <2>1. Ends(n) => ~nav'[n].cached
    BY <1>0 DEF Ends, Ended, NoNav, NavTypes
  <2> QED BY <2>1, <1>n
<1>d. ASSUME NEW d, NEW reqs, Departs(n, d, reqs)
      PROVE nav'[n].phase = "abandoned" /\ nav'[n].data = d /\ (nav'[n].cached => nav[n].cached)
  <2>1. PICK s \in {nav, SignalsAborted} : nav' = [s EXCEPT ![n].phase = "abandoned", ![n].data = d]
    BY <1>d DEF Departs
  <2>2. s \in [Jobs -> NavRecord] /\ (s[n].cached => nav[n].cached)
    BY <1>0 DEF SignalsAborted, NavTypes, NavRecord
  <2> QED BY <2>1, <2>2 DEF NavRecord
<1>1. ASSUME NEW p \in Paths, Hover(n, p) PROVE Serves(n)
  BY <1>1, <1>u DEF Hover
<1>2. CASE Mismatch(n)
  BY <1>2, <1>g, <1>e DEF Mismatch
<1>3. CASE Fetched(n)
  <2>1. nav[n].phase = "fetching" /\ ~nav[n].cached
    BY <1>3, <1>s DEF Fetched
  <2>2. CASE nav' = [nav EXCEPT ![n].phase = "loading", ![n].data = <<nav[n].path, n>>]
    <3>1. ~nav'[n].cached
      BY <2>1, <2>2, <1>0 DEF NavTypes, NavRecord
    <3> QED BY <3>1, <1>n
  <2>3. CASE Departs(n, <<nav[n].path, n>>, Handed(n))
    BY <2>1, <2>3, <1>d, <1>n
  <2> QED BY <1>3, <2>2, <2>3 DEF Fetched
<1>4. CASE FetchedDocument(n)
  <2>1. ~nav'[n].cached
    BY <1>4, <1>0 DEF FetchedDocument, Ended, NoNav
  <2> QED BY <2>1, <1>n
<1>5. CASE Failed(n)
  BY <1>5, <1>g, <1>e DEF Failed
<1>6. CASE Loaded(n)
  <2>1. /\ nav'[n].phase = "transition" /\ nav'[n].data = nav[n].data
        /\ nav'[n].cached = nav[n].cached
    BY <1>6, <1>0 DEF Loaded, NavTypes, NavRecord
  <2> QED BY <2>1, <1>k
<1>7. CASE LoadedLate(n)
  BY <1>7, <1>g DEF LoadedLate
<1>8. CASE LoadedUnknown(n)
  BY <1>8, <1>d, <1>k DEF LoadedUnknown
<1>9. CASE LoadFails(n)
  BY <1>9, <1>g DEF LoadFails
<1>10. CASE Commit(n)
  BY <1>10, <1>g DEF Commit
<1>11. CASE CommitEnd(n)
  BY <1>11, <1>g DEF CommitEnd
<1>12. CASE CommitThrows(n)
  BY <1>12, <1>g DEF CommitThrows
<1>13. CASE Settled(n)
  BY <1>13, <1>g, <1>e DEF Settled
<1>14. CASE Abandon(n)
  BY <1>14, <1>g, <1>e DEF Abandon
<1>15. CASE Thrown(n)
  BY <1>15, <1>g DEF Thrown
<1>16. CASE Rejected(n)
  BY <1>16, <1>0, <1>n, RejectedEnds DEF Rejected
<1>17. CASE TailTimesOut(n)
  BY <1>17, <1>u DEF TailTimesOut, Aborted, Released
<1>18. CASE Hovered(n)
  BY <1>18, <1>u DEF Hovered, Preloads, Delivers, Whole, Done, ReleaseUnlessStreaming, HoverOver
<1>19. CASE HoverFails(n)
  BY <1>19, <1>u DEF HoverFails, Preloads, Breaks, Done, Released, HoverOver
<1>20. CASE ReadFirst(n)
  BY <1>20, <1>u DEF ReadFirst
<1>21. CASE StatesArrive(n)
  BY <1>21, <1>u DEF StatesArrive, Streams, Applies
<1>22. CASE StreamEnds(n)
  BY <1>22, <1>u DEF StreamEnds, StreamOver
<1>23. CASE StreamBreaks(n)
  BY <1>23, <1>u DEF StreamBreaks, StreamOver
<1>24. CASE n = 1 /\ BootDone
  BY <1>24, <1>g, <1>e DEF BootDone
<1>25. CASE n = 1 /\ BootFails
  BY <1>25, <1>g DEF BootFails
<1>26. CASE FailedMounts(n)
  BY <1>26, <1>g DEF FailedMounts
<1>27. CASE ErrorMounted(n)
  BY <1>27, <1>e DEF ErrorMounted
<1> QED
  BY <1>1, <1>2, <1>3, <1>4, <1>5, <1>6, <1>7, <1>8, <1>9, <1>10, <1>11, <1>12,
     <1>13, <1>14, <1>15, <1>16, <1>17, <1>18, <1>19, <1>20, <1>21, <1>22, <1>23, <1>24,
     <1>25, <1>26, <1>27
  DEF Advances, NavStep

LEMMA ServedNext ==
  ASSUME RouterInv, [Next]_vars
  PROVE Served'
<1> USE DEF coreVars, histVars
<1>0. Sound(cache, arrived) /\ NavTypes /\ SignalsAborted \in [Jobs -> NavRecord]
  BY SoundParts, TypeParts, SignalsType DEF RouterInv, Served
<1>q. CacheStep /\ (\A m \in Jobs : Serves(m)) => Served'
  BY SoundParts DEF CacheStep, Served, ServedWhole, FetchedAnew, Serves
<1>s. ASSUME NEW m \in Jobs, SameNav(m), CacheStep PROVE Serves(m)
  BY <1>s DEF SameNav, CacheStep, Serves, RouterInv, Served, ServedWhole, FetchedAnew
<1>1. ASSUME NEW n \in Jobs, Opens(n) PROVE Served'
  <2>1. \A m \in Jobs \ {n} : SameNav(m)
    BY <1>1, NavElsewhere DEF NavActs, RouterInv
  <2>2. PICK p \in Paths, s \in {"live", "none"} : HandleNavigation(n, p, s)
    BY <1>1 DEF Opens
  <2>3. arrived' = arrived /\ (cache' = cache \/ cache' = Cache!Touch(cache, p))
    BY <2>2 DEF HandleNavigation
  <2>4. CacheStep
    BY <2>3, <1>0, SoundTouch DEF CacheStep
  <2>5. Serves(n)
    <3>1. CASE nav'[n].phase = "fetching"
      BY <3>1, <1>1, OpenedSteps DEF JustOpened, Serves
    <3>2. CASE nav'[n].phase = "loading"
      <4> DEFINE s0 == SignalsAborted
                 born == [NoNav EXCEPT !.path = p, !.gen = gen + 1, !.bgen = boundary.gen + 1,
                                       !.signal = s]
      <4>1. \/ /\ Cache!Hit(cache, p)
               /\ nav' = [s0 EXCEPT ![n] = [born EXCEPT !.phase = "loading", !.cached = TRUE,
                                                        !.data = cache.entries[p].data]]
            \/ nav' = [s0 EXCEPT ![n] = [born EXCEPT !.phase = "fetching"]]
        BY <2>2 DEF HandleNavigation, Cleared
      <4>2. /\ DOMAIN born = DOMAIN NoNav /\ s0 \in [Jobs -> NavRecord]
            /\ DOMAIN NoNav = {"phase", "path", "gen", "bgen", "signal", "data", "cached", "base"}
        BY <1>0 DEF NoNav
      <4> HIDE DEF s0, born
      <4>3. Cache!Hit(cache, p) /\ nav'[n].data = cache.entries[p].data
        BY <3>2, <4>1, <4>2
      <4>4. nav'[n].data \in arrived'
        BY <4>3, <2>3, <1>0 DEF Sound
      <4> QED BY <3>2, <4>4 DEF Serves
    <3> QED BY <3>1, <3>2, <1>1, OpenedSteps DEF JustOpened
  <2> QED BY <2>1, <2>4, <2>5, <1>s, <1>q
<1>2. ASSUME NEW n \in Jobs, Advances(n) PROVE Served'
  <2>1. CacheStep /\ Serves(n) /\ \A m \in Jobs \ {n} : SameNav(m)
    BY <1>2, CacheAdvance, ServesAdvance, NavElsewhere DEF NavActs, RouterInv
  <2> QED BY <2>1, <1>s, <1>q
<1>3. CASE Abroad \/ UNCHANGED vars
  <2>1. \A m \in Jobs : SameNav(m)
    BY <1>3, AbroadSame DEF RouterInv
  <2>2. CacheStep
    <3>1. CASE Destroy
      BY <3>1, ResetSteps, SoundEmpty DEF Reset, CacheStep
    <3>2. ASSUME NEW p \in Paths, EntryGoes(p) PROVE CacheStep
      BY <3>2, <1>0, SoundEvict DEF EntryGoes, CacheStep
    <3>3. CASE UNCHANGED <<cache, arrived>>
      BY <3>3, <1>0 DEF CacheStep
    <3> QED BY <1>3, <3>1, <3>2, <3>3 DEF Abroad, HashChange, PendingTimer, PendingMounted, vars
  <2> QED BY <2>1, <2>2, <1>s, <1>q
<1> QED BY <1>1, <1>2, <1>3, StepKinds

-----------------------------------------------------------------------------
(* The theorems *)

LEMMA RouterInit == Init => RouterInv
<1> SUFFICES ASSUME Init PROVE RouterInv
  OBVIOUS
<1>0. 1 \in Jobs /\ Home \in Paths /\ \A n \in Jobs : n \in Nat /\ n # 0
  BY RouterAssumption, EmptyRecords DEF Jobs
<1> DEFINE boot == [NoNav EXCEPT !.phase = "booting", !.gen = 1]
<1>1. boot \in NavRecord
  BY EmptyRecords DEF NavRecord, Phases
<1>2. NavTypes
  BY <1>1, EmptyRecords DEF Init, NavTypes
<1>3. ReqTypes
  BY EmptyRecords DEF Init, ReqTypes
<1>4. BoundaryTypes /\ RestTypes /\ PageTypes
  BY <1>0 DEF Init, BoundaryTypes, BoundaryRecord, RestTypes, PageTypes, Pages
<1>5. /\ gen = 1 /\ inside = 0 /\ tracked = {} /\ given.states = {} /\ boundary.gen = 0
      /\ boundary.timer = 0 /\ boundary.pending = 0 /\ boundary.error = 0
      /\ nav[1].phase = "booting" /\ nav[1].gen = 1
      /\ \A n \in Jobs : /\ (n # 1 => nav[n].phase = "idle" /\ nav[n].gen = 0)
                         /\ nav[n].bgen = 0 /\ ~nav[n].cached /\ req[n].phase = "none"
  BY <1>0 DEF Init, NoNav, NoReq
<1>6. Numbered
  BY <1>5 DEF Numbered, Numbers, Apart, Going, Waiting
<1>7. Staged /\ Fitting
  BY <1>5 DEF Staged, Stage, Fitting, Fits, Going, Waiting, Unfinished
<1>8. Requested
  BY <1>5 DEF Requested, Tracks, Wanted, Pending, Unfinished
<1>9. Bounded /\ BoundaryOwned
  BY <1>5 DEF Bounded, BoundaryOwned, Waiting
<1>10. Stacked /\ Showing /\ Ordered
  BY <1>0, <1>5 DEF Init, Stacked, Showing, Shows, StatesOfPage, Ordered
<1>11. Sound(cache, arrived)
  BY SoundEmpty DEF Init
<1>12. Served
  BY <1>5, <1>11, SoundParts DEF Served, ServedWhole, FetchedAnew
<1> QED BY <1>2, <1>3, <1>4, <1>6, <1>7, <1>8, <1>9, <1>10, <1>12, TypeParts DEF RouterInv

LEMMA RouterNext == RouterInv /\ [Next]_vars => RouterInv'
<1> SUFFICES ASSUME RouterInv, [Next]_vars PROVE RouterInv'
  OBVIOUS
<1>1. TypeOK'
  BY TypesNext DEF RouterInv
<1> QED BY <1>1, NumberedNext, StagedNext, RequestedNext, BoundedNext, StackedNext, OrderedNext, ShowingNext,
           ServedNext
  DEF RouterInv

LEMMA RouterHolds == Spec => []RouterInv
BY RouterInit, RouterNext, PTL DEF Spec

\* The router's variables keep their types.
THEOREM RouterTypeCorrect == Spec => []TypeOK
<1>1. RouterInv => TypeOK
  BY DEF RouterInv
<1> QED BY RouterHolds, <1>1, PTL

\* What a page is given is its own, whatever navigations, hovers, timers and
\* destroy() calls come between the turns of a navigation, and whatever code of
\* the application throws or navigates from inside a commit or a mount.
THEOREM PageGivenItsOwn == Spec => []GivenIsOwn
<1>1. RouterInv => GivenIsOwn
  BY DEF RouterInv, Stacked, Showing, Served, GivenIsOwn, ComparedWithActive
<1> QED BY RouterHolds, <1>1, PTL

\* Exactly the requests that could still deliver are tracked, an unread stream
\* has a navigation that will see to it, and the elements of a boundary have a
\* navigation that will take them down, or are the error of the latest one.
THEOREM NavigationsCleanUp == Spec => []NothingLeftOver
<1>1. RouterInv => NothingLeftOver
  <2>1. RouterInv => tracked = {j \in Jobs : req[j].phase \in Unfinished /\ ~req[j].aborted}
    BY DEF RouterInv, Requested, Tracks, Pending
  <2>2. RouterInv => \A n \in Jobs : req[n].phase = "paused" => nav[n].phase # "ended"
    BY DEF RouterInv, Staged, Stage
  <2> QED BY <2>1, <2>2 DEF RouterInv, NothingLeftOver, RequestsTracked
<1> QED BY RouterHolds, <1>1, PTL

\* A navigation that is ready commits if and only if it is not superseded, and
\* the page never goes back to an earlier navigation.
THEOREM LatestNavigationCommits == Spec => LatestCommits
<1>1. RouterInv /\ [Next]_vars =>
        [/\ \A n \in Jobs : nav[n].phase = "transition" =>
              /\ nav'[n].phase = "abandoned" => Superseded(n)
              /\ nav'[n].phase = "inside" => ~Superseded(n)
         /\ active'.nav \notin {0, active.nav} /\ active.nav # 0 =>
              nav[active'.nav].gen > nav[active.nav].gen]_vars
  <2> SUFFICES ASSUME RouterInv, Next
               PROVE /\ \A n \in Jobs : nav[n].phase = "transition" =>
                          /\ nav'[n].phase = "abandoned" => Superseded(n)
                          /\ nav'[n].phase = "inside" => ~Superseded(n)
                     /\ active'.nav \notin {0, active.nav} /\ active.nav # 0 =>
                          nav[active'.nav].gen > nav[active.nav].gen
    OBVIOUS
  <2>0. NavTypes
    BY TypeParts DEF RouterInv
  <2>1. ASSUME NEW n \in Jobs, nav[n].phase = "transition", nav'[n].phase # "transition"
        PROVE Commit(n) \/ nav'[n].phase \notin {"abandoned", "inside"}
    <3>1. ASSUME NEW m \in Jobs, m # n, Opens(m) \/ Advances(m) PROVE FALSE
      BY <2>1, <3>1, NavElsewhere DEF NavActs, RouterInv, SameNav
    <3>2. ~Opens(n)
      BY <2>1, OpenedSteps DEF JustOpened
    <3>3. ~(Abroad \/ UNCHANGED vars)
      BY <2>1, AbroadSame DEF RouterInv, SameNav
    <3>4. Advances(n)
      BY <3>1, <3>2, <3>3, StepKinds
    <3>5. CASE UNCHANGED nav
      BY <2>1, <3>5
    <3> QED BY <2>1, <3>4, <3>5
      DEF Advances, NavStep, Hover, Mismatch, Fetched, FetchedDocument, Failed, FailedMounts,
          ErrorMounted, Loaded, LoadedLate, LoadedUnknown, LoadFails, CommitEnd, CommitThrows, Settled,
          Abandon, Thrown, Rejected, TailTimesOut, Hovered, HoverFails, ReadFirst, StatesArrive,
          StreamEnds, StreamBreaks, StreamOver, BootDone, BootFails
  <2>2. ASSUME NEW n \in Jobs, nav[n].phase = "transition"
        PROVE /\ nav'[n].phase = "abandoned" => Superseded(n)
              /\ nav'[n].phase = "inside" => ~Superseded(n)
    <3>1. ~Superseded(n) => Commits(n)
      BY <2>2 DEF RouterInv, Bounded, Commits, Superseded, Waiting
    <3>2. Commit(n) => nav'[n].phase = IF Commits(n) THEN "inside" ELSE "abandoned"
      BY <2>0 DEF Commit, Goes, NavTypes, NavRecord
    <3> QED BY <2>1, <2>2, <3>1, <3>2 DEF Commits
  <2>3. ASSUME active'.nav \notin {0, active.nav}, active.nav # 0
        PROVE nav[active'.nav].gen > nav[active.nav].gen
    <3>0. /\ active.nav \in Jobs /\ NoPage.nav = 0
          /\ \A m \in Jobs : nav[m].gen \in Nat
      BY <2>0, <2>3, TypeParts DEF RouterInv, PageTypes, Pages, NoPage, NavTypes, NavRecord
    <3>1. ~Reset /\ active' # active
      BY <2>3, <3>0 DEF Reset
    <3>2. PICK n \in Jobs : CommitEnd(n)
      BY <3>1, StepKinds, OpenedSteps, DisplayAdvance, ResetSteps
         DEF JustOpened, DisplayStep, Stays, Abroad, HashChange, PendingTimer, PendingMounted,
             EntryGoes, vars, coreVars, histVars
    <3>3. active'.nav = n /\ nav[n].phase = "inside" /\ n # active.nav
      BY <2>3, <3>2 DEF CommitEnd
    <3>4. nav[active.nav].gen <= nav[n].gen /\ nav[active.nav].gen # nav[n].gen
      BY <2>3, <3>0, <3>3 DEF RouterInv, Ordered, Numbered, Apart
    <3> QED BY <3>0, <3>3, <3>4
  <2> QED BY <2>2, <2>3
<1> QED BY RouterHolds, <1>1, PTL DEF Spec, LatestCommits

-----------------------------------------------------------------------------
(* Lazy regions.                                                            *)
-----------------------------------------------------------------------------
(* The inductive invariant: what the page keeps *)

Load == [step : {"none", "fetch", "install"}, epoch : Nat, fresh : SUBSET Templates]
Entry == [id : Nat, loading : BOOLEAN]
Page ==
  [registry   : SUBSET Templates, weak : SUBSET Templates, epoch : Nat,
   inventory  : SUBSET Templates,
   registered : [Regions -> Int],
   released   : SUBSET Regions,
   loads      : [Regions -> Load],
   unready    : [Regions -> (SUBSET Templates) \cup {Clean}],
   script     : [Regions -> {"none", "loading", "declared", "failed"}],
   cond       : [Bindings -> BOOLEAN],
   inst       : [Bindings -> BOOLEAN],
   attached   : [Bindings -> BOOLEAN],
   entry      : [Bindings -> Entry],
   ids        : [Bindings -> Nat],
   failed     : SUBSET Hosts,
   views      : [Regions -> SUBSET Bindings],
   releasing  : BOOLEAN,
   prepared   : SUBSET Templates, raw : SUBSET Bindings]

\* A registration of this epoch is a registry entry; no date is in the future.
Dated(p) ==
  \A r \in Regions : /\ p.registered[r] <= p.epoch /\ p.loads[r].epoch <= p.epoch
                     /\ p.registered[r] = p.epoch => r \in p.registry

\* What is registered is alive, and the inventory names nothing else.
Backed(p) == p.registry \subseteq p.weak /\ p.inventory \subseteq p.registry

\* An install has published its pack unless a collection came between, and a
\* region that is being installed, or was released, has no view that closes.
Published(p) ==
  \A r \in Regions :
    /\ p.loads[r].step = "install" =>
         /\ p.unready[r] = p.loads[r].fresh
         /\ p.loads[r].epoch = p.epoch => Pack(r) \subseteq p.registry
    /\ Installing(p, r) /\ p.registered[r] = p.epoch => p.views[r] = {}
    /\ r \in p.released => p.views[r] = {}

\* Before the first collection a region leaves the registry only to be
\* released, and one that is on show has a view.
Uncollected(p) ==
  p.epoch = 0 =>
    /\ \A r \in Regions : /\ r \in p.weak => r \in p.registry \cup p.released
                          /\ r \in p.registry => p.registered[r] = 0 \/ r \in p.unready[r]
    /\ \A b \in Bindings :
         p.inst[b] => RegionOf[b] \in p.registry /\ b \in p.views[RegionOf[b]]

BooksInv(p) == p \in Page /\ Dated(p) /\ Backed(p) /\ Published(p) /\ Uncollected(p)

\* The hosts with failed work are remembered; those in X may be too many.
FailedHosts(p) == {HostOf[b] : b \in {c \in Bindings : IsFailed(p, c)}}
Remembered(p, X) == FailedHosts(p) \subseteq p.failed /\ p.failed \subseteq FailedHosts(p) \cup X

\* A reaction belongs to an activation that was made.
Answer == {"ok", "pending", "bad"}
WaitInv == waits \subseteq [b : Bindings, id : Nat \ {0}, pack : Answer, script : Answer]

LazyInv == BooksInv(page) /\ Remembered(page, {}) /\ WaitInv

-----------------------------------------------------------------------------
(* The templates *)

LEMMA TemplateFacts ==
  ASSUME NEW r \in Regions
  PROVE /\ r \in Templates /\ Pack(r) \subseteq Templates /\ r \in Pack(r)
        /\ \A q \in Regions : q # r => q \notin Pack(r)
        /\ r \notin Clean /\ "clean" \notin Templates
BY LazyAssumption DEF Templates, Pack, Clean

\* Nothing the books are about changed, except that regions were closed.
LEMMA SameBooks ==
  ASSUME NEW p, BooksInv(p), NEW q \in Page,
         q.registry = p.registry, q.weak = p.weak, q.epoch = p.epoch, q.inventory = p.inventory,
         q.registered = p.registered, q.released = p.released, q.loads = p.loads,
         q.unready = p.unready, q.views = p.views,
         \A b \in Bindings : q.inst[b] => p.inst[b]
  PROVE BooksInv(q)
<1>1. Dated(q) /\ Backed(q)
  BY DEF BooksInv, Dated, Backed
<1>2. \A r : Installing(q, r) = Installing(p, r)
  BY DEF Installing
<1>3. Published(q)
  BY <1>2 DEF BooksInv, Published
<1>4. Uncollected(q)
  BY DEF BooksInv, Uncollected
<1> QED BY <1>1, <1>3, <1>4 DEF BooksInv

\* What revive changes
LEMMA ReviveFields ==
  ASSUME NEW p \in Page, NEW r \in Regions
  PROVE /\ Revive(p, r) \in Page
        /\ Revive(p, r).weak = p.weak /\ Revive(p, r).epoch = p.epoch
        /\ Revive(p, r).loads = p.loads /\ Revive(p, r).unready = p.unready
        /\ Revive(p, r).views = p.views /\ Revive(p, r).inst = p.inst
        /\ Revive(p, r).cond = p.cond /\ Revive(p, r).attached = p.attached
        /\ Revive(p, r).entry = p.entry /\ Revive(p, r).ids = p.ids
        /\ Revive(p, r).failed = p.failed /\ Revive(p, r).script = p.script
        /\ Revive(p, r).releasing = p.releasing /\ Revive(p, r).prepared = p.prepared
        /\ Revive(p, r).raw = p.raw
        /\ Revive(p, r).released = p.released \ {r}
        /\ IF r \in p.released /\ r \in p.weak
           THEN /\ Revive(p, r).registry = p.registry \cup {r}
                /\ Revive(p, r).inventory = p.inventory \cup {r}
                /\ Revive(p, r).registered = [p.registered EXCEPT ![r] = p.epoch]
           ELSE /\ Revive(p, r).registry = p.registry
                /\ Revive(p, r).inventory = p.inventory
                /\ Revive(p, r).registered = p.registered
<1>1. CASE r \notin p.released
  BY <1>1 DEF Revive
<1>2. CASE r \in p.released /\ r \notin p.weak
  <2>1. Revive(p, r) = [p EXCEPT !.released = p.released \ {r}]
    BY <1>2 DEF Revive
  <2> QED BY <1>2, <2>1, ZenonT(30) DEF Page
<1>3. CASE r \in p.released /\ r \in p.weak
  <2>1. Revive(p, r) = [p EXCEPT !.released = p.released \ {r},
                                 !.registry = p.registry \cup {r},
                                 !.inventory = p.inventory \cup {r},
                                 !.registered = [p.registered EXCEPT ![r] = p.epoch]]
    BY <1>3 DEF Revive, Page
  <2>2. /\ p.released \ {r} \in SUBSET Regions /\ p.registry \cup {r} \in SUBSET Templates
        /\ p.inventory \cup {r} \in SUBSET Templates
        /\ [p.registered EXCEPT ![r] = p.epoch] \in [Regions -> Int]
    BY TemplateFacts DEF Page
  <2> QED BY <1>3, <2>1, <2>2, ZenonT(30) DEF Page
<1> QED BY <1>1, <1>2, <1>3

LEMMA ReviveKeeps ==
  ASSUME NEW p, BooksInv(p), NEW r \in Regions
  PROVE BooksInv(Revive(p, r)) /\ r \notin Revive(p, r).released
<1> DEFINE q == Revive(p, r)
<1>0. p \in Page /\ Dated(p) /\ Backed(p) /\ Published(p) /\ Uncollected(p)
  BY DEF BooksInv
<1>1. /\ q \in Page /\ q.weak = p.weak /\ q.epoch = p.epoch /\ q.loads = p.loads
      /\ q.unready = p.unready /\ q.views = p.views /\ q.inst = p.inst
      /\ q.released = p.released \ {r}
      /\ IF r \in p.released /\ r \in p.weak
         THEN /\ q.registry = p.registry \cup {r} /\ q.inventory = p.inventory \cup {r}
              /\ q.registered = [p.registered EXCEPT ![r] = p.epoch]
         ELSE q.registry = p.registry /\ q.inventory = p.inventory /\ q.registered = p.registered
  BY <1>0, ReviveFields
<1> HIDE DEF q
<1>2. p.epoch \in Nat /\ p.registered \in [Regions -> Int]
  BY <1>0 DEF Page
<1>3. \A s \in Regions :
        \/ q.registered[s] = p.registered[s]
        \/ s = r /\ r \in p.released /\ r \in p.weak /\ q.registered[s] = p.epoch
  BY <1>1, <1>2
<1>4. Dated(q)
  BY <1>0, <1>1, <1>2, <1>3 DEF Dated
<1>5. Backed(q)
  BY <1>0, <1>1 DEF Backed
<1>6. \A s : Installing(q, s) = Installing(p, s)
  BY <1>1 DEF Installing
<1>7. Published(q)
  BY <1>0, <1>1, <1>3, <1>6 DEF Published
<1>8. ASSUME p.epoch = 0, NEW s \in Regions
      PROVE /\ s \in q.weak => s \in q.registry \cup q.released
            /\ s \in q.registry => q.registered[s] = 0 \/ s \in q.unready[s]
  <2>1. CASE r \in p.released /\ r \in p.weak
    BY <1>0, <1>1, <1>2, <1>8, <2>1 DEF Uncollected
  <2>2. CASE ~(r \in p.released /\ r \in p.weak)
    BY <1>0, <1>1, <1>8, <2>2 DEF Uncollected
  <2> QED BY <2>1, <2>2
<1>9. p.registry \subseteq q.registry
  BY <1>1
<1>10. Uncollected(q)
  BY <1>0, <1>1, <1>8, <1>9 DEF Uncollected
<1> QED BY <1>1, <1>4, <1>5, <1>7, <1>10 DEF BooksInv, q

-----------------------------------------------------------------------------
(* Loading a region *)

\* What the bindings and the hosts see of a page
SameBindings(p, q) ==
  /\ q.cond = p.cond /\ q.inst = p.inst /\ q.attached = p.attached
  /\ q.entry = p.entry /\ q.ids = p.ids /\ q.failed = p.failed /\ q.views = p.views

LEMMA LoadScriptsKeeps ==
  ASSUME NEW p, BooksInv(p), NEW r \in Regions
  PROVE BooksInv(LoadScripts(p, r)) /\ SameBindings(p, LoadScripts(p, r))
<1> DEFINE f == [p.script EXCEPT ![r] = IF @ \in {"none", "failed"} THEN "loading" ELSE @]
           q == LoadScripts(p, r)
<1>1. p \in Page
  BY DEF BooksInv
<1>2. q = [p EXCEPT !.script = f]
  BY <1>1 DEF LoadScripts, Page
<1>3. f \in [Regions -> {"none", "loading", "declared", "failed"}]
  BY <1>1 DEF Page
<1> HIDE DEF f
<1>4. q \in Page
  BY <1>1, <1>2, <1>3, ZenonT(30) DEF Page
<1>5. /\ q.registry = p.registry /\ q.weak = p.weak /\ q.epoch = p.epoch
      /\ q.inventory = p.inventory /\ q.registered = p.registered /\ q.released = p.released
      /\ q.loads = p.loads /\ q.unready = p.unready /\ q.views = p.views /\ q.inst = p.inst
      /\ q.cond = p.cond /\ q.attached = p.attached /\ q.entry = p.entry /\ q.ids = p.ids
      /\ q.failed = p.failed
  BY <1>1, <1>2 DEF Page
<1> HIDE DEF q
<1>6. BooksInv(q)
  BY <1>4, <1>5, SameBooks
<1> QED BY <1>5, <1>6 DEF SameBindings, q

\* A pack is requested once its template is gone, or again after it failed to
\* install: no view of this epoch is in the way.
LEMMA FetchKeeps ==
  ASSUME NEW p, BooksInv(p), NEW r \in Regions, p.loads[r].step = "none",
         p.unready[r] # Clean \/ r \notin p.weak
  PROVE /\ BooksInv([p EXCEPT !.loads[r].step = "fetch"])
        /\ SameBindings(p, [p EXCEPT !.loads[r].step = "fetch"])
<1> DEFINE f == [p.loads EXCEPT ![r] = [p.loads[r] EXCEPT !.step = "fetch"]]
           q == [p EXCEPT !.loads[r].step = "fetch"]
<1>0. p \in Page /\ Dated(p) /\ Backed(p) /\ Published(p) /\ Uncollected(p)
  BY DEF BooksInv
<1>1. p.loads \in [Regions -> Load]
  BY <1>0 DEF Page
<1>2. q = [p EXCEPT !.loads = f]
  BY <1>0, <1>1 DEF Page
<1>3. /\ f \in [Regions -> Load] /\ f[r].step = "fetch" /\ f[r].epoch = p.loads[r].epoch
      /\ \A s \in Regions : s # r => f[s] = p.loads[s]
  BY <1>1 DEF Load
<1> HIDE DEF f
<1>4. q \in Page
  BY <1>0, <1>2, <1>3 DEF Page
<1>5. /\ q.registry = p.registry /\ q.weak = p.weak /\ q.epoch = p.epoch
      /\ q.inventory = p.inventory /\ q.registered = p.registered /\ q.released = p.released
      /\ q.loads = f /\ q.unready = p.unready /\ q.views = p.views /\ q.inst = p.inst
      /\ q.cond = p.cond /\ q.attached = p.attached /\ q.entry = p.entry /\ q.ids = p.ids
      /\ q.failed = p.failed
  BY <1>0, <1>2 DEF Page
<1> HIDE DEF q
<1>6. \A s \in Regions : q.loads[s].epoch = p.loads[s].epoch
  BY <1>3, <1>5
<1>7. Dated(q)
  BY <1>0, <1>5, <1>6 DEF Dated
<1>8. Backed(q)
  BY <1>0, <1>5 DEF Backed
<1>9. \A s \in Regions : q.registered[s] = q.epoch /\ Installing(q, s) => Installing(p, s)
  <2>1. ASSUME r \notin p.weak PROVE p.registered[r] # p.epoch
    BY <1>0, <2>1 DEF Dated, Backed
  <2> QED BY <1>3, <1>5, <2>1 DEF Installing
<1>10. \A s \in Regions : q.loads[s].step = "install" => s # r
  BY <1>3, <1>5
<1>11. Published(q)
  BY <1>0, <1>3, <1>5, <1>9, <1>10 DEF Published
<1>12. Uncollected(q)
  BY <1>0, <1>5 DEF Uncollected
<1>13. BooksInv(q)
  BY <1>4, <1>7, <1>8, <1>11, <1>12 DEF BooksInv
<1> QED BY <1>5, <1>13 DEF SameBindings, q

\* The look-up revives the region unless its pack is being installed.
Looked(p, r) == IF Installing(p, r) THEN p ELSE Revive(p, r)

LEMMA LookedKeeps ==
  ASSUME NEW p, BooksInv(p), NEW r \in Regions
  PROVE /\ BooksInv(Looked(p, r)) /\ SameBindings(p, Looked(p, r))
        /\ ~Installing(Looked(p, r), r) => r \notin Looked(p, r).released
        /\ Looked(p, r).raw = p.raw /\ Looked(p, r).releasing = p.releasing
<1>1. p \in Page
  BY DEF BooksInv
<1>2. CASE Installing(p, r)
  BY <1>2 DEF Looked, SameBindings
<1>3. CASE ~Installing(p, r)
  BY <1>1, <1>3, ReviveKeeps, ReviveFields, ZenonT(30) DEF Looked, SameBindings
<1> QED BY <1>2, <1>3

LEMMA LoadPackKeeps ==
  ASSUME NEW p, BooksInv(p), NEW r \in Regions
  PROVE BooksInv(LoadPack(p, r)) /\ SameBindings(p, LoadPack(p, r))
<1> DEFINE q == Looked(p, r)
<1>1. LoadPack(p, r) = IF q.loads[r].step = "none" /\ (q.unready[r] # Clean \/ r \notin q.weak)
                       THEN [q EXCEPT !.loads[r].step = "fetch"] ELSE q
  BY DEF LoadPack, Looked
<1>2. BooksInv(q) /\ SameBindings(p, q)
  BY LookedKeeps
<1> HIDE DEF q
<1>3. CASE q.loads[r].step = "none" /\ (q.unready[r] # Clean \/ r \notin q.weak)
  <2>1. LoadPack(p, r) = [q EXCEPT !.loads[r].step = "fetch"]
    BY <1>1, <1>3
  <2>2. BooksInv(LoadPack(p, r)) /\ SameBindings(q, LoadPack(p, r))
    BY <1>2, <1>3, <2>1, FetchKeeps
  <2> QED BY <1>2, <2>2 DEF SameBindings
<1>4. CASE ~(q.loads[r].step = "none" /\ (q.unready[r] # Clean \/ r \notin q.weak))
  BY <1>1, <1>2, <1>4
<1> QED BY <1>3, <1>4


-----------------------------------------------------------------------------
(* The memory of failures *)

LEMMA HostFacts == ASSUME NEW b \in Bindings PROVE HostOf[b] \in Hosts /\ RegionOf[b] \in Regions
BY LazyAssumption DEF Hosts

\* One binding of a host stops being failed: only that host may be remembered
\* without a reason.
LEMMA OneRecovers ==
  ASSUME NEW p, NEW q, NEW b \in Bindings, Remembered(p, {HostOf[b]}),
         q.failed = p.failed, \A c \in Bindings : c # b => q.entry[c] = p.entry[c],
         ~IsFailed(q, b)
  PROVE Remembered(q, {HostOf[b]})
<1>1. \A c \in Bindings : c # b => IsFailed(q, c) = IsFailed(p, c)
  BY DEF IsFailed
<1>2. FailedHosts(q) \subseteq FailedHosts(p)
  BY <1>1 DEF FailedHosts
<1>3. FailedHosts(p) \subseteq FailedHosts(q) \cup {HostOf[b]}
  BY <1>1 DEF FailedHosts
<1> QED BY <1>2, <1>3 DEF Remembered

LEMMA SameFailures ==
  ASSUME NEW p, NEW q, NEW X, Remembered(p, X), q.failed = p.failed, q.entry = p.entry
  PROVE Remembered(q, X)
<1>1. FailedHosts(q) = FailedHosts(p)
  BY DEF FailedHosts, IsFailed
<1> QED BY <1>1 DEF Remembered

\* Forgetting changes nothing but the memory, and leaves it exact.
LEMMA Forgets ==
  ASSUME NEW p, BooksInv(p), NEW h
  PROVE /\ BooksInv(Forget(p, h))
        /\ Remembered(p, {h}) => Remembered(Forget(p, h), {})
        /\ Forget(p, h).entry = p.entry /\ Forget(p, h).ids = p.ids
<1>0. p \in Page
  BY DEF BooksInv
<1>1. CASE \E b \in Bindings : HostOf[b] = h /\ IsFailed(p, b)
  <2>1. Forget(p, h) = p
    BY <1>1 DEF Forget
  <2>2. h \in FailedHosts(p)
    BY <1>1 DEF FailedHosts
  <2> QED BY <2>1, <2>2 DEF Remembered
<1>2. CASE ~\E b \in Bindings : HostOf[b] = h /\ IsFailed(p, b)
  <2> DEFINE q == Forget(p, h)
  <2>1. q = [p EXCEPT !.failed = p.failed \ {h}]
    BY <1>2 DEF Forget
  <2>2. q \in Page
    BY <1>0, <2>1, ZenonT(30) DEF Page
  <2>3. /\ q.registry = p.registry /\ q.weak = p.weak /\ q.epoch = p.epoch
        /\ q.inventory = p.inventory /\ q.registered = p.registered /\ q.released = p.released
        /\ q.loads = p.loads /\ q.unready = p.unready /\ q.views = p.views /\ q.inst = p.inst
        /\ q.entry = p.entry /\ q.ids = p.ids /\ q.failed = p.failed \ {h}
    BY <1>0, <2>1 DEF Page
  <2> HIDE DEF q
  <2>4. BooksInv(q)
    BY <2>2, <2>3, SameBooks
  <2>5. FailedHosts(q) = FailedHosts(p)
    BY <2>3 DEF FailedHosts, IsFailed
  <2>6. h \notin FailedHosts(p)
    BY <1>2 DEF FailedHosts
  <2>7. Remembered(p, {h}) => Remembered(q, {})
    BY <2>3, <2>5, <2>6 DEF Remembered
  <2> QED BY <2>3, <2>4, <2>7 DEF q
<1> QED BY <1>1, <1>2

\* With the memory exact for all hosts but h, forgetting keeps it so.
LEMMA ForgetsWithin ==
  ASSUME NEW p, BooksInv(p), NEW h, NEW X, X \subseteq {h}, Remembered(p, {h})
  PROVE Remembered(Forget(p, h), X)
BY Forgets DEF Remembered

\* The entry of a binding is replaced, and the number it had.
Entered(p, b, e, n) ==
  [p EXCEPT !.ids = [p.ids EXCEPT ![b] = n], !.entry = [p.entry EXCEPT ![b] = e]]

LEMMA EntryKeeps ==
  ASSUME NEW p, BooksInv(p), NEW b \in Bindings, NEW e \in Entry, NEW n \in Nat
  PROVE LET q == Entered(p, b, e, n)
        IN  /\ BooksInv(q)
            /\ q.ids \in [Bindings -> Nat] /\ q.entry \in [Bindings -> Entry]
            /\ q.ids[b] = n /\ q.entry[b] = e
            /\ \A c \in Bindings : c # b => q.ids[c] = p.ids[c] /\ q.entry[c] = p.entry[c]
            /\ q.failed = p.failed /\ q.inst = p.inst /\ q.cond = p.cond
<1> DEFINE i == [p.ids EXCEPT ![b] = n]
           f == [p.entry EXCEPT ![b] = e]
           q == [p EXCEPT !.ids = i, !.entry = f]
<1>0. p \in Page
  BY DEF BooksInv
<1>1. /\ i \in [Bindings -> Nat] /\ f \in [Bindings -> Entry] /\ i[b] = n /\ f[b] = e
      /\ \A c \in Bindings : c # b => i[c] = p.ids[c] /\ f[c] = p.entry[c]
  BY <1>0 DEF Page
<1> HIDE DEF i, f
<1>2. q \in Page
  BY <1>0, <1>1 DEF Page
<1>3. /\ q.registry = p.registry /\ q.weak = p.weak /\ q.epoch = p.epoch
      /\ q.inventory = p.inventory /\ q.registered = p.registered /\ q.released = p.released
      /\ q.loads = p.loads /\ q.unready = p.unready /\ q.views = p.views /\ q.inst = p.inst
      /\ q.entry = f /\ q.ids = i /\ q.failed = p.failed /\ q.cond = p.cond
  BY <1>0 DEF Page
<1> HIDE DEF q
<1>4. BooksInv(q)
  BY <1>2, <1>3, SameBooks
<1>5. /\ BooksInv(q)
      /\ q.ids \in [Bindings -> Nat] /\ q.entry \in [Bindings -> Entry]
      /\ q.ids[b] = n /\ q.entry[b] = e
      /\ \A c \in Bindings : c # b => q.ids[c] = p.ids[c] /\ q.entry[c] = p.entry[c]
      /\ q.failed = p.failed /\ q.inst = p.inst /\ q.cond = p.cond
  BY <1>1, <1>3, <1>4
<1> QED BY <1>5 DEF q, i, f, Entered

\* Dropping an entry
LEMMA EntryDropped ==
  ASSUME NEW p, BooksInv(p), NEW b \in Bindings
  PROVE LET q == [p EXCEPT !.entry[b] = NoEntry]
        IN  /\ BooksInv(q) /\ q.ids = p.ids /\ q.entry[b] = NoEntry
            /\ \A c \in Bindings : c # b => q.entry[c] = p.entry[c]
            /\ q.failed = p.failed /\ q.inst = p.inst /\ q.cond = p.cond
            /\ Remembered(p, {HostOf[b]}) => Remembered(q, {HostOf[b]})
<1> DEFINE q == Entered(p, b, NoEntry, p.ids[b])
<1>0. p \in Page /\ p.ids \in [Bindings -> Nat] /\ p.entry \in [Bindings -> Entry]
  BY DEF BooksInv, Page
<1>1. [p EXCEPT !.entry[b] = NoEntry] = q
  BY <1>0 DEF Page, Entered
<1>2. NoEntry \in Entry /\ p.ids[b] \in Nat
  BY <1>0 DEF NoEntry, Entry
<1>3. /\ BooksInv(q) /\ q.ids \in [Bindings -> Nat] /\ q.ids[b] = p.ids[b] /\ q.entry[b] = NoEntry
      /\ \A c \in Bindings : c # b => q.ids[c] = p.ids[c] /\ q.entry[c] = p.entry[c]
      /\ q.failed = p.failed /\ q.inst = p.inst /\ q.cond = p.cond
  BY <1>2, EntryKeeps
<1> HIDE DEF q
<1>4. q.ids = p.ids
  BY <1>0, <1>3
<1>5. ~IsFailed(q, b)
  BY <1>3 DEF IsFailed, NoEntry
<1>6. Remembered(p, {HostOf[b]}) => Remembered(q, {HostOf[b]})
  BY <1>3, <1>5, OneRecovers
<1> QED BY <1>1, <1>3, <1>4, <1>6


-----------------------------------------------------------------------------
(* Evaluating a binding *)

\* Only the entry of b may change; a new activation of it is loading.
Alone(p, q, b) ==
  /\ \A c \in Bindings : c # b => q.ids[c] = p.ids[c] /\ q.entry[c] = p.entry[c]
  /\ q.ids[b] # p.ids[b] => q.entry[b].id # 0 /\ q.entry[b].loading

LEMMA Activates ==
  ASSUME NEW p, BooksInv(p), NEW b \in Bindings,
         NEW X, X \subseteq {HostOf[b]}, Remembered(p, X)
  PROVE /\ BooksInv(Activate(p, b)) /\ Remembered(Activate(p, b), X)
        /\ Alone(p, Activate(p, b), b)
<1> DEFINE r == RegionOf[b]
           l == LoadScripts(p, r)
           q == LoadPack(l, r)
           k == p.ids[b] + 1
           e == [id |-> k, loading |-> TRUE]
           n == Entered(q, b, e, k)
<1>0. r \in Regions /\ p \in Page /\ p.ids \in [Bindings -> Nat]
  BY HostFacts DEF BooksInv, Page
<1>1. BooksInv(l) /\ SameBindings(p, l)
  BY <1>0, LoadScriptsKeeps
<1>2. BooksInv(q) /\ SameBindings(l, q)
  BY <1>0, <1>1, LoadPackKeeps
<1>3. q \in Page /\ q.ids = p.ids /\ q.entry = p.entry /\ q.failed = p.failed
  BY <1>1, <1>2 DEF SameBindings, BooksInv
<1>4. CASE p.entry[b].loading
  <2>1. Activate(p, b) = l
    BY <1>4 DEF Activate
  <2>2. l.ids = p.ids /\ l.entry = p.entry /\ l.failed = p.failed
    BY <1>1 DEF SameBindings
  <2>3. Remembered(l, X)
    BY <2>2, SameFailures
  <2> QED BY <1>1, <2>1, <2>2, <2>3 DEF Alone
<1>5. CASE ~p.entry[b].loading
  <2>1. Activate(p, b) = Forget([q EXCEPT !.ids[b] = @ + 1, !.entry[b] = e], HostOf[b])
    BY <1>5 DEF Activate
  <2> HIDE DEF q, l
  <2>2. [q EXCEPT !.ids[b] = @ + 1, !.entry[b] = e] = n
    BY <1>3 DEF Entered, Page
  <2>3. k \in Nat /\ k # 0
    BY <1>0
  <2> HIDE DEF k
  <2>4. e \in Entry /\ e.id # 0 /\ e.loading
    BY <2>3 DEF Entry
  <2> HIDE DEF e
  <2> HIDE DEF n
  <2>5. n = Entered(q, b, e, k)
    BY DEF n
  <2>6. /\ BooksInv(n) /\ n.ids[b] = k /\ n.entry[b] = e
        /\ \A c \in Bindings : c # b => n.ids[c] = q.ids[c] /\ n.entry[c] = q.entry[c]
        /\ n.failed = q.failed
    BY <1>2, <2>3, <2>4, <2>5, EntryKeeps
  <2>7. /\ BooksInv(n) /\ n.ids[b] = k /\ n.entry[b] = e
        /\ \A c \in Bindings : c # b => n.ids[c] = p.ids[c] /\ n.entry[c] = p.entry[c]
        /\ n.failed = p.failed
    BY <1>3, <2>6
  <2>8. ~IsFailed(n, b)
    BY <2>4, <2>7 DEF IsFailed
  <2>9. Remembered(p, {HostOf[b]})
    BY DEF Remembered
  <2>10. Remembered(n, {HostOf[b]})
    BY <2>7, <2>8, <2>9, OneRecovers
  <2>11. BooksInv(Forget(n, HostOf[b])) /\ Remembered(Forget(n, HostOf[b]), X)
    BY <2>7, <2>10, Forgets, ForgetsWithin
  <2>12. Forget(n, HostOf[b]).ids = n.ids /\ Forget(n, HostOf[b]).entry = n.entry
    BY <2>7, Forgets
  <2>13. Alone(p, Forget(n, HostOf[b]), b)
    BY <2>4, <2>7, <2>12 DEF Alone
  <2> QED BY <2>1, <2>2, <2>11, <2>13
<1> QED BY <1>4, <1>5

\* Disposed only asks for a look at the regions nobody shows.
LEMMA DisposedKeeps ==
  ASSUME NEW p, BooksInv(p)
  PROVE /\ BooksInv(Disposed(p)) /\ Disposed(p).entry = p.entry /\ Disposed(p).ids = p.ids
        /\ Disposed(p).failed = p.failed
<1> DEFINE q == Disposed(p)
           f == p.releasing \/ \E r \in Regions : p.views[r] # {}
<1>0. p \in Page
  BY DEF BooksInv
<1>1. q = [p EXCEPT !.releasing = f]
  BY <1>0 DEF Disposed, Page
<1>2. f \in BOOLEAN
  BY <1>0 DEF Page
<1> HIDE DEF f
<1>3. q \in Page
  BY <1>0, <1>1, <1>2, ZenonT(30) DEF Page
<1>4. /\ q.registry = p.registry /\ q.weak = p.weak /\ q.epoch = p.epoch
      /\ q.inventory = p.inventory /\ q.registered = p.registered /\ q.released = p.released
      /\ q.loads = p.loads /\ q.unready = p.unready /\ q.views = p.views /\ q.inst = p.inst
      /\ q.entry = p.entry /\ q.ids = p.ids /\ q.failed = p.failed
  BY <1>0, <1>1 DEF Page
<1> HIDE DEF q
<1>5. BooksInv(q)
  BY <1>3, <1>4, SameBooks
<1> QED BY <1>4, <1>5 DEF q

\* A region is mounted once its pack is installed, and its view is known
\* unless a collection took the registration with it.
LEMMA OpenedKeeps ==
  ASSUME NEW p, BooksInv(p), NEW b \in Bindings, ~Unloaded(p, RegionOf[b]),
         RegionOf[b] \notin p.released, NEW R \in SUBSET Bindings
  PROVE LET q == Opened([p EXCEPT !.inst[b] = TRUE, !.raw = R], b)
        IN  BooksInv(q) /\ q.entry = p.entry /\ q.ids = p.ids /\ q.failed = p.failed
<1> DEFINE r == RegionOf[b]
           i == [p.inst EXCEPT ![b] = TRUE]
           v == [p.views EXCEPT ![r] = IF p.registered[r] = Never THEN @ ELSE @ \cup {b}]
           q == Opened([p EXCEPT !.inst[b] = TRUE, !.raw = R], b)
<1>0. p \in Page /\ Dated(p) /\ Backed(p) /\ Published(p) /\ Uncollected(p) /\ r \in Regions
  BY HostFacts DEF BooksInv
<1>1. p.inst \in [Bindings -> BOOLEAN] /\ p.views \in [Regions -> SUBSET Bindings]
  BY <1>0 DEF Page
<1>2. q = [p EXCEPT !.inst = i, !.raw = R, !.views = v]
  BY <1>0 DEF Opened, Page
<1>3. i \in [Bindings -> BOOLEAN] /\ \A c \in Bindings : c # b => i[c] = p.inst[c]
  BY <1>1
<1>4. /\ v \in [Regions -> SUBSET Bindings]
      /\ \A s \in Regions : s # r => v[s] = p.views[s]
      /\ p.views[r] \subseteq v[r]
      /\ p.registered[r] # Never => b \in v[r]
  BY <1>0, <1>1
<1> HIDE DEF i, v, q
<1>5. q \in Page
  BY <1>0, <1>2, <1>3, <1>4 DEF Page
<1>6. /\ q.registry = p.registry /\ q.weak = p.weak /\ q.epoch = p.epoch
      /\ q.inventory = p.inventory /\ q.registered = p.registered /\ q.released = p.released
      /\ q.loads = p.loads /\ q.unready = p.unready /\ q.views = v /\ q.inst = i
      /\ q.entry = p.entry /\ q.ids = p.ids /\ q.failed = p.failed
  BY <1>0, <1>2 DEF Page
<1>7. Dated(q) /\ Backed(q)
  BY <1>0, <1>6 DEF Dated, Backed
<1>8. \A s : Installing(q, s) = Installing(p, s)
  BY <1>6 DEF Installing
<1>9. ~Installing(p, r) /\ r \in p.weak
  BY DEF Unloaded
<1>10. Published(q)
  BY <1>0, <1>4, <1>6, <1>8, <1>9 DEF Published
<1>11. ASSUME p.epoch = 0 PROVE r \in p.registry /\ b \in v[r]
  <2>1. r \in p.registry /\ (p.registered[r] = 0 \/ r \in p.unready[r])
    BY <1>0, <1>9, <1>11 DEF Uncollected
  <2>2. r \notin p.unready[r]
    BY <1>0, <1>9, TemplateFacts DEF Installing
  <2> QED BY <1>4, <2>1, <2>2 DEF Never
<1>12. \A c \in Bindings : c \in p.views[RegionOf[c]] => c \in v[RegionOf[c]]
  BY <1>4, HostFacts
<1>13. Uncollected(q)
  BY <1>0, <1>3, <1>6, <1>11, <1>12 DEF Uncollected
<1>14. BooksInv(q)
  BY <1>5, <1>7, <1>10, <1>13 DEF BooksInv
<1> QED BY <1>6, <1>14 DEF q


\* A region that is not shown any more
LEMMA ClosedKeeps ==
  ASSUME NEW p, BooksInv(p), NEW b \in Bindings
  PROVE LET q == [p EXCEPT !.inst[b] = FALSE]
        IN  BooksInv(q) /\ q.entry = p.entry /\ q.ids = p.ids /\ q.failed = p.failed
<1> DEFINE q == [p EXCEPT !.inst[b] = FALSE]
           i == [p.inst EXCEPT ![b] = FALSE]
<1>0. p \in Page /\ p.inst \in [Bindings -> BOOLEAN]
  BY DEF BooksInv, Page
<1>1. q = [p EXCEPT !.inst = i]
  BY <1>0 DEF Page
<1>2. i \in [Bindings -> BOOLEAN] /\ \A c \in Bindings : i[c] => p.inst[c]
  BY <1>0
<1> HIDE DEF i
<1>3. q \in Page
  BY <1>0, <1>1, <1>2 DEF Page
<1>4. /\ q.registry = p.registry /\ q.weak = p.weak /\ q.epoch = p.epoch
      /\ q.inventory = p.inventory /\ q.registered = p.registered /\ q.released = p.released
      /\ q.loads = p.loads /\ q.unready = p.unready /\ q.views = p.views /\ q.inst = i
      /\ q.entry = p.entry /\ q.ids = p.ids /\ q.failed = p.failed
  BY <1>0, <1>1 DEF Page
<1> HIDE DEF q
<1>5. BooksInv(q)
  BY <1>2, <1>3, <1>4, SameBooks
<1> QED BY <1>4, <1>5 DEF q

\* Evaluating a binding keeps the books honest and the memory exact.
LEMMA Toggles ==
  ASSUME NEW p, BooksInv(p), NEW b \in Bindings,
         NEW X, X \subseteq {HostOf[b]}, Remembered(p, X)
  PROVE /\ BooksInv(Toggle(p, b)) /\ Remembered(Toggle(p, b), X)
        /\ Alone(p, Toggle(p, b), b)
<1> DEFINE r == RegionOf[b]
           l == Looked(p, r)
<1>0. r \in Regions /\ p \in Page /\ p.inst \in [Bindings -> BOOLEAN]
      /\ p.cond \in [Bindings -> BOOLEAN]
  BY HostFacts DEF BooksInv, Page
<1>1. CASE p.inst[b] /\ p.cond[b]
  <2>1. Toggle(p, b) = p
    BY <1>1 DEF Toggle
  <2> QED BY <2>1 DEF Alone
<1>2. CASE p.inst[b] /\ ~p.cond[b]
  <2> DEFINE c == [p EXCEPT !.inst[b] = FALSE]
  <2>1. Toggle(p, b) = Disposed(c)
    BY <1>2 DEF Toggle
  <2>2. BooksInv(c) /\ c.entry = p.entry /\ c.ids = p.ids /\ c.failed = p.failed
    BY ClosedKeeps
  <2> HIDE DEF c
  <2>3. /\ BooksInv(Disposed(c)) /\ Disposed(c).entry = p.entry /\ Disposed(c).ids = p.ids
        /\ Disposed(c).failed = p.failed
    BY <2>2, DisposedKeeps
  <2>4. Remembered(Disposed(c), X)
    BY <2>3, SameFailures
  <2> QED BY <2>1, <2>3, <2>4 DEF Alone
<1>3. CASE ~p.inst[b] /\ ~p.cond[b]
  <2> DEFINE c == [p EXCEPT !.entry[b] = NoEntry]
  <2>1. Toggle(p, b) = Forget(c, HostOf[b])
    BY <1>3 DEF Toggle
  <2>2. Remembered(p, {HostOf[b]})
    BY DEF Remembered
  <2>3. /\ BooksInv(c) /\ c.ids = p.ids /\ Remembered(c, {HostOf[b]})
        /\ \A d \in Bindings : d # b => c.entry[d] = p.entry[d]
    BY <2>2, EntryDropped
  <2> HIDE DEF c
  <2>4. /\ BooksInv(Forget(c, HostOf[b])) /\ Remembered(Forget(c, HostOf[b]), X)
        /\ Forget(c, HostOf[b]).entry = c.entry /\ Forget(c, HostOf[b]).ids = c.ids
    BY <2>3, Forgets, ForgetsWithin
  <2>5. Alone(p, Forget(c, HostOf[b]), b)
    BY <2>3, <2>4 DEF Alone
  <2> QED BY <2>1, <2>4, <2>5
<1>4. CASE ~p.inst[b] /\ p.cond[b]
  <2>1. /\ BooksInv(l) /\ SameBindings(p, l) /\ l.raw = p.raw
        /\ ~Installing(l, r) => r \notin l.released
    BY <1>0, LookedKeeps
  <2>2. l.entry = p.entry /\ l.ids = p.ids /\ l.failed = p.failed
    BY <2>1 DEF SameBindings
  <2>3. Remembered(l, X)
    BY <2>2, SameFailures
  <2>4. CASE Unloaded(l, r)
    <3>1. Toggle(p, b) = Activate(l, b)
      BY <1>4, <2>4 DEF Toggle, Looked
    <3> HIDE DEF l
    <3>2. BooksInv(Activate(l, b)) /\ Remembered(Activate(l, b), X) /\ Alone(l, Activate(l, b), b)
      BY <2>1, <2>3, Activates
    <3> QED BY <2>2, <3>1, <3>2 DEF Alone
  <2>5. CASE ~Unloaded(l, r)
    <3> DEFINE R == IF r \in p.prepared THEN l.raw \ {b} ELSE l.raw \cup {b}
               q == Opened([l EXCEPT !.inst[b] = TRUE, !.raw = R], b)
    <3>1. Toggle(p, b) = q
      BY <1>4, <2>5 DEF Toggle, Looked
    <3>2. R \in SUBSET Bindings
      BY <1>0, <2>1 DEF Page
    <3> HIDE DEF R, l
    <3>3. ~Installing(l, r)
      BY <2>5 DEF Unloaded
    <3>4. BooksInv(q) /\ q.entry = l.entry /\ q.ids = l.ids /\ q.failed = l.failed
      BY <2>1, <2>5, <3>2, <3>3, OpenedKeeps
    <3> HIDE DEF q
    <3>5. Remembered(q, X)
      BY <2>3, <3>4, SameFailures
    <3> QED BY <2>2, <3>1, <3>4, <3>5 DEF Alone
  <2> QED BY <2>4, <2>5
<1> QED BY <1>0, <1>1, <1>2, <1>3, <1>4

\* A retry of one binding
LEMMA RetriesOne ==
  ASSUME NEW p, BooksInv(p), NEW b \in Bindings, Remembered(p, {HostOf[b]})
  PROVE /\ BooksInv(Retried(p, b)) /\ Remembered(Retried(p, b), {HostOf[b]})
        /\ Alone(p, Retried(p, b), b)
<1> DEFINE t == Toggle(p, b)
           d == [t EXCEPT !.entry[b] = NoEntry]
<1>1. BooksInv(t) /\ Remembered(t, {HostOf[b]}) /\ Alone(p, t, b)
  BY Toggles
<1>2. Retried(p, b) = IF t.entry[b].loading THEN t ELSE d
  BY DEF Retried
<1> HIDE DEF t
<1>3. CASE t.entry[b].loading
  BY <1>1, <1>2, <1>3
<1>4. CASE ~t.entry[b].loading
  <2>1. /\ BooksInv(d) /\ d.ids = t.ids /\ Remembered(d, {HostOf[b]})
        /\ \A c \in Bindings : c # b => d.entry[c] = t.entry[c]
    BY <1>1, EntryDropped
  <2> HIDE DEF d
  <2>2. t.ids[b] = p.ids[b]
    BY <1>1, <1>4 DEF Alone
  <2>3. Alone(p, d, b)
    BY <1>1, <2>1, <2>2 DEF Alone
  <2> QED BY <1>2, <1>4, <2>1, <2>3
<1> QED BY <1>3, <1>4


-----------------------------------------------------------------------------
(* Retrying every failed binding of a host.  The fold is a function on the   *)
(* subsets of the set it folds over; that there is one, and what it keeps,   *)
(* both follow by taking the smallest subset for which they would fail.      *)

LEMMA Least ==
  ASSUME NEW T, T \subseteq Nat, T # {}
  PROVE \E n \in T : \A m \in T : n <= m
<1>1. PICK x \in T : \A y \in T : ~ (<<y, x>> \in OpToRel(<, Nat))
  BY WFMin, NatLessThanWellFounded
<1>2. \A y \in T : ~(y < x)
  BY <1>1 DEF OpToRel
<1> QED BY <1>2

Picked(s) == CHOOSE x \in s : TRUE
FoldStep(g, p, s) == IF s = {} THEN p ELSE Retried(g[s \ {Picked(s)}], Picked(s))

LEMMA PickedFacts ==
  ASSUME NEW S, IsFiniteSet(S), NEW s \in SUBSET S, s # {}
  PROVE /\ Picked(s) \in s /\ s \ {Picked(s)} \in SUBSET S
        /\ Cardinality(s) \in Nat /\ Cardinality(s) # 0
        /\ Cardinality(s \ {Picked(s)}) = Cardinality(s) - 1
<1>1. Picked(s) \in s
  BY DEF Picked
<1>2. IsFiniteSet(s)
  BY FS_Subset
<1> QED BY <1>1, <1>2, FS_CardinalityType, FS_EmptySet, FS_RemoveElement

\* The fold has a function that computes it.
LEMMA FoldExists ==
  ASSUME NEW S, IsFiniteSet(S), NEW p
  PROVE \E g : g = [s \in SUBSET S |-> FoldStep(g, p, s)]
<1> DEFINE Upto(g, n) == \A s \in SUBSET S : Cardinality(s) <= n => g[s] = FoldStep(g, p, s)
           Some(n) == \E g : DOMAIN g = SUBSET S /\ g = [s \in SUBSET S |-> g[s]] /\ Upto(g, n)
           Bad == {n \in Nat : ~Some(n)}
<1>1. Some(0)
  <2> DEFINE g == [s \in SUBSET S |-> p]
  <2>1. ASSUME NEW s \in SUBSET S, Cardinality(s) <= 0 PROVE s = {}
    <3>1. s # {} => Cardinality(s) \in Nat /\ Cardinality(s) # 0
      BY PickedFacts
    <3> QED BY <2>1, <3>1
  <2>2. Upto(g, 0)
    BY <2>1 DEF FoldStep
  <2>3. DOMAIN g = SUBSET S /\ g = [s \in SUBSET S |-> g[s]]
    OBVIOUS
  <2> QED BY <2>2, <2>3
<1>2. ASSUME NEW n \in Nat, Some(n) PROVE Some(n + 1)
  <2>1. PICK g : DOMAIN g = SUBSET S /\ g = [s \in SUBSET S |-> g[s]] /\ Upto(g, n)
    BY <1>2
  <2> DEFINE h == [s \in SUBSET S |-> FoldStep(g, p, s)]
  <2>2. ASSUME NEW s \in SUBSET S, Cardinality(s) <= n + 1
        PROVE FoldStep(h, p, s) = FoldStep(g, p, s)
    <3>1. CASE s = {}
      BY <3>1 DEF FoldStep
    <3>2. CASE s # {}
      <4> DEFINE u == s \ {Picked(s)}
      <4>1. u \in SUBSET S /\ Cardinality(u) <= n
        BY <2>2, <3>2, PickedFacts
      <4>2. h[u] = FoldStep(g, p, u)
        BY <4>1
      <4>3. g[u] = FoldStep(g, p, u)
        BY <2>1, <4>1
      <4> QED BY <3>2, <4>2, <4>3 DEF FoldStep
    <3> QED BY <3>1, <3>2
  <2>3. Upto(h, n + 1)
    BY <2>2
  <2>4. DOMAIN h = SUBSET S /\ h = [s \in SUBSET S |-> h[s]]
    OBVIOUS
  <2> QED BY <2>3, <2>4
<1> HIDE DEF Some
<1>3. Bad = {}
  <2>1. SUFFICES ASSUME Bad # {} PROVE FALSE
    OBVIOUS
  <2>2. PICK n \in Bad : \A m \in Bad : n <= m
    BY <2>1, Least
  <2>3. n \in Nat /\ ~Some(n)
    BY <2>2
  <2>4. n # 0
    BY <1>1, <2>3
  <2>5. n - 1 \in Nat /\ n - 1 \notin Bad
    BY <2>2, <2>3, <2>4
  <2>6. Some(n - 1)
    BY <2>5
  <2>7. Some((n - 1) + 1)
    BY <1>2, <2>5, <2>6
  <2>8. (n - 1) + 1 = n
    BY <2>3
  <2> QED BY <2>3, <2>7, <2>8
<1>4. Cardinality(S) \in Nat
  BY FS_CardinalityType
<1>5. Some(Cardinality(S))
  BY <1>3, <1>4
<1>6. PICK g : DOMAIN g = SUBSET S /\ g = [s \in SUBSET S |-> g[s]] /\ Upto(g, Cardinality(S))
  BY <1>5 DEF Some
<1>7. \A s \in SUBSET S : g[s] = FoldStep(g, p, s)
  BY <1>6, FS_Subset
<1>8. g = [s \in SUBSET S |-> FoldStep(g, p, s)]
  BY <1>6, <1>7
<1> QED BY <1>8

LEMMA FoldIs ==
  ASSUME NEW S, IsFiniteSet(S), NEW p
  PROVE \E g : /\ \A s \in SUBSET S : g[s] = FoldStep(g, p, s)
               /\ RetriedAll(p, S) = g[S]
<1> DEFINE g == CHOOSE g : g = [s \in SUBSET S |-> FoldStep(g, p, s)]
<1>1. g = [s \in SUBSET S |-> FoldStep(g, p, s)]
  BY FoldExists
<1>2. RetriedAll(p, S) = g[S]
  BY DEF RetriedAll, FoldSet, MapThenFoldSet, FoldStep, Picked
<1> HIDE DEF g
<1>3. \A s \in SUBSET S : g[s] = FoldStep(g, p, s)
  BY <1>1
<1> QED BY <1>2, <1>3


\* What holds while the bindings in T were retried
RetryInv(p, h, T, q) ==
  /\ BooksInv(q) /\ Remembered(q, {h})
  /\ \A c \in Bindings : c \notin T => q.ids[c] = p.ids[c]
  /\ \A c \in Bindings : q.ids[c] # p.ids[c] => q.entry[c].id # 0

LEMMA RetriesAll ==
  ASSUME NEW p, BooksInv(p), NEW h, Remembered(p, {h}),
         NEW S \in SUBSET Bindings, \A b \in S : HostOf[b] = h
  PROVE RetryInv(p, h, S, RetriedAll(p, S))
<1>1. IsFiniteSet(S)
  BY LazyAssumption, FS_Subset
<1>2. PICK g : /\ \A s \in SUBSET S : g[s] = FoldStep(g, p, s)
               /\ RetriedAll(p, S) = g[S]
  BY <1>1, FoldIs
<1> DEFINE Bad == {n \in Nat : \E T \in SUBSET S : Cardinality(T) = n /\ ~RetryInv(p, h, T, g[T])}
<1>3. Bad = {}
  <2>1. SUFFICES ASSUME Bad # {} PROVE FALSE
    OBVIOUS
  <2>2. PICK n \in Bad : \A m \in Bad : n <= m
    BY <2>1, Least
  <2>3. PICK T \in SUBSET S : Cardinality(T) = n /\ ~RetryInv(p, h, T, g[T])
    BY <2>2
  <2>4. g[T] = FoldStep(g, p, T)
    BY <1>2
  <2>5. CASE T = {}
    <3>1. g[T] = p
      BY <2>4, <2>5 DEF FoldStep
    <3>2. RetryInv(p, h, T, p)
      BY DEF RetryInv
    <3> QED BY <2>3, <3>1, <3>2
  <2>6. CASE T # {}
    <3> DEFINE b == Picked(T)
               u == T \ {b}
               q == g[u]
    <3>1. /\ b \in T /\ u \in SUBSET S /\ Cardinality(u) = Cardinality(T) - 1
          /\ Cardinality(T) \in Nat /\ Cardinality(T) # 0
      BY <1>1, <2>6, PickedFacts
    <3>2. b \in Bindings /\ HostOf[b] = h /\ b \notin u
      BY <3>1
    <3>3. Cardinality(u) \in Nat /\ ~(n <= Cardinality(u))
      BY <2>3, <3>1
    <3>4. Cardinality(u) \notin Bad
      <4> HIDE DEF Bad
      <4> QED BY <2>2, <3>3
    <3>5. RetryInv(p, h, u, q)
      <4> HIDE DEF u
      <4> QED BY <3>1, <3>3, <3>4
    <3>6. g[T] = Retried(q, b)
      BY <2>4, <2>6 DEF FoldStep
    <3> HIDE DEF b, q
    <3>7. /\ BooksInv(Retried(q, b)) /\ Remembered(Retried(q, b), {h})
          /\ Alone(q, Retried(q, b), b)
      BY <3>2, <3>5, RetriesOne DEF RetryInv
    <3>8. q.ids[b] = p.ids[b]
      BY <3>2, <3>5 DEF RetryInv
    <3>9. \A c \in Bindings : c \notin T => c # b /\ c \notin u
      BY <3>1
    <3>10. RetryInv(p, h, T, Retried(q, b))
      BY <3>5, <3>7, <3>8, <3>9 DEF RetryInv, Alone
    <3> QED BY <2>3, <3>6, <3>10
  <2> QED BY <2>5, <2>6
<1>4. Cardinality(S) \in Nat
  BY <1>1, FS_CardinalityType
<1> QED BY <1>2, <1>3, <1>4

-----------------------------------------------------------------------------
(* The steps *)

\* A new activation has a number of its own, so its reaction has one too.
LEMMA NewWaitsKeep ==
  ASSUME NEW p, NEW q, p \in Page, q \in Page,
         \A c \in Bindings : q.ids[c] # p.ids[c] => q.entry[c].id # 0
  PROVE NewWaits(p, q) \subseteq [b : Bindings, id : Nat \ {0}, pack : Answer, script : Answer]
<1>1. ASSUME NEW c \in Bindings, q.ids[c] > p.ids[c]
      PROVE Waiter(q, c) \in [b : Bindings, id : Nat \ {0}, pack : Answer, script : Answer]
  <2>1. q.ids[c] # p.ids[c]
    BY <1>1 DEF Page
  <2>2. q.entry[c].id \in Nat \ {0}
    BY <2>1 DEF Page, Entry
  <2> QED BY <2>2 DEF Waiter, Answer
<1> QED BY <1>1 DEF NewWaits

LEMMA RetryKeeps ==
  ASSUME LazyInv, NEW h \in Hosts, Retry(h)
  PROVE LazyInv'
<1> DEFINE S == {b \in Bindings : HostOf[b] = h /\ IsFailed(page, b)}
           a == RetriedAll(page, S)
           q == Forget(a, h)
<1>1. page' = q /\ waits' = waits \cup NewWaits(page, q)
  BY DEF Retry
<1>2. BooksInv(page) /\ Remembered(page, {h}) /\ S \in SUBSET Bindings
  BY DEF LazyInv, Remembered
<1>3. RetryInv(page, h, S, a)
  BY <1>2, RetriesAll
<1> HIDE DEF a, S
<1>4. /\ BooksInv(q) /\ Remembered(q, {}) /\ q.ids = a.ids /\ q.entry = a.entry
  BY <1>3, Forgets DEF RetryInv
<1> HIDE DEF q
<1>5. \A c \in Bindings : q.ids[c] # page.ids[c] => q.entry[c].id # 0
  BY <1>3, <1>4 DEF RetryInv
<1>6. NewWaits(page, q) \subseteq [b : Bindings, id : Nat \ {0}, pack : Answer, script : Answer]
  BY <1>2, <1>4, <1>5, NewWaitsKeep DEF BooksInv
<1> QED BY <1>1, <1>4, <1>6 DEF LazyInv, WaitInv


\* The condition of a binding changes.
LEMMA CondKeeps ==
  ASSUME NEW p, BooksInv(p), NEW b \in Bindings, NEW on \in BOOLEAN
  PROVE LET q == [p EXCEPT !.cond[b] = on]
        IN  BooksInv(q) /\ q.entry = p.entry /\ q.ids = p.ids /\ q.failed = p.failed
<1> DEFINE q == [p EXCEPT !.cond[b] = on]
           f == [p.cond EXCEPT ![b] = on]
<1>0. p \in Page /\ p.cond \in [Bindings -> BOOLEAN]
  BY DEF BooksInv, Page
<1>1. q = [p EXCEPT !.cond = f]
  BY <1>0 DEF Page
<1>2. f \in [Bindings -> BOOLEAN]
  BY <1>0
<1> HIDE DEF f
<1>3. q \in Page
  BY <1>0, <1>1, <1>2 DEF Page
<1>4. /\ q.registry = p.registry /\ q.weak = p.weak /\ q.epoch = p.epoch
      /\ q.inventory = p.inventory /\ q.registered = p.registered /\ q.released = p.released
      /\ q.loads = p.loads /\ q.unready = p.unready /\ q.views = p.views /\ q.inst = p.inst
      /\ q.entry = p.entry /\ q.ids = p.ids /\ q.failed = p.failed
  BY <1>0, <1>1 DEF Page
<1> HIDE DEF q
<1>5. BooksInv(q)
  BY <1>3, <1>4, SameBooks
<1> QED BY <1>4, <1>5 DEF q

LEMMA RenderKeeps ==
  ASSUME LazyInv, NEW b \in Bindings, NEW on \in BOOLEAN, Render(b, on)
  PROVE LazyInv'
<1> DEFINE c == [page EXCEPT !.cond[b] = on]
           q == Toggle(c, b)
<1>1. page' = q /\ waits' = waits \cup NewWaits(page, q)
  BY DEF Render
<1>2. BooksInv(c) /\ c.entry = page.entry /\ c.ids = page.ids /\ c.failed = page.failed
  BY CondKeeps DEF LazyInv
<1> HIDE DEF c
<1>3. Remembered(c, {})
  BY <1>2, SameFailures DEF LazyInv
<1>4. BooksInv(q) /\ Remembered(q, {}) /\ Alone(c, q, b)
  BY <1>2, <1>3, Toggles
<1> HIDE DEF q
<1>5. \A d \in Bindings : q.ids[d] # page.ids[d] => q.entry[d].id # 0
  BY <1>2, <1>4 DEF Alone
<1>6. NewWaits(page, q) \subseteq [b : Bindings, id : Nat \ {0}, pack : Answer, script : Answer]
  BY <1>4, <1>5, NewWaitsKeep DEF BooksInv, LazyInv
<1> QED BY <1>1, <1>4, <1>6 DEF LazyInv, WaitInv

LEMMA DisposeKeeps ==
  ASSUME LazyInv, NEW b \in Bindings, Dispose(b)
  PROVE LazyInv'
<1> DEFINE p == page
           f == [p.attached EXCEPT ![b] = FALSE]
           i == [p.inst EXCEPT ![b] = FALSE]
           c == [p.cond EXCEPT ![b] = FALSE]
           e == [p.entry EXCEPT ![b] = NoEntry]
           q == [p EXCEPT !.attached = f, !.inst = i, !.cond = c, !.entry = e]
           h == HostOf[b]
<1>0. BooksInv(p) /\ p \in Page /\ Remembered(p, {h})
  BY DEF LazyInv, BooksInv, Remembered
<1>1. page' = Disposed(Forget(q, h)) /\ waits' = waits
  BY <1>0 DEF Dispose, Page
<1>2. NoEntry \in Entry
  BY DEF NoEntry, Entry
<1>3. /\ f \in [Bindings -> BOOLEAN] /\ i \in [Bindings -> BOOLEAN] /\ c \in [Bindings -> BOOLEAN]
      /\ \A d \in Bindings : i[d] => p.inst[d]
  BY <1>0 DEF Page
<1>4. e \in [Bindings -> Entry] /\ e[b] = NoEntry /\ \A d \in Bindings : d # b => e[d] = p.entry[d]
  BY <1>0, <1>2 DEF Page
<1> HIDE DEF f, i, c, e, q, p
<1>5. q = [p EXCEPT !.attached = f, !.inst = i, !.cond = c, !.entry = e]
  BY DEF q
<1>6. q \in Page
  BY <1>0, <1>3, <1>4, <1>5 DEF Page
<1>7. /\ q.registry = p.registry /\ q.weak = p.weak /\ q.epoch = p.epoch
      /\ q.inventory = p.inventory /\ q.registered = p.registered /\ q.released = p.released
      /\ q.loads = p.loads /\ q.unready = p.unready /\ q.views = p.views /\ q.inst = i
      /\ q.entry = e /\ q.failed = p.failed
  BY <1>0, <1>5 DEF Page
<1>8. BooksInv(q)
  BY <1>0, <1>3, <1>6, <1>7, SameBooks
<1>9. ~IsFailed(q, b)
  BY <1>4, <1>7 DEF IsFailed, NoEntry
<1>10. Remembered(q, {h})
  BY <1>0, <1>4, <1>7, <1>9, OneRecovers
<1>11. BooksInv(Forget(q, h)) /\ Remembered(Forget(q, h), {})
  BY <1>8, <1>10, Forgets
<1>12. /\ BooksInv(Disposed(Forget(q, h)))
       /\ Disposed(Forget(q, h)).entry = Forget(q, h).entry
       /\ Disposed(Forget(q, h)).failed = Forget(q, h).failed
  BY <1>11, DisposedKeeps
<1>13. Remembered(Disposed(Forget(q, h)), {})
  BY <1>11, <1>12, SameFailures
<1> QED BY <1>1, <1>12, <1>13 DEF LazyInv, WaitInv

LEMMA PrefetchKeeps ==
  ASSUME LazyInv, NEW r \in Regions, NEW scripts \in BOOLEAN, Prefetch(r, scripts)
  PROVE LazyInv'
<1> DEFINE l == IF scripts THEN LoadScripts(page, r) ELSE page
<1>1. page' = LoadPack(l, r) /\ waits' = waits
  BY DEF Prefetch
<1>2. BooksInv(l) /\ SameBindings(page, l)
  BY LoadScriptsKeeps DEF LazyInv, SameBindings
<1> HIDE DEF l
<1>3. BooksInv(LoadPack(l, r)) /\ SameBindings(l, LoadPack(l, r))
  BY <1>2, LoadPackKeeps
<1>4. Remembered(LoadPack(l, r), {})
  BY <1>2, <1>3, SameFailures DEF LazyInv, SameBindings
<1> QED BY <1>1, <1>3, <1>4 DEF LazyInv, WaitInv

LEMMA LoadSucceededKeeps ==
  ASSUME LazyInv, NEW w \in waits, LoadSucceeded(w)
  PROVE LazyInv'
<1> DEFINE b == w.b
           h == HostOf[b]
           d == [page EXCEPT !.entry[b] = NoEntry]
           q == IF ~Current(w) THEN page ELSE IF page.attached[b] THEN Toggle(d, b) ELSE d
<1>0. b \in Bindings /\ BooksInv(page) /\ Remembered(page, {h})
  BY DEF LazyInv, WaitInv, Remembered
<1>1. page' = Forget(q, h) /\ waits' = (waits \ {w}) \cup NewWaits(page, q)
  BY DEF LoadSucceeded
<1>2. /\ BooksInv(d) /\ d.ids = page.ids /\ Remembered(d, {h})
      /\ \A c \in Bindings : c # b => d.entry[c] = page.entry[c]
  BY <1>0, EntryDropped
<1> HIDE DEF d
<1>3. BooksInv(Toggle(d, b)) /\ Remembered(Toggle(d, b), {h}) /\ Alone(d, Toggle(d, b), b)
  BY <1>0, <1>2, Toggles
<1>4. BooksInv(q) /\ Remembered(q, {h})
  BY <1>0, <1>2, <1>3
<1>5. \A c \in Bindings : q.ids[c] # page.ids[c] => q.entry[c].id # 0
  BY <1>0, <1>2, <1>3 DEF Alone
<1> HIDE DEF q
<1>6. NewWaits(page, q) \subseteq [b : Bindings, id : Nat \ {0}, pack : Answer, script : Answer]
  BY <1>0, <1>4, <1>5, NewWaitsKeep DEF BooksInv
<1>7. BooksInv(Forget(q, h)) /\ Remembered(Forget(q, h), {})
  BY <1>4, Forgets
<1> QED BY <1>1, <1>6, <1>7 DEF LazyInv, WaitInv

LEMMA LoadFailedKeeps ==
  ASSUME LazyInv, NEW w \in waits, LoadFailed(w)
  PROVE LazyInv'
<1> DEFINE p == page
           b == w.b
           h == HostOf[b]
           e == [p.entry EXCEPT ![b] = [p.entry[b] EXCEPT !.loading = FALSE]]
           q == [p EXCEPT !.entry = e, !.failed = p.failed \cup {h}]
<1>0. b \in Bindings /\ w.id # 0 /\ BooksInv(p) /\ p \in Page /\ Remembered(p, {}) /\ h \in Hosts
  BY HostFacts DEF LazyInv, WaitInv, BooksInv
<1>1. waits' = waits \ {w}
  BY DEF LoadFailed
<1>2. CASE ~Current(w)
  <2>1. page' = page
    BY <1>2 DEF LoadFailed
  <2> QED BY <1>0, <1>1, <2>1 DEF LazyInv, WaitInv
<1>3. CASE Current(w)
  <2>1. page' = q
    BY <1>0, <1>3 DEF LoadFailed, Page
  <2>2. p.entry[b].id = w.id
    BY <1>3 DEF Current
  <2>3. p.entry \in [Bindings -> Entry] /\ p.failed \in SUBSET Hosts
    BY <1>0 DEF Page
  <2>4. /\ e \in [Bindings -> Entry] /\ e[b].id = w.id /\ e[b].loading = FALSE
        /\ \A c \in Bindings : c # b => e[c] = p.entry[c]
    BY <1>0, <2>2, <2>3 DEF Entry
  <2> HIDE DEF e, q, p
  <2>5. q = [p EXCEPT !.entry = e, !.failed = p.failed \cup {h}]
    BY DEF q
  <2>6. q \in Page
    BY <1>0, <2>3, <2>4, <2>5 DEF Page
  <2>7. /\ q.registry = p.registry /\ q.weak = p.weak /\ q.epoch = p.epoch
        /\ q.inventory = p.inventory /\ q.registered = p.registered /\ q.released = p.released
        /\ q.loads = p.loads /\ q.unready = p.unready /\ q.views = p.views /\ q.inst = p.inst
        /\ q.entry = e /\ q.failed = p.failed \cup {h}
    BY <1>0, <2>5 DEF Page
  <2>8. BooksInv(q)
    BY <1>0, <2>6, <2>7, SameBooks
  <2>9. IsFailed(q, b) /\ \A c \in Bindings : c # b => IsFailed(q, c) = IsFailed(p, c)
    BY <1>0, <2>4, <2>7 DEF IsFailed
  <2>10. FailedHosts(q) = FailedHosts(p) \cup {h}
    BY <1>0, <2>9 DEF FailedHosts
  <2>11. Remembered(q, {})
    BY <1>0, <2>7, <2>10 DEF Remembered
  <2> QED BY <1>1, <2>1, <2>8, <2>11 DEF LazyInv, WaitInv
<1> QED BY <1>2, <1>3


\* A load or a script that settles answers the reactions that wait for it.
LEMMA SettlesKeep ==
  ASSUME WaitInv, NEW r, NEW how \in Answer, PackSettles(r, how) \/ ScriptSettles(r, how)
  PROVE WaitInv'
<1> DEFINE W == [b : Bindings, id : Nat \ {0}, pack : Answer, script : Answer]
<1>1. \A w \in W : [w EXCEPT !.pack = how] \in W /\ [w EXCEPT !.script = how] \in W
  OBVIOUS
<1>2. waits \subseteq W
  BY DEF WaitInv
<1> HIDE DEF W
<1>3. CASE PackSettles(r, how)
  BY <1>1, <1>2, <1>3 DEF PackSettles, WaitInv, W
<1>4. CASE ScriptSettles(r, how)
  BY <1>1, <1>2, <1>4 DEF ScriptSettles, WaitInv, W
<1> QED BY <1>3, <1>4

LEMMA LoadEnds ==
  ASSUME LazyInv, NEW r \in Regions, page.loads[r].step # "none",
         page' = [page EXCEPT !.loads[r] = NoLoad]
  PROVE BooksInv(page') /\ Remembered(page', {})
<1> DEFINE p == page
           q == page'
           f == [p.loads EXCEPT ![r] = NoLoad]
<1>0. /\ p \in Page /\ Dated(p) /\ Backed(p) /\ Published(p) /\ Uncollected(p)
      /\ BooksInv(p) /\ Remembered(p, {})
  BY DEF LazyInv, BooksInv
<1>1. p.loads \in [Regions -> Load] /\ NoLoad \in Load /\ p.epoch \in Nat
  BY <1>0 DEF Page, Load, NoLoad
<1>2. q = [p EXCEPT !.loads = f]
  BY <1>0, <1>1 DEF Page
<1>3. f \in [Regions -> Load] /\ f[r] = NoLoad /\ \A s \in Regions : s # r => f[s] = p.loads[s]
  BY <1>1
<1> HIDE DEF f, p, q
<1>4. q \in Page
  BY <1>0, <1>2, <1>3 DEF Page
<1>5. /\ q.registry = p.registry /\ q.weak = p.weak /\ q.epoch = p.epoch
      /\ q.inventory = p.inventory /\ q.registered = p.registered /\ q.released = p.released
      /\ q.loads = f /\ q.unready = p.unready /\ q.views = p.views /\ q.inst = p.inst
      /\ q.entry = p.entry /\ q.failed = p.failed
  BY <1>0, <1>2 DEF Page
<1>6. p.loads[r].step # "none"
  BY DEF p
<1>7. \A s \in Regions : Installing(q, s) => Installing(p, s)
  BY <1>3, <1>5, <1>6 DEF Installing
<1>8. \A s \in Regions : q.loads[s].step = "install" => s # r
  BY <1>3, <1>5 DEF NoLoad
<1>9. \A s \in Regions : q.loads[s].epoch = p.loads[s].epoch \/ q.loads[s].epoch = 0
  BY <1>3, <1>5 DEF NoLoad
<1>10. Dated(q)
  BY <1>0, <1>1, <1>5, <1>9 DEF Dated
<1>11. Backed(q) /\ Uncollected(q)
  BY <1>0, <1>5 DEF Backed, Uncollected
<1>12. Published(q)
  BY <1>0, <1>3, <1>5, <1>7, <1>8 DEF Published
<1>13. Remembered(q, {})
  BY <1>0, <1>5, SameFailures
<1> QED BY <1>4, <1>10, <1>11, <1>12, <1>13 DEF BooksInv, q

LEMMA FetchFailsKeeps ==
  ASSUME LazyInv, NEW r \in Regions, FetchFails(r) \/ InstallFails(r)
  PROVE LazyInv'
<1>1. page' = [page EXCEPT !.loads[r] = NoLoad] /\ page.loads[r].step # "none"
  BY DEF FetchFails, InstallFails
<1>2. BooksInv(page') /\ Remembered(page', {})
  BY <1>1, LoadEnds
<1>3. PackSettles(r, "bad") /\ "bad" \in Answer
  BY DEF FetchFails, InstallFails, Answer
<1>4. WaitInv'
  BY <1>3, SettlesKeep DEF LazyInv
<1> QED BY <1>2, <1>4 DEF LazyInv

LEMMA ScriptKeeps ==
  ASSUME LazyInv, NEW r \in Regions, ScriptDeclares(r) \/ ScriptFails(r)
  PROVE LazyInv'
<1>1. PICK to \in {"declared", "failed"} : page' = [page EXCEPT !.script[r] = to]
  BY DEF ScriptDeclares, ScriptFails
<1> DEFINE p == page
           q == page'
           f == [p.script EXCEPT ![r] = to]
<1>0. p \in Page /\ BooksInv(p) /\ Remembered(p, {})
  BY DEF LazyInv, BooksInv
<1>2. q = [p EXCEPT !.script = f]
  BY <1>0, <1>1 DEF Page
<1>3. f \in [Regions -> {"none", "loading", "declared", "failed"}]
  BY <1>0 DEF Page
<1> HIDE DEF f, p, q
<1>4. q \in Page
  BY <1>0, <1>2, <1>3 DEF Page
<1>5. /\ q.registry = p.registry /\ q.weak = p.weak /\ q.epoch = p.epoch
      /\ q.inventory = p.inventory /\ q.registered = p.registered /\ q.released = p.released
      /\ q.loads = p.loads /\ q.unready = p.unready /\ q.views = p.views /\ q.inst = p.inst
      /\ q.entry = p.entry /\ q.failed = p.failed
  BY <1>0, <1>2 DEF Page
<1>6. BooksInv(q) /\ Remembered(q, {})
  BY <1>0, <1>4, <1>5, SameBooks, SameFailures
<1>7. \E how \in Answer : ScriptSettles(r, how)
  BY DEF ScriptDeclares, ScriptFails, Answer
<1>8. WaitInv'
  BY <1>7, SettlesKeep DEF LazyInv
<1> QED BY <1>6, <1>8 DEF LazyInv, q


LEMMA PublishKeeps ==
  ASSUME LazyInv, NEW r \in Regions, Publish(r)
  PROVE LazyInv'
<1> DEFINE p == Revive(page, r)
           q == page'
           fresh == Fresh(p, r)
           l == [step |-> "install", epoch |-> page.epoch, fresh |-> fresh]
           f == [p.loads EXCEPT ![r] = l]
           u == [p.unready EXCEPT ![r] = fresh]
<1>0. page \in Page /\ BooksInv(page) /\ Remembered(page, {}) /\ page.loads[r].step = "fetch"
      /\ WaitInv /\ waits' = waits
  BY DEF LazyInv, BooksInv, Publish
<1>1. /\ p \in Page /\ p.loads = page.loads /\ p.epoch = page.epoch
      /\ p.entry = page.entry /\ p.failed = page.failed
  BY <1>0, ReviveFields
<1>2. BooksInv(p) /\ r \notin p.released
  BY <1>0, ReviveKeeps
<1>3. q = [p EXCEPT !.registry = p.registry \cup Pack(r), !.weak = p.weak \cup Pack(r),
                    !.unready = u, !.prepared = p.prepared \ fresh, !.loads = f]
  <2> HIDE DEF p
  <2>1. q = [p EXCEPT !.registry = @ \cup Pack(r),
                      !.weak = @ \cup Pack(r),
                      !.unready[r] = fresh,
                      !.prepared = @ \ fresh,
                      !.loads[r] = l]
    BY DEF Publish, p
  <2> QED BY <1>1, <2>1 DEF Page
<1> HIDE DEF p, q
<1>4. Pack(r) \subseteq Templates /\ r \in Pack(r) /\ fresh \in SUBSET Templates
  BY TemplateFacts DEF Fresh
<1>5. l \in Load /\ l.step = "install" /\ l.epoch = p.epoch /\ l.fresh = fresh
  BY <1>0, <1>1, <1>4 DEF Load, Page
<1>6. /\ \A t : t \in fresh <=> /\ t \in Pack(r)
                                /\ t \in p.unready[r] \/ (t \notin p.registry /\ t \notin p.weak)
  BY DEF Fresh
<1> HIDE DEF l, fresh
<1>7. /\ f \in [Regions -> Load] /\ f[r] = l /\ \A s \in Regions : s # r => f[s] = p.loads[s]
  BY <1>1, <1>5 DEF Page
<1>8. /\ u \in [Regions -> (SUBSET Templates) \cup {Clean}] /\ u[r] = fresh
      /\ \A s \in Regions : s # r => u[s] = p.unready[s]
  BY <1>1, <1>4 DEF Page
<1> HIDE DEF f, u
<1>9. q \in Page
  <2>1. /\ p.registry \cup Pack(r) \in SUBSET Templates /\ p.weak \cup Pack(r) \in SUBSET Templates
        /\ p.prepared \ fresh \in SUBSET Templates
    BY <1>1, <1>4 DEF Page
  <2> QED BY <1>1, <1>3, <1>7, <1>8, <2>1 DEF Page
<1>10. /\ q.registry = p.registry \cup Pack(r) /\ q.weak = p.weak \cup Pack(r)
       /\ q.epoch = p.epoch /\ q.inventory = p.inventory /\ q.registered = p.registered
       /\ q.released = p.released /\ q.loads = f /\ q.unready = u /\ q.views = p.views
       /\ q.inst = p.inst /\ q.entry = p.entry /\ q.failed = p.failed
  BY <1>1, <1>3 DEF Page
<1>11. Dated(p) /\ Backed(p) /\ Published(p) /\ Uncollected(p) /\ p.epoch \in Nat
  BY <1>1, <1>2 DEF BooksInv, Page
<1>12. Dated(q)
  <2>1. \A s \in Regions : q.loads[s].epoch <= q.epoch
    BY <1>5, <1>7, <1>10, <1>11 DEF Dated
  <2> QED BY <1>10, <1>11, <2>1 DEF Dated
<1>13. Backed(q)
  BY <1>10, <1>11 DEF Backed
<1>14. Installing(p, r) /\ \A s \in Regions : s # r => Installing(q, s) = Installing(p, s)
  BY <1>0, <1>1, <1>7, <1>8, <1>10 DEF Installing
<1>15. Published(q)
  BY <1>2, <1>5, <1>7, <1>8, <1>10, <1>11, <1>14 DEF Published
<1>16. ASSUME p.epoch = 0, NEW s \in Regions
       PROVE /\ s \in q.weak => s \in q.registry \cup q.released
             /\ s \in q.registry => q.registered[s] = 0 \/ s \in q.unready[s]
  <2>1. CASE s # r
    <3>1. s \notin Pack(r)
      BY <2>1, TemplateFacts
    <3> QED BY <1>8, <1>10, <1>11, <1>16, <2>1, <3>1 DEF Uncollected
  <2>2. CASE s = r
    BY <1>2, <1>4, <1>6, <1>8, <1>10, <1>11, <1>16, <2>2 DEF Uncollected
  <2> QED BY <2>1, <2>2
<1>17. Uncollected(q)
  BY <1>10, <1>11, <1>16 DEF Uncollected
<1>18. Remembered(q, {})
  BY <1>0, <1>1, <1>10, SameFailures
<1> QED BY <1>0, <1>9, <1>12, <1>13, <1>15, <1>17, <1>18 DEF LazyInv, BooksInv, WaitInv, q

LEMMA InstallKeeps ==
  ASSUME LazyInv, NEW r \in Regions, Install(r)
  PROVE LazyInv'
<1> DEFINE p == page
           q == page'
           load == p.loads[r]
           g == [p.registered EXCEPT ![r] = IF r \in load.fresh THEN load.epoch ELSE @]
           f == [p.loads EXCEPT ![r] = NoLoad]
           u == [p.unready EXCEPT ![r] = Clean]
           i == Merged(p, r)
<1>0. /\ p \in Page /\ Dated(p) /\ Backed(p) /\ Published(p) /\ Uncollected(p)
      /\ Remembered(p, {}) /\ load.step = "install"
  BY DEF LazyInv, BooksInv, Install
<1>1. load \in Load /\ NoLoad \in Load /\ p.epoch \in Nat /\ load.epoch \in Nat
      /\ load.fresh \in SUBSET Templates
  BY <1>0 DEF Page, Load, NoLoad
<1>2. q = [p EXCEPT !.registered = g, !.inventory = i, !.unready = u,
                    !.prepared = p.prepared \cup load.fresh, !.loads = f]
  BY <1>0 DEF Install, Page
<1>3. /\ p.unready[r] = load.fresh /\ load.epoch <= p.epoch
      /\ load.epoch = p.epoch => Pack(r) \subseteq p.registry
  BY <1>0 DEF Dated, Published
<1>4. i \subseteq p.registry /\ i \in SUBSET Templates
  BY <1>0, <1>3 DEF Merged, Backed, Page
<1>5. /\ g \in [Regions -> Int] /\ g[r] = (IF r \in load.fresh THEN load.epoch ELSE p.registered[r])
      /\ \A s \in Regions : s # r => g[s] = p.registered[s]
  BY <1>0, <1>1 DEF Page
<1>6. /\ f \in [Regions -> Load] /\ f[r] = NoLoad /\ \A s \in Regions : s # r => f[s] = p.loads[s]
  BY <1>0, <1>1 DEF Page
<1>7. /\ u \in [Regions -> (SUBSET Templates) \cup {Clean}] /\ u[r] = Clean
      /\ \A s \in Regions : s # r => u[s] = p.unready[s]
  BY <1>0 DEF Page
<1> HIDE DEF f, g, u, i, p, q, load
<1>8. q \in Page
  <2>1. p.prepared \cup load.fresh \in SUBSET Templates
    BY <1>0, <1>1 DEF Page
  <2> QED BY <1>0, <1>2, <1>4, <1>5, <1>6, <1>7, <2>1 DEF Page
<1>9. /\ q.registry = p.registry /\ q.weak = p.weak /\ q.epoch = p.epoch
      /\ q.inventory = i /\ q.registered = g /\ q.released = p.released
      /\ q.loads = f /\ q.unready = u /\ q.views = p.views /\ q.inst = p.inst
      /\ q.entry = p.entry /\ q.failed = p.failed
  BY <1>0, <1>2 DEF Page
<1>10. r \in Pack(r)
  BY TemplateFacts
<1>11. Dated(q)
  <2>1. ASSUME NEW s \in Regions
        PROVE /\ g[s] <= p.epoch /\ f[s].epoch <= p.epoch
              /\ g[s] = p.epoch => s \in p.registry
    <3>1. CASE s = r
      BY <1>0, <1>1, <1>3, <1>5, <1>6, <1>10, <3>1 DEF Dated, NoLoad
    <3>2. CASE s # r
      BY <1>0, <1>5, <1>6, <3>2 DEF Dated
    <3> QED BY <3>1, <3>2
  <2> QED BY <1>9, <2>1 DEF Dated
<1>12. Backed(q)
  BY <1>0, <1>4, <1>9 DEF Backed
<1>13. ~Installing(q, r) /\ \A s \in Regions : s # r => Installing(q, s) = Installing(p, s)
  BY <1>6, <1>7, <1>9 DEF Installing, NoLoad
<1>14. Published(q)
  <2>1. ASSUME NEW s \in Regions
        PROVE /\ q.loads[s].step = "install" =>
                   /\ q.unready[s] = q.loads[s].fresh
                   /\ q.loads[s].epoch = q.epoch => Pack(s) \subseteq q.registry
              /\ Installing(q, s) /\ q.registered[s] = q.epoch => q.views[s] = {}
              /\ s \in q.released => q.views[s] = {}
    <3>1. CASE s = r
      BY <1>0, <1>6, <1>9, <1>13, <3>1 DEF Published, NoLoad
    <3>2. CASE s # r
      BY <1>0, <1>5, <1>6, <1>7, <1>9, <1>13, <3>2 DEF Published
    <3> QED BY <3>1, <3>2
  <2> QED BY <2>1 DEF Published
<1>15. ASSUME p.epoch = 0, NEW s \in Regions
       PROVE /\ s \in q.weak => s \in q.registry \cup q.released
             /\ s \in q.registry => q.registered[s] = 0 \/ s \in q.unready[s]
  <2>1. CASE s # r
    BY <1>0, <1>5, <1>7, <1>9, <1>15, <2>1 DEF Uncollected
  <2>2. CASE s = r
    <3>1. load.epoch = 0
      BY <1>1, <1>3, <1>15
    <3> QED BY <1>0, <1>3, <1>5, <1>9, <1>15, <2>2, <3>1 DEF Uncollected
  <2> QED BY <2>1, <2>2
<1>16. Uncollected(q)
  BY <1>0, <1>9, <1>15 DEF Uncollected
<1>17. Remembered(q, {})
  BY <1>0, <1>9, SameFailures
<1>18. PackSettles(r, "ok") /\ "ok" \in Answer
  BY DEF Install, Answer
<1>19. WaitInv'
  BY <1>18, SettlesKeep DEF LazyInv
<1> QED BY <1>8, <1>11, <1>12, <1>14, <1>16, <1>17, <1>19 DEF LazyInv, BooksInv, q


LEMMA ReleaseKeeps ==
  ASSUME LazyInv, ReleaseInactive
  PROVE LazyInv'
<1> DEFINE p == page
           q == page'
           closed == {r \in Regions : p.views[r] # {} /\ Shown(p, r) = {}}
           dropped == {r \in closed : r \in p.registry /\ p.registered[r] = p.epoch}
           v == [r \in Regions |-> Shown(p, r)]
           g == [r \in Regions |-> IF r \in closed THEN Never ELSE p.registered[r]]
<1>0. /\ p \in Page /\ Dated(p) /\ Backed(p) /\ Published(p) /\ Uncollected(p)
      /\ Remembered(p, {}) /\ WaitInv /\ waits' = waits
  BY DEF LazyInv, BooksInv, ReleaseInactive
<1>1. q = [p EXCEPT !.releasing = FALSE, !.views = v, !.registered = g,
                    !.registry = p.registry \ dropped, !.inventory = p.inventory \ dropped,
                    !.released = p.released \cup dropped]
  BY <1>0 DEF ReleaseInactive, Page
<1>2. p.epoch \in Nat /\ p.views \in [Regions -> SUBSET Bindings] /\ p.registered \in [Regions -> Int]
  BY <1>0 DEF Page
<1>3. /\ closed \subseteq Regions
      /\ \A r \in Regions : r \in closed <=> p.views[r] # {} /\ Shown(p, r) = {}
  OBVIOUS
<1>4. /\ dropped \subseteq closed
      /\ \A r \in closed : r \in dropped <=> r \in p.registry /\ p.registered[r] = p.epoch
  OBVIOUS
<1> HIDE DEF closed, dropped
<1>5. v \in [Regions -> SUBSET Bindings] /\ \A r \in Regions : v[r] = Shown(p, r)
  BY <1>2 DEF Shown
<1>6. /\ g \in [Regions -> Int]
      /\ \A r \in Regions : g[r] = IF r \in closed THEN Never ELSE p.registered[r]
  BY <1>2 DEF Never
<1>7. \A r \in Regions : /\ Shown(p, r) \subseteq p.views[r]
                         /\ \A b \in p.views[r] : p.inst[b] => b \in Shown(p, r)
  BY DEF Shown
<1> HIDE DEF v, g, p, q
<1>8. q \in Page
  <2>1. /\ p.registry \ dropped \in SUBSET Templates /\ p.inventory \ dropped \in SUBSET Templates
        /\ p.released \cup dropped \in SUBSET Regions
    BY <1>0, <1>3, <1>4 DEF Page
  <2> QED BY <1>0, <1>1, <1>5, <1>6, <2>1 DEF Page
<1>9. /\ q.registry = p.registry \ dropped /\ q.weak = p.weak /\ q.epoch = p.epoch
      /\ q.inventory = p.inventory \ dropped /\ q.registered = g
      /\ q.released = p.released \cup dropped
      /\ q.loads = p.loads /\ q.unready = p.unready /\ q.views = v /\ q.inst = p.inst
      /\ q.entry = p.entry /\ q.failed = p.failed
  BY <1>0, <1>1 DEF Page
<1>10. Never \in Int /\ Never < 0
  BY DEF Never
<1>11. \A r \in Regions : g[r] = p.epoch => r \notin closed /\ p.registered[r] = p.epoch
  BY <1>2, <1>6, <1>10
<1>12. Dated(q)
  <2>1. ASSUME NEW r \in Regions
        PROVE g[r] <= p.epoch /\ p.loads[r].epoch <= p.epoch
              /\ (g[r] = p.epoch => r \in p.registry /\ r \notin dropped)
    BY <1>0, <1>2, <1>4, <1>6, <1>10, <1>11 DEF Dated
  <2> QED BY <1>9, <2>1 DEF Dated
<1>13. Backed(q)
  BY <1>0, <1>9 DEF Backed
<1>14. \A r : Installing(q, r) = Installing(p, r)
  BY <1>9 DEF Installing
<1>15. Published(q)
  <2>1. ASSUME NEW r \in Regions
        PROVE /\ Installing(q, r) /\ q.registered[r] = q.epoch => q.views[r] = {}
              /\ r \in q.released => q.views[r] = {}
    <3>1. CASE Installing(q, r) /\ q.registered[r] = q.epoch
      BY <1>0, <1>5, <1>7, <1>9, <1>11, <1>14, <3>1 DEF Published
    <3>2. CASE r \in p.released
      BY <1>0, <1>5, <1>7, <1>9, <3>2 DEF Published
    <3>3. CASE r \in dropped
      BY <1>3, <1>4, <1>5, <1>9, <3>3
    <3> QED BY <1>9, <3>1, <3>2, <3>3
  <2>2. ASSUME NEW r \in Regions, p.loads[r].step = "install", p.loads[r].epoch = p.epoch
        PROVE Pack(r) \subseteq p.registry \ dropped
    <3>1. Pack(r) \subseteq p.registry /\ Installing(p, r)
      BY <1>0, <2>2 DEF Published, Installing
    <3>2. r \notin dropped
      BY <1>0, <1>3, <1>4, <3>1 DEF Published
    <3>3. \A s \in dropped : s # r => s \notin Pack(r)
      BY <1>3, <1>4, TemplateFacts
    <3> QED BY <3>1, <3>2, <3>3
  <2> QED BY <1>0, <1>9, <2>1, <2>2 DEF Published
<1>16. ASSUME p.epoch = 0, NEW r \in Regions
       PROVE /\ r \in q.weak => r \in q.registry \cup q.released
             /\ r \in q.registry => q.registered[r] = 0 \/ r \in q.unready[r]
  BY <1>0, <1>3, <1>4, <1>6, <1>9, <1>16 DEF Uncollected
<1>17. ASSUME p.epoch = 0, NEW b \in Bindings, p.inst[b]
       PROVE RegionOf[b] \in q.registry /\ b \in q.views[RegionOf[b]]
  <2>1. RegionOf[b] \in Regions /\ RegionOf[b] \in p.registry /\ b \in p.views[RegionOf[b]]
    BY <1>0, <1>17, HostFacts DEF Uncollected
  <2>2. b \in Shown(p, RegionOf[b])
    BY <1>7, <1>17, <2>1
  <2>3. RegionOf[b] \notin dropped
    BY <1>3, <1>4, <2>1, <2>2
  <2> QED BY <1>5, <1>9, <2>1, <2>2, <2>3
<1>18. Uncollected(q)
  BY <1>9, <1>16, <1>17 DEF Uncollected
<1>19. Remembered(q, {})
  BY <1>0, <1>9, SameFailures
<1> QED BY <1>0, <1>8, <1>12, <1>13, <1>15, <1>18, <1>19 DEF LazyInv, BooksInv, WaitInv, q

LEMMA CollectKeeps ==
  ASSUME LazyInv, CollectTemplates
  PROVE LazyInv'
<1> DEFINE p == page
           q == page'
<1>0. /\ p \in Page /\ Dated(p) /\ Backed(p) /\ Published(p)
      /\ Remembered(p, {}) /\ WaitInv /\ waits' = waits
  BY DEF LazyInv, BooksInv, CollectTemplates
<1>1. q = [p EXCEPT !.registry = {}, !.inventory = {}, !.epoch = p.epoch + 1]
  BY DEF CollectTemplates
<1>2. /\ p.epoch \in Nat /\ p.registered \in [Regions -> Int] /\ p.loads \in [Regions -> Load]
  BY <1>0 DEF Page
<1> HIDE DEF p, q
<1>3. q \in Page
  <2>1. p.epoch + 1 \in Nat
    BY <1>2
  <2> QED BY <1>0, <1>1, <2>1 DEF Page
<1>4. /\ q.registry = {} /\ q.weak = p.weak /\ q.epoch = p.epoch + 1
      /\ q.inventory = {} /\ q.registered = p.registered /\ q.released = p.released
      /\ q.loads = p.loads /\ q.unready = p.unready /\ q.views = p.views /\ q.inst = p.inst
      /\ q.entry = p.entry /\ q.failed = p.failed
  BY <1>0, <1>1 DEF Page
<1>5. \A r \in Regions : p.loads[r].epoch \in Nat
  BY <1>2 DEF Load
<1>6. \A r \in Regions : /\ q.registered[r] < q.epoch /\ q.loads[r].epoch < q.epoch
                         /\ q.registered[r] # q.epoch /\ q.loads[r].epoch # q.epoch
  BY <1>0, <1>2, <1>4, <1>5 DEF Dated
<1>7. \A r \in Regions : q.registered[r] <= q.epoch /\ q.loads[r].epoch <= q.epoch
  BY <1>2, <1>4, <1>5, <1>6
<1>8. Dated(q) /\ Backed(q)
  BY <1>4, <1>6, <1>7 DEF Dated, Backed
<1>9. Published(q)
  BY <1>0, <1>4, <1>6 DEF Published
<1>10. Uncollected(q)
  <2>1. q.epoch # 0
    BY <1>2, <1>4
  <2> QED BY <2>1 DEF Uncollected
<1>11. Remembered(q, {})
  BY <1>0, <1>4, SameFailures
<1> QED BY <1>0, <1>3, <1>8, <1>9, <1>10, <1>11 DEF LazyInv, BooksInv, WaitInv, q

LEMMA GarbageKeeps ==
  ASSUME LazyInv, NEW t \in Templates, GarbageCollect(t)
  PROVE LazyInv'
<1> DEFINE p == page
           q == page'
<1>0. /\ p \in Page /\ Dated(p) /\ Backed(p) /\ Published(p) /\ Uncollected(p)
      /\ Remembered(p, {}) /\ WaitInv /\ waits' = waits /\ t \notin p.registry
  BY DEF LazyInv, BooksInv, GarbageCollect
<1>1. q = [p EXCEPT !.weak = p.weak \ {t}]
  BY DEF GarbageCollect
<1> HIDE DEF p, q
<1>2. q \in Page
  BY <1>0, <1>1 DEF Page
<1>3. /\ q.registry = p.registry /\ q.weak = p.weak \ {t} /\ q.epoch = p.epoch
      /\ q.inventory = p.inventory /\ q.registered = p.registered /\ q.released = p.released
      /\ q.loads = p.loads /\ q.unready = p.unready /\ q.views = p.views /\ q.inst = p.inst
      /\ q.entry = p.entry /\ q.failed = p.failed
  BY <1>0, <1>1 DEF Page
<1>4. \A r : Installing(q, r) = Installing(p, r)
  BY <1>3 DEF Installing
<1>5. Dated(q) /\ Backed(q) /\ Uncollected(q)
  BY <1>0, <1>3 DEF Dated, Backed, Uncollected
<1>6. Published(q)
  BY <1>0, <1>3, <1>4 DEF Published
<1>7. Remembered(q, {})
  BY <1>0, <1>3, SameFailures
<1> QED BY <1>0, <1>2, <1>5, <1>6, <1>7 DEF LazyInv, BooksInv, WaitInv, q

-----------------------------------------------------------------------------
(* The theorem *)

LEMMA LazyStarts == LazyInit => LazyInv
<1> SUFFICES ASSUME LazyInit PROVE LazyInv
  OBVIOUS
<1>1. /\ page.registry = {} /\ page.weak = {} /\ page.epoch = 0 /\ page.inventory = {}
      /\ page.registered = [r \in Regions |-> Never] /\ page.released = {}
      /\ page.loads = [r \in Regions |-> NoLoad] /\ page.unready = [r \in Regions |-> Clean]
      /\ page.entry = [b \in Bindings |-> NoEntry] /\ page.failed = {}
      /\ page.views = [r \in Regions |-> {}] /\ page.inst = [b \in Bindings |-> FALSE]
  BY DEF LazyInit
<1>2. NoLoad \in Load /\ NoEntry \in Entry /\ Never \in Int /\ Never < 0
  BY DEF NoLoad, Load, NoEntry, Entry, Never
<1>3. page \in Page
  BY <1>2 DEF LazyInit, Page
<1>4. Dated(page)
  BY <1>1, <1>2 DEF Dated, NoLoad
<1>5. Backed(page) /\ Published(page) /\ Uncollected(page)
  BY <1>1 DEF Backed, Published, Uncollected, NoLoad
<1>6. Remembered(page, {})
  BY <1>1 DEF Remembered, FailedHosts, IsFailed, NoEntry
<1>7. WaitInv
  BY DEF LazyInit, WaitInv
<1> QED BY <1>3, <1>4, <1>5, <1>6, <1>7 DEF LazyInv, BooksInv

LEMMA LazySteps == LazyInv /\ [LazyNext]_lazyVars => LazyInv'
<1> SUFFICES ASSUME LazyInv, [LazyNext]_lazyVars PROVE LazyInv'
  OBVIOUS
<1>1. ASSUME NEW b \in Bindings, NEW on \in BOOLEAN, Render(b, on) PROVE LazyInv'
  BY <1>1, RenderKeeps
<1>2. ASSUME NEW b \in Bindings, Dispose(b) PROVE LazyInv'
  BY <1>2, DisposeKeeps
<1>3. ASSUME NEW r \in Regions, NEW scripts \in BOOLEAN, Prefetch(r, scripts) PROVE LazyInv'
  BY <1>3, PrefetchKeeps
<1>4. ASSUME NEW h \in Hosts, Retry(h) PROVE LazyInv'
  BY <1>4, RetryKeeps
<1>5. CASE React
  BY <1>5, LoadSucceededKeeps, LoadFailedKeeps DEF React
<1>6. ASSUME NEW r \in Regions, Settle(r) PROVE LazyInv'
  BY <1>6, FetchFailsKeeps, PublishKeeps, InstallKeeps, ScriptKeeps DEF Settle
<1>7. CASE ReleaseInactive
  BY <1>7, ReleaseKeeps
<1>8. CASE CollectTemplates
  BY <1>8, CollectKeeps
<1>9. ASSUME NEW t \in Templates, GarbageCollect(t) PROVE LazyInv'
  BY <1>9, GarbageKeeps
<1>10. CASE UNCHANGED lazyVars
  BY <1>10 DEF lazyVars, LazyInv, WaitInv
<1> QED BY <1>1, <1>2, <1>3, <1>4, <1>5, <1>6, <1>7, <1>8, <1>9, <1>10 DEF LazyNext

LEMMA LazyMeans == LazyInv => BooksHonest
<1> SUFFICES ASSUME LazyInv PROVE BooksHonest
  OBVIOUS
<1>1. InventoryHonest
  BY DEF LazyInv, BooksInv, Backed, Uncollected, InventoryHonest
<1>2. FailuresExact
  BY DEF LazyInv, Remembered, FailedHosts, FailuresExact
<1> QED BY <1>1, <1>2 DEF BooksHonest

(* Whatever loads, retries, releases and collections interleave, the        *)
(* inventory the page sends names only templates it holds, a region on show *)
(* leaves the registry only through a collection, and a host is remembered  *)
(* as failed exactly while one of its regions is (install, revive,          *)
(* releaseInactive, rememberFailure, forgetFailureIfRetried).               *)
THEOREM BooksStayHonest == LazySpec => []BooksHonest
BY LazyStarts, LazySteps, LazyMeans, PTL DEF LazySpec

=============================================================================

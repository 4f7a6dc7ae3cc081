-------------------------- MODULE StreamingSession --------------------------
(***************************************************************************)
(* One streaming response of the render handler: the session a host drives *)
(* with start, resume, advance and update                                   *)
(* (crates/webui-handler/src/streaming/session.rs), the continuation that   *)
(* walks the compiled template between those calls (vm.rs) and the records  *)
(* it writes for the page (checkpoint.rs).                                  *)
(*                                                                          *)
(* The template is abstracted to the constructs that end in a record or     *)
(* change what a record says: a component host that contains a boundary    *)
(* ("open" ... "close", a span), a boundary ("bound") and the end of the    *)
(* body ("end").  Which of them a request renders depends on its state, so  *)
(* the program is chosen among Programs.  HTML between records, templates,  *)
(* styles, inventories and the route chain are left out.  A host call is    *)
(* one synchronous call: `call` says which goal the continuation walks to,  *)
(* and each construct is one step of that walk, because a writer failure    *)
(* may end it after any of them.  Calls the guards reject return an error   *)
(* before a byte is written and change nothing, so they are no actions.     *)
(*                                                                          *)
(* A record keeps three fields that are not in its payload: `want`, the     *)
(* projection of the frozen state its range was rendered with, and `name`   *)
(* and `path`, the range and the hosts its markers stand in.                *)
(***************************************************************************)
EXTENDS Integers, Sequences, FiniteSets, SequencesExt

CONSTANTS
    Programs,         \* the renderings to check: sequences of constructs
    Keys,             \* the keys of the application state
    Vals,             \* their values
    Given,            \* bound: the states and patches a host gives
    MaxOccurrences,   \* MAX_BOUNDARY_OCCURRENCES, 512 in the code
    MaxUpdatable,     \* MAX_UPDATABLE_OCCURRENCES, 128 in the code
    MaxNesting,       \* MAX_SPAN_NESTING, 32 in the code
    MaxUpdates,       \* bound: updates the host sends in one response
    MaxChanges        \* bound: resumes of one response that bring new state

(* The limits are positive.                                                 *)
ASSUME SessionAssumption ==
    /\ {MaxOccurrences, MaxUpdatable, MaxNesting} \subseteq Nat \ {0}
    /\ {MaxUpdates, MaxChanges} \subseteq Nat
    /\ \A s \in Given : DOMAIN s \subseteq Keys /\ \A k \in DOMAIN s : s[k] \in Vals

VARIABLES
    program,    \* the constructs this request renders
    pc,         \* the construct the continuation stands at
    call,       \* the goal of the host call that is running, or Idle
    session,    \* [started, done, failed, awaiting]
    pending,    \* the boundary occurrence the host has yet to resume
    active,     \* the occurrence being rendered and whether it is updatable
    frozen,     \* frozen_state: a function on the keys it has
    revision,   \* state_revision
    last,       \* what the last range record said about the state
    spans,      \* open_spans, innermost last: [id, host]
    nextSpan,   \* next_span_id
    modes,      \* committed_modes with the update plan of each occurrence
    nextSeq,    \* next_record_sequence
    wire        \* the records written so far

serverVars == <<program, pc, call, session, pending, active, frozen, revision,
                last, spans, nextSpan, modes, nextSeq, wire>>

None == -1
Idle == "idle"
NextBoundary == "next"
CommitBoundary == "commit"

(* A state is a function from some of the keys to values.                   *)
Only(s, K) == [k \in DOMAIN s \cap K |-> s[k]]
Over(s, p) == [k \in DOMAIN s \cup DOMAIN p |->
                  IF k \in DOMAIN p THEN p[k] ELSE s[k]]
Empty == [k \in {} |-> None]

Construct == program[pc]
NoSpan == None
CurrentSpan == IF spans = <<>> THEN NoSpan ELSE Last(spans).id

SessionInit ==
    /\ program \in Programs
    /\ pc = 1
    /\ call = Idle
    /\ session = [started |-> FALSE, done |-> FALSE, failed |-> FALSE,
                  awaiting |-> FALSE]
    /\ pending = None
    /\ active = [id |-> None, updatable |-> FALSE]
    /\ frozen = Empty
    /\ revision = 0
    /\ last = [seq |-> None, rev |-> 0, full |-> FALSE, keys |-> {}]
    /\ spans = <<>>
    /\ nextSpan = 0
    /\ modes = <<>>
    /\ nextSeq = 0
    /\ wire = <<>>

-----------------------------------------------------------------------------
(* The host's calls.                                                        *)

Usable == session.started /\ ~session.failed /\ ~session.done /\ call = Idle

(* start: the state is frozen and the continuation walks to the first       *)
(* boundary.                                                                *)
Start(state) ==
    /\ ~session.started
    /\ session' = [session EXCEPT !.started = TRUE]
    /\ frozen' = state
    /\ call' = NextBoundary
    /\ UNCHANGED <<program, pc, pending, active, revision, last, spans, nextSpan,
                   modes, nextSeq, wire>>

Updatables == Cardinality({i \in DOMAIN modes : modes[i].updatable})

(* validate_resume_mode.                                                    *)
ResumableAs(updatable) == updatable => Updatables < MaxUpdatable

(* overlay_* and record_state_change: omitted keys keep their value, and    *)
(* the revision moves only if some value did.                               *)
StateChange(state) ==
    /\ frozen' = Over(frozen, state)
    /\ revision' = IF Over(frozen, state) = frozen THEN revision ELSE revision + 1

(* resume, resume_owned and resume_current (which brings no state): the     *)
(* pending occurrence is taken and rendered up to its checkpoint.           *)
Resume(state, updatable) ==
    /\ Usable
    /\ ~session.awaiting
    /\ pending # None
    /\ ResumableAs(updatable)
    /\ StateChange(state)
    /\ active' = [id |-> pending, updatable |-> updatable]
    /\ pending' = None
    /\ call' = CommitBoundary
    /\ UNCHANGED <<program, pc, session, last, spans, nextSpan, modes, nextSeq,
                   wire>>

(* advance: walk past the committed occurrence.                             *)
Advance ==
    /\ Usable
    /\ session.awaiting
    /\ call' = NextBoundary
    /\ UNCHANGED <<program, pc, session, pending, active, frozen, revision, last,
                   spans, nextSpan, modes, nextSeq, wire>>

Record(kind, target, enclosing, ref, state, want, name) ==
    [seq |-> nextSeq, kind |-> kind, target |-> target, enclosing |-> enclosing,
     ref |-> ref, state |-> state, want |-> want, name |-> name, path |-> spans]

(* update: one record for a committed updatable occurrence, projected by    *)
(* the plan its checkpoint left; neither the frozen state nor the state     *)
(* references are touched.                                                  *)
Update(id, patch) ==
    /\ Usable
    /\ id + 1 \in DOMAIN modes
    /\ modes[id + 1].updatable
    /\ LET sent == Only(patch, modes[id + 1].keys)
       IN  wire' = Append(wire, Record("update", id, NoSpan, None, sent, sent, None))
    /\ nextSeq' = nextSeq + 1
    /\ UNCHANGED <<program, pc, call, session, pending, active, frozen, revision,
                   last, spans, nextSpan, modes>>

-----------------------------------------------------------------------------
(* emit_streaming_range_record: what the record says about the state.       *)

(* can_reference and the subset test: the state has not changed since the   *)
(* last range record, and everything that record carried is wanted again.   *)
Reference(c) ==
    /\ last.seq # None
    /\ frozen # Empty
    /\ last.rev = revision
    /\ last.full \/ last.keys # {}
    /\ IF c.full THEN TRUE ELSE ~last.full /\ last.keys \subseteq c.keys

Wanted(c) == IF c.full THEN frozen ELSE Only(frozen, c.keys)

(* StateDelta: Empty, Keys or FullExceptLast.                               *)
Delta(c) ==
    IF c.full
    THEN IF last.full THEN Empty ELSE Only(frozen, Keys \ last.keys)
    ELSE Only(frozen, c.keys \ last.keys)

RangeRecord(kind, target, enclosing, c) ==
    IF Reference(c)
    THEN Record(kind, target, enclosing, last.seq, Delta(c), Wanted(c), c.name)
    ELSE Record(kind, target, enclosing, None, Wanted(c), Wanted(c), c.name)

EmitRange(kind, target, enclosing, c) ==
    /\ wire' = Append(wire, RangeRecord(kind, target, enclosing, c))
    /\ nextSeq' = nextSeq + 1
    /\ last' = [seq |-> nextSeq, rev |-> revision, full |-> c.full,
                keys |-> IF c.full THEN {} ELSE c.keys]

-----------------------------------------------------------------------------
(* The continuation's steps, while a call is running.                       *)

(* open_span: the host element gets the next span id.                       *)
OpenSpan ==
    /\ call = NextBoundary
    /\ Construct.op = "open"
    /\ Len(spans) < MaxNesting
    /\ spans' = Append(spans, [id |-> nextSpan, host |-> Construct.name])
    /\ nextSpan' = nextSpan + 1
    /\ pc' = pc + 1
    /\ UNCHANGED <<program, call, session, pending, active, frozen, revision, last,
                   modes, nextSeq, wire>>

(* finish_span: the innermost host closes with its completion record.       *)
CloseSpan ==
    /\ call = NextBoundary
    /\ Construct.op = "close"
    /\ EmitRange("span", Last(spans).id, NoSpan, Construct)
    /\ spans' = Front(spans)
    /\ pc' = pc + 1
    /\ UNCHANGED <<program, call, session, pending, active, frozen, revision,
                   nextSpan, modes>>

(* discover_boundary: the call returns with the occurrence to resume.       *)
DiscoverBoundary ==
    /\ call = NextBoundary
    /\ Construct.op = "bound"
    /\ Len(modes) < MaxOccurrences
    /\ pending' = Len(modes)
    /\ session' = [session EXCEPT !.awaiting = FALSE]
    /\ call' = Idle
    /\ UNCHANGED <<program, pc, active, frozen, revision, last, spans, nextSpan,
                   modes, nextSeq, wire>>

(* finish_boundary: the body of the resumed occurrence ends with its        *)
(* checkpoint, which ends the call.                                         *)
FinishBoundary ==
    /\ call = CommitBoundary
    /\ EmitRange(IF active.updatable THEN "updatable" ELSE "final", active.id,
                 CurrentSpan, Construct)
    /\ modes' = Append(modes, [updatable |-> active.updatable,
                               keys |-> IF Construct.full THEN Keys ELSE Construct.keys])
    /\ active' = [id |-> None, updatable |-> FALSE]
    /\ session' = [session EXCEPT !.awaiting = TRUE]
    /\ call' = Idle
    /\ pc' = pc + 1
    /\ UNCHANGED <<program, pending, frozen, revision, spans, nextSpan>>

(* body_end writes the terminal record; the walk then has nothing left.     *)
EndBody ==
    /\ call = NextBoundary
    /\ Construct.op = "end"
    /\ spans = <<>>
    /\ wire' = Append(wire, Record("terminal", 0, NoSpan, None, Empty, Empty, None))
    /\ nextSeq' = nextSeq + 1
    /\ session' = [session EXCEPT !.done = TRUE, !.awaiting = FALSE]
    /\ call' = Idle
    /\ UNCHANGED <<program, pc, pending, active, frozen, revision, last, spans,
                   nextSpan, modes>>

(* A limit, a malformed template or a writer that fails ends a call and     *)
(* poisons the session; a host that gives up drops it.  What was written    *)
(* stays written.                                                           *)
Fail ==
    /\ session.started /\ ~session.done /\ ~session.failed
    /\ call' = Idle
    /\ session' = [session EXCEPT !.failed = TRUE]
    /\ UNCHANGED <<program, pc, pending, active, frozen, revision, last, spans,
                   nextSpan, modes, nextSeq, wire>>

Updates == Cardinality({i \in DOMAIN wire : wire[i].kind = "update"})

SessionStep ==
    \/ \E s \in Given \cup {Empty} : Start(s)
    \/ \E s \in Given, u \in BOOLEAN : revision < MaxChanges /\ Resume(s, u)
    \/ \E u \in BOOLEAN : Resume(Empty, u)
    \/ Advance
    \/ \E id \in 0..(MaxOccurrences - 1), p \in Given :
          Updates < MaxUpdates /\ Update(id, p)
    \/ OpenSpan
    \/ CloseSpan
    \/ DiscoverBoundary
    \/ FinishBoundary
    \/ EndBody
    \/ Fail

-----------------------------------------------------------------------------
(* The range records of the response.                                       *)
RangeKinds == {"final", "updatable", "span"}
Ranges == {i \in DOMAIN wire : wire[i].kind \in RangeKinds}
=============================================================================

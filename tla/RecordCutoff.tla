---------------------------- MODULE RecordCutoff ----------------------------
(***************************************************************************)
(* How a recording is cut.  The sweep publishes sample_end at some instant *)
(* (the cutoff); the supervisor notices it later, freezes both stores with *)
(* that instant, stops the framework and the services, and turns the lane  *)
(* logs into closed ledgers and tails (llm_store.py in record mode,        *)
(* lane_record.py, supervisor.run, cutoff.py, bundle.py).  The framework   *)
(* keeps running until it is stopped: everything below races the freeze.   *)
(*                                                                         *)
(* An LLM attempt is open from `_record' to `_write_attempt', across the   *)
(* engine's stream and the wait for its capture audit.  A native operation *)
(* is a pair of events in the log of its lane, or, when the OpenCode       *)
(* plugin makes it (Posted), a reservation at the boundary service.  A     *)
(* dispatch and its tool are one operation here: they start and end        *)
(* together but for the instants between the two calls.                    *)
(***************************************************************************)
EXTENDS Integers, Sequences, FiniteSets

CONSTANTS
    Attempts,
    Streamed,      \* attempts whose response is an event stream
    Ops,
    Posted,        \* operations made by the OpenCode plugin
    Composite,     \* its "task" operations, which own child sessions
    Trigger,       \* [Ops -> Attempts]: the attempt that asks for the operation
    Calls,         \* the sequence of Ops in the order the responses name them
    Parent,        \* [Attempts or Ops -> the task its session is inside, or NoParent]
    NoParent,
    After,         \* [Attempts -> SUBSET Ops]: answers a request follows
    Captures,      \* the engine audits what it sampled (--force recordings)
    MaxClock       \* bound of the clock

ASSUME CutoffAssumption ==
    /\ Streamed \subseteq Attempts
    /\ Composite \subseteq Posted
    /\ Posted \subseteq Ops
    /\ Trigger \in [Ops -> Attempts]
    /\ \A o \in Ops : Parent[o] = Parent[Trigger[o]]
    /\ NoParent \notin Ops
    /\ Parent \in [Attempts \cup Ops -> Composite \cup {NoParent}]
    /\ Calls \in Seq(Ops) /\ Ops = {Calls[i] : i \in DOMAIN Calls}
    /\ After \in [Attempts -> SUBSET Ops]
    /\ Captures \in BOOLEAN
    /\ MaxClock \in Nat

Never == MaxClock + 1
Time  == 0..MaxClock

VARIABLES
    clock,
    begun, ended,   \* [Attempts -> Time or Never]
    inflight,       \* LLMStore._inflight
    capturing,      \* attempts awaiting their capture audit
    indexed,        \* attempts whose tool calls the framework may have read
    llmLog,         \* llm.jsonl
    llmTails,       \* what the LLM freeze returned
    opStart, opEnd, \* [Ops -> Time or Never]: instants the framework observed
    reported,       \* operations whose end reached the lane log or the boundary
    posted,         \* posted operations the boundary put in its ledger
    boundaryTails,  \* what the boundary freeze returned
    cutoff,         \* the sweep's sample_end instant
    frozenAt,       \* source_cutoff_at_ns of both stores
    pc,             \* "running", "frozen", "stopped" or "aborted"
    failed          \* an LLM handler raised: the hard failure

attemptVars == <<begun, ended, inflight, capturing, indexed, llmLog>>
opVars      == <<opStart, opEnd, reported, posted>>
windowVars  == <<cutoff, frozenAt, pc, llmTails, boundaryTails>>
vars == <<clock, attemptVars, opVars, windowVars, failed>>

Init ==
    /\ clock = 0
    /\ begun = [a \in Attempts |-> Never]
    /\ ended = [a \in Attempts |-> Never]
    /\ inflight = {} /\ capturing = {} /\ indexed = {}
    /\ llmLog = {} /\ llmTails = {} /\ boundaryTails = {}
    /\ opStart = [o \in Ops |-> Never]
    /\ opEnd = [o \in Ops |-> Never]
    /\ reported = {} /\ posted = {}
    /\ cutoff = Never /\ frozenAt = Never
    /\ pc = "running"
    /\ failed = FALSE

Alive == pc \in {"running", "frozen"}

-----------------------------------------------------------------------------
(* LLM attempts *)

BeginAttempt(a) ==
    /\ Alive
    /\ begun[a] = Never
    /\ After[a] \subseteq reported
    /\ Parent[a] # NoParent => opStart[Parent[a]] # Never /\ opEnd[Parent[a]] = Never
    /\ begun' = [begun EXCEPT ![a] = clock]
    /\ inflight' = inflight \cup {a}
    /\ UNCHANGED <<clock, ended, capturing, indexed, llmLog, opVars, windowVars, failed>>

(* A chunk with a whole tool call: indexed, then sent to the framework. *)
StreamToolCall(a) ==
    /\ Alive
    /\ a \in (Streamed \cap inflight) \ indexed
    /\ ended[a] = Never
    /\ indexed' = indexed \cup {a}
    /\ UNCHANGED <<clock, begun, ended, inflight, capturing, llmLog, opVars,
                   windowVars, failed>>

PastCutoff_Never(end) == FALSE

(* Both stores drop what ended after a cutoff that is already known. *)
PastCutoff(end) == frozenAt # Never /\ end > frozenAt

(* `_write_attempt', and the response that is sent after it. *)
WriteAttempt(a, end) ==
    /\ inflight' = inflight \ {a}
    /\ llmLog' = IF PastCutoff(end) THEN llmLog ELSE llmLog \cup {a}
    /\ indexed' = indexed \cup {a}

EndAttempt_PopsFirst(a) ==
    /\ Alive
    /\ a \in inflight /\ ended[a] = Never
    /\ ended' = [ended EXCEPT ![a] = clock]
    /\ IF Captures
       THEN /\ capturing' = capturing \cup {a}
            /\ inflight' = inflight \ {a}
            /\ indexed' = IF a \in Streamed THEN indexed \cup {a} ELSE indexed
            /\ UNCHANGED llmLog
       ELSE WriteAttempt(a, clock) /\ UNCHANGED capturing
    /\ UNCHANGED <<clock, begun, opVars, windowVars, failed>>

(* The engine's response is complete; its end is taken before the audit.   *)
EndAttempt(a) ==
    /\ Alive
    /\ a \in inflight /\ ended[a] = Never
    /\ ended' = [ended EXCEPT ![a] = clock]
    /\ IF Captures
       THEN /\ capturing' = capturing \cup {a}
            /\ indexed' = IF a \in Streamed THEN indexed \cup {a} ELSE indexed
            /\ UNCHANGED <<inflight, llmLog>>
       ELSE WriteAttempt(a, clock) /\ UNCHANGED capturing
    /\ UNCHANGED <<clock, begun, opVars, windowVars, failed>>

CaptureArrives(a) ==
    /\ Alive
    /\ a \in capturing
    /\ capturing' = capturing \ {a}
    /\ WriteAttempt(a, ended[a])
    /\ UNCHANGED <<clock, begun, ended, opVars, windowVars, failed>>

(* The audit is missing or disagrees, or the engine connection breaks: the *)
(* attempt stays in flight.                                                *)
AttemptFails(a) ==
    /\ Alive
    /\ a \in inflight
    /\ a \in capturing \/ ended[a] = Never
    /\ capturing' = capturing \ {a}
    /\ ended' = [ended EXCEPT ![a] = clock]
    /\ failed' = TRUE
    /\ UNCHANGED <<clock, begun, inflight, indexed, llmLog, opVars, windowVars>>

(* A stream that breaks before its terminal event stays in flight, marked. *)
InterruptStream(a) ==
    /\ Alive
    /\ a \in Streamed \cap inflight
    /\ ended[a] = Never
    /\ ended' = [ended EXCEPT ![a] = clock]
    /\ UNCHANGED <<clock, begun, inflight, capturing, indexed, llmLog, opVars,
                   windowVars, failed>>

-----------------------------------------------------------------------------
(* Native operations *)

StartOp(o) ==
    /\ Alive
    /\ opStart[o] = Never
    /\ Trigger[o] \in indexed
    /\ opStart' = [opStart EXCEPT ![o] = clock]
    /\ UNCHANGED <<clock, attemptVars, opEnd, reported, posted, windowVars, failed>>

(* The end is taken before it is written or posted. *)
EndOp(o) ==
    /\ Alive
    /\ opStart[o] # Never /\ opEnd[o] = Never
    /\ \A a \in Attempts : Parent[a] = o /\ begun[a] # Never => ended[a] # Never
    /\ opEnd' = [opEnd EXCEPT ![o] = clock]
    /\ UNCHANGED <<clock, attemptVars, opStart, reported, posted, windowVars, failed>>

ReportOp_AnswersTails(o) ==
    /\ Alive
    /\ opEnd[o] # Never /\ o \notin reported
    /\ reported' = reported \cup {o}
    /\ posted' = IF o \in Posted /\ ~PastCutoff(opEnd[o]) THEN posted \cup {o} ELSE posted
    /\ UNCHANGED <<clock, attemptVars, opStart, opEnd, windowVars, failed>>

(* A lane event is appended, or the boundary answers: an operation it had  *)
(* frozen as a tail is held, one that ended after the cutoff is dropped.   *)
ReportOp(o) ==
    /\ Alive
    /\ opEnd[o] # Never /\ o \notin reported
    /\ o \notin boundaryTails
    /\ reported' = reported \cup {o}
    /\ posted' = IF o \in Posted /\ ~PastCutoff(opEnd[o]) THEN posted \cup {o} ELSE posted
    /\ UNCHANGED <<clock, attemptVars, opStart, opEnd, windowVars, failed>>

-----------------------------------------------------------------------------
(* The window *)

Tick ==
    /\ clock < MaxClock
    /\ clock' = clock + 1
    /\ UNCHANGED <<attemptVars, opVars, windowVars, failed>>

(* The sweep writes its sample_end event. *)
SampleEnd ==
    /\ cutoff = Never
    /\ cutoff' = clock
    /\ UNCHANGED <<clock, attemptVars, opVars, frozenAt, pc, llmTails, boundaryTails, failed>>

Freeze_Late ==
    /\ pc = "running"
    /\ cutoff < clock
    /\ ~failed
    /\ frozenAt' = clock
    /\ llmTails' = inflight
    /\ boundaryTails' = {o \in Posted : opStart[o] # Never} \ reported
    /\ pc' = "frozen"
    /\ UNCHANGED <<clock, attemptVars, opVars, cutoff, failed>>

(* The supervisor saw the event and found both services healthy; it passes *)
(* the sweep's instant, which is past, to freeze_source_cutoff.            *)
Freeze ==
    /\ pc = "running"
    /\ cutoff < clock
    /\ ~failed
    /\ frozenAt' = cutoff
    /\ llmTails' = inflight
    /\ boundaryTails' = {o \in Posted : opStart[o] # Never} \ reported
    /\ pc' = "frozen"
    /\ UNCHANGED <<clock, attemptVars, opVars, cutoff, failed>>

(* The framework is killed; the handlers still waiting are cancelled. *)
Stop ==
    /\ pc = "frozen"
    /\ pc' = "stopped"
    /\ UNCHANGED <<clock, attemptVars, opVars, cutoff, frozenAt, llmTails, boundaryTails, failed>>

(* A hard failure met before the freeze ends the recording. *)
Abort ==
    /\ pc = "running" /\ failed
    /\ pc' = "aborted"
    /\ UNCHANGED <<clock, attemptVars, opVars, cutoff, frozenAt, llmTails, boundaryTails, failed>>

(* The run has ended, or the bound of the clock was reached. *)
Finished == (~Alive \/ clock = MaxClock) /\ UNCHANGED vars

Next ==
    \/ \E a \in Attempts :
          \/ BeginAttempt(a) \/ StreamToolCall(a) \/ EndAttempt(a)
          \/ CaptureArrives(a) \/ AttemptFails(a) \/ InterruptStream(a)
    \/ \E o \in Ops : StartOp(o) \/ EndOp(o) \/ ReportOp(o)
    \/ Alive /\ Tick
    \/ SampleEnd /\ Alive
    \/ Freeze \/ Stop
    \/ Abort \/ Finished

Spec == Init /\ [][Next]_vars

-----------------------------------------------------------------------------
(* The bundle, read once everything has stopped *)

InWindow(t) == t <= frozenAt

(* materialize_lane_recording: the events of the lane logs up to the cutoff. *)
LaneStarted == {o \in Ops \ Posted : InWindow(opStart[o])}
LaneClosed  == {o \in LaneStarted \cap reported : InWindow(opEnd[o])}

LedgerOps == LaneClosed \cup posted

Markers_NeverStarted == {o \in Ops : Trigger[o] \in llmLog /\ opStart[o] = Never}

(* materialize_pre_dispatch_tails: calls of logged attempts without a      *)
(* dispatch record.                                                        *)
Markers == {o \in Ops : Trigger[o] \in llmLog} \ LedgerOps

(* Tasks whose child sessions are named after the session of `parent', at  *)
(* any depth: all that has the parent's name as a prefix.                  *)
Below(parent) ==
    {t \in Composite : \A T \in SUBSET Composite :
        (\A c \in Composite : Parent[c] \in T \cup {parent} => c \in T) => t \in T}

(* A task among them that has work below it is entered in replay; all it   *)
(* knows of its children is that they are logged attempts of a session     *)
(* below its own that began after its response ended.                      *)
ChildrenOf(o) ==
    {a \in llmLog : Parent[a] \in Below(Parent[o]) /\ begun[a] >= ended[Trigger[o]]}

Adopters == Markers \cap Composite

Spans(adopted) == {pair[2] : pair \in adopted}

(* child_parent_for: the task of the first child that no call has adopted. *)
Adopt(o, adopted) ==
    LET free == {a \in ChildrenOf(o) : Parent[a] \notin Spans(adopted)}
    IN  IF o \in Adopters /\ free # {}
        THEN LET first == CHOOSE a \in free : \A x \in free : begun[a] <= begun[x]
             IN  adopted \cup {<<o, Parent[first]>>}
        ELSE adopted

(* What the first i calls have adopted. *)
Adopted[i \in 0..Len(Calls)] ==
    IF i = 0 THEN {} ELSE Adopt(Calls[i], Adopted[i - 1])

Adoption == Adopted[Len(Calls)]

OpenParents == Spans(Adoption)

(* The tails that reach the bundle: those of the lanes replace what the    *)
(* boundary service froze (supervisor.run).                                *)
OpTails == (LaneStarted \ LaneClosed) \cup Markers

(* close_stage_at_cutoff prunes to a fixed point: what is kept has every   *)
(* parent, and a task that stays open is a parent too.                     *)
Owned_OnlyClosed(kept) == \A x \in kept : Parent[x] \in kept \cup {NoParent}
Owned(kept) == \A x \in kept : Parent[x] \in kept \cup OpenParents \cup {NoParent}
Kept == UNION {kept \in SUBSET (llmLog \cup LedgerOps) : Owned(kept)}

ClosedAttempts == llmLog \cap Kept
ClosedOps      == LedgerOps \cap Kept

Done == pc = "stopped"

-----------------------------------------------------------------------------
(* Properties *)

(* Types, and an attempt waits for its audit only while it is in flight.   *)
TypeOK ==
    /\ clock \in Time
    /\ begun \in [Attempts -> Time \cup {Never}]
    /\ ended \in [Attempts -> Time \cup {Never}]
    /\ inflight \subseteq Attempts /\ capturing \subseteq inflight
    /\ indexed \subseteq Attempts /\ llmLog \subseteq Attempts
    /\ llmTails \subseteq Attempts /\ boundaryTails \subseteq Posted
    /\ opStart \in [Ops -> Time \cup {Never}]
    /\ opEnd \in [Ops -> Time \cup {Never}]
    /\ reported \subseteq Ops /\ posted \subseteq Posted
    /\ cutoff \in Time \cup {Never} /\ frozenAt \in {Never, cutoff}
    /\ pc \in {"running", "frozen", "stopped", "aborted"}
    /\ failed \in BOOLEAN

(* No attempt of the window vanishes: one that began by the cutoff is in   *)
(* the log or among the tails, and one is in the log only if it ended      *)
(* (`_write_attempt', `freeze_source_cutoff').                             *)
AttemptsAccounted ==
    /\ Done => \A a \in Attempts : begun[a] <= cutoff => a \in llmLog \cup llmTails
    /\ \A a \in llmLog : ended[a] # Never /\ begun[a] <= ended[a]

(* No operation is both closed and cut: what the boundary froze as a tail  *)
(* is not answered or recorded later, though its end was by the cutoff,    *)
(* and an operation of a lane log closed by the cutoff itself (`complete'  *)
(* of the boundary, materialize_lane_recording).                           *)
CutOpsStayOpen ==
    /\ posted \cap boundaryTails = {}
    /\ Done => \A o \in LaneClosed : opEnd[o] <= cutoff

(* After the freeze the log of attempts grows only by attempts that ended  *)
(* by the cutoff, and the frozen instant never moves (`_write_attempt').   *)
LateWritesAreInWindow ==
    [][frozenAt # Never =>
          /\ frozenAt' = frozenAt
          /\ \A a \in llmLog' \ llmLog : ended[a] <= cutoff
          /\ \A o \in posted' \ posted : opEnd[o] <= cutoff]_vars

(* All work of the sessions below `parent' is in tasks that stayed open    *)
(* and belongs to that session's own calls: what child_parent_for takes    *)
(* every candidate to be.                                                  *)
OnlyOpenBelow(parent) ==
    \A x \in llmLog : Parent[x] \in Below(parent) =>
        /\ Parent[x] \in Markers /\ Parent[Parent[x]] = parent
        /\ begun[x] >= ended[Trigger[Parent[x]]]

(* Closed work of a child session is kept when the response that asked for *)
(* its task is: if the task closed, and, though open tasks are matched to  *)
(* their children by name and time only, if no closed task and no deeper   *)
(* session can be mistaken for one of them                                 *)
(* (materialize_pre_dispatch_tails and close_stage_at_cutoff together).    *)
DescendantsSurvive ==
    Done => \A a \in llmLog :
        LET task == Parent[a] IN
        /\ task # NoParent
        /\ Trigger[task] \in ClosedAttempts
        /\ task \in LedgerOps \/ OnlyOpenBelow(Parent[task])
        => a \in ClosedAttempts

(* Every call that a closed response names is closed or a tail, although   *)
(* what the boundary froze for the OpenCode plugin is thrown away:         *)
(* load_bundle refuses a CORAL bundle with a call unaccounted for          *)
(* (_require_coral_dispatch_coverage).                                     *)
CallsAreCovered ==
    LET attempts == ClosedAttempts
        covered  == ClosedOps \cup OpTails
    IN  Done => \A o \in Ops : Trigger[o] \in attempts => o \in covered

(* bundle.py:624 "A call cannot be both closed before cutoff and still     *)
(* running at cutoff": load_bundle refuses a bundle that says so.          *)
TailsAreNotClosed == Done => ClosedAttempts \cap llmTails = {}

(* cutoff.py:7 "a record survives only if everything it depends on also    *)
(* survives": the attempt that asked for a closed operation is closed.     *)
TriggersSurvive == Done => \A o \in ClosedOps : Trigger[o] \in ClosedAttempts

(* bundle.py:763-764 "when closed child work exists below the unentered    *)
(* parent call, replay enters the parent wrapper only far enough to        *)
(* preserve those descendants".                                            *)
DescendantsArePreserved ==
    Done => \A a \in llmLog :
        LET task == Parent[a] IN
        /\ task # NoParent
        /\ Trigger[task] \in ClosedAttempts
        /\ begun[a] >= ended[Trigger[task]]
        => a \in ClosedAttempts

=============================================================================

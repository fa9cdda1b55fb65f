----------------------------- MODULE ReplayRun -----------------------------
(***************************************************************************)
(* One replay run: a framework process, the boundary ledger, the LLM store *)
(* and the supervisor that decides when the window is closed and whether   *)
(* the run was valid (minireplay/services.py, supervisor.py).              *)
(*                                                                         *)
(* The two stores run on event loops of two threads, and each reads the    *)
(* completion predicates of both; the supervisor reads them from a third.  *)
(* All of them are monotone (CompletionIsFinal of BoundaryLedger), so a    *)
(* predicate whose halves are read one after the other is TRUE only if it  *)
(* is TRUE when the last half is read, and each read is one step here.     *)
(*                                                                         *)
(* The framework is the environment.  It is a program: a partial order of  *)
(* calls, each sent once, which reaches the end of the recording and goes  *)
(* on to whatever the source was doing when it was cut.  Everything else   *)
(* it or the network may do is a fault, and MaxFaults bounds those.        *)
(***************************************************************************)
EXTENDS Integers, Sequences, FiniteSets

CONSTANTS
    Keys, Actors, ActorOf, Ops, Expected, CutoffExpected, Composite, PreDispatch,
    Identities, Identity, ModelCalls, ModelCall, CutoffActors, FastClaim, Required,
    MaxClock,
    Lanes, LaneActor, Attempts, Recorded, Shapes, Shape,
    OpCalls,      \* `start' calls of the framework program
    OpRequest,    \* [OpCalls -> boundary requests]
    LLMCalls,     \* LLM requests of the framework program
    LLMRequest,   \* [LLMCalls -> LLM requests]
    Place,        \* [calls -> Nat]: the place of the call in its lane
    AfterEnd,     \* answers a call follows, read to the end of the response
    AfterBytes,   \* answers a call follows as soon as bytes can be read
    Within,       \* [calls -> SUBSET Ops]: operations a call is made inside
    Work,         \* [Ops -> SUBSET answers]: what an operation's native work needs
    MaxFaults     \* bound of the faults in a run

VARIABLES
    cursor, cutoffCursor, entries, active, ledger, delivered, withheld, lost, held,
    started, clock, hardFailure,
    forced, sequence, grants, engine, verified, served, llmDelivered, broken,
    llmHeld, prefixMarker, llmFailure,
    issued,          \* calls of the program the framework has sent
    exited,          \* the framework process is gone
    faults,          \* faults so far
    pc,              \* the supervisor's position
    truncated,       \* operations frozen as cutoff tails of this run
    windowFailed,    \* a failure was on record when the window was declared closed
    verdict

B == INSTANCE BoundaryLedger
L == INSTANCE LLMStore WITH LaneActors <- Actors, LiveActors <- CutoffActors

Calls == OpCalls \cup LLMCalls

ASSUME ProgramAssumption ==
    /\ B!BundleAssumption /\ L!RecordingAssumption
    /\ OpRequest \in [OpCalls -> B!Requests]
    /\ LLMRequest \in [LLMCalls -> L!LLMRequests]
    /\ OpCalls \cap LLMCalls = {} /\ Ops \cap Attempts = {}
    /\ Place \in [Calls -> Nat \ {0}]
    /\ AfterEnd \in [Calls -> SUBSET (Ops \cup Attempts)]
    /\ AfterBytes \in [Calls -> SUBSET (Ops \cup Attempts)]
    /\ Within \in [Calls -> SUBSET Ops]
    /\ Work \in [Ops -> SUBSET (Ops \cup Attempts)]
    /\ MaxFaults \in Nat

boundaryVars == <<cursor, cutoffCursor, entries, active, ledger, delivered, withheld,
                  lost, held, started, clock, hardFailure>>
llmVars == <<forced, sequence, grants, engine, verified, served, llmDelivered, broken,
             llmHeld, prefixMarker, llmFailure>>
frameworkVars  == <<issued, exited, faults>>
supervisorVars == <<pc, truncated, windowFailed, verdict>>
vars == <<boundaryVars, llmVars, frameworkVars, supervisorVars>>

-----------------------------------------------------------------------------
(* Predicates over both stores (ReplayServices) *)

AllReplayed_OpsOnly == B!ExpectedComplete
AllReplayed == B!ExpectedComplete /\ L!LLMExpectedComplete

Unhealthy == hardFailure \/ llmFailure

Watching == pc \in {"health", "complete", "process"}
Serving  == Watching \/ pc \in {"freeze", "stop"}

Init ==
    /\ B!Init
    /\ L!Init
    /\ issued = {}
    /\ exited = FALSE
    /\ faults = 0
    /\ pc = "health"
    /\ truncated = {}
    /\ windowFailed = FALSE
    /\ verdict = "none"

-----------------------------------------------------------------------------
(* Requests, answered by the store they are sent to *)

Start(r) ==
    LET llmPrefix == L!LLMActorPrefixConsumed(ActorOf[r.key]) IN
    /\ \/ B!ClaimClosed(r)
       \/ B!EnterCompositeTail(r)
       \/ B!InterceptTail(r)
       \/ B!HoldPastEnd(r, L!LLMExpectedComplete, llmPrefix)
       \/ B!RejectStart(r, L!LLMExpectedComplete, llmPrefix)
    /\ UNCHANGED llmVars

Request(r) ==
    LET opsPrefix == B!ActorPrefixConsumed(LaneActor[r.lane]) IN
    /\ \/ L!ClaimAttempt(r)
       \/ L!HoldRequest(r, B!ExpectedComplete, opsPrefix)
       \/ L!RejectRequest(r, B!ExpectedComplete, opsPrefix)
    /\ UNCHANGED boundaryVars

(* What the framework has read: a response to its end, or its first bytes, *)
(* which a store may write before it records the delivery.                 *)
ReadToEnd == delivered \cup llmDelivered
Readable  == B!completed \cup served

Ready(c) ==
    /\ AfterEnd[c] \subseteq ReadToEnd
    /\ AfterBytes[c] \subseteq Readable
    /\ Within[c] \subseteq B!Reserved

SendOp(c) ==
    /\ Watching /\ ~exited
    /\ c \notin issued /\ Ready(c)
    /\ issued' = issued \cup {c}
    /\ Start(OpRequest[c])
    /\ UNCHANGED <<exited, faults, supervisorVars>>

SendLLM(c) ==
    /\ Watching /\ ~exited
    /\ c \notin issued /\ Ready(c)
    /\ issued' = issued \cup {c}
    /\ Request(LLMRequest[c])
    /\ UNCHANGED <<exited, faults, supervisorVars>>

(* The native work of an operation ends and the framework says so. *)
FinishOp(e) ==
    /\ Serving /\ ~exited
    /\ Work[e.op] \subseteq ReadToEnd
    /\ \/ e.op \notin truncated /\ B!Complete(e)
       \/ B!HoldTruncated(e)
    /\ UNCHANGED <<llmVars, frameworkVars, supervisorVars>>

DeliverOp(op) ==
    /\ Serving
    /\ B!Deliver(op)
    /\ UNCHANGED <<llmVars, frameworkVars, supervisorVars>>

RunEngine(a) ==
    /\ Serving
    /\ L!EngineVerified(a)
    /\ UNCHANGED <<boundaryVars, frameworkVars, supervisorVars>>

DeliverLLM(a) ==
    /\ Serving
    /\ L!DeliverResponse(a)
    /\ UNCHANGED <<boundaryVars, frameworkVars, supervisorVars>>

(* Time matters only while a composite tail has time to serve. *)
Tick ==
    /\ Watching
    /\ \E op \in Composite : started[op] # B!NotStarted /\ ~B!ServedItsTime(op)
    /\ B!Tick
    /\ UNCHANGED <<llmVars, frameworkVars, supervisorVars>>

-----------------------------------------------------------------------------
(* Faults *)

Fault ==
    /\ Watching
    /\ faults < MaxFaults
    /\ faults' = faults + 1
    /\ UNCHANGED supervisorVars

(* A call of the program is made with other content, or a second time. *)
DriftOp(c) ==
    /\ Fault /\ ~exited /\ Ready(c)
    /\ \E i \in Identities : Start([OpRequest[c] EXCEPT !.identity = i])
    /\ UNCHANGED <<issued, exited>>

DriftLLM(c) ==
    /\ Fault /\ ~exited /\ Ready(c)
    /\ \E s \in Shapes : Request([LLMRequest[c] EXCEPT !.shape = s])
    /\ UNCHANGED <<issued, exited>>

BoundaryFault ==
    /\ Fault
    /\ \/ B!RejectTrigger
       \/ \E e \in active : B!RejectCompletion(e)
    /\ UNCHANGED <<llmVars, issued, exited>>

LLMFault ==
    /\ Fault
    /\ \/ L!RejectMalformed
       \/ \E a \in Attempts : L!EngineFailed(a) \/ L!ResponseFailed(a)
    /\ UNCHANGED <<boundaryVars, issued, exited>>

FrameworkExits ==
    /\ Fault /\ ~exited
    /\ exited' = TRUE
    /\ UNCHANGED <<boundaryVars, llmVars, issued>>

-----------------------------------------------------------------------------
(* The supervisor: _wait_boundary, freeze_source_cutoff, stop, verdict *)

Goto(p) == pc' = p /\ UNCHANGED <<truncated, windowFailed, verdict>>
Abort_Silent == pc' = "done" /\ UNCHANGED <<truncated, windowFailed, verdict>>
Abort   == pc' = "done" /\ verdict' = "failed" /\ UNCHANGED <<truncated, windowFailed>>
Close   == pc' = "freeze" /\ windowFailed' = Unhealthy /\ UNCHANGED <<truncated, verdict>>

CheckHealth ==
    /\ pc = "health"
    /\ IF Unhealthy THEN Abort ELSE Goto("complete")

CheckComplete ==
    /\ pc = "complete"
    /\ IF AllReplayed THEN Close ELSE Goto("process")

(* A process that is gone gets one more look at the predicates. *)
CheckProcess ==
    /\ pc = "process"
    /\ IF ~exited THEN Goto("health")
       ELSE IF AllReplayed THEN Close
       ELSE Abort

GiveUp_AfterExit ==
    /\ pc \in {"health", "process"}
    /\ faults > 0 /\ exited
    /\ Abort

(* The sweep reaches sample_end first, or the boundary times out.  Both    *)
(* are far longer than the recorded window, so that only a run in which a  *)
(* fault happened gets there.                                              *)
GiveUp ==
    /\ pc \in {"health", "process"}
    /\ faults > 0
    /\ Abort

(* Runs on the boundary loop: everything still open becomes a tail. *)
Freeze ==
    /\ pc = "freeze"
    /\ truncated' = truncated \cup B!Reserved
    /\ pc' = "stop"
    /\ UNCHANGED <<windowFailed, verdict>>

(* The framework is killed and both services stop. *)
Stop == pc = "stop" /\ Goto("judge")

(* assert_consumed of both stores. *)
Consumed ==
    /\ B!ClosedOps \subseteq delivered \cup truncated
    /\ B!Reserved \subseteq truncated
    /\ L!RecordedAttempts \subseteq llmDelivered

Judge ==
    /\ pc = "judge"
    /\ pc' = "done"
    /\ verdict' = IF Consumed THEN "valid" ELSE "invalid"
    /\ UNCHANGED <<truncated, windowFailed>>

Supervise ==
    /\ \/ CheckHealth \/ CheckComplete \/ CheckProcess \/ Freeze \/ Stop \/ Judge
    /\ UNCHANGED <<boundaryVars, llmVars, frameworkVars>>

Timeout == GiveUp /\ UNCHANGED <<boundaryVars, llmVars, frameworkVars>>

Finished == pc = "done" /\ UNCHANGED vars

Next ==
    \/ \E c \in OpCalls : SendOp(c) \/ DriftOp(c)
    \/ \E c \in LLMCalls : SendLLM(c) \/ DriftLLM(c)
    \/ \E e \in active : FinishOp(e)
    \/ \E op \in Ops : DeliverOp(op)
    \/ \E a \in Attempts : RunEngine(a) \/ DeliverLLM(a)
    \/ Tick
    \/ BoundaryFault \/ LLMFault \/ FrameworkExits
    \/ Supervise
    \/ Timeout
    \/ Finished

(* The program runs on, native work ends, event loops write what they have *)
(* ready, time passes, and the supervisor's loop turns.  The deadline is   *)
(* read at the top of the loop again and again, so it is strongly fair.    *)
Fairness ==
    /\ \A c \in OpCalls : WF_vars(SendOp(c))
    /\ \A c \in LLMCalls : WF_vars(SendLLM(c))
    /\ \A op \in Ops : /\ WF_vars(\E e \in active : e.op = op /\ FinishOp(e))
                       /\ WF_vars(DeliverOp(op))
    /\ \A a \in Attempts : WF_vars(RunEngine(a)) /\ WF_vars(DeliverLLM(a))
    /\ WF_vars(Tick)
    /\ WF_vars(Supervise)
    /\ SF_vars(Timeout)

Spec == Init /\ [][Next]_vars /\ Fairness

-----------------------------------------------------------------------------
(* Properties *)

(* Types of the run's own state; both stores keep theirs. *)
TypeOK ==
    /\ B!TypeOK
    /\ L!TypeOK
    /\ issued \subseteq Calls
    /\ exited \in BOOLEAN
    /\ faults \in 0..MaxFaults
    /\ pc \in {"health", "complete", "process", "freeze", "stop", "judge", "done"}
    /\ truncated \subseteq Ops
    /\ windowFailed \in BOOLEAN
    /\ verdict \in {"none", "valid", "invalid", "failed"}
    /\ pc = "done" <=> verdict # "none"

(* Only a call past the recorded work is held: the closed operations of a  *)
(* held boundary lane have completed and its composite tails were entered, *)
(* and a held LLM lane has all its responses (`_claim' of both).           *)
NoWorkHeld ==
    /\ \A k \in held : /\ B!Closed(k) \subseteq B!completed
                       /\ B!Tails(k) \cap Composite \subseteq B!Entered
    /\ \A l \in llmHeld : L!AttemptsOf(l) \subseteq llmDelivered

(* A program does what the source did when each of its lanes makes its     *)
(* recorded calls again, one after the other, and a call past them is of a *)
(* lane that had work and has all its answers, or of an actor that was     *)
(* live at the cutoff and whose recorded work is answered.  An LLM call    *)
(* that was open at the cutoff is past its lane, since replay has no LLM   *)
(* tails; see OpenCallIsTolerated.                                         *)
Slots(k) == Len(Expected[k]) + Len(CutoffExpected[k])
Slot(k, n) == IF n <= Len(Expected[k]) THEN Expected[k][n]
              ELSE CutoffExpected[k][n - Len(Expected[k])]
Answers(c) == AfterEnd[c] \cup AfterBytes[c]
WorkOf(a) == (UNION {B!Closed(k) : k \in {j \in Keys : ActorOf[j] = a}})
             \cup (UNION {L!AttemptsOf(l) : l \in {m \in Lanes : LaneActor[m] = a}})

Covered(c, a, ownWork) ==
    \/ ownWork # {} /\ ownWork \subseteq AfterEnd[c]
    \/ a \in CutoffActors /\ WorkOf(a) \subseteq Answers(c)

OpConforms(c) ==
    LET r == OpRequest[c]
        k == r.key
        n == Place[c]
    IN  /\ n > 1 => Slot(k, n - 1) \in Answers(c) \cup (Within[c] \cap Composite)
        /\ n <= Slots(k) =>
              /\ \A d \in OpCalls : OpRequest[d].key = k /\ Place[d] = n => d = c
              /\ IF Slot(k, n) \in PreDispatch THEN r.call = ModelCall[Slot(k, n)]
                 ELSE FastClaim \/ r.identity = Identity[Slot(k, n)]
        /\ n > Slots(k) => n = Slots(k) + 1 /\ Covered(c, ActorOf[k], B!Closed(k))

LLMConforms(c) ==
    LET r == LLMRequest[c]
        l == r.lane
        n == Place[c]
    IN  /\ n > 1 => Recorded[l][n - 1] \in Answers(c)
        /\ n <= Len(Recorded[l]) =>
              /\ \A d \in LLMCalls : LLMRequest[d].lane = l /\ Place[d] = n => d = c
              /\ r.shape = Shape[Recorded[l][n]]
        /\ n > Len(Recorded[l]) =>
              /\ n = Len(Recorded[l]) + 1 /\ L!AttemptsOf(l) \subseteq AfterEnd[c]
              /\ Covered(c, LaneActor[l], L!AttemptsOf(l))

(* An operation that never ended is the last of its lane, unless its own   *)
(* work goes on inside it.                                                 *)
Conforming ==
    /\ \A c \in OpCalls : OpConforms(c)
    /\ \A c \in LLMCalls : LLMConforms(c)
    /\ \A k \in Keys : \A i \in 1..Len(CutoffExpected[k]) - 1 : CutoffExpected[k][i] \in Composite

(* A framework that does what the source did, in whatever interleaving, is *)
(* never accused of drift and never held with work left: neither store     *)
(* fails a run or withholds an answer without a fault (`_claim' of both,   *)
(* cutoff_actor_prefix_consumed).                                          *)
NoFalseAlarm == Conforming /\ faults = 0 => ~Unhealthy /\ NoWorkHeld

(* The verdict `valid' means the whole recording was replayed: every       *)
(* closed operation and attempt was answered, each entered once, composite *)
(* tails were entered once and never answered, ordinary tails never        *)
(* entered, and in a forced mode the engine ran every attempt.             *)
ValidMeansReplayed ==
    verdict = "valid" =>
        /\ delivered = B!ClosedOps
        /\ llmDelivered = L!RecordedAttempts
        /\ \A op \in Ops : entries[op] = IF op \in B!ClosedOps \cup Composite THEN 1 ELSE 0
        /\ \A op \in Composite : B!ServedItsTime(op)
        /\ forced => L!RecordedAttempts \subseteq verified

(* Once the supervisor has seen the completion predicates, whatever        *)
(* arrives before the freeze and the judgement, the freeze cuts composite  *)
(* tails only and assert_consumed finds nothing missing (`run').           *)
FreezeCutsNothing ==
    /\ truncated \subseteq Composite
    /\ pc \in {"stop", "judge"} => Consumed
    /\ verdict # "invalid"

(* A run always comes to a verdict.                                        *)
EventuallyDecided == <>(verdict # "none")

(* A run without a fault replays to its end and is valid.                  *)
FaultlessRunIsValid == <>(verdict = "valid" \/ faults > 0)

(* README.md:16-17 "Calls still active at source cutoff are retained as    *)
(* tail evidence.  Ordinary tails stop replay before native entry": when a *)
(* faultless framework makes such a call again it is held, and does not    *)
(* fail the run (`LLMStore._claim').  NoFalseAlarm without its condition,  *)
(* which fails where a fresh session's first request was open while its    *)
(* siblings still had closed work ahead.                                   *)
OpenCallIsTolerated == Unhealthy => faults > 0

(* design.md:114-115 makes a run with an unknown or a diverging call       *)
(* invalid: no valid run had a failure on record when its window closed.   *)
ValidVerdictIsHealthy == verdict = "valid" => ~windowFailed

=============================================================================

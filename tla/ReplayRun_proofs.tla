-------------------------- MODULE ReplayRun_proofs --------------------------
(***************************************************************************)
(* Theorems of a whole replay, for every recording, every program and any  *)
(* number of faults.                                                       *)
(*                                                                         *)
(* A run is a behaviour of each store with its arbitrary clients, so the   *)
(* stores' own invariants hold in it and are not proved again: BP and LP   *)
(* are the stores with what is proved about them.  Their actions are those *)
(* of B and L under other names, which the first lemmas say.  What is left *)
(* is the supervisor: RunInv follows one fact, that everything recorded is *)
(* replayed, from the moment the window is closed to the verdict.          *)
(***************************************************************************)
EXTENDS ReplayRun, TLAPS

BP == INSTANCE BoundaryLedger_proofs
LP == INSTANCE LLMStore_proofs WITH LaneActors <- Actors, LiveActors <- CutoffActors

-----------------------------------------------------------------------------
(* The stores of the run are the stores of the proofs *)

LEMMA LedgerAssumption == BP!BundleAssumption
BY ProgramAssumption DEF B!BundleAssumption, BP!BundleAssumption, B!Closed, B!Tails,
       BP!Closed, BP!Tails

LEMMA StoreAssumption == LP!RecordingAssumption
BY ProgramAssumption DEF L!RecordingAssumption, LP!RecordingAssumption

LEMMA LedgerInit == B!Init => BP!Init
BY DEF B!Init, BP!Init, B!NotStarted, BP!NotStarted

LEMMA LedgerClaims ==
    ASSUME NEW r
    PROVE  /\ B!ClaimClosed(r) => BP!ClaimClosed(r)
           /\ B!EnterCompositeTail(r) => BP!EnterCompositeTail(r)
           /\ B!InterceptTail(r) => BP!InterceptTail(r)
<1> USE DEF B!AtClosed, B!AtTail, B!NextClosed, B!NextTail, B!MatchesClosed, B!MatchesTail, B!Reserve,
            BP!AtClosed, BP!AtTail, BP!NextClosed, BP!NextTail, BP!MatchesClosed, BP!MatchesTail,
            BP!Reserve
<1>1. B!ClaimClosed(r) => BP!ClaimClosed(r)
  BY DEF B!ClaimClosed, BP!ClaimClosed
<1>2. B!EnterCompositeTail(r) => BP!EnterCompositeTail(r)
  BY DEF B!EnterCompositeTail, BP!EnterCompositeTail
<1>3. B!InterceptTail(r) => BP!InterceptTail(r)
  BY DEF B!InterceptTail, BP!InterceptTail
<1> QED BY <1>1, <1>2, <1>3

LEMMA LedgerRefusals ==
    ASSUME NEW r, NEW llmDone, NEW llmPrefix
    PROVE  /\ B!HoldPastEnd(r, llmDone, llmPrefix) => BP!HoldPastEnd(r, llmDone, llmPrefix)
           /\ B!RejectStart(r, llmDone, llmPrefix) => BP!RejectStart(r, llmDone, llmPrefix)
<1> USE DEF B!AtClosed, B!AtTail, B!PastEnd, B!NextClosed, B!NextTail, B!MatchesClosed,
            B!MatchesTail, B!PastTheWindow, B!LaneComplete, B!ExpectedComplete,
            B!ActorPrefixConsumed, B!Closed, B!ClosedOps, B!completed, B!ServedItsTime,
            B!NotStarted, B!Drift, B!Fail,
            BP!AtClosed, BP!AtTail, BP!PastEnd, BP!NextClosed, BP!NextTail, BP!MatchesClosed,
            BP!MatchesTail, BP!PastTheWindow, BP!LaneComplete, BP!ExpectedComplete,
            BP!ActorPrefixConsumed, BP!Closed, BP!ClosedOps, BP!completed, BP!ServedItsTime,
            BP!NotStarted, BP!Drift, BP!Fail
<1>1. B!HoldPastEnd(r, llmDone, llmPrefix) => BP!HoldPastEnd(r, llmDone, llmPrefix)
  BY DEF B!HoldPastEnd, BP!HoldPastEnd
<1>2. B!RejectStart(r, llmDone, llmPrefix) => BP!RejectStart(r, llmDone, llmPrefix)
  BY DEF B!RejectStart, BP!RejectStart
<1> QED BY <1>1, <1>2

LEMMA LedgerEnds ==
    /\ \A e : B!Complete(e) => BP!Complete(e)
    /\ \A e : B!HoldTruncated(e) => BP!HoldTruncated(e)
    /\ \A e : B!RejectCompletion(e) => BP!RejectCompletion(e)
    /\ \A op : B!Deliver(op) => BP!Deliver(op)
    /\ B!RejectTrigger => BP!RejectTrigger
    /\ B!Tick => BP!Tick
BY DEF B!Complete, B!HoldTruncated, B!RejectCompletion, B!Deliver, B!RejectTrigger, B!Fail,
       B!Tick, B!completed, BP!Complete, BP!HoldTruncated, BP!RejectCompletion, BP!Deliver,
       BP!RejectTrigger, BP!Fail, BP!Tick, BP!completed

LEMMA StoreInit == L!Init => LP!Init
BY DEF L!Init, LP!Init

LEMMA StoreRequests ==
    ASSUME NEW r, NEW opsDone, NEW opsPrefix
    PROVE  /\ L!ClaimAttempt(r) => LP!ClaimAttempt(r)
           /\ L!HoldRequest(r, opsDone, opsPrefix) => LP!HoldRequest(r, opsDone, opsPrefix)
           /\ L!RejectRequest(r, opsDone, opsPrefix) => LP!RejectRequest(r, opsDone, opsPrefix)
<1> USE DEF L!HasNext, L!NextAttempt, L!MatchesShape, L!MayHold, L!LLMExpectedComplete,
            L!LLMActorPrefixConsumed, L!LLMLaneComplete, L!AttemptsOf, L!RecordedAttempts, L!LLMFail,
            LP!HasNext, LP!NextAttempt, LP!MatchesShape, LP!MayHold, LP!LLMExpectedComplete,
            LP!LLMActorPrefixConsumed, LP!LLMLaneComplete, LP!AttemptsOf, LP!RecordedAttempts,
            LP!LLMFail
<1>1. L!ClaimAttempt(r) => LP!ClaimAttempt(r)
  BY DEF L!ClaimAttempt, LP!ClaimAttempt
<1>2. L!HoldRequest(r, opsDone, opsPrefix) => LP!HoldRequest(r, opsDone, opsPrefix)
  BY DEF L!HoldRequest, LP!HoldRequest
<1>3. L!RejectRequest(r, opsDone, opsPrefix) => LP!RejectRequest(r, opsDone, opsPrefix)
  BY DEF L!RejectRequest, LP!RejectRequest
<1> QED BY <1>1, <1>2, <1>3

LEMMA StoreEnds ==
    /\ \A a : L!EngineVerified(a) => LP!EngineVerified(a)
    /\ \A a : L!EngineFailed(a) => LP!EngineFailed(a)
    /\ \A a : L!DeliverResponse(a) => LP!DeliverResponse(a)
    /\ \A a : L!ResponseFailed(a) => LP!ResponseFailed(a)
    /\ L!RejectMalformed => LP!RejectMalformed
BY DEF L!EngineVerified, L!EngineFailed, L!DeliverResponse, L!ResponseFailed, L!Writing,
       L!RejectMalformed, L!LLMFail, LP!EngineVerified, LP!EngineFailed, LP!DeliverResponse,
       LP!ResponseFailed, LP!Writing, LP!RejectMalformed, LP!LLMFail

(* What each store answers to the other's question is some answer. *)
LEMMA StartStep ==
    ASSUME NEW r \in B!Requests, Start(r) PROVE BP!Next
<1>1. r \in BP!Requests
  BY DEF B!Requests, BP!Requests
<1>2. L!LLMExpectedComplete \in BOOLEAN /\ L!LLMActorPrefixConsumed(ActorOf[r.key]) \in BOOLEAN
  BY DEF L!LLMExpectedComplete, L!LLMActorPrefixConsumed
<1>3. \/ BP!ClaimClosed(r)
      \/ BP!EnterCompositeTail(r)
      \/ BP!InterceptTail(r)
      \/ BP!HoldPastEnd(r, L!LLMExpectedComplete, L!LLMActorPrefixConsumed(ActorOf[r.key]))
      \/ BP!RejectStart(r, L!LLMExpectedComplete, L!LLMActorPrefixConsumed(ActorOf[r.key]))
  BY LedgerClaims, LedgerRefusals DEF Start
<1> QED BY <1>1, <1>2, <1>3 DEF BP!Next

LEMMA RequestStep ==
    ASSUME NEW r \in L!LLMRequests, Request(r) PROVE LP!Next
<1>1. r \in LP!LLMRequests
  BY DEF L!LLMRequests, LP!LLMRequests
<1>2. B!ExpectedComplete \in BOOLEAN /\ B!ActorPrefixConsumed(LaneActor[r.lane]) \in BOOLEAN
  BY DEF B!ExpectedComplete, B!ActorPrefixConsumed
<1>3. \/ LP!ClaimAttempt(r)
      \/ LP!HoldRequest(r, B!ExpectedComplete, B!ActorPrefixConsumed(LaneActor[r.lane]))
      \/ LP!RejectRequest(r, B!ExpectedComplete, B!ActorPrefixConsumed(LaneActor[r.lane]))
  BY StoreRequests DEF Request
<1> QED BY <1>1, <1>2, <1>3 DEF LP!Next

-----------------------------------------------------------------------------
(* A run is a behaviour of each store *)

(* What the program sends, drifted or not, are requests. *)
LEMMA RequestsOfCalls ==
    /\ \A c \in OpCalls : OpRequest[c] \in B!Requests
    /\ \A c \in OpCalls, i \in Identities : [OpRequest[c] EXCEPT !.identity = i] \in B!Requests
    /\ \A c \in LLMCalls : LLMRequest[c] \in L!LLMRequests
    /\ \A c \in LLMCalls, s \in Shapes : [LLMRequest[c] EXCEPT !.shape = s] \in L!LLMRequests
<1>1. \A c \in OpCalls : OpRequest[c] \in [key : Keys, identity : Identities, call : ModelCalls]
  BY ProgramAssumption DEF B!Requests
<1>2. \A c \in LLMCalls : LLMRequest[c] \in [lane : Lanes, shape : Shapes]
  BY ProgramAssumption DEF L!LLMRequests
<1>3. \A c \in OpCalls, i \in Identities :
         [OpRequest[c] EXCEPT !.identity = i] \in [key : Keys, identity : Identities, call : ModelCalls]
  BY <1>1
<1>4. \A c \in LLMCalls, s \in Shapes : [LLMRequest[c] EXCEPT !.shape = s] \in [lane : Lanes, shape : Shapes]
  BY <1>2
<1> QED BY <1>1, <1>2, <1>3, <1>4 DEF B!Requests, L!LLMRequests

(* Every step of a run is a step of the ledger or leaves it alone. *)
LEMMA LedgerStep == [Next]_vars => [BP!Next]_BP!vars
<1> SUFFICES ASSUME [Next]_vars PROVE BP!Next \/ UNCHANGED BP!vars
  OBVIOUS
<1>1. ASSUME NEW c \in OpCalls, SendOp(c) \/ DriftOp(c) PROVE BP!Next
  BY <1>1, StartStep, RequestsOfCalls DEF SendOp, DriftOp
<1>2. ASSUME NEW c \in LLMCalls, SendLLM(c) \/ DriftLLM(c) PROVE UNCHANGED BP!vars
  BY <1>2 DEF SendLLM, DriftLLM, Request, boundaryVars, BP!vars
<1>3. ASSUME NEW e \in active, FinishOp(e) PROVE BP!Next
  BY <1>3, LedgerEnds DEF FinishOp, BP!Next
<1>4. ASSUME NEW op \in Ops, DeliverOp(op) PROVE BP!Next
  BY <1>4, LedgerEnds DEF DeliverOp, BP!Next
<1>5. ASSUME NEW a \in Attempts, RunEngine(a) \/ DeliverLLM(a) PROVE UNCHANGED BP!vars
  BY <1>5 DEF RunEngine, DeliverLLM, boundaryVars, BP!vars
<1>6. CASE Tick
  BY <1>6, LedgerEnds DEF Tick, BP!Next
<1>7. CASE BoundaryFault
  BY <1>7, LedgerEnds DEF BoundaryFault, BP!Next
<1>8. CASE LLMFault \/ FrameworkExits \/ Supervise \/ Timeout
  BY <1>8 DEF LLMFault, FrameworkExits, Supervise, Timeout, boundaryVars, BP!vars
<1>9. CASE UNCHANGED vars
  BY <1>9 DEF vars, boundaryVars, BP!vars
<1> QED BY <1>1, <1>2, <1>3, <1>4, <1>5, <1>6, <1>7, <1>8, <1>9 DEF Next, Finished

(* Every step of a run is a step of the LLM store or leaves it alone. *)
LEMMA StoreStep == [Next]_vars => [LP!Next]_LP!llmVars
<1> SUFFICES ASSUME [Next]_vars PROVE LP!Next \/ UNCHANGED LP!llmVars
  OBVIOUS
<1>1. ASSUME NEW c \in LLMCalls, SendLLM(c) \/ DriftLLM(c) PROVE LP!Next
  BY <1>1, RequestStep, RequestsOfCalls DEF SendLLM, DriftLLM
<1>2. ASSUME NEW c \in OpCalls, SendOp(c) \/ DriftOp(c) PROVE UNCHANGED LP!llmVars
  BY <1>2 DEF SendOp, DriftOp, Start, llmVars, LP!llmVars
<1>3. ASSUME NEW a \in Attempts, RunEngine(a) \/ DeliverLLM(a) PROVE LP!Next
  BY <1>3, StoreEnds DEF RunEngine, DeliverLLM, LP!Next
<1>4. ASSUME NEW e \in active, FinishOp(e) PROVE UNCHANGED LP!llmVars
  BY <1>4 DEF FinishOp, llmVars, LP!llmVars
<1>5. ASSUME NEW op \in Ops, DeliverOp(op) PROVE UNCHANGED LP!llmVars
  BY <1>5 DEF DeliverOp, llmVars, LP!llmVars
<1>6. CASE LLMFault
  BY <1>6, StoreEnds DEF LLMFault, LP!Next
<1>7. CASE Tick \/ BoundaryFault \/ FrameworkExits \/ Supervise \/ Timeout
  BY <1>7 DEF Tick, BoundaryFault, FrameworkExits, Supervise, Timeout, llmVars, LP!llmVars
<1>8. CASE UNCHANGED vars
  BY <1>8 DEF vars, llmVars, LP!llmVars
<1> QED BY <1>1, <1>2, <1>3, <1>4, <1>5, <1>6, <1>7, <1>8 DEF Next, Finished

LEMMA LedgerSpec == Spec => BP!Spec
BY LedgerInit, LedgerStep, PTL DEF Spec, Init, BP!Spec

LEMMA StoreSpec == Spec => LP!Spec
BY StoreInit, StoreStep, PTL DEF Spec, Init, LP!Spec

LEMMA StoresKeepInvariants == Spec => [](BP!IInv /\ LP!IInv)
BY LedgerSpec, StoreSpec, LedgerAssumption, StoreAssumption, BP!Invariance, LP!Invariance, PTL

-----------------------------------------------------------------------------
(* The run's own invariant *)

RunTypes ==
    /\ issued \subseteq Calls
    /\ exited \in BOOLEAN
    /\ faults \in 0..MaxFaults
    /\ pc \in {"health", "complete", "process", "freeze", "stop", "judge", "done"}
    /\ windowFailed \in BOOLEAN
    /\ verdict \in {"none", "valid", "failed"}
    /\ pc = "done" <=> verdict # "none"

(* From the moment the window was declared closed, everything recorded is  *)
(* replayed; what the freeze cuts is what was still open then.             *)
Closing ==
    /\ pc \in {"freeze", "stop", "judge"} \/ verdict = "valid" => AllReplayed
    /\ Watching \/ pc = "freeze" => truncated = {}
    /\ truncated \subseteq Composite
    /\ pc \in {"stop", "judge"} => B!Reserved \subseteq truncated

RunInv == RunTypes /\ Closing

(* The predicates and sets of the stores' proofs are the run's. *)
LEMMA SamePredicates ==
    /\ B!ExpectedComplete <=> BP!ExpectedComplete
    /\ L!LLMExpectedComplete <=> LP!LLMExpectedComplete
    /\ B!Reserved = BP!Reserved
    /\ B!completed = BP!completed
    /\ B!ClosedOps = BP!ClosedOps
    /\ L!RecordedAttempts = LP!RecordedAttempts
    /\ \A op : B!ServedItsTime(op) <=> BP!ServedItsTime(op)
BY DEF B!ExpectedComplete, BP!ExpectedComplete, B!ServedItsTime, BP!ServedItsTime, B!NotStarted,
       BP!NotStarted, B!ClosedOps, BP!ClosedOps, B!Closed, BP!Closed, L!LLMExpectedComplete,
       LP!LLMExpectedComplete, L!RecordedAttempts, LP!RecordedAttempts, L!AttemptsOf, LP!AttemptsOf,
       B!Reserved, BP!Reserved, B!completed, BP!completed

LEMMA SamePredicatesNext ==
    /\ B!ExpectedComplete' <=> BP!ExpectedComplete'
    /\ L!LLMExpectedComplete' <=> LP!LLMExpectedComplete'
BY DEF B!ExpectedComplete, BP!ExpectedComplete, B!ServedItsTime, BP!ServedItsTime, B!NotStarted,
       BP!NotStarted, B!ClosedOps, BP!ClosedOps, B!Closed, BP!Closed, L!LLMExpectedComplete,
       LP!LLMExpectedComplete, L!RecordedAttempts, LP!RecordedAttempts, L!AttemptsOf, LP!AttemptsOf

LEMMA ResponsesStay == ASSUME [LP!Next]_LP!llmVars PROVE llmDelivered \subseteq llmDelivered'
BY DEF LP!Next, LP!llmVars, LP!ClaimAttempt, LP!HoldRequest, LP!RejectRequest, LP!RejectMalformed,
       LP!LLMFail, LP!EngineVerified, LP!EngineFailed, LP!DeliverResponse, LP!ResponseFailed

(* What two threads conclude from both stores stays true.                  *)
LEMMA AllReplayedStays == BP!IInv /\ [Next]_vars /\ AllReplayed => AllReplayed'
<1> SUFFICES ASSUME BP!IInv, [Next]_vars, AllReplayed PROVE AllReplayed'
  OBVIOUS
<1>1. B!ExpectedComplete'
  BY LedgerStep, LedgerAssumption, BP!CompletionStep, SamePredicates, SamePredicatesNext DEF AllReplayed
<1>2. LP!LLMExpectedComplete /\ [LP!Next]_LP!llmVars
  BY StoreStep, SamePredicates DEF AllReplayed
<1>3. LP!LLMExpectedComplete'
  BY <1>2, ResponsesStay DEF LP!LLMExpectedComplete
<1> QED BY <1>1, <1>3, SamePredicatesNext DEF AllReplayed

(* Only a request of the framework opens a reservation.                    *)
LEMMA OpenOnlyShrink ==
    ASSUME [Next]_vars, ~Watching PROVE B!Reserved' \subseteq B!Reserved
<1>1. ASSUME NEW e \in active, FinishOp(e) PROVE active' \subseteq active
  BY <1>1 DEF FinishOp, B!Complete, B!HoldTruncated
<1>2. ASSUME NEW op \in Ops, DeliverOp(op) PROVE active' = active
  BY <1>2 DEF DeliverOp, B!Deliver
<1>3. ASSUME NEW a \in Attempts, RunEngine(a) \/ DeliverLLM(a) PROVE active' = active
  BY <1>3 DEF RunEngine, DeliverLLM, boundaryVars
<1>4. ASSUME Supervise \/ Timeout \/ UNCHANGED vars PROVE active' = active
  BY <1>4 DEF Supervise, Timeout, vars, boundaryVars
<1>5. active' \subseteq active
  BY <1>1, <1>2, <1>3, <1>4
     DEF Next, Finished, SendOp, DriftOp, SendLLM, DriftLLM, Tick, BoundaryFault, LLMFault,
         FrameworkExits, Fault
<1> QED BY <1>5 DEF B!Reserved

(* Only the supervisor moves its own state.                                *)
LEMMA OthersLeaveTheVerdict ==
    ASSUME [Next]_vars, ~Supervise, ~Timeout PROVE UNCHANGED supervisorVars
BY DEF Next, Finished, SendOp, DriftOp, SendLLM, DriftLLM, FinishOp, DeliverOp, RunEngine, DeliverLLM,
       Tick, BoundaryFault, LLMFault, FrameworkExits, Fault, vars

LEMMA FrameworkTypes ==
    ASSUME RunTypes, [Next]_vars
    PROVE  issued' \subseteq Calls /\ exited' \in BOOLEAN /\ faults' \in 0..MaxFaults
<1>1. ASSUME NEW c \in OpCalls, SendOp(c) PROVE issued' = issued \cup {c} /\ UNCHANGED <<exited, faults>>
  BY <1>1 DEF SendOp
<1>2. ASSUME NEW c \in LLMCalls, SendLLM(c) PROVE issued' = issued \cup {c} /\ UNCHANGED <<exited, faults>>
  BY <1>2 DEF SendLLM
<1>3. CASE FrameworkExits
  BY <1>3, ProgramAssumption DEF FrameworkExits, Fault, RunTypes
<1>4. ASSUME Fault, UNCHANGED <<issued, exited>>
      PROVE  issued' \subseteq Calls /\ exited' \in BOOLEAN /\ faults' \in 0..MaxFaults
  BY <1>4, ProgramAssumption DEF Fault, RunTypes
<1>5. \/ UNCHANGED frameworkVars
      \/ \E c \in OpCalls : SendOp(c)
      \/ \E c \in LLMCalls : SendLLM(c)
      \/ FrameworkExits
      \/ Fault /\ UNCHANGED <<issued, exited>>
  BY DEF Next, Finished, DriftOp, DriftLLM, FinishOp, DeliverOp, RunEngine, DeliverLLM,
         Tick, BoundaryFault, LLMFault, Supervise, Timeout, vars
<1>6. CASE UNCHANGED frameworkVars
  BY <1>6 DEF frameworkVars, RunTypes
<1> QED BY <1>1, <1>2, <1>3, <1>4, <1>5, <1>6 DEF RunTypes, Calls

LEMMA RunInit == Init => RunInv
<1> SUFFICES ASSUME Init PROVE RunInv
  OBVIOUS
<1>1. 0 \in 0..MaxFaults
  BY ProgramAssumption
<1>2. RunTypes
  BY <1>1 DEF Init, RunTypes
<1>3. Closing
  BY DEF Init, Closing, Watching
<1> QED BY <1>2, <1>3 DEF RunInv

LEMMA RunStep == RunInv /\ BP!IInv /\ BP!CompletionIsConsumed /\ [Next]_vars => RunInv'
<1> SUFFICES ASSUME RunInv, BP!IInv, BP!CompletionIsConsumed, [Next]_vars PROVE RunInv'
  OBVIOUS
<1>1. AllReplayed => AllReplayed'
  BY AllReplayedStays
<1>2. issued' \subseteq Calls /\ exited' \in BOOLEAN /\ faults' \in 0..MaxFaults
  BY FrameworkTypes DEF RunInv
<1>3. ~Watching => B!Reserved' \subseteq B!Reserved
  BY OpenOnlyShrink
<1> USE DEF RunInv, RunTypes, Closing, Watching
<1>4. CASE ~Supervise /\ ~Timeout
  <2>1. UNCHANGED supervisorVars
    BY <1>4, OthersLeaveTheVerdict
  <2> QED BY <1>1, <1>2, <1>3, <2>1 DEF supervisorVars
<1>5. CASE CheckHealth \/ CheckProcess \/ GiveUp
  BY <1>1, <1>2, <1>3, <1>5 DEF CheckHealth, CheckProcess, GiveUp, Abort, Close, Goto, Unhealthy
<1>6. CASE CheckComplete
  BY <1>1, <1>2, <1>3, <1>6 DEF CheckComplete, Close, Goto, Unhealthy
<1>7. CASE Freeze /\ UNCHANGED boundaryVars
  <2>1. B!Reserved \subseteq Composite
    BY <1>7, SamePredicates DEF BP!CompletionIsConsumed, Freeze, AllReplayed
  <2>2. B!Reserved' = B!Reserved
    BY <1>7 DEF boundaryVars, B!Reserved
  <2> QED BY <1>1, <1>2, <1>7, <2>1, <2>2 DEF Freeze
<1>8. CASE Stop
  BY <1>1, <1>2, <1>3, <1>8 DEF Stop, Goto
<1>9. CASE Judge
  <2>1. Consumed
    BY <1>9, SamePredicates DEF Judge, AllReplayed, Consumed, B!ExpectedComplete, L!LLMExpectedComplete
  <2> QED BY <1>1, <1>2, <1>9, <2>1 DEF Judge
<1> QED BY <1>4, <1>5, <1>6, <1>7, <1>8, <1>9 DEF Supervise, Timeout

-----------------------------------------------------------------------------
(* Programs that conform                                                   *)
(*                                                                         *)
(* The ledger's cursors and the program's sent calls advance together:     *)
(* a call is sent when its predecessor in the lane was claimed, and was    *)
(* itself not claimed, so it meets the slot the recording has for it.      *)

Passed(k) == cursor[k] + cutoffCursor[k]

OpsInStep ==
    /\ ~hardFailure
    /\ \A c \in OpCalls : Place[c] <= Passed(OpRequest[c].key) => c \in issued
    /\ \A k \in Keys : \A i \in 1..Len(Expected[k]) : i < Passed(k) => Expected[k][i] \in B!completed
    /\ \A k \in held : /\ B!Closed(k) \subseteq B!completed
                       /\ B!Tails(k) \cap Composite \subseteq B!Entered

LLMInStep ==
    /\ ~llmFailure
    /\ \A c \in LLMCalls : Place[c] <= sequence[LLMRequest[c].lane] => c \in issued
    /\ \A l \in llmHeld : L!AttemptsOf(l) \subseteq llmDelivered

AlarmInv == faults = 0 => OpsInStep /\ LLMInStep

(* What the stores' invariants say, in the run's terms.                    *)
LEMMA LaneFacts ==
    ASSUME BP!IInv, NEW k \in Keys
    PROVE  /\ Len(Expected[k]) \in Nat /\ DOMAIN Expected[k] = 1..Len(Expected[k])
           /\ Len(CutoffExpected[k]) \in Nat /\ DOMAIN CutoffExpected[k] = 1..Len(CutoffExpected[k])
           /\ cursor \in [Keys -> Nat] /\ cutoffCursor \in [Keys -> Nat]
           /\ cursor[k] \in Nat /\ cursor[k] <= Len(Expected[k])
           /\ cutoffCursor[k] \in Nat /\ cutoffCursor[k] <= Len(CutoffExpected[k])
           /\ cutoffCursor[k] > 0 => cursor[k] = Len(Expected[k])
BY LedgerAssumption, BP!QueueFacts DEF BP!IInv, BP!TypeOK, BP!Positions

LEMMA OpFacts ==
    ASSUME BP!IInv
    PROVE  /\ B!completed \subseteq Ops /\ delivered \subseteq B!completed
           /\ entries \in [Ops -> Nat]
           /\ \A op \in B!completed \cup B!Reserved : op \in Ops /\ entries[op] > 0
           /\ \A op \in Ops : op \notin B!ClosedOps \cup Composite => entries[op] = 0
<1>1. \A e \in active \cup ledger : e.op \in Ops /\ entries[e.op] > 0
  BY DEF BP!IInv, BP!TypeOK, BP!Entry, BP!Accounting
<1>2. delivered \subseteq BP!completed /\ entries \in [Ops -> Nat]
      /\ \A op \in Ops : op \notin BP!ClosedOps \cup Composite => entries[op] = 0
  BY DEF BP!IInv, BP!TypeOK, BP!Accounting, BP!Positions
<1> QED BY <1>1, <1>2, SamePredicates DEF B!completed, B!Reserved

LEMMA ClosedSlots ==
    ASSUME BP!IInv, NEW k \in Keys, NEW i \in 1..Len(Expected[k])
    PROVE  /\ Expected[k][i] \in Ops /\ Expected[k][i] \in B!ClosedOps
           /\ Expected[k][i] \notin Composite /\ Expected[k][i] \notin PreDispatch
           /\ entries[Expected[k][i]] > 0 => i <= cursor[k]
<1>1. Expected[k][i] \in BP!ClosedOps \ Composite /\ Expected[k][i] \in Ops
  BY LedgerAssumption, BP!Membership, BP!QueueFacts
<1>2. Expected[k][i] \notin PreDispatch
  <2>1. SUFFICES ASSUME Expected[k][i] \in PreDispatch PROVE FALSE
    OBVIOUS
  <2>2. Expected[k][i] \in UNION {BP!Tails(j) : j \in Keys}
    BY <2>1, LedgerAssumption DEF BP!BundleAssumption
  <2>3. PICK j \in Keys : Expected[k][i] \in BP!Tails(j)
    BY <2>2
  <2>4. Expected[k][i] \in BP!Closed(k)
    BY LedgerAssumption, BP!QueueFacts DEF BP!Closed
  <2>5. BP!Closed(k) \cap BP!Tails(j) = {}
    BY LedgerAssumption DEF BP!BundleAssumption
  <2> QED BY <2>3, <2>4, <2>5
<1>3. entries[Expected[k][i]] = IF i <= cursor[k] THEN 1 ELSE 0
  BY DEF BP!IInv, BP!Positions
<1> QED BY <1>1, <1>2, <1>3, SamePredicates

LEMMA TailSlots ==
    ASSUME BP!IInv, NEW k \in Keys, NEW i \in 1..Len(CutoffExpected[k])
    PROVE  /\ CutoffExpected[k][i] \in Ops /\ CutoffExpected[k][i] \notin B!ClosedOps
           /\ entries[CutoffExpected[k][i]] > 0 => i <= cutoffCursor[k]
           /\ CutoffExpected[k][i] \in Composite /\ i <= cutoffCursor[k] =>
                entries[CutoffExpected[k][i]] > 0
<1>1. CutoffExpected[k][i] \in Ops
  BY LedgerAssumption, BP!QueueFacts
<1>2. CutoffExpected[k][i] \notin BP!ClosedOps
  <2>1. SUFFICES ASSUME CutoffExpected[k][i] \in BP!ClosedOps PROVE FALSE
    OBVIOUS
  <2>2. PICK j \in Keys : CutoffExpected[k][i] \in BP!Closed(j)
    BY <2>1 DEF BP!ClosedOps
  <2>3. CutoffExpected[k][i] \in BP!Tails(k)
    BY LedgerAssumption, BP!QueueFacts DEF BP!Tails
  <2>4. BP!Closed(j) \cap BP!Tails(k) = {}
    BY LedgerAssumption DEF BP!BundleAssumption
  <2> QED BY <2>2, <2>3, <2>4
<1>3. CutoffExpected[k][i] \in Composite =>
         entries[CutoffExpected[k][i]] = IF i <= cutoffCursor[k] THEN 1 ELSE 0
  BY DEF BP!IInv, BP!Positions
<1>4. CutoffExpected[k][i] \notin Composite => entries[CutoffExpected[k][i]] = 0
  BY <1>1, <1>2 DEF BP!IInv, BP!Positions
<1> QED BY <1>1, <1>2, <1>3, <1>4, SamePredicates

LEMMA AttemptFacts ==
    ASSUME LP!IInv
    PROVE  /\ llmDelivered \subseteq served /\ served \subseteq Attempts
           /\ sequence \in [Lanes -> Nat]
           /\ \A l \in Lanes : /\ Len(Recorded[l]) \in Nat /\ sequence[l] \in Nat
                               /\ DOMAIN Recorded[l] = 1..Len(Recorded[l])
                               /\ sequence[l] <= Len(Recorded[l])
           /\ \A l \in Lanes : \A i \in 1..Len(Recorded[l]) :
                 Recorded[l][i] \in served => i <= sequence[l]
<1>1. /\ llmDelivered \subseteq served /\ served \subseteq Attempts /\ sequence \in [Lanes -> Nat]
      /\ \A l \in Lanes : sequence[l] \in Nat /\ sequence[l] <= Len(Recorded[l])
  BY DEF LP!IInv, LP!TypeOK, LP!Accounting, LP!EvidenceIsEarned
<1>2. \A l \in Lanes : Recorded[l] \in Seq(Attempts)
  BY StoreAssumption DEF LP!RecordingAssumption
<1>3. \A l \in Lanes : Len(Recorded[l]) \in Nat /\ DOMAIN Recorded[l] = 1..Len(Recorded[l])
  BY <1>2
<1>4. ASSUME NEW l \in Lanes, NEW i \in 1..Len(Recorded[l]), Recorded[l][i] \in served
      PROVE  i <= sequence[l]
  <2>1. grants[Recorded[l][i]] > 0
    BY <1>4 DEF LP!IInv, LP!Accounting, LP!Granted
  <2> QED BY <2>1 DEF LP!IInv, LP!Positions
<1> QED BY <1>1, <1>3, <1>4

-----------------------------------------------------------------------------
(* What a sent call has waited for *)

Waited(c) == Answers(c) \subseteq delivered \cup llmDelivered \cup B!completed \cup served
             /\ AfterEnd[c] \subseteq delivered \cup llmDelivered
             /\ Within[c] \subseteq B!Reserved

LEMMA ReadyWaited == ASSUME NEW c, Ready(c) PROVE Waited(c)
BY DEF Ready, Waited, Answers, ReadToEnd, Readable

LEMMA WaitedOps ==
    ASSUME BP!IInv, LP!IInv, NEW c \in Calls, Waited(c), NEW op \in Ops
    PROVE  /\ op \in Answers(c) => op \in B!completed
           /\ op \in AfterEnd[c] => op \in delivered
           /\ op \in Within[c] => op \in B!Reserved
BY OpFacts, AttemptFacts, ProgramAssumption DEF Waited

LEMMA WaitedAttempts ==
    ASSUME BP!IInv, LP!IInv, NEW c \in Calls, Waited(c), NEW a \in Attempts
    PROVE  /\ a \in Answers(c) => a \in served
           /\ a \in AfterEnd[c] => a \in llmDelivered
BY OpFacts, AttemptFacts, ProgramAssumption DEF Waited

(* A covered call is past the window of its lane, for both stores.         *)
LEMMA CoveredWork ==
    ASSUME BP!IInv, LP!IInv, NEW c \in Calls, Waited(c), NEW a, WorkOf(a) \subseteq Answers(c)
    PROVE  B!ActorPrefixConsumed(a) /\ L!LLMActorPrefixConsumed(a)
<1>1. ASSUME NEW k \in Keys, ActorOf[k] = a PROVE B!Closed(k) \subseteq B!completed
  <2>1. B!Closed(k) \subseteq WorkOf(a)
    BY <1>1 DEF WorkOf
  <2>2. B!Closed(k) \subseteq Ops
    BY ClosedSlots, LaneFacts DEF B!Closed
  <2> QED BY <2>1, <2>2, WaitedOps
<1>2. ASSUME NEW l \in Lanes, LaneActor[l] = a PROVE sequence[l] >= Len(Recorded[l])
  <2>1. L!AttemptsOf(l) \subseteq WorkOf(a)
    <3> DEFINE mine == {m \in Lanes : LaneActor[m] = a}
    <3>1. l \in mine
      BY <1>2
    <3> HIDE DEF mine
    <3>2. L!AttemptsOf(l) \subseteq UNION {L!AttemptsOf(j) : j \in mine}
      BY <3>1
    <3>3. UNION {L!AttemptsOf(j) : j \in {m \in Lanes : LaneActor[m] = a}} \subseteq WorkOf(a)
      BY ZenonT(30) DEF WorkOf
    <3>4. UNION {L!AttemptsOf(j) : j \in mine} \subseteq WorkOf(a)
      BY <3>3 DEF mine
    <3> QED BY ONLY <3>2, <3>4
  <2>2. Len(Recorded[l]) \in Nat /\ sequence[l] \in Nat /\ DOMAIN Recorded[l] = 1..Len(Recorded[l])
    BY AttemptFacts
  <2>3. CASE Len(Recorded[l]) = 0
    BY <2>2, <2>3
  <2>4. CASE Len(Recorded[l]) > 0
    <3>1. Len(Recorded[l]) \in 1..Len(Recorded[l])
      BY <2>2, <2>4
    <3>2. Recorded[l][Len(Recorded[l])] \in L!AttemptsOf(l)
      BY <2>2, <3>1 DEF L!AttemptsOf
    <3>3. Recorded[l][Len(Recorded[l])] \in Attempts
      BY <3>1, ProgramAssumption DEF L!RecordingAssumption
    <3>4. Recorded[l][Len(Recorded[l])] \in served
      BY <2>1, <3>2, <3>3, WaitedAttempts
    <3>5. Len(Recorded[l]) <= sequence[l]
      BY <3>1, <3>4, AttemptFacts
    <3> QED BY <2>2, <3>5
  <2> QED BY <2>2, <2>3, <2>4
<1> QED BY <1>1, <1>2 DEF B!ActorPrefixConsumed, L!LLMActorPrefixConsumed

ClosedLen(k) == Len(Expected[k])
TailLen(k)   == Len(CutoffExpected[k])

(* The places of a lane: its closed slots, then its tails.                 *)
LEMMA Places ==
    ASSUME BP!IInv, NEW k \in Keys
    PROVE  /\ ClosedLen(k) \in Nat /\ TailLen(k) \in Nat
           /\ cursor[k] \in Nat /\ cutoffCursor[k] \in Nat
           /\ cursor[k] <= ClosedLen(k) /\ cutoffCursor[k] <= TailLen(k)
           /\ cutoffCursor[k] > 0 => cursor[k] = ClosedLen(k)
           /\ Slots(k) = ClosedLen(k) + TailLen(k)
           /\ Passed(k) = cursor[k] + cutoffCursor[k]
           /\ \A n \in Nat : n <= ClosedLen(k) => Slot(k, n) = Expected[k][n]
           /\ \A n \in Nat : n > ClosedLen(k) => Slot(k, n) = CutoffExpected[k][n - ClosedLen(k)]
<1>1. Slots(k) = ClosedLen(k) + TailLen(k) /\ Passed(k) = cursor[k] + cutoffCursor[k]
  BY DEF Slots, Passed, ClosedLen, TailLen
<1>2. /\ ClosedLen(k) \in Nat /\ TailLen(k) \in Nat
      /\ cursor[k] \in Nat /\ cutoffCursor[k] \in Nat
      /\ cursor[k] <= ClosedLen(k) /\ cutoffCursor[k] <= TailLen(k)
      /\ cutoffCursor[k] > 0 => cursor[k] = ClosedLen(k)
  BY LaneFacts DEF ClosedLen, TailLen
<1>3. \A n \in Nat : n <= ClosedLen(k) => Slot(k, n) = Expected[k][n]
  BY DEF Slot, ClosedLen
<1>4. ASSUME NEW n \in Nat, n > ClosedLen(k) PROVE Slot(k, n) = CutoffExpected[k][n - ClosedLen(k)]
  <2>1. ~(n <= Len(Expected[k]))
    BY <1>2, <1>4 DEF ClosedLen
  <2> QED BY <2>1 DEF Slot, ClosedLen
<1> QED BY <1>1, <1>2, <1>3, <1>4

(* A lane whose earlier work is done up to n, as its cursors say.          *)
DoneBefore(k, n) ==
    \A i \in 1..Len(Expected[k]) : i < n => Expected[k][i] \in B!completed

(* A call that is sent meets the slot the recording has for it, and what   *)
(* the lane recorded before that slot has completed.                       *)
LEMMA OpTurn ==
    ASSUME BP!IInv, LP!IInv, OpsInStep, NEW c \in OpCalls, OpConforms(c), Waited(c), c \notin issued
    PROVE  /\ OpRequest[c].key \in Keys
           /\ Place[c] \in Nat \ {0}
           /\ Passed(OpRequest[c].key) = Place[c] - 1
           /\ DoneBefore(OpRequest[c].key, Place[c])
<1> DEFINE k == OpRequest[c].key
           n == Place[c]
<1>1. k \in Keys
  BY RequestsOfCalls DEF B!Requests
<1>2. c \in Calls /\ n \in Nat \ {0}
  BY ProgramAssumption DEF Calls
<1>3. n > 1 => Slot(k, n - 1) \in Answers(c) \cup (Within[c] \cap Composite)
  BY DEF OpConforms
<1>4. n > Slots(k) => n = Slots(k) + 1
  BY DEF OpConforms
<1>5. n <= Passed(k) => c \in issued
  BY DEF OpsInStep
<1>6. \A i \in 1..Len(Expected[k]) : i < Passed(k) => Expected[k][i] \in B!completed
  BY <1>1 DEF OpsInStep
<1> HIDE DEF k, n
<1>7. /\ ClosedLen(k) \in Nat /\ TailLen(k) \in Nat
      /\ cursor[k] \in Nat /\ cutoffCursor[k] \in Nat
      /\ cutoffCursor[k] > 0 => cursor[k] = ClosedLen(k)
      /\ Passed(k) = cursor[k] + cutoffCursor[k]
      /\ Slots(k) = ClosedLen(k) + TailLen(k)
  BY <1>1, Places
<1>8. n <= Slots(k) + 1
  BY <1>2, <1>4, <1>7
<1>9. Passed(k) <= n - 1
  BY <1>2, <1>5, <1>7
<1>10. CASE n > 1 /\ n - 1 <= ClosedLen(k)
  <2>1. n - 1 \in 1..Len(Expected[k]) /\ Slot(k, n - 1) = Expected[k][n - 1]
    <3>1. n - 1 \in Nat /\ n - 1 \in 1..ClosedLen(k)
      BY <1>2, <1>7, <1>10
    <3> QED BY <1>1, <1>10, <3>1, Places DEF ClosedLen
  <2>2. Expected[k][n - 1] \in Ops /\ Expected[k][n - 1] \notin Composite
        /\ (entries[Expected[k][n - 1]] > 0 => n - 1 <= cursor[k])
    BY <1>1, <2>1, ClosedSlots
  <2>3. Expected[k][n - 1] \in B!completed
    BY <1>2, <1>3, <1>10, <2>1, <2>2, WaitedOps
  <2>4. n - 1 <= cursor[k]
    BY <2>2, <2>3, OpFacts
  <2>5. Passed(k) = n - 1
    BY <1>2, <1>7, <1>9, <2>4
  <2>6. DoneBefore(k, n)
    <3> SUFFICES ASSUME NEW i \in 1..Len(Expected[k]), i < n PROVE Expected[k][i] \in B!completed
      BY DEF DoneBefore
    <3>1. i \in Nat
      BY <1>7 DEF ClosedLen
    <3>2. i = n - 1 \/ i < Passed(k)
      BY <1>2, <2>5, <3>1
    <3> QED BY <1>6, <2>3, <3>2
  <2> QED BY <1>1, <1>2, <2>5, <2>6 DEF k, n
<1>11. CASE n > 1 /\ n - 1 > ClosedLen(k)
  <2> DEFINE j == n - 1 - ClosedLen(k)
  <2>1. j \in 1..Len(CutoffExpected[k]) /\ Slot(k, n - 1) = CutoffExpected[k][j]
    <3>1. n - 1 \in Nat /\ j \in 1..TailLen(k)
      BY <1>2, <1>7, <1>8, <1>11
    <3>2. Slot(k, n - 1) = CutoffExpected[k][j]
      BY <1>1, <1>11, <3>1, Places
    <3> QED BY <3>1, <3>2 DEF TailLen
  <2>2. CutoffExpected[k][j] \in Ops /\ (entries[CutoffExpected[k][j]] > 0 => j <= cutoffCursor[k])
    BY <1>1, <2>1, TailSlots
  <2>3. CutoffExpected[k][j] \in B!completed \cup B!Reserved
    BY <1>2, <1>3, <1>11, <2>1, <2>2, WaitedOps
  <2>4. j <= cutoffCursor[k]
    BY <2>2, <2>3, OpFacts
  <2>5. Passed(k) = n - 1
    BY <1>2, <1>7, <1>9, <1>11, <2>4
  <2>6. DoneBefore(k, n)
    <3> SUFFICES ASSUME NEW i \in 1..Len(Expected[k]), i < n PROVE Expected[k][i] \in B!completed
      BY DEF DoneBefore
    <3>1. i \in Nat /\ i <= ClosedLen(k)
      BY <1>7 DEF ClosedLen
    <3>2. i < Passed(k)
      BY <1>2, <1>7, <1>11, <2>5, <3>1
    <3> QED BY <1>6, <3>2
  <2> QED BY <1>1, <1>2, <2>5, <2>6 DEF k, n
<1>12. CASE n = 1
  <2>1. Passed(k) = n - 1
    BY <1>7, <1>9, <1>12
  <2>2. DoneBefore(k, n)
    BY <1>7, <1>12 DEF DoneBefore, ClosedLen
  <2> QED BY <1>1, <1>2, <2>1, <2>2 DEF k, n
<1> QED BY <1>2, <1>7, <1>10, <1>11, <1>12

LEMMA OpMeets ==
    ASSUME BP!IInv, NEW k \in Keys, NEW n \in Nat \ {0}, Passed(k) = n - 1
    PROVE  /\ B!AtClosed(k) => /\ n = cursor[k] + 1 /\ n \in 1..Len(Expected[k]) /\ n <= Slots(k)
                               /\ Slot(k, n) = B!NextClosed(k)
                               /\ B!NextClosed(k) = Expected[k][n]
           /\ B!AtTail(k) => /\ n > ClosedLen(k) /\ n <= Slots(k)
                             /\ cutoffCursor[k] + 1 \in 1..Len(CutoffExpected[k])
                             /\ Slot(k, n) = B!NextTail(k)
           /\ B!PastEnd(k) => /\ n > ClosedLen(k) /\ n > Slots(k)
                              /\ cutoffCursor[k] = TailLen(k)
<1>1. /\ ClosedLen(k) \in Nat /\ TailLen(k) \in Nat
      /\ cursor[k] \in Nat /\ cutoffCursor[k] \in Nat
      /\ cursor[k] <= ClosedLen(k) /\ cutoffCursor[k] <= TailLen(k)
      /\ cutoffCursor[k] > 0 => cursor[k] = ClosedLen(k)
      /\ Slots(k) = ClosedLen(k) + TailLen(k)
      /\ Passed(k) = cursor[k] + cutoffCursor[k]
  BY Places
<1>2. /\ B!AtClosed(k) <=> cursor[k] < ClosedLen(k)
      /\ B!AtTail(k) <=> ~(cursor[k] < ClosedLen(k)) /\ cutoffCursor[k] < TailLen(k)
      /\ B!PastEnd(k) <=> ~(cursor[k] < ClosedLen(k)) /\ ~(cutoffCursor[k] < TailLen(k))
  BY DEF B!AtClosed, B!AtTail, B!PastEnd, ClosedLen, TailLen
<1>3. CASE B!AtClosed(k)
  <2>1. n = cursor[k] + 1 /\ n \in 1..ClosedLen(k) /\ n <= Slots(k)
    BY <1>1, <1>2, <1>3
  <2>2. Slot(k, n) = Expected[k][n]
    BY <1>1, <2>1, Places
  <2> QED BY <1>2, <1>3, <2>1, <2>2 DEF B!NextClosed, ClosedLen
<1>4. CASE B!AtTail(k)
  <2>1. /\ n > ClosedLen(k) /\ n <= Slots(k)
        /\ cutoffCursor[k] + 1 \in 1..TailLen(k)
        /\ n - ClosedLen(k) = cutoffCursor[k] + 1
    BY <1>1, <1>2, <1>4
  <2>2. Slot(k, n) = CutoffExpected[k][cutoffCursor[k] + 1]
    BY <2>1, Places
  <2> QED BY <1>2, <1>4, <2>1, <2>2 DEF B!NextTail, TailLen
<1>5. CASE B!PastEnd(k)
  BY <1>1, <1>2, <1>5
<1> QED BY <1>2, <1>3, <1>4, <1>5

(* So the ledger does not refuse it.                                       *)
LEMMA OpNotRefused ==
    ASSUME BP!IInv, LP!IInv, OpsInStep,
           NEW c \in OpCalls, OpConforms(c), Waited(c), c \notin issued
    PROVE  ~B!RejectStart(OpRequest[c], L!LLMExpectedComplete,
                          L!LLMActorPrefixConsumed(ActorOf[OpRequest[c].key]))
<1> DEFINE r == OpRequest[c]
           k == r.key
           n == Place[c]
<1>1. k \in Keys /\ n \in Nat \ {0} /\ Passed(k) = n - 1
  BY OpTurn
<1>2. /\ B!AtClosed(k) => /\ n \in 1..Len(Expected[k]) /\ n <= Slots(k)
                          /\ Slot(k, n) = B!NextClosed(k) /\ B!NextClosed(k) = Expected[k][n]
      /\ B!AtTail(k) => n <= Slots(k) /\ Slot(k, n) = B!NextTail(k)
      /\ B!PastEnd(k) => n > Slots(k)
  BY <1>1, OpMeets
<1>3. n <= Slots(k) => IF Slot(k, n) \in PreDispatch THEN r.call = ModelCall[Slot(k, n)]
                       ELSE FastClaim \/ r.identity = Identity[Slot(k, n)]
  BY DEF OpConforms
<1>4. n > Slots(k) => Covered(c, ActorOf[k], B!Closed(k))
  BY DEF OpConforms
<1>5. ASSUME B!AtClosed(k) PROVE B!MatchesClosed(r)
  <2>1. B!NextClosed(k) \notin PreDispatch
    BY <1>1, <1>2, <1>5, ClosedSlots
  <2> QED BY <1>2, <1>3, <1>5, <2>1 DEF B!MatchesClosed
<1>6. ASSUME B!AtTail(k) PROVE B!MatchesTail(r)
  BY <1>2, <1>3, <1>6 DEF B!MatchesTail
<1>7. ASSUME B!PastEnd(k)
      PROVE  B!PastTheWindow(k, L!LLMExpectedComplete, L!LLMActorPrefixConsumed(ActorOf[k]))
  <2>1. Covered(c, ActorOf[k], B!Closed(k))
    BY <1>2, <1>4, <1>7
  <2>2. CASE B!Closed(k) # {} /\ B!Closed(k) \subseteq AfterEnd[c]
    <3>1. B!Closed(k) \subseteq Ops
      BY <1>1, ClosedSlots, LaneFacts DEF B!Closed
    <3>2. B!Closed(k) \subseteq delivered
      BY <2>2, <3>1, WaitedOps DEF Calls
    <3>3. Expected[k] # <<>>
      BY <1>1, <2>2, LaneFacts DEF B!Closed
    <3> QED BY <3>2, <3>3 DEF B!PastTheWindow, B!LaneComplete
  <2>3. CASE ActorOf[k] \in CutoffActors /\ WorkOf(ActorOf[k]) \subseteq Answers(c)
    BY <2>3, CoveredWork DEF B!PastTheWindow, Calls
  <2> QED BY <2>1, <2>2, <2>3 DEF Covered
<1> QED BY <1>5, <1>6, <1>7 DEF B!RejectStart, B!Drift

(* And a lane that is held has none of its work left.                      *)
LEMMA HeldOps ==
    ASSUME BP!IInv, LP!IInv, OpsInStep, Conforming,
           NEW c \in OpCalls, Waited(c), c \notin issued,
           NEW k \in Keys, k = OpRequest[c].key,
           \/ B!AtTail(k) /\ B!NextTail(k) \notin Composite
           \/ B!PastEnd(k)
    PROVE  B!Closed(k) \subseteq B!completed /\ B!Tails(k) \cap Composite \subseteq B!Entered
<1> DEFINE n == Place[c]
<1>1. OpConforms(c)
  BY DEF Conforming
<1>2. n \in Nat \ {0} /\ Passed(k) = n - 1 /\ DoneBefore(k, n)
  BY <1>1, OpTurn
<1> HIDE DEF n
<1>3. /\ B!AtTail(k) => n > ClosedLen(k) /\ cutoffCursor[k] + 1 \in 1..Len(CutoffExpected[k])
      /\ B!PastEnd(k) => n > ClosedLen(k) /\ cutoffCursor[k] = TailLen(k)
  BY <1>2, OpMeets
<1>4. /\ ClosedLen(k) \in Nat /\ TailLen(k) \in Nat /\ cutoffCursor[k] \in Nat
  BY Places
<1>5. DOMAIN Expected[k] = 1..Len(Expected[k]) /\ DOMAIN CutoffExpected[k] = 1..Len(CutoffExpected[k])
  BY LaneFacts
<1>6. B!Closed(k) \subseteq B!completed
  <2>1. ASSUME NEW i \in 1..Len(Expected[k]) PROVE Expected[k][i] \in B!completed
    <3>1. i < n
      BY <1>2, <1>3, <1>4 DEF ClosedLen
    <3> QED BY <1>2, <3>1 DEF DoneBefore
  <2> QED BY <1>5, <2>1 DEF B!Closed
<1>7. ASSUME NEW i \in 1..Len(CutoffExpected[k]), CutoffExpected[k][i] \in Composite
      PROVE  i <= cutoffCursor[k]
  <2>1. CASE B!PastEnd(k)
    BY <1>3, <2>1 DEF TailLen
  <2>2. CASE B!AtTail(k) /\ B!NextTail(k) \notin Composite
    <3>1. CutoffExpected[k][cutoffCursor[k] + 1] \notin Composite
      BY <2>2 DEF B!NextTail
    <3>2. cutoffCursor[k] + 1 \notin 1..Len(CutoffExpected[k]) - 1
      BY <3>1 DEF Conforming
    <3>3. cutoffCursor[k] + 1 = TailLen(k)
      BY <1>3, <1>4, <2>2, <3>2 DEF TailLen
    <3>4. i # cutoffCursor[k] + 1 /\ i <= TailLen(k) /\ i \in Nat
      BY <1>4, <1>7, <3>1 DEF TailLen
    <3> QED BY <1>4, <3>3, <3>4
  <2> QED BY <2>1, <2>2
<1>8. B!Tails(k) \cap Composite \subseteq B!Entered
  <2>1. ASSUME NEW i \in 1..Len(CutoffExpected[k]), CutoffExpected[k][i] \in Composite
        PROVE  CutoffExpected[k][i] \in B!Entered
    BY <1>7, <2>1, TailSlots DEF B!Entered
  <2> QED BY <1>5, <2>1 DEF B!Tails
<1> QED BY <1>6, <1>8

(* A step of a lane to the next place keeps the ledger and the program     *)
(* in step.                                                                *)
LEMMA LaneAdvances ==
    ASSUME BP!IInv, LP!IInv, OpsInStep,
           NEW c \in OpCalls, OpConforms(c), Waited(c), c \notin issued,
           NEW k \in Keys, k = OpRequest[c].key,
           Place[c] <= Slots(k),
           \/ cursor' = [cursor EXCEPT ![k] = @ + 1] /\ cutoffCursor' = cutoffCursor
           \/ cutoffCursor' = [cutoffCursor EXCEPT ![k] = @ + 1] /\ cursor' = cursor,
           issued' = issued \cup {c}, ledger' = ledger
    PROVE  /\ \A d \in OpCalls : Place[d] <= Passed(OpRequest[d].key)' => d \in issued'
           /\ \A j \in Keys : \A i \in 1..Len(Expected[j]) :
                 i < Passed(j)' => Expected[j][i] \in B!completed'
<1> DEFINE n == Place[c]
<1>1. n \in Nat \ {0} /\ Passed(k) = n - 1 /\ DoneBefore(k, n)
  BY OpTurn
<1>2. \A d \in OpCalls : OpRequest[d].key = k /\ Place[d] = n => d = c
  BY DEF OpConforms
<1>3. \A d \in OpCalls : OpRequest[d].key \in Keys /\ Place[d] \in Nat
  BY RequestsOfCalls, ProgramAssumption DEF B!Requests, Calls
<1> HIDE DEF n
<1>4. cursor \in [Keys -> Nat] /\ cutoffCursor \in [Keys -> Nat] /\ cursor[k] \in Nat /\ cutoffCursor[k] \in Nat
  BY LaneFacts
<1>5. Passed(k)' = n
  <2>1. cursor[k] + cutoffCursor[k] = n - 1
    BY <1>1 DEF Passed
  <2>2. cursor'[k] + cutoffCursor'[k] = n
    BY <1>1, <1>4, <2>1
  <2> QED BY <2>2 DEF Passed
<1>6. \A j \in Keys \ {k} : Passed(j)' = Passed(j)
  BY <1>4 DEF Passed
<1>7. B!completed' = B!completed
  BY DEF B!completed
<1>8. ASSUME NEW d \in OpCalls, Place[d] <= Passed(OpRequest[d].key)' PROVE d \in issued'
  <2>1. CASE OpRequest[d].key = k
    <3>1. Place[d] = n \/ Place[d] <= Passed(k)
      BY <1>1, <1>3, <1>5, <1>8, <2>1
    <3> QED BY <1>2, <2>1, <3>1 DEF OpsInStep
  <2>2. CASE OpRequest[d].key # k
    BY <1>3, <1>6, <1>8, <2>2 DEF OpsInStep
  <2> QED BY <2>1, <2>2
<1>9. ASSUME NEW j \in Keys, NEW i \in 1..Len(Expected[j]), i < Passed(j)'
      PROVE  Expected[j][i] \in B!completed'
  <2>1. CASE j = k
    BY <1>1, <1>5, <1>7, <1>9, <2>1 DEF DoneBefore
  <2>2. CASE j # k
    BY <1>6, <1>7, <1>9, <2>2 DEF OpsInStep
  <2> QED BY <2>1, <2>2
<1> QED BY <1>8, <1>9

LEMMA SendOpInStep ==
    ASSUME BP!IInv, LP!IInv, Conforming, OpsInStep, NEW c \in OpCalls, SendOp(c)
    PROVE  OpsInStep'
<1> DEFINE r == OpRequest[c]
           k == r.key
<1>1. OpConforms(c) /\ Waited(c) /\ c \notin issued /\ issued' = issued \cup {c} /\ Start(r)
  BY ReadyWaited DEF Conforming, SendOp
<1>2. k \in Keys /\ Place[c] \in Nat \ {0} /\ Passed(k) = Place[c] - 1
  BY <1>1, OpTurn
<1>3. /\ B!AtClosed(k) => Place[c] <= Slots(k)
      /\ B!AtTail(k) => Place[c] <= Slots(k)
  BY <1>2, OpMeets
<1>4. entries \in [Ops -> Nat]
  BY OpFacts
<1>5. ASSUME NEW op, entries' = [entries EXCEPT ![op] = @ + 1] PROVE B!Entered \subseteq B!Entered'
  BY <1>4, <1>5 DEF B!Entered
<1>6. CASE B!ClaimClosed(r)
  <2>1. /\ cursor' = [cursor EXCEPT ![k] = @ + 1] /\ cutoffCursor' = cutoffCursor
        /\ ledger' = ledger /\ held' = held /\ hardFailure' = hardFailure
        /\ B!AtClosed(k)
    BY <1>6 DEF B!ClaimClosed
  <2>2. B!Entered \subseteq B!Entered'
    BY <1>5, <1>6 DEF B!ClaimClosed, B!Reserve
  <2>3. B!completed' = B!completed
    BY <2>1 DEF B!completed
  <2>4. /\ \A d \in OpCalls : Place[d] <= Passed(OpRequest[d].key)' => d \in issued'
        /\ \A j \in Keys : \A i \in 1..Len(Expected[j]) :
              i < Passed(j)' => Expected[j][i] \in B!completed'
    BY <1>1, <1>2, <1>3, <2>1, LaneAdvances
  <2>5. \A j \in held' : /\ B!Closed(j) \subseteq B!completed'
                         /\ B!Tails(j) \cap Composite \subseteq B!Entered'
    BY <2>1, <2>2, <2>3 DEF OpsInStep
  <2> QED BY <2>1, <2>4, <2>5 DEF OpsInStep
<1>7. CASE B!EnterCompositeTail(r)
  <2>1. /\ cutoffCursor' = [cutoffCursor EXCEPT ![k] = @ + 1] /\ cursor' = cursor
        /\ ledger' = ledger /\ held' = held /\ hardFailure' = hardFailure
        /\ B!AtTail(k)
    BY <1>7 DEF B!EnterCompositeTail
  <2>2. B!Entered \subseteq B!Entered'
    BY <1>5, <1>7 DEF B!EnterCompositeTail, B!Reserve
  <2>3. B!completed' = B!completed
    BY <2>1 DEF B!completed
  <2>4. /\ \A d \in OpCalls : Place[d] <= Passed(OpRequest[d].key)' => d \in issued'
        /\ \A j \in Keys : \A i \in 1..Len(Expected[j]) :
              i < Passed(j)' => Expected[j][i] \in B!completed'
    BY <1>1, <1>2, <1>3, <2>1, LaneAdvances
  <2>5. \A j \in held' : /\ B!Closed(j) \subseteq B!completed'
                         /\ B!Tails(j) \cap Composite \subseteq B!Entered'
    BY <2>1, <2>2, <2>3 DEF OpsInStep
  <2> QED BY <2>1, <2>4, <2>5 DEF OpsInStep
<1>8. CASE B!InterceptTail(r)
  <2>1. /\ cutoffCursor' = [cutoffCursor EXCEPT ![k] = @ + 1] /\ cursor' = cursor
        /\ ledger' = ledger /\ entries' = entries
        /\ held' = held \cup {k} /\ hardFailure' = hardFailure
        /\ B!AtTail(k) /\ B!NextTail(k) \notin Composite
    BY <1>8 DEF B!InterceptTail
  <2>2. B!Entered' = B!Entered /\ B!completed' = B!completed
    BY <2>1 DEF B!Entered, B!completed
  <2>3. B!Closed(k) \subseteq B!completed /\ B!Tails(k) \cap Composite \subseteq B!Entered
    BY <1>1, <1>2, <2>1, HeldOps
  <2>4. /\ \A d \in OpCalls : Place[d] <= Passed(OpRequest[d].key)' => d \in issued'
        /\ \A j \in Keys : \A i \in 1..Len(Expected[j]) :
              i < Passed(j)' => Expected[j][i] \in B!completed'
    BY <1>1, <1>2, <1>3, <2>1, LaneAdvances
  <2>5. \A j \in held' : /\ B!Closed(j) \subseteq B!completed'
                         /\ B!Tails(j) \cap Composite \subseteq B!Entered'
    BY <2>1, <2>2, <2>3 DEF OpsInStep
  <2> QED BY <2>1, <2>4, <2>5 DEF OpsInStep
<1>9. CASE B!HoldPastEnd(r, L!LLMExpectedComplete, L!LLMActorPrefixConsumed(ActorOf[k]))
  <2>1. /\ cutoffCursor' = cutoffCursor /\ cursor' = cursor
        /\ ledger' = ledger /\ entries' = entries
        /\ held' = held \cup {k} /\ hardFailure' = hardFailure
        /\ B!PastEnd(k)
    BY <1>9 DEF B!HoldPastEnd
  <2>2. B!Entered' = B!Entered /\ B!completed' = B!completed
    BY <2>1 DEF B!Entered, B!completed
  <2>3. B!Closed(k) \subseteq B!completed /\ B!Tails(k) \cap Composite \subseteq B!Entered
    BY <1>1, <1>2, <2>1, HeldOps
  <2>4. \A j : Passed(j)' = Passed(j)
    BY <2>1 DEF Passed
  <2>5. \A j \in held' : /\ B!Closed(j) \subseteq B!completed'
                         /\ B!Tails(j) \cap Composite \subseteq B!Entered'
    BY <2>1, <2>2, <2>3 DEF OpsInStep
  <2>6. \A d \in OpCalls : Place[d] <= Passed(OpRequest[d].key)' => d \in issued'
    BY <1>1, <2>4 DEF OpsInStep
  <2>7. \A j \in Keys : \A i \in 1..Len(Expected[j]) :
              i < Passed(j)' => Expected[j][i] \in B!completed'
    BY <2>2, <2>4 DEF OpsInStep
  <2> QED BY <2>1, <2>5, <2>6, <2>7 DEF OpsInStep
<1>10. CASE B!RejectStart(r, L!LLMExpectedComplete, L!LLMActorPrefixConsumed(ActorOf[k]))
  BY <1>1, <1>10, OpNotRefused
<1> QED BY <1>1, <1>6, <1>7, <1>8, <1>9, <1>10 DEF Start

-----------------------------------------------------------------------------
(* The same for the LLM store, whose lanes have no tails *)

LEMMA LLMTurn ==
    ASSUME BP!IInv, LP!IInv, LLMInStep, NEW c \in LLMCalls, LLMConforms(c), Waited(c), c \notin issued
    PROVE  /\ LLMRequest[c].lane \in Lanes
           /\ Place[c] \in Nat \ {0}
           /\ sequence[LLMRequest[c].lane] = Place[c] - 1
<1> DEFINE l == LLMRequest[c].lane
           n == Place[c]
<1>1. l \in Lanes
  BY RequestsOfCalls DEF L!LLMRequests
<1>2. c \in Calls /\ n \in Nat \ {0}
  BY ProgramAssumption DEF Calls
<1>3. n > 1 => Recorded[l][n - 1] \in Answers(c)
  BY DEF LLMConforms
<1>4. n > Len(Recorded[l]) => n = Len(Recorded[l]) + 1
  BY DEF LLMConforms
<1>5. n <= sequence[l] => c \in issued
  BY DEF LLMInStep
<1> HIDE DEF l, n
<1>6. Len(Recorded[l]) \in Nat /\ sequence[l] \in Nat
  BY <1>1, AttemptFacts
<1>7. CASE n > 1
  <2>1. n - 1 \in 1..Len(Recorded[l])
    BY <1>2, <1>4, <1>6, <1>7
  <2>2. Recorded[l][n - 1] \in Attempts
    BY <1>1, <2>1, ProgramAssumption DEF L!RecordingAssumption
  <2>3. Recorded[l][n - 1] \in served
    BY <1>2, <1>3, <1>7, <2>2, WaitedAttempts
  <2>4. n - 1 <= sequence[l]
    BY <1>1, <2>1, <2>3, AttemptFacts
  <2>5. sequence[l] = n - 1
    BY <1>2, <1>5, <1>6, <2>4
  <2> QED BY <1>1, <1>2, <2>5 DEF l, n
<1>8. CASE n = 1
  <2>1. sequence[l] = n - 1
    BY <1>5, <1>6, <1>8
  <2> QED BY <1>1, <1>2, <2>1 DEF l, n
<1> QED BY <1>2, <1>7, <1>8

(* A request past its lane has all the lane's answers, and is not refused. *)
LEMMA LLMPastEnd ==
    ASSUME BP!IInv, LP!IInv, LLMInStep,
           NEW c \in LLMCalls, LLMConforms(c), Waited(c), c \notin issued,
           NEW l \in Lanes, l = LLMRequest[c].lane, ~L!HasNext(l)
    PROVE  /\ L!AttemptsOf(l) \subseteq llmDelivered
           /\ L!MayHold(l, B!ExpectedComplete, B!ActorPrefixConsumed(LaneActor[l]))
<1>1. Place[c] \in Nat \ {0} /\ sequence[l] = Place[c] - 1
  BY LLMTurn
<1>2. Place[c] > Len(Recorded[l])
  BY <1>1, AttemptFacts DEF L!HasNext
<1>3. L!AttemptsOf(l) \subseteq AfterEnd[c] /\ Covered(c, LaneActor[l], L!AttemptsOf(l))
  BY <1>2 DEF LLMConforms
<1>4. L!AttemptsOf(l) \subseteq llmDelivered
  <2>1. L!AttemptsOf(l) \subseteq Attempts
    BY ProgramAssumption, AttemptFacts DEF L!AttemptsOf, L!RecordingAssumption
  <2> QED BY <1>3, <2>1, WaitedAttempts DEF Calls
<1>5. CASE L!AttemptsOf(l) # {}
  <2>1. Recorded[l] # <<>>
    BY <1>5, AttemptFacts DEF L!AttemptsOf
  <2> QED BY <1>4, <2>1 DEF L!MayHold, L!LLMLaneComplete
<1>6. CASE LaneActor[l] \in CutoffActors /\ WorkOf(LaneActor[l]) \subseteq Answers(c)
  BY <1>4, <1>6, CoveredWork DEF L!MayHold, Calls
<1> QED BY <1>3, <1>4, <1>5, <1>6 DEF Covered

LEMMA LLMNotRefused ==
    ASSUME BP!IInv, LP!IInv, LLMInStep,
           NEW c \in LLMCalls, LLMConforms(c), Waited(c), c \notin issued
    PROVE  ~L!RejectRequest(LLMRequest[c], B!ExpectedComplete,
                            B!ActorPrefixConsumed(LaneActor[LLMRequest[c].lane]))
<1> DEFINE r == LLMRequest[c]
           l == r.lane
<1>1. l \in Lanes /\ Place[c] \in Nat \ {0} /\ sequence[l] = Place[c] - 1
  BY LLMTurn
<1>2. ASSUME L!HasNext(l) PROVE L!MatchesShape(r)
  <2>1. Place[c] <= Len(Recorded[l]) /\ sequence[l] + 1 = Place[c]
    BY <1>1, <1>2, AttemptFacts DEF L!HasNext
  <2> QED BY <2>1 DEF LLMConforms, L!MatchesShape, L!NextAttempt
<1>3. ASSUME ~L!HasNext(l) PROVE L!MayHold(l, B!ExpectedComplete, B!ActorPrefixConsumed(LaneActor[l]))
  BY <1>1, <1>3, LLMPastEnd
<1> QED BY <1>2, <1>3 DEF L!RejectRequest

LEMMA SendLLMInStep ==
    ASSUME BP!IInv, LP!IInv, Conforming, LLMInStep, NEW c \in LLMCalls, SendLLM(c)
    PROVE  LLMInStep'
<1> DEFINE r == LLMRequest[c]
           l == r.lane
           n == Place[c]
<1>1. LLMConforms(c) /\ Waited(c) /\ c \notin issued /\ issued' = issued \cup {c} /\ Request(r)
  BY ReadyWaited DEF Conforming, SendLLM
<1>2. l \in Lanes /\ n \in Nat \ {0} /\ sequence[l] = n - 1
  BY <1>1, LLMTurn
<1>3. \A d \in LLMCalls : LLMRequest[d].lane \in Lanes /\ Place[d] \in Nat
  BY RequestsOfCalls, ProgramAssumption DEF L!LLMRequests, Calls
<1>4. CASE L!ClaimAttempt(r)
  <2>1. /\ sequence' = [sequence EXCEPT ![l] = @ + 1] /\ L!HasNext(l)
        /\ UNCHANGED <<llmDelivered, llmHeld, llmFailure>>
    BY <1>4 DEF L!ClaimAttempt
  <2>2. n <= Len(Recorded[l])
    BY <1>2, <2>1, AttemptFacts DEF L!HasNext
  <2>3. \A d \in LLMCalls : LLMRequest[d].lane = l /\ Place[d] = n => d = c
    BY <1>1, <2>2 DEF LLMConforms
  <2>4. sequence'[l] = n /\ \A j \in Lanes \ {l} : sequence'[j] = sequence[j]
    BY <1>2, <2>1, AttemptFacts
  <2>5. ASSUME NEW d \in LLMCalls, Place[d] <= sequence'[LLMRequest[d].lane] PROVE d \in issued'
    <3>1. CASE LLMRequest[d].lane = l
      <4>1. Place[d] = n \/ Place[d] <= sequence[l]
        BY <1>2, <1>3, <2>4, <2>5, <3>1
      <4> QED BY <1>1, <2>3, <3>1, <4>1 DEF LLMInStep
    <3>2. CASE LLMRequest[d].lane # l
      BY <1>1, <1>3, <2>4, <2>5, <3>2 DEF LLMInStep
    <3> QED BY <3>1, <3>2
  <2> QED BY <2>1, <2>5 DEF LLMInStep
<1>5. CASE L!HoldRequest(r, B!ExpectedComplete, B!ActorPrefixConsumed(LaneActor[l]))
  <2>1. /\ llmHeld' = llmHeld \cup {l} /\ ~L!HasNext(l)
        /\ UNCHANGED <<sequence, llmDelivered, llmFailure>>
    BY <1>5 DEF L!HoldRequest
  <2>2. L!AttemptsOf(l) \subseteq llmDelivered
    BY <1>1, <1>2, <2>1, LLMPastEnd
  <2> QED BY <1>1, <2>1, <2>2 DEF LLMInStep
<1>6. CASE L!RejectRequest(r, B!ExpectedComplete, B!ActorPrefixConsumed(LaneActor[l]))
  BY <1>1, <1>6, LLMNotRefused
<1> QED BY <1>1, <1>4, <1>5, <1>6 DEF Request

-----------------------------------------------------------------------------
(* The other steps leave the cursors alone *)

LEMMA OpsUndisturbed ==
    ASSUME OpsInStep, UNCHANGED <<cursor, cutoffCursor, entries, held, hardFailure>>,
           issued \subseteq issued', ledger \subseteq ledger'
    PROVE  OpsInStep'
<1>1. B!completed \subseteq B!completed' /\ B!Entered' = B!Entered
  BY DEF B!completed, B!Entered
<1>2. \A k : Passed(k)' = Passed(k)
  BY DEF Passed
<1>3. \A c \in OpCalls : Place[c] <= Passed(OpRequest[c].key)' => c \in issued'
  BY <1>2 DEF OpsInStep
<1>4. \A k \in Keys : \A i \in 1..Len(Expected[k]) : i < Passed(k)' => Expected[k][i] \in B!completed'
  BY <1>1, <1>2 DEF OpsInStep
<1>5. \A k \in held' : B!Closed(k) \subseteq B!completed' /\ B!Tails(k) \cap Composite \subseteq B!Entered'
  BY <1>1 DEF OpsInStep
<1> QED BY <1>3, <1>4, <1>5 DEF OpsInStep

LEMMA LLMUndisturbed ==
    ASSUME LLMInStep, UNCHANGED <<sequence, llmHeld, llmFailure>>,
           issued \subseteq issued', llmDelivered \subseteq llmDelivered'
    PROVE  LLMInStep'
BY DEF LLMInStep

LEMMA FaultsCount ==
    ASSUME RunTypes, [Next]_vars, faults' = 0 PROVE faults = 0 /\ ~Fault
<1>1. faults \in Nat
  BY DEF RunTypes
<1>2. ~Fault
  BY <1>1 DEF Fault
<1>3. faults' = faults
  BY <1>2 DEF Next, Finished, SendOp, DriftOp, SendLLM, DriftLLM, FinishOp, DeliverOp, RunEngine,
         DeliverLLM, Tick, BoundaryFault, LLMFault, FrameworkExits, Supervise, Timeout,
         frameworkVars, vars
<1> QED BY <1>2, <1>3

LEMMA AlarmStep ==
    ASSUME BP!IInv, LP!IInv, RunTypes, Conforming, AlarmInv, [Next]_vars PROVE AlarmInv'
<1> SUFFICES ASSUME faults' = 0 PROVE OpsInStep' /\ LLMInStep'
  BY DEF AlarmInv
<1>1. OpsInStep /\ LLMInStep /\ ~Fault
  BY FaultsCount DEF AlarmInv
<1>2. ASSUME NEW c \in OpCalls, SendOp(c) PROVE OpsInStep' /\ LLMInStep'
  <2>1. issued \subseteq issued' /\ UNCHANGED llmVars
    BY <1>2 DEF SendOp, Start
  <2>2. LLMInStep'
    BY <1>1, <2>1, LLMUndisturbed DEF llmVars
  <2> QED BY <1>1, <1>2, <2>2, SendOpInStep
<1>3. ASSUME NEW c \in LLMCalls, SendLLM(c) PROVE OpsInStep' /\ LLMInStep'
  <2>1. issued \subseteq issued' /\ UNCHANGED boundaryVars
    BY <1>3 DEF SendLLM, Request
  <2>2. OpsInStep'
    BY <1>1, <2>1, OpsUndisturbed DEF boundaryVars
  <2> QED BY <1>1, <1>3, <2>2, SendLLMInStep
<1>4. ASSUME NEW e \in active, FinishOp(e) PROVE OpsInStep' /\ LLMInStep'
  <2>1. /\ UNCHANGED <<cursor, cutoffCursor, entries, held, hardFailure>>
        /\ ledger \subseteq ledger'
    BY <1>4 DEF FinishOp, B!Complete, B!HoldTruncated
  <2>2. UNCHANGED llmVars /\ issued' = issued
    BY <1>4 DEF FinishOp, frameworkVars
  <2>3. OpsInStep'
    BY <1>1, <2>1, <2>2, OpsUndisturbed
  <2>4. LLMInStep'
    BY <1>1, <2>2, LLMUndisturbed DEF llmVars
  <2> QED BY <2>3, <2>4
<1>5. ASSUME (\E op \in Ops : DeliverOp(op)) \/ Tick PROVE OpsInStep' /\ LLMInStep'
  <2>1. UNCHANGED <<cursor, cutoffCursor, entries, ledger, held, hardFailure>>
    BY <1>5 DEF DeliverOp, Tick, B!Deliver, B!Tick
  <2>2. UNCHANGED llmVars /\ issued' = issued
    BY <1>5 DEF DeliverOp, Tick, frameworkVars
  <2>3. OpsInStep'
    BY <1>1, <2>1, <2>2, OpsUndisturbed
  <2>4. LLMInStep'
    BY <1>1, <2>2, LLMUndisturbed DEF llmVars
  <2> QED BY <2>3, <2>4
<1>6. ASSUME NEW a \in Attempts, RunEngine(a) \/ DeliverLLM(a) PROVE OpsInStep' /\ LLMInStep'
  <2>1. /\ UNCHANGED <<sequence, llmHeld, llmFailure>>
        /\ llmDelivered \subseteq llmDelivered'
    BY <1>6 DEF RunEngine, DeliverLLM, L!EngineVerified, L!DeliverResponse
  <2>2. UNCHANGED boundaryVars /\ issued' = issued
    BY <1>6 DEF RunEngine, DeliverLLM, frameworkVars
  <2>3. OpsInStep'
    BY <1>1, <2>2, OpsUndisturbed DEF boundaryVars
  <2>4. LLMInStep'
    BY <1>1, <2>1, <2>2, LLMUndisturbed
  <2> QED BY <2>3, <2>4
<1>7. ASSUME Supervise \/ Timeout \/ UNCHANGED vars PROVE OpsInStep' /\ LLMInStep'
  <2>1. UNCHANGED boundaryVars /\ UNCHANGED llmVars /\ issued' = issued
    BY <1>7 DEF Supervise, Timeout, vars, frameworkVars
  <2>2. OpsInStep'
    BY <1>1, <2>1, OpsUndisturbed DEF boundaryVars
  <2>3. LLMInStep'
    BY <1>1, <2>1, LLMUndisturbed DEF llmVars
  <2> QED BY <2>2, <2>3
<1> QED BY <1>1, <1>2, <1>3, <1>4, <1>5, <1>6, <1>7
       DEF Next, Finished, DriftOp, DriftLLM, BoundaryFault, LLMFault, FrameworkExits

LEMMA AlarmInit == Init => AlarmInv
<1> SUFFICES ASSUME Init PROVE AlarmInv
  OBVIOUS
<1>1. /\ cursor = [k \in Keys |-> 0] /\ cutoffCursor = [k \in Keys |-> 0]
      /\ held = {} /\ hardFailure = FALSE
  BY DEF Init, B!Init
<1>2. sequence = [l \in Lanes |-> 0] /\ llmHeld = {} /\ llmFailure = FALSE
  BY DEF Init, L!Init
<1>3. \A c \in OpCalls : OpRequest[c].key \in Keys /\ Place[c] \in Nat \ {0}
  BY RequestsOfCalls, ProgramAssumption DEF B!Requests, Calls
<1>4. \A c \in LLMCalls : LLMRequest[c].lane \in Lanes /\ Place[c] \in Nat \ {0}
  BY RequestsOfCalls, ProgramAssumption DEF L!LLMRequests, Calls
<1>5. \A k \in Keys : Passed(k) = 0
  BY <1>1 DEF Passed
<1>6. \A c \in OpCalls : Place[c] <= Passed(OpRequest[c].key) => c \in issued
  BY <1>3, <1>5
<1>7. \A k \in Keys : \A i \in 1..Len(Expected[k]) : i < Passed(k) => Expected[k][i] \in B!completed
  BY <1>5
<1>8. OpsInStep
  BY <1>1, <1>6, <1>7 DEF OpsInStep
<1>9. LLMInStep
  BY <1>2, <1>4 DEF LLMInStep
<1> QED BY <1>8, <1>9 DEF AlarmInv

(* Nobody aborts a run that is healthy and whose process is there.         *)
Unblamed == faults = 0 => ~exited /\ verdict # "failed"

LEMMA UnblamedStep ==
    ASSUME RunTypes, Conforming, AlarmInv, Unblamed, [Next]_vars PROVE Unblamed'
<1> SUFFICES ASSUME faults' = 0 PROVE ~exited' /\ verdict' # "failed"
  BY DEF Unblamed
<1>1. faults = 0 /\ ~Fault /\ ~exited /\ verdict # "failed" /\ ~Unhealthy
  BY FaultsCount DEF Unblamed, AlarmInv, OpsInStep, LLMInStep, Unhealthy
<1>2. ~exited'
  BY <1>1 DEF Next, Finished, SendOp, DriftOp, SendLLM, DriftLLM, FinishOp, DeliverOp, RunEngine,
         DeliverLLM, Tick, BoundaryFault, LLMFault, FrameworkExits, Supervise, Timeout,
         frameworkVars, vars
<1>3. CASE ~Supervise /\ ~Timeout
  BY <1>1, <1>2, <1>3, OthersLeaveTheVerdict DEF supervisorVars
<1>4. CASE Supervise
  BY <1>1, <1>2, <1>4 DEF Supervise, CheckHealth, CheckComplete, CheckProcess, Freeze, Stop, Judge,
         Goto, Abort, Close
<1>5. CASE Timeout
  BY <1>1, <1>5 DEF Timeout, GiveUp
<1> QED BY <1>3, <1>4, <1>5

-----------------------------------------------------------------------------
(* Theorems *)

(* Whatever program the framework runs and whatever goes wrong, each store *)
(* behaves in a run as it does with arbitrary clients, so that all that is *)
(* proved of the stores holds in a run (ReplayServices.start).             *)
THEOREM StoresBehave == Spec => BP!Spec /\ LP!Spec
BY LedgerSpec, StoreSpec, PTL

(* So a run, however its threads interleave, keeps the replay contract of  *)
(* both stores: recorded work is entered once, in order, then answered.    *)
THEOREM ContractsKept == Spec => BP!ImplementsContract /\ LP!ImplementsContract
BY LedgerSpec, StoreSpec, LedgerAssumption, StoreAssumption, BP!Refinement, LP!Refinement, PTL

LEMMA Invariance == Spec => []RunInv
<1>1. Spec => []BP!CompletionIsConsumed
  BY LedgerSpec, LedgerAssumption, BP!CompletionConsumes, PTL
<1> QED BY <1>1, StoresKeepInvariants, RunInit, RunStep, PTL DEF Spec

(* The run and both stores keep their types (`run', `_wait_boundary').     *)
THEOREM TypeCorrect == Spec => []TypeOK
<1>1. BP!IInv /\ LP!IInv /\ RunInv => TypeOK
  <2> SUFFICES ASSUME BP!IInv, LP!IInv, RunInv PROVE TypeOK
    OBVIOUS
  <2>1. BP!TypeOK => B!TypeOK
    BY DEF BP!TypeOK, B!TypeOK, BP!Entry, B!Entry, BP!NotStarted, B!NotStarted
  <2>2. LP!TypeOK => L!TypeOK
    BY DEF LP!TypeOK, L!TypeOK
  <2>3. truncated \subseteq Ops
    BY LedgerAssumption, BP!Membership DEF RunInv, Closing
  <2>4. B!TypeOK /\ L!TypeOK
    BY <2>1, <2>2 DEF BP!IInv, LP!IInv
  <2> QED BY <2>3, <2>4 DEF RunInv, RunTypes, TypeOK
<1> QED BY <1>1, Invariance, StoresKeepInvariants, PTL

(* Once the supervisor has closed the window, whatever still arrives in    *)
(* both stores, the freeze cuts composite tails only and assert_consumed   *)
(* finds nothing missing: no run gets the verdict `invalid' (`run').       *)
THEOREM FreezeIsHarmless == Spec => []FreezeCutsNothing
<1>1. RunInv => FreezeCutsNothing
  <2> SUFFICES ASSUME RunInv PROVE FreezeCutsNothing
    OBVIOUS
  <2>1. pc \in {"stop", "judge"} => Consumed
    BY DEF RunInv, Closing, AllReplayed, Consumed, B!ExpectedComplete, L!LLMExpectedComplete
  <2> QED BY <2>1 DEF RunInv, RunTypes, Closing, FreezeCutsNothing
<1> QED BY <1>1, Invariance, PTL

(* A valid verdict means the whole recording was replayed, in every run    *)
(* with any program and any number of faults (`run', assert_consumed).     *)
THEOREM ValidRunsReplayed == Spec => []ValidMeansReplayed
<1>1. BP!IInv /\ LP!IInv /\ RunInv => ValidMeansReplayed
  <2> SUFFICES ASSUME BP!IInv, LP!IInv, RunInv, verdict = "valid"
               PROVE  /\ delivered = B!ClosedOps
                      /\ llmDelivered = L!RecordedAttempts
                      /\ \A op \in Ops : entries[op] = IF op \in B!ClosedOps \cup Composite THEN 1 ELSE 0
                      /\ \A op \in Composite : B!ServedItsTime(op)
                      /\ forced => L!RecordedAttempts \subseteq verified
    BY DEF ValidMeansReplayed
  <2>1. /\ BP!ClosedOps \subseteq delivered
        /\ \A op \in Composite : BP!ServedItsTime(op)
        /\ LP!RecordedAttempts \subseteq llmDelivered
    BY SamePredicates DEF RunInv, Closing, AllReplayed, BP!ExpectedComplete, LP!LLMExpectedComplete
  <2>2. \A op \in delivered : op \in Ops /\ entries[op] > 0 /\ op \notin Composite
    BY DEF BP!IInv, BP!TypeOK, BP!Accounting, BP!completed
  <2>3. \A op \in Ops : op \notin BP!ClosedOps \cup Composite => entries[op] = 0
    BY DEF BP!IInv, BP!Positions
  <2>4. delivered = BP!ClosedOps
    BY <2>1, <2>2, <2>3
  <2>5. \A op \in BP!ClosedOps \cup Composite : op \in Ops /\ entries[op] > 0
    BY <2>1, <2>2, LedgerAssumption, BP!Membership DEF BP!IInv, BP!Positions, BP!ServedItsTime
  <2>6. \A op \in Ops : entries[op] \in Nat /\ entries[op] <= 1
    BY LedgerAssumption, BP!AtMostOneEntry DEF BP!IInv, BP!TypeOK
  <2>7. \A op \in Ops : entries[op] = IF op \in BP!ClosedOps \cup Composite THEN 1 ELSE 0
    BY <2>3, <2>5, <2>6
  <2>8. llmDelivered \subseteq LP!Granted
    BY DEF LP!IInv, LP!Accounting, LP!EvidenceIsEarned
  <2>9. llmDelivered = LP!RecordedAttempts
    BY <2>1, <2>8 DEF LP!IInv, LP!Positions, LP!Granted
  <2>10. forced => LP!RecordedAttempts \subseteq verified
    BY <2>9 DEF LP!IInv, LP!Accounting, LP!EvidenceIsEarned
  <2> QED BY <2>1, <2>4, <2>7, <2>9, <2>10, SamePredicates
<1> QED BY <1>1, Invariance, StoresKeepInvariants, PTL

LEMMA ConformingRuns == Spec => [](Conforming => AlarmInv /\ Unblamed)
<1> DEFINE InStep == Conforming => AlarmInv /\ Unblamed
<1>1. Init => InStep
  <2>1. Init => Unblamed
    BY DEF Init, Unblamed
  <2> QED BY <2>1, AlarmInit
<1>2. InStep /\ RunInv /\ BP!IInv /\ LP!IInv /\ [Next]_vars => InStep'
  BY AlarmStep, UnblamedStep DEF RunInv
<1> QED BY <1>1, <1>2, Invariance, StoresKeepInvariants, PTL DEF Spec

(* A framework that does what the source did, in whatever interleaving of  *)
(* its lanes, is never accused of drift and never held with work left      *)
(* (`_claim' of both stores, cutoff_actor_prefix_consumed).                *)
THEOREM AlarmsAreTrue == Spec => []NoFalseAlarm
<1>1. (Conforming => AlarmInv /\ Unblamed) => NoFalseAlarm
  BY DEF AlarmInv, OpsInStep, LLMInStep, NoFalseAlarm, NoWorkHeld, Unhealthy
<1> QED BY <1>1, ConformingRuns, PTL

(* So a run of such a framework in which nothing goes wrong is not aborted *)
(* by the supervisor: if it is judged at all, it is valid                  *)
(* (`_wait_boundary', `run').  That it is judged is FaultlessRunIsValid.   *)
THEOREM FaultlessRunsNeverFail ==
    Spec => [](Conforming /\ faults = 0 => verdict \in {"none", "valid"})
<1>1. (Conforming => AlarmInv /\ Unblamed) /\ RunInv
         => (Conforming /\ faults = 0 => verdict \in {"none", "valid"})
  BY DEF Unblamed, RunInv, RunTypes
<1> QED BY <1>1, ConformingRuns, Invariance, PTL

=============================================================================

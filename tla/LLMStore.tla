------------------------------ MODULE LLMStore ------------------------------
(***************************************************************************)
(* The LLM proxy in replay mode (minireplay/llm_store.py).                 *)
(*                                                                         *)
(* A lane is a key (actor, session, role) with its recorded attempts in    *)
(* sequence order.  A framework request claims the next attempt of its     *)
(* lane; in a forced mode (full, llm-only) the recorded request then runs  *)
(* on the engine and is verified against the audit; the evidence is        *)
(* written and the model calls of the attempt are indexed in one step; and *)
(* the recorded response is written to the client across awaits.  Each     *)
(* await boundary separates two actions, so that other requests, and the   *)
(* threads that read the completion predicates, come in between.           *)
(*                                                                         *)
(* A past-end request is held, or is hard drift.  The boundary ledger's    *)
(* halves of the completion predicates are parameters.                     *)
(***************************************************************************)
EXTENDS Integers, Sequences, FiniteSets

CONSTANTS
    Lanes,          \* (actor, session, role) keys
    LaneActors,
    LaneActor,      \* [Lanes -> LaneActors]
    Attempts,
    Recorded,       \* [Lanes -> Seq(Attempts)]
    Shapes,         \* API and request-shape digests
    Shape,          \* [Attempts -> Shapes]
    LiveActors      \* actors that were live at the source cutoff

ASSUME RecordingAssumption ==
    /\ LaneActor \in [Lanes -> LaneActors]
    /\ Recorded \in [Lanes -> Seq(Attempts)]
    /\ Shape \in [Attempts -> Shapes]
    /\ \A j, k \in Lanes : \A m \in DOMAIN Recorded[j], n \in DOMAIN Recorded[k] :
          Recorded[j][m] = Recorded[k][n] => j = k /\ m = n

AttemptsOf(l) == {Recorded[l][i] : i \in DOMAIN Recorded[l]}
RecordedAttempts == UNION {AttemptsOf(l) : l \in Lanes}

VARIABLES
    forced,          \* the run replays on an engine (full or llm-only mode)
    sequence,        \* [Lanes -> Nat]: attempts claimed so far
    grants,          \* [Attempts -> Nat]: how often `_claim' returned it
    engine,          \* attempts awaiting the engine and its audit
    verified,        \* attempts whose engine evidence matched
    served,          \* evidence written and model calls indexed
    llmDelivered,    \* responses written to the end
    broken,          \* attempts whose handler ended in an exception
    llmHeld,         \* lanes with a request that is never answered
    prefixMarker,    \* lanes marked session-prefix-consumed
    llmFailure

llmVars == <<forced, sequence, grants, engine, verified, served, llmDelivered,
             broken, llmHeld, prefixMarker, llmFailure>>

(* A request as `_claim' sees it. *)
LLMRequests == [lane : Lanes, shape : Shapes]

-----------------------------------------------------------------------------
(* Completion predicates *)

(* LLMStore.expected_complete; replay has no timed LLM tails. *)
LLMExpectedComplete == RecordedAttempts \subseteq llmDelivered

(* LLMStore.actor_expected_prefix_consumed: claims, not deliveries. *)
LLMActorPrefixConsumed(a) ==
    \A l \in Lanes : LaneActor[l] = a => sequence[l] >= Len(Recorded[l])

LLMLaneComplete_OnClaims(l) == Recorded[l] # <<>> /\ sequence[l] = Len(Recorded[l])

LLMLaneComplete(l) == Recorded[l] # <<>> /\ AttemptsOf(l) \subseteq llmDelivered

MayHold(l, opsDone, opsPrefix) ==
    \/ opsDone /\ LLMExpectedComplete
    \/ LaneActor[l] \in LiveActors /\ opsPrefix /\ LLMActorPrefixConsumed(LaneActor[l])
    \/ LLMLaneComplete(l)

-----------------------------------------------------------------------------
Init ==
    /\ forced \in BOOLEAN
    /\ sequence = [l \in Lanes |-> 0]
    /\ grants = [a \in Attempts |-> 0]
    /\ engine = {}
    /\ verified = {}
    /\ served = {}
    /\ llmDelivered = {}
    /\ broken = {}
    /\ llmHeld = {}
    /\ prefixMarker = {}
    /\ llmFailure = FALSE

HasNext(l) == sequence[l] < Len(Recorded[l])
NextAttempt_FromTheEnd(l) == Recorded[l][Len(Recorded[l]) - sequence[l]]
NextAttempt(l) == Recorded[l][sequence[l] + 1]

MatchesShape(r) == r.shape = Shape[NextAttempt(r.lane)]

(* The claim is synchronous; without an engine the evidence follows at once. *)
ClaimAttempt_SkipsEngine(r) ==
    LET a == NextAttempt(r.lane) IN
    /\ HasNext(r.lane)
    /\ MatchesShape(r)
    /\ sequence' = [sequence EXCEPT ![r.lane] = @ + 1]
    /\ grants' = [grants EXCEPT ![a] = @ + 1]
    /\ served' = served \cup {a}
    /\ UNCHANGED <<forced, engine, verified, llmDelivered, broken, llmHeld,
                   prefixMarker, llmFailure>>

ClaimAttempt(r) ==
    LET a == NextAttempt(r.lane) IN
    /\ HasNext(r.lane)
    /\ MatchesShape(r)
    /\ sequence' = [sequence EXCEPT ![r.lane] = @ + 1]
    /\ grants' = [grants EXCEPT ![a] = @ + 1]
    /\ engine' = IF forced THEN engine \cup {a} ELSE engine
    /\ served' = IF forced THEN served ELSE served \cup {a}
    /\ UNCHANGED <<forced, verified, llmDelivered, broken, llmHeld, prefixMarker,
                   llmFailure>>

(* `_run_upstream' returned: the engine executed the recorded tokens. *)
EngineVerified(a) ==
    /\ a \in engine
    /\ engine' = engine \ {a}
    /\ verified' = verified \cup {a}
    /\ served' = served \cup {a}
    /\ UNCHANGED <<forced, sequence, grants, llmDelivered, broken, llmHeld,
                   prefixMarker, llmFailure>>

(* `_run_upstream' raised: status, audit or engine-step drift, or transport. *)
EngineFailed_Silent(a) ==
    /\ a \in engine
    /\ engine' = engine \ {a}
    /\ broken' = broken \cup {a}
    /\ UNCHANGED <<forced, sequence, grants, verified, served, llmDelivered, llmHeld,
                   prefixMarker, llmFailure>>

EngineFailed(a) ==
    /\ a \in engine
    /\ engine' = engine \ {a}
    /\ broken' = broken \cup {a}
    /\ llmFailure' = TRUE
    /\ UNCHANGED <<forced, sequence, grants, verified, served, llmDelivered, llmHeld,
                   prefixMarker>>

(* Responses whose handler is between its evidence and its last byte. *)
Writing == served \ (llmDelivered \cup broken)

(* The recorded response is written to its end, or the client closed the   *)
(* connection at the end of a stream whose terminal event it already had.  *)
DeliverResponse(a) ==
    /\ a \in Writing
    /\ llmDelivered' = llmDelivered \cup {a}
    /\ UNCHANGED <<forced, sequence, grants, engine, verified, served, broken, llmHeld,
                   prefixMarker, llmFailure>>

(* The connection broke while the response was being written: `_handle'    *)
(* turns the exception into the hard failure.                              *)
ResponseFailed(a) ==
    /\ a \in Writing
    /\ broken' = broken \cup {a}
    /\ llmFailure' = TRUE
    /\ UNCHANGED <<forced, sequence, grants, engine, verified, served, llmDelivered,
                   llmHeld, prefixMarker>>

HoldRequest_Advances(r, opsDone, opsPrefix) ==
    /\ ~HasNext(r.lane)
    /\ MayHold(r.lane, opsDone, opsPrefix)
    /\ llmHeld' = llmHeld \cup {r.lane}
    /\ sequence' = [sequence EXCEPT ![r.lane] = @ + 1]
    /\ prefixMarker' = prefixMarker \cup {l \in {r.lane} : LLMLaneComplete(l)}
    /\ UNCHANGED <<forced, grants, engine, verified, served, llmDelivered, broken,
                   llmFailure>>

(* A past-end request that is never answered; a lane that delivered its    *)
(* whole prefix is marked for the restart control of the CORAL adapter.    *)
HoldRequest(r, opsDone, opsPrefix) ==
    /\ ~HasNext(r.lane)
    /\ MayHold(r.lane, opsDone, opsPrefix)
    /\ llmHeld' = llmHeld \cup {r.lane}
    /\ prefixMarker' = prefixMarker \cup {l \in {r.lane} : LLMLaneComplete(l)}
    /\ UNCHANGED <<forced, sequence, grants, engine, verified, served, llmDelivered,
                   broken, llmFailure>>

LLMFail ==
    /\ llmFailure' = TRUE
    /\ UNCHANGED <<forced, sequence, grants, engine, verified, served, llmDelivered,
                   broken, llmHeld, prefixMarker>>

RejectRequest(r, opsDone, opsPrefix) ==
    /\ \/ HasNext(r.lane) /\ ~MatchesShape(r)
       \/ ~HasNext(r.lane) /\ ~MayHold(r.lane, opsDone, opsPrefix)
    /\ LLMFail

(* A malformed request, or a model discovery the recording never answered. *)
RejectMalformed == LLMFail

Next ==
    \/ \E r \in LLMRequests :
          \/ ClaimAttempt(r)
          \/ \E opsDone, opsPrefix \in BOOLEAN :
                HoldRequest(r, opsDone, opsPrefix) \/ RejectRequest(r, opsDone, opsPrefix)
    \/ RejectMalformed
    \/ \E a \in Attempts :
          \/ EngineVerified(a)
          \/ EngineFailed(a)
          \/ DeliverResponse(a)
          \/ ResponseFailed(a)

Spec == Init /\ [][Next]_llmVars

-----------------------------------------------------------------------------
(* Properties *)

Granted == {a \in Attempts : grants[a] > 0}

(* Types, and no lane's cursor runs past its recording. *)
TypeOK ==
    /\ forced \in BOOLEAN
    /\ sequence \in [Lanes -> Nat]
    /\ \A l \in Lanes : sequence[l] <= Len(Recorded[l])
    /\ grants \in [Attempts -> Nat]
    /\ engine \subseteq Attempts
    /\ verified \subseteq Attempts
    /\ served \subseteq Attempts
    /\ llmDelivered \subseteq Attempts
    /\ broken \subseteq Attempts
    /\ llmHeld \subseteq Lanes
    /\ prefixMarker \subseteq Lanes
    /\ llmFailure \in BOOLEAN

(* Requests of a lane are answered from its recorded attempts, in order,   *)
(* and a response is complete only after its attempt was claimed.          *)
Before ==
    [a \in Attempts |->
        UNION {{Recorded[l][i] : i \in {n \in DOMAIN Recorded[l] :
                   \E m \in DOMAIN Recorded[l] : n < m /\ Recorded[l][m] = a}}
               : l \in Lanes}]

Contract == INSTANCE ReplayContract WITH
    Ops <- Attempts,
    Enterable <- RecordedAttempts,
    Answerable <- RecordedAttempts,
    entered <- Granted,
    answered <- llmDelivered

ImplementsContract == Contract!Spec

(* A claim is granted once, and a claimed attempt that can no longer be    *)
(* delivered has raised the hard failure: unlike a boundary completion, no *)
(* LLM slot is lost without the supervisor hearing of it (`_handle').      *)
NoSilentLoss ==
    /\ \A a \in Attempts : grants[a] <= 1
    /\ Granted = engine \cup served \cup broken
    /\ engine \cap (served \cup broken) = {}
    /\ llmDelivered \cap broken = {}
    /\ broken # {} => llmFailure

(* A forced replay reports an attempt served only after the engine ran it  *)
(* and the audit agreed (`_replay', `_run_upstream').                      *)
EvidenceIsEarned ==
    /\ llmDelivered \subseteq served
    /\ forced => served \subseteq verified

(* A request past its lane's end is held only when the lane was claimed to *)
(* its end; and, for an actor the source saw finish, when every response   *)
(* of the lane was delivered (`_claim').  A session is marked as consumed, *)
(* which the restart control relies on, only when it has every recorded    *)
(* response (`mark_session_prefix_consumed').                              *)
HeldLaneIsFinished ==
    /\ \A l \in llmHeld :
          /\ AttemptsOf(l) \subseteq Granted
          /\ LaneActor[l] \notin LiveActors => AttemptsOf(l) \subseteq llmDelivered
    /\ \A l \in prefixMarker : Recorded[l] # <<>> /\ AttemptsOf(l) \subseteq llmDelivered

=============================================================================

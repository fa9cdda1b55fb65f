--------------------------- MODULE LLMStore_proofs ---------------------------
(***************************************************************************)
(* Theorems of the LLM store in replay, for every recording.               *)
(*                                                                         *)
(* As in the boundary ledger, what matters is said of attempts while       *)
(* `_claim' decides by a lane's sequence number.  Positions ties the two;  *)
(* Accounting says where a claimed attempt is between its claim and the    *)
(* last byte of its response; HeldAtEnd why a lane holds a request.        *)
(***************************************************************************)
EXTENDS LLMStore, TLAPS

USE DEF LLMRequests

(* The lanes are sequences of attempts. *)
LEMMA LaneFacts ==
    ASSUME NEW l \in Lanes
    PROVE  /\ Len(Recorded[l]) \in Nat
           /\ DOMAIN Recorded[l] = 1..Len(Recorded[l])
           /\ \A i \in 1..Len(Recorded[l]) : Recorded[l][i] \in Attempts
           /\ AttemptsOf(l) = {Recorded[l][i] : i \in 1..Len(Recorded[l])}
           /\ AttemptsOf(l) \subseteq RecordedAttempts
<1>1. Recorded[l] \in Seq(Attempts)
  BY RecordingAssumption
<1>2. DOMAIN Recorded[l] = 1..Len(Recorded[l])
  BY <1>1
<1>3. AttemptsOf(l) = {Recorded[l][i] : i \in 1..Len(Recorded[l])}
  BY <1>2 DEF AttemptsOf
<1>4. AttemptsOf(l) \subseteq RecordedAttempts
  BY DEF RecordedAttempts
<1> QED BY <1>1, <1>2, <1>3, <1>4

(* An attempt is recorded in one lane, at one place of it. *)
LEMMA OnePlace ==
    ASSUME NEW j \in Lanes, NEW l \in Lanes,
           NEW m \in 1..Len(Recorded[j]), NEW n \in 1..Len(Recorded[l]),
           Recorded[j][m] = Recorded[l][n]
    PROVE  j = l /\ m = n
<1>1. m \in DOMAIN Recorded[j] /\ n \in DOMAIN Recorded[l]
  BY LaneFacts
<1> QED BY <1>1, RecordingAssumption

LEMMA RecordedPlace ==
    ASSUME NEW a \in RecordedAttempts
    PROVE  \E l \in Lanes : \E i \in 1..Len(Recorded[l]) : a = Recorded[l][i]
<1>1. PICK l \in Lanes : a \in AttemptsOf(l)
  BY DEF RecordedAttempts
<1> QED BY <1>1, LaneFacts

(* What a request is compared with is an attempt of the recording. *)
LEMMA NextFacts ==
    ASSUME TypeOK, NEW l \in Lanes, HasNext(l)
    PROVE  /\ sequence[l] \in Nat
           /\ sequence[l] + 1 \in 1..Len(Recorded[l])
           /\ NextAttempt(l) = Recorded[l][sequence[l] + 1]
           /\ NextAttempt(l) \in Attempts
           /\ NextAttempt(l) \in RecordedAttempts
<1>1. sequence[l] \in Nat /\ sequence[l] + 1 \in 1..Len(Recorded[l])
  BY LaneFacts DEF TypeOK, HasNext
<1> QED BY <1>1, LaneFacts DEF NextAttempt

-----------------------------------------------------------------------------
(* Type correctness *)

LEMMA TypeInit == Init => TypeOK
<1> SUFFICES ASSUME Init PROVE TypeOK
  OBVIOUS
<1>1. sequence \in [Lanes -> Nat] /\ \A l \in Lanes : sequence[l] <= Len(Recorded[l])
  BY LaneFacts DEF Init
<1>2. grants \in [Attempts -> Nat] /\ forced \in BOOLEAN
  BY DEF Init
<1> QED BY <1>1, <1>2 DEF Init, TypeOK

LEMMA TypeStep == TypeOK /\ [Next]_llmVars => TypeOK'
<1> SUFFICES ASSUME TypeOK, [Next]_llmVars PROVE TypeOK'
  OBVIOUS
<1>1. ASSUME NEW r \in LLMRequests, ClaimAttempt(r) PROVE TypeOK'
  <2>1. /\ r.lane \in Lanes
        /\ sequence[r.lane] + 1 \in 1..Len(Recorded[r.lane])
        /\ NextAttempt(r.lane) \in Attempts
    BY <1>1, NextFacts DEF ClaimAttempt
  <2>2. /\ sequence' \in [Lanes -> Nat]
        /\ \A l \in Lanes : sequence'[l] <= Len(Recorded[l])
    BY <1>1, <2>1, LaneFacts DEF ClaimAttempt, TypeOK
  <2>3. grants' \in [Attempts -> Nat]
    BY <1>1, <2>1 DEF ClaimAttempt, TypeOK
  <2>4. engine' \subseteq Attempts /\ served' \subseteq Attempts
    BY <1>1, <2>1 DEF ClaimAttempt, TypeOK
  <2> QED BY <1>1, <2>2, <2>3, <2>4 DEF ClaimAttempt, TypeOK
<1>2. ASSUME NEW r \in LLMRequests, NEW d \in BOOLEAN, NEW p \in BOOLEAN,
             HoldRequest(r, d, p)
      PROVE  TypeOK'
  BY <1>2 DEF HoldRequest, TypeOK
<1>3. CASE LLMFail
  BY <1>3 DEF LLMFail, TypeOK
<1>4. ASSUME NEW a \in Attempts, EngineVerified(a) \/ EngineFailed(a) PROVE TypeOK'
  BY <1>4 DEF EngineVerified, EngineFailed, TypeOK
<1>5. ASSUME NEW a \in Attempts, DeliverResponse(a) \/ ResponseFailed(a) PROVE TypeOK'
  BY <1>5 DEF DeliverResponse, ResponseFailed, TypeOK
<1>6. CASE UNCHANGED llmVars
  BY <1>6 DEF llmVars, TypeOK
<1> QED BY <1>1, <1>2, <1>3, <1>4, <1>5, <1>6 DEF Next, RejectRequest, RejectMalformed

(* Whatever the framework asks and however the engine and the connections  *)
(* behave, no lane's sequence number runs past its recording (`_claim').   *)
THEOREM TypeCorrect == Spec => []TypeOK
BY TypeInit, TypeStep, PTL DEF Spec

-----------------------------------------------------------------------------
(* The inductive invariant *)

(* A lane's sequence number determines which of its attempts were granted. *)
Positions ==
    /\ \A l \in Lanes : \A i \in 1..Len(Recorded[l]) :
          grants[Recorded[l][i]] = IF i <= sequence[l] THEN 1 ELSE 0
    /\ \A a \in Attempts : a \notin RecordedAttempts => grants[a] = 0

(* A granted attempt is at the engine, has its evidence, or is broken, and *)
(* a broken one was heard of.                                              *)
Accounting ==
    /\ Granted = engine \cup served \cup broken
    /\ engine \cap (served \cup broken) = {}
    /\ llmDelivered \cap broken = {}
    /\ broken # {} => llmFailure
    /\ EvidenceIsEarned

(* A lane that holds a request was claimed to its end. *)
HeldAtEnd ==
    /\ \A l \in llmHeld :
          /\ sequence[l] = Len(Recorded[l])
          /\ LaneActor[l] \notin LiveActors => AttemptsOf(l) \subseteq llmDelivered
    /\ \A l \in prefixMarker : LLMLaneComplete(l)

IInv == TypeOK /\ Positions /\ Accounting /\ HeldAtEnd

(* The attempt a claim returns was never granted before. *)
LEMMA FreshAttempt ==
    ASSUME TypeOK, Positions, NEW l \in Lanes, HasNext(l)
    PROVE  grants[NextAttempt(l)] = 0
<1>1. ~(sequence[l] + 1 <= sequence[l])
  BY NextFacts
<1> QED BY <1>1, NextFacts DEF Positions

LEMMA PositionsStep ==
    ASSUME TypeOK, Positions, [Next]_llmVars PROVE Positions'
<1>1. ASSUME NEW r \in LLMRequests, ClaimAttempt(r) PROVE Positions'
  <2> DEFINE lane == r.lane
             a == NextAttempt(lane)
  <2>1. /\ lane \in Lanes
        /\ sequence[lane] \in Nat
        /\ sequence[lane] + 1 \in 1..Len(Recorded[lane])
        /\ a = Recorded[lane][sequence[lane] + 1]
        /\ a \in Attempts /\ a \in RecordedAttempts
        /\ grants[a] = 0
    BY <1>1, NextFacts, FreshAttempt DEF ClaimAttempt
  <2>2. /\ sequence' = [sequence EXCEPT ![lane] = @ + 1]
        /\ grants' = [grants EXCEPT ![a] = @ + 1]
    BY <1>1 DEF ClaimAttempt
  <2> HIDE DEF a
  <2>3. ASSUME NEW l \in Lanes, NEW i \in 1..Len(Recorded[l])
        PROVE  grants'[Recorded[l][i]] = IF i <= sequence'[l] THEN 1 ELSE 0
    <3>1. CASE l = lane /\ i = sequence[lane] + 1
      BY <2>1, <2>2, <3>1 DEF TypeOK
    <3>2. CASE ~(l = lane /\ i = sequence[lane] + 1)
      <4>1. Recorded[l][i] # a /\ Recorded[l][i] \in Attempts
        BY <2>1, <3>2, OnePlace, LaneFacts
      <4>2. i <= sequence'[l] <=> i <= sequence[l]
        BY <2>1, <2>2, <3>2, LaneFacts DEF TypeOK
      <4> QED BY <2>1, <2>2, <4>1, <4>2 DEF TypeOK, Positions
    <3> QED BY <3>1, <3>2
  <2>4. \A b \in Attempts : b \notin RecordedAttempts => grants'[b] = 0
    BY <2>1, <2>2 DEF Positions, TypeOK
  <2> QED BY <2>3, <2>4 DEF Positions
<1>2. ASSUME UNCHANGED <<sequence, grants>> PROVE Positions'
  BY <1>2 DEF Positions
<1> QED BY <1>1, <1>2
        DEF Next, llmVars, HoldRequest, RejectRequest, RejectMalformed, LLMFail,
            EngineVerified, EngineFailed, DeliverResponse, ResponseFailed

LEMMA AccountingStep ==
    ASSUME TypeOK, Positions, Accounting, [Next]_llmVars PROVE Accounting'
<1>1. ASSUME NEW r \in LLMRequests, ClaimAttempt(r) PROVE Accounting'
  <2> DEFINE a == NextAttempt(r.lane)
  <2>1. r.lane \in Lanes /\ a \in Attempts /\ grants[a] = 0
    BY <1>1, NextFacts, FreshAttempt DEF ClaimAttempt
  <2>2. /\ grants' = [grants EXCEPT ![a] = @ + 1]
        /\ engine' = IF forced THEN engine \cup {a} ELSE engine
        /\ served' = IF forced THEN served ELSE served \cup {a}
        /\ UNCHANGED <<forced, verified, llmDelivered, broken, llmFailure>>
    BY <1>1 DEF ClaimAttempt
  <2> HIDE DEF a
  <2>3. Granted' = Granted \cup {a}
    BY <2>1, <2>2 DEF Granted, TypeOK
  <2>4. a \notin engine \cup served \cup broken
    BY <2>1 DEF Accounting, Granted
  <2> QED BY <2>2, <2>3, <2>4 DEF Accounting, EvidenceIsEarned
<1>2. ASSUME NEW a \in Attempts, EngineVerified(a) \/ EngineFailed(a) PROVE Accounting'
  <2>1. Granted' = Granted /\ a \notin llmDelivered
    BY <1>2 DEF EngineVerified, EngineFailed, Granted, Accounting, EvidenceIsEarned
  <2>2. CASE EngineVerified(a)
    BY <2>1, <2>2 DEF EngineVerified, Accounting, EvidenceIsEarned
  <2>3. CASE EngineFailed(a)
    BY <2>1, <2>3 DEF EngineFailed, Accounting, EvidenceIsEarned
  <2> QED BY <1>2, <2>2, <2>3
<1>3. ASSUME NEW a \in Attempts, DeliverResponse(a) \/ ResponseFailed(a) PROVE Accounting'
  <2>1. Granted' = Granted /\ a \in served \ (llmDelivered \cup broken)
    BY <1>3 DEF DeliverResponse, ResponseFailed, Granted, Writing
  <2>2. CASE DeliverResponse(a)
    BY <2>1, <2>2 DEF DeliverResponse, Accounting, EvidenceIsEarned
  <2>3. CASE ResponseFailed(a)
    BY <2>1, <2>3 DEF ResponseFailed, Accounting, EvidenceIsEarned
  <2> QED BY <1>3, <2>2, <2>3
<1>4. ASSUME NEW r \in LLMRequests, NEW d \in BOOLEAN, NEW p \in BOOLEAN,
             HoldRequest(r, d, p)
      PROVE  Accounting'
  BY <1>4 DEF HoldRequest, Accounting, EvidenceIsEarned, Granted
<1>5. CASE LLMFail
  BY <1>5 DEF LLMFail, Accounting, EvidenceIsEarned, Granted
<1>6. CASE UNCHANGED llmVars
  BY <1>6 DEF llmVars, Accounting, EvidenceIsEarned, Granted
<1> QED BY <1>1, <1>2, <1>3, <1>4, <1>5, <1>6 DEF Next, RejectRequest, RejectMalformed

LEMMA HeldStep ==
    ASSUME TypeOK, HeldAtEnd, [Next]_llmVars PROVE HeldAtEnd'
<1>1. llmDelivered \subseteq llmDelivered'
  BY DEF Next, llmVars, ClaimAttempt, HoldRequest, RejectRequest, RejectMalformed, LLMFail,
         EngineVerified, EngineFailed, DeliverResponse, ResponseFailed
<1>2. ASSUME NEW r \in LLMRequests, ClaimAttempt(r) PROVE HeldAtEnd'
  <2>1. r.lane \in Lanes /\ r.lane \notin llmHeld
    BY <1>2, NextFacts DEF ClaimAttempt, HasNext, HeldAtEnd
  <2>2. /\ \A l \in Lanes \ {r.lane} : sequence'[l] = sequence[l]
        /\ UNCHANGED <<llmHeld, prefixMarker, llmDelivered>>
    BY <1>2 DEF ClaimAttempt, TypeOK
  <2> QED BY <2>1, <2>2 DEF HeldAtEnd, LLMLaneComplete, TypeOK
<1>3. ASSUME NEW r \in LLMRequests, NEW d \in BOOLEAN, NEW p \in BOOLEAN,
             HoldRequest(r, d, p)
      PROVE  HeldAtEnd'
  <2>1. /\ r.lane \in Lanes
        /\ sequence[r.lane] = Len(Recorded[r.lane])
    BY <1>3, LaneFacts DEF HoldRequest, HasNext, TypeOK
  <2>2. LaneActor[r.lane] \notin LiveActors => AttemptsOf(r.lane) \subseteq llmDelivered
    BY <1>3, <2>1, LaneFacts DEF HoldRequest, MayHold, LLMExpectedComplete, LLMLaneComplete
  <2>3. /\ llmHeld' = llmHeld \cup {r.lane}
        /\ prefixMarker' = prefixMarker \cup {l \in {r.lane} : LLMLaneComplete(l)}
        /\ UNCHANGED <<sequence, llmDelivered>>
    BY <1>3 DEF HoldRequest
  <2> QED BY <2>1, <2>2, <2>3 DEF HeldAtEnd, LLMLaneComplete
<1>4. ASSUME UNCHANGED <<sequence, llmHeld, prefixMarker>> PROVE HeldAtEnd'
  BY <1>1, <1>4 DEF HeldAtEnd, LLMLaneComplete
<1> QED BY <1>2, <1>3, <1>4
        DEF Next, llmVars, RejectRequest, RejectMalformed, LLMFail, EngineVerified,
            EngineFailed, DeliverResponse, ResponseFailed

LEMMA InvInit == Init => IInv
<1> SUFFICES ASSUME Init PROVE IInv
  OBVIOUS
<1>1. TypeOK
  BY TypeInit
<1>2. Positions
  BY LaneFacts DEF Init, Positions
<1>3. Accounting /\ HeldAtEnd
  BY DEF Init, Accounting, HeldAtEnd, EvidenceIsEarned, Granted
<1> QED BY <1>1, <1>2, <1>3 DEF IInv

LEMMA InvStep == IInv /\ [Next]_llmVars => IInv'
BY TypeStep, PositionsStep, AccountingStep, HeldStep DEF IInv

LEMMA Invariance == Spec => []IInv
BY InvInit, InvStep, PTL DEF Spec

-----------------------------------------------------------------------------
(* Safety *)

LEMMA AtMostOneGrant == TypeOK /\ Positions => \A a \in Attempts : grants[a] <= 1
<1> SUFFICES ASSUME TypeOK, Positions, NEW a \in Attempts PROVE grants[a] <= 1
  OBVIOUS
<1>1. CASE a \in RecordedAttempts
  BY <1>1, RecordedPlace DEF Positions
<1> QED BY <1>1 DEF Positions

(* An attempt is granted once, and one that can no longer be delivered has *)
(* raised the hard failure (`_handle' turns every exception into it).      *)
THEOREM NothingLostSilently == Spec => []NoSilentLoss
<1>1. IInv => NoSilentLoss
  BY AtMostOneGrant DEF IInv, Accounting, NoSilentLoss
<1> QED BY <1>1, Invariance, PTL

(* In a forced mode no response leaves before the engine ran the recorded  *)
(* tokens and the audit agreed (`_replay', `_run_upstream').               *)
THEOREM EvidenceEarned == Spec => []EvidenceIsEarned
<1>1. IInv => EvidenceIsEarned
  BY DEF IInv, Accounting
<1> QED BY <1>1, Invariance, PTL

(* A request is held, and a session marked as consumed, only when the lane *)
(* has nothing left to give (`_claim', `mark_session_prefix_consumed').    *)
THEOREM HeldMeansFinished == Spec => []HeldLaneIsFinished
<1>1. IInv => HeldLaneIsFinished
  <2> SUFFICES ASSUME IInv PROVE HeldLaneIsFinished
    OBVIOUS
  <2>1. ASSUME NEW l \in llmHeld PROVE AttemptsOf(l) \subseteq Granted
    <3>1. l \in Lanes /\ sequence[l] = Len(Recorded[l])
      BY DEF IInv, TypeOK, HeldAtEnd
    <3>2. \A i \in 1..Len(Recorded[l]) : Recorded[l][i] \in Granted
      BY <3>1, LaneFacts DEF IInv, Positions, Granted
    <3> QED BY <3>1, <3>2, LaneFacts
  <2>2. \A l \in llmHeld : LaneActor[l] \notin LiveActors => AttemptsOf(l) \subseteq llmDelivered
    BY DEF IInv, HeldAtEnd
  <2>3. \A l \in prefixMarker : Recorded[l] # <<>> /\ AttemptsOf(l) \subseteq llmDelivered
    BY DEF IInv, HeldAtEnd, LLMLaneComplete
  <2> QED BY <2>1, <2>2, <2>3 DEF HeldLaneIsFinished
<1> QED BY <1>1, Invariance, PTL

-----------------------------------------------------------------------------
(* Refinement *)

(* What stands ahead of an attempt, with its place. *)
LEMMA BeforeFacts ==
    ASSUME NEW a \in Attempts, NEW x \in Before[a]
    PROVE  \E l \in Lanes : \E n \in 1..Len(Recorded[l]) :
              x = Recorded[l][n] /\ \E m \in 1..Len(Recorded[l]) : n < m /\ Recorded[l][m] = a
<1>1. PICK l \in Lanes :
          x \in {Recorded[l][i] : i \in {n \in DOMAIN Recorded[l] :
                     \E m \in DOMAIN Recorded[l] : n < m /\ Recorded[l][m] = a}}
  BY DEF Before
<1> QED BY <1>1, LaneFacts

(* The attempts ahead of a claimed one were granted. *)
LEMMA Predecessors ==
    ASSUME IInv, NEW l \in Lanes, HasNext(l)
    PROVE  Before[NextAttempt(l)] \subseteq Granted
<1> DEFINE a == NextAttempt(l)
<1>1. /\ sequence[l] \in Nat
      /\ sequence[l] + 1 \in 1..Len(Recorded[l])
      /\ a = Recorded[l][sequence[l] + 1]
      /\ a \in Attempts
  BY NextFacts DEF IInv
<1> HIDE DEF a
<1> SUFFICES ASSUME NEW j \in Lanes, NEW n \in 1..Len(Recorded[j]), NEW m \in 1..Len(Recorded[j]),
                    n < m, Recorded[j][m] = a
             PROVE  Recorded[j][n] \in Granted
  BY <1>1, BeforeFacts DEF a
<1>2. j = l /\ m = sequence[l] + 1
  BY <1>1, OnePlace
<1>3. n <= sequence[l] /\ Recorded[l][n] \in Attempts
  BY <1>1, <1>2, LaneFacts
<1> QED BY <1>2, <1>3 DEF IInv, Positions, Granted

LEMMA ContractStep == IInv /\ [Next]_llmVars => [Contract!Next]_Contract!contractVars
<1> SUFFICES ASSUME IInv, [Next]_llmVars
             PROVE  Contract!Next \/ UNCHANGED Contract!contractVars
  OBVIOUS
<1>1. ASSUME NEW r \in LLMRequests, ClaimAttempt(r) PROVE Contract!Next
  <2> DEFINE a == NextAttempt(r.lane)
  <2>1. /\ r.lane \in Lanes /\ HasNext(r.lane)
        /\ a \in Attempts /\ a \in RecordedAttempts
        /\ grants[a] = 0
    BY <1>1, NextFacts, FreshAttempt DEF ClaimAttempt, IInv
  <2>2. Before[a] \subseteq Granted
    BY <2>1, Predecessors
  <2>3. grants' = [grants EXCEPT ![a] = @ + 1] /\ UNCHANGED llmDelivered
    BY <1>1 DEF ClaimAttempt
  <2> HIDE DEF a
  <2>4. Granted' = Granted \cup {a} /\ a \notin Granted
    BY <2>1, <2>3 DEF Granted, IInv, TypeOK
  <2>5. Contract!Enter(a)
    BY <2>1, <2>2, <2>3, <2>4 DEF Contract!Enter
  <2> QED BY <2>1, <2>5 DEF Contract!Next
<1>2. ASSUME NEW a \in Attempts, DeliverResponse(a) PROVE Contract!Next
  <2>1. /\ a \in Granted /\ a \notin llmDelivered
        /\ llmDelivered' = llmDelivered \cup {a}
        /\ Granted' = Granted
    BY <1>2 DEF DeliverResponse, Writing, Granted, IInv, Accounting
  <2>2. a \in RecordedAttempts
    BY <2>1 DEF IInv, Positions, Granted
  <2>3. Contract!Answer(a)
    BY <2>1, <2>2 DEF Contract!Answer
  <2> QED BY <2>3 DEF Contract!Next
<1>3. ASSUME UNCHANGED <<grants, llmDelivered>> PROVE UNCHANGED Contract!contractVars
  BY <1>3 DEF Contract!contractVars, Granted
<1> QED BY <1>1, <1>2, <1>3
        DEF Next, llmVars, HoldRequest, RejectRequest, RejectMalformed, LLMFail,
            EngineVerified, EngineFailed, ResponseFailed

(* The store implements the replay contract: attempts of a lane are        *)
(* entered once, in recorded order, and only what was claimed is answered. *)
THEOREM Refinement == Spec => ImplementsContract
<1>1. Init => Contract!Init
  BY DEF Init, Contract!Init, Granted
<1> QED BY <1>1, ContractStep, Invariance, PTL DEF Spec, ImplementsContract, Contract!Spec

=============================================================================

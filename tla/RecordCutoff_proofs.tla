------------------------- MODULE RecordCutoff_proofs -------------------------
(***************************************************************************)
(* Theorems of a recording that is cut at any instant, for every set of    *)
(* attempts and operations and every bound of the clock.                   *)
(*                                                                         *)
(* The cutoff lies in the past when it becomes known, and everything runs  *)
(* on until it is stopped.  Lives says what the stores know of an attempt  *)
(* at each instant of its life, Window how the frozen instant lies to the  *)
(* clock and what it has cut; nothing else is needed to see that later     *)
(* writes agree with the freeze.                                           *)
(***************************************************************************)
EXTENDS RecordCutoff, FiniteSetTheorems, WellFoundedInduction, TLAPS

(* An attempt has begun before it ended, is in flight from its begin to    *)
(* its last write, and what left the flight is in the log or was dropped   *)
(* because it ended after a known cutoff.                                  *)
Lives ==
    /\ \A a \in Attempts :
          /\ begun[a] # Never => begun[a] <= clock
          /\ ended[a] # Never => begun[a] <= ended[a] /\ ended[a] <= clock
          /\ a \in inflight => begun[a] # Never
          /\ a \in capturing => ended[a] # Never
          /\ a \in llmLog => ended[a] # Never
          /\ begun[a] # Never /\ a \notin inflight => a \in llmLog \/ PastCutoff(ended[a])
    /\ posted \subseteq reported

(* The frozen instant is the cutoff and is past; what began by then is in  *)
(* the log or was frozen as a tail.                                        *)
Window ==
    /\ cutoff # Never => cutoff <= clock
    /\ pc \in {"running", "aborted"} <=> frozenAt = Never
    /\ frozenAt # Never =>
          /\ frozenAt = cutoff
          /\ frozenAt < clock
          /\ \A a \in Attempts : begun[a] <= frozenAt => a \in llmLog \cup llmTails
    /\ posted \cap boundaryTails = {}

IInv == TypeOK /\ Lives /\ Window

LEMMA Instants ==
    /\ Never \in Nat
    /\ Never \notin Time
    /\ \A t \in Time : t \in Nat /\ t < Never
BY CutoffAssumption DEF Never, Time

-----------------------------------------------------------------------------
(* Type correctness *)

LEMMA InvInit == Init => IInv
<1> SUFFICES ASSUME Init PROVE IInv
  OBVIOUS
<1>1. 0 \in Time /\ Never \in Nat
  BY CutoffAssumption DEF Never, Time
<1>2. TypeOK
  BY <1>1 DEF Init, TypeOK
<1>3. Lives
  BY DEF Init, Lives
<1>4. Window
  BY DEF Init, Window
<1> QED BY <1>2, <1>3, <1>4 DEF IInv

(* The steps that concern one attempt. *)
LEMMA AttemptTypes ==
    ASSUME IInv, NEW a \in Attempts,
           \/ BeginAttempt(a) \/ StreamToolCall(a) \/ EndAttempt(a)
           \/ CaptureArrives(a) \/ AttemptFails(a) \/ InterruptStream(a)
    PROVE  TypeOK'
<1> USE DEF IInv, TypeOK
<1>1. CASE BeginAttempt(a)
  BY <1>1 DEF BeginAttempt, opVars, windowVars
<1>2. CASE StreamToolCall(a)
  BY <1>2 DEF StreamToolCall, opVars, windowVars
<1>3. CASE EndAttempt(a)
  <2>1. a \notin capturing
    BY <1>3 DEF EndAttempt, Lives
  <2> QED BY <1>3, <2>1 DEF EndAttempt, WriteAttempt, opVars, windowVars
<1>4. CASE CaptureArrives(a)
  BY <1>4 DEF CaptureArrives, WriteAttempt, opVars, windowVars
<1>5. CASE AttemptFails(a)
  BY <1>5 DEF AttemptFails, opVars, windowVars
<1>6. CASE InterruptStream(a)
  BY <1>6 DEF InterruptStream, opVars, windowVars
<1> QED BY <1>1, <1>2, <1>3, <1>4, <1>5, <1>6

LEMMA TypeStep == IInv /\ [Next]_vars => TypeOK'
<1> SUFFICES ASSUME IInv, [Next]_vars PROVE TypeOK'
  OBVIOUS
<1> USE DEF IInv, TypeOK
<1>1. ASSUME NEW a \in Attempts,
             \/ BeginAttempt(a) \/ StreamToolCall(a) \/ EndAttempt(a)
             \/ CaptureArrives(a) \/ AttemptFails(a) \/ InterruptStream(a)
      PROVE  TypeOK'
  BY <1>1, AttemptTypes
<1>2. ASSUME NEW o \in Ops, StartOp(o) \/ EndOp(o) \/ ReportOp(o) PROVE TypeOK'
  BY <1>2 DEF StartOp, EndOp, ReportOp, attemptVars, windowVars
<1>3. CASE Tick
  <2>1. clock' \in Time
    BY <1>3, CutoffAssumption DEF Tick, Time
  <2> QED BY <1>3, <2>1 DEF Tick, attemptVars, opVars, windowVars
<1>4. CASE SampleEnd
  BY <1>4 DEF SampleEnd, attemptVars, opVars
<1>5. CASE Freeze
  BY <1>5 DEF Freeze, attemptVars, opVars
<1>6. CASE Stop \/ Abort
  BY <1>6 DEF Stop, Abort, attemptVars, opVars
<1>7. CASE UNCHANGED vars
  BY <1>7 DEF vars, attemptVars, opVars, windowVars
<1> QED BY <1>1, <1>2, <1>3, <1>4, <1>5, <1>6, <1>7 DEF Next, Finished

-----------------------------------------------------------------------------
(* The inductive invariant *)

(* Instants are numbers, and those of an attempt are at most the clock. *)
LEMMA TimesOf ==
    ASSUME IInv, NEW a \in Attempts
    PROVE  /\ clock \in Nat /\ clock < Never /\ Never \in Nat
           /\ begun[a] \in Nat /\ ended[a] \in Nat /\ cutoff \in Nat
           /\ frozenAt # Never => frozenAt \in Nat /\ frozenAt < clock
BY Instants DEF IInv, TypeOK, Window

(* The steps of one attempt keep its life in order. *)
LEMMA AttemptLives ==
    ASSUME IInv, NEW x \in Attempts,
           \/ BeginAttempt(x) \/ StreamToolCall(x) \/ EndAttempt(x)
           \/ CaptureArrives(x) \/ AttemptFails(x) \/ InterruptStream(x)
    PROVE  Lives'
<1> SUFFICES ASSUME NEW a \in Attempts
             PROVE  /\ begun'[a] # Never => begun'[a] <= clock
                    /\ ended'[a] # Never => begun'[a] <= ended'[a] /\ ended'[a] <= clock
                    /\ a \in inflight' => begun'[a] # Never
                    /\ a \in capturing' => ended'[a] # Never
                    /\ a \in llmLog' => ended'[a] # Never
                    /\ begun'[a] # Never /\ a \notin inflight'
                          => a \in llmLog' \/ (frozenAt # Never /\ ended'[a] > frozenAt)
  <2>1. UNCHANGED <<clock, frozenAt, posted, reported>>
    BY DEF BeginAttempt, StreamToolCall, EndAttempt, CaptureArrives, AttemptFails,
           InterruptStream, opVars, windowVars
  <2> QED BY <2>1 DEF Lives, PastCutoff, IInv
<1>1. /\ clock \in Nat /\ clock < Never /\ Never \in Nat
      /\ begun[a] \in Nat /\ ended[a] \in Nat
      /\ begun[x] \in Nat /\ ended[x] \in Nat
  BY TimesOf
<1>2. begun \in [Attempts -> Time \cup {Never}] /\ ended \in [Attempts -> Time \cup {Never}]
  BY DEF IInv, TypeOK
<1>3. /\ begun[a] # Never => begun[a] <= clock
      /\ ended[a] # Never => begun[a] <= ended[a] /\ ended[a] <= clock
      /\ a \in inflight => begun[a] # Never
      /\ a \in capturing => ended[a] # Never
      /\ a \in llmLog => ended[a] # Never
      /\ begun[a] # Never /\ a \notin inflight
            => a \in llmLog \/ (frozenAt # Never /\ ended[a] > frozenAt)
  BY DEF IInv, Lives, PastCutoff
<1>4. CASE BeginAttempt(x)
  <2>1. ended[x] = Never
    BY <1>1, <1>4, TimesOf DEF BeginAttempt, IInv, Lives
  <2> QED BY <1>1, <1>2, <1>3, <1>4, <2>1 DEF BeginAttempt
<1>5. CASE StreamToolCall(x)
  BY <1>3, <1>5 DEF StreamToolCall
<1>6. CASE EndAttempt(x)
  BY <1>1, <1>2, <1>3, <1>6 DEF EndAttempt, WriteAttempt, PastCutoff, IInv, Lives
<1>7. CASE CaptureArrives(x)
  BY <1>1, <1>2, <1>3, <1>7 DEF CaptureArrives, WriteAttempt, PastCutoff
<1>8. CASE AttemptFails(x)
  <2>1. begun[x] <= clock
    BY <1>8 DEF AttemptFails, IInv, Lives
  <2> QED BY <1>1, <1>2, <1>3, <1>8, <2>1 DEF AttemptFails
<1>9. CASE InterruptStream(x)
  <2>1. begun[x] <= clock
    BY <1>9 DEF InterruptStream, IInv, Lives
  <2> QED BY <1>1, <1>2, <1>3, <1>9, <2>1 DEF InterruptStream
<1> QED BY <1>4, <1>5, <1>6, <1>7, <1>8, <1>9

LEMMA LivesStep == IInv /\ [Next]_vars => Lives'
<1> SUFFICES ASSUME IInv, [Next]_vars PROVE Lives'
  OBVIOUS
<1>1. ASSUME NEW a \in Attempts,
             \/ BeginAttempt(a) \/ StreamToolCall(a) \/ EndAttempt(a)
             \/ CaptureArrives(a) \/ AttemptFails(a) \/ InterruptStream(a)
      PROVE  Lives'
  BY <1>1, AttemptLives
<1>2. ASSUME NEW o \in Ops, StartOp(o) \/ EndOp(o) \/ ReportOp(o) PROVE Lives'
  BY <1>2 DEF StartOp, EndOp, ReportOp, attemptVars, windowVars, IInv, Lives, PastCutoff
<1>3. CASE Tick
  <2>1. \A a \in Attempts : /\ begun[a] # Never => begun[a] <= clock + 1
                            /\ ended[a] # Never => ended[a] <= clock + 1
    BY TimesOf DEF IInv, Lives
  <2> QED BY <1>3, <2>1 DEF Tick, attemptVars, opVars, windowVars, IInv, Lives, PastCutoff
<1>4. CASE SampleEnd \/ Stop \/ Abort \/ UNCHANGED vars
  BY <1>4 DEF SampleEnd, Stop, Abort, vars, attemptVars, opVars, windowVars, IInv, Lives, PastCutoff
<1>5. CASE Freeze
  <2>1. frozenAt = Never
    BY <1>5 DEF Freeze, IInv, Window
  <2> QED BY <1>5, <2>1 DEF Freeze, attemptVars, opVars, IInv, Lives, PastCutoff
<1> QED BY <1>1, <1>2, <1>3, <1>4, <1>5 DEF Next, Finished


(* What a step of the stores may do to the logs, given the frozen instant. *)
LEMMA WindowStep == IInv /\ [Next]_vars => Window'
<1> SUFFICES ASSUME IInv, [Next]_vars PROVE Window'
  OBVIOUS
<1>0. /\ clock \in Nat /\ cutoff \in Nat /\ Never \in Nat /\ clock < Never
      /\ frozenAt # Never => frozenAt \in Nat /\ frozenAt < clock
  BY Instants DEF IInv, TypeOK, Window
<1>1. ASSUME NEW x \in Attempts,
             \/ BeginAttempt(x) \/ StreamToolCall(x) \/ EndAttempt(x)
             \/ CaptureArrives(x) \/ AttemptFails(x) \/ InterruptStream(x)
      PROVE  Window'
  <2>1. UNCHANGED <<clock, windowVars, posted>>
    BY <1>1 DEF BeginAttempt, StreamToolCall, EndAttempt, CaptureArrives, AttemptFails,
                InterruptStream, opVars
  <2>2. llmLog \subseteq llmLog'
    BY <1>1 DEF BeginAttempt, StreamToolCall, EndAttempt, CaptureArrives, AttemptFails,
                InterruptStream, WriteAttempt
  <2>3. \A a \in Attempts : begun'[a] = begun[a] \/ begun'[a] = clock
    BY <1>1 DEF BeginAttempt, StreamToolCall, EndAttempt, CaptureArrives, AttemptFails,
                InterruptStream, IInv, TypeOK
  <2> QED BY <1>0, <2>1, <2>2, <2>3 DEF windowVars, IInv, Window
<1>2. ASSUME NEW o \in Ops, StartOp(o) \/ EndOp(o) \/ ReportOp(o) PROVE Window'
  BY <1>2 DEF StartOp, EndOp, ReportOp, attemptVars, windowVars, IInv, Window
<1>3. CASE Tick
  BY <1>0, <1>3 DEF Tick, attemptVars, opVars, windowVars, IInv, Window
<1>4. CASE SampleEnd /\ Alive
  BY <1>0, <1>4 DEF SampleEnd, attemptVars, opVars, IInv, Window
<1>5. CASE Freeze
  <2>1. frozenAt = Never /\ cutoff < clock /\ cutoff # Never
    BY <1>0, <1>5 DEF Freeze, IInv, Window
  <2>2. ASSUME NEW a \in Attempts, begun[a] <= cutoff PROVE a \in llmLog \cup inflight
    <3>1. begun[a] # Never
      BY <1>0, <2>1, <2>2
    <3> QED BY <2>1, <3>1 DEF IInv, Lives, PastCutoff
  <2>3. posted \subseteq reported
    BY DEF IInv, Lives
  <2>4. posted \cap boundaryTails' = {}
    BY <1>5, <2>3 DEF Freeze
  <2> QED BY <1>0, <1>5, <2>1, <2>2, <2>4 DEF Freeze, attemptVars, opVars, IInv, Window
<1>6. CASE Stop \/ Abort
  BY <1>0, <1>6 DEF Stop, Abort, attemptVars, opVars, IInv, Window
<1>7. CASE UNCHANGED vars
  BY <1>7 DEF vars, attemptVars, opVars, windowVars, IInv, Window
<1> QED BY <1>1, <1>2, <1>3, <1>4, <1>5, <1>6, <1>7 DEF Next, Finished

LEMMA Invariance == Spec => []IInv
<1>1. IInv /\ [Next]_vars => IInv'
  BY TypeStep, LivesStep, WindowStep DEF IInv
<1> QED BY <1>1, InvInit, PTL DEF Spec

-----------------------------------------------------------------------------
(* Theorems *)

(* Types, and an attempt waits for its audit only while it is in flight    *)
(* (`_record', `freeze_source_cutoff').                                    *)
THEOREM TypeCorrect == Spec => []TypeOK
<1>1. IInv => TypeOK
  BY DEF IInv
<1> QED BY <1>1, Invariance, PTL

(* Wherever the cutoff falls in an attempt's life and however the freeze   *)
(* is delayed, an attempt of the window is in the log or among the tails   *)
(* (`_write_attempt', `freeze_source_cutoff').                             *)
THEOREM NoAttemptVanishes == Spec => []AttemptsAccounted
<1>1. IInv => AttemptsAccounted
  <2> SUFFICES ASSUME IInv PROVE AttemptsAccounted
    OBVIOUS
  <2>1. ASSUME Done, NEW a \in Attempts, begun[a] <= cutoff PROVE a \in llmLog \cup llmTails
    <3>1. frozenAt # Never /\ frozenAt = cutoff
      BY <2>1 DEF Done, IInv, Window
    <3> QED BY <2>1, <3>1 DEF IInv, Window
  <2>2. ASSUME NEW a \in llmLog PROVE ended[a] # Never /\ begun[a] <= ended[a]
    BY DEF IInv, TypeOK, Lives
  <2> QED BY <2>1, <2>2 DEF AttemptsAccounted
<1> QED BY <1>1, Invariance, PTL

(* What the boundary froze as a tail is not recorded later, although the   *)
(* framework runs on and its end may lie before the cutoff (`complete' of  *)
(* the boundary, materialize_lane_recording).                              *)
THEOREM CutStaysCut == Spec => []CutOpsStayOpen
<1>1. IInv => CutOpsStayOpen
  <2> SUFFICES ASSUME IInv PROVE CutOpsStayOpen
    OBVIOUS
  <2>1. Done => frozenAt = cutoff
    BY DEF Done, IInv, Window
  <2> QED BY <2>1 DEF IInv, Window, CutOpsStayOpen, LaneClosed, InWindow
<1> QED BY <1>1, Invariance, PTL

(* After the freeze the logs grow only by what ended by the cutoff, and    *)
(* the frozen instant never moves (`_write_attempt', `complete').          *)
THEOREM LateWritesAgree == Spec => LateWritesAreInWindow
<1>1. IInv /\ [Next]_vars
         => [frozenAt # Never =>
               /\ frozenAt' = frozenAt
               /\ \A a \in llmLog' \ llmLog : ended[a] <= cutoff
               /\ \A o \in posted' \ posted : opEnd[o] <= cutoff]_vars
  <2> SUFFICES ASSUME IInv, [Next]_vars, frozenAt # Never
               PROVE  /\ frozenAt' = frozenAt
                      /\ \A a \in llmLog' \ llmLog : ended[a] <= cutoff
                      /\ \A o \in posted' \ posted : opEnd[o] <= cutoff
    OBVIOUS
  <2>0. /\ clock \in Nat /\ frozenAt \in Nat /\ frozenAt = cutoff /\ frozenAt < clock
        /\ pc \in {"frozen", "stopped"}
    BY Instants DEF IInv, TypeOK, Window
  <2>1. frozenAt' = frozenAt
    BY <2>0 DEF Next, Finished, BeginAttempt, StreamToolCall, EndAttempt, CaptureArrives, AttemptFails,
                InterruptStream, StartOp, EndOp, ReportOp, Tick, SampleEnd, Freeze, Stop, Abort,
                vars, windowVars
  <2>2. ASSUME NEW a \in llmLog' \ llmLog PROVE ended[a] <= cutoff
    <3>1. \E x \in Attempts : EndAttempt(x) \/ CaptureArrives(x)
      BY <2>0, <2>2 DEF Next, Finished, BeginAttempt, StreamToolCall, AttemptFails,
                InterruptStream, StartOp, EndOp, ReportOp, Tick, SampleEnd, Freeze, Stop, Abort,
                vars, attemptVars
    <3>2. PICK x \in Attempts : EndAttempt(x) \/ CaptureArrives(x)
      BY <3>1
    <3>3. CASE EndAttempt(x)
      BY <2>0, <2>2, <3>3 DEF EndAttempt, WriteAttempt, PastCutoff
    <3>4. CASE CaptureArrives(x)
      <4>1. ended[x] \in Nat
        BY TimesOf
      <4> QED BY <2>0, <2>2, <3>4, <4>1 DEF CaptureArrives, WriteAttempt, PastCutoff
    <3> QED BY <3>2, <3>3, <3>4
  <2>3. ASSUME NEW o \in posted' \ posted PROVE opEnd[o] <= cutoff
    <3>1. \E x \in Ops : ReportOp(x)
      BY <2>0, <2>3 DEF Next, Finished, BeginAttempt, StreamToolCall, EndAttempt, CaptureArrives,
                AttemptFails, InterruptStream, StartOp, EndOp, Tick, SampleEnd, Freeze, Stop, Abort,
                vars, opVars
    <3>2. PICK x \in Ops : ReportOp(x)
      BY <3>1
    <3>3. opEnd[x] \in Nat
      BY Instants DEF IInv, TypeOK
    <3> QED BY <2>0, <2>3, <3>2, <3>3 DEF ReportOp, PastCutoff
  <2> QED BY <2>1, <2>2, <2>3
<1> QED BY <1>1, Invariance, PTL DEF Spec, LateWritesAreInWindow

(* The largest owned set takes in whatever has its parent in it. *)
LEMMA KeptTakes ==
    ASSUME NEW x \in llmLog \cup LedgerOps, NEW y \in Kept, Parent[x] = Parent[y]
    PROVE  x \in Kept
<1>1. PICK kept \in SUBSET (llmLog \cup LedgerOps) : Owned(kept) /\ y \in kept
  BY DEF Kept
<1>2. kept \cup {x} \in SUBSET (llmLog \cup LedgerOps)
  OBVIOUS
<1>3. Owned(kept \cup {x})
  BY <1>1 DEF Owned
<1> QED BY <1>2, <1>3 DEF Kept

(* Every call of a response that is kept is closed and kept, or a tail,    *)
(* wherever the cutoff fell between the response and the call's end        *)
(* (materialize_pre_dispatch_tails, close_stage_at_cutoff).                *)
THEOREM CallsCovered == Spec => []CallsAreCovered
<1>1. CallsAreCovered
  <2> SUFFICES ASSUME NEW o \in Ops, Trigger[o] \in ClosedAttempts
               PROVE  o \in ClosedOps \cup OpTails
    BY DEF CallsAreCovered
  <2>1. CASE o \in LedgerOps
    <3>1. Trigger[o] \in Kept /\ Parent[o] = Parent[Trigger[o]]
      BY CutoffAssumption DEF ClosedAttempts
    <3> QED BY <2>1, <3>1, KeptTakes DEF ClosedOps
  <2>2. CASE o \notin LedgerOps
    BY <2>2 DEF ClosedAttempts, OpTails, Markers
  <2> QED BY <2>1, <2>2
<1> QED BY <1>1, PTL

-----------------------------------------------------------------------------
(* Induction over the calls, from the least counterexample *)

LEMMA LeastNumber ==
    ASSUME NEW S \in SUBSET Nat, S # {}
    PROVE  \E x \in S : \A y \in S : x <= y
<1> DEFINE R == {p \in Nat \X Nat : p[1] < p[2]}
<1>1. IsWellFoundedOn(R, Nat)
  BY NatLessThanWellFounded DEF OpToRel
<1> HIDE DEF R
<1>2. PICK x \in S : \A y \in S : <<y, x>> \notin R
  BY <1>1, WFMin
<1>3. ASSUME NEW y \in S PROVE x <= y
  <2>1. ~(y < x)
    BY <1>2 DEF R
  <2> QED BY <2>1
<1> QED BY <1>3

LEMMA UpTo ==
    ASSUME NEW n \in Nat, NEW S, 0 \in S,
           \A i \in 1..n : i - 1 \in S => i \in S
    PROVE  0..n \subseteq S
<1> DEFINE missed == 0..n \ S
<1> SUFFICES ASSUME missed # {} PROVE FALSE
  OBVIOUS
<1>1. PICK i \in missed : \A j \in missed : i <= j
  <2>1. missed \in SUBSET Nat
    OBVIOUS
  <2> HIDE DEF missed
  <2> QED BY <2>1, LeastNumber
<1>2. i \in 1..n /\ i - 1 \in 0..n
  OBVIOUS
<1> QED BY <1>1, <1>2

-----------------------------------------------------------------------------
(* The adoption of child sessions *)

(* The recursive definition of Adopted has a solution. *)
LEMMA AdoptedExists ==
    \E g : g = [i \in 0..Len(Calls) |->
                  IF i = 0 THEN {} ELSE Adopt(Calls[i], g[i - 1])]
<1> DEFINE n == Len(Calls)
           IsUpTo(g, k) ==
               g = [i \in 0..k |-> IF i = 0 THEN {} ELSE Adopt(Calls[i], g[i - 1])]
           S == {k \in 0..n : \E g : IsUpTo(g, k)}
<1>1. n \in Nat
  BY CutoffAssumption
<1> HIDE DEF n
<1>2. 0 \in S
  <2> DEFINE g == [i \in 0..0 |-> {}]
  <2>1. IsUpTo(g, 0)
    OBVIOUS
  <2> HIDE DEF g
  <2> QED BY <1>1, <2>1
<1>3. ASSUME NEW k \in 1..n, k - 1 \in S PROVE k \in S
  <2>1. PICK g : IsUpTo(g, k - 1)
    BY <1>3
  <2> DEFINE h == [i \in 0..k |-> IF i = k THEN Adopt(Calls[k], g[k - 1]) ELSE g[i]]
  <2>2. \A i \in 0..(k - 1) : h[i] = g[i]
    BY <1>1
  <2>3. IsUpTo(h, k)
    <3>1. ASSUME NEW i \in 0..k
          PROVE  h[i] = IF i = 0 THEN {} ELSE Adopt(Calls[i], h[i - 1])
      <4>1. CASE i = k
        <5>1. k - 1 \in 0..(k - 1)
          BY <1>1
        <5>2. h[k] = Adopt(Calls[k], g[k - 1]) /\ h[k - 1] = g[k - 1]
          BY <2>2, <5>1
        <5> QED BY <4>1, <5>2, <1>1
      <4>2. CASE i # k
        <5>1. i \in 0..(k - 1) /\ (i # 0 => i - 1 \in 0..(k - 1))
          BY <4>2, <1>1
        <5>2. g[i] = IF i = 0 THEN {} ELSE Adopt(Calls[i], g[i - 1])
          BY <2>1, <5>1
        <5> QED BY <2>2, <5>1, <5>2
      <4> QED BY <4>1, <4>2
    <3> QED BY <3>1
  <2> HIDE DEF h
  <2> QED BY <2>3
<1> HIDE DEF S
<1>4. n \in S
  BY <1>1, <1>2, <1>3, UpTo
<1> QED BY <1>4 DEF S, n

LEMMA AdoptedStep ==
    /\ Adopted[0] = {}
    /\ \A i \in 1..Len(Calls) : Adopted[i] = Adopt(Calls[i], Adopted[i - 1])
<1>1. Adopted = [i \in 0..Len(Calls) |->
                    IF i = 0 THEN {} ELSE Adopt(Calls[i], Adopted[i - 1])]
  BY AdoptedExists DEF Adopted
<1>2. \A i \in 0..Len(Calls) :
          Adopted[i] = IF i = 0 THEN {} ELSE Adopt(Calls[i], Adopted[i - 1])
  <2> DEFINE f == Adopted
  <2>1. f = [i \in 0..Len(Calls) |-> IF i = 0 THEN {} ELSE Adopt(Calls[i], f[i - 1])]
    BY <1>1
  <2> HIDE DEF f
  <2>2. \A i \in 0..Len(Calls) : f[i] = IF i = 0 THEN {} ELSE Adopt(Calls[i], f[i - 1])
    BY <2>1
  <2> QED BY <2>2 DEF f
<1>3. Len(Calls) \in Nat /\ 0 \in 0..Len(Calls) /\ 1..Len(Calls) \subseteq 0..Len(Calls)
  BY CutoffAssumption
<1> QED BY <1>2, <1>3
(* The child that is adopted is the first one, so such a child exists. *)
LEMMA FirstChild ==
    ASSUME IInv, NEW A \in SUBSET Attempts, A # {}
    PROVE  \E a \in A : \A x \in A : begun[a] <= begun[x]
<1> DEFINE S == {begun[a] : a \in A}
<1>1. S \in SUBSET Nat /\ S # {}
  BY Instants DEF IInv, TypeOK
<1> HIDE DEF S
<1>2. PICK t \in S : \A u \in S : t <= u
  BY <1>1, LeastNumber
<1> QED BY <1>2 DEF S

(* One call adopts at most one task, for a first child that was free. *)
LEMMA AdoptStep ==
    ASSUME IInv, NEW o, NEW adopted,
           NEW free, free = {a \in ChildrenOf(o) : Parent[a] \notin Spans(adopted)}
    PROVE  \/ /\ ~(o \in Adopters /\ free # {})
              /\ Adopt(o, adopted) = adopted
           \/ \E a \in free :
                 /\ o \in Adopters
                 /\ \A x \in free : begun[a] <= begun[x]
                 /\ Adopt(o, adopted) = adopted \cup {<<o, Parent[a]>>}
<1>1. free \in SUBSET Attempts
  BY DEF ChildrenOf, IInv, TypeOK
<1>2. CASE ~(o \in Adopters /\ free # {})
  BY <1>2 DEF Adopt
<1>3. CASE o \in Adopters /\ free # {}
  <2> DEFINE first == CHOOSE a \in free : \A x \in free : begun[a] <= begun[x]
  <2>1. first \in free /\ \A x \in free : begun[first] <= begun[x]
    BY <1>1, <1>3, FirstChild
  <2>2. Adopt(o, adopted) = adopted \cup {<<o, Parent[first]>>}
    BY <1>3 DEF Adopt
  <2> HIDE DEF first
  <2> QED BY <1>3, <2>1, <2>2
<1> QED BY <1>2, <1>3

(* Adoption only adds pairs, and no task is adopted by two calls. *)
OnceEach(adopted) ==
    \A p, q \in adopted : p[2] = q[2] => p = q

LEMMA AdoptGrows ==
    ASSUME IInv, NEW o, NEW adopted, OnceEach(adopted)
    PROVE  adopted \subseteq Adopt(o, adopted) /\ OnceEach(Adopt(o, adopted))
<1> DEFINE free == {a \in ChildrenOf(o) : Parent[a] \notin Spans(adopted)}
<1>1. CASE Adopt(o, adopted) = adopted
  BY <1>1
<1>2. CASE \E a \in free : Adopt(o, adopted) = adopted \cup {<<o, Parent[a]>>}
  <2>1. PICK a \in free : Adopt(o, adopted) = adopted \cup {<<o, Parent[a]>>}
    BY <1>2
  <2>2. \A p \in adopted : p[2] # Parent[a]
    BY DEF Spans
  <2>3. <<o, Parent[a]>>[2] = Parent[a]
    OBVIOUS
  <2> QED BY <2>1, <2>2, <2>3 DEF OnceEach
<1> QED BY <1>1, <1>2, AdoptStep

LEMMA AdoptedOnce ==
    ASSUME IInv
    PROVE  \A i \in 0..Len(Calls) :
              OnceEach(Adopted[i]) /\ \A j \in 0..i : Adopted[j] \subseteq Adopted[i]
<1> DEFINE n == Len(Calls)
           Good(i) == OnceEach(Adopted[i]) /\ \A j \in 0..i : Adopted[j] \subseteq Adopted[i]
           S == {i \in 0..n : Good(i)}
<1>1. n \in Nat
  BY CutoffAssumption
<1>2. \A i \in 1..n : Adopted[i] = Adopt(Calls[i], Adopted[i - 1])
  BY AdoptedStep
<1>3. 0 \in S
  BY <1>1, AdoptedStep DEF OnceEach
<1> HIDE DEF n
<1>4. ASSUME NEW i \in 1..n, i - 1 \in S PROVE i \in S
  <2>1. Adopted[i - 1] \subseteq Adopted[i] /\ OnceEach(Adopted[i])
    BY <1>2, <1>4, AdoptGrows
  <2>2. ASSUME NEW j \in 0..i PROVE Adopted[j] \subseteq Adopted[i]
    <3>1. j \in 0..(i - 1) \/ j = i
      BY <1>1
    <3> QED BY <1>4, <2>1, <3>1
  <2> QED BY <2>1, <2>2
<1> HIDE DEF S
<1>5. 0..n \subseteq S
  BY <1>1, <1>3, <1>4, UpTo
<1> QED BY <1>5 DEF S, n

LEMMA OpsAreFinite == IsFiniteSet(Ops)
<1> DEFINE n == Len(Calls)
<1>1. n \in Nat /\ DOMAIN Calls = 1..n
  BY CutoffAssumption
<1>2. IsFiniteSet(1..n)
  BY <1>1, FS_Interval
<1>3. Calls \in Surjection(DOMAIN Calls, Ops)
  BY CutoffAssumption DEF Surjection
<1> QED BY <1>1, <1>2, <1>3, FS_Surjection

(* With nothing but its own open tasks below a session, as many tasks are  *)
(* adopted as have children: if one were left over, every task whose       *)
(* response ended no later than its first child would have adopted another *)
(* one of these tasks, which are too few.                                  *)
LEMMA OpenTaskIsAdopted ==
    ASSUME IInv, NEW a \in llmLog, Parent[a] # NoParent,
           OnlyOpenBelow(Parent[Parent[a]])
    PROVE  Parent[a] \in OpenParents
<1> DEFINE o == Parent[a]
           s == Parent[o]
           T == {t \in Composite : /\ t \in Markers /\ Parent[t] = s
                                   /\ ended[Trigger[t]] <= begun[a]}
           n == Len(Calls)
<1>1. /\ Composite \subseteq Ops /\ Trigger \in [Ops -> Attempts]
      /\ \A x \in Attempts \cup Ops : Parent[x] \in Composite \cup {NoParent}
      /\ n \in Nat /\ DOMAIN Calls = 1..n /\ Ops = {Calls[i] : i \in 1..n}
  BY CutoffAssumption
<1>2. /\ llmLog \subseteq Attempts
      /\ \A x \in Attempts : begun[x] \in Nat /\ ended[x] \in Nat
  BY TimesOf DEF IInv, TypeOK
<1>3. o \in Composite /\ o \in Below(s)
  BY <1>1, <1>2 DEF Below
<1>4. \A x \in llmLog : Parent[x] \in Below(s) =>
          /\ Parent[x] \in Markers /\ Parent[Parent[x]] = s
          /\ begun[x] >= ended[Trigger[Parent[x]]]
  BY DEF OnlyOpenBelow
<1>5. o \in T
  <2>1. o \in Markers /\ begun[a] >= ended[Trigger[o]]
    BY <1>3, <1>4
  <2>2. begun[a] \in Nat /\ ended[Trigger[o]] \in Nat
    BY <1>1, <1>2, <1>3
  <2> QED BY <1>3, <2>1, <2>2
<1> SUFFICES ASSUME o \notin Spans(Adoption) PROVE FALSE
  BY DEF OpenParents
<1>6. ASSUME NEW t \in T PROVE \E x \in T \ {o} : <<t, x>> \in Adoption
  <2>1. PICK i \in 1..n : Calls[i] = t
    BY <1>1
  <2>2. i - 1 \in 0..n /\ i \in 0..n /\ n \in 0..n /\ i - 1 \in 0..n
    BY <1>1
  <2> DEFINE free == {x \in ChildrenOf(t) : Parent[x] \notin Spans(Adopted[i - 1])}
  <2>3. a \in free
    <3>1. a \in ChildrenOf(t)
      BY <1>1, <1>2, <1>3 DEF ChildrenOf
    <3>2. Adopted[i - 1] \subseteq Adoption
      BY <2>2, <1>1, AdoptedOnce DEF Adoption
    <3> QED BY <3>1, <3>2 DEF Spans
  <2>4. t \in Adopters
    BY DEF Adopters
  <2> HIDE DEF free, T
  <2>5. PICK x \in free :
           /\ begun[x] <= begun[a]
           /\ Adopt(t, Adopted[i - 1]) = Adopted[i - 1] \cup {<<t, Parent[x]>>}
    <3>1. free # {} /\ t \in Adopters
      BY <2>3, <2>4
    <3> QED BY <2>3, <3>1, AdoptStep DEF free
  <2>6. <<t, Parent[x]>> \in Adoption
    <3>1. Adopted[i] = Adopt(t, Adopted[i - 1])
      BY <2>1, AdoptedStep
    <3>2. Adopted[i] \subseteq Adoption
      BY <2>2, AdoptedOnce DEF Adoption
    <3> QED BY <2>5, <3>1, <3>2
  <2>7. x \in llmLog /\ Parent[x] \in Below(s)
    BY DEF free, ChildrenOf, T
  <2>8. /\ Parent[x] \in Composite /\ Parent[x] \in Markers /\ Parent[Parent[x]] = s
        /\ begun[x] >= ended[Trigger[Parent[x]]]
    BY <1>4, <2>7 DEF Below
  <2>9. Parent[x] \in T
    <3>1. begun[x] \in Nat /\ begun[a] \in Nat /\ ended[Trigger[Parent[x]]] \in Nat
      BY <1>1, <1>2, <2>7, <2>8
    <3>2. ended[Trigger[Parent[x]]] <= begun[a]
      BY <2>5, <2>8, <3>1
    <3> QED BY <2>8, <3>2 DEF T
  <2>10. Parent[x] # o
    BY <2>6 DEF Spans
  <2> QED BY <2>6, <2>9, <2>10
<1> DEFINE f == [t \in T |-> CHOOSE x \in T \ {o} : <<t, x>> \in Adoption]
<1>7. \A t \in T : f[t] \in T \ {o} /\ <<t, f[t]>> \in Adoption
  BY <1>6
<1>8. IsFiniteSet(T) /\ IsFiniteSet(T \ {o}) /\ Cardinality(T \ {o}) < Cardinality(T)
  <2>1. IsFiniteSet(T)
    BY <1>1, OpsAreFinite, FS_Subset
  <2> HIDE DEF T, o
  <2>2. IsFiniteSet(T \ {o}) /\ Cardinality(T \ {o}) = Cardinality(T) - 1
    BY <1>5, <2>1, FS_RemoveElement
  <2>3. Cardinality(T) \in Nat
    BY <2>1, FS_CardinalityType
  <2> QED BY <2>1, <2>2, <2>3
<1>9. f \in [T -> T \ {o}]
  BY <1>7
<1> HIDE DEF f, T, o
<1>10. PICK t, u \in T : t # u /\ f[t] = f[u]
  BY <1>8, <1>9, FS_PigeonHole
<1>11. <<t, f[t]>> = <<u, f[u]>>
  <2>1. OnceEach(Adoption)
    BY <1>1, AdoptedOnce DEF Adoption
  <2> QED BY <1>7, <1>10, <2>1 DEF OnceEach
<1> QED BY <1>10, <1>11

(* What hangs below a record that is kept, or below an open task, is kept. *)
LEMMA KeptBelow ==
    ASSUME NEW x \in llmLog \cup LedgerOps,
           Parent[x] \in Kept \cup OpenParents \cup {NoParent}
    PROVE  x \in Kept
<1>1. Owned(Kept)
  BY DEF Kept, Owned
<1>2. Kept \cup {x} \in SUBSET (llmLog \cup LedgerOps)
  BY DEF Kept
<1>3. Owned(Kept \cup {x})
  BY <1>1 DEF Owned
<1> QED BY <1>2, <1>3 DEF Kept

(* Closed work of a child session is kept with the response that asked for *)
(* its task, if the task closed or cannot be mistaken for another one      *)
(* (child_parent_for, close_stage_at_cutoff).                              *)
THEOREM ChildrenSurvive == Spec => []DescendantsSurvive
<1>1. IInv => DescendantsSurvive
  <2> SUFFICES ASSUME IInv, NEW a \in llmLog, Parent[a] # NoParent,
                      Trigger[Parent[a]] \in ClosedAttempts,
                      Parent[a] \in LedgerOps \/ OnlyOpenBelow(Parent[Parent[a]])
               PROVE  a \in ClosedAttempts
    BY DEF DescendantsSurvive
  <2>1. a \in Attempts /\ Parent[a] \in Ops
    BY CutoffAssumption DEF IInv, TypeOK
  <2>2. CASE Parent[a] \in LedgerOps
    <3>1. Parent[Parent[a]] = Parent[Trigger[Parent[a]]] /\ Trigger[Parent[a]] \in Kept
      BY <2>1, CutoffAssumption DEF ClosedAttempts
    <3>2. Parent[a] \in Kept
      BY <2>2, <3>1, KeptTakes
    <3> QED BY <3>2, KeptBelow DEF ClosedAttempts
  <2>3. CASE OnlyOpenBelow(Parent[Parent[a]])
    BY <2>3, OpenTaskIsAdopted, KeptBelow DEF ClosedAttempts
  <2> QED BY <2>2, <2>3
<1> QED BY <1>1, Invariance, PTL

=============================================================================

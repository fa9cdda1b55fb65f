----------------------- MODULE BoundaryLedger_proofs -----------------------
(***************************************************************************)
(* Theorems of the boundary ledger, for every recording.                   *)
(*                                                                         *)
(* The invariants that matter speak of operations; the ledger decides by   *)
(* cursors.  The inductive invariant ties the two: Positions says that the *)
(* cursors alone determine what was entered, Accounting that an entered    *)
(* operation is in one place only, Justified why a lane has a held call.   *)
(***************************************************************************)
EXTENDS BoundaryLedger, TLAPS

USE DEF Requests, Entry, NotStarted

(* The queues are sequences of operations. *)
LEMMA QueueFacts ==
    ASSUME NEW k \in Keys
    PROVE  /\ Len(Expected[k]) \in Nat
           /\ DOMAIN Expected[k] = 1..Len(Expected[k])
           /\ \A i \in 1..Len(Expected[k]) : Expected[k][i] \in Ops
           /\ Len(CutoffExpected[k]) \in Nat
           /\ DOMAIN CutoffExpected[k] = 1..Len(CutoffExpected[k])
           /\ \A i \in 1..Len(CutoffExpected[k]) : CutoffExpected[k][i] \in Ops
BY BundleAssumption

(* The slot a request is compared with is an operation of the recording.   *)
LEMMA SlotFacts ==
    ASSUME TypeOK, NEW k \in Keys
    PROVE  /\ AtClosed(k) => /\ cursor[k] + 1 \in 1..Len(Expected[k])
                             /\ NextClosed(k) \in Ops
           /\ AtTail(k) => /\ cutoffCursor[k] + 1 \in 1..Len(CutoffExpected[k])
                           /\ NextTail(k) \in Ops
                           /\ cursor[k] = Len(Expected[k])
BY QueueFacts DEF TypeOK, AtClosed, AtTail, NextClosed, NextTail

-----------------------------------------------------------------------------
(* Type correctness *)

LEMMA TypeInit == Init => TypeOK
<1> SUFFICES ASSUME Init PROVE TypeOK
  OBVIOUS
<1>1. /\ cursor \in [Keys -> Nat]
      /\ cutoffCursor \in [Keys -> Nat]
      /\ entries \in [Ops -> Nat]
      /\ held \subseteq Keys
  BY DEF Init
<1>2. \A k \in Keys : /\ cursor[k] <= Len(Expected[k])
                      /\ cutoffCursor[k] <= Len(CutoffExpected[k])
  BY QueueFacts DEF Init
<1>3. /\ clock \in 0..MaxClock
      /\ started \in [Ops -> 0..MaxClock \cup {NotStarted}]
  BY BundleAssumption DEF Init
<1>4. /\ active \subseteq Entry
      /\ ledger \subseteq Entry
      /\ delivered \subseteq Ops
      /\ withheld \subseteq Ops
      /\ lost \subseteq Ops
      /\ hardFailure \in BOOLEAN
  BY DEF Init
<1> QED BY <1>1, <1>2, <1>3, <1>4 DEF TypeOK

LEMMA TypeStep == TypeOK /\ [Next]_vars => TypeOK'
<1> SUFFICES ASSUME TypeOK, [Next]_vars PROVE TypeOK'
  OBVIOUS
<1>1. ASSUME NEW r \in Requests, ClaimClosed(r) PROVE TypeOK'
  <2>1. r.key \in Keys /\ r.identity \in Identities
    OBVIOUS
  <2>2. NextClosed(r.key) \in Ops /\ cursor[r.key] + 1 <= Len(Expected[r.key])
    BY <1>1, <2>1, SlotFacts, QueueFacts DEF ClaimClosed
  <2>3. entries' \in [Ops -> Nat] /\ active' \subseteq Entry
    BY <1>1, <2>1, <2>2 DEF ClaimClosed, Reserve, TypeOK
  <2>4. /\ cursor' \in [Keys -> Nat]
        /\ \A k \in Keys : cursor'[k] <= Len(Expected[k])
    BY <1>1, <2>1, <2>2 DEF ClaimClosed, TypeOK
  <2> QED BY <1>1, <2>3, <2>4 DEF ClaimClosed, TypeOK
<1>2. ASSUME NEW r \in Requests, EnterCompositeTail(r) PROVE TypeOK'
  <2>1. r.key \in Keys /\ r.identity \in Identities
    OBVIOUS
  <2>2. /\ NextTail(r.key) \in Ops
        /\ cutoffCursor[r.key] + 1 <= Len(CutoffExpected[r.key])
    BY <1>2, <2>1, SlotFacts, QueueFacts DEF EnterCompositeTail
  <2>3. entries' \in [Ops -> Nat] /\ active' \subseteq Entry
    BY <1>2, <2>1, <2>2 DEF EnterCompositeTail, Reserve, TypeOK
  <2>4. /\ cutoffCursor' \in [Keys -> Nat]
        /\ \A k \in Keys : cutoffCursor'[k] <= Len(CutoffExpected[k])
    BY <1>2, <2>1, <2>2 DEF EnterCompositeTail, TypeOK
  <2>5. started' \in [Ops -> 0..MaxClock \cup {NotStarted}]
    BY <1>2, <2>2 DEF EnterCompositeTail, TypeOK
  <2> QED BY <1>2, <2>3, <2>4, <2>5 DEF EnterCompositeTail, TypeOK
<1>3. ASSUME NEW r \in Requests, InterceptTail(r) PROVE TypeOK'
  <2>1. r.key \in Keys
    OBVIOUS
  <2>2. cutoffCursor[r.key] + 1 <= Len(CutoffExpected[r.key])
    BY <1>3, <2>1, SlotFacts, QueueFacts DEF InterceptTail
  <2>3. /\ cutoffCursor' \in [Keys -> Nat]
        /\ \A k \in Keys : cutoffCursor'[k] <= Len(CutoffExpected[k])
        /\ held' \subseteq Keys
    BY <1>3, <2>1, <2>2 DEF InterceptTail, TypeOK
  <2> QED BY <1>3, <2>3 DEF InterceptTail, TypeOK
<1>4. ASSUME NEW r \in Requests, NEW d \in BOOLEAN, NEW p \in BOOLEAN,
             HoldPastEnd(r, d, p) \/ RejectStart(r, d, p)
      PROVE  TypeOK'
  BY <1>4 DEF HoldPastEnd, RejectStart, Fail, TypeOK
<1>5. CASE RejectTrigger
  BY <1>5 DEF RejectTrigger, Fail, TypeOK
<1>6. ASSUME NEW e \in active, Complete(e) \/ HoldTruncated(e) \/ RejectCompletion(e)
      PROVE  TypeOK'
  <2>1. e \in Entry /\ e.op \in Ops
    BY DEF TypeOK
  <2> QED BY <1>6, <2>1 DEF Complete, HoldTruncated, RejectCompletion, TypeOK
<1>7. ASSUME NEW op \in Ops, Deliver(op) PROVE TypeOK'
  BY <1>7 DEF Deliver, TypeOK
<1>8. CASE Tick
  BY <1>8, BundleAssumption DEF Tick, TypeOK
<1>9. CASE UNCHANGED vars
  BY <1>9 DEF vars, TypeOK
<1> QED BY <1>1, <1>2, <1>3, <1>4, <1>5, <1>6, <1>7, <1>8, <1>9 DEF Next

(* Whatever the framework sends, the ledger's state keeps its types and    *)
(* no cursor runs past its queue (`_claim').                               *)
THEOREM TypeCorrect == Spec => []TypeOK
BY TypeInit, TypeStep, PTL DEF Spec

-----------------------------------------------------------------------------
(* The inductive invariant *)

(* The cursors determine what was entered: the claimed prefix of the       *)
(* closed queue and the matched prefix of the tails, once each.            *)
Positions ==
    /\ \A k \in Keys : \A i \in 1..Len(Expected[k]) :
          entries[Expected[k][i]] = IF i <= cursor[k] THEN 1 ELSE 0
    /\ \A k \in Keys : \A i \in 1..Len(CutoffExpected[k]) :
          CutoffExpected[k][i] \in Composite =>
              entries[CutoffExpected[k][i]] = IF i <= cutoffCursor[k] THEN 1 ELSE 0
    /\ \A op \in Ops : op \notin ClosedOps \cup Composite => entries[op] = 0
    /\ \A k \in Keys : cutoffCursor[k] > 0 => cursor[k] = Len(Expected[k])
    /\ \A op \in Ops : started[op] # NotStarted => entries[op] > 0

(* An entered operation is in exactly one place. *)
Accounting ==
    /\ \A e \in active : /\ entries[e.op] > 0
                         /\ e.op \notin completed \cup withheld \cup lost
                         /\ \A f \in active : e.op = f.op => e = f
    /\ \A e \in ledger : /\ entries[e.op] > 0
                         /\ e.op \notin Composite \cup withheld \cup lost
    /\ \A op \in withheld : entries[op] > 0 /\ op \in Composite /\ op \notin lost
    /\ \A op \in lost : entries[op] > 0
    /\ \A op \in Ops : entries[op] > 0 => op \in Reserved \cup completed \cup withheld \cup lost
    /\ delivered \subseteq completed

(* Why a lane may hold a request. *)
Justified ==
    \A k \in held : /\ cursor[k] = Len(Expected[k])
                    /\ cutoffCursor[k] = 0 => Closed(k) \subseteq completed

IInv == TypeOK /\ Positions /\ Accounting /\ Justified /\ EvidenceMatchesRecording

(* Records are in one queue, at one place of it. *)
LEMMA Distinct ==
    ASSUME NEW j \in Keys, NEW k \in Keys
    PROVE  /\ \A m \in 1..Len(Expected[j]), n \in 1..Len(Expected[k]) :
                 Expected[j][m] = Expected[k][n] => j = k /\ m = n
           /\ \A m \in 1..Len(CutoffExpected[j]), n \in 1..Len(CutoffExpected[k]) :
                 CutoffExpected[j][m] = CutoffExpected[k][n] => j = k /\ m = n
           /\ \A m \in 1..Len(Expected[j]), n \in 1..Len(CutoffExpected[k]) :
                 Expected[j][m] # CutoffExpected[k][n]
<1>1. /\ \A m \in DOMAIN Expected[j] : Expected[j][m] \in Closed(j)
      /\ \A n \in DOMAIN CutoffExpected[k] : CutoffExpected[k][n] \in Tails(k)
      /\ Closed(j) \cap Tails(k) = {}
  BY BundleAssumption DEF Closed, Tails
<1>2. /\ DOMAIN Expected[j] = 1..Len(Expected[j])
      /\ DOMAIN Expected[k] = 1..Len(Expected[k])
      /\ DOMAIN CutoffExpected[j] = 1..Len(CutoffExpected[j])
      /\ DOMAIN CutoffExpected[k] = 1..Len(CutoffExpected[k])
  BY QueueFacts
<1>3. \A m \in DOMAIN Expected[j], n \in DOMAIN Expected[k] :
         Expected[j][m] = Expected[k][n] => j = k /\ m = n
  BY BundleAssumption
<1>4. \A m \in DOMAIN CutoffExpected[j], n \in DOMAIN CutoffExpected[k] :
         CutoffExpected[j][m] = CutoffExpected[k][n] => j = k /\ m = n
  BY BundleAssumption
<1>5. \A m \in DOMAIN Expected[j], n \in DOMAIN CutoffExpected[k] :
         Expected[j][m] # CutoffExpected[k][n]
  BY <1>1
<1> QED BY <1>2, <1>3, <1>4, <1>5

LEMMA Membership ==
    /\ \A op \in ClosedOps : \E k \in Keys : \E i \in 1..Len(Expected[k]) : op = Expected[k][i]
    /\ \A op \in Composite :
          \E k \in Keys : \E i \in 1..Len(CutoffExpected[k]) : op = CutoffExpected[k][i]
    /\ \A k \in Keys : \A i \in 1..Len(Expected[k]) : Expected[k][i] \in ClosedOps \ Composite
    /\ ClosedOps \subseteq Ops
    /\ Composite \subseteq Ops
<1>1. \A op \in ClosedOps : \E k \in Keys : \E i \in 1..Len(Expected[k]) : op = Expected[k][i]
  BY QueueFacts DEF ClosedOps, Closed
<1>2. \A op \in Composite :
          \E k \in Keys : \E i \in 1..Len(CutoffExpected[k]) : op = CutoffExpected[k][i]
  BY QueueFacts, BundleAssumption DEF Tails
<1>3. \A k \in Keys : \A i \in 1..Len(Expected[k]) : Expected[k][i] \in ClosedOps
  BY QueueFacts DEF ClosedOps, Closed
<1>4. \A k \in Keys : \A i \in 1..Len(Expected[k]) : Expected[k][i] \notin Composite
  BY <1>2, Distinct
<1> QED BY <1>1, <1>2, <1>3, <1>4, QueueFacts

(* The slot a request may claim has not been entered before. *)
LEMMA FreshSlot ==
    ASSUME TypeOK, Positions, NEW k \in Keys
    PROVE  /\ AtClosed(k) => entries[NextClosed(k)] = 0 /\ NextClosed(k) \in ClosedOps \ Composite
           /\ AtTail(k) /\ NextTail(k) \in Composite => entries[NextTail(k)] = 0
<1>1. ASSUME AtClosed(k) PROVE entries[NextClosed(k)] = 0 /\ NextClosed(k) \in ClosedOps \ Composite
  <2>1. cursor[k] + 1 \in 1..Len(Expected[k]) /\ ~(cursor[k] + 1 <= cursor[k])
    BY <1>1, SlotFacts DEF TypeOK
  <2> QED BY <2>1, Membership DEF Positions, NextClosed
<1>2. ASSUME AtTail(k), NextTail(k) \in Composite PROVE entries[NextTail(k)] = 0
  <2>1. /\ cutoffCursor[k] + 1 \in 1..Len(CutoffExpected[k])
        /\ ~(cutoffCursor[k] + 1 <= cutoffCursor[k])
    BY <1>2, SlotFacts DEF TypeOK
  <2> QED BY <1>2, <2>1 DEF Positions, NextTail
<1> QED BY <1>1, <1>2

(* Positions survives each step. *)
LEMMA PositionsClaim ==
    ASSUME TypeOK, Positions, NEW r \in Requests, ClaimClosed(r)
    PROVE  Positions'
<1> DEFINE key == r.key
           op == NextClosed(key)
<1>1. /\ key \in Keys
      /\ cursor[key] + 1 \in 1..Len(Expected[key])
      /\ op = Expected[key][cursor[key] + 1]
      /\ op \in Ops /\ op \in ClosedOps \ Composite
      /\ entries[op] = 0
  BY SlotFacts, FreshSlot DEF ClaimClosed, NextClosed
<1>2. /\ cursor' = [cursor EXCEPT ![key] = @ + 1]
      /\ entries' = [entries EXCEPT ![op] = @ + 1]
      /\ UNCHANGED <<cutoffCursor, started>>
  BY DEF ClaimClosed, Reserve
<1>3. \A k \in Keys : \A i \in 1..Len(Expected[k]) :
          entries'[Expected[k][i]] = IF i <= cursor'[k] THEN 1 ELSE 0
  <2> SUFFICES ASSUME NEW k \in Keys, NEW i \in 1..Len(Expected[k])
               PROVE  entries'[Expected[k][i]] = IF i <= cursor'[k] THEN 1 ELSE 0
    OBVIOUS
  <2>1. CASE k = key /\ i = cursor[key] + 1
    BY <1>1, <1>2, <2>1 DEF TypeOK
  <2>2. CASE ~(k = key /\ i = cursor[key] + 1)
    <3>1. Expected[k][i] # op /\ Expected[k][i] \in Ops
      BY <1>1, <2>2, Distinct, QueueFacts
    <3>2. i <= cursor'[k] <=> i <= cursor[k]
      BY <1>1, <1>2, <2>2, QueueFacts DEF TypeOK
    <3> QED BY <1>1, <1>2, <3>1, <3>2 DEF TypeOK, Positions
  <2> QED BY <2>1, <2>2
<1>4. \A k \in Keys : \A i \in 1..Len(CutoffExpected[k]) :
          CutoffExpected[k][i] \in Composite =>
              entries'[CutoffExpected[k][i]] = IF i <= cutoffCursor'[k] THEN 1 ELSE 0
  <2>1. \A tail \in Composite : entries'[tail] = entries[tail]
    BY <1>1, <1>2, Membership DEF TypeOK
  <2> QED BY <1>2, <2>1 DEF Positions
<1>5. \A o \in Ops : o \notin ClosedOps \cup Composite => entries'[o] = 0
  BY <1>1, <1>2 DEF Positions, TypeOK
<1>6. \A k \in Keys : cutoffCursor'[k] > 0 => cursor'[k] = Len(Expected[k])
  <2>1. cursor[key] # Len(Expected[key])
    BY DEF ClaimClosed, AtClosed, TypeOK
  <2> QED BY <1>1, <1>2, <2>1 DEF Positions, TypeOK
<1>7. \A o \in Ops : started'[o] # NotStarted => entries'[o] > 0
  BY <1>1, <1>2 DEF Positions, TypeOK
<1> QED BY <1>3, <1>4, <1>5, <1>6, <1>7 DEF Positions

LEMMA PositionsEnter ==
    ASSUME TypeOK, Positions, NEW r \in Requests, EnterCompositeTail(r)
    PROVE  Positions'
<1> DEFINE key == r.key
           op == NextTail(key)
<1>1. /\ key \in Keys
      /\ cutoffCursor[key] + 1 \in 1..Len(CutoffExpected[key])
      /\ op = CutoffExpected[key][cutoffCursor[key] + 1]
      /\ op \in Ops /\ op \in Composite
      /\ entries[op] = 0
      /\ cursor[key] = Len(Expected[key])
  BY SlotFacts, FreshSlot DEF EnterCompositeTail, NextTail
<1>2. /\ cutoffCursor' = [cutoffCursor EXCEPT ![key] = @ + 1]
      /\ entries' = [entries EXCEPT ![op] = @ + 1]
      /\ started' = [started EXCEPT ![op] = clock]
      /\ UNCHANGED cursor
  BY DEF EnterCompositeTail, Reserve
<1>3. \A k \in Keys : \A i \in 1..Len(Expected[k]) :
          entries'[Expected[k][i]] = IF i <= cursor'[k] THEN 1 ELSE 0
  <2>1. \A o \in ClosedOps : entries'[o] = entries[o]
    <3>1. \A o \in ClosedOps : o \in Ops \ Composite
      BY Membership
    <3> QED BY <1>1, <1>2, <3>1 DEF TypeOK
  <2>2. \A k \in Keys : \A i \in 1..Len(Expected[k]) : Expected[k][i] \in ClosedOps
    BY Membership
  <2> SUFFICES ASSUME NEW k \in Keys, NEW i \in 1..Len(Expected[k])
               PROVE  entries'[Expected[k][i]] = IF i <= cursor[k] THEN 1 ELSE 0
    BY <1>2
  <2>3. entries'[Expected[k][i]] = entries[Expected[k][i]]
    BY <2>1, <2>2
  <2> QED BY <2>3 DEF Positions
<1>4. \A k \in Keys : \A i \in 1..Len(CutoffExpected[k]) :
          CutoffExpected[k][i] \in Composite =>
              entries'[CutoffExpected[k][i]] = IF i <= cutoffCursor'[k] THEN 1 ELSE 0
  <2> SUFFICES ASSUME NEW k \in Keys, NEW i \in 1..Len(CutoffExpected[k]),
                      CutoffExpected[k][i] \in Composite
               PROVE  entries'[CutoffExpected[k][i]] = IF i <= cutoffCursor'[k] THEN 1 ELSE 0
    OBVIOUS
  <2>1. CASE k = key /\ i = cutoffCursor[key] + 1
    BY <1>1, <1>2, <2>1 DEF TypeOK
  <2>2. CASE ~(k = key /\ i = cutoffCursor[key] + 1)
    <3>1. CutoffExpected[k][i] # op /\ CutoffExpected[k][i] \in Ops
      BY <1>1, <2>2, Distinct, QueueFacts
    <3>2. i <= cutoffCursor'[k] <=> i <= cutoffCursor[k]
      BY <1>1, <1>2, <2>2, QueueFacts DEF TypeOK
    <3> QED BY <1>1, <1>2, <3>1, <3>2 DEF TypeOK, Positions
  <2> QED BY <2>1, <2>2
<1>5. \A o \in Ops : o \notin ClosedOps \cup Composite => entries'[o] = 0
  BY <1>1, <1>2 DEF Positions, TypeOK
<1>6. \A k \in Keys : cutoffCursor'[k] > 0 => cursor'[k] = Len(Expected[k])
  BY <1>1, <1>2 DEF Positions, TypeOK
<1>7. \A o \in Ops : started'[o] # NotStarted => entries'[o] > 0
  BY <1>1, <1>2 DEF Positions, TypeOK
<1> QED BY <1>3, <1>4, <1>5, <1>6, <1>7 DEF Positions

LEMMA PositionsIntercept ==
    ASSUME TypeOK, Positions, NEW r \in Requests, InterceptTail(r)
    PROVE  Positions'
<1> DEFINE key == r.key
           op == NextTail(key)
<1>1. /\ key \in Keys
      /\ cutoffCursor[key] + 1 \in 1..Len(CutoffExpected[key])
      /\ op = CutoffExpected[key][cutoffCursor[key] + 1]
      /\ op \notin Composite
      /\ cursor[key] = Len(Expected[key])
  BY SlotFacts DEF InterceptTail, NextTail
<1>2. /\ cutoffCursor' = [cutoffCursor EXCEPT ![key] = @ + 1]
      /\ UNCHANGED <<cursor, entries, started>>
  BY DEF InterceptTail
<1>3. \A k \in Keys : \A i \in 1..Len(CutoffExpected[k]) :
          CutoffExpected[k][i] \in Composite =>
              entries'[CutoffExpected[k][i]] = IF i <= cutoffCursor'[k] THEN 1 ELSE 0
  <2> SUFFICES ASSUME NEW k \in Keys, NEW i \in 1..Len(CutoffExpected[k]),
                      CutoffExpected[k][i] \in Composite
               PROVE  i <= cutoffCursor'[k] <=> i <= cutoffCursor[k]
    BY <1>2 DEF Positions
  <2>1. ~(k = key /\ i = cutoffCursor[key] + 1)
    BY <1>1
  <2> QED BY <1>1, <1>2, <2>1, QueueFacts DEF TypeOK
<1>4. \A k \in Keys : cutoffCursor'[k] > 0 => cursor'[k] = Len(Expected[k])
  BY <1>1, <1>2 DEF Positions, TypeOK
<1> QED BY <1>2, <1>3, <1>4 DEF Positions

LEMMA PositionsStep ==
    ASSUME TypeOK, Positions, [Next]_vars PROVE Positions'
<1>1. ASSUME NEW r \in Requests, NEW d \in BOOLEAN, NEW p \in BOOLEAN,
             HoldPastEnd(r, d, p) \/ RejectStart(r, d, p)
      PROVE  Positions'
  BY <1>1 DEF HoldPastEnd, RejectStart, Fail, Positions
<1>2. CASE RejectTrigger
  BY <1>2 DEF RejectTrigger, Fail, Positions
<1>3. ASSUME NEW e \in active, Complete(e) \/ HoldTruncated(e) \/ RejectCompletion(e)
      PROVE  Positions'
  <2>1. UNCHANGED <<cursor, cutoffCursor, entries, started>>
    BY <1>3 DEF Complete, HoldTruncated, RejectCompletion
  <2> QED BY <2>1 DEF Positions
<1>4. ASSUME NEW op \in Ops, Deliver(op) PROVE Positions'
  BY <1>4 DEF Deliver, Positions
<1>5. CASE Tick
  BY <1>5 DEF Tick, Positions
<1>6. CASE UNCHANGED vars
  BY <1>6 DEF vars, Positions
<1> QED BY PositionsClaim, PositionsEnter, PositionsIntercept,
           <1>1, <1>2, <1>3, <1>4, <1>5, <1>6 DEF Next

-----------------------------------------------------------------------------
(* Accounting survives each step.  Only the two steps that reserve and the *)
(* four that move a reservation or a record can disturb it.                *)

(* A reservation of an operation that was never entered. *)
LEMMA AccountingReserve ==
    ASSUME TypeOK, Accounting, NEW op \in Ops, NEW r \in Requests,
           entries[op] = 0, Reserve(op, r),
           UNCHANGED <<ledger, delivered, withheld, lost>>
    PROVE  Accounting'
<1> DEFINE new == [op |-> op, identity |-> r.identity]
<1>1. /\ entries' = [entries EXCEPT ![op] = @ + 1]
      /\ active' = active \cup {new}
      /\ new.op = op
  BY DEF Reserve
<1>2. /\ op \notin Reserved \cup completed \cup withheld \cup lost
      /\ \A o \in Ops : entries[o] > 0 => entries'[o] > 0
      /\ entries'[op] > 0
  BY <1>1 DEF Accounting, TypeOK, Reserved, completed
<1>3. UNCHANGED completed
  BY DEF completed
<1>4. \A e \in active' : /\ entries'[e.op] > 0
                         /\ e.op \notin completed' \cup withheld' \cup lost'
                         /\ \A f \in active' : e.op = f.op => e = f
  BY <1>1, <1>2, <1>3 DEF Accounting, TypeOK, Reserved
<1>5. /\ \A e \in ledger' : /\ entries'[e.op] > 0
                            /\ e.op \notin Composite \cup withheld' \cup lost'
      /\ \A o \in withheld' : entries'[o] > 0 /\ o \in Composite /\ o \notin lost'
      /\ \A o \in lost' : entries'[o] > 0
  BY <1>2 DEF Accounting, TypeOK
<1>6. \A o \in Ops : entries'[o] > 0 =>
          o \in Reserved' \cup completed' \cup withheld' \cup lost'
  <2>1. Reserved' = Reserved \cup {op}
    BY <1>1 DEF Reserved
  <2>2. \A o \in Ops \ {op} : entries'[o] = entries[o]
    BY <1>1 DEF TypeOK
  <2> QED BY <1>3, <2>1, <2>2 DEF Accounting
<1> QED BY <1>3, <1>4, <1>5, <1>6 DEF Accounting

(* A completion takes exactly one reservation away. *)
LEMMA Released ==
    ASSUME TypeOK, Accounting, NEW e \in active, active' = active \ {e}
    PROVE  /\ Reserved' = Reserved \ {e.op}
           /\ e.op \in Ops
           /\ entries[e.op] > 0
           /\ e.op \notin completed \cup withheld \cup lost
BY DEF Accounting, TypeOK, Reserved

LEMMA AccountingRelease ==
    ASSUME TypeOK, Accounting, NEW e \in active,
           Complete(e) \/ HoldTruncated(e) \/ RejectCompletion(e)
    PROVE  Accounting'
<1>1. /\ active' = active \ {e}
      /\ UNCHANGED <<entries, delivered>>
  BY DEF Complete, HoldTruncated, RejectCompletion
<1>2. /\ Reserved' = Reserved \ {e.op}
      /\ e.op \in Ops
      /\ entries[e.op] > 0
      /\ e.op \notin completed \cup withheld \cup lost
  BY <1>1, Released
<1>3. \A f \in active' : /\ f \in active /\ f.op # e.op
                         /\ \A g \in active' : f.op = g.op => f = g
  BY <1>1 DEF Accounting
<1>4. CASE Complete(e)
  <2>1. /\ ledger' = ledger \cup {e}
        /\ completed' = completed \cup {e.op}
        /\ e.op \notin Composite
        /\ UNCHANGED <<withheld, lost>>
    BY <1>4 DEF Complete, completed
  <2> QED BY <1>1, <1>2, <1>3, <2>1 DEF Accounting
<1>5. CASE HoldTruncated(e)
  <2>1. /\ withheld' = withheld \cup {e.op}
        /\ e.op \in Composite
        /\ completed' = completed
        /\ UNCHANGED <<ledger, lost>>
    BY <1>5 DEF HoldTruncated, completed
  <2>2. \A f \in ledger : f.op # e.op
    BY <1>2 DEF completed
  <2> QED BY <1>1, <1>2, <1>3, <2>1, <2>2 DEF Accounting
<1>6. CASE RejectCompletion(e)
  <2>1. /\ lost' = lost \cup {e.op}
        /\ completed' = completed
        /\ UNCHANGED <<ledger, withheld>>
    BY <1>6 DEF RejectCompletion, completed
  <2>2. \A f \in ledger : f.op # e.op
    BY <1>2 DEF completed
  <2> QED BY <1>1, <1>2, <1>3, <2>1, <2>2 DEF Accounting
<1> QED BY <1>4, <1>5, <1>6

LEMMA AccountingStep ==
    ASSUME TypeOK, Positions, Accounting, [Next]_vars PROVE Accounting'
<1>1. ASSUME NEW r \in Requests, ClaimClosed(r) PROVE Accounting'
  <2>1. r.key \in Keys /\ NextClosed(r.key) \in Ops /\ entries[NextClosed(r.key)] = 0
    BY <1>1, SlotFacts, FreshSlot DEF ClaimClosed
  <2> QED BY <1>1, <2>1, AccountingReserve DEF ClaimClosed
<1>2. ASSUME NEW r \in Requests, EnterCompositeTail(r) PROVE Accounting'
  <2>1. r.key \in Keys /\ NextTail(r.key) \in Ops /\ entries[NextTail(r.key)] = 0
    BY <1>2, SlotFacts, FreshSlot DEF EnterCompositeTail
  <2> QED BY <1>2, <2>1, AccountingReserve DEF EnterCompositeTail
<1>3. ASSUME UNCHANGED <<entries, active, ledger, delivered, withheld, lost>>
      PROVE  Accounting'
  BY <1>3 DEF Accounting, Reserved, completed
<1>4. ASSUME NEW op \in Ops, Deliver(op) PROVE Accounting'
  BY <1>4 DEF Deliver, Accounting, Reserved, completed
<1> QED BY <1>1, <1>2, <1>3, <1>4, AccountingRelease
        DEF Next, InterceptTail, HoldPastEnd, RejectStart, RejectTrigger, Fail, Tick, vars

-----------------------------------------------------------------------------
(* Justified and EvidenceMatchesRecording survive each step. *)

(* Completed work stays completed. *)
LEMMA CompletedGrows ==
    ASSUME [Next]_vars PROVE completed \subseteq completed' /\ delivered \subseteq delivered'
<1>1. ledger \subseteq ledger' /\ delivered \subseteq delivered'
  BY DEF Next, vars, ClaimClosed, EnterCompositeTail, InterceptTail, HoldPastEnd,
         RejectStart, RejectTrigger, Fail, Complete, HoldTruncated, RejectCompletion,
         Deliver, Tick
<1> QED BY <1>1 DEF completed

(* A request past the end of a closed window finds its lane completed. *)
LEMMA WindowIsJustified ==
    ASSUME Accounting, NEW k \in Keys, NEW d, NEW p, PastTheWindow(k, d, p)
    PROVE  Closed(k) \subseteq completed
<1>1. Closed(k) \subseteq ClosedOps /\ delivered \subseteq completed
  BY DEF ClosedOps, Accounting
<1> QED BY <1>1 DEF PastTheWindow, ExpectedComplete, ActorPrefixConsumed, LaneComplete

LEMMA JustifiedStep ==
    ASSUME TypeOK, Positions, Accounting, Justified, [Next]_vars PROVE Justified'
<1>1. completed \subseteq completed'
  BY CompletedGrows
<1>2. ASSUME UNCHANGED <<cursor, cutoffCursor, held>> PROVE Justified'
  BY <1>1, <1>2 DEF Justified
<1>3. ASSUME NEW r \in Requests, ClaimClosed(r) PROVE Justified'
  <2>1. r.key \in Keys /\ cursor[r.key] # Len(Expected[r.key])
    BY <1>3, QueueFacts DEF ClaimClosed, AtClosed, TypeOK
  <2>2. /\ \A k \in Keys \ {r.key} : cursor'[k] = cursor[k]
        /\ UNCHANGED <<cutoffCursor, held>>
    BY <1>3 DEF ClaimClosed, TypeOK
  <2> QED BY <1>1, <2>1, <2>2 DEF Justified, TypeOK
<1>4. ASSUME NEW r \in Requests, EnterCompositeTail(r) \/ InterceptTail(r) PROVE Justified'
  <2>1. /\ r.key \in Keys
        /\ AtTail(r.key)
        /\ cutoffCursor' = [cutoffCursor EXCEPT ![r.key] = @ + 1]
        /\ cursor' = cursor
        /\ held' \subseteq held \cup {r.key}
    BY <1>4 DEF EnterCompositeTail, InterceptTail
  <2>2. cursor[r.key] = Len(Expected[r.key]) /\ cutoffCursor'[r.key] # 0
    BY <2>1, SlotFacts DEF TypeOK
  <2>3. \A k \in Keys \ {r.key} : cutoffCursor'[k] = cutoffCursor[k]
    BY <2>1 DEF TypeOK
  <2> QED BY <1>1, <2>1, <2>2, <2>3 DEF Justified, TypeOK
<1>5. ASSUME NEW r \in Requests, NEW d \in BOOLEAN, NEW p \in BOOLEAN, HoldPastEnd(r, d, p)
      PROVE  Justified'
  <2>1. /\ r.key \in Keys
        /\ cursor[r.key] = Len(Expected[r.key])
        /\ Closed(r.key) \subseteq completed
        /\ UNCHANGED <<cursor, cutoffCursor>>
        /\ held' = held \cup {r.key}
    BY <1>5, WindowIsJustified, QueueFacts DEF HoldPastEnd, PastEnd, AtClosed, TypeOK
  <2> QED BY <1>1, <2>1 DEF Justified
<1> QED BY <1>2, <1>3, <1>4, <1>5
        DEF Next, RejectStart, RejectTrigger, Fail, Complete, HoldTruncated,
            RejectCompletion, Deliver, Tick, vars

LEMMA EvidenceStep ==
    ASSUME TypeOK, EvidenceMatchesRecording, [Next]_vars
    PROVE  EvidenceMatchesRecording'
<1> SUFFICES ASSUME ~FastClaim, NEW e \in active' \cup ledger'
             PROVE  e.identity = Identity[e.op]
  BY DEF EvidenceMatchesRecording
<1>1. CASE e \in active \cup ledger
  BY <1>1 DEF EvidenceMatchesRecording
<1>2. ASSUME NEW r \in Requests, ClaimClosed(r), e \notin active \cup ledger
      PROVE  e.identity = Identity[e.op]
  BY <1>2 DEF ClaimClosed, Reserve, MatchesClosed
<1>3. ASSUME NEW r \in Requests, EnterCompositeTail(r), e \notin active \cup ledger
      PROVE  e.identity = Identity[e.op]
  <2>1. NextTail(r.key) \notin PreDispatch
    BY <1>3, BundleAssumption DEF EnterCompositeTail
  <2> QED BY <1>3, <2>1 DEF EnterCompositeTail, Reserve, MatchesTail
<1> QED BY <1>1, <1>2, <1>3
        DEF Next, InterceptTail, HoldPastEnd, RejectStart, RejectTrigger, Fail, Complete,
            HoldTruncated, RejectCompletion, Deliver, Tick, vars

-----------------------------------------------------------------------------
LEMMA InvInit == Init => IInv
<1> SUFFICES ASSUME Init PROVE IInv
  OBVIOUS
<1>1. TypeOK
  BY TypeInit
<1>2. Positions
  BY QueueFacts, Membership DEF Init, Positions
<1>3. Accounting /\ Justified /\ EvidenceMatchesRecording
  BY DEF Init, Accounting, Justified, EvidenceMatchesRecording, completed, Reserved
<1> QED BY <1>1, <1>2, <1>3 DEF IInv

LEMMA InvStep == IInv /\ [Next]_vars => IInv'
BY TypeStep, PositionsStep, AccountingStep, JustifiedStep, EvidenceStep DEF IInv

LEMMA Invariance == Spec => []IInv
BY InvInit, InvStep, PTL DEF Spec

-----------------------------------------------------------------------------
(* Safety *)

LEMMA AtMostOneEntry == TypeOK /\ Positions => \A op \in Ops : entries[op] <= 1
<1> SUFFICES ASSUME TypeOK, Positions, NEW op \in Ops PROVE entries[op] <= 1
  OBVIOUS
<1>1. CASE op \in ClosedOps
  BY <1>1, Membership DEF Positions
<1>2. CASE op \in Composite
  BY <1>2, Membership DEF Positions
<1> QED BY <1>1, <1>2 DEF Positions

(* However requests, completions and lost answers interleave, no claim is  *)
(* granted twice and an entered operation has one fate (`start',           *)
(* `complete').                                                            *)
THEOREM EntriesAccounted == Spec => []EveryEntryAccounted
<1>1. IInv => EveryEntryAccounted
  <2> SUFFICES ASSUME IInv PROVE EveryEntryAccounted
    OBVIOUS
  <2>1. \A op \in Ops : entries[op] <= 1
    BY AtMostOneEntry DEF IInv
  <2>2. /\ Reserved \subseteq Entered
        /\ completed \subseteq Entered
        /\ withheld \cup lost \subseteq Entered
    BY DEF IInv, TypeOK, Accounting, Reserved, completed, Entered
  <2>3. Entered \subseteq Reserved \cup completed \cup withheld \cup lost
    BY DEF IInv, Accounting, Entered
  <2>4. Reserved \cap (completed \cup withheld \cup lost) = {}
    BY DEF IInv, Accounting, Reserved
  <2>5. completed \cap (withheld \cup lost) = {} /\ withheld \cap lost = {}
    BY DEF IInv, Accounting, completed
  <2> QED BY <2>1, <2>2, <2>3, <2>4, <2>5 DEF EveryEntryAccounted
<1> QED BY <1>1, Invariance, PTL

(* A request is only held on a lane whose recorded work was entered and,   *)
(* unless the lane met one of its tails, completed: a duplicate of the     *)
(* last, still running operation is drift, never a silent hang (`_claim'). *)
THEOREM NoRequestHeldEarly == Spec => []NoEarlyHold
<1>1. IInv => NoEarlyHold
  <2> SUFFICES ASSUME IInv, NEW k \in held
               PROVE  /\ Closed(k) \subseteq Entered
                      /\ cutoffCursor[k] = 0 => Closed(k) \subseteq completed
    BY DEF NoEarlyHold
  <2>1. k \in Keys /\ cursor[k] = Len(Expected[k])
    BY DEF IInv, TypeOK, Justified
  <2>2. \A i \in 1..Len(Expected[k]) : Expected[k][i] \in Entered
    BY <2>1, QueueFacts DEF IInv, Positions, Entered
  <2> QED BY <2>1, <2>2, QueueFacts DEF Closed, IInv, Justified
<1> QED BY <1>1, Invariance, PTL

(* Without --fast-claim, every reservation and record carries the identity *)
(* the recording has for its slot (`claim_identity').                      *)
THEOREM EvidenceMatches == Spec => []EvidenceMatchesRecording
<1>1. IInv => EvidenceMatchesRecording
  BY DEF IInv
<1> QED BY <1>1, Invariance, PTL

(* Once expected_complete holds, every closed operation has its record and *)
(* only composite tails are still open: assert_consumed cannot fail        *)
(* (supervisor.run checks one and calls the other after the freeze).       *)
THEOREM CompletionConsumes == Spec => []CompletionIsConsumed
<1>1. IInv => CompletionIsConsumed
  <2> SUFFICES ASSUME IInv, ExpectedComplete
               PROVE  ClosedOps \subseteq completed \ lost /\ Reserved \subseteq Composite
    BY DEF CompletionIsConsumed
  <2>1. ClosedOps \subseteq completed
    BY DEF ExpectedComplete, IInv, Accounting
  <2>2. completed \cap lost = {}
    BY DEF IInv, Accounting, completed
  <2>3. ASSUME NEW e \in active PROVE e.op \in Composite
    <3>1. e.op \in Ops /\ entries[e.op] > 0 /\ e.op \notin completed
      BY DEF IInv, TypeOK, Accounting
    <3> QED BY <2>1, <3>1 DEF IInv, Positions
  <2> QED BY <2>1, <2>2, <2>3 DEF Reserved
<1> QED BY <1>1, Invariance, PTL

-----------------------------------------------------------------------------
(* Steps *)

(* A composite tail that has served its time goes on having served it. *)
LEMMA ServiceIsFinal ==
    ASSUME IInv, [Next]_vars, NEW op \in Ops, ServedItsTime(op)
    PROVE  ServedItsTime(op)'
<1>1. /\ started[op] \in Int
      /\ clock \in Int
      /\ Required[op] \in Int
      /\ entries[op] # 0
  BY BundleAssumption DEF IInv, TypeOK, Positions, ServedItsTime
<1>2. started'[op] = started[op]
  <2>1. ASSUME NEW r \in Requests, EnterCompositeTail(r)
        PROVE  started'[op] = started[op]
    <3>1. r.key \in Keys /\ entries[NextTail(r.key)] = 0
      BY <2>1, FreshSlot DEF EnterCompositeTail, IInv
    <3>2. op # NextTail(r.key)
      BY <1>1, <3>1
    <3> QED BY <2>1, <3>2 DEF EnterCompositeTail, IInv, TypeOK
  <2> QED BY <2>1
        DEF Next, vars, ClaimClosed, InterceptTail, HoldPastEnd, RejectStart,
            RejectTrigger, Fail, Complete, HoldTruncated, RejectCompletion, Deliver, Tick
<1>3. clock' \in {clock, clock + 1}
  BY DEF Next, vars, ClaimClosed, EnterCompositeTail, InterceptTail, HoldPastEnd,
         RejectStart, RejectTrigger, Fail, Complete, HoldTruncated, RejectCompletion,
         Deliver, Tick
<1> QED BY <1>1, <1>2, <1>3 DEF ServedItsTime

LEMMA CompletionStep == IInv /\ [Next]_vars => (ExpectedComplete => ExpectedComplete')
<1> SUFFICES ASSUME IInv, [Next]_vars, ExpectedComplete PROVE ExpectedComplete'
  OBVIOUS
<1>1. ClosedOps \subseteq delivered'
  BY CompletedGrows DEF ExpectedComplete
<1>2. \A op \in Composite : ServedItsTime(op)'
  BY ServiceIsFinal, Membership DEF ExpectedComplete
<1> QED BY <1>1, <1>2 DEF ExpectedComplete

(* expected_complete is read without the event loop's exclusion and acted  *)
(* on later; no request or completion can take it back.                    *)
THEOREM CompletionFinal == Spec => CompletionIsFinal
<1>1. IInv /\ [Next]_vars => [ExpectedComplete => ExpectedComplete']_vars
  BY CompletionStep
<1> QED BY <1>1, Invariance, PTL DEF Spec, CompletionIsFinal

-----------------------------------------------------------------------------
(* Refinement *)

LEMMA TailPlace ==
    ASSUME NEW k \in Keys, NEW op \in Tails(k)
    PROVE  \E i \in 1..Len(CutoffExpected[k]) : op = CutoffExpected[k][i]
BY QueueFacts DEF Tails

(* What stands ahead of an operation, with its place. *)
LEMMA BeforeFacts ==
    ASSUME NEW op \in Ops, NEW x \in Before[op]
    PROVE  \E j \in Keys : \E n \in 1..Len(Expected[j]) :
              /\ x = Expected[j][n]
              /\ op \in Tails(j) \/ \E m \in DOMAIN Expected[j] : n < m /\ Expected[j][m] = op
<1>1. PICK j \in Keys :
          x \in {Expected[j][i] : i \in {n \in DOMAIN Expected[j] :
                     op \in Tails(j) \/ \E m \in DOMAIN Expected[j] : n < m /\ Expected[j][m] = op}}
  BY DEF Before
<1> QED BY <1>1, QueueFacts

(* The operations ahead of a claimed one have been entered. *)
LEMMA PredecessorsOfClosed ==
    ASSUME IInv, NEW k \in Keys, AtClosed(k)
    PROVE  Before[NextClosed(k)] \subseteq Entered
<1> DEFINE op == NextClosed(k)
<1>1. /\ cursor[k] \in Nat
      /\ cursor[k] + 1 \in 1..Len(Expected[k])
      /\ op = Expected[k][cursor[k] + 1]
      /\ op \in Ops
  BY SlotFacts DEF IInv, TypeOK, NextClosed
<1> SUFFICES ASSUME NEW j \in Keys, NEW n \in 1..Len(Expected[j]),
                    op \in Tails(j) \/ \E m \in DOMAIN Expected[j] : n < m /\ Expected[j][m] = op
             PROVE  Expected[j][n] \in Entered
  BY <1>1, BeforeFacts
<1>2. op \notin Tails(j)
  <2> SUFFICES ASSUME NEW i \in 1..Len(CutoffExpected[j]), op = CutoffExpected[j][i] PROVE FALSE
    BY TailPlace
  <2>1. \A m \in 1..Len(Expected[k]) : Expected[k][m] # CutoffExpected[j][i]
    BY Distinct
  <2> QED BY <1>1, <2>1
<1>3. j = k /\ n <= cursor[k]
  <2>1. PICK m \in 1..Len(Expected[j]) : n < m /\ Expected[j][m] = op
    BY <1>2, QueueFacts
  <2>2. j = k /\ m = cursor[k] + 1
    BY <1>1, <2>1, Distinct
  <2> QED BY <1>1, <2>1, <2>2
<1> QED BY <1>3, QueueFacts DEF IInv, Positions, Entered

LEMMA PredecessorsOfTail ==
    ASSUME IInv, NEW k \in Keys, AtTail(k), NextTail(k) \in Composite
    PROVE  Before[NextTail(k)] \subseteq Entered
<1> DEFINE op == NextTail(k)
<1>1. /\ cutoffCursor[k] + 1 \in 1..Len(CutoffExpected[k])
      /\ op = CutoffExpected[k][cutoffCursor[k] + 1]
      /\ op \in Ops
      /\ cursor[k] = Len(Expected[k])
  BY SlotFacts DEF IInv, NextTail
<1> SUFFICES ASSUME NEW j \in Keys, NEW n \in 1..Len(Expected[j]),
                    op \in Tails(j) \/ \E m \in DOMAIN Expected[j] : n < m /\ Expected[j][m] = op
             PROVE  Expected[j][n] \in Entered
  BY <1>1, BeforeFacts
<1>2. \A m \in 1..Len(Expected[j]) : Expected[j][m] # op
  BY <1>1, Distinct
<1>3. PICK i \in 1..Len(CutoffExpected[j]) : op = CutoffExpected[j][i]
  BY <1>2, QueueFacts, TailPlace
<1>4. j = k
  <2>1. CutoffExpected[j][i] = CutoffExpected[k][cutoffCursor[k] + 1]
    BY <1>1, <1>3
  <2> QED BY <1>1, <2>1, Distinct
<1>5. Expected[k][n] \in Ops /\ entries[Expected[k][n]] = 1
  BY <1>1, <1>4, QueueFacts DEF IInv, Positions
<1> QED BY <1>4, <1>5 DEF Entered

(* A reservation of a fresh operation whose predecessors were entered. *)
LEMMA ReserveEnters ==
    ASSUME IInv, NEW op \in ClosedOps \cup Composite, NEW r, Reserve(op, r),
           entries[op] = 0, Before[op] \subseteq Entered, UNCHANGED delivered
    PROVE  Contract!Enter(op)
<1>1. op \in Ops /\ op \notin Entered
  BY Membership DEF Entered
<1>2. Entered' = Entered \cup {op}
  BY <1>1 DEF Reserve, Entered, IInv, TypeOK
<1> QED BY <1>1, <1>2 DEF Contract!Enter

LEMMA ContractStep == IInv /\ [Next]_vars => [Contract!Next]_Contract!contractVars
<1> SUFFICES ASSUME IInv, [Next]_vars
             PROVE  Contract!Next \/ UNCHANGED Contract!contractVars
  OBVIOUS
<1>1. ASSUME NEW r \in Requests, ClaimClosed(r) PROVE Contract!Next
  <2>1. /\ r.key \in Keys
        /\ AtClosed(r.key)
        /\ NextClosed(r.key) \in ClosedOps
        /\ NextClosed(r.key) \in Ops
        /\ entries[NextClosed(r.key)] = 0
    BY <1>1, FreshSlot, SlotFacts DEF ClaimClosed, IInv
  <2>2. Contract!Enter(NextClosed(r.key))
    BY <1>1, <2>1, PredecessorsOfClosed, ReserveEnters DEF ClaimClosed
  <2> QED BY <2>1, <2>2 DEF Contract!Next
<1>2. ASSUME NEW r \in Requests, EnterCompositeTail(r) PROVE Contract!Next
  <2>1. /\ r.key \in Keys
        /\ AtTail(r.key)
        /\ NextTail(r.key) \in Composite
        /\ NextTail(r.key) \in Ops
        /\ entries[NextTail(r.key)] = 0
    BY <1>2, FreshSlot, SlotFacts DEF EnterCompositeTail, IInv
  <2>2. Contract!Enter(NextTail(r.key))
    BY <1>2, <2>1, PredecessorsOfTail, ReserveEnters DEF EnterCompositeTail
  <2> QED BY <2>1, <2>2 DEF Contract!Next
<1>3. ASSUME NEW op \in Ops, Deliver(op) PROVE Contract!Next
  <2>1. op \in completed \ delivered /\ delivered' = delivered \cup {op}
    BY <1>3 DEF Deliver
  <2>2. op \in ClosedOps \cap Entered
    <3>1. entries[op] > 0 /\ op \notin Composite
      BY <2>1 DEF IInv, Accounting, completed
    <3> QED BY <3>1 DEF IInv, Positions, Entered
  <2>3. Entered' = Entered
    BY <1>3 DEF Deliver, Entered
  <2>4. Contract!Answer(op)
    BY <2>1, <2>2, <2>3 DEF Contract!Answer
  <2> QED BY <2>4 DEF Contract!Next
<1>4. ASSUME UNCHANGED <<entries, delivered>> PROVE UNCHANGED Contract!contractVars
  BY <1>4 DEF Contract!contractVars, Entered
<1> QED BY <1>1, <1>2, <1>3, <1>4
        DEF Next, vars, InterceptTail, HoldPastEnd, RejectStart, RejectTrigger, Fail,
            Complete, HoldTruncated, RejectCompletion, Tick

(* The ledger implements the replay contract: recorded operations are      *)
(* entered once, in lane order, and only closed ones are answered, after   *)
(* they were entered (`start', `complete', `mark_delivered').              *)
THEOREM Refinement == Spec => ImplementsContract
<1>1. Init => Contract!Init
  BY DEF Init, Contract!Init, Entered
<1> QED BY <1>1, ContractStep, Invariance, PTL DEF Spec, ImplementsContract, Contract!Spec

=============================================================================

------------------------- MODULE ForcedAudit_proofs -------------------------
(***************************************************************************)
(* Theorems of the forced-token audit, for any requests, rows, recordings  *)
(* and lines of other engines.                                             *)
(*                                                                         *)
(* The engine's batch, the plugin's rows and what they write are a         *)
(* behaviour of SamplerPlugin, of which SP says what is proved.  The       *)
(* reader's part is ReaderInv: it never looks at what the file held when   *)
(* the run began, it keeps one record for each request, and who is         *)
(* accepted was accepted on a record that stays the one of its request.    *)
(***************************************************************************)
EXTENDS ForcedAudit, FiniteSetTheorems, SequenceTheorems, TLAPS

SP == INSTANCE SamplerPlugin_proofs

(* A line that was written in this run. *)
OfThisRun(l) == \E i \in begin + 1..Len(file) : file[i] = l

Places ==
    /\ begin \in Nat /\ offset \in Nat /\ begin <= offset /\ offset <= Len(file)
    /\ partial \in BOOLEAN /\ (partial => offset > begin)
    /\ torn => Len(file) > begin

Records ==
    /\ \A l \in seen : OfThisRun(l)
    /\ \A k, l \in seen : k.id = l.id => k = l
    /\ batch \in Seq(Range(batch)) /\ \A i \in DOMAIN batch : OfThisRun(batch[i])

Waiting ==
    /\ waiter \in [Audited -> {"idle", "waiting", "resolved", "poisoned"} \cup R!Outcomes]
    /\ pump \in {"off", "polling", "reading", "publishing"}
    /\ \A w \in Audited :
          /\ waiter[w] # "idle" => status[w] \in {"finished", "gone"}
          /\ waiter[w] \in {"resolved", "accepted"} => \E l \in seen : l.id = w
          /\ waiter[w] = "accepted" => Agrees(w, R!RecordOf(w))

ReaderInv == Places /\ Records /\ Waiting

IInv == SP!SamplerInv /\ ReaderInv

-----------------------------------------------------------------------------
(* The plugin of the run is the plugin of the proofs *)

LEMMA PluginAssumption == SP!SamplerAssumption
BY ForcedAuditAssumption DEF S!SamplerAssumption, SP!SamplerAssumption, S!NoState, SP!NoState

LEMMA PluginInit == S!SamplerInit => SP!SamplerInit
BY DEF S!SamplerInit, SP!SamplerInit, S!Range, SP!Range, S!NoState, SP!NoState

LEMMA PluginBatches ==
    ASSUME NEW preempted, NEW J, NEW valid
    PROVE  S!UpdateBatch(preempted, J, valid) => SP!UpdateBatch(preempted, J, valid)
BY DEF S!UpdateBatch, S!UpdateState, S!WriteAudits, S!Audit, S!Complete, S!Window, S!Min2, S!Line,
       S!SetToSeqs, SP!SetToSeqs, S!Cardinality, SP!Cardinality, S!IsFiniteSet, SP!IsFiniteSet, S!StatesIn, S!AfterRemoved, S!AfterAdded, S!AfterMoved, S!Refused, S!Finished, S!Moves,
       S!NoState,
       SP!UpdateBatch, SP!UpdateState, SP!WriteAudits, SP!Audit, SP!Complete, SP!Window, SP!Min2,
       SP!Line, SP!StatesIn, SP!AfterRemoved, SP!AfterAdded, SP!AfterMoved, SP!Refused,
       SP!Finished, SP!Moves, SP!NoState

LEMMA PluginSwaps ==
    ASSUME NEW i, NEW j
    PROVE  S!Reorder(i, j) => SP!Reorder(i, j)
BY DEF S!Reorder, S!UpdateState, S!WriteAudits, S!Audit, S!Complete, S!Window, S!Min2, S!Line,
       S!SetToSeqs, SP!SetToSeqs, S!Cardinality, SP!Cardinality, S!IsFiniteSet, SP!IsFiniteSet, S!StatesIn, S!AfterRemoved, S!AfterAdded, S!AfterMoved, S!Refused, S!NoState,
       SP!Reorder, SP!UpdateState, SP!WriteAudits, SP!Audit, SP!Complete, SP!Window, SP!Min2,
       SP!Line, SP!StatesIn, SP!AfterRemoved, SP!AfterAdded, SP!AfterMoved, SP!Refused, SP!NoState

LEMMA PluginSamples ==
    ASSUME NEW discarded, NEW natural, NEW lag
    PROVE  S!SampleStep(discarded, natural, lag) => SP!SampleStep(discarded, natural, lag)
BY DEF S!SampleStep, S!Drifts, S!Resolved, S!Position, S!InWindow, S!Overridden, S!Min2, S!IsPrefix, SP!IsPrefix,
       S!Finished, S!NoState,
       SP!SampleStep, SP!Drifts, SP!Resolved, SP!Position, SP!InWindow, SP!Overridden, SP!Min2,
       SP!Finished, SP!NoState

LEMMA PluginEnds ==
    /\ \A r : S!Finish(r) => SP!Finish(r)
    /\ S!Flush => SP!Flush
    /\ \A l : S!ForeignAppend(l) => SP!ForeignAppend(l)
BY DEF S!Finish, S!Flush, S!ForeignAppend, S!engineVars, S!pluginVars, S!fileVars,
       SP!Finish, SP!Flush, SP!ForeignAppend, SP!engineVars, SP!pluginVars, SP!fileVars

LEMMA PluginSteps ==
    /\ S!NextBatch => SP!NextBatch
    /\ S!Preempt => SP!Preempt
    /\ S!Refuse => SP!Refuse
    /\ S!Swap => SP!Swap
    /\ S!Sample => SP!Sample
<1>1. S!NextBatch => SP!NextBatch
  BY PluginBatches DEF S!NextBatch, SP!NextBatch, S!Queued, SP!Queued
<1>2. S!Preempt => SP!Preempt
  BY PluginBatches DEF S!Preempt, SP!Preempt, S!Finished, SP!Finished
<1>3. S!Refuse => SP!Refuse
  BY PluginBatches DEF S!Refuse, SP!Refuse, S!Queued, SP!Queued
<1>4. S!Swap => SP!Swap
  BY PluginSwaps DEF S!Swap, SP!Swap
<1>5. S!Sample => SP!Sample
  BY PluginSamples DEF S!Sample, SP!Sample
<1> QED BY <1>1, <1>2, <1>3, <1>4, <1>5
-----------------------------------------------------------------------------
(* The reader starts at the end of the file *)

LEMMA Begins == Init => IInv
<1> SUFFICES ASSUME Init PROVE IInv
  OBVIOUS
<1>1. /\ file \in Seq(SP!Range(file)) /\ file \in Seq(Range(file))
      /\ \A i \in DOMAIN file : file[i].by # "engine"
  BY ForcedAuditAssumption DEF Init, SP!Range, Range
<1>2. SP!SamplerInv
  BY <1>1, PluginAssumption, PluginInit, SP!SamplerStarts DEF Init
<1>3. Len(file) \in Nat /\ begin = Len(file) /\ ~torn
  BY <1>1, LenProperties DEF Init, S!SamplerInit
<1>4. /\ offset = Len(file) /\ partial = FALSE /\ seen = {}
      /\ waiter = [w \in Audited |-> "idle"]
      /\ pump = "off" /\ batch = <<>>
  BY DEF Init, R!ReaderInit
<1>5. Places
  <2>1. begin \in Nat /\ offset \in Nat /\ begin <= offset /\ offset <= Len(file)
    BY ONLY <1>3, <1>4
  <2>2. ~torn /\ ~partial /\ partial \in BOOLEAN
    BY ONLY <1>3, <1>4
  <2> QED BY ONLY <2>1, <2>2 DEF Places
<1>6. Records
  BY <1>4, EmptySeq DEF Records
<1>7. Waiting
  BY <1>4 DEF Waiting
<1> QED BY <1>2, <1>5, <1>6, <1>7 DEF IInv, ReaderInv

-----------------------------------------------------------------------------
(* The engine's steps leave what the reader has *)

LEMMA OldLinesStay ==
    ASSUME Places, SP!Grows, begin' = begin
    PROVE  \A l : OfThisRun(l) => OfThisRun(l)'
<1>1. begin \in Nat /\ Len(file) \in Nat /\ Len(file') \in Nat
  <2>1. Len(file') \in Nat
    BY LenProperties DEF SP!Grows
  <2>2. Len(file) \in Nat
    BY DEF Places
  <2> QED BY <2>1, <2>2 DEF Places
<1>2. ASSUME NEW l, NEW i \in begin + 1..Len(file), file[i] = l
      PROVE  \E j \in begin + 1..Len(file') : file'[j] = l
  BY <1>1, <1>2 DEF SP!Grows
<1> QED BY <1>2 DEF OfThisRun

LEMMA ReaderWaits ==
    ASSUME IInv, SP!Grows, SP!Answered, UNCHANGED <<readerVars, begin>>
    PROVE  ReaderInv'
<1>1. UNCHANGED <<offset, partial, seen, waiter, pump, batch, failure, begin>>
  BY DEF readerVars
<1>2. Places /\ Records /\ Waiting
  BY DEF IInv, ReaderInv
<1>3. Len(file) \in Nat /\ Len(file') \in Nat
  BY LenProperties DEF SP!Grows, IInv, SP!SamplerInv, SP!Types
<1>4. Places'
  BY <1>1, <1>2, <1>3 DEF Places, SP!Grows
<1>5. Records'
  <2>1. \A l : OfThisRun(l) => OfThisRun(l)'
    BY <1>1, <1>2, OldLinesStay
  <2> QED BY ONLY <1>1, <1>2, <2>1 DEF Records, Range
<1>6. Waiting'
  BY <1>1, <1>2 DEF Waiting, SP!Answered, R!RecordOf, Audited
<1> QED BY <1>4, <1>5, <1>6 DEF ReaderInv
-----------------------------------------------------------------------------
(* The reader's own steps leave what the engine has *)

(* What is kept of a record when `seen' grows by records of other requests. *)
LEMMA SameRecord ==
    ASSUME seen \subseteq seen', \A k, l \in seen' : k.id = l.id => k = l,
           NEW w, NEW l \in seen, l.id = w
    PROVE  R!RecordOf(w)' = R!RecordOf(w) /\ R!RecordOf(w) = l
<1> DEFINE k == CHOOSE x \in seen : x.id = w
           m == CHOOSE x \in seen' : x.id = w
<1>1. k \in seen /\ k.id = w
  OBVIOUS
<1>2. m \in seen' /\ m.id = w
  OBVIOUS
<1>3. k = m /\ k = l
  BY <1>1, <1>2
<1> QED BY <1>3 DEF R!RecordOf

LEMMA Asking ==
    ASSUME IInv, NEW w \in Audited, Wait(w)
    PROVE  ReaderInv'
<1>1. /\ UNCHANGED <<offset, partial, seen, batch, begin, status, file, torn>>
      /\ status[w] \in {"finished", "gone"} /\ waiter[w] = "idle"
      /\ waiter' = [waiter EXCEPT ![w] =
             IF failure THEN "failed"
             ELSE IF \E l \in seen : l.id = w THEN R!Verdict(w) ELSE "waiting"]
      /\ pump' \in {pump, "polling"}
  BY DEF Wait, ReaderStep, R!Wait, samplerVars
<1>2. Places /\ Records /\ Waiting
  BY DEF IInv, ReaderInv
<1>3. Places'
  BY ONLY <1>1, <1>2 DEF Places
<1>4. Records'
  BY ONLY <1>1, <1>2 DEF Records, Range, OfThisRun
<1>5. Waiting'
  <2>1. R!Verdict(w) \in {"accepted", "mismatch"}
        /\ (R!Verdict(w) = "accepted" => Agrees(w, R!RecordOf(w)))
    BY DEF R!Verdict
  <2>2. /\ waiter' \in [Audited -> {"idle", "waiting", "resolved", "poisoned"} \cup R!Outcomes]
        /\ pump' \in {"off", "polling", "reading", "publishing"}
    BY <1>1, <1>2, <2>1 DEF Waiting, R!Outcomes
  <2>3. \A v \in Audited : R!RecordOf(v)' = R!RecordOf(v)
    BY <1>1 DEF R!RecordOf
  <2>4. ASSUME NEW v \in Audited
        PROVE  /\ waiter'[v] # "idle" => status'[v] \in {"finished", "gone"}
               /\ waiter'[v] \in {"resolved", "accepted"} => \E l \in seen' : l.id = v
               /\ waiter'[v] = "accepted" => Agrees(v, R!RecordOf(v))
    <3>1. CASE v # w
      BY <1>1, <1>2, <3>1 DEF Waiting
    <3>2. CASE v = w
      <4>1. waiter'[w] = IF failure THEN "failed"
                         ELSE IF \E l \in seen : l.id = w THEN R!Verdict(w) ELSE "waiting"
        BY <1>1, <1>2 DEF Waiting
      <4> QED BY ONLY <1>1, <2>1, <3>2, <4>1
    <3> QED BY <3>1, <3>2
  <2> QED BY <2>2, <2>3, <2>4 DEF Waiting
<1> QED BY <1>3, <1>4, <1>5 DEF ReaderInv

LEMMA Resuming ==
    ASSUME IInv, NEW w \in Audited, Resume(w) \/ TimesOut(w)
    PROVE  ReaderInv'
<1>1. /\ UNCHANGED <<offset, partial, seen, pump, batch, begin, status, file, torn>>
      /\ waiter[w] \in {"waiting", "resolved", "poisoned"}
      /\ \E v \in {"failed", "missing", R!Verdict(w)} :
            /\ waiter' = [waiter EXCEPT ![w] = v]
            /\ v = "accepted" => waiter[w] = "resolved"
  <2>1. R!Verdict(w) \in {"accepted", "mismatch"}
    BY DEF R!Verdict
  <2>2. CASE Resume(w)
    BY <2>1, <2>2 DEF Resume, ReaderStep, R!Resume, samplerVars
  <2>3. CASE TimesOut(w)
    BY <2>3 DEF TimesOut, ReaderStep, R!WaitTimesOut, samplerVars
  <2> QED BY <2>2, <2>3
<1>2. Places /\ Records /\ Waiting
  BY DEF IInv, ReaderInv
<1>3. Places'
  BY ONLY <1>1, <1>2 DEF Places
<1>4. Records'
  BY ONLY <1>1, <1>2 DEF Records, Range, OfThisRun
<1>5. Waiting'
  <2>1. R!Verdict(w) \in {"accepted", "mismatch"}
        /\ (R!Verdict(w) = "accepted" => Agrees(w, R!RecordOf(w)))
    BY DEF R!Verdict
  <2>2. PICK v \in {"failed", "missing", R!Verdict(w)} :
            /\ waiter' = [waiter EXCEPT ![w] = v]
            /\ v = "accepted" => waiter[w] = "resolved"
    BY <1>1
  <2>3. v \in R!Outcomes
    BY <2>1 DEF R!Outcomes
  <2>4. /\ waiter' \in [Audited -> {"idle", "waiting", "resolved", "poisoned"} \cup R!Outcomes]
        /\ pump' \in {"off", "polling", "reading", "publishing"}
    BY <1>1, <1>2, <2>2, <2>3 DEF Waiting
  <2>5. \A u \in Audited : R!RecordOf(u)' = R!RecordOf(u)
    BY <1>1 DEF R!RecordOf
  <2>6. ASSUME NEW u \in Audited
        PROVE  /\ waiter'[u] # "idle" => status'[u] \in {"finished", "gone"}
               /\ waiter'[u] \in {"resolved", "accepted"} => \E l \in seen' : l.id = u
               /\ waiter'[u] = "accepted" => Agrees(u, R!RecordOf(u))
    <3>1. CASE u # w
      BY <1>1, <1>2, <2>2, <3>1 DEF Waiting
    <3>2. CASE u = w
      <4>1. waiter'[w] = v /\ waiter[w] # "idle" /\ v # "resolved"
        BY <1>1, <1>2, <2>1, <2>2 DEF Waiting
      <4>2. v = "accepted" => waiter[w] = "resolved" /\ Agrees(w, R!RecordOf(w))
        BY <2>1, <2>2
      <4> QED BY <1>1, <1>2, <3>2, <4>1, <4>2 DEF Waiting
    <3> QED BY <3>1, <3>2
  <2> QED BY <2>4, <2>5, <2>6 DEF Waiting
<1> QED BY <1>3, <1>4, <1>5 DEF ReaderInv

LEMMA Turning ==
    ASSUME IInv, PumpTurn
    PROVE  ReaderInv'
<1>1. /\ UNCHANGED <<offset, partial, seen, waiter, batch, begin, status, file, torn>>
      /\ pump' \in {"off", "reading"}
  BY DEF PumpTurn, ReaderStep, R!PumpTurn, samplerVars
<1>2. Places /\ Records /\ Waiting
  BY DEF IInv, ReaderInv
<1>3. Places' /\ Records'
  BY ONLY <1>1, <1>2 DEF Places, Records, Range, OfThisRun
<1>4. Waiting'
  BY <1>1, <1>2 DEF Waiting, R!RecordOf
<1> QED BY <1>3, <1>4 DEF ReaderInv

(* The thread reads on from where it was, and so never what is older than  *)
(* the run.                                                                *)
LEMMA Reading ==
    ASSUME IInv, ReadFile
    PROVE  ReaderInv'
<1>1. /\ UNCHANGED <<seen, waiter, begin, status, file, torn>>
      /\ offset' = Len(file) /\ partial' = torn /\ batch' = R!NewLines
      /\ pump' = "publishing"
  BY DEF ReadFile, ReaderStep, R!ReadFile, samplerVars
<1>2. Places /\ Records /\ Waiting
  BY DEF IInv, ReaderInv
<1>3. file \in Seq(Range(file)) /\ Len(file) \in Nat /\ torn \in BOOLEAN
  BY LenProperties DEF IInv, SP!SamplerInv, SP!Types, SP!Range, Range
<1>4. Places'
  <2>1. torn' => Len(file') > begin'
    BY <1>1, <1>2 DEF Places
  <2> QED BY <1>1, <1>2, <1>3, <2>1 DEF Places
<1>5. /\ batch' \in Seq(Range(file))
      /\ \A i \in 1..Len(batch') : \E j \in begin + 1..Len(file) : batch'[i] = file[j]
  <2> DEFINE a == offset + (IF partial THEN 0 ELSE 1)
             m == Len(file) - (IF torn THEN 1 ELSE 0)
  <2>1. batch' = SubSeq(file, a, m)
    BY <1>1 DEF R!NewLines
  <2>2. /\ begin \in Nat /\ a \in Nat /\ m \in Int /\ a >= begin + 1 /\ m <= Len(file)
    BY <1>2, <1>3 DEF Places
  <2> HIDE DEF a, m
  <2>3. \A i \in a..m : file[i] \in Range(file)
    BY <1>3, <2>2, ElementOfSeq
  <2>4. /\ batch' \in Seq(Range(file)) /\ Len(batch') = IF a <= m THEN m - a + 1 ELSE 0
        /\ \A i \in 1..m - a + 1 : batch'[i] = file[a + i - 1]
    BY <2>1, <2>2, <2>3, SubSeqProperties
  <2>5. ASSUME NEW i \in 1..Len(batch')
        PROVE  \E j \in begin + 1..Len(file) : batch'[i] = file[j]
    <3>1. a + i - 1 \in begin + 1..Len(file) /\ i \in 1..m - a + 1
      BY <1>3, <2>2, <2>4
    <3> QED BY <2>4, <3>1
  <2> QED BY <2>4, <2>5
<1>6. Records'
  <2>1. batch' \in Seq(Range(batch'))
    <3>1. batch' \in Seq(SP!Range(batch'))
      BY <1>5, SP!OfItsRange
    <3> QED BY <3>1 DEF SP!Range, Range
  <2>2. \A i \in DOMAIN batch' : \E j \in begin' + 1..Len(file') : file'[j] = batch'[i]
    <3>1. DOMAIN batch' = 1..Len(batch')
      BY <1>5
    <3> QED BY <1>1, <1>5, <3>1
  <2>3. \A l \in seen' : OfThisRun(l)'
    BY ONLY <1>1, <1>2 DEF Records, OfThisRun
  <2>4. \A k, l \in seen' : k.id = l.id => k = l
    BY ONLY <1>1, <1>2 DEF Records
  <2> QED BY ONLY <2>1, <2>2, <2>3, <2>4 DEF Records, OfThisRun, Range
<1>7. Waiting'
  BY <1>1, <1>2 DEF Waiting, R!RecordOf
<1> QED BY <1>4, <1>6, <1>7 DEF ReaderInv

(* Who waits when the reader fails is told so; the others are not touched. *)
LEMMA Failing ==
    ASSUME Waiting, NEW resolved \in SUBSET R!Pending, R!PumpFails(resolved)
    PROVE  /\ waiter' \in [Audited -> {"idle", "waiting", "resolved", "poisoned"} \cup R!Outcomes]
           /\ pump' = "off"
           /\ \A w \in Audited :
                 /\ waiter'[w] = "idle" <=> waiter[w] = "idle"
                 /\ waiter'[w] = "accepted" <=> waiter[w] = "accepted"
                 /\ waiter'[w] = "resolved" => waiter[w] = "resolved" \/ w \in resolved
BY DEF Waiting, R!PumpFails, R!Pending, R!Outcomes

LEMMA ReadingFails ==
    ASSUME IInv, ReadFails
    PROVE  ReaderInv'
<1>1. /\ UNCHANGED <<offset, partial, seen, batch, begin, status, file, torn>>
      /\ R!PumpFails({})
  BY DEF ReadFails, FaultBudget, R!ReadFails, samplerVars
<1>2. Places /\ Records /\ Waiting
  BY DEF IInv, ReaderInv
<1>3. Places' /\ Records'
  BY ONLY <1>1, <1>2 DEF Places, Records, Range, OfThisRun
<1>4. Waiting'
  <2>1. /\ waiter' \in [Audited -> {"idle", "waiting", "resolved", "poisoned"} \cup R!Outcomes]
        /\ pump' = "off"
        /\ \A w \in Audited :
              /\ waiter'[w] = "idle" <=> waiter[w] = "idle"
              /\ waiter'[w] = "accepted" <=> waiter[w] = "accepted"
              /\ waiter'[w] = "resolved" => waiter[w] = "resolved"
    <3> DEFINE none == {}
    <3>1. none \in SUBSET R!Pending /\ R!PumpFails(none)
      BY <1>1
    <3> HIDE DEF none
    <3> QED BY <1>2, <3>1, Failing DEF none
  <2> QED BY <1>1, <1>2, <2>1 DEF Waiting, R!RecordOf
<1> QED BY <1>3, <1>4 DEF ReaderInv

LEMMA Publishing ==
    ASSUME IInv, Publish
    PROVE  ReaderInv'
<1> DEFINE repeated(i) == \/ \E l \in seen : l.id = batch[i].id
                          \/ \E j \in 1..i-1 : batch[j].id = batch[i].id
           good == {i \in DOMAIN batch : \A j \in 1..i : ~repeated(j)}
           new == {batch[i] : i \in good}
           resolved == {w \in R!Pending : \E i \in good : batch[i].id = w}
<1>1. /\ UNCHANGED <<offset, partial, begin, status, file, torn>>
      /\ seen' = seen \cup new /\ batch' = <<>>
      /\ \/ R!PumpFails(resolved)
         \/ /\ waiter' = [w \in Audited |-> IF w \in resolved THEN "resolved" ELSE waiter[w]]
            /\ pump' \in {"off", "polling"}
  BY DEF Publish, ReaderStep, R!Publish, samplerVars
<1>2. Places /\ Records /\ Waiting
  BY DEF IInv, ReaderInv
<1>3. Places'
  BY ONLY <1>1, <1>2 DEF Places
<1>4. \A k, l \in seen' : k.id = l.id => k = l
  <2>1. DOMAIN batch = 1..Len(batch) /\ Len(batch) \in Nat
    BY <1>2, LenProperties DEF Records
  <2>2. ASSUME NEW k \in seen, NEW i \in good PROVE k.id # batch[i].id
    BY <2>1
  <2>3. ASSUME NEW i \in good, NEW j \in good, batch[i].id = batch[j].id PROVE i = j
    BY <2>1, <2>3
  <2>4. \A k, l \in seen : k.id = l.id => k = l
    BY <1>2 DEF Records
  <2> HIDE DEF good
  <2> QED BY ONLY <1>1, <2>2, <2>3, <2>4
<1>5. Records'
  <2>1. \A l \in seen : OfThisRun(l)'
    BY ONLY <1>1, <1>2 DEF Records, OfThisRun
  <2>2. \A l \in new : OfThisRun(l)'
    BY ONLY <1>1, <1>2 DEF Records, OfThisRun
  <2>3. batch' \in Seq(Range(batch')) /\ DOMAIN batch' = {}
    BY <1>1
  <2> HIDE DEF new
  <2> QED BY ONLY <1>1, <1>4, <2>1, <2>2, <2>3 DEF Records, OfThisRun
<1>6. Waiting'
  <2>1. /\ waiter' \in [Audited -> {"idle", "waiting", "resolved", "poisoned"} \cup R!Outcomes]
        /\ pump' \in {"off", "polling", "reading", "publishing"}
        /\ \A w \in Audited :
              /\ waiter'[w] = "idle" <=> waiter[w] = "idle"
              /\ waiter'[w] = "accepted" <=> waiter[w] = "accepted"
              /\ waiter'[w] = "resolved" => waiter[w] = "resolved" \/ w \in resolved
    <3>1. CASE R!PumpFails(resolved)
      <4>1. resolved \in SUBSET R!Pending
        OBVIOUS
      <4> HIDE DEF resolved
      <4> QED BY <1>2, <3>1, <4>1, Failing
    <3>2. CASE /\ waiter' = [w \in Audited |-> IF w \in resolved THEN "resolved" ELSE waiter[w]]
               /\ pump' \in {"off", "polling"}
      <4>1. \A w \in resolved : w \in Audited /\ waiter[w] = "waiting"
        BY DEF R!Pending
      <4> HIDE DEF resolved
      <4> QED BY <1>2, <3>2, <4>1 DEF Waiting
    <3> QED BY <1>1, <3>1, <3>2
  <2>2. \A w \in resolved : \E l \in seen' : l.id = w
    BY <1>1
  <2>3. ASSUME NEW w \in Audited, waiter[w] = "accepted"
        PROVE  /\ R!RecordOf(w)' = R!RecordOf(w) /\ Agrees(w, R!RecordOf(w))
               /\ \E l \in seen' : l.id = w
    <3>1. PICK l \in seen : l.id = w
      BY <1>2, <2>3 DEF Waiting
    <3>2. seen \subseteq seen'
      BY <1>1
    <3>3. R!RecordOf(w)' = R!RecordOf(w)
      BY ONLY <1>4, <3>1, <3>2, SameRecord
    <3> QED BY <1>2, <2>3, <3>1, <3>2, <3>3 DEF Waiting
  <2>4. ASSUME NEW w \in Audited
        PROVE  /\ waiter'[w] # "idle" => status'[w] \in {"finished", "gone"}
               /\ waiter'[w] \in {"resolved", "accepted"} => \E l \in seen' : l.id = w
               /\ waiter'[w] = "accepted" => Agrees(w, R!RecordOf(w)')
    <3>1. waiter[w] = "resolved" => \E l \in seen' : l.id = w
      BY <1>1, <1>2 DEF Waiting
    <3> HIDE DEF resolved
    <3> QED BY <1>1, <1>2, <2>1, <2>2, <2>3, <3>1 DEF Waiting
  <2> QED BY ONLY <2>1, <2>4 DEF Waiting, Agrees, Audited, R!RecordOf
<1> QED BY <1>3, <1>5, <1>6 DEF ReaderInv
-----------------------------------------------------------------------------
(* Every step of the run *)

LEMMA EngineSteps ==
    ASSUME IInv, NextBatch \/ Swap \/ Sample \/ Flush \/ Preempt \/ Refuse \/ OthersAppend
                 \/ \E r \in Requests : Finish(r)
    PROVE  SP!SamplerInv' /\ SP!Grows /\ SP!Answered /\ UNCHANGED <<readerVars, begin>>
<1>1. UNCHANGED <<readerVars, begin>>
  BY DEF NextBatch, Swap, Sample, Flush, Preempt, Refuse, OthersAppend, Finish, SamplerStep,
         FaultBudget
<1>2. SP!SamplerInv
  BY DEF IInv
<1>3. CASE OthersAppend
  <2>1. PICK l \in ForeignLines : S!ForeignAppend(l)
    BY <1>3 DEF OthersAppend
  <2>2. l.by # "engine" /\ SP!ForeignAppend(l)
    BY <2>1, PluginEnds, ForcedAuditAssumption
  <2> QED BY <1>1, <1>2, <2>2, SP!Appending
<1>4. CASE NextBatch \/ Swap \/ Sample \/ Flush \/ Preempt \/ Refuse
           \/ \E r \in Requests : Finish(r)
  <2>1. SP!NextBatch \/ SP!Preempt \/ SP!Refuse \/ SP!Swap \/ SP!Sample \/ SP!Flush
        \/ \E r \in Requests : SP!Finish(r)
    BY <1>4, PluginSteps, PluginEnds
       DEF NextBatch, Swap, Sample, Flush, Preempt, Refuse, Finish, SamplerStep
  <2> QED BY <1>1, <1>2, <2>1, PluginAssumption, SP!SamplerKeeps
<1> QED BY <1>3, <1>4

LEMMA EngineRests ==
    ASSUME IInv, UNCHANGED samplerVars
    PROVE  SP!SamplerInv' /\ SP!Grows /\ SP!Answered
BY SP!SamplerRests
   DEF IInv, samplerVars, SP!samplerVars, SP!engineVars, SP!pluginVars, SP!fileVars

(* The invariant is inductive. *)
LEMMA Inductive ==
    ASSUME IInv, [Next]_vars
    PROVE  IInv'
<1>1. CASE \E w \in Audited : Wait(w) \/ Resume(w) \/ TimesOut(w)
  <2>1. PICK w \in Audited : Wait(w) \/ Resume(w) \/ TimesOut(w)
    BY <1>1
  <2>2. UNCHANGED samplerVars
    BY <2>1 DEF Wait, Resume, TimesOut, ReaderStep
  <2>3. ReaderInv'
    BY <2>1, Asking, Resuming
  <2> QED BY <2>2, <2>3, EngineRests DEF IInv
<1>2. CASE PumpTurn \/ ReadFile \/ Publish \/ ReadFails
  <2>1. UNCHANGED samplerVars
    BY <1>2 DEF PumpTurn, ReadFile, Publish, ReadFails, ReaderStep
  <2>2. ReaderInv'
    BY <1>2, Turning, Reading, Publishing, ReadingFails
  <2> QED BY <2>1, <2>2, EngineRests DEF IInv
<1>3. CASE NextBatch \/ Swap \/ Sample \/ Flush \/ Preempt \/ Refuse \/ OthersAppend
           \/ \E r \in Requests : Finish(r)
  <2>1. SP!SamplerInv' /\ SP!Grows /\ SP!Answered /\ UNCHANGED <<readerVars, begin>>
    BY <1>3, EngineSteps
  <2> QED BY <2>1, ReaderWaits DEF IInv
<1>4. CASE UNCHANGED vars
  <2>1. UNCHANGED samplerVars /\ UNCHANGED <<readerVars, begin>>
    BY <1>4 DEF vars
  <2>2. SP!SamplerInv' /\ SP!Grows /\ SP!Answered
    BY <2>1, EngineRests
  <2> QED BY <2>1, <2>2, ReaderWaits DEF IInv
<1> QED BY <1>1, <1>2, <1>3, <1>4 DEF Next

LEMMA Always == Spec => []IInv
<1>1. Init => IInv
  BY Begins
<1>2. IInv /\ [Next]_vars => IInv'
  BY Inductive
<1> QED BY <1>1, <1>2, PTL DEF Spec

-----------------------------------------------------------------------------
(* Theorems *)

(* The engine's rows fit its batch, the plugin counts no more forced       *)
(* tokens than it was given, an audit is written for an accepted request   *)
(* only, and the reader keeps one record of each request                   *)
(* (forced.py, vllm_plugin/.../forced.py).                                 *)
THEOREM TypeCorrect == Spec => []TypeOK
<1>1. IInv => TypeOK
  <2> SUFFICES ASSUME IInv PROVE TypeOK
    OBVIOUS
  <2>1. SP!Types /\ SP!Samples /\ Places /\ Records /\ Waiting
    BY DEF IInv, SP!SamplerInv, ReaderInv
  <2>2. rows \in SeqOf(Requests, MaxRows)
    <3>1. Len(rows) \in 0..MaxRows /\ rows \in [1..Len(rows) -> Requests]
      BY <2>1, LenProperties, PluginAssumption DEF SP!Types, SP!SamplerAssumption
    <3> QED BY <3>1 DEF SeqOf
  <2>3. ASSUME NEW r \in Requests
        PROVE  /\ Len(sampled[r]) <= MaxDrawn[r] /\ Len(drawn[r]) <= MaxDrawn[r]
               /\ forcedCount[r] <= Len(Tokens[r])
    <3>1. forcedCount[r] = SP!Forced(r) /\ sampled[r] = drawn[r] /\ Len(drawn[r]) <= MaxDrawn[r]
      BY <2>1 DEF SP!Samples
    <3>2. Len(sampled[r]) \in Nat /\ Start[r] \in Nat /\ Len(Tokens[r]) \in Nat
      BY <2>1, PluginAssumption, LenProperties DEF SP!Types, SP!SamplerAssumption
    <3> QED BY <3>1, <3>2 DEF SP!Forced, SP!Min2
  <2>4. states \in [1..MaxRows -> Requests \cup {S!NoState}]
    BY <2>1 DEF SP!Types, SP!NoState, S!NoState
  <2>5. seenIds \subseteq Audited /\ written \subseteq seenIds
    BY <2>1 DEF SP!Types, SP!Audited, Audited
  <2>6. offset \in 0..Len(file)
    BY <2>1, LenProperties DEF Places, SP!Types
  <2>7. status \in [Requests -> {"queued", "running", "finished", "gone"}]
    BY <2>1 DEF SP!Types
  <2> QED BY <2>1, <2>2, <2>3, <2>4, <2>5, <2>6, <2>7 DEF Waiting, Records, TypeOK
<1> QED BY <1>1, Always, PTL

(* Whatever requests finish, join, are preempted, moved and swapped, the   *)
(* plugin forces and records in each row the tokens of the request that    *)
(* the engine runs there (ForcedTokenBatchProcessor.update_state).         *)
THEOREM RowsAreMatched == Spec => []RowsMatch
<1>1. IInv => RowsMatch
  <2> SUFFICES ASSUME IInv, alive, NEW i \in 1..MaxRows
               PROVE  states[i] = IF i \in DOMAIN rows /\ Mode[rows[i]] # "plain"
                                  THEN rows[i] ELSE S!NoState
    BY DEF RowsMatch
  <2>1. SP!ShownIn(states)
    BY DEF IInv, SP!SamplerInv, SP!Matched
  <2> QED BY <2>1 DEF SP!ShownIn, SP!Shown, SP!NoState, S!NoState
<1> QED BY <1>1, Always, PTL

(* An audit of the engine tells what it drew, is the only one of its       *)
(* request, and is "complete" only when the recorded tokens were forced    *)
(* (_write_audit, native_replay_override).                                 *)
THEOREM AuditsAreHonest == Spec => []AuditsAreTrue
<1>1. IInv => AuditsAreTrue
  <2> SUFFICES ASSUME IInv, NEW i \in DOMAIN file, file[i].by = "engine", NEW r, r = file[i].id
               PROVE  /\ \A j \in DOMAIN file : file[j].by = "engine" /\ file[j].id = r => i = j
                      /\ file[i].sampled = drawn[r]
                      /\ file[i].status = "complete" /\ commitFrom[r] = Start[r]
                            => IsPrefix(Tokens[r], output[r])
    BY DEF AuditsAreTrue
  <2>1. SP!SamplerInv
    BY DEF IInv
  <2>2. \A j \in DOMAIN file : file[j].by = "engine" /\ file[j].id = r => i = j
    BY <2>1 DEF SP!SamplerInv, SP!Lines
  <2>3. /\ file[i].sampled = drawn[r]
        /\ file[i].status = "complete" /\ commitFrom[r] = Start[r]
              => SP!IsPrefix(Tokens[r], output[r])
    BY <2>1, PluginAssumption, SP!AuditsTell
  <2> QED BY <2>2, <2>3 DEF IsPrefix, SP!IsPrefix
<1> QED BY <1>1, Always, PTL

(* Of an accepted request the record is a line of this run, and says what  *)
(* was expected.                                                           *)
LEMMA AcceptedOn ==
    ASSUME IInv, NEW r \in Audited, waiter[r] = "accepted"
    PROVE  /\ R!RecordOf(r).id = r /\ Agrees(r, R!RecordOf(r))
           /\ \E i \in begin + 1..Len(file) : i \in DOMAIN file /\ file[i] = R!RecordOf(r)
<1>1. Places /\ Records /\ Waiting
  BY DEF IInv, ReaderInv
<1>2. R!RecordOf(r) \in seen /\ R!RecordOf(r).id = r /\ Agrees(r, R!RecordOf(r))
  BY <1>1 DEF Waiting, R!RecordOf
<1>3. PICK i \in begin + 1..Len(file) : file[i] = R!RecordOf(r)
  BY <1>1, <1>2 DEF Records, OfThisRun
<1>4. i \in DOMAIN file
  BY <1>1, <1>3, LenProperties DEF Places, IInv, SP!SamplerInv, SP!Types
<1> QED BY <1>2, <1>3, <1>4

(* A response is accepted only on a line that was written in this run and  *)
(* says what was asked for; one of this engine says it of a request that   *)
(* has left the batch, so that its samples are final                       *)
(* (ForcedAuditReader.wait and _publish, start_at_end).                    *)
THEOREM AcceptanceIsEarned == Spec => []AcceptedIsEarned
<1>1. IInv => AcceptedIsEarned
  <2> SUFFICES ASSUME IInv, NEW r \in Audited, waiter[r] = "accepted"
               PROVE  /\ \E i \in begin + 1..Len(file) : file[i] = R!RecordOf(r)
                      /\ R!RecordOf(r).id = r /\ Agrees(r, R!RecordOf(r))
                      /\ R!RecordOf(r).by = "engine" => status[r] = "gone" /\ r \in written
    BY DEF AcceptedIsEarned
  <2>1. /\ R!RecordOf(r).id = r /\ Agrees(r, R!RecordOf(r))
        /\ \E i \in begin + 1..Len(file) : i \in DOMAIN file /\ file[i] = R!RecordOf(r)
    BY AcceptedOn
  <2>2. ASSUME R!RecordOf(r).by = "engine" PROVE status[r] = "gone" /\ r \in written
    <3>1. PICK i \in DOMAIN file : file[i] = R!RecordOf(r)
      BY <2>1
    <3>2. r \in written
      BY <2>1, <2>2, <3>1 DEF IInv, SP!SamplerInv, SP!Lines
    <3>3. status[r] # "finished"
      BY <3>2 DEF IInv, SP!SamplerInv, SP!Once
    <3>4. status[r] \in {"finished", "gone"}
      BY DEF IInv, ReaderInv, Waiting
    <3> QED BY <3>2, <3>3, <3>4
  <2> QED BY <2>1, <2>2
<1> QED BY <1>1, Always, PTL

(* The window that is recorded for a captured request, whose committed     *)
(* tokens occur once among its samples, is where the engine did commit     *)
(* (committed_sample_window, engine_evidence).                             *)
THEOREM WindowIsTrue == Spec => []EvidenceIsTheWindow
<1>1. IInv => EvidenceIsTheWindow
  <2> SUFFICES ASSUME IInv, NEW r \in Audited, waiter[r] = "accepted",
                      R!RecordOf(r).by = "engine",
                      HasEvidence(R!RecordOf(r).sampled, output[r])
               PROVE  EvidenceStart(R!RecordOf(r).sampled, output[r]) = commitFrom[r]
    BY DEF EvidenceIsTheWindow
  <2> DEFINE s == drawn[r]
             t == output[r]
             a == commitFrom[r]
             starts == CommittedStarts(s, t)
  <2>1. R!RecordOf(r).sampled = s
    <3>1. PICK i \in DOMAIN file : file[i] = R!RecordOf(r) /\ file[i].id = r
      BY AcceptedOn
    <3> QED BY <3>1, PluginAssumption, SP!AuditsTell DEF IInv
  <2>2. /\ r \in Requests /\ s \in Seq(Vocabulary) /\ a \in Nat /\ CommitLength[r] \in Nat
        /\ t = SubSeq(s, a + 1, SP!Min2(Len(s), a + CommitLength[r]))
    BY PluginAssumption DEF Audited, IInv, SP!SamplerInv, SP!Types, SP!Samples, SP!SamplerAssumption
  <2>3. SP!IsPart(Vocabulary, s, a, CommitLength[r], t)
    BY <2>2, SP!Committed
  <2>4. t # <<>> /\ Cardinality(starts) = 1
    BY <2>1 DEF HasEvidence
  <2>5. a \in starts
    <3> HIDE DEF s, t, a
    <3>1. /\ Len(s) \in Nat /\ Len(t) \in Nat /\ Len(t) > 0 /\ t \in Seq(Vocabulary)
          /\ a + Len(t) <= Len(s)
          /\ \A i \in 1..Len(t) : t[i] = s[a + i]
      <4> DEFINE n == Len(s)
                 c == CommitLength[r]
      <4>1. /\ n \in Nat /\ c \in Nat /\ a \in Nat /\ t \in Seq(Vocabulary) /\ Len(t) \in Nat
            /\ Len(t) = IF n <= a THEN 0 ELSE SP!Min2(n, a + c) - a
            /\ \A i \in 1..Len(t) : t[i] = s[a + i]
        BY <2>2, <2>3, LenProperties DEF SP!IsPart
      <4>2. Len(t) # 0
        BY <2>4, <4>1, EmptySeq
      <4> HIDE DEF n, c
      <4>3. Len(t) > 0 /\ a + Len(t) <= n
        BY ONLY <4>1, <4>2 DEF SP!Min2
      <4> QED BY ONLY <4>1, <4>3 DEF n
    <3>2. SubSeq(s, a + 1, a + Len(t)) = t
      <4> DEFINE u == SubSeq(s, a + 1, a + Len(t))
      <4>1. \A i \in (a + 1)..(a + Len(t)) : s[i] \in Vocabulary
        BY <2>2, <3>1, ElementOfSeq
      <4>2. /\ u \in Seq(Vocabulary) /\ Len(u) = Len(t)
            /\ \A i \in 1..Len(t) : u[i] = s[a + i]
        <5> DEFINE first == a + 1
                   last == a + Len(t)
        <5>1. /\ first \in Int /\ last \in Int /\ first <= last
              /\ last - first + 1 = Len(t)
              /\ \A i \in 1..Len(t) : first + i - 1 = a + i
          BY <2>2, <3>1
        <5>2. \A i \in first..last : s[i] \in Vocabulary
          BY <4>1
        <5>3. u = SubSeq(s, first, last)
          OBVIOUS
        <5> HIDE DEF first, last, u
        <5>4. /\ u \in Seq(Vocabulary)
              /\ Len(u) = IF first <= last THEN last - first + 1 ELSE 0
              /\ \A i \in 1..(last - first + 1) : u[i] = s[first + i - 1]
          BY ONLY <5>1, <5>2, <5>3, SubSeqProperties
        <5>5. ASSUME NEW i \in 1..Len(t) PROVE u[i] = s[a + i]
          BY ONLY <5>1, <5>4, <5>5
        <5> QED BY ONLY <5>1, <5>4, <5>5
      <4> HIDE DEF u
      <4>3. \A i \in 1..Len(u) : u[i] = t[i]
        BY <3>1, <4>2
      <4>4. u = t
        BY <3>1, <4>2, <4>3, SeqEqual
      <4> QED BY <4>4 DEF u
    <3>3. a \in 0..Len(s) - Len(t)
      BY <2>2, <3>1
    <3> QED BY <3>2, <3>3 DEF CommittedStarts
  <2>6. starts = {a}
    <3>1. IsFiniteSet(starts)
      <4> DEFINE places == 0..Len(s) - Len(t)
      <4>1. Len(s) \in Nat /\ Len(t) \in Nat
        BY <2>2, <2>3, LenProperties DEF SP!IsPart
      <4>2. IsFiniteSet(places)
        <5> DEFINE last == Len(s) - Len(t)
        <5>1. 0 \in Int /\ last \in Int
          BY <4>1
        <5> HIDE DEF last
        <5> QED BY <5>1, FS_Interval DEF last
      <4>3. starts \subseteq places
        BY DEF CommittedStarts
      <4> HIDE DEF places, starts
      <4> QED BY <4>2, <4>3, FS_Subset
    <3> HIDE DEF starts
    <3>2. PICK x : starts = {x}
      BY <2>4, <3>1, FS_Singleton
    <3> QED BY <2>5, <3>2
  <2>7. a <= a
    BY <2>2
  <2>8. EvidenceStart(s, t) = a
    BY <2>6, <2>7 DEF EvidenceStart
  <2> QED BY <2>1, <2>8
<1> QED BY <1>1, Always, PTL
=============================================================================

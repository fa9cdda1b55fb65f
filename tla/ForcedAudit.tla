----------------------------- MODULE ForcedAudit -----------------------------
(***************************************************************************)
(* How a run knows that the engine really produced the recorded tokens:    *)
(* the LLM store submits its requests to the engine (SamplerPlugin), and   *)
(* after each response waits for the audit that the plugin writes into the *)
(* file (AuditReader).  The file is shared with other runs of the fleet.   *)
(***************************************************************************)
EXTENDS Integers, Sequences, FiniteSets, SequencesExt

CONSTANTS
    Requests, Mode, Tokens, Start, Expected, CommitLength, CommitStarts,
    Vocabulary, Natural, MaxRows, MaxDrawn, AsyncLag,
    Histories,    \* what the file may hold when the run begins
    ForeignLines, \* what other processes may append
    MaxFaults     \* bound of faults and foreign lines

VARIABLES
    rows, status, commitFrom, drawn, output, alive,
    states, sampled, forcedCount, seenIds, written,
    file, torn,
    offset, partial, seen, waiter, pump, batch, failure,
    begin,        \* lines in the file when the run began
    faults

S == INSTANCE SamplerPlugin

Audited == {r \in Requests : Mode[r] # "plain"}

(* wait and wait_capture: what an audit must say.                          *)
Agrees(r, l) ==
    IF Mode[r] = "force"
    THEN /\ l.mode = "force" /\ l.status = "complete"
         /\ l.count = Len(Tokens[r])
         /\ Len(l.sampled) = Expected[r]
         /\ l.start = Start[r]
    ELSE /\ l.mode = "capture" /\ l.status = "capture_complete"
         /\ l.sampled # <<>>

R == INSTANCE AuditReader WITH Waiters <- Audited

samplerVars == <<rows, status, commitFrom, drawn, output, alive, states, sampled,
                 forcedCount, seenIds, written, file, torn>>
readerVars == <<offset, partial, seen, waiter, pump, batch, failure>>
vars == <<samplerVars, readerVars, begin, faults>>

ASSUME ForcedAuditAssumption ==
    /\ S!SamplerAssumption
    /\ \A h \in Histories : h \in Seq(Range(h)) /\ \A i \in DOMAIN h : h[i].by # "engine"
    /\ \A l \in ForeignLines : l.by # "engine"
    /\ MaxFaults \in Nat

Init ==
    /\ file \in Histories
    /\ begin = Len(file)
    /\ S!SamplerInit
    /\ R!ReaderInit
    /\ faults = 0

SamplerStep(A) == A /\ UNCHANGED <<readerVars, begin, faults>>
ReaderStep(A)  == A /\ UNCHANGED <<samplerVars, begin, faults>>
FaultBudget    == faults < MaxFaults /\ faults' = faults + 1 /\ UNCHANGED begin

NextBatch    == SamplerStep(S!NextBatch)
Swap         == SamplerStep(S!Swap)
Sample       == SamplerStep(S!Sample)
Finish(r)    == SamplerStep(S!Finish(r))
Flush        == SamplerStep(S!Flush)
Preempt      == S!Preempt /\ FaultBudget /\ UNCHANGED readerVars
Refuse       == S!Refuse /\ FaultBudget /\ UNCHANGED readerVars
(* Another engine process ran a request of ours as well (it was sent again). *)
OthersAppend == /\ \E l \in ForeignLines : status[l.id] = "finished" /\ S!ForeignAppend(l)
                /\ FaultBudget /\ UNCHANGED readerVars
ReadFails    == R!ReadFails /\ FaultBudget /\ UNCHANGED samplerVars

(* The LLM store has read the whole response and asks for its audit.       *)
Wait(r) == status[r] \in {"finished", "gone"} /\ ReaderStep(R!Wait(r))
Resume(r)   == ReaderStep(R!Resume(r))
TimesOut(r) == ReaderStep(R!WaitTimesOut(r))
PumpTurn    == ReaderStep(R!PumpTurn)
ReadFile    == ReaderStep(R!ReadFile)
Publish     == ReaderStep(R!Publish)

Next ==
    \/ \E r \in Requests : Finish(r)
    \/ \E r \in Audited : Wait(r) \/ Resume(r) \/ TimesOut(r)
    \/ NextBatch \/ Swap \/ Sample \/ Flush
    \/ PumpTurn \/ ReadFile \/ Publish
    \/ Preempt \/ Refuse \/ OthersAppend \/ ReadFails

(* The event loop and its thread make progress, and an append comes to its *)
(* end.  Nothing is assumed of the engine, nor of timeouts.                *)
Fairness ==
    /\ WF_vars(PumpTurn) /\ WF_vars(ReadFile) /\ WF_vars(Publish)
    /\ WF_vars(Flush)
    /\ \A r \in Audited : WF_vars(Resume(r))

Spec == Init /\ [][Next]_vars /\ Fairness

-----------------------------------------------------------------------------
(* Engine evidence (committed_sample_window, engine_evidence)              *)

CommittedStarts(samples, committed) ==
    {i \in 0..Len(samples) - Len(committed) :
        SubSeq(samples, i + 1, i + Len(committed)) = committed}

(* A capture's window is the only place where the committed tokens occur   *)
(* among the samples; elsewhere the recording fails.                       *)
HasEvidence_FirstMatch(samples, committed) ==
    committed # <<>> /\ CommittedStarts(samples, committed) # {}
HasEvidence(samples, committed) ==
    committed # <<>> /\ Cardinality(CommittedStarts(samples, committed)) = 1

EvidenceStart(samples, committed) ==
    CHOOSE i \in CommittedStarts(samples, committed) :
        \A j \in CommittedStarts(samples, committed) : i <= j

-----------------------------------------------------------------------------
(* Types of the reader and of the plugin's states.                         *)
TypeOK ==
    /\ rows \in SeqOf(Requests, MaxRows)
    /\ status \in [Requests -> {"queued", "running", "finished", "gone"}]
    /\ states \in [1..MaxRows -> Requests \cup {S!NoState}]
    /\ \A r \in Requests : /\ Len(sampled[r]) <= MaxDrawn[r] /\ Len(drawn[r]) <= MaxDrawn[r]
                           /\ forcedCount[r] <= Len(Tokens[r])
    /\ seenIds \subseteq Audited /\ written \subseteq seenIds
    /\ offset \in 0..Len(file)
    /\ waiter \in [Audited -> {"idle", "waiting", "resolved", "poisoned"} \cup R!Outcomes]
    /\ pump \in {"off", "polling", "reading", "publishing"}
    /\ \A k, l \in seen : k.id = l.id => k = l

(* While the engine runs, the plugin's rows are the engine's rows: no      *)
(* sequence of finished, joining, moved and swapped rows makes it force or *)
(* record one request's tokens in another's row (update_state).            *)
RowsMatch ==
    alive => \A i \in 1..MaxRows :
        states[i] = IF i \in DOMAIN rows /\ Mode[rows[i]] # "plain"
                    THEN rows[i] ELSE S!NoState

(* An audit of this engine is written at most once per request, it lists   *)
(* exactly the samples the engine drew for it, and when it is complete and *)
(* the engine committed where the recording did, the output begins with    *)
(* the recorded one (_write_audit, native_replay_override).                *)
AuditsAreTrue ==
    \A i \in DOMAIN file : file[i].by = "engine" =>
        LET r == file[i].id
        IN  /\ \A j \in DOMAIN file : file[j].by = "engine" /\ file[j].id = r => i = j
            /\ file[i].sampled = drawn[r]
            /\ file[i].status = "complete" /\ commitFrom[r] = Start[r]
                  => IsPrefix(Tokens[r], output[r])

(* A request is accepted on a line that was written in this run, never on  *)
(* what the file held before, and that says what was asked for; a line of  *)
(* this engine was written after the request had left the batch            *)
(* (ForcedAuditReader, start_at_end).  A line of another engine of the     *)
(* fleet, which ran the request as well, is as good.                       *)
AcceptedIsEarned ==
    \A r \in Audited : waiter[r] = "accepted" =>
        LET audit == R!RecordOf(r) IN
        /\ \E i \in begin + 1..Len(file) : file[i] = audit
        /\ audit.id = r /\ Agrees(r, audit)
        /\ audit.by = "engine" => status[r] = "gone" /\ r \in written

(* The window that a capture records is where the engine did commit, so    *)
(* that a replay forces the same steps; where the samples leave that open, *)
(* there is no evidence (committed_sample_window).                         *)
EvidenceIsTheWindow ==
    \A r \in Audited : waiter[r] = "accepted" =>
        LET audit == R!RecordOf(r) IN
        /\ Mode[r] = "capture" /\ audit.by = "engine"
        /\ HasEvidence(audit.sampled, output[r])
        => EvidenceStart(audit.sampled, output[r]) = commitFrom[r]

(* Whoever waits while its audit is in the file is answered, however the   *)
(* pump stopped, slept or failed before, and without a timeout's help.     *)
RecordReachesItsWaiter ==
    \A r \in Audited :
        (waiter[r] = "waiting" /\ \E i \in offset + 1..Len(file) : file[i].id = r)
            ~> waiter[r] # "waiting"
=============================================================================

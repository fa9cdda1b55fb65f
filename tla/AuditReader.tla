----------------------------- MODULE AuditReader -----------------------------
(***************************************************************************)
(* ForcedAuditReader (minireplay/forced.py): one pump tails the fleet's    *)
(* append-only audit file for all the requests of a run that wait for      *)
(* their audit.                                                            *)
(*                                                                         *)
(* Waiters, the pump and the publishing of records share one event loop;   *)
(* only the read of the file runs in another thread.  The pump stops when  *)
(* nobody waits and is started again by the next waiter.  A request that   *)
(* times out leaves its record, when it comes, in `seen'.                  *)
(***************************************************************************)
EXTENDS Integers, Sequences, FiniteSets, SequencesExt

CONSTANTS
    Waiters,       \* request IDs that are waited for, each by one coroutine
    Agrees(_, _)   \* does an audit line say what the waiter expects

VARIABLES
    file, torn,    \* the audit file, written by others
    offset,        \* lines read, the last one perhaps in part
    partial,       \* the last line read is kept back as incomplete
    seen,          \* audits published so far
    waiter,        \* [Waiters -> where the coroutine is]
    pump,          \* "off", "polling", "reading" or "publishing"
    batch,         \* lines the thread has read
    failure        \* the reader has failed

readerVars == <<offset, partial, seen, waiter, pump, batch, failure>>

Pending == {w \in Waiters : waiter[w] = "waiting"}
Outcomes == {"accepted", "mismatch", "missing", "failed"}

(* __init__ with start_at_end: what is in the file already is skipped.     *)
ReaderInit ==
    /\ offset = Len(file)
    /\ partial = FALSE
    /\ seen = {}
    /\ waiter = [w \in Waiters |-> "idle"]
    /\ pump = "off"
    /\ batch = <<>>
    /\ failure = FALSE

RecordOf(w) == CHOOSE l \in seen : l.id = w
Verdict(w) == IF Agrees(w, RecordOf(w)) THEN "accepted" ELSE "mismatch"

(* _wait_for_record, up to its await: a failed reader fails the caller,    *)
(* a published record answers it, else it waits and sees to the pump.      *)
Wait(w) ==
    /\ waiter[w] = "idle"
    /\ waiter' = [waiter EXCEPT ![w] =
           IF failure THEN "failed"
           ELSE IF \E l \in seen : l.id = w THEN Verdict(w) ELSE "waiting"]
    /\ pump' = IF waiter'[w] = "waiting" /\ pump = "off" THEN "polling" ELSE pump
    /\ UNCHANGED <<offset, partial, seen, batch, failure>>

(* The future is resolved; the coroutine runs at a later turn of the loop. *)
Resume(w) ==
    /\ waiter[w] \in {"resolved", "poisoned"}
    /\ waiter' = [waiter EXCEPT ![w] =
           IF waiter[w] = "poisoned" THEN "failed" ELSE Verdict(w)]
    /\ UNCHANGED <<offset, partial, seen, pump, batch, failure>>

(* wait_for times out, which it may also do between resolution and resume. *)
WaitTimesOut(w) ==
    /\ waiter[w] \in {"waiting", "resolved", "poisoned"}
    /\ waiter' = [waiter EXCEPT ![w] = "missing"]
    /\ UNCHANGED <<offset, partial, seen, pump, batch, failure>>

(* _pump at the head of its loop, when it was created or after its sleep:  *)
(* it ends when nobody waits.                                              *)
PumpTurn ==
    /\ pump = "polling"
    /\ pump' = IF Pending = {} THEN "off" ELSE "reading"
    /\ UNCHANGED <<offset, partial, seen, waiter, batch, failure>>

(* The except and finally clauses of _pump.                                *)
PumpFails(resolved) ==
    /\ failure' = TRUE
    /\ pump' = "off"
    /\ waiter' = [w \in Waiters |->
           IF w \in resolved THEN "resolved"
           ELSE IF w \in Pending THEN "poisoned" ELSE waiter[w]]

(* _read_new_records, in its thread: every complete new line, the rest of  *)
(* the last one kept back.                                                 *)
NewLines_LosesPartial == SubSeq(file, offset + 1, Len(file) - (IF torn THEN 1 ELSE 0))
NewLines_WholeFile == SubSeq(file, 1, Len(file) - (IF torn THEN 1 ELSE 0))
NewLines == SubSeq(file, offset + (IF partial THEN 0 ELSE 1),
                   Len(file) - (IF torn THEN 1 ELSE 0))

ReadFile ==
    /\ pump = "reading"
    /\ offset' = Len(file)
    /\ partial' = torn
    /\ batch' = NewLines
    /\ pump' = "publishing"
    /\ UNCHANGED <<seen, waiter, failure>>

(* The file was replaced or truncated, cannot be read, or a line of it is  *)
(* no record.                                                              *)
ReadFails ==
    /\ pump = "reading"
    /\ PumpFails({})
    /\ UNCHANGED <<offset, partial, seen, batch>>

(* _publish: records up to the first one whose ID was seen before; that    *)
(* one fails the reader for good.                                          *)
Publish_NoDuplicateCheck ==
    LET resolved == {w \in Pending : \E i \in DOMAIN batch : batch[i].id = w}
    IN  /\ pump = "publishing"
        /\ seen' = seen \cup Range(batch)
        /\ batch' = <<>>
        /\ waiter' = [w \in Waiters |-> IF w \in resolved THEN "resolved" ELSE waiter[w]]
        /\ pump' = IF Pending \ resolved = {} THEN "off" ELSE "polling"
        /\ UNCHANGED <<offset, partial, failure>>
Publish ==
    LET Repeated(i) == \/ \E l \in seen : l.id = batch[i].id
                       \/ \E j \in 1..i-1 : batch[j].id = batch[i].id
        good == {i \in DOMAIN batch : \A j \in 1..i : ~Repeated(j)}
        resolved == {w \in Pending : \E i \in good : batch[i].id = w}
    IN  /\ pump = "publishing"
        /\ seen' = seen \cup {batch[i] : i \in good}
        /\ batch' = <<>>
        /\ IF good # DOMAIN batch
           THEN PumpFails(resolved)
           ELSE /\ waiter' = [w \in Waiters |->
                       IF w \in resolved THEN "resolved" ELSE waiter[w]]
                /\ pump' = IF Pending \ resolved = {} THEN "off" ELSE "polling"
                /\ failure' = failure
        /\ UNCHANGED <<offset, partial>>

=============================================================================

--------------------------- MODULE SamplerPlugin ---------------------------
(***************************************************************************)
(* The sampler plugin inside the serving engine                            *)
(* (vllm_plugin/.../forced.py, protocol.py, patch_sampler.py).             *)
(*                                                                         *)
(* The engine keeps its running requests in the rows of a dense batch.     *)
(* Before a forward pass it reports what changed (rows removed, a request  *)
(* added, rows moved or swapped); after sampling it hands every row's      *)
(* natural token to the plugin, which records it and, inside the recorded  *)
(* window, replaces it by the recorded token.  The plugin knows requests   *)
(* only by row: `states' is its own copy of the batch, and it writes a     *)
(* request's audit when it sees the request leave.                         *)
(*                                                                         *)
(* rows, status, drawn and output are the engine's, and external: they are *)
(* what really happened, against which the audits are judged.  One rank    *)
(* writes audits, so one processor is modelled.  An exception in the       *)
(* plugin ends the engine.                                                 *)
(***************************************************************************)
EXTENDS Integers, Sequences, FiniteSets, SequencesExt

CONSTANTS
    Requests,
    Mode,         \* [Requests -> {"force", "capture", "plain"}]
    Tokens,       \* [Requests -> Seq(Vocabulary)]: tokens to force
    Start,        \* [Requests -> Nat]: committed_sample_start of the recording
    Expected,     \* [Requests -> Nat]: sampled_token_count of the recording
    CommitLength, \* [Requests -> Nat]: samples the engine commits
    CommitStarts, \* [Requests -> SUBSET Nat]: where the engine may begin to
    Vocabulary,   \* tokens
    Natural,      \* [Requests -> SUBSET Vocabulary]: what a request may draw naturally
    MaxRows,      \* rows of the batch
    MaxDrawn,     \* [Requests -> Nat]: bound of a request's samples
    AsyncLag      \* committed tokens async scheduling may still show as -1

VARIABLES
    rows,         \* the batch: a sequence of requests
    status,       \* [Requests -> status in the engine]
    commitFrom,   \* [Requests -> Nat]: sample at which the engine begins to commit
    drawn,        \* [Requests -> Seq(Vocabulary)]: samples, as left by the plugin
                  \* (those of plain requests are not kept)
    output,       \* [Requests -> Seq(Vocabulary)]: committed samples
    alive,        \* the engine runs
    states,       \* the plugin's states: [1..MaxRows -> Requests or NoState]
    sampled,      \* [Requests -> Seq(Vocabulary)]: sampled_token_ids
    forcedCount,  \* [Requests -> Nat]
    seenIds,      \* request IDs the processor has accepted
    written,      \* request IDs whose audit this process has written
    file,         \* the fleet's audit file: a sequence of lines
    torn          \* the last line is not yet visible to its end

NoState == "no state"

SamplerAssumption ==
    /\ Mode \in [Requests -> {"force", "capture", "plain"}]
    /\ Tokens \in [Requests -> Seq(Vocabulary)]
    /\ Start \in [Requests -> Nat] /\ Expected \in [Requests -> Nat]
    /\ CommitLength \in [Requests -> Nat]
    /\ CommitStarts \in [Requests -> SUBSET Nat]
    /\ NoState \notin Requests
    /\ \A r \in Requests : Mode[r] = "force" =>
          /\ Tokens[r] # <<>> /\ Expected[r] >= Start[r] + Len(Tokens[r])
          /\ CommitLength[r] >= Len(Tokens[r])
    /\ Natural \in [Requests -> SUBSET Vocabulary]
    /\ MaxRows \in Nat /\ MaxDrawn \in [Requests -> Nat] /\ AsyncLag \in Nat

engineVars == <<rows, status, commitFrom, drawn, output, alive>>
pluginVars == <<states, sampled, forcedCount, seenIds, written>>
fileVars   == <<file, torn>>
samplerVars == <<engineVars, pluginVars, fileVars>>

(* A line of the audit file.  `by' is not in the file: it tells what this  *)
(* engine wrote from what other processes did.                             *)
Line(r, by, mode, state, tokens, count, from) ==
    [id |-> r, by |-> by, mode |-> mode, status |-> state,
     sampled |-> tokens, count |-> count, start |-> from]

SamplerInit ==
    /\ rows = <<>>
    /\ status = [r \in Requests |-> "queued"]
    /\ commitFrom \in {f \in [Requests -> UNION Range(CommitStarts)] :
                           \A r \in Requests : f[r] \in CommitStarts[r]}
    /\ drawn = [r \in Requests |-> <<>>]
    /\ output = [r \in Requests |-> <<>>]
    /\ alive = TRUE
    /\ states = [i \in 1..MaxRows |-> NoState]
    /\ sampled = [r \in Requests |-> <<>>]
    /\ forcedCount = [r \in Requests |-> 0]
    /\ seenIds = {}
    /\ written = {}
    /\ torn = FALSE

-----------------------------------------------------------------------------
(* Audits *)

Min2(a, b) == IF a < b THEN a ELSE b

Window(r) == SubSeq(sampled[r], Start[r] + 1, Min2(Len(sampled[r]), Start[r] + Len(Tokens[r])))

Complete_Prefix(r) == IsPrefix(Window(r), Tokens[r])
Complete(r) ==
    /\ forcedCount[r] = Len(Tokens[r])
    /\ Len(sampled[r]) = Expected[r]
    /\ Window(r) = Tokens[r]

Audit(r) ==
    IF Mode[r] = "capture"
    THEN Line(r, "engine", "capture", "capture_complete", sampled[r], 0, -1)
    ELSE Line(r, "engine", "force", IF Complete(r) THEN "complete" ELSE "incomplete",
              sampled[r], forcedCount[r], Start[r])

(* _write_audit: a request's audit is written once per process.  The order *)
(* of the lines of one update is left open.                                *)
WriteAudits(leaving) ==
    LET fresh == leaving \ written
    IN  /\ \E order \in SetToSeqs(fresh) :
              file' = file \o [i \in 1..Cardinality(fresh) |-> Audit(order[i])]
        /\ written' = written \cup fresh
        /\ torn' \in IF fresh = {} THEN {torn} ELSE BOOLEAN

-----------------------------------------------------------------------------
(* update_state: removed, then added, then moved.  `added' and `swapped'   *)
(* hold at most one pair, `moved' pairs <<source, destination>> of rows.   *)

StatesIn(f, S) == {f[i] : i \in S} \ {NoState}

AfterRemoved(removed) ==
    [i \in 1..MaxRows |-> IF i \in removed THEN NoState ELSE states[i]]

AfterAdded(f, added) ==
    [i \in 1..MaxRows |->
        IF \E r \in Requests : <<i, r>> \in added /\ Mode[r] # "plain"
        THEN CHOOSE r \in Requests : <<i, r>> \in added
        ELSE IF \E r \in Requests : <<i, r>> \in added THEN NoState ELSE f[i]]

AfterMoved_NeverSwaps(f, moved) ==
    [i \in 1..MaxRows |->
        IF \E s \in 1..i - 1 : <<s, i>> \in moved
        THEN f[CHOOSE s \in 1..i - 1 : <<s, i>> \in moved]
        ELSE IF \E d \in 1..MaxRows : <<i, d>> \in moved THEN NoState ELSE f[i]]

AfterMoved(f, moved) ==
    [i \in 1..MaxRows |->
        IF \E s \in 1..MaxRows : <<s, i>> \in moved
        THEN f[CHOOSE s \in 1..MaxRows : <<s, i>> \in moved]
        ELSE IF \E d \in 1..MaxRows : <<i, d>> \in moved THEN NoState ELSE f[i]]

(* _new_state raises when a signature, the prompt or the window is not     *)
(* what it must be, and when the processor has accepted the ID before.     *)
Refused(r, valid) == Mode[r] # "plain" /\ (~valid \/ r \in seenIds)

UpdateState(removed, added, moved, valid) ==
    LET f == AfterRemoved(removed)
        g == AfterAdded(f, added)
        joining == {r \in Requests : \E i \in 1..MaxRows : <<i, r>> \in added}
        refilled == {i \in 1..MaxRows : \E r \in joining : <<i, r>> \in added}
        overwritten == {i \in 1..MaxRows : \E s \in 1..MaxRows :
                            <<s, i>> \in moved /\ <<i, s>> \notin moved}
    IN  IF \E r \in joining : Refused(r, valid)
        THEN /\ WriteAudits(StatesIn(states, removed) \cup StatesIn(f, refilled))
             /\ alive' = FALSE
             /\ UNCHANGED <<states, seenIds>>
        ELSE /\ WriteAudits(StatesIn(states, removed) \cup StatesIn(f, refilled)
                            \cup StatesIn(g, overwritten))
             /\ states' = AfterMoved(g, moved)
             /\ seenIds' = seenIds \cup {r \in joining : Mode[r] # "plain"}
             /\ alive' = alive

-----------------------------------------------------------------------------
(* The engine's batch (external): finished requests leave, one queued      *)
(* request may join in the first freed row or at the end, and the last     *)
(* rows are moved into what holes are left.  A row that is filled again is *)
(* not among those reported as removed.  Preempted requests go back to the *)
(* queue.                                                                  *)

Finished == {i \in DOMAIN rows : status[rows[i]] = "finished"}
Queued   == {r \in Requests : status[r] = "queued"}

Moves(occupied, k) ==
    {m \in (occupied \ 1..k) \X (1..k \ occupied) :
        Cardinality({s \in occupied : s > m[1]})
            = Cardinality({d \in 1..k \ occupied : d < m[2]})}

UpdateBatch(preempted, joining, valid) ==
    LET gone == Finished \cup preempted
        at == IF gone = {} THEN Len(rows) + 1
              ELSE CHOOSE i \in gone : \A j \in gone : i <= j
        occupied == (DOMAIN rows \ gone) \cup {at : r \in joining}
        k == Cardinality(occupied)
        moves == Moves(occupied, k)
        occupant(i) == IF i \in DOMAIN rows \ gone THEN rows[i]
                       ELSE CHOOSE r \in joining : TRUE
        source(i) == IF i \in occupied THEN i ELSE CHOOSE s \in occupied : <<s, i>> \in moves
    IN  /\ alive /\ ~torn
        /\ gone \cup joining # {}
        /\ k <= MaxRows
        /\ rows' = [i \in 1..k |-> occupant(source(i))]
        /\ status' = [r \in Requests |->
               IF r \in joining THEN "running"
               ELSE IF \E i \in preempted : rows[i] = r THEN "queued"
               ELSE IF \E i \in Finished : rows[i] = r THEN "gone"
               ELSE status[r]]
        /\ UpdateState(gone \ ({at : r \in joining} \cup {m[2] : m \in moves}),
                       {<<at, r>> : r \in joining}, moves, valid)
        /\ UNCHANGED <<commitFrom, drawn, output, sampled, forcedCount>>

(* The attention backend reorders rows: the batch reports a swap.          *)
Reorder(i, j) ==
    /\ alive /\ ~torn
    /\ i < j
    /\ rows' = [rows EXCEPT ![i] = rows[j], ![j] = rows[i]]
    /\ UpdateState({}, {}, {<<i, j>>, <<j, i>>}, TRUE)
    /\ UNCHANGED <<status, commitFrom, drawn, output, sampled, forcedCount>>

-----------------------------------------------------------------------------
(* native_replay_override, for one row: `lag' committed tokens are still   *)
(* placeholders.                                                           *)

Resolved(r, lag) == SubSeq(output[r], 1, Len(output[r]) - Min2(lag, Len(output[r])))
Position(r) == Len(sampled[r]) - Start[r]
InWindow(r) == Position(r) \in 0..Len(Tokens[r]) - 1

Drifts(r, lag) ==
    LET seen == Resolved(r, lag)
        width == Min2(Len(seen), Len(Tokens[r]))
    IN  \/ Len(sampled[r]) >= Expected[r]
        \/ /\ InWindow(r)
           /\ \/ Len(seen) > Position(r)
              \/ ~IsPrefix(seen, Tokens[r])
              \/ Len(output[r]) > Position(r) + 1
        \/ /\ Position(r) >= Len(Tokens[r])
           /\ SubSeq(seen, 1, width) # SubSeq(Tokens[r], 1, width)

Overridden(r, natural) ==
    IF Mode[r] = "force" /\ InWindow(r) THEN Tokens[r][Position(r) + 1] ELSE natural

(* One forward pass: every row draws a natural token; those in `discarded' *)
(* (the prompt is not prefilled yet) are thrown away by the engine.        *)
SampleStep(discarded, natural, lag) ==
    LET kept == DOMAIN rows \ discarded
        state(i) == states[i]
        seeing == {i \in kept : state(i) # NoState}
        forcing == {i \in seeing : Mode[state(i)] = "force"}
        token(i) == IF i \in seeing THEN Overridden(state(i), natural[i]) ELSE natural[i]
        rowOf(r) == CHOOSE i \in kept : rows[i] = r
        stateRow(r) == CHOOSE i \in seeing : state(i) = r
        commits(r) == Len(drawn[r]) \in commitFrom[r]..commitFrom[r] + CommitLength[r] - 1
    IN  /\ alive /\ ~torn
        /\ kept # {} /\ Finished = {}
        /\ \A i \in kept : Mode[rows[i]] # "plain" => Len(drawn[rows[i]]) < MaxDrawn[rows[i]]
        /\ IF \E i \in forcing : Drifts(state(i), lag)
           THEN alive' = FALSE /\ UNCHANGED <<drawn, output, sampled, forcedCount>>
           ELSE /\ drawn' = [r \in Requests |->
                       IF Mode[r] # "plain" /\ \E i \in kept : rows[i] = r
                       THEN Append(drawn[r], token(rowOf(r))) ELSE drawn[r]]
                /\ output' = [r \in Requests |->
                       IF Mode[r] # "plain" /\ commits(r) /\ \E i \in kept : rows[i] = r
                       THEN Append(output[r], token(rowOf(r))) ELSE output[r]]
                /\ sampled' = [r \in Requests |->
                       IF \E i \in seeing : state(i) = r
                       THEN Append(sampled[r], token(stateRow(r))) ELSE sampled[r]]
                /\ forcedCount' = [r \in Requests |->
                       IF (\E i \in forcing : state(i) = r) /\ InWindow(r)
                       THEN forcedCount[r] + 1 ELSE forcedCount[r]]
                /\ alive' = alive
        /\ UNCHANGED <<rows, status, commitFrom, states, seenIds, written, file, torn>>

(* The engine ends a request (stop token, length, or the client left): its *)
(* response is on the way before the next batch update tells the plugin.   *)
Finish(r) ==
    /\ alive /\ status[r] = "running"
    /\ drawn[r] # <<>> \/ Mode[r] = "plain"
    /\ status' = [status EXCEPT ![r] = "finished"]
    /\ UNCHANGED <<rows, commitFrom, drawn, output, alive, pluginVars, fileVars>>

(* The last bytes of an append become visible to readers.                  *)
Flush ==
    /\ torn
    /\ torn' = FALSE
    /\ UNCHANGED <<engineVars, pluginVars, file>>

(* Another process appends to the file.                                    *)
ForeignAppend(line) ==
    /\ ~torn
    /\ file' = Append(file, line)
    /\ torn' = FALSE
    /\ UNCHANGED <<engineVars, pluginVars>>

NextBatch == \E joining \in {{}} \cup {{r} : r \in Queued} : UpdateBatch({}, joining, TRUE)
Preempt == \E i \in {j \in DOMAIN rows \ Finished : Mode[rows[j]] # "plain"} :
     UpdateBatch({i}, {}, TRUE)
Refuse == \E r \in {q \in Queued : Mode[q] # "plain"} : UpdateBatch({}, {r}, FALSE)
Swap == \E i, j \in DOMAIN rows : Reorder(i, j)

Sample ==
    \E discarded \in SUBSET {i \in DOMAIN rows : drawn[rows[i]] = <<>>}, lag \in 0..AsyncLag :
        \E natural \in {f \in [DOMAIN rows -> Vocabulary] :
                            \A i \in DOMAIN rows : f[i] \in Natural[rows[i]]} :
            SampleStep(discarded, natural, lag)
=============================================================================

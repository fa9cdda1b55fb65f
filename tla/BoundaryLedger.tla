--------------------------- MODULE BoundaryLedger ---------------------------
(***************************************************************************)
(* The boundary ledger in replay mode (minireplay/boundary.py).            *)
(*                                                                         *)
(* A recording is, for every key (kind, actor, causal lane), a FIFO queue  *)
(* of closed operations and a FIFO queue of cutoff tails: operations the   *)
(* source had entered but not finished when its window closed.  During     *)
(* replay the framework announces each native operation with `start' and   *)
(* reports its end with `complete'.  `start' claims the next slot of the   *)
(* lane, or holds the caller for ever, or raises the hard failure.         *)
(*                                                                         *)
(* `start' and the synchronous part of `complete' run without an await on  *)
(* the boundary event loop, so each outcome is one action.  The response   *)
(* of `complete' is written after an await: Deliver is its own action, and *)
(* a connection that breaks is a Deliver that never happens.               *)
(*                                                                         *)
(* Clients are unconstrained: any request may arrive at any time.  What    *)
(* the LLM store contributes to the completion predicates is a parameter   *)
(* of the actions; Next lets it be anything.                               *)
(***************************************************************************)
EXTENDS Integers, Sequences, FiniteSets

CONSTANTS
    Keys,            \* (kind, actor, causal lane) queue keys
    Actors,
    ActorOf,         \* [Keys -> Actors]
    Ops,             \* record identities (kind, record_id) of the recording
    Expected,        \* [Keys -> Seq(Ops)]: closed operations in issue order
    CutoffExpected,  \* [Keys -> Seq(Ops)]: cutoff tails in issue order
    Composite,       \* tails with replay_entry "enter-and-preserve-descendants"
    PreDispatch,     \* tails that only name a model call
    Identities,      \* claim identities, e.g. (name, arguments_sha256)
    Identity,        \* [Ops -> Identities]: what the recording holds
    ModelCalls,      \* provider tool-call ids
    ModelCall,       \* [Ops -> ModelCalls]
    CutoffActors,    \* actors that were live at the source cutoff
    FastClaim,       \* the --fast-claim option
    Required,        \* [Ops -> Nat]: the elapsed_ns a composite tail serves
    MaxClock         \* bound of the ledger clock

Closed(k) == {Expected[k][i] : i \in DOMAIN Expected[k]}
Tails(k)  == {CutoffExpected[k][i] : i \in DOMAIN CutoffExpected[k]}

ClosedOps == UNION {Closed(k) : k \in Keys}

(* What bundle loading guarantees: the queues hold distinct records, no    *)
(* record is both closed and open, and an actor with a tail was live.      *)
ASSUME BundleAssumption ==
    /\ ActorOf \in [Keys -> Actors]
    /\ Expected \in [Keys -> Seq(Ops)]
    /\ CutoffExpected \in [Keys -> Seq(Ops)]
    /\ Identity \in [Ops -> Identities]
    /\ ModelCall \in [Ops -> ModelCalls]
    /\ Required \in [Ops -> Nat]
    /\ FastClaim \in BOOLEAN
    /\ MaxClock \in Nat
    /\ \A j, k \in Keys : \A m \in DOMAIN Expected[j], n \in DOMAIN Expected[k] :
          Expected[j][m] = Expected[k][n] => j = k /\ m = n
    /\ \A j, k \in Keys : \A m \in DOMAIN CutoffExpected[j], n \in DOMAIN CutoffExpected[k] :
          CutoffExpected[j][m] = CutoffExpected[k][n] => j = k /\ m = n
    /\ \A j, k \in Keys : Closed(j) \cap Tails(k) = {}
    /\ Composite \subseteq UNION {Tails(k) : k \in Keys}
    /\ PreDispatch \subseteq UNION {Tails(k) : k \in Keys}
    /\ Composite \cap PreDispatch = {}
    /\ \A k \in Keys : CutoffExpected[k] # <<>> => ActorOf[k] \in CutoffActors

VARIABLES
    cursor,        \* [Keys -> Nat]: closed slots claimed so far
    cutoffCursor,  \* [Keys -> Nat]: tails matched so far
    entries,       \* [Ops -> Nat]: how often `start' let the framework enter
    active,        \* reservations: [op, identity], identity as requested
    ledger,        \* records appended: [op, identity]
    delivered,     \* operations whose completion response was written
    withheld,      \* composite tails that ended natively and stay unanswered
    lost,          \* reservations popped by a completion that then failed
    held,          \* keys with a `start' that is never answered
    started,       \* [Ops -> 0..MaxClock or NotStarted]: tail entry time
    clock,
    hardFailure

vars == <<cursor, cutoffCursor, entries, active, ledger, delivered, withheld,
          lost, held, started, clock, hardFailure>>

NotStarted == -1

Entry == [op : Ops, identity : Identities]

(* A `start' payload as `_claim' sees it. *)
Requests == [key : Keys, identity : Identities, call : ModelCalls]

completed == {e.op : e \in ledger}

-----------------------------------------------------------------------------
(* Completion predicates *)

ServedItsTime(op) ==
    /\ started[op] # NotStarted
    /\ clock - started[op] >= Required[op]

ExpectedComplete_OnEvidence ==
    /\ \A op \in ClosedOps : entries[op] > 0
    /\ \A op \in Composite : ServedItsTime(op)

ExpectedComplete_ClosedOnly == ClosedOps \subseteq delivered
ExpectedComplete_ParentAnswered == ClosedOps \cup Composite \subseteq delivered

(* BoundaryLedger.expected_complete *)
ExpectedComplete ==
    /\ ClosedOps \subseteq delivered
    /\ \A op \in Composite : ServedItsTime(op)

ActorPrefixConsumed_OnDelivered(a) ==
    \A k \in Keys : ActorOf[k] = a => Closed(k) \subseteq delivered

(* BoundaryLedger.actor_expected_prefix_consumed *)
ActorPrefixConsumed(a) ==
    \A k \in Keys : ActorOf[k] = a => Closed(k) \subseteq completed

LaneComplete_OnClaims(k) == Expected[k] # <<>> /\ cursor[k] = Len(Expected[k])
LaneComplete(k) == Expected[k] # <<>> /\ Closed(k) \subseteq delivered

(* The three ways a request past the end of its lane may be held.  llmDone *)
(* and llmPrefix are the LLM store's halves of run_complete and            *)
(* actor_complete.                                                         *)
PastTheWindow(k, llmDone, llmPrefix) ==
    \/ ExpectedComplete /\ llmDone
    \/ ActorOf[k] \in CutoffActors /\ ActorPrefixConsumed(ActorOf[k]) /\ llmPrefix
    \/ LaneComplete(k)

-----------------------------------------------------------------------------
Init ==
    /\ cursor = [k \in Keys |-> 0]
    /\ cutoffCursor = [k \in Keys |-> 0]
    /\ entries = [op \in Ops |-> 0]
    /\ active = {}
    /\ ledger = {}
    /\ delivered = {}
    /\ withheld = {}
    /\ lost = {}
    /\ held = {}
    /\ started = [op \in Ops |-> NotStarted]
    /\ clock = 0
    /\ hardFailure = FALSE

(* Which slot a request is compared with, and whether it matches. *)
AtClosed(k) == cursor[k] < Len(Expected[k])
AtTail_TailFirst(k) == cutoffCursor[k] < Len(CutoffExpected[k])
AtTail(k)   == ~AtClosed(k) /\ cutoffCursor[k] < Len(CutoffExpected[k])
PastEnd(k)  == ~AtClosed(k) /\ ~AtTail(k)

NextClosed(k) == Expected[k][cursor[k] + 1]
NextTail(k)   == CutoffExpected[k][cutoffCursor[k] + 1]

MatchesClosed_Unchecked(r) == TRUE
MatchesClosed(r) == FastClaim \/ r.identity = Identity[NextClosed(r.key)]
MatchesTail(r) ==
    LET tail == NextTail(r.key)
    IN  IF tail \in PreDispatch
        THEN r.call = ModelCall[tail]
        ELSE FastClaim \/ r.identity = Identity[tail]

(* `start' returns a reservation: the framework enters native code. *)
Reserve(op, r) ==
    /\ entries' = [entries EXCEPT ![op] = @ + 1]
    /\ active' = active \cup {[op |-> op, identity |-> r.identity]}

(* `start' claims the next closed operation of the lane. *)
ClaimClosed(r) ==
    /\ AtClosed(r.key)
    /\ MatchesClosed(r)
    /\ cursor' = [cursor EXCEPT ![r.key] = @ + 1]
    /\ Reserve(NextClosed(r.key), r)
    /\ UNCHANGED <<cutoffCursor, ledger, delivered, withheld, lost, held,
                   started, clock, hardFailure>>

EnterCompositeTail_Repeatable(r) ==
    /\ AtTail(r.key)
    /\ MatchesTail(r)
    /\ NextTail(r.key) \in Composite
    /\ Reserve(NextTail(r.key), r)
    /\ started' = [started EXCEPT ![NextTail(r.key)] = clock]
    /\ UNCHANGED <<cursor, cutoffCursor, ledger, delivered, withheld, lost,
                   held, clock, hardFailure>>

(* `start' enters a composite tail so that its closed children can run. *)
EnterCompositeTail(r) ==
    /\ AtTail(r.key)
    /\ MatchesTail(r)
    /\ NextTail(r.key) \in Composite
    /\ cutoffCursor' = [cutoffCursor EXCEPT ![r.key] = @ + 1]
    /\ Reserve(NextTail(r.key), r)
    /\ started' = [started EXCEPT ![NextTail(r.key)] = clock]
    /\ UNCHANGED <<cursor, ledger, delivered, withheld, lost, held, clock,
                   hardFailure>>

InterceptTail_WrongCursor(r) ==
    /\ AtTail(r.key)
    /\ MatchesTail(r)
    /\ NextTail(r.key) \notin Composite
    /\ cursor' = [cursor EXCEPT ![r.key] = @ + 1]
    /\ held' = held \cup {r.key}
    /\ UNCHANGED <<cutoffCursor, entries, active, ledger, delivered, withheld,
                   lost, started, clock, hardFailure>>

(* `start' meets an ordinary tail: WorkloadComplete, never answered. *)
InterceptTail(r) ==
    /\ AtTail(r.key)
    /\ MatchesTail(r)
    /\ NextTail(r.key) \notin Composite
    /\ cutoffCursor' = [cutoffCursor EXCEPT ![r.key] = @ + 1]
    /\ held' = held \cup {r.key}
    /\ UNCHANGED <<cursor, entries, active, ledger, delivered, withheld, lost,
                   started, clock, hardFailure>>

(* `start' past the end of a lane whose window has closed: never answered. *)
HoldPastEnd(r, llmDone, llmPrefix) ==
    /\ PastEnd(r.key)
    /\ PastTheWindow(r.key, llmDone, llmPrefix)
    /\ held' = held \cup {r.key}
    /\ UNCHANGED <<cursor, cutoffCursor, entries, active, ledger, delivered,
                   withheld, lost, started, clock, hardFailure>>

Drift(r, llmDone, llmPrefix) ==
    \/ AtClosed(r.key) /\ ~MatchesClosed(r)
    \/ AtTail(r.key) /\ ~MatchesTail(r)
    \/ PastEnd(r.key) /\ ~PastTheWindow(r.key, llmDone, llmPrefix)

Fail ==
    /\ hardFailure' = TRUE
    /\ UNCHANGED <<cursor, cutoffCursor, entries, active, ledger, delivered,
                   withheld, lost, held, started, clock>>

(* `start' raises MismatchError. *)
RejectStart(r, llmDone, llmPrefix) == Drift(r, llmDone, llmPrefix) /\ Fail

(* `start' of a dispatch that names a model call no LLM attempt produced. *)
RejectTrigger == Fail

(* `complete' of a closed operation: popped, appended, marked completed. *)
Complete(e) ==
    /\ e \in active
    /\ e.op \notin Composite
    /\ active' = active \ {e}
    /\ ledger' = ledger \cup {e}
    /\ UNCHANGED <<cursor, cutoffCursor, entries, delivered, withheld, lost,
                   held, started, clock, hardFailure>>

HoldTruncated_KeepsReservation(e) ==
    /\ e \in active
    /\ e.op \in Composite
    /\ withheld' = withheld \cup {e.op}
    /\ UNCHANGED <<cursor, cutoffCursor, entries, active, ledger, delivered,
                   lost, held, started, clock, hardFailure>>

(* `complete' of a composite tail: evidence is written, never answered. *)
HoldTruncated(e) ==
    /\ e \in active
    /\ e.op \in Composite
    /\ active' = active \ {e}
    /\ withheld' = withheld \cup {e.op}
    /\ UNCHANGED <<cursor, cutoffCursor, entries, ledger, delivered, lost, held,
                   started, clock, hardFailure>>

(* `complete' pops the reservation before it validates the payload, so an  *)
(* invalid end time or result loses it; only a MismatchError is recorded   *)
(* as the hard failure, a ValidationError becomes a plain HTTP 500.        *)
RejectCompletion(e) ==
    /\ e \in active
    /\ active' = active \ {e}
    /\ lost' = lost \cup {e.op}
    /\ hardFailure' \in {hardFailure, TRUE}
    /\ UNCHANGED <<cursor, cutoffCursor, entries, ledger, delivered, withheld,
                   held, started, clock>>

(* The response of `complete' reached its socket: mark_delivered. *)
Deliver(op) ==
    /\ op \in completed \ delivered
    /\ delivered' = delivered \cup {op}
    /\ UNCHANGED <<cursor, cutoffCursor, entries, active, ledger, withheld,
                   lost, held, started, clock, hardFailure>>

(* The monotonic clock of the ledger. *)
Tick ==
    /\ clock < MaxClock
    /\ clock' = clock + 1
    /\ UNCHANGED <<cursor, cutoffCursor, entries, active, ledger, delivered,
                   withheld, lost, held, started, hardFailure>>

Next ==
    \/ \E r \in Requests :
          \/ ClaimClosed(r)
          \/ EnterCompositeTail(r)
          \/ InterceptTail(r)
          \/ \E llmDone, llmPrefix \in BOOLEAN :
                HoldPastEnd(r, llmDone, llmPrefix) \/ RejectStart(r, llmDone, llmPrefix)
    \/ RejectTrigger
    \/ \E e \in active : Complete(e) \/ HoldTruncated(e) \/ RejectCompletion(e)
    \/ \E op \in Ops : Deliver(op)
    \/ Tick

Spec == Init /\ [][Next]_vars

-----------------------------------------------------------------------------
(* Properties *)

Reserved == {e.op : e \in active}
Entered  == {op \in Ops : entries[op] > 0}

(* Types, and every cursor stays inside its queue (boundary.py:301). *)
TypeOK ==
    /\ cursor \in [Keys -> Nat]
    /\ cutoffCursor \in [Keys -> Nat]
    /\ \A k \in Keys : /\ cursor[k] <= Len(Expected[k])
                       /\ cutoffCursor[k] <= Len(CutoffExpected[k])
    /\ entries \in [Ops -> Nat]
    /\ active \subseteq Entry
    /\ ledger \subseteq Entry
    /\ delivered \subseteq Ops
    /\ withheld \subseteq Ops
    /\ lost \subseteq Ops
    /\ held \subseteq Keys
    /\ started \in [Ops -> 0..MaxClock \cup {NotStarted}]
    /\ clock \in 0..MaxClock
    /\ hardFailure \in BOOLEAN

(* Whatever the framework sends, it enters each recorded operation at most *)
(* once, in lane order, closed work before the composite tails of a lane,  *)
(* and never gets an answer the source did not produce (`_claim',          *)
(* `_hold_truncated').                                                     *)
Before ==
    [op \in Ops |->
        UNION {{Expected[k][i] : i \in {n \in DOMAIN Expected[k] :
                   op \in Tails(k) \/ \E m \in DOMAIN Expected[k] : n < m /\ Expected[k][m] = op}}
               : k \in Keys}]

Contract == INSTANCE ReplayContract WITH
    Enterable <- ClosedOps \cup Composite,
    Answerable <- ClosedOps,
    entered <- Entered,
    answered <- delivered

ImplementsContract == Contract!Spec

(* No claim is granted twice, and every entry granted is accounted for:    *)
(* its reservation is open, its record is in the ledger, its tail evidence *)
(* was withheld, or a failed completion lost it; and it is in one of these *)
(* only (`start', `complete').                                             *)
EveryEntryAccounted ==
    /\ \A op \in Ops : entries[op] <= 1
    /\ Entered = Reserved \cup completed \cup withheld \cup lost
    /\ Reserved \cap (completed \cup withheld \cup lost) = {}
    /\ completed \cap (withheld \cup lost) = {}
    /\ withheld \cap lost = {}

(* A duplicate that arrives while the last operation of its lane is still  *)
(* running is never silently held: a lane with a held request has met one  *)
(* of its tails, or all its closed operations have completed (`_claim').   *)
NoEarlyHold ==
    \A k \in held :
        /\ Closed(k) \subseteq Entered
        /\ cutoffCursor[k] = 0 => Closed(k) \subseteq completed

(* Without --fast-claim, the evidence of a valid replay names the same     *)
(* operations as the recording (`claim_identity').                         *)
EvidenceMatchesRecording ==
    ~FastClaim => \A e \in active \cup ledger : e.identity = Identity[e.op]

(* expected_complete is read from other threads and acted on later, so     *)
(* once it holds it must never be retracted, whatever clients still send.  *)
CompletionIsFinal == [][ExpectedComplete => ExpectedComplete']_vars

(* When the supervisor sees expected_complete, assert_consumed cannot fail *)
(* any more: nothing recorded is missing or open, whatever was lost.       *)
CompletionIsConsumed ==
    ExpectedComplete => /\ ClosedOps \subseteq completed \ lost
                        /\ Reserved \subseteq Composite

=============================================================================

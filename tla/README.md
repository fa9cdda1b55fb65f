# A TLA+ development of minireplay

minireplay records the work of an agentic run (LLM attempts, native tool
operations) inside a measurement window and replays it: the framework runs
again, natively, but every call it makes must be the recorded one. This
directory holds a TLA+ model of the parts of the program that decide *what
counts as the recorded work*, the TLC runs that check it, and TLAPS proofs about
most of it.

Paths below are relative to `src/minireplay/` unless they start with another
file name of the repository.

## 1. The system

### Components

| component | state it keeps | operations | correct when |
|---|---|---|---|
| Boundary ledger (`boundary.py`) | queues of closed operations and cutoff tails per (kind, actor, causal lane), cursors, reservations, ledger, delivered marks, withheld tails, hard failure | `start`, `complete`, delivery of the answer, freeze, completion predicates | each recorded operation is entered once and in order; a call past the window is held, any other unknown call is a failure; completion is never declared early or retracted |
| LLM store (`llm_store.py`) | attempts per (actor, session, role), sequence numbers, in-flight table, delivered and broken attempts, tool-call index, audit evidence | claim, engine run with audit, write evidence, write response, record, freeze | a slot is never lost without a failure; a forced replay reports only what the engine ran |
| Replay services (`services.py`) | the two stores, one thread and event loop each | joint completion predicates, health, freeze, stop, `assert_consumed` | what one thread concludes from both stores stays true while another acts on it |
| Supervisor (`supervisor.py`) | process handles, deadlines, the verdict | wait for the boundary, freeze, stop, materialise, judge | every run comes to a verdict; `valid` means the recording was replayed |
| Lane recording (`lane_record.py`) | one event log per lane | start and completion events, materialisation at the cutoff | an operation is closed or a tail, never both, never neither |
| Causal closure and bundle (`cutoff.py`, `bundle.py`) | the stage's ledgers | pruning to a fixed point, pre-dispatch markers, adoption of child sessions, load checks | a kept record has everything it depends on; a bundle that was written can be loaded |
| Forced audit and engine evidence (`forced.py`) | seen table, waiters, one pump task | wait for the audit of a request, compare | a waiter gets its own record or a failure |
| vLLM sampler plugin (`vllm_plugin/`) | per-request forced window | force tokens, capture samples | the sampled steps are the recorded ones |
| Start gate, lane binding (`instrumentation/gate.py`, `exec_gate.py`, `wait_gate_exec.py`) | ready files, gate file, bindings, marks of each process, lock files | announce, wait, bind, lock | no actor works before the gate opens; one lane has one process at a time |
| OpenCode plugin (`assets/opencode_native_replay_plugin.js`) | promise tables per call id | start and finish of dispatch and tool | each call is reported once, in order |
| CORAL adapter and control (`instrumentation/coral.py`, `coral_control.py`, `replay_control.py`) | invocation counters, markers | invocation limits, restart prompts | an invocation uses its own slots only; a restart happens where the recording had one |
| SDK and other adapters (`sdk.py`, `instrumentation/{owl,mini_swe,trae}.py`) | context variables, worker slots | bind a task, wrap native calls, report a task's end | tasks of a lane do not overlap; a task is blamed only for what it did not do in the source |
| Observation, contracts, utilities | none | projections of results, hashing, atomic files | pure |
| Timeline, Step3, metrics, report | none | rendering of finished runs | pure |
| Configuration, launcher, serving, cgroups | processes | operating-system I/O | not a subject for TLC |

### Interactions and hard behaviours

A framework process (often several, with parallel child sessions) sends LLM
requests to the LLM store and announces native operations to the boundary. Each
store runs on an event loop in a thread of its own; each asks the other, through
a callback, whether the whole run or one actor is finished; the supervisor asks
both from a third thread and then freezes, kills, stops and judges. There is no
lock over the two. What makes this hard:

* *Calls past the window.* A replayed framework does not stop where the source
  was cut. Its next call must never be answered (`WorkloadComplete`, an await
  that never returns), but a call that is merely wrong must fail the run. The
  decision depends on cursors, completions and deliveries in both stores.
* *Awaits.* The evidence of a completion is written before its response is; the
  engine runs between a claim and its evidence; the audit of a capture comes
  after the response has ended.
* *The cutoff lies in the past.* When the supervisor learns of `sample_end` the
  framework has run on; the freeze classifies by timestamps and later writes must
  agree with it.
* *Partial failure.* A completion that fails validation has already popped its
  reservation; a connection may break between evidence and answer.
* *Several processes.* Workers of a pool bind tasks to lanes, pass the gate and queue
  for a lock with no coordinator but files; the engine's batch moves under the sampler
  plugin; OpenCode tells of one call through hooks and events that overtake each other.
* *Reactions to silence.* A held call ends in the client's own timeout, an audit may
  come after its waiter has given up, a CORAL agent is restarted while its last
  request is held.
* *Guessing at the cutoff.* Which child sessions belong to a task that was never
  entered is inferred from session names and start times.

`PROJECT.json` lists these hazards at their lines, with the properties that would
catch each, and, where a property covers a hazard only in part or not at all, why.

## 2. The modules

| module | models | composes |
|---|---|---|
| `ReplayContract` | the abstract promise: recorded operations are entered at most once and in lane order, only closed ones are answered, after entry | - |
| `BoundaryLedger` | `boundary.py` in replay mode, arbitrary clients | implements `ReplayContract` |
| `LLMStore` | `llm_store.py` in replay mode, arbitrary clients | implements `ReplayContract` |
| `ReplayRun` | framework, both stores, supervisor: a replay from start to verdict | INSTANCEs `BoundaryLedger`, `LLMStore` |
| `RecordCutoff` | a recording cut at an arbitrary instant, to the bundle | - |
| `SamplerPlugin` | the vLLM plugin's rows, forced tokens, captured samples and audit lines, with the engine's batch as its environment | - |
| `AuditReader` | `ForcedAuditReader` of `forced.py`: one pump, its waiters, the seen table | - |
| `ForcedAudit` | engine, audit file and reader | INSTANCEs `SamplerPlugin`, `AuditReader` |
| `OpenCodePlugin` | the OpenCode plugin's hooks, events, promise tables and posts | - |
| `StartGate` | the stopped launcher, ready files, the gate, the marks of gated actors | - |
| `TaskPool` | a pool of workers recorded and replayed under the lanes of Owl, mini-swe or Trae, with the SDK's calls and the judgement of failed tasks | EXTENDS `StartGate` |
| `CoralTeam` | a CORAL team in replay: invocations, gradings, recorded restarts | EXTENDS `StartGate` |
| `NativeRun` | one run of the supervisor with its sweep | EXTENDS `TaskPool`, `CoralTeam` |
| `BoundaryLedger_proofs`, `LLMStore_proofs`, `RecordCutoff_proofs`, `NativeRun_proofs`, `SamplerPlugin_proofs`, `OpenCodePlugin_proofs` | theorems about the module each is named after | EXTEND it |
| `ReplayRun_proofs` | theorems about `ReplayRun` | EXTENDS it, INSTANCEs `BoundaryLedger_proofs` and `LLMStore_proofs` with the run's stores |
| `ForcedAudit_proofs` | theorems about `ForcedAudit` | EXTENDS it, INSTANCEs `SamplerPlugin_proofs` |
| `MC*` | the small instances | EXTEND the module they instantiate |

Definitions with an underscore (`AtTail_TailFirst`, `EndAttempt_PopsFirst`, ...)
are plausible bugs: each property is known to fail when such a definition takes
the place of the one it is named after. They are never part of a specification.

### BoundaryLedger

`Requests` is what `_claim` sees of a `start` payload: the queue key, the claim
identity, the model call. `start` is synchronous on the loop, so each of its
outcomes is an action: `ClaimClosed`, `EnterCompositeTail` (a CORAL `task` that
the source had entered and not finished), `InterceptTail` (an ordinary tail, held
for ever), `HoldPastEnd`, `RejectStart`, `RejectTrigger`. `complete` up to its await is
`Complete`, `HoldTruncated` (the composite tail's evidence is kept and the answer
withheld) or `RejectCompletion`; the write of the response is `Deliver`. `cursor`,
`cutoffCursor`, `active`, `delivered` and `hardFailure` are the attributes of the
same names up to an underscore; `entries`, `lost` and `held` are history variables:
how often the ledger let the framework enter an operation, which reservations a failed
completion consumed, and which lanes have a call that is never answered.
`RejectCompletion` keeps the difference between a `MismatchError` (recorded as the
hard failure) and a `ValidationError` (an HTTP 500 that nobody hears of).

### LLMStore

`ClaimAttempt` is `_claim` with, in the modes without an engine, the evidence that
follows in the same loop step. In a forced mode the attempt enters `engine` and
`EngineVerified` or `EngineFailed` ends that await. `DeliverResponse` and
`ResponseFailed` are the two ends of the streaming response. `HoldRequest` and
`RejectRequest` are the two ends of a call past the lane, the former with the
session-prefix marker the CORAL control reads. Record mode is in `RecordCutoff`.

### ReplayRun

The framework is the environment, a program: a partial order of calls, each sent once
when what it waits for was read (`AfterEnd`, `AfterBytes`), inside the operations
it runs in (`Within`), whose native work may itself wait for answers (`Work`). `Place` numbers
the calls of a lane; no action reads it, it only serves to say which programs do what the
source did (`Conforming`): each lane makes its recorded calls again in their order, each after
the answer to the one before (or inside it, if that is a composite tail), and a call past them
is the lane's next one, of a lane that had work and has all its answers or of an actor
that was live at the cutoff and whose recorded work is answered. A client can
read a response before the store has recorded its delivery; `AfterBytes` lets the
next call come in that interval. Whatever else may happen is a fault, and
`MaxFaults` bounds those: a drifting or repeated call, an unknown trigger, a rejected
completion, an engine or connection failure, a framework that exits. The
supervisor is its program counter: `health`, `complete`, `process` are the three tests
of one turn of `_wait_boundary`, in their order, then `freeze`, `stop`, `judge`.

Named assumptions of this module:

* `ProgramAssumption` contains the assumptions of both stores about the recording: one bundle
  is loaded into both. It types the program and says that no operation is an attempt.
* The predicates of two threads are read one after the other. They are monotone
  (proved for the ledger, `CompletionFinal`), so the conjunction is TRUE only if it is
  TRUE at the last read, and one step stands for the read.
* `GiveUp` (sample_end of the replay sweep, or the boundary deadline) needs a
  fault: both lie far beyond the recorded window, and a faultless run that is merely
  slower than the deadline is not of interest.
* Requests that arrive after the freeze are not modelled: the framework is being
  killed and no verdict reads them. Completions and deliveries do go on.
* `Tick` only runs while a composite tail has time to serve; nothing else reads time.
* A `failed` verdict stands for a run that raised; the code writes no verdict file then.
  Task-terminal failures (`_wait_boundary`'s reading of task statuses) are left out.

### RecordCutoff

`BeginAttempt`, `StreamToolCall`, `EndAttempt`, `CaptureArrives`, `AttemptFails`,
`InterruptStream` are the life of an attempt between `_record` and `_write_attempt`;
`StartOp`, `EndOp`, `ReportOp` that of an operation, either in a lane log or, for
the OpenCode plugin (`Posted`), at the boundary. `SampleEnd`, `Freeze`, `Stop`, `Abort` are
the supervisor. What happens to the files after everything has stopped is
written as functions of the final state: `LaneClosed`, `Markers`, `Adoption`,
`OpTails`, `Kept`. `Kept` is the largest set closed under ownership, which is what pruning
to a fixed point leaves.

Assumptions: a dispatch and its tool are one operation; `Freeze` comes strictly after
the instant it passes (it was written to a file, read and compared); an operation's
session is that of the attempt that asked for it; the wall-to-monotonic conversion of
the sample_end instant is exact. Grader and artifact links of the closure are left out.
`build_bundle` runs the marker pass a second time (`bundle.py:323`); it finds nothing
new when an operation and its attempt share a session, so it is not repeated.

### SamplerPlugin, AuditReader, ForcedAudit

`SamplerPlugin` has two halves. The engine's (`rows`, `status`, `drawn`, `output`) is
external: requests join a dense batch, rows are moved or swapped when one leaves, a step
draws a token for each row. The plugin's (`states`, `sampled`, `forcedCount`,
`seenIds`, `written`) is `update_state` with its order of removals, additions
and moves, the override of the natural token inside the recorded window, and
`_write_audit`. With `AsyncLag` 1 the last token of a row's history may still be a placeholder, as
asynchronous scheduling does. `AuditReader` is `ForcedAuditReader`: `PumpTurn`,
`ReadFile` (in a thread, which may read a line that is only partly written) and
`Publish` are one turn of the pump; a waiter registers, is resolved or poisoned, times
out or takes what `seen` holds. `ForcedAudit` joins the two through `file`, which other
processes of the fleet append to as well and which an earlier run may have left filled.

### OpenCodePlugin

A handler of the plugin is a coroutine of one event loop and joins others through
tables of promises; each `await` of a post separates two actions. An action that takes an
answer also wakes whoever waits on the promise it resolves. `Before`, `RunningEvent`,
`NativeEnds`, `ErrorEvent`, `SessionCreated` and `ChildRequest` are OpenCode's hooks and
events; `DispatchGranted`, `ToolGranted`, `StartRejected`, `ToolEndTaken`,
`DispatchEndTaken`, `EndRejected` the answers to `startTool` and `finish`. `posts` is a
history of what was sent. OpenCode's order of hooks and events is external.

### StartGate, TaskPool, CoralTeam, NativeRun

`StartGate` is `exec_gate` (the launcher stops itself, is put under accounting, goes on),
the supervisor up to the gate, and `ready_and_wait`: `Arrive` looks at the marks of the
worker's own process, then at the gate file, and otherwise leaves a ready file.

`TaskPool` is the life of a task: `Take` (submission, resolution and binding of the
lane), `EnvironmentUp` or `EnvironmentFails` (mini-swe binds a task before it has an
environment), the gate, `Enter` (the lane's lock), calls, `Finish`, and the terminal that the
SDK writes. A call is `StartDispatch`, `StartTool` or `SimulateTool` or `RejectCall`,
`EndTool`, `EndDispatch`. The same module records first and then replays what it
recorded: `RecordBundle` builds the actor map, the sources that ended and the logs, and
starts the supervisor again; `Judge` is `_unexpected_failed_tasks`. `adapter` chooses how
lanes and sessions are named: Owl's workers are processes that share a lane's log
under a lock, mini-swe's are threads whose tasks have sessions of their own, Trae's tasks each
have a lane. The ledger's decision is reduced to a cursor per session (`Grants`, `Holds`);
`BoundaryLedger` has it in full.

`CoralTeam` is the replay of a team whose recording is a constant: how many requests each
invocation made, which invocations ended by themselves, when attempts were
submitted, and which grading triggered which restart. `Control` is
`_advance_pending_resumes`; `ScheduleInterrupt` is the patched pair that refuses a live
heartbeat and interrupts at once for a recorded restart. CORAL's own monitor
(`Resume`, `RestartExited`, `TeamEnds`) is external.

Assumptions: tasks make a fixed number of calls and run to their end; a sweep exits, if it does,
before its actors are ready; the gate's timeout is longer than a run; task identifiers are
safe as lane names; `graders.jsonl` gets whole lines.

## 3. What is checked

| run | instance | what it shows |
|---|---|---|
| `boundary_ledger` | three actors, four lanes: a closed task whose identical retry was open, then an ordinary tail; a lane with only a pre-dispatch marker; a lane of two operations without tails; an empty lane | whatever clients send, every entry is accounted for (`EveryEntryAccounted`), only finished lanes hold (`NoEarlyHold`), evidence matches, completion is final and cannot be contradicted by `assert_consumed`, and the ledger implements the contract |
| `llm_store` | two lanes of a live actor, a used and an unused lane of a finished one; forced and not | no slot is lost in silence, evidence is earned, a hold and a session-prefix marker mean a finished lane (`HeldLaneIsFinished`), the contract is implemented |
| `replay_run` | a task open at the cutoff with a child session (an answered attempt, a closed operation, the same operation open), and a second actor whose next session had only begun; at most one fault | no false alarm, a valid verdict means everything was replayed, the freeze cuts composite tails only, no recorded work is held (the second half of `NoFalseAlarm`), every run is decided, every faultless run is valid |
| `record_cutoff` | a streamed attempt that names two tasks, a plain attempt with a lane operation, a child attempt in one task; capture audits on | no attempt of the window vanishes, cut operations stay open, closed children are kept with a task whether it closed or was cut (its childless sibling may be entered in its place), every call a closed response names is accounted for, late writes belong to the window |
| `forced_audit` | a forced, a captured and an ordinary request on two rows; a line of an earlier run with the same id in the file, a line of another engine; at most one fault | the plugin's rows are the engine's (`RowsMatch`), audits list what was drawn, an accepted audit was written in this run by an engine that ran the request, by this one only when the request had left the batch, a captured window is the committed one or none, and a record that is in the file reaches whoever waits for it, however the pump stopped before |
| `opencode_plugin` | a task call with a hook, a bash call beside it, and a later task without its before hook; at most one refused post | posts of a call are in order and each made once, apart from repetitions after a refusal (`BoundaryOrder`); child sessions of hooked tasks in turn name their task; what ended is reported and forgotten |
| `native_run` | three tasks on two workers, recorded to any cutoff and replayed, under each of three adapters; or a team of two agents, one restarted by its grading, the other ending by itself; at most one failing environment | nothing begins before the gate and out of accounting (`StartTogether`), lanes are serial, tasks open at the cutoff are excused and no others, a restart cuts no recorded request and waits for its grading (`RestartCutsNothing`), and every recorded invocation starts (`RecordedInvocationsStart`) |
| `verdict_health` | as `replay_run` | *violated*: see below |
| `fresh_lane` | `replay_run` with a parallel child session that had only begun, no faults | *violated* |
| `record_tails`, `record_triggers` | as `record_cutoff` | *violated* |
| `record_tasks` | two sibling tasks with a child attempt each, no captures | *violated*; `DescendantsSurvive` holds in this instance too |

### Disagreements between the code and what it says

* `verdict_health`. `_wait_boundary` (`supervisor.py:490`) tests health, then
  completion, and nobody reads the failure again: a drift recorded between the two tests,
  while the last response is delivered, leaves a `valid` verdict. `design.md`
  lines 114-115 make such a run invalid. This is why `ValidMeansReplayed`, which
  holds, speaks of the recorded work and not of the absence of failures.
* `fresh_lane`. LLM tails are not loaded into the replay lanes. The first request
  of a session whose only attempt was open at the cutoff meets an empty lane, which is
  hard drift (`llm_store.py:308`) as long as the actor has closed work left, although
  `README.md` lines 16-17 of the repository say such calls are retained and stopped
  before entry. A program that makes this call does not conform, and `NoFalseAlarm` speaks of
  those that do: the recording of `replay_run` is the one where this call is the last the actor makes.
* `record_tails`. An attempt waits for its capture audit in the in-flight table;
  frozen there and written afterwards, it is both a tail and a closed record, which
  `bundle.py:624` excludes and `load_bundle` refuses.
* `record_triggers`. Closure follows no link from an operation to the attempt
  that asked for it, so an operation named by a stream that was open at the cutoff is kept
  without it (`cutoff.py:7` promises otherwise).
* `record_tasks`. A task that was open at the cutoff is matched to its child session by
  name and start time, and sessions of closed tasks are not excluded (`bundle.py:778`). With
  parallel tasks of which one has closed, the open one may adopt the closed one's
  session; its own span is then no open parent and its closed children are pruned, which
  `bundle.py:763-764` says entering the task is meant to preserve. This is why
  `DescendantsSurvive` speaks of closed tasks, and of open tasks when only open tasks
  of their own session are below it (`OnlyOpenBelow`).

### Observed divergences that no run states

These were met while the modules were written and checked by hand on variants of
the instances; the properties of the passing runs are worded around them.

* *A dead task is offered to the next child.* `plugin.js:345` (the OpenCode plugin) binds a
  new child session to the first entry of `activeTasks`. A task that fails before it has
  created its session stays there (`finish`, lines 280-329, does not remove it), so the next
  task's child names the dead one. The same happens when a start was refused and the handler
  of the error event starts the task once more: it is queued, and ended, without a child.
  `HookedChildrenAreBound` therefore speaks of runs in which no post was refused, and of
  children whose task, with those before it in its session, got its child.
* *Refill tasks are blamed.* `_unexpected_failed_tasks` (`supervisor.py:770-802`) excuses a
  `TimeoutError` by the source its terminal names. Mini-swe names the task; in Owl and Trae
  the SDK looks the lane's actor up (`sdk.py:367-371`) and finds the first source of the lane, or none,
  so a refill task that was open at the cutoff is blamed. `OpenTasksAreExcused` speaks
  of tasks with a lane name of their own.
* *A task that ends while the sweep is stopped* writes a terminal after the cutoff, and
  `cutoff_source_actor_ids` (`bundle.py:105-128`) counts it as ended: its held call in
  replay is then blamed. `OpenTasksAreExcused` takes the bundle's word for what ended.
* *The lane lock does not order.* Whichever waiter gets the lock (`gate.py:136`) runs
  first, so a lane's tasks may replay in another order than they were recorded in, and
  drift. `LanesAreSerial` only says that they do not overlap.
* *A failed environment lets a second task through a closed gate*: the actor is marked as gated
  before it waits, and the next task of the lane in that process returns at once
  (`gate.py:219`). `StartTogether` excludes such runs.
* *The turn limit is live in replay.* Agents that end by themselves are started again by CORAL
  and count as turns; a team whose recording ended at its limit may reach it in replay before
  a slower agent has its last recorded response. TLC reaches such an end in the instance of
  `native_run`; the liveness property therefore allows the team's own end.

### Bounds

Keys, operations and identities are as few as let every branch of `_claim` be reached with
a wrong, a right and a repeated request, and a lane of each shape (closed only, tail
only, both, empty). Two operations in a lane show ordering and two identities show drift;
a third adds nothing the predicates can tell apart. `MaxClock` bounds the ledger clock
at 2, one more than the time the composite tail serves, so that it can be entered late and served
not at all, just, or longer. In `ReplayRun` `MaxClock` is 1, since the clock only runs while the tail
serves. `MaxFaults` is 1: a verdict and every alarm depend on the first fault. `RecordCutoff`
runs with `MaxClock` 2 (three instants): events before, at and after the cutoff, with
the freeze after it. No state constraint and no symmetry is used. Deadlock is
checked in the runs of the ledgers, of `ReplayRun` and of recordings (`Finished` is the only stuttering at
the end of a run); `forced_audit`, `opencode_plugin` and `native_run` may stop, when the
requests, calls or the run are over, and do not check it.

`forced_audit`: `MaxRows` 2 and three requests make rows leave, move and be reused; three
samples for a forced request of which one is committed make its window differ from
the start; a capture of two equal samples has an ambiguous window. `MaxFaults` 1 counts
timeouts, torn lines, foreign lines, read and engine failures. `opencode_plugin`: one
task with its hook and one without are the two ways a child finds its parent; `MaxFaults` 1 is
one refused post. `native_run`: with two workers and three tasks one lane is reused and
may be taken up by the other worker in replay, which is the case the lock is for; a fourth task
was tried without faults and added no new case. Each task makes one call, so that the cutoff
falls before, in and after it. One agent has three invocations, the first of two
requests; the other ends twice by itself. `MaxTurns` is one more than the recorded
invocations, as for a team whose limit ended the recording.

### Fairness

In `ReplayRun`: weak fairness of the sends, of the end of native work, of
deliveries and engine runs: the framework is a running program and the event loops
write what they hold. Weak fairness of `Supervise` and `Tick`: a polling loop and a
clock. Strong fairness of `Timeout`: the deadline is compared at the top of every turn
of the loop, so it is enabled again and again but not continuously. Faults are not fair. A
lost slot with no failure on record is decided by the timeout alone, and that is
what `EventuallyDecided` rests on.

In `ForcedAudit`: weak fairness of the pump's turn, its read and its publishing, of the
woken waiters (an event loop runs what is ready) and of `Flush`, which ends a partly
written line. Timeouts are not fair, so no answer is owed to one. In `OpenCodePlugin`: weak
fairness of the gate's opening, of the boundary's answers and of the error event;
refusals, native ends and sessions are OpenCode's affair. In `NativeRun`: weak fairness of
each agent's requests, of gradings and of the manager's polling loop, which are running
processes; nothing is assumed of the launcher, the supervisor or a pool.

## 4. What is proved

`BoundaryLedger_proofs` proves, for every recording that satisfies `BundleAssumption`
(queues of distinct records, nothing both closed and a tail, an actor with a tail was
live: what loading a bundle enforces) and every client behaviour:

| theorem | statement |
|---|---|
| `TypeCorrect` | `Spec => []TypeOK` |
| `EntriesAccounted` | `Spec => []EveryEntryAccounted` |
| `NoRequestHeldEarly` | `Spec => []NoEarlyHold` |
| `EvidenceMatches` | `Spec => []EvidenceMatchesRecording` |
| `CompletionConsumes` | `Spec => []CompletionIsConsumed` |
| `CompletionFinal` | `Spec => CompletionIsFinal` |
| `Refinement` | `Spec => ImplementsContract` |

None of the safety properties is inductive: they speak of operations, while `_claim`
decides by cursors. The inductive invariant `IInv` ties the two:

* `Positions`: the entries are exactly what the cursors have passed, closed slots and
  composite tails alike; a lane's tails are met only after its closed slots.
* `Accounting`: an entered operation is in one place (reserved, recorded, withheld,
  lost), and only a recorded one was delivered.
* `Justified`: a lane holds because it met a tail or because its closed operations have completed.
* `EvidenceMatchesRecording`, which is inductive with the above.

The step that matters is `FreshSlot`: the slot under a cursor was never entered, so a
claim adds to exactly one place and no second entry exists. From that, `WindowIsJustified`
shows that each of the three reasons to hold implies that the lane's work is complete;
`CompletionConsumes` that delivered closed operations are neither open nor lost;
`ContractStep` that each step enters one operation whose predecessors were
entered, answers one, or stutters. TLC checked `IInv` as an invariant before it was proved.

### LLMStore

`LLMStore_proofs` proves `TypeCorrect`, `NothingLostSilently` (`NoSilentLoss`), `EvidenceEarned`
(`EvidenceIsEarned`), `HeldMeansFinished` (`HeldLaneIsFinished`) and `Refinement` (of
`ReplayContract`), for every recording and both kinds of mode. The argument is that of the
ledger, with one thing more: a slot may be consumed without evidence, when the engine or
the connection fails. `Positions` ties cursors to claimed slots, `Accounting` puts each
claimed slot in one place (in the engine, delivering, delivered, broken, failed), and
`HeldAtEnd` says that a held request, or a session marked as finished, stands at
a lane whose slots were all claimed, which stays true because cursors only grow.

### RecordCutoff

`RecordCutoff_proofs`, for every set of attempts and operations, every forest of
sessions and every bound of the clock:

| theorem | property |
|---|---|
| `TypeCorrect` | `TypeOK` |
| `NoAttemptVanishes` | `AttemptsAccounted` |
| `CutStaysCut` | `CutOpsStayOpen` |
| `LateWritesAgree` | `LateWritesAreInWindow` (an action property) |
| `CallsCovered` | `CallsAreCovered` |
| `ChildrenSurvive` | `DescendantsSurvive` |

The invariant is `Lives` (an attempt that is no longer in flight is in the log or ended after a known
cutoff) and `Window` (the frozen instant is past, so whatever begins or ends from now on is after
it, and what began by then was frozen or logged).

`ChildrenSurvive` needs an induction over the calls, since adoption is a recursive function.
`LeastNumber` (from the well-foundedness of `<` on the naturals) and `UpTo` give it
without an operator parameter: a set of naturals that contains 0 and is closed under
successor up to n contains `0..n`. With it `AdoptedStep` shows that the recursive definition has a solution
and so may be unfolded, `AdoptedOnce` that adoption only adds pairs and no task is adopted twice.
`OpenTaskIsAdopted` is then a pigeonhole argument. Suppose an open task *o* with a closed
child *a* is left over. Let T be the open tasks of its session whose response ended by the
begin of *a*. Each of them could have taken *o*, and therefore took, for a first child no later than
*a*, another member of T; no two took the same; so T has an injection into T without *o*.
Where a closed task is among the candidates that step fails, and `record_tasks` is the counterexample.

### NativeRun

`NativeRun_proofs`, for every number of workers, tasks, lanes, agents and invocations, under each
adapter's naming of lanes:

| theorem | property |
|---|---|
| `TypeCorrect` | `TypeOK` |
| `StartsTogether` | `StartTogether` |
| `Serial` | `LanesAreSerial` |
| `OpenTasksExcused` | `OpenTasksAreExcused` |
| `RestartsCutNothing` | `RestartCutsNothing` |

Its invariant has a part for each mechanism: `Hands` (a task in work has one worker), `Lanes` and
`Locks` (a lane of threads stays with its process; a lane of processes has its lock held by whoever
runs it), `Opening` and `FirstTasks` (the gate opens on a count of ready files, so
before it opens every ready file is of a different lane: a cardinality argument shows that none
of the expected lanes is missing), `Blame` (how a task's end relates to its source's), `Apart`
(recording and replay keep to their variables) and `Markers` (an invocation is marked finished
only after its last recorded request).

### ReplayRun

`ReplayRun_proofs`, for every recording, every program and every number of faults:

| theorem | statement |
|---|---|
| `StoresBehave` | a run is a behaviour of both stores with arbitrary clients |
| `ContractsKept` | both stores implement `ReplayContract` in every run |
| `TypeCorrect` | `TypeOK` |
| `FreezeIsHarmless` | `FreezeCutsNothing` |
| `ValidRunsReplayed` | `ValidMeansReplayed` |
| `AlarmsAreTrue` | `NoFalseAlarm` |
| `FaultlessRunsNeverFail` | no run of a conforming program without a fault is aborted |

Each action of the run is an action of one store, of the other, or of none, so every invariant proved of
a store alone holds in the run: the theorems of the two modules are cited through their
instances. What the run adds is `Closing`: from the turn that saw the window complete
until the verdict, both windows are complete (completion is never retracted: `CompletionStep`
of the ledger), and a verdict `valid` comes only from there.

`AlarmsAreTrue` is about every program that does what the source did (`Conforming`), with any
interleaving of its lanes. `NoFalseAlarm` is not inductive: that a store has refused nothing so far does not say
that it will accept the next call. `AlarmInv` adds that the program and the cursors move together
(`OpsInStep`, `LLMInStep`): a call whose place a lane's cursors have passed was sent, and
all closed operations before the last one claimed have completed. A call that is sent was not sent before,
so the cursors have not passed its place; it has waited for the call before it, so they have
reached it (`OpTurn`, `LLMTurn`). It therefore meets the slot that was recorded for it and matches
(`OpMeets`, `OpNotRefused`); past its lane, it has waited for its own lane or its actor's work,
which is what makes each store hold it (`CoveredWork`, `LLMPastEnd`), with nothing recorded left behind
(`HeldOps`). The two halves of `actor_complete` matter here: `CoveredWork` uses that the ledger
counts operations as answered when they are completed, and the LLM store when they are claimed, not when
their delivery is recorded, which a client may be ahead of.
`FaultlessRunsNeverFail` adds the supervisor: it is the safety half of
`FaultlessRunIsValid`.

### ForcedAudit

`ForcedAudit_proofs`, for any requests, rows, recordings, token values, histories of the file and
lines of other engines:

| theorem | property |
|---|---|
| `TypeCorrect` | `TypeOK` |
| `RowsAreMatched` | `RowsMatch` |
| `AuditsAreHonest` | `AuditsAreTrue` |
| `AcceptanceIsEarned` | `AcceptedIsEarned` |
| `WindowIsTrue` | `EvidenceIsTheWindow` |

`SamplerPlugin_proofs` has the engine's and the plugin's half. `MovesMatch` is what all of it rests on:
after removals and one addition, the rows past the new end and the holes before it are
equally many, and the engine's report pairs them one to one by rank (`Ranks`: the
rank in a finite ordered set is a bijection). From it `PluginFollows` computes the
plugin's rows after its own order of removals, additions and moves and finds the batch again
(`Matched`), even when a row is removed and filled, or moved onto, in one report. Then each
row's token is forced and recorded for the request that drew it (`Samples`), a request's
audit is written when it is out of the batch and only once (`Once`), and a line stays what the
request's state says (`Lines`). The order of the lines that one report writes is left open.

`ForcedAudit_proofs` adds the reader: `Places` (it stands past what the file held when the
run began), `Records` (what it read and published are lines of this run, one for a request) and
`Waiting` (who is accepted was accepted on a record that no later publication replaces). The
evidence theorem is then about sequences: the output is the part of the drawn samples that begins
where the engine did (`Committed`), so that place is among the occurrences, and there is
only one.

### OpenCodePlugin

`OpenCodePlugin_proofs`, for any calls, sessions and children, any order OpenCode puts
them in, and any number of refused posts:

| theorem | property |
|---|---|
| `TypeCorrect` | `TypeOK` |
| `BoundaryIsTold` | `BoundaryOrder` |
| `ChildrenAreBound` | `HookedChildrenAreBound` |

`OneCall` says which promise tables may hold a call at once and where OpenCode stands with it
meanwhile. `Told` follows its posts: their number is a function of the tables (`Shown`) as long as
nothing was refused, and after a refusal the tables still say what the last post may have been
(`LastPosts`), which is why a repeated post never comes before the one it follows. All but
one step concern a single call (`Stepped`); the gate serves every waiting start at once
(`GateOpens`).

For the child sessions `LiveInv` says that nobody told of a call before those it waits for had
ended, and `QueueInv` that a queue of active tasks holds tasks of its session, each once and from
its grant on. Where the tasks of a session come in turn, the task whose turn it is is then alone:
those behind it are not live, and those before it ended, got their child and so left
the queue (`Alone`, `OnlyQueued`). The head of the queue, which is all that the handler of
`session.created` looks at, is therefore the task that creates the child (`BoundByQueue`).

### Assumptions and how the proofs were found

The theorems rest on the ASSUMEs of the modules alone: `BundleAssumption`, `RecordingAssumption`
(what loading a bundle enforces), `ProgramAssumption` (a program's calls wait for one another in a partial order),
`CutoffAssumption` (the calls, sessions and triggers fit together), `ForcedAuditAssumption` (a
forced request has tokens, as many samples as its window ends at and a limit of at least its tokens, which
`_new_state` enforces; what is in the file already and what others append is not of this engine),
`PluginAssumption` (a call creates at most one child session), `PoolAssumption` and
`TeamAssumption` (tasks and invocations are recorded as the run writes them). TLC evaluates
them in every run, and TLC checked each `IInv` as an invariant of the corresponding instance
before it was proved.

### Only model-checked

Every invariant and every refinement that a passing run checks is stated by a theorem. Liveness
(`EventuallyDecided`, `FaultlessRunIsValid`, `RecordReachesItsWaiter`, `EndedIsReported`,
`RecordedInvocationsStart`) and ENABLED are outside what the prover supports, and stay with TLC.

## 5. What is not modelled

* In the composed replay (`ReplayRun`) an audit is only its outcome, and a
  dispatch and its tool are one operation; `ForcedAudit` and `OpenCodePlugin` have the detail.
* Arrival offsets and the gate's timeout; Owl's serial path and its binding of worker
  identities; the primitives inside Owl's browser tools; container labels.
* The recording of a CORAL team (it has no control of its own, and `RecordCutoff` has its
  cutoff), the reading of prompts from its logs, and the clamping of its tails to the team's end.
* Source tails of the composite task carry an `elapsed_ns` that the lane log writes as 0;
  the model takes it as given (`Required`).
* Framework monkey patches, result projection, rendering, packaging, process control: either
  pure functions or operating-system I/O.

## 6. Plan

Done: all the modules of section 2, and the proofs of section 4. What is left:

1. The safety halves of the remaining liveness properties (a record that was published is
   read by the waiter it belongs to; an invocation that starts is the next recorded one).
2. A model of what `load_bundle` checks of a bundle, from which `BundleAssumption` and
   `RecordingAssumption` follow.

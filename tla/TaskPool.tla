------------------------------ MODULE TaskPool ------------------------------
(***************************************************************************)
(* The tasks of a pool of workers, recorded and then replayed              *)
(* (minireplay/instrumentation/gate.py, owl.py, mini_swe.py, trae.py,      *)
(* sdk.py, and what supervisor.py and bundle.py make of the result).       *)
(*                                                                         *)
(* A worker takes the tasks of one queue, binds each to a lane, passes the *)
(* start gate and runs the task's tool calls through the SDK: start of a   *)
(* dispatch, start of a tool, the native tool, end of the tool, end of the *)
(* dispatch.  Recording names the lanes after the workers that ran them;   *)
(* replay puts each task back on its recorded lane, whoever runs it.  The  *)
(* adapters differ: Owl's workers are processes, and a task that reuses a  *)
(* lane waits for a file lock; mini-swe's are threads, and each task has   *)
(* a session of its own; Trae's have one lane for each task.               *)
(*                                                                         *)
(* Calls not answered in the recording's window are held in replay, until  *)
(* the SDK's request times out.  The frameworks, whose tasks make a fixed  *)
(* number of calls, are external, and so is the ledger's decision, which   *)
(* is that of BoundaryLedger for lanes of one session each.                *)
(***************************************************************************)
EXTENDS StartGate, Sequences, SequencesExt

CONSTANTS
    Tasks,       \* tasks of the workload (source actor ids)
    Queue,       \* Seq(Tasks): the order in which the framework submits them
    Calls,       \* [Tasks -> Nat]: tool calls of a task
    MaxFaults    \* bound of the environments that fail to come up

NoTask  == "no task"
NoActor == "no actor"
NoLanes == [t \in Tasks |-> NoActor]
NoLog   == [t \in Tasks |-> <<>>]

ASSUME PoolAssumption ==
    /\ Tasks \subseteq Actors /\ Workers \cup {"main"} \subseteq Processes
    /\ Queue \in Seq(Tasks) /\ IsInjective(Queue)
    /\ Calls \in [Tasks -> Nat] /\ MaxFaults \in Nat
    /\ NoTask \notin Tasks /\ NoActor \notin Actors /\ "nobody" \notin Workers
    /\ IsFiniteSet(Workers)

VARIABLES
    adapter, mode,
    simulate,   \* tools of the replay are simulated (llm-only replay)
    next,       \* tasks taken from the queue
    task,       \* [Workers -> the task in hand]
    phase,      \* [Workers -> where it is]
    native,     \* _NATIVE_LANES: [Workers -> lane of the worker's slot]
    bound,      \* _TASK_LANES: [Tasks -> lane]
    lock,       \* [Tasks -> holder of the lane's lock file]
    calls,      \* [Tasks -> calls that have returned]
    log,        \* [session -> Seq(Tasks)]: calls closed in the window
    cursor,     \* [session -> calls of the recording claimed in replay]
    tails,      \* sessions with a call open at the cutoff
    terminals,  \* task terminals of the run
    bundle,     \* what the recording left
    drift,      \* the ledger refused a call
    unexpected, \* failed tasks the supervisor does not excuse
    faults

poolVars == <<adapter, mode, simulate, next, task, phase, native, bound, lock, calls, log,
              cursor, tails, terminals, bundle, drift, unexpected, faults>>

EmptyBundle == [lane |-> NoLanes, actors |-> {}, log |-> NoLog, tails |-> {}, ended |-> {}]

PoolInit ==
    /\ mode = "record" /\ simulate = FALSE
    /\ next = 0
    /\ task = [w \in Workers |-> NoTask]
    /\ phase = [w \in Workers |-> "free"]
    /\ native = [w \in Workers |-> NoActor]
    /\ bound = NoLanes
    /\ lock = [t \in Tasks |-> "nobody"]
    /\ calls = [t \in Tasks |-> 0] /\ cursor = [t \in Tasks |-> 0]
    /\ log = NoLog /\ tails = {} /\ terminals = {}
    /\ bundle = EmptyBundle
    /\ drift = FALSE /\ unexpected = {} /\ faults = 0

Replaying == mode = "replay"

-----------------------------------------------------------------------------
(* Lanes *)

(* The workers of Owl are processes, those of the others threads.          *)
ProcessOf(w) == IF adapter = "owl" THEN w ELSE "main"

(* Recording names the worker's slot after its first task; Trae declares   *)
(* no slot.  Replay resolves the task through the bundle's actor map.      *)
LaneFor(w, t) ==
    CASE Replaying -> IF bundle.lane[t] # NoActor THEN bundle.lane[t] ELSE t
      [] ~Replaying /\ adapter = "trae" -> t
      [] OTHER -> IF native[w] # NoActor THEN native[w] ELSE t

(* resolve_actor admits any name until there is an inventory.              *)
Admitted(w, t) == Replaying => LaneFor(w, t) \in bundle.actors

(* Only mini-swe gives each task a session.                                *)
SessionFor(t) == IF adapter = "mini-swe" THEN t ELSE bound[t]

Bind(w, t) ==
    /\ bound' = [bound EXCEPT ![t] = LaneFor(w, t)]
    /\ native' = IF ~Replaying /\ adapter # "trae"
                 THEN [native EXCEPT ![w] = LaneFor(w, t)] ELSE native

-----------------------------------------------------------------------------
(* A worker and its task *)

InHand(w, p) == Alive /\ phase[w] = p
Goto(w, p) == phase' = [phase EXCEPT ![w] = p]
Available(w) == InHand(w, "free") /\ next < Len(Queue)

(* The task is not of the recording: the worker goes on to the next one.   *)
TakeForeign(w) ==
    /\ Available(w)
    /\ ~Admitted(w, Queue[next + 1])
    /\ next' = next + 1
    /\ UNCHANGED <<gateVars, adapter, mode, simulate, task, phase, native, bound, lock, calls,
                   log, cursor, tails, terminals, bundle, drift, unexpected, faults>>

(* mini-swe binds the task when it makes the environment, Owl and Trae     *)
(* when the worker comes to the gate.                                      *)
Take(w) ==
    /\ Available(w)
    /\ LET t == Queue[next + 1] IN
       /\ Admitted(w, t)
       /\ next' = next + 1
       /\ task' = [task EXCEPT ![w] = t]
       /\ Bind(w, t)
       /\ IF adapter = "mini-swe"
          THEN Goto(w, "setup") /\ UNCHANGED gateVars
          ELSE Goto(w, "gate") /\ Arrive(w, ProcessOf(w), LaneFor(w, t))
    /\ UNCHANGED <<adapter, mode, simulate, lock, calls, log, cursor, tails, terminals,
                   bundle, drift, unexpected, faults>>

EnvironmentUp(w) ==
    /\ InHand(w, "setup")
    /\ Goto(w, "gate")
    /\ Arrive(w, ProcessOf(w), bound[task[w]])
    /\ UNCHANGED <<adapter, mode, simulate, next, task, native, bound, lock, calls, log,
                   cursor, tails, terminals, bundle, drift, unexpected, faults>>

(* The task ends before the agent runs, without a terminal.                *)
EnvironmentFails(w) ==
    /\ InHand(w, "setup") /\ faults < MaxFaults
    /\ faults' = faults + 1
    /\ Goto(w, "free")
    /\ task' = [task EXCEPT ![w] = NoTask]
    /\ UNCHANGED <<gateVars, adapter, mode, simulate, next, native, bound, lock, calls, log,
                   cursor, tails, terminals, bundle, drift, unexpected>>

(* _causal_lane_lock: whoever of the waiting processes gets the lock file. *)
MayEnter_Bug(w) == TRUE
MayEnter(w) == adapter = "owl" => lock[bound[task[w]]] = "nobody"

Enter(w) ==
    /\ InHand(w, "gate") /\ place[w] = "inside"
    /\ MayEnter(w)
    /\ Goto(w, "run")
    /\ lock' = IF adapter = "owl" THEN [lock EXCEPT ![bound[task[w]]] = w] ELSE lock
    /\ UNCHANGED <<gateVars, adapter, mode, simulate, next, task, native, bound, calls, log,
                   cursor, tails, terminals, bundle, drift, unexpected, faults>>

-----------------------------------------------------------------------------
(* The end of a task *)

(* A terminal names the task in mini-swe; in the others it carries what    *)
(* the bundle says of the actor, and nothing in a recording.               *)
SourceNamed(t) ==
    CASE adapter = "mini-swe" -> t
      [] adapter # "mini-swe" /\ Replaying /\ bundle.lane[bound[t]] # NoActor -> bound[t]
      [] OTHER -> NoTask

Terminal(t, status, error) ==
    [of |-> t, actor |-> bound[t], source |-> SourceNamed(t), status |-> status,
     error |-> error]

(* The worker lets go of the task, its lane's lock and its context.        *)
Leave(w) ==
    /\ Goto(w, "free")
    /\ task' = [task EXCEPT ![w] = NoTask]
    /\ lock' = [t \in Tasks |-> IF lock[t] = w THEN "nobody" ELSE lock[t]]
    /\ place' = [place EXCEPT ![w] = "outside"]
    /\ UNCHANGED <<launch, accounted, sup, gate, ready, gated>>

Report(w, status, error) ==
    terminals' = terminals \cup {Terminal(task[w], status, error)}

Finish(w) ==
    /\ InHand(w, "run") /\ calls[task[w]] = Calls[task[w]]
    /\ Report(w, "success", "none")
    /\ Leave(w)
    /\ UNCHANGED <<adapter, mode, simulate, next, native, bound, calls, log, cursor, tails,
                   bundle, drift, unexpected, faults>>

(* The interrupt reaches Owl's workers, which are processes: it is no      *)
(* Exception, and no terminal is written.                                  *)
Interrupted(w) ==
    /\ adapter = "owl" /\ Alive /\ sup = "stopping"
    /\ phase[w] \notin {"free", "gate"}
    /\ Leave(w)
    /\ UNCHANGED <<adapter, mode, simulate, next, native, bound, calls, log, cursor, tails,
                   terminals, bundle, drift, unexpected, faults>>

-----------------------------------------------------------------------------
(* A tool call: run_dispatch around run_tool *)

Entry(s) == bundle.log[s][cursor[s] + 1]
Past(s) == cursor[s] = Len(bundle.log[s])
AllClaimed == \A s \in Tasks : Past(s)
Answered == \A w \in Workers : phase[w] \notin {"dispatch", "native", "asleep", "closing"}

Grants(s, t) == ~Past(s) /\ Entry(s) = t
(* A call is held past the recorded ones: it was open at the cutoff, or    *)
(* the lane's recorded calls, or the run's, are all answered.              *)
Holds(s) ==
    /\ Past(s)
    /\ \/ s \in bundle.tails
       \/ bundle.log[s] # <<>>
       \/ AllClaimed /\ Answered

Calling(w) == InHand(w, "run") /\ calls[task[w]] < Calls[task[w]]

(* A recording writes the start to the lane's log; replay asks the ledger. *)
StartDispatch(w) ==
    /\ Calling(w)
    /\ LET s == SessionFor(task[w]) IN
       /\ Replaying => Grants(s, task[w])
       /\ cursor' = IF Replaying THEN [cursor EXCEPT ![s] = @ + 1] ELSE cursor
    /\ Goto(w, "dispatch")
    /\ UNCHANGED <<gateVars, adapter, mode, simulate, next, task, native, bound, lock, calls,
                   log, tails, terminals, bundle, drift, unexpected, faults>>

StartHeld(w) ==
    /\ Replaying /\ Calling(w)
    /\ Holds(SessionFor(task[w]))
    /\ Goto(w, "held")
    /\ UNCHANGED <<gateVars, adapter, mode, simulate, next, task, native, bound, lock, calls,
                   log, cursor, tails, terminals, bundle, drift, unexpected, faults>>

(* The call is not the lane's next one: MismatchError, and the task fails. *)
StartRefused(w) ==
    /\ Replaying /\ Calling(w)
    /\ LET s == SessionFor(task[w]) IN ~Grants(s, task[w]) /\ ~Holds(s)
    /\ drift' = TRUE
    /\ Report(w, "failure", "MismatchError")
    /\ Leave(w)
    /\ UNCHANGED <<adapter, mode, simulate, next, native, bound, calls, log, cursor, tails,
                   bundle, unexpected, faults>>

(* The SDK waits 30 s for an answer: TimeoutError, and the task fails.     *)
TimesOut(w) ==
    /\ InHand(w, "held")
    /\ Report(w, "failure", "TimeoutError")
    /\ Leave(w)
    /\ UNCHANGED <<adapter, mode, simulate, next, native, bound, calls, log, cursor, tails,
                   bundle, drift, unexpected, faults>>

(* The tool's start is granted with its dispatch.                          *)
StartTool(w) ==
    /\ InHand(w, "dispatch") /\ ~(Replaying /\ simulate)
    /\ Goto(w, "native")
    /\ UNCHANGED <<gateVars, adapter, mode, simulate, next, task, native, bound, lock, calls,
                   log, cursor, tails, terminals, bundle, drift, unexpected, faults>>

(* A simulated tool waits for the recorded duration instead of running.    *)
SimulateTool(w) ==
    /\ InHand(w, "dispatch") /\ Replaying /\ simulate
    /\ Goto(w, "asleep")
    /\ UNCHANGED <<gateVars, adapter, mode, simulate, next, task, native, bound, lock, calls,
                   log, cursor, tails, terminals, bundle, drift, unexpected, faults>>

(* A call that the parser rejects is dispatched, and no tool runs.         *)
RejectCall(w) ==
    /\ adapter = "mini-swe" /\ InHand(w, "dispatch")
    /\ Goto(w, "closing")
    /\ UNCHANGED <<gateVars, adapter, mode, simulate, next, task, native, bound, lock, calls,
                   log, cursor, tails, terminals, bundle, drift, unexpected, faults>>

EndTool(w) ==
    /\ Alive /\ phase[w] \in {"native", "asleep"}
    /\ Goto(w, "closing")
    /\ UNCHANGED <<gateVars, adapter, mode, simulate, next, task, native, bound, lock, calls,
                   log, cursor, tails, terminals, bundle, drift, unexpected, faults>>

(* What ends in the window is a call of the recording.                     *)
EndDispatch(w) ==
    /\ InHand(w, "closing")
    /\ Goto(w, "run")
    /\ calls' = [calls EXCEPT ![task[w]] = @ + 1]
    /\ log' = IF ~Replaying /\ sup = "window"
              THEN [log EXCEPT ![SessionFor(task[w])] = Append(@, task[w])] ELSE log
    /\ UNCHANGED <<gateVars, adapter, mode, simulate, next, task, native, bound, lock, cursor,
                   tails, terminals, bundle, drift, unexpected, faults>>

PoolStep(w) ==
    \/ TakeForeign(w) \/ Take(w) \/ EnvironmentUp(w) \/ EnvironmentFails(w) \/ Enter(w)
    \/ Finish(w) \/ Interrupted(w) \/ StartDispatch(w) \/ StartHeld(w) \/ StartRefused(w)
    \/ TimesOut(w) \/ StartTool(w) \/ SimulateTool(w) \/ RejectCall(w)
    \/ EndTool(w) \/ EndDispatch(w)

-----------------------------------------------------------------------------
(* The supervisor *)

InCall(w) == phase[w] \in {"dispatch", "native", "asleep", "closing"}

(* The window of a recording ends with the sample, that of a replay with   *)
(* the last recorded answer.                                               *)
CloseWindow ==
    /\ sup = "window" /\ launch = "running" /\ ~drift
    /\ Replaying => AllClaimed /\ Answered
    /\ sup' = "stopping"
    /\ tails' = {SessionFor(task[w]) : w \in {v \in Workers : InCall(v)}}
    /\ UNCHANGED <<launch, accounted, gate, ready, gated, place, adapter, mode, simulate,
                   next, task, phase, native, bound, lock, calls, log, cursor, terminals,
                   bundle, drift, unexpected, faults>>

(* A drift, or a sweep that is gone, ends the run in the window.           *)
WindowFails ==
    /\ sup = "window" /\ (drift \/ launch = "exited")
    /\ sup' = "failed"
    /\ UNCHANGED <<launch, accounted, gate, ready, gated, place, poolVars>>

(* _actors_from_stage: Owl and mini-swe leave a binding of every task,     *)
(* Trae only the ready files of the tasks that waited at the gate.         *)
ActorMap == [t \in Tasks |-> IF adapter = "trae" /\ t \notin ready THEN NoActor ELSE bound[t]]

RecordedActors ==
    {bound[t] : t \in {u \in Tasks : bound[u] # NoActor /\
        (ActorMap[u] # NoActor \/ log[u] # <<>> \/ u \in tails)}}

(* Bundle.cutoff_source_actor_ids reads the terminals of the recording: by *)
(* their source, or by their actor if the actor is a source.               *)
RecordedEnds ==
    {u.source : u \in {v \in terminals : v.source # NoTask}}
    \cup {u.actor : u \in {v \in terminals : v.source = NoTask}}

(* The sweep is stopped, the bundle is built, and a replay run begins.     *)
RecordBundle ==
    /\ sup = "stopping" /\ ~Replaying
    /\ bundle' = [lane |-> ActorMap, actors |-> RecordedActors, log |-> log,
                  tails |-> tails, ended |-> RecordedEnds]
    /\ mode' = "replay"
    /\ simulate' \in IF adapter = "mini-swe" THEN BOOLEAN ELSE {FALSE}
    /\ GateRestart
    /\ next' = 0
    /\ task' = [w \in Workers |-> NoTask]
    /\ phase' = [w \in Workers |-> "free"]
    /\ native' = [w \in Workers |-> NoActor]
    /\ bound' = NoLanes
    /\ lock' = [t \in Tasks |-> "nobody"]
    /\ calls' = [t \in Tasks |-> 0] /\ cursor' = [t \in Tasks |-> 0]
    /\ log' = NoLog /\ tails' = {} /\ terminals' = {}
    /\ UNCHANGED <<adapter, drift, unexpected, faults>>

CutoffSources == {t \in Tasks : bundle.lane[t] # NoActor} \ bundle.ended

(* _unexpected_failed_tasks excuses a task that was open at the cutoff.    *)
Excused_Bug(t) == t.error = "TimeoutError" /\ t.source \in CutoffSources \cup bundle.ended
Excused(t) ==
    /\ t.error = "TimeoutError"
    /\ t.source \in CutoffSources
    /\ bundle.lane[t.source] = t.actor

Judge ==
    /\ sup = "stopping" /\ Replaying
    /\ sup' = "judged"
    /\ unexpected' = {t \in terminals : t.status = "failure" /\ ~Excused(t)}
    /\ UNCHANGED <<launch, accounted, gate, ready, gated, place, adapter, mode, simulate,
                   next, task, phase, native, bound, lock, calls, log, cursor, tails,
                   terminals, bundle, drift, faults>>

SuperviseStep == CloseWindow \/ WindowFails \/ RecordBundle \/ Judge

-----------------------------------------------------------------------------
Lane == Tasks \cup {NoActor}
Logs == [Tasks -> Seq(Tasks)]

PoolTypeOK ==
    /\ adapter \in {"owl", "mini-swe", "trae", "coral"} /\ mode \in {"record", "replay"}
    /\ simulate \in BOOLEAN /\ drift \in BOOLEAN
    /\ next \in 0 .. Len(Queue) /\ faults \in 0 .. MaxFaults
    /\ task \in [Workers -> Tasks \cup {NoTask}]
    /\ phase \in [Workers -> {"free", "setup", "gate", "run", "dispatch", "native",
                              "asleep", "closing", "held"}]
    /\ \A w \in Workers : phase[w] = "free" <=> task[w] = NoTask
    /\ native \in [Workers -> Lane] /\ bound \in [Tasks -> Lane]
    /\ lock \in [Tasks -> Workers \cup {"nobody"}]
    /\ calls \in [Tasks -> Nat] /\ \A t \in Tasks : calls[t] <= Calls[t]
    /\ log \in Logs /\ cursor \in [Tasks -> Nat] /\ tails \subseteq Tasks
    /\ terminals \subseteq [of : Tasks, actor : Tasks, source : Tasks \cup {NoTask},
                            status : {"success", "failure"},
                            error : {"none", "MismatchError", "TimeoutError"}]
    /\ unexpected \subseteq terminals
    /\ bundle \in [lane : [Tasks -> Lane], actors : SUBSET Tasks, log : Logs,
                   tails : SUBSET Tasks, ended : SUBSET Tasks]

=============================================================================

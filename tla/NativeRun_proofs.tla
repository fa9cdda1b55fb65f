--------------------------- MODULE NativeRun_proofs ---------------------------
(***************************************************************************)
(* Theorems of a native run: the start gate, the pool of workers in        *)
(* recording and replay, and the CORAL team in replay, for any number of   *)
(* workers, tasks and agents.                                              *)
(*                                                                         *)
(* The properties speak of one moment, the reasons for them lie earlier:   *)
(* that two tasks of a replay do not share a lane before the gate rests on *)
(* what the gate made the recording wait for; that a failed task is        *)
(* excused on what its terminal, its lane and the bundle say of one task;  *)
(* that a restart cuts nothing on where a marker was written.  The parts   *)
(* of the inductive invariant are those reasons.                           *)
(***************************************************************************)
EXTENDS NativeRun, FiniteSetTheorems, TLAPS

(* A team runs without a pool and a pool without a team, and only mini-swe *)
(* makes an environment before it comes to the gate.                       *)
Apart ==
    /\ Coral => ~Replaying /\ \A w \in Workers : phase[w] = "free"
    /\ ~Coral => team = "off" /\ \A a \in Agents : started[a] = 0
    /\ adapter # "mini-swe" => \A w \in Workers : phase[w] # "setup"

(* The task was submitted in this run. *)
Taken(t) == \E i \in 1..next : Queue[i] = t

(* A task is in one hand at most, bound to its lane, and bound once. *)
Hands ==
    /\ \A w \in Workers : phase[w] # "free" => Taken(task[w]) /\ bound[task[w]] \in Tasks
    /\ \A t \in Tasks : bound[t] # NoActor => Taken(t)
    /\ \A v, w \in Workers : v # w /\ phase[v] # "free" => task[v] # task[w]
    /\ \A w \in Workers : InCall(w) => calls[task[w]] < Calls[task[w]]

(* A lane is named after the first task of its worker; a replay's lanes    *)
(* are the recorded ones.                                                  *)
Resolved(t) == IF bundle.lane[t] # NoActor THEN bundle.lane[t] ELSE t

SlotLanes ==
    /\ \A t \in Tasks : bound[t] # NoActor => bound[bound[t]] = bound[t]
    /\ \A w \in Workers : native[w] # NoActor => bound[native[w]] = native[w]
    /\ \A v, w \in Workers : v # w /\ native[v] # NoActor => native[v] # native[w]
    /\ \A w \in Workers : phase[w] # "free" => bound[task[w]] = native[w]

RecordedLanes ==
    /\ adapter = "trae" => \A t \in Tasks : bundle.lane[t] \in {NoActor, t}
    /\ adapter # "trae" => \A x \in bundle.actors : bundle.lane[x] = x
    /\ \A t \in Tasks : bound[t] # NoActor =>
          bound[t] = Resolved(t) /\ bound[t] \in bundle.actors

Lanes ==
    /\ ~Replaying /\ adapter = "trae" => \A t \in Tasks : bound[t] \in {NoActor, t}
    /\ ~Replaying /\ adapter # "trae" => SlotLanes
    /\ Replaying => RecordedLanes

(* Whoever runs on a lane of Owl's holds its lock. *)
Locks ==
    adapter = "owl" => \A w \in Workers : Begun(w) => lock[bound[task[w]]] = w

(* A terminal says of its task what the lane and the bundle say; and the   *)
(* window of a replay closes on a run without drift, with nothing to claim *)
(* and no call under way.                                                  *)
TerminalsSay ==
    \A u \in terminals :
        /\ bound[u.of] = u.actor
        /\ u.source = SourceNamed(u.of)
        /\ u.status = "failure" => u.error # "none"
        /\ u.error = "MismatchError" => drift

Blame ==
    /\ TerminalsSay
    /\ Replaying /\ sup \in {"stopping", "judged"} => ~drift /\ AllClaimed /\ Answered
    /\ sup = "judged" =>
          Replaying /\ unexpected = {u \in terminals : u.status = "failure" /\ ~Excused(u)}
    /\ sup # "judged" => unexpected = {}

(* Before the gate opens, and if no environment failed, every worker that  *)
(* passed a mark has one task and waits with it.                           *)
AtTheGate ==
    /\ \A w \in Workers : place[w] # "inside" /\ ~Begun(w)
    /\ \A a \in Agents : started[a] = 0 /\ team \in {"off", "gate"}
    /\ Coral /\ team = "off" => gated = {}
    /\ ~Coral =>
          /\ \A w \in Workers : place[w] = "waiting" <=> phase[w] = "gate"
          /\ \A g \in gated : \E w \in Workers :
                phase[w] = "gate" /\ g = <<ProcessOf(w), bound[task[w]]>>
          /\ \A x \in ready : \E w \in Workers : phase[w] = "gate" /\ x = bound[task[w]]

Opening ==
    /\ sup = "continue" \/ launch = "running" => accounted
    /\ sup \in {"attach", "continue", "gather"} => ~gate
    /\ sup \in {"window", "stopping", "judged"} => gate
    /\ ~gate /\ faults = 0 => AtTheGate

(* The first tasks of the queue, one for each worker, have lanes of their  *)
(* own: the recording's gate waited for as many.                           *)
Busy == {w \in Workers : task[w] # NoTask}
First == 1..Cardinality(Workers)

OwnLanes(lanes) ==
    /\ First \subseteq 1..Len(Queue)
    /\ \A i \in First : lanes[Queue[i]] # NoActor
    /\ \A i, j \in First : lanes[Queue[i]] = lanes[Queue[j]] => i = j

FirstTasks ==
    adapter = "mini-swe" /\ faults = 0 =>
        /\ ~gate => /\ Cardinality(Busy) = next
                    /\ \A i \in 1..next : \E w \in Workers : task[w] = Queue[i]
        /\ ~Replaying /\ gate => OwnLanes(bound)
        /\ Replaying => /\ OwnLanes(bundle.lane)
                        /\ \A i \in First : bundle.lane[Queue[i]] \in bundle.actors

(* A marker means a finished invocation, and a pending restart is one the  *)
(* recording had, after its grading.                                       *)
Markers ==
    /\ \A a \in Agents : \A n \in 1 .. 9 : <<a, n>> \in marker => n <= started[a]
    /\ \A a \in Agents : <<a, started[a]>> \in marker =>
          got[a] = RecordedIn(a, started[a]) /\ agent[a] \in {"held", "exited"}
    /\ \A a \in Agents : agent[a] = "asking" => got[a] < RecordedIn(a, started[a])
    /\ \A a \in Agents : resume[a] # "none" =>
          /\ started[a] > 0 /\ <<a, started[a]>> \in marker
          /\ <<a, started[a] + 1>> \in Controls
          /\ GraderRecorded(Trigger[<<a, started[a] + 1>>])

IInv ==
    /\ TypeOK /\ Apart /\ Hands /\ Lanes /\ Locks /\ Blame /\ Opening /\ FirstTasks /\ Markers

-----------------------------------------------------------------------------
(* The kinds of steps *)

CallPhases == {"dispatch", "native", "asleep", "closing"}

(* A step inside a task. *)
CallStep(w) ==
    /\ phase[w] \in CallPhases \cup {"run"}
    /\ \E p \in CallPhases \cup {"run", "held"} : Goto(w, p)
    /\ UNCHANGED <<gateVars, adapter, mode, simulate, next, task, native, bound, lock, tails,
                   terminals, bundle, drift, unexpected, faults>>

(* The end of a task, with a terminal or without. *)
LeaveStep(w) ==
    /\ phase[w] \notin {"free", "gate"}
    /\ Begun(w) \/ sup = "stopping"
    /\ Leave(w)
    /\ \/ UNCHANGED <<terminals, drift>>
       \/ Report(w, "success", "none") /\ UNCHANGED drift
       \/ StartRefused(w)
       \/ Report(w, "failure", "TimeoutError") /\ UNCHANGED drift
    /\ UNCHANGED <<adapter, mode, simulate, next, native, bound, calls, log, cursor, tails,
                   bundle, unexpected, faults>>

LEMMA PoolCases ==
    ASSUME NEW w \in Workers, PoolStep(w)
    PROVE  \/ TakeForeign(w) \/ Take(w) \/ EnvironmentUp(w) \/ EnvironmentFails(w) \/ Enter(w)
           \/ LeaveStep(w) \/ CallStep(w)
<1>1. CASE Finish(w) \/ Interrupted(w) \/ TimesOut(w)
  BY <1>1 DEF Finish, Interrupted, TimesOut, LeaveStep, InHand, Begun
<1>2. CASE StartRefused(w)
  <2>1. phase[w] = "run" /\ Leave(w)
    BY <1>2 DEF StartRefused, Calling, InHand
  <2>2. UNCHANGED <<adapter, mode, simulate, next, native, bound, calls, log, cursor, tails,
                    bundle, unexpected, faults>>
    BY <1>2 DEF StartRefused
  <2> QED BY <1>2, <2>1, <2>2 DEF LeaveStep, Begun
<1>3. CASE StartDispatch(w) \/ StartHeld(w)
  BY <1>3 DEF StartDispatch, StartHeld, CallStep, CallPhases, Calling, InHand
<1>4. CASE StartTool(w) \/ SimulateTool(w) \/ RejectCall(w)
  BY <1>4 DEF StartTool, SimulateTool, RejectCall, CallStep, CallPhases, InHand
<1>5. CASE EndTool(w) \/ EndDispatch(w)
  BY <1>5 DEF EndTool, EndDispatch, CallStep, CallPhases, InHand
<1> QED BY <1>1, <1>2, <1>3, <1>4, <1>5 DEF PoolStep

(* A step of the gate, of the pool, or of a team. *)
LEMMA Cases ==
    ASSUME [Next]_vars
    PROVE  \/ (LauncherStops \/ SweepExits) /\ UNCHANGED <<poolVars, teamVars>>
           \/ (Attach \/ Continue) /\ UNCHANGED <<poolVars, teamVars>>
           \/ (OpenGate(Concurrency) \/ GiveUp(Concurrency)) /\ UNCHANGED <<poolVars, teamVars>>
           \/ (\E w \in Workers : Pass(w)) /\ UNCHANGED <<poolVars, teamVars>>
           \/ ~Coral /\ (CloseWindow \/ RecordBundle \/ Judge) /\ UNCHANGED teamVars
           \/ WindowFails /\ UNCHANGED teamVars
           \/ ~Coral /\ (\E w \in Workers : PoolStep(w)) /\ UNCHANGED teamVars
           \/ Coral /\ CloseTeamWindow
           \/ Coral /\ TeamStep /\ UNCHANGED poolVars
           \/ UNCHANGED vars
BY DEF Next, LaunchStep, GateStep, PoolRun, SuperviseStep, TeamRun

-----------------------------------------------------------------------------
(* Types *)

LEMMA LaneInTasks ==
    ASSUME PoolTypeOK, NEW w \in Workers, NEW t \in Tasks
    PROVE  LaneFor(w, t) \in Tasks /\ ProcessOf(w) \in Processes
<1>1. LaneFor(w, t) \in Tasks
  BY DEF PoolTypeOK, Lane, LaneFor
<1>2. ProcessOf(w) \in Processes
  BY PoolAssumption DEF ProcessOf
<1> QED BY <1>1, <1>2

LEMMA SessionInTasks ==
    ASSUME PoolTypeOK, Hands, NEW w \in Workers, phase[w] # "free"
    PROVE  task[w] \in Tasks /\ bound[task[w]] \in Tasks /\ SessionFor(task[w]) \in Tasks
BY DEF PoolTypeOK, Hands, SessionFor

LEMMA NextTask ==
    ASSUME PoolTypeOK, next < Len(Queue)
    PROVE  /\ next + 1 \in 1..Len(Queue)
           /\ Queue[next + 1] \in Tasks
           /\ ~Taken(Queue[next + 1])
<1>1. Len(Queue) \in Nat /\ next \in 0..Len(Queue)
  BY PoolAssumption DEF PoolTypeOK
<1>2. next + 1 \in 1..Len(Queue) /\ Queue[next + 1] \in Tasks
  BY <1>1, PoolAssumption
<1>3. \A i, j \in DOMAIN Queue : Queue[i] = Queue[j] => i = j
  BY PoolAssumption DEF IsInjective
<1>4. DOMAIN Queue = 1..Len(Queue)
  BY PoolAssumption
<1>5. \A i \in 1..next : i \in DOMAIN Queue /\ i # next + 1
  BY <1>1, <1>4
<1> QED BY <1>2, <1>3, <1>4, <1>5 DEF Taken

LEMMA ArriveTypes ==
    ASSUME GateTypeOK, NEW w \in Workers, NEW p \in Processes, NEW x \in Actors,
           Arrive(w, p, x)
    PROVE  GateTypeOK'
<1>1. gated' \subseteq Processes \X Actors
  BY DEF Arrive, GateKey, GateTypeOK
<1>2. place' \in [Workers -> {"outside", "waiting", "inside"}] /\ ready' \subseteq Actors
  BY DEF Arrive, GateTypeOK
<1> QED BY <1>1, <1>2 DEF Arrive, GateTypeOK

LEMMA GateStepTypes ==
    ASSUME GateTypeOK
    PROVE  /\ LauncherStops \/ SweepExits \/ Attach \/ Continue => GateTypeOK'
           /\ OpenGate(Concurrency) \/ GiveUp(Concurrency) => GateTypeOK'
           /\ \A w \in Workers : Pass(w) => GateTypeOK'
           /\ GateRestart => GateTypeOK'
           /\ UNCHANGED gateVars => GateTypeOK'
<1>1. LauncherStops \/ SweepExits \/ Attach \/ Continue => GateTypeOK'
  BY DEF GateTypeOK, LauncherStops, SweepExits, Attach, Continue
<1>2. OpenGate(Concurrency) \/ GiveUp(Concurrency) => GateTypeOK'
  BY DEF GateTypeOK, OpenGate, GiveUp
<1>3. \A w \in Workers : Pass(w) => GateTypeOK'
  BY DEF GateTypeOK, Pass
<1>4. GateRestart => GateTypeOK'
  BY DEF GateTypeOK, GateRestart
<1>5. UNCHANGED gateVars => GateTypeOK'
  BY DEF GateTypeOK, gateVars
<1> QED BY <1>1, <1>2, <1>3, <1>4, <1>5

LEMMA TakeTypes ==
    ASSUME GateTypeOK, PoolTypeOK, Hands, NEW w \in Workers, Take(w)
    PROVE  GateTypeOK' /\ PoolTypeOK'
<1> DEFINE t == Queue[next + 1]
<1>1. /\ next < Len(Queue) /\ phase[w] = "free"
      /\ next' = next + 1
      /\ task' = [task EXCEPT ![w] = t]
      /\ Bind(w, t)
      /\ \/ Goto(w, "setup") /\ UNCHANGED gateVars
         \/ Goto(w, "gate") /\ Arrive(w, ProcessOf(w), LaneFor(w, t))
      /\ UNCHANGED <<adapter, mode, simulate, lock, calls, log, cursor, tails, terminals,
                     bundle, drift, unexpected, faults>>
  BY DEF Take, Available, InHand
<1>2. t \in Tasks /\ next + 1 \in 1..Len(Queue)
  BY <1>1, NextTask
<1>3. LaneFor(w, t) \in Tasks /\ LaneFor(w, t) \in Actors /\ ProcessOf(w) \in Processes
  BY <1>2, LaneInTasks, PoolAssumption
<1> HIDE DEF t
<1>4. GateTypeOK'
  BY <1>1, <1>3, ArriveTypes, GateStepTypes
<1>5. task' \in [Workers -> Tasks \cup {NoTask}]
  BY <1>1, <1>2 DEF PoolTypeOK
<1>6. phase' \in [Workers -> {"free", "setup", "gate", "run", "dispatch", "native",
                              "asleep", "closing", "held"}]
  BY <1>1 DEF PoolTypeOK, Goto
<1>7. \A v \in Workers : phase'[v] = "free" <=> task'[v] = NoTask
  BY <1>1, <1>2, PoolAssumption DEF PoolTypeOK, Goto
<1>8. native' \in [Workers -> Lane] /\ bound' \in [Tasks -> Lane]
  BY <1>1, <1>3 DEF PoolTypeOK, Lane, Bind
<1> QED BY <1>1, <1>2, <1>4, <1>5, <1>6, <1>7, <1>8 DEF PoolTypeOK

LEMMA EnvironmentTypes ==
    ASSUME GateTypeOK, PoolTypeOK, Hands, NEW w \in Workers,
           TakeForeign(w) \/ EnvironmentUp(w) \/ EnvironmentFails(w)
    PROVE  GateTypeOK' /\ PoolTypeOK'
<1>1. CASE TakeForeign(w)
  <2>1. next' \in 0..Len(Queue)
    BY <1>1, PoolAssumption DEF TakeForeign, Available, PoolTypeOK
  <2>2. GateTypeOK'
    BY <1>1, GateStepTypes DEF TakeForeign
  <2> QED BY <1>1, <2>1, <2>2 DEF TakeForeign, PoolTypeOK
<1>2. CASE EnvironmentUp(w)
  <2>1. /\ phase[w] = "setup" /\ Goto(w, "gate") /\ Arrive(w, ProcessOf(w), bound[task[w]])
        /\ bound[task[w]] \in Tasks /\ ProcessOf(w) \in Processes
        /\ bound[task[w]] \in Actors
    BY <1>2, SessionInTasks, LaneInTasks, PoolAssumption DEF EnvironmentUp, InHand
  <2>2. GateTypeOK'
    BY <2>1, ArriveTypes
  <2>3. /\ phase' \in [Workers -> {"free", "setup", "gate", "run", "dispatch", "native",
                                   "asleep", "closing", "held"}]
        /\ \A v \in Workers : phase'[v] = "free" <=> task'[v] = NoTask
    BY <1>2, <2>1 DEF PoolTypeOK, Goto, EnvironmentUp
  <2> QED BY <1>2, <2>2, <2>3 DEF EnvironmentUp, PoolTypeOK
<1>3. CASE EnvironmentFails(w)
  <2>1. faults' \in 0..MaxFaults
    BY <1>3, PoolAssumption DEF EnvironmentFails, PoolTypeOK
  <2>2. /\ phase' \in [Workers -> {"free", "setup", "gate", "run", "dispatch", "native",
                                   "asleep", "closing", "held"}]
        /\ task' \in [Workers -> Tasks \cup {NoTask}]
        /\ \A v \in Workers : phase'[v] = "free" <=> task'[v] = NoTask
    BY <1>3 DEF PoolTypeOK, Goto, EnvironmentFails
  <2>3. GateTypeOK'
    BY <1>3, GateStepTypes DEF EnvironmentFails
  <2> QED BY <1>3, <2>1, <2>2, <2>3 DEF EnvironmentFails, PoolTypeOK
<1> QED BY <1>1, <1>2, <1>3

LEMMA EnterTypes ==
    ASSUME GateTypeOK, PoolTypeOK, NEW w \in Workers, Enter(w)
    PROVE  GateTypeOK' /\ PoolTypeOK'
<1>1. /\ phase' \in [Workers -> {"free", "setup", "gate", "run", "dispatch", "native",
                                 "asleep", "closing", "held"}]
      /\ \A v \in Workers : phase'[v] = "free" <=> task'[v] = NoTask
  BY DEF PoolTypeOK, Goto, Enter, InHand
<1>2. lock' \in [Tasks -> Workers \cup {"nobody"}]
  BY DEF PoolTypeOK, Enter
<1>3. GateTypeOK'
  BY GateStepTypes DEF Enter
<1> QED BY <1>1, <1>2, <1>3 DEF Enter, PoolTypeOK

LEMMA TerminalTypes ==
    ASSUME PoolTypeOK, Hands, NEW w \in Workers, phase[w] # "free",
           NEW status \in {"success", "failure"},
           NEW error \in {"none", "MismatchError", "TimeoutError"}
    PROVE  Terminal(task[w], status, error) \in
               [of : Tasks, actor : Tasks, source : Tasks \cup {NoTask},
                status : {"success", "failure"},
                error : {"none", "MismatchError", "TimeoutError"}]
<1>1. task[w] \in Tasks /\ bound[task[w]] \in Tasks
  BY SessionInTasks
<1>2. SourceNamed(task[w]) \in Tasks \cup {NoTask}
  BY <1>1 DEF SourceNamed
<1> QED BY <1>1, <1>2 DEF Terminal

LEMMA LeaveTypes ==
    ASSUME GateTypeOK, PoolTypeOK, Hands, NEW w \in Workers, LeaveStep(w)
    PROVE  GateTypeOK' /\ PoolTypeOK'
<1> DEFINE Terminals == [of : Tasks, actor : Tasks, source : Tasks \cup {NoTask},
                         status : {"success", "failure"},
                         error : {"none", "MismatchError", "TimeoutError"}]
<1>1. phase[w] # "free" /\ Leave(w)
  BY DEF LeaveStep
<1>2. /\ Terminal(task[w], "success", "none") \in Terminals
      /\ Terminal(task[w], "failure", "MismatchError") \in Terminals
      /\ Terminal(task[w], "failure", "TimeoutError") \in Terminals
  BY <1>1, TerminalTypes
<1>3. \/ terminals' = terminals
      \/ terminals' = terminals \cup {Terminal(task[w], "success", "none")}
      \/ terminals' = terminals \cup {Terminal(task[w], "failure", "MismatchError")}
      \/ terminals' = terminals \cup {Terminal(task[w], "failure", "TimeoutError")}
  BY DEF LeaveStep, StartRefused, Report
<1>4. terminals' \subseteq Terminals /\ unexpected' \subseteq terminals'
  <2>1. terminals \subseteq Terminals /\ unexpected \subseteq terminals
    BY DEF PoolTypeOK
  <2>2. unexpected' = unexpected
    BY DEF LeaveStep
  <2> HIDE DEF Terminals
  <2> QED BY <1>2, <1>3, <2>1, <2>2
<1>5. drift' \in BOOLEAN
  BY DEF LeaveStep, StartRefused, PoolTypeOK
<1>6. /\ phase' \in [Workers -> {"free", "setup", "gate", "run", "dispatch", "native",
                                 "asleep", "closing", "held"}]
      /\ task' \in [Workers -> Tasks \cup {NoTask}]
      /\ \A v \in Workers : phase'[v] = "free" <=> task'[v] = NoTask
  BY <1>1 DEF PoolTypeOK, Leave, Goto
<1>7. lock' \in [Tasks -> Workers \cup {"nobody"}]
  BY <1>1 DEF PoolTypeOK, Leave
<1>8. GateTypeOK'
  BY <1>1 DEF GateTypeOK, Leave
<1> QED BY <1>4, <1>5, <1>6, <1>7, <1>8 DEF LeaveStep, PoolTypeOK

LEMMA CallTypes ==
    ASSUME GateTypeOK, PoolTypeOK, Hands, NEW w \in Workers, PoolStep(w), CallStep(w)
    PROVE  GateTypeOK' /\ PoolTypeOK'
<1>1. phase[w] # "free" /\ task[w] \in Tasks /\ SessionFor(task[w]) \in Tasks
  BY SessionInTasks DEF CallStep, CallPhases
<1>2. /\ phase' \in [Workers -> {"free", "setup", "gate", "run", "dispatch", "native",
                                 "asleep", "closing", "held"}]
      /\ \A v \in Workers : phase'[v] = "free" <=> task'[v] = NoTask
  BY <1>1 DEF PoolTypeOK, CallStep, CallPhases, Goto
<1>3. /\ calls' \in [Tasks -> Nat] /\ \A t \in Tasks : calls'[t] <= Calls[t]
      /\ log' \in Logs /\ cursor' \in [Tasks -> Nat]
  <2>1. CASE StartDispatch(w)
    BY <1>1, <2>1 DEF StartDispatch, PoolTypeOK
  <2>2. CASE EndDispatch(w)
    <3>1. InCall(w) /\ calls[task[w]] < Calls[task[w]]
      BY <2>2 DEF EndDispatch, InHand, InCall, Hands
    <3>2. calls' = [calls EXCEPT ![task[w]] = @ + 1] /\ cursor' = cursor
      BY <2>2 DEF EndDispatch
    <3>3. calls' \in [Tasks -> Nat] /\ \A t \in Tasks : calls'[t] <= Calls[t]
      <4>1. Calls \in [Tasks -> Nat]
        BY PoolAssumption
      <4>2. calls \in [Tasks -> Nat] /\ \A t \in Tasks : calls[t] <= Calls[t]
        BY DEF PoolTypeOK
      <4> QED BY <1>1, <3>1, <3>2, <4>1, <4>2
    <3>4. log' \in Logs
      <4>1. CASE log' = log
        BY <4>1 DEF PoolTypeOK
      <4>2. CASE log' # log
        <5>1. log' = [log EXCEPT ![SessionFor(task[w])] = Append(@, task[w])]
          BY <2>2, <4>2 DEF EndDispatch
        <5>2. log \in [Tasks -> Seq(Tasks)]
          BY DEF PoolTypeOK, Logs
        <5>3. Append(log[SessionFor(task[w])], task[w]) \in Seq(Tasks)
          BY <1>1, <5>2
        <5> QED BY <1>1, <5>1, <5>2, <5>3 DEF Logs
      <4> QED BY <4>1, <4>2
    <3> QED BY <3>2, <3>3, <3>4 DEF PoolTypeOK
  <2>3. CASE UNCHANGED <<calls, log, cursor>>
    BY <2>3 DEF PoolTypeOK
  <2>4. \/ StartDispatch(w) \/ EndDispatch(w) \/ UNCHANGED <<calls, log, cursor>>
    BY DEF PoolStep, TakeForeign, Take, EnvironmentUp, EnvironmentFails, Enter, Finish,
           Interrupted, StartHeld, StartRefused, TimesOut, StartTool, SimulateTool,
           RejectCall, EndTool
  <2> QED BY <2>1, <2>2, <2>3, <2>4
<1>4. GateTypeOK'
  BY GateStepTypes DEF CallStep
<1> QED BY <1>2, <1>3, <1>4 DEF CallStep, PoolTypeOK

LEMMA PoolStepTypes ==
    ASSUME GateTypeOK, PoolTypeOK, Hands, NEW w \in Workers, PoolStep(w)
    PROVE  GateTypeOK' /\ PoolTypeOK'
BY PoolCases, TakeTypes, EnvironmentTypes, EnterTypes, LeaveTypes, CallTypes

(* What a recording leaves is a bundle. *)
LEMMA RecordTypes ==
    ASSUME GateTypeOK, PoolTypeOK, Blame, RecordBundle
    PROVE  GateTypeOK' /\ PoolTypeOK'
<1>1. GateTypeOK'
  BY GateStepTypes DEF RecordBundle
<1>2. ActorMap \in [Tasks -> Lane]
  BY DEF ActorMap, PoolTypeOK, Lane
<1>3. RecordedActors \subseteq Tasks
  BY DEF RecordedActors, PoolTypeOK, Lane
<1>4. RecordedEnds \subseteq Tasks
  BY DEF RecordedEnds, PoolTypeOK
<1>5. bundle' \in [lane : [Tasks -> Lane], actors : SUBSET Tasks, log : Logs,
                   tails : SUBSET Tasks, ended : SUBSET Tasks]
  BY <1>2, <1>3, <1>4 DEF RecordBundle, PoolTypeOK
<1>6. /\ simulate' \in BOOLEAN /\ mode' \in {"record", "replay"}
      /\ drift' \in BOOLEAN /\ next' \in 0..Len(Queue) /\ faults' \in 0..MaxFaults
      /\ adapter' \in {"owl", "mini-swe", "trae", "coral"}
  <2>1. simulate' \in BOOLEAN /\ mode' \in {"record", "replay"}
    BY DEF RecordBundle
  <2>2. next' = 0 /\ Len(Queue) \in Nat
    BY PoolAssumption DEF RecordBundle
  <2>3. UNCHANGED <<drift, faults, adapter>>
    BY DEF RecordBundle
  <2> QED BY <2>1, <2>2, <2>3 DEF PoolTypeOK
<1>7. /\ task' \in [Workers -> Tasks \cup {NoTask}]
      /\ phase' \in [Workers -> {"free", "setup", "gate", "run", "dispatch", "native",
                                 "asleep", "closing", "held"}]
      /\ \A w \in Workers : phase'[w] = "free" <=> task'[w] = NoTask
      /\ native' \in [Workers -> Lane]
  BY DEF RecordBundle, Lane
<1>8. /\ bound' \in [Tasks -> Lane]
      /\ lock' \in [Tasks -> Workers \cup {"nobody"}]
      /\ calls' \in [Tasks -> Nat] /\ \A t \in Tasks : calls'[t] <= Calls[t]
      /\ cursor' \in [Tasks -> Nat] /\ tails' \subseteq Tasks
  BY PoolAssumption DEF RecordBundle, Lane, NoLanes
<1>9. log' \in Logs
  BY DEF RecordBundle, NoLog, Logs
<1>10. /\ terminals' \subseteq [of : Tasks, actor : Tasks, source : Tasks \cup {NoTask},
                                status : {"success", "failure"},
                                error : {"none", "MismatchError", "TimeoutError"}]
       /\ unexpected' \subseteq terminals'
  BY DEF RecordBundle, Blame
<1> QED BY <1>1, <1>5, <1>6, <1>7, <1>8, <1>9, <1>10 DEF PoolTypeOK

LEMMA SuperviseTypes ==
    ASSUME GateTypeOK, PoolTypeOK, Hands, CloseWindow \/ Judge \/ WindowFails
    PROVE  GateTypeOK' /\ PoolTypeOK'
<1>1. CASE CloseWindow
  <2>1. tails' \subseteq Tasks
    <3>1. \A w \in Workers : InCall(w) => SessionFor(task[w]) \in Tasks
      BY SessionInTasks DEF InCall
    <3> QED BY <1>1, <3>1 DEF CloseWindow
  <2>2. GateTypeOK'
    BY <1>1 DEF CloseWindow, GateTypeOK
  <2> QED BY <1>1, <2>1, <2>2 DEF CloseWindow, PoolTypeOK
<1>2. CASE Judge
  <2>1. GateTypeOK' /\ unexpected' \subseteq terminals
    BY <1>2 DEF Judge, GateTypeOK
  <2> QED BY <1>2, <2>1 DEF Judge, PoolTypeOK
<1>3. CASE WindowFails
  <2>1. GateTypeOK'
    BY <1>3 DEF WindowFails, GateTypeOK
  <2> QED BY <1>3, <2>1 DEF WindowFails, poolVars, PoolTypeOK
<1> QED BY <1>1, <1>2, <1>3

-----------------------------------------------------------------------------
(* The team: types and markers *)

LEMMA TeamGateTypes ==
    ASSUME GateTypeOK, TeamStep PROVE GateTypeOK'
<1>1. CASE ManagerArrives
  BY <1>1, ArriveTypes, TeamAssumption DEF ManagerArrives
<1>2. CASE UNCHANGED gateVars
  BY <1>2, GateStepTypes
<1> QED BY <1>1, <1>2
        DEF TeamStep, StartFails, Monitor, TeamEnds, MonitorInterrupted, StartAgent, Ask, Answer,
            AskPastEnd, Exit, Control, Resume, RestartExited, Submit, Graded, StartGrading,
            WriteGrade, RecordGrade, Notice

(* The invocations a team can be in. *)
LEMMA RecordedInFacts ==
    ASSUME NEW a \in Agents, NEW n \in Nat
    PROVE  /\ RecordedIn(a, n) \in Nat
           /\ RecordedIn(a, n) > 0 => <<a, n>> \in Invocations
<1>1. /\ Recorded[a] \in Seq(Nat \ {0})
      /\ Len(Recorded[a]) \in 1 .. 9
  BY TeamAssumption
<1>2. \A i \in 1..Len(Recorded[a]) : Recorded[a][i] \in Nat
  BY <1>1
<1>3. ASSUME n \in 1..Len(Recorded[a]) PROVE <<a, n>> \in Invocations
  <2>1. n \in 1 .. 9 /\ n <= Len(Recorded[a])
    <3>1. \A k \in 1 .. 9 : n \in 1 .. k => n \in 1 .. 9 /\ n <= k
      OBVIOUS
    <3> QED BY <1>1, <1>3, <3>1
  <2>2. <<a, n>> \in Agents \X (1 .. 9)
    BY <2>1
  <2> QED BY <2>1, <2>2 DEF Invocations
<1> QED BY <1>2, <1>3 DEF RecordedIn

LEMMA AgentTyping ==
    ASSUME TeamTypeOK, NEW a \in Agents
    PROVE  /\ started[a] \in Nat /\ got[a] \in Nat
           /\ RecordedIn(a, started[a]) \in Nat /\ RecordedIn(a, started[a] + 1) \in Nat
           /\ got[a] <= RecordedIn(a, started[a])
           /\ <<a, started[a]>> \in marker => started[a] \in 1 .. 9
           /\ <<a, started[a] + 1>> \in marker => started[a] + 1 \in 1 .. 9
<1>1. /\ started \in [Agents -> Nat] /\ got \in [Agents -> Nat]
      /\ got[a] <= RecordedIn(a, started[a])
      /\ marker \subseteq Invocations
  BY DEF TeamTypeOK
<1>2. started[a] \in Nat /\ started[a] + 1 \in Nat /\ got[a] \in Nat
  BY <1>1
<1>3. RecordedIn(a, started[a]) \in Nat /\ RecordedIn(a, started[a] + 1) \in Nat
  BY <1>2, RecordedInFacts
<1>4. \A n : <<a, n>> \in marker => n \in 1 .. 9
  BY <1>1 DEF Invocations
<1> QED BY <1>1, <1>2, <1>3, <1>4

(* An agent that starts again leaves the old invocation's facts behind.    *)
LEMMA StartsAnew ==
    ASSUME TeamTypeOK, Markers, NEW a \in Agents, StartInvocation(a),
           UNCHANGED <<team, marker, attempt, seen, noticed, ended>>,
           \/ UNCHANGED resume /\ resume[a] = "none"
           \/ resume' = [resume EXCEPT ![a] = "none"]
    PROVE  TeamTypeOK' /\ Markers'
<1>1. /\ started' = [started EXCEPT ![a] = @ + 1]
      /\ agent' = [agent EXCEPT ![a] = "idle"]
      /\ got' = [got EXCEPT ![a] = 0]
  BY DEF StartInvocation
<1>2. started[a] \in Nat /\ RecordedIn(a, started[a] + 1) \in Nat
  BY AgentTyping
<1>3. /\ started'[a] = started[a] + 1 /\ got'[a] = 0
      /\ \A b \in Agents \ {a} : started'[b] = started[b] /\ got'[b] = got[b]
      /\ started' \in [Agents -> Nat] /\ got' \in [Agents -> Nat]
  <2>1. started \in [Agents -> Nat] /\ got \in [Agents -> Nat]
    BY DEF TeamTypeOK
  <2>2. started[a] + 1 \in Nat
    BY <1>2
  <2>3. started' \in [Agents -> Nat] /\ got' \in [Agents -> Nat]
    BY <1>1, <2>1, <2>2
  <2>4. /\ started'[a] = started[a] + 1
        /\ \A b \in Agents \ {a} : started'[b] = started[b]
    BY <1>1, <2>1
  <2>5. got'[a] = 0 /\ \A b \in Agents \ {a} : got'[b] = got[b]
    BY <1>1, <2>1
  <2> QED BY <2>3, <2>4, <2>5
<1>4. /\ agent'[a] = "idle" /\ resume'[a] = "none"
      /\ \A b \in Agents \ {a} : agent'[b] = agent[b] /\ resume'[b] = resume[b]
      /\ agent' \in [Agents -> {"off", "idle", "asking", "held", "exited"}]
      /\ resume' \in [Agents -> {"none", "at turn end", "now"}]
  <2>1. /\ agent'[a] = "idle" /\ \A b \in Agents \ {a} : agent'[b] = agent[b]
        /\ agent' \in [Agents -> {"off", "idle", "asking", "held", "exited"}]
    BY <1>1 DEF TeamTypeOK
  <2>2. resume \in [Agents -> {"none", "at turn end", "now"}]
    BY DEF TeamTypeOK
  <2>3. CASE resume' = resume /\ resume[a] = "none"
    BY <2>1, <2>2, <2>3
  <2>4. CASE resume' = [resume EXCEPT ![a] = "none"]
    BY <2>1, <2>2, <2>4
  <2> QED BY <2>3, <2>4
<1>5. TeamTypeOK'
  <2>1. \A b \in Agents : got'[b] <= RecordedIn(b, started'[b])
    <3> TAKE b \in Agents
    <3>1. CASE b = a
      BY <1>2, <1>3, <3>1
    <3>2. CASE b # a
      BY <1>3, <3>2, AgentTyping
    <3> QED BY <3>1, <3>2
  <2> QED BY <1>3, <1>4, <2>1 DEF TeamTypeOK
<1>6. \A b \in Agents : \A n \in 1 .. 9 : <<b, n>> \in marker => n <= started'[b]
  <2> TAKE b \in Agents
  <2> TAKE n \in 1 .. 9
  <2>1. <<b, n>> \in marker => n <= started[b]
    BY DEF Markers
  <2>2. started[b] \in Nat /\ started'[b] \in {started[b], started[b] + 1}
    BY <1>3, AgentTyping
  <2> QED BY <2>1, <2>2
<1>7. <<a, started'[a]>> \notin marker
  <2>1. <<a, started[a] + 1>> \in marker => started[a] + 1 <= started[a]
    BY AgentTyping DEF Markers
  <2> QED BY <1>2, <1>3, <2>1
<1>8. \A b \in Agents :
         /\ <<b, started'[b]>> \in marker' =>
               got'[b] = RecordedIn(b, started'[b]) /\ agent'[b] \in {"held", "exited"}
         /\ agent'[b] = "asking" => got'[b] < RecordedIn(b, started'[b])
         /\ resume'[b] # "none" =>
               /\ started'[b] > 0 /\ <<b, started'[b]>> \in marker'
               /\ <<b, started'[b] + 1>> \in Controls
               /\ GraderRecorded(Trigger[<<b, started[b] + 1>>])'
  <2> TAKE b \in Agents
  <2>1. CASE b = a
    BY <1>4, <1>7, <2>1
  <2>2. CASE b # a
    <3>1. /\ <<b, started[b]>> \in marker =>
                 got[b] = RecordedIn(b, started[b]) /\ agent[b] \in {"held", "exited"}
          /\ agent[b] = "asking" => got[b] < RecordedIn(b, started[b])
          /\ resume[b] # "none" =>
                 /\ started[b] > 0 /\ <<b, started[b]>> \in marker
                 /\ <<b, started[b] + 1>> \in Controls
                 /\ GraderRecorded(Trigger[<<b, started[b] + 1>>])
      BY DEF Markers
    <3>2. \A g : GraderRecorded(g)' <=> GraderRecorded(g)
      BY DEF GraderRecorded
    <3>3. /\ started'[b] = started[b] /\ got'[b] = got[b] /\ agent'[b] = agent[b]
          /\ resume'[b] = resume[b] /\ marker' = marker
      BY <1>3, <1>4, <2>2
    <3>4. \A n : <<b, n>> \in marker' <=> <<b, n>> \in marker
      BY <3>3
    <3>5. GraderRecorded(Trigger[<<b, started[b] + 1>>])'
            <=> GraderRecorded(Trigger[<<b, started[b] + 1>>])
      BY <3>2, <3>3
    <3> QED BY <3>1, <3>3, <3>4, <3>5
  <2> QED BY <2>1, <2>2
<1>9. marker' = marker
  OBVIOUS
<1>10. Markers'
  BY <1>6, <1>8, <1>9, Zenon DEF Markers
<1> QED BY <1>5, <1>10

(* Gradings go forward: what is in the ledger stays there. *)
LEMMA GradingStep ==
    ASSUME TeamTypeOK, Markers, NEW g \in Attempts,
           Submit(g) \/ StartGrading(g) \/ WriteGrade(g) \/ RecordGrade(g) \/ Notice(g)
    PROVE  TeamTypeOK' /\ Markers'
<1>1. /\ attempt[g] # "recorded" \/ UNCHANGED attempt
      /\ \/ UNCHANGED attempt
         \/ \E to \in {"pending", "grading", "graded", "recorded"} :
               attempt' = [attempt EXCEPT ![g] = to]
      /\ UNCHANGED <<team, started, agent, got, marker, seen, ended, resume>>
      /\ noticed' \subseteq noticed \cup {g}
  BY DEF Submit, StartGrading, WriteGrade, RecordGrade, Notice, Graded, Due, ScheduleInterrupt
<1>2. TeamTypeOK'
  BY <1>1 DEF TeamTypeOK
<1>3. \A h \in Attempts : attempt[h] = "recorded" => attempt'[h] = "recorded"
  BY <1>1 DEF TeamTypeOK
<1>4. \A h \in Attempts \cup {NoTrigger} : GraderRecorded(h) => GraderRecorded(h)'
  BY <1>3, TeamAssumption DEF GraderRecorded
<1>5. \A x \in Controls : Trigger[x] \in Attempts \cup {NoTrigger}
  BY TeamAssumption DEF Controls
<1> QED BY <1>1, <1>2, <1>4, <1>5 DEF Markers

(* A request, its answer, and what comes after the last one. *)
LEMMA RequestStep ==
    ASSUME TeamTypeOK, Markers, NEW a \in Agents,
           Ask(a) \/ Answer(a) \/ AskPastEnd(a) \/ Exit(a)
    PROVE  TeamTypeOK' /\ Markers'
<1>1. started[a] \in Nat /\ got[a] \in Nat /\ got[a] <= RecordedIn(a, started[a])
      /\ RecordedIn(a, started[a]) \in Nat
  BY AgentTyping
<1>2. /\ agent[a] \in {"idle", "asking"}
      /\ \E s \in {"asking", "idle", "held", "exited"} : agent' = [agent EXCEPT ![a] = s]
      /\ UNCHANGED <<team, started, attempt, seen, noticed, resume, ended>>
  BY DEF Ask, Answer, AskPastEnd, Exit, Idle
<1>3. <<a, started[a]>> \notin marker /\ resume[a] = "none"
  BY <1>2 DEF Markers
<1>4. \A b \in Agents \ {a} : agent'[b] = agent[b]
  BY <1>2 DEF TeamTypeOK
<1>5. agent' \in [Agents -> {"off", "idle", "asking", "held", "exited"}]
  BY <1>2 DEF TeamTypeOK
<1>6. CASE Answer(a)
  <2>1. /\ got' = [got EXCEPT ![a] = @ + 1] /\ UNCHANGED marker
        /\ got[a] < RecordedIn(a, started[a])
    BY <1>6 DEF Answer, Markers
  <2>2. /\ got' \in [Agents -> Nat] /\ got'[a] = got[a] + 1
        /\ \A b \in Agents \ {a} : got'[b] = got[b]
    <3>1. got \in [Agents -> Nat]
      BY DEF TeamTypeOK
    <3> QED BY <1>1, <2>1, <3>1
  <2>3. agent'[a] = "idle"
    BY <1>6 DEF Answer, TeamTypeOK
  <2>4. \A b \in Agents : got'[b] <= RecordedIn(b, started'[b])
    <3> TAKE b \in Agents
    <3>1. CASE b = a
      BY <1>1, <1>2, <2>1, <2>2, <3>1
    <3>2. CASE b # a
      BY <1>2, <2>2, <3>2, AgentTyping
    <3> QED BY <3>1, <3>2
  <2>5. TeamTypeOK'
    BY <1>2, <1>5, <2>1, <2>2, <2>4 DEF TeamTypeOK
  <2> QED BY <1>2, <1>3, <1>4, <2>1, <2>2, <2>3, <2>5 DEF Markers, GraderRecorded
<1>7. CASE Ask(a)
  <2>1. UNCHANGED <<got, marker>> /\ got[a] < RecordedIn(a, started[a])
    BY <1>7 DEF Ask
  <2>2. TeamTypeOK'
    BY <1>2, <1>5, <2>1 DEF TeamTypeOK
  <2> QED BY <1>2, <1>3, <1>4, <2>1, <2>2 DEF Markers, GraderRecorded
<1>8. CASE Exit(a)
  <2>1. UNCHANGED <<got, marker>> /\ agent'[a] = "exited"
    BY <1>8 DEF Exit, TeamTypeOK
  <2>2. TeamTypeOK'
    BY <1>2, <1>5, <2>1 DEF TeamTypeOK
  <2> QED BY <1>2, <1>3, <1>4, <2>1, <2>2 DEF Markers, GraderRecorded
<1>9. CASE AskPastEnd(a)
  <2>1. /\ UNCHANGED got /\ agent'[a] = "held" /\ got[a] = RecordedIn(a, started[a])
        /\ \/ marker' = marker
           \/ marker' = marker \cup {<<a, started[a]>>} /\ got[a] > 0
    BY <1>9 DEF AskPastEnd, TeamTypeOK
  <2>2. marker' \subseteq Invocations
    BY <1>1, <2>1, RecordedInFacts DEF TeamTypeOK
  <2>3. TeamTypeOK'
    BY <1>2, <1>5, <2>1, <2>2 DEF TeamTypeOK
  <2>4. \A b \in Agents : \A n \in 1 .. 9 : <<b, n>> \in marker' => n <= started'[b]
    <3> TAKE b \in Agents
    <3> TAKE n \in 1 .. 9
    <3>1. <<b, n>> \in marker => n <= started[b]
      BY DEF Markers
    <3>2. <<b, n>> \in marker' => <<b, n>> \in marker \/ (b = a /\ n = started[a])
      BY <2>1
    <3> QED BY <1>1, <1>2, <3>1, <3>2
  <2>5. \A b \in Agents :
           /\ <<b, started[b]>> \in marker' =>
                 got[b] = RecordedIn(b, started[b]) /\ agent'[b] \in {"held", "exited"}
           /\ agent'[b] = "asking" => got[b] < RecordedIn(b, started[b])
           /\ resume[b] # "none" =>
                 /\ started[b] > 0 /\ <<b, started[b]>> \in marker'
                 /\ <<b, started[b] + 1>> \in Controls
                 /\ GraderRecorded(Trigger[<<b, started[b] + 1>>])
    <3> TAKE b \in Agents
    <3>1. CASE b = a
      BY <1>3, <2>1, <3>1
    <3>2. CASE b # a
      <4>1. <<b, started[b]>> \in marker' <=> <<b, started[b]>> \in marker
        BY <2>1, <3>2
      <4>2. agent'[b] = agent[b]
        BY <1>4, <3>2
      <4> QED BY <4>1, <4>2 DEF Markers
    <3> QED BY <3>1, <3>2
  <2>6. \A g : GraderRecorded(g)' <=> GraderRecorded(g)
    BY <1>2 DEF GraderRecorded
  <2> QED BY <1>2, <2>1, <2>3, <2>4, <2>5, <2>6 DEF Markers
<1> QED BY <1>6, <1>7, <1>8, <1>9

LEMMA ManagerStep ==
    ASSUME TeamTypeOK, Markers,
           ManagerArrives \/ StartFails \/ Monitor \/ TeamEnds \/ MonitorInterrupted
    PROVE  TeamTypeOK' /\ Markers'
<1>1. /\ UNCHANGED <<started, got, marker, attempt, noticed, resume>>
      /\ agent' = agent \/ agent' = [a \in Agents |-> "exited"]
  BY DEF ManagerArrives, StartFails, Monitor, TeamEnds, MonitorInterrupted
<1>2. TeamTypeOK'
  BY <1>1 DEF TeamTypeOK, ManagerArrives, StartFails, Monitor, TeamEnds, MonitorInterrupted
<1>3. \A a \in Agents :
         agent'[a] = agent[a] \/ agent'[a] = "exited"
  BY <1>1
<1> QED BY <1>1, <1>2, <1>3 DEF Markers, GraderRecorded

LEMMA TeamStepInv ==
    ASSUME TeamTypeOK, Markers, TeamStep PROVE TeamTypeOK' /\ Markers'
<1>1. ASSUME NEW a \in Agents, StartAgent(a) PROVE TeamTypeOK' /\ Markers'
  <2>1. resume[a] # "none" => started[a] > 0
    BY DEF Markers
  <2>2. resume[a] = "none"
    BY <1>1, <2>1 DEF StartAgent
  <2> QED BY <1>1, <2>2, StartsAnew DEF StartAgent
<1>2. ASSUME NEW a \in Agents, Resume(a) \/ RestartExited(a) PROVE TeamTypeOK' /\ Markers'
  BY <1>2, StartsAnew DEF Resume, RestartExited
<1>3. ASSUME NEW a \in Agents, Control(a) PROVE TeamTypeOK' /\ Markers'
  <2>1. /\ started[a] > 0 /\ <<a, started[a]>> \in marker
        /\ <<a, started[a] + 1>> \in Controls
        /\ GraderRecorded(Trigger[<<a, started[a] + 1>>])
        /\ resume' = [resume EXCEPT ![a] = "now"]
        /\ UNCHANGED <<team, started, agent, got, marker, attempt, seen, noticed, ended>>
    BY <1>3 DEF Control, Restartable, ScheduleInterrupt
  <2>2. TeamTypeOK'
    BY <2>1 DEF TeamTypeOK
  <2>3. \A b \in Agents \ {a} : resume'[b] = resume[b]
    BY <2>1 DEF TeamTypeOK
  <2> QED BY <2>1, <2>2, <2>3 DEF Markers, GraderRecorded
<1> QED BY <1>1, <1>2, <1>3, ManagerStep, RequestStep, GradingStep DEF TeamStep

-----------------------------------------------------------------------------
(* Hands *)

LEMMA TakenGrows ==
    ASSUME PoolTypeOK, next' = next + 1
    PROVE  \A t : Taken(t)' <=> Taken(t) \/ t = Queue[next + 1]
<1>1. next \in Nat
  BY PoolAssumption DEF PoolTypeOK
<1>2. \A i : i \in 1..(next + 1) <=> i \in 1..next \/ i = next + 1
  BY <1>1
<1> QED BY <1>2 DEF Taken

(* A worker without a task takes the next one, which nobody had before. *)
Takes(w, t) ==
    /\ t = Queue[next + 1] /\ next < Len(Queue) /\ next' = next + 1
    /\ ~Taken(t) /\ bound[t] = NoActor
    /\ phase[w] = "free" /\ phase'[w] \in {"setup", "gate"} /\ task'[w] = t
    /\ \A v \in Workers \ {w} :
          task'[v] = task[v] /\ phase'[v] = phase[v] /\ native'[v] = native[v]
    /\ \A v \in Workers : phase[v] # "free" => task[v] # t
    /\ LaneFor(w, t) \in Tasks /\ bound'[t] = LaneFor(w, t)
    /\ \A u \in Tasks \ {t} : bound'[u] = bound[u]

LEMMA TakeFacts ==
    ASSUME PoolTypeOK, Hands, NEW w \in Workers, Take(w)
    PROVE  \E t \in Tasks : Takes(w, t)
<1> DEFINE t == Queue[next + 1]
<1>1. /\ next < Len(Queue) /\ phase[w] = "free" /\ next' = next + 1
      /\ task' = [task EXCEPT ![w] = t]
      /\ bound' = [bound EXCEPT ![t] = LaneFor(w, t)]
      /\ phase' = [phase EXCEPT ![w] = "setup"] \/ phase' = [phase EXCEPT ![w] = "gate"]
      /\ native' = native \/ native' = [native EXCEPT ![w] = LaneFor(w, t)]
  BY DEF Take, Available, InHand, Goto, Bind
<1>2. t \in Tasks /\ ~Taken(t)
  BY <1>1, NextTask
<1>3. bound[t] = NoActor /\ \A v \in Workers : phase[v] # "free" => task[v] # t
  BY <1>2 DEF Hands
<1>4. LaneFor(w, t) \in Tasks
  BY <1>2, LaneInTasks
<1> HIDE DEF t
<1>5. /\ phase'[w] \in {"setup", "gate"} /\ task'[w] = t /\ bound'[t] = LaneFor(w, t)
      /\ \A v \in Workers \ {w} :
            task'[v] = task[v] /\ phase'[v] = phase[v] /\ native'[v] = native[v]
      /\ \A u \in Tasks \ {t} : bound'[u] = bound[u]
  BY <1>1, <1>2 DEF PoolTypeOK
<1> QED BY <1>1, <1>2, <1>3, <1>4, <1>5 DEF t, Takes

(* The other steps of a worker end its task or stay in it. *)
LEMMA StayFacts ==
    ASSUME PoolTypeOK, NEW w \in Workers,
           EnvironmentUp(w) \/ EnvironmentFails(w) \/ Enter(w) \/ LeaveStep(w) \/ CallStep(w)
    PROVE  /\ UNCHANGED <<next, bound, native, adapter, mode, bundle>>
           /\ phase[w] # "free"
           /\ \A v \in Workers \ {w} : task'[v] = task[v] /\ phase'[v] = phase[v]
           /\ phase'[w] = "free" \/ UNCHANGED task
           /\ phase'[w] # "setup"
<1>1. CASE EnvironmentUp(w)
  BY <1>1 DEF EnvironmentUp, InHand, Goto, PoolTypeOK
<1>2. CASE EnvironmentFails(w)
  BY <1>2 DEF EnvironmentFails, InHand, Goto, PoolTypeOK
<1>3. CASE Enter(w)
  BY <1>3 DEF Enter, InHand, Goto, PoolTypeOK
<1>4. CASE LeaveStep(w)
  BY <1>4 DEF LeaveStep, Leave, Goto, PoolTypeOK
<1>5. CASE CallStep(w)
  BY <1>5 DEF CallStep, CallPhases, Goto, PoolTypeOK
<1> QED BY <1>1, <1>2, <1>3, <1>4, <1>5

(* A call begins before the last one and ends as it began. *)
LEMMA CallCounts ==
    ASSUME PoolTypeOK, Hands, NEW w \in Workers, PoolStep(w), CallStep(w)
    PROVE  /\ InCall(w)' => calls'[task[w]] < Calls[task[w]]
           /\ \A t \in Tasks : t # task[w] => calls'[t] = calls[t]
<1>1. CASE StartDispatch(w)
  BY <1>1 DEF StartDispatch, Calling
<1>2. CASE StartHeld(w)
  BY <1>2 DEF StartHeld, Goto, InCall, PoolTypeOK
<1>3. CASE EndDispatch(w)
  BY <1>3 DEF EndDispatch, Goto, InCall, PoolTypeOK
<1>4. CASE StartTool(w) \/ SimulateTool(w) \/ RejectCall(w) \/ EndTool(w)
  BY <1>4 DEF StartTool, SimulateTool, RejectCall, EndTool, InHand, InCall, Hands
<1>5. \/ StartDispatch(w) \/ StartHeld(w) \/ EndDispatch(w)
      \/ StartTool(w) \/ SimulateTool(w) \/ RejectCall(w) \/ EndTool(w)
  <2>1. phase'[w] \in CallPhases \cup {"run", "held"} /\ phase[w] \in CallPhases \cup {"run"}
        /\ task' = task
    BY DEF CallStep, Goto, PoolTypeOK, CallPhases
  <2> QED BY <2>1 DEF PoolStep, CallPhases, TakeForeign, Take, EnvironmentUp, EnvironmentFails,
           Available, InHand, Enter, Finish, Interrupted, StartRefused, TimesOut, Leave, Goto,
           PoolTypeOK
<1> QED BY <1>1, <1>2, <1>3, <1>4, <1>5

LEMMA HandsStep ==
    ASSUME PoolTypeOK, Hands, NEW w \in Workers, PoolStep(w)
    PROVE  Hands'
<1>1. CASE TakeForeign(w)
  <2>1. UNCHANGED <<phase, task, bound, calls>> /\ next' = next + 1
    BY <1>1 DEF TakeForeign
  <2> QED BY <2>1, TakenGrows DEF Hands, InCall
<1>2. CASE Take(w)
  <2>1. PICK t \in Tasks : Takes(w, t)
    BY <1>2, TakeFacts
  <2>2. \A u : Taken(u)' <=> Taken(u) \/ u = t
    BY <2>1, TakenGrows DEF Takes
  <2>3. calls' = calls
    BY <1>2 DEF Take
  <2>4. \A v \in Workers : phase[v] # "free" => task[v] \in Tasks
    BY DEF PoolTypeOK
  <2>5. \A v \in Workers : phase'[v] # "free" => Taken(task[v])' /\ bound'[task'[v]] \in Tasks
    BY <2>1, <2>2, <2>4 DEF Hands, Takes
  <2>6. \A u \in Tasks : bound'[u] # NoActor => Taken(u)'
    BY <2>1, <2>2 DEF Hands, Takes
  <2>7. \A v, x \in Workers : v # x /\ phase'[v] # "free" => task'[v] # task'[x]
    <3>1. \A v, x \in Workers : v # x /\ phase[v] # "free" => task[v] # task[x]
      BY DEF Hands
    <3>2. \A x \in Workers : task[x] # t
      BY <2>1, PoolAssumption DEF PoolTypeOK, Takes
    <3> QED BY <2>1, <3>1, <3>2 DEF Takes
  <2>8. \A v \in Workers : InCall(v)' => calls'[task'[v]] < Calls[task'[v]]
    <3>1. \A v \in Workers : InCall(v)' => InCall(v) /\ v # w
      BY <2>1 DEF InCall, Takes
    <3> QED BY <2>1, <2>3, <3>1 DEF Hands, Takes
  <2> QED BY <2>5, <2>6, <2>7, <2>8 DEF Hands
<1>3. CASE EnvironmentUp(w) \/ EnvironmentFails(w) \/ Enter(w) \/ LeaveStep(w) \/ CallStep(w)
  <2>1. /\ UNCHANGED <<next, bound, native, adapter, mode, bundle>>
        /\ phase[w] # "free"
        /\ \A v \in Workers \ {w} : task'[v] = task[v] /\ phase'[v] = phase[v]
        /\ phase'[w] = "free" \/ UNCHANGED task
    BY <1>3, StayFacts
  <2>2. \A v \in Workers : phase'[v] # "free" => phase[v] # "free" /\ task'[v] = task[v]
    BY <2>1
  <2>3. \A u : Taken(u)' <=> Taken(u)
    BY <2>1 DEF Taken
  <2>4. \A v \in Workers : InCall(v)' => calls'[task'[v]] < Calls[task'[v]]
    <3>1. CASE CallStep(w)
      <4>1. /\ InCall(w)' => calls'[task[w]] < Calls[task[w]]
            /\ \A t \in Tasks : t # task[w] => calls'[t] = calls[t]
        BY <3>1, CallCounts
      <4>2. \A v \in Workers \ {w} : InCall(v)' =>
                InCall(v) /\ task[v] \in Tasks /\ task[v] # task[w]
        BY <2>1 DEF InCall, PoolTypeOK, Hands
      <4>3. task' = task
        BY <3>1 DEF CallStep
      <4> QED BY <4>1, <4>2, <4>3 DEF Hands
    <3>2. CASE ~CallStep(w)
      <4>1. calls' = calls
        BY <1>3, <3>2 DEF EnvironmentUp, EnvironmentFails, Enter, LeaveStep
      <4>2. ~InCall(w)'
        BY <1>3, <3>2
           DEF EnvironmentUp, EnvironmentFails, Enter, LeaveStep, Leave, Goto, InCall, PoolTypeOK
      <4>3. \A v \in Workers \ {w} : InCall(v)' => InCall(v) /\ task'[v] = task[v]
        BY <2>1 DEF InCall
      <4> SUFFICES ASSUME NEW v \in Workers, InCall(v)'
                   PROVE  calls'[task'[v]] < Calls[task'[v]]
        OBVIOUS
      <4>4. v # w
        BY <4>2
      <4>5. InCall(v) /\ task'[v] = task[v]
        BY <4>3, <4>4
      <4> QED BY <4>1, <4>5 DEF Hands
    <3> QED BY <3>1, <3>2
  <2>5. \A v \in Workers : phase'[v] # "free" => Taken(task[v])' /\ bound'[task'[v]] \in Tasks
    BY <2>1, <2>2, <2>3 DEF Hands
  <2>6. \A u \in Tasks : bound'[u] # NoActor => Taken(u)'
    BY <2>1, <2>3 DEF Hands
  <2>7. \A v, x \in Workers : v # x /\ phase'[v] # "free" => task'[v] # task'[x]
    <3>1. \A v, x \in Workers : v # x /\ phase[v] # "free" => task[v] # task[x]
      BY DEF Hands
    <3>2. \A x \in Workers : task'[x] = task[x] \/ task'[x] = NoTask
      <4>1. task' = task \/ task' = [task EXCEPT ![w] = NoTask]
        BY <1>3 DEF EnvironmentUp, EnvironmentFails, Enter, LeaveStep, Leave, CallStep
      <4> QED BY <4>1 DEF PoolTypeOK
    <3>3. \A v \in Workers : phase[v] # "free" => task[v] # NoTask
      BY DEF PoolTypeOK
    <3> QED BY <2>2, <3>1, <3>2, <3>3
  <2> QED BY <2>4, <2>5, <2>6, <2>7 DEF Hands
<1> QED BY <1>1, <1>2, <1>3, PoolCases

-----------------------------------------------------------------------------
(* Lanes *)

LEMMA SlotLanesTake ==
    ASSUME PoolTypeOK, Hands, SlotLanes, ~Replaying, adapter # "trae",
           NEW w \in Workers, Take(w)
    PROVE  SlotLanes'
<1>1. PICK t \in Tasks : Takes(w, t)
  BY TakeFacts
<1>2. native' = [native EXCEPT ![w] = LaneFor(w, t)]
  BY <1>1 DEF Take, Bind, Takes
<1>3. /\ native'[w] = LaneFor(w, t)
      /\ native \in [Workers -> Lane]
      /\ \A v \in Workers : native[v] # NoActor => native[v] \in Tasks
  BY <1>2 DEF PoolTypeOK, Lane
<1>4. /\ native[w] = NoActor => LaneFor(w, t) = t
      /\ native[w] # NoActor => LaneFor(w, t) = native[w]
  BY DEF LaneFor
<1>5. \A v \in Workers : native[v] # NoActor => native[v] # t
  BY <1>1, <1>3, PoolAssumption DEF SlotLanes, Takes
<1>6. \A u \in Tasks : bound[u] # NoActor =>
          /\ u # t /\ bound[u] \in Tasks /\ bound[u] # t
          /\ bound'[u] = bound[u] /\ bound'[bound[u]] = bound[u]
  BY <1>1 DEF SlotLanes, Takes, PoolTypeOK, Lane
<1>7. t # NoActor /\ bound'[t] = LaneFor(w, t)
  BY <1>1, PoolAssumption DEF Takes
<1>8. \A v \in Workers \ {w} : native'[v] = native[v]
  BY <1>1 DEF Takes
<1>9. \A v \in Workers : native[v] # NoActor => bound'[native[v]] = native[v]
  BY <1>1, <1>3, <1>5 DEF SlotLanes, Takes
<1>10. bound'[LaneFor(w, t)] = LaneFor(w, t)
  BY <1>4, <1>7, <1>9
<1>11. \A u \in Tasks : bound'[u] # NoActor => bound'[bound'[u]] = bound'[u]
  <2> TAKE u \in Tasks
  <2>1. CASE u = t
    BY <1>7, <1>10, <2>1
  <2>2. CASE u # t
    BY <1>1, <1>6, <2>2 DEF Takes
  <2> QED BY <2>1, <2>2
<1>12. \A v \in Workers : native'[v] # NoActor => bound'[native'[v]] = native'[v]
  BY <1>3, <1>8, <1>9, <1>10
<1>13. \A v, x \in Workers : v # x /\ native'[v] # NoActor => native'[v] # native'[x]
  BY <1>3, <1>4, <1>5, <1>7, <1>8 DEF SlotLanes
<1>14. \A v \in Workers : phase'[v] # "free" => bound'[task'[v]] = native'[v]
  <2> TAKE v \in Workers
  <2>1. CASE v = w
    BY <1>1, <1>3, <2>1 DEF Takes
  <2>2. CASE v # w
    <3>1. phase[v] # "free" => task[v] \in Tasks \ {t}
      BY <1>1 DEF Takes, PoolTypeOK
    <3> QED BY <1>1, <3>1, <2>2 DEF Takes, SlotLanes
  <2> QED BY <2>1, <2>2
<1> QED BY <1>11, <1>12, <1>13, <1>14 DEF SlotLanes

LEMMA LanesStep ==
    ASSUME PoolTypeOK, Hands, Lanes, NEW w \in Workers, PoolStep(w)
    PROVE  Lanes'
<1>1. CASE TakeForeign(w)
  <2>1. UNCHANGED <<adapter, mode, bound, native, phase, task, bundle>>
    BY <1>1 DEF TakeForeign
  <2> QED BY <2>1 DEF Lanes, SlotLanes, RecordedLanes, Resolved, Replaying
<1>2. CASE Take(w)
  <2>1. PICK t \in Tasks : Takes(w, t)
    BY <1>2, TakeFacts
  <2>2. UNCHANGED <<adapter, mode, bundle>> /\ Admitted(w, t)
    BY <1>2, <2>1 DEF Take, Takes
  <2>3. ~Replaying /\ adapter = "trae" => \A u \in Tasks : bound'[u] \in {NoActor, u}
    <3> SUFFICES ASSUME ~Replaying, adapter = "trae", NEW u \in Tasks
                 PROVE  bound'[u] \in {NoActor, u}
      OBVIOUS
    <3>1. LaneFor(w, t) = t /\ bound[u] \in {NoActor, u}
      BY DEF LaneFor, Lanes
    <3> QED BY <2>1, <3>1 DEF Takes
  <2>4. ~Replaying /\ adapter # "trae" => SlotLanes'
    BY <1>2, SlotLanesTake DEF Lanes
  <2>5. ASSUME Replaying PROVE RecordedLanes'
    <3>1. LaneFor(w, t) = Resolved(t) /\ LaneFor(w, t) \in bundle.actors
      BY <2>2, <2>5 DEF LaneFor, Admitted, Resolved
    <3>2. RecordedLanes
      BY <2>5 DEF Lanes
    <3>3. \A u : Resolved(u)' = Resolved(u)
      BY <2>2 DEF Resolved
    <3>4. \A u \in Tasks : bound'[u] # NoActor =>
             bound'[u] = Resolved(u) /\ bound'[u] \in bundle.actors
      BY <2>1, <3>1, <3>2 DEF RecordedLanes, Takes
    <3> QED BY <2>2, <3>2, <3>3, <3>4 DEF RecordedLanes
  <2> QED BY <2>2, <2>3, <2>4, <2>5 DEF Lanes, Replaying
<1>3. CASE EnvironmentUp(w) \/ EnvironmentFails(w) \/ Enter(w) \/ LeaveStep(w) \/ CallStep(w)
  <2>1. /\ UNCHANGED <<next, bound, native, adapter, mode, bundle>>
        /\ \A v \in Workers : phase'[v] # "free" => phase[v] # "free" /\ task'[v] = task[v]
    BY <1>3, StayFacts
  <2>2. SlotLanes => SlotLanes'
    BY <2>1 DEF SlotLanes
  <2>3. RecordedLanes => RecordedLanes'
    BY <2>1 DEF RecordedLanes, Resolved
  <2> QED BY <2>1, <2>2, <2>3 DEF Lanes, Replaying
<1> QED BY <1>1, <1>2, <1>3, PoolCases

LEMMA LanesRecorded ==
    ASSUME PoolTypeOK, Lanes, RecordBundle
    PROVE  Lanes'
<1>1. /\ bundle'.lane = ActorMap /\ bundle'.actors = RecordedActors
      /\ bound' = NoLanes /\ mode' = "replay" /\ adapter' = adapter /\ ~Replaying
  BY DEF RecordBundle
<1>2. adapter = "trae" => \A t \in Tasks : ActorMap[t] \in {NoActor, t}
  BY <1>1 DEF ActorMap, Lanes
<1>3. adapter # "trae" => \A x \in RecordedActors : ActorMap[x] = x
  <2> SUFFICES ASSUME adapter # "trae", NEW x \in RecordedActors PROVE ActorMap[x] = x
    OBVIOUS
  <2>1. PICK t \in Tasks : bound[t] # NoActor /\ x = bound[t]
    BY DEF RecordedActors
  <2>2. x \in Tasks
    BY <2>1 DEF PoolTypeOK, Lane
  <2> QED BY <1>1, <2>1, <2>2 DEF ActorMap, Lanes, SlotLanes
<1>4. \A t \in Tasks : bound'[t] = NoActor
  BY <1>1 DEF NoLanes
<1>5. RecordedLanes'
  BY <1>1, <1>2, <1>3, <1>4 DEF RecordedLanes
<1> QED BY <1>1, <1>5 DEF Lanes, Replaying

-----------------------------------------------------------------------------
(* Locks *)

LEMMA LocksStep ==
    ASSUME PoolTypeOK, Hands, Locks, NEW w \in Workers, PoolStep(w)
    PROVE  Locks'
<1> SUFFICES ASSUME adapter' = "owl", NEW v \in Workers, Begun(v)'
             PROVE  lock'[bound'[task'[v]]] = v
  BY DEF Locks
<1>1. adapter = "owl"
  BY PoolCases DEF TakeForeign, Take, EnvironmentUp, EnvironmentFails, Enter, LeaveStep, CallStep
<1>2. CASE TakeForeign(w)
  BY <1>1, <1>2 DEF TakeForeign, Locks, Begun
<1>3. CASE Take(w)
  <2>1. PICK t \in Tasks : Takes(w, t)
    BY <1>3, TakeFacts
  <2>2. v # w /\ Begun(v) /\ task'[v] = task[v] /\ phase[v] # "free"
    BY <2>1 DEF Begun, Takes
  <2>3. task[v] \in Tasks \ {t}
    BY <2>1, <2>2 DEF Takes, PoolTypeOK
  <2>4. lock' = lock
    BY <1>3 DEF Take
  <2> QED BY <1>1, <2>1, <2>2, <2>3, <2>4 DEF Takes, Locks
<1>4. CASE EnvironmentUp(w) \/ EnvironmentFails(w) \/ CallStep(w)
  <2>1. UNCHANGED <<lock, bound>> /\ phase[w] # "free" /\ (phase'[w] = "free" \/ UNCHANGED task)
    BY <1>4, StayFacts DEF EnvironmentUp, EnvironmentFails, CallStep
  <2>2. Begun(v) /\ task'[v] = task[v]
    <3>1. CASE v = w
      BY <1>4, <3>1 DEF EnvironmentUp, EnvironmentFails, CallStep, CallPhases, Begun, Goto,
                        PoolTypeOK
    <3>2. CASE v # w
      BY <1>4, <3>2, StayFacts DEF Begun
    <3> QED BY <3>1, <3>2
  <2> QED BY <1>1, <2>1, <2>2 DEF Locks
<1>5. CASE Enter(w)
  <2>1. /\ lock' = [lock EXCEPT ![bound[task[w]]] = w] /\ UNCHANGED <<bound, task>>
        /\ lock[bound[task[w]]] = "nobody" /\ phase[w] # "free"
        /\ \A x \in Workers \ {w} : phase'[x] = phase[x]
    BY <1>1, <1>5 DEF Enter, MayEnter, InHand, Goto, PoolTypeOK
  <2>2. bound[task[w]] \in Tasks /\ lock \in [Tasks -> Workers \cup {"nobody"}]
    BY <2>1, SessionInTasks DEF PoolTypeOK
  <2>3. CASE v = w
    BY <2>1, <2>2, <2>3
  <2>4. CASE v # w
    <3>1. Begun(v) /\ lock[bound[task[v]]] = v
      BY <1>1, <2>1, <2>4 DEF Begun, Locks
    <3>2. bound[task[v]] # bound[task[w]]
      BY <2>1, <3>1, PoolAssumption
    <3>3. bound[task[v]] \in Tasks
      BY <3>1, SessionInTasks DEF Begun
    <3> QED BY <2>1, <2>2, <3>1, <3>2, <3>3
  <2> QED BY <2>3, <2>4
<1>6. CASE LeaveStep(w)
  <2>1. v # w /\ Begun(v) /\ task'[v] = task[v] /\ bound' = bound
    <3>1. phase'[w] = "free"
      BY <1>6 DEF LeaveStep, Leave, Goto, PoolTypeOK
    <3>2. v # w
      BY <3>1 DEF Begun
    <3> QED BY <1>6, <3>2, StayFacts DEF Begun
  <2>2. lock' = [t \in Tasks |-> IF lock[t] = w THEN "nobody" ELSE lock[t]]
    BY <1>6 DEF LeaveStep, Leave
  <2>3. bound[task[v]] \in Tasks /\ lock[bound[task[v]]] = v
    BY <1>1, <2>1, SessionInTasks DEF Begun, Locks
  <2> QED BY <2>1, <2>2, <2>3
<1> QED BY <1>2, <1>3, <1>4, <1>5, <1>6, PoolCases

-----------------------------------------------------------------------------
(* Blame *)

(* When all recorded calls are claimed and answered, a call is held.       *)
LEMMA NothingLeft ==
    ASSUME PoolTypeOK, Hands, AllClaimed, Answered, Replaying, NEW w \in Workers
    PROVE  ~StartDispatch(w) /\ ~StartRefused(w)
<1> SUFFICES ASSUME phase[w] = "run" PROVE ~StartDispatch(w) /\ ~StartRefused(w)
  BY DEF StartDispatch, StartRefused, Calling, InHand
<1>1. SessionFor(task[w]) \in Tasks
  BY SessionInTasks
<1>2. Past(SessionFor(task[w])) /\ Holds(SessionFor(task[w]))
  BY <1>1 DEF AllClaimed, Holds
<1> QED BY <1>2 DEF StartDispatch, StartRefused, Grants

LEMMA AnsweredStays ==
    ASSUME PoolTypeOK, Hands, AllClaimed, Answered, Replaying, NEW w \in Workers, PoolStep(w)
    PROVE  AllClaimed' /\ Answered' /\ drift' = drift
<1>1. ~StartDispatch(w) /\ ~StartRefused(w)
  BY NothingLeft
<1>2. phase[w] \notin {"dispatch", "native", "asleep", "closing"}
  BY DEF Answered
<1>3. /\ \/ TakeForeign(w) \/ Take(w) \/ EnvironmentUp(w) \/ EnvironmentFails(w) \/ Enter(w)
         \/ Finish(w) \/ Interrupted(w) \/ StartHeld(w) \/ TimesOut(w)
  BY <1>1, <1>2 DEF PoolStep, StartTool, SimulateTool, RejectCall, EndTool, EndDispatch, InHand
<1>4. UNCHANGED <<cursor, bundle, drift>>
  BY <1>3 DEF TakeForeign, Take, EnvironmentUp, EnvironmentFails, Enter, Finish, Interrupted,
              StartHeld, TimesOut
<1>5. phase'[w] \in {"free", "setup", "gate", "run", "held"}
      /\ \A v \in Workers \ {w} : phase'[v] = phase[v]
  BY <1>2, <1>3 DEF TakeForeign, Take, EnvironmentUp, EnvironmentFails, Enter, Finish,
                    Interrupted, StartHeld, TimesOut, Leave, Goto, PoolTypeOK, Available, InHand
<1> QED BY <1>4, <1>5 DEF AllClaimed, Past, Answered

(* What a terminal says depends on the bindings of tasks that were taken.  *)
LEMMA TerminalsStep ==
    ASSUME PoolTypeOK, Hands, TerminalsSay, NEW w \in Workers, PoolStep(w)
    PROVE  TerminalsSay'
<1>1. CASE TakeForeign(w)
  BY <1>1 DEF TakeForeign, TerminalsSay, SourceNamed, Replaying
<1>2. CASE Take(w)
  <2>1. PICK t \in Tasks : Takes(w, t)
    BY <1>2, TakeFacts
  <2>2. UNCHANGED <<terminals, adapter, mode, bundle, drift>>
    BY <1>2 DEF Take
  <2>3. \A u \in terminals : u.of \in Tasks /\ u.of # t /\ bound'[u.of] = bound[u.of]
    <3>1. \A u \in terminals : u.of \in Tasks /\ u.actor \in Tasks /\ bound[u.of] = u.actor
      BY DEF PoolTypeOK, TerminalsSay
    <3> QED BY <2>1, <3>1, PoolAssumption DEF Takes
  <2> QED BY <2>2, <2>3 DEF TerminalsSay, SourceNamed, Replaying
<1>3. CASE EnvironmentUp(w) \/ EnvironmentFails(w) \/ Enter(w) \/ CallStep(w)
  <2>1. UNCHANGED <<terminals, adapter, mode, bundle, drift, bound>>
    BY <1>3 DEF EnvironmentUp, EnvironmentFails, Enter, CallStep
  <2> QED BY <2>1 DEF TerminalsSay, SourceNamed, Replaying
<1>4. CASE LeaveStep(w)
  <2>1. UNCHANGED <<adapter, mode, bundle, bound>> /\ (drift => drift')
    BY <1>4 DEF LeaveStep, StartRefused
  <2>2. \A t : SourceNamed(t)' = SourceNamed(t)
    BY <2>1 DEF SourceNamed, Replaying
  <2>3. \A u \in terminals' : \/ u \in terminals
                              \/ u = Terminal(task[w], "success", "none")
                              \/ u = Terminal(task[w], "failure", "MismatchError") /\ drift'
                              \/ u = Terminal(task[w], "failure", "TimeoutError")
    BY <1>4 DEF LeaveStep, StartRefused, Report
  <2>4. \A u \in terminals' :
            /\ bound[u.of] = u.actor
            /\ u.source = SourceNamed(u.of)
            /\ u.status = "failure" => u.error # "none"
            /\ u.error = "MismatchError" => drift'
    BY <2>1, <2>3 DEF TerminalsSay, Terminal
  <2> QED BY <2>1, <2>2, <2>4 DEF TerminalsSay
<1> QED BY <1>1, <1>2, <1>3, <1>4, PoolCases

LEMMA BlameStep ==
    ASSUME PoolTypeOK, Hands, Blame, NEW w \in Workers, PoolStep(w)
    PROVE  Blame'
<1>1. TerminalsSay'
  BY TerminalsStep DEF Blame
<1>2. Alive /\ UNCHANGED <<mode, sup, bundle, unexpected>>
  <2>1. Alive /\ UNCHANGED <<mode, bundle, unexpected>>
    BY DEF PoolStep, TakeForeign, Take, EnvironmentUp, EnvironmentFails, Available, InHand, Enter,
           Finish, Interrupted, StartDispatch, StartHeld, StartRefused, TimesOut, Calling,
           StartTool, SimulateTool, RejectCall, EndTool, EndDispatch
  <2>2. sup' = sup
    BY PoolCases DEF TakeForeign, Take, EnvironmentUp, EnvironmentFails, Enter, LeaveStep, CallStep,
                     Leave, Arrive, gateVars
  <2> QED BY <2>1, <2>2
<1>3. sup # "judged"
  BY <1>2 DEF Alive
<1>4. Replaying /\ sup = "stopping" => ~drift' /\ AllClaimed' /\ Answered'
  BY AnsweredStays DEF Blame
<1> QED BY <1>1, <1>2, <1>3, <1>4 DEF Blame, Replaying

(* The steps of the supervisor and of the gate, which report no task. *)
LEMMA BlameRun ==
    ASSUME PoolTypeOK, Apart, Blame,
           \/ CloseWindow \/ RecordBundle \/ Judge \/ WindowFails
           \/ Coral /\ CloseTeamWindow
           \/ Coral /\ UNCHANGED <<sup, poolVars>>
           \/ /\ UNCHANGED poolVars
              /\ \/ UNCHANGED sup
                 \/ sup \in {"attach", "continue", "gather"}
                    /\ sup' \in {"continue", "gather", "window", "failed"}
    PROVE  Blame'
<1>1. CASE RecordBundle
  BY <1>1 DEF RecordBundle, GateRestart, Blame, TerminalsSay
<1>2. CASE Judge
  <2>1. UNCHANGED <<terminals, bundle, bound, adapter, mode, drift, cursor, phase>>
    BY <1>2 DEF Judge
  <2>2. TerminalsSay'
    BY <2>1 DEF Blame, TerminalsSay, SourceNamed, Replaying
  <2>3. \A u : Excused(u)' <=> Excused(u)
    BY <2>1 DEF Excused, CutoffSources
  <2>4. (AllClaimed /\ Answered) => (AllClaimed /\ Answered)'
    BY <2>1 DEF AllClaimed, Past, Answered
  <2> QED BY <1>2, <2>1, <2>2, <2>3, <2>4 DEF Judge, Blame, Replaying
<1>3. ASSUME UNCHANGED <<terminals, bundle, bound, adapter, mode, drift, cursor, phase, unexpected>>,
             (sup # "judged" /\ sup' # "judged") \/ sup' = sup,
             Replaying /\ sup' = "stopping" =>
                 sup = "stopping" \/ (~drift /\ AllClaimed /\ Answered)
      PROVE  Blame'
  <2>1. TerminalsSay'
    BY <1>3 DEF Blame, TerminalsSay, SourceNamed, Replaying
  <2>2. \A u : Excused(u)' <=> Excused(u)
    BY <1>3 DEF Excused, CutoffSources
  <2>3. (AllClaimed /\ Answered) => (AllClaimed /\ Answered)'
    BY <1>3 DEF AllClaimed, Past, Answered
  <2>4. Replaying' = Replaying
    BY <1>3 DEF Replaying
  <2>5. ASSUME Replaying, sup' \in {"stopping", "judged"}
        PROVE  ~drift' /\ AllClaimed' /\ Answered'
    BY <1>3, <2>3, <2>5 DEF Blame
  <2>6. ASSUME sup' = "judged"
        PROVE  Replaying /\ unexpected' = {u \in terminals' : u.status = "failure" /\ ~Excused(u)'}
    BY <1>3, <2>2, <2>6 DEF Blame
  <2>7. sup' # "judged" => unexpected' = {}
    BY <1>3 DEF Blame
  <2> QED BY <2>1, <2>4, <2>5, <2>6, <2>7 DEF Blame
<1>4. CASE CloseWindow
  BY <1>3, <1>4 DEF CloseWindow
<1>5. CASE WindowFails
  BY <1>3, <1>5 DEF WindowFails, poolVars
<1>6. CASE Coral /\ CloseTeamWindow
  BY <1>3, <1>6 DEF CloseTeamWindow, poolVars, Apart
<1>7. CASE Coral /\ UNCHANGED <<sup, poolVars>>
  <2>1. UNCHANGED <<terminals, bundle, bound, adapter, mode, drift, cursor, phase, unexpected>>
    BY <1>7 DEF poolVars
  <2>2. /\ (sup # "judged" /\ sup' # "judged") \/ sup' = sup
        /\ Replaying /\ sup' = "stopping" =>
              sup = "stopping" \/ (~drift /\ AllClaimed /\ Answered)
    BY <1>7
  <2> QED BY <1>3, <2>1, <2>2
<1>8. CASE /\ UNCHANGED poolVars
           /\ \/ UNCHANGED sup
              \/ sup \in {"attach", "continue", "gather"}
                 /\ sup' \in {"continue", "gather", "window", "failed"}
  <2>1. UNCHANGED <<terminals, bundle, bound, adapter, mode, drift, cursor, phase, unexpected>>
    BY <1>8 DEF poolVars
  <2>2. /\ (sup # "judged" /\ sup' # "judged") \/ sup' = sup
        /\ Replaying /\ sup' = "stopping" =>
              sup = "stopping" \/ (~drift /\ AllClaimed /\ Answered)
    <3>1. CASE UNCHANGED sup
      BY <3>1, Zenon
    <3>2. CASE /\ sup \in {"attach", "continue", "gather"}
               /\ sup' \in {"continue", "gather", "window", "failed"}
      BY <3>2
    <3> QED BY <1>8, <3>1, <3>2
  <2> QED BY <1>3, <2>1, <2>2
<1> QED BY <1>1, <1>2, <1>4, <1>5, <1>6, <1>7, <1>8

-----------------------------------------------------------------------------
(* Opening *)

(* Workers with a task, and ready files, are no more than the workers. *)
LEMMA BusyBound ==
    /\ IsFiniteSet(Busy) /\ Cardinality(Busy) \in Nat /\ Cardinality(Workers) \in Nat
    /\ Cardinality(Busy) <= Cardinality(Workers)
    /\ Cardinality(Busy) = Cardinality(Workers) => Busy = Workers
<1>1. IsFiniteSet(Workers) /\ Busy \in SUBSET Workers
  BY PoolAssumption DEF Busy
<1>2. IsFiniteSet(Busy) /\ Cardinality(Busy) <= Cardinality(Workers)
      /\ (Cardinality(Workers) = Cardinality(Busy) => Workers = Busy)
  BY <1>1, FS_Subset
<1> QED BY <1>1, <1>2, FS_CardinalityType

LEMMA ReadyBound ==
    ASSUME PoolTypeOK, AtTheGate, ~Coral
    PROVE  /\ Cardinality(ready) \in Nat /\ Cardinality(ready) <= Cardinality(Busy)
<1> DEFINE owner == [x \in ready |-> CHOOSE w \in Workers :
                                        phase[w] = "gate" /\ x = bound[task[w]]]
<1>1. \A x \in ready : owner[x] \in Workers /\ phase[owner[x]] = "gate"
                       /\ x = bound[task[owner[x]]]
  BY DEF AtTheGate
<1>2. \A w \in Workers : phase[w] = "gate" => w \in Busy
  BY DEF PoolTypeOK, Busy
<1>3. owner \in [ready -> Busy]
  BY <1>1, <1>2
<1>4. \A x, y \in ready : owner[x] = owner[y] => x = y
  BY <1>1
<1> HIDE DEF owner
<1>5. owner \in Injection(ready, Busy)
  <2>1. DOMAIN owner = ready
    BY <1>3
  <2> QED BY <1>3, <1>4, <2>1 DEF Injection, IsInjective
<1>6. IsFiniteSet(ready) /\ Cardinality(ready) <= Cardinality(Busy)
  BY <1>5, BusyBound, FS_Injection
<1> QED BY <1>6, FS_CardinalityType

(* A worker that comes to the gate as nobody there did, waits. *)
LEMMA GateArrival ==
    ASSUME AtTheGate, GateTypeOK, ~Coral, ~gate, UNCHANGED <<adapter, started, team>>,
           phase \in [Workers -> {"free", "setup", "gate", "run", "dispatch", "native",
                                  "asleep", "closing", "held"}],
           NEW w \in Workers, phase[w] \in {"free", "setup"}, Goto(w, "gate"),
           \A v \in Workers \ {w} : phase[v] = "gate" => bound'[task'[v]] = bound[task[v]],
           Arrive(w, ProcessOf(w), bound'[task'[w]]),
           \A v \in Workers : phase[v] = "gate" =>
               <<ProcessOf(w), bound'[task'[w]]>> # <<ProcessOf(v), bound[task[v]]>>
    PROVE  AtTheGate'
<1> DEFINE x == bound'[task'[w]]
<1>1. <<ProcessOf(w), x>> \notin gated
  BY DEF AtTheGate
<1>2. /\ place' = [place EXCEPT ![w] = "waiting"] /\ ready' = ready \cup {x}
      /\ gated' = gated \cup {<<ProcessOf(w), x>>}
  BY <1>1 DEF Arrive, GateKey
<1>3. /\ phase'[w] = "gate" /\ place'[w] = "waiting"
      /\ \A v \in Workers \ {w} : phase'[v] = phase[v] /\ place'[v] = place[v]
  BY <1>2 DEF Goto, GateTypeOK
<1>4. \A v : ProcessOf(v)' = ProcessOf(v)
  BY DEF ProcessOf
<1>5. \A v \in Workers : phase[v] = "gate" =>
          v # w /\ phase'[v] = "gate" /\ bound'[task'[v]] = bound[task[v]]
  BY <1>3
<1>6. \A v \in Workers : place'[v] # "inside" /\ ~Begun(v)' /\ (place'[v] = "waiting" <=> phase'[v] = "gate")
  BY <1>3 DEF AtTheGate, Begun
<1>7. \A g \in gated' : \E v \in Workers :
          phase'[v] = "gate" /\ g = <<ProcessOf(v), bound'[task'[v]]>>
  <2> TAKE g \in gated'
  <2>1. CASE g \in gated
    BY <1>5, <2>1 DEF AtTheGate
  <2>2. CASE g = <<ProcessOf(w), x>>
    BY <1>3, <2>2
  <2> QED BY <1>2, <2>1, <2>2
<1>8. \A y \in ready' : \E v \in Workers : phase'[v] = "gate" /\ y = bound'[task'[v]]
  <2> TAKE y \in ready'
  <2>1. CASE y \in ready
    BY <1>5, <2>1 DEF AtTheGate
  <2>2. CASE y = x
    BY <1>3, <2>2
  <2> QED BY <1>2, <2>1, <2>2
<1>9. Coral' = Coral /\ \A a \in Agents : started'[a] = 0 /\ team' \in {"off", "gate"}
  BY DEF AtTheGate, Coral
<1> QED BY <1>4, <1>6, <1>7, <1>8, <1>9 DEF AtTheGate

(* In mini-swe, the lanes of two tasks in hand before the gate differ. *)
LEMMA LanesInHandDiffer ==
    ASSUME PoolTypeOK, Hands, Lanes, FirstTasks, adapter = "mini-swe", ~gate, faults = 0,
           NEW v \in Workers, NEW w \in Workers, v # w,
           phase[v] # "free", phase[w] # "free"
    PROVE  bound[task[v]] # bound[task[w]]
<1>1. /\ bound[task[v]] \in Tasks /\ bound[task[w]] \in Tasks
      /\ task[v] \in Tasks /\ task[w] \in Tasks /\ task[v] # task[w]
  BY SessionInTasks DEF Hands
<1>2. CASE ~Replaying
  <2>1. /\ bound[task[v]] = native[v] /\ bound[task[w]] = native[w]
        /\ (native[v] # NoActor => native[v] # native[w])
    BY <1>2 DEF Lanes, SlotLanes
  <2> QED BY <1>1, <2>1, PoolAssumption
<1>3. CASE Replaying
  <2>1. PICK i \in 1..next, j \in 1..next : Queue[i] = task[v] /\ Queue[j] = task[w]
    BY DEF Hands, Taken
  <2>2. next \in Nat /\ next <= Cardinality(Workers)
    BY BusyBound DEF FirstTasks
  <2>3. i \in First /\ j \in First
    BY <2>2, BusyBound DEF First
  <2>4. OwnLanes(bundle.lane)
    BY <1>3 DEF FirstTasks
  <2>5. bundle.lane[task[v]] # bundle.lane[task[w]] /\ bundle.lane[task[v]] # NoActor
        /\ bundle.lane[task[w]] # NoActor
    BY <1>1, <2>1, <2>3, <2>4 DEF OwnLanes
  <2>6. RecordedLanes /\ bound[task[v]] # NoActor /\ bound[task[w]] # NoActor
    BY <1>1, <1>3, PoolAssumption DEF Lanes
  <2>7. bound[task[v]] = bundle.lane[task[v]] /\ bound[task[w]] = bundle.lane[task[w]]
    BY <1>1, <2>5, <2>6 DEF RecordedLanes, Resolved
  <2> QED BY <2>5, <2>7
<1> QED BY <1>2, <1>3

LEMMA AtTheGateStep ==
    ASSUME GateTypeOK, PoolTypeOK, Apart, Hands, Lanes, Opening, FirstTasks, ~Coral,
           UNCHANGED teamVars, NEW w \in Workers, PoolStep(w), ~gate, faults' = 0
    PROVE  AtTheGate'
<1>1. Alive
  BY DEF PoolStep, TakeForeign, Take, EnvironmentUp, EnvironmentFails, Available, InHand, Enter,
         Finish, Interrupted, StartDispatch, StartHeld, StartRefused, TimesOut, Calling,
         StartTool, SimulateTool, RejectCall, EndTool, EndDispatch
<1>2. sup = "gather"
  BY <1>1 DEF Alive, Opening
<1>3. faults = 0
  BY PoolCases DEF PoolTypeOK, TakeForeign, Take, EnvironmentUp, EnvironmentFails, Enter,
                   LeaveStep, CallStep
<1>4. AtTheGate
  BY <1>3 DEF Opening
<1>5. UNCHANGED <<started, team>>
  BY DEF teamVars
<1>6. CASE TakeForeign(w)
  BY <1>4, <1>5, <1>6 DEF TakeForeign, gateVars, AtTheGate, Begun, Coral, ProcessOf
<1>7. CASE Take(w)
  <2>1. PICK t \in Tasks : Takes(w, t)
    BY <1>7, TakeFacts
  <2>2. UNCHANGED <<adapter, mode, bundle>> /\ phase[w] = "free"
    BY <1>7 DEF Take, Available, InHand
  <2>3. \A v \in Workers : phase[v] = "gate" =>
            v # w /\ task[v] \in Tasks \ {t} /\ bound[task[v]] \in Tasks
            /\ bound'[task'[v]] = bound[task[v]]
    BY <2>1, <2>2, SessionInTasks DEF Takes
  <2>4. CASE adapter = "mini-swe"
    <3>1. UNCHANGED gateVars /\ Goto(w, "setup")
      BY <1>7, <2>4 DEF Take
    <3>2. phase'[w] = "setup" /\ \A v \in Workers \ {w} : phase'[v] = phase[v]
      BY <3>1 DEF Goto, PoolTypeOK
    <3>3. \A v : ProcessOf(v)' = ProcessOf(v)
      BY <2>2 DEF ProcessOf
    <3>4. \A v \in Workers : phase'[v] = "gate" <=> phase[v] = "gate"
      BY <2>2, <3>2
    <3>5. \A v \in Workers : Begun(v)' <=> Begun(v)
      BY <2>2, <3>2 DEF Begun
    <3>6. UNCHANGED <<place, ready, gated>>
      BY <3>1 DEF gateVars
    <3>7. \A g \in gated : \E v \in Workers :
              phase'[v] = "gate" /\ g = <<ProcessOf(v), bound'[task'[v]]>>
      BY <1>4, <2>3, <3>4 DEF AtTheGate
    <3>8. \A x \in ready : \E v \in Workers : phase'[v] = "gate" /\ x = bound'[task'[v]]
      BY <1>4, <2>3, <3>4 DEF AtTheGate
    <3>9. ~Coral'
      BY <2>2 DEF Coral
    <3>10. \A v \in Workers : place[v] = "waiting" <=> phase'[v] = "gate"
      BY <1>4, <3>4 DEF AtTheGate
    <3> QED BY <1>4, <1>5, <3>3, <3>5, <3>6, <3>7, <3>8, <3>9, <3>10 DEF AtTheGate
  <2>5. CASE adapter # "mini-swe"
    <3>1. Goto(w, "gate") /\ Arrive(w, ProcessOf(w), bound'[task'[w]])
      BY <1>7, <2>1, <2>5 DEF Take, Takes
    <3>2. \A v \in Workers : phase[v] = "gate" =>
              <<ProcessOf(w), bound'[task'[w]]>> # <<ProcessOf(v), bound[task[v]]>>
      <4> SUFFICES ASSUME NEW v \in Workers, phase[v] = "gate"
                   PROVE  ProcessOf(w) # ProcessOf(v) \/ bound'[task'[w]] # bound[task[v]]
        OBVIOUS
      <4>1. v # w /\ task[v] \in Tasks \ {t} /\ bound[task[v]] \in Tasks
        BY <2>3
      <4>2. CASE adapter = "owl"
        BY <4>1, <4>2 DEF ProcessOf
      <4>3. CASE adapter = "trae"
        <5>1. LaneFor(w, t) = t
          BY <4>3, PoolAssumption DEF LaneFor, Lanes, RecordedLanes
        <5>2. bound[task[v]] = task[v]
          BY <4>1, <4>3, PoolAssumption DEF Lanes, RecordedLanes, Resolved
        <5> QED BY <2>1, <4>1, <5>1, <5>2 DEF Takes
      <4> QED BY <2>5, <4>2, <4>3 DEF PoolTypeOK, Coral
    <3>3. /\ phase[w] \in {"free", "setup"}
          /\ UNCHANGED <<adapter, started, team>>
          /\ \A v \in Workers \ {w} : phase[v] = "gate" => bound'[task'[v]] = bound[task[v]]
      BY <1>5, <2>2, <2>3
    <3>4. phase \in [Workers -> {"free", "setup", "gate", "run", "dispatch", "native",
                                 "asleep", "closing", "held"}]
      BY DEF PoolTypeOK
    <3> QED BY <1>4, <3>1, <3>2, <3>3, <3>4, GateArrival
  <2> QED BY <2>4, <2>5
<1>8. CASE EnvironmentUp(w)
  <2>1. /\ phase[w] = "setup" /\ Goto(w, "gate") /\ Arrive(w, ProcessOf(w), bound[task[w]])
        /\ UNCHANGED <<adapter, bound, task>>
    BY <1>8 DEF EnvironmentUp, InHand
  <2>2. adapter = "mini-swe"
    BY <2>1 DEF Apart
  <2>3. \A v \in Workers : phase[v] = "gate" =>
            <<ProcessOf(w), bound[task[w]]>> # <<ProcessOf(v), bound[task[v]]>>
    BY <1>3, <2>1, <2>2, LanesInHandDiffer
  <2>4. /\ phase[w] \in {"free", "setup"}
        /\ UNCHANGED <<adapter, started, team>>
        /\ \A v \in Workers \ {w} : phase[v] = "gate" => bound'[task'[v]] = bound[task[v]]
        /\ bound'[task'[w]] = bound[task[w]]
    BY <1>5, <2>1
  <2>5. phase \in [Workers -> {"free", "setup", "gate", "run", "dispatch", "native",
                               "asleep", "closing", "held"}]
    BY DEF PoolTypeOK
  <2>6. Goto(w, "gate") /\ Arrive(w, ProcessOf(w), bound'[task'[w]])
    BY <2>1, <2>4
  <2>7. \A v \in Workers : phase[v] = "gate" =>
            <<ProcessOf(w), bound'[task'[w]]>> # <<ProcessOf(v), bound[task[v]]>>
    BY <2>3, <2>4
  <2> QED BY <1>4, <2>4, <2>5, <2>6, <2>7, GateArrival
<1>9. CASE EnvironmentFails(w)
  BY <1>3, <1>9 DEF EnvironmentFails
<1>10. CASE Enter(w)
  BY <1>4, <1>10 DEF Enter, AtTheGate
<1>11. CASE LeaveStep(w)
  BY <1>2, <1>4, <1>11 DEF LeaveStep, AtTheGate
<1>12. CASE CallStep(w)
  BY <1>4, <1>12 DEF CallStep, CallPhases, AtTheGate, Begun
<1> QED BY <1>6, <1>7, <1>8, <1>9, <1>10, <1>11, <1>12, PoolCases

LEMMA OpeningStep ==
    ASSUME GateTypeOK, PoolTypeOK, Apart, Hands, Lanes, Opening, FirstTasks, ~Coral,
           UNCHANGED teamVars, NEW w \in Workers, PoolStep(w)
    PROVE  Opening'
<1>1. UNCHANGED <<launch, accounted, sup, gate>>
  BY PoolCases DEF TakeForeign, Take, EnvironmentUp, EnvironmentFails, Enter, LeaveStep,
                   CallStep, Leave, Arrive, gateVars
<1>2. ~gate /\ faults' = 0 => AtTheGate'
  BY AtTheGateStep
<1> QED BY <1>1, <1>2 DEF Opening

(* The team's manager is alone at the gate. *)
LEMMA TeamOpening ==
    ASSUME GateTypeOK, TeamTypeOK, Apart, Opening, Coral, TeamStep, UNCHANGED poolVars
    PROVE  Opening'
<1>1. UNCHANGED <<launch, accounted, sup, gate>>
  BY DEF TeamStep, ManagerArrives, StartFails, Monitor, TeamEnds, MonitorInterrupted,
         StartAgent, Ask, Answer, AskPastEnd, Exit, Control, Resume, RestartExited, Submit,
         Graded, StartGrading, WriteGrade, RecordGrade, Notice, Arrive, gateVars
<1>2. UNCHANGED <<adapter, phase, faults>>
  BY DEF poolVars
<1>3. ASSUME ~gate, faults = 0 PROVE AtTheGate'
  <2>1. AtTheGate /\ Coral'
    BY <1>2, <1>3 DEF Opening, Coral
  <2>2. \A v \in Workers : Begun(v)' <=> Begun(v)
    BY <1>2 DEF Begun
  <2>3. CASE ManagerArrives
    <3>1. place' = [place EXCEPT ![Manager] = "waiting"] /\ team' = "gate" /\ started' = started
      BY <1>3, <2>1, <2>3 DEF ManagerArrives, Arrive, AtTheGate
    <3>2. \A v \in Workers : place'[v] # "inside"
      BY <2>1, <3>1, TeamAssumption DEF AtTheGate, GateTypeOK
    <3> QED BY <2>1, <2>2, <3>1, <3>2 DEF AtTheGate
  <2>4. CASE UNCHANGED <<place, gated, started, team>>
    BY <2>1, <2>2, <2>4 DEF AtTheGate
  <2>5. CASE Agents = {}
    <3>1. \/ UNCHANGED <<place, gated>> /\ team' # "off"
          \/ ManagerArrives
          \/ UNCHANGED <<place, gated, team, started>>
      BY <2>5 DEF TeamStep, StartFails, Monitor, TeamEnds, MonitorInterrupted, Submit, Graded,
                  StartGrading, WriteGrade, RecordGrade, Notice, gateVars
    <3> QED BY <2>1, <2>2, <2>3, <2>4, <2>5, <3>1 DEF AtTheGate
  <2>6. CASE Agents # {}
    <3>1. PICK a \in Agents : TRUE
      BY <2>6
    <3>2. team \in {"off", "gate"} /\ place[Manager] # "inside"
          /\ \A b \in Agents : started[b] = 0
      BY <2>1, <3>1, TeamAssumption DEF AtTheGate
    <3>3. ~StartFails /\ \A b \in Agents : ~StartAgent(b)
      BY <3>2 DEF StartFails, StartAgent
    <3>4. ~Monitor
      <4>1. ~(started[a] > 0)
        BY <3>2
      <4> QED BY <4>1 DEF Monitor
    <3>5. /\ ~TeamEnds /\ ~MonitorInterrupted
          /\ \A b \in Agents : ~Control(b) /\ ~Resume(b) /\ ~RestartExited(b)
      BY <3>2 DEF TeamEnds, MonitorInterrupted, Control, Resume, RestartExited, Monitoring
    <3>6. /\ \A b \in Agents : Ask(b) \/ Answer(b) \/ AskPastEnd(b) \/ Exit(b) =>
                 UNCHANGED <<place, gated, started, team>>
          /\ \A g \in Attempts :
                 Submit(g) \/ StartGrading(g) \/ WriteGrade(g) \/ RecordGrade(g) \/ Notice(g) =>
                 UNCHANGED <<place, gated, started, team>>
      BY DEF Ask, Answer, AskPastEnd, Exit, Submit, StartGrading, WriteGrade, RecordGrade,
             Graded, Notice, gateVars
    <3>7. ManagerArrives \/ UNCHANGED <<place, gated, started, team>>
      BY <3>3, <3>4, <3>5, <3>6 DEF TeamStep
    <3> QED BY <2>3, <2>4, <3>7
  <2> QED BY <2>5, <2>6
<1> QED BY <1>1, <1>2, <1>3 DEF Opening

LEMMA OpeningRun ==
    ASSUME GateTypeOK, Apart, Opening,
           \/ /\ LauncherStops \/ SweepExits \/ Attach \/ Continue \/ OpenGate(Concurrency)
                 \/ GiveUp(Concurrency) \/ \E w \in Workers : Pass(w)
              /\ UNCHANGED <<poolVars, teamVars>>
           \/ ~Coral /\ (CloseWindow \/ RecordBundle \/ Judge) /\ UNCHANGED teamVars
           \/ WindowFails /\ UNCHANGED teamVars
           \/ CloseTeamWindow
    PROVE  Opening'
<1>1. ASSUME UNCHANGED <<gate, place, gated, ready, poolVars, teamVars>>
      PROVE  AtTheGate => AtTheGate'
  BY <1>1 DEF AtTheGate, Begun, Coral, ProcessOf, poolVars, teamVars
<1>2. CASE (LauncherStops \/ SweepExits) /\ UNCHANGED <<poolVars, teamVars>>
  BY <1>1, <1>2 DEF LauncherStops, SweepExits, Opening, poolVars, GateTypeOK
<1>3. CASE (Attach \/ Continue) /\ UNCHANGED <<poolVars, teamVars>>
  BY <1>1, <1>3 DEF Attach, Continue, Opening, poolVars, GateTypeOK
<1>4. CASE (OpenGate(Concurrency) \/ GiveUp(Concurrency)) /\ UNCHANGED <<poolVars, teamVars>>
  BY <1>1, <1>4 DEF OpenGate, GiveUp, Opening, poolVars, GateTypeOK
<1>5. CASE (\E w \in Workers : Pass(w)) /\ UNCHANGED <<poolVars, teamVars>>
  BY <1>5 DEF Pass, Opening, poolVars, GateTypeOK
<1>6. CASE ~Coral /\ (CloseWindow \/ Judge)
  BY <1>6 DEF CloseWindow, Judge, Opening
<1>7. CASE ~Coral /\ RecordBundle /\ UNCHANGED teamVars
  <2>1. /\ \A v \in Workers : place'[v] = "outside" /\ phase'[v] = "free"
        /\ gated' = {} /\ ready' = {} /\ adapter' = adapter
        /\ launch' = "spawned" /\ sup' = "attach" /\ gate' = FALSE
    BY <1>7 DEF RecordBundle, GateRestart
  <2>2. ~Coral' /\ \A v \in Workers : ~Begun(v)'
    BY <1>7, <2>1 DEF Coral, Begun
  <2> QED BY <1>7, <2>1, <2>2 DEF Opening, AtTheGate, Apart, teamVars
<1>8. CASE WindowFails
  BY <1>8 DEF WindowFails, Opening
<1>9. CASE CloseTeamWindow
  BY <1>9 DEF CloseTeamWindow, Opening
<1> QED BY <1>2, <1>3, <1>4, <1>5, <1>6, <1>7, <1>8, <1>9

-----------------------------------------------------------------------------
(* The first tasks *)

(* A free worker's next task is one of the first. *)
LEMMA NextIsFirst ==
    ASSUME PoolTypeOK, FirstTasks, adapter = "mini-swe", faults = 0, ~gate,
           NEW w \in Workers, phase[w] = "free", next < Len(Queue)
    PROVE  /\ next + 1 \in First
           /\ Admitted(w, Queue[next + 1])
<1>1. w \notin Busy /\ Cardinality(Busy) = next
  BY DEF Busy, PoolTypeOK, FirstTasks
<1>2. next + 1 \in First
  BY <1>1, BusyBound DEF First
<1>3. CASE Replaying
  <2>1. /\ bundle.lane[Queue[next + 1]] # NoActor
        /\ bundle.lane[Queue[next + 1]] \in bundle.actors
    BY <1>2, <1>3 DEF FirstTasks, OwnLanes
  <2> QED BY <1>2, <1>3, <2>1 DEF Admitted, LaneFor
<1> QED BY <1>2, <1>3 DEF Admitted

LEMMA FirstTasksStep ==
    ASSUME GateTypeOK, PoolTypeOK, Hands, Opening, FirstTasks, NEW w \in Workers, PoolStep(w)
    PROVE  FirstTasks'
<1>1. UNCHANGED <<sup, gate, adapter, mode, bundle>>
  BY PoolCases DEF TakeForeign, Take, EnvironmentUp, EnvironmentFails, Enter, LeaveStep,
                   CallStep, Leave, Arrive, gateVars
<1> SUFFICES ASSUME adapter = "mini-swe", faults' = 0 PROVE FirstTasks'
  BY <1>1 DEF FirstTasks
<1>2. faults = 0 /\ sup \in {"gather", "window", "stopping"}
  <2>1. faults = 0
    BY PoolCases DEF PoolTypeOK, TakeForeign, Take, EnvironmentUp, EnvironmentFails, Enter,
                     LeaveStep, CallStep
  <2>2. Alive
    BY DEF PoolStep, TakeForeign, Take, EnvironmentUp, EnvironmentFails, Available, InHand, Enter,
           Finish, Interrupted, StartDispatch, StartHeld, StartRefused, TimesOut, Calling,
           StartTool, SimulateTool, RejectCall, EndTool, EndDispatch
  <2> QED BY <2>1, <2>2 DEF Alive
<1>3. ASSUME ~gate
      PROVE  /\ Cardinality(Busy)' = next'
             /\ \A i \in 1..next' : \E v \in Workers : task'[v] = Queue[i]
  <2>1. /\ AtTheGate /\ sup = "gather" /\ Cardinality(Busy) = next
        /\ \A i \in 1..next : \E v \in Workers : task[v] = Queue[i]
    BY <1>2, <1>3 DEF Opening, FirstTasks
  <2>2. CASE TakeForeign(w)
    <3>1. Admitted(w, Queue[next + 1])
      BY <1>2, <1>3, <2>2, NextIsFirst DEF TakeForeign, Available, InHand
    <3> QED BY <2>2, <3>1 DEF TakeForeign
  <2>3. CASE Take(w)
    <3>1. PICK t \in Tasks : Takes(w, t)
      BY <2>3, TakeFacts
    <3>2. w \notin Busy /\ Busy' = Busy \cup {w}
      <4>1. task'[w] = t /\ t # NoTask /\ task[w] = NoTask
        BY <3>1, PoolAssumption DEF Takes, PoolTypeOK
      <4>2. \A v \in Workers \ {w} : task'[v] = task[v]
        BY <3>1 DEF Takes
      <4> QED BY <4>1, <4>2 DEF Busy
    <3>3. Cardinality(Busy)' = next'
      <4>1. Cardinality(Busy \cup {w}) = Cardinality(Busy) + 1
        BY <3>2, BusyBound, FS_AddElement
      <4> QED BY <2>1, <3>1, <3>2, <4>1 DEF Takes
    <3>4. ASSUME NEW i \in 1..next' PROVE \E v \in Workers : task'[v] = Queue[i]
      <4>1. next \in Nat /\ next' = next + 1
        BY <3>1, PoolAssumption DEF Takes, PoolTypeOK
      <4>2. i \in 1..next \/ i = next + 1
        BY <4>1
      <4>3. CASE i = next + 1
        BY <3>1, <4>3 DEF Takes
      <4>4. CASE i \in 1..next
        <5>1. PICK v \in Workers : task[v] = Queue[i]
          BY <2>1, <4>4
        <5>2. Taken(Queue[i])
          BY <4>4 DEF Taken
        <5>3. Queue[i] # NoTask
          BY <4>1, <4>4, PoolAssumption DEF PoolTypeOK
        <5>4. v # w
          BY <3>1, <5>1, <5>3 DEF Takes, PoolTypeOK
        <5> QED BY <3>1, <5>1, <5>4 DEF Takes
      <4> QED BY <4>2, <4>3, <4>4
    <3> QED BY <3>3, <3>4
  <2>4. CASE EnvironmentUp(w) \/ Enter(w) \/ CallStep(w)
    <3>1. UNCHANGED <<task, next>>
      BY <2>4 DEF EnvironmentUp, Enter, CallStep
    <3> QED BY <2>1, <3>1 DEF Busy
  <2>5. ~EnvironmentFails(w) /\ ~LeaveStep(w)
    BY <1>2, <2>1 DEF EnvironmentFails, LeaveStep, AtTheGate
  <2> QED BY <2>2, <2>3, <2>4, <2>5, PoolCases
<1>4. ASSUME ~Replaying, gate PROVE OwnLanes(bound)'
  <2>1. OwnLanes(bound)
    BY <1>2, <1>4 DEF FirstTasks
  <2>2. \A i \in First : Queue[i] \in Tasks /\ bound'[Queue[i]] = bound[Queue[i]]
    <3> TAKE i \in First
    <3>1. Queue[i] \in Tasks /\ bound[Queue[i]] # NoActor
      BY <2>1, PoolAssumption DEF OwnLanes
    <3>2. CASE Take(w)
      BY <3>1, <3>2, TakeFacts DEF Takes
    <3>3. CASE ~Take(w)
      <4>1. bound' = bound
        BY <3>3, PoolCases, StayFacts DEF TakeForeign
      <4> QED BY <3>1, <4>1
    <3> QED BY <3>2, <3>3
  <2>3. /\ First \subseteq 1..Len(Queue)
        /\ \A i \in First : bound'[Queue[i]] # NoActor
        /\ \A i, j \in First : bound'[Queue[i]] = bound'[Queue[j]] => i = j
    BY <2>1, <2>2 DEF OwnLanes
  <2> QED BY <2>3 DEF OwnLanes
<1>5. Replaying => /\ OwnLanes(bundle.lane)'
                   /\ \A i \in First : bundle'.lane[Queue[i]] \in bundle'.actors
  BY <1>1, <1>2 DEF FirstTasks, OwnLanes
<1> QED BY <1>1, <1>3, <1>4, <1>5 DEF FirstTasks, Replaying

(* When as many ready files as workers are there, every worker has a task. *)
LEMMA FirstTasksOpen ==
    ASSUME GateTypeOK, PoolTypeOK, Hands, Lanes, Opening, FirstTasks, UNCHANGED poolVars,
           OpenGate(Concurrency)
    PROVE  FirstTasks'
<1>1. UNCHANGED <<adapter, mode, bundle, bound, task, next, faults>> /\ gate'
  BY DEF poolVars, OpenGate
<1> SUFFICES ASSUME adapter = "mini-swe", faults = 0 PROVE FirstTasks'
  BY <1>1 DEF FirstTasks
<1>2. ~gate /\ AtTheGate /\ ~Coral
  BY DEF Opening, OpenGate, Coral
<1>3. /\ Cardinality(Busy) = Cardinality(Workers) /\ Cardinality(Workers) = next
      /\ Busy = Workers
  <2>1. Cardinality(ready) >= Cardinality(Workers)
    BY <1>2 DEF OpenGate, Concurrency
  <2>2. Cardinality(Busy) = next
    BY <1>2 DEF FirstTasks
  <2> QED BY <1>2, <2>1, <2>2, ReadyBound, BusyBound
<1>4. First \subseteq 1..Len(Queue)
  BY <1>3, PoolAssumption DEF First, PoolTypeOK
<1>5. ASSUME ~Replaying PROVE OwnLanes(bound)
  <2>1. \A i \in First : \E w \in Workers : task[w] = Queue[i] /\ phase[w] # "free"
    BY <1>2, <1>3 DEF FirstTasks, First, Busy, PoolTypeOK
  <2>2. \A w \in Workers : phase[w] # "free" => bound[task[w]] \in Tasks
    BY DEF Hands
  <2>3. \A i \in First : bound[Queue[i]] # NoActor
    BY <2>1, <2>2, PoolAssumption
  <2>4. ASSUME NEW i \in First, NEW j \in First, bound[Queue[i]] = bound[Queue[j]]
        PROVE  i = j
    <3>1. PICK v \in Workers, w \in Workers :
              task[v] = Queue[i] /\ phase[v] # "free" /\ task[w] = Queue[j] /\ phase[w] # "free"
      BY <2>1
    <3>2. v = w
      BY <1>2, <2>4, <3>1, LanesInHandDiffer
    <3>3. i \in DOMAIN Queue /\ j \in DOMAIN Queue
      BY <1>4, PoolAssumption
    <3> QED BY <3>1, <3>2, <3>3, PoolAssumption DEF IsInjective
  <2> QED BY <1>4, <2>3, <2>4 DEF OwnLanes
<1>6. Replaying => /\ OwnLanes(bundle.lane)
                   /\ \A i \in First : bundle.lane[Queue[i]] \in bundle.actors
  BY DEF FirstTasks
<1> QED BY <1>1, <1>5, <1>6 DEF FirstTasks, Replaying, OwnLanes

LEMMA FirstTasksRecorded ==
    ASSUME PoolTypeOK, Opening, FirstTasks, RecordBundle
    PROVE  FirstTasks'
<1>1. /\ bundle'.lane = ActorMap /\ bundle'.actors = RecordedActors
      /\ next' = 0 /\ task' = [w \in Workers |-> NoTask] /\ mode' = "replay"
      /\ UNCHANGED <<adapter, faults>> /\ ~Replaying /\ gate' = FALSE
      /\ gate
  BY DEF RecordBundle, GateRestart, Opening
<1> SUFFICES ASSUME adapter = "mini-swe", faults = 0 PROVE FirstTasks'
  BY <1>1 DEF FirstTasks
<1>2. OwnLanes(bound)
  BY <1>1 DEF FirstTasks
<1>3. \A i \in First : Queue[i] \in Tasks
  BY <1>2, PoolAssumption DEF OwnLanes
<1>4. \A t \in Tasks : ActorMap[t] = bound[t]
  BY DEF ActorMap
<1>5. OwnLanes(ActorMap)
  BY <1>2, <1>3, <1>4 DEF OwnLanes
<1>6. \A i \in First : ActorMap[Queue[i]] \in RecordedActors
  BY <1>2, <1>3, <1>4 DEF OwnLanes, RecordedActors
<1>7. Busy' = {}
  BY <1>1 DEF Busy
<1>8. Cardinality(Busy)' = next'
  BY <1>1, <1>7, FS_EmptySet
<1>9. OwnLanes(bundle.lane)'
  BY <1>1, <1>5 DEF OwnLanes
<1> QED BY <1>1, <1>6, <1>8, <1>9 DEF FirstTasks, Replaying

-----------------------------------------------------------------------------
(* The invariant *)

LEMMA InvInit == Init => IInv
<1> SUFFICES ASSUME Init PROVE IInv
  OBVIOUS
<1>1. GateTypeOK
  BY DEF Init, GateInit, GateTypeOK
<1>2. PoolTypeOK
  <2>1. next \in 0..Len(Queue) /\ faults \in 0..MaxFaults
    BY PoolAssumption DEF Init, PoolInit
  <2>2. /\ task \in [Workers -> Tasks \cup {NoTask}]
        /\ phase \in [Workers -> {"free", "setup", "gate", "run", "dispatch", "native",
                                  "asleep", "closing", "held"}]
        /\ \A w \in Workers : phase[w] = "free" <=> task[w] = NoTask
        /\ native \in [Workers -> Lane] /\ bound \in [Tasks -> Lane]
        /\ lock \in [Tasks -> Workers \cup {"nobody"}]
    BY DEF Init, PoolInit, NoLanes, Lane
  <2>3. /\ calls \in [Tasks -> Nat] /\ \A t \in Tasks : calls[t] <= Calls[t]
        /\ cursor \in [Tasks -> Nat] /\ log \in Logs
    BY PoolAssumption DEF Init, PoolInit, NoLog, Logs
  <2>4. bundle \in [lane : [Tasks -> Lane], actors : SUBSET Tasks, log : Logs,
                    tails : SUBSET Tasks, ended : SUBSET Tasks]
    BY DEF Init, PoolInit, EmptyBundle, NoLanes, NoLog, Lane, Logs
  <2> QED BY <2>1, <2>2, <2>3, <2>4 DEF Init, PoolInit, PoolTypeOK
<1>3. TeamTypeOK
  <2>1. \A a \in Agents : RecordedIn(a, 0) \in Nat
    BY RecordedInFacts
  <2>2. \A a \in Agents : got[a] <= RecordedIn(a, started[a])
    BY <2>1 DEF Init, TeamInit
  <2> QED BY <2>2 DEF Init, TeamInit, TeamTypeOK
<1>4. Apart /\ Locks /\ Markers
  BY DEF Init, PoolInit, TeamInit, Apart, Replaying, Locks, Begun, Markers
<1>5. Hands /\ Lanes
  BY DEF Init, PoolInit, Hands, Lanes, SlotLanes, RecordedLanes, NoLanes, Replaying, InCall
<1>6. Blame
  BY DEF Init, PoolInit, GateInit, Blame, TerminalsSay, Replaying
<1>7. Opening
  BY DEF Init, PoolInit, GateInit, TeamInit, Opening, AtTheGate, Begun
<1>8. FirstTasks
  <2>1. Busy = {}
    BY DEF Init, PoolInit, Busy
  <2>2. Cardinality(Busy) = next
    BY <2>1, FS_EmptySet DEF Init, PoolInit
  <2> QED BY <2>2 DEF Init, PoolInit, GateInit, FirstTasks, Replaying
<1> QED BY <1>1, <1>2, <1>3, <1>4, <1>5, <1>6, <1>7, <1>8 DEF IInv, TypeOK

(* A step that leaves the pool and the team alone. *)
LEMMA RestKept ==
    ASSUME IInv, UNCHANGED <<poolVars, teamVars>>
    PROVE  PoolTypeOK' /\ TeamTypeOK' /\ Apart' /\ Hands' /\ Lanes' /\ Locks' /\ Markers'
<1>1. PoolTypeOK'
  BY DEF IInv, TypeOK, PoolTypeOK, poolVars
<1>2. TeamTypeOK' /\ Markers'
  BY DEF IInv, TypeOK, TeamTypeOK, Markers, GraderRecorded, teamVars
<1>3. Apart' /\ Locks'
  BY DEF IInv, Apart, Locks, Begun, Coral, Replaying, poolVars, teamVars
<1>4. Hands'
  BY DEF IInv, Hands, Taken, InCall, poolVars
<1>5. Lanes'
  BY DEF IInv, Lanes, SlotLanes, RecordedLanes, Resolved, Replaying, poolVars
<1> QED BY <1>1, <1>2, <1>3, <1>4, <1>5

LEMMA FirstTasksKept ==
    ASSUME FirstTasks, UNCHANGED <<gate, adapter, mode, faults, next, task, bound, bundle>>
    PROVE  FirstTasks'
BY DEF FirstTasks, Busy, OwnLanes, Replaying

LEMMA TeamKept ==
    ASSUME TeamTypeOK, Markers, UNCHANGED teamVars
    PROVE  TeamTypeOK' /\ Markers'
BY DEF TeamTypeOK, Markers, GraderRecorded, teamVars

LEMMA ApartStep ==
    ASSUME PoolTypeOK, Apart, ~Coral, UNCHANGED teamVars, NEW w \in Workers, PoolStep(w)
    PROVE  Apart'
<1>1. UNCHANGED <<adapter, team, started>>
  BY PoolCases DEF TakeForeign, Take, EnvironmentUp, EnvironmentFails, Enter, LeaveStep,
                   CallStep, teamVars
<1>2. ASSUME adapter # "mini-swe" PROVE \A v \in Workers : phase'[v] # "setup"
  <2>1. \A v \in Workers : phase[v] # "setup"
    BY <1>2 DEF Apart
  <2>2. CASE TakeForeign(w)
    BY <2>1, <2>2 DEF TakeForeign
  <2>3. CASE Take(w)
    <3>1. Goto(w, "gate")
      BY <1>2, <2>3 DEF Take
    <3> QED BY <2>1, <3>1 DEF Goto, PoolTypeOK
  <2>4. CASE EnvironmentUp(w) \/ EnvironmentFails(w) \/ Enter(w) \/ LeaveStep(w) \/ CallStep(w)
    BY <2>1, <2>4, StayFacts
  <2> QED BY <2>2, <2>3, <2>4, PoolCases
<1> QED BY <1>1, <1>2 DEF Apart, Coral

LEMMA SuperviseKeeps ==
    ASSUME IInv, ~Coral, CloseWindow \/ Judge \/ RecordBundle, UNCHANGED teamVars
    PROVE  Apart' /\ Hands' /\ Lanes' /\ Locks'
<1>1. CASE CloseWindow \/ Judge
  <2>1. UNCHANGED <<adapter, mode, next, phase, task, bound, native, calls, lock, bundle>>
    BY <1>1 DEF CloseWindow, Judge
  <2>2. Apart' /\ Locks'
    BY <2>1 DEF IInv, Apart, Locks, Begun, Coral, Replaying, teamVars
  <2>3. Hands'
    BY <2>1 DEF IInv, Hands, Taken, InCall
  <2>4. Lanes'
    BY <2>1 DEF IInv, Lanes, SlotLanes, RecordedLanes, Resolved, Replaying
  <2> QED BY <2>2, <2>3, <2>4
<1>2. CASE RecordBundle
  <2>1. /\ \A w \in Workers : phase'[w] = "free"
        /\ \A t \in Tasks : bound'[t] = NoActor
        /\ adapter' = adapter /\ mode' = "replay"
    BY <1>2 DEF RecordBundle, NoLanes
  <2>2. Hands' /\ Locks'
    BY <2>1 DEF Hands, Locks, Begun, InCall
  <2>3. Lanes'
    BY <1>2, LanesRecorded DEF IInv, TypeOK
  <2>4. Apart'
    BY <2>1 DEF IInv, Apart, Coral, teamVars
  <2> QED BY <2>2, <2>3, <2>4
<1> QED BY <1>1, <1>2

LEMMA InvGateStep ==
    ASSUME IInv, UNCHANGED <<poolVars, teamVars>>,
           \/ LauncherStops \/ SweepExits \/ Attach \/ Continue \/ OpenGate(Concurrency)
           \/ GiveUp(Concurrency) \/ \E w \in Workers : Pass(w)
    PROVE  IInv'
<1>1. PoolTypeOK' /\ TeamTypeOK' /\ Apart' /\ Hands' /\ Lanes' /\ Locks' /\ Markers'
  BY RestKept
<1>2. GateTypeOK'
  BY GateStepTypes DEF IInv, TypeOK
<1>3. Opening'
  BY OpeningRun DEF IInv, TypeOK
<1>4. Blame'
  <2>1. \/ UNCHANGED sup
        \/ /\ sup \in {"attach", "continue", "gather"}
           /\ sup' \in {"continue", "gather", "window", "failed"}
    BY DEF LauncherStops, SweepExits, Attach, Continue, OpenGate, GiveUp, Pass
  <2> QED BY <2>1, BlameRun DEF IInv, TypeOK
<1>5. FirstTasks'
  <2>1. CASE OpenGate(Concurrency)
    BY <2>1, FirstTasksOpen DEF IInv, TypeOK
  <2>2. CASE ~OpenGate(Concurrency)
    <3>1. gate' = gate
      BY <2>2 DEF LauncherStops, SweepExits, Attach, Continue, GiveUp, Pass
    <3>2. UNCHANGED <<adapter, mode, faults, next, task, bound, bundle>>
      BY DEF poolVars
    <3> QED BY <3>1, <3>2, FirstTasksKept DEF IInv
  <2> QED BY <2>1, <2>2
<1> QED BY <1>1, <1>2, <1>3, <1>4, <1>5 DEF IInv, TypeOK

LEMMA InvSuperviseStep ==
    ASSUME IInv,
           \/ ~Coral /\ (CloseWindow \/ RecordBundle \/ Judge) /\ UNCHANGED teamVars
           \/ WindowFails /\ UNCHANGED teamVars
           \/ Coral /\ CloseTeamWindow
    PROVE  IInv'
<1>1. CASE ~Coral /\ (CloseWindow \/ RecordBundle \/ Judge) /\ UNCHANGED teamVars
  <2>1. GateTypeOK' /\ PoolTypeOK'
    BY <1>1, SuperviseTypes, RecordTypes DEF IInv, TypeOK
  <2>2. TeamTypeOK' /\ Markers'
    BY <1>1, TeamKept DEF IInv, TypeOK
  <2>3. Apart' /\ Hands' /\ Lanes' /\ Locks'
    BY <1>1, SuperviseKeeps
  <2>4. Blame' /\ Opening'
    BY <1>1, BlameRun, OpeningRun DEF IInv, TypeOK
  <2>5. FirstTasks'
    <3>1. CASE RecordBundle
      BY <3>1, FirstTasksRecorded DEF IInv, TypeOK
    <3>2. CASE CloseWindow \/ Judge
      <4>1. UNCHANGED <<gate, adapter, mode, faults, next, task, bound, bundle>>
        BY <3>2 DEF CloseWindow, Judge
      <4> QED BY <4>1, FirstTasksKept DEF IInv
    <3> QED BY <1>1, <3>1, <3>2
  <2> QED BY <2>1, <2>2, <2>3, <2>4, <2>5 DEF IInv, TypeOK
<1>2. CASE (WindowFails /\ UNCHANGED teamVars) \/ (Coral /\ CloseTeamWindow)
  <2>1. UNCHANGED <<poolVars, teamVars>> /\ gate' = gate
    BY <1>2 DEF WindowFails, CloseTeamWindow
  <2>2. PoolTypeOK' /\ TeamTypeOK' /\ Apart' /\ Hands' /\ Lanes' /\ Locks' /\ Markers'
    BY <2>1, RestKept
  <2>3. GateTypeOK'
    BY <1>2 DEF IInv, TypeOK, GateTypeOK, WindowFails, CloseTeamWindow
  <2>4. Blame' /\ Opening'
    BY <1>2, BlameRun, OpeningRun DEF IInv, TypeOK
  <2>5. FirstTasks'
    <3>1. UNCHANGED <<adapter, mode, faults, next, task, bound, bundle>>
      BY <2>1 DEF poolVars
    <3> QED BY <2>1, <3>1, FirstTasksKept DEF IInv
  <2> QED BY <2>2, <2>3, <2>4, <2>5 DEF IInv, TypeOK
<1> QED BY <1>1, <1>2

LEMMA InvPoolStep ==
    ASSUME IInv, ~Coral, UNCHANGED teamVars, NEW w \in Workers, PoolStep(w)
    PROVE  IInv'
<1>1. GateTypeOK' /\ PoolTypeOK'
  BY PoolStepTypes DEF IInv, TypeOK
<1>2. TeamTypeOK' /\ Markers'
  BY TeamKept DEF IInv, TypeOK
<1>3. Apart' /\ Hands' /\ Lanes' /\ Locks' /\ Blame'
  BY ApartStep, HandsStep, LanesStep, LocksStep, BlameStep DEF IInv, TypeOK
<1>4. Opening' /\ FirstTasks'
  BY OpeningStep, FirstTasksStep DEF IInv, TypeOK
<1> QED BY <1>1, <1>2, <1>3, <1>4 DEF IInv, TypeOK

LEMMA InvTeamStep ==
    ASSUME IInv, Coral, TeamStep, UNCHANGED poolVars
    PROVE  IInv'
<1>1. GateTypeOK' /\ TeamTypeOK' /\ Markers' /\ Opening'
  BY TeamGateTypes, TeamStepInv, TeamOpening DEF IInv, TypeOK
<1>2. UNCHANGED <<adapter, mode, next, phase, task, bound, native, calls, lock, bundle, faults>>
  BY DEF poolVars
<1>3. PoolTypeOK'
  BY DEF IInv, TypeOK, PoolTypeOK, poolVars
<1>4. Apart' /\ Locks' /\ FirstTasks'
  BY <1>2 DEF IInv, Apart, Locks, Begun, Coral, Replaying, FirstTasks
<1>5. Hands'
  BY <1>2 DEF IInv, Hands, Taken, InCall
<1>6. Lanes'
  BY <1>2 DEF IInv, Lanes, SlotLanes, RecordedLanes, Resolved, Replaying
<1>7. sup' = sup
  BY DEF TeamStep, ManagerArrives, StartFails, Monitor, TeamEnds, MonitorInterrupted,
         StartAgent, Ask, Answer, AskPastEnd, Exit, Control, Resume, RestartExited, Submit,
         Graded, StartGrading, WriteGrade, RecordGrade, Notice, Arrive, gateVars
<1>8. Blame'
  BY <1>7, BlameRun DEF IInv, TypeOK
<1> QED BY <1>1, <1>3, <1>4, <1>5, <1>6, <1>8 DEF IInv, TypeOK

LEMMA InvStep == IInv /\ [Next]_vars => IInv'
<1> SUFFICES ASSUME IInv, [Next]_vars PROVE IInv'
  OBVIOUS
<1>1. CASE UNCHANGED vars
  <2>1. UNCHANGED <<poolVars, teamVars>> /\ UNCHANGED gateVars /\ UNCHANGED <<sup, gate>>
    BY <1>1 DEF vars, gateVars
  <2>2. PoolTypeOK' /\ TeamTypeOK' /\ Apart' /\ Hands' /\ Lanes' /\ Locks' /\ Markers'
    BY <2>1, RestKept
  <2>3. GateTypeOK'
    BY <2>1, GateStepTypes DEF IInv, TypeOK
  <2>4. Blame'
    BY <2>1, BlameRun DEF IInv, TypeOK
  <2>5. Opening'
    BY <2>1 DEF IInv, Opening, AtTheGate, Begun, Coral, ProcessOf, gateVars, poolVars, teamVars
  <2>6. FirstTasks'
    <3>1. UNCHANGED <<adapter, mode, faults, next, task, bound, bundle>>
      BY <2>1 DEF poolVars
    <3> QED BY <2>1, <3>1, FirstTasksKept DEF IInv
  <2> QED BY <2>2, <2>3, <2>4, <2>5, <2>6 DEF IInv, TypeOK
<1> QED BY <1>1, Cases, InvGateStep, InvSuperviseStep, InvPoolStep, InvTeamStep

THEOREM Invariance == Spec => []IInv
<1>1. Init => IInv
  BY InvInit
<1>2. IInv /\ [Next]_vars => IInv'
  BY InvStep
<1> QED BY <1>1, <1>2, PTL DEF Spec

-----------------------------------------------------------------------------
(* Theorems *)

(* Every variable of a native run keeps its type: an agent never has more  *)
(* responses than its invocation has recorded ones, and no task more calls *)
(* than the workload gives it.                                             *)
THEOREM TypeCorrect == Spec => []TypeOK
<1>1. IInv => TypeOK
  BY DEF IInv
<1> QED BY <1>1, Invariance, PTL

(* No task and no agent begins before the gate opens, with any number of   *)
(* workers and in replay as in recording, and a sweep that runs is under   *)
(* accounting (ready_and_wait, _open_gate, Supervisor._launch).            *)
THEOREM StartsTogether == Spec => []StartTogether
<1>1. IInv => StartTogether
  BY DEF IInv, Opening, AtTheGate, StartTogether
<1> QED BY <1>1, Invariance, PTL

(* Two workers never run tasks of one session at the same time: in Owl for *)
(* the lane's lock file, in the others since no two of their tasks share a *)
(* session (_causal_lane_lock, bind_task_lane).                            *)
LEMMA SerialFromInv == IInv => LanesAreSerial
<1> SUFFICES ASSUME IInv, NEW v \in Workers, NEW w \in Workers, v # w, Begun(v), Begun(w)
             PROVE  SessionFor(task[v]) # SessionFor(task[w])
  BY DEF LanesAreSerial
<1>1. /\ phase[v] # "free" /\ phase[w] # "free" /\ task[v] # task[w]
      /\ bound[task[v]] \in Tasks /\ bound[task[w]] \in Tasks
      /\ task[v] \in Tasks /\ task[w] \in Tasks
  BY SessionInTasks DEF IInv, TypeOK, Begun, Hands
<1>2. CASE adapter = "mini-swe"
  BY <1>1, <1>2 DEF SessionFor
<1>3. CASE adapter = "owl"
  BY <1>3 DEF SessionFor, IInv, Locks
<1>4. CASE adapter = "trae"
  <2>1. bound[task[v]] # NoActor /\ bound[task[w]] # NoActor
    BY <1>1, PoolAssumption
  <2>2. bound[task[v]] = task[v] /\ bound[task[w]] = task[w]
    BY <1>1, <1>4, <2>1 DEF IInv, Lanes, RecordedLanes, Resolved
  <2> QED BY <1>1, <1>4, <2>2 DEF SessionFor
<1>5. adapter # "coral"
  BY <1>1 DEF IInv, Apart, Coral
<1> QED BY <1>2, <1>3, <1>4, <1>5 DEF IInv, TypeOK, PoolTypeOK

(* The lanes of a run are serial: see SerialFromInv. *)
THEOREM Serial == Spec => []LanesAreSerial
BY SerialFromInv, Invariance, PTL

(* A failed task with a recorded lane of its own is excused exactly when   *)
(* the recording has no end of it (_unexpected_failed_tasks,               *)
(* cutoff_source_actor_ids): no such task fails in a judged replay but by  *)
(* the timeout of a held call, and its terminal names it and its lane.     *)
LEMMA ExcusedFromInv == IInv => OpenTasksAreExcused
<1> SUFFICES ASSUME IInv, sup = "judged", NEW u \in terminals, u.status = "failure",
                    OwnLane(u.of)
             PROVE  u \in unexpected <=> u.of \in bundle.ended
  BY DEF OpenTasksAreExcused
<1>1. /\ Replaying /\ ~drift /\ TerminalsSay
      /\ unexpected = {x \in terminals : x.status = "failure" /\ ~Excused(x)}
  BY DEF IInv, Blame
<1>2. /\ u.of \in Tasks /\ u.actor \in Tasks
      /\ u.error \in {"none", "MismatchError", "TimeoutError"}
  BY DEF IInv, TypeOK, PoolTypeOK
<1>3. /\ u.actor = bound[u.of] /\ u.source = SourceNamed(u.of) /\ u.error = "TimeoutError"
  BY <1>1, <1>2 DEF TerminalsSay
<1>4. RecordedLanes /\ bound[u.of] # NoActor
  BY <1>1, <1>2, <1>3, PoolAssumption DEF IInv, Lanes
<1>5. /\ u.actor = Resolved(u.of) /\ u.actor \in bundle.actors
  BY <1>2, <1>3, <1>4 DEF RecordedLanes
<1>6. bundle.lane[u.of] = u.actor
  <2>1. CASE adapter = "mini-swe" /\ bundle.lane[u.of] = NoActor
    <3>1. u.actor = u.of /\ bundle.lane[u.actor] = u.actor
      BY <1>4, <1>5, <2>1 DEF Resolved, RecordedLanes
    <3> QED BY <3>1
  <2>2. CASE bundle.lane[u.of] # NoActor
    BY <1>5, <2>2 DEF Resolved
  <2>3. u.of # NoActor
    BY <1>2, PoolAssumption
  <2> QED BY <2>1, <2>2, <2>3 DEF OwnLane
<1>7. u.source = u.of
  <2>1. CASE adapter = "mini-swe"
    BY <1>3, <2>1 DEF SourceNamed
  <2>2. CASE adapter # "mini-swe"
    <3>1. u.of = bundle.lane[u.of] /\ bound[u.of] = u.of
      BY <1>3, <1>6, <2>2 DEF OwnLane
    <3>2. bundle.lane[bound[u.of]] # NoActor
      BY <1>2, <3>1, PoolAssumption
    <3> QED BY <1>1, <1>3, <2>2, <3>1, <3>2 DEF SourceNamed
  <2> QED BY <2>1, <2>2
<1>8. Excused(u) <=> u.of \notin bundle.ended
  <2>1. bundle.lane[u.of] # NoActor
    BY <1>2, <1>6, PoolAssumption
  <2> QED BY <1>2, <1>3, <1>6, <1>7, <2>1 DEF Excused, CutoffSources
<1> QED BY <1>1, <1>8

(* Open tasks are excused and no others: see ExcusedFromInv. *)
THEOREM OpenTasksExcused == Spec => []OpenTasksAreExcused
BY ExcusedFromInv, Invariance, PTL

(* A recorded restart leaves its marker and its grading behind. *)
LEMMA RestartStep ==
    ASSUME IInv, [Next]_vars, NEW a \in Agents,
           started[a] > 0, started'[a] > started[a], agent[a] # "exited"
    PROVE  /\ got[a] = RecordedIn(a, started[a])
           /\ <<a, started[a] + 1>> \in Invocations
           /\ Trigger[<<a, started[a] + 1>>] # NoTrigger =>
                  attempt[Trigger[<<a, started[a] + 1>>]] = "recorded"
<1>1. started \in [Agents -> Nat]
  BY DEF IInv, TypeOK, TeamTypeOK
<1>2. started' # started
  <2>1. started[a] \in Nat
    BY <1>1
  <2> QED BY <2>1
<1>3. TeamStep
  BY <1>2, Cases DEF teamVars, vars, CloseTeamWindow
<1>4. PICK b \in Agents : StartAgent(b) \/ Resume(b) \/ RestartExited(b)
  BY <1>2, <1>3
     DEF TeamStep, ManagerArrives, StartFails, Monitor, TeamEnds, MonitorInterrupted, Ask,
         Answer, AskPastEnd, Exit, Control, Submit, Graded, StartGrading, WriteGrade,
         RecordGrade, Notice
<1>5. started' = [started EXCEPT ![b] = @ + 1]
  BY <1>4 DEF StartAgent, Resume, RestartExited, StartInvocation
<1>6. a = b
  <2>1. b # a => started'[a] = started[a]
    BY <1>1, <1>5
  <2>2. started[a] \in Nat
    BY <1>1
  <2> QED BY <2>1, <2>2
<1>7. resume[a] # "none"
  <2>1. started[a] # 0
    BY <1>1
  <2>2. ~StartAgent(a)
    BY <2>1 DEF StartAgent
  <2> QED BY <1>4, <1>6, <2>2 DEF Resume, RestartExited
<1>8. /\ got[a] = RecordedIn(a, started[a])
      /\ <<a, started[a] + 1>> \in Controls
      /\ GraderRecorded(Trigger[<<a, started[a] + 1>>])
  BY <1>7 DEF IInv, Markers
<1> QED BY <1>8 DEF Controls, GraderRecorded

(* A replay restarts an agent only where the recording did, after every    *)
(* recorded response of the invocation it leaves and after the grading     *)
(* that led to the next (_advance_pending_resumes, _pending_resumes).      *)
THEOREM RestartsCutNothing == Spec => RestartCutsNothing
<1>1. IInv /\ [Next]_vars =>
        [\A a \in Agents :
          LET n == started[a]
              control == Trigger[<<a, n + 1>>] IN
          n > 0 /\ started'[a] > n /\ agent[a] # "exited" =>
             /\ got[a] = RecordedIn(a, n)
             /\ <<a, n + 1>> \in Invocations
             /\ control # NoTrigger => attempt[control] = "recorded"]_vars
  BY RestartStep
<1> QED BY <1>1, Invariance, PTL DEF Spec, RestartCutsNothing

=============================================================================

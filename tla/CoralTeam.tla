------------------------------ MODULE CoralTeam ------------------------------
(***************************************************************************)
(* The replay of one CORAL team (minireplay/instrumentation/coral.py,      *)
(* coral_control.py, replay_control.py, and the end of a lane in           *)
(* llm_store.py).                                                          *)
(*                                                                         *)
(* A manager process passes the start gate, starts the team's agents and   *)
(* monitors them.  Each agent is an OpenCode process; its n-th start is    *)
(* invocation n, whose LLM requests are a session of their own.  Agents    *)
(* submit attempts, a daemon grades them, and in a live run the manager    *)
(* interrupts an agent after a grading and resumes it with a new prompt.   *)
(* Replay suppresses those interrupts: a restart happens where the         *)
(* recording had one, when every recorded request of the invocation has    *)
(* been delivered (a marker file of the LLM store says so) and the grading *)
(* that triggered it is in the ledger.                                     *)
(*                                                                         *)
(* CORAL's manager and OpenCode are external: they restart an agent that   *)
(* exited, ask to resume one after a grading, and end the team when its    *)
(* invocations reach a limit.                                              *)
(***************************************************************************)
EXTENDS StartGate, Sequences, SequencesExt, FiniteSetsExt

CONSTANTS
    Agents,      \* agents of the team (four in the code)
    Manager,     \* the manager's place at the gate
    Team,        \* the team's actor
    Recorded,    \* [Agents -> Seq(Nat)]: requests recorded in each invocation
    Exits,       \* invocations <<agent, n>> that ended of themselves
    Attempts,    \* attempts submitted for grading
    SubmittedAt, \* [Attempts -> <<agent, invocation, requests delivered before>>]
    Trigger,     \* [invocations -> the grading that led to it, or NoTrigger]
    MaxTurns     \* max_total_turns of the team

NoTrigger == "no trigger"

Invocations == {x \in Agents \X (1 .. 9) : x[2] <= Len(Recorded[x[1]])}
RecordedIn(a, n) == IF n \in 1 .. Len(Recorded[a]) THEN Recorded[a][n] ELSE 0

(* recorded_restart_controls: every recorded invocation but the first has  *)
(* the prompt that began it, with the grading the prompt names, if any.    *)
Controls == {x \in Invocations : x[2] > 1}

ASSUME TeamAssumption ==
    /\ Manager \in Workers /\ Team \in Actors /\ "main" \in Processes
    /\ Recorded \in [Agents -> Seq(Nat \ {0})]
    /\ \A a \in Agents : Len(Recorded[a]) \in 1 .. 9
    /\ Exits \subseteq Invocations
    /\ SubmittedAt \in [Attempts -> Agents \X (1 .. 9) \X Nat]
    /\ Trigger \in [Invocations -> Attempts \cup {NoTrigger}]
    /\ NoTrigger \notin Attempts /\ MaxTurns \in Nat

VARIABLES
    team,        \* the manager
    started,     \* _INVOCATION_COUNTS: [Agents -> invocations started]
    agent,       \* [Agents -> state of its process]
    got,         \* [Agents -> responses delivered in its invocation]
    marker,      \* session-prefix-consumed files: invocations
    attempt,     \* [Attempts -> state]
    seen,        \* attempts the monitor takes for older than the run
    noticed,     \* attempts the monitor has acted upon
    resume,      \* _pending_resumes: [Agents -> how the agent is interrupted]
    ended        \* the team's task terminal

teamVars == <<team, started, agent, got, marker, attempt, seen, noticed, resume, ended>>

TeamInit ==
    /\ team = "off"
    /\ started = [a \in Agents |-> 0]
    /\ agent = [a \in Agents |-> "off"]
    /\ got = [a \in Agents |-> 0]
    /\ marker = {}
    /\ attempt = [g \in Attempts |-> "none"]
    /\ seen = {} /\ noticed = {}
    /\ resume = [a \in Agents |-> "none"]
    /\ ended = "none"

Turns == MapThenSumSet(LAMBDA a : started[a], Agents)

(* Every recorded request has its response.                                *)
Finished(a, n) == started[a] > n \/ (started[a] = n /\ got[a] = RecordedIn(a, n))
AllConsumed == \A x \in Invocations : Finished(x[1], x[2])

-----------------------------------------------------------------------------
(* An agent's invocation *)

(* OpenCodeRuntime.start: the count of the agent's starts names it.        *)
StartInvocation_Bug(a) ==
    /\ started' = [started EXCEPT ![a] = @ + 1]
    /\ agent' = [agent EXCEPT ![a] = "idle"]
    /\ UNCHANGED got
StartInvocation(a) ==
    /\ started' = [started EXCEPT ![a] = @ + 1]
    /\ agent' = [agent EXCEPT ![a] = "idle"]
    /\ got' = [got EXCEPT ![a] = 0]

Due(g, a) == SubmittedAt[g] = <<a, started[a], got[a]>> /\ attempt[g] = "none"

(* The agent has nothing to do before its next request.                    *)
Idle(a) == Alive /\ agent[a] = "idle" /\ \A g \in Attempts : ~Due(g, a)

(* write_attempt: the pending attempt is an artifact of the agent.         *)
Submit(g) ==
    /\ Alive
    /\ \E a \in Agents : agent[a] = "idle" /\ Due(g, a)
    /\ attempt' = [attempt EXCEPT ![g] = "pending"]
    /\ UNCHANGED <<gateVars, team, started, agent, got, marker, seen, noticed, resume, ended>>

Ask(a) ==
    /\ Idle(a)
    /\ got[a] < RecordedIn(a, started[a])
    /\ agent' = [agent EXCEPT ![a] = "asking"]
    /\ UNCHANGED <<gateVars, team, started, got, marker, attempt, seen, noticed, resume, ended>>

Answer(a) ==
    /\ Alive /\ agent[a] = "asking"
    /\ got' = [got EXCEPT ![a] = @ + 1]
    /\ agent' = [agent EXCEPT ![a] = "idle"]
    /\ UNCHANGED <<gateVars, team, started, marker, attempt, seen, noticed, resume, ended>>

(* A request past the recorded ones: the session's marker is written, if   *)
(* it has any, and the request is held.                                    *)
AskPastEnd(a) ==
    /\ Idle(a)
    /\ got[a] = RecordedIn(a, started[a]) /\ <<a, started[a]>> \notin Exits
    /\ marker' = IF got[a] > 0 THEN marker \cup {<<a, started[a]>>} ELSE marker
    /\ agent' = [agent EXCEPT ![a] = "held"]
    /\ UNCHANGED <<gateVars, team, started, got, attempt, seen, noticed, resume, ended>>

Exit(a) ==
    /\ Idle(a)
    /\ got[a] = RecordedIn(a, started[a]) /\ <<a, started[a]>> \in Exits
    /\ agent' = [agent EXCEPT ![a] = "exited"]
    /\ UNCHANGED <<gateVars, team, started, got, marker, attempt, seen, noticed, resume, ended>>

-----------------------------------------------------------------------------
(* The grader daemon *)

Graded(g, from, to) ==
    /\ Alive /\ attempt[g] = from
    /\ attempt' = [attempt EXCEPT ![g] = to]
    /\ UNCHANGED <<gateVars, team, started, agent, got, marker, seen, noticed, resume, ended>>

(* _grade_one begins: the grader's start is granted.                       *)
StartGrading(g) == Graded(g, "pending", "grading")

(* The native grader writes the graded attempt, which the manager sees ... *)
WriteGrade(g) == Graded(g, "grading", "graded")

(* ... before run_grader completes and graders.jsonl has its line.         *)
RecordGrade(g) == Graded(g, "graded", "recorded")

-----------------------------------------------------------------------------
(* The manager *)

(* start_all reaches the gate before it starts an agent.                   *)
ManagerArrives ==
    /\ Alive /\ team = "off"
    /\ team' = "gate"
    /\ Arrive(Manager, "main", Team)
    /\ UNCHANGED <<started, agent, got, marker, attempt, seen, noticed, resume, ended>>

StartAgent(a) ==
    /\ Alive /\ team = "gate" /\ place[Manager] = "inside"
    /\ started[a] = 0
    /\ StartInvocation(a)
    /\ UNCHANGED <<gateVars, team, marker, attempt, seen, noticed, resume, ended>>

(* An agent that does not start ends start_all.                            *)
StartFails ==
    /\ Alive /\ team = "gate" /\ place[Manager] = "inside"
    /\ team' = "ended"
    /\ ended' = "failure"
    /\ UNCHANGED <<gateVars, started, agent, got, marker, attempt, seen, noticed, resume>>

(* monitor_loop begins with the snapshot of the time before start_all.     *)
Monitor ==
    /\ Alive /\ team = "gate"
    /\ \A a \in Agents : started[a] > 0
    /\ team' = "monitoring"
    /\ seen' = {}
    /\ UNCHANGED <<gateVars, started, agent, got, marker, attempt, noticed, resume, ended>>

Monitoring == Alive /\ team = "monitoring"

(* _schedule_interrupt_and_resume: replay refuses a heartbeat.  What it    *)
(* accepts is the manager's own, interrupted at once if it was recorded.   *)
ScheduleInterrupt_Bug(a, source) ==
    resume' = IF source = "heartbeat" THEN resume
              ELSE [resume EXCEPT ![a] = "at turn end"]
ScheduleInterrupt(a, source) ==
    resume' = IF source = "heartbeat" THEN resume ELSE [resume EXCEPT ![a] = "now"]

(* A graded attempt is counted and its agent gets a heartbeat.             *)
Notice(g) ==
    /\ Monitoring
    /\ attempt[g] \in {"graded", "recorded"} /\ g \notin seen \cup noticed
    /\ noticed' = noticed \cup {g}
    /\ ScheduleInterrupt(SubmittedAt[g][1], "heartbeat")
    /\ UNCHANGED <<gateVars, team, started, agent, got, marker, attempt, seen, ended>>

(* The grading that led to a restart is in graders.jsonl.                  *)
GraderRecorded(g) == g # NoTrigger => attempt[g] = "recorded"

(* The recorded restart into the agent's next invocation.                  *)
Restartable_Bug(a) == <<a, started[a]>> \in marker
Restartable(a) ==
    /\ <<a, started[a]>> \in marker
    /\ GraderRecorded(Trigger[<<a, started[a] + 1>>])

Control(a) ==
    /\ Monitoring
    /\ resume[a] = "none" /\ started[a] > 0
    /\ <<a, started[a] + 1>> \in Controls
    /\ Restartable(a)
    /\ ScheduleInterrupt(a, "recorded")
    /\ UNCHANGED <<gateVars, team, started, agent, got, marker, attempt, seen, noticed, ended>>

(* The agent is interrupted, at the end of its turn or at once, and        *)
(* resumed as the next invocation.                                         *)
Resume(a) ==
    /\ Monitoring
    /\ resume[a] # "none"
    /\ resume[a] = "at turn end" => agent[a] \in {"idle", "exited"}
    /\ resume' = [resume EXCEPT ![a] = "none"]
    /\ StartInvocation(a)
    /\ UNCHANGED <<gateVars, team, marker, attempt, seen, noticed, ended>>

(* restart_exited: an agent that exited is started again.                  *)
RestartExited(a) ==
    /\ Monitoring
    /\ agent[a] = "exited" /\ resume[a] = "none"
    /\ StartInvocation(a)
    /\ UNCHANGED <<gateVars, team, marker, attempt, seen, noticed, resume, ended>>

(* max_total_turns: the agents are killed, and the team has a terminal.    *)
TeamEnds ==
    /\ Monitoring
    /\ Turns >= MaxTurns
    /\ team' = "ended"
    /\ ended' = "success"
    /\ agent' = [a \in Agents |-> "exited"]
    /\ UNCHANGED <<gateVars, started, got, marker, attempt, seen, noticed, resume>>

(* The interrupt ends monitor_loop before the manager has an end of its    *)
(* own: no terminal is written.                                            *)
MonitorInterrupted ==
    /\ Monitoring /\ sup = "stopping"
    /\ team' = "ended"
    /\ UNCHANGED <<gateVars, started, agent, got, marker, attempt, seen, noticed, resume, ended>>

TeamStep ==
    \/ ManagerArrives \/ StartFails \/ Monitor \/ TeamEnds \/ MonitorInterrupted
    \/ \E a \in Agents :
          \/ StartAgent(a) \/ Ask(a) \/ Answer(a) \/ AskPastEnd(a) \/ Exit(a)
          \/ Control(a) \/ Resume(a) \/ RestartExited(a)
    \/ \E g \in Attempts :
          \/ Submit(g) \/ StartGrading(g) \/ WriteGrade(g) \/ RecordGrade(g) \/ Notice(g)

TeamTypeOK ==
    /\ team \in {"off", "gate", "monitoring", "ended"}
    /\ started \in [Agents -> Nat] /\ got \in [Agents -> Nat]
    /\ \A a \in Agents : got[a] <= RecordedIn(a, started[a])
    /\ agent \in [Agents -> {"off", "idle", "asking", "held", "exited"}]
    /\ marker \subseteq Invocations
    /\ attempt \in [Attempts -> {"none", "pending", "grading", "graded", "recorded"}]
    /\ seen \subseteq Attempts /\ noticed \subseteq Attempts
    /\ resume \in [Agents -> {"none", "at turn end", "now"}]
    /\ ended \in {"none", "success", "failure"}

=============================================================================

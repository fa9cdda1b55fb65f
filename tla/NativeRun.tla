----------------------------- MODULE NativeRun -----------------------------
(***************************************************************************)
(* One run of the supervisor with the sweep it launches: the start gate    *)
(* with a pool of workers behind it (Owl, mini-swe, Trae; recorded, then   *)
(* replayed) or with a CORAL team (replayed).                              *)
(***************************************************************************)
EXTENDS TaskPool, CoralTeam

vars == <<gateVars, poolVars, teamVars>>

Coral == adapter = "coral"

(* The bench runs as many actors as the run declares, or one CORAL team.   *)
Concurrency == IF Coral THEN 1 ELSE Cardinality(Workers)

Init ==
    /\ GateInit /\ PoolInit /\ TeamInit
    /\ adapter \in {"owl", "mini-swe", "trae", "coral"}

LaunchStep ==
    /\ LauncherStops \/ SweepExits
    /\ UNCHANGED <<poolVars, teamVars>>

GateStep ==
    /\ \/ Attach \/ Continue
       \/ OpenGate(Concurrency) \/ GiveUp(Concurrency)
       \/ \E w \in Workers : Pass(w)
    /\ UNCHANGED <<poolVars, teamVars>>

(* A replay's window closes with the last recorded response of the team.   *)
CloseTeamWindow ==
    /\ sup = "window" /\ launch = "running"
    /\ AllConsumed
    /\ sup' = "stopping"
    /\ UNCHANGED <<launch, accounted, gate, ready, gated, place, poolVars, teamVars>>

PoolRun ==
    /\ ~Coral
    /\ SuperviseStep \/ \E w \in Workers : PoolStep(w)
    /\ UNCHANGED teamVars

TeamRun ==
    /\ Coral
    /\ \/ TeamStep /\ UNCHANGED poolVars
       \/ CloseTeamWindow
       \/ WindowFails /\ UNCHANGED teamVars

Next == LaunchStep \/ GateStep \/ PoolRun \/ TeamRun

(* The processes of a team that runs are scheduled.                        *)
Fairness ==
    /\ \A a \in Agents :
          /\ WF_vars(Coral /\ (Ask(a) \/ Answer(a) \/ AskPastEnd(a) \/ Exit(a))
                     /\ UNCHANGED poolVars)
          /\ WF_vars(Coral /\ (Control(a) \/ Resume(a) \/ RestartExited(a))
                     /\ UNCHANGED poolVars)
    /\ \A g \in Attempts :
          WF_vars(/\ Coral
                  /\ Submit(g) \/ StartGrading(g) \/ WriteGrade(g) \/ RecordGrade(g)
                  /\ UNCHANGED poolVars)

Spec == Init /\ [][Next]_vars /\ Fairness

TypeOK == GateTypeOK /\ PoolTypeOK /\ TeamTypeOK

-----------------------------------------------------------------------------
(* No task and no agent begins before the gate opens, and then the sweep   *)
(* is under accounting (ready_and_wait gate.py:201-277, Supervisor._launch *)
(* and _open_gate).  A task whose environment failed leaves its worker free*)
(* for another of the same lane, so this is said of runs without one.      *)
Begun(w) == phase[w] \notin {"free", "setup", "gate"}

StartTogether ==
    /\ ~gate /\ faults = 0 =>
          /\ \A w \in Workers : place[w] # "inside" /\ ~Begun(w)
          /\ \A a \in Agents : started[a] = 0
    /\ launch = "running" => accounted

(* Two workers never run tasks of one session at the same time, in a       *)
(* replay that puts tasks on recorded lanes as well (_causal_lane_lock     *)
(* gate.py:115-140, bind_task_lane, SessionFor of the adapters).           *)
LanesAreSerial ==
    \A v, w \in Workers : v # w /\ Begun(v) /\ Begun(w) =>
        SessionFor(task[v]) # SessionFor(task[w])

(* Of the tasks that name a recorded lane of their own, a replay blames    *)
(* those that failed although the recording has their end, and excuses     *)
(* those that were open at its cutoff (_unexpected_failed_tasks            *)
(* supervisor.py:770-802, cutoff_source_actor_ids bundle.py:105-128; held  *)
(* calls end in the SDK's timeout, sdk.py:420).                            *)
OwnLane(t) == adapter = "mini-swe" \/ t = bundle.lane[t]

OpenTasksAreExcused ==
    sup = "judged" => \A t \in terminals :
        t.status = "failure" /\ OwnLane(t.of) =>
            (t \in unexpected <=> t.of \in bundle.ended)

(* A replay restarts a CORAL agent only when every response recorded in    *)
(* the invocation it leaves was delivered and the grading that led to the  *)
(* next one is in the ledger (_advance_pending_resumes coral.py:446-490,   *)
(* _schedule_interrupt_and_resume coral.py:416-429).                       *)
RestartCutsNothing ==
    [][\A a \in Agents :
          LET n == started[a]
              control == Trigger[<<a, n + 1>>] IN
          n > 0 /\ started'[a] > n /\ agent[a] # "exited" =>
             /\ got[a] = RecordedIn(a, n)
             /\ <<a, n + 1>> \in Invocations
             /\ control # NoTrigger => attempt[control] = "recorded"]_vars

(* A team that is monitored gets every recorded invocation, unless the     *)
(* team or the run ends first (_request_interrupt coral.py:432-443: a      *)
(* recorded restart does not wait for the end of a turn, which a held      *)
(* request never reaches).                                                 *)
RecordedInvocationsStart ==
    \A a \in Agents :
        team = "monitoring" ~>
            (started[a] >= Len(Recorded[a]) \/ team = "ended" \/ ~Alive)

=============================================================================

----------------------------- MODULE StartGate -----------------------------
(***************************************************************************)
(* How a run starts (minireplay/exec_gate.py, supervisor.py,               *)
(* instrumentation/gate.py).                                               *)
(*                                                                         *)
(* The supervisor spawns a launcher that stops itself, puts it under       *)
(* accounting, continues it, and the launcher becomes the native sweep.    *)
(* Each worker of the sweep that is about to run its first task leaves a   *)
(* ready file with its actor's name and waits for the gate file.  The      *)
(* supervisor opens the gate when as many actors as the declared           *)
(* concurrency are ready.  An actor that its process has marked as gated   *)
(* does not wait again, and after the gate is open nobody does.            *)
(***************************************************************************)
EXTENDS Integers, FiniteSets

CONSTANTS
    Workers,     \* execution slots of the sweep: pool workers, CORAL managers
    Actors,      \* names of lanes
    Processes    \* operating system processes of the sweep

VARIABLES
    launch,      \* the launcher, then the native sweep
    accounted,   \* its process is in the run's cgroup
    sup,         \* where the supervisor's run() is
    gate,        \* the gate file exists
    ready,       \* actors with a ready file
    gated,       \* _GATED of all processes: {<<process, actor>>}
    place        \* [Workers -> where the worker is with respect to the gate]

gateVars == <<launch, accounted, sup, gate, ready, gated, place>>

GateInit ==
    /\ launch = "spawned"
    /\ accounted = FALSE
    /\ sup = "attach"
    /\ gate = FALSE
    /\ ready = {}
    /\ gated = {}
    /\ place = [w \in Workers |-> "outside"]

(* The next run of the supervisor starts from the beginning.               *)
GateRestart ==
    /\ launch' = "spawned"
    /\ accounted' = FALSE
    /\ sup' = "attach"
    /\ gate' = FALSE
    /\ ready' = {}
    /\ gated' = {}
    /\ place' = [w \in Workers |-> "outside"]

GateTypeOK ==
    /\ launch \in {"spawned", "stopped", "running", "exited"}
    /\ accounted \in BOOLEAN /\ gate \in BOOLEAN
    /\ sup \in {"attach", "continue", "gather", "window", "stopping", "recorded",
                "judged", "failed"}
    /\ ready \subseteq Actors
    /\ gated \subseteq Processes \X Actors
    /\ place \in [Workers -> {"outside", "waiting", "inside"}]

(* Native code runs: the sweep lives until the supervisor has stopped it.  *)
Alive == launch = "running" /\ sup \in {"gather", "window", "stopping"}

-----------------------------------------------------------------------------
(* The launcher *)

LauncherStops ==
    /\ launch = "spawned"
    /\ launch' = "stopped"
    /\ UNCHANGED <<accounted, sup, gate, ready, gated, place>>

(* A launcher or a sweep may end before its actors are ready.              *)
SweepExits ==
    /\ launch \in {"spawned", "running"} /\ ~gate
    /\ launch' = "exited"
    /\ UNCHANGED <<accounted, sup, gate, ready, gated, place>>

-----------------------------------------------------------------------------
(* The supervisor *)

(* _wait_stopped has seen the launcher stopped: add it to the cgroup.      *)
Attach ==
    /\ sup = "attach" /\ launch = "stopped"
    /\ accounted' = TRUE
    /\ sup' = "continue"
    /\ UNCHANGED <<launch, gate, ready, gated, place>>

Continue ==
    /\ sup = "continue"
    /\ launch' = "running"
    /\ sup' = "gather"
    /\ UNCHANGED <<accounted, gate, ready, gated, place>>

(* _wait_actors_ready counts the ready files; _open_gate.                  *)
OpenGate(concurrency) ==
    /\ sup = "gather"
    /\ Cardinality(ready) >= concurrency
    /\ gate' = TRUE
    /\ sup' = "window"
    /\ UNCHANGED <<launch, accounted, ready, gated, place>>

GiveUp(concurrency) ==
    /\ sup \in {"attach", "gather"} /\ launch = "exited"
    /\ Cardinality(ready) < concurrency
    /\ sup' = "failed"
    /\ UNCHANGED <<launch, accounted, gate, ready, gated, place>>

-----------------------------------------------------------------------------
(* The workers: ready_and_wait *)

(* The mark as a gated actor is per process and actor.                     *)
GateKey_Bug(p, actor) == <<p, CHOOSE a \in Actors : TRUE>>
GateKey(p, actor) == <<p, actor>>

Arrive(w, p, actor) ==
    /\ place[w] = "outside"
    /\ gated' = gated \cup {GateKey(p, actor)}
    /\ IF GateKey(p, actor) \in gated \/ gate
       THEN /\ place' = [place EXCEPT ![w] = "inside"]
            /\ UNCHANGED ready
       ELSE /\ place' = [place EXCEPT ![w] = "waiting"]
            /\ ready' = ready \cup {actor}
    /\ UNCHANGED <<launch, accounted, sup, gate>>

Pass(w) ==
    /\ Alive
    /\ place[w] = "waiting" /\ gate
    /\ place' = [place EXCEPT ![w] = "inside"]
    /\ UNCHANGED <<launch, accounted, sup, gate, ready, gated>>

=============================================================================

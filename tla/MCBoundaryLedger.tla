------------------------- MODULE MCBoundaryLedger -------------------------
(* A recording of two actors that were live at the cutoff and one that had *)
(* finished: a session lane where the composite task tail c1 retries the   *)
(* closed task o1 and is followed by the ordinary tail t1, a lane with     *)
(* nothing but the pre-dispatch marker p1, and, of the finished actor, a   *)
(* lane of two closed operations without tails and an empty one.           *)
EXTENDS BoundaryLedger, TLC

MCKeys == {"taskLane", "markerLane", "plainLane", "emptyLane"}
MCActors == {"live", "other", "finished"}
MCActorOf ==
    "taskLane" :> "live" @@ "markerLane" :> "other"
    @@ "plainLane" :> "finished" @@ "emptyLane" :> "finished"

MCOps == {"o1", "o2", "o3", "c1", "t1", "p1"}
MCExpected ==
    "taskLane" :> <<"o1">> @@ "markerLane" :> <<>>
    @@ "plainLane" :> <<"o2", "o3">> @@ "emptyLane" :> <<>>
MCCutoffExpected ==
    "taskLane" :> <<"c1", "t1">> @@ "markerLane" :> <<"p1">>
    @@ "plainLane" :> <<>> @@ "emptyLane" :> <<>>

MCIdentities == {"task", "other"}
MCIdentity == [op \in MCOps |-> IF op \in {"o1", "o2", "c1"} THEN "task" ELSE "other"]
MCModelCall == [op \in MCOps |-> IF op = "p1" THEN "call1" ELSE "call2"]
MCRequired == [op \in MCOps |-> IF op = "c1" THEN 1 ELSE 0]
=============================================================================

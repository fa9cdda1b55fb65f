---------------------------- MODULE MCReplayRun ----------------------------
(* The recording: in actor "live", m1 asks for the task c1, open at the    *)
(* cutoff, whose child session was answered k1 and ran b1, and then had    *)
(* the same call again, t1, open.  In actor "other",                       *)
(* also live at the cutoff, s1 led to g1, after which a new session had its *)
(* first LLM request in flight: the lane of that session holds no attempt.  *)
EXTENDS ReplayRun, TLC

MCKeys == {"mainLane", "childLane", "gradeLane"}
MCActors == {"live", "other"}
MCActorOf == [k \in MCKeys |-> IF k = "gradeLane" THEN "other" ELSE "live"]
MCOps == {"c1", "b1", "t1", "g1"}
MCExpected ==
    "mainLane" :> <<>> @@ "childLane" :> <<"b1">> @@ "gradeLane" :> <<"g1">>
MCCutoffExpected ==
    [k \in MCKeys |-> CASE k = "mainLane" -> <<"c1">> [] k = "childLane" -> <<"t1">> [] OTHER -> <<>>]
MCIdentities == {"task", "fill", "else"}
MCIdentity ==
    "c1" :> "task" @@ "b1" :> "fill" @@ "t1" :> "fill" @@ "g1" :> "else"
MCModelCall == [op \in MCOps |-> "call"]
MCRequired == [op \in MCOps |-> IF op = "c1" THEN 1 ELSE 0]

MCLanes == {"main", "child", "side", "coda"}
MCLaneActor == "main" :> "live" @@ "child" :> "live" @@ "side" :> "other"
    @@ "coda" :> "other"
MCAttempts == {"m1", "k1", "s1"}
MCRecorded == "main" :> <<"m1">> @@ "child" :> <<"k1">> @@ "side" :> <<"s1">> @@ "coda" :> <<>>
MCShape == [a \in MCAttempts |-> "chat"]

OpCall(k, i) == [key |-> k, identity |-> i, call |-> "call"]
MCOpRequest ==
    "c1" :> OpCall("mainLane", "task")
    @@ "b1" :> OpCall("childLane", "fill") @@ "t1" :> OpCall("childLane", "fill")
    @@ "g1" :> OpCall("gradeLane", "else")

LLMCall(l) == [lane |-> l, shape |-> "chat"]
MCLLMRequest ==
    "m1" :> LLMCall("main") @@ "k1" :> LLMCall("child")
    @@ "s1" :> LLMCall("side") @@ "next" :> LLMCall("coda")

MCCalls == DOMAIN MCOpRequest \cup DOMAIN MCLLMRequest
At(f) == [c \in MCCalls |-> IF c \in DOMAIN f THEN f[c] ELSE {}]
MCAfterEnd == At("b1" :> {"k1"} @@ "t1" :> {"b1"} )
MCAfterBytes ==
    At("c1" :> {"m1"} @@ "g1" :> {"s1"} @@ "next" :> {"s1", "g1"})
MCWithin == At("k1" :> {"c1"} @@ "b1" :> {"c1"} @@ "t1" :> {"c1"})
MCPlace == [c \in MCCalls |-> IF c = "t1" THEN 2 ELSE 1]
MCWork == [op \in MCOps |-> IF op = "c1" THEN {"k1", "b1"} ELSE {}]

(* The same recording, with a second child session of c1, parallel to the  *)
(* first, whose first LLM request was in flight at the cutoff as well.     *)
MCFreshLanes == MCLanes \cup {"fresh"}
MCFreshLaneActor == MCLaneActor @@ "fresh" :> "live"
MCFreshRecorded == MCRecorded @@ "fresh" :> <<>>
MCFreshLLMRequest == MCLLMRequest @@ "first" :> LLMCall("fresh")
MCFreshPlace == MCPlace @@ "first" :> 1
MCFreshAfterEnd == MCAfterEnd @@ "first" :> {}
MCFreshAfterBytes == MCAfterBytes @@ "first" :> {}
MCFreshWithin == MCWithin @@ "first" :> {"c1"}
=============================================================================

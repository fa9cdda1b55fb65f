---------------------------- MODULE MCLLMStore ----------------------------
(* Two lanes of an actor that was live at the cutoff, one of an actor that *)
(* had finished, and a lane of that actor the recording never used.        *)
EXTENDS LLMStore, TLC

MCLanes == {"main", "child", "done", "unused"}
MCLaneActors == {"live", "finished"}
MCLaneActor ==
    "main" :> "live" @@ "child" :> "live" @@ "done" :> "finished" @@ "unused" :> "finished"
MCAttempts == {"m1", "m2", "c1", "d1"}
MCRecorded ==
    "main" :> <<"m1", "m2">> @@ "child" :> <<"c1">> @@ "done" :> <<"d1">> @@ "unused" :> <<>>
MCShapes == {"chat", "responses"}
MCShape == [a \in MCAttempts |-> IF a = "m2" THEN "responses" ELSE "chat"]
=============================================================================

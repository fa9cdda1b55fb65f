--------------------------- MODULE MCRecordCutoff ---------------------------
(* A streamed response p names two tasks, B and A, and an ordinary native  *)
(* operation follows the plain response q.  A child session of task A asks *)
(* for c.                                                                  *)
EXTENDS RecordCutoff, TLC

MCAttempts == {"p", "q", "c"}
MCOps == {"A", "B", "w"}
MCTrigger == "A" :> "p" @@ "B" :> "p" @@ "w" :> "q"
MCCalls == <<"w", "B", "A">>
MCParent == [x \in MCAttempts \cup MCOps |-> IF x = "c" THEN "A" ELSE "none"]
MCAfter == [a \in MCAttempts |-> IF a = "p" THEN {"w"} ELSE {}]

(* Two sibling tasks with a child attempt each, for the adoption of child  *)
(* sessions.                                                               *)
MCSiblingAttempts == {"p", "c", "d"}
MCSiblingOps == {"A", "B"}
MCSiblingTrigger == "A" :> "p" @@ "B" :> "p"
MCSiblingCalls == <<"A", "B">>
MCSiblingParent ==
    "p" :> "none" @@ "c" :> "A" @@ "d" :> "B" @@ "A" :> "none" @@ "B" :> "none"
MCSiblingAfter == [a \in MCSiblingAttempts |-> {}]
=============================================================================

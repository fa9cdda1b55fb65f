-------------------------- MODULE MCOpenCodePlugin --------------------------
(* The main session calls the task `hooked' beside a bash call, and then    *)
(* the task `second', which OpenCode runs without its before hook.          *)
EXTENDS OpenCodePlugin, TLC

MCCalls == {"hooked", "bash", "second"}
MCTaskCalls == {"hooked", "second"}
MCSessionOf == [c \in MCCalls |-> "main"]
MCChildren == {"child", "grown"}
MCTaskOf == "child" :> "hooked" @@ "grown" :> "second"
MCAfter == [c \in MCCalls |-> IF c = "second" THEN {"hooked"} ELSE {}]
=============================================================================

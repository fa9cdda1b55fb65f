---------------------------- MODULE MCNativeRun ----------------------------
(* Three tasks on two workers, or a team of two agents: one is restarted by *)
(* a grading of its own, the other exits and is restarted by a second.     *)
EXTENDS NativeRun

MCQueue == <<"t1", "t2", "t3">>
MCCalls == [t \in Tasks |-> 1]

MCRecorded == [a \in Agents |-> IF a = "a1" THEN <<2, 1, 1>> ELSE <<1, 1>>]
MCExits == {<<"a2", 1>>, <<"a2", 2>>}
MCSubmittedAt == [g \in Attempts |-> IF g = "g1" THEN <<"a1", 1, 1>> ELSE <<"a2", 1, 1>>]
MCTrigger == [x \in Invocations |-> IF x = <<"a1", 2>> THEN "g1" ELSE NoTrigger]

=============================================================================

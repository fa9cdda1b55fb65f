--------------------------- MODULE ReplayContract ---------------------------
(***************************************************************************)
(* What fixed-work replay promises a framework, independent of transport,  *)
(* cursors and cutoff handling: recorded operations are entered at most    *)
(* once, in the order of their causal lane, nothing else is ever entered,  *)
(* and only an operation the source closed is ever answered, after it was  *)
(* entered.  BoundaryLedger and LLMStore each implement this contract.     *)
(***************************************************************************)
CONSTANTS
    Ops,         \* recorded operations
    Enterable,   \* those replay may let the framework enter
    Answerable,  \* those the source closed, so that a result exists
    Before       \* [Ops -> SUBSET Ops]: must be entered earlier

VARIABLES entered, answered

contractVars == <<entered, answered>>

Init == entered = {} /\ answered = {}

Enter(op) ==
    /\ op \in Enterable \ entered
    /\ Before[op] \subseteq entered
    /\ entered' = entered \cup {op}
    /\ UNCHANGED answered

Answer(op) ==
    /\ op \in (Answerable \cap entered) \ answered
    /\ answered' = answered \cup {op}
    /\ UNCHANGED entered

Next == \E op \in Ops : Enter(op) \/ Answer(op)

Spec == Init /\ [][Next]_contractVars

=============================================================================

---------------------------- MODULE MCForcedAudit ----------------------------
(* A forced, a captured and an ordinary request share two rows.  The forced *)
(* one's recording drew a, of which nothing was committed, and b, which was; *)
(* the engine may commit where the recording did, or one sample early.       *)
EXTENDS ForcedAudit

CONSTANTS force, capture, plain, a, b

MCRequests == {force, capture, plain}
MCMode == [r \in MCRequests |-> CASE r = force -> "force" [] r = capture -> "capture" [] OTHER -> "plain"]
MCTokens == [r \in MCRequests |-> IF r = force THEN <<b>> ELSE <<>>]
MCStart == [r \in MCRequests |-> IF r = force THEN 1 ELSE 0]
MCExpected == [r \in MCRequests |-> IF r = force THEN 2 ELSE 0]
MCCommitLength == [r \in MCRequests |-> 1]
MCNatural == [r \in MCRequests |-> IF r = capture THEN {a, b} ELSE {a}]
MCMaxDrawn == [r \in MCRequests |-> CASE r = force -> 3 [] r = capture -> 2 [] OTHER -> 1]
MCCommitStarts == [r \in MCRequests |-> IF r = force THEN {0, 1} ELSE IF r = capture THEN {1} ELSE {0}]

Recorded == S!Line(force, "earlier run", "force", "complete", <<a, b>>, 1, 1)
MCHistories == {<<Recorded>>}
MCForeignLines == {S!Line(force, "other engine", "force", "complete", <<a, b>>, 1, 1)}
=============================================================================

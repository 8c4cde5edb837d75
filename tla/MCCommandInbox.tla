--------------------------- MODULE MCCommandInbox ---------------------------
(***************************************************************************)
(* The inbox alone, under arbitrary callers: two Runs of one lane, the     *)
(* first with a cancel.                                                    *)
(***************************************************************************)
EXTENDS CommandInbox

CONSTANTS p1, p2, l1, k1

TwoRuns == {1, 2}
Script == {1, 2, 3}
ScriptRunOf == [c \in Script |-> IF c = 2 THEN 2 ELSE 1]
ScriptKind == [c \in Script |-> IF c = 3 THEN "cancel" ELSE "start"]
OneLane == [r \in TwoRuns |-> l1]
=============================================================================

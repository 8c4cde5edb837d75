--------------------------- MODULE MCCommandWorker ---------------------------
(***************************************************************************)
(* Small instances of CommandWorker.  A script lists the Commands that may *)
(* be enqueued, in (created_at, id) order, as <<kind, Run>>.               *)
(***************************************************************************)
EXTENDS CommandWorker, Sequences, TLC

CONSTANTS s1, s2, p1, p2, t1, k1, l1

RunsIn(script) == {script[i][2] : i \in DOMAIN script}
RunsOf(script) == [i \in DOMAIN script |-> script[i][2]]
KindsOf(script) == [i \in DOMAIN script |-> script[i][1]]
AnswersOf(script) ==
    [i \in DOMAIN script |-> IF script[i][1] = "resume" THEN k1 ELSE NoCorrelation]

\* One Run: its start, an answer to a wait, and a cancel.
OneRun == <<<<"start", 1>>, <<"resume", 1>>, <<"cancel", 1>>>>
OneRunCommands == DOMAIN OneRun
OneRunRuns == RunsIn(OneRun)
OneRunRunOf == RunsOf(OneRun)
OneRunKind == KindsOf(OneRun)
OneRunAnswers == AnswersOf(OneRun)

\* A cancel, and a resume enqueued after it.
LateResume == <<<<"start", 1>>, <<"cancel", 1>>, <<"resume", 1>>>>
LateResumeKind == KindsOf(LateResume)
LateResumeAnswers == AnswersOf(LateResume)

\* Two Runs of one Session: one Thread, one lane.
TwoRuns == <<<<"start", 1>>, <<"start", 2>>, <<"resume", 1>>>>
TwoRunsRuns == RunsIn(TwoRuns)
TwoRunsRunOf == RunsOf(TwoRuns)
TwoRunsKind == KindsOf(TwoRuns)
TwoRunsAnswers == AnswersOf(TwoRuns)

CheckpointIds == Commands \X Dispositions

NoLanes == [r \in Runs |-> NoLane]
OneLane == [r \in Runs |-> l1]
OneThread == [r \in Runs |-> t1]

TwoProcesses == (s1 :> p1) @@ (s2 :> p2)
OneProcess == (s1 :> p1) @@ (s2 :> p1)
=============================================================================
